SPECIFICATION VersionsSpec
CONSTANTS
    Users = {u1, u2}
    Assessments = {a1, a2}
    Values = {v1}
    Kinds = {"select_one"}
    Submissions = {s1}
    None = None
    MaxDecisions = 2
    VersionIds = {p1, p2}
    Creations = {c1, c2}
SYMMETRY Symmetry
PROPERTY VersionsMoveForward
