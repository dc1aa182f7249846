SPECIFICATION Spec
CONSTANTS
    Users = {u1, u2}
    Assessments = {a1, a2}
    Values = {v1}
    Kinds = {"select_one", "defer"}
    Submissions = {s1, s2}
    None = None
    MaxDecisions = 2
SYMMETRY Symmetry
INVARIANTS DecisionsChain CommittedIsNotStale
PROPERTIES SupersedesWhatWasSeen ImplementsLog
