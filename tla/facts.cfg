SPECIFICATION FairSpec
CONSTANTS
    Callers = {c1, c2}
    Names = {"a", "b", "x"}
    Hashes = {"h1"}
    Responses <- MCResponses
    NewEntities <- MCEntities
    None = None
    MaxCalls = 3
INVARIANTS ValuesAreOrdered AppliedIsWhole
PROPERTIES NothingIsUndone EveryCallEnds
CHECK_DEADLOCK FALSE
