SPECIFICATION Spec
CONSTANTS
    w1 = w1  w2 = w2  t1 = t1  t2 = t2
    Workers = {w1, w2}
    Tokens = {t1, t2}
    NoToken = NoToken
    BatchCount = 1
    MaxAttempts = 1
    MaxOrchestrations = 2
SYMMETRY Symmetry
INVARIANTS OneCallPerRun OutcomeIsBacked
PROPERTIES EndedIsFinal ImplementsRequestLog
CHECK_DEADLOCK FALSE
