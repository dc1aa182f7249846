SPECIFICATION FairSpec
CONSTANTS
    w1 = w1  w2 = w2  t1 = t1  t2 = t2
    Workers = {w1, w2}
    Tokens = {t1}
    NoToken = NoToken
    BatchCount = 1
    MaxAttempts = 2
    MaxOrchestrations = 1
INVARIANTS CallsWithinAttempts
PROPERTIES CallReturns AnswerIsKept
CHECK_DEADLOCK FALSE
