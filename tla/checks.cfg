CONSTANTS
    Callers = {c1, c2}
    Nil = Nil
    Extracted <- MCExtracted
    MaxBatches = 2
    Config <- MCConfig
    Texts = {"compatible", "conflict"}
    MaxFailures = 1
    MaxLosses = 1
SPECIFICATION FairCheckSpec
INVARIANTS ToldIsBacked AnsweredOnce OnlyFaultsAbandon
PROPERTY CheckGetsStored
CHECK_DEADLOCK FALSE
