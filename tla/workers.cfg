SPECIFICATION FairSpec
CONSTANTS
    Workers = {w1, w2}
    NoWorker = NoWorker
    Requests = {q1}
    MaxAttempts = 2
    LeaseTicks = 2
    StaleTicks = 1
    PreflightOutcomes = {"pass"}
    ExtractionOutcomes = {"success", "needs_ocr"}
INVARIANTS Inv
PROPERTIES CompletedUnderLease ImplementsLedger
PROPERTY LeaseEventuallyEnds
