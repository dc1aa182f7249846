SPECIFICATION Spec
CONSTANTS
    Workers = {w1}
    NoWorker = NoWorker
    Requests = {q1, q2}
    MaxAttempts = 2
    LeaseTicks = 1
    StaleTicks = 1
    PreflightOutcomes = {"warning"}
    ExtractionOutcomes = {"success"}
PROPERTY DecisionIsFinal
