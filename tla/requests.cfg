SPECIFICATION Spec
CONSTANTS
    Workers = {w1}
    NoWorker = NoWorker
    Requests = {q1, q2}
    MaxAttempts = 2
    LeaseTicks = 1
    StaleTicks = 1
    PreflightOutcomes = {"pass", "warning", "reject"}
    ExtractionOutcomes = {"success", "failed"}
SYMMETRY Symmetry
INVARIANTS OneActiveAttempt StatusTellsLastRun ExtractionIsAdmitted
