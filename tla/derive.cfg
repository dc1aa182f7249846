SPECIFICATION Spec
CONSTANTS
    UploadLimit = 6
    ChunkLimit = 3
    EntryLimit = 2
    Inputs <- MCInputs
INVARIANTS
    PreflightIsSound
    GroupingIsRight
    RequestsAreRight
    AlterationsAreRefused
    EffectiveIsCurrent
    BlocksAreMatched
    UpdatesAreReviewed
    SchemaMovesForward
    ViewsTellTheTruth
CHECK_DEADLOCK FALSE
