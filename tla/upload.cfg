SPECIFICATION FairUploadSpec
CONSTANTS
    UploadRequests = {r1, r2, r3}
    Documents = {d1}
    Uploads <- MCUploads
    UploadLimit = 4
    ChunkLimit = 2
    EntryLimit = 2
    None = None
INVARIANTS HistoryStaysLinear FilesFollowAnswers LeftoversAreExplained
PROPERTIES UploadEnds
CHECK_DEADLOCK FALSE
