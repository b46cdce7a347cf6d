SPECIFICATION FairLifeSpec
CONSTANTS
    chapter = chapter
    episode = episode
    A = A
    B = B
    Downloads <- MCDownloads
    SourceOf <- MCSourceOf
    Manga <- MCManga
    Limits = {1, 2}
    Orders <- MCOrders
    OldRecords <- MCOldRecords
    MaxWrites = 2
    MaxRequests = 2
INVARIANTS
    LifeTypeOK
    SlotsFollowAttempts
    MissingMeansCancelled
PROPERTIES
    AttemptsEnd
    CompletionRecorded
    FailureRecorded
CHECK_DEADLOCK FALSE
