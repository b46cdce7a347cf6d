SPECIFICATION LifeSpec
CONSTANTS
    chapter = chapter
    episode = episode
    A = A
    B = B
    Downloads <- MCDownloads
    SourceOf <- MCSourceOf
    Manga <- MCManga
    Limits = {1}
    Orders <- MCOrders
    OldRecords <- MCOldRecords
    MaxWrites = 2
    MaxRequests = 1
PROPERTIES
    NoResurrection
CHECK_DEADLOCK FALSE
