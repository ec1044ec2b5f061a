SPECIFICATION FairSpec
CONSTANTS
    Docs = {d1}
    Durable = {}
    Collections = {}
    Updates = {u1}
    Sessions = {s1, s2}
    Background = bg
    Tasks = {s1, s2, bg}
    None = none
    Gens = {1, 2, 3}
    Requests = {"update", "share", "delete", "leave"}
    StorageErrors = FALSE
    IdleEviction = TRUE
    MaxDocuments = 1
    CompactThreshold = 2
    MaxWalEntries = 0
    MaxSent = 2
    MaxCrashes = 1
INVARIANT
    TypeOK
PROPERTY
    Reclaimed
CHECK_DEADLOCK FALSE
