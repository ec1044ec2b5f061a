SPECIFICATION Spec
CONSTANTS
    Docs = {c1}
    Durable = {c1}
    Collections = {c1}
    Updates = {u1}
    Sessions = {s1}
    Background = bg
    Tasks = {s1, bg}
    None = none
    Gens = {1, 2}
    Requests = {"kbshare", "leave"}
    StorageErrors = FALSE
    IdleEviction = TRUE
    MaxDocuments = 1
    CompactThreshold = 2
    MaxWalEntries = 0
    MaxSent = 2
    MaxCrashes = 1
PROPERTY
    DurableLeavesOnRequest
CHECK_DEADLOCK FALSE
