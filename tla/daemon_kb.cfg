SPECIFICATION Spec
CONSTANTS
    Docs = {c1, n1}
    Durable = {c1, n1}
    Collections = {c1}
    Updates = {u1}
    Sessions = {s1}
    Background = bg
    Tasks = {s1, bg}
    None = none
    Gens = {1, 2, 3}
    Requests = {"kbshare", "kbjoin", "kbleave", "fetch", "leave", "relay", "read",
                "state"}
    StorageErrors = FALSE
    IdleEviction = TRUE
    MaxDocuments = 1
    CompactThreshold = 1
    MaxWalEntries = 0
    MaxSent = 2
    MaxCrashes = 0
PROPERTY
    LostByReplaceOrCompaction
CHECK_DEADLOCK FALSE
VIEW View
