SPECIFICATION Spec
CONSTANTS
    Docs = {d1}
    Durable = {}
    Collections = {}
    Updates = {u1, u2}
    Sessions = {s1, s2}
    Background = bg
    Tasks = {s1, s2, bg}
    None = none
    Gens = {1, 2, 3}
    Requests = {"update"}
    StorageErrors = FALSE
    IdleEviction = FALSE
    MaxDocuments = 1
    CompactThreshold = 3
    MaxWalEntries = 0
    MaxSent = 2
    MaxCrashes = 0
INVARIANT
    AckedKept
CHECK_DEADLOCK FALSE
