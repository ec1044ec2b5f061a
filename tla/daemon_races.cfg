SPECIFICATION Spec
CONSTANTS
    Docs = {n1, d1}
    Durable = {n1}
    Collections = {}
    Updates = {u1, u2}
    Sessions = {s1, s2}
    Background = bg
    Tasks = {s1, s2, bg}
    None = none
    Gens = {1, 2, 3}
    Requests = {"update", "nodeupdate", "awareness", "delete", "leave"}
    StorageErrors = TRUE
    IdleEviction = TRUE
    MaxDocuments = 1
    CompactThreshold = 2
    MaxWalEntries = 0
    MaxSent = 2
    MaxCrashes = 1
INVARIANT
    DurableNotMadeUp
    CutoffSkipsNothing
    WalFirst
PROPERTY
    DurableLeavesOnRequest
    LostByReplaceOrCompaction
CONSTRAINT OneDocument
SYMMETRY Symmetry
VIEW View
CHECK_DEADLOCK FALSE
