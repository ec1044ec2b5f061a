SPECIFICATION FairSpec
CONSTANTS
    Clients = {c1}
    Sharer = c1
    None = none
    ShareSeq = 1
    QueueCap = 1
    CmdCap = 2
    EvtCap = 2
    MaxEdits = 1
    MaxNudges = 0
    MaxBreaks = 1
PROPERTY
    DeferredIsSent
CHECK_DEADLOCK FALSE
