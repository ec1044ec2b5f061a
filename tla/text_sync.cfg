SPECIFICATION FairSpec
CONSTANTS
    Clients = {c1, c2}
    Sharer = c1
    None = none
    ShareSeq = 1
    QueueCap = 1
    CmdCap = 2
    EvtCap = 2
    MaxEdits = 2
    MaxNudges = 1
    MaxBreaks = 1
INVARIANT
    TextTypeOK
    ShownIsShared
    RemoteArrives
    ReconnectCatchesUp
PROPERTY
    Settles
CHECK_DEADLOCK FALSE
