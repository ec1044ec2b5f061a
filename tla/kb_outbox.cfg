SPECIFICATION FairSpec
CONSTANTS
    CmdCap = 1
    EvtCap = 2
    MaxEdits = 2
    MaxBreaks = 1
    MaxUser = 2
    MaxCrashes = 1
INVARIANT
    OutboxTypeOK
    NeverLost
    MarkedIsUnderway
PROPERTY
    Delivered
    IsAnOutbox
CHECK_DEADLOCK FALSE
