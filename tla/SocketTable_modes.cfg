SPECIFICATION FairSpec
CONSTANTS
    c1 = c1
    c2 = c2
    NoCtrl = NoCtrl
    MAX_SOCK_NUM = 2
    Ctrls <- OneCtrl
    Unlocked <- NoCtrls
    Modes <- AllModes
    TCPIP_MBOX_SIZE = 2
    MaxTag = 3
INVARIANTS
    FreeSlotIsClean
PROPERTIES
    ClosingEnds
CHECK_DEADLOCK FALSE
