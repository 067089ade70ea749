SPECIFICATION Spec
CONSTANTS
    c1 = c1
    c2 = c2
    NoCtrl = NoCtrl
    MAX_SOCK_NUM = 1
    Ctrls <- OneCtrl
    Unlocked <- NoCtrls
    Modes <- AllModes
    TCPIP_MBOX_SIZE = 2
    MaxTag = 1
INVARIANTS
    CloseIsAnswered
CHECK_DEADLOCK FALSE
