SPECIFICATION Spec
CONSTANTS
    c1 = c1
    c2 = c2
    NoCtrl = NoCtrl
    MAX_SOCK_NUM = 1
    Ctrls <- TwoCtrls
    Unlocked <- OneCtrl
    Modes <- ClientMode
    TCPIP_MBOX_SIZE = 1
    MaxTag = 2
INVARIANTS
    TypeOK
    HandleIsExclusive
    TagNamesOwner
    RequestsHitTheirSocket
    FreeSlotHasNoPcb
    OpenSlotIsHeld
    EventFromOwnSocket
PROPERTIES
    ClosingIsFinal
CHECK_DEADLOCK FALSE
