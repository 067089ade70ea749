SPECIFICATION Spec
CONSTANTS
    SOCKET_BUF_LEN = 2
    TCP_SND_BUF = 3
    TCP_WND = 3
    TCPIP_MBOX_SIZE = 2
    MaxTx = 1
    MaxRx = 3
    Sizes <- OneToThree
INVARIANTS
    AdapterNeverBlocks
CHECK_DEADLOCK FALSE
