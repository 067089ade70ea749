SPECIFICATION FairSpec
CONSTANTS
    SOCKET_BUF_LEN = 2
    TCP_SND_BUF = 2
    TCP_WND = 3
    TCPIP_MBOX_SIZE = 2
    MaxTx = 2
    MaxRx = 3
    Sizes <- OneToThree
INVARIANTS
    TypeOK
    SendQueuesIntact
    WindowConserved
    HoleIsReported
PROPERTIES
    SuccessMeansAcked
    TxIsChannel
    RxIsChannel
    QueueDrains
CHECK_DEADLOCK FALSE
