SPECIFICATION FairSpec
CONSTANTS
    Calls <- OpenSendClose
    QUEUE_LEN = 1
    MAX_DNS_IP = 2
    MaxSock = 2
    MaxConnect = 1
    MaxLink = 1
    MaxTx = 2
PROPERTIES
    ConnectEnds
    TxEnds
CHECK_DEADLOCK FALSE
