SPECIFICATION Spec
CONSTANTS
    Calls <- AllCalls
    QUEUE_LEN = 2
    MAX_DNS_IP = 2
    MaxSock = 2
    MaxConnect = 2
    MaxLink = 1
    MaxTx = 0
INVARIANTS
    TypeOK
    NoSocketLeak
    OneResultPerWait
PROPERTIES
    ConnectMeansOnline
CHECK_DEADLOCK FALSE
