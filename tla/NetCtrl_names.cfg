SPECIFICATION Spec
CONSTANTS
    Calls <- AllCalls
    QUEUE_LEN = 3
    MAX_DNS_IP = 2
    MaxSock = 1
    MaxConnect = 2
    MaxLink = 0
    MaxTx = 1
INVARIANTS
    AnswerIsForThisName
CHECK_DEADLOCK FALSE
