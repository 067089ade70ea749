SPECIFICATION Spec
CONSTANTS
    MQTT_RECV_BUF_LEN_MAX = 3
    MAX_READ = 2
    REM_LEN = 4
    Streams <- TwoStreams
    Priority <- ByTask
INVARIANTS
    SconnectIsConnecting
CHECK_DEADLOCK FALSE
