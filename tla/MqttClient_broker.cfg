SPECIFICATION FairSpec
CONSTANTS
    MQTT_RECV_BUF_LEN_MAX = 3
    MAX_READ = 2
    REM_LEN = 4
    Streams <- TwoStreams
    Priority <- ByTask
INVARIANTS
    TypeOK
    Attended
    SessionIsReal
    Framed
PROPERTIES
    AttemptEnds
CHECK_DEADLOCK FALSE
