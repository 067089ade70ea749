SPECIFICATION FairSpec
CONSTANTS
    a = a
    b = b
    NoProcess = NoProcess
    Names <- TwoNames
    MaxRequires = 2
    MayAsk <- FirstForA
    MAX_DNS_SERVER = 2
    DNS_TRY_MAX = 2
    MaxLosses = 1
INVARIANTS
    TypeOK
    AnswerIsForItsName
    PendingHasProcess
    TimerRuns
PROPERTIES
    GivesUpExhausted
    LookupEnds
CHECK_DEADLOCK FALSE
