SPECIFICATION FairSpec
CONSTANTS
    FileLen = 4
    StxUnits = 2
    SnMod = 3
    MidBytes <- Plain
    MaxFaults = 3
    MaxSessions = 2
INVARIANTS
    TypeOK
    AckedIsWritten
    AllDoneMeansEnd
PROPERTIES
    CopiesFile
    FileArrives
CHECK_DEADLOCK FALSE
