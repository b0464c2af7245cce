CONSTANTS
    MaxWorkers = 3
    MaxNest = 2
    MaxDuties = 2
    MaxTests = 1
SPECIFICATION FairSpec
INVARIANTS
    TypeOK
    NoOrphan
PROPERTIES
    NoJobAfterClose
    CloseUnwinds
    ImplementsCalls
CHECK_DEADLOCK FALSE
