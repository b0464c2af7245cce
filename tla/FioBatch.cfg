SPECIFICATION Spec
CONSTANTS
    d1 = d1
    d2 = d2
    NoDev = NoDev
    NEXPDR = 2
    NSLOT_PEREXP = 2
    FD = 2
    RW_ALL = 2
    MaxNest = 2
    MaxChanges = 1
    MaxErrors = 2
    Drive <- MCDrive
    Seat <- MCSeat
INVARIANTS
    TypeOK
    Complete
    AimedAtSelected
    ScriptsExplained
    DutyHeld
CHECK_DEADLOCK FALSE
