CONSTANTS
    MaxWorkers = 3
    MaxNest = 2
    MaxDuties = 1
    MaxTests = 1
SPECIFICATION Spec
INVARIANTS
    WorkerAlive
CHECK_DEADLOCK FALSE
