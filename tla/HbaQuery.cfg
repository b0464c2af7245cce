SPECIFICATION Spec
CONSTANTS
    d1 = d1
    d2 = d2
    s1 = s1
    s2 = s2
    s3 = s3
    a1 = a1
    a2 = a2
    a3 = a3
    e1 = e1
    e2 = e2
    e3 = e3
    m1 = m1
    m2 = m2
    NoDev = NoDev
    NoNode = NoNode
    Own = Own
    NEXPDR = 4
    NSLOT_PEREXP = 1
    NUM_PHY = 4
    NUM_IOC = 2
    NUM_EXP_PER_HBA = 2
    HbaWwid = 999
    MaxChanges = 1
    MaxFaults = 1
    Disk <- MCDisk
    Ses <- MCSes
    Chain <- MCChain
    Wwid <- MCWwid
    Wiring <- MCWiring
    Attached <- MCAttached
    Off <- MCOff
    BadNode <- MCBadNode
    Removable <- MCRemovable
    Expanders <- MCExpanders
    Adapters <- MCAdapters
    MptNodes <- MCMptNodes
    Ops <- MCOps
INVARIANTS
    TypeOK
    SameBox
    OwnAnswer
    NoLeak
    NoStaleInfo
    NothingLost
PROPERTY
    AsDiscoverPhy
