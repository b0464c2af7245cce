CONSTANTS
    NEXPDR = 2
    NSLOT_PEREXP = 2
    a = a
    b = b
    c = c
    z = z
    s1 = s1
    s2 = s2
    NoDev = NoDev
    Disk = {a, b, c, z}
    Ses = {}
    Card = "RAID9x60"
    Hctl <- MCHctl
    Index <- MCIndex
    Wiring <- MCWiring
    Bay <- NoBays
    RaidSlot <- MCRaidSlot
    NoWwid = {}
    Removable = {a, b, c, z}
    SmpMayFail = FALSE
    Tabs = {"SMP", "FIO"}
    MaxChanges = 1
    MaxNest = 1
SPECIFICATION FairSpec
INVARIANTS
    RightSlot
    CountsMatch
PROPERTIES
    Converges
