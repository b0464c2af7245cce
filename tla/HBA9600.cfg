CONSTANTS
    NEXPDR = 2
    NSLOT_PEREXP = 2
    a = a
    b = b
    c = c
    z = z
    s1 = s1
    s2 = s2
    NoDev = NoDev
    Disk = {b, c, z}
    Ses = {s1, s2}
    Card = "HBA9600"
    Hctl <- MCHctl
    Index <- MCIndex
    Wiring <- MCWiring
    Bay <- MCBay
    RaidSlot <- NoRaidSlot
    NoWwid = {}
    Removable = {b, s2}
    SmpMayFail = TRUE
    Tabs = {"SMP"}
    MaxChanges = 2
    MaxNest = 1
SPECIFICATION FairSpec
INVARIANTS
    TypeOK
    RightSlot
    PhyOffVacant
    CountsMatch

    Controllable
PROPERTIES
    PhyControlAsShown
    Converges
    ImplementsWindow
