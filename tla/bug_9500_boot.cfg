CONSTANTS
    NEXPDR = 2
    NSLOT_PEREXP = 2
    a = a
    b = b
    c = c
    z = z
    s1 = s1
    s2 = s2
    NoDev = NoDev
    Disk = {a, b, c, z}
    Ses = {s1, s2}
    Card = "HBA9500"
    Hctl <- MCHctl
    Index <- MCIndex
    Wiring <- MCWiring
    Bay <- MCBay
    RaidSlot <- NoRaidSlot
    NoWwid = {}
    Removable = {c}
    SmpMayFail = FALSE
    Tabs = {"SMP"}
    MaxChanges = 1
    MaxNest = 1
SPECIFICATION Spec
INVARIANTS
    OnlyEnclosureDisks
