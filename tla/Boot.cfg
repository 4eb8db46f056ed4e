SPECIFICATION BootSpec
CONSTANTS
    Servers = {s1, s2}
    Consoles = {c1}
    Keys = {k1, k2}
    Values = {1, 2}
    Garbled = Garbled
    LastTable = 2
    Databases = {"sqlite", "postgres"}
    MaxEnds = 3
    Absent = Absent
SYMMETRY Interchangeable
INVARIANTS
    OneKey
    MigrationIsSafe
    OrderStands
