SPECIFICATION Spec
CONSTANTS
    Sids = {s1}
    Users = {u1}
    Flows = {f1}
    Requests = {r1, r2}
    Backends = {"sql", "redis"}
    IdleTTL = 3
    AbsoluteTTL = 6
    MaxTime = 7
    NoUser = NoUser
    NoFlow = NoFlow
    NoSid = NoSid
SYMMETRY Interchangeable
CHECK_DEADLOCK FALSE
PROPERTIES
    EndsForGood
