SPECIFICATION Spec
CONSTANTS
    Sids = {s1, s2}
    Users = {u1}
    Flows = {f1, f2}
    Requests = {r1, r2}
    Backends = {"sql", "redis"}
    IdleTTL = 3
    AbsoluteTTL = 3
    MaxTime = 4
    NoUser = NoUser
    NoFlow = NoFlow
    NoSid = NoSid
SYMMETRY Interchangeable
CHECK_DEADLOCK FALSE
INVARIANTS
    SpentFlowsStaySpent
PROPERTIES
    ServedWithinBothDeadlines
    EndsForGood
    AccountIsFixed
