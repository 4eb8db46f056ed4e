SPECIFICATION Spec
CONSTANTS
    Flows = {d1, d2, d3, d4}
    UserCodes = {u1, u2, u3, u4}
    Sessions = {s1}
    Lifetimes = {t1}
    Forms = {f1}
    Creators = {c1, c2}
    Approvers = {}
    Pollers = {}
    Backends = {"sql", "redis"}
    MaxOutstanding = 1
    MaxCrashes = 1
    MaxReports = 2
    NoFlow = NoFlow
    NoForm = NoForm
    NoGrant = NoGrant
SYMMETRY Interchangeable
INVARIANTS
    CapOvershootBounded
