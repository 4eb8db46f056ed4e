SPECIFICATION Spec
CONSTANTS
    Flows = {d1}
    UserCodes = {u1}
    Sessions = {s1}
    Lifetimes = {t1}
    Forms = {f1, f2}
    Creators = {c1}
    Approvers = {a1, a2}
    Pollers = {p1, p2}
    Backends = {"sql"}
    MaxOutstanding = 1
    MaxCrashes = 1
    MaxReports = 2
    NoFlow = NoFlow
    NoForm = NoForm
    NoGrant = NoGrant
PROPERTY ChallengeIsSingleUse
