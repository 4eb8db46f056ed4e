SPECIFICATION Spec
CONSTANTS
    Users = {u1, u2}
    Emails = {e1}
    Providers = {p1}
    Subjects = {s1, s2}
    Requests = {r1, r2}
    Databases = {"sqlite"}
    SuffixTries = 1
    NoUser = NoUser
    NoEmail = NoEmail
    NoIdentity = NoIdentity
INVARIANT EveryAccountReachable
