SPECIFICATION Spec
CONSTANTS
    Users = {u1, u2}
    Emails = {e1}
    Providers = {p1, p2}
    Subjects = {s1}
    Requests = {r1, r2}
    Databases = {"sqlite", "postgres"}
    SuffixTries = 1
    NoUser = NoUser
    NoEmail = NoEmail
    NoIdentity = NoIdentity
SYMMETRY Interchangeable
INVARIANTS
    EveryAccountReachable
    OneFirstAdmin
PROPERTIES
    CredentialsStay
