SPECIFICATION Spec
CONSTANTS
    Users = {u1, u2}
    Pages = {p1, p2}
    Tokens = {t1, t2}
    Requests = {r1, r2}
    BatchSize = 1
    NoUser = NoUser
SYMMETRY Interchangeable
INVARIANTS
    OrphansAreLate
PROPERTIES
    LastAdminFallsToARace
    OutOfActionAtOnce
