SPECIFICATION Spec
CONSTANTS
    Replicas = {p1}
    Window = 1
    MaxTime = 1
    CountCap = 2
    GuessCap = 7
    Codes = {c1, c2}
    NoCode = NoCode
    Requests = {r1, r2}
    Secrets = 2
    TicketTTL = 2
    Lifetimes = {1}
    MaxVersion = 2
    ShareCodeFailPerMinute = 1
CHECK_DEADLOCK FALSE
SYMMETRY Interchangeable
INVARIANTS
    OnlyTheCodeOpens
    GuessesBounded
PROPERTIES
    RevokedForGood
