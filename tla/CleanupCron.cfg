SPECIFICATION Spec
CONSTANTS
    Replicas = {r1, r2}
    Rows = {1}
    Uploads = {u1}
    RetryCeilings = {1, 2}
    Int8Max = 0
    MaxDeaths = 2
    None = None
SYMMETRY Interchangeable
INVARIANTS
    RoundsExclusive
    QueueIsSound
    UploadsSpared
CHECK_DEADLOCK FALSE
