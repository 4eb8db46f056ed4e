SPECIFICATION Spec
CONSTANTS
    Pages = {p1}
    Bodies = {b1, b2}
    Visibilities = {link}
    Clients = {c1, c2}
    Viewers = {v1}
    MaxAttempts = 2
    RetryMax = 1
    MaxVersion = 2
    Nonces = {1, 2}
    Faults = {"store_ack", "db", "queue", "crash"}
SYMMETRY ClientSymmetry
INVARIANTS
    LiveVersionsStored
    QueueSparesLivePages
    RollbackNeverCommitted
    AdmittedReaderFindsObject
PROPERTY DeletedIsFinal
