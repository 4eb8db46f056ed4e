SPECIFICATION Spec
CONSTANTS
    Pages = {p1}
    Bodies = {b1, b2}
    Visibilities = {link}
    Clients = {c1, c2}
    Viewers = {}
    MaxAttempts = 2
    RetryMax = 1
    MaxVersion = 2
    Nonces = {1}
    Faults = {"collision"}
INVARIANT RollbackNeverCommitted
