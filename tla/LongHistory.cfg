SPECIFICATION Spec
CONSTANTS
    Pages = {p1}
    Bodies = {b1, b2}
    Visibilities = {link}
    Clients = {c1, c2}
    Viewers = {}
    MaxAttempts = 2
    RetryMax = 1
    MaxVersion = 3
    Nonces = {1, 2}
    Faults = {}
    NoBody = NoBody
SYMMETRY ClientSymmetry
INVARIANTS
    GaplessHistory
    ServingFollowsShare
PROPERTY ImplementsPageHistory
