\* Two clients, two products, two broadcasts that overlap.
CONSTANTS
    Clients  = {c1, c2}
    Products = {p1, p2}
    Casts    = {b1, b2}
SPECIFICATION FairSpec
INVARIANTS
    IndexesAgree
    SnapshotIsServed
PROPERTIES
    ImplementsWatching
    DeadClientIsDropped
CHECK_DEADLOCK FALSE
