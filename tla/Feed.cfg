\* Three products, one of them a default.
CONSTANTS
    Products = {p1, p2, p3}
    Defaults = {p1}
SPECIFICATION FeedFairSpec
INVARIANTS
    ListenerIsRight
    OnlyFailuresLose
PROPERTY
    WantedIsServed
CHECK_DEADLOCK FALSE
