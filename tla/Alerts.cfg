\* Two alerts, two prices, two targets, each alert switched on at most twice.
CONSTANTS
    Alerts = {a1, a2}
    Prices = {1, 3}
    Targets = {2, 3}
    MaxActivations = 2
    MaxFaults = 1
    None = None
SYMMETRY Symmetry
CONSTRAINT Few
SPECIFICATION Spec
INVARIANTS
    OneMessagePerActivation
    RepeatNeedsFailure
    NoCrossingMissed
