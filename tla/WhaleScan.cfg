\* Three runs, two candidates, a digest with one place.
CONSTANTS
    c1 = c1
    c2 = c2
    Runs = {r1, r2, r3}
    Candidates = {c1, c2}
    Volume <- MCVolume
    Limits = {1, 2}
    Configured = 2
    MaxListed = 1
    MaxFaults = 1
    None = None
SYMMETRY Symmetry
SPECIFICATION Spec
INVARIANTS
    ToldOncePerDay
    OneApiRun
