CONSTANTS
    NoPair = NoPair
    Pairs = {synonym}
    Users = {alice, bob}
    Runners = {k1, k2}
    Requests = {a1, a2}
    MaxRuns = 1
    MaxStarts = 3
SPECIFICATION Spec
SYMMETRY Symmetry
INVARIANTS
    TypeOK
    AppliedMeansTagged
    OnlyApprovedTakesEffect
    NothingHangs
PROPERTIES
    CurrentRunnerGoesOn
