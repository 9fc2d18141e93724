CONSTANTS
    NoPair = NoPair
    Pairs = {plural, synonym}
    Users = {alice, bob}
    Runners = {k1}
    Requests = {a1}
    MaxRuns = 1
    MaxStarts = 2
SPECIFICATION Spec
INVARIANTS
    FailedPairsAreRetried
