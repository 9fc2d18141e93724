CONSTANTS
    NoFile = NoFile
    Files = {photo}
    Workers = {w1, w2}
    MaxAttempts = 2
    MaxVersion = 1
SPECIFICATION Spec
INVARIANTS
    BackfillPicksUp
