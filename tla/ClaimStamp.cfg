CONSTANTS
    NoJob = NoJob
    Jobs = {image, video}
    Images = {image}
    Workers = {w1, w2}
    MaxAttempts = 2
    StuckTimeout = 1
    MaxTime = 1
SPECIFICATION Spec
INVARIANTS
    ClaimExclusive
