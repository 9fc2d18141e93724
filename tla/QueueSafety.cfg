CONSTANTS
    NoJob = NoJob
    Jobs = {image, video}
    Images = {image}
    Workers = {w1, w2}
    MaxAttempts = 2
    StuckTimeout = 1
    MaxTime = 3
SPECIFICATION Spec
SYMMETRY Symmetry
INVARIANTS
    TypeOK
    PlainClaimExclusive
    ClaimedRowStillPending
    AttemptsBounded
PROPERTIES
    ImplementsLease
