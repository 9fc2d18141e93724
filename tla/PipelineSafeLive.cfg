CONSTANTS
    NoFile = NoFile
    Files = {photo}
    Workers = {w1, w2}
    MaxAttempts = 2
    MaxVersion = 3
    MaxDisturbances = 2
SPECIFICATION LiveSpec
INVARIANTS
    TypeOK
    MarkerImpliesTags
    DoneMeansCaptioned
PROPERTIES
    UploadsSettle
