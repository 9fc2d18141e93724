CONSTANTS
    Files = {x, y}
    Looks = {a, b}
    Names = {ann}
    NoName = NoName
    MinSamples = 2
    Clusterers = {c1}
    Workers = {w1}
    Nobody = Nobody
    MaxPerson = 3
    MaxTag = 3
    MaxBegun = 6
SPECIFICATION Spec
CONSTRAINT TwoAtOnce
SYMMETRY Symmetry
INVARIANTS
    TypeOK
PROPERTIES
    IdsAreNew
    ReclusterRepairs
    EditsKeepConsistency
    
CHECK_DEADLOCK FALSE
