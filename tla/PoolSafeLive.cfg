CONSTANTS
    Threads = {t1, t2, t3}
    Starters = {startup, enable}
    Supervisors = {s1}
    MaxConcurrency = 2
    MaxDeaths = 2
    None = None
SPECIFICATION Spec
INVARIANTS
    TypeOK
    PoolRefilled
PROPERTIES
    PoolRecovers
