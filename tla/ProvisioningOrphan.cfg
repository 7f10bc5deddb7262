SPECIFICATION Spec
CONSTANTS
    None = None
    ClaimName = {c1}
    StaticName = {}
    ClassName = {gold}
    ClassSpec <- DeleteClasses
    Driver = {drv}
    ThisDriver = drv
    Protocol = {S3}
    DriverProtocols = {S3}
    Requested = {{S3}}
    Served = {{}, {S3}}
    MaxUid = 1
    MaxFaults = 0
    MaxRestarts = 0
    MaxEdits = 0
    CacheMayLag = TRUE
INVARIANTS
    OrphanIsMarked
CHECK_DEADLOCK FALSE
