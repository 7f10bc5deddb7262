SPECIFICATION Spec
CONSTANTS
    None = None
    ClaimName = {c1}
    StaticName = {st}
    ClassName = {gold}
    ClassSpec <- RetainClasses
    Driver = {drv}
    ThisDriver = drv
    Protocol = {S3}
    DriverProtocols = {S3}
    Requested = {{S3}}
    Served = {{S3}}
    MaxUid = 2
    MaxFaults = 1
    MaxRestarts = 0
    MaxEdits = 1
    CacheMayLag = FALSE
CONSTRAINT StaticOrDynamic
INVARIANTS
    BoundBucketIsMine
    ReadyClaimSound
    OrphanIsMarked
    NoForgottenClaim
    NoForgottenBucket
PROPERTIES
    NoRebind
    ProvisionedUnderProtection
CHECK_DEADLOCK FALSE
