SPECIFICATION Spec
CONSTANTS
    None = None
    ThisDriver = drv
    c1 = c1
    c2 = c2
    s1 = s1
    s2 = s2
    S3 = S3
    Azure = Azure
    Protocol = {S3, Azure}
    AccessName = {a1}
    ClaimName = {c1}
    SecretName = {s1}
    AccessSpec <- OneClaim
    BucketID <- OwnBucket
    ClaimProtocols <- AllS3
    Class <- KeyClass
    MaxUid = 1
    MaxFaults = 1
    MaxRestarts = 1
    MaxEdits = 0
    Prepared = {}
    Lagging = {"claims", "buckets", "secrets"}
INVARIANTS
    TypeOK
    NoForgottenAccess
    ReadyIsUsable
PROPERTIES
    StatusIsFinal
CHECK_DEADLOCK FALSE
