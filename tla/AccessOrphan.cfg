SPECIFICATION Spec
CONSTANTS
    None = None
    ThisDriver = drv
    c1 = c1
    c2 = c2
    s1 = s1
    s2 = s2
    S3 = S3
    Azure = Azure
    Protocol = {S3, Azure}
    AccessName = {a1}
    ClaimName = {c1}
    SecretName = {s1}
    AccessSpec <- OneClaim
    BucketID <- OwnBucket
    ClaimProtocols <- AllS3
    Class <- KeyClass
    MaxUid = 1
    MaxFaults = 0
    MaxRestarts = 0
    MaxEdits = 0
    Prepared = {}
    Lagging = {}
INVARIANTS
    NoOrphanedAccount
CHECK_DEADLOCK FALSE
