SPECIFICATION FairSpec
CONSTANTS
    None = None
    ThisDriver = drv
    c1 = c1
    c2 = c2
    s1 = s1
    s2 = s2
    S3 = S3
    Azure = Azure
    Protocol = {S3, Azure}
    AccessName = {a1}
    ClaimName = {c1, c2}
    SecretName = {s1, s2}
    AccessSpec <- TwoClaims
    BucketID <- OwnBucket
    ClaimProtocols <- AllS3
    Class <- KeyClass
    MaxUid = 1
    MaxFaults = 1
    MaxRestarts = 1
    MaxEdits = 0
    Prepared = {c1, c2}
    Lagging = {}
INVARIANTS
    AccessedClaimsAreMarked
    ReadyIsUsable
    CleanupIsComplete
PROPERTIES
    HandBackCompletes
    AccessSettles
CHECK_DEADLOCK FALSE
