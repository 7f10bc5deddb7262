SPECIFICATION Spec
CONSTANTS
    None = None
    ThisDriver = drv
    c1 = c1
    c2 = c2
    s1 = s1
    s2 = s2
    S3 = S3
    Azure = Azure
    Protocol = {S3, Azure}
    AccessName = {a1, a2}
    ClaimName = {c1}
    SecretName = {s1}
    AccessSpec <- OneClaim
    BucketID <- OwnBucket
    ClaimProtocols <- AllS3
    Class <- KeyClass
    MaxUid = 2
    MaxFaults = 1
    MaxRestarts = 0
    MaxEdits = 2
    Prepared = {c1}
    Lagging = {}
SYMMETRY Sym
CONSTRAINT OneDisturbance
INVARIANTS
    AccessedClaimsAreMarked
    ReadyIsUsable
    NoForgottenAccess
    CleanupIsComplete
PROPERTIES
    ForeignSecretsAreNotModified
CHECK_DEADLOCK FALSE
