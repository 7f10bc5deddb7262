\* Start-up, and the driver's answers on their way into Secrets and statuses.
SPECIFICATION FairSpec
CONSTANTS
    None = None
    Text <- MCText
    Buckets2 = {"S3"}
    Buckets1 = {"Azure", "GCS"}
    Worlds <- MCWorlds
    InfoAnswers <- MCInfoAnswers
    BucketAnswers <- MCBucketAnswers
    GrantAnswers <- MCGrantAnswers
    MaxFaults = 1
    MaxRestarts = 1
    MaxStops = 1
INVARIANTS TypeOK SecretsAreWhole  RevokeUndoesGrant BucketInfoTellsProtocols
PROPERTIES StartUpEnds
CHECK_DEADLOCK FALSE
