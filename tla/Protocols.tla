------------------------------ MODULE Protocols ------------------------------
(***************************************************************************)
(* The wire and the API form of bucket info and credentials, one pair per  *)
(* object protocol, and the translators between them.                      *)
(*                                                                         *)
(* A message of the driver is a record, nil is None.  An API map is a      *)
(* function from variable names; a nil map and an empty one are read alike *)
(* and are both NoVars.  The empty string is None too.  What the strings   *)
(* say is left out: Text is any set of non-empty strings.                  *)
(***************************************************************************)
EXTENDS Common

CONSTANT Text         \* non-empty strings that drivers put into messages

ASSUME TextAssumption == None \notin Text \cup {"path", "virtual", "PATH", "VIRTUAL"}

Field == Text \cup {None}
NoVars == [v \in {} |-> None]

ApiProtocols == {"S3", "Azure", "GCS"}
objectProtocolProtoApiMapping == [S3 |-> "S3", AZURE |-> "Azure", GCS |-> "GCS"]

\* ObjectProtocolTranslator; the error results are None and "UNKNOWN".
ProtocolRpcToApi(t) ==
    IF t \in DOMAIN objectProtocolProtoApiMapping THEN objectProtocolProtoApiMapping[t]
                                                  ELSE None
ProtocolApiToRpc(p) ==
    IF \E t \in DOMAIN objectProtocolProtoApiMapping : objectProtocolProtoApiMapping[t] = p
    THEN CHOOSE t \in DOMAIN objectProtocolProtoApiMapping :
           objectProtocolProtoApiMapping[t] = p
    ELSE "UNKNOWN"

\* m[k] of a Go map: "" for an absent key.
Get(m, k) == IF k \in DOMAIN m THEN m[k] ELSE None

\* MergeApiInfoIntoStringMap: target afterwards.
MergeApiInfo(m, target) ==
    [k \in DOMAIN m \cup DOMAIN target |-> IF k \in DOMAIN m THEN m[k] ELSE target[k]]
-----------------------------------------------------------------------------
(***************************************************************************)
(* S3                                                                      *)
(***************************************************************************)
S3AddressingStyle == {None, "UNKNOWN", "PATH", "VIRTUAL"}   \* None: no style message
S3BucketInfo == [bucketId : Field, endpoint : Field, region : Field,
                 addressingStyle : S3AddressingStyle]
S3CredentialInfo == [accessKeyId : Field, accessSecretKey : Field]

validS3AddressingStyles == {"path", "virtual"}

S3InfoRpcToApi(b) ==
    IF b = None THEN NoVars
    ELSE [COSI_S3_BUCKET_ID |-> b.bucketId, COSI_S3_ENDPOINT |-> b.endpoint,
          COSI_S3_REGION |-> b.region,
          COSI_S3_ADDRESSING_STYLE |-> CASE b.addressingStyle = "PATH" -> "path"
                                         [] b.addressingStyle = "VIRTUAL" -> "virtual"
                                         [] OTHER -> None]
S3InfoApiToRpc(vars) ==
    IF DOMAIN vars = {} THEN None
    ELSE [bucketId |-> Get(vars, "COSI_S3_BUCKET_ID"),
          endpoint |-> Get(vars, "COSI_S3_ENDPOINT"), region |-> Get(vars, "COSI_S3_REGION"),
          addressingStyle |->
            CASE Get(vars, "COSI_S3_ADDRESSING_STYLE") = "path" -> "PATH"
              [] Get(vars, "COSI_S3_ADDRESSING_STYLE") = "virtual" -> "VIRTUAL"
              [] OTHER -> "UNKNOWN"]
S3InfoValidate(vars) ==
    /\ Get(vars, "COSI_S3_BUCKET_ID") # None
    /\ Get(vars, "COSI_S3_ENDPOINT") # None
    /\ Get(vars, "COSI_S3_REGION") # None
    /\ Get(vars, "COSI_S3_ADDRESSING_STYLE") \in validS3AddressingStyles

S3CredentialRpcToApi(c) ==
    IF c = None THEN NoVars
    ELSE [COSI_S3_ACCESS_KEY_ID |-> c.accessKeyId,
          COSI_S3_ACCESS_SECRET_KEY |-> c.accessSecretKey]
S3CredentialApiToRpc(vars) ==
    IF DOMAIN vars = {} THEN None
    ELSE [accessKeyId |-> Get(vars, "COSI_S3_ACCESS_KEY_ID"),
          accessSecretKey |-> Get(vars, "COSI_S3_ACCESS_SECRET_KEY")]
S3CredentialValidate(vars, auth) ==
    auth = "Key" => /\ Get(vars, "COSI_S3_ACCESS_KEY_ID") # None
                    /\ Get(vars, "COSI_S3_ACCESS_SECRET_KEY") # None
-----------------------------------------------------------------------------
(***************************************************************************)
(* Azure                                                                   *)
(***************************************************************************)
AzureBucketInfo == [storageAccount : Field]
AzureCredentialInfo == [accessToken : Field, expiryTimestamp : Field]

AzureInfoRpcToApi(b) ==
    IF b = None THEN NoVars ELSE [COSI_AZURE_STORAGE_ACCOUNT |-> b.storageAccount]
AzureInfoApiToRpc(vars) ==
    IF DOMAIN vars = {} THEN None
    ELSE [storageAccount |-> Get(vars, "COSI_AZURE_STORAGE_ACCOUNT")]
AzureInfoValidate(vars) == Get(vars, "COSI_AZURE_STORAGE_ACCOUNT") # None

\* (Mutant: an optional value that is not given is left out of the map.)
AzureCredentialOmitsUnset(c) ==
    IF c = None THEN NoVars
    ELSE IF c.expiryTimestamp = None THEN [COSI_AZURE_ACCESS_TOKEN |-> c.accessToken]
    ELSE [COSI_AZURE_ACCESS_TOKEN |-> c.accessToken,
          COSI_AZURE_EXPIRY_TIMESTAMP |-> c.expiryTimestamp]
AzureCredentialRpcToApi(c) ==
    IF c = None THEN NoVars
    ELSE [COSI_AZURE_ACCESS_TOKEN |-> c.accessToken,
          COSI_AZURE_EXPIRY_TIMESTAMP |-> c.expiryTimestamp]
AzureCredentialApiToRpc(vars) ==
    IF DOMAIN vars = {} THEN None
    ELSE [accessToken |-> Get(vars, "COSI_AZURE_ACCESS_TOKEN"),
          expiryTimestamp |-> Get(vars, "COSI_AZURE_EXPIRY_TIMESTAMP")]
AzureCredentialValidate(vars, auth) ==
    auth = "Key" => Get(vars, "COSI_AZURE_ACCESS_TOKEN") # None
-----------------------------------------------------------------------------
(***************************************************************************)
(* GCS                                                                     *)
(***************************************************************************)
GcsBucketInfo == [bucketName : Field, projectId : Field]
GcsCredentialInfo == [accessId : Field, accessSecret : Field,
                      privateKeyName : Field, serviceAccount : Field]

GcsInfoRpcToApi(b) ==
    IF b = None THEN NoVars
    ELSE [COSI_GCS_BUCKET_NAME |-> b.bucketName, COSI_GCS_PROJECT_ID |-> b.projectId]
GcsInfoApiToRpc(vars) ==
    IF DOMAIN vars = {} THEN None
    ELSE [bucketName |-> Get(vars, "COSI_GCS_BUCKET_NAME"),
          projectId |-> Get(vars, "COSI_GCS_PROJECT_ID")]
GcsInfoValidate(vars) ==
    Get(vars, "COSI_GCS_BUCKET_NAME") # None /\ Get(vars, "COSI_GCS_PROJECT_ID") # None

GcsCredentialRpcToApi(c) ==
    IF c = None THEN NoVars
    ELSE [COSI_GCS_ACCESS_ID |-> c.accessId, COSI_GCS_ACCESS_SECRET |-> c.accessSecret,
          COSI_GCS_PRIVATE_KEY_NAME |-> c.privateKeyName,
          COSI_GCS_SERVICE_ACCOUNT |-> c.serviceAccount]
GcsCredentialApiToRpc(vars) ==
    IF DOMAIN vars = {} THEN None
    ELSE [accessId |-> Get(vars, "COSI_GCS_ACCESS_ID"),
          accessSecret |-> Get(vars, "COSI_GCS_ACCESS_SECRET"),
          privateKeyName |-> Get(vars, "COSI_GCS_PRIVATE_KEY_NAME"),
          serviceAccount |-> Get(vars, "COSI_GCS_SERVICE_ACCOUNT")]
GcsCredentialValidate(vars, auth) ==
    CASE auth = "Key" -> /\ Get(vars, "COSI_GCS_ACCESS_ID") # None
                         /\ Get(vars, "COSI_GCS_ACCESS_SECRET") # None
      [] auth = "ServiceAccount" -> /\ Get(vars, "COSI_GCS_PRIVATE_KEY_NAME") # None
                                    /\ Get(vars, "COSI_GCS_SERVICE_ACCOUNT") # None
      [] OTHER -> TRUE
-----------------------------------------------------------------------------
\* A nil pointer is no message.
ASSUME MessageAssumption ==
    /\ None \notin S3BucketInfo /\ None \notin S3CredentialInfo
    /\ None \notin AzureBucketInfo /\ None \notin AzureCredentialInfo
    /\ None \notin GcsBucketInfo /\ None \notin GcsCredentialInfo
=============================================================================
