----------------------------- MODULE Translation -----------------------------
(***************************************************************************)
(* The pure part of the Sidecar's talk with the driver: which answers the  *)
(* translator accepts and what it makes of them, the requests built from a *)
(* BucketAccess, and the checks on what the driver reports of itself.      *)
(*                                                                         *)
(* A Go function that returns a value or an error is two operators here:   *)
(* a predicate that says there is no error, and the value.                 *)
(***************************************************************************)
EXTENDS Protocols, Integers, Sequences

\* A message for every protocol, or None.
BucketInfoMessage ==
    [S3 : S3BucketInfo \cup {None}, Azure : AzureBucketInfo \cup {None},
     GCS : GcsBucketInfo \cup {None}]
CredentialMessage ==
    [S3 : S3CredentialInfo \cup {None}, Azure : AzureCredentialInfo \cup {None},
     GCS : GcsCredentialInfo \cup {None}]

InfoRpcToApi(p, m) == CASE p = "S3" -> S3InfoRpcToApi(m)
                        [] p = "Azure" -> AzureInfoRpcToApi(m)
                        [] p = "GCS" -> GcsInfoRpcToApi(m)
InfoApiToRpc(p, vars) == CASE p = "S3" -> S3InfoApiToRpc(vars)
                           [] p = "Azure" -> AzureInfoApiToRpc(vars)
                           [] p = "GCS" -> GcsInfoApiToRpc(vars)
InfoValidate(p, vars) == CASE p = "S3" -> S3InfoValidate(vars)
                           [] p = "Azure" -> AzureInfoValidate(vars)
                           [] p = "GCS" -> GcsInfoValidate(vars)
CredentialRpcToApi(p, m) == CASE p = "S3" -> S3CredentialRpcToApi(m)
                              [] p = "Azure" -> AzureCredentialRpcToApi(m)
                              [] p = "GCS" -> GcsCredentialRpcToApi(m)
CredentialApiToRpc(p, vars) == CASE p = "S3" -> S3CredentialApiToRpc(vars)
                                 [] p = "Azure" -> AzureCredentialApiToRpc(vars)
                                 [] p = "GCS" -> GcsCredentialApiToRpc(vars)
CredentialValidate(p, vars, auth) ==
    CASE p = "S3" -> S3CredentialValidate(vars, auth)
      [] p = "Azure" -> AzureCredentialValidate(vars, auth)
      [] p = "GCS" -> GcsCredentialValidate(vars, auth)

\* translate: nil is required of every protocol but the expected one, which must
\* be there and valid; `valid` is the verdict of the translator's Validate.
translates(p, m, validation, valid) ==
    CASE validation = None -> TRUE
      [] validation # None /\ validation.expectedProtocol # p -> m = None
      [] OTHER -> m # None /\ valid

\* BucketInfoToApi: no error, the variables, and the protocols.
\* (Mutant: every protocol counts as returned.)
BucketInfoTranslates(bi, validation) ==
    /\ bi # None
    /\ \A p \in ApiProtocols :
         translates(p, bi[p], validation, InfoValidate(p, InfoRpcToApi(p, bi[p])))
BucketInfoToApi(bi) ==
    MergeApiInfo(InfoRpcToApi("GCS", bi.GCS),
                 MergeApiInfo(InfoRpcToApi("Azure", bi.Azure), InfoRpcToApi("S3", bi.S3)))
returnedAnyway(bi) == ApiProtocols
returnedProtos(bi) == {p \in ApiProtocols : bi[p] # None}

\* CredentialsToApi
CredentialsTranslate(ci, validation) ==
    /\ ci # None
    /\ \A p \in ApiProtocols :
         translates(p, ci[p], validation,
                    CredentialValidate(p, CredentialRpcToApi(p, ci[p]),
                                       validation.authenticationType))
CredentialsToApi(ci) ==
    MergeApiInfo(CredentialRpcToApi("GCS", ci.GCS),
                 MergeApiInfo(CredentialRpcToApi("Azure", ci.Azure),
                              CredentialRpcToApi("S3", ci.S3)))
-----------------------------------------------------------------------------
(***************************************************************************)
(* Requests.                                                               *)
(***************************************************************************)
AuthenticationTypeToRpc(a) == CASE a = "Key" -> "KEY"
                                [] a = "ServiceAccount" -> "SERVICE_ACCOUNT"
                                [] OTHER -> "UNKNOWN"
AccessModeToRpc(m) == CASE m = "ReadOnly" -> "READ_ONLY"
                        [] m = "ReadWrite" -> "READ_WRITE"
                        [] m = "WriteOnly" -> "WRITE_ONLY"
                        [] OTHER -> "UNKNOWN"

Last(S) == CHOOSE i \in S : \A j \in S : j <= i

\* The Controller's part: no claim is referenced twice, and status.accessedBuckets
\* follows the order of spec.bucketClaims; idOf maps claim names to bucket IDs.
validateAllBucketClaimReferencesUnique(refs) ==
    \A i, j \in DOMAIN refs : refs[i].bucketClaimName = refs[j].bucketClaimName => i = j
compileAccessedBuckets(refs, idOf) ==
    [i \in DOMAIN refs |-> [bucketClaimName |-> refs[i].bucketClaimName,
                            bucketID |-> idOf[refs[i].bucketClaimName]]]

\* newInternalAccessConfig: no error in the part that grant and revoke share.
AccessConfigOK(access) ==
    /\ ProtocolApiToRpc(access.protocol) # "UNKNOWN"
    /\ AuthenticationTypeToRpc(access.authenticationType) # "UNKNOWN"

\* generateInternalAccessedBucketConfigs: of several references with one bucket ID
\* the last one stays, with its mode and its Secret.
bucketIdOf(access, ref) ==
    LET at == {i \in DOMAIN access.accessedBuckets :
                 access.accessedBuckets[i].bucketClaimName = ref.bucketClaimName}
    IN  IF at = {} THEN None ELSE access.accessedBuckets[Last(at)].bucketID
BucketConfigsOK(access) ==
    \A i \in DOMAIN access.bucketClaims :
        /\ bucketIdOf(access, access.bucketClaims[i]) # None
        /\ AccessModeToRpc(access.bucketClaims[i].accessMode) # "UNKNOWN"
refsTo(access, id) == {i \in DOMAIN access.bucketClaims :
                         bucketIdOf(access, access.bucketClaims[i]) = id}
BucketConfigs(access) ==
    LET ids == {bucketIdOf(access, access.bucketClaims[i]) : i \in DOMAIN access.bucketClaims}
    IN  [id \in ids |->
           LET ref == access.bucketClaims[Last(refsTo(access, id))]
           IN  [accessMode |-> AccessModeToRpc(ref.accessMode),
                accessSecretName |-> ref.accessSecretName]]

\* newInternalRevokeAccessConfig: no error, and the bucket IDs of the request.
\* (Mutant: only the first entry.)
RevokeConfigOK(access) ==
    /\ AccessConfigOK(access)
    /\ access.accountID # None
    /\ \A i \in DOMAIN access.accessedBuckets : access.accessedBuckets[i].bucketID # None
firstRevokedBucket(access) == {access.accessedBuckets[1].bucketID}
RevokeBucketList(access) ==
    {access.accessedBuckets[i].bucketID : i \in DOMAIN access.accessedBuckets}
-----------------------------------------------------------------------------
(***************************************************************************)
(* The answer to a grant request: translated, compared with the request,   *)
(* and turned into the data of one Secret.                                 *)
(***************************************************************************)
GrantResponseTranslates(resp, validation) ==
    /\ resp.accountId # None
    /\ CredentialsTranslate(resp.credentials, validation)
    /\ \A i \in DOMAIN resp.buckets :
         /\ resp.buckets[i].bucketId # None
         /\ BucketInfoTranslates(resp.buckets[i].bucketInfo, validation)

entriesFor(resp, id) == {i \in DOMAIN resp.buckets : resp.buckets[i].bucketId = id}
BucketInfoByBucketId(resp) ==
    [id \in {resp.buckets[i].bucketId : i \in DOMAIN resp.buckets} |->
        BucketInfoToApi(resp.buckets[Last(entriesFor(resp, id))].bucketInfo)]

validateGrantedAccess(configs, infos) ==
    /\ DOMAIN configs \subseteq DOMAIN infos
    /\ DOMAIN infos \subseteq DOMAIN configs

\* The StringData that updateSecretsWithGrantedInfo sends for a bucket ID.
StringData(resp, id) ==
    MergeApiInfo(BucketInfoByBucketId(resp)[id], CredentialsToApi(resp.credentials))
-----------------------------------------------------------------------------
(***************************************************************************)
(* What the driver reports of itself: a name, reduced to its length and to *)
(* whether its dot-separated labels are DNS labels, and a protocol list.   *)
(***************************************************************************)
validateDriverName(name) == name.length <= 63 /\ name.dnsLabels

\* (Mutant: duplicates are let through.)
validateKnownProtocols(protos) ==
    protos # <<>> /\ \A i \in DOMAIN protos : protos[i] # "UNKNOWN"
validateAndParseProtocols(protos) ==
    /\ protos # <<>>
    /\ \A i \in DOMAIN protos :
         /\ protos[i] # "UNKNOWN"
         /\ \A j \in 1 .. (i - 1) : protos[j] # protos[i]

DriverInfoOK(resp) ==
    validateDriverName(resp.name) /\ validateAndParseProtocols(resp.supportedProtocols)
SupportsProtocol(info, t) ==
    \E i \in DOMAIN info.supportedProtocols : info.supportedProtocols[i] = t
=============================================================================
