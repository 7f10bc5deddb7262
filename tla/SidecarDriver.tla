---------------------------- MODULE SidecarDriver ----------------------------
(***************************************************************************)
(* A Sidecar process and its driver: start-up (connect, ask the driver who *)
(* it is, begin to serve), and then what the driver's answers become: the  *)
(* status of a Bucket, and the Secrets of a BucketAccess.                  *)
(*                                                                         *)
(* There is a BucketAccess or a Bucket; queues, caches and reserving       *)
(* Secrets are the subject of Provisioning and Access.  Here an access has *)
(* been handed over, its Secrets are reserved, and an event may enqueue    *)
(* either object at any time.                                              *)
(***************************************************************************)
EXTENDS Translation

CONSTANTS
    Worlds,         \* what there may be: a BucketAccess as submitted, with the bucket
                    \* ID of each claim, and a Bucket, with the protocols it asks for
    InfoAnswers,    \* what a driver may answer to DriverGetInfo,
    BucketAnswers,  \* to DriverCreateBucket and DriverGetExistingBucket,
    GrantAnswers,   \* and to DriverGrantBucketAccess
    MaxFaults,      \* bound: calls that fail for no visible reason
    MaxRestarts,    \* bound: restarts of the Sidecar after it exited
    MaxStops        \* bound: stops of the driver

VARIABLES
    pc, seen, expired, info,             \* the Sidecar's main()
    conn, driverUp, stops,               \* gRPC's connectivity state, the driver
    access, secrets, job, queued,        \* the BucketAccess and its reconcile
    granted,                             \* backend: modes the account has, by bucket ID
    bucket, bucketJob, bucketQueued,     \* the Bucket and its reconcile
    faults, restarts

mainVars == <<pc, seen, expired, info>>
driverVars == <<conn, driverUp, stops>>
accessVars == <<access, secrets, job, queued, granted>>
bucketVars == <<bucket, bucketJob, bucketQueued>>
vars == <<mainVars, driverVars, accessVars, bucketVars, faults, restarts>>

Submitted == {w.access : w \in Worlds} \ {None}
Refs(sub) == {sub.bucketClaims[i] : i \in DOMAIN sub.bucketClaims}
SecretName == UNION {{ref.accessSecretName : ref \in Refs(sub)} : sub \in Submitted}

IsList(s) == Len(s) \in Nat /\ DOMAIN s = 1 .. Len(s)

ASSUME DriverAssumption ==
    /\ MaxFaults \in Nat /\ MaxRestarts \in Nat /\ MaxStops \in Nat
    /\ None \notin GrantAnswers /\ None \notin BucketAnswers
    /\ \A resp \in InfoAnswers : IsList(resp.supportedProtocols)
    /\ \A resp \in BucketAnswers : resp.protocols \in BucketInfoMessage \cup {None}
    /\ \A resp \in GrantAnswers :
         /\ resp.credentials \in CredentialMessage \cup {None}
         /\ IsList(resp.buckets)
         /\ \A i \in DOMAIN resp.buckets :
              resp.buckets[i].bucketInfo \in BucketInfoMessage \cup {None}
    /\ \A sub \in Submitted :
         /\ [expectedProtocol |-> sub.protocol,
             authenticationType |-> sub.authenticationType] # None
         /\ IsList(sub.bucketClaims)
         /\ \A i, j \in DOMAIN sub.bucketClaims :  \* or reserveAccessSecrets refuses it
              sub.bucketClaims[i].accessSecretName = sub.bucketClaims[j].accessSecretName
                => i = j

\* An endpoint is reduced to the two things that are checked.
Endpoint == [unix : BOOLEAN, sock : BOOLEAN]
RpcEndpointDefault == [unix |-> TRUE, sock |-> TRUE]
Connectivity == {"Idle", "Connecting", "Ready", "TransientFailure"}

JobIdle == [pc |-> "idle", current |-> FALSE, accountID |-> None, readyToUse |-> FALSE,
            answer |-> None, todo |-> {}, error |-> "none"]
BucketJobIdle == [pc |-> "idle", current |-> TRUE, answer |-> None, error |-> "none"]

\* The Controller hands over accesses that refer to every claim once.
NewAccess(sub) ==
    [protocol |-> sub.protocol, authenticationType |-> sub.authenticationType,
     bucketClaims |-> sub.bucketClaims,
     accessedBuckets |-> compileAccessedBuckets(sub.bucketClaims, sub.idOf),
     accountID |-> None, readyToUse |-> FALSE, error |-> "none", deleting |-> FALSE,
     cleanupFinished |-> FALSE]
NewBucket(protos) ==
    [protocols |-> protos, readyToUse |-> FALSE, statusProtocols |-> {},
     bucketInfo |-> NoVars, error |-> "none"]

Init ==
    /\ pc = "start"
    /\ seen = "Idle" /\ expired = FALSE /\ info = None
    /\ conn = "Idle" /\ driverUp \in BOOLEAN /\ stops = 0
    /\ \E w \in Worlds :
         /\ w.access # None => validateAllBucketClaimReferencesUnique(w.access.bucketClaims)
         /\ access = IF w.access = None THEN None ELSE NewAccess(w.access)
         /\ bucket = IF w.bucket = None THEN None ELSE NewBucket(w.bucket)
    /\ secrets = [s \in SecretName |-> NoVars]
    /\ job = JobIdle /\ queued = FALSE /\ granted = NoVars
    /\ bucketJob = BucketJobIdle /\ bucketQueued = FALSE
    /\ faults = 0 /\ restarts = 0
-----------------------------------------------------------------------------
Fault == faults < MaxFaults /\ faults' = faults + 1

\* How a write to the API server ends; current: the written copy is up to date.
WriteEnds(o, current) ==
    \/ o = "ok" /\ current /\ UNCHANGED faults
    \/ o = "rejected" /\ ~current /\ UNCHANGED faults
    \/ o \in {"failed", "timedOut"} /\ current /\ Fault
Applied(o) == o \in {"ok", "timedOut"}

\* A reconcile that failed is queued again unless a terminal error was recorded.
Requeues(o, e) == o # "ok" \/ e \notin TerminalError

\* The error of an RPC that failed, by its code.
RpcErrors(terminalCodes) ==
    {IF rpcErrorIsRetryable(code) /\ code \notin terminalCodes THEN "retry" ELSE "terminal" :
        code \in Code}
-----------------------------------------------------------------------------
(***************************************************************************)
(* main(): start-up.                                                       *)
(***************************************************************************)
\* The endpoint, from the environment or the default, is checked; the timeout of
\* 120 s begins.
Start ==
    /\ pc = "start"
    /\ \E endpoint \in Endpoint \cup {RpcEndpointDefault} :
         pc' = IF endpoint.unix /\ endpoint.sock THEN "connect" ELSE "exited"
    /\ UNCHANGED <<seen, expired, info, driverVars, accessVars, bucketVars, faults, restarts>>

\* connectRpc up to its loop.  A new client is always idle.
Connect ==
    /\ pc = "connect"
    /\ \/ pc' = "wait" /\ seen' = "Idle" /\ conn' = "Connecting" /\ UNCHANGED faults
       \/ pc' = "exited" /\ Fault /\ UNCHANGED <<seen, conn>>
    /\ UNCHANGED <<expired, info, driverUp, stops, accessVars, bucketVars, restarts>>

\* WaitForStateChange.  (Mutant: without a timeout.)
WaitForever ==
    /\ pc = "wait"
    /\ conn # seen /\ pc' = "look"
    /\ UNCHANGED <<seen, expired, info, driverVars, accessVars, bucketVars, faults,
                   restarts>>
Wait ==
    /\ pc = "wait"
    /\ \/ conn # seen /\ pc' = "look"
       \/ conn = seen /\ expired /\ pc' = "exited"
    /\ UNCHANGED <<seen, expired, info, driverVars, accessVars, bucketVars, faults,
                   restarts>>

\* GetState, which may already be another state than the one that ended the wait.
Look ==
    /\ pc = "look"
    /\ seen' = conn
    /\ pc' = IF conn = "Ready" THEN "getInfo" ELSE "wait"
    /\ UNCHANGED <<expired, info, driverVars, accessVars, bucketVars, faults, restarts>>

GetInfo ==
    /\ pc = "getInfo"
    /\ \/ /\ conn = "Ready" /\ ~expired
          /\ \E resp \in InfoAnswers :
               IF DriverInfoOK(resp) THEN pc' = "manager" /\ info' = resp
                                     ELSE pc' = "exited" /\ UNCHANGED info
          /\ UNCHANGED faults
       \/ /\ conn = "TransientFailure" \/ expired
          /\ pc' = "exited" /\ UNCHANGED <<info, faults>>
       \/ conn = "Ready" /\ Fault /\ pc' = "exited" /\ UNCHANGED info
    /\ UNCHANGED <<seen, expired, driverVars, accessVars, bucketVars, restarts>>

\* The manager starts both reconcilers; their informers list what exists.  What was
\* local to connecting is forgotten.
StartManager ==
    /\ pc = "manager"
    /\ \/ /\ pc' = "serving" /\ queued' = (access # None) /\ bucketQueued' = (bucket # None)
          /\ UNCHANGED faults
       \/ pc' = "exited" /\ Fault /\ UNCHANGED <<queued, bucketQueued>>
    /\ seen' = "Idle" /\ expired' = FALSE
    /\ UNCHANGED <<info, driverVars, access, secrets, job, granted,
                   bucket, bucketJob, restarts>>

Main == Start \/ Connect \/ Wait \/ Look \/ GetInfo \/ StartManager

\* The timeout, which covers connecting and DriverGetInfo.
Expire ==
    /\ pc \in {"connect", "wait", "look", "getInfo"} /\ ~expired
    /\ expired' = TRUE
    /\ UNCHANGED <<pc, seen, info, driverVars, accessVars, bucketVars, faults, restarts>>

\* The process dies and is started again; the workers and queues are lost.
Crash ==
    /\ pc # "exited"
    /\ pc' = "exited" /\ seen' = "Idle" /\ expired' = FALSE
    /\ job' = JobIdle /\ queued' = FALSE /\ bucketJob' = BucketJobIdle /\ bucketQueued' = FALSE
    /\ UNCHANGED <<info, driverVars, access, secrets, granted, bucket, faults, restarts>>
Restart ==
    /\ pc = "exited" /\ restarts < MaxRestarts
    /\ restarts' = restarts + 1
    /\ pc' = "start" /\ seen' = "Idle" /\ expired' = FALSE /\ info' = None
    /\ conn' = "Idle"
    /\ UNCHANGED <<driverUp, stops, accessVars, bucketVars, faults>>
-----------------------------------------------------------------------------
(***************************************************************************)
(* The driver and gRPC's connection to it.  An idle connection stays idle  *)
(* until an RPC is made; a failing one is retried every second.            *)
(***************************************************************************)
RpcPending == \/ pc = "getInfo"
              \/ job.pc \in {"grant", "revoke"}
              \/ bucketJob.pc = "provision"

SetConn(from, to) == conn \in from /\ conn' = to

Connection ==
    /\ pc \notin {"start", "connect", "exited"}
    /\ \/ driverUp /\ SetConn({"Connecting", "TransientFailure"}, "Ready")
       \/ ~driverUp /\ SetConn({"Connecting"}, "TransientFailure")
       \/ RpcPending /\ SetConn({"Idle"}, "Connecting")
    /\ UNCHANGED <<mainVars, driverUp, stops, accessVars, bucketVars, faults, restarts>>

DriverStops ==
    /\ driverUp /\ stops < MaxStops
    /\ driverUp' = FALSE /\ stops' = stops + 1
    /\ conn' = IF conn = "Ready" THEN "Idle" ELSE conn
    /\ UNCHANGED <<mainVars, accessVars, bucketVars, faults, restarts>>

DriverStarts ==
    /\ ~driverUp
    /\ driverUp' = TRUE
    /\ UNCHANGED <<mainVars, conn, stops, accessVars, bucketVars, faults, restarts>>
-----------------------------------------------------------------------------
(***************************************************************************)
(* The reconcile of the BucketAccess.                                      *)
(***************************************************************************)
unchangedByAccess == UNCHANGED <<mainVars, driverVars, bucketVars, restarts>>

\* An event, or a retry after an error, makes the access be reconciled.
Enqueue ==
    /\ pc = "serving" /\ access # None /\ ~queued
    /\ queued' = TRUE
    /\ UNCHANGED <<access, secrets, job, granted, faults>>
    /\ unchangedByAccess

DeleteAccess ==
    /\ access # None /\ ~access.deleting
    /\ access' = [access EXCEPT !.deleting = TRUE]
    /\ job' = [job EXCEPT !.current = FALSE]
    /\ UNCHANGED <<secrets, queued, granted, faults>>
    /\ unchangedByAccess

FailJob(e) == [job EXCEPT !.pc = "report", !.answer = None, !.todo = {}, !.error = e]

\* reconcile up to its first call of the driver or write.
AccessStart ==
    LET w == [JobIdle EXCEPT !.pc = "grant", !.current = TRUE,
                             !.accountID = access.accountID, !.readyToUse = access.readyToUse]
    IN  /\ pc = "serving" /\ job.pc = "idle" /\ queued
        /\ queued' = FALSE
        /\ job' = IF access.deleting
                  THEN IF access.cleanupFinished THEN JobIdle ELSE [w EXCEPT !.pc = "clearStatus"]
                  ELSE IF AccessConfigOK(access) /\ BucketConfigsOK(access) THEN w
                  ELSE [w EXCEPT !.pc = "report", !.error = "terminal"]
        /\ UNCHANGED <<access, secrets, granted, faults>>
        /\ unchangedByAccess

Validation == [expectedProtocol |-> access.protocol,
               authenticationType |-> access.authenticationType]
Accepted(resp) ==
    /\ GrantResponseTranslates(resp, Validation)
    /\ validateGrantedAccess(BucketConfigs(access), BucketInfoByBucketId(resp))

\* What the driver does when asked for the buckets of the request.
GrantedNow == [id \in DOMAIN BucketConfigs(access) |-> BucketConfigs(access)[id].accessMode]

Grant ==
    /\ job.pc = "grant"
    /\ \/ /\ conn = "Ready"
          /\ granted' = GrantedNow
          /\ \E resp \in GrantAnswers :
               job' = IF Accepted(resp)
                      THEN [job EXCEPT !.pc = "fill", !.answer = resp,
                                       !.todo = DOMAIN BucketConfigs(access)]
                      ELSE FailJob("terminal")
          /\ UNCHANGED faults
       \/ /\ conn = "Ready" /\ Fault
          /\ granted' \in {granted, GrantedNow}
          /\ \E e \in RpcErrors({"OutOfRange"}) : job' = FailJob(e)
       \/ /\ conn = "TransientFailure"
          /\ job' = FailJob("retry")
          /\ UNCHANGED <<granted, faults>>
    /\ UNCHANGED <<access, secrets, queued>>
    /\ unchangedByAccess

\* One Update of updateSecretsWithGrantedInfo.  The API server merges StringData into
\* the data the Secret has.  (Mutant: an error is dropped.)
FillIgnoringErrors ==
    /\ job.pc = "fill"
    /\ \E id \in job.todo, o \in Outcome :
         LET s == BucketConfigs(access)[id].accessSecretName
         IN  /\ WriteEnds(o, TRUE)
             /\ secrets' = IF Applied(o)
                           THEN [secrets EXCEPT ![s] =
                                   MergeApiInfo(StringData(job.answer, id), @)]
                           ELSE secrets
             /\ job' = IF job.todo # {id} THEN [job EXCEPT !.todo = @ \ {id}]
                       ELSE [job EXCEPT !.pc = "setReady", !.todo = {}]
    /\ UNCHANGED <<access, queued, granted>>
    /\ unchangedByAccess
Fill ==
    /\ job.pc = "fill"
    /\ \E id \in job.todo, o \in Outcome :
         LET s == BucketConfigs(access)[id].accessSecretName
             e == IF o = "ok" THEN job.error ELSE "retry"
         IN  /\ WriteEnds(o, TRUE)
             /\ secrets' = IF Applied(o)
                           THEN [secrets EXCEPT ![s] =
                                   MergeApiInfo(StringData(job.answer, id), @)]
                           ELSE secrets
             /\ job' = IF job.todo # {id}
                       THEN [job EXCEPT !.todo = @ \ {id}, !.error = e]
                       ELSE IF e = "none" THEN [job EXCEPT !.pc = "setReady", !.todo = {}]
                       ELSE FailJob(e)
    /\ UNCHANGED <<access, queued, granted>>
    /\ unchangedByAccess

\* A Status().Update of the job's copy, w; a failed one leaves the mutated copy to
\* the error report.
WriteStatus(w, next) ==
    \E o \in Outcome :
      /\ WriteEnds(o, job.current)
      /\ access' = IF Applied(o)
                   THEN [access EXCEPT !.accountID = w.accountID,
                                       !.readyToUse = w.readyToUse, !.error = "none"]
                   ELSE access
      /\ job' = IF o = "ok" THEN next
                ELSE [w EXCEPT !.pc = "report", !.answer = None, !.error = "retry",
                               !.current = o = "failed"]

SetReady ==
    /\ job.pc = "setReady"
    /\ WriteStatus([job EXCEPT !.accountID = job.answer.accountId, !.readyToUse = TRUE],
                   JobIdle)
    /\ UNCHANGED <<secrets, queued, granted>>
    /\ unchangedByAccess

Report ==
    /\ job.pc = "report"
    /\ \E o \in Outcome :
         /\ WriteEnds(o, job.current)
         /\ access' = IF Applied(o)
                      THEN [access EXCEPT !.accountID = job.accountID,
                                          !.readyToUse = job.readyToUse, !.error = job.error]
                      ELSE access
         /\ queued' = (queued \/ Requeues(o, job.error))
    /\ job' = JobIdle
    /\ UNCHANGED <<secrets, granted>>
    /\ unchangedByAccess

\* reconcileDelete
ClearStatus ==
    /\ job.pc = "clearStatus"
    /\ LET w == [job EXCEPT !.readyToUse = FALSE]
       IN  WriteStatus(w, [w EXCEPT !.pc = "deleteSecrets"])
    /\ UNCHANGED <<secrets, queued, granted>>
    /\ unchangedByAccess

\* deleteOwnedAccessSecrets, which Access models call by call.
DeleteSecrets ==
    /\ job.pc = "deleteSecrets"
    /\ \/ /\ secrets' = [s \in SecretName |-> NoVars]
          /\ job' = IF job.accountID = None THEN [job EXCEPT !.pc = "finish"]
                    ELSE IF RevokeConfigOK(access) THEN [job EXCEPT !.pc = "revoke"]
                    ELSE FailJob("terminal")
          /\ UNCHANGED faults
       \/ Fault /\ job' = FailJob("retry") /\ UNCHANGED secrets
    /\ UNCHANGED <<access, queued, granted>>
    /\ unchangedByAccess

\* driverRevokeAccess; the driver takes the listed buckets from the account.
Revoked == [id \in DOMAIN granted \ RevokeBucketList(access) |-> granted[id]]
Revoke ==
    /\ job.pc = "revoke"
    /\ \/ /\ conn = "Ready"
          /\ granted' = Revoked
          /\ job' = [job EXCEPT !.pc = "finish"]
          /\ UNCHANGED faults
       \/ /\ conn = "Ready" /\ Fault
          /\ granted' \in {granted, Revoked}
          /\ \E e \in RpcErrors({}) : job' = FailJob(e)
       \/ /\ conn = "TransientFailure"
          /\ job' = FailJob("retry")
          /\ UNCHANGED <<granted, faults>>
    /\ UNCHANGED <<access, secrets, queued>>
    /\ unchangedByAccess

Finish ==
    /\ job.pc = "finish"
    /\ \E o \in Outcome :
         /\ WriteEnds(o, job.current)
         /\ access' = IF Applied(o) THEN [access EXCEPT !.cleanupFinished = TRUE] ELSE access
         /\ job' = IF o = "ok" THEN JobIdle
                   ELSE [FailJob("retry") EXCEPT !.current = o = "failed"]
    /\ UNCHANGED <<secrets, queued, granted>>
    /\ unchangedByAccess

AccessReconcile == \/ AccessStart \/ Grant \/ Fill \/ SetReady \/ Report
                   \/ ClearStatus \/ DeleteSecrets \/ Revoke \/ Finish
-----------------------------------------------------------------------------
(***************************************************************************)
(* The reconcile of the Bucket: the driver provisions or finds the backend *)
(* bucket, and its answer becomes the status.                              *)
(***************************************************************************)
unchangedByBucket == UNCHANGED <<mainVars, driverVars, accessVars, restarts>>

EnqueueBucket ==
    /\ pc = "serving" /\ bucket # None /\ ~bucketQueued
    /\ bucketQueued' = TRUE
    /\ UNCHANGED <<bucket, bucketJob, faults>>
    /\ unchangedByBucket

FailBucketJob(e) == [BucketJobIdle EXCEPT !.pc = "report", !.error = e]

BucketStart ==
    /\ pc = "serving" /\ bucketJob.pc = "idle" /\ bucketQueued
    /\ bucketQueued' = FALSE
    /\ bucketJob' = IF \A p \in bucket.protocols : SupportsProtocol(info, ProtocolApiToRpc(p))
                    THEN [BucketJobIdle EXCEPT !.pc = "provision"]
                    ELSE FailBucketJob("terminal")
    /\ UNCHANGED <<bucket, faults>>
    /\ unchangedByBucket

BucketAnswerOK(resp) ==
    /\ resp.bucketId # None
    /\ BucketInfoTranslates(resp.protocols, None)
    /\ returnedProtos(resp.protocols) # {}
    /\ bucket.protocols \subseteq returnedProtos(resp.protocols)

BucketProvision ==
    /\ bucketJob.pc = "provision"
    /\ \/ /\ conn = "Ready"
          /\ \E resp \in BucketAnswers :
               bucketJob' = IF BucketAnswerOK(resp)
                            THEN [bucketJob EXCEPT !.pc = "setStatus", !.answer = resp]
                            ELSE FailBucketJob("terminal")
          /\ UNCHANGED faults
       \/ conn = "Ready" /\ Fault /\ \E e \in RpcErrors({}) : bucketJob' = FailBucketJob(e)
       \/ /\ conn = "TransientFailure"
          /\ bucketJob' = FailBucketJob("retry")
          /\ UNCHANGED faults
    /\ UNCHANGED <<bucket, bucketQueued>>
    /\ unchangedByBucket

\* A failed Status().Update leaves the mutated copy, that is `answer`, to the error
\* report.
ReadyBucket(resp) ==
    [bucket EXCEPT !.readyToUse = TRUE, !.statusProtocols = returnedProtos(resp.protocols),
                   !.bucketInfo = BucketInfoToApi(resp.protocols), !.error = "none"]

BucketSetStatus ==
    /\ bucketJob.pc = "setStatus"
    /\ \E o \in Outcome :
         /\ WriteEnds(o, TRUE)
         /\ bucket' = IF Applied(o) THEN ReadyBucket(bucketJob.answer) ELSE bucket
         /\ bucketJob' = IF o = "ok" THEN BucketJobIdle
                         ELSE [bucketJob EXCEPT !.pc = "report", !.error = "retry",
                                                   !.current = o = "failed"]
    /\ UNCHANGED bucketQueued
    /\ unchangedByBucket

BucketReport ==
    /\ bucketJob.pc = "report"
    /\ \E o \in Outcome :
         /\ WriteEnds(o, bucketJob.current)
         /\ bucket' = IF ~Applied(o) THEN bucket
                      ELSE [IF bucketJob.answer = None THEN bucket
                            ELSE ReadyBucket(bucketJob.answer) EXCEPT !.error = bucketJob.error]
         /\ bucketQueued' = (bucketQueued \/ Requeues(o, bucketJob.error))
    /\ bucketJob' = BucketJobIdle
    /\ unchangedByBucket

BucketReconcile == BucketStart \/ BucketProvision \/ BucketSetStatus \/ BucketReport
-----------------------------------------------------------------------------
Next ==
    \/ Main \/ Expire \/ Crash \/ Restart
    \/ Connection \/ DriverStops \/ DriverStarts
    \/ Enqueue \/ DeleteAccess \/ AccessReconcile
    \/ EnqueueBucket \/ BucketReconcile

Spec == Init /\ [][Next]_vars

\* main() runs on, and its timer fires.
FairSpec == Spec /\ WF_vars(Main) /\ WF_vars(Expire)
-----------------------------------------------------------------------------
(***************************************************************************)
(* The variables of the API, by protocol.                                  *)
(***************************************************************************)
InfoVars(p) ==
    CASE p = "S3" -> {"COSI_S3_BUCKET_ID", "COSI_S3_ENDPOINT", "COSI_S3_REGION",
                      "COSI_S3_ADDRESSING_STYLE"}
      [] p = "Azure" -> {"COSI_AZURE_STORAGE_ACCOUNT"}
      [] p = "GCS" -> {"COSI_GCS_PROJECT_ID", "COSI_GCS_BUCKET_NAME"}
CredentialVars(p) ==
    CASE p = "S3" -> {"COSI_S3_ACCESS_KEY_ID", "COSI_S3_ACCESS_SECRET_KEY"}
      [] p = "Azure" -> {"COSI_AZURE_ACCESS_TOKEN", "COSI_AZURE_EXPIRY_TIMESTAMP"}
      [] p = "GCS" -> {"COSI_GCS_ACCESS_ID", "COSI_GCS_ACCESS_SECRET",
                       "COSI_GCS_PRIVATE_KEY_NAME", "COSI_GCS_SERVICE_ACCOUNT"}

\* The variables of a protocol that the API marks "Required", always or for the
\* authentication type.  COSI_PROTOCOL is no variable of a protocol: the API marks it
\* "Required" for all of them (protocols.go 61-63), and no code sets it.
RequiredOfProtocol(p, auth) ==
    InfoVars(p) \cup
    (IF auth # "Key" THEN {}
     ELSE CASE p = "S3" -> CredentialVars(p)
            [] p = "Azure" -> {"COSI_AZURE_ACCESS_TOKEN"}
            [] p = "GCS" -> {"COSI_GCS_ACCESS_ID", "COSI_GCS_ACCESS_SECRET"})

Pick(m, keys) == [k \in DOMAIN m \cap keys |-> m[k]]

\* What data says, decoded by the translators' ApiToRpc.
Decoded(data, p) ==
    [vars |-> DOMAIN data,
     credentials |-> CredentialApiToRpc(p, Pick(data, CredentialVars(p))),
     info |-> InfoApiToRpc(p, Pick(data, InfoVars(p)))]

\* The answers with credentials of a protocol.
AnswersWith == [p \in ApiProtocols |->
    {resp \in GrantAnswers : resp.credentials # None /\ resp.credentials[p] # None}]

\* Decoded data is what answer resp, with credentials of protocol p, says of bucket id,
\* in the variables of p and no other.
IsSaidBy(decoded, p, resp, id) ==
    /\ resp.credentials[p] = decoded.credentials
    /\ \E i \in entriesFor(resp, id) :
         /\ resp.buckets[i].bucketInfo # None
         /\ resp.buckets[i].bucketInfo[p] = decoded.info
    /\ decoded.vars = InfoVars(p) \cup CredentialVars(p)
-----------------------------------------------------------------------------
\* Every variable is of its kind, and a Sidecar that serves knows at least one
\* protocol of its driver, each once and none unknown (validateAndParseProtocols).
TypeOK ==
    /\ pc \in {"start", "connect", "wait", "look", "getInfo", "manager", "serving", "exited"}
    /\ seen \in Connectivity /\ expired \in BOOLEAN
    /\ info \in InfoAnswers \cup {None}
    /\ pc = "serving" =>
         /\ DOMAIN info.supportedProtocols # {}
         /\ \A i, j \in DOMAIN info.supportedProtocols :
              /\ info.supportedProtocols[i] # "UNKNOWN"
              /\ info.supportedProtocols[i] = info.supportedProtocols[j] => i = j
    /\ conn \in Connectivity /\ driverUp \in BOOLEAN /\ stops \in 0 .. MaxStops
    /\ DOMAIN secrets = SecretName
    /\ job.pc \in {"idle", "grant", "fill", "setReady", "report", "clearStatus",
                   "deleteSecrets", "revoke", "finish"}
    /\ job.pc \in {"fill", "setReady"} => job.answer \in GrantAnswers
    /\ job.error \in Error
    /\ bucketJob.pc \in {"idle", "provision", "setStatus", "report"}
    /\ bucketJob.pc = "setStatus" => bucketJob.answer \in BucketAnswers
    /\ bucketJob.error \in Error
    /\ queued \in BOOLEAN /\ bucketQueued \in BOOLEAN
    /\ faults \in 0 .. MaxFaults /\ restarts \in 0 .. MaxRestarts

\* A filled Secret never mixes: it holds what one accepted answer of the driver says
\* of the bucket that the Secret's own reference leads to, also when the driver was
\* asked again and answered otherwise, and when only some Secrets could be updated
\* (updateSecretsWithGrantedInfo, MergeApiInfoIntoStringMap).
SecretsAreWhole ==
    access # None => \A i \in DOMAIN access.bucketClaims :
        LET ref == access.bucketClaims[i]
            id == bucketIdOf(access, ref)
            decoded == Decoded(secrets[ref.accessSecretName], access.protocol)
        IN  decoded.vars # {} =>
              /\ i = Last(refsTo(access, id))
              /\ \E resp \in AnswersWith[access.protocol] :
                   IsSaidBy(decoded, access.protocol, resp, id) /\ Accepted(resp)

\* When nothing is left to do for a ready access without error, one accepted answer
\* accounts for all its Secrets: the last reference to each bucket has a Secret with
\* what that answer says of the bucket, in the variables of the protocol and no other
\* (so without COSI_PROTOCOL) and with a value for each one required of the protocol,
\* and the backend has given the bucket in the mode of that reference.  The Secret of
\* an earlier reference to the same bucket is empty: generateInternalAccessedBucketConfigs
\* keeps one reference per bucket ID.  An access is usable through all its references
\* only if they lead to buckets of their own.
Settled == /\ access # None /\ access.readyToUse /\ access.error = "none" /\ ~access.deleting
           /\ ~queued /\ job.pc = "idle" /\ pc = "serving"
SettledAccessIsConsistent ==
    Settled => \E resp \in AnswersWith[access.protocol] :
        /\ Accepted(resp)
        /\ \A i \in DOMAIN access.bucketClaims :
             LET ref == access.bucketClaims[i]
                 id == bucketIdOf(access, ref)
                 data == secrets[ref.accessSecretName]
             IN  IF i # Last(refsTo(access, id)) THEN data = NoVars
                 ELSE /\ IsSaidBy(Decoded(data, access.protocol), access.protocol, resp, id)
                      /\ \A v \in RequiredOfProtocol(access.protocol,
                                                     access.authenticationType) :
                           data[v] # None
                      /\ id \in DOMAIN granted
                      /\ granted[id] = AccessModeToRpc(ref.accessMode)

\* Once the Sidecar has handed the access back with an account on record, the backend
\* gives that account nothing any more: the list of the revoke request, made from the
\* status, undoes the list of the grant request, made from the spec.
RevokeUndoesGrant ==
    access # None /\ access.cleanupFinished /\ access.accountID # None => DOMAIN granted = {}

\* A ready Bucket's status tells applications one story: its bucketInfo has variables
\* of exactly the protocols listed in status.protocols, which include all that the
\* spec asks for (BucketInfoToApi without validation).
BucketInfoTellsProtocols ==
    bucket # None /\ bucket.readyToUse =>
        /\ bucket.protocols \subseteq bucket.statusProtocols
        /\ \A p \in ApiProtocols :
             p \in bucket.statusProtocols
               <=> InfoApiToRpc(p, Pick(bucket.bucketInfo, InfoVars(p))) # None

\* A Sidecar that starts comes to serve or exits, whatever the driver does: also when
\* the connection was ready for a moment that connectRpc did not see, and is idle now.
StartUpEnds == pc = "start" ~> pc \in {"serving", "exited"}
=============================================================================
