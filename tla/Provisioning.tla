---------------------------- MODULE Provisioning ----------------------------
(***************************************************************************)
(* Bucket provisioning: the Controller's BucketClaim reconciler and the    *)
(* Sidecar's Bucket reconciler, working on API objects through informer    *)
(* caches, next to users, admins and the driver's backend.                 *)
(*                                                                         *)
(* One step is one call: a read of a cache, a write to the API server, or  *)
(* an RPC to the driver, with the pure code up to the next call.  Between  *)
(* two steps of a reconcile everybody else may move.  freshClaim and       *)
(* freshBucket hold who has the current resourceVersion (see Common).      *)
(***************************************************************************)
EXTENDS BucketResources

CONSTANTS
    MaxFaults,    \* bound: API and driver calls that fail for no visible reason
    MaxRestarts,  \* bound: restarts of the Controller or the Sidecar process
    MaxEdits,     \* bound: Bucket deletions, policy changes and finalizer removals
                  \* by hand
    CacheMayLag   \* FALSE: only behaviours where the Controller's Bucket cache
                  \* has caught up whenever the claim reconciler reads it

ASSUME ProvisioningAssumption ==
    /\ MaxFaults \in Nat
    /\ MaxRestarts \in Nat
    /\ MaxEdits \in Nat
    /\ CacheMayLag \in BOOLEAN

VARIABLES
    claims, buckets,            \* the API server's objects
    classes,                    \* the BucketClasses that exist
    freshClaim, freshBucket,    \* holders of a copy at the current version
    claimEvents, bucketEvents,  \* keys with an undelivered event that enqueues
    claimCache, bucketCache,    \* the Controller's informer caches
    sidecarCache,               \* the Sidecar's Bucket informer cache
    claimQueue, bucketQueue,    \* work queues (keys; a set removes duplicates)
    cw, sw,                     \* the Controller's and the Sidecar's worker
    backend,                    \* backend buckets: protocols served, or None
    issued,                     \* what was submitted under each claim UID
    created,                    \* Buckets created per name
    faults, restarts, edits    \* used up so far

storedClaims == <<claims, freshClaim, claimEvents>>
storedBuckets == <<buckets, freshBucket, bucketEvents>>
cacheVars == <<claimCache, bucketCache, sidecarCache>>
claimWorkerVars == <<claimQueue, cw>>
bucketWorkerVars == <<bucketQueue, sw>>
envVars == <<issued, created, restarts, edits>>
vars == <<storedClaims, storedBuckets, classes, cacheVars, claimWorkerVars,
          bucketWorkerVars, backend, envVars, faults>>

Holder == {"controllerCache", "controllerWorker", "sidecarCache", "sidecarWorker"}

ClaimPc == {"idle", "addFinalizer", "getBucket", "createBucket", "bindBucket",
            "bindClaim", "setReady", "report", "clearStatus",
            "getBucketToDelete", "annotate", "deleteBucket", "removeFinalizer"}
BucketPc == {"idle", "removeFinalizer", "addFinalizer", "rpc", "setStatus", "report"}

ClaimWorker == [pc : ClaimPc, name : ClaimName \cup {None},
                claim : ClaimObject \cup {None},
                bucket : BucketObject \cup {None}, error : Error]
BucketWorker == [pc : BucketPc, name : BucketName \cup {None},
                 bucket : BucketObject \cup {None}, error : Error]

ClaimIdle == [pc |-> "idle", name |-> None, claim |-> None, bucket |-> None,
              error |-> "none"]
BucketIdle == [pc |-> "idle", name |-> None, bucket |-> None, error |-> "none"]

TypeOK ==
    /\ claims \in [ClaimName -> ClaimObject \cup {None}]
    /\ buckets \in [BucketName -> BucketObject \cup {None}]
    /\ classes \subseteq ClassName
    /\ freshClaim \in [ClaimName -> SUBSET Holder]
    /\ freshBucket \in [BucketName -> SUBSET Holder]
    /\ claimEvents \subseteq ClaimName
    /\ bucketEvents \subseteq BucketName
    /\ claimCache \in [ClaimName -> ClaimObject \cup {None}]
    /\ bucketCache \in [BucketName -> BucketObject \cup {None}]
    /\ sidecarCache \in [BucketName -> BucketObject \cup {None}]
    /\ claimQueue \subseteq ClaimName
    /\ bucketQueue \subseteq BucketName
    /\ cw \in ClaimWorker
    /\ sw \in BucketWorker
    /\ backend \in [BucketName -> (SUBSET Protocol) \cup {None}]
    /\ issued \in [Uid -> Submission \cup {None}]
    /\ created \in [BucketName -> Nat]
    /\ faults \in 0 .. MaxFaults
    /\ restarts \in 0 .. MaxRestarts
    /\ edits \in 0 .. MaxEdits

Init ==
    /\ claims = [c \in ClaimName |-> None]
    /\ buckets = [b \in BucketName |-> None]
    /\ classes = {}
    /\ freshClaim = [c \in ClaimName |-> {"controllerCache"}]
    /\ freshBucket = [b \in BucketName |-> {"controllerCache", "sidecarCache"}]
    /\ claimEvents = {}
    /\ bucketEvents = {}
    /\ claimCache = claims
    /\ bucketCache = buckets
    /\ sidecarCache = buckets
    /\ claimQueue = {}
    /\ bucketQueue = {}
    /\ cw = ClaimIdle
    /\ sw = BucketIdle
    /\ backend = [b \in BucketName |-> None]
    /\ issued = [u \in Uid |-> None]
    /\ created = [b \in BucketName |-> 0]
    /\ faults = 0
    /\ restarts = 0
    /\ edits = 0
-----------------------------------------------------------------------------
(***************************************************************************)
(* The API server, as the reconcilers use it.                              *)
(***************************************************************************)
\* The API server accepts the call, or not; some calls fail on their own.
Ends(o, acceptable) ==
    /\ o = "ok" => acceptable
    /\ o = "rejected" => ~acceptable
    /\ o \in {"failed", "timedOut"} => acceptable /\ faults < MaxFaults
    /\ faults' = IF o \in {"failed", "timedOut"} THEN faults + 1 ELSE faults

\* A stored object changes, and the watch will tell.
StoreClaim(c, new) ==
    /\ claims' = [claims EXCEPT ![c] = new]
    /\ claimEvents' = IF ClaimEventEnqueues(claims[c], new)
                      THEN claimEvents \cup {c} ELSE claimEvents

StoreBucket(b, new) ==
    /\ buckets' = [buckets EXCEPT ![b] = new]
    /\ bucketEvents' = IF BucketEventEnqueues(buckets[b], new)
                       THEN bucketEvents \cup {b} ELSE bucketEvents

\* The claim worker's Update or Status().Update of its claim; w is the worker
\* after the call.
WriteClaim(o, obj, touch, w) ==
    LET c == cw.name
        new == IF o \in {"ok", "timedOut"} THEN Persisted(obj) ELSE claims[c]
        fresh == [freshClaim EXCEPT ![c] =
                    AfterWrite(o, @, claims[c], new, touch, "controllerWorker")]
        done == w.pc = "idle"
    IN  /\ Ends(o, "controllerWorker" \in freshClaim[c])
        /\ StoreClaim(c, new)
        /\ cw' = w
        /\ freshClaim' = IF done THEN Forget(fresh, "controllerWorker") ELSE fresh
        /\ freshBucket' = IF done THEN Forget(freshBucket, "controllerWorker")
                                  ELSE freshBucket

\* An Update or Status().Update of Bucket b by the given worker; done says
\* that the worker's reconcile ends here.
WriteBucket(o, b, obj, touch, worker, done) ==
    LET new == IF o \in {"ok", "timedOut"} THEN Persisted(obj) ELSE buckets[b]
        fresh == [freshBucket EXCEPT ![b] =
                    AfterWrite(o, @, buckets[b], new, touch, worker)]
    IN  /\ Ends(o, worker \in freshBucket[b])
        /\ StoreBucket(b, new)
        /\ freshBucket' = IF done THEN Forget(fresh, worker) ELSE fresh

-----------------------------------------------------------------------------
(***************************************************************************)
(* The Controller: BucketClaimReconciler.                                  *)
(***************************************************************************)
\* reconcile() returned an error (and forgot the Bucket): Reconcile will record
\* the error in the claim's status.
FailClaim(w, e) == [w EXCEPT !.pc = "report", !.bucket = None, !.error = e]

SetClaimStatus(obj, local) ==
    [obj EXCEPT !.readyToUse = local.readyToUse,
                !.boundBucketName = local.boundBucketName,
                !.statusProtocols = local.statusProtocols,
                !.error = local.error]

\* The claim is bound: is the Bucket provisioned?  (Mutant: no wait for a bucketID.)
checkProtocolsOnly(w) ==
    IF w.bucket.readyToUse = "true" /\ w.bucket.statusProtocols = {}
    THEN FailClaim(w, "terminal") ELSE [w EXCEPT !.pc = "setReady"]
checkProvisioned(w) ==
    IF ~w.bucket.bucketID THEN FailClaim(w, "retry")
    ELSE IF w.bucket.readyToUse = "true" /\ w.bucket.statusProtocols = {}
         THEN FailClaim(w, "terminal")
         ELSE [w EXCEPT !.pc = "setReady"]

\* The Bucket is bound to the claim: bind the claim unless it is bound already.
\* (Mutant: the claim is never bound.)
checkWithoutBinding(w) == checkProvisioned(w)
checkClaimBound(w) ==
    IF w.claim.boundBucketName = None THEN [w EXCEPT !.pc = "bindClaim"]
                                      ELSE checkProvisioned(w)

\* The Bucket exists: is it bound to this claim, or free to be?
checkBucketBound(w) ==
    LET binding == bucketIsBoundToClaim(w.bucket, w.claim, w.name)
    IN  CASE binding = "bound" -> checkClaimBound(w)
          [] binding = "unbound" /\ isStaticProvisioning(w.claim)
                               -> [w EXCEPT !.pc = "bindBucket"]
          [] OTHER             -> FailClaim(w, "terminal")

\* No Bucket in the cache: degraded, still to be made by the admin, or to be
\* created from the BucketClass (which must exist).
bucketNotFound(w) ==
    CASE w.claim.boundBucketName # None        -> FailClaim(w, "bucketGone")
      [] w.claim.boundBucketName = None /\ isStaticProvisioning(w.claim)
                                               -> FailClaim(w, "retry")
      [] OTHER -> IF w.claim.bucketClassName = None THEN FailClaim(w, "terminal")
                  ELSE IF w.claim.bucketClassName \notin classes
                       THEN FailClaim(w, "retry")
                       ELSE [w EXCEPT !.pc = "createBucket"]

\* reconcileDelete's decision, from the Bucket it read.  (Mutant: a Bucket that is
\* retained is let go without the annotation.)
retainUnannotated(w) ==
    CASE w.bucket = None -> [w EXCEPT !.pc = "removeFinalizer"]
      [] OTHER -> IF w.bucket.deletionPolicy = "Retain"
                  THEN [w EXCEPT !.pc = "removeFinalizer"]
                  ELSE [w EXCEPT !.pc = "annotate"]
deleteDecision(w) ==
    LET binding == bucketIsBoundToClaim(w.bucket, w.claim, w.name)
        goTo(pc) == [w EXCEPT !.pc = pc]
    IN  CASE w.bucket = None -> goTo("removeFinalizer")
          [] w.bucket # None /\ binding = "error" ->
                IF isStaticProvisioning(w.claim) THEN goTo("removeFinalizer")
                                                 ELSE FailClaim(w, "terminal")
          [] w.bucket # None /\ binding = "unbound" -> goTo("removeFinalizer")
          [] OTHER ->
                IF w.bucket.deletionPolicy = "Delete" /\ w.bucket.deleting
                THEN FailClaim(w, "retry")
                ELSE goTo("annotate")

\* Reconcile begins: the claim as the cache has it decides where to go.
startClaim(c, obj) ==
    LET w == [ClaimIdle EXCEPT !.pc = "getBucket", !.name = c, !.claim = obj]
    IN  CASE boundNameDegraded(obj) -> FailClaim(w, "terminal")
          [] ~boundNameDegraded(obj) /\ obj.deleting -> [w EXCEPT !.pc = "clearStatus"]
          [] OTHER -> IF obj.finalizer THEN w ELSE [w EXCEPT !.pc = "addFinalizer"]

ClaimStart(c) ==
    /\ cw.pc = "idle"
    /\ c \in claimQueue
    /\ claimQueue' = claimQueue \ {c}
    /\ cw' = IF claimCache[c] = None THEN ClaimIdle ELSE startClaim(c, claimCache[c])
    /\ freshClaim' = [freshClaim EXCEPT ![c] =
                        AfterRead(@, "controllerCache", claimCache[c], "controllerWorker")]
    /\ UNCHANGED <<claims, claimEvents, storedBuckets, classes, cacheVars,
                   bucketWorkerVars, backend, envVars, faults>>

\* What a write of the claim leaves alone, and what a write of a Bucket does.
unchangedByClaimWrite ==
    UNCHANGED <<buckets, bucketEvents, classes, cacheVars, bucketWorkerVars, backend,
                envVars>>
unchangedByBucketWrite ==
    UNCHANGED <<storedClaims, classes, cacheVars, claimQueue,
                bucketWorkerVars, backend, envVars>>

ClaimAddFinalizer ==
    /\ cw.pc = "addFinalizer"
    /\ LET obj == [cw.claim EXCEPT !.finalizer = TRUE]
       IN  \E o \in Outcome :
             WriteClaim(o, obj, FALSE,
                        IF o = "ok" THEN [cw EXCEPT !.pc = "getBucket", !.claim = obj]
                                    ELSE FailClaim(cw, "retry"))
    /\ UNCHANGED claimQueue
    /\ unchangedByClaimWrite

\* Both Gets of the claim's Bucket b read the Controller's Bucket cache.
ReadBucket(b) ==
    /\ CacheMayLag \/ "controllerCache" \in freshBucket[b]
    /\ freshBucket' = [freshBucket EXCEPT ![b] =
            AfterRead(@, "controllerCache", bucketCache[b], "controllerWorker")]
    /\ UNCHANGED <<storedClaims, buckets, bucketEvents, classes, cacheVars, claimQueue,
                   bucketWorkerVars, backend, envVars, faults>>

ClaimGetBucket ==
    /\ cw.pc = "getBucket"
    /\ LET b == determineBucketName(cw.claim)
           w == [cw EXCEPT !.bucket = bucketCache[b]]
       IN  /\ ReadBucket(b)
           /\ cw' = IF w.bucket = None THEN bucketNotFound(w) ELSE checkBucketBound(w)

ClaimCreateBucket ==
    /\ cw.pc = "createBucket"
    /\ LET b == determineBucketName(cw.claim)
           obj == generateIntermediateBucket(cw.claim, cw.name,
                                             ClassSpec[cw.claim.bucketClassName])
       IN  \E o \in Outcome :
             /\ Ends(o, buckets[b] = None)
             /\ IF o \in {"ok", "timedOut"}
                THEN /\ StoreBucket(b, obj)
                     /\ created' = [created EXCEPT ![b] = @ + 1]
                     /\ freshBucket' = [freshBucket EXCEPT ![b] =
                                          IF o = "ok" THEN {"controllerWorker"} ELSE {}]
                ELSE UNCHANGED <<storedBuckets, created>>
             /\ cw' = IF o = "ok" THEN checkBucketBound([cw EXCEPT !.bucket = obj])
                                  ELSE FailClaim(cw, "retry")
    /\ UNCHANGED <<storedClaims, classes, cacheVars, claimQueue,
                   bucketWorkerVars, backend, issued, restarts, edits>>

\* ensureStaticBucketBound
ClaimBindBucket ==
    /\ cw.pc = "bindBucket"
    /\ LET b == determineBucketName(cw.claim)
           obj == [cw.bucket EXCEPT !.refUid = cw.claim.uid]
       IN  \E o \in Outcome :
             /\ WriteBucket(o, b, obj, FALSE, "controllerWorker", FALSE)
             /\ cw' = IF o = "ok" THEN checkClaimBound([cw EXCEPT !.bucket = obj])
                                  ELSE FailClaim(cw, "retry")
    /\ unchangedByBucketWrite

\* A Status().Update from the worker's copy `local`, after which the worker is
\* `next`.  A failed one leaves the mutated copy to the error report.
WriteClaimStatus(local, next) ==
    \E o \in Outcome :
      WriteClaim(o, SetClaimStatus(claims[cw.name], local), FALSE,
                 IF o = "ok" THEN next
                             ELSE FailClaim([cw EXCEPT !.claim = local], "retry"))

ClaimBind ==
    /\ cw.pc = "bindClaim"
    /\ LET local == [cw.claim EXCEPT !.readyToUse = NotNil(@),
                        !.boundBucketName = determineBucketName(cw.claim)]
       IN  WriteClaimStatus(local, checkProvisioned([cw EXCEPT !.claim = local]))
    /\ UNCHANGED claimQueue
    /\ unchangedByClaimWrite

\* (Mutant: the protocols stay behind.)
ClaimSetReadyOnly ==
    /\ cw.pc = "setReady"
    /\ WriteClaimStatus([cw.claim EXCEPT !.readyToUse = cw.bucket.readyToUse,
                            !.error = "none"],
                        ClaimIdle)
    /\ UNCHANGED claimQueue
    /\ unchangedByClaimWrite

ClaimSetReady ==
    /\ cw.pc = "setReady"
    /\ WriteClaimStatus([cw.claim EXCEPT !.readyToUse = cw.bucket.readyToUse,
                            !.statusProtocols = cw.bucket.statusProtocols,
                            !.error = "none"],
                        ClaimIdle)
    /\ UNCHANGED claimQueue
    /\ unchangedByClaimWrite

\* Reconcile records the error.  A retryable error, and any error that could
\* not be recorded, goes back to the queue; a recorded terminal one does not.
\* (Mutant: no terminal error does, recorded or not.)
ClaimReportTerminalOnce ==
    /\ cw.pc = "report"
    /\ LET local == [cw.claim EXCEPT !.readyToUse = NotNil(@), !.error = cw.error]
       IN  \E o \in Outcome :
             /\ WriteClaim(o, SetClaimStatus(claims[cw.name], local), TRUE, ClaimIdle)
             /\ claimQueue' = IF cw.error \in TerminalError
                              THEN claimQueue ELSE claimQueue \cup {cw.name}
    /\ unchangedByClaimWrite

ClaimReport ==
    /\ cw.pc = "report"
    /\ LET local == [cw.claim EXCEPT !.readyToUse = NotNil(@), !.error = cw.error]
       IN  \E o \in Outcome :
             /\ WriteClaim(o, SetClaimStatus(claims[cw.name], local), TRUE, ClaimIdle)
             /\ claimQueue' = IF o = "ok" /\ cw.error \in TerminalError
                              THEN claimQueue ELSE claimQueue \cup {cw.name}
    /\ unchangedByClaimWrite

\* reconcileDelete
ClaimClearStatus ==
    /\ cw.pc = "clearStatus"
    /\ LET local == [cw.claim EXCEPT !.readyToUse = "false", !.error = "none"]
       IN  WriteClaimStatus(local, [cw EXCEPT !.pc = "getBucketToDelete", !.claim = local])
    /\ UNCHANGED claimQueue
    /\ unchangedByClaimWrite

ClaimGetBucketToDelete ==
    /\ cw.pc = "getBucketToDelete"
    /\ LET b == determineBucketName(cw.claim)
       IN  /\ ReadBucket(b)
           /\ cw' = deleteDecision([cw EXCEPT !.bucket = bucketCache[b]])

\* applyBucketClaimIsDeletingAnnotation, then on by the policy that was read.
ClaimAnnotate ==
    /\ cw.pc = "annotate"
    /\ LET b == determineBucketName(cw.claim)
           obj == [cw.bucket EXCEPT !.claimDeleting = TRUE]
       IN  \E o \in Outcome :
             /\ WriteBucket(o, b, obj, FALSE, "controllerWorker", FALSE)
             /\ cw' = IF o # "ok" THEN FailClaim(cw, "retry")
                      ELSE [cw EXCEPT !.bucket = obj,
                                      !.pc = IF obj.deletionPolicy = "Retain"
                                             THEN "removeFinalizer" ELSE "deleteBucket"]
    /\ unchangedByBucketWrite

\* Waiting for the Bucket to be gone is an error too, and so is retried.  (Mutant:
\* it is a terminal one.)
ClaimDeleteBucketOnce ==
    /\ cw.pc = "deleteBucket"
    /\ LET b == determineBucketName(cw.claim)
       IN  \E o \in Outcome :
             /\ Ends(o, buckets[b] # None)
             /\ LET new == IF o \in {"ok", "timedOut"} THEN Deleted(buckets[b])
                                                       ELSE buckets[b]
                IN  /\ StoreBucket(b, new)
                    /\ freshBucket' = IF new = buckets[b] THEN freshBucket
                                      ELSE [freshBucket EXCEPT ![b] = {}]
    /\ cw' = FailClaim(cw, "terminal")
    /\ unchangedByBucketWrite

ClaimDeleteBucket ==
    /\ cw.pc = "deleteBucket"
    /\ LET b == determineBucketName(cw.claim)
       IN  \E o \in Outcome :
             /\ Ends(o, buckets[b] # None)
             /\ LET new == IF o \in {"ok", "timedOut"} THEN Deleted(buckets[b])
                                                       ELSE buckets[b]
                IN  /\ StoreBucket(b, new)
                    /\ freshBucket' = IF new = buckets[b] THEN freshBucket
                                      ELSE [freshBucket EXCEPT ![b] = {}]
    /\ cw' = FailClaim(cw, "retry")
    /\ unchangedByBucketWrite

ClaimRemoveFinalizer ==
    /\ cw.pc = "removeFinalizer"
    /\ \E o \in Outcome :
         WriteClaim(o, [cw.claim EXCEPT !.finalizer = FALSE], FALSE,
                    IF o = "ok" THEN ClaimIdle ELSE FailClaim(cw, "retry"))
    /\ UNCHANGED claimQueue
    /\ unchangedByClaimWrite

ClaimStep ==
    \/ ClaimAddFinalizer \/ ClaimGetBucket \/ ClaimCreateBucket \/ ClaimBindBucket
    \/ ClaimBind \/ ClaimSetReady \/ ClaimReport \/ ClaimClearStatus
    \/ ClaimGetBucketToDelete \/ ClaimAnnotate \/ ClaimDeleteBucket
    \/ ClaimRemoveFinalizer
-----------------------------------------------------------------------------
(***************************************************************************)
(* The Sidecar: BucketReconciler.                                          *)
(***************************************************************************)
FailBucket(w, e) == [w EXCEPT !.pc = "report", !.error = e]

SetBucketStatus(obj, local) ==
    [obj EXCEPT !.readyToUse = local.readyToUse, !.bucketID = local.bucketID,
                !.statusProtocols = local.statusProtocols, !.error = local.error]

\* Reconcile begins: the Bucket as the cache has it decides where to go.  (Mutant:
\* no finalizer is added.)
startBucketUnprotected(b, obj) ==
    LET w == [BucketIdle EXCEPT !.name = b, !.bucket = obj]
    IN  CASE obj.deleting -> [w EXCEPT !.pc = "removeFinalizer"]
          [] ~obj.deleting /\ ~validateDriverSupportsProtocols(obj)
                          -> FailBucket(w, "terminal")
          [] OTHER        -> [w EXCEPT !.pc = "rpc"]
startBucket(b, obj) ==
    LET w == [BucketIdle EXCEPT !.name = b, !.bucket = obj]
    IN  CASE obj.deleting -> [w EXCEPT !.pc = "removeFinalizer"]
          [] ~obj.deleting /\ ~validateDriverSupportsProtocols(obj)
                          -> FailBucket(w, "terminal")
          [] OTHER        -> [w EXCEPT !.pc = IF obj.finalizer THEN "rpc"
                                                              ELSE "addFinalizer"]

BucketStart(b) ==
    LET obj == sidecarCache[b]
        skip == IF obj = None THEN TRUE ELSE ~driverNameMatches(obj)
    IN  /\ sw.pc = "idle"
        /\ b \in bucketQueue
        /\ bucketQueue' = bucketQueue \ {b}
        /\ sw' = IF skip THEN BucketIdle ELSE startBucket(b, obj)
        /\ freshBucket' = [freshBucket EXCEPT ![b] =
                IF skip THEN @ ELSE AfterRead(@, "sidecarCache", obj, "sidecarWorker")]
        /\ UNCHANGED <<storedClaims, buckets, bucketEvents, classes, cacheVars,
                       claimWorkerVars, backend, envVars, faults>>

unchangedBySidecar ==
    UNCHANGED <<storedClaims, classes, cacheVars, claimWorkerVars, envVars>>

\* "TODO: deletion logic": the finalizer goes, the backend bucket stays, and
\* the reconcile ends with a non-retryable error either way.
BucketRemoveFinalizer ==
    /\ sw.pc = "removeFinalizer"
    /\ LET obj == [sw.bucket EXCEPT !.finalizer = FALSE]
       IN  \E o \in Outcome :
             /\ WriteBucket(o, sw.name, obj, FALSE, "sidecarWorker", FALSE)
             /\ sw' = FailBucket(sw, IF o = "ok" THEN "terminal" ELSE "retry")
    /\ UNCHANGED <<bucketQueue, backend>>
    /\ unchangedBySidecar

BucketAddFinalizer ==
    /\ sw.pc = "addFinalizer"
    /\ LET obj == [sw.bucket EXCEPT !.finalizer = TRUE]
       IN  \E o \in Outcome :
             /\ WriteBucket(o, sw.name, obj, FALSE, "sidecarWorker", FALSE)
             /\ sw' = IF o = "ok" THEN [sw EXCEPT !.pc = "rpc", !.bucket = obj]
                                  ELSE FailBucket(sw, "retry")
    /\ UNCHANGED <<bucketQueue, backend>>
    /\ unchangedBySidecar

\* A failing call.  staticProvision retries NotFound before it looks at the
\* baseline scheme, which retries it too.
provisionError(code) == IF rpcErrorIsRetryable(code) THEN "retry" ELSE "terminal"

\* The driver answered that the backend bucket serves the protocols served:
\* final validation, and the status to be written.
provisioned(w, served) ==
    IF served = {} \/ ~validateBucketSupportsProtocols(served, w.bucket)
    THEN FailBucket(w, "terminal")
    ELSE [w EXCEPT !.pc = "setStatus", !.bucket.readyToUse = "true",
                   !.bucket.bucketID = TRUE, !.bucket.statusProtocols = served,
                   !.bucket.error = "none"]

\* A driver call fails with a code, or its answer lacks a bucket ID, lacks
\* protocols or cannot be translated ("malformed").
RpcFails ==
    /\ faults < MaxFaults
    /\ faults' = faults + 1
    /\ \E e \in {provisionError(code) : code \in Code} \cup {"terminal"} :
         sw' = FailBucket(sw, e)

\* dynamicProvision: DriverCreateBucket makes the backend bucket at most once
\* per name (the driver is idempotent), whether or not the answer arrives.
BucketCreateRpc ==
    /\ sw.pc = "rpc"
    /\ ~sw.bucket.existingBucketID
    /\ IF sw.bucket.refUid = NoUid
       THEN sw' = FailBucket(sw, "terminal") /\ UNCHANGED <<backend, faults>>
       ELSE \/ \E served \in Served :
                 /\ backend[sw.name] # None => served = backend[sw.name]
                 /\ backend' = [backend EXCEPT ![sw.name] = served]
                 /\ \/ sw' = provisioned(sw, served) /\ UNCHANGED faults
                    \/ RpcFails
            \/ RpcFails /\ UNCHANGED backend
    /\ UNCHANGED <<storedBuckets, bucketQueue>>
    /\ unchangedBySidecar

\* staticProvision: DriverGetExistingBucket answers NotFound until the backend
\* bucket exists.  (Mutant: NotFound is taken for an answer.)
BucketGetRpcUnchecked ==
    /\ sw.pc = "rpc"
    /\ sw.bucket.existingBucketID
    /\ sw' = provisioned(sw, sw.bucket.protocols)
    /\ UNCHANGED <<storedBuckets, bucketQueue, backend, faults>>
    /\ unchangedBySidecar

BucketGetRpc ==
    /\ sw.pc = "rpc"
    /\ sw.bucket.existingBucketID
    /\ \/ /\ sw' = IF backend[sw.name] = None
                   THEN FailBucket(sw, provisionError("NotFound"))
                   ELSE provisioned(sw, backend[sw.name])
          /\ UNCHANGED faults
       \/ RpcFails
    /\ UNCHANGED <<storedBuckets, bucketQueue, backend>>
    /\ unchangedBySidecar

\* The worker's copy already carries the new status; a failed write leaves it
\* to the error report, which may then persist it.
BucketSetStatus ==
    /\ sw.pc = "setStatus"
    /\ \E o \in Outcome :
         /\ WriteBucket(o, sw.name, SetBucketStatus(buckets[sw.name], sw.bucket),
                        FALSE, "sidecarWorker", o = "ok")
         /\ sw' = IF o = "ok" THEN BucketIdle ELSE FailBucket(sw, "retry")
    /\ UNCHANGED <<bucketQueue, backend>>
    /\ unchangedBySidecar

BucketReport ==
    /\ sw.pc = "report"
    /\ LET local == [sw.bucket EXCEPT !.readyToUse = NotNil(@), !.error = sw.error]
       IN  \E o \in Outcome :
             /\ WriteBucket(o, sw.name, SetBucketStatus(buckets[sw.name], local),
                            TRUE, "sidecarWorker", TRUE)
             /\ bucketQueue' = IF o = "ok" /\ sw.error \in TerminalError
                               THEN bucketQueue ELSE bucketQueue \cup {sw.name}
    /\ sw' = BucketIdle
    /\ UNCHANGED backend
    /\ unchangedBySidecar

BucketStep ==
    \/ BucketRemoveFinalizer \/ BucketAddFinalizer \/ BucketCreateRpc
    \/ BucketGetRpc \/ BucketSetStatus \/ BucketReport
-----------------------------------------------------------------------------
(***************************************************************************)
(* Informers and restarts (controller-runtime).  A cache catches up with   *)
(* any number of events at once; the key is enqueued if one of them passed *)
(* the event filter.                                                       *)
(***************************************************************************)
ClaimCacheSync(c) ==
    /\ "controllerCache" \notin freshClaim[c]
    /\ claimCache' = [claimCache EXCEPT ![c] = claims[c]]
    /\ freshClaim' = [freshClaim EXCEPT ![c] = @ \cup {"controllerCache"}]
    /\ claimQueue' = claimQueue \cup (claimEvents \cap {c})
    /\ claimEvents' = claimEvents \ {c}
    /\ UNCHANGED <<claims, storedBuckets, classes, bucketCache, sidecarCache,
                   cw, bucketWorkerVars, backend, envVars, faults>>

\* The BucketClaim controller does not watch Buckets: nothing is enqueued.
ControllerBucketSync(b) ==
    /\ "controllerCache" \notin freshBucket[b]
    /\ bucketCache' = [bucketCache EXCEPT ![b] = buckets[b]]
    /\ freshBucket' = [freshBucket EXCEPT ![b] = @ \cup {"controllerCache"}]
    /\ UNCHANGED <<storedClaims, buckets, bucketEvents, classes, claimCache, sidecarCache,
                   claimWorkerVars, bucketWorkerVars, backend, envVars, faults>>

SidecarBucketSync(b) ==
    /\ "sidecarCache" \notin freshBucket[b]
    /\ sidecarCache' = [sidecarCache EXCEPT ![b] = buckets[b]]
    /\ freshBucket' = [freshBucket EXCEPT ![b] = @ \cup {"sidecarCache"}]
    /\ bucketQueue' = bucketQueue \cup (bucketEvents \cap {b})
    /\ bucketEvents' = bucketEvents \ {b}
    /\ UNCHANGED <<storedClaims, buckets, classes, claimCache, bucketCache,
                   claimWorkerVars, sw, backend, envVars, faults>>

\* A process comes back with listed caches, every listed object enqueued, and
\* no memory of the reconcile it was in.
ControllerRestart ==
    /\ restarts < MaxRestarts
    /\ restarts' = restarts + 1
    /\ cw' = ClaimIdle
    /\ claimCache' = claims
    /\ bucketCache' = buckets
    /\ freshClaim' = Relisted(freshClaim, "controllerCache", "controllerWorker")
    /\ freshBucket' = Relisted(freshBucket, "controllerCache", "controllerWorker")
    /\ claimQueue' = {c \in ClaimName : claims[c] # None}
    /\ claimEvents' = {}
    /\ UNCHANGED <<claims, buckets, bucketEvents, classes, sidecarCache,
                   bucketWorkerVars, backend, issued, created, edits, faults>>

SidecarRestart ==
    /\ restarts < MaxRestarts
    /\ restarts' = restarts + 1
    /\ sw' = BucketIdle
    /\ sidecarCache' = buckets
    /\ freshBucket' = Relisted(freshBucket, "sidecarCache", "sidecarWorker")
    /\ bucketQueue' = {b \in BucketName : buckets[b] # None
                                            /\ driverNameMatches(buckets[b])}
    /\ bucketEvents' = {}
    /\ UNCHANGED <<storedClaims, buckets, classes, claimCache, bucketCache,
                   claimWorkerVars, backend, issued, created, edits, faults>>
-----------------------------------------------------------------------------
(***************************************************************************)
(* Users, admins and the backend.                                          *)
(***************************************************************************)
unchangedByUser ==
    UNCHANGED <<cacheVars, claimWorkerVars, bucketWorkerVars, restarts, faults>>

\* A write by somebody else outdates every copy.
EditClaim(c, obj) ==
    /\ StoreClaim(c, obj)
    /\ freshClaim' = [freshClaim EXCEPT ![c] = {}]
    /\ UNCHANGED storedBuckets

EditBucket(b, obj) ==
    /\ StoreBucket(b, obj)
    /\ freshBucket' = [freshBucket EXCEPT ![b] = {}]
    /\ UNCHANGED storedClaims

\* UIDs are never used again; the smallest unused one will do.
UserCreateClaim(c) ==
    /\ claims[c] = None
    /\ \E u \in Uid, sub \in Submissions(c) :
         /\ issued[u] = None
         /\ \A v \in 1 .. u - 1 : issued[v] # None
         /\ issued' = [issued EXCEPT ![u] = sub]
         /\ EditClaim(c, NewClaim(u, sub))
    /\ UNCHANGED <<classes, backend, created, edits>>
    /\ unchangedByUser

UserDeleteClaim(c) ==
    /\ claims[c] # None
    /\ ~claims[c].deleting
    /\ EditClaim(c, Deleted(claims[c]))
    /\ UNCHANGED <<classes, backend, issued, created, edits>>
    /\ unchangedByUser

\* The admin may pre-bind the Bucket to the claim that it names.
AdminCreateBucket(s) ==
    /\ buckets[s] = None
    /\ created[s] = 0
    /\ created' = [created EXCEPT ![s] = 1]
    /\ \E driver \in Driver, policy \in Policy, protos \in Requested,
          c \in ClaimName :
         \E u \in {NoUid} \cup (IF claims[c] = None THEN {} ELSE {claims[c].uid}) :
           EditBucket(s, NewStaticBucket(driver, policy, protos, c, u))
    /\ UNCHANGED <<classes, backend, issued, edits>>
    /\ unchangedByUser

AdminDeleteBucket(b) ==
    /\ buckets[b] # None
    /\ edits < MaxEdits
    /\ edits' = edits + 1
    /\ ~buckets[b].deleting
    /\ EditBucket(b, Deleted(buckets[b]))
    /\ UNCHANGED <<classes, backend, issued, created>>
    /\ unchangedByUser

AdminSetPolicy(b) ==
    /\ buckets[b] # None
    /\ edits < MaxEdits
    /\ edits' = edits + 1
    /\ \E policy \in Policy \ {buckets[b].deletionPolicy} :
         EditBucket(b, [buckets[b] EXCEPT !.deletionPolicy = policy])
    /\ UNCHANGED <<classes, backend, issued, created>>
    /\ unchangedByUser

\* The event that ProtectionFinalizerRemoved is there for.
StripClaim(c) ==
    /\ claims[c] # None
    /\ claims[c].finalizer /\ ~claims[c].deleting
    /\ edits < MaxEdits
    /\ edits' = edits + 1
    /\ EditClaim(c, [claims[c] EXCEPT !.finalizer = FALSE])
    /\ UNCHANGED <<classes, backend, issued, created>>
    /\ unchangedByUser

StripBucket(b) ==
    /\ buckets[b] # None
    /\ buckets[b].finalizer /\ ~buckets[b].deleting
    /\ edits < MaxEdits
    /\ edits' = edits + 1
    /\ EditBucket(b, [buckets[b] EXCEPT !.finalizer = FALSE])
    /\ UNCHANGED <<classes, backend, issued, created>>
    /\ unchangedByUser

\* The Controller's cache shows the class from here on.
AdminCreateClass(k) ==
    /\ k \notin classes
    /\ classes' = classes \cup {k}
    /\ UNCHANGED <<storedClaims, storedBuckets, backend, issued, created,
                   edits>>
    /\ unchangedByUser

\* The bucket behind a statically provisioned Bucket comes into being.
BackendAppears(s) ==
    /\ backend[s] = None
    /\ \E served \in Served : backend' = [backend EXCEPT ![s] = served]
    /\ UNCHANGED <<storedClaims, storedBuckets, classes, issued, created,
                   edits>>
    /\ unchangedByUser

Environment ==
    \/ \E c \in ClaimName : UserCreateClaim(c) \/ UserDeleteClaim(c) \/ StripClaim(c)
    \/ \E s \in StaticName : AdminCreateBucket(s) \/ BackendAppears(s)
    \/ \E b \in BucketName : AdminDeleteBucket(b) \/ AdminSetPolicy(b) \/ StripBucket(b)
    \/ \E k \in ClassName : AdminCreateClass(k)

Runtime ==
    \/ \E c \in ClaimName : ClaimCacheSync(c)
    \/ \E b \in BucketName : ControllerBucketSync(b) \/ SidecarBucketSync(b)
    \/ ControllerRestart \/ SidecarRestart

Controller == (\E c \in ClaimName : ClaimStart(c)) \/ ClaimStep
Sidecar == (\E b \in BucketName : BucketStart(b)) \/ BucketStep

Next == Controller \/ Sidecar \/ Runtime \/ Environment

Spec == Init /\ [][Next]_vars
-----------------------------------------------------------------------------
(***************************************************************************)
(* Fairness.  The one worker of a controller takes its next step, every    *)
(* queued key gets its turn (the work queue is first in, first out), and   *)
(* informers deliver.  Users, admins, backend, faults and restarts owe     *)
(* nothing.                                                                *)
(***************************************************************************)
Fairness ==
    /\ WF_vars(ClaimStep) /\ WF_vars(BucketStep)
    /\ \A c \in ClaimName : SF_vars(ClaimStart(c)) /\ WF_vars(ClaimCacheSync(c))
    /\ \A b \in BucketName : /\ SF_vars(BucketStart(b))
                             /\ WF_vars(ControllerBucketSync(b))
                             /\ WF_vars(SidecarBucketSync(b))

FairSpec == Spec /\ Fairness
-----------------------------------------------------------------------------
(***************************************************************************)
(* Properties.                                                             *)
(***************************************************************************)
\* A claim is bound to a Bucket only if that Bucket, as long as it exists, is
\* bound back to this very claim (name and UID).  In particular no two claims
\* are ever bound to one Bucket, whatever copies reconcile() and
\* ensureStaticBucketBound worked on.
BoundBucketIsMine ==
    \A c \in ClaimName : claims[c] # None =>
        LET b == claims[c].boundBucketName
        IN  b # None /\ buckets[b] # None =>
                buckets[b].refName = c /\ buckets[b].refUid = claims[c].uid

\* "COSI explicitly (for data integrity and security) does not allow re-binding
\* Buckets" (ensureStaticBucketBound): a Bucket that names a claim UID keeps it
\* until it is gone.
NoRebind ==
    [][\A b \in BucketName :
         buckets[b] # None /\ buckets'[b] # None /\ buckets[b].refUid # NoUid =>
            buckets'[b].refUid = buckets[b].refUid]_vars

\* Each status write of the two reconcilers tells the truth about the backend:
\* a claim that is readyToUse is bound, and lists exactly the protocols the
\* backend bucket serves, at least one, and for dynamic provisioning all that
\* the claim asked for.
ReadyClaimSound ==
    \A c \in ClaimName : claims[c] # None /\ claims[c].readyToUse = "true" =>
        LET b == claims[c].boundBucketName
        IN  /\ b # None
            /\ backend[b] = claims[c].statusProtocols
            /\ backend[b] # {}
            /\ ~isStaticProvisioning(claims[c]) => claims[c].protocols \subseteq backend[b]

\* A Bucket gets its bucketID (the Sidecar's final status write, or an error
\* report that carries it) only while the protection finalizer is on it and the
\* backend bucket exists, even if somebody removed the finalizer in between.
ProvisionedUnderProtection ==
    [][\A b \in BucketName :
         /\ buckets'[b] # None /\ buckets'[b].bucketID
         /\ buckets[b] # None => ~buckets[b].bucketID
         => buckets'[b].finalizer /\ backend[b] # None]_vars

\* The Controller does not watch Buckets and drops most claim events, so each
\* way out of Reconcile must leave the claim either finished or due again.  A
\* claim that the cache shows as it is, that is not queued and not being
\* reconciled, is protected and either ready or in a terminal error.
NoForgottenClaim ==
    \A c \in ClaimName :
        /\ claims[c] # None
        /\ "controllerCache" \in freshClaim[c]
        /\ c \notin claimQueue
        /\ cw.name # c
        => /\ ~claims[c].deleting
           /\ claims[c].finalizer
           /\ claims[c].readyToUse = "true" \/ claims[c].error \in TerminalError

\* The same of the Sidecar and a Bucket of its driver: a Bucket at rest is
\* provisioned under its finalizer, or in a terminal error.
NoForgottenBucket ==
    \A b \in BucketName :
        /\ buckets[b] # None
        /\ buckets[b].driverName = ThisDriver
        /\ "sidecarCache" \in freshBucket[b]
        /\ b \notin bucketQueue
        /\ sw.name # b
        => /\ ~buckets[b].deleting
           /\ \/ buckets[b].error \in TerminalError
              \/ /\ buckets[b].readyToUse = "true"
                 /\ buckets[b].finalizer

\* "BucketClaim is bound to a Bucket that no longer exists" (reconcile): a claim
\* is put into this unrecoverable error only if its Bucket is gone.
DegradedOnlyIfGone ==
    [][\A c \in ClaimName :
         /\ claims'[c] # None /\ claims'[c].error = "bucketGone"
         /\ claims[c] # None => claims[c].error # "bucketGone"
         => buckets[claims'[c].boundBucketName] = None]_vars

\* The BucketClaimBeingDeletedAnnotation is "applied by the COSI Controller to a
\* Bucket when its BucketClaim is being deleted": a dynamically provisioned
\* Bucket whose claim is gone carries it (reconcileDelete annotates before it
\* lets the claim go), unless somebody edited an object by hand.
OrphanIsMarked ==
    edits = 0 => \A u \in Uid :
        /\ buckets[DynamicName(u)] # None
        /\ \A c \in ClaimName : claims[c] # None => claims[c].uid # u
        => buckets[DynamicName(u)].claimDeleting

\* "Recreating the intermediate bucket could lead to data loss" (reconcile): no
\* Bucket is created for a claim that is already bound.
NoRecreation ==
    [][\A c \in ClaimName :
         claims[c] # None /\ claims[c].boundBucketName # None =>
            created'[claims[c].boundBucketName] = created[claims[c].boundBucketName]]_vars

\* A claim that is being deleted goes away: reconcileDelete is retried until the
\* Bucket is gone (or may stay), and the Sidecar lets the Bucket go.
DeletionCompletes ==
    \A c \in ClaimName :
        (claims[c] # None /\ claims[c].deleting)
            ~> (claims[c] = None \/ ~claims[c].deleting)

\* A dynamic claim whose class exists is answered: it is ready, it or its Bucket
\* shows a terminal error, or it is deleted first.  Lost answers, conflicts and
\* lagging caches only delay.
ClaimSettles ==
    \A c \in ClaimName :
        (/\ claims[c] # None
         /\ claims[c].bucketClassName \in classes)
            ~> (\/ claims[c] = None
                \/ claims[c].deleting
                \/ claims[c].readyToUse = "true"
                \/ claims[c].error \in TerminalError
                \/ LET b == determineBucketName(claims[c])
                   IN  buckets[b] # None /\ buckets[b].error \in TerminalError)
=============================================================================
