----------------------- MODULE ProvisioningInvariant ------------------------
(***************************************************************************)
(* The inductive invariant of Provisioning.  ProvisioningSteps shows which *)
(* steps preserve it; the theorems are in ProvisioningProofs.              *)
(*                                                                         *)
(* The argument.  Copies of objects (in caches and in workers) may be old, *)
(* but what they say that never changes again is true (ClaimCopy,          *)
(* BucketCopy): which claim a Bucket is bound to, what a backend bucket    *)
(* serves.  Copies at the current version are accurate (Coherence), so a   *)
(* write that the API server accepts changes what its author looked at.    *)
(* The program counter says how much has been checked (ClaimAt, BucketAt). *)
(***************************************************************************)
EXTENDS Provisioning

\* obj is a version of a claim submitted as c.  If it is bound, the Bucket, if
\* it exists, is bound back; if it is ready, its protocols are the backend's.
ClaimCopy(c, obj) ==
    /\ issued[obj.uid] = [name |-> c, bucketClassName |-> obj.bucketClassName,
                          existingBucketName |-> obj.existingBucketName,
                          protocols |-> obj.protocols]
    /\ obj.boundBucketName # None =>
         LET b == determineBucketName(obj)
         IN  /\ obj.boundBucketName = b
             /\ created[b] >= 1
             /\ buckets[b] # None => /\ buckets[b].refName = c
                                     /\ buckets[b].refUid = obj.uid
    /\ obj.readyToUse = "true" =>
         /\ obj.boundBucketName # None
         /\ obj.statusProtocols # {}
         /\ backend[obj.boundBucketName] = obj.statusProtocols
         /\ ~isStaticProvisioning(obj) => obj.protocols \subseteq obj.statusProtocols

\* obj is a version of a Bucket that was created as b.  A dynamic one comes from
\* the claim in its name; a reference once made stays; a status that says the
\* Bucket is provisioned is right.
BucketCopy(b, obj) ==
    /\ created[b] >= 1
    /\ \A u \in Uid : b = DynamicName(u) =>
         /\ issued[u] # None
         /\ issued[u].bucketClassName \in ClassName
         /\ obj.refUid = u
         /\ obj.refName = issued[u].name
         /\ obj.protocols = issued[u].protocols
         /\ obj.driverName = ClassSpec[issued[u].bucketClassName].driver
    /\ obj.refUid # NoUid /\ buckets[b] # None =>
         /\ buckets[b].refUid = obj.refUid
         /\ buckets[b].refName = obj.refName
    /\ obj.bucketID \/ obj.readyToUse = "true" =>
         /\ obj.bucketID
         /\ obj.readyToUse = "true"
         /\ obj.statusProtocols # {}
         /\ obj.protocols \subseteq obj.statusProtocols
         /\ backend[b] = obj.statusProtocols

\* What is stored and what is cached.
Copies ==
    /\ \A c \in ClaimName :
         /\ claims[c] # None => ClaimCopy(c, claims[c])
         /\ claimCache[c] # None => ClaimCopy(c, claimCache[c])
    /\ \A b \in BucketName :
         /\ buckets[b] # None => BucketCopy(b, buckets[b])
         /\ bucketCache[b] # None => BucketCopy(b, bucketCache[b])
         /\ sidecarCache[b] # None => BucketCopy(b, sidecarCache[b])

\* What the claim worker w has found out when it is about to make a call.
ClaimAt(w) ==
    /\ w.pc = "addFinalizer" => ~w.claim.deleting
    /\ w.pc \in {"getBucket", "createBucket", "bindBucket", "bindClaim", "setReady"} =>
         ~w.claim.deleting /\ w.claim.finalizer
    /\ w.pc \in {"clearStatus", "getBucketToDelete", "annotate", "deleteBucket",
                 "removeFinalizer"} => w.claim.deleting
    /\ w.pc = "createBucket" =>
         ~isStaticProvisioning(w.claim) /\ w.claim.bucketClassName \in ClassName
    /\ w.pc \in {"bindBucket", "bindClaim", "setReady", "annotate"} =>
         w.bucket \in BucketObject
    /\ w.pc = "bindBucket" =>
         /\ isStaticProvisioning(w.claim)
         /\ w.bucket.refUid = NoUid
         /\ w.bucket.refName = w.name
    /\ w.pc \in {"bindClaim", "setReady"} =>
         w.bucket.refUid = w.claim.uid /\ w.bucket.refName = w.name
    /\ w.pc = "setReady" => w.claim.boundBucketName # None /\ w.bucket.bucketID
    /\ w.pc = "report" /\ w.error \in TerminalError =>
         ~w.claim.deleting /\ w.claim.finalizer

\* The claim worker: its copies are copies, and its pc is right.
ClaimWorkerOK(w) ==
    /\ w.pc = "idle" => w = ClaimIdle
    /\ w.pc # "idle" =>
         /\ w.name \in ClaimName
         /\ w.claim \in ClaimObject
         /\ ClaimCopy(w.name, w.claim)
         /\ w.bucket # None => BucketCopy(determineBucketName(w.claim), w.bucket)
    /\ ClaimAt(w)

\* The same of the Sidecar's worker.
BucketAt(w) ==
    /\ w.pc \in {"addFinalizer", "rpc", "setStatus"} => ~w.bucket.deleting
    /\ w.pc \in {"rpc", "setStatus"} => w.bucket.finalizer
    /\ w.pc = "removeFinalizer" => w.bucket.deleting
    /\ w.pc = "setStatus" => w.bucket.bucketID

BucketWorkerOK(w) ==
    /\ w.pc = "idle" => w = BucketIdle
    /\ w.pc # "idle" =>
         /\ w.name \in BucketName
         /\ w.bucket \in BucketObject
         /\ BucketCopy(w.name, w.bucket)
    /\ BucketAt(w)
-----------------------------------------------------------------------------
\* What is held at the current version is what is stored.  At "report" the
\* status may have been changed in the worker's copy.
CacheCoherence ==
    /\ \A c \in ClaimName :
         "controllerCache" \in freshClaim[c] => claimCache[c] = claims[c]
    /\ \A b \in BucketName :
         /\ "controllerCache" \in freshBucket[b] => bucketCache[b] = buckets[b]
         /\ "sidecarCache" \in freshBucket[b] => sidecarCache[b] = buckets[b]

SameClaim(x, y) == SetClaimStatus(x, y) = y
SameBucket(x, y) == SetBucketStatus(x, y) = y

ClaimCoherence ==
    cw.pc # "idle" /\ "controllerWorker" \in freshClaim[cw.name] =>
        /\ claims[cw.name] # None
        /\ SameClaim(cw.claim, claims[cw.name])
        /\ cw.pc # "report" => cw.claim = claims[cw.name]

BoundCoherence ==
    /\ cw.pc \in {"bindBucket", "annotate"}
    /\ "controllerWorker" \in freshBucket[determineBucketName(cw.claim)]
    => buckets[determineBucketName(cw.claim)] = cw.bucket

BucketCoherence ==
    sw.pc # "idle" /\ "sidecarWorker" \in freshBucket[sw.name] =>
        /\ buckets[sw.name] # None
        /\ SameBucket(sw.bucket, buckets[sw.name])
        /\ sw.pc \in {"addFinalizer", "removeFinalizer"} => sw.bucket = buckets[sw.name]
        /\ sw.bucket.bucketID => sw.bucket.finalizer \/ buckets[sw.name].bucketID
        /\ sw.pc = "report" /\ sw.error \in TerminalError => ~sw.bucket.deleting

\* Nothing at rest is unfinished; what the cache has not seen will be an event.
ClaimSettled(obj) ==
    /\ ~obj.deleting
    /\ obj.finalizer
    /\ obj.readyToUse = "true" \/ obj.error \in TerminalError

ClaimsAttended ==
    \A c \in ClaimName :
        /\ c \in claimEvents => "controllerCache" \notin freshClaim[c]
        /\ claims[c] # None /\ claimCache[c] = None => c \in claimEvents
        /\ \/ claims[c] = None
           \/ c \in claimEvents \cup claimQueue
           \/ cw.name = c
           \/ ClaimSettled(claims[c])

BucketSettled(obj) ==
    /\ ~obj.deleting
    /\ \/ obj.error \in TerminalError
       \/ obj.readyToUse = "true" /\ obj.finalizer

BucketsAttended ==
    \A b \in BucketName :
        /\ b \in bucketEvents => "sidecarCache" \notin freshBucket[b]
        /\ buckets[b] # None /\ driverNameMatches(buckets[b]) =>
             /\ sidecarCache[b] = None => b \in bucketEvents
             /\ sidecarCache[b] # None => driverNameMatches(sidecarCache[b])
             /\ \/ b \in bucketEvents \cup bucketQueue
                \/ sw.name = b
                \/ BucketSettled(buckets[b])

IInv ==
    /\ TypeOK /\ Copies /\ ClaimWorkerOK(cw) /\ BucketWorkerOK(sw)
    /\ CacheCoherence /\ ClaimCoherence /\ BoundCoherence /\ BucketCoherence
    /\ ClaimsAttended /\ BucketsAttended
=============================================================================
