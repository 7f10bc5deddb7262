------------------------- MODULE ProvisioningProofs -------------------------
(***************************************************************************)
(* Safety of Provisioning, for every value of the constants: its invariant *)
(* is inductive, and the properties follow from it.                        *)
(*                                                                         *)
(* First come the types of the pure functions, what keeps copies of        *)
(* objects true, the writes of a claim by its worker, the writes of a      *)
(* Bucket by anybody, and the Sidecar.  One lemma covers all writes of a   *)
(* Bucket: it leaves to each writer what the Bucket is now, what the two   *)
(* workers go on with, and who will attend to the Bucket.                  *)
(***************************************************************************)
EXTENDS ProvisioningInvariant, TLAPS

\* The invariant and the types, by conjunct.  The proofs cite these two lemmas where
\* they look inside IInv or TypeOK, now and after the step.
LEMMA InvariantParts ==
    (IInv <=>
      /\ TypeOK /\ Copies /\ ClaimWorkerOK(cw) /\ BucketWorkerOK(sw)
      /\ CacheCoherence /\ ClaimCoherence /\ BoundCoherence /\ BucketCoherence
      /\ ClaimsAttended /\ BucketsAttended)
    /\ (IInv' <=>
     (/\ TypeOK /\ Copies /\ ClaimWorkerOK(cw) /\ BucketWorkerOK(sw)
      /\ CacheCoherence /\ ClaimCoherence /\ BoundCoherence /\ BucketCoherence
      /\ ClaimsAttended /\ BucketsAttended)')
BY Zenon DEF IInv

\* Every variable has its type exactly when TypeOK holds.
LEMMA TypeParts ==
    (TypeOK <=>
      /\ claims \in [ClaimName -> ClaimObject \cup {None}]
      /\ buckets \in [BucketName -> BucketObject \cup {None}]
      /\ classes \subseteq ClassName
      /\ freshClaim \in [ClaimName -> SUBSET Holder]
      /\ freshBucket \in [BucketName -> SUBSET Holder]
      /\ claimEvents \subseteq ClaimName
      /\ bucketEvents \subseteq BucketName
      /\ claimCache \in [ClaimName -> ClaimObject \cup {None}]
      /\ bucketCache \in [BucketName -> BucketObject \cup {None}]
      /\ sidecarCache \in [BucketName -> BucketObject \cup {None}]
      /\ claimQueue \subseteq ClaimName
      /\ bucketQueue \subseteq BucketName
      /\ cw \in ClaimWorker
      /\ sw \in BucketWorker
      /\ backend \in [BucketName -> (SUBSET Protocol) \cup {None}]
      /\ issued \in [Uid -> Submission \cup {None}]
      /\ created \in [BucketName -> Nat]
      /\ faults \in 0 .. MaxFaults
      /\ restarts \in 0 .. MaxRestarts
      /\ edits \in 0 .. MaxEdits)
    /\ (TypeOK' <=>
     (/\ claims \in [ClaimName -> ClaimObject \cup {None}]
      /\ buckets \in [BucketName -> BucketObject \cup {None}]
      /\ classes \subseteq ClassName
      /\ freshClaim \in [ClaimName -> SUBSET Holder]
      /\ freshBucket \in [BucketName -> SUBSET Holder]
      /\ claimEvents \subseteq ClaimName
      /\ bucketEvents \subseteq BucketName
      /\ claimCache \in [ClaimName -> ClaimObject \cup {None}]
      /\ bucketCache \in [BucketName -> BucketObject \cup {None}]
      /\ sidecarCache \in [BucketName -> BucketObject \cup {None}]
      /\ claimQueue \subseteq ClaimName
      /\ bucketQueue \subseteq BucketName
      /\ cw \in ClaimWorker
      /\ sw \in BucketWorker
      /\ backend \in [BucketName -> (SUBSET Protocol) \cup {None}]
      /\ issued \in [Uid -> Submission \cup {None}]
      /\ created \in [BucketName -> Nat]
      /\ faults \in 0 .. MaxFaults
      /\ restarts \in 0 .. MaxRestarts
      /\ edits \in 0 .. MaxEdits)')
BY Zenon DEF TypeOK

-----------------------------------------------------------------------------
(***************************************************************************)
(* Types of the pure functions.                                            *)
(***************************************************************************)
\* determineBucketName yields the name of a Bucket.
LEMMA NameType ==
    ASSUME NEW claim \in ClaimObject
    PROVE  determineBucketName(claim) \in BucketName
BY Zenon DEF ClaimObject, determineBucketName, isStaticProvisioning, BucketName

\* The pure parts of the claim reconciler take a worker to a worker.
LEMMA WorkerType ==
    ASSUME NEW w \in ClaimWorker, w.claim \in ClaimObject
    PROVE  /\ \A e \in Error : FailClaim(w, e) \in ClaimWorker
           /\ w.bucket \in BucketObject => /\ checkProvisioned(w) \in ClaimWorker
                                           /\ checkClaimBound(w) \in ClaimWorker
                                           /\ checkBucketBound(w) \in ClaimWorker
           /\ bucketNotFound(w) \in ClaimWorker
           /\ deleteDecision(w) \in ClaimWorker
<1>1. \A e \in Error : FailClaim(w, e) \in ClaimWorker
  BY Zenon DEF FailClaim, ClaimWorker, ClaimPc
<1>2. {"retry", "terminal", "bucketGone"} \subseteq Error
  BY Zenon DEF Error, TerminalError
<1>3. \A pc \in ClaimPc : [w EXCEPT !.pc = pc] \in ClaimWorker
  BY Zenon DEF ClaimWorker
<1>4. checkProvisioned(w) \in ClaimWorker
  BY Zenon, <1>1, <1>2, <1>3 DEF checkProvisioned, ClaimPc
<1>5. checkClaimBound(w) \in ClaimWorker
  BY Zenon, <1>3, <1>4 DEF checkClaimBound, ClaimPc
<1>6. checkBucketBound(w) \in ClaimWorker
  BY Zenon, <1>1, <1>2, <1>3, <1>5 DEF checkBucketBound, ClaimPc
<1>7. bucketNotFound(w) \in ClaimWorker
  BY Zenon, <1>1, <1>2, <1>3 DEF bucketNotFound, ClaimPc
<1>8. deleteDecision(w) \in ClaimWorker
  BY Zenon, <1>1, <1>2, <1>3 DEF deleteDecision, ClaimPc, bucketIsBoundToClaim
<1> QED BY Zenon, <1>1, <1>4, <1>5, <1>6, <1>7, <1>8

\* Objects made by the reconcilers and the users are objects.
LEMMA ObjectType ==
    /\ \A claim \in ClaimObject, local \in ClaimObject :
         SetClaimStatus(claim, local) \in ClaimObject
    /\ \A bucket \in BucketObject, local \in BucketObject :
         SetBucketStatus(bucket, local) \in BucketObject
    /\ \A u \in Uid, sub \in Submission : NewClaim(u, sub) \in ClaimObject
    /\ \A d \in Driver, p \in Policy, protos \in Requested, c \in ClaimName,
          u \in Uid \cup {NoUid} : NewStaticBucket(d, p, protos, c, u) \in BucketObject
    /\ \A claim \in ClaimObject, c \in ClaimName, k \in ClassName :
         generateIntermediateBucket(claim, c, ClassSpec[k]) \in BucketObject
<1>1. \A claim \in ClaimObject, local \in ClaimObject :
         SetClaimStatus(claim, local) \in ClaimObject
  BY ZenonT(40) DEF ClaimObject, SetClaimStatus
<1>2. \A bucket \in BucketObject, local \in BucketObject :
         SetBucketStatus(bucket, local) \in BucketObject
  BY ZenonT(40) DEF BucketObject, SetBucketStatus
<1>3. \A u \in Uid, sub \in Submission : NewClaim(u, sub) \in ClaimObject
  BY Zenon, ResourceAssumption DEF NewClaim, ClaimObject, Submission, ReadyToUse, Error
<1>4. \A d \in Driver, p \in Policy, protos \in Requested, c \in ClaimName,
          u \in Uid \cup {NoUid} : NewStaticBucket(d, p, protos, c, u) \in BucketObject
  BY ZenonT(40), ResourceAssumption DEF NewStaticBucket, BucketObject, ReadyToUse, Error
<1>5. \A claim \in ClaimObject, c \in ClaimName, k \in ClassName :
         generateIntermediateBucket(claim, c, ClassSpec[k]) \in BucketObject
  BY Zenon, ResourceAssumption DEF generateIntermediateBucket, ClaimObject, ClassObject,
       BucketObject, ReadyToUse, Error
<1> QED BY Zenon, <1>1, <1>2, <1>3, <1>4, <1>5

\* A write of the claim keeps the types.
LEMMA WriteClaimType ==
    ASSUME TypeOK, cw.name \in ClaimName, NEW o, NEW obj, NEW touch,
           NEW w \in ClaimWorker,
           WriteClaim(o, obj, touch, w),
           o \in {"ok", "timedOut"} => obj \in ClaimObject
    PROVE  /\ claims' \in [ClaimName -> ClaimObject \cup {None}]
           /\ freshClaim' \in [ClaimName -> SUBSET Holder]
           /\ freshBucket' \in [BucketName -> SUBSET Holder]
           /\ claimEvents' \subseteq ClaimName
           /\ cw' \in ClaimWorker
           /\ faults' \in 0 .. MaxFaults
<1>1. claims' \in [ClaimName -> ClaimObject \cup {None}]
  BY Zenon, TypeParts DEF WriteClaim, StoreClaim, Persisted
<1>2. freshClaim' \in [ClaimName -> SUBSET Holder]
  BY Zenon, TypeParts DEF WriteClaim, AfterWrite, Forget, Holder
<1>3. freshBucket' \in [BucketName -> SUBSET Holder]
  BY Zenon, TypeParts DEF WriteClaim, Forget
<1>4. claimEvents' \subseteq ClaimName
  BY Zenon, TypeParts DEF WriteClaim, StoreClaim
<1>5. faults' \in 0 .. MaxFaults
  BY SMTT(60), ProvisioningAssumption, TypeParts DEF WriteClaim, Ends
<1> QED BY Zenon, <1>1, <1>2, <1>3, <1>4, <1>5 DEF WriteClaim

\* A write of a Bucket keeps the types.
LEMMA WriteBucketType ==
    ASSUME TypeOK, NEW o, NEW b \in BucketName, NEW obj, NEW touch,
           NEW worker \in Holder, NEW done,
           WriteBucket(o, b, obj, touch, worker, done),
           o \in {"ok", "timedOut"} => obj \in BucketObject
    PROVE  /\ buckets' \in [BucketName -> BucketObject \cup {None}]
           /\ freshBucket' \in [BucketName -> SUBSET Holder]
           /\ bucketEvents' \subseteq BucketName
           /\ faults' \in 0 .. MaxFaults
<1>1. buckets' \in [BucketName -> BucketObject \cup {None}]
  BY Zenon, TypeParts DEF WriteBucket, StoreBucket, Persisted
<1>2. freshBucket' \in [BucketName -> SUBSET Holder]
  BY Zenon, TypeParts DEF WriteBucket, AfterWrite, Forget
<1>3. bucketEvents' \subseteq BucketName
  BY Zenon, TypeParts DEF WriteBucket, StoreBucket
<1>4. faults' \in 0 .. MaxFaults
  BY SMTT(60), ProvisioningAssumption, TypeParts DEF WriteBucket, Ends
<1> QED BY Zenon, <1>1, <1>2, <1>3, <1>4
-----------------------------------------------------------------------------
(***************************************************************************)
(* What never changes again, and why old copies stay true.                 *)
(***************************************************************************)
\* UIDs are not reused, a backend bucket stays as it is, a Bucket keeps its
\* reference, and a name is used again only for a Bucket of the same claim.
Monotone ==
    /\ \A u \in Uid : issued[u] # None => issued'[u] = issued[u]
    /\ \A b \in BucketName :
         /\ created'[b] >= created[b]
         /\ backend[b] # None => backend'[b] = backend[b]
         /\ buckets'[b] # None =>
              \/ /\ buckets[b] # None
                 /\ buckets'[b].refName = buckets[b].refName
                 /\ buckets[b].refUid # NoUid => buckets'[b].refUid = buckets[b].refUid
              \/ created[b] = 0
              \/ \E u \in Uid : /\ b = DynamicName(u)
                                /\ issued[u] # None
                                /\ buckets'[b].refUid = u
                                /\ buckets'[b].refName = issued[u].name

\* The count of a name's Buckets does not fall when it stays.
LEMMA CreatedStays ==
    ASSUME TypeOK, UNCHANGED created
    PROVE  \A b \in BucketName : created'[b] >= created[b]
<1>1. PICK f : f = created
  BY Zenon
<1>2. f \in [BucketName -> Nat] /\ created' = f
  BY Zenon, <1>1 DEF TypeOK
<1> QED BY SMTT(60), <1>1, <1>2

\* UIDs and dynamic names correspond, and no UID is the empty one.
LEMMA DynamicNames ==
    /\ \A u, v \in Uid : DynamicName(u) = DynamicName(v) => u = v
    /\ NoUid \notin Uid
    /\ \A claim \in ClaimObject, u \in Uid :
         determineBucketName(claim) = DynamicName(u) =>
            ~isStaticProvisioning(claim) /\ claim.uid = u
<1>1. \A u, v \in Uid : DynamicName(u) = DynamicName(v) => u = v
  BY Zenon DEF DynamicName
<1>2. NoUid \notin Uid
  BY SMTT(60), ResourceAssumption DEF NoUid, Uid
<1>3. \A claim \in ClaimObject, u \in Uid :
         determineBucketName(claim) = DynamicName(u) =>
            ~isStaticProvisioning(claim) /\ claim.uid = u
  BY SMTT(60), <1>1, ResourceAssumption DEF determineBucketName, isStaticProvisioning, ClaimObject
<1> QED BY Zenon, <1>1, <1>2, <1>3

\* A copy of a claim stays a copy.
LEMMA ClaimCopyStable ==
    ASSUME TypeOK, TypeOK', Monotone, NEW c \in ClaimName, NEW obj \in ClaimObject,
           ClaimCopy(c, obj)
    PROVE  ClaimCopy(c, obj)'
<1> DEFINE b == determineBucketName(obj)
<1>0. b \in BucketName /\ obj.uid \in Uid
  BY Zenon, NameType DEF ClaimObject
<1>1. issued'[obj.uid] = issued[obj.uid]
  <2>1. issued[obj.uid] \in Submission
    BY SMTT(60) DEF ClaimCopy, ClaimObject, Submission
  <2> QED BY Zenon, <1>0, <2>1, ResourceAssumption DEF Monotone
<1>2. ASSUME obj.boundBucketName # None
      PROVE  /\ obj.boundBucketName = b
             /\ created'[b] >= 1
             /\ buckets'[b] # None => /\ buckets'[b].refName = c
                                      /\ buckets'[b].refUid = obj.uid
  <2>1. obj.boundBucketName = b /\ created[b] >= 1
    BY Zenon, <1>2 DEF ClaimCopy
  <2>2. created'[b] >= 1
    BY SMTT(60), <1>0, <2>1, TypeParts DEF Monotone
  <2>3. ASSUME buckets'[b] # None
        PROVE  buckets'[b].refName = c /\ buckets'[b].refUid = obj.uid
    <3>1. CASE /\ buckets[b] # None
               /\ buckets'[b].refName = buckets[b].refName
               /\ buckets[b].refUid # NoUid => buckets'[b].refUid = buckets[b].refUid
      BY Zenon, <1>0, <1>2, <3>1, DynamicNames DEF ClaimCopy
    <3>2. CASE created[b] = 0
      BY SMTT(60), <1>0, <2>1, <3>2
    <3>3. CASE \E u \in Uid : /\ b = DynamicName(u)
                              /\ issued[u] # None
                              /\ buckets'[b].refUid = u
                              /\ buckets'[b].refName = issued[u].name
      BY SMTT(60), <3>3, DynamicNames DEF ClaimCopy
    <3> QED BY Zenon, <1>0, <2>3, <3>1, <3>2, <3>3 DEF Monotone
  <2> QED BY Zenon, <2>1, <2>2, <2>3
<1>3. ASSUME obj.readyToUse = "true"
      PROVE  backend'[obj.boundBucketName] = backend[obj.boundBucketName]
  <2>1. obj.boundBucketName = b /\ backend[b] = obj.statusProtocols
    BY Zenon, <1>3 DEF ClaimCopy
  <2>2. backend[b] # None
    BY Zenon, <2>1, ResourceAssumption DEF ClaimObject
  <2> QED BY Zenon, <1>0, <2>1, <2>2 DEF Monotone
<1> QED BY Zenon, <1>1, <1>2, <1>3 DEF ClaimCopy

\* A copy of a Bucket stays a copy.
LEMMA BucketCopyStable ==
    ASSUME TypeOK, TypeOK', Monotone, NEW b \in BucketName, NEW obj \in BucketObject,
           BucketCopy(b, obj)
    PROVE  BucketCopy(b, obj)'
<1>1. created'[b] >= 1
  BY SMTT(60), TypeParts DEF BucketCopy, Monotone
<1>2. \A u \in Uid : b = DynamicName(u) => issued'[u] = issued[u]
  BY Zenon DEF BucketCopy, Monotone
<1>3. ASSUME obj.refUid # NoUid, buckets'[b] # None
      PROVE  buckets'[b].refUid = obj.refUid /\ buckets'[b].refName = obj.refName
  <2>1. CASE /\ buckets[b] # None
             /\ buckets'[b].refName = buckets[b].refName
             /\ buckets[b].refUid # NoUid => buckets'[b].refUid = buckets[b].refUid
    BY Zenon, <1>3, <2>1 DEF BucketCopy
  <2>2. CASE created[b] = 0
    BY SMTT(60), <2>2 DEF BucketCopy
  <2>3. CASE \E u \in Uid : /\ b = DynamicName(u)
                            /\ issued[u] # None
                            /\ buckets'[b].refUid = u
                            /\ buckets'[b].refName = issued[u].name
    BY Zenon, <2>3 DEF BucketCopy
  <2> QED BY Zenon, <1>3, <2>1, <2>2, <2>3 DEF Monotone
<1>4. ASSUME obj.bucketID \/ obj.readyToUse = "true"
      PROVE  backend'[b] = backend[b]
  BY SMTT(60), <1>4, ResourceAssumption DEF BucketCopy, Monotone, BucketObject
<1> QED BY ZenonT(120), <1>1, <1>2, <1>3, <1>4 DEF BucketCopy

\* The two lemmas above, for all copies at once.
LEMMA CopiesStable ==
    ASSUME TypeOK, TypeOK', Monotone
    PROVE  /\ \A c \in ClaimName, obj \in ClaimObject :
                ClaimCopy(c, obj) => ClaimCopy(c, obj)'
           /\ \A b \in BucketName, obj \in BucketObject :
                BucketCopy(b, obj) => BucketCopy(b, obj)'
BY Zenon, ClaimCopyStable, BucketCopyStable

\* A worker that does not move keeps what it knows.
LEMMA WorkersStable ==
    ASSUME TypeOK, TypeOK', Monotone
    PROVE  /\ \A w \in ClaimWorker : ClaimWorkerOK(w) => ClaimWorkerOK(w)'
           /\ \A w \in BucketWorker : BucketWorkerOK(w) => BucketWorkerOK(w)'
<1>1. ASSUME NEW w \in ClaimWorker, ClaimWorkerOK(w) PROVE ClaimWorkerOK(w)'
  <2>1. w.bucket # None => w.bucket \in BucketObject
    BY Zenon DEF ClaimWorker
  <2>2. w.claim \in ClaimObject => determineBucketName(w.claim) \in BucketName
    BY Zenon, NameType
  <2>3. ClaimAt(w)' = ClaimAt(w)
    BY Zenon DEF ClaimAt, isStaticProvisioning
  <2> QED BY Zenon, <1>1, <2>1, <2>2, <2>3, CopiesStable DEF ClaimWorkerOK
<1>2. ASSUME NEW w \in BucketWorker, BucketWorkerOK(w) PROVE BucketWorkerOK(w)'
  <2>1. BucketAt(w)' = BucketAt(w)
    BY Zenon DEF BucketAt
  <2> QED BY Zenon, <1>2, <2>1, CopiesStable DEF BucketWorkerOK
<1> QED BY Zenon, <1>1, <1>2
-----------------------------------------------------------------------------
(***************************************************************************)
(* Writes of a claim.  One lemma for all of them: the side conditions say  *)
(* what is written and what the worker goes on with.                       *)
(***************************************************************************)
\* Any write of the claim that the Controller's worker holds preserves the
\* invariant, if the written object and what the worker goes on with are in order.
LEMMA ClaimWriteStep ==
    ASSUME IInv, cw.pc # "idle",
           NEW o \in Outcome, NEW obj, NEW touch, NEW w \in ClaimWorker,
           WriteClaim(o, obj, touch, w),
           unchangedByClaimWrite,
           claimQueue' = claimQueue \/ claimQueue' = claimQueue \cup {cw.name},
           "controllerWorker" \in freshClaim[cw.name] =>
             obj \in ClaimObject /\ ClaimCopy(cw.name, obj),
           w = ClaimIdle \/ (w.pc # "idle" /\ w.name = cw.name),
           ClaimWorkerOK(w),
           w.pc \notin {"bindBucket", "annotate"},
           "controllerWorker" \in freshClaim[cw.name] /\ w # ClaimIdle =>
             IF o = "ok" THEN SameClaim(w.claim, obj) /\ (w.pc # "report" => w.claim = obj)
                         ELSE w.pc = "report" /\ SameClaim(w.claim, claims[cw.name]),
           w = ClaimIdle =>
             \/ cw.name \in claimQueue'
             \/ /\ o = "ok"
                /\ Persisted(obj) = None \/ ClaimSettled(Persisted(obj))
    PROVE  IInv'
<1> DEFINE c == cw.name
           token == "controllerWorker" \in freshClaim[c]
           new == Persisted(obj)
<1> /\ TypeOK /\ Copies /\ ClaimWorkerOK(cw) /\ BucketWorkerOK(sw)
    /\ CacheCoherence /\ ClaimCoherence /\ BoundCoherence /\ BucketCoherence
    /\ ClaimsAttended /\ BucketsAttended
  BY Zenon, InvariantParts
<1>0. c \in ClaimName /\ cw.claim \in ClaimObject
  BY Zenon DEF ClaimWorkerOK
<1>1. TypeOK'
  <2>1. o \in {"ok", "timedOut"} => obj \in ClaimObject
    BY Zenon DEF WriteClaim, Ends
  <2> QED BY Zenon, <1>0, <2>1, WriteClaimType, TypeParts DEF unchangedByClaimWrite, cacheVars,
             bucketWorkerVars, envVars
<1>2. Monotone
  BY Zenon, CreatedStays DEF Monotone, unchangedByClaimWrite, envVars
<1>3. \/ /\ claims' = claims
         /\ claimEvents' = claimEvents
         /\ o = "ok" => claims[c] = new
         /\ \A k \in ClaimName : freshClaim'[k] \subseteq freshClaim[k]
      \/ /\ token
         /\ o \in {"ok", "timedOut"}
         /\ claims' = [claims EXCEPT ![c] = new]
         /\ claimEvents' = IF ClaimEventEnqueues(claims[c], new)
                           THEN claimEvents \cup {c} ELSE claimEvents
         /\ \A k \in ClaimName : k # c => freshClaim'[k] \subseteq freshClaim[k]
         /\ freshClaim'[c] # {} => /\ o = "ok" /\ new # None
                                   /\ freshClaim'[c] = {"controllerWorker"}
  <2>1. CASE o \notin {"ok", "timedOut"}
    BY Zenon, <1>0, <2>1, TypeParts DEF WriteClaim, StoreClaim, AfterWrite, Forget,
       ClaimEventEnqueues, ClaimGenerationChanged, ProtectionFinalizerRemoved
  <2>2. CASE o \in {"ok", "timedOut"} /\ new = claims[c] /\ ~touch
    BY ZenonT(120), <1>0, <2>2, TypeParts DEF WriteClaim, StoreClaim, AfterWrite, Forget,
       ClaimEventEnqueues, ClaimGenerationChanged, ProtectionFinalizerRemoved
  <2>3. CASE o \in {"ok", "timedOut"} /\ (new # claims[c] \/ touch)
    <3>1. token
      BY Zenon, <2>3 DEF WriteClaim, Ends
    <3> QED BY Zenon, <1>0, <2>3, <3>1, TypeParts DEF WriteClaim, StoreClaim, AfterWrite, Forget
  <2> QED BY Zenon, <2>1, <2>2, <2>3
<1>4. /\ cw' = w /\ sw' = sw
      /\ buckets' = buckets /\ bucketEvents' = bucketEvents /\ bucketQueue' = bucketQueue
      /\ claimCache' = claimCache /\ bucketCache' = bucketCache /\ sidecarCache' = sidecarCache
      /\ \A b \in BucketName : /\ freshBucket'[b] \subseteq freshBucket[b]
                               /\ freshBucket[b] \subseteq freshBucket'[b] \cup {"controllerWorker"}
  BY Zenon, TypeParts DEF WriteClaim, unchangedByClaimWrite, cacheVars, bucketWorkerVars, Forget
<1>5. Copies'
  <2>1. \A k \in ClaimName : claims'[k] # None => claims'[k] \in ClaimObject
                                                  /\ ClaimCopy(k, claims'[k])
    BY ZenonT(120), <1>0, <1>3, TypeParts DEF Copies, Persisted
  <2>2. \A k \in ClaimName : claims'[k] # None => ClaimCopy(k, claims[k])'
    BY Zenon, <1>1, <1>2, <2>1, CopiesStable
  <2>3. \A k \in ClaimName : claimCache'[k] # None => ClaimCopy(k, claimCache[k])'
    BY Zenon, <1>1, <1>2, <1>4, CopiesStable, TypeParts DEF Copies
  <2>4. \A b \in BucketName :
         /\ buckets'[b] # None => BucketCopy(b, buckets[b])'
         /\ bucketCache'[b] # None => BucketCopy(b, bucketCache[b])'
         /\ sidecarCache'[b] # None => BucketCopy(b, sidecarCache[b])'
    BY Zenon, <1>1, <1>2, <1>4, CopiesStable, TypeParts DEF Copies
  <2> QED BY Zenon, <2>2, <2>3, <2>4 DEF Copies
<1>6. ClaimWorkerOK(cw)'
  BY Zenon, <1>1, <1>2, <1>4, WorkersStable
<1>7. BucketWorkerOK(sw)'
  BY Zenon, <1>1, <1>2, <1>4, WorkersStable, TypeParts
<1>8. CacheCoherence'
  <2>1. \A k \in ClaimName :
          "controllerCache" \in freshClaim'[k] => claimCache'[k] = claims'[k]
    BY SMTT(60), <1>0, <1>3, <1>4, TypeParts DEF CacheCoherence
  <2>2. \A b \in BucketName :
         /\ "controllerCache" \in freshBucket'[b] => bucketCache'[b] = buckets'[b]
         /\ "sidecarCache" \in freshBucket'[b] => sidecarCache'[b] = buckets'[b]
    BY Zenon, <1>4 DEF CacheCoherence
  <2> QED BY Zenon, <2>1, <2>2 DEF CacheCoherence
<1>9. ClaimCoherence'
  <2>1. CASE w = ClaimIdle
    BY Zenon, <1>4, <2>1 DEF ClaimCoherence, ClaimIdle
  <2>2. CASE w # ClaimIdle
    <3>1. w.name = c /\ w.pc # "idle"
      BY Zenon, <2>2
    <3>2. SUFFICES ASSUME "controllerWorker" \in freshClaim'[c]
                   PROVE  /\ claims'[c] # None
                          /\ SameClaim(w.claim, claims'[c])
                          /\ w.pc # "report" => w.claim = claims'[c]
      BY Zenon, <1>4, <3>1 DEF ClaimCoherence, SameClaim, SetClaimStatus
    <3>3. token /\ claims[c] # None
      BY Zenon, <1>0, <1>3, <3>2 DEF ClaimCoherence
    <3>4. new # None => new = obj
      BY Zenon DEF Persisted
    <3>5. CASE claims' = claims /\ (o = "ok" => claims[c] = new)
      BY Zenon, <2>2, <3>3, <3>4, <3>5
    <3>6. CASE o = "ok" /\ new # None /\ claims' = [claims EXCEPT ![c] = new]
      BY Zenon, <1>0, <2>2, <3>3, <3>4, <3>6, TypeParts
    <3> QED BY Zenon, <1>0, <1>3, <3>2, <3>5, <3>6
  <2> QED BY Zenon, <2>1, <2>2
<1>10. BoundCoherence'
  BY Zenon, <1>4 DEF BoundCoherence
<1>11. BucketCoherence'
  BY Zenon, <1>4, <1>7 DEF BucketCoherence, BucketWorkerOK, SameBucket, SetBucketStatus
<1>12. ClaimsAttended'
  <2>1. token => claims[c] # None
    BY Zenon DEF ClaimCoherence
  <2>3. \A k \in ClaimName : k \in claimEvents' => "controllerCache" \notin freshClaim'[k]
    BY SMTT(60), <1>0, <1>3, TypeParts DEF ClaimsAttended
  <2>4. \A k \in ClaimName : claims'[k] # None /\ claimCache'[k] = None => k \in claimEvents'
    BY SMTT(60), <1>0, <1>3, <1>4, <2>1, TypeParts DEF ClaimsAttended
  <2>5. \A k \in ClaimName : k # c => claims'[k] = claims[k] /\ (cw.name = k => FALSE)
    BY Zenon, <1>0, <1>3, TypeParts
  <2>6. claimEvents \subseteq claimEvents' /\ claimQueue \subseteq claimQueue'
    BY Zenon, <1>3
  <2>7. w.name = c \/ c \in claimQueue' \/ claims'[c] = None \/ ClaimSettled(claims'[c])
    <3>1. claims \in [ClaimName -> ClaimObject \cup {None}]
      BY Zenon, TypeParts
    <3> QED BY Zenon, <1>0, <1>3, <3>1
  <2>8. \A k \in ClaimName :
          \/ claims'[k] = None
          \/ k \in claimEvents' \cup claimQueue'
          \/ cw'.name = k
          \/ ClaimSettled(claims'[k])
    BY Zenon, <1>4, <2>5, <2>6, <2>7 DEF ClaimsAttended
  <2> QED BY Zenon, <2>3, <2>4, <2>8 DEF ClaimsAttended, ClaimSettled
<1>13. BucketsAttended'
  BY Zenon, <1>4 DEF BucketsAttended, BucketSettled, driverNameMatches
<1> QED BY Zenon, InvariantParts, <1>1, <1>5, <1>6, <1>7, <1>8, <1>9, <1>10, <1>11, <1>12, <1>13

\* Writing a status over the same claim writes the whole copy.
LEMMA StatusOverSame ==
    /\ \A x, y \in ClaimObject : SameClaim(x, y) => SetClaimStatus(y, x) = x
    /\ \A x, y \in BucketObject : SameBucket(x, y) => SetBucketStatus(y, x) = x
<1>1. ASSUME NEW x \in ClaimObject, NEW y \in ClaimObject, SameClaim(x, y)
      PROVE  SetClaimStatus(y, x) = x
  <2>1. SetClaimStatus(x, y) = y
    BY Zenon, <1>1 DEF SameClaim
  <2>2. /\ x.uid = y.uid /\ x.bucketClassName = y.bucketClassName
        /\ x.existingBucketName = y.existingBucketName /\ x.protocols = y.protocols
        /\ x.finalizer = y.finalizer /\ x.deleting = y.deleting
    BY Zenon, <2>1 DEF SetClaimStatus, ClaimObject
  <2> QED BY Zenon, <2>2 DEF SetClaimStatus, ClaimObject
<1>2. ASSUME NEW x \in BucketObject, NEW y \in BucketObject, SameBucket(x, y)
      PROVE  SetBucketStatus(y, x) = x
  <2>1. SetBucketStatus(x, y) = y
    BY Zenon, <1>2 DEF SameBucket
  <2>2. /\ x.driverName = y.driverName /\ x.deletionPolicy = y.deletionPolicy
        /\ x.existingBucketID = y.existingBucketID /\ x.protocols = y.protocols
        /\ x.refName = y.refName /\ x.refUid = y.refUid /\ x.finalizer = y.finalizer
        /\ x.deleting = y.deleting /\ x.claimDeleting = y.claimDeleting
    BY Zenon, <2>1 DEF SetBucketStatus, BucketObject
  <2> QED BY Zenon, <2>2 DEF SetBucketStatus, BucketObject
<1> QED BY Zenon, <1>1, <1>2

\* A status write: `local` is the worker's copy with a new status.
LEMMA StatusWriteStep ==
    ASSUME IInv, cw.pc \notin {"idle", "report"},
           NEW local \in ClaimObject, SameClaim(local, cw.claim),
           ClaimCopy(cw.name, local),
           NEW next \in ClaimWorker, WriteClaimStatus(local, next),
           unchangedByClaimWrite, claimQueue' = claimQueue,
           next = ClaimIdle \/ (next.pc # "idle" /\ next.name = cw.name /\ next.claim = local),
           ClaimWorkerOK(next),
           next.pc \notin {"bindBucket", "annotate"},
           next = ClaimIdle => ClaimSettled(local)
    PROVE  IInv'
<1> /\ TypeOK /\ Copies /\ ClaimWorkerOK(cw) /\ BucketWorkerOK(sw)
    /\ CacheCoherence /\ ClaimCoherence /\ BoundCoherence /\ BucketCoherence
    /\ ClaimsAttended /\ BucketsAttended
  BY Zenon, InvariantParts
<1>0. /\ cw.name \in ClaimName /\ cw.claim \in ClaimObject
      /\ ClaimCopy(cw.name, cw.claim) /\ cw \in ClaimWorker
  BY Zenon, TypeParts DEF ClaimWorkerOK
<1> DEFINE fw == FailClaim([cw EXCEPT !.claim = local], "retry")
           obj == SetClaimStatus(claims[cw.name], local)
<1>1. /\ fw \in ClaimWorker /\ fw.pc = "report" /\ fw.name = cw.name
      /\ fw.claim = local /\ ClaimWorkerOK(fw)
  <2>1. /\ fw \in ClaimWorker /\ fw.pc = "report" /\ fw.name = cw.name
        /\ fw.claim = local /\ fw.bucket = None /\ fw.error = "retry"
    BY Zenon, <1>0 DEF FailClaim, ClaimWorker, ClaimPc, Error
  <2>2. ClaimAt(fw)
    BY Zenon, <2>1 DEF ClaimAt, TerminalError
  <2> QED BY Zenon, <1>0, <2>1, <2>2 DEF ClaimWorkerOK
<1>2. ASSUME "controllerWorker" \in freshClaim[cw.name]
      PROVE  obj = local /\ SameClaim(local, claims[cw.name])
  <2>1. claims[cw.name] = cw.claim
    BY Zenon, <1>2 DEF ClaimCoherence
  <2> QED BY Zenon, <1>0, <2>1, StatusOverSame
<1>3. \A x \in ClaimObject : SameClaim(x, x)
  BY Zenon DEF SameClaim, SetClaimStatus, ClaimObject
<1>4. ClaimSettled(local) => Persisted(local) = local
  BY Zenon DEF ClaimSettled, Persisted
<1>5. PICK o \in Outcome :
        WriteClaim(o, obj, FALSE, IF o = "ok" THEN next ELSE fw)
  BY Zenon DEF WriteClaimStatus
<1>6. o = "ok" => "controllerWorker" \in freshClaim[cw.name]
  BY Zenon, <1>5 DEF WriteClaim, Ends
<1> DEFINE w == IF o = "ok" THEN next ELSE fw
<1>7. /\ WriteClaim(o, obj, FALSE, w) /\ w \in ClaimWorker
      /\ w = ClaimIdle \/ (w.pc # "idle" /\ w.name = cw.name)
      /\ ClaimWorkerOK(w) /\ w.pc \notin {"bindBucket", "annotate"}
  BY Zenon, <1>1, <1>5
<1>8. "controllerWorker" \in freshClaim[cw.name] =>
         obj \in ClaimObject /\ ClaimCopy(cw.name, obj)
  BY Zenon, <1>2
<1>9. "controllerWorker" \in freshClaim[cw.name] /\ w # ClaimIdle =>
             IF o = "ok" THEN SameClaim(w.claim, obj) /\ (w.pc # "report" => w.claim = obj)
                         ELSE w.pc = "report" /\ SameClaim(w.claim, claims[cw.name])
  BY Zenon, <1>1, <1>2, <1>3
<1>10. w = ClaimIdle =>
         o = "ok" /\ (Persisted(obj) = None \/ ClaimSettled(Persisted(obj)))
  BY SMTT(60), <1>1, <1>2, <1>4, <1>6 DEF ClaimIdle
<1> HIDE DEF w, obj, fw, IInv
<1> QED BY Zenon, InvariantParts, <1>7, <1>8, <1>9, <1>10, ClaimWriteStep

\* The same claim with another status has the same Bucket name and origin.
LEMMA NewStatus ==
    ASSUME NEW claim \in ClaimObject, NEW local \in ClaimObject, NEW c \in ClaimName,
           SameClaim(local, claim), ClaimCopy(c, claim)
    PROVE  /\ determineBucketName(local) = determineBucketName(claim)
           /\ isStaticProvisioning(local) = isStaticProvisioning(claim)
           /\ local.uid = claim.uid /\ local.protocols = claim.protocols
           /\ local.deleting = claim.deleting /\ local.finalizer = claim.finalizer
           /\ issued[local.uid] =
                [name |-> c, bucketClassName |-> local.bucketClassName,
                 existingBucketName |-> local.existingBucketName,
                 protocols |-> local.protocols]
<1>0. SetClaimStatus(local, claim) = claim
  BY Zenon DEF SameClaim
<1>1. /\ local.uid = claim.uid /\ local.bucketClassName = claim.bucketClassName
      /\ local.existingBucketName = claim.existingBucketName
      /\ local.protocols = claim.protocols
      /\ local.deleting = claim.deleting /\ local.finalizer = claim.finalizer
  BY Zenon, <1>0 DEF ClaimObject, SetClaimStatus
<1>3. determineBucketName(local) = determineBucketName(claim)
      /\ isStaticProvisioning(local) = isStaticProvisioning(claim)
  BY Zenon, <1>1 DEF determineBucketName, isStaticProvisioning
<1> QED BY Zenon, <1>1, <1>3 DEF ClaimCopy

\* What a worker on its way keeps, and what it must know to be at pc.
LEMMA MoveOK ==
    ASSUME NEW w \in ClaimWorker, NEW pc \in ClaimPc
    PROVE  LET v == [w EXCEPT !.pc = pc]
           IN  /\ v \in ClaimWorker
               /\ v.pc = pc /\ v.name = w.name /\ v.claim = w.claim
               /\ v.bucket = w.bucket /\ v.error = w.error
BY Zenon DEF ClaimWorker

\* A worker that failed keeps its claim and its copies, and forgets its Bucket.
LEMMA FailFields ==
    ASSUME NEW w \in ClaimWorker, NEW e \in Error
    PROVE  LET v == FailClaim(w, e)
           IN  /\ v \in ClaimWorker
               /\ v.pc = "report" /\ v.name = w.name /\ v.claim = w.claim
               /\ v.bucket = None /\ v.error = e
BY Zenon DEF ClaimWorker, ClaimPc, FailClaim

\* The worker w holds copies of its claim and of its Bucket.
HasCopies(w) ==
    /\ w \in ClaimWorker
    /\ w.name \in ClaimName
    /\ w.claim \in ClaimObject
    /\ ClaimCopy(w.name, w.claim)
    /\ w.bucket # None => BucketCopy(determineBucketName(w.claim), w.bucket)

\* v goes on with w's claim, and knows what it must.
GoesOn(v, w) ==
    /\ v \in ClaimWorker
    /\ v.pc # "idle"
    /\ v.name = w.name
    /\ v.claim = w.claim
    /\ ClaimWorkerOK(v)

\* Going on to report an error is a move the invariant allows.
LEMMA FailGoesOn ==
    ASSUME NEW w, HasCopies(w), NEW e \in Error,
           e \in TerminalError => ~w.claim.deleting /\ w.claim.finalizer
    PROVE  GoesOn(FailClaim(w, e), w) /\ FailClaim(w, e).pc = "report"
<1> DEFINE v == FailClaim(w, e)
<1>1. /\ v \in ClaimWorker
      /\ v.pc = "report" /\ v.name = w.name /\ v.claim = w.claim
      /\ v.bucket = None /\ v.error = e
  BY Zenon, FailFields DEF HasCopies
<1> HIDE DEF v
<1>2. ClaimAt(v)
  BY Zenon, <1>1 DEF ClaimAt
<1>3. GoesOn(v, w)
  BY Zenon, <1>1, <1>2 DEF GoesOn, ClaimWorkerOK, HasCopies
<1> QED BY Zenon, <1>1, <1>3 DEF v

\* So is going on to another call with the same copies.
LEMMA MoveGoesOn ==
    ASSUME NEW w, HasCopies(w), NEW pc \in ClaimPc \ {"idle"},
           ClaimAt([w EXCEPT !.pc = pc])
    PROVE  GoesOn([w EXCEPT !.pc = pc], w) /\ [w EXCEPT !.pc = pc].pc = pc
<1> DEFINE v == [w EXCEPT !.pc = pc]
<1>1. /\ v \in ClaimWorker
      /\ v.pc = pc /\ v.name = w.name /\ v.claim = w.claim
      /\ v.bucket = w.bucket /\ v.error = w.error
  BY Zenon, MoveOK DEF HasCopies
<1>2. ClaimAt(v)
  BY Zenon
<1> HIDE DEF v
<1>3. GoesOn(v, w)
  BY Zenon, <1>1, <1>2 DEF GoesOn, ClaimWorkerOK, HasCopies
<1> QED BY Zenon, <1>1, <1>3 DEF v

\* From the check of the Bucket's status on.
LEMMA CheckProvisionedOK ==
    ASSUME NEW w, HasCopies(w), w.bucket \in BucketObject,
           ~w.claim.deleting, w.claim.finalizer, w.claim.boundBucketName # None,
           w.bucket.refUid = w.claim.uid, w.bucket.refName = w.name
    PROVE  /\ GoesOn(checkProvisioned(w), w)
           /\ checkProvisioned(w).pc \in {"report", "setReady"}
<1>1. ASSUME w.bucket.bucketID PROVE ClaimAt([w EXCEPT !.pc = "setReady"])
  <2> DEFINE v == [w EXCEPT !.pc = "setReady"]
  <2>1. v.pc = "setReady" /\ v.name = w.name /\ v.claim = w.claim /\ v.bucket = w.bucket
    BY Zenon, MoveOK DEF HasCopies, ClaimPc
  <2> HIDE DEF v
  <2>2. ClaimAt(v)
    BY Zenon, <1>1, <2>1 DEF ClaimAt
  <2> QED BY Zenon, <2>2 DEF v
<1>2. "setReady" \in ClaimPc \ {"idle"} /\ {"retry", "terminal"} \subseteq Error
  BY Zenon DEF ClaimPc, Error, TerminalError
<1>3. CASE ~w.bucket.bucketID
  BY Zenon, <1>2, <1>3, FailGoesOn DEF checkProvisioned
<1>4. CASE w.bucket.bucketID /\ w.bucket.readyToUse = "true" /\ w.bucket.statusProtocols = {}
  BY Zenon, <1>2, <1>4, FailGoesOn DEF checkProvisioned
<1>5. CASE w.bucket.bucketID /\ ~(w.bucket.readyToUse = "true" /\ w.bucket.statusProtocols = {})
  BY Zenon, <1>1, <1>2, <1>5, MoveGoesOn DEF checkProvisioned
<1> QED BY Zenon, <1>3, <1>4, <1>5

\* ClaimBind: the Bucket that was checked is bound to this claim, and so is
\* every later version of it.
LEMMA ClaimBindStep ==
    ASSUME IInv, ClaimBind
    PROVE  IInv'
<1> DEFINE b == determineBucketName(cw.claim)
           local == [cw.claim EXCEPT !.readyToUse = NotNil(@), !.boundBucketName = b]
           w == [cw EXCEPT !.claim = local]
<1>0. /\ cw.pc = "bindClaim" /\ cw.name \in ClaimName /\ cw.claim \in ClaimObject
      /\ ClaimCopy(cw.name, cw.claim) /\ cw \in ClaimWorker
      /\ cw.bucket \in BucketObject /\ BucketCopy(b, cw.bucket)
      /\ cw.bucket.refUid = cw.claim.uid /\ cw.bucket.refName = cw.name
      /\ ~cw.claim.deleting /\ cw.claim.finalizer
  BY ZenonT(120), ResourceAssumption, InvariantParts, TypeParts DEF ClaimBind, ClaimWorkerOK,
     ClaimAt
<1>1. b \in BucketName /\ cw.claim.uid \in Uid
  BY Zenon, <1>0, NameType DEF ClaimObject
<1>2. local \in ClaimObject
  BY Zenon, <1>0, <1>1 DEF ClaimObject, NotNil, ReadyToUse
<1>3. /\ SameClaim(local, cw.claim)
      /\ local.readyToUse = NotNil(cw.claim.readyToUse) /\ local.boundBucketName = b
      /\ local.statusProtocols = cw.claim.statusProtocols
  BY Zenon, <1>0 DEF ClaimObject, SameClaim, SetClaimStatus
<1>4. /\ determineBucketName(local) = b
      /\ isStaticProvisioning(local) = isStaticProvisioning(cw.claim)
      /\ local.uid = cw.claim.uid /\ local.protocols = cw.claim.protocols
      /\ local.deleting = cw.claim.deleting /\ local.finalizer = cw.claim.finalizer
      /\ issued[local.uid] =
                [name |-> cw.name, bucketClassName |-> local.bucketClassName,
                 existingBucketName |-> local.existingBucketName,
                 protocols |-> local.protocols]
  <2> HIDE DEF local
  <2> QED BY ZenonT(120), <1>0, <1>2, <1>3, NewStatus
<1>5. ClaimCopy(cw.name, local)
  <2>1. created[b] >= 1 /\ (buckets[b] # None => /\ buckets[b].refName = cw.name
                                                /\ buckets[b].refUid = cw.claim.uid)
    BY Zenon, <1>0, <1>1, DynamicNames DEF BucketCopy
  <2>2. local.readyToUse = "true" => cw.claim.readyToUse = "true"
    BY SMTT(60), <1>3 DEF NotNil
  <2>3. local.readyToUse = "true" =>
          /\ cw.claim.boundBucketName = b
          /\ local.statusProtocols # {}
          /\ backend[b] = local.statusProtocols
          /\ ~isStaticProvisioning(local) => local.protocols \subseteq local.statusProtocols
    BY Zenon, <1>0, <1>3, <1>4, <2>2 DEF ClaimCopy
  <2> HIDE DEF local, b
  <2> QED BY Zenon, <1>1, <1>3, <1>4, <2>1, <2>3, ResourceAssumption DEF ClaimCopy
<1>6. GoesOn(checkProvisioned(w), w) /\ checkProvisioned(w).pc \in {"report", "setReady"}
      /\ w.name = cw.name /\ w.claim = local
  <2>1. w \in ClaimWorker /\ w.claim = local /\ w.bucket = cw.bucket /\ w.name = cw.name
    BY Zenon, <1>0, <1>2 DEF ClaimWorker
  <2> HIDE DEF w, local
  <2>2. HasCopies(w)
    BY Zenon, <1>0, <1>2, <1>4, <1>5, <2>1 DEF HasCopies
  <2> QED BY ZenonT(120), <1>0, <1>1, <1>3, <1>4, <2>1, <2>2, ResourceAssumption, CheckProvisionedOK
<1>7. /\ WriteClaimStatus(local, checkProvisioned(w))
      /\ unchangedByClaimWrite /\ claimQueue' = claimQueue
  BY Zenon DEF ClaimBind
<1> HIDE DEF local, w, b
<1> QED BY SMTT(60), <1>0, <1>2, <1>3, <1>5, <1>6, <1>7, StatusWriteStep DEF ClaimIdle, GoesOn

\* A worker at rest holds nothing.
LEMMA IdleOK ==
    /\ ClaimIdle \in ClaimWorker /\ ClaimIdle.pc = "idle" /\ ClaimIdle.name = None
    /\ ClaimWorkerOK(ClaimIdle)
    /\ BucketIdle \in BucketWorker /\ BucketIdle.pc = "idle" /\ BucketIdle.name = None
    /\ BucketWorkerOK(BucketIdle)
<1>1. ClaimIdle \in ClaimWorker /\ ClaimIdle.pc = "idle" /\ ClaimIdle.name = None
  BY Zenon DEF ClaimIdle, ClaimWorker, ClaimPc, Error
<1>2. BucketIdle \in BucketWorker /\ BucketIdle.pc = "idle" /\ BucketIdle.name = None
  BY Zenon DEF BucketIdle, BucketWorker, BucketPc, Error
<1>3. ClaimWorkerOK(ClaimIdle)
  BY Zenon, <1>1 DEF ClaimWorkerOK, ClaimAt
<1>4. BucketWorkerOK(BucketIdle)
  BY Zenon, <1>2 DEF BucketWorkerOK, BucketAt
<1> QED BY Zenon, <1>1, <1>2, <1>3, <1>4

\* ClaimSetReady: the Bucket's status was right when it was copied, and a status
\* that says "provisioned" stays right.
LEMMA ClaimSetReadyStep ==
    ASSUME IInv, ClaimSetReady
    PROVE  IInv'
<1> DEFINE b == determineBucketName(cw.claim)
           local == [cw.claim EXCEPT !.readyToUse = cw.bucket.readyToUse,
                            !.statusProtocols = cw.bucket.statusProtocols,
                            !.error = "none"]
<1>0. /\ cw.pc = "setReady" /\ cw.name \in ClaimName /\ cw.claim \in ClaimObject
      /\ ClaimCopy(cw.name, cw.claim)
      /\ cw.bucket \in BucketObject /\ BucketCopy(b, cw.bucket)
      /\ cw.bucket.bucketID /\ cw.claim.boundBucketName # None
      /\ ~cw.claim.deleting /\ cw.claim.finalizer
  BY ZenonT(120), ResourceAssumption, InvariantParts, TypeParts DEF ClaimSetReady, ClaimWorkerOK,
     ClaimAt
<1>1. /\ cw.claim.boundBucketName = b /\ cw.claim.uid \in Uid
      /\ cw.bucket.readyToUse = "true" /\ cw.bucket.statusProtocols # {}
      /\ backend[b] = cw.bucket.statusProtocols
      /\ cw.bucket.protocols \subseteq cw.bucket.statusProtocols
  BY Zenon, <1>0 DEF BucketCopy, ClaimCopy, ClaimObject
<1>2. local \in ClaimObject
  BY Zenon, <1>0 DEF ClaimObject, BucketObject, Error
<1>3. /\ SameClaim(local, cw.claim)
      /\ local.readyToUse = cw.bucket.readyToUse
      /\ local.boundBucketName = cw.claim.boundBucketName
      /\ local.statusProtocols = cw.bucket.statusProtocols
  BY Zenon, <1>0 DEF ClaimObject, SameClaim, SetClaimStatus
<1>4. /\ determineBucketName(local) = b
      /\ isStaticProvisioning(local) = isStaticProvisioning(cw.claim)
      /\ local.uid = cw.claim.uid /\ local.protocols = cw.claim.protocols
      /\ local.deleting = cw.claim.deleting /\ local.finalizer = cw.claim.finalizer
      /\ issued[local.uid] =
                [name |-> cw.name, bucketClassName |-> local.bucketClassName,
                 existingBucketName |-> local.existingBucketName,
                 protocols |-> local.protocols]
  <2> HIDE DEF local
  <2> QED BY Zenon, <1>0, <1>2, <1>3, NewStatus
<1>5. ~isStaticProvisioning(cw.claim) => cw.bucket.protocols = cw.claim.protocols
  BY SMTT(60), <1>0, <1>1 DEF BucketCopy, ClaimCopy, determineBucketName
<1>6. ClaimCopy(cw.name, local)
  <2>1. created[b] >= 1 /\ (buckets[b] # None => /\ buckets[b].refName = cw.name
                                                /\ buckets[b].refUid = cw.claim.uid)
    BY Zenon, <1>0 DEF ClaimCopy
  <2> HIDE DEF local, b
  <2> QED BY ZenonT(40), <1>0, <1>1, <1>3, <1>4, <1>5, <2>1 DEF ClaimCopy
<1>7. ClaimSettled(local)
  <2> HIDE DEF local
  <2> QED BY Zenon, <1>0, <1>1, <1>3, <1>4 DEF ClaimSettled
<1>8. WriteClaimStatus(local, ClaimIdle) /\ unchangedByClaimWrite /\ claimQueue' = claimQueue
  BY Zenon DEF ClaimSetReady
<1>9. ClaimIdle \in ClaimWorker /\ ClaimWorkerOK(ClaimIdle) /\ ClaimIdle.pc = "idle"
  BY Zenon, IdleOK
<1> HIDE DEF local, b
<1> QED BY Zenon, <1>0, <1>2, <1>3, <1>6, <1>7, <1>8, <1>9, StatusWriteStep

\* ClaimClearStatus: readyToUse becomes false, which claims nothing.
LEMMA ClaimClearStatusStep ==
    ASSUME IInv, ClaimClearStatus
    PROVE  IInv'
<1> DEFINE b == determineBucketName(cw.claim)
           local == [cw.claim EXCEPT !.readyToUse = "false", !.error = "none"]
           w == [cw EXCEPT !.pc = "getBucketToDelete", !.claim = local]
<1>0. /\ cw.pc = "clearStatus" /\ cw.name \in ClaimName /\ cw.claim \in ClaimObject
      /\ ClaimCopy(cw.name, cw.claim) /\ cw \in ClaimWorker
      /\ cw.bucket # None => BucketCopy(b, cw.bucket)
      /\ cw.claim.deleting
  BY Zenon, InvariantParts, TypeParts DEF ClaimClearStatus, ClaimWorkerOK, ClaimAt
<1>2. local \in ClaimObject
  BY Zenon, <1>0 DEF ClaimObject, ReadyToUse, Error
<1>3. /\ SameClaim(local, cw.claim)
      /\ local.readyToUse = "false" /\ local.boundBucketName = cw.claim.boundBucketName
  BY Zenon, <1>0 DEF ClaimObject, SameClaim, SetClaimStatus
<1>4. /\ determineBucketName(local) = b
      /\ local.uid = cw.claim.uid /\ local.deleting = cw.claim.deleting
      /\ issued[local.uid] =
                [name |-> cw.name, bucketClassName |-> local.bucketClassName,
                 existingBucketName |-> local.existingBucketName,
                 protocols |-> local.protocols]
  <2> HIDE DEF local
  <2> QED BY Zenon, <1>0, <1>2, <1>3, NewStatus
<1>5. ClaimCopy(cw.name, local)
  <2> HIDE DEF local
  <2> QED BY Zenon, <1>0, <1>3, <1>4 DEF ClaimCopy
<1>6. /\ w \in ClaimWorker /\ w.claim = local /\ w.bucket = cw.bucket /\ w.name = cw.name
      /\ w.pc = "getBucketToDelete"
  BY Zenon, <1>0, <1>2 DEF ClaimWorker, ClaimPc
<1>7. ClaimWorkerOK(w)
  <2> HIDE DEF local, w
  <2>1. ClaimAt(w)
    BY Zenon, <1>0, <1>4, <1>6 DEF ClaimAt
  <2> QED BY Zenon, <1>0, <1>2, <1>4, <1>5, <1>6, <2>1 DEF ClaimWorkerOK
<1>8. WriteClaimStatus(local, w) /\ unchangedByClaimWrite /\ claimQueue' = claimQueue
  BY Zenon DEF ClaimClearStatus
<1> HIDE DEF local, b, w
<1> QED BY SMTT(60), <1>0, <1>2, <1>3, <1>5, <1>6, <1>7, <1>8, StatusWriteStep DEF ClaimIdle

\* ClaimAddFinalizer writes the worker's copy with the finalizer on.
LEMMA ClaimAddFinalizerStep ==
    ASSUME IInv, ClaimAddFinalizer
    PROVE  IInv'
<1> DEFINE obj == [cw.claim EXCEPT !.finalizer = TRUE]
           ww == [cw EXCEPT !.pc = "getBucket", !.claim = obj]
           fw == FailClaim(cw, "retry")
<1>0. /\ cw.pc = "addFinalizer" /\ HasCopies(cw) /\ ~cw.claim.deleting
      /\ cw.name \in ClaimName /\ cw.claim \in ClaimObject /\ cw \in ClaimWorker
      /\ ClaimCopy(cw.name, cw.claim)
      /\ cw.bucket # None => BucketCopy(determineBucketName(cw.claim), cw.bucket)
  BY Zenon, InvariantParts, TypeParts DEF ClaimAddFinalizer, ClaimWorkerOK, ClaimAt, HasCopies
<1>1. /\ obj \in ClaimObject /\ obj.finalizer /\ ~obj.deleting
      /\ obj.uid = cw.claim.uid /\ obj.bucketClassName = cw.claim.bucketClassName
      /\ obj.existingBucketName = cw.claim.existingBucketName
      /\ obj.protocols = cw.claim.protocols /\ obj.readyToUse = cw.claim.readyToUse
      /\ obj.boundBucketName = cw.claim.boundBucketName
      /\ obj.statusProtocols = cw.claim.statusProtocols
  BY Zenon, <1>0 DEF ClaimObject
<1>2. /\ determineBucketName(obj) = determineBucketName(cw.claim)
      /\ isStaticProvisioning(obj) = isStaticProvisioning(cw.claim)
  BY SMTT(60), <1>1 DEF determineBucketName, isStaticProvisioning
<1>3. ClaimCopy(cw.name, obj)
  <2> HIDE DEF obj
  <2> QED BY Zenon, <1>0, <1>1, <1>2 DEF ClaimCopy
<1>4. /\ ww \in ClaimWorker /\ ww.pc = "getBucket" /\ ww.name = cw.name
      /\ ww.claim = obj /\ ww.bucket = cw.bucket
  BY Zenon, <1>0, <1>1 DEF ClaimWorker, ClaimPc
<1>5. ClaimWorkerOK(ww)
  <2> HIDE DEF obj, ww
  <2>1. ClaimAt(ww)
    BY Zenon, <1>1, <1>4 DEF ClaimAt
  <2> QED BY Zenon, <1>0, <1>1, <1>2, <1>3, <1>4, <2>1 DEF ClaimWorkerOK
<1>6. GoesOn(fw, cw) /\ fw.pc = "report"
  BY Zenon, <1>0, FailGoesOn DEF Error, TerminalError
<1>7. PICK o \in Outcome : WriteClaim(o, obj, FALSE, IF o = "ok" THEN ww ELSE fw)
  BY Zenon DEF ClaimAddFinalizer
<1> DEFINE w == IF o = "ok" THEN ww ELSE fw
<1>8. WriteClaim(o, obj, FALSE, w) /\ unchangedByClaimWrite /\ claimQueue' = claimQueue
  BY Zenon, <1>7 DEF ClaimAddFinalizer
<1>9. "controllerWorker" \in freshClaim[cw.name] => SameClaim(cw.claim, claims[cw.name])
  BY Zenon, <1>0, InvariantParts DEF ClaimCoherence
<1>10. SameClaim(obj, obj)
  BY Zenon, <1>1 DEF SameClaim, SetClaimStatus, ClaimObject
<1>11. /\ w \in ClaimWorker /\ w.pc \in {"getBucket", "report"} /\ w.name = cw.name
       /\ ClaimWorkerOK(w)
       /\ IF o = "ok" THEN w.claim = obj ELSE w.pc = "report" /\ w.claim = cw.claim
  <2> HIDE DEF ww, fw
  <2> QED BY Zenon, <1>4, <1>5, <1>6 DEF GoesOn
<1>12. w # ClaimIdle
  <2> HIDE DEF w
  <2> QED BY SMTT(60), <1>11 DEF ClaimIdle
<1> HIDE DEF obj, w
<1> QED BY Zenon, <1>0, <1>1, <1>3, <1>8, <1>9, <1>10, <1>11, <1>12, ClaimWriteStep

\* ClaimRemoveFinalizer: the claim is being deleted, so it is gone.
LEMMA ClaimRemoveFinalizerStep ==
    ASSUME IInv, ClaimRemoveFinalizer
    PROVE  IInv'
<1> DEFINE obj == [cw.claim EXCEPT !.finalizer = FALSE]
           fw == FailClaim(cw, "retry")
<1>0. /\ cw.pc = "removeFinalizer" /\ HasCopies(cw) /\ cw.claim.deleting
      /\ cw.name \in ClaimName /\ cw.claim \in ClaimObject /\ cw \in ClaimWorker
      /\ ClaimCopy(cw.name, cw.claim)
  BY Zenon, InvariantParts, TypeParts DEF ClaimRemoveFinalizer, ClaimWorkerOK, ClaimAt,
     HasCopies
<1>1. /\ obj \in ClaimObject /\ Persisted(obj) = None
      /\ obj.uid = cw.claim.uid /\ obj.bucketClassName = cw.claim.bucketClassName
      /\ obj.existingBucketName = cw.claim.existingBucketName
      /\ obj.protocols = cw.claim.protocols /\ obj.readyToUse = cw.claim.readyToUse
      /\ obj.boundBucketName = cw.claim.boundBucketName
      /\ obj.statusProtocols = cw.claim.statusProtocols
  BY Zenon, <1>0 DEF ClaimObject, Persisted
<1>2. /\ determineBucketName(obj) = determineBucketName(cw.claim)
      /\ isStaticProvisioning(obj) = isStaticProvisioning(cw.claim)
  BY SMTT(60), <1>1 DEF determineBucketName, isStaticProvisioning
<1>3. ClaimCopy(cw.name, obj)
  <2> HIDE DEF obj
  <2> QED BY Zenon, <1>0, <1>1, <1>2 DEF ClaimCopy
<1>6. GoesOn(fw, cw) /\ fw.pc = "report"
  BY Zenon, <1>0, FailGoesOn DEF Error, TerminalError
<1>7. PICK o \in Outcome : WriteClaim(o, obj, FALSE, IF o = "ok" THEN ClaimIdle ELSE fw)
  BY Zenon DEF ClaimRemoveFinalizer
<1> DEFINE w == IF o = "ok" THEN ClaimIdle ELSE fw
<1>8. WriteClaim(o, obj, FALSE, w) /\ unchangedByClaimWrite /\ claimQueue' = claimQueue
  BY Zenon, <1>7 DEF ClaimRemoveFinalizer
<1>9. "controllerWorker" \in freshClaim[cw.name] => SameClaim(cw.claim, claims[cw.name])
  BY Zenon, <1>0, InvariantParts DEF ClaimCoherence
<1>10. /\ w \in ClaimWorker /\ w.pc \in {"idle", "report"} /\ ClaimWorkerOK(w)
       /\ IF o = "ok" THEN w = ClaimIdle
          ELSE w.pc = "report" /\ w.name = cw.name /\ w.claim = cw.claim
  <2> HIDE DEF fw
  <2> QED BY Zenon, <1>6, IdleOK DEF GoesOn
<1>11. w = ClaimIdle => o = "ok"
  <2> HIDE DEF w
  <2> QED BY SMTT(60), <1>10 DEF ClaimIdle
<1> HIDE DEF obj, w
<1> QED BY Zenon, <1>0, <1>1, <1>3, <1>8, <1>9, <1>10, <1>11, ClaimWriteStep

\* ClaimReport: what is recorded is not queued again only if it is terminal, and
\* then the claim is protected and not being deleted.
LEMMA ClaimReportStep ==
    ASSUME IInv, ClaimReport
    PROVE  IInv'
<1> DEFINE local == [cw.claim EXCEPT !.readyToUse = NotNil(@), !.error = cw.error]
           obj == SetClaimStatus(claims[cw.name], local)
<1>0. /\ cw.pc = "report" /\ cw.name \in ClaimName /\ cw.claim \in ClaimObject
      /\ ClaimCopy(cw.name, cw.claim) /\ cw \in ClaimWorker
      /\ cw.error \in TerminalError => ~cw.claim.deleting /\ cw.claim.finalizer
  BY Zenon, InvariantParts, TypeParts DEF ClaimReport, ClaimWorkerOK, ClaimAt
<1>1. local \in ClaimObject
  BY Zenon, <1>0 DEF ClaimObject, ClaimWorker, NotNil, ReadyToUse
<1>2. /\ SameClaim(local, cw.claim)
      /\ local.readyToUse = NotNil(cw.claim.readyToUse)
      /\ local.boundBucketName = cw.claim.boundBucketName
      /\ local.statusProtocols = cw.claim.statusProtocols
      /\ local.error = cw.error
  BY Zenon, <1>0 DEF ClaimObject, SameClaim, SetClaimStatus
<1>3. /\ determineBucketName(local) = determineBucketName(cw.claim)
      /\ isStaticProvisioning(local) = isStaticProvisioning(cw.claim)
      /\ local.uid = cw.claim.uid /\ local.protocols = cw.claim.protocols
      /\ local.deleting = cw.claim.deleting /\ local.finalizer = cw.claim.finalizer
      /\ issued[local.uid] =
                [name |-> cw.name, bucketClassName |-> local.bucketClassName,
                 existingBucketName |-> local.existingBucketName,
                 protocols |-> local.protocols]
  <2> HIDE DEF local
  <2> QED BY ZenonT(120), <1>0, <1>1, <1>2, NewStatus
<1>4. ClaimCopy(cw.name, local)
  <2> HIDE DEF local
  <2>1. local.readyToUse = "true" => cw.claim.readyToUse = "true"
    BY Zenon, <1>2 DEF NotNil
  <2> QED BY Zenon, <1>0, <1>2, <1>3, <2>1 DEF ClaimCopy
<1>5. ASSUME "controllerWorker" \in freshClaim[cw.name]
      PROVE  obj = local
  <2>1. SameClaim(cw.claim, claims[cw.name]) /\ claims[cw.name] \in ClaimObject
    BY Zenon, <1>0, <1>5, InvariantParts, TypeParts DEF ClaimCoherence
  <2>2. SameClaim(local, claims[cw.name])
    BY Zenon, <1>0, <1>1, <2>1 DEF SameClaim, SetClaimStatus, ClaimObject
  <2> HIDE DEF local
  <2> QED BY Zenon, <1>1, <2>1, <2>2, StatusOverSame
<1>6. PICK o \in Outcome :
        /\ WriteClaim(o, obj, TRUE, ClaimIdle)
        /\ claimQueue' = IF o = "ok" /\ cw.error \in TerminalError
                         THEN claimQueue ELSE claimQueue \cup {cw.name}
  BY Zenon DEF ClaimReport
<1>7. unchangedByClaimWrite
  BY Zenon DEF ClaimReport
<1>8. o = "ok" => "controllerWorker" \in freshClaim[cw.name]
  BY Zenon, <1>6 DEF WriteClaim, Ends
<1>9. cw.name \notin claimQueue' => o = "ok" /\ ClaimSettled(Persisted(obj))
  <2>1. SUFFICES ASSUME cw.name \notin claimQueue' PROVE o = "ok" /\ ClaimSettled(Persisted(obj))
    BY Zenon
  <2>2. o = "ok" /\ cw.error \in TerminalError
    BY Zenon, <1>6, <2>1
  <2>3. obj = local
    BY Zenon, <1>5, <1>8, <2>2
  <2> HIDE DEF local, obj
  <2> QED BY Zenon, <1>0, <1>2, <1>3, <2>2, <2>3 DEF ClaimSettled, Persisted
<1>10. "controllerWorker" \in freshClaim[cw.name] =>
             obj \in ClaimObject /\ ClaimCopy(cw.name, obj)
  BY Zenon, <1>1, <1>4, <1>5
<1>11. claimQueue' = claimQueue \/ claimQueue' = claimQueue \cup {cw.name}
  BY Zenon, <1>6
<1> HIDE DEF local, obj
<1> QED BY Zenon, <1>0, <1>6, <1>7, <1>9, <1>10, <1>11, IdleOK, ClaimWriteStep
-----------------------------------------------------------------------------
(***************************************************************************)
(* Steps of the claim worker that write nothing: it reads a cache, and the *)
(* pure code takes it to its next call.                                    *)
(***************************************************************************)
\* From the binding check on.
LEMMA CheckBucketBoundOK ==
    ASSUME NEW w, HasCopies(w), w.bucket \in BucketObject,
           ~w.claim.deleting, w.claim.finalizer
    PROVE  /\ GoesOn(checkBucketBound(w), w)
           /\ checkBucketBound(w).pc \in {"report", "setReady", "bindClaim", "bindBucket"}
           /\ checkBucketBound(w).pc = "bindBucket" => checkBucketBound(w).bucket = w.bucket
<1> DEFINE binding == bucketIsBoundToClaim(w.bucket, w.claim, w.name)
<1>0. /\ {"bindClaim", "bindBucket"} \subseteq ClaimPc \ {"idle"}
      /\ "terminal" \in Error
  BY Zenon DEF ClaimPc, Error, TerminalError
<1>1. CASE binding = "bound"
  <2>1. w.bucket.refUid = w.claim.uid /\ w.bucket.refName = w.name
    BY Zenon, <1>1 DEF bucketIsBoundToClaim
  <2>2. checkBucketBound(w) = checkClaimBound(w)
    BY Zenon, <1>1 DEF checkBucketBound
  <2>3. CASE w.claim.boundBucketName # None
    BY Zenon, <2>1, <2>2, <2>3, CheckProvisionedOK DEF checkClaimBound
  <2>4. CASE w.claim.boundBucketName = None
    <3> DEFINE v == [w EXCEPT !.pc = "bindClaim"]
    <3>1. v.pc = "bindClaim" /\ v.name = w.name /\ v.claim = w.claim /\ v.bucket = w.bucket
      BY Zenon, <1>0, MoveOK DEF HasCopies
    <3>2. ClaimAt(v)
      <4> HIDE DEF v
      <4> QED BY Zenon, <2>1, <3>1 DEF ClaimAt
    <3>3. checkBucketBound(w) = v
      BY Zenon, <2>2, <2>4 DEF checkClaimBound
    <3> QED BY SMTT(60), <1>0, <3>1, <3>2, <3>3, MoveGoesOn
  <2> QED BY Zenon, <2>3, <2>4
<1>2. CASE binding = "unbound" /\ isStaticProvisioning(w.claim)
  <2>1. w.bucket.refUid = NoUid /\ w.bucket.refName = w.name
    BY Zenon, <1>2 DEF bucketIsBoundToClaim
  <2> DEFINE v == [w EXCEPT !.pc = "bindBucket"]
  <2>2. v.pc = "bindBucket" /\ v.name = w.name /\ v.claim = w.claim /\ v.bucket = w.bucket
    BY Zenon, <1>0, MoveOK DEF HasCopies
  <2>3. ClaimAt(v)
    <3> HIDE DEF v
    <3> QED BY Zenon, <1>2, <2>1, <2>2 DEF ClaimAt
  <2>4. checkBucketBound(w) = v
    BY Zenon, <1>2 DEF checkBucketBound
  <2> QED BY SMTT(60), <1>0, <2>2, <2>3, <2>4, MoveGoesOn
<1>3. CASE binding # "bound" /\ ~(binding = "unbound" /\ isStaticProvisioning(w.claim))
  <2>1. checkBucketBound(w) = FailClaim(w, "terminal")
    BY Zenon, <1>3 DEF checkBucketBound
  <2> QED BY Zenon, <1>0, <2>1, FailGoesOn
<1> QED BY Zenon, <1>1, <1>2, <1>3

\* When the cache has no Bucket.
LEMMA BucketNotFoundOK ==
    ASSUME NEW w, HasCopies(w), ~w.claim.deleting, w.claim.finalizer, TypeOK
    PROVE  /\ GoesOn(bucketNotFound(w), w)
           /\ bucketNotFound(w).pc \in {"report", "createBucket"}
<1>0. /\ "createBucket" \in ClaimPc \ {"idle"}
      /\ {"retry", "terminal", "bucketGone"} \subseteq Error
  BY Zenon DEF ClaimPc, Error, TerminalError
<1> DEFINE creates == /\ w.claim.boundBucketName = None /\ ~isStaticProvisioning(w.claim)
                      /\ w.claim.bucketClassName # None /\ w.claim.bucketClassName \in classes
<1>1. CASE creates
  <2> DEFINE v == [w EXCEPT !.pc = "createBucket"]
  <2>1. v.pc = "createBucket" /\ v.claim = w.claim
    BY Zenon, <1>0, MoveOK DEF HasCopies
  <2>2. ClaimAt(v)
    <3> HIDE DEF v
    <3> QED BY Zenon, <1>1, <2>1, TypeParts DEF ClaimAt
  <2>3. bucketNotFound(w) = v
    BY Zenon, <1>1 DEF bucketNotFound
  <2> QED BY ZenonT(120), <1>0, <2>2, <2>3, MoveGoesOn
<1>2. CASE ~creates
  <2>1. PICK e \in {"retry", "terminal", "bucketGone"} : bucketNotFound(w) = FailClaim(w, e)
    BY Zenon, <1>2 DEF bucketNotFound
  <2> QED BY Zenon, <1>0, <2>1, FailGoesOn
<1> QED BY Zenon, <1>1, <1>2

\* reconcileDelete: a dynamic claim's Bucket is always bound to it, so the
\* "degraded" error of that case is never reached.
LEMMA DeleteDecisionOK ==
    ASSUME NEW w, HasCopies(w), w.claim.deleting
    PROVE  /\ GoesOn(deleteDecision(w), w)
           /\ deleteDecision(w).pc \in {"report", "removeFinalizer", "annotate"}
           /\ deleteDecision(w).pc = "annotate" => deleteDecision(w).bucket = w.bucket
<1> DEFINE binding == bucketIsBoundToClaim(w.bucket, w.claim, w.name)
           move(pc) == [w EXCEPT !.pc = pc]
<1>0. /\ {"removeFinalizer", "annotate"} \subseteq ClaimPc \ {"idle"}
      /\ "retry" \in Error /\ "retry" \notin TerminalError
  BY Zenon DEF ClaimPc, Error, TerminalError
<1>1. /\ move("removeFinalizer").pc = "removeFinalizer"
      /\ move("removeFinalizer").claim = w.claim
      /\ move("annotate").pc = "annotate" /\ move("annotate").claim = w.claim
      /\ move("annotate").bucket = w.bucket
  BY Zenon, <1>0, MoveOK DEF HasCopies
<1>2. ASSUME w.bucket # None, ~isStaticProvisioning(w.claim) PROVE binding = "bound"
  <2>1. /\ determineBucketName(w.claim) = DynamicName(w.claim.uid)
        /\ w.claim.uid \in Uid /\ w.claim.uid # NoUid
    BY Zenon, <1>2, DynamicNames DEF determineBucketName, HasCopies, ClaimObject
  <2>2. w.bucket.refUid = w.claim.uid /\ w.bucket.refName = w.name
    BY SMTT(60), <1>2, <2>1 DEF HasCopies, BucketCopy, ClaimCopy
  <2> QED BY Zenon, <2>1, <2>2 DEF bucketIsBoundToClaim
<1>3. binding \in {"error", "unbound", "bound"}
  BY Zenon DEF bucketIsBoundToClaim
<1>4. \/ deleteDecision(w) = move("removeFinalizer")
      \/ deleteDecision(w) = FailClaim(w, "retry")
      \/ deleteDecision(w) = move("annotate") /\ w.bucket # None
  BY Zenon, <1>2, <1>3 DEF deleteDecision
<1>5. ClaimAt(move("removeFinalizer"))
  <2> HIDE DEF move
  <2> QED BY Zenon, <1>1 DEF ClaimAt
<1>6. w.bucket # None => ClaimAt(move("annotate"))
  <2>1. w.bucket # None => w.bucket \in BucketObject
    BY Zenon DEF HasCopies, ClaimWorker
  <2> HIDE DEF move
  <2> QED BY Zenon, <1>1, <2>1 DEF ClaimAt
<1>7. CASE deleteDecision(w) = move("removeFinalizer")
  BY SMTT(60), <1>0, <1>1, <1>5, <1>7, MoveGoesOn
<1>8. CASE deleteDecision(w) = FailClaim(w, "retry")
  BY Zenon, <1>0, <1>8, FailGoesOn
<1>9. CASE deleteDecision(w) = move("annotate") /\ w.bucket # None
  BY ZenonT(120), <1>0, <1>1, <1>6, <1>9, MoveGoesOn
<1> QED BY Zenon, <1>4, <1>7, <1>8, <1>9

\* A reconcile begins on a copy of the claim.
LEMMA StartClaimOK ==
    ASSUME NEW c \in ClaimName, NEW obj \in ClaimObject, ClaimCopy(c, obj)
    PROVE  /\ startClaim(c, obj) \in ClaimWorker
           /\ startClaim(c, obj).pc \in {"clearStatus", "getBucket", "addFinalizer"}
           /\ startClaim(c, obj).name = c
           /\ startClaim(c, obj).claim = obj
           /\ ClaimWorkerOK(startClaim(c, obj))
<1> DEFINE pc == IF obj.deleting THEN "clearStatus"
                 ELSE IF obj.finalizer THEN "getBucket" ELSE "addFinalizer"
           v == [pc |-> pc, name |-> c, claim |-> obj, bucket |-> None, error |-> "none"]
<1>1. ~boundNameDegraded(obj)
  BY Zenon DEF ClaimCopy, boundNameDegraded
<1>2. startClaim(c, obj) = v
  BY Zenon, <1>1 DEF startClaim, ClaimIdle
<1>3. /\ v \in ClaimWorker /\ v.pc = pc /\ v.name = c /\ v.claim = obj /\ v.bucket = None
      /\ v.error = "none"
  BY Zenon DEF ClaimWorker, ClaimPc, Error
<1>4. ClaimAt(v)
  <2> HIDE DEF v
  <2> QED BY Zenon, <1>3 DEF ClaimAt
<1>5. ClaimWorkerOK(v)
  <2> HIDE DEF v
  <2> QED BY Zenon, <1>3, <1>4 DEF ClaimWorkerOK
<1> QED BY Zenon, <1>2, <1>3, <1>5

\* The claim worker goes on as w, having gained or lost only its own tokens.
LEMMA ClaimMoveStep ==
    ASSUME IInv, NEW w \in ClaimWorker, cw' = w, ClaimWorkerOK(w),
           UNCHANGED <<claims, claimEvents, buckets, bucketEvents, classes, cacheVars,
                       bucketWorkerVars, backend, envVars, faults>>,
           freshClaim' \in [ClaimName -> SUBSET Holder],
           freshBucket' \in [BucketName -> SUBSET Holder],
           \A c \in ClaimName :
              freshClaim'[c] \ {"controllerWorker"} = freshClaim[c] \ {"controllerWorker"},
           \A b \in BucketName :
              freshBucket'[b] \ {"controllerWorker"} = freshBucket[b] \ {"controllerWorker"},
           w.pc # "idle" /\ "controllerWorker" \in freshClaim'[w.name] =>
              (claims[w.name] # None /\ w.claim = claims[w.name])
              \/ (cw.name = w.name /\ cw.claim = w.claim /\ cw.pc \notin {"idle", "report"}
                  /\ freshClaim' = freshClaim),
           w.pc \in {"bindBucket", "annotate"}
              /\ "controllerWorker" \in freshBucket'[determineBucketName(w.claim)] =>
                    buckets[determineBucketName(w.claim)] = w.bucket,
           claimQueue' \subseteq claimQueue,
           \A c \in ClaimName :
              c \in claimQueue \ claimQueue' => \/ claims[c] = None
                                                \/ c \in claimEvents
                                                \/ w.name = c,
           cw.pc = "idle" \/ cw.name = w.name
    PROVE  IInv'
<1> /\ TypeOK /\ Copies /\ ClaimWorkerOK(cw) /\ BucketWorkerOK(sw)
    /\ CacheCoherence /\ ClaimCoherence /\ BoundCoherence /\ BucketCoherence
    /\ ClaimsAttended /\ BucketsAttended
  BY Zenon, InvariantParts
<1>1. TypeOK'
  BY Zenon, TypeParts DEF cacheVars, bucketWorkerVars, envVars
<1>2. Monotone
  BY Zenon, CreatedStays DEF Monotone, envVars
<1>3. Copies' /\ BucketWorkerOK(sw)' /\ ClaimWorkerOK(cw)'
  <2>1. Copies'
    BY Zenon, <1>1, <1>2, CopiesStable, TypeParts DEF Copies, cacheVars
  <2>2. BucketWorkerOK(sw)' /\ ClaimWorkerOK(cw)'
    BY Zenon, <1>1, <1>2, WorkersStable, TypeParts DEF bucketWorkerVars
  <2> QED BY Zenon, <2>1, <2>2
<1>4. CacheCoherence'
  BY Zenon DEF CacheCoherence, cacheVars
<1>5. ClaimCoherence'
  <2>1. SUFFICES ASSUME w.pc # "idle", "controllerWorker" \in freshClaim'[w.name]
                 PROVE  /\ claims[w.name] # None
                        /\ SameClaim(w.claim, claims[w.name])
                        /\ w.pc # "report" => w.claim = claims[w.name]
    BY Zenon DEF ClaimCoherence, SameClaim, SetClaimStatus
  <2>2. w.claim \in ClaimObject
    BY Zenon, <2>1 DEF ClaimWorkerOK
  <2>3. SameClaim(w.claim, w.claim)
    BY Zenon, <2>2 DEF SameClaim, SetClaimStatus, ClaimObject
  <2>4. CASE claims[w.name] # None /\ w.claim = claims[w.name]
    BY Zenon, <2>3, <2>4
  <2>5. CASE cw.name = w.name /\ cw.claim = w.claim /\ cw.pc \notin {"idle", "report"}
                  /\ freshClaim' = freshClaim
    BY Zenon, <2>1, <2>5 DEF ClaimCoherence
  <2> QED BY Zenon, <2>1, <2>4, <2>5
<1>6. BoundCoherence'
  BY Zenon DEF BoundCoherence, determineBucketName, isStaticProvisioning
<1>7. BucketCoherence'
  BY Zenon DEF BucketCoherence, BucketWorkerOK, SameBucket, SetBucketStatus, bucketWorkerVars
<1>8. ClaimsAttended'
  <2>1. \A c \in ClaimName : cw.name = c => w.name = c
    BY Zenon, IdleOK, ResourceAssumption DEF ClaimWorkerOK
  <2>2. \A c \in ClaimName : "controllerCache" \in freshClaim'[c] =>
                                "controllerCache" \in freshClaim[c]
    BY Zenon
  <2>3. claims' = claims /\ claimEvents' = claimEvents /\ claimCache' = claimCache
    BY Zenon DEF cacheVars
  <2>4. \A c \in ClaimName : ClaimSettled(claims[c])' = ClaimSettled(claims[c])
    BY Zenon, <2>3 DEF ClaimSettled
  <2> QED BY Zenon, <2>1, <2>2, <2>3, <2>4 DEF ClaimsAttended
<1>9. BucketsAttended'
  BY Zenon DEF BucketsAttended, BucketSettled, driverNameMatches, bucketWorkerVars, cacheVars
<1> QED BY Zenon, InvariantParts, <1>1, <1>3, <1>4, <1>5, <1>6, <1>7, <1>8, <1>9

\* ClaimStart: a key without an object in the cache is dropped, but then the
\* object's creation is still to be delivered.
LEMMA ClaimStartStep ==
    ASSUME IInv, NEW c \in ClaimName, ClaimStart(c)
    PROVE  IInv'
<1> DEFINE obj == claimCache[c]
           w == IF obj = None THEN ClaimIdle ELSE startClaim(c, obj)
<1>0. /\ cw.pc = "idle" /\ cw = ClaimIdle /\ cw' = w /\ freshBucket' = freshBucket
      /\ claimQueue' = claimQueue \ {c}
      /\ UNCHANGED <<claims, claimEvents, buckets, bucketEvents, classes, cacheVars,
                       bucketWorkerVars, backend, envVars, faults>>
      /\ freshClaim' = [freshClaim EXCEPT ![c] =
                        AfterRead(@, "controllerCache", obj, "controllerWorker")]
  BY Zenon, InvariantParts DEF ClaimStart, ClaimWorkerOK, storedBuckets
<1>1. obj # None => obj \in ClaimObject /\ ClaimCopy(c, obj)
  BY Zenon, InvariantParts, TypeParts DEF Copies
<1>2. /\ w \in ClaimWorker /\ ClaimWorkerOK(w)
      /\ obj = None => w = ClaimIdle
      /\ obj # None => w.name = c /\ w.claim = obj
      /\ w.pc \notin {"bindBucket", "annotate"}
  BY SMTT(60), <1>1, StartClaimOK, IdleOK
<1>3. /\ freshClaim' \in [ClaimName -> SUBSET Holder]
      /\ freshBucket' \in [BucketName -> SUBSET Holder]
      /\ \A k \in ClaimName :
           freshClaim'[k] \ {"controllerWorker"} = freshClaim[k] \ {"controllerWorker"}
      /\ "controllerWorker" \in freshClaim'[c] => "controllerCache" \in freshClaim[c]
  BY Zenon, <1>0, InvariantParts, TypeParts DEF AfterRead, Holder
<1>4. w.pc # "idle" /\ "controllerWorker" \in freshClaim'[w.name] =>
         claims[w.name] # None /\ w.claim = claims[w.name]
  <2>1. w.pc # "idle" => obj # None
    BY Zenon, <1>2, IdleOK
  <2>2. "controllerCache" \in freshClaim[c] => obj = claims[c]
    BY Zenon, InvariantParts DEF CacheCoherence
  <2> QED BY Zenon, <1>2, <1>3, <2>1, <2>2
<1>5. \A k \in ClaimName :
         k \in claimQueue \ claimQueue' => claims[k] = None \/ k \in claimEvents \/ w.name = k
  BY Zenon, <1>0, <1>2, InvariantParts DEF ClaimsAttended
<1> HIDE DEF w
<1> QED BY Zenon, <1>0, <1>2, <1>3, <1>4, <1>5, ClaimMoveStep

\* The two reads of the Bucket cache: the worker holds what the cache holds.
LEMMA ReadBucketStep ==
    ASSUME IInv, cw.pc \notin {"idle", "report"}, NEW w,
           ReadBucket(determineBucketName(cw.claim)),
           cw' = w, GoesOn(w, cw),
           w.pc \in {"bindBucket", "annotate"} =>
              w.bucket = bucketCache[determineBucketName(cw.claim)]
    PROVE  IInv'
<1> DEFINE b == determineBucketName(cw.claim)
<1>0. b \in BucketName /\ cw.name \in ClaimName
  BY Zenon, NameType, InvariantParts DEF ClaimWorkerOK
<1>1. /\ freshClaim' = freshClaim /\ claimQueue' = claimQueue
      /\ UNCHANGED <<claims, claimEvents, buckets, bucketEvents, classes, cacheVars,
                       bucketWorkerVars, backend, envVars, faults>>
      /\ freshBucket' = [freshBucket EXCEPT ![b] =
            AfterRead(@, "controllerCache", bucketCache[b], "controllerWorker")]
  BY Zenon DEF ReadBucket, storedClaims
<1>2. /\ freshBucket' \in [BucketName -> SUBSET Holder]
      /\ \A k \in BucketName :
           freshBucket'[k] \ {"controllerWorker"} = freshBucket[k] \ {"controllerWorker"}
      /\ "controllerWorker" \in freshBucket'[b] => "controllerCache" \in freshBucket[b]
  BY Zenon, <1>0, <1>1, InvariantParts, TypeParts DEF AfterRead, Holder
<1>3. "controllerCache" \in freshBucket[b] => bucketCache[b] = buckets[b]
  BY Zenon, <1>0, InvariantParts DEF CacheCoherence
<1>4. w \in ClaimWorker /\ w.name = cw.name /\ w.claim = cw.claim /\ ClaimWorkerOK(w)
  BY Zenon DEF GoesOn
<1>5. freshClaim' \in [ClaimName -> SUBSET Holder]
  BY Zenon, <1>1, InvariantParts, TypeParts
<1>6. w.pc \in {"bindBucket", "annotate"}
         /\ "controllerWorker" \in freshBucket'[determineBucketName(w.claim)] =>
              buckets[determineBucketName(w.claim)] = w.bucket
  BY Zenon, <1>2, <1>3, <1>4
<1> HIDE DEF b
<1> QED BY Zenon, <1>0, <1>1, <1>2, <1>4, <1>5, <1>6, ClaimMoveStep

\* ClaimGetBucket keeps the invariant.
LEMMA ClaimGetBucketStep ==
    ASSUME IInv, ClaimGetBucket
    PROVE  IInv'
<1> DEFINE b == determineBucketName(cw.claim)
           v == [cw EXCEPT !.bucket = bucketCache[b]]
           w == IF v.bucket = None THEN bucketNotFound(v) ELSE checkBucketBound(v)
<1>0. /\ cw.pc = "getBucket" /\ ReadBucket(b) /\ cw' = w
      /\ cw \in ClaimWorker /\ cw.name \in ClaimName /\ cw.claim \in ClaimObject
      /\ ClaimCopy(cw.name, cw.claim) /\ ~cw.claim.deleting /\ cw.claim.finalizer
      /\ TypeOK
  BY Zenon, InvariantParts, TypeParts DEF ClaimGetBucket, ClaimWorkerOK, ClaimAt
<1>1. b \in BucketName
  BY Zenon, <1>0, NameType
<1>2. bucketCache[b] # None => bucketCache[b] \in BucketObject /\ BucketCopy(b, bucketCache[b])
  BY Zenon, <1>1, InvariantParts, TypeParts DEF Copies
<1>3. /\ v \in ClaimWorker /\ v.bucket = bucketCache[b] /\ v.name = cw.name
      /\ v.claim = cw.claim
  BY Zenon, <1>0, <1>2 DEF ClaimWorker
<1>4. HasCopies(v)
  <2> HIDE DEF v
  <2> QED BY Zenon, <1>0, <1>2, <1>3 DEF HasCopies
<1>5. GoesOn(w, v) /\ w.pc # "annotate" /\ (w.pc = "bindBucket" => w.bucket = v.bucket)
  <2> HIDE DEF v
  <2>1. CASE v.bucket = None
    BY Zenon, <1>0, <1>3, <1>4, <2>1, BucketNotFoundOK
  <2>2. CASE v.bucket # None
    BY Zenon, <1>0, <1>2, <1>3, <1>4, <2>2, CheckBucketBoundOK
  <2> QED BY Zenon, <2>1, <2>2
<1>6. GoesOn(w, cw)
  <2> HIDE DEF v, w
  <2> QED BY Zenon, <1>3, <1>5 DEF GoesOn
<1> HIDE DEF w, v
<1> QED BY Zenon, <1>0, <1>3, <1>5, <1>6, ReadBucketStep

\* ClaimGetBucketToDelete keeps the invariant.
LEMMA ClaimGetBucketToDeleteStep ==
    ASSUME IInv, ClaimGetBucketToDelete
    PROVE  IInv'
<1> DEFINE b == determineBucketName(cw.claim)
           v == [cw EXCEPT !.bucket = bucketCache[b]]
           w == deleteDecision(v)
<1>0. /\ cw.pc = "getBucketToDelete" /\ ReadBucket(b) /\ cw' = w
      /\ cw \in ClaimWorker /\ cw.name \in ClaimName /\ cw.claim \in ClaimObject
      /\ ClaimCopy(cw.name, cw.claim) /\ cw.claim.deleting
  BY Zenon, InvariantParts, TypeParts DEF ClaimGetBucketToDelete, ClaimWorkerOK, ClaimAt
<1>1. b \in BucketName
  BY Zenon, <1>0, NameType
<1>2. bucketCache[b] # None => bucketCache[b] \in BucketObject /\ BucketCopy(b, bucketCache[b])
  BY Zenon, <1>1, InvariantParts, TypeParts DEF Copies
<1>3. /\ v \in ClaimWorker /\ v.bucket = bucketCache[b] /\ v.name = cw.name
      /\ v.claim = cw.claim
  BY Zenon, <1>0, <1>2 DEF ClaimWorker
<1>4. HasCopies(v)
  <2> HIDE DEF v
  <2> QED BY Zenon, <1>0, <1>2, <1>3 DEF HasCopies
<1>5. GoesOn(w, v) /\ w.pc # "bindBucket" /\ (w.pc = "annotate" => w.bucket = v.bucket)
  <2> HIDE DEF v
  <2> QED BY Zenon, <1>0, <1>3, <1>4, DeleteDecisionOK
<1>6. GoesOn(w, cw)
  <2> HIDE DEF v, w
  <2> QED BY Zenon, <1>3, <1>5 DEF GoesOn
<1> HIDE DEF w, v
<1> QED BY Zenon, <1>0, <1>3, <1>5, <1>6, ReadBucketStep
-----------------------------------------------------------------------------

\* Any write of a Bucket by the claim reconciler preserves the invariant, if the
\* written Bucket and what the two workers go on with are in order.
LEMMA BucketStoreStep ==
    ASSUME IInv, TypeOK', Monotone,
           NEW b \in BucketName, NEW new, StoreBucket(b, new),
           UNCHANGED <<storedClaims, cacheVars, claimQueue>>,
           new # None => BucketCopy(b, new)',
           \A k \in BucketName \ {b} : freshBucket'[k] \subseteq freshBucket[k],
           new = buckets[b] => freshBucket'[b] \subseteq freshBucket[b],
           new # buckets[b] => freshBucket'[b] \subseteq {"controllerWorker", "sidecarWorker"},
           new # None /\ buckets[b] # None => new.driverName = buckets[b].driverName,
           ClaimWorkerOK(cw)', BucketWorkerOK(sw)', BucketCoherence',
           \/ cw' = cw /\ (new # buckets[b] => "controllerWorker" \notin freshBucket'[b])
           \/ /\ cw.pc \notin {"idle", "report"} /\ cw'.pc # "idle"
              /\ cw'.name = cw.name /\ cw'.claim = cw.claim
              /\ cw'.pc \notin {"bindBucket", "annotate"},
           bucketQueue \subseteq bucketQueue',
           sw'.name = sw.name \/ sw.name = b \/ sw.name = None,
           new # None /\ driverNameMatches(new) =>
             \/ b \in bucketEvents' \cup bucketQueue'
             \/ sw'.name = b
             \/ BucketSettled(new)
    PROVE  IInv'
<1> /\ TypeOK /\ Copies /\ ClaimWorkerOK(cw) /\ BucketWorkerOK(sw)
    /\ CacheCoherence /\ ClaimCoherence /\ BoundCoherence /\ BucketCoherence
    /\ ClaimsAttended /\ BucketsAttended
  BY Zenon, InvariantParts
<1>1. /\ claims' = claims /\ claimEvents' = claimEvents /\ freshClaim' = freshClaim
      /\ claimCache' = claimCache /\ bucketCache' = bucketCache
      /\ sidecarCache' = sidecarCache /\ claimQueue' = claimQueue
      /\ buckets' = [buckets EXCEPT ![b] = new]
      /\ bucketEvents \subseteq bucketEvents'
      /\ bucketEvents' \subseteq bucketEvents \cup {b}
      /\ b \in bucketEvents' \ bucketEvents => new # buckets[b]
  BY Zenon DEF storedClaims, cacheVars, StoreBucket, BucketEventEnqueues, BucketGenerationChanged,
     ProtectionFinalizerRemoved
<1>2. buckets'[b] = new /\ \A k \in BucketName \ {b} : buckets'[k] = buckets[k]
  BY Zenon, <1>1, TypeParts
<1>3. Copies'
  <2>1. \A c \in ClaimName :
          /\ claims'[c] # None => ClaimCopy(c, claims[c])'
          /\ claimCache'[c] # None => ClaimCopy(c, claimCache[c])'
    BY Zenon, <1>1, CopiesStable, TypeParts DEF Copies
  <2>2. \A k \in BucketName :
          /\ bucketCache'[k] # None => BucketCopy(k, bucketCache[k])'
          /\ sidecarCache'[k] # None => BucketCopy(k, sidecarCache[k])'
    BY Zenon, <1>1, CopiesStable, TypeParts DEF Copies
  <2>3. \A k \in BucketName \ {b} : buckets'[k] # None => BucketCopy(k, buckets[k])'
    BY Zenon, <1>2, CopiesStable, TypeParts DEF Copies
  <2>4. buckets'[b] # None => BucketCopy(b, buckets[b])'
    BY Zenon, <1>2
  <2> QED BY Zenon, <2>1, <2>2, <2>3, <2>4 DEF Copies
<1>4. CacheCoherence'
  <2>1. \A c \in ClaimName :
          "controllerCache" \in freshClaim'[c] => claimCache'[c] = claims'[c]
    BY Zenon, <1>1 DEF CacheCoherence
  <2>2. \A k \in BucketName :
         /\ "controllerCache" \in freshBucket'[k] => bucketCache'[k] = buckets'[k]
         /\ "sidecarCache" \in freshBucket'[k] => sidecarCache'[k] = buckets'[k]
    BY SMTT(60), <1>1, <1>2 DEF CacheCoherence
  <2> QED BY Zenon, <2>1, <2>2 DEF CacheCoherence
<1>5. ClaimCoherence'
  BY Zenon, <1>1 DEF ClaimCoherence, SameClaim, SetClaimStatus
<1>6. BoundCoherence'
  <2>1. CASE cw' = cw /\ (new # buckets[b] => "controllerWorker" \notin freshBucket'[b])
    <3>1. cw.pc \in {"bindBucket", "annotate"} => determineBucketName(cw.claim) \in BucketName
      BY Zenon, NameType DEF ClaimWorkerOK
    <3> QED BY Zenon, <1>2, <2>1, <3>1 DEF BoundCoherence, determineBucketName, isStaticProvisioning
  <2>2. CASE cw'.pc \notin {"bindBucket", "annotate"}
    BY Zenon, <2>2 DEF BoundCoherence
  <2> QED BY Zenon, <2>1, <2>2
<1>7. ClaimsAttended'
  <2>1. cw'.name = cw.name
    BY Zenon
  <2> QED BY Zenon, <1>1, <2>1 DEF ClaimsAttended, ClaimSettled
<1>8. BucketsAttended'
  <2>1. \A k \in BucketName : k \in bucketEvents' => "sidecarCache" \notin freshBucket'[k]
    BY SMTT(60), <1>1 DEF BucketsAttended
  <2>2. \A k \in BucketName \ {b} :
          buckets'[k] # None /\ driverNameMatches(buckets'[k]) =>
             /\ sidecarCache[k] = None => k \in bucketEvents'
             /\ sidecarCache[k] # None => driverNameMatches(sidecarCache[k])
             /\ \/ k \in bucketEvents' \cup bucketQueue'
                \/ sw'.name = k
                \/ BucketSettled(buckets'[k])
    BY SMTT(60), <1>1, <1>2, ResourceAssumption DEF BucketsAttended
  <2>3. ASSUME new # None, driverNameMatches(new)
        PROVE  /\ sidecarCache[b] = None => b \in bucketEvents'
               /\ sidecarCache[b] # None => driverNameMatches(sidecarCache[b])
    <3>1. CASE buckets[b] # None
      BY Zenon, <1>1, <2>3, <3>1 DEF BucketsAttended, driverNameMatches
    <3>2. CASE buckets[b] = None
      <4>1. b \in bucketEvents'
        BY Zenon, <2>3, <3>2 DEF StoreBucket, BucketEventEnqueues
      <4>2. ASSUME sidecarCache[b] # None PROVE sidecarCache[b].driverName = new.driverName
        <5>1. BucketCopy(b, sidecarCache[b])
          BY Zenon, <4>2 DEF Copies
        <5>2. created[b] >= 1
          BY Zenon, <5>1 DEF BucketCopy
        <5>3. PICK u \in Uid : b = DynamicName(u) /\ issued[u] # None
          <6>1. buckets'[b] # None /\ ~(buckets[b] # None) /\ created[b] # 0
            BY SMTT(60), <1>2, <2>3, <3>2, <5>2
          <6>2. \E u \in Uid : /\ b = DynamicName(u)
                              /\ issued[u] # None
                              /\ buckets'[b].refUid = u
                              /\ buckets'[b].refName = issued[u].name
            BY Zenon, <6>1 DEF Monotone
          <6> QED BY Zenon, <6>2
        <5>4. sidecarCache[b].driverName = ClassSpec[issued[u].bucketClassName].driver
          BY Zenon, <5>1, <5>3 DEF BucketCopy
        <5>5. new.driverName = ClassSpec[issued'[u].bucketClassName].driver
          BY Zenon, <2>3, <5>3 DEF BucketCopy
        <5>6. issued'[u] = issued[u]
          BY Zenon, <5>3 DEF Monotone
        <5> QED BY Zenon, <5>4, <5>5, <5>6
      <4> QED BY Zenon, <2>3, <4>1, <4>2 DEF driverNameMatches
    <3> QED BY Zenon, <3>1, <3>2
  <2>4. \A k \in BucketName :
          buckets'[k] # None /\ driverNameMatches(buckets'[k]) =>
             /\ sidecarCache'[k] = None => k \in bucketEvents'
             /\ sidecarCache'[k] # None => driverNameMatches(sidecarCache'[k])
             /\ \/ k \in bucketEvents' \cup bucketQueue'
                \/ sw'.name = k
                \/ BucketSettled(buckets'[k])
    BY Zenon, <1>1, <1>2, <2>2, <2>3
  <2> QED BY Zenon, <2>1, <2>4 DEF BucketsAttended, driverNameMatches, BucketSettled
<1> QED BY Zenon, InvariantParts, <1>3, <1>4, <1>5, <1>6, <1>7, <1>8

\* The same, when it is not the Sidecar that writes.
LEMMA OthersStoreStep ==
    ASSUME IInv, TypeOK', Monotone,
           NEW b \in BucketName, NEW new, StoreBucket(b, new),
           UNCHANGED <<storedClaims, cacheVars, claimQueue, bucketWorkerVars>>,
           new # None => BucketCopy(b, new)',
           \A k \in BucketName \ {b} : freshBucket'[k] \subseteq freshBucket[k],
           new = buckets[b] => freshBucket'[b] \subseteq freshBucket[b],
           new # buckets[b] => freshBucket'[b] \subseteq {"controllerWorker"},
           new # None /\ buckets[b] # None => new.driverName = buckets[b].driverName,
           ClaimWorkerOK(cw)',
           \/ cw' = cw /\ (new # buckets[b] => "controllerWorker" \notin freshBucket'[b])
           \/ /\ cw.pc \notin {"idle", "report"} /\ cw'.pc # "idle"
              /\ cw'.name = cw.name /\ cw'.claim = cw.claim
              /\ cw'.pc \notin {"bindBucket", "annotate"},
           new # None =>
             \/ BucketEventEnqueues(buckets[b], new)
             \/ /\ buckets[b] # None
                /\ BucketSettled(buckets[b]) => BucketSettled(new)
             \/ ~driverNameMatches(new)
    PROVE  IInv'
<1>1. sw' = sw /\ bucketQueue' = bucketQueue
  BY Zenon DEF bucketWorkerVars
<1>2. buckets' = [buckets EXCEPT ![b] = new]
  BY Zenon DEF StoreBucket
<1>3. BucketWorkerOK(sw)'
  BY Zenon, <1>1, WorkersStable, InvariantParts, TypeParts
<1>4. BucketCoherence'
  <2>1. SUFFICES ASSUME sw.pc # "idle", "sidecarWorker" \in freshBucket'[sw.name]
                 PROVE  "sidecarWorker" \in freshBucket[sw.name] /\ buckets'[sw.name] = buckets[sw.name]
    BY Zenon, <1>1, InvariantParts DEF BucketCoherence, SameBucket, SetBucketStatus
  <2>2. sw.name \in BucketName
    BY Zenon, <2>1, InvariantParts DEF BucketWorkerOK
  <2>3. sw.name = b => new = buckets[b]
    BY SMTT(60), <2>1
  <2> QED BY Zenon, <1>2, <2>1, <2>2, <2>3, InvariantParts, TypeParts
<1>5. new # None /\ driverNameMatches(new) =>
             \/ b \in bucketEvents' \cup bucketQueue'
             \/ sw'.name = b
             \/ BucketSettled(new)
  <2>1. SUFFICES ASSUME new # None, driverNameMatches(new)
                 PROVE  \/ b \in bucketEvents' \cup bucketQueue'
                        \/ sw'.name = b
                        \/ BucketSettled(new)
    BY Zenon
  <2>2. CASE BucketEventEnqueues(buckets[b], new)
    BY Zenon, <2>2 DEF StoreBucket
  <2>3. CASE buckets[b] # None /\ (BucketSettled(buckets[b]) => BucketSettled(new))
    <3>1. driverNameMatches(buckets[b]) /\ bucketEvents \subseteq bucketEvents'
      BY Zenon, <2>1, <2>3 DEF driverNameMatches, StoreBucket
    <3> QED BY Zenon, <1>1, <2>3, <3>1, InvariantParts DEF BucketsAttended
  <2> QED BY Zenon, <2>1, <2>2, <2>3
<1> QED BY Zenon, <1>1, <1>3, <1>4, <1>5, BucketStoreStep

\* obj is bucket with, at most, a new claim UID and the deletion annotation.
Revises(obj, bucket) ==
    /\ obj.driverName = bucket.driverName /\ obj.protocols = bucket.protocols
    /\ obj.refName = bucket.refName
    /\ bucket.refUid # NoUid => obj.refUid = bucket.refUid
    /\ obj.finalizer = bucket.finalizer /\ obj.deleting = bucket.deleting
    /\ obj.readyToUse = bucket.readyToUse /\ obj.bucketID = bucket.bucketID
    /\ obj.statusProtocols = bucket.statusProtocols /\ obj.error = bucket.error

\* The Controller's Updates of a Bucket.
LEMMA ControllerWriteStep ==
    ASSUME IInv, cw.pc \in {"bindBucket", "annotate"},
           NEW b, b = determineBucketName(cw.claim),
           NEW o \in Outcome, NEW obj \in BucketObject, Revises(obj, cw.bucket),
           WriteBucket(o, b, obj, FALSE, "controllerWorker", FALSE),
           unchangedByBucketWrite, cw' \in ClaimWorker
    PROVE  /\ TypeOK' /\ Monotone
           /\ o = "ok" => BucketCopy(b, obj)'
           /\ /\ cw'.pc \notin {"idle", "bindBucket", "annotate"}
              /\ cw'.name = cw.name /\ cw'.claim = cw.claim
              /\ ClaimWorkerOK(cw)'
              => IInv'
<1>0. /\ b \in BucketName /\ cw.bucket \in BucketObject /\ BucketCopy(b, cw.bucket)
      /\ TypeOK
  BY Zenon, NameType, ResourceAssumption, InvariantParts DEF ClaimWorkerOK, ClaimAt
<1>1. TypeOK'
  <2>1. "controllerWorker" \in Holder
    BY Zenon DEF Holder
  <2>2. /\ buckets' \in [BucketName -> BucketObject \cup {None}]
        /\ freshBucket' \in [BucketName -> SUBSET Holder]
        /\ bucketEvents' \subseteq BucketName
        /\ faults' \in 0 .. MaxFaults
    BY Zenon, <1>0, <2>1, WriteBucketType
  <2> QED BY Zenon, <1>0, <2>2, TypeParts DEF unchangedByBucketWrite, storedClaims, cacheVars,
             bucketWorkerVars, envVars
<1>2. o \in {"ok", "timedOut"} => buckets[b] = cw.bucket /\ buckets[b] # None
  <2>1. o \in {"ok", "timedOut"} => "controllerWorker" \in freshBucket[b]
    BY Zenon DEF WriteBucket, Ends
  <2> QED BY Zenon, <1>0, <2>1, ResourceAssumption, InvariantParts DEF BoundCoherence
<1> PICK new : new = IF o \in {"ok", "timedOut"} THEN Persisted(obj) ELSE buckets[b]
  BY Zenon
<1>3. StoreBucket(b, new)
  BY Zenon DEF WriteBucket
<1>4. buckets' = [buckets EXCEPT ![b] = new]
  BY Zenon, <1>3 DEF StoreBucket
<1>5. new # None /\ new # buckets[b] =>
         /\ o \in {"ok", "timedOut"} /\ new = obj
         /\ buckets[b] # None /\ Revises(new, buckets[b])
  BY Zenon, <1>2 DEF Persisted
<1>6. Monotone
  <2>1. \A k \in BucketName : buckets'[k] # None =>
          /\ buckets[k] # None
          /\ buckets'[k].refName = buckets[k].refName
          /\ buckets[k].refUid # NoUid => buckets'[k].refUid = buckets[k].refUid
    <3> QED BY ZenonT(120), <1>0, <1>4, <1>5, TypeParts DEF Revises
  <2> QED BY Zenon, <1>0, <2>1, CreatedStays DEF Monotone, unchangedByBucketWrite, envVars
<1>7. o \in {"ok", "timedOut"} => BucketCopy(b, obj)'
  <2>1. SUFFICES ASSUME o \in {"ok", "timedOut"} PROVE BucketCopy(b, obj)'
    BY Zenon
  <2>2. BucketCopy(b, cw.bucket)
    BY Zenon, <1>0
  <2>3. buckets'[b] # None => buckets'[b] = obj
    BY Zenon, <1>0, <1>4, <2>1, TypeParts DEF Persisted
  <2>4. created' = created /\ issued' = issued /\ backend' = backend
    BY Zenon DEF unchangedByBucketWrite, envVars
  <2>5. \A u \in Uid : b = DynamicName(u) => cw.bucket.refUid = u /\ obj.refUid = u
    BY Zenon, <2>2, DynamicNames DEF BucketCopy, Revises
  <2> QED BY Zenon, <2>2, <2>3, <2>4, <2>5 DEF BucketCopy, Revises
<1>8. new # None => BucketCopy(b, new)'
  BY Zenon, <1>0, <1>1, <1>5, <1>6, <1>7, CopiesStable, InvariantParts, TypeParts DEF Copies
<1>9. /\ \A k \in BucketName \ {b} : freshBucket'[k] \subseteq freshBucket[k]
      /\ new = buckets[b] => freshBucket'[b] \subseteq freshBucket[b]
      /\ new # buckets[b] => freshBucket'[b] \subseteq {"controllerWorker"}
  BY Zenon, <1>0, TypeParts DEF WriteBucket, AfterWrite
<1>10. ASSUME /\ cw'.pc \notin {"idle", "bindBucket", "annotate"}
              /\ cw'.name = cw.name /\ cw'.claim = cw.claim
              /\ ClaimWorkerOK(cw)'
       PROVE  IInv'
  <2>1. UNCHANGED <<storedClaims, cacheVars, claimQueue, bucketWorkerVars>>
    BY Zenon DEF unchangedByBucketWrite
  <2>2. new # None /\ buckets[b] # None => new.driverName = buckets[b].driverName
    BY Zenon, <1>5 DEF Revises
  <2>3. new # None => buckets[b] # None /\ (BucketSettled(buckets[b]) => BucketSettled(new))
    BY Zenon, <1>5 DEF Revises, BucketSettled
    <2> QED BY Zenon, <1>0, <1>1, <1>3, <1>6, <1>8, <1>9, <1>10, <2>1, <2>2, <2>3, OthersStoreStep
<1> QED BY Zenon, <1>1, <1>6, <1>7, <1>10

\* CheckBucketBoundOK, in the state after a step.
ChecksGoOn ==
    \A w : /\ HasCopies(w) /\ w.bucket \in BucketObject
           /\ ~w.claim.deleting /\ w.claim.finalizer
           => /\ GoesOn(checkBucketBound(w), w)
              /\ checkBucketBound(w).pc \in {"report", "setReady", "bindClaim", "bindBucket"}

\* The checks after a binding go on rightly, judged in the state before a step ...
LEMMA ChecksGoOnNow == ChecksGoOn
BY Zenon, CheckBucketBoundOK DEF ChecksGoOn

\* ... and in the state after it.
LEMMA ChecksGoOnNext == ChecksGoOn'
BY ChecksGoOnNow, PTL

\* A worker that fails goes on, in the state after a step.
LEMMA FailedOK ==
    ASSUME IInv, TypeOK', Monotone, cw.pc # "idle"
    PROVE  /\ FailClaim(cw, "retry") \in ClaimWorker
           /\ FailClaim(cw, "retry").pc = "report"
           /\ FailClaim(cw, "retry").name = cw.name
           /\ FailClaim(cw, "retry").claim = cw.claim
           /\ cw' = FailClaim(cw, "retry") => ClaimWorkerOK(cw)'
<1>1. HasCopies(cw)
  BY Zenon, InvariantParts, TypeParts DEF HasCopies, ClaimWorkerOK
<1>2. GoesOn(FailClaim(cw, "retry"), cw) /\ FailClaim(cw, "retry").pc = "report"
  BY Zenon, <1>1, FailGoesOn DEF Error, TerminalError
<1>3. PICK v : v = FailClaim(cw, "retry")
  BY Zenon
<1>4. v \in ClaimWorker /\ ClaimWorkerOK(v)
  BY Zenon, <1>2, <1>3 DEF GoesOn
<1>5. ClaimWorkerOK(v)'
  BY Zenon, <1>4, WorkersStable, InvariantParts
<1> QED BY Zenon, <1>2, <1>3, <1>5 DEF GoesOn

\* What the worker holds after it stored the Bucket obj.
LEMMA HoldsStored ==
    ASSUME IInv, TypeOK', Monotone, cw.pc # "idle", NEW b, b = determineBucketName(cw.claim),
           NEW obj \in BucketObject, BucketCopy(b, obj)',
           NEW v, v = [cw EXCEPT !.bucket = obj]
    PROVE  /\ HasCopies(v)'
           /\ v \in ClaimWorker /\ v.bucket = obj /\ v.name = cw.name /\ v.claim = cw.claim
           /\ v.pc = cw.pc
<1>1. /\ cw \in ClaimWorker /\ cw.name \in ClaimName /\ cw.claim \in ClaimObject
      /\ ClaimCopy(cw.name, cw.claim)
  BY Zenon, InvariantParts, TypeParts DEF ClaimWorkerOK
<1>2. /\ v \in ClaimWorker /\ v.bucket = obj /\ v.name = cw.name /\ v.claim = cw.claim
      /\ v.pc = cw.pc
  BY Zenon, <1>1 DEF ClaimWorker
<1>3. ClaimCopy(v.name, v.claim)'
  BY Zenon, <1>1, <1>2, ClaimCopyStable, InvariantParts
<1>4. determineBucketName(v.claim) = b
  BY Zenon, <1>2
<1> QED BY Zenon, <1>1, <1>2, <1>3, <1>4 DEF HasCopies, determineBucketName, isStaticProvisioning

\* ClaimBindBucket: the Bucket named this claim and no UID.
LEMMA ClaimBindBucketStep ==
    ASSUME IInv, ClaimBindBucket
    PROVE  IInv'
<1>0. /\ cw.pc = "bindBucket" /\ cw.claim \in ClaimObject /\ cw.bucket \in BucketObject
      /\ cw.bucket.refUid = NoUid /\ cw.bucket.refName = cw.name
      /\ ~cw.claim.deleting /\ cw.claim.finalizer
      /\ unchangedByBucketWrite
  BY Zenon, InvariantParts DEF ClaimBindBucket, ClaimWorkerOK, ClaimAt
<1>1. PICK b, obj : /\ b = determineBucketName(cw.claim)
                    /\ obj = [cw.bucket EXCEPT !.refUid = cw.claim.uid]
  BY Zenon
<1>2. PICK v : v = [cw EXCEPT !.bucket = obj]
  BY Zenon
<1>3. PICK o \in Outcome :
        /\ WriteBucket(o, b, obj, FALSE, "controllerWorker", FALSE)
        /\ cw' = IF o = "ok" THEN checkClaimBound(v) ELSE FailClaim(cw, "retry")
  BY Zenon, <1>1, <1>2 DEF ClaimBindBucket
<1>4. /\ obj \in BucketObject /\ Revises(obj, cw.bucket)
      /\ obj.refUid = cw.claim.uid /\ obj.refName = cw.name
  BY Zenon, <1>0, <1>1 DEF BucketObject, Revises, ClaimObject
<1>5. cw.claim.uid # NoUid
  BY Zenon, <1>0, DynamicNames DEF ClaimObject
<1>6. cw \in ClaimWorker /\ v \in ClaimWorker /\ v.bucket = obj /\ v.name = cw.name
      /\ v.claim = cw.claim
  BY Zenon, <1>2, <1>4, InvariantParts, TypeParts DEF ClaimWorker
<1>7. checkClaimBound(v) = checkBucketBound(v)
  BY Zenon, <1>4, <1>5, <1>6 DEF checkBucketBound, bucketIsBoundToClaim
<1>8. cw' \in ClaimWorker
  BY Zenon, <1>0, <1>3, <1>4, <1>6, WorkerType DEF Error
<1>9. TypeOK' /\ Monotone /\ (o = "ok" => BucketCopy(b, obj)')
  BY Zenon, <1>0, <1>1, <1>3, <1>4, <1>8, ControllerWriteStep
<1>10. /\ cw'.pc \notin {"idle", "bindBucket", "annotate"}
       /\ cw'.name = cw.name /\ cw'.claim = cw.claim
       /\ ClaimWorkerOK(cw)'
  <2>1. CASE o # "ok"
    BY Zenon, <1>0, <1>3, <1>9, <2>1, FailedOK
  <2>2. CASE o = "ok"
    <3>1. HasCopies(v)'
      BY Zenon, <1>0, <1>1, <1>2, <1>4, <1>9, <2>2, HoldsStored
    <3>2. GoesOn(checkBucketBound(v), v)'
      BY Zenon, <1>0, <1>4, <1>6, <3>1, ChecksGoOnNext DEF ChecksGoOn
    <3>3. checkBucketBound(v).pc \in {"report", "setReady", "bindClaim"}
      <4>1. /\ [v EXCEPT !.pc = "setReady"].pc = "setReady"
            /\ [v EXCEPT !.pc = "bindClaim"].pc = "bindClaim"
        BY Zenon, <1>6 DEF ClaimWorker
      <4>2. FailClaim(v, "retry").pc = "report" /\ FailClaim(v, "terminal").pc = "report"
        BY Zenon, <1>6 DEF ClaimWorker, FailClaim
      <4> QED BY Zenon, <1>7, <4>1, <4>2 DEF checkClaimBound, checkProvisioned
    <3>4. cw' = checkBucketBound(v)
      BY Zenon, <1>3, <1>7, <2>2
    <3> QED BY Zenon, <1>6, <3>2, <3>3, <3>4 DEF GoesOn
  <2> QED BY Zenon, <2>1, <2>2
<1> QED BY Zenon, <1>0, <1>1, <1>3, <1>4, <1>8, <1>10, ControllerWriteStep

\* ClaimAnnotate
LEMMA ClaimAnnotateStep ==
    ASSUME IInv, ClaimAnnotate
    PROVE  IInv'
<1>0. /\ cw.pc = "annotate" /\ cw.claim \in ClaimObject /\ cw.bucket \in BucketObject
      /\ cw.claim.deleting
      /\ unchangedByBucketWrite
  BY Zenon, InvariantParts DEF ClaimAnnotate, ClaimWorkerOK, ClaimAt
<1>1. PICK b, obj : /\ b = determineBucketName(cw.claim)
                    /\ obj = [cw.bucket EXCEPT !.claimDeleting = TRUE]
  BY Zenon
<1>2. PICK v, pc : /\ v = [cw EXCEPT !.bucket = obj]
                   /\ pc = IF obj.deletionPolicy = "Retain"
                           THEN "removeFinalizer" ELSE "deleteBucket"
  BY Zenon
<1>3. PICK o \in Outcome :
        /\ WriteBucket(o, b, obj, FALSE, "controllerWorker", FALSE)
        /\ cw' = IF o # "ok" THEN FailClaim(cw, "retry")
                 ELSE [cw EXCEPT !.bucket = obj, !.pc = pc]
  BY Zenon, <1>1, <1>2 DEF ClaimAnnotate
<1>4. obj \in BucketObject /\ Revises(obj, cw.bucket)
  BY Zenon, <1>0, <1>1 DEF BucketObject, Revises
<1>5. /\ cw \in ClaimWorker /\ v \in ClaimWorker /\ v.name = cw.name /\ v.claim = cw.claim
      /\ [cw EXCEPT !.bucket = obj, !.pc = pc] = [v EXCEPT !.pc = pc]
      /\ pc \in ClaimPc
  BY Zenon, <1>2, <1>4, InvariantParts, TypeParts DEF ClaimWorker, ClaimPc
<1>6. cw' \in ClaimWorker
  BY Zenon, <1>0, <1>3, <1>5, MoveOK, FailFields DEF Error
<1>7. TypeOK' /\ Monotone /\ (o = "ok" => BucketCopy(b, obj)')
  BY Zenon, <1>0, <1>1, <1>3, <1>4, <1>6, ControllerWriteStep
<1>8. /\ cw'.pc \notin {"idle", "bindBucket", "annotate"}
      /\ cw'.name = cw.name /\ cw'.claim = cw.claim
      /\ ClaimWorkerOK(cw)'
  <2>1. CASE o # "ok"
    BY Zenon, <1>0, <1>3, <1>7, <2>1, FailedOK
  <2>2. CASE o = "ok"
    <3>1. HasCopies(v)' /\ v.bucket = obj
      BY Zenon, <1>0, <1>1, <1>2, <1>4, <1>7, <2>2, HoldsStored
    <3>2. PICK w : w = [v EXCEPT !.pc = pc]
      BY Zenon
    <3>3. /\ cw' = w /\ w.pc = pc /\ w.name = cw.name /\ w.claim = cw.claim
          /\ w.bucket = v.bucket
      BY Zenon, <1>3, <1>5, <2>2, <3>2, MoveOK
    <3>4. pc \in {"removeFinalizer", "deleteBucket"}
      BY Zenon, <1>2
    <3>5. ClaimAt(w)'
      BY Zenon, <1>0, <3>3, <3>4 DEF ClaimAt
    <3>6. ClaimWorkerOK(w)'
      BY Zenon, <1>5, <3>1, <3>3, <3>4, <3>5 DEF ClaimWorkerOK, HasCopies
    <3> QED BY Zenon, <3>3, <3>4, <3>6
  <2> QED BY Zenon, <2>1, <2>2
<1> QED BY Zenon, <1>0, <1>1, <1>3, <1>4, <1>6, <1>8, ControllerWriteStep

\* Storing what is stored changes nothing.
LEMMA StoreSame ==
    ASSUME TypeOK, NEW b \in BucketName, buckets' = buckets, bucketEvents' = bucketEvents
    PROVE  StoreBucket(b, buckets[b])
BY Zenon, TypeParts DEF StoreBucket, BucketEventEnqueues, BucketGenerationChanged,
   ProtectionFinalizerRemoved

\* ClaimCreateBucket: the new Bucket is bound to the claim of its name from the
\* start, as was any earlier Bucket of this name.
LEMMA ClaimCreateBucketStep ==
    ASSUME IInv, ClaimCreateBucket
    PROVE  IInv'
<1>0. /\ cw.pc = "createBucket" /\ cw.claim \in ClaimObject /\ cw.name \in ClaimName
      /\ cw \in ClaimWorker /\ ClaimCopy(cw.name, cw.claim)
      /\ ~isStaticProvisioning(cw.claim) /\ cw.claim.bucketClassName \in ClassName
      /\ ~cw.claim.deleting /\ cw.claim.finalizer /\ TypeOK
      /\ UNCHANGED <<storedClaims, classes, cacheVars, claimQueue,
                     bucketWorkerVars, backend, issued, restarts, edits>>
  BY Zenon, InvariantParts, TypeParts DEF ClaimCreateBucket, ClaimWorkerOK, ClaimAt
<1>1. PICK b, obj :
        /\ b = determineBucketName(cw.claim)
        /\ obj = generateIntermediateBucket(cw.claim, cw.name,
                                            ClassSpec[cw.claim.bucketClassName])
  BY Zenon
<1>2. PICK v : v = [cw EXCEPT !.bucket = obj]
  BY Zenon
<1>3. PICK o \in Outcome :
        /\ Ends(o, buckets[b] = None)
        /\ IF o \in {"ok", "timedOut"}
           THEN /\ StoreBucket(b, obj)
                /\ created' = [created EXCEPT ![b] = @ + 1]
                /\ freshBucket' = [freshBucket EXCEPT ![b] =
                                     IF o = "ok" THEN {"controllerWorker"} ELSE {}]
           ELSE UNCHANGED <<storedBuckets, created>>
        /\ cw' = IF o = "ok" THEN checkBucketBound(v) ELSE FailClaim(cw, "retry")
  BY Zenon, <1>1, <1>2 DEF ClaimCreateBucket
<1>4. /\ b \in BucketName /\ obj \in BucketObject
      /\ b = DynamicName(cw.claim.uid) /\ cw.claim.uid \in Uid
  BY Zenon, <1>0, <1>1, NameType, ObjectType DEF determineBucketName, ClaimObject
<1>5. /\ v \in ClaimWorker /\ v.bucket = obj /\ v.name = cw.name /\ v.claim = cw.claim
  BY Zenon, <1>0, <1>2, <1>4 DEF ClaimWorker
<1>6. cw' \in ClaimWorker
  BY Zenon, <1>0, <1>3, <1>4, <1>5, WorkerType DEF Error
<1>7. /\ obj.refUid = cw.claim.uid /\ obj.refName = cw.name
      /\ obj.protocols = cw.claim.protocols
      /\ obj.driverName = ClassSpec[cw.claim.bucketClassName].driver
      /\ ~obj.bucketID /\ obj.readyToUse = "nil"
  BY Zenon, <1>1 DEF generateIntermediateBucket
<1>8. /\ issued[cw.claim.uid] # None /\ issued[cw.claim.uid].name = cw.name
      /\ issued[cw.claim.uid].bucketClassName = cw.claim.bucketClassName
      /\ issued[cw.claim.uid].protocols = cw.claim.protocols
  <2>1. issued[cw.claim.uid] =
          [name |-> cw.name, bucketClassName |-> cw.claim.bucketClassName,
           existingBucketName |-> cw.claim.existingBucketName,
           protocols |-> cw.claim.protocols]
    BY Zenon, <1>0 DEF ClaimCopy
  <2>2. issued[cw.claim.uid] \in Submission
    BY SMTT(60), <1>0, <2>1 DEF Submission, ClaimObject
  <2> QED BY SMTT(60), <2>1, <2>2, ResourceAssumption
<1>9. faults' \in 0 .. MaxFaults
  BY SMTT(60), <1>0, <1>3, ProvisioningAssumption, TypeParts DEF Ends
<1>10. UNCHANGED <<storedClaims, cacheVars, claimQueue, bucketWorkerVars>>
  BY Zenon, <1>0
<1>11. CASE o \in {"ok", "timedOut"}
  <2>0. buckets[b] = None /\ buckets' = [buckets EXCEPT ![b] = obj] /\ obj # None
    BY Zenon, <1>3, <1>4, <1>11, ResourceAssumption DEF Ends, StoreBucket
  <2>a. PICK h \in SUBSET {"controllerWorker"} :
          /\ freshBucket' = [freshBucket EXCEPT ![b] = h]
          /\ created' = [created EXCEPT ![b] = @ + 1]
          /\ bucketEvents' = bucketEvents \/ bucketEvents' = bucketEvents \cup {b}
    BY Zenon, <1>3, <1>11 DEF StoreBucket
  <2>b. PICK f, n : f = created /\ n = created'
    BY Zenon
  <2>c. /\ f \in [BucketName -> Nat] /\ n = [f EXCEPT ![b] = @ + 1]
        /\ b \in BucketName
    BY Zenon, <1>0, <1>4, <2>a, <2>b, TypeParts
  <2>1. TypeOK'
    <3>1. buckets' \in [BucketName -> BucketObject \cup {None}] /\ bucketEvents' \subseteq BucketName
      BY Zenon, <1>0, <1>4, <2>0, <2>a, TypeParts
    <3>2. freshBucket' \in [BucketName -> SUBSET Holder]
      BY Zenon, <1>0, <2>a, TypeParts DEF Holder
    <3>3. created' \in [BucketName -> Nat]
      BY SMTT(60), <2>b, <2>c
    <3> QED BY Zenon, <1>0, <1>6, <1>9, <3>1, <3>2, <3>3, TypeParts DEF storedClaims, cacheVars,
               bucketWorkerVars
  <2>2. \A k \in BucketName : created'[k] >= created[k] /\ created'[b] >= 1
    BY SMTT(60), <2>b, <2>c
  <2>3. Monotone
    <3>1. \A k \in BucketName \ {b} : buckets'[k] = buckets[k]
      BY Zenon, <1>0, <2>0, TypeParts
    <3>2. buckets'[b] = obj
      BY Zenon, <1>0, <1>4, <2>0, TypeParts
    <3> QED BY Zenon, <1>0, <1>4, <1>7, <1>8, <2>2, <3>1, <3>2 DEF Monotone
  <2>4. BucketCopy(b, obj)'
    <3>1. \A u \in Uid : b = DynamicName(u) => u = cw.claim.uid
      BY Zenon, <1>4, DynamicNames
    <3>2. buckets'[b] = obj /\ issued' = issued
      BY Zenon, <1>0, <1>4, <2>0, TypeParts
    <3> QED BY Zenon, <1>0, <1>4, <1>7, <1>8, <2>2, <3>1, <3>2 DEF BucketCopy
  <2>5. /\ cw'.pc \notin {"idle", "bindBucket", "annotate"}
        /\ cw'.name = cw.name /\ cw'.claim = cw.claim
        /\ ClaimWorkerOK(cw)'
    <3>1. CASE o # "ok"
      BY Zenon, <1>0, <1>3, <2>1, <2>3, <3>1, FailedOK
    <3>2. CASE o = "ok"
      <4>1. HasCopies(v)'
        BY Zenon, <1>0, <1>1, <1>2, <1>4, <2>1, <2>3, <2>4, HoldsStored
      <4>2. /\ GoesOn(checkBucketBound(v), v)'
            /\ checkBucketBound(v).pc \in {"report", "setReady", "bindClaim", "bindBucket"}
        BY Zenon, <1>0, <1>4, <1>5, <4>1, ChecksGoOnNext DEF ChecksGoOn
      <4>3. cw' = checkBucketBound(v)
        BY Zenon, <1>3, <3>2
      <4>4. cw'.name = cw.name /\ cw'.claim = cw.claim /\ ClaimWorkerOK(cw)'
        BY Zenon, <1>5, <4>2, <4>3 DEF GoesOn
      <4>5. cw'.pc # "bindBucket"
        BY Zenon, <1>0, <4>4 DEF ClaimWorkerOK, ClaimAt, isStaticProvisioning
      <4> QED BY Zenon, <4>2, <4>3, <4>4, <4>5
    <3> QED BY Zenon, <3>1, <3>2
  <2>6. /\ \A k \in BucketName \ {b} : freshBucket'[k] \subseteq freshBucket[k]
        /\ freshBucket'[b] \subseteq {"controllerWorker"}
    BY Zenon, <1>0, <1>4, <2>a, TypeParts
  <2>7. BucketEventEnqueues(buckets[b], obj) \/ ~driverNameMatches(obj)
    BY Zenon, <2>0 DEF BucketEventEnqueues
  <2> QED BY Zenon, <1>0, <1>3, <1>4, <1>10, <1>11, <2>0, <2>1, <2>3, <2>4, <2>5, <2>6, <2>7,
        OthersStoreStep
<1>12. CASE o \notin {"ok", "timedOut"}
  <2>0. /\ buckets' = buckets /\ bucketEvents' = bucketEvents /\ freshBucket' = freshBucket
        /\ created' = created /\ cw' = FailClaim(cw, "retry")
    BY Zenon, <1>3, <1>12 DEF storedBuckets
  <2>1. TypeOK'
    BY Zenon, <1>0, <1>6, <1>9, <2>0, TypeParts DEF storedClaims, cacheVars, bucketWorkerVars
  <2>2. Monotone
    BY SMTT(60), <1>0, <2>0, TypeParts DEF Monotone
  <2>3. PICK new : new = buckets[b]
    BY Zenon
  <2>4. StoreBucket(b, new)
    BY Zenon, <1>0, <1>4, <2>0, <2>3, StoreSame
  <2>5. new # None => BucketCopy(b, new)'
    BY Zenon, <1>4, <2>1, <2>2, <2>3, CopiesStable, InvariantParts, TypeParts DEF Copies
  <2>6. /\ cw'.pc \notin {"idle", "bindBucket", "annotate"}
        /\ cw'.name = cw.name /\ cw'.claim = cw.claim
        /\ ClaimWorkerOK(cw)'
    BY Zenon, <1>0, <2>0, <2>1, <2>2, FailedOK
  <2> QED BY Zenon, <1>0, <1>4, <1>10, <2>0, <2>1, <2>2, <2>3, <2>4, <2>5, <2>6, OthersStoreStep
<1> QED BY Zenon, <1>11, <1>12

\* A Delete of a stored Bucket, by the Controller or by hand.
LEMMA DeletedOK ==
    ASSUME IInv, NEW b \in BucketName, buckets[b] # None
    PROVE  LET new == Deleted(buckets[b])
           IN  new # None =>
                 /\ new \in BucketObject
                 /\ new.deleting
                 /\ new = [buckets[b] EXCEPT !.deleting = TRUE]
                 /\ new.driverName = buckets[b].driverName
                 /\ new.refName = buckets[b].refName /\ new.refUid = buckets[b].refUid
                 /\ new.protocols = buckets[b].protocols
                 /\ new.bucketID = buckets[b].bucketID
                 /\ new.readyToUse = buckets[b].readyToUse
                 /\ new.statusProtocols = buckets[b].statusProtocols
                 /\ buckets[b].deleting => new = buckets[b]
<1>1. buckets[b] \in BucketObject
  BY Zenon, InvariantParts, TypeParts
<1> QED BY Zenon, <1>1 DEF Deleted, Persisted, BucketObject

\* new is bucket with, at most, another policy, without its finalizer, deleting.
Keeps(new, bucket) ==
    /\ new.driverName = bucket.driverName /\ new.protocols = bucket.protocols
    /\ new.refName = bucket.refName /\ new.refUid = bucket.refUid
    /\ new.readyToUse = bucket.readyToUse /\ new.bucketID = bucket.bucketID
    /\ new.statusProtocols = bucket.statusProtocols

\* Such a change, by the Controller or by hand.
LEMMA KeptStoreStep ==
    ASSUME IInv, TypeOK', NEW b \in BucketName, NEW new, StoreBucket(b, new),
           buckets[b] # None,
           new # None => Keeps(new, buckets[b]),
           UNCHANGED <<storedClaims, cacheVars, claimQueue, bucketWorkerVars, backend,
                       issued, created>>,
           \A k \in BucketName \ {b} : freshBucket'[k] \subseteq freshBucket[k],
           new = buckets[b] => freshBucket'[b] \subseteq freshBucket[b],
           new # buckets[b] => freshBucket'[b] = {},
           cw' = cw \/ (cw' = FailClaim(cw, "retry") /\ cw.pc \notin {"idle", "report"}),
           new # None => \/ new = buckets[b]
                         \/ BucketEventEnqueues(buckets[b], new)
                         \/ ~driverNameMatches(new)
    PROVE  IInv'
<1>0. /\ buckets' = [buckets EXCEPT ![b] = new] /\ TypeOK
      /\ BucketCopy(b, buckets[b])
  BY ZenonT(40), InvariantParts DEF StoreBucket, Copies
<1>1. Monotone
  <2>1. \A k \in BucketName : buckets'[k] # None =>
          /\ buckets[k] # None
          /\ buckets'[k].refName = buckets[k].refName
          /\ buckets[k].refUid # NoUid => buckets'[k].refUid = buckets[k].refUid
    BY Zenon, <1>0, TypeParts DEF Keeps
  <2>2. \A k \in BucketName : created'[k] >= created[k]
    BY Zenon, <1>0, CreatedStays
  <2> QED BY Zenon, <2>1, <2>2 DEF Monotone
<1>2. new # None => BucketCopy(b, new)'
  <2>1. buckets'[b] = new
    BY Zenon, <1>0, TypeParts
  <2> QED BY Zenon, <1>0, <2>1 DEF BucketCopy, Keeps
<1>3. ClaimWorkerOK(cw)'
  <2>1. CASE cw' = cw
    BY Zenon, <1>1, <2>1, WorkersStable, InvariantParts, TypeParts
  <2>2. CASE cw' = FailClaim(cw, "retry") /\ cw.pc \notin {"idle", "report"}
    BY Zenon, <1>1, <2>2, FailedOK
  <2> QED BY Zenon, <2>1, <2>2
<1>4. \/ cw' = cw
      \/ /\ cw.pc \notin {"idle", "report"} /\ cw'.pc = "report"
         /\ cw'.name = cw.name /\ cw'.claim = cw.claim
  BY Zenon, <1>1, FailedOK
<1>5. UNCHANGED <<storedClaims, cacheVars, claimQueue, bucketWorkerVars>>
  BY Zenon
<1>6. new # None /\ buckets[b] # None => new.driverName = buckets[b].driverName
  BY Zenon DEF Keeps
<1> QED BY Zenon, <1>1, <1>2, <1>3, <1>4, <1>5, <1>6, OthersStoreStep

\* ClaimDeleteBucket: the Bucket read may not be the Bucket deleted, but it has
\* the same name and so the same claim.
LEMMA ClaimDeleteBucketStep ==
    ASSUME IInv, ClaimDeleteBucket
    PROVE  IInv'
<1>0. /\ cw.pc = "deleteBucket" /\ cw.claim \in ClaimObject /\ cw \in ClaimWorker
      /\ cw' = FailClaim(cw, "retry") /\ unchangedByBucketWrite /\ TypeOK
  BY Zenon, InvariantParts, TypeParts DEF ClaimDeleteBucket, ClaimWorkerOK
<1>1. PICK b : b = determineBucketName(cw.claim)
  BY Zenon
<1>2. PICK o \in Outcome :
        /\ Ends(o, buckets[b] # None)
        /\ LET new == IF o \in {"ok", "timedOut"} THEN Deleted(buckets[b]) ELSE buckets[b]
           IN  /\ StoreBucket(b, new)
               /\ freshBucket' = IF new = buckets[b] THEN freshBucket
                                 ELSE [freshBucket EXCEPT ![b] = {}]
  BY Zenon, <1>1 DEF ClaimDeleteBucket
<1>3. PICK new : new = IF o \in {"ok", "timedOut"} THEN Deleted(buckets[b]) ELSE buckets[b]
  BY Zenon
<1>4. /\ StoreBucket(b, new)
      /\ freshBucket' = IF new = buckets[b] THEN freshBucket
                        ELSE [freshBucket EXCEPT ![b] = {}]
  BY Zenon, <1>2, <1>3
<1>5. b \in BucketName /\ cw' \in ClaimWorker
  BY Zenon, <1>0, <1>1, NameType, FailFields DEF Error
<1>6. new = buckets[b] \/ (buckets[b] # None /\ new = Deleted(buckets[b]))
  BY Zenon, <1>2, <1>3 DEF Ends
<1>7. /\ new \in BucketObject \cup {None}
      /\ new # None => Keeps(new, buckets[b])
      /\ new # None /\ new # buckets[b] =>
           BucketEventEnqueues(buckets[b], new) \/ ~driverNameMatches(new)
  <2>1. CASE new = buckets[b]
    BY Zenon, <1>0, <1>5, <2>1, TypeParts DEF Keeps
  <2>2. CASE new # buckets[b] /\ buckets[b] # None /\ new = Deleted(buckets[b])
    <3>1. new # None =>
            /\ new \in BucketObject /\ new.deleting /\ ~buckets[b].deleting
            /\ Keeps(new, buckets[b])
      BY Zenon, <1>5, <2>2, DeletedOK DEF Keeps
    <3> QED BY Zenon, <2>2, <3>1 DEF BucketEventEnqueues, BucketGenerationChanged
  <2> QED BY Zenon, <1>6, <2>1, <2>2
<1>8. TypeOK'
  <2>1. buckets' \in [BucketName -> BucketObject \cup {None}] /\ bucketEvents' \subseteq BucketName
    BY Zenon, <1>0, <1>4, <1>5, <1>7, TypeParts DEF StoreBucket
  <2>2. freshBucket' \in [BucketName -> SUBSET Holder]
    BY Zenon, <1>0, <1>4, TypeParts
  <2>3. faults' \in 0 .. MaxFaults
    BY SMTT(60), <1>0, <1>2, ProvisioningAssumption, TypeParts DEF Ends
  <2> QED BY Zenon, <1>0, <1>5, <2>1, <2>2, <2>3, TypeParts DEF unchangedByBucketWrite,
             storedClaims, cacheVars, bucketWorkerVars, envVars
<1>9. /\ \A k \in BucketName \ {b} : freshBucket'[k] \subseteq freshBucket[k]
      /\ new = buckets[b] => freshBucket'[b] \subseteq freshBucket[b]
      /\ new # buckets[b] => freshBucket'[b] = {}
  BY Zenon, <1>0, <1>4, <1>5, TypeParts
<1>10. UNCHANGED <<storedClaims, cacheVars, claimQueue, bucketWorkerVars, backend,
                   issued, created>>
  BY Zenon, <1>0 DEF unchangedByBucketWrite, envVars
<1>11. CASE buckets[b] # None
  BY Zenon, <1>0, <1>4, <1>5, <1>7, <1>8, <1>9, <1>10, <1>11, KeptStoreStep
<1>12. CASE buckets[b] = None
  <2>1. buckets' = buckets /\ new = None
    BY ZenonT(120), <1>0, <1>4, <1>5, <1>6, <1>12, TypeParts DEF StoreBucket
  <2>2. Monotone
    BY SMTT(60), <1>0, <1>10, <2>1, TypeParts DEF Monotone
  <2>3. /\ cw'.pc = "report" /\ cw'.name = cw.name /\ cw'.claim = cw.claim
        /\ ClaimWorkerOK(cw)'
    BY Zenon, <1>0, <1>8, <2>2, FailedOK
  <2>4. UNCHANGED <<storedClaims, cacheVars, claimQueue, bucketWorkerVars>>
    BY Zenon, <1>10
  <2> QED BY Zenon, <1>0, <1>4, <1>5, <1>8, <1>9, <1>12, <2>1, <2>2, <2>3, <2>4, OthersStoreStep
<1> QED BY Zenon, <1>11, <1>12
-----------------------------------------------------------------------------
(***************************************************************************)
(* The Sidecar.                                                            *)
(***************************************************************************)
\* What the Sidecar's worker w knows of the stored Bucket, if it is current.
Coherent(w, stored) ==
    /\ stored # None
    /\ SameBucket(w.bucket, stored)
    /\ w.pc \in {"addFinalizer", "removeFinalizer"} => w.bucket = stored
    /\ w.bucket.bucketID => w.bucket.finalizer \/ stored.bucketID
    /\ w.pc = "report" /\ w.error \in TerminalError => ~w.bucket.deleting

\* Steps that store nothing: the worker reads its cache or calls the driver.
LEMMA SidecarMoveStep ==
    ASSUME IInv, TypeOK', Monotone,
           UNCHANGED <<storedClaims, buckets, bucketEvents, cacheVars, claimWorkerVars>>,
           \A b \in BucketName :
              freshBucket'[b] \ {"sidecarWorker"} = freshBucket[b] \ {"sidecarWorker"},
           BucketWorkerOK(sw)',
           sw'.pc # "idle" /\ "sidecarWorker" \in freshBucket'[sw'.name] =>
              Coherent(sw', buckets[sw'.name]),
           \A b \in BucketName : b \in bucketQueue \ bucketQueue' =>
              \/ buckets[b] = None
              \/ ~driverNameMatches(buckets[b])
              \/ b \in bucketEvents
              \/ sw'.name = b,
           sw.pc = "idle" \/ sw'.name = sw.name
    PROVE  IInv'
<1> /\ TypeOK /\ Copies /\ ClaimWorkerOK(cw) /\ BucketWorkerOK(sw)
    /\ CacheCoherence /\ ClaimCoherence /\ BoundCoherence /\ BucketCoherence
    /\ ClaimsAttended /\ BucketsAttended
  BY Zenon, InvariantParts
<1>0. /\ claims' = claims /\ claimEvents' = claimEvents /\ freshClaim' = freshClaim
      /\ claimCache' = claimCache /\ bucketCache' = bucketCache /\ sidecarCache' = sidecarCache
      /\ claimQueue' = claimQueue /\ cw' = cw
      /\ buckets' = buckets /\ bucketEvents' = bucketEvents
  BY Zenon DEF storedClaims, cacheVars, claimWorkerVars
<1>1. Copies'
  <2>1. \A c \in ClaimName :
          /\ claims'[c] # None => ClaimCopy(c, claims[c])'
          /\ claimCache'[c] # None => ClaimCopy(c, claimCache[c])'
    BY Zenon, <1>0, CopiesStable, TypeParts DEF Copies
  <2>2. \A b \in BucketName :
          /\ buckets'[b] # None => BucketCopy(b, buckets[b])'
          /\ bucketCache'[b] # None => BucketCopy(b, bucketCache[b])'
          /\ sidecarCache'[b] # None => BucketCopy(b, sidecarCache[b])'
    BY ZenonT(120), <1>0, CopiesStable, TypeParts DEF Copies
  <2> QED BY Zenon, <2>1, <2>2 DEF Copies
<1>2. ClaimWorkerOK(cw)'
  BY Zenon, <1>0, WorkersStable, TypeParts
<1>3. CacheCoherence'
  BY Zenon, <1>0 DEF CacheCoherence
<1>4. ClaimCoherence'
  BY Zenon, <1>0 DEF ClaimCoherence, SameClaim, SetClaimStatus
<1>5. BoundCoherence'
  <2>1. cw.pc \in {"bindBucket", "annotate"} => determineBucketName(cw.claim) \in BucketName
    BY Zenon, NameType DEF ClaimWorkerOK
  <2> QED BY Zenon, <1>0, <2>1 DEF BoundCoherence, determineBucketName, isStaticProvisioning
<1>6. BucketCoherence'
  BY Zenon, <1>0 DEF BucketCoherence, Coherent, SameBucket, SetBucketStatus
<1>7. ClaimsAttended'
  BY Zenon, <1>0 DEF ClaimsAttended, ClaimSettled
<1>8. BucketsAttended'
  <2>1. \A b \in BucketName : sw.name = b => sw'.name = b
    BY Zenon, IdleOK, ResourceAssumption DEF BucketWorkerOK
  <2>2. \A b \in BucketName : "sidecarCache" \in freshBucket'[b] =>
                                "sidecarCache" \in freshBucket[b]
    BY Zenon
  <2>3. \A b \in BucketName : /\ BucketSettled(buckets[b])' = BucketSettled(buckets[b])
                              /\ driverNameMatches(buckets[b])' = driverNameMatches(buckets[b])
                              /\ driverNameMatches(sidecarCache[b])' = driverNameMatches(sidecarCache[b])
    BY Zenon, <1>0 DEF BucketSettled, driverNameMatches
  <2> QED BY Zenon, <1>0, <2>1, <2>2, <2>3 DEF BucketsAttended
<1> QED BY Zenon, InvariantParts, <1>1, <1>2, <1>3, <1>4, <1>5, <1>6, <1>7, <1>8

\* A write of the Bucket by the Sidecar's worker, which goes on as w.
LEMMA SidecarWriteStep ==
    ASSUME IInv, sw.pc # "idle", NEW b, b = sw.name,
           NEW o \in Outcome, NEW obj, NEW touch, NEW done, NEW w \in BucketWorker,
           WriteBucket(o, b, obj, touch, "sidecarWorker", done),
           unchangedBySidecar, backend' = backend, sw' = w,
           bucketQueue' = bucketQueue \/ bucketQueue' = bucketQueue \cup {b},
           "sidecarWorker" \in freshBucket[b] =>
             /\ obj \in BucketObject /\ BucketCopy(b, obj)
             /\ obj.driverName = buckets[b].driverName
             /\ obj.refName = buckets[b].refName /\ obj.refUid = buckets[b].refUid,
           w = BucketIdle \/ (w.pc # "idle" /\ w.name = b),
           BucketWorkerOK(w),
           "sidecarWorker" \in freshBucket[b] /\ w # BucketIdle =>
             IF o = "ok" THEN Persisted(obj) # None => Coherent(w, obj)
                         ELSE Coherent(w, buckets[b]),
           w = BucketIdle =>
             \/ b \in bucketQueue'
             \/ /\ o = "ok"
                /\ Persisted(obj) = None \/ BucketSettled(Persisted(obj))
    PROVE  IInv'
<1> DEFINE token == "sidecarWorker" \in freshBucket[b]
<1>0. b \in BucketName /\ TypeOK
  BY Zenon, InvariantParts DEF BucketWorkerOK
<1>1. token => buckets[b] # None
  BY Zenon, InvariantParts DEF BucketCoherence
<1>2. o \in {"ok", "timedOut"} => token
  BY Zenon DEF WriteBucket, Ends
<1> PICK new : new = IF o \in {"ok", "timedOut"} THEN Persisted(obj) ELSE buckets[b]
  BY Zenon
<1>3. StoreBucket(b, new) /\ buckets' = [buckets EXCEPT ![b] = new]
  BY Zenon DEF WriteBucket, StoreBucket
<1>4. TypeOK'
  <2>1. /\ buckets' \in [BucketName -> BucketObject \cup {None}]
        /\ freshBucket' \in [BucketName -> SUBSET Holder]
        /\ bucketEvents' \subseteq BucketName
        /\ faults' \in 0 .. MaxFaults
    BY Zenon, <1>0, <1>2, WriteBucketType DEF Holder
  <2> QED BY Zenon, <1>0, <2>1, TypeParts DEF unchangedBySidecar, storedClaims, cacheVars,
             claimWorkerVars, envVars
<1>5. new # None /\ new # buckets[b] =>
         /\ token /\ new = obj /\ buckets[b] # None
  BY Zenon, <1>1, <1>2 DEF Persisted
<1>6. Monotone
  <2>1. \A k \in BucketName : buckets'[k] # None =>
          /\ buckets[k] # None
          /\ buckets'[k].refName = buckets[k].refName
          /\ buckets[k].refUid # NoUid => buckets'[k].refUid = buckets[k].refUid
    BY Zenon, <1>0, <1>3, <1>5, TypeParts
  <2> QED BY Zenon, <1>0, <2>1, CreatedStays DEF Monotone, unchangedBySidecar, envVars
<1>7. new # None => BucketCopy(b, new)'
  <2>1. new # None => new \in BucketObject /\ BucketCopy(b, new)
    BY ZenonT(120), <1>0, <1>5, InvariantParts, TypeParts DEF Copies
  <2> QED BY Zenon, <1>0, <1>4, <1>6, <2>1, BucketCopyStable
<1>8. /\ \A k \in BucketName \ {b} : freshBucket'[k] \subseteq freshBucket[k]
      /\ new = buckets[b] => freshBucket'[b] \subseteq freshBucket[b]
      /\ new # buckets[b] => freshBucket'[b] \subseteq {"sidecarWorker"}
      /\ freshBucket'[b] # {} => \/ new = buckets[b]
                                 \/ o = "ok" /\ new # None
  BY Zenon, <1>0, <1>2, TypeParts DEF WriteBucket, AfterWrite, Forget
<1>9. ClaimWorkerOK(cw)' /\ cw' = cw
  BY Zenon, <1>4, <1>6, WorkersStable, InvariantParts, TypeParts DEF unchangedBySidecar,
     claimWorkerVars
<1>10. BucketWorkerOK(sw)'
  BY Zenon, <1>4, <1>6, WorkersStable, InvariantParts
<1>11. BucketCoherence'
  <2>1. CASE w = BucketIdle
    BY Zenon, <2>1, IdleOK DEF BucketCoherence
  <2>2. CASE w # BucketIdle
    <3>1. SUFFICES ASSUME "sidecarWorker" \in freshBucket'[b]
                   PROVE  Coherent(w, new)
      <4>1. buckets'[b] = new /\ sw' = w /\ w.name = b
        BY Zenon, <1>0, <1>3, <2>2, TypeParts
      <4>2. SameBucket(w.bucket, new) => SameBucket(sw.bucket, buckets[sw.name])'
        BY Zenon, <4>1 DEF SameBucket, SetBucketStatus
      <4> QED BY Zenon, <4>1, <4>2 DEF BucketCoherence, Coherent
    <3>2. token
      BY Zenon, <1>2, <1>8, <3>1
    <3>3. CASE o = "ok"
      <4>1. new = Persisted(obj) /\ new # None /\ new = obj
        BY Zenon, <1>1, <1>8, <3>1, <3>2, <3>3 DEF Persisted
      <4> QED BY Zenon, <2>2, <3>2, <3>3, <4>1
    <3>4. CASE o # "ok"
      BY Zenon, <1>8, <2>2, <3>1, <3>2, <3>4
    <3> QED BY Zenon, <3>3, <3>4
  <2> QED BY Zenon, <2>1, <2>2
<1>12. UNCHANGED <<storedClaims, cacheVars, claimQueue>>
  BY Zenon DEF unchangedBySidecar, claimWorkerVars
<1>13. new # None /\ buckets[b] # None => new.driverName = buckets[b].driverName
  BY Zenon, <1>5
<1>14. new # None /\ driverNameMatches(new) =>
             b \in bucketEvents' \cup bucketQueue' \/ sw'.name = b \/ BucketSettled(new)
  BY Zenon
<1> QED BY Zenon, <1>0, <1>3, <1>4, <1>6, <1>7, <1>8, <1>9, <1>10, <1>11, <1>12, <1>13, <1>14,
      BucketStoreStep

\* What the Sidecar's worker holds, on its way.
LEMMA SidecarHolds ==
    ASSUME IInv, sw.pc # "idle"
    PROVE  /\ sw \in BucketWorker /\ sw.name \in BucketName /\ sw.bucket \in BucketObject
           /\ BucketCopy(sw.name, sw.bucket) /\ BucketAt(sw)
           /\ "sidecarWorker" \in freshBucket[sw.name] =>
                /\ Coherent(sw, buckets[sw.name])
                /\ buckets[sw.name] \in BucketObject
<1>1. /\ sw \in BucketWorker /\ sw.name \in BucketName /\ sw.bucket \in BucketObject
      /\ BucketCopy(sw.name, sw.bucket) /\ BucketAt(sw)
  BY Zenon, InvariantParts, TypeParts DEF BucketWorkerOK
<1>2. ASSUME "sidecarWorker" \in freshBucket[sw.name]
      PROVE  Coherent(sw, buckets[sw.name]) /\ buckets[sw.name] \in BucketObject
  BY Zenon, <1>1, <1>2, InvariantParts, TypeParts DEF BucketCoherence, Coherent
<1> QED BY Zenon, <1>1, <1>2

\* A failing worker.
LEMMA FailBucketOK ==
    ASSUME NEW w \in BucketWorker, w.name \in BucketName, w.bucket \in BucketObject,
           BucketCopy(w.name, w.bucket), NEW e \in Error
    PROVE  /\ FailBucket(w, e) \in BucketWorker
           /\ FailBucket(w, e).pc = "report" /\ FailBucket(w, e).name = w.name
           /\ FailBucket(w, e).bucket = w.bucket /\ FailBucket(w, e).error = e
           /\ BucketWorkerOK(FailBucket(w, e))
           /\ \A stored : /\ Coherent(w, stored)
                          /\ e \in TerminalError => ~w.bucket.deleting
                          => Coherent(FailBucket(w, e), stored)
<1> DEFINE v == FailBucket(w, e)
<1>1. /\ v \in BucketWorker /\ v.pc = "report" /\ v.name = w.name
      /\ v.bucket = w.bucket /\ v.error = e
  BY Zenon DEF FailBucket, BucketWorker, BucketPc
<1> HIDE DEF v
<1>2. BucketWorkerOK(v)
  BY Zenon, <1>1 DEF BucketWorkerOK, BucketAt
<1>3. \A stored : Coherent(w, stored) /\ (e \in TerminalError => ~w.bucket.deleting)
                    => Coherent(v, stored)
  BY Zenon, <1>1 DEF Coherent
<1> QED BY Zenon, <1>1, <1>2, <1>3 DEF v

\* SameBucket, spelled out for what BucketCopy and the event filter look at.
LEMMA SameBucketFields ==
    ASSUME NEW x \in BucketObject, NEW y \in BucketObject, SameBucket(x, y)
    PROVE  /\ x.driverName = y.driverName /\ x.refName = y.refName /\ x.refUid = y.refUid
           /\ x.protocols = y.protocols
           /\ x.finalizer = y.finalizer /\ x.deleting = y.deleting
<1>1. SetBucketStatus(x, y) = y
  BY Zenon DEF SameBucket
<1> QED BY Zenon, <1>1 DEF SetBucketStatus, BucketObject

\* Buckets that differ only in their status: a transitive relation.
LEMMA SameBucketTransitive ==
    ASSUME NEW x \in BucketObject, NEW y \in BucketObject, NEW z \in BucketObject,
           SameBucket(x, y), SameBucket(y, z)
    PROVE  SameBucket(x, z)
<1>1. SetBucketStatus(x, y) = y /\ SetBucketStatus(y, z) = z
  BY Zenon DEF SameBucket
<1>2. /\ x.driverName = z.driverName /\ x.deletionPolicy = z.deletionPolicy
      /\ x.existingBucketID = z.existingBucketID /\ x.protocols = z.protocols
      /\ x.refName = z.refName /\ x.refUid = z.refUid /\ x.finalizer = z.finalizer
      /\ x.deleting = z.deleting /\ x.claimDeleting = z.claimDeleting
  BY ZenonT(120), <1>1 DEF SetBucketStatus, BucketObject
<1> QED BY ZenonT(120), <1>2 DEF SameBucket, SetBucketStatus, BucketObject

\* A reconcile of the Sidecar begins on a copy of the Bucket.
LEMMA StartBucketOK ==
    ASSUME NEW b \in BucketName, NEW obj \in BucketObject, BucketCopy(b, obj)
    PROVE  LET w == startBucket(b, obj)
           IN  /\ w \in BucketWorker /\ w.name = b /\ w.bucket = obj /\ w.pc # "idle"
               /\ BucketWorkerOK(w) /\ Coherent(w, obj)
<1> DEFINE pc == IF obj.deleting THEN "removeFinalizer"
                 ELSE IF ~validateDriverSupportsProtocols(obj) THEN "report"
                 ELSE IF obj.finalizer THEN "rpc" ELSE "addFinalizer"
           e == IF pc = "report" THEN "terminal" ELSE "none"
           w == [pc |-> pc, name |-> b, bucket |-> obj, error |-> e]
<1>1. startBucket(b, obj) = w
  <2>1. CASE obj.deleting
    BY Zenon, <2>1 DEF startBucket, BucketIdle
  <2>2. CASE ~obj.deleting /\ ~validateDriverSupportsProtocols(obj)
    BY Zenon, <2>2 DEF startBucket, BucketIdle, FailBucket
  <2>3. CASE ~obj.deleting /\ validateDriverSupportsProtocols(obj)
    BY Zenon, <2>3 DEF startBucket, BucketIdle
  <2> QED BY Zenon, <2>1, <2>2, <2>3
<1>2. /\ w \in BucketWorker /\ w.pc = pc /\ w.name = b /\ w.bucket = obj /\ w.error = e
  BY Zenon DEF BucketWorker, BucketPc, Error, TerminalError
<1>3. BucketWorkerOK(w)
  <2> HIDE DEF w
  <2> QED BY Zenon, <1>2 DEF BucketWorkerOK, BucketAt
<1>4. Coherent(w, obj)
  <2>1. SameBucket(obj, obj) /\ obj # None
    BY Zenon, ResourceAssumption DEF SameBucket, SetBucketStatus, BucketObject
  <2>2. obj.bucketID => obj.bucketID
    BY Zenon
  <2>3. pc = "report" => ~obj.deleting
    BY Zenon
  <2> HIDE DEF w, pc
  <2> QED BY Zenon, <1>2, <2>1, <2>3 DEF Coherent
<1> QED BY SMTT(60), <1>1, <1>2, <1>3, <1>4

\* BucketStart: what is dropped is not the Sidecar's, or its creation is still
\* to be delivered.
LEMMA BucketStartStep ==
    ASSUME IInv, NEW b \in BucketName, BucketStart(b)
    PROVE  IInv'
<1>0. PICK obj, w :
        /\ obj = sidecarCache[b]
        /\ w = IF obj = None \/ ~driverNameMatches(obj) THEN BucketIdle
                                                       ELSE startBucket(b, obj)
  BY Zenon
<1> DEFINE skip == obj = None \/ ~driverNameMatches(obj)
<1>1. /\ sw.pc = "idle" /\ sw' = w /\ bucketQueue' = bucketQueue \ {b}
      /\ freshBucket' = [freshBucket EXCEPT ![b] =
            IF skip THEN @ ELSE AfterRead(@, "sidecarCache", obj, "sidecarWorker")]
      /\ UNCHANGED <<storedClaims, buckets, bucketEvents, classes, cacheVars,
                     claimWorkerVars, backend, envVars, faults>>
  BY Zenon, <1>0 DEF BucketStart
<1>2. obj # None => obj \in BucketObject /\ BucketCopy(b, obj)
  BY Zenon, <1>0, InvariantParts, TypeParts DEF Copies
<1>3. /\ w \in BucketWorker /\ BucketWorkerOK(w)
      /\ skip => w = BucketIdle
      /\ ~skip => w.name = b /\ w.pc # "idle" /\ Coherent(w, obj)
  BY ZenonT(40), <1>0, <1>2, StartBucketOK, IdleOK
<1>4. /\ freshBucket' \in [BucketName -> SUBSET Holder]
      /\ \A k \in BucketName :
           freshBucket'[k] \ {"sidecarWorker"} = freshBucket[k] \ {"sidecarWorker"}
      /\ ~skip /\ "sidecarWorker" \in freshBucket'[b] => "sidecarCache" \in freshBucket[b]
  BY Zenon, <1>1, InvariantParts, TypeParts DEF AfterRead, Holder
<1>5. TypeOK'
  BY Zenon, <1>1, <1>3, <1>4, InvariantParts, TypeParts DEF storedClaims, cacheVars,
     claimWorkerVars, envVars
<1>6. Monotone
  BY Zenon, <1>1, InvariantParts, CreatedStays DEF Monotone, envVars
<1>7. BucketWorkerOK(sw)'
  BY Zenon, <1>1, <1>3, <1>5, <1>6, WorkersStable, InvariantParts
<1>8. sw'.pc # "idle" /\ "sidecarWorker" \in freshBucket'[sw'.name] =>
         Coherent(sw', buckets[sw'.name])
  <2>1. "sidecarCache" \in freshBucket[b] => obj = buckets[b]
    BY Zenon, <1>0, InvariantParts DEF CacheCoherence
  <2>2. w.pc # "idle" => ~skip
    BY Zenon, <1>3, IdleOK
  <2> QED BY Zenon, <1>1, <1>3, <1>4, <2>1, <2>2
<1>9. \A k \in BucketName : k \in bucketQueue \ bucketQueue' =>
         buckets[k] = None \/ ~driverNameMatches(buckets[k]) \/ k \in bucketEvents \/ sw'.name = k
  BY Zenon, <1>0, <1>1, <1>3, InvariantParts DEF BucketsAttended
<1>10. UNCHANGED <<storedClaims, buckets, bucketEvents, cacheVars, claimWorkerVars>>
  BY Zenon, <1>1
<1> QED BY Zenon, <1>1, <1>4, <1>5, <1>6, <1>7, <1>8, <1>9, <1>10, SidecarMoveStep

\* BucketRemoveFinalizer: the Bucket is being deleted, so it is gone.
LEMMA BucketRemoveFinalizerStep ==
    ASSUME IInv, BucketRemoveFinalizer
    PROVE  IInv'
<1>0. /\ sw.pc = "removeFinalizer" /\ unchangedBySidecar /\ backend' = backend
      /\ bucketQueue' = bucketQueue
  BY Zenon DEF BucketRemoveFinalizer
<1>1. PICK b, obj : b = sw.name /\ obj = [sw.bucket EXCEPT !.finalizer = FALSE]
  BY Zenon
<1>2. PICK o \in Outcome :
        /\ WriteBucket(o, b, obj, FALSE, "sidecarWorker", FALSE)
        /\ sw' = FailBucket(sw, IF o = "ok" THEN "terminal" ELSE "retry")
  BY Zenon, <1>1 DEF BucketRemoveFinalizer
<1>3. PICK e, w : e = (IF o = "ok" THEN "terminal" ELSE "retry") /\ w = FailBucket(sw, e)
  BY Zenon
<1>4. /\ sw \in BucketWorker /\ b \in BucketName /\ sw.bucket \in BucketObject
      /\ BucketCopy(b, sw.bucket) /\ sw.bucket.deleting
      /\ "sidecarWorker" \in freshBucket[b] =>
           Coherent(sw, buckets[b]) /\ sw.bucket = buckets[b]
  BY Zenon, <1>0, <1>1, SidecarHolds DEF BucketAt, Coherent
<1>5. /\ obj \in BucketObject /\ Persisted(obj) = None /\ Keeps(obj, sw.bucket)
  BY Zenon, <1>1, <1>4 DEF BucketObject, Persisted, Keeps
<1>6. BucketCopy(b, obj)
  BY Zenon, <1>4, <1>5 DEF BucketCopy, Keeps
<1>7. /\ w \in BucketWorker /\ w.pc = "report" /\ w.name = b /\ BucketWorkerOK(w)
      /\ o # "ok" /\ Coherent(sw, buckets[b]) => Coherent(w, buckets[b])
  BY SMTT(60), <1>1, <1>3, <1>4, FailBucketOK DEF Error, TerminalError
<1>8. "sidecarWorker" \in freshBucket[b] =>
             /\ obj \in BucketObject /\ BucketCopy(b, obj)
             /\ obj.driverName = buckets[b].driverName
             /\ obj.refName = buckets[b].refName /\ obj.refUid = buckets[b].refUid
  BY Zenon, <1>4, <1>5, <1>6 DEF Keeps
<1>9. w # BucketIdle
  BY SMTT(60), <1>7 DEF BucketIdle
<1> QED BY Zenon, <1>0, <1>1, <1>2, <1>3, <1>4, <1>5, <1>7, <1>8, <1>9, SidecarWriteStep

\* BucketAddFinalizer writes the worker's copy with the finalizer on.
LEMMA BucketAddFinalizerStep ==
    ASSUME IInv, BucketAddFinalizer
    PROVE  IInv'
<1>0. /\ sw.pc = "addFinalizer" /\ unchangedBySidecar /\ backend' = backend
      /\ bucketQueue' = bucketQueue
  BY Zenon DEF BucketAddFinalizer
<1>1. PICK b, obj : b = sw.name /\ obj = [sw.bucket EXCEPT !.finalizer = TRUE]
  BY Zenon
<1>2. PICK o \in Outcome :
        /\ WriteBucket(o, b, obj, FALSE, "sidecarWorker", FALSE)
        /\ sw' = IF o = "ok" THEN [sw EXCEPT !.pc = "rpc", !.bucket = obj]
                             ELSE FailBucket(sw, "retry")
  BY Zenon, <1>1 DEF BucketAddFinalizer
<1>3. PICK v, w : /\ v = [sw EXCEPT !.pc = "rpc", !.bucket = obj]
                  /\ w = IF o = "ok" THEN v ELSE FailBucket(sw, "retry")
  BY Zenon
<1>4. /\ sw \in BucketWorker /\ b \in BucketName /\ sw.bucket \in BucketObject
      /\ BucketCopy(b, sw.bucket) /\ ~sw.bucket.deleting
      /\ "sidecarWorker" \in freshBucket[b] =>
           Coherent(sw, buckets[b]) /\ sw.bucket = buckets[b]
  BY Zenon, <1>0, <1>1, SidecarHolds DEF BucketAt, Coherent
<1>5. /\ obj \in BucketObject /\ Keeps(obj, sw.bucket) /\ obj.finalizer /\ ~obj.deleting
      /\ obj # None
  <2>1. obj \in BucketObject /\ Keeps(obj, sw.bucket) /\ obj.finalizer /\ ~obj.deleting
    BY Zenon, <1>1, <1>4 DEF BucketObject, Keeps
  <2> QED BY Zenon, <2>1, ResourceAssumption
<1>6. BucketCopy(b, obj)
  BY Zenon, <1>4, <1>5 DEF BucketCopy, Keeps
<1>7. v \in BucketWorker /\ v.pc = "rpc" /\ v.name = b /\ v.bucket = obj
  BY Zenon, <1>1, <1>3, <1>4, <1>5 DEF BucketWorker, BucketPc
<1>8. BucketWorkerOK(v) /\ Coherent(v, obj)
  <2>1. SameBucket(obj, obj)
    BY Zenon, <1>5 DEF SameBucket, SetBucketStatus, BucketObject
  <2> QED BY Zenon, <1>4, <1>5, <1>6, <1>7, <2>1 DEF BucketWorkerOK, BucketAt, Coherent
<1>9. /\ w \in BucketWorker /\ w.pc \in {"rpc", "report"} /\ w.name = b /\ BucketWorkerOK(w)
      /\ o # "ok" /\ Coherent(sw, buckets[b]) => Coherent(w, buckets[b])
      /\ o = "ok" => Coherent(w, obj)
  BY SMTT(60), <1>1, <1>3, <1>4, <1>7, <1>8, FailBucketOK DEF Error, TerminalError
<1>10. "sidecarWorker" \in freshBucket[b] =>
             /\ obj \in BucketObject /\ BucketCopy(b, obj)
             /\ obj.driverName = buckets[b].driverName
             /\ obj.refName = buckets[b].refName /\ obj.refUid = buckets[b].refUid
  BY Zenon, <1>4, <1>5, <1>6 DEF Keeps
<1>11. w # BucketIdle
  BY SMTT(60), <1>9 DEF BucketIdle
<1> QED BY Zenon, <1>0, <1>1, <1>2, <1>3, <1>4, <1>9, <1>10, <1>11, SidecarWriteStep

\* BucketSetStatus: the status came from the driver's answer.
LEMMA BucketSetStatusStep ==
    ASSUME IInv, BucketSetStatus
    PROVE  IInv'
<1>0. /\ sw.pc = "setStatus" /\ unchangedBySidecar /\ backend' = backend
      /\ bucketQueue' = bucketQueue
  BY Zenon DEF BucketSetStatus
<1>1. PICK b, obj : b = sw.name /\ obj = SetBucketStatus(buckets[b], sw.bucket)
  BY Zenon
<1>2. PICK o \in Outcome :
        /\ WriteBucket(o, b, obj, FALSE, "sidecarWorker", o = "ok")
        /\ sw' = IF o = "ok" THEN BucketIdle ELSE FailBucket(sw, "retry")
  BY Zenon, <1>1 DEF BucketSetStatus
<1>3. PICK w : w = IF o = "ok" THEN BucketIdle ELSE FailBucket(sw, "retry")
  BY Zenon
<1>4. /\ sw \in BucketWorker /\ b \in BucketName /\ sw.bucket \in BucketObject
      /\ BucketCopy(b, sw.bucket)
      /\ ~sw.bucket.deleting /\ sw.bucket.finalizer /\ sw.bucket.bucketID
      /\ "sidecarWorker" \in freshBucket[b] =>
           Coherent(sw, buckets[b]) /\ buckets[b] \in BucketObject
  BY Zenon, <1>0, <1>1, SidecarHolds DEF BucketAt
<1>5. "sidecarWorker" \in freshBucket[b] =>
         /\ obj = sw.bucket
         /\ obj.driverName = buckets[b].driverName
         /\ obj.refName = buckets[b].refName /\ obj.refUid = buckets[b].refUid
  BY SMTT(60), <1>1, <1>4, StatusOverSame, SameBucketFields DEF Coherent
<1>6. BucketSettled(sw.bucket) /\ Persisted(sw.bucket) = sw.bucket
  BY Zenon, <1>4 DEF BucketSettled, BucketCopy, Persisted
<1>7. o = "ok" => "sidecarWorker" \in freshBucket[b]
  BY Zenon, <1>2 DEF WriteBucket, Ends
<1>8. /\ w \in BucketWorker /\ BucketWorkerOK(w)
      /\ o = "ok" => w = BucketIdle
      /\ o # "ok" => w.pc = "report" /\ w.name = b
      /\ o # "ok" /\ Coherent(sw, buckets[b]) => Coherent(w, buckets[b])
  BY SMTT(60), <1>1, <1>3, <1>4, FailBucketOK, IdleOK DEF Error, TerminalError
<1>9. w = BucketIdle => o = "ok"
  BY SMTT(60), <1>8 DEF BucketIdle
<1>10. /\ sw.pc # "idle" /\ b = sw.name /\ sw' = w
       /\ WriteBucket(o, b, obj, FALSE, "sidecarWorker", o = "ok")
  BY Zenon, <1>0, <1>1, <1>2, <1>3
<1>11. "sidecarWorker" \in freshBucket[b] =>
         /\ obj \in BucketObject /\ BucketCopy(b, obj)
         /\ obj.driverName = buckets[b].driverName
         /\ obj.refName = buckets[b].refName /\ obj.refUid = buckets[b].refUid
  BY Zenon, <1>4, <1>5
<1>12. /\ w = BucketIdle \/ (w.pc # "idle" /\ w.name = b)
       /\ "sidecarWorker" \in freshBucket[b] /\ w # BucketIdle =>
            IF o = "ok" THEN Persisted(obj) # None => Coherent(w, obj)
                        ELSE Coherent(w, buckets[b])
  BY Zenon, <1>4, <1>8
<1>13. w = BucketIdle => o = "ok" /\ BucketSettled(Persisted(obj))
  BY Zenon, <1>5, <1>6, <1>7, <1>9
<1> QED BY Zenon, <1>0, <1>8, <1>10, <1>11, <1>12, <1>13, SidecarWriteStep

\* BucketReport: what is recorded is not queued again only if it is terminal,
\* and then the Bucket is not being deleted.
LEMMA BucketReportStep ==
    ASSUME IInv, BucketReport
    PROVE  IInv'
<1>0. /\ sw.pc = "report" /\ unchangedBySidecar /\ backend' = backend /\ sw' = BucketIdle
  BY Zenon DEF BucketReport
<1>1. PICK b, local : /\ b = sw.name
                      /\ local = [sw.bucket EXCEPT !.readyToUse = NotNil(@), !.error = sw.error]
  BY Zenon
<1>2. PICK obj : obj = SetBucketStatus(buckets[b], local)
  BY Zenon
<1>3. PICK o \in Outcome :
        /\ WriteBucket(o, b, obj, TRUE, "sidecarWorker", TRUE)
        /\ bucketQueue' = IF o = "ok" /\ sw.error \in TerminalError
                          THEN bucketQueue ELSE bucketQueue \cup {b}
  BY Zenon, <1>1, <1>2 DEF BucketReport
<1>4. /\ sw \in BucketWorker /\ b \in BucketName /\ sw.bucket \in BucketObject
      /\ BucketCopy(b, sw.bucket)
      /\ "sidecarWorker" \in freshBucket[b] =>
           Coherent(sw, buckets[b]) /\ buckets[b] \in BucketObject
  BY Zenon, <1>0, <1>1, SidecarHolds
<1>5. /\ local \in BucketObject /\ local.readyToUse = NotNil(sw.bucket.readyToUse)
      /\ local.error = sw.error /\ local.deleting = sw.bucket.deleting
      /\ local.driverName = sw.bucket.driverName /\ local.protocols = sw.bucket.protocols
      /\ local.refName = sw.bucket.refName /\ local.refUid = sw.bucket.refUid
      /\ local.bucketID = sw.bucket.bucketID
      /\ local.statusProtocols = sw.bucket.statusProtocols
      /\ SameBucket(local, sw.bucket)
  BY Zenon, <1>1, <1>4 DEF BucketObject, BucketWorker, NotNil, ReadyToUse, SameBucket, SetBucketStatus
<1>6. BucketCopy(b, local)
  <2>1. local.readyToUse = "true" <=> sw.bucket.readyToUse = "true"
    BY Zenon, <1>5 DEF NotNil
  <2> QED BY Zenon, <1>4, <1>5, <2>1 DEF BucketCopy
<1>7. "sidecarWorker" \in freshBucket[b] =>
         /\ obj = local
         /\ obj.driverName = buckets[b].driverName
         /\ obj.refName = buckets[b].refName /\ obj.refUid = buckets[b].refUid
  <2>1. SUFFICES ASSUME "sidecarWorker" \in freshBucket[b]
                 PROVE  /\ obj = local
                        /\ local.driverName = buckets[b].driverName
                        /\ local.refName = buckets[b].refName
                        /\ local.refUid = buckets[b].refUid
    BY Zenon
  <2>2. SameBucket(sw.bucket, buckets[b]) /\ buckets[b] \in BucketObject
    BY Zenon, <1>4, <2>1 DEF Coherent
  <2>3. SameBucket(local, buckets[b])
    BY Zenon, <1>1, <1>4, <2>2 DEF SameBucket, SetBucketStatus, BucketObject
  <2> QED BY Zenon, <1>2, <1>5, <2>2, <2>3, StatusOverSame, SameBucketFields
<1>8. o = "ok" => "sidecarWorker" \in freshBucket[b]
  BY Zenon, <1>3 DEF WriteBucket, Ends
<1>9. b \notin bucketQueue' => o = "ok" /\ BucketSettled(Persisted(obj))
  <2>1. SUFFICES ASSUME b \notin bucketQueue'
                 PROVE  o = "ok" /\ BucketSettled(Persisted(obj))
    BY Zenon
  <2>2. o = "ok" /\ sw.error \in TerminalError
    BY Zenon, <1>3, <2>1
  <2>3. obj = local /\ ~sw.bucket.deleting
    BY Zenon, <1>0, <1>4, <1>7, <1>8, <2>2 DEF Coherent
  <2> QED BY Zenon, <1>5, <2>2, <2>3 DEF BucketSettled, Persisted
<1>10. "sidecarWorker" \in freshBucket[b] =>
             /\ obj \in BucketObject /\ BucketCopy(b, obj)
             /\ obj.driverName = buckets[b].driverName
             /\ obj.refName = buckets[b].refName /\ obj.refUid = buckets[b].refUid
  BY Zenon, <1>5, <1>6, <1>7
<1>11. bucketQueue' = bucketQueue \/ bucketQueue' = bucketQueue \cup {b}
  BY Zenon, <1>3
<1> QED BY Zenon, <1>0, <1>1, <1>3, <1>9, <1>10, <1>11, IdleOK, SidecarWriteStep

\* The driver's answer: the worker fails, or holds the status to be written.
LEMMA ProvisionedOK ==
    ASSUME IInv, sw.pc = "rpc", NEW served \in SUBSET Protocol
    PROVE  \/ provisioned(sw, served) = FailBucket(sw, "terminal")
           \/ LET v == provisioned(sw, served)
              IN  /\ v \in BucketWorker /\ v.pc = "setStatus" /\ v.name = sw.name
                  /\ v.bucket \in BucketObject /\ SameBucket(v.bucket, sw.bucket)
                  /\ v.bucket.bucketID /\ v.bucket.readyToUse = "true"
                  /\ v.bucket.statusProtocols = served /\ served # {}
                  /\ v.bucket.protocols \subseteq served
<1>0. sw \in BucketWorker /\ sw.bucket \in BucketObject
  BY Zenon, SidecarHolds
<1>1. SUFFICES ASSUME served # {}, validateBucketSupportsProtocols(served, sw.bucket)
               PROVE  LET v == provisioned(sw, served)
                      IN  /\ v \in BucketWorker /\ v.pc = "setStatus" /\ v.name = sw.name
                          /\ v.bucket \in BucketObject /\ SameBucket(v.bucket, sw.bucket)
                          /\ v.bucket.bucketID /\ v.bucket.readyToUse = "true"
                          /\ v.bucket.statusProtocols = served /\ served # {}
                          /\ v.bucket.protocols \subseteq served
  BY Zenon DEF provisioned
<1> DEFINE obj == [sw.bucket EXCEPT !.readyToUse = "true", !.bucketID = TRUE,
                                    !.statusProtocols = served, !.error = "none"]
           v == [sw EXCEPT !.pc = "setStatus", !.bucket = obj]
<1>2. provisioned(sw, served) = v
  BY Zenon, <1>0, <1>1 DEF provisioned, BucketWorker, BucketObject
<1>3. /\ obj \in BucketObject /\ SameBucket(obj, sw.bucket)
      /\ obj.bucketID /\ obj.readyToUse = "true"
      /\ obj.statusProtocols = served /\ obj.protocols = sw.bucket.protocols
  BY Zenon, <1>0 DEF BucketObject, ReadyToUse, Error, SameBucket, SetBucketStatus
<1>4. v \in BucketWorker /\ v.pc = "setStatus" /\ v.name = sw.name /\ v.bucket = obj
  <2> HIDE DEF obj
  <2> QED BY Zenon, <1>0, <1>3 DEF BucketWorker, BucketPc
<1> HIDE DEF v, obj
<1> QED BY Zenon, <1>1, <1>2, <1>3, <1>4 DEF validateBucketSupportsProtocols

\* The two driver calls.  What a backend bucket serves is settled when it comes
\* into being, and the answer tells it.
LEMMA RpcStep ==
    ASSUME IInv, sw.pc = "rpc", unchangedBySidecar, UNCHANGED <<storedBuckets, bucketQueue>>,
           backend' \in [BucketName -> (SUBSET Protocol) \cup {None}],
           \A b \in BucketName : backend[b] # None => backend'[b] = backend[b],
           faults' \in 0 .. MaxFaults,
           \/ \E e \in Error : sw' = FailBucket(sw, e)
           \/ \E served \in SUBSET Protocol :
                sw' = provisioned(sw, served) /\ backend'[sw.name] = served
    PROVE  IInv'
<1>0. /\ sw \in BucketWorker /\ sw.name \in BucketName /\ sw.bucket \in BucketObject
      /\ BucketCopy(sw.name, sw.bucket) /\ ~sw.bucket.deleting /\ sw.bucket.finalizer
      /\ "sidecarWorker" \in freshBucket[sw.name] =>
           Coherent(sw, buckets[sw.name]) /\ buckets[sw.name] \in BucketObject
      /\ TypeOK
  BY Zenon, SidecarHolds, InvariantParts DEF BucketAt
<1>1. PICK b, v : b = sw.name /\ v = sw'
  BY Zenon
<1>2. \/ \E e \in Error : v = FailBucket(sw, e)
      \/ /\ v \in BucketWorker /\ v.pc = "setStatus" /\ v.name = b
         /\ v.bucket \in BucketObject /\ SameBucket(v.bucket, sw.bucket)
         /\ v.bucket.bucketID /\ v.bucket.readyToUse = "true"
         /\ v.bucket.statusProtocols = backend'[b] /\ backend'[b] # {}
         /\ v.bucket.protocols \subseteq backend'[b]
  BY SMTT(60), <1>1, ProvisionedOK DEF Error, TerminalError
<1>3. v \in BucketWorker /\ v.name = b /\ v.pc # "idle"
  BY SMTT(60), <1>0, <1>1, <1>2, FailBucketOK
<1>4. TypeOK'
  BY Zenon, <1>0, <1>1, <1>3, TypeParts DEF unchangedBySidecar, storedClaims, storedBuckets,
     cacheVars, claimWorkerVars, envVars
<1>5. Monotone
  BY Zenon, <1>0, CreatedStays DEF Monotone, unchangedBySidecar, storedBuckets, envVars
<1>6. BucketWorkerOK(v)'
  <2>0. BucketCopy(b, sw.bucket) /\ sw.bucket \in BucketObject /\ b \in BucketName
    BY Zenon, <1>0, <1>1
  <2>1. PICK old : old = sw.bucket
    BY Zenon
  <2>2. BucketCopy(b, old)'
    BY Zenon, <1>0, <1>4, <1>5, <2>0, <2>1, BucketCopyStable
  <2>3. CASE \E e \in Error : v = FailBucket(sw, e)
    <3>1. BucketWorkerOK(v)
      BY SMTT(60), <1>0, <1>1, <2>3, FailBucketOK
    <3> QED BY Zenon, <1>0, <1>3, <1>4, <1>5, <3>1, WorkersStable
  <2>4. CASE /\ v.pc = "setStatus" /\ v.bucket \in BucketObject
             /\ SameBucket(v.bucket, sw.bucket)
             /\ v.bucket.bucketID /\ v.bucket.readyToUse = "true"
             /\ v.bucket.statusProtocols = backend'[b] /\ backend'[b] # {}
             /\ v.bucket.protocols \subseteq backend'[b]
    <3>1. /\ v.bucket.driverName = old.driverName /\ v.bucket.refName = old.refName
          /\ v.bucket.refUid = old.refUid /\ v.bucket.protocols = old.protocols
          /\ v.bucket.finalizer /\ ~v.bucket.deleting
      BY SMTT(60), <1>0, <2>1, <2>4, SameBucketFields
    <3>2. BucketCopy(b, v.bucket)'
      BY Zenon, <2>2, <2>4, <3>1 DEF BucketCopy
    <3>3. BucketAt(v)'
      BY Zenon, <2>4, <3>1 DEF BucketAt
    <3> QED BY ZenonT(120), <1>3, <2>0, <2>4, <3>2, <3>3 DEF BucketWorkerOK
  <2> QED BY Zenon, <1>2, <2>3, <2>4
<1>7. "sidecarWorker" \in freshBucket[b] => Coherent(v, buckets[b])
  <2>1. SUFFICES ASSUME "sidecarWorker" \in freshBucket[b] PROVE Coherent(v, buckets[b])
    BY Zenon
  <2>2. CASE \E e \in Error : v = FailBucket(sw, e)
    BY SMTT(60), <1>0, <1>1, <2>1, <2>2, FailBucketOK
  <2>3. CASE v.pc = "setStatus" /\ v.bucket \in BucketObject /\ SameBucket(v.bucket, sw.bucket)
    <3>1. SameBucket(sw.bucket, buckets[b]) /\ buckets[b] # None
      BY Zenon, <1>0, <1>1, <2>1 DEF Coherent
    <3>2. SameBucket(v.bucket, buckets[b])
      BY Zenon, <1>0, <1>1, <2>1, <2>3, <3>1, SameBucketTransitive
    <3>3. v.bucket.finalizer
      BY SMTT(60), <1>0, <2>3, SameBucketFields
    <3> QED BY Zenon, <2>3, <3>1, <3>2, <3>3 DEF Coherent
  <2> QED BY Zenon, <1>2, <2>2, <2>3
<1>8. /\ UNCHANGED <<storedClaims, buckets, bucketEvents, cacheVars, claimWorkerVars>>
      /\ freshBucket' = freshBucket /\ bucketQueue' = bucketQueue
  BY Zenon DEF unchangedBySidecar, storedBuckets
<1>9. BucketWorkerOK(sw)'
  BY Zenon, <1>1, <1>6
<1> QED BY Zenon, <1>1, <1>3, <1>4, <1>5, <1>7, <1>8, <1>9, SidecarMoveStep

\* BucketCreateRpc keeps the invariant.
LEMMA BucketCreateRpcStep ==
    ASSUME IInv, BucketCreateRpc
    PROVE  IInv'
<1>0. /\ sw.pc = "rpc" /\ unchangedBySidecar /\ UNCHANGED <<storedBuckets, bucketQueue>>
      /\ TypeOK /\ sw.name \in BucketName
  BY Zenon, SidecarHolds, InvariantParts DEF BucketCreateRpc
<1>1. \A code \in Code : provisionError(code) \in Error
  BY Zenon DEF provisionError, Error, TerminalError
<1>2. RpcFails => faults' \in 0 .. MaxFaults /\ \E e \in Error : sw' = FailBucket(sw, e)
  BY SMTT(60), <1>0, <1>1, ProvisioningAssumption, TypeParts DEF RpcFails, Error, TerminalError
<1>3. CASE sw' = FailBucket(sw, "terminal") /\ UNCHANGED <<backend, faults>>
  BY Zenon, <1>0, <1>3, RpcStep, TypeParts DEF Error, TerminalError
<1>4. CASE RpcFails /\ UNCHANGED backend
  BY Zenon, <1>0, <1>2, <1>4, RpcStep, TypeParts
<1>5. ASSUME NEW served \in Served,
             backend[sw.name] # None => served = backend[sw.name],
             backend' = [backend EXCEPT ![sw.name] = served],
             (sw' = provisioned(sw, served) /\ UNCHANGED faults) \/ RpcFails
      PROVE  IInv'
  <2>1. served \in SUBSET Protocol
    BY Zenon, ResourceAssumption
  <2>2. /\ backend' \in [BucketName -> (SUBSET Protocol) \cup {None}]
        /\ \A b \in BucketName : backend[b] # None => backend'[b] = backend[b]
        /\ backend'[sw.name] = served
    BY Zenon, <1>0, <1>5, <2>1, TypeParts
  <2>3. faults' \in 0 .. MaxFaults
    BY Zenon, <1>0, <1>2, <1>5, TypeParts
  <2> QED BY Zenon, <1>0, <1>2, <1>5, <2>1, <2>2, <2>3, RpcStep
<1> QED BY Zenon, <1>3, <1>4, <1>5 DEF BucketCreateRpc

\* BucketGetRpc keeps the invariant.
LEMMA BucketGetRpcStep ==
    ASSUME IInv, BucketGetRpc
    PROVE  IInv'
<1>0. /\ sw.pc = "rpc" /\ unchangedBySidecar /\ UNCHANGED <<storedBuckets, bucketQueue>>
      /\ TypeOK /\ sw.name \in BucketName /\ backend' = backend
  BY Zenon, SidecarHolds, InvariantParts DEF BucketGetRpc
<1>1. \A code \in Code : provisionError(code) \in Error
  BY Zenon DEF provisionError, Error, TerminalError
<1>2. RpcFails => faults' \in 0 .. MaxFaults /\ \E e \in Error : sw' = FailBucket(sw, e)
  BY SMTT(60), <1>0, <1>1, ProvisioningAssumption, TypeParts DEF RpcFails, Error, TerminalError
<1>3. CASE RpcFails
  BY Zenon, <1>0, <1>2, <1>3, RpcStep, TypeParts
<1>4. CASE backend[sw.name] = None /\ sw' = FailBucket(sw, provisionError("NotFound"))
           /\ UNCHANGED faults
  BY Zenon, <1>0, <1>1, <1>4, RpcStep, TypeParts DEF Code
<1>5. CASE backend[sw.name] # None /\ sw' = provisioned(sw, backend[sw.name])
           /\ UNCHANGED faults
  BY Zenon, <1>0, <1>5, RpcStep, TypeParts
<1> QED BY Zenon, <1>3, <1>4, <1>5 DEF BucketGetRpc
-----------------------------------------------------------------------------
(***************************************************************************)
(* Informers, restarts, users and admins.                                  *)
(***************************************************************************)
\* Steps that touch neither objects nor caches nor workers.
LEMMA QuietStep ==
    ASSUME IInv, TypeOK', Monotone,
           UNCHANGED <<storedClaims, storedBuckets, cacheVars, claimWorkerVars,
                       bucketWorkerVars>>
    PROVE  IInv'
<1>1. /\ UNCHANGED <<storedClaims, buckets, bucketEvents, cacheVars, claimWorkerVars>>
      /\ freshBucket' = freshBucket /\ bucketQueue' = bucketQueue /\ sw' = sw
  BY Zenon DEF storedBuckets, bucketWorkerVars
<1>2. BucketWorkerOK(sw)'
  BY Zenon, <1>1, WorkersStable, InvariantParts, TypeParts
<1>3. sw'.pc # "idle" /\ "sidecarWorker" \in freshBucket'[sw'.name] =>
         Coherent(sw', buckets[sw'.name])
  BY Zenon, <1>1, SidecarHolds
<1> QED BY Zenon, <1>1, <1>2, <1>3, SidecarMoveStep

\* ClaimCacheSync: the event is delivered with the object, and enqueues.
LEMMA ClaimCacheSyncStep ==
    ASSUME IInv, NEW c \in ClaimName, ClaimCacheSync(c)
    PROVE  IInv'
<1> /\ TypeOK /\ Copies /\ ClaimWorkerOK(cw) /\ BucketWorkerOK(sw)
    /\ CacheCoherence /\ ClaimCoherence /\ BoundCoherence /\ BucketCoherence
    /\ ClaimsAttended /\ BucketsAttended
  BY Zenon, InvariantParts
<1>0. /\ claims' = claims /\ buckets' = buckets /\ freshBucket' = freshBucket
      /\ bucketEvents' = bucketEvents /\ bucketQueue' = bucketQueue
      /\ bucketCache' = bucketCache /\ sidecarCache' = sidecarCache
      /\ cw' = cw /\ sw' = sw /\ backend' = backend /\ issued' = issued /\ created' = created
      /\ claimCache' = [claimCache EXCEPT ![c] = claims[c]]
      /\ freshClaim' = [freshClaim EXCEPT ![c] = @ \cup {"controllerCache"}]
      /\ claimQueue' = claimQueue \cup (claimEvents \cap {c})
      /\ claimEvents' = claimEvents \ {c}
  BY Zenon DEF ClaimCacheSync, storedBuckets, bucketWorkerVars, envVars
<1>1. TypeOK'
  <2>1. /\ claimCache' \in [ClaimName -> ClaimObject \cup {None}]
        /\ freshClaim' \in [ClaimName -> SUBSET Holder]
        /\ claimQueue' \subseteq ClaimName /\ claimEvents' \subseteq ClaimName
    BY Zenon, <1>0, TypeParts DEF Holder
  <2> QED BY Zenon, <1>0, <2>1, TypeParts DEF ClaimCacheSync, envVars
<1>2. Monotone
  BY Zenon, <1>0, CreatedStays DEF Monotone
<1>3. /\ claimCache'[c] = claims[c] /\ freshClaim'[c] = freshClaim[c] \cup {"controllerCache"}
      /\ \A k \in ClaimName \ {c} : /\ claimCache'[k] = claimCache[k]
                                    /\ freshClaim'[k] = freshClaim[k]
  BY Zenon, <1>0, TypeParts
<1>4. Copies'
  <2>1. \A k \in ClaimName :
          /\ claims'[k] # None => ClaimCopy(k, claims'[k]) /\ claims'[k] \in ClaimObject
          /\ claimCache'[k] # None => ClaimCopy(k, claimCache'[k]) /\ claimCache'[k] \in ClaimObject
    BY ZenonT(120), <1>0, <1>3, TypeParts DEF Copies
  <2>2. \A k \in ClaimName :
          /\ claims'[k] # None => ClaimCopy(k, claims[k])'
          /\ claimCache'[k] # None => ClaimCopy(k, claimCache[k])'
    BY Zenon, <1>1, <1>2, <2>1, CopiesStable
  <2>3. \A b \in BucketName :
          /\ buckets'[b] # None => BucketCopy(b, buckets[b])'
          /\ bucketCache'[b] # None => BucketCopy(b, bucketCache[b])'
          /\ sidecarCache'[b] # None => BucketCopy(b, sidecarCache[b])'
    BY Zenon, <1>0, <1>1, <1>2, CopiesStable, TypeParts DEF Copies
  <2> QED BY Zenon, <2>2, <2>3 DEF Copies
<1>5. ClaimWorkerOK(cw)' /\ BucketWorkerOK(sw)'
  BY Zenon, <1>0, <1>1, <1>2, WorkersStable, TypeParts
<1>6. CacheCoherence'
  BY Zenon, <1>0, <1>3 DEF CacheCoherence
<1>7. ClaimCoherence'
  <2>1. "controllerWorker" \in freshClaim'[cw.name] /\ cw.pc # "idle" =>
           "controllerWorker" \in freshClaim[cw.name]
    BY SMTT(60), <1>3 DEF ClaimWorkerOK
  <2> QED BY Zenon, <1>0, <2>1 DEF ClaimCoherence, SameClaim, SetClaimStatus
<1>8. BoundCoherence' /\ BucketCoherence'
  <2>1. BoundCoherence'
    BY Zenon, <1>0 DEF BoundCoherence, determineBucketName, isStaticProvisioning
  <2>2. BucketCoherence'
    BY Zenon, <1>0 DEF BucketCoherence, SameBucket, SetBucketStatus
  <2> QED BY Zenon, <2>1, <2>2
<1>9. ClaimsAttended'
  BY Zenon, <1>0, <1>3 DEF ClaimsAttended, ClaimSettled
<1>10. BucketsAttended'
  BY Zenon, <1>0 DEF BucketsAttended, BucketSettled, driverNameMatches
<1> QED BY Zenon, InvariantParts, <1>1, <1>4, <1>5, <1>6, <1>7, <1>8, <1>9, <1>10

\* The Bucket informers.
LEMMA BucketSyncStep ==
    ASSUME IInv, NEW b \in BucketName, ControllerBucketSync(b) \/ SidecarBucketSync(b)
    PROVE  IInv'
<1> /\ TypeOK /\ Copies /\ ClaimWorkerOK(cw) /\ BucketWorkerOK(sw)
    /\ CacheCoherence /\ ClaimCoherence /\ BoundCoherence /\ BucketCoherence
    /\ ClaimsAttended /\ BucketsAttended
  BY Zenon, InvariantParts
<1>0. /\ claims' = claims /\ buckets' = buckets /\ freshClaim' = freshClaim
      /\ claimEvents' = claimEvents /\ claimQueue' = claimQueue
      /\ claimCache' = claimCache
      /\ cw' = cw /\ sw' = sw /\ backend' = backend /\ issued' = issued /\ created' = created
      /\ classes' = classes /\ faults' = faults /\ restarts' = restarts /\ edits' = edits
  BY Zenon DEF ControllerBucketSync, SidecarBucketSync, storedClaims, bucketWorkerVars,
     claimWorkerVars, envVars
<1>1. \/ /\ bucketCache' = [bucketCache EXCEPT ![b] = buckets[b]]
         /\ sidecarCache' = sidecarCache
         /\ freshBucket' = [freshBucket EXCEPT ![b] = @ \cup {"controllerCache"}]
         /\ bucketQueue' = bucketQueue
         /\ bucketEvents' = bucketEvents
      \/ /\ sidecarCache' = [sidecarCache EXCEPT ![b] = buckets[b]]
         /\ bucketCache' = bucketCache
         /\ freshBucket' = [freshBucket EXCEPT ![b] = @ \cup {"sidecarCache"}]
         /\ bucketQueue' = bucketQueue \cup (bucketEvents \cap {b})
         /\ bucketEvents' = bucketEvents \ {b}
  BY Zenon DEF ControllerBucketSync, SidecarBucketSync, bucketWorkerVars
<1>a. PICK h \in {"controllerCache", "sidecarCache"} :
        /\ freshBucket' = [freshBucket EXCEPT ![b] = @ \cup {h}]
        /\ h = "controllerCache" =>
             /\ bucketCache' = [bucketCache EXCEPT ![b] = buckets[b]]
             /\ sidecarCache' = sidecarCache /\ bucketEvents' = bucketEvents
        /\ h = "sidecarCache" =>
             /\ sidecarCache' = [sidecarCache EXCEPT ![b] = buckets[b]]
             /\ bucketCache' = bucketCache /\ bucketEvents' = bucketEvents \ {b}
  BY Zenon, <1>1
<1>b. /\ freshBucket \in [BucketName -> SUBSET Holder]
      /\ freshBucket'[b] = freshBucket[b] \cup {h}
      /\ \A k \in BucketName : k # b => freshBucket'[k] = freshBucket[k]
  BY Zenon, <1>a, TypeParts
<1>2. TypeOK'
  <2>1. /\ bucketCache' \in [BucketName -> BucketObject \cup {None}]
        /\ sidecarCache' \in [BucketName -> BucketObject \cup {None}]
    BY Zenon, <1>1, TypeParts
  <2>2. freshBucket' \in [BucketName -> SUBSET Holder]
    <3>1. freshBucket[b] \cup {h} \in SUBSET Holder
      BY Zenon, <1>b DEF Holder
    <3> QED BY Zenon, <1>a, <1>b, <3>1
  <2>3. bucketQueue' \subseteq BucketName /\ bucketEvents' \subseteq BucketName
    BY Zenon, <1>1, TypeParts
  <2> QED BY Zenon, <1>0, <2>1, <2>2, <2>3, TypeParts
<1>3. Monotone
  BY ZenonT(120), <1>0, CreatedStays DEF Monotone
<1>4. \A k \in BucketName :
        /\ bucketCache'[k] = bucketCache[k] \/ bucketCache'[k] = buckets[k]
        /\ sidecarCache'[k] = sidecarCache[k] \/ sidecarCache'[k] = buckets[k]
        /\ "controllerCache" \in freshBucket'[k] =>
             bucketCache'[k] = buckets[k]
             \/ ("controllerCache" \in freshBucket[k] /\ bucketCache'[k] = bucketCache[k])
        /\ "sidecarCache" \in freshBucket'[k] =>
             sidecarCache'[k] = buckets[k]
             \/ ("sidecarCache" \in freshBucket[k] /\ sidecarCache'[k] = sidecarCache[k])
        /\ "controllerWorker" \in freshBucket'[k] => "controllerWorker" \in freshBucket[k]
        /\ "sidecarWorker" \in freshBucket'[k] => "sidecarWorker" \in freshBucket[k]
  <2> SUFFICES ASSUME NEW k \in BucketName
               PROVE  /\ bucketCache'[k] = bucketCache[k] \/ bucketCache'[k] = buckets[k]
                      /\ sidecarCache'[k] = sidecarCache[k] \/ sidecarCache'[k] = buckets[k]
                      /\ "controllerCache" \in freshBucket'[k] =>
                           bucketCache'[k] = buckets[k]
                           \/ ("controllerCache" \in freshBucket[k] /\ bucketCache'[k] = bucketCache[k])
                      /\ "sidecarCache" \in freshBucket'[k] =>
                           sidecarCache'[k] = buckets[k]
                           \/ ("sidecarCache" \in freshBucket[k] /\ sidecarCache'[k] = sidecarCache[k])
                      /\ "controllerWorker" \in freshBucket'[k] => "controllerWorker" \in freshBucket[k]
                      /\ "sidecarWorker" \in freshBucket'[k] => "sidecarWorker" \in freshBucket[k]
    BY Zenon
  <2>0. /\ bucketCache \in [BucketName -> BucketObject \cup {None}]
        /\ sidecarCache \in [BucketName -> BucketObject \cup {None}]
        /\ freshBucket \in [BucketName -> SUBSET Holder]
    BY Zenon, TypeParts
  <2>1. CASE k # b
    BY Zenon, <1>1, <1>b, <2>0, <2>1
  <2>2. CASE k = b
    <3>1. h = "controllerCache" => bucketCache'[k] = buckets[k] /\ sidecarCache' = sidecarCache
      BY Zenon, <1>a, <2>0, <2>2
    <3>2. h = "sidecarCache" => sidecarCache'[k] = buckets[k] /\ bucketCache' = bucketCache
      BY Zenon, <1>a, <2>0, <2>2
    <3> QED BY Zenon, <1>b, <2>2, <3>1, <3>2
  <2> QED BY Zenon, <2>1, <2>2
<1>5. Copies'
  <2>1. \A k \in BucketName :
          /\ buckets'[k] # None => BucketCopy(k, buckets'[k]) /\ buckets'[k] \in BucketObject
          /\ bucketCache'[k] # None =>
               BucketCopy(k, bucketCache'[k]) /\ bucketCache'[k] \in BucketObject
          /\ sidecarCache'[k] # None =>
               BucketCopy(k, sidecarCache'[k]) /\ sidecarCache'[k] \in BucketObject
    BY Zenon, <1>0, <1>4, TypeParts DEF Copies
  <2>2. \A k \in BucketName :
          /\ buckets'[k] # None => BucketCopy(k, buckets[k])'
          /\ bucketCache'[k] # None => BucketCopy(k, bucketCache[k])'
          /\ sidecarCache'[k] # None => BucketCopy(k, sidecarCache[k])'
    BY Zenon, <1>2, <1>3, <2>1, CopiesStable
  <2>3. \A c \in ClaimName :
          /\ claims'[c] # None => ClaimCopy(c, claims[c])'
          /\ claimCache'[c] # None => ClaimCopy(c, claimCache[c])'
    BY Zenon, <1>0, <1>2, <1>3, CopiesStable, TypeParts DEF Copies
  <2> QED BY Zenon, <2>2, <2>3 DEF Copies
<1>6. ClaimWorkerOK(cw)' /\ BucketWorkerOK(sw)'
  BY Zenon, <1>0, <1>2, <1>3, WorkersStable, TypeParts
<1>7. CacheCoherence'
  BY Zenon, <1>0, <1>4 DEF CacheCoherence
<1>8. ClaimCoherence'
  BY Zenon, <1>0 DEF ClaimCoherence, SameClaim, SetClaimStatus
<1>9. BoundCoherence'
  <2>1. cw.pc \in {"bindBucket", "annotate"} => determineBucketName(cw.claim) \in BucketName
    BY Zenon, NameType DEF ClaimWorkerOK
  <2> QED BY Zenon, <1>0, <1>4, <2>1 DEF BoundCoherence, determineBucketName, isStaticProvisioning
<1>10. BucketCoherence'
  <2>1. sw.pc # "idle" => sw.name \in BucketName
    BY Zenon DEF BucketWorkerOK
  <2> QED BY Zenon, <1>0, <1>4, <2>1 DEF BucketCoherence, SameBucket, SetBucketStatus
<1>11. ClaimsAttended'
  BY Zenon, <1>0 DEF ClaimsAttended, ClaimSettled
<1>12. BucketsAttended'
  <2>1. \A k \in BucketName : k \in bucketEvents' => "sidecarCache" \notin freshBucket'[k]
    BY Zenon, <1>a, <1>b DEF BucketsAttended
  <2>2. \A k \in BucketName : sidecarCache'[k] = buckets[k] \/ (k \in bucketEvents => k \in bucketEvents')
    BY Zenon, <1>1, TypeParts
  <2>3. \A k \in BucketName : k \in bucketEvents \cup bucketQueue =>
                                k \in bucketEvents' \cup bucketQueue'
    BY Zenon, <1>1
  <2>4. \A k \in BucketName : buckets[k] # None /\ driverNameMatches(buckets[k]) =>
             /\ sidecarCache'[k] = None => k \in bucketEvents'
             /\ sidecarCache'[k] # None => driverNameMatches(sidecarCache'[k])
             /\ \/ k \in bucketEvents' \cup bucketQueue'
                \/ sw.name = k
                \/ BucketSettled(buckets[k])
    BY Zenon, <1>4, <2>2, <2>3 DEF BucketsAttended
  <2> QED BY ZenonT(120), <1>0, <2>1, <2>4 DEF BucketsAttended, BucketSettled, driverNameMatches
<1> QED BY Zenon, InvariantParts, <1>2, <1>5, <1>6, <1>7, <1>8, <1>9, <1>10, <1>11, <1>12

\* A restart forgets the worker and loses no work: what is listed is enqueued.
LEMMA RestartStep ==
    ASSUME IInv, ControllerRestart \/ SidecarRestart
    PROVE  IInv'
<1> /\ TypeOK /\ Copies /\ ClaimWorkerOK(cw) /\ BucketWorkerOK(sw)
    /\ CacheCoherence /\ ClaimCoherence /\ BoundCoherence /\ BucketCoherence
    /\ ClaimsAttended /\ BucketsAttended
  BY Zenon, InvariantParts
<1>0. /\ claims' = claims /\ buckets' = buckets /\ classes' = classes
      /\ backend' = backend /\ issued' = issued /\ created' = created
      /\ faults' = faults /\ edits' = edits /\ restarts' \in 0 .. MaxRestarts
  BY SMTT(60), ProvisioningAssumption, TypeParts DEF ControllerRestart, SidecarRestart, storedClaims
<1>1. Monotone
  BY Zenon, <1>0, CreatedStays DEF Monotone
<1>2. CASE ControllerRestart
  <2>0. /\ cw' = ClaimIdle /\ claimCache' = claims /\ bucketCache' = buckets
        /\ claimQueue' = {c \in ClaimName : claims[c] # None} /\ claimEvents' = {}
        /\ sidecarCache' = sidecarCache /\ sw' = sw /\ bucketQueue' = bucketQueue
        /\ bucketEvents' = bucketEvents
    BY Zenon, <1>2 DEF ControllerRestart, bucketWorkerVars
  <2>1. /\ freshClaim' \in [ClaimName -> SUBSET Holder]
        /\ freshBucket' \in [BucketName -> SUBSET Holder]
        /\ \A b \in BucketName :
             /\ "sidecarCache" \in freshBucket'[b] <=> "sidecarCache" \in freshBucket[b]
             /\ "sidecarWorker" \in freshBucket'[b] => "sidecarWorker" \in freshBucket[b]
    BY Zenon, <1>2, TypeParts DEF ControllerRestart, Relisted, Holder
  <2>2. TypeOK'
    <3>1. ClaimIdle \in ClaimWorker
      BY Zenon, IdleOK
    <3> QED BY Zenon, <1>0, <2>0, <2>1, <3>1, TypeParts
  <2>3. Copies'
    <3>1. \A c \in ClaimName :
            /\ claims'[c] # None => ClaimCopy(c, claims[c])'
            /\ claimCache'[c] # None => ClaimCopy(c, claimCache[c])'
      BY Zenon, <1>0, <1>1, <2>0, <2>2, CopiesStable, TypeParts DEF Copies
    <3>2. \A b \in BucketName :
            /\ buckets'[b] # None => BucketCopy(b, buckets[b])'
            /\ bucketCache'[b] # None => BucketCopy(b, bucketCache[b])'
            /\ sidecarCache'[b] # None => BucketCopy(b, sidecarCache[b])'
      BY Zenon, <1>0, <1>1, <2>0, <2>2, CopiesStable, TypeParts DEF Copies
    <3> QED BY Zenon, <3>1, <3>2 DEF Copies
  <2>4. ClaimWorkerOK(cw)' /\ BucketWorkerOK(sw)'
    BY Zenon, <1>1, <2>0, <2>2, IdleOK, WorkersStable, TypeParts
  <2>5. CacheCoherence'
    BY Zenon, <1>0, <2>0, <2>1 DEF CacheCoherence
  <2>6. ClaimCoherence' /\ BoundCoherence'
    BY Zenon, <2>0, IdleOK DEF ClaimCoherence, BoundCoherence
  <2>7. BucketCoherence'
    <3>1. sw.pc # "idle" => sw.name \in BucketName
      BY Zenon DEF BucketWorkerOK
    <3> QED BY Zenon, <1>0, <2>0, <2>1, <3>1 DEF BucketCoherence, SameBucket, SetBucketStatus
  <2>8. ClaimsAttended'
    BY Zenon, <1>0, <2>0 DEF ClaimsAttended
  <2>9. BucketsAttended'
    BY Zenon, <1>0, <2>0, <2>1 DEF BucketsAttended, BucketSettled, driverNameMatches
  <2> QED BY Zenon, InvariantParts, <2>2, <2>3, <2>4, <2>5, <2>6, <2>7, <2>8, <2>9
<1>3. CASE SidecarRestart
  <2>0. /\ sw' = BucketIdle /\ sidecarCache' = buckets
        /\ bucketQueue' = {b \in BucketName : buckets[b] # None
                                                /\ driverNameMatches(buckets[b])}
        /\ bucketEvents' = {} /\ freshClaim' = freshClaim /\ claimEvents' = claimEvents
        /\ claimCache' = claimCache /\ bucketCache' = bucketCache
        /\ cw' = cw /\ claimQueue' = claimQueue
    BY Zenon, <1>3 DEF SidecarRestart, claimWorkerVars, storedClaims
  <2>1. /\ freshBucket' \in [BucketName -> SUBSET Holder]
        /\ \A b \in BucketName :
             /\ "controllerCache" \in freshBucket'[b] => "controllerCache" \in freshBucket[b]
             /\ "controllerWorker" \in freshBucket'[b] => "controllerWorker" \in freshBucket[b]
    BY Zenon, <1>3, TypeParts DEF SidecarRestart, Relisted, Holder
  <2>2. TypeOK'
    <3>1. BucketIdle \in BucketWorker
      BY Zenon, IdleOK
    <3> QED BY Zenon, <1>0, <2>0, <2>1, <3>1, TypeParts
  <2>3. Copies'
    <3>1. \A c \in ClaimName :
            /\ claims'[c] # None => ClaimCopy(c, claims[c])'
            /\ claimCache'[c] # None => ClaimCopy(c, claimCache[c])'
      BY Zenon, <1>0, <1>1, <2>0, <2>2, CopiesStable, TypeParts DEF Copies
    <3>2. \A b \in BucketName :
            /\ buckets'[b] # None => BucketCopy(b, buckets[b])'
            /\ bucketCache'[b] # None => BucketCopy(b, bucketCache[b])'
            /\ sidecarCache'[b] # None => BucketCopy(b, sidecarCache[b])'
      BY Zenon, <1>0, <1>1, <2>0, <2>2, CopiesStable, TypeParts DEF Copies
    <3> QED BY Zenon, <3>1, <3>2 DEF Copies
  <2>4. ClaimWorkerOK(cw)' /\ BucketWorkerOK(sw)'
    BY Zenon, <1>1, <2>0, <2>2, IdleOK, WorkersStable, TypeParts
  <2>5. CacheCoherence'
    BY Zenon, <1>0, <2>0, <2>1 DEF CacheCoherence
  <2>6. ClaimCoherence'
    BY Zenon, <1>0, <2>0 DEF ClaimCoherence, SameClaim, SetClaimStatus
  <2>7. BoundCoherence'
    <3>1. cw.pc \in {"bindBucket", "annotate"} => determineBucketName(cw.claim) \in BucketName
      BY Zenon, NameType DEF ClaimWorkerOK
    <3> QED BY Zenon, <1>0, <2>0, <2>1, <3>1 DEF BoundCoherence, determineBucketName,
          isStaticProvisioning
  <2>8. BucketCoherence'
    BY Zenon, <2>0, IdleOK DEF BucketCoherence
  <2>9. ClaimsAttended'
    BY Zenon, <1>0, <2>0 DEF ClaimsAttended, ClaimSettled
  <2>10. BucketsAttended'
    BY Zenon, <1>0, <2>0 DEF BucketsAttended, driverNameMatches
  <2> QED BY Zenon, InvariantParts, <2>2, <2>3, <2>4, <2>5, <2>6, <2>7, <2>8, <2>9, <2>10
<1> QED BY Zenon, <1>2, <1>3

\* A change of a claim by somebody else; every such change is an event that
\* enqueues.
LEMMA EditClaimStep ==
    ASSUME IInv, TypeOK', Monotone, NEW c \in ClaimName, NEW new, EditClaim(c, new),
           UNCHANGED <<cacheVars, claimWorkerVars, bucketWorkerVars>>,
           new # None => ClaimCopy(c, new)' /\ ClaimEventEnqueues(claims[c], new)
    PROVE  IInv'
<1> /\ TypeOK /\ Copies /\ ClaimWorkerOK(cw) /\ BucketWorkerOK(sw)
    /\ CacheCoherence /\ ClaimCoherence /\ BoundCoherence /\ BucketCoherence
    /\ ClaimsAttended /\ BucketsAttended
  BY Zenon, InvariantParts
<1>0. /\ claims' = [claims EXCEPT ![c] = new]
      /\ claimEvents' = IF ClaimEventEnqueues(claims[c], new)
                        THEN claimEvents \cup {c} ELSE claimEvents
      /\ freshClaim' = [freshClaim EXCEPT ![c] = {}]
      /\ buckets' = buckets /\ freshBucket' = freshBucket /\ bucketEvents' = bucketEvents
      /\ claimCache' = claimCache /\ bucketCache' = bucketCache /\ sidecarCache' = sidecarCache
      /\ claimQueue' = claimQueue /\ cw' = cw /\ bucketQueue' = bucketQueue /\ sw' = sw
  BY Zenon DEF EditClaim, StoreClaim, storedBuckets, cacheVars, claimWorkerVars, bucketWorkerVars
<1>1. /\ claims'[c] = new /\ freshClaim'[c] = {}
      /\ \A k \in ClaimName \ {c} : claims'[k] = claims[k] /\ freshClaim'[k] = freshClaim[k]
  BY Zenon, <1>0, TypeParts
<1>2. Copies'
  <2>1. \A k \in ClaimName \ {c} : claims'[k] # None => ClaimCopy(k, claims[k])'
    BY Zenon, <1>1, CopiesStable, TypeParts DEF Copies
  <2>2. claims'[c] # None => ClaimCopy(c, claims[c])'
    BY Zenon, <1>1
  <2>3. \A k \in ClaimName : claimCache'[k] # None => ClaimCopy(k, claimCache[k])'
    BY Zenon, <1>0, CopiesStable, TypeParts DEF Copies
  <2>4. \A b \in BucketName :
          /\ buckets'[b] # None => BucketCopy(b, buckets[b])'
          /\ bucketCache'[b] # None => BucketCopy(b, bucketCache[b])'
          /\ sidecarCache'[b] # None => BucketCopy(b, sidecarCache[b])'
    BY Zenon, <1>0, CopiesStable, TypeParts DEF Copies
  <2> QED BY Zenon, <2>1, <2>2, <2>3, <2>4 DEF Copies
<1>3. ClaimWorkerOK(cw)' /\ BucketWorkerOK(sw)'
  BY Zenon, <1>0, WorkersStable, TypeParts
<1>4. CacheCoherence'
  BY Zenon, <1>0, <1>1 DEF CacheCoherence
<1>5. ClaimCoherence'
  <2>1. SUFFICES ASSUME cw.pc # "idle", "controllerWorker" \in freshClaim'[cw.name]
                 PROVE  claims'[cw.name] = claims[cw.name]
                        /\ "controllerWorker" \in freshClaim[cw.name]
    BY Zenon, <1>0 DEF ClaimCoherence, SameClaim, SetClaimStatus
  <2>2. cw.name \in ClaimName
    BY Zenon, <2>1 DEF ClaimWorkerOK
  <2> QED BY Zenon, <1>1, <2>1, <2>2
<1>6. BoundCoherence' /\ BucketCoherence'
  <2>1. BoundCoherence'
    BY Zenon, <1>0 DEF BoundCoherence, determineBucketName, isStaticProvisioning
  <2>2. BucketCoherence'
    BY Zenon, <1>0 DEF BucketCoherence, SameBucket, SetBucketStatus
  <2> QED BY Zenon, <2>1, <2>2
<1>7. ClaimsAttended'
  <2>1. \A k \in ClaimName : k \in claimEvents' => "controllerCache" \notin freshClaim'[k]
    BY Zenon, <1>0, <1>1 DEF ClaimsAttended
  <2>2. \A k \in ClaimName :
          /\ claims'[k] # None /\ claimCache'[k] = None => k \in claimEvents'
          /\ \/ claims'[k] = None
             \/ k \in claimEvents' \cup claimQueue'
             \/ cw'.name = k
             \/ ClaimSettled(claims'[k])
    BY Zenon, <1>0, <1>1 DEF ClaimsAttended
  <2> QED BY Zenon, <2>1, <2>2 DEF ClaimsAttended, ClaimSettled
<1>8. BucketsAttended'
  BY Zenon, <1>0 DEF BucketsAttended, BucketSettled, driverNameMatches
<1> QED BY Zenon, InvariantParts, <1>2, <1>3, <1>4, <1>5, <1>6, <1>7, <1>8

\* A claim is submitted under a new UID.
LEMMA UserCreateClaimStep ==
    ASSUME IInv, NEW c \in ClaimName, UserCreateClaim(c)
    PROVE  IInv'
<1>0. /\ claims[c] = None /\ TypeOK /\ unchangedByUser
      /\ UNCHANGED <<classes, backend, created, edits>>
  BY Zenon, InvariantParts DEF UserCreateClaim
<1>a. PICK u \in Uid, sub \in Submissions(c) :
        /\ issued[u] = None
        /\ issued' = [issued EXCEPT ![u] = sub]
        /\ EditClaim(c, NewClaim(u, sub))
  BY Zenon DEF UserCreateClaim
<1>b. PICK new : new = NewClaim(u, sub)
  BY Zenon
<1>1. /\ issued[u] = None
      /\ issued' = [issued EXCEPT ![u] = sub]
      /\ new = NewClaim(u, sub)
      /\ EditClaim(c, new)
  BY Zenon, <1>a, <1>b
<1>2. sub \in Submission /\ sub.name = c
  BY Zenon DEF Submissions
<1>3. new \in ClaimObject /\ new # None
  <2>1. new \in ClaimObject
    BY Zenon, <1>1, <1>2, ObjectType
  <2> QED BY Zenon, <2>1, ResourceAssumption
<1>4. TypeOK'
  BY Zenon, <1>0, <1>1, <1>2, <1>3, TypeParts DEF EditClaim, StoreClaim, unchangedByUser,
     storedBuckets, cacheVars, claimWorkerVars, bucketWorkerVars
<1>5. Monotone
  <2>1. \A v \in Uid : issued[v] # None => issued'[v] = issued[v]
    BY Zenon, <1>0, <1>1, TypeParts
  <2>2. buckets' = buckets
    BY Zenon, <1>1 DEF EditClaim, storedBuckets
  <2>3. \A b \in BucketName : created'[b] >= created[b]
    BY Zenon, <1>0, CreatedStays
  <2> QED BY Zenon, <1>0, <2>1, <2>2, <2>3 DEF Monotone
<1>6. ClaimCopy(c, new)'
  <2>1. issued'[new.uid] = sub /\ new.boundBucketName = None /\ new.readyToUse = "nil"
    BY Zenon, <1>0, <1>1, TypeParts DEF NewClaim
  <2>2. sub = [name |-> c, bucketClassName |-> new.bucketClassName,
               existingBucketName |-> new.existingBucketName, protocols |-> new.protocols]
    BY Zenon, <1>1, <1>2 DEF NewClaim, Submission
  <2> QED BY Zenon, <2>1, <2>2 DEF ClaimCopy
<1>7. ClaimEventEnqueues(claims[c], new)
  BY Zenon, <1>0, <1>3 DEF ClaimEventEnqueues
<1>8. UNCHANGED <<cacheVars, claimWorkerVars, bucketWorkerVars>>
  BY Zenon, <1>0 DEF unchangedByUser
<1>9. EditClaim(c, new)
  BY Zenon, <1>1
<1> QED BY Zenon, <1>4, <1>5, <1>6, <1>7, <1>8, <1>9, EditClaimStep

\* A claim is deleted by its user, or loses its finalizer to somebody.
LEMMA ClaimEditedStep ==
    ASSUME IInv, NEW c \in ClaimName, UserDeleteClaim(c) \/ StripClaim(c)
    PROVE  IInv'
<1>0. /\ claims[c] # None /\ ~claims[c].deleting /\ TypeOK /\ unchangedByUser
      /\ UNCHANGED <<classes, backend, issued, created>>
      /\ edits' \in 0 .. MaxEdits
  BY SMTT(60), ProvisioningAssumption, InvariantParts, TypeParts DEF UserDeleteClaim, StripClaim
<1>1. PICK new :
        /\ EditClaim(c, new)
        /\ \/ new = Deleted(claims[c])
           \/ claims[c].finalizer /\ new = [claims[c] EXCEPT !.finalizer = FALSE]
  BY Zenon DEF UserDeleteClaim, StripClaim
<1>2. claims[c] \in ClaimObject /\ ClaimCopy(c, claims[c])
  BY Zenon, <1>0, TypeParts, InvariantParts DEF Copies
<1>3. ASSUME new # None
      PROVE  /\ new \in ClaimObject
             /\ new = [claims[c] EXCEPT !.deleting = TRUE]
                \/ (claims[c].finalizer /\ new = [claims[c] EXCEPT !.finalizer = FALSE])
  BY Zenon, <1>1, <1>2, <1>3 DEF Deleted, Persisted, ClaimObject
<1>4. TypeOK'
  BY Zenon, <1>0, <1>1, <1>3, TypeParts DEF EditClaim, StoreClaim, unchangedByUser,
     storedBuckets, cacheVars, claimWorkerVars, bucketWorkerVars
<1>5. Monotone
  BY Zenon, <1>0, <1>1, CreatedStays DEF Monotone, EditClaim, storedBuckets
<1>6. ASSUME new # None
      PROVE  ClaimCopy(c, new)' /\ ClaimEventEnqueues(claims[c], new)
  <2>1. /\ new.uid = claims[c].uid /\ new.bucketClassName = claims[c].bucketClassName
        /\ new.existingBucketName = claims[c].existingBucketName
        /\ new.protocols = claims[c].protocols
        /\ new.boundBucketName = claims[c].boundBucketName
        /\ new.readyToUse = claims[c].readyToUse
        /\ new.statusProtocols = claims[c].statusProtocols
    BY Zenon, <1>2, <1>3, <1>6 DEF ClaimObject
  <2>2. ClaimCopy(c, new)
    BY Zenon, <1>2, <2>1 DEF ClaimCopy, determineBucketName, isStaticProvisioning
  <2>3. issued' = issued /\ created' = created /\ backend' = backend /\ buckets' = buckets
    BY Zenon, <1>0, <1>1 DEF EditClaim, storedBuckets
  <2>4. ClaimCopy(c, new)'
    BY Zenon, <2>2, <2>3 DEF ClaimCopy, determineBucketName, isStaticProvisioning
  <2>5. ClaimEventEnqueues(claims[c], new)
    <3>1. CASE new = [claims[c] EXCEPT !.deleting = TRUE]
      <4>1. new.deleting
        BY Zenon, <1>2, <3>1 DEF ClaimObject
      <4> QED BY Zenon, <1>0, <1>6, <4>1 DEF ClaimEventEnqueues, ClaimGenerationChanged
    <3>2. CASE claims[c].finalizer /\ new = [claims[c] EXCEPT !.finalizer = FALSE]
      <4>1. ~new.finalizer /\ new.deleting = claims[c].deleting
        BY Zenon, <1>2, <3>2 DEF ClaimObject
      <4> QED BY Zenon, <1>0, <1>6, <3>2, <4>1 DEF ClaimEventEnqueues, ProtectionFinalizerRemoved
    <3> QED BY Zenon, <1>3, <1>6, <3>1, <3>2
  <2> QED BY Zenon, <2>4, <2>5
<1>7. UNCHANGED <<cacheVars, claimWorkerVars, bucketWorkerVars>>
  BY Zenon, <1>0 DEF unchangedByUser
<1>8. EditClaim(c, new)
  BY Zenon, <1>1
<1> QED BY Zenon, <1>4, <1>5, <1>6, <1>7, <1>8, EditClaimStep

\* The admin edits a Bucket, or deletes it.
LEMMA BucketEditedStep ==
    ASSUME IInv, NEW b \in BucketName,
           AdminDeleteBucket(b) \/ AdminSetPolicy(b) \/ StripBucket(b)
    PROVE  IInv'
<1>0. /\ buckets[b] # None /\ TypeOK /\ unchangedByUser
      /\ UNCHANGED <<classes, backend, issued, created>>
      /\ edits' \in 0 .. MaxEdits
  BY SMTT(60), ProvisioningAssumption, InvariantParts, TypeParts DEF AdminDeleteBucket, AdminSetPolicy,
     StripBucket
<1>1. PICK new :
        /\ EditBucket(b, new)
        /\ \/ ~buckets[b].deleting /\ new = Deleted(buckets[b])
           \/ \E policy \in Policy \ {buckets[b].deletionPolicy} :
                new = [buckets[b] EXCEPT !.deletionPolicy = policy]
           \/ /\ buckets[b].finalizer /\ ~buckets[b].deleting
              /\ new = [buckets[b] EXCEPT !.finalizer = FALSE]
  BY Zenon DEF AdminDeleteBucket, AdminSetPolicy, StripBucket
<1>2. buckets[b] \in BucketObject
  BY Zenon, <1>0, TypeParts
<1>3. ASSUME new # None
      PROVE  /\ new \in BucketObject
             /\ Keeps(new, buckets[b])
             /\ \/ ~buckets[b].deleting /\ new.deleting
                \/ new.deletionPolicy # buckets[b].deletionPolicy
                \/ buckets[b].finalizer /\ ~new.finalizer /\ ~new.deleting
  BY ZenonT(40), <1>1, <1>2, <1>3 DEF Deleted, Persisted, BucketObject, Keeps
<1>4. ASSUME new # None
      PROVE  BucketEventEnqueues(buckets[b], new) \/ ~driverNameMatches(new)
  BY Zenon, <1>0, <1>3, <1>4 DEF BucketEventEnqueues, BucketGenerationChanged,
     ProtectionFinalizerRemoved
<1>5. TypeOK'
  BY Zenon, <1>0, <1>1, <1>3, TypeParts DEF EditBucket, StoreBucket, unchangedByUser,
     storedClaims, cacheVars, claimWorkerVars, bucketWorkerVars
<1>6. StoreBucket(b, new) /\ freshBucket' = [freshBucket EXCEPT ![b] = {}]
  BY Zenon, <1>1 DEF EditBucket
<1>7. /\ freshBucket'[b] = {}
      /\ \A k \in BucketName \ {b} : freshBucket'[k] \subseteq freshBucket[k]
  BY Zenon, <1>0, <1>6, TypeParts
<1>8. /\ UNCHANGED <<storedClaims, cacheVars, claimQueue, bucketWorkerVars, backend, issued,
                     created>>
      /\ cw' = cw
  BY Zenon, <1>0, <1>1 DEF EditBucket, unchangedByUser, claimWorkerVars
<1> QED BY Zenon, <1>0, <1>3, <1>4, <1>5, <1>6, <1>7, <1>8, KeptStoreStep

\* The admin creates a Bucket for static provisioning.
LEMMA AdminCreateBucketStep ==
    ASSUME IInv, NEW s \in StaticName, AdminCreateBucket(s)
    PROVE  IInv'
<1>0. /\ buckets[s] = None /\ created[s] = 0 /\ TypeOK /\ unchangedByUser
      /\ created' = [created EXCEPT ![s] = 1]
      /\ UNCHANGED <<classes, backend, issued, edits>>
  BY Zenon, InvariantParts DEF AdminCreateBucket
<1>1. s \in BucketName
  BY Zenon DEF BucketName
<1>a. PICK driver \in Driver, policy \in Policy, protos \in Requested, c \in ClaimName,
           u \in Uid \cup {NoUid} :
        EditBucket(s, NewStaticBucket(driver, policy, protos, c, u))
  <2>1. \A c \in ClaimName : claims[c] # None => claims[c].uid \in Uid
    BY Zenon, <1>0, TypeParts DEF ClaimObject
  <2> QED BY Zenon, <2>1 DEF AdminCreateBucket
<1>b. PICK new : new = NewStaticBucket(driver, policy, protos, c, u)
  BY Zenon
<1>2. new = NewStaticBucket(driver, policy, protos, c, u) /\ EditBucket(s, new)
  BY Zenon, <1>a, <1>b
<1>3. new \in BucketObject /\ new # None
  <2>1. new \in BucketObject
    BY Zenon, <1>2, ObjectType
  <2> QED BY Zenon, <2>1, ResourceAssumption
<1>4. TypeOK'
  BY Zenon, <1>0, <1>1, <1>2, <1>3, TypeParts DEF EditBucket, StoreBucket, unchangedByUser,
     storedClaims, cacheVars, claimWorkerVars, bucketWorkerVars
<1>5. StoreBucket(s, new) /\ freshBucket' = [freshBucket EXCEPT ![s] = {}]
      /\ storedClaims' = storedClaims
  BY Zenon, <1>2 DEF EditBucket
<1>6. /\ freshBucket'[s] = {} /\ buckets'[s] = new /\ created'[s] = 1
      /\ \A k \in BucketName \ {s} : /\ freshBucket'[k] \subseteq freshBucket[k]
                                     /\ buckets'[k] = buckets[k]
                                     /\ created'[k] = created[k]
  BY Zenon, <1>0, <1>1, <1>5, TypeParts DEF StoreBucket
<1>7. Monotone
  <2>1. PICK f, n : f = created /\ n = created'
    BY Zenon
  <2>2. /\ f \in [BucketName -> Nat] /\ f[s] = 0 /\ n[s] = 1
        /\ \A k \in BucketName \ {s} : n[k] = f[k]
    BY Zenon, <1>0, <1>6, <2>1, TypeParts
  <2>3. ASSUME NEW k \in BucketName PROVE n[k] >= f[k]
    <3>1. PICK i, j : i = f[k] /\ j = n[k]
      BY Zenon
    <3>2. i \in Nat /\ (j = i \/ (i = 0 /\ j = 1))
      BY Zenon, <2>2, <3>1
    <3>3. j >= i
      BY SMTT(60), <3>2
    <3> QED BY Zenon, <3>1, <3>3
  <2> QED BY Zenon, <1>0, <1>6, <2>1, <2>3 DEF Monotone
<1>8. BucketCopy(s, new)'
  <2>1. \A u_1 \in Uid : s # DynamicName(u_1)
    BY SMTT(60), ResourceAssumption
  <2>2. ~new.bucketID /\ new.readyToUse = "nil"
    BY Zenon, <1>2 DEF NewStaticBucket
  <2>3. 1 >= 1
    BY SMTT(60)
  <2> QED BY Zenon, <1>6, <2>1, <2>2, <2>3 DEF BucketCopy
<1>9. ClaimWorkerOK(cw)' /\ cw' = cw
  <2>1. cw' = cw
    BY Zenon, <1>0 DEF unchangedByUser, claimWorkerVars
  <2> QED BY Zenon, <1>4, <1>7, <2>1, WorkersStable, InvariantParts, TypeParts
<1>10. BucketEventEnqueues(buckets[s], new) \/ ~driverNameMatches(new)
  BY Zenon, <1>0, <1>3 DEF BucketEventEnqueues
<1>11. UNCHANGED <<storedClaims, cacheVars, claimQueue, bucketWorkerVars>>
  BY Zenon, <1>0, <1>5 DEF unchangedByUser, claimWorkerVars
<1> QED BY Zenon, <1>0, <1>1, <1>3, <1>4, <1>5, <1>6, <1>7, <1>8, <1>9, <1>10, <1>11, OthersStoreStep

\* A BucketClass or a backend bucket appears.
LEMMA AppearStep ==
    ASSUME IInv,
           \/ \E k \in ClassName : AdminCreateClass(k)
           \/ \E s \in StaticName : BackendAppears(s)
    PROVE  IInv'
<1>0. /\ UNCHANGED <<storedClaims, storedBuckets, issued, created, edits>> /\ unchangedByUser
      /\ TypeOK
  BY Zenon, InvariantParts DEF AdminCreateClass, BackendAppears
<1>1. /\ classes' \subseteq ClassName
      /\ backend' \in [BucketName -> (SUBSET Protocol) \cup {None}]
      /\ \A b \in BucketName : backend[b] # None => backend'[b] = backend[b]
  <2>1. CASE \E k \in ClassName : AdminCreateClass(k)
    BY Zenon, <1>0, <2>1, TypeParts DEF AdminCreateClass
  <2>2. CASE \E s \in StaticName : BackendAppears(s)
    <3>1. PICK s \in StaticName : BackendAppears(s)
      BY Zenon, <2>2
    <3>2. PICK served \in Served : backend' = [backend EXCEPT ![s] = served]
      BY Zenon, <3>1 DEF BackendAppears
    <3>3. served \in SUBSET Protocol /\ backend[s] = None /\ classes' = classes
      BY Zenon, <3>1, ResourceAssumption DEF BackendAppears
    <3> QED BY Zenon, <1>0, <3>2, <3>3, TypeParts
  <2> QED BY Zenon, <2>1, <2>2
<1>2. TypeOK'
  BY Zenon, <1>0, <1>1, TypeParts DEF unchangedByUser, storedClaims, storedBuckets, cacheVars,
     claimWorkerVars, bucketWorkerVars
<1>3. Monotone
  BY Zenon, <1>0, <1>1, CreatedStays DEF Monotone, storedBuckets
<1>4. UNCHANGED <<storedClaims, storedBuckets, cacheVars, claimWorkerVars, bucketWorkerVars>>
  BY Zenon, <1>0 DEF unchangedByUser
<1> QED BY Zenon, <1>2, <1>3, <1>4, QuietStep
-----------------------------------------------------------------------------
(***************************************************************************)
(* The induction.                                                          *)
(***************************************************************************)
\* The counters start within their bounds.
LEMMA ZeroInBounds ==
    0 \in Nat /\ 0 \in 0 .. MaxFaults /\ 0 \in 0 .. MaxRestarts /\ 0 \in 0 .. MaxEdits
BY SMTT(60), ProvisioningAssumption

\* The empty cluster satisfies the invariant.
LEMMA InitIInv ==
    ASSUME Init
    PROVE  IInv
<1> USE DEF Init
<1>1. TypeOK
  <2>1. ClaimIdle \in ClaimWorker /\ BucketIdle \in BucketWorker
    BY Zenon, IdleOK
  <2>2. /\ claims \in [ClaimName -> ClaimObject \cup {None}]
        /\ buckets \in [BucketName -> BucketObject \cup {None}]
        /\ claimCache \in [ClaimName -> ClaimObject \cup {None}]
        /\ bucketCache \in [BucketName -> BucketObject \cup {None}]
        /\ sidecarCache \in [BucketName -> BucketObject \cup {None}]
        /\ backend \in [BucketName -> (SUBSET Protocol) \cup {None}]
        /\ issued \in [Uid -> Submission \cup {None}]
    BY ZenonT(30)
  <2>3. /\ freshClaim \in [ClaimName -> SUBSET Holder]
        /\ freshBucket \in [BucketName -> SUBSET Holder]
    BY ZenonT(30) DEF Holder
  <2>4. /\ created \in [BucketName -> Nat]
        /\ faults \in 0 .. MaxFaults
        /\ restarts \in 0 .. MaxRestarts
        /\ edits \in 0 .. MaxEdits
    BY ZenonT(30), ZeroInBounds
  <2>5. /\ classes \subseteq ClassName
        /\ claimEvents \subseteq ClaimName
        /\ bucketEvents \subseteq BucketName
        /\ claimQueue \subseteq ClaimName
        /\ bucketQueue \subseteq BucketName
    BY ZenonT(30)
  <2> QED BY ZenonT(30), <2>1, <2>2, <2>3, <2>4, <2>5, TypeParts
<1>2. Copies
  BY Zenon DEF Copies
<1>3. ClaimWorkerOK(cw) /\ BucketWorkerOK(sw)
  BY Zenon DEF ClaimWorkerOK, ClaimAt, BucketWorkerOK, BucketAt, ClaimIdle, BucketIdle
<1>4. CacheCoherence
  BY Zenon DEF CacheCoherence
<1>5. ClaimCoherence /\ BoundCoherence /\ BucketCoherence
  BY Zenon DEF ClaimCoherence, BoundCoherence, BucketCoherence, ClaimIdle, BucketIdle
<1>6. ClaimsAttended /\ BucketsAttended
  BY Zenon DEF ClaimsAttended, BucketsAttended
<1> QED BY Zenon, <1>1, <1>2, <1>3, <1>4, <1>5, <1>6, InvariantParts

\* Every step of the system preserves the invariant.
LEMMA NextIInv ==
    ASSUME IInv, [Next]_vars
    PROVE  IInv'
<1>1. CASE Controller
  <2>1. ASSUME NEW c \in ClaimName, ClaimStart(c) PROVE IInv'
    BY Zenon, <2>1, ClaimStartStep
  <2>2. CASE ClaimAddFinalizer
    BY Zenon, <2>2, ClaimAddFinalizerStep
  <2>3. CASE ClaimGetBucket
    BY ZenonT(40), <2>3, ClaimGetBucketStep
  <2>4. CASE ClaimCreateBucket
    BY Zenon, <2>4, ClaimCreateBucketStep
  <2>5. CASE ClaimBindBucket
    BY Zenon, <2>5, ClaimBindBucketStep
  <2>6. CASE ClaimBind
    BY Zenon, <2>6, ClaimBindStep
  <2>7. CASE ClaimSetReady
    BY Zenon, <2>7, ClaimSetReadyStep
  <2>8. CASE ClaimReport
    BY Zenon, <2>8, ClaimReportStep
  <2>9. CASE ClaimClearStatus
    BY Zenon, <2>9, ClaimClearStatusStep
  <2>10. CASE ClaimGetBucketToDelete
    BY Zenon, <2>10, ClaimGetBucketToDeleteStep
  <2>11. CASE ClaimAnnotate
    BY Zenon, <2>11, ClaimAnnotateStep
  <2>12. CASE ClaimDeleteBucket
    BY Zenon, <2>12, ClaimDeleteBucketStep
  <2>13. CASE ClaimRemoveFinalizer
    BY Zenon, <2>13, ClaimRemoveFinalizerStep
  <2> QED BY Zenon, <1>1, <2>1, <2>2, <2>3, <2>4, <2>5, <2>6, <2>7, <2>8, <2>9, <2>10, <2>11, <2>12,
             <2>13 DEF Controller, ClaimStep
<1>2. CASE Sidecar
  <2>1. ASSUME NEW b \in BucketName, BucketStart(b) PROVE IInv'
    BY ZenonT(40), <2>1, BucketStartStep
  <2>2. CASE BucketRemoveFinalizer
    BY Zenon, <2>2, BucketRemoveFinalizerStep
  <2>3. CASE BucketAddFinalizer
    BY Zenon, <2>3, BucketAddFinalizerStep
  <2>4. CASE BucketCreateRpc
    BY Zenon, <2>4, BucketCreateRpcStep
  <2>5. CASE BucketGetRpc
    BY Zenon, <2>5, BucketGetRpcStep
  <2>6. CASE BucketSetStatus
    BY Zenon, <2>6, BucketSetStatusStep
  <2>7. CASE BucketReport
    BY Zenon, <2>7, BucketReportStep
  <2> QED BY Zenon, <1>2, <2>1, <2>2, <2>3, <2>4, <2>5, <2>6, <2>7 DEF Sidecar, BucketStep
<1>3. CASE Runtime
  <2>1. ASSUME NEW c \in ClaimName, ClaimCacheSync(c) PROVE IInv'
    BY Zenon, <2>1, ClaimCacheSyncStep
  <2>2. ASSUME NEW b \in BucketName, ControllerBucketSync(b) \/ SidecarBucketSync(b)
        PROVE  IInv'
    BY Zenon, <2>2, BucketSyncStep
  <2>3. CASE ControllerRestart \/ SidecarRestart
    BY Zenon, <2>3, RestartStep
  <2> QED BY Zenon, <1>3, <2>1, <2>2, <2>3 DEF Runtime
<1>4. CASE Environment
  <2>1. ASSUME NEW c \in ClaimName, UserCreateClaim(c) PROVE IInv'
    BY Zenon, <2>1, UserCreateClaimStep
  <2>2. ASSUME NEW c \in ClaimName, UserDeleteClaim(c) \/ StripClaim(c) PROVE IInv'
    BY Zenon, <2>2, ClaimEditedStep
  <2>3. ASSUME NEW s \in StaticName, AdminCreateBucket(s) PROVE IInv'
    BY Zenon, <2>3, AdminCreateBucketStep
  <2>4. ASSUME NEW b \in BucketName, AdminDeleteBucket(b) \/ AdminSetPolicy(b) \/ StripBucket(b)
        PROVE  IInv'
    BY Zenon, <2>4, BucketEditedStep
  <2>5. CASE \/ \E k \in ClassName : AdminCreateClass(k)
             \/ \E s \in StaticName : BackendAppears(s)
    BY Zenon, <2>5, AppearStep
  <2> QED BY Zenon, <1>4, <2>1, <2>2, <2>3, <2>4, <2>5 DEF Environment
<1>5. CASE UNCHANGED vars
  <2>1. UNCHANGED <<storedClaims, storedBuckets, classes, cacheVars, claimWorkerVars,
                    bucketWorkerVars, backend, issued, created, faults, restarts, edits>>
    BY Zenon, <1>5 DEF vars, envVars
  <2>2. TypeOK'
    BY Zenon, <2>1, InvariantParts, TypeParts DEF storedClaims, storedBuckets, cacheVars,
       claimWorkerVars, bucketWorkerVars
  <2>3. Monotone
    BY Zenon, <2>1, InvariantParts, CreatedStays DEF Monotone, storedBuckets
  <2> QED BY Zenon, <2>1, <2>2, <2>3, QuietStep
<1> QED BY Zenon, <1>1, <1>2, <1>3, <1>4, <1>5 DEF Next

\* The inductive invariant holds in every reachable state.
THEOREM Invariance == Spec => []IInv
<1>1. Init => IInv
  BY Zenon, InitIInv
<1>2. IInv /\ [Next]_vars => IInv'
  BY Zenon, NextIInv
<1> QED BY <1>1, <1>2, PTL DEF Spec
-----------------------------------------------------------------------------
(***************************************************************************)
(* What follows.                                                           *)
(***************************************************************************)
\* The variables have their types, so no reconciler indexes an object that is
\* not there.
THEOREM TypeCorrect == Spec => []TypeOK
BY Invariance, PTL DEF IInv

\* A bound claim and its Bucket point at each other.
THEOREM BindingIsMutual == Spec => []BoundBucketIsMine
<1>1. IInv => BoundBucketIsMine
  <2> SUFFICES ASSUME IInv, NEW c \in ClaimName, claims[c] # None,
                      claims[c].boundBucketName # None,
                      buckets[claims[c].boundBucketName] # None
               PROVE  /\ buckets[claims[c].boundBucketName].refName = c
                      /\ buckets[claims[c].boundBucketName].refUid = claims[c].uid
    BY Zenon DEF BoundBucketIsMine
  <2>1. ClaimCopy(c, claims[c])
    BY Zenon, InvariantParts DEF Copies
  <2> QED BY Zenon, <2>1 DEF ClaimCopy
<1> QED BY <1>1, Invariance, PTL

\* A claim that is ready has what its status promises.
THEOREM ReadyIsSound == Spec => []ReadyClaimSound
<1>1. IInv => ReadyClaimSound
  <2> SUFFICES ASSUME IInv, NEW c \in ClaimName, claims[c] # None,
                      claims[c].readyToUse = "true"
               PROVE  LET b == claims[c].boundBucketName
                      IN  /\ b # None
                          /\ backend[b] = claims[c].statusProtocols
                          /\ backend[b] # {}
                          /\ ~isStaticProvisioning(claims[c]) =>
                               claims[c].protocols \subseteq backend[b]
    BY Zenon DEF ReadyClaimSound
  <2>1. ClaimCopy(c, claims[c])
    BY Zenon, InvariantParts DEF Copies
  <2> QED BY Zenon, <2>1 DEF ClaimCopy
<1> QED BY <1>1, Invariance, PTL

\* Every way out of the claim reconciler leaves the claim settled or due again.
THEOREM NoClaimIsForgotten == Spec => []NoForgottenClaim
<1>1. IInv => NoForgottenClaim
  BY Zenon, InvariantParts DEF ClaimsAttended, ClaimSettled, NoForgottenClaim
<1> QED BY <1>1, Invariance, PTL

\* The same of the Sidecar's Bucket reconciler.
THEOREM NoBucketIsForgotten == Spec => []NoForgottenBucket
<1>1. IInv => NoForgottenBucket
  BY Zenon, InvariantParts DEF BucketsAttended, BucketSettled, NoForgottenBucket,
     driverNameMatches
<1> QED BY <1>1, Invariance, PTL
-----------------------------------------------------------------------------
(***************************************************************************)
(* What a step may do to a Bucket.                                         *)
(***************************************************************************)
\* A stored Bucket that changes keeps its claim UID, and becomes provisioned
\* only under its finalizer and with a backend bucket behind it.
Lawful(b) ==
    buckets'[b] # None /\ buckets'[b] # buckets[b] =>
        /\ buckets[b] # None /\ buckets[b].refUid # NoUid =>
             buckets'[b].refUid = buckets[b].refUid
        /\ buckets'[b].bucketID =>
             \/ buckets[b] # None /\ buckets[b].bucketID
             \/ buckets'[b].finalizer /\ backend[b] # None

\* The Controller's writes of Buckets are lawful.
LEMMA ControllerLawful ==
    ASSUME IInv, NEW k \in BucketName,
           ClaimCreateBucket \/ ClaimBindBucket \/ ClaimAnnotate \/ ClaimDeleteBucket
    PROVE  Lawful(k)
<1>0. TypeOK /\ cw.pc # "idle" /\ cw.claim \in ClaimObject
  BY Zenon, InvariantParts DEF ClaimWorkerOK, ClaimCreateBucket, ClaimBindBucket, ClaimAnnotate,
     ClaimDeleteBucket
<1>1. PICK b : b = determineBucketName(cw.claim)
  BY Zenon
<1>2. b \in BucketName
  BY Zenon, <1>0, <1>1, NameType
<1>3. CASE ClaimCreateBucket
  <2>1. \/ buckets' = buckets
        \/ \E obj : /\ buckets[b] = None /\ ~obj.bucketID
                    /\ buckets' = [buckets EXCEPT ![b] = obj]
    BY Zenon, <1>1, <1>3 DEF ClaimCreateBucket, Ends, StoreBucket, storedBuckets,
       generateIntermediateBucket
  <2> QED BY Zenon, <1>0, <1>2, <2>1, TypeParts DEF Lawful
<1>4. CASE ClaimBindBucket \/ ClaimAnnotate
  <2>0. cw.pc \in {"bindBucket", "annotate"} /\ cw.bucket \in BucketObject
    BY Zenon, <1>4, InvariantParts DEF ClaimBindBucket, ClaimAnnotate, ClaimWorkerOK, ClaimAt
  <2>1. PICK o \in Outcome, obj \in {[cw.bucket EXCEPT !.refUid = cw.claim.uid],
                                    [cw.bucket EXCEPT !.claimDeleting = TRUE]} :
          /\ WriteBucket(o, b, obj, FALSE, "controllerWorker", FALSE)
          /\ \/ cw.pc = "bindBucket" /\ obj = [cw.bucket EXCEPT !.refUid = cw.claim.uid]
             \/ obj = [cw.bucket EXCEPT !.claimDeleting = TRUE]
    BY Zenon, <1>1, <1>4 DEF ClaimBindBucket, ClaimAnnotate
  <2>2. /\ cw.bucket.refUid # NoUid => obj.refUid = cw.bucket.refUid
        /\ obj.bucketID = cw.bucket.bucketID
    <3>1. cw.pc = "bindBucket" => cw.bucket.refUid = NoUid
      BY Zenon, InvariantParts DEF ClaimWorkerOK, ClaimAt
    <3> QED BY Zenon, <2>0, <2>1, <3>1 DEF BucketObject
  <2>3. o \in {"ok", "timedOut"} => buckets[b] = cw.bucket
    BY Zenon, <1>1, <2>0, <2>1, InvariantParts DEF WriteBucket, Ends, BoundCoherence
  <2>4. buckets' = [buckets EXCEPT ![b] = IF o \in {"ok", "timedOut"} THEN Persisted(obj)
                                                                     ELSE buckets[b]]
    BY Zenon, <2>1 DEF WriteBucket, StoreBucket
  <2>5. buckets[b] # None \/ o \notin {"ok", "timedOut"}
    BY Zenon, <2>0, <2>3, ResourceAssumption
  <2> QED BY Zenon, <1>0, <1>2, <2>2, <2>3, <2>4, <2>5, TypeParts DEF Lawful, Persisted
<1>5. CASE ClaimDeleteBucket
  <2>1. \/ buckets' = buckets
        \/ buckets[b] # None /\ buckets' = [buckets EXCEPT ![b] = Deleted(buckets[b])]
    BY ZenonT(120), <1>0, <1>1, <1>2, <1>5, TypeParts DEF ClaimDeleteBucket, Ends, StoreBucket
  <2> QED BY SMTT(60), <1>0, <1>2, <2>1, DeletedOK, TypeParts DEF Lawful
<1> QED BY Zenon, <1>3, <1>4, <1>5

\* The Sidecar's writes of Buckets are lawful: the worker's copy was protected
\* when the status was set in it, and is the stored Bucket if it is current.
LEMMA SidecarLawful ==
    ASSUME IInv, NEW k \in BucketName,
           BucketRemoveFinalizer \/ BucketAddFinalizer \/ BucketSetStatus \/ BucketReport
    PROVE  Lawful(k)
<1>0. TypeOK /\ sw.pc # "idle" /\ sw \in BucketWorker
  BY Zenon, InvariantParts, TypeParts DEF BucketRemoveFinalizer, BucketAddFinalizer,
     BucketSetStatus, BucketReport
<1>1. PICK b : b = sw.name
  BY Zenon
<1>2. /\ b \in BucketName /\ sw.bucket \in BucketObject /\ BucketCopy(b, sw.bucket)
      /\ "sidecarWorker" \in freshBucket[b] =>
           Coherent(sw, buckets[b]) /\ buckets[b] \in BucketObject /\ buckets[b] # None
  <2>1. b \in BucketName /\ sw.bucket \in BucketObject /\ BucketCopy(b, sw.bucket)
    BY Zenon, <1>0, <1>1, InvariantParts DEF BucketWorkerOK
  <2> QED BY Zenon, <1>0, <1>1, <2>1, SidecarHolds, ResourceAssumption
<1>a. PICK obj, touch, done :
        /\ \E o \in Outcome : WriteBucket(o, b, obj, touch, "sidecarWorker", done)
        /\ \/ /\ sw.pc \in {"removeFinalizer", "addFinalizer"}
              /\ \E f \in BOOLEAN : obj = [sw.bucket EXCEPT !.finalizer = f]
           \/ \E local : /\ obj = SetBucketStatus(buckets[b], local)
                         /\ local.bucketID = sw.bucket.bucketID
  <2>1. CASE BucketRemoveFinalizer \/ BucketAddFinalizer
    BY Zenon, <1>1, <2>1 DEF BucketRemoveFinalizer, BucketAddFinalizer
  <2>2. CASE BucketSetStatus
    BY Zenon, <1>1, <2>2 DEF BucketSetStatus
  <2>3. CASE BucketReport
    <3>1. PICK local : local = [sw.bucket EXCEPT !.readyToUse = NotNil(@), !.error = sw.error]
      BY Zenon
    <3>2. local.bucketID = sw.bucket.bucketID
      BY Zenon, <1>2, <3>1 DEF BucketObject
    <3> QED BY Zenon, <1>1, <2>3, <3>1, <3>2 DEF BucketReport
  <2> QED BY Zenon, <2>1, <2>2, <2>3
<1>3. PICK o \in Outcome : WriteBucket(o, b, obj, touch, "sidecarWorker", done)
  BY Zenon, <1>a
<1>4. o \in {"ok", "timedOut"} => "sidecarWorker" \in freshBucket[b]
  BY Zenon, <1>3 DEF WriteBucket, Ends
<1>5. buckets' = [buckets EXCEPT ![b] = IF o \in {"ok", "timedOut"} THEN Persisted(obj)
                                                                   ELSE buckets[b]]
  BY Zenon, <1>3 DEF WriteBucket, StoreBucket
<1>6. ASSUME "sidecarWorker" \in freshBucket[b]
      PROVE  /\ obj.refUid = buckets[b].refUid
             /\ obj.bucketID => buckets[b].bucketID \/ (obj.finalizer /\ backend[b] # None)
  <2>1. CASE sw.pc \in {"removeFinalizer", "addFinalizer"}
             /\ \E f \in BOOLEAN : obj = [sw.bucket EXCEPT !.finalizer = f]
    <3>1. sw.bucket = buckets[b]
      BY Zenon, <1>2, <1>6, <2>1 DEF Coherent
    <3> QED BY Zenon, <1>2, <2>1, <3>1 DEF BucketObject
  <2>2. CASE \E local : /\ obj = SetBucketStatus(buckets[b], local)
                        /\ local.bucketID = sw.bucket.bucketID
    <3>1. /\ obj.refUid = buckets[b].refUid /\ obj.finalizer = buckets[b].finalizer
          /\ obj.bucketID = sw.bucket.bucketID
      BY ZenonT(120), <1>2, <1>6, <2>2 DEF SetBucketStatus, BucketObject
    <3>2. sw.bucket.bucketID => backend[b] # None
      <4>1. sw.bucket.statusProtocols \in SUBSET Protocol
        BY Zenon, <1>2 DEF BucketObject
      <4> QED BY Zenon, <1>2, <4>1, ResourceAssumption DEF BucketCopy
    <3>3. sw.bucket.bucketID => sw.bucket.finalizer \/ buckets[b].bucketID
      BY Zenon, <1>2, <1>6 DEF Coherent
    <3>4. sw.bucket.finalizer = buckets[b].finalizer
      BY Zenon, <1>2, <1>6, SameBucketFields DEF Coherent
    <3> QED BY Zenon, <3>1, <3>2, <3>3, <3>4
  <2> QED BY Zenon, <1>a, <2>1, <2>2
<1> QED BY Zenon, <1>0, <1>2, <1>4, <1>5, <1>6, TypeParts DEF Lawful, Persisted

\* The admin's writes of Buckets are lawful.
LEMMA AdminLawful ==
    ASSUME IInv, NEW k \in BucketName, NEW b \in BucketName,
           \/ b \in StaticName /\ AdminCreateBucket(b)
           \/ AdminDeleteBucket(b) \/ AdminSetPolicy(b) \/ StripBucket(b)
    PROVE  Lawful(k)
<1>0. TypeOK /\ (buckets[b] # None => buckets[b] \in BucketObject)
  BY Zenon, InvariantParts, TypeParts
<1>1. CASE b \in StaticName /\ AdminCreateBucket(b)
  <2>1. buckets[b] = None /\ \E new : /\ ~new.bucketID
                                      /\ buckets' = [buckets EXCEPT ![b] = new]
    BY ZenonT(120), <1>1 DEF AdminCreateBucket, EditBucket, StoreBucket, NewStaticBucket
  <2> QED BY Zenon, <1>0, <2>1, TypeParts DEF Lawful
<1>2. CASE AdminDeleteBucket(b)
  <2>1. buckets[b] # None /\ buckets' = [buckets EXCEPT ![b] = Deleted(buckets[b])]
    BY Zenon, <1>2 DEF AdminDeleteBucket, EditBucket, StoreBucket
  <2> QED BY ZenonT(120), <1>0, <2>1, DeletedOK, TypeParts DEF Lawful
<1>3. CASE AdminSetPolicy(b) \/ StripBucket(b)
  <2>1. buckets[b] # None /\ \E new :
          /\ new.refUid = buckets[b].refUid /\ new.bucketID = buckets[b].bucketID
          /\ buckets' = [buckets EXCEPT ![b] = new]
    BY Zenon, <1>0, <1>3 DEF AdminSetPolicy, StripBucket, EditBucket, StoreBucket, BucketObject
  <2> QED BY Zenon, <1>0, <2>1, TypeParts DEF Lawful
<1> QED BY Zenon, <1>1, <1>2, <1>3

\* Every step is lawful: the other actions do not write Buckets.
LEMMA NextLawful ==
    ASSUME IInv, [Next]_vars, NEW k \in BucketName
    PROVE  Lawful(k)
<1>1. CASE buckets' = buckets
  BY Zenon, <1>1 DEF Lawful
<1>2. CASE ClaimCreateBucket \/ ClaimBindBucket \/ ClaimAnnotate \/ ClaimDeleteBucket
  BY Zenon, <1>2, ControllerLawful
<1>3. CASE BucketRemoveFinalizer \/ BucketAddFinalizer \/ BucketSetStatus \/ BucketReport
  BY Zenon, <1>3, SidecarLawful
<1>4. ASSUME NEW b \in BucketName,
             \/ b \in StaticName /\ AdminCreateBucket(b)
             \/ AdminDeleteBucket(b) \/ AdminSetPolicy(b) \/ StripBucket(b)
      PROVE  Lawful(k)
  BY Zenon, <1>4, AdminLawful
<1>5. CASE Controller
  <2>1. CASE \E c \in ClaimName : ClaimStart(c)
    BY Zenon, <1>1, <2>1 DEF ClaimStart, storedBuckets
  <2>2. CASE ClaimAddFinalizer \/ ClaimBind \/ ClaimSetReady \/ ClaimReport
             \/ ClaimClearStatus \/ ClaimRemoveFinalizer
    BY Zenon, <1>1, <2>2 DEF ClaimAddFinalizer, ClaimBind, ClaimSetReady, ClaimReport,
       ClaimClearStatus, ClaimRemoveFinalizer, unchangedByClaimWrite
  <2>3. CASE ClaimGetBucket \/ ClaimGetBucketToDelete
    BY Zenon, <1>1, <2>3 DEF ClaimGetBucket, ClaimGetBucketToDelete, ReadBucket
  <2> QED BY Zenon, <1>2, <1>5, <2>1, <2>2, <2>3 DEF Controller, ClaimStep
<1>6. CASE Sidecar
  <2>1. CASE \E b \in BucketName : BucketStart(b)
    BY Zenon, <1>1, <2>1 DEF BucketStart
  <2>2. CASE BucketCreateRpc \/ BucketGetRpc
    BY Zenon, <1>1, <2>2 DEF BucketCreateRpc, BucketGetRpc, storedBuckets
  <2> QED BY Zenon, <1>3, <1>6, <2>1, <2>2 DEF Sidecar, BucketStep
<1>7. CASE Runtime
  BY Zenon, <1>1, <1>7 DEF Runtime, ClaimCacheSync, ControllerBucketSync, SidecarBucketSync,
     ControllerRestart, SidecarRestart, storedBuckets
<1>8. CASE Environment
  <2>1. CASE \/ \E c \in ClaimName : UserCreateClaim(c) \/ UserDeleteClaim(c) \/ StripClaim(c)
             \/ \E s \in StaticName : BackendAppears(s)
             \/ \E n \in ClassName : AdminCreateClass(n)
    BY Zenon, <1>1, <2>1 DEF UserCreateClaim, UserDeleteClaim, StripClaim, BackendAppears,
       AdminCreateClass, EditClaim, storedBuckets
  <2> QED BY Zenon, <1>4, <1>8, <2>1 DEF Environment, BucketName
<1>9. CASE UNCHANGED vars
  BY Zenon, <1>1, <1>9 DEF vars, storedBuckets
<1> QED BY Zenon, <1>5, <1>6, <1>7, <1>8, <1>9 DEF Next

\* No Bucket changes hands: once it names a claim UID it keeps it, whatever
\* outdated copy ensureStaticBucketBound looked at.
THEOREM BucketsAreNotRebound == Spec => NoRebind
<1>1. IInv /\ [Next]_vars =>
        [\A b \in BucketName :
           buckets[b] # None /\ buckets'[b] # None /\ buckets[b].refUid # NoUid =>
              buckets'[b].refUid = buckets[b].refUid]_vars
  BY Zenon, NextLawful DEF Lawful
<1> QED BY <1>1, Invariance, PTL DEF NoRebind, Spec

\* A Bucket gets its bucketID only under its finalizer.
THEOREM ProvisioningIsProtected == Spec => ProvisionedUnderProtection
<1>1. IInv /\ [Next]_vars =>
        [\A b \in BucketName :
           /\ buckets'[b] # None /\ buckets'[b].bucketID
           /\ buckets[b] # None => ~buckets[b].bucketID
           => buckets'[b].finalizer /\ backend[b] # None]_vars
  BY Zenon, NextLawful DEF Lawful
<1> QED BY <1>1, Invariance, PTL DEF ProvisionedUnderProtection, Spec
=============================================================================
