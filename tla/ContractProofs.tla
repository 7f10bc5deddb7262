--------------------------- MODULE ContractProofs ----------------------------
(***************************************************************************)
(* Provisioning implements BindingContract.                                *)
(*                                                                         *)
(* Each step changes at most one claim, one Bucket or one backend bucket.  *)
(* The guards of the contract follow from the inductive invariant of       *)
(* Provisioning: copies tell the truth about what never changes again.  A  *)
(* write that records an error is the one place where more is needed: the  *)
(* status it carries is ahead of the stored one by at most one stage, and  *)
(* never behind (ReportAhead).                                             *)
(***************************************************************************)
EXTENDS ProvisioningProofs, ProvisioningContract

\* The status in a copy is that of stored, or one stage ahead.
Ahead(copy, stored) ==
    /\ stored.readyToUse = "true" => copy.readyToUse = "true"
    /\ stored.boundBucketName # None => copy.boundBucketName # None
    /\ copy.readyToUse = "true" => stored.boundBucketName # None

\* A claim worker that reports an error of a live claim, and may still write it,
\* carries a status that is not behind.
ReportAhead ==
    /\ cw.pc = "report"
    /\ "controllerWorker" \in freshClaim[cw.name]
    /\ ~cw.claim.deleting
    => Ahead(cw.claim, claims[cw.name])
-----------------------------------------------------------------------------
(***************************************************************************)
(* The mapping of single changes.                                          *)
(***************************************************************************)
View(claim) == IF claim = None THEN None ELSE Holding(claim)

\* What a claim means is never None, and says what it should.
LEMMA HoldingType ==
    ASSUME NEW claim \in ClaimObject
    PROVE  /\ View(claim) = Holding(claim) /\ View(claim) # None
           /\ Holding(claim).uid = claim.uid
           /\ Holding(claim).stage = StageOf(claim)
           /\ Holding(claim).bucket = IF claim.deleting THEN None ELSE claim.boundBucketName
           /\ Holding(claim).protocols =
                IF StageOf(claim) = "ready" THEN claim.statusProtocols ELSE {}
<1>1. StageOf(claim) \in Stage
  BY Zenon DEF StageOf, Stage
<1>2. Holding(claim) \in [uid : Uid, stage : Stage, bucket : BucketName \cup {None},
                          protocols : SUBSET Protocol]
  BY Zenon, <1>1 DEF Holding, ClaimObject
<1>3. claim # None
  BY Zenon, ResourceAssumption
<1> QED BY Zenon, <1>2, <1>3, ContractAssumption DEF View, Holding

\* What a claim means, stage by stage.
LEMMA HoldingIs ==
    ASSUME NEW claim \in ClaimObject
    PROVE  /\ claim.deleting => Holding(claim) = Contract!Held(claim.uid, "ending", None, {})
           /\ ~claim.deleting =>
                /\ claim.readyToUse = "true" =>
                     Holding(claim) = Contract!Held(claim.uid, "ready", claim.boundBucketName,
                                                    claim.statusProtocols)
                /\ claim.readyToUse # "true" /\ claim.boundBucketName # None =>
                     Holding(claim) = Contract!Held(claim.uid, "bound", claim.boundBucketName, {})
                /\ claim.readyToUse # "true" /\ claim.boundBucketName = None =>
                     Holding(claim) = Contract!Held(claim.uid, "pending", None, {})
<1>1. CASE claim.deleting
  BY Zenon, <1>1 DEF Holding, StageOf, Contract!Held
<1>2. CASE ~claim.deleting /\ claim.readyToUse = "true"
  BY Zenon, <1>2 DEF Holding, StageOf, Contract!Held
<1>3. CASE ~claim.deleting /\ claim.readyToUse # "true" /\ claim.boundBucketName # None
  BY Zenon, <1>3 DEF Holding, StageOf, Contract!Held
<1>4. CASE ~claim.deleting /\ claim.readyToUse # "true" /\ claim.boundBucketName = None
  BY Zenon, <1>4 DEF Holding, StageOf, Contract!Held
<1> QED BY Zenon, <1>1, <1>2, <1>3, <1>4

\* The abstract state at one claim or Bucket.
LEMMA Mapped ==
    /\ \A c \in ClaimName : holding[c] = View(claims[c])
    /\ \A b \in BucketName : owner[b] = IF buckets[b] = None THEN None ELSE buckets[b].refUid
    /\ \A u : u \in used <=> u \in Uid /\ issued[u] # None
BY Zenon DEF holding, owner, used, View

\* A step that changes nothing the contract speaks of is a stuttering step.
LEMMA Stutters ==
    ASSUME claims' = claims, buckets' = buckets, backend' = backend, issued' = issued
    PROVE  UNCHANGED Contract!vars
<1>1. holding' = holding /\ owner' = owner /\ used' = used
  BY Zenon DEF holding, owner, used
<1> QED BY Zenon, <1>1 DEF Contract!vars

\* A change of one claim changes one entry of holding.
LEMMA ClaimChanges ==
    ASSUME TypeOK, NEW c \in ClaimName, NEW new,
           claims' = [claims EXCEPT ![c] = new], buckets' = buckets, backend' = backend
    PROVE  Contract!SetClaim(c, View(new))
<1>1. holding' = [holding EXCEPT ![c] = View(new)]
  <2>1. \A d \in ClaimName : claims'[d] = IF d = c THEN new ELSE claims[d]
    BY Zenon, TypeParts
  <2>2. holding' = [d \in ClaimName |-> View(claims'[d])]
    BY Zenon DEF holding, View
  <2>3. holding = [d \in ClaimName |-> View(claims[d])]
    BY Zenon DEF holding, View
  <2> QED BY SMTT(60), <2>1, <2>2, <2>3
<1>2. owner' = owner
  BY Zenon DEF owner
<1> QED BY Zenon, <1>1, <1>2 DEF Contract!SetClaim

Owner(bucket) == IF bucket = None THEN None ELSE bucket.refUid

\* A change of one Bucket changes one entry of owner.
LEMMA BucketChanges ==
    ASSUME TypeOK, NEW b \in BucketName, NEW new,
           buckets' = [buckets EXCEPT ![b] = new],
           claims' = claims, backend' = backend, issued' = issued
    PROVE  Contract!SetOwner(b, Owner(new))
<1>1. owner' = [owner EXCEPT ![b] = Owner(new)]
  <2>1. \A d \in BucketName : buckets'[d] = IF d = b THEN new ELSE buckets[d]
    BY Zenon, TypeParts
  <2>2. owner' = [d \in BucketName |-> Owner(buckets'[d])]
    BY Zenon DEF owner, Owner
  <2>3. owner = [d \in BucketName |-> Owner(buckets[d])]
    BY Zenon DEF owner, Owner
  <2> QED BY SMTT(60), <2>1, <2>2, <2>3
<1>2. holding' = holding /\ used' = used
  BY Zenon DEF holding, used
<1> QED BY Zenon, <1>1, <1>2 DEF Contract!SetOwner
-----------------------------------------------------------------------------
(***************************************************************************)
(* Writes of a claim by its worker.                                        *)
(***************************************************************************)
\* The new claim is a version of the old one, not behind it.
Succeeds(new, old) ==
    /\ new \in ClaimObject
    /\ new.uid = old.uid
    /\ new.deleting = old.deleting
    /\ old.deleting \/ Ahead(new, old)

\* Status and reference of a version that is not behind: nothing that users see
\* changes, or the claim becomes bound or ready as the contract has it.
LEMMA SuccessorKeepsContract ==
    ASSUME TypeOK, NEW c \in ClaimName, NEW new, claims[c] # None, new # None,
           Succeeds(new, claims[c]),
           ClaimCopy(c, claims[c]), ClaimCopy(c, new),
           claims' = [claims EXCEPT ![c] = new], buckets' = buckets, backend' = backend,
           issued' = issued
    PROVE  [Contract!Next]_(Contract!vars)
<1> DEFINE old == claims[c]
<1>0. /\ old \in ClaimObject /\ new \in ClaimObject /\ new.uid = old.uid
      /\ new.deleting = old.deleting /\ (old.deleting \/ Ahead(new, old))
      /\ View(new) = Holding(new) /\ holding[c] = Holding(old) /\ holding[c] # None
      /\ ClaimCopy(c, old)
  BY ZenonT(120), HoldingType, Mapped, TypeParts DEF Succeeds
<1> HIDE DEF old
<1>1. Contract!SetClaim(c, Holding(new)) /\ used' = used
  BY Zenon, <1>0, ClaimChanges DEF used
<1>2. CASE Holding(new) = Holding(old)
  <2>1. holding' = holding
    BY SMTT(60), <1>0, <1>1, <1>2 DEF Contract!SetClaim, holding
  <2> QED BY Zenon, <1>1, <2>1 DEF Contract!SetClaim, Contract!vars
<1>3. CASE Holding(new) # Holding(old)
  <2>1. ~old.deleting /\ ~new.deleting
    BY Zenon, <1>0, <1>3, HoldingIs
  <2>2. determineBucketName(new) = determineBucketName(old)
    <3>1. issued[old.uid].existingBucketName = old.existingBucketName
      BY SMTT(60), <1>0 DEF ClaimCopy
    <3>2. issued[new.uid].existingBucketName = new.existingBucketName
      BY SMTT(60) DEF ClaimCopy
    <3> QED BY Zenon, <1>0, <3>1, <3>2 DEF determineBucketName, isStaticProvisioning
  <2> DEFINE b == determineBucketName(old)
  <2>3. /\ old.boundBucketName # None => old.boundBucketName = b
        /\ new.boundBucketName # None => new.boundBucketName = b
        /\ new.boundBucketName # None /\ buckets[b] # None => buckets[b].refUid = old.uid
        /\ old.readyToUse = "true" => old.boundBucketName # None
        /\ old.readyToUse = "true" => backend[b] = old.statusProtocols
        /\ new.readyToUse = "true" => /\ new.boundBucketName # None
                                      /\ backend[b] = new.statusProtocols
                                      /\ new.statusProtocols # {}
    BY Zenon, <1>0, <2>2 DEF ClaimCopy
  <2>4. b \in BucketName
    BY Zenon, <1>0, NameType
  <2> HIDE DEF b
  <2>5. CASE old.boundBucketName = None
    <3>1. new.readyToUse # "true" /\ old.readyToUse # "true"
      BY Zenon, <1>0, <2>1, <2>3, <2>5 DEF Ahead
    <3>2. Holding(old) = Contract!Held(old.uid, "pending", None, {})
      BY Zenon, <1>0, <2>1, <2>5, <3>1, HoldingIs
    <3>3. new.boundBucketName = b
      BY Zenon, <1>0, <1>3, <2>1, <2>3, <3>1, <3>2, HoldingIs
    <3>4. Holding(new) = Contract!Held(old.uid, "bound", b, {})
      BY Zenon, <1>0, <2>1, <2>4, <3>1, <3>3, HoldingIs, ResourceAssumption
    <3>5. owner[b] \in {None, old.uid}
      BY Zenon, <2>3, <2>4, <3>3, Mapped, ResourceAssumption
    <3>6. Contract!Bind(c)
      <4>1. holding[c].stage = "pending" /\ holding[c].uid = old.uid
        <5>1. holding[c] = Contract!Held(old.uid, "pending", None, {})
          BY Zenon, <1>0, <3>2
        <5> QED BY SMTT(60), <5>1 DEF Contract!Held
      <4> QED BY Zenon, <1>0, <1>1, <2>4, <3>4, <3>5, <4>1 DEF Contract!Bind
    <3> QED BY Zenon, <3>6 DEF Contract!Next
  <2>6. CASE old.boundBucketName # None
    <3>1. old.boundBucketName = b /\ new.boundBucketName = b
      BY Zenon, <1>0, <2>1, <2>3, <2>6 DEF Ahead
    <3>2. new.readyToUse = "true" /\ old.readyToUse # "true"
      <4>1. CASE old.readyToUse = "true"
        <5>1. new.readyToUse = "true" /\ new.statusProtocols = old.statusProtocols
          BY Zenon, <1>0, <2>1, <2>3, <4>1 DEF Ahead
        <5> QED BY Zenon, <1>0, <1>3, <2>1, <3>1, <4>1, <5>1, HoldingIs
      <4>2. CASE old.readyToUse # "true" /\ new.readyToUse # "true"
        BY Zenon, <1>0, <1>3, <2>1, <2>6, <3>1, <4>2, HoldingIs
      <4> QED BY Zenon, <4>1, <4>2
    <3>3. Holding(old) = Contract!Held(old.uid, "bound", b, {})
      BY Zenon, <1>0, <2>1, <2>6, <3>1, <3>2, HoldingIs
    <3>4. Holding(new) = Contract!Held(old.uid, "ready", b, backend[b])
      BY Zenon, <1>0, <2>1, <2>3, <3>1, <3>2, HoldingIs
    <3>5. backend[b] \notin {None, {}}
      <4>1. new.statusProtocols \in SUBSET Protocol
        BY Zenon, <1>0 DEF ClaimObject
      <4> QED BY Zenon, <2>3, <3>2, <4>1, ResourceAssumption
    <3>6. Contract!BecomeReady(c)
      <4>1. holding[c].stage = "bound" /\ holding[c].bucket = b /\ holding[c].uid = old.uid
        <5>1. holding[c] = Contract!Held(old.uid, "bound", b, {})
          BY Zenon, <1>0, <3>3
        <5> QED BY SMTT(60), <5>1 DEF Contract!Held
      <4> QED BY Zenon, <1>0, <1>1, <3>4, <3>5, <4>1 DEF Contract!BecomeReady
    <3> QED BY Zenon, <3>6 DEF Contract!Next
  <2> QED BY Zenon, <2>5, <2>6
<1> QED BY Zenon, <1>2, <1>3

\* The pure code up to the next call keeps the worker's claim.
LEMMA PureCodeKeepsClaim ==
    ASSUME NEW w \in ClaimWorker
    PROVE  /\ checkProvisioned(w).name = w.name /\ checkProvisioned(w).claim = w.claim
           /\ checkClaimBound(w).name = w.name /\ checkClaimBound(w).claim = w.claim
           /\ checkBucketBound(w).name = w.name /\ checkBucketBound(w).claim = w.claim
           /\ bucketNotFound(w).name = w.name /\ bucketNotFound(w).claim = w.claim
           /\ deleteDecision(w).name = w.name /\ deleteDecision(w).claim = w.claim
<1>1. \A e : FailClaim(w, e).name = w.name /\ FailClaim(w, e).claim = w.claim
  BY Zenon DEF FailClaim, ClaimWorker
<1>2. \A pc : [w EXCEPT !.pc = pc].name = w.name /\ [w EXCEPT !.pc = pc].claim = w.claim
  BY Zenon DEF ClaimWorker
<1>3. checkProvisioned(w).name = w.name /\ checkProvisioned(w).claim = w.claim
  BY Zenon, <1>1, <1>2 DEF checkProvisioned
<1>4. checkClaimBound(w).name = w.name /\ checkClaimBound(w).claim = w.claim
  BY Zenon, <1>2, <1>3 DEF checkClaimBound
<1>5. checkBucketBound(w).name = w.name /\ checkBucketBound(w).claim = w.claim
  BY Zenon, <1>1, <1>2, <1>4 DEF checkBucketBound
<1>6. bucketNotFound(w).name = w.name /\ bucketNotFound(w).claim = w.claim
  BY Zenon, <1>1, <1>2 DEF bucketNotFound
<1>7. deleteDecision(w).name = w.name /\ deleteDecision(w).claim = w.claim
  BY Zenon, <1>1, <1>2 DEF deleteDecision, bucketIsBoundToClaim
<1> QED BY Zenon, <1>3, <1>4, <1>5, <1>6, <1>7

\* A version of a claim is not behind itself.
LEMMA AheadOfItself ==
    ASSUME NEW c, NEW claim, ClaimCopy(c, claim)
    PROVE  Ahead(claim, claim)
BY Zenon DEF ClaimCopy, Ahead

\* Any write of the claim by its worker keeps the contract, and leaves a worker that
\* is not behind, if what it writes is not behind.
LEMMA ClaimWriteKeepsContract ==
    ASSUME IInv, IInv', cw.pc # "idle",
           NEW o \in Outcome, NEW obj, NEW touch, NEW w,
           WriteClaim(o, obj, touch, w), unchangedByClaimWrite,
           "controllerWorker" \in freshClaim[cw.name] => Succeeds(obj, claims[cw.name]),
           w # ClaimIdle =>
             /\ w.name = cw.name
             /\ o = "ok" => w.claim = obj
             /\ o # "ok" /\ "controllerWorker" \in freshClaim[cw.name] =>
                  w.claim \in {obj, claims[cw.name]}
    PROVE  [Contract!Next]_(Contract!vars) /\ ReportAhead'
<1>a. PICK c \in ClaimName : c = cw.name
  BY Zenon, InvariantParts DEF ClaimWorkerOK
<1> DEFINE token == "controllerWorker" \in freshClaim[c]
<1>0. /\ c = cw.name /\ c \in ClaimName /\ TypeOK /\ TypeOK' /\ Copies /\ Copies'
      /\ buckets' = buckets /\ backend' = backend /\ issued' = issued
      /\ created' = created
  BY Zenon, <1>a, InvariantParts DEF unchangedByClaimWrite, envVars
<1>1. o \in {"ok", "failed", "timedOut"} => token /\ claims[c] # None
  BY Zenon, <1>0, InvariantParts DEF WriteClaim, Ends, ClaimCoherence
<1>2. CASE o \notin {"ok", "timedOut"}
  <2>1. claims' = claims
    <3>1. claims' = [claims EXCEPT ![c] = claims[c]]
      BY Zenon, <1>0, <1>2 DEF WriteClaim, StoreClaim
    <3> QED BY Zenon, <1>0, <3>1, TypeParts
  <2>2. [Contract!Next]_(Contract!vars)
    BY Zenon, <1>0, <2>1, Stutters
  <2>3. ReportAhead'
    <3>1. SUFFICES ASSUME cw'.pc = "report", "controllerWorker" \in freshClaim'[cw'.name],
                          ~cw'.claim.deleting
                   PROVE  Ahead(cw'.claim, claims'[cw'.name])
      BY Zenon DEF ReportAhead, Ahead
    <3>2. cw' = w /\ w # ClaimIdle /\ cw'.name = c
      BY Zenon, <1>0, <3>1, IdleOK DEF WriteClaim
    <3>3. freshClaim'[c] = freshClaim[c]
      BY Zenon, <1>0, <1>2, <3>1, <3>2, TypeParts DEF WriteClaim, AfterWrite
    <3>4. w.claim \in {obj, claims[c]} /\ Succeeds(obj, claims[c]) /\ claims[c] # None
      <4>1. token /\ cw.pc # "idle"
        BY Zenon, <3>1, <3>2, <3>3
      <4>2. o # "ok"
        BY Zenon, <1>2
      <4> QED BY Zenon, <1>0, <3>2, <4>1, <4>2, InvariantParts DEF ClaimCoherence
    <3>5. Ahead(claims[c], claims[c])
      BY Zenon, <1>0, <3>4, AheadOfItself DEF Copies
    <3>6. w.claim = obj => Ahead(obj, claims[c])
      BY Zenon, <3>1, <3>2, <3>4 DEF Succeeds
    <3> QED BY Zenon, <2>1, <3>2, <3>4, <3>5, <3>6
  <2> QED BY Zenon, <2>2, <2>3
<1>3. CASE o \in {"ok", "timedOut"}
  <2>0. /\ token /\ claims[c] # None /\ Succeeds(obj, claims[c])
        /\ claims[c] \in ClaimObject /\ obj \in ClaimObject /\ obj # None
        /\ claims' = [claims EXCEPT ![c] = Persisted(obj)] /\ claims'[c] = Persisted(obj)
    <3>1. claims' = [claims EXCEPT ![c] = Persisted(obj)]
      BY Zenon, <1>0, <1>3 DEF WriteClaim, StoreClaim
    <3>2. claims'[c] = Persisted(obj)
      BY Zenon, <1>0, <3>1, TypeParts
    <3>3. token /\ claims[c] # None /\ Succeeds(obj, claims[c])
      BY Zenon, <1>0, <1>1, <1>3
    <3>4. claims[c] \in ClaimObject /\ obj \in ClaimObject /\ obj # None
      BY ZenonT(120), <1>0, <3>3, ResourceAssumption, TypeParts DEF Succeeds
    <3> QED BY Zenon, <3>1, <3>2, <3>3, <3>4
  <2>1. CASE Persisted(obj) = None
    <3>1. Contract!SetClaim(c, None) /\ used' = used /\ holding[c] # None
      <4>1. Contract!SetClaim(c, View(Persisted(obj)))
        BY Zenon, <1>0, <2>0, ClaimChanges
      <4>2. holding[c] # None
        BY Zenon, <1>0, <2>0, Mapped, HoldingType
      <4> QED BY Zenon, <1>0, <2>1, <4>1, <4>2 DEF View, used
    <3>2. [Contract!Next]_(Contract!vars)
      BY Zenon, <1>0, <3>1 DEF Contract!Next, Contract!Leave
    <3>3. ReportAhead'
      <4>1. cw' = w /\ (w # ClaimIdle => w.name = c)
        BY Zenon, <1>0 DEF WriteClaim
      <4>2. ~(cw'.pc = "report" /\ "controllerWorker" \in freshClaim'[cw'.name])
        BY Zenon, <2>0, <2>1, <4>1, IdleOK, InvariantParts DEF ClaimCoherence
      <4> QED BY Zenon, <4>2 DEF ReportAhead
    <3> QED BY Zenon, <3>2, <3>3
  <2>2. CASE Persisted(obj) # None
    <3>0. Persisted(obj) = obj
      BY Zenon, <2>2 DEF Persisted
    <3>1. ClaimCopy(c, claims[c]) /\ ClaimCopy(c, obj)
      <4>1. ClaimCopy(c, claims[c])
        BY Zenon, <1>0, <2>0 DEF Copies
      <4>2. ClaimCopy(c, claims[c])'
        BY Zenon, <1>0, <2>0, <3>0 DEF Copies
      <4>3. ClaimCopy(c, obj)' => ClaimCopy(c, obj)
        BY Zenon, <1>0 DEF ClaimCopy, determineBucketName, isStaticProvisioning
      <4> QED BY Zenon, <2>0, <3>0, <4>1, <4>2, <4>3
    <3>2. [Contract!Next]_(Contract!vars)
      BY Zenon, <1>0, <2>0, <3>0, <3>1, SuccessorKeepsContract
    <3>3. ReportAhead'
      <4>1. SUFFICES ASSUME cw'.pc = "report", "controllerWorker" \in freshClaim'[cw'.name],
                            ~cw'.claim.deleting
                     PROVE  Ahead(cw'.claim, claims'[cw'.name])
        BY Zenon DEF ReportAhead, Ahead
      <4>2. cw' = w /\ w # ClaimIdle /\ cw'.name = c
        BY Zenon, <1>0, <4>1, IdleOK DEF WriteClaim
      <4>3. CASE o = "ok"
        BY Zenon, <2>0, <3>0, <3>1, <4>2, <4>3, AheadOfItself
      <4>4. CASE o = "timedOut"
        <5>1. obj = claims[c]
          <6>1. obj # claims[c] => freshClaim'[c] = {}
            BY Zenon, <1>0, <2>0, <3>0, <4>1, <4>2, <4>4, TypeParts DEF WriteClaim, AfterWrite
          <6> QED BY Zenon, <4>1, <4>2, <6>1
        <5> QED BY Zenon, <2>0, <3>0, <3>1, <4>2, <4>4, <5>1, AheadOfItself
      <4> QED BY Zenon, <1>3, <4>3, <4>4
    <3> QED BY Zenon, <3>2, <3>3
  <2> QED BY Zenon, <2>1, <2>2
<1> QED BY Zenon, <1>2, <1>3

\* Status writes of reconcile() and reconcileDelete(): a worker that may write holds
\* the stored claim, and changes its status to local.
LEMMA StatusWriteKeepsContract ==
    ASSUME IInv, IInv', cw.pc \notin {"idle", "report"},
           NEW local \in ClaimObject, SameClaim(local, cw.claim),
           local.deleting \/ Ahead(local, cw.claim),
           NEW next, WriteClaimStatus(local, next), unchangedByClaimWrite,
           next = ClaimIdle \/ (next.name = cw.name /\ next.claim = local)
    PROVE  [Contract!Next]_(Contract!vars) /\ ReportAhead'
<1>0. /\ cw.name \in ClaimName /\ cw.claim \in ClaimObject /\ cw \in ClaimWorker
      /\ ClaimCopy(cw.name, cw.claim)
  BY Zenon, InvariantParts, TypeParts DEF ClaimWorkerOK
<1>1. PICK fw, obj : /\ fw = FailClaim([cw EXCEPT !.claim = local], "retry")
                     /\ obj = SetClaimStatus(claims[cw.name], local)
  BY Zenon
<1>2. fw.name = cw.name /\ fw.claim = local
  BY Zenon, <1>0, <1>1 DEF FailClaim, ClaimWorker
<1>3. ASSUME "controllerWorker" \in freshClaim[cw.name]
      PROVE  obj = local /\ Succeeds(obj, claims[cw.name])
  <2>1. claims[cw.name] = cw.claim
    BY Zenon, <1>3, InvariantParts DEF ClaimCoherence
  <2>2. obj = local
    BY Zenon, <1>0, <1>1, <2>1, StatusOverSame
  <2>3. local.uid = cw.claim.uid /\ local.deleting = cw.claim.deleting
    BY Zenon, <1>0, NewStatus
  <2> QED BY Zenon, <2>1, <2>2, <2>3 DEF Succeeds
<1>4. PICK o \in Outcome : WriteClaim(o, obj, FALSE, IF o = "ok" THEN next ELSE fw)
  BY Zenon, <1>1 DEF WriteClaimStatus
<1>5. PICK w : w = IF o = "ok" THEN next ELSE fw
  BY Zenon
<1>6. o = "ok" => "controllerWorker" \in freshClaim[cw.name]
  BY Zenon, <1>4 DEF WriteClaim, Ends
<1>7. /\ w # ClaimIdle => w.name = cw.name
      /\ w # ClaimIdle /\ o = "ok" => w.claim = obj
      /\ o # "ok" /\ "controllerWorker" \in freshClaim[cw.name] => w.claim = obj
  BY Zenon, <1>2, <1>3, <1>5, <1>6
<1>8. WriteClaim(o, obj, FALSE, w)
  BY Zenon, <1>4, <1>5
<1> QED BY Zenon, <1>3, <1>7, <1>8, ClaimWriteKeepsContract

\* ClaimBind: a claim that is ready stays so, because the code only turns a missing
\* readyToUse into false.
LEMMA ClaimBindKeepsContract ==
    ASSUME IInv, IInv', ClaimBind
    PROVE  [Contract!Next]_(Contract!vars) /\ ReportAhead'
<1>0. /\ cw.pc = "bindClaim" /\ cw.name \in ClaimName /\ cw.claim \in ClaimObject
      /\ ClaimCopy(cw.name, cw.claim) /\ cw \in ClaimWorker
  BY Zenon, InvariantParts, TypeParts DEF ClaimBind, ClaimWorkerOK
<1>1. PICK b : b = determineBucketName(cw.claim)
  BY Zenon
<1>2. PICK local : local = [cw.claim EXCEPT !.readyToUse = NotNil(@), !.boundBucketName = b]
  BY Zenon
<1>3. b \in BucketName /\ b # None
  BY ZenonT(60), <1>0, <1>1, NameType, ResourceAssumption
<1>4. local \in ClaimObject
  BY Zenon, <1>0, <1>2, <1>3 DEF ClaimObject, NotNil, ReadyToUse
<1>5. /\ SameClaim(local, cw.claim)
      /\ local.readyToUse = NotNil(cw.claim.readyToUse) /\ local.boundBucketName = b
  BY Zenon, <1>0, <1>2 DEF ClaimObject, SameClaim, SetClaimStatus
<1>6. Ahead(local, cw.claim)
  <2>1. local.readyToUse = "true" <=> cw.claim.readyToUse = "true"
    BY SMTT(60), <1>5 DEF NotNil
  <2>2. cw.claim.readyToUse = "true" => cw.claim.boundBucketName # None
    BY Zenon, <1>0 DEF ClaimCopy
  <2> QED BY Zenon, <1>3, <1>5, <2>1, <2>2 DEF Ahead
<1>7. PICK w : w = [cw EXCEPT !.claim = local]
  BY Zenon
<1>8. w \in ClaimWorker /\ w.name = cw.name /\ w.claim = local
  BY Zenon, <1>0, <1>4, <1>7 DEF ClaimWorker
<1>9. checkProvisioned(w).name = cw.name /\ checkProvisioned(w).claim = local
  BY Zenon, <1>8, PureCodeKeepsClaim
<1>10. WriteClaimStatus(local, checkProvisioned(w)) /\ unchangedByClaimWrite
  BY Zenon, <1>1, <1>2, <1>7 DEF ClaimBind
<1> QED BY Zenon, <1>0, <1>4, <1>5, <1>6, <1>9, <1>10, StatusWriteKeepsContract

\* ClaimSetReady: the claim is bound, and the Bucket is provisioned.
LEMMA ClaimSetReadyKeepsContract ==
    ASSUME IInv, IInv', ClaimSetReady
    PROVE  [Contract!Next]_(Contract!vars) /\ ReportAhead'
<1>0. /\ cw.pc = "setReady" /\ cw.name \in ClaimName /\ cw.claim \in ClaimObject
      /\ cw.bucket \in BucketObject /\ BucketCopy(determineBucketName(cw.claim), cw.bucket)
      /\ cw.bucket.bucketID /\ cw.claim.boundBucketName # None
  BY ZenonT(120), ResourceAssumption, InvariantParts, TypeParts DEF ClaimSetReady,
     ClaimWorkerOK, ClaimAt
<1>1. PICK local : local = [cw.claim EXCEPT !.readyToUse = cw.bucket.readyToUse,
                                            !.statusProtocols = cw.bucket.statusProtocols,
                                            !.error = "none"]
  BY Zenon
<1>2. local \in ClaimObject
  BY Zenon, <1>0, <1>1 DEF ClaimObject, BucketObject, Error
<1>3. /\ SameClaim(local, cw.claim)
      /\ local.readyToUse = cw.bucket.readyToUse
      /\ local.boundBucketName = cw.claim.boundBucketName
  BY Zenon, <1>0, <1>1 DEF ClaimObject, SameClaim, SetClaimStatus
<1>4. cw.bucket.readyToUse = "true"
  BY Zenon, <1>0 DEF BucketCopy
<1>5. Ahead(local, cw.claim)
  BY Zenon, <1>0, <1>3, <1>4 DEF Ahead
<1>6. WriteClaimStatus(local, ClaimIdle) /\ unchangedByClaimWrite
  BY Zenon, <1>1 DEF ClaimSetReady
<1> QED BY Zenon, <1>0, <1>2, <1>3, <1>5, <1>6, StatusWriteKeepsContract

\* ClaimClearStatus: a claim that is being deleted promises nothing any more.
LEMMA ClaimClearStatusKeepsContract ==
    ASSUME IInv, IInv', ClaimClearStatus
    PROVE  [Contract!Next]_(Contract!vars) /\ ReportAhead'
<1>0. /\ cw.pc = "clearStatus" /\ cw.claim \in ClaimObject /\ cw \in ClaimWorker
      /\ cw.claim.deleting
  BY Zenon, InvariantParts, TypeParts DEF ClaimClearStatus, ClaimWorkerOK, ClaimAt
<1>1. PICK local : local = [cw.claim EXCEPT !.readyToUse = "false", !.error = "none"]
  BY Zenon
<1>2. /\ local \in ClaimObject /\ SameClaim(local, cw.claim) /\ local.deleting
  BY Zenon, <1>0, <1>1 DEF ClaimObject, ReadyToUse, Error, SameClaim, SetClaimStatus
<1>3. PICK w : w = [cw EXCEPT !.pc = "getBucketToDelete", !.claim = local]
  BY Zenon
<1>4. w.name = cw.name /\ w.claim = local
  BY Zenon, <1>0, <1>3 DEF ClaimWorker
<1>5. WriteClaimStatus(local, w) /\ unchangedByClaimWrite
  BY Zenon, <1>1, <1>3 DEF ClaimClearStatus
<1> QED BY Zenon, <1>0, <1>2, <1>4, <1>5, StatusWriteKeepsContract

\* ClaimAddFinalizer and ClaimRemoveFinalizer: the status stays, or the claim goes.
LEMMA ClaimFinalizerKeepsContract ==
    ASSUME IInv, IInv', ClaimAddFinalizer \/ ClaimRemoveFinalizer
    PROVE  [Contract!Next]_(Contract!vars) /\ ReportAhead'
<1>0. /\ cw.pc \in {"addFinalizer", "removeFinalizer"} /\ cw.claim \in ClaimObject
      /\ cw \in ClaimWorker /\ ClaimCopy(cw.name, cw.claim) /\ unchangedByClaimWrite
  BY Zenon, InvariantParts, TypeParts DEF ClaimAddFinalizer, ClaimRemoveFinalizer, ClaimWorkerOK
<1>1. PICK f \in BOOLEAN, o \in Outcome :
        \E w : /\ WriteClaim(o, [cw.claim EXCEPT !.finalizer = f], FALSE, w)
               /\ \/ o = "ok" /\ w = ClaimIdle
                  \/ o = "ok" /\ w = [cw EXCEPT !.pc = "getBucket",
                                                !.claim = [cw.claim EXCEPT !.finalizer = f]]
                  \/ o # "ok" /\ w = FailClaim(cw, "retry")
  <2>1. CASE ClaimAddFinalizer
    BY Zenon, <2>1 DEF ClaimAddFinalizer
  <2>2. CASE ClaimRemoveFinalizer
    BY Zenon, <2>2 DEF ClaimRemoveFinalizer
  <2> QED BY Zenon, <2>1, <2>2
<1>2. PICK obj : obj = [cw.claim EXCEPT !.finalizer = f]
  BY Zenon
<1>3. PICK w : /\ WriteClaim(o, obj, FALSE, w)
               /\ \/ o = "ok" /\ w = ClaimIdle
                  \/ o = "ok" /\ w = [cw EXCEPT !.pc = "getBucket", !.claim = obj]
                  \/ o # "ok" /\ w = FailClaim(cw, "retry")
  BY Zenon, <1>1, <1>2
<1>4. /\ obj \in ClaimObject /\ obj.uid = cw.claim.uid /\ obj.deleting = cw.claim.deleting
      /\ obj.readyToUse = cw.claim.readyToUse
      /\ obj.boundBucketName = cw.claim.boundBucketName
  BY Zenon, <1>0, <1>2 DEF ClaimObject
<1>5. Succeeds(obj, cw.claim)
  <2>1. Ahead(cw.claim, cw.claim)
    BY Zenon, <1>0, AheadOfItself
  <2> QED BY Zenon, <1>4, <2>1 DEF Succeeds, Ahead
<1>6. "controllerWorker" \in freshClaim[cw.name] => claims[cw.name] = cw.claim
  BY Zenon, <1>0, InvariantParts DEF ClaimCoherence
<1>7. /\ w # ClaimIdle => w.name = cw.name
      /\ w # ClaimIdle /\ o = "ok" => w.claim = obj
      /\ o # "ok" => w.claim = cw.claim
  BY Zenon, <1>0, <1>3 DEF FailClaim, ClaimWorker
<1> QED BY Zenon, <1>0, <1>3, <1>5, <1>6, <1>7, ClaimWriteKeepsContract

\* ClaimReport: what the failed reconcile left in the claim's status is recorded with
\* the error, and is not behind what is stored.
LEMMA ClaimReportKeepsContract ==
    ASSUME IInv, IInv', ReportAhead, ClaimReport
    PROVE  [Contract!Next]_(Contract!vars) /\ ReportAhead'
<1>0. /\ cw.pc = "report" /\ cw.name \in ClaimName /\ cw.claim \in ClaimObject
      /\ ClaimCopy(cw.name, cw.claim) /\ cw \in ClaimWorker /\ unchangedByClaimWrite
  BY Zenon, InvariantParts, TypeParts DEF ClaimReport, ClaimWorkerOK
<1>1. PICK local, obj :
        /\ local = [cw.claim EXCEPT !.readyToUse = NotNil(@), !.error = cw.error]
        /\ obj = SetClaimStatus(claims[cw.name], local)
  BY Zenon
<1>2. local \in ClaimObject
  BY Zenon, <1>0, <1>1 DEF ClaimObject, ClaimWorker, NotNil, ReadyToUse
<1>3. /\ SameClaim(local, cw.claim)
      /\ local.readyToUse = NotNil(cw.claim.readyToUse)
      /\ local.boundBucketName = cw.claim.boundBucketName
  BY Zenon, <1>0, <1>1 DEF ClaimObject, SameClaim, SetClaimStatus
<1>4. ASSUME "controllerWorker" \in freshClaim[cw.name]
      PROVE  Succeeds(obj, claims[cw.name])
  <2>1. /\ SameClaim(cw.claim, claims[cw.name]) /\ claims[cw.name] \in ClaimObject
        /\ ClaimCopy(cw.name, claims[cw.name])
    BY Zenon, <1>0, <1>4, InvariantParts, TypeParts DEF ClaimCoherence, Copies
  <2>2. SameClaim(local, claims[cw.name])
    BY Zenon, <1>0, <1>1, <2>1 DEF SameClaim, SetClaimStatus, ClaimObject
  <2>3. obj = local
    BY Zenon, <1>1, <1>2, <2>1, <2>2, StatusOverSame
  <2>4. /\ local.uid = claims[cw.name].uid /\ local.deleting = claims[cw.name].deleting
        /\ cw.claim.deleting = claims[cw.name].deleting
    BY ZenonT(60), <1>0, <1>2, <2>1, <2>2, NewStatus
  <2>5. ASSUME ~claims[cw.name].deleting PROVE Ahead(local, claims[cw.name])
    <3>1. Ahead(cw.claim, claims[cw.name])
      BY Zenon, <1>0, <1>4, <2>4, <2>5 DEF ReportAhead
    <3>2. local.readyToUse = "true" <=> cw.claim.readyToUse = "true"
      BY SMTT(60), <1>3 DEF NotNil
    <3> QED BY Zenon, <1>3, <3>1, <3>2 DEF Ahead
  <2> QED BY Zenon, <1>2, <2>3, <2>4, <2>5 DEF Succeeds
<1>5. PICK o \in Outcome : WriteClaim(o, obj, TRUE, ClaimIdle)
  BY Zenon, <1>1 DEF ClaimReport
<1> QED BY Zenon, <1>0, <1>4, <1>5, ClaimWriteKeepsContract
-----------------------------------------------------------------------------
(***************************************************************************)
(* Steps that write no claim.                                              *)
(***************************************************************************)
\* A worker that goes on with the claim it has is not behind: if it may write, it
\* holds what is stored.
LEMMA MoveKeepsAhead ==
    ASSUME IInv, cw.pc \notin {"idle", "report"}, cw'.name = cw.name, cw'.claim = cw.claim,
           claims' = claims, freshClaim' = freshClaim
    PROVE  ReportAhead'
<1>1. SUFFICES ASSUME "controllerWorker" \in freshClaim[cw.name]
               PROVE  Ahead(cw.claim, claims[cw.name])
  BY Zenon DEF ReportAhead, Ahead
<1>2. cw.claim = claims[cw.name] /\ ClaimCopy(cw.name, cw.claim)
  BY Zenon, <1>1, InvariantParts DEF ClaimCoherence, ClaimWorkerOK
<1> QED BY Zenon, <1>2, AheadOfItself

\* A step of somebody else leaves the claim alone, or takes the right to write it.
LEMMA OthersKeepAhead ==
    ASSUME IInv, ReportAhead, cw' = cw,
           \A c \in ClaimName :
             \/ "controllerWorker" \notin freshClaim'[c]
             \/ claims'[c] = claims[c] /\ "controllerWorker" \in freshClaim[c]
    PROVE  ReportAhead'
<1>1. cw.pc = "report" => cw.name \in ClaimName
  BY Zenon, InvariantParts DEF ClaimWorkerOK
<1> QED BY Zenon, <1>1 DEF ReportAhead, Ahead

\* Any change of a Bucket keeps the contract, if the Bucket keeps its owner or takes
\* one that exists.  That nobody else's claim is bound to it is known from the
\* invariant in the new state.
LEMMA BucketWriteKeepsContract ==
    ASSUME IInv, IInv', NEW b \in BucketName, NEW new,
           buckets' = [buckets EXCEPT ![b] = new],
           claims' = claims, backend' = backend, issued' = issued,
           new # None =>
             \/ buckets[b] # None /\ new.refUid = buckets[b].refUid
             \/ /\ buckets[b] # None => buckets[b].refUid = NoUid
                /\ new.refUid \in Uid /\ issued[new.refUid] # None
             \/ buckets[b] = None /\ new.refUid = NoUid
    PROVE  [Contract!Next]_(Contract!vars)
<1>0. /\ TypeOK /\ TypeOK' /\ Copies' /\ buckets'[b] = new
      /\ buckets[b] # None => buckets[b].refUid \in Uid \cup {NoUid}
      /\ new # None => new.refUid \in Uid \cup {NoUid}
  <2>1. TypeOK /\ TypeOK' /\ Copies'
    BY Zenon, InvariantParts
  <2>2. buckets'[b] = new
    BY Zenon, <2>1, TypeParts
  <2>3. buckets[b] \in BucketObject \cup {None} /\ new \in BucketObject \cup {None}
    BY Zenon, <2>1, <2>2, TypeParts
  <2> QED BY Zenon, <2>1, <2>2, <2>3 DEF BucketObject
<1>1. Contract!SetOwner(b, Owner(new)) /\ owner[b] = Owner(buckets[b])
  BY Zenon, <1>0, BucketChanges, Mapped DEF Owner
<1>2. CASE Owner(new) = Owner(buckets[b])
  <2>1. owner' = owner
    BY SMTT(60), <1>1, <1>2 DEF Contract!SetOwner, owner
  <2> QED BY Zenon, <1>1, <2>1 DEF Contract!SetOwner, Contract!vars
<1>3. CASE new = None /\ buckets[b] # None
  <2>1. owner[b] # None /\ Owner(new) = None
    BY Zenon, <1>0, <1>1, <1>3, ContractAssumption DEF Owner
  <2>2. Contract!Remove(b)
    BY Zenon, <1>1, <2>1 DEF Contract!Remove
  <2> QED BY Zenon, <2>2 DEF Contract!Next
<1>4. CASE new # None /\ Owner(new) # Owner(buckets[b])
  <2>1. /\ Owner(new) = new.refUid
        /\ new.refUid \in used \cup {NoUid}
        /\ owner[b] = None \/ (owner[b] = NoUid /\ new.refUid \in used)
    BY Zenon, <1>0, <1>1, <1>4, Mapped DEF Owner
  <2>2. Contract!MayOwn(b, new.refUid)
    <3>1. SUFFICES ASSUME NEW c \in ClaimName, holding[c] # None, holding[c].bucket = b
                   PROVE  holding[c].uid = new.refUid
      BY Zenon DEF Contract!MayOwn
    <3>2. claims[c] # None /\ claims[c] \in ClaimObject /\ holding[c] = Holding(claims[c])
      BY ZenonT(60), <1>0, <3>1, Mapped, TypeParts DEF View
    <3>3. claims[c].boundBucketName = b /\ holding[c].uid = claims[c].uid
      <4>1. PICK claim \in ClaimObject : claim = claims[c]
        BY Zenon, <3>2
      <4>2. Holding(claim).bucket = IF claim.deleting THEN None ELSE claim.boundBucketName
        BY Zenon, HoldingType
      <4>3. Holding(claim).uid = claim.uid /\ b # None
        BY Zenon, HoldingType, ResourceAssumption
      <4> QED BY Zenon, <3>1, <3>2, <4>1, <4>2, <4>3
    <3>4. ClaimCopy(c, claims[c])'
      BY Zenon, <1>0, <3>2 DEF Copies
    <3> QED BY Zenon, <1>0, <1>4, <3>3, <3>4, ResourceAssumption DEF ClaimCopy
  <2>3. Contract!Offer(b) \/ Contract!Take(b)
    BY Zenon, <1>1, <2>1, <2>2 DEF Contract!Offer, Contract!Take
  <2> QED BY Zenon, <2>3 DEF Contract!Next
<1> QED BY Zenon, <1>2, <1>3, <1>4

\* The Controller's writes of Buckets.
LEMMA ControllerBucketKeepsContract ==
    ASSUME IInv, IInv',
           ClaimCreateBucket \/ ClaimBindBucket \/ ClaimAnnotate \/ ClaimDeleteBucket
    PROVE  [Contract!Next]_(Contract!vars) /\ ReportAhead'
<1>0. /\ TypeOK /\ cw.pc \notin {"idle", "report"} /\ cw \in ClaimWorker
      /\ cw.claim \in ClaimObject /\ ClaimCopy(cw.name, cw.claim)
      /\ claims' = claims /\ freshClaim' = freshClaim /\ backend' = backend
      /\ issued' = issued
  BY Zenon, InvariantParts, TypeParts DEF ClaimWorkerOK, ClaimCreateBucket, ClaimBindBucket,
     ClaimAnnotate, ClaimDeleteBucket, unchangedByBucketWrite, storedClaims, envVars
<1>1. PICK b : b = determineBucketName(cw.claim)
  BY Zenon
<1>2. b \in BucketName
  BY Zenon, <1>0, <1>1, NameType
<1>3. cw.claim.uid \in Uid /\ issued[cw.claim.uid] # None
  <2>1. issued[cw.claim.uid] \in Submission
    BY SMTT(60), <1>0, InvariantParts DEF ClaimCopy, ClaimObject, Submission, ClaimWorkerOK
  <2> QED BY ZenonT(60), <1>0, <2>1, ResourceAssumption DEF ClaimObject
<1>a. FailClaim(cw, "retry").name = cw.name /\ FailClaim(cw, "retry").claim = cw.claim
  BY Zenon, <1>0 DEF FailClaim, ClaimWorker
<1>b. \A obj \in BucketObject :
        LET v == [cw EXCEPT !.bucket = obj]
        IN  v \in ClaimWorker /\ v.name = cw.name /\ v.claim = cw.claim
  BY Zenon, <1>0 DEF ClaimWorker
<1>c. buckets' = buckets => [Contract!Next]_(Contract!vars)
  BY Zenon, <1>0, Stutters
<1>4. CASE ClaimCreateBucket
  <2>1. cw.pc = "createBucket" /\ cw.claim.bucketClassName \in ClassName /\ cw.name \in ClaimName
    BY Zenon, <1>4, InvariantParts DEF ClaimCreateBucket, ClaimWorkerOK, ClaimAt
  <2>2. PICK obj : obj = generateIntermediateBucket(cw.claim, cw.name,
                                                    ClassSpec[cw.claim.bucketClassName])
    BY Zenon
  <2>3. obj \in BucketObject /\ obj.refUid = cw.claim.uid
    <3>1. obj \in BucketObject
      BY Zenon, <1>0, <2>1, <2>2, ObjectType
    <3> QED BY Zenon, <2>2, <3>1 DEF generateIntermediateBucket
  <2>4. PICK o \in Outcome :
          /\ Ends(o, buckets[b] = None)
          /\ IF o \in {"ok", "timedOut"} THEN StoreBucket(b, obj) ELSE UNCHANGED storedBuckets
          /\ cw' = IF o = "ok" THEN checkBucketBound([cw EXCEPT !.bucket = obj])
                               ELSE FailClaim(cw, "retry")
    BY Zenon, <1>1, <1>4, <2>2 DEF ClaimCreateBucket
  <2>5. cw'.name = cw.name /\ cw'.claim = cw.claim
    BY Zenon, <1>a, <1>b, <2>3, <2>4, PureCodeKeepsClaim
  <2>6. \/ buckets' = buckets
        \/ buckets[b] = None /\ buckets' = [buckets EXCEPT ![b] = obj]
    BY Zenon, <2>4 DEF Ends, StoreBucket, storedBuckets
  <2>7. [Contract!Next]_(Contract!vars)
    BY Zenon, <1>0, <1>2, <1>3, <1>c, <2>3, <2>6, BucketWriteKeepsContract
  <2> QED BY Zenon, <1>0, <2>5, <2>7, MoveKeepsAhead
<1>5. CASE ClaimBindBucket \/ ClaimAnnotate
  <2>0. cw.pc \in {"bindBucket", "annotate"} /\ cw.bucket \in BucketObject
    BY Zenon, <1>5, InvariantParts DEF ClaimBindBucket, ClaimAnnotate, ClaimWorkerOK, ClaimAt
  <2>1. PICK o \in Outcome, obj \in {[cw.bucket EXCEPT !.refUid = cw.claim.uid],
                                    [cw.bucket EXCEPT !.claimDeleting = TRUE]} :
          /\ WriteBucket(o, b, obj, FALSE, "controllerWorker", FALSE)
          /\ \/ cw.pc = "bindBucket" /\ obj = [cw.bucket EXCEPT !.refUid = cw.claim.uid]
             \/ obj = [cw.bucket EXCEPT !.claimDeleting = TRUE]
          /\ \/ cw' = FailClaim(cw, "retry")
             \/ cw' = checkClaimBound([cw EXCEPT !.bucket = obj])
             \/ \E pc : cw' = [cw EXCEPT !.bucket = obj, !.pc = pc]
    <3>1. CASE ClaimBindBucket
      BY Zenon, <1>1, <3>1 DEF ClaimBindBucket
    <3>2. CASE ClaimAnnotate
      BY Zenon, <1>1, <3>2 DEF ClaimAnnotate
    <3> QED BY Zenon, <1>5, <3>1, <3>2
  <2>2. /\ obj \in BucketObject
        /\ \/ obj.refUid = cw.bucket.refUid
           \/ cw.bucket.refUid = NoUid /\ obj.refUid = cw.claim.uid
    <3>1. cw.pc = "bindBucket" => cw.bucket.refUid = NoUid
      BY Zenon, InvariantParts DEF ClaimWorkerOK, ClaimAt
    <3> QED BY Zenon, <1>3, <2>0, <2>1, <3>1 DEF BucketObject
  <2>3. o \in {"ok", "timedOut"} => buckets[b] = cw.bucket /\ buckets[b] # None
    <3>1. o \in {"ok", "timedOut"} => buckets[b] = cw.bucket
      BY Zenon, <1>1, <2>0, <2>1, InvariantParts DEF WriteBucket, Ends, BoundCoherence
    <3> QED BY Zenon, <2>0, <3>1, ResourceAssumption
  <2>4. PICK new : new = IF o \in {"ok", "timedOut"} THEN Persisted(obj) ELSE buckets[b]
    BY Zenon
  <2>5. buckets' = [buckets EXCEPT ![b] = new]
    BY Zenon, <2>1, <2>4 DEF WriteBucket, StoreBucket
  <2>6. new # None =>
             \/ buckets[b] # None /\ new.refUid = buckets[b].refUid
             \/ /\ buckets[b] # None => buckets[b].refUid = NoUid
                /\ new.refUid \in Uid /\ issued[new.refUid] # None
    BY Zenon, <1>3, <2>2, <2>3, <2>4 DEF Persisted
  <2>7. [Contract!Next]_(Contract!vars)
    BY Zenon, <1>0, <1>2, <2>5, <2>6, BucketWriteKeepsContract
  <2>8. cw'.name = cw.name /\ cw'.claim = cw.claim
    <3>1. CASE cw' = FailClaim(cw, "retry")
      BY Zenon, <1>a, <3>1
    <3>2. CASE cw' = checkClaimBound([cw EXCEPT !.bucket = obj])
      BY Zenon, <1>b, <2>2, <3>2, PureCodeKeepsClaim
    <3>3. CASE \E pc : cw' = [cw EXCEPT !.bucket = obj, !.pc = pc]
      BY Zenon, <1>0, <3>3 DEF ClaimWorker
    <3> QED BY Zenon, <2>1, <3>1, <3>2, <3>3
  <2> QED BY Zenon, <1>0, <2>7, <2>8, MoveKeepsAhead
<1>6. CASE ClaimDeleteBucket
  <2>1. \/ buckets' = buckets
        \/ buckets[b] # None /\ buckets' = [buckets EXCEPT ![b] = Deleted(buckets[b])]
    BY ZenonT(60), <1>0, <1>1, <1>2, <1>6, TypeParts DEF ClaimDeleteBucket, Ends, StoreBucket
  <2>2. buckets[b] # None /\ Deleted(buckets[b]) # None =>
           Deleted(buckets[b]).refUid = buckets[b].refUid
    BY Zenon, <1>0, <1>2, DeletedOK, TypeParts
  <2>3. [Contract!Next]_(Contract!vars)
    BY Zenon, <1>0, <1>2, <1>c, <2>1, <2>2, BucketWriteKeepsContract
  <2>4. cw' = FailClaim(cw, "retry")
    BY Zenon, <1>6 DEF ClaimDeleteBucket
  <2> QED BY Zenon, <1>0, <1>a, <2>3, <2>4, MoveKeepsAhead
<1> QED BY Zenon, <1>4, <1>5, <1>6

\* The Sidecar's writes of Buckets keep the owner.
LEMMA SidecarBucketKeepsContract ==
    ASSUME IInv, IInv', ReportAhead,
           BucketRemoveFinalizer \/ BucketAddFinalizer \/ BucketSetStatus \/ BucketReport
    PROVE  [Contract!Next]_(Contract!vars) /\ ReportAhead'
<1>0. /\ TypeOK /\ sw.pc # "idle" /\ sw \in BucketWorker
      /\ claims' = claims /\ freshClaim' = freshClaim /\ backend' = backend
      /\ issued' = issued /\ cw' = cw
  BY Zenon, InvariantParts, TypeParts DEF BucketRemoveFinalizer, BucketAddFinalizer,
     BucketSetStatus, BucketReport, unchangedBySidecar, storedClaims, claimWorkerVars, envVars
<1>1. PICK b : b = sw.name
  BY Zenon
<1>2. /\ b \in BucketName /\ sw.bucket \in BucketObject
      /\ "sidecarWorker" \in freshBucket[b] =>
           Coherent(sw, buckets[b]) /\ buckets[b] \in BucketObject /\ buckets[b] # None
  <2>1. b \in BucketName /\ sw.bucket \in BucketObject
    BY Zenon, <1>0, <1>1, InvariantParts DEF BucketWorkerOK
  <2> QED BY Zenon, <1>0, <1>1, <2>1, SidecarHolds, ResourceAssumption
<1>3. PICK obj, touch, done :
        /\ \E o \in Outcome : WriteBucket(o, b, obj, touch, "sidecarWorker", done)
        /\ \/ /\ sw.pc \in {"removeFinalizer", "addFinalizer"}
              /\ \E f \in BOOLEAN : obj = [sw.bucket EXCEPT !.finalizer = f]
           \/ \E local : obj = SetBucketStatus(buckets[b], local)
  BY Zenon, <1>1 DEF BucketRemoveFinalizer, BucketAddFinalizer, BucketSetStatus, BucketReport
<1>4. PICK o \in Outcome : WriteBucket(o, b, obj, touch, "sidecarWorker", done)
  BY Zenon, <1>3
<1>5. PICK new : new = IF o \in {"ok", "timedOut"} THEN Persisted(obj) ELSE buckets[b]
  BY Zenon
<1>6. buckets' = [buckets EXCEPT ![b] = new]
  BY Zenon, <1>4, <1>5 DEF WriteBucket, StoreBucket
<1>7. new # None => buckets[b] # None /\ new.refUid = buckets[b].refUid
  <2>1. o \in {"ok", "timedOut"} => "sidecarWorker" \in freshBucket[b]
    BY Zenon, <1>4 DEF WriteBucket, Ends
  <2>2. ASSUME "sidecarWorker" \in freshBucket[b]
        PROVE  obj.refUid = buckets[b].refUid /\ buckets[b] # None
    <3>1. CASE sw.pc \in {"removeFinalizer", "addFinalizer"}
               /\ \E f \in BOOLEAN : obj = [sw.bucket EXCEPT !.finalizer = f]
      <4>1. sw.bucket = buckets[b]
        BY Zenon, <1>2, <2>2, <3>1 DEF Coherent
      <4> QED BY Zenon, <1>2, <2>2, <3>1, <4>1 DEF BucketObject
    <3>2. CASE \E local : obj = SetBucketStatus(buckets[b], local)
      BY Zenon, <1>2, <2>2, <3>2 DEF SetBucketStatus, BucketObject
    <3> QED BY Zenon, <1>3, <3>1, <3>2
  <2> QED BY Zenon, <1>5, <2>1, <2>2 DEF Persisted
<1>8. [Contract!Next]_(Contract!vars)
  BY Zenon, <1>0, <1>2, <1>6, <1>7, BucketWriteKeepsContract
<1>9. ReportAhead'
  BY Zenon, <1>0, OthersKeepAhead
<1> QED BY Zenon, <1>8, <1>9

\* A backend bucket that the Sidecar has made, or that appears, stays as it is.
LEMMA BackendKeepsContract ==
    ASSUME IInv, ReportAhead,
           BucketCreateRpc \/ \E s \in StaticName : BackendAppears(s)
    PROVE  [Contract!Next]_(Contract!vars) /\ ReportAhead'
<1>0. /\ claims' = claims /\ freshClaim' = freshClaim /\ buckets' = buckets
      /\ issued' = issued /\ cw' = cw /\ TypeOK
  BY Zenon, InvariantParts DEF BucketCreateRpc, BackendAppears, unchangedBySidecar,
     unchangedByUser, storedClaims, storedBuckets, claimWorkerVars, envVars
<1>1. ReportAhead'
  BY Zenon, <1>0, OthersKeepAhead
<1>2. \/ backend' = backend
      \/ \E b \in BucketName, served \in Served :
           /\ backend[b] # None => served = backend[b]
           /\ backend' = [backend EXCEPT ![b] = served]
  <2>1. CASE BucketCreateRpc
    <3>1. sw.name \in BucketName
      BY Zenon, <2>1, InvariantParts DEF BucketCreateRpc, BucketWorkerOK
    <3> QED BY Zenon, <2>1, <3>1 DEF BucketCreateRpc
  <2>2. CASE \E s \in StaticName : BackendAppears(s)
    BY Zenon, <2>2 DEF BackendAppears, BucketName
  <2> QED BY Zenon, <2>1, <2>2
<1>3. CASE backend' = backend
  BY Zenon, <1>0, <1>1, <1>3, Stutters
<1>4. ASSUME NEW b \in BucketName, NEW served \in Served,
             backend[b] # None => served = backend[b],
             backend' = [backend EXCEPT ![b] = served]
      PROVE  [Contract!Next]_(Contract!vars)
  <2>1. CASE backend[b] # None
    <3>1. backend' = backend
      BY Zenon, <1>0, <1>4, <2>1, TypeParts
    <3> QED BY Zenon, <1>0, <3>1, Stutters
  <2>2. CASE backend[b] = None
    <3>1. served \in SUBSET Protocol
      BY Zenon, ResourceAssumption
    <3>2. UNCHANGED <<holding, owner, used>>
      BY Zenon, <1>0 DEF holding, owner, used
    <3>3. Contract!Appear(b)
      BY Zenon, <1>4, <2>2, <3>1, <3>2 DEF Contract!Appear
    <3> QED BY Zenon, <3>3 DEF Contract!Next
  <2> QED BY Zenon, <2>1, <2>2
<1> QED BY Zenon, <1>1, <1>2, <1>3, <1>4

\* The admin's writes of Buckets.
LEMMA AdminBucketKeepsContract ==
    ASSUME IInv, IInv', ReportAhead, NEW b \in BucketName,
           \/ b \in StaticName /\ AdminCreateBucket(b)
           \/ AdminDeleteBucket(b) \/ AdminSetPolicy(b) \/ StripBucket(b)
    PROVE  [Contract!Next]_(Contract!vars) /\ ReportAhead'
<1>0. /\ TypeOK /\ (buckets[b] # None => buckets[b] \in BucketObject)
      /\ claims' = claims /\ freshClaim' = freshClaim /\ backend' = backend
      /\ issued' = issued /\ cw' = cw
  BY Zenon, InvariantParts, TypeParts DEF AdminCreateBucket, AdminDeleteBucket, AdminSetPolicy,
     StripBucket, EditBucket, unchangedByUser, storedClaims, claimWorkerVars
<1>1. ReportAhead'
  BY Zenon, <1>0, OthersKeepAhead
<1>2. CASE b \in StaticName /\ AdminCreateBucket(b)
  <2>1. PICK driver \in Driver, policy \in Policy, protos \in Requested, c \in ClaimName :
          \E u \in {NoUid} \cup (IF claims[c] = None THEN {} ELSE {claims[c].uid}) :
            EditBucket(b, NewStaticBucket(driver, policy, protos, c, u))
    BY Zenon, <1>2 DEF AdminCreateBucket
  <2>2. PICK u \in {NoUid} \cup (IF claims[c] = None THEN {} ELSE {claims[c].uid}) :
          EditBucket(b, NewStaticBucket(driver, policy, protos, c, u))
    BY Zenon, <2>1
  <2>3. u = NoUid \/ (u \in Uid /\ issued[u] # None)
    <3>1. CASE u # NoUid
      <4>1. claims[c] # None /\ u = claims[c].uid
        BY Zenon, <2>2, <3>1
      <4>2. claims[c] \in ClaimObject /\ ClaimCopy(c, claims[c])
        BY ZenonT(60), <1>0, <4>1, TypeParts, InvariantParts DEF Copies
      <4>3. issued[u] \in Submission
        BY SMTT(60), <4>1, <4>2 DEF ClaimCopy, ClaimObject, Submission
      <4> QED BY Zenon, <4>1, <4>2, <4>3, ResourceAssumption DEF ClaimObject
    <3> QED BY Zenon, <3>1
  <2>4. PICK new : new = NewStaticBucket(driver, policy, protos, c, u)
    BY Zenon
  <2>5. new.refUid = u /\ buckets[b] = None /\ buckets' = [buckets EXCEPT ![b] = new]
    BY Zenon, <1>2, <2>2, <2>4 DEF AdminCreateBucket, EditBucket, StoreBucket, NewStaticBucket
  <2> QED BY Zenon, <1>0, <1>1, <2>3, <2>5, BucketWriteKeepsContract
<1>3. CASE AdminDeleteBucket(b)
  <2>1. buckets[b] # None /\ buckets' = [buckets EXCEPT ![b] = Deleted(buckets[b])]
    BY Zenon, <1>3 DEF AdminDeleteBucket, EditBucket, StoreBucket
  <2>2. Deleted(buckets[b]) # None => Deleted(buckets[b]).refUid = buckets[b].refUid
    BY Zenon, <2>1, DeletedOK
  <2> QED BY Zenon, <1>0, <1>1, <2>1, <2>2, BucketWriteKeepsContract
<1>4. CASE AdminSetPolicy(b) \/ StripBucket(b)
  <2>1. PICK new : /\ buckets[b] # None /\ new.refUid = buckets[b].refUid
                   /\ buckets' = [buckets EXCEPT ![b] = new]
    BY Zenon, <1>0, <1>4 DEF AdminSetPolicy, StripBucket, EditBucket, StoreBucket, BucketObject
  <2> QED BY Zenon, <1>0, <1>1, <2>1, BucketWriteKeepsContract
<1> QED BY Zenon, <1>2, <1>3, <1>4

\* A user submits a claim, deletes it, or somebody takes its finalizer.
LEMMA UserKeepsContract ==
    ASSUME IInv, IInv', ReportAhead, NEW c \in ClaimName,
           UserCreateClaim(c) \/ UserDeleteClaim(c) \/ StripClaim(c)
    PROVE  [Contract!Next]_(Contract!vars) /\ ReportAhead'
<1>0. TypeOK /\ cw' = cw /\ backend' = backend
  BY Zenon, InvariantParts DEF UserCreateClaim, UserDeleteClaim, StripClaim, unchangedByUser,
     claimWorkerVars
<1>1. PICK new :
        /\ EditClaim(c, new)
        /\ \/ /\ claims[c] = None
              /\ \E u \in Uid, sub \in Submissions(c) :
                   /\ issued[u] = None /\ issued' = [issued EXCEPT ![u] = sub]
                   /\ new = NewClaim(u, sub)
           \/ /\ claims[c] # None /\ ~claims[c].deleting /\ issued' = issued
              /\ new \in {Deleted(claims[c]), [claims[c] EXCEPT !.finalizer = FALSE]}
  BY Zenon DEF UserCreateClaim, UserDeleteClaim, StripClaim
<1>2. /\ claims' = [claims EXCEPT ![c] = new] /\ buckets' = buckets
      /\ freshClaim' = [freshClaim EXCEPT ![c] = {}]
  BY Zenon, <1>1 DEF EditClaim, StoreClaim, storedBuckets
<1>3. ReportAhead'
  <2>1. \A k \in ClaimName :
          \/ "controllerWorker" \notin freshClaim'[k]
          \/ claims'[k] = claims[k] /\ "controllerWorker" \in freshClaim[k]
    BY Zenon, <1>0, <1>2, TypeParts
  <2> QED BY Zenon, <1>0, <2>1, OthersKeepAhead
<1>4. Contract!SetClaim(c, View(new))
  BY Zenon, <1>0, <1>2, ClaimChanges
<1>5. ASSUME NEW u \in Uid, NEW sub \in Submissions(c), claims[c] = None,
             issued[u] = None, issued' = [issued EXCEPT ![u] = sub], new = NewClaim(u, sub)
      PROVE  Contract!Request(c)
  <2>1. sub \in Submission /\ sub # None
    BY Zenon, ResourceAssumption DEF Submissions
  <2>2. new \in ClaimObject
    BY Zenon, <1>5, <2>1, ObjectType
  <2>3. /\ new.uid = u /\ ~new.deleting /\ new.readyToUse # "true"
        /\ new.boundBucketName = None
    BY Zenon, <1>5 DEF NewClaim
  <2>4. View(new) = Contract!Pending(u)
    BY Zenon, <2>2, <2>3, HoldingType, HoldingIs DEF Contract!Pending
  <2>5. u \in Uid \ used
    BY Zenon, <1>5 DEF used
  <2>6. used' = used \cup {u}
    BY SMTT(60), <1>0, <1>5, <2>1, TypeParts DEF used
  <2>7. holding[c] = None
    BY Zenon, <1>5 DEF holding
  <2> QED BY Zenon, <1>4, <2>4, <2>5, <2>6, <2>7 DEF Contract!Request
<1>6. ASSUME claims[c] # None, ~claims[c].deleting, issued' = issued,
             new \in {Deleted(claims[c]), [claims[c] EXCEPT !.finalizer = FALSE]}
      PROVE  [Contract!Next]_(Contract!vars)
  <2>1. /\ claims[c] \in ClaimObject /\ used' = used /\ ClaimCopy(c, claims[c])
        /\ new # None => ClaimCopy(c, new)
    <3>1. claims[c] \in ClaimObject /\ used' = used /\ ClaimCopy(c, claims[c])
      BY Zenon, <1>0, <1>6, TypeParts, InvariantParts DEF used, Copies
    <3>2. ASSUME new # None PROVE ClaimCopy(c, new)
      <4>1. new \in {[claims[c] EXCEPT !.deleting = TRUE],
                     [claims[c] EXCEPT !.finalizer = FALSE]}
        BY Zenon, <1>6, <3>2 DEF Deleted, Persisted
      <4>2. /\ new.uid = claims[c].uid /\ new.bucketClassName = claims[c].bucketClassName
            /\ new.existingBucketName = claims[c].existingBucketName
            /\ new.protocols = claims[c].protocols
            /\ new.boundBucketName = claims[c].boundBucketName
            /\ new.readyToUse = claims[c].readyToUse
            /\ new.statusProtocols = claims[c].statusProtocols
        BY Zenon, <3>1, <4>1 DEF ClaimObject
      <4> QED BY Zenon, <3>1, <4>2 DEF ClaimCopy, determineBucketName, isStaticProvisioning
    <3> QED BY Zenon, <3>1, <3>2
  <2>2. holding[c] = Holding(claims[c]) /\ holding[c] # None
        /\ holding[c].uid = claims[c].uid /\ holding[c].stage # "ending"
    <3>1. holding[c] = Holding(claims[c])
      BY Zenon, <1>6 DEF holding
    <3> QED BY Zenon, <1>6, <2>1, <3>1, HoldingType DEF View, StageOf
  <2>3. CASE new = None
    BY Zenon, <1>4, <2>1, <2>2, <2>3 DEF Contract!Leave, Contract!Next, View
  <2>4. CASE new # None /\ new = Deleted(claims[c])
    <3>1. new = [claims[c] EXCEPT !.deleting = TRUE]
      BY Zenon, <2>4 DEF Deleted, Persisted
    <3>2. new \in ClaimObject /\ new.deleting /\ new.uid = claims[c].uid
      BY Zenon, <2>1, <3>1 DEF ClaimObject
    <3>3. View(new) = Contract!Ending(claims[c].uid)
      BY ZenonT(60), <3>2, HoldingType, HoldingIs DEF Contract!Ending
    <3>4. Contract!Withdraw(c)
      BY Zenon, <1>4, <2>1, <2>2, <3>3 DEF Contract!Withdraw
    <3> QED BY Zenon, <3>4 DEF Contract!Next
  <2>5. CASE new # None /\ new = [claims[c] EXCEPT !.finalizer = FALSE]
    <3>1. /\ new \in ClaimObject /\ new.uid = claims[c].uid
          /\ new.deleting = claims[c].deleting /\ new.readyToUse = claims[c].readyToUse
          /\ new.boundBucketName = claims[c].boundBucketName
      BY Zenon, <2>1, <2>5 DEF ClaimObject
    <3>2. Ahead(claims[c], claims[c])
      BY Zenon, <2>1, AheadOfItself
    <3>3. Succeeds(new, claims[c])
      BY Zenon, <3>1, <3>2 DEF Succeeds, Ahead
    <3> QED BY Zenon, <1>0, <1>2, <1>6, <2>1, <2>5, <3>3, SuccessorKeepsContract
  <2> QED BY Zenon, <1>6, <2>3, <2>4, <2>5
<1>7. [Contract!Next]_(Contract!vars)
  <2>1. CASE claims[c] = None
    BY Zenon, <1>1, <1>5, <2>1 DEF Contract!Next
  <2>2. CASE claims[c] # None
    BY Zenon, <1>1, <1>6, <2>2
  <2> QED BY Zenon, <2>1, <2>2
<1> QED BY Zenon, <1>3, <1>7
-----------------------------------------------------------------------------
(***************************************************************************)
(* Steps that users do not see.                                            *)
(***************************************************************************)
\* A reconcile begins with the status that the cache has.
LEMMA ClaimStartKeepsContract ==
    ASSUME IInv, NEW c \in ClaimName, ClaimStart(c)
    PROVE  [Contract!Next]_(Contract!vars) /\ ReportAhead'
<1>1. [Contract!Next]_(Contract!vars)
  BY Zenon, Stutters DEF ClaimStart, storedBuckets, envVars
<1>2. cw'.pc # "report"
  <2>1. CASE claimCache[c] = None
    BY Zenon, <2>1, IdleOK DEF ClaimStart, ClaimIdle
  <2>2. CASE claimCache[c] # None
    <3>1. claimCache[c] \in ClaimObject /\ ClaimCopy(c, claimCache[c])
      BY Zenon, <2>2, InvariantParts, TypeParts DEF Copies
    <3>2. cw' = startClaim(c, claimCache[c])
      BY Zenon, <2>2 DEF ClaimStart
    <3> QED BY Zenon, <3>1, <3>2, StartClaimOK
  <2> QED BY Zenon, <2>1, <2>2
<1> QED BY Zenon, <1>1, <1>2 DEF ReportAhead

\* Reading the Bucket changes neither the claim nor the worker's copy of it.
LEMMA ClaimGetKeepsContract ==
    ASSUME IInv, ClaimGetBucket \/ ClaimGetBucketToDelete
    PROVE  [Contract!Next]_(Contract!vars) /\ ReportAhead'
<1>1. PICK b : b = determineBucketName(cw.claim)
  BY Zenon
<1>2. PICK v : v = [cw EXCEPT !.bucket = bucketCache[b]]
  BY Zenon
<1>3. /\ ReadBucket(b) /\ cw.pc \notin {"idle", "report"}
      /\ cw' \in {bucketNotFound(v), checkBucketBound(v), deleteDecision(v)}
  BY Zenon, <1>1, <1>2 DEF ClaimGetBucket, ClaimGetBucketToDelete
<1>4. v \in ClaimWorker /\ v.name = cw.name /\ v.claim = cw.claim
  <2>1. cw \in ClaimWorker /\ cw.claim \in ClaimObject /\ ClaimCopy(cw.name, cw.claim)
    BY Zenon, <1>3, InvariantParts, TypeParts DEF ClaimWorkerOK
  <2>2. b \in BucketName
    BY Zenon, <1>1, <2>1, NameType
  <2>3. bucketCache[b] \in BucketObject \cup {None}
    BY Zenon, <2>2, InvariantParts, TypeParts
  <2> QED BY Zenon, <1>2, <2>1, <2>3 DEF ClaimWorker
<1>5. cw'.name = cw.name /\ cw'.claim = cw.claim
  BY Zenon, <1>3, <1>4, PureCodeKeepsClaim
<1>6. [Contract!Next]_(Contract!vars)
  BY Zenon, <1>3, Stutters DEF ReadBucket, storedClaims, envVars
<1>7. claims' = claims /\ freshClaim' = freshClaim
  BY Zenon, <1>3 DEF ReadBucket, storedClaims
<1> QED BY Zenon, <1>3, <1>5, <1>6, <1>7, MoveKeepsAhead

\* The Sidecar's reads, the caches, restarts, and the classes.
LEMMA QuietStepKeepsContract ==
    ASSUME IInv, ReportAhead,
           \/ \E b \in BucketName : BucketStart(b) \/ ControllerBucketSync(b) \/ SidecarBucketSync(b)
           \/ BucketGetRpc
           \/ \E c \in ClaimName : ClaimCacheSync(c)
           \/ ControllerRestart \/ SidecarRestart
           \/ \E k \in ClassName : AdminCreateClass(k)
           \/ UNCHANGED vars
    PROVE  [Contract!Next]_(Contract!vars) /\ ReportAhead'
<1>1. claims' = claims /\ buckets' = buckets /\ backend' = backend /\ issued' = issued
  BY Zenon DEF BucketStart, ControllerBucketSync, SidecarBucketSync, BucketGetRpc, ClaimCacheSync,
     ControllerRestart, SidecarRestart, AdminCreateClass, vars, storedClaims, storedBuckets,
     envVars, unchangedBySidecar, unchangedByUser
<1>2. [Contract!Next]_(Contract!vars)
  BY Zenon, <1>1, Stutters
<1>3. CASE ControllerRestart
  BY Zenon, <1>2, <1>3 DEF ControllerRestart, ReportAhead, ClaimIdle
<1>4. CASE \E c \in ClaimName : ClaimCacheSync(c)
  <2>1. PICK c \in ClaimName : ClaimCacheSync(c)
    BY Zenon, <1>4
  <2>2. cw' = cw /\ freshClaim' = [freshClaim EXCEPT ![c] = @ \cup {"controllerCache"}]
    BY Zenon, <2>1 DEF ClaimCacheSync
  <2>3. \A k \in ClaimName :
          "controllerWorker" \in freshClaim'[k] => "controllerWorker" \in freshClaim[k]
    BY SMTT(60), <2>2, InvariantParts, TypeParts
  <2> QED BY Zenon, <1>1, <1>2, <2>2, <2>3, OthersKeepAhead
<1>5. CASE cw' = cw /\ freshClaim' = freshClaim
  BY Zenon, <1>1, <1>2, <1>5, OthersKeepAhead
<1>6. \/ ControllerRestart \/ \E c \in ClaimName : ClaimCacheSync(c)
      \/ (cw' = cw /\ freshClaim' = freshClaim)
  BY Zenon DEF BucketStart, ControllerBucketSync, SidecarBucketSync, BucketGetRpc,
     SidecarRestart, AdminCreateClass, vars, storedClaims, claimWorkerVars,
     unchangedBySidecar, unchangedByUser
<1> QED BY Zenon, <1>3, <1>4, <1>5, <1>6
-----------------------------------------------------------------------------
(***************************************************************************)
(* The refinement.                                                         *)
(***************************************************************************)
\* Initially there are no claims, no Buckets and no backend buckets.
LEMMA InitKeepsContract ==
    ASSUME Init
    PROVE  Contract!Init /\ ReportAhead
<1>1. ReportAhead
  BY Zenon DEF Init, ReportAhead, ClaimIdle
<1>2. holding = [c \in ClaimName |-> None]
  BY Zenon DEF Init, holding
<1>3. owner = [b \in BucketName |-> None]
  BY Zenon DEF Init, owner
<1>4. used = {}
  BY Zenon DEF Init, used
<1> QED BY Zenon, <1>1, <1>2, <1>3, <1>4 DEF Init, Contract!Init

\* Every step of the system is a step of the contract, or users do not see it.
LEMMA NextKeepsContract ==
    ASSUME IInv, IInv', ReportAhead, [Next]_vars
    PROVE  [Contract!Next]_(Contract!vars) /\ ReportAhead'
<1> DEFINE Kept == [Contract!Next]_(Contract!vars) /\ ReportAhead'
<1> SUFFICES Kept
  OBVIOUS
<1>1. CASE Controller
  <2>1. ASSUME NEW c \in ClaimName, ClaimStart(c) PROVE Kept
    BY Zenon, <2>1, ClaimStartKeepsContract
  <2>2. CASE ClaimAddFinalizer \/ ClaimRemoveFinalizer
    BY Zenon, <2>2, ClaimFinalizerKeepsContract
  <2>3. CASE ClaimGetBucket \/ ClaimGetBucketToDelete
    BY Zenon, <2>3, ClaimGetKeepsContract
  <2>4. CASE ClaimCreateBucket \/ ClaimBindBucket \/ ClaimAnnotate \/ ClaimDeleteBucket
    BY Zenon, <2>4, ControllerBucketKeepsContract
  <2>5. CASE ClaimBind
    BY Zenon, <2>5, ClaimBindKeepsContract
  <2>6. CASE ClaimSetReady
    BY Zenon, <2>6, ClaimSetReadyKeepsContract
  <2>7. CASE ClaimReport
    BY Zenon, <2>7, ClaimReportKeepsContract
  <2>8. CASE ClaimClearStatus
    BY Zenon, <2>8, ClaimClearStatusKeepsContract
  <2> HIDE DEF Kept
  <2> QED
    BY ZenonT(60), <1>1, <2>1, <2>2, <2>3, <2>4, <2>5, <2>6, <2>7, <2>8 DEF Controller, ClaimStep
<1>2. CASE Sidecar
  <2>1. CASE (\E b \in BucketName : BucketStart(b)) \/ BucketGetRpc
    BY Zenon, <2>1, QuietStepKeepsContract
  <2>2. CASE BucketRemoveFinalizer \/ BucketAddFinalizer \/ BucketSetStatus \/ BucketReport
    BY Zenon, <2>2, SidecarBucketKeepsContract
  <2>3. CASE BucketCreateRpc
    BY Zenon, <2>3, BackendKeepsContract
  <2> HIDE DEF Kept
  <2> QED BY Zenon, <1>2, <2>1, <2>2, <2>3 DEF Sidecar, BucketStep
<1>3. CASE Runtime
  BY Zenon, <1>3, QuietStepKeepsContract DEF Runtime
<1>4. CASE Environment
  <2>1. ASSUME NEW c \in ClaimName, UserCreateClaim(c) \/ UserDeleteClaim(c) \/ StripClaim(c)
        PROVE  Kept
    BY Zenon, <2>1, UserKeepsContract
  <2>2. ASSUME NEW s \in StaticName, AdminCreateBucket(s) PROVE Kept
    BY Zenon, <2>2, AdminBucketKeepsContract DEF BucketName
  <2>3. ASSUME NEW b \in BucketName, AdminDeleteBucket(b) \/ AdminSetPolicy(b) \/ StripBucket(b)
        PROVE  Kept
    BY Zenon, <2>3, AdminBucketKeepsContract
  <2>4. CASE \E s \in StaticName : BackendAppears(s)
    BY Zenon, <2>4, BackendKeepsContract
  <2>5. CASE \E k \in ClassName : AdminCreateClass(k)
    BY Zenon, <2>5, QuietStepKeepsContract
  <2> HIDE DEF Kept
  <2> QED BY Zenon, <1>4, <2>1, <2>2, <2>3, <2>4, <2>5 DEF Environment
<1>5. CASE UNCHANGED vars
  BY Zenon, <1>5, QuietStepKeepsContract
<1> HIDE DEF Kept
<1> QED BY Zenon, <1>1, <1>2, <1>3, <1>4, <1>5 DEF Next

\* What BucketClaimReconciler.Reconcile writes when a reconcile fails never takes
\* the claim's status back: if the write is accepted, the status it carries is
\* that of the API server or one stage ahead.
THEOREM ErrorReportIsAhead == Spec => []ReportAhead
<1>1. Init => ReportAhead
  BY Zenon, InitKeepsContract
<1>2. IInv /\ IInv' /\ ReportAhead /\ [Next]_vars => ReportAhead'
  BY Zenon, NextKeepsContract
<1> QED BY <1>1, <1>2, Invariance, PTL DEF Spec

\* The reconcilers of provisioning, with their caches, conflicts, lost answers,
\* restarts and edits by others, implement the contract.
THEOREM ContractIsKept == Spec => ContractKept
<1>1. Init => Contract!Init
  BY Zenon, InitKeepsContract
<1>2. IInv /\ IInv' /\ ReportAhead /\ [Next]_vars => [Contract!Next]_(Contract!vars)
  BY Zenon, NextKeepsContract
<1> QED BY <1>1, <1>2, Invariance, ErrorReportIsAhead, PTL DEF Spec, ContractKept, Contract!Spec
=============================================================================
