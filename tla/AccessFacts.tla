----------------------------- MODULE AccessFacts ----------------------------
(***************************************************************************)
(* Facts about the operators of Access that the proofs share: what a call  *)
(* or a loop changes, what a step does to the copies of accesses, and what *)
(* the steps that touch Secrets and accounts do to them.                   *)
(***************************************************************************)
EXTENDS AccessMoves, TLAPS

\* The invariant by conjunct.  The proofs cite this lemma where they look inside IInv,
\* now and after the step.
LEMMA InvariantParts ==
    /\ IInv <=> /\ AccessesOK /\ ControllerHolds(cw) /\ SidecarHolds(sw)
                /\ CachesOK /\ ControllerOK /\ SidecarOK
                /\ ClaimsOK /\ SecretsOK /\ CountersOK /\ FaultsOK
    /\ IInv' <=> /\ AccessesOK' /\ ControllerHolds(cw)' /\ SidecarHolds(sw)'
                 /\ CachesOK' /\ ControllerOK' /\ SidecarOK'
                 /\ ClaimsOK' /\ SecretsOK' /\ CountersOK' /\ FaultsOK'
BY Zenon DEF IInv
-----------------------------------------------------------------------------
(***************************************************************************)
(* Access objects and the events that their changes make.                  *)
(***************************************************************************)
\* The fields of an access.
LEMMA ObjFields ==
    ASSUME NEW x \in Obj
    PROVE  /\ x.uid \in Uid /\ x.spec \in AccessSpec /\ x.finalizer \in BOOLEAN
           /\ x.deleting \in BOOLEAN /\ x.cleanupFinished \in BOOLEAN
           /\ x.override \in BOOLEAN /\ x.readyToUse \in ReadyToUse
           /\ x.accountID \in BOOLEAN /\ x.accessedBuckets \subseteq ClaimName
           /\ x.driverName \in {ThisDriver, None}
           /\ x.authenticationType \in AuthType \cup {None} /\ x.error \in Error
BY Zenon DEF Obj, AccessObject

\* An access with the annotations of the hand-back and of the override changed.
LEMMA WithAnnotation ==
    ASSUME NEW x \in Obj, NEW y,
           \/ y = [x EXCEPT !.cleanupFinished = TRUE]
           \/ y = [x EXCEPT !.override = ~@]
    PROVE  /\ y \in Obj /\ SameStatus(x, y) /\ y.finalizer = x.finalizer
           /\ y.deleting = x.deleting /\ y.uid = x.uid
BY Zenon DEF Obj, AccessObject, WellFormed, SameStatus

\* An access with an error, as it is reported.
LEMMA WithError ==
    ASSUME NEW x \in Obj, NEW e \in Error, NEW y,
           y = [x EXCEPT !.readyToUse = NotNil(@), !.error = e]
    PROVE  y \in Obj /\ SameMetadata(x, y) /\ SameFinal(x, y) /\ y.error = e
<1>1. NotNil(x.readyToUse) \in ReadyToUse
  BY Zenon, ObjFields DEF NotNil, ReadyToUse
<1> QED BY Zenon, <1>1 DEF Obj, AccessObject, WellFormed, SameMetadata, SameFinal

\* An access that is ready, and one whose status is cleared.
LEMMA WithReady ==
    ASSUME NEW x \in Obj, NEW y,
           y = [x EXCEPT !.accountID = TRUE, !.readyToUse = "true", !.error = "none"]
    PROVE  /\ y \in Obj /\ SameMetadata(x, y) /\ SameFinal(x, y)
           /\ y.readyToUse = "true"
BY Zenon DEF Obj, AccessObject, WellFormed, SameMetadata, SameFinal, Error, ReadyToUse

\* An access whose status is cleared.
LEMMA WithClearedStatus ==
    ASSUME NEW x \in Obj, NEW y, y = [x EXCEPT !.readyToUse = "false", !.error = "none"]
    PROVE  y \in Obj /\ SameMetadata(x, y) /\ SameFinal(x, y)
BY Zenon DEF Obj, AccessObject, WellFormed, SameMetadata, SameFinal, Error, ReadyToUse

\* Status().Update writes the status of the copy and keeps the stored metadata.
LEMMA WithStatus ==
    ASSUME NEW x \in Obj, NEW local \in Obj, NEW y, y = SetAccessStatus(x, local)
    PROVE  y \in Obj /\ SameMetadata(x, y) /\ SameStatus(local, y)
BY Zenon DEF Obj, AccessObject, WellFormed, SameMetadata, SameStatus, SetAccessStatus

\* What the API server stores of an access.
LEMMA PersistedObject ==
    ASSUME NEW x \in Obj
    PROVE  /\ Persisted(x) \in {x, None}
           /\ ~x.deleting => Persisted(x) = x
           /\ Persisted(x) \in Obj \cup {None}
BY Zenon DEF Persisted

\* Readiness is never nil once it is reported.
LEMMA NotNilType == \A r \in ReadyToUse : NotNil(r) \in ReadyToUse
BY Zenon DEF NotNil, ReadyToUse

\* The Sidecar's requirements are there exactly from the handoff on.
LEMMA Requirements ==
    ASSUME NEW x \in Obj
    PROVE  /\ x.driverName = None => SidecarRequirementsPresent(x) = "none"
           /\ x.driverName # None => SidecarRequirementsPresent(x) = "all"
<1> DEFINE F == {"accessedBuckets", "driverName", "authenticationType"}
           S == {f \in F : CASE f = "accessedBuckets" -> x.accessedBuckets # {}
                             [] f = "driverName" -> x.driverName # None
                             [] f = "authenticationType" -> x.authenticationType # None}
<1>1. x.driverName = None => S = {}
  BY Zenon DEF Obj, WellFormed
<1>2. x.driverName # None => S = F
  BY Zenon DEF Obj, WellFormed
<1> QED BY Zenon, <1>1, <1>2 DEF SidecarRequirementsPresent
-----------------------------------------------------------------------------
(***************************************************************************)
(* Calls to the API server.                                                *)
(***************************************************************************)
\* A call uses up at most one fault.
LEMMA EndsKeeps ==
    ASSUME FaultsOK, NEW o, NEW ok, Ends(o, ok) PROVE FaultsOK'
BY SMTT(60), AccessBounds DEF FaultsOK, Ends

\* Storing an access changes only that one, and makes its events.
LEMMA StoreFacts ==
    ASSUME AccessesOK, NEW a \in AccessName, NEW new \in Obj \cup {None}, StoreAccess(a, new)
    PROVE  Stored(a) /\ accesses'[a] = new
<1>1. accesses'[a] = new /\ accesses' \in [AccessName -> Obj \cup {None}]
  BY Zenon DEF AccessesOK, StoreAccess
<1>2. \A x \in AccessName : x # a => accesses'[x] = accesses[x]
  BY Zenon DEF AccessesOK, StoreAccess
<1>3. /\ controllerEvents' \in {controllerEvents, controllerEvents \cup {a}}
      /\ ControllerEnqueues(accesses[a], new) => a \in controllerEvents'
  BY Zenon DEF StoreAccess
<1>4. /\ sidecarEvents' \in {sidecarEvents, sidecarEvents \cup {a}}
      /\ SidecarEnqueues(accesses[a], new) => a \in sidecarEvents'
  BY Zenon DEF StoreAccess
<1>5. controllerEvents \subseteq AccessName /\ sidecarEvents \subseteq AccessName
  BY Zenon DEF AccessesOK
<1>6. controllerEvents \subseteq controllerEvents' /\ controllerEvents' \subseteq AccessName
  BY Zenon, <1>3, <1>5
<1>7. sidecarEvents \subseteq sidecarEvents' /\ sidecarEvents' \subseteq AccessName
  BY Zenon, <1>4, <1>5
<1> QED BY Zenon, <1>1, <1>2, <1>3, <1>4, <1>6, <1>7 DEF Stored

\* An accepted write was made from the current version, and outdates all other copies.
LEMMA WriteFacts ==
    ASSUME AccessesOK, FaultsOK, NEW a \in AccessName, NEW o \in Outcome, NEW obj,
           NEW touch \in BOOLEAN, NEW w \in AccessHolder, NEW done \in BOOLEAN,
           w \in freshAccess[a] => Persisted(obj) \in Obj \cup {None},
           WriteAccess(o, a, obj, touch, w, done)
    PROVE  Written(o, a, obj, w, done) /\ FaultsOK'
<1>1. PICK new : new = IF Applied(o) THEN Persisted(obj) ELSE accesses[a]
  BY Zenon
<1>2. PICK mine : mine = AfterWrite(o, freshAccess[a], accesses[a], new, touch, w)
  BY Zenon
<1>3. PICK fresh : fresh = [freshAccess EXCEPT ![a] = mine]
  BY Zenon
<1>4. /\ Ends(o, w \in freshAccess[a]) /\ StoreAccess(a, new)
      /\ freshAccess' = IF done THEN Forget(fresh, w) ELSE fresh
  BY Zenon, <1>1, <1>2, <1>3 DEF WriteAccess
<1>5. FaultsOK'
  BY Zenon, <1>4, EndsKeeps
<1>6. Applied(o) => w \in freshAccess[a]
  BY Zenon, <1>4 DEF Ends, Applied
<1>7. accesses \in [AccessName -> Obj \cup {None}]
      /\ freshAccess \in [AccessName -> SUBSET AccessHolder]
  BY Zenon DEF AccessesOK
<1>8. new \in Obj \cup {None}
  BY Zenon, <1>1, <1>6, <1>7
<1>9. Stored(a) /\ accesses'[a] = new
  BY Zenon, <1>4, <1>8, StoreFacts
<1>10. /\ mine \subseteq freshAccess[a]
       /\ new # accesses[a] => mine \subseteq {w}
       /\ new # accesses[a] /\ mine # {} => o = "ok" /\ new # None
  BY Zenon, <1>1, <1>2, <1>6 DEF AfterWrite, Applied
<1>11. /\ fresh \in [AccessName -> SUBSET AccessHolder] /\ fresh[a] = mine
       /\ \A x \in AccessName : x # a => fresh[x] = freshAccess[x]
  BY Zenon, <1>3, <1>7, <1>10
<1>12. /\ freshAccess' \in [AccessName -> SUBSET AccessHolder]
       /\ \A x \in AccessName : freshAccess'[x] \subseteq fresh[x]
       /\ done => \A x \in AccessName : w \notin freshAccess'[x]
  <2>1. CASE done
    BY Zenon, <1>4, <1>11, <2>1 DEF Forget
  <2>2. CASE ~done
    BY Zenon, <1>4, <1>11, <2>2
  <2> QED BY Zenon, <2>1, <2>2
<1>13. OnlyWriter(w)
  <2> SUFFICES ASSUME NEW x \in AccessName, NEW h \in AccessHolder, h \in freshAccess'[x]
               PROVE  h \in freshAccess[x] /\ (h = w \/ accesses'[x] = accesses[x])
    BY Zenon DEF OnlyWriter
  <2>1. h \in fresh[x]
    BY Zenon, <1>12
  <2>2. CASE x = a
    BY Zenon, <1>9, <1>10, <1>11, <2>1, <2>2
  <2>3. CASE x # a
    BY Zenon, <1>9, <1>11, <2>1, <2>3 DEF Stored
  <2> QED BY Zenon, <2>2, <2>3
<1>14. done => Forgotten(w)
  BY Zenon, <1>12 DEF Forgotten
<1>15. w \in freshAccess'[a] =>
         accesses'[a] = accesses[a] \/ (o = "ok" /\ accesses'[a] # None)
  BY Zenon, <1>9, <1>10, <1>11, <1>12
<1> QED
  BY Zenon, <1>1, <1>5, <1>6, <1>9, <1>12, <1>13, <1>14, <1>15 DEF Written
-----------------------------------------------------------------------------
(***************************************************************************)
(* What keeps the accesses watched.                                        *)
(***************************************************************************)
\* A write of one worker leaves every other holder with the stored access or none.
LEMMA OthersKept ==
    ASSUME NEW w, OnlyWriter(w), NEW h \in AccessHolder, h # w
    PROVE  HolderKept(h)
BY Zenon DEF OnlyWriter, HolderKept
-----------------------------------------------------------------------------
(***************************************************************************)
(* The Controller's steps.                                                 *)
(***************************************************************************)
\* An idle Controller.
LEMMA ControllerIdleOK ==
    /\ ControllerHolds(ControllerIdle)
    /\ ControllerIdle.pc = "idle" /\ ControllerIdle.name = None
BY Zenon DEF ControllerHolds, ControllerIdle, ControllerWorker, ControllerPc, NoClaims, Error,
       Preparing, Retiring

\* A reconcile that failed.
LEMMA FailControllerOK ==
    ASSUME NEW w \in ControllerWorker, w.name \in AccessName, w.access \in Obj,
           NEW e \in Error, NEW v, v = FailController(w, e)
    PROVE  /\ ControllerHolds(v)
           /\ v.pc = "report" /\ v.name = w.name /\ v.access = w.access /\ v.error = e
BY ZenonT(30) DEF ControllerHolds, ControllerWorker, ControllerPc, NoClaims, FailController,
       Preparing, Retiring

\* The Controller's copy is the stored access when it writes.
LEMMA ControllerCopy ==
    ASSUME IInv, "controllerWorker" \in freshAccess[cw.name], cw.pc \notin {"idle", "report"}
    PROVE  cw.access = accesses[cw.name] /\ cw.access \in Obj /\ cw.name \in AccessName
BY Zenon, InvariantParts DEF ControllerOK, ControllerCoherent, ControllerHolds

\* A reference list names claims, and is not empty.
LEMMA ReferencesOK ==
    ASSUME NEW x \in Obj
    PROVE  /\ References(x) \subseteq ClaimName /\ References(x) # {}
           /\ \A c \in References(x) : x.spec.refs[c] \in Ref
           /\ x.spec.protocol \in Protocol
<1>1. x.spec \in AccessSpec
  BY Zenon, ObjFields
<1> QED BY Zenon, <1>1, AccessAssumption DEF References

\* What the Controller hands over is complete.
LEMMA HandedOver ==
    ASSUME NEW x \in Obj, NEW y,
           y = [x EXCEPT !.readyToUse = NotNil(@), !.accessedBuckets = References(x),
                         !.driverName = Class.driverName,
                         !.authenticationType = Class.authenticationType, !.error = "none"]
    PROVE  y \in Obj /\ SameMetadata(x, y) /\ y.driverName # None
<1>1. References(x) \subseteq ClaimName /\ References(x) # {}
  BY Zenon, ReferencesOK
<1>2. /\ Class.driverName = ThisDriver /\ ThisDriver # None
      /\ Class.authenticationType \in AuthType /\ Class.authenticationType # None
  BY Zenon, AccessAssumption DEF ClassObject
<1>3. NotNil(x.readyToUse) \in ReadyToUse /\ "none" \in Error
  BY Zenon, ObjFields, NotNilType DEF Error
<1> QED BY ZenonT(30), <1>1, <1>2, <1>3 DEF Obj, AccessObject, WellFormed, SameMetadata

\* The worst of two errors is an error.
LEMMA JoinType == \A e, f : Join(e, f) \in Error
BY Zenon DEF Join, Error, TerminalError

\* The checks before the handoff end in an error or at the handoff: what is not handed
\* over has no accessed buckets.
LEMMA InitialiseOK ==
    ASSUME ControllerHolds(cw), cw.pc = "readBuckets", NEW bkts, NEW v, v = initialise(cw, bkts)
    PROVE  /\ ControllerHolds(v) /\ v.name = cw.name /\ v.access = cw.access
           /\ v.pc \in {"report", "handoff"}
<1>1. /\ cw \in ControllerWorker /\ cw.name \in AccessName /\ cw.access \in Obj
      /\ cw.access.driverName = None /\ ~cw.access.deleting
  BY Zenon DEF ControllerHolds, Preparing
<1>2. cw.access.accessedBuckets = {}
  BY Zenon, <1>1 DEF Obj, WellFormed
<1>3. \/ v = FailController(cw, "retry") \/ v = FailController(cw, "terminal")
      \/ v = [cw EXCEPT !.pc = "handoff", !.claims = NoClaims]
  BY Zenon, <1>2 DEF initialise
<1>4. "retry" \in Error /\ "terminal" \in Error
  BY Zenon DEF Error, TerminalError
<1>5. CASE v = FailController(cw, "retry")
  BY SMTT(60), <1>1, <1>4, <1>5, FailControllerOK
<1>6. CASE v = FailController(cw, "terminal")
  BY SMTT(60), <1>1, <1>4, <1>6, FailControllerOK
<1>7. CASE v = [cw EXCEPT !.pc = "handoff", !.claims = NoClaims]
  <2>1. NoClaims \in [ClaimName -> ClaimObject \cup {None}]
    BY Zenon DEF NoClaims
  <2>2. /\ v \in ControllerWorker /\ v.pc = "handoff"
        /\ v.name = cw.name /\ v.access = cw.access
    BY Zenon, <1>1, <1>7, <2>1 DEF ControllerWorker, ControllerPc
  <2> QED BY Zenon, <1>1, <2>2 DEF ControllerHolds, Preparing, Retiring
<1> QED BY Zenon, <1>3, <1>5, <1>6, <1>7

\* A reconcile that starts: it takes up what is the Controller's.
LEMMA StartControllerOK ==
    ASSUME NEW a \in AccessName, NEW x \in Obj, NEW v, v = startController(a, x)
    PROVE  ControllerStarts(a, x, v)
<1> USE DEF ControllerStarts
<1>1. PICK w : w = [ControllerIdle EXCEPT !.pc = "readClaims", !.name = a, !.access = x]
  BY Zenon
<1>2. /\ w \in ControllerWorker /\ w.pc = "readClaims" /\ w.name = a /\ w.access = x
      /\ w.claims = NoClaims /\ w.todo = {} /\ w.error = "none"
  BY Zenon, <1>1 DEF ControllerIdle, ControllerWorker, ControllerPc, NoClaims, Error, Obj
<1>3. /\ x.driverName = None => SidecarRequirementsPresent(x) = "none"
      /\ x.driverName # None => SidecarRequirementsPresent(x) = "all"
  BY Zenon, Requirements
<1>4. CASE ManagedBySidecar(x)
  <2>1. v = ControllerIdle
    BY Zenon, <1>1, <1>4 DEF startController
  <2>2. ~ForController(x)
    BY Zenon, <1>4 DEF ForController, ManagedBySidecar
  <2> QED BY Zenon, <2>1, <2>2, ControllerIdleOK
<1>5. CASE ~ManagedBySidecar(x) /\ x.deleting
  <2>1. v = [w EXCEPT !.pc = "readForDelete"]
    BY Zenon, <1>1, <1>5 DEF startController
  <2> QED BY Zenon, <1>2, <1>5, <2>1 DEF ControllerHolds, ControllerWorker, ControllerPc, Preparing,
             Retiring
<1>6. CASE ~ManagedBySidecar(x) /\ ~x.deleting /\ x.driverName # None
  <2>1. v = FailController(w, "terminal")
    BY Zenon, <1>1, <1>3, <1>6 DEF startController
  <2>2. "terminal" \in Error
    BY Zenon DEF Error, TerminalError
  <2>3. ControllerHolds(v) /\ v.pc = "report" /\ v.name = a /\ v.access = x
    BY SMTT(60), <1>2, <2>1, <2>2, FailControllerOK
  <2>4. ControllerMayReport(x, x)
    BY Zenon, <1>6, ObjFields DEF ManagedBySidecar, ControllerMayReport, SameFinal
  <2> QED BY Zenon, <2>3, <2>4
<1>7. CASE ~ManagedBySidecar(x) /\ ~x.deleting /\ x.driverName = None
  <2>1. v \in {w, [w EXCEPT !.pc = "addFinalizer"]}
    BY Zenon, <1>1, <1>3, <1>7 DEF startController
  <2> QED BY Zenon, <1>2, <1>7, <2>1 DEF ControllerHolds, ControllerWorker, ControllerPc, Preparing,
             Retiring
<1> QED BY Zenon, <1>4, <1>5, <1>6, <1>7

\* Reading from a cache does that.
LEMMA StartHolders ==
    ASSUME AccessesOK, NEW a \in AccessName, NEW cache, NEW obj, NEW w \in AccessHolder,
           NEW mine, mine = AfterRead(freshAccess[a], cache, obj, w),
           freshAccess' = [freshAccess EXCEPT ![a] = mine]
    PROVE  ReadBy(a, w, cache, obj)
<1>1. freshAccess \in [AccessName -> SUBSET AccessHolder]
  BY Zenon DEF AccessesOK
<1>2. /\ mine \subseteq AccessHolder
      /\ \A h \in AccessHolder : h # w => (h \in mine <=> h \in freshAccess[a])
      /\ w \in mine => cache \in freshAccess[a] /\ obj # None
  BY Zenon, <1>1 DEF AfterRead
<1>3. freshAccess'[a] = mine
  BY Zenon, <1>1
<1> QED BY Zenon, <1>1, <1>2, <1>3 DEF ReadBy
-----------------------------------------------------------------------------
(***************************************************************************)
(* The Sidecar.                                                            *)
(***************************************************************************)
\* An idle Sidecar.
LEMMA SidecarIdleOK ==
    /\ SidecarHolds(SidecarIdle)
    /\ SidecarIdle.pc = "idle" /\ SidecarIdle.name = None
BY Zenon DEF SidecarHolds, SidecarIdle, SidecarWorker, SidecarPc, Error, Granting, Cleaning

\* A reconcile that failed.
LEMMA FailSidecarOK ==
    ASSUME NEW w \in SidecarWorker, w.name \in AccessName, w.access \in Obj,
           w.access.driverName # None, NEW e \in Error, NEW v, v = FailSidecar(w, e)
    PROVE  /\ SidecarHolds(v)
           /\ v.pc = "report" /\ v.name = w.name /\ v.access = w.access /\ v.error = e
BY Zenon DEF SidecarHolds, SidecarWorker, SidecarPc, FailSidecar, Granting, Cleaning

\* The Sidecar's copy is the stored access when it writes.
LEMMA SidecarCopy ==
    ASSUME IInv, "sidecarWorker" \in freshAccess[sw.name], sw.pc \notin {"idle", "report"}
    PROVE  sw.access = accesses[sw.name] /\ sw.access \in Obj /\ accesses[sw.name] # None
BY Zenon, InvariantParts DEF SidecarOK, SidecarCoherent, SidecarHolds

\* What a busy Sidecar holds.
LEMMA SidecarBusy ==
    ASSUME IInv, sw.pc # "idle"
    PROVE  /\ sw \in SidecarWorker /\ sw.name \in AccessName /\ sw.access \in Obj
           /\ sw.access.driverName # None /\ sw.todo \subseteq References(sw.access)
           /\ accesses[sw.name] \in Obj \cup {None}
           /\ sw.error \in Error /\ sidecarQueue \subseteq AccessName
           /\ SidecarHolds(sw) /\ SecretsOK /\ FaultsOK
BY Zenon, InvariantParts DEF SidecarHolds, AccessesOK, SidecarWorker

\* The Secret of a reference, and what is seen of a Secret.
LEMMA SecretOfType ==
    ASSUME NEW x \in Obj, NEW c \in References(x)
    PROVE  SecretOf(x, c) \in SecretName /\ c \in ClaimName
<1>1. x.spec.refs[c] \in Ref /\ c \in ClaimName
  BY Zenon, ReferencesOK
<1> QED BY Zenon, <1>1 DEF SecretOf, Ref

\* What the Sidecar reads of a Secret is a Secret or nothing.
LEMMA SeenSecretType ==
    ASSUME SecretsOK, NEW s \in SecretName
    PROVE  Seen("secrets", secretCache, secrets)[s] \in SecretObject \cup {None}
BY Zenon DEF SecretsOK, Seen

\* A new Secret, one with its finalizer set or removed, and a deleted one.
LEMMA NewSecretType == \A u \in Uid : NewSecret(u) \in SecretObject
BY Zenon DEF NewSecret, SecretObject

\* Secrets with a changed finalizer, and deleted ones.
LEMMA SecretFinalizerType ==
    ASSUME NEW x \in SecretObject
    PROVE  /\ [x EXCEPT !.finalizer = TRUE] \in SecretObject
           /\ Persisted([x EXCEPT !.finalizer = FALSE]) \in SecretObject \cup {None}
           /\ Deleted(x) \in SecretObject \cup {None}
<1>1. /\ [x EXCEPT !.finalizer = TRUE] \in SecretObject
      /\ [x EXCEPT !.finalizer = FALSE] \in SecretObject
      /\ [x EXCEPT !.deleting = TRUE] \in SecretObject
  BY Zenon DEF SecretObject
<1> QED BY Zenon, <1>1 DEF Persisted, Deleted

\* How a reconcile of the Sidecar begins.  An access that is its to handle is not
\* ignored.
LEMMA StartSidecarOK ==
    ASSUME NEW a \in AccessName, NEW x \in Obj, NEW v, v = startSidecar(a, x)
    PROVE  SidecarStarts(a, x, v)
<1> USE DEF SidecarStarts
<1>1. PICK w : w = [SidecarIdle EXCEPT !.pc = "checkBuckets", !.name = a, !.access = x]
  BY Zenon
<1>2. /\ w \in SidecarWorker /\ w.pc = "checkBuckets" /\ w.name = a /\ w.access = x
      /\ w.todo = {} /\ w.at = None /\ w.reserved = {} /\ w.error = "none"
  BY Zenon, <1>1 DEF SidecarIdle, SidecarWorker, SidecarPc, Error, Obj
<1>3. /\ x.driverName # None => SidecarRequirementsPresent(x) = "all"
      /\ x.driverName \in {ThisDriver, None}
      /\ x.deleting \in BOOLEAN /\ x.finalizer \in BOOLEAN
  BY Zenon, Requirements, ObjFields
<1>4. CASE ~ManagedBySidecar(x) \/ x.driverName # ThisDriver
  <2>1. v = SidecarIdle
    BY Zenon, <1>1, <1>4 DEF startSidecar
  <2>2. ~ForSidecar(x)
    BY Zenon, <1>3, <1>4 DEF ForSidecar, ManagedBySidecar
  <2> QED BY Zenon, <2>1, <2>2, SidecarIdleOK
<1>5. CASE ManagedBySidecar(x) /\ x.driverName = ThisDriver /\ x.deleting
  <2>1. v = [w EXCEPT !.pc = "clearStatus"]
    BY Zenon, <1>1, <1>5 DEF startSidecar
  <2>2. x.driverName # None
    BY Zenon, <1>5 DEF ManagedBySidecar
  <2> QED BY Zenon, <1>2, <1>5, <2>1, <2>2
             DEF SidecarHolds, SidecarWorker, SidecarPc, Granting, Cleaning
<1>6. CASE ManagedBySidecar(x) /\ x.driverName = ThisDriver /\ ~x.deleting
  <2>1. x.driverName # None
    BY Zenon, <1>6 DEF ManagedBySidecar
  <2>2. v = IF x.finalizer THEN w ELSE [w EXCEPT !.pc = "addFinalizer"]
    BY Zenon, <1>1, <1>3, <1>6, <2>1 DEF startSidecar
  <2> QED BY SMTT(60), <1>2, <1>3, <1>6, <2>1, <2>2 DEF SidecarHolds, SidecarWorker, SidecarPc, Granting,
             Cleaning
<1> QED BY Zenon, <1>3, <1>4, <1>5, <1>6
-----------------------------------------------------------------------------
(***************************************************************************)
(* What a step does to the copies of accesses.                             *)
(***************************************************************************)
\* Every copy of an access is well typed, however old it is.
LEMMA CopiesTyped ==
    ASSUME IInv, NEW a \in AccessName, NEW x \in Copies(a)
    PROVE  Typed(x) /\ issued \in Nat
<1>1. /\ accesses[a] \in Obj \cup {None} /\ accessCache[a] \in Obj \cup {None}
      /\ sidecarAccesses[a] \in Obj \cup {None} /\ issued \in Nat
  BY SMTT(60), InvariantParts DEF AccessesOK, CountersOK
<1>2. /\ cw.name = a => cw.access \in Obj
      /\ sw.name = a => sw.access \in Obj
  BY Zenon, AccessAssumption, InvariantParts DEF ControllerHolds, SidecarHolds
<1>3. x \in Obj
  BY Zenon, <1>1, <1>2 DEF Copies
<1>4. x.uid \in Nat
  BY SMTT(60), <1>3, AccessAssumption, ObjFields DEF Uid
<1> QED BY Zenon, <1>1, <1>3, <1>4 DEF Typed

\* Where the copies after a step come from.
LEMMA CopiesCome ==
    ASSUME IInv, IInv', Moves, NEW a \in AccessName, NEW x \in Copies(a)'
    PROVE  Derived(a, x) \/ JustMade(a, x)
<1>1. x # None /\ \/ x = accesses'[a] \/ x = accessCache'[a] \/ x = sidecarAccesses'[a]
                  \/ (cw'.name = a /\ x = cw'.access) \/ (sw'.name = a /\ x = sw'.access)
  BY Zenon DEF Copies
<1>2. \A y : (y = accesses[a] \/ y = accessCache[a] \/ y = sidecarAccesses[a]) /\ y # None
        => y \in Copies(a)
  BY Zenon DEF Copies
<1>3. /\ cw.name = a => cw.access \in Copies(a)
      /\ sw.name = a => sw.access \in Copies(a)
  <2>1. None \notin Obj
    BY Zenon, AccessAssumption DEF Obj
  <2>2. /\ cw.name = a => cw.access # None
        /\ sw.name = a => sw.access # None
    BY Zenon, <2>1, AccessAssumption, InvariantParts DEF ControllerHolds, SidecarHolds
  <2> QED BY Zenon, <2>2 DEF Copies
<1>4. StoredMoves(a) /\ CacheMoves(a)
  BY Zenon DEF Moves
<1>5. CASE x = accesses'[a]
  BY Zenon, <1>1, <1>2, <1>4, <1>5 DEF StoredMoves, Derived, JustMade, Keeps
<1>6. CASE x = accessCache'[a] \/ x = sidecarAccesses'[a]
  BY Zenon, <1>1, <1>2, <1>4, <1>6 DEF CacheMoves, Derived
<1>7. a # None
  BY Zenon, AccessAssumption
<1>8. CASE cw'.name = a /\ x = cw'.access
  BY Zenon, <1>1, <1>2, <1>3, <1>7, <1>8 DEF Moves, WorkerMoves, Derived, Kin
<1>9. CASE sw'.name = a /\ x = sw'.access
  BY Zenon, <1>1, <1>2, <1>3, <1>7, <1>9 DEF Moves, WorkerMoves, Derived, Kin
<1> QED BY Zenon, <1>1, <1>5, <1>6, <1>8, <1>9
-----------------------------------------------------------------------------
(***************************************************************************)
(* Writes of accesses.                                                     *)
(***************************************************************************)
\* The Sidecar's worker at work has a well-formed and complete copy of its access.
LEMMA SidecarHasCopy ==
    ASSUME IInv, Base, sw.pc # "idle"
    PROVE  /\ sw.name \in AccessName /\ sw.access \in Obj /\ sw.access \in Copies(sw.name)
           /\ Complete(sw.access) /\ sw \in SidecarWorker
<1>1. sw.name \in AccessName /\ sw.access \in Obj /\ sw \in SidecarWorker
  BY Zenon, InvariantParts DEF SidecarHolds
<1>2. sw.access \in Copies(sw.name)
  BY Zenon, <1>1, AccessAssumption DEF Copies, Obj
<1> QED BY Zenon, <1>1, <1>2 DEF Base, Lineage, CopiesComplete

\* What Persisted makes of an access is an access or nothing.
LEMMA PersistedType == \A x \in Obj : Persisted(x) \in Obj \cup {None}
BY Zenon, PersistedObject

\* A write of a worker is a write.
LEMMA IsWritten ==
    ASSUME IInv, NEW a \in AccessName, NEW o \in Outcome, NEW obj,
           NEW touch \in BOOLEAN, NEW w \in AccessHolder, NEW done \in BOOLEAN,
           w \in freshAccess[a] => obj \in Obj,
           WriteAccess(o, a, obj, touch, w, done)
    PROVE  Written(o, a, obj, w, done)
BY Zenon, WriteFacts, PersistedType, InvariantParts
-----------------------------------------------------------------------------
(***************************************************************************)
(* The Sidecar's other steps, told by their effects.                       *)
(***************************************************************************)
\* One turn of a loop keeps name and access, goes on, moves on or fails.
LEMMA LoopDoes ==
    ASSUME NEW w \in SidecarWorker, NEW next \in SidecarWorker, next.name = w.name,
           next.access = w.access, NEW c, NEW e, NEW v, v = Loop(w, c, e, next)
    PROVE  Looped(v, w, c, e, next)
<1>1. PICK left : left = w.todo \ {c}
  BY Zenon
<1>2. PICK all : all = Join(w.error, e)
  BY Zenon
<1>3. v = CASE left # {} -> [w EXCEPT !.todo = left, !.at = None, !.error = all]
            [] left = {} /\ all # "none" -> FailSidecar(w, all)
            [] OTHER -> [next EXCEPT !.at = None]
  BY Zenon, <1>1, <1>2 DEF Loop
<1>4. CASE left # {}
  <2>1. v = [w EXCEPT !.todo = left, !.at = None, !.error = all]
    BY Zenon, <1>3, <1>4
  <2>2. /\ v.name = w.name /\ v.access = w.access /\ v.pc = w.pc /\ v.todo = left
        /\ v.reserved = w.reserved /\ v.error = all
    BY Zenon, <2>1 DEF SidecarWorker
  <2> QED BY Zenon, <1>1, <1>2, <1>4, <2>2 DEF Looped
<1>5. CASE left = {} /\ all # "none"
  <2>1. v = FailSidecar(w, all)
    BY Zenon, <1>3, <1>5
  <2>2. v.name = w.name /\ v.access = w.access /\ v.pc = "report"
    BY Zenon, <2>1 DEF SidecarWorker, FailSidecar
  <2> QED BY Zenon, <2>2 DEF Looped
<1>6. CASE left = {} /\ all = "none"
  <2>1. v = [next EXCEPT !.at = None]
    BY Zenon, <1>3, <1>6
  <2>2. /\ v.name = w.name /\ v.access = w.access /\ v.pc = next.pc /\ v.todo = next.todo
        /\ v.reserved = next.reserved /\ v.error = next.error
    BY Zenon, <2>1 DEF SidecarWorker
  <2> QED BY Zenon, <1>1, <1>2, <1>6, <2>2 DEF Looped
<1> QED BY Zenon, <1>4, <1>5, <1>6

\* What one write of a Secret does.
LEMMA WriteSecretDoes ==
    ASSUME SecretsOK, NEW s \in SecretName, NEW o \in Outcome, NEW new,
           NEW current \in BOOLEAN, WriteSecret(o, s, new, current)
    PROVE  SecretWritten(o, s, new, current)
<1>1. PICK mine : mine = IF current /\ secrets[s] # None THEN freshSecret[s] \cup {"worker"}
                         ELSE freshSecret[s]
  BY Zenon
<1>2. PICK after : after = AfterWrite(o, mine, secrets[s], secrets'[s], FALSE, "worker")
  BY Zenon
<1>3. PICK kept : kept = IF Applied(o) THEN new ELSE secrets[s]
  BY Zenon
<1>4. /\ secrets \in [SecretName -> SecretObject \cup {None}]
      /\ freshSecret \in [SecretName -> SUBSET Holder]
  BY Zenon DEF SecretsOK
<1>5. /\ Ends(o, current) /\ secrets' = [secrets EXCEPT ![s] = kept]
      /\ freshSecret' = [freshSecret EXCEPT ![s] = after]
  BY Zenon, <1>1, <1>2, <1>3 DEF WriteSecret
<1>6. /\ OthersStay(s) /\ secrets'[s] = kept /\ freshSecret'[s] = after
  BY Zenon, <1>4, <1>5 DEF OthersStay
<1>7. Applied(o) => current
  BY Zenon, <1>5 DEF Ends, Applied
<1>8. "worker" \in after =>
         \/ "worker" \in freshSecret[s] /\ secrets'[s] = secrets[s]
         \/ current /\ secrets[s] # None /\ secrets'[s] = secrets[s]
         \/ o = "ok" /\ secrets'[s] # None
  <2>1. CASE ~Applied(o) \/ secrets'[s] = secrets[s]
    <3>1. after = mine /\ secrets'[s] = secrets[s]
      BY Zenon, <1>2, <1>3, <1>6, <2>1 DEF AfterWrite, Applied
    <3> QED BY Zenon, <1>1, <3>1
  <2>2. CASE Applied(o) /\ secrets'[s] # secrets[s]
    BY Zenon, <1>2, <2>2 DEF AfterWrite, Applied
  <2> QED BY Zenon, <2>1, <2>2
<1> QED BY Zenon, <1>3, <1>6, <1>7, <1>8 DEF SecretWritten

\* SidecarCheckBuckets is such a step.
LEMMA CheckBucketsDoes == ASSUME IInv, SidecarCheckBuckets PROVE CheckStep /\ sw.pc = "checkBuckets"
<1>1. /\ sw.pc = "checkBuckets" /\ sw.pc # "idle" /\ unchangedBySidecar
      /\ UNCHANGED <<storedAccesses, storedSecrets, accounts>>
  BY Zenon DEF SidecarCheckBuckets
<1>2. sw \in SidecarWorker
  BY Zenon, <1>1, SidecarBusy
<1>3. \/ sw' = [sw EXCEPT !.pc = "reserve", !.todo = References(sw.access)]
      \/ sw' = FailSidecar(sw, "terminal")
  BY Zenon DEF SidecarCheckBuckets
<1>4. CASE sw' = [sw EXCEPT !.pc = "reserve", !.todo = References(sw.access)]
  <2>1. /\ sw'.name = sw.name /\ sw'.access = sw.access /\ sw'.pc = "reserve"
        /\ sw'.todo = References(sw.access) /\ sw'.error = sw.error /\ sw'.reserved = sw.reserved
    BY Zenon, <1>2, <1>4 DEF SidecarWorker
  <2> QED BY Zenon, <1>1, <2>1 DEF CheckStep, SidecarSame
<1>5. CASE sw' = FailSidecar(sw, "terminal")
  <2>1. sw'.name = sw.name /\ sw'.access = sw.access /\ sw'.pc = "report"
    BY Zenon, <1>2, <1>5 DEF SidecarWorker, FailSidecar
  <2> QED BY Zenon, <1>1, <2>1 DEF CheckStep, SidecarSame
<1> QED BY Zenon, <1>3, <1>4, <1>5

\* What a Secret is when it is created or its metadata is updated.
LEMMA ReservedSecret ==
    ASSUME NEW u \in Uid, NEW x \in SecretObject
    PROVE  /\ NewSecret(u) # None /\ NewSecret(u).owner = u
           /\ [x EXCEPT !.finalizer = TRUE] # None
           /\ [x EXCEPT !.finalizer = TRUE].owner = x.owner
           /\ [x EXCEPT !.finalizer = TRUE].data = x.data
<1>1. NewSecret(u) \in SecretObject /\ [x EXCEPT !.finalizer = TRUE] \in SecretObject
  BY Zenon, NewSecretType, SecretFinalizerType
<1>2. None \notin SecretObject
  BY Zenon, AccessAssumption
<1>3. /\ NewSecret(u).owner = u
      /\ [x EXCEPT !.finalizer = TRUE].owner = x.owner
      /\ [x EXCEPT !.finalizer = TRUE].data = x.data
  BY Zenon DEF NewSecret, SecretObject
<1> QED BY Zenon, <1>1, <1>2, <1>3

\* What a cached read that is current shows is stored.
LEMMA SeenIsStored ==
    ASSUME SecretsOK, NEW s \in SecretName, IsCurrent("secrets", freshSecret[s])
    PROVE  Seen("secrets", secretCache, secrets)[s] = secrets[s]
BY Zenon DEF IsCurrent, Seen, SecretsOK, SecretOK

\* The control of one turn of reserveAccessSecrets.
LEMMA ReserveLoop ==
    ASSUME sw \in SidecarWorker, sw.pc = "reserve", NEW s \in SecretName, NEW c,
           NEW e \in {"none", "retry", "terminal"}, NEW next,
           next = [sw EXCEPT !.pc = "grant", !.todo = {}, !.reserved = {}],
           sw' = Loop(IF e = "none" THEN [sw EXCEPT !.reserved = @ \cup {s}] ELSE sw, c, e, next)
    PROVE  /\ sw'.name = sw.name /\ sw'.access = sw.access
           /\ \/ /\ sw'.pc = "reserve" /\ sw'.todo = sw.todo \ {c}
                 /\ sw'.error = Join(sw.error, e)
                 /\ e = "none" => sw'.reserved = sw.reserved \cup {s}
              \/ sw'.pc = "report"
              \/ /\ sw'.pc = "grant" /\ sw'.error = sw.error
                 /\ sw.todo \ {c} = {} /\ Join(sw.error, e) = "none"
<1>1. PICK w : w = IF e = "none" THEN [sw EXCEPT !.reserved = @ \cup {s}] ELSE sw
  BY Zenon
<1>2. /\ w \in SidecarWorker /\ w.pc = sw.pc /\ w.name = sw.name /\ w.access = sw.access
      /\ w.todo = sw.todo /\ w.error = sw.error
      /\ e = "none" => w.reserved = sw.reserved \cup {s}
  BY Zenon, <1>1 DEF SidecarWorker
<1>3. /\ next \in SidecarWorker /\ next.name = w.name /\ next.access = w.access
      /\ next.pc = "grant" /\ next.error = sw.error
  BY Zenon, <1>2 DEF SidecarWorker, SidecarPc
<1>4. Looped(sw', w, c, e, next)
  BY Zenon, <1>1, <1>2, <1>3, LoopDoes
<1> QED BY Zenon, <1>2, <1>3, <1>4 DEF Looped

\* SidecarReserve is such a step, for one reference.
LEMMA ReserveDoes ==
    ASSUME IInv, SidecarReserve
    PROVE  sw.pc = "reserve" /\ \E c \in ClaimName, e \in Error, s \in SecretName : Reserving(c, e, s)
<1>1. /\ sw.pc = "reserve" /\ sw.pc # "idle" /\ unchangedBySidecar
      /\ UNCHANGED <<storedAccesses, accounts>>
  BY Zenon DEF SidecarReserve
<1>2. /\ sw \in SidecarWorker /\ sw.access \in Obj /\ SecretsOK
      /\ sw.todo \subseteq References(sw.access)
  BY Zenon, <1>1, SidecarBusy
<1>3. PICK next : next = [sw EXCEPT !.pc = "grant", !.todo = {}, !.reserved = {}]
  BY Zenon
<1>4. PICK c \in sw.todo :
         LET s == SecretOf(sw.access, c)
             seen == Seen("secrets", secretCache, secrets)[s]
             after(e) == Loop(IF e = "none" THEN [sw EXCEPT !.reserved = @ \cup {s}] ELSE sw,
                              c, e, [sw EXCEPT !.pc = "grant", !.todo = {}, !.reserved = {}])
         IN  \/ /\ refused(sw, s, seen)
                /\ sw' = after("terminal")
                /\ UNCHANGED <<storedSecrets, faults>>
             \/ /\ ~refused(sw, s, seen) /\ seen = None
                /\ \E o \in Outcome :
                     /\ sw' = after(IF o = "ok" THEN "none" ELSE "retry")
                     /\ WriteSecret(o, s, NewSecret(sw.access.uid), secrets[s] = None)
             \/ /\ ~refused(sw, s, seen) /\ seen # None
                /\ \E o \in Outcome :
                     /\ sw' = after(IF o = "ok" THEN "none" ELSE "retry")
                     /\ WriteSecret(o, s, [seen EXCEPT !.finalizer = TRUE],
                                    IsCurrent("secrets", freshSecret[s]) /\ secrets[s] # None)
  BY Zenon DEF SidecarReserve
<1>5. PICK s : s = SecretOf(sw.access, c)
  BY Zenon
<1>6. PICK seen : seen = Seen("secrets", secretCache, secrets)[s]
  BY Zenon
<1> DEFINE After(e) ==
      Loop(IF e = "none" THEN [sw EXCEPT !.reserved = @ \cup {s}] ELSE sw, c, e, next)
<1>7. \/ sw' = After("terminal") /\ UNCHANGED <<storedSecrets, faults>>
      \/ /\ ~refused(sw, s, seen) /\ seen = None
         /\ \E o \in Outcome :
              /\ sw' = After(IF o = "ok" THEN "none" ELSE "retry")
              /\ WriteSecret(o, s, NewSecret(sw.access.uid), secrets[s] = None)
      \/ /\ ~refused(sw, s, seen) /\ seen # None
         /\ \E o \in Outcome :
              /\ sw' = After(IF o = "ok" THEN "none" ELSE "retry")
              /\ WriteSecret(o, s, [seen EXCEPT !.finalizer = TRUE],
                             IsCurrent("secrets", freshSecret[s]) /\ secrets[s] # None)
  BY Zenon, <1>3, <1>4, <1>5, <1>6
<1>8. c \in References(sw.access) /\ c \in sw.todo
  BY Zenon, <1>2, <1>4
<1>9. /\ s \in SecretName /\ c \in ClaimName /\ seen \in SecretObject \cup {None}
      /\ sw.access.uid \in Uid
  BY Zenon, <1>2, <1>5, <1>6, <1>8, SecretOfType, SeenSecretType, ObjFields
<1>10. ASSUME NEW e \in {"none", "retry", "terminal"}, sw' = After(e)
       PROVE  /\ SidecarSame
              /\ \/ /\ sw'.pc = "reserve" /\ sw'.todo = sw.todo \ {c}
                    /\ sw'.error = Join(sw.error, e)
                    /\ e = "none" => sw'.reserved = sw.reserved \cup {s}
                 \/ sw'.pc = "report"
                 \/ /\ sw'.pc = "grant" /\ sw'.error = sw.error
                    /\ sw.todo \ {c} = {} /\ Join(sw.error, e) = "none"
  BY ZenonT(60), <1>1, <1>2, <1>3, <1>9, <1>10, ReserveLoop DEF SidecarSame
<1> HIDE DEF After
<1>11. CASE sw' = After("terminal") /\ UNCHANGED <<storedSecrets, faults>>
  <2>1. UNCHANGED <<secrets, freshSecret>>
    BY Zenon, <1>11 DEF storedSecrets
  <2>2. OthersStay(s) /\ secrets'[s] = secrets[s] /\ freshSecret'[s] = freshSecret[s]
    BY Zenon, <2>1 DEF OthersStay
  <2>3. /\ "terminal" # "none" /\ "terminal" \in {"none", "retry", "terminal"}
        /\ "terminal" \in Error
    BY Zenon DEF Error, TerminalError
  <2>4. Reserving(c, "terminal", s)
    BY Zenon, <1>1, <1>5, <1>8, <1>10, <1>11, <2>2, <2>3 DEF Reserving
  <2> QED BY Zenon, <1>1, <1>9, <2>3, <2>4
<1>12. ASSUME NEW o \in Outcome, NEW new, NEW current \in BOOLEAN, s \notin sw.reserved,
              sw' = After(IF o = "ok" THEN "none" ELSE "retry"),
              SecretWritten(o, s, new, current),
              current => new # None /\ new.owner = sw.access.uid,
              current => \/ secrets[s] = None
                         \/ Owned(s, sw.access.uid) /\ new.data = secrets[s].data
       PROVE  sw.pc = "reserve" /\ \E d \in ClaimName, e \in Error, t \in SecretName : Reserving(d, e, t)
  <2>1. PICK e : e = IF o = "ok" THEN "none" ELSE "retry"
    BY Zenon
  <2>2. e \in {"none", "retry", "terminal"} /\ (e = "none" => o = "ok") /\ e \in Error
    BY Zenon, <2>1 DEF Error
  <2>3. o = "ok" => Applied(o)
    BY Zenon DEF Applied
  <2>4. OthersStay(s)
    BY Zenon, <1>12 DEF SecretWritten
  <2>5. /\ Applied(o) => /\ secrets'[s] # None /\ secrets'[s].owner = sw.access.uid
                         /\ \/ secrets[s] = None
                            \/ /\ Owned(s, sw.access.uid)
                               /\ secrets'[s].data = secrets[s].data
        /\ ~Applied(o) => secrets'[s] = secrets[s]
    BY Zenon, <1>12 DEF SecretWritten
  <2>6. "worker" \in freshSecret'[s] =>
         \/ "worker" \in freshSecret[s] /\ secrets'[s] = secrets[s]
         \/ secrets'[s] # None /\ secrets'[s].owner = sw.access.uid
    BY Zenon, <1>12, <2>3, <2>5 DEF SecretWritten, Owned
  <2>7. SidecarSame
              /\ \/ /\ sw'.pc = "reserve" /\ sw'.todo = sw.todo \ {c}
                    /\ sw'.error = Join(sw.error, e)
                    /\ e = "none" => sw'.reserved = sw.reserved \cup {s}
                 \/ sw'.pc = "report"
                 \/ /\ sw'.pc = "grant" /\ sw'.error = sw.error
                    /\ sw.todo \ {c} = {} /\ Join(sw.error, e) = "none"
    BY Zenon, <1>10, <1>12, <2>1, <2>2
  <2>8. Reserving(c, e, s)
    BY Zenon, <1>1, <1>5, <1>8, <1>12, <2>2, <2>3, <2>4, <2>5, <2>6, <2>7 DEF Reserving
  <2> QED BY Zenon, <1>1, <1>9, <2>2, <2>8
<1>13. CASE /\ ~refused(sw, s, seen) /\ seen = None
            /\ \E o \in Outcome :
                 /\ sw' = After(IF o = "ok" THEN "none" ELSE "retry")
                 /\ WriteSecret(o, s, NewSecret(sw.access.uid), secrets[s] = None)
  <2>1. PICK o \in Outcome : /\ sw' = After(IF o = "ok" THEN "none" ELSE "retry")
                             /\ WriteSecret(o, s, NewSecret(sw.access.uid), secrets[s] = None)
    BY Zenon, <1>13
  <2>2. PICK current : current = (secrets[s] = None)
    BY Zenon
  <2>3. SecretWritten(o, s, NewSecret(sw.access.uid), current) /\ current \in BOOLEAN
    BY Zenon, <1>2, <1>9, <2>1, <2>2, WriteSecretDoes
  <2>4. NewSecret(sw.access.uid) # None /\ NewSecret(sw.access.uid).owner = sw.access.uid
    <3>1. NewSecret(sw.access.uid) \in SecretObject
      BY Zenon, <1>9, NewSecretType
    <3> QED BY Zenon, <3>1, AccessAssumption DEF NewSecret
  <2>5. s \notin sw.reserved
    BY Zenon, <1>13 DEF refused
  <2> QED BY Zenon, <1>12, <2>1, <2>2, <2>3, <2>4, <2>5
<1>14. CASE /\ ~refused(sw, s, seen) /\ seen # None
            /\ \E o \in Outcome :
                 /\ sw' = After(IF o = "ok" THEN "none" ELSE "retry")
                 /\ WriteSecret(o, s, [seen EXCEPT !.finalizer = TRUE],
                                IsCurrent("secrets", freshSecret[s]) /\ secrets[s] # None)
  <2>1. PICK current : current = (IsCurrent("secrets", freshSecret[s]) /\ secrets[s] # None)
    BY Zenon
  <2>2. PICK new : new = [seen EXCEPT !.finalizer = TRUE]
    BY Zenon
  <2>3. PICK o \in Outcome : /\ sw' = After(IF o = "ok" THEN "none" ELSE "retry")
                             /\ WriteSecret(o, s, new, current)
    BY Zenon, <1>14, <2>1, <2>2
  <2>4. SecretWritten(o, s, new, current) /\ current \in BOOLEAN
    BY Zenon, <1>2, <1>9, <2>1, <2>3, WriteSecretDoes
  <2>5. seen \in SecretObject /\ s \notin sw.reserved /\ seen.owner = sw.access.uid
    BY Zenon, <1>9, <1>14 DEF refused
  <2>6. new # None /\ new.owner = sw.access.uid /\ new.data = seen.data
    BY Zenon, <1>9, <2>2, <2>5, ReservedSecret
  <2>7. current => secrets[s] = seen
    BY Zenon, <1>2, <1>6, <1>9, <2>1, SeenIsStored
  <2>8. current => Owned(s, sw.access.uid) /\ new.data = secrets[s].data
    BY Zenon, <1>14, <2>5, <2>6, <2>7 DEF Owned
  <2> QED BY Zenon, <1>12, <2>3, <2>4, <2>5, <2>6, <2>8
<1> QED BY Zenon, <1>7, <1>11, <1>13, <1>14

\* SidecarGrant is such a step.
LEMMA GrantDoes == ASSUME IInv, SidecarGrant PROVE GrantStep /\ sw.pc = "grant"
<1>1. /\ sw.pc = "grant" /\ sw.pc # "idle" /\ unchangedBySidecar
      /\ UNCHANGED storedAccesses /\ UNCHANGED storedSecrets
  BY Zenon DEF SidecarGrant
<1>2. /\ sw \in SidecarWorker /\ sw.name \in AccessName /\ sw.access \in Obj
      /\ sw.access.driverName # None
  BY Zenon, <1>1, SidecarBusy
<1>3. PICK granted : granted = [accounts EXCEPT ![sw.access.uid] =
                                  {BucketID[c] : c \in GrantConfigs(sw.access)}]
  BY Zenon
<1>4. PICK e \in {"none", "retry", "terminal"}, acted \in BOOLEAN :
         /\ RpcEnds(e, acted)
         /\ accounts' = IF acted THEN granted ELSE accounts
         /\ sw' = IF e = "none"
                  THEN [sw EXCEPT !.pc = "fill", !.todo = GrantConfigs(sw.access)]
                  ELSE FailSidecar(sw, e)
  BY Zenon, <1>3 DEF SidecarGrant
<1>5. CASE e = "none"
  <2>1. acted
    BY Zenon, <1>4, <1>5 DEF RpcEnds, rpcErrorIsRetryable
  <2>2. accounts' = granted /\ sw' = [sw EXCEPT !.pc = "fill", !.todo = GrantConfigs(sw.access)]
    BY Zenon, <1>4, <1>5, <2>1
  <2>3. /\ sw'.pc = "fill" /\ sw'.todo = GrantConfigs(sw.access) /\ sw'.error = sw.error
        /\ sw'.name = sw.name /\ sw'.access = sw.access
    BY Zenon, <1>2, <2>2 DEF SidecarWorker
  <2> QED BY Zenon, <1>1, <1>3, <2>2, <2>3 DEF GrantStep, SidecarSame
<1>6. CASE e # "none"
  <2>1. sw' = FailSidecar(sw, e) /\ e \in Error
    BY Zenon, <1>4, <1>6 DEF Error, TerminalError
  <2>2. sw'.pc = "report" /\ sw'.name = sw.name /\ sw'.access = sw.access
    BY SMTT(60), <1>2, <2>1, FailSidecarOK
  <2>3. accounts' = accounts \/ accounts' = granted
    BY Zenon, <1>4
  <2> QED BY Zenon, <1>1, <1>3, <2>2, <2>3 DEF GrantStep, SidecarSame
<1> QED BY Zenon, <1>5, <1>6

\* SidecarRevoke is such a step.
LEMMA RevokeDoes == ASSUME IInv, SidecarRevoke PROVE RevokeStep /\ sw.pc = "revoke"
<1>1. /\ sw.pc = "revoke" /\ sw.pc # "idle" /\ unchangedBySidecar
      /\ UNCHANGED storedAccesses /\ UNCHANGED storedSecrets
  BY Zenon DEF SidecarRevoke
<1>2. /\ sw \in SidecarWorker /\ sw.name \in AccessName /\ sw.access \in Obj
      /\ sw.access.driverName # None
  BY Zenon, <1>1, SidecarBusy
<1>3. PICK revoked : revoked = [accounts EXCEPT ![sw.access.uid] = {}]
  BY Zenon
<1>4. PICK e \in {"none", "retry", "terminal"}, acted \in BOOLEAN :
         /\ RpcEnds(e, acted)
         /\ accounts' = IF acted THEN revoked ELSE accounts
         /\ sw' = IF e = "none" THEN [sw EXCEPT !.pc = "finish"] ELSE FailSidecar(sw, e)
  BY Zenon, <1>3 DEF SidecarRevoke
<1>5. CASE e = "none"
  <2>1. acted
    BY Zenon, <1>4, <1>5 DEF RpcEnds, rpcErrorIsRetryable
  <2>2. accounts' = revoked /\ sw' = [sw EXCEPT !.pc = "finish"]
    BY Zenon, <1>4, <1>5, <2>1
  <2>3. sw'.pc = "finish" /\ sw'.name = sw.name /\ sw'.access = sw.access
    BY Zenon, <1>2, <2>2 DEF SidecarWorker
  <2> QED BY Zenon, <1>1, <1>3, <2>2, <2>3 DEF RevokeStep, SidecarSame
<1>6. CASE e # "none"
  <2>1. sw' = FailSidecar(sw, e) /\ e \in Error
    BY Zenon, <1>4, <1>6 DEF Error, TerminalError
  <2>2. sw'.pc = "report" /\ sw'.name = sw.name /\ sw'.access = sw.access
    BY SMTT(60), <1>2, <2>1, FailSidecarOK
  <2>3. accounts' = accounts \/ accounts' = revoked
    BY Zenon, <1>4
  <2> QED BY Zenon, <1>1, <1>3, <2>2, <2>3 DEF RevokeStep, SidecarSame
<1> QED BY Zenon, <1>5, <1>6

\* SidecarFill is such a step, for one reference.
LEMMA FillDoes ==
    ASSUME IInv, SidecarFill
    PROVE  sw.pc = "fill" /\ \E c \in ClaimName, e \in Error, s \in SecretName : Filling(c, e, s)
<1>1. /\ sw.pc = "fill" /\ sw.pc # "idle" /\ unchangedBySidecar
      /\ UNCHANGED <<storedAccesses, accounts>>
  BY Zenon DEF SidecarFill
<1>2. /\ sw \in SidecarWorker /\ sw.access \in Obj /\ SecretsOK
      /\ sw.todo \subseteq References(sw.access)
  BY Zenon, <1>1, SidecarBusy
<1>3. PICK next : next = [sw EXCEPT !.pc = "setReady", !.todo = {}]
  BY Zenon
<1>4. PICK c \in sw.todo, o \in Outcome :
         LET s == SecretOf(sw.access, c)
         IN  /\ sw' = Loop(sw, c, IF o = "ok" THEN "none" ELSE "retry", next)
             /\ WriteSecret(o, s, [secrets[s] EXCEPT !.data = <<sw.access.uid, c>>],
                            "worker" \in freshSecret[s])
  BY Zenon, <1>3 DEF SidecarFill
<1>5. PICK s : s = SecretOf(sw.access, c)
  BY Zenon
<1>6. PICK new : new = [secrets[s] EXCEPT !.data = <<sw.access.uid, c>>]
  BY Zenon
<1>7. PICK current : current = ("worker" \in freshSecret[s])
  BY Zenon
<1>8. PICK e : e = IF o = "ok" THEN "none" ELSE "retry"
  BY Zenon
<1>9. sw' = Loop(sw, c, e, next) /\ WriteSecret(o, s, new, current)
  BY Zenon, <1>4, <1>5, <1>6, <1>7, <1>8
<1>10. c \in References(sw.access) /\ c \in sw.todo
  BY Zenon, <1>2, <1>4
<1>11. s \in SecretName /\ c \in ClaimName /\ sw.access.uid \in Uid
  BY Zenon, <1>2, <1>5, <1>10, SecretOfType, ObjFields
<1>12. SecretWritten(o, s, new, current)
  <2>1. current \in BOOLEAN
    BY SMTT(60), <1>7
  <2> QED BY Zenon, <1>2, <1>9, <1>11, <2>1, WriteSecretDoes
<1>13. /\ e \in {"none", "retry", "terminal"} /\ e \in Error
       /\ e = "none" => o = "ok" /\ Applied(o)
       /\ o = "ok" => Applied(o)
  BY Zenon, <1>8 DEF Error, Applied
<1>14. current => new # None /\ new.owner = secrets[s].owner /\ new.data = <<sw.access.uid, c>>
  <2> HAVE current
  <2>1. secrets[s] \in SecretObject
    BY Zenon, <1>2, <1>7, <1>11 DEF SecretsOK, SecretOK
  <2>2. new \in SecretObject
    BY Zenon, <1>6, <1>11, <2>1 DEF SecretObject
  <2> QED BY Zenon, <1>6, <2>1, <2>2, AccessAssumption DEF SecretObject
<1>15. /\ next \in SidecarWorker /\ next.name = sw.name /\ next.access = sw.access
       /\ next.pc = "setReady"
  BY Zenon, <1>2, <1>3 DEF SidecarWorker, SidecarPc
<1>16. Looped(sw', sw, c, e, next)
  BY Zenon, <1>2, <1>9, <1>15, LoopDoes
<1>17. /\ OthersStay(s)
       /\ \/ secrets'[s] = secrets[s]
          \/ /\ "worker" \in freshSecret[s] /\ secrets'[s] # None
             /\ secrets'[s].owner = secrets[s].owner /\ secrets'[s].data = <<sw.access.uid, c>>
       /\ "worker" \in freshSecret'[s] => "worker" \in freshSecret[s]
       /\ e = "none" =>
            /\ "worker" \in freshSecret[s] /\ secrets'[s] # None
            /\ secrets'[s].owner = secrets[s].owner /\ secrets'[s].data = <<sw.access.uid, c>>
  BY Zenon, <1>7, <1>12, <1>13, <1>14 DEF SecretWritten
<1>18. Filling(c, e, s)
  BY Zenon, <1>1, <1>5, <1>10, <1>13, <1>15, <1>16, <1>17 DEF Filling, Looped, SidecarSame
<1> QED BY Zenon, <1>1, <1>11, <1>13, <1>18

\* SidecarUnprotect is such a step, for one reference.
LEMMA UnprotectDoes ==
    ASSUME IInv, SidecarUnprotect
    PROVE  sw.pc = "unprotect" /\ \E c \in ClaimName, s \in SecretName : Unprotecting(c, s)
<1>1. /\ sw.pc = "unprotect" /\ sw.pc # "idle" /\ unchangedBySidecar
      /\ UNCHANGED <<storedAccesses, accounts>>
  BY Zenon DEF SidecarUnprotect
<1>2. /\ sw \in SidecarWorker /\ sw.name \in AccessName /\ sw.access \in Obj /\ SecretsOK
      /\ sw.todo \subseteq References(sw.access) /\ sw.error \in Error
  BY Zenon, <1>1, SidecarBusy
<1>3. PICK c \in sw.todo :
         LET s == SecretOf(sw.access, c)
             seen == Seen("secrets", secretCache, secrets)[s]
             owned == seen # None /\ seen.owner = sw.access.uid
         IN  \/ /\ ~owned
                /\ sw' = Loop(sw, c, "none", afterSecrets(sw))
                /\ UNCHANGED <<storedSecrets, faults>>
             \/ /\ owned
                /\ \E o \in Outcome :
                     /\ sw' = IF o = "ok" THEN [sw EXCEPT !.pc = "deleteSecret", !.at = c]
                              ELSE Loop(sw, c, "retry", sw)
                     /\ WriteSecret(o, s, Persisted([seen EXCEPT !.finalizer = FALSE]),
                                    IsCurrent("secrets", freshSecret[s]) /\ secrets[s] # None)
  BY Zenon DEF SidecarUnprotect
<1>4. PICK s : s = SecretOf(sw.access, c)
  BY Zenon
<1>5. PICK seen : seen = Seen("secrets", secretCache, secrets)[s]
  BY Zenon
<1>6. \/ /\ ~(seen # None /\ seen.owner = sw.access.uid)
         /\ sw' = Loop(sw, c, "none", afterSecrets(sw))
         /\ UNCHANGED <<storedSecrets, faults>>
      \/ /\ seen # None /\ seen.owner = sw.access.uid
         /\ \E o \in Outcome :
              /\ sw' = IF o = "ok" THEN [sw EXCEPT !.pc = "deleteSecret", !.at = c]
                       ELSE Loop(sw, c, "retry", sw)
              /\ WriteSecret(o, s, Persisted([seen EXCEPT !.finalizer = FALSE]),
                             IsCurrent("secrets", freshSecret[s]) /\ secrets[s] # None)
  BY Zenon, <1>3, <1>4, <1>5
<1>7. c \in References(sw.access) /\ c \in sw.todo
  BY Zenon, <1>2, <1>3
<1>8. /\ s \in SecretName /\ c \in ClaimName /\ seen \in SecretObject \cup {None}
      /\ sw.access.uid \in Uid
  BY Zenon, <1>2, <1>4, <1>5, <1>7, SecretOfType, SeenSecretType, ObjFields
<1>9. "secrets" \notin Lagging => seen = secrets[s]
  BY Zenon, <1>5 DEF Seen
<1>10. ASSUME NEW v, NEW e \in {"none", "retry"}, sw' = v,
              Looped(v, sw, c, e, afterSecrets(sw)) \/ (e = "retry" /\ Looped(v, sw, c, e, sw)),
              e = "none" /\ "secrets" \notin Lagging => ~Owned(s, sw.access.uid)
       PROVE  /\ sw'.name = sw.name /\ sw'.access = sw.access
              /\ \/ sw'.pc = "report"
                 \/ /\ sw'.pc = "unprotect" /\ sw'.todo = sw.todo \ {c}
                    /\ sw'.error # "bucketGone"
                    /\ sw'.error = "none" /\ sw.error # "bucketGone" => sw.error = "none"
                    /\ sw'.error = "none" /\ "secrets" \notin Lagging => ~Owned(s, sw.access.uid)
                 \/ /\ AfterLast
                    /\ sw.todo \ {c} = {} /\ (sw.error # "bucketGone" => sw.error = "none")
                    /\ "secrets" \notin Lagging => ~Owned(s, sw.access.uid)
  <2>1. afterSecrets(sw).pc = IF sw.access.accountID THEN "revoke" ELSE "finish"
    BY Zenon, <1>2 DEF afterSecrets, SidecarWorker
  <2>2. /\ Join(sw.error, e) # "bucketGone"
        /\ Join(sw.error, e) = "none" => e = "none" /\ (sw.error # "bucketGone" => sw.error = "none")
    BY Zenon, <1>2, <1>10 DEF Join, Error, TerminalError
  <2> QED BY Zenon, <1>1, <1>10, <2>1, <2>2 DEF Looped, AfterLast
<1>11. CASE /\ ~(seen # None /\ seen.owner = sw.access.uid)
            /\ sw' = Loop(sw, c, "none", afterSecrets(sw))
            /\ UNCHANGED <<storedSecrets, faults>>
  <2>1. UNCHANGED <<secrets, freshSecret>>
    BY Zenon, <1>11 DEF storedSecrets
  <2>2. OthersStay(s) /\ secrets'[s] = secrets[s]
    BY Zenon, <2>1 DEF OthersStay
  <2>3. "secrets" \notin Lagging => ~Owned(s, sw.access.uid)
    BY Zenon, <1>9, <1>11 DEF Owned
  <2>4. /\ afterSecrets(sw) \in SidecarWorker /\ afterSecrets(sw).name = sw.name
        /\ afterSecrets(sw).access = sw.access
    BY Zenon, <1>2 DEF afterSecrets, SidecarWorker, SidecarPc
  <2>5. Looped(sw', sw, c, "none", afterSecrets(sw))
    BY Zenon, <1>2, <1>11, <2>4, LoopDoes
  <2>6. Unprotecting(c, s)
    BY Zenon, <1>1, <1>4, <1>7, <1>10, <2>2, <2>3, <2>5 DEF Unprotecting, SidecarSame
  <2> QED BY Zenon, <1>1, <1>8, <2>6
<1>12. CASE /\ seen # None /\ seen.owner = sw.access.uid
            /\ \E o \in Outcome :
                 /\ sw' = IF o = "ok" THEN [sw EXCEPT !.pc = "deleteSecret", !.at = c]
                          ELSE Loop(sw, c, "retry", sw)
                 /\ WriteSecret(o, s, Persisted([seen EXCEPT !.finalizer = FALSE]),
                                IsCurrent("secrets", freshSecret[s]) /\ secrets[s] # None)
  <2>1. PICK current : current = (IsCurrent("secrets", freshSecret[s]) /\ secrets[s] # None)
    BY Zenon
  <2>2. PICK new : new = Persisted([seen EXCEPT !.finalizer = FALSE])
    BY Zenon
  <2>3. PICK o \in Outcome :
          /\ sw' = IF o = "ok" THEN [sw EXCEPT !.pc = "deleteSecret", !.at = c]
                   ELSE Loop(sw, c, "retry", sw)
          /\ WriteSecret(o, s, new, current)
    BY Zenon, <1>12, <2>1, <2>2
  <2>4. SecretWritten(o, s, new, current)
    <3>1. current \in BOOLEAN
      BY Zenon, <2>1
    <3> QED BY Zenon, <1>2, <1>8, <2>3, <3>1, WriteSecretDoes
  <2>5. seen \in SecretObject
    BY Zenon, <1>8, <1>12
  <2>6. new # None => new.owner = sw.access.uid /\ ~new.finalizer
    BY Zenon, <1>12, <2>2, <2>5 DEF Persisted, SecretObject
  <2>7. current => secrets[s] = seen
    BY Zenon, <1>2, <1>5, <1>8, <2>1, SeenIsStored
  <2>8. /\ OthersStay(s)
        /\ \/ secrets'[s] = secrets[s]
           \/ /\ Owned(s, sw.access.uid)
              /\ secrets'[s] # None => secrets'[s].owner = sw.access.uid /\ ~secrets'[s].finalizer
    BY Zenon, <1>12, <2>4, <2>6, <2>7 DEF SecretWritten, Owned
  <2>9. CASE o = "ok"
    <3>1. sw' = [sw EXCEPT !.pc = "deleteSecret", !.at = c] /\ Applied(o)
      BY Zenon, <2>3, <2>9 DEF Applied
    <3>2. /\ sw'.name = sw.name /\ sw'.access = sw.access /\ sw'.pc = "deleteSecret"
          /\ sw'.at = c /\ sw'.todo = sw.todo /\ sw'.error = sw.error
      BY Zenon, <1>2, <3>1 DEF SidecarWorker
    <3>3. secrets'[s] # None => secrets'[s].owner = sw.access.uid /\ ~secrets'[s].finalizer
      BY Zenon, <2>4, <2>6, <3>1 DEF SecretWritten
    <3>4. Unprotecting(c, s)
      BY Zenon, <1>1, <1>4, <1>7, <2>8, <3>2, <3>3 DEF Unprotecting, SidecarSame
    <3> QED BY Zenon, <1>1, <1>8, <3>4
  <2>10. CASE o # "ok"
    <3>1. sw' = Loop(sw, c, "retry", sw) /\ "retry" # "none"
      BY Zenon, <2>3, <2>10
    <3>2. Looped(sw', sw, c, "retry", sw)
      BY Zenon, <1>2, <3>1, LoopDoes
    <3>3. Unprotecting(c, s)
      BY Zenon, <1>1, <1>4, <1>7, <1>10, <2>8, <3>1, <3>2 DEF Unprotecting, SidecarSame
    <3> QED BY Zenon, <1>1, <1>8, <3>3
  <2> QED BY Zenon, <2>9, <2>10
<1> QED BY Zenon, <1>6, <1>11, <1>12

\* A deletion erases the Secret, now or when its finalizer goes.
LEMMA DeletedIsErased ==
    ASSUME SecretsOK, NEW s \in SecretName, secrets[s] # None, secrets'[s] = Deleted(secrets[s])
    PROVE  Erased(s)
<1>1. secrets[s] \in SecretObject
  BY Zenon DEF SecretsOK
<1> QED BY Zenon, <1>1 DEF Erased, Deleted, Persisted, SecretObject

\* SidecarDeleteSecret is such a step, for the Secret just unprotected.
LEMMA DeleteSecretDoes ==
    ASSUME IInv, SidecarDeleteSecret
    PROVE  sw.pc = "deleteSecret" /\ \E s \in SecretName : Deleting(s)
<1>1. /\ sw.pc = "deleteSecret" /\ sw.pc # "idle" /\ unchangedBySidecar
      /\ UNCHANGED <<storedAccesses, accounts>>
  BY Zenon DEF SidecarDeleteSecret
<1>2. /\ sw \in SidecarWorker /\ sw.name \in AccessName /\ sw.access \in Obj /\ SecretsOK
      /\ sw.error \in Error /\ sw.at \in References(sw.access)
  BY Zenon, <1>1, SidecarBusy DEF SidecarHolds
<1>3. PICK s : s = SecretOf(sw.access, sw.at)
  BY Zenon
<1>4. PICK o \in Outcome :
         /\ sw' = Loop([sw EXCEPT !.pc = "unprotect"], sw.at,
                       IF o = "ok" THEN "none" ELSE "retry", afterSecrets(sw))
         /\ WriteSecret(o, s, Deleted(secrets[s]), secrets[s] # None)
  BY Zenon, <1>3 DEF SidecarDeleteSecret
<1>5. PICK w : w = [sw EXCEPT !.pc = "unprotect"]
  BY Zenon
<1>6. PICK e : e = IF o = "ok" THEN "none" ELSE "retry"
  BY Zenon
<1>7. PICK current : current = (secrets[s] # None)
  BY Zenon
<1>8. sw' = Loop(w, sw.at, e, afterSecrets(sw)) /\ WriteSecret(o, s, Deleted(secrets[s]), current)
  BY Zenon, <1>4, <1>5, <1>6, <1>7
<1>9. s \in SecretName
  BY Zenon, <1>2, <1>3, SecretOfType
<1>10. SecretWritten(o, s, Deleted(secrets[s]), current)
  <2>1. current \in BOOLEAN
    BY Zenon, <1>7
  <2> QED BY Zenon, <1>2, <1>8, <1>9, <2>1, WriteSecretDoes
<1>11. /\ e \in {"none", "retry", "terminal"} /\ (e = "none" => Applied(o))
       /\ Join(sw.error, e) # "bucketGone"
       /\ Join(sw.error, e) = "none" => e = "none" /\ (sw.error # "bucketGone" => sw.error = "none")
  BY Zenon, <1>2, <1>6 DEF Applied, Join, Error, TerminalError
<1>12. OthersStay(s) /\ (Applied(o) => Erased(s)) /\ (~Applied(o) => secrets'[s] = secrets[s])
  BY Zenon, <1>2, <1>7, <1>9, <1>10, DeletedIsErased DEF SecretWritten
<1>13. /\ w \in SidecarWorker /\ w.name = sw.name /\ w.access = sw.access /\ w.todo = sw.todo
       /\ w.error = sw.error /\ w.pc = "unprotect"
  BY Zenon, <1>2, <1>5 DEF SidecarWorker, SidecarPc
<1>14. /\ afterSecrets(sw) \in SidecarWorker /\ afterSecrets(sw).name = sw.name
       /\ afterSecrets(sw).access = sw.access
       /\ afterSecrets(sw).pc = IF sw.access.accountID THEN "revoke" ELSE "finish"
  BY Zenon, <1>2 DEF afterSecrets, SidecarWorker, SidecarPc
<1>15. Looped(sw', w, sw.at, e, afterSecrets(sw))
  BY Zenon, <1>8, <1>13, <1>14, LoopDoes
<1>16. /\ sw'.name = sw.name /\ sw'.access = sw.access
       /\ \/ /\ sw'.pc = "unprotect" /\ sw'.todo = sw.todo \ {sw.at}
             /\ sw'.error = Join(sw.error, e)
          \/ sw'.pc = "report"
          \/ AfterLast /\ sw.todo \ {sw.at} = {} /\ Join(sw.error, e) = "none"
  BY Zenon, <1>13, <1>14, <1>15 DEF Looped, AfterLast
<1>17. Deleting(s)
  BY Zenon, <1>1, <1>3, <1>11, <1>12, <1>16 DEF Deleting, SidecarSame
<1> QED BY Zenon, <1>1, <1>9, <1>17

\* A stored access is one of its copies.
LEMMA StoredIsCopy ==
    ASSUME IInv, Base, NEW a \in AccessName, accesses[a] # None
    PROVE  accesses[a] \in Obj /\ accesses[a] \in Copies(a) /\ Complete(accesses[a])
<1>1. accesses[a] \in Obj /\ accesses[a] \in Copies(a)
  BY Zenon, InvariantParts DEF AccessesOK, Copies
<1> QED BY Zenon, <1>1 DEF Base, Lineage, CopiesComplete

\* None of these steps touches an access or a worker.
LEMMA ElsewhereDoes == ASSUME Elsewhere PROVE UNCHANGED <<accessVars, cw, sw, issued>>
<1>1. ASSUME NEW c \in ClaimName, ClaimSync(c) \/ BucketSync(c)
      PROVE  UNCHANGED <<accessVars, cw, sw, issued>>
  BY Zenon, <1>1 DEF ClaimSync, BucketSync, accessVars, storedAccesses, accessCaches, controllerVars,
     sidecarVars, envVars
<1>2. ASSUME NEW c \in ClaimName, ClaimProceeds(c) \/ ClaimRetires(c)
      PROVE  UNCHANGED <<accessVars, cw, sw, issued>>
  <2>1. unchangedByClaims
    BY Zenon, <1>2 DEF ClaimProceeds, ClaimRetires
  <2> QED BY Zenon, <2>1 DEF unchangedByClaims, accessVars, storedAccesses, accessCaches,
     controllerVars, sidecarVars
<1>3. ASSUME NEW s \in SecretName, SecretSync(s)
      PROVE  UNCHANGED <<accessVars, cw, sw, issued>>
  BY Zenon, <1>3 DEF SecretSync, accessVars, storedAccesses, accessCaches, controllerVars,
     sidecarVars, envVars
<1>4. ASSUME NEW s \in SecretName, ChangeSecret(s)
      PROVE  UNCHANGED <<accessVars, cw, sw, issued>>
  BY Zenon, <1>4 DEF ChangeSecret, accessVars, storedAccesses, accessCaches, controllerVars,
     sidecarVars
<1>5. CASE AdminCreateClass
  BY Zenon, <1>5 DEF AdminCreateClass, accessVars, storedAccesses, accessCaches, controllerVars,
     sidecarVars
<1>6. CASE UNCHANGED vars
  BY Zenon, <1>6 DEF vars, accessVars, storedAccesses, accessCaches, controllerVars, sidecarVars,
     envVars
<1> QED BY Zenon, <1>1, <1>2, <1>3, <1>4, <1>5, <1>6 DEF Elsewhere
-----------------------------------------------------------------------------
(***************************************************************************)
(* Whose copies stay current.                                              *)
(***************************************************************************)
\* After a write of an access only the writer can hold a version that has changed, and
\* only if the write was answered.
LEMMA OtherHolders ==
    ASSUME IInv, NEW a \in AccessName, NEW o \in Outcome, NEW obj, NEW touch, NEW w, NEW done,
           WriteAccess(o, a, obj, touch, w, done), NEW h, h # w \/ o # "ok"
    PROVE  HolderKept(h)
<1>1. PICK new : new = IF Applied(o) THEN Persisted(obj) ELSE accesses[a]
  BY Zenon
<1>2. PICK fresh : fresh = [freshAccess EXCEPT ![a] =
                    AfterWrite(o, @, accesses[a], new, touch, w)]
  BY Zenon
<1>3. /\ accesses' = [accesses EXCEPT ![a] = new]
      /\ freshAccess' = fresh \/ freshAccess' = Forget(fresh, w)
  BY Zenon, <1>1, <1>2 DEF WriteAccess, StoreAccess
<1>4. DOMAIN accesses = AccessName /\ DOMAIN freshAccess = AccessName
  BY Zenon, InvariantParts DEF AccessesOK
<1>5. \A b \in AccessName : freshAccess'[b] \subseteq fresh[b]
  BY Zenon, <1>2, <1>3, <1>4 DEF Forget
<1>6. h \in AfterWrite(o, freshAccess[a], accesses[a], new, touch, w)
        => h \in freshAccess[a] /\ new = accesses[a]
  BY Zenon, <1>1 DEF AfterWrite, Outcome, Applied
<1>7. \A b \in AccessName : h \in fresh[b] => h \in freshAccess[b] /\ accesses'[b] = accesses[b]
  BY Zenon, <1>2, <1>3, <1>4, <1>6
<1> QED BY Zenon, <1>5, <1>7 DEF HolderKept

\* There are no other steps.
LEMMA WhoMoves == ASSUME [Next]_vars PROVE ControllerMoves \/ SidecarMoves \/ OthersMove
BY Zenon DEF Next, Informers, Environment, ControllerMoves, SidecarMoves, OthersMove, Elsewhere

\* Users and informers leave both workers and their current copies alone.
LEMMA OthersLeave ==
    ASSUME IInv, OthersMove
    PROVE  /\ UNCHANGED <<cw, sw>>
           /\ HolderKept("controllerWorker") /\ HolderKept("sidecarWorker")
<1>1. ASSUME NEW a \in AccessName, ControllerAccessSync(a)
      PROVE  /\ UNCHANGED <<cw, sw>>
             /\ HolderKept("controllerWorker") /\ HolderKept("sidecarWorker")
  BY Zenon, <1>1, InvariantParts DEF ControllerAccessSync, unchangedBySync, HolderKept, AccessesOK
<1>2. ASSUME NEW a \in AccessName, SidecarAccessSync(a)
      PROVE  /\ UNCHANGED <<cw, sw>>
             /\ HolderKept("controllerWorker") /\ HolderKept("sidecarWorker")
  BY Zenon, <1>2, InvariantParts DEF SidecarAccessSync, unchangedBySync, HolderKept, AccessesOK
<1>3. ASSUME NEW a \in AccessName, UserCreateAccess(a) \/ UserDeleteAccess(a) \/ EditAccess(a)
      PROVE  /\ UNCHANGED <<cw, sw>>
             /\ HolderKept("controllerWorker") /\ HolderKept("sidecarWorker")
  <2>1. PICK new : StoreAccess(a, new)
    BY Zenon, <1>3 DEF UserCreateAccess, UserDeleteAccess, EditAccess
  <2>2. unchangedByUser /\ freshAccess' = Touch(freshAccess, a)
    BY Zenon, <1>3 DEF UserCreateAccess, UserDeleteAccess, EditAccess
  <2>3. /\ freshAccess'[a] = {}
        /\ \A b \in AccessName : b # a => freshAccess'[b] = freshAccess[b]
        /\ \A b \in AccessName : b # a => accesses'[b] = accesses[b]
    BY Zenon, <2>1, <2>2, InvariantParts DEF Touch, StoreAccess, AccessesOK
  <2> QED BY Zenon, <2>2, <2>3 DEF HolderKept, unchangedByUser, controllerVars, sidecarVars
<1>4. CASE Elsewhere
  <2>1. UNCHANGED <<accesses, freshAccess, cw, sw>>
    BY Zenon, <1>4, ElsewhereDoes DEF accessVars
  <2> QED BY Zenon, <2>1 DEF HolderKept
<1> QED BY Zenon, <1>1, <1>2, <1>3, <1>4 DEF OthersMove
=============================================================================
