---------------------------- MODULE AccessProofs ----------------------------
(***************************************************************************)
(* Safety of Access, for every value of the constants: the invariant is    *)
(* inductive, and so the types hold, what the handover wrote is final, and *)
(* no access is forgotten.                                                 *)
(***************************************************************************)
EXTENDS AccessFacts

(***************************************************************************)
(* Access objects and the events that their changes make.                  *)
(***************************************************************************)
\* TypeOK is part of the invariant.
LEMMA TypesFollow == IInv => TypeOK
<1> SUFFICES ASSUME IInv PROVE TypeOK
  BY Zenon
<1>1. Obj \subseteq AccessObject
  BY Zenon DEF Obj
<1>2. /\ accesses \in [AccessName -> AccessObject \cup {None}]
      /\ accessCache \in [AccessName -> AccessObject \cup {None}]
      /\ sidecarAccesses \in [AccessName -> AccessObject \cup {None}]
  BY Zenon, <1>1, InvariantParts DEF AccessesOK
<1>3. cw \in ControllerWorker /\ sw \in SidecarWorker
  BY Zenon, InvariantParts DEF ControllerHolds, SidecarHolds
<1> QED
  BY Zenon, <1>2, <1>3, InvariantParts DEF TypeOK, AccessesOK, ClaimsOK, SecretsOK, CountersOK,
     FaultsOK

\* An access with its finalizer set.
LEMMA WithFinalizer ==
    ASSUME NEW x \in Obj, NEW y, y = [x EXCEPT !.finalizer = TRUE]
    PROVE  /\ y \in Obj /\ y.finalizer /\ SameStatus(x, y) /\ y.spec = x.spec
           /\ y.deleting = x.deleting /\ y.override = x.override /\ y.uid = x.uid
BY Zenon DEF Obj, AccessObject, WellFormed, SameStatus

\* An access with its finalizer removed.
LEMMA WithoutFinalizer ==
    ASSUME NEW x \in Obj, NEW y, y = [x EXCEPT !.finalizer = FALSE]
    PROVE  /\ y \in Obj /\ ~y.finalizer /\ SameStatus(x, y)
           /\ y.deleting = x.deleting /\ y.override = x.override /\ y.uid = x.uid
BY Zenon DEF Obj, AccessObject, WellFormed, SameStatus

\* An access that is deleting.
LEMMA WithDeletion ==
    ASSUME NEW x \in Obj, NEW y, y = [x EXCEPT !.deleting = TRUE]
    PROVE  y \in Obj /\ y.deleting /\ SameStatus(x, y)
BY Zenon DEF Obj, AccessObject, WellFormed, SameStatus

\* An access is what its fields are.
LEMMA SameObject ==
    ASSUME NEW x \in Obj, NEW y \in Obj, SameMetadata(x, y), SameStatus(x, y)
    PROVE  x = y
BY SMTT(60) DEF Obj, AccessObject, SameMetadata, SameStatus

\* Both processes hear of an access that becomes theirs, and of a finalizer that is
\* removed from one that is theirs.
LEMMA EventsTell ==
    ASSUME NEW x \in Obj \cup {None}, NEW y \in Obj \cup {None}, MayBecome(x, y)
    PROVE  /\ ForController(y) /\ ~ForController(x) => ControllerEnqueues(x, y)
           /\ ForSidecar(y) /\ ~ForSidecar(x) => SidecarEnqueues(x, y)
           /\ x # None /\ x.finalizer /\ ForController(y) /\ ~y.finalizer
                => ControllerEnqueues(x, y)
           /\ x # None /\ x.finalizer /\ ForSidecar(y) /\ ~y.finalizer
                => SidecarEnqueues(x, y)
<1>1. CASE y = None
  BY Zenon, <1>1 DEF ForController, ForSidecar
<1>2. CASE y # None /\ x = None
  <2>1. y \in Obj /\ AccessEvent(x, y) /\ Latest(x, y) = y
    BY Zenon, <1>2 DEF AccessEvent, Latest
  <2>2. y.driverName \in {ThisDriver, None}
    BY Zenon, <2>1, ObjFields
  <2>3. ForController(y) => ~ManagedBySidecar(y)
    BY Zenon DEF ForController, ManagedBySidecar
  <2>4. ForSidecar(y) => y.driverName = ThisDriver
    BY Zenon, <2>2 DEF ForSidecar
  <2> QED BY Zenon, <1>2, <2>1, <2>3, <2>4 DEF ControllerEnqueues, SidecarEnqueues
<1>3. CASE y # None /\ x # None
  <2>1. /\ x \in Obj /\ y \in Obj /\ Latest(x, y) = y
        /\ AccessEvent(x, y) <=> handoffOccurred(x, y) \/ ProtectionFinalizerRemoved(x, y)
    BY Zenon, <1>3 DEF AccessEvent, Latest
  <2>2. /\ y.driverName \in {ThisDriver, None}
        /\ x.deleting \in BOOLEAN /\ y.deleting \in BOOLEAN
        /\ x.override \in BOOLEAN /\ y.override \in BOOLEAN
        /\ x.cleanupFinished \in BOOLEAN /\ y.cleanupFinished \in BOOLEAN
        /\ x.finalizer \in BOOLEAN /\ y.finalizer \in BOOLEAN
    BY Zenon, <2>1, ObjFields
  <2>3. /\ x.deleting => y.deleting
        /\ x.driverName # None => x.driverName = y.driverName
    BY Zenon, <1>3 DEF MayBecome, SameFinal
  <2>4. ForController(y) => ForController(x)
    BY Zenon, <1>3, <2>3 DEF ForController
  <2>5. ForController(y) => ~ManagedBySidecar(y)
    BY Zenon DEF ForController, ManagedBySidecar
  <2>6. ForSidecar(y) => ManagedBySidecar(y) /\ y.driverName = ThisDriver
    BY Zenon, <2>2 DEF ForSidecar, ManagedBySidecar
  <2>7. ForSidecar(y) /\ ~ForSidecar(x) => ~ManagedBySidecar(x)
    BY Zenon, <1>3, <2>3 DEF ForSidecar, ManagedBySidecar
  <2>8. ForSidecar(y) /\ ~ForSidecar(x) => handoffOccurred(x, y)
    BY Zenon, <2>6, <2>7 DEF handoffOccurred
  <2>9. x.finalizer /\ ~y.finalizer /\ (ForController(y) \/ ForSidecar(y))
          => ProtectionFinalizerRemoved(x, y)
    BY Zenon DEF ForController, ForSidecar, ProtectionFinalizerRemoved
  <2> QED
    BY Zenon, <2>1, <2>4, <2>5, <2>6, <2>8, <2>9 DEF ControllerEnqueues, SidecarEnqueues
<1> QED BY Zenon, <1>1, <1>2, <1>3

\* An unfinished access was unfinished before, or has just lost its finalizer, unless
\* its status was written.
LEMMA StillUnfinished ==
    ASSUME NEW x \in Obj, NEW y \in Obj, SameStatus(x, y), Unfinished(y)
    PROVE  Unfinished(x) \/ (x.finalizer /\ ~y.finalizer)
BY Zenon DEF SameStatus, Unfinished
-----------------------------------------------------------------------------
(***************************************************************************)
(* What keeps the accesses watched.                                        *)
(***************************************************************************)
\* Caches that do not change stay coherent.
LEMMA CachesStay ==
    ASSUME CachesOK, HolderKept("controllerCache"), HolderKept("sidecarCache"),
           UNCHANGED accessCaches
    PROVE  CachesOK'
BY Zenon DEF CachesOK, CachesCoherent, HolderKept, accessCaches

\* The Controller keeps attending to accesses that others write.
LEMMA ControllerStays ==
    ASSUME AccessesOK, ControllerOK, NEW a \in AccessName, Stored(a),
           MayBecome(accesses[a], accesses'[a]), HolderKept("controllerWorker"),
           UNCHANGED <<accessCache, controllerQueue, cw>>,
           \/ accesses'[a] = accesses[a] \/ SameStatus(accesses[a], accesses'[a])
           \/ ~ForController(accesses'[a]) \/ ~ForController(accesses[a])
    PROVE  ControllerOK'
<1> SUFFICES ASSUME NEW x \in AccessName
             PROVE  ControllerCoherent(x)' /\ ControllerAttends(x)'
  BY Zenon DEF ControllerOK
<1>1. ControllerCoherent(x) /\ ControllerAttends(x)
  BY Zenon DEF ControllerOK
<1>2. ControllerCoherent(x)'
  BY Zenon, <1>1 DEF ControllerCoherent, HolderKept
<1>3. ControllerHas(x) => ControllerHas(x)'
  BY Zenon DEF ControllerHas, Stored
<1>4. /\ accesses[x] \in Obj \cup {None} /\ accesses'[x] \in Obj \cup {None}
      /\ x \in controllerEvents => x \in controllerEvents'
  BY Zenon DEF AccessesOK, Stored
<1>5. CASE accesses'[x] = accesses[x]
  BY Zenon, <1>1, <1>2, <1>3, <1>4, <1>5 DEF ControllerAttends
<1>6. CASE x = a /\ ~ForController(accesses'[a])
  BY Zenon, <1>2, <1>6 DEF ControllerAttends
<1>7. CASE x = a /\ ForController(accesses'[a]) /\ ~ForController(accesses[a])
  <2>1. a \in controllerEvents'
    BY Zenon, <1>4, <1>7, EventsTell DEF Stored
  <2> QED BY Zenon, <1>2, <1>7, <2>1 DEF ControllerAttends, ControllerHas
<1>8. CASE /\ x = a /\ ForController(accesses'[a]) /\ ForController(accesses[a])
           /\ SameStatus(accesses[a], accesses'[a])
  <2>1. accesses[a] # None /\ accesses'[a] # None
    BY Zenon, <1>8 DEF ForController
  <2>2. accesses[a] \in Obj /\ accesses'[a] \in Obj
    BY Zenon, <1>4, <1>8, <2>1
  <2>3. Unfinished(accesses'[a]) =>
          Unfinished(accesses[a]) \/ (accesses[a].finalizer /\ ~accesses'[a].finalizer)
    BY Zenon, <1>8, <2>2, StillUnfinished
  <2>4. accesses[a].finalizer /\ ~accesses'[a].finalizer => a \in controllerEvents'
    BY Zenon, <1>4, <1>8, <2>1, EventsTell DEF Stored
  <2>5. Unfinished(accesses'[a]) => ControllerHas(a)'
    BY Zenon, <1>1, <1>3, <1>8, <2>3, <2>4 DEF ControllerAttends, ControllerHas
  <2> QED BY Zenon, <1>1, <1>2, <1>4, <1>8, <2>5 DEF ControllerAttends
<1>9. x # a => accesses'[x] = accesses[x]
  BY Zenon DEF Stored
<1> QED BY Zenon, <1>5, <1>6, <1>7, <1>8, <1>9

\* The Sidecar keeps attending to accesses that others write.
LEMMA SidecarStays ==
    ASSUME AccessesOK, SidecarOK, NEW a \in AccessName, Stored(a),
           MayBecome(accesses[a], accesses'[a]), HolderKept("sidecarWorker"),
           UNCHANGED <<sidecarAccesses, sidecarQueue, sw>>,
           \/ accesses'[a] = accesses[a] \/ SameStatus(accesses[a], accesses'[a])
           \/ ~ForSidecar(accesses'[a]) \/ ~ForSidecar(accesses[a])
    PROVE  SidecarOK'
<1> SUFFICES ASSUME NEW x \in AccessName
             PROVE  SidecarCoherent(x)' /\ SidecarAttends(x)'
  BY Zenon DEF SidecarOK
<1>1. SidecarCoherent(x) /\ SidecarAttends(x)
  BY Zenon DEF SidecarOK
<1>2. SidecarCoherent(x)'
  BY Zenon, <1>1 DEF SidecarCoherent, HolderKept
<1>3. SidecarHas(x) => SidecarHas(x)'
  BY Zenon DEF SidecarHas, Stored
<1>4. /\ accesses[x] \in Obj \cup {None} /\ accesses'[x] \in Obj \cup {None}
      /\ x \in sidecarEvents => x \in sidecarEvents'
  BY Zenon DEF AccessesOK, Stored
<1>5. CASE accesses'[x] = accesses[x]
  BY Zenon, <1>1, <1>2, <1>3, <1>4, <1>5 DEF SidecarAttends
<1>6. CASE x = a /\ ~ForSidecar(accesses'[a])
  BY Zenon, <1>2, <1>6 DEF SidecarAttends
<1>7. CASE x = a /\ ForSidecar(accesses'[a]) /\ ~ForSidecar(accesses[a])
  <2>1. a \in sidecarEvents'
    BY Zenon, <1>4, <1>7, EventsTell DEF Stored
  <2> QED BY Zenon, <1>2, <1>7, <2>1 DEF SidecarAttends, SidecarHas
<1>8. CASE /\ x = a /\ ForSidecar(accesses'[a]) /\ ForSidecar(accesses[a])
           /\ SameStatus(accesses[a], accesses'[a])
  <2>1. accesses[a] # None /\ accesses'[a] # None
    BY Zenon, <1>8 DEF ForSidecar
  <2>2. accesses[a] \in Obj /\ accesses'[a] \in Obj
    BY Zenon, <1>4, <1>8, <2>1
  <2>3. Unfinished(accesses'[a]) =>
          Unfinished(accesses[a]) \/ (accesses[a].finalizer /\ ~accesses'[a].finalizer)
    BY Zenon, <1>8, <2>2, StillUnfinished
  <2>4. accesses[a].finalizer /\ ~accesses'[a].finalizer => a \in sidecarEvents'
    BY Zenon, <1>4, <1>8, <2>1, EventsTell DEF Stored
  <2>5. Unfinished(accesses'[a]) => SidecarHas(a)'
    BY Zenon, <1>1, <1>3, <1>8, <2>3, <2>4 DEF SidecarAttends, SidecarHas
  <2> QED BY Zenon, <1>1, <1>2, <1>4, <1>8, <2>5 DEF SidecarAttends
<1>9. x # a => accesses'[x] = accesses[x]
  BY Zenon DEF Stored
<1> QED BY Zenon, <1>5, <1>6, <1>7, <1>8, <1>9

\* The Controller attends to what it writes itself, if it still has the access in hand
\* or is done with it.
LEMMA ControllerWrites ==
    ASSUME AccessesOK, ControllerOK, NEW a \in AccessName, cw.name = a, Stored(a),
           MayBecome(accesses[a], accesses'[a]), OnlyWriter("controllerWorker"),
           UNCHANGED accessCache, controllerQueue \subseteq controllerQueue',
           ControllerCoherent(a)',
           ForController(accesses'[a]) /\ Unfinished(accesses'[a]) => ControllerHas(a)'
    PROVE  ControllerOK'
<1> SUFFICES ASSUME NEW x \in AccessName
             PROVE  ControllerCoherent(x)' /\ ControllerAttends(x)'
  BY Zenon DEF ControllerOK
<1>1. ControllerCoherent(x) /\ ControllerAttends(x)
  BY Zenon DEF ControllerOK
<1>2. /\ accesses[x] \in Obj \cup {None} /\ accesses'[x] \in Obj \cup {None}
      /\ x \in controllerEvents => x \in controllerEvents'
      /\ x \in controllerQueue => x \in controllerQueue'
      /\ x # a => accesses'[x] = accesses[x]
  BY Zenon DEF AccessesOK, Stored
<1>3. CASE x = a
  <2>1. CASE ~ForController(accesses'[a])
    BY Zenon, <1>3, <2>1 DEF ControllerAttends
  <2>2. CASE ForController(accesses'[a]) /\ ~ForController(accesses[a])
    <3>1. a \in controllerEvents'
      BY Zenon, <1>2, <1>3, <2>2, EventsTell DEF Stored
    <3> QED BY Zenon, <1>3, <2>2, <3>1 DEF ControllerAttends, ControllerHas
  <2>3. CASE ForController(accesses'[a]) /\ ForController(accesses[a])
    BY Zenon, <1>1, <1>2, <1>3, <2>3 DEF ControllerAttends
  <2> QED BY Zenon, <2>1, <2>2, <2>3
<1>4. CASE x # a
  <2>1. "controllerWorker" \notin freshAccess[x]
    BY Zenon, <1>1, <1>4 DEF ControllerCoherent
  <2>2. "controllerWorker" \notin freshAccess'[x]
    BY Zenon, <2>1 DEF OnlyWriter, AccessHolder
  <2>3. ControllerHas(x) => ControllerHas(x)'
    BY Zenon, <1>2, <1>4 DEF ControllerHas
  <2> QED BY Zenon, <1>1, <1>2, <1>4, <2>2, <2>3 DEF ControllerCoherent, ControllerAttends
<1> QED BY Zenon, <1>3, <1>4

\* The Sidecar attends to what it writes itself in the same way.
LEMMA SidecarWrites ==
    ASSUME AccessesOK, SidecarOK, NEW a \in AccessName, sw.name = a, Stored(a),
           MayBecome(accesses[a], accesses'[a]), OnlyWriter("sidecarWorker"),
           UNCHANGED sidecarAccesses, sidecarQueue \subseteq sidecarQueue',
           SidecarCoherent(a)',
           ForSidecar(accesses'[a]) /\ Unfinished(accesses'[a]) => SidecarHas(a)'
    PROVE  SidecarOK'
<1> SUFFICES ASSUME NEW x \in AccessName
             PROVE  SidecarCoherent(x)' /\ SidecarAttends(x)'
  BY Zenon DEF SidecarOK
<1>1. SidecarCoherent(x) /\ SidecarAttends(x)
  BY Zenon DEF SidecarOK
<1>2. /\ accesses[x] \in Obj \cup {None} /\ accesses'[x] \in Obj \cup {None}
      /\ x \in sidecarEvents => x \in sidecarEvents'
      /\ x \in sidecarQueue => x \in sidecarQueue'
      /\ x # a => accesses'[x] = accesses[x]
  BY Zenon DEF AccessesOK, Stored
<1>3. CASE x = a
  <2>1. CASE ~ForSidecar(accesses'[a])
    BY Zenon, <1>3, <2>1 DEF SidecarAttends
  <2>2. CASE ForSidecar(accesses'[a]) /\ ~ForSidecar(accesses[a])
    <3>1. a \in sidecarEvents'
      BY Zenon, <1>2, <1>3, <2>2, EventsTell DEF Stored
    <3> QED BY Zenon, <1>3, <2>2, <3>1 DEF SidecarAttends, SidecarHas
  <2>3. CASE ForSidecar(accesses'[a]) /\ ForSidecar(accesses[a])
    BY Zenon, <1>1, <1>2, <1>3, <2>3 DEF SidecarAttends
  <2> QED BY Zenon, <2>1, <2>2, <2>3
<1>4. CASE x # a
  <2>1. "sidecarWorker" \notin freshAccess[x]
    BY Zenon, <1>1, <1>4 DEF SidecarCoherent
  <2>2. "sidecarWorker" \notin freshAccess'[x]
    BY Zenon, <2>1 DEF OnlyWriter, AccessHolder
  <2>3. SidecarHas(x) => SidecarHas(x)'
    BY Zenon, <1>2, <1>4 DEF SidecarHas
  <2> QED BY Zenon, <1>1, <1>2, <1>4, <2>2, <2>3 DEF SidecarCoherent, SidecarAttends
<1> QED BY Zenon, <1>3, <1>4

\* A worker that goes on with the same copy stays coherent.
LEMMA ControllerGoesOn ==
    ASSUME ControllerOK, UNCHANGED <<accessVars, controllerQueue>>,
           cw'.name = cw.name, cw'.access = cw.access, cw'.pc # "idle", cw.pc # "report",
           cw'.pc = "report" => ControllerMayReport(cw.access, cw.access)
    PROVE  ControllerOK'
<1> SUFFICES ASSUME NEW x \in AccessName
             PROVE  ControllerCoherent(x)' /\ ControllerAttends(x)'
  BY Zenon DEF ControllerOK
<1>1. ControllerCoherent(x) /\ ControllerAttends(x)
  BY Zenon DEF ControllerOK
<1>2. ControllerCoherent(x)'
  BY Zenon, <1>1 DEF ControllerCoherent, accessVars
<1>3. ControllerAttends(x)'
  BY Zenon, <1>1 DEF ControllerAttends, ControllerHas, accessVars
<1> QED BY Zenon, <1>2, <1>3

\* The same of the Sidecar's worker.
LEMMA SidecarGoesOn ==
    ASSUME SidecarOK, UNCHANGED <<accessVars, sidecarQueue>>,
           sw'.name = sw.name, sw'.access = sw.access, sw'.pc # "idle", sw.pc # "report"
    PROVE  SidecarOK'
<1> SUFFICES ASSUME NEW x \in AccessName
             PROVE  SidecarCoherent(x)' /\ SidecarAttends(x)'
  BY Zenon DEF SidecarOK
<1>1. SidecarCoherent(x) /\ SidecarAttends(x)
  BY Zenon DEF SidecarOK
<1>2. SidecarCoherent(x)'
  BY Zenon, <1>1 DEF SidecarCoherent, SameFinal, accessVars
<1>3. SidecarAttends(x)'
  BY Zenon, <1>1 DEF SidecarAttends, SidecarHas, accessVars
<1> QED BY Zenon, <1>2, <1>3
-----------------------------------------------------------------------------
(***************************************************************************)
(* What a step leaves alone stays as it is.                                *)
(***************************************************************************)
\* No access, event, cache or queue changes.
LEMMA AccessesUnchanged ==
    ASSUME AccessesOK, CachesOK, UNCHANGED <<accessVars, controllerQueue, sidecarQueue>>
    PROVE  AccessesOK' /\ CachesOK' /\ StepOK
<1>1. AccessesOK'
  BY Zenon DEF AccessesOK, accessVars
<1>2. CachesOK'
  BY Zenon DEF CachesOK, CachesCoherent, accessVars
<1>3. StepOK
  BY Zenon DEF StepOK, MayBecome, SameFinal, accessVars
<1> QED BY Zenon, <1>1, <1>2, <1>3

\* The Controller and what it sees of accesses do not change.
LEMMA ControllerUnchanged ==
    ASSUME ControllerHolds(cw), ControllerOK, UNCHANGED <<accessVars, controllerVars>>
    PROVE  ControllerHolds(cw)' /\ ControllerOK'
<1>1. ControllerHolds(cw)'
  BY Zenon DEF controllerVars
<1>2. ControllerOK'
  BY Zenon DEF ControllerOK, ControllerCoherent, ControllerAttends, ControllerHas, accessVars,
         controllerVars
<1> QED BY Zenon, <1>1, <1>2

\* The Sidecar and what it sees of accesses do not change.
LEMMA SidecarUnchanged ==
    ASSUME SidecarHolds(sw), SidecarOK, UNCHANGED <<accessVars, sidecarVars>>
    PROVE  SidecarHolds(sw)' /\ SidecarOK'
<1>1. SidecarHolds(sw)'
  BY Zenon DEF sidecarVars
<1>2. SidecarOK'
  BY Zenon DEF SidecarOK, SidecarCoherent, SidecarAttends, SidecarHas, accessVars, sidecarVars
<1> QED BY Zenon, <1>1, <1>2

\* No claim, Bucket or copy of one changes.
LEMMA ClaimsUnchanged == ASSUME ClaimsOK, UNCHANGED claimVars PROVE ClaimsOK'
BY Zenon DEF ClaimsOK, ClaimOK, claimVars

\* No Secret or copy of one changes.
LEMMA SecretsUnchanged == ASSUME SecretsOK, UNCHANGED secretVars PROVE SecretsOK'
BY Zenon DEF SecretsOK, SecretOK, secretVars

\* Neither the class, the accounts nor the counters change.
LEMMA CountersUnchanged == ASSUME CountersOK, UNCHANGED counterVars PROVE CountersOK'
BY Zenon DEF CountersOK, counterVars

\* No fault is used up.
LEMMA FaultsUnchanged == ASSUME FaultsOK, UNCHANGED faults PROVE FaultsOK'
BY Zenon DEF FaultsOK
-----------------------------------------------------------------------------
(***************************************************************************)
(* The Controller's steps.                                                 *)
(***************************************************************************)
\* Nothing has to change.
LEMMA StaysItself == \A x : MayBecome(x, x)
BY Zenon DEF MayBecome, SameFinal

\* What a step of the Controller leaves alone.
LEMMA ControllerFrame ==
    ASSUME unchangedByController
    PROVE  UNCHANGED <<secretVars, accessCaches, sidecarVars, counterVars, claimCache,
                       bucketCache, sidecarBuckets, buckets>>
BY Zenon DEF unchangedByController, secretVars, storedSecrets, accessCaches, otherCaches,
       sidecarVars, counterVars, envVars

\* Every write of an access by the Controller.
LEMMA ControllerWriteKeeps ==
    ASSUME IInv, cw.pc # "idle", NEW a, a = cw.name, NEW o \in Outcome, NEW obj,
           NEW touch \in BOOLEAN, NEW done \in BOOLEAN,
           WriteAccess(o, a, obj, touch, "controllerWorker", done),
           "controllerWorker" \in freshAccess[a] =>
             /\ Persisted(obj) \in Obj \cup {None}
             /\ MayBecome(accesses[a], Persisted(obj))
             /\ ~ForSidecar(Persisted(obj)) \/ ~ForSidecar(accesses[a]),
           unchangedByController, UNCHANGED storedClaims,
           controllerQueue \subseteq controllerQueue', controllerQueue' \subseteq AccessName,
           ControllerHolds(cw'),
           Written(o, a, obj, "controllerWorker", done) =>
             /\ ControllerCoherent(a)'
             /\ ForController(accesses'[a]) /\ Unfinished(accesses'[a]) => ControllerHas(a)'
    PROVE  IInv' /\ StepOK
<1>1. /\ AccessesOK /\ ControllerHolds(cw) /\ SidecarHolds(sw) /\ CachesOK /\ ControllerOK
      /\ SidecarOK /\ ClaimsOK /\ SecretsOK /\ CountersOK /\ FaultsOK
  BY Zenon, InvariantParts
<1>2. a \in AccessName
  BY Zenon, <1>1 DEF ControllerHolds
<1>3. "controllerWorker" \in AccessHolder /\ "sidecarWorker" \in AccessHolder
      /\ "controllerCache" \in AccessHolder /\ "sidecarCache" \in AccessHolder
  BY Zenon DEF AccessHolder
<1>4. Written(o, a, obj, "controllerWorker", done) /\ FaultsOK'
  BY Zenon, <1>1, <1>2, <1>3, WriteFacts
<1>5. /\ Stored(a) /\ OnlyWriter("controllerWorker")
      /\ freshAccess' \in [AccessName -> SUBSET AccessHolder]
      /\ \/ "controllerWorker" \in freshAccess[a] /\ accesses'[a] = Persisted(obj)
         \/ accesses'[a] = accesses[a]
  BY Zenon, <1>4 DEF Written
<1>6. MayBecome(accesses[a], accesses'[a])
  BY Zenon, <1>5, StaysItself
<1>7. UNCHANGED <<secretVars, accessCaches, sidecarVars, counterVars, claimCache,
                  bucketCache, sidecarBuckets, buckets>>
  BY ZenonT(30), ControllerFrame
<1>8. UNCHANGED <<accessCache, sidecarAccesses, sidecarQueue, sw>>
  BY Zenon, <1>7 DEF accessCaches, sidecarVars
<1>9. AccessesOK'
  BY SMTT(30), <1>1, <1>5, <1>8 DEF AccessesOK, Stored
<1>10. HolderKept("controllerCache") /\ HolderKept("sidecarCache")
       /\ HolderKept("sidecarWorker")
  BY Zenon, <1>3, <1>5, OthersKept
<1>11. CachesOK'
  BY Zenon, <1>1, <1>7, <1>10, CachesStay
<1>12. ControllerOK'
  BY Zenon, <1>1, <1>2, <1>4, <1>5, <1>6, <1>8, ControllerWrites
<1>13. SidecarOK'
  BY Zenon, <1>1, <1>2, <1>5, <1>6, <1>8, <1>10, SidecarStays
<1>14. SidecarHolds(sw)'
  BY Zenon, <1>1, <1>8
<1>15. ClaimsOK'
  <2>1. UNCHANGED claimVars
    BY Zenon, <1>7 DEF claimVars, storedClaims
  <2> QED BY Zenon, <1>1, <2>1, ClaimsUnchanged
<1>16. SecretsOK' /\ CountersOK'
  BY Zenon, <1>1, <1>7, SecretsUnchanged, CountersUnchanged
<1>17. StepOK
  BY Zenon, <1>5, <1>6, StaysItself DEF StepOK, Stored
<1> QED
  BY Zenon, <1>4, <1>9, <1>11, <1>12, <1>13, <1>14, <1>15, <1>16, <1>17, InvariantParts

\* The finalizer is added.
LEMMA ControllerAddFinalizerKeeps ==
    ASSUME IInv, ControllerAddFinalizer PROVE IInv' /\ StepOK
<1>1. PICK a : a = cw.name
  BY Zenon
<1>2. PICK obj : obj = [cw.access EXCEPT !.finalizer = TRUE]
  BY Zenon
<1>3. PICK o \in Outcome :
        /\ WriteAccess(o, a, obj, FALSE, "controllerWorker", FALSE)
        /\ cw' = IF o = "ok" THEN [cw EXCEPT !.pc = "readClaims", !.access = obj]
                             ELSE FailController(cw, "retry")
  BY Zenon, <1>1, <1>2 DEF ControllerAddFinalizer
<1>4. /\ cw.pc = "addFinalizer" /\ unchangedByController
      /\ UNCHANGED <<storedClaims, controllerQueue>>
  BY Zenon DEF ControllerAddFinalizer
<1>5. /\ cw \in ControllerWorker /\ a \in AccessName /\ cw.access \in Obj
      /\ cw.access.driverName = None /\ ~cw.access.deleting
      /\ controllerQueue' \subseteq AccessName
  BY Zenon, <1>1, <1>4, InvariantParts DEF AccessesOK, ControllerHolds, Preparing
<1>6. /\ obj \in Obj /\ SameStatus(cw.access, obj) /\ obj.deleting = cw.access.deleting
      /\ obj.override = cw.access.override
  BY Zenon, <1>2, <1>5, WithFinalizer
<1>7. Persisted(obj) = obj
  BY Zenon, <1>5, <1>6, PersistedObject
<1>8. obj.driverName = None /\ ~obj.deleting
  BY Zenon, <1>5, <1>6 DEF SameStatus
<1>9. /\ ControllerHolds(cw') /\ cw'.name = a /\ cw'.pc # "idle"
      /\ o = "ok" => cw'.access = obj /\ cw'.pc # "report"
      /\ o # "ok" => cw'.access = cw.access
  <2>1. CASE o = "ok"
    <3>1. cw' = [cw EXCEPT !.pc = "readClaims", !.access = obj]
      BY Zenon, <1>3, <2>1
    <3>2. obj \in AccessObject
      BY Zenon, <1>6 DEF Obj
    <3> QED
      BY ZenonT(30), <1>1, <1>5, <1>6, <1>8, <2>1, <3>1, <3>2
         DEF ControllerHolds, ControllerWorker, ControllerPc,
         Preparing, Retiring
  <2>2. CASE o # "ok"
    <3>1. cw' = FailController(cw, "retry") /\ "retry" \in Error
      BY Zenon, <1>3, <2>2 DEF Error
    <3> QED BY SMTT(60), <1>1, <1>5, <2>2, <3>1, FailControllerOK
  <2> QED BY Zenon, <2>1, <2>2
<1>10. "controllerWorker" \in freshAccess[a] => accesses[a] = cw.access
  BY Zenon, <1>1, <1>4, ControllerCopy
<1>11. "controllerWorker" \in freshAccess[a] =>
         /\ Persisted(obj) \in Obj \cup {None}
         /\ MayBecome(accesses[a], Persisted(obj))
         /\ ~ForSidecar(Persisted(obj)) \/ ~ForSidecar(accesses[a])
  BY Zenon, <1>5, <1>6, <1>7, <1>8, <1>10 DEF MayBecome, ForSidecar
<1>12. ASSUME Written(o, a, obj, "controllerWorker", FALSE)
       PROVE  ControllerCoherent(a)' /\ ControllerHas(a)'
  <2>1. ControllerHas(a)'
    BY Zenon, <1>9 DEF ControllerHas
  <2>2. ASSUME "controllerWorker" \in freshAccess'[a]
        PROVE  /\ accesses'[a] # None /\ accesses'[a].driverName = None
               /\ o = "ok" => accesses'[a] = obj
               /\ o # "ok" => accesses'[a] = cw.access
    <3>1. "controllerWorker" \in freshAccess[a]
      BY Zenon, <1>5, <1>12, <2>2 DEF Written, OnlyWriter, AccessHolder
    <3>2. accesses[a] = cw.access /\ accesses[a] # None
      BY Zenon, <1>1, <1>5, <1>10, <3>1, InvariantParts DEF ControllerOK, ControllerCoherent
    <3>3. CASE o = "ok"
      BY Zenon, <1>7, <1>8, <1>12, <2>2, <3>2, <3>3 DEF Written, Applied
    <3>4. CASE o # "ok"
      BY Zenon, <1>5, <1>12, <2>2, <3>2, <3>4 DEF Written
    <3> QED BY Zenon, <3>3, <3>4
  <2>3. ControllerCoherent(a)'
    BY Zenon, <1>9, <2>2 DEF ControllerCoherent, ControllerMayReport
  <2> QED BY Zenon, <2>1, <2>3
<1> QED
  <2>1. /\ FALSE \in BOOLEAN /\ controllerQueue \subseteq controllerQueue'
        /\ UNCHANGED storedClaims /\ cw.pc # "idle"
    BY Zenon, <1>4
  <2> QED BY Zenon, <1>1, <1>3, <1>4, <1>5, <1>9, <1>11, <1>12, <2>1, ControllerWriteKeeps

\* A worker whose copy is outdated, or that has forgotten it, is coherent.
LEMMA ControllerForgets ==
    ASSUME NEW a \in AccessName, Forgotten("controllerWorker") PROVE ControllerCoherent(a)'
BY Zenon DEF Forgotten, ControllerCoherent

\* The finalizer is removed.
LEMMA ControllerRemoveFinalizerKeeps ==
    ASSUME IInv, ControllerRemoveFinalizer PROVE IInv' /\ StepOK
<1>1. PICK a : a = cw.name
  BY Zenon
<1>2. PICK obj : obj = [cw.access EXCEPT !.finalizer = FALSE]
  BY Zenon
<1>3. PICK o \in Outcome :
        /\ WriteAccess(o, a, obj, FALSE, "controllerWorker", o = "ok")
        /\ cw' = IF o = "ok" THEN ControllerIdle ELSE FailController(cw, "retry")
  BY Zenon, <1>1, <1>2 DEF ControllerRemoveFinalizer
<1>4. /\ cw.pc = "removeFinalizer" /\ unchangedByController
      /\ UNCHANGED <<storedClaims, controllerQueue>>
  BY Zenon DEF ControllerRemoveFinalizer
<1>5. /\ cw \in ControllerWorker /\ a \in AccessName /\ cw.access \in Obj
      /\ cw.access.deleting /\ controllerQueue' \subseteq AccessName
  BY Zenon, <1>1, <1>4, InvariantParts DEF AccessesOK, ControllerHolds, Retiring
<1>6. obj \in Obj /\ ~obj.finalizer /\ obj.deleting = cw.access.deleting
  BY Zenon, <1>2, <1>5, WithoutFinalizer
<1>7. Persisted(obj) = None
  BY Zenon, <1>5, <1>6 DEF Persisted
<1>8. /\ ControllerHolds(cw')
      /\ o # "ok" => /\ cw'.name = a /\ cw'.access = cw.access /\ cw'.pc = "report"
  <2>1. "retry" \in Error
    BY Zenon DEF Error
  <2>2. CASE o = "ok"
    BY Zenon, <1>3, <2>2, ControllerIdleOK
  <2>3. CASE o # "ok"
    <3>1. cw' = FailController(cw, "retry")
      BY Zenon, <1>3, <2>3
    <3> QED BY SMTT(60), <1>1, <1>5, <2>1, <2>3, <3>1, FailControllerOK
  <2> QED BY Zenon, <2>2, <2>3
<1>9. "controllerWorker" \in freshAccess[a] => accesses[a] = cw.access
  BY Zenon, <1>1, <1>4, ControllerCopy
<1>10. "controllerWorker" \in freshAccess[a] =>
         /\ Persisted(obj) \in Obj \cup {None}
         /\ MayBecome(accesses[a], Persisted(obj))
         /\ ~ForSidecar(Persisted(obj)) \/ ~ForSidecar(accesses[a])
  BY Zenon, <1>7 DEF MayBecome, ForSidecar
<1>11. ASSUME Written(o, a, obj, "controllerWorker", o = "ok")
       PROVE  /\ ControllerCoherent(a)'
              /\ ForController(accesses'[a]) => ControllerHas(a)'
  <2>1. CASE o = "ok"
    <3>1. accesses'[a] = None /\ Forgotten("controllerWorker")
      BY Zenon, <1>7, <1>11, <2>1 DEF Written, Applied
    <3> QED BY Zenon, <1>5, <3>1, ControllerForgets DEF ForController
  <2>2. CASE o # "ok"
    <3>1. ControllerHas(a)'
      BY Zenon, <1>8, <2>2 DEF ControllerHas
    <3>2. ASSUME "controllerWorker" \in freshAccess'[a]
          PROVE  accesses'[a] # None /\ accesses'[a] = cw.access
      <4>1. "controllerWorker" \in freshAccess[a]
        BY Zenon, <1>5, <1>11, <3>2 DEF Written, OnlyWriter, AccessHolder
      <4>2. accesses[a] = cw.access /\ accesses[a] # None
        BY Zenon, <1>1, <1>5, <1>9, <4>1, InvariantParts DEF ControllerOK, ControllerCoherent
      <4> QED BY Zenon, <1>11, <2>2, <3>2, <4>2 DEF Written
    <3>3. ControllerCoherent(a)'
      BY Zenon, <1>5, <1>8, <2>2, <3>2 DEF ControllerCoherent, ControllerMayReport, SameFinal
    <3> QED BY Zenon, <3>1, <3>3
  <2> QED BY Zenon, <2>1, <2>2
<1> QED
  <2>1. /\ FALSE \in BOOLEAN /\ controllerQueue \subseteq controllerQueue'
        /\ UNCHANGED storedClaims /\ cw.pc # "idle"
    BY Zenon, <1>4
  <2>2. (o = "ok") \in BOOLEAN
    BY Zenon
  <2> QED
    BY Zenon, <1>1, <1>3, <1>4, <1>5, <1>8, <1>10, <1>11, <2>1, <2>2, ControllerWriteKeeps

\* The access is handed over.
LEMMA ControllerHandoffKeeps ==
    ASSUME IInv, ControllerHandoff PROVE IInv' /\ StepOK
<1>1. PICK a : a = cw.name
  BY Zenon
<1>2. PICK local : local = [cw.access EXCEPT !.readyToUse = NotNil(@),
                        !.accessedBuckets = References(cw.access),
                        !.driverName = Class.driverName,
                        !.authenticationType = Class.authenticationType,
                        !.error = "none"]
  BY Zenon
<1>3. PICK obj : obj = SetAccessStatus(accesses[a], local)
  BY Zenon
<1>4. PICK o \in Outcome :
        /\ WriteAccess(o, a, obj, FALSE, "controllerWorker", o = "ok")
        /\ cw' = IF o = "ok" THEN ControllerIdle
                 ELSE FailController([cw EXCEPT !.access = local], "retry")
  BY Zenon, <1>1, <1>2, <1>3 DEF ControllerHandoff
<1>5. /\ cw.pc = "handoff" /\ unchangedByController
      /\ UNCHANGED <<storedClaims, controllerQueue>>
  BY Zenon DEF ControllerHandoff
<1>6. /\ cw \in ControllerWorker /\ a \in AccessName /\ cw.access \in Obj
      /\ cw.access.driverName = None /\ ~cw.access.deleting
      /\ controllerQueue' \subseteq AccessName
  BY Zenon, <1>1, <1>5, InvariantParts DEF AccessesOK, ControllerHolds, Preparing
<1>7. local \in Obj /\ SameMetadata(cw.access, local) /\ local.driverName # None
  BY Zenon, <1>2, <1>6, HandedOver
<1>8. "controllerWorker" \in freshAccess[a] =>
        /\ accesses[a] = cw.access
        /\ Persisted(obj) = obj /\ obj \in Obj /\ obj.driverName # None
  <2>1. SUFFICES ASSUME "controllerWorker" \in freshAccess[a]
                 PROVE  /\ accesses[a] = cw.access
                        /\ Persisted(obj) = obj /\ obj \in Obj /\ obj.driverName # None
    BY Zenon
  <2>2. accesses[a] = cw.access
    BY Zenon, <1>1, <1>5, <2>1, ControllerCopy
  <2>3. obj \in Obj /\ SameMetadata(cw.access, obj) /\ SameStatus(local, obj)
    BY Zenon, <1>3, <1>6, <1>7, <2>2, WithStatus
  <2>4. ~obj.deleting /\ obj.driverName # None
    BY Zenon, <1>6, <1>7, <2>3 DEF SameMetadata, SameStatus
  <2> QED BY Zenon, <2>2, <2>3, <2>4, PersistedObject
<1>9. /\ ControllerHolds(cw')
      /\ o # "ok" => cw'.name = a /\ cw'.pc = "report"
  <2>1. "retry" \in Error
    BY Zenon DEF Error
  <2>2. CASE o = "ok"
    BY Zenon, <1>4, <2>2, ControllerIdleOK
  <2>3. CASE o # "ok"
    <3>1. PICK w : w = [cw EXCEPT !.access = local]
      BY Zenon
    <3>2. w \in ControllerWorker /\ w.name = a /\ w.name \in AccessName /\ w.access \in Obj
      BY Zenon, <1>1, <1>6, <1>7, <3>1 DEF ControllerWorker, Obj
    <3>3. cw' = FailController(w, "retry")
      BY Zenon, <1>4, <2>3, <3>1
    <3> QED BY SMTT(60), <2>1, <2>3, <3>2, <3>3, FailControllerOK
  <2> QED BY Zenon, <2>2, <2>3
<1>10. "controllerWorker" \in freshAccess[a] =>
         /\ Persisted(obj) \in Obj \cup {None}
         /\ MayBecome(accesses[a], Persisted(obj))
         /\ ~ForSidecar(Persisted(obj)) \/ ~ForSidecar(accesses[a])
  BY Zenon, <1>6, <1>8 DEF MayBecome, ForSidecar
<1>11. ASSUME Written(o, a, obj, "controllerWorker", o = "ok")
       PROVE  /\ ControllerCoherent(a)'
              /\ ForController(accesses'[a]) => ControllerHas(a)'
  <2>1. CASE o = "ok"
    <3>1. accesses'[a] = obj /\ obj.driverName # None /\ Forgotten("controllerWorker")
      BY Zenon, <1>8, <1>11, <2>1 DEF Written, Applied
    <3> QED BY Zenon, <1>6, <3>1, ControllerForgets DEF ForController
  <2>2. CASE o # "ok"
    <3>1. ControllerHas(a)'
      BY Zenon, <1>9, <2>2 DEF ControllerHas
    <3>2. ASSUME "controllerWorker" \in freshAccess'[a]
          PROVE  accesses'[a] # None /\ accesses'[a].driverName = None
      <4>1. "controllerWorker" \in freshAccess[a]
        BY Zenon, <1>6, <1>11, <3>2 DEF Written, OnlyWriter, AccessHolder
      <4>2. accesses[a] = cw.access /\ accesses[a] # None
        BY Zenon, <1>1, <1>6, <1>8, <4>1, InvariantParts DEF ControllerOK, ControllerCoherent
      <4> QED BY Zenon, <1>6, <1>11, <2>2, <3>2, <4>2 DEF Written
    <3>3. ControllerCoherent(a)'
      BY Zenon, <1>9, <2>2, <3>2 DEF ControllerCoherent, ControllerMayReport
    <3> QED BY Zenon, <3>1, <3>3
  <2> QED BY Zenon, <2>1, <2>2
<1> QED
  <2>1. /\ FALSE \in BOOLEAN /\ controllerQueue \subseteq controllerQueue'
        /\ UNCHANGED storedClaims /\ cw.pc # "idle"
    BY Zenon, <1>5
  <2>2. (o = "ok") \in BOOLEAN
    BY Zenon
  <2> QED
    BY Zenon, <1>1, <1>4, <1>5, <1>6, <1>9, <1>10, <1>11, <2>1, <2>2, ControllerWriteKeeps

\* The error of a reconcile is recorded.
LEMMA ControllerReportKeeps ==
    ASSUME IInv, ControllerReport PROVE IInv' /\ StepOK
<1>1. PICK a : a = cw.name
  BY Zenon
<1>2. PICK local : local = [cw.access EXCEPT !.readyToUse = NotNil(@), !.error = cw.error]
  BY Zenon
<1>3. PICK obj : obj = SetAccessStatus(accesses[a], local)
  BY Zenon
<1>4. PICK o \in Outcome :
        /\ WriteAccess(o, a, obj, TRUE, "controllerWorker", TRUE)
        /\ controllerQueue' = Requeued(controllerQueue, a, o, cw.error)
  BY Zenon, <1>1, <1>2, <1>3 DEF ControllerReport
<1>5. /\ cw.pc = "report" /\ unchangedByController
      /\ UNCHANGED storedClaims /\ cw' = ControllerIdle
  BY Zenon DEF ControllerReport
<1>6. /\ cw \in ControllerWorker /\ a \in AccessName /\ cw.access \in Obj /\ cw.error \in Error
      /\ controllerQueue \subseteq AccessName
      /\ accesses[a] \in Obj \cup {None}
  BY Zenon, <1>1, <1>5, InvariantParts DEF AccessesOK, ControllerHolds, ControllerWorker
<1>7. local \in Obj /\ SameFinal(cw.access, local) /\ local.error = cw.error
  <2>1. PICK x : x = cw.access
    BY Zenon
  <2>2. PICK e : e = cw.error
    BY Zenon
  <2>3. local = [x EXCEPT !.readyToUse = NotNil(@), !.error = e]
    BY Zenon, <1>2, <2>1, <2>2
  <2>4. x \in Obj /\ e \in Error
    BY Zenon, <1>6, <2>1, <2>2
  <2>5. local \in Obj /\ SameFinal(x, local) /\ local.error = e
    BY Zenon, <2>3, <2>4, WithError
  <2> QED BY Zenon, <2>1, <2>2, <2>5
<1>8. ASSUME "controllerWorker" \in freshAccess[a]
      PROVE  /\ Persisted(obj) \in Obj \cup {None}
             /\ MayBecome(accesses[a], Persisted(obj))
             /\ ~ForSidecar(Persisted(obj)) \/ ~ForSidecar(accesses[a])
             /\ Persisted(obj) # None => Persisted(obj).error = cw.error
  <2>1. accesses[a] # None /\ ControllerMayReport(accesses[a], cw.access)
    BY Zenon, <1>1, <1>5, <1>6, <1>8, InvariantParts DEF ControllerOK, ControllerCoherent
  <2>2. accesses[a] \in Obj
    BY Zenon, <1>6, <2>1
  <2>3. obj \in Obj /\ SameMetadata(accesses[a], obj) /\ SameStatus(local, obj)
    BY Zenon, <1>3, <1>7, <2>2, WithStatus
  <2>4. obj.error = cw.error
    BY Zenon, <1>7, <2>3 DEF SameStatus
  <2>5. MayBecome(accesses[a], obj)
    BY Zenon, <1>7, <2>1, <2>3 DEF MayBecome, ControllerMayReport, SameFinal, SameStatus, SameMetadata
  <2>6. ~ForSidecar(accesses[a])
    BY Zenon, <2>1 DEF ControllerMayReport, ForSidecar
  <2>7. Persisted(obj) \in {obj, None}
    BY Zenon, <2>3, PersistedObject
  <2> QED BY SMTT(30), <2>3, <2>4, <2>5, <2>6, <2>7 DEF MayBecome
<1>9. /\ controllerQueue \subseteq controllerQueue' /\ controllerQueue' \subseteq AccessName
      /\ a \in controllerQueue' \/ (o = "ok" /\ cw.error \in TerminalError)
  BY Zenon, <1>4, <1>6 DEF Requeued
<1>10. ASSUME Written(o, a, obj, "controllerWorker", TRUE)
       PROVE  /\ ControllerCoherent(a)'
              /\ ForController(accesses'[a]) /\ Unfinished(accesses'[a]) => ControllerHas(a)'
  <2>1. ControllerCoherent(a)'
    BY Zenon, <1>6, <1>10, ControllerForgets DEF Written
  <2>2. CASE a \in controllerQueue'
    BY Zenon, <2>1, <2>2 DEF ControllerHas
  <2>3. CASE o = "ok" /\ cw.error \in TerminalError
    <3>1. "controllerWorker" \in freshAccess[a] /\ accesses'[a] = Persisted(obj)
      BY Zenon, <1>10, <2>3 DEF Written, Applied
    <3>2. accesses'[a] # None => accesses'[a].error \in TerminalError
      BY Zenon, <1>8, <2>3, <3>1
    <3> QED BY Zenon, <2>1, <3>2 DEF ForController, Unfinished
  <2> QED BY Zenon, <1>9, <2>2, <2>3
<1> QED
  <2>1. TRUE \in BOOLEAN /\ cw.pc # "idle"
    BY Zenon, <1>5
  <2>2. ControllerHolds(cw')
    BY Zenon, <1>5, ControllerIdleOK
  <2> QED
    BY Zenon, <1>1, <1>4, <1>5, <1>8, <1>9, <1>10, <2>1, <2>2, ControllerWriteKeeps

\* A step of the Controller that writes no access.
LEMMA ControllerProceeds ==
    ASSUME IInv, unchangedByController, UNCHANGED <<storedAccesses, controllerQueue>>,
           ControllerHolds(cw'), ClaimsOK', FaultsOK', cw.pc \in Preparing \cup Retiring,
           cw'.name = cw.name, cw'.access = cw.access, cw'.pc # "idle"
    PROVE  IInv' /\ StepOK
<1>1. /\ AccessesOK /\ ControllerHolds(cw) /\ SidecarHolds(sw) /\ CachesOK /\ ControllerOK
      /\ SidecarOK /\ SecretsOK /\ CountersOK
  BY Zenon, InvariantParts
<1>2. UNCHANGED <<secretVars, accessCaches, sidecarVars, counterVars, claimCache,
                  bucketCache, sidecarBuckets, buckets>>
  BY ZenonT(30), ControllerFrame
<1>3. UNCHANGED <<accessVars, controllerQueue, sidecarQueue>>
  BY Zenon, <1>2 DEF accessVars, storedAccesses, accessCaches, sidecarVars
<1>4. AccessesOK' /\ CachesOK' /\ StepOK
  BY ZenonT(30), <1>1, <1>3, AccessesUnchanged
<1>5. cw.pc # "report" /\ ControllerMayReport(cw.access, cw.access)
  BY Zenon, <1>1 DEF ControllerHolds, ControllerMayReport, SameFinal, Preparing, Retiring
<1>6. UNCHANGED accessVars
  BY Zenon, <1>3
<1>7. ControllerOK'
  BY Zenon, <1>1, <1>3, <1>5, ControllerGoesOn
<1>8. SidecarHolds(sw)' /\ SidecarOK'
  BY Zenon, <1>1, <1>2, <1>6, SidecarUnchanged
<1>9. SecretsOK' /\ CountersOK'
  BY Zenon, <1>1, <1>2, SecretsUnchanged, CountersUnchanged
<1> QED BY Zenon, <1>4, <1>7, <1>8, <1>9, InvariantParts

\* The copies of claims that a reconcile reads.
LEMMA GetAllBucketClaimsType ==
    ASSUME ClaimsOK PROVE getAllBucketClaims \in [ClaimName -> ClaimObject \cup {None}]
<1>1. Seen("claims", claimCache, claims) \in [ClaimName -> ClaimObject \cup {None}]
  BY Zenon DEF ClaimsOK, Seen
<1> QED BY Zenon, <1>1 DEF getAllBucketClaims

\* The claims are read: a worker holds the current version of what is there.
LEMMA ReadClaimsKeeps ==
    ASSUME IInv, NEW left, left \subseteq ClaimName,
           \A c \in left : getAllBucketClaims[c] # None,
           NEW pc, NEW next, ReadClaims(left, pc, next),
           \/ cw.pc = "readClaims" /\ pc = "mark" /\ next = "readBuckets"
           \/ cw.pc = "readForDelete" /\ pc = "unmark" /\ next = "removeFinalizer"
    PROVE  IInv' /\ StepOK
<1>1. /\ UNCHANGED <<storedAccesses, claims, controllerQueue, faults>> /\ unchangedByController
      /\ cw' = [cw EXCEPT !.claims = IF pc = "unmark" THEN NoClaims ELSE getAllBucketClaims,
                          !.todo = left, !.pc = IF left = {} THEN next ELSE pc]
      /\ freshClaim' = [c \in ClaimName |->
                          IF c \in left /\ IsCurrent("claims", freshClaim[c])
                          THEN freshClaim[c] \cup {"worker"} ELSE freshClaim[c] \ {"worker"}]
  BY Zenon DEF ReadClaims
<1>2. ClaimsOK /\ ControllerHolds(cw) /\ FaultsOK
  BY Zenon, InvariantParts
<1>3. UNCHANGED <<claimCache, bucketCache, sidecarBuckets, buckets>>
  BY Zenon, <1>1, ControllerFrame
<1>4. ClaimsOK'
  <2>1. freshClaim' \in [ClaimName -> SUBSET Holder]
    <3>1. freshClaim \in [ClaimName -> SUBSET Holder]
      BY Zenon, <1>2 DEF ClaimsOK
    <3> QED BY Zenon, <1>1, <3>1 DEF Holder
  <2>2. ASSUME NEW c \in ClaimName PROVE ClaimOK(c)'
    <3>1. ClaimOK(c)
      BY Zenon, <1>2 DEF ClaimsOK
    <3>2. "cache" \in freshClaim'[c] => "cache" \in freshClaim[c]
      BY Zenon, <1>1
    <3>3. "worker" \in freshClaim'[c] => c \in left /\ IsCurrent("claims", freshClaim[c])
      BY Zenon, <1>1
    <3>4. "worker" \in freshClaim'[c] => claims[c] # None
      <4>1. c \in left => Seen("claims", claimCache, claims)[c] # None
        BY Zenon DEF getAllBucketClaims
      <4> QED BY Zenon, <3>1, <3>3, <4>1 DEF IsCurrent, Seen, ClaimOK
    <3> QED BY Zenon, <1>1, <1>3, <3>1, <3>2, <3>4 DEF ClaimOK
  <2>3. ASSUME UNCHANGED <<claims, claimCache, bucketCache, sidecarBuckets, buckets>>
        PROVE  ClaimsOK'
    BY Zenon, <1>2, <2>1, <2>2, <2>3 DEF ClaimsOK
  <2> QED BY Zenon, <1>1, <1>3, <2>3
<1>5. getAllBucketClaims \in [ClaimName -> ClaimObject \cup {None}]
  BY Zenon, <1>2, GetAllBucketClaimsType
<1>6. PICK read \in [ClaimName -> ClaimObject \cup {None}] :
        read = IF pc = "unmark" THEN NoClaims ELSE getAllBucketClaims
  BY Zenon, <1>5 DEF NoClaims
<1>7. PICK p : p = IF left = {} THEN next ELSE pc
  BY Zenon
<1>8. cw' = [cw EXCEPT !.claims = read, !.todo = left, !.pc = p]
  BY Zenon, <1>1, <1>6, <1>7
<1>9. /\ cw.pc \in Preparing \cup Retiring /\ p # "idle"
      /\ ControllerHolds(cw') /\ cw'.name = cw.name /\ cw'.access = cw.access /\ cw'.pc = p
  BY Zenon, <1>2, <1>7, <1>8
     DEF ControllerHolds, ControllerWorker, ControllerPc, Preparing, Retiring
<1>10. FaultsOK'
  BY Zenon, <1>1, <1>2 DEF FaultsOK
<1>11. UNCHANGED <<storedAccesses, controllerQueue>>
  BY Zenon, <1>1
<1> QED BY Zenon, <1>1, <1>4, <1>9, <1>10, <1>11, ControllerProceeds

\* The Controller reads the claims of an access it prepares.
LEMMA ControllerReadClaimsKeeps ==
    ASSUME IInv, ControllerReadClaims PROVE IInv' /\ StepOK
<1>1. PICK left : left = {c \in ClaimName : getAllBucketClaims[c] # None
                                             /\ ~getAllBucketClaims[c].marked}
  BY Zenon
<1>2. cw.pc = "readClaims" /\ ReadClaims(left, "mark", "readBuckets")
  BY Zenon, <1>1 DEF ControllerReadClaims
<1>3. left \subseteq ClaimName /\ \A c \in left : getAllBucketClaims[c] # None
  BY Zenon, <1>1
<1> QED BY Zenon, <1>2, <1>3, ReadClaimsKeeps

\* The Controller reads the claims of an access it retires.
LEMMA ControllerReadForDeleteKeeps ==
    ASSUME IInv, ControllerReadForDelete PROVE IInv' /\ StepOK
<1>1. PICK left : left = {c \in ClaimName :
                       /\ getAllBucketClaims[c] # None /\ getAllBucketClaims[c].marked
                       /\ ~hasBucketAccessReferences(c, accessCache, cw.name)}
  BY Zenon
<1>2. cw.pc = "readForDelete" /\ ReadClaims(left, "unmark", "removeFinalizer")
  BY Zenon, <1>1 DEF ControllerReadForDelete
<1>3. left \subseteq ClaimName /\ \A c \in left : getAllBucketClaims[c] # None
  BY Zenon, <1>1
<1> QED BY Zenon, <1>2, <1>3, ReadClaimsKeeps

\* A claim is marked or loses its mark.
LEMMA WriteMarkKeeps ==
    ASSUME IInv, NEW value \in BOOLEAN, NEW next, WriteMark(value, next),
           \/ cw.pc = "mark" /\ next = "readBuckets"
           \/ cw.pc = "unmark" /\ next = "removeFinalizer"
    PROVE  IInv' /\ StepOK
<1>1. PICK c \in cw.todo : \E o \in Outcome :
        LET new == IF Applied(o) THEN [claims[c] EXCEPT !.marked = value] ELSE claims[c]
            left == cw.todo \ {c}
            e == Join(cw.error, IF o = "ok" THEN "none" ELSE "retry")
        IN  /\ Ends(o, "worker" \in freshClaim[c])
            /\ claims' = [claims EXCEPT ![c] = new]
            /\ freshClaim' = [freshClaim EXCEPT ![c] =
                                AfterWrite(o, @, claims[c], new, FALSE, "worker") \ {"worker"}]
            /\ cw' = CASE left # {} -> [cw EXCEPT !.todo = left, !.error = e]
                       [] left = {} /\ e # "none" -> FailController(cw, e)
                       [] OTHER -> [cw EXCEPT !.todo = {}, !.pc = next]
            /\ UNCHANGED <<storedAccesses, controllerQueue>>
            /\ unchangedByController
  BY Zenon DEF WriteMark
<1>2. PICK o \in Outcome :
        LET new == IF Applied(o) THEN [claims[c] EXCEPT !.marked = value] ELSE claims[c]
            left == cw.todo \ {c}
            e == Join(cw.error, IF o = "ok" THEN "none" ELSE "retry")
        IN  /\ Ends(o, "worker" \in freshClaim[c])
            /\ claims' = [claims EXCEPT ![c] = new]
            /\ freshClaim' = [freshClaim EXCEPT ![c] =
                                AfterWrite(o, @, claims[c], new, FALSE, "worker") \ {"worker"}]
            /\ cw' = CASE left # {} -> [cw EXCEPT !.todo = left, !.error = e]
                       [] left = {} /\ e # "none" -> FailController(cw, e)
                       [] OTHER -> [cw EXCEPT !.todo = {}, !.pc = next]
            /\ UNCHANGED <<storedAccesses, controllerQueue>>
            /\ unchangedByController
  BY Zenon, <1>1
<1>3. PICK new : new = IF Applied(o) THEN [claims[c] EXCEPT !.marked = value] ELSE claims[c]
  BY Zenon
<1>4. PICK left : left = cw.todo \ {c}
  BY Zenon
<1>5. PICK e : e = Join(cw.error, IF o = "ok" THEN "none" ELSE "retry")
  BY Zenon
<1>6. PICK mine : mine = AfterWrite(o, freshClaim[c], claims[c], new, FALSE, "worker") \ {"worker"}
  BY Zenon
<1>7. /\ Ends(o, "worker" \in freshClaim[c])
      /\ claims' = [claims EXCEPT ![c] = new]
      /\ freshClaim' = [freshClaim EXCEPT ![c] = mine]
      /\ cw' = CASE left # {} -> [cw EXCEPT !.todo = left, !.error = e]
                 [] left = {} /\ e # "none" -> FailController(cw, e)
                 [] OTHER -> [cw EXCEPT !.todo = {}, !.pc = next]
      /\ UNCHANGED <<storedAccesses, controllerQueue>> /\ unchangedByController
  BY Zenon, <1>2, <1>3, <1>4, <1>5, <1>6
<1>8. ClaimsOK /\ ControllerHolds(cw) /\ FaultsOK /\ FaultsOK'
  BY Zenon, <1>7, EndsKeeps, InvariantParts
<1>9. c \in ClaimName /\ left \subseteq ClaimName /\ e \in Error
  BY Zenon, <1>4, <1>5, <1>8, JoinType DEF ControllerHolds, ControllerWorker
<1>10. UNCHANGED <<claimCache, bucketCache, sidecarBuckets, buckets>>
  BY ZenonT(30), <1>7, ControllerFrame
<1>11. /\ claims[c] \in ClaimObject \cup {None} /\ ClaimOK(c)
       /\ freshClaim[c] \subseteq Holder
  BY ZenonT(30), <1>8, <1>9 DEF ClaimsOK
<1>12. /\ new = claims[c] \/ (new \in ClaimObject /\ claims[c] # None
                              /\ new.bound = claims[c].bound)
  <2>1. CASE Applied(o)
    <3>1. "worker" \in freshClaim[c]
      BY Zenon, <1>7, <2>1 DEF Applied, Ends
    <3>2. claims[c] \in ClaimObject /\ claims[c] # None
      BY Zenon, <1>11, <3>1 DEF ClaimOK
    <3> QED BY Zenon, <1>3, <2>1, <3>2 DEF ClaimObject
  <2>2. CASE ~Applied(o)
    BY Zenon, <1>3, <2>2
  <2> QED BY Zenon, <2>1, <2>2
<1>13. /\ mine \subseteq Holder /\ "worker" \notin mine
       /\ mine # {} => mine \subseteq freshClaim[c] /\ new = claims[c]
  BY Zenon, <1>3, <1>6, <1>11 DEF AfterWrite, Applied
<1>14. ClaimsOK'
  <2>1. /\ freshClaim' \in [ClaimName -> SUBSET Holder]
        /\ claims' \in [ClaimName -> ClaimObject \cup {None}]
        /\ claims'[c] = new /\ freshClaim'[c] = mine
        /\ \A d \in ClaimName : d # c =>
                 claims'[d] = claims[d] /\ freshClaim'[d] = freshClaim[d]
    <3>1. /\ freshClaim \in [ClaimName -> SUBSET Holder]
          /\ claims \in [ClaimName -> ClaimObject \cup {None}]
      BY Zenon, <1>8 DEF ClaimsOK
    <3>2. new \in ClaimObject \cup {None}
      BY Zenon, <1>11, <1>12
    <3> QED BY Zenon, <1>7, <1>9, <1>13, <3>1, <3>2
  <2>2. ASSUME NEW d \in ClaimName PROVE ClaimOK(d)'
    <3>1. ClaimOK(d)
      BY Zenon, <1>8 DEF ClaimsOK
    <3>2. CASE d = c
      BY Zenon, <1>10, <1>11, <1>12, <1>13, <2>1, <3>2 DEF ClaimOK
    <3>3. CASE d # c
      BY Zenon, <1>10, <2>1, <3>1, <3>3 DEF ClaimOK
    <3> QED BY Zenon, <3>2, <3>3
  <2> QED BY Zenon, <1>8, <1>10, <2>1, <2>2 DEF ClaimsOK
<1>15. /\ cw.pc \in Preparing \cup Retiring /\ cw'.pc # "idle"
       /\ ControllerHolds(cw') /\ cw'.name = cw.name /\ cw'.access = cw.access
  <2>1. /\ cw.pc \in Preparing \cup Retiring /\ cw \in ControllerWorker
        /\ cw.name \in AccessName /\ cw.access \in Obj
    BY Zenon, <1>8 DEF ControllerHolds, Preparing, Retiring
  <2>2. CASE left # {}
    <3>1. cw' = [cw EXCEPT !.todo = left, !.error = e]
      BY Zenon, <1>7, <2>2
    <3> QED BY Zenon, <1>8, <1>9, <2>1, <3>1
               DEF ControllerHolds, ControllerWorker, Preparing, Retiring
  <2>3. CASE left = {} /\ e # "none"
    <3>1. cw' = FailController(cw, e)
      BY Zenon, <1>7, <2>3
    <3> QED BY SMTT(60), <1>9, <2>1, <3>1, FailControllerOK
  <2>4. CASE left = {} /\ e = "none"
    <3>1. cw' = [cw EXCEPT !.todo = {}, !.pc = next]
      BY Zenon, <1>7, <2>4
    <3> QED BY Zenon, <1>8, <2>1, <3>1
               DEF ControllerHolds, ControllerWorker, ControllerPc, Preparing, Retiring
  <2> QED BY Zenon, <2>2, <2>3, <2>4
<1> QED BY Zenon, <1>7, <1>8, <1>14, <1>15, ControllerProceeds

\* The Controller reads the Buckets and checks whether it can hand over.
LEMMA ControllerReadBucketsKeeps ==
    ASSUME IInv, ControllerReadBuckets PROVE IInv' /\ StepOK
<1>1. /\ cw.pc = "readBuckets" /\ unchangedByController
      /\ cw' = initialise(cw, Seen("buckets", bucketCache, buckets))
      /\ freshAccess' = IF cw'.pc = "idle" THEN Forget(freshAccess, "controllerWorker")
                                           ELSE freshAccess
      /\ UNCHANGED <<accesses, controllerEvents, sidecarEvents, storedClaims,
                     controllerQueue, faults>>
  BY Zenon DEF ControllerReadBuckets
<1>2. ControllerHolds(cw) /\ ClaimsOK /\ FaultsOK
  BY Zenon, InvariantParts
<1>3. /\ ControllerHolds(cw') /\ cw'.name = cw.name /\ cw'.access = cw.access
      /\ cw'.pc \in {"report", "handoff"}
  BY Zenon, <1>1, <1>2, InitialiseOK
<1>4. UNCHANGED <<storedAccesses, controllerQueue>>
  BY Zenon, <1>1, <1>3 DEF storedAccesses
<1>5. ClaimsOK' /\ FaultsOK'
  <2>1. UNCHANGED <<claimCache, bucketCache, sidecarBuckets, buckets>>
    BY Zenon, <1>1, ControllerFrame
  <2>2. UNCHANGED claimVars
    BY Zenon, <1>1, <2>1 DEF claimVars, storedClaims
  <2>3. FaultsOK'
    BY Zenon, <1>1, <1>2 DEF FaultsOK
  <2> QED BY Zenon, <1>2, <2>2, <2>3, ClaimsUnchanged
<1>6. cw.pc \in Preparing \cup Retiring /\ cw'.pc # "idle"
  BY Zenon, <1>1, <1>3 DEF Preparing
<1> QED BY Zenon, <1>1, <1>3, <1>4, <1>5, <1>6, ControllerProceeds

\* The Controller takes an access from its queue.
LEMMA ControllerStartKeeps ==
    ASSUME IInv, NEW a \in AccessName, ControllerStart(a) PROVE IInv' /\ StepOK
<1>1. /\ cw.pc = "idle" /\ a \in controllerQueue /\ controllerQueue' = controllerQueue \ {a}
      /\ cw' = IF accessCache[a] = None THEN ControllerIdle
                                        ELSE startController(a, accessCache[a])
      /\ UNCHANGED <<accesses, controllerEvents, sidecarEvents, storedClaims, storedSecrets,
                     accessCaches, otherCaches, sidecarVars, accounts, envVars, faults>>
  BY Zenon DEF ControllerStart
<1>2. PICK obj : obj = IF cw'.pc = "idle" THEN None ELSE accessCache[a]
  BY Zenon
<1>3. PICK mine : mine = AfterRead(freshAccess[a], "controllerCache", obj, "controllerWorker")
  BY Zenon
<1>4. freshAccess' = [freshAccess EXCEPT ![a] = mine]
  BY Zenon, <1>2, <1>3 DEF ControllerStart
<1>5. /\ AccessesOK /\ ControllerHolds(cw) /\ SidecarHolds(sw) /\ CachesOK /\ ControllerOK
      /\ SidecarOK /\ ClaimsOK /\ SecretsOK /\ CountersOK /\ FaultsOK
  BY Zenon, InvariantParts
<1>6. "controllerWorker" \in AccessHolder /\ "sidecarWorker" \in AccessHolder
      /\ "controllerCache" \in AccessHolder /\ "sidecarCache" \in AccessHolder
  BY Zenon DEF AccessHolder
<1>7. /\ freshAccess' \in [AccessName -> SUBSET AccessHolder]
      /\ \A x \in AccessName : x # a => freshAccess'[x] = freshAccess[x]
      /\ \A h \in AccessHolder :
           h # "controllerWorker" => (h \in freshAccess'[a] <=> h \in freshAccess[a])
      /\ "controllerWorker" \in freshAccess'[a] =>
               "controllerCache" \in freshAccess[a] /\ obj # None
  <2>1. ReadBy(a, "controllerWorker", "controllerCache", obj)
    BY Zenon, <1>3, <1>4, <1>5, <1>6, StartHolders
  <2> QED BY Zenon, <2>1 DEF ReadBy
<1>8. UNCHANGED <<accessCache, sidecarAccesses, sidecarQueue, sw>>
  BY Zenon, <1>1 DEF accessCaches, sidecarVars
<1>9. AccessesOK'
  BY SMTT(30), <1>1, <1>5, <1>7, <1>8 DEF AccessesOK
<1>10. /\ ControllerHolds(cw')
       /\ ForController(accessCache[a]) => cw'.pc # "idle"
       /\ cw'.pc # "idle" =>
            /\ cw'.name = a /\ cw'.access = accessCache[a]
            /\ cw'.pc = "report" => ControllerMayReport(accessCache[a], accessCache[a])
  <2>1. CASE accessCache[a] = None
    BY Zenon, <1>1, <2>1, ControllerIdleOK DEF ForController
  <2>2. CASE accessCache[a] # None
    <3>1. accessCache[a] \in Obj
      BY Zenon, <1>5, <2>2 DEF AccessesOK
    <3>2. PICK x \in Obj : x = accessCache[a]
      BY Zenon, <3>1
    <3>3. PICK v : v = cw'
      BY Zenon
    <3>4. v = startController(a, x)
      BY Zenon, <1>1, <2>2, <3>2, <3>3
    <3>5. ControllerStarts(a, x, v)
      BY Zenon, <3>2, <3>4, StartControllerOK
    <3> QED BY Zenon, <3>2, <3>3, <3>5 DEF ControllerStarts
  <2> QED BY Zenon, <2>1, <2>2
<1>11. cw.name = None /\ None \notin AccessName
  BY Zenon, <1>1, <1>5, AccessAssumption DEF ControllerHolds
<1>12. ControllerOK'
  <2> SUFFICES ASSUME NEW x \in AccessName
               PROVE  ControllerCoherent(x)' /\ ControllerAttends(x)'
    BY Zenon DEF ControllerOK
  <2>1. ControllerCoherent(x) /\ ControllerAttends(x) /\ CachesCoherent(x)
    BY Zenon, <1>5 DEF ControllerOK, CachesOK
  <2>2. CASE x # a
    <3>1. "controllerWorker" \notin freshAccess'[x]
      BY ZenonT(30), <1>1, <1>7, <2>1, <2>2 DEF ControllerCoherent
    <3>2. ControllerHas(x) => ControllerHas(x)'
      BY Zenon, <1>1, <1>11, <2>2 DEF ControllerHas
    <3>3. ControllerAttends(x)'
      BY Zenon, <1>1, <1>8, <2>1, <3>2 DEF ControllerAttends
    <3> QED BY ZenonT(30), <3>1, <3>3 DEF ControllerCoherent
  <2>3. CASE x = a
    <3>1. CASE cw'.pc = "idle"
      <4>1. "controllerWorker" \notin freshAccess'[a]
        BY Zenon, <1>2, <1>7, <3>1
      <4>2. ForController(accesses[a]) => a \in controllerEvents'
        BY Zenon, <1>1, <1>10, <2>1, <2>3, <3>1 DEF ControllerAttends
      <4>3. ControllerAttends(a)'
        BY Zenon, <1>1, <4>2 DEF ControllerAttends, ControllerHas
      <4> QED BY ZenonT(30), <2>3, <4>1, <4>3 DEF ControllerCoherent
    <3>2. CASE cw'.pc # "idle"
      <4>1. ControllerAttends(a)'
        BY ZenonT(30), <1>1, <1>8, <1>10, <2>1, <2>3, <3>2 DEF ControllerAttends, ControllerHas
      <4>2. "controllerWorker" \in freshAccess'[a] =>
               accesses[a] = accessCache[a] /\ accesses[a] # None
        BY ZenonT(30), <1>2, <1>7, <2>1, <2>3, <3>2 DEF CachesCoherent
      <4>3. ControllerCoherent(a)'
        BY Zenon, <1>1, <1>10, <3>2, <4>2 DEF ControllerCoherent
      <4> QED BY Zenon, <2>3, <4>1, <4>3
    <3> QED BY Zenon, <3>1, <3>2
  <2> QED BY Zenon, <2>2, <2>3
<1>13. ASSUME NEW h \in AccessHolder, h # "controllerWorker" PROVE HolderKept(h)
  BY Zenon, <1>1, <1>7, <1>13 DEF HolderKept
<1>14. CachesOK'
  BY Zenon, <1>1, <1>5, <1>6, <1>13, CachesStay
<1>15. SidecarOK'
  <2>1. HolderKept("sidecarWorker")
    BY Zenon, <1>6, <1>13
  <2> QED BY Zenon, <1>1, <1>5, <1>8, <2>1
             DEF SidecarOK, SidecarCoherent, SidecarAttends, SidecarHas,
             HolderKept
<1>16. SidecarHolds(sw)'
  BY Zenon, <1>5, <1>8
<1>17. UNCHANGED <<claimVars, secretVars, counterVars>>
  BY Zenon, <1>1
     DEF claimVars, secretVars, counterVars, storedClaims, storedSecrets, otherCaches, envVars
<1>18. ClaimsOK' /\ SecretsOK' /\ CountersOK'
  BY Zenon, <1>5, <1>17, ClaimsUnchanged, SecretsUnchanged, CountersUnchanged
<1>19. FaultsOK'
  BY Zenon, <1>1, <1>5 DEF FaultsOK
<1>20. StepOK
  BY Zenon, <1>1, StaysItself DEF StepOK
<1> QED
  BY Zenon, <1>9, <1>10, <1>12, <1>14, <1>15, <1>16, <1>18, <1>19, <1>20, InvariantParts
-----------------------------------------------------------------------------
(***************************************************************************)
(* The Sidecar.                                                            *)
(***************************************************************************)
\* What a step of the Sidecar leaves alone.
LEMMA SidecarFrame ==
    ASSUME unchangedBySidecar
    PROVE  UNCHANGED <<claimVars, accessCaches, controllerVars, secretCache, classExists,
                       issued, claimed, restarts, edits>>
BY Zenon DEF unchangedBySidecar, claimVars, storedClaims, accessCaches, otherCaches,
       controllerVars, envVars

\* Every write of an access by the Sidecar.
LEMMA SidecarWriteKeeps ==
    ASSUME IInv, sw.pc # "idle", NEW a, a = sw.name, NEW o \in Outcome, NEW obj,
           NEW touch \in BOOLEAN, NEW done \in BOOLEAN,
           WriteAccess(o, a, obj, touch, "sidecarWorker", done),
           "sidecarWorker" \in freshAccess[a] =>
             /\ Persisted(obj) \in Obj \cup {None}
             /\ MayBecome(accesses[a], Persisted(obj))
             /\ ~ForController(Persisted(obj)),
           unchangedBySidecar, UNCHANGED accounts, SecretsOK',
           sidecarQueue \subseteq sidecarQueue', sidecarQueue' \subseteq AccessName,
           SidecarHolds(sw'),
           Written(o, a, obj, "sidecarWorker", done) =>
             /\ SidecarCoherent(a)'
             /\ ForSidecar(accesses'[a]) /\ Unfinished(accesses'[a]) => SidecarHas(a)'
    PROVE  IInv' /\ StepOK
<1>1. /\ AccessesOK /\ ControllerHolds(cw) /\ SidecarHolds(sw) /\ CachesOK /\ ControllerOK
      /\ SidecarOK /\ ClaimsOK /\ CountersOK /\ FaultsOK
  BY Zenon, InvariantParts
<1>2. a \in AccessName
  BY Zenon, <1>1 DEF SidecarHolds
<1>3. "controllerWorker" \in AccessHolder /\ "sidecarWorker" \in AccessHolder
      /\ "controllerCache" \in AccessHolder /\ "sidecarCache" \in AccessHolder
  BY Zenon DEF AccessHolder
<1>4. Written(o, a, obj, "sidecarWorker", done) /\ FaultsOK'
  BY Zenon, <1>1, <1>2, <1>3, WriteFacts
<1>5. /\ Stored(a) /\ OnlyWriter("sidecarWorker")
      /\ freshAccess' \in [AccessName -> SUBSET AccessHolder]
      /\ \/ "sidecarWorker" \in freshAccess[a] /\ accesses'[a] = Persisted(obj)
         \/ accesses'[a] = accesses[a]
  BY Zenon, <1>4 DEF Written
<1>6. MayBecome(accesses[a], accesses'[a])
  BY Zenon, <1>5, StaysItself
<1>7. UNCHANGED <<claimVars, accessCaches, controllerVars, secretCache, classExists,
                  issued, claimed, restarts, edits>>
  BY Zenon, SidecarFrame
<1>8. UNCHANGED <<accessCache, sidecarAccesses, controllerQueue, cw>>
  BY Zenon, <1>7 DEF accessCaches, controllerVars
<1>9. AccessesOK'
  BY Zenon, <1>1, <1>5, <1>8 DEF AccessesOK, Stored
<1>10. HolderKept("controllerCache") /\ HolderKept("sidecarCache")
       /\ HolderKept("controllerWorker")
  BY Zenon, <1>3, <1>5, OthersKept
<1>11. CachesOK'
  BY Zenon, <1>1, <1>7, <1>10, CachesStay
<1>12. SidecarOK'
  BY Zenon, <1>1, <1>2, <1>4, <1>5, <1>6, <1>8, SidecarWrites
<1>13. ControllerOK'
  BY Zenon, <1>1, <1>2, <1>5, <1>6, <1>8, <1>10, ControllerStays
<1>14. ControllerHolds(cw)'
  BY Zenon, <1>1, <1>8
<1>15. ClaimsOK'
  BY Zenon, <1>1, <1>7, ClaimsUnchanged
<1>16. CountersOK'
  <2>1. UNCHANGED counterVars
    BY Zenon, <1>7 DEF counterVars
  <2> QED BY Zenon, <1>1, <2>1, CountersUnchanged
<1>17. StepOK
  BY Zenon, <1>5, <1>6, StaysItself DEF StepOK, Stored
<1> QED
  BY Zenon, <1>4, <1>9, <1>11, <1>12, <1>13, <1>14, <1>15, <1>16, <1>17, InvariantParts

\* A worker that has forgotten its copy is coherent.
LEMMA SidecarForgets ==
    ASSUME NEW a \in AccessName, Forgotten("sidecarWorker") PROVE SidecarCoherent(a)'
BY Zenon DEF Forgotten, SidecarCoherent

\* At the end of a reconcile the copies of Secrets are forgotten.
LEMMA SecretsForgotten ==
    ASSUME SecretsOK, UNCHANGED <<secrets, secretCache>>,
           freshSecret' = freshSecret \/ freshSecret' = Forget(freshSecret, "worker")
    PROVE  SecretsOK'
<1>1. freshSecret \in [SecretName -> SUBSET Holder]
  BY Zenon DEF SecretsOK
<1>2. /\ freshSecret' \in [SecretName -> SUBSET Holder]
      /\ \A s \in SecretName : freshSecret'[s] \subseteq freshSecret[s]
  BY Zenon, <1>1 DEF Forget
<1> QED BY Zenon, <1>2 DEF SecretsOK, SecretOK

\* The finalizer is added.
LEMMA SidecarAddFinalizerKeeps ==
    ASSUME IInv, SidecarAddFinalizer PROVE IInv' /\ StepOK
<1>1. PICK a : a = sw.name
  BY Zenon
<1>2. PICK obj : obj = [sw.access EXCEPT !.finalizer = TRUE]
  BY Zenon
<1>3. PICK o \in Outcome :
        /\ WriteAccess(o, a, obj, FALSE, "sidecarWorker", FALSE)
        /\ sw' = IF o = "ok" THEN [sw EXCEPT !.pc = "checkBuckets", !.access = obj]
                             ELSE FailSidecar(sw, "retry")
  BY Zenon, <1>1, <1>2 DEF SidecarAddFinalizer
<1>4. /\ sw.pc = "addFinalizer" /\ unchangedBySidecar
      /\ UNCHANGED <<storedSecrets, sidecarQueue, accounts>>
  BY Zenon DEF SidecarAddFinalizer
<1>5. /\ sw \in SidecarWorker /\ a \in AccessName /\ sw.access \in Obj
      /\ sw.access.driverName # None /\ sw.todo \subseteq References(sw.access)
      /\ sidecarQueue' \subseteq AccessName /\ SecretsOK
  BY Zenon, <1>1, <1>4, SidecarBusy
<1>6. /\ obj \in Obj /\ obj.finalizer /\ SameStatus(sw.access, obj)
      /\ obj.deleting = sw.access.deleting /\ obj.spec = sw.access.spec
  BY Zenon, <1>2, <1>5, WithFinalizer
<1>7. /\ Persisted(obj) = obj
      /\ obj.driverName # None /\ SameFinal(sw.access, obj)
      /\ References(obj) = References(sw.access)
  BY Zenon, <1>5, <1>6 DEF SameStatus, SameFinal, References, Persisted
<1>8. /\ SidecarHolds(sw') /\ sw'.name = a /\ sw'.pc # "idle"
      /\ o = "ok" => sw'.access = obj /\ sw'.pc # "report"
      /\ o # "ok" => sw'.access = sw.access /\ sw'.pc = "report"
  <2>1. CASE o = "ok"
    <3>1. sw' = [sw EXCEPT !.pc = "checkBuckets", !.access = obj]
      BY Zenon, <1>3, <2>1
    <3>2. obj \in AccessObject
      BY Zenon, <1>6 DEF Obj
    <3> QED
      BY Zenon, <1>1, <1>5, <1>6, <1>7, <2>1, <3>1, <3>2
         DEF SidecarHolds, SidecarWorker, SidecarPc,
         Granting, Cleaning
  <2>2. CASE o # "ok"
    <3>1. sw' = FailSidecar(sw, "retry") /\ "retry" \in Error
      BY Zenon, <1>3, <2>2 DEF Error
    <3> QED BY SMTT(60), <1>1, <1>5, <2>2, <3>1, FailSidecarOK
  <2> QED BY Zenon, <2>1, <2>2
<1>9. "sidecarWorker" \in freshAccess[a] => accesses[a] = sw.access /\ accesses[a] # None
  BY Zenon, <1>1, <1>4, SidecarCopy
<1>10. "sidecarWorker" \in freshAccess[a] =>
         /\ Persisted(obj) \in Obj \cup {None}
         /\ MayBecome(accesses[a], Persisted(obj))
         /\ ~ForController(Persisted(obj))
  BY Zenon, <1>6, <1>7, <1>9 DEF MayBecome, ForController
<1>11. ASSUME Written(o, a, obj, "sidecarWorker", FALSE)
       PROVE  SidecarCoherent(a)' /\ SidecarHas(a)'
  <2>1. SidecarHas(a)'
    BY Zenon, <1>8 DEF SidecarHas
  <2>2. ASSUME "sidecarWorker" \in freshAccess'[a]
        PROVE  /\ accesses'[a] # None
               /\ o = "ok" => accesses'[a] = obj
               /\ o # "ok" => accesses'[a] = sw.access
    <3>1. "sidecarWorker" \in freshAccess[a]
      BY Zenon, <1>5, <1>11, <2>2 DEF Written, OnlyWriter, AccessHolder
    <3> QED BY Zenon, <1>7, <1>9, <1>11, <2>2, <3>1 DEF Written, Applied
  <2>3. SidecarCoherent(a)'
    BY Zenon, <1>8, <2>2 DEF SidecarCoherent, SameFinal
  <2> QED BY Zenon, <2>1, <2>3
<1>12. SecretsOK'
  <2>1. UNCHANGED secretVars
    BY Zenon, <1>4, SidecarFrame DEF secretVars, storedSecrets
  <2> QED BY Zenon, <1>5, <2>1, SecretsUnchanged
<1> QED
  <2>1. /\ FALSE \in BOOLEAN /\ sidecarQueue \subseteq sidecarQueue'
        /\ UNCHANGED accounts /\ sw.pc # "idle"
    BY Zenon, <1>4
  <2> QED
    BY Zenon, <1>1, <1>3, <1>4, <1>5, <1>8, <1>10, <1>11, <1>12, <2>1, SidecarWriteKeeps

\* The annotation of the hand-back is set.
LEMMA SidecarFinishKeeps ==
    ASSUME IInv, SidecarFinish PROVE IInv' /\ StepOK
<1>1. PICK a : a = sw.name
  BY Zenon
<1>2. PICK obj : obj = [sw.access EXCEPT !.cleanupFinished = TRUE]
  BY Zenon
<1>3. PICK o \in Outcome :
        /\ WriteAccess(o, a, obj, FALSE, "sidecarWorker", o = "ok")
        /\ sw' = IF o = "ok" THEN SidecarIdle ELSE FailSidecar(sw, "retry")
  BY Zenon, <1>1, <1>2 DEF SidecarFinish
<1>4. /\ sw.pc = "finish" /\ unchangedBySidecar /\ UNCHANGED <<secrets, sidecarQueue, accounts>>
      /\ freshSecret' = IF sw'.pc = "idle" THEN Forget(freshSecret, "worker") ELSE freshSecret
  BY Zenon DEF SidecarFinish
<1>5. /\ sw \in SidecarWorker /\ a \in AccessName /\ sw.access \in Obj
      /\ sw.access.driverName # None /\ sidecarQueue' \subseteq AccessName /\ SecretsOK
  BY Zenon, <1>1, <1>4, SidecarBusy
<1>6. sw.access.deleting
  BY Zenon, <1>4, InvariantParts DEF SidecarHolds, Cleaning
<1>7. obj \in Obj /\ SameStatus(sw.access, obj) /\ obj.deleting = sw.access.deleting
  BY Zenon, <1>2, <1>5, WithAnnotation
<1>8. Persisted(obj) \in {obj, None} /\ obj.deleting /\ SameFinal(sw.access, obj)
  BY Zenon, <1>6, <1>7 DEF SameStatus, SameFinal, Persisted
<1>9. /\ SidecarHolds(sw')
      /\ o # "ok" => sw'.name = a /\ sw'.access = sw.access /\ sw'.pc = "report"
  <2>1. CASE o = "ok"
    BY Zenon, <1>3, <2>1, SidecarIdleOK
  <2>2. CASE o # "ok"
    <3>1. sw' = FailSidecar(sw, "retry") /\ "retry" \in Error
      BY Zenon, <1>3, <2>2 DEF Error
    <3> QED BY SMTT(60), <1>1, <1>5, <2>2, <3>1, FailSidecarOK
  <2> QED BY Zenon, <2>1, <2>2
<1>10. "sidecarWorker" \in freshAccess[a] => accesses[a] = sw.access /\ accesses[a] # None
  BY Zenon, <1>1, <1>4, SidecarCopy
<1>11. "sidecarWorker" \in freshAccess[a] =>
         /\ Persisted(obj) \in Obj \cup {None}
         /\ MayBecome(accesses[a], Persisted(obj))
         /\ ~ForController(Persisted(obj))
  BY Zenon, <1>7, <1>8, <1>10 DEF MayBecome, ForController
<1>12. ASSUME Written(o, a, obj, "sidecarWorker", o = "ok")
       PROVE  SidecarCoherent(a)' /\ (ForSidecar(accesses'[a]) => SidecarHas(a)')
  <2>1. CASE o = "ok"
    <3>1. Forgotten("sidecarWorker") /\ accesses'[a] \in {obj, None}
      BY Zenon, <1>8, <1>12, <2>1 DEF Written, Applied
    <3>2. ~ForSidecar(accesses'[a])
      BY Zenon, <1>8, <3>1 DEF ForSidecar
    <3> QED BY Zenon, <1>5, <3>1, <3>2, SidecarForgets
  <2>2. CASE o # "ok"
    <3>1. SidecarHas(a)'
      BY Zenon, <1>9, <2>2 DEF SidecarHas
    <3>2. "sidecarWorker" \in freshAccess'[a] => "sidecarWorker" \in freshAccess[a]
      BY Zenon, <1>5, <1>12 DEF Written, OnlyWriter, AccessHolder
    <3>3. "sidecarWorker" \in freshAccess'[a] => accesses'[a] = sw.access /\ accesses'[a] # None
      BY Zenon, <1>10, <1>12, <2>2, <3>2 DEF Written
    <3>4. SidecarCoherent(a)'
      BY Zenon, <1>9, <2>2, <3>3 DEF SidecarCoherent, SameFinal
    <3> QED BY Zenon, <3>1, <3>4
  <2> QED BY Zenon, <2>1, <2>2
<1>13. SecretsOK'
  <2>1. UNCHANGED <<secrets, secretCache>>
    BY Zenon, <1>4, SidecarFrame
  <2> QED BY Zenon, <1>4, <1>5, <2>1, SecretsForgotten
<1> QED
  <2>1. /\ FALSE \in BOOLEAN /\ sidecarQueue \subseteq sidecarQueue'
        /\ UNCHANGED accounts /\ sw.pc # "idle"
    BY Zenon, <1>4
  <2>2. (o = "ok") \in BOOLEAN
    BY Zenon
  <2> QED
    BY Zenon, <1>1, <1>3, <1>4, <1>5, <1>9, <1>11, <1>12, <1>13, <2>1, <2>2, SidecarWriteKeeps

\* A Status().Update of the Sidecar's own copy.
LEMMA StatusWriteKeeps ==
    ASSUME IInv, sw.pc \notin {"idle", "report"}, NEW local \in Obj,
           SameMetadata(sw.access, local), SameFinal(sw.access, local), NEW next,
           SidecarHolds(next),
           next.pc = "idle" => local.readyToUse = "true" /\ local.finalizer,
           next.pc # "idle" => next.pc # "report" /\ next.name = sw.name /\ next.access = local,
           WriteSidecarStatus(local, next), unchangedBySidecar,
           UNCHANGED <<secrets, sidecarQueue, accounts>>
    PROVE  IInv' /\ StepOK
<1>1. PICK a : a = sw.name
  BY Zenon
<1>2. PICK obj : obj = SetAccessStatus(accesses[a], local)
  BY Zenon
<1>3. PICK o \in Outcome :
        /\ WriteAccess(o, a, obj, FALSE, "sidecarWorker", o = "ok" /\ next.pc = "idle")
        /\ sw' = IF o = "ok" THEN next ELSE FailSidecar([sw EXCEPT !.access = local], "retry")
        /\ freshSecret' = IF sw'.pc = "idle" THEN Forget(freshSecret, "worker") ELSE freshSecret
  BY Zenon, <1>1, <1>2 DEF WriteSidecarStatus
<1>4. PICK done : done = (o = "ok" /\ next.pc = "idle")
  BY Zenon
<1>5. /\ sw \in SidecarWorker /\ a \in AccessName /\ sw.access \in Obj /\ sw.pc # "idle"
      /\ sw.access.driverName # None /\ sidecarQueue' \subseteq AccessName /\ SecretsOK
  BY Zenon, <1>1, SidecarBusy
<1>6. "sidecarWorker" \in freshAccess[a] =>
        /\ accesses[a] = sw.access /\ accesses[a] # None /\ obj = local
  <2>1. SUFFICES ASSUME "sidecarWorker" \in freshAccess[a]
                 PROVE  accesses[a] = sw.access /\ accesses[a] # None /\ obj = local
    BY Zenon
  <2>2. accesses[a] = sw.access /\ accesses[a] # None
    BY Zenon, <1>1, <2>1, SidecarCopy
  <2>3. obj \in Obj /\ SameMetadata(sw.access, obj) /\ SameStatus(local, obj)
    BY Zenon, <1>2, <1>5, <2>2, WithStatus
  <2>4. SameMetadata(local, obj)
    BY Zenon, <2>3 DEF SameMetadata
  <2>5. local = obj
    BY Zenon, <2>3, <2>4, SameObject
  <2> QED BY Zenon, <2>2, <2>5
<1>7. local.driverName # None /\ Persisted(local) \in {local, None}
  BY Zenon, <1>5, PersistedObject DEF SameFinal
<1>8. "sidecarWorker" \in freshAccess[a] =>
         /\ Persisted(obj) \in Obj \cup {None}
         /\ MayBecome(accesses[a], Persisted(obj))
         /\ ~ForController(Persisted(obj))
  BY Zenon, <1>6, <1>7 DEF MayBecome, ForController, SameMetadata
<1>9. /\ SidecarHolds(sw')
      /\ o = "ok" => sw' = next
      /\ o # "ok" => sw'.name = a /\ sw'.access = local /\ sw'.pc = "report"
  <2>1. CASE o = "ok"
    BY Zenon, <1>3, <2>1
  <2>2. CASE o # "ok"
    <3>1. PICK w : w = [sw EXCEPT !.access = local]
      BY Zenon
    <3>2. /\ w \in SidecarWorker /\ w.name = a /\ w.access = local /\ w.name \in AccessName
          /\ w.access \in Obj /\ w.access.driverName # None
      BY Zenon, <1>1, <1>5, <1>7, <3>1 DEF SidecarWorker, Obj
    <3>3. sw' = FailSidecar(w, "retry") /\ "retry" \in Error
      BY Zenon, <1>3, <2>2, <3>1 DEF Error
    <3> QED BY SMTT(60), <2>2, <3>2, <3>3, FailSidecarOK
  <2> QED BY Zenon, <2>1, <2>2
<1>10. ASSUME Written(o, a, obj, "sidecarWorker", done)
       PROVE  /\ SidecarCoherent(a)'
              /\ ForSidecar(accesses'[a]) /\ Unfinished(accesses'[a]) => SidecarHas(a)'
  <2>1. "sidecarWorker" \in freshAccess'[a] =>
           "sidecarWorker" \in freshAccess[a]
    BY Zenon, <1>5, <1>10 DEF Written, OnlyWriter, AccessHolder
  <2>2. CASE o = "ok" /\ next.pc = "idle"
    <3>1. Forgotten("sidecarWorker") /\ accesses'[a] \in {local, None}
      BY ZenonT(30), <1>4, <1>6, <1>7, <1>10, <2>2 DEF Written, Applied
    <3>2. ~(ForSidecar(accesses'[a]) /\ Unfinished(accesses'[a]))
      BY Zenon, <2>2, <3>1 DEF ForSidecar, Unfinished
    <3> QED BY Zenon, <1>5, <3>1, <3>2, SidecarForgets
  <2>3. CASE o = "ok" /\ next.pc # "idle"
    <3>1. sw'.name = a /\ sw'.access = local /\ sw'.pc \notin {"idle", "report"}
      BY Zenon, <1>1, <1>9, <2>3
    <3>2. "sidecarWorker" \in freshAccess'[a] => accesses'[a] = local /\ accesses'[a] # None
      BY Zenon, <1>6, <1>7, <1>10, <2>1, <2>3 DEF Written, Applied
    <3>3. SidecarCoherent(a)' /\ SidecarHas(a)'
      BY Zenon, <3>1, <3>2 DEF SidecarCoherent, SidecarHas
    <3> QED BY Zenon, <3>3
  <2>4. CASE o # "ok"
    <3>1. "sidecarWorker" \in freshAccess'[a] => accesses'[a] = sw.access /\ accesses'[a] # None
      BY Zenon, <1>6, <1>10, <2>1, <2>4 DEF Written
    <3>2. SidecarCoherent(a)' /\ SidecarHas(a)'
      BY Zenon, <1>9, <2>4, <3>1 DEF SidecarCoherent, SidecarHas
    <3> QED BY Zenon, <3>2
  <2> QED BY Zenon, <2>2, <2>3, <2>4
<1>11. SecretsOK'
  <2>1. UNCHANGED <<secrets, secretCache>>
    BY Zenon, SidecarFrame
  <2> QED BY Zenon, <1>3, <1>5, <2>1, SecretsForgotten
<1> QED
  <2>1. FALSE \in BOOLEAN /\ sidecarQueue \subseteq sidecarQueue' /\ UNCHANGED accounts
    BY Zenon
  <2>2. done \in BOOLEAN /\ WriteAccess(o, a, obj, FALSE, "sidecarWorker", done)
    BY Zenon, <1>3, <1>4
  <2> QED
    BY Zenon, <1>1, <1>3, <1>5, <1>8, <1>9, <1>10, <1>11, <2>1, <2>2, SidecarWriteKeeps

\* The Sidecar reports the access ready.
LEMMA SidecarSetReadyKeeps ==
    ASSUME IInv, SidecarSetReady PROVE IInv' /\ StepOK
<1>1. PICK local : local = [sw.access EXCEPT !.accountID = TRUE, !.readyToUse = "true",
                                             !.error = "none"]
  BY Zenon
<1>2. /\ sw.pc = "setReady" /\ WriteSidecarStatus(local, SidecarIdle)
      /\ UNCHANGED <<secrets, sidecarQueue, accounts>> /\ unchangedBySidecar
  BY Zenon, <1>1 DEF SidecarSetReady
<1>3. sw.access \in Obj /\ sw.access.finalizer
  BY Zenon, <1>2, InvariantParts DEF SidecarHolds, Granting
<1>4. /\ local \in Obj /\ SameMetadata(sw.access, local) /\ SameFinal(sw.access, local)
      /\ local.readyToUse = "true"
  BY Zenon, <1>1, <1>3, WithReady
<1>5. local.finalizer
  BY Zenon, <1>3, <1>4 DEF SameMetadata
<1>6. sw.pc \notin {"idle", "report"}
  BY Zenon, <1>2
<1> QED BY Zenon, <1>2, <1>4, <1>5, <1>6, SidecarIdleOK, StatusWriteKeeps

\* The Sidecar begins the cleanup by clearing the status.
LEMMA SidecarClearStatusKeeps ==
    ASSUME IInv, SidecarClearStatus PROVE IInv' /\ StepOK
<1>1. PICK local : local = [sw.access EXCEPT !.readyToUse = "false", !.error = "none"]
  BY Zenon
<1>2. PICK next : next = [sw EXCEPT !.pc = "unprotect", !.access = local,
                                    !.todo = References(sw.access)]
  BY Zenon
<1>3. /\ sw.pc = "clearStatus" /\ WriteSidecarStatus(local, next)
      /\ UNCHANGED <<secrets, sidecarQueue, accounts>> /\ unchangedBySidecar
  BY Zenon, <1>1, <1>2 DEF SidecarClearStatus
<1>4. /\ sw \in SidecarWorker /\ sw.name \in AccessName /\ sw.access \in Obj
      /\ sw.access.deleting /\ sw.access.driverName # None
  BY Zenon, <1>3, InvariantParts DEF SidecarHolds, Cleaning
<1>5. local \in Obj /\ SameMetadata(sw.access, local) /\ SameFinal(sw.access, local)
  BY Zenon, <1>1, <1>4, WithClearedStatus
<1>6. /\ local.deleting /\ References(local) = References(sw.access) /\ local.driverName # None
      /\ local \in AccessObject
  BY Zenon, <1>4, <1>5 DEF SameMetadata, SameFinal, References, Obj
<1>7. References(sw.access) \subseteq ClaimName
  BY Zenon, <1>4, ReferencesOK
<1>8. /\ next \in SidecarWorker /\ next.pc = "unprotect" /\ next.name = sw.name
      /\ next.access = local /\ next.todo = References(sw.access)
  BY Zenon, <1>2, <1>4, <1>6, <1>7 DEF SidecarWorker, SidecarPc
<1>9. SidecarHolds(next)
  BY Zenon, <1>4, <1>5, <1>6, <1>8 DEF SidecarHolds, Granting, Cleaning
<1>10. /\ sw.pc \notin {"idle", "report"}
       /\ next.pc # "idle" /\ next.pc # "report" /\ next.name = sw.name /\ next.access = local
  BY Zenon, <1>3, <1>8
<1> QED BY Zenon, <1>3, <1>5, <1>9, <1>10, StatusWriteKeeps

\* The error of a reconcile is recorded.
LEMMA SidecarReportKeeps ==
    ASSUME IInv, SidecarReport PROVE IInv' /\ StepOK
<1>1. PICK a : a = sw.name
  BY Zenon
<1>2. PICK local : local = [sw.access EXCEPT !.readyToUse = NotNil(@), !.error = sw.error]
  BY Zenon
<1>3. PICK obj : obj = SetAccessStatus(accesses[a], local)
  BY Zenon
<1>4. PICK o \in Outcome :
        /\ WriteAccess(o, a, obj, TRUE, "sidecarWorker", TRUE)
        /\ sidecarQueue' = Requeued(sidecarQueue, a, o, sw.error)
  BY Zenon, <1>1, <1>2, <1>3 DEF SidecarReport
<1>5. /\ sw.pc = "report" /\ unchangedBySidecar /\ sw' = SidecarIdle
      /\ UNCHANGED <<secrets, accounts>> /\ freshSecret' = Forget(freshSecret, "worker")
  BY Zenon DEF SidecarReport
<1>6. /\ a \in AccessName /\ sw.access \in Obj /\ sw.error \in Error
      /\ sw.access.driverName # None /\ sidecarQueue \subseteq AccessName
      /\ accesses[a] \in Obj \cup {None} /\ SecretsOK
  BY Zenon, <1>1, <1>5, SidecarBusy
<1>7. local \in Obj /\ SameFinal(sw.access, local) /\ local.error = sw.error
  <2>1. PICK x : x = sw.access
    BY Zenon
  <2>2. PICK e : e = sw.error
    BY Zenon
  <2>3. local = [x EXCEPT !.readyToUse = NotNil(@), !.error = e]
    BY Zenon, <1>2, <2>1, <2>2
  <2>4. x \in Obj /\ e \in Error
    BY Zenon, <1>6, <2>1, <2>2
  <2>5. local \in Obj /\ SameFinal(x, local) /\ local.error = e
    BY Zenon, <2>3, <2>4, WithError
  <2> QED BY Zenon, <2>1, <2>2, <2>5
<1>8. ASSUME "sidecarWorker" \in freshAccess[a]
      PROVE  /\ Persisted(obj) \in Obj \cup {None}
             /\ MayBecome(accesses[a], Persisted(obj))
             /\ ~ForController(Persisted(obj))
             /\ Persisted(obj) # None => Persisted(obj).error = sw.error
  <2>1. accesses[a] # None /\ SameFinal(accesses[a], sw.access)
    BY Zenon, <1>1, <1>5, <1>6, <1>8, InvariantParts DEF SidecarOK, SidecarCoherent
  <2>2. accesses[a] \in Obj
    BY Zenon, <1>6, <2>1
  <2>3. obj \in Obj /\ SameMetadata(accesses[a], obj) /\ SameStatus(local, obj)
    BY Zenon, <1>3, <1>7, <2>2, WithStatus
  <2>4. obj.error = sw.error /\ obj.driverName # None
    BY Zenon, <1>6, <1>7, <2>3 DEF SameStatus, SameFinal
  <2>5. MayBecome(accesses[a], obj)
    BY Zenon, <1>7, <2>1, <2>3 DEF MayBecome, SameFinal, SameStatus, SameMetadata
  <2>6. Persisted(obj) \in {obj, None}
    BY Zenon, <2>3, PersistedObject
  <2> QED BY Zenon, <2>3, <2>4, <2>5, <2>6 DEF MayBecome, ForController
<1>9. /\ sidecarQueue \subseteq sidecarQueue' /\ sidecarQueue' \subseteq AccessName
      /\ a \in sidecarQueue' \/ (o = "ok" /\ sw.error \in TerminalError)
  BY Zenon, <1>4, <1>6 DEF Requeued
<1>10. ASSUME Written(o, a, obj, "sidecarWorker", TRUE)
       PROVE  /\ SidecarCoherent(a)'
              /\ ForSidecar(accesses'[a]) /\ Unfinished(accesses'[a]) => SidecarHas(a)'
  <2>1. SidecarCoherent(a)'
    BY Zenon, <1>6, <1>10, SidecarForgets DEF Written
  <2>2. CASE a \in sidecarQueue'
    BY Zenon, <2>1, <2>2 DEF SidecarHas
  <2>3. CASE o = "ok" /\ sw.error \in TerminalError
    <3>1. "sidecarWorker" \in freshAccess[a] /\ accesses'[a] = Persisted(obj)
      BY Zenon, <1>10, <2>3 DEF Written, Applied
    <3>2. accesses'[a] # None => accesses'[a].error \in TerminalError
      BY Zenon, <1>8, <2>3, <3>1
    <3> QED BY Zenon, <2>1, <3>2 DEF ForSidecar, Unfinished
  <2> QED BY Zenon, <1>9, <2>2, <2>3
<1>11. SecretsOK'
  <2>1. UNCHANGED <<secrets, secretCache>>
    BY Zenon, <1>5, SidecarFrame
  <2> QED BY Zenon, <1>5, <1>6, <2>1, SecretsForgotten
<1> QED
  <2>1. TRUE \in BOOLEAN /\ sw.pc # "idle" /\ UNCHANGED accounts
    BY Zenon, <1>5
  <2>2. SidecarHolds(sw')
    BY Zenon, <1>5, SidecarIdleOK
  <2> QED
    BY Zenon, <1>1, <1>4, <1>5, <1>8, <1>9, <1>10, <1>11, <2>1, <2>2, SidecarWriteKeeps

\* What the accounts may use.
AccountsOK == accounts \in [Uid -> SUBSET {BucketID[c] : c \in ClaimName}]

\* The Sidecar goes on with the same copy, having changed Secrets, accounts or nothing.
LEMMA SidecarProceeds ==
    ASSUME IInv, unchangedBySidecar, UNCHANGED <<storedAccesses, sidecarQueue>>,
           SidecarHolds(sw'), SecretsOK', FaultsOK', AccountsOK',
           sw.pc # "idle", sw.pc # "report",
           sw'.name = sw.name, sw'.access = sw.access, sw'.pc # "idle"
    PROVE  IInv' /\ StepOK
<1>1. /\ AccessesOK /\ ControllerHolds(cw) /\ SidecarHolds(sw) /\ CachesOK /\ ControllerOK
      /\ SidecarOK /\ ClaimsOK /\ CountersOK
  BY Zenon, InvariantParts
<1>2. UNCHANGED <<claimVars, accessCaches, controllerVars, secretCache, classExists,
                  issued, claimed, restarts, edits>>
  BY Zenon, SidecarFrame
<1>3. UNCHANGED <<accessVars, controllerQueue, sidecarQueue>>
  BY Zenon, <1>2 DEF accessVars, storedAccesses, accessCaches, controllerVars
<1>4. AccessesOK' /\ CachesOK' /\ StepOK
  BY Zenon, <1>1, <1>3, AccessesUnchanged
<1>5. SidecarOK'
  BY Zenon, <1>1, <1>3, SidecarGoesOn
<1>6. ControllerHolds(cw)' /\ ControllerOK'
  BY Zenon, <1>1, <1>2, <1>3, ControllerUnchanged
<1>7. CountersOK'
  BY Zenon, <1>1, <1>2 DEF CountersOK, AccountsOK
<1>8. ClaimsOK'
  BY Zenon, <1>1, <1>2, ClaimsUnchanged
<1> QED BY Zenon, <1>4, <1>5, <1>6, <1>7, <1>8, InvariantParts

\* What a worker goes on with.
GoesOn(v, w) ==
    SidecarHolds(v) /\ v.name = w.name /\ v.access = w.access /\ v.pc # "idle"

\* The frame of the steps that write Secrets.
LEMMA SecretStepKeeps ==
    ASSUME IInv, sw.pc # "idle", sw.pc # "report", GoesOn(sw', sw), SecretsOK', FaultsOK',
           UNCHANGED <<storedAccesses, sidecarQueue, accounts>>, unchangedBySidecar
    PROVE  IInv' /\ StepOK
<1>1. AccountsOK'
  BY Zenon, InvariantParts DEF CountersOK, AccountsOK
<1>2. UNCHANGED <<storedAccesses, sidecarQueue>>
  BY Zenon
<1> QED BY Zenon, <1>1, <1>2, SidecarProceeds DEF GoesOn

\* A failed reconcile goes on to its report.
LEMMA FailureGoesOn ==
    ASSUME NEW w \in SidecarWorker, w.name \in AccessName, w.access \in Obj,
           w.access.driverName # None, NEW e \in Error, NEW v, v = FailSidecar(w, e)
    PROVE  GoesOn(v, w)
<1>1. SidecarHolds(v) /\ v.pc = "report" /\ v.name = w.name /\ v.access = w.access
  BY SMTT(60), FailSidecarOK
<1> QED BY Zenon, <1>1 DEF GoesOn

\* One turn of a loop over references.
LEMMA LoopOK ==
    ASSUME NEW w, SidecarHolds(w), w.pc # "idle", w.pc # "deleteSecret",
           NEW next, GoesOn(next, w), next.pc # "deleteSecret",
           NEW c, NEW e, NEW v, v = Loop(w, c, e, next)
    PROVE  GoesOn(v, w)
<1>1. PICK left : left = w.todo \ {c}
  BY Zenon
<1>2. PICK all \in Error : all = Join(w.error, e)
  BY Zenon, JoinType
<1>3. v = CASE left # {} -> [w EXCEPT !.todo = left, !.at = None, !.error = all]
            [] left = {} /\ all # "none" -> FailSidecar(w, all)
            [] OTHER -> [next EXCEPT !.at = None]
  BY Zenon, <1>1, <1>2 DEF Loop
<1>4. /\ w \in SidecarWorker /\ w.name \in AccessName /\ w.access \in Obj
      /\ w.access.driverName # None /\ left \subseteq References(w.access)
      /\ left \subseteq w.todo
  BY Zenon, <1>1 DEF SidecarHolds
<1>5. CASE left # {}
  <2>1. v = [w EXCEPT !.todo = left, !.at = None, !.error = all]
    BY Zenon, <1>3, <1>5
  <2>2. /\ v \in SidecarWorker /\ v.pc = w.pc /\ v.name = w.name /\ v.access = w.access
        /\ v.todo = left
    BY Zenon, <1>2, <1>4, <2>1 DEF SidecarWorker
  <2> QED BY Zenon, <1>4, <2>2 DEF SidecarHolds, GoesOn
<1>6. CASE left = {} /\ all # "none"
  <2>1. v = FailSidecar(w, all)
    BY Zenon, <1>3, <1>6
  <2> QED BY Zenon, <1>2, <1>4, <2>1, FailureGoesOn
<1>7. CASE left = {} /\ all = "none"
  <2>1. v = [next EXCEPT !.at = None]
    BY Zenon, <1>3, <1>7
  <2>2. next \in SidecarWorker
    BY Zenon DEF GoesOn, SidecarHolds
  <2>3. /\ v \in SidecarWorker /\ v.pc = next.pc /\ v.name = next.name
        /\ v.access = next.access /\ v.todo = next.todo
    BY Zenon, <2>1, <2>2 DEF SidecarWorker
  <2> QED BY Zenon, <2>3 DEF SidecarHolds, GoesOn
<1> QED BY Zenon, <1>5, <1>6, <1>7

\* A write to a Secret.
LEMMA WriteSecretKeeps ==
    ASSUME SecretsOK, FaultsOK, NEW s \in SecretName, NEW o \in Outcome, NEW new,
           NEW current \in BOOLEAN, current => new \in SecretObject \cup {None},
           WriteSecret(o, s, new, current), UNCHANGED secretCache
    PROVE  SecretsOK' /\ FaultsOK'
<1>1. PICK kept : kept = IF current /\ secrets[s] # None THEN freshSecret[s] \cup {"worker"}
                                                         ELSE freshSecret[s]
  BY Zenon
<1>2. PICK mine : mine = AfterWrite(o, kept, secrets[s], secrets'[s], FALSE, "worker")
  BY Zenon
<1>3. /\ Ends(o, current)
      /\ secrets' = [secrets EXCEPT ![s] = IF Applied(o) THEN new ELSE @]
      /\ freshSecret' = [freshSecret EXCEPT ![s] = mine]
  BY Zenon, <1>1, <1>2 DEF WriteSecret
<1>4. FaultsOK'
  BY Zenon, <1>3, EndsKeeps
<1>5. /\ secrets \in [SecretName -> SecretObject \cup {None}]
      /\ freshSecret \in [SecretName -> SUBSET Holder] /\ SecretOK(s)
  BY Zenon DEF SecretsOK
<1>6. Applied(o) => current
  BY Zenon, <1>3 DEF Ends, Applied
<1>7. /\ secrets' \in [SecretName -> SecretObject \cup {None}]
      /\ \A t \in SecretName : t # s => secrets'[t] = secrets[t]
      /\ secrets'[s] = IF Applied(o) THEN new ELSE secrets[s]
  BY Zenon, <1>3, <1>5, <1>6
<1>8. kept \subseteq Holder /\ mine \subseteq Holder
  BY Zenon, <1>1, <1>2, <1>5 DEF AfterWrite, Holder
<1>9. /\ freshSecret' \in [SecretName -> SUBSET Holder] /\ freshSecret'[s] = mine
      /\ \A t \in SecretName : t # s => freshSecret'[t] = freshSecret[t]
  BY Zenon, <1>3, <1>5, <1>8
<1>10. /\ "cache" \in mine => "cache" \in freshSecret[s] /\ secrets'[s] = secrets[s]
       /\ "worker" \in mine => secrets'[s] # None
  <2>1. "worker" \in kept => secrets[s] # None
    BY Zenon, <1>1, <1>5 DEF SecretOK
  <2>2. "cache" \in kept => "cache" \in freshSecret[s]
    BY Zenon, <1>1
  <2>3. \/ mine = kept /\ secrets'[s] = secrets[s]
        \/ mine = {"worker"} /\ secrets'[s] # None
        \/ mine = {}
    BY Zenon, <1>2, <1>7 DEF AfterWrite, Applied
  <2> QED BY Zenon, <2>1, <2>2, <2>3
<1>11. ASSUME NEW t \in SecretName PROVE SecretOK(t)'
  <2>1. SecretOK(t)
    BY Zenon DEF SecretsOK
  <2> QED BY Zenon, <1>5, <1>7, <1>9, <1>10, <2>1 DEF SecretOK
<1> QED BY Zenon, <1>4, <1>7, <1>9, <1>11 DEF SecretsOK

\* The Buckets are checked.
LEMMA SidecarCheckBucketsKeeps ==
    ASSUME IInv, SidecarCheckBuckets PROVE IInv' /\ StepOK
<1>1. /\ sw.pc = "checkBuckets" /\ unchangedBySidecar
      /\ UNCHANGED <<storedAccesses, storedSecrets, sidecarQueue, accounts, faults>>
      /\ \/ sw' = [sw EXCEPT !.pc = "reserve", !.todo = References(sw.access)]
         \/ sw' = FailSidecar(sw, "terminal")
  BY Zenon DEF SidecarCheckBuckets
<1>2. /\ sw \in SidecarWorker /\ sw.name \in AccessName /\ sw.access \in Obj
      /\ sw.access.driverName # None /\ SidecarHolds(sw) /\ SecretsOK /\ FaultsOK
  BY Zenon, <1>1, SidecarBusy
<1>3. GoesOn(sw', sw)
  <2>1. CASE sw' = FailSidecar(sw, "terminal")
    <3>1. "terminal" \in Error
      BY Zenon DEF Error, TerminalError
    <3> QED BY Zenon, <1>2, <2>1, <3>1, FailureGoesOn
  <2>2. CASE sw' = [sw EXCEPT !.pc = "reserve", !.todo = References(sw.access)]
    <3>1. References(sw.access) \subseteq ClaimName /\ sw.access.finalizer
      BY Zenon, <1>1, <1>2, ReferencesOK DEF SidecarHolds, Granting
    <3>2. /\ sw' \in SidecarWorker /\ sw'.pc = "reserve" /\ sw'.name = sw.name
          /\ sw'.access = sw.access /\ sw'.todo = References(sw.access)
      BY Zenon, <1>2, <2>2, <3>1 DEF SidecarWorker, SidecarPc
    <3> QED BY Zenon, <1>2, <3>1, <3>2 DEF GoesOn, SidecarHolds, Granting, Cleaning
  <2> QED BY Zenon, <1>1, <2>1, <2>2
<1>4. SecretsOK' /\ FaultsOK'
  <2>1. UNCHANGED secretVars
    BY Zenon, <1>1, SidecarFrame DEF secretVars, storedSecrets
  <2>2. FaultsOK'
    BY Zenon, <1>1, <1>2 DEF FaultsOK
  <2> QED BY Zenon, <1>2, <2>1, <2>2, SecretsUnchanged
<1>5. UNCHANGED <<storedAccesses, sidecarQueue, accounts>> /\ sw.pc # "idle" /\ sw.pc # "report"
  BY Zenon, <1>1
<1> QED BY Zenon, <1>1, <1>3, <1>4, <1>5, SecretStepKeeps

\* A Secret is reserved.
LEMMA SidecarReserveKeeps ==
    ASSUME IInv, SidecarReserve PROVE IInv' /\ StepOK
<1>1. /\ sw.pc = "reserve" /\ unchangedBySidecar
      /\ UNCHANGED <<storedAccesses, sidecarQueue, accounts>>
  BY Zenon DEF SidecarReserve
<1>2. /\ sw \in SidecarWorker /\ sw.name \in AccessName /\ sw.access \in Obj
      /\ sw.access.driverName # None /\ SidecarHolds(sw) /\ SecretsOK /\ FaultsOK
      /\ sw.todo \subseteq References(sw.access) /\ sw.pc # "idle"
  BY Zenon, <1>1, SidecarBusy
<1>3. PICK next : next = [sw EXCEPT !.pc = "grant", !.todo = {}, !.reserved = {}]
  BY Zenon
<1>4. PICK c \in sw.todo :
         LET s == SecretOf(sw.access, c)
             seen == Seen("secrets", secretCache, secrets)[s]
             after(e) == Loop(IF e = "none" THEN [sw EXCEPT !.reserved = @ \cup {s}] ELSE sw,
                              c, e, [sw EXCEPT !.pc = "grant", !.todo = {}, !.reserved = {}])
         IN  \/ /\ refused(sw, s, seen)
                /\ sw' = after("terminal")
                /\ UNCHANGED <<storedSecrets, faults>>
             \/ /\ ~refused(sw, s, seen) /\ seen = None
                /\ \E o \in Outcome :
                     /\ sw' = after(IF o = "ok" THEN "none" ELSE "retry")
                     /\ WriteSecret(o, s, NewSecret(sw.access.uid), secrets[s] = None)
             \/ /\ ~refused(sw, s, seen) /\ seen # None
                /\ \E o \in Outcome :
                     /\ sw' = after(IF o = "ok" THEN "none" ELSE "retry")
                     /\ WriteSecret(o, s, [seen EXCEPT !.finalizer = TRUE],
                                    IsCurrent("secrets", freshSecret[s]) /\ secrets[s] # None)
  BY Zenon DEF SidecarReserve
<1>5. PICK s : s = SecretOf(sw.access, c)
  BY Zenon
<1>6. PICK seen : seen = Seen("secrets", secretCache, secrets)[s]
  BY Zenon
<1> DEFINE After(e) ==
      Loop(IF e = "none" THEN [sw EXCEPT !.reserved = @ \cup {s}] ELSE sw, c, e, next)
<1>7. \/ sw' = After("terminal") /\ UNCHANGED <<storedSecrets, faults>>
      \/ /\ seen = None
         /\ \E o \in Outcome :
              /\ sw' = After(IF o = "ok" THEN "none" ELSE "retry")
              /\ WriteSecret(o, s, NewSecret(sw.access.uid), secrets[s] = None)
      \/ /\ seen # None
         /\ \E o \in Outcome :
              /\ sw' = After(IF o = "ok" THEN "none" ELSE "retry")
              /\ WriteSecret(o, s, [seen EXCEPT !.finalizer = TRUE],
                             IsCurrent("secrets", freshSecret[s]) /\ secrets[s] # None)
  BY Zenon, <1>3, <1>4, <1>5, <1>6
<1>8. s \in SecretName /\ seen \in SecretObject \cup {None} /\ sw.access.uid \in Uid
  <2>1. c \in References(sw.access)
    BY Zenon, <1>2, <1>4
  <2>2. s \in SecretName
    BY Zenon, <1>2, <1>5, <2>1, SecretOfType
  <2>3. sw.access.uid \in Uid
    BY Zenon, <1>2, ObjFields
  <2> QED BY Zenon, <1>2, <1>6, <2>2, <2>3, SeenSecretType
<1>9. ASSUME NEW e, sw' = After(e) PROVE GoesOn(sw', sw)
  <2>1. PICK w : w = IF e = "none" THEN [sw EXCEPT !.reserved = @ \cup {s}] ELSE sw
    BY Zenon
  <2>2. sw' = Loop(w, c, e, next)
    BY Zenon, <1>9, <2>1
  <2>3. /\ w \in SidecarWorker /\ w.pc = sw.pc /\ w.name = sw.name /\ w.access = sw.access
        /\ w.todo = sw.todo
    BY Zenon, <1>2, <1>8, <2>1 DEF SidecarWorker
  <2>4. SidecarHolds(w) /\ w.pc = "reserve"
    BY Zenon, <1>1, <1>2, <2>3 DEF SidecarHolds, Granting, Cleaning
  <2>5. /\ next \in SidecarWorker /\ next.pc = "grant" /\ next.name = w.name
        /\ next.access = w.access /\ next.todo = {}
    BY Zenon, <1>2, <1>3, <2>3 DEF SidecarWorker, SidecarPc
  <2>6. GoesOn(next, w) /\ next.pc # "deleteSecret"
    BY Zenon, <2>4, <2>5 DEF GoesOn, SidecarHolds, Granting, Cleaning
  <2>7. w.pc # "idle" /\ w.pc # "deleteSecret"
    BY Zenon, <2>4
  <2>8. GoesOn(sw', w)
    BY Zenon, <2>2, <2>4, <2>6, <2>7, LoopOK
  <2> QED BY Zenon, <2>3, <2>8 DEF GoesOn
<1>10. SecretsOK' /\ FaultsOK'
  <2>1. UNCHANGED secretCache
    BY Zenon, <1>1, SidecarFrame
  <2>2. CASE UNCHANGED <<storedSecrets, faults>>
    <3>1. UNCHANGED secretVars
      BY Zenon, <2>1, <2>2 DEF secretVars, storedSecrets
    <3>2. FaultsOK'
      BY Zenon, <1>2, <2>2 DEF FaultsOK
    <3> QED BY Zenon, <1>2, <3>1, <3>2, SecretsUnchanged
  <2>3. ASSUME NEW o \in Outcome, WriteSecret(o, s, NewSecret(sw.access.uid), secrets[s] = None)
        PROVE  SecretsOK' /\ FaultsOK'
    <3>1. PICK current : current = (secrets[s] = None)
      BY Zenon
    <3>2. current \in BOOLEAN /\ NewSecret(sw.access.uid) \in SecretObject \cup {None}
      BY Zenon, <1>8, <3>1, NewSecretType
    <3>3. WriteSecret(o, s, NewSecret(sw.access.uid), current)
      BY Zenon, <2>3, <3>1
    <3> QED BY Zenon, <1>2, <1>8, <2>1, <3>2, <3>3, WriteSecretKeeps
  <2>4. ASSUME NEW o \in Outcome, seen # None,
               WriteSecret(o, s, [seen EXCEPT !.finalizer = TRUE],
                           IsCurrent("secrets", freshSecret[s]) /\ secrets[s] # None)
        PROVE  SecretsOK' /\ FaultsOK'
    <3>1. PICK current : current = (IsCurrent("secrets", freshSecret[s]) /\ secrets[s] # None)
      BY Zenon
    <3>2. PICK new : new = [seen EXCEPT !.finalizer = TRUE]
      BY Zenon
    <3>3. current \in BOOLEAN /\ WriteSecret(o, s, new, current)
      BY Zenon, <2>4, <3>1, <3>2
    <3>4. seen \in SecretObject
      BY Zenon, <1>8, <2>4
    <3>5. new \in SecretObject \cup {None}
      BY Zenon, <3>2, <3>4, SecretFinalizerType
    <3> QED BY Zenon, <1>2, <1>8, <2>1, <3>3, <3>5, WriteSecretKeeps
  <2> QED BY Zenon, <1>7, <2>2, <2>3, <2>4
<1>11. UNCHANGED <<storedAccesses, sidecarQueue, accounts>> /\ sw.pc # "idle"
       /\ sw.pc # "report"
  BY Zenon, <1>1
<1>12. GoesOn(sw', sw)
  BY Zenon, <1>7, <1>9
<1> QED BY Zenon, <1>1, <1>10, <1>11, <1>12, SecretStepKeeps

\* An RPC uses up at most one fault.
LEMMA RpcEndsKeeps ==
    ASSUME FaultsOK, NEW e, NEW acted, RpcEnds(e, acted) PROVE FaultsOK'
BY SMTT(60), AccessBounds DEF FaultsOK, RpcEnds

\* An RPC changes the account of the access.
LEMMA AccountWritten ==
    ASSUME AccountsOK, NEW u \in Uid, NEW ids, ids \subseteq {BucketID[c] : c \in ClaimName},
           accounts' = accounts \/ accounts' = [accounts EXCEPT ![u] = ids]
    PROVE  AccountsOK'
BY Zenon DEF AccountsOK

\* The frame of the steps that call the driver.
LEMMA DriverStepKeeps ==
    ASSUME IInv, sw.pc # "idle", sw.pc # "report", GoesOn(sw', sw), FaultsOK', AccountsOK',
           UNCHANGED <<storedAccesses, storedSecrets, sidecarQueue>>, unchangedBySidecar
    PROVE  IInv' /\ StepOK
<1>1. UNCHANGED secretVars
  BY Zenon, SidecarFrame DEF secretVars, storedSecrets
<1>2. SecretsOK'
  BY Zenon, <1>1, SecretsUnchanged, InvariantParts
<1>3. UNCHANGED <<storedAccesses, sidecarQueue>>
  BY Zenon
<1> QED BY Zenon, <1>2, <1>3, SidecarProceeds DEF GoesOn

\* The driver is asked to grant access.
LEMMA SidecarGrantKeeps ==
    ASSUME IInv, SidecarGrant PROVE IInv' /\ StepOK
<1>1. /\ sw.pc = "grant" /\ unchangedBySidecar
      /\ UNCHANGED <<storedAccesses, storedSecrets, sidecarQueue>>
  BY Zenon DEF SidecarGrant
<1>2. PICK ids : ids = {BucketID[c] : c \in GrantConfigs(sw.access)}
  BY Zenon
<1>3. PICK e \in {"none", "retry", "terminal"} : \E acted \in BOOLEAN :
        /\ RpcEnds(e, acted)
        /\ accounts' = IF acted THEN [accounts EXCEPT ![sw.access.uid] = ids] ELSE accounts
        /\ sw' = IF e = "none" THEN [sw EXCEPT !.pc = "fill", !.todo = GrantConfigs(sw.access)]
                 ELSE FailSidecar(sw, e)
  BY Zenon, <1>2 DEF SidecarGrant
<1>4. /\ sw \in SidecarWorker /\ sw.name \in AccessName /\ sw.access \in Obj
      /\ sw.access.driverName # None /\ SidecarHolds(sw) /\ FaultsOK /\ sw.pc # "idle"
  BY Zenon, <1>1, SidecarBusy
<1>5. /\ References(sw.access) \subseteq ClaimName
      /\ GrantConfigs(sw.access) \subseteq References(sw.access)
  BY Zenon, <1>4, ReferencesOK DEF GrantConfigs
<1>6. FaultsOK'
  BY Zenon, <1>3, <1>4, RpcEndsKeeps
<1>7. AccountsOK'
  <2>1. sw.access.uid \in Uid
    BY Zenon, <1>4, ObjFields
  <2>2. ids \subseteq {BucketID[c] : c \in ClaimName}
    BY Zenon, <1>2, <1>5
  <2>3. AccountsOK
    BY Zenon, InvariantParts DEF CountersOK, AccountsOK
  <2> QED BY Zenon, <1>3, <2>1, <2>2, <2>3, AccountWritten
<1>8. GoesOn(sw', sw)
  <2>1. CASE e = "none"
    <3>1. sw' = [sw EXCEPT !.pc = "fill", !.todo = GrantConfigs(sw.access)]
      BY Zenon, <1>3, <2>1
    <3>2. /\ sw' \in SidecarWorker /\ sw'.pc = "fill" /\ sw'.name = sw.name
          /\ sw'.access = sw.access /\ sw'.todo = GrantConfigs(sw.access)
      BY Zenon, <1>4, <1>5, <3>1 DEF SidecarWorker, SidecarPc
    <3>3. sw.access.finalizer
      BY Zenon, <1>1, <1>4 DEF SidecarHolds, Granting
    <3> QED BY Zenon, <1>4, <1>5, <3>2, <3>3 DEF GoesOn, SidecarHolds, Granting, Cleaning
  <2>2. CASE e # "none"
    <3>1. sw' = FailSidecar(sw, e) /\ e \in Error
      BY Zenon, <1>3, <2>2 DEF Error, TerminalError
    <3> QED BY Zenon, <1>4, <3>1, FailureGoesOn
  <2> QED BY Zenon, <2>1, <2>2
<1>9. sw.pc # "report"
  BY Zenon, <1>1
<1> QED BY Zenon, <1>1, <1>4, <1>6, <1>7, <1>8, <1>9, DriverStepKeeps

\* The driver is asked to revoke access.
LEMMA SidecarRevokeKeeps ==
    ASSUME IInv, SidecarRevoke PROVE IInv' /\ StepOK
<1>1. /\ sw.pc = "revoke" /\ unchangedBySidecar
      /\ UNCHANGED <<storedAccesses, storedSecrets, sidecarQueue>>
  BY Zenon DEF SidecarRevoke
<1>2. PICK e \in {"none", "retry", "terminal"} : \E acted \in BOOLEAN :
        /\ RpcEnds(e, acted)
        /\ accounts' = IF acted THEN [accounts EXCEPT ![sw.access.uid] = {}] ELSE accounts
        /\ sw' = IF e = "none" THEN [sw EXCEPT !.pc = "finish"] ELSE FailSidecar(sw, e)
  BY Zenon DEF SidecarRevoke
<1>3. /\ sw \in SidecarWorker /\ sw.name \in AccessName /\ sw.access \in Obj
      /\ sw.access.driverName # None /\ SidecarHolds(sw) /\ FaultsOK /\ sw.pc # "idle"
  BY Zenon, <1>1, SidecarBusy
<1>4. FaultsOK'
  BY Zenon, <1>2, <1>3, RpcEndsKeeps
<1>5. AccountsOK'
  <2>1. sw.access.uid \in Uid
    BY Zenon, <1>3, ObjFields
  <2>2. {} \subseteq {BucketID[c] : c \in ClaimName}
    BY Zenon
  <2>3. AccountsOK
    BY Zenon, InvariantParts DEF CountersOK, AccountsOK
  <2> QED BY Zenon, <1>2, <2>1, <2>2, <2>3, AccountWritten
<1>6. GoesOn(sw', sw)
  <2>1. CASE e = "none"
    <3>1. sw' = [sw EXCEPT !.pc = "finish"]
      BY Zenon, <1>2, <2>1
    <3>2. /\ sw' \in SidecarWorker /\ sw'.pc = "finish" /\ sw'.name = sw.name
          /\ sw'.access = sw.access /\ sw'.todo = sw.todo
      BY Zenon, <1>3, <3>1 DEF SidecarWorker, SidecarPc
    <3> QED BY Zenon, <1>1, <1>3, <3>2 DEF GoesOn, SidecarHolds, Granting, Cleaning
  <2>2. CASE e # "none"
    <3>1. sw' = FailSidecar(sw, e) /\ e \in Error
      BY Zenon, <1>2, <2>2 DEF Error, TerminalError
    <3> QED BY Zenon, <1>3, <3>1, FailureGoesOn
  <2> QED BY Zenon, <2>1, <2>2
<1>7. sw.pc # "report"
  BY Zenon, <1>1
<1> QED BY Zenon, <1>1, <1>3, <1>4, <1>5, <1>6, <1>7, DriverStepKeeps

\* A Secret is filled.
LEMMA SidecarFillKeeps ==
    ASSUME IInv, SidecarFill PROVE IInv' /\ StepOK
<1>1. /\ sw.pc = "fill" /\ unchangedBySidecar
      /\ UNCHANGED <<storedAccesses, sidecarQueue, accounts>>
  BY Zenon DEF SidecarFill
<1>2. /\ sw \in SidecarWorker /\ sw.name \in AccessName /\ sw.access \in Obj
      /\ sw.access.driverName # None /\ SidecarHolds(sw) /\ SecretsOK /\ FaultsOK
      /\ sw.todo \subseteq References(sw.access) /\ sw.pc # "idle"
  BY Zenon, <1>1, SidecarBusy
<1>3. PICK next : next = [sw EXCEPT !.pc = "setReady", !.todo = {}]
  BY Zenon
<1>4. PICK c \in sw.todo : \E o \in Outcome :
        /\ sw' = Loop(sw, c, IF o = "ok" THEN "none" ELSE "retry", next)
        /\ WriteSecret(o, SecretOf(sw.access, c),
                       [secrets[SecretOf(sw.access, c)] EXCEPT !.data = <<sw.access.uid, c>>],
                       "worker" \in freshSecret[SecretOf(sw.access, c)])
  BY Zenon, <1>3 DEF SidecarFill
<1>5. PICK s : s = SecretOf(sw.access, c)
  BY Zenon
<1>6. PICK new : new = [secrets[s] EXCEPT !.data = <<sw.access.uid, c>>]
  BY Zenon
<1>7. PICK current : current = ("worker" \in freshSecret[s])
  BY Zenon
<1>8. PICK o \in Outcome : /\ sw' = Loop(sw, c, IF o = "ok" THEN "none" ELSE "retry", next)
                           /\ WriteSecret(o, s, new, current)
  BY Zenon, <1>4, <1>5, <1>6, <1>7
<1>9. s \in SecretName /\ c \in ClaimName
  <2>1. c \in References(sw.access)
    BY Zenon, <1>2, <1>4
  <2> QED BY Zenon, <1>2, <1>5, <2>1, SecretOfType
<1>10. current \in BOOLEAN /\ (current => new \in SecretObject \cup {None})
  <2>1. current \in BOOLEAN
    BY SMTT(60), <1>7
  <2>2. ASSUME current PROVE new \in SecretObject
    <3>1. secrets[s] \in SecretObject
      BY ZenonT(30), <1>2, <1>7, <1>9, <2>2 DEF SecretsOK, SecretOK
    <3>2. sw.access.uid \in Uid
      BY Zenon, <1>2, ObjFields
    <3> QED BY Zenon, <1>6, <1>9, <3>1, <3>2 DEF SecretObject
  <2> QED BY Zenon, <2>1, <2>2
<1>11. SecretsOK' /\ FaultsOK'
  <2>1. UNCHANGED secretCache
    BY Zenon, <1>1, SidecarFrame
  <2> QED BY Zenon, <1>2, <1>8, <1>9, <1>10, <2>1, WriteSecretKeeps
<1>12. GoesOn(sw', sw)
  <2>1. /\ next \in SidecarWorker /\ next.pc = "setReady" /\ next.name = sw.name
        /\ next.access = sw.access /\ next.todo = {} /\ sw.access.finalizer
    BY Zenon, <1>1, <1>2, <1>3 DEF SidecarWorker, SidecarPc, SidecarHolds, Granting
  <2>2. GoesOn(next, sw) /\ next.pc # "deleteSecret" /\ sw.pc # "deleteSecret"
    BY Zenon, <1>1, <1>2, <2>1 DEF GoesOn, SidecarHolds, Granting, Cleaning
  <2> QED BY Zenon, <1>2, <1>8, <2>2, LoopOK
<1>13. UNCHANGED <<storedAccesses, sidecarQueue, accounts>> /\ sw.pc # "report"
  BY Zenon, <1>1
<1> QED BY Zenon, <1>1, <1>2, <1>11, <1>12, <1>13, SecretStepKeeps

\* Where the deletion goes when the Secrets are gone.
LEMMA AfterSecretsOK ==
    ASSUME NEW w, SidecarHolds(w), w.pc \in {"unprotect", "deleteSecret"}
    PROVE  GoesOn(afterSecrets(w), w) /\ afterSecrets(w).pc # "deleteSecret"
<1>1. PICK v : v = afterSecrets(w)
  BY Zenon
<1>2. /\ w \in SidecarWorker /\ w.name \in AccessName /\ w.access \in Obj
      /\ w.access.driverName # None /\ w.access.deleting
  BY Zenon DEF SidecarHolds, Cleaning
<1>3. /\ v \in SidecarWorker /\ v.pc \in {"revoke", "finish"} /\ v.name = w.name
      /\ v.access = w.access /\ v.todo = {}
  BY ZenonT(30), <1>1, <1>2 DEF afterSecrets, SidecarWorker, SidecarPc
<1>4. GoesOn(v, w) /\ v.pc # "deleteSecret"
  BY Zenon, <1>2, <1>3 DEF GoesOn, SidecarHolds, Granting, Cleaning
<1> QED BY Zenon, <1>1, <1>4

\* A Secret loses its finalizer.
LEMMA SidecarUnprotectKeeps ==
    ASSUME IInv, SidecarUnprotect PROVE IInv' /\ StepOK
<1>1. /\ sw.pc = "unprotect" /\ unchangedBySidecar
      /\ UNCHANGED <<storedAccesses, sidecarQueue, accounts>>
  BY Zenon DEF SidecarUnprotect
<1>2. /\ sw \in SidecarWorker /\ sw.name \in AccessName /\ sw.access \in Obj
      /\ sw.access.driverName # None /\ SidecarHolds(sw) /\ SecretsOK /\ FaultsOK
      /\ sw.todo \subseteq References(sw.access) /\ sw.pc # "idle" /\ sw.access.deleting
  BY Zenon, <1>1, SidecarBusy DEF SidecarHolds, Cleaning
<1>3. PICK c \in sw.todo :
         LET s == SecretOf(sw.access, c)
             seen == Seen("secrets", secretCache, secrets)[s]
             owned == seen # None /\ seen.owner = sw.access.uid
         IN  \/ /\ ~owned
                /\ sw' = Loop(sw, c, "none", afterSecrets(sw))
                /\ UNCHANGED <<storedSecrets, faults>>
             \/ /\ owned
                /\ \E o \in Outcome :
                     /\ sw' = IF o = "ok" THEN [sw EXCEPT !.pc = "deleteSecret", !.at = c]
                              ELSE Loop(sw, c, "retry", sw)
                     /\ WriteSecret(o, s, Persisted([seen EXCEPT !.finalizer = FALSE]),
                                    IsCurrent("secrets", freshSecret[s]) /\ secrets[s] # None)
  BY Zenon DEF SidecarUnprotect
<1>4. PICK s : s = SecretOf(sw.access, c)
  BY Zenon
<1>5. PICK seen : seen = Seen("secrets", secretCache, secrets)[s]
  BY Zenon
<1>6. PICK new : new = Persisted([seen EXCEPT !.finalizer = FALSE])
  BY Zenon
<1>7. PICK current : current = (IsCurrent("secrets", freshSecret[s]) /\ secrets[s] # None)
  BY Zenon
<1>8. \/ /\ sw' = Loop(sw, c, "none", afterSecrets(sw))
         /\ UNCHANGED <<storedSecrets, faults>>
      \/ /\ seen # None
         /\ \E o \in Outcome :
              /\ sw' = IF o = "ok" THEN [sw EXCEPT !.pc = "deleteSecret", !.at = c]
                       ELSE Loop(sw, c, "retry", sw)
              /\ WriteSecret(o, s, new, current)
  BY Zenon, <1>3, <1>4, <1>5, <1>6, <1>7
<1>9. c \in References(sw.access)
  BY Zenon, <1>2, <1>3
<1>10. s \in SecretName /\ c \in ClaimName /\ seen \in SecretObject \cup {None}
  BY ZenonT(30), <1>2, <1>4, <1>5, <1>9, SecretOfType, SeenSecretType
<1>11. UNCHANGED secretCache /\ current \in BOOLEAN
  BY Zenon, <1>1, <1>7, SidecarFrame
<1>12. CASE /\ sw' = Loop(sw, c, "none", afterSecrets(sw))
            /\ UNCHANGED <<storedSecrets, faults>>
  <2>1. GoesOn(afterSecrets(sw), sw) /\ afterSecrets(sw).pc # "deleteSecret"
    BY Zenon, <1>1, <1>2, AfterSecretsOK
  <2>2. GoesOn(sw', sw)
    <3>1. sw.pc # "deleteSecret"
      BY Zenon, <1>1
    <3> QED BY Zenon, <1>2, <1>12, <2>1, <3>1, LoopOK
  <2>3. SecretsOK' /\ FaultsOK'
    <3>1. UNCHANGED secretVars
      BY Zenon, <1>11, <1>12 DEF secretVars, storedSecrets
    <3>2. FaultsOK'
      BY Zenon, <1>2, <1>12 DEF FaultsOK
    <3> QED BY Zenon, <1>2, <3>1, <3>2, SecretsUnchanged
  <2>4. sw.pc # "report"
    BY Zenon, <1>1
  <2> QED BY ZenonT(30), <1>1, <1>2, <2>2, <2>3, <2>4, SecretStepKeeps
<1>13. ASSUME seen # None, NEW o \in Outcome,
              sw' = IF o = "ok" THEN [sw EXCEPT !.pc = "deleteSecret", !.at = c]
                    ELSE Loop(sw, c, "retry", sw),
              WriteSecret(o, s, new, current)
       PROVE  IInv' /\ StepOK
  <2>1. seen \in SecretObject
    BY Zenon, <1>10, <1>13
  <2>2. new \in SecretObject \cup {None}
    BY Zenon, <1>6, <2>1, SecretFinalizerType
  <2>3. SecretsOK' /\ FaultsOK'
    BY Zenon, <1>2, <1>10, <1>11, <1>13, <2>2, WriteSecretKeeps
  <2>4. GoesOn(sw', sw)
    <3>1. CASE o = "ok"
      <4>1. sw' = [sw EXCEPT !.pc = "deleteSecret", !.at = c]
        BY Zenon, <1>13, <3>1
      <4>2. /\ sw' \in SidecarWorker /\ sw'.pc = "deleteSecret" /\ sw'.name = sw.name
            /\ sw'.access = sw.access /\ sw'.todo = sw.todo /\ sw'.at = c
        BY Zenon, <1>2, <1>10, <4>1 DEF SidecarWorker, SidecarPc
      <4> QED BY Zenon, <1>2, <1>9, <4>2 DEF GoesOn, SidecarHolds, Granting, Cleaning
    <3>2. CASE o # "ok"
      <4>1. sw' = Loop(sw, c, "retry", sw)
        BY Zenon, <1>13, <3>2
      <4>2. GoesOn(sw, sw) /\ sw.pc # "deleteSecret"
        BY Zenon, <1>1, <1>2 DEF GoesOn
      <4> QED BY Zenon, <1>2, <4>1, <4>2, LoopOK
    <3> QED BY Zenon, <3>1, <3>2
  <2>5. sw.pc # "report"
    BY Zenon, <1>1
  <2> QED BY Zenon, <1>1, <1>2, <2>3, <2>4, <2>5, SecretStepKeeps
<1> QED BY Zenon, <1>8, <1>12, <1>13

\* A Secret is deleted.
LEMMA SidecarDeleteSecretKeeps ==
    ASSUME IInv, SidecarDeleteSecret PROVE IInv' /\ StepOK
<1>1. /\ sw.pc = "deleteSecret" /\ unchangedBySidecar
      /\ UNCHANGED <<storedAccesses, sidecarQueue, accounts>>
  BY Zenon DEF SidecarDeleteSecret
<1>2. /\ sw \in SidecarWorker /\ sw.name \in AccessName /\ sw.access \in Obj
      /\ sw.access.driverName # None /\ SidecarHolds(sw) /\ SecretsOK /\ FaultsOK
      /\ sw.todo \subseteq References(sw.access) /\ sw.pc # "idle" /\ sw.access.deleting
      /\ sw.at \in References(sw.access)
  BY Zenon, <1>1, SidecarBusy DEF SidecarHolds, Cleaning
<1>3. PICK w : w = [sw EXCEPT !.pc = "unprotect"]
  BY Zenon
<1>4. PICK s : s = SecretOf(sw.access, sw.at)
  BY Zenon
<1>5. PICK new : new = Deleted(secrets[s])
  BY Zenon
<1>6. PICK current : current = (secrets[s] # None)
  BY Zenon
<1>7. PICK o \in Outcome :
        /\ sw' = Loop(w, sw.at, IF o = "ok" THEN "none" ELSE "retry", afterSecrets(sw))
        /\ WriteSecret(o, s, new, current)
  BY Zenon, <1>3, <1>4, <1>5, <1>6 DEF SidecarDeleteSecret
<1>8. s \in SecretName
  BY Zenon, <1>2, <1>4, SecretOfType
<1>9. current \in BOOLEAN /\ (current => new \in SecretObject \cup {None})
  <2>1. current \in BOOLEAN
    BY Zenon, <1>6
  <2>2. ASSUME current PROVE new \in SecretObject \cup {None}
    <3>1. secrets[s] \in SecretObject
      BY ZenonT(30), <1>2, <1>6, <1>8, <2>2 DEF SecretsOK
    <3> QED BY Zenon, <1>5, <3>1, SecretFinalizerType
  <2> QED BY Zenon, <2>1, <2>2
<1>10. SecretsOK' /\ FaultsOK'
  <2>1. UNCHANGED secretCache
    BY Zenon, <1>1, SidecarFrame
  <2> QED BY Zenon, <1>2, <1>7, <1>8, <1>9, <2>1, WriteSecretKeeps
<1>11. GoesOn(sw', sw)
  <2>1. /\ w \in SidecarWorker /\ w.pc = "unprotect" /\ w.name = sw.name
        /\ w.access = sw.access /\ w.todo = sw.todo
    BY Zenon, <1>2, <1>3 DEF SidecarWorker, SidecarPc
  <2>2. SidecarHolds(w) /\ w.pc # "idle" /\ w.pc # "deleteSecret"
    BY Zenon, <1>2, <2>1 DEF SidecarHolds, Granting, Cleaning
  <2>3. GoesOn(afterSecrets(sw), sw) /\ afterSecrets(sw).pc # "deleteSecret"
    BY Zenon, <1>1, <1>2, AfterSecretsOK
  <2>4. GoesOn(afterSecrets(sw), w)
    BY Zenon, <2>1, <2>3 DEF GoesOn
  <2>5. GoesOn(sw', w)
    BY Zenon, <1>7, <2>2, <2>3, <2>4, LoopOK
  <2> QED BY Zenon, <2>1, <2>5 DEF GoesOn
<1>12. UNCHANGED <<storedAccesses, sidecarQueue, accounts>> /\ sw.pc # "report"
  BY Zenon, <1>1
<1> QED BY Zenon, <1>1, <1>2, <1>10, <1>11, <1>12, SecretStepKeeps

\* The Sidecar takes an access from its queue.
LEMMA SidecarStartKeeps ==
    ASSUME IInv, NEW a \in AccessName, SidecarStart(a) PROVE IInv' /\ StepOK
<1>1. /\ sw.pc = "idle" /\ a \in sidecarQueue /\ sidecarQueue' = sidecarQueue \ {a}
      /\ sw' = IF sidecarAccesses[a] = None THEN SidecarIdle
                                        ELSE startSidecar(a, sidecarAccesses[a])
      /\ UNCHANGED <<accesses, sidecarEvents, controllerEvents, storedClaims, storedSecrets,
                     accessCaches, otherCaches, controllerVars, accounts, envVars, faults>>
  BY Zenon DEF SidecarStart
<1>2. PICK obj : obj = IF sw'.pc = "idle" THEN None ELSE sidecarAccesses[a]
  BY Zenon
<1>3. PICK mine : mine = AfterRead(freshAccess[a], "sidecarCache", obj, "sidecarWorker")
  BY Zenon
<1>4. freshAccess' = [freshAccess EXCEPT ![a] = mine]
  BY Zenon, <1>2, <1>3 DEF SidecarStart
<1>5. /\ AccessesOK /\ SidecarHolds(sw) /\ ControllerHolds(cw) /\ CachesOK /\ SidecarOK
      /\ ControllerOK /\ ClaimsOK /\ SecretsOK /\ CountersOK /\ FaultsOK
  BY Zenon, InvariantParts
<1>6. "sidecarWorker" \in AccessHolder /\ "controllerWorker" \in AccessHolder
      /\ "sidecarCache" \in AccessHolder /\ "controllerCache" \in AccessHolder
  BY Zenon DEF AccessHolder
<1>7. /\ freshAccess' \in [AccessName -> SUBSET AccessHolder]
      /\ \A x \in AccessName : x # a => freshAccess'[x] = freshAccess[x]
      /\ \A h \in AccessHolder :
           h # "sidecarWorker" => (h \in freshAccess'[a] <=> h \in freshAccess[a])
      /\ "sidecarWorker" \in freshAccess'[a] => "sidecarCache" \in freshAccess[a] /\ obj # None
  <2>1. ReadBy(a, "sidecarWorker", "sidecarCache", obj)
    BY Zenon, <1>3, <1>4, <1>5, <1>6, StartHolders
  <2> QED BY Zenon, <2>1 DEF ReadBy
<1>8. UNCHANGED <<sidecarAccesses, accessCache, controllerQueue, cw>>
  BY Zenon, <1>1 DEF accessCaches, controllerVars
<1>9. AccessesOK'
  BY SMTT(60), <1>1, <1>5, <1>7, <1>8 DEF AccessesOK
<1>10. /\ SidecarHolds(sw')
       /\ ForSidecar(sidecarAccesses[a]) => sw'.pc # "idle"
       /\ sw'.pc # "idle" =>
            /\ sw'.name = a /\ sw'.access = sidecarAccesses[a]
            /\ sw'.pc = "report" => SameFinal(sidecarAccesses[a], sidecarAccesses[a])
  <2>1. CASE sidecarAccesses[a] = None
    BY Zenon, <1>1, <2>1, SidecarIdleOK DEF ForSidecar
  <2>2. CASE sidecarAccesses[a] # None
    <3>1. sidecarAccesses[a] \in Obj
      BY Zenon, <1>5, <2>2 DEF AccessesOK
    <3>2. PICK x \in Obj : x = sidecarAccesses[a]
      BY Zenon, <3>1
    <3>3. PICK v : v = sw'
      BY Zenon
    <3>4. v = startSidecar(a, x)
      BY Zenon, <1>1, <2>2, <3>2, <3>3
    <3>5. SidecarStarts(a, x, v)
      BY Zenon, <3>2, <3>4, StartSidecarOK
    <3> QED BY Zenon, <3>2, <3>3, <3>5 DEF SidecarStarts
  <2> QED BY Zenon, <2>1, <2>2
<1>11. sw.name = None /\ None \notin AccessName
  BY Zenon, <1>1, <1>5, AccessAssumption DEF SidecarHolds
<1>12. SidecarOK'
  <2> SUFFICES ASSUME NEW x \in AccessName
               PROVE  SidecarCoherent(x)' /\ SidecarAttends(x)'
    BY Zenon DEF SidecarOK
  <2>1. SidecarCoherent(x) /\ SidecarAttends(x) /\ CachesCoherent(x)
    BY Zenon, <1>5 DEF SidecarOK, CachesOK
  <2>2. CASE x # a
    <3>1. "sidecarWorker" \notin freshAccess'[x]
      BY ZenonT(30), <1>1, <1>7, <2>1, <2>2 DEF SidecarCoherent
    <3>2. SidecarHas(x) => SidecarHas(x)'
      BY Zenon, <1>1, <1>11, <2>2 DEF SidecarHas
    <3>3. SidecarAttends(x)'
      BY Zenon, <1>1, <1>8, <2>1, <3>2 DEF SidecarAttends
    <3> QED BY ZenonT(30), <3>1, <3>3 DEF SidecarCoherent
  <2>3. CASE x = a
    <3>1. CASE sw'.pc = "idle"
      <4>1. "sidecarWorker" \notin freshAccess'[a]
        BY Zenon, <1>2, <1>7, <3>1
      <4>2. ForSidecar(accesses[a]) => a \in sidecarEvents'
        BY Zenon, <1>1, <1>10, <2>1, <2>3, <3>1 DEF SidecarAttends
      <4>3. SidecarAttends(a)'
        BY Zenon, <1>1, <4>2 DEF SidecarAttends, SidecarHas
      <4> QED BY ZenonT(30), <2>3, <4>1, <4>3 DEF SidecarCoherent
    <3>2. CASE sw'.pc # "idle"
      <4>1. SidecarAttends(a)'
        BY ZenonT(30), <1>1, <1>8, <1>10, <2>1, <2>3, <3>2 DEF SidecarAttends, SidecarHas
      <4>2. "sidecarWorker" \in freshAccess'[a] =>
               accesses[a] = sidecarAccesses[a] /\ accesses[a] # None
        BY ZenonT(30), <1>2, <1>7, <2>1, <2>3, <3>2 DEF CachesCoherent
      <4>3. SidecarCoherent(a)'
        BY Zenon, <1>1, <1>10, <3>2, <4>2 DEF SidecarCoherent
      <4> QED BY Zenon, <2>3, <4>1, <4>3
    <3> QED BY Zenon, <3>1, <3>2
  <2> QED BY Zenon, <2>2, <2>3
<1>13. ASSUME NEW h \in AccessHolder, h # "sidecarWorker" PROVE HolderKept(h)
  BY Zenon, <1>1, <1>7, <1>13 DEF HolderKept
<1>14. CachesOK'
  BY Zenon, <1>1, <1>5, <1>6, <1>13, CachesStay
<1>15. ControllerOK'
  <2>1. HolderKept("controllerWorker")
    BY Zenon, <1>6, <1>13
  <2> QED BY Zenon, <1>1, <1>5, <1>8, <2>1
             DEF ControllerOK, ControllerCoherent, ControllerAttends, ControllerHas,
             HolderKept
<1>16. ControllerHolds(cw)'
  BY Zenon, <1>5, <1>8
<1>17. UNCHANGED <<claimVars, secretVars, counterVars>>
  BY Zenon, <1>1
     DEF claimVars, secretVars, counterVars, storedClaims, storedSecrets, otherCaches, envVars
<1>18. ClaimsOK' /\ SecretsOK' /\ CountersOK'
  BY Zenon, <1>5, <1>17, ClaimsUnchanged, SecretsUnchanged, CountersUnchanged
<1>19. FaultsOK'
  BY Zenon, <1>1, <1>5 DEF FaultsOK
<1>20. StepOK
  BY Zenon, <1>1, StaysItself DEF StepOK
<1> QED
  BY ZenonT(30), <1>9, <1>10, <1>12, <1>14, <1>15, <1>16, <1>18, <1>19, <1>20, InvariantParts

\* A process is not disturbed by what happens to the other's copies.
LEMMA ControllerUndisturbed ==
    ASSUME ControllerOK, HolderKept("controllerWorker"),
           UNCHANGED <<accesses, accessCache, controllerEvents, controllerQueue, cw>>
    PROVE  ControllerOK'
BY Zenon DEF ControllerOK, ControllerCoherent, ControllerAttends, ControllerHas, HolderKept

\* The same of the Sidecar.
LEMMA SidecarUndisturbed ==
    ASSUME SidecarOK, HolderKept("sidecarWorker"),
           UNCHANGED <<accesses, sidecarAccesses, sidecarEvents, sidecarQueue, sw>>
    PROVE  SidecarOK'
BY Zenon DEF SidecarOK, SidecarCoherent, SidecarAttends, SidecarHas, HolderKept

\* A step that leaves accesses and workers alone.
LEMMA BystanderKeeps ==
    ASSUME IInv, UNCHANGED <<accessVars, controllerVars, sidecarVars, faults>>,
           ClaimsOK', SecretsOK', CountersOK'
    PROVE  IInv' /\ StepOK
<1>1. /\ AccessesOK /\ ControllerHolds(cw) /\ SidecarHolds(sw) /\ CachesOK /\ ControllerOK
      /\ SidecarOK /\ FaultsOK
  BY Zenon, InvariantParts
<1>2. UNCHANGED <<accessVars, controllerVars>> /\ UNCHANGED <<accessVars, sidecarVars>>
      /\ UNCHANGED <<accessVars, controllerQueue, sidecarQueue>> /\ UNCHANGED faults
  BY Zenon DEF controllerVars, sidecarVars
<1>3. ControllerHolds(cw)' /\ ControllerOK'
  BY Zenon, <1>1, <1>2, ControllerUnchanged
<1>4. SidecarHolds(sw)' /\ SidecarOK'
  BY Zenon, <1>1, <1>2, SidecarUnchanged
<1>5. AccessesOK' /\ CachesOK' /\ StepOK
  BY Zenon, <1>1, <1>2, AccessesUnchanged
<1>6. FaultsOK'
  BY Zenon, <1>1, <1>2, FaultsUnchanged
<1> QED BY Zenon, <1>3, <1>4, <1>5, <1>6, InvariantParts

\* The Controller's cache catches up.
LEMMA ControllerAccessSyncKeeps ==
    ASSUME IInv, NEW a \in AccessName, ControllerAccessSync(a) PROVE IInv' /\ StepOK
<1>1. /\ AccessesOK /\ ControllerHolds(cw) /\ SidecarHolds(sw) /\ CachesOK /\ ControllerOK
      /\ SidecarOK /\ ClaimsOK /\ SecretsOK /\ CountersOK /\ FaultsOK
  BY Zenon, InvariantParts
<1>2. /\ accessCache' = [accessCache EXCEPT ![a] = accesses[a]]
      /\ freshAccess' = [freshAccess EXCEPT ![a] = @ \cup {"controllerCache"}]
      /\ controllerEvents' = controllerEvents \ {a}
      /\ controllerQueue' = controllerQueue \cup (controllerEvents \cap {a})
      /\ UNCHANGED <<accesses, sidecarAccesses, sidecarEvents, sidecarQueue, cw, sw, faults>>
      /\ UNCHANGED <<claimVars, secretVars, counterVars>>
  BY Zenon DEF ControllerAccessSync, unchangedBySync, claimVars, secretVars, counterVars,
         storedClaims, storedSecrets, otherCaches, envVars
<1>3. /\ accesses \in [AccessName -> Obj \cup {None}]
      /\ accessCache \in [AccessName -> Obj \cup {None}]
      /\ freshAccess \in [AccessName -> SUBSET AccessHolder]
      /\ controllerEvents \subseteq AccessName
  BY Zenon, <1>1 DEF AccessesOK
<1>4. /\ freshAccess' \in [AccessName -> SUBSET AccessHolder]
      /\ \A h \in AccessHolder, x \in AccessName :
           h # "controllerCache" => (h \in freshAccess'[x] => h \in freshAccess[x])
      /\ \A x \in AccessName : x # a => freshAccess'[x] = freshAccess[x]
  BY Zenon, <1>2, <1>3 DEF AccessHolder
<1>5. HolderKept("controllerWorker") /\ HolderKept("sidecarWorker")
      /\ HolderKept("sidecarCache")
  BY Zenon, <1>2, <1>4 DEF HolderKept, AccessHolder
<1>6. AccessesOK'
  BY Zenon, <1>1, <1>2, <1>3, <1>4 DEF AccessesOK
<1>7. CachesOK'
  <2> SUFFICES ASSUME NEW x \in AccessName PROVE CachesCoherent(x)'
    BY Zenon DEF CachesOK
  <2>1. CachesCoherent(x)
    BY Zenon, <1>1 DEF CachesOK
  <2>2. "controllerCache" \in freshAccess'[x] => accessCache'[x] = accesses'[x]
    BY Zenon, <1>2, <1>3, <1>4, <2>1 DEF CachesCoherent
  <2>3. "sidecarCache" \in freshAccess'[x] => sidecarAccesses'[x] = accesses'[x]
    BY Zenon, <1>2, <1>5, <2>1 DEF CachesCoherent, HolderKept
  <2> QED BY Zenon, <2>2, <2>3 DEF CachesCoherent
<1>8. ControllerOK'
  <2> SUFFICES ASSUME NEW x \in AccessName
               PROVE  ControllerCoherent(x)' /\ ControllerAttends(x)'
    BY Zenon DEF ControllerOK
  <2>1. ControllerCoherent(x) /\ ControllerAttends(x)
    BY Zenon, <1>1 DEF ControllerOK
  <2>2. ControllerCoherent(x)'
    BY Zenon, <1>2, <1>5, <2>1 DEF ControllerCoherent, HolderKept
  <2>3. ControllerHas(x) => ControllerHas(x)'
    BY Zenon, <1>2 DEF ControllerHas
  <2>4. CASE x = a
    <3>1. accessCache'[x] = accesses[x] /\ accesses' = accesses
      BY Zenon, <1>2, <1>3, <2>4
    <3> QED BY Zenon, <2>1, <2>2, <2>3, <3>1 DEF ControllerAttends
  <2>5. CASE x # a
    <3>1. accessCache'[x] = accessCache[x] /\ accesses' = accesses
      BY Zenon, <1>2, <1>3, <2>5
    <3>2. x \in controllerEvents => x \in controllerEvents'
      BY Zenon, <1>2, <2>5
    <3> QED BY Zenon, <2>1, <2>2, <2>3, <3>1, <3>2 DEF ControllerAttends
  <2> QED BY Zenon, <2>4, <2>5
<1>9. SidecarOK'
  BY Zenon, <1>1, <1>2, <1>5, SidecarUndisturbed
<1>10. ControllerHolds(cw)' /\ SidecarHolds(sw)'
  BY Zenon, <1>1, <1>2
<1>11. ClaimsOK' /\ SecretsOK' /\ CountersOK' /\ FaultsOK'
  BY Zenon, <1>1, <1>2, ClaimsUnchanged, SecretsUnchanged, CountersUnchanged, FaultsUnchanged
<1>12. StepOK
  BY Zenon, <1>2, StaysItself DEF StepOK
<1> QED BY Zenon, <1>6, <1>7, <1>8, <1>9, <1>10, <1>11, <1>12, InvariantParts

\* The Sidecar's cache catches up.
LEMMA SidecarAccessSyncKeeps ==
    ASSUME IInv, NEW a \in AccessName, SidecarAccessSync(a) PROVE IInv' /\ StepOK
<1>1. /\ AccessesOK /\ SidecarHolds(sw) /\ ControllerHolds(cw) /\ CachesOK /\ SidecarOK
      /\ ControllerOK /\ ClaimsOK /\ SecretsOK /\ CountersOK /\ FaultsOK
  BY Zenon, InvariantParts
<1>2. /\ sidecarAccesses' = [sidecarAccesses EXCEPT ![a] = accesses[a]]
      /\ freshAccess' = [freshAccess EXCEPT ![a] = @ \cup {"sidecarCache"}]
      /\ sidecarEvents' = sidecarEvents \ {a}
      /\ sidecarQueue' = sidecarQueue \cup (sidecarEvents \cap {a})
      /\ UNCHANGED <<accesses, accessCache, controllerEvents, controllerQueue, sw, cw, faults>>
      /\ UNCHANGED <<claimVars, secretVars, counterVars>>
  BY Zenon DEF SidecarAccessSync, unchangedBySync, claimVars, secretVars, counterVars,
         storedClaims, storedSecrets, otherCaches, envVars
<1>3. /\ accesses \in [AccessName -> Obj \cup {None}]
      /\ sidecarAccesses \in [AccessName -> Obj \cup {None}]
      /\ freshAccess \in [AccessName -> SUBSET AccessHolder]
      /\ sidecarEvents \subseteq AccessName
  BY Zenon, <1>1 DEF AccessesOK
<1>4. /\ freshAccess' \in [AccessName -> SUBSET AccessHolder]
      /\ \A h \in AccessHolder, x \in AccessName :
           h # "sidecarCache" => (h \in freshAccess'[x] => h \in freshAccess[x])
      /\ \A x \in AccessName : x # a => freshAccess'[x] = freshAccess[x]
  BY Zenon, <1>2, <1>3 DEF AccessHolder
<1>5. HolderKept("sidecarWorker") /\ HolderKept("controllerWorker")
      /\ HolderKept("controllerCache")
  BY Zenon, <1>2, <1>4 DEF HolderKept, AccessHolder
<1>6. AccessesOK'
  BY Zenon, <1>1, <1>2, <1>3, <1>4 DEF AccessesOK
<1>7. CachesOK'
  <2> SUFFICES ASSUME NEW x \in AccessName PROVE CachesCoherent(x)'
    BY Zenon DEF CachesOK
  <2>1. CachesCoherent(x)
    BY Zenon, <1>1 DEF CachesOK
  <2>2. "sidecarCache" \in freshAccess'[x] => sidecarAccesses'[x] = accesses'[x]
    BY Zenon, <1>2, <1>3, <1>4, <2>1 DEF CachesCoherent
  <2>3. "controllerCache" \in freshAccess'[x] => accessCache'[x] = accesses'[x]
    BY Zenon, <1>2, <1>5, <2>1 DEF CachesCoherent, HolderKept
  <2> QED BY Zenon, <2>2, <2>3 DEF CachesCoherent
<1>8. SidecarOK'
  <2> SUFFICES ASSUME NEW x \in AccessName
               PROVE  SidecarCoherent(x)' /\ SidecarAttends(x)'
    BY Zenon DEF SidecarOK
  <2>1. SidecarCoherent(x) /\ SidecarAttends(x)
    BY Zenon, <1>1 DEF SidecarOK
  <2>2. SidecarCoherent(x)'
    BY Zenon, <1>2, <1>5, <2>1 DEF SidecarCoherent, HolderKept
  <2>3. SidecarHas(x) => SidecarHas(x)'
    BY Zenon, <1>2 DEF SidecarHas
  <2>4. CASE x = a
    <3>1. sidecarAccesses'[x] = accesses[x] /\ accesses' = accesses
      BY Zenon, <1>2, <1>3, <2>4
    <3> QED BY Zenon, <2>1, <2>2, <2>3, <3>1 DEF SidecarAttends
  <2>5. CASE x # a
    <3>1. sidecarAccesses'[x] = sidecarAccesses[x] /\ accesses' = accesses
      BY Zenon, <1>2, <1>3, <2>5
    <3>2. x \in sidecarEvents => x \in sidecarEvents'
      BY Zenon, <1>2, <2>5
    <3> QED BY Zenon, <2>1, <2>2, <2>3, <3>1, <3>2 DEF SidecarAttends
  <2> QED BY Zenon, <2>4, <2>5
<1>9. ControllerOK'
  BY Zenon, <1>1, <1>2, <1>5, ControllerUndisturbed
<1>10. SidecarHolds(sw)' /\ ControllerHolds(cw)'
  BY Zenon, <1>1, <1>2
<1>11. ClaimsOK' /\ SecretsOK' /\ CountersOK' /\ FaultsOK'
  BY Zenon, <1>1, <1>2, ClaimsUnchanged, SecretsUnchanged, CountersUnchanged, FaultsUnchanged
<1>12. StepOK
  BY Zenon, <1>2, StaysItself DEF StepOK
<1> QED BY Zenon, <1>6, <1>7, <1>8, <1>9, <1>10, <1>11, <1>12, InvariantParts

\* The Controller restarts: it lists every access, and queues those that are its own.
LEMMA ControllerRestartKeeps ==
    ASSUME IInv, ControllerRestart PROVE IInv' /\ StepOK
<1>1. /\ AccessesOK /\ ControllerHolds(cw) /\ SidecarHolds(sw) /\ CachesOK /\ ControllerOK
      /\ SidecarOK /\ ClaimsOK /\ SecretsOK /\ CountersOK /\ FaultsOK
  BY Zenon, InvariantParts
<1>2. /\ accessCache' = accesses
      /\ freshAccess' = Relisted(freshAccess, "controllerCache", "controllerWorker")
      /\ controllerEvents' = {} /\ controllerQueue' \subseteq AccessName
      /\ \A x \in AccessName :
           accesses[x] # None /\ ~ManagedBySidecar(accesses[x]) => x \in controllerQueue'
      /\ cw' = ControllerIdle
      /\ UNCHANGED <<accesses, sidecarAccesses, sidecarEvents, sidecarQueue, sw, faults>>
  BY Zenon DEF ControllerRestart, sidecarVars
<1>3. /\ accesses \in [AccessName -> Obj \cup {None}]
      /\ freshAccess \in [AccessName -> SUBSET AccessHolder]
  BY Zenon, <1>1 DEF AccessesOK
<1>4. /\ freshAccess' \in [AccessName -> SUBSET AccessHolder]
      /\ \A h \in AccessHolder, x \in AccessName :
           h # "controllerCache" => (h \in freshAccess'[x] => h \in freshAccess[x])
      /\ \A x \in AccessName : "controllerWorker" \notin freshAccess'[x]
  BY Zenon, <1>2, <1>3 DEF AccessHolder, Relisted
<1>5. HolderKept("sidecarWorker") /\ HolderKept("sidecarCache")
  BY Zenon, <1>2, <1>4 DEF HolderKept, AccessHolder
<1>6. AccessesOK'
  BY Zenon, <1>1, <1>2, <1>3, <1>4 DEF AccessesOK
<1>7. CachesOK'
  <2> SUFFICES ASSUME NEW x \in AccessName PROVE CachesCoherent(x)'
    BY Zenon DEF CachesOK
  <2>1. CachesCoherent(x)
    BY Zenon, <1>1 DEF CachesOK
  <2>2. sidecarAccesses' = sidecarAccesses /\ accesses' = accesses /\ accessCache' = accesses
    BY Zenon, <1>2
  <2> QED BY Zenon, <1>5, <2>1, <2>2 DEF CachesCoherent, HolderKept
<1>8. ControllerOK'
  <2> SUFFICES ASSUME NEW x \in AccessName
               PROVE  ControllerCoherent(x)' /\ ControllerAttends(x)'
    BY Zenon DEF ControllerOK
  <2>1. ControllerCoherent(x)'
    BY Zenon, <1>4 DEF ControllerCoherent
  <2>2. ForController(accesses[x]) => x \in controllerQueue'
    BY Zenon, <1>2 DEF ForController, ManagedBySidecar
  <2>3. accesses' = accesses /\ accessCache' = accesses
    BY Zenon, <1>2
  <2> QED BY Zenon, <2>1, <2>2, <2>3 DEF ControllerAttends, ControllerHas
<1>9. SidecarOK'
  BY Zenon, <1>1, <1>2, <1>5, SidecarUndisturbed
<1>10. ControllerHolds(cw)' /\ SidecarHolds(sw)'
  BY Zenon, <1>1, <1>2, ControllerIdleOK
<1>11. ClaimsOK'
  <2>1. /\ claimCache' = claims /\ bucketCache' = buckets
        /\ freshClaim' = Relisted(freshClaim, "cache", "worker")
        /\ UNCHANGED <<claims, buckets, sidecarBuckets>>
    BY Zenon DEF ControllerRestart
  <2>2. /\ freshClaim' \in [ClaimName -> SUBSET Holder]
        /\ \A c \in ClaimName : "worker" \notin freshClaim'[c]
    BY Zenon, <1>1, <2>1 DEF ClaimsOK, Holder, Relisted
  <2> QED BY Zenon, <1>1, <2>1, <2>2 DEF ClaimsOK, ClaimOK
<1>12. SecretsOK'
  <2>1. UNCHANGED secretVars
    BY Zenon DEF ControllerRestart, secretVars, storedSecrets
  <2> QED BY Zenon, <1>1, <2>1, SecretsUnchanged
<1>13. CountersOK'
  BY SMTT(60), <1>1, AccessBounds DEF ControllerRestart, CountersOK
<1>14. FaultsOK' /\ StepOK
  BY Zenon, <1>1, <1>2, FaultsUnchanged, StaysItself DEF StepOK
<1> QED
  BY Zenon, <1>6, <1>7, <1>8, <1>9, <1>10, <1>11, <1>12, <1>13, <1>14, InvariantParts

\* The Sidecar restarts: it lists every access, and queues those that are its own.
LEMMA SidecarRestartKeeps ==
    ASSUME IInv, SidecarRestart PROVE IInv' /\ StepOK
<1>1. /\ AccessesOK /\ SidecarHolds(sw) /\ ControllerHolds(cw) /\ CachesOK /\ SidecarOK
      /\ ControllerOK /\ ClaimsOK /\ SecretsOK /\ CountersOK /\ FaultsOK
  BY Zenon, InvariantParts
<1>2. /\ sidecarAccesses' = accesses
      /\ freshAccess' = Relisted(freshAccess, "sidecarCache", "sidecarWorker")
      /\ sidecarEvents' = {} /\ sidecarQueue' \subseteq AccessName
      /\ \A x \in AccessName :
           accesses[x] # None /\ accesses[x].driverName = ThisDriver => x \in sidecarQueue'
      /\ sw' = SidecarIdle
      /\ UNCHANGED <<accesses, accessCache, controllerEvents, controllerQueue, cw, faults>>
  BY Zenon DEF SidecarRestart, controllerVars
<1>3. /\ accesses \in [AccessName -> Obj \cup {None}]
      /\ freshAccess \in [AccessName -> SUBSET AccessHolder]
  BY Zenon, <1>1 DEF AccessesOK
<1>4. /\ freshAccess' \in [AccessName -> SUBSET AccessHolder]
      /\ \A h \in AccessHolder, x \in AccessName :
           h # "sidecarCache" => (h \in freshAccess'[x] => h \in freshAccess[x])
      /\ \A x \in AccessName : "sidecarWorker" \notin freshAccess'[x]
  BY Zenon, <1>2, <1>3 DEF AccessHolder, Relisted
<1>5. HolderKept("controllerWorker") /\ HolderKept("controllerCache")
  BY Zenon, <1>2, <1>4 DEF HolderKept, AccessHolder
<1>6. AccessesOK'
  BY Zenon, <1>1, <1>2, <1>3, <1>4 DEF AccessesOK
<1>7. CachesOK'
  <2> SUFFICES ASSUME NEW x \in AccessName PROVE CachesCoherent(x)'
    BY Zenon DEF CachesOK
  <2>1. CachesCoherent(x)
    BY Zenon, <1>1 DEF CachesOK
  <2>2. accessCache' = accessCache /\ accesses' = accesses /\ sidecarAccesses' = accesses
    BY Zenon, <1>2
  <2> QED BY Zenon, <1>5, <2>1, <2>2 DEF CachesCoherent, HolderKept
<1>8. SidecarOK'
  <2> SUFFICES ASSUME NEW x \in AccessName
               PROVE  SidecarCoherent(x)' /\ SidecarAttends(x)'
    BY Zenon DEF SidecarOK
  <2>1. SidecarCoherent(x)'
    BY Zenon, <1>4 DEF SidecarCoherent
  <2>2. ForSidecar(accesses[x]) => x \in sidecarQueue'
    <3>1. accesses[x] # None => accesses[x].driverName \in {ThisDriver, None}
      BY Zenon, <1>3, ObjFields
    <3> QED BY Zenon, <1>2, <3>1 DEF ForSidecar
  <2>3. accesses' = accesses /\ sidecarAccesses' = accesses
    BY Zenon, <1>2
  <2> QED BY Zenon, <2>1, <2>2, <2>3 DEF SidecarAttends, SidecarHas
<1>9. ControllerOK'
  BY Zenon, <1>1, <1>2, <1>5, ControllerUndisturbed
<1>10. SidecarHolds(sw)' /\ ControllerHolds(cw)'
  BY Zenon, <1>1, <1>2, SidecarIdleOK
<1>11. ClaimsOK'
  <2>1. /\ sidecarBuckets' = buckets
        /\ UNCHANGED <<claims, freshClaim, buckets, claimCache, bucketCache>>
    BY Zenon DEF SidecarRestart, storedClaims
  <2> QED BY Zenon, <1>1, <2>1 DEF ClaimsOK, ClaimOK
<1>12. SecretsOK'
  <2>1. /\ secretCache' = secrets /\ UNCHANGED secrets
        /\ freshSecret' = Relisted(freshSecret, "cache", "worker")
    BY Zenon DEF SidecarRestart
  <2>2. /\ freshSecret' \in [SecretName -> SUBSET Holder]
        /\ \A s \in SecretName : "worker" \notin freshSecret'[s]
    BY Zenon, <1>1, <2>1 DEF SecretsOK, Holder, Relisted
  <2> QED BY Zenon, <1>1, <2>1, <2>2 DEF SecretsOK, SecretOK
<1>13. CountersOK'
  BY SMTT(60), <1>1, AccessBounds DEF SidecarRestart, CountersOK
<1>14. FaultsOK' /\ StepOK
  BY Zenon, <1>1, <1>2, FaultsUnchanged, StaysItself DEF StepOK
<1> QED
  BY Zenon, <1>6, <1>7, <1>8, <1>9, <1>10, <1>11, <1>12, <1>13, <1>14, InvariantParts

\* The cache of claims catches up.
LEMMA ClaimSyncKeeps ==
    ASSUME IInv, NEW c \in ClaimName, ClaimSync(c) PROVE IInv' /\ StepOK
<1>1. /\ ClaimsOK /\ SecretsOK /\ CountersOK
  BY Zenon, InvariantParts
<1>2. ClaimsOK'
  <2>1. /\ claimCache' = [claimCache EXCEPT ![c] = claims[c]]
        /\ freshClaim' = [freshClaim EXCEPT ![c] = @ \cup {"cache"}]
        /\ UNCHANGED <<claims, buckets, bucketCache, sidecarBuckets>>
    BY Zenon DEF ClaimSync, envVars
  <2>2. /\ freshClaim' \in [ClaimName -> SUBSET Holder]
        /\ claimCache' \in [ClaimName -> ClaimObject \cup {None}]
        /\ \A d \in ClaimName : /\ "worker" \in freshClaim'[d] => "worker" \in freshClaim[d]
                                /\ d # c => /\ freshClaim'[d] = freshClaim[d]
                                            /\ claimCache'[d] = claimCache[d]
        /\ claimCache'[c] = claims[c]
    BY Zenon, <1>1, <2>1 DEF ClaimsOK, Holder
  <2> QED BY Zenon, <1>1, <2>1, <2>2 DEF ClaimsOK, ClaimOK
<1>3. /\ UNCHANGED <<accessVars, controllerVars, sidecarVars, faults>>
      /\ UNCHANGED <<secretVars, counterVars>>
  BY Zenon DEF ClaimSync, accessVars, storedAccesses, accessCaches, secretVars, storedSecrets,
         counterVars, envVars
<1>4. SecretsOK' /\ CountersOK'
  BY Zenon, <1>1, <1>3, SecretsUnchanged, CountersUnchanged
<1> QED BY Zenon, <1>2, <1>3, <1>4, BystanderKeeps

\* A cache of Buckets catches up.
LEMMA BucketSyncKeeps ==
    ASSUME IInv, NEW c \in ClaimName, BucketSync(c) PROVE IInv' /\ StepOK
<1>1. /\ ClaimsOK /\ SecretsOK /\ CountersOK
  BY Zenon, InvariantParts
<1>2. ClaimsOK'
  <2>1. /\ UNCHANGED <<claims, freshClaim, claimCache, buckets>>
        /\ bucketCache' \in [ClaimName -> BucketObject \cup {None}]
        /\ sidecarBuckets' \in [ClaimName -> BucketObject \cup {None}]
    BY SMTT(30), <1>1 DEF BucketSync, storedClaims, envVars, ClaimsOK
  <2> QED BY Zenon, <1>1, <2>1 DEF ClaimsOK, ClaimOK
<1>3. /\ UNCHANGED <<accessVars, controllerVars, sidecarVars, faults>>
      /\ UNCHANGED <<secretVars, counterVars>>
  BY Zenon DEF BucketSync, accessVars, storedAccesses, accessCaches, secretVars, storedSecrets,
         counterVars, envVars
<1>4. SecretsOK' /\ CountersOK'
  BY Zenon, <1>1, <1>3, SecretsUnchanged, CountersUnchanged
<1> QED BY Zenon, <1>2, <1>3, <1>4, BystanderKeeps

\* The cache of Secrets catches up.
LEMMA SecretSyncKeeps ==
    ASSUME IInv, NEW s \in SecretName, SecretSync(s) PROVE IInv' /\ StepOK
<1>1. /\ ClaimsOK /\ SecretsOK /\ CountersOK
  BY Zenon, InvariantParts
<1>2. SecretsOK'
  <2>1. /\ secretCache' = [secretCache EXCEPT ![s] = secrets[s]]
        /\ freshSecret' = [freshSecret EXCEPT ![s] = @ \cup {"cache"}]
        /\ UNCHANGED secrets
    BY Zenon DEF SecretSync
  <2>2. /\ freshSecret' \in [SecretName -> SUBSET Holder]
        /\ secretCache' \in [SecretName -> SecretObject \cup {None}]
        /\ \A t \in SecretName : /\ "worker" \in freshSecret'[t] => "worker" \in freshSecret[t]
                                 /\ t # s => /\ freshSecret'[t] = freshSecret[t]
                                             /\ secretCache'[t] = secretCache[t]
        /\ secretCache'[s] = secrets[s]
    BY SMTT(30), <1>1, <2>1 DEF SecretsOK, Holder
  <2> QED BY Zenon, <1>1, <2>1, <2>2 DEF SecretsOK, SecretOK
<1>3. /\ UNCHANGED <<accessVars, controllerVars, sidecarVars, faults>>
      /\ UNCHANGED <<claimVars, counterVars>>
  BY Zenon DEF SecretSync, accessVars, storedAccesses, accessCaches, claimVars, storedClaims,
         counterVars, envVars
<1>4. ClaimsOK' /\ CountersOK'
  BY Zenon, <1>1, <1>3, ClaimsUnchanged, CountersUnchanged
<1> QED BY Zenon, <1>2, <1>3, <1>4, BystanderKeeps

\* A change of an access by hand.
LEMMA UserStoreKeeps ==
    ASSUME IInv, NEW a \in AccessName, NEW new \in Obj \cup {None}, StoreAccess(a, new),
           freshAccess' = Touch(freshAccess, a), unchangedByUser,
           accesses[a] = None \/ new = None \/
             (SameStatus(accesses[a], new) /\ (accesses[a].deleting => new.deleting)),
           issued' \in 0 .. MaxUid, edits' \in 0 .. MaxEdits
    PROVE  IInv' /\ StepOK
<1>1. /\ AccessesOK /\ ControllerHolds(cw) /\ SidecarHolds(sw) /\ CachesOK /\ ControllerOK
      /\ SidecarOK /\ ClaimsOK /\ SecretsOK /\ CountersOK /\ FaultsOK
  BY Zenon, InvariantParts
<1>2. Stored(a) /\ accesses'[a] = new
  BY Zenon, <1>1, StoreFacts
<1>3. /\ UNCHANGED <<claimVars, secretVars, accessCaches, controllerVars, sidecarVars, faults>>
      /\ UNCHANGED <<accounts, classExists, claimed, restarts>>
  BY Zenon DEF unchangedByUser, claimVars, secretVars, storedClaims, storedSecrets, otherCaches
<1>4. /\ UNCHANGED <<accessCache, controllerQueue, cw>>
      /\ UNCHANGED <<sidecarAccesses, sidecarQueue, sw>>
  BY Zenon, <1>3 DEF accessCaches, controllerVars, sidecarVars
<1>5. MayBecome(accesses[a], accesses'[a])
  <2>1. accesses[a] \in Obj \cup {None}
    BY Zenon, <1>1 DEF AccessesOK
  <2> QED BY Zenon, <1>2, <2>1, ObjFields DEF MayBecome, SameFinal, SameStatus
<1>6. /\ freshAccess' \in [AccessName -> SUBSET AccessHolder]
      /\ \A h \in AccessHolder : HolderKept(h)
  BY Zenon, <1>1, <1>2 DEF AccessesOK, Touch, HolderKept, Stored
<1>7. /\ HolderKept("controllerCache") /\ HolderKept("sidecarCache")
      /\ HolderKept("controllerWorker") /\ HolderKept("sidecarWorker")
  BY Zenon, <1>6 DEF AccessHolder
<1>8. AccessesOK'
  BY Zenon, <1>1, <1>2, <1>4, <1>6 DEF AccessesOK, Stored
<1>9. CachesOK'
  BY Zenon, <1>1, <1>3, <1>7, CachesStay
<1>10. /\ \/ SameStatus(accesses[a], accesses'[a])
          \/ ~ForController(accesses'[a]) \/ ~ForController(accesses[a])
       /\ \/ SameStatus(accesses[a], accesses'[a])
          \/ ~ForSidecar(accesses'[a]) \/ ~ForSidecar(accesses[a])
  BY Zenon, <1>2 DEF ForController, ForSidecar
<1>11. ControllerOK'
  BY Zenon, <1>1, <1>2, <1>4, <1>5, <1>7, <1>10, ControllerStays
<1>12. SidecarOK'
  BY Zenon, <1>1, <1>2, <1>4, <1>5, <1>7, <1>10, SidecarStays
<1>13. ControllerHolds(cw)' /\ SidecarHolds(sw)'
  BY Zenon, <1>1, <1>4
<1>14. ClaimsOK' /\ SecretsOK' /\ FaultsOK'
  BY ZenonT(30), <1>1, <1>3, ClaimsUnchanged, SecretsUnchanged, FaultsUnchanged
<1>15. CountersOK'
  BY Zenon, <1>1, <1>3 DEF CountersOK
<1>16. StepOK
  BY Zenon, <1>2, <1>5, StaysItself DEF StepOK, Stored
<1> QED
  BY Zenon, <1>8, <1>9, <1>11, <1>12, <1>13, <1>14, <1>15, <1>16, InvariantParts

\* A user creates an access.
LEMMA UserCreateAccessKeeps ==
    ASSUME IInv, NEW a \in AccessName, UserCreateAccess(a) PROVE IInv' /\ StepOK
<1>1. PICK spec \in AccessSpec : StoreAccess(a, NewAccess(issued + 1, spec))
  BY Zenon DEF UserCreateAccess
<1>2. PICK new : new = NewAccess(issued + 1, spec)
  BY Zenon
<1>3. /\ issued + 1 \in Uid /\ issued' \in 0 .. MaxUid /\ edits' \in 0 .. MaxEdits
  BY SMTT(60), AccessAssumption, InvariantParts DEF UserCreateAccess, CountersOK, Uid
<1>4. new \in Obj
  <2>1. new \in AccessObject
    BY Zenon, <1>1, <1>2, <1>3 DEF NewAccess, AccessObject, ReadyToUse, Error
  <2>2. WellFormed(new)
    BY Zenon, <1>2 DEF NewAccess, WellFormed
  <2> QED BY Zenon, <2>1, <2>2 DEF Obj
<1>5. new \in Obj \cup {None} /\ StoreAccess(a, new)
  BY Zenon, <1>1, <1>2, <1>4
<1>6. accesses[a] = None /\ freshAccess' = Touch(freshAccess, a) /\ unchangedByUser
  BY Zenon DEF UserCreateAccess
<1> QED BY Zenon, <1>3, <1>5, <1>6, UserStoreKeeps

\* A user deletes an access.
LEMMA UserDeleteAccessKeeps ==
    ASSUME IInv, NEW a \in AccessName, UserDeleteAccess(a) PROVE IInv' /\ StepOK
<1>1. /\ accesses[a] # None /\ StoreAccess(a, Deleted(accesses[a]))
      /\ freshAccess' = Touch(freshAccess, a) /\ unchangedByUser
  BY Zenon DEF UserDeleteAccess
<1>2. PICK x \in Obj : x = accesses[a]
  BY Zenon, <1>1, InvariantParts DEF AccessesOK
<1>3. PICK y : y = [x EXCEPT !.deleting = TRUE]
  BY Zenon
<1>4. y \in Obj /\ y.deleting /\ SameStatus(x, y)
  BY Zenon, <1>2, <1>3, WithDeletion
<1>5. PICK new : new = Persisted(y)
  BY Zenon
<1>6. new \in {y, None} /\ new \in Obj \cup {None}
  BY Zenon, <1>4, <1>5, PersistedObject
<1>7. StoreAccess(a, new)
  BY Zenon, <1>1, <1>2, <1>3, <1>5 DEF Deleted
<1>8. accesses[a] = None \/ new = None \/
        (SameStatus(accesses[a], new) /\ (accesses[a].deleting => new.deleting))
  BY Zenon, <1>2, <1>4, <1>6
<1>9. issued' \in 0 .. MaxUid /\ edits' \in 0 .. MaxEdits
  BY Zenon, InvariantParts DEF UserDeleteAccess, CountersOK
<1> QED BY Zenon, <1>1, <1>6, <1>7, <1>8, <1>9, UserStoreKeeps

\* Somebody changes the finalizer or the override of an access.
LEMMA EditAccessKeeps ==
    ASSUME IInv, NEW a \in AccessName, EditAccess(a) PROVE IInv' /\ StepOK
<1>1. /\ accesses[a] # None
      /\ freshAccess' = Touch(freshAccess, a) /\ unchangedByUser
      /\ \/ StoreAccess(a, Persisted([accesses[a] EXCEPT !.finalizer = FALSE]))
         \/ StoreAccess(a, [accesses[a] EXCEPT !.override = ~@])
  BY Zenon DEF EditAccess
<1>2. PICK x \in Obj : x = accesses[a]
  BY Zenon, <1>1, InvariantParts DEF AccessesOK
<1>3. PICK y : y = [x EXCEPT !.finalizer = FALSE]
  BY Zenon
<1>4. PICK z : z = [x EXCEPT !.override = ~@]
  BY Zenon
<1>5. /\ y \in Obj /\ SameStatus(x, y) /\ y.deleting = x.deleting
      /\ z \in Obj /\ SameStatus(x, z) /\ z.deleting = x.deleting
  BY SMTT(60), <1>2, <1>3, <1>4, WithoutFinalizer, WithAnnotation
<1>6. PICK p : p = Persisted(y)
  BY Zenon
<1>7. p \in {y, None} /\ p \in Obj \cup {None}
  BY Zenon, <1>5, <1>6, PersistedObject
<1>8. PICK new : new \in {p, z} /\ StoreAccess(a, new)
  BY Zenon, <1>1, <1>2, <1>3, <1>4, <1>6
<1>9. /\ new \in Obj \cup {None}
      /\ accesses[a] = None \/ new = None \/
           (SameStatus(accesses[a], new) /\ (accesses[a].deleting => new.deleting))
  BY Zenon, <1>2, <1>5, <1>7, <1>8
<1>10. issued' \in 0 .. MaxUid /\ edits' \in 0 .. MaxEdits
  BY SMTT(60), AccessBounds, InvariantParts DEF EditAccess, CountersOK
<1> QED BY Zenon, <1>1, <1>8, <1>9, <1>10, UserStoreKeeps

\* Somebody changes a Secret.
LEMMA ChangeSecretKeeps ==
    ASSUME IInv, NEW s \in SecretName, ChangeSecret(s) PROVE IInv' /\ StepOK
<1>1. /\ ClaimsOK /\ SecretsOK /\ CountersOK
  BY Zenon, InvariantParts
<1>2. PICK new : new = [owner |-> NoUid, finalizer |-> FALSE, deleting |-> FALSE, data |-> None]
  BY Zenon
<1>3. PICK gone : gone = Deleted(secrets[s])
  BY Zenon
<1>4. /\ \/ secrets' = [secrets EXCEPT ![s] = new]
         \/ secrets[s] # None /\ secrets' = [secrets EXCEPT ![s] = gone]
      /\ freshSecret' = [freshSecret EXCEPT ![s] = {}]
      /\ UNCHANGED secretCache
  BY Zenon, <1>2, <1>3 DEF ChangeSecret, Touch, otherCaches
<1>5. new \in SecretObject
  BY Zenon, <1>2 DEF SecretObject
<1>6. secrets[s] # None => gone \in SecretObject \cup {None}
  <2>1. ASSUME secrets[s] # None PROVE gone \in SecretObject \cup {None}
    <3>1. secrets[s] \in SecretObject
      BY Zenon, <1>1, <2>1 DEF SecretsOK
    <3> QED BY Zenon, <1>3, <3>1, SecretFinalizerType
  <2> QED BY Zenon, <2>1
<1>7. SecretsOK'
  <2>1. /\ secrets' \in [SecretName -> SecretObject \cup {None}]
        /\ freshSecret' \in [SecretName -> SUBSET Holder]
        /\ freshSecret'[s] = {}
        /\ \A t \in SecretName : t # s => /\ secrets'[t] = secrets[t]
                                          /\ freshSecret'[t] = freshSecret[t]
    BY Zenon, <1>1, <1>4, <1>5, <1>6 DEF SecretsOK
  <2> QED BY Zenon, <1>1, <1>4, <2>1 DEF SecretsOK, SecretOK
<1>8. UNCHANGED <<accessVars, controllerVars, sidecarVars, faults>> /\ UNCHANGED claimVars
  BY Zenon DEF ChangeSecret, accessVars, storedAccesses, accessCaches, claimVars, storedClaims,
         otherCaches
<1>9. CountersOK'
  BY SMTT(60), <1>1, AccessBounds DEF ChangeSecret, CountersOK
<1>10. ClaimsOK'
  BY Zenon, <1>1, <1>8, ClaimsUnchanged
<1> QED BY Zenon, <1>7, <1>8, <1>9, <1>10, BystanderKeeps

\* A claim and its Bucket change.
LEMMA ClaimChangeKeeps ==
    ASSUME IInv, NEW c \in ClaimName, NEW k \in ClaimObject \cup {None},
           NEW b \in BucketObject \cup {None}, k # None => (k.bound => b \in BucketObject),
           claims' = [claims EXCEPT ![c] = k], buckets' = [buckets EXCEPT ![c] = b],
           freshClaim' = Touch(freshClaim, c), unchangedByClaims,
           claimed' \subseteq ClaimName, edits' \in 0 .. MaxEdits
    PROVE  IInv' /\ StepOK
<1>1. /\ ClaimsOK /\ SecretsOK /\ CountersOK
  BY Zenon, InvariantParts
<1>2. /\ UNCHANGED <<accessVars, controllerVars, sidecarVars, faults>>
      /\ UNCHANGED <<secretVars, claimCache, bucketCache, sidecarBuckets>>
      /\ UNCHANGED <<accounts, classExists, issued, restarts>>
  BY Zenon DEF unchangedByClaims, accessVars, storedAccesses, accessCaches, secretVars,
         storedSecrets, otherCaches
<1>3. CountersOK'
  BY Zenon, <1>1, <1>2 DEF CountersOK
<1>4. SecretsOK'
  BY Zenon, <1>1, <1>2, SecretsUnchanged
<1>5. ClaimsOK'
  <2>1. /\ claims' \in [ClaimName -> ClaimObject \cup {None}]
        /\ buckets' \in [ClaimName -> BucketObject \cup {None}]
        /\ freshClaim' \in [ClaimName -> SUBSET Holder]
        /\ freshClaim'[c] = {} /\ claims'[c] = k /\ buckets'[c] = b
        /\ \A d \in ClaimName : d # c => /\ claims'[d] = claims[d] /\ buckets'[d] = buckets[d]
                                         /\ freshClaim'[d] = freshClaim[d]
    BY Zenon, <1>1 DEF ClaimsOK, Touch
  <2> QED BY Zenon, <1>1, <1>2, <2>1 DEF ClaimsOK, ClaimOK
<1> QED BY Zenon, <1>2, <1>3, <1>4, <1>5, BystanderKeeps

\* A claim is provisioned.
LEMMA ClaimProceedsKeeps ==
    ASSUME IInv, NEW c \in ClaimName, ClaimProceeds(c) PROVE IInv' /\ StepOK
<1>1. /\ claims \in [ClaimName -> ClaimObject \cup {None}]
      /\ buckets \in [ClaimName -> BucketObject \cup {None}]
      /\ claims[c] # None => (claims[c].bound => buckets[c] \in BucketObject)
      /\ claimed \subseteq ClaimName /\ edits \in 0 .. MaxEdits
  BY Zenon, InvariantParts DEF ClaimsOK, ClaimOK, CountersOK
<1>2. PICK k : k = claims'[c]
  BY Zenon
<1>3. PICK b : b = buckets'[c]
  BY Zenon
<1>4. /\ claims' = [claims EXCEPT ![c] = k] /\ buckets' = [buckets EXCEPT ![c] = b]
      /\ k \in ClaimObject /\ b \in BucketObject \cup {None} /\ (k.bound => b \in BucketObject)
  <2>1. CASE claims' = [claims EXCEPT ![c] = NewClaim] /\ UNCHANGED buckets
    BY Zenon, <1>1, <1>2, <1>3, <2>1 DEF NewClaim, ClaimObject
  <2>2. CASE /\ claims[c] # None
             /\ claims' = [claims EXCEPT ![c].bound = TRUE]
             /\ buckets' = [buckets EXCEPT ![c] = [ReadyBucket EXCEPT !.bucketID = FALSE]]
    <3>1. claims[c] \in ClaimObject
      BY Zenon, <1>1, <2>2
    <3>2. /\ k = [claims[c] EXCEPT !.bound = TRUE] /\ claims' = [claims EXCEPT ![c] = k]
          /\ b = [ReadyBucket EXCEPT !.bucketID = FALSE] /\ buckets' = [buckets EXCEPT ![c] = b]
      BY Zenon, <1>1, <1>2, <1>3, <2>2
    <3>3. b \in BucketObject
      BY Zenon, <3>2 DEF ReadyBucket, BucketObject
    <3> QED BY Zenon, <3>1, <3>2, <3>3 DEF ClaimObject
  <2>3. CASE /\ claims[c] # None /\ claims[c].bound
             /\ claims' = [claims EXCEPT ![c].ready = TRUE, ![c].protocols = ClaimProtocols[c]]
             /\ buckets' = [buckets EXCEPT ![c].bucketID = TRUE]
    <3>1. claims[c] \in ClaimObject /\ buckets[c] \in BucketObject
      BY Zenon, <1>1, <2>3
    <3>2. /\ k = [claims[c] EXCEPT !.ready = TRUE, !.protocols = ClaimProtocols[c]]
          /\ claims' = [claims EXCEPT ![c] = k]
          /\ b = [buckets[c] EXCEPT !.bucketID = TRUE] /\ buckets' = [buckets EXCEPT ![c] = b]
      BY Zenon, <1>1, <1>2, <1>3, <2>3
    <3>3. k \in ClaimObject
      BY Zenon, <3>1, <3>2, AccessAssumption DEF ClaimObject
    <3>4. b \in BucketObject
      BY Zenon, <3>1, <3>2 DEF BucketObject
    <3> QED BY Zenon, <3>2, <3>3, <3>4
  <2> QED BY Zenon, <2>1, <2>2, <2>3 DEF ClaimProceeds
<1>5. k \in ClaimObject \cup {None} /\ claimed' \subseteq ClaimName /\ edits' \in 0 .. MaxEdits
  BY Zenon, <1>1, <1>4 DEF ClaimProceeds
<1>6. freshClaim' = Touch(freshClaim, c) /\ unchangedByClaims
  BY Zenon DEF ClaimProceeds
<1> QED BY ZenonT(30), <1>4, <1>5, <1>6, ClaimChangeKeeps

\* A claim is deleted.
LEMMA ClaimRetiresKeeps ==
    ASSUME IInv, NEW c \in ClaimName, ClaimRetires(c) PROVE IInv' /\ StepOK
<1>1. /\ claims \in [ClaimName -> ClaimObject \cup {None}]
      /\ buckets \in [ClaimName -> BucketObject \cup {None}]
      /\ claims[c] \in ClaimObject
      /\ claims[c].bound => buckets[c] \in BucketObject
      /\ claimed \subseteq ClaimName /\ edits \in 0 .. MaxEdits
  BY Zenon, InvariantParts DEF ClaimRetires, ClaimsOK, ClaimOK, CountersOK
<1>2. PICK k : k = claims'[c]
  BY Zenon
<1>3. PICK b : b = buckets'[c]
  BY Zenon
<1>4. /\ claims' = [claims EXCEPT ![c] = k] /\ buckets' = [buckets EXCEPT ![c] = b]
      /\ k \in ClaimObject \cup {None} /\ b \in BucketObject \cup {None}
      /\ k # None => (k.bound => b \in BucketObject)
  <2>1. CASE claims' = [claims EXCEPT ![c].deleting = TRUE] /\ UNCHANGED buckets
    <3>1. /\ k = [claims[c] EXCEPT !.deleting = TRUE] /\ claims' = [claims EXCEPT ![c] = k]
          /\ b = buckets[c] /\ buckets' = [buckets EXCEPT ![c] = b]
      BY Zenon, <1>1, <1>2, <1>3, <2>1
    <3>2. k \in ClaimObject /\ k.bound = claims[c].bound
      BY Zenon, <1>1, <3>1 DEF ClaimObject
    <3> QED BY Zenon, <1>1, <3>1, <3>2
  <2>2. ASSUME buckets[c] # None, claims' = [claims EXCEPT ![c].ready = FALSE],
               NEW delete \in BOOLEAN,
               buckets' = [buckets EXCEPT ![c].claimDeleting = TRUE, ![c].deleting = delete]
        PROVE  /\ claims' = [claims EXCEPT ![c] = k] /\ buckets' = [buckets EXCEPT ![c] = b]
               /\ k \in ClaimObject \cup {None} /\ b \in BucketObject \cup {None}
               /\ k # None => (k.bound => b \in BucketObject)
    <3>1. /\ k = [claims[c] EXCEPT !.ready = FALSE] /\ claims' = [claims EXCEPT ![c] = k]
          /\ b = [buckets[c] EXCEPT !.claimDeleting = TRUE, !.deleting = delete]
          /\ buckets' = [buckets EXCEPT ![c] = b]
      BY Zenon, <1>1, <1>2, <1>3, <2>2
    <3>2. k \in ClaimObject
      BY Zenon, <1>1, <3>1 DEF ClaimObject
    <3>3. b \in BucketObject
      BY Zenon, <1>1, <2>2, <3>1 DEF BucketObject
    <3> QED BY Zenon, <3>1, <3>2, <3>3
  <2>3. CASE /\ claims' = [claims EXCEPT ![c] = None]
             /\ buckets' = [buckets EXCEPT ![c] =
                  IF @ = None THEN None ELSE IF @.deleting THEN None ELSE @]
    BY Zenon, <1>1, <1>2, <1>3, <2>3
  <2> QED BY Zenon, <2>1, <2>2, <2>3 DEF ClaimRetires
<1>5. claimed' \subseteq ClaimName /\ edits' \in 0 .. MaxEdits
  BY SMTT(60), <1>1, AccessBounds DEF ClaimRetires
<1>6. freshClaim' = Touch(freshClaim, c) /\ unchangedByClaims
  BY Zenon DEF ClaimRetires
<1> QED BY Zenon, <1>4, <1>5, <1>6, ClaimChangeKeeps

\* An admin creates the class.
LEMMA AdminCreateClassKeeps ==
    ASSUME IInv, AdminCreateClass PROVE IInv' /\ StepOK
<1>1. /\ ClaimsOK /\ SecretsOK /\ CountersOK
  BY Zenon, InvariantParts
<1>2. /\ UNCHANGED <<accessVars, controllerVars, sidecarVars, faults>>
      /\ UNCHANGED <<claimVars, secretVars>>
  BY Zenon DEF AdminCreateClass, accessVars, storedAccesses, accessCaches, secretVars,
         storedSecrets, claimVars, storedClaims, otherCaches
<1>3. CountersOK'
  BY Zenon, <1>1 DEF AdminCreateClass, CountersOK
<1>4. ClaimsOK' /\ SecretsOK'
  BY Zenon, <1>1, <1>2, ClaimsUnchanged, SecretsUnchanged
<1> QED BY Zenon, <1>2, <1>3, <1>4, BystanderKeeps
-----------------------------------------------------------------------------
(***************************************************************************)
(* The invariant holds, and what follows from it.                          *)
(***************************************************************************)
\* The initial states.
LEMMA InitOK == Init => IInv
<1> SUFFICES ASSUME Init PROVE IInv
  BY Zenon
<1>1. AccessesOK
  BY Zenon DEF Init, AccessesOK, AccessHolder
<1>2. ControllerHolds(cw) /\ SidecarHolds(sw)
  BY Zenon, ControllerIdleOK, SidecarIdleOK DEF Init
<1>3. CachesOK
  BY Zenon DEF Init, CachesOK, CachesCoherent
<1>4. \A a \in AccessName : /\ accesses[a] = None /\ "controllerWorker" \notin freshAccess[a]
                            /\ "sidecarWorker" \notin freshAccess[a]
  BY Zenon DEF Init
<1>5. ControllerOK /\ SidecarOK
  BY Zenon, <1>4 DEF ControllerOK, ControllerCoherent, ControllerAttends, ForController,
     SidecarOK, SidecarCoherent, SidecarAttends, ForSidecar
<1>6. ClaimsOK
  <2>1. \A c \in ClaimName : ReadyClaim(c) \in ClaimObject
    BY Zenon, AccessAssumption DEF ReadyClaim, NewClaim, ClaimObject
  <2>2. ReadyBucket \in BucketObject
    BY Zenon DEF ReadyBucket, BucketObject
  <2>3. /\ claims \in [ClaimName -> ClaimObject \cup {None}]
        /\ buckets \in [ClaimName -> BucketObject \cup {None}]
        /\ claimCache = claims /\ bucketCache = buckets /\ sidecarBuckets = buckets
        /\ freshClaim = [c \in ClaimName |-> {"cache"}]
        /\ \A c \in ClaimName : claims[c] # None => buckets[c] \in BucketObject
    BY Zenon, <2>1, <2>2 DEF Init
  <2>4. \A c \in ClaimName : ClaimOK(c)
    BY Zenon, <2>3 DEF ClaimOK
  <2> QED BY Zenon, <2>3, <2>4 DEF ClaimsOK, Holder
<1>7. SecretsOK
  BY Zenon DEF Init, SecretsOK, SecretOK, Holder
<1>8. CountersOK /\ FaultsOK
  <2>1. accounts \in [Uid -> SUBSET {BucketID[c] : c \in ClaimName}]
    BY Zenon DEF Init
  <2>2. /\ issued \in 0 .. MaxUid /\ restarts \in 0 .. MaxRestarts
        /\ edits \in 0 .. MaxEdits /\ faults \in 0 .. MaxFaults
    BY SMTT(60), AccessBounds, AccessAssumption DEF Init
  <2>3. classExists \in BOOLEAN /\ claimed \subseteq ClaimName
    BY Zenon, AccessBounds DEF Init
  <2> QED BY Zenon, <2>1, <2>2, <2>3 DEF CountersOK, FaultsOK
<1> QED BY Zenon, <1>1, <1>2, <1>3, <1>5, <1>6, <1>7, <1>8, InvariantParts

\* Every step keeps the invariant, and what it hands over final.
LEMMA NextOK == IInv /\ [Next]_vars => IInv' /\ StepOK
<1> SUFFICES ASSUME IInv, [Next]_vars PROVE IInv' /\ StepOK
  BY Zenon
<1>1. ASSUME NEW a \in AccessName, ControllerStart(a) \/ SidecarStart(a) PROVE IInv' /\ StepOK
  BY Zenon, <1>1, ControllerStartKeeps, SidecarStartKeeps
<1>2. CASE ControllerStep
  <2>1. CASE ControllerMark
    <3>1. cw.pc = "mark" /\ WriteMark(TRUE, "readBuckets")
      BY Zenon, <2>1 DEF ControllerMark
    <3> QED BY Zenon, <3>1, WriteMarkKeeps
  <2>2. CASE ControllerUnmark
    <3>1. cw.pc = "unmark" /\ WriteMark(FALSE, "removeFinalizer")
      BY ZenonT(30), <2>2 DEF ControllerUnmark
    <3> QED BY Zenon, <3>1, WriteMarkKeeps
  <2> QED
    BY Zenon, <1>2, <2>1, <2>2, ControllerAddFinalizerKeeps, ControllerReadClaimsKeeps,
     ControllerReadBucketsKeeps, ControllerHandoffKeeps, ControllerReportKeeps,
     ControllerReadForDeleteKeeps, ControllerRemoveFinalizerKeeps DEF ControllerStep
<1>3. CASE SidecarStep
  BY Zenon, <1>3, SidecarAddFinalizerKeeps, SidecarCheckBucketsKeeps, SidecarReserveKeeps,
     SidecarGrantKeeps, SidecarFillKeeps, SidecarSetReadyKeeps, SidecarReportKeeps,
     SidecarClearStatusKeeps, SidecarUnprotectKeeps, SidecarDeleteSecretKeeps,
     SidecarRevokeKeeps, SidecarFinishKeeps DEF SidecarStep
<1>4. CASE Informers
  BY Zenon, <1>4, ControllerAccessSyncKeeps, SidecarAccessSyncKeeps, ClaimSyncKeeps,
     BucketSyncKeeps, SecretSyncKeeps DEF Informers
<1>5. CASE Environment
  BY Zenon, <1>5, UserCreateAccessKeeps, UserDeleteAccessKeeps, EditAccessKeeps,
     ChangeSecretKeeps, ClaimProceedsKeeps, ClaimRetiresKeeps, AdminCreateClassKeeps,
     ControllerRestartKeeps, SidecarRestartKeeps DEF Environment
<1>6. CASE UNCHANGED vars
  <2>1. /\ UNCHANGED <<accessVars, controllerVars, sidecarVars, faults>>
        /\ UNCHANGED <<claimVars, secretVars, counterVars>>
    BY Zenon, <1>6 DEF vars, accessVars, claimVars, secretVars, counterVars, storedAccesses,
       storedClaims, storedSecrets, accessCaches, otherCaches, envVars
  <2>2. ClaimsOK /\ SecretsOK /\ CountersOK
    BY Zenon, InvariantParts
  <2>3. ClaimsOK' /\ SecretsOK' /\ CountersOK'
    BY Zenon, <2>1, <2>2, ClaimsUnchanged, SecretsUnchanged, CountersUnchanged
  <2> QED BY Zenon, <2>1, <2>3, BystanderKeeps
<1> QED BY Zenon, <1>1, <1>2, <1>3, <1>4, <1>5, <1>6 DEF Next

\* The invariant holds in every reachable state.
LEMMA AlwaysIInv == Spec => []IInv
BY InitOK, NextOK, PTL DEF Spec

\* Every variable of the two BucketAccess reconcilers and of what they share keeps its
\* type, for any number of accesses, claims and Secrets and any number of faults.
THEOREM AccessTypes == Spec => []TypeOK
BY AlwaysIInv, TypesFollow, PTL

\* What the Controller hands over (driver, buckets, authentication type) and the account
\* the Sidecar records never change again while the access lives, whoever writes its
\* status from however old a copy.
THEOREM HandoverIsFinal == Spec => StatusIsFinal
<1>1. StepOK => [\A a \in AccessName :
         LET old == accesses[a]  new == accesses'[a]
         IN  old # None /\ new # None =>
               (old.uid = new.uid /\ old.driverName # None =>
                  /\ new.driverName = old.driverName
                  /\ new.accessedBuckets = old.accessedBuckets
                  /\ new.authenticationType = old.authenticationType
                  /\ old.accountID => new.accountID)]_vars
  BY Zenon DEF StepOK, MayBecome, SameFinal
<1> QED BY <1>1, AlwaysIInv, NextOK, PTL DEF Spec, StatusIsFinal

\* No access is forgotten between the Controller and the Sidecar: one that is not
\* finished is in the work, the queue or the pending events of a process.
THEOREM NothingForgotten == Spec => []NoForgottenAccess
<1>1. IInv => NoForgottenAccess
  <2> SUFFICES ASSUME IInv, NEW a \in AccessName, accesses[a] # None, ~accesses[a].deleting,
                      ~accesses[a].override, Unfinished(accesses[a])
               PROVE  InHand(a)
    BY Zenon DEF NoForgottenAccess, Unfinished
  <2>1. ControllerAttends(a) /\ SidecarAttends(a)
    BY Zenon, InvariantParts DEF ControllerOK, SidecarOK
  <2>2. ForController(accesses[a]) \/ ForSidecar(accesses[a])
    BY Zenon DEF ForController, ForSidecar
  <2>3. ControllerHas(a) \/ SidecarHas(a)
    BY Zenon, <2>1, <2>2 DEF ControllerAttends, SidecarAttends
  <2> QED BY Zenon, <2>3 DEF ControllerHas, SidecarHas, InHand
<1> QED BY <1>1, AlwaysIInv, PTL
=============================================================================
