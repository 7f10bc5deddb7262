------------------------- MODULE AccessLineageProofs ------------------------
(***************************************************************************)
(* Steps preserve what AccessLineage says of the copies of accesses and of *)
(* the marks on claims.                                                    *)
(***************************************************************************)
EXTENDS AccessFacts

(***************************************************************************)
(* What a step does to the copies of accesses.                             *)
(***************************************************************************)
\* A UID goes on naming one access with one spec.
LEMMA UidsKept ==
    ASSUME IInv, IInv', Moves, UidsOK
    PROVE  UidsOK'
<1> SUFFICES ASSUME NEW a \in AccessName, NEW b \in AccessName,
                    NEW x \in Copies(a)', NEW y \in Copies(b)'
             PROVE  /\ x.uid <= issued'
                    /\ x.uid = y.uid => a = b /\ x.spec = y.spec
  BY Zenon DEF UidsOK
<1>1. /\ Derived(a, x) \/ JustMade(a, x)
      /\ Derived(b, y) \/ JustMade(b, y)
  BY Zenon, CopiesCome
<1>2. ASSUME NEW k \in AccessName, NEW z, Derived(k, z)
      PROVE  z.uid \in Nat /\ z.uid <= issued /\ issued \in Nat
  <2>1. PICK w \in Copies(k) : w.uid = z.uid
    BY Zenon, <1>2 DEF Derived
  <2>2. w.uid \in Nat /\ issued \in Nat
    BY Zenon, CopiesTyped DEF Typed
  <2>3. w.uid <= issued
    BY Zenon DEF UidsOK
  <2> QED BY Zenon, <2>1, <2>2, <2>3
<1>3. issued \in Nat /\ (issued' = issued \/ issued' = issued + 1)
  BY SMTT(60), InvariantParts DEF Moves, CountersOK
<1>4. CASE Derived(a, x) /\ Derived(b, y)
  <2>1. x.uid <= issued'
    BY SMTT(60), <1>2, <1>3, <1>4
  <2>2. x.uid = y.uid => a = b /\ x.spec = y.spec
    <3>1. PICK w \in Copies(a) : w.uid = x.uid /\ w.spec = x.spec
      BY Zenon, <1>4 DEF Derived
    <3>2. PICK z \in Copies(b) : z.uid = y.uid /\ z.spec = y.spec
      BY Zenon, <1>4 DEF Derived
    <3>3. w.uid = z.uid => a = b /\ w.spec = z.spec
      BY SMTT(60) DEF UidsOK
    <3> QED BY Zenon, <3>1, <3>2, <3>3
  <2> QED BY Zenon, <2>1, <2>2
<1>5. CASE Derived(a, x) /\ JustMade(b, y)
  <2>1. x.uid <= issued /\ x.uid \in Nat /\ y.uid = issued + 1
    BY Zenon, <1>2, <1>5 DEF JustMade, IsMade
  <2> QED BY SMTT(60), <1>3, <2>1
<1>6. CASE JustMade(a, x) /\ Derived(b, y)
  <2>1. y.uid <= issued /\ y.uid \in Nat /\ x.uid = issued + 1 /\ issued' = issued + 1
    BY Zenon, <1>2, <1>6 DEF JustMade, IsMade
  <2> QED BY SMTT(60), <1>3, <2>1
<1>7. CASE JustMade(a, x) /\ JustMade(b, y)
  <2>1. x.uid = issued' /\ issued' \in Nat
    BY SMTT(60), <1>3, <1>7 DEF JustMade, IsMade
  <2>2. x # None /\ y # None
    BY Zenon DEF Copies
  <2>3. accesses'[a] # accesses[a] /\ accesses'[b] # accesses[b]
    BY Zenon, <1>7, <2>2 DEF JustMade, IsMade
  <2>4. a = b /\ x = y
    BY Zenon, <1>7, <2>3 DEF JustMade, Moves
  <2> QED BY SMTT(60), <2>1, <2>4
<1> QED BY Zenon, <1>1, <1>4, <1>5, <1>6, <1>7

\* Copies stay complete.
LEMMA CompleteKept ==
    ASSUME IInv, IInv', Moves, CopiesComplete
    PROVE  CopiesComplete'
<1> SUFFICES ASSUME NEW a \in AccessName, NEW x \in Copies(a)'
             PROVE  Complete(x)
  BY Zenon DEF CopiesComplete, Complete
<1>1. x # None /\ \/ x = accesses'[a] \/ x = accessCache'[a] \/ x = sidecarAccesses'[a]
                  \/ (cw'.name = a /\ x = cw'.access) \/ (sw'.name = a /\ x = sw'.access)
  BY Zenon DEF Copies
<1>2. \A y : (y = accesses[a] \/ y = accessCache[a] \/ y = sidecarAccesses[a]) /\ y # None
        => Complete(y)
  <2>1. \A y : (y = accesses[a] \/ y = accessCache[a] \/ y = sidecarAccesses[a]) /\ y # None
          => y \in Copies(a)
    BY Zenon DEF Copies
  <2> QED BY Zenon, <2>1 DEF CopiesComplete
<1>3. StoredMoves(a) /\ CacheMoves(a) /\ a # None
  BY Zenon, AccessAssumption DEF Moves
<1>4. CASE x = accesses'[a]
  BY Zenon, <1>1, <1>2, <1>3, <1>4 DEF StoredMoves, Keeps, IsMade, Complete
<1>5. CASE x = accessCache'[a] \/ x = sidecarAccesses'[a]
  BY Zenon, <1>1, <1>2, <1>3, <1>5 DEF CacheMoves
<1>6. CASE cw'.name = a /\ x = cw'.access
  BY Zenon, <1>1, <1>2, <1>3, <1>6 DEF Moves, WorkerMoves
<1>7. CASE sw'.name = a /\ x = sw'.access
  BY Zenon, <1>1, <1>2, <1>3, <1>7 DEF Moves, WorkerMoves
<1> QED BY Zenon, <1>1, <1>4, <1>5, <1>6, <1>7

\* The order of copies, told by values: copy, cached and stored become copy2, cached2
\* and stored2.
LEMMA FollowsStep ==
    ASSUME NEW x, NEW y, NEW y2, NEW bound \in Nat, Follows(x, y),
           x # None => x.uid \in Nat /\ x.uid <= bound,
           y # None => y.uid \in Nat,
           \/ y2 = y \/ y2 = None
           \/ y # None /\ y2.uid = y.uid /\ (y.deleting => y2.deleting)
           \/ y2.uid = bound + 1
    PROVE  Follows(x, y2)
BY SMTT(60) DEF Follows

\* A copy follows itself.
LEMMA FollowsItself ==
    ASSUME NEW x, x # None => x.uid \in Nat PROVE Follows(x, x)
BY SMTT(60) DEF Follows

\* The order of copies is kept.
LEMMA OrderKept ==
    ASSUME IInv, IInv', Moves, UidsOK, OrderOK
    PROVE  OrderOK'
<1> SUFFICES ASSUME NEW a \in AccessName
             PROVE  /\ Follows(accessCache'[a], accesses'[a])
                    /\ Follows(sidecarAccesses'[a], accesses'[a])
                    /\ cw'.name = a => Chain(cw'.access, accessCache'[a], accesses'[a])
                    /\ sw'.name = a => Chain(sw'.access, sidecarAccesses'[a], accesses'[a])
  BY Zenon DEF OrderOK, Chain, Follows
<1>1. /\ issued \in Nat
      /\ \A x \in {accesses[a], accessCache[a], sidecarAccesses[a]} :
           x # None => x.uid \in Nat /\ x.uid <= issued
      /\ cw.name = a => cw.access # None /\ cw.access.uid \in Nat /\ cw.access.uid <= issued
      /\ sw.name = a => sw.access # None /\ sw.access.uid \in Nat /\ sw.access.uid <= issued
  <2>1. \A x \in Copies(a) : x.uid \in Nat /\ x.uid <= issued
    BY Zenon, CopiesTyped DEF UidsOK, Typed
  <2>2. /\ cw.name = a => cw.access \in Obj
        /\ sw.name = a => sw.access \in Obj
    BY Zenon, AccessAssumption, InvariantParts DEF ControllerHolds, SidecarHolds
  <2>3. None \notin Obj
    BY Zenon, AccessAssumption DEF Obj
  <2>4. /\ \A x \in {accesses[a], accessCache[a], sidecarAccesses[a]} :
             x # None => x \in Copies(a)
        /\ cw.name = a => cw.access # None /\ cw.access \in Copies(a)
        /\ sw.name = a => sw.access # None /\ sw.access \in Copies(a)
    BY Zenon, <2>2, <2>3 DEF Copies
  <2>5. issued \in Nat
    BY SMTT(60), InvariantParts DEF CountersOK
  <2> QED BY Zenon, <2>1, <2>4, <2>5
<1>2. StoredMoves(a) /\ CacheMoves(a) /\ a # None
  BY Zenon, AccessAssumption DEF Moves
<1>3. \/ accesses'[a] = accesses[a] \/ accesses'[a] = None
      \/ /\ accesses[a] # None /\ accesses'[a].uid = accesses[a].uid
         /\ (accesses[a].deleting => accesses'[a].deleting)
      \/ accesses'[a].uid = issued + 1
  BY Zenon, <1>2 DEF StoredMoves, Keeps, IsMade
<1>4. /\ Follows(accessCache[a], accesses[a]) /\ Follows(sidecarAccesses[a], accesses[a])
      /\ cw.name = a => Chain(cw.access, accessCache[a], accesses[a])
      /\ sw.name = a => Chain(sw.access, sidecarAccesses[a], accesses[a])
  BY Zenon DEF OrderOK
<1>5. \A x : Follows(x, accesses[a]) /\ (x # None => x.uid \in Nat /\ x.uid <= issued)
               => Follows(x, accesses'[a])
  <2> SUFFICES ASSUME NEW x, Follows(x, accesses[a]),
                      x # None => x.uid \in Nat /\ x.uid <= issued
               PROVE  Follows(x, accesses'[a])
    BY Zenon
  <2> QED BY Zenon, <1>1, <1>3, FollowsStep
<1>6. Follows(accessCache'[a], accesses'[a]) /\ Follows(sidecarAccesses'[a], accesses'[a])
  <2>1. accesses'[a] = accesses[a] => Follows(accesses[a], accesses'[a])
    BY Zenon, <1>1, FollowsItself
  <2> QED BY Zenon, <1>1, <1>2, <1>4, <1>5, <2>1 DEF CacheMoves
<1>7. ASSUME NEW w, NEW v, NEW cache, NEW cached,
             w.name = a => /\ w.access # None /\ w.access.uid \in Nat
                           /\ w.access.uid <= issued
                           /\ Chain(w.access, cache[a], accesses[a]),
             WorkerMoves(w, v, cache), Follows(cache[a], accesses[a]),
             cache[a] # None => cache[a].uid \in Nat /\ cache[a].uid <= issued,
             cached = cache[a] \/ (cached = accesses[a] /\ accesses'[a] = accesses[a]),
             UNCHANGED <<accesses, accessCache, sidecarAccesses>> => cached = cache[a],
             v.name = a
      PROVE  Chain(v.access, cached, accesses'[a])
  <2>1. CASE v.name = w.name /\ Kin(w.access, v.access)
    <3>1. /\ w.access # None /\ w.access.uid \in Nat /\ w.access.uid <= issued
          /\ Chain(w.access, cache[a], accesses[a])
      BY Zenon, <1>7, <2>1
    <3>2. /\ Follows(w.access, accesses'[a]) /\ Follows(w.access, cached)
      BY Zenon, <1>5, <1>7, <3>1 DEF Chain
    <3>3. accesses'[a] # None => (w.access.uid = accesses'[a].uid => cached # None)
      BY SMTT(60), <1>1, <1>3, <1>7, <3>1 DEF Chain
    <3> QED BY Zenon, <2>1, <3>1, <3>2, <3>3 DEF Chain, Follows, Kin
  <2>2. CASE /\ cache[a] # None /\ v.access = cache[a]
             /\ UNCHANGED <<accesses, accessCache, sidecarAccesses>>
    BY Zenon, <1>7, <2>2, FollowsItself DEF Chain
  <2> QED BY Zenon, <1>2, <1>7, <2>1, <2>2 DEF WorkerMoves
<1>8. /\ WorkerMoves(cw, cw', accessCache) /\ WorkerMoves(sw, sw', sidecarAccesses)
  BY Zenon DEF Moves
<1>9. cw'.name = a => Chain(cw'.access, accessCache'[a], accesses'[a])
  BY Zenon, <1>1, <1>2, <1>4, <1>7, <1>8 DEF CacheMoves
<1>10. sw'.name = a => Chain(sw'.access, sidecarAccesses'[a], accesses'[a])
  BY Zenon, <1>1, <1>2, <1>4, <1>7, <1>8 DEF CacheMoves
<1> QED BY Zenon, <1>6, <1>9, <1>10

\* The Controller goes on knowing what it has handed over.
LEMMA KnownKept ==
    ASSUME IInv, IInv', Moves, UidsOK, OrderOK, KnownOK
    PROVE  KnownOK'
<1> SUFFICES ASSUME NEW a \in AccessName, accesses'[a] # None, accesses'[a].driverName # None
             PROVE  /\ accessCache'[a] # None /\ accessCache'[a].uid = accesses'[a].uid
                    /\ cw'.name = a => cw'.access.uid = accesses'[a].uid
  BY Zenon DEF KnownOK
<1>1. StoredMoves(a) /\ CacheMoves(a) /\ a # None
  BY Zenon, AccessAssumption DEF Moves
<1>2. /\ accesses[a] # None /\ accesses'[a].uid = accesses[a].uid
      /\ accesses[a].driverName # None \/ (cw.name = a /\ cw.access.uid = accesses[a].uid)
  BY Zenon, <1>1 DEF StoredMoves, Keeps, IsMade, HandsOver
<1>3. /\ accessCache[a] # None /\ accessCache[a].uid = accesses[a].uid
      /\ cw.name = a => cw.access.uid = accesses[a].uid
  <2>1. CASE accesses[a].driverName # None
    BY Zenon, <1>2, <2>1 DEF KnownOK
  <2>2. CASE cw.name = a /\ cw.access.uid = accesses[a].uid
    <3>1. cw.access \in Obj
      BY Zenon, <1>1, <2>2, InvariantParts DEF ControllerHolds
    <3>2. cw.access # None
      BY Zenon, <3>1, AccessAssumption DEF Obj
    <3>3. /\ Follows(accessCache[a], accesses[a])
          /\ Chain(cw.access, accessCache[a], accesses[a])
      BY Zenon, <2>2 DEF OrderOK
    <3>4. accessCache[a] # None
      BY Zenon, <1>2, <2>2, <3>3 DEF Chain
    <3>5. accessCache[a].uid <= accesses[a].uid /\ accesses[a].uid <= accessCache[a].uid
      BY Zenon, <1>2, <2>2, <3>2, <3>3, <3>4 DEF Chain, Follows
    <3>6. accessCache[a] \in Copies(a) /\ accesses[a] \in Copies(a)
      BY Zenon, <1>2, <3>4 DEF Copies
    <3>7. accessCache[a].uid \in Nat /\ accesses[a].uid \in Nat
      BY Zenon, <3>6, CopiesTyped DEF Typed
    <3>8. accessCache[a].uid = accesses[a].uid
      BY SMTT(60), <3>5, <3>7
    <3> QED BY Zenon, <2>2, <3>4, <3>8
  <2> QED BY Zenon, <1>2, <2>1, <2>2
<1>4. accessCache'[a] # None /\ accessCache'[a].uid = accesses'[a].uid
  BY Zenon, <1>1, <1>2, <1>3 DEF CacheMoves
<1>5. cw'.name = a => cw'.access.uid = accesses'[a].uid
  BY Zenon, <1>1, <1>2, <1>3 DEF Moves, WorkerMoves, Kin
<1> QED BY Zenon, <1>4, <1>5

\* The Sidecar goes on knowing that what it has cleaned up is deleting.
LEMMA GrantsKept ==
    ASSUME IInv, IInv', Moves, OrderOK, CopiesComplete', GrantsOK,
           sw'.pc \in Granting \cup {"addFinalizer"} => ~sw'.access.deleting
    PROVE  GrantsOK'
<1> SUFFICES ASSUME NEW a \in AccessName, accesses'[a] # None, accesses'[a].cleanupFinished
             PROVE  /\ sidecarAccesses'[a] # None /\ sidecarAccesses'[a].uid = accesses'[a].uid
                         => sidecarAccesses'[a].deleting
                    /\ sw'.name = a /\ sw'.access.uid = accesses'[a].uid
                         => sw'.access.deleting
  BY Zenon DEF GrantsOK
<1>1. StoredMoves(a) /\ CacheMoves(a) /\ a # None
  BY Zenon, AccessAssumption DEF Moves
<1>2. /\ accesses[a] # None /\ accesses'[a].uid = accesses[a].uid
      /\ \/ accesses[a].cleanupFinished
         \/ sw.name = a /\ sw.access.uid = accesses[a].uid /\ sw.access.deleting
  <2>1. sw.pc = "finish" => sw.access.deleting
    BY Zenon, InvariantParts DEF SidecarHolds, Cleaning
  <2> QED BY Zenon, <1>1, <2>1 DEF StoredMoves, Keeps, IsMade, HandsBack
<1>3. accesses'[a].deleting
  <2>1. accesses'[a] \in Copies(a)'
    BY Zenon DEF Copies
  <2> QED BY Zenon, <2>1 DEF CopiesComplete, Complete
<1>4. /\ sidecarAccesses[a] # None /\ sidecarAccesses[a].uid = accesses[a].uid
           => sidecarAccesses[a].deleting
      /\ sw.name = a /\ sw.access.uid = accesses[a].uid => sw.access.deleting
  <2>1. CASE accesses[a].cleanupFinished
    BY Zenon, <1>2, <2>1 DEF GrantsOK
  <2>2. CASE sw.name = a /\ sw.access.uid = accesses[a].uid /\ sw.access.deleting
    <3>1. sw.access \in Obj
      BY Zenon, <1>1, <2>2, InvariantParts DEF SidecarHolds
    <3>2. sw.access # None
      BY Zenon, <3>1, AccessAssumption DEF Obj
    <3>3. Follows(sw.access, sidecarAccesses[a])
      BY Zenon, <2>2 DEF OrderOK, Chain
    <3> QED BY Zenon, <2>2, <3>2, <3>3 DEF Follows
  <2> QED BY Zenon, <1>2, <2>1, <2>2
<1>5. sidecarAccesses'[a] # None /\ sidecarAccesses'[a].uid = accesses'[a].uid
        => sidecarAccesses'[a].deleting
  BY Zenon, <1>1, <1>2, <1>3, <1>4 DEF CacheMoves
<1>6. sw'.name = a /\ sw'.access.uid = accesses'[a].uid => sw'.access.deleting
  BY Zenon, <1>1, <1>2, <1>4 DEF Moves, WorkerMoves, Kin
<1> QED BY Zenon, <1>5, <1>6
-----------------------------------------------------------------------------
(***************************************************************************)
(* Current copies.                                                         *)
(***************************************************************************)
\* Moves keep the lineage, if current copies and the Sidecar's worker are taken care of.
LEMMA BaseKept ==
    ASSUME IInv, IInv', Base, Moves, ControllerCurrent', SidecarCurrent',
           sw'.pc \in Granting \cup {"addFinalizer"} => ~sw'.access.deleting
    PROVE  Base'
<1>1. UidsOK' /\ CopiesComplete' /\ OrderOK' /\ KnownOK'
  BY Zenon, UidsKept, CompleteKept, OrderKept, KnownKept DEF Base, Lineage
<1>2. GrantsOK'
  BY Zenon, <1>1, GrantsKept DEF Base, Lineage
<1> QED BY Zenon, <1>1, <1>2 DEF Base, Lineage

\* Nobody disturbs a worker's current copy without outdating it.
LEMMA ControllerCurrentStays ==
    ASSUME ControllerCurrent, HolderKept("controllerWorker"), cw'.access = cw.access
    PROVE  ControllerCurrent'
<1> SUFFICES ASSUME NEW a \in AccessName, "controllerWorker" \in freshAccess'[a]
             PROVE  /\ SameButStatus(accesses'[a], cw'.access)
                    /\ cw'.access.accountID = accesses'[a].accountID
                    /\ cw'.access.readyToUse = "true" => accesses'[a].readyToUse = "true"
  BY Zenon DEF ControllerCurrent, SameButStatus
<1>1. "controllerWorker" \in freshAccess[a] /\ accesses'[a] = accesses[a]
  BY Zenon DEF HolderKept
<1>2. /\ SameButStatus(accesses[a], cw.access)
      /\ cw.access.accountID = accesses[a].accountID
      /\ cw.access.readyToUse = "true" => accesses[a].readyToUse = "true"
  BY Zenon, <1>1 DEF ControllerCurrent
<1> QED BY Zenon, <1>1, <1>2

\* The same for the Sidecar's worker.
LEMMA SidecarCurrentStays ==
    ASSUME SidecarCurrent, HolderKept("sidecarWorker"), sw'.access = sw.access
    PROVE  SidecarCurrent'
<1> SUFFICES ASSUME NEW a \in AccessName, "sidecarWorker" \in freshAccess'[a]
             PROVE  /\ SameButStatus(accesses'[a], sw'.access)
                    /\ accesses'[a].deleting => sw'.access.accountID = accesses'[a].accountID
  BY Zenon DEF SidecarCurrent, SameButStatus
<1>1. "sidecarWorker" \in freshAccess[a] /\ accesses'[a] = accesses[a]
  BY Zenon DEF HolderKept
<1>2. /\ SameButStatus(accesses[a], sw.access)
      /\ accesses[a].deleting => sw.access.accountID = accesses[a].accountID
  BY Zenon, <1>1 DEF SidecarCurrent
<1> QED BY Zenon, <1>1, <1>2

\* A current copy is the stored access unless an error is to be reported.
LEMMA ControllerCurrentIsStored ==
    ASSUME IInv', cw'.pc # "report" PROVE ControllerCurrent'
BY Zenon, InvariantParts DEF ControllerOK, ControllerCoherent, ControllerCurrent, SameButStatus

\* The same for the Sidecar's worker.
LEMMA SidecarCurrentIsStored ==
    ASSUME IInv', sw'.pc # "report" PROVE SidecarCurrent'
BY Zenon, InvariantParts DEF SidecarOK, SidecarCoherent, SidecarCurrent, SameButStatus

\* What a reconcile that fails leaves in its copy.
ControllerLeaves(x, y) ==
    /\ SameButStatus(x, y) /\ y.accountID = x.accountID
    /\ y.readyToUse = "true" => x.readyToUse = "true"
SidecarLeaves(x, y) ==
    SameButStatus(x, y) /\ (x.deleting => y.accountID = x.accountID)

\* A worker that was not reporting before held the stored access itself.
LEMMA ControllerCurrentLeft ==
    ASSUME IInv, HolderKept("controllerWorker"), cw.pc # "report",
           ControllerLeaves(cw.access, cw'.access)
    PROVE  ControllerCurrent'
BY ZenonT(60), InvariantParts DEF ControllerOK, ControllerCoherent, HolderKept, ControllerLeaves,
   ControllerCurrent, SameButStatus

\* The same for the Sidecar's worker.
LEMMA SidecarCurrentLeft ==
    ASSUME IInv, HolderKept("sidecarWorker"), sw.pc # "report",
           SidecarLeaves(sw.access, sw'.access)
    PROVE  SidecarCurrent'
BY ZenonT(60), InvariantParts DEF SidecarOK, SidecarCoherent, HolderKept, SidecarLeaves,
   SidecarCurrent, SameButStatus

\* A worker that stays as it is moves nowhere.
LEMMA ControllerStands ==
    ASSUME IInv, CopiesComplete, cw'.name = cw.name, cw'.access = cw.access
    PROVE  WorkerMoves(cw, cw', accessCache)
<1>1. CASE cw.name = None
  BY Zenon, <1>1 DEF WorkerMoves
<1>2. CASE cw.name # None
  <2>1. cw.name \in AccessName /\ cw.access \in Obj
    BY Zenon, <1>2, InvariantParts DEF ControllerHolds
  <2>2. cw.access \in Copies(cw.name)
    BY Zenon, <2>1, AccessAssumption DEF Copies, Obj
  <2> QED BY Zenon, <2>1, <2>2 DEF WorkerMoves, Kin, CopiesComplete
<1> QED BY Zenon, <1>1, <1>2

\* The same for the Sidecar's worker.
LEMMA SidecarStands ==
    ASSUME IInv, CopiesComplete, sw'.name = sw.name, sw'.access = sw.access
    PROVE  WorkerMoves(sw, sw', sidecarAccesses)
<1>1. CASE sw.name = None
  BY Zenon, <1>1 DEF WorkerMoves
<1>2. CASE sw.name # None
  <2>1. sw.name \in AccessName /\ sw.access \in Obj
    BY Zenon, <1>2, InvariantParts DEF SidecarHolds
  <2>2. sw.access \in Copies(sw.name)
    BY Zenon, <2>1, AccessAssumption DEF Copies, Obj
  <2> QED BY Zenon, <2>1, <2>2 DEF WorkerMoves, Kin, CopiesComplete
<1> QED BY Zenon, <1>1, <1>2
-----------------------------------------------------------------------------
(***************************************************************************)
(* Writes of accesses.                                                     *)
(***************************************************************************)
\* A worker's write changes one stored access.
LEMMA WriteMoves ==
    ASSUME IInv, NEW a \in AccessName, NEW o, NEW obj, NEW w, NEW done,
           Written(o, a, obj, w, done),
           w \in freshAccess[a] =>
             obj \in Obj /\ accesses[a] # None /\ Keeps(a, accesses[a], obj)
    PROVE  /\ \A b, c \in AccessName :
                accesses'[b] # accesses[b] /\ accesses'[c] # accesses[c] => b = c
           /\ \A b \in AccessName : StoredMoves(b)
<1>1. \A b \in AccessName : b # a => accesses'[b] = accesses[b]
  BY Zenon DEF Written, Stored
<1>2. StoredMoves(a)
  <2>1. CASE ~Applied(o)
    BY Zenon, <2>1 DEF Written, StoredMoves
  <2>2. CASE Applied(o)
    <3>1. obj \in Obj /\ accesses[a] # None /\ Keeps(a, accesses[a], obj)
      BY Zenon, <2>2 DEF Written
    <3>2. accesses'[a] \in {obj, None}
      BY Zenon, <2>2, <3>1, PersistedObject DEF Written
    <3> QED BY Zenon, <3>1, <3>2 DEF StoredMoves
  <2> QED BY Zenon, <2>1, <2>2
<1> QED BY Zenon, <1>1, <1>2 DEF StoredMoves

\* A write of the Controller's worker.
LEMMA ControllerWriteBase ==
    ASSUME IInv, IInv', Base, cw.pc # "idle", NEW a, a = cw.name,
           NEW o, NEW obj, NEW done, Written(o, a, obj, "controllerWorker", done),
           unchangedByController,
           "controllerWorker" \in freshAccess[a] => obj \in Obj /\ Keeps(a, accesses[a], obj),
           \/ cw'.pc = "idle"
           \/ /\ cw'.name = a /\ Kin(cw.access, cw'.access) /\ Complete(cw'.access)
              /\ \/ o = "ok" /\ cw'.pc # "report"
                 \/ o # "ok" /\ cw.pc # "report" /\ ControllerLeaves(cw.access, cw'.access)
    PROVE  Base' /\ Moves
<1>1. a \in AccessName
  BY Zenon, InvariantParts DEF ControllerHolds
<1>2. UNCHANGED <<accessCache, sidecarAccesses, sw, issued>>
  BY Zenon DEF unchangedByController, accessCaches, sidecarVars, envVars
<1>3. "controllerWorker" \in freshAccess[a] => accesses[a] # None
  BY Zenon, <1>1, InvariantParts DEF ControllerOK, ControllerCoherent
<1>4. HolderKept("sidecarWorker")
  BY Zenon, OthersKept DEF Written, AccessHolder
<1>5. cw'.pc = "idle" => cw'.name = None
  BY Zenon, InvariantParts DEF ControllerHolds
<1>6. Moves
  <2>1. WorkerMoves(cw, cw', accessCache)
    BY Zenon, <1>5 DEF WorkerMoves
  <2>2. WorkerMoves(sw, sw', sidecarAccesses)
    BY Zenon, <1>2, SidecarStands DEF Base, Lineage
  <2>3. \A b \in AccessName : CacheMoves(b)
    BY Zenon, <1>2 DEF CacheMoves
  <2> QED BY Zenon, <1>1, <1>2, <1>3, <2>1, <2>2, <2>3, WriteMoves DEF Moves
<1>7. ControllerCurrent'
  <2>1. CASE cw'.pc # "report"
    BY Zenon, <2>1, ControllerCurrentIsStored
  <2>2. CASE o # "ok" /\ cw.pc # "report" /\ ControllerLeaves(cw.access, cw'.access)
    <3>1. HolderKept("controllerWorker")
      BY Zenon, <1>1, <2>2 DEF Written, Stored, OnlyWriter, HolderKept, AccessHolder
    <3> QED BY Zenon, <2>2, <3>1, ControllerCurrentLeft
  <2>3. "idle" # "report"
    BY Zenon
  <2> QED BY Zenon, <2>1, <2>2, <2>3
<1>8. SidecarCurrent'
  BY Zenon, <1>2, <1>4, SidecarCurrentStays DEF Base, Lineage
<1>9. sw'.pc \in Granting \cup {"addFinalizer"} => ~sw'.access.deleting
  BY Zenon, <1>2 DEF Base, GrantsOK
<1> QED BY Zenon, <1>6, <1>7, <1>8, <1>9, BaseKept

\* A write of the Sidecar's worker.
LEMMA SidecarWriteBase ==
    ASSUME IInv, IInv', Base, sw.pc # "idle", NEW a, a = sw.name,
           NEW o, NEW obj, NEW done, Written(o, a, obj, "sidecarWorker", done),
           unchangedBySidecar,
           "sidecarWorker" \in freshAccess[a] => obj \in Obj /\ Keeps(a, accesses[a], obj),
           \/ sw'.pc = "idle"
           \/ /\ sw'.name = a /\ Kin(sw.access, sw'.access) /\ Complete(sw'.access)
              /\ \/ o = "ok" /\ sw'.pc # "report"
                 \/ o # "ok" /\ sw.pc # "report" /\ SidecarLeaves(sw.access, sw'.access),
           sw'.pc \in Granting \cup {"addFinalizer"} => ~sw'.access.deleting
    PROVE  Base' /\ Moves
<1>1. a \in AccessName
  BY Zenon, InvariantParts DEF SidecarHolds
<1>2. UNCHANGED <<accessCache, sidecarAccesses, cw, issued>>
  BY Zenon DEF unchangedBySidecar, accessCaches, controllerVars, envVars
<1>3. "sidecarWorker" \in freshAccess[a] => accesses[a] # None
  BY Zenon, <1>1, InvariantParts DEF SidecarOK, SidecarCoherent
<1>4. HolderKept("controllerWorker")
  BY Zenon, OthersKept DEF Written, AccessHolder
<1>5. sw'.pc = "idle" => sw'.name = None
  BY Zenon, InvariantParts DEF SidecarHolds
<1>6. Moves
  <2>1. WorkerMoves(sw, sw', sidecarAccesses)
    BY Zenon, <1>5 DEF WorkerMoves
  <2>2. WorkerMoves(cw, cw', accessCache)
    BY Zenon, <1>2, ControllerStands DEF Base, Lineage
  <2>3. \A b \in AccessName : CacheMoves(b)
    BY Zenon, <1>2 DEF CacheMoves
  <2> QED BY Zenon, <1>1, <1>2, <1>3, <2>1, <2>2, <2>3, WriteMoves DEF Moves
<1>7. SidecarCurrent'
  <2>1. CASE sw'.pc # "report"
    BY Zenon, <2>1, SidecarCurrentIsStored
  <2>2. CASE o # "ok" /\ sw.pc # "report" /\ SidecarLeaves(sw.access, sw'.access)
    <3>1. HolderKept("sidecarWorker")
      BY Zenon, <1>1, <2>2 DEF Written, Stored, OnlyWriter, HolderKept, AccessHolder
    <3> QED BY Zenon, <2>2, <3>1, SidecarCurrentLeft
  <2>3. "idle" # "report"
    BY Zenon
  <2> QED BY Zenon, <2>1, <2>2, <2>3
<1>8. ControllerCurrent'
  BY Zenon, <1>2, <1>4, ControllerCurrentStays DEF Base, Lineage
<1> QED BY Zenon, <1>6, <1>7, <1>8, BaseKept

\* The workers' copies are copies.
LEMMA ControllerHasCopy ==
    ASSUME IInv, Base, cw.pc # "idle"
    PROVE  /\ cw.name \in AccessName /\ cw.access \in Obj /\ cw.access \in Copies(cw.name)
           /\ Complete(cw.access) /\ cw \in ControllerWorker
<1>1. cw.name \in AccessName /\ cw.access \in Obj /\ cw \in ControllerWorker
  BY Zenon, InvariantParts DEF ControllerHolds
<1>2. cw.access \in Copies(cw.name)
  BY Zenon, <1>1, AccessAssumption DEF Copies, Obj
<1> QED BY Zenon, <1>1, <1>2 DEF Base, Lineage, CopiesComplete

\* What is complete and changed only otherwise stays complete.
LEMMA StaysComplete ==
    ASSUME NEW x, NEW y, Complete(x), y.spec = x.spec, x.deleting => y.deleting,
           y.cleanupFinished = x.cleanupFinished, y.driverName = x.driverName,
           y.accessedBuckets = x.accessedBuckets
    PROVE  Complete(y)
BY Zenon DEF Complete, References

\* An access with another finalizer.
OtherFinalizer(x, y) ==
    /\ y \in Obj /\ Kin(x, y) /\ SameStatus(x, y) /\ y.cleanupFinished = x.cleanupFinished
    /\ y.override = x.override

\* Setting or removing the finalizer changes nothing else.
LEMMA FinalizerSet ==
    ASSUME NEW x \in Obj, NEW v \in BOOLEAN, NEW y, y = [x EXCEPT !.finalizer = v]
    PROVE  OtherFinalizer(x, y)
BY Zenon DEF Obj, AccessObject, WellFormed, SameStatus, Kin, OtherFinalizer

\* So it is a change that any holder of a current copy may make.
LEMMA FinalizerKeeps ==
    ASSUME NEW a, NEW x, NEW y, Complete(x), OtherFinalizer(x, y)
    PROVE  Keeps(a, x, y) /\ Complete(y)
BY Zenon, StaysComplete DEF OtherFinalizer, Keeps, Kin, SameStatus

\* The Controller adds its finalizer.
LEMMA ControllerAddFinalizerBase ==
    ASSUME IInv, IInv', Base, ControllerAddFinalizer PROVE Base' /\ Moves
<1>1. PICK obj : obj = [cw.access EXCEPT !.finalizer = TRUE]
  BY Zenon
<1>2. PICK o \in Outcome :
        /\ WriteAccess(o, cw.name, obj, FALSE, "controllerWorker", FALSE)
        /\ cw' = IF o = "ok" THEN [cw EXCEPT !.pc = "readClaims", !.access = obj]
                             ELSE FailController(cw, "retry")
  BY Zenon, <1>1 DEF ControllerAddFinalizer
<1>3. cw.pc = "addFinalizer" /\ cw.pc # "idle" /\ cw.pc # "report" /\ unchangedByController
  BY Zenon DEF ControllerAddFinalizer
<1>4. /\ cw.name \in AccessName /\ cw.access \in Obj
      /\ Complete(cw.access) /\ cw \in ControllerWorker
  BY Zenon, <1>3, ControllerHasCopy
<1>5. OtherFinalizer(cw.access, obj) /\ obj \in Obj
  BY Zenon, <1>1, <1>4, FinalizerSet DEF OtherFinalizer
<1>6. Written(o, cw.name, obj, "controllerWorker", FALSE)
  BY Zenon, <1>2, <1>4, <1>5, IsWritten DEF AccessHolder
<1>7. /\ "controllerWorker" \in freshAccess[cw.name] => Keeps(cw.name, accesses[cw.name], obj)
      /\ Complete(obj)
  BY Zenon, <1>3, <1>4, <1>5, ControllerCopy, FinalizerKeeps
<1>8. CASE o = "ok"
  <2>1. cw'.name = cw.name /\ cw'.access = obj /\ cw'.pc = "readClaims" /\ cw'.pc # "report"
    BY Zenon, <1>2, <1>4, <1>8 DEF ControllerWorker
  <2> QED BY Zenon, <1>3, <1>5, <1>6, <1>7, <1>8, <2>1, ControllerWriteBase
        DEF OtherFinalizer
<1>9. CASE o # "ok"
  <2>1. cw'.name = cw.name /\ cw'.access = cw.access
    BY ZenonT(60), <1>2, <1>4, <1>9, FailControllerOK DEF Error
  <2>2. Kin(cw.access, cw'.access) /\ ControllerLeaves(cw.access, cw'.access)
    BY Zenon, <2>1 DEF Kin, ControllerLeaves, SameButStatus
  <2> QED BY Zenon, <1>3, <1>4, <1>5, <1>6, <1>7, <1>9, <2>1, <2>2, ControllerWriteBase
<1> QED BY Zenon, <1>8, <1>9

\* The Controller removes its finalizer.
LEMMA ControllerRemoveFinalizerBase ==
    ASSUME IInv, IInv', Base, ControllerRemoveFinalizer PROVE Base' /\ Moves
<1>1. PICK obj : obj = [cw.access EXCEPT !.finalizer = FALSE]
  BY Zenon
<1>2. PICK o \in Outcome :
        /\ WriteAccess(o, cw.name, obj, FALSE, "controllerWorker", o = "ok")
        /\ cw' = IF o = "ok" THEN ControllerIdle ELSE FailController(cw, "retry")
  BY Zenon, <1>1 DEF ControllerRemoveFinalizer
<1>3. cw.pc = "removeFinalizer" /\ cw.pc # "idle" /\ cw.pc # "report" /\ unchangedByController
  BY Zenon DEF ControllerRemoveFinalizer
<1>4. /\ cw.name \in AccessName /\ cw.access \in Obj
      /\ Complete(cw.access) /\ cw \in ControllerWorker
  BY Zenon, <1>3, ControllerHasCopy
<1>5. OtherFinalizer(cw.access, obj) /\ obj \in Obj
  BY Zenon, <1>1, <1>4, FinalizerSet DEF OtherFinalizer
<1>6. Written(o, cw.name, obj, "controllerWorker", o = "ok")
  BY Zenon, <1>2, <1>4, <1>5, IsWritten DEF AccessHolder
<1>7. "controllerWorker" \in freshAccess[cw.name] => Keeps(cw.name, accesses[cw.name], obj)
  BY Zenon, <1>3, <1>4, <1>5, ControllerCopy, FinalizerKeeps
<1>8. CASE o = "ok"
  <2>1. cw'.pc = "idle"
    BY Zenon, <1>2, <1>8, ControllerIdleOK
  <2> QED BY Zenon, <1>3, <1>5, <1>6, <1>7, <2>1, ControllerWriteBase
<1>9. CASE o # "ok"
  <2>1. cw'.name = cw.name /\ cw'.access = cw.access
    BY Zenon, <1>2, <1>4, <1>9, FailControllerOK DEF Error
  <2>2. Kin(cw.access, cw'.access) /\ ControllerLeaves(cw.access, cw'.access)
    BY Zenon, <2>1 DEF Kin, ControllerLeaves, SameButStatus
  <2> QED BY Zenon, <1>3, <1>4, <1>5, <1>6, <1>7, <1>9, <2>1, <2>2, ControllerWriteBase
<1> QED BY Zenon, <1>8, <1>9

\* A status that is complete for a spec is written to an access with that spec.
LEMMA StatusKeeps ==
    ASSUME NEW a, NEW x \in Obj, NEW local \in Obj, NEW y, y = SetAccessStatus(x, local),
           Complete(x), Complete(local), local.spec = x.spec,
           x.deleting => local.accountID = x.accountID,
           x.driverName = None /\ local.driverName # None => HandsOver(a, x),
           local.readyToUse = "true" /\ x.readyToUse # "true" => MakesReady(a, x)
    PROVE  y \in Obj /\ Keeps(a, x, y)
<1>1. y \in Obj /\ SameMetadata(x, y) /\ SameStatus(local, y)
  BY Zenon, WithStatus
<1>2. Complete(y)
  <2>1. y.cleanupFinished => y.deleting
    BY Zenon, <1>1 DEF SameMetadata, Complete
  <2>2. y.driverName # None => y.accessedBuckets = References(y)
    BY Zenon, <1>1 DEF SameMetadata, SameStatus, Complete, References
  <2> QED BY Zenon, <2>1, <2>2 DEF Complete
<1> QED BY Zenon, <1>1, <1>2 DEF SameMetadata, SameStatus, Keeps

\* The copy of a reconcile that fails to hand over.
LEMMA HandedOverLeaves ==
    ASSUME NEW x \in Obj, Complete(x), NEW y,
           y = [x EXCEPT !.readyToUse = NotNil(@), !.accessedBuckets = References(x),
                         !.driverName = Class.driverName,
                         !.authenticationType = Class.authenticationType, !.error = "none"]
    PROVE  /\ y \in Obj /\ Kin(x, y) /\ ControllerLeaves(x, y) /\ Complete(y)
           /\ y.driverName # None
<1>1. y \in Obj /\ SameMetadata(x, y) /\ y.driverName # None
  BY Zenon, HandedOver
<1>2. y.accountID = x.accountID /\ y.accessedBuckets = References(x)
      /\ y.readyToUse = NotNil(x.readyToUse)
  BY Zenon DEF Obj, AccessObject
<1>3. y.readyToUse = "true" => x.readyToUse = "true"
  BY SMTT(60), <1>2, ObjFields DEF NotNil, ReadyToUse
<1>4. Complete(y)
  BY Zenon, <1>1, <1>2 DEF Complete, SameMetadata, References
<1> QED BY Zenon, <1>1, <1>2, <1>3, <1>4 DEF SameMetadata, Kin, ControllerLeaves, SameButStatus

\* The Controller hands an access over.
LEMMA ControllerHandoffBase ==
    ASSUME IInv, IInv', Base, ControllerHandoff PROVE Base' /\ Moves
<1>1. PICK local : local = [cw.access EXCEPT !.readyToUse = NotNil(@),
                        !.accessedBuckets = References(cw.access),
                        !.driverName = Class.driverName,
                        !.authenticationType = Class.authenticationType,
                        !.error = "none"]
  BY Zenon
<1>2. PICK obj : obj = SetAccessStatus(accesses[cw.name], local)
  BY Zenon
<1>3. PICK o \in Outcome :
        /\ WriteAccess(o, cw.name, obj, FALSE, "controllerWorker", o = "ok")
        /\ cw' = IF o = "ok" THEN ControllerIdle
                 ELSE FailController([cw EXCEPT !.access = local], "retry")
  BY Zenon, <1>1, <1>2 DEF ControllerHandoff
<1>4. cw.pc = "handoff" /\ cw.pc # "idle" /\ cw.pc # "report" /\ unchangedByController
  BY Zenon DEF ControllerHandoff
<1>5. /\ cw.name \in AccessName /\ cw.access \in Obj
      /\ Complete(cw.access) /\ cw \in ControllerWorker
  BY Zenon, <1>4, ControllerHasCopy
<1>6. /\ local \in Obj /\ Kin(cw.access, local) /\ ControllerLeaves(cw.access, local)
      /\ Complete(local)
  BY Zenon, <1>1, <1>5, HandedOverLeaves
<1>7. "controllerWorker" \in freshAccess[cw.name] =>
        obj \in Obj /\ Keeps(cw.name, accesses[cw.name], obj)
  <2> SUFFICES ASSUME "controllerWorker" \in freshAccess[cw.name]
               PROVE  obj \in Obj /\ Keeps(cw.name, accesses[cw.name], obj)
    BY Zenon
  <2>1. cw.access = accesses[cw.name]
    BY Zenon, <1>4, ControllerCopy
  <2>2. /\ local.spec = accesses[cw.name].spec
        /\ local.accountID = accesses[cw.name].accountID
        /\ local.readyToUse = "true" => accesses[cw.name].readyToUse = "true"
    BY Zenon, <1>6, <2>1 DEF Kin, ControllerLeaves
  <2>3. HandsOver(cw.name, accesses[cw.name])
    BY Zenon, <1>4, <2>1 DEF HandsOver
  <2> QED BY Zenon, <1>2, <1>5, <1>6, <2>1, <2>2, <2>3, StatusKeeps
<1>8. Written(o, cw.name, obj, "controllerWorker", o = "ok")
  BY Zenon, <1>3, <1>5, <1>7, IsWritten DEF AccessHolder
<1>9. CASE o = "ok"
  <2>1. cw'.pc = "idle"
    BY Zenon, <1>3, <1>9, ControllerIdleOK
  <2> QED BY Zenon, <1>4, <1>7, <1>8, <2>1, ControllerWriteBase
<1>10. CASE o # "ok"
  <2>1. PICK w : w = [cw EXCEPT !.access = local]
    BY Zenon
  <2>2. w \in ControllerWorker /\ w.name = cw.name /\ w.access = local
    BY Zenon, <1>5, <1>6, <2>1 DEF ControllerWorker, Obj
  <2>3. cw'.name = cw.name /\ cw'.access = local
    <3>1. cw' = FailController(w, "retry")
      BY Zenon, <1>3, <1>10, <2>1
    <3>2. w.name \in AccessName /\ w.access \in Obj /\ "retry" \in Error
      BY Zenon, <1>5, <1>6, <2>2 DEF Error
    <3> QED BY ZenonT(60), <2>2, <3>1, <3>2, FailControllerOK
  <2> QED BY Zenon, <1>4, <1>6, <1>7, <1>8, <1>10, <2>3, ControllerWriteBase
<1> QED BY Zenon, <1>9, <1>10

\* A status with an error in it.
Erroneous(x, y) ==
    /\ y \in Obj /\ Complete(y) /\ SameMetadata(x, y) /\ y.driverName = x.driverName
    /\ y.accountID = x.accountID
    /\ y.readyToUse = "true" => x.readyToUse = "true"

\* An error report leaves an access complete.
LEMMA WithErrorComplete ==
    ASSUME NEW x \in Obj, Complete(x), NEW e \in Error, NEW y,
           y = [x EXCEPT !.readyToUse = NotNil(@), !.error = e]
    PROVE  Erroneous(x, y)
<1>1. y \in Obj /\ SameMetadata(x, y) /\ SameFinal(x, y)
  BY Zenon, WithError
<1>2. y.accountID = x.accountID /\ y.readyToUse = NotNil(x.readyToUse)
  BY Zenon DEF Obj, AccessObject
<1>3. y.readyToUse = "true" => x.readyToUse = "true"
  BY SMTT(60), <1>2, ObjFields DEF NotNil, ReadyToUse
<1>4. Complete(y)
  BY Zenon, <1>1, StaysComplete DEF SameMetadata, SameFinal
<1> QED BY Zenon, <1>1, <1>2, <1>3, <1>4 DEF SameFinal, Erroneous

\* The Controller records an error.
LEMMA ControllerReportBase ==
    ASSUME IInv, IInv', Base, ControllerReport PROVE Base' /\ Moves
<1>1. PICK local : local = [cw.access EXCEPT !.readyToUse = NotNil(@), !.error = cw.error]
  BY Zenon
<1>2. PICK obj : obj = SetAccessStatus(accesses[cw.name], local)
  BY Zenon
<1>3. PICK o \in Outcome : WriteAccess(o, cw.name, obj, TRUE, "controllerWorker", TRUE)
  BY Zenon, <1>1, <1>2 DEF ControllerReport
<1>4. /\ cw.pc = "report" /\ cw.pc # "idle" /\ unchangedByController /\ cw' = ControllerIdle
  BY Zenon DEF ControllerReport
<1>5. /\ cw.name \in AccessName /\ cw.access \in Obj
      /\ Complete(cw.access) /\ cw \in ControllerWorker
  BY Zenon, <1>4, ControllerHasCopy
<1>6. cw.error \in Error
  BY Zenon, <1>5 DEF ControllerWorker
<1>7. /\ local \in Obj /\ Complete(local) /\ SameMetadata(cw.access, local)
      /\ local.driverName = cw.access.driverName /\ local.accountID = cw.access.accountID
      /\ local.readyToUse = "true" => cw.access.readyToUse = "true"
  <2>1. Erroneous(cw.access, local)
    BY Zenon, <1>1, <1>5, <1>6, WithErrorComplete
  <2> QED BY Zenon, <2>1 DEF Erroneous
<1>8. "controllerWorker" \in freshAccess[cw.name] =>
        obj \in Obj /\ Keeps(cw.name, accesses[cw.name], obj)
  <2> SUFFICES ASSUME "controllerWorker" \in freshAccess[cw.name]
               PROVE  obj \in Obj /\ Keeps(cw.name, accesses[cw.name], obj)
    BY Zenon
  <2>1. SameButStatus(accesses[cw.name], cw.access) /\ accesses[cw.name] # None
    BY Zenon, <1>5, InvariantParts DEF Base, Lineage, ControllerCurrent, ControllerOK,
       ControllerCoherent
  <2>2. accesses[cw.name] \in Obj
    BY Zenon, <1>5, <2>1, InvariantParts DEF AccessesOK
  <2>3. accesses[cw.name] \in Copies(cw.name)
    BY Zenon, <2>1 DEF Copies
  <2>4. Complete(accesses[cw.name])
    BY Zenon, <1>5, <2>3 DEF Base, Lineage, CopiesComplete
  <2>5. /\ local.spec = accesses[cw.name].spec /\ cw.access.uid = accesses[cw.name].uid
        /\ cw.access.spec = accesses[cw.name].spec
    BY Zenon, <1>7, <2>1 DEF SameMetadata, SameButStatus
  <2>6. /\ local.accountID = accesses[cw.name].accountID
        /\ local.readyToUse = "true" => accesses[cw.name].readyToUse = "true"
    BY Zenon, <1>5, <1>7 DEF Base, Lineage, ControllerCurrent
  <2>7. local.driverName # None => HandsOver(cw.name, accesses[cw.name])
    BY Zenon, <1>4, <1>7, <2>5 DEF HandsOver
  <2> QED BY Zenon, <1>2, <1>7, <2>2, <2>4, <2>5, <2>6, <2>7, StatusKeeps
<1>9. Written(o, cw.name, obj, "controllerWorker", TRUE)
  BY Zenon, <1>3, <1>5, <1>8, IsWritten DEF AccessHolder
<1>10. cw'.pc = "idle"
  BY Zenon, <1>4, ControllerIdleOK
<1> QED BY Zenon, <1>4, <1>8, <1>9, <1>10, ControllerWriteBase
-----------------------------------------------------------------------------
(***************************************************************************)
(* Steps that write no access.                                             *)
(***************************************************************************)
\* A worker goes on with its copy, or drops it.
ControllerDrops == cw'.pc = "idle" \/ (cw'.name = cw.name /\ cw'.access = cw.access)
SidecarDrops == sw'.pc = "idle" \/ (sw'.name = sw.name /\ sw'.access = sw.access)

\* Accesses and their cached copies stay, and the workers go on with theirs.
LEMMA QuietBase ==
    ASSUME IInv, IInv', Base, UNCHANGED <<accesses, accessCache, sidecarAccesses, issued>>,
           HolderKept("controllerWorker"), HolderKept("sidecarWorker"),
           ControllerDrops, SidecarDrops,
           sw'.pc \in Granting \cup {"addFinalizer"} => ~sw'.access.deleting
    PROVE  Base' /\ Moves
<1>1. /\ cw'.pc = "idle" => cw'.name = None
      /\ sw'.pc = "idle" => sw'.name = None
  BY Zenon, InvariantParts DEF ControllerHolds, SidecarHolds
<1>2. Moves
  <2>1. WorkerMoves(cw, cw', accessCache)
    <3>1. CASE cw'.pc = "idle"
      BY Zenon, <1>1, <3>1 DEF WorkerMoves
    <3>2. CASE cw'.name = cw.name /\ cw'.access = cw.access
      BY Zenon, <3>2, ControllerStands DEF Base, Lineage
    <3> QED BY Zenon, <3>1, <3>2 DEF ControllerDrops
  <2>2. WorkerMoves(sw, sw', sidecarAccesses)
    <3>1. CASE sw'.pc = "idle"
      BY Zenon, <1>1, <3>1 DEF WorkerMoves
    <3>2. CASE sw'.name = sw.name /\ sw'.access = sw.access
      BY Zenon, <3>2, SidecarStands DEF Base, Lineage
    <3> QED BY Zenon, <3>1, <3>2 DEF SidecarDrops
  <2>3. \A b \in AccessName : StoredMoves(b) /\ CacheMoves(b)
    BY Zenon DEF CacheMoves, StoredMoves
  <2> QED BY Zenon, <2>1, <2>2, <2>3 DEF Moves
<1>3. "idle" # "report"
  BY Zenon
<1>4. ControllerCurrent'
  BY Zenon, <1>3, ControllerCurrentStays, ControllerCurrentIsStored
     DEF ControllerDrops, Base, Lineage
<1>5. SidecarCurrent'
  BY Zenon, <1>3, SidecarCurrentStays, SidecarCurrentIsStored
     DEF SidecarDrops, Base, Lineage
<1> QED BY Zenon, <1>2, <1>4, <1>5, BaseKept

\* A step that concerns neither accesses nor workers.
LEMMA ElsewhereBase ==
    ASSUME IInv, IInv', Base, UNCHANGED <<accessVars, cw, sw, issued>>
    PROVE  Base' /\ Moves
<1>1. UNCHANGED <<accesses, accessCache, sidecarAccesses, freshAccess, cw, sw, issued>>
  BY Zenon DEF accessVars
<1>2. HolderKept("controllerWorker") /\ HolderKept("sidecarWorker")
  BY Zenon, <1>1 DEF HolderKept
<1>3. ControllerDrops /\ SidecarDrops
  BY Zenon, <1>1 DEF ControllerDrops, SidecarDrops
<1>4. sw'.pc \in Granting \cup {"addFinalizer"} => ~sw'.access.deleting
  BY Zenon, <1>1 DEF Base, GrantsOK
<1> QED BY Zenon, <1>1, <1>2, <1>3, <1>4, QuietBase

\* The Controller's worker goes on without writing an access.
LEMMA ControllerQuietBase ==
    ASSUME IInv, IInv', Base, unchangedByController, UNCHANGED accesses,
           \A a \in AccessName : freshAccess'[a] \subseteq freshAccess[a],
           ControllerDrops
    PROVE  Base' /\ Moves
<1>1. UNCHANGED <<accessCache, sidecarAccesses, sw, issued>>
  BY Zenon DEF unchangedByController, accessCaches, sidecarVars, envVars
<1>2. HolderKept("controllerWorker") /\ HolderKept("sidecarWorker")
  BY Zenon DEF HolderKept
<1>3. SidecarDrops
  BY Zenon, <1>1 DEF SidecarDrops
<1>4. sw'.pc \in Granting \cup {"addFinalizer"} => ~sw'.access.deleting
  BY Zenon, <1>1 DEF Base, GrantsOK
<1> QED BY Zenon, <1>1, <1>2, <1>3, <1>4, QuietBase

\* The Sidecar's worker goes on without writing an access.
LEMMA SidecarQuietBase ==
    ASSUME IInv, IInv', Base, unchangedBySidecar, UNCHANGED storedAccesses,
           sw'.name = sw.name, sw'.access = sw.access,
           \/ sw.pc \in Granting
           \/ sw'.pc \notin Granting \cup {"addFinalizer"}
    PROVE  Base' /\ Moves
<1>1. UNCHANGED <<accesses, freshAccess, accessCache, sidecarAccesses, cw, issued>>
  BY Zenon DEF unchangedBySidecar, accessCaches, controllerVars, envVars, storedAccesses
<1>2. HolderKept("controllerWorker") /\ HolderKept("sidecarWorker")
  BY Zenon, <1>1 DEF HolderKept
<1>3. SidecarDrops /\ ControllerDrops
  BY Zenon, <1>1 DEF SidecarDrops, ControllerDrops
<1>4. sw'.pc \in Granting \cup {"addFinalizer"} => ~sw'.access.deleting
  BY Zenon DEF Base, GrantsOK
<1> QED BY Zenon, <1>1, <1>2, <1>3, <1>4, QuietBase

\* What reading claims does to the Controller's worker.
LEMMA ReadClaimsDoes ==
    ASSUME cw \in ControllerWorker, NEW left, left \subseteq ClaimName, NEW pc, NEW next,
           ReadClaims(left, pc, next)
    PROVE  /\ cw'.name = cw.name /\ cw'.access = cw.access /\ cw'.error = cw.error
           /\ cw'.todo = left /\ cw'.pc = (IF left = {} THEN next ELSE pc)
           /\ pc # "unmark" => cw'.claims = getAllBucketClaims
           /\ unchangedByController /\ UNCHANGED <<storedAccesses, claims>>
<1>1. PICK seen : seen = IF pc = "unmark" THEN NoClaims ELSE getAllBucketClaims
  BY Zenon
<1>2. cw' = [cw EXCEPT !.claims = seen, !.todo = left, !.pc = IF left = {} THEN next ELSE pc]
  BY Zenon, <1>1 DEF ReadClaims
<1>3. /\ cw'.name = cw.name /\ cw'.access = cw.access /\ cw'.error = cw.error
      /\ cw'.todo = left /\ cw'.pc = (IF left = {} THEN next ELSE pc) /\ cw'.claims = seen
  BY Zenon, <1>2 DEF ControllerWorker
<1>4. unchangedByController /\ UNCHANGED <<storedAccesses, claims>>
  BY Zenon DEF ReadClaims
<1> QED BY Zenon, <1>1, <1>3, <1>4

\* The Controller reads claims.
LEMMA ControllerReadsBase ==
    ASSUME IInv, IInv', Base, cw.pc # "idle", NEW left, left \subseteq ClaimName,
           NEW pc, NEW next, ReadClaims(left, pc, next)
    PROVE  Base' /\ Moves
<1>1. cw \in ControllerWorker
  BY Zenon, ControllerHasCopy
<1>2. /\ cw'.name = cw.name /\ cw'.access = cw.access
      /\ unchangedByController /\ UNCHANGED storedAccesses
  BY Zenon, <1>1, ReadClaimsDoes
<1>3. UNCHANGED <<accesses, freshAccess>>
  BY Zenon, <1>2 DEF storedAccesses
<1>4. \A a \in AccessName : freshAccess'[a] \subseteq freshAccess[a]
  BY Zenon, <1>3
<1> QED BY Zenon, <1>2, <1>3, <1>4, ControllerQuietBase DEF ControllerDrops

\* reconcile reads the claims of its access.
LEMMA ControllerReadClaimsBase ==
    ASSUME IInv, IInv', Base, ControllerReadClaims PROVE Base' /\ Moves
<1>1. PICK left : left = {c \in ClaimName : /\ getAllBucketClaims[c] # None
                                            /\ ~getAllBucketClaims[c].marked}
  BY Zenon
<1>2. ReadClaims(left, "mark", "readBuckets") /\ cw.pc # "idle"
  BY Zenon, <1>1 DEF ControllerReadClaims
<1>3. left \subseteq ClaimName
  BY Zenon, <1>1
<1> QED BY Zenon, <1>2, <1>3, ControllerReadsBase

\* reconcileDelete reads the claims of its access.
LEMMA ControllerReadForDeleteBase ==
    ASSUME IInv, IInv', Base, ControllerReadForDelete PROVE Base' /\ Moves
<1>1. PICK left : left = {c \in ClaimName :
                           /\ getAllBucketClaims[c] # None /\ getAllBucketClaims[c].marked
                           /\ ~hasBucketAccessReferences(c, accessCache, cw.name)}
  BY Zenon
<1>2. ReadClaims(left, "unmark", "removeFinalizer") /\ cw.pc # "idle"
  BY Zenon, <1>1 DEF ControllerReadForDelete
<1>3. left \subseteq ClaimName
  BY Zenon, <1>1
<1> QED BY Zenon, <1>2, <1>3, ControllerReadsBase

\* What writing one mark does.
MarkWritten(value, next, c, o) ==
    /\ c \in cw.todo /\ o \in Outcome /\ unchangedByController /\ UNCHANGED storedAccesses
    /\ \A d \in ClaimName : d # c => claims'[d] = claims[d]
    /\ Applied(o) => /\ "worker" \in freshClaim[c]
                     /\ claims'[c] = [claims[c] EXCEPT !.marked = value]
    /\ ~Applied(o) => claims'[c] = claims[c]
    /\ cw'.name = cw.name /\ cw'.access = cw.access
    /\ \/ /\ cw'.pc = cw.pc /\ cw'.todo = cw.todo \ {c} /\ cw'.claims = cw.claims
          /\ cw'.error = Join(cw.error, IF o = "ok" THEN "none" ELSE "retry")
       \/ cw'.pc = "report"
       \/ /\ cw'.pc = next /\ cw'.todo = {} /\ cw'.claims = cw.claims /\ cw'.error = cw.error
          /\ cw.todo \ {c} = {}
          /\ Join(cw.error, IF o = "ok" THEN "none" ELSE "retry") = "none"

\* What one write of a mark does to the worker and to the access.
LEMMA WriteMarkDoes ==
    ASSUME IInv, cw.pc # "idle", NEW value \in BOOLEAN, NEW next, WriteMark(value, next)
    PROVE  \E c \in ClaimName, o \in Outcome : MarkWritten(value, next, c, o)
<1>1. PICK c \in cw.todo, o \in Outcome :
      LET new == IF Applied(o) THEN [claims[c] EXCEPT !.marked = value] ELSE claims[c]
          left == cw.todo \ {c}
          e == Join(cw.error, IF o = "ok" THEN "none" ELSE "retry")
      IN  /\ Ends(o, "worker" \in freshClaim[c])
          /\ claims' = [claims EXCEPT ![c] = new]
          /\ freshClaim' = [freshClaim EXCEPT ![c] =
                              AfterWrite(o, @, claims[c], new, FALSE, "worker") \ {"worker"}]
          /\ cw' = CASE left # {} -> [cw EXCEPT !.todo = left, !.error = e]
                     [] left = {} /\ e # "none" -> FailController(cw, e)
                     [] OTHER -> [cw EXCEPT !.todo = {}, !.pc = next]
          /\ UNCHANGED <<storedAccesses, controllerQueue>>
          /\ unchangedByController
  BY Zenon DEF WriteMark
<1>2. /\ cw \in ControllerWorker /\ cw.name \in AccessName /\ cw.access \in Obj
      /\ claims \in [ClaimName -> ClaimObject \cup {None}]
  BY Zenon, InvariantParts DEF ControllerHolds, ClaimsOK
<1>3. c \in cw.todo /\ o \in Outcome /\ c \in ClaimName /\ cw.todo \subseteq ClaimName
  BY Zenon, <1>1, <1>2 DEF ControllerWorker
<1>4. PICK e : e = Join(cw.error, IF o = "ok" THEN "none" ELSE "retry")
  BY Zenon
<1>5. PICK new : new = IF Applied(o) THEN [claims[c] EXCEPT !.marked = value] ELSE claims[c]
  BY Zenon
<1>6. claims' = [claims EXCEPT ![c] = new] /\ Ends(o, "worker" \in freshClaim[c])
  BY Zenon, <1>1, <1>5
<1>7. /\ \A d \in ClaimName : d # c => claims'[d] = claims[d]
      /\ claims'[c] = new
  BY Zenon, <1>2, <1>3, <1>6
<1>8. Applied(o) => "worker" \in freshClaim[c]
  BY Zenon, <1>6 DEF Ends, Applied
<1>9. cw' = CASE cw.todo \ {c} # {} -> [cw EXCEPT !.todo = cw.todo \ {c}, !.error = e]
             [] cw.todo \ {c} = {} /\ e # "none" -> FailController(cw, e)
             [] OTHER -> [cw EXCEPT !.todo = {}, !.pc = next]
  BY Zenon, <1>1, <1>4
<1>10. /\ cw'.name = cw.name /\ cw'.access = cw.access
       /\ \/ /\ cw'.pc = cw.pc /\ cw'.todo = cw.todo \ {c} /\ cw'.claims = cw.claims
             /\ cw'.error = e
          \/ cw'.pc = "report"
          \/ /\ cw'.pc = next /\ cw'.todo = {} /\ cw'.claims = cw.claims /\ cw'.error = cw.error
             /\ cw.todo \ {c} = {} /\ e = "none"
  <2>1. CASE cw.todo \ {c} # {}
    <3>1. cw' = [cw EXCEPT !.todo = cw.todo \ {c}, !.error = e]
      BY Zenon, <1>9, <2>1
    <3> QED BY Zenon, <1>2, <3>1 DEF ControllerWorker
  <2>2. CASE cw.todo \ {c} = {} /\ e # "none"
    <3>1. cw' = FailController(cw, e) /\ e \in Error
      BY Zenon, <1>4, <1>9, <2>2, JoinType
    <3>2. cw'.pc = "report" /\ cw'.name = cw.name /\ cw'.access = cw.access
      BY SMTT(60), <1>2, <3>1, FailControllerOK
    <3> QED BY Zenon, <3>2
  <2>3. CASE cw.todo \ {c} = {} /\ e = "none"
    <3>1. cw' = [cw EXCEPT !.todo = {}, !.pc = next]
      BY Zenon, <1>9, <2>3
    <3>2. /\ cw'.name = cw.name /\ cw'.access = cw.access /\ cw'.pc = next /\ cw'.todo = {}
          /\ cw'.claims = cw.claims /\ cw'.error = cw.error
      BY Zenon, <1>2, <3>1 DEF ControllerWorker
    <3> QED BY Zenon, <2>3, <3>2
  <2> QED BY Zenon, <2>1, <2>2, <2>3
<1>11. unchangedByController /\ UNCHANGED storedAccesses
  BY Zenon, <1>1
<1>12. MarkWritten(value, next, c, o)
  BY Zenon, <1>3, <1>4, <1>5, <1>7, <1>8, <1>10, <1>11 DEF MarkWritten
<1> QED BY Zenon, <1>3, <1>12

\* The Controller marks or unmarks a claim.
LEMMA WriteMarkBase ==
    ASSUME IInv, IInv', Base, cw.pc # "idle", NEW value \in BOOLEAN, NEW next,
           WriteMark(value, next)
    PROVE  Base' /\ Moves
<1>1. PICK c \in ClaimName, o \in Outcome : MarkWritten(value, next, c, o)
  BY Zenon, WriteMarkDoes
<1>2. UNCHANGED <<accesses, freshAccess>> /\ unchangedByController
  BY Zenon, <1>1 DEF MarkWritten, storedAccesses
<1>3. \A a \in AccessName : freshAccess'[a] \subseteq freshAccess[a]
  BY Zenon, <1>2
<1>4. ControllerDrops
  BY Zenon, <1>1 DEF MarkWritten, ControllerDrops
<1> QED BY Zenon, <1>2, <1>3, <1>4, ControllerQuietBase

\* The Controller reads Buckets.
LEMMA ControllerReadBucketsBase ==
    ASSUME IInv, IInv', Base, ControllerReadBuckets PROVE Base' /\ Moves
<1>1. PICK bkts : bkts = Seen("buckets", bucketCache, buckets)
  BY Zenon
<1>2. cw' = initialise(cw, bkts) /\ cw.pc = "readBuckets"
  BY Zenon, <1>1 DEF ControllerReadBuckets
<1>3. cw'.name = cw.name /\ cw'.access = cw.access
  BY Zenon, <1>2, InitialiseOK, InvariantParts
<1>4. unchangedByController /\ UNCHANGED accesses
  BY Zenon DEF ControllerReadBuckets
<1>5. \A a \in AccessName : freshAccess'[a] \subseteq freshAccess[a]
  BY Zenon, InvariantParts DEF ControllerReadBuckets, Forget, AccessesOK
<1> QED BY Zenon, <1>3, <1>4, <1>5, ControllerQuietBase DEF ControllerDrops

\* A worker begins with a copy from its cache.
LEMMA ControllerStartBase ==
    ASSUME IInv, IInv', Base, NEW a \in AccessName, ControllerStart(a) PROVE Base' /\ Moves
<1>1. PICK mine : mine = AfterRead(freshAccess[a], "controllerCache",
                           IF cw'.pc = "idle" THEN None ELSE accessCache[a], "controllerWorker")
  BY Zenon
<1>2. /\ UNCHANGED <<accesses, accessCache, sidecarAccesses, sw, issued>>
      /\ cw' = (IF accessCache[a] = None THEN ControllerIdle
                                         ELSE startController(a, accessCache[a]))
  BY Zenon DEF ControllerStart, accessCaches, sidecarVars, envVars
<1>3. freshAccess' = [freshAccess EXCEPT ![a] = mine]
  BY Zenon, <1>1 DEF ControllerStart
<1>4. ReadBy(a, "controllerWorker", "controllerCache",
             IF cw'.pc = "idle" THEN None ELSE accessCache[a])
  BY Zenon, <1>1, <1>3, StartHolders, InvariantParts DEF AccessHolder
<1>5. /\ cw'.pc = "idle" => cw'.name = None
      /\ cw'.pc # "idle" => cw'.name = a /\ cw'.access = accessCache[a] /\ accessCache[a] # None
  <2>1. CASE accessCache[a] = None
    BY Zenon, <1>2, <2>1, ControllerIdleOK
  <2>2. CASE accessCache[a] # None
    <3>1. accessCache[a] \in Obj
      BY Zenon, <2>2, InvariantParts DEF AccessesOK
    <3>2. cw' = startController(a, accessCache[a])
      BY Zenon, <1>2, <2>2
    <3> QED BY SMTT(60), <2>2, <3>1, <3>2, StartControllerOK DEF ControllerStarts, ControllerHolds
  <2> QED BY Zenon, <2>1, <2>2
<1>6. Moves
  <2>1. WorkerMoves(cw, cw', accessCache)
    BY Zenon, <1>2, <1>5 DEF WorkerMoves
  <2>2. WorkerMoves(sw, sw', sidecarAccesses)
    BY Zenon, <1>2, SidecarStands DEF Base, Lineage
  <2> QED BY Zenon, <1>2, <2>1, <2>2 DEF Moves, StoredMoves, CacheMoves
<1>7. ControllerCurrent'
  <2> SUFFICES ASSUME NEW x \in AccessName, "controllerWorker" \in freshAccess'[x]
               PROVE  /\ SameButStatus(accesses'[x], cw'.access)
                      /\ cw'.access.accountID = accesses'[x].accountID
                      /\ cw'.access.readyToUse = "true" => accesses'[x].readyToUse = "true"
    BY Zenon DEF ControllerCurrent
  <2>1. cw'.name = x /\ cw'.pc # "idle"
    BY Zenon, InvariantParts DEF ControllerOK, ControllerCoherent
  <2>2. x = a /\ cw'.access = accessCache[a]
    BY Zenon, <1>5, <2>1
  <2>3. accessCache[a] = accesses[a]
    BY Zenon, <1>4, <2>2, InvariantParts DEF ReadBy, CachesOK, CachesCoherent
  <2> QED BY Zenon, <1>2, <2>2, <2>3 DEF SameButStatus
<1>8. SidecarCurrent'
  <2>1. HolderKept("sidecarWorker")
    <3>1. "sidecarWorker" # "controllerWorker" /\ "sidecarWorker" \in AccessHolder
      BY Zenon DEF AccessHolder
    <3> QED BY Zenon, <1>2, <1>4, <3>1 DEF ReadBy, HolderKept
  <2> QED BY Zenon, <1>2, <2>1, SidecarCurrentStays DEF Base, Lineage
<1>9. sw'.pc \in Granting \cup {"addFinalizer"} => ~sw'.access.deleting
  BY Zenon, <1>2 DEF Base, GrantsOK
<1> QED BY Zenon, <1>6, <1>7, <1>8, <1>9, BaseKept

\* The Sidecar grants nothing to a deleting access.
LEMMA StartSidecarGrants ==
    ASSUME NEW a \in AccessName, NEW x \in Obj, NEW v, v = startSidecar(a, x),
           v.pc \in Granting \cup {"addFinalizer"}
    PROVE  ~x.deleting
<1> SUFFICES ASSUME x.deleting PROVE FALSE
  BY Zenon
<1>1. v = SidecarIdle \/ v.pc = "clearStatus"
  BY Zenon DEF startSidecar, SidecarIdle
<1> QED BY SMTT(60), <1>1 DEF Granting, SidecarIdle

\* The Sidecar takes an access from its queue.
LEMMA SidecarStartBase ==
    ASSUME IInv, IInv', Base, NEW a \in AccessName, SidecarStart(a) PROVE Base' /\ Moves
<1>1. PICK mine : mine = AfterRead(freshAccess[a], "sidecarCache",
                           IF sw'.pc = "idle" THEN None ELSE sidecarAccesses[a], "sidecarWorker")
  BY Zenon
<1>2. /\ UNCHANGED <<accesses, accessCache, sidecarAccesses, cw, issued>>
      /\ sw' = (IF sidecarAccesses[a] = None THEN SidecarIdle
                                             ELSE startSidecar(a, sidecarAccesses[a]))
  BY Zenon DEF SidecarStart, accessCaches, controllerVars, envVars
<1>3. freshAccess' = [freshAccess EXCEPT ![a] = mine]
  BY Zenon, <1>1 DEF SidecarStart
<1>4. ReadBy(a, "sidecarWorker", "sidecarCache",
             IF sw'.pc = "idle" THEN None ELSE sidecarAccesses[a])
  BY Zenon, <1>1, <1>3, StartHolders, InvariantParts DEF AccessHolder
<1>5. /\ sw'.pc = "idle" => sw'.name = None
      /\ sw'.pc # "idle" => /\ sw'.name = a /\ sw'.access = sidecarAccesses[a]
                            /\ sidecarAccesses[a] # None
      /\ sw'.pc \in Granting \cup {"addFinalizer"} => ~sw'.access.deleting
  <2>1. CASE sidecarAccesses[a] = None
    <3>1. sw'.pc = "idle" /\ sw'.name = None
      BY Zenon, <1>2, <2>1, SidecarIdleOK
    <3> QED BY Zenon, <3>1 DEF Granting
  <2>2. CASE sidecarAccesses[a] # None
    <3>1. sidecarAccesses[a] \in Obj
      BY Zenon, <2>2, InvariantParts DEF AccessesOK
    <3>2. sw' = startSidecar(a, sidecarAccesses[a])
      BY Zenon, <1>2, <2>2
    <3>3. /\ SidecarHolds(sw')
          /\ sw'.pc # "idle" => sw'.name = a /\ sw'.access = sidecarAccesses[a]
      <4>1. SidecarStarts(a, sidecarAccesses[a], sw')
        BY Zenon, <3>1, <3>2, StartSidecarOK
      <4> QED BY Zenon, <4>1 DEF SidecarStarts
    <3>4. sw'.pc \in Granting \cup {"addFinalizer"} => ~sidecarAccesses[a].deleting
      BY Zenon, <3>1, <3>2, StartSidecarGrants
    <3>5. sw'.pc \in Granting \cup {"addFinalizer"} => sw'.pc # "idle"
      BY Zenon DEF Granting
    <3> QED BY Zenon, <2>2, <3>3, <3>4, <3>5 DEF SidecarHolds
  <2> QED BY Zenon, <2>1, <2>2
<1>6. Moves
  <2>1. WorkerMoves(sw, sw', sidecarAccesses)
    BY Zenon, <1>2, <1>5 DEF WorkerMoves
  <2>2. WorkerMoves(cw, cw', accessCache)
    BY Zenon, <1>2, ControllerStands DEF Base, Lineage
  <2> QED BY Zenon, <1>2, <2>1, <2>2 DEF Moves, StoredMoves, CacheMoves
<1>7. SidecarCurrent'
  <2> SUFFICES ASSUME NEW x \in AccessName, "sidecarWorker" \in freshAccess'[x]
               PROVE  /\ SameButStatus(accesses'[x], sw'.access)
                      /\ accesses'[x].deleting => sw'.access.accountID = accesses'[x].accountID
    BY Zenon DEF SidecarCurrent
  <2>1. sw'.name = x /\ sw'.pc # "idle"
    BY Zenon, InvariantParts DEF SidecarOK, SidecarCoherent
  <2>2. x = a /\ sw'.access = sidecarAccesses[a]
    BY Zenon, <1>5, <2>1
  <2>3. sidecarAccesses[a] = accesses[a]
    BY Zenon, <1>4, <2>2, InvariantParts DEF ReadBy, CachesOK, CachesCoherent
  <2> QED BY Zenon, <1>2, <2>2, <2>3 DEF SameButStatus
<1>8. ControllerCurrent'
  <2>1. HolderKept("controllerWorker")
    <3>1. "controllerWorker" # "sidecarWorker" /\ "controllerWorker" \in AccessHolder
      BY Zenon DEF AccessHolder
    <3> QED BY Zenon, <1>2, <1>4, <3>1 DEF ReadBy, HolderKept
  <2> QED BY Zenon, <1>2, <2>1, ControllerCurrentStays DEF Base, Lineage
<1> QED BY Zenon, <1>5, <1>6, <1>7, <1>8, BaseKept
-----------------------------------------------------------------------------
(***************************************************************************)
(* The Sidecar's writes.                                                   *)
(***************************************************************************)
LEMMA SidecarAddFinalizerBase ==
    ASSUME IInv, IInv', Base, SidecarAddFinalizer PROVE Base' /\ Moves
<1>1. PICK obj : obj = [sw.access EXCEPT !.finalizer = TRUE]
  BY Zenon
<1>2. PICK o \in Outcome :
        /\ WriteAccess(o, sw.name, obj, FALSE, "sidecarWorker", FALSE)
        /\ sw' = IF o = "ok" THEN [sw EXCEPT !.pc = "checkBuckets", !.access = obj]
                             ELSE FailSidecar(sw, "retry")
  BY Zenon, <1>1 DEF SidecarAddFinalizer
<1>3. sw.pc = "addFinalizer" /\ sw.pc # "idle" /\ sw.pc # "report" /\ unchangedBySidecar
  BY Zenon DEF SidecarAddFinalizer
<1>4. /\ sw.name \in AccessName /\ sw.access \in Obj /\ sw.access.driverName # None
      /\ Complete(sw.access) /\ sw \in SidecarWorker
  BY Zenon, <1>3, SidecarHasCopy, SidecarBusy
<1>5. OtherFinalizer(sw.access, obj) /\ obj \in Obj
  BY Zenon, <1>1, <1>4, FinalizerSet DEF OtherFinalizer
<1>6. Written(o, sw.name, obj, "sidecarWorker", FALSE)
  BY Zenon, <1>2, <1>4, <1>5, IsWritten DEF AccessHolder
<1>7. /\ "sidecarWorker" \in freshAccess[sw.name] => Keeps(sw.name, accesses[sw.name], obj)
      /\ Complete(obj)
  BY Zenon, <1>3, <1>4, <1>5, SidecarCopy, FinalizerKeeps
<1>8. CASE o = "ok"
  <2>1. sw'.name = sw.name /\ sw'.access = obj /\ sw'.pc = "checkBuckets" /\ sw'.pc # "report"
    BY Zenon, <1>2, <1>4, <1>8 DEF SidecarWorker
  <2>2. ~sw'.access.deleting
    BY Zenon, <1>3, <1>5, <2>1 DEF Base, GrantsOK, OtherFinalizer, Kin
  <2> QED BY Zenon, <1>3, <1>5, <1>6, <1>7, <1>8, <2>1, <2>2, SidecarWriteBase
        DEF OtherFinalizer
<1>9. CASE o # "ok"
  <2>1. sw'.pc = "report" /\ sw'.name = sw.name /\ sw'.access = sw.access
    <3>1. sw' = FailSidecar(sw, "retry") /\ "retry" \in Error
      BY Zenon, <1>2, <1>9 DEF Error
    <3> QED BY SMTT(60), <1>4, <3>1, FailSidecarOK
  <2>2. Kin(sw.access, sw'.access) /\ SidecarLeaves(sw.access, sw'.access)
    BY Zenon, <2>1 DEF Kin, SidecarLeaves, SameButStatus
  <2>3. sw'.pc \notin Granting \cup {"addFinalizer"}
    BY Zenon, <2>1 DEF Granting
  <2> QED BY Zenon, <1>3, <1>4, <1>5, <1>6, <1>7, <1>9, <2>1, <2>2, <2>3, SidecarWriteBase
<1> QED BY Zenon, <1>8, <1>9

\* The annotation is set on a deleting access.
LEMMA AnnotationKeeps ==
    ASSUME NEW a, NEW x \in Obj, Complete(x), x.deleting, HandsBack(a, x), NEW y,
           y = [x EXCEPT !.cleanupFinished = TRUE]
    PROVE  y \in Obj /\ Keeps(a, x, y)
<1>1. y \in Obj /\ SameStatus(x, y) /\ y.deleting = x.deleting /\ y.uid = x.uid
  BY Zenon, WithAnnotation
<1>2. y.spec = x.spec
  BY Zenon DEF Obj, AccessObject
<1>3. Complete(y)
  BY Zenon, <1>1, <1>2 DEF Complete, SameStatus, References
<1> QED BY Zenon, <1>1, <1>2, <1>3 DEF SameStatus, Keeps

\* The Sidecar hands the access back.
LEMMA SidecarFinishBase ==
    ASSUME IInv, IInv', Base, SidecarFinish PROVE Base' /\ Moves
<1>1. PICK obj : obj = [sw.access EXCEPT !.cleanupFinished = TRUE]
  BY Zenon
<1>2. PICK o \in Outcome :
        /\ WriteAccess(o, sw.name, obj, FALSE, "sidecarWorker", o = "ok")
        /\ sw' = IF o = "ok" THEN SidecarIdle ELSE FailSidecar(sw, "retry")
  BY Zenon, <1>1 DEF SidecarFinish
<1>3. sw.pc = "finish" /\ sw.pc # "idle" /\ sw.pc # "report" /\ unchangedBySidecar
  BY Zenon DEF SidecarFinish
<1>4. /\ sw.name \in AccessName /\ sw.access \in Obj /\ sw.access.driverName # None
      /\ Complete(sw.access) /\ sw \in SidecarWorker
  BY Zenon, <1>3, SidecarHasCopy, SidecarBusy
<1>5. sw.access.deleting
  BY Zenon, <1>3, InvariantParts DEF SidecarHolds, Cleaning
<1>6. obj \in Obj /\ Keeps(sw.name, sw.access, obj)
  BY Zenon, <1>1, <1>3, <1>4, <1>5, AnnotationKeeps DEF HandsBack
<1>7. "sidecarWorker" \in freshAccess[sw.name] => Keeps(sw.name, accesses[sw.name], obj)
  BY Zenon, <1>3, <1>6, SidecarCopy
<1>8. Written(o, sw.name, obj, "sidecarWorker", o = "ok")
  BY Zenon, <1>2, <1>4, <1>6, IsWritten DEF AccessHolder
<1>9. CASE o = "ok"
  <2>1. sw'.pc = "idle"
    BY Zenon, <1>2, <1>9, SidecarIdleOK
  <2>2. sw'.pc \notin Granting \cup {"addFinalizer"}
    BY Zenon, <2>1 DEF Granting
  <2> QED BY Zenon, <1>3, <1>6, <1>7, <1>8, <2>1, <2>2, SidecarWriteBase
<1>10. CASE o # "ok"
  <2>1. sw'.pc = "report" /\ sw'.name = sw.name /\ sw'.access = sw.access
    <3>1. sw' = FailSidecar(sw, "retry") /\ "retry" \in Error
      BY Zenon, <1>2, <1>10 DEF Error
    <3> QED BY SMTT(60), <1>4, <3>1, FailSidecarOK
  <2>2. Kin(sw.access, sw'.access) /\ SidecarLeaves(sw.access, sw'.access)
    BY Zenon, <2>1 DEF Kin, SidecarLeaves, SameButStatus
  <2>3. sw'.pc \notin Granting \cup {"addFinalizer"}
    BY Zenon, <2>1 DEF Granting
  <2> QED BY Zenon, <1>3, <1>4, <1>6, <1>7, <1>8, <1>10, <2>1, <2>2, <2>3, SidecarWriteBase
<1> QED BY Zenon, <1>9, <1>10

\* The Sidecar records an error.
LEMMA SidecarReportBase ==
    ASSUME IInv, IInv', Base, SidecarReport PROVE Base' /\ Moves
<1>1. PICK local : local = [sw.access EXCEPT !.readyToUse = NotNil(@), !.error = sw.error]
  BY Zenon
<1>2. PICK obj : obj = SetAccessStatus(accesses[sw.name], local)
  BY Zenon
<1>3. PICK o \in Outcome : WriteAccess(o, sw.name, obj, TRUE, "sidecarWorker", TRUE)
  BY Zenon, <1>1, <1>2 DEF SidecarReport
<1>4. sw.pc = "report" /\ sw.pc # "idle" /\ unchangedBySidecar /\ sw' = SidecarIdle
  BY Zenon DEF SidecarReport
<1>5. /\ sw.name \in AccessName /\ sw.access \in Obj
      /\ Complete(sw.access) /\ sw \in SidecarWorker
  BY Zenon, <1>4, SidecarHasCopy
<1>6. sw.error \in Error
  BY Zenon, <1>5 DEF SidecarWorker
<1>7. Erroneous(sw.access, local)
  BY Zenon, <1>1, <1>5, <1>6, WithErrorComplete
<1>8. "sidecarWorker" \in freshAccess[sw.name] =>
        obj \in Obj /\ Keeps(sw.name, accesses[sw.name], obj)
  <2> SUFFICES ASSUME "sidecarWorker" \in freshAccess[sw.name]
               PROVE  obj \in Obj /\ Keeps(sw.name, accesses[sw.name], obj)
    BY Zenon
  <2>1. /\ SameButStatus(accesses[sw.name], sw.access) /\ accesses[sw.name] # None
        /\ SameFinal(accesses[sw.name], sw.access)
        /\ accesses[sw.name].deleting => sw.access.accountID = accesses[sw.name].accountID
    BY Zenon, <1>4, <1>5, InvariantParts DEF Base, Lineage, SidecarCurrent, SidecarOK,
       SidecarCoherent
  <2>2. accesses[sw.name] \in Obj
    BY Zenon, <1>5, <2>1, InvariantParts DEF AccessesOK
  <2>3. accesses[sw.name] \in Copies(sw.name)
    BY Zenon, <2>1 DEF Copies
  <2>4. Complete(accesses[sw.name])
    BY Zenon, <1>5, <2>3 DEF Base, Lineage, CopiesComplete
  <2>5. /\ local \in Obj /\ Complete(local) /\ local.spec = accesses[sw.name].spec
        /\ accesses[sw.name].deleting => local.accountID = accesses[sw.name].accountID
        /\ local.driverName = accesses[sw.name].driverName
        /\ local.readyToUse = "true" => sw.access.readyToUse = "true"
        /\ sw.access.uid = accesses[sw.name].uid /\ sw.access.spec = accesses[sw.name].spec
    BY Zenon, <1>7, <2>1 DEF Erroneous, SameMetadata, SameButStatus, SameFinal
  <2>6. local.readyToUse = "true" => MakesReady(sw.name, accesses[sw.name])
    BY Zenon, <1>4, <2>5 DEF MakesReady
  <2> QED BY Zenon, <1>2, <2>2, <2>4, <2>5, <2>6, StatusKeeps
<1>9. Written(o, sw.name, obj, "sidecarWorker", TRUE)
  BY Zenon, <1>3, <1>5, <1>8, IsWritten DEF AccessHolder
<1>10. sw'.pc = "idle"
  BY Zenon, <1>4, SidecarIdleOK
<1>11. sw'.pc \notin Granting \cup {"addFinalizer"}
  BY Zenon, <1>10 DEF Granting
<1> QED BY Zenon, <1>4, <1>8, <1>9, <1>10, <1>11, SidecarWriteBase

\* What a Status().Update of the Sidecar may set.
SidecarSets(x, y) ==
    /\ y \in Obj /\ Complete(y) /\ SameMetadata(x, y) /\ SameFinal(x, y)
    /\ x.deleting => y.accountID = x.accountID

\* The Sidecar writes a status.
LEMMA StatusWriteBase ==
    ASSUME IInv, IInv', Base, sw.pc \in {"setReady", "clearStatus"}, NEW local,
           SidecarSets(sw.access, local), local.readyToUse = "true" => sw.pc = "setReady",
           NEW next, WriteSidecarStatus(local, next), unchangedBySidecar,
           \/ next.pc = "idle"
           \/ next.pc = "unprotect" /\ next.name = sw.name /\ next.access = local
    PROVE  Base' /\ Moves
<1>1. PICK obj : obj = SetAccessStatus(accesses[sw.name], local)
  BY Zenon
<1>2. PICK done : done \in BOOLEAN /\ \E o \in Outcome :
        /\ done = (o = "ok" /\ next.pc = "idle")
        /\ WriteAccess(o, sw.name, obj, FALSE, "sidecarWorker", done)
        /\ sw' = IF o = "ok" THEN next ELSE FailSidecar([sw EXCEPT !.access = local], "retry")
  BY Zenon, <1>1 DEF WriteSidecarStatus
<1>3. PICK o \in Outcome :
        /\ WriteAccess(o, sw.name, obj, FALSE, "sidecarWorker", done)
        /\ sw' = IF o = "ok" THEN next ELSE FailSidecar([sw EXCEPT !.access = local], "retry")
  BY Zenon, <1>2
<1>4. sw.pc # "idle" /\ sw.pc # "report"
  BY Zenon
<1>5. /\ sw.name \in AccessName /\ sw.access \in Obj /\ sw.access.driverName # None
      /\ Complete(sw.access) /\ sw \in SidecarWorker
  BY Zenon, <1>4, SidecarHasCopy, SidecarBusy
<1>6. /\ local \in Obj /\ Complete(local) /\ Kin(sw.access, local)
      /\ SidecarLeaves(sw.access, local)
  BY Zenon DEF SidecarSets, SameMetadata, Kin, SidecarLeaves, SameButStatus
<1>7. "sidecarWorker" \in freshAccess[sw.name] =>
        obj \in Obj /\ Keeps(sw.name, accesses[sw.name], obj)
  <2> SUFFICES ASSUME "sidecarWorker" \in freshAccess[sw.name]
               PROVE  obj \in Obj /\ Keeps(sw.name, accesses[sw.name], obj)
    BY Zenon
  <2>1. sw.access = accesses[sw.name]
    BY Zenon, <1>4, SidecarCopy
  <2>2. /\ local.spec = accesses[sw.name].spec /\ local.driverName = accesses[sw.name].driverName
        /\ accesses[sw.name].deleting => local.accountID = accesses[sw.name].accountID
    BY Zenon, <2>1 DEF SidecarSets, SameMetadata, SameFinal
  <2>3. local.readyToUse = "true" => MakesReady(sw.name, accesses[sw.name])
    BY Zenon, <1>4, <2>1 DEF MakesReady
  <2> QED BY Zenon, <1>1, <1>5, <1>6, <2>1, <2>2, <2>3, StatusKeeps
<1>8. Written(o, sw.name, obj, "sidecarWorker", done)
  <2>1. "sidecarWorker" \in AccessHolder /\ FALSE \in BOOLEAN
    BY Zenon DEF AccessHolder
  <2> QED BY ZenonT(60), <1>2, <1>3, <1>5, <1>7, <2>1, IsWritten
<1>9. CASE o = "ok"
  <2>1. sw' = next
    BY Zenon, <1>3, <1>9
  <2>2. sw'.pc \notin Granting \cup {"addFinalizer"} /\ (sw'.pc = "unprotect" => sw'.pc # "report")
    BY Zenon, <2>1 DEF Granting
  <2> QED BY Zenon, <1>4, <1>6, <1>7, <1>8, <1>9, <2>1, <2>2, SidecarWriteBase
<1>10. CASE o # "ok"
  <2>1. PICK w : w = [sw EXCEPT !.access = local]
    BY Zenon
  <2>2. /\ w \in SidecarWorker /\ w.name = sw.name /\ w.access = local
        /\ w.access.driverName # None
    BY Zenon, <1>5, <1>6, <2>1 DEF SidecarWorker, Obj, SidecarSets, SameFinal
  <2>3. sw'.pc = "report" /\ sw'.name = sw.name /\ sw'.access = local
    <3>1. sw' = FailSidecar(w, "retry") /\ "retry" \in Error
      BY Zenon, <1>3, <1>10, <2>1 DEF Error
    <3>2. w.name \in AccessName /\ w.access \in Obj
      BY Zenon, <1>5, <1>6, <2>2
    <3> QED BY SMTT(60), <2>2, <3>1, <3>2, FailSidecarOK
  <2>4. sw'.pc \notin Granting \cup {"addFinalizer"}
    BY Zenon, <2>3 DEF Granting
  <2> QED BY Zenon, <1>4, <1>6, <1>7, <1>8, <1>10, <2>3, <2>4, SidecarWriteBase
<1> QED BY Zenon, <1>9, <1>10

\* The Sidecar reports that access is granted.
LEMMA SidecarSetReadyBase ==
    ASSUME IInv, IInv', Base, SidecarSetReady PROVE Base' /\ Moves
<1>1. PICK local : local = [sw.access EXCEPT !.accountID = TRUE, !.readyToUse = "true",
                                            !.error = "none"]
  BY Zenon
<1>2. sw.pc = "setReady" /\ unchangedBySidecar /\ WriteSidecarStatus(local, SidecarIdle)
  BY Zenon, <1>1 DEF SidecarSetReady
<1>3. sw.access \in Obj /\ Complete(sw.access) /\ ~sw.access.deleting
  <2>1. sw.pc # "idle" /\ sw.pc \in Granting \cup {"addFinalizer"}
    BY Zenon, <1>2 DEF Granting
  <2> QED BY Zenon, <2>1, SidecarHasCopy DEF Base, GrantsOK
<1>4. local \in Obj /\ SameMetadata(sw.access, local) /\ SameFinal(sw.access, local)
  BY Zenon, <1>1, <1>3, WithReady
<1>5. Complete(local)
  BY Zenon, <1>3, <1>4, StaysComplete DEF SameMetadata, SameFinal
<1>6. SidecarSets(sw.access, local) /\ sw.pc \in {"setReady", "clearStatus"}
  BY Zenon, <1>2, <1>3, <1>4, <1>5 DEF SidecarSets
<1>7. SidecarIdle.pc = "idle"
  BY Zenon, SidecarIdleOK
<1> QED BY Zenon, <1>2, <1>6, <1>7, StatusWriteBase

\* The Sidecar starts the cleanup by clearing the status.
LEMMA SidecarClearStatusBase ==
    ASSUME IInv, IInv', Base, SidecarClearStatus PROVE Base' /\ Moves
<1>1. PICK local : local = [sw.access EXCEPT !.readyToUse = "false", !.error = "none"]
  BY Zenon
<1>2. PICK next : next = [sw EXCEPT !.pc = "unprotect", !.access = local,
                                    !.todo = References(sw.access)]
  BY Zenon
<1>3. sw.pc = "clearStatus" /\ unchangedBySidecar /\ WriteSidecarStatus(local, next)
  BY Zenon, <1>1, <1>2 DEF SidecarClearStatus
<1>4. sw.access \in Obj /\ Complete(sw.access) /\ sw \in SidecarWorker
  <2>1. sw.pc # "idle"
    BY Zenon, <1>3
  <2> QED BY Zenon, <2>1, SidecarHasCopy
<1>5. local \in Obj /\ SameMetadata(sw.access, local) /\ SameFinal(sw.access, local)
  BY Zenon, <1>1, <1>4, WithClearedStatus
<1>6. Complete(local)
  BY Zenon, <1>4, <1>5, StaysComplete DEF SameMetadata, SameFinal
<1>7. local.accountID = sw.access.accountID /\ local.readyToUse # "true"
  BY Zenon, <1>1, <1>4 DEF Obj, AccessObject
<1>8. SidecarSets(sw.access, local) /\ sw.pc \in {"setReady", "clearStatus"}
  BY Zenon, <1>3, <1>5, <1>6, <1>7 DEF SidecarSets
<1>9. next.pc = "unprotect" /\ next.name = sw.name /\ next.access = local
  BY Zenon, <1>2, <1>4 DEF SidecarWorker
<1> QED BY Zenon, <1>3, <1>7, <1>8, <1>9, StatusWriteBase
-----------------------------------------------------------------------------
(***************************************************************************)
(* The Sidecar's other steps, told by their effects.                       *)
(***************************************************************************)
\* The Sidecar checks Buckets.
LEMMA SidecarCheckBucketsBase ==
    ASSUME IInv, IInv', Base, SidecarCheckBuckets PROVE Base' /\ Moves
<1>1. CheckStep /\ sw.pc = "checkBuckets"
  BY Zenon, CheckBucketsDoes
<1>2. sw.pc \in Granting
  BY Zenon, <1>1 DEF Granting
<1> QED BY Zenon, <1>1, <1>2, SidecarQuietBase DEF CheckStep, SidecarSame

\* The Sidecar reserves a Secret.
LEMMA SidecarReserveBase ==
    ASSUME IInv, IInv', Base, SidecarReserve PROVE Base' /\ Moves
<1>1. SidecarSame /\ sw.pc = "reserve"
  BY Zenon, ReserveDoes DEF Reserving
<1>2. sw.pc \in Granting
  BY Zenon, <1>1 DEF Granting
<1> QED BY Zenon, <1>1, <1>2, SidecarQuietBase DEF SidecarSame

\* The driver is asked to grant access.
LEMMA SidecarGrantBase ==
    ASSUME IInv, IInv', Base, SidecarGrant PROVE Base' /\ Moves
<1>1. GrantStep /\ sw.pc = "grant"
  BY Zenon, GrantDoes
<1>2. sw.pc \in Granting
  BY Zenon, <1>1 DEF Granting
<1> QED BY Zenon, <1>1, <1>2, SidecarQuietBase DEF GrantStep, SidecarSame

\* The driver is asked to revoke access.
LEMMA SidecarRevokeBase ==
    ASSUME IInv, IInv', Base, SidecarRevoke PROVE Base' /\ Moves
<1>1. RevokeStep /\ sw.pc = "revoke"
  BY Zenon, RevokeDoes
<1>2. sw'.pc \notin Granting \cup {"addFinalizer"}
  BY Zenon, <1>1 DEF Granting, RevokeStep
<1> QED BY Zenon, <1>1, <1>2, SidecarQuietBase DEF RevokeStep, SidecarSame

\* The Sidecar fills a Secret.
LEMMA SidecarFillBase ==
    ASSUME IInv, IInv', Base, SidecarFill PROVE Base' /\ Moves
<1>1. SidecarSame /\ sw.pc = "fill"
  BY Zenon, FillDoes DEF Filling
<1>2. sw.pc \in Granting
  BY Zenon, <1>1 DEF Granting
<1> QED BY Zenon, <1>1, <1>2, SidecarQuietBase DEF SidecarSame

\* The Sidecar takes the finalizer off a Secret.
LEMMA SidecarUnprotectBase ==
    ASSUME IInv, IInv', Base, SidecarUnprotect PROVE Base' /\ Moves
<1>1. sw.pc = "unprotect" /\ \E c \in ClaimName, s \in SecretName : Unprotecting(c, s)
  BY Zenon, UnprotectDoes
<1>2. SidecarSame /\ sw'.pc \notin Granting \cup {"addFinalizer"}
  BY Zenon, <1>1 DEF Granting, Unprotecting, AfterLast
<1> QED BY Zenon, <1>2, SidecarQuietBase DEF SidecarSame

\* The Sidecar deletes a Secret.
LEMMA SidecarDeleteSecretBase ==
    ASSUME IInv, IInv', Base, SidecarDeleteSecret PROVE Base' /\ Moves
<1>1. sw.pc = "deleteSecret" /\ \E s \in SecretName : Deleting(s)
  BY Zenon, DeleteSecretDoes
<1>2. SidecarSame /\ sw'.pc \notin Granting \cup {"addFinalizer"}
  BY Zenon, <1>1 DEF Granting, Deleting, AfterLast
<1> QED BY Zenon, <1>2, SidecarQuietBase DEF SidecarSame

\* A change of an access by hand.
LEMMA ByHandBase ==
    ASSUME IInv, IInv', Base, NEW a \in AccessName, NEW new, StoreAccess(a, new),
           new \in Obj \cup {None}, freshAccess' = Touch(freshAccess, a), unchangedByUser,
           issued' = issued \/ issued' = issued + 1,
           \/ new = None
           \/ accesses[a] # None /\ Keeps(a, accesses[a], new)
           \/ IsMade(a)
    PROVE  Base' /\ Moves
<1>1. Stored(a) /\ accesses'[a] = new
  BY Zenon, StoreFacts, InvariantParts
<1>2. UNCHANGED <<accessCache, sidecarAccesses, cw, sw>>
  BY Zenon DEF unchangedByUser, accessCaches, controllerVars, sidecarVars
<1>3. \A b \in AccessName : StoredMoves(b) /\ CacheMoves(b)
  <2> TAKE b \in AccessName
  <2>1. CASE b = a
    BY Zenon, <1>1, <1>2, <2>1 DEF StoredMoves, CacheMoves, IsMade
  <2>2. CASE b # a
    BY Zenon, <1>1, <1>2, <2>2 DEF Stored, StoredMoves, CacheMoves
  <2> QED BY Zenon, <2>1, <2>2
<1>4. \A b, c \in AccessName : accesses'[b] # accesses[b] /\ accesses'[c] # accesses[c] => b = c
  BY Zenon, <1>1 DEF Stored
<1>5. WorkerMoves(cw, cw', accessCache) /\ WorkerMoves(sw, sw', sidecarAccesses)
  BY Zenon, <1>2, ControllerStands, SidecarStands DEF Base, Lineage
<1>6. Moves
  BY Zenon, <1>3, <1>4, <1>5 DEF Moves
<1>7. HolderKept("controllerWorker") /\ HolderKept("sidecarWorker")
  <2>1. /\ freshAccess'[a] = {}
        /\ \A b \in AccessName : b # a => freshAccess'[b] = freshAccess[b]
    BY Zenon, InvariantParts DEF Touch, AccessesOK
  <2> QED BY Zenon, <1>1, <2>1 DEF HolderKept, Stored
<1>8. ControllerCurrent' /\ SidecarCurrent'
  BY Zenon, <1>2, <1>7, ControllerCurrentStays, SidecarCurrentStays DEF Base, Lineage
<1> QED BY Zenon, <1>2, <1>6, <1>8, BaseKept DEF Base, GrantsOK

\* A user creates an access.
LEMMA UserCreateAccessBase ==
    ASSUME IInv, IInv', Base, NEW a \in AccessName, UserCreateAccess(a) PROVE Base' /\ Moves
<1>1. PICK spec \in AccessSpec : StoreAccess(a, NewAccess(issued + 1, spec))
  BY Zenon DEF UserCreateAccess
<1>2. PICK new : new = NewAccess(issued + 1, spec)
  BY Zenon
<1>3. /\ accesses[a] = None /\ freshAccess' = Touch(freshAccess, a) /\ unchangedByUser
      /\ issued' = issued + 1
  BY Zenon DEF UserCreateAccess
<1>4. issued + 1 \in Uid
  BY SMTT(60), AccessAssumption, InvariantParts DEF UserCreateAccess, CountersOK, Uid
<1>5. new \in Obj
  <2>1. new \in AccessObject
    BY Zenon, <1>1, <1>2, <1>4 DEF NewAccess, AccessObject, ReadyToUse, Error
  <2>2. WellFormed(new)
    BY Zenon, <1>2 DEF NewAccess, WellFormed
  <2> QED BY Zenon, <2>1, <2>2 DEF Obj
<1>6. new \in Obj \cup {None} /\ StoreAccess(a, new)
  BY Zenon, <1>1, <1>2, <1>5
<1>7. accesses'[a] = new
  BY Zenon, <1>6, StoreFacts, InvariantParts
<1>8. /\ new.uid = issued + 1 /\ ~new.deleting /\ new.driverName = None
      /\ ~new.cleanupFinished /\ new.readyToUse # "true"
  BY Zenon, <1>2 DEF NewAccess
<1>9. IsMade(a)
  BY Zenon, <1>3, <1>7, <1>8 DEF IsMade
<1> QED BY Zenon, <1>3, <1>6, <1>9, ByHandBase

\* An access begins to be deleted, or its override annotation changes.
LEMMA DeletionKeeps ==
    ASSUME NEW a, NEW x \in Obj, Complete(x), NEW y, y = [x EXCEPT !.deleting = TRUE]
    PROVE  y \in Obj /\ Keeps(a, x, y)
<1>1. /\ y \in Obj /\ y.uid = x.uid /\ y.spec = x.spec /\ y.deleting /\ SameStatus(x, y)
      /\ y.cleanupFinished = x.cleanupFinished
  BY Zenon DEF Obj, AccessObject, WellFormed, SameStatus
<1> QED BY Zenon, <1>1, StaysComplete DEF Keeps, SameStatus

\* The override annotation is set or removed.
LEMMA OverrideKeeps ==
    ASSUME NEW a, NEW x \in Obj, Complete(x), NEW y, y = [x EXCEPT !.override = ~@]
    PROVE  y \in Obj /\ Keeps(a, x, y)
<1>1. /\ y \in Obj /\ y.uid = x.uid /\ y.spec = x.spec /\ y.deleting = x.deleting
      /\ SameStatus(x, y) /\ y.cleanupFinished = x.cleanupFinished
  BY Zenon DEF Obj, AccessObject, WellFormed, SameStatus
<1> QED BY Zenon, <1>1, StaysComplete DEF Keeps, SameStatus

\* A user deletes an access.
LEMMA UserDeleteAccessBase ==
    ASSUME IInv, IInv', Base, NEW a \in AccessName, UserDeleteAccess(a) PROVE Base' /\ Moves
<1>1. /\ accesses[a] # None /\ StoreAccess(a, Deleted(accesses[a]))
      /\ freshAccess' = Touch(freshAccess, a) /\ unchangedByUser /\ issued' = issued
  BY Zenon DEF UserDeleteAccess
<1>2. accesses[a] \in Obj /\ Complete(accesses[a])
  BY Zenon, <1>1, StoredIsCopy
<1>3. PICK y : y = [accesses[a] EXCEPT !.deleting = TRUE]
  BY Zenon
<1>4. y \in Obj /\ Keeps(a, accesses[a], y)
  BY Zenon, <1>2, <1>3, DeletionKeeps
<1>5. PICK new : new = Persisted(y)
  BY Zenon
<1>6. new \in Obj \cup {None} /\ (new = None \/ new = y)
  BY Zenon, <1>4, <1>5, PersistedObject
<1>7. StoreAccess(a, new)
  BY Zenon, <1>1, <1>3, <1>5 DEF Deleted
<1> QED BY Zenon, <1>1, <1>4, <1>6, <1>7, ByHandBase

\* Somebody changes the finalizer or the override of an access.
LEMMA EditAccessBase ==
    ASSUME IInv, IInv', Base, NEW a \in AccessName, EditAccess(a) PROVE Base' /\ Moves
<1>1. /\ accesses[a] # None
      /\ freshAccess' = Touch(freshAccess, a) /\ unchangedByUser /\ issued' = issued
      /\ \/ StoreAccess(a, Persisted([accesses[a] EXCEPT !.finalizer = FALSE]))
         \/ StoreAccess(a, [accesses[a] EXCEPT !.override = ~@])
  BY Zenon DEF EditAccess
<1>2. accesses[a] \in Obj /\ Complete(accesses[a])
  BY Zenon, <1>1, StoredIsCopy
<1>3. PICK y : y = [accesses[a] EXCEPT !.finalizer = FALSE]
  BY Zenon
<1>4. PICK z : z = [accesses[a] EXCEPT !.override = ~@]
  BY Zenon
<1>5. y \in Obj /\ Keeps(a, accesses[a], y)
  <2>1. FALSE \in BOOLEAN
    BY Zenon
  <2>2. OtherFinalizer(accesses[a], y)
    BY Zenon, <1>2, <1>3, <2>1, FinalizerSet
  <2> QED BY Zenon, <1>2, <2>2, FinalizerKeeps DEF OtherFinalizer
<1>6. z \in Obj /\ Keeps(a, accesses[a], z)
  BY Zenon, <1>2, <1>4, OverrideKeeps
<1>7. PICK p : p = Persisted(y)
  BY Zenon
<1>8. p \in Obj \cup {None} /\ (p = None \/ p = y)
  BY Zenon, <1>5, <1>7, PersistedObject
<1>9. PICK new : (new = p \/ new = z) /\ StoreAccess(a, new)
  BY Zenon, <1>1, <1>3, <1>4, <1>7
<1>10. new \in Obj \cup {None}
  BY Zenon, <1>6, <1>8, <1>9
<1> QED BY Zenon, <1>1, <1>5, <1>6, <1>8, <1>9, <1>10, ByHandBase

\* Caches catch up, and a process restarts.
LEMMA CatchUpBase ==
    ASSUME IInv, IInv', Base, UNCHANGED <<accesses, issued>>,
           \A a \in AccessName : CacheMoves(a),
           HolderKept("controllerWorker"), HolderKept("sidecarWorker"),
           cw' = cw \/ cw' = ControllerIdle, sw' = sw \/ sw' = SidecarIdle
    PROVE  Base' /\ Moves
<1>1. /\ (cw'.name = None /\ cw'.pc = "idle") \/ cw' = cw
      /\ (sw'.name = None /\ sw'.pc = "idle") \/ sw' = sw
  BY Zenon, ControllerIdleOK, SidecarIdleOK
<1>2. WorkerMoves(cw, cw', accessCache) /\ WorkerMoves(sw, sw', sidecarAccesses)
  BY Zenon, <1>1, ControllerStands, SidecarStands DEF Base, Lineage, WorkerMoves
<1>3. \A a \in AccessName : StoredMoves(a)
  BY Zenon DEF StoredMoves
<1>4. Moves
  BY Zenon, <1>2, <1>3 DEF Moves
<1>5. "idle" # "report" /\ "idle" \notin Granting \cup {"addFinalizer"}
  BY Zenon DEF Granting
<1>6. ControllerCurrent'
  BY Zenon, <1>1, <1>5, ControllerCurrentStays, ControllerCurrentIsStored DEF Base, Lineage
<1>7. SidecarCurrent'
  BY Zenon, <1>1, <1>5, SidecarCurrentStays, SidecarCurrentIsStored DEF Base, Lineage
<1>8. sw'.pc \in Granting \cup {"addFinalizer"} => ~sw'.access.deleting
  BY Zenon, <1>1, <1>5 DEF Base, GrantsOK
<1> QED BY Zenon, <1>4, <1>6, <1>7, <1>8, BaseKept

\* The Controller's cache catches up.
LEMMA ControllerAccessSyncBase ==
    ASSUME IInv, IInv', Base, NEW a \in AccessName, ControllerAccessSync(a) PROVE Base' /\ Moves
<1>1. /\ accessCache' = [accessCache EXCEPT ![a] = accesses[a]]
      /\ freshAccess' = [freshAccess EXCEPT ![a] = @ \cup {"controllerCache"}]
      /\ UNCHANGED <<accesses, sidecarAccesses, issued, cw, sw>>
  BY Zenon DEF ControllerAccessSync, unchangedBySync, envVars
<1>2. \A b \in AccessName : CacheMoves(b)
  BY Zenon, <1>1, InvariantParts DEF CacheMoves, AccessesOK
<1>3. HolderKept("controllerWorker") /\ HolderKept("sidecarWorker")
  BY Zenon, <1>1, InvariantParts DEF HolderKept, AccessesOK
<1> QED BY Zenon, <1>1, <1>2, <1>3, CatchUpBase

\* The Sidecar's cache catches up.
LEMMA SidecarAccessSyncBase ==
    ASSUME IInv, IInv', Base, NEW a \in AccessName, SidecarAccessSync(a) PROVE Base' /\ Moves
<1>1. /\ sidecarAccesses' = [sidecarAccesses EXCEPT ![a] = accesses[a]]
      /\ freshAccess' = [freshAccess EXCEPT ![a] = @ \cup {"sidecarCache"}]
      /\ UNCHANGED <<accesses, accessCache, issued, cw, sw>>
  BY Zenon DEF SidecarAccessSync, unchangedBySync, envVars
<1>2. \A b \in AccessName : CacheMoves(b)
  BY Zenon, <1>1, InvariantParts DEF CacheMoves, AccessesOK
<1>3. HolderKept("controllerWorker") /\ HolderKept("sidecarWorker")
  BY Zenon, <1>1, InvariantParts DEF HolderKept, AccessesOK
<1> QED BY Zenon, <1>1, <1>2, <1>3, CatchUpBase

\* The Controller restarts.
LEMMA ControllerRestartBase ==
    ASSUME IInv, IInv', Base, ControllerRestart PROVE Base' /\ Moves
<1>1. /\ accessCache' = accesses /\ cw' = ControllerIdle
      /\ freshAccess' = Relisted(freshAccess, "controllerCache", "controllerWorker")
      /\ UNCHANGED <<accesses, sidecarAccesses, issued, sw>>
  BY Zenon DEF ControllerRestart, sidecarVars
<1>2. \A b \in AccessName : CacheMoves(b)
  BY Zenon, <1>1 DEF CacheMoves
<1>3. HolderKept("controllerWorker") /\ HolderKept("sidecarWorker")
  BY Zenon, <1>1, InvariantParts DEF HolderKept, AccessesOK, Relisted
<1> QED BY Zenon, <1>1, <1>2, <1>3, CatchUpBase

\* The Sidecar restarts.
LEMMA SidecarRestartBase ==
    ASSUME IInv, IInv', Base, SidecarRestart PROVE Base' /\ Moves
<1>1. /\ sidecarAccesses' = accesses /\ sw' = SidecarIdle
      /\ freshAccess' = Relisted(freshAccess, "sidecarCache", "sidecarWorker")
      /\ UNCHANGED <<accesses, accessCache, issued, cw>>
  BY Zenon DEF SidecarRestart, controllerVars
<1>2. \A b \in AccessName : CacheMoves(b)
  BY Zenon, <1>1 DEF CacheMoves
<1>3. HolderKept("controllerWorker") /\ HolderKept("sidecarWorker")
  BY Zenon, <1>1, InvariantParts DEF HolderKept, AccessesOK, Relisted
<1> QED BY Zenon, <1>1, <1>2, <1>3, CatchUpBase

\* Every step keeps the lineage of copies.
LEMMA NextBase == ASSUME IInv, IInv', Base, [Next]_vars PROVE Base' /\ Moves
<1>1. ASSUME NEW a \in AccessName, ControllerStart(a) \/ SidecarStart(a) PROVE Base' /\ Moves
  BY Zenon, <1>1, ControllerStartBase, SidecarStartBase
<1>2. CASE ControllerStep
  <2>1. CASE ControllerMark
    <3>1. cw.pc = "mark" /\ cw.pc # "idle" /\ TRUE \in BOOLEAN
          /\ WriteMark(TRUE, "readBuckets")
      BY Zenon, <2>1 DEF ControllerMark
    <3> QED BY Zenon, <3>1, WriteMarkBase
  <2>2. CASE ControllerUnmark
    <3>1. cw.pc = "unmark" /\ WriteMark(FALSE, "removeFinalizer")
      BY ZenonT(30), <2>2 DEF ControllerUnmark
    <3>2. cw.pc # "idle" /\ FALSE \in BOOLEAN
      BY Zenon, <3>1
    <3> QED BY Zenon, <3>1, <3>2, WriteMarkBase
  <2> QED
    BY Zenon, <1>2, <2>1, <2>2, ControllerAddFinalizerBase, ControllerReadClaimsBase,
     ControllerReadBucketsBase, ControllerHandoffBase, ControllerReportBase,
     ControllerReadForDeleteBase, ControllerRemoveFinalizerBase DEF ControllerStep
<1>3. CASE SidecarStep
  BY Zenon, <1>3, SidecarAddFinalizerBase, SidecarCheckBucketsBase, SidecarReserveBase,
     SidecarGrantBase, SidecarFillBase, SidecarSetReadyBase, SidecarReportBase,
     SidecarClearStatusBase, SidecarUnprotectBase, SidecarDeleteSecretBase,
     SidecarRevokeBase, SidecarFinishBase DEF SidecarStep
<1>4. CASE Elsewhere
  BY Zenon, <1>4, ElsewhereDoes, ElsewhereBase
<1>5. CASE Informers
  BY Zenon, <1>4, <1>5, ControllerAccessSyncBase, SidecarAccessSyncBase DEF Informers, Elsewhere
<1>6. CASE Environment
  BY Zenon, <1>4, <1>6, UserCreateAccessBase, UserDeleteAccessBase, EditAccessBase,
     ControllerRestartBase, SidecarRestartBase DEF Environment, Elsewhere
<1>7. CASE UNCHANGED vars
  BY Zenon, <1>4, <1>7 DEF Elsewhere
<1> QED BY Zenon, <1>1, <1>2, <1>3, <1>5, <1>6, <1>7 DEF Next
-----------------------------------------------------------------------------
(***************************************************************************)
(* Whose copies stay current.                                              *)
(***************************************************************************)
\* The Sidecar leaves the Controller's worker, claims and what it holds of them alone.
LEMMA SidecarLeavesController ==
    ASSUME IInv, SidecarMoves
    PROVE  UNCHANGED <<cw, claims, claimed, edits>> /\ HolderKept("controllerWorker")
<1>1. ASSUME unchangedBySidecar PROVE UNCHANGED <<cw, claims, claimed, edits>>
  BY Zenon, <1>1 DEF unchangedBySidecar, controllerVars, storedClaims, envVars
<1>2. ASSUME UNCHANGED storedAccesses PROVE HolderKept("controllerWorker")
  BY Zenon, <1>2 DEF storedAccesses, HolderKept
<1>3. ASSUME NEW a \in AccessName, SidecarStart(a)
      PROVE  UNCHANGED <<cw, claims, claimed, edits>> /\ HolderKept("controllerWorker")
  BY Zenon, <1>3, InvariantParts DEF SidecarStart, HolderKept, AfterRead, AccessesOK, controllerVars,
     storedClaims, envVars
<1>4. CASE SidecarRestart
  BY Zenon, <1>4, InvariantParts DEF SidecarRestart, HolderKept, Relisted, AccessesOK, controllerVars,
     storedClaims
<1>5. ASSUME sw.pc # "idle", NEW o \in Outcome, NEW obj, NEW touch, NEW done,
             WriteAccess(o, sw.name, obj, touch, "sidecarWorker", done)
      PROVE  HolderKept("controllerWorker")
  <2>1. sw.name \in AccessName /\ "controllerWorker" # "sidecarWorker"
    BY Zenon, <1>5, SidecarBusy
  <2> QED BY Zenon, <1>5, <2>1, OtherHolders
<1>6. CASE SidecarAddFinalizer
  BY Zenon, <1>1, <1>5, <1>6 DEF SidecarAddFinalizer
<1>7. CASE SidecarSetReady \/ SidecarClearStatus
  <2>1. sw.pc # "idle"
    BY Zenon, <1>7 DEF SidecarSetReady, SidecarClearStatus
  <2> QED BY Zenon, <1>1, <1>5, <1>7, <2>1 DEF SidecarSetReady, SidecarClearStatus, WriteSidecarStatus
<1>8. CASE SidecarReport \/ SidecarFinish
  <2>1. sw.pc # "idle"
    BY Zenon, <1>8 DEF SidecarReport, SidecarFinish
  <2> QED BY Zenon, <1>1, <1>5, <1>8, <2>1 DEF SidecarReport, SidecarFinish
<1>9. CASE SidecarCheckBuckets \/ SidecarReserve \/ SidecarGrant \/ SidecarFill
  <2>1. unchangedBySidecar /\ UNCHANGED storedAccesses
    BY Zenon, <1>9 DEF SidecarCheckBuckets, SidecarReserve, SidecarGrant, SidecarFill
  <2> QED BY Zenon, <1>1, <1>2, <2>1
<1>10. CASE SidecarUnprotect \/ SidecarDeleteSecret \/ SidecarRevoke
  <2>1. unchangedBySidecar /\ UNCHANGED storedAccesses
    BY Zenon, <1>10 DEF SidecarUnprotect, SidecarDeleteSecret, SidecarRevoke
  <2> QED BY Zenon, <1>1, <1>2, <2>1
<1> QED BY Zenon, <1>3, <1>4, <1>6, <1>7, <1>8, <1>9, <1>10 DEF SidecarMoves, SidecarStep
-----------------------------------------------------------------------------
(***************************************************************************)
(* Marks on claims.                                                        *)
(***************************************************************************)
\* An access comes into use only by the handover of the Controller's worker.
NewlyUsed(a) ==
    /\ accesses[a] # None /\ accesses[a].driverName = None /\ HandsOver(a, accesses[a])
    /\ References(accesses'[a]) = References(accesses[a])

\* An access in use was in use before, with the same claims, or is newly used.
LEMMA UseBegins ==
    ASSUME Moves, NEW a \in AccessName, InUse(accesses'[a])
    PROVE  \/ InUse(accesses[a]) /\ References(accesses'[a]) = References(accesses[a])
           \/ NewlyUsed(a)
<1>1. StoredMoves(a)
  BY Zenon DEF Moves
<1>2. CASE accesses'[a] = accesses[a]
  BY Zenon, <1>2
<1>3. CASE accesses[a] # None /\ accesses'[a] # None /\ Keeps(a, accesses[a], accesses'[a])
  <2>1. References(accesses'[a]) = References(accesses[a])
    BY Zenon, <1>3 DEF Keeps, References
  <2> QED BY Zenon, <1>3, <2>1 DEF Keeps, InUse, NewlyUsed
<1> QED BY Zenon, <1>1, <1>2, <1>3 DEF StoredMoves, IsMade, InUse

\* What the worker hands over was checked.
LEMMA HandedOverIsMarked ==
    ASSUME Checked(cw), NEW a \in AccessName, NewlyUsed(a)
    PROVE  \A c \in References(accesses'[a]) : Kept(c)
<1>1. References(accesses'[a]) = References(cw.access)
  BY Zenon DEF NewlyUsed, HandsOver, References
<1>2. /\ cw.name = a /\ "controllerWorker" \in freshAccess[a]
      /\ accesses[a].driverName = None
      /\ \/ cw.pc = "handoff"
         \/ cw.pc = "report" /\ cw.access.driverName # None
  BY Zenon DEF NewlyUsed, HandsOver
<1> QED BY Zenon, <1>1, <1>2 DEF Checked

\* Claims keep their marks, and names stay used up.
MarksGrow ==
    /\ claimed \subseteq claimed'
    /\ \A c \in ClaimName : Kept(c) => Kept(c)'
    /\ \A c \in ClaimName : claims'[c] # None => c \in claimed'

\* While marks only grow, the claims of accesses in use stay marked.
LEMMA UsedAreMarked ==
    ASSUME IInv, IInv', Base, Moves, MarksOK, MarksGrow,
           Checked(cw)'
    PROVE  MarksOK'
<1>1. \A x \in Obj : References(x) \subseteq ClaimName
  BY Zenon, SecretOfType
<1>2. ASSUME NEW a \in AccessName, InUse(accesses'[a])
      PROVE  \A c \in References(accesses'[a]) : Kept(c)'
  <2>1. \A c \in References(accesses'[a]) : Kept(c)
    BY Zenon, <1>2, UseBegins, HandedOverIsMarked DEF MarksOK
  <2>2. accesses'[a] \in Obj
    BY Zenon, <1>2, InvariantParts DEF AccessesOK, InUse
  <2>3. References(accesses'[a]) \subseteq ClaimName
    BY Zenon, <1>1, <2>2
  <2> QED BY Zenon, <2>1, <2>3 DEF MarksGrow
<1> QED BY Zenon, <1>2 DEF MarksOK, MarksGrow, InUse, References

\* Nobody else disturbs what the Controller's worker has checked.
LEMMA CheckedStays ==
    ASSUME IInv, IInv', Base, Moves, MarksOK, MarksGrow, UNCHANGED cw,
           HolderKept("controllerWorker")
    PROVE  MarksOK'
<1>1. cw \in ControllerWorker /\ Checked(cw)
  BY Zenon, InvariantParts DEF ControllerHolds, MarksOK
<1>2. cw.pc # "idle" => cw.access \in Obj /\ cw.name \in AccessName
                        /\ References(cw.access) \subseteq ClaimName
  <2> HAVE cw.pc # "idle"
  <2>1. cw.access \in Obj /\ cw.name \in AccessName
    BY Zenon, InvariantParts DEF ControllerHolds
  <2> QED BY Zenon, <2>1, SecretOfType
<1>3. ASSUME cw.pc \in {"mark", "readBuckets"}, NEW c \in ClaimName, cw.claims[c] # None
      PROVE  c \in claimed' /\ (cw.error = "none" /\ c \notin cw.todo => Kept(c)')
  BY Zenon, <1>1, <1>3 DEF Checked, MarksGrow
<1>4. ASSUME cw.pc = "handoff", NEW c \in References(cw.access) PROVE Kept(c)'
  BY Zenon, <1>1, <1>2, <1>4 DEF Checked, MarksGrow
<1>5. ASSUME cw.pc = "report", "controllerWorker" \in freshAccess'[cw.name],
             cw.access.driverName # None, accesses'[cw.name].driverName = None,
             NEW c \in References(cw.access)
      PROVE  Kept(c)'
  <2>1. cw.name \in AccessName /\ References(cw.access) \subseteq ClaimName
    BY Zenon, <1>2, <1>5
  <2>2. "controllerWorker" \in freshAccess[cw.name] /\ accesses'[cw.name] = accesses[cw.name]
    BY Zenon, <1>5, <2>1 DEF HolderKept
  <2>3. Kept(c)
    BY Zenon, <1>1, <1>5, <2>2 DEF Checked
  <2> QED BY Zenon, <2>1, <2>3 DEF MarksGrow
<1>6. ASSUME cw.pc = "unmark", NEW c \in cw.todo, NEW a \in AccessName, InUse(accesses'[a])
      PROVE  c \notin References(accesses'[a])
  <2>1. ~NewlyUsed(a)
    BY Zenon, <1>6 DEF NewlyUsed, HandsOver
  <2> QED BY Zenon, <1>1, <1>6, <2>1, UseBegins DEF Checked
<1>7. Checked(cw)'
  BY Zenon, <1>1, <1>3, <1>4, <1>5, <1>6 DEF Checked, InUse, References
<1> QED BY Zenon, <1>7, UsedAreMarked

\* Claims that stay as they are keep their marks.
LEMMA MarksStay == ASSUME MarksOK, UNCHANGED <<claims, claimed>> PROVE MarksGrow
BY Zenon DEF MarksOK, MarksGrow, Kept

\* One claim changes, and not its mark.
LEMMA OneClaimChanges ==
    ASSUME MarksOK, NEW c \in ClaimName, claimed \subseteq claimed', c \in claimed',
           \A d \in ClaimName : d # c => claims'[d] = claims[d],
           \/ c \notin claimed
           \/ claims'[c] = None
           \/ claims[c] # None /\ claims'[c].marked = claims[c].marked
    PROVE  MarksGrow
<1>1. ASSUME NEW d \in ClaimName, Kept(d) PROVE Kept(d)'
  <2>1. CASE d = c
    BY Zenon, <1>1, <2>1 DEF Kept
  <2>2. CASE d # c
    BY Zenon, <1>1, <2>2 DEF Kept
  <2> QED BY Zenon, <2>1, <2>2
<1>2. ASSUME NEW d \in ClaimName, claims'[d] # None PROVE d \in claimed'
  BY Zenon, <1>2 DEF MarksOK
<1> QED BY Zenon, <1>1, <1>2 DEF MarksGrow

\* Claims are provisioned, and go away, with their marks.
LEMMA ClaimProceedsMarks ==
    ASSUME IInv, MarksOK, NEW c \in ClaimName, ClaimProceeds(c) PROVE MarksGrow
<1>1. \A d \in ClaimName : d # c => claims'[d] = claims[d]
  BY Zenon, InvariantParts DEF ClaimProceeds, ClaimsOK
<1>2. claimed \subseteq claimed' /\ c \in claimed'
  BY Zenon DEF ClaimProceeds, MarksOK
<1>3. ASSUME c \in claimed PROVE claims[c] # None /\ claims'[c].marked = claims[c].marked
  <2>1. claims[c] # None /\ claims[c] \in ClaimObject /\ claims \in [ClaimName -> ClaimObject \cup {None}]
    BY Zenon, <1>3, InvariantParts DEF ClaimProceeds, ClaimsOK
  <2>2. \/ claims' = [claims EXCEPT ![c].bound = TRUE]
        \/ claims' = [claims EXCEPT ![c].ready = TRUE, ![c].protocols = ClaimProtocols[c]]
    BY Zenon, <1>3 DEF ClaimProceeds
  <2>3. claims'[c].marked = claims[c].marked
    BY ZenonT(60), <2>1, <2>2 DEF ClaimObject
  <2> QED BY Zenon, <2>1, <2>3
<1> QED BY Zenon, <1>1, <1>2, <1>3, OneClaimChanges

\* A claim that is deleted keeps its mark.
LEMMA ClaimRetiresMarks ==
    ASSUME IInv, MarksOK, NEW c \in ClaimName, ClaimRetires(c) PROVE MarksGrow
<1>1. \A d \in ClaimName : d # c => claims'[d] = claims[d]
  BY Zenon, InvariantParts DEF ClaimRetires, ClaimsOK
<1>2. claimed \subseteq claimed' /\ c \in claimed'
  BY Zenon DEF ClaimRetires, MarksOK
<1>3. claims[c] # None /\ claims[c] \in ClaimObject /\ claims \in [ClaimName -> ClaimObject \cup {None}]
  BY Zenon, InvariantParts DEF ClaimRetires, ClaimsOK
<1>4. \/ claims' = [claims EXCEPT ![c].deleting = TRUE]
      \/ claims' = [claims EXCEPT ![c].ready = FALSE]
      \/ claims' = [claims EXCEPT ![c] = None]
  BY Zenon DEF ClaimRetires
<1>5. claims'[c] = None \/ claims'[c].marked = claims[c].marked
  BY Zenon, <1>3, <1>4 DEF ClaimObject
<1> QED BY Zenon, <1>1, <1>2, <1>3, <1>5, OneClaimChanges

\* Users and informers leave marks alone.
LEMMA OthersMarks == ASSUME IInv, MarksOK, OthersMove PROVE MarksGrow
<1>1. ASSUME NEW a \in AccessName, ControllerAccessSync(a) \/ SidecarAccessSync(a) PROVE MarksGrow
  <2>1. UNCHANGED <<claims, claimed>>
    BY Zenon, <1>1 DEF ControllerAccessSync, SidecarAccessSync, unchangedBySync, storedClaims, envVars
  <2> QED BY Zenon, <2>1, MarksStay
<1>2. ASSUME NEW a \in AccessName, UserCreateAccess(a) \/ UserDeleteAccess(a) \/ EditAccess(a)
      PROVE  MarksGrow
  <2>1. unchangedByUser
    BY Zenon, <1>2 DEF UserCreateAccess, UserDeleteAccess, EditAccess
  <2>2. UNCHANGED <<claims, claimed>>
    BY Zenon, <2>1 DEF unchangedByUser, storedClaims
  <2> QED BY Zenon, <2>2, MarksStay
<1>3. ASSUME NEW c \in ClaimName, ClaimSync(c) \/ BucketSync(c) PROVE MarksGrow
  <2>1. UNCHANGED <<claims, claimed>>
    BY Zenon, <1>3 DEF ClaimSync, BucketSync, storedClaims, envVars
  <2> QED BY Zenon, <2>1, MarksStay
<1>4. ASSUME NEW s \in SecretName, SecretSync(s) \/ ChangeSecret(s) PROVE MarksGrow
  <2>1. UNCHANGED <<storedClaims, claimed>>
    BY Zenon, <1>4 DEF SecretSync, ChangeSecret, envVars
  <2>2. UNCHANGED <<claims, claimed>>
    BY Zenon, <2>1 DEF storedClaims
  <2> QED BY Zenon, <2>2, MarksStay
<1>5. CASE AdminCreateClass \/ UNCHANGED vars
  <2>1. UNCHANGED <<claims, claimed>>
    BY Zenon, <1>5 DEF AdminCreateClass, vars, storedClaims, envVars
  <2> QED BY Zenon, <2>1, MarksStay
<1> QED
  BY Zenon, <1>1, <1>2, <1>3, <1>4, <1>5, ClaimProceedsMarks, ClaimRetiresMarks
  DEF OthersMove, Elsewhere

\* The Controller's worker goes on while claims stay, with nothing to check or with a
\* report of its own copy.
LEMMA NothingChecked ==
    ASSUME IInv, IInv', Base, Moves, MarksOK, UNCHANGED <<claims, claimed>>,
           \/ cw'.pc \in {"idle", "removeFinalizer", "readForDelete"}
           \/ cw'.pc \in {"addFinalizer", "readClaims"} /\ cw'.error = "none"
           \/ /\ cw'.pc = "report"
              /\ "controllerWorker" \in freshAccess'[cw'.name] /\ cw'.access.driverName # None
                   => accesses'[cw'.name].driverName # None
    PROVE  MarksOK'
<1>1. MarksGrow
  BY Zenon, MarksStay
<1>2. Checked(cw)'
  BY Zenon DEF Checked
<1> QED BY Zenon, <1>1, <1>2, UsedAreMarked

\* How a reconcile of the Controller begins.
LEMMA StartControllerChecks ==
    ASSUME NEW a \in AccessName, NEW x \in Obj, NEW v, v = startController(a, x)
    PROVE  \/ v.pc \in {"idle", "readForDelete"}
           \/ v.pc \in {"addFinalizer", "readClaims"} /\ v.error = "none"
           \/ v.pc = "report" /\ v.name = a /\ v.access = x
<1>1. PICK w : w = [ControllerIdle EXCEPT !.pc = "readClaims", !.name = a, !.access = x]
  BY Zenon
<1>2. /\ w \in ControllerWorker /\ w.pc = "readClaims" /\ w.name = a /\ w.access = x
      /\ w.error = "none"
  BY Zenon, <1>1 DEF ControllerIdle, ControllerWorker, ControllerPc, NoClaims, Error, Obj
<1>3. v \in {ControllerIdle, [w EXCEPT !.pc = "readForDelete"], FailController(w, "terminal"),
             w, [w EXCEPT !.pc = "addFinalizer"]}
  BY Zenon, <1>1 DEF startController
<1>4. "terminal" \in Error
  BY Zenon DEF Error, TerminalError
<1>5. CASE v = FailController(w, "terminal")
  BY SMTT(60), <1>2, <1>4, <1>5, FailControllerOK
<1>6. CASE v \in {[w EXCEPT !.pc = "readForDelete"], w, [w EXCEPT !.pc = "addFinalizer"]}
  BY Zenon, <1>2, <1>6 DEF ControllerWorker
<1>7. CASE v = ControllerIdle
  BY Zenon, <1>7, ControllerIdleOK
<1> QED BY Zenon, <1>3, <1>5, <1>6, <1>7

\* A reconcile of the Controller begins with nothing checked.
LEMMA ControllerStartMarks ==
    ASSUME IInv, IInv', Base, Moves, MarksOK, NEW a \in AccessName, ControllerStart(a)
    PROVE  MarksOK'
<1>1. /\ UNCHANGED <<accesses, claims, claimed>>
      /\ cw' = (IF accessCache[a] = None THEN ControllerIdle
                                         ELSE startController(a, accessCache[a]))
  BY Zenon DEF ControllerStart, storedClaims, envVars
<1>2. \/ cw'.pc \in {"idle", "readForDelete"}
      \/ cw'.pc \in {"addFinalizer", "readClaims"} /\ cw'.error = "none"
      \/ /\ cw'.pc = "report" /\ cw'.name = a /\ cw'.access = accessCache[a]
         /\ accessCache[a] # None
  <2>1. CASE accessCache[a] = None
    BY Zenon, <1>1, <2>1, ControllerIdleOK
  <2>2. CASE accessCache[a] # None
    <3>1. accessCache[a] \in Obj
      BY Zenon, <2>2, InvariantParts DEF AccessesOK
    <3>2. cw' = startController(a, accessCache[a])
      BY Zenon, <1>1, <2>2
    <3> QED BY SMTT(60), <2>2, <3>1, <3>2, StartControllerChecks
  <2> QED BY Zenon, <2>1, <2>2
<1>3. ASSUME cw'.pc = "report", cw'.name = a, "controllerWorker" \in freshAccess'[a]
      PROVE  accessCache[a] = accesses[a]
  <2>1. PICK mine : mine = AfterRead(freshAccess[a], "controllerCache",
                IF cw'.pc = "idle" THEN None ELSE accessCache[a], "controllerWorker")
    BY Zenon
  <2>2. freshAccess' = [freshAccess EXCEPT ![a] = mine]
    BY Zenon, <2>1 DEF ControllerStart
  <2>3. freshAccess'[a] = mine
    BY Zenon, <2>2, InvariantParts DEF AccessesOK
  <2>4. "controllerCache" \in freshAccess[a]
    BY Zenon, <1>3, <2>1, <2>3 DEF AfterRead
  <2> QED BY Zenon, <2>4, InvariantParts DEF CachesOK, CachesCoherent
<1>4. \/ cw'.pc \in {"idle", "removeFinalizer", "readForDelete"}
      \/ cw'.pc \in {"addFinalizer", "readClaims"} /\ cw'.error = "none"
      \/ /\ cw'.pc = "report"
         /\ "controllerWorker" \in freshAccess'[cw'.name] /\ cw'.access.driverName # None
              => accesses'[cw'.name].driverName # None
  BY Zenon, <1>1, <1>2, <1>3
<1> QED BY Zenon, <1>1, <1>4, NothingChecked

\* The Controller's worker fails before it has changed its copy.
LEMMA PreparingFails ==
    ASSUME IInv, IInv', Base, Moves, MarksOK, UNCHANGED <<claims, claimed>>,
           cw.pc \in Preparing, cw'.pc = "report", cw'.access = cw.access
    PROVE  MarksOK'
<1>1. cw'.access.driverName = None
  BY Zenon, InvariantParts DEF ControllerHolds
<1> QED BY Zenon, <1>1, NothingChecked

\* The finalizer is added.
LEMMA ControllerAddFinalizerMarks ==
    ASSUME IInv, IInv', Base, Moves, MarksOK, ControllerAddFinalizer PROVE MarksOK'
<1>1. cw.pc = "addFinalizer" /\ UNCHANGED <<claims, claimed>>
  BY Zenon DEF ControllerAddFinalizer, unchangedByController, storedClaims, envVars
<1>2. cw.pc # "idle" /\ cw.pc \in Preparing
  BY Zenon, <1>1 DEF Preparing
<1>3. cw.name \in AccessName /\ cw.access \in Obj /\ cw \in ControllerWorker /\ cw.error = "none"
  BY Zenon, <1>1, <1>2, ControllerHasCopy DEF MarksOK, Checked
<1>4. PICK obj : obj = [cw.access EXCEPT !.finalizer = TRUE]
  BY Zenon
<1>5. \/ cw' = [cw EXCEPT !.pc = "readClaims", !.access = obj]
      \/ cw' = FailController(cw, "retry")
  BY Zenon, <1>4 DEF ControllerAddFinalizer
<1>6. CASE cw' = [cw EXCEPT !.pc = "readClaims", !.access = obj]
  <2>1. cw'.pc = "readClaims" /\ cw'.error = "none"
    BY Zenon, <1>3, <1>6 DEF ControllerWorker
  <2> QED BY Zenon, <1>1, <2>1, NothingChecked
<1>7. CASE cw' = FailController(cw, "retry")
  <2>1. cw' = FailController(cw, "retry") /\ "retry" \in Error
    BY Zenon, <1>7 DEF Error
  <2>2. cw'.pc = "report" /\ cw'.access = cw.access
    BY SMTT(60), <1>3, <2>1, FailControllerOK
  <2> QED BY Zenon, <1>1, <1>2, <2>2, PreparingFails
<1> QED BY Zenon, <1>5, <1>6, <1>7

\* What is read of claims when their cache does not lag.
LEMMA ClaimsSeen ==
    ASSUME "claims" \notin Lagging, NEW c \in ClaimName
    PROVE  getAllBucketClaims[c] = IF c \in References(cw.access) THEN claims[c] ELSE None
BY Zenon DEF getAllBucketClaims, Seen

\* After reading the claims, the marked ones are known to be marked.
LEMMA ControllerReadClaimsMarks ==
    ASSUME "claims" \notin Lagging, IInv, IInv', Base, Moves, MarksOK, ControllerReadClaims
    PROVE  MarksOK'
<1>1. PICK left : left = {c \in ClaimName : getAllBucketClaims[c] # None
                                            /\ ~getAllBucketClaims[c].marked}
  BY Zenon
<1>2. /\ cw.pc = "readClaims" /\ ReadClaims(left, "mark", "readBuckets")
      /\ left \subseteq ClaimName
  BY Zenon, <1>1 DEF ControllerReadClaims
<1>3. cw.pc # "idle" /\ "mark" # "unmark"
  BY Zenon, <1>2
<1>4. cw \in ControllerWorker /\ cw.error = "none"
  BY Zenon, <1>2, <1>3, ControllerHasCopy DEF MarksOK, Checked
<1>5. /\ cw'.error = cw.error /\ cw'.todo = left
      /\ cw'.pc = (IF left = {} THEN "readBuckets" ELSE "mark")
      /\ cw'.claims = getAllBucketClaims /\ unchangedByController /\ UNCHANGED claims
  BY Zenon, <1>2, <1>3, <1>4, ReadClaimsDoes
<1>6. UNCHANGED <<claims, claimed>>
  BY Zenon, <1>5 DEF unchangedByController, envVars
<1>7. ASSUME NEW c \in ClaimName, cw'.claims[c] # None
      PROVE  c \in claimed' /\ (c \notin cw'.todo => Kept(c)')
  <2>1. claims[c] = getAllBucketClaims[c] /\ claims[c] # None
    BY Zenon, <1>5, <1>7, ClaimsSeen
  <2>2. c \in claimed
    BY Zenon, <2>1 DEF MarksOK
  <2>3. c \notin left => claims[c].marked
    BY Zenon, <1>1, <2>1
  <2> QED BY Zenon, <1>5, <1>6, <2>2, <2>3 DEF Kept
<1>8. /\ cw'.pc \in {"mark", "readBuckets"} /\ cw'.error = "none"
      /\ cw'.pc = "readBuckets" => cw'.todo = {}
  BY Zenon, <1>4, <1>5
<1>9. Checked(cw)'
  BY Zenon, <1>7, <1>8 DEF Checked
<1> QED BY Zenon, <1>6, <1>9, MarksStay, UsedAreMarked

\* A claim is marked, and no other loses its mark.
LEMMA ControllerMarkMarks ==
    ASSUME IInv, IInv', Base, Moves, MarksOK, ControllerMark PROVE MarksOK'
<1>1. cw.pc = "mark" /\ WriteMark(TRUE, "readBuckets")
  BY Zenon DEF ControllerMark
<1>2. cw.pc # "idle" /\ TRUE \in BOOLEAN /\ cw.pc \in Preparing
  BY Zenon, <1>1 DEF Preparing
<1>3. PICK c \in ClaimName, o \in Outcome : MarkWritten(TRUE, "readBuckets", c, o)
  BY Zenon, <1>1, <1>2, WriteMarkDoes
<1>4. /\ cw \in ControllerWorker /\ Checked(cw) /\ cw.error \in Error /\ cw.error # "bucketGone"
      /\ cw.access.driverName = None
  <2>1. cw \in ControllerWorker /\ cw.access.driverName = None
    BY Zenon, <1>2, InvariantParts DEF ControllerHolds
  <2> QED BY Zenon, <1>1, <2>1 DEF MarksOK, Checked, ControllerWorker
<1>5. /\ \A d \in ClaimName : d # c => claims'[d] = claims[d]
      /\ Applied(o) => claims[c] # None /\ claims'[c].marked
      /\ ~Applied(o) => claims'[c] = claims[c]
      /\ UNCHANGED claimed
  <2>1. Applied(o) => claims[c] \in ClaimObject /\ claims[c] # None
    BY ZenonT(60), <1>3, InvariantParts DEF MarkWritten, ClaimsOK, ClaimOK
  <2> QED BY Zenon, <1>3, <2>1 DEF MarkWritten, ClaimObject, unchangedByController, envVars
<1>6. MarksGrow
  <2>1. ASSUME NEW d \in ClaimName, Kept(d) PROVE Kept(d)'
    <3>1. CASE d = c
      BY Zenon, <1>5, <2>1, <3>1 DEF Kept
    <3>2. CASE d # c
      BY Zenon, <1>5, <2>1, <3>2 DEF Kept
    <3> QED BY Zenon, <3>1, <3>2
  <2>2. ASSUME NEW d \in ClaimName, claims'[d] # None PROVE d \in claimed'
    BY Zenon, <1>5, <2>2 DEF MarksOK
  <2> QED BY Zenon, <1>5, <2>1, <2>2 DEF MarksGrow
<1>7. PICK e : e = IF o = "ok" THEN "none" ELSE "retry"
  BY Zenon
<1>8. /\ Join(cw.error, e) # "bucketGone"
      /\ Join(cw.error, e) = "none" => cw.error = "none" /\ o = "ok" /\ Applied(o)
  BY Zenon, <1>4, <1>7 DEF Join, Error, TerminalError, Applied
<1>9. ASSUME Join(cw.error, e) = "none", NEW d \in ClaimName, cw.claims[d] # None,
             d \notin cw.todo \ {c}
      PROVE  Kept(d)'
  <2>1. CASE d = c
    <3>1. c \in claimed
      BY Zenon, <1>1, <1>4, <1>9, <2>1 DEF Checked
    <3> QED BY Zenon, <1>5, <1>8, <1>9, <2>1, <3>1 DEF Kept
  <2>2. CASE d # c
    <3>1. Kept(d)
      BY Zenon, <1>1, <1>4, <1>8, <1>9, <2>2 DEF Checked
    <3> QED BY Zenon, <1>6, <3>1 DEF MarksGrow
  <2> QED BY Zenon, <2>1, <2>2
<1>10. \A d \in ClaimName : cw.claims[d] # None => d \in claimed'
  BY Zenon, <1>1, <1>4, <1>5 DEF Checked
<1>11. Checked(cw)'
  <2>1. CASE /\ cw'.pc = cw.pc /\ cw'.todo = cw.todo \ {c} /\ cw'.claims = cw.claims
             /\ cw'.error = Join(cw.error, IF o = "ok" THEN "none" ELSE "retry")
    <3>1. /\ cw'.pc = "mark" /\ cw'.error = Join(cw.error, e) /\ cw'.error # "bucketGone"
      BY Zenon, <1>1, <1>7, <1>8, <2>1
    <3> QED BY Zenon, <1>9, <1>10, <2>1, <3>1 DEF Checked
  <2>2. CASE cw'.pc = "report"
    <3>1. cw'.access.driverName = None
      BY Zenon, <1>3, <1>4 DEF MarkWritten
    <3> QED BY Zenon, <2>2, <3>1 DEF Checked
  <2>3. CASE /\ cw'.pc = "readBuckets" /\ cw'.todo = {} /\ cw'.claims = cw.claims
             /\ cw'.error = cw.error /\ cw.todo \ {c} = {}
             /\ Join(cw.error, IF o = "ok" THEN "none" ELSE "retry") = "none"
    <3>1. Join(cw.error, e) = "none" /\ cw'.error = "none"
      BY Zenon, <1>7, <1>8, <2>3
    <3> QED BY Zenon, <1>9, <1>10, <2>3, <3>1 DEF Checked
  <2> QED BY Zenon, <1>3, <2>1, <2>2, <2>3 DEF MarkWritten
<1> QED BY Zenon, <1>6, <1>11, UsedAreMarked

\* The Buckets are read.
LEMMA ControllerReadBucketsMarks ==
    ASSUME IInv, IInv', Base, Moves, MarksOK, ControllerReadBuckets PROVE MarksOK'
<1>1. cw.pc = "readBuckets" /\ UNCHANGED <<claims, claimed, accesses>>
  BY Zenon DEF ControllerReadBuckets, unchangedByController, storedClaims, envVars
<1>2. cw.pc # "idle" /\ cw.pc \in Preparing
  BY Zenon, <1>1 DEF Preparing
<1>3. cw.name \in AccessName /\ cw.access \in Obj /\ cw \in ControllerWorker
  BY Zenon, <1>2, ControllerHasCopy
<1>4. PICK bkts : bkts = Seen("buckets", bucketCache, buckets)
  BY Zenon
<1>5. cw' = initialise(cw, bkts)
  BY Zenon, <1>4 DEF ControllerReadBuckets
<1>6. \/ cw' = ControllerIdle
      \/ cw' = FailController(cw, "retry") \/ cw' = FailController(cw, "terminal")
      \/ /\ cw' = [cw EXCEPT !.pc = "handoff", !.claims = NoClaims]
         /\ ~waitingOnBucketClaims(cw.claims, bkts, References(cw.access))
  BY Zenon, <1>5 DEF initialise
<1>7. CASE cw' = ControllerIdle
  <2>1. cw'.pc = "idle"
    BY Zenon, <1>7, ControllerIdleOK
  <2> QED BY Zenon, <1>1, <2>1, NothingChecked
<1>8. CASE cw' = FailController(cw, "retry") \/ cw' = FailController(cw, "terminal")
  <2>1. "retry" \in Error /\ "terminal" \in Error
    BY Zenon DEF Error, TerminalError
  <2>2. cw'.pc = "report" /\ cw'.access = cw.access
    BY SMTT(60), <1>3, <1>8, <2>1, FailControllerOK
  <2> QED BY Zenon, <1>1, <1>2, <2>2, PreparingFails
<1>9. CASE /\ cw' = [cw EXCEPT !.pc = "handoff", !.claims = NoClaims]
           /\ ~waitingOnBucketClaims(cw.claims, bkts, References(cw.access))
  <2>1. cw'.pc = "handoff" /\ cw'.access = cw.access
    BY Zenon, <1>3, <1>9 DEF ControllerWorker
  <2>2. \A c \in References(cw.access) : c \in ClaimName /\ cw.claims[c] # None
    <3>1. \A c \in References(cw.access) : c \in ClaimName
      BY Zenon, <1>3, ReferencesOK
    <3> QED BY Zenon, <1>9, <3>1 DEF waitingOnBucketClaims
  <2>3. \A c \in References(cw.access) : Kept(c)
    BY Zenon, <1>1, <2>2 DEF MarksOK, Checked
  <2>4. \A c \in References(cw.access) : Kept(c)'
    BY Zenon, <1>1, <2>3 DEF Kept
  <2>5. Checked(cw)'
    BY Zenon, <2>1, <2>4 DEF Checked
  <2>6. MarksGrow
    BY Zenon, <1>1, MarksStay
  <2> QED BY Zenon, <2>5, <2>6, UsedAreMarked
<1> QED BY Zenon, <1>6, <1>7, <1>8, <1>9

\* The access is handed over, or a copy with checked claims is left to the report.
LEMMA ControllerHandoffMarks ==
    ASSUME IInv, IInv', Base, Moves, MarksOK, ControllerHandoff PROVE MarksOK'
<1>1. cw.pc = "handoff" /\ UNCHANGED <<claims, claimed>>
  BY Zenon DEF ControllerHandoff, unchangedByController, storedClaims, envVars
<1>2. cw.pc # "idle"
  BY Zenon, <1>1
<1>3. cw.name \in AccessName /\ cw.access \in Obj /\ cw \in ControllerWorker /\ Complete(cw.access)
  BY Zenon, <1>2, ControllerHasCopy
<1>4. PICK local : local = [cw.access EXCEPT !.readyToUse = NotNil(@),
                        !.accessedBuckets = References(cw.access),
                        !.driverName = Class.driverName,
                        !.authenticationType = Class.authenticationType,
                        !.error = "none"]
  BY Zenon
<1>5. local \in Obj /\ Kin(cw.access, local)
  BY Zenon, <1>3, <1>4, HandedOverLeaves
<1>6. \/ cw' = ControllerIdle
      \/ cw' = FailController([cw EXCEPT !.access = local], "retry")
  BY Zenon, <1>4 DEF ControllerHandoff
<1>7. CASE cw' = ControllerIdle
  <2>1. cw'.pc = "idle"
    BY Zenon, <1>7, ControllerIdleOK
  <2> QED BY Zenon, <1>1, <2>1, NothingChecked
<1>8. CASE cw' = FailController([cw EXCEPT !.access = local], "retry")
  <2>1. PICK w : w = [cw EXCEPT !.access = local]
    BY Zenon
  <2>2. w \in ControllerWorker /\ w.access = local /\ w.name = cw.name
    BY Zenon, <1>3, <1>5, <2>1 DEF ControllerWorker, Obj
  <2>3. cw' = FailController(w, "retry") /\ "retry" \in Error
    BY Zenon, <1>8, <2>1 DEF Error
  <2>4. cw'.pc = "report" /\ cw'.access = local
    BY SMTT(60), <1>3, <1>5, <2>2, <2>3, FailControllerOK
  <2>5. \A c \in References(cw.access) : Kept(c)
    BY Zenon, <1>1 DEF MarksOK, Checked
  <2>6. References(local) = References(cw.access)
    BY Zenon, <1>5 DEF Kin, References
  <2>7. \A c \in References(cw.access) : Kept(c)'
    BY Zenon, <1>1, <2>5 DEF Kept
  <2>8. Checked(cw)'
    BY Zenon, <2>4, <2>6, <2>7 DEF Checked
  <2>9. MarksGrow
    BY Zenon, <1>1, MarksStay
  <2> QED BY Zenon, <2>8, <2>9, UsedAreMarked
<1> QED BY Zenon, <1>6, <1>7, <1>8

\* The error is recorded, or the Controller restarts.
LEMMA ControllerEndsMarks ==
    ASSUME IInv, IInv', Base, Moves, MarksOK, ControllerReport \/ ControllerRestart PROVE MarksOK'
<1>1. cw' = ControllerIdle /\ UNCHANGED <<claims, claimed>>
  BY Zenon DEF ControllerReport, ControllerRestart, unchangedByController, storedClaims, envVars
<1>2. cw'.pc = "idle"
  BY Zenon, <1>1, ControllerIdleOK
<1> QED BY Zenon, <1>1, <1>2, NothingChecked

\* The finalizer is removed, or the copy is reported as it was read.
LEMMA ControllerRemoveFinalizerMarks ==
    ASSUME IInv, IInv', Base, Moves, MarksOK, ControllerRemoveFinalizer PROVE MarksOK'
<1>1. cw.pc = "removeFinalizer" /\ UNCHANGED <<claims, claimed>>
  BY Zenon DEF ControllerRemoveFinalizer, unchangedByController, storedClaims, envVars
<1>2. cw.pc # "idle"
  BY Zenon, <1>1
<1>3. cw.name \in AccessName /\ cw.access \in Obj /\ cw \in ControllerWorker
  BY Zenon, <1>2, ControllerHasCopy
<1>4. PICK obj : obj = [cw.access EXCEPT !.finalizer = FALSE]
  BY Zenon
<1>5. PICK o \in Outcome :
        /\ WriteAccess(o, cw.name, obj, FALSE, "controllerWorker", o = "ok")
        /\ cw' = IF o = "ok" THEN ControllerIdle ELSE FailController(cw, "retry")
  BY Zenon, <1>4 DEF ControllerRemoveFinalizer
<1>6. CASE o = "ok"
  <2>1. cw'.pc = "idle"
    BY Zenon, <1>5, <1>6, ControllerIdleOK
  <2> QED BY Zenon, <1>1, <2>1, NothingChecked
<1>7. CASE o # "ok"
  <2>1. cw' = FailController(cw, "retry") /\ "retry" \in Error
    BY Zenon, <1>5, <1>7 DEF Error
  <2>2. cw'.pc = "report" /\ cw'.access = cw.access /\ cw'.name = cw.name
    BY SMTT(60), <1>3, <2>1, FailControllerOK
  <2>3. HolderKept("controllerWorker")
    BY Zenon, <1>3, <1>5, <1>7, OtherHolders
  <2>4. "controllerWorker" \in freshAccess'[cw.name] => cw.access = accesses'[cw.name]
    BY SMTT(60), <1>1, <1>3, <2>3, InvariantParts DEF HolderKept, ControllerOK, ControllerCoherent
  <2> QED BY Zenon, <1>1, <2>2, <2>4, NothingChecked
<1> QED BY Zenon, <1>6, <1>7

\* What the Controller is about to unmark is not in use.
Unused(c) == \A a \in AccessName : InUse(accesses[a]) => c \notin References(accesses[a])

\* A claim that no cached access refers to is used by none: a cache that lags has an
\* event to deliver, but it never misses an access that was handed over.
LEMMA UnneededIsUnused ==
    ASSUME IInv, Base, cw.pc = "readForDelete", NEW c \in ClaimName,
           ~hasBucketAccessReferences(c, accessCache, cw.name)
    PROVE  Unused(c)
<1> SUFFICES ASSUME NEW a \in AccessName, InUse(accesses[a]), c \in References(accesses[a])
             PROVE  FALSE
  BY Zenon DEF Unused
<1>1. /\ accesses[a] # None /\ accesses[a].driverName # None /\ ~accesses[a].deleting
      /\ accessCache[a] # None /\ accessCache[a].uid = accesses[a].uid
      /\ cw.name = a => cw.access.uid = accesses[a].uid
  BY Zenon DEF InUse, Base, KnownOK
<1>2. CASE a # cw.name
  <2>1. accesses[a] \in Copies(a) /\ accessCache[a] \in Copies(a)
    BY Zenon, <1>1 DEF Copies
  <2>2. accessCache[a].spec = accesses[a].spec
    BY Zenon, <1>1, <2>1 DEF Base, Lineage, UidsOK
  <2>3. c \in References(accessCache[a])
    BY Zenon, <2>2 DEF References
  <2> QED BY Zenon, <1>1, <1>2, <2>3 DEF hasBucketAccessReferences
<1>3. CASE a = cw.name
  <2>1. cw.access \in Obj /\ cw.access.deleting
    BY Zenon, <1>3, InvariantParts DEF ControllerHolds, Retiring
  <2>2. cw.access # None
    BY Zenon, <2>1, AccessAssumption DEF Obj
  <2>3. Follows(cw.access, accesses[a])
    BY Zenon, <1>3 DEF Base, Lineage, OrderOK, Chain
  <2> QED BY Zenon, <1>1, <1>3, <2>1, <2>2, <2>3 DEF Follows
<1> QED BY Zenon, <1>2, <1>3

\* The claims are read before unmarking.
LEMMA ControllerReadForDeleteMarks ==
    ASSUME IInv, IInv', Base, Moves, MarksOK, ControllerReadForDelete PROVE MarksOK'
<1>1. cw.pc = "readForDelete" /\ cw.pc # "idle"
  BY Zenon DEF ControllerReadForDelete
<1>2. cw \in ControllerWorker
  BY Zenon, <1>1, ControllerHasCopy
<1>3. PICK left : left = {c \in ClaimName :
          /\ getAllBucketClaims[c] # None /\ getAllBucketClaims[c].marked
          /\ ~hasBucketAccessReferences(c, accessCache, cw.name)}
  BY Zenon
<1>4. left \subseteq ClaimName /\ ReadClaims(left, "unmark", "removeFinalizer")
  BY Zenon, <1>3 DEF ControllerReadForDelete
<1>5. /\ cw'.todo = left /\ cw'.pc \in {"unmark", "removeFinalizer"}
      /\ unchangedByController /\ UNCHANGED <<storedAccesses, claims>>
  BY Zenon, <1>2, <1>4, ReadClaimsDoes
<1>6. UNCHANGED <<accesses, claims, claimed>>
  BY Zenon, <1>5 DEF unchangedByController, storedAccesses, envVars
<1>7. \A c \in left : Unused(c)
  BY Zenon, <1>1, <1>3, UnneededIsUnused
<1>8. \A c \in left : Unused(c)'
  BY Zenon, <1>6, <1>7 DEF Unused
<1>9. Checked(cw)'
  BY Zenon, <1>5, <1>8 DEF Checked, Unused
<1>10. MarksGrow
  BY Zenon, <1>6, MarksStay
<1> QED BY Zenon, <1>9, <1>10, UsedAreMarked

\* A claim that is unmarked is not in use.
LEMMA ControllerUnmarkMarks ==
    ASSUME IInv, IInv', Base, Moves, MarksOK, ControllerUnmark PROVE MarksOK'
<1>1. cw.pc = "unmark" /\ WriteMark(FALSE, "removeFinalizer") /\ cw.pc # "idle"
  BY Zenon DEF ControllerUnmark
<1>2. PICK c \in ClaimName, o \in Outcome : MarkWritten(FALSE, "removeFinalizer", c, o)
  BY Zenon, <1>1, WriteMarkDoes
<1>3. cw.name \in AccessName
  BY Zenon, <1>1, ControllerHasCopy
<1>4. /\ UNCHANGED <<accesses, freshAccess, claimed>> /\ c \in cw.todo
      /\ cw'.name = cw.name /\ cw'.access = cw.access
      /\ \A d \in ClaimName : d # c => claims'[d] = claims[d]
  BY Zenon, <1>2 DEF MarkWritten, storedAccesses, unchangedByController, envVars
<1>5. \A d \in cw.todo : Unused(d)
  BY Zenon, <1>1 DEF MarksOK, Checked, Unused
<1>6. \A d \in ClaimName : claims'[d] # None => d \in claimed'
  <2>1. claims'[c] # None => claims[c] # None
    BY Zenon, <1>2, InvariantParts DEF MarkWritten, ClaimsOK, ClaimOK
  <2> QED BY Zenon, <1>4, <2>1 DEF MarksOK
<1>7. ASSUME NEW a \in AccessName, InUse(accesses'[a]), NEW d \in References(accesses'[a])
      PROVE  Kept(d)'
  <2>1. InUse(accesses[a]) /\ d \in References(accesses[a])
    BY Zenon, <1>4, <1>7
  <2>2. Kept(d) /\ d # c
    BY Zenon, <1>4, <1>5, <2>1 DEF MarksOK, Unused
  <2>3. d \in ClaimName
    BY Zenon, <2>1, ReferencesOK, InvariantParts DEF InUse, AccessesOK
  <2> QED BY Zenon, <1>4, <2>2, <2>3 DEF Kept
<1>8. Checked(cw)'
  <2>1. CASE cw'.pc = cw.pc /\ cw'.todo = cw.todo \ {c}
    <3>1. \A d \in cw'.todo : Unused(d)'
      BY Zenon, <1>4, <1>5, <2>1 DEF Unused
    <3> QED BY Zenon, <1>1, <2>1, <3>1 DEF Checked, Unused
  <2>2. CASE cw'.pc = "report"
    <3>1. "controllerWorker" \in freshAccess[cw.name] => cw.access = accesses[cw.name]
      BY Zenon, <1>1, <1>3, InvariantParts DEF ControllerOK, ControllerCoherent
    <3> QED BY Zenon, <1>4, <2>2, <3>1 DEF Checked
  <2>3. CASE cw'.pc = "removeFinalizer"
    BY Zenon, <2>3 DEF Checked
  <2> QED BY Zenon, <1>2, <2>1, <2>2, <2>3 DEF MarkWritten
<1> QED BY Zenon, <1>6, <1>7, <1>8 DEF MarksOK

\* Every step keeps marks, if the Controller reads claims as they are.
LEMMA NextMarks ==
    ASSUME "claims" \notin Lagging, IInv, IInv', Base, Moves, MarksOK, [Next]_vars
    PROVE  MarksOK'
<1>1. CASE ControllerMoves
  BY Zenon, <1>1, ControllerStartMarks, ControllerAddFinalizerMarks, ControllerReadClaimsMarks,
     ControllerMarkMarks, ControllerReadBucketsMarks, ControllerHandoffMarks,
     ControllerEndsMarks, ControllerReadForDeleteMarks, ControllerUnmarkMarks,
     ControllerRemoveFinalizerMarks DEF ControllerMoves, ControllerStep
<1>2. CASE SidecarMoves
  <2>1. UNCHANGED <<cw, claims, claimed>> /\ HolderKept("controllerWorker")
    BY Zenon, <1>2, SidecarLeavesController
  <2>2. MarksGrow
    BY Zenon, <2>1, MarksStay
  <2> QED BY Zenon, <2>1, <2>2, CheckedStays
<1>3. CASE OthersMove
  <2>1. UNCHANGED cw /\ HolderKept("controllerWorker")
    BY Zenon, <1>3, OthersLeave
  <2>2. MarksGrow
    BY Zenon, <1>3, OthersMarks
  <2> QED BY Zenon, <2>1, <2>2, CheckedStays
<1> QED BY Zenon, <1>1, <1>2, <1>3, WhoMoves
=============================================================================
