-------------------------- MODULE AccessGuarantees --------------------------
(***************************************************************************)
(* What users may rely on, for every value of the constants: marks on      *)
(* claims that are in use, complete cleanup, and credentials that work.    *)
(***************************************************************************)
EXTENDS AccessProofs, AccessLineageProofs, AccessSecretProofs

(***************************************************************************)
(* The guarantees.                                                         *)
(***************************************************************************)
\* At first there is neither an access nor a Secret, and both workers are idle.
LEMMA InitLInv == Init => LInv
<1> SUFFICES ASSUME Init PROVE LInv
  BY Zenon
<1>1. /\ cw = ControllerIdle /\ sw = SidecarIdle /\ edits = 0
      /\ accesses = [a \in AccessName |-> None]
      /\ accessCache = accesses /\ sidecarAccesses = accesses
      /\ freshAccess = [a \in AccessName |-> {"controllerCache", "sidecarCache"}]
      /\ secrets = [s \in SecretName |-> None]
      /\ freshSecret = [s \in SecretName |-> {"cache"}]
      /\ claims = [c \in ClaimName |-> IF c \in Prepared THEN ReadyClaim(c) ELSE None]
      /\ claimed = Prepared
  BY Zenon DEF Init
<1>2. /\ cw.pc = "idle" /\ cw.name = None /\ sw.pc = "idle" /\ sw.name = None
      /\ None \notin AccessName
  BY Zenon, <1>1, AccessAssumption DEF ControllerIdle, SidecarIdle
<1>3. \A a \in AccessName : /\ accesses[a] = None /\ accessCache[a] = None
                            /\ sidecarAccesses[a] = None /\ Copies(a) = {}
                            /\ cw.name # a /\ sw.name # a
                            /\ "controllerWorker" \notin freshAccess[a]
                            /\ "sidecarWorker" \notin freshAccess[a]
  BY Zenon, <1>1, <1>2 DEF Copies
<1>4. \A s \in SecretName : secrets[s] = None /\ "worker" \notin freshSecret[s]
  BY Zenon, <1>1
<1>5. Lineage /\ KnownOK
  BY Zenon, <1>3 DEF Lineage, UidsOK, CopiesComplete, OrderOK, Follows, Chain,
     ControllerCurrent, SidecarCurrent, KnownOK
<1>6. OwnersOK
  BY Zenon, <1>4 DEF OwnersOK
<1>7. GrantsOK
  BY Zenon, <1>2, <1>3 DEF GrantsOK, Granting
<1>8. MarksOK
  BY Zenon, <1>1, <1>2, <1>3 DEF MarksOK, Checked, InUse
<1>9. CleanupOK
  BY Zenon, <1>2, <1>3 DEF CleanupOK, CleanupIsComplete, Cleaned
<1>10. UsableOK
  BY Zenon, <1>2, <1>3, <1>4 DEF UsableOK, Achieved
<1> QED BY Zenon, <1>5, <1>6, <1>7, <1>8, <1>9, <1>10 DEF LInv

\* Every step keeps it.
LEMMA NextLInv == IInv /\ IInv' /\ LInv /\ [Next]_vars => LInv'
<1> SUFFICES ASSUME IInv, IInv', LInv, [Next]_vars PROVE LInv'
  BY Zenon
<1>1. Base
  BY Zenon DEF LInv, Base
<1>2. Base' /\ Moves
  BY Zenon, <1>1, NextBase
<1>3. OwnersOK /\ OwnersOK'
  BY Zenon, <1>1, <1>2, NextOwners DEF LInv
<1>4. ASSUME "claims" \notin Lagging PROVE MarksOK'
  BY Zenon, <1>1, <1>2, <1>4, NextMarks DEF LInv
<1>5. ASSUME "secrets" \notin Lagging PROVE CleanupOK'
  BY Zenon, <1>1, <1>2, <1>3, <1>5, NextCleanup DEF LInv
<1>6. ASSUME DistinctBuckets, edits' = 0 PROVE UsableOK'
  <2>1. edits' = edits /\ edits = 0
    BY Zenon, <1>6, EditsCount
  <2>2. UsableOK
    BY Zenon, <1>6, <2>1 DEF LInv
  <2> QED BY Zenon, <1>1, <1>2, <1>6, <2>1, <2>2, NextUsable
<1> QED BY Zenon, <1>2, <1>3, <1>4, <1>5, <1>6 DEF LInv, Base, DistinctBuckets

\* Both invariants hold in every reachable state.
LEMMA AlwaysLInv == Spec => [](IInv /\ LInv)
<1>1. Init => IInv /\ LInv
  BY Zenon, InitOK, InitLInv
<1>2. (IInv /\ LInv) /\ [Next]_vars => (IInv /\ LInv)'
  BY Zenon, NextOK, NextLInv
<1> QED BY <1>1, <1>2, PTL DEF Spec

\* While BucketClaims are read current, every claim that an access in use was initialised
\* with is marked as accessed: unmarking for one access (unmarkUnaccessedBucketClaims)
\* never unprotects the claim of another, however the reconciles of the two interleave.
THEOREM MarksProtect ==
    ASSUME "claims" \notin Lagging PROVE Spec => []AccessedClaimsAreMarked
<1>1. IInv /\ LInv => AccessedClaimsAreMarked
  <2> SUFFICES ASSUME IInv, LInv, NEW a \in AccessName, accesses[a] # None,
                      accesses[a].driverName # None, ~accesses[a].deleting,
                      NEW c \in accesses[a].accessedBuckets, claims[c] # None
               PROVE  claims[c].marked
    BY Zenon DEF AccessedClaimsAreMarked
  <2>1. MarksOK /\ Lineage
    BY Zenon DEF LInv
  <2>2. Complete(accesses[a])
    BY Zenon, <2>1 DEF Lineage, CopiesComplete, Copies
  <2>3. c \in References(accesses[a])
    BY Zenon, <2>2 DEF Complete
  <2> QED BY Zenon, <2>1, <2>3 DEF MarksOK, InUse, Kept
<1> QED BY <1>1, AlwaysLInv, PTL

\* While Secrets are read current, an access that the Sidecar hands back for removal of its
\* finalizer has no granted account and no Secret left (reconcileDelete), whatever calls
\* failed, whatever was retried, and wherever the Sidecar was restarted.
THEOREM CleanupLeavesNothing ==
    ASSUME "secrets" \notin Lagging PROVE Spec => []CleanupIsComplete
<1>1. IInv /\ LInv => CleanupIsComplete
  BY Zenon DEF LInv, CleanupOK
<1> QED BY <1>1, AlwaysLInv, PTL

\* As long as nobody edits an access or a Secret by hand or deletes a claim, and the claims of
\* one access have backend buckets of their own, a ready access is usable: each of its Secrets
\* exists, is its own and opens a bucket that its account has been granted.  This holds with
\* any caches old, any calls failing and any restarts.
THEOREM ReadyMeansUsable ==
    ASSUME DistinctBuckets PROVE Spec => [](edits = 0 => ReadyIsUsable)
<1>1. IInv /\ LInv => (edits = 0 => ReadyIsUsable)
  BY Zenon DEF LInv, UsableOK, Usable, FilledSecrets, GrantedBuckets, Owned, ReadyIsUsable
<1> QED BY <1>1, AlwaysLInv, PTL
=============================================================================
