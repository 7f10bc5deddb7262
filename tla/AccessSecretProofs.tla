------------------------- MODULE AccessSecretProofs -------------------------
(***************************************************************************)
(* Steps preserve what AccessLineage says of Secrets and accounts: owners, *)
(* cleanup, and credentials that work.                                     *)
(***************************************************************************)
EXTENDS AccessFacts

\* What the Sidecar's worker has achieved, clause by clause.  The proofs cite these two
\* lemmas where they look inside Achieved, before and after the step.
LEMMA AchievedBefore ==
    Achieved(sw) =>
      LET refs == References(sw.access)
          done == refs \ sw.todo
          current == "sidecarWorker" \in freshAccess[sw.name]
      IN  /\ sw.pc \in {"idle", "addFinalizer", "checkBuckets", "clearStatus"} =>
               \A s \in SecretName : "worker" \notin freshSecret[s]
          /\ sw.pc \in {"reserve", "grant", "fill", "setReady"} =>
               \A s \in SecretName : "worker" \in freshSecret[s] => Owned(s, sw.access.uid)
          /\ sw.pc \in {"addFinalizer", "checkBuckets"} => sw.error = "none" /\ sw.reserved = {}
          /\ sw.pc \in {"reserve", "fill"} => sw.error # "bucketGone"
          /\ sw.pc = "reserve" /\ sw.error = "none" =>
               /\ sw.reserved = {SecretOf(sw.access, c) : c \in done}
               /\ OneSecretEach(sw.access, done)
               /\ current => OwnSecrets(sw.access, done)
          /\ sw.pc \in {"grant", "fill", "setReady"} =>
               /\ OneSecretEach(sw.access, refs)
               /\ current => OwnSecrets(sw.access, refs)
          /\ sw.pc = "grant" => sw.error = "none"
          /\ sw.pc = "fill" /\ sw.error = "none" /\ current => FilledSecrets(sw.access, done)
          /\ sw.pc \in {"fill", "setReady"} => GrantedBuckets(sw.access)
          /\ sw.pc = "setReady" /\ current => Usable(sw.access)
          /\ sw.pc = "report" /\ current /\ sw.access.readyToUse = "true" => Usable(sw.access)
          /\ sw.pc = "deleteSecret" =>
               LET s == SecretOf(sw.access, sw.at)
               IN  secrets[s] # None => secrets[s].owner = sw.access.uid
          /\ sw.pc \in {"unprotect", "deleteSecret", "revoke", "finish"} /\ accesses[sw.name] # None
               => (accesses[sw.name].uid = sw.access.uid => accesses[sw.name].readyToUse # "true")
BY Zenon DEF Achieved

\* The same after the step.
LEMMA AchievedAfter ==
    (
      LET refs == References(sw.access)
          done == refs \ sw.todo
          current == "sidecarWorker" \in freshAccess[sw.name]
      IN  /\ sw.pc \in {"idle", "addFinalizer", "checkBuckets", "clearStatus"} =>
               \A s \in SecretName : "worker" \notin freshSecret[s]
          /\ sw.pc \in {"reserve", "grant", "fill", "setReady"} =>
               \A s \in SecretName : "worker" \in freshSecret[s] => Owned(s, sw.access.uid)
          /\ sw.pc \in {"addFinalizer", "checkBuckets"} => sw.error = "none" /\ sw.reserved = {}
          /\ sw.pc \in {"reserve", "fill"} => sw.error # "bucketGone"
          /\ sw.pc = "reserve" /\ sw.error = "none" =>
               /\ sw.reserved = {SecretOf(sw.access, c) : c \in done}
               /\ OneSecretEach(sw.access, done)
               /\ current => OwnSecrets(sw.access, done)
          /\ sw.pc \in {"grant", "fill", "setReady"} =>
               /\ OneSecretEach(sw.access, refs)
               /\ current => OwnSecrets(sw.access, refs)
          /\ sw.pc = "grant" => sw.error = "none"
          /\ sw.pc = "fill" /\ sw.error = "none" /\ current => FilledSecrets(sw.access, done)
          /\ sw.pc \in {"fill", "setReady"} => GrantedBuckets(sw.access)
          /\ sw.pc = "setReady" /\ current => Usable(sw.access)
          /\ sw.pc = "report" /\ current /\ sw.access.readyToUse = "true" => Usable(sw.access)
          /\ sw.pc = "deleteSecret" =>
               LET s == SecretOf(sw.access, sw.at)
               IN  secrets[s] # None => secrets[s].owner = sw.access.uid
          /\ sw.pc \in {"unprotect", "deleteSecret", "revoke", "finish"} /\ accesses[sw.name] # None
               => (accesses[sw.name].uid = sw.access.uid => accesses[sw.name].readyToUse # "true"))' => Achieved(sw)'
BY Zenon DEF Achieved
-----------------------------------------------------------------------------
(***************************************************************************)
(* The Sidecar's other steps, told by their effects.                       *)
(***************************************************************************)
\* Join returns no error only for none.
LEMMA JoinNone ==
    ASSUME NEW e \in Error, e # "bucketGone", NEW f \in {"none", "retry", "terminal"},
           Join(e, f) = "none"
    PROVE  e = "none" /\ f = "none"
BY Zenon DEF Join, Error, TerminalError

\* Joined errors never tell that a Bucket is gone.
LEMMA JoinNotGone == \A e, f : Join(e, f) # "bucketGone"
BY Zenon DEF Join
-----------------------------------------------------------------------------
(***************************************************************************)
(* Whose copies stay current.                                              *)
(***************************************************************************)
\* The Controller leaves the Sidecar's worker, Secrets and accounts alone.
LEMMA ControllerLeavesSidecar ==
    ASSUME IInv, ControllerMoves
    PROVE  /\ UNCHANGED <<sw, secrets, freshSecret, accounts, edits>>
           /\ HolderKept("sidecarWorker")
<1> DEFINE Same == UNCHANGED <<sw, secrets, freshSecret, accounts, edits>>
<1>1. ASSUME unchangedByController PROVE Same
  BY Zenon, <1>1 DEF unchangedByController, sidecarVars, storedSecrets, envVars
<1>2. ASSUME UNCHANGED storedAccesses PROVE HolderKept("sidecarWorker")
  BY Zenon, <1>2 DEF storedAccesses, HolderKept
<1>3. ASSUME NEW a \in AccessName, ControllerStart(a) PROVE Same /\ HolderKept("sidecarWorker")
  BY Zenon, <1>3, InvariantParts DEF ControllerStart, HolderKept, AfterRead, AccessesOK, sidecarVars,
     storedSecrets, envVars
<1>4. CASE ControllerRestart
  BY Zenon, <1>4, InvariantParts DEF ControllerRestart, HolderKept, Relisted, AccessesOK, sidecarVars,
     storedSecrets
<1>5. ASSUME cw.pc # "idle", NEW o \in Outcome, NEW obj, NEW touch, NEW done,
             WriteAccess(o, cw.name, obj, touch, "controllerWorker", done)
      PROVE  HolderKept("sidecarWorker")
  <2>1. cw.name \in AccessName /\ "controllerWorker" # "sidecarWorker"
    BY Zenon, <1>5, InvariantParts DEF ControllerHolds
  <2> QED BY Zenon, <1>5, <2>1, OtherHolders
<1>6. CASE ControllerAddFinalizer \/ ControllerHandoff
  <2>1. cw.pc # "idle"
    BY Zenon, <1>6 DEF ControllerAddFinalizer, ControllerHandoff
  <2> QED BY Zenon, <1>1, <1>5, <1>6, <2>1 DEF ControllerAddFinalizer, ControllerHandoff
<1>7. CASE ControllerReport \/ ControllerRemoveFinalizer
  <2>1. cw.pc # "idle"
    BY Zenon, <1>7 DEF ControllerReport, ControllerRemoveFinalizer
  <2> QED BY Zenon, <1>1, <1>5, <1>7, <2>1 DEF ControllerReport, ControllerRemoveFinalizer
<1>8. CASE ControllerReadClaims \/ ControllerReadForDelete
  <2>1. unchangedByController /\ UNCHANGED storedAccesses
    BY Zenon, <1>8 DEF ControllerReadClaims, ControllerReadForDelete, ReadClaims
  <2> QED BY Zenon, <1>1, <1>2, <2>1
<1>9. CASE ControllerMark \/ ControllerUnmark
  <2>1. unchangedByController /\ UNCHANGED storedAccesses
    BY Zenon, <1>9 DEF ControllerMark, ControllerUnmark, WriteMark
  <2> QED BY Zenon, <1>1, <1>2, <2>1
<1>10. CASE ControllerReadBuckets
  <2>1. /\ unchangedByController /\ UNCHANGED accesses
        /\ freshAccess' = freshAccess \/ freshAccess' = Forget(freshAccess, "controllerWorker")
    BY Zenon, <1>10 DEF ControllerReadBuckets
  <2>2. HolderKept("sidecarWorker")
    BY Zenon, <2>1, InvariantParts DEF Forget, HolderKept, AccessesOK
  <2> QED BY Zenon, <1>1, <2>1, <2>2
<1> QED BY Zenon, <1>3, <1>4, <1>6, <1>7, <1>8, <1>9, <1>10 DEF ControllerMoves, ControllerStep
-----------------------------------------------------------------------------
(***************************************************************************)
(* Secrets and their owners.                                               *)
(***************************************************************************)
\* A Secret is as before, gone, without owner, or owned by the access of the Sidecar's
\* worker that names it.
OwnerMoves(s) ==
    secrets'[s] # None =>
      \/ secrets[s] # None /\ secrets'[s].owner = secrets[s].owner
      \/ secrets'[s].owner = NoUid
      \/ /\ sw.pc = "reserve" /\ secrets'[s].owner = sw.access.uid
         /\ \E c \in References(sw.access) : s = SecretOf(sw.access, c)

\* Owners go on naming their Secrets.
LEMMA OwnersKept ==
    ASSUME IInv, IInv', Base, Moves, OwnersOK, \A s \in SecretName : OwnerMoves(s)
    PROVE  OwnersOK'
<1> SUFFICES ASSUME NEW s \in SecretName, secrets'[s] # None
             PROVE  /\ secrets'[s].owner <= issued'
                    /\ \A a \in AccessName : \A x \in Copies(a)' :
                         x.uid = secrets'[s].owner => \E c \in References(x) : s = SecretOf(x, c)
  BY Zenon DEF OwnersOK
<1>1. /\ issued \in Nat /\ issued' \in Nat /\ issued <= issued'
      /\ secrets'[s].owner \in Nat /\ (secrets[s] # None => secrets[s].owner \in Nat)
  <2>1. issued \in Nat /\ issued' \in Nat
    BY SMTT(60), AccessAssumption, InvariantParts DEF CountersOK
  <2>2. secrets'[s] \in SecretObject /\ (secrets[s] # None => secrets[s] \in SecretObject)
    BY Zenon, InvariantParts DEF SecretsOK
  <2> QED BY SMTT(60), <2>1, <2>2, AccessAssumption DEF Moves, SecretObject, Uid, NoUid
<1>2. secrets'[s].owner <= issued
  <2>1. CASE secrets[s] # None /\ secrets'[s].owner = secrets[s].owner
    BY Zenon, <2>1 DEF OwnersOK
  <2>2. CASE secrets'[s].owner = NoUid
    BY SMTT(60), <1>1, <2>2 DEF NoUid
  <2>3. CASE sw.pc = "reserve" /\ secrets'[s].owner = sw.access.uid
    <3>1. sw.name \in AccessName /\ sw.access \in Copies(sw.name)
      BY Zenon, <2>3, SidecarHasCopy
    <3> QED BY Zenon, <2>3, <3>1 DEF Base, Lineage, UidsOK
  <2> QED BY Zenon, <2>1, <2>2, <2>3 DEF OwnerMoves
<1>3. ASSUME NEW a \in AccessName, NEW x \in Copies(a)', x.uid = secrets'[s].owner
      PROVE  \E c \in References(x) : s = SecretOf(x, c)
  <2>1. Derived(a, x)
    <3>1. ~JustMade(a, x)
      BY SMTT(60), <1>1, <1>2, <1>3 DEF JustMade, IsMade
    <3> QED BY Zenon, <3>1, CopiesCome
  <2>2. PICK z \in Copies(a) : z.uid = x.uid /\ z.spec = x.spec
    BY Zenon, <2>1 DEF Derived
  <2>3. \E c \in References(z) : s = SecretOf(z, c)
    <3>1. CASE secrets[s] # None /\ secrets'[s].owner = secrets[s].owner
      BY Zenon, <1>3, <2>2, <3>1 DEF OwnersOK
    <3>2. CASE secrets'[s].owner = NoUid
      <4>1. z.uid \in Uid
        BY Zenon, CopiesTyped, ObjFields DEF Typed
      <4> QED BY SMTT(60), <1>3, <2>2, <3>2, <4>1, AccessAssumption DEF Uid, NoUid
    <3>3. CASE /\ sw.pc = "reserve" /\ secrets'[s].owner = sw.access.uid
               /\ \E c \in References(sw.access) : s = SecretOf(sw.access, c)
      <4>1. sw.name \in AccessName /\ sw.access \in Copies(sw.name)
        BY Zenon, <3>3, SidecarHasCopy
      <4>2. z.spec = sw.access.spec
        BY SMTT(60), <1>3, <2>2, <3>3, <4>1 DEF Base, Lineage, UidsOK
      <4> QED BY Zenon, <3>3, <4>2 DEF References, SecretOf
    <3> QED BY Zenon, <3>1, <3>2, <3>3 DEF OwnerMoves
  <2> QED BY Zenon, <2>2, <2>3 DEF References, SecretOf
<1> QED BY SMTT(60), <1>1, <1>2, <1>3 DEF Moves

\* What users, the garbage collector and informers do to Secret s.
OthersDo(s) ==
    /\ "worker" \in freshSecret'[s] => "worker" \in freshSecret[s] /\ secrets'[s] = secrets[s]
    /\ \/ secrets'[s] = secrets[s]
       \/ secrets'[s] # None /\ secrets'[s].owner = NoUid /\ edits' # edits
       \/ /\ Erased(s)
          /\ \/ edits' # edits
             \/ \A a \in AccessName : accesses[a] # None => accesses[a].uid # secrets[s].owner

\* Users make and delete one Secret at a time.
LEMMA ChangeSecretDoes ==
    ASSUME IInv, NEW s \in SecretName, ChangeSecret(s)
    PROVE  UNCHANGED accounts /\ \A t \in SecretName : OthersDo(t)
<1>1. /\ freshSecret' = Touch(freshSecret, s) /\ UNCHANGED accounts
      /\ \/ /\ edits' = edits + 1 /\ secrets[s] = None
            /\ secrets' = [secrets EXCEPT ![s] =
                 [owner |-> NoUid, finalizer |-> FALSE, deleting |-> FALSE, data |-> None]]
         \/ /\ secrets[s] # None /\ secrets' = [secrets EXCEPT ![s] = Deleted(@)]
            /\ \/ edits' = edits + 1
               \/ \A a \in AccessName : accesses[a] # None => accesses[a].uid # secrets[s].owner
  BY Zenon DEF ChangeSecret
<1>2. edits' = edits + 1 => edits' # edits
  BY SMTT(60), AccessBounds, InvariantParts DEF CountersOK
<1>3. freshSecret'[s] = {} /\ \A t \in SecretName : t # s => freshSecret'[t] = freshSecret[t]
  BY Zenon, <1>1, InvariantParts DEF Touch, SecretsOK
<1>4. \A t \in SecretName : t # s => secrets'[t] = secrets[t]
  BY Zenon, <1>1, InvariantParts DEF SecretsOK
<1>5. \A t \in SecretName : t # s => OthersDo(t)
  BY Zenon, <1>3, <1>4 DEF OthersDo
<1>6. OthersDo(s)
  <2>1. CASE /\ edits' = edits + 1
             /\ secrets' = [secrets EXCEPT ![s] =
                 [owner |-> NoUid, finalizer |-> FALSE, deleting |-> FALSE, data |-> None]]
    <3>1. PICK new : new = [owner |-> NoUid, finalizer |-> FALSE, deleting |-> FALSE, data |-> None]
      BY Zenon
    <3>2. new \in SecretObject /\ new.owner = NoUid
      BY Zenon, <3>1 DEF SecretObject
    <3>3. secrets'[s] = new
      BY Zenon, <2>1, <3>1, InvariantParts DEF SecretsOK
    <3> QED BY Zenon, <1>2, <1>3, <2>1, <3>2, <3>3, AccessAssumption DEF OthersDo
  <2>2. CASE /\ secrets[s] # None /\ secrets' = [secrets EXCEPT ![s] = Deleted(@)]
             /\ \/ edits' = edits + 1
                \/ \A a \in AccessName : accesses[a] # None => accesses[a].uid # secrets[s].owner
    <3>1. secrets'[s] = Deleted(secrets[s])
      BY Zenon, <2>2, InvariantParts DEF SecretsOK
    <3>2. Erased(s)
      BY Zenon, <2>2, <3>1, DeletedIsErased, InvariantParts
    <3> QED BY Zenon, <1>2, <1>3, <2>2, <3>2 DEF OthersDo
  <2> QED BY Zenon, <1>1, <2>1, <2>2
<1> QED BY Zenon, <1>1, <1>5, <1>6

\* Everything that is neither a step of the Controller nor of the Sidecar.
LEMMA OthersSecrets ==
    ASSUME IInv, OthersMove PROVE UNCHANGED accounts /\ \A t \in SecretName : OthersDo(t)
<1>1. ASSUME UNCHANGED <<secrets, freshSecret, accounts>>
      PROVE  UNCHANGED accounts /\ \A t \in SecretName : OthersDo(t)
  BY Zenon, <1>1 DEF OthersDo
<1>2. ASSUME NEW a \in AccessName,
             \/ ControllerAccessSync(a) \/ SidecarAccessSync(a)
             \/ UserCreateAccess(a) \/ UserDeleteAccess(a) \/ EditAccess(a)
      PROVE  UNCHANGED <<secrets, freshSecret, accounts>>
  <2>1. unchangedBySync \/ unchangedByUser
    BY Zenon, <1>2 DEF ControllerAccessSync, SidecarAccessSync, UserCreateAccess,
       UserDeleteAccess, EditAccess
  <2> QED BY Zenon, <2>1 DEF unchangedBySync, unchangedByUser, storedSecrets
<1>3. ASSUME NEW c \in ClaimName,
             ClaimSync(c) \/ BucketSync(c) \/ ClaimProceeds(c) \/ ClaimRetires(c)
      PROVE  UNCHANGED <<secrets, freshSecret, accounts>>
  <2>1. UNCHANGED <<storedSecrets, accounts>>
    BY Zenon, <1>3 DEF ClaimSync, BucketSync, ClaimProceeds, ClaimRetires, unchangedByClaims
  <2> QED BY Zenon, <2>1 DEF storedSecrets
<1>4. ASSUME NEW s \in SecretName, SecretSync(s)
      PROVE  UNCHANGED accounts /\ \A t \in SecretName : OthersDo(t)
  <2>1. /\ UNCHANGED <<secrets, accounts>>
        /\ freshSecret' = [freshSecret EXCEPT ![s] = freshSecret[s] \cup {"cache"}]
    BY Zenon, <1>4 DEF SecretSync
  <2>2. \A t \in SecretName : "worker" \in freshSecret'[t] => "worker" \in freshSecret[t]
    BY Zenon, <2>1, InvariantParts DEF SecretsOK
  <2> QED BY Zenon, <2>1, <2>2 DEF OthersDo
<1>5. CASE AdminCreateClass \/ UNCHANGED vars
  <2>1. UNCHANGED <<secrets, freshSecret, accounts>>
    BY Zenon, <1>5 DEF AdminCreateClass, vars, storedSecrets
  <2> QED BY Zenon, <2>1, <1>1
<1> QED BY Zenon, <1>1, <1>2, <1>3, <1>4, <1>5, ChangeSecretDoes DEF OthersMove, Elsewhere

\* The steps of the Sidecar that leave Secrets alone.
SecretsApart ==
    \/ \E a \in AccessName : SidecarStart(a)
    \/ SidecarAddFinalizer \/ SidecarCheckBuckets \/ SidecarGrant \/ SidecarSetReady
    \/ SidecarReport \/ SidecarClearStatus \/ SidecarRevoke \/ SidecarFinish \/ SidecarRestart

\* None of these steps touches a Secret.
LEMMA ApartDoes == ASSUME SecretsApart PROVE UNCHANGED secrets
<1>1. ASSUME NEW a \in AccessName, SidecarStart(a) PROVE UNCHANGED secrets
  BY Zenon, <1>1 DEF SidecarStart, storedSecrets
<1>2. ASSUME SidecarAddFinalizer \/ SidecarCheckBuckets \/ SidecarGrant \/ SidecarRevoke
      PROVE  UNCHANGED secrets
  <2>1. UNCHANGED storedSecrets
    BY Zenon, <1>2 DEF SidecarAddFinalizer, SidecarCheckBuckets, SidecarGrant, SidecarRevoke
  <2> QED BY Zenon, <2>1 DEF storedSecrets
<1>3. ASSUME \/ SidecarSetReady \/ SidecarReport \/ SidecarClearStatus \/ SidecarFinish
             \/ SidecarRestart
      PROVE  UNCHANGED secrets
  BY Zenon, <1>3 DEF SidecarSetReady, SidecarReport, SidecarClearStatus, SidecarFinish, SidecarRestart
<1> QED BY Zenon, <1>1, <1>2, <1>3 DEF SecretsApart

\* A worker's copy names what is still to do.
LEMMA TodoNamed ==
    ASSUME IInv, sw.pc # "idle"
    PROVE  /\ sw.todo \subseteq References(sw.access) /\ sw.access.uid \in Uid
           /\ sw.access.accountID \in BOOLEAN /\ sw.name \in AccessName
BY Zenon, ObjFields, InvariantParts DEF SidecarHolds

\* Every step keeps the owners of Secrets, or makes the Sidecar's access one.
LEMMA NextOwnerMoves ==
    ASSUME IInv, Base, [Next]_vars PROVE \A s \in SecretName : OwnerMoves(s)
<1>1. ASSUME UNCHANGED secrets PROVE \A s \in SecretName : OwnerMoves(s)
  BY Zenon, <1>1 DEF OwnerMoves
<1>2. CASE ControllerMoves
  <2>1. UNCHANGED secrets
    BY Zenon, <1>2, ControllerLeavesSidecar
  <2> QED BY Zenon, <1>1, <2>1
<1>3. CASE OthersMove
  <2>1. \A s \in SecretName : OthersDo(s)
    BY Zenon, <1>3, OthersSecrets
  <2> QED BY Zenon, <2>1 DEF OthersDo, OwnerMoves, Erased
<1>4. CASE SecretsApart
  BY Zenon, <1>1, <1>4, ApartDoes
<1>5. CASE SidecarReserve
  <2>1. PICK c \in ClaimName, e \in Error, s \in SecretName : Reserving(c, e, s)
    BY Zenon, <1>5, ReserveDoes
  <2>2. sw.pc = "reserve" /\ c \in References(sw.access)
    BY Zenon, <1>5, <2>1, TodoNamed DEF SidecarReserve, Reserving
  <2>3. OwnerMoves(s)
    BY Zenon, <2>1, <2>2 DEF Reserving, OwnerMoves, Owned
  <2>4. \A t \in SecretName : t # s => OwnerMoves(t)
    BY Zenon, <2>1 DEF Reserving, OthersStay, OwnerMoves
  <2> QED BY Zenon, <2>3, <2>4
<1>6. CASE SidecarFill
  <2>1. PICK c \in ClaimName, e \in Error, s \in SecretName : Filling(c, e, s)
    BY Zenon, <1>6, FillDoes
  <2>2. "worker" \in freshSecret[s] => secrets[s] # None
    BY Zenon, InvariantParts DEF SecretsOK, SecretOK
  <2>3. OwnerMoves(s)
    BY Zenon, <2>1, <2>2 DEF Filling, OwnerMoves
  <2>4. \A t \in SecretName : t # s => OwnerMoves(t)
    BY Zenon, <2>1 DEF Filling, OthersStay, OwnerMoves
  <2> QED BY Zenon, <2>3, <2>4
<1>7. CASE SidecarUnprotect
  <2>1. PICK c \in ClaimName, s \in SecretName : Unprotecting(c, s)
    BY Zenon, <1>7, UnprotectDoes
  <2>2. OwnerMoves(s)
    BY Zenon, <2>1 DEF Unprotecting, OwnerMoves, Owned
  <2>3. \A t \in SecretName : t # s => OwnerMoves(t)
    BY Zenon, <2>1 DEF Unprotecting, OthersStay, OwnerMoves
  <2> QED BY Zenon, <2>2, <2>3
<1>8. CASE SidecarDeleteSecret
  <2>1. PICK s \in SecretName : Deleting(s)
    BY Zenon, <1>8, DeleteSecretDoes
  <2>2. OwnerMoves(s)
    BY Zenon, <2>1 DEF Deleting, OwnerMoves, Erased
  <2>3. \A t \in SecretName : t # s => OwnerMoves(t)
    BY Zenon, <2>1 DEF Deleting, OthersStay, OwnerMoves
  <2> QED BY Zenon, <2>2, <2>3
<1> QED BY Zenon, <1>2, <1>3, <1>4, <1>5, <1>6, <1>7, <1>8, WhoMoves
    DEF SidecarMoves, SidecarStep, SecretsApart

\* Every step keeps Secrets with accesses that name them.
LEMMA NextOwners ==
    ASSUME IInv, IInv', Base, Moves, OwnersOK, [Next]_vars PROVE OwnersOK'
BY Zenon, NextOwnerMoves, OwnersKept
-----------------------------------------------------------------------------
(***************************************************************************)
(* Cleanup.                                                                *)
(***************************************************************************)
\* Nothing is given to the owner of UID u.
Harmless(u) ==
    /\ accounts[u] = {} => accounts'[u] = {}
    /\ \A s \in SecretName : secrets'[s] # None /\ secrets'[s].owner = u => Owned(s, u)

\* Only the Sidecar's grants and reservations give anything.
LEMMA AccountsMove ==
    ASSUME IInv, [Next]_vars, NEW u \in Uid, sw.pc = "grant" => u # sw.access.uid,
           accounts[u] = {}
    PROVE  accounts'[u] = {}
<1>1. accounts \in [Uid -> SUBSET {BucketID[c] : c \in ClaimName}]
  BY Zenon, InvariantParts DEF CountersOK
<1>2. CASE ControllerMoves \/ OthersMove
  <2>1. UNCHANGED accounts
    BY Zenon, <1>2, ControllerLeavesSidecar, OthersSecrets
  <2> QED BY Zenon, <2>1
<1>3. CASE SidecarMoves
  <2>1. CASE SidecarGrant
    <3>1. GrantStep /\ sw.pc = "grant"
      BY Zenon, <2>1, GrantDoes
    <3>2. PICK ids : ids = {BucketID[c] : c \in GrantConfigs(sw.access)}
      BY Zenon
    <3>3. accounts' = accounts \/ accounts' = [accounts EXCEPT ![sw.access.uid] = ids]
      BY Zenon, <3>1, <3>2 DEF GrantStep
    <3> QED BY Zenon, <1>1, <3>1, <3>3
  <2>2. CASE SidecarRevoke
    <3>1. accounts' = accounts \/ accounts' = [accounts EXCEPT ![sw.access.uid] = {}]
      BY Zenon, <2>2, RevokeDoes DEF RevokeStep
    <3> QED BY Zenon, <1>1, <3>1
  <2>3. ASSUME NEW a \in AccessName, SidecarStart(a) PROVE UNCHANGED accounts
    BY Zenon, <2>3 DEF SidecarStart
  <2>4. ASSUME SidecarMoves, ~SidecarGrant, ~SidecarRevoke PROVE UNCHANGED accounts
    BY Zenon, <2>3, <2>4 DEF SidecarMoves, SidecarStep, SidecarAddFinalizer, SidecarCheckBuckets,
       SidecarReserve, SidecarFill, SidecarSetReady, SidecarReport, SidecarClearStatus,
       SidecarUnprotect, SidecarDeleteSecret, SidecarFinish, SidecarRestart
  <2> QED BY Zenon, <1>3, <2>1, <2>2, <2>4
<1> QED BY Zenon, <1>2, <1>3, WhoMoves

\* Whoever the Sidecar is not about to give something gets nothing.
LEMMA NothingGiven ==
    ASSUME IInv, Base, [Next]_vars, NEW u \in Uid,
           sw.pc \in {"grant", "reserve"} => u # sw.access.uid
    PROVE  Harmless(u)
<1>1. accounts[u] = {} => accounts'[u] = {}
  BY Zenon, AccountsMove
<1>2. ASSUME NEW s \in SecretName, secrets'[s] # None, secrets'[s].owner = u PROVE Owned(s, u)
  <2>1. OwnerMoves(s)
    BY Zenon, NextOwnerMoves
  <2>2. u # NoUid
    BY SMTT(60), AccessAssumption DEF Uid, NoUid
  <2> QED BY Zenon, <1>2, <2>1, <2>2 DEF OwnerMoves, Owned
<1> QED BY Zenon, <1>1, <1>2 DEF Harmless

\* An access that is cleaned up is given nothing.
LEMMA CleanedUpIsGivenNothing ==
    ASSUME IInv, Base, [Next]_vars, NEW a \in AccessName, accesses[a] # None,
           accesses[a].cleanupFinished
    PROVE  Harmless(accesses[a].uid)
<1>1. accesses[a] \in Obj /\ accesses[a] \in Copies(a)
  BY Zenon, StoredIsCopy
<1>2. accesses[a].uid \in Uid
  BY Zenon, <1>1, ObjFields
<1>3. ASSUME sw.pc \in {"grant", "reserve"}, accesses[a].uid = sw.access.uid PROVE FALSE
  <2>1. sw.name \in AccessName /\ sw.access \in Copies(sw.name)
    BY Zenon, <1>3, SidecarHasCopy
  <2>2. sw.name = a
    BY Zenon, <1>1, <1>3, <2>1 DEF Base, Lineage, UidsOK
  <2>3. sw.access.deleting
    BY Zenon, <1>3, <2>2 DEF Base, GrantsOK
  <2> QED BY Zenon, <1>3, <2>3 DEF Base, GrantsOK, Granting
<1> QED BY Zenon, <1>2, <1>3, NothingGiven

\* What was cleaned up stays cleaned up.
CleanedUp(x) ==
    /\ x.accountID => accounts[x.uid] = {}
    /\ \A s \in SecretName : ~Owned(s, x.uid)

\* What is cleaned up stays so, and what is handed back now was cleaned up before.
LEMMA CleanupKept ==
    ASSUME IInv, IInv', Base, Moves, [Next]_vars, CleanupOK
    PROVE  CleanupIsComplete'
<1> SUFFICES ASSUME NEW a \in AccessName, accesses'[a] # None, accesses'[a].cleanupFinished
             PROVE  /\ accesses'[a].accountID => accounts'[accesses'[a].uid] = {}
                    /\ \A s \in SecretName :
                         secrets'[s] # None => secrets'[s].owner # accesses'[a].uid
  BY Zenon DEF CleanupIsComplete
<1>1. ASSUME accesses[a] # None, accesses[a].cleanupFinished
      PROVE  CleanedUp(accesses[a]) /\ Harmless(accesses[a].uid)
  BY Zenon, <1>1, CleanedUpIsGivenNothing DEF CleanupOK, CleanupIsComplete, CleanedUp, Owned
<1>2. CASE accesses'[a] = accesses[a]
  BY Zenon, <1>1, <1>2 DEF CleanedUp, Harmless
<1>3. CASE accesses[a] # None /\ Keeps(a, accesses[a], accesses'[a])
  <2>1. /\ accesses[a].uid = accesses'[a].uid
        /\ accesses[a].deleting => accesses'[a].accountID = accesses[a].accountID
        /\ ~accesses[a].cleanupFinished => HandsBack(a, accesses[a])
    BY Zenon, <1>3 DEF Keeps
  <2>2. CASE accesses[a].cleanupFinished
    <3>1. accesses[a].deleting
      BY Zenon, <1>3, <2>2, StoredIsCopy DEF Complete
    <3> QED BY Zenon, <1>1, <1>3, <2>1, <2>2, <3>1 DEF CleanedUp, Harmless
  <2>3. CASE ~accesses[a].cleanupFinished
    <3>1. sw.pc = "finish" /\ sw.access = accesses[a]
      BY Zenon, <2>1, <2>3 DEF HandsBack
    <3>2. accesses[a].deleting /\ accesses[a].uid \in Uid
      BY Zenon, <3>1, TodoNamed, InvariantParts DEF SidecarHolds, Cleaning
    <3>3. CleanedUp(accesses[a])
      BY Zenon, <3>1 DEF CleanupOK, Cleaned, CleanedUp
    <3>4. Harmless(accesses[a].uid)
      BY Zenon, <3>1, <3>2, NothingGiven
    <3> QED BY Zenon, <2>1, <3>2, <3>3, <3>4 DEF CleanedUp, Harmless
  <2> QED BY Zenon, <2>2, <2>3
<1>4. CASE IsMade(a)
  BY Zenon, <1>4 DEF IsMade
<1> QED BY Zenon, <1>2, <1>3, <1>4 DEF Moves, StoredMoves

\* The Sidecar's cleanup goes on as far as it was when others move.
LEMMA CleanedStays ==
    ASSUME IInv, Base, [Next]_vars, Cleaned(sw), UNCHANGED <<sw, accounts>>,
           \A s \in SecretName : \/ secrets'[s] = secrets[s]
                                 \/ secrets'[s] # None /\ secrets'[s].owner = NoUid
                                 \/ Erased(s)
    PROVE  Cleaned(sw)'
<1>1. CASE sw.pc \notin Cleaning
  BY Zenon, <1>1 DEF Cleaned, Cleaning
<1>2. CASE sw.pc \in Cleaning
  <2>1. sw.pc # "idle" /\ sw.access.uid \in Uid
    BY Zenon, <1>2, TodoNamed DEF Cleaning
  <2>2. sw.access.uid # NoUid
    BY SMTT(60), <2>1, AccessAssumption DEF Uid, NoUid
  <2>3. ASSUME NEW s \in SecretName, Owned(s, sw.access.uid)'
        PROVE  Owned(s, sw.access.uid) /\ (secrets'[s].finalizer => secrets[s].finalizer)
    BY Zenon, <2>2, <2>3 DEF Owned, Erased
  <2>4. sw.pc = "deleteSecret" => SecretOf(sw.access, sw.at) \in SecretName
    BY Zenon, ReferencesOK, InvariantParts DEF SidecarHolds, SecretOf, Ref
  <2> QED BY Zenon, <2>3, <2>4 DEF Cleaned
<1> QED BY Zenon, <1>1, <1>2

\* A worker that cleans up nothing.
LEMMA NotCleaning == ASSUME sw'.pc \notin Cleaning PROVE Cleaned(sw)'
BY Zenon DEF Cleaned, Cleaning

\* How a reconcile of the Sidecar begins: with nothing to clean up, or with no error.
LEMMA StartSidecarBegins ==
    ASSUME NEW a \in AccessName, NEW x \in Obj, NEW v, v = startSidecar(a, x)
    PROVE  \/ v = SidecarIdle
           \/ /\ v.name = a /\ v.access = x
              /\ \/ v.pc \in {"addFinalizer", "checkBuckets", "clearStatus"} /\ v.error = "none"
                    /\ v.reserved = {}
                 \/ v.pc = "report"
<1>1. PICK w : w = [SidecarIdle EXCEPT !.pc = "checkBuckets", !.name = a, !.access = x]
  BY Zenon
<1>2. /\ w \in SidecarWorker /\ w.pc = "checkBuckets" /\ w.name = a /\ w.access = x
      /\ w.error = "none" /\ w.reserved = {} /\ w.todo = {} /\ w.at = None
  BY Zenon, <1>1 DEF SidecarIdle, SidecarWorker, SidecarPc, Error, Obj
<1>3. v \in {SidecarIdle, [w EXCEPT !.pc = "clearStatus"], FailSidecar(w, "terminal"),
             w, [w EXCEPT !.pc = "addFinalizer"]}
  BY Zenon, <1>1 DEF startSidecar
<1>4. CASE v = FailSidecar(w, "terminal")
  BY Zenon, <1>2, <1>4 DEF FailSidecar, SidecarWorker
<1>5. CASE v \in {[w EXCEPT !.pc = "clearStatus"], w, [w EXCEPT !.pc = "addFinalizer"]}
  BY Zenon, <1>2, <1>5 DEF SidecarWorker
<1> QED BY Zenon, <1>3, <1>4, <1>5

\* The Sidecar's worker after it has begun.
LEMMA SidecarBegins ==
    ASSUME IInv, NEW a \in AccessName, SidecarStart(a)
    PROVE  \/ sw' = SidecarIdle
           \/ /\ sw'.name = a /\ sidecarAccesses[a] # None /\ sw'.access = sidecarAccesses[a]
              /\ \/ sw'.pc \in {"addFinalizer", "checkBuckets", "clearStatus"}
                    /\ sw'.error = "none" /\ sw'.reserved = {}
                 \/ sw'.pc = "report"
<1>1. CASE sidecarAccesses[a] = None
  BY Zenon, <1>1 DEF SidecarStart
<1>2. CASE sidecarAccesses[a] # None
  <2>1. sidecarAccesses[a] \in Obj
    BY Zenon, <1>2, InvariantParts DEF AccessesOK
  <2>2. sw' = startSidecar(a, sidecarAccesses[a])
    BY Zenon, <1>2 DEF SidecarStart
  <2> QED BY SMTT(60), <1>2, <2>1, <2>2, StartSidecarBegins
<1> QED BY Zenon, <1>1, <1>2

\* Steps of the Sidecar that do not clean up, or only begin to.
LEMMA OtherSidecarCleaned ==
    ASSUME IInv, \/ \E a \in AccessName : SidecarStart(a)
                 \/ SidecarAddFinalizer \/ SidecarCheckBuckets \/ SidecarReserve \/ SidecarGrant
                 \/ SidecarFill \/ SidecarSetReady \/ SidecarReport \/ SidecarFinish \/ SidecarRestart
    PROVE  Cleaned(sw)'
<1>1. SidecarIdle.pc = "idle" /\ "idle" \notin Cleaning /\ "report" \notin Cleaning
  BY Zenon DEF SidecarIdle, Cleaning
<1>2. ASSUME NEW a \in AccessName, SidecarStart(a) PROVE Cleaned(sw)'
  <2>1. \/ sw'.pc \in {"idle", "addFinalizer", "checkBuckets", "report"}
        \/ sw'.pc = "clearStatus" /\ sw'.error = "none"
    BY Zenon, <1>1, <1>2, SidecarBegins
  <2> QED BY Zenon, <2>1 DEF Cleaned
<1>3. CASE SidecarCheckBuckets \/ SidecarReserve \/ SidecarGrant \/ SidecarFill
  <2>1. sw'.pc \in {"report", "reserve", "grant", "fill", "setReady"}
    BY Zenon, <1>3, CheckBucketsDoes, ReserveDoes, GrantDoes, FillDoes DEF CheckStep, Reserving,
       GrantStep, Filling
  <2> QED BY Zenon, <2>1, NotCleaning DEF Cleaning
<1>4. CASE SidecarReport \/ SidecarRestart
  BY Zenon, <1>1, <1>4, NotCleaning DEF SidecarReport, SidecarRestart
<1>5. CASE SidecarAddFinalizer \/ SidecarFinish
  <2>1. PICK obj : obj = [sw.access EXCEPT !.finalizer = TRUE]
    BY Zenon
  <2>2. \/ sw' = [sw EXCEPT !.pc = "checkBuckets", !.access = obj]
        \/ sw' = SidecarIdle \/ sw' = FailSidecar(sw, "retry")
    BY Zenon, <1>5, <2>1 DEF SidecarAddFinalizer, SidecarFinish
  <2>3. sw \in SidecarWorker
    BY Zenon, InvariantParts DEF SidecarHolds
  <2>4. sw'.pc \in {"checkBuckets", "idle", "report"}
    BY Zenon, <1>1, <2>2, <2>3 DEF SidecarWorker, FailSidecar
  <2> QED BY Zenon, <2>4, NotCleaning DEF Cleaning
<1>6. CASE SidecarSetReady
  <2>1. PICK local : local = [sw.access EXCEPT !.accountID = TRUE, !.readyToUse = "true",
                                               !.error = "none"]
    BY Zenon
  <2>2. sw' = SidecarIdle \/ sw' = FailSidecar([sw EXCEPT !.access = local], "retry")
    BY Zenon, <1>6, <2>1 DEF SidecarSetReady, WriteSidecarStatus
  <2>3. sw \in SidecarWorker
    BY Zenon, InvariantParts DEF SidecarHolds
  <2>4. sw'.pc \in {"idle", "report"}
    BY Zenon, <1>1, <2>2, <2>3 DEF SidecarWorker, FailSidecar
  <2> QED BY Zenon, <2>4, NotCleaning DEF Cleaning
<1> QED BY Zenon, <1>2, <1>3, <1>4, <1>5, <1>6

\* The status is cleared, or a copy that is not ready is left to the report.
Clearing ==
    /\ sw.pc = "clearStatus" /\ UNCHANGED <<secrets, freshSecret, accounts>>
    /\ sw'.name = sw.name /\ Kin(sw.access, sw'.access)
    /\ \/ sw'.pc = "report" /\ sw'.access.readyToUse # "true"
       \/ /\ sw'.pc = "unprotect" /\ sw'.todo = References(sw.access) /\ sw'.error = sw.error
          /\ accesses'[sw.name] # None => accesses'[sw.name].readyToUse # "true"

\* SidecarClearStatus is such a step.
LEMMA ClearDoes == ASSUME IInv, Base, SidecarClearStatus PROVE Clearing
<1>1. PICK local : local = [sw.access EXCEPT !.readyToUse = "false", !.error = "none"]
  BY Zenon
<1>2. PICK next : next = [sw EXCEPT !.pc = "unprotect", !.access = local,
                                    !.todo = References(sw.access)]
  BY Zenon
<1>3. /\ sw.pc = "clearStatus" /\ UNCHANGED <<secrets, accounts>>
      /\ WriteSidecarStatus(local, next)
  BY Zenon, <1>1, <1>2 DEF SidecarClearStatus
<1>4. sw.pc # "idle" /\ sw.pc # "report"
  BY Zenon, <1>3
<1>5. /\ sw.access \in Obj /\ sw.name \in AccessName /\ sw \in SidecarWorker
      /\ sw.access.driverName # None
  BY Zenon, <1>4, SidecarHasCopy, SidecarBusy
<1>6. local \in Obj /\ Kin(sw.access, local) /\ local.driverName # None
  BY ZenonT(60), <1>1, <1>5, WithClearedStatus DEF SameMetadata, SameFinal, Kin
<1>7. local.readyToUse # "true"
  BY Zenon, <1>1, <1>5 DEF Obj, AccessObject
<1>8. /\ next.pc = "unprotect" /\ next.name = sw.name /\ next.access = local
      /\ next.todo = References(sw.access) /\ next.error = sw.error
  BY Zenon, <1>2, <1>5 DEF SidecarWorker
<1>9. PICK obj : obj = SetAccessStatus(accesses[sw.name], local)
  BY Zenon
<1>10. PICK o \in Outcome :
        /\ WriteAccess(o, sw.name, obj, FALSE, "sidecarWorker", o = "ok" /\ next.pc = "idle")
        /\ sw' = IF o = "ok" THEN next ELSE FailSidecar([sw EXCEPT !.access = local], "retry")
        /\ freshSecret' = IF sw'.pc = "idle" THEN Forget(freshSecret, "worker") ELSE freshSecret
  BY Zenon, <1>3, <1>9 DEF WriteSidecarStatus
<1>11. CASE o = "ok"
  <2>1. sw' = next
    BY Zenon, <1>10, <1>11
  <2>2. UNCHANGED freshSecret
    BY Zenon, <1>8, <1>10, <2>1
  <2>3. "sidecarWorker" \in freshAccess[sw.name]
    BY Zenon, <1>10, <1>11 DEF WriteAccess, Ends
  <2>4. sw.access = accesses[sw.name]
    BY Zenon, <1>4, <1>5, <2>3, SidecarCopy
  <2>5. obj \in Obj /\ SameStatus(local, obj)
    BY Zenon, <1>5, <1>6, <1>9, <2>4, WithStatus
  <2>6. accesses'[sw.name] = Persisted(obj)
    <3>1. PICK done : done = (o = "ok" /\ next.pc = "idle") /\ done \in BOOLEAN
      BY Zenon
    <3>2. WriteAccess(o, sw.name, obj, FALSE, "sidecarWorker", done)
      BY Zenon, <1>10, <3>1
    <3>3. "sidecarWorker" \in AccessHolder /\ FALSE \in BOOLEAN /\ Applied(o)
      BY Zenon, <1>11 DEF AccessHolder, Applied
    <3>4. Written(o, sw.name, obj, "sidecarWorker", done)
      BY Zenon, <1>5, <2>5, <3>1, <3>2, <3>3, IsWritten
    <3> QED BY Zenon, <3>3, <3>4 DEF Written
  <2>7. accesses'[sw.name] # None => accesses'[sw.name].readyToUse # "true"
    <3>1. Persisted(obj) \in {obj, None}
      BY Zenon, <2>5, PersistedObject
    <3> QED BY Zenon, <1>7, <2>5, <2>6, <3>1 DEF SameStatus
  <2> QED BY Zenon, <1>3, <1>6, <1>8, <2>1, <2>2, <2>7 DEF Clearing
<1>12. CASE o # "ok"
  <2>1. PICK w : w = [sw EXCEPT !.access = local]
    BY Zenon
  <2>2. /\ w \in SidecarWorker /\ w.name = sw.name /\ w.access = local
        /\ w.name \in AccessName /\ w.access \in Obj /\ w.access.driverName # None
    BY Zenon, <1>5, <1>6, <2>1 DEF SidecarWorker, Obj
  <2>3. sw' = FailSidecar(w, "retry") /\ "retry" \in Error
    BY Zenon, <1>10, <1>12, <2>1 DEF Error
  <2>4. sw'.pc = "report" /\ sw'.name = sw.name /\ sw'.access = local
    BY SMTT(60), <2>2, <2>3, FailSidecarOK
  <2>5. UNCHANGED freshSecret
    BY Zenon, <1>10, <2>4
  <2> QED BY Zenon, <1>3, <1>6, <1>7, <2>4, <2>5 DEF Clearing
<1> QED BY Zenon, <1>11, <1>12

\* Every Secret that is left is still to be dealt with when the cleanup begins.
LEMMA SidecarClearStatusCleaned ==
    ASSUME IInv, Base, OwnersOK, Cleaned(sw), SidecarClearStatus PROVE Cleaned(sw)'
<1>1. Clearing
  BY Zenon, ClearDoes
<1>2. CASE sw'.pc = "report"
  BY Zenon, <1>2, NotCleaning DEF Cleaning
<1>3. CASE sw'.pc = "unprotect"
  <2>1. /\ sw'.todo = References(sw.access) /\ sw'.error = "none" /\ UNCHANGED secrets
        /\ sw'.access.uid = sw.access.uid /\ sw'.access.spec = sw.access.spec
    BY Zenon, <1>1, <1>3 DEF Clearing, Cleaned, Kin
  <2>2. sw.name \in AccessName /\ sw.access \in Copies(sw.name)
    BY Zenon, <1>1, SidecarHasCopy DEF Clearing
  <2>3. ASSUME NEW s \in SecretName, Owned(s, sw.access.uid)'
        PROVE  \E c \in sw'.todo : s = SecretOf(sw'.access, c)
    <3>1. secrets[s] # None /\ secrets[s].owner = sw.access.uid
      BY Zenon, <2>1, <2>3 DEF Owned
    <3>2. \E c \in References(sw.access) : s = SecretOf(sw.access, c)
      BY Zenon, <2>2, <3>1 DEF OwnersOK
    <3> QED BY Zenon, <2>1, <3>2 DEF SecretOf
  <2> QED BY Zenon, <1>3, <2>1, <2>3 DEF Cleaned
<1> QED BY Zenon, <1>1, <1>2, <1>3 DEF Clearing

\* One Secret is dealt with.
LEMMA SidecarUnprotectCleaned ==
    ASSUME "secrets" \notin Lagging, IInv, Cleaned(sw), SidecarUnprotect PROVE Cleaned(sw)'
<1>1. PICK c \in ClaimName, s \in SecretName : Unprotecting(c, s)
  BY Zenon, UnprotectDoes
<1>2. sw.pc = "unprotect" /\ sw.error # "bucketGone" /\ sw.access.accountID \in BOOLEAN
  BY Zenon, UnprotectDoes, TodoNamed DEF Cleaned
<1>3. PICK u : u = sw.access.uid
  BY Zenon
<1>4. /\ sw'.access = sw.access /\ sw'.access.uid = u
      /\ c \in sw.todo /\ s = SecretOf(sw.access, c)
  BY Zenon, <1>1, <1>3 DEF Unprotecting, SidecarSame
<1>5. ASSUME NEW t \in SecretName, Owned(t, u)' PROVE Owned(t, u)
  <2>1. CASE t # s
    BY Zenon, <1>1, <1>5, <2>1 DEF Unprotecting, OthersStay, Owned
  <2>2. CASE t = s
    BY Zenon, <1>1, <1>3, <1>5, <2>2 DEF Unprotecting, Owned
  <2> QED BY Zenon, <2>1, <2>2
<1>6. ASSUME sw.error = "none", NEW t \in SecretName, Owned(t, u)'
      PROVE  Owned(t, u) /\ \E d \in sw.todo : t = SecretOf(sw.access, d)
  BY Zenon, <1>2, <1>3, <1>5, <1>6 DEF Cleaned
<1>7. CASE sw'.pc = "report"
  BY Zenon, <1>7, NotCleaning DEF Cleaning
<1>8. CASE /\ sw'.pc = "unprotect" /\ sw'.todo = sw.todo \ {c}
           /\ sw'.error # "bucketGone"
           /\ sw'.error = "none" /\ sw.error # "bucketGone" => sw.error = "none"
           /\ sw'.error = "none" /\ "secrets" \notin Lagging => ~Owned(s, sw.access.uid)
  <2>1. ASSUME sw'.error = "none", NEW t \in SecretName, Owned(t, u)'
        PROVE  \E d \in sw'.todo : t = SecretOf(sw'.access, d)
    <3>1. PICK d \in sw.todo : t = SecretOf(sw.access, d)
      BY Zenon, <1>2, <1>6, <1>8, <2>1
    <3>2. d # c
      BY Zenon, <1>3, <1>4, <1>5, <1>8, <2>1, <3>1
    <3> QED BY Zenon, <1>4, <1>8, <3>1, <3>2
  <2> QED BY Zenon, <1>4, <1>8, <2>1 DEF Cleaned
<1>9. CASE /\ AfterLast
           /\ sw.todo \ {c} = {} /\ (sw.error # "bucketGone" => sw.error = "none")
           /\ "secrets" \notin Lagging => ~Owned(s, sw.access.uid)
  <2>1. ASSUME NEW t \in SecretName, Owned(t, u)' PROVE FALSE
    <3>1. PICK d \in sw.todo : t = SecretOf(sw.access, d)
      BY Zenon, <1>2, <1>6, <1>9, <2>1
    <3>2. d = c
      BY Zenon, <1>9, <3>1
    <3> QED BY Zenon, <1>3, <1>4, <1>5, <1>9, <2>1, <3>1, <3>2
  <2> QED BY Zenon, <1>2, <1>4, <1>9, <2>1 DEF Cleaned, AfterLast
<1>10. CASE /\ sw'.pc = "deleteSecret" /\ sw'.at = c /\ sw'.todo = sw.todo /\ sw'.error = sw.error
            /\ secrets'[s] # None => secrets'[s].owner = sw.access.uid /\ ~secrets'[s].finalizer
  <2>1. \A t \in SecretName : sw'.error = "none" /\ Owned(t, u)' =>
          \E d \in sw'.todo : t = SecretOf(sw'.access, d)
    BY Zenon, <1>4, <1>6, <1>10
  <2>2. Owned(s, u)' => ~secrets'[s].finalizer
    BY Zenon, <1>10 DEF Owned
  <2> QED BY Zenon, <1>2, <1>4, <1>10, <2>1, <2>2 DEF Cleaned
<1> QED BY Zenon, <1>1, <1>7, <1>8, <1>9, <1>10 DEF Unprotecting

\* A Secret without finalizer is gone when it is deleted.
LEMMA SidecarDeleteSecretCleaned ==
    ASSUME IInv, Cleaned(sw), SidecarDeleteSecret PROVE Cleaned(sw)'
<1>1. PICK s \in SecretName : Deleting(s)
  BY Zenon, DeleteSecretDoes
<1>2. /\ sw.pc = "deleteSecret" /\ sw.error # "bucketGone" /\ sw.access.accountID \in BOOLEAN
      /\ sw.at \in sw.todo
  BY Zenon, DeleteSecretDoes, TodoNamed DEF Cleaned
<1>3. PICK u : u = sw.access.uid
  BY Zenon
<1>4. sw'.access = sw.access /\ sw'.access.uid = u /\ s = SecretOf(sw.access, sw.at)
  BY Zenon, <1>1, <1>3 DEF Deleting, SidecarSame
<1>5. ASSUME NEW t \in SecretName, Owned(t, u)' PROVE Owned(t, u)
  <2>1. CASE t # s
    BY Zenon, <1>1, <1>5, <2>1 DEF Deleting, OthersStay, Owned
  <2>2. CASE t = s
    BY Zenon, <1>1, <1>5, <2>2 DEF Deleting, Owned, Erased
  <2> QED BY Zenon, <2>1, <2>2
<1>6. Erased(s) => ~Owned(s, u)'
  <2>1. Owned(s, u) => ~secrets[s].finalizer
    BY Zenon, <1>2, <1>3, <1>4 DEF Cleaned
  <2> QED BY Zenon, <1>5, <2>1 DEF Owned, Erased
<1>7. ASSUME sw.error = "none", NEW t \in SecretName, Owned(t, u)'
      PROVE  \E d \in sw.todo : t = SecretOf(sw.access, d)
  BY Zenon, <1>2, <1>3, <1>5, <1>7 DEF Cleaned
<1>8. CASE sw'.pc = "report"
  BY Zenon, <1>8, NotCleaning DEF Cleaning
<1>9. CASE /\ sw'.pc = "unprotect" /\ sw'.todo = sw.todo \ {sw.at}
           /\ sw'.error # "bucketGone"
           /\ sw'.error = "none" => Erased(s) /\ (sw.error # "bucketGone" => sw.error = "none")
  <2>1. ASSUME sw'.error = "none", NEW t \in SecretName, Owned(t, u)'
        PROVE  \E d \in sw'.todo : t = SecretOf(sw'.access, d)
    <3>1. PICK d \in sw.todo : t = SecretOf(sw.access, d)
      BY Zenon, <1>2, <1>7, <1>9, <2>1
    <3>2. d # sw.at
      BY Zenon, <1>4, <1>6, <1>9, <2>1, <3>1
    <3> QED BY Zenon, <1>4, <1>9, <3>1, <3>2
  <2> QED BY Zenon, <1>4, <1>9, <2>1 DEF Cleaned
<1>10. CASE /\ AfterLast /\ Erased(s)
            /\ sw.todo \ {sw.at} = {} /\ (sw.error # "bucketGone" => sw.error = "none")
  <2>1. ASSUME NEW t \in SecretName, Owned(t, u)' PROVE FALSE
    <3>1. PICK d \in sw.todo : t = SecretOf(sw.access, d)
      BY Zenon, <1>2, <1>7, <1>10, <2>1
    <3>2. d = sw.at
      BY Zenon, <1>10, <3>1
    <3> QED BY Zenon, <1>4, <1>6, <1>10, <2>1, <3>1, <3>2
  <2> QED BY Zenon, <1>2, <1>4, <1>10, <2>1 DEF Cleaned, AfterLast
<1> QED BY Zenon, <1>1, <1>8, <1>9, <1>10 DEF Deleting

\* The account is revoked when the cleanup goes on.
LEMMA SidecarRevokeCleaned ==
    ASSUME IInv, Cleaned(sw), SidecarRevoke PROVE Cleaned(sw)'
<1>1. RevokeStep /\ sw.pc = "revoke"
  BY Zenon, RevokeDoes
<1>2. sw'.access = sw.access /\ UNCHANGED secrets
  BY Zenon, <1>1 DEF RevokeStep, SidecarSame, storedSecrets
<1>3. \A s \in SecretName : ~Owned(s, sw.access.uid)'
  BY Zenon, <1>1, <1>2 DEF Cleaned, Owned
<1>4. sw'.pc = "finish" => accounts'[sw.access.uid] = {}
  <2>1. sw.access.uid \in Uid /\ accounts \in [Uid -> SUBSET {BucketID[c] : c \in ClaimName}]
    BY Zenon, <1>1, TodoNamed, InvariantParts DEF CountersOK
  <2>2. sw'.pc = "finish" => accounts' = [accounts EXCEPT ![sw.access.uid] = {}]
    BY Zenon, <1>1 DEF RevokeStep
  <2> QED BY Zenon, <2>1, <2>2
<1>5. sw'.pc \in {"report", "finish"}
  BY Zenon, <1>1 DEF RevokeStep
<1> QED BY Zenon, <1>2, <1>3, <1>4, <1>5 DEF Cleaned

\* Every step keeps the cleanup, if the Sidecar reads Secrets as they are.
LEMMA NextCleanup ==
    ASSUME "secrets" \notin Lagging, IInv, IInv', Base, Moves, OwnersOK, CleanupOK, [Next]_vars
    PROVE  CleanupOK'
<1>1. CleanupIsComplete'
  BY Zenon, CleanupKept
<1>2. Cleaned(sw)'
  <2>1. CASE ControllerMoves
    <3>1. UNCHANGED <<sw, secrets, accounts>>
      BY Zenon, <2>1, ControllerLeavesSidecar
    <3> QED BY Zenon, <3>1, CleanedStays DEF CleanupOK
  <2>2. CASE OthersMove
    <3>1. UNCHANGED sw /\ UNCHANGED accounts /\ \A s \in SecretName : OthersDo(s)
      BY Zenon, <2>2, OthersLeave, OthersSecrets
    <3> QED BY Zenon, <3>1, CleanedStays DEF CleanupOK, OthersDo
  <2>3. CASE SidecarMoves
    BY Zenon, <2>3, OtherSidecarCleaned, SidecarClearStatusCleaned, SidecarUnprotectCleaned,
       SidecarDeleteSecretCleaned, SidecarRevokeCleaned
    DEF SidecarMoves, SidecarStep, CleanupOK
  <2> QED BY Zenon, <2>1, <2>2, <2>3, WhoMoves
<1> QED BY Zenon, <1>1, <1>2 DEF CleanupOK
-----------------------------------------------------------------------------
(***************************************************************************)
(* Credentials.                                                            *)
(***************************************************************************)
\* Secret s of the owner of UID u stays as it is.
SecretKept(u, s) ==
    Owned(s, u) => /\ secrets'[s] # None /\ secrets'[s].owner = u
                   /\ secrets'[s].data = secrets[s].data
Alive(u) == \E a \in AccessName : accesses[a] # None /\ accesses[a].uid = u

\* The garbage collector leaves Secrets of accesses that exist.
LEMMA OthersKeepOwned ==
    ASSUME IInv, OthersMove, edits' = edits, NEW u \in Uid, Alive(u), NEW s \in SecretName
    PROVE  SecretKept(u, s)
<1>1. OthersDo(s)
  BY Zenon, OthersSecrets
<1> QED BY Zenon, <1>1 DEF OthersDo, SecretKept, Owned, Alive

\* Secrets of an access stay, unless the Sidecar fills or deletes them.
LEMMA OwnedKept ==
    ASSUME IInv, [Next]_vars, Achieved(sw), edits' = edits, NEW u \in Uid, Alive(u),
           sw.pc \in {"unprotect", "deleteSecret", "fill"} => u # sw.access.uid
    PROVE  \A s \in SecretName : SecretKept(u, s)
<1>1. ASSUME UNCHANGED secrets PROVE \A s \in SecretName : SecretKept(u, s)
  BY Zenon, <1>1 DEF SecretKept, Owned
<1>2. CASE ControllerMoves
  <2>1. UNCHANGED secrets
    BY Zenon, <1>2, ControllerLeavesSidecar
  <2> QED BY Zenon, <1>1, <2>1
<1>3. CASE OthersMove
  BY Zenon, <1>3, OthersKeepOwned
<1>4. CASE SecretsApart
  BY Zenon, <1>1, <1>4, ApartDoes
<1>5. CASE SidecarReserve
  <2>1. PICK c \in ClaimName, e \in Error, s \in SecretName : Reserving(c, e, s)
    BY Zenon, <1>5, ReserveDoes
  <2>2. SecretKept(u, s)
    BY Zenon, <2>1 DEF Reserving, SecretKept, Owned
  <2>3. \A t \in SecretName : t # s => SecretKept(u, t)
    BY Zenon, <2>1 DEF Reserving, OthersStay, SecretKept, Owned
  <2> QED BY Zenon, <2>2, <2>3
<1>6. CASE SidecarFill
  <2>1. PICK c \in ClaimName, e \in Error, s \in SecretName : Filling(c, e, s)
    BY Zenon, <1>6, FillDoes
  <2>2. sw.pc = "fill" /\ u # sw.access.uid
    BY Zenon, <1>6 DEF SidecarFill
  <2>3. "worker" \in freshSecret[s] => Owned(s, sw.access.uid)
    BY Zenon, <2>2, AchievedBefore
  <2>4. SecretKept(u, s)
    BY Zenon, <2>1, <2>2, <2>3 DEF Filling, SecretKept, Owned
  <2>5. \A t \in SecretName : t # s => SecretKept(u, t)
    BY Zenon, <2>1 DEF Filling, OthersStay, SecretKept, Owned
  <2> QED BY Zenon, <2>4, <2>5
<1>7. CASE SidecarUnprotect
  <2>1. PICK c \in ClaimName, s \in SecretName : Unprotecting(c, s)
    BY Zenon, <1>7, UnprotectDoes
  <2>2. u # sw.access.uid
    BY Zenon, <1>7 DEF SidecarUnprotect
  <2>3. SecretKept(u, s)
    BY Zenon, <2>1, <2>2 DEF Unprotecting, SecretKept, Owned
  <2>4. \A t \in SecretName : t # s => SecretKept(u, t)
    BY Zenon, <2>1 DEF Unprotecting, OthersStay, SecretKept, Owned
  <2> QED BY Zenon, <2>3, <2>4
<1>8. CASE SidecarDeleteSecret
  <2>1. PICK s \in SecretName : Deleting(s)
    BY Zenon, <1>8, DeleteSecretDoes
  <2>2. sw.pc = "deleteSecret" /\ u # sw.access.uid
    BY Zenon, <1>8 DEF SidecarDeleteSecret
  <2>3. secrets[s] # None => secrets[s].owner = sw.access.uid
    BY Zenon, <2>1, <2>2, AchievedBefore DEF Deleting
  <2>4. SecretKept(u, s)
    BY Zenon, <2>2, <2>3 DEF SecretKept, Owned
  <2>5. \A t \in SecretName : t # s => SecretKept(u, t)
    BY Zenon, <2>1 DEF Deleting, OthersStay, SecretKept, Owned
  <2> QED BY Zenon, <2>4, <2>5
<1> QED BY Zenon, <1>2, <1>3, <1>4, <1>5, <1>6, <1>7, <1>8, WhoMoves
    DEF SidecarMoves, SidecarStep, SecretsApart

\* An account stays, unless the driver is called for it.
LEMMA AccountKept ==
    ASSUME IInv, [Next]_vars, NEW u \in Uid, sw.pc \in {"grant", "revoke"} => u # sw.access.uid
    PROVE  accounts'[u] = accounts[u]
<1>1. accounts \in [Uid -> SUBSET {BucketID[c] : c \in ClaimName}]
  BY Zenon, InvariantParts DEF CountersOK
<1>2. CASE ControllerMoves \/ OthersMove
  <2>1. UNCHANGED accounts
    BY Zenon, <1>2, ControllerLeavesSidecar, OthersSecrets
  <2> QED BY Zenon, <2>1
<1>3. CASE SidecarMoves
  <2>1. CASE SidecarGrant
    <3>1. GrantStep /\ sw.pc = "grant"
      BY Zenon, <2>1, GrantDoes
    <3>2. PICK ids : ids = {BucketID[c] : c \in GrantConfigs(sw.access)}
      BY Zenon
    <3>3. accounts' = accounts \/ accounts' = [accounts EXCEPT ![sw.access.uid] = ids]
      BY Zenon, <3>1, <3>2 DEF GrantStep
    <3> QED BY Zenon, <1>1, <3>1, <3>3
  <2>2. CASE SidecarRevoke
    <3>1. RevokeStep /\ sw.pc = "revoke"
      BY Zenon, <2>2, RevokeDoes
    <3>2. accounts' = accounts \/ accounts' = [accounts EXCEPT ![sw.access.uid] = {}]
      BY Zenon, <3>1 DEF RevokeStep
    <3> QED BY Zenon, <1>1, <3>1, <3>2
  <2>3. ASSUME NEW a \in AccessName, SidecarStart(a) PROVE UNCHANGED accounts
    BY Zenon, <2>3 DEF SidecarStart
  <2>4. ASSUME SidecarMoves, ~SidecarGrant, ~SidecarRevoke PROVE UNCHANGED accounts
    BY Zenon, <2>3, <2>4 DEF SidecarMoves, SidecarStep, SidecarAddFinalizer, SidecarCheckBuckets,
       SidecarReserve, SidecarFill, SidecarSetReady, SidecarReport, SidecarClearStatus,
       SidecarUnprotect, SidecarDeleteSecret, SidecarFinish, SidecarRestart
  <2> QED BY Zenon, <1>3, <2>1, <2>2, <2>4
<1> QED BY Zenon, <1>2, <1>3, WhoMoves

\* Each claim of an access has its own bucket ID, so the driver is asked for all.
LEMMA GrantConfigsAll ==
    ASSUME DistinctBuckets, NEW x \in Obj PROVE GrantConfigs(x) = References(x)
<1>1. x.spec \in AccessSpec
  BY Zenon, ObjFields
<1>2. ASSUME NEW c \in References(x)
      PROVE  c = CHOOSE d \in References(x) : BucketID[d] = BucketID[c]
  <2>1. PICK e : e = CHOOSE d \in References(x) : BucketID[d] = BucketID[c]
    BY Zenon
  <2>2. e \in References(x) /\ BucketID[e] = BucketID[c]
    BY Zenon, <1>2, <2>1
  <2> QED BY Zenon, <1>1, <1>2, <2>1, <2>2 DEF DistinctBuckets, References
<1> QED BY Zenon, <1>2 DEF GrantConfigs

\* Usable, after the step, with the access as it is before.
UsableAfter(x) ==
    \A c \in References(x) :
      /\ BucketID[c] \in accounts'[x.uid]
      /\ secrets'[SecretOf(x, c)] # None /\ secrets'[SecretOf(x, c)].owner = x.uid
      /\ secrets'[SecretOf(x, c)].data = <<x.uid, c>>

\* A copy with the UID of the one the Sidecar works on has its spec.
SpecKnown(x) == sw.pc # "idle" /\ sw.access.uid = x.uid => sw.access.spec = x.spec

\* The driver grants everything or leaves the account.
LEMMA GrantsStay ==
    ASSUME IInv, [Next]_vars, DistinctBuckets, NEW x \in Obj, SpecKnown(x),
           sw.pc = "revoke" => x.uid # sw.access.uid, NEW c \in References(x),
           BucketID[c] \in accounts[x.uid]
    PROVE  BucketID[c] \in accounts'[x.uid]
<1>1. x.uid \in Uid
  BY Zenon, ObjFields
<1>2. CASE sw.pc \in {"grant", "revoke"} => x.uid # sw.access.uid
  BY Zenon, <1>1, <1>2, AccountKept
<1>3. CASE sw.pc = "grant" /\ x.uid = sw.access.uid
  <2>1. sw.access \in Obj /\ sw.access.spec = x.spec
    BY Zenon, <1>3, InvariantParts DEF SidecarHolds, SpecKnown
  <2>2. CASE SidecarGrant
    <3>1. PICK ids : ids = {BucketID[d] : d \in GrantConfigs(sw.access)}
      BY Zenon
    <3>2. accounts' = accounts \/ accounts' = [accounts EXCEPT ![sw.access.uid] = ids]
      BY Zenon, <2>2, <3>1, GrantDoes DEF GrantStep
    <3>3. BucketID[c] \in ids
      BY Zenon, <2>1, <3>1, GrantConfigsAll DEF References
    <3> QED BY Zenon, <1>1, <1>3, <3>2, <3>3, InvariantParts DEF CountersOK
  <2>3. CASE ~SidecarGrant
    <3>1. ~SidecarRevoke
      BY Zenon, <1>3 DEF SidecarRevoke
    <3>2. ASSUME NEW a \in AccessName, SidecarStart(a) PROVE UNCHANGED accounts
      BY Zenon, <3>2 DEF SidecarStart
    <3>3. ASSUME SidecarMoves PROVE UNCHANGED accounts
      BY Zenon, <2>3, <3>1, <3>2, <3>3 DEF SidecarMoves, SidecarStep, SidecarAddFinalizer,
         SidecarCheckBuckets, SidecarReserve, SidecarFill, SidecarSetReady, SidecarReport,
         SidecarClearStatus, SidecarUnprotect, SidecarDeleteSecret, SidecarFinish, SidecarRestart
    <3>4. ASSUME ControllerMoves \/ OthersMove PROVE UNCHANGED accounts
      BY Zenon, <3>4, ControllerLeavesSidecar, OthersSecrets
    <3> QED BY Zenon, <3>3, <3>4, WhoMoves
  <2> QED BY Zenon, <2>2, <2>3
<1> QED BY Zenon, <1>2, <1>3

\* Filling a Secret again changes nothing.
LEMMA FillingStays ==
    ASSUME IInv, Achieved(sw), NEW x, SpecKnown(x), sw.access.uid = x.uid, Usable(x), SidecarFill,
           NEW d \in References(x)
    PROVE  /\ secrets'[SecretOf(x, d)] # None /\ secrets'[SecretOf(x, d)].owner = x.uid
           /\ secrets'[SecretOf(x, d)].data = <<x.uid, d>>
<1>1. PICK c \in ClaimName, e \in Error, s \in SecretName : Filling(c, e, s)
  BY Zenon, FillDoes
<1>2. /\ sw.pc = "fill" /\ sw.access.spec = x.spec
      /\ c \in References(sw.access) /\ s = SecretOf(sw.access, c) /\ sw.access \in Obj
  BY Zenon, <1>1, TodoNamed, InvariantParts DEF SidecarFill, SpecKnown, Filling, SidecarHolds
<1>3. /\ References(x) = References(sw.access) /\ SecretOf(x, d) = SecretOf(sw.access, d)
      /\ SecretOf(x, d) \in SecretName
  BY Zenon, <1>2, ReferencesOK DEF References, SecretOf, Ref
<1>4. OneSecretEach(sw.access, References(sw.access))
  BY Zenon, <1>2, AchievedBefore
<1>5. /\ Owned(SecretOf(x, d), x.uid) /\ secrets[SecretOf(x, d)].data = <<x.uid, d>>
  BY Zenon DEF Usable, FilledSecrets
<1>6. CASE SecretOf(x, d) = s
  <2>1. c = d
    BY Zenon, <1>2, <1>3, <1>4, <1>6 DEF OneSecretEach
  <2> QED BY Zenon, <1>1, <1>5, <1>6, <2>1 DEF Filling, Owned
<1>7. CASE SecretOf(x, d) # s
  BY Zenon, <1>1, <1>3, <1>5, <1>7 DEF Filling, OthersStay, Owned
<1> QED BY Zenon, <1>6, <1>7

\* The credentials of an access that exists stay usable, unless the Sidecar cleans up.
LEMMA UsableStays ==
    ASSUME IInv, [Next]_vars, DistinctBuckets, Achieved(sw), edits' = edits,
           NEW x \in Obj, Alive(x.uid), SpecKnown(x), Usable(x),
           sw.pc \in {"unprotect", "deleteSecret", "revoke"} => x.uid # sw.access.uid
    PROVE  UsableAfter(x)
<1>1. x.uid \in Uid /\ \A c \in References(x) : SecretOf(x, c) \in SecretName
  BY Zenon, ObjFields, ReferencesOK DEF SecretOf, Ref
<1>2. \A c \in References(x) : BucketID[c] \in accounts[x.uid]
  BY Zenon DEF Usable, GrantedBuckets
<1>3. \A c \in References(x) : BucketID[c] \in accounts'[x.uid]
  BY Zenon, <1>2, GrantsStay
<1>4. ASSUME NEW c \in References(x)
      PROVE  /\ Owned(SecretOf(x, c), x.uid) /\ secrets[SecretOf(x, c)].data = <<x.uid, c>>
             /\ SecretOf(x, c) \in SecretName
  BY Zenon, <1>1, <1>4 DEF Usable, FilledSecrets
<1>5. CASE SidecarFill /\ sw.access.uid = x.uid
  BY Zenon, <1>3, <1>5, FillingStays DEF UsableAfter
<1>6. CASE ~(sw.pc = "fill" /\ sw.access.uid = x.uid)
  <2>1. \A s \in SecretName : SecretKept(x.uid, s)
    <3>1. sw.pc \in {"unprotect", "deleteSecret", "fill"} => x.uid # sw.access.uid
      BY Zenon, <1>6
    <3> QED BY Zenon, <1>1, <3>1, OwnedKept
  <2> QED BY Zenon, <1>3, <1>4, <2>1 DEF SecretKept, UsableAfter
<1>7. CASE sw.pc = "fill" /\ ~SidecarFill
  <2>1. ~SidecarReserve /\ ~SidecarUnprotect /\ ~SidecarDeleteSecret
    BY Zenon, <1>7 DEF SidecarReserve, SidecarUnprotect, SidecarDeleteSecret
  <2>2. \A s \in SecretName : SecretKept(x.uid, s)
    <3>1. ASSUME UNCHANGED secrets PROVE \A s \in SecretName : SecretKept(x.uid, s)
      BY Zenon, <3>1 DEF SecretKept, Owned
    <3>2. ASSUME ControllerMoves PROVE UNCHANGED secrets
      BY Zenon, <3>2, ControllerLeavesSidecar
    <3>3. ASSUME SidecarMoves PROVE SecretsApart
      BY Zenon, <1>7, <2>1, <3>3 DEF SidecarMoves, SidecarStep, SecretsApart
    <3> QED BY Zenon, <1>1, <3>1, <3>2, <3>3, ApartDoes, OthersKeepOwned, WhoMoves
  <2> QED BY Zenon, <1>3, <1>4, <2>2 DEF SecretKept, UsableAfter
<1> QED BY Zenon, <1>5, <1>6, <1>7

\* Being usable is a matter of UID and spec.
LEMMA UsableBySpec ==
    ASSUME NEW x, NEW y, x.uid = y.uid, x.spec = y.spec, Usable(x) PROVE Usable(y)
BY Zenon DEF Usable, FilledSecrets, GrantedBuckets, References, SecretOf, Owned

\* A copy of an access that the Sidecar works on.
LEMMA KnownBySidecar ==
    ASSUME IInv, Base, NEW a \in AccessName, accesses[a] # None
    PROVE  SpecKnown(accesses[a]) /\ (sw.pc # "idle" /\ sw.access.uid = accesses[a].uid => sw.name = a)
<1>1. accesses[a] \in Copies(a)
  BY Zenon, StoredIsCopy
<1>2. sw.pc # "idle" => sw.name \in AccessName /\ sw.access \in Copies(sw.name)
  BY Zenon, SidecarHasCopy
<1> QED BY SMTT(60), <1>1, <1>2 DEF SpecKnown, Base, Lineage, UidsOK

\* An access that is ready, or about to be made so, is usable and stays so.
LEMMA ReadyStays ==
    ASSUME IInv, Base, [Next]_vars, DistinctBuckets, UsableOK, edits' = edits,
           NEW a \in AccessName, accesses[a] # None,
           accesses[a].readyToUse = "true" \/ MakesReady(a, accesses[a])
    PROVE  UsableAfter(accesses[a])
<1>1. accesses[a] \in Obj /\ Alive(accesses[a].uid) /\ SpecKnown(accesses[a])
  BY Zenon, StoredIsCopy, KnownBySidecar DEF Alive
<1>2. CASE accesses[a].readyToUse = "true"
  <2>1. Usable(accesses[a])
    BY Zenon, <1>2 DEF UsableOK
  <2>2. ASSUME sw.pc \in {"unprotect", "deleteSecret", "revoke"}, accesses[a].uid = sw.access.uid
        PROVE  FALSE
    <3>1. sw.name = a
      BY Zenon, <2>2, KnownBySidecar
    <3> QED BY Zenon, <1>2, <2>2, <3>1, AchievedBefore DEF UsableOK
  <2> QED BY Zenon, <1>1, <2>1, <2>2, UsableStays DEF UsableOK
<1>3. CASE MakesReady(a, accesses[a])
  <2>1. /\ sw.pc \in {"setReady", "report"} /\ "sidecarWorker" \in freshAccess[sw.name]
        /\ sw.access.uid = accesses[a].uid /\ sw.access.spec = accesses[a].spec
        /\ sw.pc = "report" => sw.access.readyToUse = "true"
    BY Zenon, <1>3 DEF MakesReady
  <2>2. Usable(sw.access)
    BY Zenon, <2>1, AchievedBefore DEF UsableOK
  <2>3. Usable(accesses[a])
    BY Zenon, <2>1, <2>2, UsableBySpec
  <2>4. sw.pc \notin {"unprotect", "deleteSecret", "revoke"}
    BY Zenon, <2>1
  <2> QED BY Zenon, <1>1, <2>3, <2>4, UsableStays DEF UsableOK
<1> QED BY Zenon, <1>2, <1>3

\* What is ready after a step is usable.
AllUsable ==
    \A a \in AccessName : accesses[a] # None =>
      (accesses[a].readyToUse = "true" => Usable(accesses[a]))

\* Whether an access is usable depends on its UID and spec alone.
LEMMA AfterIsUsable ==
    ASSUME NEW x, NEW y, x.uid = y.uid, x.spec = y.spec, UsableAfter(x)
    PROVE  UsableAfter(y)
BY Zenon DEF UsableAfter, References, SecretOf

\* An access that is ready after a step is usable after it.
LEMMA NextAllUsable ==
    ASSUME IInv, IInv', Base, Moves, [Next]_vars, DistinctBuckets, UsableOK, edits' = edits
    PROVE  AllUsable'
<1> SUFFICES ASSUME NEW a \in AccessName, accesses'[a] # None, accesses'[a].readyToUse = "true"
             PROVE  UsableAfter(accesses'[a])
  BY Zenon DEF AllUsable, Usable, FilledSecrets, GrantedBuckets, Owned, UsableAfter
<1>1. CASE accesses'[a] = accesses[a]
  BY Zenon, <1>1, ReadyStays
<1>2. CASE accesses[a] # None /\ Keeps(a, accesses[a], accesses'[a])
  <2>1. /\ accesses[a].uid = accesses'[a].uid /\ accesses[a].spec = accesses'[a].spec
        /\ accesses[a].readyToUse = "true" \/ MakesReady(a, accesses[a])
    BY Zenon, <1>2 DEF Keeps
  <2>2. UsableAfter(accesses[a])
    BY Zenon, <1>2, <2>1, ReadyStays
  <2> QED BY Zenon, <2>1, <2>2, AfterIsUsable
<1>3. CASE IsMade(a)
  BY Zenon, <1>3 DEF IsMade
<1> QED BY Zenon, <1>1, <1>2, <1>3 DEF Moves, StoredMoves

\* The access that a cleanup works on does not become ready again.
LEMMA NotReadyAgain ==
    ASSUME Moves, NEW a \in AccessName, sw.pc \in {"unprotect", "deleteSecret", "revoke", "finish"},
           NEW u,
           accesses[a] # None => (accesses[a].uid = u => accesses[a].readyToUse # "true"),
           accesses'[a] # None, accesses'[a].uid = u
    PROVE  accesses'[a].readyToUse # "true"
<1>1. CASE accesses[a] # None /\ Keeps(a, accesses[a], accesses'[a])
  <2>1. accesses[a].uid = u /\ ~MakesReady(a, accesses[a])
    BY Zenon, <1>1 DEF Keeps, MakesReady
  <2> QED BY Zenon, <1>1, <2>1 DEF Keeps
<1> QED BY Zenon, <1>1 DEF Moves, StoredMoves, IsMade

\* A current copy of the Sidecar's worker is of an access that exists.
LEMMA CurrentIsAlive ==
    ASSUME IInv, Base, sw.pc # "idle", "sidecarWorker" \in freshAccess[sw.name]
    PROVE  Alive(sw.access.uid) /\ sw.access.uid \in Uid /\ accesses[sw.name] # None
<1>1. sw.name \in AccessName /\ sw.access.uid \in Uid
  BY Zenon, TodoNamed
<1>2. accesses[sw.name] # None /\ accesses[sw.name].uid = sw.access.uid
  BY Zenon, <1>1, InvariantParts DEF SidecarOK, SidecarCoherent, Base, Lineage, SidecarCurrent,
     SameButStatus
<1> QED BY Zenon, <1>1, <1>2 DEF Alive

\* Kept Secrets stay owned and filled.
LEMMA SecretsHold ==
    ASSUME NEW x \in Obj, \A s \in SecretName : SecretKept(x.uid, s),
           NEW refs \in SUBSET References(x)
    PROVE  /\ OwnSecrets(x, refs) => OwnSecrets(x, refs)'
           /\ FilledSecrets(x, refs) => FilledSecrets(x, refs)'
<1>1. \A c \in refs : SecretKept(x.uid, SecretOf(x, c))
  BY Zenon, ReferencesOK DEF SecretOf, Ref
<1> QED BY Zenon, <1>1 DEF SecretKept, OwnSecrets, FilledSecrets, Owned

\* Others do not undo what the Sidecar's worker has achieved.
LEMMA AchievedStays ==
    ASSUME IInv, Base, Moves, UsableOK, edits' = edits, UNCHANGED <<sw, accounts>>,
           HolderKept("sidecarWorker"), \A s \in SecretName : OthersDo(s)
    PROVE  Achieved(sw)'
<1>1. CASE sw.pc = "idle"
  BY Zenon, <1>1, AchievedBefore, AchievedAfter DEF UsableOK, OthersDo
<1>2. CASE sw.pc # "idle"
  <2>1. PICK x : x = sw.access
    BY Zenon
  <2>2. /\ x \in Obj /\ sw.name \in AccessName /\ x = sw'.access /\ sw.todo \subseteq References(x)
        /\ sw.pc = "deleteSecret" => sw.at \in References(x)
    BY Zenon, <1>2, <2>1, SidecarHasCopy, InvariantParts DEF SidecarHolds
  <2>3. ASSUME "sidecarWorker" \in freshAccess'[sw.name], NEW s \in SecretName
        PROVE  SecretKept(x.uid, s)
    <3>1. "sidecarWorker" \in freshAccess[sw.name]
      BY Zenon, <2>2, <2>3 DEF HolderKept
    <3>2. Alive(x.uid)
      BY Zenon, <1>2, <2>1, <3>1, CurrentIsAlive
    <3> QED BY Zenon, <3>2 DEF OthersDo, SecretKept, Owned, Alive
  <2>4. "sidecarWorker" \in freshAccess'[sw.name] => "sidecarWorker" \in freshAccess[sw.name]
    BY Zenon, <2>2 DEF HolderKept
  <2>5. ASSUME "sidecarWorker" \in freshAccess'[sw.name], NEW refs \in SUBSET References(x)
        PROVE  /\ OwnSecrets(x, refs) => OwnSecrets(x, refs)'
               /\ FilledSecrets(x, refs) => FilledSecrets(x, refs)'
    <3>1. \A s \in SecretName : SecretKept(x.uid, s)
      BY Zenon, <2>3, <2>5
    <3> QED BY Zenon, <2>2, <2>5, <3>1, SecretsHold
  <2>6. GrantedBuckets(x) => GrantedBuckets(x)'
    BY Zenon DEF GrantedBuckets
  <2>7. \A s \in SecretName : "worker" \in freshSecret'[s] =>
          "worker" \in freshSecret[s] /\ (Owned(s, x.uid) => Owned(s, x.uid)')
    BY Zenon DEF OthersDo, Owned
  <2>8. ASSUME sw.pc = "deleteSecret", secrets'[SecretOf(x, sw.at)] # None
        PROVE  secrets'[SecretOf(x, sw.at)].owner = x.uid
    <3>1. SecretOf(x, sw.at) \in SecretName
      BY Zenon, <2>2, <2>8, ReferencesOK DEF SecretOf, Ref
    <3>2. secrets[SecretOf(x, sw.at)] # None => secrets[SecretOf(x, sw.at)].owner = x.uid
      BY Zenon, <2>1, <2>8, AchievedBefore DEF UsableOK
    <3> QED BY Zenon, <2>8, <3>1, <3>2 DEF OthersDo, Erased
  <2>9. ASSUME sw.pc \in {"unprotect", "deleteSecret", "revoke", "finish"},
               accesses'[sw.name] # None, accesses'[sw.name].uid = x.uid
        PROVE  accesses'[sw.name].readyToUse # "true"
    <3>1. accesses[sw.name] # None =>
            (accesses[sw.name].uid = x.uid => accesses[sw.name].readyToUse # "true")
      BY Zenon, <2>1, <2>9, AchievedBefore DEF UsableOK
    <3> QED BY Zenon, <2>2, <2>9, <3>1, NotReadyAgain
  <2>10. CASE sw.pc \in {"addFinalizer", "checkBuckets", "clearStatus"}
    BY Zenon, <2>7, <2>10, AchievedBefore, AchievedAfter DEF UsableOK
  <2>11. CASE sw.pc = "reserve"
    BY Zenon, <2>1, <2>2, <2>4, <2>5, <2>7, <2>11, AchievedBefore, AchievedAfter DEF UsableOK, OneSecretEach
  <2>12. CASE sw.pc \in {"grant", "fill", "setReady"}
    BY Zenon, <2>1, <2>2, <2>4, <2>5, <2>6, <2>7, <2>12, AchievedBefore, AchievedAfter DEF UsableOK, OneSecretEach, Usable
  <2>13. CASE sw.pc = "report"
    BY Zenon, <2>1, <2>2, <2>4, <2>5, <2>6, <2>13, AchievedBefore, AchievedAfter DEF UsableOK, Usable
  <2>14. CASE sw.pc \in Cleaning \ {"clearStatus"}
    BY Zenon, <2>1, <2>2, <2>8, <2>9, <2>14, AchievedBefore, AchievedAfter DEF Cleaning
  <2>15. sw.pc \in SidecarPc
    BY Zenon, InvariantParts DEF SidecarHolds, SidecarWorker
  <2> QED BY Zenon, <1>2, <2>10, <2>11, <2>12, <2>13, <2>14, <2>15 DEF SidecarPc, Cleaning
<1> QED BY Zenon, <1>1, <1>2

\* A report of the stored access says that it is ready only if it is usable.
LEMMA ReportAchieved ==
    ASSUME AllUsable', sw'.pc = "report", sw'.name \in AccessName,
           "sidecarWorker" \in freshAccess'[sw'.name] =>
             accesses'[sw'.name] # None /\ sw'.access = accesses'[sw'.name]
    PROVE  Achieved(sw)'
<1>1. "sidecarWorker" \in freshAccess'[sw'.name] /\ sw'.access.readyToUse = "true"
        => Usable(sw.access)'
  BY Zenon DEF AllUsable, Usable, FilledSecrets, GrantedBuckets, Owned
<1> QED BY Zenon, <1>1, AchievedAfter

\* The Sidecar's worker fails with the copy that it read.
LEMMA FailAchieved ==
    ASSUME IInv, AllUsable', sw.pc \notin {"idle", "report"}, sw'.pc = "report",
           sw'.name = sw.name, sw'.access = sw.access, HolderKept("sidecarWorker")
    PROVE  Achieved(sw)'
<1>1. sw.name \in AccessName
  BY Zenon, TodoNamed
<1>2. "sidecarWorker" \in freshAccess'[sw.name] =>
        accesses'[sw.name] # None /\ sw.access = accesses'[sw.name]
  BY Zenon, <1>1, InvariantParts DEF HolderKept, SidecarOK, SidecarCoherent
<1> QED BY Zenon, <1>1, <1>2, ReportAchieved

\* The same for a step that does not touch the access.
LEMMA SameFailAchieved ==
    ASSUME IInv, AllUsable', sw.pc \notin {"idle", "report"}, sw'.pc = "report", SidecarSame
    PROVE  Achieved(sw)'
<1>1. sw'.name = sw.name /\ sw'.access = sw.access /\ HolderKept("sidecarWorker")
  BY Zenon DEF SidecarSame, storedAccesses, HolderKept
<1> QED BY Zenon, <1>1, FailAchieved

\* An idle Sidecar holds no Secret.
LEMMA IdleAchieved ==
    ASSUME sw'.pc = "idle", \A s \in SecretName : "worker" \notin freshSecret'[s]
    PROVE  Achieved(sw)'
BY Zenon, AchievedAfter

\* A reconcile begins with nothing achieved, or reports what is stored.
LEMMA SidecarStartAchieved ==
    ASSUME IInv, IInv', AllUsable', Achieved(sw), NEW a \in AccessName, SidecarStart(a)
    PROVE  Achieved(sw)'
<1>1. /\ sw.pc = "idle" /\ UNCHANGED <<accesses, freshSecret>>
  BY Zenon DEF SidecarStart, storedSecrets
<1>2. \A s \in SecretName : "worker" \notin freshSecret'[s]
  BY Zenon, <1>1, AchievedBefore
<1>3. CASE sw' = SidecarIdle
  BY Zenon, <1>2, <1>3, IdleAchieved, SidecarIdleOK
<1>4. CASE /\ sw'.pc \in {"addFinalizer", "checkBuckets", "clearStatus"}
           /\ sw'.error = "none" /\ sw'.reserved = {}
  BY Zenon, <1>2, <1>4, AchievedAfter
<1>5. CASE /\ sw'.pc = "report" /\ sw'.name = a /\ sidecarAccesses[a] # None
           /\ sw'.access = sidecarAccesses[a]
  <2>1. PICK mine : mine = AfterRead(freshAccess[a], "sidecarCache",
                IF sw'.pc = "idle" THEN None ELSE sidecarAccesses[a], "sidecarWorker")
    BY Zenon
  <2>2. freshAccess' = [freshAccess EXCEPT ![a] = mine]
    BY Zenon, <2>1 DEF SidecarStart
  <2>3. freshAccess'[a] = mine
    BY Zenon, <2>2, InvariantParts DEF AccessesOK
  <2>4. "sidecarWorker" \in freshAccess'[a] => "sidecarCache" \in freshAccess[a]
    BY Zenon, <2>1, <2>3 DEF AfterRead
  <2>5. "sidecarWorker" \in freshAccess'[a] => accesses'[a] # None /\ sw'.access = accesses'[a]
    BY Zenon, <1>1, <1>5, <2>4, InvariantParts DEF CachesOK, CachesCoherent
  <2> QED BY Zenon, <1>5, <2>5, ReportAchieved
<1> QED BY Zenon, <1>3, <1>4, <1>5, SidecarBegins

\* The finalizer is added.
LEMMA SidecarAddFinalizerAchieved ==
    ASSUME IInv, IInv', AllUsable', Achieved(sw), SidecarAddFinalizer
    PROVE  Achieved(sw)'
<1>1. sw.pc = "addFinalizer" /\ UNCHANGED freshSecret
  BY Zenon DEF SidecarAddFinalizer, storedSecrets
<1>2. /\ sw \in SidecarWorker /\ sw.error = "none" /\ sw.reserved = {}
      /\ \A s \in SecretName : "worker" \notin freshSecret'[s]
  BY Zenon, <1>1, InvariantParts, AchievedBefore DEF SidecarHolds
<1>3. sw.name \in AccessName /\ sw.access \in Obj /\ sw.access.driverName # None
  BY Zenon, <1>1, InvariantParts DEF SidecarHolds
<1>4. PICK obj : obj = [sw.access EXCEPT !.finalizer = TRUE]
  BY Zenon
<1>5. PICK o \in Outcome :
        /\ WriteAccess(o, sw.name, obj, FALSE, "sidecarWorker", FALSE)
        /\ sw' = IF o = "ok" THEN [sw EXCEPT !.pc = "checkBuckets", !.access = obj]
                             ELSE FailSidecar(sw, "retry")
  BY Zenon, <1>4 DEF SidecarAddFinalizer
<1>6. CASE o = "ok"
  <2>1. sw'.pc = "checkBuckets" /\ sw'.error = "none" /\ sw'.reserved = {}
    BY Zenon, <1>2, <1>5, <1>6 DEF SidecarWorker
  <2> QED BY Zenon, <1>2, <2>1, AchievedAfter
<1>7. CASE o # "ok"
  <2>1. sw' = FailSidecar(sw, "retry") /\ "retry" \in Error
    BY Zenon, <1>5, <1>7 DEF Error
  <2>2. sw'.pc = "report" /\ sw'.access = sw.access /\ sw'.name = sw.name
    BY SMTT(60), <1>2, <1>3, <2>1, FailSidecarOK
  <2>3. HolderKept("sidecarWorker")
    BY Zenon, <1>3, <1>5, <1>7, OtherHolders
  <2>4. sw.pc \notin {"idle", "report"}
    BY Zenon, <1>1
  <2> QED BY Zenon, <2>2, <2>3, <2>4, FailAchieved
<1> QED BY Zenon, <1>6, <1>7

\* Buckets are checked, and all references are to be reserved.
LEMMA SidecarCheckBucketsAchieved ==
    ASSUME IInv, IInv', AllUsable', Achieved(sw), SidecarCheckBuckets
    PROVE  Achieved(sw)'
<1>1. CheckStep /\ sw.pc = "checkBuckets"
  BY Zenon, CheckBucketsDoes
<1>2. CASE sw'.pc = "report"
  <2>1. SidecarSame /\ sw.pc \notin {"idle", "report"}
    BY Zenon, <1>1 DEF CheckStep
  <2> QED BY Zenon, <1>2, <2>1, SameFailAchieved
<1>3. CASE /\ sw'.pc = "reserve" /\ sw'.todo = References(sw.access)
           /\ sw'.error = sw.error /\ sw'.reserved = sw.reserved
  <2>1. /\ sw.error = "none" /\ sw.reserved = {} /\ sw'.access = sw.access
        /\ \A s \in SecretName : "worker" \notin freshSecret'[s]
    BY Zenon, <1>1, AchievedBefore DEF CheckStep, SidecarSame, storedSecrets
  <2>2. References(sw'.access) \ sw'.todo = {}
    BY Zenon, <1>3, <2>1
  <2> QED BY Zenon, <1>3, <2>1, <2>2, AchievedAfter DEF OneSecretEach, OwnSecrets
<1> QED BY Zenon, <1>1, <1>2, <1>3 DEF CheckStep

\* One more Secret is reserved.
LEMMA SidecarReserveAchieved ==
    ASSUME IInv, IInv', AllUsable', Achieved(sw), SidecarReserve
    PROVE  Achieved(sw)'
<1>1. PICK c \in ClaimName, e \in Error, s \in SecretName : Reserving(c, e, s)
  BY Zenon, ReserveDoes
<1>2. sw.pc = "reserve" /\ sw.pc \notin {"idle", "report"} /\ sw.error # "bucketGone"
  BY Zenon, AchievedBefore DEF SidecarReserve
<1>3. PICK x : x = sw.access
  BY Zenon
<1>4. /\ sw'.access = x /\ sw'.name = sw.name /\ UNCHANGED freshAccess
      /\ c \in sw.todo /\ s = SecretOf(x, c) /\ e \in {"none", "retry", "terminal"}
  BY Zenon, <1>1, <1>3 DEF Reserving, SidecarSame, storedAccesses
<1>5. x \in Obj /\ sw.todo \subseteq References(x) /\ sw.error \in Error
  BY Zenon, <1>2, <1>3, InvariantParts DEF SidecarHolds, SidecarWorker
<1>6. PICK done : done = References(x) \ sw.todo
  BY Zenon
<1>7. ASSUME NEW t \in SecretName, "worker" \in freshSecret'[t] PROVE Owned(t, x.uid)'
  <2>1. "worker" \in freshSecret[t] => Owned(t, x.uid)
    BY Zenon, <1>2, <1>3, AchievedBefore
  <2>2. CASE t # s
    BY Zenon, <1>1, <1>7, <2>1, <2>2 DEF Reserving, OthersStay, Owned
  <2>3. CASE t = s
    BY Zenon, <1>1, <1>3, <1>7, <2>1, <2>3 DEF Reserving, Owned
  <2> QED BY Zenon, <2>2, <2>3
<1>8. CASE sw'.pc = "report"
  BY Zenon, <1>1, <1>2, <1>8, SameFailAchieved DEF Reserving
<1>9. ASSUME Join(sw.error, e) = "none"
      PROVE  /\ sw.error = "none" /\ e = "none" /\ s \notin sw.reserved
             /\ sw.reserved = {SecretOf(x, d) : d \in done}
             /\ OneSecretEach(x, done \cup {c})
             /\ "sidecarWorker" \in freshAccess[sw.name] => OwnSecrets(x, done \cup {c})'
  <2>1. sw.error = "none" /\ e = "none"
    BY Zenon, <1>2, <1>4, <1>5, <1>9, JoinNone
  <2>2. /\ sw.reserved = {SecretOf(x, d) : d \in done} /\ OneSecretEach(x, done)
        /\ "sidecarWorker" \in freshAccess[sw.name] => OwnSecrets(x, done)
    BY Zenon, <1>2, <1>3, <1>6, <2>1, AchievedBefore
  <2>3. s \notin sw.reserved /\ Owned(s, x.uid)'
    BY Zenon, <1>1, <1>3, <2>1 DEF Reserving, Owned
  <2>4. \A d \in done : SecretOf(x, d) # s /\ SecretOf(x, d) \in SecretName
    BY Zenon, <1>5, <1>6, <2>2, <2>3, ReferencesOK DEF SecretOf, Ref
  <2>5. OneSecretEach(x, done \cup {c})
    BY Zenon, <1>4, <2>2, <2>4 DEF OneSecretEach
  <2>6. ASSUME "sidecarWorker" \in freshAccess[sw.name], NEW d \in done
        PROVE  Owned(SecretOf(x, d), x.uid)'
    BY Zenon, <1>1, <2>2, <2>4, <2>6 DEF Reserving, OthersStay, OwnSecrets, Owned
  <2>7. "sidecarWorker" \in freshAccess[sw.name] => OwnSecrets(x, done \cup {c})'
    BY Zenon, <1>4, <2>3, <2>6 DEF OwnSecrets
  <2> QED BY Zenon, <2>1, <2>2, <2>3, <2>5, <2>7
<1>10. CASE /\ sw'.pc = "reserve" /\ sw'.todo = sw.todo \ {c} /\ sw'.error = Join(sw.error, e)
            /\ e = "none" => sw'.reserved = sw.reserved \cup {s}
  <2>1. sw'.error # "bucketGone" /\ References(x) \ sw'.todo = done \cup {c}
    BY Zenon, <1>4, <1>5, <1>6, <1>10, JoinNotGone
  <2>2. sw'.error = "none" => sw'.reserved = {SecretOf(x, d) : d \in done \cup {c}}
    BY Zenon, <1>4, <1>9, <1>10
  <2>3. sw'.error = "none" =>
          /\ sw'.reserved = {SecretOf(x, d) : d \in done \cup {c}}
          /\ OneSecretEach(x, done \cup {c})
          /\ "sidecarWorker" \in freshAccess'[sw.name] => OwnSecrets(x, done \cup {c})'
    BY Zenon, <1>4, <1>9, <1>10, <2>2
  <2>4. sw'.pc = "reserve"
    BY Zenon, <1>10
  <2> QED BY Zenon, <1>4, <1>7, <2>1, <2>3, <2>4, AchievedAfter
<1>11. CASE /\ sw'.pc = "grant" /\ sw'.error = sw.error
            /\ sw.todo \ {c} = {} /\ Join(sw.error, e) = "none"
  <2>1. done \cup {c} = References(x)
    BY Zenon, <1>4, <1>5, <1>6, <1>11
  <2> QED BY Zenon, <1>4, <1>7, <1>9, <1>11, <2>1, AchievedAfter
<1> QED BY Zenon, <1>1, <1>8, <1>10, <1>11 DEF Reserving

\* Everything is granted, and all Secrets are to be filled.
LEMMA SidecarGrantAchieved ==
    ASSUME DistinctBuckets, IInv, IInv', AllUsable', Achieved(sw), SidecarGrant
    PROVE  Achieved(sw)'
<1>1. GrantStep /\ sw.pc = "grant" /\ sw.pc \notin {"idle", "report"}
  BY Zenon, GrantDoes
<1>2. PICK x : x = sw.access
  BY Zenon
<1>3. /\ SidecarSame /\ sw'.access = x /\ sw'.name = sw.name
      /\ UNCHANGED <<secrets, freshSecret, freshAccess>>
  BY Zenon, <1>1, <1>2 DEF GrantStep, SidecarSame, storedAccesses, storedSecrets
<1>4. x \in Obj /\ x.uid \in Uid
  BY Zenon, <1>1, <1>2, ObjFields, InvariantParts DEF SidecarHolds
<1>5. GrantConfigs(x) = References(x)
  BY Zenon, <1>4, GrantConfigsAll
<1>6. CASE sw'.pc = "report"
  BY Zenon, <1>1, <1>3, <1>6, SameFailAchieved
<1>7. CASE /\ sw'.pc = "fill" /\ sw'.todo = GrantConfigs(sw.access) /\ sw'.error = sw.error
           /\ accounts' = [accounts EXCEPT ![sw.access.uid] =
                             {BucketID[c] : c \in GrantConfigs(sw.access)}]
  <2>1. PICK ids : ids = {BucketID[c] : c \in References(x)}
    BY Zenon
  <2>2. accounts' = [accounts EXCEPT ![x.uid] = ids]
    BY Zenon, <1>2, <1>5, <1>7, <2>1
  <2>3. accounts'[x.uid] = ids
    BY Zenon, <1>4, <2>2, InvariantParts DEF CountersOK
  <2>4. GrantedBuckets(x)'
    BY Zenon, <2>1, <2>3 DEF GrantedBuckets
  <2>5. sw'.error = "none" /\ References(x) \ sw'.todo = {}
    BY Zenon, <1>1, <1>2, <1>5, <1>7, AchievedBefore
  <2>6. \A s \in SecretName : "worker" \in freshSecret'[s] => Owned(s, x.uid)'
    BY Zenon, <1>1, <1>2, <1>3, AchievedBefore DEF Owned
  <2>7. /\ OneSecretEach(x, References(x))
        /\ "sidecarWorker" \in freshAccess[sw.name] => OwnSecrets(x, References(x))'
    BY Zenon, <1>1, <1>2, <1>3, AchievedBefore DEF OwnSecrets, Owned
  <2> QED BY Zenon, <1>3, <1>7, <2>4, <2>5, <2>6, <2>7, AchievedAfter DEF FilledSecrets
<1> QED BY Zenon, <1>1, <1>6, <1>7 DEF GrantStep

\* One more Secret is filled.
LEMMA SidecarFillAchieved ==
    ASSUME IInv, IInv', AllUsable', Achieved(sw), SidecarFill
    PROVE  Achieved(sw)'
<1>1. PICK c \in ClaimName, e \in Error, s \in SecretName : Filling(c, e, s)
  BY Zenon, FillDoes
<1>2. sw.pc = "fill" /\ sw.pc \notin {"idle", "report"} /\ sw.error # "bucketGone"
  BY Zenon, AchievedBefore DEF SidecarFill
<1>3. PICK x : x = sw.access
  BY Zenon
<1>4. /\ sw'.access = x /\ sw'.name = sw.name /\ UNCHANGED <<freshAccess, accounts>>
      /\ c \in sw.todo /\ s = SecretOf(x, c) /\ e \in {"none", "retry", "terminal"}
  BY Zenon, <1>1, <1>3 DEF Filling, SidecarSame, storedAccesses
<1>5. x \in Obj /\ sw.todo \subseteq References(x) /\ sw.error \in Error
  BY Zenon, <1>2, <1>3, InvariantParts DEF SidecarHolds, SidecarWorker
<1>6. PICK done : done = References(x) \ sw.todo
  BY Zenon
<1>7. \A t \in SecretName : "worker" \in freshSecret[t] => Owned(t, x.uid)
  BY Zenon, <1>2, <1>3, AchievedBefore
<1>8. ASSUME NEW t \in SecretName, Owned(t, x.uid) PROVE Owned(t, x.uid)'
  <2>1. CASE t # s
    BY Zenon, <1>1, <1>8, <2>1 DEF Filling, OthersStay, Owned
  <2>2. CASE t = s
    BY Zenon, <1>1, <1>8, <2>2 DEF Filling, Owned
  <2> QED BY Zenon, <2>1, <2>2
<1>9. ASSUME NEW t \in SecretName, "worker" \in freshSecret'[t] PROVE Owned(t, x.uid)'
  <2>1. "worker" \in freshSecret[t]
    BY Zenon, <1>1, <1>9 DEF Filling, OthersStay
  <2> QED BY Zenon, <1>7, <1>8, <2>1
<1>10. /\ OneSecretEach(x, References(x)) /\ GrantedBuckets(x)'
       /\ "sidecarWorker" \in freshAccess[sw.name] => OwnSecrets(x, References(x))
  BY Zenon, <1>2, <1>3, <1>4, AchievedBefore DEF GrantedBuckets
<1>11. "sidecarWorker" \in freshAccess[sw.name] => OwnSecrets(x, References(x))'
  <2>1. \A d \in References(x) : SecretOf(x, d) \in SecretName
    BY Zenon, <1>5, ReferencesOK DEF SecretOf, Ref
  <2> QED BY Zenon, <1>8, <1>10, <2>1 DEF OwnSecrets
<1>12. CASE sw'.pc = "report"
  BY Zenon, <1>1, <1>2, <1>12, SameFailAchieved DEF Filling
<1>13. ASSUME Join(sw.error, e) = "none", "sidecarWorker" \in freshAccess[sw.name]
       PROVE  FilledSecrets(x, done \cup {c})'
  <2>1. sw.error = "none" /\ e = "none"
    BY Zenon, <1>2, <1>4, <1>5, <1>13, JoinNone
  <2>2. FilledSecrets(x, done)
    BY Zenon, <1>2, <1>3, <1>6, <1>13, <2>1, AchievedBefore
  <2>3. Owned(s, x.uid)' /\ secrets'[s].data = <<x.uid, c>>
    BY Zenon, <1>1, <1>3, <1>7, <2>1 DEF Filling, Owned
  <2>4. \A d \in done : SecretOf(x, d) # s /\ SecretOf(x, d) \in SecretName
    BY Zenon, <1>4, <1>5, <1>6, <1>10, ReferencesOK DEF SecretOf, Ref, OneSecretEach
  <2>5. ASSUME NEW d \in done
        PROVE  Owned(SecretOf(x, d), x.uid)' /\ secrets'[SecretOf(x, d)].data = <<x.uid, d>>
    BY Zenon, <1>1, <2>2, <2>4 DEF Filling, OthersStay, FilledSecrets, Owned
  <2> QED BY Zenon, <1>4, <2>3, <2>5 DEF FilledSecrets
<1>14. CASE sw'.pc = "fill" /\ sw'.todo = sw.todo \ {c} /\ sw'.error = Join(sw.error, e)
  <2>1. sw'.error # "bucketGone" /\ References(x) \ sw'.todo = done \cup {c}
    BY Zenon, <1>4, <1>5, <1>6, <1>14, JoinNotGone
  <2> QED BY Zenon, <1>4, <1>9, <1>10, <1>11, <1>13, <1>14, <2>1, AchievedAfter
<1>15. CASE sw'.pc = "setReady" /\ sw.todo \ {c} = {} /\ Join(sw.error, e) = "none"
  <2>1. done \cup {c} = References(x)
    BY Zenon, <1>4, <1>5, <1>6, <1>15
  <2> QED BY Zenon, <1>4, <1>9, <1>10, <1>11, <1>13, <1>15, <2>1, AchievedAfter DEF Usable
<1> QED BY Zenon, <1>1, <1>12, <1>14, <1>15 DEF Filling

\* What is stored is not ready while its cleanup goes on.
NotReady(a, u) ==
    accesses'[a] # None => (accesses'[a].uid = u => accesses'[a].readyToUse # "true")

\* The cleanup goes on, and what is stored stays not ready.
LEMMA CleanupAchieved ==
    ASSUME sw'.pc \in {"unprotect", "revoke", "finish"}, NotReady(sw'.name, sw'.access.uid)
    PROVE  Achieved(sw)'
BY Zenon, AchievedAfter DEF NotReady

\* As long as the cleanup does not write the access, it stays not ready.
LEMMA StillNotReady ==
    ASSUME Achieved(sw), sw.pc \in {"unprotect", "deleteSecret", "revoke", "finish"}, SidecarSame
    PROVE  NotReady(sw'.name, sw'.access.uid)
<1>1. accesses' = accesses /\ sw'.name = sw.name /\ sw'.access = sw.access
  BY Zenon DEF SidecarSame, storedAccesses
<1>2. accesses[sw.name] # None =>
        (accesses[sw.name].uid = sw.access.uid => accesses[sw.name].readyToUse # "true")
  BY Zenon, AchievedBefore
<1> QED BY Zenon, <1>1, <1>2 DEF NotReady

\* The cleanup begins by making the stored access not ready.
LEMMA SidecarClearStatusAchieved ==
    ASSUME IInv, Base, SidecarClearStatus PROVE Achieved(sw)'
<1>1. Clearing
  BY Zenon, ClearDoes
<1>2. CASE sw'.pc = "report" /\ sw'.access.readyToUse # "true"
  BY Zenon, <1>2, AchievedAfter
<1>3. CASE sw'.pc = "unprotect"
  <2>1. NotReady(sw'.name, sw'.access.uid)
    BY Zenon, <1>1, <1>3 DEF Clearing, NotReady
  <2> QED BY Zenon, <1>3, <2>1, CleanupAchieved
<1> QED BY Zenon, <1>1, <1>2, <1>3 DEF Clearing

\* A Secret that will be deleted was unprotected just now, as one of the access.
LEMMA SidecarUnprotectAchieved ==
    ASSUME IInv, AllUsable', Achieved(sw), SidecarUnprotect PROVE Achieved(sw)'
<1>1. PICK c \in ClaimName, s \in SecretName : Unprotecting(c, s)
  BY Zenon, UnprotectDoes
<1>2. sw.pc = "unprotect" /\ sw.pc \notin {"idle", "report"}
  BY Zenon, UnprotectDoes
<1>3. SidecarSame /\ s = SecretOf(sw.access, c) /\ sw'.access = sw.access
  BY Zenon, <1>1 DEF Unprotecting, SidecarSame
<1>4. NotReady(sw'.name, sw'.access.uid)
  BY Zenon, <1>2, <1>3, StillNotReady
<1>5. CASE sw'.pc = "report"
  BY Zenon, <1>2, <1>3, <1>5, SameFailAchieved
<1>6. CASE sw'.pc = "unprotect" \/ AfterLast
  BY Zenon, <1>4, <1>6, CleanupAchieved DEF AfterLast
<1>7. CASE /\ sw'.pc = "deleteSecret" /\ sw'.at = c
           /\ secrets'[s] # None => secrets'[s].owner = sw.access.uid
  BY Zenon, <1>3, <1>4, <1>7, AchievedAfter DEF NotReady
<1> QED BY Zenon, <1>1, <1>5, <1>6, <1>7 DEF Unprotecting

\* A Secret is deleted.
LEMMA SidecarDeleteSecretAchieved ==
    ASSUME IInv, AllUsable', Achieved(sw), SidecarDeleteSecret PROVE Achieved(sw)'
<1>1. PICK s \in SecretName : Deleting(s)
  BY Zenon, DeleteSecretDoes
<1>2. sw.pc = "deleteSecret" /\ sw.pc \notin {"idle", "report"} /\ SidecarSame
  BY Zenon, <1>1, DeleteSecretDoes DEF Deleting
<1>3. NotReady(sw'.name, sw'.access.uid)
  BY Zenon, <1>2, StillNotReady
<1>4. CASE sw'.pc = "report"
  BY Zenon, <1>2, <1>4, SameFailAchieved
<1>5. CASE sw'.pc = "unprotect" \/ AfterLast
  BY Zenon, <1>3, <1>5, CleanupAchieved DEF AfterLast
<1> QED BY Zenon, <1>1, <1>4, <1>5 DEF Deleting

\* Access is revoked.
LEMMA SidecarRevokeAchieved ==
    ASSUME IInv, AllUsable', Achieved(sw), SidecarRevoke PROVE Achieved(sw)'
<1>1. sw.pc = "revoke" /\ sw.pc \notin {"idle", "report"} /\ RevokeStep /\ SidecarSame
  BY Zenon, RevokeDoes DEF RevokeStep
<1>2. NotReady(sw'.name, sw'.access.uid)
  BY Zenon, <1>1, StillNotReady
<1>3. CASE sw'.pc = "report"
  BY Zenon, <1>1, <1>3, SameFailAchieved
<1>4. CASE sw'.pc = "finish"
  BY Zenon, <1>2, <1>4, CleanupAchieved
<1> QED BY Zenon, <1>1, <1>3, <1>4 DEF RevokeStep

\* A worker that ends holds no Secret.
LEMMA ForgetAchieved ==
    ASSUME IInv, sw'.pc = "idle", freshSecret' = Forget(freshSecret, "worker")
    PROVE  Achieved(sw)'
<1>1. \A s \in SecretName : "worker" \notin freshSecret'[s]
  BY Zenon, InvariantParts DEF Forget, SecretsOK
<1> QED BY Zenon, <1>1, IdleAchieved

\* The report, and a restart, end the reconcile.
LEMMA SidecarEndsAchieved ==
    ASSUME IInv, SidecarReport \/ SidecarRestart PROVE Achieved(sw)'
<1>0. sw' = SidecarIdle
  BY Zenon DEF SidecarReport, SidecarRestart
<1>1. sw'.pc = "idle"
  BY Zenon, <1>0 DEF SidecarIdle
<1>2. CASE SidecarReport
  BY Zenon, <1>1, <1>2, ForgetAchieved DEF SidecarReport
<1>3. CASE SidecarRestart
  <2>1. \A s \in SecretName : "worker" \notin freshSecret'[s]
    BY Zenon, <1>3, InvariantParts DEF SidecarRestart, Relisted, SecretsOK
  <2> QED BY Zenon, <1>1, <2>1, IdleAchieved
<1> QED BY Zenon, <1>2, <1>3

\* The hand-back ends the reconcile, or its failure is reported.
LEMMA SidecarFinishAchieved ==
    ASSUME IInv, AllUsable', SidecarFinish PROVE Achieved(sw)'
<1>1. PICK obj : obj = [sw.access EXCEPT !.cleanupFinished = TRUE]
  BY Zenon
<1>2. PICK o \in Outcome :
        /\ WriteAccess(o, sw.name, obj, FALSE, "sidecarWorker", o = "ok")
        /\ sw' = IF o = "ok" THEN SidecarIdle ELSE FailSidecar(sw, "retry")
  BY Zenon, <1>1 DEF SidecarFinish
<1>3. /\ sw.pc \notin {"idle", "report"} /\ sw.pc # "idle"
      /\ freshSecret' = IF sw'.pc = "idle" THEN Forget(freshSecret, "worker") ELSE freshSecret
  BY Zenon DEF SidecarFinish
<1>4. /\ sw \in SidecarWorker /\ sw.name \in AccessName /\ sw.access \in Obj
      /\ sw.access.driverName # None
  BY Zenon, <1>3, SidecarBusy
<1>5. CASE o = "ok"
  <2>1. sw'.pc = "idle"
    BY Zenon, <1>2, <1>5 DEF SidecarIdle
  <2> QED BY Zenon, <1>3, <2>1, ForgetAchieved
<1>6. CASE o # "ok"
  <2>1. sw' = FailSidecar(sw, "retry") /\ "retry" \in Error
    BY Zenon, <1>2, <1>6 DEF Error
  <2>2. sw'.pc = "report" /\ sw'.name = sw.name /\ sw'.access = sw.access
    BY SMTT(60), <1>4, <2>1, FailSidecarOK
  <2>3. PICK done : done = (o = "ok")
    BY Zenon
  <2>4. WriteAccess(o, sw.name, obj, FALSE, "sidecarWorker", done)
    BY Zenon, <1>2, <2>3
  <2>5. HolderKept("sidecarWorker")
    BY Zenon, <1>4, <1>6, <2>4, OtherHolders
  <2> QED BY Zenon, <1>3, <2>2, <2>5, FailAchieved
<1> QED BY Zenon, <1>5, <1>6

\* The access is ready, or will be reported as ready: everything is in place.
LEMMA SidecarSetReadyAchieved ==
    ASSUME IInv, Achieved(sw), SidecarSetReady PROVE Achieved(sw)'
<1>1. PICK local : local = [sw.access EXCEPT !.accountID = TRUE, !.readyToUse = "true",
                                             !.error = "none"]
  BY Zenon
<1>2. /\ sw.pc = "setReady" /\ UNCHANGED <<secrets, accounts>>
      /\ WriteSidecarStatus(local, SidecarIdle)
  BY Zenon, <1>1 DEF SidecarSetReady
<1>3. sw.pc # "idle" /\ sw.pc # "report"
  BY Zenon, <1>2
<1>4. /\ sw.access \in Obj /\ sw.name \in AccessName /\ sw \in SidecarWorker
      /\ sw.access.driverName # None
  BY Zenon, <1>3, SidecarBusy
<1>5. local \in Obj /\ local.uid = sw.access.uid /\ local.spec = sw.access.spec
      /\ local.driverName # None
  BY Zenon, <1>1, <1>4 DEF Obj, AccessObject, WellFormed, ReadyToUse, Error
<1>6. PICK obj : obj = SetAccessStatus(accesses[sw.name], local)
  BY Zenon
<1>7. PICK o \in Outcome :
        /\ WriteAccess(o, sw.name, obj, FALSE, "sidecarWorker",
                       o = "ok" /\ SidecarIdle.pc = "idle")
        /\ sw' = IF o = "ok" THEN SidecarIdle ELSE FailSidecar([sw EXCEPT !.access = local], "retry")
        /\ freshSecret' = IF sw'.pc = "idle" THEN Forget(freshSecret, "worker") ELSE freshSecret
  BY Zenon, <1>2, <1>6 DEF WriteSidecarStatus
<1>8. CASE o = "ok"
  <2>1. sw'.pc = "idle"
    BY Zenon, <1>7, <1>8 DEF SidecarIdle
  <2> QED BY Zenon, <1>7, <2>1, ForgetAchieved
<1>9. CASE o # "ok"
  <2>1. PICK w : w = [sw EXCEPT !.access = local]
    BY Zenon
  <2>2. /\ w \in SidecarWorker /\ w.name = sw.name /\ w.access = local
        /\ w.name \in AccessName /\ w.access \in Obj /\ w.access.driverName # None
    BY Zenon, <1>4, <1>5, <2>1 DEF SidecarWorker, Obj
  <2>3. sw' = FailSidecar(w, "retry") /\ "retry" \in Error
    BY Zenon, <1>7, <1>9, <2>1 DEF Error
  <2>4. sw'.pc = "report" /\ sw'.name = sw.name /\ sw'.access = local
    BY SMTT(60), <2>2, <2>3, FailSidecarOK
  <2>5. PICK done : done = (o = "ok" /\ SidecarIdle.pc = "idle")
    BY Zenon
  <2>6. WriteAccess(o, sw.name, obj, FALSE, "sidecarWorker", done)
    BY Zenon, <1>7, <2>5
  <2>7. HolderKept("sidecarWorker")
    BY Zenon, <1>4, <1>9, <2>6, OtherHolders
  <2>8. "sidecarWorker" \in freshAccess'[sw.name] => Usable(sw.access)
    BY Zenon, <1>2, <1>4, <2>7, AchievedBefore DEF HolderKept
  <2>9. PICK x : x = sw.access
    BY Zenon
  <2>10. Usable(x) => Usable(local)'
    BY Zenon, <1>2, <1>5, <2>9 DEF Usable, FilledSecrets, GrantedBuckets, Owned, References, SecretOf
  <2> QED BY Zenon, <2>4, <2>8, <2>9, <2>10, AchievedAfter
<1> QED BY Zenon, <1>8, <1>9

\* Edits by hand are counted.
LEMMA EditsCount == ASSUME IInv, [Next]_vars, edits' = 0 PROVE edits' = edits
<1>1. ASSUME edits' = edits + 1 PROVE FALSE
  BY SMTT(60), <1>1, InvariantParts DEF CountersOK
<1>2. ASSUME unchangedBySidecar PROVE UNCHANGED edits
  BY Zenon, <1>2 DEF unchangedBySidecar, envVars
<1>3. CASE ControllerMoves
  BY Zenon, <1>3, ControllerLeavesSidecar
<1>4. CASE SidecarMoves
  <2>1. ASSUME NEW a \in AccessName, SidecarStart(a) PROVE UNCHANGED edits
    BY Zenon, <1>2, <2>1 DEF SidecarStart, unchangedBySidecar
  <2>2. CASE SidecarStep
    <3>1. unchangedBySidecar
      BY Zenon, <2>2 DEF SidecarStep, SidecarAddFinalizer, SidecarCheckBuckets, SidecarReserve,
         SidecarGrant, SidecarFill, SidecarSetReady, SidecarReport, SidecarClearStatus,
         SidecarUnprotect, SidecarDeleteSecret, SidecarRevoke, SidecarFinish
    <3> QED BY Zenon, <1>2, <3>1
  <2>3. CASE SidecarRestart
    BY Zenon, <2>3 DEF SidecarRestart
  <2> QED BY Zenon, <1>4, <2>1, <2>2, <2>3 DEF SidecarMoves
<1>5. ASSUME NEW a \in AccessName, \/ ControllerAccessSync(a) \/ SidecarAccessSync(a)
                                   \/ UserCreateAccess(a) \/ UserDeleteAccess(a) \/ EditAccess(a)
      PROVE  edits' = edits
  BY Zenon, <1>1, <1>5 DEF ControllerAccessSync, SidecarAccessSync, UserCreateAccess,
     UserDeleteAccess, EditAccess, unchangedBySync, envVars
<1>6. CASE Elsewhere
  BY Zenon, <1>1, <1>6 DEF Elsewhere, ClaimSync, BucketSync, SecretSync, ChangeSecret,
     ClaimProceeds, ClaimRetires, AdminCreateClass, unchangedBySync, envVars, vars
<1> QED BY Zenon, <1>3, <1>4, <1>5, <1>6, WhoMoves DEF OthersMove

\* Every step of the Sidecar achieves what Achieved says of it.
LEMMA SidecarAchieved ==
    ASSUME DistinctBuckets, IInv, IInv', Base, AllUsable', Achieved(sw), SidecarMoves
    PROVE  Achieved(sw)'
BY Zenon, SidecarStartAchieved, SidecarAddFinalizerAchieved, SidecarCheckBucketsAchieved,
   SidecarReserveAchieved, SidecarGrantAchieved, SidecarFillAchieved, SidecarSetReadyAchieved,
   SidecarEndsAchieved, SidecarClearStatusAchieved, SidecarUnprotectAchieved,
   SidecarDeleteSecretAchieved, SidecarRevokeAchieved, SidecarFinishAchieved
   DEF SidecarMoves, SidecarStep

\* As long as nobody edits by hand, accesses that are ready stay usable.
LEMMA NextUsable ==
    ASSUME DistinctBuckets, IInv, IInv', Base, Moves, [Next]_vars, UsableOK, edits' = edits
    PROVE  UsableOK'
<1>1. AllUsable' /\ Achieved(sw)
  BY Zenon, NextAllUsable DEF UsableOK
<1>2. CASE ControllerMoves
  <2>1. UNCHANGED <<sw, secrets, freshSecret, accounts>> /\ HolderKept("sidecarWorker")
    BY Zenon, <1>2, ControllerLeavesSidecar
  <2>2. \A s \in SecretName : OthersDo(s)
    BY Zenon, <2>1 DEF OthersDo
  <2>3. Achieved(sw)'
    BY Zenon, <2>1, <2>2, AchievedStays
  <2> QED BY Zenon, <1>1, <2>3 DEF UsableOK, AllUsable
<1>3. CASE SidecarMoves
  <2>1. Achieved(sw)'
    BY Zenon, <1>1, <1>3, SidecarAchieved
  <2> QED BY Zenon, <1>1, <2>1 DEF UsableOK, AllUsable
<1>4. CASE OthersMove
  <2>1. UNCHANGED <<sw, accounts>> /\ HolderKept("sidecarWorker") /\ \A s \in SecretName : OthersDo(s)
    BY Zenon, <1>4, OthersLeave, OthersSecrets
  <2>2. Achieved(sw)'
    BY Zenon, <2>1, AchievedStays
  <2> QED BY Zenon, <1>1, <2>2 DEF UsableOK, AllUsable
<1> QED BY Zenon, <1>2, <1>3, <1>4, WhoMoves
=============================================================================
