---------------------------- MODULE AccessMoves -----------------------------
(***************************************************************************)
(* What the steps of Access do, told by their effects: on the stored       *)
(* access, on its copies in caches and workers, and on Secrets and         *)
(* accounts.  AccessFacts shows that the steps have these effects.         *)
(***************************************************************************)
EXTENDS AccessLineage

\* y is x but for the fields that Update may change.
SameStatus(x, y) ==
    /\ x.readyToUse = y.readyToUse /\ x.accountID = y.accountID
    /\ x.accessedBuckets = y.accessedBuckets /\ x.driverName = y.driverName
    /\ x.authenticationType = y.authenticationType /\ x.error = y.error
SameMetadata(x, y) ==
    /\ x.uid = y.uid /\ x.spec = y.spec /\ x.finalizer = y.finalizer
    /\ x.deleting = y.deleting /\ x.cleanupFinished = y.cleanupFinished
    /\ x.override = y.override

\* What storing an access does.
Stored(a) ==
    /\ accesses' \in [AccessName -> Obj \cup {None}]
    /\ \A x \in AccessName : x # a => accesses'[x] = accesses[x]
    /\ controllerEvents \subseteq controllerEvents' /\ controllerEvents' \subseteq AccessName
    /\ sidecarEvents \subseteq sidecarEvents' /\ sidecarEvents' \subseteq AccessName
    /\ ControllerEnqueues(accesses[a], accesses'[a]) => a \in controllerEvents'
    /\ SidecarEnqueues(accesses[a], accesses'[a]) => a \in sidecarEvents'

\* After a write, only the writer can hold the current version of a changed access.
OnlyWriter(w) ==
    \A x \in AccessName, h \in AccessHolder :
        h \in freshAccess'[x] =>
          h \in freshAccess[x] /\ (h = w \/ accesses'[x] = accesses[x])
Forgotten(w) == \A x \in AccessName : w \notin freshAccess'[x]

\* What an Update or Status().Update of an access by worker w does.
Written(o, a, obj, w, done) ==
    /\ Stored(a)
    /\ freshAccess' \in [AccessName -> SUBSET AccessHolder]
    /\ Applied(o) => w \in freshAccess[a] /\ accesses'[a] = Persisted(obj)
    /\ ~Applied(o) => accesses'[a] = accesses[a]
    /\ OnlyWriter(w)
    /\ done => Forgotten(w)
    /\ w \in freshAccess'[a] =>
         accesses'[a] = accesses[a] \/ (o = "ok" /\ accesses'[a] # None)

\* A copy that stays current is of an access that has not changed.
HolderKept(h) ==
    \A x \in AccessName :
        h \in freshAccess'[x] => h \in freshAccess[x] /\ accesses'[x] = accesses[x]

\* Worker v begins with x, its copy of access a.
ControllerStarts(a, x, v) ==
    /\ ControllerHolds(v)
    /\ ForController(x) => v.pc # "idle"
    /\ v.pc # "idle" => /\ v.name = a /\ v.access = x
                        /\ v.pc = "report" => ControllerMayReport(x, x)

\* What a start does to the holders: its worker is current only if its cache is.
ReadBy(a, w, cache, obj) ==
    /\ freshAccess' \in [AccessName -> SUBSET AccessHolder]
    /\ \A x \in AccessName : x # a => freshAccess'[x] = freshAccess[x]
    /\ \A h \in AccessHolder : h # w => (h \in freshAccess'[a] <=> h \in freshAccess[a])
    /\ w \in freshAccess'[a] => cache \in freshAccess[a] /\ obj # None

\* Worker v begins with x, its copy of access a.
SidecarStarts(a, x, v) ==
    /\ SidecarHolds(v)
    /\ ForSidecar(x) => v.pc # "idle"
    /\ v.pc # "idle" => /\ v.name = a /\ v.access = x
                        /\ v.pc = "report" => SameFinal(x, x)

-----------------------------------------------------------------------------
(***************************************************************************)
(* What a step does to the copies of accesses.                             *)
(***************************************************************************)
Kin(x, y) == x.uid = y.uid /\ x.spec = y.spec /\ x.deleting = y.deleting

\* Only the Controller's worker hands stored access x of name a over; only the
\* Sidecar's says that it is ready, and hands it back.
HandsOver(a, x) ==
    /\ cw.pc \in {"handoff", "report"} /\ "controllerWorker" \in freshAccess[a]
    /\ cw.name = a /\ cw.access.uid = x.uid /\ cw.access.spec = x.spec
    /\ cw.pc = "report" => cw.access.driverName # None
MakesReady(a, x) ==
    /\ sw.pc \in {"setReady", "report"} /\ "sidecarWorker" \in freshAccess[a]
    /\ sw.name = a /\ sw.access.uid = x.uid /\ sw.access.spec = x.spec
    /\ sw.pc = "report" => sw.access.readyToUse = "true"
HandsBack(a, x) == sw.pc = "finish" /\ sw.name = a /\ sw.access = x

\* Stored access x of name a is replaced by y.
Keeps(a, x, y) ==
    /\ x.uid = y.uid /\ x.spec = y.spec /\ (x.deleting => y.deleting) /\ Complete(y)
    /\ x.deleting => y.accountID = x.accountID
    /\ x.driverName = None /\ y.driverName # None => HandsOver(a, x)
    /\ y.readyToUse = "true" /\ x.readyToUse # "true" => MakesReady(a, x)
    /\ y.cleanupFinished /\ ~x.cleanupFinished => HandsBack(a, x)
IsMade(a) ==
    /\ accesses[a] = None /\ issued' = issued + 1 /\ accesses'[a].uid = issued + 1
    /\ ~accesses'[a].deleting /\ accesses'[a].driverName = None
    /\ ~accesses'[a].cleanupFinished /\ accesses'[a].readyToUse # "true"
StoredMoves(a) ==
    \/ accesses'[a] = accesses[a]
    \/ accesses'[a] = None
    \/ accesses[a] # None /\ accesses'[a] # None /\ Keeps(a, accesses[a], accesses'[a])
    \/ IsMade(a)
CacheMoves(a) ==
    /\ accessCache'[a] = accessCache[a] \/
         (accessCache'[a] = accesses[a] /\ accesses'[a] = accesses[a])
    /\ sidecarAccesses'[a] = sidecarAccesses[a] \/
         (sidecarAccesses'[a] = accesses[a] /\ accesses'[a] = accesses[a])

\* A worker w is idle, goes on with its copy, or has read one from its cache; v is
\* the worker afterwards.
WorkerMoves(w, v, cache) ==
    \/ v.name = None
    \/ v.name = w.name /\ Kin(w.access, v.access) /\ Complete(v.access)
    \/ /\ v.name \in AccessName /\ cache[v.name] # None /\ v.access = cache[v.name]
       /\ UNCHANGED <<accesses, accessCache, sidecarAccesses>>
Moves ==
    /\ issued' = issued \/ issued' = issued + 1
    /\ \A a, b \in AccessName :
         accesses'[a] # accesses[a] /\ accesses'[b] # accesses[b] => a = b
    /\ \A a \in AccessName : StoredMoves(a) /\ CacheMoves(a)
    /\ WorkerMoves(cw, cw', accessCache)
    /\ WorkerMoves(sw, sw', sidecarAccesses)

\* The copies are accesses.
Typed(x) == x \in Obj /\ x.uid \in Nat

\* A copy after a step has the UID and the spec of one before it, or was just made.
Derived(a, x) == \E z \in Copies(a) : z.uid = x.uid /\ z.spec = x.spec
JustMade(a, x) == x = accesses'[a] /\ IsMade(a)

-----------------------------------------------------------------------------
(***************************************************************************)
(* The part of AccessLineage that the rest is relative to.                 *)
(***************************************************************************)
Base == Lineage /\ KnownOK /\ GrantsOK
-----------------------------------------------------------------------------
(***************************************************************************)
(* The Sidecar's other steps, told by their effects.                       *)
(***************************************************************************)
\* One turn of a loop from w leaves the worker as v.
Looped(v, w, c, e, next) ==
    /\ v.name = w.name /\ v.access = w.access
    /\ \/ /\ w.todo \ {c} # {} /\ v.pc = w.pc /\ v.todo = w.todo \ {c}
          /\ v.reserved = w.reserved /\ v.error = Join(w.error, e)
       \/ v.pc = "report"
       \/ /\ w.todo \ {c} = {} /\ Join(w.error, e) = "none" /\ v.pc = next.pc
          /\ v.todo = next.todo /\ v.reserved = next.reserved /\ v.error = next.error

\* Secrets other than s stay.
OthersStay(s) ==
    \A t \in SecretName : t # s => secrets'[t] = secrets[t] /\ freshSecret'[t] = freshSecret[t]

\* A write to Secret s.
SecretWritten(o, s, new, current) ==
    /\ OthersStay(s)
    /\ Applied(o) => current /\ secrets'[s] = new
    /\ ~Applied(o) => secrets'[s] = secrets[s]
    /\ "worker" \in freshSecret'[s] =>
         \/ "worker" \in freshSecret[s] /\ secrets'[s] = secrets[s]
         \/ current /\ secrets[s] # None /\ secrets'[s] = secrets[s]
         \/ o = "ok" /\ secrets'[s] # None

\* The Sidecar's worker goes on with the same access.
SidecarSame ==
    /\ sw'.name = sw.name /\ sw'.access = sw.access
    /\ unchangedBySidecar /\ UNCHANGED storedAccesses

\* Accessed Buckets are checked.
CheckStep ==
    /\ SidecarSame /\ UNCHANGED <<storedSecrets, accounts>>
    /\ \/ sw'.pc = "report"
       \/ /\ sw'.pc = "reserve" /\ sw'.todo = References(sw.access)
          /\ sw'.error = sw.error /\ sw'.reserved = sw.reserved

\* One Secret is reserved, with result e.
Reserving(c, e, s) ==
    /\ SidecarSame /\ UNCHANGED accounts
    /\ c \in sw.todo /\ s = SecretOf(sw.access, c) /\ e \in {"none", "retry", "terminal"}
    /\ \/ /\ sw'.pc = "reserve" /\ sw'.todo = sw.todo \ {c} /\ sw'.error = Join(sw.error, e)
          /\ e = "none" => sw'.reserved = sw.reserved \cup {s}
       \/ sw'.pc = "report"
       \/ /\ sw'.pc = "grant" /\ sw'.error = sw.error
          /\ sw.todo \ {c} = {} /\ Join(sw.error, e) = "none"
    /\ OthersStay(s)
    /\ \/ secrets'[s] = secrets[s]
       \/ secrets[s] = None /\ secrets'[s] # None /\ secrets'[s].owner = sw.access.uid
       \/ /\ Owned(s, sw.access.uid) /\ secrets'[s] # None
          /\ secrets'[s].owner = sw.access.uid /\ secrets'[s].data = secrets[s].data
    /\ "worker" \in freshSecret'[s] =>
         \/ "worker" \in freshSecret[s] /\ secrets'[s] = secrets[s]
         \/ secrets'[s] # None /\ secrets'[s].owner = sw.access.uid
    /\ e = "none" =>
         s \notin sw.reserved /\ secrets'[s] # None /\ secrets'[s].owner = sw.access.uid

\* Access is granted, or the error will be reported.
GrantStep ==
    LET granted == [accounts EXCEPT ![sw.access.uid] =
                      {BucketID[c] : c \in GrantConfigs(sw.access)}]
    IN  /\ SidecarSame /\ UNCHANGED storedSecrets
        /\ accounts' = accounts \/ accounts' = granted
        /\ \/ sw'.pc = "report"
           \/ /\ sw'.pc = "fill" /\ sw'.todo = GrantConfigs(sw.access)
              /\ sw'.error = sw.error /\ accounts' = granted

\* Access is revoked, or the error will be reported.
RevokeStep ==
    LET revoked == [accounts EXCEPT ![sw.access.uid] = {}]
    IN  /\ SidecarSame /\ UNCHANGED storedSecrets
        /\ accounts' = accounts \/ accounts' = revoked
        /\ sw'.pc = "report" \/ (sw'.pc = "finish" /\ accounts' = revoked)

\* One Secret is filled, with result e.
Filling(c, e, s) ==
    /\ SidecarSame /\ UNCHANGED accounts
    /\ c \in sw.todo /\ s = SecretOf(sw.access, c) /\ e \in {"none", "retry", "terminal"}
    /\ \/ sw'.pc = "fill" /\ sw'.todo = sw.todo \ {c} /\ sw'.error = Join(sw.error, e)
       \/ sw'.pc = "report"
       \/ sw'.pc = "setReady" /\ sw.todo \ {c} = {} /\ Join(sw.error, e) = "none"
    /\ OthersStay(s)
    /\ \/ secrets'[s] = secrets[s]
       \/ /\ "worker" \in freshSecret[s] /\ secrets'[s] # None
          /\ secrets'[s].owner = secrets[s].owner /\ secrets'[s].data = <<sw.access.uid, c>>
    /\ "worker" \in freshSecret'[s] => "worker" \in freshSecret[s]
    /\ e = "none" =>
         /\ "worker" \in freshSecret[s] /\ secrets'[s] # None
         /\ secrets'[s].owner = secrets[s].owner /\ secrets'[s].data = <<sw.access.uid, c>>

\* Where the cleanup goes from the last Secret.
AfterLast == sw'.pc = IF sw.access.accountID THEN "revoke" ELSE "finish"

\* One Secret is left alone because it is not owned, or loses its finalizer.
Unprotecting(c, s) ==
    /\ SidecarSame /\ UNCHANGED accounts
    /\ c \in sw.todo /\ s = SecretOf(sw.access, c) /\ OthersStay(s)
    /\ \/ secrets'[s] = secrets[s]
       \/ /\ Owned(s, sw.access.uid)
          /\ secrets'[s] # None => secrets'[s].owner = sw.access.uid /\ ~secrets'[s].finalizer
    /\ \/ sw'.pc = "report"
       \/ /\ sw'.pc = "unprotect" /\ sw'.todo = sw.todo \ {c}
          /\ sw'.error # "bucketGone"
          /\ sw'.error = "none" /\ sw.error # "bucketGone" => sw.error = "none"
          /\ sw'.error = "none" /\ "secrets" \notin Lagging => ~Owned(s, sw.access.uid)
       \/ /\ AfterLast
          /\ sw.todo \ {c} = {} /\ (sw.error # "bucketGone" => sw.error = "none")
          /\ "secrets" \notin Lagging => ~Owned(s, sw.access.uid)
       \/ /\ sw'.pc = "deleteSecret" /\ sw'.at = c /\ sw'.todo = sw.todo /\ sw'.error = sw.error
          /\ secrets'[s] # None => secrets'[s].owner = sw.access.uid /\ ~secrets'[s].finalizer

\* Secret s is deleted: it goes, unless a finalizer keeps it.
Erased(s) ==
    /\ secrets[s] # None
    /\ secrets'[s] # None => /\ secrets[s].finalizer /\ secrets'[s].owner = secrets[s].owner
                             /\ secrets'[s].data = secrets[s].data

\* One Secret is deleted, or the error collected.
Deleting(s) ==
    /\ SidecarSame /\ UNCHANGED accounts
    /\ s = SecretOf(sw.access, sw.at) /\ OthersStay(s) /\ (secrets'[s] = secrets[s] \/ Erased(s))
    /\ \/ sw'.pc = "report"
       \/ /\ sw'.pc = "unprotect" /\ sw'.todo = sw.todo \ {sw.at}
          /\ sw'.error # "bucketGone"
          /\ sw'.error = "none" => Erased(s) /\ (sw.error # "bucketGone" => sw.error = "none")
       \/ /\ AfterLast /\ Erased(s)
          /\ sw.todo \ {sw.at} = {} /\ (sw.error # "bucketGone" => sw.error = "none")

-----------------------------------------------------------------------------
(***************************************************************************)
(* Whose step it is.                                                       *)
(***************************************************************************)
\* Steps that concern claims, Buckets, Secrets or the class only.
Elsewhere ==
    \/ \E c \in ClaimName : ClaimSync(c) \/ BucketSync(c) \/ ClaimProceeds(c) \/ ClaimRetires(c)
    \/ \E s \in SecretName : SecretSync(s) \/ ChangeSecret(s)
    \/ AdminCreateClass
    \/ UNCHANGED vars

\* What a step of the Controller, and one of the Sidecar, is.
ControllerMoves ==
    \/ \E a \in AccessName : ControllerStart(a)
    \/ ControllerStep \/ ControllerRestart
SidecarMoves ==
    \/ \E a \in AccessName : SidecarStart(a)
    \/ SidecarStep \/ SidecarRestart
OthersMove ==
    \/ \E a \in AccessName : \/ ControllerAccessSync(a) \/ SidecarAccessSync(a)
                             \/ UserCreateAccess(a) \/ UserDeleteAccess(a) \/ EditAccess(a)
    \/ Elsewhere
=============================================================================
