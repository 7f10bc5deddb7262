---------------------------- MODULE AccessLineage ----------------------------
(***************************************************************************)
(* What AccessInvariant does not say because no access is forgotten        *)
(* without it: how the copies of a BucketAccess in caches and workers      *)
(* relate to the stored one, and what follows for claims, Secrets and      *)
(* accounts.                                                               *)
(***************************************************************************)
EXTENDS AccessInvariant

\* All copies of access a.
Copies(a) ==
    ({accesses[a], accessCache[a], sidecarAccesses[a]}
       \cup (IF cw.name = a THEN {cw.access} ELSE {})
       \cup (IF sw.name = a THEN {sw.access} ELSE {})) \ {None}

\* A UID names one access with one spec.
UidsOK ==
    \A a, b \in AccessName : \A x \in Copies(a), y \in Copies(b) :
      /\ x.uid <= issued
      /\ x.uid = y.uid => a = b /\ x.spec = y.spec

\* The cleanup annotation is only on deleting accesses, and what is handed over
\* lists every claim of the spec.
Complete(x) ==
    /\ x.cleanupFinished => x.deleting
    /\ x.driverName # None => x.accessedBuckets = References(x)
CopiesComplete == \A a \in AccessName : \A x \in Copies(a) : Complete(x)

\* y is not older than x.  What a worker read, its cache and the stored access
\* follow each other, and none was skipped.
Follows(x, y) ==
    x # None /\ y # None => x.uid <= y.uid /\ (x.uid = y.uid /\ x.deleting => y.deleting)
Chain(copy, cached, stored) ==
    /\ Follows(copy, cached) /\ Follows(copy, stored)
    /\ stored # None => (copy.uid = stored.uid => cached # None)
OrderOK ==
    \A a \in AccessName :
      /\ Follows(accessCache[a], accesses[a])
      /\ Follows(sidecarAccesses[a], accesses[a])
      /\ cw.name = a => Chain(cw.access, accessCache[a], accesses[a])
      /\ sw.name = a => Chain(sw.access, sidecarAccesses[a], accesses[a])

\* A current copy that a reconcile has changed differs only in the status, and there
\* only in what that reconcile sets.
SameButStatus(x, y) ==
    /\ x.uid = y.uid /\ x.spec = y.spec /\ x.finalizer = y.finalizer
    /\ x.deleting = y.deleting /\ x.cleanupFinished = y.cleanupFinished
    /\ x.override = y.override
ControllerCurrent ==
    \A a \in AccessName :
      "controllerWorker" \in freshAccess[a] =>
        /\ SameButStatus(accesses[a], cw.access)
        /\ cw.access.accountID = accesses[a].accountID
        /\ cw.access.readyToUse = "true" => accesses[a].readyToUse = "true"
SidecarCurrent ==
    \A a \in AccessName :
      "sidecarWorker" \in freshAccess[a] =>
        /\ SameButStatus(accesses[a], sw.access)
        /\ accesses[a].deleting => sw.access.accountID = accesses[a].accountID

Lineage ==
    UidsOK /\ CopiesComplete /\ OrderOK /\ ControllerCurrent /\ SidecarCurrent
-----------------------------------------------------------------------------
\* The Controller knows every access that it has handed over.
KnownOK ==
    \A a \in AccessName :
      accesses[a] # None =>
        (accesses[a].driverName # None =>
           /\ accessCache[a] # None /\ accessCache[a].uid = accesses[a].uid
           /\ cw.name = a => cw.access.uid = accesses[a].uid)

\* Claim c is marked as long as it exists, and its name is used up.
Kept(c) == c \in claimed /\ (claims[c] # None => claims[c].marked)
InUse(x) == x # None /\ x.driverName # None /\ ~x.deleting

\* What the Controller's worker knows of marks.
Checked(w) ==
    /\ w.pc \in {"addFinalizer", "readClaims"} => w.error = "none"
    /\ w.pc = "mark" => w.error # "bucketGone"
    /\ w.pc \in {"mark", "readBuckets"} =>
         \A c \in ClaimName : w.claims[c] # None => c \in claimed /\
           (w.error = "none" /\ c \notin w.todo => Kept(c))
    /\ w.pc = "readBuckets" => w.error = "none" /\ w.todo = {}
    /\ w.pc = "handoff" => \A c \in References(w.access) : Kept(c)
    /\ w.pc = "report" /\ "controllerWorker" \in freshAccess[w.name] =>
         (w.access.driverName # None /\ accesses[w.name].driverName = None
            => \A c \in References(w.access) : Kept(c))
    /\ w.pc = "unmark" => \A c \in w.todo, a \in AccessName :
         InUse(accesses[a]) => c \notin References(accesses[a])
MarksOK ==
    /\ \A c \in ClaimName : claims[c] # None => c \in claimed
    /\ \A a \in AccessName : InUse(accesses[a]) => \A c \in References(accesses[a]) : Kept(c)
    /\ Checked(cw)
-----------------------------------------------------------------------------
\* Secrets are owned by accesses that name them.
OwnersOK ==
    \A s \in SecretName : secrets[s] # None =>
      /\ secrets[s].owner <= issued
      /\ \A a \in AccessName : \A x \in Copies(a) :
           x.uid = secrets[s].owner => \E c \in References(x) : s = SecretOf(x, c)

\* A deleting access is not granted anything; one that is cleaned up is known to the
\* Sidecar as deleting.
GrantsOK ==
    /\ sw.pc \in Granting \cup {"addFinalizer"} => ~sw.access.deleting
    /\ \A a \in AccessName : accesses[a] # None =>
         (accesses[a].cleanupFinished =>
            /\ sidecarAccesses[a] # None /\ sidecarAccesses[a].uid = accesses[a].uid
                 => sidecarAccesses[a].deleting
            /\ sw.name = a /\ sw.access.uid = accesses[a].uid => sw.access.deleting)

Owned(s, u) == secrets[s] # None /\ secrets[s].owner = u
Cleaned(w) ==
    /\ w.pc = "clearStatus" => w.error = "none"
    /\ w.pc \in {"unprotect", "deleteSecret"} => w.error # "bucketGone"
    /\ w.pc \in {"unprotect", "deleteSecret"} /\ w.error = "none" =>
         \A s \in SecretName : Owned(s, w.access.uid) =>
           \E c \in w.todo : s = SecretOf(w.access, c)
    /\ w.pc = "deleteSecret" =>
         /\ w.at \in w.todo
         /\ Owned(SecretOf(w.access, w.at), w.access.uid)
              => ~secrets[SecretOf(w.access, w.at)].finalizer
    /\ w.pc \in {"revoke", "finish"} => \A s \in SecretName : ~Owned(s, w.access.uid)
    /\ w.pc = "finish" /\ w.access.accountID => accounts[w.access.uid] = {}
CleanupOK == CleanupIsComplete /\ Cleaned(sw)
-----------------------------------------------------------------------------
DistinctBuckets ==
    \A spec \in AccessSpec : \A c, d \in DOMAIN spec.refs : BucketID[c] = BucketID[d] => c = d

OwnSecrets(x, refs) == \A c \in refs : Owned(SecretOf(x, c), x.uid)
FilledSecrets(x, refs) ==
    \A c \in refs : /\ Owned(SecretOf(x, c), x.uid)
                    /\ secrets[SecretOf(x, c)].data = <<x.uid, c>>
GrantedBuckets(x) == \A c \in References(x) : BucketID[c] \in accounts[x.uid]
Usable(x) == FilledSecrets(x, References(x)) /\ GrantedBuckets(x)
OneSecretEach(x, refs) ==
    \A c, d \in refs : SecretOf(x, c) = SecretOf(x, d) => c = d

\* What the Sidecar's worker has achieved so far; of the Secrets only as long as its
\* copy is current, because those of an access that is gone are collected.
Achieved(w) ==
    LET refs == References(w.access)
        done == refs \ w.todo
        current == "sidecarWorker" \in freshAccess[w.name]
    IN  /\ w.pc \in {"idle", "addFinalizer", "checkBuckets", "clearStatus"} =>
             \A s \in SecretName : "worker" \notin freshSecret[s]
        /\ w.pc \in {"reserve", "grant", "fill", "setReady"} =>
             \A s \in SecretName : "worker" \in freshSecret[s] => Owned(s, w.access.uid)
        /\ w.pc \in {"addFinalizer", "checkBuckets"} => w.error = "none" /\ w.reserved = {}
        /\ w.pc \in {"reserve", "fill"} => w.error # "bucketGone"
        /\ w.pc = "reserve" /\ w.error = "none" =>
             /\ w.reserved = {SecretOf(w.access, c) : c \in done}
             /\ OneSecretEach(w.access, done)
             /\ current => OwnSecrets(w.access, done)
        /\ w.pc \in {"grant", "fill", "setReady"} =>
             /\ OneSecretEach(w.access, refs)
             /\ current => OwnSecrets(w.access, refs)
        /\ w.pc = "grant" => w.error = "none"
        /\ w.pc = "fill" /\ w.error = "none" /\ current => FilledSecrets(w.access, done)
        /\ w.pc \in {"fill", "setReady"} => GrantedBuckets(w.access)
        /\ w.pc = "setReady" /\ current => Usable(w.access)
        /\ w.pc = "report" /\ current /\ w.access.readyToUse = "true" => Usable(w.access)
        /\ w.pc = "deleteSecret" =>
             LET s == SecretOf(w.access, w.at)
             IN  secrets[s] # None => secrets[s].owner = w.access.uid
        /\ w.pc \in {"unprotect", "deleteSecret", "revoke", "finish"} /\ accesses[w.name] # None
             => (accesses[w.name].uid = w.access.uid => accesses[w.name].readyToUse # "true")
UsableOK ==
    /\ \A a \in AccessName : accesses[a] # None =>
         (accesses[a].readyToUse = "true" => Usable(accesses[a]))
    /\ Achieved(sw)
-----------------------------------------------------------------------------
LInv ==
    /\ Lineage
    /\ KnownOK /\ OwnersOK /\ GrantsOK
    /\ "claims" \notin Lagging => MarksOK
    /\ "secrets" \notin Lagging => CleanupOK
    /\ DistinctBuckets /\ edits = 0 => UsableOK
=============================================================================
