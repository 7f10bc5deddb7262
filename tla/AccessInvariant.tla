-------------------------- MODULE AccessInvariant ---------------------------
(***************************************************************************)
(* The inductive invariant of Access.  Beyond types it says what a worker  *)
(* has checked of its copy, that a copy at the current version is the      *)
(* stored access, and that the process in charge of an unfinished access   *)
(* has it in hand and a cached copy that will make it act.                 *)
(***************************************************************************)
EXTENDS Access

\* The Controller sets all that the Sidecar needs at once.
WellFormed(x) ==
    /\ x.driverName = None => x.accessedBuckets = {} /\ x.authenticationType = None
    /\ x.driverName # None => x.accessedBuckets # {} /\ x.authenticationType # None
Obj == {x \in AccessObject : WellFormed(x)}

AccessesOK ==
    /\ accesses \in [AccessName -> Obj \cup {None}]
    /\ accessCache \in [AccessName -> Obj \cup {None}]
    /\ sidecarAccesses \in [AccessName -> Obj \cup {None}]
    /\ freshAccess \in [AccessName -> SUBSET AccessHolder]
    /\ controllerEvents \subseteq AccessName /\ controllerQueue \subseteq AccessName
    /\ sidecarEvents \subseteq AccessName /\ sidecarQueue \subseteq AccessName

\* What a worker has checked of its copy.
Preparing == {"addFinalizer", "readClaims", "mark", "readBuckets", "handoff"}
Retiring == {"readForDelete", "unmark", "removeFinalizer"}
ControllerHolds(w) ==
    /\ w \in ControllerWorker
    /\ w.pc = "idle" => w.name = None
    /\ w.pc # "idle" => w.name \in AccessName /\ w.access \in Obj
    /\ w.pc \in Preparing => w.access.driverName = None /\ ~w.access.deleting
    /\ w.pc \in Retiring => w.access.deleting

Granting == {"checkBuckets", "reserve", "grant", "fill", "setReady"}
Cleaning == {"clearStatus", "unprotect", "deleteSecret", "revoke", "finish"}
SidecarHolds(w) ==
    /\ w \in SidecarWorker
    /\ w.pc = "idle" => w.name = None
    /\ w.pc # "idle" => /\ w.name \in AccessName /\ w.access \in Obj
                        /\ w.access.driverName # None
                        /\ w.todo \subseteq References(w.access)
    /\ w.pc \in Granting => w.access.finalizer
    /\ w.pc \in Cleaning => w.access.deleting
    /\ w.pc = "deleteSecret" => w.at \in References(w.access)

\* What is final is the same, or is set for the first time.
SameFinal(x, y) ==
    /\ x.driverName = y.driverName
    /\ x.accessedBuckets = y.accessedBuckets
    /\ x.authenticationType = y.authenticationType
    /\ x.accountID => y.accountID

\* A copy at the current version is the stored access.  Only an error report has one
\* that the reconcile has changed, in ways that the report may write.
ControllerMayReport(x, copy) ==
    x.driverName = None \/ ((x.override \/ x.deleting) /\ SameFinal(x, copy))
CachesCoherent(a) ==
    /\ "controllerCache" \in freshAccess[a] => accessCache[a] = accesses[a]
    /\ "sidecarCache" \in freshAccess[a] => sidecarAccesses[a] = accesses[a]
ControllerCoherent(a) ==
    "controllerWorker" \in freshAccess[a] =>
      /\ cw.pc # "idle" /\ cw.name = a /\ accesses[a] # None
      /\ cw.pc # "report" => cw.access = accesses[a]
      /\ cw.pc = "report" => ControllerMayReport(accesses[a], cw.access)
SidecarCoherent(a) ==
    "sidecarWorker" \in freshAccess[a] =>
      /\ sw.pc # "idle" /\ sw.name = a /\ accesses[a] # None
      /\ sw.pc # "report" => sw.access = accesses[a]
      /\ sw.pc = "report" => SameFinal(accesses[a], sw.access)

\* The process in charge has an unfinished access in hand and, unless an event is on
\* its way, its cached copy will make it act.
Unfinished(x) == x.error \notin TerminalError /\ ~(x.readyToUse = "true" /\ x.finalizer)
ForController(x) == x # None /\ ~x.deleting /\ x.driverName = None
ForSidecar(x) == x # None /\ ~x.deleting /\ x.driverName # None /\ ~x.override
ControllerHas(a) == a \in controllerEvents \/ a \in controllerQueue \/ cw.name = a
SidecarHas(a) == a \in sidecarEvents \/ a \in sidecarQueue \/ sw.name = a
ControllerAttends(a) ==
    ForController(accesses[a]) =>
      /\ a \in controllerEvents \/ ForController(accessCache[a])
      /\ Unfinished(accesses[a]) => ControllerHas(a)
SidecarAttends(a) ==
    ForSidecar(accesses[a]) =>
      /\ a \in sidecarEvents \/ ForSidecar(sidecarAccesses[a])
      /\ Unfinished(accesses[a]) => SidecarHas(a)

CachesOK == \A a \in AccessName : CachesCoherent(a)
ControllerOK == \A a \in AccessName : ControllerCoherent(a) /\ ControllerAttends(a)
SidecarOK == \A a \in AccessName : SidecarCoherent(a) /\ SidecarAttends(a)

\* Current copies of claims and Secrets; a bound claim has its Bucket.
ClaimOK(c) ==
    /\ "cache" \in freshClaim[c] => claimCache[c] = claims[c]
    /\ "worker" \in freshClaim[c] => claims[c] # None
    /\ claims[c] # None => (claims[c].bound => buckets[c] \in BucketObject)
ClaimsOK ==
    /\ claims \in [ClaimName -> ClaimObject \cup {None}]
    /\ claimCache \in [ClaimName -> ClaimObject \cup {None}]
    /\ buckets \in [ClaimName -> BucketObject \cup {None}]
    /\ bucketCache \in [ClaimName -> BucketObject \cup {None}]
    /\ sidecarBuckets \in [ClaimName -> BucketObject \cup {None}]
    /\ freshClaim \in [ClaimName -> SUBSET Holder]
    /\ \A c \in ClaimName : ClaimOK(c)
SecretOK(s) ==
    /\ "cache" \in freshSecret[s] => secretCache[s] = secrets[s]
    /\ "worker" \in freshSecret[s] => secrets[s] # None
SecretsOK ==
    /\ secrets \in [SecretName -> SecretObject \cup {None}]
    /\ secretCache \in [SecretName -> SecretObject \cup {None}]
    /\ freshSecret \in [SecretName -> SUBSET Holder]
    /\ \A s \in SecretName : SecretOK(s)

CountersOK ==
    /\ classExists \in BOOLEAN
    /\ accounts \in [Uid -> SUBSET {BucketID[c] : c \in ClaimName}]
    /\ issued \in 0 .. MaxUid
    /\ claimed \subseteq ClaimName
    /\ restarts \in 0 .. MaxRestarts
    /\ edits \in 0 .. MaxEdits
FaultsOK == faults \in 0 .. MaxFaults

IInv ==
    /\ AccessesOK /\ ControllerHolds(cw) /\ SidecarHolds(sw)
    /\ CachesOK /\ ControllerOK /\ SidecarOK
    /\ ClaimsOK /\ SecretsOK /\ CountersOK /\ FaultsOK

\* What a step may do to a stored access.
MayBecome(x, y) ==
    x # None /\ y # None =>
      /\ x.deleting => y.deleting
      /\ x.driverName # None => SameFinal(x, y)
StepOK == \A a \in AccessName : MayBecome(accesses[a], accesses'[a])

\* Which variables a step leaves alone.
accessVars == <<accesses, freshAccess, controllerEvents, sidecarEvents, accessCache,
                sidecarAccesses>>
claimVars == <<claims, freshClaim, buckets, claimCache, bucketCache, sidecarBuckets>>
secretVars == <<secrets, freshSecret, secretCache>>
counterVars == <<classExists, accounts, issued, claimed, restarts, edits>>
=============================================================================
