------------------------------- MODULE Access -------------------------------
(***************************************************************************)
(* The life of a BucketAccess: the Controller initialises it, hands it to  *)
(* the Sidecar, which reserves Secrets, has the driver grant access and    *)
(* fills the Secrets; on deletion the Sidecar cleans up and hands it back. *)
(*                                                                         *)
(* One step is one write to the API server or one RPC, with the cache      *)
(* reads and the pure code before it.  Reading together what the code      *)
(* reads one by one changes nothing: every cached object lags on its own,  *)
(* so a read that comes later might as well have come now.                 *)
(*                                                                         *)
(* BucketClaims and Buckets move as the module Provisioning says, reduced  *)
(* to what the BucketAccess reconcilers look at.                           *)
(***************************************************************************)
EXTENDS AccessResources

CONSTANTS
    MaxFaults,    \* bound: API and driver calls that fail for no visible reason
    MaxRestarts,  \* bound: restarts of the Controller or the Sidecar process
    MaxEdits,     \* bound: changes by hand to Secrets, finalizers and annotations
    Prepared,     \* claims that are provisioned before the first access is made
    Lagging       \* kinds whose cached copies may be old when they are read
                  \* (BucketAccesses always may)

Kind == {"claims", "buckets", "secrets"}

ASSUME AccessBounds ==
    /\ MaxFaults \in Nat
    /\ MaxRestarts \in Nat
    /\ MaxEdits \in Nat
    /\ Prepared \subseteq ClaimName
    /\ Lagging \subseteq Kind

VARIABLES
    accesses, claims, buckets, secrets,  \* the API server's objects
    classExists,                         \* the BucketAccessClass is there
    freshAccess, freshClaim, freshSecret,   \* holders of the current version
    controllerEvents, sidecarEvents,     \* undelivered events that enqueue
    accessCache, claimCache, bucketCache,   \* the Controller's caches
    sidecarAccesses, sidecarBuckets, secretCache,  \* the Sidecar's caches
    controllerQueue, sidecarQueue,
    cw, sw,                              \* the Controller's and the Sidecar's worker
    accounts,                            \* backend: bucket IDs each account may use
    issued,                              \* BucketAccess UIDs issued
    claimed,                             \* claims that were ever created
    faults, restarts, edits              \* used up so far

storedAccesses == <<accesses, freshAccess, controllerEvents, sidecarEvents>>
storedClaims == <<claims, freshClaim>>
storedSecrets == <<secrets, freshSecret>>
accessCaches == <<accessCache, sidecarAccesses>>
otherCaches == <<claimCache, bucketCache, sidecarBuckets, secretCache>>
controllerVars == <<controllerQueue, cw>>
sidecarVars == <<sidecarQueue, sw>>
envVars == <<buckets, classExists, issued, claimed, restarts, edits>>
vars == <<storedAccesses, storedClaims, storedSecrets, accessCaches, otherCaches,
          controllerVars, sidecarVars, accounts, envVars, faults>>

AccessHolder == {"controllerCache", "controllerWorker", "sidecarCache", "sidecarWorker"}
Holder == {"cache", "worker"}

ControllerPc == {"idle", "addFinalizer", "readClaims", "mark", "readBuckets", "handoff",
                 "report", "readForDelete", "unmark", "removeFinalizer"}
SidecarPc == {"idle", "addFinalizer", "checkBuckets", "reserve", "grant", "fill",
              "setReady", "report", "clearStatus", "unprotect", "deleteSecret",
              "revoke", "finish"}

\* claims: copies of the referenced claims; todo: claims still to be handled in
\* a loop; error: the worst error of the loop so far, or the one to report.
ControllerWorker ==
    [pc : ControllerPc, name : AccessName \cup {None},
     access : AccessObject \cup {None},
     claims : [ClaimName -> ClaimObject \cup {None}],
     todo : SUBSET ClaimName, error : Error]
SidecarWorker ==
    [pc : SidecarPc, name : AccessName \cup {None}, access : AccessObject \cup {None},
     todo : SUBSET ClaimName, at : ClaimName \cup {None},
     reserved : SUBSET SecretName, error : Error]

NoClaims == [c \in ClaimName |-> None]
ControllerIdle == [pc |-> "idle", name |-> None, access |-> None, claims |-> NoClaims,
                   todo |-> {}, error |-> "none"]
SidecarIdle == [pc |-> "idle", name |-> None, access |-> None, todo |-> {}, at |-> None,
                reserved |-> {}, error |-> "none"]

TypeOK ==
    /\ accesses \in [AccessName -> AccessObject \cup {None}]
    /\ claims \in [ClaimName -> ClaimObject \cup {None}]
    /\ buckets \in [ClaimName -> BucketObject \cup {None}]
    /\ secrets \in [SecretName -> SecretObject \cup {None}]
    /\ classExists \in BOOLEAN
    /\ freshAccess \in [AccessName -> SUBSET AccessHolder]
    /\ freshClaim \in [ClaimName -> SUBSET Holder]
    /\ freshSecret \in [SecretName -> SUBSET Holder]
    /\ controllerEvents \subseteq AccessName
    /\ sidecarEvents \subseteq AccessName
    /\ accessCache \in [AccessName -> AccessObject \cup {None}]
    /\ sidecarAccesses \in [AccessName -> AccessObject \cup {None}]
    /\ claimCache \in [ClaimName -> ClaimObject \cup {None}]
    /\ bucketCache \in [ClaimName -> BucketObject \cup {None}]
    /\ sidecarBuckets \in [ClaimName -> BucketObject \cup {None}]
    /\ secretCache \in [SecretName -> SecretObject \cup {None}]
    /\ controllerQueue \subseteq AccessName
    /\ sidecarQueue \subseteq AccessName
    /\ cw \in ControllerWorker
    /\ sw \in SidecarWorker
    /\ accounts \in [Uid -> SUBSET {BucketID[c] : c \in ClaimName}]
    /\ issued \in 0 .. MaxUid
    /\ claimed \subseteq ClaimName
    /\ faults \in 0 .. MaxFaults
    /\ restarts \in 0 .. MaxRestarts
    /\ edits \in 0 .. MaxEdits

Init ==
    /\ accesses = [a \in AccessName |-> None]
    /\ claims = [c \in ClaimName |-> IF c \in Prepared THEN ReadyClaim(c) ELSE None]
    /\ buckets = [c \in ClaimName |-> IF c \in Prepared THEN ReadyBucket ELSE None]
    /\ secrets = [s \in SecretName |-> None]
    /\ classExists = FALSE
    /\ freshAccess = [a \in AccessName |-> {"controllerCache", "sidecarCache"}]
    /\ freshClaim = [c \in ClaimName |-> {"cache"}]
    /\ freshSecret = [s \in SecretName |-> {"cache"}]
    /\ controllerEvents = {} /\ sidecarEvents = {}
    /\ accessCache = accesses /\ sidecarAccesses = accesses
    /\ claimCache = claims
    /\ bucketCache = buckets /\ sidecarBuckets = buckets
    /\ secretCache = secrets
    /\ controllerQueue = {} /\ sidecarQueue = {}
    /\ cw = ControllerIdle
    /\ sw = SidecarIdle
    /\ accounts = [u \in Uid |-> {}]
    /\ issued = 0 /\ claimed = Prepared
    /\ faults = 0 /\ restarts = 0 /\ edits = 0
-----------------------------------------------------------------------------
(***************************************************************************)
(* The API server, as the reconcilers use it.                              *)
(***************************************************************************)
Ends(o, acceptable) ==
    /\ o = "ok" => acceptable
    /\ o = "rejected" => ~acceptable
    /\ o \in {"failed", "timedOut"} => acceptable /\ faults < MaxFaults
    /\ faults' = IF o \in {"failed", "timedOut"} THEN faults + 1 ELSE faults

Applied(o) == o \in {"ok", "timedOut"}

\* A stored BucketAccess changes, and the watches of both processes will tell.
StoreAccess(a, new) ==
    /\ accesses' = [accesses EXCEPT ![a] = new]
    /\ controllerEvents' = IF ControllerEnqueues(accesses[a], new)
                           THEN controllerEvents \cup {a} ELSE controllerEvents
    /\ sidecarEvents' = IF SidecarEnqueues(accesses[a], new)
                        THEN sidecarEvents \cup {a} ELSE sidecarEvents

\* An Update or Status().Update of access a by the given worker; done says that
\* the worker's reconcile ends here.
WriteAccess(o, a, obj, touch, worker, done) ==
    LET new == IF Applied(o) THEN Persisted(obj) ELSE accesses[a]
        fresh == [freshAccess EXCEPT ![a] =
                    AfterWrite(o, @, accesses[a], new, touch, worker)]
    IN  /\ Ends(o, worker \in freshAccess[a])
        /\ StoreAccess(a, new)
        /\ freshAccess' = IF done THEN Forget(fresh, worker) ELSE fresh

SetAccessStatus(obj, local) ==
    [obj EXCEPT !.readyToUse = local.readyToUse, !.accountID = local.accountID,
                !.accessedBuckets = local.accessedBuckets,
                !.driverName = local.driverName,
                !.authenticationType = local.authenticationType,
                !.error = local.error]

\* What a cached read returns, and whether that is the current version.
Seen(kind, cache, store) == IF kind \in Lagging THEN cache ELSE store
IsCurrent(kind, fresh) == kind \notin Lagging \/ "cache" \in fresh

\* What Reconcile does with an error it tried to record: a recorded terminal error
\* is not retried, any other goes back to the queue.  (Mutant: every recorded error
\* counts as handled.)
requeuesUnrecordedOnly(queue, a, o, e) == IF o = "ok" THEN queue ELSE queue \cup {a}
Requeued(queue, a, o, e) ==
    IF o = "ok" /\ e \in TerminalError THEN queue ELSE queue \cup {a}

\* errors.Join of two errors is terminal as soon as one of them is.  (Mutant: the
\* last error of a loop is the one that counts.)
lastError(e, f) == f
Join(e, f) == IF "terminal" \in {e, f} THEN "terminal"
              ELSE IF "retry" \in {e, f} THEN "retry" ELSE "none"
-----------------------------------------------------------------------------
(***************************************************************************)
(* The Controller: BucketAccessReconciler.                                 *)
(***************************************************************************)
\* reconcile() returned an error; Reconcile will record it in the status.
FailController(w, e) ==
    [w EXCEPT !.pc = "report", !.claims = NoClaims, !.todo = {}, !.error = e]

\* Reconcile begins, with the access as the cache has it.
startController(a, obj) ==
    LET w == [ControllerIdle EXCEPT !.pc = "readClaims", !.name = a, !.access = obj]
    IN  CASE ManagedBySidecar(obj) -> ControllerIdle
          [] ~ManagedBySidecar(obj) /\ obj.deleting -> [w EXCEPT !.pc = "readForDelete"]
          [] OTHER ->
                IF SidecarRequirementsPresent(obj) # "none" THEN FailController(w, "terminal")
                ELSE IF obj.finalizer THEN w ELSE [w EXCEPT !.pc = "addFinalizer"]

ControllerStart(a) ==
    /\ cw.pc = "idle"
    /\ a \in controllerQueue
    /\ controllerQueue' = controllerQueue \ {a}
    /\ cw' = IF accessCache[a] = None THEN ControllerIdle
                                      ELSE startController(a, accessCache[a])
    /\ freshAccess' = [freshAccess EXCEPT ![a] =
          AfterRead(@, "controllerCache", IF cw'.pc = "idle" THEN None ELSE accessCache[a],
                    "controllerWorker")]
    /\ UNCHANGED <<accesses, controllerEvents, sidecarEvents, storedClaims, storedSecrets,
                   accessCaches, otherCaches, sidecarVars, accounts, envVars, faults>>

unchangedByController ==
    UNCHANGED <<storedSecrets, accessCaches, otherCaches, sidecarVars, accounts, envVars>>

ControllerAddFinalizer ==
    /\ cw.pc = "addFinalizer"
    /\ LET obj == [cw.access EXCEPT !.finalizer = TRUE]
       IN  \E o \in Outcome :
             /\ WriteAccess(o, cw.name, obj, FALSE, "controllerWorker", FALSE)
             /\ cw' = IF o = "ok" THEN [cw EXCEPT !.pc = "readClaims", !.access = obj]
                                  ELSE FailController(cw, "retry")
    /\ UNCHANGED <<storedClaims, controllerQueue>>
    /\ unchangedByController

\* getAllBucketClaims: copies of the referenced claims from the cache.
getAllBucketClaims ==
    [c \in ClaimName |-> IF c \in References(cw.access)
                         THEN Seen("claims", claimCache, claims)[c] ELSE None]

\* The claims are read, and a loop at pc will write those in `left`, then go on at
\* `next`.
ReadClaims(left, pc, next) ==
    /\ cw' = [cw EXCEPT !.claims = IF pc = "unmark" THEN NoClaims ELSE getAllBucketClaims,
                        !.todo = left,
                        !.pc = IF left = {} THEN next ELSE pc]
    /\ freshClaim' = [c \in ClaimName |->
                        IF c \in left /\ IsCurrent("claims", freshClaim[c])
                        THEN freshClaim[c] \cup {"worker"} ELSE freshClaim[c] \ {"worker"}]
    /\ UNCHANGED <<storedAccesses, claims, controllerQueue, faults>>
    /\ unchangedByController

ControllerReadClaims ==
    LET seen == getAllBucketClaims
        unmarked == {c \in ClaimName : seen[c] # None /\ ~seen[c].marked}
    IN  /\ cw.pc = "readClaims"
        /\ ReadClaims(unmarked, "mark", "readBuckets")

\* One Update of the loops over claims: all are tried, errors are collected.
WriteMark(value, next) ==
    \E c \in cw.todo, o \in Outcome :
      LET new == IF Applied(o) THEN [claims[c] EXCEPT !.marked = value] ELSE claims[c]
          left == cw.todo \ {c}
          e == Join(cw.error, IF o = "ok" THEN "none" ELSE "retry")
      IN  /\ Ends(o, "worker" \in freshClaim[c])
          /\ claims' = [claims EXCEPT ![c] = new]
          /\ freshClaim' = [freshClaim EXCEPT ![c] =
                              AfterWrite(o, @, claims[c], new, FALSE, "worker") \ {"worker"}]
          /\ cw' = CASE left # {} -> [cw EXCEPT !.todo = left, !.error = e]
                     [] left = {} /\ e # "none" -> FailController(cw, e)
                     [] OTHER -> [cw EXCEPT !.todo = {}, !.pc = next]
          /\ UNCHANGED <<storedAccesses, controllerQueue>>
          /\ unchangedByController

ControllerMark == cw.pc = "mark" /\ WriteMark(TRUE, "readBuckets")

\* The checks between marking and handing over.
initialise(w, bkts) ==
    LET refs == References(w.access)
    IN  CASE w.access.accessedBuckets # {} -> ControllerIdle   \* "HARD STOP"
          [] w.access.accessedBuckets = {} /\ ~classExists -> FailController(w, "retry")
          [] OTHER ->
                IF \/ ~ValidateAccessAgainstClass(w.access)
                   \/ ~getBucketsForClaims(w.claims, bkts, refs)
                   \/ cannotAccessBucketClaims(w.claims, w.access)
                THEN FailController(w, "terminal")
                ELSE IF waitingOnBucketClaims(w.claims, bkts, refs)
                     THEN FailController(w, "retry")
                     ELSE [w EXCEPT !.pc = "handoff", !.claims = NoClaims]

ControllerReadBuckets ==
    /\ cw.pc = "readBuckets"
    /\ cw' = initialise(cw, Seen("buckets", bucketCache, buckets))
    /\ freshAccess' = IF cw'.pc = "idle" THEN Forget(freshAccess, "controllerWorker")
                                         ELSE freshAccess
    /\ UNCHANGED <<accesses, controllerEvents, sidecarEvents, storedClaims, controllerQueue,
                   faults>>
    /\ unchangedByController

\* compileAccessedBuckets, and the Status().Update that hands the access over.
\* A failed one leaves the mutated copy to the error report.
ControllerHandoff ==
    /\ cw.pc = "handoff"
    /\ LET local == [cw.access EXCEPT !.readyToUse = NotNil(@),
                        !.accessedBuckets = References(cw.access),
                        !.driverName = Class.driverName,
                        !.authenticationType = Class.authenticationType,
                        !.error = "none"]
       IN  \E o \in Outcome :
             /\ WriteAccess(o, cw.name, SetAccessStatus(accesses[cw.name], local), FALSE,
                            "controllerWorker", o = "ok")
             /\ cw' = IF o = "ok" THEN ControllerIdle
                      ELSE FailController([cw EXCEPT !.access = local], "retry")
    /\ UNCHANGED <<storedClaims, controllerQueue>>
    /\ unchangedByController

\* Reconcile records the error.
ControllerReport ==
    /\ cw.pc = "report"
    /\ LET local == [cw.access EXCEPT !.readyToUse = NotNil(@), !.error = cw.error]
       IN  \E o \in Outcome :
             /\ WriteAccess(o, cw.name, SetAccessStatus(accesses[cw.name], local), TRUE,
                            "controllerWorker", TRUE)
             /\ controllerQueue' = Requeued(controllerQueue, cw.name, o, cw.error)
    /\ cw' = ControllerIdle
    /\ UNCHANGED storedClaims
    /\ unchangedByController

\* reconcileDelete: claims that only this access refers to lose their mark.
ControllerReadForDelete ==
    LET seen == getAllBucketClaims
        unneeded == {c \in ClaimName :
                       /\ seen[c] # None /\ seen[c].marked
                       /\ ~hasBucketAccessReferences(c, accessCache, cw.name)}
    IN  /\ cw.pc = "readForDelete"
        /\ ReadClaims(unneeded, "unmark", "removeFinalizer")

ControllerUnmark == cw.pc = "unmark" /\ WriteMark(FALSE, "removeFinalizer")

ControllerRemoveFinalizer ==
    /\ cw.pc = "removeFinalizer"
    /\ LET obj == [cw.access EXCEPT !.finalizer = FALSE]
       IN  \E o \in Outcome :
             /\ WriteAccess(o, cw.name, obj, FALSE, "controllerWorker", o = "ok")
             /\ cw' = IF o = "ok" THEN ControllerIdle ELSE FailController(cw, "retry")
    /\ UNCHANGED <<storedClaims, controllerQueue>>
    /\ unchangedByController
-----------------------------------------------------------------------------
(***************************************************************************)
(* The Sidecar: BucketAccessReconciler.                                    *)
(***************************************************************************)
FailSidecar(w, e) ==
    [w EXCEPT !.pc = "report", !.todo = {}, !.at = None, !.reserved = {}, !.error = e]

startSidecar(a, obj) ==
    LET w == [SidecarIdle EXCEPT !.pc = "checkBuckets", !.name = a, !.access = obj]
    IN  CASE ~ManagedBySidecar(obj) \/ obj.driverName # ThisDriver -> SidecarIdle
          [] ManagedBySidecar(obj) /\ obj.driverName = ThisDriver /\ obj.deleting
                -> [w EXCEPT !.pc = "clearStatus"]
          [] OTHER ->
                IF SidecarRequirementsPresent(obj) # "all" THEN FailSidecar(w, "terminal")
                ELSE IF obj.finalizer THEN w ELSE [w EXCEPT !.pc = "addFinalizer"]

SidecarStart(a) ==
    /\ sw.pc = "idle"
    /\ a \in sidecarQueue
    /\ sidecarQueue' = sidecarQueue \ {a}
    /\ sw' = IF sidecarAccesses[a] = None THEN SidecarIdle
                                          ELSE startSidecar(a, sidecarAccesses[a])
    /\ freshAccess' = [freshAccess EXCEPT ![a] =
          AfterRead(@, "sidecarCache", IF sw'.pc = "idle" THEN None ELSE sidecarAccesses[a],
                    "sidecarWorker")]
    /\ UNCHANGED <<accesses, controllerEvents, sidecarEvents, storedClaims, storedSecrets,
                   accessCaches, otherCaches, controllerVars, accounts, envVars, faults>>

\* What every step of the Sidecar leaves alone.
unchangedBySidecar ==
    UNCHANGED <<storedClaims, accessCaches, otherCaches, controllerVars, envVars>>

SidecarAddFinalizer ==
    /\ sw.pc = "addFinalizer"
    /\ LET obj == [sw.access EXCEPT !.finalizer = TRUE]
       IN  \E o \in Outcome :
             /\ WriteAccess(o, sw.name, obj, FALSE, "sidecarWorker", FALSE)
             /\ sw' = IF o = "ok" THEN [sw EXCEPT !.pc = "checkBuckets", !.access = obj]
                                  ELSE FailSidecar(sw, "retry")
    /\ UNCHANGED <<storedSecrets, sidecarQueue, accounts>>
    /\ unchangedBySidecar

\* getAndValidateAllAccessedBuckets
SidecarCheckBuckets ==
    /\ sw.pc = "checkBuckets"
    /\ LET seen == Seen("buckets", sidecarBuckets, buckets)
           ready == \A c \in sw.access.accessedBuckets :
                      seen[c] # None /\ validateBucketIsReadyForAccess(seen[c])
       IN  sw' = IF ready THEN [sw EXCEPT !.pc = "reserve", !.todo = References(sw.access)]
                          ELSE FailSidecar(sw, "terminal")
    /\ UNCHANGED <<storedAccesses, storedSecrets, sidecarQueue, accounts, faults>>
    /\ unchangedBySidecar

\* The worker after one turn of a loop over its references with result e.
Loop(w, c, e, next) ==
    LET left == w.todo \ {c}
        all == Join(w.error, e)
    IN  CASE left # {} -> [w EXCEPT !.todo = left, !.at = None, !.error = all]
          [] left = {} /\ all # "none" -> FailSidecar(w, all)
          [] OTHER -> [next EXCEPT !.at = None]

\* A write to Secret s, from a copy that is current or not.
WriteSecret(o, s, new, current) ==
    /\ Ends(o, current)
    /\ secrets' = [secrets EXCEPT ![s] = IF Applied(o) THEN new ELSE @]
    /\ freshSecret' = [freshSecret EXCEPT ![s] =
          AfterWrite(o, IF current /\ secrets[s] # None THEN @ \cup {"worker"} ELSE @,
                     secrets[s], secrets'[s], FALSE, "worker")]

\* createNewOwnedAccessSecret (mutant: without the controller reference)
NewSecretWithoutOwner(u) == [owner |-> None, finalizer |-> TRUE, deleting |-> FALSE, data |-> None]
NewSecret(u) == [owner |-> u, finalizer |-> TRUE, deleting |-> FALSE, data |-> None]

\* A Secret that two references name, or that somebody else controls, is refused.
\* (Mutant: whoever controls it.)
refusedIfReservedOnly(w, s, seen) == s \in w.reserved
refused(w, s, seen) == s \in w.reserved \/ (seen # None /\ seen.owner # w.access.uid)

\* reserveAccessSecrets, for one reference: the Secret is created, or its
\* metadata is updated if this access controls it.
SidecarReserve ==
    /\ sw.pc = "reserve"
    /\ \E c \in sw.todo :
         LET s == SecretOf(sw.access, c)
             seen == Seen("secrets", secretCache, secrets)[s]
             after(e) == Loop(IF e = "none" THEN [sw EXCEPT !.reserved = @ \cup {s}] ELSE sw,
                              c, e, [sw EXCEPT !.pc = "grant", !.todo = {}, !.reserved = {}])
         IN  \/ /\ refused(sw, s, seen)
                /\ sw' = after("terminal")
                /\ UNCHANGED <<storedSecrets, faults>>
             \/ /\ ~refused(sw, s, seen) /\ seen = None
                /\ \E o \in Outcome :
                     /\ sw' = after(IF o = "ok" THEN "none" ELSE "retry")
                     /\ WriteSecret(o, s, NewSecret(sw.access.uid), secrets[s] = None)
             \/ /\ ~refused(sw, s, seen) /\ seen # None
                /\ \E o \in Outcome :
                     /\ sw' = after(IF o = "ok" THEN "none" ELSE "retry")
                     /\ WriteSecret(o, s, [seen EXCEPT !.finalizer = TRUE],
                                    IsCurrent("secrets", freshSecret[s]) /\ secrets[s] # None)
    /\ UNCHANGED <<storedAccesses, sidecarQueue, accounts>>
    /\ unchangedBySidecar

\* How an RPC ends: the error to return, and whether the backend acted.
RpcEnds(e, acted) ==
    \/ e = "none" /\ acted /\ UNCHANGED faults
    \/ /\ faults < MaxFaults
       /\ faults' = faults + 1
       /\ \E code \in Code : e = IF rpcErrorIsRetryable(code) THEN "retry" ELSE "terminal"

\* An answer that translateDriverGrantBucketAccessResponseToApi or
\* validateGrantedAccess refuses, and code OutOfRange, are terminal errors too.
SidecarGrant ==
    /\ sw.pc = "grant"
    /\ \E e \in {"none", "retry", "terminal"}, acted \in BOOLEAN :
         /\ RpcEnds(e, acted)
         /\ accounts' = IF acted
                        THEN [accounts EXCEPT ![sw.access.uid] =
                                {BucketID[c] : c \in GrantConfigs(sw.access)}]
                        ELSE accounts
         /\ sw' = IF e = "none"
                  THEN [sw EXCEPT !.pc = "fill", !.todo = GrantConfigs(sw.access)]
                  ELSE FailSidecar(sw, e)
    /\ UNCHANGED <<storedAccesses, storedSecrets, sidecarQueue>>
    /\ unchangedBySidecar

\* updateSecretsWithGrantedInfo, for one bucket ID.  (Mutant: errors are dropped.)
SidecarFillIgnoringErrors ==
    /\ sw.pc = "fill"
    /\ \E c \in sw.todo, o \in Outcome :
         LET s == SecretOf(sw.access, c)
         IN  /\ sw' = Loop(sw, c, "none", [sw EXCEPT !.pc = "setReady", !.todo = {}])
             /\ WriteSecret(o, s, [secrets[s] EXCEPT !.data = <<sw.access.uid, c>>],
                            "worker" \in freshSecret[s])
    /\ UNCHANGED <<storedAccesses, sidecarQueue, accounts>>
    /\ unchangedBySidecar

SidecarFill ==
    /\ sw.pc = "fill"
    /\ \E c \in sw.todo, o \in Outcome :
         LET s == SecretOf(sw.access, c)
         IN  /\ sw' = Loop(sw, c, IF o = "ok" THEN "none" ELSE "retry",
                           [sw EXCEPT !.pc = "setReady", !.todo = {}])
             /\ WriteSecret(o, s, [secrets[s] EXCEPT !.data = <<sw.access.uid, c>>],
                            "worker" \in freshSecret[s])
    /\ UNCHANGED <<storedAccesses, sidecarQueue, accounts>>
    /\ unchangedBySidecar

\* A Status().Update of the worker's copy `local`; a failed one leaves the
\* mutated copy to the error report.
WriteSidecarStatus(local, next) ==
    \E o \in Outcome :
      /\ WriteAccess(o, sw.name, SetAccessStatus(accesses[sw.name], local), FALSE,
                     "sidecarWorker", o = "ok" /\ next.pc = "idle")
      /\ sw' = IF o = "ok" THEN next ELSE FailSidecar([sw EXCEPT !.access = local], "retry")
      /\ freshSecret' = IF sw'.pc = "idle" THEN Forget(freshSecret, "worker") ELSE freshSecret

SidecarSetReady ==
    /\ sw.pc = "setReady"
    /\ WriteSidecarStatus([sw.access EXCEPT !.accountID = TRUE, !.readyToUse = "true",
                              !.error = "none"], SidecarIdle)
    /\ UNCHANGED <<secrets, sidecarQueue, accounts>>
    /\ unchangedBySidecar

SidecarReport ==
    /\ sw.pc = "report"
    /\ LET local == [sw.access EXCEPT !.readyToUse = NotNil(@), !.error = sw.error]
       IN  \E o \in Outcome :
             /\ WriteAccess(o, sw.name, SetAccessStatus(accesses[sw.name], local), TRUE,
                            "sidecarWorker", TRUE)
             /\ sidecarQueue' = Requeued(sidecarQueue, sw.name, o, sw.error)
    /\ sw' = SidecarIdle
    /\ freshSecret' = Forget(freshSecret, "worker")
    /\ UNCHANGED <<secrets, accounts>>
    /\ unchangedBySidecar

\* reconcileDelete: first the status is cleared.  (Mutant: all of it.)
SidecarClearWholeStatus ==
    /\ sw.pc = "clearStatus"
    /\ LET local == [sw.access EXCEPT !.readyToUse = "false", !.accountID = FALSE,
                                      !.error = "none"]
       IN  WriteSidecarStatus(local, [sw EXCEPT !.pc = "unprotect", !.access = local,
                                                !.todo = References(sw.access)])
    /\ UNCHANGED <<secrets, sidecarQueue, accounts>>
    /\ unchangedBySidecar

SidecarClearStatus ==
    /\ sw.pc = "clearStatus"
    /\ LET local == [sw.access EXCEPT !.readyToUse = "false", !.error = "none"]
       IN  WriteSidecarStatus(local, [sw EXCEPT !.pc = "unprotect", !.access = local,
                                                !.todo = References(sw.access)])
    /\ UNCHANGED <<secrets, sidecarQueue, accounts>>
    /\ unchangedBySidecar

\* Where the deletion goes when all Secrets are dealt with.  (Mutant: no revocation.)
afterSecretsNoRevoke(w) == [w EXCEPT !.pc = "finish", !.todo = {}]
afterSecrets(w) ==
    [w EXCEPT !.pc = IF w.access.accountID THEN "revoke" ELSE "finish", !.todo = {}]

\* deleteOwnedAccessSecrets, for one reference: an owned Secret loses its
\* finalizer first ...
SidecarUnprotect ==
    /\ sw.pc = "unprotect"
    /\ \E c \in sw.todo :
         LET s == SecretOf(sw.access, c)
             seen == Seen("secrets", secretCache, secrets)[s]
             owned == seen # None /\ seen.owner = sw.access.uid
         IN  \/ /\ ~owned
                /\ sw' = Loop(sw, c, "none", afterSecrets(sw))
                /\ UNCHANGED <<storedSecrets, faults>>
             \/ /\ owned
                /\ \E o \in Outcome :
                     /\ sw' = IF o = "ok" THEN [sw EXCEPT !.pc = "deleteSecret", !.at = c]
                              ELSE Loop(sw, c, "retry", sw)
                     /\ WriteSecret(o, s, Persisted([seen EXCEPT !.finalizer = FALSE]),
                                    IsCurrent("secrets", freshSecret[s]) /\ secrets[s] # None)
    /\ UNCHANGED <<storedAccesses, sidecarQueue, accounts>>
    /\ unchangedBySidecar

\* ... and then it is deleted, whatever it has become in between.
SidecarDeleteSecret ==
    /\ sw.pc = "deleteSecret"
    /\ LET s == SecretOf(sw.access, sw.at)
       IN  \E o \in Outcome :
             /\ sw' = Loop([sw EXCEPT !.pc = "unprotect"], sw.at,
                           IF o = "ok" THEN "none" ELSE "retry", afterSecrets(sw))
             /\ WriteSecret(o, s, Deleted(secrets[s]), secrets[s] # None)
    /\ UNCHANGED <<storedAccesses, sidecarQueue, accounts>>
    /\ unchangedBySidecar

\* driverRevokeAccess.  (Mutant: the cleanup goes on after a non-retryable error.)
SidecarRevokeOrGoOn ==
    /\ sw.pc = "revoke"
    /\ \E e \in {"none", "retry", "terminal"}, acted \in BOOLEAN :
         /\ RpcEnds(e, acted)
         /\ accounts' = IF acted THEN [accounts EXCEPT ![sw.access.uid] = {}] ELSE accounts
         /\ sw' = IF e = "retry" THEN FailSidecar(sw, e) ELSE [sw EXCEPT !.pc = "finish"]
    /\ UNCHANGED <<storedAccesses, storedSecrets, sidecarQueue>>
    /\ unchangedBySidecar

SidecarRevoke ==
    /\ sw.pc = "revoke"
    /\ \E e \in {"none", "retry", "terminal"}, acted \in BOOLEAN :
         /\ RpcEnds(e, acted)
         /\ accounts' = IF acted THEN [accounts EXCEPT ![sw.access.uid] = {}] ELSE accounts
         /\ sw' = IF e = "none" THEN [sw EXCEPT !.pc = "finish"] ELSE FailSidecar(sw, e)
    /\ UNCHANGED <<storedAccesses, storedSecrets, sidecarQueue>>
    /\ unchangedBySidecar

\* The annotation that hands the access back to the Controller.
SidecarFinish ==
    /\ sw.pc = "finish"
    /\ LET obj == [sw.access EXCEPT !.cleanupFinished = TRUE]
       IN  \E o \in Outcome :
             /\ WriteAccess(o, sw.name, obj, FALSE, "sidecarWorker", o = "ok")
             /\ sw' = IF o = "ok" THEN SidecarIdle ELSE FailSidecar(sw, "retry")
    /\ freshSecret' = IF sw'.pc = "idle" THEN Forget(freshSecret, "worker") ELSE freshSecret
    /\ UNCHANGED <<secrets, sidecarQueue, accounts>>
    /\ unchangedBySidecar
-----------------------------------------------------------------------------
(***************************************************************************)
(* Informers and restarts.                                                 *)
(***************************************************************************)
unchangedBySync ==
    UNCHANGED <<accesses, storedSecrets, cw, sw, accounts, envVars, faults>>

\* The Controller's BucketAccess cache catches up, and hands on the event.
ControllerAccessSync(a) ==
    /\ "controllerCache" \notin freshAccess[a]
    /\ accessCache' = [accessCache EXCEPT ![a] = accesses[a]]
    /\ freshAccess' = [freshAccess EXCEPT ![a] = @ \cup {"controllerCache"}]
    /\ controllerEvents' = controllerEvents \ {a}
    /\ controllerQueue' = controllerQueue \cup (controllerEvents \cap {a})
    /\ UNCHANGED <<sidecarAccesses, sidecarEvents, sidecarQueue, storedClaims, otherCaches>>
    /\ unchangedBySync

SidecarAccessSync(a) ==
    /\ "sidecarCache" \notin freshAccess[a]
    /\ sidecarAccesses' = [sidecarAccesses EXCEPT ![a] = accesses[a]]
    /\ freshAccess' = [freshAccess EXCEPT ![a] = @ \cup {"sidecarCache"}]
    /\ sidecarEvents' = sidecarEvents \ {a}
    /\ sidecarQueue' = sidecarQueue \cup (sidecarEvents \cap {a})
    /\ UNCHANGED <<accessCache, controllerEvents, controllerQueue, storedClaims, otherCaches>>
    /\ unchangedBySync

\* The other caches catch up; nothing is enqueued.  A kind that does not lag is
\* read from the store, and its cache is not used.
ClaimSync(c) ==
    /\ "claims" \in Lagging
    /\ "cache" \notin freshClaim[c]
    /\ claimCache' = [claimCache EXCEPT ![c] = claims[c]]
    /\ freshClaim' = [freshClaim EXCEPT ![c] = @ \cup {"cache"}]
    /\ UNCHANGED <<storedAccesses, claims, storedSecrets, accessCaches, bucketCache,
                   sidecarBuckets, secretCache, controllerVars, sidecarVars, accounts,
                   envVars, faults>>

BucketSync(c) ==
    /\ "buckets" \in Lagging
    /\ \/ /\ bucketCache[c] # buckets[c]
          /\ bucketCache' = [bucketCache EXCEPT ![c] = buckets[c]]
          /\ UNCHANGED sidecarBuckets
       \/ /\ sidecarBuckets[c] # buckets[c]
          /\ sidecarBuckets' = [sidecarBuckets EXCEPT ![c] = buckets[c]]
          /\ UNCHANGED bucketCache
    /\ UNCHANGED <<storedAccesses, storedClaims, storedSecrets, accessCaches, claimCache,
                   secretCache, controllerVars, sidecarVars, accounts, envVars, faults>>

SecretSync(s) ==
    /\ "secrets" \in Lagging
    /\ "cache" \notin freshSecret[s]
    /\ secretCache' = [secretCache EXCEPT ![s] = secrets[s]]
    /\ freshSecret' = [freshSecret EXCEPT ![s] = @ \cup {"cache"}]
    /\ UNCHANGED <<storedAccesses, storedClaims, secrets, accessCaches, claimCache,
                   bucketCache, sidecarBuckets, controllerVars, sidecarVars, accounts,
                   envVars, faults>>

\* A process restarts: it lists everything, so every access it would take a
\* Create event of is queued.
ControllerRestart ==
    /\ restarts < MaxRestarts
    /\ restarts' = restarts + 1
    /\ accessCache' = accesses
    /\ freshAccess' = Relisted(freshAccess, "controllerCache", "controllerWorker")
    /\ controllerEvents' = {}
    /\ controllerQueue' = {a \in AccessName : accesses[a] # None /\ ~ManagedBySidecar(accesses[a])}
    /\ cw' = ControllerIdle
    /\ claimCache' = claims
    /\ freshClaim' = Relisted(freshClaim, "cache", "worker")
    /\ bucketCache' = buckets
    /\ UNCHANGED <<accesses, sidecarEvents, claims, storedSecrets, sidecarAccesses,
                   sidecarBuckets, secretCache, sidecarVars, accounts, buckets, classExists,
                   issued, claimed, edits, faults>>

SidecarRestart ==
    /\ restarts < MaxRestarts
    /\ restarts' = restarts + 1
    /\ sidecarAccesses' = accesses
    /\ freshAccess' = Relisted(freshAccess, "sidecarCache", "sidecarWorker")
    /\ sidecarEvents' = {}
    /\ sidecarQueue' = {a \in AccessName : accesses[a] # None /\ accesses[a].driverName = ThisDriver}
    /\ sw' = SidecarIdle
    /\ secretCache' = secrets
    /\ freshSecret' = Relisted(freshSecret, "cache", "worker")
    /\ sidecarBuckets' = buckets
    /\ UNCHANGED <<accesses, controllerEvents, storedClaims, secrets, accessCache,
                   claimCache, bucketCache, controllerVars, accounts, buckets, classExists,
                   issued, claimed, edits, faults>>
-----------------------------------------------------------------------------
(***************************************************************************)
(* Users, admins, and BucketClaims and Buckets as BucketAccess sees them.  *)
(***************************************************************************)
\* What a change of a BucketAccess by hand leaves alone.
unchangedByUser ==
    UNCHANGED <<storedClaims, storedSecrets, accessCaches, otherCaches, controllerVars,
                sidecarVars, accounts, buckets, classExists, claimed, restarts, faults>>

Touch(fresh, k) == [fresh EXCEPT ![k] = {}]

UserCreateAccess(a) ==
    /\ accesses[a] = None
    /\ issued < MaxUid
    /\ issued' = issued + 1
    /\ \E spec \in AccessSpec : StoreAccess(a, NewAccess(issued + 1, spec))
    /\ freshAccess' = Touch(freshAccess, a)
    /\ UNCHANGED edits
    /\ unchangedByUser

UserDeleteAccess(a) ==
    /\ accesses[a] # None
    /\ ~accesses[a].deleting
    /\ StoreAccess(a, Deleted(accesses[a]))
    /\ freshAccess' = Touch(freshAccess, a)
    /\ UNCHANGED <<issued, edits>>
    /\ unchangedByUser

\* Somebody removes the finalizer, or sets or removes the annotation
\* ControllerManagementOverride.
EditAccess(a) ==
    /\ accesses[a] # None
    /\ edits < MaxEdits
    /\ edits' = edits + 1
    /\ \/ /\ accesses[a].finalizer
          /\ StoreAccess(a, Persisted([accesses[a] EXCEPT !.finalizer = FALSE]))
       \/ StoreAccess(a, [accesses[a] EXCEPT !.override = ~@])
    /\ freshAccess' = Touch(freshAccess, a)
    /\ UNCHANGED issued
    /\ unchangedByUser

\* A user makes or deletes a Secret of one of the names; the garbage collector
\* deletes one whose owner is gone.
ChangeSecret(s) ==
    /\ \/ /\ edits < MaxEdits
          /\ edits' = edits + 1
          /\ \/ /\ secrets[s] = None
                /\ secrets' = [secrets EXCEPT ![s] =
                     [owner |-> NoUid, finalizer |-> FALSE, deleting |-> FALSE, data |-> None]]
             \/ /\ secrets[s] # None
                /\ ~secrets[s].deleting
                /\ secrets' = [secrets EXCEPT ![s] = Deleted(@)]
       \/ /\ secrets[s] # None
          /\ ~secrets[s].deleting
          /\ secrets[s].owner # NoUid
          /\ \A a \in AccessName : accesses[a] # None => accesses[a].uid # secrets[s].owner
          /\ secrets' = [secrets EXCEPT ![s] = Deleted(@)]
          /\ UNCHANGED edits
    /\ freshSecret' = Touch(freshSecret, s)
    /\ UNCHANGED <<storedAccesses, storedClaims, accessCaches, otherCaches, controllerVars,
                   sidecarVars, accounts, buckets, classExists, issued, claimed, restarts,
                   faults>>

AdminCreateClass ==
    /\ ~classExists
    /\ classExists' = TRUE
    /\ UNCHANGED <<storedAccesses, storedClaims, storedSecrets, accessCaches, otherCaches,
                   controllerVars, sidecarVars, accounts, buckets, issued, claimed, restarts,
                   edits, faults>>

unchangedByClaims ==
    UNCHANGED <<storedAccesses, storedSecrets, accessCaches, otherCaches, controllerVars,
                sidecarVars, accounts, classExists, issued, restarts, faults>>

\* A claim is created, bound to its Bucket, and becomes ready with it.
ClaimProceeds(c) ==
    /\ \/ /\ c \notin claimed
          /\ claimed' = claimed \cup {c}
          /\ claims' = [claims EXCEPT ![c] = NewClaim]
          /\ UNCHANGED buckets
       \/ /\ claims[c] # None
          /\ ~claims[c].deleting /\ ~claims[c].bound
          /\ claims' = [claims EXCEPT ![c].bound = TRUE]
          /\ buckets' = [buckets EXCEPT ![c] = [ReadyBucket EXCEPT !.bucketID = FALSE]]
          /\ UNCHANGED claimed
       \/ /\ claims[c] # None
          /\ ~claims[c].deleting /\ claims[c].bound /\ ~claims[c].ready
          /\ claims' = [claims EXCEPT ![c].ready = TRUE,
                                      ![c].protocols = ClaimProtocols[c]]
          /\ buckets' = [buckets EXCEPT ![c].bucketID = TRUE]
          /\ UNCHANGED claimed
    /\ freshClaim' = Touch(freshClaim, c)
    /\ UNCHANGED edits
    /\ unchangedByClaims

\* A user deletes the claim; the claim reconciler clears its status and marks
\* the Bucket, deleting it too if its policy says so; finally the claim is gone.
ClaimRetires(c) ==
    /\ claims[c] # None
    /\ \/ /\ ~claims[c].deleting
          /\ edits < MaxEdits
          /\ edits' = edits + 1
          /\ claims' = [claims EXCEPT ![c].deleting = TRUE]
          /\ UNCHANGED buckets
       \/ /\ claims[c].deleting
          /\ buckets[c] # None
          /\ ~buckets[c].claimDeleting
          /\ claims' = [claims EXCEPT ![c].ready = FALSE]
          /\ \E delete \in BOOLEAN :
               buckets' = [buckets EXCEPT ![c].claimDeleting = TRUE, ![c].deleting = delete]
          /\ UNCHANGED edits
       \/ /\ claims[c].deleting
          /\ buckets[c] # None => buckets[c].claimDeleting
          /\ claims' = [claims EXCEPT ![c] = None]
          /\ buckets' = [buckets EXCEPT ![c] =
                IF @ = None THEN None ELSE IF @.deleting THEN None ELSE @]
          /\ UNCHANGED edits
    /\ freshClaim' = Touch(freshClaim, c)
    /\ UNCHANGED claimed
    /\ unchangedByClaims
-----------------------------------------------------------------------------
ControllerStep ==
    \/ ControllerAddFinalizer
    \/ ControllerReadClaims
    \/ ControllerMark
    \/ ControllerReadBuckets
    \/ ControllerHandoff
    \/ ControllerReport
    \/ ControllerReadForDelete
    \/ ControllerUnmark
    \/ ControllerRemoveFinalizer

SidecarStep ==
    \/ SidecarAddFinalizer
    \/ SidecarCheckBuckets
    \/ SidecarReserve
    \/ SidecarGrant
    \/ SidecarFill
    \/ SidecarSetReady
    \/ SidecarReport
    \/ SidecarClearStatus
    \/ SidecarUnprotect
    \/ SidecarDeleteSecret
    \/ SidecarRevoke
    \/ SidecarFinish

Informers ==
    \/ \E a \in AccessName : ControllerAccessSync(a) \/ SidecarAccessSync(a)
    \/ \E c \in ClaimName : ClaimSync(c) \/ BucketSync(c)
    \/ \E s \in SecretName : SecretSync(s)

Environment ==
    \/ \E a \in AccessName : UserCreateAccess(a) \/ UserDeleteAccess(a) \/ EditAccess(a)
    \/ \E s \in SecretName : ChangeSecret(s)
    \/ \E c \in ClaimName : ClaimProceeds(c) \/ ClaimRetires(c)
    \/ AdminCreateClass
    \/ ControllerRestart
    \/ SidecarRestart

Next ==
    \/ \E a \in AccessName : ControllerStart(a) \/ SidecarStart(a)
    \/ ControllerStep
    \/ SidecarStep
    \/ Informers
    \/ Environment

Spec == Init /\ [][Next]_vars

(***************************************************************************)
(* Fairness.  Workers go on, every queued key gets its turn (the work      *)
(* queue is first in, first out) and informers deliver.  Users, admins and *)
(* the provisioning of claims owe nothing.                                 *)
(***************************************************************************)
Fairness ==
    /\ WF_vars(ControllerStep) /\ WF_vars(SidecarStep)
    /\ \A a \in AccessName :
         /\ SF_vars(ControllerStart(a)) /\ SF_vars(SidecarStart(a))
         /\ WF_vars(ControllerAccessSync(a)) /\ WF_vars(SidecarAccessSync(a))
    /\ \A c \in ClaimName : WF_vars(ClaimSync(c)) /\ WF_vars(BucketSync(c))
    /\ \A s \in SecretName : WF_vars(SecretSync(s))

FairSpec == Spec /\ Fairness
-----------------------------------------------------------------------------
(***************************************************************************)
(* Properties.                                                             *)
(***************************************************************************)
\* Somebody still has something to do with access a.
InHand(a) ==
    a \in controllerEvents \cup sidecarEvents \cup controllerQueue \cup sidecarQueue
            \cup {cw.name, sw.name}

\* No BucketAccess is forgotten: until it is ready (and protected), has a terminal
\* error, is deleted or is taken over by hand, one of the two reconcilers has it in
\* work, queued, or is about to hear of it -- across the handoff, and although each
\* process drops the events it takes for the other's.
NoForgottenAccess ==
    \A a \in AccessName :
        /\ accesses[a] # None
        /\ ~accesses[a].deleting
        /\ ~accesses[a].override
        /\ accesses[a].error \notin TerminalError
        /\ ~(accesses[a].readyToUse = "true" /\ accesses[a].finalizer)
        => InHand(a)

\* What the Controller hands over and the account the Sidecar records are final:
\* "the full initialization SHOULD NOT be repeated to avoid changing status fields
\* that directly affect the Sidecar's RPC call parameters".
StatusIsFinal ==
    [][\A a \in AccessName :
         LET old == accesses[a]  new == accesses'[a]
         IN  old # None /\ new # None =>
               (old.uid = new.uid /\ old.driverName # None =>
                  /\ new.driverName = old.driverName
                  /\ new.accessedBuckets = old.accessedBuckets
                  /\ new.authenticationType = old.authenticationType
                  /\ old.accountID => new.accountID)]_vars

\* A BucketAccess that says it is ready has been granted every bucket it asks for,
\* and each of its Secrets is its own and holds the credentials for the right claim.
ReadyIsUsable ==
    \A a \in AccessName :
        accesses[a] # None =>
          (accesses[a].readyToUse = "true" =>
             \A c \in References(accesses[a]) :
               LET s == SecretOf(accesses[a], c)
               IN  /\ BucketID[c] \in accounts[accesses[a].uid]
                   /\ secrets[s] # None
                   /\ secrets[s].owner = accesses[a].uid
                   /\ secrets[s].data = <<accesses[a].uid, c>>)

\* When the Sidecar hands a deleting access back, a recorded account has been
\* revoked and none of the access's Secrets is left.
CleanupIsComplete ==
    \A a \in AccessName :
        accesses[a] # None =>
          (accesses[a].cleanupFinished =>
             /\ accesses[a].accountID => accounts[accesses[a].uid] = {}
             /\ \A s \in SecretName :
                  secrets[s] # None => secrets[s].owner # accesses[a].uid)

\* The mark on a claim stays as long as an access that was initialised with the
\* claim is in use: unmarking for one access does not unprotect another's claim.
AccessedClaimsAreMarked ==
    \A a \in AccessName :
        accesses[a] # None =>
          (accesses[a].driverName # None /\ ~accesses[a].deleting =>
             \A c \in accesses[a].accessedBuckets :
               claims[c] # None => claims[c].marked)

\* The Sidecar changes an existing Secret only for the BucketAccess that controls it,
\* also when two accesses name one Secret or a user makes it first
\* (updateExistingAccessSecretMetadata, updateSecretsWithGrantedInfo, and the Update in
\* deleteOwnedAccessSecrets).  The Delete call of the latter is not among these calls:
\* nothing ties it to the Secret that was read; see ForeignSecretsAreKept.
ForeignSecretsAreNotModified ==
    [][\A s \in SecretName :
         /\ sw' # sw /\ sw.pc # "deleteSecret"
         /\ secrets[s] # None /\ secrets'[s] # secrets[s]
         => secrets[s].owner = sw.access.uid]_vars

\* A Secret that is not controlled by a BucketAccess is only changed by its users:
\* "Do not modify Secrets aren't controlled by this BucketAccess".
ForeignSecretsAreKept ==
    [][\A s \in SecretName :
         secrets[s] # None =>
           (secrets[s].owner = NoUid /\ secrets'[s] # secrets[s] => edits' # edits)]_vars

\* No account outlives its BucketAccess in the backend (unless finalizers or
\* annotations are changed by hand): COSI must not "risk leaving backend resources
\* orphaned without any clear indication to administrators".
NoOrphanedAccount ==
    edits = 0 =>
      \A u \in 1 .. issued :
        accounts[u] # {} =>
          \E a \in AccessName : accesses[a] # None /\ accesses[a].uid = u

\* A deleted BucketAccess goes away: "The Sidecar calls the Driver to perform
\* backend deletion actions and then hands off final deletion cleanup to the COSI
\* Controller".
AccessDeletionCompletes ==
    \A a \in AccessName :
        (accesses[a] # None /\ accesses[a].deleting)
          ~> (accesses[a] = None \/ accesses[a].error \in TerminalError)

\* Once the Sidecar's cleanup is finished the Controller finalizes the deletion.
HandBackCompletes ==
    \A a \in AccessName :
        (accesses[a] # None /\ accesses[a].deleting /\ accesses[a].cleanupFinished)
          ~> accesses[a] = None

\* A BucketAccess whose class exists and whose claims are ready is answered: it
\* becomes ready, shows a terminal error, or it or a claim of it is deleted first.
\* Lost answers, failed calls, conflicts and restarts only delay.
AccessSettles ==
    \A a \in AccessName :
        (/\ accesses[a] # None
         /\ ~accesses[a].deleting
         /\ classExists
         /\ \A c \in References(accesses[a]) : claims[c] # None /\ claims[c].ready)
          ~> \/ accesses[a] = None \/ accesses[a].deleting
             \/ accesses[a].readyToUse = "true" \/ accesses[a].error \in TerminalError
             \/ accesses[a].override
             \/ \E c \in References(accesses[a]) : claims[c] = None \/ claims[c].deleting
=============================================================================
