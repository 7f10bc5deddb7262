# COSI reconcilers in TLA+

Container Object Storage Interface (COSI), API `v1alpha2`, is a set of Kubernetes
controllers that provision object storage buckets and credentials. This directory
holds TLA+ specifications of its reconcilers, the TLC runs that check them on small
instances, and TLAPS proofs of the most important safety properties.

## The system

Two kinds of processes share the Kubernetes API server:

| Process | Reconciler | Source | Works on |
|---|---|---|---|
| Controller (one) | `BucketClaimReconciler` | `controller/pkg/reconciler/bucketclaim.go` | BucketClaim; creates, binds, annotates and deletes Buckets |
| Controller | `BucketReconciler` | `controller/pkg/reconciler/bucket.go` | nothing (a stub) |
| Controller | `BucketAccessReconciler` | `controller/pkg/reconciler/bucketaccess.go` | BucketAccess before the handoff and after the hand-back; marks BucketClaims |
| Sidecar (one per driver) | `BucketReconciler` | `sidecar/pkg/reconciler/bucket.go` | Bucket; calls the driver |
| Sidecar | `BucketAccessReconciler` | `sidecar/pkg/reconciler/bucketaccess.go` | BucketAccess while it manages it; Secrets; calls the driver |

Shared code: event filters (`internal/predicate`, `driverNameMatchesPredicate`), the
rule for who manages a BucketAccess (`internal/bucketaccess`), error classification
(`internal/errors`, `rpcErrorIsRetryable`), and the translation between driver messages and
API objects (`internal/protocol`, `sidecar/internal/translator`). Before its reconcilers run, the
Sidecar connects to its driver and asks who it is (`sidecar/cmd`). Around it: users and admins, the driver
(gRPC) with its backend, the API server, and controller-runtime's caches and queues.

*State*: API objects; per process an informer cache per kind, a work queue and the
reconcile in progress; backend buckets and accounts.

*What makes it hard*:

- Every read comes from a cache that may be arbitrarily old, every write is refused
  unless it is based on the current version, and a reconcile is a sequence of reads,
  writes and RPCs between which everybody else moves.
- Most events are filtered out. Buckets and Secrets that a reconcile depends on are
  not watched. What is not requeued is forgotten.
- A write may fail, or take effect with the answer lost. The write that records an
  error can fail too.
- A process may restart between any two steps.
- A BucketAccess is handed from Controller to Sidecar and back; both processes watch
  it and each must decide alone whether it is in charge.
- Names are used again: a claim may be deleted and re-created while its Bucket stays.
- People remove finalizers, delete Buckets, change policies and touch Secrets.
- A driver may stop, answer twice with different content, leave fields out or answer
  for other buckets than asked; what it says ends up in several Secrets, one write each.

What each component owes (the properties below): a claim and its Bucket are bound to
each other and never to anybody else; status tells the truth about the backend;
nothing is left unfinished without being queued or in a terminal error; nothing is
provisioned or forgotten without a trace; deletion completes and cleans up.

## Modules

| Module | Models |
|---|---|
| `Common` | status values, finalizer and version rules, outcomes of calls, RPC codes |
| `BucketResources` | BucketClaim, Bucket, BucketClass and the pure functions of the two provisioning reconcilers; their event filters |
| `Provisioning` | BucketClaim reconciler + Sidecar Bucket reconciler + caches, users, admins, backend |
| `AccessResources` | BucketAccess, its view of claims, Buckets and Secrets; the manager rule, filters and checks |
| `Access` | the two BucketAccess reconcilers + caches, users, garbage collector, backend accounts |
| `Protocols` | the messages of S3, Azure and GCS, and the translators of `internal/protocol`: RpcToApi, ApiToRpc, Validate |
| `Translation` | the Sidecar's checks and merges of driver answers (`translator.go`), and the request lists made from an access (`bucketaccess.go`) |
| `SidecarDriver` | the Sidecar's `main()`, its gRPC connection, a driver that stops, starts and answers; one BucketAccess and one Bucket with the answers' real content |
| `BindingContract` | abstract: what provisioning promises, without caches, queues, workers or faults |
| `ProvisioningContract` | the refinement mapping from `Provisioning` to `BindingContract` |
| `MCProvisioning`, `MCAccess`, `MCSidecarDriver` | constants for TLC |
| `ProvisioningInvariant` | the inductive invariant of `Provisioning` |
| `ProvisioningProofs` | every step preserves it: lemmas on types and stability, the claim worker, writes of Buckets, the Sidecar, everybody else; the theorems |
| `ContractProofs` | every step of `Provisioning` is a step of `BindingContract` or changes nothing that it shows |
| `AccessInvariant` | the inductive invariant of `Access` |
| `AccessLineage` | a second one on top of it: copies of accesses, marks, Secrets, accounts |
| `AccessMoves` | what the steps of `Access` do to accesses, their copies, Secrets and accounts, told by their effects |
| `AccessFacts` | lemmas on the operators of `Access` that the proofs share |
| `AccessProofs` | every step preserves `AccessInvariant`; what follows from it alone |
| `AccessLineageProofs`, `AccessSecretProofs` | every step preserves `AccessLineage`: copies and marks; Secrets and accounts |
| `AccessGuarantees` | both invariants together, and what users may rely on |
| `SidecarDriverProofs` | lemmas on the translators, the inductive invariants of `SidecarDriver`, and its theorems |

Three specifications cut the system at different places. `Provisioning` and `Access`
have all of the concurrency, and take from a driver's answer only whether it is valid.
`SidecarDriver` has the answers themselves, all three protocols and the start-up, and takes
the rest as given: the access has been handed over with reserved Secrets, and
deleting Secrets is one step.

### How code becomes actions

One action is one call (cached read, API write or RPC) together with the pure code up
to the next call; `cw.pc` and `sw.pc` name the call a reconcile makes next. Guards are
the code's conditions, and early returns are `FailClaim`, `FailBucket`,
`FailController` and `FailSidecar`, which lead to the `…Report` action: Reconcile's tail that records
the error and requeues or not. Loops over claims or Secrets are one action per
element, in any order, with errors joined as the code joins them. `PROJECT.json` maps
every definition to its lines.

| Code | Provisioning |
|---|---|
| `Reconcile` (claim) | `ClaimStart`, `ClaimReport` |
| `reconcile` | `ClaimAddFinalizer`, `ClaimGetBucket`, `ClaimCreateBucket`, `ClaimBindBucket`, `ClaimBind`, `ClaimSetReady` |
| `reconcileDelete` | `ClaimClearStatus`, `ClaimGetBucketToDelete`, `ClaimAnnotate`, `ClaimDeleteBucket`, `ClaimRemoveFinalizer` |
| Sidecar `Reconcile` (Bucket) | `BucketStart`, `BucketReport` |
| Sidecar `reconcile` | `BucketRemoveFinalizer`, `BucketAddFinalizer`, `BucketCreateRpc`, `BucketGetRpc`, `BucketSetStatus` |

| Code | Access |
|---|---|
| Controller `Reconcile` | `ControllerStart`, `ControllerReport` |
| Controller `reconcile` | `ControllerAddFinalizer`, `ControllerReadClaims`, `ControllerMark`, `ControllerReadBuckets`, `ControllerHandoff` |
| Controller `reconcileDelete` | `ControllerReadForDelete`, `ControllerUnmark`, `ControllerRemoveFinalizer` |
| Sidecar `Reconcile` | `SidecarStart`, `SidecarReport` |
| Sidecar `reconcile` | `SidecarAddFinalizer`, `SidecarCheckBuckets`, `SidecarReserve`, `SidecarGrant`, `SidecarFill`, `SidecarSetReady` |
| Sidecar `reconcileDelete` | `SidecarClearStatus`, `SidecarUnprotect`, `SidecarDeleteSecret`, `SidecarRevoke`, `SidecarFinish` |

| Code | SidecarDriver |
|---|---|
| Sidecar `main`, `connectRpc`, `getDriverInfo` | `Start`, `Connect`, `Wait`, `Look`, `GetInfo`, `StartManager`, `Expire` |
| gRPC and the driver (external) | `Connection`, `DriverStops`, `DriverStarts`, `Crash`, `Restart` |
| BucketAccess `reconcile`, `reconcileDelete` | `AccessStart`, `Grant`, `Fill`, `SetReady`, `Report`, `ClearStatus`, `DeleteSecrets`, `Revoke`, `Finish` |
| Bucket `reconcile` | `BucketStart`, `BucketProvision`, `BucketSetStatus`, `BucketReport` |

### Abstractions

- **Versions.** A write outdates every other copy for good, so a set of holders of the
  current version (`freshClaim`, `freshBucket`, …) replaces `resourceVersion`. An
  Update is accepted exactly from a worker in the set. A write that changes nothing
  keeps the version; an error report always changes its timestamp.
- **Caches** lag by any amount, each object on its own, and catch up completely when
  they move. Every change still passes the event filter on its own
  (`claimEvents`, `bucketEvents`, …), so no event is lost or invented by the jump.
  Resyncs deliver an object equal to itself and are filtered out by the code.
- **Queues** are sets: the work queue removes duplicates. Back-off is not modelled; a
  queued key may be taken at any time.
- **One worker** per controller, the default. Caches of a process are separate per kind.
- **Data** in `Provisioning` and `Access`. Parameters, messages, timestamps and credentials are opaque. `bucketID` and
  `accountID` are reduced to being set or not, an error to none, retryable or terminal
  (one terminal error, "bucketGone", is kept apart because a property is about it).
- **Driver.** Create, get, grant and revoke are idempotent; any error code may come
  back before or after the driver acted. An answer that fails validation is a terminal error.
- **In `SidecarDriver`** a message is a record of texts, each set or not; an environment
  variable map is a function. A translator keeps every text and says which variable it
  goes to, so that swapped, lost and left-over values are visible. The API server merges an
  Update's `StringData` into the data that a Secret has. A reference list is a sequence: a claim may be
  referred to twice, and two claims may have the same bucket.
- **In `Access`** the claims and their Buckets evolve in `ClaimProceeds` and `ClaimRetires`
  as the provisioning reconcilers let a BucketAccess see it; a claim name is used once.
- **Unreachable in effect**, and so left out: clearing an error of a deleting object on
  success (`bucketclaim.go` 91–101, `bucket.go` 94–104), an unknown deletion policy. The "hard stop"
  in `bucketaccess.go` 181–188 is kept (`initialise`) although an access with accessed
  Buckets never gets there.  Duplicate references to one claim are in `SidecarDriver` only. CRD validation rules are not modelled.

Named bounds: `MaxUid` (objects ever created under a UID), `MaxFaults` (calls that fail
or lose their answer), `MaxRestarts`, `MaxEdits` (changes by hand). `CacheMayLag = FALSE`
restricts `Provisioning` to behaviours in which the Controller's Bucket cache has caught up
whenever the claim reconciler reads it; `Lagging` names the kinds whose caches may be old
in `Access` (BucketAccesses always may be). `Prepared` claims are provisioned before the first access.

## Runs

| Run | Instance | Checks |
|---|---|---|
| `ProvisioningSafety` | static: one Bucket made by an admin, a claim that may be made again over it when it is retained; or dynamic: one claim, Retain, at most one fault or edit; Bucket cache caught up when read | `BoundBucketIsMine`, `ReadyClaimSound`, `OrphanIsMarked`, `NoForgottenClaim`, `NoForgottenBucket`, `NoRebind`, `ProvisionedUnderProtection` |
| `ProvisioningLiveness` | one dynamic claim, backend buckets with and without protocols, 1 restart, all caches lagging, fair | `TypeOK`, `ReadyClaimSound`, `ContractKept` (refinement), `DeletionCompletes`, `ClaimSettles` |
| `AccessStale` | one access, claim and Secret, 1 fault, 1 restart, everything lagging | `TypeOK`, `NoForgottenAccess`, `ReadyIsUsable`, `StatusIsFinal` |
| `AccessShared` | one claim and Secret name; a second access to them, or an access made again, or one fault, or two edits | `AccessedClaimsAreMarked`, `ReadyIsUsable`, `NoForgottenAccess`, `CleanupIsComplete`, `ForeignSecretsAreNotModified` |
| `AccessLiveness` | one access to two claims with a Secret each, 1 fault, 1 restart, fair | `AccessedClaimsAreMarked`, `ReadyIsUsable`, `CleanupIsComplete`, `HandBackCompletes`, `AccessSettles` |
| `SidecarDriver` | S3 with two buckets, two claims on one bucket, one claim named twice; Azure and GCS with one; good, incomplete, surplus and changing answers; 1 fault, 1 restart, 1 stop of the driver, fair start-up | `TypeOK`, `SecretsAreWhole`, `SettledAccessIsConsistent`, `RevokeUndoesGrant`, `BucketInfoTellsProtocols`, `StartUpEnds` |

Six runs are expected to find a violation; each is a disagreement between the code and
a comment in the repository:

| Run | Property | What happens |
|---|---|---|
| `ProvisioningOrphan` | `OrphanIsMarked` | The claim is deleted while the Bucket cache does not show the Bucket created for it. `reconcileDelete` takes this for "no Bucket", and the Bucket is left behind without the annotation. |
| `ProvisioningRecreation` | `NoRecreation` | The cached claim predates its binding and the Bucket was deleted by an admin: the Bucket is created again. |
| `ProvisioningDegraded` | `DegradedOnlyIfGone` | The claim is bound, but the Bucket cache does not show the Bucket created for it. The reconciler takes it for deleted and reports the claim degraded, a terminal error, "bound to a Bucket that no longer exists" (`bucketclaim.go` 168–171). The Bucket is there. |
| `AccessForeign` | `ForeignSecretsAreKept` | While the access is deleted, its Secret is deleted and made anew by hand between the Sidecar's Update, which takes the finalizer off, and its Delete. The Delete names no UID and removes the new Secret, in spite of "Do not modify Secrets aren't controlled by this BucketAccess" and "not deleting access Secret not belonging to BucketAccess" (`bucketaccess.go` 789, 837). |
| `AccessDeletion` | `AccessDeletionCompletes` | Setting the deletion timestamp passes neither process's event filter, so the deletion of a provisioned access stalls until a restart. |
| `AccessOrphan` | `NoOrphanedAccount` | Deleted after the grant, before the status write: the account ID was never recorded, so nothing is revoked. |

Why the bounds are enough: each hazard needs one disturbance (a lost answer, a restart,
an edit) against the normal course of one object, or two objects that compete for one
name; all interleavings of these are covered. Two UIDs under one name give re-creation. Two
claims or two accesses bring nothing more where objects are independent (the
reconcilers touch only the claim's own Bucket), and the theorems hold for any number.
Two constraints keep a run to one disturbance at a time: `StaticOrDynamic` in
`ProvisioningSafety` (a behaviour is static and undisturbed, or dynamic with one fault
or edit) and `OneDisturbance` in `AccessShared` (another access, a fault, or edits). What they
cut away, and static provisioning with a lagging Bucket cache, is covered by the
theorems: of the properties checked under a constraint, only `OrphanIsMarked` and
`ForeignSecretsAreNotModified` have none, and that of `ReadyIsUsable` leaves edits to the run.
In `SidecarDriver` two buckets are needed for
Secrets that could mix, two rounds of answers for values left over from the first, and a
text names its field, bucket and round, so that nothing is right by accident. Access and
Bucket never meet there, and an instance has one or the other.
Deadlock checking is off: the system may rightly come to rest.

Each static Bucket name is used once: `AdminCreateBucket` creates it if it never
existed (`created[s] = 0`). An admin who deletes a static Bucket under a bound claim and makes another of the
same name is outside the model, the runs, and the theorems `ReadyIsSound`,
`BucketsAreNotRebound` and `ContractIsKept`: what they say of a bound claim's Bucket is said of the
first Bucket of its name.

Known to fail in wider instances, and worth a decision by the maintainers (no run is
kept): `AccessedClaimsAreMarked` when claim caches lag (a copy that still shows a removed
mark stops `markAllBucketClaimsAsAccessed` from setting it again); `ReadyIsUsable` when two
claims of an access have the same bucket ID (`SharedBucket` in `MCAccess`: the Secret of all
but one reference stays empty; `SettledAccessIsConsistent` says exactly which);
`CleanupIsComplete` when the Secret cache lags (a Secret not yet seen is left, protected by
its finalizer). A statically provisioned
claim may become ready without a protocol that its spec lists: the Controller only asks for at least
one (`bucketclaim.go` 226), so `ReadyClaimSound` promises more for dynamic claims alone.

Met while modelling, and no property: **`COSI_PROTOCOL` is set by no code.** The API
marks it "Required" in the Secret of every access (`client/apis/objectstorage/v1alpha2/protocols.go` 61–63), and the Go client's
guide has applications choose their code by it (`docs/src/developing/clients/go.md` 12, 75–77). But
`updateSecretsWithGrantedInfo` (`bucketaccess.go` 584–622) writes only the variables of the protocol's translators, and these do not
have it, so the Secret of a ready access always lacks it. A settled access is therefore called
*consistent* here (`SettledAccessIsConsistent`), not usable: it has what its protocol requires (`RequiredOfProtocol`), from
one answer of the driver, and lacks the one variable that names the protocol.
`COSI_CERTIFICATE_AUTHORITY` (`protocols.go` 66, optional) is never set either. `validateAndParseProtocols` says that its map is
"used to deduplicate the input list" (`driver.go` 104), but a duplicate is an error.

### Fairness

`Fairness` in both specifications: a worker in the middle of a reconcile takes its next
step (WF; calls return), a queued key is eventually taken (SF; the work queue is first in,
first out, and the worker is idle again and again), informers deliver (WF). Nothing is assumed of
users, admins, provisioning of other objects, faults or restarts. `ClaimSettles` starts
from a claim whose class exists, and accepts a terminal error on the Bucket;
`AccessSettles` starts from an access whose class exists and whose claims are ready.
In `SidecarDriver`: `main()` goes on (WF) and its 120 s timer fires (WF). Nothing is
assumed of gRPC or of the driver: `StartUpEnds` holds also when the connection was ready only
between `WaitForStateChange` and `GetState`, because the timer ends the wait.

### The contract

`BindingContract` has four variables and nine small actions: a claim is requested, bound,
ready, withdrawn, gone; a Bucket is offered, taken, removed; a backend bucket appears.
`ProvisioningContract` maps API objects to it (`Holding`, `owner`, `used`), and `ContractKept`
is its specification. So whatever caches, faults and restarts do, users never see a
claim unbound, bound elsewhere or no longer ready before it is deleted, a Bucket change hands,
or protocols that the backend does not serve. This is more than the API server enforces ("boundBucketName
cannot be removed once set", `bucketclaim_types.go` 71), and the step at risk is the error report, which
writes back a whole status.

## Proofs

### Provisioning

For any constants that satisfy `ResourceAssumption` (sets of names,
distinct from `None`, well-typed classes) and `ProvisioningAssumption` (bounds are natural numbers):

| Theorem | States |
|---|---|
| `Invariance` | `Spec => []IInv` |
| `TypeCorrect` | `Spec => []TypeOK` |
| `BindingIsMutual` | `Spec => []BoundBucketIsMine` |
| `ReadyIsSound` | `Spec => []ReadyClaimSound` |
| `NoClaimIsForgotten` | `Spec => []NoForgottenClaim` |
| `NoBucketIsForgotten` | `Spec => []NoForgottenBucket` |
| `BucketsAreNotRebound` | `Spec => NoRebind` |
| `ProvisioningIsProtected` | `Spec => ProvisionedUnderProtection` |

The properties are not inductive: what a worker writes comes from copies made earlier.
`IInv` adds

- `Copies`, `ClaimWorkerOK`, `BucketWorkerOK`: every copy, however old, is right about what
  never changes again. A bound copy of a claim names the Bucket that is bound back; a copy of a provisioned
  Bucket lists what the backend serves; a dynamic Bucket comes from the claim in its name.
- `ClaimAt`, `BucketAt`: what the program counter says has been checked.
- `CacheCoherence`, `ClaimCoherence`, `BoundCoherence`, `BucketCoherence`: a copy at the current
  version equals the stored object, so an accepted write changes what its author looked at.
- `ClaimsAttended`, `BucketsAttended`: an object at rest is finished, and what a cache
  has not seen is an undelivered event.

`Monotone` collects what no step undoes (UIDs, references, backend buckets); copies
survive every step that respects it (`ClaimCopyStable`, `BucketCopyStable`). Each action
then needs only the conjuncts it touches. `InvariantParts` and `TypeParts` open the two big
conjunctions once; leaves cite them instead of the definitions.

### The contract is kept

`ContractIsKept` (`Spec => ContractKept`) is the refinement for every value of the constants, under
`ContractAssumption` as well (`None` is not a UID or a record). Each action of `Provisioning` gets a lemma that
names the abstract step it takes, or shows that the mapped state stays. `IInv` gives what
most of them need: an accepted write is based on the stored object, a bound copy names
the Bucket bound back. One thing is missing: `ClaimReport` writes the worker's copy, which the
reconcile may have changed in the meantime. `ReportAhead` says that this copy is never behind the claim it
would replace (same claim; bound, ready or with protocols if that is); it is proved on top
of `IInv` as `ErrorReportIsAhead`.

### Access

For any constants that satisfy `AccessAssumption` (sets of names distinct from `None`, well-typed
specs, `None` is no object), any number of accesses, claims, Secrets, faults, restarts and edits:

| Theorem | States |
|---|---|
| `AccessTypes` | `Spec => []TypeOK` |
| `HandoverIsFinal` | `Spec => StatusIsFinal` |
| `NothingForgotten` | `Spec => []NoForgottenAccess` |
| `MarksProtect` | `"claims" \notin Lagging`: `Spec => []AccessedClaimsAreMarked` |
| `CleanupLeavesNothing` | `"secrets" \notin Lagging`: `Spec => []CleanupIsComplete` |
| `ReadyMeansUsable` | `DistinctBuckets`: `Spec => [](edits = 0 => ReadyIsUsable)` |

The hypotheses of the last three on caches and buckets are needed: without them TLC finds the
violations listed under "Known to fail in wider instances". That there are no edits is a limit of the proof,
which does not follow Secrets changed by hand; `AccessShared` finds no violation with two edits.
They leave the rest free: `MarksProtect` lets all caches but that of claims lag, `CleanupLeavesNothing`
all but that of Secrets and any edits, `ReadyMeansUsable` all caches.

`IInv` of `AccessInvariant` carries the first three. A current copy is the stored access, except the
one that an error report is about to write (`ControllerCoherent`, `SidecarCoherent`); what a worker has checked of its
copy stays checked (`ControllerHolds`, `SidecarHolds`); and the process in charge of an unfinished access
has it in hand and sees, or will see, a copy that makes it act (`ControllerAttends`, `SidecarAttends`).
The last is the heart of the handover: the two processes decide from different copies, and the
filters drop most events.

`LInv` of `AccessLineage` is inductive relative to `IInv`, and carries the guarantees:

- `Lineage`, `KnownOK`: a UID has one name and one spec; copies of an access follow each other in time
  (worker, cache, store); a copy at the current version differs from the stored one only in
  the status. So a worker with an old copy acts on an access that is gone, deleting, or its own.
- `MarksOK`: a claim of an access in use is marked, or is being marked by the worker that is about
  to hand over; what the worker is about to unmark, no access in use refers to.
- `OwnersOK`, `GrantsOK`: Secrets belong to accesses that name them; nothing is granted to a
  deleting access, and after the hand-back the Sidecar knows that it is deleting. So nothing appears again behind the cleanup.
- `CleanupOK`: what is left to clean up is on the worker's list, as long as no error has been met.
- `UsableOK`: what the worker has reserved, granted and filled so far, stage by stage. It speaks of Secrets
  only while the worker's copy is current: those of an access that is gone are collected under its hands.

`Moves` (in `AccessMoves`) says what any step may do to stored accesses, caches and workers; each
conjunct of `LInv` is carried over it once, and the steps show only what they do beyond it.

### SidecarDriver

For any texts, requests, answers and bounds that satisfy `MessageAssumption` and `DriverAssumption`
(messages are well-typed, lists are lists, the references of one access name different
Secrets, as `reserveAccessSecrets` requires):

| Theorem | States |
|---|---|
| `SecretsStayWhole` | `Spec => []SecretsAreWhole` |
| `SettledAccessStaysConsistent` | `Spec => []SettledAccessIsConsistent` |
| `RevokeAlwaysUndoesGrant` | `Spec => []RevokeUndoesGrant` |
| `BucketInfoAlwaysTellsProtocols` | `Spec => []BucketInfoTellsProtocols` |
| `SidecarTypes` | `Spec => []TypeOK` |

The lemmas on translators come first: RpcToApi sets every variable of its protocol, also
to nothing (`InfoIsMap`, `CredentialIsMap`); ApiToRpc undoes it (`InfoRoundTrip`, `CredentialRoundTrip`); what
Validate lets through has the required variables (`CredentialHasRequired`); variables of different protocols
are different. Hence merging the data of an accepted answer into a Secret replaces all
that an earlier answer left there (`MergeReplaces`), which is why retries never mix answers.

`AccessInv` is inductive: each Secret is empty or holds the data of one accepted answer
for the one bucket whose last reference names it (`SecretsOK`); between grant and final status the
answer is accepted, and unless an update failed, the Secrets done so far hold it (`JobOK`);
what was ever granted is on the list of the revoke, and after the hand-back nothing is
written any more (`GrantOK`); a settled access has the Secrets of one answer and the grant of its request (`SettledOK`).
`BucketInv` does the same for the Bucket's status and the answer that its reconcile holds.

### Only model-checked

`OrphanIsMarked`: it holds only while the Bucket cache has caught up (`ProvisioningOrphan` has the other
case), and needs an order on the copies of claims and Buckets like `Lineage` that
`ProvisioningInvariant` does not have. `ForeignSecretsAreNotModified`: a Secret that the access does not own
is never written by the Sidecar, short of the Delete of `AccessForeign`. All liveness
(fairness and ENABLED are beyond the prover).

## Not modelled

- Flags, logging, probes, metrics and the Controller's `main()`: no state that a reconciler sees.
- CRD validation rules: enforced by the API server, outside this code.
- Parameters of classes: passed through unread.
- Generated code, fakes and tests.
- The Controller's Bucket reconciler: a stub without effect.
- A composition of provisioning and access around claim deletion: the mark that an access
  sets on a claim is not yet read by the claim reconciler (`bucketaccess.go` 273–276 says it
  should be), so today the two meet only in what `ClaimProceeds` and `ClaimRetires` show.
