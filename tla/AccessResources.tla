--------------------------- MODULE AccessResources ---------------------------
(***************************************************************************)
(* The BucketAccess API object, what a BucketAccess needs to know of       *)
(* BucketClaims, Buckets, classes and Secrets, and the pure functions of   *)
(* the two BucketAccess reconcilers: who manages an access, which events   *)
(* count, and the checks before access is initialised and granted.         *)
(*                                                                         *)
(* The references of an access are a function from claim names: the CRD    *)
(* makes the list a map keyed by claim name, and nothing depends on its    *)
(* order.  The Bucket of claim c is named by c, its ID is BucketID[c].     *)
(***************************************************************************)
EXTENDS Common, Integers

CONSTANTS
    AccessName,      \* namespaced names of BucketAccesses
    ClaimName,       \* names of BucketClaims in the same namespace
    SecretName,      \* names of Secrets in the same namespace
    Protocol,        \* object protocols
    AccessSpec,      \* the specs that users submit
    BucketID,        \* [ClaimName -> ID]: backend bucket of the claim's Bucket
    ClaimProtocols,  \* [ClaimName -> SUBSET Protocol]: what that bucket serves
    Class,           \* the BucketAccessClass they all name
    ThisDriver,      \* the driver whose Sidecar is modelled
    MaxUid           \* bound: BucketAccesses ever created

AccessMode == {"ReadWrite", "ReadOnly", "WriteOnly"}
AuthType == {"Key", "ServiceAccount"}
Uid == 1 .. MaxUid
NoUid == 0

Ref == [accessMode : AccessMode, secret : SecretName]

ClassObject ==
    [driverName : {ThisDriver}, authenticationType : AuthType,
     multiBucketAccess : BOOLEAN, disallowedModes : SUBSET AccessMode]

\* accountID is reduced to whether it is set: the account's name is the access's
\* UID.  accessedBuckets is the set of claims it lists.
AccessObject ==
    [uid : Uid, spec : AccessSpec, finalizer : BOOLEAN, deleting : BOOLEAN,
     cleanupFinished : BOOLEAN, override : BOOLEAN,
     readyToUse : ReadyToUse, accountID : BOOLEAN,
     accessedBuckets : SUBSET ClaimName, driverName : {ThisDriver, None},
     authenticationType : AuthType \cup {None}, error : Error]

ClaimObject ==
    [bound : BOOLEAN, ready : BOOLEAN, protocols : SUBSET Protocol,
     deleting : BOOLEAN, marked : BOOLEAN]

BucketObject == [bucketID : BOOLEAN, claimDeleting : BOOLEAN, deleting : BOOLEAN]

\* owner is the UID of the controlling BucketAccess; data is what the Secret was
\* filled with: an account and the claim whose Bucket it opens.
SecretObject ==
    [owner : Uid \cup {NoUid}, finalizer : BOOLEAN, deleting : BOOLEAN,
     data : (Uid \X ClaimName) \cup {None}]

ASSUME AccessAssumption ==
    /\ MaxUid \in Nat
    /\ \A spec \in AccessSpec :
         /\ DOMAIN spec.refs \subseteq ClaimName
         /\ DOMAIN spec.refs # {}
         /\ \A c \in DOMAIN spec.refs : spec.refs[c] \in Ref
         /\ spec.protocol \in Protocol
         /\ spec.serviceAccount \in BOOLEAN
    /\ ClaimProtocols \in [ClaimName -> SUBSET Protocol]
    /\ Class \in ClassObject
    /\ None # ThisDriver /\ None \notin AuthType /\ None \notin AccessName
    /\ None \notin AccessObject \cup SecretObject
-----------------------------------------------------------------------------
NewAccess(u, spec) ==
    [uid |-> u, spec |-> spec, finalizer |-> FALSE, deleting |-> FALSE,
     cleanupFinished |-> FALSE, override |-> FALSE, readyToUse |-> "nil",
     accountID |-> FALSE, accessedBuckets |-> {}, driverName |-> None,
     authenticationType |-> None, error |-> "none"]

\* A claim as it is created, and as the claim reconciler leaves it with its Bucket
\* when both are provisioned.
NewClaim == [bound |-> FALSE, ready |-> FALSE, protocols |-> {}, deleting |-> FALSE,
             marked |-> FALSE]
ReadyClaim(c) ==
    [NewClaim EXCEPT !.bound = TRUE, !.ready = TRUE, !.protocols = ClaimProtocols[c]]
ReadyBucket == [bucketID |-> TRUE, claimDeleting |-> FALSE, deleting |-> FALSE]

References(access) == DOMAIN access.spec.refs
SecretOf(access, c) == access.spec.refs[c].secret

\* Who manages the access: the Sidecar from the handoff on, until its cleanup is
\* finished.
ManagedBySidecar(access) ==
    /\ ~access.override
    /\ access.driverName # None
    /\ access.deleting => ~access.cleanupFinished

\* "all", "none" or "some" (an error) of the fields the Sidecar needs are set.
SidecarRequirementsPresent(access) ==
    LET set == {f \in {"accessedBuckets", "driverName", "authenticationType"} :
                  CASE f = "accessedBuckets" -> access.accessedBuckets # {}
                    [] f = "driverName" -> access.driverName # None
                    [] f = "authenticationType" -> access.authenticationType # None}
    IN  CASE set = {} -> "none"
          [] set = {"accessedBuckets", "driverName", "authenticationType"} -> "all"
          [] OTHER -> "some"
-----------------------------------------------------------------------------
\* Event filters, applied to the object before and after one event.  (Mutants: only
\* the hand-back counts; a removed finalizer does not count.)
handBackOccurred(old, new) == ManagedBySidecar(old) /\ ~ManagedBySidecar(new)
handoffOccurred(old, new) == ManagedBySidecar(old) # ManagedBySidecar(new)

finalizerRemovalIgnored(old, new) == FALSE
ProtectionFinalizerRemoved(old, new) ==
    ~new.deleting /\ old.finalizer /\ ~new.finalizer

\* AnyCreate and AnyDelete, or an Update that passes one of the two filters.
AccessEvent(old, new) ==
    IF old = None \/ new = None THEN old # new
    ELSE handoffOccurred(old, new) \/ ProtectionFinalizerRemoved(old, new)

Latest(old, new) == IF new = None THEN old ELSE new

\* BucketAccessManagedByController and, in the Sidecar, driverNameMatchesPredicate.
\* (Mutant: the Controller looks at the old object.)
controllerEnqueuesByOld(old, new) ==
    AccessEvent(old, new) /\ ~ManagedBySidecar(Latest(new, old))
ControllerEnqueues(old, new) ==
    AccessEvent(old, new) /\ ~ManagedBySidecar(Latest(old, new))
SidecarEnqueues(old, new) ==
    AccessEvent(old, new) /\ Latest(old, new).driverName = ThisDriver
-----------------------------------------------------------------------------
ValidateAccessAgainstClass(access) ==
    /\ Class.authenticationType = "ServiceAccount" => access.spec.serviceAccount
    /\ \A c, d \in References(access) : c = d \/ Class.multiBucketAccess
    /\ \A c \in References(access) :
         access.spec.refs[c].accessMode \notin Class.disallowedModes

\* claims[c] is the copy of claim c, bkts[c] that of its Bucket, or None.
getBucketsForClaims(claims, bkts, refs) ==
    \A c \in refs : claims[c] # None => (claims[c].bound => bkts[c] # None)

cannotAccessBucketClaims(claims, access) ==
    \E c \in References(access) :
        /\ claims[c] # None
        /\ \/ claims[c].deleting
           \/ claims[c].protocols # {} /\ access.spec.protocol \notin claims[c].protocols

waitingOnBucketClaims(claims, bkts, refs) ==
    \E c \in refs :
        \/ claims[c] = None
        \/ claims[c] # None /\ ~claims[c].bound
        \/ bkts[c] # None /\ ~bkts[c].bucketID
        \/ claims[c] # None /\ ~claims[c].ready

\* Other accesses, as listed, that refer to claim c.  (Mutant: none counts.)
noOtherReferences(c, listed, ignored) == FALSE
hasBucketAccessReferences(c, listed, ignored) ==
    \E a \in AccessName \ {ignored} :
        listed[a] # None /\ c \in References(listed[a])

\* validateBucketIsReadyForAccess of a Bucket that was found
validateBucketIsReadyForAccess(bucket) ==
    bucket.bucketID /\ ~bucket.claimDeleting /\ ~bucket.deleting

\* generateInternalAccessedBucketConfigs: one entry per bucket ID.  Of several
\* claims with one ID the last in the list stays; CHOOSE stands for the order.
GrantConfigs(access) ==
    {c \in References(access) :
        c = CHOOSE d \in References(access) : BucketID[d] = BucketID[c]}
=============================================================================
