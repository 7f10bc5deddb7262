--------------------------- MODULE BucketResources ---------------------------
(***************************************************************************)
(* The BucketClaim and Bucket API objects of COSI v1alpha2 and the pure    *)
(* functions the Controller and the Sidecar apply to them: the name of a   *)
(* claim's Bucket, the binding check, the event filters and the protocol   *)
(* checks.  No state lives here; Provisioning holds the state.             *)
(*                                                                         *)
(* Data is kept only as far as a decision depends on it.  Namespace and    *)
(* name are one value (ClaimName); an error message is one of a few kinds; *)
(* parameters and bucket info, which no reconciler inspects, are left out. *)
(***************************************************************************)
EXTENDS Common, Integers

CONSTANTS
    ClaimName,        \* namespaced names of BucketClaims
    StaticName,       \* names of admin-created (statically provisioned) Buckets
    ClassName,        \* names of BucketClasses
    ClassSpec,        \* [ClassName -> ClassObject]: what each BucketClass says
    Driver,           \* driver names a Bucket may carry
    ThisDriver,       \* the driver whose Sidecar is modelled
    Protocol,         \* object protocols of the API ('S3', 'Azure', 'GCS')
    DriverProtocols,  \* protocols the driver advertised at Sidecar start-up
    Requested,        \* the protocol lists that claims and static Buckets ask for
    Served,           \* the protocol sets a backend bucket may serve
    MaxUid            \* bound: BucketClaims ever created, hence UIDs issued

Policy == {"Retain", "Delete"}
ClassObject == [driver : Driver, deletionPolicy : Policy]

Uid == 1 .. MaxUid
NoUid == 0

\* "bc-" + claim UID, the name of a dynamically provisioned Bucket.
DynamicName(u) == <<"bc", u>>
BucketName == StaticName \cup {DynamicName(u) : u \in Uid}

ClaimObject ==
    [uid : Uid, bucketClassName : ClassName \cup {None},
     existingBucketName : StaticName \cup {None}, protocols : SUBSET Protocol,
     finalizer : BOOLEAN, deleting : BOOLEAN,
     readyToUse : ReadyToUse, boundBucketName : BucketName \cup {None},
     statusProtocols : SUBSET Protocol, error : Error]

\* bucketID is reduced to whether it is set: a Bucket's backend bucket is
\* identified by the Bucket's name (one backend bucket per Bucket here).
BucketObject ==
    [driverName : Driver, deletionPolicy : Policy,
     existingBucketID : BOOLEAN, protocols : SUBSET Protocol,
     refName : ClaimName, refUid : Uid \cup {NoUid},
     finalizer : BOOLEAN, deleting : BOOLEAN, claimDeleting : BOOLEAN,
     readyToUse : ReadyToUse, bucketID : BOOLEAN,
     statusProtocols : SUBSET Protocol, error : Error]

\* What a user submits under a UID.
Submission ==
    [name : ClaimName, bucketClassName : ClassName \cup {None},
     existingBucketName : StaticName \cup {None}, protocols : SUBSET Protocol]

ASSUME ResourceAssumption ==
    /\ MaxUid \in Nat
    /\ ClassSpec \in [ClassName -> ClassObject]
    /\ ThisDriver \in Driver
    /\ DriverProtocols \subseteq Protocol
    /\ Requested \subseteq SUBSET Protocol
    /\ Served \subseteq SUBSET Protocol
    /\ None \notin ClaimObject \cup BucketObject \cup Submission
    /\ \A protos \in SUBSET Protocol : None # protos
    /\ None \notin BucketName \cup ClassName \cup ClaimName
    /\ \A u \in Uid : DynamicName(u) \notin StaticName
-----------------------------------------------------------------------------
\* What the user or the admin submits.  The CRD validation demands exactly one
\* of bucketClassName and existingBucketName.
Submissions(c) ==
    {sub \in Submission :
        /\ sub.name = c
        /\ sub.protocols \in Requested
        /\ (sub.bucketClassName = None) # (sub.existingBucketName = None)}

NewClaim(u, sub) ==
    [uid |-> u, bucketClassName |-> sub.bucketClassName,
     existingBucketName |-> sub.existingBucketName, protocols |-> sub.protocols,
     finalizer |-> FALSE, deleting |-> FALSE, readyToUse |-> "nil",
     boundBucketName |-> None, statusProtocols |-> {}, error |-> "none"]

NewStaticBucket(driver, policy, protos, name, u) ==
    [driverName |-> driver, deletionPolicy |-> policy,
     existingBucketID |-> TRUE, protocols |-> protos, refName |-> name, refUid |-> u,
     finalizer |-> FALSE, deleting |-> FALSE, claimDeleting |-> FALSE,
     readyToUse |-> "nil", bucketID |-> FALSE, statusProtocols |-> {},
     error |-> "none"]

\* The Bucket the Controller creates for a dynamic claim: bound from the start,
\* and purposely without the protection finalizer.  (Mutant: the reference to the
\* claim lacks the name.)
generateBucketWithoutRefName(claim, name, class) ==
    [driverName |-> class.driver, deletionPolicy |-> class.deletionPolicy,
     existingBucketID |-> FALSE, protocols |-> claim.protocols,
     refName |-> None, refUid |-> claim.uid,
     finalizer |-> FALSE, deleting |-> FALSE, claimDeleting |-> FALSE,
     readyToUse |-> "nil", bucketID |-> FALSE, statusProtocols |-> {},
     error |-> "none"]
generateIntermediateBucket(claim, name, class) ==
    [driverName |-> class.driver, deletionPolicy |-> class.deletionPolicy,
     existingBucketID |-> FALSE, protocols |-> claim.protocols,
     refName |-> name, refUid |-> claim.uid,
     finalizer |-> FALSE, deleting |-> FALSE, claimDeleting |-> FALSE,
     readyToUse |-> "nil", bucketID |-> FALSE, statusProtocols |-> {},
     error |-> "none"]
-----------------------------------------------------------------------------
isStaticProvisioning(claim) == claim.existingBucketName # None

determineBucketName(claim) ==
    IF isStaticProvisioning(claim) THEN claim.existingBucketName
                                   ELSE DynamicName(claim.uid)

\* determineBucketName's error: boundBucketName is not the determined name.
boundNameDegraded(claim) ==
    /\ claim.boundBucketName # None
    /\ claim.boundBucketName # determineBucketName(claim)

\* "error" stands for the non-nil error of bucketIsBoundToClaim.  (Mutants: the
\* UIDs are not compared; a foreign UID counts as no UID.)
boundWithAnyUid(bucket, claim, name) ==
    IF bucket.refName # name THEN "error"
    ELSE IF bucket.refUid = NoUid THEN "unbound" ELSE "bound"
unboundUnlessMine(bucket, claim, name) ==
    IF bucket.refName # name THEN "error"
    ELSE IF bucket.refUid = claim.uid THEN "bound" ELSE "unbound"
bucketIsBoundToClaim(bucket, claim, name) ==
    IF \/ bucket.refName # name
       \/ bucket.refUid # NoUid /\ bucket.refUid # claim.uid
    THEN "error"
    ELSE IF bucket.refUid = NoUid THEN "unbound" ELSE "bound"

\* validateDriverSupportsProtocols and validateBucketSupportsProtocols.
validateDriverSupportsProtocols(bucket) == bucket.protocols \subseteq DriverProtocols
validateBucketSupportsProtocols(supported, bucket) == bucket.protocols \subseteq supported
-----------------------------------------------------------------------------
\* Event filters, applied to the object before and after one event.
\* A generation changes with the spec and when deletionTimestamp is set.  (Mutant:
\* only spec changes count.)
ClaimGenerationChanged(old, new) == old.deleting # new.deleting

bucketSpecChanged(old, new) ==
    old.deletionPolicy # new.deletionPolicy \/ old.refUid # new.refUid
BucketGenerationChanged(old, new) ==
    \/ old.deleting # new.deleting
    \/ old.deletionPolicy # new.deletionPolicy
    \/ old.refUid # new.refUid

ProtectionFinalizerRemoved(old, new) ==
    ~new.deleting /\ old.finalizer /\ ~new.finalizer

\* AnyCreate, AnyDelete, or an Update that passes one of the two filters above.
ClaimEventEnqueues(old, new) ==
    IF old = None \/ new = None THEN old # new
    ELSE ClaimGenerationChanged(old, new) \/ ProtectionFinalizerRemoved(old, new)

driverNameMatches(bucket) == bucket.driverName = ThisDriver

BucketEventEnqueues(old, new) ==
    IF old = None \/ new = None
    THEN old # new /\ driverNameMatches(IF new = None THEN old ELSE new)
    ELSE /\ driverNameMatches(new)
         /\ BucketGenerationChanged(old, new) \/ ProtectionFinalizerRemoved(old, new)
=============================================================================
