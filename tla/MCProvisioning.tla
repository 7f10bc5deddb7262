--------------------------- MODULE MCProvisioning ---------------------------
(***************************************************************************)
(* Instances of Provisioning for TLC.                                      *)
(***************************************************************************)
EXTENDS ProvisioningContract

\* What the BucketClasses of an instance say.
DeleteClasses == [k \in ClassName |-> [driver |-> ThisDriver, deletionPolicy |-> "Delete"]]
RetainClasses == [k \in ClassName |-> [driver |-> ThisDriver, deletionPolicy |-> "Retain"]]

\* One instance of two in one run: static provisioning, undisturbed, with a claim that
\* may be made again over a Bucket that is retained; or dynamic provisioning of one
\* claim, with at most one fault or edit by hand.
Remade == issued[MaxUid] # None
StaticCase ==
    /\ classes = {}
    /\ \A u \in Uid : issued[u] # None => isStaticProvisioning(issued[u])
    /\ \A s \in StaticName :
         Remade /\ buckets[s] # None => buckets[s].deletionPolicy = "Retain"
    /\ faults + edits = 0
DynamicCase ==
    /\ ~Remade
    /\ \A u \in Uid : issued[u] # None => ~isStaticProvisioning(issued[u])
    /\ \A s \in StaticName : created[s] = 0 /\ backend[s] = None
    /\ faults + edits <= 1
StaticOrDynamic == StaticCase \/ DynamicCase
=============================================================================
