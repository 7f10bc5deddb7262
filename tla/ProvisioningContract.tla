------------------------ MODULE ProvisioningContract -------------------------
(***************************************************************************)
(* How Provisioning implements BindingContract: what an API object means   *)
(* to a user.                                                              *)
(***************************************************************************)
EXTENDS Provisioning

\* The stage of a claim, from its metadata and its status.
Stage == {"pending", "bound", "ready", "ending"}
StageOf(claim) ==
    IF claim.deleting THEN "ending"
    ELSE IF claim.readyToUse = "true" THEN "ready"
    ELSE IF claim.boundBucketName # None THEN "bound" ELSE "pending"

Holding(claim) ==
    [uid |-> claim.uid, stage |-> StageOf(claim),
     bucket |-> IF claim.deleting THEN None ELSE claim.boundBucketName,
     protocols |-> IF StageOf(claim) = "ready" THEN claim.statusProtocols ELSE {}]

ASSUME ContractAssumption ==
    /\ None \notin [uid : Uid, stage : Stage, bucket : BucketName \cup {None},
                    protocols : SUBSET Protocol]
    /\ None \notin Uid \cup {NoUid}

\* What the contract's variables are here.
holding == [c \in ClaimName |-> IF claims[c] = None THEN None ELSE Holding(claims[c])]
owner == [b \in BucketName |-> IF buckets[b] = None THEN None ELSE buckets[b].refUid]
used == {u \in Uid : issued[u] # None}

\* The refinement mapping; the backend is the same in both.
Contract == INSTANCE BindingContract
    WITH holding <- holding, owner <- owner, backend <- backend, used <- used

\* Whatever the two reconcilers, their caches, faults, restarts and edits do, users
\* see the contract kept: a claim is bound to a Bucket of its own, becomes ready with
\* the backend's protocols, and stays bound and ready until it is deleted, also when
\* a later reconcile of it fails (BucketClaimReconciler.Reconcile records the error).
ContractKept == Contract!Spec
=============================================================================
