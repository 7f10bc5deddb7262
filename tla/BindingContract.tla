--------------------------- MODULE BindingContract ---------------------------
(***************************************************************************)
(* What provisioning promises, without caches, queues, workers or faults.  *)
(* A claim is pending, becomes bound, becomes ready, and stays so until    *)
(* somebody deletes it.  A Bucket is free or has one owner for as long as  *)
(* it exists.  A claim is bound only to a Bucket of its own, and is ready  *)
(* only with the protocols that the backend bucket serves.                 *)
(*                                                                         *)
(* ProvisioningContract shows how Provisioning implements this.            *)
(***************************************************************************)
CONSTANTS ClaimName, BucketName, Uid, NoUid, Protocol, None

VARIABLES
    holding,   \* by claim name: the claim's UID, stage, Bucket and protocols
    owner,     \* by Bucket name: the owner's UID, NoUid, or None for no Bucket
    backend,   \* by Bucket name: the protocols the backend bucket serves, or None
    used       \* the UIDs that were ever given to a claim

vars == <<holding, owner, backend, used>>

Held(u, stage, b, protos) == [uid |-> u, stage |-> stage, bucket |-> b, protocols |-> protos]
Pending(u) == Held(u, "pending", None, {})
Ending(u) == Held(u, "ending", None, {})

Init ==
    /\ holding = [c \in ClaimName |-> None]
    /\ owner = [b \in BucketName |-> None]
    /\ backend = [b \in BucketName |-> None]
    /\ used = {}
-----------------------------------------------------------------------------
SetClaim(c, h) == holding' = [holding EXCEPT ![c] = h] /\ UNCHANGED <<owner, backend>>

Request(c) ==
    /\ holding[c] = None
    /\ \E u \in Uid \ used : SetClaim(c, Pending(u)) /\ used' = used \cup {u}

\* The Bucket may have been deleted since it was looked at, but never has another
\* owner.
Bind(c) ==
    /\ holding[c] # None /\ holding[c].stage = "pending"
    /\ \E b \in BucketName :
         /\ owner[b] \in {None, holding[c].uid}
         /\ SetClaim(c, Held(holding[c].uid, "bound", b, {}))
    /\ UNCHANGED used

BecomeReady(c) ==
    /\ holding[c] # None /\ holding[c].stage = "bound"
    /\ backend[holding[c].bucket] \notin {None, {}}
    /\ SetClaim(c, Held(holding[c].uid, "ready", holding[c].bucket,
                        backend[holding[c].bucket]))
    /\ UNCHANGED used

\* A claim that is being deleted promises nothing any more.
Withdraw(c) ==
    /\ holding[c] # None /\ holding[c].stage # "ending"
    /\ SetClaim(c, Ending(holding[c].uid))
    /\ UNCHANGED used

\* A claim without protection goes at once, others are withdrawn first.
Leave(c) ==
    /\ holding[c] # None
    /\ SetClaim(c, None)
    /\ UNCHANGED used
-----------------------------------------------------------------------------
SetOwner(b, u) == owner' = [owner EXCEPT ![b] = u] /\ UNCHANGED <<holding, backend, used>>

\* u may become the owner of b: no other claim is bound to it.
MayOwn(b, u) ==
    \A c \in ClaimName :
        holding[c] # None /\ holding[c].bucket = b => holding[c].uid = u

Offer(b) ==
    /\ owner[b] = None
    /\ \E u \in used \cup {NoUid} : MayOwn(b, u) /\ SetOwner(b, u)
Take(b) ==
    /\ owner[b] = NoUid
    /\ \E u \in used : MayOwn(b, u) /\ SetOwner(b, u)
Remove(b) == owner[b] # None /\ SetOwner(b, None)

\* A backend bucket serves the same protocols for ever.
Appear(b) ==
    /\ backend[b] = None
    /\ \E protos \in SUBSET Protocol : backend' = [backend EXCEPT ![b] = protos]
    /\ UNCHANGED <<holding, owner, used>>
-----------------------------------------------------------------------------
Next ==
    \/ \E c \in ClaimName : Request(c) \/ Bind(c) \/ BecomeReady(c) \/ Withdraw(c) \/ Leave(c)
    \/ \E b \in BucketName : Offer(b) \/ Take(b) \/ Remove(b) \/ Appear(b)

Spec == Init /\ [][Next]_vars
=============================================================================
