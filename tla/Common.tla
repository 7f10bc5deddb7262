------------------------------- MODULE Common -------------------------------
(***************************************************************************)
(* What bucket provisioning and bucket access share: status fields, the    *)
(* API server's and the informers' rules as the reconcilers use them, and  *)
(* the Sidecar's reading of RPC error codes.                               *)
(*                                                                         *)
(* resourceVersion.  Every write to an object makes every other copy of it *)
(* outdated for good, so instead of a version counter a set `fresh` holds  *)
(* who has a copy of the object at the current version: an informer cache, *)
(* or the worker that reconciles.  The API server accepts an Update        *)
(* exactly from a worker in that set; any other gets Conflict or NotFound. *)
(***************************************************************************)
CONSTANT None         \* the absent object, and the empty string of an API field

\* readyToUse is a *bool; "terminal" errors are the NonRetryable ones, and
\* "bucketGone" is the terminal error "bound to Bucket ... that no longer exists".
ReadyToUse == {"nil", "false", "true"}
TerminalError == {"terminal", "bucketGone"}
Error == {"none", "retry"} \cup TerminalError

NotNil(ready) == IF ready = "nil" THEN "false" ELSE ready
-----------------------------------------------------------------------------
\* An object that is deleting goes away with its last finalizer.
Persisted(obj) == IF obj.deleting /\ ~obj.finalizer THEN None ELSE obj

\* Delete without preconditions: an object with a finalizer stays, deleting.
Deleted(obj) == Persisted([obj EXCEPT !.deleting = TRUE])

\* How a call ends: accepted, rejected for an outdated or missing object,
\* failed before it took effect, or applied with the answer lost.
Outcome == {"ok", "rejected", "failed", "timedOut"}

\* Who holds the current version after a write of the given holder.  A write
\* that changes nothing leaves the version alone; an error status carries a
\* timestamp and so always changes something (touch).
AfterWrite(o, fresh, old, new, touch, holder) ==
    IF o \notin {"ok", "timedOut"} \/ (new = old /\ ~touch) THEN fresh
    ELSE IF o = "ok" /\ new # None THEN {holder} ELSE {}

\* A worker that is done with its reconcile forgets its copies.
Forget(fresh, worker) == [k \in DOMAIN fresh |-> fresh[k] \ {worker}]

\* A worker that reads object obj from a cache holds the cache's version of it.
AfterRead(fresh, cache, obj, worker) ==
    IF cache \in fresh /\ obj # None THEN fresh \cup {worker} ELSE fresh \ {worker}

\* A restarted process lists everything and holds no copy in its worker.
Relisted(fresh, cache, worker) ==
    [k \in DOMAIN fresh |-> (fresh[k] \cup {cache}) \ {worker}]
-----------------------------------------------------------------------------
\* The codes of a failing RPC that the code tells apart.
Code == {"InvalidArgument", "PermissionDenied", "AlreadyExists", "Aborted",
         "Unimplemented", "Unauthenticated", "NotFound", "OutOfRange", "other"}
rpcErrorIsRetryable(code) ==
    code \notin {"InvalidArgument", "AlreadyExists", "Unimplemented"}
=============================================================================
