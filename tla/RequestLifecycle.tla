-------------------------- MODULE RequestLifecycle --------------------------
(***************************************************************************)
(* What the approval workflow promises about a parked request, whatever     *)
(* storage, votes, time limits and cleanups are behind it: it is open until *)
(* it is decided, a secret is generated for it at most once and only while  *)
(* it is open, its credential is ready until it is handed out, at most      *)
(* once, and a denied, delivered or discarded request never comes back.     *)
(*                                                                         *)
(* One step may move several requests: a sweep or a listing cleans up as it *)
(* goes.  ApprovalWorkflow implements this specification, and so does       *)
(* ApprovalHandlers while its handlers do not overlap.                      *)
(***************************************************************************)
EXTENDS Naturals, Sequences

CONSTANT Requests

VARIABLES
  stage,    \* where each request is in its life
  secrets,  \* the set of secrets generated for it
  handed    \* the sequence of times its credential was handed out

lifecycle == <<stage, secrets, handed>>

Init ==
  /\ stage = [id \in Requests |-> "unborn"]
  /\ secrets = [id \in Requests |-> {}]
  /\ handed = [id \in Requests |-> <<>>]

-----------------------------------------------------------------------------
(* What a step may do to one request                                       *)

Moves(id, from, to) == stage[id] \in from /\ stage'[id] = to

Same(f, id) == f'[id] = f[id]

Rest(id) == Same(stage, id) /\ Same(secrets, id) /\ Same(handed, id)

Park(id) ==
  Moves(id, {"unborn"}, "open") /\ Same(secrets, id) /\ Same(handed, id)

\* A secret is generated for an open request that has none yet; its credential
\* may become ready in the same step.
Execute(id) ==
  /\ Moves(id, {"open"}, "open") \/ Moves(id, {"open"}, "ready")
  /\ secrets[id] = {} /\ secrets'[id] # {}
  /\ \A s, t \in secrets'[id] : s = t
  /\ Same(handed, id)

\* The credential, be it a secret or the data of an error response, is stored.
Offer(id) ==
  Moves(id, {"open"}, "ready") /\ Same(secrets, id) /\ Same(handed, id)

Deny(id) ==
  Moves(id, {"open"}, "denied") /\ Same(secrets, id) /\ Same(handed, id)

Deliver(id) ==
  /\ Moves(id, {"ready"}, "delivered")
  /\ handed[id] = <<>> /\ Len(handed'[id]) = 1
  /\ Same(secrets, id)

\* Expiry, the sweep of a deleted rule, an execution without a result, or a
\* handler that died halfway.
Discard(id) ==
  /\ Moves(id, {"open", "ready", "denied"}, "gone")
  /\ Same(secrets, id) /\ Same(handed, id)

Next ==
  \A id \in Requests :
    \/ Rest(id) \/ Park(id) \/ Execute(id) \/ Offer(id)
    \/ Deny(id) \/ Deliver(id) \/ Discard(id)

Spec == Init /\ [][Next]_lifecycle

=============================================================================
