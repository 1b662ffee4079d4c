---------------------------- MODULE ApprovalData ----------------------------
(***************************************************************************)
(* Data of the approval workflow: what the handlers keep in the barrier     *)
(* view "approvals/" (rules under config/, parked requests under pending/,  *)
(* resolved requests under history/) and the decisions they take on it.     *)
(* No variables: ApprovalWorkflow runs the handlers one at a time and       *)
(* ApprovalHandlers interleaves their storage calls over these definitions. *)
(*                                                                         *)
(* A path or a target is the sequence of its "/"-separated segments.  Time  *)
(* is a natural number; 0 is Go's zero time.Time, so clocks start at 1.     *)
(* Rule IDs and request IDs are naturals: storage lists keys in order.      *)
(***************************************************************************)
EXTENDS Integers, Sequences

CONSTANTS
  Entities,       \* identity entity IDs
  NoEntity,       \* the empty entity ID of a token without an entity
  Callers,        \* the tokens in play: [entity, root]
  Paths,          \* request paths
  Targets,        \* values of target_mount_path
  RuleIDs,
  ReqIDs,         \* the UUIDs that request IDs are drawn from
  RuleWrites,     \* bodies of writes to approvals/config/:rule_id
  RequestTTL,     \* approvalRequestTTL
  CredentialTTL,  \* approvalCredentialTTL
  HistoryTTL      \* approvalHistoryTTL

EntityIDs == Entities \cup {NoEntity}

NoTarget == <<>>

ASSUME EntityAssumption == NoEntity \notin Entities

ASSUME CallerAssumption == Callers \subseteq [entity : EntityIDs, root : BOOLEAN]

ASSUME IDAssumption == RuleIDs \subseteq Nat /\ ReqIDs \subseteq Nat

ASSUME TargetAssumption == NoTarget \notin Targets

\* An optional field of a request body is a set with at most one element.
ASSUME WriteAssumption ==
  RuleWrites \subseteq [target    : SUBSET (Targets \cup {NoTarget}),
                        approvers : SUBSET (SUBSET Entities),
                        required  : SUBSET Int,
                        self      : SUBSET BOOLEAN]

ASSUME TTLAssumption ==
  RequestTTL \in Nat /\ CredentialTTL \in Nat /\ HistoryTTL \in Nat

-----------------------------------------------------------------------------
(* Records                                                                 *)

ApprovalRule ==
  [target : Targets, approvers : SUBSET Entities, required : Nat \ {0},
   self : BOOLEAN]

\* The absent storage entry of a rule.
NoRule ==
  [target |-> NoTarget, approvers |-> {}, required |-> 0, self |-> FALSE]

(***************************************************************************)
(* CredentialData: nil, an empty map, a map that holds only the "error" of  *)
(* a logical error response, or a secret, named by its serial number.       *)
(***************************************************************************)
CredentialData ==
  [kind : {"nil", "empty", "error", "secret"}, serial : Nat]

NilData == [kind |-> "nil", serial |-> 0]

PendingRequest ==
  [status     : {"absent", "pending", "approved", "denied"},
   rule       : Nat,
   path       : Paths \cup {NoTarget},
   requester  : EntityIDs,
   approvals  : Seq(EntityIDs),
   expires    : Nat,
   cred       : CredentialData,
   approvedAt : Nat]

\* The absent storage entry of a parked request.
NoRequest ==
  [status |-> "absent", rule |-> 0, path |-> NoTarget, requester |-> NoEntity,
   approvals |-> <<>>, expires |-> 0, cred |-> NilData, approvedAt |-> 0]

ApprovalHistoryEntry ==
  [status : {"absent", "retrieved", "denied", "expired"},
   resolvedBy : EntityIDs, expires : Nat]

NoHistory == [status |-> "absent", resolvedBy |-> NoEntity, expires |-> 0]

HistoryEntry(status, by, t) ==
  [status |-> status, resolvedBy |-> by, expires |-> t + HistoryTTL]

(***************************************************************************)
(* What storage holds after a put: StorageEntryJSON drops an empty          *)
(* credential_data map (omitempty), so it reads back as nil.                *)
(***************************************************************************)
StorageEntryJSON(p) ==
  IF p.cred.kind = "empty" THEN [p EXCEPT !.cred = NilData] ELSE p

-----------------------------------------------------------------------------
(* Rules and paths                                                         *)

\* "*" matches everything, "a/b/*" the path a/b and all below it, any other
\* target only itself.
approvalRuleMatchesPath(target, path) ==
  LET n == Len(target) IN
  \/ target = <<"*">>
  \/ /\ n > 1
     /\ target[n] = "*"
     /\ Len(path) >= n - 1
     /\ \A i \in 1..(n - 1) : path[i] = target[i]
  \/ target = path

\* Rules that match a path; the handlers take the first in list order.
MatchingRules(rules, path) ==
  {r \in RuleIDs : /\ rules[r] # NoRule
                   /\ approvalRuleMatchesPath(rules[r].target, path)}

IsMatchedRule(rules, path, r) ==
  /\ r \in MatchingRules(rules, path)
  /\ \A s \in MatchingRules(rules, path) : r <= s

ExemptPath(path) ==
  Len(path) > 1 /\ path[1] \in {"sys", "auth", "cubbyhole", "identity"}

\* checkNeedsApproval up to the rule lookup: only reads, updates and creates
\* of secret paths are intercepted, and never those of root tokens.
Interceptable(c, op, path) ==
  /\ ~ExemptPath(path)
  /\ op \in {"read", "update", "create"}
  /\ ~c.root

\* Mutant: a new rule does not get the default of one approval.
MergedRule_NoDefault(old, w) ==
  LET Field(opt, v) == IF opt = {} THEN v ELSE CHOOSE x \in opt : TRUE
  IN  [target    |-> Field(w.target, old.target),
       approvers |-> Field(w.approvers, old.approvers),
       required  |-> Field(w.required, old.required),
       self      |-> Field(w.self, old.self)]

\* The rule that handleApprovalRuleWrite would store: the fields of the body
\* over the stored rule, or over a new rule that requires one approval.
MergedRule(old, w) ==
  LET base == IF old = NoRule THEN [NoRule EXCEPT !.required = 1] ELSE old
      Field(opt, v) == IF opt = {} THEN v ELSE CHOOSE x \in opt : TRUE
  IN  [target    |-> Field(w.target, base.target),
       approvers |-> Field(w.approvers, base.approvers),
       required  |-> Field(w.required, base.required),
       self      |-> Field(w.self, base.self)]

\* A threshold in the body is at least 1; target and approvers end up set.
AcceptableWrite(rule, w) ==
  /\ \A n \in w.required : n >= 1
  /\ rule.target # NoTarget
  /\ rule.approvers # {}

-----------------------------------------------------------------------------
(* Callers                                                                 *)

approvalEntityIsAuthorized(e, approvers) == e # NoEntity /\ e \in approvers

\* A non-empty entity ID that equals the requester's proves ownership.
IsRequester(c, p) == c.entity # NoEntity /\ c.entity = p.requester

HasVoted(e, p) ==
  e # NoEntity /\ \E i \in 1..Len(p.approvals) : p.approvals[i] = e

\* Mutant: the same entity may vote again.
MayApprove_Again(c, p, rule) ==
  /\ c.root \/ approvalEntityIsAuthorized(c.entity, rule.approvers)
  /\ c.root \/ rule.self \/ ~IsRequester(c, p)

\* The three refusals of handleApprovalApprove: not an approver, own request,
\* second vote.
MayApprove(c, p, rule) ==
  /\ c.root \/ approvalEntityIsAuthorized(c.entity, rule.approvers)
  /\ c.root \/ rule.self \/ ~IsRequester(c, p)
  /\ ~HasVoted(c.entity, p)

MayDeny(c, p, rule) ==
  \/ c.root
  \/ IsRequester(c, p)
  \/ approvalEntityIsAuthorized(c.entity, rule.approvers)

\* Mutant: any token with an entity may fetch.
MayFetch_AnyEntity(c, p) ==
  IF p.requester = NoEntity THEN c.root ELSE c.entity # NoEntity

\* A request without a requester entity is fetched by root tokens only.
MayFetch(c, p) ==
  IF p.requester = NoEntity THEN c.root ELSE c.entity = p.requester

MayReadPending(c, p, rule) ==
  \/ c.root
  \/ IsRequester(c, p)
  \/ rule # NoRule /\ approvalEntityIsAuthorized(c.entity, rule.approvers)

-----------------------------------------------------------------------------
(* Votes, time limits                                                      *)

NewPending(r, path, c, t) ==
  [status |-> "pending", rule |-> r, path |-> path, requester |-> c.entity,
   approvals |-> <<>>, expires |-> t + RequestTTL, cred |-> NilData,
   approvedAt |-> 0]

WithVote(p, c) == [p EXCEPT !.approvals = Append(@, c.entity)]

\* Mutant: the vote just added is counted twice.
ThresholdMet_OneShort(p, rule) == Len(p.approvals) + 1 >= rule.required

ThresholdMet(p, rule) == Len(p.approvals) >= rule.required

\* Votes on a request of entity o under rule r: no entity is counted twice, and
\* o is not among the voters unless r is one of the rules that have allowed
\* self-approval or a root token of o exists.
FairVotes(vote, o, r, allowed) ==
  /\ \A i, j \in 1..Len(vote) : i # j /\ vote[i] = vote[j] => vote[i] = NoEntity
  /\ \A i \in 1..Len(vote) :
       vote[i] = o /\ o # NoEntity =>
         r \in allowed \/ [entity |-> o, root |-> TRUE] \in Callers

\* ResolvedBy of a retrieved or lapsed credential: the last approver.
LastApprover(p) ==
  IF p.approvals = <<>> THEN NoEntity ELSE p.approvals[Len(p.approvals)]

\* The entry executeApprovedRequest stores once the backend has answered.
WithCredential(p, data, t) == [p EXCEPT !.cred = data, !.approvedAt = t]

\* time.Now().UTC().After(ExpiresAt) on an undecided request
ExpiredPending(p, t) == p.status = "pending" /\ t > p.expires

\* handleApprovalFetch: the retrieval window of the credential has passed.
WindowPassed(p, t) == p.approvedAt # 0 /\ t - p.approvedAt > CredentialTTL

\* Mutant: the time limit of the request is applied to approved entries too.
MyRequestLapsed_AnyStatus(p, t) ==
  p.status \in {"pending", "approved"} /\ t > p.expires

\* handleApprovalMyRequests deletes the caller's entries past a time limit.
MyRequestLapsed(p, t) ==
  \/ ExpiredPending(p, t)
  \/ /\ p.status = "approved"
     /\ p.approvedAt # 0
     /\ t - p.approvedAt >= CredentialTTL

\* checkActiveApprovalRequest: the entries that block a new request ...
ActiveRequest(p, t) ==
  \/ p.status = "pending" /\ t < p.expires
  \/ /\ p.status = "approved"
     /\ p.cred.kind # "nil"
     /\ p.approvedAt # 0
     /\ t - p.approvedAt < CredentialTTL

\* Mutant: an undecided entry is stale only after its expiry, not at it.
StaleRequest_AfterExpiry(p, t) ==
  /\ p.status \in {"pending", "approved"}
  /\ ~ActiveRequest(p, t)
  /\ p.status = "pending" => t > p.expires

\* ... and the ones it deletes on the way.
StaleRequest(p, t) ==
  p.status \in {"pending", "approved"} /\ ~ActiveRequest(p, t)

SameRequest(p, c, path) == p.requester = c.entity /\ p.path = path

=============================================================================
