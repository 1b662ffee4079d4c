-------------------------- MODULE ApprovalWorkflow --------------------------
(***************************************************************************)
(* The approval workflow with every handler of sys/approvals/ and the       *)
(* interceptor of handleRequest run as one step: what the workflow does     *)
(* when requests do not overlap.  An action is a call that changes storage; *)
(* a call that is refused, or that only reports, leaves everything as it    *)
(* is.  ApprovalHandlers splits these steps at their storage calls.         *)
(***************************************************************************)
EXTENDS ApprovalData

CONSTANTS
  Ops,      \* operations of requests
  MaxTime   \* bound on the clock

ASSUME BoundAssumption == MaxTime \in Nat

VARIABLES
  now,        \* the clock
  rules,      \* config/:   [RuleIDs -> ApprovalRule or NoRule]
  pending,    \* pending/:  [ReqIDs -> PendingRequest]
  history,    \* history/:  [ReqIDs -> ApprovalHistoryEntry]
  used,       \* request IDs ever generated
  (* observation only *)
  owner,      \* requester entity of each request ID
  selfRules,  \* rule IDs that have at some time allowed self-approval
  serial,     \* secrets the backend has generated so far
  minted,     \* per request: the executions that produced a secret
  delivered   \* per request: the successful fetches, in order

storage == <<rules, pending, history>>
vars == <<now, rules, pending, history, used, owner, selfRules, serial,
          minted, delivered>>

Execution ==
  [serial : Nat, rule : RuleIDs, approvals : Seq(EntityIDs), required : Nat]
Delivery == [to : Callers, cred : CredentialData, approvedAt : Nat, at : Nat]

TypeOK ==
  /\ now \in Nat
  /\ rules \in [RuleIDs -> ApprovalRule \cup {NoRule}]
  /\ pending \in [ReqIDs -> PendingRequest]
  /\ history \in [ReqIDs -> ApprovalHistoryEntry]
  /\ used \subseteq ReqIDs
  /\ owner \in [ReqIDs -> EntityIDs]
  /\ selfRules \subseteq RuleIDs
  /\ serial \in Nat
  /\ minted \in [ReqIDs -> SUBSET Execution]
  /\ delivered \in [ReqIDs -> Seq(Delivery)]

Init ==
  /\ now = 1
  /\ rules = [r \in RuleIDs |-> NoRule]
  /\ pending = [id \in ReqIDs |-> NoRequest]
  /\ history = [id \in ReqIDs |-> NoHistory]
  /\ used = {}
  /\ owner = [id \in ReqIDs |-> NoEntity]
  /\ selfRules = {}
  /\ serial = 0
  /\ minted = [id \in ReqIDs |-> {}]
  /\ delivered = [id \in ReqIDs |-> <<>>]

observed == <<owner, selfRules, serial, minted, delivered>>

Without(ids) ==
  [id \in ReqIDs |-> IF id \in ids THEN NoRequest ELSE pending[id]]

Tick ==
  /\ now < MaxTime
  /\ now' = now + 1
  /\ UNCHANGED <<storage, used, observed>>

-----------------------------------------------------------------------------
(* Rules                                                                   *)

handleApprovalRuleWrite(r, w) ==
  LET rule == MergedRule(rules[r], w) IN
  /\ AcceptableWrite(rule, w)
  /\ rules' = [rules EXCEPT ![r] = rule]
  /\ selfRules' = IF rule.self THEN selfRules \cup {r} ELSE selfRules
  /\ UNCHANGED <<now, pending, history, used, owner, serial, minted, delivered>>

\* Deleting a rule sweeps every entry parked under it, whatever its status.
handleApprovalRuleDelete(r) ==
  /\ pending' = Without({id \in ReqIDs : pending[id].status # "absent"
                                           /\ pending[id].rule = r})
  /\ rules' = [rules EXCEPT ![r] = NoRule]
  /\ UNCHANGED <<now, history, used, observed>>

-----------------------------------------------------------------------------
(* Interceptor                                                             *)

\* The requester's own entries for the path; a caller without an entity is
\* not deduplicated.
OwnEntries(c, path) ==
  {id \in ReqIDs : /\ c.entity # NoEntity
                   /\ pending[id].status # "absent"
                   /\ SameRequest(pending[id], c, path)}

\* checkActiveApprovalRequest finds nothing that blocks: the stale entries
\* are deleted and the request is parked under a fresh ID.
ParkRequest(c, op, path) ==
  LET own == OwnEntries(c, path) IN
  /\ Interceptable(c, op, path)
  /\ \A k \in own : ~ActiveRequest(pending[k], now)
  /\ \E r \in RuleIDs, id \in ReqIDs \ used :
       /\ IsMatchedRule(rules, path, r)
       /\ pending' = [Without({k \in own : StaleRequest(pending[k], now)})
                        EXCEPT ![id] = NewPending(r, path, c, now)]
       /\ used' = used \cup {id}
       /\ owner' = [owner EXCEPT ![id] = c.entity]
  /\ UNCHANGED <<now, rules, history, selfRules, serial, minted, delivered>>

\* An active entry k blocks the request; the scan has by then deleted the
\* stale entries listed before it.
BlockDuplicate(c, op, path) ==
  LET own == OwnEntries(c, path) IN
  /\ Interceptable(c, op, path)
  /\ MatchingRules(rules, path) # {}
  /\ \E k \in own :
       /\ ActiveRequest(pending[k], now)
       /\ \A j \in own : j < k => ~ActiveRequest(pending[j], now)
       /\ pending' = Without({j \in own : j < k /\ StaleRequest(pending[j], now)})
  /\ UNCHANGED <<now, rules, history, used, observed>>

-----------------------------------------------------------------------------
(* Decisions                                                               *)

\* approve and deny delete an undecided request that has expired or whose
\* rule is gone, whoever calls.
DropUndecided(id) ==
  /\ pending[id].status = "pending"
  /\ \/ now > pending[id].expires
     \/ \A r \in RuleIDs : r = pending[id].rule => rules[r] = NoRule
  /\ pending' = Without({id})
  /\ UNCHANGED <<now, rules, history, used, observed>>

\* Mutant: a request that is already decided can be decided again.
Decidable_AnyStatus(id, r) ==
  /\ pending[id].status # "absent"
  /\ ~(now > pending[id].expires)
  /\ r = pending[id].rule
  /\ rules[r] # NoRule

\* The checks approve and deny share before they look at the caller.
Decidable(id, r) ==
  /\ pending[id].status = "pending"
  /\ ~(now > pending[id].expires)
  /\ r = pending[id].rule
  /\ rules[r] # NoRule

\* A vote below the threshold is recorded.
ApproveVote(c, id, r) ==
  LET p == WithVote(pending[id], c) IN
  /\ Decidable(id, r)
  /\ MayApprove(c, pending[id], rules[r])
  /\ ~ThresholdMet(p, rules[r])
  /\ pending' = [pending EXCEPT ![id] = p]
  /\ UNCHANGED <<now, rules, history, used, observed>>

(***************************************************************************)
(* The vote that meets the threshold executes the parked request.  When the *)
(* backend fails the handler restores the entry it found, so only the       *)
(* outcomes without an error change anything: a secret, a logical error     *)
(* response, or a response without data.                                    *)
(***************************************************************************)
ApproveExecute(c, id, r, kind) ==
  LET p    == [WithVote(pending[id], c) EXCEPT !.status = "approved"]
      data == [kind |-> kind,
               serial |-> IF kind = "secret" THEN serial + 1 ELSE 0]
  IN
  /\ Decidable(id, r)
  /\ MayApprove(c, pending[id], rules[r])
  /\ ThresholdMet(p, rules[r])
  /\ pending' = [pending EXCEPT
                   ![id] = StorageEntryJSON(WithCredential(p, data, now))]
  /\ IF kind = "secret"
     THEN /\ serial' = serial + 1
          /\ minted' = [minted EXCEPT ![id] = @ \cup
                          {[serial |-> serial + 1, rule |-> r,
                            approvals |-> p.approvals,
                            required |-> rules[r].required]}]
     ELSE UNCHANGED <<serial, minted>>
  /\ UNCHANGED <<now, rules, history, used, owner, selfRules, delivered>>

handleApprovalApprove(c, id) ==
  \/ DropUndecided(id)
  \/ \E r \in RuleIDs :
       \/ ApproveVote(c, id, r)
       \/ \E kind \in {"secret", "error", "empty"} : ApproveExecute(c, id, r, kind)

\* Mutant: the denial is logged but not stored.
DenyRequest_NotStored(c, id, r) ==
  /\ Decidable(id, r)
  /\ MayDeny(c, pending[id], rules[r])
  /\ history' = [history EXCEPT ![id] = HistoryEntry("denied", c.entity, now)]
  /\ UNCHANGED <<now, rules, pending, used, observed>>

DenyRequest(c, id, r) ==
  /\ Decidable(id, r)
  /\ MayDeny(c, pending[id], rules[r])
  /\ pending' = [pending EXCEPT ![id].status = "denied"]
  /\ history' = [history EXCEPT ![id] = HistoryEntry("denied", c.entity, now)]
  /\ UNCHANGED <<now, rules, used, observed>>

handleApprovalDeny(c, id) ==
  \/ DropUndecided(id)
  \/ \E r \in RuleIDs : DenyRequest(c, id, r)

-----------------------------------------------------------------------------
(* Retrieval                                                               *)

FetchExpired(id) ==
  /\ ExpiredPending(pending[id], now)
  /\ pending' = Without({id})
  /\ history' = [history EXCEPT ![id] = HistoryEntry("expired", NoEntity, now)]
  /\ UNCHANGED <<now, rules, used, observed>>

FetchLapsed(id) ==
  LET p == pending[id] IN
  /\ p.status = "approved" /\ p.cred.kind # "nil"
  /\ WindowPassed(p, now)
  /\ pending' = Without({id})
  /\ history' = [history EXCEPT ![id] = HistoryEntry("expired", LastApprover(p), now)]
  /\ UNCHANGED <<now, rules, used, observed>>

\* Mutant: the credential is handed over and stays in storage.
FetchCredential_NoBurn(c, id) ==
  LET p == pending[id] IN
  /\ p.status = "approved" /\ p.cred.kind # "nil"
  /\ ~WindowPassed(p, now)
  /\ history' = [history EXCEPT ![id] = HistoryEntry("retrieved", LastApprover(p), now)]
  /\ delivered' = [delivered EXCEPT ![id] =
                     Append(@, [to |-> c, cred |-> p.cred,
                                approvedAt |-> p.approvedAt, at |-> now])]
  /\ UNCHANGED <<now, rules, pending, used, owner, selfRules, serial, minted>>

\* Burn after reading: the entry is deleted, the credential handed over.
FetchCredential(c, id) ==
  LET p == pending[id] IN
  /\ p.status = "approved" /\ p.cred.kind # "nil"
  /\ ~WindowPassed(p, now)
  /\ pending' = Without({id})
  /\ history' = [history EXCEPT ![id] = HistoryEntry("retrieved", LastApprover(p), now)]
  /\ delivered' = [delivered EXCEPT ![id] =
                     Append(@, [to |-> c, cred |-> p.cred,
                                approvedAt |-> p.approvedAt, at |-> now])]
  /\ UNCHANGED <<now, rules, used, owner, selfRules, serial, minted>>

handleApprovalFetch(c, id) ==
  /\ pending[id].status # "absent"
  /\ MayFetch(c, pending[id])
  /\ FetchExpired(id) \/ FetchLapsed(id) \/ FetchCredential(c, id)

-----------------------------------------------------------------------------
(* Listings, which clean up as they go                                     *)

handleApprovalPendingRead(c, id) ==
  /\ pending[id].status # "absent"
  /\ \E r \in RuleIDs : /\ r = pending[id].rule
                        /\ MayReadPending(c, pending[id], rules[r])
  /\ ExpiredPending(pending[id], now)
  /\ pending' = Without({id})
  /\ UNCHANGED <<now, rules, history, used, observed>>

\* Any caller with an entity, and root, deletes everybody's expired requests.
handleApprovalApprovable(c) ==
  /\ c.root \/ c.entity # NoEntity
  /\ pending' = Without({id \in ReqIDs : ExpiredPending(pending[id], now)})
  /\ UNCHANGED <<now, rules, history, used, observed>>

\* listAllHistoryEntries purges every entry past its retention.
listAllHistoryEntries ==
  history' = [id \in ReqIDs |-> IF /\ history[id].status # "absent"
                                   /\ now > history[id].expires
                                THEN NoHistory ELSE history[id]]

handleApprovalMyRequests(c) ==
  /\ c.entity # NoEntity
  /\ pending' = Without({id \in ReqIDs : /\ pending[id].requester = c.entity
                                         /\ MyRequestLapsed(pending[id], now)})
  /\ listAllHistoryEntries
  /\ UNCHANGED <<now, rules, used, observed>>

handleApprovalHistory(c) ==
  /\ \/ c.root
     \/ \E r \in RuleIDs : approvalEntityIsAuthorized(c.entity, rules[r].approvers)
  /\ listAllHistoryEntries
  /\ UNCHANGED <<now, rules, pending, used, observed>>

-----------------------------------------------------------------------------

Next ==
  \/ Tick
  \/ \E r \in RuleIDs : \/ \E w \in RuleWrites : handleApprovalRuleWrite(r, w)
                        \/ handleApprovalRuleDelete(r)
  \/ \E c \in Callers, op \in Ops, path \in Paths :
       ParkRequest(c, op, path) \/ BlockDuplicate(c, op, path)
  \/ \E c \in Callers, id \in ReqIDs :
       \/ handleApprovalApprove(c, id)
       \/ handleApprovalDeny(c, id)
       \/ handleApprovalFetch(c, id)
       \/ handleApprovalPendingRead(c, id)
  \/ \E c \in Callers : \/ handleApprovalApprovable(c)
                        \/ handleApprovalMyRequests(c)
                        \/ handleApprovalHistory(c)

Spec == Init /\ [][Next]_vars

-----------------------------------------------------------------------------
(* Properties                                                              *)

\* Deduplication (checkActiveApprovalRequest): a requester never has two
\* undecided or approved entries for the same path, at any point of their
\* time limits.  A caller without an entity is exempt.
OneLiveRequest ==
  \A i, j \in ReqIDs :
    /\ i # j
    /\ pending[i].status \in {"pending", "approved"}
    /\ pending[j].status \in {"pending", "approved"}
    /\ pending[i].requester # NoEntity
    /\ pending[i].path = pending[j].path
    => pending[i].requester # pending[j].requester

\* handleApprovalApprove executes a request at most once: no second secret is
\* generated for a request ID, whatever approvers, rule changes and empty or
\* erroneous backend answers come in between.
SingleExecution ==
  \A id \in ReqIDs : \A m, n \in minted[id] : m = n

\* What stands behind every secret the backend generated: as many votes as the
\* rule required at that moment, no entity counted twice, and no vote of the
\* requester unless the rule has allowed self-approval or the vote was cast
\* with a root token.
QuorumBehindSecret ==
  \A id \in ReqIDs : \A m \in minted[id] :
    Len(m.approvals) >= m.required /\ FairVotes(m.approvals, owner[id], m.rule, selfRules)

\* Burn after reading (handleApprovalFetch): a credential is handed out at most
\* once, to the entity that asked for it (to a root token when the requester
\* had no entity), inside its retrieval window; afterwards the entry is gone,
\* and a secret handed out was generated for this very request.
BurnAfterReading ==
  \A id \in ReqIDs : delivered[id] # <<>> =>
    LET d == delivered[id][1] IN
    /\ Len(delivered[id]) = 1
    /\ pending[id].status = "absent"
    /\ IF owner[id] = NoEntity THEN d.to.root ELSE d.to.entity = owner[id]
    /\ d.at - d.approvedAt <= CredentialTTL
    /\ d.cred.kind = "secret" => \E m \in minted[id] : m.serial = d.cred.serial

\* The audit trail tells the truth: "retrieved" entries were delivered, denied
\* requests never produced a secret and stay denied, and nothing that expired
\* was ever delivered.
HistoryTruthful ==
  \A id \in ReqIDs :
    /\ history[id].status = "retrieved" => delivered[id] # <<>>
    /\ history[id].status = "denied" =>
         minted[id] = {} /\ pending[id].status \in {"absent", "denied"}
    /\ history[id].status = "expired" =>
         delivered[id] = <<>> /\ pending[id].status = "absent"

\* No handler throws an approved secret away: it leaves storage only when it
\* is handed out, when its retrieval window is over, or with its rule.
SecretKept ==
  [][\A id \in ReqIDs :
       pending[id].cred.kind = "secret" =>
         \/ pending'[id] = pending[id]
         \/ delivered'[id] # delivered[id]
         \/ now - pending[id].approvedAt >= CredentialTTL
         \/ \E r \in RuleIDs : r = pending[id].rule /\ rules'[r] = NoRule]_vars

-----------------------------------------------------------------------------
(* The life cycle of a request, which this specification implements        *)

Stage(id) ==
  IF id \notin used THEN "unborn"
  ELSE IF delivered[id] # <<>> THEN "delivered"
  ELSE IF pending[id].status = "pending" THEN "open"
  ELSE IF pending[id].status = "denied" THEN "denied"
  ELSE IF pending[id].status = "approved" /\ pending[id].cred.kind # "nil" THEN "ready"
  ELSE "gone"

Lifecycle == INSTANCE RequestLifecycle
  WITH Requests <- ReqIDs, stage <- [id \in ReqIDs |-> Stage(id)],
       secrets <- minted, handed <- delivered

\* Handlers, interceptor and cleanups together keep the life cycle: a request
\* is decided once, executed once and delivered once, in this order, and what
\* was denied, delivered or removed stays so.
ImplementsLifecycle == Lifecycle!Spec

-----------------------------------------------------------------------------
(* The inductive strengthening of the properties                           *)

\* Only IDs that were generated have an entry or a secret, and a request that
\* has produced a secret is never undecided again.
Recorded ==
  \A id \in ReqIDs :
    /\ pending[id].status # "absent" => id \in used
    /\ minted[id] # {} => id \in used /\ pending[id].status \in {"approved", "absent"}

\* The votes of a parked request are fair before it is executed.
VotesSound ==
  /\ \A r \in RuleIDs : rules[r].self => r \in selfRules
  /\ \A id \in ReqIDs :
       pending[id].status # "absent" =>
         /\ pending[id].requester = owner[id]
         /\ FairVotes(pending[id].approvals, owner[id], pending[id].rule, selfRules)

\* A credential lies only in an approved entry that bears the time of its
\* approval, and a secret is one that was generated for the entry's request;
\* only IDs that were generated appear in the history or among the deliveries.
CredentialsSound ==
  /\ now >= 1
  /\ \A id \in ReqIDs :
       /\ pending[id].cred.kind # "nil" =>
            pending[id].status = "approved" /\ pending[id].approvedAt # 0
       /\ pending[id].cred.kind = "secret" =>
            \E m \in minted[id] : m.serial = pending[id].cred.serial
       /\ delivered[id] # <<>> => id \in used
       /\ history[id].status # "absent" => id \in used

=============================================================================
