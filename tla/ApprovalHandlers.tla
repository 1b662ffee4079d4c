-------------------------- MODULE ApprovalHandlers --------------------------
(***************************************************************************)
(* The handlers of sys/approvals/ and the interceptor of handleRequest as   *)
(* goroutines.  Vault serves requests concurrently and takes no lock around *)
(* these handlers, and its storage has no compare-and-swap: a Get, a Put or *)
(* a Delete is atomic, a handler is not.  One action is one storage call    *)
(* together with the code up to the next one; a handler works on the copy   *)
(* of the entry that its Get returned.                                      *)
(*                                                                         *)
(* Return ends a handler at any point: it refuses the caller, only reports, *)
(* a storage call fails, the client hangs up, or the node dies.  Where the  *)
(* code goes on after a failed Put or Delete, so does the model, if         *)
(* StorageFails.                                                            *)
(***************************************************************************)
EXTENDS ApprovalData

CONSTANTS
  Goroutines,   \* requests that can be served at the same time
  Serves,       \* the handlers each goroutine may be serving
  StorageFails, \* whether a Put or Delete may fail and the handler go on
  MaxSecrets,   \* bound on the secrets the backend generates
  MaxDeliveries, \* bound on the credentials handed out per request
  MaxTime       \* bound on the clock

AllHandlers == {"write", "sweep", "park", "approve", "deny", "fetch",
                "approvable", "mine", "read", "history"}

ASSUME ServesAssumption == Serves \in [Goroutines -> SUBSET AllHandlers]

ASSUME BoundAssumption == {MaxTime, MaxSecrets, MaxDeliveries} \subseteq Nat

ASSUME FaultAssumption == StorageFails \in BOOLEAN

VARIABLES
  now,        \* the clock
  rules,      \* config/
  pending,    \* pending/
  history,    \* history/
  used,       \* request IDs ever generated
  local,      \* what each goroutine is doing: [Goroutines -> Local]
  (* observation only *)
  owner,      \* requester entity of each request ID
  selfRules,  \* rule IDs that have at some time allowed self-approval
  serial,     \* secrets the backend has generated so far
  minted,     \* per request: the executions that produced a secret
  delivered,  \* per request: the successful fetches, in order
  denied      \* requests whose denial was reported to the caller

storage == <<rules, pending, history>>
observed == <<owner, selfRules, serial, minted, delivered, denied>>
vars == <<now, storage, used, local, observed>>

Execution ==
  [serial : Nat, rule : RuleIDs, approvals : Seq(EntityIDs), required : Nat]
Delivery == [to : Callers, cred : CredentialData]

\* The handler and its program counter, the caller, the ID or key at hand,
\* the copy of the entry and of the rule, and the keys still to visit.
Local ==
  [op     : AllHandlers \cup {"none"},
   pc     : {"idle", "get", "remove", "vote", "mark", "reread", "execute",
             "store", "rollback", "deny", "lapsed", "burn", "burned", "log",
             "respond", "answer", "put", "match", "list", "scan", "drop"},
   caller : [entity : EntityIDs, root : BOOLEAN],
   id     : Nat,
   path   : Paths \cup {NoTarget},
   p      : PendingRequest,
   rid    : Nat,
   rule   : ApprovalRule \cup {NoRule},
   todo   : SUBSET Nat]

NoCaller == [entity |-> NoEntity, root |-> FALSE]

IdleLocal ==
  [op |-> "none", pc |-> "idle", caller |-> NoCaller, id |-> 0,
   path |-> NoTarget, p |-> NoRequest, rid |-> 0, rule |-> NoRule, todo |-> {}]

TypeOK ==
  /\ now \in Nat
  /\ rules \in [RuleIDs -> ApprovalRule \cup {NoRule}]
  /\ pending \in [ReqIDs -> PendingRequest]
  /\ history \in [ReqIDs -> ApprovalHistoryEntry]
  /\ used \subseteq ReqIDs
  /\ local \in [Goroutines -> Local]
  /\ owner \in [ReqIDs -> EntityIDs]
  /\ selfRules \subseteq RuleIDs
  /\ serial \in Nat
  /\ minted \in [ReqIDs -> SUBSET Execution]
  /\ delivered \in [ReqIDs -> Seq(Delivery)]
  /\ denied \subseteq ReqIDs

Init ==
  /\ now = 1
  /\ rules = [r \in RuleIDs |-> NoRule]
  /\ pending = [id \in ReqIDs |-> NoRequest]
  /\ history = [id \in ReqIDs |-> NoHistory]
  /\ used = {}
  /\ local = [g \in Goroutines |-> IdleLocal]
  /\ owner = [id \in ReqIDs |-> NoEntity]
  /\ selfRules = {}
  /\ serial = 0
  /\ minted = [id \in ReqIDs |-> {}]
  /\ delivered = [id \in ReqIDs |-> <<>>]
  /\ denied = {}

-----------------------------------------------------------------------------
(* Steps of a goroutine                                                    *)

Begin(g, op, l) ==
  /\ op \in Serves[g]
  /\ local[g].pc = "idle"
  /\ local' = [local EXCEPT ![g] = [l EXCEPT !.op = op]]

At(g, op, pc) == local[g].op = op /\ local[g].pc = pc

Continue(g, l) == local' = [local EXCEPT ![g] = l]

Finish(g) == Continue(g, IdleLocal)

\* storePendingRequest and Delete on pending/
Put(id, p) == pending' = [pending EXCEPT ![id] = StorageEntryJSON(p)]

Delete(id) == pending' = [pending EXCEPT ![id] = NoRequest]

\* A call whose error is ignored or only logged may have no effect.
Try(call, var) == call \/ (StorageFails /\ UNCHANGED var)

LiveKeys == {id \in ReqIDs : pending[id].status # "absent"}

\* The keys a scan gets to see: a key whose Get fails is skipped, and where a
\* failed List is not fatal (dedup, sweep) no key is seen.
Listed(keys) == IF StorageFails THEN SUBSET keys ELSE {keys}

Tick ==
  /\ now < MaxTime
  /\ now' = now + 1
  /\ UNCHANGED <<storage, used, local, observed>>

Return(g) ==
  /\ local[g].pc # "idle"
  /\ Finish(g)
  /\ UNCHANGED <<now, storage, used, observed>>

-----------------------------------------------------------------------------
(* Rule write: read, merge, put                                            *)

RuleGet(g, r, w) ==
  LET rule == MergedRule(rules[r], w) IN
  /\ AcceptableWrite(rule, w)
  /\ Begin(g, "write", [IdleLocal EXCEPT !.pc = "put", !.rid = r, !.rule = rule])
  /\ UNCHANGED <<now, storage, used, observed>>

RulePut(g) ==
  LET l == local[g] IN
  /\ At(g, "write", "put")
  /\ rules' = [rules EXCEPT ![l.rid] = l.rule]
  /\ selfRules' = IF l.rule.self THEN selfRules \cup {l.rid} ELSE selfRules
  /\ Finish(g)
  /\ UNCHANGED <<now, pending, history, used, owner, serial, minted, delivered,
                 denied>>

-----------------------------------------------------------------------------
(* Approve and deny                                                        *)

\* Mutant: a decided entry is not refused.
DecideGet_AnyStatus(g, c, id, op) ==
  /\ pending[id].status # "absent"
  /\ Begin(g, op, [IdleLocal EXCEPT
                     !.pc = IF now > pending[id].expires THEN "remove" ELSE "get",
                     !.caller = c, !.id = id, !.p = pending[id]])
  /\ UNCHANGED <<now, storage, used, observed>>

\* Both start by reading the entry: a decided one is refused, an expired one
\* will be deleted.
DecideGet(g, c, id, op) ==
  /\ pending[id].status = "pending"
  /\ Begin(g, op, [IdleLocal EXCEPT
                     !.pc = IF now > pending[id].expires THEN "remove" ELSE "get",
                     !.caller = c, !.id = id, !.p = pending[id]])
  /\ UNCHANGED <<now, storage, used, observed>>

\* Then they read the rule; when it is gone, the orphan is deleted.
DecideNoRule(g) ==
  LET l == local[g] IN
  /\ At(g, "approve", "get") \/ At(g, "deny", "get")
  /\ \E r \in RuleIDs : r = l.p.rule /\ rules[r] = NoRule
  /\ Continue(g, [l EXCEPT !.pc = "remove"])
  /\ UNCHANGED <<now, storage, used, observed>>

DecideRemove(g) ==
  /\ local[g].pc = "remove"
  /\ Delete(local[g].id)
  /\ Finish(g)
  /\ UNCHANGED <<now, rules, history, used, observed>>

\* The vote is added to the copy; rid keeps the rule the decision rests on.
ApproveRule(g) ==
  LET l == local[g]
      p == WithVote(l.p, l.caller)
  IN
  /\ At(g, "approve", "get")
  /\ \E r \in RuleIDs :
       /\ r = l.p.rule
       /\ rules[r] # NoRule
       /\ MayApprove(l.caller, l.p, rules[r])
       /\ Continue(g,
            [l EXCEPT !.rid = r, !.rule = rules[r],
               !.pc = IF ThresholdMet(p, rules[r]) THEN "mark" ELSE "vote",
               !.p = IF ThresholdMet(p, rules[r])
                     THEN [p EXCEPT !.status = "approved"] ELSE p])
  /\ UNCHANGED <<now, storage, used, observed>>

ApproveVote(g) ==
  /\ At(g, "approve", "vote")
  /\ Put(local[g].id, local[g].p)
  /\ Finish(g)
  /\ UNCHANGED <<now, rules, history, used, observed>>

\* Mutant: nothing is written before executing.
ApproveMark_Skipped(g) ==
  /\ At(g, "approve", "mark")
  /\ Continue(g, [local[g] EXCEPT !.pc = "reread"])
  /\ UNCHANGED <<now, storage, used, observed>>

\* "approved" is written before executing ...
ApproveMark(g) ==
  /\ At(g, "approve", "mark")
  /\ Put(local[g].id, local[g].p)
  /\ Continue(g, [local[g] EXCEPT !.pc = "reread"])
  /\ UNCHANGED <<now, rules, history, used, observed>>

\* ... and the entry is read again: without a credential (or an entry), execute.
ApproveReread(g) ==
  LET l == local[g] IN
  /\ At(g, "approve", "reread")
  /\ IF pending[l.id].cred.kind = "nil"
     THEN Continue(g, [l EXCEPT !.pc = "execute"])
     ELSE Finish(g)
  /\ UNCHANGED <<now, storage, used, observed>>

\* executeApprovedRequest routes the parked request to the backend, which
\* answers with a secret, a logical error, no data, or fails.
Execute(g, kind) ==
  LET l == local[g]
      data == [kind |-> kind, serial |-> IF kind = "secret" THEN serial + 1 ELSE 0]
  IN
  /\ At(g, "approve", "execute")
  /\ Continue(g, [l EXCEPT !.pc = "store", !.p = WithCredential(l.p, data, now)])
  /\ IF kind = "secret"
     THEN /\ serial < MaxSecrets
          /\ serial' = serial + 1
          /\ minted' = [minted EXCEPT ![l.id] = @ \cup
                          {[serial |-> serial + 1, rule |-> l.rid,
                            approvals |-> l.p.approvals,
                            required |-> l.rule.required]}]
     ELSE UNCHANGED <<serial, minted>>
  /\ UNCHANGED <<now, storage, used, owner, selfRules, delivered, denied>>

ExecuteStore(g) ==
  /\ At(g, "approve", "store")
  /\ Put(local[g].id, local[g].p)
  /\ Finish(g)
  /\ UNCHANGED <<now, rules, history, used, observed>>

\* The backend failed, or the put of the credential did.
ExecuteFailed(g) ==
  /\ At(g, "approve", "execute") \/ (StorageFails /\ At(g, "approve", "store"))
  /\ Continue(g, [local[g] EXCEPT !.pc = "rollback"])
  /\ UNCHANGED <<now, storage, used, observed>>

\* The copy goes back without the last vote, with whatever credential it holds.
ApproveRollback(g) ==
  LET l == local[g] IN
  /\ At(g, "approve", "rollback")
  /\ Put(l.id, [l.p EXCEPT !.status = "pending",
                           !.approvals = SubSeq(@, 1, Len(@) - 1)])
  /\ Finish(g)
  /\ UNCHANGED <<now, rules, history, used, observed>>

DenyRule(g) ==
  LET l == local[g] IN
  /\ At(g, "deny", "get")
  /\ \E r \in RuleIDs : /\ r = l.p.rule
                        /\ rules[r] # NoRule
                        /\ MayDeny(l.caller, l.p, rules[r])
  /\ Continue(g, [l EXCEPT !.pc = "deny", !.p.status = "denied"])
  /\ UNCHANGED <<now, storage, used, observed>>

\* Mutant: the entry is put back as it was read.
DenyMark_StillPending(g) ==
  /\ At(g, "deny", "deny")
  /\ Put(local[g].id, [local[g].p EXCEPT !.status = "pending"])
  /\ Continue(g, [local[g] EXCEPT !.pc = "log"])
  /\ UNCHANGED <<now, rules, history, used, observed>>

DenyMark(g) ==
  /\ At(g, "deny", "deny")
  /\ Put(local[g].id, local[g].p)
  /\ Continue(g, [local[g] EXCEPT !.pc = "log"])
  /\ UNCHANGED <<now, rules, history, used, observed>>

\* A failed put of a history entry is only logged.
Log(id, status, by) ==
  Try(history' = [history EXCEPT ![id] = HistoryEntry(status, by, now)], history)

DenyLog(g) ==
  LET l == local[g] IN
  /\ At(g, "deny", "log")
  /\ Log(l.id, "denied", l.caller.entity)
  /\ denied' = denied \cup {l.id}
  /\ Finish(g)
  /\ UNCHANGED <<now, rules, pending, used, owner, selfRules, serial, minted,
                 delivered>>

-----------------------------------------------------------------------------
(* Fetch                                                                   *)

\* The entry is past a time limit and will be deleted, or holds a credential;
\* an undecided or a denied one is only reported.
FetchGet(g, c, id) ==
  LET p     == pending[id]
      holds == p.status = "approved" /\ p.cred.kind # "nil"
  IN
  /\ p.status # "absent"
  /\ MayFetch(c, p)
  /\ ExpiredPending(p, now) \/ holds
  /\ Begin(g, "fetch",
       [IdleLocal EXCEPT !.caller = c, !.id = id, !.p = p,
          !.pc = IF holds /\ ~WindowPassed(p, now) THEN "burn" ELSE "lapsed"])
  /\ UNCHANGED <<now, storage, used, observed>>

\* Mutant: the expired entry is reported but stays.
FetchLapsed_Kept(g) ==
  /\ At(g, "fetch", "lapsed")
  /\ Continue(g, [local[g] EXCEPT !.pc = "log"])
  /\ UNCHANGED <<now, storage, used, observed>>

FetchLapsed(g) ==
  /\ At(g, "fetch", "lapsed")
  /\ Try(Delete(local[g].id), pending)
  /\ Continue(g, [local[g] EXCEPT !.pc = "log"])
  /\ UNCHANGED <<now, rules, history, used, observed>>

FetchLog(g) ==
  LET l == local[g] IN
  /\ At(g, "fetch", "log")
  /\ Log(l.id, "expired",
         IF l.p.status = "approved" THEN LastApprover(l.p) ELSE NoEntity)
  /\ Finish(g)
  /\ UNCHANGED <<now, rules, pending, used, observed>>

\* Mutant: the handler answers without burning anything.
FetchBurn_NoBurn(g) ==
  LET l == local[g] IN
  /\ At(g, "fetch", "burn")
  /\ Continue(g, [l EXCEPT !.pc = "respond"])
  /\ UNCHANGED <<now, storage, used, observed>>

\* Burn before read: the credential is kept in memory, the entry put back
\* without it, then deleted.
FetchBurn(g) ==
  LET l == local[g] IN
  /\ At(g, "fetch", "burn")
  /\ Try(Put(l.id, [l.p EXCEPT !.cred = NilData]), pending)
  /\ Continue(g, [l EXCEPT !.pc = "burned"])
  /\ UNCHANGED <<now, rules, history, used, observed>>

\* Mutant: only the tombstone is written, nothing is deleted.
FetchDelete_Skipped(g) ==
  /\ At(g, "fetch", "burned")
  /\ Continue(g, [local[g] EXCEPT !.pc = "respond"])
  /\ UNCHANGED <<now, storage, used, observed>>

FetchDelete(g) ==
  /\ At(g, "fetch", "burned")
  /\ Delete(local[g].id)
  /\ Continue(g, [local[g] EXCEPT !.pc = "respond"])
  /\ UNCHANGED <<now, rules, history, used, observed>>

\* "retrieved" is recorded before the answer is built: a handler that ends here
\* leaves the record of a delivery that never happened.
FetchRetrieved(g) ==
  LET l == local[g] IN
  /\ At(g, "fetch", "respond")
  /\ Log(l.id, "retrieved", LastApprover(l.p))
  /\ Continue(g, [l EXCEPT !.pc = "answer"])
  /\ UNCHANGED <<now, rules, pending, used, observed>>

FetchRespond(g) ==
  LET l == local[g] IN
  /\ At(g, "fetch", "answer")
  /\ Len(delivered[l.id]) < MaxDeliveries
  /\ delivered' = [delivered EXCEPT ![l.id] =
                     Append(@, [to |-> l.caller, cred |-> l.p.cred])]
  /\ Finish(g)
  /\ UNCHANGED <<now, storage, used, owner, selfRules, serial, minted, denied>>

-----------------------------------------------------------------------------
(* Interceptor: checkNeedsApproval looks for the first matching rule ...     *)

ParkList(g, c, path) ==
  /\ Interceptable(c, "read", path)
  /\ \E todo \in Listed({r \in RuleIDs : rules[r] # NoRule}) :
       Begin(g, "park", [IdleLocal EXCEPT !.pc = "match", !.caller = c,
                                          !.path = path, !.todo = todo])
  /\ UNCHANGED <<now, storage, used, observed>>

IsFirst(k, todo) == k \in todo /\ \A j \in todo : k <= j

\* ... reading the rules in turn; without a match the request goes through.
ParkMatch(g) ==
  LET l == local[g] IN
  /\ At(g, "park", "match")
  /\ \E r \in RuleIDs :
       /\ IsFirst(r, l.todo)
       /\ IF /\ rules[r] # NoRule
             /\ approvalRuleMatchesPath(rules[r].target, l.path)
          THEN Continue(g, [l EXCEPT !.rid = r, !.todo = {},
                              !.pc = IF l.caller.entity = NoEntity
                                     THEN "scan" ELSE "list"])
          ELSE Continue(g, [l EXCEPT !.todo = @ \ {r}])
  /\ UNCHANGED <<now, storage, used, observed>>

\* checkActiveApprovalRequest lists the parked requests.
ParkScan(g) ==
  /\ At(g, "park", "list")
  /\ \E todo \in Listed(LiveKeys) :
       Continue(g, [local[g] EXCEPT !.pc = "scan", !.todo = todo])
  /\ UNCHANGED <<now, storage, used, observed>>

\* The scan has blocked nothing: the request is parked under a fresh ID.
ParkStore(g) ==
  LET l == local[g] IN
  /\ At(g, "park", "scan")
  /\ l.todo = {}
  /\ \E id \in ReqIDs \ used :
       /\ Put(id, NewPending(l.rid, l.path, l.caller, now))
       /\ used' = used \cup {id}
       /\ owner' = [owner EXCEPT ![id] = l.caller.entity]
  /\ Finish(g)
  /\ UNCHANGED <<now, rules, history, selfRules, serial, minted, delivered,
                 denied>>

-----------------------------------------------------------------------------
(* Scans of pending/: List, then for every key a Get and perhaps a Delete   *)

\* handleApprovalRuleDelete sweeps the entries of the rule.
SweepList(g, r) ==
  /\ \E todo \in Listed(LiveKeys) :
       Begin(g, "sweep", [IdleLocal EXCEPT !.pc = "scan", !.rid = r, !.todo = todo])
  /\ UNCHANGED <<now, storage, used, observed>>

ApprovableList(g, c) ==
  /\ c.root \/ c.entity # NoEntity
  /\ \E todo \in Listed(LiveKeys) :
       Begin(g, "approvable",
         [IdleLocal EXCEPT !.pc = "scan", !.caller = c, !.todo = todo])
  /\ UNCHANGED <<now, storage, used, observed>>

MyRequestsList(g, c) ==
  /\ c.entity # NoEntity
  /\ \E todo \in Listed(LiveKeys) :
       Begin(g, "mine",
         [IdleLocal EXCEPT !.pc = "scan", !.caller = c, !.todo = todo])
  /\ UNCHANGED <<now, storage, used, observed>>

\* handleApprovalPendingRead looks at one key.
PendingRead(g, c, id) ==
  /\ Begin(g, "read", [IdleLocal EXCEPT !.pc = "scan", !.caller = c, !.todo = {id}])
  /\ UNCHANGED <<now, storage, used, observed>>

\* An active entry of the requester for the path stops the interceptor.
Blocks(l, p) ==
  l.op = "park" /\ SameRequest(p, l.caller, l.path) /\ ActiveRequest(p, now)

\* The entries that each scan deletes (a read looks up the rule of an expired
\* entry in the same step).
Doomed(l, p) ==
  /\ p.status # "absent"
  /\ \/ l.op = "park" /\ SameRequest(p, l.caller, l.path) /\ StaleRequest(p, now)
     \/ l.op = "sweep" /\ p.rule = l.rid
     \/ l.op = "approvable" /\ ExpiredPending(p, now)
     \/ l.op = "mine" /\ p.requester = l.caller.entity /\ MyRequestLapsed(p, now)
     \/ /\ l.op = "read" /\ ExpiredPending(p, now)
        /\ \E r \in RuleIDs : r = p.rule /\ MayReadPending(l.caller, p, rules[r])

ScanGet(g) ==
  LET l == local[g] IN
  /\ l.pc = "scan"
  /\ \E k \in ReqIDs :
       /\ IsFirst(k, l.todo)
       /\ IF Blocks(l, pending[k])
          THEN Finish(g)
          ELSE Continue(g, [l EXCEPT !.todo = @ \ {k},
                              !.id = IF Doomed(l, pending[k]) THEN k ELSE 0,
                              !.pc = IF Doomed(l, pending[k]) THEN "drop" ELSE "scan"])
  /\ UNCHANGED <<now, storage, used, observed>>

ScanDrop(g) ==
  LET l == local[g] IN
  /\ l.pc = "drop"
  /\ Try(Delete(l.id), pending)
  /\ Continue(g, [l EXCEPT !.pc = "scan", !.id = 0])
  /\ UNCHANGED <<now, rules, history, used, observed>>

SweepDelete(g) ==
  LET l == local[g] IN
  /\ At(g, "sweep", "scan")
  /\ l.todo = {}
  /\ rules' = [rules EXCEPT ![l.rid] = NoRule]
  /\ Finish(g)
  /\ UNCHANGED <<now, pending, history, used, observed>>

\* listAllHistoryEntries purges the entries past their retention; one step, as
\* no handler takes a decision on history/.
Purge ==
  \E gone \in Listed({id \in ReqIDs : /\ history[id].status # "absent"
                                      /\ now > history[id].expires}) :
    history' = [id \in ReqIDs |-> IF id \in gone THEN NoHistory ELSE history[id]]

MyRequestsHistory(g) ==
  /\ At(g, "mine", "scan")
  /\ local[g].todo = {}
  /\ Purge
  /\ Finish(g)
  /\ UNCHANGED <<now, rules, pending, used, observed>>

HistoryRead(g, c) ==
  /\ "history" \in Serves[g]
  /\ local[g].pc = "idle"
  /\ \/ c.root
     \/ \E r \in RuleIDs : approvalEntityIsAuthorized(c.entity, rules[r].approvers)
  /\ Purge
  /\ UNCHANGED <<now, rules, pending, used, local, observed>>

-----------------------------------------------------------------------------

Approve(g) ==
  \/ ApproveRule(g) \/ ApproveVote(g) \/ ApproveMark(g) \/ ApproveReread(g)
  \/ \E kind \in {"secret", "error", "empty"} : Execute(g, kind)
  \/ ExecuteStore(g) \/ ExecuteFailed(g) \/ ApproveRollback(g)

Fetch(g) ==
  \/ FetchLapsed(g) \/ FetchLog(g)
  \/ FetchBurn(g) \/ FetchDelete(g) \/ FetchRetrieved(g) \/ FetchRespond(g)

Scan(g) ==
  \/ ScanGet(g) \/ ScanDrop(g) \/ SweepDelete(g) \/ MyRequestsHistory(g)

Step(g) ==
  \/ \E r \in RuleIDs : SweepList(g, r) \/ \E w \in RuleWrites : RuleGet(g, r, w)
  \/ \E c \in Callers, id \in ReqIDs :
       \/ \E op \in {"approve", "deny"} : DecideGet(g, c, id, op)
       \/ FetchGet(g, c, id)
       \/ PendingRead(g, c, id)
  \/ \E c \in Callers : \/ \E path \in Paths : ParkList(g, c, path)
                        \/ ApprovableList(g, c)
                        \/ MyRequestsList(g, c)
                        \/ HistoryRead(g, c)
  \/ RulePut(g)
  \/ DecideNoRule(g) \/ DecideRemove(g)
  \/ Approve(g)
  \/ DenyRule(g) \/ DenyMark(g) \/ DenyLog(g)
  \/ Fetch(g)
  \/ ParkMatch(g) \/ ParkScan(g) \/ ParkStore(g)
  \/ Scan(g)
  \/ Return(g)

Next ==
  \/ Tick
  \/ \E g \in Goroutines : Step(g)

Spec == Init /\ [][Next]_vars

-----------------------------------------------------------------------------
(* Properties of every interleaving                                        *)

\* Whatever approvers do at the same time, every secret the backend generated
\* rests on as many votes as the rule that was read required, no entity counted
\* twice, and none of the requester's own unless the rule has allowed it or a
\* root token of that entity exists: lost and rolled back votes of
\* handleApprovalApprove only ever make the count smaller.
QuorumBehindSecret ==
  \A id \in ReqIDs : \A m \in minted[id] :
    /\ Len(m.approvals) >= m.required
    /\ FairVotes(m.approvals, owner[id], m.rule, selfRules)

\* handleApprovalFetch hands a credential only to the entity that asked for it
\* (to a root token when the requester had none), and only a secret that was
\* generated for this request, even when entries are overwritten by stale
\* copies or come back after their deletion.
DeliveredToRequester ==
  \A id \in ReqIDs : \A i \in 1..Len(delivered[id]) :
    LET d == delivered[id][i] IN
    /\ IF owner[id] = NoEntity THEN d.to.root ELSE d.to.entity = owner[id]
    /\ d.cred.kind = "secret" => \E m \in minted[id] : m.serial = d.cred.serial

-----------------------------------------------------------------------------
(* What makes the two properties inductive                                 *)

\* An entry, in storage or copied by a handler, names the requester it was
\* parked for, carries fair votes, and holds no secret but one generated for
\* its request.
Sound(id, p) ==
  p.status # "absent" =>
    /\ id \in used
    /\ p.requester = owner[id]
    /\ FairVotes(p.approvals, owner[id], p.rule, selfRules)
    /\ p.cred.kind = "secret" => \E m \in minted[id] : m.serial = p.cred.serial

\* What a handler has established before it reaches its program counter: the
\* checks are made on the copy, and nobody else changes the copy.
LocalSound(l) ==
  /\ l.op \in {"write", "sweep"} => l.rid \in RuleIDs
  /\ l.op = "park" => /\ l.caller \in Callers
                      /\ l.path \in Paths
                      /\ l.pc # "match" => l.rid \in RuleIDs
  /\ l.op \in {"approve", "deny", "fetch"} =>
       /\ l.id \in ReqIDs
       /\ l.caller \in Callers
       /\ l.pc \notin {"scan", "drop"}
       /\ l.p.status # "absent"
       /\ Sound(l.id, l.p)
  /\ l.op = "fetch" => MayFetch(l.caller, l.p)
  /\ l.op = "approve" /\ l.pc \in {"mark", "reread", "execute", "store", "rollback"} =>
       /\ l.rid \in RuleIDs
       /\ l.rid = l.p.rule
       /\ l.rule \in ApprovalRule
       /\ Len(l.p.approvals) >= l.rule.required

HandlersInv ==
  /\ \A r \in RuleIDs : rules[r].self => r \in selfRules
  /\ \A id \in ReqIDs : Sound(id, pending[id])
  /\ \A id \in ReqIDs \ used : minted[id] = {} /\ delivered[id] = <<>>
  /\ \A g \in Goroutines : LocalSound(local[g])
  /\ QuorumBehindSecret
  /\ DeliveredToRequester

-----------------------------------------------------------------------------
(* Properties that rest on handlers not overlapping                        *)

\* handleApprovalApprove on the write of "approved": "preventing
\* double-execution".  At most one secret is generated per request.
SingleExecution ==
  \A id \in ReqIDs : \A m, n \in minted[id] : m = n

\* "Burn After Reading" through failures: whichever of handleApprovalFetch's put
\* of the tombstone, its delete and its history entry fails, and wherever the
\* handler dies, a later fetch of the same request is not answered with the
\* credential a second time.  (Two fetches at the same time can both be: "Vault
\* storage has no CAS, so a narrow TOCTOU window remains".)
DeliveredOnce ==
  \A id \in ReqIDs : Len(delivered[id]) <= 1

\* The deny endpoint: "Marks the request as denied.  The requester will see
\* 'denied' status on the next fetch poll."
DenyHonoured ==
  \A id \in denied : pending[id].status \in {"denied", "absent"}

\* The audit trail through failures: a request it calls "retrieved" has no entry
\* left to decide or to fetch from (its answer may still have been lost, the
\* record is written first), and one it calls "denied" or "expired" was never
\* handed out.
HistoryTruthful ==
  \A id \in ReqIDs :
    /\ history[id].status = "retrieved" => pending[id].status = "absent"
    /\ history[id].status \in {"denied", "expired"} => delivered[id] = <<>>

-----------------------------------------------------------------------------
(* The life cycle of a request                                             *)

\* A handler holds the credential in memory after it has burned the entry, or
\* is between the mark "approved" and its outcome.
HeldBy(g, id) == /\ local[g].op = "fetch" /\ local[g].id = id
                 /\ local[g].pc \in {"burned", "respond", "answer"}

ExecutedBy(g, id) == /\ local[g].op = "approve" /\ local[g].id = id
                     /\ local[g].pc \in {"reread", "execute", "store", "rollback"}

\* An approved entry that is neither executed nor holds a credential is dead:
\* nothing but a cleanup touches it again.
Stage(id) ==
  IF id \notin used THEN "unborn"
  ELSE IF delivered[id] # <<>> THEN "delivered"
  ELSE IF \/ \E g \in Goroutines : HeldBy(g, id)
          \/ pending[id].status = "approved" /\ pending[id].cred.kind # "nil"
       THEN "ready"
  ELSE IF \/ pending[id].status = "pending"
          \/ \E g \in Goroutines : ExecutedBy(g, id)
       THEN "open"
  ELSE IF pending[id].status = "denied" THEN "denied"
  ELSE "gone"

Lifecycle == INSTANCE RequestLifecycle
  WITH Requests <- ReqIDs, stage <- [id \in ReqIDs |-> Stage(id)],
       secrets <- minted, handed <- delivered

\* Split at their storage calls, with every call failing or the node dying in
\* between, the handlers still keep the life cycle as long as they do not
\* overlap: no failed step lets a request be executed or delivered twice, or
\* come back after it was denied or removed.
ImplementsLifecycle == Lifecycle!Spec

-----------------------------------------------------------------------------
(* What makes these properties inductive when handlers do not overlap      *)

\* At most one goroutine serves requests.
Sequential ==
  \A g, h \in Goroutines : Serves[g] # {} /\ Serves[h] # {} => g = h

\* Past a time limit for good: no handler decides or delivers the entry.
Lapsed(p) ==
  \/ p.status = "absent"
  \/ ExpiredPending(p, now)
  \/ p.status = "approved" /\ p.cred.kind # "nil" /\ WindowPassed(p, now)

\* An undecided entry whose request was executed, which a rollback leaves, has
\* its secret; delivery and denial are final; the audit trail is written last.
Settled(id) ==
  /\ minted[id] # {} /\ pending[id].status = "pending" => pending[id].cred.kind = "secret"
  /\ pending[id].cred.kind # "empty"
  /\ delivered[id] # <<>> => pending[id].status = "absent"
  /\ id \in denied => pending[id].status \in {"denied", "absent"}
  /\ id \in denied \/ history[id].status # "absent" => id \in used
  /\ history[id].status = "expired" => Lapsed(pending[id])
  /\ history[id].status = "denied" => id \in denied

\* What is stored while a handler is at work on the entry.  A decision begins
\* with an undecided entry ...
Deciding(l, p) ==
  /\ l.pc \in {"get", "vote", "mark", "deny", "remove"} => p.status = "pending"
  /\ l.pc \in {"get", "vote", "mark"} => l.p.cred = p.cred
  /\ l.pc \in {"get", "vote"} => l.p.status = "pending"
  /\ l.pc \in {"mark", "reread", "execute", "store"} =>
       l.op = "approve" /\ l.p.status = "approved"
  /\ l.pc = "deny" => l.op = "deny" /\ l.p.status = "denied"
  /\ l.pc = "log" => p.status = "denied"
  /\ l.pc # "remove" => history[l.id].status # "expired"

\* ... an execution follows the mark "approved" and is not repeated ...
Executing(l, p) ==
  /\ l.pc \in {"reread", "execute", "store", "rollback"} =>
       l.op = "approve" /\ p.status = "approved"
  /\ l.pc = "reread" /\ minted[l.id] # {} => p.cred.kind = "secret"
  /\ l.pc \in {"execute", "store", "rollback"} => p.cred.kind = "nil"
  /\ l.pc = "execute" => minted[l.id] = {}
  /\ l.pc \in {"store", "rollback"} /\ minted[l.id] # {} => l.p.cred.kind = "secret"

\* ... and a credential is handed out after its entry is gone.
Fetching(l, p) ==
  /\ l.pc \in {"lapsed", "log", "burn", "burned", "respond", "answer"}
  /\ l.pc \in {"lapsed", "log"} => Lapsed(p)
  /\ l.pc \in {"burn", "burned", "respond", "answer"} =>
       history[l.id].status # "expired" /\ l.p.status = "approved"
  /\ l.pc \in {"burn", "burned"} => p.status = "approved"
  /\ l.pc = "burn" => p.cred.kind # "nil"
  /\ l.pc \in {"respond", "answer"} => p.status = "absent"

InCharge(l) ==
  /\ l.op \in {"approve", "deny", "fetch"} =>
       delivered[l.id] = <<>> /\ l.id \notin denied
  /\ l.op \in {"approve", "deny"} =>
       Deciding(l, pending[l.id]) /\ Executing(l, pending[l.id])
  /\ l.op = "fetch" => Fetching(l, pending[l.id])

SequentialInv ==
  /\ \A g \in Goroutines : IF local[g].pc = "idle" THEN local[g].op = "none"
                           ELSE Serves[g] # {}
  /\ \A id \in ReqIDs : Settled(id)
  /\ \A g \in Goroutines : InCharge(local[g])
  /\ SingleExecution
  /\ DeliveredOnce
  /\ HistoryTruthful

=============================================================================
