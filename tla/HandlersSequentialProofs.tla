---------------------- MODULE HandlersSequentialProofs ----------------------
(***************************************************************************)
(* Proofs about ApprovalHandlers while one goroutine serves: whichever Put  *)
(* or Delete fails and wherever a handler stops, the handlers execute,      *)
(* deliver and deny once and for all, and they implement RequestLifecycle.  *)
(* Serves says which goroutines serve, so the hypothesis Sequential is one  *)
(* on constants; DoubleExecution and DenyOverwritten show it is needed.     *)
(***************************************************************************)
EXTENDS ApprovalHandlersProofs

-----------------------------------------------------------------------------
(* One goroutine at work                                                   *)

EntryOps == {"approve", "deny", "fetch"}

\* No goroutine but g does anything.
Only(g) ==
  \A h \in Goroutines : h # g => local[h].pc = "idle" /\ local[h].op = "none"

LEMMA OneAtWork ==
  ASSUME Sequential, SequentialInv, NEW g \in Goroutines, Serves[g] # {}
  PROVE  Only(g)
BY DEF Sequential, SequentialInv, Only

LEMMA StepServes ==
  ASSUME SequentialInv, NEW g \in Goroutines, Step(g)
  PROVE  Serves[g] # {}
<1>1. local[g].pc # "idle" => Serves[g] # {}
  BY DEF SequentialInv
<1>2. ASSUME NEW op, NEW l, Begin(g, op, l) PROVE Serves[g] # {}
  BY <1>2 DEF Begin
<1>3. CASE \E r \in RuleIDs : SweepList(g, r) \/ \E w \in RuleWrites : RuleGet(g, r, w)
  BY <1>2, <1>3 DEF SweepList, RuleGet
<1>4. CASE \E c \in Callers, id \in ReqIDs :
             \/ \E op \in {"approve", "deny"} : DecideGet(g, c, id, op)
             \/ FetchGet(g, c, id)
             \/ PendingRead(g, c, id)
  BY <1>2, <1>4 DEF DecideGet, FetchGet, PendingRead
<1>5. CASE \E c \in Callers : \/ \E path \in Paths : ParkList(g, c, path)
                              \/ ApprovableList(g, c)
                              \/ MyRequestsList(g, c)
                              \/ HistoryRead(g, c)
  BY <1>2, <1>5 DEF ParkList, ApprovableList, MyRequestsList, HistoryRead
<1>6. CASE RulePut(g) \/ DecideNoRule(g) \/ DecideRemove(g) \/ Return(g)
  BY <1>1, <1>6 DEF RulePut, DecideNoRule, DecideRemove, Return, At
<1>7. CASE Approve(g) \/ DenyRule(g) \/ DenyMark(g) \/ DenyLog(g)
  BY <1>1, <1>7 DEF Approve, ApproveRule, ApproveVote, ApproveMark, ApproveReread,
                    Execute, ExecuteStore, ExecuteFailed, ApproveRollback,
                    DenyRule, DenyMark, DenyLog, At
<1>8. CASE Fetch(g)
  BY <1>1, <1>8 DEF Fetch, FetchLapsed, FetchLog, FetchBurn, FetchDelete, FetchRetrieved,
                    FetchRespond, At
<1>9. CASE ParkMatch(g) \/ ParkScan(g) \/ ParkStore(g) \/ Scan(g)
  BY <1>1, <1>9 DEF ParkMatch, ParkScan, ParkStore, Scan, ScanGet, ScanDrop,
                    SweepDelete, MyRequestsHistory, At
<1>. QED
  BY <1>3, <1>4, <1>5, <1>6, <1>7, <1>8, <1>9 DEF Step

-----------------------------------------------------------------------------
(* The stage of a request                                                  *)

Held(l, id) == l.op = "fetch" /\ l.id = id /\ l.pc \in {"burned", "respond", "answer"}

Exec(l, id) ==
  /\ l.op = "approve" /\ l.id = id
  /\ l.pc \in {"reread", "execute", "store", "rollback"}

\* The stage by the entry in storage, unless a handler holds the credential or
\* executes the request.
StageOf(id, p, held, exec) ==
  IF held \/ (p.status = "approved" /\ p.cred.kind # "nil") THEN "ready"
  ELSE IF p.status = "pending" \/ exec THEN "open"
  ELSE IF p.status = "denied" THEN "denied" ELSE "gone"

LEMMA StageValue ==
  ASSUME NEW g \in Goroutines, Only(g), NEW id \in ReqIDs
  PROVE  /\ id \notin used => Stage(id) = "unborn"
         /\ id \in used =>
              /\ delivered[id] # <<>> => Stage(id) = "delivered"
              /\ delivered[id] = <<>> =>
                   Stage(id) = StageOf(id, pending[id], Held(local[g], id), Exec(local[g], id))
<1>1. /\ (\E h \in Goroutines : HeldBy(h, id)) <=> Held(local[g], id)
      /\ (\E h \in Goroutines : ExecutedBy(h, id)) <=> Exec(local[g], id)
  BY DEF Only, HeldBy, ExecutedBy, Held, Exec
<1>. QED
  BY <1>1 DEF Stage, StageOf

LEMMA StageValueNext ==
  ASSUME NEW g \in Goroutines, Only(g)', NEW id \in ReqIDs
  PROVE  /\ id \notin used' => Stage(id)' = "unborn"
         /\ id \in used' =>
              /\ delivered'[id] # <<>> => Stage(id)' = "delivered"
              /\ delivered'[id] = <<>> =>
                   Stage(id)' = StageOf(id, pending'[id], Held(local'[g], id),
                                        Exec(local'[g], id))
<1>1. /\ (\E h \in Goroutines : HeldBy(h, id)') <=> Held(local'[g], id)
      /\ (\E h \in Goroutines : ExecutedBy(h, id)') <=> Exec(local'[g], id)
  BY DEF Only, HeldBy, ExecutedBy, Held, Exec
<1>. QED
  BY <1>1 DEF Stage, StageOf

AbstractStep(id) ==
  \/ Lifecycle!Rest(id) \/ Lifecycle!Park(id) \/ Lifecycle!Execute(id)
  \/ Lifecycle!Offer(id) \/ Lifecycle!Deny(id) \/ Lifecycle!Deliver(id)
  \/ Lifecycle!Discard(id)

\* What makes a step of a request a step of its life cycle.
LEMMA AbstractSteps ==
  ASSUME NEW id \in ReqIDs
  PROVE  /\ /\ \/ Stage(id)' = Stage(id)
               \/ Stage(id) = "unborn" /\ Stage(id)' = "open"
               \/ Stage(id) = "open" /\ Stage(id)' \in {"ready", "denied"}
               \/ Stage(id) \in {"open", "ready", "denied"} /\ Stage(id)' = "gone"
            /\ minted'[id] = minted[id] /\ delivered'[id] = delivered[id]
            => AbstractStep(id)
         /\ /\ Stage(id) = "open" /\ Stage(id)' = "open"
            /\ minted[id] = {} /\ delivered'[id] = delivered[id]
            /\ \E m : minted'[id] = {m}
            => AbstractStep(id)
         /\ /\ Stage(id) = "ready" /\ Stage(id)' = "delivered"
            /\ delivered[id] = <<>> /\ Len(delivered'[id]) = 1
            /\ minted'[id] = minted[id]
            => AbstractStep(id)
BY DEF AbstractStep, Lifecycle!Rest, Lifecycle!Park, Lifecycle!Offer, Lifecycle!Execute,
       Lifecycle!Deny, Lifecycle!Deliver, Lifecycle!Discard, Lifecycle!Moves,
       Lifecycle!Same

-----------------------------------------------------------------------------
(* Steps in general                                                        *)

\* The properties, for one request.
Once(id) ==
  /\ \A m, n \in minted[id] : m = n
  /\ Len(delivered[id]) <= 1
  /\ history[id].status = "retrieved" => pending[id].status = "absent"
  /\ history[id].status \in {"denied", "expired"} => delivered[id] = <<>>

LEMMA OnceEach ==
  SingleExecution /\ DeliveredOnce /\ HistoryTruthful <=> \A id \in ReqIDs : Once(id)
BY DEF SingleExecution, DeliveredOnce, HistoryTruthful, Once

\* Goroutine g moves to n.
LEMMA Frame ==
  ASSUME TypeOK, SequentialInv, NEW g \in Goroutines, Serves[g] # {}, Only(g),
         NEW n, local' = [local EXCEPT ![g] = n], n.pc = "idle" => n.op = "none",
         InCharge(n)', \A id \in ReqIDs : Settled(id)' /\ Once(id)'
  PROVE  SequentialInv' /\ Only(g)' /\ local'[g] = n
<1>1. local'[g] = n /\ \A h \in Goroutines : h # g => local'[h] = local[h]
  BY DEF TypeOK
<1>2. Only(g)'
  BY <1>1 DEF Only
<1>3. \A h \in Goroutines : h # g => InCharge(local[h])'
  BY <1>2 DEF Only, InCharge
<1>4. \A h \in Goroutines : InCharge(local[h])'
  BY <1>1, <1>3
<1>5. (\A id \in ReqIDs : Once(id)') => SingleExecution' /\ DeliveredOnce' /\ HistoryTruthful'
  BY DEF SingleExecution, DeliveredOnce, HistoryTruthful, Once
<1>. QED
  BY <1>1, <1>2, <1>4, <1>5 DEF SequentialInv, Only

LEMMA LapsedStays ==
  ASSUME TypeOK, now' \in Nat, now' >= now, NEW id \in ReqIDs, Lapsed(pending[id]),
         pending'[id] = pending[id] \/ pending'[id] = NoRequest
  PROVE  Lapsed(pending[id])'
<1>1. /\ pending[id].expires \in Nat /\ pending[id].approvedAt \in Nat /\ now \in Nat
      /\ NoRequest.status = "absent"
  BY DEF TypeOK, PendingRequest, NoRequest
<1>. QED
  BY <1>1, TTLAssumption DEF Lapsed, ExpiredPending, WindowPassed

\* An entry that is left alone or deleted.
LEMMA StaysSettled ==
  ASSUME TypeOK, SequentialInv, now' \in Nat, now' >= now, NEW id \in ReqIDs,
         pending'[id] = pending[id] \/ pending'[id] = NoRequest,
         history'[id] = history[id] \/ history'[id].status = "absent",
         minted'[id] = minted[id], delivered'[id] = delivered[id],
         id \in denied' <=> id \in denied, used \subseteq used'
  PROVE  Settled(id)' /\ Once(id)'
<1>1. Settled(id) /\ Once(id)
  BY OnceEach DEF SequentialInv
<1>2. NoRequest.status = "absent" /\ NoRequest.cred.kind = "nil"
  BY DEF NoRequest, NilData
<1>3. history'[id].status = "expired" => Lapsed(pending[id])'
  BY <1>1, LapsedStays DEF Settled
<1>4. Settled(id)'
  BY <1>1, <1>2, <1>3 DEF Settled
<1>. QED
  BY <1>1, <1>2, <1>4 DEF Once

\* The handler is done with entries, or is not at one: entries are deleted,
\* history entries purged.
LEMMA AwayStep ==
  ASSUME TypeOK, SequentialInv, NEW g \in Goroutines, Serves[g] # {}, Only(g),
         NEW n, local' = [local EXCEPT ![g] = n], n.pc = "idle" => n.op = "none",
         n.op \notin EntryOps, now' = now,
         \A id \in ReqIDs : pending'[id] = pending[id] \/ pending'[id] = NoRequest,
         \A id \in ReqIDs : history'[id] = history[id] \/ history'[id].status = "absent",
         UNCHANGED <<used, minted, delivered, denied>>
  PROVE  SequentialInv' /\ \A id \in ReqIDs : AbstractStep(id)
<1>0. now' \in Nat /\ now' >= now
  BY DEF TypeOK
<1>1. \A id \in ReqIDs : Settled(id)' /\ Once(id)'
  BY <1>0, StaysSettled
<1>2. InCharge(n)'
  BY DEF InCharge, EntryOps
<1>3. SequentialInv' /\ Only(g)' /\ local'[g] = n
  BY <1>1, <1>2, Frame
<1>4. ASSUME NEW id \in ReqIDs PROVE AbstractStep(id)
  <2>1. CASE id \notin used \/ delivered[id] # <<>>
    BY <1>3, <2>1, StageValue, StageValueNext, AbstractSteps
  <2>2. CASE id \in used /\ delivered[id] = <<>>
    <3>1. ~Held(n, id) /\ ~Exec(n, id)
      BY DEF Held, Exec, EntryOps
    <3>2. Stage(id)' = StageOf(id, pending'[id], FALSE, FALSE)
      BY <1>3, <2>2, <3>1, StageValueNext DEF StageOf
    <3>3. Stage(id) = StageOf(id, pending[id], Held(local[g], id), Exec(local[g], id))
      BY <2>2, StageValue
    <3>4. /\ Held(local[g], id) => pending[id].status \in {"approved", "absent"}
          /\ Exec(local[g], id) => pending[id].status = "approved"
      BY DEF Held, Exec, SequentialInv, InCharge, Fetching, Executing
    <3>5. /\ pending[id].status \in {"absent", "pending", "approved", "denied"}
          /\ NoRequest.status = "absent" /\ NoRequest.cred.kind = "nil"
      BY DEF TypeOK, PendingRequest, NoRequest, NilData
    <3>6. Stage(id)' = Stage(id) \/ (Stage(id) \in {"open", "ready", "denied"} /\ Stage(id)' = "gone")
      BY <3>2, <3>3, <3>4, <3>5 DEF StageOf
    <3>. QED
      BY <3>6, AbstractSteps
  <2>. QED
    BY <2>1, <2>2
<1>. QED
  BY <1>3, <1>4

\* The handler of an entry moves on without a storage call that has an effect.
LEMMA LocalMove ==
  ASSUME TypeOK, SequentialInv, NEW g \in Goroutines, Serves[g] # {}, Only(g),
         NEW n, local' = [local EXCEPT ![g] = n], n.pc # "idle", InCharge(n),
         \A id \in ReqIDs : Held(n, id) = Held(local[g], id) /\ Exec(n, id) = Exec(local[g], id),
         UNCHANGED <<now, storage, used, observed>>
  PROVE  SequentialInv' /\ \A id \in ReqIDs : AbstractStep(id)
<1>0. /\ now' \in Nat /\ now' >= now
      /\ UNCHANGED <<now, pending, history, used, minted, delivered, denied>>
  BY DEF TypeOK, storage, observed
<1>1. \A id \in ReqIDs : Settled(id)' /\ Once(id)'
  BY <1>0, StaysSettled
<1>2. InCharge(n)'
  BY <1>0 DEF InCharge, Deciding, Executing, Fetching, Lapsed
<1>3. SequentialInv' /\ Only(g)' /\ local'[g] = n
  BY <1>1, <1>2, Frame
<1>4. ASSUME NEW id \in ReqIDs PROVE AbstractStep(id)
  <2>1. Stage(id)' = Stage(id)
    BY <1>0, <1>3, StageValue, StageValueNext
  <2>. QED
    BY <1>0, <2>1, AbstractSteps
<1>. QED
  BY <1>3, <1>4

\* The step is about request k alone.
LeavesOthers(k) ==
  /\ now' = now /\ used \subseteq used'
  /\ \A id \in ReqIDs : id # k =>
       /\ pending'[id] = pending[id] /\ history'[id] = history[id]
       /\ minted'[id] = minted[id] /\ delivered'[id] = delivered[id]
       /\ id \in denied' <=> id \in denied
       /\ id \in used' <=> id \in used

\* The handler of entry k writes.
LEMMA EntryStep ==
  ASSUME TypeOK, SequentialInv, NEW g \in Goroutines, Serves[g] # {}, Only(g),
         NEW n, local' = [local EXCEPT ![g] = n], n.pc = "idle" => n.op = "none",
         NEW k \in ReqIDs,
         local[g].op \in EntryOps => local[g].id = k,
         n.op \in EntryOps => n.id = k,
         LeavesOthers(k),
         InCharge(n)', Settled(k)', Once(k)'
  PROVE  /\ SequentialInv' /\ Only(g)' /\ local'[g] = n
         /\ \A id \in ReqIDs : id # k => AbstractStep(id)
<1>0. now' \in Nat /\ now' >= now
  BY DEF TypeOK, LeavesOthers
<1>1. \A id \in ReqIDs : id # k => Settled(id)' /\ Once(id)'
  BY <1>0, StaysSettled DEF LeavesOthers
<1>2. SequentialInv' /\ Only(g)' /\ local'[g] = n
  BY <1>1, Frame
<1>3. ASSUME NEW id \in ReqIDs, id # k PROVE AbstractStep(id)
  <2>1. ~Held(n, id) /\ ~Exec(n, id) /\ ~Held(local[g], id) /\ ~Exec(local[g], id)
    BY <1>3 DEF Held, Exec, EntryOps
  <2>2. Stage(id)' = Stage(id)
    BY <1>2, <1>3, <2>1, StageValue, StageValueNext DEF StageOf, LeavesOthers
  <2>. QED
    BY <1>3, <2>2, AbstractSteps DEF LeavesOthers
<1>. QED
  BY <1>2, <1>3

-----------------------------------------------------------------------------
(* Rules, scans and the interceptor                                        *)

\* A handler begins that is not about one entry.
LEMMA BeginSteps ==
  ASSUME TypeOK, SequentialInv, NEW g \in Goroutines, Serves[g] # {}, Only(g),
         \/ \E r \in RuleIDs : SweepList(g, r) \/ \E w \in RuleWrites : RuleGet(g, r, w)
         \/ \E c \in Callers : \/ \E path \in Paths : ParkList(g, c, path)
                               \/ ApprovableList(g, c)
                               \/ MyRequestsList(g, c)
                               \/ \E id \in ReqIDs : PendingRead(g, c, id)
  PROVE  SequentialInv' /\ \A id \in ReqIDs : AbstractStep(id)
<1>0. UNCHANGED <<now, pending, history, used, minted, delivered, denied>>
  BY DEF SweepList, RuleGet, ParkList, ApprovableList, MyRequestsList, PendingRead, storage,
         observed
<1>. DEFINE Done == SequentialInv' /\ \A id \in ReqIDs : AbstractStep(id)
<1>1. ASSUME NEW n, local' = [local EXCEPT ![g] = n], n.pc # "idle", n.op \notin EntryOps
      PROVE  Done
  BY <1>0, <1>1, AwayStep
<1>. HIDE DEF Done
<1>2. ASSUME NEW r, NEW todo,
             Begin(g, "sweep", [IdleLocal EXCEPT !.pc = "scan", !.rid = r, !.todo = todo])
      PROVE  Done
  <2>. DEFINE n == [[IdleLocal EXCEPT !.pc = "scan", !.rid = r, !.todo = todo]
                      EXCEPT !.op = "sweep"]
  <2>1. local' = [local EXCEPT ![g] = n]
    BY <1>2 DEF Begin
  <2>2. n.pc # "idle" /\ n.op \notin EntryOps
    BY DEF IdleLocal, EntryOps
  <2>. HIDE DEF n
  <2>. QED
    BY <1>1, <2>1, <2>2
<1>3. ASSUME NEW r, NEW rule,
             Begin(g, "write", [IdleLocal EXCEPT !.pc = "put", !.rid = r, !.rule = rule])
      PROVE  Done
  <2>. DEFINE n == [[IdleLocal EXCEPT !.pc = "put", !.rid = r, !.rule = rule]
                      EXCEPT !.op = "write"]
  <2>1. local' = [local EXCEPT ![g] = n]
    BY <1>3 DEF Begin
  <2>2. n.pc # "idle" /\ n.op \notin EntryOps
    BY DEF IdleLocal, EntryOps
  <2>. HIDE DEF n
  <2>. QED
    BY <1>1, <2>1, <2>2
<1>4. ASSUME NEW c, NEW path, NEW todo,
             Begin(g, "park", [IdleLocal EXCEPT !.pc = "match", !.caller = c,
                                                !.path = path, !.todo = todo])
      PROVE  Done
  <2>. DEFINE n == [[IdleLocal EXCEPT !.pc = "match", !.caller = c, !.path = path,
                                      !.todo = todo] EXCEPT !.op = "park"]
  <2>1. local' = [local EXCEPT ![g] = n]
    BY <1>4 DEF Begin
  <2>2. n.pc # "idle" /\ n.op \notin EntryOps
    BY DEF IdleLocal, EntryOps
  <2>. HIDE DEF n
  <2>. QED
    BY <1>1, <2>1, <2>2
<1>5. ASSUME NEW c, NEW todo, NEW op \in {"approvable", "mine", "read"},
             Begin(g, op, [IdleLocal EXCEPT !.pc = "scan", !.caller = c, !.todo = todo])
      PROVE  Done
  <2>. DEFINE n == [[IdleLocal EXCEPT !.pc = "scan", !.caller = c, !.todo = todo]
                      EXCEPT !.op = op]
  <2>1. local' = [local EXCEPT ![g] = n]
    BY <1>5 DEF Begin
  <2>2. n.pc # "idle" /\ n.op \notin EntryOps
    BY <1>5 DEF IdleLocal, EntryOps
  <2>. HIDE DEF n
  <2>. QED
    BY <1>1, <2>1, <2>2
<1>6. ASSUME NEW r \in RuleIDs, SweepList(g, r) PROVE Done
  <2>1. PICK todo :
          Begin(g, "sweep", [IdleLocal EXCEPT !.pc = "scan", !.rid = r, !.todo = todo])
    BY <1>6, Zenon DEF SweepList
  <2>. QED
    BY <1>2, <2>1, Zenon
<1>7. ASSUME NEW r \in RuleIDs, NEW w \in RuleWrites, RuleGet(g, r, w) PROVE Done
  <2>1. Begin(g, "write", [IdleLocal EXCEPT !.pc = "put", !.rid = r,
                                            !.rule = MergedRule(rules[r], w)])
    BY <1>7, Zenon DEF RuleGet
  <2>. QED
    BY <1>3, <2>1, Zenon
<1>8. ASSUME NEW c \in Callers, NEW path \in Paths, ParkList(g, c, path) PROVE Done
  <2>1. PICK todo :
          Begin(g, "park", [IdleLocal EXCEPT !.pc = "match", !.caller = c,
                                             !.path = path, !.todo = todo])
    BY <1>8, Zenon DEF ParkList
  <2>. QED
    BY <1>4, <2>1, Zenon
<1>9. ASSUME NEW c \in Callers,
             \/ ApprovableList(g, c) \/ MyRequestsList(g, c)
             \/ \E id \in ReqIDs : PendingRead(g, c, id)
      PROVE  Done
  <2>1. PICK op \in {"approvable", "mine", "read"} : \E todo :
          Begin(g, op, [IdleLocal EXCEPT !.pc = "scan", !.caller = c, !.todo = todo])
    BY <1>9 DEF ApprovableList, MyRequestsList, PendingRead
  <2>. QED
    BY <1>5, <2>1, Zenon
<1>. QED
  BY <1>6, <1>7, <1>8, <1>9 DEF Done

LEMMA PurgeGone ==
  ASSUME Purge, NEW id \in ReqIDs
  PROVE  history'[id] = history[id] \/ history'[id].status = "absent"
<1>1. PICK gone : history' = [j \in ReqIDs |-> IF j \in gone THEN NoHistory ELSE history[j]]
  BY DEF Purge
<1>. QED
  BY <1>1 DEF NoHistory

\* A handler ends, having deleted at most one entry and purged the history.
LEMMA EndAway ==
  ASSUME TypeOK, SequentialInv, NEW g \in Goroutines, Serves[g] # {}, Only(g),
         Finish(g), now' = now,
         UNCHANGED pending \/ \E id : Delete(id),
         UNCHANGED history \/ Purge,
         UNCHANGED <<used, minted, delivered, denied>>
  PROVE  SequentialInv' /\ \A id \in ReqIDs : AbstractStep(id)
<1>1. local' = [local EXCEPT ![g] = IdleLocal] /\ IdleLocal.pc = "idle" /\ IdleLocal.op = "none"
  BY DEF Finish, Continue, IdleLocal
<1>2. \A id \in ReqIDs : pending'[id] = pending[id] \/ pending'[id] = NoRequest
  BY DEF Delete, TypeOK
<1>3. \A id \in ReqIDs : history'[id] = history[id] \/ history'[id].status = "absent"
  BY PurgeGone
<1>. HIDE DEF IdleLocal
<1>. QED
  BY <1>1, <1>2, <1>3, AwayStep DEF EntryOps

LEMMA EndSteps ==
  ASSUME TypeOK, SequentialInv, NEW g \in Goroutines, Serves[g] # {}, Only(g),
         \/ RulePut(g) \/ DecideRemove(g) \/ SweepDelete(g) \/ MyRequestsHistory(g)
         \/ Return(g)
  PROVE  SequentialInv' /\ \A id \in ReqIDs : AbstractStep(id)
BY EndAway DEF RulePut, DecideRemove, SweepDelete, MyRequestsHistory, Return, storage, observed

LEMMA HistoryReadStep ==
  ASSUME TypeOK, SequentialInv, NEW g \in Goroutines, Serves[g] # {}, Only(g),
         NEW c, HistoryRead(g, c)
  PROVE  SequentialInv' /\ \A id \in ReqIDs : AbstractStep(id)
<1>1. /\ local[g].op = "none"
      /\ local' = [local EXCEPT ![g] = local[g]]
      /\ UNCHANGED <<now, pending, used, minted, delivered, denied>>
  BY DEF HistoryRead, SequentialInv, TypeOK, observed
<1>2. \A id \in ReqIDs : history'[id] = history[id] \/ history'[id].status = "absent"
  BY PurgeGone DEF HistoryRead
<1>. QED
  BY <1>1, <1>2, AwayStep DEF EntryOps

\* The interceptor and the scans look at rules and entries in turn.
LEMMA ScanAway ==
  ASSUME TypeOK, HandlersInv, SequentialInv, NEW g \in Goroutines, Serves[g] # {}, Only(g),
         ParkMatch(g) \/ ParkScan(g) \/ ScanGet(g) \/ ScanDrop(g)
  PROVE  SequentialInv' /\ \A id \in ReqIDs : AbstractStep(id)
<1>. DEFINE l == local[g]
            Done == SequentialInv' /\ \A id \in ReqIDs : AbstractStep(id)
<1>1. /\ l \in Local /\ LocalSound(l)
      /\ UNCHANGED <<now, history, used, minted, delivered, denied>>
      /\ \A id \in ReqIDs : pending'[id] = pending[id] \/ pending'[id] = NoRequest
  BY DEF ParkMatch, ParkScan, ScanGet, ScanDrop, Try, Delete, TypeOK, HandlersInv, storage,
         observed
<1>2. l.op \notin EntryOps
  BY <1>1 DEF ParkMatch, ParkScan, ScanGet, ScanDrop, At, LocalSound, EntryOps
<1>3. ASSUME NEW n, local' = [local EXCEPT ![g] = n], n.op = l.op, n.pc # "idle"
      PROVE  Done
  BY <1>1, <1>2, <1>3, AwayStep
<1>4. ASSUME Finish(g), UNCHANGED pending PROVE Done
  BY <1>1, <1>4, EndAway
<1>. SUFFICES Done
  OBVIOUS
<1>. HIDE DEF Done
<1>5. l.pc # "idle"
  BY DEF ParkMatch, ParkScan, ScanGet, ScanDrop, At
<1>6. CASE ParkMatch(g)
  <2>1. PICK r \in RuleIDs :
          IF rules[r] # NoRule /\ approvalRuleMatchesPath(rules[r].target, l.path)
          THEN Continue(g, [l EXCEPT !.rid = r, !.todo = {},
                              !.pc = IF l.caller.entity = NoEntity THEN "scan" ELSE "list"])
          ELSE Continue(g, [l EXCEPT !.todo = @ \ {r}])
    BY <1>6 DEF ParkMatch
  <2>. DEFINE m == [l EXCEPT !.rid = r, !.todo = {},
                      !.pc = IF l.caller.entity = NoEntity THEN "scan" ELSE "list"]
              n == [l EXCEPT !.todo = @ \ {r}]
  <2>2. local' = [local EXCEPT ![g] = m] \/ local' = [local EXCEPT ![g] = n]
    BY <2>1 DEF Continue
  <2>3. m.op = l.op /\ m.pc # "idle" /\ n.op = l.op /\ n.pc # "idle"
    BY <1>1, <1>5 DEF Local
  <2>. HIDE DEF m, n
  <2>. QED
    BY <1>3, <2>2, <2>3
<1>7. CASE ParkScan(g)
  <2>1. PICK todo : local' = [local EXCEPT ![g] = [l EXCEPT !.pc = "scan", !.todo = todo]]
    BY <1>7 DEF ParkScan, Continue
  <2>. DEFINE n == [l EXCEPT !.pc = "scan", !.todo = todo]
  <2>2. n.op = l.op /\ n.pc # "idle"
    BY <1>1 DEF Local
  <2>3. local' = [local EXCEPT ![g] = n]
    BY <2>1
  <2>. HIDE DEF n
  <2>. QED
    BY <1>3, <2>2, <2>3
<1>8. CASE ScanGet(g)
  <2>1. CASE Finish(g)
    BY <1>4, <1>8, <2>1 DEF ScanGet, storage
  <2>2. CASE ~Finish(g)
    <3>1. PICK k \in ReqIDs :
            Continue(g, [l EXCEPT !.todo = @ \ {k},
                           !.id = IF Doomed(l, pending[k]) THEN k ELSE 0,
                           !.pc = IF Doomed(l, pending[k]) THEN "drop" ELSE "scan"])
      BY <1>8, <2>2 DEF ScanGet
    <3>. DEFINE n == [l EXCEPT !.todo = @ \ {k},
                        !.id = IF Doomed(l, pending[k]) THEN k ELSE 0,
                        !.pc = IF Doomed(l, pending[k]) THEN "drop" ELSE "scan"]
    <3>2. n.op = l.op /\ n.pc # "idle"
      BY <1>1 DEF Local
    <3>3. local' = [local EXCEPT ![g] = n]
      BY <3>1 DEF Continue
    <3>. HIDE DEF n
    <3>. QED
      BY <1>3, <3>2, <3>3
  <2>. QED
    BY <2>1, <2>2
<1>9. CASE ScanDrop(g)
  <2>. DEFINE n == [l EXCEPT !.pc = "scan", !.id = 0]
  <2>1. local' = [local EXCEPT ![g] = n]
    BY <1>9 DEF ScanDrop, Continue
  <2>2. n.op = l.op /\ n.pc # "idle"
    BY <1>1 DEF Local
  <2>. HIDE DEF n
  <2>. QED
    BY <1>3, <2>1, <2>2
<1>. QED
  BY <1>6, <1>7, <1>8, <1>9

-----------------------------------------------------------------------------
(* Handlers of one entry: steps that write nothing                         *)

LEMMA DecideGetMove ==
  ASSUME TypeOK, SequentialInv, NEW g \in Goroutines, Serves[g] # {}, Only(g),
         NEW c \in Callers, NEW id \in ReqIDs, NEW op \in {"approve", "deny"},
         DecideGet(g, c, id, op)
  PROVE  SequentialInv' /\ \A j \in ReqIDs : AbstractStep(j)
<1>. DEFINE n == [[IdleLocal EXCEPT
                     !.pc = IF now > pending[id].expires THEN "remove" ELSE "get",
                     !.caller = c, !.id = id, !.p = pending[id]] EXCEPT !.op = op]
<1>1. /\ local' = [local EXCEPT ![g] = n]
      /\ local[g].op = "none" /\ pending[id].status = "pending"
      /\ UNCHANGED <<now, storage, used, observed>>
  BY DEF DecideGet, Begin, SequentialInv
<1>2. /\ n.pc \in {"remove", "get"} /\ n.op = op /\ n.id = id /\ n.p = pending[id]
      /\ n.pc = "get" => ~(now > pending[id].expires)
  BY DEF IdleLocal
<1>. HIDE DEF n
<1>3. Settled(id)
  BY DEF SequentialInv
<1>4. n.pc = "get" => history[id].status # "expired"
  BY <1>1, <1>2, <1>3 DEF Settled, Lapsed, ExpiredPending
<1>5. InCharge(n)
  BY <1>1, <1>2, <1>3, <1>4 DEF Settled, InCharge, Deciding, Executing
<1>6. \A j \in ReqIDs : Held(n, j) = Held(local[g], j) /\ Exec(n, j) = Exec(local[g], j)
  BY <1>1, <1>2 DEF Held, Exec
<1>. QED
  BY <1>1, <1>2, <1>5, <1>6, LocalMove

LEMMA FetchGetMove ==
  ASSUME TypeOK, SequentialInv, NEW g \in Goroutines, Serves[g] # {}, Only(g),
         NEW c \in Callers, NEW id \in ReqIDs, FetchGet(g, c, id)
  PROVE  SequentialInv' /\ \A j \in ReqIDs : AbstractStep(j)
<1>. DEFINE p == pending[id]
            holds == p.status = "approved" /\ p.cred.kind # "nil"
            n == [[IdleLocal EXCEPT !.caller = c, !.id = id, !.p = p,
                     !.pc = IF holds /\ ~WindowPassed(p, now) THEN "burn" ELSE "lapsed"]
                    EXCEPT !.op = "fetch"]
<1>1. /\ local' = [local EXCEPT ![g] = n]
      /\ local[g].op = "none" /\ p.status # "absent"
      /\ ExpiredPending(p, now) \/ holds
      /\ UNCHANGED <<now, storage, used, observed>>
  BY DEF FetchGet, Begin, SequentialInv
<1>2. /\ n.op = "fetch" /\ n.id = id /\ n.p = p
      /\ \/ n.pc = "burn" /\ holds /\ ~WindowPassed(p, now)
         \/ n.pc = "lapsed" /\ ~(holds /\ ~WindowPassed(p, now))
  BY DEF IdleLocal
<1>. HIDE DEF n
<1>3. Settled(id)
  BY DEF SequentialInv
<1>4. delivered[id] = <<>> /\ id \notin denied
  BY <1>1, <1>3 DEF Settled, ExpiredPending
<1>5. Fetching(n, p)
  <2>1. CASE n.pc = "burn"
    BY <1>2, <1>3, <2>1 DEF Fetching, Settled, Lapsed, ExpiredPending
  <2>2. CASE n.pc = "lapsed"
    BY <1>1, <1>2, <2>2 DEF Fetching, Lapsed
  <2>. QED
    BY <1>2, <2>1, <2>2
<1>6. InCharge(n)
  BY <1>2, <1>4, <1>5 DEF InCharge
<1>7. \A j \in ReqIDs : Held(n, j) = Held(local[g], j) /\ Exec(n, j) = Exec(local[g], j)
  BY <1>1, <1>2 DEF Held, Exec
<1>8. n.pc # "idle"
  BY <1>2
<1>. HIDE DEF p, holds
<1>. QED
  BY <1>1, <1>6, <1>7, <1>8, LocalMove

LEMMA DecideMoves ==
  ASSUME TypeOK, HandlersInv, SequentialInv, NEW g \in Goroutines, Serves[g] # {}, Only(g),
         DecideNoRule(g) \/ ApproveRule(g) \/ DenyRule(g)
  PROVE  SequentialInv' /\ \A j \in ReqIDs : AbstractStep(j)
<1>. DEFINE l == local[g]
            Done == SequentialInv' /\ \A j \in ReqIDs : AbstractStep(j)
<1>1. /\ l \in Local /\ InCharge(l) /\ l.op \in {"approve", "deny"} /\ l.pc = "get"
      /\ UNCHANGED <<now, storage, used, observed>>
  BY DEF TypeOK, SequentialInv, DecideNoRule, ApproveRule, DenyRule, At
<1>2. ASSUME NEW n, local' = [local EXCEPT ![g] = n], n.op = l.op, n.id = l.id,
             n.pc \in {"remove", "vote", "mark", "deny"},
             n.pc \in {"vote", "mark"} => n.p.cred = l.p.cred,
             n.pc = "vote" => n.p.status = "pending",
             n.pc = "mark" => n.op = "approve" /\ n.p.status = "approved",
             n.pc = "deny" => n.op = "deny" /\ n.p.status = "denied"
      PROVE  Done
  <2>. HIDE DEF l
  <2>1. InCharge(n)
    BY <1>1, <1>2 DEF InCharge, Deciding, Executing
  <2>2. \A j \in ReqIDs : Held(n, j) = Held(l, j) /\ Exec(n, j) = Exec(l, j)
    BY <1>1, <1>2 DEF Held, Exec
  <2>. QED
    BY <1>1, <1>2, <2>1, <2>2, LocalMove DEF l
<1>. SUFFICES Done
  OBVIOUS
<1>. HIDE DEF Done
<1>3. l.p.status = "pending" /\ l.p \in PendingRequest
  BY <1>1 DEF InCharge, Deciding, Local
<1>4. CASE DecideNoRule(g)
  <2>. DEFINE n == [l EXCEPT !.pc = "remove"]
  <2>1. local' = [local EXCEPT ![g] = n]
    BY <1>4 DEF DecideNoRule, Continue
  <2>2. n.op = l.op /\ n.id = l.id /\ n.pc = "remove"
    BY <1>1 DEF Local
  <2>. HIDE DEF n
  <2>. QED
    BY <1>2, <2>1, <2>2
<1>5. CASE ApproveRule(g)
  <2>. DEFINE p == WithVote(l.p, l.caller)
  <2>1. PICK r \in RuleIDs :
          local' = [local EXCEPT ![g] =
            [l EXCEPT !.rid = r, !.rule = rules[r],
               !.pc = IF ThresholdMet(p, rules[r]) THEN "mark" ELSE "vote",
               !.p = IF ThresholdMet(p, rules[r])
                     THEN [p EXCEPT !.status = "approved"] ELSE p]]
    BY <1>5 DEF ApproveRule, Continue
  <2>. DEFINE n == [l EXCEPT !.rid = r, !.rule = rules[r],
                      !.pc = IF ThresholdMet(p, rules[r]) THEN "mark" ELSE "vote",
                      !.p = IF ThresholdMet(p, rules[r])
                            THEN [p EXCEPT !.status = "approved"] ELSE p]
  <2>2. local' = [local EXCEPT ![g] = n]
    BY <2>1
  <2>3. /\ p.cred = l.p.cred /\ p.status = "pending"
        /\ [p EXCEPT !.status = "approved"].cred = l.p.cred
        /\ [p EXCEPT !.status = "approved"].status = "approved"
    BY <1>3 DEF WithVote, PendingRequest
  <2>4. /\ n.op = l.op /\ n.id = l.id
        /\ \/ n.pc = "mark" /\ n.p = [p EXCEPT !.status = "approved"]
           \/ n.pc = "vote" /\ n.p = p
    <3>. HIDE DEF p
    <3>. QED
      BY <1>1 DEF Local
  <2>5. l.op = "approve"
    BY <1>5 DEF ApproveRule, At
  <2>. HIDE DEF n, p
  <2>. QED
    BY <1>2, <2>2, <2>3, <2>4, <2>5
<1>6. CASE DenyRule(g)
  <2>. DEFINE n == [l EXCEPT !.pc = "deny", !.p.status = "denied"]
  <2>1. local' = [local EXCEPT ![g] = n] /\ l.op = "deny"
    BY <1>6 DEF DenyRule, Continue, At
  <2>2. n.op = l.op /\ n.id = l.id /\ n.pc = "deny" /\ n.p.status = "denied"
    BY <1>1, <1>3 DEF Local, PendingRequest
  <2>. HIDE DEF n
  <2>. QED
    BY <1>2, <2>1, <2>2
<1>. QED
  BY <1>4, <1>5, <1>6

\* ApproveReread goes on when the entry holds nothing; ExecuteFailed.
LEMMA ExecuteMoves ==
  ASSUME TypeOK, HandlersInv, SequentialInv, NEW g \in Goroutines, Serves[g] # {}, Only(g),
         ApproveReread(g) \/ ExecuteFailed(g)
  PROVE  SequentialInv' /\ \A j \in ReqIDs : AbstractStep(j)
<1>. DEFINE l == local[g]
            Done == SequentialInv' /\ \A j \in ReqIDs : AbstractStep(j)
<1>1. /\ l \in Local /\ LocalSound(l) /\ InCharge(l) /\ l.op = "approve"
      /\ l.pc \in {"reread", "execute", "store"}
      /\ UNCHANGED <<now, storage, used, observed>>
  BY DEF TypeOK, HandlersInv, SequentialInv, ApproveReread, ExecuteFailed, At
<1>2. l.id \in ReqIDs
  BY <1>1 DEF LocalSound
<1>3. ASSUME NEW n, local' = [local EXCEPT ![g] = n], n.op = l.op, n.id = l.id, n.p = l.p,
             \/ n.pc = "execute" /\ l.pc = "reread" /\ pending[l.id].cred.kind = "nil"
             \/ n.pc = "rollback" /\ l.pc \in {"execute", "store"}
      PROVE  Done
  <2>. HIDE DEF l
  <2>1. InCharge(n)
    BY <1>1, <1>3 DEF InCharge, Deciding, Executing
  <2>2. \A j \in ReqIDs : Held(n, j) = Held(l, j) /\ Exec(n, j) = Exec(l, j)
    BY <1>1, <1>3 DEF Held, Exec
  <2>. QED
    BY <1>1, <1>3, <2>1, <2>2, LocalMove DEF l
<1>. SUFFICES Done
  OBVIOUS
<1>4. CASE ApproveReread(g) /\ Finish(g)
  BY <1>1, <1>4, EndAway DEF storage, observed
<1>5. CASE ApproveReread(g) /\ ~Finish(g)
  <2>. DEFINE n == [l EXCEPT !.pc = "execute"]
  <2>1. /\ local' = [local EXCEPT ![g] = n]
        /\ pending[l.id].cred.kind = "nil" /\ l.pc = "reread"
    BY <1>5 DEF ApproveReread, Continue, At
  <2>2. n.op = l.op /\ n.id = l.id /\ n.p = l.p /\ n.pc = "execute"
    BY <1>1 DEF Local
  <2>. HIDE DEF n, Done
  <2>. QED
    BY <1>3, <2>1, <2>2
<1>6. CASE ExecuteFailed(g)
  <2>. DEFINE n == [l EXCEPT !.pc = "rollback"]
  <2>1. local' = [local EXCEPT ![g] = n] /\ l.pc \in {"execute", "store"}
    BY <1>6 DEF ExecuteFailed, Continue, At
  <2>2. n.op = l.op /\ n.id = l.id /\ n.p = l.p /\ n.pc = "rollback"
    BY <1>1 DEF Local
  <2>. HIDE DEF n, Done
  <2>. QED
    BY <1>3, <2>1, <2>2
<1>. QED
  BY <1>4, <1>5, <1>6

-----------------------------------------------------------------------------
(* Handlers of one entry: writes to pending/                               *)

\* The entry at hand is overwritten by e, or deleted.
LEMMA PutEntry ==
  ASSUME TypeOK, SequentialInv, NEW g \in Goroutines, Serves[g] # {}, Only(g),
         NEW n, local' = [local EXCEPT ![g] = n], n.pc = "idle" => n.op = "none",
         NEW k \in ReqIDs, local[g].op \in EntryOps, local[g].id = k,
         n.op \in EntryOps => n.id = k,
         NEW e, pending' = [pending EXCEPT ![k] = e],
         UNCHANGED <<now, history, used, minted, delivered, denied>>,
         k \in used, delivered[k] = <<>>, k \notin denied,
         minted[k] # {} /\ e.status = "pending" => e.cred.kind = "secret",
         e.cred.kind # "empty",
         history[k].status = "expired" => Lapsed(e),
         pending[k].status = "absent" => e.status = "absent",
         n.op \in {"approve", "deny"} => Deciding(n, e) /\ Executing(n, e),
         n.op = "fetch" => Fetching(n, e),
         LET s == StageOf(k, pending[k], Held(local[g], k), Exec(local[g], k))
             t == StageOf(k, e, Held(n, k), Exec(n, k))
         IN  t = s \/ t = "gone" \/ (s = "open" /\ t \in {"ready", "denied"})
  PROVE  SequentialInv' /\ \A id \in ReqIDs : AbstractStep(id)
<1>1. /\ pending'[k] = e
      /\ \A id \in ReqIDs : id # k => pending'[id] = pending[id]
  BY DEF TypeOK
<1>2. Settled(k) /\ Once(k)
  BY OnceEach DEF SequentialInv
<1>3. Lapsed(e) => Lapsed(e)'
  BY DEF Lapsed
<1>4. Settled(k)'
  BY <1>1, <1>2, <1>3 DEF Settled
<1>5. Once(k)'
  BY <1>1, <1>2 DEF Once
<1>6. InCharge(n)'
  <2>1. n.op \in {"approve", "deny"} => Deciding(n, pending[n.id])' /\ Executing(n, pending[n.id])'
    BY <1>1 DEF Deciding, Executing, EntryOps
  <2>2. n.op = "fetch" => Fetching(n, pending[n.id])'
    BY <1>1 DEF Fetching, Lapsed, EntryOps
  <2>. QED
    BY <2>1, <2>2 DEF InCharge, EntryOps
<1>7. /\ SequentialInv' /\ Only(g)' /\ local'[g] = n
      /\ \A id \in ReqIDs : id # k => AbstractStep(id)
  <2>1. LeavesOthers(k)
    BY <1>1 DEF LeavesOthers
  <2>. QED
    BY <1>4, <1>5, <1>6, <2>1, EntryStep
<1>8. /\ Stage(k) = StageOf(k, pending[k], Held(local[g], k), Exec(local[g], k))
      /\ Stage(k)' = StageOf(k, e, Held(n, k), Exec(n, k))
  BY <1>1, <1>7, StageValue, StageValueNext
<1>9. StageOf(k, pending[k], Held(local[g], k), Exec(local[g], k))
        \in {"ready", "open", "denied", "gone"}
  BY DEF StageOf
<1>10. AbstractStep(k)
  BY <1>8, <1>9, AbstractSteps
<1>. QED
  BY <1>7, <1>10

LEMMA PrefixType ==
  ASSUME NEW S, NEW v \in Seq(S)
  PROVE  SubSeq(v, 1, Len(v) - 1) \in Seq(S)
BY SubSeqProperties

LEMMA StoredAs ==
  ASSUME NEW p \in PendingRequest
  PROVE  LET e == StorageEntryJSON(p) IN
         /\ e.status = p.status
         /\ e.cred.kind = IF p.cred.kind = "empty" THEN "nil" ELSE p.cred.kind
         /\ e.cred.kind # "empty"
BY DEF StorageEntryJSON, PendingRequest, NilData

\* What the invariants say of the handler that is at work on an entry.
LEMMA AtEntry ==
  ASSUME TypeOK, HandlersInv, SequentialInv, NEW g \in Goroutines, local[g].op \in EntryOps
  PROVE  LET l == local[g]
             k == l.id
         IN  /\ l \in Local /\ l.p \in PendingRequest
             /\ k \in ReqIDs /\ k \in used /\ Settled(k) /\ Once(k) /\ InCharge(l)
             /\ delivered[k] = <<>> /\ k \notin denied
             /\ pending[k] \in PendingRequest
<1>. DEFINE l == local[g]
            k == l.id
<1>1. l \in Local /\ LocalSound(l) /\ InCharge(l) /\ l.op \in EntryOps
  BY DEF TypeOK, HandlersInv, SequentialInv
<1>. HIDE DEF l
<1>2. /\ k \in ReqIDs /\ l.p.status # "absent" /\ Sound(k, l.p)
      /\ delivered[k] = <<>> /\ k \notin denied
  BY <1>1 DEF LocalSound, InCharge, EntryOps
<1>3. k \in used
  BY <1>2 DEF Sound
<1>4. l.p \in PendingRequest
  BY <1>1 DEF Local
<1>5. Settled(k) /\ Once(k) /\ pending[k] \in PendingRequest
  BY <1>2, OnceEach DEF SequentialInv, TypeOK
<1>. QED
  BY <1>1, <1>2, <1>3, <1>4, <1>5 DEF l

LEMMA ApproveWrites ==
  ASSUME TypeOK, HandlersInv, SequentialInv, NEW g \in Goroutines, Serves[g] # {}, Only(g),
         ApproveVote(g) \/ ApproveMark(g) \/ ExecuteStore(g) \/ ApproveRollback(g)
  PROVE  SequentialInv' /\ \A j \in ReqIDs : AbstractStep(j)
<1>. DEFINE l == local[g]
            k == l.id
            Done == SequentialInv' /\ \A j \in ReqIDs : AbstractStep(j)
<1>0. /\ l.op = "approve" /\ l.op \in EntryOps
      /\ l.pc \in {"vote", "mark", "store", "rollback"}
      /\ UNCHANGED <<now, history, used, minted, delivered, denied>>
  BY DEF ApproveVote, ApproveMark, ExecuteStore, ApproveRollback, At, observed, EntryOps
<1>1. /\ l \in Local /\ l.p \in PendingRequest
      /\ k \in ReqIDs /\ k \in used /\ Settled(k) /\ InCharge(l)
      /\ delivered[k] = <<>> /\ k \notin denied
  BY <1>0, AtEntry
<1>2. Deciding(l, pending[k]) /\ Executing(l, pending[k])
  BY <1>0, <1>1 DEF InCharge
<1>3. ASSUME NEW n, local' = [local EXCEPT ![g] = n], n.pc = "idle" => n.op = "none",
             n.op \in EntryOps => n.id = k,
             NEW e, pending' = [pending EXCEPT ![k] = e],
             minted[k] # {} /\ e.status = "pending" => e.cred.kind = "secret",
             e.cred.kind # "empty", n.op # "fetch",
             n.op \in {"approve", "deny"} => Deciding(n, e) /\ Executing(n, e),
             LET s == StageOf(k, pending[k], Held(l, k), Exec(l, k))
                 t == StageOf(k, e, Held(n, k), Exec(n, k))
             IN  t = s \/ t = "gone" \/ (s = "open" /\ t \in {"ready", "denied"})
      PROVE  Done
  <2>1. history[k].status # "expired"
    BY <1>0, <1>2 DEF Deciding
  <2>2. pending[k].status # "absent"
    BY <1>0, <1>2 DEF Deciding, Executing
  <2>. QED
    BY <1>0, <1>1, <1>3, <2>1, <2>2, PutEntry
<1>. SUFFICES Done
  OBVIOUS
<1>. HIDE DEF Done
<1>4. StageOf(k, pending[k], Held(l, k), Exec(l, k)) = "open"
  <2>1. ~Held(l, k)
    BY <1>0 DEF Held
  <2>2. CASE l.pc \in {"vote", "mark"}
    BY <1>2, <2>1, <2>2 DEF Deciding, StageOf
  <2>3. CASE l.pc \in {"store", "rollback"}
    <3>1. Exec(l, k) /\ pending[k].cred.kind = "nil"
      BY <1>0, <1>2, <2>3 DEF Exec, Executing
    <3>. QED
      BY <2>1, <3>1 DEF StageOf
  <2>. QED
    BY <1>0, <2>2, <2>3
<1>5. /\ IdleLocal.pc = "idle" /\ IdleLocal.op = "none"
      /\ ~Held(IdleLocal, k) /\ ~Exec(IdleLocal, k)
  BY DEF IdleLocal, Held, Exec
<1>6. CASE ApproveVote(g)
  <2>. DEFINE e == StorageEntryJSON(l.p)
  <2>1. /\ l.pc = "vote"
        /\ local' = [local EXCEPT ![g] = IdleLocal]
        /\ pending' = [pending EXCEPT ![k] = e]
    BY <1>6 DEF ApproveVote, At, Finish, Continue, Put
  <2>2. /\ l.p.status = "pending" /\ l.p.cred = pending[k].cred
        /\ pending[k].status = "pending"
    BY <1>2, <2>1 DEF Deciding
  <2>3. /\ e.status = "pending" /\ e.cred.kind # "empty"
        /\ minted[k] # {} => e.cred.kind = "secret"
    BY <1>1, <2>2, StoredAs DEF Settled
  <2>4. StageOf(k, e, Held(IdleLocal, k), Exec(IdleLocal, k)) = "open"
    BY <1>5, <2>3 DEF StageOf
  <2>. HIDE DEF e
  <2>. QED
    BY <1>3, <1>4, <1>5, <2>1, <2>3, <2>4 DEF EntryOps
<1>7. CASE ApproveMark(g)
  <2>. DEFINE e == StorageEntryJSON(l.p)
              n == [l EXCEPT !.pc = "reread"]
  <2>1. /\ l.pc = "mark"
        /\ local' = [local EXCEPT ![g] = n]
        /\ pending' = [pending EXCEPT ![k] = e]
    BY <1>7 DEF ApproveMark, At, Continue, Put
  <2>2. /\ l.p.status = "approved" /\ l.p.cred = pending[k].cred
        /\ pending[k].status = "pending" /\ history[k].status # "expired"
    BY <1>2, <2>1 DEF Deciding
  <2>3. /\ e.status = "approved" /\ e.cred.kind # "empty"
        /\ minted[k] # {} => e.cred.kind = "secret"
    BY <1>1, <2>2, StoredAs DEF Settled
  <2>4. n.pc = "reread" /\ n.op = "approve" /\ n.id = k /\ n.p = l.p
    BY <1>0, <1>1 DEF Local
  <2>. HIDE DEF e, n
  <2>5. StageOf(k, e, Held(n, k), Exec(n, k)) \in {"open", "ready"}
    BY <2>3, <2>4 DEF StageOf, Held, Exec
  <2>6. Deciding(n, e) /\ Executing(n, e)
    BY <2>2, <2>3, <2>4 DEF Deciding, Executing
  <2>. QED
    BY <1>3, <1>4, <2>1, <2>3, <2>4, <2>5, <2>6 DEF EntryOps
<1>8. CASE ExecuteStore(g)
  <2>. DEFINE e == StorageEntryJSON(l.p)
  <2>1. /\ l.pc = "store"
        /\ local' = [local EXCEPT ![g] = IdleLocal]
        /\ pending' = [pending EXCEPT ![k] = e]
    BY <1>8 DEF ExecuteStore, At, Finish, Continue, Put
  <2>2. l.p.status = "approved"
    BY <1>2, <2>1 DEF Deciding
  <2>3. e.status = "approved" /\ e.cred.kind # "empty"
    BY <1>1, <2>2, StoredAs
  <2>4. StageOf(k, e, Held(IdleLocal, k), Exec(IdleLocal, k)) \in {"ready", "gone"}
    BY <1>5, <2>3 DEF StageOf
  <2>. HIDE DEF e
  <2>. QED
    BY <1>3, <1>4, <1>5, <2>1, <2>3, <2>4 DEF EntryOps
<1>9. CASE ApproveRollback(g)
  <2>. DEFINE p == [l.p EXCEPT !.status = "pending",
                               !.approvals = SubSeq(@, 1, Len(@) - 1)]
              e == StorageEntryJSON(p)
  <2>1. /\ l.pc = "rollback"
        /\ local' = [local EXCEPT ![g] = IdleLocal]
        /\ pending' = [pending EXCEPT ![k] = e]
    BY <1>9 DEF ApproveRollback, At, Finish, Continue, Put
  <2>2. minted[k] # {} => l.p.cred.kind = "secret"
    BY <1>2, <2>1 DEF Executing
  <2>3. p \in PendingRequest /\ p.status = "pending" /\ p.cred = l.p.cred
    <3>1. SubSeq(l.p.approvals, 1, Len(l.p.approvals) - 1) \in Seq(EntityIDs)
      BY <1>1, PrefixType DEF PendingRequest
    <3>. QED
      BY <1>1, <3>1 DEF PendingRequest
  <2>. HIDE DEF p
  <2>4. /\ e.status = "pending" /\ e.cred.kind # "empty"
        /\ minted[k] # {} => e.cred.kind = "secret"
    BY <2>2, <2>3, StoredAs
  <2>5. StageOf(k, e, Held(IdleLocal, k), Exec(IdleLocal, k)) = "open"
    BY <1>5, <2>4 DEF StageOf
  <2>. HIDE DEF e
  <2>. QED
    BY <1>3, <1>4, <1>5, <2>1, <2>4, <2>5 DEF EntryOps
<1>. QED
  BY <1>6, <1>7, <1>8, <1>9

LEMMA DenyMarkStep ==
  ASSUME TypeOK, HandlersInv, SequentialInv, NEW g \in Goroutines, Serves[g] # {}, Only(g),
         DenyMark(g)
  PROVE  SequentialInv' /\ \A j \in ReqIDs : AbstractStep(j)
<1>. DEFINE l == local[g]
            k == l.id
            e == StorageEntryJSON(l.p)
            n == [l EXCEPT !.pc = "log"]
<1>0. /\ l.op = "deny" /\ l.op \in EntryOps /\ l.pc = "deny"
      /\ local' = [local EXCEPT ![g] = n]
      /\ pending' = [pending EXCEPT ![k] = e]
      /\ UNCHANGED <<now, history, used, minted, delivered, denied>>
  BY DEF DenyMark, At, Continue, Put, observed, EntryOps
<1>1. /\ l \in Local /\ l.p \in PendingRequest
      /\ k \in ReqIDs /\ k \in used /\ Settled(k) /\ InCharge(l)
      /\ delivered[k] = <<>> /\ k \notin denied
  BY <1>0, AtEntry
<1>2. /\ pending[k].status = "pending" /\ l.p.status = "denied"
      /\ history[k].status # "expired"
  BY <1>0, <1>1 DEF InCharge, Deciding
<1>3. e.status = "denied" /\ e.cred.kind # "empty"
  BY <1>1, <1>2, StoredAs
<1>4. n.pc = "log" /\ n.op = "deny" /\ n.id = k
  BY <1>0, <1>1 DEF Local
<1>. HIDE DEF e, n
<1>5. Deciding(n, e) /\ Executing(n, e)
  BY <1>2, <1>3, <1>4 DEF Deciding, Executing
<1>6. /\ ~Held(l, k) /\ ~Exec(l, k) /\ ~Held(n, k) /\ ~Exec(n, k)
  BY <1>0, <1>4 DEF Held, Exec
<1>7. /\ StageOf(k, pending[k], Held(l, k), Exec(l, k)) = "open"
      /\ StageOf(k, e, Held(n, k), Exec(n, k)) = "denied"
  BY <1>2, <1>3, <1>6 DEF StageOf
<1>. QED
  BY <1>0, <1>1, <1>2, <1>3, <1>4, <1>5, <1>7, PutEntry DEF EntryOps

\* Of an entry that has lapsed only the deletion is tried; a credential is
\* blanked, then deleted, then handed out.
LEMMA FetchWrites ==
  ASSUME TypeOK, HandlersInv, SequentialInv, NEW g \in Goroutines, Serves[g] # {}, Only(g),
         FetchLapsed(g) \/ FetchBurn(g) \/ FetchDelete(g)
  PROVE  SequentialInv' /\ \A j \in ReqIDs : AbstractStep(j)
<1>. DEFINE l == local[g]
            k == l.id
            Done == SequentialInv' /\ \A j \in ReqIDs : AbstractStep(j)
<1>0. /\ l.op = "fetch" /\ l.op \in EntryOps
      /\ UNCHANGED <<now, history, used, minted, delivered, denied>>
  BY DEF FetchLapsed, FetchBurn, FetchDelete, At, observed, EntryOps
<1>1. /\ l \in Local /\ l.p \in PendingRequest
      /\ k \in ReqIDs /\ k \in used /\ Settled(k) /\ InCharge(l)
      /\ delivered[k] = <<>> /\ k \notin denied
  BY <1>0, AtEntry
<1>2. Fetching(l, pending[k]) /\ pending \in [ReqIDs -> PendingRequest]
  BY <1>0, <1>1 DEF InCharge, TypeOK
<1>3. ASSUME NEW n, local' = [local EXCEPT ![g] = n], n.pc # "idle", n.op = "fetch", n.id = k,
             NEW e, pending' = [pending EXCEPT ![k] = e], e.cred.kind # "empty",
             minted[k] # {} /\ e.status = "pending" => e.cred.kind = "secret",
             history[k].status = "expired" => Lapsed(e), Fetching(n, e),
             pending[k].status = "absent" => e.status = "absent",
             LET s == StageOf(k, pending[k], Held(l, k), Exec(l, k))
                 t == StageOf(k, e, Held(n, k), Exec(n, k))
             IN  t = s \/ t = "gone"
      PROVE  Done
  BY <1>0, <1>1, <1>3, PutEntry
<1>. SUFFICES Done
  OBVIOUS
<1>. HIDE DEF Done
<1>4. /\ NoRequest.status = "absent" /\ NoRequest.cred.kind = "nil" /\ Lapsed(NoRequest)
      /\ pending[k].cred.kind # "empty"
      /\ minted[k] # {} /\ pending[k].status = "pending" => pending[k].cred.kind = "secret"
      /\ history[k].status = "expired" => Lapsed(pending[k])
  BY <1>1 DEF NoRequest, NilData, Lapsed, Settled
<1>5. pending = [pending EXCEPT ![k] = pending[k]]
  BY <1>2
<1>6. CASE FetchLapsed(g)
  <2>. DEFINE n == [l EXCEPT !.pc = "log"]
  <2>1. /\ l.pc = "lapsed"
        /\ local' = [local EXCEPT ![g] = n]
        /\ Delete(k) \/ UNCHANGED pending
    BY <1>6 DEF FetchLapsed, At, Continue, Try
  <2>2. n.pc = "log" /\ n.op = "fetch" /\ n.id = k
    BY <1>0, <1>1 DEF Local
  <2>. HIDE DEF n
  <2>3. ~Held(n, k) /\ ~Exec(n, k) /\ ~Held(l, k) /\ ~Exec(l, k)
    BY <1>0, <2>1, <2>2 DEF Held, Exec
  <2>4. CASE Delete(k)
    <3>1. Fetching(n, NoRequest)
      BY <1>4, <2>2 DEF Fetching
    <3>2. StageOf(k, NoRequest, Held(n, k), Exec(n, k)) = "gone"
      BY <1>4, <2>3 DEF StageOf
    <3>3. pending' = [pending EXCEPT ![k] = NoRequest]
      BY <2>4 DEF Delete
    <3>. QED
      BY <1>3, <1>4, <2>1, <2>2, <3>1, <3>2, <3>3
  <2>5. CASE UNCHANGED pending
    <3>1. Fetching(n, pending[k])
      BY <1>2, <2>1, <2>2 DEF Fetching
    <3>2. StageOf(k, pending[k], Held(n, k), Exec(n, k))
            = StageOf(k, pending[k], Held(l, k), Exec(l, k))
      BY <2>3 DEF StageOf
    <3>3. pending' = [pending EXCEPT ![k] = pending[k]]
      BY <1>5, <2>5
    <3>. QED
      BY <1>3, <1>4, <2>1, <2>2, <3>1, <3>2, <3>3
  <2>. QED
    BY <2>1, <2>4, <2>5
<1>7. CASE FetchBurn(g)
  <2>. DEFINE n == [l EXCEPT !.pc = "burned"]
              p == [l.p EXCEPT !.cred = NilData]
              e == StorageEntryJSON(p)
  <2>1. /\ l.pc = "burn"
        /\ local' = [local EXCEPT ![g] = n]
        /\ Put(k, p) \/ UNCHANGED pending
    BY <1>7 DEF FetchBurn, At, Continue, Try
  <2>2. n.pc = "burned" /\ n.op = "fetch" /\ n.id = k /\ n.p = l.p
    BY <1>0, <1>1 DEF Local
  <2>. HIDE DEF n
  <2>3. /\ l.p.status = "approved" /\ history[k].status # "expired"
        /\ pending[k].status = "approved" /\ pending[k].cred.kind # "nil"
    BY <1>2, <2>1 DEF Fetching
  <2>4. /\ StageOf(k, pending[k], Held(l, k), Exec(l, k)) = "ready"
        /\ \A x : StageOf(k, x, Held(n, k), Exec(n, k)) = "ready"
    BY <2>2, <2>3 DEF StageOf, Held
  <2>5. \A x : x.status = "approved" => Fetching(n, x)
    BY <2>2, <2>3 DEF Fetching
  <2>6. CASE Put(k, p)
    <3>1. p \in PendingRequest /\ p.status = "approved"
      BY <1>1, <2>3 DEF PendingRequest, NilData, CredentialData
    <3>. HIDE DEF p
    <3>2. e.status = "approved" /\ e.cred.kind # "empty"
      BY <3>1, StoredAs
    <3>3. pending' = [pending EXCEPT ![k] = e]
      BY <2>6 DEF Put
    <3>. HIDE DEF e
    <3>. QED
      BY <1>3, <2>1, <2>2, <2>3, <2>4, <2>5, <3>2, <3>3
  <2>7. CASE UNCHANGED pending
    <3>1. pending' = [pending EXCEPT ![k] = pending[k]]
      BY <1>5, <2>7
    <3>. QED
      BY <1>3, <1>4, <2>1, <2>2, <2>3, <2>4, <2>5, <3>1
  <2>. QED
    BY <2>1, <2>6, <2>7
<1>8. CASE FetchDelete(g)
  <2>. DEFINE n == [l EXCEPT !.pc = "respond"]
  <2>1. /\ l.pc = "burned"
        /\ local' = [local EXCEPT ![g] = n]
        /\ pending' = [pending EXCEPT ![k] = NoRequest]
    BY <1>8 DEF FetchDelete, At, Continue, Delete
  <2>2. n.pc = "respond" /\ n.op = "fetch" /\ n.id = k /\ n.p = l.p
    BY <1>0, <1>1 DEF Local
  <2>. HIDE DEF n
  <2>3. l.p.status = "approved" /\ history[k].status # "expired"
    BY <1>2, <2>1 DEF Fetching
  <2>4. /\ StageOf(k, pending[k], Held(l, k), Exec(l, k)) = "ready"
        /\ StageOf(k, NoRequest, Held(n, k), Exec(n, k)) = "ready"
    BY <1>0, <2>1, <2>2 DEF StageOf, Held
  <2>5. Fetching(n, NoRequest)
    BY <1>4, <2>2, <2>3 DEF Fetching
  <2>. QED
    BY <1>3, <1>4, <2>1, <2>2, <2>3, <2>4, <2>5
<1>. QED
  BY <1>6, <1>7, <1>8

-----------------------------------------------------------------------------
(* Handlers of one entry: what is executed, logged, delivered and parked   *)

LEMMA ExecuteOnce ==
  ASSUME TypeOK, HandlersInv, SequentialInv, NEW g \in Goroutines, Serves[g] # {}, Only(g),
         NEW kind \in {"secret", "error", "empty"}, Execute(g, kind)
  PROVE  SequentialInv' /\ \A j \in ReqIDs : AbstractStep(j)
<1>. DEFINE l == local[g]
            data == [kind |-> kind, serial |-> IF kind = "secret" THEN serial + 1 ELSE 0]
<1>1. PICK k : k = local[g].id
  OBVIOUS
<1>2. PICK n : n = [l EXCEPT !.pc = "store", !.p = WithCredential(l.p, data, now)]
  OBVIOUS
<1>3. /\ l.op = "approve" /\ l.op \in EntryOps /\ l.pc = "execute"
      /\ local' = [local EXCEPT ![g] = n]
      /\ UNCHANGED <<now, pending, history, used, delivered, denied>>
      /\ \/ minted' = minted
         \/ kind = "secret" /\ \E m : minted' = [minted EXCEPT ![k] = @ \cup {m}]
  BY <1>1, <1>2 DEF Execute, At, Continue, storage, EntryOps
<1>4. /\ l \in Local /\ l.p \in PendingRequest
      /\ k \in ReqIDs /\ k \in used /\ Settled(k) /\ Once(k) /\ InCharge(l)
      /\ delivered[k] = <<>> /\ k \notin denied
  BY <1>1, <1>3, AtEntry
<1>5. Deciding(l, pending[k]) /\ Executing(l, pending[k])
  BY <1>1, <1>3, <1>4 DEF InCharge
<1>6. /\ l.p.status = "approved" /\ history[k].status # "expired"
      /\ pending[k].status = "approved" /\ pending[k].cred.kind = "nil"
      /\ minted[k] = {}
  BY <1>1, <1>3, <1>5 DEF Deciding, Executing
<1>7. /\ n.pc = "store" /\ n.op = "approve" /\ n.id = k
      /\ n.p.status = "approved" /\ n.p.cred.kind = kind
  BY <1>1, <1>2, <1>3, <1>4, <1>6 DEF Local, PendingRequest, WithCredential
<1>8. /\ minted'[k] = {} \/ (kind = "secret" /\ \E m : minted'[k] = {m})
      /\ LeavesOthers(k)
  <2>1. CASE minted' = minted
    BY <1>3, <1>6, <2>1 DEF LeavesOthers
  <2>2. ASSUME NEW m, kind = "secret", minted' = [minted EXCEPT ![k] = @ \cup {m}]
        PROVE  /\ minted'[k] = {m} /\ kind = "secret"
               /\ LeavesOthers(k)
    BY <1>3, <1>4, <1>6, <2>2 DEF TypeOK, LeavesOthers
  <2>. QED
    BY <1>3, <2>1, <2>2
<1>9. Settled(k)'
  <2>1. Lapsed(pending[k]) <=> Lapsed(pending[k])'
    BY <1>3 DEF Lapsed
  <2>. QED
    BY <1>3, <1>4, <1>6, <2>1 DEF Settled
<1>10. Once(k)'
  BY <1>3, <1>4, <1>8 DEF Once
<1>11. InCharge(n)'
  <2>1. Deciding(n, pending[n.id])' /\ Executing(n, pending[n.id])'
    BY <1>3, <1>6, <1>7, <1>8 DEF Deciding, Executing
  <2>. QED
    BY <1>3, <1>4, <1>7, <2>1 DEF InCharge
<1>12. /\ SequentialInv' /\ Only(g)' /\ local'[g] = n
       /\ \A j \in ReqIDs : j # k => AbstractStep(j)
  BY <1>1, <1>3, <1>4, <1>7, <1>8, <1>9, <1>10, <1>11, EntryStep
<1>13. /\ ~Held(l, k) /\ Exec(l, k) /\ ~Held(n, k) /\ Exec(n, k)
  BY <1>1, <1>3, <1>7 DEF Held, Exec
<1>14. Stage(k) = "open" /\ Stage(k)' = "open"
  BY <1>3, <1>4, <1>6, <1>12, <1>13, StageValue, StageValueNext DEF StageOf
<1>15. AbstractStep(k)
  BY <1>3, <1>4, <1>6, <1>8, <1>14, AbstractSteps
<1>. QED
  BY <1>12, <1>15

\* The end of a handler: a history entry is put, a denial reported, a
\* credential handed out.
LEMMA LastSteps ==
  ASSUME TypeOK, HandlersInv, SequentialInv, NEW g \in Goroutines, Serves[g] # {}, Only(g),
         DenyLog(g) \/ FetchLog(g) \/ FetchRespond(g)
  PROVE  SequentialInv' /\ \A j \in ReqIDs : AbstractStep(j)
<1>. DEFINE l == local[g]
<1>1. PICK k : k = local[g].id
  OBVIOUS
<1>2. /\ l.op \in EntryOps
      /\ local' = [local EXCEPT ![g] = IdleLocal]
      /\ UNCHANGED <<now, pending, used, minted>>
  BY DEF DenyLog, FetchLog, FetchRespond, At, Finish, Continue, storage, observed, EntryOps
<1>3. /\ k \in ReqIDs /\ k \in used /\ Settled(k) /\ Once(k) /\ InCharge(l)
      /\ delivered[k] = <<>> /\ k \notin denied
  BY <1>1, <1>2, AtEntry
<1>4. /\ IdleLocal.pc = "idle" /\ IdleLocal.op = "none" /\ InCharge(IdleLocal)'
      /\ ~Held(IdleLocal, k) /\ ~Exec(IdleLocal, k)
  BY DEF IdleLocal, Held, Exec, InCharge
<1>5. ASSUME NEW status, NEW by, Log(k, status, by)
      PROVE  /\ \A j \in ReqIDs : j # k => history'[j] = history[j]
             /\ history'[k] = history[k] \/ history'[k].status = status
  <2>1. HistoryEntry(status, by, now).status = status
    BY DEF HistoryEntry
  <2>. QED
    BY <1>3, <1>5, <2>1 DEF Log, Try, TypeOK
<1>6. Lapsed(pending[k]) <=> Lapsed(pending[k])'
  BY <1>2 DEF Lapsed
<1>. HIDE DEF IdleLocal
<1>7. CASE DenyLog(g)
  <2>1. /\ l.op = "deny" /\ l.pc = "log" /\ denied' = denied \cup {k} /\ delivered' = delivered
        /\ \A j \in ReqIDs : j # k => history'[j] = history[j]
        /\ history'[k] = history[k] \/ history'[k].status = "denied"
    BY <1>1, <1>5, <1>7 DEF DenyLog, At
  <2>2. pending[k].status = "denied" /\ history[k].status # "expired"
    BY <1>1, <1>3, <2>1 DEF InCharge, Deciding
  <2>3. LeavesOthers(k)
    BY <1>2, <2>1 DEF LeavesOthers
  <2>4. Settled(k)' /\ Once(k)'
    BY <1>2, <1>3, <2>1, <2>2 DEF Settled, Once
  <2>5. /\ SequentialInv' /\ Only(g)' /\ local'[g] = IdleLocal
        /\ \A j \in ReqIDs : j # k => AbstractStep(j)
    BY <1>1, <1>2, <1>3, <1>4, <2>3, <2>4, EntryStep DEF EntryOps
  <2>6. ~Held(l, k) /\ ~Exec(l, k)
    BY <2>1 DEF Held, Exec
  <2>7. Stage(k)' = Stage(k)
    BY <1>2, <1>3, <1>4, <2>1, <2>5, <2>6, StageValue, StageValueNext DEF StageOf
  <2>. QED
    BY <1>2, <1>3, <2>1, <2>5, <2>7, AbstractSteps
<1>8. CASE FetchLog(g)
  <2>1. /\ l.op = "fetch" /\ l.pc = "log" /\ denied' = denied /\ delivered' = delivered
        /\ \A j \in ReqIDs : j # k => history'[j] = history[j]
        /\ history'[k] = history[k] \/ history'[k].status = "expired"
    BY <1>1, <1>5, <1>8 DEF FetchLog, At, observed
  <2>2. Lapsed(pending[k])
    BY <1>1, <1>3, <2>1 DEF InCharge, Fetching
  <2>3. LeavesOthers(k)
    BY <1>2, <2>1 DEF LeavesOthers
  <2>4. Settled(k)' /\ Once(k)'
    BY <1>2, <1>3, <1>6, <2>1, <2>2 DEF Settled, Once
  <2>5. /\ SequentialInv' /\ Only(g)' /\ local'[g] = IdleLocal
        /\ \A j \in ReqIDs : j # k => AbstractStep(j)
    BY <1>1, <1>2, <1>3, <1>4, <2>3, <2>4, EntryStep DEF EntryOps
  <2>6. ~Held(l, k) /\ ~Exec(l, k)
    BY <2>1 DEF Held, Exec
  <2>7. Stage(k)' = Stage(k)
    BY <1>2, <1>3, <1>4, <2>1, <2>5, <2>6, StageValue, StageValueNext DEF StageOf
  <2>. QED
    BY <1>2, <1>3, <2>1, <2>5, <2>7, AbstractSteps
<1>9. CASE FetchRespond(g)
  <2>1. PICK d : delivered' = [delivered EXCEPT ![k] = Append(@, d)]
    BY <1>1, <1>9 DEF FetchRespond
  <2>2. l.op = "fetch" /\ l.pc = "answer" /\ denied' = denied /\ history' = history
    BY <1>9 DEF FetchRespond, At, storage
  <2>3. /\ \A j \in ReqIDs : j # k => delivered'[j] = delivered[j]
        /\ delivered'[k] = <<d>>
    BY <1>3, <2>1 DEF TypeOK
  <2>4. pending[k].status = "absent" /\ history[k].status \notin {"expired", "denied"}
    BY <1>1, <1>3, <2>2 DEF InCharge, Fetching, Settled
  <2>5. LeavesOthers(k)
    BY <1>2, <2>2, <2>3 DEF LeavesOthers
  <2>6. Len(delivered'[k]) = 1 /\ delivered'[k] # <<>>
    BY <2>3
  <2>7. Settled(k)' /\ Once(k)'
    BY <1>2, <1>3, <1>6, <2>2, <2>4, <2>6 DEF Settled, Once
  <2>8. /\ SequentialInv' /\ Only(g)' /\ local'[g] = IdleLocal
        /\ \A j \in ReqIDs : j # k => AbstractStep(j)
    BY <1>1, <1>2, <1>3, <1>4, <2>5, <2>7, EntryStep DEF EntryOps
  <2>9. Held(l, k)
    BY <1>1, <2>2 DEF Held
  <2>10. Stage(k) = "ready" /\ Stage(k)' = "delivered"
    BY <1>2, <1>3, <2>6, <2>8, <2>9, StageValue, StageValueNext DEF StageOf
  <2>. QED
    BY <1>2, <1>3, <2>6, <2>8, <2>10, AbstractSteps
<1>. QED
  BY <1>7, <1>8, <1>9

\* The record of a retrieval, before the answer.
LEMMA RetrievedStep ==
  ASSUME TypeOK, HandlersInv, SequentialInv, NEW g \in Goroutines, Serves[g] # {}, Only(g),
         FetchRetrieved(g)
  PROVE  SequentialInv' /\ \A j \in ReqIDs : AbstractStep(j)
<1>. DEFINE l == local[g]
<1>1. PICK k : k = local[g].id
  OBVIOUS
<1>2. PICK n : n = [l EXCEPT !.pc = "answer"]
  OBVIOUS
<1>3. /\ l.op = "fetch" /\ l.op \in EntryOps /\ l.pc = "respond"
      /\ local' = [local EXCEPT ![g] = n]
      /\ Log(k, "retrieved", LastApprover(l.p))
      /\ UNCHANGED <<now, pending, used, minted, delivered, denied>>
  BY <1>1, <1>2 DEF FetchRetrieved, At, Continue, observed, EntryOps
<1>4. /\ l \in Local /\ k \in ReqIDs /\ k \in used /\ Settled(k) /\ Once(k) /\ InCharge(l)
      /\ delivered[k] = <<>> /\ k \notin denied
  BY <1>1, <1>3, AtEntry
<1>5. /\ n.pc = "answer" /\ n.op = "fetch" /\ n.id = k /\ n.p = l.p
  BY <1>1, <1>2, <1>3, <1>4 DEF Local
<1>6. /\ \A j \in ReqIDs : j # k => history'[j] = history[j]
      /\ history'[k] = history[k] \/ history'[k].status = "retrieved"
  <2>1. HistoryEntry("retrieved", LastApprover(l.p), now).status = "retrieved"
    BY DEF HistoryEntry
  <2>. QED
    BY <1>3, <1>4, <2>1 DEF Log, Try, TypeOK
<1>7. /\ pending[k].status = "absent" /\ l.p.status = "approved"
      /\ history[k].status \notin {"expired", "denied"}
  BY <1>1, <1>3, <1>4 DEF InCharge, Fetching, Settled
<1>8. LeavesOthers(k)
  BY <1>3, <1>6 DEF LeavesOthers
<1>9. Settled(k)' /\ Once(k)'
  BY <1>3, <1>4, <1>6, <1>7 DEF Settled, Once
<1>10. InCharge(n)'
  <2>1. Fetching(n, pending[n.id])'
    BY <1>3, <1>5, <1>6, <1>7 DEF Fetching
  <2>. QED
    BY <1>3, <1>4, <1>5, <2>1 DEF InCharge
<1>11. /\ SequentialInv' /\ Only(g)' /\ local'[g] = n
       /\ \A j \in ReqIDs : j # k => AbstractStep(j)
  BY <1>1, <1>3, <1>4, <1>5, <1>8, <1>9, <1>10, EntryStep
<1>12. Held(l, k) /\ Held(n, k)
  BY <1>1, <1>3, <1>5 DEF Held
<1>13. Stage(k) = "ready" /\ Stage(k)' = "ready"
  BY <1>3, <1>4, <1>11, <1>12, StageValue, StageValueNext DEF StageOf
<1>14. AbstractStep(k)
  BY <1>3, <1>4, <1>13, AbstractSteps
<1>. QED
  BY <1>11, <1>14

LEMMA ParkStoreOnce ==
  ASSUME TypeOK, HandlersInv, SequentialInv, NEW g \in Goroutines, Serves[g] # {}, Only(g),
         ParkStore(g)
  PROVE  SequentialInv' /\ \A j \in ReqIDs : AbstractStep(j)
<1>. DEFINE l == local[g]
<1>1. PICK k \in ReqIDs \ used : /\ Put(k, NewPending(l.rid, l.path, l.caller, now))
                                 /\ used' = used \cup {k}
  BY DEF ParkStore
<1>2. /\ local' = [local EXCEPT ![g] = IdleLocal] /\ l.op = "park"
      /\ UNCHANGED <<now, history, minted, delivered, denied>>
  BY DEF ParkStore, Finish, Continue, At
<1>3. /\ pending'[k].status = "pending" /\ pending'[k].cred.kind = "nil"
      /\ \A j \in ReqIDs : j # k => pending'[j] = pending[j]
  <2>1. LET p == NewPending(l.rid, l.path, l.caller, now) IN
        p.status = "pending" /\ p.cred.kind = "nil"
    BY DEF NewPending, NilData
  <2>. QED
    BY <1>1, <2>1 DEF Put, StorageEntryJSON, TypeOK
<1>4. minted[k] = {} /\ delivered[k] = <<>>
  BY <1>1 DEF HandlersInv
<1>5. k \notin denied /\ history[k].status = "absent"
  BY <1>1 DEF SequentialInv, Settled
<1>6. Settled(k)' /\ Once(k)'
  BY <1>2, <1>3, <1>4, <1>5 DEF Settled, Once
<1>7. LeavesOthers(k)
  BY <1>1, <1>2, <1>3 DEF LeavesOthers
<1>8. /\ IdleLocal.pc = "idle" /\ IdleLocal.op = "none" /\ InCharge(IdleLocal)'
      /\ ~Held(IdleLocal, k) /\ ~Exec(IdleLocal, k)
  BY DEF IdleLocal, Held, Exec, InCharge
<1>. HIDE DEF IdleLocal
<1>9. /\ SequentialInv' /\ Only(g)' /\ local'[g] = IdleLocal
      /\ \A j \in ReqIDs : j # k => AbstractStep(j)
  BY <1>1, <1>2, <1>6, <1>7, <1>8, EntryStep DEF EntryOps
<1>10. Stage(k) = "unborn" /\ Stage(k)' = "open"
  <2>1. k \notin used /\ k \in used'
    BY <1>1
  <2>. QED
    BY <1>2, <1>3, <1>4, <1>8, <1>9, <2>1, StageValue, StageValueNext DEF StageOf
<1>11. AbstractStep(k)
  BY <1>1, <1>2, <1>10, AbstractSteps
<1>. QED
  BY <1>9, <1>11

-----------------------------------------------------------------------------
(* The clock, stuttering, and all steps together                           *)

LEMMA IdleKeeps ==
  ASSUME TypeOK, HandlersInv, SequentialInv, Tick \/ UNCHANGED vars
  PROVE  SequentialInv' /\ \A id \in ReqIDs : AbstractStep(id)
<1>1. /\ now' \in Nat /\ now' >= now
      /\ UNCHANGED <<pending, history, used, local, minted, delivered, denied>>
  BY DEF Tick, vars, storage, observed, TypeOK
<1>2. \A id \in ReqIDs : Settled(id)' /\ Once(id)'
  BY <1>1, StaysSettled
<1>3. ASSUME NEW g \in Goroutines PROVE InCharge(local[g])'
  <2>. DEFINE l == local[g]
  <2>1. InCharge(l) /\ l.op = "fetch" => l.id \in ReqIDs
    BY DEF SequentialInv, HandlersInv, LocalSound
  <2>2. l.op \in {"approve", "deny"} => (Deciding(l, pending[l.id]) /\ Executing(l, pending[l.id]))'
    BY <1>1, <2>1 DEF InCharge, Deciding, Executing, SequentialInv
  <2>3. l.op = "fetch" => Fetching(l, pending[l.id])'
    <3>. SUFFICES ASSUME l.op = "fetch" PROVE Fetching(l, pending[l.id])'
      BY <1>1
    <3>1. Fetching(l, pending[l.id]) /\ l.id \in ReqIDs
      BY <2>1 DEF InCharge, SequentialInv
    <3>2. Lapsed(pending[l.id]) => Lapsed(pending[l.id])'
      BY <1>1, <3>1, LapsedStays
    <3>. QED
      BY <1>1, <3>1, <3>2 DEF Fetching
  <2>. QED
    BY <1>1, <2>2, <2>3 DEF InCharge, SequentialInv
<1>4. SingleExecution' /\ DeliveredOnce' /\ HistoryTruthful'
  BY <1>2 DEF SingleExecution, DeliveredOnce, HistoryTruthful, Once
<1>5. SequentialInv'
  BY <1>1, <1>2, <1>3, <1>4 DEF SequentialInv
<1>6. ASSUME NEW id \in ReqIDs PROVE AbstractStep(id)
  <2>1. Stage(id)' = Stage(id)
    BY <1>1 DEF Stage, HeldBy, ExecutedBy
  <2>. QED
    BY <1>1, <2>1, AbstractSteps
<1>. QED
  BY <1>5, <1>6

LEMMA SequentialInit == Init => SequentialInv
<1>. SUFFICES ASSUME Init PROVE SequentialInv
  OBVIOUS
<1>1. /\ IdleLocal.pc = "idle" /\ IdleLocal.op = "none" /\ InCharge(IdleLocal)
  BY DEF IdleLocal, InCharge
<1>2. NoRequest.status = "absent" /\ NoRequest.cred.kind = "nil" /\ NoHistory.status = "absent"
  BY DEF NoRequest, NilData, NoHistory
<1>3. \A id \in ReqIDs : Settled(id)
  BY <1>2 DEF Init, Settled
<1>4. SingleExecution /\ DeliveredOnce /\ HistoryTruthful
  BY <1>2 DEF Init, SingleExecution, DeliveredOnce, HistoryTruthful
<1>5. \A g \in Goroutines : local[g] = IdleLocal
  BY DEF Init
<1>. QED
  BY <1>1, <1>3, <1>4, <1>5 DEF SequentialInv

LEMMA SequentialNext ==
  ASSUME Sequential, TypeOK, HandlersInv, SequentialInv, [Next]_vars
  PROVE  SequentialInv' /\ \A id \in ReqIDs : AbstractStep(id)
<1>. DEFINE Done == SequentialInv' /\ \A id \in ReqIDs : AbstractStep(id)
<1>1. ASSUME NEW g \in Goroutines, Step(g) PROVE Done
  <2>0. Serves[g] # {} /\ Only(g)
    BY <1>1, StepServes, OneAtWork
  <2>1. CASE \/ \E r \in RuleIDs : SweepList(g, r) \/ \E w \in RuleWrites : RuleGet(g, r, w)
             \/ \E c \in Callers : \/ \E path \in Paths : ParkList(g, c, path)
                                   \/ ApprovableList(g, c)
                                   \/ MyRequestsList(g, c)
                                   \/ \E id \in ReqIDs : PendingRead(g, c, id)
    BY <2>0, <2>1, BeginSteps
  <2>2. CASE \E c \in Callers, id \in ReqIDs :
               \/ \E op \in {"approve", "deny"} : DecideGet(g, c, id, op)
               \/ FetchGet(g, c, id)
    BY <2>0, <2>2, DecideGetMove, FetchGetMove
  <2>3. CASE \E c \in Callers : HistoryRead(g, c)
    BY <2>0, <2>3, HistoryReadStep
  <2>4. CASE RulePut(g) \/ DecideRemove(g) \/ SweepDelete(g) \/ MyRequestsHistory(g) \/ Return(g)
    BY <2>0, <2>4, EndSteps
  <2>5. CASE DecideNoRule(g) \/ ApproveRule(g) \/ DenyRule(g)
    BY <2>0, <2>5, DecideMoves
  <2>6. CASE Approve(g)
    BY <2>0, <2>5, <2>6, ApproveWrites, ExecuteMoves, ExecuteOnce DEF Approve
  <2>7. CASE DenyMark(g) \/ DenyLog(g) \/ FetchLog(g) \/ FetchRespond(g)
    BY <2>0, <2>7, DenyMarkStep, LastSteps
  <2>8. CASE Fetch(g)
    BY <2>0, <2>7, <2>8, FetchWrites, RetrievedStep DEF Fetch
  <2>9. CASE ParkMatch(g) \/ ParkScan(g) \/ ScanGet(g) \/ ScanDrop(g)
    BY <2>0, <2>9, ScanAway
  <2>10. CASE ParkStore(g)
    BY <2>0, <2>10, ParkStoreOnce
  <2>. HIDE DEF Done
  <2>. QED
    BY <1>1, <2>1, <2>2, <2>3, <2>4, <2>5, <2>6, <2>7, <2>8, <2>9, <2>10 DEF Step, Scan
<1>. QED
  BY <1>1, IdleKeeps DEF Next

LEMMA SequentialCorrect ==
  ASSUME Sequential
  PROVE  Spec => []SequentialInv
<1>1. TypeOK /\ HandlersInv /\ SequentialInv /\ [Next]_vars => SequentialInv'
  BY SequentialNext
<1>. QED
  BY <1>1, SequentialInit, HandlersCorrect, PTL DEF Spec

\* While one goroutine serves, executeApprovedRequest obtains at most one
\* secret per request: not when its put fails and the entry is rolled back and
\* approved again, and not when the handler dies anywhere in between.
THEOREM ExecutedOnce ==
  ASSUME Sequential
  PROVE  Spec => []SingleExecution
<1>1. SequentialInv => SingleExecution
  BY DEF SequentialInv
<1>. QED
  BY <1>1, SequentialCorrect, PTL

\* While one goroutine serves, handleApprovalFetch hands a credential out at
\* most once, whether the put of the tombstone fails or the handler dies
\* between burning and answering.
THEOREM HandedOutOnce ==
  ASSUME Sequential
  PROVE  Spec => []DeliveredOnce
<1>1. SequentialInv => DeliveredOnce
  BY DEF SequentialInv
<1>. QED
  BY <1>1, SequentialCorrect, PTL

\* While one goroutine serves, a denial that handleApprovalDeny reported is
\* never undone: the entry stays denied until it is swept with its rule.
THEOREM DenialsHonoured ==
  ASSUME Sequential
  PROVE  Spec => []DenyHonoured
<1>1. TypeOK /\ SequentialInv => DenyHonoured
  BY DEF TypeOK, SequentialInv, Settled, DenyHonoured
<1>. QED
  BY <1>1, SequentialCorrect, HandlersCorrect, PTL

\* While one goroutine serves, a request that the audit trail calls "retrieved"
\* can be neither decided nor fetched again, and one that it calls "denied" or
\* "expired" was never handed out, although a history entry is put after the
\* entry it is about has changed, its put may fail, and the handler may die
\* before it answers.
THEOREM TruthfulHistory ==
  ASSUME Sequential
  PROVE  Spec => []HistoryTruthful
<1>1. SequentialInv => HistoryTruthful
  BY DEF SequentialInv
<1>. QED
  BY <1>1, SequentialCorrect, PTL

\* While one goroutine serves, the handlers implement the life cycle of a
\* request, storage call by storage call: no failed call and no crash between
\* two of them lets a request be executed or delivered twice or come back.
THEOREM LifecycleImplemented ==
  ASSUME Sequential
  PROVE  Spec => ImplementsLifecycle
<1>1. Init => Lifecycle!Init
  <2>. SUFFICES ASSUME Init PROVE Lifecycle!Init
    OBVIOUS
  <2>1. \A id \in ReqIDs : Stage(id) = "unborn"
    BY DEF Init, Stage
  <2>. QED
    BY <2>1 DEF Init, Lifecycle!Init
<1>2. TypeOK /\ HandlersInv /\ SequentialInv /\ [Next]_vars
        => [Lifecycle!Next]_(Lifecycle!lifecycle)
  <2>. SUFFICES ASSUME TypeOK, HandlersInv, SequentialInv, [Next]_vars, NEW id \in ReqIDs
                PROVE  AbstractStep(id)
    BY DEF Lifecycle!Next, AbstractStep
  <2>. QED
    BY SequentialNext
<1>. QED
  BY <1>1, <1>2, SequentialCorrect, HandlersCorrect, PTL
     DEF Spec, ImplementsLifecycle, Lifecycle!Spec

=============================================================================
