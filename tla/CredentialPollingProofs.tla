---------------------- MODULE CredentialPollingProofs ----------------------
(***************************************************************************)
(* Proofs about CredentialPolling.  Every step of the page is a step of the *)
(* handlers or leaves them alone, so what ApprovalHandlersProofs shows of   *)
(* them holds under a page too; DecisionInv and PageInv add what a denial   *)
(* that the page shows rests on.                                            *)
(***************************************************************************)
EXTENDS CredentialPolling, ApprovalHandlersProofs

-----------------------------------------------------------------------------
(* The page keeps its shape                                                *)

LEMMA NilType == NilData \in CredentialData
BY DEF NilData, CredentialData

LEMMA ReportedType ==
  ASSUME NEW p \in PendingRequest
  PROVE  /\ Reported(p) \in Answers
         /\ Reported(p) = "denied" => p.status = "denied"
<1>1. p.status \in {"absent", "pending", "approved", "denied"}
  BY DEF PendingRequest
<1>2. MayFetch(User, p) \in BOOLEAN
  BY UserAssumption, CallerAssumption DEF MayFetch
<1>3. CASE p.status = "absent"
  BY <1>3 DEF Reported, Answers
<1>4. CASE p.status # "absent" /\ ~MayFetch(User, p)
  BY <1>4 DEF Reported, Answers
<1>5. CASE p.status # "absent" /\ MayFetch(User, p)
  BY <1>1, <1>5 DEF Reported, Answers
<1>. QED
  BY <1>3, <1>4, <1>5

LEMMA ProcessedPage ==
  ASSUME PageType, NEW a, a.at \in Answers, a.cred \in CredentialData
  PROVE  /\ Processed(page, a) \in
              [state : {"form", "polling", "stopped", "left"}, id : Nat,
               resolvedCred : CredentialData,
               pollError : {"none", "denied", "expired", "not found", "forbidden"}]
         /\ Processed(page, a).id = page.id
         /\ Processed(page, a).state = "form" <=> page.state = "form"
         /\ Processed(page, a).pollError = "denied" =>
              page.pollError = "denied" \/ a.at = "denied"
BY DEF PageType, Answers, Processed, stopPolling, Error

\* What a step of the page is to the handlers.
LEMMA HandlerStep ==
  ASSUME TypeOK, PageAt, [UINext]_uiVars
  PROVE  [Next]_vars
<1>1. \A g \in Connections : g \in Goroutines
  BY ConnectionAssumption
<1>2. CASE UNCHANGED uiVars
  BY <1>2 DEF uiVars
<1>3. CASE Tick \/ \E g \in Goroutines \ Connections : Step(g)
  BY <1>3 DEF Next
<1>4. CASE Leave \/ \E id \in ReqIDs : startPolling(id)
  BY <1>4 DEF Leave, startPolling
<1>5. ASSUME NEW g \in Connections, TimerFires(g) \/ PollAnswered(g) \/ PollReport(g)
      PROVE  UNCHANGED vars
  BY <1>5 DEF TimerFires, PollAnswered, PollReport
<1>6. ASSUME NEW g \in Connections, PollGet(g) PROVE Step(g)
  <2>1. page.id \in ReqIDs /\ User \in Callers
    BY <1>6, UserAssumption DEF PollGet, PageAt, TypeOK
  <2>. QED
    BY <1>6, <2>1 DEF PollGet, Step
<1>7. ASSUME NEW g \in Connections, PollBurn(g) \/ PollExpired(g) \/ PollRespond(g)
      PROVE  Step(g)
  BY <1>7 DEF PollBurn, PollExpired, PollRespond, Step, Fetch
<1>8. ASSUME NEW g \in Connections, PollFails(g)
      PROVE  Step(g) \/ UNCHANGED vars
  BY <1>8 DEF PollFails, Step
<1>. QED
  BY <1>1, <1>2, <1>3, <1>4, <1>5, <1>6, <1>7, <1>8 DEF UINext, Serve, Next

LEMMA UsedGrows ==
  ASSUME [Next]_vars
  PROVE  used \subseteq used'
<1>1. ASSUME NEW g \in Goroutines, Step(g) PROVE used \subseteq used'
  <2>1. CASE \E r \in RuleIDs : SweepList(g, r) \/ \E w \in RuleWrites : RuleGet(g, r, w)
    BY <2>1 DEF SweepList, RuleGet
  <2>2. CASE \E c \in Callers, id \in ReqIDs :
               \/ \E op \in {"approve", "deny"} : DecideGet(g, c, id, op)
               \/ FetchGet(g, c, id)
               \/ PendingRead(g, c, id)
    BY <2>2 DEF DecideGet, FetchGet, PendingRead
  <2>3. CASE \E c \in Callers : \/ \E path \in Paths : ParkList(g, c, path)
                                \/ ApprovableList(g, c)
                                \/ MyRequestsList(g, c)
                                \/ HistoryRead(g, c)
    BY <2>3 DEF ParkList, ApprovableList, MyRequestsList, HistoryRead
  <2>4. CASE RulePut(g) \/ DecideNoRule(g) \/ DecideRemove(g) \/ Return(g)
    BY <2>4 DEF RulePut, DecideNoRule, DecideRemove, Return
  <2>5. CASE Approve(g) \/ DenyRule(g) \/ DenyMark(g) \/ DenyLog(g)
    BY <2>5 DEF Approve, ApproveRule, ApproveVote, ApproveMark, ApproveReread, Execute,
                ExecuteStore, ExecuteFailed, ApproveRollback, DenyRule, DenyMark, DenyLog
  <2>6. CASE Fetch(g)
    BY <2>6 DEF Fetch, FetchLapsed, FetchLog, FetchBurn, FetchDelete, FetchRetrieved,
                FetchRespond
  <2>7. CASE ParkMatch(g) \/ ParkScan(g) \/ ParkStore(g)
    BY <2>7 DEF ParkMatch, ParkScan, ParkStore
  <2>8. CASE Scan(g)
    BY <2>8 DEF Scan, ScanGet, ScanDrop, SweepDelete, MyRequestsHistory
  <2>. QED
    BY <1>1, <2>1, <2>2, <2>3, <2>4, <2>5, <2>6, <2>7, <2>8 DEF Step
<1>. QED
  BY <1>1 DEF Next, Tick, vars

LEMMA PageStep ==
  ASSUME TypeOK, PageType, PageAt, [UINext]_uiVars
  PROVE  PageType' /\ PageAt'
<1>0. used \subseteq used'
  BY HandlerStep, UsedGrows
<1>1. CASE UNCHANGED ui
  BY <1>0, <1>1 DEF ui, PageType, PageAt
<1>2. ASSUME NEW id \in ReqIDs, startPolling(id) PROVE PageType' /\ PageAt'
  <2>1. /\ page' = [BlankPage EXCEPT !.state = "polling", !.id = id]
        /\ UNCHANGED <<call, failures>> /\ id \in used /\ id \in Nat
    BY <1>2, IDAssumption DEF startPolling
  <2>. QED
    BY <1>0, <2>1, NilType DEF BlankPage, PageType, PageAt
<1>3. CASE Leave
  BY <1>0, <1>3 DEF Leave, PageType, PageAt
<1>4. ASSUME NEW g \in Connections, NEW a, call' = [call EXCEPT ![g] = a],
             a \in [at : {"none", "sent", "served"} \cup Answers, cred : CredentialData],
             page.state # "form" \/ a.at = "none",
             failures' \in 0..MaxFailures,
             UNCHANGED page
      PROVE  PageType' /\ PageAt'
  BY <1>0, <1>4 DEF PageType, PageAt
<1>5. ASSUME NEW at \in {"none", "sent", "served"} \cup Answers, NEW cred \in CredentialData
      PROVE  /\ Answer(at, cred) \in [at : {"none", "sent", "served"} \cup Answers,
                                      cred : CredentialData]
             /\ Answer(at, cred).at = at
  BY <1>5 DEF Answer
<1>6. ASSUME NEW g \in Connections, TimerFires(g) \/ PollGet(g) \/ PollFails(g)
      PROVE  PageType' /\ PageAt'
  <2>1. PICK at \in {"sent", "served", "network"} : call' = [call EXCEPT ![g] = Answer(at, NilData)]
    BY <1>6 DEF TimerFires, PollGet, PollFails
  <2>2. page.state # "form" /\ UNCHANGED page
    BY <1>6 DEF TimerFires, PollGet, PollFails, PageAt
  <2>3. failures' \in 0..MaxFailures
    <3>1. CASE UNCHANGED failures
      BY <3>1 DEF PageType
    <3>2. CASE failures < MaxFailures /\ failures' = failures + 1
      <4>1. failures \in 0..MaxFailures /\ MaxFailures \in Nat
        BY UserAssumption DEF PageType
      <4>. QED
        BY <3>2, <4>1
    <3>. QED
      BY <1>6, <3>1, <3>2 DEF TimerFires, PollGet, PollFails
  <2>4. at \in {"none", "sent", "served"} \cup Answers
    BY DEF Answers
  <2>. QED
    BY <1>4, <1>5, <2>1, <2>2, <2>3, <2>4, NilType
<1>7. ASSUME NEW g \in Connections, PollReport(g) PROVE PageType' /\ PageAt'
  <2>1. page.state # "form" /\ UNCHANGED <<page, failures>>
    BY <1>7 DEF PollReport, PageAt
  <2>2. pending[page.id] \in PendingRequest
    BY <2>1 DEF PageAt, TypeOK
  <2>3. call' = [call EXCEPT ![g] = Answer(Reported(pending[page.id]), NilData)]
    BY <1>7 DEF PollReport
  <2>4. Reported(pending[page.id]) \in Answers
    BY <2>2, ReportedType
  <2>. QED
    BY <1>4, <1>5, <2>1, <2>3, <2>4, NilType DEF PageType
<1>8. ASSUME NEW g \in Connections, PollExpired(g) \/ PollRespond(g)
      PROVE  PageType' /\ PageAt'
  <2>0. page.state # "form" /\ UNCHANGED <<page, failures>>
    BY <1>8 DEF PollExpired, PollRespond, PageAt
  <2>1. local[g].p.cred \in CredentialData
    BY ConnectionAssumption DEF TypeOK, Local, PendingRequest
  <2>2. PICK at \in {"400", "expired", "approved"}, cred \in CredentialData :
          call' = [call EXCEPT ![g] = Answer(at, cred)]
    BY <1>8, <2>1, NilType DEF PollExpired, PollRespond
  <2>3. at \in {"none", "sent", "served"} \cup Answers
    BY DEF Answers
  <2>. QED
    BY <1>4, <1>5, <2>0, <2>2, <2>3 DEF PageType
<1>9. ASSUME NEW g \in Connections, PollAnswered(g) PROVE PageType' /\ PageAt'
  <2>1. /\ call[g].at \in Answers /\ call[g].cred \in CredentialData
        /\ page' = Processed(page, call[g]) /\ call' = [call EXCEPT ![g] = NoCall]
        /\ UNCHANGED failures
    BY <1>9 DEF PollAnswered, PageType
  <2>2. page.state # "form"
    BY <2>1 DEF PageAt, Answers
  <2>3. /\ page' \in [state : {"form", "polling", "stopped", "left"}, id : Nat,
                      resolvedCred : CredentialData,
                      pollError : {"none", "denied", "expired", "not found", "forbidden"}]
        /\ page'.id = page.id /\ page'.state # "form"
    BY <2>1, <2>2, ProcessedPage
  <2>4. NoCall \in [at : {"none", "sent", "served"} \cup Answers, cred : CredentialData]
    BY NilType DEF NoCall
  <2>. QED
    BY <1>0, <2>1, <2>2, <2>3, <2>4 DEF PageType, PageAt
<1>10. ASSUME NEW g \in Connections, Serve(g) PROVE PageType' /\ PageAt'
  BY <1>1, <1>6, <1>7, <1>8, <1>10 DEF Serve, PollBurn
<1>11. CASE UNCHANGED uiVars
  BY <1>1, <1>11 DEF uiVars
<1>. QED
  BY <1>1, <1>2, <1>3, <1>6, <1>9, <1>10, <1>11 DEF UINext

-----------------------------------------------------------------------------
(* Decisions are not made at the same time                                 *)

\* What a step of goroutine g may do to the entries: the one it decides is its
\* own, of the others it deletes or puts back approved copies only.
LeavesDecided(g) ==
  \A id \in used : \/ Decides(local[g]) /\ local[g].id = id
                   \/ /\ minted'[id] = minted[id]
                      /\ \/ pending'[id] = pending[id]
                         \/ pending'[id].status \in {"absent", "approved"}

Undecided ==
  \A id \in ReqIDs : pending[id].status \in {"pending", "denied"} => minted[id] = {}

DeadStay == \A id \in used : Dead(id) => Dead(id)'

LEMMA AtEntry ==
  ASSUME TypeOK, HandlersInv, DecisionInv, NEW g \in Goroutines,
         local[g].op \in {"approve", "deny", "fetch"}
  PROVE  /\ local[g] \in Local /\ local[g].p \in PendingRequest
         /\ local[g].id \in ReqIDs /\ local[g].id \in used
         /\ local[g].pc # "idle" /\ local[g].op \in Serves[g]
         /\ DecisionSound(local[g])
<1>1. local[g] \in Local /\ LocalSound(local[g]) /\ DecisionSound(local[g])
  BY DEF TypeOK, HandlersInv, DecisionInv
<1>2. local[g].id \in ReqIDs /\ local[g].id \in used
  BY <1>1 DEF LocalSound, Sound
<1>3. local[g].pc # "idle" /\ local[g].op \in Serves[g]
  BY DEF DecisionInv
<1>. QED
  BY <1>1, <1>2, <1>3 DEF Local

\* Goroutine g moves to n.
LEMMA DecisionStep ==
  ASSUME OneDecides, TypeOK, HandlersInv, DecisionInv, NEW g \in Goroutines,
         NEW n, local' = [local EXCEPT ![g] = n],
         IF n.pc = "idle" THEN n.op = "none" ELSE n.op \in Serves[g],
         Decides(n) => \/ Decides(local[g]) /\ local[g].id = n.id
                       \/ pending[n.id].status = "pending",
         DecisionSound(n)', LeavesDecided(g), Undecided'
  PROVE  DecisionInv' /\ DeadStay
<1>1. local'[g] = n /\ \A h \in Goroutines : h # g => local'[h] = local[h]
  BY DEF TypeOK
<1>2. ASSUME NEW h \in Goroutines, h # g PROVE DecisionSound(local[h])'
  <2>1. local'[h] = local[h] /\ DecisionSound(local[h])
    BY <1>1, <1>2 DEF DecisionInv
  <2>2. CASE Decides(local[h])
    <3>1. local[h].id \in used
      BY <2>2, AtEntry DEF Decides
    <3>2. ~Decides(local[g])
      BY <1>2, <2>2, AtEntry DEF Decides, OneDecides
    <3>3. /\ minted'[local[h].id] = minted[local[h].id]
          /\ \/ pending'[local[h].id] = pending[local[h].id]
             \/ pending'[local[h].id].status \in {"absent", "approved"}
      BY <3>1, <3>2 DEF LeavesDecided
    <3>. QED
      BY <2>1, <3>3 DEF DecisionSound, Decides
  <2>3. CASE ~Decides(local[h])
    BY <2>1, <2>3 DEF DecisionSound, Decides
  <2>. QED
    BY <2>2, <2>3
<1>3. \A h \in Goroutines : DecisionSound(local[h])'
  BY <1>1, <1>2 DEF DecisionSound, Decides
<1>4. \A h \in Goroutines : IF local'[h].pc = "idle" THEN local'[h].op = "none"
                            ELSE local'[h].op \in Serves[h]
  BY <1>1 DEF DecisionInv
<1>5. ASSUME NEW id \in used, Dead(id) PROVE Dead(id)'
  <2>1. /\ minted[id] = {} /\ pending[id].status # "pending"
        /\ \A h \in Goroutines : Decides(local[h]) => local[h].id # id
    BY <1>5 DEF Dead
  <2>2. minted'[id] = {} /\ pending'[id].status # "pending"
    BY <2>1 DEF LeavesDecided
  <2>3. ASSUME NEW h \in Goroutines, Decides(local'[h]) PROVE local'[h].id # id
    BY <1>1, <2>1, <2>3
  <2>. QED
    BY <2>2, <2>3 DEF Dead, Decides
<1>. QED
  BY <1>3, <1>4, <1>5 DEF DecisionInv, Undecided, DeadStay

\* The step decides nothing.
LEMMA QuietMove ==
  ASSUME OneDecides, TypeOK, HandlersInv, DecisionInv, NEW g \in Goroutines,
         NEW n, local' = [local EXCEPT ![g] = n],
         IF n.pc = "idle" THEN n.op = "none" ELSE n.op \in Serves[g],
         ~Decides(n), n.op = "fetch" /\ n.pc = "burn" => n.p.status = "approved",
         \A id \in ReqIDs : \/ pending'[id] = pending[id]
                            \/ pending'[id].status \in {"absent", "approved"},
         minted' = minted
  PROVE  DecisionInv' /\ DeadStay
<1>1. DecisionSound(n)'
  BY DEF DecisionSound, Decides
<1>2. LeavesDecided(g)
  BY DEF LeavesDecided, TypeOK
<1>3. Undecided'
  BY DEF Undecided, DecisionInv
<1>. QED
  BY <1>1, <1>2, <1>3, DecisionStep

\* The step is one of the handler's own.
LEMMA DecisionMove ==
  ASSUME OneDecides, TypeOK, HandlersInv, DecisionInv, NEW g \in Goroutines,
         NEW n, local' = [local EXCEPT ![g] = n],
         IF n.pc = "idle" THEN n.op = "none" ELSE n.op \in Serves[g],
         Decides(n) => \/ Decides(local[g]) /\ local[g].id = n.id
                       \/ pending[n.id].status = "pending",
         DecisionSound(n), UNCHANGED <<pending, minted>>
  PROVE  DecisionInv' /\ DeadStay
<1>1. DecisionSound(n)'
  BY DEF DecisionSound, Decides
<1>2. LeavesDecided(g)
  BY DEF LeavesDecided
<1>3. Undecided'
  BY DEF Undecided, DecisionInv
<1>. QED
  BY <1>1, <1>2, <1>3, DecisionStep

LEMMA PutStatus ==
  ASSUME TypeOK, NEW id \in ReqIDs, NEW p \in PendingRequest, Put(id, p)
  PROVE  /\ pending'[id].status = p.status
         /\ \A j \in ReqIDs : j # id => pending'[j] = pending[j]
<1>1. StorageEntryJSON(p).status = p.status
  BY DEF StorageEntryJSON, PendingRequest
<1>. QED
  BY <1>1 DEF Put, TypeOK

\* The handler puts the entry that it decides, before its execution.
LEMMA DecisionPut ==
  ASSUME OneDecides, TypeOK, HandlersInv, DecisionInv, NEW g \in Goroutines,
         Decides(local[g]), local[g].pc # "store",
         NEW p \in PendingRequest, Put(local[g].id, p),
         NEW n, local' = [local EXCEPT ![g] = n],
         IF n.pc = "idle" THEN n.op = "none" ELSE n.op \in Serves[g],
         n.op # "fetch",
         Decides(n) => /\ n.id = local[g].id /\ n.pc = "reread"
                       /\ p.status = "approved" /\ n.p.status = "approved",
         UNCHANGED minted
  PROVE  DecisionInv' /\ DeadStay
<1>1. /\ local[g].id \in ReqIDs /\ local[g].id \in used /\ minted[local[g].id] = {}
  BY AtEntry DEF Decides, DecisionSound
<1>2. /\ pending'[local[g].id].status = p.status
      /\ \A j \in ReqIDs : j # local[g].id => pending'[j] = pending[j]
  BY <1>1, PutStatus
<1>3. DecisionSound(n)'
  BY <1>1, <1>2 DEF DecisionSound, Decides
<1>4. LeavesDecided(g)
  BY <1>2 DEF LeavesDecided, TypeOK
<1>5. Undecided'
  BY <1>1, <1>2 DEF Undecided, DecisionInv
<1>. QED
  BY <1>3, <1>4, <1>5, DecisionStep

-----------------------------------------------------------------------------
(* Handlers that decide nothing                                            *)

LEMMA QuietBegins ==
  ASSUME OneDecides, TypeOK, HandlersInv, DecisionInv, NEW g \in Goroutines,
         \/ \E r \in RuleIDs : SweepList(g, r) \/ \E w \in RuleWrites : RuleGet(g, r, w)
         \/ \E c \in Callers : \/ \E path \in Paths : ParkList(g, c, path)
                               \/ ApprovableList(g, c)
                               \/ MyRequestsList(g, c)
                               \/ \E id \in ReqIDs : PendingRead(g, c, id)
  PROVE  DecisionInv' /\ DeadStay
<1>0. UNCHANGED <<pending, minted>>
  BY DEF SweepList, RuleGet, ParkList, ApprovableList, MyRequestsList, PendingRead, storage,
         observed
<1>. DEFINE Done == DecisionInv' /\ DeadStay
<1>1. ASSUME NEW n, local' = [local EXCEPT ![g] = n], n.pc # "idle",
             NEW op \in {"write", "sweep", "park", "approvable", "mine", "read"},
             n.op = op, op \in Serves[g]
      PROVE  Done
  <2>1. ~Decides(n) /\ n.op # "fetch"
    BY <1>1 DEF Decides
  <2>. QED
    BY <1>0, <1>1, <2>1, QuietMove
<1>. SUFFICES Done
  OBVIOUS
<1>. HIDE DEF Done
<1>2. ASSUME NEW r, NEW todo,
             Begin(g, "sweep", [IdleLocal EXCEPT !.pc = "scan", !.rid = r, !.todo = todo])
      PROVE  Done
  <2>. DEFINE n == [[IdleLocal EXCEPT !.pc = "scan", !.rid = r, !.todo = todo]
                      EXCEPT !.op = "sweep"]
  <2>1. local' = [local EXCEPT ![g] = n] /\ "sweep" \in Serves[g]
    BY <1>2 DEF Begin
  <2>2. n.pc # "idle" /\ n.op = "sweep"
    BY DEF IdleLocal
  <2>. HIDE DEF n
  <2>. QED
    BY <1>1, <2>1, <2>2
<1>3. ASSUME NEW r, NEW rule,
             Begin(g, "write", [IdleLocal EXCEPT !.pc = "put", !.rid = r, !.rule = rule])
      PROVE  Done
  <2>. DEFINE n == [[IdleLocal EXCEPT !.pc = "put", !.rid = r, !.rule = rule]
                      EXCEPT !.op = "write"]
  <2>1. local' = [local EXCEPT ![g] = n] /\ "write" \in Serves[g]
    BY <1>3 DEF Begin
  <2>2. n.pc # "idle" /\ n.op = "write"
    BY DEF IdleLocal
  <2>. HIDE DEF n
  <2>. QED
    BY <1>1, <2>1, <2>2
<1>4. ASSUME NEW c, NEW path, NEW todo,
             Begin(g, "park", [IdleLocal EXCEPT !.pc = "match", !.caller = c,
                                                !.path = path, !.todo = todo])
      PROVE  Done
  <2>. DEFINE n == [[IdleLocal EXCEPT !.pc = "match", !.caller = c, !.path = path,
                                      !.todo = todo] EXCEPT !.op = "park"]
  <2>1. local' = [local EXCEPT ![g] = n] /\ "park" \in Serves[g]
    BY <1>4 DEF Begin
  <2>2. n.pc # "idle" /\ n.op = "park"
    BY DEF IdleLocal
  <2>. HIDE DEF n
  <2>. QED
    BY <1>1, <2>1, <2>2
<1>5. ASSUME NEW c, NEW todo, NEW op \in {"approvable", "mine", "read"},
             Begin(g, op, [IdleLocal EXCEPT !.pc = "scan", !.caller = c, !.todo = todo])
      PROVE  Done
  <2>. DEFINE n == [[IdleLocal EXCEPT !.pc = "scan", !.caller = c, !.todo = todo]
                      EXCEPT !.op = op]
  <2>1. local' = [local EXCEPT ![g] = n] /\ op \in Serves[g]
    BY <1>5 DEF Begin
  <2>2. n.pc # "idle" /\ n.op = op
    BY DEF IdleLocal
  <2>. HIDE DEF n
  <2>. QED
    BY <1>1, <2>1, <2>2
<1>6. ASSUME NEW r \in RuleIDs, SweepList(g, r) PROVE Done
  <2>1. PICK todo :
          Begin(g, "sweep", [IdleLocal EXCEPT !.pc = "scan", !.rid = r, !.todo = todo])
    BY <1>6, Zenon DEF SweepList
  <2>. QED
    BY <1>2, <2>1, Zenon
<1>7. ASSUME NEW r \in RuleIDs, NEW w \in RuleWrites, RuleGet(g, r, w) PROVE Done
  <2>1. Begin(g, "write", [IdleLocal EXCEPT !.pc = "put", !.rid = r,
                                            !.rule = MergedRule(rules[r], w)])
    BY <1>7, Zenon DEF RuleGet
  <2>. QED
    BY <1>3, <2>1, Zenon
<1>8. ASSUME NEW c \in Callers, NEW path \in Paths, ParkList(g, c, path) PROVE Done
  <2>1. PICK todo :
          Begin(g, "park", [IdleLocal EXCEPT !.pc = "match", !.caller = c,
                                             !.path = path, !.todo = todo])
    BY <1>8, Zenon DEF ParkList
  <2>. QED
    BY <1>4, <2>1, Zenon
<1>9. ASSUME NEW c \in Callers,
             \/ ApprovableList(g, c) \/ MyRequestsList(g, c)
             \/ \E id \in ReqIDs : PendingRead(g, c, id)
      PROVE  Done
  <2>1. PICK op \in {"approvable", "mine", "read"} : \E todo :
          Begin(g, op, [IdleLocal EXCEPT !.pc = "scan", !.caller = c, !.todo = todo])
    BY <1>9 DEF ApprovableList, MyRequestsList, PendingRead
  <2>. QED
    BY <1>5, <2>1, Zenon
<1>. QED
  BY <1>6, <1>7, <1>8, <1>9

\* A handler ends, having deleted at most one entry or put an approved one.
LEMMA QuietEnd ==
  ASSUME OneDecides, TypeOK, HandlersInv, DecisionInv, NEW g \in Goroutines, Finish(g),
         \A id \in ReqIDs : \/ pending'[id] = pending[id]
                            \/ pending'[id].status \in {"absent", "approved"},
         minted' = minted
  PROVE  DecisionInv' /\ DeadStay
<1>1. local' = [local EXCEPT ![g] = IdleLocal] /\ IdleLocal.pc = "idle" /\ IdleLocal.op = "none"
  BY DEF Finish, Continue, IdleLocal
<1>2. ~Decides(IdleLocal)
  BY <1>1 DEF Decides
<1>. HIDE DEF IdleLocal
<1>. QED
  BY <1>1, <1>2, QuietMove

LEMMA DeleteStatus ==
  ASSUME TypeOK, NEW id, Delete(id), NEW j \in ReqIDs
  PROVE  pending'[j] = pending[j] \/ pending'[j].status \in {"absent", "approved"}
BY DEF Delete, TypeOK, NoRequest

LEMMA QuietEnds ==
  ASSUME OneDecides, TypeOK, HandlersInv, DecisionInv, NEW g \in Goroutines,
         \/ RulePut(g) \/ DecideRemove(g) \/ SweepDelete(g) \/ MyRequestsHistory(g)
         \/ DenyLog(g) \/ FetchLog(g) \/ FetchRespond(g) \/ ExecuteStore(g) \/ Return(g)
  PROVE  DecisionInv' /\ DeadStay
<1>1. Finish(g) /\ minted' = minted
  BY DEF RulePut, DecideRemove, SweepDelete, MyRequestsHistory, DenyLog, FetchLog,
         FetchRespond, ExecuteStore, Return, observed
<1>2. CASE UNCHANGED pending
  BY <1>1, <1>2, QuietEnd
<1>3. CASE DecideRemove(g)
  BY <1>1, <1>3, DeleteStatus, QuietEnd DEF DecideRemove
<1>4. CASE ExecuteStore(g)
  <2>1. local[g].op = "approve" /\ local[g].pc = "store" /\ Put(local[g].id, local[g].p)
    BY <1>4 DEF ExecuteStore, At
  <2>2. /\ local[g].id \in ReqIDs /\ local[g].p \in PendingRequest
        /\ local[g].p.status = "approved"
    BY <2>1, AtEntry DEF DecisionSound, Decides
  <2>. QED
    BY <1>1, <2>1, <2>2, PutStatus, QuietEnd
<1>. QED
  BY <1>2, <1>3, <1>4
     DEF RulePut, SweepDelete, MyRequestsHistory, DenyLog, FetchLog, FetchRespond,
         Return, storage

LEMMA QuietScans ==
  ASSUME OneDecides, TypeOK, HandlersInv, DecisionInv, NEW g \in Goroutines,
         ParkMatch(g) \/ ParkScan(g) \/ ScanGet(g) \/ ScanDrop(g)
  PROVE  DecisionInv' /\ DeadStay
<1>. DEFINE l == local[g]
            Done == DecisionInv' /\ DeadStay
<1>0. l.pc # "idle"
  BY DEF ParkMatch, ParkScan, ScanGet, ScanDrop, At
<1>1. /\ l \in Local /\ LocalSound(l) /\ minted' = minted /\ l.op \in Serves[g]
      /\ \A id \in ReqIDs : \/ pending'[id] = pending[id]
                            \/ pending'[id].status \in {"absent", "approved"}
  <2>1. l \in Local /\ LocalSound(l) /\ l.op \in Serves[g]
    BY <1>0 DEF TypeOK, HandlersInv, DecisionInv
  <2>2. minted' = minted /\ (UNCHANGED pending \/ Delete(l.id))
    BY DEF ParkMatch, ParkScan, ScanGet, ScanDrop, Try, storage, observed
  <2>. QED
    BY <2>1, <2>2, DeleteStatus
<1>2. l.op \notin {"approve", "deny", "fetch"}
  BY <1>1 DEF ParkMatch, ParkScan, ScanGet, ScanDrop, At, LocalSound
<1>3. ASSUME NEW n, local' = [local EXCEPT ![g] = n], n.op = l.op, n.pc # "idle"
      PROVE  Done
  <2>1. ~Decides(n) /\ n.op # "fetch"
    BY <1>2, <1>3 DEF Decides
  <2>. QED
    BY <1>1, <1>3, <2>1, QuietMove
<1>4. ASSUME Finish(g) PROVE Done
  BY <1>1, <1>4, QuietEnd
<1>. SUFFICES Done
  OBVIOUS
<1>. HIDE DEF Done
<1>6. CASE ParkMatch(g)
  <2>1. PICK r \in RuleIDs :
          IF rules[r] # NoRule /\ approvalRuleMatchesPath(rules[r].target, l.path)
          THEN Continue(g, [l EXCEPT !.rid = r, !.todo = {},
                              !.pc = IF l.caller.entity = NoEntity THEN "scan" ELSE "list"])
          ELSE Continue(g, [l EXCEPT !.todo = @ \ {r}])
    BY <1>6 DEF ParkMatch
  <2>. DEFINE m == [l EXCEPT !.rid = r, !.todo = {},
                      !.pc = IF l.caller.entity = NoEntity THEN "scan" ELSE "list"]
              n == [l EXCEPT !.todo = @ \ {r}]
  <2>2. local' = [local EXCEPT ![g] = m] \/ local' = [local EXCEPT ![g] = n]
    BY <2>1 DEF Continue
  <2>3. m.op = l.op /\ m.pc # "idle" /\ n.op = l.op /\ n.pc # "idle"
    BY <1>0, <1>1 DEF Local
  <2>. HIDE DEF m, n
  <2>. QED
    BY <1>3, <2>2, <2>3
<1>7. CASE ParkScan(g)
  <2>1. PICK todo : local' = [local EXCEPT ![g] = [l EXCEPT !.pc = "scan", !.todo = todo]]
    BY <1>7 DEF ParkScan, Continue
  <2>. DEFINE n == [l EXCEPT !.pc = "scan", !.todo = todo]
  <2>2. n.op = l.op /\ n.pc # "idle"
    BY <1>1 DEF Local
  <2>3. local' = [local EXCEPT ![g] = n]
    BY <2>1
  <2>. HIDE DEF n
  <2>. QED
    BY <1>3, <2>2, <2>3
<1>8. CASE ScanGet(g)
  <2>1. CASE Finish(g)
    BY <1>4, <2>1
  <2>2. CASE ~Finish(g)
    <3>1. PICK k \in ReqIDs :
            Continue(g, [l EXCEPT !.todo = @ \ {k},
                           !.id = IF Doomed(l, pending[k]) THEN k ELSE 0,
                           !.pc = IF Doomed(l, pending[k]) THEN "drop" ELSE "scan"])
      BY <1>8, <2>2 DEF ScanGet
    <3>. DEFINE n == [l EXCEPT !.todo = @ \ {k},
                        !.id = IF Doomed(l, pending[k]) THEN k ELSE 0,
                        !.pc = IF Doomed(l, pending[k]) THEN "drop" ELSE "scan"]
    <3>2. n.op = l.op /\ n.pc # "idle"
      BY <1>1 DEF Local
    <3>3. local' = [local EXCEPT ![g] = n]
      BY <3>1 DEF Continue
    <3>. HIDE DEF n
    <3>. QED
      BY <1>3, <3>2, <3>3
  <2>. QED
    BY <2>1, <2>2
<1>9. CASE ScanDrop(g)
  <2>. DEFINE n == [l EXCEPT !.pc = "scan", !.id = 0]
  <2>1. local' = [local EXCEPT ![g] = n]
    BY <1>9 DEF ScanDrop, Continue
  <2>2. n.op = l.op /\ n.pc # "idle"
    BY <1>1 DEF Local
  <2>. HIDE DEF n
  <2>. QED
    BY <1>3, <2>1, <2>2
<1>. QED
  BY <1>6, <1>7, <1>8, <1>9

LEMMA QuietFetch ==
  ASSUME OneDecides, TypeOK, HandlersInv, DecisionInv, NEW g \in Goroutines,
         \/ \E c \in Callers, id \in ReqIDs : FetchGet(g, c, id)
         \/ FetchLapsed(g) \/ FetchBurn(g) \/ FetchDelete(g) \/ FetchRetrieved(g)
  PROVE  DecisionInv' /\ DeadStay
<1>. DEFINE l == local[g]
<1>1. minted' = minted
  BY DEF FetchGet, FetchLapsed, FetchBurn, FetchDelete, FetchRetrieved, observed
<1>2. ASSUME NEW c \in Callers, NEW id \in ReqIDs, FetchGet(g, c, id)
      PROVE  DecisionInv' /\ DeadStay
  <2>. DEFINE p == pending[id]
              holds == p.status = "approved" /\ p.cred.kind # "nil"
              n == [[IdleLocal EXCEPT !.caller = c, !.id = id, !.p = p,
                       !.pc = IF holds /\ ~WindowPassed(p, now) THEN "burn" ELSE "lapsed"]
                      EXCEPT !.op = "fetch"]
  <2>1. /\ local' = [local EXCEPT ![g] = n]
        /\ "fetch" \in Serves[g]
        /\ UNCHANGED pending
    BY <1>2 DEF FetchGet, Begin, storage
  <2>2. /\ n.op = "fetch" /\ n.pc \in {"burn", "lapsed"}
        /\ n.pc = "burn" => n.p.status = "approved"
    BY DEF IdleLocal
  <2>. HIDE DEF n
  <2>3. ~Decides(n)
    BY <2>2 DEF Decides
  <2>. QED
    BY <1>1, <2>1, <2>2, <2>3, QuietMove
<1>3. CASE FetchLapsed(g) \/ FetchBurn(g) \/ FetchDelete(g) \/ FetchRetrieved(g)
  <2>1. PICK pc \in {"log", "burned", "respond", "answer"} :
          local' = [local EXCEPT ![g] = [l EXCEPT !.pc = pc]]
    BY <1>3 DEF FetchLapsed, FetchBurn, FetchDelete, FetchRetrieved, Continue
  <2>2. /\ l.op = "fetch" /\ l.pc \in {"lapsed", "burn", "burned", "respond"}
        /\ \/ UNCHANGED pending \/ Delete(l.id)
           \/ l.pc = "burn" /\ Put(l.id, [l.p EXCEPT !.cred = NilData])
    BY <1>3 DEF FetchLapsed, FetchBurn, FetchDelete, FetchRetrieved, At, Try
  <2>3. /\ l \in Local /\ l.p \in PendingRequest /\ l.id \in ReqIDs /\ l.op \in Serves[g]
        /\ l.pc = "burn" => l.p.status = "approved"
    BY <2>2, AtEntry DEF DecisionSound
  <2>. DEFINE n == [l EXCEPT !.pc = pc]
  <2>4. n.op = "fetch" /\ n.pc = pc
    BY <2>2, <2>3 DEF Local
  <2>5. local' = [local EXCEPT ![g] = n]
    BY <2>1
  <2>. HIDE DEF n
  <2>6. \A id \in ReqIDs : \/ pending'[id] = pending[id]
                           \/ pending'[id].status \in {"absent", "approved"}
    <3>1. CASE UNCHANGED pending \/ Delete(l.id)
      BY <3>1, DeleteStatus
    <3>2. CASE l.pc = "burn" /\ Put(l.id, [l.p EXCEPT !.cred = NilData])
      <4>1. /\ [l.p EXCEPT !.cred = NilData] \in PendingRequest
            /\ [l.p EXCEPT !.cred = NilData].status = "approved"
        BY <2>3, <3>2, NilType DEF PendingRequest
      <4>. QED
        BY <2>3, <3>2, <4>1, PutStatus
    <3>. QED
      BY <2>2, <3>1, <3>2
  <2>7. ~Decides(n) /\ n.pc # "idle" /\ n.pc # "burn" /\ n.op \in Serves[g]
    BY <2>2, <2>3, <2>4 DEF Decides
  <2>. QED
    BY <1>1, <2>5, <2>6, <2>7, QuietMove
<1>. QED
  BY <1>2, <1>3

-----------------------------------------------------------------------------
(* Decisions                                                               *)

LEMMA DecisionBegins ==
  ASSUME OneDecides, TypeOK, HandlersInv, DecisionInv, NEW g \in Goroutines,
         NEW c \in Callers, NEW id \in ReqIDs, NEW op \in {"approve", "deny"},
         DecideGet(g, c, id, op)
  PROVE  DecisionInv' /\ DeadStay
<1>. DEFINE n == [[IdleLocal EXCEPT
                     !.pc = IF now > pending[id].expires THEN "remove" ELSE "get",
                     !.caller = c, !.id = id, !.p = pending[id]] EXCEPT !.op = op]
<1>1. /\ local' = [local EXCEPT ![g] = n]
      /\ op \in Serves[g] /\ pending[id].status = "pending"
      /\ UNCHANGED <<pending, minted>>
  BY DEF DecideGet, Begin, storage, observed
<1>2. n.pc \in {"remove", "get"} /\ n.op = op /\ n.id = id
  BY DEF IdleLocal
<1>. HIDE DEF n
<1>3. minted[id] = {}
  BY <1>1 DEF DecisionInv
<1>4. DecisionSound(n)
  BY <1>1, <1>2, <1>3 DEF DecisionSound, Decides
<1>. QED
  BY <1>1, <1>2, <1>4, DecisionMove

\* The handler goes on with its copy.
LEMMA DecisionMoves ==
  ASSUME OneDecides, ~StorageFails, TypeOK, HandlersInv, DecisionInv, NEW g \in Goroutines,
         \/ DecideNoRule(g) \/ ApproveRule(g) \/ DenyRule(g)
         \/ ApproveReread(g) \/ ExecuteFailed(g)
  PROVE  DecisionInv' /\ DeadStay
<1>. DEFINE l == local[g]
            Done == DecisionInv' /\ DeadStay
<1>1. /\ l.op \in {"approve", "deny"} /\ l.pc \in {"get", "reread", "execute"}
      /\ UNCHANGED <<pending, minted>>
  BY DEF DecideNoRule, ApproveRule, DenyRule, ApproveReread, ExecuteFailed, At, storage,
         observed
<1>2. /\ l \in Local /\ l.p \in PendingRequest /\ l.op \in Serves[g]
      /\ pending[l.id].status # "denied" /\ minted[l.id] = {}
      /\ l.pc # "get" => pending[l.id].status # "pending" /\ l.p.status = "approved"
      /\ Decides(l)
  <2>1. /\ l \in Local /\ l.p \in PendingRequest /\ l.op \in Serves[g]
        /\ DecisionSound(l)
    BY <1>1, AtEntry
  <2>2. Decides(l)
    BY <1>1 DEF Decides
  <2>. QED
    BY <1>1, <2>1, <2>2 DEF DecisionSound
<1>3. ASSUME NEW n, local' = [local EXCEPT ![g] = n], n.op = l.op, n.id = l.id,
             \/ n.pc = "remove"
             \/ l.pc = "get" /\ n.pc \in {"vote", "deny"}
             \/ l.pc = "get" /\ n.pc = "mark" /\ n.p.status = "approved"
             \/ l.pc # "get" /\ n.pc \in {"execute", "rollback"} /\ n.p.status = "approved"
      PROVE  Done
  <2>1. DecisionSound(n) /\ n.pc # "idle"
    BY <1>1, <1>2, <1>3 DEF DecisionSound, Decides
  <2>. QED
    BY <1>1, <1>2, <1>3, <2>1, DecisionMove
<1>. SUFFICES Done
  OBVIOUS
<1>4. CASE Finish(g)
  BY <1>1, <1>4, QuietEnd
<1>. HIDE DEF Done
<1>5. CASE DecideNoRule(g)
  <2>. DEFINE n == [l EXCEPT !.pc = "remove"]
  <2>1. local' = [local EXCEPT ![g] = n]
    BY <1>5 DEF DecideNoRule, Continue
  <2>2. n.op = l.op /\ n.id = l.id /\ n.pc = "remove"
    BY <1>2 DEF Local
  <2>. HIDE DEF n
  <2>. QED
    BY <1>3, <2>1, <2>2
<1>6. CASE ApproveRule(g)
  <2>. DEFINE p == WithVote(l.p, l.caller)
  <2>1. PICK r \in RuleIDs : Continue(g,
            [l EXCEPT !.rid = r, !.rule = rules[r],
               !.pc = IF ThresholdMet(p, rules[r]) THEN "mark" ELSE "vote",
               !.p = IF ThresholdMet(p, rules[r])
                     THEN [p EXCEPT !.status = "approved"] ELSE p])
    BY <1>6 DEF ApproveRule
  <2>. DEFINE n == [l EXCEPT !.rid = r, !.rule = rules[r],
                      !.pc = IF ThresholdMet(p, rules[r]) THEN "mark" ELSE "vote",
                      !.p = IF ThresholdMet(p, rules[r])
                            THEN [p EXCEPT !.status = "approved"] ELSE p]
  <2>2. local' = [local EXCEPT ![g] = n]
    BY <2>1 DEF Continue
  <2>3. [p EXCEPT !.status = "approved"].status = "approved"
    BY <1>2 DEF WithVote, PendingRequest
  <2>. HIDE DEF p
  <2>4. /\ n.op = l.op /\ n.id = l.id
        /\ \/ n.pc = "vote"
           \/ n.pc = "mark" /\ n.p.status = "approved"
    BY <1>2, <2>3 DEF Local
  <2>5. l.pc = "get"
    BY <1>6 DEF ApproveRule, At
  <2>. HIDE DEF n
  <2>. QED
    BY <1>3, <2>2, <2>4, <2>5
<1>7. CASE DenyRule(g)
  <2>. DEFINE n == [l EXCEPT !.pc = "deny", !.p.status = "denied"]
  <2>1. local' = [local EXCEPT ![g] = n] /\ l.pc = "get"
    BY <1>7 DEF DenyRule, Continue, At
  <2>2. n.op = l.op /\ n.id = l.id /\ n.pc = "deny"
    BY <1>2 DEF Local
  <2>. HIDE DEF n
  <2>. QED
    BY <1>3, <2>1, <2>2
<1>8. CASE ApproveReread(g) /\ ~Finish(g)
  <2>. DEFINE n == [l EXCEPT !.pc = "execute"]
  <2>1. local' = [local EXCEPT ![g] = n] /\ l.pc = "reread"
    BY <1>8 DEF ApproveReread, Continue, At
  <2>2. n.op = l.op /\ n.id = l.id /\ n.pc = "execute" /\ n.p = l.p
    BY <1>2 DEF Local
  <2>. HIDE DEF n
  <2>. QED
    BY <1>2, <1>3, <2>1, <2>2
<1>9. CASE ExecuteFailed(g)
  <2>. DEFINE n == [l EXCEPT !.pc = "rollback"]
  <2>1. local' = [local EXCEPT ![g] = n] /\ l.pc = "execute"
    BY <1>9 DEF ExecuteFailed, Continue, At
  <2>2. n.op = l.op /\ n.id = l.id /\ n.pc = "rollback" /\ n.p = l.p
    BY <1>2 DEF Local
  <2>. HIDE DEF n
  <2>. QED
    BY <1>2, <1>3, <2>1, <2>2
<1>. QED
  BY <1>4, <1>5, <1>6, <1>7, <1>8, <1>9

\* The handler writes its decision, or takes it back.
LEMMA DecisionPuts ==
  ASSUME OneDecides, TypeOK, HandlersInv, DecisionInv, NEW g \in Goroutines,
         ApproveVote(g) \/ ApproveMark(g) \/ ApproveRollback(g) \/ DenyMark(g)
  PROVE  DecisionInv' /\ DeadStay
<1>. DEFINE l == local[g]
<1>1. /\ l.op \in {"approve", "deny"} /\ l.pc \in {"vote", "mark", "rollback", "deny"}
      /\ UNCHANGED minted
  BY DEF ApproveVote, ApproveMark, ApproveRollback, DenyMark, At, observed
<1>2. /\ l \in Local /\ l.p \in PendingRequest /\ l.op \in Serves[g] /\ DecisionSound(l)
      /\ Decides(l) /\ l.pc # "store"
  BY <1>1, AtEntry DEF Decides
<1>3. ASSUME NEW p \in PendingRequest, Put(l.id, p), Finish(g)
      PROVE  DecisionInv' /\ DeadStay
  <2>1. /\ local' = [local EXCEPT ![g] = IdleLocal]
        /\ IdleLocal.pc = "idle" /\ IdleLocal.op = "none" /\ ~Decides(IdleLocal)
    BY <1>3 DEF Finish, Continue, IdleLocal, Decides
  <2>. HIDE DEF IdleLocal
  <2>. QED
    BY <1>1, <1>2, <1>3, <2>1, DecisionPut
<1>4. ASSUME NEW n, local' = [local EXCEPT ![g] = n], n.op = l.op, n.id = l.id, n.p = l.p,
             Put(l.id, l.p), n.pc = "log" \/ (n.pc = "reread" /\ l.pc = "mark")
      PROVE  DecisionInv' /\ DeadStay
  <2>1. l.pc = "mark" => l.p.status = "approved"
    BY <1>2 DEF DecisionSound
  <2>2. /\ n.pc # "idle" /\ n.op \in Serves[g] /\ n.op # "fetch"
        /\ Decides(n) => n.pc = "reread" /\ l.p.status = "approved"
    BY <1>1, <1>2, <1>4, <2>1 DEF Decides
  <2>. QED
    BY <1>1, <1>2, <1>4, <2>2, DecisionPut
<1>5. CASE ApproveVote(g)
  BY <1>2, <1>3, <1>5 DEF ApproveVote
<1>6. CASE ApproveMark(g)
  <2>. DEFINE n == [l EXCEPT !.pc = "reread"]
  <2>1. local' = [local EXCEPT ![g] = n] /\ l.pc = "mark" /\ Put(l.id, l.p)
    BY <1>6 DEF ApproveMark, Continue, At
  <2>2. n.op = l.op /\ n.id = l.id /\ n.pc = "reread" /\ n.p = l.p
    BY <1>2 DEF Local
  <2>. HIDE DEF n
  <2>. QED
    BY <1>4, <2>1, <2>2
<1>7. CASE ApproveRollback(g)
  <2>. DEFINE p == [l.p EXCEPT !.status = "pending",
                               !.approvals = SubSeq(@, 1, Len(@) - 1)]
  <2>1. Put(l.id, p) /\ Finish(g)
    BY <1>7 DEF ApproveRollback
  <2>2. p \in PendingRequest
    <3>1. l.p.approvals \in Seq(EntityIDs)
      BY <1>2 DEF PendingRequest
    <3>2. SubSeq(l.p.approvals, 1, Len(l.p.approvals) - 1) \in Seq(EntityIDs)
      BY <3>1, SubSeqProperties
    <3>. QED
      BY <1>2, <3>2 DEF PendingRequest
  <2>. HIDE DEF p
  <2>. QED
    BY <1>3, <2>1, <2>2
<1>8. CASE DenyMark(g)
  <2>. DEFINE n == [l EXCEPT !.pc = "log"]
  <2>1. local' = [local EXCEPT ![g] = n] /\ Put(l.id, l.p)
    BY <1>8 DEF DenyMark, Continue, At
  <2>2. n.op = l.op /\ n.id = l.id /\ n.pc = "log" /\ n.p = l.p
    BY <1>2 DEF Local
  <2>. HIDE DEF n
  <2>. QED
    BY <1>4, <2>1, <2>2
<1>. QED
  BY <1>5, <1>6, <1>7, <1>8

\* The secret is generated for an entry that is marked approved.
LEMMA DecisionExecutes ==
  ASSUME OneDecides, TypeOK, HandlersInv, DecisionInv, NEW g \in Goroutines,
         NEW kind, Execute(g, kind)
  PROVE  DecisionInv' /\ DeadStay
<1>. DEFINE l == local[g]
            data == [kind |-> kind, serial |-> IF kind = "secret" THEN serial + 1 ELSE 0]
<1>0. PICK n : n = [l EXCEPT !.pc = "store", !.p = WithCredential(l.p, data, now)]
  OBVIOUS
<1>1. /\ l.op = "approve" /\ l.pc = "execute"
      /\ local' = [local EXCEPT ![g] = n]
      /\ UNCHANGED pending
      /\ \A id \in ReqIDs : id # l.id => minted'[id] = minted[id]
  BY <1>0 DEF Execute, At, Continue, storage, TypeOK
<1>2. /\ l \in Local /\ l.p \in PendingRequest /\ l.op \in Serves[g] /\ l.id \in ReqIDs
      /\ Decides(l) /\ l.p.status = "approved"
      /\ pending[l.id].status \notin {"denied", "pending"}
  <2>1. /\ l \in Local /\ l.p \in PendingRequest /\ l.op \in Serves[g] /\ l.id \in ReqIDs
        /\ DecisionSound(l)
    BY <1>1, AtEntry
  <2>2. Decides(l)
    BY <1>1 DEF Decides
  <2>. QED
    BY <1>1, <2>1, <2>2 DEF DecisionSound
<1>3. n.op = l.op /\ n.id = l.id /\ n.pc = "store" /\ n.p.status = "approved"
  BY <1>0, <1>2 DEF Local, WithCredential, PendingRequest
<1>4. DecisionSound(n)'
  BY <1>1, <1>2, <1>3 DEF DecisionSound, Decides
<1>5. LeavesDecided(g)
  BY <1>1, <1>2 DEF LeavesDecided, TypeOK
<1>6. Undecided'
  BY <1>1, <1>2 DEF Undecided, DecisionInv
<1>7. n.pc # "idle" /\ n.op \in Serves[g]
  BY <1>2, <1>3
<1>8. Decides(n) => Decides(local[g]) /\ local[g].id = n.id
  BY <1>2, <1>3
<1>. QED
  BY <1>1, <1>4, <1>5, <1>6, <1>7, <1>8, DecisionStep

LEMMA ParkDecidesNothing ==
  ASSUME OneDecides, TypeOK, HandlersInv, DecisionInv, NEW g \in Goroutines, ParkStore(g)
  PROVE  DecisionInv' /\ DeadStay
<1>1. PICK id \in ReqIDs \ used :
        Put(id, NewPending(local[g].rid, local[g].path, local[g].caller, now))
  BY DEF ParkStore
<1>2. /\ local' = [local EXCEPT ![g] = IdleLocal]
      /\ IdleLocal.pc = "idle" /\ IdleLocal.op = "none" /\ ~Decides(IdleLocal)
      /\ UNCHANGED minted
  BY DEF ParkStore, Finish, Continue, IdleLocal, Decides
<1>3. minted[id] = {} /\ \A j \in ReqIDs : j # id => pending'[j] = pending[j]
  BY <1>1 DEF HandlersInv, Put, TypeOK
<1>. HIDE DEF IdleLocal
<1>4. DecisionSound(IdleLocal)'
  BY <1>2 DEF DecisionSound, Decides
<1>5. LeavesDecided(g)
  BY <1>2, <1>3 DEF LeavesDecided, TypeOK
<1>6. Undecided'
  BY <1>2, <1>3 DEF Undecided, DecisionInv
<1>. QED
  BY <1>2, <1>4, <1>5, <1>6, DecisionStep

LEMMA DecisionNext ==
  ASSUME OneDecides, ~StorageFails, TypeOK, HandlersInv, DecisionInv, [Next]_vars
  PROVE  DecisionInv' /\ DeadStay
<1>1. CASE UNCHANGED <<pending, minted, local>>
  BY <1>1 DEF DecisionInv, DecisionSound, Decides, DeadStay, Dead
<1>2. CASE Tick \/ UNCHANGED vars
  BY <1>1, <1>2 DEF Tick, vars, storage, observed
<1>3. ASSUME NEW g \in Goroutines, Step(g)
      PROVE  DecisionInv' /\ DeadStay
  <2>1. CASE \E r \in RuleIDs : SweepList(g, r) \/ \E w \in RuleWrites : RuleGet(g, r, w)
    BY <2>1, QuietBegins
  <2>2. CASE \E c \in Callers, id \in ReqIDs :
               \/ \E op \in {"approve", "deny"} : DecideGet(g, c, id, op)
               \/ FetchGet(g, c, id)
               \/ PendingRead(g, c, id)
    BY <2>2, DecisionBegins, QuietFetch, QuietBegins
  <2>3. CASE \E c \in Callers : \/ \E path \in Paths : ParkList(g, c, path)
                                \/ ApprovableList(g, c)
                                \/ MyRequestsList(g, c)
    BY <2>3, QuietBegins
  <2>4. CASE \E c \in Callers : HistoryRead(g, c)
    BY <1>1, <2>4 DEF HistoryRead, observed
  <2>5. CASE RulePut(g) \/ DecideNoRule(g) \/ DecideRemove(g) \/ Return(g)
    BY <2>5, QuietEnds, DecisionMoves
  <2>6. CASE Approve(g)
    BY <2>6, DecisionMoves, DecisionPuts, DecisionExecutes, QuietEnds DEF Approve
  <2>7. CASE DenyRule(g) \/ DenyMark(g) \/ DenyLog(g)
    BY <2>7, DecisionMoves, DecisionPuts, QuietEnds
  <2>8. CASE Fetch(g)
    BY <2>8, QuietFetch, QuietEnds DEF Fetch
  <2>9. CASE ParkMatch(g) \/ ParkScan(g) \/ ParkStore(g)
    BY <2>9, QuietScans, ParkDecidesNothing
  <2>10. CASE Scan(g)
    BY <2>10, QuietScans, QuietEnds DEF Scan
  <2>. QED
    BY <1>3, <2>1, <2>2, <2>3, <2>4, <2>5, <2>6, <2>7, <2>8, <2>9, <2>10 DEF Step
<1>. QED
  BY <1>2, <1>3 DEF Next

-----------------------------------------------------------------------------
(* A denial that the page shows                                            *)

DenialKnown ==
  page.pollError = "denied" \/ \E g \in Connections : call[g].at = "denied"

\* The page learns of a denial from a poll that has read the denied entry.
LEMMA DenialLearned ==
  ASSUME TypeOK, PageType, PageAt, [UINext]_uiVars, DenialKnown'
  PROVE  /\ page'.id = page.id /\ page.state # "form"
         /\ DenialKnown \/ pending[page.id].status = "denied"
<1>. DEFINE Done == /\ page'.id = page.id /\ page.state # "form"
                    /\ DenialKnown \/ pending[page.id].status = "denied"
<1>0. DenialKnown => page.state # "form"
  BY DEF DenialKnown, PageAt
<1>1. CASE UNCHANGED ui
  BY <1>0, <1>1 DEF ui, DenialKnown
<1>2. ASSUME NEW id \in ReqIDs, startPolling(id) PROVE Done
  BY <1>2 DEF startPolling, BlankPage, DenialKnown, PageAt
<1>3. CASE Leave
  BY <1>0, <1>3 DEF Leave, DenialKnown, PageType
<1>4. ASSUME NEW g \in Connections, NEW a, call' = [call EXCEPT ![g] = a], a.at # "denied",
             UNCHANGED page
      PROVE  Done
  BY <1>0, <1>4 DEF DenialKnown, PageType
<1>5. ASSUME NEW g \in Connections, TimerFires(g) \/ PollGet(g) \/ PollFails(g)
      PROVE  Done
  <2>1. PICK at \in {"sent", "served", "network"} : call' = [call EXCEPT ![g] = Answer(at, NilData)]
    BY <1>5 DEF TimerFires, PollGet, PollFails
  <2>2. Answer(at, NilData).at # "denied" /\ UNCHANGED page
    BY <1>5 DEF Answer, TimerFires, PollGet, PollFails
  <2>. QED
    BY <1>4, <2>1, <2>2
<1>6. ASSUME NEW g \in Connections, PollExpired(g) \/ PollRespond(g) PROVE Done
  <2>1. PICK at, cred :
          /\ at \in {"400", "expired", "approved"}
          /\ call' = [call EXCEPT ![g] = Answer(at, cred)]
    BY <1>6 DEF PollExpired, PollRespond
  <2>2. Answer(at, cred).at # "denied" /\ UNCHANGED page
    BY <1>6, <2>1 DEF Answer, PollExpired, PollRespond
  <2>. QED
    BY <1>4, <2>1, <2>2
<1>7. ASSUME NEW g \in Connections, PollReport(g) PROVE Done
  <2>1. /\ page.state # "form" /\ UNCHANGED page
        /\ call' = [call EXCEPT ![g] = Answer(Reported(pending[page.id]), NilData)]
    BY <1>7 DEF PollReport, PageAt
  <2>2. Reported(pending[page.id]) = "denied" => pending[page.id].status = "denied"
    BY <2>1, ReportedType DEF PageAt, TypeOK
  <2>3. Answer(Reported(pending[page.id]), NilData).at = Reported(pending[page.id])
    BY DEF Answer
  <2>4. CASE Reported(pending[page.id]) # "denied"
    BY <1>4, <2>1, <2>3, <2>4
  <2>. QED
    BY <2>1, <2>2, <2>4
<1>8. ASSUME NEW g \in Connections, PollAnswered(g) PROVE Done
  <2>1. /\ call[g].at \in Answers /\ call[g].cred \in CredentialData
        /\ page' = Processed(page, call[g]) /\ call' = [call EXCEPT ![g] = NoCall]
    BY <1>8 DEF PollAnswered, PageType
  <2>2. /\ page'.id = page.id
        /\ page'.pollError = "denied" => page.pollError = "denied" \/ call[g].at = "denied"
    BY <2>1, ProcessedPage
  <2>3. \A h \in Connections : call'[h].at = "denied" => call[h].at = "denied"
    BY <2>1 DEF NoCall, PageType
  <2>. QED
    BY <1>0, <2>2, <2>3 DEF DenialKnown
<1>9. ASSUME NEW g \in Connections, Serve(g) PROVE Done
  BY <1>1, <1>5, <1>6, <1>7, <1>9 DEF Serve, PollBurn
<1>10. CASE UNCHANGED uiVars
  BY <1>1, <1>10 DEF uiVars
<1>. QED
  BY <1>1, <1>2, <1>3, <1>5, <1>8, <1>9, <1>10 DEF UINext

LEMMA DenialStep ==
  ASSUME OneDecides, ~StorageFails, TypeOK, HandlersInv, PageType, DecisionInv, PageInv,
         [UINext]_uiVars
  PROVE  DecisionInv' /\ PageInv'
<1>1. PageAt /\ (DenialKnown => Dead(page.id))
  BY DEF PageInv, DenialKnown
<1>2. [Next]_vars
  BY <1>1, HandlerStep
<1>3. DecisionInv' /\ DeadStay
  BY <1>2, DecisionNext
<1>4. PageAt'
  BY <1>1, PageStep
<1>5. ASSUME DenialKnown' PROVE Dead(page.id)'
  <2>1. /\ page'.id = page.id /\ page.id \in used /\ page.id \in ReqIDs
        /\ DenialKnown \/ pending[page.id].status = "denied"
    BY <1>1, <1>5, DenialLearned DEF PageAt, TypeOK
  <2>2. Dead(page.id)
    <3>1. CASE pending[page.id].status = "denied"
      <4>1. minted[page.id] = {}
        BY <2>1, <3>1 DEF DecisionInv
      <4>2. \A g \in Goroutines : Decides(local[g]) => local[g].id # page.id
        BY <3>1 DEF DecisionInv, DecisionSound
      <4>. QED
        BY <3>1, <4>1, <4>2 DEF Dead
    <3>. QED
      BY <1>1, <2>1, <3>1
  <2>3. PICK id : id = page.id
    OBVIOUS
  <2>4. Dead(id)'
    BY <1>3, <2>1, <2>2, <2>3 DEF DeadStay
  <2>5. page'.id = id
    BY <2>1, <2>3
  <2>. QED
    BY <2>4, <2>5 DEF Dead
<1>. QED
  BY <1>3, <1>4, <1>5 DEF PageInv, DenialKnown

LEMMA PageInit ==
  UIInit => TypeOK /\ HandlersInv /\ PageType /\ DecisionInv /\ PageInv
<1>. SUFFICES ASSUME UIInit PROVE TypeOK /\ HandlersInv /\ PageType /\ DecisionInv /\ PageInv
  OBVIOUS
<1>1. TypeOK /\ HandlersInv
  BY HandlersInit DEF UIInit
<1>2. PageType
  BY NilType, UserAssumption DEF UIInit, PageType, BlankPage, NoCall
<1>3. PageInv
  BY DEF UIInit, PageInv, PageAt, BlankPage, NoCall
<1>4. DecisionInv
  BY DEF UIInit, Init, DecisionInv, DecisionSound, Decides, IdleLocal
<1>. QED
  BY <1>1, <1>2, <1>3, <1>4

\* The page and its polls keep their shapes, and the handlers keep theirs under
\* them, however the answers of overlapping polls come and wherever polls fail.
THEOREM PageTypeCorrect == UISpec => []UITypeOK
<1>. DEFINE I == TypeOK /\ HandlersInv /\ PageType /\ PageAt
<1>1. UIInit => I
  BY PageInit DEF PageInv
<1>2. I /\ [UINext]_uiVars => I'
  BY HandlerStep, HandlersNext, PageStep
<1>3. I => UITypeOK
  BY DEF UITypeOK
<1>. QED
  BY <1>1, <1>2, <1>3, PTL DEF UISpec

\* A page that says "denied" is right for good: however its polls overlap with
\* each other and with the decision, handleApprovalDeny has then refused a
\* request for which executeApprovedRequest obtains no secret any more.
\* Decisions are made by one handler at a time (DenyOverwritten shows what two
\* do), and the put of a credential does not fail (its rollback leaves the secret
\* of a request that can then be denied).
THEOREM DenialTrue ==
  ASSUME OneDecides, ~StorageFails
  PROVE  UISpec => []DenialShownIsTrue
<1>. DEFINE I == TypeOK /\ HandlersInv /\ PageType /\ DecisionInv /\ PageInv
<1>1. UIInit => I
  BY PageInit
<1>2. I /\ [UINext]_uiVars => I'
  <2>. SUFFICES ASSUME I, [UINext]_uiVars PROVE I'
    OBVIOUS
  <2>1. PageAt
    BY DEF PageInv
  <2>. QED
    BY <2>1, HandlerStep, HandlersNext, PageStep, DenialStep
<1>3. I => DenialShownIsTrue
  BY DEF PageInv, Dead, DenialShownIsTrue
<1>. QED
  BY <1>1, <1>2, <1>3, PTL DEF UISpec

=============================================================================
