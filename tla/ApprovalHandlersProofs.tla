----------------------- MODULE ApprovalHandlersProofs -----------------------
(***************************************************************************)
(* Proofs about ApprovalHandlers: what holds however many handlers overlap, *)
(* wherever they stop and whichever Puts and Deletes fail, for every value  *)
(* of the constants.  HandlersInv says of each copy that a handler works on *)
(* what Sound says of the entry in storage, so a stale copy that is put     *)
(* back cannot break it.                                                    *)
(***************************************************************************)
EXTENDS ApprovalHandlers, ApprovalDataProofs, SequenceTheorems, TLAPS

-----------------------------------------------------------------------------
(* Steps that leave the recorded facts alone                               *)

\* The facts that Sound rests on are never taken back.
Grows ==
  /\ used \subseteq used'
  /\ \A id \in used : owner'[id] = owner[id]
  /\ selfRules \subseteq selfRules'
  /\ \A id \in ReqIDs : minted[id] \subseteq minted'[id]

LEMMA SoundGrows ==
  ASSUME Grows, NEW id \in ReqIDs, NEW p, Sound(id, p)
  PROVE  Sound(id, p)'
<1>. SUFFICES ASSUME p.status # "absent" PROVE Sound(id, p)'
  BY DEF Sound
<1>1. id \in used /\ p.requester = owner[id]
  BY DEF Sound
<1>2. owner'[id] = owner[id] /\ id \in used'
  BY <1>1 DEF Grows
<1>3. FairVotes(p.approvals, owner[id], p.rule, selfRules')
  BY FairVotesMonotone DEF Sound, Grows
<1>4. p.cred.kind = "secret" => \E m \in minted'[id] : m.serial = p.cred.serial
  BY DEF Sound, Grows
<1>. QED
  BY <1>1, <1>2, <1>3, <1>4 DEF Sound

LEMMA LocalSoundGrows ==
  ASSUME Grows, NEW l, LocalSound(l)
  PROVE  LocalSound(l)'
<1>1. l.op \in {"approve", "deny", "fetch"} => Sound(l.id, l.p)'
  BY SoundGrows DEF LocalSound
<1>. QED
  BY <1>1 DEF LocalSound

\* A step of goroutine g to a state that its checks justify.
Moves(g, l) ==
  local' = [local EXCEPT ![g] = l] /\ l \in Local /\ LocalSound(l)

LEMMA IdleSound == IdleLocal \in Local /\ LocalSound(IdleLocal)
<1>1. NoCaller \in [entity : EntityIDs, root : BOOLEAN]
  BY DEF NoCaller, EntityIDs
<1>2. IdleLocal \in Local
  BY <1>1, NoRequestType DEF IdleLocal, Local
<1>. QED
  BY <1>2 DEF IdleLocal, LocalSound

LEMMA FinishMoves ==
  ASSUME NEW g, Finish(g)
  PROVE  Moves(g, IdleLocal)
BY IdleSound DEF Finish, Continue, Moves

\* A step that parks, executes and delivers nothing: the entries that it
\* writes and the state that it moves to are sound.
LEMMA QuietStep ==
  ASSUME TypeOK, HandlersInv,
         NEW g \in Goroutines, NEW l, Moves(g, l),
         rules' \in [RuleIDs -> ApprovalRule \cup {NoRule}],
         \A r \in RuleIDs : rules'[r].self => r \in selfRules,
         pending' \in [ReqIDs -> PendingRequest],
         \A id \in ReqIDs : pending'[id] = pending[id] \/ Sound(id, pending'[id]),
         history' \in [ReqIDs -> ApprovalHistoryEntry],
         denied' \subseteq ReqIDs,
         UNCHANGED <<now, used, owner, selfRules, serial, minted, delivered>>
  PROVE  TypeOK' /\ HandlersInv'
<1>1. local' \in [Goroutines -> Local]
  BY DEF Moves, TypeOK
<1>2. TypeOK'
  BY <1>1 DEF TypeOK
<1>3. Grows
  BY DEF Grows
<1>4. ASSUME NEW h \in Goroutines
      PROVE  LocalSound(local[h])'
  <2>1. LocalSound(local'[h])
    <3>1. local'[h] = l \/ local'[h] = local[h]
      BY DEF Moves, TypeOK
    <3>. QED
      BY <3>1 DEF HandlersInv, Moves
  <2>. QED
    BY <1>3, <2>1, LocalSoundGrows
<1>5. ASSUME NEW id \in ReqIDs
      PROVE  Sound(id, pending[id])'
  <2>1. Sound(id, pending'[id])
    BY DEF HandlersInv
  <2>. QED
    BY <1>3, <2>1, SoundGrows
<1>6. QuorumBehindSecret'
  BY DEF HandlersInv, QuorumBehindSecret
<1>7. DeliveredToRequester'
  BY DEF HandlersInv, DeliveredToRequester
<1>. QED
  BY <1>2, <1>4, <1>5, <1>6, <1>7 DEF HandlersInv

\* The step touches nothing but the handler's own state.
LEMMA LocalStep ==
  ASSUME TypeOK, HandlersInv,
         NEW g \in Goroutines, NEW l, Moves(g, l),
         UNCHANGED <<now, storage, used, observed>>
  PROVE  TypeOK' /\ HandlersInv'
BY QuietStep DEF storage, observed, TypeOK, HandlersInv

\* The step writes to pending/.
LEMMA StoreStep ==
  ASSUME TypeOK, HandlersInv,
         NEW g \in Goroutines, NEW l, Moves(g, l),
         pending' \in [ReqIDs -> PendingRequest],
         \A id \in ReqIDs : pending'[id] = pending[id] \/ Sound(id, pending'[id]),
         UNCHANGED <<now, rules, history, used, observed>>
  PROVE  TypeOK' /\ HandlersInv'
BY QuietStep DEF observed, TypeOK, HandlersInv

\* The step writes to history/.
LEMMA LogStep ==
  ASSUME TypeOK, HandlersInv,
         NEW g \in Goroutines, NEW l, Moves(g, l),
         history' \in [ReqIDs -> ApprovalHistoryEntry],
         denied' \subseteq ReqIDs,
         UNCHANGED <<now, rules, pending, used, owner, selfRules, serial, minted,
                     delivered>>
  PROVE  TypeOK' /\ HandlersInv'
BY QuietStep DEF TypeOK, HandlersInv

\* A sound entry that is put, whatever is stored by now.
LEMMA PutSound ==
  ASSUME TypeOK, NEW id \in ReqIDs, NEW p \in PendingRequest, Sound(id, p),
         Put(id, p)
  PROVE  /\ pending' \in [ReqIDs -> PendingRequest]
         /\ \A j \in ReqIDs : pending'[j] = pending[j] \/ Sound(j, pending'[j])
<1>. DEFINE e == StorageEntryJSON(p)
<1>1. e \in PendingRequest
  BY DEF StorageEntryJSON, PendingRequest, CredentialData, NilData
<1>2. Sound(id, e)
  <2>1. CASE p.cred.kind = "empty"
    <3>1. /\ e.status = p.status /\ e.requester = p.requester
          /\ e.approvals = p.approvals /\ e.rule = p.rule
          /\ e.cred.kind = "nil"
      BY <2>1 DEF StorageEntryJSON, PendingRequest, NilData
    <3>. QED
      BY <3>1 DEF Sound
  <2>2. CASE p.cred.kind # "empty"
    BY <2>2 DEF StorageEntryJSON
  <2>. QED
    BY <2>1, <2>2
<1>3. pending' = [pending EXCEPT ![id] = e]
  BY DEF Put
<1>. HIDE DEF e
<1>. QED
  BY <1>1, <1>2, <1>3 DEF TypeOK

LEMMA DeleteSound ==
  ASSUME TypeOK, NEW id, Delete(id)
  PROVE  /\ pending' \in [ReqIDs -> PendingRequest]
         /\ \A j \in ReqIDs : pending'[j] = pending[j] \/ Sound(j, pending'[j])
<1>1. \A j : Sound(j, NoRequest)
  BY DEF Sound, NoRequest
<1>. QED
  BY <1>1, NoRequestType DEF Delete, TypeOK

LEMMA LogType ==
  ASSUME TypeOK, NEW id, NEW status \in {"retrieved", "denied", "expired"},
         NEW by \in EntityIDs, Log(id, status, by)
  PROVE  history' \in [ReqIDs -> ApprovalHistoryEntry]
BY HistoryEntryType DEF Log, Try, TypeOK

LEMMA PurgeType ==
  ASSUME TypeOK, Purge
  PROVE  history' \in [ReqIDs -> ApprovalHistoryEntry]
BY DEF Purge, TypeOK, NoHistory, ApprovalHistoryEntry, EntityIDs

-----------------------------------------------------------------------------
(* Rule write, rule delete and the scans                                   *)

\* A handler begins with its first storage call.
LEMMA BeginStep ==
  ASSUME TypeOK, HandlersInv, NEW g \in Goroutines, NEW op \in AllHandlers,
         NEW l \in Local, Begin(g, op, l), LocalSound([l EXCEPT !.op = op]),
         UNCHANGED <<now, storage, used, observed>>
  PROVE  TypeOK' /\ HandlersInv'
<1>1. [l EXCEPT !.op = op] \in Local
  BY DEF Local
<1>. QED
  BY <1>1, LocalStep DEF Moves, Begin

LEMMA CallerType ==
  ASSUME NEW c \in Callers
  PROVE  c \in [entity : EntityIDs, root : BOOLEAN]
BY CallerAssumption

LEMMA RuleGetStep ==
  ASSUME TypeOK, HandlersInv, NEW g \in Goroutines, NEW r \in RuleIDs,
         NEW w \in RuleWrites, RuleGet(g, r, w)
  PROVE  TypeOK' /\ HandlersInv'
<1>. DEFINE rule == MergedRule(rules[r], w)
            l == [IdleLocal EXCEPT !.pc = "put", !.rid = r, !.rule = rule]
<1>1. rule \in ApprovalRule
  BY MergedRuleType DEF RuleGet, TypeOK
<1>2. Begin(g, "write", l) /\ UNCHANGED <<now, storage, used, observed>>
  BY DEF RuleGet
<1>. HIDE DEF rule
<1>3. l \in Local
  BY <1>1, IdleSound, IDAssumption DEF Local
<1>4. LocalSound([l EXCEPT !.op = "write"])
  BY DEF LocalSound, IdleLocal
<1>. HIDE DEF l
<1>. QED
  BY <1>2, <1>3, <1>4, BeginStep DEF AllHandlers

LEMMA RulePutStep ==
  ASSUME TypeOK, HandlersInv, NEW g \in Goroutines, RulePut(g)
  PROVE  TypeOK' /\ HandlersInv'
<1>. DEFINE l == local[g]
<1>1. /\ l \in Local /\ LocalSound(l)
      /\ l.op = "write"
      /\ Moves(g, IdleLocal)
  BY FinishMoves DEF TypeOK, HandlersInv, RulePut, At
<1>2. l.rid \in RuleIDs /\ l.rule \in ApprovalRule \cup {NoRule}
  BY <1>1 DEF LocalSound, Local
<1>3. /\ rules' = [rules EXCEPT ![l.rid] = l.rule]
      /\ selfRules' = IF l.rule.self THEN selfRules \cup {l.rid} ELSE selfRules
      /\ UNCHANGED <<now, pending, history, used, owner, serial, minted, delivered,
                     denied>>
  BY DEF RulePut
<1>. HIDE DEF l
<1>4. local' \in [Goroutines -> Local]
  BY <1>1 DEF Moves, TypeOK
<1>5. TypeOK'
  BY <1>2, <1>3, <1>4 DEF TypeOK
<1>6. Grows
  BY <1>3 DEF Grows
<1>7. ASSUME NEW r \in RuleIDs, rules'[r].self
      PROVE  r \in selfRules'
  BY <1>2, <1>3, <1>7 DEF TypeOK, HandlersInv
<1>8. ASSUME NEW h \in Goroutines
      PROVE  LocalSound(local[h])'
  <2>1. LocalSound(local'[h])
    BY <1>1 DEF Moves, TypeOK, HandlersInv
  <2>. QED
    BY <1>6, <2>1, LocalSoundGrows
<1>9. ASSUME NEW id \in ReqIDs
      PROVE  Sound(id, pending[id])'
  BY <1>3, <1>6, SoundGrows DEF HandlersInv
<1>10. QuorumBehindSecret'
  BY <1>3, <1>6, FairVotesMonotone DEF HandlersInv, QuorumBehindSecret, Grows
<1>11. DeliveredToRequester'
  BY <1>3 DEF HandlersInv, DeliveredToRequester
<1>. QED
  BY <1>3, <1>5, <1>7, <1>8, <1>9, <1>10, <1>11 DEF HandlersInv

\* The scans begin: no entry is copied.
LEMMA ListedKeys ==
  ASSUME NEW keys, NEW todo \in Listed(keys)
  PROVE  todo \subseteq keys
BY DEF Listed

LEMMA LiveKeysType == LiveKeys \subseteq ReqIDs /\ LiveKeys \subseteq Nat
BY IDAssumption DEF LiveKeys

LEMMA ListSteps ==
  ASSUME TypeOK, HandlersInv, NEW g \in Goroutines
  PROVE  /\ \A r \in RuleIDs : SweepList(g, r) => TypeOK' /\ HandlersInv'
         /\ \A c \in Callers : ApprovableList(g, c) \/ MyRequestsList(g, c)
              => TypeOK' /\ HandlersInv'
         /\ \A c \in Callers, id \in ReqIDs : PendingRead(g, c, id)
              => TypeOK' /\ HandlersInv'
<1>1. ASSUME NEW r \in RuleIDs, SweepList(g, r) PROVE TypeOK' /\ HandlersInv'
  <2>1. PICK todo \in Listed(LiveKeys) :
          Begin(g, "sweep", [IdleLocal EXCEPT !.pc = "scan", !.rid = r, !.todo = todo])
    BY <1>1 DEF SweepList
  <2>. DEFINE l == [IdleLocal EXCEPT !.pc = "scan", !.rid = r, !.todo = todo]
  <2>2. todo \in SUBSET Nat /\ r \in Nat
    BY ListedKeys, LiveKeysType, IDAssumption
  <2>3. l \in Local
    BY <2>2, IdleSound DEF Local
  <2>4. LocalSound([l EXCEPT !.op = "sweep"])
    BY DEF LocalSound, IdleLocal
  <2>5. Begin(g, "sweep", l)
    BY <2>1
  <2>. HIDE DEF l
  <2>. QED
    BY <1>1, <2>3, <2>4, <2>5, BeginStep DEF SweepList, AllHandlers
<1>2. ASSUME NEW c \in Callers, NEW op \in {"approvable", "mine", "read"},
             NEW todo \in SUBSET Nat,
             Begin(g, op, [IdleLocal EXCEPT !.pc = "scan", !.caller = c, !.todo = todo]),
             UNCHANGED <<now, storage, used, observed>>
      PROVE  TypeOK' /\ HandlersInv'
  <2>. DEFINE l == [IdleLocal EXCEPT !.pc = "scan", !.caller = c, !.todo = todo]
  <2>1. l \in Local
    BY CallerType, IdleSound DEF Local
  <2>2. LocalSound([l EXCEPT !.op = op])
    BY DEF LocalSound, IdleLocal
  <2>3. Begin(g, op, l)
    BY <1>2
  <2>. HIDE DEF l
  <2>. QED
    BY <1>2, <2>1, <2>2, <2>3, BeginStep DEF AllHandlers
<1>3. ASSUME NEW c \in Callers, ApprovableList(g, c) \/ MyRequestsList(g, c)
      PROVE  TypeOK' /\ HandlersInv'
  <2>1. PICK op \in {"approvable", "mine"}, todo \in Listed(LiveKeys) :
          Begin(g, op, [IdleLocal EXCEPT !.pc = "scan", !.caller = c, !.todo = todo])
    BY <1>3 DEF ApprovableList, MyRequestsList
  <2>2. todo \in SUBSET Nat
    BY ListedKeys, LiveKeysType
  <2>. QED
    BY <1>2, <1>3, <2>1, <2>2 DEF ApprovableList, MyRequestsList
<1>4. ASSUME NEW c \in Callers, NEW id \in ReqIDs, PendingRead(g, c, id)
      PROVE  TypeOK' /\ HandlersInv'
  <2>1. {id} \in SUBSET Nat
    BY IDAssumption
  <2>. QED
    BY <1>2, <1>4, <2>1 DEF PendingRead
<1>. QED
  BY <1>1, <1>3, <1>4

LEMMA ScanSteps ==
  ASSUME TypeOK, HandlersInv, NEW g \in Goroutines, Scan(g)
  PROVE  TypeOK' /\ HandlersInv'
<1>. DEFINE l == local[g]
<1>1. l \in Local /\ LocalSound(l)
  BY DEF TypeOK, HandlersInv
<1>2. CASE ScanGet(g)
  <2>1. PICK k \in ReqIDs :
          \/ Finish(g)
          \/ Continue(g, [l EXCEPT !.todo = @ \ {k},
                            !.id = IF Doomed(l, pending[k]) THEN k ELSE 0,
                            !.pc = IF Doomed(l, pending[k]) THEN "drop" ELSE "scan"])
    BY <1>2 DEF ScanGet
  <2>2. CASE Finish(g)
    BY <1>2, <2>2, FinishMoves, LocalStep DEF ScanGet
  <2>3. ASSUME NEW pc \in {"drop", "scan"}, NEW n \in Nat, NEW todo \in SUBSET Nat,
               local' = [local EXCEPT ![g] = [l EXCEPT !.todo = todo, !.id = n, !.pc = pc]]
        PROVE  TypeOK' /\ HandlersInv'
    <3>1. l.pc = "scan" /\ l.op \notin {"approve", "deny", "fetch"}
      BY <1>1, <1>2 DEF ScanGet, LocalSound
    <3>. HIDE DEF l
    <3>2. [l EXCEPT !.todo = todo, !.id = n, !.pc = pc] \in Local
      BY <1>1 DEF Local
    <3>3. LocalSound([l EXCEPT !.todo = todo, !.id = n, !.pc = pc])
      BY <1>1, <3>1 DEF LocalSound, Local
    <3>. QED
      BY <1>2, <2>3, <3>2, <3>3, LocalStep DEF Moves, ScanGet
  <2>4. l.todo \ {k} \in SUBSET Nat /\ k \in Nat
    BY <1>1, IDAssumption DEF Local
  <2>. QED
    BY <2>1, <2>2, <2>3, <2>4 DEF Continue
<1>3. CASE ScanDrop(g)
  <2>1. l.op \notin {"approve", "deny", "fetch"}
    BY <1>1, <1>3 DEF ScanDrop, LocalSound
  <2>2. /\ [l EXCEPT !.pc = "scan", !.id = 0] \in Local
        /\ LocalSound([l EXCEPT !.pc = "scan", !.id = 0])
    <3>0. l.pc = "drop"
      BY <1>3 DEF ScanDrop
    <3>. HIDE DEF l
    <3>. QED
      BY <1>1, <2>1, <3>0 DEF LocalSound, Local
  <2>3. Moves(g, [l EXCEPT !.pc = "scan", !.id = 0])
    BY <1>3, <2>2 DEF Moves, ScanDrop, Continue
  <2>4. CASE Delete(l.id)
    BY <1>3, <2>3, <2>4, DeleteSound, StoreStep DEF ScanDrop
  <2>5. CASE UNCHANGED pending
    BY <1>3, <2>3, <2>5, StoreStep DEF ScanDrop, TypeOK
  <2>. QED
    BY <1>3, <2>4, <2>5 DEF ScanDrop, Try
<1>4. CASE SweepDelete(g)
  <2>1. rules' \in [RuleIDs -> ApprovalRule \cup {NoRule}]
    BY <1>4 DEF SweepDelete, TypeOK
  <2>2. \A r \in RuleIDs : rules'[r].self => r \in selfRules
    BY <1>4 DEF SweepDelete, TypeOK, HandlersInv, NoRule
  <2>. QED
    BY <1>4, <2>1, <2>2, FinishMoves, QuietStep
       DEF SweepDelete, observed, TypeOK, HandlersInv
<1>5. CASE MyRequestsHistory(g)
  BY <1>5, PurgeType, FinishMoves, LogStep DEF MyRequestsHistory, observed, TypeOK
<1>. QED
  BY <1>2, <1>3, <1>4, <1>5 DEF Scan

-----------------------------------------------------------------------------
(* Approve and deny                                                        *)

\* The copy that the handlers of one entry begin with is as sound as the entry.
LEMMA CopyLocal ==
  ASSUME TypeOK, HandlersInv, NEW c \in Callers, NEW id \in ReqIDs,
         NEW pc \in {"get", "remove", "burn", "lapsed"}
  PROVE  [IdleLocal EXCEPT !.pc = pc, !.caller = c, !.id = id, !.p = pending[id]]
           \in Local
<1>1. pending[id] \in PendingRequest /\ id \in Nat
  BY IDAssumption DEF TypeOK
<1>. QED
  BY <1>1, CallerType, IdleSound DEF Local

LEMMA DecideGetStep ==
  ASSUME TypeOK, HandlersInv, NEW g \in Goroutines, NEW c \in Callers,
         NEW id \in ReqIDs, NEW op \in {"approve", "deny"}, DecideGet(g, c, id, op)
  PROVE  TypeOK' /\ HandlersInv'
<1>. DEFINE pc == IF now > pending[id].expires THEN "remove" ELSE "get"
            l == [IdleLocal EXCEPT !.pc = pc, !.caller = c, !.id = id, !.p = pending[id]]
<1>1. /\ Begin(g, op, l)
      /\ pending[id].status = "pending"
      /\ UNCHANGED <<now, storage, used, observed>>
  BY DEF DecideGet
<1>2. pc \in {"get", "remove"}
  OBVIOUS
<1>. HIDE DEF pc
<1>3. l \in Local
  BY <1>2, CopyLocal
<1>4. LocalSound([l EXCEPT !.op = op])
  BY <1>1, <1>2 DEF LocalSound, IdleLocal, HandlersInv
<1>. HIDE DEF l
<1>. QED
  BY <1>1, <1>3, <1>4, BeginStep DEF AllHandlers

LEMMA DecideNoRuleStep ==
  ASSUME TypeOK, HandlersInv, NEW g \in Goroutines, DecideNoRule(g)
  PROVE  TypeOK' /\ HandlersInv'
<1>. DEFINE l == local[g]
<1>1. l \in Local /\ LocalSound(l) /\ l.op \in {"approve", "deny"}
  BY DEF TypeOK, HandlersInv, DecideNoRule, At
<1>2. local' = [local EXCEPT ![g] = [l EXCEPT !.pc = "remove"]]
  BY DEF DecideNoRule, Continue
<1>. HIDE DEF l
<1>3. [l EXCEPT !.pc = "remove"] \in Local /\ LocalSound([l EXCEPT !.pc = "remove"])
  BY <1>1 DEF Local, LocalSound
<1>. QED
  BY <1>2, <1>3, LocalStep DEF Moves, DecideNoRule

LEMMA DecideRemoveStep ==
  ASSUME TypeOK, HandlersInv, NEW g \in Goroutines, DecideRemove(g)
  PROVE  TypeOK' /\ HandlersInv'
BY DeleteSound, FinishMoves, StoreStep DEF DecideRemove

\* The vote joins the copy: fair votes stay fair, under the rule as it was read.
LEMMA ApproveRuleStep ==
  ASSUME TypeOK, HandlersInv, NEW g \in Goroutines, ApproveRule(g)
  PROVE  TypeOK' /\ HandlersInv'
<1>. DEFINE l == local[g]
            v == WithVote(l.p, l.caller)
            r == l.p.rule
            met == ThresholdMet(v, rules[r])
            q == IF met THEN [v EXCEPT !.status = "approved"] ELSE v
            pc == IF met THEN "mark" ELSE "vote"
            l2 == [l EXCEPT !.rid = r, !.rule = rules[r], !.pc = pc, !.p = q]
<1>1. /\ l \in Local /\ LocalSound(l)
      /\ l.op = "approve"
      /\ r \in RuleIDs
      /\ rules[r] # NoRule
      /\ MayApprove(l.caller, l.p, rules[r])
      /\ local' = [local EXCEPT ![g] = l2]
      /\ UNCHANGED <<now, storage, used, observed>>
  BY DEF ApproveRule, At, Continue, TypeOK, HandlersInv
<1>2. /\ rules[r] \in ApprovalRule
      /\ rules[r].self => r \in selfRules
  BY <1>1 DEF TypeOK, HandlersInv
<1>. HIDE DEF l
<1>3. /\ l.id \in ReqIDs
      /\ l.caller \in Callers
      /\ l.p \in PendingRequest
      /\ l.p.status # "absent"
      /\ Sound(l.id, l.p)
  BY <1>1 DEF LocalSound, Local
<1>4. /\ v \in PendingRequest
      /\ v.status = l.p.status
      /\ v.rule = l.p.rule
      /\ v.requester = l.p.requester
      /\ v.cred = l.p.cred
      /\ v.approvals = Append(l.p.approvals, l.caller.entity)
  BY <1>3, WithVoteType DEF WithVote, PendingRequest
<1>. HIDE DEF v
<1>5. /\ q \in PendingRequest
      /\ q.status # "absent"
      /\ q.rule = r
      /\ q.requester = l.p.requester
      /\ q.cred = l.p.cred
      /\ q.approvals = Append(l.p.approvals, l.caller.entity)
      /\ pc = "mark" => Len(q.approvals) >= rules[r].required
  BY <1>3, <1>4 DEF PendingRequest, ThresholdMet
<1>6. pc \in {"mark", "vote"}
  OBVIOUS
<1>7. Sound(l.id, q)
  <2>1. FairVotes(l.p.approvals, l.p.requester, r, selfRules)
    BY <1>3 DEF Sound
  <2>2. FairVotes(Append(l.p.approvals, l.caller.entity), l.p.requester, r, selfRules)
    BY <1>1, <1>2, <1>3, <2>1, VoteStaysFair
  <2>. HIDE DEF q
  <2>. QED
    BY <1>3, <1>5, <2>2 DEF Sound
<1>. HIDE DEF q, pc, r
<1>8. l2 \in Local
  BY <1>1, <1>2, <1>5, <1>6, IDAssumption DEF Local
<1>9. LocalSound(l2)
  BY <1>1, <1>2, <1>3, <1>5, <1>6, <1>7 DEF LocalSound, Local
<1>. HIDE DEF l2
<1>. QED
  BY <1>1, <1>8, <1>9, LocalStep DEF Moves

\* What the handler that executes works on.
LEMMA CopyFacts ==
  ASSUME TypeOK, HandlersInv, NEW g \in Goroutines,
         local[g].op \in {"approve", "deny", "fetch"}
  PROVE  /\ local[g] \in Local
         /\ LocalSound(local[g])
         /\ local[g].id \in ReqIDs
         /\ local[g].caller \in Callers
         /\ local[g].p \in PendingRequest
         /\ local[g].p.status # "absent"
         /\ Sound(local[g].id, local[g].p)
BY DEF TypeOK, HandlersInv, LocalSound, Local

\* From the mark to the rollback, only the program counter moves.
LEMMA NextPc ==
  ASSUME NEW l \in Local, LocalSound(l), l.op = "approve",
         l.pc \in {"mark", "reread", "execute", "store"},
         NEW pc \in {"reread", "execute", "store", "rollback"}
  PROVE  [l EXCEPT !.pc = pc] \in Local /\ LocalSound([l EXCEPT !.pc = pc])
BY DEF Local, LocalSound

LEMMA ApprovePuts ==
  ASSUME TypeOK, HandlersInv, NEW g \in Goroutines,
         ApproveVote(g) \/ ApproveMark(g) \/ ExecuteStore(g)
  PROVE  TypeOK' /\ HandlersInv'
<1>1. /\ local[g].op = "approve"
      /\ Put(local[g].id, local[g].p)
      /\ UNCHANGED <<now, rules, history, used, observed>>
  BY DEF ApproveVote, ApproveMark, ExecuteStore, At
<1>2. /\ pending' \in [ReqIDs -> PendingRequest]
      /\ \A j \in ReqIDs : pending'[j] = pending[j] \/ Sound(j, pending'[j])
  BY <1>1, CopyFacts, PutSound
<1>3. CASE ApproveVote(g) \/ ExecuteStore(g)
  BY <1>1, <1>2, <1>3, FinishMoves, StoreStep DEF ApproveVote, ExecuteStore
<1>4. CASE ApproveMark(g)
  <2>1. Moves(g, [local[g] EXCEPT !.pc = "reread"])
    BY <1>1, <1>4, CopyFacts, NextPc DEF ApproveMark, At, Continue, Moves
  <2>. QED
    BY <1>1, <1>2, <2>1, StoreStep
<1>. QED
  BY <1>3, <1>4

LEMMA ApproveMoves ==
  ASSUME TypeOK, HandlersInv, NEW g \in Goroutines,
         ApproveReread(g) \/ ExecuteFailed(g)
  PROVE  TypeOK' /\ HandlersInv'
<1>1. \/ Finish(g)
      \/ \E pc \in {"execute", "rollback"} :
           local' = [local EXCEPT ![g] = [local[g] EXCEPT !.pc = pc]]
  BY DEF ApproveReread, ExecuteFailed, Continue
<1>2. /\ local[g].op = "approve"
      /\ local[g].pc \in {"reread", "execute", "store"}
      /\ UNCHANGED <<now, storage, used, observed>>
  BY DEF ApproveReread, ExecuteFailed, At
<1>3. CASE Finish(g)
  BY <1>2, <1>3, FinishMoves, LocalStep
<1>4. ASSUME NEW pc \in {"execute", "rollback"},
             local' = [local EXCEPT ![g] = [local[g] EXCEPT !.pc = pc]]
      PROVE  TypeOK' /\ HandlersInv'
  <2>1. Moves(g, [local[g] EXCEPT !.pc = pc])
    BY <1>2, <1>4, CopyFacts, NextPc DEF Moves
  <2>. QED
    BY <1>2, <2>1, LocalStep
<1>. QED
  BY <1>1, <1>3, <1>4

\* A secret is recorded with the votes of the copy, which meet the threshold of
\* the rule as it was read; no other request's facts change.
LEMMA ExecuteStep ==
  ASSUME TypeOK, HandlersInv, NEW g \in Goroutines,
         NEW kind \in {"secret", "error", "empty"}, Execute(g, kind)
  PROVE  TypeOK' /\ HandlersInv'
<1>. DEFINE l == local[g]
            n == IF kind = "secret" THEN serial + 1 ELSE 0
            q == WithCredential(l.p, [kind |-> kind, serial |-> n], now)
            l2 == [l EXCEPT !.pc = "store", !.p = q]
            m == [serial |-> serial + 1, rule |-> l.rid, approvals |-> l.p.approvals,
                  required |-> l.rule.required]
<1>1. /\ l.op = "approve" /\ l.pc = "execute"
      /\ local' = [local EXCEPT ![g] = l2]
      /\ IF kind = "secret"
         THEN serial' = serial + 1 /\ minted' = [minted EXCEPT ![l.id] = @ \cup {m}]
         ELSE UNCHANGED <<serial, minted>>
      /\ UNCHANGED <<now, rules, pending, history, used, owner, selfRules, delivered,
                     denied>>
  BY DEF Execute, At, Continue, storage
<1>2. /\ l \in Local /\ LocalSound(l)
      /\ l.id \in ReqIDs
      /\ l.caller \in Callers
      /\ l.p \in PendingRequest
      /\ l.p.status # "absent"
      /\ Sound(l.id, l.p)
  BY <1>1, CopyFacts
<1>. HIDE DEF l
<1>3. /\ l.rid \in RuleIDs
      /\ l.rid = l.p.rule
      /\ l.rule \in ApprovalRule
      /\ Len(l.p.approvals) >= l.rule.required
  BY <1>1, <1>2 DEF LocalSound
<1>4. now \in Nat /\ serial + 1 \in Nat /\ n \in Nat
  BY DEF TypeOK
<1>5. /\ q \in PendingRequest
      /\ q.status = l.p.status
      /\ q.rule = l.p.rule
      /\ q.requester = l.p.requester
      /\ q.approvals = l.p.approvals
      /\ q.cred.kind = kind /\ q.cred.serial = n
  <2>. HIDE DEF n
  <2>. QED
    BY <1>2, <1>4 DEF WithCredential, PendingRequest, CredentialData
<1>6. /\ m \in Execution
      /\ m.serial = serial + 1
      /\ m.approvals = l.p.approvals
      /\ m.rule = l.p.rule
      /\ m.required = l.rule.required
  BY <1>2, <1>3, <1>4 DEF Execution, PendingRequest, ApprovalRule
<1>7. l2 \in Local
  <2>. HIDE DEF q
  <2>. QED
    BY <1>2, <1>5 DEF Local
<1>8. /\ l2.op = l.op /\ l2.pc = "store" /\ l2.id = l.id /\ l2.caller = l.caller
      /\ l2.p = q /\ l2.rid = l.rid /\ l2.rule = l.rule
  <2>. HIDE DEF q
  <2>. QED
    BY <1>2 DEF Local
<1>9. kind = "secret" => n = serial + 1
  OBVIOUS
<1>. HIDE DEF q, n, m, l2
<1>10. serial' \in Nat /\ minted' \in [ReqIDs -> SUBSET Execution]
  <2>1. CASE kind = "secret"
    <3>1. minted[l.id] \cup {m} \in SUBSET Execution
      BY <1>2, <1>6 DEF TypeOK
    <3>. QED
      BY <1>1, <1>4, <2>1, <3>1 DEF TypeOK
  <2>2. CASE kind # "secret"
    BY <1>1, <2>2 DEF TypeOK
  <2>. QED
    BY <2>1, <2>2
<1>11. TypeOK'
  <2>1. local' \in [Goroutines -> Local]
    BY <1>1, <1>7 DEF TypeOK
  <2>. QED
    BY <1>1, <1>10, <2>1 DEF TypeOK
<1>12. /\ \A id \in ReqIDs : minted[id] \subseteq minted'[id]
       /\ \A id \in ReqIDs : minted'[id] \subseteq minted[id] \cup
                               (IF id = l.id THEN {m} ELSE {})
       /\ kind = "secret" => m \in minted'[l.id]
  BY <1>1, <1>2 DEF TypeOK
<1>13. Grows
  BY <1>1, <1>12 DEF Grows
<1>14. ASSUME NEW id, NEW p, id = l.id, p = q
       PROVE  Sound(id, p)'
  BY <1>1, <1>2, <1>5, <1>6, <1>9, <1>12, <1>14 DEF Sound
<1>15. ASSUME NEW x, x = l2
       PROVE  LocalSound(x)'
  <2>1. Sound(x.id, x.p)'
    BY <1>8, <1>14, <1>15
  <2>. QED
    BY <1>1, <1>2, <1>3, <1>5, <1>8, <1>15, <2>1 DEF LocalSound
<1>16. ASSUME NEW h \in Goroutines
       PROVE  LocalSound(local[h])'
  <2>1. CASE h = g
    <3>1. local'[h] = l2
      BY <1>1, <2>1 DEF TypeOK
    <3>. QED
      BY <1>15, <3>1
  <2>2. CASE h # g
    <3>1. local'[h] = local[h] /\ LocalSound(local[h])
      BY <1>1, <2>2 DEF TypeOK, HandlersInv
    <3>. QED
      BY <1>13, <3>1, LocalSoundGrows
  <2>. QED
    BY <2>1, <2>2
<1>17. ASSUME NEW id \in ReqIDs
       PROVE  Sound(id, pending[id])'
  BY <1>1, <1>13, SoundGrows DEF HandlersInv
<1>18. ASSUME NEW id \in ReqIDs \ used
       PROVE  minted'[id] = {} /\ delivered'[id] = <<>>
  <2>1. l.id \in used
    BY <1>2 DEF Sound
  <2>. QED
    BY <1>1, <1>12, <2>1 DEF HandlersInv
<1>19. QuorumBehindSecret'
  <2>. SUFFICES ASSUME NEW id \in ReqIDs, NEW x \in minted'[id]
                PROVE  /\ Len(x.approvals) >= x.required
                       /\ FairVotes(x.approvals, owner[id], x.rule, selfRules)
    BY <1>1 DEF QuorumBehindSecret
  <2>1. CASE x \in minted[id]
    BY <2>1 DEF HandlersInv, QuorumBehindSecret
  <2>2. CASE id = l.id /\ x = m
    BY <1>2, <1>3, <1>6, <2>2 DEF Sound
  <2>. QED
    BY <1>12, <2>1, <2>2
<1>20. DeliveredToRequester'
  BY <1>1, <1>12 DEF HandlersInv, DeliveredToRequester
<1>. QED
  BY <1>1, <1>11, <1>16, <1>17, <1>18, <1>19, <1>20 DEF HandlersInv

\* Without its last vote a copy is still sound: the votes left are a prefix.
LEMMA ApproveRollbackStep ==
  ASSUME TypeOK, HandlersInv, NEW g \in Goroutines, ApproveRollback(g)
  PROVE  TypeOK' /\ HandlersInv'
<1>. DEFINE l == local[g]
            v == l.p.approvals
            w == SubSeq(v, 1, Len(v) - 1)
            q == [l.p EXCEPT !.status = "pending", !.approvals = w]
<1>1. /\ l.op = "approve" /\ l.pc = "rollback"
      /\ Put(l.id, q)
      /\ Finish(g)
      /\ UNCHANGED <<now, rules, history, used, observed>>
  BY DEF ApproveRollback, At
<1>2. /\ l \in Local /\ LocalSound(l)
      /\ l.id \in ReqIDs
      /\ l.p \in PendingRequest
      /\ l.p.status # "absent"
      /\ Sound(l.id, l.p)
  BY <1>1, CopyFacts
<1>. HIDE DEF l
<1>3. v \in Seq(EntityIDs) /\ Len(v) \in Nat /\ Len(v) >= 1
  <2>1. l.rule.required >= 1 /\ Len(v) >= l.rule.required /\ l.rule.required \in Nat
    BY <1>1, <1>2 DEF LocalSound, ApprovalRule
  <2>. QED
    BY <1>2, <2>1 DEF PendingRequest
<1>4. /\ w \in Seq(EntityIDs)
      /\ Len(w) = Len(v) - 1
      /\ \A i \in 1..Len(w) : w[i] = v[i]
  <2>. HIDE DEF v
  <2>. DEFINE n == Len(v) - 1
  <2>1. /\ n \in Int /\ n >= 0
        /\ \A i \in 1..n : v[i] \in EntityIDs
    BY <1>3
  <2>. HIDE DEF n
  <2>2. /\ SubSeq(v, 1, n) \in Seq(EntityIDs)
        /\ Len(SubSeq(v, 1, n)) = IF 1 <= n THEN n - 1 + 1 ELSE 0
        /\ \A i \in 1..(n - 1 + 1) : SubSeq(v, 1, n)[i] = v[1 + i - 1]
    BY <2>1, SubSeqProperties
  <2>3. w = SubSeq(v, 1, n) /\ Len(SubSeq(v, 1, n)) = n
    <3>1. Len(SubSeq(v, 1, n)) = n
      BY <2>1, <2>2
    <3>. QED
      BY <3>1 DEF n
  <2>. HIDE DEF w
  <2>4. \A i \in 1..n : w[i] = v[i]
    BY <2>1, <2>2, <2>3
  <2>. QED
    BY <2>2, <2>3, <2>4 DEF n
<1>. HIDE DEF w
<1>5. /\ q \in PendingRequest
      /\ q.rule = l.p.rule
      /\ q.requester = l.p.requester
      /\ q.approvals = w
      /\ q.cred = l.p.cred
  BY <1>2, <1>4 DEF PendingRequest
<1>6. FairVotes(v, owner[l.id], l.p.rule, selfRules)
  BY <1>2 DEF Sound
<1>. HIDE DEF v
<1>7. FairVotes(w, owner[l.id], l.p.rule, selfRules)
  <2>1. \A i \in 1..Len(w) : i \in 1..Len(v)
    BY <1>3, <1>4
  <2>. QED
    BY <1>4, <1>6, <2>1 DEF FairVotes
<1>. HIDE DEF q
<1>8. Sound(l.id, q)
  BY <1>2, <1>5, <1>7 DEF Sound
<1>. QED
  BY <1>1, <1>2, <1>5, <1>8, PutSound, FinishMoves, StoreStep

LEMMA ApproveSteps ==
  ASSUME TypeOK, HandlersInv, NEW g \in Goroutines, Approve(g)
  PROVE  TypeOK' /\ HandlersInv'
BY ApproveRuleStep, ApprovePuts, ApproveMoves, ExecuteStep, ApproveRollbackStep
   DEF Approve

LEMMA DenySteps ==
  ASSUME TypeOK, HandlersInv, NEW g \in Goroutines,
         DenyRule(g) \/ DenyMark(g) \/ DenyLog(g)
  PROVE  TypeOK' /\ HandlersInv'
<1>. DEFINE l == local[g]
<1>1. l.op = "deny"
  BY DEF DenyRule, DenyMark, DenyLog, At
<1>2. /\ l \in Local /\ LocalSound(l)
      /\ l.id \in ReqIDs
      /\ l.caller \in Callers
      /\ l.p \in PendingRequest
      /\ Sound(l.id, l.p)
      /\ l.p.status # "absent"
  BY <1>1, CopyFacts
<1>3. CASE DenyRule(g)
  <2>. DEFINE q == [l.p EXCEPT !.status = "denied"]
              l2 == [l EXCEPT !.pc = "deny", !.p = q]
  <2>1. /\ local' = [local EXCEPT ![g] = l2]
        /\ UNCHANGED <<now, storage, used, observed>>
    BY <1>3 DEF DenyRule, Continue
  <2>. HIDE DEF l
  <2>2. q \in PendingRequest /\ q.status = "denied" /\ Sound(l.id, q)
    BY <1>2 DEF PendingRequest, Sound
  <2>. HIDE DEF q
  <2>3. l2 \in Local
    BY <1>2, <2>2 DEF Local
  <2>4. LocalSound(l2)
    BY <1>1, <1>2, <2>2 DEF LocalSound, Local
  <2>. HIDE DEF l2
  <2>. QED
    BY <2>1, <2>3, <2>4, LocalStep DEF Moves
<1>4. CASE DenyMark(g)
  <2>1. /\ Put(l.id, l.p)
        /\ local' = [local EXCEPT ![g] = [l EXCEPT !.pc = "log"]]
        /\ UNCHANGED <<now, rules, history, used, observed>>
    BY <1>4 DEF DenyMark, Continue
  <2>. HIDE DEF l
  <2>2. [l EXCEPT !.pc = "log"] \in Local /\ LocalSound([l EXCEPT !.pc = "log"])
    BY <1>1, <1>2 DEF LocalSound, Local
  <2>. QED
    BY <1>2, <2>1, <2>2, PutSound, StoreStep DEF Moves
<1>5. CASE DenyLog(g)
  <2>1. /\ Log(l.id, "denied", l.caller.entity)
        /\ denied' = denied \cup {l.id}
        /\ Moves(g, IdleLocal)
        /\ UNCHANGED <<now, rules, pending, used, owner, selfRules, serial, minted,
                       delivered>>
    BY <1>5, FinishMoves DEF DenyLog
  <2>2. l.caller.entity \in EntityIDs
    BY <1>2, CallerType
  <2>3. history' \in [ReqIDs -> ApprovalHistoryEntry]
    BY <2>1, <2>2, LogType
  <2>4. denied' \subseteq ReqIDs
    BY <1>2, <2>1 DEF TypeOK
  <2>. QED
    BY <2>1, <2>3, <2>4, LogStep
<1>. QED
  BY <1>3, <1>4, <1>5

-----------------------------------------------------------------------------
(* Fetch                                                                   *)

LEMMA FetchGetStep ==
  ASSUME TypeOK, HandlersInv, NEW g \in Goroutines, NEW c \in Callers,
         NEW id \in ReqIDs, FetchGet(g, c, id)
  PROVE  TypeOK' /\ HandlersInv'
<1>. DEFINE p == pending[id]
            holds == p.status = "approved" /\ p.cred.kind # "nil"
            pc == IF holds /\ ~WindowPassed(p, now) THEN "burn" ELSE "lapsed"
            l == [IdleLocal EXCEPT !.pc = pc, !.caller = c, !.id = id, !.p = pending[id]]
<1>1. /\ p.status # "absent"
      /\ MayFetch(c, p)
      /\ Begin(g, "fetch", l)
      /\ UNCHANGED <<now, storage, used, observed>>
  <2>1. [IdleLocal EXCEPT !.caller = c, !.id = id, !.p = p, !.pc = pc] = l
    BY DEF IdleLocal
  <2>. QED
    BY <2>1 DEF FetchGet
<1>2. pc \in {"burn", "lapsed"}
  OBVIOUS
<1>. HIDE DEF pc
<1>3. l \in Local
  BY <1>2, CopyLocal
<1>4. LocalSound([l EXCEPT !.op = "fetch"])
  BY <1>1, <1>2 DEF LocalSound, IdleLocal, HandlersInv
<1>. HIDE DEF l
<1>. QED
  BY <1>1, <1>3, <1>4, BeginStep DEF AllHandlers

LEMMA FetchSteps ==
  ASSUME TypeOK, HandlersInv, NEW g \in Goroutines,
         \/ FetchLapsed(g) \/ FetchLog(g) \/ FetchBurn(g) \/ FetchDelete(g)
         \/ FetchRetrieved(g)
  PROVE  TypeOK' /\ HandlersInv'
<1>. DEFINE l == local[g]
<1>1. l.op = "fetch"
  BY DEF FetchLapsed, FetchLog, FetchBurn, FetchDelete, FetchRetrieved, At
<1>2. /\ l \in Local /\ LocalSound(l)
      /\ l.id \in ReqIDs
      /\ l.caller \in Callers
      /\ l.p \in PendingRequest
      /\ Sound(l.id, l.p)
      /\ l.p.status # "absent"
  BY <1>1, CopyFacts
<1>3. ASSUME NEW pc \in {"log", "burned", "respond", "answer"}
      PROVE  [l EXCEPT !.pc = pc] \in Local /\ LocalSound([l EXCEPT !.pc = pc])
  <2>. HIDE DEF l
  <2>. QED
    BY <1>1, <1>2 DEF LocalSound, Local
<1>4. ASSUME NEW pc \in {"log", "burned", "respond"},
             local' = [local EXCEPT ![g] = [l EXCEPT !.pc = pc]],
             UNCHANGED pending \/ Delete(l.id) \/ Put(l.id, [l.p EXCEPT !.cred = NilData]),
             UNCHANGED <<now, rules, history, used, observed>>
      PROVE  TypeOK' /\ HandlersInv'
  <2>1. Moves(g, [l EXCEPT !.pc = pc])
    BY <1>3, <1>4 DEF Moves
  <2>. HIDE DEF l
  <2>2. CASE UNCHANGED pending
    BY <1>4, <2>1, <2>2, StoreStep DEF TypeOK
  <2>3. CASE Delete(l.id)
    BY <1>4, <2>1, <2>3, DeleteSound, StoreStep
  <2>4. CASE Put(l.id, [l.p EXCEPT !.cred = NilData])
    <3>. DEFINE q == [l.p EXCEPT !.cred = NilData]
    <3>1. q \in PendingRequest /\ Sound(l.id, q)
      BY <1>2 DEF PendingRequest, CredentialData, NilData, Sound
    <3>. HIDE DEF q
    <3>2. Put(l.id, q)
      BY <2>4 DEF q
    <3>. QED
      BY <1>2, <1>4, <2>1, <3>1, <3>2, PutSound, StoreStep
  <2>. QED
    BY <1>4, <2>2, <2>3, <2>4
<1>5. CASE FetchLapsed(g) \/ FetchBurn(g) \/ FetchDelete(g)
  BY <1>4, <1>5 DEF FetchLapsed, FetchBurn, FetchDelete, Try, Continue
<1>6. CASE FetchLog(g)
  <2>. DEFINE by == IF l.p.status = "approved" THEN LastApprover(l.p) ELSE NoEntity
  <2>1. /\ Log(l.id, "expired", by)
        /\ Moves(g, IdleLocal)
        /\ UNCHANGED <<now, rules, pending, used, observed>>
    BY <1>6, FinishMoves DEF FetchLog
  <2>2. by \in EntityIDs
    BY <1>2, LastApproverType DEF EntityIDs
  <2>. HIDE DEF by
  <2>3. history' \in [ReqIDs -> ApprovalHistoryEntry]
    BY <2>1, <2>2, LogType
  <2>. QED
    BY <2>1, <2>3, LogStep DEF observed, TypeOK
<1>7. CASE FetchRetrieved(g)
  <2>1. /\ Log(l.id, "retrieved", LastApprover(l.p))
        /\ Moves(g, [l EXCEPT !.pc = "answer"])
        /\ UNCHANGED <<now, rules, pending, used, observed>>
    BY <1>3, <1>7 DEF FetchRetrieved, Continue, Moves
  <2>2. LastApprover(l.p) \in EntityIDs
    BY <1>2, LastApproverType
  <2>. HIDE DEF l
  <2>3. history' \in [ReqIDs -> ApprovalHistoryEntry]
    BY <1>2, <2>1, <2>2, LogType
  <2>. QED
    BY <2>1, <2>3, LogStep DEF observed, TypeOK
<1>. QED
  BY <1>5, <1>6, <1>7

\* The caller of the copy that is answered may fetch it, and a secret in the
\* copy was generated for the request.
LEMMA FetchRespondStep ==
  ASSUME TypeOK, HandlersInv, NEW g \in Goroutines, FetchRespond(g)
  PROVE  TypeOK' /\ HandlersInv'
<1>. DEFINE l == local[g]
            d == [to |-> l.caller, cred |-> l.p.cred]
<1>1. /\ l.op = "fetch"
      /\ delivered' = [delivered EXCEPT ![l.id] = Append(@, d)]
      /\ Moves(g, IdleLocal)
      /\ UNCHANGED <<now, rules, pending, history, used, owner, selfRules, serial,
                     minted, denied>>
  BY FinishMoves DEF FetchRespond, At, storage
<1>2. /\ l \in Local /\ LocalSound(l)
      /\ l.id \in ReqIDs
      /\ l.caller \in Callers
      /\ l.p \in PendingRequest
      /\ Sound(l.id, l.p)
      /\ l.p.status # "absent"
      /\ MayFetch(l.caller, l.p)
  <2>1. LocalSound(l)
    BY <1>1, CopyFacts
  <2>. QED
    BY <1>1, <2>1, CopyFacts DEF LocalSound
<1>. HIDE DEF l
<1>3. /\ l.id \in used
      /\ l.p.requester = owner[l.id]
      /\ l.p.cred.kind = "secret" => \E m \in minted[l.id] : m.serial = l.p.cred.serial
  BY <1>2 DEF Sound
<1>4. d \in Delivery /\ d.to = l.caller /\ d.cred = l.p.cred
  BY <1>2 DEF Delivery, PendingRequest
<1>. HIDE DEF d
<1>7. delivered' \in [ReqIDs -> Seq(Delivery)]
  <2>1. Append(delivered[l.id], d) \in Seq(Delivery)
    BY <1>2, <1>4 DEF TypeOK
  <2>. QED
    BY <1>1, <2>1 DEF TypeOK
<1>8. TypeOK'
  <2>1. local' \in [Goroutines -> Local]
    BY <1>1 DEF Moves, TypeOK
  <2>. QED
    BY <1>1, <1>7, <2>1 DEF TypeOK
<1>9. Grows
  BY <1>1 DEF Grows
<1>10. ASSUME NEW h \in Goroutines
       PROVE  LocalSound(local[h])'
  <2>1. LocalSound(local'[h])
    BY <1>1 DEF Moves, TypeOK, HandlersInv
  <2>. QED
    BY <1>9, <2>1, LocalSoundGrows
<1>11. ASSUME NEW id \in ReqIDs
       PROVE  Sound(id, pending[id])'
  BY <1>1, <1>9, SoundGrows DEF HandlersInv
<1>12. ASSUME NEW id \in ReqIDs \ used
       PROVE  minted'[id] = {} /\ delivered'[id] = <<>>
  BY <1>1, <1>3 DEF HandlersInv, TypeOK
<1>13. QuorumBehindSecret'
  BY <1>1 DEF HandlersInv, QuorumBehindSecret
<1>14. DeliveredToRequester'
  <2>. SUFFICES ASSUME NEW id \in ReqIDs, NEW i \in 1..Len(delivered'[id])
                PROVE  LET x == delivered'[id][i] IN
                       /\ IF owner[id] = NoEntity THEN x.to.root
                                                  ELSE x.to.entity = owner[id]
                       /\ x.cred.kind = "secret" =>
                            \E m \in minted[id] : m.serial = x.cred.serial
    BY <1>1 DEF DeliveredToRequester
  <2>. DEFINE s == delivered[id]
  <2>0. s \in Seq(Delivery) /\ Len(s) \in Nat
    BY DEF TypeOK
  <2>1. CASE delivered'[id] = s
    BY <2>1 DEF HandlersInv, DeliveredToRequester
  <2>2. CASE id = l.id /\ delivered'[id] = Append(s, d)
    <3>1. \/ i \in 1..Len(s) /\ delivered'[id][i] = s[i]
          \/ delivered'[id][i] = d
      BY <2>0, <2>2
    <3>2. CASE i \in 1..Len(s) /\ delivered'[id][i] = s[i]
      BY <3>2 DEF HandlersInv, DeliveredToRequester
    <3>3. CASE delivered'[id][i] = d
      BY <1>2, <1>3, <1>4, <2>2, <3>3 DEF MayFetch
    <3>. QED
      BY <3>1, <3>2, <3>3
  <2>3. \/ delivered'[id] = s
        \/ id = l.id /\ delivered'[id] = Append(s, d)
    BY <1>1, <1>2 DEF TypeOK
  <2>. QED
    BY <2>1, <2>2, <2>3
<1>. QED
  BY <1>1, <1>8, <1>10, <1>11, <1>12, <1>13, <1>14 DEF HandlersInv

-----------------------------------------------------------------------------
(* Interceptor                                                             *)

LEMMA ParkListStep ==
  ASSUME TypeOK, HandlersInv, NEW g \in Goroutines, NEW c \in Callers,
         NEW path \in Paths, ParkList(g, c, path)
  PROVE  TypeOK' /\ HandlersInv'
<1>1. PICK todo \in Listed({r \in RuleIDs : rules[r] # NoRule}) :
        Begin(g, "park", [IdleLocal EXCEPT !.pc = "match", !.caller = c,
                                           !.path = path, !.todo = todo])
  BY DEF ParkList
<1>. DEFINE l == [IdleLocal EXCEPT !.pc = "match", !.caller = c, !.path = path,
                                   !.todo = todo]
<1>2. todo \in SUBSET Nat
  BY ListedKeys, IDAssumption
<1>3. l \in Local
  BY <1>2, CallerType, IdleSound DEF Local
<1>4. LocalSound([l EXCEPT !.op = "park"])
  BY DEF LocalSound, IdleLocal
<1>5. Begin(g, "park", l)
  BY <1>1
<1>. HIDE DEF l
<1>. QED
  BY <1>3, <1>4, <1>5, BeginStep DEF ParkList, AllHandlers

LEMMA ParkMoves ==
  ASSUME TypeOK, HandlersInv, NEW g \in Goroutines, ParkMatch(g) \/ ParkScan(g)
  PROVE  TypeOK' /\ HandlersInv'
<1>. DEFINE l == local[g]
<1>1. /\ l \in Local /\ LocalSound(l)
      /\ l.op = "park"
      /\ UNCHANGED <<now, storage, used, observed>>
  BY DEF ParkMatch, ParkScan, At, TypeOK, HandlersInv
<1>2. CASE ParkMatch(g)
  <2>1. PICK r \in RuleIDs :
          \/ \E pc \in {"scan", "list"} :
               local' = [local EXCEPT ![g] = [l EXCEPT !.rid = r, !.todo = {}, !.pc = pc]]
          \/ local' = [local EXCEPT ![g] = [l EXCEPT !.todo = @ \ {r}]]
    BY <1>2 DEF ParkMatch, Continue
  <2>. HIDE DEF l
  <2>2. ASSUME NEW pc \in {"scan", "list"},
               local' = [local EXCEPT ![g] = [l EXCEPT !.rid = r, !.todo = {}, !.pc = pc]]
        PROVE  TypeOK' /\ HandlersInv'
    <3>1. [l EXCEPT !.rid = r, !.todo = {}, !.pc = pc] \in Local
      BY <1>1, IDAssumption DEF Local
    <3>2. LocalSound([l EXCEPT !.rid = r, !.todo = {}, !.pc = pc])
      BY <1>1 DEF Local, LocalSound
    <3>. QED
      BY <1>1, <2>2, <3>1, <3>2, LocalStep DEF Moves
  <2>3. CASE local' = [local EXCEPT ![g] = [l EXCEPT !.todo = @ \ {r}]]
    <3>1. [l EXCEPT !.todo = @ \ {r}] \in Local
      BY <1>1 DEF Local
    <3>2. LocalSound([l EXCEPT !.todo = @ \ {r}])
      BY <1>1 DEF Local, LocalSound
    <3>. QED
      BY <1>1, <2>3, <3>1, <3>2, LocalStep DEF Moves
  <2>. QED
    BY <2>1, <2>2, <2>3
<1>3. CASE ParkScan(g)
  <2>1. PICK todo \in Listed(LiveKeys) :
          local' = [local EXCEPT ![g] = [l EXCEPT !.pc = "scan", !.todo = todo]]
    BY <1>3 DEF ParkScan, Continue
  <2>2. todo \in SUBSET Nat /\ l.pc = "list"
    BY <1>3, ListedKeys, LiveKeysType DEF ParkScan, At
  <2>. HIDE DEF l
  <2>3. [l EXCEPT !.pc = "scan", !.todo = todo] \in Local
    BY <1>1, <2>2 DEF Local
  <2>4. LocalSound([l EXCEPT !.pc = "scan", !.todo = todo])
    BY <1>1, <2>2 DEF Local, LocalSound
  <2>. QED
    BY <1>1, <2>1, <2>3, <2>4, LocalStep DEF Moves
<1>. QED
  BY <1>2, <1>3

\* A request is parked under an ID that no entry, copy, execution or delivery
\* has had before.
LEMMA ParkStoreStep ==
  ASSUME TypeOK, HandlersInv, NEW g \in Goroutines, ParkStore(g)
  PROVE  TypeOK' /\ HandlersInv'
<1>. DEFINE l == local[g]
            e == NewPending(l.rid, l.path, l.caller, now)
<1>1. PICK id \in ReqIDs \ used :
        /\ Put(id, e)
        /\ used' = used \cup {id}
        /\ owner' = [owner EXCEPT ![id] = l.caller.entity]
  BY DEF ParkStore
<1>2. /\ l \in Local /\ LocalSound(l)
      /\ l.op = "park" /\ l.pc = "scan"
      /\ Moves(g, IdleLocal)
      /\ UNCHANGED <<now, rules, history, selfRules, serial, minted, delivered, denied>>
  BY FinishMoves DEF ParkStore, At, TypeOK, HandlersInv
<1>. HIDE DEF l
<1>3. l.caller \in Callers /\ l.path \in Paths /\ l.rid \in RuleIDs
  BY <1>2 DEF LocalSound
<1>4. /\ e \in PendingRequest
      /\ StorageEntryJSON(e) = e
      /\ e.requester = l.caller.entity
      /\ e.approvals = <<>>
      /\ e.cred.kind = "nil"
  <2>1. e \in PendingRequest
    BY <1>3, NewPendingType DEF TypeOK
  <2>. QED
    BY <2>1 DEF NewPending, StorageEntryJSON, NilData
<1>. HIDE DEF e
<1>5. l.caller.entity \in EntityIDs
  BY <1>3, CallerType
<1>6. /\ pending' = [pending EXCEPT ![id] = e]
      /\ owner'[id] = l.caller.entity
      /\ \A j \in ReqIDs : j # id => owner'[j] = owner[j] /\ pending'[j] = pending[j]
      /\ pending'[id] = e
  BY <1>1, <1>4 DEF Put, TypeOK
<1>7. TypeOK'
  <2>1. local' \in [Goroutines -> Local]
    BY <1>2 DEF Moves, TypeOK
  <2>2. pending' \in [ReqIDs -> PendingRequest] /\ owner' \in [ReqIDs -> EntityIDs]
    BY <1>1, <1>4, <1>5, <1>6 DEF TypeOK
  <2>. QED
    BY <1>1, <1>2, <2>1, <2>2 DEF TypeOK
<1>8. Grows
  BY <1>1, <1>2, <1>6 DEF Grows, TypeOK
<1>9. ASSUME NEW h \in Goroutines
      PROVE  LocalSound(local[h])'
  <2>1. LocalSound(local'[h])
    BY <1>2 DEF Moves, TypeOK, HandlersInv
  <2>. QED
    BY <1>8, <2>1, LocalSoundGrows
<1>10. ASSUME NEW j \in ReqIDs
       PROVE  Sound(j, pending[j])'
  <2>1. CASE j # id
    BY <1>6, <1>8, <2>1, SoundGrows DEF HandlersInv
  <2>2. CASE j = id
    <3>1. FairVotes(<<>>, l.caller.entity, e.rule, selfRules)
      BY DEF FairVotes
    <3>. QED
      BY <1>1, <1>2, <1>4, <1>6, <2>2, <3>1 DEF Sound
  <2>. QED
    BY <2>1, <2>2
<1>11. minted[id] = {} /\ delivered[id] = <<>>
  BY DEF HandlersInv
<1>12. QuorumBehindSecret'
  BY <1>2, <1>6, <1>11 DEF HandlersInv, QuorumBehindSecret
<1>13. DeliveredToRequester'
  BY <1>2, <1>6, <1>11 DEF HandlersInv, DeliveredToRequester
<1>. QED
  BY <1>1, <1>2, <1>7, <1>9, <1>10, <1>12, <1>13 DEF HandlersInv

-----------------------------------------------------------------------------
(* Every step                                                              *)

LEMMA HandlersInit == Init => TypeOK /\ HandlersInv
<1>. SUFFICES ASSUME Init PROVE TypeOK /\ HandlersInv
  OBVIOUS
<1>1. NoHistory \in ApprovalHistoryEntry
  BY DEF NoHistory, ApprovalHistoryEntry, EntityIDs
<1>2. TypeOK
  BY <1>1, NoRequestType, IdleSound DEF Init, TypeOK, EntityIDs
<1>3. HandlersInv
  BY IdleSound DEF Init, HandlersInv, Sound, NoRequest, NoRule, QuorumBehindSecret,
                   DeliveredToRequester
<1>. QED
  BY <1>2, <1>3

\* A handler that looks at history/ only, the clock and stuttering.
LEMMA IdleSteps ==
  ASSUME TypeOK, HandlersInv,
         \/ Tick
         \/ \E g \in Goroutines, c \in Callers : HistoryRead(g, c)
         \/ UNCHANGED vars
  PROVE  TypeOK' /\ HandlersInv'
<1>1. /\ now' \in Nat
      /\ history' \in [ReqIDs -> ApprovalHistoryEntry]
      /\ UNCHANGED <<rules, pending, used, local, observed>>
  BY PurgeType DEF Tick, HistoryRead, vars, storage, TypeOK
<1>2. TypeOK'
  BY <1>1 DEF TypeOK, observed
<1>3. Grows
  BY <1>1 DEF Grows, observed
<1>4. ASSUME NEW h \in Goroutines
      PROVE  LocalSound(local[h])'
  BY <1>1, <1>3, LocalSoundGrows DEF HandlersInv
<1>5. ASSUME NEW id \in ReqIDs
      PROVE  Sound(id, pending[id])'
  BY <1>1, <1>3, SoundGrows DEF HandlersInv
<1>6. QuorumBehindSecret' /\ DeliveredToRequester'
  BY <1>1 DEF HandlersInv, QuorumBehindSecret, DeliveredToRequester, observed
<1>. QED
  BY <1>1, <1>2, <1>4, <1>5, <1>6 DEF HandlersInv, observed

LEMMA HandlersNext ==
  TypeOK /\ HandlersInv /\ [Next]_vars => TypeOK' /\ HandlersInv'
<1>. SUFFICES ASSUME TypeOK, HandlersInv, [Next]_vars PROVE TypeOK' /\ HandlersInv'
  OBVIOUS
<1>1. ASSUME NEW g \in Goroutines, Step(g)
      PROVE  TypeOK' /\ HandlersInv'
  <2>1. CASE \E r \in RuleIDs : SweepList(g, r) \/ \E w \in RuleWrites : RuleGet(g, r, w)
    BY <2>1, ListSteps, RuleGetStep
  <2>2. CASE \E c \in Callers, id \in ReqIDs :
               \/ \E op \in {"approve", "deny"} : DecideGet(g, c, id, op)
               \/ FetchGet(g, c, id)
               \/ PendingRead(g, c, id)
    BY <2>2, DecideGetStep, FetchGetStep, ListSteps
  <2>3. CASE \E c \in Callers : \/ \E path \in Paths : ParkList(g, c, path)
                                \/ ApprovableList(g, c)
                                \/ MyRequestsList(g, c)
                                \/ HistoryRead(g, c)
    BY <2>3, ParkListStep, ListSteps, IdleSteps
  <2>4. CASE RulePut(g) \/ DecideNoRule(g) \/ DecideRemove(g)
    BY <2>4, RulePutStep, DecideNoRuleStep, DecideRemoveStep
  <2>5. CASE Approve(g) \/ DenyRule(g) \/ DenyMark(g) \/ DenyLog(g)
    BY <2>5, ApproveSteps, DenySteps
  <2>6. CASE Fetch(g)
    BY <2>6, FetchSteps, FetchRespondStep DEF Fetch
  <2>7. CASE ParkMatch(g) \/ ParkScan(g) \/ ParkStore(g)
    BY <2>7, ParkMoves, ParkStoreStep
  <2>8. CASE Scan(g)
    BY <2>8, ScanSteps
  <2>9. CASE Return(g)
    BY <2>9, FinishMoves, LocalStep DEF Return
  <2>. QED
    BY <1>1, <2>1, <2>2, <2>3, <2>4, <2>5, <2>6, <2>7, <2>8, <2>9 DEF Step
<1>. QED
  BY <1>1, IdleSteps DEF Next

LEMMA HandlersCorrect == Spec => [](TypeOK /\ HandlersInv)
BY HandlersInit, HandlersNext, PTL DEF Spec

\* Storage and the handlers' copies keep their shapes in every interleaving: a
\* handler that goes on after another one deleted or overwrote its entry never
\* writes what the others could not decode.
THEOREM TypeCorrect == Spec => []TypeOK
BY HandlersCorrect, PTL

\* The approval quorum survives every interleaving, every lost, repeated or
\* rolled back vote, every failed put and every crash: behind each secret that
\* executeApprovedRequest obtained stand as many distinct approvers as the rule
\* required when the deciding handler read it.
THEOREM Quorum == Spec => []QuorumBehindSecret
<1>1. HandlersInv => QuorumBehindSecret
  BY DEF HandlersInv
<1>. QED
  BY <1>1, HandlersCorrect, PTL

\* Whatever overlaps, handleApprovalFetch hands a credential to the requester
\* of its entry only, and only a secret generated for that request.
THEOREM RightRequester == Spec => []DeliveredToRequester
<1>1. HandlersInv => DeliveredToRequester
  BY DEF HandlersInv
<1>. QED
  BY <1>1, HandlersCorrect, PTL

=============================================================================
