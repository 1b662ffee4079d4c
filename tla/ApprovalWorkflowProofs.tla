----------------------- MODULE ApprovalWorkflowProofs -----------------------
(***************************************************************************)
(* Proofs about ApprovalWorkflow, for every set of entities, callers,       *)
(* paths, rules and request IDs, every rule write and all time limits.      *)
(***************************************************************************)
EXTENDS ApprovalWorkflow, ApprovalDataProofs, TLAPS

-----------------------------------------------------------------------------
(* Type correctness                                                        *)

LEMMA WithoutType ==
  ASSUME TypeOK, NEW ids
  PROVE  Without(ids) \in [ReqIDs -> PendingRequest]
BY NoRequestType DEF Without, TypeOK

\* A secret that ApproveExecute records is an execution of the request.
LEMMA ExecutionType ==
  ASSUME NEW p \in PendingRequest, NEW c \in Callers, NEW n \in Nat,
         NEW r \in RuleIDs, NEW rule \in ApprovalRule
  PROVE  [serial |-> n, rule |-> r,
          approvals |-> [WithVote(p, c) EXCEPT !.status = "approved"].approvals,
          required |-> rule.required] \in Execution
<1>1. [WithVote(p, c) EXCEPT !.status = "approved"].approvals \in Seq(EntityIDs)
  BY WithVoteType DEF PendingRequest
<1>. QED
  BY <1>1 DEF Execution, ApprovalRule

LEMMA TypeInit == Init => TypeOK
<1>1. NoHistory \in ApprovalHistoryEntry
  BY DEF NoHistory, ApprovalHistoryEntry, EntityIDs
<1>. QED
  BY <1>1, NoRequestType DEF Init, TypeOK, EntityIDs

LEMMA TypeNext == TypeOK /\ [Next]_vars => TypeOK'
<1>. SUFFICES ASSUME TypeOK, [Next]_vars PROVE TypeOK'
  OBVIOUS
<1>1. CASE Tick
  BY <1>1 DEF Tick, TypeOK, storage, observed
<1>2. ASSUME NEW r \in RuleIDs, NEW w \in RuleWrites, handleApprovalRuleWrite(r, w)
      PROVE  TypeOK'
  <2>1. MergedRule(rules[r], w) \in ApprovalRule
    BY <1>2, MergedRuleType DEF handleApprovalRuleWrite, TypeOK
  <2>. QED
    BY <1>2, <2>1 DEF handleApprovalRuleWrite, TypeOK
<1>3. ASSUME NEW r \in RuleIDs, handleApprovalRuleDelete(r)
      PROVE  TypeOK'
  BY <1>3, WithoutType DEF handleApprovalRuleDelete, TypeOK, observed
<1>4. ASSUME NEW c \in Callers, NEW op \in Ops, NEW path \in Paths,
             ParkRequest(c, op, path)
      PROVE  TypeOK'
  <2>1. PICK r \in RuleIDs, id \in ReqIDs \ used :
          /\ pending' = [Without({k \in OwnEntries(c, path) : StaleRequest(pending[k], now)})
                           EXCEPT ![id] = NewPending(r, path, c, now)]
          /\ used' = used \cup {id}
          /\ owner' = [owner EXCEPT ![id] = c.entity]
    BY <1>4 DEF ParkRequest
  <2>2. pending' \in [ReqIDs -> PendingRequest]
    BY <2>1, WithoutType, NewPendingType DEF TypeOK
  <2>3. owner' \in [ReqIDs -> EntityIDs]
    BY <2>1, CallerAssumption DEF TypeOK
  <2>. QED
    BY <1>4, <2>1, <2>2, <2>3 DEF ParkRequest, TypeOK
<1>5. ASSUME NEW c \in Callers, NEW op \in Ops, NEW path \in Paths,
             BlockDuplicate(c, op, path)
      PROVE  TypeOK'
  BY <1>5, WithoutType DEF BlockDuplicate, TypeOK, observed
<1>6. ASSUME NEW id \in ReqIDs, DropUndecided(id)
      PROVE  TypeOK'
  BY <1>6, WithoutType DEF DropUndecided, TypeOK, observed
<1>7. ASSUME NEW c \in Callers, NEW id \in ReqIDs, NEW r \in RuleIDs,
             ApproveVote(c, id, r)
      PROVE  TypeOK'
  <2>1. pending' \in [ReqIDs -> PendingRequest]
    BY <1>7, WithVoteType DEF ApproveVote, TypeOK
  <2>. QED
    BY <1>7, <2>1 DEF ApproveVote, TypeOK, observed
<1>8. ASSUME NEW c \in Callers, NEW id \in ReqIDs, NEW r \in RuleIDs,
             NEW kind \in {"secret", "error", "empty"},
             ApproveExecute(c, id, r, kind)
      PROVE  TypeOK'
  <2>. DEFINE n == IF kind = "secret" THEN serial + 1 ELSE 0
              vote == WithVote(pending[id], c)
              e == StorageEntryJSON(WithCredential([vote EXCEPT !.status = "approved"],
                                                   [kind |-> kind, serial |-> n], now))
              m == [serial |-> serial + 1, rule |-> r,
                    approvals |-> [vote EXCEPT !.status = "approved"].approvals,
                    required |-> rules[r].required]
  <2>1. serial + 1 \in Nat /\ n \in Nat /\ now \in Nat /\ vote \in PendingRequest
    BY WithVoteType DEF TypeOK
  <2>2. rules[r] \in ApprovalRule
    BY <1>8 DEF ApproveExecute, Decidable, TypeOK
  <2>3. e \in PendingRequest
    <3>. HIDE DEF n, vote
    <3>. QED
      BY <2>1, ExecutedType
  <2>4. m \in Execution
    BY <2>1, <2>2, ExecutionType DEF TypeOK
  <2>5. pending' = [pending EXCEPT ![id] = e]
    BY <1>8 DEF ApproveExecute
  <2>6. IF kind = "secret"
        THEN serial' = serial + 1 /\ minted' = [minted EXCEPT ![id] = @ \cup {m}]
        ELSE UNCHANGED <<serial, minted>>
    BY <1>8 DEF ApproveExecute
  <2>. HIDE DEF e, m, n
  <2>7. pending' \in [ReqIDs -> PendingRequest]
    BY <2>3, <2>5 DEF TypeOK
  <2>8. serial' \in Nat /\ minted' \in [ReqIDs -> SUBSET Execution]
    <3>1. CASE kind = "secret"
      <4>1. minted[id] \cup {m} \in SUBSET Execution
        BY <2>4 DEF TypeOK
      <4>. QED
        BY <2>1, <2>6, <3>1, <4>1 DEF TypeOK
    <3>2. CASE kind # "secret"
      BY <2>6, <3>2 DEF TypeOK
    <3>. QED
      BY <3>1, <3>2
  <2>. QED
    BY <1>8, <2>7, <2>8 DEF ApproveExecute, TypeOK
<1>9. ASSUME NEW c \in Callers, NEW id \in ReqIDs, NEW r \in RuleIDs,
             DenyRequest(c, id, r)
      PROVE  TypeOK'
  <2>1. HistoryEntry("denied", c.entity, now) \in ApprovalHistoryEntry
    BY CallerAssumption, HistoryEntryType DEF TypeOK
  <2>2. pending' \in [ReqIDs -> PendingRequest]
    BY <1>9 DEF DenyRequest, TypeOK, PendingRequest
  <2>. QED
    BY <1>9, <2>1, <2>2 DEF DenyRequest, TypeOK, observed
<1>10. ASSUME NEW c \in Callers, NEW id \in ReqIDs, handleApprovalFetch(c, id)
       PROVE  TypeOK'
  <2>1. /\ LastApprover(pending[id]) \in EntityIDs
        /\ NoEntity \in EntityIDs
        /\ now \in Nat
    BY LastApproverType DEF TypeOK, EntityIDs
  <2>2. CASE FetchExpired(id)
    BY <2>1, <2>2, WithoutType, HistoryEntryType DEF FetchExpired, TypeOK, observed
  <2>3. CASE FetchLapsed(id)
    BY <2>1, <2>3, WithoutType, HistoryEntryType DEF FetchLapsed, TypeOK, observed
  <2>4. CASE FetchCredential(c, id)
    <3>. DEFINE d == [to |-> c, cred |-> pending[id].cred,
                      approvedAt |-> pending[id].approvedAt, at |-> now]
    <3>1. d \in Delivery
      BY DEF Delivery, TypeOK, PendingRequest
    <3>2. delivered' = [delivered EXCEPT ![id] = Append(@, d)]
      BY <2>4 DEF FetchCredential
    <3>. HIDE DEF d
    <3>3. delivered' \in [ReqIDs -> Seq(Delivery)]
      BY <3>1, <3>2 DEF TypeOK
    <3>4. history' \in [ReqIDs -> ApprovalHistoryEntry]
      BY <2>1, <2>4, HistoryEntryType DEF FetchCredential, TypeOK
    <3>. QED
      BY <2>4, <3>3, <3>4, WithoutType DEF FetchCredential, TypeOK
  <2>. QED
    BY <1>10, <2>2, <2>3, <2>4 DEF handleApprovalFetch
<1>11. ASSUME NEW c \in Callers, NEW id \in ReqIDs, handleApprovalPendingRead(c, id)
       PROVE  TypeOK'
  BY <1>11, WithoutType DEF handleApprovalPendingRead, TypeOK, observed
<1>12. ASSUME NEW c \in Callers, handleApprovalApprovable(c)
       PROVE  TypeOK'
  BY <1>12, WithoutType DEF handleApprovalApprovable, TypeOK, observed
<1>13. listAllHistoryEntries => history' \in [ReqIDs -> ApprovalHistoryEntry]
  BY DEF listAllHistoryEntries, TypeOK, NoHistory, ApprovalHistoryEntry, EntityIDs
<1>14. ASSUME NEW c \in Callers, handleApprovalMyRequests(c)
       PROVE  TypeOK'
  BY <1>13, <1>14, WithoutType DEF handleApprovalMyRequests, TypeOK, observed
<1>15. ASSUME NEW c \in Callers, handleApprovalHistory(c)
       PROVE  TypeOK'
  BY <1>13, <1>15 DEF handleApprovalHistory, TypeOK, observed
<1>16. CASE UNCHANGED vars
  BY <1>16 DEF vars, TypeOK
<1>. QED
  BY <1>1, <1>2, <1>3, <1>4, <1>5, <1>6, <1>7, <1>8, <1>9, <1>10, <1>11, <1>12,
     <1>14, <1>15, <1>16 DEF Next, handleApprovalApprove, handleApprovalDeny

\* Storage keeps the shapes the handlers rely on when they decode it: rules
\* with a threshold of at least one, entries with one of the three statuses.
THEOREM TypeCorrect == Spec => []TypeOK
BY TypeInit, TypeNext, PTL DEF Spec

-----------------------------------------------------------------------------
(* Deduplication                                                           *)

Live(p) == p.status \in {"pending", "approved"}

\* What every step but ParkRequest does to the live entries.
NoNewLive ==
  \A id \in ReqIDs :
    Live(pending'[id]) => /\ Live(pending[id])
                          /\ pending'[id].requester = pending[id].requester
                          /\ pending'[id].path = pending[id].path

\* Deleting entries makes none live.
LEMMA WithoutNotLive ==
  ASSUME NEW ids, pending' = Without(ids)
  PROVE  NoNewLive
BY DEF Without, NoNewLive, Live, NoRequest

LEMMA UnchangedNotLive ==
  ASSUME pending' = pending
  PROVE  NoNewLive
BY DEF NoNewLive

LEMMA NoNewLiveKeepsOne ==
  ASSUME OneLiveRequest, NoNewLive
  PROVE  OneLiveRequest'
BY DEF OneLiveRequest, NoNewLive, Live

\* A request is parked only when the scan has left no live entry of the same
\* requester and path: one that blocks stops it, one that does not is deleted.
LEMMA ParkKeepsOne ==
  ASSUME TypeOK, OneLiveRequest,
         NEW c \in Callers, NEW op \in Ops, NEW path \in Paths,
         ParkRequest(c, op, path)
  PROVE  OneLiveRequest'
<1>. DEFINE own == OwnEntries(c, path)
            stale == {k \in own : StaleRequest(pending[k], now)}
<1>1. PICK r \in RuleIDs, id \in ReqIDs \ used :
        pending' = [Without(stale) EXCEPT ![id] = NewPending(r, path, c, now)]
  BY DEF ParkRequest
<1>2. /\ pending'[id].requester = c.entity
      /\ pending'[id].path = path
  BY <1>1 DEF Without, NewPending
<1>3. ASSUME NEW j \in ReqIDs, j # id, Live(pending'[j])
      PROVE  Live(pending[j]) /\ pending'[j] = pending[j]
  BY <1>1, <1>3 DEF Without, Live, NoRequest
<1>4. ASSUME NEW j \in ReqIDs, j # id, Live(pending'[j]), c.entity # NoEntity
      PROVE  ~(pending'[j].requester = c.entity /\ pending'[j].path = path)
  <2>. SUFFICES ASSUME pending'[j].requester = c.entity, pending'[j].path = path
                PROVE  FALSE
    OBVIOUS
  <2>1. j \in own
    BY <1>3, <1>4 DEF OwnEntries, SameRequest, Live
  <2>2. ~ActiveRequest(pending[j], now)
    BY <2>1 DEF ParkRequest
  <2>3. j \in stale
    BY <1>3, <1>4, <2>1, <2>2 DEF StaleRequest, Live
  <2>4. pending'[j] = NoRequest
    BY <1>1, <1>4, <2>3 DEF Without
  <2>. QED
    BY <1>4, <2>4 DEF NoRequest, Live
<1>. HIDE DEF own, stale
<1>5. ASSUME NEW i \in ReqIDs, NEW j \in ReqIDs, i # j,
             Live(pending'[i]), Live(pending'[j]),
             pending'[i].requester # NoEntity,
             pending'[i].path = pending'[j].path
      PROVE  pending'[i].requester # pending'[j].requester
  <2>1. CASE i = id
    BY <1>2, <1>4, <1>5, <2>1
  <2>2. CASE j = id
    BY <1>2, <1>4, <1>5, <2>2
  <2>3. CASE i # id /\ j # id
    BY <1>3, <1>5, <2>3 DEF OneLiveRequest, Live
  <2>. QED
    BY <2>1, <2>2, <2>3
<1>. QED
  BY <1>5 DEF OneLiveRequest, Live

LEMMA OneLiveNext == TypeOK /\ OneLiveRequest /\ [Next]_vars => OneLiveRequest'
<1>. SUFFICES ASSUME TypeOK, OneLiveRequest, [Next]_vars PROVE OneLiveRequest'
  OBVIOUS
<1>1. ASSUME NEW c \in Callers, NEW op \in Ops, NEW path \in Paths,
             ParkRequest(c, op, path)
      PROVE  OneLiveRequest'
  BY <1>1, ParkKeepsOne
<1>2. ASSUME NEW c \in Callers, NEW id \in ReqIDs, NEW r \in RuleIDs,
             ApproveVote(c, id, r)
      PROVE  NoNewLive
  BY <1>2 DEF ApproveVote, Decidable, WithVote, NoNewLive, Live, TypeOK,
              PendingRequest
<1>3. ASSUME NEW c \in Callers, NEW id \in ReqIDs, NEW r \in RuleIDs, NEW kind,
             ApproveExecute(c, id, r, kind)
      PROVE  NoNewLive
  <2>. DEFINE data == [kind |-> kind,
                       serial |-> IF kind = "secret" THEN serial + 1 ELSE 0]
              e == StorageEntryJSON(WithCredential(
                     [WithVote(pending[id], c) EXCEPT !.status = "approved"],
                     data, now))
  <2>1. pending' = [pending EXCEPT ![id] = e] /\ Live(pending[id])
    BY <1>3 DEF ApproveExecute, Decidable, Live
  <2>2. e.requester = pending[id].requester /\ e.path = pending[id].path
    BY DEF StorageEntryJSON, WithCredential, WithVote, TypeOK, PendingRequest
  <2>. HIDE DEF e
  <2>. QED
    BY <2>1, <2>2 DEF NoNewLive, TypeOK
<1>4. ASSUME NEW c \in Callers, NEW id \in ReqIDs, NEW r \in RuleIDs,
             DenyRequest(c, id, r)
      PROVE  NoNewLive
  BY <1>4 DEF DenyRequest, NoNewLive, Live, TypeOK, PendingRequest
<1>5. ASSUME NEW id \in ReqIDs, DropUndecided(id)
      PROVE  NoNewLive
  BY <1>5, WithoutNotLive DEF DropUndecided
<1>6. ASSUME NEW c \in Callers, NEW id \in ReqIDs,
             handleApprovalFetch(c, id) \/ handleApprovalPendingRead(c, id)
      PROVE  NoNewLive
  BY <1>6, WithoutNotLive
     DEF handleApprovalFetch, FetchExpired, FetchLapsed, FetchCredential,
         handleApprovalPendingRead
<1>7. ASSUME NEW c \in Callers,
             \/ handleApprovalApprovable(c)
             \/ handleApprovalMyRequests(c)
             \/ handleApprovalHistory(c)
      PROVE  NoNewLive
  BY <1>7, WithoutNotLive, UnchangedNotLive
     DEF handleApprovalApprovable, handleApprovalMyRequests, handleApprovalHistory
<1>8. ASSUME NEW c \in Callers, NEW op \in Ops, NEW path \in Paths,
             BlockDuplicate(c, op, path)
      PROVE  NoNewLive
  BY <1>8, WithoutNotLive DEF BlockDuplicate
<1>9. ASSUME NEW r \in RuleIDs,
             \/ handleApprovalRuleDelete(r)
             \/ \E w \in RuleWrites : handleApprovalRuleWrite(r, w)
      PROVE  NoNewLive
  BY <1>9, WithoutNotLive, UnchangedNotLive
     DEF handleApprovalRuleDelete, handleApprovalRuleWrite
<1>10. Tick \/ UNCHANGED vars => NoNewLive
  BY UnchangedNotLive DEF Tick, storage, vars
<1>. QED
  BY <1>1, <1>2, <1>3, <1>4, <1>5, <1>6, <1>7, <1>8, <1>9, <1>10, NoNewLiveKeepsOne
     DEF Next, handleApprovalApprove, handleApprovalDeny

\* Deduplication holds for any number of users, paths and requests: when
\* requests do not overlap, checkActiveApprovalRequest never lets a requester
\* have two undecided or approved entries for one path.
THEOREM Deduplication == Spec => []OneLiveRequest
<1>1. Init => OneLiveRequest
  BY DEF Init, OneLiveRequest, NoRequest
<1>. QED
  BY <1>1, OneLiveNext, TypeCorrect, PTL DEF Spec

-----------------------------------------------------------------------------
(* Quorum and single execution                                             *)

QuorumInv == Recorded /\ VotesSound /\ SingleExecution /\ QuorumBehindSecret

\* Votes stay fair when rules are added to those that have allowed
\* self-approval.
LEMMA FairVotesGrow ==
  ASSUME selfRules \subseteq selfRules', NEW vote, NEW o, NEW r,
         FairVotes(vote, o, r, selfRules)
  PROVE  FairVotes(vote, o, r, selfRules)'
BY DEF FairVotes

\* A step that only deletes entries, and neither parks nor executes, keeps the
\* invariant.
LEMMA QuorumFrame ==
  ASSUME QuorumInv,
         \A id \in ReqIDs : pending'[id].status = "absent" \/ pending'[id] = pending[id],
         \A r \in RuleIDs : rules'[r].self => r \in selfRules',
         selfRules \subseteq selfRules',
         UNCHANGED <<used, owner, minted>>
  PROVE  QuorumInv'
<1>1. Recorded'
  BY DEF QuorumInv, Recorded
<1>2. VotesSound'
  BY FairVotesGrow DEF QuorumInv, VotesSound
<1>3. SingleExecution'
  BY DEF QuorumInv, SingleExecution
<1>4. QuorumBehindSecret'
  BY FairVotesGrow DEF QuorumInv, QuorumBehindSecret
<1>. QED
  BY <1>1, <1>2, <1>3, <1>4 DEF QuorumInv

LEMMA WithoutFrame ==
  ASSUME NEW ids, pending' = Without(ids)
  PROVE  \A id \in ReqIDs : pending'[id].status = "absent" \/ pending'[id] = pending[id]
BY DEF Without, NoRequest

LEMMA QuorumPark ==
  ASSUME TypeOK, QuorumInv,
         NEW c \in Callers, NEW op \in Ops, NEW path \in Paths,
         ParkRequest(c, op, path)
  PROVE  QuorumInv'
<1>. DEFINE stale == {k \in OwnEntries(c, path) : StaleRequest(pending[k], now)}
<1>1. PICK r \in RuleIDs, id \in ReqIDs \ used :
        /\ pending' = [Without(stale) EXCEPT ![id] = NewPending(r, path, c, now)]
        /\ used' = used \cup {id}
        /\ owner' = [owner EXCEPT ![id] = c.entity]
  BY DEF ParkRequest
<1>2. UNCHANGED <<rules, selfRules, minted>>
  BY DEF ParkRequest
<1>. HIDE DEF stale
<1>3. /\ pending'[id] = NewPending(r, path, c, now)
      /\ owner'[id] = c.entity
      /\ minted[id] = {}
  BY <1>1 DEF Without, TypeOK, QuorumInv, Recorded
<1>4. ASSUME NEW j \in ReqIDs, j # id
      PROVE  /\ pending'[j].status = "absent" \/ pending'[j] = pending[j]
             /\ owner'[j] = owner[j]
  BY <1>1, <1>4 DEF Without, NoRequest, TypeOK
<1>5. Recorded'
  BY <1>1, <1>2, <1>3, <1>4 DEF QuorumInv, Recorded
<1>6. ASSUME NEW j \in ReqIDs, pending'[j].status # "absent"
      PROVE  /\ pending'[j].requester = owner'[j]
             /\ FairVotes(pending[j].approvals, owner[j], pending[j].rule, selfRules)'
  <2>1. CASE j = id
    BY <1>3, <2>1 DEF NewPending, FairVotes
  <2>2. CASE j # id
    BY <1>2, <1>4, <1>6, <2>2 DEF QuorumInv, VotesSound, FairVotes
  <2>. QED
    BY <2>1, <2>2
<1>7. VotesSound'
  BY <1>2, <1>6 DEF QuorumInv, VotesSound
<1>8. SingleExecution'
  BY <1>2 DEF QuorumInv, SingleExecution
<1>9. QuorumBehindSecret'
  BY <1>2, <1>3, <1>4 DEF QuorumInv, QuorumBehindSecret, FairVotes
<1>. QED
  BY <1>5, <1>7, <1>8, <1>9 DEF QuorumInv

\* An accepted vote, recorded with status st and whatever credential, keeps the
\* votes of the entry fair.
LEMMA QuorumVote ==
  ASSUME TypeOK, QuorumInv,
         NEW c \in Callers, NEW id \in ReqIDs, NEW r \in RuleIDs,
         Decidable(id, r), MayApprove(c, pending[id], rules[r]),
         NEW e \in PendingRequest,
         e.status \in {"pending", "approved"},
         e.requester = pending[id].requester,
         e.rule = pending[id].rule,
         e.approvals = Append(pending[id].approvals, c.entity),
         pending' = [pending EXCEPT ![id] = e],
         UNCHANGED <<rules, used, owner, selfRules>>
  PROVE  /\ VotesSound'
         /\ FairVotes(e.approvals, owner[id], r, selfRules)
         /\ minted[id] = {} /\ id \in used
<1>1. /\ pending[id] \in PendingRequest
      /\ pending[id].status = "pending"
      /\ r = pending[id].rule
      /\ rules[r] \in ApprovalRule
  BY DEF Decidable, TypeOK
<1>2. /\ pending[id].requester = owner[id]
      /\ FairVotes(pending[id].approvals, pending[id].requester, r, selfRules)
      /\ rules[r].self => r \in selfRules
  BY <1>1 DEF QuorumInv, VotesSound
<1>3. FairVotes(e.approvals, owner[id], r, selfRules)
  <2>1. FairVotes(Append(pending[id].approvals, c.entity), pending[id].requester, r, selfRules)
    BY <1>1, <1>2, VoteStaysFair
  <2>. QED
    BY <1>2, <2>1
<1>4. minted[id] = {} /\ id \in used
  BY <1>1 DEF QuorumInv, Recorded
<1>5. ASSUME NEW j \in ReqIDs, pending'[j].status # "absent"
      PROVE  /\ pending'[j].requester = owner'[j]
             /\ FairVotes(pending[j].approvals, owner[j], pending[j].rule, selfRules)'
  <2>1. CASE j = id
    <3>1. pending'[j] = e
      BY <2>1 DEF TypeOK
    <3>. QED
      BY <1>1, <1>2, <1>3, <2>1, <3>1, FairVotesGrow
  <2>2. CASE j # id
    <3>1. pending'[j] = pending[j]
      BY <2>2 DEF TypeOK
    <3>. QED
      BY <1>5, <3>1, FairVotesGrow DEF QuorumInv, VotesSound
  <2>. QED
    BY <2>1, <2>2
<1>6. VotesSound'
  BY <1>5 DEF QuorumInv, VotesSound
<1>. QED
  BY <1>3, <1>4, <1>6

LEMMA QuorumApproveVote ==
  ASSUME TypeOK, QuorumInv,
         NEW c \in Callers, NEW id \in ReqIDs, NEW r \in RuleIDs,
         ApproveVote(c, id, r)
  PROVE  QuorumInv'
<1>. DEFINE e == WithVote(pending[id], c)
<1>1. /\ Decidable(id, r)
      /\ MayApprove(c, pending[id], rules[r])
      /\ pending' = [pending EXCEPT ![id] = e]
      /\ UNCHANGED <<rules, used, owner, selfRules, minted>>
  BY DEF ApproveVote, observed
<1>2. pending[id] \in PendingRequest /\ pending[id].status = "pending"
  BY <1>1 DEF Decidable, TypeOK
<1>3. /\ e \in PendingRequest
      /\ e.status = "pending"
      /\ e.requester = pending[id].requester
      /\ e.rule = pending[id].rule
      /\ e.approvals = Append(pending[id].approvals, c.entity)
  BY <1>2, WithVoteType DEF WithVote, PendingRequest
<1>. HIDE DEF e
<1>4. VotesSound' /\ minted[id] = {} /\ id \in used
  BY <1>1, <1>3, QuorumVote
<1>5. Recorded'
  BY <1>1, <1>3, <1>4 DEF QuorumInv, Recorded, TypeOK
<1>6. SingleExecution' /\ QuorumBehindSecret'
  BY <1>1 DEF QuorumInv, SingleExecution, QuorumBehindSecret, FairVotes
<1>. QED
  BY <1>4, <1>5, <1>6 DEF QuorumInv

LEMMA QuorumApproveExecute ==
  ASSUME TypeOK, QuorumInv,
         NEW c \in Callers, NEW id \in ReqIDs, NEW r \in RuleIDs,
         NEW kind \in {"secret", "error", "empty"},
         ApproveExecute(c, id, r, kind)
  PROVE  QuorumInv'
<1>. DEFINE n == IF kind = "secret" THEN serial + 1 ELSE 0
            vote == WithVote(pending[id], c)
            p == [vote EXCEPT !.status = "approved"]
            e == StorageEntryJSON(WithCredential(p, [kind |-> kind, serial |-> n], now))
            m == [serial |-> serial + 1, rule |-> r, approvals |-> p.approvals,
                  required |-> rules[r].required]
<1>1. /\ Decidable(id, r)
      /\ MayApprove(c, pending[id], rules[r])
      /\ ThresholdMet(p, rules[r])
      /\ pending' = [pending EXCEPT ![id] = e]
      /\ IF kind = "secret" THEN minted' = [minted EXCEPT ![id] = @ \cup {m}]
                            ELSE minted' = minted
      /\ UNCHANGED <<rules, used, owner, selfRules>>
  BY DEF ApproveExecute
<1>2. pending[id] \in PendingRequest /\ n \in Nat /\ now \in Nat
  BY DEF TypeOK
<1>3. /\ vote \in PendingRequest
      /\ vote.requester = pending[id].requester
      /\ vote.rule = pending[id].rule
      /\ vote.approvals = Append(pending[id].approvals, c.entity)
  BY <1>2, WithVoteType DEF WithVote, PendingRequest
<1>. HIDE DEF vote, n
<1>4. /\ e \in PendingRequest
      /\ e.status = "approved"
      /\ e.requester = pending[id].requester
      /\ e.rule = pending[id].rule
      /\ e.approvals = vote.approvals
      /\ p.approvals = vote.approvals
  <2>1. e \in PendingRequest
    BY <1>2, <1>3, ExecutedType
  <2>. QED
    BY <1>3, <2>1 DEF StorageEntryJSON, WithCredential, PendingRequest
<1>5. m.approvals = e.approvals /\ m.required = rules[r].required /\ m.rule = r
  BY <1>4
<1>6. Len(m.approvals) >= m.required
  BY <1>1, <1>5 DEF ThresholdMet
<1>. HIDE DEF e, m, p
<1>7. /\ VotesSound'
      /\ FairVotes(m.approvals, owner[id], m.rule, selfRules)
      /\ minted[id] = {} /\ id \in used
  BY <1>1, <1>3, <1>4, <1>5, QuorumVote
<1>8. /\ minted'[id] \subseteq {m}
      /\ \A j \in ReqIDs : j # id => minted'[j] = minted[j]
  BY <1>1, <1>7 DEF TypeOK
<1>9. Recorded'
  BY <1>1, <1>4, <1>7, <1>8 DEF QuorumInv, Recorded, TypeOK
<1>10. SingleExecution'
  BY <1>8 DEF QuorumInv, SingleExecution
<1>11. QuorumBehindSecret'
  BY <1>1, <1>6, <1>7, <1>8, FairVotesGrow DEF QuorumInv, QuorumBehindSecret
<1>. QED
  BY <1>7, <1>9, <1>10, <1>11 DEF QuorumInv

LEMMA QuorumDeny ==
  ASSUME TypeOK, QuorumInv,
         NEW c \in Callers, NEW id \in ReqIDs, NEW r \in RuleIDs,
         DenyRequest(c, id, r)
  PROVE  QuorumInv'
<1>. DEFINE e == [pending[id] EXCEPT !.status = "denied"]
<1>1. /\ pending' = [pending EXCEPT ![id] = e]
      /\ UNCHANGED <<rules, used, owner, selfRules, minted>>
      /\ pending[id].status = "pending"
  BY DEF DenyRequest, Decidable, observed
<1>2. /\ e.status = "denied"
      /\ e.requester = pending[id].requester
      /\ e.rule = pending[id].rule
      /\ e.approvals = pending[id].approvals
  BY DEF TypeOK, PendingRequest
<1>. HIDE DEF e
<1>3. pending'[id] = e /\ \A j \in ReqIDs : j # id => pending'[j] = pending[j]
  BY <1>1 DEF TypeOK
<1>4. Recorded'
  BY <1>1, <1>2, <1>3 DEF QuorumInv, Recorded
<1>5. VotesSound'
  BY <1>1, <1>2, <1>3, FairVotesGrow DEF QuorumInv, VotesSound
<1>6. SingleExecution'
  BY <1>1 DEF QuorumInv, SingleExecution
<1>7. QuorumBehindSecret'
  BY <1>1, FairVotesGrow DEF QuorumInv, QuorumBehindSecret
<1>. QED
  BY <1>4, <1>5, <1>6, <1>7 DEF QuorumInv

LEMMA QuorumRuleWrite ==
  ASSUME TypeOK, QuorumInv, NEW r \in RuleIDs, NEW w \in RuleWrites,
         handleApprovalRuleWrite(r, w)
  PROVE  QuorumInv'
<1>. DEFINE rule == MergedRule(rules[r], w)
<1>1. /\ rules' = [rules EXCEPT ![r] = rule]
      /\ selfRules' = IF rule.self THEN selfRules \cup {r} ELSE selfRules
      /\ UNCHANGED <<pending, used, owner, minted>>
  BY DEF handleApprovalRuleWrite
<1>. HIDE DEF rule
<1>2. selfRules \subseteq selfRules'
  BY <1>1
<1>3. ASSUME NEW s \in RuleIDs, rules'[s].self
      PROVE  s \in selfRules'
  <2>1. CASE s = r
    BY <1>1, <1>3, <2>1 DEF TypeOK
  <2>2. CASE s # r
    BY <1>1, <1>2, <1>3, <2>2 DEF TypeOK, QuorumInv, VotesSound
  <2>. QED
    BY <2>1, <2>2
<1>. QED
  BY <1>1, <1>2, <1>3, QuorumFrame

LEMMA QuorumNext == TypeOK /\ QuorumInv /\ [Next]_vars => QuorumInv'
<1>. SUFFICES ASSUME TypeOK, QuorumInv, [Next]_vars PROVE QuorumInv'
  OBVIOUS
<1>. DEFINE OnlyDeletes ==
              /\ \A id \in ReqIDs :
                   pending'[id].status = "absent" \/ pending'[id] = pending[id]
              /\ UNCHANGED <<used, owner, selfRules, minted>>
<1>1. OnlyDeletes /\ UNCHANGED rules => QuorumInv'
  <2>1. \A r \in RuleIDs : rules[r].self => r \in selfRules
    BY DEF QuorumInv, VotesSound
  <2>. QED
    BY <2>1, QuorumFrame
<1>2. Tick \/ UNCHANGED vars => OnlyDeletes /\ UNCHANGED rules
  BY DEF Tick, storage, observed, vars
<1>3. ASSUME NEW r \in RuleIDs, handleApprovalRuleDelete(r)
      PROVE  QuorumInv'
  <2>1. OnlyDeletes /\ rules' = [rules EXCEPT ![r] = NoRule]
    BY <1>3, WithoutFrame DEF handleApprovalRuleDelete, observed
  <2>2. \A s \in RuleIDs : rules'[s].self => s \in selfRules'
    BY <2>1 DEF TypeOK, NoRule, QuorumInv, VotesSound
  <2>. QED
    BY <2>1, <2>2, QuorumFrame
<1>4. ASSUME NEW c \in Callers, NEW op \in Ops, NEW path \in Paths,
             BlockDuplicate(c, op, path)
      PROVE  OnlyDeletes /\ UNCHANGED rules
  BY <1>4, WithoutFrame DEF BlockDuplicate, observed
<1>5. ASSUME NEW id \in ReqIDs, DropUndecided(id)
      PROVE  OnlyDeletes /\ UNCHANGED rules
  BY <1>5, WithoutFrame DEF DropUndecided, observed
<1>6. ASSUME NEW c \in Callers, NEW id \in ReqIDs,
             handleApprovalFetch(c, id) \/ handleApprovalPendingRead(c, id)
      PROVE  OnlyDeletes /\ UNCHANGED rules
  BY <1>6, WithoutFrame
     DEF handleApprovalFetch, FetchExpired, FetchLapsed, FetchCredential,
         handleApprovalPendingRead, observed
<1>7. ASSUME NEW c \in Callers,
             \/ handleApprovalApprovable(c)
             \/ handleApprovalMyRequests(c)
             \/ handleApprovalHistory(c)
      PROVE  OnlyDeletes /\ UNCHANGED rules
  BY <1>7, WithoutFrame
     DEF handleApprovalApprovable, handleApprovalMyRequests,
         handleApprovalHistory, observed
<1>. HIDE DEF OnlyDeletes
<1>. QED
  BY <1>1, <1>2, <1>3, <1>4, <1>5, <1>6, <1>7, QuorumRuleWrite, QuorumPark,
     QuorumApproveVote, QuorumApproveExecute, QuorumDeny
     DEF Next, handleApprovalApprove, handleApprovalDeny

LEMMA QuorumCorrect == Spec => []QuorumInv
<1>1. Init => QuorumInv
  BY DEF Init, QuorumInv, Recorded, VotesSound, SingleExecution,
         QuorumBehindSecret, NoRequest, NoRule
<1>. QED
  BY <1>1, QuorumNext, TypeCorrect, PTL DEF Spec

\* Every secret rests on the votes its rule asked for, of distinct entities and
\* not of the requester, for any number of callers, rules and rule changes
\* between the votes.
THEOREM Quorum == Spec => []QuorumBehindSecret
BY QuorumCorrect, PTL DEF QuorumInv

\* When requests do not overlap, no request is executed twice by
\* handleApprovalApprove.
THEOREM ExecutedOnce == Spec => []SingleExecution
BY QuorumCorrect, PTL DEF QuorumInv

=============================================================================
