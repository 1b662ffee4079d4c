---------------------- MODULE ApprovalLifecycleProofs ----------------------
(***************************************************************************)
(* What ApprovalWorkflow does to the credential and the audit trail of a    *)
(* request, and that it implements RequestLifecycle, for every value of     *)
(* the constants.  The proofs look at a step through its effect on one      *)
(* request: StepShapes says which effects there are, and the invariants and *)
(* the refinement are shown for each of them.                               *)
(***************************************************************************)
EXTENDS ApprovalWorkflowProofs

-----------------------------------------------------------------------------
(* The effects of a step                                                   *)

\* Entries are deleted, history entries purged; a history entry written says
\* that an entry deleted in the same step has expired.
Cleaned ==
  /\ \A id \in ReqIDs : pending'[id] = pending[id] \/ pending'[id] = NoRequest
  /\ \A id \in ReqIDs : \/ history'[id] = history[id]
                        \/ history'[id].status = "absent"
                        \/ /\ history'[id].status = "expired"
                           /\ pending[id].status # "absent"
                           /\ pending'[id] = NoRequest
  /\ UNCHANGED <<used, owner, minted, delivered>>

\* A request is parked under a fresh ID and stale entries are deleted.
Parked(id) ==
  /\ id \in ReqIDs \ used
  /\ pending'[id].status = "pending" /\ pending'[id].cred = NilData
  /\ \A j \in ReqIDs : j # id => \/ pending'[j] = pending[j]
                                 \/ pending'[j] = NoRequest
  /\ used' = used \cup {id}
  /\ \A j \in ReqIDs : j # id => owner'[j] = owner[j]
  /\ UNCHANGED <<history, minted, delivered>>

\* One undecided entry is written back as e.
Rewritten(id, e) ==
  /\ id \in ReqIDs
  /\ pending[id].status = "pending"
  /\ pending' = [pending EXCEPT ![id] = e]
  /\ UNCHANGED <<used, owner, delivered>>

Voted(id, e) ==
  /\ Rewritten(id, e)
  /\ e.status = "pending" /\ e.cred = pending[id].cred
  /\ UNCHANGED <<history, minted>>

\* A new secret is recorded with the entry that holds it, or no secret was
\* generated; the credential may also be the text of an error, or nothing.
Executed(id, e) ==
  /\ Rewritten(id, e)
  /\ e.status = "approved" /\ e.approvedAt = now
  /\ \/ /\ e.cred.kind = "secret"
        /\ \E m : /\ minted' = [minted EXCEPT ![id] = @ \cup {m}]
                  /\ m.serial = e.cred.serial
     \/ e.cred.kind \in {"nil", "error"} /\ UNCHANGED minted
  /\ UNCHANGED history

Denied(id, e) ==
  /\ Rewritten(id, e)
  /\ e.status = "denied" /\ e.cred = pending[id].cred
  /\ history' = [history EXCEPT ![id] = history'[id]]
  /\ history'[id].status = "denied"
  /\ UNCHANGED minted

\* The credential of an approved entry is handed out and the entry deleted.
Delivered(c, id) ==
  /\ id \in ReqIDs
  /\ pending[id].status = "approved" /\ pending[id].cred.kind # "nil"
  /\ MayFetch(c, pending[id])
  /\ ~WindowPassed(pending[id], now)
  /\ pending' = [pending EXCEPT ![id] = NoRequest]
  /\ history' = [history EXCEPT ![id] = history'[id]]
  /\ history'[id].status = "retrieved"
  /\ delivered' = [delivered EXCEPT ![id] =
                     Append(@, [to |-> c, cred |-> pending[id].cred,
                                approvedAt |-> pending[id].approvedAt, at |-> now])]
  /\ UNCHANGED <<used, owner, minted>>

StepShape ==
  \/ Cleaned
  \/ \E id \in ReqIDs : Parked(id)
  \/ \E id \in ReqIDs, e \in PendingRequest :
       Voted(id, e) \/ Executed(id, e) \/ Denied(id, e)
  \/ \E c \in Callers, id \in ReqIDs : Delivered(c, id)

LEMMA WithoutCleans ==
  ASSUME NEW ids, pending' = Without(ids)
  PROVE  \A id \in ReqIDs : pending'[id] = pending[id] \/ pending'[id] = NoRequest
BY DEF Without

LEMMA PurgeCleans ==
  ASSUME listAllHistoryEntries
  PROVE  \A id \in ReqIDs : history'[id] = history[id] \/ history'[id].status = "absent"
BY DEF listAllHistoryEntries, NoHistory

LEMMA ParkShape ==
  ASSUME TypeOK, NEW c \in Callers, NEW op \in Ops, NEW path \in Paths,
         ParkRequest(c, op, path)
  PROVE  \E id \in ReqIDs : Parked(id)
<1>. DEFINE stale == {k \in OwnEntries(c, path) : StaleRequest(pending[k], now)}
<1>1. PICK r \in RuleIDs, id \in ReqIDs \ used :
        /\ pending' = [Without(stale) EXCEPT ![id] = NewPending(r, path, c, now)]
        /\ used' = used \cup {id}
        /\ owner' = [owner EXCEPT ![id] = c.entity]
  BY DEF ParkRequest
<1>2. UNCHANGED <<history, minted, delivered>>
  BY DEF ParkRequest
<1>. HIDE DEF stale
<1>3. pending'[id] = NewPending(r, path, c, now)
  BY <1>1 DEF Without
<1>4. pending'[id].status = "pending" /\ pending'[id].cred = NilData
  BY <1>3 DEF NewPending
<1>5. ASSUME NEW j \in ReqIDs, j # id
      PROVE  /\ pending'[j] = pending[j] \/ pending'[j] = NoRequest
             /\ owner'[j] = owner[j]
  BY <1>1, <1>5 DEF Without, TypeOK
<1>6. Parked(id)
  BY <1>1, <1>2, <1>4, <1>5 DEF Parked
<1>. QED
  BY <1>6

LEMMA VoteShape ==
  ASSUME TypeOK, NEW c \in Callers, NEW id \in ReqIDs, NEW r \in RuleIDs,
         ApproveVote(c, id, r)
  PROVE  \E e \in PendingRequest : Voted(id, e)
<1>. DEFINE e == WithVote(pending[id], c)
<1>1. pending[id] \in PendingRequest
  BY DEF TypeOK
<1>2. e \in PendingRequest
  BY <1>1, WithVoteType
<1>3. e.status = pending[id].status /\ e.cred = pending[id].cred
  BY <1>1 DEF WithVote, PendingRequest
<1>4. /\ pending[id].status = "pending"
      /\ pending' = [pending EXCEPT ![id] = e]
      /\ UNCHANGED <<used, owner, delivered, history, minted>>
  BY DEF ApproveVote, Decidable, observed
<1>. HIDE DEF e
<1>5. Voted(id, e)
  BY <1>3, <1>4 DEF Voted, Rewritten
<1>. QED
  BY <1>2, <1>5

LEMMA ExecuteShape ==
  ASSUME TypeOK, NEW c \in Callers, NEW id \in ReqIDs, NEW r \in RuleIDs,
         NEW kind \in {"secret", "error", "empty"},
         ApproveExecute(c, id, r, kind)
  PROVE  \E e \in PendingRequest : Executed(id, e)
<1>. DEFINE n == IF kind = "secret" THEN serial + 1 ELSE 0
            vote == WithVote(pending[id], c)
            p == [vote EXCEPT !.status = "approved"]
            e == StorageEntryJSON(WithCredential(p, [kind |-> kind, serial |-> n], now))
            m == [serial |-> serial + 1, rule |-> r, approvals |-> p.approvals,
                  required |-> rules[r].required]
<1>1. /\ pending[id].status = "pending"
      /\ pending' = [pending EXCEPT ![id] = e]
      /\ IF kind = "secret" THEN minted' = [minted EXCEPT ![id] = @ \cup {m}]
                            ELSE minted' = minted
      /\ UNCHANGED <<used, owner, delivered, history>>
  BY DEF ApproveExecute, Decidable
<1>2. pending[id] \in PendingRequest /\ n \in Nat /\ now \in Nat
  BY DEF TypeOK
<1>3. vote \in PendingRequest
  BY <1>2, WithVoteType
<1>4. m.serial = serial + 1
  OBVIOUS
<1>5. kind = "secret" => n = serial + 1
  OBVIOUS
<1>. HIDE DEF vote, n, m
<1>6. e \in PendingRequest
  BY <1>2, <1>3, ExecutedType
<1>7. /\ e.status = "approved"
      /\ e.approvedAt = now
      /\ kind = "secret" => e.cred = [kind |-> "secret", serial |-> n]
      /\ kind = "error" => e.cred = [kind |-> "error", serial |-> n]
      /\ kind = "empty" => e.cred = NilData
  BY <1>2, <1>3 DEF StorageEntryJSON, WithCredential, PendingRequest
<1>. HIDE DEF e, p
<1>8. Executed(id, e)
  <2>1. CASE kind = "secret"
    <3>1. e.cred.kind = "secret" /\ e.cred.serial = m.serial
      BY <1>4, <1>5, <1>7, <2>1
    <3>. QED
      BY <1>1, <1>7, <2>1, <3>1 DEF Executed, Rewritten
  <2>2. CASE kind # "secret"
    <3>1. e.cred.kind \in {"nil", "error"}
      BY <1>7, <2>2 DEF NilData
    <3>. QED
      BY <1>1, <1>7, <2>2, <3>1 DEF Executed, Rewritten
  <2>. QED
    BY <2>1, <2>2
<1>. QED
  BY <1>6, <1>8

LEMMA DenyShape ==
  ASSUME TypeOK, NEW c \in Callers, NEW id \in ReqIDs, NEW r \in RuleIDs,
         DenyRequest(c, id, r)
  PROVE  \E e \in PendingRequest : Denied(id, e)
<1>. DEFINE e == [pending[id] EXCEPT !.status = "denied"]
            h == HistoryEntry("denied", c.entity, now)
<1>1. /\ pending[id].status = "pending"
      /\ pending' = [pending EXCEPT ![id] = e]
      /\ history' = [history EXCEPT ![id] = h]
      /\ UNCHANGED <<used, owner, delivered, minted>>
  BY DEF DenyRequest, Decidable, observed
<1>2. h.status = "denied"
  BY DEF HistoryEntry
<1>3. e \in PendingRequest /\ e.status = "denied" /\ e.cred = pending[id].cred
  BY DEF TypeOK, PendingRequest
<1>. HIDE DEF e, h
<1>4. history'[id] = h
  BY <1>1 DEF TypeOK
<1>5. Denied(id, e)
  BY <1>1, <1>2, <1>3, <1>4 DEF Denied, Rewritten
<1>. QED
  BY <1>3, <1>5

LEMMA FetchShape ==
  ASSUME TypeOK, NEW c \in Callers, NEW id \in ReqIDs, handleApprovalFetch(c, id)
  PROVE  StepShape
<1>1. pending[id].status # "absent" /\ MayFetch(c, pending[id])
  BY DEF handleApprovalFetch
<1>2. ASSUME NEW by, pending' = Without({id}),
             history' = [history EXCEPT ![id] = HistoryEntry("expired", by, now)],
             UNCHANGED <<used, owner, minted, delivered>>
      PROVE  Cleaned
  <2>1. pending'[id] = NoRequest
    BY <1>2 DEF Without
  <2>2. history'[id].status = "expired"
    BY <1>2 DEF HistoryEntry, TypeOK
  <2>3. \A j \in ReqIDs : j # id => history'[j] = history[j]
    BY <1>2 DEF TypeOK
  <2>4. \A j \in ReqIDs : pending'[j] = pending[j] \/ pending'[j] = NoRequest
    BY <1>2, WithoutCleans
  <2>. QED
    BY <1>1, <1>2, <2>1, <2>2, <2>3, <2>4 DEF Cleaned
<1>3. CASE FetchExpired(id)
  BY <1>2, <1>3 DEF FetchExpired, observed, StepShape
<1>4. CASE FetchLapsed(id)
  BY <1>2, <1>4 DEF FetchLapsed, observed, StepShape
<1>5. CASE FetchCredential(c, id)
  <2>. DEFINE h == HistoryEntry("retrieved", LastApprover(pending[id]), now)
  <2>1. history' = [history EXCEPT ![id] = h]
    BY <1>5 DEF FetchCredential
  <2>2. h.status = "retrieved"
    BY DEF HistoryEntry
  <2>. HIDE DEF h
  <2>3. history'[id] = h
    BY <2>1 DEF TypeOK
  <2>4. pending' = [pending EXCEPT ![id] = NoRequest]
    <3>1. pending' = [j \in ReqIDs |-> IF j \in {id} THEN NoRequest ELSE pending[j]]
      BY <1>5 DEF FetchCredential, Without
    <3>. QED
      BY <3>1 DEF TypeOK
  <2>5. Delivered(c, id)
    BY <1>1, <1>5, <2>1, <2>2, <2>3, <2>4 DEF FetchCredential, Delivered
  <2>. QED
    BY <2>5 DEF StepShape
<1>. QED
  BY <1>3, <1>4, <1>5 DEF handleApprovalFetch

\* Every call of the workflow has one of the effects.
LEMMA StepShapes ==
  ASSUME TypeOK, [Next]_vars
  PROVE  StepShape
<1>. DEFINE Deletes == /\ \A id \in ReqIDs : \/ pending'[id] = pending[id]
                                             \/ pending'[id] = NoRequest
                       /\ \A id \in ReqIDs : \/ history'[id] = history[id]
                                             \/ history'[id].status = "absent"
                       /\ UNCHANGED <<used, owner, minted, delivered>>
<1>1. Deletes => StepShape
  BY DEF Cleaned, StepShape
<1>2. CASE Tick
  BY <1>1, <1>2 DEF Tick, storage, observed
<1>3. CASE UNCHANGED vars
  BY <1>1, <1>3 DEF vars
<1>4. ASSUME NEW r \in RuleIDs,
             \/ handleApprovalRuleDelete(r)
             \/ \E w \in RuleWrites : handleApprovalRuleWrite(r, w)
      PROVE  StepShape
  BY <1>1, <1>4, WithoutCleans
     DEF handleApprovalRuleDelete, handleApprovalRuleWrite, observed
<1>5. ASSUME NEW c \in Callers, NEW op \in Ops, NEW path \in Paths,
             ParkRequest(c, op, path)
      PROVE  StepShape
  BY <1>5, ParkShape DEF StepShape
<1>6. ASSUME NEW c \in Callers, NEW op \in Ops, NEW path \in Paths,
             BlockDuplicate(c, op, path)
      PROVE  StepShape
  BY <1>1, <1>6, WithoutCleans DEF BlockDuplicate, observed
<1>7. ASSUME NEW id \in ReqIDs, DropUndecided(id)
      PROVE  StepShape
  BY <1>1, <1>7, WithoutCleans DEF DropUndecided, observed
<1>8. ASSUME NEW c \in Callers, NEW id \in ReqIDs, NEW r \in RuleIDs,
             ApproveVote(c, id, r)
      PROVE  StepShape
  BY <1>8, VoteShape DEF StepShape
<1>9. ASSUME NEW c \in Callers, NEW id \in ReqIDs, NEW r \in RuleIDs,
              NEW kind \in {"secret", "error", "empty"},
              ApproveExecute(c, id, r, kind)
       PROVE  StepShape
  BY <1>9, ExecuteShape DEF StepShape
<1>10. ASSUME NEW c \in Callers, NEW id \in ReqIDs, NEW r \in RuleIDs,
              DenyRequest(c, id, r)
       PROVE  StepShape
  BY <1>10, DenyShape DEF StepShape
<1>11. ASSUME NEW c \in Callers, NEW id \in ReqIDs, handleApprovalFetch(c, id)
       PROVE  StepShape
  BY <1>11, FetchShape
<1>12. ASSUME NEW c \in Callers, NEW id \in ReqIDs, handleApprovalPendingRead(c, id)
       PROVE  StepShape
  BY <1>1, <1>12, WithoutCleans DEF handleApprovalPendingRead, observed
<1>13. ASSUME NEW c \in Callers,
              \/ handleApprovalApprovable(c)
              \/ handleApprovalMyRequests(c)
              \/ handleApprovalHistory(c)
       PROVE  StepShape
  BY <1>1, <1>13, WithoutCleans, PurgeCleans
     DEF handleApprovalApprovable, handleApprovalMyRequests,
         handleApprovalHistory, observed
<1>. QED
  BY <1>2, <1>3, <1>4, <1>5, <1>6, <1>7, <1>8, <1>9, <1>10, <1>11, <1>12, <1>13
     DEF Next, handleApprovalApprove, handleApprovalDeny


LEMMA TimeGrows ==
  ASSUME TypeOK, [Next]_vars
  PROVE  now' \in Nat /\ now' >= now
<1>1. now \in Nat
  BY DEF TypeOK
<1>2. CASE Tick
  BY <1>1, <1>2 DEF Tick
<1>3. ASSUME NEW r, \/ handleApprovalRuleDelete(r)
                    \/ \E w \in RuleWrites : handleApprovalRuleWrite(r, w)
      PROVE  now' = now
  BY <1>3 DEF handleApprovalRuleWrite, handleApprovalRuleDelete
<1>4. ASSUME NEW c, NEW op, NEW path,
             ParkRequest(c, op, path) \/ BlockDuplicate(c, op, path)
      PROVE  now' = now
  BY <1>4 DEF ParkRequest, BlockDuplicate
<1>5. ASSUME NEW c, NEW id, handleApprovalApprove(c, id) \/ handleApprovalDeny(c, id)
      PROVE  now' = now
  BY <1>5 DEF handleApprovalApprove, handleApprovalDeny, ApproveVote,
              ApproveExecute, DenyRequest, DropUndecided
<1>6. ASSUME NEW c, NEW id,
             handleApprovalFetch(c, id) \/ handleApprovalPendingRead(c, id)
      PROVE  now' = now
  BY <1>6 DEF handleApprovalFetch, FetchExpired, FetchLapsed, FetchCredential,
              handleApprovalPendingRead
<1>7. ASSUME NEW c, \/ handleApprovalApprovable(c)
                    \/ handleApprovalMyRequests(c)
                    \/ handleApprovalHistory(c)
      PROVE  now' = now
  BY <1>7 DEF handleApprovalApprovable, handleApprovalMyRequests,
              handleApprovalHistory
<1>8. UNCHANGED vars => now' = now
  BY DEF vars
<1>9. Tick \/ now' = now
  BY <1>3, <1>4, <1>5, <1>6, <1>7, <1>8 DEF Next
<1>. QED
  BY <1>1, <1>2, <1>9

-----------------------------------------------------------------------------
(* Burn after reading and the audit trail                                  *)

DeliveryInv == CredentialsSound /\ BurnAfterReading /\ HistoryTruthful

\* What the other invariants contribute: an entry has a generated ID and its
\* requester is the owner on record, and an undecided one has no secret.
LEMMA EntryFacts ==
  ASSUME QuorumInv, NEW id \in ReqIDs, pending[id].status # "absent"
  PROVE  /\ id \in used
         /\ pending[id].requester = owner[id]
         /\ pending[id].status = "pending" => minted[id] = {}
BY DEF QuorumInv, Recorded, VotesSound

LEMMA NothingWithoutID ==
  ASSUME QuorumInv, DeliveryInv, NEW id \in ReqIDs, id \notin used
  PROVE  /\ pending[id].status = "absent"
         /\ minted[id] = {}
         /\ delivered[id] = <<>>
         /\ history[id].status = "absent"
BY DEF QuorumInv, Recorded, DeliveryInv, CredentialsSound

LEMMA DeliveryCleaned ==
  ASSUME TypeOK, QuorumInv, DeliveryInv, Cleaned, now' \in Nat, now' >= now
  PROVE  DeliveryInv'
<1>1. NoRequest.status = "absent" /\ NoRequest.cred.kind = "nil"
  BY DEF NoRequest, NilData
<1>2. CredentialsSound'
  <2>1. now' >= 1
    BY DEF DeliveryInv, CredentialsSound, TypeOK
  <2>. QED
    BY <1>1, <2>1, EntryFacts DEF DeliveryInv, CredentialsSound, Cleaned
<1>3. BurnAfterReading'
  BY <1>1 DEF DeliveryInv, BurnAfterReading, Cleaned
<1>4. HistoryTruthful'
  BY <1>1 DEF DeliveryInv, HistoryTruthful, BurnAfterReading, Cleaned
<1>. QED
  BY <1>2, <1>3, <1>4 DEF DeliveryInv

LEMMA DeliveryParked ==
  ASSUME TypeOK, QuorumInv, DeliveryInv, NEW id \in ReqIDs, Parked(id),
         now' \in Nat, now' >= now
  PROVE  DeliveryInv'
<1>1. NoRequest.status = "absent" /\ NoRequest.cred.kind = "nil" /\ NilData.kind = "nil"
  BY DEF NoRequest, NilData
<1>2. /\ minted[id] = {} /\ delivered[id] = <<>> /\ history[id].status = "absent"
      /\ pending'[id].status = "pending" /\ pending'[id].cred.kind = "nil"
  BY <1>1, NothingWithoutID DEF Parked
<1>3. CredentialsSound'
  <2>1. now' >= 1
    BY DEF DeliveryInv, CredentialsSound, TypeOK
  <2>. QED
    BY <1>1, <1>2, <2>1 DEF DeliveryInv, CredentialsSound, Parked
<1>4. BurnAfterReading'
  BY <1>1, <1>2 DEF DeliveryInv, BurnAfterReading, Parked
<1>5. HistoryTruthful'
  BY <1>1, <1>2 DEF DeliveryInv, HistoryTruthful, Parked
<1>. QED
  BY <1>3, <1>4, <1>5 DEF DeliveryInv

\* A vote, an execution and a denial concern an undecided entry, which has not
\* been delivered and is neither denied nor expired in the history.
LEMMA DeliveryRewritten ==
  ASSUME TypeOK, QuorumInv, DeliveryInv, NEW id \in ReqIDs, NEW e \in PendingRequest,
         Voted(id, e) \/ Executed(id, e) \/ Denied(id, e),
         now' \in Nat, now' >= now
  PROVE  DeliveryInv'
<1>1. /\ pending[id].status = "pending"
      /\ pending'[id] = e
      /\ \A j \in ReqIDs : j # id => pending'[j] = pending[j]
      /\ UNCHANGED <<used, owner, delivered>>
      /\ id \in used /\ minted[id] = {}
  BY EntryFacts DEF Voted, Executed, Denied, Rewritten, TypeOK
<1>2. /\ delivered[id] = <<>>
      /\ pending[id].cred.kind = "nil"
      /\ history[id].status = "absent"
  <2>1. history[id].status \in {"absent", "retrieved", "denied", "expired"}
    BY DEF TypeOK, ApprovalHistoryEntry
  <2>. QED
    BY <1>1, <2>1 DEF DeliveryInv, CredentialsSound, BurnAfterReading, HistoryTruthful
<1>3. \A j \in ReqIDs : j # id => history'[j] = history[j] /\ minted'[j] = minted[j]
  BY DEF Voted, Executed, Denied, TypeOK
<1>4. /\ history'[id].status = "absent"
         \/ (history'[id].status = "denied" /\ e.status = "denied" /\ minted'[id] = {})
      /\ e.cred.kind # "nil" => e.status = "approved" /\ e.approvedAt # 0
      /\ e.cred.kind = "secret" => \E m \in minted'[id] : m.serial = e.cred.serial
  <2>1. CASE Voted(id, e)
    BY <1>1, <1>2, <2>1 DEF Voted
  <2>2. CASE Executed(id, e)
    <3>1. now # 0
      BY DEF DeliveryInv, CredentialsSound
    <3>2. e.status = "approved" /\ e.approvedAt # 0 /\ history' = history
      BY <2>2, <3>1 DEF Executed
    <3>3. e.cred.kind = "secret" => \E m \in minted'[id] : m.serial = e.cred.serial
      <4>. SUFFICES ASSUME e.cred.kind = "secret"
                    PROVE  \E m \in minted'[id] : m.serial = e.cred.serial
        OBVIOUS
      <4>1. PICK m : minted' = [minted EXCEPT ![id] = @ \cup {m}] /\ m.serial = e.cred.serial
        BY <2>2 DEF Executed
      <4>2. m \in minted'[id]
        BY <4>1 DEF TypeOK
      <4>. QED
        BY <4>1, <4>2
    <3>. QED
      BY <1>2, <3>2, <3>3
  <2>3. CASE Denied(id, e)
    BY <1>1, <1>2, <2>3 DEF Denied
  <2>. QED
    BY <2>1, <2>2, <2>3
<1>5. CredentialsSound'
  <2>1. now' >= 1
    BY DEF DeliveryInv, CredentialsSound, TypeOK
  <2>. QED
    BY <1>1, <1>3, <1>4, <2>1 DEF DeliveryInv, CredentialsSound
<1>6. BurnAfterReading'
  BY <1>1, <1>2, <1>3 DEF DeliveryInv, BurnAfterReading
<1>7. HistoryTruthful'
  BY <1>1, <1>3, <1>4 DEF DeliveryInv, HistoryTruthful
<1>. QED
  BY <1>5, <1>6, <1>7 DEF DeliveryInv

LEMMA DeliveryDelivered ==
  ASSUME TypeOK, QuorumInv, DeliveryInv, NEW c \in Callers, NEW id \in ReqIDs,
         Delivered(c, id), now' \in Nat, now' >= now
  PROVE  DeliveryInv'
<1>. DEFINE d == [to |-> c, cred |-> pending[id].cred,
                  approvedAt |-> pending[id].approvedAt, at |-> now]
<1>1. NoRequest.status = "absent" /\ NoRequest.cred.kind = "nil"
  BY DEF NoRequest, NilData
<1>2. /\ pending'[id] = NoRequest
      /\ \A j \in ReqIDs : j # id => pending'[j] = pending[j] /\ history'[j] = history[j]
      /\ history'[id].status = "retrieved"
      /\ UNCHANGED <<used, owner, minted>>
  BY DEF Delivered, TypeOK
<1>3. id \in used /\ pending[id].requester = owner[id] /\ delivered[id] = <<>>
  BY EntryFacts DEF Delivered, DeliveryInv, BurnAfterReading
<1>4. /\ d.to = c /\ d.cred = pending[id].cred
      /\ d.approvedAt = pending[id].approvedAt /\ d.at = now
  OBVIOUS
<1>5. /\ delivered'[id] = <<d>>
      /\ \A j \in ReqIDs : j # id => delivered'[j] = delivered[j]
  <2>1. delivered' = [delivered EXCEPT ![id] = Append(delivered[id], d)]
    BY DEF Delivered
  <2>. HIDE DEF d
  <2>2. Append(<<>>, d) = <<d>>
    OBVIOUS
  <2>. QED
    BY <1>3, <2>1, <2>2 DEF TypeOK
<1>. HIDE DEF d
<1>6. /\ delivered'[id] # <<>> /\ Len(delivered'[id]) = 1 /\ delivered'[id][1] = d
  BY <1>5
<1>7. IF owner[id] = NoEntity THEN d.to.root ELSE d.to.entity = owner[id]
  BY <1>3, <1>4 DEF Delivered, MayFetch
<1>8. d.at - d.approvedAt <= CredentialTTL
  <2>1. pending[id].approvedAt # 0 /\ pending[id].approvedAt \in Nat /\ now \in Nat
    BY DEF Delivered, DeliveryInv, CredentialsSound, TypeOK, PendingRequest
  <2>2. ~(now - pending[id].approvedAt > CredentialTTL)
    BY <2>1 DEF Delivered, WindowPassed
  <2>. QED
    BY <1>4, <2>1, <2>2, TTLAssumption
<1>9. d.cred.kind = "secret" => \E m \in minted[id] : m.serial = d.cred.serial
  BY <1>4 DEF DeliveryInv, CredentialsSound
<1>10. CredentialsSound'
  <2>1. now' >= 1
    BY DEF DeliveryInv, CredentialsSound, TypeOK
  <2>. QED
    BY <1>1, <1>2, <1>3, <1>5, <2>1 DEF DeliveryInv, CredentialsSound
<1>11. BurnAfterReading'
  <2>1. ASSUME NEW j \in ReqIDs, delivered'[j] # <<>>
        PROVE  /\ Len(delivered'[j]) = 1
               /\ pending'[j].status = "absent"
               /\ IF owner'[j] = NoEntity THEN delivered'[j][1].to.root
                                          ELSE delivered'[j][1].to.entity = owner'[j]
               /\ delivered'[j][1].at - delivered'[j][1].approvedAt <= CredentialTTL
               /\ delivered'[j][1].cred.kind = "secret" =>
                    \E m \in minted'[j] : m.serial = delivered'[j][1].cred.serial
    <3>1. CASE j = id
      BY <1>1, <1>2, <1>6, <1>7, <1>8, <1>9, <3>1
    <3>2. CASE j # id
      BY <1>2, <1>5, <2>1, <3>2 DEF DeliveryInv, BurnAfterReading
    <3>. QED
      BY <3>1, <3>2
  <2>. QED
    BY <2>1 DEF BurnAfterReading
<1>12. HistoryTruthful'
  BY <1>2, <1>5, <1>6 DEF DeliveryInv, HistoryTruthful
<1>. QED
  BY <1>10, <1>11, <1>12 DEF DeliveryInv

LEMMA DeliveryCorrect == Spec => []DeliveryInv
<1>1. Init => DeliveryInv
  BY DEF Init, DeliveryInv, CredentialsSound, BurnAfterReading, HistoryTruthful,
         NoRequest, NilData, NoHistory
<1>2. TypeOK /\ QuorumInv /\ DeliveryInv /\ [Next]_vars => DeliveryInv'
  BY StepShapes, TimeGrows, DeliveryCleaned, DeliveryParked, DeliveryRewritten,
     DeliveryDelivered DEF StepShape
<1>. QED
  BY <1>1, <1>2, TypeCorrect, QuorumCorrect, PTL DEF Spec

\* handleApprovalFetch burns what it hands out: for any number of requests, a
\* credential is delivered at most once, to its requester, inside its window,
\* and a delivered secret is one that was generated for this request.
THEOREM BurnedAfterReading == Spec => []BurnAfterReading
BY DeliveryCorrect, PTL DEF DeliveryInv

\* The audit trail never claims what did not happen: "retrieved" was delivered,
\* "denied" was never executed, "expired" was never delivered.
THEOREM TruthfulHistory == Spec => []HistoryTruthful
BY DeliveryCorrect, PTL DEF DeliveryInv

-----------------------------------------------------------------------------
(* No secret is thrown away                                                *)

\* The step condition of SecretKept, for one request.
Kept(id) ==
  pending[id].cred.kind = "secret" =>
    \/ pending'[id] = pending[id]
    \/ delivered'[id] # delivered[id]
    \/ now - pending[id].approvedAt >= CredentialTTL
    \/ \E r \in RuleIDs : r = pending[id].rule /\ rules'[r] = NoRule

\* Entries may be deleted when they hold no secret or their window is over.
LEMMA WithoutKeeps ==
  ASSUME NEW ids, pending' = Without(ids),
         \A id \in ids : pending[id].cred.kind = "secret" =>
                           now - pending[id].approvedAt >= CredentialTTL
  PROVE  \A id \in ReqIDs : Kept(id)
BY DEF Without, Kept

LEMMA SecretIsApproved ==
  ASSUME TypeOK, DeliveryInv, NEW id \in ReqIDs, pending[id].cred.kind = "secret"
  PROVE  /\ pending[id].status = "approved"
         /\ pending[id].approvedAt \in Nat /\ pending[id].approvedAt # 0
         /\ now \in Nat
BY DEF DeliveryInv, CredentialsSound, TypeOK, PendingRequest

\* What the deduplication scan deletes is past its window, if it is a secret.
LEMMA StaleKeeps ==
  ASSUME TypeOK, DeliveryInv, NEW id \in ReqIDs,
         StaleRequest(pending[id], now), pending[id].cred.kind = "secret"
  PROVE  now - pending[id].approvedAt >= CredentialTTL
BY SecretIsApproved, TTLAssumption DEF StaleRequest, ActiveRequest

LEMMA PendingHoldsNoSecret ==
  ASSUME TypeOK, DeliveryInv, NEW id \in ReqIDs, pending[id].status # "approved"
  PROVE  Kept(id) /\ pending[id].cred.kind # "secret"
BY SecretIsApproved DEF Kept

LEMMA KeptNext ==
  ASSUME TypeOK, QuorumInv, DeliveryInv, [Next]_vars
  PROVE  \A id \in ReqIDs : Kept(id)
<1>1. pending' = pending => \A id \in ReqIDs : Kept(id)
  BY DEF Kept
<1>2. CASE Tick \/ UNCHANGED vars
  BY <1>1, <1>2 DEF Tick, vars, storage
<1>3. ASSUME NEW r \in RuleIDs, NEW w \in RuleWrites, handleApprovalRuleWrite(r, w)
      PROVE  \A id \in ReqIDs : Kept(id)
  BY <1>1, <1>3 DEF handleApprovalRuleWrite
<1>4. ASSUME NEW r \in RuleIDs, handleApprovalRuleDelete(r)
      PROVE  \A id \in ReqIDs : Kept(id)
  <2>1. rules'[r] = NoRule
    BY <1>4 DEF handleApprovalRuleDelete, TypeOK
  <2>2. \A id \in ReqIDs : pending[id].rule = r \/ pending'[id] = pending[id]
    BY <1>4 DEF handleApprovalRuleDelete, Without
  <2>. QED
    BY <2>1, <2>2 DEF Kept
<1>5. ASSUME NEW c \in Callers, NEW op \in Ops, NEW path \in Paths,
             ParkRequest(c, op, path)
      PROVE  \A id \in ReqIDs : Kept(id)
  <2>. DEFINE stale == {k \in OwnEntries(c, path) : StaleRequest(pending[k], now)}
  <2>1. PICK r \in RuleIDs, id \in ReqIDs \ used :
          pending' = [Without(stale) EXCEPT ![id] = NewPending(r, path, c, now)]
    BY <1>5 DEF ParkRequest
  <2>2. Kept(id)
    BY NothingWithoutID, PendingHoldsNoSecret
  <2>3. ASSUME NEW j \in ReqIDs, j # id
        PROVE  Kept(j)
    <3>1. j \notin stale => pending'[j] = pending[j]
      BY <2>1, <2>3 DEF Without
    <3>. QED
      BY <3>1, StaleKeeps DEF Kept
  <2>. QED
    BY <2>2, <2>3
<1>6. ASSUME NEW c \in Callers, NEW op \in Ops, NEW path \in Paths,
             BlockDuplicate(c, op, path)
      PROVE  \A id \in ReqIDs : Kept(id)
  <2>1. PICK k : pending' = Without({j \in OwnEntries(c, path) :
                                       j < k /\ StaleRequest(pending[j], now)})
    BY <1>6 DEF BlockDuplicate
  <2>. QED
    BY <2>1, WithoutKeeps, StaleKeeps DEF OwnEntries
<1>7. ASSUME NEW id \in ReqIDs, pending[id].status = "pending",
             \A j \in ReqIDs : j # id => pending'[j] = pending[j]
      PROVE  \A j \in ReqIDs : Kept(j)
  BY <1>7, PendingHoldsNoSecret DEF Kept
<1>8. ASSUME NEW c \in Callers, NEW id \in ReqIDs,
             handleApprovalApprove(c, id) \/ handleApprovalDeny(c, id)
      PROVE  \A j \in ReqIDs : Kept(j)
  BY <1>7, <1>8
     DEF handleApprovalApprove, handleApprovalDeny, DropUndecided, ApproveVote,
         ApproveExecute, DenyRequest, Decidable, Without, TypeOK
<1>9. ASSUME NEW c \in Callers, NEW id \in ReqIDs, handleApprovalFetch(c, id)
      PROVE  \A j \in ReqIDs : Kept(j)
  <2>1. CASE FetchExpired(id)
    BY <1>7, <2>1 DEF FetchExpired, ExpiredPending, Without
  <2>2. CASE FetchLapsed(id)
    BY <2>2, WithoutKeeps, SecretIsApproved, TTLAssumption
       DEF FetchLapsed, WindowPassed
  <2>3. CASE FetchCredential(c, id)
    <3>. DEFINE d == [to |-> c, cred |-> pending[id].cred,
                      approvedAt |-> pending[id].approvedAt, at |-> now]
    <3>1. d \in Delivery
      BY DEF Delivery, TypeOK, PendingRequest
    <3>2. /\ delivered' = [delivered EXCEPT ![id] = Append(delivered[id], d)]
          /\ pending' = Without({id})
      BY <2>3 DEF FetchCredential
    <3>. HIDE DEF d
    <3>3. delivered'[id] = Append(delivered[id], d) /\ delivered[id] \in Seq(Delivery)
      BY <3>2 DEF TypeOK
    <3>4. Len(delivered'[id]) # Len(delivered[id])
      BY <3>1, <3>3
    <3>. QED
      BY <3>2, <3>4 DEF Without, Kept
  <2>. QED
    BY <1>9, <2>1, <2>2, <2>3 DEF handleApprovalFetch
<1>10. ASSUME NEW c \in Callers, NEW id \in ReqIDs, handleApprovalPendingRead(c, id)
       PROVE  \A j \in ReqIDs : Kept(j)
  BY <1>7, <1>10 DEF handleApprovalPendingRead, ExpiredPending, Without
<1>11. ASSUME NEW c \in Callers, handleApprovalApprovable(c)
       PROVE  \A j \in ReqIDs : Kept(j)
  BY <1>11, WithoutKeeps, SecretIsApproved
     DEF handleApprovalApprovable, ExpiredPending
<1>12. ASSUME NEW c \in Callers, handleApprovalMyRequests(c)
       PROVE  \A j \in ReqIDs : Kept(j)
  BY <1>12, WithoutKeeps, SecretIsApproved
     DEF handleApprovalMyRequests, MyRequestLapsed, ExpiredPending
<1>13. ASSUME NEW c \in Callers, handleApprovalHistory(c)
       PROVE  \A j \in ReqIDs : Kept(j)
  BY <1>1, <1>13 DEF handleApprovalHistory
<1>. QED
  BY <1>2, <1>3, <1>4, <1>5, <1>6, <1>8, <1>9, <1>10, <1>11, <1>12, <1>13 DEF Next

\* Deduplication, listings, votes, denials and expiry never cost an approved
\* secret: it leaves storage by delivery, after its window, or with its rule.
THEOREM SecretsKept == Spec => SecretKept
<1>1. TypeOK /\ QuorumInv /\ DeliveryInv /\ [Next]_vars
        => [\A id \in ReqIDs : Kept(id)]_vars
  BY KeptNext
<1>2. [\A id \in ReqIDs : Kept(id)]_vars
        <=> [\A id \in ReqIDs :
               pending[id].cred.kind = "secret" =>
                 \/ pending'[id] = pending[id]
                 \/ delivered'[id] # delivered[id]
                 \/ now - pending[id].approvedAt >= CredentialTTL
                 \/ \E r \in RuleIDs : r = pending[id].rule /\ rules'[r] = NoRule]_vars
  BY DEF Kept
<1>. QED
  BY <1>1, <1>2, TypeCorrect, QuorumCorrect, DeliveryCorrect, PTL DEF Spec, SecretKept

-----------------------------------------------------------------------------
(* The life cycle                                                          *)

\* The stage of a request, before and after a step.
LEMMA StageValue ==
  ASSUME NEW id \in ReqIDs
  PROVE  /\ id \notin used => Stage(id) = "unborn"
         /\ id \in used =>
              /\ delivered[id] # <<>> => Stage(id) = "delivered"
              /\ delivered[id] = <<>> =>
                   /\ pending[id].status = "pending" => Stage(id) = "open"
                   /\ pending[id].status = "denied" => Stage(id) = "denied"
                   /\ pending[id].status = "absent" => Stage(id) = "gone"
                   /\ pending[id].status = "approved" =>
                        Stage(id) = IF pending[id].cred.kind # "nil"
                                    THEN "ready" ELSE "gone"
BY DEF Stage

LEMMA StageValueNext ==
  ASSUME NEW id \in ReqIDs
  PROVE  /\ id \notin used' => Stage(id)' = "unborn"
         /\ id \in used' =>
              /\ delivered'[id] # <<>> => Stage(id)' = "delivered"
              /\ delivered'[id] = <<>> =>
                   /\ pending'[id].status = "pending" => Stage(id)' = "open"
                   /\ pending'[id].status = "denied" => Stage(id)' = "denied"
                   /\ pending'[id].status = "absent" => Stage(id)' = "gone"
                   /\ pending'[id].status = "approved" =>
                        Stage(id)' = IF pending'[id].cred.kind # "nil"
                                     THEN "ready" ELSE "gone"
BY DEF Stage

\* What the abstract step of a request means for its stage.
LEMMA AbstractSteps ==
  ASSUME NEW id \in ReqIDs
  PROVE  /\ /\ Stage(id)' = Stage(id)
            /\ minted'[id] = minted[id] /\ delivered'[id] = delivered[id]
            => Lifecycle!Rest(id)
         /\ /\ Stage(id) = "unborn" /\ Stage(id)' = "open"
            /\ minted'[id] = minted[id] /\ delivered'[id] = delivered[id]
            => Lifecycle!Park(id)
         /\ /\ Stage(id) = "open" /\ Stage(id)' = "ready"
            /\ minted'[id] = minted[id] /\ delivered'[id] = delivered[id]
            => Lifecycle!Offer(id)
         /\ /\ Stage(id) = "open" /\ Stage(id)' = "ready"
            /\ minted[id] = {} /\ delivered'[id] = delivered[id]
            /\ \E m : minted'[id] = {m}
            => Lifecycle!Execute(id)
         /\ /\ Stage(id) = "open" /\ Stage(id)' = "denied"
            /\ minted'[id] = minted[id] /\ delivered'[id] = delivered[id]
            => Lifecycle!Deny(id)
         /\ /\ Stage(id) = "ready" /\ Stage(id)' = "delivered"
            /\ delivered[id] = <<>> /\ Len(delivered'[id]) = 1
            /\ minted'[id] = minted[id]
            => Lifecycle!Deliver(id)
         /\ /\ Stage(id) \in {"open", "ready", "denied"} /\ Stage(id)' = "gone"
            /\ minted'[id] = minted[id] /\ delivered'[id] = delivered[id]
            => Lifecycle!Discard(id)
BY DEF Lifecycle!Rest, Lifecycle!Park, Lifecycle!Offer, Lifecycle!Execute,
       Lifecycle!Deny, Lifecycle!Deliver, Lifecycle!Discard, Lifecycle!Moves,
       Lifecycle!Same

AbstractStep(id) ==
  \/ Lifecycle!Rest(id) \/ Lifecycle!Park(id) \/ Lifecycle!Execute(id)
  \/ Lifecycle!Offer(id) \/ Lifecycle!Deny(id) \/ Lifecycle!Deliver(id)
  \/ Lifecycle!Discard(id)

\* An entry that is left alone keeps the stage of its request, and the deletion
\* of one discards it.
LEMMA UntouchedOrDiscarded ==
  ASSUME TypeOK, QuorumInv, DeliveryInv, NEW id \in ReqIDs,
         pending'[id] = pending[id] \/ pending'[id] = NoRequest,
         id \in used' <=> id \in used,
         minted'[id] = minted[id], delivered'[id] = delivered[id]
  PROVE  AbstractStep(id)
<1>1. pending[id].status \in {"absent", "pending", "approved", "denied"}
  BY DEF TypeOK, PendingRequest
<1>2. NoRequest.status = "absent"
  BY DEF NoRequest
<1>3. CASE id \notin used
  BY <1>3, StageValue, StageValueNext, AbstractSteps DEF AbstractStep
<1>4. CASE id \in used /\ delivered[id] # <<>>
  BY <1>4, StageValue, StageValueNext, AbstractSteps DEF AbstractStep
<1>5. CASE id \in used /\ delivered[id] = <<>>
  <2>1. CASE pending'[id] = pending[id]
    <3>1. Stage(id)' = Stage(id)
      BY <1>1, <1>5, <2>1, StageValue, StageValueNext
    <3>. QED
      BY <3>1, AbstractSteps DEF AbstractStep
  <2>2. CASE pending'[id] = NoRequest
    <3>1. Stage(id)' = "gone"
      BY <1>2, <1>5, <2>2, StageValueNext
    <3>2. Stage(id) \in {"open", "ready", "denied", "gone"}
      BY <1>1, <1>5, StageValue
    <3>. QED
      BY <3>1, <3>2, AbstractSteps DEF AbstractStep
  <2>. QED
    BY <2>1, <2>2
<1>. QED
  BY <1>3, <1>4, <1>5

LEMMA RewrittenStep ==
  ASSUME TypeOK, QuorumInv, DeliveryInv, NEW k \in ReqIDs, NEW e \in PendingRequest,
         Voted(k, e) \/ Executed(k, e) \/ Denied(k, e), NEW id \in ReqIDs
  PROVE  AbstractStep(id)
<1>1. /\ pending[k].status = "pending"
      /\ pending'[k] = e
      /\ \A j \in ReqIDs : j # k => pending'[j] = pending[j]
      /\ UNCHANGED <<used, delivered>>
      /\ k \in used /\ minted[k] = {}
  BY EntryFacts DEF Voted, Executed, Denied, Rewritten, TypeOK
<1>2. delivered[k] = <<>>
  BY <1>1 DEF DeliveryInv, BurnAfterReading
<1>3. \A j \in ReqIDs : j # k => minted'[j] = minted[j]
  BY DEF Voted, Executed, Denied, TypeOK
<1>4. CASE id # k
  BY <1>1, <1>3, <1>4, UntouchedOrDiscarded
<1>5. Stage(k) = "open"
  BY <1>1, <1>2, StageValue
<1>6. CASE id = k /\ Voted(k, e)
  <2>1. Stage(k)' = "open" /\ minted' = minted
    BY <1>1, <1>2, <1>6, StageValueNext DEF Voted
  <2>. QED
    BY <1>1, <1>5, <1>6, <2>1, AbstractSteps DEF AbstractStep
<1>7. CASE id = k /\ Denied(k, e)
  <2>1. Stage(k)' = "denied" /\ minted' = minted
    BY <1>1, <1>2, <1>7, StageValueNext DEF Denied
  <2>. QED
    BY <1>1, <1>5, <1>7, <2>1, AbstractSteps DEF AbstractStep
<1>8. CASE id = k /\ Executed(k, e)
  <2>1. e.status = "approved"
    BY <1>8 DEF Executed
  <2>2. Stage(k)' = IF e.cred.kind # "nil" THEN "ready" ELSE "gone"
    BY <1>1, <1>2, <2>1, StageValueNext
  <2>3. CASE e.cred.kind = "secret"
    <3>1. PICK m : minted' = [minted EXCEPT ![k] = @ \cup {m}]
      BY <1>8, <2>3 DEF Executed
    <3>2. minted'[k] = {m}
      BY <1>1, <3>1 DEF TypeOK
    <3>. QED
      BY <1>1, <1>5, <1>8, <2>2, <2>3, <3>2, AbstractSteps DEF AbstractStep
  <2>4. CASE e.cred.kind # "secret"
    <3>1. minted' = minted
      BY <1>8, <2>4 DEF Executed
    <3>. QED
      BY <1>1, <1>5, <1>8, <2>2, <3>1, AbstractSteps DEF AbstractStep
  <2>. QED
    BY <2>3, <2>4
<1>. QED
  BY <1>4, <1>6, <1>7, <1>8

LEMMA DeliveredStep ==
  ASSUME TypeOK, QuorumInv, DeliveryInv, NEW c \in Callers, NEW k \in ReqIDs,
         Delivered(c, k), NEW id \in ReqIDs
  PROVE  AbstractStep(id)
<1>. DEFINE d == [to |-> c, cred |-> pending[k].cred,
                  approvedAt |-> pending[k].approvedAt, at |-> now]
<1>1. /\ pending[k].status = "approved" /\ pending[k].cred.kind # "nil"
      /\ \A j \in ReqIDs : j # k => pending'[j] = pending[j]
      /\ UNCHANGED <<used, minted>>
      /\ k \in used
  BY EntryFacts DEF Delivered, TypeOK
<1>2. delivered[k] = <<>>
  BY <1>1 DEF DeliveryInv, BurnAfterReading
<1>3. /\ delivered'[k] = <<d>>
      /\ \A j \in ReqIDs : j # k => delivered'[j] = delivered[j]
  <2>1. delivered' = [delivered EXCEPT ![k] = Append(delivered[k], d)]
    BY DEF Delivered
  <2>. HIDE DEF d
  <2>2. Append(<<>>, d) = <<d>>
    OBVIOUS
  <2>. QED
    BY <1>2, <2>1, <2>2 DEF TypeOK
<1>. HIDE DEF d
<1>4. CASE id # k
  BY <1>1, <1>3, <1>4, UntouchedOrDiscarded
<1>5. CASE id = k
  <2>1. delivered'[k] # <<>> /\ Len(delivered'[k]) = 1
    BY <1>3
  <2>2. Stage(k) = "ready" /\ Stage(k)' = "delivered"
    BY <1>1, <1>2, <2>1, StageValue, StageValueNext
  <2>. QED
    BY <1>1, <1>2, <1>5, <2>1, <2>2, AbstractSteps DEF AbstractStep
<1>. QED
  BY <1>4, <1>5

LEMMA ParkedStep ==
  ASSUME TypeOK, QuorumInv, DeliveryInv, NEW k \in ReqIDs, Parked(k), NEW id \in ReqIDs
  PROVE  AbstractStep(id)
<1>1. CASE id # k
  BY <1>1, UntouchedOrDiscarded DEF Parked
<1>2. CASE id = k
  <2>1. Stage(k) = "unborn"
    BY StageValue DEF Parked
  <2>2. delivered'[k] = <<>>
    BY NothingWithoutID DEF Parked
  <2>3. Stage(k)' = "open"
    BY <2>2, StageValueNext DEF Parked
  <2>. QED
    BY <1>2, <2>1, <2>3, AbstractSteps DEF AbstractStep, Parked
<1>. QED
  BY <1>1, <1>2

\* The workflow implements the life cycle, for every value of the constants:
\* a request is decided, executed and delivered at most once and in this order,
\* and nothing that was denied, delivered or removed comes back.
THEOREM LifecycleImplemented == Spec => ImplementsLifecycle
<1>1. Init => Lifecycle!Init
  BY StageValue DEF Init, Lifecycle!Init
<1>2. TypeOK /\ QuorumInv /\ DeliveryInv /\ [Next]_vars
        => [Lifecycle!Next]_(Lifecycle!lifecycle)
  <2>. SUFFICES ASSUME TypeOK, QuorumInv, DeliveryInv, [Next]_vars, NEW id \in ReqIDs
                PROVE  AbstractStep(id)
    BY DEF Lifecycle!Next, AbstractStep
  <2>1. CASE Cleaned
    BY <2>1, UntouchedOrDiscarded DEF Cleaned
  <2>. QED
    BY <2>1, StepShapes, ParkedStep, RewrittenStep, DeliveredStep DEF StepShape
<1>. QED
  BY <1>1, <1>2, TypeCorrect, QuorumCorrect, DeliveryCorrect, PTL
     DEF Spec, ImplementsLifecycle, Lifecycle!Spec

=============================================================================
