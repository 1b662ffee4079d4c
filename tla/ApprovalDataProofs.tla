------------------------- MODULE ApprovalDataProofs -------------------------
(***************************************************************************)
(* Facts about the records and decisions of ApprovalData that the proofs of *)
(* ApprovalWorkflow and of ApprovalHandlers share.                          *)
(***************************************************************************)
EXTENDS ApprovalData, TLAPS

-----------------------------------------------------------------------------
(* The records that the handlers build                                     *)

\* What handleApprovalRuleWrite stores is a rule with a target, approvers and
\* a threshold of at least one, whichever fields the body leaves out.
LEMMA MergedRuleType ==
  ASSUME NEW old \in ApprovalRule \cup {NoRule}, NEW w \in RuleWrites,
         AcceptableWrite(MergedRule(old, w), w)
  PROVE  MergedRule(old, w) \in ApprovalRule
<1> DEFINE base == IF old = NoRule THEN [NoRule EXCEPT !.required = 1] ELSE old
           rule == MergedRule(old, w)
<1>1. /\ w.target \subseteq Targets \cup {NoTarget}
      /\ w.approvers \subseteq SUBSET Entities
      /\ w.required \subseteq Int
      /\ w.self \subseteq BOOLEAN
  BY WriteAssumption
<1>2. /\ base.target \in Targets \cup {NoTarget}
      /\ base.approvers \in SUBSET Entities
      /\ base.required \in Nat \ {0}
      /\ base.self \in BOOLEAN
  <2>. HIDE DEF base
  <2>1. CASE old = NoRule
    <3>1. base = [target |-> NoTarget, approvers |-> {}, required |-> 1,
                  self |-> FALSE]
      BY <2>1 DEF base, NoRule
    <3>. QED
      BY <3>1
  <2>2. CASE old # NoRule
    <3>1. base = old /\ old \in ApprovalRule
      BY <2>2 DEF base
    <3>. QED
      BY <3>1 DEF ApprovalRule
  <2>. QED
    BY <2>1, <2>2
<1>3. /\ rule.target =
           (IF w.target = {} THEN base.target ELSE CHOOSE x \in w.target : TRUE)
      /\ rule.approvers =
           (IF w.approvers = {} THEN base.approvers
                                ELSE CHOOSE x \in w.approvers : TRUE)
      /\ rule.required =
           (IF w.required = {} THEN base.required
                               ELSE CHOOSE x \in w.required : TRUE)
      /\ rule.self = (IF w.self = {} THEN base.self ELSE CHOOSE x \in w.self : TRUE)
      /\ rule = [target |-> rule.target, approvers |-> rule.approvers,
                 required |-> rule.required, self |-> rule.self]
  BY DEF MergedRule
<1>4. rule.target \in Targets
  BY <1>1, <1>2, <1>3 DEF AcceptableWrite
<1>5. rule.approvers \in SUBSET Entities
  BY <1>1, <1>2, <1>3
<1>6. rule.required \in Nat \ {0}
  <2>1. CASE w.required = {}
    BY <1>2, <1>3, <2>1
  <2>2. CASE w.required # {}
    <3>1. rule.required \in w.required
      BY <1>3, <2>2
    <3>. QED
      BY <1>1, <3>1 DEF AcceptableWrite
  <2>. QED
    BY <2>1, <2>2
<1>7. rule.self \in BOOLEAN
  BY <1>1, <1>2, <1>3
<1>. HIDE DEF rule
<1>8. rule \in ApprovalRule
  BY <1>3, <1>4, <1>5, <1>6, <1>7 DEF ApprovalRule
<1>. QED
  BY <1>8 DEF rule

LEMMA NoRequestType == NoRequest \in PendingRequest
BY DEF NoRequest, PendingRequest, NilData, CredentialData, EntityIDs

LEMMA NewPendingType ==
  ASSUME NEW r \in RuleIDs, NEW path \in Paths, NEW c \in Callers, NEW t \in Nat
  PROVE  NewPending(r, path, c, t) \in PendingRequest
<1>1. c.entity \in EntityIDs
  BY CallerAssumption
<1>. QED
  BY <1>1, IDAssumption, TTLAssumption
     DEF NewPending, PendingRequest, NilData, CredentialData

LEMMA WithVoteType ==
  ASSUME NEW p \in PendingRequest, NEW c \in Callers
  PROVE  WithVote(p, c) \in PendingRequest
<1>1. c.entity \in EntityIDs
  BY CallerAssumption
<1>2. Append(p.approvals, c.entity) \in Seq(EntityIDs)
  BY <1>1 DEF PendingRequest
<1>. QED
  BY <1>2 DEF WithVote, PendingRequest

\* The credential that is stored with an approval, whatever the backend said.
LEMMA ExecutedType ==
  ASSUME NEW p \in PendingRequest, NEW t \in Nat,
         NEW kind \in {"secret", "error", "empty"}, NEW n \in Nat
  PROVE  StorageEntryJSON(WithCredential([p EXCEPT !.status = "approved"],
                                         [kind |-> kind, serial |-> n], t))
           \in PendingRequest
BY DEF StorageEntryJSON, WithCredential, PendingRequest, CredentialData, NilData

LEMMA HistoryEntryType ==
  ASSUME NEW status \in {"retrieved", "denied", "expired"}, NEW by \in EntityIDs,
         NEW t \in Nat
  PROVE  HistoryEntry(status, by, t) \in ApprovalHistoryEntry
BY TTLAssumption DEF HistoryEntry, ApprovalHistoryEntry

LEMMA LastApproverType ==
  ASSUME NEW p \in PendingRequest
  PROVE  LastApprover(p) \in EntityIDs
BY DEF LastApprover, PendingRequest, EntityIDs

-----------------------------------------------------------------------------
(* Votes                                                                   *)

\* Votes stay fair when rules are added to those that have allowed
\* self-approval.
LEMMA FairVotesMonotone ==
  ASSUME NEW vote, NEW o, NEW r, NEW allowed, NEW more, allowed \subseteq more,
         FairVotes(vote, o, r, allowed)
  PROVE  FairVotes(vote, o, r, more)
BY DEF FairVotes

\* A vote that handleApprovalApprove accepts keeps the votes fair.
LEMMA VoteStaysFair ==
  ASSUME NEW c \in Callers, NEW p \in PendingRequest, NEW rule \in ApprovalRule,
         NEW r \in RuleIDs, NEW allowed, rule.self => r \in allowed,
         MayApprove(c, p, rule), FairVotes(p.approvals, p.requester, r, allowed)
  PROVE  FairVotes(Append(p.approvals, c.entity), p.requester, r, allowed)
<1>. DEFINE v == p.approvals
            n == Len(v)
            w == Append(v, c.entity)
<1>1. v \in Seq(EntityIDs) /\ n \in Nat
  BY DEF PendingRequest
<1>2. /\ Len(w) = n + 1
      /\ w[n + 1] = c.entity
      /\ \A i \in 1..n : w[i] = v[i]
  BY <1>1
<1>3. ASSUME NEW i \in 1..n, v[i] = c.entity
      PROVE  c.entity = NoEntity
  BY <1>3 DEF MayApprove, HasVoted
<1>4. ASSUME c.entity = p.requester, p.requester # NoEntity
      PROVE  r \in allowed \/ [entity |-> p.requester, root |-> TRUE] \in Callers
  <2>1. CASE c.root
    <3>1. c \in [entity : EntityIDs, root : BOOLEAN]
      BY CallerAssumption
    <3>2. c = [entity |-> c.entity, root |-> TRUE]
      BY <2>1, <3>1
    <3>. QED
      BY <1>4, <3>2
  <2>2. CASE ~c.root
    BY <1>4, <2>2 DEF MayApprove, IsRequester, ApprovalRule
  <2>. QED
    BY <2>1, <2>2
<1>. HIDE DEF v, n, w
<1>5. FairVotes(v, p.requester, r, allowed)
  BY DEF v
<1>6. ASSUME NEW i \in 1..(n + 1), NEW j \in 1..(n + 1), i # j, w[i] = w[j]
      PROVE  w[i] = NoEntity
  <2>1. CASE i \in 1..n /\ j \in 1..n
    BY <1>2, <1>5, <1>6, <2>1 DEF FairVotes, n
  <2>2. CASE i = n + 1 /\ j \in 1..n
    BY <1>2, <1>3, <1>6, <2>2
  <2>3. CASE j = n + 1 /\ i \in 1..n
    BY <1>2, <1>3, <1>6, <2>3
  <2>. QED
    BY <1>1, <1>6, <2>1, <2>2, <2>3
<1>7. ASSUME NEW i \in 1..(n + 1), w[i] = p.requester, p.requester # NoEntity
      PROVE  r \in allowed \/ [entity |-> p.requester, root |-> TRUE] \in Callers
  <2>1. CASE i \in 1..n
    BY <1>2, <1>5, <1>7, <2>1 DEF FairVotes, n
  <2>2. CASE i = n + 1
    BY <1>2, <1>4, <1>7, <2>2
  <2>. QED
    BY <1>1, <1>7, <2>1, <2>2
<1>8. FairVotes(w, p.requester, r, allowed)
  BY <1>2, <1>6, <1>7 DEF FairVotes
<1>. QED
  BY <1>8 DEF w, v

=============================================================================
