---------------------------- MODULE LeasesProofs ----------------------------
(***************************************************************************)
(* Proofs about Leases, for every number of revocation attempts, queued    *)
(* jobs, faults and requests.  That revocation is reached in the end is    *)
(* left to the model checker.                                              *)
(***************************************************************************)
EXTENDS Leases, TLAPS

-----------------------------------------------------------------------------
(* Type correctness, with the bound on the attempts of a job               *)

\* The two halves of TypeOK, which different provers take.
Flags ==
    /\ account \in BOOLEAN /\ given \in BOOLEAN /\ index \in BOOLEAN
    /\ restored \in BOOLEAN

Fields ==
    /\ via \in {"none", "direct", "approved"}
    /\ entry \in {"none", "live", "irrevocable"}
    /\ expires \in {"future", "past"}
    /\ place \in {"none", "pending", "irrevocable"}
    /\ timer \in {"off", "future", "past"}
    /\ attempts \in 0 .. MaxRevokeAttempts - 1
    /\ jobs \in 0 .. MaxJobs
    /\ client \in {"idle", "register", "persist", "index", "fetch", "renew", "renewed"}
    /\ rev \in [pc : {"idle", "revoke", "delete", "index"},
                by : {"none", "job", "client"}]
    /\ worker \in [pc : {"idle", "failed", "retry", "mark"},
                   attempt : 0 .. MaxRevokeAttempts - 1,
                   expires : {"future", "past"}]
    /\ faults \in 0 .. MaxFaults /\ requests \in 0 .. MaxRequests
    /\ cause \subseteq {"crash", "not_armed", "rollback_failed", "not_marked"}

LEMMA TypeParts == TypeOK <=> Flags /\ Fields
BY DEF TypeOK, Flags, Fields

LEMMA FlagsNext == Flags /\ [Next]_vars => Flags'
<1>. SUFFICES ASSUME Flags, [Next]_vars PROVE Flags'
  OBVIOUS
<1>1. CASE Generate
  BY <1>1, Zenon DEF Generate, Flags, lease, memory
<1>2. CASE RegisterPersist
  BY <1>2, Zenon DEF RegisterPersist, Rollback, Faults, Flags, lease, memory
<1>3. CASE RegisterIndex
  BY <1>3, Zenon DEF RegisterIndex, Rollback, Faults, updatePending, Flags,
     lease, memory
<1>4. CASE executeApprovedRequest
  BY <1>4, Zenon DEF executeApprovedRequest, Flags, lease, memory
<1>5. CASE FetchApproved
  BY <1>5, Zenon DEF FetchApproved, Flags, lease, memory
<1>6. CASE Renew
  BY <1>6, Zenon DEF Renew, Request, Locked, Flags, lease, memory
<1>7. CASE RenewPersist
  BY <1>7, Zenon DEF RenewPersist, Faults, Flags, lease, memory
<1>8. CASE RenewTimer
  BY <1>8, Zenon DEF RenewTimer, Faults, updatePending, Flags, lease, memory
<1>9. CASE LazyRevoke
  BY <1>9, Zenon DEF LazyRevoke, Request, Locked, Faults, updatePending,
     Flags, lease, memory
<1>10. CASE Revoke
  BY <1>10, Zenon DEF Revoke, Request, Locked, Flags, lease, memory
<1>11. CASE TimePasses
  BY <1>11, Zenon DEF TimePasses, Flags, lease, memory
<1>12. CASE TimerFires
  BY <1>12, Zenon DEF TimerFires, Flags, lease, memory
<1>13. CASE StartJob
  BY <1>13, Zenon DEF StartJob, Locked, Faults, Flags, lease, memory
<1>14. CASE RevokeEntry
  BY <1>14, Zenon DEF RevokeEntry, RevokeFails, Faults, Flags, lease, memory
<1>15. CASE DeleteEntry
  BY <1>15, Zenon DEF DeleteEntry, RevokeFails, Faults, Flags, lease, memory
<1>16. CASE RemoveIndex
  BY <1>16, Zenon DEF RemoveIndex, RevokeFails, Faults, Flags, lease, memory
<1>17. CASE OnFailure
  BY <1>17, Zenon DEF OnFailure, Faults, Flags, lease, memory
<1>18. CASE RetryLater
  BY <1>18, Zenon DEF RetryLater, Flags, lease, memory
<1>19. CASE markLeaseIrrevocable
  BY <1>19, Zenon DEF markLeaseIrrevocable, Faults, Flags, lease, memory
<1>20. CASE Restore
  BY <1>20, Zenon DEF Restore, updatePending, Flags, lease, memory
<1>21. CASE Crash
  BY <1>21, Zenon DEF Crash, Faults, Flags, lease, memory
<1>22. CASE UNCHANGED vars
  BY <1>22, Zenon DEF vars, lease, memory, Flags
<1>23. CASE RegisterBegin
  BY <1>23, Zenon DEF RegisterBegin, Faults, Flags, lease, memory
<1>. QED
  BY <1>1, <1>2, <1>3, <1>4, <1>5, <1>6, <1>7, <1>8, <1>9, <1>10, <1>11,
     <1>12, <1>13, <1>14, <1>15, <1>16, <1>17, <1>18, <1>19, <1>20, <1>21,
     <1>22, <1>23
     DEF Next, Revocation, JobFailed

\* What a registration, with or without its rollback, counts and blames.
RollbackEffect ==
    \/ UNCHANGED <<faults, cause>>
    \/ /\ Faults(1) \/ Faults(2) \/ Faults(3)
       /\ cause' = cause \/ cause' = cause \cup {"rollback_failed"}

LEMMA RollbackCounts ==
  ASSUME Fields, RollbackEffect
  PROVE  /\ faults' \in 0 .. MaxFaults
         /\ cause' \subseteq {"crash", "not_armed", "rollback_failed", "not_marked"}
<1>1. faults' \in 0 .. MaxFaults
  BY LeaseAssumption DEF RollbackEffect, Faults, Fields
<1>2. cause' \subseteq {"crash", "not_armed", "rollback_failed", "not_marked"}
  BY DEF RollbackEffect, Fields
<1>. QED
  BY <1>1, <1>2

LEMMA FieldsNext == Fields /\ [Next]_vars => Fields'
<1>. SUFFICES ASSUME Fields, [Next]_vars PROVE Fields'
  OBVIOUS
<1>. USE LeaseAssumption
<1>1. CASE Generate
  BY <1>1 DEF Generate, Fields, lease, memory, NoRev, NoFailure, Worker
<1>2. CASE RegisterPersist
  <2>1. /\ entry' \in {"none", "live", "irrevocable"}
        /\ client' \in {"idle", "register", "persist", "index", "fetch", "renew", "renewed"}
    BY <1>2 DEF RegisterPersist, Rollback, Fields
  <2>2. RollbackEffect
    BY <1>2, Zenon DEF RegisterPersist, Rollback, RollbackEffect
  <2>. QED
    BY <1>2, <2>1, <2>2, RollbackCounts DEF RegisterPersist, Fields, memory
<1>3. CASE RegisterIndex
  <2>1. /\ entry' \in {"none", "live", "irrevocable"}
        /\ client' \in {"idle", "register", "persist", "index", "fetch", "renew", "renewed"}
    BY <1>3 DEF RegisterIndex, Rollback, Fields
  <2>2. RollbackEffect
    BY <1>3, Zenon DEF RegisterIndex, Rollback, RollbackEffect
  <2>3. /\ place' \in {"none", "pending", "irrevocable"}
        /\ timer' \in {"off", "future", "past"}
        /\ attempts' \in 0 .. MaxRevokeAttempts - 1
        /\ jobs' = jobs
    BY <1>3 DEF RegisterIndex, updatePending, Fields, memory
  <2>. QED
    BY <1>3, <2>1, <2>2, <2>3, RollbackCounts DEF RegisterIndex, Fields
<1>4. CASE executeApprovedRequest
  BY <1>4 DEF executeApprovedRequest, Fields, lease, memory, NoRev, NoFailure,
     Worker
<1>5. CASE FetchApproved
  BY <1>5 DEF FetchApproved, Fields, lease, memory, NoRev, NoFailure, Worker
<1>6. CASE Renew
  BY <1>6 DEF Renew, Request, Locked, Fields, lease, memory, NoRev, NoFailure,
     Worker
<1>7. CASE RenewPersist
  BY <1>7 DEF RenewPersist, Faults, Fields, lease, memory, NoRev, NoFailure,
     Worker
<1>8. CASE RenewTimer
  BY <1>8 DEF RenewTimer, Faults, updatePending, Fields, lease, memory, NoRev,
     NoFailure, Worker
<1>9. CASE LazyRevoke
  BY <1>9 DEF LazyRevoke, Request, Locked, Faults, updatePending, Fields,
     lease, memory, NoRev, NoFailure, Worker
<1>10. CASE Revoke
  BY <1>10 DEF Revoke, Request, Locked, Fields, lease, memory, NoRev,
     NoFailure, Worker
<1>11. CASE TimePasses
  BY <1>11 DEF TimePasses, Fields, lease, memory, NoRev, NoFailure, Worker
<1>12. CASE TimerFires
  BY <1>12 DEF TimerFires, Fields, lease, memory, NoRev, NoFailure, Worker
<1>13. CASE StartJob
  BY <1>13 DEF StartJob, Locked, Faults, Fields, lease, memory, NoRev,
     NoFailure, Worker
<1>14. CASE RevokeEntry
  <2>1. \/ rev' = [rev EXCEPT !.pc = "delete"] /\ UNCHANGED <<worker, faults>>
        \/ RevokeFails
    BY <1>14, Zenon DEF RevokeEntry
  <2>2. /\ rev' \in [pc : {"idle", "revoke", "delete", "index"},
                    by : {"none", "job", "client"}]
        /\ faults' \in 0 .. MaxFaults
    BY <2>1 DEF RevokeFails, Faults, Fields, NoRev
  <2>3. worker' \in [pc : {"idle", "failed", "retry", "mark"},
                     attempt : 0 .. MaxRevokeAttempts - 1,
                     expires : {"future", "past"}]
    BY <2>1 DEF RevokeFails, Fields, Worker
  <2>. QED
    BY <1>14, <2>2, <2>3 DEF RevokeEntry, Fields, lease, memory
<1>15. CASE DeleteEntry
  BY <1>15 DEF DeleteEntry, RevokeFails, Faults, Fields, lease, memory, NoRev,
     NoFailure, Worker
<1>16. CASE RemoveIndex
  BY <1>16 DEF RemoveIndex, RevokeFails, Faults, Fields, lease, memory, NoRev,
     NoFailure, Worker
<1>17. CASE OnFailure
  <2>1. NoFailure \in [pc : {"idle", "failed", "retry", "mark"},
                       attempt : 0 .. MaxRevokeAttempts - 1,
                       expires : {"future", "past"}]
    BY DEF NoFailure, Worker
  <2>2. worker' \in [pc : {"idle", "failed", "retry", "mark"},
                     attempt : 0 .. MaxRevokeAttempts - 1,
                     expires : {"future", "past"}]
    BY <1>17, <2>1 DEF OnFailure, Worker, Fields
  <2>3. \/ UNCHANGED <<faults, cause>>
        \/ Faults(1) /\ cause' = cause \cup {"not_marked"}
    BY <1>17, Zenon DEF OnFailure
  <2>4. faults' \in 0 .. MaxFaults
    BY <2>3 DEF Faults, Fields
  <2>5. cause' \subseteq {"crash", "not_armed", "rollback_failed", "not_marked"}
    BY <2>3 DEF Fields
  <2>. QED
    BY <1>17, <2>2, <2>4, <2>5 DEF OnFailure, Fields, lease, memory
<1>18. CASE RetryLater
  BY <1>18 DEF RetryLater, Fields, lease, memory, NoRev, NoFailure, Worker
<1>19. CASE markLeaseIrrevocable
  BY <1>19 DEF markLeaseIrrevocable, Faults, Fields, lease, memory, NoRev,
     NoFailure, Worker
<1>20. CASE Restore
  BY <1>20 DEF Restore, updatePending, Fields, lease, memory, NoRev,
     NoFailure, Worker
<1>21. CASE Crash
  BY <1>21 DEF Crash, Faults, Fields, lease, memory, NoRev, NoFailure, Worker
<1>22. CASE UNCHANGED vars
  BY <1>22 DEF vars, lease, memory, Fields
<1>23. CASE RegisterBegin
  <2>1. \/ client' = "persist" /\ UNCHANGED <<faults, cause>>
        \/ Faults(1) /\ client' = "idle" /\ cause' = cause \cup {"not_armed"}
    BY <1>23, Zenon DEF RegisterBegin
  <2>2. faults' \in 0 .. MaxFaults
    BY <2>1 DEF Faults, Fields
  <2>3. cause' \subseteq {"crash", "not_armed", "rollback_failed", "not_marked"}
    BY <2>1 DEF Fields
  <2>. QED
    BY <1>23, <2>1, <2>2, <2>3 DEF RegisterBegin, Fields, lease, memory
<1>. QED
  BY <1>1, <1>2, <1>3, <1>4, <1>5, <1>6, <1>7, <1>8, <1>9, <1>10, <1>11,
     <1>12, <1>13, <1>14, <1>15, <1>16, <1>17, <1>18, <1>19, <1>20, <1>21,
     <1>22, <1>23
     DEF Next, Revocation, JobFailed

\* No job is retried beyond maxRevokeAttempts and every variable keeps its
\* type, whatever is retried, renewed, revoked or restarted in between.
THEOREM TypeCorrect == Spec => []TypeOK
<1>1. Init => Flags
  BY Zenon DEF Init, Flags
<1>2. Init => Fields
  BY LeaseAssumption DEF Init, Fields, NoRev, NoFailure, Worker
<1>3. TypeOK /\ [Next]_vars => TypeOK'
  <2>1. TypeOK' <=> Flags' /\ Fields'
    BY DEF TypeOK, Flags, Fields
  <2>. QED
    BY <2>1, TypeParts, FlagsNext, FieldsNext
<1>. QED
  BY <1>1, <1>2, <1>3, TypeParts, PTL DEF Spec

-----------------------------------------------------------------------------
(* The lease outlives the account                                          *)

LEMMA LeaseInvNext == Fields /\ LeaseInv /\ [Next]_vars => LeaseInv'
<1>. SUFFICES ASSUME Fields, LeaseInv, [Next]_vars PROVE LeaseInv'
  OBVIOUS
<1>1. CASE Generate
  BY <1>1 DEF Generate, LeaseInv, Fields, lease, memory, NoRev, NoFailure,
     Worker
<1>2. CASE RegisterPersist
  <2>1. \/ account' = account /\ entry' = "live" /\ client' = "index" /\ cause' = cause
        \/ account' = FALSE /\ client' = "idle" /\ cause' = cause
        \/ account' = account /\ client' = "idle" /\ "rollback_failed" \in cause'
    BY <1>2, Zenon DEF RegisterPersist, Rollback
  <2>2. /\ rev = NoRev /\ rev' = rev /\ via' = via /\ via # "none"
        /\ given' = given /\ ~given /\ worker' = worker
    BY <1>2 DEF RegisterPersist, LeaseInv
  <2>3. CASE account' = account /\ entry' = "live" /\ client' = "index" /\ cause' = cause
    BY <2>2, <2>3 DEF LeaseInv, NoRev
  <2>4. CASE account' = FALSE /\ client' = "idle" /\ cause' = cause
    BY <2>2, <2>4 DEF LeaseInv, NoRev
  <2>5. CASE account' = account /\ client' = "idle" /\ "rollback_failed" \in cause'
    BY <2>2, <2>5 DEF LeaseInv, NoRev
  <2>. QED
    BY <2>1, <2>3, <2>4, <2>5
<1>3. CASE RegisterIndex
  <2>1. \/ account' = account /\ entry' = entry /\ client' = "idle" /\ cause' = cause
        \/ account' = FALSE /\ client' = "idle" /\ cause' = cause
        \/ account' = account /\ client' = "idle" /\ given' = given
           /\ "rollback_failed" \in cause'
    BY <1>3, Zenon DEF RegisterIndex, Rollback
  <2>2. /\ rev = NoRev /\ rev' = rev /\ via' = via /\ via # "none"
        /\ ~given /\ worker' = worker
    BY <1>3 DEF RegisterIndex, LeaseInv
  <2>3. CASE account' = account /\ entry' = entry /\ client' = "idle" /\ cause' = cause
    <3>1. account /\ via = "direct" => entry # "none"
      BY <1>3 DEF RegisterIndex, LeaseInv
    <3>. QED
      BY <2>2, <2>3, <3>1 DEF LeaseInv, NoRev
  <2>4. CASE account' = FALSE /\ client' = "idle" /\ cause' = cause
    BY <2>2, <2>4 DEF LeaseInv, NoRev
  <2>5. CASE /\ account' = account /\ client' = "idle" /\ given' = given
             /\ "rollback_failed" \in cause'
    BY <2>2, <2>5 DEF LeaseInv, NoRev
  <2>. QED
    BY <2>1, <2>3, <2>4, <2>5
<1>4. CASE executeApprovedRequest
  BY <1>4 DEF executeApprovedRequest, LeaseInv, Fields, lease, memory, NoRev,
     NoFailure, Worker
<1>5. CASE FetchApproved
  BY <1>5 DEF FetchApproved, LeaseInv, Fields, lease, memory, NoRev,
     NoFailure, Worker
<1>6. CASE Renew
  BY <1>6 DEF Renew, Request, Locked, LeaseInv, Fields, lease, memory, NoRev,
     NoFailure, Worker
<1>7. CASE RenewPersist
  BY <1>7 DEF RenewPersist, Faults, LeaseInv, Fields, lease, memory, NoRev,
     NoFailure, Worker
<1>8. CASE RenewTimer
  BY <1>8 DEF RenewTimer, Faults, updatePending, LeaseInv, Fields, lease,
     memory, NoRev, NoFailure, Worker
<1>9. CASE LazyRevoke
  BY <1>9 DEF LazyRevoke, Request, Locked, Faults, updatePending, LeaseInv,
     Fields, lease, memory, NoRev, NoFailure, Worker
<1>10. CASE Revoke
  BY <1>10 DEF Revoke, Request, Locked, LeaseInv, Fields, lease, memory,
     NoRev, NoFailure, Worker
<1>11. CASE TimePasses
  BY <1>11 DEF TimePasses, LeaseInv, Fields, lease, memory, NoRev, NoFailure,
     Worker
<1>12. CASE TimerFires
  BY <1>12 DEF TimerFires, LeaseInv, Fields, lease, memory, NoRev, NoFailure,
     Worker
<1>13. CASE StartJob
  BY <1>13 DEF StartJob, Locked, Faults, LeaseInv, Fields, lease, memory,
     NoRev, NoFailure, Worker
<1>14. CASE RevokeEntry
  <2>1. \/ account' = FALSE /\ rev' = [rev EXCEPT !.pc = "delete"] /\ worker' = worker
        \/ (account' = FALSE \/ account' = account) /\ RevokeFails
    BY <1>14, Zenon DEF RevokeEntry
  <2>2. /\ client' = client /\ via' = via /\ via # "none" /\ given' = given
        /\ entry' = entry /\ cause' = cause
        /\ client \notin {"register", "persist", "index", "renew", "renewed"}
    BY <1>14 DEF RevokeEntry, LeaseInv, lease, NoRev
  <2>3. CASE account' = FALSE
    BY <2>2, <2>3 DEF LeaseInv
  <2>4. CASE account' = account /\ RevokeFails
    BY <2>2, <2>4 DEF LeaseInv, RevokeFails, NoRev
  <2>. QED
    BY <2>1, <2>3, <2>4
<1>15. CASE DeleteEntry
  BY <1>15 DEF DeleteEntry, RevokeFails, Faults, LeaseInv, Fields, lease,
     memory, NoRev, NoFailure, Worker
<1>16. CASE RemoveIndex
  BY <1>16 DEF RemoveIndex, RevokeFails, Faults, LeaseInv, Fields, lease,
     memory, NoRev, NoFailure, Worker
<1>17. CASE OnFailure
  BY <1>17 DEF OnFailure, Faults, LeaseInv, Fields, lease, memory, NoRev,
     NoFailure, Worker
<1>18. CASE RetryLater
  BY <1>18 DEF RetryLater, LeaseInv, Fields, lease, memory, NoRev, NoFailure,
     Worker
<1>19. CASE markLeaseIrrevocable
  BY <1>19 DEF markLeaseIrrevocable, Faults, LeaseInv, Fields, lease, memory,
     NoRev, NoFailure, Worker
<1>20. CASE Restore
  BY <1>20 DEF Restore, updatePending, LeaseInv, Fields, lease, memory, NoRev,
     NoFailure, Worker
<1>21. CASE Crash
  BY <1>21 DEF Crash, Faults, LeaseInv, Fields, lease, memory, NoRev,
     NoFailure, Worker
<1>22. CASE UNCHANGED vars
  BY <1>22 DEF vars, lease, memory, LeaseInv
<1>23. CASE RegisterBegin
  BY <1>23 DEF RegisterBegin, LeaseInv, lease, NoRev
<1>. QED
  BY <1>1, <1>2, <1>3, <1>4, <1>5, <1>6, <1>7, <1>8, <1>9, <1>10, <1>11,
     <1>12, <1>13, <1>14, <1>15, <1>16, <1>17, <1>18, <1>19, <1>20, <1>21,
     <1>22, <1>23
     DEF Next, Revocation, JobFailed

LEMMA LeaseInvCorrect == Spec => []LeaseInv
<1>1. Init => LeaseInv
  BY DEF Init, LeaseInv, NoFailure, Worker
<1>. QED
  BY <1>1, LeaseInvNext, TypeCorrect, TypeParts, PTL DEF Spec

\* Credentials a client was given are never without a stored lease while their
\* account exists: revokeCommon deletes the entry after the account, the lock
\* keeps registration, renewal and revocation apart, and the failure handler,
\* which runs without the lock, only ever stores an entry.
THEOREM Tracked == Spec => []LeaseTracked
<1>1. LeaseInv => LeaseTracked
  BY DEF LeaseInv, LeaseTracked
<1>. QED
  BY <1>1, LeaseInvCorrect, PTL

\* Once its rollback is armed, a registration that fails leaves no account
\* without a lease, and no later revocation, retry or restart takes the lease
\* away before the account, unless the rollback fails as well or Vault stops
\* before the entry is stored.
THEOREM RolledBack == Spec => []RegisterRollsBack
<1>1. LeaseInv => RegisterRollsBack
  BY DEF LeaseInv, RegisterRollsBack
<1>. QED
  BY <1>1, LeaseInvCorrect, PTL

=============================================================================
