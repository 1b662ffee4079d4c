------------------------------- MODULE Leases -------------------------------
(***************************************************************************)
(* One generated database account and its lease: the request that creates  *)
(* it (vault/request_handling.go), its registration, renewal and           *)
(* revocation by the expiration manager (vault/expiration.go), and the     *)
(* execution of an approved request (vault/approval_core.go), which goes   *)
(* to the backend past the registration.  Calls to storage and to the      *)
(* database may fail and Vault may crash between any two steps.            *)
(*                                                                         *)
(* A time is "past" or "future".  A request for a lease that start-up has  *)
(* not loaded yet loads it first, so such requests wait for Restore here.  *)
(***************************************************************************)
EXTENDS Integers

CONSTANTS
    MaxRevokeAttempts, \* maxRevokeAttempts (6 in the code)
    MaxJobs,           \* revocation jobs queued at a time
    MaxFaults,         \* failed calls and crashes
    MaxRequests        \* calls of clients on the lease

ASSUME LeaseAssumption ==
    /\ MaxRevokeAttempts \in Nat \ {0}
    /\ MaxJobs \in Nat \ {0}
    /\ MaxFaults \in Nat
    /\ MaxRequests \in Nat

VARIABLES
    account,   \* does the database have the account?
    via,       \* how it was generated: "none", "direct" or "approved"
    given,     \* has a client received its credentials?
    entry,     \* the stored lease: "none", "live" or "irrevocable"
    expires,   \* its ExpireTime
    index,     \* is it in the token's secondary index?
    place,     \* the map that holds it: "none", "pending" or "irrevocable"
    timer,     \* its timer: "off", "future" or "past"
    attempts,  \* revokesAttempted
    jobs,      \* revocation jobs waiting for a worker
    client,    \* the request under way
    rev,       \* the revokeCommon under way and who runs it
    worker,    \* the job that failed and waits for OnFailure
    restored,  \* has start-up loaded the lease?
    faults, requests,
    cause      \* ghost: what may have cost an account or a timer

lease == <<entry, expires, index>>
memory == <<place, timer, attempts, jobs>>
vars == <<account, via, given, lease, memory, client, rev, worker, restored,
          faults, requests, cause>>

NoRev == [pc |-> "idle", by |-> "none"]

\* The attempts so far and the ExpireTime are those OnFailure has read.
Worker(pc, attempt, expiry) == [pc |-> pc, attempt |-> attempt, expires |-> expiry]
NoFailure == Worker("idle", 0, "past")

TypeOK ==
    /\ account \in BOOLEAN /\ given \in BOOLEAN /\ index \in BOOLEAN
    /\ restored \in BOOLEAN
    /\ via \in {"none", "direct", "approved"}
    /\ entry \in {"none", "live", "irrevocable"}
    /\ expires \in {"future", "past"}
    /\ place \in {"none", "pending", "irrevocable"}
    /\ timer \in {"off", "future", "past"}
    /\ attempts \in 0 .. MaxRevokeAttempts - 1
    /\ jobs \in 0 .. MaxJobs
    /\ client \in {"idle", "register", "persist", "index", "fetch", "renew", "renewed"}
    /\ rev \in [pc : {"idle", "revoke", "delete", "index"},
                by : {"none", "job", "client"}]
    /\ worker \in [pc : {"idle", "failed", "retry", "mark"},
                   attempt : 0 .. MaxRevokeAttempts - 1,
                   expires : {"future", "past"}]
    /\ faults \in 0 .. MaxFaults /\ requests \in 0 .. MaxRequests
    /\ cause \subseteq {"crash", "not_armed", "rollback_failed", "not_marked"}

Init ==
    /\ account = FALSE /\ via = "none" /\ given = FALSE
    /\ entry = "none" /\ expires = "past" /\ index = FALSE
    /\ place = "none" /\ timer = "off" /\ attempts = 0 /\ jobs = 0
    /\ client = "idle" /\ rev = NoRev /\ worker = NoFailure
    /\ restored = TRUE
    /\ faults = 0 /\ requests = 0 /\ cause = {}

-----------------------------------------------------------------------------
Faults(n) == faults + n <= MaxFaults /\ faults' = faults + n
Request == requests < MaxRequests /\ requests' = requests + 1

\* lockForLeaseID: held by registration, renewal and revocation.
Locked == client \in {"persist", "index", "renew", "renewed"} \/ rev # NoRev

\* updatePending: the timer of a lease in pending is reset, otherwise the
\* lease is put there, with no attempts; an irrevocable one goes to the other map.
updatePending(when) ==
    /\ place' = IF entry' = "irrevocable" THEN "irrevocable" ELSE "pending"
    /\ timer' = IF entry' = "irrevocable" THEN "off" ELSE when
    /\ attempts' = IF place = "pending" THEN attempts ELSE 0
    /\ UNCHANGED jobs

-----------------------------------------------------------------------------
(***************************************************************************)
(* Generating credentials                                                  *)
(***************************************************************************)

\* handleRequest routes the read to the backend, which creates the account.
Generate ==
    /\ via = "none" /\ client = "idle"
    /\ account' = TRUE /\ via' = "direct" /\ client' = "register"
    /\ UNCHANGED <<given, lease, memory, rev, worker, restored, faults,
                   requests, cause>>

\* The checks up to Register's deferred rollback: an error they return, such as a
\* TTL that cannot be calculated or an invalid secret, leaves the account behind.
RegisterBegin ==
    /\ client = "register"
    /\ \/ client' = "persist" /\ UNCHANGED <<faults, cause>>
       \/ /\ Faults(1) /\ client' = "idle"
          /\ cause' = cause \cup {"not_armed"}
    /\ UNCHANGED <<account, via, given, lease, memory, rev, worker, restored,
                   requests>>

\* Only the entry is rolled back.
Rollback_KeepsSecret(ent) ==
    /\ client' = "idle"
    /\ Faults(1) /\ entry' = "none" /\ UNCHANGED <<account, cause>>

\* Register's rollback on error: the secret is revoked and the entry deleted;
\* errors are only added to the one returned.  ent is the entry so far.
Rollback(ent) ==
    /\ client' = "idle"
    /\ \/ Faults(1) /\ account' = FALSE /\ entry' = "none" /\ UNCHANGED cause
       \/ Faults(2) /\ account' = FALSE /\ entry' = ent /\ UNCHANGED cause
       \/ Faults(2) /\ UNCHANGED account /\ entry' = "none"
          /\ cause' = cause \cup {"rollback_failed"}
       \/ Faults(3) /\ UNCHANGED account /\ entry' = ent
          /\ cause' = cause \cup {"rollback_failed"}

\* From here an error is rolled back: the entry is persisted ...
RegisterPersist ==
    /\ client = "persist"
    /\ \/ /\ entry' = "live" /\ client' = "index"
          /\ UNCHANGED <<account, faults, cause>>
       \/ Rollback("none")
    /\ expires' = "future"
    /\ UNCHANGED <<via, given, index, memory, rev, worker, restored, requests>>

\* ... indexed by token and given a timer, and the client gets the secret.
RegisterIndex ==
    /\ client = "index"
    /\ \/ /\ index' = TRUE /\ given' = TRUE /\ client' = "idle"
          /\ UNCHANGED <<account, entry, faults, cause>>
          /\ updatePending(expires)
       \/ Rollback(entry) /\ UNCHANGED <<given, index, memory>>
    /\ UNCHANGED <<via, expires, rev, worker, restored, requests>>

\* executeApprovedRequest: the same account, but no lease is registered; the
\* credentials wait in the pending request until the requester fetches them.
executeApprovedRequest ==
    /\ via = "none" /\ client = "idle"
    /\ account' = TRUE /\ via' = "approved" /\ client' = "fetch"
    /\ UNCHANGED <<given, lease, memory, rev, worker, restored, faults,
                   requests, cause>>

FetchApproved ==
    /\ client = "fetch"
    /\ given' = TRUE /\ client' = "idle"
    /\ UNCHANGED <<account, via, lease, memory, rev, worker, restored, faults,
                   requests, cause>>

-----------------------------------------------------------------------------
(***************************************************************************)
(* Requests on the lease                                                   *)
(***************************************************************************)

\* Renew checks the lease and asks the backend.
Renew ==
    /\ Request /\ restored /\ given /\ client = "idle" /\ ~Locked
    /\ entry = "live" /\ expires = "future"
    /\ client' = "renew"
    /\ UNCHANGED <<account, via, given, lease, memory, rev, worker, restored,
                   faults, cause>>

\* The backend's answer and the new ExpireTime persisted, or an error.
RenewPersist ==
    /\ client = "renew"
    /\ \/ expires' = "future" /\ client' = "renewed" /\ UNCHANGED faults
       \/ Faults(1) /\ client' = "idle" /\ UNCHANGED expires
    /\ UNCHANGED <<account, via, given, entry, index, memory, rev, worker,
                   restored, requests, cause>>

\* The timer is reset, unless the observation could not be recorded.
RenewTimer ==
    /\ client = "renewed" /\ client' = "idle"
    /\ UNCHANGED <<account, via, given, lease, rev, worker, restored, requests,
                   cause>>
    /\ \/ updatePending("future") /\ UNCHANGED faults
       \/ Faults(1) /\ UNCHANGED memory

\* lazyRevokeInternal: the lease expires now.
LazyRevoke ==
    /\ Request /\ restored /\ entry # "none" /\ ~Locked
    /\ \/ expires' = "past" /\ entry' = entry /\ UNCHANGED faults
          /\ updatePending("past")
       \/ Faults(1) /\ UNCHANGED <<entry, expires, memory>>
    /\ UNCHANGED <<account, via, given, index, client, rev, worker, restored,
                   cause>>

\* Revoke on a client's request, or of an irrevocable lease by the daily pass.
Revoke ==
    /\ Request /\ restored /\ entry # "none" /\ ~Locked
    /\ rev' = [pc |-> "revoke", by |-> "client"]
    /\ UNCHANGED <<account, via, given, lease, memory, client, worker, restored,
                   faults, cause>>

-----------------------------------------------------------------------------
(***************************************************************************)
(* Expiration                                                              *)
(***************************************************************************)

\* The lease's time is up; a renewal that was just persisted still has its own
\* ahead, but the old timer goes off all the same.
TimePasses ==
    /\ "future" \in {timer, expires}
    /\ timer' = IF timer = "future" THEN "past" ELSE timer
    /\ expires' = IF client = "renewed" THEN expires ELSE "past"
    /\ UNCHANGED <<account, via, given, entry, index, place, attempts, jobs,
                   client, rev, worker, restored, faults, requests, cause>>

\* expireLeaseStrategyFairsharing queues a job.
TimerFires ==
    /\ timer = "past" /\ jobs < MaxJobs
    /\ timer' = "off" /\ jobs' = jobs + 1
    /\ UNCHANGED <<account, via, given, lease, place, attempts, client, rev,
                   worker, restored, faults, requests, cause>>

\* A worker takes a job: without an entry there is nothing to revoke, and the
\* lease stays in pending.  Bound: one worker for the lease.
StartJob ==
    /\ jobs > 0 /\ jobs' = jobs - 1
    /\ restored /\ ~Locked /\ worker = NoFailure
    /\ \/ /\ entry # "none" /\ rev' = [pc |-> "revoke", by |-> "job"]
          /\ UNCHANGED <<worker, faults>>
       \/ entry = "none" /\ UNCHANGED <<rev, worker, faults>>
       \/ Faults(1) /\ worker' = Worker("failed", 0, "past") /\ UNCHANGED rev
    /\ UNCHANGED <<account, via, given, lease, place, timer, attempts, client,
                   restored, requests, cause>>

\* An error of revokeCommon is returned to the client or handed to OnFailure,
\* which runs after the lease was unlocked.
RevokeFails ==
    /\ Faults(1) /\ rev' = NoRev
    /\ worker' = IF rev.by = "job" THEN Worker("failed", 0, "past") ELSE worker

\* An error of the backend ignored, as RevokeForce does.
RevokeEntry_Forced ==
    /\ rev.pc = "revoke"
    /\ \/ account' = FALSE /\ UNCHANGED faults
       \/ UNCHANGED account /\ Faults(1)
    /\ rev' = [rev EXCEPT !.pc = "delete"]
    /\ UNCHANGED <<via, given, lease, memory, client, worker, restored,
                   requests, cause>>

\* revokeCommon: the backend deletes the account (and may have when it reports
\* an error) ...
RevokeEntry ==
    /\ rev.pc = "revoke"
    /\ \/ /\ account' = FALSE /\ rev' = [rev EXCEPT !.pc = "delete"]
          /\ UNCHANGED <<worker, faults>>
       \/ RevokeFails /\ account' \in {account, FALSE}
    /\ UNCHANGED <<via, given, lease, memory, client, restored, requests,
                   cause>>

\* ... the entry is deleted ...
DeleteEntry ==
    /\ rev.pc = "delete"
    /\ \/ /\ entry' = "none" /\ rev' = [rev EXCEPT !.pc = "index"]
          /\ UNCHANGED <<worker, faults>>
       \/ RevokeFails /\ UNCHANGED entry
    /\ UNCHANGED <<account, via, given, expires, index, memory, client,
                   restored, requests, cause>>

\* ... and the index, the timer and the irrevocable lease go.
RemoveIndex ==
    /\ rev.pc = "index"
    /\ \/ /\ index' = FALSE /\ place' = "none" /\ timer' = "off"
          /\ rev' = NoRev /\ UNCHANGED <<worker, faults>>
       \/ RevokeFails /\ UNCHANGED <<index, place, timer>>
    /\ UNCHANGED <<account, via, given, entry, expires, attempts, jobs, client,
                   restored, requests, cause>>

Revocation == RevokeEntry \/ DeleteEntry \/ RemoveIndex

\* Retried for ever.
OnFailure_Unbounded ==
    /\ worker.pc = "failed"
    /\ worker' = Worker("retry", attempts + 1, "past")
    /\ UNCHANGED <<account, via, given, lease, memory, client, rev, restored,
                   faults, requests, cause>>

\* revocationJob.OnFailure: the lease is looked up in pending and, after the last
\* attempt or an unrecoverable error, in storage.
OnFailure ==
    /\ worker.pc = "failed"
    /\ \/ place # "pending" /\ worker' = NoFailure /\ UNCHANGED <<faults, cause>>
       \/ /\ place = "pending" /\ attempts + 1 < MaxRevokeAttempts
          /\ worker' = Worker("retry", attempts + 1, "past")
          /\ UNCHANGED <<faults, cause>>
       \/ /\ place = "pending"
          /\ \/ /\ worker' = IF entry = "none" THEN NoFailure
                             ELSE Worker("mark", 0, expires)
                /\ UNCHANGED <<faults, cause>>
             \/ /\ Faults(1) /\ cause' = cause \cup {"not_marked"}
                /\ worker' = NoFailure
    /\ UNCHANGED <<account, via, given, lease, memory, client, rev, restored,
                   requests>>

\* Another attempt after a back-off: the timer is reset and the lease stored in
\* pending, even if it was revoked meanwhile.
RetryLater ==
    /\ worker.pc = "retry" /\ worker' = NoFailure
    /\ place' = "pending" /\ timer' = "future" /\ attempts' = worker.attempt
    /\ UNCHANGED <<account, via, given, lease, jobs, client, rev, restored,
                   faults, requests, cause>>

\* The copy read is stored as irrevocable, over a renewal or a revocation since;
\* the lease becomes irrevocable in memory even when it cannot be stored.
markLeaseIrrevocable ==
    /\ worker.pc = "mark" /\ worker' = NoFailure
    /\ \/ entry' = "irrevocable" /\ expires' = worker.expires /\ UNCHANGED faults
       \/ Faults(1) /\ UNCHANGED <<entry, expires>>
    /\ place' = "irrevocable" /\ timer' = "off"
    /\ UNCHANGED <<account, via, given, index, attempts, jobs, client, rev,
                   restored, requests, cause>>

JobFailed == OnFailure \/ RetryLater \/ markLeaseIrrevocable

\* Leases that expired while Vault was down are not looked at.
Restore_SkipsExpired ==
    /\ ~restored /\ restored' = TRUE
    /\ IF entry = "none" \/ expires = "past" THEN UNCHANGED memory
       ELSE entry' = entry /\ updatePending(expires)
    /\ UNCHANGED <<account, via, given, lease, client, rev, worker, faults,
                   requests, cause>>

\* Restore loads every stored lease and sets its timer.
Restore ==
    /\ ~restored /\ restored' = TRUE
    /\ UNCHANGED <<account, via, given, lease, client, rev, worker, faults,
                   requests, cause>>
    /\ IF entry = "none" THEN UNCHANGED memory ELSE updatePending(expires)

Crash ==
    /\ Faults(1)
    /\ place' = "none" /\ timer' = "off" /\ attempts' = 0 /\ jobs' = 0
    /\ rev' = NoRev /\ worker' = NoFailure /\ restored' = FALSE
    /\ client' = IF client = "fetch" THEN client ELSE "idle"
    /\ cause' = cause \cup (IF client \in {"register", "persist"} THEN {"crash"} ELSE {})
    /\ UNCHANGED <<account, via, given, lease, requests>>

-----------------------------------------------------------------------------
Next ==
    \/ Generate \/ RegisterBegin \/ RegisterPersist \/ RegisterIndex
    \/ executeApprovedRequest \/ FetchApproved
    \/ Renew \/ RenewPersist \/ RenewTimer \/ LazyRevoke \/ Revoke
    \/ TimePasses \/ TimerFires \/ StartJob \/ Revocation \/ JobFailed
    \/ Restore \/ Crash

\* Time passes, timers fire, workers take the jobs, start-up ends and a request
\* under way is carried on; nothing obliges a client to call.
Fairness ==
    /\ WF_vars(RenewPersist) /\ WF_vars(RenewTimer)
    /\ WF_vars(TimePasses) /\ WF_vars(TimerFires)
    /\ WF_vars(StartJob) /\ WF_vars(Revocation) /\ WF_vars(JobFailed)
    /\ WF_vars(Restore)

Spec == Init /\ [][Next]_vars /\ Fairness

-----------------------------------------------------------------------------
\* A client's credentials are known to the expiration manager's storage as long
\* as the account exists, across failed revocations, retries, renewals and
\* crashes: the entry goes only after the account.
LeaseTracked == account /\ given /\ via = "direct" => entry # "none"

\* Register: "If there is an error we want to rollback as much as possible": once
\* the rollback is armed, an account whose registration or renewal has ended is
\* leased or gone, through failed and half done revocations, retries and
\* restarts.  What can leave an account without a lease: an error that
\* handleRequest or Register returns before that, a crash before the entry is
\* stored, or a rollback that fails itself.
RegisterRollsBack ==
    account /\ via = "direct" /\ client = "idle" /\ cause \subseteq {"not_marked"}
        => entry # "none"

\* "automatically revoked when the lease is up": credentials given out are
\* revoked in the end, or the lease is listed as irrevocable, unless it could
\* not be loaded to be marked so.
RevokedAtLast ==
    account /\ given /\ via = "direct"
        ~> \/ ~account
           \/ place = "irrevocable"
           \/ "not_marked" \in cause

\* The help text of creds/: credentials "will be generated on demand and will
\* be automatically revoked when the lease is up", so those a client holds have
\* a lease.  Approved executions register none.
GivenIsLeased == account /\ given => entry # "none"

-----------------------------------------------------------------------------
\* The inductive strengthening of LeaseTracked and RegisterRollsBack: what the
\* lease's lock and the order of revokeCommon keep apart.
LeaseInv ==
    /\ rev.pc \in {"delete", "index"} => ~account
    /\ client \in {"register", "persist", "index", "renew", "renewed"} => rev = NoRev
    /\ client \in {"register", "persist", "index"} => ~given
    /\ client \in {"register", "persist"} => entry = "none" /\ worker.pc # "mark"
    /\ client = "index" => entry # "none"
    /\ client = "fetch" => via = "approved"
    /\ via = "none" => /\ ~account /\ ~given /\ entry = "none"
                       /\ client = "idle" /\ rev = NoRev /\ worker.pc # "mark"
    /\ account /\ given /\ via = "direct" => entry # "none"
    /\ /\ account /\ via = "direct" /\ client \notin {"register", "persist"}
       /\ cause \subseteq {"not_marked"}
       => entry # "none"
=============================================================================
