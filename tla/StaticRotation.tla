--------------------------- MODULE StaticRotation ---------------------------
(***************************************************************************)
(* Rotation of one static role of the database secrets engine              *)
(* (builtin/logical/database/rotation.go): the ticker, rotate-role         *)
(* requests, creation, update and deletion of the role, and the start-up   *)
(* that reads the write-ahead log (WAL).  A rotation writes a WAL, sets    *)
(* the password in the database, stores the role and deletes the WAL; a    *)
(* storage call or the database may fail at each step, a call that timed   *)
(* out may still land, and Vault may crash between any two steps.          *)
(*                                                                         *)
(* Passwords are numbered in the order they are generated, 0 being the one *)
(* the account had first.  A WAL holds a password of its own, which also   *)
(* serves as its ID, so 0 is "no WAL ID".  Two WALs of the role are never  *)
(* written in one second: the later password is the later walCreatedAt.    *)
(* LastVaultRotation is a count of stores, 0 its zero time.                *)
(* Deletion holds the role's lock and is one step.  Bounds: one request    *)
(* that creates or updates the role from its decision to its last step or  *)
(* until it rotates, and one goroutine of an operator that rotates.        *)
(***************************************************************************)
EXTENDS Integers, FiniteSets

CONSTANTS
    MaxPeriods,  \* rotation periods that pass while nothing has to heal
    MaxFaults,   \* failed calls, missed windows and crashes
    MaxRequests, \* operators' calls
    MaxEvents    \* faults and operators' calls together

ASSUME RotationAssumption ==
    /\ MaxPeriods \in Nat
    /\ MaxFaults \in Nat
    /\ MaxRequests \in Nat
    /\ MaxEvents \in Nat

VARIABLES
    role,     \* the stored role, or NoRole
    wals,     \* the static WALs in storage
    db,       \* the password the database accepts
    late,     \* passwords of timed-out UpdateUser calls that may still land
    queue,    \* the role's item in credRotationQueue: at most one
    up,       \* has initQueue populated the queue?
    rot,      \* the rotation each goroutine is carrying out
    write,    \* the request that creates or updates the role
    gen,      \* passwords generated
    clock,    \* times of rotation recorded
    periods, faults, requests,
    cause     \* ghost: what may have cost a password or an item

storage == <<role, wals>>
counters == <<gen, clock, periods, requests>>
vars == <<role, wals, db, late, queue, up, rot, write, gen, clock, periods,
          faults, requests, cause>>

Procs == {"ticker", "user"}
NoRole == [pw |-> -1, lvr |-> 0]
Unset == -2   \* the empty password
Item(due, wal) == [due |-> due, wal |-> wal]
Idle == [pc |-> "idle", op |-> "none", item |-> Item("later", 0),
         role |-> NoRole, pw |-> 0, used |-> FALSE]
NoWrite == [pc |-> "idle", op |-> "none", role |-> NoRole,
            item |-> Item("later", 0)]

\* The steps of setStaticAccount.
Sections == {"begin", "update", "store", "clean"}
Causes == {"failed_roll_forward", "late_call", "overlap", "wals_not_loaded",
           "zero_time_wal", "item_dropped", "late_create", "late_update"}

TypeOK ==
    /\ \A r \in {role, rot["ticker"].role, rot["user"].role, write.role} :
          r = NoRole \/ (r.pw \in {Unset} \cup 0 .. gen /\ r.lvr \in 0 .. clock)
    /\ \A w \in wals : w.pw \in 1 .. gen /\ w.lvr \in 0 .. clock
    /\ db \in 0 .. gen /\ late \subseteq 1 .. gen
    /\ \A i \in queue : i.due \in {"now", "soon", "later"} /\ i.wal \in 0 .. gen
    /\ Cardinality(queue) <= 1
    /\ up \in BOOLEAN
    /\ \A p \in Procs :
          /\ rot[p].pc \in {"idle", "popped"} \cup Sections
          /\ rot[p].op \in {"none", "tick", "rotate", "create"}
          /\ rot[p].pc \in {"update", "store", "clean"} => rot[p].pw \in 1 .. gen
    /\ write.pc \in {"idle", "wait", "put", "pop", "push"}
    /\ write.op \in {"none", "create", "skip_import", "update"}
    /\ gen \in Nat /\ clock \in Nat
    /\ periods \in 0 .. MaxPeriods
    /\ faults \in 0 .. MaxFaults
    /\ requests \in 0 .. MaxRequests
    /\ cause \subseteq Causes

\* Vault starts, with no role yet or with one that has been rotated.
Init ==
    /\ role \in {NoRole, [pw |-> 0, lvr |-> 1]}
    /\ clock = role.lvr
    /\ wals = {} /\ db = 0 /\ late = {}
    /\ queue = {} /\ up = FALSE
    /\ rot = [p \in Procs |-> Idle] /\ write = NoWrite
    /\ gen = 0 /\ periods = 0 /\ faults = 0 /\ requests = 0
    /\ cause = {}

-----------------------------------------------------------------------------
\* A step in which n calls fail.
Faults(n) ==
    /\ n = 0 \/ (faults + n <= MaxFaults /\ faults + requests + n <= MaxEvents)
    /\ faults' = faults + n

Without(ws, pw) == {w \in ws : w.pw # pw}

\* The WALs ws are looked up and deleted one by one: those whose deletion fails
\* stay, and all of them when they cannot be listed.
DeleteWALs(ws) ==
    \E left \in SUBSET ws :
        /\ wals' = (wals \ ws) \cup left
        /\ Faults(Cardinality(left)) \/ (left = ws /\ Faults(1))

Blame(c, holds) == cause' = cause \cup (IF holds THEN {c} ELSE {})

\* A second item for the key.
Push_Duplicate(item) == queue' = queue \cup {item}

\* PriorityQueue.Push: the key of an item in the queue is not pushed again.
Push(item) == queue' = IF queue = {} THEN {item} ELSE queue

\* The role's lock: taken by the ticker once it has popped the item and by
\* creation, update and deletion; rotate-role does not take it.
Locked ==
    \/ rot["ticker"].pc \in Sections
    \/ rot["user"].pc \in Sections /\ rot["user"].op = "create"
    \/ write.pc \in {"put", "pop", "push"}

Rotating(p) == rot[p].pc \in Sections /\ rot[p].op # "create"

\* What the caller of setStaticAccount does with an error.  w is the WAL ID
\* returned (0: none), ws the WALs left by the callee and n the number of its
\* failed calls: the ticker and rotate-role push the item for a retry and keep
\* the ID, creation deletes the WAL (which may fail too) and pushes nothing.
GiveUp(p, w, ws, n) ==
    /\ rot' = [rot EXCEPT ![p] = Idle]
    /\ \/ /\ rot[p].op = "create"
          /\ UNCHANGED queue
          /\ \/ Faults(n) /\ wals' = Without(ws, w)
             \/ Faults(n + 1) /\ wals' = ws
       \/ /\ rot[p].op # "create"
          /\ Push(Item("soon", IF w # 0 THEN w ELSE rot[p].item.wal))
          /\ Faults(n) /\ wals' = ws

-----------------------------------------------------------------------------
(***************************************************************************)
(* setStaticAccount, one step for each call that changes something         *)
(***************************************************************************)

HasWAL(pw) == \E w \in wals : w.pw = pw

\* A WAL that is gone taken for an error.
UseWAL_NeedsWAL(p) ==
    /\ rot[p].pc = "begin"
    /\ \/ /\ HasWAL(rot[p].item.wal)
          /\ rot' = [rot EXCEPT ![p].pc = "update", ![p].used = TRUE,
                                ![p].pw = rot[p].item.wal]
          /\ UNCHANGED <<wals, queue, gen, faults>>
       \/ /\ rot[p].item.wal = 0
          /\ gen' = gen + 1
          /\ wals' = wals \cup {[pw |-> gen', lvr |-> rot[p].role.lvr]}
          /\ rot' = [rot EXCEPT ![p].pc = "update", ![p].used = FALSE,
                                ![p].pw = gen']
          /\ UNCHANGED <<queue, faults>>
       \/ GiveUp(p, rot[p].item.wal, wals, IF rot[p].item.wal = 0 THEN 1 ELSE 0)
          /\ UNCHANGED gen
    /\ UNCHANGED <<role, db, late, up, write, clock, periods, requests, cause>>

\* Up to the WAL: the item's WAL is rolled forward when it is still there,
\* otherwise a password is generated and a WAL put.
UseWAL(p) ==
    /\ rot[p].pc = "begin"
    /\ \/ /\ HasWAL(rot[p].item.wal)
          /\ rot' = [rot EXCEPT ![p].pc = "update", ![p].used = TRUE,
                                ![p].pw = rot[p].item.wal]
          /\ UNCHANGED <<wals, queue, gen, faults>>
       \/ /\ ~HasWAL(rot[p].item.wal)
          /\ gen' = gen + 1
          /\ wals' = wals \cup {[pw |-> gen', lvr |-> rot[p].role.lvr]}
          /\ rot' = [rot EXCEPT ![p].pc = "update", ![p].used = FALSE,
                                ![p].pw = gen']
          /\ UNCHANGED <<queue, faults>>
       \/ GiveUp(p, rot[p].item.wal, wals, 1) /\ UNCHANGED gen
    /\ UNCHANGED <<role, db, late, up, write, clock, periods, requests, cause>>

\* The database sets the password and says so.
UpdateUser(p) ==
    /\ rot[p].pc = "update"
    /\ db' = rot[p].pw
    /\ rot' = [rot EXCEPT ![p].pc = "store"]
    /\ UNCHANGED <<role, wals, late, queue, up, write, counters, faults, cause>>

\* The WAL deleted after the first failure too.
UpdateUserFails_DropsWAL(p) ==
    /\ rot[p].pc = "update"
    /\ \/ UNCHANGED <<db, late>>
       \/ db' = rot[p].pw /\ UNCHANGED late
       \/ late' = late \cup {rot[p].pw} /\ UNCHANGED db
    /\ \/ GiveUp(p, 0, Without(wals, rot[p].pw), 1)
       \/ GiveUp(p, 0, wals, 2)
    /\ Blame("failed_roll_forward", rot[p].used)
    /\ UNCHANGED <<role, up, write, counters>>

\* An error or the 10-second timeout: the database has not set the password,
\* has set it, or will when the call lands.  A WAL that was rolled forward is
\* deleted and its ID not returned; a new WAL is kept.
UpdateUserFails(p) ==
    /\ rot[p].pc = "update"
    /\ \/ UNCHANGED <<db, late>>
       \/ db' = rot[p].pw /\ UNCHANGED late
       \/ late' = late \cup {rot[p].pw} /\ UNCHANGED db
    /\ IF rot[p].used
       THEN \/ GiveUp(p, 0, Without(wals, rot[p].pw), 1)
            \/ GiveUp(p, 0, wals, 2)
       ELSE GiveUp(p, rot[p].pw, wals, 1)
    /\ Blame("failed_roll_forward", rot[p].used)
    /\ UNCHANGED <<role, up, write, counters>>

\* StoreStaticRole with the new password and the time of rotation.
StoreStaticRole(p) ==
    /\ rot[p].pc = "store"
    /\ \/ /\ clock' = clock + 1
          /\ role' = [pw |-> rot[p].pw, lvr |-> clock']
          /\ rot' = [rot EXCEPT ![p].pc = "clean"]
          /\ UNCHANGED <<wals, queue, faults>>
       \/ GiveUp(p, rot[p].pw, wals, 1) /\ UNCHANGED <<role, clock>>
    /\ UNCHANGED <<db, late, up, write, gen, periods, requests, cause>>

\* The WAL is deleted and the caller queues the next rotation.  When the
\* deletion fails the role is stored all the same; creation then reports an
\* error and the role is in no queue.
DeleteWAL(p) ==
    /\ rot[p].pc = "clean"
    /\ \/ /\ wals' = Without(wals, rot[p].pw)
          /\ Push(Item("later", 0))
          /\ rot' = [rot EXCEPT ![p] = Idle]
          /\ UNCHANGED <<faults, cause>>
       \/ /\ GiveUp(p, rot[p].pw, wals, 1)
          /\ Blame("item_dropped", rot[p].op = "create")
    /\ UNCHANGED <<role, db, late, up, write, counters>>

setStaticAccount(p) ==
    \/ UseWAL(p)
    \/ UpdateUser(p)
    \/ UpdateUserFails(p)
    \/ StoreStaticRole(p)
    \/ DeleteWAL(p)

-----------------------------------------------------------------------------
(***************************************************************************)
(* The ticker                                                              *)
(***************************************************************************)

\* rotateCredential pops the item before it takes the lock.
PopItem ==
    /\ up /\ rot["ticker"].pc = "idle"
    /\ \E i \in queue :
          rot' = [rot EXCEPT !["ticker"] =
                    [Idle EXCEPT !.pc = "popped", !.op = "tick", !.item = i]]
    /\ queue' = {}
    /\ UNCHANGED <<storage, db, late, up, write, counters, faults, cause>>

\* An item that is not rotated now is forgotten.
rotateCredential_NotPutBack ==
    LET item == rot["ticker"].item IN
    /\ rot["ticker"].pc = "popped" /\ ~Locked
    /\ \/ /\ role # NoRole /\ item.due = "now"
          /\ rot' = [rot EXCEPT !["ticker"].pc = "begin", !["ticker"].role = role]
          /\ Blame("overlap", Rotating("user"))
          /\ UNCHANGED <<queue, faults>>
       \/ /\ rot' = [rot EXCEPT !["ticker"] = Idle]
          /\ UNCHANGED <<queue, faults, cause>>
    /\ UNCHANGED <<storage, db, late, up, write, counters>>

\* Under the lock: the role is loaded and the item rotated, put back or
\* dropped.  A schedule-based role outside its window is stored with its next
\* one; when that fails the item is not pushed.
rotateCredential ==
    LET item == rot["ticker"].item IN
    /\ rot["ticker"].pc = "popped" /\ ~Locked
    /\ \/ /\ role # NoRole /\ item.due = "now"
          /\ rot' = [rot EXCEPT !["ticker"].pc = "begin", !["ticker"].role = role]
          /\ Blame("overlap", Rotating("user"))
          /\ UNCHANGED <<queue, faults>>
       \/ /\ rot' = [rot EXCEPT !["ticker"] = Idle]
          /\ \/ /\ role # NoRole /\ item.due # "now"
                /\ Push(item) /\ UNCHANGED <<faults, cause>>
             \/ /\ role = NoRole
                /\ UNCHANGED <<queue, faults, cause>>
             \/ /\ Push(Item("soon", item.wal)) \* the role could not be read
                /\ Faults(1) /\ UNCHANGED cause
             \/ /\ role # NoRole /\ Faults(1)
                /\ \/ /\ item.due # "later"
                      /\ Push(Item("later", item.wal)) /\ UNCHANGED cause
                   \/ UNCHANGED queue /\ Blame("item_dropped", TRUE)
    /\ UNCHANGED <<storage, db, late, up, write, counters>>

-----------------------------------------------------------------------------
(***************************************************************************)
(* Requests                                                                *)
(***************************************************************************)

Request ==
    /\ requests < MaxRequests /\ faults + requests < MaxEvents
    /\ requests' = requests + 1

\* pathStaticRoleCreateUpdate: creation or update is decided before the lock is
\* taken, by whether the role exists then.
BeginWrite ==
    /\ Request /\ write = NoWrite
    /\ \E op \in IF role = NoRole THEN {"create", "skip_import"} ELSE {"update"} :
          write' = [NoWrite EXCEPT !.pc = "wait", !.op = op]
    /\ UNCHANGED <<storage, db, late, queue, up, rot, gen, clock, periods, faults,
                   cause>>

\* Under the lock the role is read; one that does not exist starts empty.
Copy == IF role = NoRole THEN [pw |-> Unset, lvr |-> 0] ELSE role

\* Creation that rotates the account's password.
CreateRole ==
    /\ write.pc = "wait" /\ write.op = "create"
    /\ ~Locked /\ rot["user"].pc = "idle"
    /\ rot' = [rot EXCEPT !["user"] = [Idle EXCEPT !.pc = "begin", !.op = "create",
                                                  !.role = Copy]]
    /\ write' = NoWrite
    /\ Blame("late_create", role # NoRole)
    /\ UNCHANGED <<storage, db, late, queue, up, counters, faults>>

\* Creation with skip_import_rotation: nothing is rotated; a role that was never
\* rotated takes the account's password from the operator, who knows it.
CreateSkipImport ==
    /\ write.pc = "wait" /\ write.op = "skip_import" /\ ~Locked
    /\ write' = [write EXCEPT !.pc = "put",
                    !.role = IF Copy.lvr = 0 THEN [pw |-> db, lvr |-> 0] ELSE Copy]
    /\ Blame("late_create", role # NoRole)
    /\ UNCHANGED <<storage, db, late, queue, up, rot, counters, faults>>

\* Update: the same, if the operator gives a password.
UpdateRole ==
    /\ write.pc = "wait" /\ write.op = "update" /\ ~Locked
    /\ \/ write' = [write EXCEPT !.pc = "put", !.role = Copy]
       \/ /\ Copy.lvr = 0
          /\ write' = [write EXCEPT !.pc = "put", !.role = [pw |-> db, lvr |-> 0]]
    /\ Blame("late_update", role = NoRole)
    /\ UNCHANGED <<storage, db, late, queue, up, rot, counters, faults>>

\* A parameter that is refused, or a role that cannot be read.
RefuseWrite ==
    /\ write.pc = "wait" /\ ~Locked /\ write' = NoWrite
    /\ UNCHANGED <<storage, db, late, queue, up, rot, counters, faults, cause>>

\* The copy is stored, over whatever a rotate-role has stored since.
PutRole ==
    /\ write.pc = "put"
    /\ \/ /\ role' = write.role
          /\ write' = [write EXCEPT !.pc = IF write.op = "update" THEN "pop" ELSE "push",
                                    !.item = Item("later", 0)]
          /\ Blame("overlap", role.lvr # write.role.lvr)
          /\ UNCHANGED faults
       \/ Faults(1) /\ write' = NoWrite /\ UNCHANGED <<role, cause>>
    /\ UNCHANGED <<wals, db, late, queue, up, rot, counters>>

\* Update takes the item out of the queue and fails when it is not there.  The
\* item gets a new priority if the period or the schedule was given, and keeps
\* its WAL ID.
PopByKey ==
    /\ write.pc = "pop" /\ queue' = {}
    /\ \/ queue = {} /\ write' = NoWrite
       \/ \E i \in queue : \E due \in {i.due, "now", "later"} :
             write' = [write EXCEPT !.pc = "push", !.item = Item(due, i.wal)]
    /\ UNCHANGED <<storage, db, late, up, rot, counters, faults, cause>>

\* Creation and update push the item.
PushItem ==
    /\ write.pc = "push" /\ Push(write.item) /\ write' = NoWrite
    /\ UNCHANGED <<storage, db, late, up, rot, counters, faults, cause>>

Write ==
    \/ CreateRole \/ CreateSkipImport \/ UpdateRole \/ RefuseWrite
    \/ PutRole \/ PopByKey \/ PushItem

\* pathStaticRoleDelete: the item goes first, then the role, then its WALs.  An
\* item that the ticker has popped and a rotate-role under way live on.
DeleteRole ==
    /\ Request
    /\ role # NoRole /\ ~Locked
    /\ queue' = {}
    /\ \/ /\ role' = NoRole /\ DeleteWALs(wals)
          /\ Blame("overlap", rot["ticker"].pc # "idle" \/ Rotating("user"))
       \/ Faults(1) /\ Blame("item_dropped", TRUE) /\ UNCHANGED storage
    /\ UNCHANGED <<db, late, up, rot, write, gen, clock, periods>>

\* pathRotateRoleCredentialsUpdate: no lock, and an item that is not in the
\* queue is replaced by a new one without a WAL ID.
RotateRole ==
    /\ Request
    /\ role # NoRole /\ rot["user"].pc = "idle"
    /\ \E i \in IF queue = {} THEN {Item("now", 0)} ELSE queue :
          rot' = [rot EXCEPT !["user"] =
                    [Idle EXCEPT !.pc = "begin", !.op = "rotate", !.item = i,
                                 !.role = role]]
    /\ queue' = {}
    /\ Blame("overlap", ~up \/ rot["ticker"].pc # "idle" \/ write.pc = "push")
    /\ UNCHANGED <<storage, db, late, up, write, gen, clock, periods, faults>>

-----------------------------------------------------------------------------
(***************************************************************************)
(* Start-up, time and faults                                               *)
(***************************************************************************)

\* loadStaticWALs: of several WALs the one created last counts.
Newest(ws) == {w \in ws : \A v \in ws : v.pw <= w.pw}

\* populateQueue: the WAL that is rolled forward.
RollForward(ws) == {w \in Newest(ws) : w.lvr # 0 /\ w.lvr >= role.lvr}

\* initQueue: WALs without a role, stale ones and outdated ones are deleted
\* (a failed deletion is only logged), those that cannot be read are skipped, and
\* the role is queued, at once when it has a WAL to roll forward.  The role or
\* all its WALs may be out of reach as well.
initQueue ==
    LET busy == IF rot["user"].pc # "idle" \/ write.pc \in {"put", "pop", "push"}
                THEN {"overlap"} ELSE {} IN
    /\ ~up /\ up' = TRUE
    /\ \/ /\ role = NoRole
          /\ DeleteWALs(wals)
          /\ cause' = cause \cup busy
          /\ UNCHANGED queue
       \/ /\ role # NoRole
          /\ \E unread \in SUBSET wals :
             \E left \in SUBSET ((wals \ unread) \ RollForward(wals \ unread)) :
                LET roll == RollForward(wals \ unread) IN
                /\ wals' = unread \cup left \cup roll
                /\ Faults(Cardinality(unread \cup left))
                /\ \/ \E w \in roll : Push(Item("now", w.pw))
                   \/ roll = {} /\ \E due \in {"now", "later"} : Push(Item(due, 0))
                /\ cause' = cause \cup busy
                     \cup (IF unread # {} THEN {"wals_not_loaded"} ELSE {})
                     \cup (IF wals # {} /\ role.lvr = 0 THEN {"zero_time_wal"} ELSE {})
       \/ /\ role # NoRole /\ Faults(1)
          /\ \/ /\ \E due \in {"now", "later"} : Push(Item(due, 0))
                /\ cause' = cause \cup busy \cup {"wals_not_loaded"}
             \/ cause' = cause \cup busy \cup {"item_dropped"} /\ UNCHANGED queue
          /\ UNCHANGED wals
    /\ UNCHANGED <<role, db, late, rot, write, counters>>

\* Time passes: the back-off of 10 seconds ends, or the rotation period does.
\* Periods are counted only while the stored password is the database's.
DueNow(item) == Item("now", item.wal)

TimePasses(from) ==
    /\ \/ \E i \in queue : i.due = from
       \/ rot["ticker"].pc = "popped" /\ rot["ticker"].item.due = from
    /\ queue' = {IF i.due = from THEN DueNow(i) ELSE i : i \in queue}
    /\ rot' = IF rot["ticker"].pc = "popped" /\ rot["ticker"].item.due = from
              THEN [rot EXCEPT !["ticker"].item = DueNow(@)] ELSE rot
    /\ UNCHANGED <<storage, db, late, up, write, gen, clock, faults, requests,
                   cause>>

BackoffEnds == TimePasses("soon") /\ UNCHANGED periods

PeriodEnds ==
    /\ TimePasses("later")
    /\ IF role.pw # db THEN UNCHANGED periods
       ELSE periods < MaxPeriods /\ periods' = periods + 1

\* A call that timed out lands, or never does.
LateCall ==
    /\ \E pw \in late :
          /\ late' = late \ {pw}
          /\ \/ db' = pw /\ Blame("late_call", ~HasWAL(pw) \/ pw < db)
             \/ UNCHANGED <<db, cause>>
    /\ UNCHANGED <<storage, queue, up, rot, write, counters, faults>>

\* Vault restarts: queue and rotations under way are gone, but a call to the
\* database may still land.
Crash ==
    /\ Faults(1)
    /\ up' = FALSE /\ queue' = {}
    /\ rot' = [p \in Procs |-> Idle] /\ write' = NoWrite
    /\ \E calls \in SUBSET {p \in Procs : rot[p].pc = "update"} :
          late' = late \cup {rot[p].pw : p \in calls}
    /\ UNCHANGED <<storage, db, counters, cause>>

-----------------------------------------------------------------------------
Requests == BeginWrite \/ Write \/ DeleteRole \/ RotateRole

Next ==
    \/ PopItem \/ rotateCredential
    \/ \E p \in Procs : setStaticAccount(p)
    \/ Requests
    \/ initQueue
    \/ BackoffEnds \/ PeriodEnds
    \/ LateCall \/ Crash

\* runTicker fires every 5 seconds, a goroutine that runs is scheduled, calls
\* end (UpdateUser within its timeout) and time passes.
Fairness ==
    /\ WF_vars(initQueue)
    /\ WF_vars(PopItem) /\ WF_vars(rotateCredential)
    /\ \A p \in Procs : WF_vars(setStaticAccount(p))
    /\ WF_vars(PutRole) /\ WF_vars(PopByKey) /\ WF_vars(PushItem)
    /\ WF_vars(BackoffEnds) /\ WF_vars(PeriodEnds)

Spec == Init /\ [][Next]_vars /\ Fairness

-----------------------------------------------------------------------------
Recoverable == role # NoRole => role.pw = db \/ HasWAL(db)

\* "uses WAL for ensuring new credentials are not lost": the password the
\* database accepts for a stored role is the stored one or that of a WAL,
\* whichever call fails and whenever Vault crashes.  What may cost it: a
\* roll-forward that fails (its WAL is deleted), a rotation that overlaps
\* another one, a start-up, the role's deletion or creation (rotate-role takes
\* no lock, and the ticker pops the item before it does), an update that stores
\* the copy it read over what rotate-role has stored since, a creation or an
\* update that was decided before the role came or went, a timed-out call that
\* lands after its WAL is gone or a newer password was set, a start-up that
\* cannot read the WALs or takes the WAL of a role's first rotation for that of
\* a failed creation, an item dropped with the WAL ID it carries.
CredentialKept == cause = {} => Recoverable


\* A stored role stays under rotation: its item is in the queue or in the
\* hands of a rotation or a request that will push it, through pops, failed
\* pushes, updates, a second creation, rotate-role and start-up.  What loses it:
\* an item dropped when a call fails, and an update that waited behind the
\* role's deletion, which stores the role and then finds no item to push.
Unqueued == cause \cap {"item_dropped", "late_update"} # {}

StaysQueued ==
    up /\ role # NoRole /\ ~Unqueued
        => \/ queue # {}
           \/ rot["ticker"].pc # "idle"
           \/ Rotating("user") \/ rot["user"].pc = "clean"
           \/ write.pc = "push"

\* Whatever failed, overlapped, was overwritten or landed late, a role under
\* rotation has the database's password again and again: retries and the next
\* period heal it.
Heals ==
    []<>(role = NoRole \/ role.pw = db \/ Unqueued)

-----------------------------------------------------------------------------
(***************************************************************************)
(* What makes CredentialKept and StaysQueued inductive                     *)
(***************************************************************************)

\* The role's lock has one holder.
OneHolder ==
    /\ rot["ticker"].op # "create" /\ rot["user"].pc # "popped"
    /\ rot["user"].pc \in Sections /\ rot["user"].op = "create"
          => rot["ticker"].pc \notin Sections
    /\ write.pc \in {"put", "pop", "push"} =>
          /\ rot["ticker"].pc \notin Sections
          /\ rot["user"].pc \in Sections => rot["user"].op # "create"

\* An update under the lock has a role, unless it was blamed.
UpdateHasRole ==
    write.pc = "put" /\ write.op = "update" => role # NoRole \/ Unqueued

\* Nothing overlapped: the role's item is in one place.
OnePlace ==
    /\ rot["ticker"].pc # "idle" => up /\ rot["user"].pc = "idle"
    /\ \A p \in Procs : rot[p].pc # "idle" => queue = {}
    /\ role = NoRole => /\ queue = {}
                        /\ rot["ticker"].pc = "idle"
                        /\ ~Rotating("user")
    /\ Rotating("user") => up

\* The WAL of a rotation of the role as it is stored that has not ended.
OpenWAL == \E w \in wals : w.pw = gen /\ w.lvr >= role.lvr

\* The item, wherever it is, has the ID of the open WAL, and a WAL it names is
\* the last one written.
Names(item) ==
    /\ HasWAL(item.wal) => /\ item.wal = gen
                           /\ role.lvr # 0 => role.pw = gen \/ OpenWAL
    /\ role # NoRole /\ role.lvr # 0 /\ OpenWAL => item.wal = gen

\* A rotation works on the last password generated, and its WAL is there until
\* the role is stored.
InRotation(r) ==
    /\ r.pc \in {"popped", "begin"} => Names(r.item)
    /\ r.pc = "begin" => r.role.lvr = role.lvr
    /\ r.pc \in {"update", "store", "clean"} => r.pw = gen
    /\ r.pc \in {"update", "store"} =>
          HasWAL(gen) /\ (role # NoRole /\ role.lvr # 0 => role.pw = gen \/ OpenWAL)
    /\ r.pc = "store" => db = gen
    /\ r.pc = "clean" => role # NoRole /\ role.pw = gen /\ role.lvr # 0

\* Of a role that was rotated before, the password that the database has or
\* may still be given is the stored one or that of the open WAL.
Accepted(pw) == pw = role.pw \/ (pw = gen /\ OpenWAL)

Traceable ==
    role # NoRole /\ role.lvr # 0 =>
        /\ Accepted(db)
        /\ \A pw \in late : HasWAL(pw) /\ pw >= db => Accepted(pw)
        /\ \A w \in wals : w.lvr >= role.lvr => w.pw = gen

Held ==
    /\ OnePlace
    /\ Recoverable
    /\ \A i \in queue : Names(i)
    /\ \A p \in Procs : InRotation(rot[p])
    /\ Traceable

\* Until its own store a creation has no role to rotate.
CreatesRole ==
    rot["user"].pc \in Sections \ {"clean"} /\ rot["user"].op = "create"
        => role = NoRole

\* The copy to be stored creates the role or, if nothing was stored since it was
\* read, is that of the stored role or costs no password.
CopySound ==
    write.pc = "put" =>
        /\ write.op = "update" <=> role # NoRole
        /\ write.role # NoRole
        /\ write.role.lvr = role.lvr =>
              IF role.lvr # 0 THEN write.role = role
              ELSE write.role.pw = db \/ HasWAL(db)

\* A role whose item a creation or an update holds is at rest.
NotYetQueued ==
    write.pc = "push" =>
        /\ role # NoRole /\ queue = {} /\ Names(write.item)
        /\ \A p \in Procs : rot[p].pc = "idle"

WriteSound == CreatesRole /\ CopySound /\ NotYetQueued

Kept == Held /\ WriteSound

RotationInv ==
    /\ OneHolder
    /\ UpdateHasRole
    /\ StaysQueued
    /\ cause = {} => Kept
=============================================================================
