------------------------ MODULE StaticRotationProofs ------------------------
(***************************************************************************)
(* Proofs about StaticRotation, for any number of rotation periods, faults  *)
(* and requests.                                                            *)
(***************************************************************************)
EXTENDS StaticRotation, FiniteSetTheorems, TLAPS

-----------------------------------------------------------------------------
(* Type correctness                                                        *)

Dues == {"now", "soon", "later"}
Items == [due : Dues, wal : 0 .. gen]
Roles == {NoRole} \cup [pw : {Unset} \cup 0 .. gen, lvr : 0 .. clock]
WALs == [pw : 1 .. gen, lvr : 0 .. clock]
Rotations ==
    [pc : {"idle", "popped"} \cup Sections,
     op : {"none", "tick", "rotate", "create"},
     item : Items, role : Roles, pw : 0 .. gen, used : BOOLEAN]
Writes ==
    [pc : {"idle", "wait", "put", "pop", "push"},
     op : {"none", "create", "skip_import", "update"},
     role : Roles, item : Items]

\* TypeOK with what it leaves implicit: rot is a function, WALs are finitely
\* many, the items that rotations hold are items.
Typed ==
    /\ gen \in Nat /\ clock \in Nat
    /\ role \in Roles
    /\ IsFiniteSet(wals) /\ wals \subseteq WALs
    /\ db \in 0 .. gen /\ late \subseteq 1 .. gen
    /\ queue \subseteq Items /\ \A i, j \in queue : i = j
    /\ up \in BOOLEAN
    /\ rot \in [Procs -> Rotations]
    /\ \A p \in Procs : rot[p].pc \in {"update", "store", "clean"} => rot[p].pw # 0
    /\ write \in Writes
    /\ periods \in 0 .. MaxPeriods
    /\ faults \in 0 .. MaxFaults
    /\ requests \in 0 .. MaxRequests
    /\ cause \subseteq Causes

LEMMA TypedImplies == Typed => TypeOK
<1>. SUFFICES ASSUME Typed PROVE TypeOK
  OBVIOUS
<1>1. Cardinality(queue) <= 1
  <2>1. CASE queue = {}
    BY <2>1, FS_EmptySet
  <2>2. CASE queue # {}
    <3>1. PICK i \in queue : TRUE
      BY <2>2
    <3>2. queue = {i}
      BY <3>1 DEF Typed
    <3>. QED
      BY <3>2, FS_Singleton
  <2>. QED
    BY <2>1, <2>2
<1>2. \A p \in Procs : rot[p] \in Rotations
  BY DEF Typed
<1>3. \A r \in {role, rot["ticker"].role, rot["user"].role, write.role} : r \in Roles
  BY <1>2 DEF Typed, Procs, Rotations, Writes
<1>4. \A r \in {role, rot["ticker"].role, rot["user"].role, write.role} :
        r = NoRole \/ (r.pw \in {Unset} \cup 0 .. gen /\ r.lvr \in 0 .. clock)
  BY <1>3 DEF Roles
<1>5. \A p \in Procs :
        /\ rot[p].pc \in {"idle", "popped"} \cup Sections
        /\ rot[p].op \in {"none", "tick", "rotate", "create"}
        /\ rot[p].pc \in {"update", "store", "clean"} => rot[p].pw \in 1 .. gen
  BY <1>2 DEF Typed, Rotations
<1>6. \A w \in wals : w.pw \in 1 .. gen /\ w.lvr \in 0 .. clock
  BY DEF Typed, WALs
<1>7. \A i \in queue : i.due \in {"now", "soon", "later"} /\ i.wal \in 0 .. gen
  BY DEF Typed, Items, Dues
<1>8. /\ write.pc \in {"idle", "wait", "put", "pop", "push"}
      /\ write.op \in {"none", "create", "skip_import", "update"}
  BY DEF Typed, Writes
<1>. QED
  BY <1>1, <1>4, <1>5, <1>6, <1>7, <1>8 DEF Typed, TypeOK

LEMMA IdleType == Typed => Idle \in Rotations
BY DEF Typed, Idle, Rotations, Items, Item, Dues, Roles

LEMMA NoWriteIdle == NoWrite.pc = "idle"
BY DEF NoWrite

LEMMA NoWriteType == Typed => NoWrite \in Writes
BY DEF Typed, NoWrite, Writes, Roles, Items, Item, Dues

LEMMA RotationType ==
    ASSUME Typed, NEW p \in Procs
    PROVE  /\ rot[p] \in Rotations
           /\ rot[p].item \in Items
           /\ rot[p].item.wal \in 0 .. gen
           /\ rot[p].item.due \in Dues
           /\ rot[p].pw \in 0 .. gen
           /\ rot[p].role \in Roles
BY DEF Typed, Rotations, Items

\* Passwords and times only grow, and what was in bounds stays so.
LEMMA BoundsGrow ==
    ASSUME Typed, gen' \in Nat, clock' \in Nat, gen <= gen', clock <= clock'
    PROVE  /\ Items \subseteq Items'
           /\ Roles \subseteq Roles'
           /\ WALs \subseteq WALs'
           /\ Rotations \subseteq Rotations' /\ Writes \subseteq Writes'
           /\ 0 .. gen \subseteq 0 .. gen' /\ 1 .. gen \subseteq 1 .. gen'
<1>1. /\ 0 .. gen \subseteq 0 .. gen' /\ 1 .. gen \subseteq 1 .. gen'
      /\ 0 .. clock \subseteq 0 .. clock'
  BY DEF Typed
<1>2. Items \subseteq Items'
  BY <1>1 DEF Items
<1>3. Roles \subseteq Roles'
  BY <1>1 DEF Roles
<1>4. WALs \subseteq WALs'
  BY <1>1 DEF WALs
<1>5. Rotations \subseteq Rotations'
  BY <1>1, <1>2, <1>3 DEF Rotations
<1>6. Writes \subseteq Writes'
  BY <1>2, <1>3 DEF Writes
<1>. QED
  BY <1>1, <1>2, <1>3, <1>4, <1>5, <1>6

LEMMA LeftFinite ==
    ASSUME Typed, NEW ws \in SUBSET wals
    PROVE  IsFiniteSet(ws) /\ Cardinality(ws) \in Nat
BY FS_Subset, FS_CardinalityType DEF Typed

LEMMA FaultsType ==
    ASSUME Typed, NEW n \in Nat, Faults(n)
    PROVE  faults' \in 0 .. MaxFaults
BY RotationAssumption DEF Faults, Typed

LEMMA DeleteWALsType ==
    ASSUME Typed, NEW ws \in SUBSET wals, DeleteWALs(ws)
    PROVE  wals' \in SUBSET wals /\ faults' \in 0 .. MaxFaults
<1>1. PICK left \in SUBSET ws : /\ wals' = (wals \ ws) \cup left
                                /\ Faults(Cardinality(left)) \/ Faults(1)
  BY DEF DeleteWALs
<1>2. Cardinality(left) \in Nat
  BY LeftFinite
<1>. QED
  BY <1>1, <1>2, FaultsType

LEMMA PushType ==
    ASSUME Typed, NEW i \in Items, Push(i)
    PROVE  queue' \subseteq Items /\ \A j, k \in queue' : j = k
BY DEF Typed, Push

LEMMA GiveUpType ==
    ASSUME Typed, NEW p \in Procs, NEW w \in 0 .. gen, NEW ws \in SUBSET wals,
           NEW n \in Nat, GiveUp(p, w, ws, n)
    PROVE  /\ rot' \in [Procs -> Rotations]
           /\ \A q \in Procs : rot'[q].pc \in {"update", "store", "clean"} => rot'[q].pw # 0
           /\ queue' \subseteq Items /\ \A i, j \in queue' : i = j
           /\ wals' \in SUBSET wals
           /\ faults' \in 0 .. MaxFaults
<1>1. rot' = [rot EXCEPT ![p] = Idle]
  BY DEF GiveUp
<1>2. rot' \in [Procs -> Rotations]
  BY <1>1, IdleType DEF Typed
<1>3. \A q \in Procs : rot'[q].pc \in {"update", "store", "clean"} => rot'[q].pw # 0
  BY <1>1 DEF Typed, Idle
<1>4. CASE rot[p].op = "create"
  <2>1. UNCHANGED queue /\ (Faults(n) \/ Faults(n + 1)) /\ wals' \in SUBSET wals
    BY <1>4 DEF GiveUp, Without
  <2>. QED
    BY <1>2, <1>3, <2>1, FaultsType DEF Typed
<1>5. CASE rot[p].op # "create"
  <2>1. /\ Push(Item("soon", IF w # 0 THEN w ELSE rot[p].item.wal))
        /\ Faults(n) /\ wals' = ws
    BY <1>5 DEF GiveUp
  <2>2. Item("soon", IF w # 0 THEN w ELSE rot[p].item.wal) \in Items
    BY RotationType DEF Item, Items, Dues
  <2>. QED
    BY <1>2, <1>3, <2>1, <2>2, FaultsType, PushType
<1>. QED
  BY <1>4, <1>5

LEMMA FewerWALs ==
    ASSUME Typed, wals' \in SUBSET wals
    PROVE  IsFiniteSet(wals') /\ wals' \subseteq WALs
BY FS_Subset DEF Typed

\* A step that generates no password and stores no rotation.
LEMMA SameBounds ==
    ASSUME UNCHANGED <<gen, clock>>
    PROVE  /\ Items' = Items /\ Roles' = Roles /\ WALs' = WALs
           /\ Rotations' = Rotations /\ Writes' = Writes
BY DEF Items, Roles, WALs, Rotations, Writes

LEMMA UseWALType ==
    ASSUME Typed, NEW p \in Procs, UseWAL(p)
    PROVE  Typed'
<1>1. UNCHANGED <<role, db, late, up, write, clock, periods, requests, cause>>
  BY DEF UseWAL
<1>2. CASE /\ HasWAL(rot[p].item.wal)
           /\ rot' = [rot EXCEPT ![p].pc = "update", ![p].used = TRUE,
                                 ![p].pw = rot[p].item.wal]
           /\ UNCHANGED <<wals, queue, gen, faults>>
  <2>. DEFINE r == [rot[p] EXCEPT !.pc = "update", !.used = TRUE, !.pw = rot[p].item.wal]
  <2>1. rot[p].item.wal # 0
    BY <1>2 DEF HasWAL, Typed, WALs
  <2>2. r \in Rotations /\ r.pw # 0
    BY <2>1, RotationType DEF Rotations, Sections
  <2>3. rot' = [rot EXCEPT ![p] = r]
    BY <1>2 DEF Typed
  <2>. HIDE DEF r
  <2>4. /\ rot' \in [Procs -> Rotations]
        /\ \A q \in Procs : rot'[q].pc \in {"update", "store", "clean"} => rot'[q].pw # 0
    BY <2>2, <2>3 DEF Typed
  <2>. QED
    BY <1>1, <1>2, <2>4, SameBounds DEF Typed
<1>3. CASE /\ gen' = gen + 1
           /\ wals' = wals \cup {[pw |-> gen', lvr |-> rot[p].role.lvr]}
           /\ rot' = [rot EXCEPT ![p].pc = "update", ![p].used = FALSE,
                                 ![p].pw = gen']
           /\ UNCHANGED <<queue, faults>>
  <2>. DEFINE r == [rot[p] EXCEPT !.pc = "update", !.used = FALSE, !.pw = gen']
  <2>1. /\ gen' \in Nat /\ gen <= gen' /\ gen' # 0
        /\ gen' \in 1 .. gen' /\ gen' \in 0 .. gen'
    BY <1>3 DEF Typed
  <2>2. /\ Items \subseteq Items' /\ Roles \subseteq Roles' /\ WALs \subseteq WALs'
        /\ Rotations \subseteq Rotations' /\ Writes \subseteq Writes'
        /\ 0 .. gen \subseteq 0 .. gen' /\ 1 .. gen \subseteq 1 .. gen'
    BY <1>1, <2>1, BoundsGrow DEF Typed
  <2>3. [pw |-> gen', lvr |-> rot[p].role.lvr] \in WALs'
    <3>1. rot[p].role.lvr \in 0 .. clock
      BY RotationType DEF Roles, NoRole, Typed
    <3>. QED
      BY <1>1, <2>1, <3>1 DEF WALs
  <2>4. IsFiniteSet(wals') /\ wals' \subseteq WALs'
    <3>1. wals \subseteq WALs'
      BY <2>2 DEF Typed
    <3>. QED
      BY <1>3, <2>3, <3>1, FS_AddElement DEF Typed
  <2>5. r \in Rotations'
    <3>1. rot[p] \in Rotations'
      BY <2>2, RotationType
    <3>. QED
      BY <2>1, <3>1 DEF Rotations, Sections
  <2>6. r.pw = gen'
    BY RotationType DEF Rotations
  <2>7. rot' = [rot EXCEPT ![p] = r]
    BY <1>3 DEF Typed
  <2>. HIDE DEF r
  <2>8. /\ rot' \in [Procs -> Rotations']
        /\ \A q \in Procs : rot'[q].pc \in {"update", "store", "clean"} => rot'[q].pw # 0
    BY <2>1, <2>2, <2>5, <2>6, <2>7 DEF Typed
  <2>9. /\ role' \in Roles' /\ queue' \subseteq Items'
        /\ db' \in 0 .. gen' /\ late' \subseteq 1 .. gen'
        /\ write' \in Writes'
    BY <1>1, <1>3, <2>2 DEF Typed
  <2>. QED
    BY <1>1, <1>3, <2>1, <2>4, <2>8, <2>9 DEF Typed
<1>4. CASE GiveUp(p, rot[p].item.wal, wals, 1) /\ UNCHANGED gen
  BY <1>1, <1>4, GiveUpType, RotationType, FewerWALs, SameBounds DEF Typed
<1>. QED
  BY <1>2, <1>3, <1>4 DEF UseWAL

LEMMA UpdateUserType ==
    ASSUME Typed, NEW p \in Procs, UpdateUser(p)
    PROVE  Typed'
<1>. DEFINE r == [rot[p] EXCEPT !.pc = "store"]
<1>1. /\ rot[p].pc = "update" /\ rot[p].pw # 0
      /\ db' = rot[p].pw
      /\ rot' = [rot EXCEPT ![p] = r]
      /\ UNCHANGED <<role, wals, late, queue, up, write, gen, clock, periods, requests,
                     faults, cause>>
  BY DEF UpdateUser, Typed, counters
<1>2. r \in Rotations /\ r.pw # 0
  BY <1>1, RotationType DEF Rotations, Sections
<1>. HIDE DEF r
<1>3. /\ rot' \in [Procs -> Rotations]
      /\ \A q \in Procs : rot'[q].pc \in {"update", "store", "clean"} => rot'[q].pw # 0
  BY <1>1, <1>2 DEF Typed
<1>. QED
  BY <1>1, <1>3, RotationType, SameBounds DEF Typed

LEMMA UpdateUserFailsType ==
    ASSUME Typed, NEW p \in Procs, UpdateUserFails(p)
    PROVE  Typed'
<1>1. /\ rot[p].pw \in 0 .. gen /\ rot[p].pw # 0
      /\ UNCHANGED <<role, up, write, gen, clock, periods, requests>>
  BY RotationType DEF UpdateUserFails, Typed, counters
<1>2. db' \in 0 .. gen /\ late' \subseteq 1 .. gen
  <2>1. \/ UNCHANGED <<db, late>>
        \/ db' = rot[p].pw /\ late' = late
        \/ late' = late \cup {rot[p].pw} /\ db' = db
    BY DEF UpdateUserFails
  <2>2. db \in 0 .. gen /\ late \subseteq 1 .. gen /\ rot[p].pw \in 1 .. gen
    BY <1>1 DEF Typed
  <2>. QED
    BY <1>1, <2>1, <2>2
<1>3. cause' \subseteq Causes
  BY DEF UpdateUserFails, Blame, Typed, Causes
<1>4. \/ GiveUp(p, 0, Without(wals, rot[p].pw), 1)
      \/ GiveUp(p, 0, wals, 2)
      \/ GiveUp(p, rot[p].pw, wals, 1)
  BY DEF UpdateUserFails
<1>5. Without(wals, rot[p].pw) \in SUBSET wals /\ 0 \in 0 .. gen
  BY DEF Without, Typed
<1>6. /\ rot' \in [Procs -> Rotations]
      /\ \A q \in Procs : rot'[q].pc \in {"update", "store", "clean"} => rot'[q].pw # 0
      /\ queue' \subseteq Items /\ \A i, j \in queue' : i = j
      /\ wals' \in SUBSET wals
      /\ faults' \in 0 .. MaxFaults
  BY <1>1, <1>4, <1>5, GiveUpType
<1>. QED
  BY <1>1, <1>2, <1>3, <1>6, FewerWALs, SameBounds DEF Typed

LEMMA StoreStaticRoleType ==
    ASSUME Typed, NEW p \in Procs, StoreStaticRole(p)
    PROVE  Typed'
<1>1. /\ rot[p].pc = "store" /\ rot[p].pw \in 0 .. gen /\ rot[p].pw # 0
      /\ UNCHANGED <<db, late, up, write, gen, periods, requests, cause>>
  BY RotationType DEF StoreStaticRole, Typed
<1>2. CASE /\ clock' = clock + 1
           /\ role' = [pw |-> rot[p].pw, lvr |-> clock']
           /\ rot' = [rot EXCEPT ![p].pc = "clean"]
           /\ UNCHANGED <<wals, queue, faults>>
  <2>. DEFINE r == [rot[p] EXCEPT !.pc = "clean"]
  <2>1. clock' \in Nat /\ clock' \in 0 .. clock' /\ clock <= clock'
    BY <1>2 DEF Typed
  <2>2. /\ Items \subseteq Items' /\ Roles \subseteq Roles' /\ WALs \subseteq WALs'
        /\ Rotations \subseteq Rotations' /\ Writes \subseteq Writes'
    BY <1>1, <2>1, BoundsGrow DEF Typed
  <2>3. role' \in Roles'
    BY <1>1, <1>2, <2>1 DEF Roles
  <2>4. r \in Rotations' /\ r.pw = rot[p].pw
    <3>1. rot[p] \in Rotations'
      BY <2>2, RotationType
    <3>. QED
      BY <3>1 DEF Rotations, Sections
  <2>5. rot' = [rot EXCEPT ![p] = r]
    BY <1>2 DEF Typed
  <2>. HIDE DEF r
  <2>6. /\ rot' \in [Procs -> Rotations']
        /\ \A q \in Procs : rot'[q].pc \in {"update", "store", "clean"} => rot'[q].pw # 0
    BY <1>1, <2>2, <2>4, <2>5 DEF Typed
  <2>7. wals' \subseteq WALs' /\ queue' \subseteq Items' /\ write' \in Writes'
    BY <1>1, <1>2, <2>2 DEF Typed
  <2>. QED
    BY <1>1, <1>2, <2>1, <2>3, <2>6, <2>7 DEF Typed
<1>3. CASE GiveUp(p, rot[p].pw, wals, 1) /\ UNCHANGED <<role, clock>>
  BY <1>1, <1>3, GiveUpType, FewerWALs, SameBounds DEF Typed
<1>. QED
  BY <1>2, <1>3 DEF StoreStaticRole

LEMMA DeleteWALType ==
    ASSUME Typed, NEW p \in Procs, DeleteWAL(p)
    PROVE  Typed'
<1>1. /\ rot[p].pw \in 0 .. gen
      /\ UNCHANGED <<role, db, late, up, write, gen, clock, periods, requests>>
  BY RotationType DEF DeleteWAL, counters
<1>2. CASE /\ wals' = Without(wals, rot[p].pw)
           /\ Push(Item("later", 0))
           /\ rot' = [rot EXCEPT ![p] = Idle]
           /\ UNCHANGED <<faults, cause>>
  <2>1. Item("later", 0) \in Items
    BY DEF Item, Items, Dues, Typed
  <2>2. queue' \subseteq Items /\ \A i, j \in queue' : i = j
    BY <1>2, <2>1, PushType
  <2>3. /\ rot' \in [Procs -> Rotations]
        /\ \A q \in Procs : rot'[q].pc \in {"update", "store", "clean"} => rot'[q].pw # 0
    BY <1>2, IdleType DEF Typed, Idle
  <2>4. wals' \in SUBSET wals
    BY <1>2 DEF Without
  <2>. QED
    BY <1>1, <1>2, <2>2, <2>3, <2>4, FewerWALs, SameBounds DEF Typed
<1>3. CASE /\ GiveUp(p, rot[p].pw, wals, 1)
           /\ Blame("item_dropped", rot[p].op = "create")
  <2>1. cause' \subseteq Causes
    BY <1>3 DEF Blame, Typed, Causes
  <2>. QED
    BY <1>1, <1>3, <2>1, GiveUpType, FewerWALs, SameBounds DEF Typed
<1>. QED
  BY <1>2, <1>3 DEF DeleteWAL

\* The rotation r replaces that of p, and the item at most moves.
LEMMA HandOver ==
    ASSUME Typed, NEW p \in Procs, NEW r \in Rotations,
           r.pc \in {"update", "store", "clean"} => r.pw # 0,
           rot' = [rot EXCEPT ![p] = r],
           queue' \subseteq Items, \A i, j \in queue' : i = j,
           faults' \in 0 .. MaxFaults, requests' \in 0 .. MaxRequests,
           periods' \in 0 .. MaxPeriods, cause' \subseteq Causes, write' \in Writes,
           UNCHANGED <<role, wals, db, late, up, gen, clock>>
    PROVE  Typed'
<1>1. /\ rot' \in [Procs -> Rotations]
      /\ \A q \in Procs : rot'[q].pc \in {"update", "store", "clean"} => rot'[q].pw # 0
  BY DEF Typed
<1>. QED
  BY <1>1, SameBounds DEF Typed

LEMMA RequestType ==
    ASSUME Typed, Request
    PROVE  requests' \in 0 .. MaxRequests
BY RotationAssumption DEF Typed, Request

LEMMA TickerType ==
    ASSUME Typed, PopItem \/ rotateCredential
    PROVE  Typed'
<1>0. "ticker" \in Procs
  BY DEF Procs
<1>1. CASE PopItem
  <2>1. PICK i \in queue : rot' = [rot EXCEPT !["ticker"] =
                                     [Idle EXCEPT !.pc = "popped", !.op = "tick", !.item = i]]
    BY <1>1 DEF PopItem
  <2>2. [Idle EXCEPT !.pc = "popped", !.op = "tick", !.item = i] \in Rotations
    BY IdleType DEF Typed, Rotations
  <2>3. [Idle EXCEPT !.pc = "popped", !.op = "tick", !.item = i].pc = "popped"
    BY DEF Idle
  <2>. QED
    BY <1>0, <1>1, <2>1, <2>2, <2>3, HandOver DEF PopItem, storage, counters, Typed
<1>2. CASE rotateCredential
  <2>. DEFINE item == rot["ticker"].item
  <2>1. /\ item \in Items /\ item.wal \in 0 .. gen
        /\ Item("soon", item.wal) \in Items /\ Item("later", item.wal) \in Items
    BY <1>0, RotationType DEF Item, Items, Dues
  <2>2. cause' \subseteq Causes
    BY <1>2 DEF rotateCredential, Blame, Typed, Causes
  <2>3. faults' \in 0 .. MaxFaults
    <3>1. UNCHANGED faults \/ Faults(1)
      BY <1>2 DEF rotateCredential
    <3>. QED
      BY <3>1, FaultsType DEF Typed
  <2>4. queue' \subseteq Items /\ \A i, j \in queue' : i = j
    <3>1. UNCHANGED queue \/ \E i \in Items : Push(i)
      BY <1>2, <2>1 DEF rotateCredential
    <3>. QED
      BY <3>1, PushType DEF Typed
  <2>5. \E r \in Rotations : /\ r.pc \in {"begin", "idle"}
                             /\ rot' = [rot EXCEPT !["ticker"] = r]
    <3>1. CASE rot' = [rot EXCEPT !["ticker"] = Idle]
      BY <3>1, IdleType DEF Idle
    <3>2. CASE rot' = [rot EXCEPT !["ticker"].pc = "begin", !["ticker"].role = role]
      <4>. DEFINE r == [rot["ticker"] EXCEPT !.pc = "begin", !.role = role]
      <4>1. r \in Rotations /\ r.pc = "begin"
        BY <1>0, RotationType DEF Rotations, Sections, Typed
      <4>2. rot' = [rot EXCEPT !["ticker"] = r]
        BY <1>0, <3>2 DEF Typed
      <4>. QED
        BY <4>1, <4>2
    <3>. QED
      BY <1>2, <3>1, <3>2 DEF rotateCredential
  <2>. QED
    BY <1>0, <1>2, <2>2, <2>3, <2>4, <2>5, HandOver
       DEF rotateCredential, storage, counters, Typed
<1>. QED
  BY <1>1, <1>2

\* What the lock's holder has read.
LEMMA CopyType ==
    ASSUME Typed
    PROVE  Copy \in Roles /\ [pw |-> db, lvr |-> 0] \in Roles
BY DEF Typed, Copy, Roles

LEMMA WriteType ==
    ASSUME Typed, BeginWrite \/ Write
    PROVE  Typed'
<1>1. CASE RefuseWrite
  BY <1>1, NoWriteType, SameBounds DEF RefuseWrite, storage, counters, Typed
<1>2. CASE BeginWrite
  <2>1. PICK op \in {"create", "skip_import", "update"} :
          write' = [NoWrite EXCEPT !.pc = "wait", !.op = op]
    BY <1>2 DEF BeginWrite
  <2>2. write' \in Writes
    BY <2>1, NoWriteType DEF Writes
  <2>3. requests' \in 0 .. MaxRequests
    BY <1>2, RequestType DEF BeginWrite
  <2>. QED
    BY <1>2, <2>2, <2>3, SameBounds DEF BeginWrite, storage, Typed
<1>3. CASE CreateRole
  <2>. DEFINE r == [Idle EXCEPT !.pc = "begin", !.op = "create", !.role = Copy]
  <2>1. r \in Rotations /\ r.pc = "begin"
    BY IdleType, CopyType DEF Rotations, Sections
  <2>2. cause' \subseteq Causes /\ write' \in Writes
    BY <1>3, NoWriteType DEF CreateRole, Blame, Typed, Causes
  <2>3. "user" \in Procs /\ rot' = [rot EXCEPT !["user"] = r]
    BY <1>3 DEF CreateRole, Procs
  <2>. HIDE DEF r
  <2>4. UNCHANGED <<role, wals, db, late, queue, up, gen, clock, periods, requests, faults>>
    BY <1>3 DEF CreateRole, storage, counters
  <2>5. /\ queue' \subseteq Items /\ \A i, j \in queue' : i = j
        /\ faults' \in 0 .. MaxFaults /\ requests' \in 0 .. MaxRequests
        /\ periods' \in 0 .. MaxPeriods
    BY <2>4 DEF Typed
  <2>. QED
    BY <2>1, <2>2, <2>3, <2>4, <2>5, HandOver
<1>4. CASE CreateSkipImport \/ UpdateRole
  <2>1. PICK c \in Roles : write' = [write EXCEPT !.pc = "put", !.role = c]
    BY <1>4, CopyType DEF CreateSkipImport, UpdateRole
  <2>2. write' \in Writes
    BY <2>1 DEF Typed, Writes
  <2>3. cause' \subseteq Causes
    BY <1>4 DEF CreateSkipImport, UpdateRole, Blame, Typed, Causes
  <2>4. UNCHANGED <<role, wals, db, late, queue, up, rot, gen, clock, periods, requests,
                    faults>>
    BY <1>4 DEF CreateSkipImport, UpdateRole, storage, counters
  <2>. QED
    BY <2>2, <2>3, <2>4, SameBounds DEF Typed
<1>5. CASE PutRole
  <2>0. Item("later", 0) \in Items
    BY DEF Item, Items, Dues, Typed
  <2>1. role' \in Roles /\ write' \in Writes
    BY <1>5, <2>0, NoWriteType DEF PutRole, Typed, Writes
  <2>2. cause' \subseteq Causes
    BY <1>5 DEF PutRole, Blame, Typed, Causes
  <2>3. faults' \in 0 .. MaxFaults
    BY <1>5, FaultsType DEF PutRole, Typed
  <2>. QED
    BY <1>5, <2>1, <2>2, <2>3, SameBounds DEF PutRole, counters, Typed
<1>6. CASE PopByKey
  <2>1. write' \in Writes
    <3>1. CASE write' = NoWrite
      BY <3>1, NoWriteType
    <3>2. CASE \E i \in queue : \E due \in {i.due, "now", "later"} :
                  write' = [write EXCEPT !.pc = "push", !.item = Item(due, i.wal)]
      <4>1. PICK i \in queue, due \in Dues :
              write' = [write EXCEPT !.pc = "push", !.item = Item(due, i.wal)]
        BY <3>2 DEF Typed, Items, Dues
      <4>2. Item(due, i.wal) \in Items
        BY DEF Item, Items, Typed
      <4>. QED
        BY <4>1, <4>2 DEF Typed, Writes
    <3>. QED
      BY <1>6, <3>1, <3>2 DEF PopByKey
  <2>. QED
    BY <1>6, <2>1, SameBounds DEF PopByKey, storage, counters, Typed
<1>7. CASE PushItem
  <2>1. write.item \in Items /\ Push(write.item)
    BY <1>7 DEF PushItem, Typed, Writes
  <2>2. queue' \subseteq Items /\ \A i, j \in queue' : i = j
    BY <2>1, PushType
  <2>. QED
    BY <1>7, <2>2, NoWriteType, SameBounds DEF PushItem, storage, counters, Typed
<1>. QED
  BY <1>1, <1>2, <1>3, <1>4, <1>5, <1>6, <1>7 DEF Write

LEMMA RequestsType ==
    ASSUME Typed, Requests
    PROVE  Typed'
<1>1. CASE DeleteRole
  <2>1. cause' \subseteq Causes
    BY <1>1 DEF DeleteRole, Blame, Typed, Causes
  <2>2. /\ role' \in Roles
        /\ wals' \in SUBSET wals /\ faults' \in 0 .. MaxFaults
    <3>1. CASE role' = NoRole /\ DeleteWALs(wals)
      BY <3>1, DeleteWALsType DEF Roles
    <3>2. CASE Faults(1) /\ UNCHANGED storage
      BY <3>2, FaultsType DEF storage, Typed
    <3>. QED
      BY <1>1, <3>1, <3>2 DEF DeleteRole
  <2>3. requests' \in 0 .. MaxRequests
    BY <1>1, RequestType DEF DeleteRole
  <2>. QED
    BY <1>1, <2>1, <2>2, <2>3, FewerWALs, SameBounds DEF DeleteRole, Typed
<1>2. CASE RotateRole
  <2>0. "user" \in Procs /\ Item("now", 0) \in Items
    BY DEF Procs, Item, Items, Dues, Typed
  <2>1. PICK i \in Items : rot' = [rot EXCEPT !["user"] =
                                     [Idle EXCEPT !.pc = "begin", !.op = "rotate",
                                                  !.item = i, !.role = role]]
    BY <1>2, <2>0 DEF RotateRole, Typed
  <2>. DEFINE r == [Idle EXCEPT !.pc = "begin", !.op = "rotate", !.item = i, !.role = role]
  <2>2. r \in Rotations /\ r.pc = "begin"
    BY IdleType DEF Rotations, Sections, Typed
  <2>3. cause' \subseteq Causes
    BY <1>2 DEF RotateRole, Blame, Typed, Causes
  <2>4. requests' \in 0 .. MaxRequests
    BY <1>2, RequestType DEF RotateRole
  <2>. QED
    BY <1>2, <2>0, <2>1, <2>2, <2>3, <2>4, HandOver DEF RotateRole, storage, Typed
<1>. QED
  BY <1>1, <1>2, WriteType DEF Requests

LEMMA initQueueType ==
    ASSUME Typed, initQueue
    PROVE  Typed'
<1>1. /\ up' = TRUE
      /\ UNCHANGED <<role, db, late, rot, write, gen, clock, periods, requests>>
  BY DEF initQueue, counters
<1>2. cause' \subseteq Causes
  BY DEF initQueue, Typed, Causes
<1>3. ASSUME NEW due \in {"now", "later"}, NEW w \in 0 .. gen
      PROVE  Item(due, w) \in Items
  BY DEF Item, Items, Dues
<1>4. 0 \in 0 .. gen /\ \A w \in wals : w.pw \in 0 .. gen
  BY DEF Typed, WALs
<1>5. /\ wals' \in SUBSET wals
      /\ faults' \in 0 .. MaxFaults
      /\ queue' \subseteq Items /\ \A i, j \in queue' : i = j
  <2>1. CASE role = NoRole /\ DeleteWALs(wals) /\ UNCHANGED queue
    BY <2>1, DeleteWALsType DEF Typed
  <2>2. ASSUME NEW unread \in SUBSET wals,
               NEW left \in SUBSET ((wals \ unread) \ RollForward(wals \ unread)),
               wals' = unread \cup left \cup RollForward(wals \ unread),
               Faults(Cardinality(unread \cup left)),
               \/ \E w \in RollForward(wals \ unread) : Push(Item("now", w.pw))
               \/ \E due \in {"now", "later"} : Push(Item(due, 0))
        PROVE  /\ wals' \in SUBSET wals
               /\ faults' \in 0 .. MaxFaults
               /\ queue' \subseteq Items /\ \A i, j \in queue' : i = j
    <3>1. RollForward(wals \ unread) \in SUBSET wals /\ unread \cup left \in SUBSET wals
      BY DEF RollForward, Newest
    <3>2. faults' \in 0 .. MaxFaults
      BY <2>2, <3>1, LeftFinite, FaultsType
    <3>3. \E i \in Items : Push(i)
      BY <1>3, <1>4, <2>2, <3>1
    <3>. QED
      BY <2>2, <3>1, <3>2, <3>3, PushType
  <2>3. CASE /\ Faults(1) /\ UNCHANGED wals
             /\ UNCHANGED queue \/ \E due \in {"now", "later"} : Push(Item(due, 0))
    BY <1>3, <1>4, <2>3, FaultsType, PushType DEF Typed
  <2>. QED
    BY <2>1, <2>2, <2>3 DEF initQueue
<1>. QED
  BY <1>1, <1>2, <1>5, FewerWALs, SameBounds DEF Typed

LEMMA TimePassesType ==
    ASSUME Typed, BackoffEnds \/ PeriodEnds
    PROVE  Typed'
<1>0. "ticker" \in Procs
  BY DEF Procs
<1>1. PICK from \in Dues : TimePasses(from)
  BY DEF BackoffEnds, PeriodEnds, Dues
<1>2. periods' \in 0 .. MaxPeriods
  BY RotationAssumption DEF BackoffEnds, PeriodEnds, Typed
<1>3. \A i \in Items : DueNow(i) \in Items
  BY DEF DueNow, Item, Items, Dues
<1>4. queue' \subseteq Items /\ \A i, j \in queue' : i = j
  BY <1>1, <1>3 DEF TimePasses, Typed
<1>5. \E r \in Rotations : /\ r.pc \notin {"update", "store", "clean"} \/ r.pw # 0
                           /\ rot' = [rot EXCEPT !["ticker"] = r]
  <2>1. CASE rot' = rot
    BY <1>0, <2>1, RotationType DEF Typed
  <2>2. CASE rot' = [rot EXCEPT !["ticker"].item = DueNow(@)] /\ rot["ticker"].pc = "popped"
    <3>. DEFINE r == [rot["ticker"] EXCEPT !.item = DueNow(@)]
    <3>1. r \in Rotations /\ r.pc = "popped"
      BY <1>0, <1>3, <2>2, RotationType DEF Rotations
    <3>2. rot' = [rot EXCEPT !["ticker"] = r]
      BY <1>0, <2>2 DEF Typed
    <3>. QED
      BY <3>1, <3>2
  <2>. QED
    BY <1>1, <2>1, <2>2 DEF TimePasses
<1>. QED
  BY <1>0, <1>1, <1>2, <1>4, <1>5, HandOver DEF TimePasses, storage, Typed

LEMMA CrashType ==
    ASSUME Typed, LateCall \/ Crash
    PROVE  Typed'
<1>1. CASE LateCall
  <2>1. db' \in 0 .. gen /\ late' \subseteq 1 .. gen
    BY <1>1 DEF LateCall, Typed
  <2>2. cause' \subseteq Causes
    BY <1>1 DEF LateCall, Blame, Typed, Causes
  <2>. QED
    BY <1>1, <2>1, <2>2, SameBounds DEF LateCall, storage, counters, Typed
<1>2. CASE Crash
  <2>1. faults' \in 0 .. MaxFaults
    BY <1>2, FaultsType DEF Crash
  <2>2. /\ rot' \in [Procs -> Rotations]
        /\ \A p \in Procs : rot'[p].pc = "idle"
    BY <1>2, IdleType DEF Crash, Idle
  <2>3. late' \subseteq 1 .. gen
    <3>1. \A p \in Procs : rot[p].pc = "update" => rot[p].pw \in 1 .. gen
      BY RotationType DEF Typed
    <3>. QED
      BY <1>2, <3>1 DEF Crash, Typed
  <2>. QED
    BY <1>2, <2>1, <2>2, <2>3, NoWriteType, SameBounds DEF Crash, storage, counters, Typed
<1>. QED
  BY <1>1, <1>2

LEMMA TypedNext == Typed /\ [Next]_vars => Typed'
<1>. SUFFICES ASSUME Typed, [Next]_vars PROVE Typed'
  OBVIOUS
<1>1. CASE UNCHANGED vars
  BY <1>1, SameBounds DEF vars, Typed
<1>. QED
  BY <1>1, TickerType, UseWALType, UpdateUserType, UpdateUserFailsType,
     StoreStaticRoleType, DeleteWALType, RequestsType, initQueueType,
     TimePassesType, CrashType DEF Next, setStaticAccount

LEMMA TypedInit == Init => Typed
<1>. SUFFICES ASSUME Init PROVE Typed
  OBVIOUS
<1>1. Idle \in Rotations
  BY DEF Init, Idle, Rotations, Items, Item, Dues, Roles
<1>2. /\ rot \in [Procs -> Rotations]
      /\ \A p \in Procs : rot[p].pc \in {"update", "store", "clean"} => rot[p].pw # 0
  BY <1>1 DEF Init, Idle
<1>3. /\ IsFiniteSet(wals) /\ wals \subseteq WALs
      /\ role \in Roles /\ role.lvr \in {0, 1}
  BY FS_EmptySet DEF Init, Roles, NoRole
<1>4. /\ gen \in Nat /\ clock \in Nat /\ db \in 0 .. gen
      /\ periods \in 0 .. MaxPeriods /\ faults \in 0 .. MaxFaults
      /\ requests \in 0 .. MaxRequests
      /\ write \in Writes
  BY <1>3, RotationAssumption DEF Init, NoWrite, Writes, Roles, Items, Item, Dues
<1>. QED
  BY <1>2, <1>3, <1>4 DEF Init, Typed

LEMMA TypedAlways == Spec => []Typed
BY TypedInit, TypedNext, PTL DEF Spec

\* The queue never holds two items for the role, WAL IDs and passwords are ones
\* that were generated, and no step of a rotation runs without a password.
THEOREM TypeCorrect == Spec => []TypeOK
BY TypedAlways, TypedImplies, PTL

-----------------------------------------------------------------------------
(* The role stays under rotation                                           *)

LEMMA CauseGrows == [Next]_vars => cause \subseteq cause'
BY DEF Next, vars, PopItem, rotateCredential, setStaticAccount, UseWAL, UpdateUser,
       UpdateUserFails, StoreStaticRole, DeleteWAL, Requests, BeginWrite, Write,
       CreateRole, CreateSkipImport, UpdateRole, RefuseWrite, PutRole, PopByKey,
       PushItem, DeleteRole, RotateRole, initQueue, BackoffEnds, PeriodEnds, TimePasses, LateCall, Crash,
       Blame

LEMMA UnqueuedGrows ==
    ASSUME cause \subseteq cause'
    PROVE  Unqueued => Unqueued'
BY DEF Unqueued

LEMMA PushFills == ASSUME NEW i, Push(i) PROVE queue' # {}
BY DEF Push

\* How a rotation gives up: with its item queued, unless it is a creation.
LEMMA GiveUpShape ==
    ASSUME NEW p, NEW w, NEW ws, NEW n, GiveUp(p, w, ws, n)
    PROVE  /\ rot' = [rot EXCEPT ![p] = Idle]
           /\ queue' # {} \/ rot[p].op = "create"
           /\ rot[p].op = "create" => UNCHANGED queue
BY PushFills DEF GiveUp

\* One step of a rotation: the rotation goes on, or ends.
Continues(p) ==
    /\ rot[p].pc # "clean"
    /\ rot'[p].pc \in Sections
    /\ rot'[p].op = rot[p].op
    /\ UNCHANGED queue
    /\ role' # role => rot'[p].pc = "clean" /\ role' # NoRole

Ends(p) ==
    /\ rot'[p] = Idle
    /\ UNCHANGED role
    /\ \/ queue' # {}
       \/ /\ rot[p].op = "create"
          /\ UNCHANGED queue
          /\ rot[p].pc = "clean" => Unqueued'

LEMMA AccountShape ==
    ASSUME Typed, NEW p \in Procs, setStaticAccount(p)
    PROVE  /\ rot[p].pc \in Sections
           /\ \A q \in Procs : q # p => rot'[q] = rot[q]
           /\ UNCHANGED <<up, write>>
           /\ Continues(p) \/ Ends(p)
<1>0. rot[p] \in Rotations /\ rot \in [Procs -> Rotations]
  BY RotationType DEF Typed
<1>1. CASE UseWAL(p)
  <2>1. CASE GiveUp(p, rot[p].item.wal, wals, 1)
    BY <1>0, <1>1, <2>1, GiveUpShape DEF UseWAL, Ends, Sections
  <2>2. CASE \/ rot' = [rot EXCEPT ![p].pc = "update", ![p].used = TRUE,
                                   ![p].pw = rot[p].item.wal]
             \/ rot' = [rot EXCEPT ![p].pc = "update", ![p].used = FALSE, ![p].pw = gen']
    <3>1. rot'[p].pc = "update" /\ rot'[p].op = rot[p].op
      BY <1>0, <2>2 DEF Rotations
    <3>2. \A q \in Procs : q # p => rot'[q] = rot[q]
      BY <1>0, <2>2
    <3>3. UNCHANGED queue \/ GiveUp(p, rot[p].item.wal, wals, 1)
      BY <1>1 DEF UseWAL
    <3>. QED
      BY <1>1, <2>1, <3>1, <3>2, <3>3 DEF UseWAL, Continues, Sections
  <2>. QED
    BY <1>1, <2>1, <2>2 DEF UseWAL
<1>2. CASE UpdateUser(p)
  BY <1>0, <1>2 DEF UpdateUser, Continues, Sections, Rotations
<1>3. CASE UpdateUserFails(p)
  <2>1. \E w, ws, n : GiveUp(p, w, ws, n)
    BY <1>3 DEF UpdateUserFails
  <2>. QED
    BY <1>0, <1>3, <2>1, GiveUpShape DEF UpdateUserFails, Ends, Sections
<1>4. CASE StoreStaticRole(p)
  <2>1. CASE GiveUp(p, rot[p].pw, wals, 1) /\ UNCHANGED role
    BY <1>0, <1>4, <2>1, GiveUpShape DEF StoreStaticRole, Ends, Sections
  <2>2. CASE /\ rot' = [rot EXCEPT ![p].pc = "clean"] /\ UNCHANGED queue
             /\ role' = [pw |-> rot[p].pw, lvr |-> clock']
    <3>1. role' # NoRole
      BY <1>0, <2>2 DEF NoRole, Rotations, Typed
    <3>. QED
      BY <1>0, <1>4, <2>2, <3>1 DEF StoreStaticRole, Continues, Sections, Rotations
  <2>. QED
    BY <1>4, <2>1, <2>2 DEF StoreStaticRole
<1>5. CASE DeleteWAL(p)
  <2>1. CASE Push(Item("later", 0)) /\ rot' = [rot EXCEPT ![p] = Idle]
    BY <1>0, <1>5, <2>1, PushFills DEF DeleteWAL, Ends, Sections
  <2>2. CASE /\ GiveUp(p, rot[p].pw, wals, 1)
             /\ Blame("item_dropped", rot[p].op = "create")
    BY <1>0, <1>5, <2>2, GiveUpShape DEF DeleteWAL, Ends, Sections, Blame, Unqueued
  <2>. QED
    BY <1>5, <2>1, <2>2 DEF DeleteWAL
<1>. QED
  BY <1>1, <1>2, <1>3, <1>4, <1>5 DEF setStaticAccount

\* The part of the invariant that holds whatever overlapped.
QueueInv == OneHolder /\ UpdateHasRole /\ StaysQueued

LEMMA QueuedAccount ==
    ASSUME Typed, QueueInv, cause \subseteq cause',
           NEW p \in Procs, setStaticAccount(p)
    PROVE  QueueInv'
<1>1. /\ rot[p].pc \in Sections
      /\ \A q \in Procs : q # p => rot'[q] = rot[q]
      /\ UNCHANGED <<up, write>>
      /\ Continues(p) \/ Ends(p)
      /\ Unqueued => Unqueued'
      /\ OneHolder /\ UpdateHasRole /\ StaysQueued
  BY AccountShape, UnqueuedGrows DEF QueueInv
<1>2. Idle.pc = "idle" /\ Idle.op = "none"
  BY DEF Idle
<1>3. UpdateHasRole'
  BY <1>1 DEF UpdateHasRole, Continues, Ends
<1>4. CASE Continues(p)
  <2>1. rot'[p].pc # "idle" /\ rot'[p].pc # "popped"
    BY <1>4 DEF Continues, Sections
  <2>2. CASE p = "ticker"
    <3>1. OneHolder'
      BY <1>1, <1>4, <2>1, <2>2 DEF Continues, OneHolder, Procs, Sections
    <3>2. StaysQueued'
      BY <1>1, <1>4, <2>1, <2>2 DEF Continues, StaysQueued, Procs
    <3>. QED
      BY <1>3, <3>1, <3>2 DEF QueueInv
  <2>3. CASE p = "user"
    <3>1. OneHolder'
      BY <1>1, <1>4, <2>1, <2>3 DEF Continues, OneHolder, Procs, Sections
    <3>2. StaysQueued'
      BY <1>1, <1>4, <2>1, <2>3 DEF Continues, StaysQueued, Rotating, Procs, Sections
    <3>. QED
      BY <1>3, <3>1, <3>2 DEF QueueInv
  <2>. QED
    BY <2>2, <2>3 DEF Procs
<1>5. CASE Ends(p)
  <2>1. OneHolder'
    BY <1>1, <1>2, <1>5 DEF Ends, OneHolder, Procs, Sections
  <2>2. StaysQueued'
    BY <1>1, <1>2, <1>5 DEF Ends, OneHolder, StaysQueued, Rotating, Procs, Sections
  <2>. QED
    BY <1>3, <2>1, <2>2 DEF QueueInv
<1>. QED
  BY <1>1, <1>4, <1>5

\* The request that creates or updates the role.
LEMMA QueuedWrite ==
    ASSUME Typed, QueueInv, cause \subseteq cause', BeginWrite \/ Write
    PROVE  QueueInv'
<1>0. /\ rot \in [Procs -> Rotations] /\ write \in Writes
      /\ Unqueued => Unqueued'
      /\ NoWrite.pc = "idle"
      /\ OneHolder /\ UpdateHasRole /\ StaysQueued
  BY UnqueuedGrows, NoWriteIdle DEF Typed, QueueInv
<1>1. CASE BeginWrite \/ RefuseWrite
  <2>1. /\ write.pc \in {"idle", "wait"} /\ write'.pc \in {"idle", "wait"}
        /\ UNCHANGED <<role, queue, up, rot>>
    BY <1>0, <1>1 DEF BeginWrite, RefuseWrite, storage, NoWrite
  <2>. QED
    BY <1>0, <2>1 DEF QueueInv, OneHolder, UpdateHasRole, StaysQueued, Rotating
<1>2. CASE CreateRole
  <2>1. /\ rot'["user"].pc = "begin" /\ rot'["ticker"] = rot["ticker"]
        /\ rot["user"].pc = "idle" /\ rot["ticker"].pc \notin Sections
        /\ write.pc = "wait" /\ write'.pc = "idle"
        /\ UNCHANGED <<role, queue, up>>
    BY <1>0, <1>2 DEF CreateRole, Procs, Idle, storage, Locked
  <2>. QED
    BY <1>0, <2>1 DEF QueueInv, OneHolder, UpdateHasRole, StaysQueued, Rotating, Sections
<1>3. CASE CreateSkipImport \/ UpdateRole
  <2>1. /\ write.pc = "wait" /\ ~Locked
        /\ UNCHANGED <<role, queue, up, rot>>
    BY <1>3 DEF CreateSkipImport, UpdateRole, storage
  <2>2. write'.pc = "put" /\ write'.op = write.op
    BY <1>0, <1>3 DEF CreateSkipImport, UpdateRole, Writes
  <2>3. write.op = "update" => role # NoRole \/ Unqueued'
    BY <1>3 DEF CreateSkipImport, UpdateRole, Blame, Unqueued
  <2>4. OneHolder'
    BY <1>0, <2>1, <2>2 DEF OneHolder, Locked
  <2>5. UpdateHasRole'
    BY <2>1, <2>2, <2>3 DEF UpdateHasRole
  <2>6. StaysQueued'
    BY <1>0, <2>1, <2>2 DEF StaysQueued, Rotating
  <2>. QED
    BY <2>4, <2>5, <2>6 DEF QueueInv
<1>4. CASE PutRole
  <2>1. /\ write.pc = "put" /\ UNCHANGED <<queue, up, rot>>
        /\ \/ write'.pc = "pop" /\ write.op = "update"
           \/ write'.pc = "push"
           \/ write'.pc = "idle" /\ UNCHANGED role
    BY <1>0, <1>4 DEF PutRole, Writes
  <2>2. OneHolder'
    BY <1>0, <2>1 DEF OneHolder
  <2>3. UpdateHasRole'
    BY <2>1 DEF UpdateHasRole
  <2>4. StaysQueued'
    BY <1>0, <2>1 DEF UpdateHasRole, StaysQueued, Rotating
  <2>. QED
    BY <2>2, <2>3, <2>4 DEF QueueInv
<1>5. CASE PopByKey
  <2>1. /\ write.pc = "pop" /\ UNCHANGED <<role, up, rot>>
        /\ \/ write'.pc = "push"
           \/ write'.pc = "idle" /\ queue = {}
    BY <1>0, <1>5 DEF PopByKey, storage, Writes
  <2>. QED
    BY <1>0, <2>1 DEF QueueInv, OneHolder, UpdateHasRole, StaysQueued, Rotating
<1>6. CASE PushItem
  <2>1. write.pc = "push" /\ write'.pc = "idle" /\ UNCHANGED <<role, up, rot>> /\ queue' # {}
    BY <1>0, <1>6, PushFills DEF PushItem, storage
  <2>. QED
    BY <1>0, <2>1 DEF QueueInv, OneHolder, UpdateHasRole, StaysQueued, Rotating
<1>. QED
  BY <1>1, <1>2, <1>3, <1>4, <1>5, <1>6 DEF Write

\* A step of neither rotation nor write: who holds the lock is seen from the
\* rotations alone.
LEMMA QueuedApart ==
    ASSUME QueueInv, cause \subseteq cause', UNCHANGED write,
           OneHolder', StaysQueued',
           role' = role \/ role' # NoRole \/ ~Locked
    PROVE  QueueInv'
BY UnqueuedGrows DEF QueueInv, UpdateHasRole, Locked

LEMMA QueuedNext == Typed /\ QueueInv /\ [Next]_vars => QueueInv'
<1>. SUFFICES ASSUME Typed, QueueInv, [Next]_vars
              PROVE  QueueInv'
  OBVIOUS
<1>0. /\ cause \subseteq cause'
      /\ Unqueued => Unqueued'
      /\ rot \in [Procs -> Rotations]
      /\ rot["ticker"] \in Rotations /\ rot["user"] \in Rotations
      /\ Idle.pc = "idle" /\ Idle.op = "none"
      /\ OneHolder /\ StaysQueued
  BY CauseGrows, UnqueuedGrows DEF Typed, Procs, Idle, QueueInv
<1>1. CASE PopItem
  <2>1. /\ rot'["ticker"].pc = "popped" /\ rot'["ticker"].op = "tick"
        /\ rot'["user"] = rot["user"]
        /\ UNCHANGED <<role, write>>
    BY <1>0, <1>1 DEF PopItem, Procs, Idle, storage
  <2>2. OneHolder' /\ StaysQueued'
    BY <1>0, <2>1 DEF OneHolder, StaysQueued, Sections
  <2>. QED
    BY <1>0, <2>1, <2>2, QueuedApart
<1>2. CASE rotateCredential
  <2>1. rot'["user"] = rot["user"] /\ UNCHANGED <<role, up, write>> /\ ~Locked
    BY <1>0, <1>2 DEF rotateCredential, Procs, storage
  <2>2. CASE rot' = [rot EXCEPT !["ticker"].pc = "begin", !["ticker"].role = role]
    <3>1. rot'["ticker"].pc = "begin" /\ rot'["ticker"].op = rot["ticker"].op
      BY <1>0, <2>2 DEF Procs, Rotations
    <3>2. OneHolder' /\ StaysQueued'
      BY <1>0, <2>1, <3>1 DEF OneHolder, StaysQueued, Locked
    <3>. QED
      BY <1>0, <2>1, <3>2, QueuedApart
  <2>3. CASE /\ rot' = [rot EXCEPT !["ticker"] = Idle]
             /\ \/ \E i : Push(i)
                \/ role = NoRole
                \/ Unqueued'
    <3>1. rot'["ticker"] = Idle
      BY <1>0, <2>3 DEF Procs
    <3>2. queue' # {} \/ role = NoRole \/ Unqueued'
      BY <2>3, PushFills
    <3>3. OneHolder' /\ StaysQueued'
      BY <1>0, <2>1, <3>1, <3>2 DEF OneHolder, StaysQueued, Locked, Sections
    <3>. QED
      BY <1>0, <2>1, <3>3, QueuedApart
  <2>. QED
    BY <1>2, <2>2, <2>3 DEF rotateCredential, Blame, Unqueued
<1>3. ASSUME NEW p \in Procs, setStaticAccount(p)
      PROVE  QueueInv'
  BY <1>0, <1>3, QueuedAccount
<1>4. CASE BeginWrite \/ Write
  BY <1>0, <1>4, QueuedWrite
<1>5. CASE DeleteRole
  <2>1. /\ UNCHANGED <<rot, write>> /\ ~Locked
        /\ role' = NoRole \/ (role' = role /\ Unqueued')
    BY <1>5 DEF DeleteRole, Blame, storage, Unqueued
  <2>2. OneHolder' /\ StaysQueued'
    BY <1>0, <2>1 DEF OneHolder, StaysQueued
  <2>. QED
    BY <1>0, <2>1, <2>2, QueuedApart
<1>6. CASE RotateRole
  <2>1. /\ rot'["user"].pc = "begin" /\ rot'["user"].op = "rotate"
        /\ rot'["ticker"] = rot["ticker"]
        /\ UNCHANGED <<role, write>>
    BY <1>0, <1>6 DEF RotateRole, Procs, Idle, storage
  <2>2. OneHolder' /\ StaysQueued'
    BY <1>0, <2>1 DEF OneHolder, StaysQueued, Rotating, Sections
  <2>. QED
    BY <1>0, <2>1, <2>2, QueuedApart
<1>7. CASE initQueue
  <2>1. UNCHANGED <<role, rot, write>>
    BY <1>7 DEF initQueue
  <2>2. role = NoRole \/ (\E i : Push(i)) \/ Unqueued'
    BY <1>7 DEF initQueue, Unqueued
  <2>3. role = NoRole \/ queue' # {} \/ Unqueued'
    BY <2>2, PushFills
  <2>4. OneHolder' /\ StaysQueued'
    BY <1>0, <2>1, <2>3 DEF OneHolder, StaysQueued
  <2>. QED
    BY <1>0, <2>1, <2>4, QueuedApart
<1>8. CASE BackoffEnds \/ PeriodEnds
  <2>1. PICK from : TimePasses(from)
    BY <1>8 DEF BackoffEnds, PeriodEnds
  <2>2. /\ rot'["ticker"].pc = rot["ticker"].pc /\ rot'["ticker"].op = rot["ticker"].op
        /\ rot'["user"] = rot["user"]
        /\ queue # {} => queue' # {}
        /\ UNCHANGED <<role, up, write>>
    BY <1>0, <2>1 DEF TimePasses, Procs, Rotations, storage
  <2>3. OneHolder' /\ StaysQueued'
    BY <1>0, <2>2 DEF OneHolder, StaysQueued, Rotating
  <2>. QED
    BY <1>0, <2>2, <2>3, QueuedApart
<1>9. CASE LateCall
  <2>1. UNCHANGED <<role, queue, up, rot, write>>
    BY <1>9 DEF LateCall, storage
  <2>2. OneHolder' /\ StaysQueued'
    BY <1>0, <2>1 DEF OneHolder, StaysQueued, Rotating
  <2>. QED
    BY <1>0, <2>1, <2>2, QueuedApart
<1>10. CASE Crash
  <2>1. /\ rot'["ticker"] = Idle /\ rot'["user"] = Idle
        /\ write'.pc = "idle" /\ up' = FALSE
    BY <1>10, NoWriteIdle DEF Crash, Procs
  <2>. QED
    BY <1>0, <2>1 DEF QueueInv, OneHolder, UpdateHasRole, StaysQueued, Sections
<1>11. CASE UNCHANGED vars
  BY <1>0, <1>11 DEF vars, QueueInv, OneHolder, UpdateHasRole, StaysQueued, Unqueued, Rotating
<1>. QED
  BY <1>1, <1>2, <1>3, <1>4, <1>5, <1>6, <1>7, <1>8, <1>9, <1>10, <1>11
     DEF Next, Requests

LEMMA QueuedAlways == Spec => []QueueInv
<1>1. Init => QueueInv
  BY NoWriteIdle
     DEF Init, QueueInv, OneHolder, UpdateHasRole, StaysQueued, Procs, Idle, Sections
<1>. QED
  BY <1>1, QueuedNext, TypedAlways, PTL DEF Spec

\* No interleaving of pops, retries, requests, creation, deletion and start-up
\* takes a stored role out of rotation, save the failures that drop its item and
\* the update that waited behind a deletion and stores the role again.
THEOREM Queued == Spec => []StaysQueued
<1>1. QueueInv => StaysQueued
  BY DEF QueueInv
<1>. QED
  BY <1>1, QueuedAlways, PTL

-----------------------------------------------------------------------------
(* The database's password is kept                                         *)

LEMMA WALBounds ==
    ASSUME Typed
    PROVE  /\ gen \in Nat /\ clock \in Nat /\ db \in 0 .. gen /\ late \subseteq 1 .. gen
           /\ \A w \in wals : w.pw \in 1 .. gen /\ w.lvr \in 0 .. clock
           /\ ~HasWAL(0)
           /\ OpenWAL => HasWAL(gen)
           /\ NoRole.pw = -1 /\ NoRole.lvr = 0
           /\ role.lvr \in 0 .. clock
           /\ write.role.lvr \in 0 .. clock
BY DEF Typed, WALs, HasWAL, OpenWAL, NoRole, Roles, Writes

LEMMA RotatingOne ==
    ASSUME Typed, OneHolder, Kept, NEW p \in Procs, rot[p].pc \in Sections
    PROVE  /\ queue = {}
           /\ \A q \in Procs : q # p => rot[q].pc = "idle"
           /\ InRotation(rot[p])
           /\ rot[p].op # "create" => role # NoRole /\ up
           /\ rot[p].op = "create" => p = "user" /\ (rot[p].pc # "clean" => role = NoRole)
<1>1. rot[p].pc # "idle"
  BY DEF Sections
<1>2. queue = {} /\ InRotation(rot[p])
  BY <1>1 DEF Kept, Held, OnePlace
<1>3. CASE p = "ticker"
  BY <1>1, <1>2, <1>3 DEF Kept, Held, OnePlace, OneHolder, Procs
<1>4. CASE p = "user"
  BY <1>1, <1>2, <1>4
     DEF Kept, Held, WriteSound, CreatesRole, OnePlace, OneHolder, Procs, Rotating
<1>. QED
  BY <1>3, <1>4 DEF Procs

LEMMA IdleInRotation ==
    ASSUME NEW r, r.pc = "idle"
    PROVE  InRotation(r) /\ InRotation(r)'
BY DEF InRotation

\* Without a role and with every goroutine at rest there is nothing to keep.
LEMMA RoleGone ==
    ASSUME role' = NoRole, queue' = {}, \A p \in Procs : rot'[p].pc = "idle"
    PROVE  Held'
<1>1. OnePlace'
  BY DEF OnePlace, Rotating, Sections, Procs
<1>2. \A p \in Procs : InRotation(rot[p])'
  BY DEF InRotation
<1>. QED
  BY <1>1, <1>2 DEF Kept, Held, Recoverable, Traceable

\* Steps on the item alone.
LEMMA KeptItem ==
    ASSUME Typed, Kept, UNCHANGED <<role, wals, gen, db, late>>,
           OnePlace',
           \A i \in queue' : Names(i),
           \A p \in Procs : InRotation(rot'[p])
    PROVE  Held'
<1>1. \A i \in queue' : Names(i)'
  BY DEF Names, HasWAL, OpenWAL
<1>2. \A p \in Procs : InRotation(rot[p])'
  BY DEF InRotation, Names, HasWAL, OpenWAL
<1>. QED
  BY <1>1, <1>2 DEF Kept, Held, Recoverable, HasWAL, OpenWAL, Accepted, Traceable

\* All at rest, the item in the queue.
LEMMA AtRest ==
    ASSUME role' # NoRole, \A p \in Procs : rot'[p].pc = "idle"
    PROVE  OnePlace' /\ \A p \in Procs : InRotation(rot[p])'
BY DEF OnePlace, InRotation, Rotating, Sections, Procs

LEMMA KeptPop ==
    ASSUME Typed, Kept, PopItem
    PROVE  Held'
<1>1. PICK i \in queue : rot' = [rot EXCEPT !["ticker"] =
                                   [Idle EXCEPT !.pc = "popped", !.op = "tick", !.item = i]]
  BY DEF PopItem
<1>2. /\ rot'["ticker"].pc = "popped" /\ rot'["ticker"].item = i
      /\ rot'["user"] = rot["user"]
      /\ queue' = {} /\ up /\ up' = up
      /\ UNCHANGED <<role, wals, gen, db, late>>
  BY <1>1 DEF PopItem, Typed, Procs, Idle, storage, counters
<1>3. rot["user"].pc = "idle" /\ role # NoRole
  BY <1>1 DEF Kept, Held, OnePlace, Procs
<1>4. OnePlace'
  BY <1>2, <1>3 DEF OnePlace, Procs, Rotating, Sections
<1>5. \A p \in Procs : InRotation(rot'[p])
  BY <1>1, <1>2, <1>3 DEF InRotation, Kept, Held, Procs
<1>. QED
  BY <1>2, <1>4, <1>5, KeptItem

LEMMA KeptTick ==
    ASSUME Typed, Kept, rotateCredential, cause' = {}
    PROVE  Held'
<1>. DEFINE item == rot["ticker"].item
<1>1. /\ rot["ticker"].pc = "popped" /\ rot["user"].pc = "idle" /\ queue = {} /\ up
      /\ role # NoRole
      /\ Names(item)
  BY DEF rotateCredential, Kept, Held, OnePlace, Procs, InRotation
<1>2. /\ UNCHANGED <<role, wals, gen, db, late, up>>
      /\ rot \in [Procs -> Rotations] /\ rot["ticker"] \in Rotations
  BY DEF rotateCredential, storage, counters, Typed, Procs
<1>3. CASE rot' = [rot EXCEPT !["ticker"].pc = "begin", !["ticker"].role = role]
           /\ UNCHANGED queue
  <2>1. /\ rot'["ticker"].pc = "begin" /\ rot'["ticker"].role = role
        /\ rot'["ticker"].item = item
        /\ rot'["user"] = rot["user"]
    BY <1>2, <1>3 DEF Procs, Rotations
  <2>2. OnePlace'
    BY <1>1, <1>2, <1>3, <2>1 DEF OnePlace, Procs, Rotating, Sections
  <2>3. \A p \in Procs : InRotation(rot'[p])
    BY <1>1, <2>1 DEF InRotation, Procs
  <2>. QED
    BY <1>1, <1>2, <1>3, <2>2, <2>3, KeptItem
<1>4. CASE /\ rot' = [rot EXCEPT !["ticker"] = Idle]
           /\ Push(item) \/ Push(Item("soon", item.wal)) \/ Push(Item("later", item.wal))
  <2>1. \A p \in Procs : rot'[p].pc = "idle"
    BY <1>1, <1>2, <1>4 DEF Idle, Procs
  <2>2. \A i \in queue' : i.wal = item.wal
    BY <1>1, <1>4 DEF Push, Item
  <2>3. \A i \in queue' : Names(i)
    BY <1>1, <2>2 DEF Names
  <2>4. OnePlace' /\ \A p \in Procs : InRotation(rot'[p])
    BY <1>1, <1>2, <2>1, AtRest, IdleInRotation
  <2>. QED
    BY <1>2, <2>3, <2>4, KeptItem
<1>. QED
  BY <1>1, <1>3, <1>4 DEF rotateCredential, Blame

\* All at rest, what the role needs still there.
LEMMA KeptAtRest ==
    ASSUME role' # NoRole, \A p \in Procs : rot'[p].pc = "idle",
           Recoverable', Traceable', \A i \in queue' : Names(i)'
    PROVE  Held'
BY AtRest DEF Kept, Held

\* A rotation that gives up: a creation leaves no role, the others hand the item
\* over with a WAL ID that names the last password or the one it had.
LEMMA KeptGiveUp ==
    ASSUME Typed, OneHolder, Kept, NEW p \in Procs, rot[p].pc \in Sections,
           rot[p].op = "create" => rot[p].pc # "clean",
           NEW w, NEW n, GiveUp(p, w, wals, n),
           UNCHANGED <<role, gen, up>>,
           rot[p].op # "create" => Recoverable' /\ Traceable',
           rot[p].op # "create" => Names(Item("soon", IF w # 0 THEN w ELSE rot[p].item.wal))
    PROVE  Held'
<1>1. /\ queue = {}
      /\ \A q \in Procs : q # p => rot[q].pc = "idle"
      /\ rot[p].op # "create" => role # NoRole
      /\ rot[p].op = "create" => role = NoRole
  BY RotatingOne
<1>2. \A q \in Procs : rot'[q].pc = "idle"
  BY <1>1 DEF GiveUp, Typed, Idle
<1>3. CASE rot[p].op = "create"
  <2>1. queue' = {}
    BY <1>1, <1>3 DEF GiveUp
  <2>. QED
    BY <1>1, <1>2, <1>3, <2>1, RoleGone
<1>4. CASE rot[p].op # "create"
  <2>1. queue' = {Item("soon", IF w # 0 THEN w ELSE rot[p].item.wal)} /\ wals' = wals
    BY <1>1, <1>4 DEF GiveUp, Push
  <2>2. \A i \in queue' : Names(i)'
    BY <1>4, <2>1 DEF Names, HasWAL, OpenWAL
  <2>. QED
    BY <1>1, <1>2, <1>4, <2>2, KeptAtRest
<1>. QED
  BY <1>3, <1>4

LEMMA SameTraces ==
    ASSUME UNCHANGED <<role, wals, gen, db, late>>
    PROVE  /\ Recoverable => Recoverable'
           /\ Traceable => Traceable'
BY DEF Recoverable, Traceable, HasWAL, OpenWAL, Accepted

\* The last password set: its WAL is there.
LEMMA LastSet ==
    ASSUME Typed, Kept, HasWAL(gen),
           role # NoRole /\ role.lvr # 0 => role.pw = gen \/ OpenWAL,
           UNCHANGED <<role, wals, gen>>,
           db' \in {db, gen}, late' \subseteq late \cup {gen}
    PROVE  Recoverable' /\ Traceable'
<1>1. Recoverable'
  BY DEF Kept, Held, Recoverable, HasWAL
<1>2. Traceable'
  <2>. SUFFICES ASSUME role # NoRole, role.lvr # 0
                PROVE  /\ Accepted(db)'
                       /\ \A pw \in late' : HasWAL(pw)' /\ pw >= db' => Accepted(pw)'
                       /\ \A v \in wals' : v.lvr >= role'.lvr => v.pw = gen'
    BY DEF Traceable
  <2>1. /\ OpenWAL' = OpenWAL
        /\ \A pw : HasWAL(pw)' = HasWAL(pw)
    BY DEF OpenWAL, HasWAL
  <2>2. role.pw = gen \/ OpenWAL
    OBVIOUS
  <2>3. Accepted(db)'
    BY <2>1, <2>2 DEF Kept, Held, Traceable, Accepted
  <2>4. ASSUME NEW pw \in late', HasWAL(pw), pw >= db'
        PROVE  Accepted(pw)'
    <3>1. CASE pw = gen
      BY <2>1, <2>2, <3>1 DEF Accepted
    <3>2. CASE pw # gen
      <4>1. pw \in late /\ pw \in 1 .. gen /\ gen \in Nat
        BY <3>2 DEF Typed
      <4>2. db' = db
        BY <2>4, <3>2, <4>1
      <4>3. Accepted(pw)
        BY <2>4, <4>1, <4>2 DEF Kept, Held, Traceable
      <4>. QED
        BY <2>1, <4>3 DEF Accepted
    <3>. QED
      BY <3>1, <3>2
  <2>. QED
    BY <2>1, <2>3, <2>4 DEF Kept, Held, Traceable
<1>. QED
  BY <1>1, <1>2

LEMMA KeptUseWAL ==
    ASSUME Typed, OneHolder, Kept, NEW p \in Procs, UseWAL(p)
    PROVE  Held'
<1>1. /\ rot[p].pc = "begin" /\ rot[p].pc \in Sections
      /\ UNCHANGED <<role, db, late, up>>
  BY DEF UseWAL, Sections
<1>2. /\ queue = {}
      /\ \A q \in Procs : q # p => rot[q].pc = "idle"
      /\ Names(rot[p].item) /\ rot[p].role.lvr = role.lvr
      /\ rot[p].op # "create" => role # NoRole /\ up
      /\ rot[p].op = "create" => p = "user" /\ role = NoRole
  BY <1>1, RotatingOne DEF InRotation
<1>3. rot \in [Procs -> Rotations] /\ rot[p] \in Rotations
  BY RotationType DEF Typed
\* The step of a rotation that goes on.
<1>4. ASSUME UNCHANGED queue, rot'[p].pc = "update", rot'[p].op = rot[p].op,
             \A q \in Procs : q # p => rot'[q] = rot[q]
      PROVE  OnePlace' /\ \A q \in Procs : q # p => InRotation(rot[q])'
  <2>1. OnePlace'
    <3>1. role # NoRole \/ (p = "user" /\ rot[p].op = "create")
      BY <1>2
    <3>2. CASE p = "ticker"
      BY <1>1, <1>2, <1>4, <3>1, <3>2 DEF Kept, Held, OnePlace, Procs, Rotating, Sections
    <3>3. CASE p = "user"
      BY <1>1, <1>2, <1>4, <3>1, <3>3 DEF Kept, Held, OnePlace, Procs, Rotating, Sections
    <3>. QED
      BY <3>2, <3>3 DEF Procs
  <2>2. ASSUME NEW q \in Procs, q # p PROVE InRotation(rot[q])'
    <3>1. rot'[q].pc = "idle"
      BY <1>2, <1>4, <2>2
    <3>. QED
      BY <3>1 DEF InRotation
  <2>. QED
    BY <2>1, <2>2
<1>5. CASE /\ HasWAL(rot[p].item.wal)
           /\ rot' = [rot EXCEPT ![p].pc = "update", ![p].used = TRUE,
                                 ![p].pw = rot[p].item.wal]
           /\ UNCHANGED <<wals, queue, gen, faults>>
  <2>1. /\ rot[p].item.wal = gen /\ HasWAL(gen)
        /\ role.lvr # 0 => role.pw = gen \/ OpenWAL
    BY <1>2, <1>5 DEF Names
  <2>2. /\ rot'[p].pc = "update" /\ rot'[p].op = rot[p].op /\ rot'[p].pw = gen
        /\ \A q \in Procs : q # p => rot'[q] = rot[q]
    BY <1>3, <1>5, <2>1 DEF Rotations
  <2>3. InRotation(rot[p])'
    BY <1>1, <1>5, <2>1, <2>2 DEF InRotation, HasWAL, OpenWAL
  <2>4. Recoverable' /\ Traceable'
    BY <1>1, <1>5, SameTraces DEF Kept, Held
  <2>5. queue' = {}
    BY <1>2, <1>5
  <2>. QED
    BY <1>4, <1>5, <2>2, <2>3, <2>4, <2>5 DEF Kept, Held
<1>6. CASE /\ ~HasWAL(rot[p].item.wal)
           /\ gen' = gen + 1
           /\ wals' = wals \cup {[pw |-> gen', lvr |-> rot[p].role.lvr]}
           /\ rot' = [rot EXCEPT ![p].pc = "update", ![p].used = FALSE,
                                 ![p].pw = gen']
           /\ UNCHANGED <<queue, faults>>
  <2>1. /\ rot'[p].pc = "update" /\ rot'[p].op = rot[p].op /\ rot'[p].pw = gen'
        /\ \A q \in Procs : q # p => rot'[q] = rot[q]
    BY <1>3, <1>6 DEF Rotations
  <2>2. HasWAL(gen)' /\ OpenWAL'
    <3>1. [pw |-> gen', lvr |-> role.lvr] \in wals'
      BY <1>2, <1>6
    <3>. QED
      BY <1>1, <3>1, WALBounds DEF HasWAL, OpenWAL
  <2>3. InRotation(rot[p])'
    BY <2>1, <2>2 DEF InRotation
  <2>4. queue' = {}
    BY <1>2, <1>6
  <2>5. Recoverable'
    BY <1>1, <1>6 DEF Kept, Held, Recoverable, HasWAL
  <2>6. Traceable'
    <3>. SUFFICES ASSUME role # NoRole, role.lvr # 0
                  PROVE  /\ Accepted(db)'
                         /\ \A pw \in late' : HasWAL(pw)' /\ pw >= db' => Accepted(pw)'
                         /\ \A v \in wals' : v.lvr >= role'.lvr => v.pw = gen'
      BY <1>1 DEF Traceable
    <3>1. ~OpenWAL
      BY <1>2, <1>6, WALBounds DEF Names
    <3>2. Accepted(db)'
      BY <1>1, <3>1 DEF Kept, Held, Traceable, Accepted
    <3>3. ASSUME NEW pw \in late', HasWAL(pw)', pw >= db'
          PROVE  Accepted(pw)'
      <4>1. pw \in late /\ pw # gen'
        BY <1>1, <1>6, WALBounds
      <4>2. HasWAL(pw)
        BY <1>6, <3>3, <4>1 DEF HasWAL
      <4>3. Accepted(pw)
        BY <1>1, <3>3, <4>1, <4>2 DEF Kept, Held, Traceable
      <4>. QED
        BY <1>1, <3>1, <4>3 DEF Accepted
    <3>4. ASSUME NEW v \in wals', v.lvr >= role.lvr PROVE v.pw = gen'
      <4>1. v \notin wals
        BY <3>1, <3>4 DEF Kept, Held, Traceable, OpenWAL
      <4>. QED
        BY <1>6, <4>1
    <3>. QED
      BY <1>1, <3>2, <3>3, <3>4
  <2>7. \A q \in Procs : InRotation(rot[q])'
    BY <1>4, <1>6, <2>1, <2>3
  <2>. QED
    BY <1>4, <1>6, <2>1, <2>4, <2>5, <2>6, <2>7 DEF Kept, Held
<1>7. CASE GiveUp(p, rot[p].item.wal, wals, 1) /\ UNCHANGED gen
  <2>1. Names(Item("soon", IF rot[p].item.wal # 0 THEN rot[p].item.wal ELSE rot[p].item.wal))
    BY <1>2 DEF Names, Item
  <2>2. rot[p].op # "create" => Recoverable' /\ Traceable'
    <3>1. rot[p].op # "create" => wals' = wals
      BY <1>7 DEF GiveUp
    <3>. QED
      BY <1>1, <1>7, <3>1, SameTraces DEF Kept, Held
  <2>. QED
    BY <1>1, <1>7, <2>1, <2>2, KeptGiveUp
<1>. QED
  BY <1>5, <1>6, <1>7 DEF UseWAL

\* A rotation that goes on with the password and the item it has.
LEMMA KeptContinues ==
    ASSUME Typed, OneHolder, Kept, NEW p \in Procs, rot[p].pc \in Sections,
           NEW pc \in Sections, rot' = [rot EXCEPT ![p].pc = pc],
           UNCHANGED <<queue, up>>,
           role' # NoRole \/ role' = role,
           InRotation(rot[p])', Recoverable', Traceable'
    PROVE  Held'
<1>0. rot \in [Procs -> Rotations] /\ rot[p] \in Rotations
  BY RotationType DEF Typed
<1>1. /\ queue = {}
      /\ \A q \in Procs : q # p => rot[q].pc = "idle"
      /\ rot[p].op # "create" => role # NoRole /\ up
      /\ rot[p].op = "create" => p = "user"
  BY RotatingOne
<1>2. /\ rot'[p].pc = pc /\ rot'[p].op = rot[p].op
      /\ \A q \in Procs : q # p => rot'[q] = rot[q]
  BY <1>0 DEF Rotations
<1>3. OnePlace'
  <2>1. CASE p = "ticker"
    BY <1>1, <1>2, <2>1 DEF Kept, Held, OnePlace, Procs, Rotating, Sections
  <2>2. CASE p = "user"
    BY <1>1, <1>2, <2>2 DEF Kept, Held, OnePlace, Procs, Rotating, Sections
  <2>. QED
    BY <2>1, <2>2 DEF Procs
<1>4. \A q \in Procs : InRotation(rot[q])'
  <2>1. ASSUME NEW q \in Procs, q # p PROVE InRotation(rot[q])'
    BY <1>1, <1>2, <2>1 DEF InRotation
  <2>. QED
    BY <2>1
<1>. QED
  BY <1>1, <1>3, <1>4 DEF Kept, Held

LEMMA KeptUpdateUser ==
    ASSUME Typed, OneHolder, Kept, cause' = {}, NEW p \in Procs,
           UpdateUser(p) \/ UpdateUserFails(p)
    PROVE  Held'
<1>1. /\ rot[p].pc = "update" /\ rot[p].pc \in Sections
      /\ UNCHANGED <<role, gen, up>>
  BY DEF UpdateUser, UpdateUserFails, Sections, counters
<1>2. /\ rot[p].pw = gen /\ HasWAL(gen)
      /\ role # NoRole /\ role.lvr # 0 => role.pw = gen \/ OpenWAL
  BY <1>1, RotatingOne DEF InRotation
<1>3. CASE UpdateUser(p)
  <2>1. /\ db' = gen /\ rot' = [rot EXCEPT ![p].pc = "store"]
        /\ UNCHANGED <<wals, late, queue>>
    BY <1>2, <1>3 DEF UpdateUser
  <2>2. Recoverable' /\ Traceable'
    BY <1>1, <1>2, <2>1, LastSet
  <2>3. rot'[p].pc = "store" /\ rot'[p].pw = gen
    BY <1>2, <2>1, RotationType DEF Typed, Rotations
  <2>4. InRotation(rot[p])'
    BY <1>1, <1>2, <2>1, <2>3 DEF InRotation, HasWAL, OpenWAL
  <2>. QED
    BY <1>1, <2>1, <2>2, <2>4, KeptContinues DEF Sections
<1>4. CASE UpdateUserFails(p)
  <2>1. ~rot[p].used
    BY <1>4 DEF UpdateUserFails, Blame
  <2>2. /\ GiveUp(p, gen, wals, 1)
        /\ db' \in {db, gen} /\ late' \subseteq late \cup {gen}
    BY <1>2, <1>4, <2>1 DEF UpdateUserFails
  <2>3. rot[p].op # "create" => Recoverable' /\ Traceable'
    <3>1. rot[p].op # "create" => wals' = wals
      BY <2>2 DEF GiveUp
    <3>. QED
      BY <1>1, <1>2, <2>2, <3>1, LastSet
  <2>4. gen # 0
    BY <1>2, WALBounds
  <2>5. rot[p].op # "create" => Names(Item("soon", IF gen # 0 THEN gen ELSE rot[p].item.wal))
    <3>1. rot[p].op # "create" => role # NoRole
      BY <1>1, RotatingOne
    <3>. QED
      BY <1>2, <2>4, <3>1 DEF Names, Item
  <2>. QED
    BY <1>1, <2>2, <2>3, <2>5, KeptGiveUp
<1>. QED
  BY <1>3, <1>4

LEMMA KeptStore ==
    ASSUME Typed, OneHolder, Kept, NEW p \in Procs, StoreStaticRole(p)
    PROVE  Held'
<1>1. /\ rot[p].pc = "store" /\ rot[p].pc \in Sections
      /\ UNCHANGED <<db, late, up, gen>>
  BY DEF StoreStaticRole, Sections
<1>2. /\ rot[p].pw = gen /\ HasWAL(gen) /\ db = gen
      /\ role # NoRole /\ role.lvr # 0 => role.pw = gen \/ OpenWAL
      /\ rot[p].op # "create" => role # NoRole
  BY <1>1, RotatingOne DEF InRotation
<1>3. CASE /\ clock' = clock + 1
           /\ role' = [pw |-> rot[p].pw, lvr |-> clock']
           /\ rot' = [rot EXCEPT ![p].pc = "clean"]
           /\ UNCHANGED <<wals, queue, faults>>
  <2>1. role' # NoRole /\ role'.pw = gen /\ role'.lvr = clock + 1
    BY <1>2, <1>3, WALBounds
  <2>2. rot'[p].pc = "clean" /\ rot'[p].pw = gen
    BY <1>2, <1>3, RotationType DEF Typed, Rotations
  <2>3. InRotation(rot[p])'
    BY <1>1, <2>1, <2>2, WALBounds DEF InRotation
  <2>4. Recoverable'
    BY <1>1, <1>2, <2>1 DEF Recoverable
  <2>5. Traceable'
    <3>1. Accepted(db)'
      BY <1>1, <1>2, <2>1 DEF Accepted
    <3>2. ASSUME NEW pw \in late', pw >= db' PROVE Accepted(pw)'
      <4>1. pw = gen
        BY <1>1, <1>2, <3>2, WALBounds
      <4>. QED
        BY <2>1, <4>1 DEF Accepted
    <3>3. \A v \in wals' : ~(v.lvr >= role'.lvr)
      BY <1>3, <2>1, WALBounds
    <3>. QED
      BY <3>1, <3>2, <3>3 DEF Traceable
  <2>. QED
    BY <1>1, <1>3, <2>1, <2>3, <2>4, <2>5, KeptContinues DEF Sections
<1>4. CASE GiveUp(p, rot[p].pw, wals, 1) /\ UNCHANGED <<role, clock>>
  <2>1. rot[p].op # "create" => Recoverable' /\ Traceable'
    <3>1. rot[p].op # "create" => wals' = wals
      BY <1>4 DEF GiveUp
    <3>. QED
      BY <1>1, <1>4, <3>1, SameTraces DEF Kept, Held
  <2>2. gen # 0
    BY <1>2, WALBounds
  <2>3. rot[p].op # "create"
          => Names(Item("soon", IF rot[p].pw # 0 THEN rot[p].pw ELSE rot[p].item.wal))
    BY <1>2, <2>2 DEF Names, Item
  <2>. QED
    BY <1>1, <1>4, <2>1, <2>3, KeptGiveUp
<1>. QED
  BY <1>3, <1>4 DEF StoreStaticRole

LEMMA KeptDeleteWAL ==
    ASSUME Typed, OneHolder, Kept, cause' = {}, NEW p \in Procs, DeleteWAL(p)
    PROVE  Held'
<1>1. /\ rot[p].pc = "clean" /\ rot[p].pc \in Sections
      /\ UNCHANGED <<role, db, late, up, gen>>
  BY DEF DeleteWAL, Sections, counters
<1>2. /\ rot[p].pw = gen /\ role # NoRole /\ role.pw = gen
      /\ queue = {}
      /\ \A q \in Procs : q # p => rot[q].pc = "idle"
  BY <1>1, RotatingOne DEF InRotation
<1>3. CASE /\ wals' = Without(wals, rot[p].pw)
           /\ Push(Item("later", 0))
           /\ rot' = [rot EXCEPT ![p] = Idle]
           /\ UNCHANGED <<faults, cause>>
  <2>1. \A q \in Procs : rot'[q].pc = "idle"
    BY <1>2, <1>3 DEF Typed, Idle
  <2>2. /\ queue' = {Item("later", 0)}
        /\ wals' \subseteq wals /\ \A v \in wals' : v.pw # gen
        /\ \A v \in wals : v.pw # gen => v \in wals'
    BY <1>2, <1>3 DEF Push, Without
  <2>3. ~OpenWAL' /\ ~HasWAL(0)' /\ \A pw : HasWAL(pw)' => HasWAL(pw)
    BY <1>1, <2>2, WALBounds DEF OpenWAL, HasWAL
  <2>4. \A i \in queue' : Names(i)'
    BY <2>2, <2>3 DEF Names, Item
  <2>5. Recoverable'
    BY <1>1, <1>2, <2>2 DEF Kept, Held, Recoverable, HasWAL
  <2>6. Traceable'
    <3>1. \A pw : Accepted(pw) => Accepted(pw)'
      BY <1>1, <1>2 DEF Accepted
    <3>. QED
      BY <1>1, <2>2, <2>3, <3>1 DEF Kept, Held, Traceable
  <2>. QED
    BY <1>1, <1>2, <2>1, <2>4, <2>5, <2>6, KeptAtRest
<1>4. CASE /\ GiveUp(p, rot[p].pw, wals, 1)
           /\ Blame("item_dropped", rot[p].op = "create")
  <2>1. rot[p].op # "create"
    BY <1>4 DEF Blame
  <2>2. wals' = wals
    BY <1>4, <2>1 DEF GiveUp
  <2>3. Recoverable' /\ Traceable'
    BY <1>1, <2>2, SameTraces DEF Kept, Held
  <2>4. rot[p].pw # 0
    BY <1>1 DEF Typed
  <2>5. Names(Item("soon", IF rot[p].pw # 0 THEN rot[p].pw ELSE rot[p].item.wal))
    BY <1>2, <2>4 DEF Names, Item
  <2>. QED
    BY <1>1, <1>4, <2>1, <2>3, <2>5, KeptGiveUp
<1>. QED
  BY <1>3, <1>4 DEF DeleteWAL

\* Without the lock taken and with no rotate-role under way, the user's
\* goroutine is at rest.
LEMMA UserIdle ==
    ASSUME Typed, OneHolder, ~Locked, ~Rotating("user")
    PROVE  rot["user"].pc = "idle"
<1>1. rot["user"].pc \in {"idle", "popped"} \cup Sections
  BY DEF Typed, Procs, Rotations
<1>. QED
  BY <1>1 DEF OneHolder, Locked, Rotating

LEMMA KeptCreate ==
    ASSUME Typed, OneHolder, Kept, cause' = {}, CreateRole
    PROVE  Held'
<1>1. /\ role = NoRole /\ ~Locked /\ queue = {}
      /\ rot["ticker"].pc = "idle" /\ ~Rotating("user")
  BY DEF CreateRole, Blame, Kept, Held, OnePlace
<1>. DEFINE r == [Idle EXCEPT !.pc = "begin", !.op = "create", !.role = Copy]
<1>2. /\ rot'["user"] = r /\ rot'["ticker"] = rot["ticker"]
      /\ UNCHANGED <<role, wals, gen, db, late, queue, up>>
  BY DEF CreateRole, Typed, Procs, storage, counters
<1>3. r.pc = "begin" /\ r.op = "create" /\ r.item.wal = 0 /\ r.role.lvr = role.lvr
  BY <1>1 DEF Idle, Item, Copy, NoRole
<1>. HIDE DEF r
<1>4. OnePlace'
  BY <1>1, <1>2, <1>3 DEF OnePlace, Procs, Rotating
<1>5. InRotation(r)
  BY <1>1, <1>3, WALBounds DEF InRotation, Names
<1>6. \A p \in Procs : InRotation(rot'[p])
  BY <1>1, <1>2, <1>5, IdleInRotation DEF Procs
<1>. QED
  BY <1>1, <1>2, <1>4, <1>6, KeptItem

\* A step on the request alone.
LEMMA KeptApart ==
    ASSUME Typed, Kept, UNCHANGED <<role, wals, gen, db, late, queue, up, rot>>
    PROVE  Held'
<1>1. OnePlace' /\ \A i \in queue' : Names(i)
  BY DEF Kept, Held, OnePlace, Rotating
<1>2. \A p \in Procs : InRotation(rot'[p])
  BY DEF Kept, Held
<1>. QED
  BY <1>1, <1>2, KeptItem

\* What is stored has the time of rotation of the role that is there: it is the
\* same role, or one that was never rotated.
LEMMA KeptPutRole ==
    ASSUME Typed, Kept, cause' = {}, PutRole
    PROVE  Held'
<1>1. UNCHANGED <<wals, gen, db, late, queue, up, rot>> /\ write.pc = "put"
  BY DEF PutRole, counters
<1>2. CASE role' = role
  BY <1>1, <1>2, KeptApart
<1>3. CASE role' # role
  <2>1. /\ role' = write.role /\ write.role # NoRole
        /\ write.role.lvr = role.lvr
        /\ role.lvr = 0
        /\ write.role.pw = db \/ HasWAL(db)
    BY <1>3 DEF PutRole, Blame, Kept, WriteSound, CopySound
  <2>2. /\ HasWAL(db)' = HasWAL(db)
        /\ \A i : Names(i) => Names(i)'
    BY <1>1, <2>1 DEF HasWAL, Names
  <2>3. OnePlace'
    BY <1>1, <2>1 DEF Kept, Held, OnePlace, Rotating
  <2>4. Recoverable'
    BY <1>1, <2>1, <2>2 DEF Recoverable
  <2>5. Traceable'
    BY <2>1 DEF Traceable
  <2>6. \A i \in queue' : Names(i)'
    BY <1>1, <2>2 DEF Kept, Held
  <2>7. ASSUME NEW p \in Procs PROVE InRotation(rot[p])'
    <3>1. InRotation(rot[p])
      BY DEF Kept, Held
    <3>2. HasWAL(gen) => HasWAL(gen)'
      BY <1>1 DEF HasWAL
    <3>. QED
      BY <1>1, <2>1, <2>2, <3>1, <3>2 DEF InRotation
  <2>. QED
    BY <2>3, <2>4, <2>5, <2>6, <2>7 DEF Held
<1>. QED
  BY <1>2, <1>3

\* The item leaves the queue for the update's hands, with the role at rest, or is
\* not there.
LEMMA KeptPopByKey ==
    ASSUME Typed, Kept, PopByKey
    PROVE  Held'
<1>1. UNCHANGED <<role, wals, gen, db, late, up, rot>> /\ queue' = {}
  BY DEF PopByKey, storage, counters
<1>2. OnePlace'
  BY <1>1 DEF Kept, Held, OnePlace, Rotating
<1>3. \A p \in Procs : InRotation(rot'[p])
  BY <1>1 DEF Kept, Held
<1>. QED
  BY <1>1, <1>2, <1>3, KeptItem

LEMMA KeptPushItem ==
    ASSUME Typed, Kept, PushItem
    PROVE  Held'
<1>1. UNCHANGED <<role, wals, gen, db, late, up, rot>>
  BY DEF PushItem, storage, counters
<1>2. /\ role # NoRole /\ queue = {} /\ Names(write.item)
      /\ \A p \in Procs : rot[p].pc = "idle"
  BY DEF PushItem, Kept, WriteSound, NotYetQueued
<1>3. queue' = {write.item}
  BY <1>2 DEF PushItem, Push
<1>4. OnePlace' /\ \A i \in queue' : Names(i)
  BY <1>1, <1>2, <1>3, AtRest
<1>. QED
  BY <1>1, <1>2, <1>4, KeptItem, IdleInRotation

LEMMA KeptWrite ==
    ASSUME Typed, OneHolder, Kept, cause' = {}, BeginWrite \/ Write
    PROVE  Held'
<1>1. CASE BeginWrite \/ CreateSkipImport \/ UpdateRole \/ RefuseWrite
  <2>1. UNCHANGED <<role, wals, gen, db, late, queue, up, rot>>
    BY <1>1 DEF BeginWrite, CreateSkipImport, UpdateRole, RefuseWrite, storage, counters
  <2>. QED
    BY <2>1, KeptApart
<1>. QED
  BY <1>1, KeptCreate, KeptPutRole, KeptPopByKey, KeptPushItem DEF Write

LEMMA KeptDeleteRole ==
    ASSUME Typed, OneHolder, Kept, cause' = {}, DeleteRole
    PROVE  Held'
<1>1. /\ role' = NoRole /\ queue' = {} /\ rot' = rot /\ ~Locked
      /\ rot["ticker"].pc = "idle" /\ ~Rotating("user")
  BY DEF DeleteRole, Blame
<1>2. \A p \in Procs : rot'[p].pc = "idle"
  BY <1>1, UserIdle DEF Procs
<1>. QED
  BY <1>1, <1>2, RoleGone

LEMMA KeptRotateRole ==
    ASSUME Typed, StaysQueued, Kept, cause = {}, cause' = {}, RotateRole
    PROVE  Held'
<1>1. /\ role # NoRole /\ rot["user"].pc = "idle" /\ rot["ticker"].pc = "idle" /\ up
      /\ queue' = {}
      /\ UNCHANGED <<role, wals, gen, db, late, up>>
      /\ write.pc # "push"
  BY DEF RotateRole, Blame, storage
<1>2. queue # {}
  BY <1>1 DEF StaysQueued, Unqueued, Rotating, Sections
<1>3. PICK i \in queue : rot' = [rot EXCEPT !["user"] =
                                   [Idle EXCEPT !.pc = "begin", !.op = "rotate",
                                                !.item = i, !.role = role]]
  BY <1>2 DEF RotateRole
<1>4. /\ rot'["user"].pc = "begin" /\ rot'["user"].item = i /\ rot'["user"].role = role
      /\ rot'["ticker"] = rot["ticker"]
  BY <1>3 DEF Typed, Procs, Idle
<1>5. OnePlace'
  BY <1>1, <1>4 DEF OnePlace, Procs
<1>6. \A p \in Procs : InRotation(rot'[p])
  BY <1>1, <1>3, <1>4 DEF InRotation, Kept, Held, Procs
<1>. QED
  BY <1>1, <1>5, <1>6, KeptItem

LEMMA KeptTime ==
    ASSUME Typed, Kept, NEW from, TimePasses(from), UNCHANGED gen
    PROVE  Held'
<1>1. /\ UNCHANGED <<role, wals, gen, db, late, up>>
      /\ rot \in [Procs -> Rotations] /\ rot["ticker"] \in Rotations
  BY DEF TimePasses, storage, Typed, Procs
<1>2. \A i \in queue' : \E j \in queue : i.wal = j.wal
  BY DEF TimePasses, DueNow, Item
<1>3. \A i \in queue' : Names(i)
  BY <1>2 DEF Kept, Held, Names
<1>4. /\ rot'["user"] = rot["user"]
      /\ rot'["ticker"].pc = rot["ticker"].pc /\ rot'["ticker"].op = rot["ticker"].op
      /\ rot'["ticker"].role = rot["ticker"].role /\ rot'["ticker"].pw = rot["ticker"].pw
      /\ rot'["ticker"].item.wal = rot["ticker"].item.wal
  BY <1>1 DEF TimePasses, DueNow, Item, Procs, Rotations
<1>5. OnePlace'
  <2>1. queue = {} => queue' = {}
    BY <1>2
  <2>2. \A p \in Procs : rot'[p].pc = rot[p].pc /\ rot'[p].op = rot[p].op
    BY <1>4 DEF Procs
  <2>. QED
    BY <1>1, <2>1, <2>2 DEF Kept, Held, OnePlace, Rotating, Procs
<1>6. \A p \in Procs : InRotation(rot'[p])
  <2>1. InRotation(rot["ticker"]) /\ InRotation(rot["user"])
    BY DEF Kept, Held, Procs
  <2>2. InRotation(rot'["ticker"])
    BY <1>4, <2>1 DEF InRotation, Names
  <2>. QED
    BY <1>4, <2>1, <2>2 DEF Procs
<1>. QED
  BY <1>1, <1>3, <1>5, <1>6, KeptItem

LEMMA KeptLateCall ==
    ASSUME Typed, Kept, cause' = {}, LateCall
    PROVE  Held'
<1>1. PICK pw \in late :
        /\ late' = late \ {pw}
        /\ \/ db' = pw /\ Blame("late_call", ~HasWAL(pw) \/ pw < db)
           \/ UNCHANGED <<db, cause>>
  BY DEF LateCall
<1>2. UNCHANGED <<role, wals, gen, queue, up, rot>>
  BY DEF LateCall, storage, counters
<1>3. /\ OpenWAL' = OpenWAL
      /\ \A q : HasWAL(q)' = HasWAL(q)
      /\ \A q : Accepted(q)' = Accepted(q)
      /\ \A i : Names(i)' = Names(i)
  BY <1>2 DEF OpenWAL, HasWAL, Accepted, Names
<1>4. db' = db \/ (db' = pw /\ HasWAL(pw) /\ pw >= db)
  <2>1. pw \in 1 .. gen /\ db \in 0 .. gen /\ gen \in Nat
    BY WALBounds
  <2>2. CASE db' = pw /\ Blame("late_call", ~HasWAL(pw) \/ pw < db)
    BY <2>1, <2>2 DEF Blame
  <2>. QED
    BY <1>1, <2>2
<1>5. Recoverable'
  BY <1>2, <1>3, <1>4 DEF Kept, Held, Recoverable
<1>6. Traceable'
  <2>1. ASSUME role # NoRole, role.lvr # 0 PROVE Accepted(db')
    BY <1>4, <2>1 DEF Kept, Held, Traceable
  <2>2. ASSUME role # NoRole, role.lvr # 0, NEW q \in late', HasWAL(q), q >= db'
        PROVE  Accepted(q)
    <3>1. q \in late /\ q >= db
      BY <1>1, <1>4, <2>2, WALBounds
    <3>. QED
      BY <2>2, <3>1 DEF Kept, Held, Traceable
  <2>3. ASSUME role # NoRole, role.lvr # 0 PROVE \A w \in wals : w.lvr >= role.lvr => w.pw = gen
    BY <2>3 DEF Kept, Held, Traceable
  <2>4. Accepted(db)' = Accepted(db')
    BY <1>2 DEF Accepted, OpenWAL
  <2>. QED
    BY <1>2, <1>3, <2>1, <2>2, <2>3, <2>4 DEF Traceable
<1>7. \A p \in Procs : InRotation(rot[p])'
  <2>. SUFFICES ASSUME NEW p \in Procs PROVE InRotation(rot[p])'
    OBVIOUS
  <2>1. InRotation(rot[p])
    BY DEF Kept, Held
  <2>2. db = gen => db' = gen
    BY <1>4, WALBounds
  <2>. QED
    BY <1>2, <1>3, <2>1, <2>2 DEF InRotation
<1>8. OnePlace'
  BY <1>2 DEF Kept, Held, OnePlace, Rotating
<1>. QED
  BY <1>2, <1>3, <1>5, <1>6, <1>7, <1>8 DEF Kept, Held

LEMMA KeptCrash ==
    ASSUME Typed, OneHolder, Kept, Crash
    PROVE  Held'
<1>1. /\ queue' = {} /\ \A p \in Procs : rot'[p].pc = "idle"
      /\ UNCHANGED <<role, wals, gen, db>>
  BY DEF Crash, Idle, storage, counters
<1>2. CASE role = NoRole
  BY <1>1, <1>2, RoleGone
<1>3. CASE role # NoRole
  <2>1. Recoverable' /\ Traceable'
    <3>1. CASE \A p \in Procs : rot[p].pc # "update"
      <4>1. late' = late
        BY <3>1 DEF Crash
      <4>. QED
        BY <1>1, <4>1, SameTraces DEF Kept, Held
    <3>2. CASE \E p \in Procs : rot[p].pc = "update"
      <4>1. PICK p \in Procs : rot[p].pc = "update"
        BY <3>2
      <4>2. InRotation(rot[p])
        BY DEF Kept, Held
      <4>3. late' \subseteq late \cup {gen}
        BY DEF Crash, Kept, Held, InRotation
      <4>. QED
        BY <1>1, <4>1, <4>2, <4>3, LastSet DEF InRotation
    <3>. QED
      BY <3>1, <3>2
  <2>. QED
    BY <1>1, <1>3, <2>1, KeptAtRest
<1>. QED
  BY <1>2, <1>3

\* The start-up keeps the open WAL and queues the role with its ID.
LEMMA KeptInit ==
    ASSUME Typed, OneHolder, Kept, cause' = {}, initQueue
    PROVE  Held'
<1>1. /\ ~up /\ rot["user"].pc = "idle"
      /\ UNCHANGED <<role, db, late, rot, gen>>
  BY DEF initQueue, counters
<1>2. \A p \in Procs : rot'[p].pc = "idle"
  BY <1>1 DEF Kept, Held, OnePlace, Procs
<1>3. CASE role = NoRole
  <2>1. queue = {}
    BY <1>3 DEF Kept, Held, OnePlace
  <2>2. queue' = {}
    BY <1>3, <2>1 DEF initQueue
  <2>. QED
    BY <1>1, <1>2, <1>3, <2>2, RoleGone
<1>4. CASE role # NoRole
  <2>. DEFINE roll == RollForward(wals)
  <2>1. PICK unread \in SUBSET wals :
        \E left \in SUBSET ((wals \ unread) \ RollForward(wals \ unread)) :
          /\ wals' = unread \cup left \cup RollForward(wals \ unread)
          /\ \/ \E w \in RollForward(wals \ unread) : Push(Item("now", w.pw))
             \/ RollForward(wals \ unread) = {}
                /\ \E due \in {"now", "later"} : Push(Item(due, 0))
          /\ unread = {}
          /\ wals = {} \/ role.lvr # 0
    BY <1>4 DEF initQueue
  <2>2. /\ wals' \subseteq wals /\ roll \subseteq wals'
        /\ \/ \E w \in roll : Push(Item("now", w.pw))
           \/ roll = {} /\ \E due \in {"now", "later"} : Push(Item(due, 0))
        /\ wals = {} \/ role.lvr # 0
    <3>1. wals \ unread = wals
      BY <2>1
    <3>2. RollForward(wals) \subseteq wals
      BY DEF RollForward, Newest
    <3>. QED
      BY <2>1, <3>1, <3>2
  <2>3. role.lvr # 0 => \A w \in wals : w.pw = gen /\ w.lvr >= role.lvr => w \in roll
    BY WALBounds DEF RollForward, Newest
  <2>4. \A w \in roll : w \in wals /\ w.lvr >= role.lvr
    BY DEF RollForward, Newest
  <2>. HIDE DEF roll
  <2>5. role.lvr # 0 => OpenWAL' = OpenWAL
    BY <1>1, <2>2, <2>3 DEF OpenWAL
  <2>6. \A pw : HasWAL(pw)' => HasWAL(pw)
    BY <2>2 DEF HasWAL
  <2>7. Traceable'
    BY <1>1, <2>2, <2>5, <2>6 DEF Kept, Held, Traceable, Accepted
  <2>8. Recoverable'
    <3>1. CASE role.lvr # 0
      BY <1>1, <1>4, <2>7, <3>1 DEF Traceable, Accepted, Recoverable, OpenWAL, HasWAL
    <3>2. CASE wals = {}
      BY <1>1, <3>2 DEF Kept, Held, Recoverable, HasWAL
    <3>. QED
      BY <2>2, <3>1, <3>2
  <2>9. ASSUME NEW i \in queue' PROVE Names(i)'
    <3>1. CASE i \in queue
      <4>1. Names(i)
        BY <3>1 DEF Kept, Held
      <4>. QED
        BY <1>1, <2>5, <2>6, <4>1 DEF Names
    <3>2. CASE i \notin queue
      <4>1. \/ \E w \in roll : i.wal = w.pw
            \/ roll = {} /\ i.wal = 0
        BY <2>2, <2>9, <3>2 DEF Push, Item
      <4>2. CASE \E w \in roll : i.wal = w.pw
        <5>1. PICK w \in roll : i.wal = w.pw
          BY <4>2
        <5>2. role.lvr # 0 /\ w \in wals /\ w.lvr >= role.lvr
          BY <2>2, <2>4
        <5>3. w.pw = gen /\ OpenWAL
          BY <1>4, <5>2 DEF Kept, Held, Traceable, OpenWAL
        <5>. QED
          BY <1>1, <2>5, <5>1, <5>2, <5>3 DEF Names
      <4>3. CASE roll = {} /\ i.wal = 0
        <5>1. ~HasWAL(i.wal)'
          BY <2>6, <4>3, WALBounds
        <5>2. role.lvr # 0 => ~OpenWAL'
          BY <2>3, <2>5, <4>3 DEF OpenWAL
        <5>. QED
          BY <1>1, <5>1, <5>2 DEF Names
      <4>. QED
        BY <4>1, <4>2, <4>3
    <3>. QED
      BY <3>1, <3>2
  <2>. QED
    BY <1>1, <1>2, <1>4, <2>7, <2>8, <2>9, KeptAtRest
<1>. QED
  BY <1>3, <1>4

-----------------------------------------------------------------------------
(* What creation and update rest on                                        *)

\* A step that leaves role and request alone, and of a role that was never
\* rotated neither loses a WAL nor sets a password without one.
LEMMA SoundApart ==
    ASSUME Typed, Kept, UNCHANGED <<role, write>>,
           CreatesRole', NotYetQueued',
           \/ write.pc # "put"
           \/ role.lvr # 0
           \/ wals \subseteq wals' /\ (db' = db \/ \E w \in wals' : w.pw = db')
    PROVE  WriteSound'
<1>1. CopySound'
  BY DEF Kept, WriteSound, CopySound, HasWAL
<1>. QED
  BY <1>1 DEF WriteSound

\* While a goroutine rotates, no request holds the item.
LEMMA NotQueueing ==
    ASSUME Kept, NEW p \in Procs, rot[p].pc # "idle"
    PROVE  write.pc # "push"
BY DEF Kept, WriteSound, NotYetQueued

LEMMA SoundAccount ==
    ASSUME Typed, OneHolder, Kept, cause' = {}, NEW p \in Procs, setStaticAccount(p)
    PROVE  WriteSound'
<1>1. /\ rot[p].pc \in Sections /\ rot[p].pc # "idle"
      /\ \A q \in Procs : q # p => rot'[q] = rot[q]
      /\ UNCHANGED <<up, write>>
      /\ Continues(p) \/ Ends(p)
  BY AccountShape DEF Sections
<1>2. /\ \A q \in Procs : q # p => rot[q].pc = "idle"
      /\ InRotation(rot[p])
      /\ rot[p].op # "create" => role # NoRole
      /\ rot[p].op = "create" => p = "user" /\ (rot[p].pc # "clean" => role = NoRole)
  BY <1>1, RotatingOne
<1>3. NotYetQueued'
  BY <1>1, NotQueueing DEF NotYetQueued
<1>4. CreatesRole'
  <2>1. CASE p = "ticker"
    <3>1. rot'["user"].pc = "idle"
      BY <1>1, <1>2, <2>1 DEF Procs
    <3>. QED
      BY <3>1 DEF CreatesRole, Sections
  <2>2. CASE p = "user" /\ Ends(p)
    BY <2>2 DEF CreatesRole, Ends, Idle, Sections
  <2>3. CASE p = "user" /\ Continues(p)
    BY <1>2, <2>3 DEF CreatesRole, Continues, Sections
  <2>. QED
    BY <1>1, <2>1, <2>2, <2>3 DEF Procs
<1>5. CASE write.pc # "put"
  <2>1. CopySound'
    BY <1>1, <1>5 DEF CopySound
  <2>. QED
    BY <1>3, <1>4, <2>1 DEF WriteSound
<1>6. CASE write.pc = "put"
  <2>1. rot[p].op # "create" /\ role # NoRole
    BY <1>1, <1>2, <1>6 DEF OneHolder
  <2>2. CASE UseWAL(p)
    <3>1. UNCHANGED <<role, db>> /\ wals \subseteq wals'
      BY <2>1, <2>2 DEF UseWAL, GiveUp
    <3>. QED
      BY <1>1, <1>3, <1>4, <3>1, SoundApart
  <2>3. CASE UpdateUser(p) \/ UpdateUserFails(p)
    <3>1. /\ rot[p].pw = gen /\ HasWAL(gen) /\ UNCHANGED role
      BY <1>2, <2>3 DEF UpdateUser, UpdateUserFails, InRotation
    <3>2. UpdateUserFails(p) => ~rot[p].used
      BY DEF UpdateUserFails, Blame
    <3>3. wals' = wals
      BY <2>1, <2>3, <3>2 DEF UpdateUser, UpdateUserFails, GiveUp
    <3>4. db' = db \/ db' = gen
      BY <2>3, <3>1 DEF UpdateUser, UpdateUserFails
    <3>. QED
      BY <1>1, <1>3, <1>4, <3>1, <3>3, <3>4, SoundApart DEF HasWAL
  <2>4. CASE StoreStaticRole(p)
    <3>1. CASE GiveUp(p, rot[p].pw, wals, 1) /\ UNCHANGED <<role, clock>>
      <4>1. wals' = wals /\ db' = db
        BY <2>1, <2>4, <3>1 DEF StoreStaticRole, GiveUp
      <4>. QED
        BY <1>1, <1>3, <1>4, <3>1, <4>1, SoundApart
    <3>2. CASE clock' = clock + 1 /\ role' = [pw |-> rot[p].pw, lvr |-> clock']
      <4>1. role' # NoRole /\ role'.lvr # write.role.lvr
        BY <3>2, WALBounds
      <4>2. write.op = "update" /\ write.role # NoRole
        BY <1>6, <2>1 DEF Kept, WriteSound, CopySound
      <4>3. CopySound'
        BY <1>1, <4>1, <4>2 DEF CopySound
      <4>. QED
        BY <1>3, <1>4, <4>3 DEF WriteSound
    <3>. QED
      BY <2>4, <3>1, <3>2 DEF StoreStaticRole
  <2>5. CASE DeleteWAL(p)
    <3>1. role.lvr # 0 /\ UNCHANGED role
      BY <1>2, <2>5 DEF DeleteWAL, InRotation
    <3>. QED
      BY <1>1, <1>3, <1>4, <3>1, SoundApart
  <2>. QED
    BY <2>2, <2>3, <2>4, <2>5 DEF setStaticAccount
<1>. QED
  BY <1>5, <1>6

LEMMA SoundWrite ==
    ASSUME Typed, OneHolder, Kept, cause' = {}, BeginWrite \/ Write
    PROVE  WriteSound'
<1>0. /\ CreatesRole /\ write \in Writes /\ NoWrite.pc = "idle"
      /\ rot \in [Procs -> Rotations]
  BY NoWriteIdle DEF Kept, WriteSound, Typed
<1>1. CASE BeginWrite \/ RefuseWrite
  <2>1. write'.pc \in {"idle", "wait"} /\ UNCHANGED <<role, rot>>
    BY <1>0, <1>1 DEF BeginWrite, RefuseWrite, NoWrite, storage
  <2>. QED
    BY <1>0, <2>1 DEF WriteSound, CreatesRole, CopySound, NotYetQueued
<1>2. CASE CreateRole
  <2>1. write'.pc = "idle" /\ role' = NoRole
    BY <1>0, <1>2 DEF CreateRole, Blame, storage
  <2>. QED
    BY <2>1 DEF WriteSound, CreatesRole, CopySound, NotYetQueued
<1>3. CASE CreateSkipImport
  <2>1. role = NoRole /\ UNCHANGED <<role, rot, db>>
    BY <1>3 DEF CreateSkipImport, Blame, storage
  <2>2. /\ write'.pc = "put" /\ write'.op = "skip_import"
        /\ write'.role = [pw |-> db, lvr |-> 0]
    BY <1>0, <1>3, <2>1 DEF CreateSkipImport, Copy, Writes
  <2>3. write'.role # NoRole /\ role'.lvr = 0
    BY <2>1, <2>2, WALBounds
  <2>. QED
    BY <1>0, <2>1, <2>2, <2>3 DEF WriteSound, CreatesRole, CopySound, NotYetQueued
<1>4. CASE UpdateRole
  <2>1. role # NoRole /\ UNCHANGED <<role, rot, db, wals>>
    BY <1>4 DEF UpdateRole, Blame, storage
  <2>2. /\ write'.pc = "put" /\ write'.op = "update"
        /\ \/ write'.role = role
           \/ role.lvr = 0 /\ write'.role = [pw |-> db, lvr |-> 0]
    BY <1>0, <1>4, <2>1 DEF UpdateRole, Copy, Writes
  <2>3. [pw |-> db, lvr |-> 0] # NoRole
    BY WALBounds
  <2>4. role.pw = db \/ HasWAL(db)
    BY <2>1 DEF Kept, Held, Recoverable
  <2>5. CopySound'
    BY <2>1, <2>2, <2>3, <2>4 DEF CopySound, HasWAL
  <2>. QED
    BY <1>0, <2>1, <2>2, <2>5 DEF WriteSound, CreatesRole, NotYetQueued
<1>5. CASE PutRole
  <2>1. write.pc = "put" /\ UNCHANGED <<queue, rot>>
    BY <1>5 DEF PutRole
  <2>2. CASE write' = NoWrite /\ UNCHANGED role
    BY <1>0, <2>1, <2>2 DEF WriteSound, CreatesRole, CopySound, NotYetQueued
  <2>3. UNCHANGED <<wals, gen>>
    BY <1>5 DEF PutRole, counters
  <2>4. CASE /\ role' = write.role /\ role.lvr = write.role.lvr
             /\ write' = [write EXCEPT
                            !.pc = IF write.op = "update" THEN "pop" ELSE "push",
                            !.item = Item("later", 0)]
    <3>1. CreatesRole'
      BY <2>1 DEF CreatesRole, OneHolder
    <3>2. CASE write.op = "update"
      <4>1. write'.pc = "pop"
        BY <1>0, <2>4, <3>2 DEF Writes
      <4>. QED
        BY <3>1, <4>1 DEF WriteSound, CopySound, NotYetQueued
    <3>3. CASE write.op # "update"
      <4>1. role = NoRole /\ write.role # NoRole
        BY <2>1, <3>3 DEF Kept, WriteSound, CopySound
      <4>2. queue = {} /\ rot["ticker"].pc = "idle" /\ ~Rotating("user")
        BY <4>1 DEF Kept, Held, OnePlace
      <4>3. rot["user"].pc = "idle"
        <5>1. rot["user"].pc \in {"idle", "popped"} \cup Sections
          BY <1>0 DEF Procs, Rotations
        <5>. QED
          BY <2>1, <4>2, <5>1 DEF OneHolder, Rotating
      <4>4. write'.pc = "push" /\ write'.item.wal = 0
        BY <1>0, <2>4, <3>3 DEF Writes, Item
      <4>5. Names(write.item)'
        BY <2>1, <2>4, <2>3, <4>1, <4>4, WALBounds DEF Names, HasWAL
      <4>6. NotYetQueued'
        BY <2>1, <2>4, <4>1, <4>2, <4>3, <4>5 DEF NotYetQueued, Procs
      <4>. QED
        BY <3>1, <4>4, <4>6 DEF WriteSound, CopySound
    <3>. QED
      BY <3>2, <3>3
  <2>. QED
    BY <1>5, <2>2, <2>4 DEF PutRole, Blame
<1>6. CASE PopByKey
  <2>1. /\ UNCHANGED <<role, wals, gen, rot>> /\ queue' = {}
        /\ write'.pc # "put"
    BY <1>0, <1>6 DEF PopByKey, storage, counters, Writes
  <2>2. ASSUME write'.pc = "push"
        PROVE  /\ role # NoRole /\ Names(write'.item)
               /\ \A p \in Procs : rot[p].pc = "idle"
    <3>1. PICK i \in queue :
            \E due : write' = [write EXCEPT !.pc = "push", !.item = Item(due, i.wal)]
      BY <1>0, <1>6, <2>2 DEF PopByKey
    <3>2. write'.item.wal = i.wal
      BY <1>0, <3>1 DEF Item, Writes
    <3>. QED
      BY <3>2 DEF Kept, Held, OnePlace, Names
  <2>3. NotYetQueued'
    BY <2>1, <2>2 DEF NotYetQueued, Names, HasWAL, OpenWAL
  <2>. QED
    BY <1>0, <2>1, <2>3 DEF WriteSound, CreatesRole, CopySound
<1>7. CASE PushItem
  <2>1. write'.pc = "idle" /\ UNCHANGED <<role, rot>>
    BY <1>0, <1>7 DEF PushItem, storage
  <2>. QED
    BY <1>0, <2>1 DEF WriteSound, CreatesRole, CopySound, NotYetQueued
<1>. QED
  BY <1>1, <1>2, <1>3, <1>4, <1>5, <1>6, <1>7 DEF Write

LEMMA SoundNext ==
    ASSUME Typed, OneHolder, Kept, cause' = {}, [Next]_vars
    PROVE  WriteSound'
<1>0. /\ CreatesRole /\ NotYetQueued
      /\ rot \in [Procs -> Rotations] /\ rot["ticker"] \in Rotations
  BY DEF Kept, WriteSound, Typed, Procs
\* The user's goroutine and storage are left alone.
<1>1. ASSUME rot'["user"] = rot["user"], UNCHANGED <<role, write, wals, gen>>,
             db' = db \/ HasWAL(db'),
             \/ write.pc # "push"
             \/ (queue = {} => queue' = {}) /\ rot'["ticker"].pc = rot["ticker"].pc
      PROVE  WriteSound'
  <2>1. CreatesRole'
    BY <1>0, <1>1 DEF CreatesRole
  <2>2. NotYetQueued'
    BY <1>0, <1>1 DEF NotYetQueued, Procs, Names, HasWAL, OpenWAL
  <2>. QED
    BY <1>1, <2>1, <2>2, SoundApart DEF HasWAL
<1>2. CASE PopItem
  <2>1. /\ rot'["user"] = rot["user"] /\ UNCHANGED <<role, write, wals, db, gen>>
        /\ queue # {}
    BY <1>0, <1>2 DEF PopItem, Procs, storage, counters
  <2>. QED
    BY <1>0, <1>1, <2>1 DEF NotYetQueued
<1>3. CASE rotateCredential
  <2>1. /\ rot'["user"] = rot["user"] /\ UNCHANGED <<role, write, wals, db, gen>>
        /\ rot["ticker"].pc = "popped"
    BY <1>0, <1>3 DEF rotateCredential, Procs, storage, counters
  <2>. QED
    BY <1>0, <1>1, <2>1 DEF NotYetQueued, Procs
<1>4. ASSUME NEW p \in Procs, setStaticAccount(p) PROVE WriteSound'
  BY <1>4, SoundAccount
<1>5. CASE BeginWrite \/ Write
  BY <1>5, SoundWrite
<1>6. CASE DeleteRole
  <2>1. /\ role' = NoRole /\ UNCHANGED write /\ write.pc \notin {"put", "pop", "push"}
    BY <1>6 DEF DeleteRole, Blame, Locked
  <2>. QED
    BY <2>1 DEF WriteSound, CreatesRole, CopySound, NotYetQueued
<1>7. CASE RotateRole
  <2>1. /\ rot'["user"].op = "rotate" /\ UNCHANGED <<role, write, wals, db>>
        /\ write.pc # "push"
    BY <1>0, <1>7 DEF RotateRole, Blame, Procs, Idle, storage
  <2>2. CreatesRole' /\ NotYetQueued'
    BY <2>1 DEF CreatesRole, NotYetQueued
  <2>. QED
    BY <2>1, <2>2, SoundApart
<1>8. CASE initQueue
  <2>1. /\ UNCHANGED <<role, rot, write>> /\ write.pc \notin {"put", "pop", "push"}
    BY <1>8 DEF initQueue
  <2>. QED
    BY <1>0, <2>1 DEF WriteSound, CreatesRole, CopySound, NotYetQueued
<1>9. CASE BackoffEnds \/ PeriodEnds
  <2>1. PICK from : TimePasses(from)
    BY <1>9 DEF BackoffEnds, PeriodEnds
  <2>2. /\ rot'["ticker"].pc = rot["ticker"].pc /\ rot'["user"] = rot["user"]
        /\ queue = {} => queue' = {}
        /\ UNCHANGED <<role, write, wals, db, gen>>
    BY <1>0, <2>1 DEF TimePasses, Procs, Rotations, storage
  <2>. QED
    BY <1>1, <2>2
<1>10. CASE LateCall
  <2>1. UNCHANGED <<role, write, wals, gen, rot, queue>>
    BY <1>10 DEF LateCall, storage, counters
  <2>2. db' = db \/ HasWAL(db')
    BY <1>10 DEF LateCall, Blame
  <2>. QED
    BY <1>1, <2>1, <2>2
<1>11. CASE Crash
  <2>1. write'.pc = "idle" /\ rot'["user"].pc = "idle"
    BY <1>11, NoWriteIdle DEF Crash, Idle, Procs
  <2>. QED
    BY <2>1 DEF WriteSound, CreatesRole, CopySound, NotYetQueued, Sections
<1>12. CASE UNCHANGED vars
  BY <1>1, <1>12 DEF vars
<1>. QED
  BY <1>2, <1>3, <1>4, <1>5, <1>6, <1>7, <1>8, <1>9, <1>10, <1>11, <1>12
     DEF Next, Requests

LEMMA HeldNext ==
    ASSUME Typed, OneHolder, StaysQueued, Kept, cause = {}, cause' = {}, [Next]_vars
    PROVE  Held'
<1>1. CASE PopItem
  BY <1>1, KeptPop
<1>2. CASE rotateCredential
  BY <1>2, KeptTick
<1>3. ASSUME NEW p \in Procs, setStaticAccount(p) PROVE Held'
  BY <1>3, KeptUseWAL, KeptUpdateUser, KeptStore, KeptDeleteWAL DEF setStaticAccount
<1>4. CASE Requests
  BY <1>4, KeptWrite, KeptDeleteRole, KeptRotateRole DEF Requests
<1>5. CASE initQueue
  BY <1>5, KeptInit
<1>6. CASE BackoffEnds \/ PeriodEnds
  <2>1. (\E from : TimePasses(from)) /\ UNCHANGED gen
    BY <1>6 DEF BackoffEnds, PeriodEnds, TimePasses
  <2>. QED
    BY <2>1, KeptTime
<1>7. CASE LateCall
  BY <1>7, KeptLateCall
<1>8. CASE Crash
  BY <1>8, KeptCrash
<1>9. CASE UNCHANGED vars
  BY <1>9, KeptApart DEF vars
<1>. QED
  BY <1>1, <1>2, <1>3, <1>4, <1>5, <1>6, <1>7, <1>8, <1>9 DEF Next

LEMMA KeptNext ==
    Typed /\ QueueInv /\ (cause = {} => Kept) /\ [Next]_vars => (cause' = {} => Kept')
<1>. SUFFICES ASSUME Typed, QueueInv, cause = {} => Kept, [Next]_vars, cause' = {}
              PROVE  Kept'
  OBVIOUS
<1>1. cause = {} /\ Kept /\ OneHolder /\ StaysQueued
  BY CauseGrows DEF QueueInv
<1>. QED
  BY <1>1, SoundNext, HeldNext DEF Kept

LEMMA KeptAlways == Spec => [](cause = {} => Kept)
<1>1. Init => Kept
  <2>. SUFFICES ASSUME Init PROVE Kept
    OBVIOUS
  <2>1. /\ queue = {} /\ wals = {} /\ late = {} /\ db = 0
        /\ \A p \in Procs : rot[p].pc = "idle"
        /\ role = NoRole \/ role.pw = db
        /\ write.pc = "idle"
    BY NoWriteIdle DEF Init, Idle
  <2>2. OnePlace /\ \A p \in Procs : InRotation(rot[p])
    BY <2>1 DEF OnePlace, Rotating, Sections, Procs, InRotation
  <2>3. Recoverable /\ Traceable
    BY <2>1 DEF Recoverable, Traceable, Accepted
  <2>4. WriteSound
    BY <2>1 DEF WriteSound, CreatesRole, CopySound, NotYetQueued, Procs, Sections
  <2>. QED
    BY <2>1, <2>2, <2>3, <2>4 DEF Kept, Held
<1>2. Typed /\ QueueInv /\ (cause = {} => Kept) /\ [Next]_vars => (cause = {} => Kept)'
  BY KeptNext
<1>. QED
  BY <1>1, <1>2, TypedAlways, QueuedAlways, PTL DEF Spec

\* Whichever call fails, whichever call lands late and whenever Vault crashes,
\* however many rotations, updates, deletions and re-creations there were: as
\* long as none of the named causes occurred (an update or a creation over what
\* was stored meanwhile among them), the password the database accepts is the
\* stored one or that of a WAL in storage.
THEOREM CredentialsKept == Spec => []CredentialKept
<1>1. (cause = {} => Kept) => CredentialKept
  BY DEF Kept, Held, CredentialKept
<1>. QED
  BY <1>1, KeptAlways, PTL

=============================================================================
