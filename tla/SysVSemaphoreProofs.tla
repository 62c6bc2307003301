------------------------- MODULE SysVSemaphoreProofs -------------------------
(***************************************************************************)
(* For every set of processes, every initial value and every number of     *)
(* kernel sets, the lock, the counter of processes and the value of        *)
(* lib/semaph.c stay right through kills at any point, and sem_close does  *)
(* not remove a set under a handle that sem_create returned.               *)
(***************************************************************************)
EXTENDS SysVSemaphore, CountingProofs

\* What a process is for the set that exists: where it is in the library, or "out"
\* when its handle is not of this set.
Place(p) == IF Live(id[p]) THEN pc[p] ELSE "out"
Role == [p \in Procs |-> Place(p)]

\* What the kernel takes back when a process at r ends.
Undo(r) == [k \in Members |-> IF k = 0 THEN (IF r = "hold" THEN 1 ELSE 0)
                              ELSE IF k = 1 THEN (IF r \in Using THEN 1 ELSE 0)
                              ELSE (IF r \in Locked THEN -1 ELSE 0)]

\* Handles: a set's number is not above the last one's, a process has a handle
\* exactly when it is not idle, and err_dump is not reached.
Handles ==
    /\ exists => gen > 0
    /\ ~exists => sem = NoAdj
    /\ \A p \in Procs : /\ id[p] <= gen
                        /\ pc[p] # "idle" => id[p] > 0
                        /\ pc[p] = "idle" => id[p] = 0
                        /\ pc[p] = "o_dec" => how[p] = "open"
                        /\ pc[p] # "dump"

\* The adjustments are what the places say, and the three members add up.
Accounts ==
    /\ \A p \in Procs : adj[p] = Undo(Role[p])
    /\ sem[2] = HowMany(Role, Locked) /\ sem[2] <= 1
    /\ \/ sem[1] = 0 /\ HowMany(Role, Using) = 0
       \/ sem[1] = BIGCOUNT - HowMany(Role, Using)
    /\ sem[1] # 0 => sem[0] + HowMany(Role, {"hold"}) = initval
    /\ \A p \in Procs : /\ Role[p] \in {"c_set0", "c_set1"} => sem[1] = 0
                        /\ Role[p] = "c_set1" => sem[0] = initval
                        /\ Role[p] = "c_end" => sem[1] # 0

\* While a process is about to remove the set in sem_close, only processes that came
\* through sem_open, which takes no lock, can have started to use it.
Closing == \A p, q \in Procs : Role[p] = "k_rm" /\ Role[q] \in Using => how[q] = "open"

IInv == TypeOK /\ Handles /\ Accounts /\ Closing /\ CreatedHandleAlive
-----------------------------------------------------------------------------
\* The type invariant is kept by every step.
LEMMA TypeStep ==
    ASSUME TypeOK, [Next]_vars
    PROVE  TypeOK'
<1> USE DEF TypeOK
<1>i. 0 \in SetIds /\ (gen < MaxSets => gen + 1 \in SetIds)
  BY MaxSetsAssumption DEF SetIds
<1>1. CASE UNCHANGED vars
  BY <1>1 DEF vars
\* What Goto leaves.
<1>g. ASSUME NEW p \in Procs, NEW v \in PCs, Goto(p, v)
      PROVE  /\ pc' \in [Procs -> PCs]
             /\ id' \in [Procs -> SetIds]
             /\ how' \in [Procs -> {"none", "create", "open"}]
  <2>1. CASE v = "idle"
    BY <1>g, <2>1, <1>i DEF Goto
  <2>2. CASE v # "idle"
    BY <1>g, <2>2 DEF Goto
  <2> QED  BY <2>1, <2>2
<1>s. ASSUME NEW p \in Procs, NEW op, NEW ok \in PCs, NEW einval \in PCs, NEW eidrm \in PCs,
             op.add \in [Members -> Int], semop(p, op, ok, einval, eidrm)
      PROVE  TypeOK'
  <2>1. \/ Goto(p, ok) \/ Goto(p, einval) \/ Goto(p, eidrm) \/ UNCHANGED <<pc, id, how>>
    BY <1>s DEF semop, Exit
  <2>2. /\ pc' \in [Procs -> PCs]
        /\ id' \in [Procs -> SetIds]
        /\ how' \in [Procs -> {"none", "create", "open"}]
    BY <2>1, <1>g
  <2>3. sem' \in [Members -> Nat] /\ adj' \in [Procs -> [Members -> Int]]
    <3>1. CASE UNCHANGED <<sem, adj>>
      BY <3>1
    <3>2. CASE ~UNCHANGED <<sem, adj>>
      <4>1. /\ \A k \in Members : sem[k] + op.add[k] >= 0
            /\ sem' = [k \in Members |-> sem[k] + op.add[k]]
            /\ adj' = [adj EXCEPT ![p] = [k \in Members |->
                            IF k \in op.undo THEN adj[p][k] - op.add[k] ELSE adj[p][k]]]
        BY <1>s, <3>2 DEF semop
      <4>2. \A k \in Members : sem[k] \in Nat /\ op.add[k] \in Int /\ adj[p][k] \in Int
        BY <1>s
      <4>3. sem' \in [Members -> Nat]
        BY <4>1, <4>2
      <4>4. [k \in Members |-> IF k \in op.undo THEN adj[p][k] - op.add[k] ELSE adj[p][k]]
                \in [Members -> Int]
        BY <4>2
      <4> QED  BY <4>1, <4>3, <4>4
    <3> QED  BY <3>1, <3>2
  <2>4. asleep' \in [Procs -> BOOLEAN] /\ UNCHANGED <<gen, exists, removed>>
    BY <1>s DEF semop, Exit
  <2> QED  BY <2>2, <2>3, <2>4
<1>o. /\ op_lock.add \in [Members -> Int] /\ op_endcreate.add \in [Members -> Int]
      /\ op_open.add \in [Members -> Int] /\ op_close.add \in [Members -> Int]
      /\ op_unlock.add \in [Members -> Int]
      /\ op_op(-1).add \in [Members -> Int] /\ op_op(1).add \in [Members -> Int]
  BY DEF op_lock, op_endcreate, op_open, op_close, op_unlock, op_op, Plus, Members
<1>c. ASSUME NEW p \in Procs, NEW v \in PCs, semctl(p, v),
             sem' \in [Members -> Nat], adj' \in [Procs -> [Members -> Int]]
      PROVE  TypeOK'
  <2>1. \/ Goto(p, v) \/ Goto(p, "err_use")
    BY <1>c DEF semctl
  <2>2. "err_use" \in PCs  BY DEF PCs, Ended
  <2> QED  BY <1>c, <2>1, <2>2, <1>g DEF semctl
<1>2. ASSUME NEW p \in Procs, sem_create(p) \/ CreateAgain(p)
      PROVE  TypeOK'
  <2>1. "c_lock" \in PCs  BY DEF PCs
  <2>2. semget(p)
    BY <1>2 DEF sem_create, CreateAgain
  <2>3. gen' \in SetIds
    BY <2>2, <1>i DEF semget
  <2>4. exists' \in BOOLEAN /\ UNCHANGED <<sem, adj, removed, asleep>>
    BY <2>2 DEF semget
  <2>5. /\ id' \in [Procs -> SetIds] /\ how' \in [Procs -> {"none", "create", "open"}]
        /\ pc' \in [Procs -> PCs]
    BY <2>1, <2>2, <2>3 DEF semget
  <2> QED  BY <2>3, <2>4, <2>5
<1>3. ASSUME NEW p \in Procs,
             \/ CreateLock(p) \/ CreateEnd(p) \/ OpenDec(p) \/ sem_wait(p)
             \/ sem_signal(p) \/ CloseLock(p) \/ CloseUnlock(p)
      PROVE  TypeOK'
  <2>1. CASE CreateLock(p)  BY <2>1, <1>s, <1>o DEF CreateLock, PCs, Ended
  <2>2. CASE CreateEnd(p)  BY <2>2, <1>s, <1>o DEF CreateEnd, PCs, Ended
  <2>3. CASE OpenDec(p)  BY <2>3, <1>s, <1>o DEF OpenDec, PCs, Ended
  <2>4. CASE sem_wait(p)  BY <2>4, <1>s, <1>o DEF sem_wait, PCs, Ended
  <2>5. CASE sem_signal(p)  BY <2>5, <1>s, <1>o DEF sem_signal, PCs, Ended
  <2>6. CASE CloseLock(p)  BY <2>6, <1>s, <1>o DEF CloseLock, PCs, Ended
  <2>7. CASE CloseUnlock(p)  BY <2>7, <1>s, <1>o DEF CloseUnlock, PCs, Ended
  <2> QED  BY <1>3, <2>1, <2>2, <2>3, <2>4, <2>5, <2>6, <2>7
<1>4. ASSUME NEW p \in Procs,
             CreateGetval(p) \/ CreateSet0(p) \/ CreateSet1(p) \/ CloseGetval(p)
      PROVE  TypeOK'
  <2>1. sem' \in [Members -> Nat] /\ adj' \in [Procs -> [Members -> Int]]
    <3>1. ASSUME NEW k \in Members, NEW n \in Nat, SETVAL(k, n)
          PROVE  sem' \in [Members -> Nat] /\ adj' \in [Procs -> [Members -> Int]]
      <4>1. sem' \in [Members -> Nat]
        BY <3>1 DEF SETVAL
      <4>2. \A q \in Procs : [adj[q] EXCEPT ![k] = 0] \in [Members -> Int]
        OBVIOUS
      <4> QED  BY <3>1, <4>1, <4>2 DEF SETVAL
    <3>2. \/ UNCHANGED <<sem, adj>> \/ SETVAL(0, initval) \/ SETVAL(1, BIGCOUNT)
      BY <1>4 DEF CreateGetval, CreateSet0, CreateSet1, CloseGetval
    <3> QED  BY <3>1, <3>2, InitvalAssumption, BigcountAssumption DEF Members
  <2>2. \E v \in PCs : semctl(p, v)
    BY <1>4 DEF CreateGetval, CreateSet0, CreateSet1, CloseGetval, PCs, Ended
  <2> QED  BY <2>1, <2>2, <1>c
<1>p. {"idle", "o_dec", "w_op", "k_lock", "err_use"} \subseteq PCs
  BY DEF PCs, Ended
<1>z. NoAdj \in [Members -> Nat] /\ NoAdj \in [Members -> Int]
  BY DEF NoAdj
<1>5. ASSUME NEW p \in Procs,
             sem_open(p) \/ Call(p, "w_op") \/ Call(p, "k_lock") \/ Restart(p)
      PROVE  TypeOK'
  <2>1. CASE sem_open(p)
    BY <2>1, <1>p DEF sem_open, kernel
  <2>2. CASE Call(p, "w_op") \/ Call(p, "k_lock") \/ Restart(p)
    BY <2>2, <1>g, <1>p DEF Call, Restart, kernel
  <2> QED  BY <1>5, <2>1, <2>2
<1>6. ASSUME NEW p \in Procs, CloseRm(p) \/ sem_rm(p)
      PROVE  TypeOK'
  <2>1. Goto(p, "idle") \/ Goto(p, "err_use")
    BY <1>6 DEF CloseRm, sem_rm
  <2> QED  BY <1>6, <2>1, <1>g, <1>p, <1>z DEF CloseRm, sem_rm, IPC_RMID, kernel
<1>7. ASSUME NEW p \in Procs, Kill(p)
      PROVE  TypeOK'
  <2>1. \A k \in Members : sem[k] \in Nat /\ adj[p][k] \in Int
    OBVIOUS
  <2>2. sem' \in [Members -> Nat]
    BY <1>7, <2>1 DEF Kill
  <2>3. adj' \in [Procs -> [Members -> Int]]
    BY <1>7, <1>z DEF Kill
  <2>4. Goto(p, "idle") /\ asleep' \in [Procs -> BOOLEAN] /\ UNCHANGED <<gen, exists, removed>>
    BY <1>7 DEF Kill, Exit
  <2> QED  BY <2>2, <2>3, <2>4, <1>g, <1>p
<1> QED
  BY <1>1, <1>2, <1>3, <1>4, <1>5, <1>6, <1>7 DEF Next, Client, Library
-----------------------------------------------------------------------------
\* Two processes never have the lock.
LEMMA LockAlone ==
    ASSUME Accounts, NEW p \in Procs, NEW q \in Procs, Role[p] \in Locked, Role[q] \in Locked
    PROVE  p = q
<1> SUFFICES ASSUME p # q PROVE FALSE
  OBVIOUS
<1>1. DOMAIN Role = Procs
  BY DEF Role
<1>2. HowMany(Role, Locked) > 1
  BY <1>1, ProcsAssumption, HowManyTwo
<1>3. HowMany(Role, Locked) \in Nat
  BY <1>1, ProcsAssumption, HowManyNat
<1> QED  BY <1>2, <1>3 DEF Accounts

\* Before the counter is initialised nobody uses the semaphore.
LEMMA NoneUsing ==
    ASSUME Accounts, sem[1] = 0, NEW p \in Procs
    PROVE  Role[p] \notin Using
<1> SUFFICES ASSUME Role[p] \in Using PROVE FALSE
  OBVIOUS
<1>1. DOMAIN Role = Procs
  BY DEF Role
<1>2. HowMany(Role, Using) \in Nat /\ HowMany(Role, Using) > 0
  BY <1>1, ProcsAssumption, HowManyNat, HowManyPositive
<1>3. HowMany(Role, Using) <= Cardinality(Procs) /\ Cardinality(Procs) \in Nat
  BY <1>1, ProcsAssumption, HowManyBound, FS_CardinalityType
<1> QED  BY <1>2, <1>3, BigcountAssumption DEF Accounts

\* The accounts stay right when one process goes from one place to another and the
\* members change by what the kernel would undo.
LEMMA AccountMove ==
    ASSUME TypeOK, Accounts, NEW p \in Procs, NEW v,
           Role' = Move(Role, p, v), adj' = Move(adj, p, Undo(v)),
           sem' \in [Members -> Nat],
           \A k \in Members : sem'[k] = sem[k] + Undo(Role[p])[k] - Undo(v)[k],
           v \in Locked /\ Role[p] \notin Locked => sem[2] = 0,
           v \in {"c_set0", "c_set1"} => sem[1] = 0,
           v = "c_set1" => sem[0] = initval,
           v = "c_end" => sem[1] # 0
    PROVE  Accounts'
<1> DEFINE u == Role[p]
           nl == HowMany(Role, Locked)
           nu == HowMany(Role, Using)
           nh == HowMany(Role, {"hold"})
<1>0. DOMAIN Role = Procs
  BY DEF Role
<1>1. nl \in Nat /\ nu \in Nat /\ nh \in Nat
  BY <1>0, ProcsAssumption, HowManyNat
<1>2. nh <= nu /\ nu <= Cardinality(Procs) /\ Cardinality(Procs) \in Nat
  BY <1>0, ProcsAssumption, HowManyBound, HowManySubset, FS_CardinalityType DEF Using
<1>3. /\ sem[0] \in Nat /\ sem[1] \in Nat /\ sem[2] \in Nat
      /\ sem'[0] \in Nat /\ sem'[1] \in Nat /\ sem'[2] \in Nat
  BY DEF TypeOK, Members
<1>4. /\ sem'[0] = sem[0] + (IF u = "hold" THEN 1 ELSE 0) - (IF v = "hold" THEN 1 ELSE 0)
      /\ sem'[1] = sem[1] + (IF u \in Using THEN 1 ELSE 0) - (IF v \in Using THEN 1 ELSE 0)
      /\ sem'[2] = sem[2] - (IF u \in Locked THEN 1 ELSE 0) + (IF v \in Locked THEN 1 ELSE 0)
  BY <1>3 DEF Undo, Members
<1>5. /\ HowMany(Role', Locked) = nl - (IF u \in Locked THEN 1 ELSE 0)
                                     + (IF v \in Locked THEN 1 ELSE 0)
      /\ HowMany(Role', Using) = nu - (IF u \in Using THEN 1 ELSE 0)
                                    + (IF v \in Using THEN 1 ELSE 0)
      /\ HowMany(Role', {"hold"}) = nh - (IF u = "hold" THEN 1 ELSE 0)
                                       + (IF v = "hold" THEN 1 ELSE 0)
  <2> HIDE DEF nl, nu, nh, u
  <2>1. /\ HowMany(Role', Locked) = nl - (IF u \in Locked THEN 1 ELSE 0)
                                     + (IF v \in Locked THEN 1 ELSE 0)
    BY <1>0, <1>1, ProcsAssumption, HowManyMove DEF nl, u
  <2>2. HowMany(Role', Using) = nu - (IF u \in Using THEN 1 ELSE 0)
                                    + (IF v \in Using THEN 1 ELSE 0)
    BY <1>0, <1>1, ProcsAssumption, HowManyMove DEF nu, u
  <2>3. HowMany(Role', {"hold"}) = nh - (IF u = "hold" THEN 1 ELSE 0)
                                       + (IF v = "hold" THEN 1 ELSE 0)
    <3> DEFINE H == {"hold"}
    <3>1. /\ u = "hold" <=> u \in H
          /\ v = "hold" <=> v \in H
      OBVIOUS
    <3> HIDE DEF H
    <3>2. nh = HowMany(Role, H) /\ HowMany(Role', {"hold"}) = HowMany(Role', H)
      BY DEF H, nh
    <3>3. HowMany(Role', H) = HowMany(Role, H) - (IF u \in H THEN 1 ELSE 0)
                                               + (IF v \in H THEN 1 ELSE 0)
      BY <1>0, <1>1, <3>2, ProcsAssumption, HowManyMove DEF u
    <3> QED  BY <3>1, <3>2, <3>3
  <2> QED  BY <2>1, <2>2, <2>3
<1>6. /\ sem[2] = nl /\ sem[2] <= 1
      /\ (sem[1] = 0 /\ nu = 0) \/ sem[1] = BIGCOUNT - nu
      /\ sem[1] # 0 => sem[0] + nh = initval
  BY DEF Accounts
<1>7. sem[1] = 0 => u \notin Using
  BY NoneUsing
<1>h. u = "hold" => u \in Using
  BY DEF Using
<1>k. v = "hold" => v \in Using
  BY DEF Using
<1>b. BIGCOUNT \in Nat /\ BIGCOUNT > Cardinality(Procs) /\ initval \in Nat
  BY BigcountAssumption, InitvalAssumption
<1>q. HowMany(Role', Using) <= Cardinality(Procs) /\ HowMany(Role', Using) \in Nat
  <2>1. DOMAIN Role' = Procs  BY <1>0 DEF Move
  <2> QED  BY <2>1, ProcsAssumption, HowManyBound, HowManyNat
<1> DEFINE nl2 == HowMany(Role', Locked)
           nu2 == HowMany(Role', Using)
           nh2 == HowMany(Role', {"hold"})
<1>8. sem'[2] = nl2 /\ sem'[2] <= 1
  <2> HIDE DEF nl, nl2, u
  <2> QED  BY <1>1, <1>3, <1>4, <1>5, <1>6 DEF u, nl2
<1>9. /\ (sem'[1] = 0 /\ nu2 = 0) \/ sem'[1] = BIGCOUNT - nu2
      /\ sem[1] = 0 => sem'[1] = 0 /\ u \notin Using /\ v \notin Using
      /\ sem[1] # 0 => sem'[1] # 0
  <2> HIDE DEF nu, nu2, u
  <2>4. sem'[1] = sem[1] + (IF u \in Using THEN 1 ELSE 0) - (IF v \in Using THEN 1 ELSE 0)
    BY <1>4
  <2>5. nu2 = nu - (IF u \in Using THEN 1 ELSE 0) + (IF v \in Using THEN 1 ELSE 0)
    BY <1>5 DEF nu2
  <2>1. CASE sem[1] = 0
    BY <2>1, <2>4, <2>5, <1>1, <1>3, <1>6, <1>7, <1>b, <1>2
  <2>2. CASE sem[1] # 0
    BY <2>2, <2>4, <2>5, <1>1, <1>3, <1>6, <1>b, <1>q, <1>2 DEF nu2
  <2> QED  BY <2>1, <2>2
<1>10. /\ sem'[1] # 0 => sem'[0] + nh2 = initval
       /\ sem[1] = 0 => sem'[0] = sem[0]
  <2> HIDE DEF nh, nh2, u
  <2> QED  BY <1>1, <1>3, <1>4, <1>5, <1>6, <1>9, <1>b, <1>h, <1>k DEF nh2
<1>11. \A q \in Procs : adj'[q] = Undo(Role'[q])
  BY <1>0 DEF Accounts, Move, TypeOK
<1>12. ASSUME NEW q \in Procs
       PROVE  /\ Role'[q] \in {"c_set0", "c_set1"} => sem'[1] = 0
              /\ Role'[q] = "c_set1" => sem'[0] = initval
              /\ Role'[q] = "c_end" => sem'[1] # 0
  <2>1. Role'[q] = IF q = p THEN v ELSE Role[q]
    BY <1>0 DEF Move
  <2> QED  BY <2>1, <1>9, <1>10 DEF Accounts
<1> QED  BY <1>8, <1>9, <1>10, <1>11, <1>12 DEF Accounts

\* The handles stay right when a process that has one goes on, or gives it up; a
\* process starts to use the semaphore from under the lock or through sem_open, and
\* decides to remove the set when nobody uses it.
LEMMA GotoStep ==
    ASSUME IInv, NEW p \in Procs, NEW v \in PCs, Goto(p, v), UNCHANGED <<gen, exists, removed>>,
           ~exists => sem' = NoAdj,
           pc[p] # "idle", v \notin {"dump", "o_dec"},
           v \in Using => \/ pc[p] \in Using
                          \/ Live(id[p]) /\ pc[p] \in Locked \cup {"o_dec"},
           v = "k_rm" => \A q \in Procs : Role[q] \notin Using
    PROVE  /\ Role' = Move(Role, p, IF Live(id[p]) /\ v # "idle" THEN v ELSE "out")
           /\ Handles' /\ Closing' /\ CreatedHandleAlive'
<1> DEFINE w == IF Live(id[p]) /\ v # "idle" THEN v ELSE "out"
<1>1. /\ pc \in [Procs -> PCs] /\ id \in [Procs -> SetIds]
      /\ how \in [Procs -> {"none", "create", "open"}]
      /\ \A q \in Procs : id[q] \in Nat
      /\ gen \in Nat
  BY MaxSetsAssumption DEF IInv, TypeOK, SetIds
<1>2. /\ pc'[p] = v
      /\ id'[p] = IF v = "idle" THEN 0 ELSE id[p]
      /\ how'[p] = IF v = "idle" THEN "none" ELSE how[p]
  BY <1>1 DEF Goto
<1>3. ASSUME NEW q \in Procs, q # p
      PROVE  pc'[q] = pc[q] /\ id'[q] = id[q] /\ how'[q] = how[q]
  BY <1>1, <1>3 DEF Goto
<1>4. \A q \in Procs : Role[q] = Place(q) /\ Role'[q] = Place(q)'
  BY DEF Role
<1>5. Role'[p] = w
  BY <1>1, <1>2, <1>4 DEF Place, Live, IInv, Handles
<1>6. \A q \in Procs : q # p => Role'[q] = Role[q]
  BY <1>3, <1>4 DEF Place, Live
<1>7. Role' = Move(Role, p, w)
  <2>1. DOMAIN Role' = Procs /\ DOMAIN Role = Procs
    BY DEF Role
  <2>2. Role' = [q \in Procs |-> Role'[q]]
    BY DEF Role
  <2>3. Move(Role, p, w) = [q \in Procs |-> IF q = p THEN w ELSE Role[q]]
    BY <2>1 DEF Move
  <2> HIDE DEF w
  <2> QED  BY <2>2, <2>3, <1>5, <1>6
<1>8. Handles'
  BY <1>1, <1>2, <1>3 DEF IInv, Handles
<1>9. Closing'
  <2> SUFFICES ASSUME NEW a \in Procs, NEW b \in Procs, Role'[a] = "k_rm", Role'[b] \in Using
               PROVE  how'[b] = "open"
    BY DEF Closing
  <2>0. {"idle", "out", "k_rm"} \cap Using = {} /\ "k_rm" \in Locked
    BY DEF Using, Locked
  <2>1. CASE b # p /\ a # p
    BY <2>1, <1>3, <1>6 DEF IInv, Closing
  <2>2. CASE b # p /\ a = p
    BY <2>2, <1>5, <1>6
  <2>3. CASE b = p
    <3>1. Live(id[p]) /\ v # "idle" /\ v \in Using /\ a # p
      BY <2>0, <2>3, <1>5
    <3>2. Role[a] = "k_rm" /\ Role[p] = pc[p] /\ how'[p] = how[p]
      BY <3>1, <1>2, <1>4, <1>6 DEF Place
    <3>3. CASE pc[p] \in Using
      BY <2>3, <3>2, <3>3 DEF IInv, Closing
    <3>4. CASE pc[p] \in Locked
      BY <2>0, <3>1, <3>2, <3>4, LockAlone DEF IInv
    <3>5. CASE pc[p] = "o_dec"
      BY <2>3, <3>2, <3>5 DEF IInv, Handles
    <3> QED  BY <3>1, <3>3, <3>4, <3>5
  <2> QED  BY <2>1, <2>2, <2>3
<1>10. CreatedHandleAlive'
  <2> SUFFICES ASSUME NEW q \in Procs, pc'[q] \in Using, how'[q] = "create", ~Live(id[q])'
               PROVE  removed'[id'[q]] = "rm"
    BY DEF CreatedHandleAlive
  <2>1. CASE q # p
    BY <2>1, <1>3 DEF IInv, CreatedHandleAlive, Live
  <2>2. CASE q = p
    <3>1. v # "idle"
      BY <2>2, <1>2 DEF Using
    <3> QED  BY <2>2, <3>1, <1>2 DEF IInv, CreatedHandleAlive, Live
  <2> QED  BY <2>1, <2>2
<1> QED  BY <1>7, <1>8, <1>9, <1>10

\* A step in which no process changes its place and the kernel does nothing.
LEMMA AccountSame ==
    ASSUME Accounts, Role' = Role, UNCHANGED <<sem, adj>>
    PROVE  Accounts'
BY DEF Accounts

\* A process whose set is gone goes on: the accounts are of the set that exists.
LEMMA DeadStep ==
    ASSUME IInv, NEW p \in Procs, ~Live(id[p]), UNCHANGED <<sem, adj>>,
           Role' = Move(Role, p, "out")
    PROVE  Accounts'
<1>1. Role' = Role
  BY DEF Role, Place, Move
<1> QED  BY <1>1, AccountSame DEF IInv

\* An array of operations takes a process from one place to another: it adds what is
\* then to be undone, and waits for member 2 before it takes the lock.
Fits(op, from, to) ==
    /\ \A k \in Members : /\ op.add[k] = Undo(from)[k] - Undo(to)[k]
                          /\ op.add[k] # 0 => k \in op.undo
    /\ to \in Locked /\ from \notin Locked => 2 \in op.zero

\* semop keeps the invariant when its array fits and its errors end the process or
\* start it again.
LEMMA SemopStep ==
    ASSUME IInv, NEW p \in Procs, NEW op, NEW ok \in PCs, NEW einval \in PCs, NEW eidrm \in PCs,
           semop(p, op, ok, einval, eidrm),
           pc[p] # "idle", ok \notin {"dump", "o_dec", "k_rm", "c_set0", "c_set1", "c_end", "out"},
           einval \in {"c_again", "err_lock", "err_open", "err_use"},
           eidrm \in {"c_again", "err_lock", "err_open", "err_use"},
           ok \in Using => pc[p] \in Using \cup Locked \cup {"o_dec"},
           Fits(op, pc[p], ok)
    PROVE  Handles' /\ Accounts' /\ Closing' /\ CreatedHandleAlive'
<1>f. /\ \A k \in Members : /\ op.add[k] = Undo(pc[p])[k] - Undo(ok)[k]
                            /\ op.add[k] # 0 => k \in op.undo
      /\ ok \in Locked /\ pc[p] \notin Locked => 2 \in op.zero
  BY DEF Fits
<1>1. CASE Live(id[p]) /\ ~asleep[p] /\ asleep'[p] /\ UNCHANGED <<sem, adj, pc, id, how>>
  <2>1. Role' = Role /\ UNCHANGED <<gen, exists, removed>>
    BY <1>1 DEF Role, Place, Live, semop
  <2>2. Accounts'
    BY <1>1, <2>1, AccountSame DEF IInv
  <2> QED  BY <1>1, <2>1, <2>2 DEF IInv, Handles, Closing, CreatedHandleAlive, Live
<1>2. CASE ~Live(id[p])
  <2>1. /\ \E v \in {"c_again", "err_lock", "err_open", "err_use"} : Goto(p, v)
        /\ UNCHANGED <<sem, adj, gen, exists, removed>>
    BY <1>2 DEF semop, Exit
  <2>2. PICK v \in {"c_again", "err_lock", "err_open", "err_use"} : Goto(p, v)
    BY <2>1
  <2>3. v \in PCs /\ v \notin Using /\ v \notin {"dump", "o_dec", "k_rm", "idle"}
    BY DEF PCs, Ended, Using
  <2>4. ~exists => sem' = NoAdj
    BY <2>1 DEF IInv, Handles
  <2>5. /\ Role' = Move(Role, p, "out")
        /\ Handles' /\ Closing' /\ CreatedHandleAlive'
    BY <1>2, <2>1, <2>2, <2>3, <2>4, GotoStep
  <2> QED  BY <1>2, <2>1, <2>5, DeadStep
<1>3. CASE /\ Live(id[p]) /\ Goto(p, ok)
           /\ \A k \in Members : sem[k] + op.add[k] >= 0
           /\ \A k \in op.zero : sem[k] = 0
           /\ sem' = [k \in Members |-> sem[k] + op.add[k]]
           /\ adj' = [adj EXCEPT ![p] = [k \in Members |->
                         IF k \in op.undo THEN adj[p][k] - op.add[k] ELSE adj[p][k]]]
  <2> DEFINE w == IF ok # "idle" THEN ok ELSE "out"
  <2>1. UNCHANGED <<gen, exists, removed>> /\ exists
    BY <1>3 DEF semop, Live
  <2>2. /\ Role' = Move(Role, p, w)
        /\ Handles' /\ Closing' /\ CreatedHandleAlive'
    BY <1>3, <2>1, GotoStep
  <2>3. Role[p] = pc[p]
    BY <1>3 DEF Role, Place
  <2>4. Undo(ok) = Undo(w)
    BY DEF Undo, Using, Locked
  <2>5. \A k \in Members : Undo(pc[p])[k] \in Int /\ Undo(w)[k] \in Int
    BY DEF Undo
  <2>6. /\ w \in Locked /\ Role[p] \notin Locked => sem[2] = 0
        /\ w \notin {"c_set0", "c_set1", "c_end"}
    BY <1>3, <1>f, <2>3 DEF Locked
  <2>10. adj \in [Procs -> [Members -> Int]] /\ sem \in [Members -> Nat]
    BY DEF IInv, TypeOK
  <2> HIDE DEF w
  <2>7. \A k \in Members : adj[p][k] = Undo(pc[p])[k]
    BY <2>3 DEF IInv, Accounts
  <2>8. adj' = Move(adj, p, Undo(w))
    <3>1. [k \in Members |-> IF k \in op.undo THEN adj[p][k] - op.add[k] ELSE adj[p][k]]
            = [k \in Members |-> Undo(w)[k]]
      BY <1>f, <2>4, <2>5, <2>7
    <3>2. [k \in Members |-> Undo(w)[k]] = Undo(w)
      BY DEF Undo
    <3> QED  BY <1>3, <3>1, <3>2 DEF Move
  <2>9. \A k \in Members : sem'[k] = sem[k] + Undo(Role[p])[k] - Undo(w)[k]
    BY <1>3, <1>f, <2>3, <2>4, <2>5, <2>10
  <2>11. sem' \in [Members -> Nat]
    <3>1. \A k \in Members : sem[k] + op.add[k] \in Nat
      BY <1>3, <1>f, <2>4, <2>5, <2>10
    <3> QED  BY <1>3, <3>1
  <2>12. Accounts'
    BY <2>2, <2>6, <2>8, <2>9, <2>11, AccountMove DEF IInv
  <2> QED  BY <2>2, <2>12
<1>4. asleep \in [Procs -> BOOLEAN]
  BY DEF IInv, TypeOK
<1> QED  BY <1>1, <1>2, <1>3, <1>4 DEF semop, Exit

\* A process goes on without a change in the kernel, to a place where there is as much
\* to be undone.
LEMMA QuietMove ==
    ASSUME IInv, NEW p \in Procs, NEW v, Role' = Move(Role, p, v), UNCHANGED <<sem, adj>>,
           Undo(v) = Undo(Role[p]),
           v \in {"c_set0", "c_set1"} => sem[1] = 0,
           v = "c_set1" => sem[0] = initval,
           v = "c_end" => sem[1] # 0
    PROVE  Accounts'
<1>1. adj \in [Procs -> [Members -> Int]] /\ sem \in [Members -> Nat]
  BY DEF IInv, TypeOK
<1>2. adj' = Move(adj, p, Undo(v))
  BY <1>1 DEF IInv, Accounts, Move
<1>3. \A k \in Members : sem'[k] = sem[k] + Undo(Role[p])[k] - Undo(v)[k]
  <2>1. \A k \in Members : Undo(v)[k] \in Int
    BY DEF Undo
  <2> QED  BY <1>1, <2>1
<1>4. v \in Locked => Role[p] \in Locked
  BY DEF Undo, Members
<1> QED  BY <1>1, <1>2, <1>3, <1>4, AccountMove DEF IInv

\* The calls of semop, each with its array of operations.
LEMMA SemopActions ==
    ASSUME IInv, NEW p \in Procs,
           \/ CreateLock(p) \/ CreateEnd(p) \/ OpenDec(p) \/ sem_wait(p)
           \/ sem_signal(p) \/ CloseLock(p) \/ CloseUnlock(p)
    PROVE  Handles' /\ Accounts' /\ Closing' /\ CreatedHandleAlive'
<1> USE DEF PCs, Ended, Using, Locked
<1>f. /\ Fits(op_lock, "c_lock", "c_getval") /\ Fits(op_endcreate, "c_end", "open")
      /\ Fits(op_open, "o_dec", "open") /\ Fits(op_op(-1), "w_op", "hold")
      /\ Fits(op_op(1), "hold", "open") /\ Fits(op_close, "k_lock", "k_getval")
      /\ Fits(op_unlock, "k_unlock", "idle")
  BY DEF Fits, Undo, Plus, Members, op_lock, op_endcreate, op_open, op_op, op_close, op_unlock
<1>1. CASE CreateLock(p)  BY <1>1, <1>f, SemopStep DEF CreateLock
<1>2. CASE CreateEnd(p)  BY <1>2, <1>f, SemopStep DEF CreateEnd
<1>3. CASE OpenDec(p)  BY <1>3, <1>f, SemopStep DEF OpenDec
<1>4. CASE sem_wait(p)  BY <1>4, <1>f, SemopStep DEF sem_wait
<1>5. CASE sem_signal(p)  BY <1>5, <1>f, SemopStep DEF sem_signal
<1>6. CASE CloseLock(p)  BY <1>6, <1>f, SemopStep DEF CloseLock
<1>7. CASE CloseUnlock(p)  BY <1>7, <1>f, SemopStep DEF CloseUnlock
<1> QED  BY <1>1, <1>2, <1>3, <1>4, <1>5, <1>6, <1>7

\* sem_create's and sem_open's semget: a process gets a handle.
LEMMA GetStep ==
    ASSUME IInv, NEW p \in Procs, sem_create(p) \/ CreateAgain(p) \/ sem_open(p)
    PROVE  Handles' /\ Accounts' /\ Closing' /\ CreatedHandleAlive'
<1> DEFINE v == IF sem_open(p) THEN "o_dec" ELSE "c_lock"
<1>1. /\ pc \in [Procs -> PCs] /\ id \in [Procs -> SetIds]
      /\ how \in [Procs -> {"none", "create", "open"}]
      /\ \A q \in Procs : id[q] \in Nat /\ id[q] <= gen
      /\ gen \in Nat
  BY MaxSetsAssumption DEF IInv, TypeOK, SetIds, Handles
<1>2. /\ exists' /\ UNCHANGED <<sem, adj, removed>>
      /\ (exists /\ gen' = gen) \/ (~exists /\ gen' = gen + 1)
      /\ id' = [id EXCEPT ![p] = gen']
      /\ pc' = [pc EXCEPT ![p] = v]
      /\ how' = [how EXCEPT ![p] = IF v = "o_dec" THEN "open" ELSE "create"]
      /\ pc[p] \in {"idle", "c_again"}
  <2>1. CASE sem_open(p)
    BY <2>1 DEF sem_open, kernel, IInv, TypeOK
  <2>2. CASE ~sem_open(p)
    BY <2>2 DEF sem_create, CreateAgain, semget
  <2> QED  BY <2>1, <2>2
<1>3. ASSUME NEW q \in Procs, q # p
      PROVE  pc'[q] = pc[q] /\ id'[q] = id[q] /\ how'[q] = how[q]
  BY <1>1, <1>2, <1>3
<1>4. /\ pc'[p] = v /\ id'[p] = gen' /\ v \in {"o_dec", "c_lock"}
      /\ how'[p] = IF v = "o_dec" THEN "open" ELSE "create"
  BY <1>1, <1>2
<1> HIDE DEF v
<1>5. \A q \in Procs : Role[q] = Place(q) /\ Role'[q] = Place(q)'
  BY DEF Role
<1>6. Role'[p] = v
  BY <1>2, <1>4, <1>5 DEF Place, Live
<1>7. ASSUME NEW q \in Procs, q # p
      PROVE  Role'[q] = Role[q] /\ Live(id[q])' = Live(id[q])
  <2>1. Live(id[q])' = Live(id[q])
    BY <1>1, <1>2, <1>3, <1>7 DEF Live, IInv, TypeOK
  <2> QED  BY <1>3, <1>5, <1>7, <2>1 DEF Place
<1>8. Role' = Move(Role, p, v)
  <2>1. DOMAIN Role' = Procs /\ DOMAIN Role = Procs
    BY DEF Role
  <2>2. Role' = [q \in Procs |-> Role'[q]]
    BY DEF Role
  <2>3. Move(Role, p, v) = [q \in Procs |-> IF q = p THEN v ELSE Role[q]]
    BY <2>1 DEF Move
  <2> QED  BY <2>2, <2>3, <1>6, <1>7
<1>9. Accounts'
  <2>1. Undo(v) = Undo(Role[p])
    <3>1. Role[p] \in {"idle", "c_again", "out"}
      BY <1>2, <1>5 DEF Place
    <3> QED  BY <3>1, <1>4 DEF Undo, Using, Locked
  <2> QED  BY <1>2, <1>4, <1>8, <2>1, QuietMove
<1>10. Handles'
  <2>1. gen' > 0 /\ gen' \in Nat /\ gen <= gen'
    BY <1>1, <1>2 DEF IInv, Handles
  <2>2. ASSUME NEW q \in Procs
        PROVE  /\ id'[q] <= gen'
               /\ pc'[q] # "idle" => id'[q] > 0
               /\ pc'[q] = "idle" => id'[q] = 0
               /\ pc'[q] = "o_dec" => how'[q] = "open"
               /\ pc'[q] # "dump"
    BY <1>1, <1>3, <1>4, <2>1 DEF IInv, Handles
  <2> QED  BY <1>2, <2>1, <2>2 DEF Handles
<1>11. Closing'
  BY <1>3, <1>4, <1>6, <1>7 DEF IInv, Closing, Using
<1>12. CreatedHandleAlive'
  BY <1>2, <1>3, <1>4, <1>7 DEF IInv, CreatedHandleAlive, Using
<1> QED  BY <1>9, <1>10, <1>11, <1>12

\* The steps of sem_create and sem_close that only look at the counter.
LEMMA GetvalStep ==
    ASSUME IInv, NEW p \in Procs, CreateGetval(p) \/ CloseGetval(p)
    PROVE  Handles' /\ Accounts' /\ Closing' /\ CreatedHandleAlive'
<1>0. UNCHANGED kernel /\ pc[p] \in {"c_getval", "k_getval"}
  BY DEF CreateGetval, CloseGetval, semctl, kernel
<1>1. CASE ~Live(id[p])
  <2>1. Goto(p, "err_use")
    BY <1>1 DEF CreateGetval, CloseGetval, semctl
  <2>2. "err_use" \in PCs /\ "err_use" \notin Using
    BY DEF PCs, Ended, Using
  <2>3. /\ Role' = Move(Role, p, "out")
        /\ Handles' /\ Closing' /\ CreatedHandleAlive'
    BY <1>0, <1>1, <2>1, <2>2, GotoStep DEF kernel, IInv, Handles
  <2> QED  BY <1>0, <1>1, <2>3, DeadStep DEF kernel
<1>2. CASE Live(id[p])
  <2>1. /\ HowMany(Role, Using) \in Nat
        /\ (\E q \in Procs : Role[q] \in Using) => HowMany(Role, Using) > 0
    <3>1. DOMAIN Role = Procs  BY DEF Role
    <3> QED  BY <3>1, ProcsAssumption, HowManyNat, HowManyPositive
  <2>2. Role[p] = pc[p]
    BY <1>2 DEF Role, Place
  <2>3. sem[1] <= BIGCOUNT /\ (sem[1] = BIGCOUNT => \A q \in Procs : Role[q] \notin Using)
    BY <2>1, BigcountAssumption, NoneUsing DEF IInv, Accounts
  <2>4. \E v \in {"c_set0", "c_end", "k_rm", "k_unlock"} :
            /\ Goto(p, v)
            /\ v = "c_set0" => sem[1] = 0
            /\ v = "c_end" => sem[1] # 0
            /\ v = "k_rm" => \A q \in Procs : Role[q] \notin Using
    <3>1. CASE CreateGetval(p)
      BY <1>2, <3>1 DEF CreateGetval, semctl
    <3>2. CASE CloseGetval(p)
      <4>1. ~(sem[1] > BIGCOUNT)
        <5>1. sem[1] \in Nat  BY DEF IInv, TypeOK, Members
        <5> QED  BY <5>1, <2>3, BigcountAssumption
      <4> QED  BY <1>2, <2>3, <3>2, <4>1 DEF CloseGetval, semctl
    <3> QED  BY <3>1, <3>2
  <2>5. PICK v \in {"c_set0", "c_end", "k_rm", "k_unlock"} :
            /\ Goto(p, v)
            /\ v = "c_set0" => sem[1] = 0
            /\ v = "c_end" => sem[1] # 0
            /\ v = "k_rm" => \A q \in Procs : Role[q] \notin Using
    BY <2>4
  <2>6. v \in PCs /\ v \notin Using /\ v \notin {"idle", "dump", "o_dec", "c_set1"}
    BY DEF PCs, Using
  <2>7. /\ Role' = Move(Role, p, v)
        /\ Handles' /\ Closing' /\ CreatedHandleAlive'
    BY <1>0, <1>2, <2>5, <2>6, GotoStep DEF kernel, IInv, Handles
  <2>8. Undo(v) = Undo(Role[p])
    BY <1>0, <2>2 DEF Undo, Using, Locked
  <2>9. Accounts'
    BY <1>0, <2>5, <2>6, <2>7, <2>8, QuietMove DEF kernel
  <2> QED  BY <2>7, <2>9
<1> QED  BY <1>1, <1>2

\* The two SETVALs of sem_create, of which the second makes the semaphore usable.
LEMMA SetvalStep ==
    ASSUME IInv, NEW p \in Procs, CreateSet0(p) \/ CreateSet1(p)
    PROVE  Handles' /\ Accounts' /\ Closing' /\ CreatedHandleAlive'
<1> DEFINE v == IF pc[p] = "c_set0" THEN "c_set1" ELSE "c_end"
<1>1. CASE ~Live(id[p])
  <2>1. Goto(p, "err_use") /\ UNCHANGED kernel /\ pc[p] # "idle"
    BY <1>1 DEF CreateSet0, CreateSet1, semctl, kernel
  <2>2. "err_use" \in PCs /\ "err_use" \notin Using
    BY DEF PCs, Ended, Using
  <2>3. /\ Role' = Move(Role, p, "out")
        /\ Handles' /\ Closing' /\ CreatedHandleAlive'
    BY <1>1, <2>1, <2>2, GotoStep DEF kernel, IInv, Handles
  <2> QED  BY <1>1, <2>1, <2>3, DeadStep DEF kernel
<1>2. CASE Live(id[p])
  <2>0. /\ Goto(p, v) /\ UNCHANGED <<gen, exists, removed>> /\ exists
        /\ pc[p] \in {"c_set0", "c_set1"}
        /\ IF v = "c_set1" THEN SETVAL(0, initval) ELSE SETVAL(1, BIGCOUNT)
    BY <1>2 DEF CreateSet0, CreateSet1, semctl, Live
  <2>1. v \in {"c_set1", "c_end"} /\ (v = "c_set1" <=> pc[p] = "c_set0")
    OBVIOUS
  <2> HIDE DEF v
  <2>2. v \in PCs /\ v \notin Using /\ v \notin {"idle", "dump", "o_dec", "k_rm"}
    BY <2>1 DEF PCs, Using
  <2>3. /\ Role' = Move(Role, p, v)
        /\ Handles' /\ Closing' /\ CreatedHandleAlive'
    BY <1>2, <2>0, <2>2, GotoStep
  <2>4. /\ Role[p] = pc[p] /\ DOMAIN Role = Procs
        /\ sem \in [Members -> Nat] /\ adj \in [Procs -> [Members -> Int]]
    BY <1>2 DEF Role, Place, IInv, TypeOK
  <2>5. sem[1] = 0 /\ (pc[p] = "c_set1" => sem[0] = initval)
    BY <2>0, <2>4 DEF IInv, Accounts
  <2>6. \A q \in Procs : Role[q] \notin Using
    BY <2>5, NoneUsing DEF IInv
  <2>7. adj' = adj
    <3>1. \A q \in Procs : adj[q][0] = 0 /\ adj[q][1] = 0
      <4>1. \A q \in Procs : adj[q] = Undo(Role[q]) /\ Role[q] # "hold"
        BY <2>6 DEF IInv, Accounts, Using
      <4>2. \A r : r \notin Using /\ r # "hold" => Undo(r)[0] = 0 /\ Undo(r)[1] = 0
        BY DEF Undo, Members
      <4> QED  BY <2>6, <4>1, <4>2
    <3>2. \A q \in Procs, k \in {0, 1} : [adj[q] EXCEPT ![k] = 0] = adj[q]
      BY <2>4, <3>1 DEF Members
    <3>3. adj' = [q \in Procs |-> adj[q]]
      BY <2>0, <3>2 DEF SETVAL
    <3> QED  BY <2>4, <3>3
  <2>8. /\ HowMany(Role', Locked) = HowMany(Role, Locked)
        /\ HowMany(Role', Using) = HowMany(Role, Using)
    <3>1. pc[p] \in Locked /\ v \in Locked /\ pc[p] \notin Using
      BY <2>0, <2>1 DEF Locked, Using
    <3> QED  BY <2>2, <2>3, <2>4, <3>1, ProcsAssumption, HowManyMove
  <2>9. \A q \in Procs : Role'[q] = IF q = p THEN v ELSE Role[q]
    BY <2>3, <2>4 DEF Move
  <2>10. HowMany(Role, Using) = 0 /\ HowMany(Role', {"hold"}) = 0
    <3>1. HowMany(Role, Using) = 0
      BY <2>4, <2>6, HowManyWitness
    <3>2. \A q \in Procs : Role'[q] \notin {"hold"}
      BY <2>1, <2>6, <2>9 DEF Using
    <3>3. DOMAIN Role' = Procs
      BY DEF Role
    <3> QED  BY <3>1, <3>2, <3>3, HowManyWitness
  <2>11. \A q \in Procs : adj'[q] = Undo(Role'[q])
    <3>1. Undo(v) = Undo(pc[p])
      BY <2>0, <2>1 DEF Undo, Using, Locked
    <3> QED  BY <2>4, <2>7, <2>9, <3>1 DEF IInv, Accounts
  <2>12. \A q \in Procs : q # p => Role[q] \notin {"c_set0", "c_set1", "c_end"}
    <3>1. pc[p] \in Locked /\ {"c_set0", "c_set1", "c_end"} \subseteq Locked
      BY <2>0 DEF Locked
    <3> QED  BY <2>4, <3>1, LockAlone DEF IInv
  <2>13. /\ sem'[2] = sem[2]
         /\ v = "c_set1" => sem'[0] = initval /\ sem'[1] = 0
         /\ v = "c_end" => sem'[0] = initval /\ sem'[1] = BIGCOUNT
    BY <2>0, <2>1, <2>4, <2>5 DEF SETVAL, Members
  <2>14. Accounts'
    <3>1. sem'[2] = HowMany(Role', Locked) /\ sem'[2] <= 1
      BY <2>8, <2>13 DEF IInv, Accounts
    <3>2. \/ sem'[1] = 0 /\ HowMany(Role', Using) = 0
          \/ sem'[1] = BIGCOUNT - HowMany(Role', Using)
      BY <2>1, <2>8, <2>10, <2>13, BigcountAssumption
    <3>3. sem'[1] # 0 => sem'[0] + HowMany(Role', {"hold"}) = initval
      BY <2>1, <2>10, <2>13, InitvalAssumption
    <3>4. ASSUME NEW q \in Procs
          PROVE  /\ Role'[q] \in {"c_set0", "c_set1"} => sem'[1] = 0
                 /\ Role'[q] = "c_set1" => sem'[0] = initval
                 /\ Role'[q] = "c_end" => sem'[1] # 0
      <4>1. BIGCOUNT # 0
        BY BigcountAssumption, ProcsAssumption, FS_CardinalityType
      <4> QED  BY <2>1, <2>9, <2>12, <2>13, <4>1
    <3> QED  BY <2>11, <3>1, <3>2, <3>3, <3>4 DEF Accounts
  <2> QED  BY <2>3, <2>14
<1> QED  BY <1>1, <1>2

\* What a client does with its handle, and a new process in the place of one that
\* err_sys ended.
LEMMA CallStep ==
    ASSUME IInv, NEW p \in Procs, Call(p, "w_op") \/ Call(p, "k_lock") \/ Restart(p)
    PROVE  Handles' /\ Accounts' /\ Closing' /\ CreatedHandleAlive'
<1>1. PICK v \in {"w_op", "k_lock", "idle"} :
          /\ Goto(p, v) /\ UNCHANGED kernel /\ pc[p] # "idle"
          /\ v # "idle" => pc[p] = "open"
          /\ v = "idle" => pc[p] \in {"err_lock", "err_open", "err_use"}
  BY DEF Call, Restart
<1> DEFINE w == IF Live(id[p]) /\ v # "idle" THEN v ELSE "out"
<1>2. v \in PCs /\ (v \in Using => pc[p] \in Using) /\ v \notin {"dump", "o_dec", "k_rm"}
  BY <1>1 DEF PCs, Using
<1>3. /\ Role' = Move(Role, p, w)
      /\ Handles' /\ Closing' /\ CreatedHandleAlive'
  BY <1>1, <1>2, GotoStep DEF kernel, IInv, Handles
<1>4. Role[p] = IF Live(id[p]) THEN pc[p] ELSE "out"
  BY DEF Role, Place
<1>5. Undo(w) = Undo(Role[p]) /\ w \notin {"c_set0", "c_set1", "c_end"}
  BY <1>1, <1>4 DEF Undo, Using, Locked
<1>6. Accounts'
  BY <1>1, <1>3, <1>5, QuietMove DEF kernel
<1> QED  BY <1>3, <1>6

\* The removal of the set, by sem_close or by sem_rm.
LEMMA RemoveStep ==
    ASSUME IInv, NEW p \in Procs, CloseRm(p) \/ sem_rm(p)
    PROVE  Handles' /\ Accounts' /\ Closing' /\ CreatedHandleAlive'
<1>0. pc[p] \in {"k_rm", "open"}
  BY DEF CloseRm, sem_rm
<1>1. CASE ~Live(id[p])
  <2>1. Goto(p, "err_use") /\ UNCHANGED kernel
    BY <1>1 DEF CloseRm, sem_rm
  <2>2. "err_use" \in PCs /\ "err_use" \notin Using
    BY DEF PCs, Ended, Using
  <2>3. /\ Role' = Move(Role, p, "out")
        /\ Handles' /\ Closing' /\ CreatedHandleAlive'
    BY <1>0, <1>1, <2>1, <2>2, GotoStep DEF kernel, IInv, Handles
  <2> QED  BY <1>1, <2>1, <2>3, DeadStep DEF kernel
<1>2. CASE Live(id[p])
  <2> DEFINE by == IF pc[p] = "k_rm" THEN "close" ELSE "rm"
  <2>1. /\ pc' = [pc EXCEPT ![p] = "idle"] /\ id' = [id EXCEPT ![p] = 0]
        /\ how' = [how EXCEPT ![p] = "none"]
        /\ ~exists' /\ removed' = [removed EXCEPT ![gen] = by] /\ sem' = NoAdj
        /\ adj' = [q \in Procs |-> NoAdj] /\ gen' = gen /\ exists
    BY <1>2 DEF CloseRm, sem_rm, IPC_RMID, Goto, Live
  <2>2. /\ pc \in [Procs -> PCs] /\ id \in [Procs -> SetIds]
        /\ how \in [Procs -> {"none", "create", "open"}]
        /\ removed \in [1..MaxSets -> {"no", "close", "rm"}]
        /\ \A q \in Procs : id[q] \in 0..MaxSets /\ id[q] <= gen
        /\ gen \in 1..MaxSets
    BY <2>1, MaxSetsAssumption DEF IInv, TypeOK, SetIds, Handles
  <2>3. DOMAIN Role' = Procs /\ \A q \in Procs : Role'[q] = "out"
    BY <2>1 DEF Role, Place, Live
  <2>4. Undo("out") = NoAdj /\ "out" \notin Locked \cup Using \cup {"hold"}
    BY DEF Undo, NoAdj, Locked, Using
  <2>5. /\ HowMany(Role', Locked) = 0 /\ HowMany(Role', Using) = 0
        /\ HowMany(Role', {"hold"}) = 0
    BY <2>3, <2>4, HowManyWitness
  <2>6. sem'[0] = 0 /\ sem'[1] = 0 /\ sem'[2] = 0
    BY <2>1 DEF NoAdj, Members
  <2>7. Accounts'
    BY <2>1, <2>3, <2>4, <2>5, <2>6 DEF Accounts
  <2>8. ASSUME NEW q \in Procs
        PROVE  /\ q # p => pc'[q] = pc[q] /\ id'[q] = id[q] /\ how'[q] = how[q]
               /\ q = p => pc'[q] = "idle" /\ id'[q] = 0 /\ how'[q] = "none"
    BY <2>1, <2>2
  <2>9. Handles'
    BY <2>1, <2>2, <2>8 DEF IInv, Handles
  <2>10. Closing'
    BY <2>3 DEF Closing
  <2>11. CreatedHandleAlive'
    <3> SUFFICES ASSUME NEW q \in Procs, pc'[q] \in Using, how'[q] = "create"
                 PROVE  removed'[id'[q]] = "rm"
      BY DEF CreatedHandleAlive
    <3>1. q # p /\ pc[q] \in Using /\ how[q] = "create" /\ id'[q] = id[q]
      BY <2>8 DEF Using
    <3>2. id[q] \in 1..MaxSets
      BY <2>2, <3>1 DEF IInv, Handles, Using
    <3>3. CASE id[q] # gen
      <4>1. removed[id[q]] = "rm"
        BY <3>1, <3>3 DEF IInv, CreatedHandleAlive, Live
      <4> QED  BY <2>1, <2>2, <3>1, <3>2, <3>3, <4>1
    <3>4. CASE id[q] = gen
      <4>1. Role[q] = pc[q] /\ Role[p] = pc[p]
        BY <1>2, <2>1, <3>4 DEF Role, Place, Live
      <4>2. pc[p] # "k_rm"
        BY <3>1, <4>1 DEF IInv, Closing
      <4> QED  BY <2>1, <2>2, <3>1, <3>4, <4>2
    <3> QED  BY <3>3, <3>4
  <2> QED  BY <2>7, <2>9, <2>10, <2>11
<1> QED  BY <1>1, <1>2

\* A process is killed: what it had done to the set is taken back, exactly.
LEMMA KillStep ==
    ASSUME IInv, NEW p \in Procs, Kill(p)
    PROVE  Handles' /\ Accounts' /\ Closing' /\ CreatedHandleAlive'
<1>1. /\ pc[p] # "idle" /\ Goto(p, "idle") /\ UNCHANGED <<gen, exists, removed>>
      /\ adj' = [adj EXCEPT ![p] = NoAdj]
      /\ sem' = [k \in Members |-> IF sem[k] + adj[p][k] > 0 THEN sem[k] + adj[p][k] ELSE 0]
  BY DEF Kill, Exit
<1>2. /\ sem \in [Members -> Nat] /\ adj \in [Procs -> [Members -> Int]]
      /\ adj[p] = Undo(Role[p]) /\ DOMAIN Role = Procs
  BY DEF IInv, TypeOK, Accounts, Role
<1>3. "idle" \in PCs /\ "idle" \notin Using /\ Undo("out") = NoAdj
  BY DEF PCs, Using, Undo, Locked, NoAdj
<1>4. ~exists => sem' = NoAdj
  <2> SUFFICES ASSUME ~exists PROVE sem' = NoAdj
    OBVIOUS
  <2>1. Role[p] = "out" /\ sem = NoAdj
    BY DEF Role, Place, Live, IInv, Handles
  <2> QED  BY <1>1, <1>2, <1>3, <2>1 DEF NoAdj
<1>5. /\ Role' = Move(Role, p, "out")
      /\ Handles' /\ Closing' /\ CreatedHandleAlive'
  BY <1>1, <1>3, <1>4, GotoStep
<1>6. \A k \in Members : sem[k] + adj[p][k] >= 0
  <2>1. Role[p] \in Locked => sem[2] > 0
    BY <1>2, ProcsAssumption, HowManyPositive DEF IInv, Accounts
  <2> QED  BY <1>2, <2>1 DEF Undo, Members
<1>7. \A k \in Members : sem'[k] = sem[k] + Undo(Role[p])[k] - Undo("out")[k]
  BY <1>1, <1>2, <1>3, <1>6 DEF NoAdj
<1>8. sem' \in [Members -> Nat]
  BY <1>1, <1>2
<1>9. "out" \notin Locked
  BY DEF Locked
<1>10. Accounts'
  BY <1>1, <1>3, <1>5, <1>7, <1>8, <1>9, AccountMove DEF IInv, Move
<1> QED  BY <1>5, <1>10

\* The inductive invariant holds in every reachable state.
LEMMA Inductive == Spec => []IInv
<1>1. Init => IInv
  <2> SUFFICES ASSUME Init PROVE IInv
    OBVIOUS
  <2>1. TypeOK
    <3>1. 0 \in SetIds /\ "idle" \in PCs
      BY MaxSetsAssumption DEF SetIds, PCs
    <3>2. NoAdj \in [Members -> Nat] /\ NoAdj \in [Members -> Int]
      BY DEF NoAdj
    <3> QED  BY <3>1, <3>2 DEF Init, TypeOK
  <2>2. Handles
    BY DEF Init, Handles
  <2>3. DOMAIN Role = Procs /\ \A p \in Procs : Role[p] = "out"
    BY DEF Init, Role, Place, Live
  <2>4. Undo("out") = NoAdj /\ "out" \notin Locked \cup Using \cup {"hold"}
    BY DEF Undo, NoAdj, Locked, Using
  <2>5. /\ HowMany(Role, Locked) = 0 /\ HowMany(Role, Using) = 0
        /\ HowMany(Role, {"hold"}) = 0
    BY <2>3, <2>4, HowManyWitness
  <2>6. sem[0] = 0 /\ sem[1] = 0 /\ sem[2] = 0 /\ \A p \in Procs : adj[p] = NoAdj
    BY DEF Init, NoAdj, Members
  <2>7. Accounts
    BY <2>3, <2>4, <2>5, <2>6 DEF Accounts
  <2>8. Closing
    BY <2>3 DEF Closing
  <2>9. CreatedHandleAlive
    BY DEF Init, CreatedHandleAlive
  <2> QED  BY <2>1, <2>2, <2>7, <2>8, <2>9 DEF IInv
<1>2. IInv /\ [Next]_vars => IInv'
  <2> SUFFICES ASSUME IInv, [Next]_vars PROVE IInv'
    OBVIOUS
  <2>1. TypeOK'
    BY TypeStep DEF IInv
  <2>2. CASE UNCHANGED vars
    <3>1. Role' = Role
      BY <2>2 DEF Role, Place, Live, vars
    <3> QED
      BY <2>1, <2>2, <3>1, AccountSame
         DEF IInv, vars, Handles, Closing, CreatedHandleAlive, Live
  <2>3. CASE Next
    <3>1. Handles' /\ Accounts' /\ Closing' /\ CreatedHandleAlive'
      BY <2>3, SemopActions, GetStep, GetvalStep, SetvalStep, CallStep, RemoveStep, KillStep
         DEF Next, Client, Library
    <3> QED  BY <2>1, <3>1 DEF IInv
  <2> QED  BY <2>2, <2>3
<1> QED  BY <1>1, <1>2, PTL DEF Spec

\* At counts what HowMany counts.
LEMMA AtRole ==
    ASSUME NEW A, "out" \notin A
    PROVE  /\ Cardinality(At(A)) = HowMany(Role, A)
           /\ HowMany(Role, A) = 0 => At(A) = {}
<1>1. At(A) = {p \in DOMAIN Role : Role[p] \in A}
  BY DEF At, Role, Place
<1>2. IsFiniteSet(At(A))
  BY ProcsAssumption, FS_Subset DEF At
<1> QED  BY <1>1, <1>2, FS_EmptySet DEF HowMany
-----------------------------------------------------------------------------
\* Type correctness: no member of the set goes below zero.
THEOREM SysVType == Spec => []TypeOK
BY Inductive, PTL DEF IInv

\* op_lock and op_close give one process the lock, and the kernel takes it back from
\* one that is killed: for any number of processes.
THEOREM SysVLock == Spec => []LockExclusive
<1>1. IInv => LockExclusive
  <2>1. "out" \notin Locked  BY DEF Locked
  <2> QED  BY <2>1, AtRole DEF IInv, Accounts, LockExclusive
<1> QED  BY <1>1, Inductive, PTL

\* The counter is BIGCOUNT less one for every process that uses the semaphore, so
\* that sem_close never reaches err_dump.
THEOREM SysVCounter == Spec => []CounterExact
<1>1. IInv => CounterExact
  <2>1. "out" \notin Using  BY DEF Using
  <2> QED  BY <2>1, AtRole DEF IInv, Accounts, Handles, CounterExact
<1> QED  BY <1>1, Inductive, PTL

\* No unit is lost or made by kills, half-finished initialisations and closings.
THEOREM SysVUnits == Spec => []UnitsConserved
<1>1. IInv => UnitsConserved
  BY AtRole DEF IInv, Accounts, UnitsConserved
<1> QED  BY <1>1, Inductive, PTL

\* sem_close does not remove the set under a handle that sem_create returned.
THEOREM SysVCreatedAlive == Spec => []CreatedHandleAlive
BY Inductive, PTL DEF IInv
=============================================================================
