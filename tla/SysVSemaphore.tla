---------------------------- MODULE SysVSemaphore ----------------------------
(***************************************************************************)
(* lib/semaph.c: named semaphores on top of a System V set of three.       *)
(* Member 0 is the semaphore's value, member 1 counts down from BIGCOUNT   *)
(* the processes that use it, member 2 is a lock around creation and       *)
(* closing.  Every semop has SEM_UNDO, so the kernel takes back what a     *)
(* process did when it exits or is killed.                                 *)
(*                                                                         *)
(* The processes use one key.  They are ordinary clients: a process has at *)
(* most one handle, takes at most one unit at a time and gives it back     *)
(* before it closes, and any process may be killed at any point.           *)
(*                                                                         *)
(* pc[p] names the system call p makes next:                               *)
(*   "idle"                               no handle                        *)
(*   "c_again" "c_lock" "c_getval" "c_set0" "c_set1" "c_end"  sem_create   *)
(*   "o_dec"                                                  sem_open     *)
(*   "open"                               has a handle                     *)
(*   "w_op"                               sem_wait                         *)
(*   "hold"                               has a handle and a unit          *)
(*   "k_lock" "k_getval" "k_rm" "k_unlock"                    sem_close    *)
(*   "err_lock" "err_open" "err_use" "dump"  ended by err_sys or err_dump  *)
(***************************************************************************)
EXTENDS Integers, FiniteSets

CONSTANTS Procs,
          initval,   \* the value sem_create is called with
          BIGCOUNT,
          MaxSets    \* bound on the sets the kernel creates for the key

ASSUME ProcsAssumption == IsFiniteSet(Procs)
ASSUME InitvalAssumption == initval \in Nat
\* 10000 is meant to be more than there are processes.
ASSUME BigcountAssumption == BIGCOUNT \in Nat /\ BIGCOUNT > Cardinality(Procs)
ASSUME MaxSetsAssumption == MaxSets \in Nat

Members == 0..2

VARIABLES
    gen,      \* the number of sets created so far; the last one's identifier
    exists,   \* whether the last set has not been removed
    sem,      \* the values of its members
    adj,      \* adj[p][k]: what the kernel adds to member k when p exits
    removed,  \* how each set was removed: "no", by "close" or by an explicit "rm"
    pc,
    id,       \* each process's set identifier
    asleep,   \* whether the process sleeps in the semop call it is at
    how       \* whether the process used sem_create or sem_open last

kernel == <<gen, exists, sem, adj, removed>>
vars == <<gen, exists, sem, adj, removed, pc, id, asleep, how>>

NoAdj == [k \in Members |-> 0]

Live(i) == exists /\ i = gen

Init == /\ gen = 0
        /\ exists = FALSE
        /\ sem = NoAdj
        /\ adj = [p \in Procs |-> NoAdj]
        /\ removed = [g \in 1..MaxSets |-> "no"]
        /\ pc = [p \in Procs |-> "idle"]
        /\ id = [p \in Procs |-> 0]
        /\ asleep = [p \in Procs |-> FALSE]
        /\ how = [p \in Procs |-> "none"]
-----------------------------------------------------------------------------
(* The operation arrays: the members that have to be 0, what is added to each *)
(* member, and the members for which the operation has SEM_UNDO.              *)
Plus(ks, val) == [k \in Members |-> IF k \in ks THEN val ELSE 0]

\* Faulty variants of op_lock and op_op, used as mutants: SEM_UNDO is missing.
op_lockNoUndo == [zero |-> {2}, add |-> Plus({2}, 1), undo |-> {}]
op_opNoUndo(value) == [zero |-> {}, add |-> Plus({0}, value), undo |-> {}]

op_lock == [zero |-> {2}, add |-> Plus({2}, 1), undo |-> {2}]
op_endcreate == [zero |-> {}, add |-> Plus({1, 2}, -1), undo |-> {1, 2}]
op_open == [zero |-> {}, add |-> Plus({1}, -1), undo |-> {1}]
op_close == [zero |-> {2}, add |-> Plus({1, 2}, 1), undo |-> {1, 2}]
op_unlock == [zero |-> {}, add |-> Plus({2}, -1), undo |-> {2}]
op_op(value) == [zero |-> {}, add |-> Plus({0}, value), undo |-> {0}]

\* A process that has nothing to do with the library any more has no handle.
Goto(p, there) ==
    /\ pc' = [pc EXCEPT ![p] = there]
    /\ IF there = "idle" THEN /\ id' = [id EXCEPT ![p] = 0]
                              /\ how' = [how EXCEPT ![p] = "none"]
       ELSE UNCHANGED <<id, how>>

\* err_sys: the process exits.  It is only called when the set is gone, so the
\* kernel has nothing to undo.
Exit(p, there) == Goto(p, there) /\ asleep' = [asleep EXCEPT ![p] = FALSE]

\* semop carries out the whole array at once, when that leaves no member negative
\* and the members to wait for are 0, and notes it for undoing; otherwise the
\* process sleeps.  A set that is gone when the call is made is EINVAL; one that
\* goes while the process sleeps is EIDRM.
semop(p, op, ok, einval, eidrm) ==
    LET ready == /\ \A k \in Members : sem[k] + op.add[k] >= 0
                 /\ \A k \in op.zero : sem[k] = 0
    IN  /\ \/ /\ Live(id[p]) /\ ready
              /\ sem' = [k \in Members |-> sem[k] + op.add[k]]
              /\ adj' = [adj EXCEPT ![p] = [k \in Members |->
                            IF k \in op.undo THEN @[k] - op.add[k] ELSE @[k]]]
              /\ Exit(p, ok)
           \/ /\ Live(id[p]) /\ ~ready /\ ~asleep[p]
              /\ asleep' = [asleep EXCEPT ![p] = TRUE]
              /\ UNCHANGED <<sem, adj, pc, id, how>>
           \/ /\ ~Live(id[p])
              /\ Exit(p, IF asleep[p] THEN eidrm ELSE einval)
              /\ UNCHANGED <<sem, adj>>
        /\ UNCHANGED <<gen, exists, removed>>

\* A semctl call on member k, which fails when the set is gone.
semctl(p, there) == /\ Goto(p, IF Live(id[p]) THEN there ELSE "err_use")
                    /\ UNCHANGED <<gen, exists, removed, asleep>>

\* SETVAL also clears the adjustment of every process for the member.
SETVAL(k, val) == /\ sem' = [sem EXCEPT ![k] = val]
                  /\ adj' = [p \in Procs |-> [adj[p] EXCEPT ![k] = 0]]

\* IPC_RMID removes the set with its members and adjustments.
IPC_RMID(by) == /\ exists' = FALSE
                /\ removed' = [removed EXCEPT ![gen] = by]
                /\ sem' = NoAdj
                /\ adj' = [p \in Procs |-> NoAdj]
                /\ UNCHANGED gen
-----------------------------------------------------------------------------
(* sem_create *)

\* semget with IPC_CREAT: the set of the key, or a new one full of zeros.
semget(p) == /\ \/ exists /\ UNCHANGED gen
                \/ ~exists /\ gen < MaxSets /\ gen' = gen + 1
             /\ exists' = TRUE
             /\ id' = [id EXCEPT ![p] = gen']
             /\ how' = [how EXCEPT ![p] = "create"]
             /\ pc' = [pc EXCEPT ![p] = "c_lock"]
             /\ UNCHANGED <<sem, adj, removed, asleep>>

sem_create(p) == pc[p] = "idle" /\ semget(p)

CreateAgain(p) == pc[p] = "c_again" /\ semget(p)

\* EINVAL means that the set was removed after semget: goto again.
CreateLock(p) == /\ pc[p] = "c_lock"
                 /\ semop(p, op_lock, "c_getval", "c_again", "err_lock")

\* A faulty variant of CreateGetval, used as a mutant: whoever creates also
\* initialises.
CreateAlwaysInit(p) == /\ pc[p] = "c_getval"
                       /\ semctl(p, "c_set0")
                       /\ UNCHANGED <<sem, adj>>

CreateGetval(p) == /\ pc[p] = "c_getval"
                   /\ semctl(p, IF sem[1] = 0 THEN "c_set0" ELSE "c_end")
                   /\ UNCHANGED <<sem, adj>>

CreateSet0(p) == /\ pc[p] = "c_set0"
                 /\ semctl(p, "c_set1")
                 /\ IF Live(id[p]) THEN SETVAL(0, initval) ELSE UNCHANGED <<sem, adj>>

CreateSet1(p) == /\ pc[p] = "c_set1"
                 /\ semctl(p, "c_end")
                 /\ IF Live(id[p]) THEN SETVAL(1, BIGCOUNT) ELSE UNCHANGED <<sem, adj>>

CreateEnd(p) == /\ pc[p] = "c_end"
                /\ semop(p, op_endcreate, "open", "err_use", "err_use")
-----------------------------------------------------------------------------
(* sem_open *)

\* semget without IPC_CREAT; sem_open returns -1 when there is no set.
sem_open(p) == /\ pc[p] = "idle"
               /\ exists
               /\ id' = [id EXCEPT ![p] = gen]
               /\ how' = [how EXCEPT ![p] = "open"]
               /\ pc' = [pc EXCEPT ![p] = "o_dec"]
               /\ UNCHANGED <<kernel, asleep>>

OpenDec(p) == /\ pc[p] = "o_dec"
              /\ semop(p, op_open, "open", "err_open", "err_open")
-----------------------------------------------------------------------------
(* sem_wait and sem_signal, that is sem_op with -1 and 1 *)
Call(p, there) == /\ pc[p] = "open"
                  /\ Goto(p, there)
                  /\ UNCHANGED <<kernel, asleep>>

sem_wait(p) == /\ pc[p] = "w_op"
               /\ semop(p, op_op(-1), "hold", "err_use", "err_use")

sem_signal(p) == /\ pc[p] = "hold"
                 /\ semop(p, op_op(1), "open", "err_use", "err_use")
-----------------------------------------------------------------------------
(* sem_close and sem_rm *)

\* A faulty variant of CloseLock, used as a mutant: the counter goes up without
\* the lock.
CloseNoLock(p) == /\ pc[p] = "k_lock"
                  /\ semop(p, [zero |-> {}, add |-> Plus({1}, 1), undo |-> {1}],
                           "k_getval", "err_use", "err_use")

CloseLock(p) == /\ pc[p] = "k_lock"
                /\ semop(p, op_close, "k_getval", "err_use", "err_use")

\* A faulty variant of CloseGetval, used as a mutant: off by one, it takes itself
\* for the last user when another one is left.
CloseGetvalEarly(p) == /\ pc[p] = "k_getval"
                       /\ semctl(p, IF sem[1] >= BIGCOUNT - 1 THEN "k_rm" ELSE "k_unlock")
                       /\ UNCHANGED <<sem, adj>>

CloseGetval(p) == /\ pc[p] = "k_getval"
                  /\ semctl(p, IF sem[1] > BIGCOUNT THEN "dump"
                               ELSE IF sem[1] = BIGCOUNT THEN "k_rm"
                               ELSE "k_unlock")
                  /\ UNCHANGED <<sem, adj>>

CloseRm(p) == /\ pc[p] = "k_rm"
              /\ IF Live(id[p]) THEN IPC_RMID("close") /\ Goto(p, "idle")
                                ELSE Goto(p, "err_use") /\ UNCHANGED kernel
              /\ UNCHANGED asleep

CloseUnlock(p) == /\ pc[p] = "k_unlock"
                  /\ semop(p, op_unlock, "idle", "err_use", "err_use")

sem_rm(p) == /\ pc[p] = "open"
             /\ IF Live(id[p]) THEN IPC_RMID("rm") /\ Goto(p, "idle")
                               ELSE Goto(p, "err_use") /\ UNCHANGED kernel
             /\ UNCHANGED asleep
-----------------------------------------------------------------------------
Ended == {"err_lock", "err_open", "err_use", "dump"}

\* The process is killed, or exits without closing: the kernel undoes its
\* operations, without taking a member below zero.  (err_dump ends here too.)
Kill(p) == /\ pc[p] \notin {"idle", "err_lock", "err_open", "err_use"}
           /\ sem' = [k \in Members |-> IF sem[k] + adj[p][k] > 0
                                        THEN sem[k] + adj[p][k] ELSE 0]
           /\ adj' = [adj EXCEPT ![p] = NoAdj]
           /\ Exit(p, "idle")
           /\ UNCHANGED <<gen, exists, removed>>

\* A new process takes the place of one that err_sys ended.
Restart(p) == /\ pc[p] \in {"err_lock", "err_open", "err_use"}
              /\ Goto(p, "idle")
              /\ UNCHANGED <<kernel, asleep>>

\* What the client decides, and what the library does once it has been called.
Client(p) == \/ sem_create(p) \/ sem_open(p)
             \/ Call(p, "w_op") \/ sem_signal(p)
             \/ Call(p, "k_lock") \/ sem_rm(p)
             \/ Kill(p) \/ Restart(p)

Library(p) == \/ CreateAgain(p) \/ CreateLock(p) \/ CreateGetval(p) \/ CreateSet0(p)
              \/ CreateSet1(p) \/ CreateEnd(p)
              \/ OpenDec(p)
              \/ sem_wait(p)
              \/ CloseLock(p) \/ CloseGetval(p) \/ CloseRm(p) \/ CloseUnlock(p)

Next == \E p \in Procs : Client(p) \/ Library(p)

Spec == Init /\ [][Next]_vars

\* A process inside the library goes on until a call makes it sleep.
FairSpec == Spec /\ \A p \in Procs : WF_vars(Library(p))
-----------------------------------------------------------------------------
PCs == {"idle", "c_again", "c_lock", "c_getval", "c_set0", "c_set1", "c_end", "o_dec",
        "open", "w_op", "hold", "k_lock", "k_getval", "k_rm", "k_unlock"} \cup Ended

\* The identifiers of sets, 0 for none.
SetIds == 0..MaxSets

\* Type invariant.
TypeOK == /\ gen \in SetIds
          /\ exists \in BOOLEAN
          /\ sem \in [Members -> Nat]
          /\ adj \in [Procs -> [Members -> Int]]
          /\ removed \in [1..MaxSets -> {"no", "close", "rm"}]
          /\ pc \in [Procs -> PCs]
          /\ id \in [Procs -> SetIds]
          /\ asleep \in [Procs -> BOOLEAN]
          /\ how \in [Procs -> {"none", "create", "open"}]

\* The processes at one of the given places with a handle of the existing set.
At(places) == {p \in Procs : Live(id[p]) /\ pc[p] \in places}

Locked == {"c_getval", "c_set0", "c_set1", "c_end", "k_getval", "k_rm", "k_unlock"}
Using == {"open", "w_op", "hold", "k_lock"}

\* Member 2 is a lock: between op_lock or op_close and the operation that
\* releases it a process is alone, and a process that is killed there, or that
\* is killed while it waits, neither keeps the lock nor breaks it.
LockExclusive == exists => /\ sem[2] = Cardinality(At(Locked))
                           /\ sem[2] <= 1

\* Member 1, once initialised, is BIGCOUNT less one for every process that has
\* the semaphore open, however processes were opened, closed or killed, and
\* before that nobody has it open; so err_dump is never reached.
CounterExact == /\ exists => sem[1] = IF At(Using) = {} /\ sem[1] = 0 THEN 0
                                      ELSE BIGCOUNT - Cardinality(At(Using))
                /\ \A p \in Procs : pc[p] # "dump"

\* Units are neither lost nor made: the value and the units that processes have
\* taken add up to initval, although a creator may have been killed half way
\* through the initialisation and any holder of a unit may be killed.
UnitsConserved ==
    exists /\ sem[1] # 0 => sem[0] + Cardinality(At({"hold"})) = initval

\* A handle that sem_create returned stays good until its owner closes it,
\* unless somebody calls sem_rm: sem_close removes the set only when no process
\* that came through sem_create still uses it.
CreatedHandleAlive ==
    \A p \in Procs : pc[p] \in Using /\ how[p] = "create" /\ ~Live(id[p])
                        => removed[id[p]] = "rm"

\* The lock is always released, by the owner or by the kernel on its behalf.
LockReleased == exists /\ sem[2] = 1 ~> ~exists \/ sem[2] = 0
-----------------------------------------------------------------------------
\* sem_create's comment: "we handle the error condition of an invalid semaphore
\* ID specially below, and if it does happen, we just go back and create it
\* again", where it is sem_close that removed the set.
CreateRetries ==
    \A p \in Procs : pc[p] = "err_lock" => removed[id[p]] # "close"

\* sem_open's comment: "Decrement the process counter.  We don't need a lock to
\* do this."  Then its handle too stays good until sem_close or sem_rm.
OpenedHandleAlive ==
    \A p \in Procs : pc[p] \in Using /\ how[p] = "open" /\ ~Live(id[p])
                        => removed[id[p]] = "rm"
=============================================================================
