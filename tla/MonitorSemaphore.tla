--------------------------- MODULE MonitorSemaphore ---------------------------
(***************************************************************************)
(* class Semaphore of boundedBuffer/semaphore.cpp (semaphore/semaphore.cpp *)
(* is the same file): a counter guarded by a std::mutex, with a            *)
(* std::condition_variable for the threads that found it at zero.          *)
(*                                                                         *)
(* pc[t] is where thread t is inside the object:                           *)
(*   "out"     not in a call                                               *)
(*   "w_lock"  wait(): constructing unique_lock l(m)                       *)
(*   "w_test"  wait(): l is held, the predicate value > 0 is next          *)
(*   "w_cv"    wait(): asleep inside cv.wait, m released                   *)
(*   "w_wake"  wait(): left the wait set, cv.wait is re-acquiring m        *)
(*   "w_take"  wait(): the predicate held, value-- is next                 *)
(*   "p_lock"  post(): constructing unique_lock l(m)                       *)
(*   "p_incr"  post(): l is held, value++ is next                          *)
(*   "p_note"  post(): cv.notify_one() is next                             *)
(*   "leave"   the body is done, ~unique_lock releases m                   *)
(***************************************************************************)
EXTENDS Counting

CONSTANTS Threads,
          InitialValue,  \* the constructor's argument _v
          NoThread,      \* the owner of a free mutex
          MaxValue       \* bound on value: post() is not called above it

ASSUME InitialValueAssumption == InitialValue \in Nat
ASSUME NoThreadAssumption == NoThread \notin Threads
ASSUME ThreadsAssumption == IsFiniteSet(Threads)
ASSUME MaxValueAssumption == MaxValue \in Nat

VARIABLES value, m, pc

vars == <<value, m, pc>>

PCs == {"out", "w_lock", "w_test", "w_cv", "w_wake", "w_take",
        "p_lock", "p_incr", "p_note", "leave"}

\* The program counters at which a thread owns m.
Holding == {"w_test", "w_take", "p_incr", "p_note", "leave"}

\* The threads in cv's wait set.
Asleep == {t \in Threads : pc[t] = "w_cv"}

Semaphore == /\ value = InitialValue
             /\ m = NoThread
             /\ pc = [t \in Threads |-> "out"]

Init == Semaphore

CallWait(t) == /\ pc[t] = "out"
               /\ pc' = [pc EXCEPT ![t] = "w_lock"]
               /\ UNCHANGED <<value, m>>

\* The bound MaxValue stands for the width of the counter: units already given
\* and calls that will give one are counted together.
CallPost(t) ==
    /\ pc[t] = "out"
    /\ value + HowMany(pc, {"p_lock", "p_incr"}) < MaxValue
    /\ pc' = [pc EXCEPT ![t] = "p_lock"]
    /\ UNCHANGED <<value, m>>

\* A faulty variant of Lock, used as a mutant: a woken thread does not evaluate the
\* predicate again.
LockNoRecheck(t) ==
    /\ pc[t] \in {"w_lock", "w_wake", "p_lock"}
    /\ m = NoThread
    /\ m' = t
    /\ pc' = [pc EXCEPT ![t] = IF pc[t] = "p_lock" THEN "p_incr"
                              ELSE IF pc[t] = "w_wake" THEN "w_take" ELSE "w_test"]
    /\ UNCHANGED value

\* unique_lock<mutex> l(m), and the re-acquisition at the end of cv.wait.
Lock(t) == /\ pc[t] \in {"w_lock", "w_wake", "p_lock"}
           /\ m = NoThread
           /\ m' = t
           /\ pc' = [pc EXCEPT ![t] = IF pc[t] = "p_lock" THEN "p_incr" ELSE "w_test"]
           /\ UNCHANGED value

\* cv.wait(l, pred) evaluates the predicate with m held; when it is false it
\* releases m and joins the wait set in one step.
Test(t) == /\ pc[t] = "w_test"
           /\ IF value > 0
              THEN /\ pc' = [pc EXCEPT ![t] = "w_take"]
                   /\ UNCHANGED m
              ELSE /\ pc' = [pc EXCEPT ![t] = "w_cv"]
                   /\ m' = NoThread
           /\ UNCHANGED value

\* A condition variable may wake a thread that nobody notified.
SpuriousWake(t) == /\ pc[t] = "w_cv"
                   /\ pc' = [pc EXCEPT ![t] = "w_wake"]
                   /\ UNCHANGED <<value, m>>

Take(t) == /\ pc[t] = "w_take"
           /\ value' = value - 1
           /\ pc' = [pc EXCEPT ![t] = "leave"]
           /\ UNCHANGED m

\* Faulty variants of Incr, used as mutants: no notification at all, and one
\* only when the value leaves zero.
IncrSilent(t) == /\ pc[t] = "p_incr"
                 /\ value' = value + 1
                 /\ pc' = [pc EXCEPT ![t] = "leave"]
                 /\ UNCHANGED m
IncrNotifyFromZero(t) ==
    /\ pc[t] = "p_incr"
    /\ value' = value + 1
    /\ pc' = [pc EXCEPT ![t] = IF value = 0 THEN "p_note" ELSE "leave"]
    /\ UNCHANGED m

Incr(t) == /\ pc[t] = "p_incr"
           /\ value' = value + 1
           /\ pc' = [pc EXCEPT ![t] = "p_note"]
           /\ UNCHANGED m

\* cv.notify_one() wakes one thread of the wait set, any one, if there is one.
NotifyOne(t) ==
    /\ pc[t] = "p_note"
    /\ \/ /\ Asleep = {}
          /\ pc' = [pc EXCEPT ![t] = "leave"]
       \/ \E u \in Asleep : pc' = [pc EXCEPT ![t] = "leave", ![u] = "w_wake"]
    /\ UNCHANGED <<value, m>>

Unlock(t) == /\ pc[t] = "leave"
             /\ m' = NoThread
             /\ pc' = [pc EXCEPT ![t] = "out"]
             /\ UNCHANGED value

Step(t) == \/ Lock(t) \/ Test(t) \/ Take(t)
           \/ Incr(t) \/ NotifyOne(t) \/ Unlock(t)

Next == \E t \in Threads :
            CallWait(t) \/ CallPost(t) \/ Step(t) \/ SpuriousWake(t)

Spec == Init /\ [][Next]_vars

\* The scheduler runs every thread that can run, and a thread that asks for a
\* mutex which is released again and again gets it in the end.  Nothing obliges
\* a thread to call the object, or a sleeping thread to wake on its own.
FairSpec == /\ Spec
            /\ \A t \in Threads : WF_vars(Step(t)) /\ SF_vars(Lock(t))
-----------------------------------------------------------------------------
\* Type invariant.
TypeOK == /\ value \in Nat
          /\ m \in Threads \cup {NoThread}
          /\ pc \in [Threads -> PCs]

\* m is owned exactly by the thread between its lock and its unlock, so the
\* plain reads and writes of value in wait() and post() are never concurrent.
MutexOwned == \A t \in Threads : pc[t] \in Holding <=> m = t

\* The unit a thread saw in cv.wait's predicate is still there when value-- runs.
UnitIsThere == \A t \in Threads : pc[t] = "w_take" => value > 0

\* Where a thread will still look at value, or wake a thread that will.
Rechecking == {"w_wake", "w_test", "w_take", "p_note"}

\* No lost wakeup: as long as a thread sleeps in cv.wait there are at least as
\* many threads on their way to look at value as there are units to take, even
\* though post() notifies one thread only and a newcomer may take the unit
\* that the notified thread was woken for.
NoLostWakeup == Asleep # {} => value <= HowMany(pc, Rechecking)

\* A unit does not stay available while a thread is inside wait(): the call
\* "wait until the value is positive" returns to somebody.
UnitGetsTaken ==
    (value > 0 /\ Asleep # {}) ~> (value = 0 \/ Asleep = {})
-----------------------------------------------------------------------------
\* The abstract semaphore this object implements: a call has taken effect once
\* value-- or value++ is done.
AbsCall == [t \in Threads |->
              IF pc[t] \in {"w_lock", "w_test", "w_cv", "w_wake", "w_take"} THEN "wait"
              ELSE IF pc[t] \in {"p_lock", "p_incr"} THEN "post"
              ELSE "none"]

CS == INSTANCE CountingSemaphore WITH call <- AbsCall

\* The monitor with its mutex and condition variable implements the counting
\* semaphore: a wait() takes exactly one unit that is there, a post() gives one.
IsCountingSemaphore == CS!Spec
=============================================================================
