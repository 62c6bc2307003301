------------------------------ MODULE MCThreads ------------------------------
(***************************************************************************)
(* The thread examples that share no state, checked side by side: example  *)
(* says which of them is running.                                          *)
(***************************************************************************)
EXTENDS Naturals, FiniteSets

CONSTANTS Producers, Consumers, Msgs, Threads, Jobs, NULL, NoOne, NTHR, TNUM, LONG_MAX, x

ASSUME JobsAssumption == IsFiniteSet(Jobs) /\ NULL \notin Jobs \cup Threads
ASSUME SortAssumption == NTHR \in Nat /\ TNUM \in Nat /\ LONG_MAX \in Nat
ASSUME xAssumption == x \in Nat

VARIABLES example,
          workq, qlock, qready, mpc, mp,
          q_head, q_tail, j_next, j_prev, j_id, writer, readers, jpc, jp,
          nums, snums, idx, minidx, arrived, spc,
          data, mutexed, step, m, upc, reg, i, printed

M == INSTANCE MessageQueue
J == INSTANCE JobQueue
B == INSTANCE BarrierSort
U == INSTANCE SharedCounter

condvar == <<workq, qlock, qready, mpc, mp>>
rwlock == <<q_head, q_tail, j_next, j_prev, j_id, writer, readers, jpc, jp>>
barrier == <<nums, snums, idx, minidx, arrived, spc>>
counter == <<data, mutexed, step, m, upc, reg, i, printed>>
examples == <<example, condvar, rwlock, barrier, counter>>

ExampleInit == /\ example \in {"condvar", "rwlock", "barrier", "counter"}
               /\ M!Init /\ J!Init /\ B!Init /\ U!Init
               /\ example # "barrier" => nums = [k \in DOMAIN nums |-> 0]
               /\ example # "counter" => mutexed /\ step = 1

Condvar(A) == example = "condvar" /\ A /\ UNCHANGED <<example, rwlock, barrier, counter>>

ExampleNext == \/ Condvar(M!Next)
               \/ example = "rwlock" /\ J!Next /\ UNCHANGED <<example, condvar, barrier, counter>>
               \/ example = "barrier" /\ B!Next /\ UNCHANGED <<example, condvar, rwlock, counter>>
               \/ example = "counter" /\ U!Next /\ UNCHANGED <<example, condvar, rwlock, barrier>>

\* A thread inside process_msg or enqueue_msg goes on, and gets a mutex that is
\* released again and again in the end.
ExampleSpec == /\ ExampleInit
               /\ [][ExampleNext]_examples
               /\ \A t \in Consumers : SF_examples(Condvar(M!process_msg(t)))
               /\ \A t \in Producers : SF_examples(Condvar(M!enqueue_msg(t)))

\* No wakeup is lost: a message that is in the queue makes some consumer process
\* one, although the signal is sent after the unlock and another consumer may have
\* emptied the queue by then.
MessageProcessed == workq # <<>> ~> \E t \in Consumers : mpc[t] = "process"

\* The doubly linked list implements the sequence of jobs.
IsJobSequence == J!IsJobSequence

\* A job that job_find returned is in the list until its thread removes it.
FoundStillQueued == J!FoundStillQueued

\* main prints all numbers in order.
SortedResult == B!SortedResult

\* What the two threads of the counter print.
CounterValue == U!CounterValue
=============================================================================
