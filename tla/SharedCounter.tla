----------------------------- MODULE SharedCounter -----------------------------
(***************************************************************************)
(* mutex/noMutex.cpp, mutex/withMutex.cpp and its copy in                  *)
(* producerConsumer: two threads add one to the same integer x times each, *)
(* with or without a mutex around the loop.  An increment is a read and a  *)
(* write; an optimising compiler makes one addition of x of the loop, and  *)
(* the race of noMutex.cpp has the outcomes of either.                     *)
(***************************************************************************)
EXTENDS Naturals, Sequences

CONSTANT x   \* the argument of the program

VARIABLES data,
          mutexed,   \* whether the program is withMutex.cpp
          step,      \* what one addition adds: 1, or x in optimised code
          m,         \* whether the mutex is held
          upc,       \* the statement each thread executes next
          reg,       \* what each thread has read
          i,         \* the additions each thread has made
          printed    \* the values printed, in order

uvars == <<data, mutexed, step, m, upc, reg, i, printed>>

Funcs == {"first", "second"}

Init == /\ data = 0
        /\ mutexed \in BOOLEAN
        /\ step \in {1, x}
        /\ m = FALSE
        /\ upc = [t \in Funcs |-> "lock"]
        /\ reg = [t \in Funcs |-> 0]
        /\ i = [t \in Funcs |-> 0]
        /\ printed = <<>>

Goto(t, from, to) == upc[t] = from /\ upc' = [upc EXCEPT ![t] = to]

\* A faulty variant, used as a mutant: the mutex does not exclude.
LockSkipped(t) == /\ Goto(t, "lock", "loop")
                  /\ UNCHANGED <<data, mutexed, step, m, reg, i, printed>>

Lock(t) == /\ Goto(t, "lock", "loop")
           /\ mutexed => ~m
           /\ m' = mutexed
           /\ UNCHANGED <<data, mutexed, step, reg, i, printed>>

\* The loop is over, or *p is read for the next addition.
Read(t) == /\ Goto(t, "loop", IF i[t] < x THEN "write" ELSE "print")
           /\ reg' = [reg EXCEPT ![t] = data]
           /\ UNCHANGED <<data, mutexed, step, m, i, printed>>

Write(t) == /\ Goto(t, "write", "loop")
            /\ data' = reg[t] + step
            /\ i' = [i EXCEPT ![t] = @ + step]
            /\ UNCHANGED <<mutexed, step, m, reg, printed>>

PrintLine(t) == /\ Goto(t, "print", "unlock")
                /\ printed' = Append(printed, data)
                /\ UNCHANGED <<data, mutexed, step, m, reg, i>>

Unlock(t) == /\ Goto(t, "unlock", "done")
             /\ m' = FALSE
             /\ UNCHANGED <<data, mutexed, step, reg, i, printed>>

func(t) == Lock(t) \/ Read(t) \/ Write(t) \/ PrintLine(t) \/ Unlock(t)

Next == \E t \in Funcs : func(t)

Spec == Init /\ [][Next]_uvars
-----------------------------------------------------------------------------
\* With the mutex the threads print x and then 2 * x, in every run; without it the
\* result is anything from 2 up: a thread that read early may undo all but one
\* addition of the other, but not the last of its own.
CounterValue ==
    (\A t \in Funcs : upc[t] = "done") =>
        IF mutexed THEN printed = <<x, 2 * x>>
        ELSE data \in (IF x < 2 THEN x ELSE 2)..(2 * x)
=============================================================================
