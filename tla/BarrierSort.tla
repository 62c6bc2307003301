----------------------------- MODULE BarrierSort -----------------------------
(***************************************************************************)
(* threads/barrier.c: NTHR threads sort a part of nums each, and main      *)
(* merges the parts when all have reached the barrier.                     *)
(***************************************************************************)
EXTENDS Integers, Sequences, FiniteSets, Functions

CONSTANTS NTHR, TNUM,
          LONG_MAX   \* greater than what random() returns

VARIABLES nums, snums,
          idx, minidx,  \* of merge()
          arrived,      \* the threads at the barrier, main included
          spc           \* where each worker and main are

merging == <<snums, idx, minidx>>
svars == <<nums, merging, arrived, spc>>

NUMNUM == NTHR * TNUM
Workers == 0..(NTHR - 1)
main == NTHR    \* names the thread of main

Init == /\ nums \in [0..(NUMNUM - 1) -> 0..(LONG_MAX - 1)]
        /\ snums = <<>> /\ idx = [i \in Workers |-> 0] /\ minidx = 0
        /\ arrived = {}
        /\ spc = [t \in Workers \cup {main} |-> IF t = main THEN "create" ELSE "none"]

complong(l1, l2) == IF l1 = l2 THEN 0 ELSE IF l1 < l2 THEN -1 ELSE 1

Goto(t, from, to) == spc[t] = from /\ spc' = [spc EXCEPT ![t] = to]

Part(t) == (t * TNUM)..(t * TNUM + TNUM - 1)

\* heapsort(&nums[idx], TNUM, ...) of the part of t, by what heapsort promises.
thr_fn(t) == /\ Goto(t, "sort", "arrive")
             /\ \E f \in Injection(Part(t), Part(t)) :
                    nums' = [k \in DOMAIN nums |-> IF k \in Part(t) THEN nums[f[k]] ELSE nums[k]]
             /\ \A j, k \in Part(t) : j < k => complong(nums'[j], nums'[k]) <= 0
             /\ UNCHANGED <<merging, arrived>>

\* pthread_barrier_wait.
Arrive(t) == /\ Goto(t, "arrive", "wait")
             /\ arrived' = arrived \cup {t}
             /\ UNCHANGED <<nums, merging>>

\* A faulty variant, used as a mutant: the barrier is made for the workers only.
barrier_openShort == Cardinality(arrived) >= NTHR

barrier_open == Cardinality(arrived) >= NTHR + 1

Leave(t) == /\ barrier_open
            /\ Goto(t, "wait", IF t = main THEN "begin" ELSE "done")
            /\ UNCHANGED <<nums, merging, arrived>>
-----------------------------------------------------------------------------
(* main *)

\* The threads are created one by one; when one cannot be, err_exit ends the
\* process with the threads it has.
Create == \/ \E t \in Workers :
                 /\ spc[main] = "create"
                 /\ spc[t] = "none" /\ \A u \in Workers : u < t => spc[u] # "none"
                 /\ spc' = [spc EXCEPT ![t] = "sort"]
                 /\ UNCHANGED <<nums, merging, arrived>>
          \/ /\ spc[main] = "create"
             /\ \E t \in Workers : spc[t] = "none"
             /\ spc' = [t \in DOMAIN spc |-> "dead"]
             /\ UNCHANGED <<nums, merging, arrived>>
          \/ /\ \A t \in Workers : spc[t] # "none"
             /\ Goto(main, "create", "arrive")
             /\ UNCHANGED <<nums, merging, arrived>>

\* merge() sets the places to start at; minidx is not initialised.
merge == /\ Goto(main, "begin", "merge")
         /\ idx' = [i \in Workers |-> i * TNUM] /\ minidx' \in Workers
         /\ UNCHANGED <<nums, snums, arrived>>

\* The part whose next number is the least, the first of equals; with no number
\* below LONG_MAX left, the part of the round before.
least == LET open == {i \in Workers : idx[i] < (i + 1) * TNUM /\ nums[idx[i]] < LONG_MAX}
             best == {i \in open : \A k \in open : \/ nums[idx[i]] < nums[idx[k]]
                                                   \/ nums[idx[i]] = nums[idx[k]] /\ i <= k}
         IN  IF open = {} THEN minidx ELSE CHOOSE i \in best : TRUE

Round == /\ spc[main] = "merge" /\ Len(snums) < NUMNUM
         /\ minidx' = least
         /\ snums' = Append(snums, nums[idx[least]])
         /\ idx' = [idx EXCEPT ![least] = @ + 1]
         /\ UNCHANGED <<nums, arrived, spc>>

MergeDone == /\ Len(snums) = NUMNUM
             /\ Goto(main, "merge", "print")
             /\ UNCHANGED <<nums, merging, arrived>>

\* main prints snums and exits, and with it every thread.
Exit == /\ spc[main] = "print"
        /\ spc' = [t \in DOMAIN spc |-> "dead"]
        /\ UNCHANGED <<nums, merging, arrived>>

Next == \/ \E t \in Workers : thr_fn(t)
        \/ \E t \in Workers \cup {main} : Arrive(t) \/ Leave(t)
        \/ Create \/ merge \/ Round \/ MergeDone \/ Exit

Spec == Init /\ [][Next]_svars
-----------------------------------------------------------------------------
\* What main prints is all the numbers, in order, whatever the order in which the
\* threads sort, reach the barrier and leave it.
SortedResult ==
    spc[main] = "print" =>
        /\ \A k \in 1..(NUMNUM - 1) : snums[k] <= snums[k + 1]
        /\ \A v \in 0..(LONG_MAX - 1) : Cardinality({k \in 1..NUMNUM : snums[k] = v}) =
                                        Cardinality({k \in DOMAIN nums : nums[k] = v})
=============================================================================
