-------------------------- MODULE DiningPhilosophers --------------------------
(***************************************************************************)
(* diningPhilosopher/dine.cpp, and dineWin.cpp, which is the same program  *)
(* on Windows semaphores with a maximum of 1 (GrantOnce shows that the     *)
(* maximum is never met).                                                  *)
(*                                                                         *)
(* state[i] is what the philosophers tell each other.  It is a zeroed      *)
(* global and EATING is 0, so every philosopher starts as EATING although  *)
(* main says it is thinking.  Where a philosopher really is, is pc[i]:     *)
(*   "new"                      main has not created the thread            *)
(*   "think"                    in philosopher(), before take_fork()       *)
(*   "hungry" "test" "grant" "unlock"  take_fork(), holding mutex          *)
(*   "wait"                     take_fork(), at sem_wait(&S[i])            *)
(*   "eat"                      has both forks, before put_fork()          *)
(*   "down" "testL" "grantL" "testR" "grantR" "release"                    *)
(*                              put_fork(), holding mutex                  *)
(***************************************************************************)
EXTENDS Counting

CONSTANT N
ASSUME NAssumption == N \in Nat /\ N >= 3

VARIABLES state, mutex, S, pc,
          started   \* main's loop index: the threads created so far

vars == <<state, mutex, S, pc, started>>

Phil == 0..(N - 1)
LEFT(phnum) == (phnum + N - 1) % N
RIGHT(phnum) == (phnum + 1) % N

Init == /\ state = [i \in Phil |-> "EATING"]
        /\ mutex = 1
        /\ S = [i \in Phil |-> 0]
        /\ pc = [i \in Phil |-> "new"]
        /\ started = 0

Goto(i, there) == pc' = [pc EXCEPT ![i] = there]

pthread_create == /\ started < N
                  /\ Goto(started, "think")
                  /\ started' = started + 1
                  /\ UNCHANGED <<state, mutex, S>>

\* sem_wait(&mutex) at the start of take_fork and of put_fork.
Lock(i, from, to) == /\ pc[i] = from
                     /\ mutex > 0
                     /\ mutex' = mutex - 1
                     /\ Goto(i, to)
                     /\ UNCHANGED <<state, S, started>>

\* sem_post(&mutex) at their end.
Unlock(i, from, to) == /\ pc[i] = from
                       /\ mutex' = mutex + 1
                       /\ Goto(i, to)
                       /\ UNCHANGED <<state, S, started>>

\* A faulty variant of mayEat, used as a mutant: one neighbour is not asked.
mayEatOneSide(phnum) == state[phnum] = "HUNGRY" /\ state[LEFT(phnum)] # "EATING"

\* The condition of test(phnum).
mayEat(phnum) == /\ state[phnum] = "HUNGRY"
                 /\ state[LEFT(phnum)] # "EATING"
                 /\ state[RIGHT(phnum)] # "EATING"

\* test(phnum), called by thread i: the condition, and then the assignment and
\* sem_post(&S[phnum]).
Check(i, phnum, from, grant, skip) == /\ pc[i] = from
                                      /\ Goto(i, IF mayEat(phnum) THEN grant ELSE skip)
                                      /\ UNCHANGED <<state, mutex, S, started>>

\* A faulty variant of Grant, used as a mutant: the philosopher is not woken.
GrantSilent(i, phnum, from, to) == /\ pc[i] = from
                                   /\ state' = [state EXCEPT ![phnum] = "EATING"]
                                   /\ Goto(i, to)
                                   /\ UNCHANGED <<mutex, S, started>>

Grant(i, phnum, from, to) == /\ pc[i] = from
                             /\ state' = [state EXCEPT ![phnum] = "EATING"]
                             /\ S' = [S EXCEPT ![phnum] = @ + 1]
                             /\ Goto(i, to)
                             /\ UNCHANGED <<mutex, started>>

\* state[phnum] = HUNGRY in take_fork, THINKING in put_fork.
Say(i, what, from, to) == /\ pc[i] = from
                          /\ state' = [state EXCEPT ![i] = what]
                          /\ Goto(i, to)
                          /\ UNCHANGED <<mutex, S, started>>

\* sem_wait(&S[phnum]) at the end of take_fork.
WaitForForks(i) == /\ pc[i] = "wait"
                   /\ S[i] > 0
                   /\ S' = [S EXCEPT ![i] = @ - 1]
                   /\ Goto(i, "eat")
                   /\ UNCHANGED <<state, mutex, started>>

take_fork(i) == \/ Lock(i, "think", "hungry")
                \/ Say(i, "HUNGRY", "hungry", "test")
                \/ Check(i, i, "test", "grant", "unlock")
                \/ Grant(i, i, "grant", "unlock")
                \/ Unlock(i, "unlock", "wait")
                \/ WaitForForks(i)

\* A faulty variant of put_fork, used as a mutant: the neighbours are not looked
\* at when the forks come down.
put_forkNoTest(i) == \/ Lock(i, "eat", "down")
                     \/ Say(i, "THINKING", "down", "release")
                     \/ Unlock(i, "release", "think")

put_fork(i) == \/ Lock(i, "eat", "down")
               \/ Say(i, "THINKING", "down", "testL")
               \/ Check(i, LEFT(i), "testL", "grantL", "testR")
               \/ Grant(i, LEFT(i), "grantL", "testR")
               \/ Check(i, RIGHT(i), "testR", "grantR", "release")
               \/ Grant(i, RIGHT(i), "grantR", "release")
               \/ Unlock(i, "release", "think")

philosopher(i) == take_fork(i) \/ put_fork(i)

Next == pthread_create \/ \E i \in Phil : philosopher(i)

Spec == Init /\ [][Next]_vars

\* Every thread that can run runs, and a thread at sem_wait(&mutex) gets it in
\* the end: whoever releases it sleeps a second before it asks for it again, so
\* a waiting thread is not overtaken by the same one for ever.  Nothing is
\* assumed of the semaphores S.
MutexWait(i) == Lock(i, "think", "hungry") \/ Lock(i, "eat", "down")
FairSpec == /\ Spec
            /\ WF_vars(pthread_create)
            /\ \A i \in Phil : WF_vars(philosopher(i)) /\ SF_vars(MutexWait(i))
-----------------------------------------------------------------------------
InTake == {"hungry", "test", "grant", "unlock"}
InPut == {"down", "testL", "grantL", "testR", "grantR", "release"}

\* Type invariant.
TypeOK == /\ state \in [Phil -> {"THINKING", "HUNGRY", "EATING"}]
          /\ mutex \in Nat
          /\ S \in [Phil -> Nat]
          /\ pc \in [Phil -> {"new", "think", "wait", "eat"} \cup InTake \cup InPut]
          /\ started \in 0..N

\* mutex protects state: one thread at a time is between sem_wait(&mutex) and
\* sem_post(&mutex).
MutexExclusive == /\ HowMany(pc, InTake \cup InPut) <= 1
                  /\ mutex = 1 - HowMany(pc, InTake \cup InPut)

\* From sem_wait(&S[i]) until it says THINKING a philosopher has both forks.
HasForks(i) == pc[i] \in {"eat", "down"}

\* No fork is in two hands: neighbours never have their forks at the same time,
\* whatever the states they start with.
ForksExclusive == \A i \in Phil : HasForks(i) => ~HasForks(LEFT(i)) /\ ~HasForks(RIGHT(i))

\* A philosopher that was made EATING and has not taken up its forks yet.
Granted(i) == state[i] = "EATING" /\ pc[i] \in {"unlock", "wait"}

\* test() wakes a philosopher exactly once for each time it is made EATING: its
\* semaphore is 1 from then until it takes up its forks and 0 at all other times,
\* also when a neighbour's put_fork grants the forks before it has reached
\* sem_wait(&S[i]).  test()'s comment says that the sem_post has no effect during
\* take_fork; it is what lets the philosopher pass its sem_wait.
GrantOnce == \A i \in Phil : S[i] = IF Granted(i) THEN 1 ELSE 0

\* No part of the table stops: of a philosopher and its two neighbours one eats
\* again and again.  The philosophers get going at the start, where each finds
\* neighbours that say EATING without having eaten and where a philosopher that
\* is no longer blocked is not looked at until a neighbour has eaten.  (A single
\* philosopher may starve between neighbours that eat in turn.)
NeighbourEats ==
    \A i \in Phil : []<>(\E j \in {LEFT(i), i, RIGHT(i)} : pc[j] = "eat")
-----------------------------------------------------------------------------
\* take_fork's comments: "eat if neighbours are not eating", and "if unable to
\* eat wait to be signalled".  A philosopher that waits in vain has a neighbour
\* with forks, or one that has just been given them.
WaitsForEater ==
    mutex = 1 => \A i \in Phil : pc[i] = "wait" /\ state[i] = "HUNGRY" =>
        \E j \in {LEFT(i), RIGHT(i)} : HasForks(j) \/ Granted(j)
=============================================================================
