---------------------------- MODULE BoundedBuffer ----------------------------
(***************************************************************************)
(* boundedBuffer/boundedBuffer.cpp: main starts NumPairs producers and as  *)
(* many consumers, each of which handles one prime, and joins them.  The   *)
(* four Semaphore objects are counting semaphores, which is what           *)
(* MonitorSemaphore shows the class to be: wait() is a step that is        *)
(* enabled while the value is positive, post() a step that always is.      *)
(* Accesses to the unprotected globals list and nextPrime are steps of     *)
(* their own, so that an interleaving the semaphores fail to exclude would *)
(* show.                                                                   *)
(*                                                                         *)
(* prod[i] and cons[i] name the statement the i-th producer or consumer    *)
(* executes next ("new" before main starts it); put[i] and got[i] are      *)
(* their local variables data.                                             *)
(***************************************************************************)
EXTENDS Primes, Counting, Sequences, Functions

CONSTANTS NumPairs,   \* the 10 of main's while loop
          buf_size,   \* the slots, 20
          FirstNums   \* the values nextNum may have: atoi's result, or whatever
                      \* the uninitialised variable holds without the option -n

ASSUME NumPairsAssumption == NumPairs \in Nat \ {0}
ASSUME FirstNumsAssumption == FirstNums \subseteq Int
\* A producer waits for a slot while it holds syncPrimes, and a consumer needs
\* syncPrimes to free one, so the program relies on 10 <= 20.
ASSUME BufSizeAssumption == buf_size \in Nat /\ NumPairs <= buf_size

VARIABLES nextPrime, list,
          fullSlots, emptySlots, syncPrimes, otherPrime,
          nextNum, prod, cons, put, got,
          main   \* main's next statement, with the loop index i or j

globals == <<nextPrime, list>>
sems == <<fullSlots, emptySlots, syncPrimes, otherPrime>>
vars == <<nextPrime, list, fullSlots, emptySlots, syncPrimes, otherPrime,
          nextNum, prod, cons, put, got, main>>

Pairs == 1..NumPairs

ProdPCs == {"new", "otherWait", "primer", "raise", "syncWait", "emptyWait", "getNext",
            "push", "store", "otherPost", "syncPost", "fullPost", "done"}
ConsPCs == {"new", "fullWait", "syncWait", "front", "pop", "syncPost", "emptyPost", "done"}
MainPCs == {"prod", "cons", "joinProd", "joinCons", "return"}

\* A faulty variant of Init, used as a mutant: one slot less than there are pairs.
InitSlotShort == /\ nextPrime = 1
                 /\ list = <<>>
                 /\ fullSlots = 0
                 /\ emptySlots = buf_size - 1
                 /\ syncPrimes = 1
                 /\ otherPrime = 1
                 /\ nextNum \in FirstNums
                 /\ prod = [i \in Pairs |-> "new"]
                 /\ cons = [i \in Pairs |-> "new"]
                 /\ put = [i \in Pairs |-> 0]
                 /\ got = [i \in Pairs |-> 0]
                 /\ main = [at |-> "prod", i |-> 1]

Init == /\ nextPrime = 1
        /\ list = <<>>
        /\ fullSlots = 0
        /\ emptySlots = buf_size
        /\ syncPrimes = 1
        /\ otherPrime = 1
        /\ nextNum \in FirstNums
        /\ prod = [i \in Pairs |-> "new"]
        /\ cons = [i \in Pairs |-> "new"]
        /\ put = [i \in Pairs |-> 0]
        /\ got = [i \in Pairs |-> 0]
        /\ main = [at |-> "prod", i |-> 1]
-----------------------------------------------------------------------------
Goto(pc, i, there) == pc' = [pc EXCEPT ![i] = there]

(* PrimeProducer *)

WaitOther(i) == /\ prod[i] = "otherWait"
                /\ otherPrime > 0
                /\ otherPrime' = otherPrime - 1
                /\ Goto(prod, i, "primer")
                /\ UNCHANGED <<globals, fullSlots, emptySlots, syncPrimes,
                               nextNum, cons, put, got, main>>

\* primer = *p, and the comparison with nextPrime.
ReadPrimer(i) == /\ prod[i] = "primer"
                 /\ Goto(prod, i, IF nextNum > nextPrime THEN "raise" ELSE "syncWait")
                 /\ UNCHANGED <<globals, sems, nextNum, cons, put, got, main>>

RaiseNextPrime(i) == /\ prod[i] = "raise"
                     /\ nextPrime' = nextNum
                     /\ Goto(prod, i, "syncWait")
                     /\ UNCHANGED <<list, sems, nextNum, cons, put, got, main>>

ProdWaitSync(i) == /\ prod[i] = "syncWait"
                   /\ syncPrimes > 0
                   /\ syncPrimes' = syncPrimes - 1
                   /\ Goto(prod, i, "emptyWait")
                   /\ UNCHANGED <<globals, fullSlots, emptySlots, otherPrime,
                                  nextNum, cons, put, got, main>>

WaitEmpty(i) == /\ prod[i] = "emptyWait"
                /\ emptySlots > 0
                /\ emptySlots' = emptySlots - 1
                /\ Goto(prod, i, "getNext")
                /\ UNCHANGED <<globals, fullSlots, syncPrimes, otherPrime,
                               nextNum, cons, put, got, main>>

\* data = getNextPrime(nextPrime); nothing is said of numbers beyond MaxPrime.
GetNext(i) == /\ prod[i] = "getNext"
              /\ nextPrime < MaxPrime
              /\ put' = [put EXCEPT ![i] = getNextPrime(nextPrime)]
              /\ Goto(prod, i, "push")
              /\ UNCHANGED <<globals, sems, nextNum, cons, got, main>>

Push(i) == /\ prod[i] = "push"
           /\ list' = Append(list, put[i])
           /\ Goto(prod, i, "store")
           /\ UNCHANGED <<nextPrime, sems, nextNum, cons, put, got, main>>

Store(i) == /\ prod[i] = "store"
            /\ nextPrime' = put[i]
            /\ Goto(prod, i, "otherPost")
            /\ UNCHANGED <<list, sems, nextNum, cons, put, got, main>>

PostOther(i) == /\ prod[i] = "otherPost"
                /\ otherPrime' = otherPrime + 1
                /\ Goto(prod, i, "syncPost")
                /\ UNCHANGED <<globals, fullSlots, emptySlots, syncPrimes,
                               nextNum, cons, put, got, main>>

ProdPostSync(i) == /\ prod[i] = "syncPost"
                   /\ syncPrimes' = syncPrimes + 1
                   /\ Goto(prod, i, "fullPost")
                   /\ UNCHANGED <<globals, fullSlots, emptySlots, otherPrime,
                                  nextNum, cons, put, got, main>>

PostFull(i) == /\ prod[i] = "fullPost"
               /\ fullSlots' = fullSlots + 1
               /\ Goto(prod, i, "done")
               /\ UNCHANGED <<globals, emptySlots, syncPrimes, otherPrime,
                              nextNum, cons, put, got, main>>
-----------------------------------------------------------------------------
(* PrimeConsumer *)

\* A faulty variant of WaitFull, used as a mutant: no wait for an element.
WaitFullSkipped(i) == /\ cons[i] = "fullWait"
                      /\ Goto(cons, i, "syncWait")
                      /\ UNCHANGED <<globals, sems, nextNum, prod, put, got, main>>

WaitFull(i) == /\ cons[i] = "fullWait"
               /\ fullSlots > 0
               /\ fullSlots' = fullSlots - 1
               /\ Goto(cons, i, "syncWait")
               /\ UNCHANGED <<globals, emptySlots, syncPrimes, otherPrime,
                              nextNum, prod, put, got, main>>

\* A faulty variant of ConsWaitSync, used as a mutant: list is not protected.
ConsWaitSyncSkipped(i) == /\ cons[i] = "syncWait"
                          /\ syncPrimes' = syncPrimes
                          /\ Goto(cons, i, "front")
                          /\ UNCHANGED <<globals, fullSlots, emptySlots, otherPrime,
                                         nextNum, prod, put, got, main>>

ConsWaitSync(i) == /\ cons[i] = "syncWait"
                   /\ syncPrimes > 0
                   /\ syncPrimes' = syncPrimes - 1
                   /\ Goto(cons, i, "front")
                   /\ UNCHANGED <<globals, fullSlots, emptySlots, otherPrime,
                                  nextNum, prod, put, got, main>>

\* front() of an empty queue is undefined; NeverEmpty says it does not happen.
Front(i) == /\ cons[i] = "front"
            /\ got' = [got EXCEPT ![i] = IF list = <<>> THEN 0 ELSE Head(list)]
            /\ Goto(cons, i, "pop")
            /\ UNCHANGED <<globals, sems, nextNum, prod, put, main>>

Pop(i) == /\ cons[i] = "pop"
          /\ list' = IF list = <<>> THEN list ELSE Tail(list)
          /\ Goto(cons, i, "syncPost")
          /\ UNCHANGED <<nextPrime, sems, nextNum, prod, put, got, main>>

ConsPostSync(i) == /\ cons[i] = "syncPost"
                   /\ syncPrimes' = syncPrimes + 1
                   /\ Goto(cons, i, "emptyPost")
                   /\ UNCHANGED <<globals, fullSlots, emptySlots, otherPrime,
                                  nextNum, prod, put, got, main>>

\* A faulty variant of PostEmpty, used as a mutant: the slot is not given back.
PostEmptySkipped(i) == /\ cons[i] = "emptyPost"
                       /\ Goto(cons, i, "done")
                       /\ UNCHANGED <<globals, sems, nextNum, prod, put, got, main>>

PostEmpty(i) == /\ cons[i] = "emptyPost"
                /\ emptySlots' = emptySlots + 1
                /\ Goto(cons, i, "done")
                /\ UNCHANGED <<globals, fullSlots, syncPrimes, otherPrime,
                               nextNum, prod, put, got, main>>
-----------------------------------------------------------------------------
(* main *)

\* prod_threads[i] = thread(PrimeProducer, &nextNum)
StartProducer == /\ main.at = "prod"
                 /\ Goto(prod, main.i, "otherWait")
                 /\ main' = [main EXCEPT !.at = "cons"]
                 /\ UNCHANGED <<globals, sems, nextNum, cons, put, got>>

\* cons_threads[i] = thread(PrimeConsumer); i++
StartConsumer == /\ main.at = "cons"
                 /\ Goto(cons, main.i, "fullWait")
                 /\ main' = IF main.i < NumPairs THEN [at |-> "prod", i |-> main.i + 1]
                                                 ELSE [at |-> "joinProd", i |-> 1]
                 /\ UNCHANGED <<globals, sems, nextNum, prod, put, got>>

JoinProducer == /\ main.at = "joinProd"
                /\ prod[main.i] = "done"
                /\ main' = [main EXCEPT !.at = "joinCons"]
                /\ UNCHANGED <<globals, sems, nextNum, prod, cons, put, got>>

JoinConsumer == /\ main.at = "joinCons"
                /\ cons[main.i] = "done"
                /\ main' = IF main.i < NumPairs THEN [at |-> "joinProd", i |-> main.i + 1]
                                                ELSE [at |-> "return", i |-> main.i]
                /\ UNCHANGED <<globals, sems, nextNum, prod, cons, put, got>>
-----------------------------------------------------------------------------
PrimeProducer(i) == \/ WaitOther(i) \/ ReadPrimer(i) \/ RaiseNextPrime(i)
                    \/ ProdWaitSync(i) \/ WaitEmpty(i) \/ GetNext(i) \/ Push(i)
                    \/ Store(i) \/ PostOther(i) \/ ProdPostSync(i) \/ PostFull(i)

PrimeConsumer(i) == \/ WaitFull(i) \/ ConsWaitSync(i) \/ Front(i) \/ Pop(i)
                    \/ ConsPostSync(i) \/ PostEmpty(i)

Main == StartProducer \/ StartConsumer \/ JoinProducer \/ JoinConsumer

\* The process is over when main has returned.
Returned == main.at = "return" /\ UNCHANGED vars

Next == \/ \E i \in Pairs : PrimeProducer(i) \/ PrimeConsumer(i)
        \/ Main
        \/ Returned

Spec == Init /\ [][Next]_vars

\* Every thread that can run runs.  A semaphore may favour a newcomer over a
\* thread that waits, but every thread here takes each semaphore only once, so
\* weak fairness of the threads is enough.
FairSpec == /\ Spec
            /\ WF_vars(Main)
            /\ \A i \in Pairs : WF_vars(PrimeProducer(i)) /\ WF_vars(PrimeConsumer(i))
-----------------------------------------------------------------------------
\* Type invariant.
TypeOK == /\ nextPrime \in Int
          /\ list \in Seq(Int)
          /\ fullSlots \in Nat /\ emptySlots \in Nat
          /\ syncPrimes \in Nat /\ otherPrime \in Nat
          /\ nextNum \in FirstNums
          /\ prod \in [Pairs -> ProdPCs] /\ cons \in [Pairs -> ConsPCs]
          /\ put \in [Pairs -> Int] /\ got \in [Pairs -> Int]
          /\ main \in [at : MainPCs, i : Pairs]

\* The statements between syncPrimes.wait() and syncPrimes.post().
ProdInList == {"emptyWait", "getNext", "push", "store", "otherPost", "syncPost"}
ConsInList == {"front", "pop", "syncPost"}

\* The statements between otherPrime.wait() and otherPrime.post().
InNextPrime == {"primer", "raise", "syncWait", "emptyWait", "getNext", "push",
                "store", "otherPost"}

\* The globals are never accessed by two threads at once: at most one thread is
\* inside the section that touches list, and at most one producer inside the
\* section that reads nextPrime at its start and writes it at its end, although
\* the two sections overlap and are not released in the order they were taken.
GlobalsExclusive ==
    /\ HowMany(prod, ProdInList) + HowMany(cons, ConsInList) = 1 - syncPrimes
    /\ HowMany(prod, InNextPrime) = 1 - otherPrime
    /\ syncPrimes >= 0 /\ otherPrime >= 0

\* Where a producer has put its element and not yet posted it, and where a
\* consumer has been granted an element and not yet removed it.
Unposted == {"store", "otherPost", "syncPost", "fullPost"}
Granted == {"syncWait", "front", "pop"}

\* Where a producer has a slot it has not filled, and where a consumer has
\* emptied a slot it has not given back.
Reserved == {"getNext", "push"}
Emptied == {"syncPost", "emptyPost"}

\* The two counting semaphores and the queue agree at every moment: an element
\* is announced, about to be announced or granted to a consumer that has not
\* removed it, and a slot is free, on its way or taken by an element.
SlotAccounting ==
    /\ Len(list) = fullSlots + HowMany(prod, Unposted) + HowMany(cons, Granted)
    /\ emptySlots + HowMany(prod, Reserved) + Len(list) + HowMany(cons, Emptied) = buf_size

\* front() and pop() are never called on an empty queue.
NeverEmpty == \A i \in Pairs : cons[i] \in {"front", "pop"} => list # <<>>

\* A producer that holds syncPrimes never has to wait for a slot: it would wait
\* for a consumer that waits for syncPrimes.
NeverStalls == \A i \in Pairs : prod[i] = "emptyWait" => emptySlots > 0

\* The producers whose element has entered the queue, the consumers whose
\* element has left it, and the elements.
HasPut == {"store", "otherPost", "syncPost", "fullPost", "done"}
HasGot == {"syncPost", "emptyPost", "done"}
Produced == {put[i] : i \in {j \in Pairs : prod[j] \in HasPut}}
Consumed == {got[i] : i \in {j \in Pairs : cons[j] \in HasGot}}

\* The producers between them put the primes that follow the larger of 1 and the
\* number given to main, none missing and none twice, whatever order they run in
\* (primes by definition, not by isPrime).
ConsecutivePrimes ==
    LET first == IF nextNum > 1 THEN nextNum ELSE 1
    IN  /\ \A p \in Produced : /\ Prime(p)
                               /\ p > first
                               /\ \A q \in (first + 1)..(p - 1) : Prime(q) => q \in Produced
        /\ \A i, j \in Pairs : prod[i] \in HasPut /\ prod[j] \in HasPut /\ put[i] = put[j]
                                  => i = j

\* Every element goes to exactly one consumer, in the order of the queue: what
\* was put is what was taken and what is still queued, the queue is in
\* increasing order, behind everything taken, and no two consumers got the same.
ExactlyOnce ==
    /\ Produced = Consumed \cup Range(list)
    /\ \A j, k \in 1..Len(list) : j < k => list[j] < list[k]
    /\ \A c \in Consumed, d \in Range(list) : c < d
    /\ \A i, j \in Pairs : cons[i] \in HasGot /\ cons[j] \in HasGot /\ got[i] = got[j]
                              => i = j

\* main joins every thread and returns, with the queue empty and the semaphores
\* as they were at the start.
Terminates ==
    <>[](main.at = "return" /\ list = <<>> /\ fullSlots = 0 /\ emptySlots = buf_size)
=============================================================================
