------------------------------ MODULE MCFooTable ------------------------------
(***************************************************************************)
(* Threads that share a table of counted objects, with either of the two   *)
(* files linked in: which says which.                                      *)
(***************************************************************************)
EXTENDS FooTable

VARIABLE which

M2 == INSTANCE FooObjectLock
M3 == INSTANCE FooHashLock

MCvars == <<vars, which>>

MCInit == Init /\ which \in {"mutex2", "mutex3"}

MCStep(t) == /\ \/ which = "mutex2" /\ M2!Step(t)
                \/ which = "mutex3" /\ M3!Step(t)
             /\ UNCHANGED which

MCNext == \E t \in Threads : \/ MCStep(t)
                             \/ Calls(t) /\ UNCHANGED which

MCSpec == MCInit /\ [][MCNext]_MCvars

\* A thread inside a call goes on, and gets a lock that is released again and
\* again in the end.
MCFairSpec == /\ MCSpec
              /\ \A t \in Threads : SF_MCvars(MCStep(t))

\* mutex2.c's foo_find does not return an object before it is initialised.
FoundReady == which = "mutex2" => M2!FoundReady

\* Every call returns: the two locks are taken in an order that cannot deadlock.
CallsReturn == \A t \in Threads : pc[t] # "idle" ~> pc[t] = "idle"
=============================================================================
