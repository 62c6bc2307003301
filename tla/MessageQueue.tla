----------------------------- MODULE MessageQueue -----------------------------
(***************************************************************************)
(* threads/condvar.c: threads in process_msg() take messages from a list   *)
(* that threads in enqueue_msg() fill at its head.  mpc[t] names the       *)
(* statement t executes next.                                              *)
(***************************************************************************)
EXTENDS Naturals, Sequences

CONSTANTS Producers, Consumers, Msgs,
          NoOne    \* the owner of a mutex nobody holds

VARIABLES workq,   \* the list, first message first
          qlock,   \* the owner of the mutex
          qready,  \* the threads that wait for the condition variable
          mpc,
          mp       \* the message each thread works on

mvars == <<workq, qlock, qready, mpc, mp>>

Init == /\ workq = <<>>
        /\ qlock = NoOne
        /\ qready = {}
        /\ mpc = [t \in Producers \cup Consumers |-> IF t \in Producers THEN "idle" ELSE "lock"]
        /\ mp = [t \in Producers \cup Consumers |-> NoOne]

Goto(t, from, to) == mpc[t] = from /\ mpc' = [mpc EXCEPT ![t] = to]

Lock(t, to) == /\ Goto(t, "lock", to)
               /\ qlock = NoOne
               /\ qlock' = t
               /\ UNCHANGED <<workq, qready, mp>>

Unlock(t, to) == /\ Goto(t, "unlock", to)
                 /\ qlock' = NoOne
                 /\ UNCHANGED <<workq, qready, mp>>
-----------------------------------------------------------------------------
(* process_msg *)

\* A faulty variant, used as a mutant: the mutex is released before the wait.
WaitTwoSteps(t) == \/ /\ Goto(t, "test", "sleep")
                      /\ workq = <<>>
                      /\ qlock' = NoOne
                      /\ UNCHANGED <<workq, qready, mp>>
                   \/ /\ Goto(t, "sleep", "waiting")
                      /\ qready' = qready \cup {t}
                      /\ UNCHANGED <<workq, qlock, mp>>

\* while (workq == NULL) pthread_cond_wait(&qready, &qlock): waits and releases
\* the mutex in one step.
Wait(t) == /\ Goto(t, "test", "waiting")
           /\ workq = <<>>
           /\ qready' = qready \cup {t}
           /\ qlock' = NoOne
           /\ UNCHANGED <<workq, mp>>

\* A thread that was woken takes the mutex before it tests again.
Relock(t) == /\ Goto(t, "waiting", "test")
             /\ t \notin qready
             /\ qlock = NoOne
             /\ qlock' = t
             /\ UNCHANGED <<workq, qready, mp>>

Take(t) == /\ Goto(t, "test", "unlock")
           /\ workq # <<>>
           /\ mp' = [mp EXCEPT ![t] = Head(workq)]
           /\ workq' = Tail(workq)
           /\ UNCHANGED <<qlock, qready>>

\* "now process the message mp"
Process(t) == /\ Goto(t, "process", "lock")
              /\ mp' = [mp EXCEPT ![t] = NoOne]
              /\ UNCHANGED <<workq, qlock, qready>>

process_msg(t) == \/ Lock(t, "test") \/ Wait(t) \/ Relock(t) \/ Take(t)
                  \/ Unlock(t, "process") \/ Process(t)

\* pthread_cond_wait may return although nobody signalled.
Spurious == /\ \E t \in qready : qready' = qready \ {t}
            /\ UNCHANGED <<workq, qlock, mpc, mp>>
-----------------------------------------------------------------------------
(* enqueue_msg *)

\* A message is in one place at a time: the caller owns it.
Call(t) == \E m \in Msgs : /\ \A u \in DOMAIN mp : mp[u] # m
                           /\ \A k \in 1..Len(workq) : workq[k] # m
                           /\ Goto(t, "idle", "lock")
                           /\ mp' = [mp EXCEPT ![t] = m]
                           /\ UNCHANGED <<workq, qlock, qready>>

Push(t) == /\ Goto(t, "push", "unlock")
           /\ workq' = <<mp[t]>> \o workq
           /\ mp' = [mp EXCEPT ![t] = NoOne]
           /\ UNCHANGED <<qlock, qready>>

\* pthread_cond_signal wakes one of the threads that wait, if there is one.
Signal(t, from, to) == /\ Goto(t, from, to)
                       /\ \/ qready = {} /\ UNCHANGED qready
                          \/ \E u \in qready : qready' = qready \ {u}
                       /\ UNCHANGED <<workq, qlock, mp>>

enqueue_msg(t) == Lock(t, "push") \/ Push(t) \/ Unlock(t, "signal") \/ Signal(t, "signal", "idle")

Next == \/ \E t \in Producers : Call(t) \/ enqueue_msg(t)
        \/ \E t \in Consumers : process_msg(t)
        \/ Spurious
=============================================================================
