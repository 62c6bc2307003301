--------------------------- MODULE CountingSemaphore ---------------------------
(***************************************************************************)
(* What a Semaphore object promises its callers: a counter that wait()     *)
(* takes one unit from, in one indivisible step and only when there is     *)
(* one, and that post() adds one unit to, in one indivisible step that     *)
(* never blocks.  MonitorSemaphore shows that the class in                 *)
(* boundedBuffer/semaphore.cpp keeps the promise; BoundedBuffer relies on  *)
(* nothing else.                                                           *)
(***************************************************************************)
EXTENDS Integers

CONSTANTS Threads,      \* the threads that call the object
          InitialValue  \* the constructor's argument _v

VARIABLES value,  \* the units that can be taken
          call    \* the call each thread is in and that has not taken effect yet

vars == <<value, call>>

Init == /\ value = InitialValue
        /\ call = [t \in Threads |-> "none"]

CallWait(t) == /\ call[t] = "none"
               /\ call' = [call EXCEPT ![t] = "wait"]
               /\ UNCHANGED value

CallPost(t) == /\ call[t] = "none"
               /\ call' = [call EXCEPT ![t] = "post"]
               /\ UNCHANGED value

Take(t) == /\ call[t] = "wait"
           /\ value > 0
           /\ value' = value - 1
           /\ call' = [call EXCEPT ![t] = "none"]

Give(t) == /\ call[t] = "post"
           /\ value' = value + 1
           /\ call' = [call EXCEPT ![t] = "none"]

Next == \E t \in Threads : CallWait(t) \/ CallPost(t) \/ Take(t) \/ Give(t)

Spec == Init /\ [][Next]_vars
=============================================================================
