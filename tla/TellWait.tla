------------------------------- MODULE TellWait -------------------------------
(***************************************************************************)
(* lib/tellwait.c: a parent and its child tell each other to go on with    *)
(* SIGUSR1 and SIGUSR2.  Each of them receives one of the two signals, so  *)
(* that pending and blocked stand for that signal.  The callers make the   *)
(* TELLs and WAITs in any order.                                           *)
(***************************************************************************)
EXTENDS Naturals

CONSTANT MaxTells   \* bounds the TELLs of each process

VARIABLES sigflag, blocked, pending,
          tpc,      \* the statement each process executes next
          told,     \* how often each process was told
          waited    \* how often a WAIT of each process has returned

tvars == <<sigflag, blocked, pending, tpc, told, waited>>

Procs == {"parent", "child"}
Other(p) == IF p = "parent" THEN "child" ELSE "parent"

Init == /\ sigflag = [p \in Procs |-> 0]
        /\ blocked = [p \in Procs |-> FALSE]
        /\ pending = [p \in Procs |-> FALSE]
        /\ tpc = [p \in Procs |-> IF p = "parent" THEN "start" ELSE "none"]
        /\ told = [p \in Procs |-> 0]
        /\ waited = [p \in Procs |-> 0]

Goto(p, from, to) == tpc[p] = from /\ tpc' = [tpc EXCEPT ![p] = to]

\* A faulty variant, used as a mutant: the signals are not blocked.
TELL_WAITNoBlock == /\ Goto("parent", "start", "fork")
                    /\ UNCHANGED <<sigflag, blocked, pending, told, waited>>

\* Installs the handler and blocks both signals, before the fork.
TELL_WAIT == /\ Goto("parent", "start", "fork")
             /\ blocked' = [blocked EXCEPT !["parent"] = TRUE]
             /\ UNCHANGED <<sigflag, pending, told, waited>>

\* The child inherits the handler, the mask and the variables.
Fork == /\ tpc["parent"] = "fork"
        /\ tpc' = [p \in Procs |-> "run"]
        /\ blocked' = [blocked EXCEPT !["child"] = blocked["parent"]]
        /\ UNCHANGED <<sigflag, pending, told, waited>>

\* TELL_CHILD by the parent, TELL_PARENT by the child: a signal that is pending
\* already absorbs the new one.
TELL(p) == /\ tpc[p] = "run"
           /\ told[Other(p)] < MaxTells
           /\ told' = [told EXCEPT ![Other(p)] = @ + 1]
           /\ pending' = [pending EXCEPT ![Other(p)] = TRUE]
           /\ UNCHANGED <<sigflag, blocked, tpc, waited>>

\* sig_usr runs when the signal is not blocked, which it never is in sigsuspend.
sig_usr(p) == /\ pending[p]
              /\ ~blocked[p] \/ tpc[p] = "suspended"
              /\ pending' = [pending EXCEPT ![p] = FALSE]
              /\ sigflag' = [sigflag EXCEPT ![p] = 1]
              /\ tpc' = [tpc EXCEPT ![p] = IF @ = "suspended" THEN "test" ELSE @]
              /\ UNCHANGED <<blocked, told, waited>>
-----------------------------------------------------------------------------
(* WAIT_PARENT by the child, WAIT_CHILD by the parent *)
CallWait(p) == Goto(p, "run", "test") /\ UNCHANGED <<sigflag, blocked, pending, told, waited>>

\* while (sigflag == 0) sigsuspend(&zeromask)
Test(p) == /\ Goto(p, "test", IF sigflag[p] = 0 THEN "suspend" ELSE "clear")
           /\ UNCHANGED <<sigflag, blocked, pending, told, waited>>

sigsuspend(p) == /\ Goto(p, "suspend", "suspended")
                 /\ UNCHANGED <<sigflag, blocked, pending, told, waited>>

\* A faulty variant, used as a mutant: the flag stays set.
ClearSkipped(p) == /\ Goto(p, "clear", "restore")
                   /\ UNCHANGED <<sigflag, blocked, pending, told, waited>>

Clear(p) == /\ Goto(p, "clear", "restore")
            /\ sigflag' = [sigflag EXCEPT ![p] = 0]
            /\ UNCHANGED <<blocked, pending, told, waited>>

\* "Reset signal mask to original value": the signals stay open from here on.
Restore(p) == /\ Goto(p, "restore", "run")
              /\ blocked' = [blocked EXCEPT ![p] = FALSE]
              /\ waited' = [waited EXCEPT ![p] = @ + 1]
              /\ UNCHANGED <<sigflag, pending, told>>

WAIT(p) == Test(p) \/ sigsuspend(p) \/ Clear(p) \/ Restore(p)

Next == \/ TELL_WAIT \/ Fork
        \/ \E p \in Procs : TELL(p) \/ sig_usr(p) \/ CallWait(p) \/ WAIT(p)

Spec == Init /\ [][Next]_tvars
-----------------------------------------------------------------------------
\* The first WAIT of a process returns once it was told, however the signal falls
\* between the test of sigflag and sigsuspend.
FirstWaitReturns == \A p \in Procs : tpc[p] = "test" /\ told[p] > 0 /\ waited[p] = 0
                                     ~> waited[p] > 0

\* No WAIT returns that was not told to, in any round, and a flag that is set
\* stands for a TELL that no WAIT has used up.
WaitNeedsTell == \A p \in Procs :
    waited[p] + sigflag[p] + (IF tpc[p] = "restore" THEN 1 ELSE 0) + (IF pending[p] THEN 1 ELSE 0)
        <= told[p]
=============================================================================
