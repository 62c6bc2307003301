------------------------------ MODULE AlarmSleep ------------------------------
(***************************************************************************)
(* lib/sleep.c: sleep() built on alarm() and sigsuspend(), for a caller    *)
(* that may have an alarm of its own running, may have SIGALRM blocked and *)
(* gets other signals.  One step per system call.                          *)
(***************************************************************************)
EXTENDS Naturals

CONSTANT MaxSeconds

VARIABLES act,        \* whose action SIGALRM has: "caller" or "sleep"
          mask,       \* whether SIGALRM is blocked
          timer,      \* the seconds left of the alarm, 0 when there is none
          owner,      \* who set the alarm that runs
          alrm,       \* whose SIGALRM is pending, or "none"
          lpc,        \* the statement sleep() executes next
          seconds, unslept,
          oldmask,
          caught,     \* whether a signal that is not sleep()'s own ended sigsuspend
          stray       \* whether sleep()'s own SIGALRM met the caller's action

lvars == <<act, mask, timer, owner, alrm, lpc, seconds, unslept, oldmask, caught, stray>>

Init == /\ act = "caller" /\ owner = "caller" /\ lpc = "idle"
        /\ mask \in BOOLEAN
        /\ timer \in 0..MaxSeconds
        /\ alrm = "none" /\ caught = FALSE /\ stray = FALSE /\ oldmask = mask
        /\ seconds = 0 /\ unslept = 0

Goto(from, to) == lpc = from /\ lpc' = to

Call == /\ Goto("idle", "act")
        /\ mask \/ alrm = "none"
        /\ seconds' \in 0..MaxSeconds
        /\ caught' = FALSE /\ stray' = FALSE
        /\ UNCHANGED <<act, mask, timer, owner, alrm, unslept, oldmask>>

\* A faulty variant, used as a mutant: the handler is not installed.
SetActionSkipped == /\ Goto("act", "block")
                    /\ UNCHANGED <<act, mask, timer, owner, alrm, seconds, unslept, oldmask, caught, stray>>

SetAction == /\ Goto("act", "block")
             /\ act' = "sleep"
             /\ UNCHANGED <<mask, timer, owner, alrm, seconds, unslept, oldmask, caught, stray>>

\* A faulty variant, used as a mutant: SIGALRM is left open until sigsuspend.
BlockSkipped == /\ Goto("block", "alarm")
                /\ oldmask' = mask
                /\ UNCHANGED <<act, mask, timer, owner, alrm, seconds, unslept, caught, stray>>

Block == /\ Goto("block", "alarm")
         /\ oldmask' = mask
         /\ mask' = TRUE
         /\ UNCHANGED <<act, timer, owner, alrm, seconds, unslept, caught, stray>>

\* alarm(seconds) ends the alarm that was running; alarm(0) sets none.
Alarm == /\ Goto("alarm", "suspend")
         /\ timer' = seconds
         /\ owner' = "sleep"
         /\ UNCHANGED <<act, mask, alrm, seconds, unslept, oldmask, caught, stray>>

sigsuspend == /\ Goto("suspend", "suspended")
              /\ UNCHANGED <<act, mask, timer, owner, alrm, seconds, unslept, oldmask, caught, stray>>

\* unslept = alarm(0)
Cancel == /\ Goto("cancel", "reset")
          /\ unslept' = timer
          /\ timer' = 0
          /\ owner' = "caller"
          /\ UNCHANGED <<act, mask, alrm, seconds, oldmask, caught, stray>>

\* The previous action and then the previous mask.
Reset == \/ /\ Goto("reset", "unmask")
            /\ act' = "caller"
            /\ UNCHANGED <<mask, timer, owner, alrm, seconds, unslept, oldmask, caught, stray>>
         \/ /\ Goto("unmask", "idle")
            /\ mask' = oldmask
            /\ UNCHANGED <<act, timer, owner, alrm, seconds, unslept, oldmask, caught, stray>>

sleep == SetAction \/ Block \/ Alarm \/ sigsuspend \/ Cancel \/ Reset
-----------------------------------------------------------------------------
(* The environment *)
Tick == /\ timer > 0
        /\ timer' = timer - 1
        /\ alrm' = IF timer = 1 /\ alrm = "none" THEN owner ELSE alrm
        /\ UNCHANGED <<act, mask, owner, lpc, seconds, unslept, oldmask, caught, stray>>

Woken == IF lpc = "suspended" THEN "cancel" ELSE lpc

\* SIGALRM is delivered, to sig_alrm, which does nothing, or to the caller's action.
sig_alrm == /\ alrm # "none"
            /\ ~mask \/ lpc = "suspended"
            /\ alrm' = "none"
            /\ lpc' = Woken
            /\ stray' = (stray \/ (act = "caller" /\ alrm = "sleep"))
            /\ caught' = (caught \/ (lpc = "suspended" /\ alrm = "caller"))
            /\ UNCHANGED <<act, mask, timer, owner, seconds, unslept, oldmask>>

\* The handler of another signal runs; it matters while sleep() waits.
OtherSignal == /\ lpc = "suspended"
               /\ lpc' = Woken
               /\ caught' = TRUE
               /\ UNCHANGED <<act, mask, timer, owner, alrm, seconds, unslept, oldmask, stray>>

Next == Call \/ sleep \/ Tick \/ sig_alrm \/ OtherSignal

Spec == Init /\ [][Next]_lvars
-----------------------------------------------------------------------------
\* sleep(seconds) returns, for seconds above 0: its alarm is not lost between
\* alarm() and sigsuspend().
SleepReturns == lpc # "idle" /\ seconds > 0 ~> lpc = "idle"

\* sleep()'s own SIGALRM meets the caller's action only when another signal, which
\* may be that of the caller's own alarm, ended the sigsuspend and the alarm went
\* off before alarm(0).
OwnAlarmStaysInside == stray => caught
=============================================================================
