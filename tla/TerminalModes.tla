----------------------------- MODULE TerminalModes -----------------------------
(***************************************************************************)
(* lib/ttymodes.c: a process that puts a terminal into cbreak or raw mode  *)
(* with tty_cbreak() and tty_raw(), takes it back with tty_reset() on the  *)
(* same descriptor, and has tty_atexit() as an exit handler.  The modes of *)
(* a terminal are the set of the features that are on; a call of tcsetattr *)
(* may fail or be honoured only in part, and the handler of a signal may   *)
(* call exit() anywhere.                                                   *)
(***************************************************************************)
EXTENDS Integers

CONSTANTS Ttys,      \* descriptors of different terminals
          MaxModes   \* bounds the calls of tty_cbreak and tty_raw

VARIABLES modes,     \* the features each terminal has on
          original,  \* what they were at the start
          save_termios, ttysavefd, ttystate,
          ytty, ymode, \* the arguments of the call that is running
          ypc,       \* what the process does next, or did when exit() was called
          exited,
          spoilt,    \* the terminals that could not be restored, or not fully
          ncalls

yvars == <<modes, original, save_termios, ttysavefd, ttystate, ytty, ymode, ypc, exited, spoilt, ncalls>>

\* Canonical input with its VMIN and VTIME, echo, and all that only raw mode turns off.
Features == {"icanon", "echo", "cooked"}

cleared(mode) == IF mode = "CBREAK" THEN {"icanon", "echo"} ELSE Features

Init == /\ original \in [Ttys -> SUBSET Features]
        /\ modes = original
        /\ save_termios = {} /\ ttysavefd = -1 /\ ttystate = "RESET"
        /\ ytty = -1 /\ ymode = "RESET" /\ ypc = "idle" /\ exited = FALSE
        /\ spoilt = {} /\ ncalls = 0

\* What a tcsetattr that returns 0 may leave: some of the changes were made.
tcsetattr(t, want) == {f \in SUBSET Features : /\ modes[t] \cap want \subseteq f
                                               /\ f \subseteq modes[t] \cup want
                                               /\ f = modes[t] => want = f}

\* The saved modes are set again.
Restored(t, results) == \E f \in results :
                            /\ modes' = [modes EXCEPT ![t] = f]
                            /\ spoilt' = IF f = save_termios THEN spoilt ELSE spoilt \cup {t}
-----------------------------------------------------------------------------
\* tty_cbreak and tty_raw up to the first tcsetattr; they return -1 when the state is
\* not RESET, and when tcgetattr or tcsetattr fails.
SetMode(t, mode) ==
    /\ ypc = "idle" /\ ttystate = "RESET" /\ ncalls < MaxModes
    /\ ncalls' = ncalls + 1
    /\ save_termios' = modes[t]
    /\ \/ /\ \E f \in tcsetattr(t, modes[t] \ cleared(mode)) : modes' = [modes EXCEPT ![t] = f]
          /\ ytty' = t /\ ymode' = mode /\ ypc' = "verify"
       \/ UNCHANGED <<modes, ytty, ymode, ypc>>
    /\ UNCHANGED <<original, ttysavefd, ttystate, exited, spoilt>>

\* All the changes were made.
SetState == /\ ypc = "verify"
            /\ modes[ytty] \cap cleared(ymode) = {}
            /\ ttystate' = ymode
            /\ ypc' = "savefd"
            /\ UNCHANGED <<modes, original, save_termios, ttysavefd, ytty, ymode, exited, spoilt, ncalls>>

SaveFd == /\ ypc = "savefd"
          /\ ttysavefd' = ytty
          /\ ypc' = "idle"
          /\ UNCHANGED <<modes, original, save_termios, ttystate, ytty, ymode, exited, spoilt, ncalls>>

\* A faulty variant, used as a mutant: what was changed stays.
GiveUpKeeps == /\ ypc = "verify"
               /\ ypc' = "idle"
               /\ UNCHANGED <<modes, original, save_termios, ttysavefd, ttystate, ytty, ymode, exited, spoilt, ncalls>>

\* Only some of the changes were made, or tcgetattr fails: the original settings are
\* restored, which is not tested.
GiveUp == /\ ypc = "verify"
          /\ Restored(ytty, tcsetattr(ytty, save_termios) \cup {modes[ytty]})
          /\ ypc' = "idle"
          /\ UNCHANGED <<original, save_termios, ttysavefd, ttystate, ytty, ymode, exited, ncalls>>

tty_cbreak(t) == SetMode(t, "CBREAK")
tty_raw(t) == SetMode(t, "RAW")

\* In state RESET nothing is done; when tcsetattr fails the state stays.
tty_reset == \/ /\ ypc = "idle" /\ ttystate # "RESET"
                /\ Restored(ttysavefd, tcsetattr(ttysavefd, save_termios))
                /\ ypc' = "reset"
                /\ UNCHANGED <<original, save_termios, ttysavefd, ttystate, ytty, ymode, exited, ncalls>>
             \/ /\ ypc = "reset"
                /\ ttystate' = "RESET"
                /\ ypc' = "idle"
                /\ UNCHANGED <<modes, original, save_termios, ttysavefd, ytty, ymode, exited, spoilt, ncalls>>

\* exit(), called by the program or by the handler of a signal, runs tty_atexit, which
\* resets the terminal of ttysavefd if there is one, and cannot do so when tcsetattr fails.
tty_atexit == /\ exited' = TRUE
              /\ IF ttysavefd >= 0 /\ ttystate # "RESET"
                 THEN \/ /\ Restored(ttysavefd, tcsetattr(ttysavefd, save_termios))
                         /\ ttystate' = "RESET"
                      \/ /\ Restored(ttysavefd, {modes[ttysavefd]})
                         /\ UNCHANGED ttystate
                 ELSE UNCHANGED <<modes, ttystate, spoilt>>
              /\ UNCHANGED <<original, save_termios, ttysavefd, ytty, ymode, ypc, ncalls>>

Next == /\ ~exited
        /\ \/ \E t \in Ttys : tty_cbreak(t) \/ tty_raw(t)
           \/ SetState \/ SaveFd \/ GiveUp \/ tty_reset \/ tty_atexit

Spec == Init /\ [][Next]_yvars
-----------------------------------------------------------------------------
\* The state is set but ttysavefd is not yet that of the terminal: an exit() in
\* between resets the terminal before, if there was one, to the modes of this one,
\* and this one not at all.
Astray == ypc = "savefd" /\ ttysavefd # ytty

\* Through any sequence of calls and failures, a terminal whose restoration was not
\* refused has its original modes again when no mode is set and when the process
\* has exited, except that a call of tty_cbreak or tty_raw leaves its own terminal
\* changed until it ends, or the process does, and the terminal before as well
\* if that is between its last two assignments.  And a mode that is set is the whole
\* of it, with the original modes saved.
ModesRestored ==
    /\ ttystate = "RESET" \/ exited =>
           \A t \in Ttys \ spoilt : \/ modes[t] = original[t]
                                    \/ ypc = "verify" /\ t = ytty
                                    \/ Astray /\ exited /\ t \in {ytty, ttysavefd}
    /\ ttystate # "RESET" /\ ypc # "reset" =>
           LET t == IF ypc = "savefd" THEN ytty ELSE ttysavefd
           IN  /\ modes[t] \cap cleared(ttystate) = {}
               /\ t \notin spoilt => save_termios = original[t]
=============================================================================
