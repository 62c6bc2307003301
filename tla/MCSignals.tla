------------------------------ MODULE MCSignals ------------------------------
(***************************************************************************)
(* The examples in which signals arrive between two statements, checked    *)
(* side by side: which says which of them is running.                      *)
(***************************************************************************)
EXTENDS Naturals

CONSTANTS MaxTells, MaxSeconds, N, MaxTyped, Ttys, MaxModes

ASSUME BoundsAssumption == MaxSeconds \in Nat /\ N \in Nat
ASSUME TtysAssumption == Ttys \subseteq Nat

VARIABLES which,
          sigflag, blocked, pending, tpc, told, waited,
          act, mask, timer, owner, alrm, lpc, seconds, unslept, oldmask, caught, stray,
          prog, child, chld, chldact, next, rpc,
          input, typed, sigio, merged, cpc, handler, count_characters_input, flag_quit,
          modes, original, save_termios, ttysavefd, ttystate, ytty, ymode, ypc, exited, spoilt, ncalls

T == INSTANCE TellWait
L == INSTANCE AlarmSleep
R == INSTANCE ChildReaper
C == INSTANCE TerminalInput
Y == INSTANCE TerminalModes

tellwait == <<sigflag, blocked, pending, tpc, told, waited>>
sleep == <<act, mask, timer, owner, alrm, lpc, seconds, unslept, oldmask, caught, stray>>
fork == <<prog, child, chld, chldact, next, rpc>>
capture == <<input, typed, sigio, merged, cpc, handler, count_characters_input, flag_quit>>
ttymodes == <<modes, original, save_termios, ttysavefd, ttystate, ytty, ymode, ypc, exited, spoilt, ncalls>>
MCvars == <<which, tellwait, sleep, fork, capture, ttymodes>>

MCInit == /\ which \in {"tellwait", "sleep", "fork", "capture", "ttymodes"}
          /\ T!Init /\ L!Init /\ R!Init /\ C!Init /\ Y!Init
          /\ which # "sleep" => timer = 0 /\ ~mask
          /\ which # "fork" => prog = "sig2"
          /\ which # "ttymodes" => \A t \in Ttys : original[t] = {}

TellWait(A) == which = "tellwait" /\ A /\ UNCHANGED <<which, sleep, fork, capture, ttymodes>>
Sleep(A) == which = "sleep" /\ A /\ UNCHANGED <<which, tellwait, fork, capture, ttymodes>>

MCNext == \/ TellWait(T!Next)
          \/ Sleep(L!Next)
          \/ which = "fork" /\ R!Next /\ UNCHANGED <<which, tellwait, sleep, capture, ttymodes>>
          \/ which = "capture" /\ C!Next /\ UNCHANGED <<which, tellwait, sleep, fork, ttymodes>>
          \/ which = "ttymodes" /\ Y!Next /\ UNCHANGED <<which, tellwait, sleep, fork, capture>>

\* A process that can go on does, a signal that is pending and not blocked is
\* delivered, and time passes.
MCFairSpec == /\ MCInit
              /\ [][MCNext]_MCvars
              /\ \A p \in T!Procs : /\ WF_MCvars(TellWait(T!WAIT(p)))
                                    /\ WF_MCvars(TellWait(T!sig_usr(p)))
              /\ WF_MCvars(Sleep(L!sleep)) /\ WF_MCvars(Sleep(L!Tick)) /\ WF_MCvars(Sleep(L!sig_alrm))

\* The first WAIT returns when the process was told.
FirstWaitReturns == T!FirstWaitReturns

\* A WAIT does not return before the other process has told.
WaitNeedsTell == T!WaitNeedsTell

\* sleep() returns when its time is over.
SleepReturns == L!SleepReturns

\* The SIGALRM of sleep() does not reach the caller's action.
OwnAlarmStaysInside == L!OwnAlarmStaysInside

\* The SIGCHLD handler does not block in wait().
ReaperNeverBlocks == R!ReaperNeverBlocks

\* Characters stay unread only when their signals merged.
UnreadWasMerged == C!UnreadWasMerged

\* Terminals get their modes back, unless exit() cuts tty_cbreak or tty_raw short.
ModesRestored == Y!ModesRestored
=============================================================================
