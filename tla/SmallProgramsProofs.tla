------------------------ MODULE SmallProgramsProofs ------------------------
(***************************************************************************)
(* The safety properties of the examples of signals and of those of        *)
(* threads that share no state, for every bound.                           *)
(***************************************************************************)
EXTENDS MCSignals, MCThreads, SequenceTheorems, CountingProofs
-----------------------------------------------------------------------------
(* TellWait *)

\* A process that is past the test of its flag has the flag set.
TellInv == /\ sigflag \in [T!Procs -> {0, 1}]
           /\ blocked \in [T!Procs -> BOOLEAN]
           /\ pending \in [T!Procs -> BOOLEAN]
           /\ tpc \in [T!Procs -> {"start", "none", "fork", "run", "test", "suspend", "suspended",
                                   "clear", "restore"}]
           /\ told \in [T!Procs -> Nat]
           /\ waited \in [T!Procs -> Nat]
           /\ \A p \in T!Procs : tpc[p] = "clear" => sigflag[p] = 1
           /\ WaitNeedsTell

\* A WAIT returns only when the process was told, any number of TELLs on.
THEOREM TellWaitTold == T!Spec => []WaitNeedsTell
<1>1. T!Init => TellInv
  BY DEF T!Init, TellInv, WaitNeedsTell, T!WaitNeedsTell, T!Procs
<1>2. TellInv /\ [T!Next]_T!tvars => TellInv'
  <2> SUFFICES ASSUME TellInv, [T!Next]_T!tvars PROVE TellInv'
    OBVIOUS
  <2> USE DEF TellInv, WaitNeedsTell, T!WaitNeedsTell
  <2>1. CASE UNCHANGED T!tvars
    BY <2>1 DEF T!tvars
  <2>2. CASE T!TELL_WAIT
    BY <2>2 DEF T!TELL_WAIT, T!Goto, T!Procs
  <2>8. CASE T!Fork
    <3>1. "parent" \in T!Procs /\ "child" \in T!Procs
      BY DEF T!Procs
    <3> QED  BY <2>8, <3>1 DEF T!Fork
  <2>3. ASSUME NEW p \in T!Procs, T!TELL(p)
        PROVE  TellInv'
    BY <2>3 DEF T!TELL, T!Other, T!Procs
  <2>4. ASSUME NEW p \in T!Procs, T!sig_usr(p)
        PROVE  TellInv'
    BY <2>4 DEF T!sig_usr
  <2>5. ASSUME NEW p \in T!Procs, T!CallWait(p) \/ T!Test(p) \/ T!sigsuspend(p)
        PROVE  TellInv'
    BY <2>5 DEF T!CallWait, T!Test, T!sigsuspend, T!Goto
  <2>6. ASSUME NEW p \in T!Procs, T!Clear(p)
        PROVE  TellInv'
    BY <2>6 DEF T!Clear, T!Goto
  <2>7. ASSUME NEW p \in T!Procs, T!Restore(p)
        PROVE  TellInv'
    BY <2>7 DEF T!Restore, T!Goto
  <2> QED  BY <2>1, <2>2, <2>3, <2>4, <2>5, <2>6, <2>7, <2>8 DEF T!Next, T!WAIT
<1>3. TellInv => WaitNeedsTell
  BY DEF TellInv
<1> QED  BY <1>1, <1>2, <1>3, PTL DEF T!Spec
-----------------------------------------------------------------------------
(* AlarmSleep *)

\* sleep() has its handler and the blocked signal between its calls.  When the caller
\* leaves SIGALRM open (~oldmask), an alarm of sleep() that is pending, or that may
\* still go off once sigsuspend is over, follows a signal that was not its own.
SleepInv ==
    /\ act \in {"caller", "sleep"} /\ mask \in BOOLEAN /\ oldmask \in BOOLEAN
    /\ timer \in Nat /\ seconds \in Nat /\ owner \in {"caller", "sleep"}
    /\ alrm \in {"none", "caller", "sleep"}
    /\ lpc \in {"idle", "act", "block", "alarm", "suspend", "suspended", "cancel", "reset", "unmask"}
    /\ caught \in BOOLEAN /\ stray \in BOOLEAN
    /\ mask <=> (oldmask \/ lpc \notin {"idle", "act", "block"})
    /\ act = IF lpc \in {"idle", "act", "unmask"} THEN "caller" ELSE "sleep"
    /\ owner = "sleep" => lpc \in {"suspend", "suspended", "cancel"}
    /\ ~oldmask /\ alrm = "sleep" =>
           \/ lpc \in {"suspend", "suspended"} /\ timer = 0
           \/ lpc \in {"cancel", "reset", "unmask", "idle"} /\ caught
    /\ ~oldmask /\ lpc = "cancel" /\ timer > 0 => caught
    /\ stray => caught

\* sleep()'s SIGALRM meets the caller's action only after another signal.
THEOREM SleepAlarmInside == L!Spec => []OwnAlarmStaysInside
<1>1. L!Init => SleepInv
  <2> SUFFICES ASSUME L!Init PROVE SleepInv
    OBVIOUS
  <2>1. timer \in Nat /\ ~(alrm = "sleep") /\ seconds \in Nat
    BY BoundsAssumption DEF L!Init
  <2>2. mask \in BOOLEAN /\ oldmask \in BOOLEAN /\ (mask <=> oldmask) /\ caught \in BOOLEAN
        /\ stray \in BOOLEAN /\ ~stray
    BY Zenon DEF L!Init
  <2> QED  BY <2>1, <2>2 DEF L!Init, SleepInv
<1>2. SleepInv /\ [L!Next]_L!lvars => SleepInv'
  <2> SUFFICES ASSUME SleepInv, [L!Next]_L!lvars PROVE SleepInv'
    OBVIOUS
  <2> USE DEF SleepInv
  <2>1. CASE UNCHANGED L!lvars
    BY <2>1 DEF L!lvars
  <2>2. CASE L!Call
    <3>1. seconds' \in Nat
      BY <2>2, BoundsAssumption DEF L!Call
    <3>2. ~stray' /\ stray' \in BOOLEAN /\ caught' \in BOOLEAN
      BY <2>2, Zenon DEF L!Call
    <3> QED  BY <2>2, <3>1, <3>2 DEF L!Call, L!Goto
  <2>3. CASE L!SetAction
    BY <2>3 DEF L!SetAction, L!Goto
  <2>10. CASE L!Block
    <3>1. ~oldmask' => ~oldmask
      BY <2>10 DEF L!Block, L!Goto
    <3>2. mask' /\ mask' \in BOOLEAN /\ oldmask' \in BOOLEAN
      BY <2>10, Zenon DEF L!Block
    <3> QED  BY <2>10, <3>1, <3>2 DEF L!Block, L!Goto
  <2>4. CASE L!Alarm \/ L!sigsuspend
    BY <2>4 DEF L!Alarm, L!sigsuspend, L!Goto
  <2>5. CASE L!Cancel
    BY <2>5 DEF L!Cancel, L!Goto
  <2>6. CASE L!Reset
    BY <2>6 DEF L!Reset, L!Goto
  <2>7. CASE L!Tick
    BY <2>7 DEF L!Tick
  <2>8. CASE L!sig_alrm
    BY <2>8 DEF L!sig_alrm, L!Woken
  <2>9. CASE L!OtherSignal
    BY <2>9 DEF L!OtherSignal, L!Woken
  <2> QED
    BY <2>1, <2>2, <2>3, <2>4, <2>5, <2>6, <2>7, <2>8, <2>9, <2>10 DEF L!Next, L!sleep
<1>3. SleepInv => OwnAlarmStaysInside
  BY DEF SleepInv, OwnAlarmStaysInside, L!OwnAlarmStaysInside
<1> QED  BY <1>1, <1>2, <1>3, PTL DEF L!Spec
-----------------------------------------------------------------------------
(* ChildReaper *)

InHandler == rpc \in {"handler_fork", "handler_relax"}

\* A pending SIGCHLD and a running handler stand for a zombie each, and only sig2.cpp
\* has them; the children still to be created have no state.
ReaperInv ==
    /\ child \in [R!Kids -> {"none", "running", "zombie", "gone"}]
    /\ chld \in BOOLEAN
    /\ next \in Nat
    /\ \A k \in R!Kids : k >= next => child[k] = "none"
    /\ rpc = "install" => prog = "sig2" /\ chldact = "default"
    /\ chldact = "handler" => rpc \in {"fork", "relax", "handler_fork", "handler_relax"}
                              /\ prog = "sig2"
    /\ chldact # "handler" => ~chld /\ ~InHandler
    /\ chld \/ InHandler => R!Zombies # {}
    /\ chld /\ InHandler => \E k, l \in R!Zombies : k # l

\* my_handler always finds a child that has ended, for any number of children.
THEOREM ReaperWaits == R!Spec => []ReaperNeverBlocks
<1>1. R!Init => ReaperInv
  <2>1. R!Init => ~chld /\ chld \in BOOLEAN
    BY Zenon DEF R!Init
  <2> QED  BY <2>1 DEF R!Init, ReaperInv, R!Progs, InHandler
<1>2. ReaperInv /\ [R!Next]_R!rvars => ReaperInv'
  <2> SUFFICES ASSUME ReaperInv, [R!Next]_R!rvars PROVE ReaperInv'
    OBVIOUS
  <2> USE DEF ReaperInv, InHandler, R!Zombies
  <2>1. CASE UNCHANGED R!rvars
    BY <2>1 DEF R!rvars
  <2>2. CASE R!Install
    BY <2>2 DEF R!Install
  <2>3. CASE R!Fork
    <3>1. \A k \in R!Kids : k \in Nat
      BY BoundsAssumption DEF R!Kids
    <3>2. R!Zombies \subseteq R!Zombies'
      BY <2>3, <3>1 DEF R!Fork
    <3>3. child' \in [R!Kids -> {"none", "running", "zombie", "gone"}]
          /\ \A k \in R!Kids : k >= next' => child'[k] = "none"
      BY <2>3, <3>1 DEF R!Fork
    <3>4. rpc' \in {"ignore", "wait", "fork", "relax", "exit"}
          /\ (prog = "sig2" => rpc' \in {"fork", "relax"})
      BY <2>3 DEF R!Fork
    <3> QED  BY <2>3, <3>2, <3>3, <3>4 DEF R!Fork
  <2>4. CASE R!Ignore
    BY <2>4 DEF R!Ignore
  <2>5. ASSUME NEW k \in R!Kids, R!Exit(k)
        PROVE  ReaperInv'
    BY <2>5 DEF R!Exit
  <2>6. CASE R!Deliver
    BY <2>6 DEF R!Deliver
  <2>7. CASE R!my_handler
    BY <2>7 DEF R!my_handler
  <2>8. CASE R!Wait
    BY <2>8 DEF R!Wait
  <2> QED  BY <2>1, <2>2, <2>3, <2>4, <2>5, <2>6, <2>7, <2>8 DEF R!Next
<1>3. ReaperInv => ReaperNeverBlocks
  BY DEF ReaperInv, InHandler, ReaperNeverBlocks, R!ReaperNeverBlocks
<1> QED  BY <1>1, <1>2, <1>3, PTL DEF R!Spec
-----------------------------------------------------------------------------
(* TerminalInput *)

Chars == {"c", "q", "eof"}

InputInv ==
    /\ input \in Seq(Chars)
    /\ sigio \in BOOLEAN /\ handler \in BOOLEAN
    /\ merged \in Nat
    /\ Len(input) <= merged + 2
    /\ ~sigio \/ ~handler => Len(input) <= merged + 1
    /\ ~sigio /\ ~handler => Len(input) <= merged

\* A character stays unread only when its signal was merged with another, however
\* many are typed.
THEOREM InputUnread == C!Spec => []UnreadWasMerged
<1>1. C!Init => InputInv
  <2> SUFFICES ASSUME C!Init PROVE InputInv
    OBVIOUS
  <2>1. input \in Seq(Chars) /\ Len(input) = 0 /\ merged = 0
    BY DEF C!Init
  <2>2. sigio \in BOOLEAN /\ handler \in BOOLEAN
    BY Zenon DEF C!Init
  <2> QED  BY <2>1, <2>2 DEF InputInv
<1>2. InputInv /\ [C!Next]_C!cvars => InputInv'
  <2> SUFFICES ASSUME InputInv, [C!Next]_C!cvars PROVE InputInv'
    OBVIOUS
  <2> USE DEF InputInv
  <2>1. CASE UNCHANGED C!cvars
    BY <2>1 DEF C!cvars
  <2>2. CASE C!Configure \/ C!Quit
    BY <2>2 DEF C!Configure, C!Quit
  <2>3. ASSUME NEW c \in {"c", "q", "eof"}, C!Type(c)
        PROVE  InputInv'
    <3>1. input' \in Seq(Chars) /\ Len(input') = Len(input) + 1
      BY <2>3 DEF C!Type, Chars
    <3>2. CASE cpc = "loop" /\ ~sigio
      <4>1. sigio' /\ sigio' \in BOOLEAN
        BY <2>3, <3>2, Zenon DEF C!Type
      <4>2. Len(input) \in Nat /\ merged' = merged /\ handler' = handler
        BY <2>3, <3>2 DEF C!Type
      <4> QED  BY <3>1, <3>2, <4>1, <4>2
    <3>3. CASE ~(cpc = "loop" /\ ~sigio)
      <4>1. Len(input) \in Nat /\ merged' = merged + 1 /\ handler' = handler /\ sigio' = sigio
        BY <2>3, <3>3 DEF C!Type
      <4> QED  BY <3>1, <4>1
    <3> QED  BY <3>2, <3>3
  <2>4. CASE C!Deliver
    BY <2>4 DEF C!Deliver
  <2>5. CASE C!sig_io
    <3>1. ~handler' /\ handler' \in BOOLEAN /\ handler
      BY <2>5, Zenon DEF C!sig_io
    <3>2. input' \in Seq(Chars) /\ (\/ input' = input /\ Len(input) = 0
                                    \/ Len(input') = Len(input) - 1)
      BY <2>5 DEF C!sig_io, C!Take
    <3>3. Len(input) \in Nat /\ Len(input') \in Nat
      BY <3>2
    <3> QED  BY <2>5, <3>1, <3>2, <3>3 DEF C!sig_io
  <2> QED  BY <2>1, <2>2, <2>3, <2>4, <2>5 DEF C!Next
<1>3. InputInv => UnreadWasMerged
  BY DEF InputInv, UnreadWasMerged, C!UnreadWasMerged
<1> QED  BY <1>1, <1>2, <1>3, PTL DEF C!Spec
-----------------------------------------------------------------------------
(* TerminalModes *)

\* The terminal whose modes may differ from the original ones.
Changed == IF ypc \in {"verify", "savefd"} THEN {ytty}
           ELSE IF ypc = "reset" \/ ttystate = "RESET" THEN {} ELSE {ttysavefd}

\* While the process runs, at most one terminal has other modes than at the start, the
\* one a call is about or the one in a mode, and then its original modes are
\* saved; unless it was spoilt.
Running ==
    /\ Changed \subseteq Ttys
    /\ ypc = "verify" => ttystate = "RESET" /\ ymode \in {"CBREAK", "RAW"}
    /\ ypc = "savefd" => ttystate \in {"CBREAK", "RAW"}
    /\ ypc = "reset" => ttystate # "RESET"
    /\ ttystate # "RESET" /\ ypc # "savefd" => /\ ttysavefd \in Ttys
                                               /\ ttysavefd \notin spoilt => save_termios = original[ttysavefd]
    /\ \A t \in Changed \ spoilt : save_termios = original[t]
    /\ \A t \in Ttys \ (spoilt \cup Changed) : modes[t] = original[t]
    /\ ttystate # "RESET" => \A t \in Changed : modes[t] \cap Y!cleared(ttystate) = {}

ModesInv ==
    /\ modes \in [Ttys -> SUBSET Y!Features] /\ original \in [Ttys -> SUBSET Y!Features]
    /\ ypc \in {"idle", "verify", "savefd", "reset"}
    /\ exited \in BOOLEAN
    /\ ttysavefd \in Ttys \cup {-1}
    /\ IF exited THEN ModesRestored ELSE Running

\* Terminals get their modes back, for any terminals, any number of calls and an exit
\* between any two statements, with the two exceptions ModesRestored makes.
THEOREM ModesGivenBack == Y!Spec => []ModesRestored
<1> USE DEF ModesInv, Running, Changed
<1>1. Y!Init => ModesInv
  BY DEF Y!Init
<1>2. ~exited /\ Running => ModesRestored
  BY DEF ModesRestored, Y!ModesRestored, Y!Astray
<1>3. ModesInv /\ [Y!Next]_Y!yvars => ModesInv'
  <2>0. ASSUME ModesInv, UNCHANGED Y!yvars PROVE ModesInv'
    <3>1. ModesRestored' <=> ModesRestored
      BY <2>0 DEF Y!yvars, ModesRestored, Y!ModesRestored, Y!Astray
    <3> QED  BY <2>0, <3>1 DEF Y!yvars
  <2> SUFFICES ASSUME ModesInv, Y!Next PROVE ModesInv'
    BY <2>0
  <2>1. ~exited /\ Running
    BY DEF Y!Next
  <2>2. ASSUME NEW t \in Ttys, NEW mode \in {"CBREAK", "RAW"}, Y!SetMode(t, mode)
        PROVE  ModesInv'
    BY <2>1, <2>2 DEF Y!SetMode, Y!tcsetattr
  <2>3. CASE Y!SetState
    BY <2>1, <2>3 DEF Y!SetState
  <2>4. CASE Y!SaveFd
    BY <2>1, <2>4 DEF Y!SaveFd
  <2>5. CASE Y!GiveUp
    BY <2>1, <2>5 DEF Y!GiveUp, Y!Restored, Y!tcsetattr
  <2>6. CASE Y!tty_reset
    BY <2>1, <2>6 DEF Y!tty_reset, Y!Restored, Y!tcsetattr
  <2>7. CASE Y!tty_atexit
    <3>1. /\ exited' = TRUE /\ original' = original /\ save_termios' = save_termios
          /\ ttysavefd' = ttysavefd /\ ytty' = ytty /\ ypc' = ypc
      BY <2>7 DEF Y!tty_atexit
    <3>2. CASE ttysavefd >= 0 /\ ttystate # "RESET"
      <4>1. ttysavefd \in Ttys
        BY <3>2
      <4>2. PICK f \in SUBSET Y!Features :
                /\ modes' = [modes EXCEPT ![ttysavefd] = f]
                /\ spoilt' = IF f = save_termios THEN spoilt ELSE spoilt \cup {ttysavefd}
                /\ \/ ttystate' = "RESET"
                   \/ ttystate' = ttystate /\ f = modes[ttysavefd]
        BY <2>7, <3>2, <4>1 DEF Y!tty_atexit, Y!Restored, Y!tcsetattr
      <4>3. ModesRestored'
        BY <2>1, <3>1, <3>2, <4>1, <4>2 DEF ModesRestored, Y!ModesRestored, Y!Astray
      <4> QED  BY <3>1, <4>1, <4>2, <4>3
    <3>3. CASE ~(ttysavefd >= 0 /\ ttystate # "RESET")
      <4>1. modes' = modes /\ spoilt' = spoilt /\ ttystate' = ttystate
        BY <2>7, <3>3 DEF Y!tty_atexit
      <4>2. ttystate # "RESET" => ttysavefd = -1 /\ ypc = "savefd"
        BY <2>1, <3>3, TtysAssumption
      <4>3. -1 \notin Ttys
        BY TtysAssumption
      <4>4. ModesRestored'
        BY <2>1, <3>1, <4>1, <4>2, <4>3 DEF ModesRestored, Y!ModesRestored, Y!Astray
      <4> QED  BY <3>1, <4>1, <4>4
    <3> QED  BY <3>2, <3>3
  <2> QED
    BY <2>2, <2>3, <2>4, <2>5, <2>6, <2>7 DEF Y!Next, Y!tty_cbreak, Y!tty_raw
<1>4. ModesInv => ModesRestored
  BY <1>2
<1> QED  BY <1>1, <1>3, <1>4, PTL DEF Y!Spec
-----------------------------------------------------------------------------
(* SharedCounter *)

Adds == {"lock", "loop", "write", "print", "unlock", "done"}
Inside(t) == upc[t] \in {"loop", "write", "print", "unlock"}
Told(t) == upc[t] \in {"unlock", "done"}

CounterType == /\ data \in Nat /\ x \in Nat /\ mutexed \in BOOLEAN /\ m \in BOOLEAN
               /\ step \in {1, x}
               /\ upc \in [U!Funcs -> Adds]
               /\ reg \in [U!Funcs -> Nat]
               /\ i \in [U!Funcs -> Nat]

\* A thread adds up to x, at once in optimised code.
Loops == \A t \in U!Funcs :
             /\ i[t] <= x /\ (i[t] \in {0, x} \/ step = 1)
             /\ upc[t] = "lock" => i[t] = 0
             /\ upc[t] = "write" => i[t] < x
             /\ upc[t] \in {"print", "unlock", "done"} => i[t] = x

\* With the mutex no addition is lost, and a thread prints when it has made its own.
Mutual == \A t, o \in U!Funcs : t # o =>
              /\ data = i[t] + i[o]
              /\ Inside(t) => m /\ ~Inside(o)
              /\ upc[t] = "write" => reg[t] = data
              /\ Told(t) /\ Told(o) => printed = <<x, 2 * x>>
              /\ Told(t) /\ ~Told(o) => printed = <<x>>
              /\ ~Told(t) /\ ~Told(o) => printed = <<>>

\* Without it, a thread that has added reads 1 or more, so its second addition leaves
\* 2 or more.
Racing == \A t, o \in U!Funcs : t # o =>
              /\ data <= i[t] + i[o]
              /\ i[t] > 0 => data > 0
              /\ i[t] > 1 /\ i[o] > 1 => data > 1
              /\ upc[t] = "write" => reg[t] <= i[t] + i[o] /\ (i[t] > 0 => reg[t] > 0)

CounterInv == CounterType /\ Loops /\ (mutexed => Mutual) /\ (~mutexed => Racing)

\* What appending to a sequence of one element gives.
LEMMA AppendSecond == ASSUME NEW a \in Nat, NEW b \in Nat PROVE Append(<<a>>, b) = <<a, b>>
<1>1. /\ Append(<<a>>, b) \in Seq(Nat) /\ Len(Append(<<a>>, b)) = 2
      /\ Append(<<a>>, b)[1] = a /\ Append(<<a>>, b)[2] = b
  OBVIOUS
<1>2. <<a, b>> \in Seq(Nat) /\ Len(<<a, b>>) = 2 /\ <<a, b>>[1] = a /\ <<a, b>>[2] = b
  OBVIOUS
<1>3. \A j \in 1..2 : j = 1 \/ j = 2
  OBVIOUS
<1>4. \A j \in 1..Len(Append(<<a>>, b)) : Append(<<a>>, b)[j] = <<a, b>>[j]
  BY <1>1, <1>2, <1>3
<1> QED  BY <1>1, <1>2, <1>4, SeqEqual

\* Each program's result, for every x: x and 2 * x with the mutex, and without it at
\* least 2 (or x, when that is less) and at most 2 * x.
THEOREM CounterResult == U!Spec => []CounterValue
<1> USE xAssumption DEF U!Funcs
<1>1. U!Init => CounterInv
  <2> SUFFICES ASSUME U!Init PROVE CounterInv
    OBVIOUS
  <2>1. mutexed \in BOOLEAN /\ m \in BOOLEAN
    BY Zenon DEF U!Init
  <2>2. CounterType
    BY <2>1 DEF U!Init, CounterType, Adds
  <2>3. Loops
    BY DEF U!Init, Loops
  <2>4. Mutual /\ Racing
    BY DEF U!Init, Mutual, Racing, Inside, Told
  <2> QED  BY <2>2, <2>3, <2>4 DEF CounterInv
<1>2. CounterInv /\ [U!Next]_U!uvars => CounterInv'
  <2> SUFFICES ASSUME CounterInv, [U!Next]_U!uvars PROVE CounterInv'
    OBVIOUS
  <2>1. CASE UNCHANGED U!uvars
    BY <2>1 DEF U!uvars, CounterInv, CounterType, Loops, Mutual, Racing, Inside, Told
  <2>2. ASSUME NEW t \in U!Funcs, U!func(t) PROVE CounterInv'
    <3>1. PICK o \in U!Funcs : o # t /\ U!Funcs = {t, o}
      BY Zenon
    <3> HIDE DEF U!Funcs
    <3>2. CounterType /\ Loops /\ (mutexed => Mutual) /\ (~mutexed => Racing)
      BY DEF CounterInv
    <3>3. mutexed' = mutexed /\ step' = step /\ m' \in BOOLEAN
      BY <2>2, <3>2, Zenon DEF U!func, U!Lock, U!Read, U!Write, U!PrintLine, U!Unlock, CounterType
    <3>4. CounterType'
      <4>1. data' \in Nat /\ x' \in Nat
        BY <2>2, <3>2, <3>3 DEF U!func, U!Lock, U!Read, U!Write, U!PrintLine, U!Unlock, CounterType
      <4>2. upc' \in [U!Funcs -> Adds]
        BY <2>2, <3>2 DEF U!func, U!Lock, U!Read, U!Write, U!PrintLine, U!Unlock, U!Goto,
                          CounterType, Adds
      <4>3. reg' \in [U!Funcs -> Nat]
        BY <2>2, <3>2 DEF U!func, U!Lock, U!Read, U!Write, U!PrintLine, U!Unlock, CounterType
      <4>4. i' \in [U!Funcs -> Nat]
        BY <2>2, <3>2 DEF U!func, U!Lock, U!Read, U!Write, U!PrintLine, U!Unlock, CounterType
      <4> QED  BY <3>2, <3>3, <4>1, <4>2, <4>3, <4>4 DEF CounterType
    <3>5. upc'[o] = upc[o] /\ reg'[o] = reg[o] /\ i'[o] = i[o]
      BY <2>2, <3>1, <3>2 DEF U!func, U!Lock, U!Read, U!Write, U!PrintLine, U!Unlock, U!Goto,
                              CounterType
    <3>6. CASE U!Lock(t)
      BY <3>1, <3>2, <3>3, <3>4, <3>5, <3>6 DEF U!Lock, U!Goto, CounterInv, CounterType, Loops,
                                            Mutual, Racing, Inside, Told
    <3>7. CASE U!Read(t)
      BY <3>1, <3>2, <3>3, <3>4, <3>5, <3>7 DEF U!Read, U!Goto, CounterInv, CounterType, Loops,
                                            Mutual, Racing, Inside, Told
    <3>8. CASE U!Write(t)
      <4>1. /\ upc[t] = "write" /\ upc'[t] = "loop" /\ reg'[t] = reg[t]
            /\ data' = reg[t] + step /\ i'[t] = i[t] + step
            /\ m' = m /\ printed' = printed
        BY <3>2, <3>8 DEF U!Write, U!Goto, CounterType
      <4>2. /\ data \in Nat /\ x \in Nat /\ i[t] \in Nat /\ i[o] \in Nat /\ reg[t] \in Nat
            /\ i[t] < x /\ (step = 1 \/ (step = x /\ i[t] = 0))
        BY <3>2, <4>1 DEF CounterType, Loops
      <4>3. Loops'
        BY <3>1, <3>2, <3>3, <3>5, <4>1, <4>2 DEF Loops
      <4>4. ASSUME mutexed PROVE Mutual'
        <5>1. /\ reg[t] = data /\ data = i[t] + i[o] /\ ~Inside(o) /\ m
              /\ ~Told(t) /\ (Told(o) => printed = <<x>>) /\ (~Told(o) => printed = <<>>)
          BY <3>1, <3>2, <4>1, <4>4 DEF Mutual, Inside, Told
        <5>2. data' = i'[t] + i'[o] /\ data' = i'[o] + i'[t]
          BY <3>5, <4>1, <4>2, <5>1, <3>3, <3>2, SMTT(30) DEF CounterType
        <5> QED  BY <3>1, <3>5, <4>1, <5>1, <5>2 DEF Mutual, Inside, Told
      <4>5. ASSUME ~mutexed PROVE Racing'
        <5>1. /\ reg[t] <= i[t] + i[o] /\ (i[t] > 0 => reg[t] > 0)
              /\ upc[o] = "write" => reg[o] <= i[t] + i[o] /\ (i[o] > 0 => reg[o] > 0)
          BY <3>1, <3>2, <4>1, <4>2, <4>5 DEF Racing
        <5>2. /\ data' > 0 /\ data' <= i'[t] + i'[o] /\ (i'[t] > 1 => data' > 1)
              /\ upc[o] = "write" => reg[o] <= i'[t] + i'[o]
          BY <3>2, <3>5, <4>1, <4>2, <5>1 DEF CounterType
        <5> QED  BY <3>1, <3>4, <3>5, <4>1, <5>1, <5>2 DEF Racing, CounterType
      <4> QED  BY <3>3, <3>4, <4>3, <4>4, <4>5 DEF CounterInv
    <3>9. CASE U!PrintLine(t)
      <4>1. /\ upc[t] = "print" /\ upc'[t] = "unlock" /\ reg' = reg /\ data' = data /\ i' = i
            /\ m' = m /\ printed' = Append(printed, data)
        BY <3>2, <3>9 DEF U!PrintLine, U!Goto, CounterType
      <4>2. data \in Nat /\ x \in Nat /\ i[t] = x /\ i[o] \in Nat
        BY <3>2, <4>1 DEF CounterType, Loops
      <4>3. Loops'
        BY <3>1, <3>2, <3>3, <3>5, <4>1, <4>2 DEF Loops
      <4>4. ASSUME mutexed PROVE Mutual'
        <5>1. /\ data = x + i[o] /\ ~Inside(o) /\ m /\ ~Told(t)
              /\ (Told(o) => printed = <<x>>) /\ (~Told(o) => printed = <<>>)
              /\ i[t] + i[o] = i[o] + i[t]
          BY <3>1, <3>2, <4>1, <4>2, <4>4 DEF Mutual, Inside, Told
        <5>2. CASE Told(o)
          <6>1. i[o] = x
            BY <3>2, <5>2 DEF Loops, Told
          <6>3. data = 2 * x /\ printed = <<x>>
            BY <4>2, <5>1, <5>2, <6>1
          <6>2. printed' = <<x, 2 * x>>
            BY <4>1, <4>2, <6>3, AppendSecond
          <6> QED  BY <3>1, <3>5, <4>1, <4>2, <5>1, <5>2, <6>2 DEF Mutual, Inside, Told
        <5>3. CASE ~Told(o)
          <6>1. i[o] = 0
            BY <3>2, <5>1, <5>3 DEF CounterType, Loops, Told, Inside, Adds
          <6>2. printed' = <<x>>
            BY <4>1, <4>2, <5>1, <5>3, <6>1
          <6> QED  BY <3>1, <3>5, <4>1, <4>2, <5>1, <5>3, <6>2, ZenonT(30) DEF Mutual, Inside, Told
        <5> QED  BY <5>2, <5>3
      <4>5. ASSUME ~mutexed PROVE Racing'
        BY <3>1, <3>2, <3>5, <4>1, <4>5 DEF Racing
      <4> QED  BY <3>3, <3>4, <4>3, <4>4, <4>5 DEF CounterInv
    <3>10. CASE U!Unlock(t)
      BY <3>1, <3>2, <3>3, <3>4, <3>5, <3>10 DEF U!Unlock, U!Goto, CounterInv, CounterType, Loops,
                                            Mutual, Racing, Inside, Told
    <3> QED  BY <2>2, <3>6, <3>7, <3>8, <3>9, <3>10 DEF U!func
  <2> QED  BY <2>1, <2>2 DEF U!Next
<1>3. CounterInv => CounterValue
  <2> SUFFICES ASSUME CounterInv, \A t \in U!Funcs : upc[t] = "done"
               PROVE  IF mutexed THEN printed = <<x, 2 * x>>
                      ELSE data \in (IF x < 2 THEN x ELSE 2)..(2 * x)
    BY DEF CounterValue, U!CounterValue
  <2>1. CASE mutexed
    BY <2>1 DEF CounterInv, Mutual, Told
  <2>2. CASE ~mutexed
    BY <2>2 DEF CounterInv, CounterType, Loops, Racing
  <2> QED  BY <2>1, <2>2
<1> QED  BY <1>1, <1>2, <1>3, PTL DEF U!Spec
-----------------------------------------------------------------------------
(* JobQueue *)

\* The list has the jobs of s, each once, linked from the head on and from the tail back.
Linked(nx, pv, hd, tl, s) ==
    /\ nx \in [Jobs -> Jobs \cup {NULL}] /\ pv \in [Jobs -> Jobs \cup {NULL}]
    /\ s \in Seq(Jobs)
    /\ \A a, b \in 1..Len(s) : s[a] = s[b] => a = b
    /\ J!Path(nx, hd, s)
    /\ tl = IF s = <<>> THEN NULL ELSE s[Len(s)]
    /\ \A a \in 1..Len(s) : pv[s[a]] = IF a > 1 THEN s[a - 1] ELSE NULL

\* Two ways along the same links do not part.
LEMMA PathStays ==
    ASSUME NEW f, NEW start, NEW s \in Seq(Jobs), NEW u \in Seq(Jobs),
           J!Path(f, start, s), J!Path(f, start, u)
    PROVE  \A a \in 1..Len(s) : a <= Len(u) /\ u[a] = s[a]
<1> DEFINE Parted == {a \in 1..Len(s) : ~(a <= Len(u) /\ u[a] = s[a])}
<1> SUFFICES ASSUME Parted # {} PROVE FALSE
  OBVIOUS
<1>1. Parted \subseteq Nat
  OBVIOUS
<1>2. PICK a \in Parted : \A b \in Parted : a <= b
  BY <1>1, LeastOf
<1>3. s[a] \in Jobs /\ s[a] # NULL
  BY <1>2, JobsAssumption
<1>4. CASE a = 1
  <2>1. start = s[1] /\ u # <<>>
    BY <1>2, <1>3, <1>4 DEF J!Path
  <2>2. start = u[1] /\ Len(u) >= 1
    BY <2>1 DEF J!Path
  <2> QED  BY <1>2, <1>4, <2>1, <2>2
<1>5. CASE a > 1
  <2>1. a - 1 \in 1..Len(s) /\ a - 1 \notin Parted
    BY <1>2, <1>5
  <2>2. a - 1 \in 1..Len(u) /\ u[a - 1] = s[a - 1]
    BY <2>1
  <2>3. f[s[a - 1]] = s[a]
    BY SMTT(30), <1>2, <2>1 DEF J!Path
  <2>4. a - 1 < Len(u) /\ f[u[a - 1]] = u[a]
    BY <1>3, <2>2, <2>3 DEF J!Path
  <2> QED  BY <1>2, <2>2, <2>3, <2>4
<1> QED  BY <1>2, <1>4, <1>5

\* There is one sequence along the links from a job on.
LEMMA PathUnique ==
    ASSUME NEW f, NEW start, NEW s \in Seq(Jobs), NEW u \in Seq(Jobs),
           J!Path(f, start, s), J!Path(f, start, u)
    PROVE  s = u
<1>1. \A a \in 1..Len(s) : a <= Len(u) /\ u[a] = s[a]
  BY PathStays
<1>2. \A a \in 1..Len(u) : a <= Len(s) /\ s[a] = u[a]
  BY PathStays
<1>3. Len(s) = Len(u)
  BY <1>1, <1>2
<1> QED  BY <1>1, <1>3, SeqEqual

\* The sequence of a list is the one Along chooses.
LEMMA AlongLinked ==
    ASSUME NEW nx, NEW pv, NEW hd, NEW tl, NEW s, Linked(nx, pv, hd, tl, s)
    PROVE  J!Along(nx, hd) = s
<1> DEFINE All == UNION {[1..n -> Jobs] : n \in 0..Cardinality(Jobs)}
<1>1. s \in [1..Len(s) -> Jobs] /\ Len(s) \in Nat
  BY DEF Linked
<1>2. Len(s) <= Cardinality(Jobs) /\ Cardinality(Jobs) \in Nat
  <2>1. s \in Injection(1..Len(s), Jobs)
    BY <1>1 DEF Linked, Injection, IsInjective
  <2>2. Cardinality(1..Len(s)) <= Cardinality(Jobs)
    BY <2>1, JobsAssumption, FS_Injection
  <2>3. \A n \in Nat : Cardinality(1..n) = n
    <3> TAKE n \in Nat
    <3>1. Cardinality(1..n) = IF 1 > n THEN 0 ELSE n - 1 + 1
      BY FS_Interval
    <3> QED  BY <3>1
  <2> QED  BY <1>1, <2>2, <2>3, JobsAssumption, FS_CardinalityType
<1>3. s \in All /\ J!Path(nx, hd, s)
  BY <1>1, <1>2 DEF Linked
<1>4. ASSUME NEW u \in All PROVE u \in Seq(Jobs)
  <2>1. PICK n \in 0..Cardinality(Jobs) : u \in [1..n -> Jobs]
    OBVIOUS
  <2>2. n \in Nat
    BY <1>2
  <2> QED  BY <2>1, <2>2
<1>5. \A u \in All : J!Path(nx, hd, u) => u = s
  BY <1>3, <1>4, PathUnique DEF Linked
<1> HIDE DEF All
<1>6. s = CHOOSE u \in All : J!Path(nx, hd, u)
  BY <1>3, <1>5
<1>7. J!Cardinality(Jobs) = Cardinality(Jobs)
  BY DEF J!Cardinality, Cardinality
<1> QED  BY <1>6, <1>7 DEF All, J!Along

\* What job_insert, job_append and job_remove make of a list.
LEMMA Inserted ==
    ASSUME NEW nx, NEW pv, NEW hd, NEW tl, NEW s, Linked(nx, pv, hd, tl, s),
           NEW j \in Jobs, \A a \in 1..Len(s) : s[a] # j,
           NEW nx2, NEW pv2, NEW tl2, nx2 = J!Set(nx, j, hd),
           IF hd # NULL THEN pv2 = J!Set(J!Set(pv, j, NULL), hd, j) /\ tl2 = tl
           ELSE pv2 = J!Set(pv, j, NULL) /\ tl2 = j
    PROVE  Linked(nx2, pv2, j, tl2, <<j>> \o s)
<1> DEFINE u == <<j>> \o s
<1>1. s \in Seq(Jobs) /\ Len(s) \in Nat /\ \A a \in 1..Len(s) : s[a] \in Jobs /\ s[a] # NULL
  BY JobsAssumption DEF Linked
<1>2. /\ u \in Seq(Jobs) /\ Len(u) = Len(s) + 1 /\ u[1] = j
      /\ \A a \in 1..Len(s) : u[a + 1] = s[a]
      /\ \A a \in 1..Len(u) : a # 1 => a - 1 \in 1..Len(s) /\ u[a] = s[a - 1]
  BY <1>1
<1>3. s = <<>> <=> hd = NULL
  BY <1>1 DEF Linked, J!Path
<1>4. hd \in Jobs \cup {NULL} /\ (hd # NULL => hd = s[1] /\ Len(s) >= 1)
  BY <1>1, <1>3 DEF Linked, J!Path
<1>5. nx2 \in [Jobs -> Jobs \cup {NULL}] /\ pv2 \in [Jobs -> Jobs \cup {NULL}]
  BY <1>4 DEF Linked, J!Set
<1> HIDE DEF u
<1>6. \A a, b \in 1..Len(u) : u[a] = u[b] => a = b
  <2> SUFFICES ASSUME NEW a \in 1..Len(u), NEW b \in 1..Len(u), u[a] = u[b] PROVE a = b
    OBVIOUS
  <2>1. CASE a = 1 \/ b = 1
    BY <1>1, <1>2, <2>1
  <2>2. CASE a # 1 /\ b # 1
    <3>1. a - 1 \in 1..Len(s) /\ b - 1 \in 1..Len(s) /\ s[a - 1] = s[b - 1]
      BY <1>2, <2>2
    <3>2. a - 1 = b - 1
      BY <3>1 DEF Linked
    <3> QED  BY <3>2
  <2> QED  BY <2>1, <2>2
<1>7. J!Path(nx2, j, u)
  <2>1. u # <<>> /\ j = u[1]
    BY <1>1, <1>2
  <2>2. ASSUME NEW a \in 1..Len(u)
        PROVE  nx2[u[a]] = IF a < Len(u) THEN u[a + 1] ELSE NULL
    <3>1. CASE a = 1
      <4>1. nx2[u[a]] = hd
        BY <1>2, <3>1 DEF Linked, J!Set
      <4> QED  BY <1>1, <1>2, <1>3, <1>4, <3>1, <4>1
    <3>2. CASE a # 1
      <4>1. a - 1 \in 1..Len(s) /\ u[a] = s[a - 1] /\ s[a - 1] # j
        BY <1>1, <1>2, <3>2
      <4>2. nx2[u[a]] = nx[s[a - 1]]
        BY <1>1, <4>1 DEF Linked, J!Set
      <4>3. nx[s[a - 1]] = IF a - 1 < Len(s) THEN s[a] ELSE NULL
        BY <1>1, <4>1 DEF Linked, J!Path
      <4> QED  BY <1>1, <1>2, <4>1, <4>2, <4>3
    <3> QED  BY <3>1, <3>2
  <2> QED  BY <2>1, <2>2 DEF J!Path
<1>8. tl2 = IF u = <<>> THEN NULL ELSE u[Len(u)]
  <2>1. u # <<>>
    BY <1>1, <1>2
  <2>2. CASE hd = NULL
    BY <1>2, <1>3, <2>1, <2>2
  <2>3. CASE hd # NULL
    BY <1>1, <1>2, <1>3, <1>4, <2>1, <2>3 DEF Linked
  <2> QED  BY <2>2, <2>3
<1>9. ASSUME NEW a \in 1..Len(u)
      PROVE  pv2[u[a]] = IF a > 1 THEN u[a - 1] ELSE NULL
  <2>1. CASE a = 1
    BY <1>1, <1>2, <1>4, <2>1 DEF Linked, J!Set
  <2>2. CASE a # 1
    <3>1. a - 1 \in 1..Len(s) /\ u[a] = s[a - 1] /\ s[a - 1] # j /\ s[a - 1] \in Jobs
      BY <1>1, <1>2, <2>2
    <3>2. CASE a = 2
      <4>1. hd # NULL /\ u[a] = hd
        BY <1>1, <1>3, <1>4, <3>1, <3>2
      <4> QED  BY <1>2, <1>4, <3>1, <3>2, <4>1 DEF Linked, J!Set
    <3>3. CASE a # 2
      <4>1. s[a - 1] # hd
        BY <1>1, <1>4, <3>1, <3>3 DEF Linked
      <4>2. pv2[u[a]] = pv[s[a - 1]]
        BY <3>1, <4>1 DEF Linked, J!Set
      <4>3. pv[s[a - 1]] = s[a - 2]
        BY <1>1, <3>1, <3>3 DEF Linked
      <4>4. a - 2 \in 1..Len(s) /\ u[a - 1] = s[a - 2]
        BY <1>1, <1>2, <3>1, <3>3
      <4> QED  BY <2>2, <4>2, <4>3, <4>4
    <3> QED  BY <3>2, <3>3
  <2> QED  BY <2>1, <2>2
<1> QED  BY <1>2, <1>5, <1>6, <1>7, <1>8, <1>9 DEF Linked, u

LEMMA Appended ==
    ASSUME NEW nx, NEW pv, NEW hd, NEW tl, NEW s, Linked(nx, pv, hd, tl, s),
           NEW j \in Jobs, \A a \in 1..Len(s) : s[a] # j,
           NEW nx2, NEW pv2, NEW hd2, pv2 = J!Set(pv, j, tl),
           IF tl # NULL THEN nx2 = J!Set(J!Set(nx, j, NULL), tl, j) /\ hd2 = hd
           ELSE nx2 = J!Set(nx, j, NULL) /\ hd2 = j
    PROVE  Linked(nx2, pv2, hd2, j, Append(s, j))
<1> DEFINE u == Append(s, j)
<1>1. s \in Seq(Jobs) /\ Len(s) \in Nat /\ \A a \in 1..Len(s) : s[a] \in Jobs /\ s[a] # NULL
  BY JobsAssumption DEF Linked
<1>2. /\ u \in Seq(Jobs) /\ Len(u) = Len(s) + 1 /\ u[Len(u)] = j
      /\ \A a \in 1..Len(s) : u[a] = s[a]
      /\ \A a \in 1..Len(u) : a # Len(u) => a \in 1..Len(s)
  BY <1>1
<1>3. s = <<>> <=> tl = NULL
  BY <1>1 DEF Linked
<1>4. tl \in Jobs \cup {NULL} /\ (tl # NULL => tl = s[Len(s)] /\ Len(s) >= 1)
  BY <1>1, <1>3 DEF Linked
<1>5. nx2 \in [Jobs -> Jobs \cup {NULL}] /\ pv2 \in [Jobs -> Jobs \cup {NULL}]
  BY <1>4 DEF Linked, J!Set
<1> HIDE DEF u
<1>6. \A a, b \in 1..Len(u) : u[a] = u[b] => a = b
  <2> SUFFICES ASSUME NEW a \in 1..Len(u), NEW b \in 1..Len(u), u[a] = u[b] PROVE a = b
    OBVIOUS
  <2>1. CASE a = Len(u) \/ b = Len(u)
    BY <1>1, <1>2, <2>1
  <2>2. CASE a # Len(u) /\ b # Len(u)
    BY <1>2, <2>2 DEF Linked
  <2> QED  BY <2>1, <2>2
<1>7. J!Path(nx2, hd2, u)
  <2>1. u # <<>> /\ hd2 = u[1]
    <3>1. CASE tl = NULL
      BY <1>1, <1>2, <1>3, <3>1
    <3>2. CASE tl # NULL
      BY <1>1, <1>2, <1>3, <1>4, <3>2 DEF Linked, J!Path
    <3> QED  BY <3>1, <3>2
  <2>2. ASSUME NEW a \in 1..Len(u)
        PROVE  nx2[u[a]] = IF a < Len(u) THEN u[a + 1] ELSE NULL
    <3>1. CASE a = Len(u)
      BY <1>1, <1>2, <1>4, <3>1 DEF Linked, J!Set
    <3>2. CASE a # Len(u)
      <4>1. a \in 1..Len(s) /\ u[a] = s[a] /\ s[a] # j /\ s[a] \in Jobs
        BY <1>1, <1>2, <3>2
      <4>2. CASE a = Len(s)
        <5>1. tl # NULL /\ u[a] = tl
          BY <1>3, <1>4, <4>1, <4>2
        <5> QED  BY <1>2, <1>4, <4>1, <4>2, <5>1 DEF Linked, J!Set
      <4>3. CASE a # Len(s)
        <5>1. s[a] # tl
          BY <1>1, <1>4, <4>1, <4>3 DEF Linked
        <5>2. nx2[u[a]] = nx[s[a]]
          BY <4>1, <5>1 DEF Linked, J!Set
        <5>3. nx[s[a]] = s[a + 1] /\ a + 1 \in 1..Len(s)
          BY <1>1, <4>1, <4>3 DEF Linked, J!Path
        <5> QED  BY <1>2, <3>2, <4>1, <5>2, <5>3
      <4> QED  BY <4>2, <4>3
    <3> QED  BY <3>1, <3>2
  <2> QED  BY <2>1, <2>2 DEF J!Path
<1>8. j = IF u = <<>> THEN NULL ELSE u[Len(u)]
  BY <1>1, <1>2
<1>9. ASSUME NEW a \in 1..Len(u)
      PROVE  pv2[u[a]] = IF a > 1 THEN u[a - 1] ELSE NULL
  <2>1. CASE a = Len(u)
    <3>1. pv2[u[a]] = tl
      BY <1>2, <2>1 DEF Linked, J!Set
    <3> QED  BY <1>1, <1>2, <1>3, <1>4, <2>1, <3>1
  <2>2. CASE a # Len(u)
    <3>1. a \in 1..Len(s) /\ u[a] = s[a] /\ s[a] # j /\ s[a] \in Jobs
      BY <1>1, <1>2, <2>2
    <3>2. pv2[u[a]] = pv[s[a]]
      BY <3>1 DEF Linked, J!Set
    <3>3. pv[s[a]] = IF a > 1 THEN s[a - 1] ELSE NULL
      BY <3>1 DEF Linked
    <3> QED  BY <1>1, <1>2, <3>1, <3>2, <3>3
  <2> QED  BY <2>1, <2>2
<1> QED  BY <1>2, <1>5, <1>6, <1>7, <1>8, <1>9 DEF Linked, u

\* The sequence without its k-th job.
Without(s, k) == SubSeq(s, 1, k - 1) \o SubSeq(s, k + 1, Len(s))

LEMMA WithoutAt ==
    ASSUME NEW s \in Seq(Jobs), NEW k \in 1..Len(s)
    PROVE  /\ Without(s, k) \in Seq(Jobs) /\ Len(Without(s, k)) = Len(s) - 1
           /\ \A a \in 1..(Len(s) - 1) : Without(s, k)[a] = IF a < k THEN s[a] ELSE s[a + 1]
<1> DEFINE s1 == SubSeq(s, 1, k - 1)
           s2 == SubSeq(s, k + 1, Len(s))
<1>1. Len(s) \in Nat /\ k - 1 \in Int /\ k + 1 \in Int /\ \A a \in 1..Len(s) : s[a] \in Jobs
  OBVIOUS
<1>2. s1 \in Seq(Jobs) /\ Len(s1) = k - 1 /\ \A a \in 1..(k - 1) : s1[a] = s[a]
  <2>1. \A a \in 1..(k - 1) : s[a] \in Jobs
    BY <1>1
  <2>2. /\ s1 \in Seq(Jobs) /\ Len(s1) = IF 1 <= k - 1 THEN k - 1 - 1 + 1 ELSE 0
        /\ \A a \in 1..(k - 1 - 1 + 1) : s1[a] = s[1 + a - 1]
    BY <1>1, <2>1, SubSeqProperties
  <2> HIDE DEF s1
  <2> QED  BY <2>2
<1>3. s2 \in Seq(Jobs) /\ Len(s2) = Len(s) - k /\ \A a \in 1..(Len(s) - k) : s2[a] = s[k + a]
  <2>1. \A a \in (k + 1)..Len(s) : s[a] \in Jobs
    BY <1>1
  <2>2. /\ s2 \in Seq(Jobs) /\ Len(s2) = IF k + 1 <= Len(s) THEN Len(s) - (k + 1) + 1 ELSE 0
        /\ \A a \in 1..(Len(s) - (k + 1) + 1) : s2[a] = s[k + 1 + a - 1]
    BY <1>1, <2>1, SubSeqProperties
  <2> HIDE DEF s2
  <2>3. Len(s2) = Len(s) - k
    BY <1>1, <2>2
  <2>4. ASSUME NEW a \in 1..(Len(s) - k) PROVE s2[a] = s[k + a]
    <3>1. a \in 1..(Len(s) - (k + 1) + 1) /\ k + 1 + a - 1 = k + a
      BY <1>1
    <3> QED  BY <2>2, <3>1
  <2> QED  BY <2>2, <2>3, <2>4
<1> DEFINE w == s1 \o s2
<1> HIDE DEF s1, s2
<1>4. /\ w \in Seq(Jobs) /\ Len(w) = Len(s1) + Len(s2)
      /\ \A a \in 1..(Len(s1) + Len(s2)) :
            w[a] = IF a <= Len(s1) THEN s1[a] ELSE s2[a - Len(s1)]
  BY <1>2, <1>3, ConcatProperties
<1> HIDE DEF w
<1>5. ASSUME NEW a \in 1..(Len(s) - 1)
      PROVE  w[a] = IF a < k THEN s[a] ELSE s[a + 1]
  <2>3. Len(s1) = k - 1 /\ Len(s1) + Len(s2) = Len(s) - 1 /\ k \in Nat
    BY <1>1, <1>2, <1>3
  <2>4. w[a] = IF a <= k - 1 THEN s1[a] ELSE s2[a - (k - 1)]
    BY <1>4, <2>3
  <2>1. CASE a < k
    <3>1. a \in 1..(k - 1)
      BY <2>1, <2>3
    <3> QED  BY <1>2, <2>1, <2>4, <3>1
  <2>2. CASE a >= k
    <3>1. a - (k - 1) \in 1..(Len(s) - k) /\ k + (a - (k - 1)) = a + 1
      BY <1>1, <2>2
    <3>2. s2[a - (k - 1)] = s[a + 1]
      BY <1>3, <3>1
    <3> QED  BY <1>1, <2>2, <2>3, <2>4, <3>2
  <2> QED  BY <1>1, <2>1, <2>2
<1>6. Len(w) = Len(s) - 1
  BY <1>1, <1>2, <1>3, <1>4
<1> QED  BY <1>4, <1>5, <1>6 DEF Without, w, s1, s2

LEMMA Removed ==
    ASSUME NEW nx, NEW pv, NEW hd, NEW tl, NEW s, Linked(nx, pv, hd, tl, s),
           NEW k \in 1..Len(s), NEW j, j = s[k], NEW nx2, NEW pv2, NEW hd2, NEW tl2,
           IF k > 1 THEN nx2 = J!Set(nx, pv[j], nx[j]) /\ hd2 = hd ELSE nx2 = nx /\ hd2 = nx[j],
           IF k < Len(s) THEN pv2 = J!Set(pv, nx[j], pv[j]) /\ tl2 = tl ELSE pv2 = pv /\ tl2 = pv[j]
    PROVE  Linked(nx2, pv2, hd2, tl2, Without(s, k))
<1> DEFINE u == Without(s, k)
<1>1. s \in Seq(Jobs) /\ Len(s) \in Nat /\ \A a \in 1..Len(s) : s[a] \in Jobs /\ s[a] # NULL
  BY JobsAssumption DEF Linked
<1>2. /\ u \in Seq(Jobs) /\ Len(u) = Len(s) - 1 /\ k \in Nat
      /\ \A a \in 1..Len(u) : /\ a < k => a \in 1..Len(s) /\ u[a] = s[a]
                              /\ a >= k => a + 1 \in 1..Len(s) /\ u[a] = s[a + 1]
  <2>1. /\ u \in Seq(Jobs) /\ Len(u) = Len(s) - 1
        /\ \A a \in 1..(Len(s) - 1) : u[a] = IF a < k THEN s[a] ELSE s[a + 1]
    BY <1>1, WithoutAt
  <2> HIDE DEF u
  <2>2. k \in Nat /\ k <= Len(s)
    BY <1>1
  <2>3. ASSUME NEW a \in 1..Len(u)
        PROVE  /\ a < k => a \in 1..Len(s) /\ u[a] = s[a]
               /\ a >= k => a + 1 \in 1..Len(s) /\ u[a] = s[a + 1]
    BY <1>1, <2>1, <2>2
  <2> QED  BY <2>1, <2>2, <2>3
<1> HIDE DEF u
<1>3. /\ j \in Jobs
      /\ nx[j] = IF k < Len(s) THEN s[k + 1] ELSE NULL
      /\ pv[j] = IF k > 1 THEN s[k - 1] ELSE NULL
  BY <1>1 DEF Linked, J!Path
<1>4. /\ k > 1 => k - 1 \in 1..Len(s) /\ pv[j] = s[k - 1] /\ pv[j] \in Jobs
      /\ k < Len(s) => k + 1 \in 1..Len(s) /\ nx[j] = s[k + 1] /\ nx[j] \in Jobs
  BY <1>1, <1>2, <1>3
<1>5. nx2 \in [Jobs -> Jobs \cup {NULL}] /\ pv2 \in [Jobs -> Jobs \cup {NULL}]
  BY SMTT(30), <1>3, <1>4 DEF Linked, J!Set
<1>6. \A a, b \in 1..Len(s) : s[a] = s[b] => a = b
  BY DEF Linked
<1>7. \A a, b \in 1..Len(u) : u[a] = u[b] => a = b
  <2> SUFFICES ASSUME NEW a \in 1..Len(u), NEW b \in 1..Len(u), u[a] = u[b] PROVE a = b
    OBVIOUS
  <2>1. CASE a < k /\ b < k
    BY <1>2, <1>6, <2>1
  <2>2. CASE a >= k /\ b >= k
    <3>1. a + 1 = b + 1
      BY <1>2, <1>6, <2>2
    <3> QED  BY <3>1
  <2>3. CASE a < k /\ b >= k
    <3>1. a = b + 1
      BY <1>2, <1>6, <2>3
    <3> QED  BY <1>2, <2>3, <3>1
  <2>4. CASE a >= k /\ b < k
    <3>1. b = a + 1
      BY <1>2, <1>6, <2>4
    <3> QED  BY <1>2, <2>4, <3>1
  <2> QED  BY <1>2, <2>1, <2>2, <2>3, <2>4
<1>8. J!Path(nx2, hd2, u)
  <2>1. hd2 = IF u = <<>> THEN NULL ELSE u[1]
    <3>0. u = <<>> <=> Len(s) = 1
      BY <1>1, <1>2
    <3>1. CASE k = 1
      <4>1. hd2 = IF 1 < Len(s) THEN s[2] ELSE NULL
        BY <1>3, <3>1
      <4>2. 1 < Len(s) => 1 \in 1..Len(u) /\ u[1] = s[2]
        BY <1>1, <1>2, <3>1
      <4>3. CASE Len(s) = 1
        BY <3>0, <4>1, <4>3
      <4>4. CASE Len(s) # 1
        <5>1. u # <<>>
          BY <3>0, <4>4
        <5>2. 1 < Len(s)
          BY <1>1, <1>2, <3>1, <4>4
        <5> QED  BY <4>1, <4>2, <5>1, <5>2
      <4> QED  BY <4>3, <4>4
    <3>2. CASE k # 1
      <4>1. Len(s) > 1 /\ 1 < k /\ 1 \in 1..Len(u)
        BY <1>1, <1>2, <3>2
      <4>2. u[1] = s[1] /\ hd2 = s[1]
        BY <1>1, <1>2, <4>1 DEF Linked, J!Path
      <4> QED  BY <3>0, <4>1, <4>2
    <3> QED  BY <3>1, <3>2
  <2>2. ASSUME NEW a \in 1..Len(u)
        PROVE  nx2[u[a]] = IF a < Len(u) THEN u[a + 1] ELSE NULL
    <3>1. CASE a < k - 1
      <4>1. a \in 1..Len(s) /\ u[a] = s[a] /\ s[a] # s[k - 1] /\ s[a] \in Jobs /\ a # Len(s)
        BY <1>1, <1>2, <1>4, <1>6, <3>1
      <4>2. nx2[u[a]] = nx[s[a]]
        BY <1>2, <1>4, <3>1, <4>1 DEF Linked, J!Set
      <4>3. nx[s[a]] = s[a + 1]
        BY <1>1, <4>1 DEF Linked, J!Path
      <4>4. a + 1 \in 1..Len(u) /\ a < Len(u) /\ u[a + 1] = s[a + 1]
        BY <1>1, <1>2, <3>1
      <4> QED  BY <4>2, <4>3, <4>4
    <3>2. CASE a = k - 1
      <4>1. u[a] = pv[j] /\ k > 1
        BY <1>2, <1>4, <3>2
      <4>2. nx2[u[a]] = nx[j]
        BY <1>4, <4>1 DEF Linked, J!Set
      <4>3. k < Len(s) => k \in 1..Len(u) /\ u[k] = s[k + 1]
        BY <1>1, <1>2
      <4> QED  BY <1>1, <1>2, <1>3, <3>2, <4>2, <4>3
    <3>3. CASE a >= k
      <4>1. a + 1 \in 1..Len(s) /\ u[a] = s[a + 1] /\ s[a + 1] \in Jobs
        BY <1>1, <1>2, <3>3
      <4>2. k > 1 => s[a + 1] # s[k - 1]
        BY <1>2, <1>4, <1>6, <3>3, <4>1
      <4>3. nx2[u[a]] = nx[s[a + 1]]
        BY <1>2, <1>4, <4>1, <4>2 DEF Linked, J!Set
      <4>4. nx[s[a + 1]] = IF a + 1 < Len(s) THEN s[a + 1 + 1] ELSE NULL
        BY <4>1 DEF Linked, J!Path
      <4>5. a < Len(u) => a + 1 \in 1..Len(u) /\ u[a + 1] = s[a + 1 + 1]
        BY <1>1, <1>2, <3>3
      <4>6. a < Len(u) <=> a + 1 < Len(s)
        BY <1>1, <1>2
      <4> QED  BY <4>3, <4>4, <4>5, <4>6
    <3> QED  BY <1>2, <3>1, <3>2, <3>3
  <2> QED  BY <2>1, <2>2 DEF J!Path
<1>9. tl2 = IF u = <<>> THEN NULL ELSE u[Len(u)]
  <2>0. u = <<>> <=> Len(s) = 1
    BY <1>1, <1>2
  <2>1. CASE k = Len(s)
    <3>1. tl2 = IF k > 1 THEN s[k - 1] ELSE NULL
      BY <1>2, <1>3, <2>1
    <3>2. k > 1 => k - 1 \in 1..Len(u) /\ u[k - 1] = s[k - 1]
      BY <1>1, <1>2, <2>1
    <3> QED  BY <1>1, <1>2, <2>0, <2>1, <3>1, <3>2
  <2>2. CASE k # Len(s)
    <3>1. k < Len(s) /\ Len(u) \in 1..Len(u) /\ Len(u) >= k /\ Len(u) + 1 = Len(s)
      BY <1>1, <1>2, <2>2
    <3>2. u[Len(u)] = s[Len(s)] /\ s # <<>> /\ Len(s) # 1
      BY <1>1, <1>2, <3>1
    <3> QED  BY <2>0, <3>1, <3>2 DEF Linked
  <2> QED  BY <2>1, <2>2
<1>10. ASSUME NEW a \in 1..Len(u)
       PROVE  pv2[u[a]] = IF a > 1 THEN u[a - 1] ELSE NULL
  <2>1. CASE a < k
    <3>1. a \in 1..Len(s) /\ u[a] = s[a] /\ s[a] \in Jobs /\ (k < Len(s) => s[a] # s[k + 1])
      BY <1>1, <1>2, <1>4, <1>6, <2>1
    <3>2. pv2[u[a]] = pv[s[a]]
      BY <1>4, <3>1 DEF Linked, J!Set
    <3>3. pv[s[a]] = IF a > 1 THEN s[a - 1] ELSE NULL
      BY <3>1 DEF Linked
    <3>4. a > 1 => a - 1 \in 1..Len(u) /\ u[a - 1] = s[a - 1]
      BY <1>1, <1>2, <2>1
    <3> QED  BY <3>2, <3>3, <3>4
  <2>2. CASE a = k
    <3>1. k < Len(s) /\ u[a] = nx[j]
      BY <1>1, <1>2, <1>4, <2>2
    <3>2. pv2[u[a]] = pv[j]
      BY <1>4, <3>1 DEF Linked, J!Set
    <3>3. k > 1 => k - 1 \in 1..Len(u) /\ u[k - 1] = s[k - 1]
      BY <1>1, <1>2
    <3> QED  BY <1>3, <2>2, <3>2, <3>3
  <2>3. CASE a > k
    <3>1. a + 1 \in 1..Len(s) /\ u[a] = s[a + 1] /\ s[a + 1] \in Jobs
          /\ (k < Len(s) => s[a + 1] # s[k + 1])
      BY <1>1, <1>2, <1>4, <1>6, <2>3
    <3>2. pv2[u[a]] = pv[s[a + 1]]
      BY <1>4, <3>1 DEF Linked, J!Set
    <3>3. pv[s[a + 1]] = s[a + 1 - 1] /\ a + 1 - 1 = a
      BY <3>1 DEF Linked
    <3>4. a - 1 \in 1..Len(u) /\ a - 1 >= k /\ a - 1 + 1 = a
      BY <1>1, <1>2, <2>3
    <3>5. u[a - 1] = s[a]
      BY <1>2, <3>4
    <3> QED  BY <1>2, <2>3, <3>2, <3>3, <3>5
  <2> QED  BY <1>2, <2>1, <2>2, <2>3
<1> QED  BY <1>2, <1>5, <1>7, <1>8, <1>9, <1>10 DEF Linked, u

LEMMA RemoveCases ==
    ASSUME NEW s, Linked(j_next, j_prev, q_head, q_tail, s), NEW k \in 1..Len(s), NEW j, j = s[k],
           J!RemoveHead(j) \/ J!RemoveTail(j) \/ J!RemoveMiddle(j)
    PROVE  Linked(j_next', j_prev', q_head', q_tail', Without(s, k))
<1>1. s \in Seq(Jobs) /\ Len(s) \in Nat /\ Len(s) >= 1 /\ k \in Nat /\ k >= 1 /\ k <= Len(s)
  BY DEF Linked
<1>2. (j = q_head <=> k = 1) /\ (j = q_tail <=> k = Len(s))
  BY <1>1 DEF Linked, J!Path
<1>3. j_prev[j] = IF k > 1 THEN s[k - 1] ELSE NULL
  BY DEF Linked
<1>4. IF k > 1 THEN j_next' = J!Set(j_next, j_prev[j], j_next[j]) /\ q_head' = q_head
      ELSE j_next' = j_next /\ q_head' = j_next[j]
  BY <1>1, <1>2 DEF J!RemoveHead, J!RemoveTail, J!RemoveMiddle
<1>5. IF k < Len(s) THEN j_prev' = J!Set(j_prev, j_next[j], j_prev[j]) /\ q_tail' = q_tail
      ELSE j_prev' = j_prev /\ q_tail' = j_prev[j]
  BY <1>1, <1>2, <1>3 DEF J!RemoveHead, J!RemoveTail, J!RemoveMiddle
<1> QED  BY <1>4, <1>5, Removed

queue == J!Along(j_next, q_head)
Queued(j) == \E k \in 1..Len(queue) : queue[k] = j

Adding == {"insert", "append", "insert_locked", "append_locked"}
Removing == {"found", "remove", "remove_locked"}
Locked == {"insert_locked", "append_locked", "remove_locked", "unlock"}

\* A job to be added is in nobody else's hands, the job a search is at stays in the
\* list because the reader holds the lock, and a job that was found because it is the
\* thread's own, which nobody else removes.
Calling(t) ==
    /\ jpc[t] \in Adding => jp[t] \in Jobs /\ j_id[jp[t]] # NULL /\ ~Queued(jp[t])
    /\ jpc[t] \in Removing => Queued(jp[t]) /\ j_id[jp[t]] = t
    /\ jpc[t] = "walk" => t \in readers /\ (jp[t] = NULL \/ Queued(jp[t]))
    /\ jpc[t] \in Locked => writer = t /\ readers = {}

JobsInv ==
    /\ Linked(j_next, j_prev, q_head, q_tail, queue)
    /\ j_id \in [Jobs -> Threads \cup {NULL}]
    /\ jpc \in [Threads -> {"idle", "walk", "unlock"} \cup Adding \cup Removing]
    /\ jp \in [Threads -> Jobs \cup {NULL}]
    /\ \A j \in Jobs : Queued(j) => j_id[j] # NULL
    /\ \A t \in Threads : Calling(t)
    /\ \A t, u \in Threads : t # u /\ jpc[t] \in Adding /\ jpc[u] \in Adding => jp[t] # jp[u]

LEMMA JobsInit ==
    ASSUME J!Init
    PROVE  JobsInv /\ queue = <<>>
<1>1. Linked(j_next, j_prev, q_head, q_tail, <<>>)
  BY DEF J!Init, J!queue_init, Linked, J!Path
<1>2. queue = <<>>
  BY <1>1, AlongLinked DEF queue
<1>3. \A j : ~Queued(j)
  BY <1>2 DEF Queued
<1>4. Linked(j_next, j_prev, q_head, q_tail, queue)
  BY <1>1, <1>2
<1> QED  BY <1>2, <1>3, <1>4 DEF J!Init, JobsInv, Calling, Adding, Removing, Locked

\* A step that leaves the links alone.
LEMMA LinksSame ==
    ASSUME JobsInv, UNCHANGED J!list
    PROVE  /\ queue' = queue
           /\ \A j : Queued(j)' <=> Queued(j)
           /\ Linked(j_next, j_prev, q_head, q_tail, queue)'
<1>1. queue' = queue
  BY DEF queue, J!Along, J!list, J!Path
<1>2. \A j : Queued(j)' <=> Queued(j)
  BY <1>1 DEF Queued
<1>3. Linked(j_next, j_prev, q_head, q_tail, queue)'
  BY <1>1 DEF JobsInv, J!list, Linked
<1> QED  BY <1>1, <1>2, <1>3

\* What a search may come to is in the list.
LEMMA QueuedNext ==
    ASSUME JobsInv
    PROVE  /\ q_head = NULL \/ Queued(q_head)
           /\ \A j : Queued(j) => j \in Jobs /\ (j_next[j] = NULL \/ Queued(j_next[j]))
<1>1. queue \in Seq(Jobs) /\ J!Path(j_next, q_head, queue)
  BY DEF JobsInv, Linked
<1>2. q_head = NULL \/ Queued(q_head)
  <2>1. CASE queue = <<>>
    BY <1>1, <2>1 DEF J!Path
  <2>2. CASE queue # <<>>
    <3>1. q_head = queue[1] /\ 1 \in 1..Len(queue)
      BY <1>1, <2>2 DEF J!Path
    <3> QED  BY <3>1 DEF Queued
  <2> QED  BY <2>1, <2>2
<1>3. ASSUME NEW j, Queued(j)
      PROVE  j \in Jobs /\ (j_next[j] = NULL \/ Queued(j_next[j]))
  <2>1. PICK k \in 1..Len(queue) : queue[k] = j
    BY <1>3 DEF Queued
  <2>2. j \in Jobs /\ Len(queue) \in Nat
    BY <1>1, <2>1
  <2>3. j_next[j] = IF k < Len(queue) THEN queue[k + 1] ELSE NULL
    BY <1>1, <2>1 DEF J!Path
  <2>4. k < Len(queue) => k + 1 \in 1..Len(queue)
    BY <2>2
  <2> QED  BY <2>2, <2>3, <2>4 DEF Queued
<1> QED  BY <1>2, <1>3

\* The steps that leave the list alone.
Outside(t) == J!Submit(t) \/ J!WriterLocks(t) \/ J!WriterUnlocks(t) \/ J!job_find(t) \/ J!CallRemove(t)

LEMMA OutsideStep ==
    ASSUME JobsInv, NEW t \in Threads, Outside(t)
    PROVE  JobsInv' /\ UNCHANGED queue
<1> USE JobsAssumption DEF Adding, Removing, Locked
<1>1. UNCHANGED J!list
  BY DEF Outside, J!Submit, J!WriterLocks, J!wrlock, J!WriterUnlocks, J!job_find, J!FindLock,
         J!FindRefused, J!FindNext, J!FindDone, J!CallRemove, J!list
<1>2. /\ queue' = queue
      /\ \A j : Queued(j)' <=> Queued(j)
      /\ Linked(j_next, j_prev, q_head, q_tail, queue)'
  BY <1>1, LinksSame
<1>3. /\ j_id \in [Jobs -> Threads \cup {NULL}]
      /\ jpc \in [Threads -> {"idle", "walk", "unlock"} \cup Adding \cup Removing]
      /\ jp \in [Threads -> Jobs \cup {NULL}]
      /\ \A j \in Jobs : Queued(j) => j_id[j] # NULL
      /\ \A u \in Threads : Calling(u)
      /\ \A u, v \in Threads : u # v /\ jpc[u] \in Adding /\ jpc[v] \in Adding => jp[u] # jp[v]
      /\ \A j : Queued(j) => j \in Jobs
  BY QueuedNext DEF JobsInv
<1>4. SUFFICES /\ j_id' \in [Jobs -> Threads \cup {NULL}]
               /\ jpc' \in [Threads -> {"idle", "walk", "unlock"} \cup Adding \cup Removing]
               /\ jp' \in [Threads -> Jobs \cup {NULL}]
               /\ \A j \in Jobs : Queued(j) => j_id'[j] # NULL
               /\ \A u \in Threads : Calling(u)'
               /\ \A u, v \in Threads : u # v /\ jpc'[u] \in Adding /\ jpc'[v] \in Adding => jp'[u] # jp'[v]
  BY <1>2 DEF JobsInv
<1>5. CASE J!Submit(t)
  <2>1. PICK j \in Jobs, id \in Threads, to \in {"insert", "append"} :
            /\ j_id[j] = NULL /\ jpc[t] = "idle"
            /\ jpc' = [jpc EXCEPT ![t] = to] /\ jp' = [jp EXCEPT ![t] = j]
            /\ j_id' = [j_id EXCEPT ![j] = id] /\ UNCHANGED <<writer, readers>>
    BY <1>5 DEF J!Submit, J!Owned, J!Goto
  <2>2. ~Queued(j)
    BY <1>3, <2>1
  <2>3. ASSUME NEW u \in Threads PROVE Calling(u)'
    BY <1>2, <1>3, <2>1, <2>2 DEF Calling
  <2>4. ASSUME NEW u \in Threads, jpc[u] \in Adding PROVE jp[u] # j
    BY <1>3, <2>1, <2>4 DEF Calling
  <2> QED  BY <1>3, <2>1, <2>2, <2>3, <2>4
<1>6. CASE J!WriterLocks(t)
  <2>1. PICK from \in {"insert", "append", "remove"}, to \in Locked \ {"unlock"} :
            /\ from = "insert" => to = "insert_locked"
            /\ from = "append" => to = "append_locked"
            /\ from = "remove" => to = "remove_locked"
            /\ jpc[t] = from /\ jpc' = [jpc EXCEPT ![t] = to]
            /\ writer = NULL /\ readers = {} /\ writer' = t /\ UNCHANGED <<j_id, readers, jp>>
    BY <1>6 DEF J!WriterLocks, J!wrlock
  <2>2. ASSUME NEW u \in Threads PROVE Calling(u)'
    BY <1>2, <1>3, <2>1 DEF Calling
  <2> QED  BY <1>3, <2>1, <2>2
<1>7. CASE J!WriterUnlocks(t)
  <2>1. /\ jpc[t] = "unlock" /\ jpc' = [jpc EXCEPT ![t] = "idle"]
        /\ jp' = [jp EXCEPT ![t] = NULL] /\ UNCHANGED <<j_id, readers>>
    BY <1>7 DEF J!WriterUnlocks, J!Goto, J!Set
  <2>2. ASSUME NEW u \in Threads PROVE Calling(u)'
    BY <1>2, <1>3, <2>1 DEF Calling
  <2> QED  BY <1>3, <2>1, <2>2
<1>8. CASE J!FindLock(t)
  <2>1. /\ jpc[t] = "idle" /\ jpc' = [jpc EXCEPT ![t] = "walk"] /\ writer = NULL
        /\ readers' = readers \cup {t} /\ jp' = [jp EXCEPT ![t] = q_head] /\ UNCHANGED <<j_id, writer>>
    BY <1>8 DEF J!FindLock, J!Goto, J!Set
  <2>2. q_head = NULL \/ (q_head \in Jobs /\ Queued(q_head))
    BY QueuedNext
  <2>3. ASSUME NEW u \in Threads PROVE Calling(u)'
    BY <1>2, <1>3, <2>1, <2>2 DEF Calling
  <2> QED  BY <1>3, <2>1, <2>2, <2>3
<1>9. CASE J!FindRefused(t)
  BY <1>2, <1>3, <1>9 DEF J!FindRefused, J!Goto, Calling
<1>10. CASE J!FindNext(t)
  <2>1. /\ jpc[t] = "walk" /\ jpc' = [jpc EXCEPT ![t] = "walk"] /\ jp[t] # NULL
        /\ jp' = [jp EXCEPT ![t] = j_next[jp[t]]] /\ UNCHANGED <<j_id, writer, readers>>
    BY <1>10 DEF J!FindNext, J!Goto, J!Set
  <2>2. Queued(jp[t])
    BY <1>3, <2>1 DEF Calling
  <2>3. j_next[jp[t]] = NULL \/ (j_next[jp[t]] \in Jobs /\ Queued(j_next[jp[t]]))
    BY <2>2, QueuedNext
  <2>4. ASSUME NEW u \in Threads PROVE Calling(u)'
    BY <1>2, <1>3, <2>1, <2>3 DEF Calling
  <2> QED  BY <1>3, <2>1, <2>3, <2>4
<1>11. CASE J!FindDone(t)
  <2>1. /\ jp[t] # NULL => j_id[jp[t]] = t
        /\ jpc[t] = "walk" /\ jpc' = [jpc EXCEPT ![t] = IF jp[t] = NULL THEN "idle" ELSE "found"]
        /\ readers' = readers \ {t} /\ UNCHANGED <<j_id, writer, jp>>
    BY <1>11 DEF J!FindDone, J!Goto
  <2>2. ASSUME NEW u \in Threads PROVE Calling(u)'
    BY <1>2, <1>3, <2>1 DEF Calling
  <2> QED  BY <1>3, <2>1, <2>2
<1>12. CASE J!CallRemove(t)
  <2>1. /\ jpc[t] = "found" /\ jpc' = [jpc EXCEPT ![t] = "remove"]
        /\ UNCHANGED <<j_id, writer, readers, jp>>
    BY <1>12 DEF J!CallRemove, J!Goto
  <2>2. ASSUME NEW u \in Threads PROVE Calling(u)'
    BY <1>2, <1>3, <2>1 DEF Calling
  <2> QED  BY <1>3, <2>1, <2>2
<1> QED  BY <1>5, <1>6, <1>7, <1>8, <1>9, <1>10, <1>11, <1>12 DEF Outside, J!job_find

\* What job_insert and job_append leave besides the new list.
LEMMA AddStep ==
    ASSUME JobsInv, NEW t \in Threads, jpc[t] \in {"insert_locked", "append_locked"},
           jpc' = [jpc EXCEPT ![t] = "unlock"], UNCHANGED <<j_id, writer, readers, jp>>,
           Linked(j_next, j_prev, q_head, q_tail, queue)',
           \A j : Queued(j)' <=> Queued(j) \/ j = jp[t]
    PROVE  JobsInv'
<1> USE JobsAssumption DEF Adding, Removing, Locked
<1>1. /\ jp[t] \in Jobs /\ j_id[jp[t]] # NULL /\ writer = t /\ readers = {}
  BY DEF JobsInv, Calling
<1>2. ASSUME NEW u \in Threads, u # t, jpc[u] \in Adding PROVE jp[u] # jp[t]
  BY <1>2 DEF JobsInv
<1>3. ASSUME NEW u \in Threads PROVE Calling(u)'
  BY <1>1, <1>2 DEF JobsInv, Calling
<1> QED  BY <1>1, <1>3 DEF JobsInv

LEMMA InsertStep ==
    ASSUME JobsInv, NEW t \in Threads, J!job_insert(t)
    PROVE  JobsInv' /\ queue' = <<jp[t]>> \o queue /\ jp[t] \in Jobs /\ ~Queued(jp[t])
<1>1. jpc[t] = "insert_locked" /\ jpc' = [jpc EXCEPT ![t] = "unlock"]
      /\ UNCHANGED <<j_id, writer, readers, jp>>
  BY DEF J!job_insert, J!Goto
<1>2. jp[t] \in Jobs /\ ~Queued(jp[t])
  BY <1>1 DEF JobsInv, Calling, Adding
<1>3. Linked(j_next', j_prev', q_head', q_tail', <<jp[t]>> \o queue)
  <2>1. Linked(j_next, j_prev, q_head, q_tail, queue) /\ \A a \in 1..Len(queue) : queue[a] # jp[t]
    BY <1>2 DEF JobsInv, Queued
  <2>2. /\ j_next' = J!Set(j_next, jp[t], q_head) /\ q_head' = jp[t]
        /\ IF q_head # NULL
           THEN j_prev' = J!Set(J!Set(j_prev, jp[t], NULL), q_head, jp[t]) /\ q_tail' = q_tail
           ELSE j_prev' = J!Set(j_prev, jp[t], NULL) /\ q_tail' = jp[t]
    BY DEF J!job_insert
  <2>3. Linked(j_next', j_prev', jp[t], q_tail', <<jp[t]>> \o queue)
    BY <1>2, <2>1, <2>2, Inserted
  <2> QED  BY <2>2, <2>3
<1>4. queue' = <<jp[t]>> \o queue
  BY <1>3, AlongLinked DEF queue
<1>5. \A j : Queued(j)' <=> Queued(j) \/ j = jp[t]
  <2>1. queue \in Seq(Jobs)
    BY DEF JobsInv, Linked
  <2>2. /\ Len(queue') = Len(queue) + 1 /\ Len(queue) \in Nat /\ queue'[1] = jp[t]
        /\ \A a \in 1..Len(queue) : queue'[a + 1] = queue[a]
        /\ \A a \in 1..Len(queue') : a # 1 => a - 1 \in 1..Len(queue) /\ queue'[a] = queue[a - 1]
    BY <1>2, <1>4, <2>1
  <2>3. 1 \in 1..Len(queue') /\ \A a \in 1..Len(queue) : a + 1 \in 1..Len(queue')
    BY <2>2
  <2> QED  BY <2>2, <2>3 DEF Queued
<1>6. Linked(j_next, j_prev, q_head, q_tail, queue)'
  BY <1>3, <1>4
<1> QED  BY <1>1, <1>2, <1>4, <1>5, <1>6, AddStep

LEMMA AppendStep ==
    ASSUME JobsInv, NEW t \in Threads, J!job_append(t)
    PROVE  JobsInv' /\ queue' = Append(queue, jp[t]) /\ jp[t] \in Jobs /\ ~Queued(jp[t])
<1>1. jpc[t] = "append_locked" /\ jpc' = [jpc EXCEPT ![t] = "unlock"]
      /\ UNCHANGED <<j_id, writer, readers, jp>>
  BY DEF J!job_append, J!Goto
<1>2. jp[t] \in Jobs /\ ~Queued(jp[t])
  BY <1>1 DEF JobsInv, Calling, Adding
<1>3. Linked(j_next', j_prev', q_head', q_tail', Append(queue, jp[t]))
  <2>1. Linked(j_next, j_prev, q_head, q_tail, queue) /\ \A a \in 1..Len(queue) : queue[a] # jp[t]
    BY <1>2 DEF JobsInv, Queued
  <2>2. /\ j_prev' = J!Set(j_prev, jp[t], q_tail) /\ q_tail' = jp[t]
        /\ IF q_tail # NULL
           THEN j_next' = J!Set(J!Set(j_next, jp[t], NULL), q_tail, jp[t]) /\ q_head' = q_head
           ELSE j_next' = J!Set(j_next, jp[t], NULL) /\ q_head' = jp[t]
    BY DEF J!job_append
  <2>3. Linked(j_next', j_prev', q_head', jp[t], Append(queue, jp[t]))
    BY <1>2, <2>1, <2>2, Appended
  <2> QED  BY <2>2, <2>3
<1>4. queue' = Append(queue, jp[t])
  BY <1>3, AlongLinked DEF queue
<1>5. \A j : Queued(j)' <=> Queued(j) \/ j = jp[t]
  <2>1. queue \in Seq(Jobs)
    BY DEF JobsInv, Linked
  <2>2. /\ Len(queue') = Len(queue) + 1 /\ Len(queue) \in Nat /\ queue'[Len(queue')] = jp[t]
        /\ \A a \in 1..Len(queue) : queue'[a] = queue[a]
        /\ \A a \in 1..Len(queue') : a # Len(queue') => a \in 1..Len(queue)
    BY <1>2, <1>4, <2>1
  <2>3. Len(queue') \in 1..Len(queue') /\ \A a \in 1..Len(queue) : a \in 1..Len(queue')
    BY <2>2
  <2> QED  BY <2>2, <2>3 DEF Queued
<1>6. Linked(j_next, j_prev, q_head, q_tail, queue)'
  BY <1>3, <1>4
<1> QED  BY <1>1, <1>2, <1>4, <1>5, <1>6, AddStep

\* The job a thread removes is its own, so that no other thread has found it.
LEMMA RemoveStep ==
    ASSUME JobsInv, NEW t \in Threads, J!job_remove(t)
    PROVE  JobsInv' /\ \E k \in 1..Len(queue) : queue[k] = jp[t] /\ queue' = Without(queue, k)
<1> USE JobsAssumption DEF Adding, Removing, Locked
<1>1. /\ jpc[t] = "remove_locked" /\ jpc' = [jpc EXCEPT ![t] = "unlock"]
      /\ j_id' = [j_id EXCEPT ![jp[t]] = NULL] /\ UNCHANGED <<writer, readers, jp>>
      /\ J!RemoveHead(jp[t]) \/ J!RemoveTail(jp[t]) \/ J!RemoveMiddle(jp[t])
  BY DEF J!job_remove, J!Goto, J!Set
<1>2. Queued(jp[t]) /\ j_id[jp[t]] = t /\ writer = t /\ readers = {}
  BY <1>1 DEF JobsInv, Calling
<1>3. PICK k \in 1..Len(queue) : queue[k] = jp[t]
  BY <1>2 DEF Queued
<1>4. Linked(j_next', j_prev', q_head', q_tail', Without(queue, k))
  <2>1. Linked(j_next, j_prev, q_head, q_tail, queue)
    BY DEF JobsInv
  <2> QED  BY <1>1, <1>3, <2>1, RemoveCases
<1>5. queue' = Without(queue, k)
  BY <1>4, AlongLinked DEF queue
<1>6. \A j : Queued(j)' <=> Queued(j) /\ j # jp[t]
  <2>1. queue \in Seq(Jobs) /\ Len(queue) \in Nat /\ k \in Nat /\ k <= Len(queue)
        /\ \A a, b \in 1..Len(queue) : queue[a] = queue[b] => a = b
    BY <1>3 DEF JobsInv, Linked
  <2>2. /\ Len(queue') = Len(queue) - 1
        /\ \A a \in 1..(Len(queue) - 1) : queue'[a] = IF a < k THEN queue[a] ELSE queue[a + 1]
    BY <1>5, <2>1, WithoutAt
  <2>3. ASSUME NEW j, Queued(j)' PROVE Queued(j) /\ j # jp[t]
    <3>1. PICK a \in 1..(Len(queue) - 1) : queue'[a] = j
      BY <2>2, <2>3 DEF Queued
    <3>2. CASE a < k
      <4>1. a \in 1..Len(queue) /\ queue[a] = j /\ a # k
        BY <2>1, <2>2, <3>1, <3>2
      <4> QED  BY <1>3, <2>1, <4>1 DEF Queued
    <3>3. CASE ~(a < k)
      <4>1. a + 1 \in 1..Len(queue) /\ queue[a + 1] = j /\ a + 1 # k
        BY <2>1, <2>2, <3>1, <3>3
      <4> QED  BY <1>3, <2>1, <4>1 DEF Queued
    <3> QED  BY <3>2, <3>3
  <2>4. ASSUME NEW j, Queued(j), j # jp[t] PROVE Queued(j)'
    <3>1. PICK a \in 1..Len(queue) : queue[a] = j
      BY <2>4 DEF Queued
    <3>2. a # k
      BY <1>3, <2>4, <3>1
    <3>3. CASE a < k
      <4>1. a \in 1..Len(queue') /\ queue'[a] = j
        BY <2>1, <2>2, <3>1, <3>3
      <4> QED  BY <4>1 DEF Queued
    <3>4. CASE ~(a < k)
      <4>1. a - 1 \in 1..(Len(queue) - 1) /\ ~(a - 1 < k) /\ a - 1 + 1 = a
        BY <2>1, <3>1, <3>2, <3>4
      <4>2. a - 1 \in 1..Len(queue') /\ queue'[a - 1] = j
        BY <2>2, <3>1, <4>1
      <4> QED  BY <4>2 DEF Queued
    <3> QED  BY <3>3, <3>4
  <2> QED  BY <2>3, <2>4
<1>7. Linked(j_next, j_prev, q_head, q_tail, queue)'
  BY <1>4, <1>5
<1>8. \A j \in Jobs : j # jp[t] => j_id'[j] = j_id[j]
  BY <1>1 DEF JobsInv
<1>9. ASSUME NEW u \in Threads PROVE Calling(u)'
  <2>1. CASE u = t
    BY <1>1, <1>2, <2>1 DEF JobsInv, Calling
  <2>2. CASE u # t
    <3>1. Calling(u) /\ jpc'[u] = jpc[u] /\ jp'[u] = jp[u] /\ jpc[u] \notin Locked /\ jpc[u] # "walk"
      BY <1>1, <1>2, <2>2 DEF JobsInv, Calling
    <3>2. CASE jpc[u] \in Adding
      <4>1. jp[u] \in Jobs /\ ~Queued(jp[u]) /\ jp[u] # jp[t] /\ j_id[jp[u]] # NULL
        BY <1>2, <3>1, <3>2 DEF Calling
      <4> QED  BY <1>6, <1>8, <3>1, <3>2, <4>1 DEF Calling
    <3>3. CASE jpc[u] \in Removing
      <4>1. Queued(jp[u]) /\ j_id[jp[u]] = u /\ jp[u] # jp[t] /\ jp[u] \in Jobs
        BY <1>2, <2>2, <3>1, <3>3, QueuedNext DEF Calling
      <4> QED  BY <1>6, <1>8, <3>1, <3>3, <4>1 DEF Calling
    <3> QED  BY <3>1, <3>2, <3>3 DEF Calling
  <2> QED  BY <2>1, <2>2
<1>10. JobsInv'
  <2>1. \A j \in Jobs : Queued(j)' => j_id'[j] # NULL
    BY <1>6, <1>8 DEF JobsInv
  <2> QED  BY <1>1, <1>7, <1>9, <2>1 DEF JobsInv
<1> QED  BY <1>3, <1>5, <1>10

LEMMA JobsStep ==
    ASSUME JobsInv, [J!Next]_J!jvars
    PROVE  /\ JobsInv'
           /\ \/ UNCHANGED queue
              \/ \E j \in Jobs : ~Queued(j) /\ queue' \in {<<j>> \o queue, Append(queue, j)}
              \/ \E j \in Jobs, k \in 1..Len(queue) : queue[k] = j /\ queue' = Without(queue, k)
<1>1. CASE UNCHANGED J!jvars
  <2>1. UNCHANGED J!list /\ UNCHANGED <<j_id, writer, readers, jpc, jp>>
    BY <1>1 DEF J!jvars, J!list
  <2>2. /\ queue' = queue
        /\ \A j : Queued(j)' <=> Queued(j)
        /\ Linked(j_next, j_prev, q_head, q_tail, queue)'
    BY <2>1, LinksSame
  <2> QED  BY <2>1, <2>2 DEF JobsInv, Calling
<1>2. ASSUME NEW t \in Threads, Outside(t)
      PROVE  JobsInv' /\ UNCHANGED queue
  BY <1>2, OutsideStep
<1>3. ASSUME NEW t \in Threads, J!job_insert(t) \/ J!job_append(t)
      PROVE  JobsInv' /\ \E j \in Jobs : ~Queued(j) /\ queue' \in {<<j>> \o queue, Append(queue, j)}
  BY <1>3, InsertStep, AppendStep
<1>4. ASSUME NEW t \in Threads, J!job_remove(t)
      PROVE  JobsInv' /\ \E j \in Jobs, k \in 1..Len(queue) : queue[k] = j /\ queue' = Without(queue, k)
  <2>1. JobsInv' /\ \E k \in 1..Len(queue) : queue[k] = jp[t] /\ queue' = Without(queue, k)
    BY <1>4, RemoveStep
  <2>2. \A k \in 1..Len(queue) : queue[k] \in Jobs
    BY DEF JobsInv, Linked
  <2> QED  BY <2>1, <2>2
<1> QED  BY <1>1, <1>2, <1>3, <1>4 DEF J!Next, Outside

\* The pointer job_find returns is good after its unlock, for any threads and jobs.
THEOREM FoundInQueue == J!Spec => []FoundStillQueued
<1>1. J!Init => JobsInv
  BY JobsInit
<1>2. JobsInv /\ [J!Next]_J!jvars => JobsInv'
  BY JobsStep
<1>3. JobsInv => FoundStillQueued
  BY DEF JobsInv, Calling, Removing, Queued, queue, FoundStillQueued, J!FoundStillQueued
<1> QED  BY <1>1, <1>2, <1>3, PTL DEF J!Spec

\* The linked list is a sequence of jobs, however many there are: insertion and
\* removal at the head, the tail and in the middle do to it what they should.
THEOREM JobsAreSequence == J!Spec => IsJobSequence
<1>1. J!Init => JobsInv /\ J!Seqs!Init
  BY JobsInit DEF J!Seqs!Init, queue
<1>2. JobsInv /\ [J!Next]_J!jvars => JobsInv' /\ [J!Seqs!Next]_(J!Along(j_next, q_head))
  <2> SUFFICES ASSUME JobsInv, [J!Next]_J!jvars
               PROVE  JobsInv' /\ (J!Seqs!Next \/ UNCHANGED queue)
    BY DEF queue
  <2>1. ASSUME NEW j \in Jobs, ~Queued(j), queue' \in {<<j>> \o queue, Append(queue, j)}
        PROVE  J!Seqs!Next
    BY <2>1 DEF J!Seqs!Next, J!Seqs!job_insert, J!Seqs!job_append, J!Seqs!In, Queued, queue
  <2>2. ASSUME NEW j \in Jobs, NEW k \in 1..Len(queue), queue[k] = j, queue' = Without(queue, k)
        PROVE  J!Seqs!Next
    BY <2>2 DEF J!Seqs!Next, J!Seqs!job_remove, Without, queue
  <2> QED  BY <2>1, <2>2, JobsStep
<1> QED  BY <1>1, <1>2, PTL DEF J!Spec, IsJobSequence, J!IsJobSequence, J!Seqs!Spec
-----------------------------------------------------------------------------
(* BarrierSort *)

\* Products grow with their factors.
LEMMA ProductGrows == ASSUME NEW a \in Nat, NEW b \in Nat, a < b, NEW c \in Nat
                      PROVE  a * c + c <= b * c
<1>1. b - a - 1 \in Nat
  OBVIOUS
<1>2. \A k \in Nat : k * c \in Nat
  OBVIOUS
<1>3. (b - a - 1) * c \in Nat
  BY <1>1, <1>2
<1>4. (b - a - 1) * c = b * c - a * c - c
  OBVIOUS
<1>5. a * c \in Nat /\ b * c \in Nat
  OBVIOUS
<1> QED  BY <1>3, <1>4, <1>5

LEMMA Sizes == /\ B!NUMNUM \in Nat /\ NTHR \in Nat /\ TNUM \in Nat
               /\ \A t \in B!Workers : t \in Nat /\ t * TNUM \in Nat /\ t * TNUM + TNUM <= B!NUMNUM
<1>1. NTHR \in Nat /\ TNUM \in Nat
  BY SortAssumption
<1>2. \A a, b \in Nat : a * b \in Nat
  OBVIOUS
<1>3. ASSUME NEW t \in B!Workers PROVE t \in Nat /\ t * TNUM \in Nat /\ t * TNUM + TNUM <= NTHR * TNUM
  <2>1. t \in Nat /\ t < NTHR
    BY <1>1 DEF B!Workers
  <2> QED  BY <1>1, <1>2, <2>1, ProductGrows
<1> QED  BY <1>1, <1>2, <1>3 DEF B!NUMNUM

\* The parts are parts of the array, do not overlap, and are all of it.
LEMMA PartsApart == ASSUME NEW t \in B!Workers, NEW u \in B!Workers, NEW k \in B!Part(t), k \in B!Part(u)
                    PROVE  t = u
<1>1. /\ t \in Nat /\ u \in Nat /\ TNUM \in Nat /\ t * TNUM \in Nat /\ u * TNUM \in Nat
      /\ t * TNUM <= k /\ k < t * TNUM + TNUM /\ u * TNUM <= k /\ k < u * TNUM + TNUM /\ k \in Nat
  BY Sizes DEF B!Part
<1>2. ~(t < u)
  <2> SUFFICES ASSUME t < u PROVE FALSE
    OBVIOUS
  <2>1. t * TNUM + TNUM <= u * TNUM
    BY <1>1, ProductGrows
  <2> QED  BY <1>1, <2>1
<1>3. ~(u < t)
  <2> SUFFICES ASSUME u < t PROVE FALSE
    OBVIOUS
  <2>1. u * TNUM + TNUM <= t * TNUM
    BY <1>1, ProductGrows
  <2> QED  BY <1>1, <2>1
<1> QED  BY <1>1, <1>2, <1>3

LEMMA PartsInside == ASSUME NEW t \in B!Workers PROVE B!Part(t) \subseteq 0..(B!NUMNUM - 1)
<1>1. /\ t * TNUM \in Nat /\ TNUM \in Nat /\ t * TNUM + TNUM <= B!NUMNUM /\ B!NUMNUM \in Nat
  BY Sizes
<1> QED  BY <1>1 DEF B!Part

LEMMA PartsCover == ASSUME NEW k \in 0..(B!NUMNUM - 1) PROVE \E t \in B!Workers : k \in B!Part(t)
<1> DEFINE After == {t \in B!Workers : k < t * TNUM + TNUM}
<1>1. NTHR \in Nat /\ TNUM \in Nat /\ B!NUMNUM \in Nat /\ k \in Nat /\ k < NTHR * TNUM
  BY Sizes DEF B!NUMNUM
<1>2. After # {}
  <2>1. NTHR # 0
    <3>1. 0 * TNUM = 0
      BY <1>1
    <3> QED  BY <1>1, <3>1
  <2>2. NTHR - 1 \in B!Workers /\ NTHR - 1 \in Nat
    BY <1>1, <2>1 DEF B!Workers
  <2>3. (NTHR - 1) * TNUM + TNUM = NTHR * TNUM
    BY <1>1, <2>2
  <2> QED  BY <1>1, <2>2, <2>3
<1>3. PICK t \in After : \A u \in After : t <= u
  <2>1. After \subseteq Nat
    BY Sizes
  <2> QED  BY <1>2, <2>1, LeastOf
<1>4. t \in B!Workers /\ t \in Nat /\ t * TNUM \in Nat /\ k < t * TNUM + TNUM
  BY <1>3, Sizes
<1>5. t * TNUM <= k
  <2>1. CASE t = 0
    <3>1. 0 * TNUM = 0
      BY <1>1
    <3> QED  BY <1>1, <2>1, <3>1
  <2>2. CASE t # 0
    <3>1. t - 1 \in B!Workers /\ t - 1 \in Nat /\ ~(t <= t - 1)
      BY <1>1, <1>4, <2>2 DEF B!Workers
    <3>2. ~(k < (t - 1) * TNUM + TNUM)
      BY <1>3, <3>1
    <3>3. (t - 1) * TNUM + TNUM = t * TNUM
      BY <1>1, <1>4, <3>1
    <3> QED  BY <1>1, <1>4, <3>2, <3>3
  <2> QED  BY <2>1, <2>2
<1> QED  BY <1>1, <1>4, <1>5 DEF B!Part

Places == 0..(B!NUMNUM - 1)
Ordered(t) == \A j, k \in B!Part(t) : j < k => nums[j] <= nums[k]

\* The places merge() has been at, and where a number is among them and in its result.
Taken == {k \in Places : \E t \in B!Workers : k \in B!Part(t) /\ k < idx[t]}
TakenFor(v) == {k \in Taken : nums[k] = v}
Written(v) == {k \in 1..Len(snums) : snums[k] = v}

\* What merge() has written is in order, is what it has taken, and nothing that is left
\* is less.
MergeInv ==
    /\ idx \in [B!Workers -> Nat]
    /\ \A t \in B!Workers : t * TNUM <= idx[t] /\ idx[t] <= t * TNUM + TNUM
    /\ Len(snums) = Cardinality(Taken)
    /\ \A v \in Nat : Cardinality(Written(v)) = Cardinality(TakenFor(v))
    /\ \A k \in 1..(Len(snums) - 1) : snums[k] <= snums[k + 1]
    /\ \A k \in Places \ Taken : Len(snums) > 0 => snums[Len(snums)] <= nums[k]

SortType ==
    /\ nums \in [Places -> 0..(LONG_MAX - 1)]
    /\ snums \in Seq(Nat)

\* Who has passed the barrier has sorted its part, and main passes it last of all.
SortInv ==
    /\ SortType
    /\ arrived \subseteq B!Workers \cup {B!main}
    /\ DOMAIN spc = B!Workers \cup {B!main}
    /\ \A t \in B!Workers : /\ spc[t] \in {"none", "sort", "arrive", "wait", "done", "dead"}
                            /\ spc[t] \in {"arrive", "wait", "done"} => Ordered(t)
                            /\ spc[t] = "dead" => spc[B!main] = "dead"
    /\ spc[B!main] \in {"create", "arrive", "wait", "begin", "merge", "print", "dead"}
    /\ \A t \in arrived : spc[t] \notin {"none", "sort", "create", "arrive"}
    /\ spc[B!main] \in {"begin", "merge", "print"} => \A t \in B!Workers : spc[t] \in {"wait", "done"}
    /\ spc[B!main] \in {"create", "arrive", "wait", "begin"} => snums = <<>>
    /\ spc[B!main] \in {"merge", "print"} => MergeInv
    /\ spc[B!main] = "print" => Len(snums) = B!NUMNUM

LEMMA TakenFinite == IsFiniteSet(Places) /\ Cardinality(Places) = B!NUMNUM
                     /\ IsFiniteSet(Taken) /\ Cardinality(Taken) \in Nat /\ Taken \subseteq Places
<1>1. \A n \in Nat : IsFiniteSet(0..(n - 1)) /\ Cardinality(0..(n - 1)) = n
  <2> TAKE n \in Nat
  <2>1. n - 1 \in Int
    OBVIOUS
  <2>2. /\ IsFiniteSet(0..(n - 1))
        /\ Cardinality(0..(n - 1)) = IF 0 > n - 1 THEN 0 ELSE n - 1 - 0 + 1
    BY <2>1, FS_Interval
  <2> QED  BY <2>2
<1>2. IsFiniteSet(Places) /\ Cardinality(Places) = B!NUMNUM
  BY <1>1, Sizes DEF Places
<1>3. Taken \subseteq Places
  BY DEF Taken
<1>4. IsFiniteSet(Taken) /\ Cardinality(Taken) \in Nat
  BY <1>2, <1>3, FS_Subset, FS_CardinalityType
<1> QED  BY <1>2, <1>3, <1>4

\* While places are left there is a next one, the first of those left in its part, and
\* its number is the least of all that are left.
LEMMA NextLeast ==
    ASSUME SortType, MergeInv, \A t \in B!Workers : Ordered(t), Len(snums) < B!NUMNUM
    PROVE  /\ B!least \in B!Workers
           /\ idx[B!least] \in B!Part(B!least) /\ idx[B!least] \in Places \ Taken
           /\ \A k \in Places \ Taken : nums[idx[B!least]] <= nums[k]
<1> DEFINE open == {t \in B!Workers : idx[t] < (t + 1) * TNUM /\ nums[idx[t]] < LONG_MAX}
           best == {t \in open : \A k \in open : \/ nums[idx[t]] < nums[idx[k]]
                                                 \/ nums[idx[t]] = nums[idx[k]] /\ t <= k}
<1>1. \A t \in B!Workers : /\ t \in Nat /\ t * TNUM \in Nat /\ TNUM \in Nat /\ idx[t] \in Nat
                           /\ (t + 1) * TNUM = t * TNUM + TNUM
                           /\ t * TNUM <= idx[t] /\ idx[t] <= t * TNUM + TNUM
  <2>1. \A t \in Nat : (t + 1) * TNUM = t * TNUM + TNUM
    BY Sizes
  <2> QED  BY <2>1, Sizes DEF MergeInv
<1>2. \A k \in Places : nums[k] \in Nat /\ nums[k] < LONG_MAX
  BY SortAssumption DEF SortType
<1>3. \A t \in B!Workers : t \in open <=> idx[t] \in B!Part(t)
  <2> TAKE t \in B!Workers
  <2>1. t \in open => idx[t] \in B!Part(t)
    BY <1>1 DEF B!Part
  <2>2. ASSUME idx[t] \in B!Part(t) PROVE t \in open
    <3>1. idx[t] \in Places
      BY <2>2, PartsInside DEF Places
    <3>2. idx[t] < t * TNUM + TNUM
      BY <1>1, <2>2 DEF B!Part
    <3> QED  BY <1>1, <1>2, <3>1, <3>2
  <2> QED  BY <2>1, <2>2
<1>4. ASSUME NEW k \in Places \ Taken
      PROVE  \E t \in open : nums[idx[t]] <= nums[k]
  <2>1. PICK t \in B!Workers : k \in B!Part(t)
    BY PartsCover DEF Places
  <2>2. ~(k < idx[t])
    BY <2>1 DEF Taken
  <2>3. /\ t * TNUM <= idx[t] /\ idx[t] <= k /\ k < t * TNUM + TNUM /\ idx[t] \in Nat
        /\ t * TNUM \in Nat /\ TNUM \in Nat /\ k \in Nat
    BY <1>1, <2>1, <2>2 DEF B!Part
  <2>4. idx[t] \in B!Part(t)
    BY <2>3 DEF B!Part
  <2>5. idx[t] = k \/ idx[t] < k
    BY <2>3
  <2>6. nums[idx[t]] <= nums[k]
    BY <1>2, <2>1, <2>4, <2>5 DEF Ordered
  <2> QED  BY <1>3, <2>4, <2>6
<1>5. open # {}
  <2> SUFFICES ASSUME open = {} PROVE FALSE
    OBVIOUS
  <2>1. Taken = Places
    BY <1>4, TakenFinite
  <2> QED  BY <2>1, TakenFinite, Sizes DEF MergeInv
<1>6. \A t \in open : t \in B!Workers /\ t \in Nat /\ nums[idx[t]] \in Nat
  BY <1>1, <1>2, <1>3, PartsInside DEF Places
<1>7. best # {}
  <2> DEFINE Values == {nums[idx[t]] : t \in open}
  <2>1. PICK v \in Values : \A w \in Values : v <= w
    BY <1>5, <1>6, LeastOf
  <2> DEFINE First == {t \in open : nums[idx[t]] = v}
  <2>2. First # {} /\ First \subseteq Nat
    BY <1>6, <2>1
  <2>3. PICK t \in First : \A k \in First : t <= k
    BY <2>2, LeastOf
  <2>4. ASSUME NEW k \in open PROVE nums[idx[t]] < nums[idx[k]] \/ (nums[idx[t]] = nums[idx[k]] /\ t <= k)
    <3>1. nums[idx[t]] = v /\ v <= nums[idx[k]] /\ v \in Nat /\ nums[idx[k]] \in Nat
      BY <1>6, <2>1, <2>3
    <3> QED  BY <2>3, <3>1
  <2> QED  BY <2>3, <2>4
<1>8. B!least = CHOOSE t \in best : TRUE
  BY <1>5 DEF B!least
<1> HIDE DEF best
<1>9. B!least \in best
  BY <1>7, <1>8
<1> DEFINE c == B!least
<1> HIDE DEF c
<1>10. c \in open /\ \A k \in open : nums[idx[c]] <= nums[idx[k]]
  BY <1>6, <1>9 DEF best, c
<1>11. c \in B!Workers /\ idx[c] \in B!Part(c) /\ idx[c] \in Places
  BY <1>3, <1>10, PartsInside DEF Places
<1>12. idx[c] \notin Taken
  <2> SUFFICES ASSUME NEW t \in B!Workers, idx[c] \in B!Part(t), idx[c] < idx[t] PROVE FALSE
    BY DEF Taken
  <2>1. t = c
    BY <1>11, PartsApart
  <2> QED  BY <1>1, <1>11, <2>1
<1>13. ASSUME NEW k \in Places \ Taken PROVE nums[idx[c]] <= nums[k]
  <2>1. PICK t \in open : nums[idx[t]] <= nums[k]
    BY <1>4
  <2> QED  BY <1>2, <1>6, <1>10, <2>1
<1> QED  BY <1>11, <1>12, <1>13 DEF c

\* One more number that is or is not the one that is counted.
LEMMA CountOne ==
    ASSUME NEW S, IsFiniteSet(S), NEW e, e \notin S, NEW hit \in BOOLEAN
    PROVE  Cardinality(S \cup (IF hit THEN {e} ELSE {})) = Cardinality(S) + (IF hit THEN 1 ELSE 0)
<1>1. CASE hit
  <2>1. Cardinality(S \cup {e}) = Cardinality(S) + 1
    BY FS_AddElement
  <2> QED  BY <1>1, <2>1
<1>2. CASE ~hit
  <2>1. S \cup {} = S /\ Cardinality(S) \in Nat
    BY FS_CardinalityType
  <2> QED  BY <1>2, <2>1
<1> QED  BY <1>1, <1>2

LEMMA RoundStep ==
    ASSUME SortType, MergeInv, \A t \in B!Workers : Ordered(t), Len(snums) < B!NUMNUM, B!Round
    PROVE  SortType' /\ MergeInv'
<1> DEFINE c == B!least
           p == idx[c]
           n == Len(snums)
<1>1. /\ c \in B!Workers /\ p \in B!Part(c) /\ p \in Places /\ p \notin Taken
      /\ \A k \in Places \ Taken : nums[p] <= nums[k]
  BY NextLeast
<1>2. snums' = Append(snums, nums[p]) /\ idx' = [idx EXCEPT ![c] = p + 1] /\ nums' = nums
  BY DEF B!Round, MergeInv
<1> HIDE DEF c
<1>3. \A k \in Places : nums[k] \in Nat
  BY SortAssumption DEF SortType
<1>4. /\ snums' \in Seq(Nat) /\ n \in Nat /\ Len(snums') = n + 1 /\ snums'[n + 1] = nums[p]
      /\ \A k \in 1..n : snums'[k] = snums[k] /\ snums[k] \in Nat
  BY <1>1, <1>2, <1>3 DEF SortType
<1>5. Places' = Places /\ \A t : B!Part(t)' = B!Part(t)
  BY DEF Places, B!Part
<1>6. Taken' = Taken \cup {p}
  <2>1. p \in Nat /\ idx[c] = p /\ \A t \in B!Workers : idx[t] \in Nat
    BY <1>1 DEF MergeInv
  <2>2. \A t \in B!Workers : idx'[t] = IF t = c THEN p + 1 ELSE idx[t]
    BY <1>1, <1>2 DEF MergeInv
  <2>3. ASSUME NEW k \in Taken' PROVE k \in Taken \cup {p}
    <3>1. PICK t \in B!Workers : k \in B!Part(t) /\ k < idx'[t]
      BY <2>3 DEF Taken, B!Part, Places
    <3>2. k \in Places /\ k \in Int
      BY <2>3 DEF Taken, Places
    <3>3. k < idx[t] \/ k = p
      BY <2>1, <2>2, <3>1, <3>2
    <3> QED  BY <3>1, <3>2, <3>3 DEF Taken
  <2>4. ASSUME NEW k \in Taken PROVE k \in Taken'
    <3>1. PICK t \in B!Workers : k \in B!Part(t) /\ k < idx[t]
      BY <2>4 DEF Taken
    <3>2. k \in Places /\ k \in Int
      BY <2>4 DEF Taken, Places
    <3>3. k < idx'[t]
      BY <2>1, <2>2, <3>1, <3>2
    <3> QED  BY <3>1, <3>2, <3>3 DEF Taken, B!Part, Places
  <2>5. p \in Taken'
    <3>1. p < idx'[c]
      BY <1>1, <2>1, <2>2
    <3> QED  BY <1>1, <3>1 DEF Taken, B!Part, Places
  <2> QED  BY <2>3, <2>4, <2>5
<1>7. idx' \in [B!Workers -> Nat]
  BY <1>1, <1>2 DEF MergeInv, B!Part
<1>8. ASSUME NEW t \in B!Workers PROVE t * TNUM <= idx'[t] /\ idx'[t] <= t * TNUM + TNUM
  <2>1. t * TNUM \in Nat /\ TNUM \in Nat /\ c * TNUM \in Nat
    BY <1>1, Sizes
  <2>2. c * TNUM <= p /\ p <= c * TNUM + TNUM - 1 /\ p \in Nat
    BY <1>1, <2>1 DEF B!Part
  <2>3. CASE t = c
    <3>1. idx'[t] = p + 1
      BY <1>1, <1>2, <2>3 DEF MergeInv
    <3> QED  BY <2>1, <2>2, <2>3, <3>1
  <2>4. CASE t # c
    <3>1. idx'[t] = idx[t]
      BY <1>1, <1>2, <2>4 DEF MergeInv
    <3> QED  BY <3>1 DEF MergeInv
  <2> QED  BY <2>3, <2>4
<1>9. Len(snums') = Cardinality(Taken')
  <2>1. Cardinality(Taken \cup {p}) = Cardinality(Taken) + 1
    BY <1>1, TakenFinite, FS_AddElement
  <2> QED  BY <1>4, <1>6, <2>1 DEF MergeInv
<1>10. ASSUME NEW v \in Nat PROVE Cardinality(Written(v)') = Cardinality(TakenFor(v)')
  <2> DEFINE hit == nums[p] = v
  <2>1. Written(v)' = Written(v) \cup (IF hit THEN {n + 1} ELSE {})
    BY <1>4 DEF Written
  <2>2. TakenFor(v)' = TakenFor(v) \cup (IF hit THEN {p} ELSE {})
    BY <1>1, <1>2, <1>6 DEF TakenFor
  <2>3. IsFiniteSet(Written(v)) /\ n + 1 \notin Written(v)
    <3>1. \A b \in Nat : IsFiniteSet(1..b)
      <4> TAKE b \in Nat
      <4>1. 1 \in Int /\ b \in Int
        OBVIOUS
      <4> QED  BY <4>1, FS_Interval
    <3>2. IsFiniteSet(1..n)
      BY <1>4, <3>1
    <3>3. Written(v) \subseteq 1..n
      BY DEF Written
    <3>4. n + 1 \notin 1..n
      BY <1>4
    <3> QED  BY <3>2, <3>3, <3>4, FS_Subset
  <2>4. IsFiniteSet(TakenFor(v)) /\ p \notin TakenFor(v)
    <3>1. TakenFor(v) \subseteq Taken
      BY DEF TakenFor
    <3> QED  BY <1>1, <3>1, TakenFinite, FS_Subset
  <2>5. hit \in BOOLEAN
    OBVIOUS
  <2> HIDE DEF hit
  <2>6. Cardinality(Written(v) \cup (IF hit THEN {n + 1} ELSE {}))
        = Cardinality(Written(v)) + (IF hit THEN 1 ELSE 0)
    BY <2>3, <2>5, CountOne
  <2>7. Cardinality(TakenFor(v) \cup (IF hit THEN {p} ELSE {}))
        = Cardinality(TakenFor(v)) + (IF hit THEN 1 ELSE 0)
    BY <2>4, <2>5, CountOne
  <2> QED  BY <2>1, <2>2, <2>6, <2>7 DEF MergeInv
<1>11. n > 0 => snums[n] <= nums[p]
  BY <1>1 DEF MergeInv
<1>12. ASSUME NEW k \in 1..(Len(snums') - 1) PROVE snums'[k] <= snums'[k + 1]
  <2>1. CASE k = n
    BY <1>4, <1>11, <1>12, <2>1
  <2>2. CASE k # n
    <3>1. k \in 1..(n - 1) /\ k \in 1..n /\ k + 1 \in 1..n
      BY <1>4, <1>12, <2>2
    <3>2. snums[k] <= snums[k + 1]
      BY <3>1 DEF MergeInv
    <3> QED  BY <1>4, <3>1, <3>2
  <2> QED  BY <2>1, <2>2
<1>13. \A k \in Places \ Taken' : snums'[Len(snums')] <= nums[k]
  BY <1>1, <1>4, <1>6
<1>14. SortType'
  BY <1>2, <1>4, <1>5 DEF SortType
<1> QED
  BY <1>2, <1>5, <1>7, <1>8, <1>9, <1>10, <1>12, <1>13, <1>14 DEF MergeInv, B!Workers

LEMMA MergeStart ==
    ASSUME SortType, snums = <<>>, nums' = nums, snums' = snums,
           idx' = [t \in B!Workers |-> t * TNUM]
    PROVE  MergeInv'
<1>1. \A t \in B!Workers : t * TNUM \in Nat /\ TNUM \in Nat /\ idx'[t] = t * TNUM
  BY Sizes
<1>2. Taken' = {}
  <2> SUFFICES ASSUME NEW t \in B!Workers, NEW k \in B!Part(t), k < idx'[t] PROVE FALSE
    BY DEF Taken, B!Part, B!Workers, Places
  <2> QED  BY <1>1 DEF B!Part
<1>3. Cardinality({}) = 0
  BY FS_EmptySet
<1>4. Len(snums') = 0 /\ Len(<<>>) = 0
  OBVIOUS
<1>5. \A v : Written(v)' = {} /\ TakenFor(v)' = {}
  BY <1>2, <1>4 DEF Written, TakenFor
<1>6. /\ idx' \in [B!Workers -> Nat]
      /\ \A t \in B!Workers : t * TNUM <= idx'[t] /\ idx'[t] <= t * TNUM + TNUM
  BY <1>1
<1>7. 1..(Len(snums') - 1) = {}
  BY <1>4
<1>8. Len(snums') = Cardinality(Taken')
  BY <1>2, <1>3, <1>4
<1>9. ASSUME NEW v \in Nat PROVE Cardinality(Written(v)') = Cardinality(TakenFor(v)')
  BY <1>5
<1>10. ~(Len(snums') > 0)
  BY <1>4
<1> QED  BY <1>6, <1>7, <1>8, <1>9, <1>10 DEF MergeInv, B!Workers

\* A thread that sorts its part leaves the others as they are.
LEMMA ThreadSorts ==
    ASSUME SortType, NEW t \in B!Workers, B!thr_fn(t)
    PROVE  /\ nums' \in [Places -> 0..(LONG_MAX - 1)]
           /\ Ordered(t)'
           /\ \A u \in B!Workers : Ordered(u) => Ordered(u)'
<1>1. PICK f \in B!Injection(B!Part(t), B!Part(t)) :
          nums' = [k \in DOMAIN nums |-> IF k \in B!Part(t) THEN nums[f[k]] ELSE nums[k]]
  BY DEF B!thr_fn
<1>2. f \in [B!Part(t) -> B!Part(t)]
  BY <1>1 DEF B!Injection
<1>3. \A u \in B!Workers : B!Part(u) \subseteq Places
  BY PartsInside DEF Places
<1>4. DOMAIN nums = Places /\ \A k \in Places : nums[k] \in 0..(LONG_MAX - 1)
  BY DEF SortType
<1>5. nums' \in [Places -> 0..(LONG_MAX - 1)]
  BY <1>1, <1>2, <1>3, <1>4
<1>6. \A k \in Places : nums'[k] \in Int
  BY <1>5, SortAssumption
<1>7. \A u : B!Part(u)' = B!Part(u)
  BY DEF B!Part
<1>8. Ordered(t)'
  <2>1. \A j, k \in B!Part(t) : j < k => B!complong(nums'[j], nums'[k]) <= 0
    BY DEF B!thr_fn
  <2>2. \A v, w \in Int : B!complong(v, w) <= 0 => v <= w
    BY DEF B!complong
  <2>3. \A j, k \in B!Part(t) : j < k => nums'[j] <= nums'[k]
    BY <1>3, <1>6, <2>1, <2>2
  <2> QED  BY <1>7, <2>3 DEF Ordered
<1>9. ASSUME NEW u \in B!Workers, Ordered(u) PROVE Ordered(u)'
  <2>1. CASE u = t
    BY <1>8, <2>1
  <2>2. CASE u # t
    <3>1. \A k \in B!Part(u) : k \notin B!Part(t)
      BY <2>2, PartsApart
    <3>2. \A k \in B!Part(u) : nums'[k] = nums[k]
      BY <1>1, <1>3, <1>4, <3>1
    <3> QED  BY <1>7, <1>9, <3>2 DEF Ordered
  <2> QED  BY <2>1, <2>2
<1> QED  BY <1>5, <1>8, <1>9

\* The barrier opens when every worker and main are at it.
LEMMA AllArrived ==
    ASSUME arrived \subseteq B!Workers \cup {B!main}, B!barrier_open
    PROVE  arrived = B!Workers \cup {B!main}
<1> DEFINE All == B!Workers \cup {B!main}
<1>1. NTHR \in Nat /\ All = 0..NTHR
  BY Sizes DEF B!Workers, B!main
<1>2. \A n \in Nat : IsFiniteSet(0..n) /\ Cardinality(0..n) = n + 1
  <2> TAKE n \in Nat
  <2>1. 0 \in Int /\ n \in Int
    OBVIOUS
  <2>2. /\ IsFiniteSet(0..n)
        /\ Cardinality(0..n) = IF 0 > n THEN 0 ELSE n - 0 + 1
    BY <2>1, FS_Interval
  <2> QED  BY <2>2
<1>3. IsFiniteSet(All) /\ Cardinality(All) = NTHR + 1
  BY <1>1, <1>2
<1>4. Cardinality(arrived) >= NTHR + 1
  <2>1. B!Cardinality(arrived) = Cardinality(arrived)
    BY DEF B!Cardinality, Cardinality
  <2> QED  BY <2>1 DEF B!barrier_open
<1>5. /\ Cardinality(arrived) \in Nat /\ Cardinality(arrived) <= Cardinality(All)
      /\ Cardinality(arrived) = Cardinality(All) => arrived = All
  BY <1>3, FS_Subset, FS_CardinalityType
<1> QED  BY <1>1, <1>3, <1>4, <1>5

LEMMA SortInit == B!Init => SortInv
<1> SUFFICES ASSUME B!Init PROVE SortInv
  OBVIOUS
<1>1. NTHR \in Nat /\ B!main = NTHR /\ B!main \notin B!Workers
  BY Sizes DEF B!Workers, B!main
<1>2. SortType
  BY DEF B!Init, SortType, Places
<1>3. /\ DOMAIN spc = B!Workers \cup {B!main} /\ spc[B!main] = "create"
      /\ \A t \in B!Workers : spc[t] = "none"
  BY <1>1 DEF B!Init
<1> QED  BY <1>2, <1>3 DEF SortInv, B!Init

LEMMA SortStep == SortInv /\ [B!Next]_B!svars => SortInv'
<1> SUFFICES ASSUME SortInv, [B!Next]_B!svars PROVE SortInv'
  OBVIOUS
<1>0. /\ B!main \notin B!Workers /\ B!Workers' = B!Workers /\ B!main' = B!main
      /\ Places' = Places /\ B!NUMNUM' = B!NUMNUM
  BY Sizes DEF B!Workers, B!main, Places, B!NUMNUM
<1>1. ASSUME nums' = nums
      PROVE  \A t : Ordered(t) => Ordered(t)'
  BY <1>1 DEF Ordered, B!Part
<1>2. ASSUME nums' = nums, snums' = snums, idx' = idx
      PROVE  SortType' /\ (MergeInv => MergeInv')
  <2>1. Taken' = Taken
    BY <1>0, <1>2 DEF Taken, B!Part, B!Workers
  <2>2. \A v : Written(v)' = Written(v) /\ TakenFor(v)' = TakenFor(v)
    BY <1>2, <2>1 DEF Written, TakenFor
  <2> QED  BY <1>0, <1>2, <2>1, <2>2 DEF SortType, MergeInv, SortInv
<1>3. ASSUME NEW t \in B!Workers, B!thr_fn(t) PROVE SortInv'
  <2>1. /\ nums' \in [Places -> 0..(LONG_MAX - 1)] /\ Ordered(t)'
        /\ \A u \in B!Workers : Ordered(u) => Ordered(u)'
    BY <1>3, ThreadSorts DEF SortInv
  <2>2. /\ spc[t] = "sort" /\ spc' = [spc EXCEPT ![t] = "arrive"]
        /\ snums' = snums /\ idx' = idx /\ arrived' = arrived
    BY <1>3 DEF B!thr_fn, B!Goto, B!merging
  <2>3. spc[B!main] \notin {"begin", "merge", "print"} /\ t \notin arrived
    BY <2>2 DEF SortInv
  <2>4. SortType'
    BY <1>0, <2>1, <2>2 DEF SortInv, SortType
  <2> QED  BY <1>0, <2>1, <2>2, <2>3, <2>4 DEF SortInv
<1>4. ASSUME NEW t \in B!Workers \cup {B!main}, B!Arrive(t) PROVE SortInv'
  <2>1. /\ spc[t] = "arrive" /\ spc' = [spc EXCEPT ![t] = "wait"]
        /\ nums' = nums /\ snums' = snums /\ idx' = idx /\ arrived' = arrived \cup {t}
    BY <1>4 DEF B!Arrive, B!Goto, B!merging
  <2>2. SortType' /\ (MergeInv => MergeInv') /\ \A u : Ordered(u) => Ordered(u)'
    BY <1>1, <1>2, <2>1
  <2> QED  BY <1>0, <2>1, <2>2 DEF SortInv
<1>5. ASSUME NEW t \in B!Workers \cup {B!main}, B!Leave(t) PROVE SortInv'
  <2>1. /\ spc[t] = "wait"
        /\ spc' = [spc EXCEPT ![t] = IF t = B!main THEN "begin" ELSE "done"]
        /\ nums' = nums /\ snums' = snums /\ idx' = idx /\ arrived' = arrived
    BY <1>5 DEF B!Leave, B!Goto, B!merging
  <2>2. SortType' /\ (MergeInv => MergeInv') /\ \A u : Ordered(u) => Ordered(u)'
    BY <1>1, <1>2, <2>1
  <2>3. CASE t = B!main
    <3>1. arrived = B!Workers \cup {B!main}
      BY <1>5, AllArrived DEF B!Leave, SortInv
    <3>2. \A u \in B!Workers : spc[u] \in {"wait", "done"}
      BY <2>1, <2>3, <3>1 DEF SortInv
    <3> QED  BY <1>0, <2>1, <2>2, <2>3, <3>2 DEF SortInv
  <2>4. CASE t # B!main
    BY <1>0, <2>1, <2>2, <2>4 DEF SortInv
  <2> QED  BY <2>3, <2>4
<1>6. CASE B!Create
  <2>1. nums' = nums /\ snums' = snums /\ idx' = idx /\ arrived' = arrived /\ spc[B!main] = "create"
    BY <1>6 DEF B!Create, B!Goto, B!merging
  <2>2. SortType' /\ (MergeInv => MergeInv') /\ \A u : Ordered(u) => Ordered(u)'
    BY <1>1, <1>2, <2>1
  <2>3. ASSUME NEW t \in B!Workers, spc[t] = "none", spc' = [spc EXCEPT ![t] = "sort"] PROVE SortInv'
    BY <1>0, <2>1, <2>2, <2>3 DEF SortInv
  <2>4. ASSUME spc' = [t \in DOMAIN spc |-> "dead"] PROVE SortInv'
    BY <1>0, <2>1, <2>2, <2>4 DEF SortInv
  <2>5. ASSUME spc' = [spc EXCEPT ![B!main] = "arrive"] PROVE SortInv'
    BY <1>0, <2>1, <2>2, <2>5 DEF SortInv
  <2> QED  BY <1>6, <2>3, <2>4, <2>5 DEF B!Create, B!Goto
<1>7. CASE B!merge
  <2>1. /\ spc[B!main] = "begin" /\ spc' = [spc EXCEPT ![B!main] = "merge"]
        /\ nums' = nums /\ snums' = snums /\ arrived' = arrived
        /\ idx' = [t \in B!Workers |-> t * TNUM]
    BY <1>7 DEF B!merge, B!Goto
  <2>2. SortType /\ snums = <<>>
    BY <2>1 DEF SortInv
  <2>3. MergeInv'
    BY <2>1, <2>2, MergeStart
  <2>4. SortType' /\ \A u : Ordered(u) => Ordered(u)'
    BY <1>0, <1>1, <2>1, <2>2 DEF SortType
  <2> QED  BY <1>0, <2>1, <2>3, <2>4 DEF SortInv
<1>8. CASE B!Round
  <2>1. /\ spc[B!main] = "merge" /\ spc' = spc /\ nums' = nums /\ arrived' = arrived
        /\ Len(snums) < B!NUMNUM
    BY <1>8 DEF B!Round
  <2>2. SortType /\ MergeInv /\ \A t \in B!Workers : Ordered(t)
    BY <2>1 DEF SortInv
  <2>3. SortType' /\ MergeInv'
    BY <1>8, <2>1, <2>2, RoundStep
  <2>4. \A u : Ordered(u) => Ordered(u)'
    BY <1>1, <2>1
  <2> QED  BY <1>0, <2>1, <2>3, <2>4 DEF SortInv
<1>9. CASE B!MergeDone
  <2>1. /\ spc[B!main] = "merge" /\ spc' = [spc EXCEPT ![B!main] = "print"]
        /\ nums' = nums /\ snums' = snums /\ idx' = idx /\ arrived' = arrived
        /\ Len(snums) = B!NUMNUM
    BY <1>9 DEF B!MergeDone, B!Goto, B!merging
  <2>2. SortType' /\ (MergeInv => MergeInv') /\ \A u : Ordered(u) => Ordered(u)'
    BY <1>1, <1>2, <2>1
  <2> QED  BY <1>0, <2>1, <2>2 DEF SortInv
<1>10. CASE B!Exit
  <2>1. /\ spc' = [t \in DOMAIN spc |-> "dead"]
        /\ nums' = nums /\ snums' = snums /\ idx' = idx /\ arrived' = arrived
    BY <1>10 DEF B!Exit, B!merging
  <2>2. SortType' /\ (MergeInv => MergeInv') /\ \A u : Ordered(u) => Ordered(u)'
    BY <1>1, <1>2, <2>1
  <2> QED  BY <1>0, <2>1, <2>2 DEF SortInv
<1>11. CASE UNCHANGED B!svars
  <2>1. /\ spc' = spc
        /\ nums' = nums /\ snums' = snums /\ idx' = idx /\ arrived' = arrived
    BY <1>11 DEF B!svars, B!merging
  <2>2. SortType' /\ (MergeInv => MergeInv') /\ \A u : Ordered(u) => Ordered(u)'
    BY <1>1, <1>2, <2>1
  <2> QED  BY <1>0, <2>1, <2>2 DEF SortInv
<1> QED
  BY <1>3, <1>4, <1>5, <1>6, <1>7, <1>8, <1>9, <1>10, <1>11 DEF B!Next

\* Whatever the number of threads, the size of a part and the numbers, what main prints
\* is all the numbers, in order.
THEOREM SortedInOrder == B!Spec => []SortedResult
<1>1. SortInv => SortedResult
  <2> SUFFICES ASSUME SortInv, spc[B!main] = "print" PROVE
          /\ \A k \in 1..(B!NUMNUM - 1) : snums[k] <= snums[k + 1]
          /\ \A v \in 0..(LONG_MAX - 1) :
                 B!Cardinality({k \in 1..B!NUMNUM : snums[k] = v})
                 = B!Cardinality({k \in DOMAIN nums : nums[k] = v})
    BY DEF SortedResult, B!SortedResult
  <2>1. SortType /\ MergeInv /\ Len(snums) = B!NUMNUM
    BY DEF SortInv
  <2>2. Taken = Places
    BY <2>1, TakenFinite, FS_Subset DEF MergeInv
  <2>3. ASSUME NEW v \in 0..(LONG_MAX - 1)
        PROVE  Cardinality({k \in 1..B!NUMNUM : snums[k] = v}) = Cardinality({k \in DOMAIN nums : nums[k] = v})
    <3>1. v \in Nat
      BY SortAssumption
    <3>2. {k \in 1..B!NUMNUM : snums[k] = v} = Written(v)
      BY <2>1 DEF Written
    <3>3. {k \in DOMAIN nums : nums[k] = v} = TakenFor(v)
      BY <2>1, <2>2 DEF TakenFor, SortType
    <3> QED  BY <2>1, <3>1, <3>2, <3>3 DEF MergeInv
  <2>4. \A S : B!Cardinality(S) = Cardinality(S)
    BY DEF B!Cardinality, Cardinality
  <2> QED  BY <2>1, <2>3, <2>4 DEF MergeInv
<1>2. B!Init => SortInv
  BY SortInit
<1>3. SortInv /\ [B!Next]_B!svars => SortInv'
  BY SortStep
<1> QED  BY <1>1, <1>2, <1>3, PTL DEF B!Spec
=============================================================================
