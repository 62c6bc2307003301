----------------------------- MODULE TerminalInput -----------------------------
(***************************************************************************)
(* stdin-signals/capture.cpp and capture2.cpp: a SIGIO handler that reads  *)
(* one character of standard input each time it runs, and a main loop that *)
(* ends when it has set flag_quit.  capture2.cpp also prints a mark every  *)
(* second.                                                                 *)
(***************************************************************************)
EXTENDS Naturals, Sequences

CONSTANTS MaxTyped   \* bounds the characters typed

VARIABLES input,     \* the characters typed and not yet read
          typed,
          sigio,     \* whether a SIGIO is pending
          merged,    \* the characters that raised no signal of their own
          cpc,       \* the statement main executes next
          handler,   \* whether sig_io is running
          count_characters_input, flag_quit

cvars == <<input, typed, sigio, merged, cpc, handler, count_characters_input, flag_quit>>

Init == /\ input = <<>>
        /\ typed = 0
        /\ sigio = FALSE
        /\ merged = 0
        /\ cpc = "sigaction"
        /\ handler = FALSE
        /\ count_characters_input = 0
        /\ flag_quit = 0

\* main's three calls; any of them may fail, which ends the program.
Configure == /\ cpc \in {"sigaction", "setown", "async"}
             /\ cpc' \in {CASE cpc = "sigaction" -> "setown" [] cpc = "setown" -> "async"
                            [] cpc = "async" -> "loop", "exit"}
             /\ UNCHANGED <<input, typed, sigio, merged, handler, count_characters_input, flag_quit>>

\* while (!flag_quit): the loop's counting is not modelled.
Quit == /\ cpc = "loop" /\ ~handler /\ flag_quit = 1
        /\ cpc' = "exit"
        /\ UNCHANGED <<input, typed, sigio, merged, handler, count_characters_input, flag_quit>>

\* A character arrives; with O_ASYNC set it raises SIGIO, which a pending one
\* absorbs.  "eof" stands for the end of the input and for an error of read.
Type(c) == /\ typed < MaxTyped
           /\ cpc # "exit"
           /\ \A k \in 1..Len(input) : input[k] # "eof"
           /\ input' = Append(input, c)
           /\ typed' = typed + 1
           /\ IF cpc = "loop" /\ ~sigio THEN sigio' = TRUE /\ UNCHANGED merged
              ELSE merged' = merged + 1 /\ UNCHANGED sigio
           /\ UNCHANGED <<cpc, handler, count_characters_input, flag_quit>>

Deliver == /\ sigio /\ ~handler /\ cpc = "loop"
           /\ sigio' = FALSE
           /\ handler' = TRUE
           /\ UNCHANGED <<input, typed, merged, cpc, count_characters_input, flag_quit>>

\* The character that read returns.
Take == /\ input' = Tail(input)
        /\ IF Head(input) \in {"q", "eof"}
           THEN flag_quit' = 1 /\ UNCHANGED count_characters_input
           ELSE count_characters_input' = count_characters_input + 1 /\ UNCHANGED flag_quit

\* A faulty variant, used as a mutant: a signal that came while the handler ran is
\* forgotten.
sig_ioForgets == /\ handler
                 /\ Take
                 /\ sigio' = FALSE
                 /\ handler' = FALSE
                 /\ UNCHANGED <<typed, merged, cpc>>

\* select with a timeout of 0, and one character when there is input.
sig_io == /\ handler
          /\ IF input # <<>> THEN Take ELSE UNCHANGED <<input, flag_quit, count_characters_input>>
          /\ handler' = FALSE
          /\ UNCHANGED <<typed, sigio, merged, cpc>>

Next == Configure \/ Quit \/ (\E c \in {"c", "q", "eof"} : Type(c)) \/ Deliver \/ sig_io

Spec == Init /\ [][Next]_cvars
-----------------------------------------------------------------------------
\* A character stays unread only because its signal was merged with another or was
\* not asked for yet: there are never more unread ones than that, plus those whose
\* signal is on its way.
UnreadWasMerged == Len(input) <= merged + (IF sigio THEN 1 ELSE 0) + (IF handler THEN 1 ELSE 0)
=============================================================================
