--------------------------- MODULE ParentChildPipe ---------------------------
(***************************************************************************)
(* pipes-unnamed/forkExecPipe.cpp and pipes-named/forkExecPipe.cpp: a      *)
(* child writes one message into a pipe or a FIFO, and the parent reads it *)
(* after it has waited for the child.                                      *)
(***************************************************************************)
EXTENDS Naturals

VARIABLES named,      \* which of the two programs runs
          rd, wr,     \* the processes with the read and the write end open
          full,       \* whether the message is in the pipe
          msg,        \* whether the parent has it
          fpc         \* the statement each process executes next

fvars == <<named, rd, wr, full, msg, fpc>>

Init == /\ named \in BOOLEAN
        /\ rd = IF named THEN {} ELSE {"parent"}
        /\ wr = IF named THEN {} ELSE {"parent"}
        /\ full = FALSE /\ msg = FALSE
        /\ fpc = [p \in {"parent", "child"} |-> IF p = "parent" THEN "fork" ELSE "none"]

Goto(p, from, to) == fpc[p] = from /\ fpc' = [fpc EXCEPT ![p] = to]

\* A faulty variant, used as a mutant: the parent does not open the FIFO before it
\* waits for the child.
ForkWaitFirst == /\ fpc["parent"] = "fork"
                 /\ rd' = rd \cup (IF named THEN {} ELSE {"child"})
                 /\ wr' = wr \cup (IF named THEN {} ELSE {"child"})
                 /\ fpc' = [parent |-> "wait", child |-> IF named THEN "open" ELSE "close"]
                 /\ UNCHANGED <<named, full, msg>>

\* The child gets a copy of the parent's descriptors; the program ends when fork
\* fails.
Fork == /\ fpc["parent"] = "fork"
        /\ \/ /\ rd' = rd \cup (IF named THEN {} ELSE {"child"})
              /\ wr' = wr \cup (IF named THEN {} ELSE {"child"})
              /\ fpc' = [p \in DOMAIN fpc |-> IF named THEN "open" ELSE IF p = "child" THEN "close" ELSE "wait"]
           \/ fpc' = [fpc EXCEPT !["parent"] = "failed"] /\ UNCHANGED <<rd, wr>>
        /\ UNCHANGED <<named, full, msg>>

\* open of the FIFO returns when the other process opens the other end.
Open == /\ \A p \in DOMAIN fpc : fpc[p] = "open"
        /\ rd' = {"parent"} /\ wr' = {"child"}
        /\ fpc' = [p \in DOMAIN fpc |-> IF p = "child" THEN "write" ELSE "wait"]
        /\ UNCHANGED <<named, full, msg>>

CloseRead == /\ Goto("child", "close", "write")
             /\ rd' = rd \ {"child"}
             /\ UNCHANGED <<named, wr, full, msg>>

\* The message is smaller than the pipe.
Write == /\ Goto("child", "write", "exec")
         /\ full' = TRUE
         /\ wr' = IF named THEN wr \ {"child"} ELSE wr
         /\ UNCHANGED <<named, rd, msg>>

\* ls runs with the write end of the unnamed pipe still open (the child closes the
\* read end twice), and its end closes it.
Exit == /\ Goto("child", "exec", "zombie")
        /\ wr' = wr \ {"child"} /\ rd' = rd \ {"child"}
        /\ UNCHANGED <<named, full, msg>>

\* wait(&status), and the parent closes its own write end.
Wait == /\ Goto("parent", "wait", "read")
        /\ fpc["child"] = "zombie"
        /\ wr' = wr \ {"parent"}
        /\ UNCHANGED <<named, rd, full, msg>>

\* read returns what is in the pipe, or nothing when no process can write.
Read == /\ full \/ wr = {}
        /\ Goto("parent", "read", "done")
        /\ msg' = full
        /\ full' = FALSE
        /\ rd' = rd \ {"parent"}
        /\ UNCHANGED <<named, wr>>

Next == Fork \/ Open \/ CloseRead \/ Write \/ Exit \/ Wait \/ Read
-----------------------------------------------------------------------------
\* Once there is a child, the parent gets the message: neither waits for the other
\* for ever, although the parent waits for the child before it reads.
MessageArrives == fpc["child"] # "none" ~> msg
=============================================================================
