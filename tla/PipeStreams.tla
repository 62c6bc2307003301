----------------------------- MODULE PipeStreams -----------------------------
(***************************************************************************)
(* lib/popen.c: a process that opens streams to and from commands with     *)
(* popen() and closes them with pclose(), with the descriptors of the      *)
(* process and of the commands.  The pipe of command k has the ends        *)
(* <<k, "r">> and <<k, "w">>; a command reads to the end of its input, or   *)
(* writes.                                                                 *)
(***************************************************************************)
EXTENDS Naturals

CONSTANTS Kids,    \* the calls of popen that get as far as a pipe
          FdMax,   \* the descriptors are 0..FdMax
          maxfd    \* open_max(), as it was at the first popen

VARIABLES fds,       \* the file of each descriptor of the process
          childpid,  \* the command each descriptor is the stream of, 0 for none
          kid,       \* the commands
          waiting    \* the command pclose waits for, 0 for none

pvars == <<fds, childpid, kid, waiting>>

Fds == 0..FdMax
None == <<0, "none">>
Tty == <<0, "tty">>
NoKid == [st |-> "none", type |-> "r", pfd |-> <<0, 0>>, tab |-> {}, fds |-> [f \in Fds |-> None]]

\* Standard input may be closed.
Init == /\ \E closed \in SUBSET {0} :
               fds = [f \in Fds |-> IF f <= 2 /\ f \notin closed THEN Tty ELSE None]
        /\ childpid = [f \in Fds |-> 0]
        /\ kid = [k \in Kids |-> NoKid]
        /\ waiting = 0

Free(f) == {x \in Fds : f[x] = None}
Least(S) == CHOOSE x \in S : \A y \in S : x <= y
close(f, x) == [f EXCEPT ![x] = None]

\* The two descriptors pipe() takes, read end first.
pfd == LET a == Least(Free(fds)) IN <<a, Least(Free(fds) \ {a})>>
piped(k) == [fds EXCEPT ![pfd[1]] = <<k, "r">>, ![pfd[2]] = <<k, "w">>]

\* The process can call popen: a type that is not "r" or "w", a failure of calloc
\* or pipe, and descriptors beyond the table leave everything as it was.
MayOpen(k) == /\ waiting = 0
              /\ kid[k].st = "none" /\ \A j \in Kids : j < k => kid[j].st # "none"
              /\ \E a, b \in Free(fds) : a # b
              /\ pfd[1] < maxfd /\ pfd[2] < maxfd

\* fork fails, and the pipe stays open.
PopenNoFork(k) == /\ MayOpen(k)
                  /\ fds' = piped(k)
                  /\ kid' = [kid EXCEPT ![k].st = "reaped"]
                  /\ UNCHANGED <<childpid, waiting>>

\* fork, after which the process closes the end it does not use and remembers the
\* command, unless fdopen fails.
popen(k, type) ==
    LET mine == IF type = "r" THEN pfd[1] ELSE pfd[2]
        other == IF type = "r" THEN pfd[2] ELSE pfd[1]
    IN  /\ MayOpen(k)
        /\ kid' = [kid EXCEPT ![k] = [st |-> "forked", type |-> type, pfd |-> pfd,
                                      tab |-> {f \in Fds : childpid[f] > 0}, fds |-> piped(k)]]
        /\ fds' = close(piped(k), other)
        /\ \/ childpid' = [childpid EXCEPT ![mine] = k]
           \/ UNCHANGED childpid
        /\ UNCHANGED waiting

Std(k) == IF kid[k].type = "r" THEN 1 ELSE 0

\* A faulty variant, used as a mutant: it is not tested whether pipe() returned the
\* standard descriptor itself.
AttachedUntested(k) ==
    LET own == IF kid[k].type = "r" THEN kid[k].pfd[2] ELSE kid[k].pfd[1]
        other == IF kid[k].type = "r" THEN kid[k].pfd[1] ELSE kid[k].pfd[2]
        f == close(kid[k].fds, other)
    IN  close([f EXCEPT ![Std(k)] = f[own]], own)

\* The pipe becomes the standard output or input of the command.
Attached(k) ==
    LET own == IF kid[k].type = "r" THEN kid[k].pfd[2] ELSE kid[k].pfd[1]
        other == IF kid[k].type = "r" THEN kid[k].pfd[1] ELSE kid[k].pfd[2]
        f == close(kid[k].fds, other)
    IN  IF own # Std(k) THEN close([f EXCEPT ![Std(k)] = f[own]], own) ELSE f

\* A faulty variant, used as a mutant: the streams of the process stay open in the
\* command.
ChildKeepsStreams(k) == /\ kid[k].st = "forked"
                        /\ kid' = [kid EXCEPT ![k].st = "running", ![k].fds = Attached(k)]
                        /\ UNCHANGED <<fds, childpid, waiting>>

\* What the child does before it executes the command: it attaches the pipe and
\* closes all descriptors in its copy of childpid[].
Child(k) == /\ kid[k].st = "forked"
            /\ kid' = [kid EXCEPT ![k].st = "running",
                                  ![k].fds = [f \in Fds |-> IF f \in kid[k].tab THEN None
                                                            ELSE Attached(k)[f]]]
            /\ UNCHANGED <<fds, childpid, waiting>>

Exit(k) == /\ kid[k].st = "running"
           /\ kid' = [kid EXCEPT ![k] = [NoKid EXCEPT !.st = "zombie"]]
           /\ UNCHANGED <<fds, childpid, waiting>>

\* childpid[fd] = 0 and fclose, which closes the descriptor even if it fails.
\* Without a stream of popen at fd, pclose returns -1 and nothing changes.
pclose(fd) == /\ waiting = 0
              /\ childpid[fd] > 0
              /\ childpid' = [childpid EXCEPT ![fd] = 0]
              /\ fds' = close(fds, fd)
              /\ waiting' \in {childpid[fd], 0}
              /\ UNCHANGED kid

\* waitpid(pid), again when it is interrupted.
Waited == /\ waiting # 0
          /\ kid[waiting].st = "zombie"
          /\ kid' = [kid EXCEPT ![waiting].st = "reaped"]
          /\ waiting' = 0
          /\ UNCHANGED <<fds, childpid>>

Next == \/ \E k \in Kids : PopenNoFork(k) \/ popen(k, "r") \/ popen(k, "w") \/ Child(k) \/ Exit(k)
        \/ \E fd \in Fds : pclose(fd)
        \/ Waited

Spec == Init /\ [][Next]_pvars
-----------------------------------------------------------------------------
\* A command ends when its input is at its end, or when it writes to a pipe that
\* nobody can read: nobody else has the other end.
AtEnd(k) == LET far == <<k, IF kid[k].type = "r" THEN "r" ELSE "w">>
            IN  /\ \A f \in Fds : fds[f] # far
                /\ \A j \in Kids, f \in Fds : kid[j].fds[f] # far

\* pclose returns: no command started later keeps the other end of an earlier
\* stream's pipe open.
PcloseReturns == waiting # 0 ~> waiting = 0

\* The pipe is the standard input or output of the command, also when the process
\* had standard input closed, unless the descriptor was that of an earlier stream,
\* which the child closes last.
ChildAttached ==
    \A k \in Kids : kid[k].st = "running" =>
        \/ kid[k].fds[Std(k)] = <<k, IF kid[k].type = "r" THEN "w" ELSE "r">>
        \/ Std(k) \in kid[k].tab
=============================================================================
