---------------------------- MODULE MCDescriptors ----------------------------
(***************************************************************************)
(* The parts of the library and the examples that pass descriptors and     *)
(* names on, checked side by side: which says which of them is running.    *)
(***************************************************************************)
EXTENDS Integers

CONSTANTS Kids, FdMax, maxfd, Clients, QLEN, MaxConns, FdTop, CloseLimit,
          MAXLINE, Codes, Lengths, Answers, MaxLines

ASSUME ClientsAssumption == 0 \notin Clients
ASSUME SizesAssumption == /\ FdMax \in Nat /\ FdTop \in Nat
                          /\ MAXLINE \in Nat \ {0} /\ Codes \subseteq Int /\ Lengths \subseteq Nat

VARIABLES which,
          fds, childpid, kid, waiting,
          kpc, file, calls, again, vpc, sname, backlog, clifd, rval,
          tab, fdm, fdslave, leader, dpc,
          named, rd, wr, full, msg, fpc,
          bytes, left, answer, text, xpc, ypc, buf, passed, newfd, answers,
          upc, stream, reset, last, lines

P == INSTANCE PipeStreams
N == INSTANCE Connections
D == INSTANCE StandardFiles
F == INSTANCE ParentChildPipe
X == INSTANCE DescriptorPassing
U == INSTANCE TcpChat

popen == <<fds, childpid, kid, waiting>>
conn == <<kpc, file, calls, again, vpc, sname, backlog, clifd, rval>>
stdfiles == <<tab, fdm, fdslave, leader, dpc>>
pipes == <<named, rd, wr, full, msg, fpc>>
passing == <<bytes, left, answer, text, xpc, ypc, buf, passed, newfd, answers>>
chat == <<upc, stream, reset, last, lines>>
MCvars == <<which, popen, conn, stdfiles, pipes, passing, chat>>

\* A code send_err makes negative, the ends of the range of a status and codes that do
\* not fit into a byte.
MCCodes == {5, -1, -255, -256, -300}

MCInit == /\ which \in {"popen", "conn", "stdfiles", "pipes", "passing", "chat"}
          /\ P!Init /\ N!Init /\ D!Init /\ F!Init /\ X!Init /\ U!Init
          /\ which # "popen" => fds[0] # P!None
          /\ which # "stdfiles" => dpc = "daemonize" /\ \A f \in DOMAIN tab : tab[f] = "none"
          /\ which # "pipes" => named

Popen(A) == which = "popen" /\ A /\ UNCHANGED <<which, conn, stdfiles, pipes, passing, chat>>
Pipes(A) == which = "pipes" /\ A /\ UNCHANGED <<which, popen, conn, stdfiles, passing, chat>>

MCNext == \/ Popen(P!Next)
          \/ which = "conn" /\ N!Next /\ UNCHANGED <<which, popen, stdfiles, pipes, passing, chat>>
          \/ which = "stdfiles" /\ D!Next /\ UNCHANGED <<which, popen, conn, pipes, passing, chat>>
          \/ which = "passing" /\ X!Next /\ UNCHANGED <<which, popen, conn, stdfiles, pipes, chat>>
          \/ which = "chat" /\ U!Next /\ UNCHANGED <<which, popen, conn, stdfiles, pipes, passing>>
          \/ Pipes(F!Next)

\* A child goes on to its command, a command ends when its input is at its end or
\* nobody reads its output, and a process that can go on does.
MCFairSpec == /\ MCInit
              /\ [][MCNext]_MCvars
              /\ \A k \in Kids : /\ WF_MCvars(Popen(P!Child(k)))
                                 /\ WF_MCvars(Popen(P!AtEnd(k) /\ P!Exit(k)))
              /\ WF_MCvars(Popen(P!Waited))
              /\ WF_MCvars(Pipes(F!Next))

\* pclose returns.
PcloseReturns == P!PcloseReturns

\* A command's standard input or output is its pipe.
ChildAttached == P!ChildAttached

\* A connection is refused only for a reason the client gave.
RefusedForCause == N!RefusedForCause

\* Descriptors 0, 1 and 2 are what they should be.
StandardFilesRight == D!StandardFilesRight

\* The parent gets the child's message.
MessageArrives == F!MessageArrives

\* recv_fd returns what the other side answered.
AnswersMatch == X!AnswersMatch

\* Only an empty line makes both sides of the chat wait.
StuckOnlyAfterEmptyLine == U!StuckOnlyAfterEmptyLine
=============================================================================
