--------------------------- MODULE DescriptorPassing ---------------------------
(***************************************************************************)
(* lib/sendfd.c, lib/senderr.c, lib/recvfd.c and lib/Orecvfd.c: a server   *)
(* answers a client's requests one by one with send_fd() or send_err(),    *)
(* over a stream that keeps no boundaries; the client waits in recv_fd().  *)
(* An answer is two bytes, a null byte and a status, after the text of an  *)
(* error.  A descriptor travels with the null byte.                        *)
(***************************************************************************)
EXTENDS Integers, Sequences

CONSTANTS MAXLINE,    \* the size of recv_fd's buffer
          Codes,      \* the codes given to send_err
          Lengths,    \* the lengths of its messages
          Answers     \* bounds the requests

VARIABLES bytes,      \* the stream: the value of each byte and the descriptor with it
          left,       \* the text send_err has still to write
          answer,     \* the code of the answer, or the descriptor
          text,       \* the length of the answer's text
          xpc, ypc,   \* what the server and the client do next
          buf,        \* what the last recvmsg returned
          passed,     \* the text bytes given to userfunc
          newfd,
          answers

xvars == <<bytes, left, answer, text, xpc, ypc, buf, passed, newfd, answers>>

NoFd == -1
Text == <<65, NoFd>>      \* a byte of a message
Fd == 3                   \* the descriptor the server passes

Init == /\ bytes = <<>> /\ left = 0 /\ answer = 0 /\ text = 0
        /\ xpc = "idle" /\ ypc = "recv"
        /\ buf = <<>> /\ passed = 0 /\ newfd = 0 /\ answers = 0
-----------------------------------------------------------------------------
(* The server *)

\* An answer to the client's request: a descriptor, or an error, whose code is made
\* negative.
Answer == /\ xpc = "idle" /\ answers < Answers
          /\ answers' = answers + 1
          /\ \/ answer' = Fd /\ text' = 0
             \/ \E c \in Codes : answer' = (IF c >= 0 THEN -1 ELSE c) /\ text' \in Lengths
          /\ left' = text'
          /\ xpc' = "send"
          /\ UNCHANGED <<bytes, ypc, buf, passed, newfd>>

\* writen: a write takes some of what is left.  When one fails send_err gives up,
\* and the server closes the connection.
writen == /\ xpc = "send" /\ left > 0
          /\ \/ \E n \in 1..left : /\ bytes' = bytes \o [k \in 1..n |-> Text]
                                   /\ left' = left - n
                                   /\ UNCHANGED xpc
             \/ xpc' = "closed" /\ UNCHANGED <<bytes, left>>
          /\ UNCHANGED <<answer, text, ypc, buf, passed, newfd, answers>>

\* A faulty variant, used as a mutant: -256 becomes a status of 0.
statusTruncated(fd) == IF fd >= 0 THEN 0 ELSE (-fd) % 256

\* The code as a char: "-256, etc. would screw up protocol".
status(fd) == IF fd >= 0 THEN 0
              ELSE IF (-fd) % 256 = 0 THEN 1 ELSE (-fd) % 256

\* sendmsg of the two bytes.
send_fd == /\ xpc = "send" /\ left = 0
           /\ \/ /\ bytes' = bytes \o << <<0, IF answer >= 0 THEN answer ELSE NoFd>>,
                                         <<status(answer), NoFd>> >>
                 /\ xpc' = "sent"
              \/ xpc' = "closed" /\ UNCHANGED bytes
           /\ UNCHANGED <<left, answer, text, ypc, buf, passed, newfd, answers>>
-----------------------------------------------------------------------------
(* The client *)
Take(n) == /\ buf' = SubSeq(bytes, 1, n)
           /\ bytes' = SubSeq(bytes, n + 1, Len(bytes))

\* recvmsg returns what has arrived, up to the size of the buffer.
recvmsg == /\ ypc = "recv" /\ bytes # <<>>
           /\ Take(IF Len(bytes) < MAXLINE THEN Len(bytes) ELSE MAXLINE)
           /\ ypc' = "scan"
           /\ UNCHANGED <<left, answer, text, xpc, passed, newfd, answers>>

\* recvmsg fails, or returns 0 because the connection is closed: recv_fd returns -1.
recvFails == /\ ypc = "recv"
             /\ ypc' = "failed"
             /\ UNCHANGED <<bytes, left, answer, text, xpc, buf, passed, newfd, answers>>

Nulls == {k \in 1..Len(buf) : buf[k][1] = 0}

\* No null byte: all of it is text for userfunc, and recv_fd goes on, or returns -1
\* when userfunc does not take it all.
ScanText == /\ ypc = "scan" /\ Nulls = {}
            /\ passed' = passed + Len(buf)
            /\ ypc' \in {"recv", "failed"}
            /\ UNCHANGED <<bytes, left, answer, text, xpc, buf, newfd, answers>>

\* The first null byte must be the last but one, with a descriptor if the status is
\* 0; otherwise err_dump ends the client.
ScanEnd == LET z == CHOOSE k \in Nulls : \A j \in Nulls : k <= j
               st == buf[z + 1][1]
           IN  /\ ypc = "scan" /\ Nulls # {}
               /\ IF z # Len(buf) - 1 \/ (st = 0 /\ buf[z][2] = NoFd)
                  THEN ypc' = "dumped" /\ UNCHANGED <<passed, newfd>>
                  ELSE /\ newfd' = IF st = 0 THEN buf[z][2] ELSE -st
                       /\ passed' = passed + Len(buf) - 2
                       /\ ypc' \in {"returned"} \cup IF Len(buf) > 2 THEN {"failed"} ELSE {}
               /\ UNCHANGED <<bytes, left, answer, text, xpc, buf, answers>>

\* The client uses the result and sends its next request.
Again == /\ ypc = "returned" /\ xpc = "sent"
         /\ ypc' = "recv" /\ xpc' = "idle"
         /\ passed' = 0 /\ buf' = <<>>
         /\ UNCHANGED <<bytes, left, answer, text, newfd, answers>>

Next == \/ Answer \/ writen \/ send_fd
        \/ recvmsg \/ recvFails \/ ScanText \/ ScanEnd \/ Again

Spec == Init /\ [][Next]_xvars
-----------------------------------------------------------------------------
\* Each recv_fd returns what the server answered, however text and status are split
\* over reads: the descriptor, or a negative number that is the code from -1 to -255,
\* with all of the text; only when the null byte is the last that fits into the
\* buffer does the client end with err_dump.
AnswersMatch ==
    /\ ypc = "returned" => /\ passed = text
                           /\ IF answer >= 0 THEN newfd = answer ELSE newfd < 0
                           /\ answer \in -255..-1 => newfd = answer
    /\ ypc = "dumped" => Len(buf) = MAXLINE /\ buf[MAXLINE][1] = 0

\* recv_fd's test "message format error" never fails with send_err at the other end:
\* "Null is next to last byte of buffer; status byte is last byte".
NoFormatError == ypc # "dumped"
=============================================================================
