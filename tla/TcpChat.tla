-------------------------------- MODULE TcpChat --------------------------------
(***************************************************************************)
(* client-server/tcp-Client.cpp and tcp-Server.cpp: the two sides take     *)
(* turns in sending a line and receiving the other's, over streams that    *)
(* may deliver a line in pieces.  A line is a sequence of letters, that of *)
(* the command exit has the letters e and x.                               *)
(***************************************************************************)
EXTENDS Naturals, Sequences

CONSTANT MaxLines   \* bounds the lines typed on each side

VARIABLES upc,      \* what each side does next
          stream,   \* the letters on their way to each side
          reset,    \* whether a side has sent to a closed connection
          last,     \* the last line that was sent
          lines     \* the lines typed on each side

uvars == <<upc, stream, reset, last, lines>>

Sides == {"client", "server"}
Peer(s) == IF s = "client" THEN "server" ELSE "client"
Exit == <<"e", "x">>
Line == {<<>>, <<"a">>, <<"a", "b">>, Exit}

Init == /\ upc = [s \in Sides |-> "setup"]
        /\ stream = [s \in Sides |-> <<>>]
        /\ reset = [s \in Sides |-> FALSE]
        /\ last = <<"none">>
        /\ lines = [s \in Sides |-> 0]

\* socket, bind, listen; the server ends when one fails.
Listen == /\ upc["server"] = "setup"
          /\ upc' \in {[upc EXCEPT !["server"] = t] : t \in {"accept", "closed"}}
          /\ UNCHANGED <<stream, reset, last, lines>>

\* A faulty variant, used as a mutant: the client begins by waiting too.
ConnectBothWait == /\ upc["client"] = "setup"
                   /\ upc["server"] = "accept"
                   /\ upc' = [client |-> "recv", server |-> "recv"]
                   /\ UNCHANGED <<stream, reset, last, lines>>

\* connect and accept, or the client ends when there is no server.
Connect == /\ upc["client"] = "setup"
           /\ \/ upc["server"] = "accept" /\ upc' = [client |-> "input", server |-> "recv"]
              \/ upc["server"] # "accept" /\ upc' = [upc EXCEPT !["client"] = "closed"]
           /\ UNCHANGED <<stream, reset, last, lines>>

Open(s) == upc[s] \in {"input", "recv"}

\* getline, and send of the line's letters: none of an empty line.  The first send to
\* a closed connection is answered by a reset, the next ends the program.
send(s) == \E line \in Line :
    /\ upc[s] = "input" /\ lines[s] < MaxLines
    /\ lines' = [lines EXCEPT ![s] = @ + 1]
    /\ last' = line
    /\ IF Open(Peer(s))
       THEN stream' = [stream EXCEPT ![Peer(s)] = @ \o line] /\ UNCHANGED reset
       ELSE reset' = [reset EXCEPT ![s] = @ \/ line # <<>>] /\ UNCHANGED stream
    /\ upc' = [upc EXCEPT ![s] = IF line = Exit \/ (reset[s] /\ line # <<>>) THEN "closed" ELSE "recv"]

\* recv returns some of the letters that have arrived; the session ends when they are
\* exactly the command.
recv(s) == /\ upc[s] = "recv" /\ stream[s] # <<>>
           /\ \E n \in 1..Len(stream[s]) :
                 /\ stream' = [stream EXCEPT ![s] = SubSeq(@, n + 1, Len(@))]
                 /\ upc' = [upc EXCEPT ![s] = IF SubSeq(stream[s], 1, n) = Exit THEN "closed" ELSE "input"]
           /\ UNCHANGED <<reset, last, lines>>

\* At the end of the stream, or after a reset, recv returns at once, and the program
\* goes on with an empty line.
recvEnd(s) == /\ upc[s] = "recv" /\ stream[s] = <<>> /\ ~Open(Peer(s))
              /\ upc' = [upc EXCEPT ![s] = "input"]
              /\ UNCHANGED <<stream, reset, last, lines>>

Next == Listen \/ Connect \/ \E s \in Sides : send(s) \/ recv(s) \/ recvEnd(s)

Spec == Init /\ [][Next]_uvars
-----------------------------------------------------------------------------
\* The two sides wait for each other only after an empty line, of which nothing
\* arrives: lines that arrive in pieces do not upset the turns.
StuckOnlyAfterEmptyLine ==
    (\A s \in Sides : upc[s] = "recv" /\ stream[s] = <<>>) => last = <<>>
=============================================================================
