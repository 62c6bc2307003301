-------------------------- MODULE DescriptorsProofs --------------------------
(***************************************************************************)
(* The safety properties of the parts of the library and the examples that *)
(* pass descriptors and names on, for every size of their tables, buffers  *)
(* and queues and any number of clients, commands, answers and lines.      *)
(***************************************************************************)
EXTENDS MCDescriptors, SequenceTheorems, CountingProofs
-----------------------------------------------------------------------------
(* TcpChat *)

Letters == {"a", "b", "e", "x"}

ChatInv == /\ upc \in [U!Sides -> {"setup", "accept", "input", "recv", "closed"}]
           /\ stream \in [U!Sides -> Seq(Letters)]
           /\ StuckOnlyAfterEmptyLine

\* The two sides wait for each other only after an empty line, however long they talk
\* and however the lines are cut.
THEOREM ChatTurns == U!Spec => []StuckOnlyAfterEmptyLine
<1> USE DEF U!Sides, StuckOnlyAfterEmptyLine, U!StuckOnlyAfterEmptyLine
<1>1. U!Init => ChatInv
  BY DEF U!Init, ChatInv
<1>2. ChatInv /\ [U!Next]_U!uvars => ChatInv'
  <2> SUFFICES ASSUME ChatInv, [U!Next]_U!uvars PROVE ChatInv'
    OBVIOUS
  <2> USE DEF ChatInv
  <2>1. CASE UNCHANGED U!uvars
    BY <2>1 DEF U!uvars
  <2>2. CASE U!Listen
    BY <2>2 DEF U!Listen
  <2>3. CASE U!Connect
    BY <2>3 DEF U!Connect
  <2>4. ASSUME NEW s \in U!Sides, U!send(s)
        PROVE  ChatInv'
    <3>1. PICK line \in U!Line :
              /\ last' = line /\ upc' = [upc EXCEPT ![s] = upc'[s]] /\ upc'[s] \in {"closed", "recv"}
              /\ U!Open(U!Peer(s)) => stream' = [stream EXCEPT ![U!Peer(s)] = @ \o line]
              /\ ~U!Open(U!Peer(s)) => stream' = stream
      BY <2>4 DEF U!send
    <3>2. line \in Seq(Letters)
      <4>1. "a" \in Letters /\ "b" \in Letters /\ "e" \in Letters /\ "x" \in Letters
        BY DEF Letters
      <4>2. /\ <<>> \in Seq(Letters) /\ <<"a">> \in Seq(Letters)
            /\ <<"a", "b">> \in Seq(Letters) /\ <<"e", "x">> \in Seq(Letters)
        BY <4>1
      <4> QED  BY <4>2 DEF U!Line, U!Exit
    <3>3. U!Peer(s) \in U!Sides /\ U!Peer(s) # s
      BY DEF U!Peer
    <3>4. CASE U!Open(U!Peer(s))
      <4>1. \A q \in Seq(Letters) : q \o line \in Seq(Letters) /\ (q \o line = <<>> => line = <<>>)
        BY <3>2, ConcatProperties, ConcatEmptySeq
      <4>2. stream' \in [U!Sides -> Seq(Letters)] /\ (stream'[U!Peer(s)] = <<>> => line = <<>>)
        <5> HIDE DEF U!Sides
        <5>1. stream \in [U!Sides -> Seq(Letters)]
          OBVIOUS
        <5>2. stream' = [stream EXCEPT ![U!Peer(s)] = stream[U!Peer(s)] \o line]
          BY <3>1, <3>4
        <5> HIDE DEF ChatInv
        <5>3. stream'[U!Peer(s)] = stream[U!Peer(s)] \o line /\ stream[U!Peer(s)] \in Seq(Letters)
          BY <3>3, <5>1, <5>2
        <5> QED  BY <3>3, <4>1, <5>1, <5>2, <5>3
      <4>3. upc' \in [U!Sides -> {"setup", "accept", "input", "recv", "closed"}]
        BY <3>1
      <4> QED  BY <3>1, <3>3, <4>2, <4>3
    <3>5. CASE ~U!Open(U!Peer(s))
      <4>1. upc'[U!Peer(s)] # "recv"
        BY <3>1, <3>3, <3>5 DEF U!Open
      <4> QED  BY <3>1, <3>3, <3>5, <4>1
    <3> QED  BY <3>4, <3>5
  <2>5. ASSUME NEW s \in U!Sides, U!recv(s)
        PROVE  ChatInv'
    BY <2>5 DEF U!recv
  <2>6. ASSUME NEW s \in U!Sides, U!recvEnd(s)
        PROVE  ChatInv'
    BY <2>6 DEF U!recvEnd
  <2> QED  BY <2>1, <2>2, <2>3, <2>4, <2>5, <2>6 DEF U!Next
<1>3. ChatInv => StuckOnlyAfterEmptyLine
  BY DEF ChatInv
<1> QED  BY <1>1, <1>2, <1>3, PTL DEF U!Spec
-----------------------------------------------------------------------------
(* StandardFiles *)

\* What pty_fork has open besides what was open before; daemonize gives up being a
\* session leader before it closes everything.
FilesInv ==
    /\ dpc \in {"ptym_open", "pty_fork", "pty_parent", "pty_child", "pty_dup", "pty_done",
                "daemonize", "forked", "reopen", "daemon", "ended"}
    /\ DOMAIN tab = D!Fd
    /\ dpc \in {"ptym_open", "daemonize"} => \A f \in D!Fd : tab[f] \in {"none", "old"}
    /\ dpc \in {"pty_fork", "pty_child"} =>
           fdm \in D!Fd /\ tab[fdm] = "master" /\ \A f \in D!Fd \ {fdm} : tab[f] \in {"none", "old"}
    /\ dpc = "pty_dup" =>
           fdslave \in D!Fd /\ \A f \in D!Fd \ {fdslave} : tab[f] \in {"none", "old"}
    /\ dpc = "reopen" => ~leader /\ \A f \in D!Fd : f < CloseLimit => tab[f] = "none"
    /\ StandardFilesRight

\* The descriptor open() returns is a free one.
LEMMA FreeFd == ASSUME NEW t, D!IsFree(t)
                PROVE  D!LeastFree(t) \in D!Fd /\ t[D!LeastFree(t)] = "none"
<1> DEFINE S == {f \in D!Fd : t[f] = "none"}
<1>1. S \subseteq Nat /\ S # {}
  BY SizesAssumption DEF D!IsFree, D!Fd
<1>2. PICK a \in S : \A b \in S : a <= b
  BY <1>1, LeastOf
<1> QED  BY <1>2 DEF D!LeastFree

\* Descriptors 0, 1 and 2 are the slave's after pty_fork and the null device's after
\* daemonize, whatever was open before and however many descriptors there are.
THEOREM StandardFilesAttached == D!Spec => []StandardFilesRight
<1> USE DEF StandardFilesRight, D!StandardFilesRight
<1>1. D!Init => FilesInv
  BY DEF D!Init, FilesInv
<1>2. FilesInv /\ [D!Next]_D!dvars => FilesInv'
  <2> SUFFICES ASSUME FilesInv, [D!Next]_D!dvars PROVE FilesInv'
    OBVIOUS
  <2> USE DEF FilesInv
  <2>1. CASE UNCHANGED D!dvars
    BY <2>1 DEF D!dvars
  <2>2. CASE D!ptym_open
    BY <2>2, FreeFd DEF D!ptym_open, D!Opened
  <2>3. CASE D!Fork
    BY <2>3 DEF D!Fork
  <2>4. CASE D!ptys_open
    BY <2>4, FreeFd DEF D!ptys_open, D!Opened
  <2>5. CASE D!pty_dup
    BY <2>5 DEF D!pty_dup
  <2>6. CASE D!Detach
    BY <2>6 DEF D!Detach
  <2>7. CASE D!CloseAll
    BY <2>7 DEF D!CloseAll
  <2>8. CASE D!Reopen
    <3> DEFINE t1 == D!Opened(tab, "null")
               t2 == D!Opened(t1, t1[0])
    <3>1. 0 \in D!Fd /\ \A f \in D!Fd : f \in Nat
      BY SizesAssumption DEF D!Fd
    <3>2. /\ tab' = D!Opened(t2, t2[0]) /\ leader' = leader
          /\ \/ dpc' = "ended"
             \/ /\ dpc' = "daemon"
                /\ D!LeastFree(tab) = 0 /\ D!LeastFree(t1) = 1 /\ D!LeastFree(t2) = 2
      BY <2>8 DEF D!Reopen
    <3>3. DOMAIN t1 = D!Fd /\ DOMAIN t2 = D!Fd /\ DOMAIN tab' = D!Fd
      BY <3>2 DEF D!Opened
    <3>4. CASE dpc' = "ended"
      BY <3>3, <3>4
    <3>5. CASE dpc' = "daemon"
      <4>1. t1[0] = "null" /\ \A f \in D!Fd : f # 0 => t1[f] = tab[f]
        BY <3>1, <3>2, <3>5 DEF D!Opened
      <4>2. t2[0] = "null" /\ \A f \in D!Fd : t2[f] = IF f = 1 THEN "null" ELSE t1[f]
        BY <3>1, <3>2, <3>3, <3>5, <4>1 DEF D!Opened
      <4>3. \A f \in D!Fd : tab'[f] = IF f = 2 THEN "null" ELSE t2[f]
        BY <3>1, <3>2, <3>3, <3>5, <4>2 DEF D!Opened
      <4>4. ~leader' /\ \A f \in D!Fd : f < CloseLimit => tab[f] = "none"
        BY <2>8, <3>2 DEF D!Reopen
      <4>5. \A f \in D!Fd : f <= 2 => f = 0 \/ f = 1 \/ f = 2
        BY <3>1
      <4>6. \A f \in D!Fd : f <= 2 => tab'[f] = "null"
        BY <4>1, <4>2, <4>3, <4>5
      <4>7. \A f \in D!Fd : 2 < f /\ f < CloseLimit => tab'[f] = "none"
        BY <3>1, <4>1, <4>2, <4>3, <4>4
      <4> QED  BY <3>3, <3>5, <4>4, <4>6, <4>7
    <3> QED  BY <3>2, <3>4, <3>5
  <2>9. CASE D!Fails
    BY <2>9 DEF D!Fails
  <2> QED  BY <2>1, <2>2, <2>3, <2>4, <2>5, <2>6, <2>7, <2>8, <2>9 DEF D!Next
<1>3. FilesInv => StandardFilesRight
  BY DEF FilesInv
<1> QED  BY <1>1, <1>2, <1>3, PTL DEF D!Spec
-----------------------------------------------------------------------------
(* Connections *)

Queued(c) == \E k \in 1..Len(backlog) : backlog[k] = c

\* A client that did not call cli_conn too early has at most one connection that waits
\* or is being accepted, none while it makes one, and its name as it has made it so far.
Orderly(c) ==
    /\ kpc[c] # "idle" => ~N!Pending(c)
    /\ kpc[c] = "chmod" => file[c] \in {"bound", "stale"}
    /\ kpc[c] = "connect" \/ N!Pending(c) => file[c] \in {"rwx", "stale"}
    /\ clifd = c => ~Queued(c)
    /\ \A j, k \in 1..Len(backlog) : backlog[j] = c /\ backlog[k] = c => j = k

ConnType ==
    /\ kpc \in [Clients -> {"idle", "bind", "chmod", "connect"}]
    /\ file \in [Clients -> {"none", "bound", "rwx", "stale"}]
    /\ again \in [Clients -> BOOLEAN]
    /\ backlog \in Seq(Clients)
    /\ vpc \in {"down", "bind", "listen", "idle", "stat", "unlink", "refused"}
    /\ IF vpc \in {"stat", "unlink", "refused"} THEN clifd \in Clients ELSE clifd = 0

ConnInv == ConnType /\ (\A c \in Clients : ~again[c] => Orderly(c)) /\ RefusedForCause

\* A step that leaves the queue and the connection being accepted alone, and touches one
\* client's name and place, keeps every other client orderly.
LEMMA OthersOrderly ==
    ASSUME ConnType, NEW d \in Clients, NEW c \in Clients, c # d, Orderly(c),
           backlog' = backlog, clifd' = clifd,
           kpc'[c] = kpc[c], file'[c] = file[c]
    PROVE  Orderly(c)'
<1>1. N!Pending(c)' = N!Pending(c) /\ Queued(c)' = Queued(c)
  BY DEF N!Pending, Queued
<1> QED  BY <1>1 DEF Orderly

\* serv_accept refuses a connection only for a stale name or a call of cli_conn made too
\* early, for any clients, any queue and any number of calls and crashes.
THEOREM RefusalsCaused == N!Spec => []RefusedForCause
<1> USE DEF RefusedForCause, N!RefusedForCause
<1>1. N!Init => ConnInv
  BY ClientsAssumption DEF N!Init, ConnInv, ConnType, Orderly, N!Pending, Queued
<1>2. ConnInv /\ [N!Next]_N!nvars => ConnInv'
  <2> SUFFICES ASSUME ConnInv, [N!Next]_N!nvars PROVE ConnInv'
    OBVIOUS
  <2> USE DEF ConnInv
  <2>1. CASE UNCHANGED N!nvars
    BY <2>1 DEF N!nvars, ConnType, Orderly, N!Pending, Queued
  <2>2. ASSUME NEW d \in Clients, N!CallConn(d)
        PROVE  ConnInv'
    <3>1. /\ backlog' = backlog /\ clifd' = clifd /\ vpc' = vpc /\ rval' = rval
          /\ kpc' = [kpc EXCEPT ![d] = "bind"] /\ file' = [file EXCEPT ![d] = "none"]
          /\ again' = [again EXCEPT ![d] = N!Pending(d)]
      BY <2>2 DEF N!CallConn, N!Goto, N!Name
    <3>2. again' \in [Clients -> BOOLEAN] /\ (again'[d] <=> N!Pending(d))
          /\ \A c \in Clients \ {d} : again'[c] = again[c]
      <4>1. N!Pending(d) \in BOOLEAN
        BY DEF N!Pending
      <4>2. again \in [Clients -> BOOLEAN]
        BY DEF ConnType
      <4> HIDE DEF ConnInv
      <4> QED  BY <3>1, <4>1, <4>2, Zenon
    <3>3. ConnType'
      BY <3>1, <3>2 DEF ConnType
    <3>4. N!Pending(d)' <=> N!Pending(d)
      BY <3>1 DEF N!Pending
    <3>5. ASSUME NEW c \in Clients, ~again'[c] PROVE Orderly(c)'
      <4>1. CASE c = d
        <5>1. ~N!Pending(d)'
          BY <3>2, <3>4, <3>5, <4>1
        <5> QED  BY <3>1, <4>1, <5>1 DEF Orderly, ConnType, N!Pending, Queued
      <4>2. CASE c # d
        BY <3>1, <3>2, <3>5, <4>2, OthersOrderly DEF ConnType
      <4> QED  BY <4>1, <4>2
    <3>6. RefusedForCause'
      <4>1. clifd = d => N!Pending(d)
        BY DEF N!Pending
      <4> QED  BY <3>1, <3>2, <4>1 DEF ConnType
    <3> QED  BY <3>3, <3>5, <3>6
  <2>3. ASSUME NEW d \in Clients, N!Bind(d) \/ N!Chmod(d) \/ N!Age(d)
        PROVE  ConnInv'
    <3>1. /\ backlog' = backlog /\ clifd' = clifd /\ vpc' = vpc /\ rval' = rval /\ again' = again
          /\ \A c \in Clients \ {d} : kpc'[c] = kpc[c] /\ file'[c] = file[c]
      BY <2>3 DEF N!Bind, N!Chmod, N!Age, N!Goto, N!Name, ConnType
    <3>2. ConnType'
      BY <2>3, <3>1 DEF N!Bind, N!Chmod, N!Age, N!Goto, N!Name, ConnType
    <3>3. ASSUME ~again[d] PROVE Orderly(d)'
      <4>1. N!Pending(d)' = N!Pending(d) /\ Queued(d)' = Queued(d)
        BY <3>1 DEF N!Pending, Queued
      <4> QED  BY <2>3, <3>1, <3>3, <4>1 DEF N!Bind, N!Chmod, N!Age, N!Goto, N!Name, ConnType, Orderly
    <3> QED  BY <3>1, <3>2, <3>3, OthersOrderly
  <2>4. ASSUME NEW d \in Clients, N!Connect(d)
        PROVE  ConnInv'
    <3>1. /\ clifd' = clifd /\ vpc' = vpc /\ rval' = rval /\ again' = again
          /\ kpc[d] = "connect" /\ kpc' = [kpc EXCEPT ![d] = "idle"]
      BY <2>4 DEF N!Connect, N!Goto
    <3>2. CASE backlog' = backlog /\ file' = [file EXCEPT ![d] = "none"]
      <4>1. ConnType'
        BY <3>1, <3>2 DEF ConnType
      <4>2. ASSUME ~again[d] PROVE Orderly(d)'
        <5>1. (N!Pending(d)' <=> N!Pending(d)) /\ (Queued(d)' <=> Queued(d)) /\ ~N!Pending(d)
          BY <3>1, <3>2, <4>2 DEF N!Pending, Queued, Orderly
        <5> QED  BY <3>1, <3>2, <4>2, <5>1 DEF ConnType, Orderly
      <4> QED  BY <3>1, <3>2, <4>1, <4>2, OthersOrderly DEF ConnType
    <3>3. CASE backlog' = Append(backlog, d) /\ file' = file
      <4>1. ConnType'
        BY <3>1, <3>3 DEF ConnType
      <4>2. /\ Len(backlog') = Len(backlog) + 1 /\ Len(backlog) \in Nat
            /\ backlog'[Len(backlog) + 1] = d
            /\ \A k \in 1..Len(backlog) : backlog'[k] = backlog[k]
        BY <3>3 DEF ConnType
      <4>3. ASSUME NEW c \in Clients, c # d
            PROVE  \A k \in 1..Len(backlog') : backlog'[k] = c => k \in 1..Len(backlog) /\ backlog[k] = c
        BY <4>2, <4>3
      <4>4. ASSUME NEW c \in Clients, c # d, ~again[c]
            PROVE  Orderly(c)'
        <5>1. (N!Pending(c)' <=> N!Pending(c)) /\ (Queued(c)' <=> Queued(c))
          BY <3>1, <4>2, <4>3, <4>4 DEF N!Pending, Queued
        <5> QED  BY <3>1, <3>3, <4>2, <4>3, <4>4, <5>1 DEF ConnType, Orderly
      <4>5. ASSUME ~again[d] PROVE Orderly(d)'
        <5>1. ~N!Pending(d) /\ file[d] \in {"rwx", "stale"}
          BY <3>1, <4>5 DEF Orderly
        <5>2. clifd # d /\ \A k \in 1..Len(backlog) : backlog[k] # d
          BY <5>1 DEF N!Pending
        <5>3. \A k \in 1..Len(backlog') : backlog'[k] = d => k = Len(backlog')
          BY <4>2, <5>2
        <5> QED  BY <3>1, <3>3, <5>1, <5>2, <5>3 DEF ConnType, Orderly
      <4> QED  BY <3>1, <4>1, <4>4, <4>5
    <3> QED  BY <2>4, <3>2, <3>3 DEF N!Connect, N!Name
  <2>5. CASE N!Unlink \/ N!serv_listen
    BY <2>5 DEF N!Unlink, N!serv_listen, ConnType, Orderly, N!Pending, Queued
  <2>6. CASE N!Crash
    <3>1. kpc' = kpc /\ file' = file /\ again' = again /\ vpc' = "down" /\ backlog' = <<>> /\ clifd' = 0
      BY <2>6 DEF N!Crash
    <3>2. \A c \in Clients : ~N!Pending(c)' /\ ~Queued(c)' /\ clifd' # c
      BY <3>1, ClientsAssumption DEF N!Pending, Queued
    <3> QED  BY <3>1, <3>2 DEF ConnType, Orderly
  <2>7. CASE N!Accept
    <3>1. /\ kpc' = kpc /\ file' = file /\ again' = again /\ vpc' = "stat" /\ vpc = "idle"
          /\ backlog # <<>> /\ clifd' = Head(backlog) /\ backlog' = Tail(backlog) /\ clifd = 0
      BY <2>7 DEF N!Accept, ConnType
    <3>2. /\ Len(backlog) \in Nat \ {0} /\ Len(backlog') = Len(backlog) - 1
          /\ clifd' = backlog[1] /\ clifd' \in Clients
          /\ \A k \in 1..Len(backlog') : backlog'[k] = backlog[k + 1]
          /\ backlog' \in Seq(Clients)
      BY <3>1 DEF ConnType
    <3>3. ConnType'
      BY <3>1, <3>2 DEF ConnType
    <3>4. ASSUME NEW c \in Clients, ~again[c] PROVE Orderly(c)'
      <4>1. \A k \in 1..Len(backlog') : k + 1 \in 1..Len(backlog)
        BY <3>2
      <4>2. N!Pending(c)' => N!Pending(c)
        BY <3>2, <4>1 DEF N!Pending
      <4>3. clifd' = c => ~Queued(c)'
        <5> SUFFICES ASSUME backlog[1] = c, NEW k \in 1..Len(backlog'), backlog'[k] = c
                     PROVE  FALSE
          BY <3>2 DEF Queued
        <5>1. backlog[k + 1] = c /\ k + 1 \in 1..Len(backlog) /\ 1 \in 1..Len(backlog)
          BY <3>2, <4>1
        <5>2. 1 = k + 1
          BY <3>4, <5>1 DEF Orderly
        <5> QED  BY <5>2
      <4>4. \A j, k \in 1..Len(backlog') : backlog'[j] = c /\ backlog'[k] = c => j = k
        BY <3>2, <3>4, <4>1 DEF Orderly
      <4> QED  BY <3>1, <3>4, <4>2, <4>3, <4>4 DEF Orderly
    <3> QED  BY <3>1, <3>3, <3>4
  <2>8. CASE N!Stat
    <3>1. /\ kpc' = kpc /\ file' = file /\ again' = again /\ clifd' = clifd /\ backlog' = backlog
          /\ clifd \in Clients /\ vpc' \in {"unlink", "refused"}
      BY <2>8 DEF N!Stat, ConnType
    <3>2. ConnType' /\ \A c \in Clients : ~again'[c] => Orderly(c)'
      BY <3>1 DEF ConnType, Orderly, N!Pending, Queued
    <3>3. ~again[clifd] => file[clifd] \in {"rwx", "stale"}
      BY <3>1 DEF Orderly, N!Pending
    <3>4. file[clifd] = "rwx" => rval' = 0
      BY <2>8 DEF N!Stat
    <3>5. file[clifd] = "stale" => rval' = 6
      BY <2>8 DEF N!Stat
    <3>6. vpc' = IF rval' = 0 THEN "unlink" ELSE "refused"
      BY <2>8 DEF N!Stat
    <3> QED  BY <3>1, <3>2, <3>3, <3>4, <3>5, <3>6
  <2>9. CASE N!Accepted
    <3>1. /\ kpc' = kpc /\ file' = [file EXCEPT ![clifd] = "none"] /\ again' = again /\ clifd' = 0
          /\ backlog' = backlog /\ vpc' = "idle" /\ clifd \in Clients
      BY <2>9 DEF N!Accepted, N!Name, ConnType
    <3>2. ConnType'
      BY <3>1 DEF ConnType
    <3>3. ASSUME NEW c \in Clients, ~again[c] PROVE Orderly(c)'
      <4>1. clifd' # c /\ (Queued(c)' <=> Queued(c)) /\ (N!Pending(c)' <=> Queued(c))
        BY <3>1, ClientsAssumption DEF Queued, N!Pending
      <4>2. CASE c = clifd
        <5>1. ~Queued(c) /\ kpc[c] = "idle"
          BY <3>3, <4>2 DEF Orderly, N!Pending
        <5>2. \A j, k \in 1..Len(backlog) : backlog[j] = c /\ backlog[k] = c => j = k
          BY <5>1 DEF Queued
        <5> QED  BY <3>1, <4>1, <5>1, <5>2 DEF Orderly
      <4>3. CASE c # clifd
        <5>1. (N!Pending(c) <=> Queued(c)) /\ file'[c] = file[c]
          BY <3>1, <4>3 DEF N!Pending, Queued, ConnType
        <5> QED  BY <3>1, <3>3, <4>1, <5>1 DEF Orderly
      <4> QED  BY <4>2, <4>3
    <3> QED  BY <3>1, <3>2, <3>3
  <2>10. CASE N!Refuse
    <3>1. /\ kpc' = kpc /\ file' = file /\ again' = again /\ clifd' = 0
          /\ backlog' = backlog /\ vpc' = "idle"
      BY <2>10 DEF N!Refuse
    <3>2. \A c \in Clients : clifd' # c
      BY <3>1, ClientsAssumption
    <3> QED  BY <3>1, <3>2 DEF ConnType, Orderly, N!Pending, Queued
  <2> QED
    BY <2>1, <2>2, <2>3, <2>4, <2>5, <2>6, <2>7, <2>8, <2>9, <2>10 DEF N!Next, N!serv_accept
<1>3. ConnInv => RefusedForCause
  BY DEF ConnInv
<1> QED  BY <1>1, <1>2, <1>3, PTL DEF N!Spec
-----------------------------------------------------------------------------
(* DescriptorPassing *)

Byte == Int \X Int

Plain(s) == \A k \in 1..Len(s) : s[k] = X!Text

Null == <<0, IF answer >= 0 THEN answer ELSE X!NoFd>>
Status == <<X!status(answer), X!NoFd>>

\* Text, and then the two bytes of send_fd.
Ended(s) == /\ Len(s) >= 2
            /\ s[Len(s) - 1] = Null /\ s[Len(s)] = Status
            /\ \A k \in 1..(Len(s) - 2) : s[k] = X!Text

\* recvmsg cut the answer between its two bytes.
Cut == /\ Len(buf) = MAXLINE /\ buf[MAXLINE] = Null
       /\ \A k \in 1..(MAXLINE - 1) : buf[k] = X!Text
       /\ Len(bytes) = 1 /\ bytes[1] = Status

PassingType ==
    /\ bytes \in Seq(Byte) /\ buf \in Seq(Byte)
    /\ left \in Nat /\ text \in Nat /\ passed \in Nat /\ answer \in Int
    /\ ypc \in {"recv", "scan", "returned", "failed", "dumped"}
    /\ xpc \in {"idle", "send", "sent", "closed"}
    /\ xpc # "idle" => answer < 0 \/ answer = X!Fd

\* Before recvmsg the client has none of the answer's last two bytes.
Receiving == /\ xpc = "idle" => passed = 0 /\ bytes = <<>>
             /\ xpc \in {"send", "closed"} => Plain(bytes) /\ passed + Len(bytes) + left = text
             /\ xpc = "sent" => Ended(bytes) /\ passed + Len(bytes) = text + 2

Scanning == /\ xpc # "idle"
            /\ xpc \in {"send", "closed"} =>
                   Plain(buf) /\ Plain(bytes) /\ passed + Len(buf) + Len(bytes) + left = text
            /\ xpc = "sent" => /\ (Plain(buf) /\ Ended(bytes)) \/ (Ended(buf) /\ bytes = <<>>) \/ Cut
                               /\ passed + Len(buf) + Len(bytes) = text + 2

\* The text that is not yet written, on its way, just read and given to userfunc is
\* that of the answer.
PassingInv == /\ PassingType
              /\ ypc = "recv" => Receiving
              /\ ypc = "scan" => Scanning
              /\ ypc = "returned" => xpc = "sent" /\ bytes = <<>>
              /\ AnswersMatch

\* The status byte of an error is not 0, and is the code up to 255.
LEMMA StatusByte == ASSUME NEW c \in Int
                    PROVE  /\ X!status(c) \in Int
                           /\ c >= 0 => X!status(c) = 0
                           /\ c < 0 => X!status(c) > 0
                           /\ c \in -255..-1 => X!status(c) = -c
<1>1. CASE c >= 0
  BY <1>1 DEF X!status
<1>2. CASE c < 0
  <2>1. (-c) \in Nat /\ (-c) % 256 \in 0..255
    BY <1>2
  <2>2. c \in -255..-1 => (-c) % 256 = -c
    BY <1>2
  <2> QED  BY <1>2, <2>1, <2>2 DEF X!status
<1> QED  BY <1>1, <1>2

\* Where the null bytes of a buffer are.
LEMMA NullBytes == ASSUME PassingType, MAXLINE \in Nat \ {0}
                   PROVE  /\ Plain(buf) => X!Nulls = {}
                          /\ Ended(buf) => /\ Len(buf) - 1 \in X!Nulls
                                           /\ \A k \in X!Nulls : k >= Len(buf) - 1
                          /\ Cut => X!Nulls = {MAXLINE}
<1>1. Len(buf) \in Nat /\ X!Text[1] = 65 /\ Null[1] = 0
  BY DEF PassingType, X!Text, Null
<1>2. Plain(buf) => X!Nulls = {}
  BY <1>1 DEF Plain, X!Nulls
<1>3. ASSUME Ended(buf)
      PROVE  Len(buf) - 1 \in X!Nulls /\ \A k \in X!Nulls : k >= Len(buf) - 1
  <2>1. Len(buf) - 1 \in 1..Len(buf) /\ buf[Len(buf) - 1] = Null
    BY <1>1, <1>3 DEF Ended
  <2>2. ASSUME NEW k \in X!Nulls PROVE k >= Len(buf) - 1
    <3>1. k \in 1..Len(buf) /\ buf[k][1] = 0
      BY DEF X!Nulls
    <3>2. k \notin 1..(Len(buf) - 2)
      BY <1>1, <1>3, <3>1 DEF Ended
    <3> QED  BY <1>1, <3>1, <3>2
  <2> QED  BY <1>1, <2>1, <2>2 DEF X!Nulls
<1>4. ASSUME Cut PROVE X!Nulls = {MAXLINE}
  <2>1. \A k \in 1..Len(buf) : buf[k][1] = 0 <=> k = MAXLINE
    BY <1>1, <1>4 DEF Cut
  <2> QED  BY <1>4, <2>1 DEF X!Nulls, Cut
<1> QED  BY <1>2, <1>3, <1>4

\* The bytes that recvmsg takes and leaves.
LEMMA TakeBytes ==
    ASSUME NEW s \in Seq(Byte), NEW n \in 1..Len(s)
    PROVE  /\ SubSeq(s, 1, n) \in Seq(Byte) /\ Len(SubSeq(s, 1, n)) = n
           /\ \A k \in 1..n : SubSeq(s, 1, n)[k] = s[k]
           /\ SubSeq(s, n + 1, Len(s)) \in Seq(Byte) /\ Len(SubSeq(s, n + 1, Len(s))) = Len(s) - n
           /\ \A k \in 1..(Len(s) - n) : SubSeq(s, n + 1, Len(s))[k] = s[k + n]
<1>1. Len(s) \in Nat /\ n \in Nat /\ n <= Len(s) /\ \A k \in 1..Len(s) : s[k] \in Byte
  OBVIOUS
<1>2. \A k \in 1..n : s[k] \in Byte
  BY <1>1
<1>3. \A k \in (n + 1)..Len(s) : s[k] \in Byte
  BY <1>1
<1>4. /\ SubSeq(s, 1, n) \in Seq(Byte)
      /\ Len(SubSeq(s, 1, n)) = IF 1 <= n THEN n - 1 + 1 ELSE 0
      /\ \A k \in 1..(n - 1 + 1) : SubSeq(s, 1, n)[k] = s[1 + k - 1]
  BY <1>1, <1>2, SubSeqProperties
<1>5. /\ SubSeq(s, n + 1, Len(s)) \in Seq(Byte)
      /\ Len(SubSeq(s, n + 1, Len(s))) = IF n + 1 <= Len(s) THEN Len(s) - (n + 1) + 1 ELSE 0
      /\ \A k \in 1..(Len(s) - (n + 1) + 1) : SubSeq(s, n + 1, Len(s))[k] = s[n + 1 + k - 1]
  BY <1>1, <1>3, SubSeqProperties
<1>6. n - 1 + 1 = n /\ Len(s) - (n + 1) + 1 = Len(s) - n
  BY <1>1
<1>7. \A k \in 1..n : SubSeq(s, 1, n)[k] = s[k]
  BY <1>1, <1>4
<1>8. \A k \in 1..(Len(s) - n) : SubSeq(s, n + 1, Len(s))[k] = s[k + n]
  BY <1>1, <1>5
<1>9. Len(SubSeq(s, 1, n)) = n /\ Len(SubSeq(s, n + 1, Len(s))) = Len(s) - n
  <2> DEFINE l == Len(s)
             h == Len(SubSeq(s, 1, n))
             t == Len(SubSeq(s, n + 1, Len(s)))
  <2>1. /\ h = IF 1 <= n THEN n - 1 + 1 ELSE 0
        /\ t = IF n + 1 <= l THEN l - (n + 1) + 1 ELSE 0
        /\ l \in Nat /\ n \in 1..l
    BY <1>1, <1>4, <1>5
  <2> HIDE DEF l, h, t
  <2>2. h = n /\ t = l - n
    BY <2>1
  <2> QED  BY <2>2 DEF l, h, t
<1> QED  BY <1>4, <1>5, <1>7, <1>8, <1>9
\* The server's steps while the client waits.
LEMMA ServerStep ==
    ASSUME PassingInv, X!writen \/ X!send_fd PROVE PassingInv'
<1>1. /\ xpc = "send" /\ UNCHANGED <<answer, text, ypc, buf, passed, newfd>>
      /\ xpc' \in {"send", "sent", "closed"}
  BY DEF X!writen, X!send_fd
<1>2. AnswersMatch' /\ Null' = Null /\ Status' = Status
  BY <1>1 DEF PassingInv, AnswersMatch, X!AnswersMatch, Null, Status, X!status
<1>3. CASE bytes' = bytes /\ left' = left /\ xpc' = "closed"
  BY <1>1, <1>2, <1>3 DEF PassingInv, PassingType, Receiving, Scanning, Plain
<1>4. CASE X!writen /\ xpc' = "send"
  <2>1. PICK n \in 1..left : bytes' = bytes \o [k \in 1..n |-> X!Text] /\ left' = left - n
    BY <1>4, <1>1 DEF X!writen, PassingInv, PassingType
  <2> DEFINE t == [k \in 1..n |-> X!Text]
  <2>2. n \in Nat /\ left \in Nat /\ n <= left /\ X!Text \in Byte /\ bytes \in Seq(Byte)
    BY DEF PassingInv, PassingType, X!Text, X!NoFd, Byte
  <2>3. t \in Seq(Byte) /\ Len(t) = n /\ \A k \in 1..n : t[k] = X!Text
    BY <2>2
  <2> HIDE DEF t
  <2>4. /\ bytes' \in Seq(Byte) /\ Len(bytes') = Len(bytes) + n
        /\ \A k \in 1..(Len(bytes) + n) : bytes'[k] = IF k <= Len(bytes) THEN bytes[k] ELSE t[k - Len(bytes)]
    BY <2>1, <2>2, <2>3, ConcatProperties DEF t
  <2>5. Plain(bytes) => Plain(bytes')
    BY <2>2, <2>3, <2>4 DEF Plain
  <2>6. left' \in Nat /\ \A a \in Nat : a + Len(bytes') + left' = a + Len(bytes) + left
    <3> DEFINE l == Len(bytes)
               m == Len(bytes')
    <3>1. l \in Nat /\ m = l + n /\ left' = left - n
      BY <2>1, <2>2, <2>4
    <3> HIDE DEF l, m
    <3>2. left' \in Nat /\ \A a \in Nat : a + m + left' = a + l + left
      BY <2>2, <3>1
    <3> QED  BY <3>2 DEF l, m
  <2>7. PassingType'
    BY <1>1, <1>4, <2>4, <2>6 DEF PassingInv, PassingType
  <2>8. ypc = "recv" => Receiving'
    BY <1>1, <1>4, <2>5, <2>6 DEF PassingInv, PassingType, Receiving, Plain
  <2>9. ASSUME ypc = "scan" PROVE Scanning'
    <3>1. Scanning /\ passed + Len(buf) \in Nat
      BY <2>9 DEF PassingInv, PassingType
    <3>2. Plain(buf)' <=> Plain(buf)
      BY <1>1 DEF Plain
    <3>3. Plain(bytes)' <=> Plain(bytes')
      BY DEF Plain
    <3> QED  BY <1>1, <1>4, <2>5, <2>6, <3>1, <3>2, <3>3 DEF Scanning
  <2> QED  BY <1>1, <1>2, <1>4, <2>7, <2>8, <2>9 DEF PassingInv
<1>5. CASE X!send_fd /\ xpc' = "sent"
  <2> DEFINE t == <<Null, Status>>
  <2>1. bytes' = bytes \o t /\ left = 0 /\ left' = 0
    BY <1>1, <1>5 DEF X!send_fd, Null, Status
  <2>2. bytes \in Seq(Byte) /\ Len(bytes) \in Nat /\ Null \in Byte /\ Status \in Byte
    <3>1. answer \in Int /\ X!status(answer) \in Int /\ X!NoFd \in Int
      BY StatusByte DEF PassingInv, PassingType, X!NoFd
    <3> QED  BY <3>1 DEF PassingInv, PassingType, Null, Status, Byte
  <2>3. t \in Seq(Byte) /\ Len(t) = 2 /\ t[1] = Null /\ t[2] = Status
    BY <2>2
  <2> HIDE DEF t
  <2>4. /\ bytes' \in Seq(Byte) /\ Len(bytes') = Len(bytes) + 2
        /\ \A k \in 1..(Len(bytes) + 2) : bytes'[k] = IF k <= Len(bytes) THEN bytes[k] ELSE t[k - Len(bytes)]
    <3>1. Len(bytes \o t) = Len(bytes) + Len(t) /\ bytes \o t \in Seq(Byte)
      BY <2>2, <2>3, ConcatProperties
    <3>2. \A k \in 1..(Len(bytes) + Len(t)) :
              (bytes \o t)[k] = IF k <= Len(bytes) THEN bytes[k] ELSE t[k - Len(bytes)]
      BY <2>2, <2>3, ConcatProperties
    <3> QED  BY <2>1, <2>3, <3>1, <3>2
  <2>10. \A a \in Nat : a + Len(bytes') = a + Len(bytes) + left + 2
    <3> DEFINE l == Len(bytes)
               m == Len(bytes')
    <3>1. l \in Nat /\ m = l + 2
      BY <2>2, <2>4
    <3> HIDE DEF l, m
    <3>2. \A a \in Nat : a + m = a + l + left + 2
      BY <2>1, <3>1
    <3> QED  BY <3>2 DEF l, m
  <2>5. bytes'[Len(bytes) + 1] = Null /\ bytes'[Len(bytes) + 2] = Status
    BY <2>2, <2>3, <2>4
  <2>6. Plain(bytes) => Ended(bytes)'
    BY <1>2, <2>2, <2>4, <2>5 DEF Plain, Ended
  <2>7. PassingType'
    BY <1>1, <1>5, <2>1, <2>4 DEF PassingInv, PassingType
  <2>8. ypc = "recv" => Receiving'
    BY <1>1, <1>5, <2>6, <2>10 DEF PassingInv, PassingType, Receiving
  <2>9. ASSUME ypc = "scan" PROVE Scanning'
    <3>1. Scanning /\ passed + Len(buf) \in Nat
      BY <2>9 DEF PassingInv, PassingType
    <3>2. Plain(buf)' <=> Plain(buf)
      BY <1>1 DEF Plain
    <3> QED  BY <1>1, <1>5, <2>6, <2>10, <3>1, <3>2 DEF Scanning
  <2> QED  BY <1>1, <1>2, <1>5, <2>7, <2>8, <2>9 DEF PassingInv
<1> QED  BY <1>3, <1>4, <1>5 DEF X!writen, X!send_fd

\* What recvmsg returns of an answer, wherever the end of the buffer falls.
LEMMA RecvStep == ASSUME PassingInv, X!recvmsg PROVE PassingInv'
<1> DEFINE n == IF Len(bytes) < MAXLINE THEN Len(bytes) ELSE MAXLINE
<1>1. /\ ypc = "recv" /\ ypc' = "scan" /\ bytes # <<>>
      /\ buf' = SubSeq(bytes, 1, n) /\ bytes' = SubSeq(bytes, n + 1, Len(bytes))
      /\ UNCHANGED <<left, answer, text, xpc, passed, newfd>>
  BY DEF X!recvmsg, X!Take
<1>2. bytes \in Seq(Byte) /\ Len(bytes) \in Nat \ {0}
  BY <1>1 DEF PassingInv, PassingType
<1>3. n \in 1..Len(bytes) /\ n <= MAXLINE /\ (n = MAXLINE \/ n = Len(bytes)) /\ MAXLINE \in Nat \ {0}
  BY <1>2, SizesAssumption
<1> HIDE DEF n
<1>4. /\ buf' \in Seq(Byte) /\ Len(buf') = n /\ \A k \in 1..n : buf'[k] = bytes[k]
      /\ bytes' \in Seq(Byte) /\ Len(bytes') = Len(bytes) - n
      /\ \A k \in 1..(Len(bytes) - n) : bytes'[k] = bytes[k + n]
  BY <1>1, <1>2, <1>3, TakeBytes
<1>5. Null' = Null /\ Status' = Status /\ Receiving
  BY <1>1 DEF Null, Status, X!status, PassingInv
<1>6. PassingType'
  BY <1>1, <1>4 DEF PassingInv, PassingType
<1>7. xpc # "idle"
  BY <1>1, <1>5 DEF Receiving
<1>8. passed + Len(buf') + Len(bytes') = passed + Len(bytes)
  <2> DEFINE l == Len(bytes)
             b == Len(buf')
             m == Len(bytes')
  <2>1. l \in Nat /\ b = n /\ m = l - n /\ n \in Nat /\ passed \in Nat
    BY <1>2, <1>3, <1>4 DEF PassingInv, PassingType
  <2> HIDE DEF l, b, m
  <2>2. passed + b + m = passed + l
    BY <2>1
  <2> QED  BY <2>2 DEF l, b, m
<1>9. ASSUME xpc \in {"send", "closed"} PROVE Scanning'
  <2>1. Plain(buf') /\ Plain(bytes')
    <3>1. \A k \in 1..(Len(bytes) - n) : k + n \in 1..Len(bytes)
      BY <1>2, <1>3
    <3>2. \A k \in 1..n : k \in 1..Len(bytes)
      BY <1>2, <1>3
    <3> QED  BY <1>4, <1>5, <1>9, <3>1, <3>2 DEF Receiving, Plain
  <2>2. passed + Len(buf') + Len(bytes') + left = text
    BY <1>5, <1>8, <1>9 DEF Receiving
  <2> QED  BY <1>1, <1>9, <2>1, <2>2 DEF Scanning, Plain
<1>10. ASSUME xpc = "sent" PROVE Scanning'
  <2>1. /\ Len(bytes) >= 2 /\ bytes[Len(bytes) - 1] = Null /\ bytes[Len(bytes)] = Status
        /\ \A k \in 1..(Len(bytes) - 2) : bytes[k] = X!Text
    BY <1>5, <1>10 DEF Receiving, Ended
  <2>2. passed + Len(buf') + Len(bytes') = text + 2
    BY <1>5, <1>8, <1>10 DEF Receiving
  <2>3. CASE n = Len(bytes)
    <3>1. Ended(buf)'
      BY <1>2, <1>4, <1>5, <2>1, <2>3 DEF Ended
    <3>2. bytes' = <<>>
      BY <1>2, <1>4, <2>3
    <3> QED  BY <1>1, <1>10, <2>2, <3>1, <3>2 DEF Scanning
  <2>4. CASE n = Len(bytes) - 1
    <3>1. n = MAXLINE /\ Len(bytes') = 1
      BY <1>2, <1>3, <1>4, <2>4
    <3>2. bytes'[1] = Status /\ buf'[n] = Null
      BY <1>2, <1>3, <1>4, <2>1, <2>4
    <3>3. \A k \in 1..(n - 1) : buf'[k] = X!Text
      <4>1. \A k \in 1..(n - 1) : k \in 1..n /\ k \in 1..(Len(bytes) - 2)
        BY <1>2, <1>3, <2>4
      <4> QED  BY <1>4, <2>1, <4>1
    <3>4. Cut'
      BY <1>4, <1>5, <3>1, <3>2, <3>3 DEF Cut
    <3> QED  BY <1>1, <1>10, <2>2, <3>4 DEF Scanning
  <2>5. CASE n <= Len(bytes) - 2
    <3>1. Plain(buf)'
      BY <1>2, <1>3, <1>4, <2>1, <2>5 DEF Plain
    <3>2. /\ Len(bytes') >= 2 /\ bytes'[Len(bytes') - 1] = bytes[Len(bytes) - 1]
          /\ bytes'[Len(bytes')] = bytes[Len(bytes)]
      <4> DEFINE l == Len(bytes)
      <4>1. l \in Nat /\ n \in Nat /\ n <= l - 2 /\ Len(bytes') = l - n
        BY <1>2, <1>3, <1>4, <2>5
      <4> HIDE DEF l
      <4>2. /\ l - n \in 1..(l - n) /\ (l - n) - 1 \in 1..(l - n) /\ l - n >= 2
            /\ (l - n) + n = l /\ ((l - n) - 1) + n = l - 1
        BY <4>1
      <4>3. \A k \in 1..(l - n) : bytes'[k] = bytes[k + n]
        BY <1>4 DEF l
      <4>4. bytes'[l - n] = bytes[l] /\ bytes'[(l - n) - 1] = bytes[l - 1]
        BY <4>2, <4>3
      <4> QED  BY <4>1, <4>2, <4>4 DEF l
    <3>3. \A k \in 1..(Len(bytes') - 2) : bytes'[k] = X!Text
      <4> SUFFICES ASSUME NEW k \in 1..(Len(bytes') - 2) PROVE bytes'[k] = X!Text
        OBVIOUS
      <4>1. k + n \in 1..(Len(bytes) - 2) /\ k \in 1..(Len(bytes) - n)
        BY <1>2, <1>3, <1>4, <2>5
      <4> QED  BY <1>4, <2>1, <4>1
    <3>4. Ended(bytes)'
      BY <1>5, <2>1, <3>2, <3>3 DEF Ended
    <3> QED  BY <1>1, <1>10, <2>2, <3>1, <3>4 DEF Scanning
  <2> QED  BY <1>2, <1>3, <2>3, <2>4, <2>5
<1> QED  BY <1>1, <1>6, <1>7, <1>9, <1>10 DEF PassingInv, PassingType, AnswersMatch, X!AnswersMatch
\* recv_fd goes on after text, and returns what the two bytes say.
LEMMA ScanStep == ASSUME PassingInv, X!ScanText \/ X!ScanEnd PROVE PassingInv'
<1>1. /\ ypc = "scan" /\ UNCHANGED <<bytes, left, answer, text, xpc, buf>>
  BY DEF X!ScanText, X!ScanEnd
<1>2. PassingType /\ Scanning /\ Len(buf) \in Nat /\ Len(bytes) \in Nat /\ passed \in Nat
  BY <1>1 DEF PassingInv, PassingType
<1>3. /\ Plain(buf) => X!Nulls = {}
      /\ Ended(buf) => /\ Len(buf) - 1 \in X!Nulls
                       /\ \A k \in X!Nulls : k >= Len(buf) - 1
      /\ Cut => X!Nulls = {MAXLINE}
  BY <1>2, NullBytes, SizesAssumption
<1>4. CASE X!ScanText
  <2>1. X!Nulls = {} /\ passed' = passed + Len(buf) /\ ypc' \in {"recv", "failed"}
    BY <1>4 DEF X!ScanText
  <2>2. ~Ended(buf) /\ ~Cut
    BY <1>3, <2>1
  <2>3. Receiving'
    <3>1. Plain(bytes)' <=> Plain(bytes)
      BY <1>1 DEF Plain
    <3>2. Ended(bytes)' <=> Ended(bytes)
      BY <1>1 DEF Ended, Null, Status, X!status
    <3> QED  BY <1>1, <1>2, <2>1, <2>2, <3>1, <3>2 DEF Scanning, Receiving, PassingType
  <2>4. PassingType'
    BY <1>1, <1>2, <2>1 DEF PassingType
  <2> QED  BY <2>1, <2>3, <2>4 DEF PassingInv, AnswersMatch, X!AnswersMatch
<1>5. CASE X!ScanEnd
  <2> DEFINE z == CHOOSE k \in X!Nulls : \A j \in X!Nulls : k <= j
             st == buf[z + 1][1]
  <2>1. /\ X!Nulls # {}
        /\ IF z # Len(buf) - 1 \/ (st = 0 /\ buf[z][2] = X!NoFd)
           THEN ypc' = "dumped" /\ UNCHANGED <<passed, newfd>>
           ELSE /\ newfd' = IF st = 0 THEN buf[z][2] ELSE -st
                /\ passed' = passed + Len(buf) - 2
                /\ ypc' \in {"returned"} \cup IF Len(buf) > 2 THEN {"failed"} ELSE {}
    BY <1>5 DEF X!ScanEnd
  <2>2. xpc = "sent" /\ ((Ended(buf) /\ bytes = <<>>) \/ Cut)
        /\ passed + Len(buf) + Len(bytes) = text + 2
    BY <1>2, <1>3, <2>1 DEF Scanning, PassingType
  <2>3. CASE Cut
    <3>1. z = MAXLINE
      BY <1>3, <2>3, SizesAssumption
    <3>2. Len(buf) = MAXLINE /\ buf[MAXLINE][1] = 0
      BY <2>3 DEF Cut, Null
    <3> HIDE DEF z
    <3>3. ypc' = "dumped" /\ passed' = passed
      BY <2>1, <3>1, <3>2, SizesAssumption
    <3> QED
      BY <1>1, <1>2, <3>2, <3>3 DEF PassingInv, PassingType, AnswersMatch, X!AnswersMatch
  <2>4. CASE Ended(buf) /\ bytes = <<>>
    <3>1. X!Nulls \subseteq Nat
      BY DEF X!Nulls
    <3>2. z = Len(buf) - 1
      <4> DEFINE e == Len(buf) - 1
      <4>1. e \in X!Nulls /\ e \in Int /\ \A k \in X!Nulls : k >= e
        BY <1>2, <1>3, <2>4
      <4> HIDE DEF e
      <4>2. \A k \in X!Nulls : e <= k
        BY <3>1, <4>1
      <4>3. z \in X!Nulls /\ \A k \in X!Nulls : z <= k
        BY <4>1, <4>2
      <4> HIDE DEF z
      <4>4. z = e
        BY <3>1, <4>1, <4>2, <4>3
      <4> QED  BY <4>4 DEF e
    <3> HIDE DEF z
    <3>3. buf[z] = Null /\ buf[z + 1] = Status /\ Len(buf) >= 2
      BY <1>2, <2>4, <3>2 DEF Ended
    <3>4. st = X!status(answer) /\ buf[z][2] = IF answer >= 0 THEN answer ELSE X!NoFd
      BY <3>3 DEF Null, Status
    <3> HIDE DEF st
    <3>5. /\ X!status(answer) \in Int
          /\ answer >= 0 => X!status(answer) = 0
          /\ answer < 0 => X!status(answer) > 0
          /\ answer \in -255..-1 => X!status(answer) = -answer
      BY <1>2, StatusByte DEF PassingType
    <3>6. answer \in Int /\ (answer < 0 \/ answer = 3)
      BY <1>2, <2>2 DEF PassingType, X!Fd
    <3>7. ~(z # Len(buf) - 1 \/ (st = 0 /\ buf[z][2] = X!NoFd))
      BY <3>2, <3>4, <3>5, <3>6 DEF X!NoFd
    <3>8. newfd' = IF answer >= 0 THEN answer ELSE -X!status(answer)
      BY <2>1, <3>4, <3>5, <3>6, <3>7
    <3>9. passed' = passed + Len(buf) - 2 /\ ypc' \in {"returned", "failed"}
      BY <2>1, <3>7
    <3>10. passed' = text /\ passed' \in Nat
      BY <1>2, <2>2, <2>4, <3>9 DEF PassingType
    <3>11. /\ IF answer >= 0 THEN newfd' = answer ELSE newfd' < 0
           /\ answer \in -255..-1 => newfd' = answer
      BY <3>5, <3>6, <3>8
    <3> QED
      BY <1>1, <1>2, <2>2, <2>4, <3>9, <3>10, <3>11
         DEF PassingInv, PassingType, AnswersMatch, X!AnswersMatch
  <2> QED  BY <2>2, <2>3, <2>4
<1> QED  BY <1>4, <1>5

\* Each recv_fd returns what was answered, for every size of the buffer, every length of
\* a message, every code and any number of answers.
THEOREM AnswersReturned == X!Spec => []AnswersMatch
<1>1. X!Init => PassingInv
  <2> SUFFICES ASSUME X!Init PROVE PassingInv
    OBVIOUS
  <2>1. bytes \in Seq(Byte) /\ buf \in Seq(Byte)
    BY DEF X!Init
  <2> QED
    BY <2>1 DEF X!Init, PassingInv, PassingType, Receiving, AnswersMatch, X!AnswersMatch
<1>2. PassingInv /\ [X!Next]_X!xvars => PassingInv'
  <2> SUFFICES ASSUME PassingInv, [X!Next]_X!xvars PROVE PassingInv'
    OBVIOUS
  <2>1. CASE UNCHANGED X!xvars
    BY <2>1 DEF X!xvars, PassingInv, PassingType, Receiving, Scanning, Plain, Ended, Cut, Null, Status,
                X!status, AnswersMatch, X!AnswersMatch
  <2>2. CASE X!Answer
    <3>1. xpc = "idle" /\ xpc' = "send" /\ left' = text' /\ UNCHANGED <<bytes, ypc, buf, passed, newfd>>
      BY <2>2 DEF X!Answer
    <3>2. text' \in Nat /\ answer' \in Int /\ (answer' < 0 \/ answer' = X!Fd)
      <4>1. CASE answer' = X!Fd /\ text' = 0
        BY <4>1 DEF X!Fd
      <4>2. ASSUME NEW c \in Codes, answer' = (IF c >= 0 THEN -1 ELSE c), text' \in Lengths
            PROVE  text' \in Nat /\ answer' \in Int /\ answer' < 0
        <5>1. c \in Int /\ text' \in Nat
          BY <4>2, SizesAssumption
        <5> QED  BY <4>2, <5>1
      <4> QED  BY <2>2, <4>1, <4>2 DEF X!Answer
    <3>3. PassingType'
      BY <3>1, <3>2 DEF PassingInv, PassingType
    <3>4. ypc = "recv" => Receiving'
      <4>1. ypc = "recv" => passed = 0 /\ bytes = <<>>
        BY <3>1 DEF PassingInv, Receiving
      <4>2. Plain(<<>>) /\ Len(<<>>) = 0
        BY DEF Plain
      <4>3. ypc = "recv" => Plain(bytes)' /\ passed' + Len(bytes') + left' = text'
        <5> SUFFICES ASSUME ypc = "recv" PROVE Plain(bytes)' /\ passed' + Len(bytes') + left' = text'
          OBVIOUS
        <5>1. bytes' = <<>> /\ passed' = 0 /\ left' = text' /\ text' \in Nat /\ Len(bytes') = 0
          <6>1. bytes' = <<>> /\ passed' = 0 /\ left' = text' /\ text' \in Nat
            BY <3>1, <3>2, <4>1, Zenon
          <6> QED  BY <4>2, <6>1, Zenon
        <5>2. passed' + Len(bytes') + left' = text'
          <6>1. \A a \in Nat : 0 + 0 + a = a
            OBVIOUS
          <6> QED  BY <5>1, <6>1, Zenon
        <5>3. 1..Len(bytes') = {}
          BY <5>1
        <5> QED  BY <5>2, <5>3 DEF Plain
      <4> QED  BY <3>1, <4>3 DEF Receiving
    <3>5. ypc \notin {"scan", "returned"}
      BY <3>1 DEF PassingInv, Scanning
    <3> QED  BY <3>1, <3>3, <3>4, <3>5 DEF PassingInv, AnswersMatch, X!AnswersMatch
  <2>3. CASE X!writen \/ X!send_fd
    BY <2>3, ServerStep
  <2>4. CASE X!recvmsg
    BY <2>4, RecvStep
  <2>5. CASE X!recvFails
    BY <2>5 DEF X!recvFails, PassingInv, PassingType, AnswersMatch, X!AnswersMatch
  <2>6. CASE X!ScanText \/ X!ScanEnd
    BY <2>6, ScanStep
  <2>7. CASE X!Again
    <3>1. <<>> \in Seq(Byte)
      OBVIOUS
    <3> QED
      BY <2>7, <3>1 DEF X!Again, PassingInv, PassingType, Receiving, AnswersMatch, X!AnswersMatch
  <2> QED  BY <2>1, <2>2, <2>3, <2>4, <2>5, <2>6, <2>7 DEF X!Next
<1>3. PassingInv => AnswersMatch
  BY DEF PassingInv
<1> QED  BY <1>1, <1>2, <1>3, PTL DEF X!Spec
-----------------------------------------------------------------------------
(* PipeStreams *)

Tables == [P!Fds -> (Kids \cup {0}) \X {"none", "tty", "r", "w"}]
KidRecords == [st : {"none", "forked", "running", "zombie", "reaped"}, type : {"r", "w"},
               pfd : Nat \X Nat, tab : SUBSET P!Fds, fds : Tables]

\* What a child that has not attached its pipe yet has open.
Forked(k) == /\ kid[k].pfd[1] \in P!Fds /\ kid[k].pfd[2] \in P!Fds /\ kid[k].pfd[1] # kid[k].pfd[2]
             /\ kid[k].fds[kid[k].pfd[1]] = <<k, "r">>
             /\ kid[k].fds[kid[k].pfd[2]] = <<k, "w">>

StreamsInv == /\ fds \in Tables
              /\ kid \in [Kids -> KidRecords]
              /\ \A k \in Kids : kid[k].st = "forked" => Forked(k)
              /\ ChildAttached

\* pipe() returns two descriptors.
LEMMA TwoFree == ASSUME \E b, c \in P!Free(fds) : b # c
                 PROVE  /\ P!pfd = <<P!pfd[1], P!pfd[2]>>
                        /\ P!pfd[1] \in P!Fds /\ P!pfd[2] \in P!Fds /\ P!pfd[1] # P!pfd[2]
                        /\ P!Fds \subseteq Nat /\ 0 \in P!Fds /\ 1 \in P!Fds
<1> DEFINE S == P!Free(fds)
           a == P!Least(S)
<1>1. P!Fds \subseteq Nat
  BY SizesAssumption DEF P!Fds
<1>2. S \subseteq P!Fds
  BY DEF P!Free
<1> HIDE DEF S
<1>4. \A T : T \subseteq S /\ T # {} => P!Least(T) \in T
  <2> SUFFICES ASSUME NEW T, T \subseteq S, T # {} PROVE P!Least(T) \in T
    OBVIOUS
  <2>1. PICK b \in T : \A y \in T : b <= y
    BY <1>1, <1>2, LeastOf
  <2> QED  BY <2>1 DEF P!Least
<1>6. a \in S
  BY <1>4 DEF S
<1>8. S \ {a} # {}
  BY DEF S
<1>9. P!Least(S \ {a}) \in S \ {a}
  BY <1>4, <1>8
<1>10. P!pfd = <<a, P!Least(S \ {a})>>
  BY DEF P!pfd, S
<1>11. P!pfd[1] \in P!Fds /\ P!pfd[2] \in P!Fds /\ P!pfd[1] # P!pfd[2] /\ P!pfd = <<P!pfd[1], P!pfd[2]>>
  BY <1>2, <1>6, <1>9, <1>10
<1>12. 0 \in P!Fds /\ 1 \in P!Fds
  BY <1>11, SizesAssumption DEF P!Fds
<1> QED  BY <1>1, <1>11, <1>12

\* The pipe is the standard input or output of each command, for any number of commands
\* and of descriptors, whichever of them were open.
THEOREM CommandsAttached == P!Spec => []ChildAttached
<1> USE DEF ChildAttached, P!ChildAttached
<1>1. P!Init => StreamsInv
  <2> SUFFICES ASSUME P!Init PROVE StreamsInv
    OBVIOUS
  <2>1. fds \in Tables
    BY DEF P!Init, Tables, P!Tty, P!None
  <2>2. P!NoKid \in KidRecords /\ P!NoKid.st = "none"
    BY DEF P!NoKid, KidRecords, Tables, P!None
  <2>3. \A k \in Kids : kid[k] = P!NoKid
    BY DEF P!Init
  <2>4. kid \in [Kids -> KidRecords]
    BY <2>2 DEF P!Init
  <2> QED  BY <2>1, <2>2, <2>3, <2>4 DEF StreamsInv
<1>2. StreamsInv /\ [P!Next]_P!pvars => StreamsInv'
  <2> SUFFICES ASSUME StreamsInv, [P!Next]_P!pvars PROVE StreamsInv'
    OBVIOUS
  <2> USE DEF StreamsInv
  <2>1. CASE UNCHANGED P!pvars
    BY <2>1 DEF P!pvars, Forked, P!Std
  <2>2. ASSUME NEW k \in Kids, kid' \in [Kids -> KidRecords], fds' \in Tables,
               \A j \in Kids \ {k} : kid'[j] = kid[j],
               kid'[k].st = "forked" => Forked(k)',
               kid'[k].st = "running" =>
                  \/ kid'[k].fds[P!Std(k)'] = <<k, IF kid'[k].type = "r" THEN "w" ELSE "r">>
                  \/ P!Std(k)' \in kid'[k].tab
        PROVE  StreamsInv'
    <3>1. \A j \in Kids \ {k} : (Forked(j) => Forked(j)') /\ P!Std(j)' = P!Std(j)
      BY <2>2 DEF Forked, P!Std
    <3> QED  BY <2>2, <3>1
  <2>3. ASSUME NEW k \in Kids, P!MayOpen(k)
        PROVE  P!piped(k) \in Tables /\ P!pfd[1] \in P!Fds /\ P!pfd[2] \in P!Fds /\ P!pfd[1] # P!pfd[2]
               /\ P!pfd \in Nat \X Nat
               /\ P!piped(k)[P!pfd[1]] = <<k, "r">> /\ P!piped(k)[P!pfd[2]] = <<k, "w">>
    <3>1. /\ P!pfd = <<P!pfd[1], P!pfd[2]>>
          /\ P!pfd[1] \in P!Fds /\ P!pfd[2] \in P!Fds /\ P!pfd[1] # P!pfd[2] /\ P!Fds \subseteq Nat
      <4> HIDE DEF StreamsInv
      <4>1. \E b, c \in P!Free(fds) : b # c
        BY <2>3 DEF P!MayOpen
      <4> QED  BY <4>1, TwoFree
    <3> QED  BY <3>1 DEF P!piped, Tables
  <2>4. ASSUME NEW k \in Kids, P!PopenNoFork(k)
        PROVE  StreamsInv'
    <3>1. kid' = [kid EXCEPT ![k].st = "reaped"] /\ fds' = P!piped(k) /\ P!MayOpen(k)
      BY <2>4 DEF P!PopenNoFork
    <3>2. kid' \in [Kids -> KidRecords] /\ kid'[k].st = "reaped" /\ \A j \in Kids \ {k} : kid'[j] = kid[j]
      BY <3>1 DEF KidRecords
    <3> QED  BY <2>2, <2>3, <3>1, <3>2
  <2>5. ASSUME NEW k \in Kids, NEW type \in {"r", "w"}, P!popen(k, type)
        PROVE  StreamsInv'
    <3> DEFINE rec == [st |-> "forked", type |-> type, pfd |-> P!pfd,
                       tab |-> {f \in P!Fds : childpid[f] > 0}, fds |-> P!piped(k)]
    <3>1. /\ kid' = [kid EXCEPT ![k] = rec] /\ P!MayOpen(k)
          /\ \E f \in {P!pfd[1], P!pfd[2]} : fds' = P!close(P!piped(k), f)
      BY <2>5 DEF P!popen
    <3>2. rec \in KidRecords
      BY <2>3, <3>1 DEF KidRecords
    <3>3. kid' \in [Kids -> KidRecords] /\ kid'[k] = rec /\ \A j \in Kids \ {k} : kid'[j] = kid[j]
      BY <3>1, <3>2
    <3>4. Forked(k)'
      BY <2>3, <3>1, <3>3 DEF Forked
    <3>5. fds' \in Tables
      BY <2>3, <3>1 DEF P!close, P!None, Tables
    <3> QED  BY <2>2, <3>3, <3>4, <3>5
  <2>6. ASSUME NEW k \in Kids, P!Child(k)
        PROVE  StreamsInv'
    <3> DEFINE r == kid[k].pfd[1]
               w == kid[k].pfd[2]
               own == IF kid[k].type = "r" THEN w ELSE r
               end == <<k, IF kid[k].type = "r" THEN "w" ELSE "r">>
    <3>1. /\ r \in P!Fds /\ w \in P!Fds /\ r # w /\ kid[k].fds \in Tables
          /\ kid[k].fds[r] = <<k, "r">> /\ kid[k].fds[w] = <<k, "w">>
          /\ kid[k].type \in {"r", "w"} /\ kid[k] \in KidRecords
      BY <2>6 DEF P!Child, Forked, KidRecords
    <3>2. P!Std(k) \in P!Fds
      BY <3>1, SizesAssumption DEF P!Fds, P!Std
    <3>3. P!Attached(k) \in Tables /\ P!Attached(k)[P!Std(k)] = end
      <4>1. CASE kid[k].type = "r"
        BY <3>1, <3>2, <4>1 DEF P!Attached, P!close, P!None, Tables
      <4>2. CASE kid[k].type = "w"
        BY <3>1, <3>2, <4>2 DEF P!Attached, P!close, P!None, Tables
      <4> QED  BY <3>1, <4>1, <4>2
    <3> DEFINE files == [f \in P!Fds |-> IF f \in kid[k].tab THEN P!None ELSE P!Attached(k)[f]]
    <3>4. files \in Tables /\ (P!Std(k) \notin kid[k].tab => files[P!Std(k)] = end)
      BY <3>2, <3>3 DEF Tables, P!None
    <3>5. /\ kid' \in [Kids -> KidRecords] /\ kid'[k].st = "running" /\ kid'[k].fds = files
          /\ kid'[k].type = kid[k].type /\ kid'[k].tab = kid[k].tab
          /\ fds' = fds
          /\ \A j \in Kids \ {k} : kid'[j] = kid[j]
      <4> HIDE DEF files
      <4>1. kid' = [kid EXCEPT ![k].st = "running", ![k].fds = files] /\ fds' = fds
        BY <2>6 DEF P!Child, files
      <4> QED  BY <3>1, <3>4, <4>1 DEF KidRecords
    <3>6. P!Std(k)' = P!Std(k)
      BY <3>5 DEF P!Std
    <3> QED  BY <2>2, <3>4, <3>5, <3>6
  <2>7. ASSUME NEW k \in Kids, P!Exit(k)
        PROVE  StreamsInv'
    <3>1. [P!NoKid EXCEPT !.st = "zombie"] \in KidRecords /\ [P!NoKid EXCEPT !.st = "zombie"].st = "zombie"
      BY DEF P!NoKid, KidRecords, Tables, P!None
    <3> QED  BY <2>2, <2>7, <3>1 DEF P!Exit
  <2>8. ASSUME NEW fd \in P!Fds, P!pclose(fd)
        PROVE  StreamsInv'
    <3>1. kid' = kid /\ fds' \in Tables
      BY <2>8 DEF P!pclose, P!close, P!None, Tables
    <3> QED  BY <3>1 DEF Forked, P!Std
  <2>9. CASE P!Waited
    <3>1. kid' = [kid EXCEPT ![waiting].st = "reaped"] /\ fds' = fds
      BY <2>9 DEF P!Waited
    <3>2. CASE waiting \in Kids
      <4>1. kid' \in [Kids -> KidRecords] /\ kid'[waiting].st = "reaped"
            /\ \A j \in Kids \ {waiting} : kid'[j] = kid[j]
        BY <3>1, <3>2 DEF KidRecords
      <4> QED  BY <2>2, <3>1, <3>2, <4>1
    <3>3. CASE waiting \notin Kids
      <4>1. kid' = kid
        BY <3>1, <3>3
      <4> QED  BY <3>1, <4>1 DEF Forked, P!Std
    <3> QED  BY <3>2, <3>3
  <2> QED  BY <2>1, <2>4, <2>5, <2>6, <2>7, <2>8, <2>9 DEF P!Next
<1>3. StreamsInv => ChildAttached
  BY DEF StreamsInv
<1> QED  BY <1>1, <1>2, <1>3, PTL DEF P!Spec
=============================================================================
