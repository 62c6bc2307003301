----------------------------- MODULE Connections -----------------------------
(***************************************************************************)
(* lib/cliconn.c, lib/servlisten.c and lib/servaccept.c: clients bind a    *)
(* name of their own, connect to the server's name, and the server checks  *)
(* and removes the client's name when it accepts.  One step per system     *)
(* call that others see; the server crashes and is started again.          *)
(***************************************************************************)
EXTENDS Naturals, Sequences

CONSTANTS Clients,
          QLEN,
          MaxConns   \* bounds the calls of cli_conn of each client

VARIABLES kpc,     \* the statement of cli_conn each client executes next
          file,    \* the client's name: "none", "bound", "rwx" or "stale"
          calls,   \* the calls of cli_conn
          again,   \* whether the last call of cli_conn was made before the one before was
                   \* accepted
          vpc,     \* what the server does: "down", "bind", "listen", "idle", ...
          sname,   \* whether the server's name exists
          backlog, \* the clients whose connections wait for accept
          clifd,   \* the client of the connection being accepted, or 0
          rval     \* the last result of serv_accept

nvars == <<kpc, file, calls, again, vpc, sname, backlog, clifd, rval>>

Init == /\ kpc = [c \in Clients |-> "idle"]
        /\ file = [c \in Clients |-> "none"]
        /\ calls = [c \in Clients |-> 0]
        /\ again = [c \in Clients |-> FALSE]
        /\ vpc = "down" /\ sname = FALSE /\ backlog = <<>> /\ clifd = 0 /\ rval = 0

Pending(c) == clifd = c \/ \E k \in 1..Len(backlog) : backlog[k] = c
Goto(c, from, to) == kpc[c] = from /\ kpc' = [kpc EXCEPT ![c] = to]
Name(c, state) == file' = [file EXCEPT ![c] = state]
-----------------------------------------------------------------------------
(* cli_conn *)

\* socket() and the unlink of the name "in case it already exists"; when the name
\* is too long or there is no socket, cli_conn returns before that.
CallConn(c) == /\ calls[c] < MaxConns
               /\ Goto(c, "idle", "bind")
               /\ Name(c, "none")
               /\ calls' = [calls EXCEPT ![c] = @ + 1]
               /\ again' = [again EXCEPT ![c] = Pending(c)]
               /\ UNCHANGED <<vpc, sname, backlog, clifd, rval>>

\* bind, which makes the name; errout with -2 when it cannot.
Bind(c) == /\ \/ Goto(c, "bind", "chmod") /\ Name(c, "bound")
              \/ Goto(c, "bind", "idle") /\ UNCHANGED file
           /\ UNCHANGED <<calls, again, vpc, sname, backlog, clifd, rval>>

\* A faulty variant, used as a mutant: the permissions are left as they are.
ChmodSkipped(c) == /\ Goto(c, "chmod", "connect")
                   /\ UNCHANGED <<file, calls, again, vpc, sname, backlog, clifd, rval>>

\* chmod to rwx------; errout with -3 removes the name.
Chmod(c) == /\ \/ Goto(c, "chmod", "connect") /\ Name(c, IF file[c] = "bound" THEN "rwx" ELSE file[c])
               \/ Goto(c, "chmod", "idle") /\ Name(c, "none")
            /\ UNCHANGED <<calls, again, vpc, sname, backlog, clifd, rval>>

Listening == vpc \notin {"down", "bind", "listen"}

\* connect, which waits while the queue is full; errout with -4 removes the name.
Connect(c) == /\ \/ /\ sname /\ Listening
                    /\ Len(backlog) < QLEN
                    /\ backlog' = Append(backlog, c)
                    /\ UNCHANGED file
                 \/ ~(sname /\ Listening) /\ Name(c, "none") /\ UNCHANGED backlog
              /\ Goto(c, "connect", "idle")
              /\ UNCHANGED <<calls, again, vpc, sname, clifd, rval>>

\* A name grows older than STALE.
Age(c) == /\ file[c] \in {"bound", "rwx"}
          /\ Name(c, "stale")
          /\ UNCHANGED <<kpc, calls, again, vpc, sname, backlog, clifd, rval>>
-----------------------------------------------------------------------------
(* serv_listen *)

\* socket() and the unlink of the name an earlier server may have left.
Unlink == /\ vpc = "down"
          /\ sname' = FALSE
          /\ vpc' = "bind"
          /\ UNCHANGED <<kpc, file, calls, again, backlog, clifd, rval>>

\* bind fails on a name that exists (-3) and listen may fail (-4), with the name
\* left behind.
serv_listen == /\ \/ vpc = "bind" /\ ~sname /\ vpc' = "listen" /\ sname' = TRUE
                  \/ vpc = "listen" /\ vpc' \in {"idle", "down"} /\ UNCHANGED sname
               /\ UNCHANGED <<kpc, file, calls, again, backlog, clifd, rval>>

\* The server dies: its sockets are closed and its name stays.
Crash == /\ Listening
         /\ vpc' = "down" /\ backlog' = <<>> /\ clifd' = 0 /\ rval' = 0
         /\ UNCHANGED <<kpc, file, calls, again, sname>>
-----------------------------------------------------------------------------
(* serv_accept *)
Accept == /\ vpc = "idle" /\ backlog # <<>>
          /\ clifd' = Head(backlog)
          /\ backlog' = Tail(backlog)
          /\ vpc' = "stat"
          /\ rval' = 0
          /\ UNCHANGED <<kpc, file, calls, again, sname>>

\* stat and the tests of its result; errout closes the connection and leaves the
\* name.
Stat == /\ vpc = "stat"
        /\ rval' = CASE file[clifd] = "none" -> 3 [] file[clifd] = "bound" -> 5
                     [] file[clifd] = "stale" -> 6 [] file[clifd] = "rwx" -> 0
        /\ vpc' = IF rval' = 0 THEN "unlink" ELSE "refused"
        /\ UNCHANGED <<kpc, file, calls, again, sname, backlog, clifd>>

\* unlink(name), and the connection is returned to the caller.
Accepted == /\ vpc = "unlink"
            /\ Name(clifd, "none")
            /\ clifd' = 0
            /\ vpc' = "idle"
            /\ UNCHANGED <<kpc, calls, again, sname, backlog, rval>>

Refuse == /\ vpc = "refused"
          /\ clifd' = 0
          /\ vpc' = "idle"
          /\ UNCHANGED <<kpc, file, calls, again, sname, backlog, rval>>

serv_accept == Accept \/ Stat \/ Accepted \/ Refuse

Next == \/ \E c \in Clients : CallConn(c) \/ Bind(c) \/ Chmod(c) \/ Connect(c) \/ Age(c)
        \/ Unlink \/ serv_listen \/ Crash \/ serv_accept

Spec == Init /\ [][Next]_nvars
-----------------------------------------------------------------------------
\* serv_accept refuses a connection only when the client's name got stale or when
\* the client called cli_conn again before its last connection was accepted, which
\* removes or replaces the name.
RefusedForCause == vpc = "refused" => rval = 6 \/ again[clifd]
=============================================================================
