---------------------------- MODULE StandardFiles ----------------------------
(***************************************************************************)
(* lib/ptyfork.c with lib/ptyopen.c, and lib/daemonize.c: the descriptors  *)
(* of the process that goes on, started with any set of open ones.  Every  *)
(* call that is tested for failure may fail, and then the process ends.    *)
(***************************************************************************)
EXTENDS Naturals

CONSTANTS FdTop,       \* the descriptors are 0..FdTop
          CloseLimit   \* rlim_max, or 1024 when there is no limit

VARIABLES tab,         \* the file of each descriptor
          fdm, fdslave,
          leader,      \* whether the process is a session leader
          dpc          \* what it does next

dvars == <<tab, fdm, fdslave, leader, dpc>>

Fd == 0..FdTop
Init == /\ tab \in [Fd -> {"none", "old"}]
        /\ fdm = 0 /\ fdslave = 0 /\ leader = TRUE
        /\ dpc \in {"ptym_open", "daemonize"}

LeastFree(t) == CHOOSE f \in Fd : t[f] = "none" /\ \A g \in Fd : t[g] = "none" => f <= g
IsFree(t) == \E f \in Fd : t[f] = "none"
Opened(t, what) == [t EXCEPT ![LeastFree(t)] = what]

Fails == /\ dpc \in {"ptym_open", "pty_fork", "pty_child", "pty_dup", "daemonize", "forked", "reopen"}
         /\ dpc' = "ended"
         /\ UNCHANGED <<tab, fdm, fdslave, leader>>
-----------------------------------------------------------------------------
(* pty_fork *)

\* posix_openpt, and close on a failure of grantpt, unlockpt or ptsname.
ptym_open == /\ dpc = "ptym_open"
             /\ IsFree(tab)
             /\ fdm' = LeastFree(tab)
             /\ tab' = Opened(tab, "master")
             /\ dpc' = "pty_fork"
             /\ UNCHANGED <<fdslave, leader>>

\* The parent keeps the master, also when fork fails; the child is the leader of a
\* new session.
Fork == /\ dpc = "pty_fork"
        /\ \/ dpc' = "pty_parent" /\ UNCHANGED leader
           \/ dpc' = "pty_child" /\ leader' = TRUE
        /\ UNCHANGED <<tab, fdm, fdslave>>

\* ptys_open and close(fdm).
ptys_open == /\ dpc = "pty_child"
             /\ IsFree(tab)
             /\ fdslave' = LeastFree(tab)
             /\ tab' = [Opened(tab, "slave") EXCEPT ![fdm] = "none"]
             /\ dpc' = "pty_dup"
             /\ UNCHANGED <<fdm, leader>>

\* A faulty variant, used as a mutant: the slave's descriptor is always closed.
pty_dupCloses == /\ dpc = "pty_dup"
                 /\ tab' = [f \in Fd |-> IF f = fdslave THEN "none"
                                         ELSE IF f <= 2 THEN "slave" ELSE tab[f]]
                 /\ dpc' = "pty_done"
                 /\ UNCHANGED <<fdm, fdslave, leader>>

\* The three dup2, and close(fds) unless it is one of the three.
pty_dup == /\ dpc = "pty_dup"
           /\ tab' = [f \in Fd |-> IF f <= 2 THEN "slave" ELSE IF f = fdslave THEN "none" ELSE tab[f]]
           /\ dpc' = "pty_done"
           /\ UNCHANGED <<fdm, fdslave, leader>>
-----------------------------------------------------------------------------
(* daemonize *)

\* fork and setsid: the child goes on as a session leader.
Detach == /\ dpc = "daemonize"
          /\ leader' = TRUE
          /\ dpc' = "forked"
          /\ UNCHANGED <<tab, fdm, fdslave>>

\* SIGHUP is ignored, and the child of a second fork goes on; all descriptors
\* below the limit are closed.
CloseAll == /\ dpc = "forked"
            /\ leader' = FALSE
            /\ tab' = [f \in Fd |-> IF f < CloseLimit THEN "none" ELSE tab[f]]
            /\ dpc' = "reopen"
            /\ UNCHANGED <<fdm, fdslave>>

\* open("/dev/null") and dup(0) twice, each of which takes the least free one; the
\* process ends unless they are 0, 1 and 2.
Reopen == /\ dpc = "reopen"
          /\ IsFree(tab)
          /\ LET t1 == Opened(tab, "null")
                 t2 == Opened(t1, t1[0])
             IN  /\ tab' = Opened(t2, t2[0])
                 /\ dpc' = IF /\ LeastFree(tab) = 0 /\ LeastFree(t1) = 1 /\ LeastFree(t2) = 2
                           THEN "daemon" ELSE "ended"
          /\ UNCHANGED <<fdm, fdslave, leader>>

Next == ptym_open \/ Fork \/ ptys_open \/ pty_dup \/ Detach \/ CloseAll \/ Reopen \/ Fails

Spec == Init /\ [][Next]_dvars
-----------------------------------------------------------------------------
\* Whatever was open before, the child of pty_fork has the slave as descriptors 0,
\* 1 and 2 and nothing else of the terminal, and a daemon has the null device there,
\* nothing else below the limit, and cannot get a controlling terminal.
StandardFilesRight ==
    /\ dpc = "pty_done" => \A f \in Fd : IF f <= 2 THEN tab[f] = "slave"
                                         ELSE tab[f] \notin {"master", "slave"}
    /\ dpc = "daemon" => /\ ~leader
                         /\ \A f \in Fd : /\ f <= 2 => tab[f] = "null"
                                          /\ 2 < f /\ f < CloseLimit => tab[f] = "none"
=============================================================================
