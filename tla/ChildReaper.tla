------------------------------ MODULE ChildReaper ------------------------------
(***************************************************************************)
(* The parents of fork/sig2.cpp (a SIGCHLD handler that reaps one child),  *)
(* fork/sig.cpp (SIGCHLD ignored after the fork) and fork/noSig.cpp        *)
(* (wait(NULL)), and the children they create.                             *)
(***************************************************************************)
EXTENDS Naturals

CONSTANT N   \* the children sig2.cpp creates

VARIABLES prog,    \* which of the programs runs
          child,   \* "none", "running", "zombie" or "gone"
          chld,    \* whether a SIGCHLD is pending
          chldact, \* the action of SIGCHLD
          next,    \* the next child to create
          rpc

rvars == <<prog, child, chld, chldact, next, rpc>>

Progs == {"sig2", "sig", "noSig"}
Kids == 1..N

Init == /\ prog \in Progs
        /\ child = [i \in Kids |-> "none"]
        /\ chld = FALSE
        /\ chldact = "default"
        /\ next = 1
        /\ rpc = IF prog = "sig2" THEN "install" ELSE "fork"

Install == /\ rpc = "install"
           /\ chldact' = "handler"
           /\ rpc' = "fork"
           /\ UNCHANGED <<prog, child, chld, next>>

\* sig2.cpp does not test for a failure of fork; the others end.
Fork == /\ rpc = "fork"
        /\ \/ child' = [child EXCEPT ![next] = "running"]
              /\ rpc' = IF prog = "sig" THEN "ignore" ELSE IF prog = "noSig" THEN "wait"
                        ELSE IF next < N THEN "fork" ELSE "relax"
           \/ /\ UNCHANGED child
              /\ rpc' = IF prog # "sig2" THEN "exit" ELSE IF next < N THEN "fork" ELSE "relax"
        /\ next' = next + 1
        /\ UNCHANGED <<prog, chld, chldact>>

Ignore == /\ rpc = "ignore"
          /\ chldact' = "ignore"
          /\ rpc' = "exit"
          /\ UNCHANGED <<prog, child, chld, next>>

\* A child's last line: it stays a zombie until it is waited for, unless SIGCHLD
\* is ignored by then.
Exit(i) == /\ child[i] = "running"
           /\ child' = [child EXCEPT ![i] = IF chldact = "ignore" \/ rpc = "exit" THEN "gone"
                                            ELSE "zombie"]
           /\ chld' = (chldact = "handler")
           /\ UNCHANGED <<prog, chldact, next, rpc>>

Zombies == {i \in Kids : child[i] = "zombie"}

\* The signal interrupts the loops of main; it is blocked while my_handler runs,
\* and one that is pending absorbs others.
Deliver == /\ chld /\ rpc \in {"fork", "relax"}
           /\ chld' = FALSE
           /\ rpc' = IF rpc = "fork" THEN "handler_fork" ELSE "handler_relax"
           /\ UNCHANGED <<prog, child, chldact, next>>

\* A faulty variant, used as a mutant: the handler waits for all its children.
my_handlerAll == /\ rpc \in {"handler_fork", "handler_relax"}
                 /\ IF Zombies # {}
                    THEN (\E i \in Zombies : child' = [child EXCEPT ![i] = "gone"]) /\ UNCHANGED rpc
                    ELSE /\ \A i \in Kids : child[i] # "running"
                         /\ rpc' = IF rpc = "handler_fork" THEN "fork" ELSE "relax"
                         /\ UNCHANGED child
                 /\ UNCHANGED <<prog, chld, chldact, next>>

\* wait(0) takes one child that has ended, and waits when there is none.
my_handler == /\ rpc \in {"handler_fork", "handler_relax"}
              /\ \E i \in Zombies : child' = [child EXCEPT ![i] = "gone"]
              /\ rpc' = IF rpc = "handler_fork" THEN "fork" ELSE "relax"
              /\ UNCHANGED <<prog, chld, chldact, next>>

\* wait(NULL) of noSig.cpp.
Wait == /\ rpc = "wait"
        /\ \E i \in Zombies : child' = [child EXCEPT ![i] = "gone"]
        /\ rpc' = "exit"
        /\ UNCHANGED <<prog, chld, chldact, next>>

Next == Install \/ Fork \/ Ignore \/ (\E i \in Kids : Exit(i)) \/ Deliver \/ my_handler \/ Wait

Spec == Init /\ [][Next]_rvars
-----------------------------------------------------------------------------
\* my_handler never blocks in wait(0), and so never keeps main from its loop, even
\* when signals merge and one wait takes the child another signal was for.
ReaperNeverBlocks == rpc \in {"handler_fork", "handler_relax"} => Zombies # {}
=============================================================================
