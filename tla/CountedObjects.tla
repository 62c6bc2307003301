---------------------------- MODULE CountedObjects ----------------------------
(***************************************************************************)
(* What threads/mutex2.c and threads/mutex3.c promise their callers: a     *)
(* table of objects in which an object stays, with the identifier it was   *)
(* allocated for, as long as somebody has a reference to it, and is gone   *)
(* in the very step that gives the last one back.                          *)
(***************************************************************************)
CONSTANTS Threads, Objs, Ids,
          Refs,    \* the references that can exist at a time
          NoRef,   \* what a reference that does not exist refers to
          NoId     \* the identifier of an object that is not in the table

VARIABLES held,  \* the owner and the object of each reference
          id     \* the identifier of each object in the table

vars == <<held, id>>

Init == /\ held = [r \in Refs |-> NoRef]
        /\ id = [o \in Objs |-> NoId]

foo_alloc(t) == \E r \in Refs, o \in Objs, i \in Ids :
                    /\ held[r] = NoRef
                    /\ id[o] = NoId
                    /\ held' = [held EXCEPT ![r] = <<t, o>>]
                    /\ id' = [id EXCEPT ![o] = i]

foo_find(t) == \E r \in Refs, o \in Objs :
                   /\ held[r] = NoRef
                   /\ id[o] # NoId
                   /\ held' = [held EXCEPT ![r] = <<t, o>>]
                   /\ UNCHANGED id

foo_hold(t) == \E r, mine \in Refs, o \in Objs :
                   /\ held[r] = NoRef
                   /\ held[mine] = <<t, o>>
                   /\ held' = [held EXCEPT ![r] = <<t, o>>]
                   /\ UNCHANGED id

foo_rele(t) == \E r \in Refs, o \in Objs :
                   /\ held[r] = <<t, o>>
                   /\ held' = [held EXCEPT ![r] = NoRef]
                   /\ id' = IF \E s \in Refs \ {r}, u \in Threads : held[s] = <<u, o>>
                            THEN id ELSE [id EXCEPT ![o] = NoId]

\* A thread passes a reference on.
Give == \E r \in Refs, t, u \in Threads, o \in Objs :
            /\ held[r] = <<t, o>>
            /\ held' = [held EXCEPT ![r] = <<u, o>>]
            /\ UNCHANGED id

Next == \/ \E t \in Threads : foo_alloc(t) \/ foo_find(t) \/ foo_hold(t) \/ foo_rele(t)
        \/ Give

Spec == Init /\ [][Next]_vars
=============================================================================
