------------------------------- MODULE FooTable -------------------------------
(***************************************************************************)
(* What threads/mutex2.c and threads/mutex3.c have in common: the hash     *)
(* table of counted objects, its locks, foo_alloc (the same text in both   *)
(* files) and what the clients do with references.  FooObjectLock and      *)
(* FooHashLock add foo_hold, foo_find and foo_rele of the two files.       *)
(*                                                                         *)
(* A reference is given to a thread by foo_alloc, foo_find or foo_hold and *)
(* taken back by foo_rele.  Clients are well behaved: a thread calls       *)
(* foo_hold and foo_rele only for an object it has a reference to.         *)
(*                                                                         *)
(* pc[t] names the statement t executes next, "idle" outside the calls; its *)
(* first letter tells foo_alloc, foo_hold, foo_find and foo_rele apart.    *)
(***************************************************************************)
EXTENDS Counting, Sequences

CONSTANTS Threads, Objs, Ids, Refs,
          NHASH,
          NoThread, NoObj, NoRef, NoId

ASSUME NHASHAssumption == NHASH \in Nat \ {0}
ASSUME IdsAssumption == Ids \subseteq Nat /\ NoId \notin Ids
ASSUME FiniteAssumption == IsFiniteSet(Threads) /\ IsFiniteSet(Refs)
ASSUME NoneAssumption == /\ NoThread \notin Threads
                         /\ NoObj \notin Objs
                         /\ NoRef \notin Refs \cup (Threads \X Objs)

VARIABLES
    fh,        \* the list of each bucket, first object first
    hashlock,  \* the owner of the lock
    mem,       \* whether an object's memory is "free", "init" or "ready"
    f_count, f_lock, f_id,
    pc,
    fp,        \* the object each thread's call works on
    want,      \* the argument of each thread's foo_find
    ref,       \* the reference each thread's call gives or takes back
    held       \* the owner and the object of each reference

memory == <<mem, f_count, f_id>>
locals == <<fp, want, ref>>
vars == <<fh, hashlock, mem, f_count, f_lock, f_id, pc, fp, want, ref, held>>

HASH(id) == id % NHASH

Buckets == 0..(NHASH - 1)

\* The statements of the four functions, in both files.
Labels == {"idle",
           "a_hlock", "a_push", "a_flock", "a_hunlock", "a_init", "a_funlock",
           "h_lock", "h_incr", "h_unlock",
           "f_hlock", "f_look", "f_lock", "f_incr", "f_unlock", "f_hunlock",
           "r_lock", "r_test", "r_decr", "r_unlock", "r_again", "r_hlock", "r_flock",
           "r_recheck", "r_decrHash", "r_unlockHash", "r_return", "r_unlink",
           "r_hunlock", "r_funlock", "r_free"}

Init == /\ fh = [b \in Buckets |-> <<>>]
        /\ hashlock = NoThread
        /\ mem = [o \in Objs |-> "free"]
        /\ f_count = [o \in Objs |-> 0]
        /\ f_lock = [o \in Objs |-> NoThread]
        /\ f_id = [o \in Objs |-> NoId]
        /\ pc = [t \in Threads |-> "idle"]
        /\ fp = [t \in Threads |-> NoObj]
        /\ want = [t \in Threads |-> NoId]
        /\ ref = [t \in Threads |-> NoRef]
        /\ held = [r \in Refs |-> NoRef]

\* A call that returns forgets its local variables.
Goto(t, there) ==
    /\ pc' = [pc EXCEPT ![t] = there]
    /\ IF there = "idle" THEN /\ fp' = [fp EXCEPT ![t] = NoObj]
                              /\ want' = [want EXCEPT ![t] = NoId]
                              /\ ref' = [ref EXCEPT ![t] = NoRef]
       ELSE UNCHANGED locals
-----------------------------------------------------------------------------
(* The two kinds of lock *)
LockHash(t, from, to) == /\ pc[t] = from
                         /\ hashlock = NoThread
                         /\ hashlock' = t
                         /\ Goto(t, to)
                         /\ UNCHANGED <<fh, memory, f_lock, held>>

UnlockHash(t, from, to) == /\ pc[t] = from
                           /\ hashlock' = NoThread
                           /\ Goto(t, to)
                           /\ UNCHANGED <<fh, memory, f_lock, held>>

LockObj(t, from, to) == /\ pc[t] = from
                        /\ f_lock[fp[t]] = NoThread
                        /\ f_lock' = [f_lock EXCEPT ![fp[t]] = t]
                        /\ Goto(t, to)
                        /\ UNCHANGED <<fh, hashlock, memory, held>>

UnlockObj(t, from, to) == /\ pc[t] = from
                          /\ f_lock' = [f_lock EXCEPT ![fp[t]] = NoThread]
                          /\ Goto(t, to)
                          /\ UNCHANGED <<fh, hashlock, memory, held>>
-----------------------------------------------------------------------------
(* The calls *)

\* A reference that neither exists nor is about to.
Spare(r) == held[r] = NoRef /\ \A t \in Threads : ref[t] # r

\* A call of t that will give it the reference r.
Call(t, r, o, id, there) == /\ pc[t] = "idle"
                            /\ pc' = [pc EXCEPT ![t] = there]
                            /\ fp' = [fp EXCEPT ![t] = o]
                            /\ want' = [want EXCEPT ![t] = id]
                            /\ ref' = [ref EXCEPT ![t] = r]
                            /\ UNCHANGED <<fh, hashlock, f_lock, held>>

NewRef == CHOOSE r \in Refs : Spare(r)

\* malloc and the initialisation of the fields before the object is published;
\* when malloc or pthread_mutex_init fails, foo_alloc returns NULL and nothing
\* has changed.
CallAlloc(t) == \E o \in Objs, id \in Ids :
                    /\ \E r \in Refs : Spare(r)
                    /\ mem[o] = "free"
                    /\ Call(t, NewRef, o, NoId, "a_hlock")
                    /\ mem' = [mem EXCEPT ![o] = "init"]
                    /\ f_count' = [f_count EXCEPT ![o] = 1]
                    /\ f_id' = [f_id EXCEPT ![o] = id]

CallHold(t) == \E mine \in Refs, o \in Objs :
                   /\ \E r \in Refs : Spare(r)
                   /\ held[mine] = <<t, o>>
                   /\ Call(t, NewRef, o, NoId, "h_lock")
                   /\ UNCHANGED memory

CallFind(t) == \E id \in Ids :
                   /\ \E r \in Refs : Spare(r)
                   /\ Call(t, NewRef, NoObj, id, "f_hlock")
                   /\ UNCHANGED memory

CallRele(t) == \E r \in Refs, o \in Objs :
                   /\ held[r] = <<t, o>>
                   /\ Call(t, r, o, NoId, "r_lock")
                   /\ UNCHANGED memory

\* A client passes a reference that it is not just giving back to another thread.
Give(t, u) == \E r \in Refs, o \in Objs :
                  /\ pc[t] = "idle"
                  /\ held[r] = <<t, o>>
                  /\ held' = [held EXCEPT ![r] = <<u, o>>]
                  /\ UNCHANGED <<fh, hashlock, memory, f_lock, pc, locals>>
-----------------------------------------------------------------------------
(* Steps on the data *)

\* fp->f_next = fh[idx]; fh[idx] = fp.  From here on others find the object.
Push(t) == /\ pc[t] = "a_push"
           /\ fh' = [fh EXCEPT ![HASH(f_id[fp[t]])] = <<fp[t]>> \o @]
           /\ held' = [held EXCEPT ![ref[t]] = <<t, fp[t]>>]
           /\ Goto(t, "a_flock")
           /\ UNCHANGED <<hashlock, memory, f_lock>>

\* "... continue initialization ..."
Initialise(t) == /\ pc[t] = "a_init"
                 /\ mem' = [mem EXCEPT ![fp[t]] = "ready"]
                 /\ Goto(t, "a_funlock")
                 /\ UNCHANGED <<fh, hashlock, f_count, f_id, f_lock, held>>

\* A faulty variant of foo_alloc, used as a mutant: f_lock is not taken for the
\* rest of the initialisation.
foo_allocNoLock(t) == \/ LockHash(t, "a_hlock", "a_push")
                      \/ Push(t)
                      \/ UnlockHash(t, "a_flock", "a_init")
                      \/ Initialise(t)
                      \/ pc[t] = "a_funlock" /\ Goto(t, "idle")
                            /\ UNCHANGED <<fh, hashlock, memory, f_lock, held>>

foo_alloc(t) == \/ LockHash(t, "a_hlock", "a_push")
                \/ Push(t)
                \/ LockObj(t, "a_flock", "a_hunlock")
                \/ UnlockHash(t, "a_hunlock", "a_init")
                \/ Initialise(t)
                \/ UnlockObj(t, "a_funlock", "idle")

\* The search of a bucket for the first object with the identifier.
Look(t, found, missing) ==
    LET list == fh[HASH(want[t])]
        at == {k \in 1..Len(list) : f_id[list[k]] = want[t]}
    IN  /\ pc[t] = "f_look"
        /\ IF at = {}
           THEN Goto(t, missing)
           ELSE \E k \in at : /\ \A j \in at : k <= j
                              /\ fp' = [fp EXCEPT ![t] = list[k]]
                              /\ pc' = [pc EXCEPT ![t] = found]
                              /\ UNCHANGED <<want, ref>>
        /\ UNCHANGED <<fh, hashlock, memory, f_lock, held>>

\* fp->f_count++, which gives the caller its reference.
Incr(t, from, to) == /\ pc[t] = from
                     /\ f_count' = [f_count EXCEPT ![fp[t]] = @ + 1]
                     /\ held' = [held EXCEPT ![ref[t]] = <<t, fp[t]>>]
                     /\ Goto(t, to)
                     /\ UNCHANGED <<fh, hashlock, mem, f_id, f_lock>>

\* fp->f_count-- for a reference that is not the last.
Decr(t, from, to) == /\ pc[t] = from
                     /\ f_count' = [f_count EXCEPT ![fp[t]] = @ - 1]
                     /\ held' = [held EXCEPT ![ref[t]] = NoRef]
                     /\ Goto(t, to)
                     /\ UNCHANGED <<fh, hashlock, mem, f_id, f_lock>>

\* The object is taken out of its bucket's list, where the code expects it.
Unlink(t, to) ==
    LET list == fh[HASH(f_id[fp[t]])]
    IN  /\ pc[t] = "r_unlink"
        /\ \E k \in 1..Len(list) :
              /\ list[k] = fp[t]
              /\ fh' = [fh EXCEPT ![HASH(f_id[fp[t]])] =
                          SubSeq(list, 1, k - 1) \o SubSeq(list, k + 1, Len(list))]
        /\ held' = [held EXCEPT ![ref[t]] = NoRef]
        /\ Goto(t, to)
        /\ UNCHANGED <<hashlock, memory, f_lock>>

\* pthread_mutex_destroy and free.
Free(t) == /\ pc[t] = "r_free"
           /\ mem' = [mem EXCEPT ![fp[t]] = "free"]
           /\ f_count' = [f_count EXCEPT ![fp[t]] = 0]
           /\ f_id' = [f_id EXCEPT ![fp[t]] = NoId]
           /\ f_lock' = [f_lock EXCEPT ![fp[t]] = NoThread]
           /\ Goto(t, "idle")
           /\ UNCHANGED <<fh, hashlock, held>>

Calls(t) == \/ CallAlloc(t) \/ CallHold(t) \/ CallFind(t) \/ CallRele(t)
            \/ \E u \in Threads \ {t} : Give(t, u)
-----------------------------------------------------------------------------
\* Type invariant.
TypeOK == /\ fh \in [Buckets -> Seq(Objs)]
          /\ hashlock \in Threads \cup {NoThread}
          /\ mem \in [Objs -> {"free", "init", "ready"}]
          /\ f_count \in [Objs -> Nat]
          /\ f_lock \in [Objs -> Threads \cup {NoThread}]
          /\ f_id \in [Objs -> Ids \cup {NoId}]
          /\ pc \in [Threads -> Labels]
          /\ fp \in [Threads -> Objs \cup {NoObj}]
          /\ want \in [Threads -> Ids \cup {NoId}]
          /\ ref \in [Threads -> Refs \cup {NoRef}]
          /\ held \in [Refs -> (Threads \X Objs) \cup {NoRef}]

\* The objects that can be found.
Listed == UNION {{fh[b][k] : k \in 1..Len(fh[b])} : b \in Buckets}

\* Freed memory is not touched: the object a call works on, every object a search
\* can come by and every object somebody has a reference to is allocated, however
\* foo_rele and foo_find of the same object overlap, and an object is freed once.
NoUseAfterFree ==
    /\ \A t \in Threads : fp[t] # NoObj => mem[fp[t]] # "free"
    /\ \A o \in Listed : mem[o] # "free"
    /\ \A r \in Refs, t \in Threads, o \in Objs : held[r] = <<t, o>> => mem[o] # "free"

\* The table as clients see it: an object is in it from the moment foo_alloc
\* publishes it to the moment foo_rele unlinks it.
Published == [o \in Objs |-> IF o \in Listed THEN f_id[o] ELSE NoId]

CO == INSTANCE CountedObjects WITH id <- Published

\* The counts are right: an object stays in the table exactly as long as there is
\* a reference to it, and each call takes effect at one moment.
IsCountedObjects == CO!Spec
=============================================================================
