----------------------------- MODULE FooHashLock -----------------------------
(***************************************************************************)
(* threads/mutex3.c: the lists and the counts are protected by hashlock,   *)
(* and f_lock only protects the other fields of an object.                 *)
(***************************************************************************)
EXTENDS FooTable

foo_hold(t) == \/ LockHash(t, "h_lock", "h_incr")
               \/ Incr(t, "h_incr", "h_unlock")
               \/ UnlockHash(t, "h_unlock", "idle")

\* A faulty variant of foo_find, used as a mutant: the count goes up after the
\* unlock.
foo_findIncrLate(t) == \/ LockHash(t, "f_hlock", "f_look")
                       \/ Look(t, "f_unlock", "f_hunlock")
                       \/ UnlockHash(t, "f_unlock", "f_incr")
                       \/ Incr(t, "f_incr", "idle")
                       \/ UnlockHash(t, "f_hunlock", "idle")

foo_find(t) == \/ LockHash(t, "f_hlock", "f_look")
               \/ Look(t, "f_incr", "f_hunlock")
               \/ Incr(t, "f_incr", "f_hunlock")
               \/ UnlockHash(t, "f_hunlock", "idle")

\* if (--fp->f_count == 0)
DecrLast(t) == /\ pc[t] = "r_decr"
               /\ f_count[fp[t]] = 1
               /\ f_count' = [f_count EXCEPT ![fp[t]] = 0]
               /\ Goto(t, "r_unlink")
               /\ UNCHANGED <<fh, hashlock, mem, f_id, f_lock, held>>

DecrOther(t) == /\ pc[t] = "r_decr"
                /\ f_count[fp[t]] # 1
                /\ Decr(t, "r_decr", "r_unlock")

foo_rele(t) == \/ LockHash(t, "r_lock", "r_decr")
               \/ DecrLast(t)
               \/ DecrOther(t)
               \/ UnlockHash(t, "r_unlock", "idle")
               \/ Unlink(t, "r_hunlock")
               \/ UnlockHash(t, "r_hunlock", "r_free")
               \/ Free(t)

Step(t) == foo_alloc(t) \/ foo_hold(t) \/ foo_find(t) \/ foo_rele(t)

Next == \E t \in Threads : Calls(t) \/ Step(t)

Spec == Init /\ [][Next]_vars
=============================================================================
