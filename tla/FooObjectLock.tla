---------------------------- MODULE FooObjectLock ----------------------------
(***************************************************************************)
(* threads/mutex2.c: f_count is protected by the object's f_lock, the      *)
(* lists by hashlock, and hashlock is always taken first, for which        *)
(* foo_rele gives up f_lock and looks at the count again.                  *)
(***************************************************************************)
EXTENDS FooTable

foo_hold(t) == \/ LockObj(t, "h_lock", "h_incr")
               \/ Incr(t, "h_incr", "h_unlock")
               \/ UnlockObj(t, "h_unlock", "idle")

\* foo_find calls foo_hold while it has hashlock.
foo_find(t) == \/ LockHash(t, "f_hlock", "f_look")
               \/ Look(t, "f_lock", "f_hunlock")
               \/ LockObj(t, "f_lock", "f_incr")
               \/ Incr(t, "f_incr", "f_unlock")
               \/ UnlockObj(t, "f_unlock", "f_hunlock")
               \/ UnlockHash(t, "f_hunlock", "idle")

\* if (fp->f_count == 1)
Test(t) == /\ pc[t] = "r_test"
           /\ Goto(t, IF f_count[fp[t]] = 1 THEN "r_again" ELSE "r_decr")
           /\ UNCHANGED <<fh, hashlock, memory, f_lock, held>>

\* A faulty variant of Recheck, used as a mutant: the count is not looked at again.
RecheckSkipped(t) == /\ pc[t] = "r_recheck"
                     /\ Goto(t, "r_unlink")
                     /\ UNCHANGED <<fh, hashlock, memory, f_lock, held>>

\* "need to recheck the condition"
Recheck(t) == /\ pc[t] = "r_recheck"
              /\ Goto(t, IF f_count[fp[t]] # 1 THEN "r_decrHash" ELSE "r_unlink")
              /\ UNCHANGED <<fh, hashlock, memory, f_lock, held>>

\* A faulty variant of foo_rele, used as a mutant: f_lock is kept while hashlock is
\* taken.
foo_releKeepsLock(t) == \/ LockObj(t, "r_lock", "r_test")
                        \/ Test(t)
                        \/ Decr(t, "r_decr", "r_unlock")
                        \/ UnlockObj(t, "r_unlock", "idle")
                        \/ LockHash(t, "r_again", "r_unlink")
                        \/ Unlink(t, "r_hunlock")
                        \/ UnlockHash(t, "r_hunlock", "r_funlock")
                        \/ UnlockObj(t, "r_funlock", "r_free")
                        \/ Free(t)

foo_rele(t) == \/ LockObj(t, "r_lock", "r_test")
               \/ Test(t)
               \/ Decr(t, "r_decr", "r_unlock")
               \/ UnlockObj(t, "r_unlock", "idle")
               \/ UnlockObj(t, "r_again", "r_hlock")
               \/ LockHash(t, "r_hlock", "r_flock")
               \/ LockObj(t, "r_flock", "r_recheck")
               \/ Recheck(t)
               \/ Decr(t, "r_decrHash", "r_unlockHash")
               \/ UnlockObj(t, "r_unlockHash", "r_return")
               \/ UnlockHash(t, "r_return", "idle")
               \/ Unlink(t, "r_hunlock")
               \/ UnlockHash(t, "r_hunlock", "r_funlock")
               \/ UnlockObj(t, "r_funlock", "r_free")
               \/ Free(t)

Step(t) == foo_alloc(t) \/ foo_hold(t) \/ foo_find(t) \/ foo_rele(t)

Next == \E t \in Threads : Calls(t) \/ Step(t)

Spec == Init /\ [][Next]_vars
-----------------------------------------------------------------------------
\* Whoever has a reference from foo_find, or from the allocator's return, has an
\* object whose initialisation is over, although foo_alloc publishes it before:
\* foo_find waits for the f_lock that foo_alloc holds meanwhile.
FoundReady == \A r \in Refs, t \in Threads, o \in Objs :
                  held[r] = <<t, o>> /\ pc[t] = "idle" => mem[o] = "ready"
=============================================================================
