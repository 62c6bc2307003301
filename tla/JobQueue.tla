------------------------------- MODULE JobQueue -------------------------------
(***************************************************************************)
(* threads/rwlock.c: a doubly linked list of jobs under a reader-writer    *)
(* lock.  Its callers are threads that add jobs for one another and that   *)
(* look for, find and remove the jobs with their own j_id; a job that was  *)
(* removed is added again later.                                           *)
(***************************************************************************)
EXTENDS Naturals, Sequences, FiniteSets

CONSTANTS Threads, Jobs,
          NULL

VARIABLES q_head, q_tail, j_next, j_prev, j_id,
          writer, readers,  \* q_lock
          jpc,              \* the statement each thread executes next
          jp                \* the job each thread's call works on

jvars == <<q_head, q_tail, j_next, j_prev, j_id, writer, readers, jpc, jp>>
list == <<q_head, q_tail, j_next, j_prev>>

\* queue_init; when it fails there is no queue.
queue_init == q_head = NULL /\ q_tail = NULL /\ writer = NULL /\ readers = {}

Init == /\ queue_init
        /\ j_next = [j \in Jobs |-> NULL]
        /\ j_prev = [j \in Jobs |-> NULL]
        /\ j_id = [j \in Jobs |-> NULL]
        /\ jpc = [t \in Threads |-> "idle"]
        /\ jp = [t \in Threads |-> NULL]

Goto(t, from, to) == jpc[t] \in from /\ jpc' = [jpc EXCEPT ![t] = to]

\* The jobs that are in the list or in somebody's hands.
Owned == {j \in Jobs : j_id[j] # NULL}

\* A thread has a job for the thread id to add at one of the ends.
Submit(t) == \E j \in Jobs \ Owned, id \in Threads, to \in {"insert", "append"} :
                 /\ Goto(t, {"idle"}, to)
                 /\ jp' = [jp EXCEPT ![t] = j]
                 /\ j_id' = [j_id EXCEPT ![j] = id]
                 /\ UNCHANGED <<list, writer, readers>>
-----------------------------------------------------------------------------
(* pthread_rwlock: one writer or any number of readers *)
wrlock(t, to) == /\ writer = NULL /\ readers = {}
                 /\ writer' = t
                 /\ jpc' = [jpc EXCEPT ![t] = to]
                 /\ UNCHANGED <<list, j_id, readers, jp>>

WriterLocks(t) == \/ jpc[t] = "insert" /\ wrlock(t, "insert_locked")
                  \/ jpc[t] = "append" /\ wrlock(t, "append_locked")
                  \/ jpc[t] = "remove" /\ wrlock(t, "remove_locked")

\* Write s[x] = v for the field of a job.
Set(f, x, v) == [f EXCEPT ![x] = v]

\* A faulty variant, used as a mutant: the new head does not lead to the old one.
job_insertUnlinked(t) ==
    /\ Goto(t, {"insert_locked"}, "unlock")
    /\ IF q_head # NULL
       THEN j_prev' = Set(Set(j_prev, jp[t], NULL), q_head, jp[t]) /\ UNCHANGED q_tail
       ELSE j_prev' = Set(j_prev, jp[t], NULL) /\ q_tail' = jp[t]
    /\ q_head' = jp[t]
    /\ UNCHANGED <<j_next, j_id, writer, readers, jp>>

\* The statements between the lock and the unlock, which no other thread sees
\* half done.
job_insert(t) ==
    /\ Goto(t, {"insert_locked"}, "unlock")
    /\ j_next' = Set(j_next, jp[t], q_head)
    /\ IF q_head # NULL
       THEN j_prev' = Set(Set(j_prev, jp[t], NULL), q_head, jp[t]) /\ UNCHANGED q_tail
       ELSE j_prev' = Set(j_prev, jp[t], NULL) /\ q_tail' = jp[t]
    /\ q_head' = jp[t]
    /\ UNCHANGED <<j_id, writer, readers, jp>>

job_append(t) ==
    /\ Goto(t, {"append_locked"}, "unlock")
    /\ j_prev' = Set(j_prev, jp[t], q_tail)
    /\ IF q_tail # NULL
       THEN j_next' = Set(Set(j_next, jp[t], NULL), q_tail, jp[t]) /\ UNCHANGED q_head
       ELSE j_next' = Set(j_next, jp[t], NULL) /\ q_head' = jp[t]
    /\ q_tail' = jp[t]
    /\ UNCHANGED <<j_id, writer, readers, jp>>

RemoveHead(j) == /\ j = q_head
                 /\ q_head' = j_next[j]
                 /\ \/ q_tail = j /\ q_tail' = NULL /\ UNCHANGED j_prev
                    \/ q_tail # j /\ j_prev' = Set(j_prev, j_next[j], j_prev[j]) /\ UNCHANGED q_tail
                 /\ UNCHANGED j_next

RemoveTail(j) == /\ j # q_head /\ j = q_tail
                 /\ q_tail' = j_prev[j]
                 /\ j_next' = Set(j_next, j_prev[j], j_next[j])
                 /\ UNCHANGED <<q_head, j_prev>>

RemoveMiddle(j) == /\ j # q_head /\ j # q_tail
                   /\ j_next' = Set(j_next, j_prev[j], j_next[j])
                   /\ j_prev' = Set(j_prev, j_next[j], j_prev[j])
                   /\ UNCHANGED <<q_head, q_tail>>

\* After job_remove the thread does the job, and the job can be added again.
job_remove(t) == /\ Goto(t, {"remove_locked"}, "unlock")
                 /\ RemoveHead(jp[t]) \/ RemoveTail(jp[t]) \/ RemoveMiddle(jp[t])
                 /\ j_id' = Set(j_id, jp[t], NULL)
                 /\ UNCHANGED <<writer, readers, jp>>

WriterUnlocks(t) == /\ Goto(t, {"unlock"}, "idle")
                    /\ writer' = NULL
                    /\ jp' = Set(jp, t, NULL)
                    /\ UNCHANGED <<list, j_id, readers>>
-----------------------------------------------------------------------------
(* job_find *)

\* pthread_rwlock_rdlock, after which the search starts at the head.
FindLock(t) == /\ Goto(t, {"idle"}, "walk")
               /\ writer = NULL
               /\ readers' = readers \cup {t}
               /\ jp' = Set(jp, t, q_head)
               /\ UNCHANGED <<list, j_id, writer>>

\* The lock is refused and job_find returns NULL.
FindRefused(t) == Goto(t, {"idle"}, "idle") /\ UNCHANGED <<list, j_id, writer, readers, jp>>

FindNext(t) == /\ Goto(t, {"walk"}, "walk")
               /\ jp[t] # NULL /\ j_id[jp[t]] # t
               /\ jp' = Set(jp, t, j_next[jp[t]])
               /\ UNCHANGED <<list, j_id, writer, readers>>

\* A faulty variant, used as a mutant: any job will do.
FindDoneAny(t) == /\ Goto(t, {"walk"}, IF jp[t] = NULL THEN "idle" ELSE "found")
                  /\ readers' = readers \ {t}
                  /\ UNCHANGED <<list, j_id, writer, jp>>

\* The unlock and the return of the job, or of NULL at the end of the list.
FindDone(t) == /\ jp[t] # NULL => j_id[jp[t]] = t
               /\ Goto(t, {"walk"}, IF jp[t] = NULL THEN "idle" ELSE "found")
               /\ readers' = readers \ {t}
               /\ UNCHANGED <<list, j_id, writer, jp>>

job_find(t) == FindLock(t) \/ FindRefused(t) \/ FindNext(t) \/ FindDone(t)

\* The thread goes on to remove the job it found.
CallRemove(t) == /\ Goto(t, {"found"}, "remove")
                 /\ UNCHANGED <<list, j_id, writer, readers, jp>>

Next == \E t \in Threads :
            \/ Submit(t) \/ WriterLocks(t) \/ job_insert(t) \/ job_append(t) \/ job_remove(t)
            \/ WriterUnlocks(t) \/ job_find(t) \/ CallRemove(t)

Spec == Init /\ [][Next]_jvars
-----------------------------------------------------------------------------
\* The jobs of s are those met from start on along a field, up to NULL.
Path(field, start, s) ==
    /\ start = IF s = <<>> THEN NULL ELSE s[1]
    /\ \A k \in 1..Len(s) : field[s[k]] = IF k < Len(s) THEN s[k + 1] ELSE NULL

Along(field, start) ==
    CHOOSE s \in UNION {[1..n -> Jobs] : n \in 0..Cardinality(Jobs)} : Path(field, start, s)

Seqs == INSTANCE JobSequence WITH jobs <- Along(j_next, q_head)

\* The list is the sequence of its jobs, however adding at both ends and removing
\* from the head, the tail and the middle follow one another.
IsJobSequence == Seqs!Spec

\* What job_find returned without a lock is still in the list when the caller
\* removes it: the pointer read under the read lock is good after it.
FoundStillQueued ==
    \A t \in Threads : jpc[t] \in {"found", "remove", "remove_locked"} =>
        \E k \in 1..Len(Along(j_next, q_head)) : Along(j_next, q_head)[k] = jp[t]
=============================================================================
