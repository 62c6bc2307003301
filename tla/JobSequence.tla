------------------------------ MODULE JobSequence ------------------------------
(***************************************************************************)
(* What threads/rwlock.c promises: a sequence of jobs to which a job is    *)
(* added at either end and from which any job is removed.                  *)
(***************************************************************************)
EXTENDS Naturals, Sequences

CONSTANT Jobs
VARIABLE jobs

Init == jobs = <<>>

In(j) == \E k \in 1..Len(jobs) : jobs[k] = j

job_insert(j) == ~In(j) /\ jobs' = <<j>> \o jobs
job_append(j) == ~In(j) /\ jobs' = Append(jobs, j)
job_remove(j) == \E k \in 1..Len(jobs) :
                     jobs[k] = j /\ jobs' = SubSeq(jobs, 1, k - 1) \o SubSeq(jobs, k + 1, Len(jobs))

Next == \E j \in Jobs : job_insert(j) \/ job_append(j) \/ job_remove(j)

Spec == Init /\ [][Next]_jobs
=============================================================================
