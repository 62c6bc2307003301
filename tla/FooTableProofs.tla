---------------------------- MODULE FooTableProofs ----------------------------
(***************************************************************************)
(* The table of counted objects, with either of the two ways of locking,   *)
(* for any threads, objects, identifiers and references: freed memory is   *)
(* not touched, and the table implements the one its callers are promised. *)
(***************************************************************************)
EXTENDS MCFooTable, CountingProofs, SequenceTheorems

Mutex2 == which = "mutex2"

\* The statements of a thread, by what it knows of the object it works on: that it
\* creates it and nobody knows it, ...
Creating == {"a_hlock", "a_push"}
\* ... that it has a reference of its own besides the one it is about to get, ...
Sharing == {"h_lock", "h_incr"}
\* ... that it has found it in the table, ...
Finding == {"f_lock", "f_incr"}
\* ... that it has the reference the call is about, ...
Owning == {"a_flock", "a_hunlock", "a_init", "a_funlock", "h_unlock", "f_unlock",
           "r_lock", "r_test", "r_decr", "r_again", "r_hlock", "r_flock", "r_recheck",
           "r_decrHash", "r_unlink"}
\* ... that it has given it back and others have references, ...
Leaving == {"r_unlock", "r_unlockHash", "r_return"}
\* ... or that it has taken it out of the table.
Freeing == {"r_hunlock", "r_funlock", "r_free"}

Searching == {"f_hlock", "f_look"}
Decrementing == {"r_decr", "r_decrHash"}
WithObject == Creating \cup Sharing \cup Finding \cup Owning \cup Leaving \cup Freeing

\* The object is not yet initialised.
Fresh == {"a_hlock", "a_push", "a_flock", "a_hunlock", "a_init"}

\* The statements of mutex3.c; mutex2.c has all.
Pcs == IF Mutex2 THEN {"idle", "f_hlock", "f_look", "f_hunlock"} \cup Creating \cup Sharing \cup Finding
                      \cup Owning \cup Leaving \cup Freeing
       ELSE {"idle", "a_hlock", "a_push", "a_flock", "a_hunlock", "a_init", "a_funlock",
             "h_lock", "h_incr", "h_unlock", "f_hlock", "f_look", "f_incr", "f_hunlock",
             "r_lock", "r_decr", "r_unlock", "r_unlink", "r_hunlock", "r_free"}

\* Where a thread has hashlock.
Hashing == {"a_push", "a_flock", "a_hunlock", "f_look", "f_incr", "f_hunlock", "r_unlink", "r_hunlock"}
           \cup IF Mutex2 THEN {"f_lock", "f_unlock", "r_flock", "r_recheck", "r_decrHash",
                                "r_unlockHash", "r_return"}
                ELSE {"h_incr", "h_unlock", "r_decr", "r_unlock"}

\* Where it has the f_lock of its object.
Locking == {"a_hunlock", "a_init", "a_funlock"}
           \cup IF Mutex2 THEN {"h_incr", "h_unlock", "f_incr", "f_unlock", "r_test", "r_decr",
                                "r_unlock", "r_again", "r_recheck", "r_decrHash", "r_unlockHash",
                                "r_unlink", "r_hunlock", "r_funlock"}
                ELSE {}

To(o) == Threads \X {o}

\* What a thread may rely on, at the statement it is at: its locks, ...
LocksOK(t) ==
    /\ pc[t] \in Pcs
    /\ pc[t] \in Hashing => hashlock = t
    /\ pc[t] \in Locking => f_lock[fp[t]] = t

\* ... its references, ...
RefsOK(t) ==
    /\ pc[t] = "idle" => fp[t] = NoObj /\ ref[t] = NoRef
    /\ pc[t] # "idle" => ref[t] \in Refs
    /\ pc[t] \in Searching => fp[t] = NoObj /\ want[t] \in Ids /\ held[ref[t]] = NoRef
    /\ pc[t] = "f_hunlock" => \/ fp[t] = NoObj /\ held[ref[t]] = NoRef
                              \/ fp[t] \in Objs /\ held[ref[t]] = <<t, fp[t]>>
    /\ pc[t] \in WithObject => fp[t] \in Objs
    /\ pc[t] \in Creating \cup Sharing \cup Finding \cup Leaving \cup Freeing => held[ref[t]] = NoRef
    /\ pc[t] \in Owning => held[ref[t]] = <<t, fp[t]>>
    /\ pc[t] \in Sharing => \E r \in Refs : held[r] = <<t, fp[t]>>

\* ... and its object.
ObjectOK(t) ==
    /\ pc[t] \in Finding \cup Leaving => fp[t] \in Listed
    /\ pc[t] \in Creating \cup Freeing => /\ fp[t] \notin Listed
                                          /\ mem[fp[t]] # "free"
                                          /\ \A u \in Threads \ {t} : fp[u] # fp[t]
    /\ pc[t] \in Creating => f_count[fp[t]] = 1
    /\ pc[t] \in Fresh => mem[fp[t]] = "init"
    /\ pc[t] = "r_unlink" => \A r \in Refs \ {ref[t]} : held[r] \notin To(fp[t])
    /\ Mutex2 /\ pc[t] \in Decrementing => f_count[fp[t]] # 1

ThreadOK(t) == LocksOK(t) /\ RefsOK(t) /\ ObjectOK(t)

\* A list has the objects that hash to its bucket, each once.
Lists == \A b \in Buckets :
             /\ \A k \in 1..Len(fh[b]) : HASH(f_id[fh[b][k]]) = b
             /\ \A j, k \in 1..Len(fh[b]) : fh[b][j] = fh[b][k] => j = k

\* An object in the table is allocated, a reference is to an object in the table, and
\* the counts are right unless the last reference is being given back.
Objects == /\ \A o \in Listed : mem[o] # "free"
           /\ \A o \in Objs : mem[o] # "free" => f_id[o] \in Ids
           /\ \A r \in Refs : held[r] # NoRef => held[r][2] \in Listed
           /\ \A o \in Listed : \/ f_count[o] = HowMany(held, To(o))
                                \/ \E t \in Threads : pc[t] = "r_unlink" /\ fp[t] = o

\* Nobody but its creator has an object that is not initialised, with mutex2.c.
Creators == \A o \in Objs : mem[o] = "init" =>
                /\ \E t \in Threads : fp[t] = o /\ pc[t] \in Fresh
                /\ Mutex2 => \A r \in Refs, u \in Threads : held[r] = <<u, o>> => fp[u] = o /\ pc[u] \in Fresh

\* Calls have references of their own, and create objects of their own.
CallsApart == \A t, u \in Threads : t # u =>
                  /\ ref[t] = ref[u] => ref[t] = NoRef
                  /\ pc[t] \in Fresh /\ pc[u] \in Fresh => fp[t] # fp[u]

IInv == /\ TypeOK
        /\ \A t \in Threads : ThreadOK(t)
        /\ Lists
        /\ Objects
        /\ Creators
        /\ CallsApart

\* The places at which a thread has a lock are those of the program that is linked in.
LEMMA SameWhich ==
    ASSUME which' = which
    PROVE  Pcs' = Pcs /\ Hashing' = Hashing /\ Locking' = Locking /\ Mutex2' = Mutex2
BY DEF Pcs, Hashing, Locking, Mutex2

\* A thread that has an object or searches for one is inside a call.
LEMMA NotIdle ==
    /\ "idle" \notin Searching \cup Creating \cup Sharing \cup Finding \cup Owning \cup Leaving \cup Freeing
    /\ "f_hunlock" # "idle"
BY DEF Searching, Creating, Sharing, Finding, Owning, Leaving, Freeing

\* What a step of t must leave alone for another thread to be as it was.
LEMMA OtherThread ==
    ASSUME NEW t \in Threads, NEW u \in Threads, u # t, ThreadOK(u), which' = which,
           \A v \in Threads \ {t} : fp'[v] = fp[v],
           pc'[u] = pc[u], ref'[u] = ref[u], want'[u] = want[u],
           hashlock = u => hashlock' = u,
           pc[u] \in Locking => f_lock'[fp[u]] = u,
           ref[u] \in Refs => held'[ref[u]] = held[ref[u]],
           pc[u] \in Sharing =>
               \A r \in Refs : held[r] = <<u, fp[u]>> => held'[r] = <<u, fp[u]>>,
           pc[u] \in Finding \cup Leaving => fp[u] \in Listed',
           pc[u] \in Creating \cup Freeing => /\ fp[u] \notin Listed' /\ mem'[fp[u]] # "free"
                                              /\ fp'[t] # fp[u],
           pc[u] \in Creating => f_count'[fp[u]] = 1,
           pc[u] \in Fresh => mem'[fp[u]] = "init",
           pc[u] = "r_unlink" => \A r \in Refs \ {ref[u]} : held'[r] \notin To(fp[u]),
           Mutex2 /\ pc[u] \in Decrementing => f_count'[fp[u]] # 1
    PROVE  ThreadOK(u)'
<1>1. Pcs' = Pcs /\ Hashing' = Hashing /\ Locking' = Locking /\ Mutex2' = Mutex2
  BY SameWhich
<1>2. fp'[u] = fp[u]
  OBVIOUS
<1>3. LocksOK(u)'
  BY <1>1, <1>2 DEF ThreadOK, LocksOK
<1>4. RefsOK(u)'
  BY <1>2, NotIdle DEF ThreadOK, RefsOK
<1>5. ObjectOK(u)'
  BY <1>1, <1>2 DEF ThreadOK, ObjectOK
<1> QED  BY <1>3, <1>4, <1>5 DEF ThreadOK

\* Where a thread can be.
LEMMA Places ==
    ASSUME NEW p \in Pcs
    PROVE  p \in {"idle", "f_hunlock"} \cup Searching \cup WithObject
<1>1. CASE Mutex2  BY <1>1 DEF Pcs, Searching, WithObject
<1>2. CASE ~Mutex2
  BY <1>2 DEF Pcs, Searching, WithObject, Creating, Sharing, Finding, Owning, Leaving, Freeing
<1> QED  BY <1>1, <1>2

\* A thread with an f_lock has an object.
LEMMA LockingPlaces ==
    Locking \subseteq WithObject
BY DEF Locking, WithObject, Creating, Sharing, Finding, Owning, Leaving, Freeing

\* An object that is not yet initialised is being created.
LEMMA FreshPlaces ==
    Fresh \subseteq Creating \cup Owning /\ "idle" \notin Fresh /\ "r_unlink" \notin Fresh
BY DEF Fresh, Creating, Owning

\* Every thread inside a call has its reference, and owns what the reference is to.
LEMMA RefOwner ==
    ASSUME IInv, NEW u \in Threads
    PROVE  /\ pc[u] = "idle" => ref[u] = NoRef /\ fp[u] = NoObj
           /\ pc[u] # "idle" => ref[u] \in Refs /\ ref[u] # NoRef
           /\ ref[u] \in Refs => held[ref[u]] = NoRef \/ held[ref[u]] = <<u, fp[u]>>
<1>1. ThreadOK(u) /\ NoRef \notin Refs
  BY NoneAssumption DEF IInv
<1>2. pc[u] \in {"idle", "f_hunlock"} \cup Searching \cup WithObject
  BY <1>1, Places DEF ThreadOK, LocksOK
<1> QED  BY <1>1, <1>2 DEF ThreadOK, RefsOK, WithObject

\* The object of a call is in the table, or only this call knows it.
LEMMA ObjectOwner ==
    ASSUME IInv, NEW u \in Threads, fp[u] # NoObj
    PROVE  /\ fp[u] \in Objs
           /\ mem[fp[u]] # "free"
           /\ pc[u] \notin Creating \cup Freeing => fp[u] \in Listed
<1>1. ThreadOK(u) /\ Objects
  BY DEF IInv
<1>2. pc[u] \in {"idle", "f_hunlock"} \cup Searching \cup WithObject
  BY <1>1, Places DEF ThreadOK, LocksOK
<1>3. fp[u] \in Objs
  BY <1>1, <1>2 DEF ThreadOK, RefsOK
<1>4. \A r \in Refs : held[r] = <<u, fp[u]>> => fp[u] \in Listed
  <2> SUFFICES ASSUME NEW r \in Refs, held[r] = <<u, fp[u]>>
               PROVE  fp[u] \in Listed
    OBVIOUS
  <2>1. held[r] # NoRef  BY <1>3, NoneAssumption
  <2> QED  BY <1>1, <2>1 DEF Objects
<1>5. pc[u] # "idle" => ref[u] \in Refs
  BY RefOwner
<1>6. pc[u] \notin Creating \cup Freeing => fp[u] \in Listed
  BY <1>1, <1>2, <1>4, <1>5, NotIdle DEF ThreadOK, RefsOK, ObjectOK, WithObject
<1> QED  BY <1>1, <1>3, <1>6 DEF ThreadOK, ObjectOK, Objects

\* Goto changes the locals of t only, and keeps the types.
LEMMA GotoEffect ==
    ASSUME TypeOK, NEW t \in Threads, NEW to \in Labels, Goto(t, to)
    PROVE  /\ pc'[t] = to
           /\ to # "idle" => fp'[t] = fp[t] /\ want'[t] = want[t] /\ ref'[t] = ref[t]
           /\ to = "idle" => fp'[t] = NoObj /\ want'[t] = NoId /\ ref'[t] = NoRef
           /\ \A u \in Threads \ {t} : /\ pc'[u] = pc[u] /\ fp'[u] = fp[u]
                                       /\ want'[u] = want[u] /\ ref'[u] = ref[u]
           /\ pc' \in [Threads -> Labels]
           /\ fp' \in [Threads -> Objs \cup {NoObj}]
           /\ want' \in [Threads -> Ids \cup {NoId}]
           /\ ref' \in [Threads -> Refs \cup {NoRef}]
<1>1. CASE to = "idle"
  BY <1>1 DEF TypeOK, Goto
<1>2. CASE to # "idle"
  BY <1>2 DEF TypeOK, Goto, locals
<1> QED  BY <1>1, <1>2

\* The references and the new objects of calls stay apart when a call goes on or returns.
LEMMA GotoCallsApart ==
    ASSUME TypeOK, CallsApart, NEW t \in Threads, NEW to \in Labels, Goto(t, to),
           to \in Fresh => pc[t] \in Fresh
    PROVE  CallsApart'
<1>1. \A u \in Threads : ref'[u] = ref[u] \/ ref'[u] = NoRef
  BY GotoEffect
<1>2. \A u \in Threads : pc'[u] \in Fresh => pc[u] \in Fresh /\ fp'[u] = fp[u]
  BY GotoEffect, FreshPlaces
<1> QED  BY <1>1, <1>2 DEF CallsApart

\* A step that only changes locks, and where t is.
LEMMA ControlStep ==
    ASSUME IInv, NEW t \in Threads, NEW to \in Labels, Goto(t, to),
           UNCHANGED <<fh, memory, held, which>>,
           hashlock' \in Threads \cup {NoThread}, f_lock' \in [Objs -> Threads \cup {NoThread}],
           \A u \in Threads \ {t} : /\ hashlock = u => hashlock' = u
                                    /\ \A o \in Objs : f_lock[o] = u => f_lock'[o] = u,
           pc[t] # "r_unlink", pc[t] \in Fresh <=> to \in Fresh,
           ThreadOK(t)'
    PROVE  IInv'
<1> USE DEF memory
<1>1. TypeOK /\ Lists /\ Objects /\ Creators /\ CallsApart /\ \A u \in Threads : ThreadOK(u)
  BY DEF IInv
<1>2. TypeOK'
  BY <1>1, GotoEffect DEF TypeOK
<1>3. Listed' = Listed /\ Mutex2' = Mutex2
  BY DEF Listed, Mutex2
<1>4. ASSUME NEW u \in Threads, u # t
      PROVE  ThreadOK(u)'
  <2>1. ThreadOK(u) /\ (pc[u] \in WithObject => fp[u] \in Objs)
    BY <1>1 DEF ThreadOK, RefsOK
  <2>2. pc[u] \in Locking => f_lock[fp[u]] = u /\ fp[u] \in Objs
    BY <2>1, LockingPlaces DEF ThreadOK, LocksOK
  <2>3. pc[u] \in Creating \cup Freeing => fp'[t] # fp[u]
    <3>1. fp'[t] \in {NoObj, fp[t]}  BY <1>1, GotoEffect
    <3>2. pc[u] \in Creating \cup Freeing => fp[u] \in Objs /\ fp[t] # fp[u]
      BY <2>1, <1>4 DEF WithObject, ThreadOK, ObjectOK
    <3> QED  BY <3>1, <3>2, NoneAssumption
  <2>4. /\ \A v \in Threads \ {t} : fp'[v] = fp[v]
        /\ pc'[u] = pc[u] /\ ref'[u] = ref[u] /\ want'[u] = want[u]
    BY <1>1, <1>4, GotoEffect
  <2>5. /\ pc[u] \in Finding \cup Leaving => fp[u] \in Listed
        /\ pc[u] \in Creating \cup Freeing => fp[u] \notin Listed /\ mem[fp[u]] # "free"
        /\ pc[u] \in Creating => f_count[fp[u]] = 1
        /\ pc[u] \in Fresh => mem[fp[u]] = "init"
        /\ pc[u] = "r_unlink" => \A r \in Refs \ {ref[u]} : held[r] \notin To(fp[u])
        /\ Mutex2 /\ pc[u] \in Decrementing => f_count[fp[u]] # 1
    BY <2>1 DEF ThreadOK, ObjectOK
  <2> QED  BY <1>3, <1>4, <2>1, <2>2, <2>3, <2>4, <2>5, OtherThread, SMTT(30)
<1>5. Lists'
  BY <1>1 DEF Lists
<1>6. ASSUME NEW u \in Threads, pc[u] = "r_unlink"
      PROVE  pc'[u] = "r_unlink" /\ fp'[u] = fp[u]
  BY <1>1, <1>6, GotoEffect
<1>7. Objects'
  BY <1>1, <1>3, <1>6 DEF Objects
<1>8. ASSUME NEW u \in Threads, pc[u] \in Fresh
      PROVE  pc'[u] \in Fresh /\ fp'[u] = fp[u]
  BY <1>1, <1>8, GotoEffect, FreshPlaces
<1>9. Creators'
  BY <1>1, <1>3, <1>8 DEF Creators
<1>10. CallsApart'
  BY <1>1, GotoCallsApart
<1> QED  BY <1>2, <1>4, <1>5, <1>7, <1>9, <1>10 DEF IInv

\* Going from one statement to another keeps what a thread knows of its object.
Kept(from, to) ==
    /\ to \in Pcs
    /\ from \notin {"idle", "r_unlink"}
    /\ to \in Creating => from \in Creating
    /\ to \in Sharing => from \in Sharing
    /\ to \in Finding => from \in Finding
    /\ to \in Owning => from \in Owning
    /\ to \in Leaving => from \in Leaving
    /\ to \in Freeing => from \in Freeing
    /\ to \in Fresh <=> from \in Fresh
    /\ to \in Searching => from \in Searching
    /\ to = "f_hunlock" => from \in Owning \cup Searching

\* The statements between which a thread may take or release the locks.
LocksHash(from, to) == /\ to \in Labels /\ Kept(from, to)
                       /\ to \in Locking => from \in Locking
                       /\ to # "r_unlink" /\ (Mutex2 => to \notin Decrementing)

UnlocksHash(from, to) == from \in Hashing /\ to \notin Hashing /\ LocksHash(from, to)

LocksObj(from, to) == /\ from \in WithObject /\ to \in Labels /\ Kept(from, to)
                      /\ to \in Hashing => from \in Hashing
                      /\ to # "r_unlink" /\ (Mutex2 => to \notin Decrementing)

UnlocksObj(from, to) == from \in Locking /\ to \notin Locking /\ LocksObj(from, to)

\* The thread that takes a step which only changes locks.
LEMMA ControlThread ==
    ASSUME IInv, NEW t \in Threads, NEW to \in Labels, Goto(t, to),
           UNCHANGED <<fh, memory, held, which>>,
           Kept(pc[t], to),
           to \in Hashing => hashlock' = t,
           to \in Locking => f_lock'[fp[t]] = t,
           to = "r_unlink" => \A r \in Refs \ {ref[t]} : held[r] \notin To(fp[t]),
           Mutex2 /\ to \in Decrementing => f_count[fp[t]] # 1
    PROVE  ThreadOK(t)'
<1> USE DEF memory
<1>1. TypeOK /\ ThreadOK(t)
  BY DEF IInv
<1>2. Pcs' = Pcs /\ Hashing' = Hashing /\ Locking' = Locking /\ Mutex2' = Mutex2
  BY SameWhich
<1>3. Listed' = Listed
  BY DEF Listed
<1>4. pc'[t] = to /\ \A u \in Threads \ {t} : fp'[u] = fp[u]
  BY <1>1, GotoEffect
<1>5. pc[t] # "idle" /\ to \in Pcs
  BY DEF Kept
<1>6. CASE to = "idle"
  <2>1. fp'[t] = NoObj /\ ref'[t] = NoRef
    BY <1>1, <1>6, GotoEffect
  <2>2. /\ to \notin Hashing /\ to \notin Locking /\ to \notin Fresh /\ to \notin Decrementing
        /\ to # "f_hunlock" /\ to # "r_unlink" /\ to \notin WithObject
    BY <1>6, NotIdle, LockingPlaces, FreshPlaces DEF WithObject, Hashing, Decrementing
  <2>3. LocksOK(t)'
    BY <1>2, <1>4, <1>5, <2>2 DEF LocksOK
  <2>4. RefsOK(t)'
    BY <1>4, <1>6, <2>1, <2>2, NotIdle DEF RefsOK, WithObject
  <2>5. ObjectOK(t)'
    BY <1>4, <2>2 DEF ObjectOK, WithObject
  <2> QED  BY <2>3, <2>4, <2>5 DEF ThreadOK
<1>7. CASE to # "idle"
  <2>1. fp'[t] = fp[t] /\ ref'[t] = ref[t] /\ want'[t] = want[t]
    BY <1>1, <1>7, GotoEffect
  <2>2. LocksOK(t)'
    BY <1>2, <1>4, <1>5, <2>1 DEF LocksOK
  <2>3. RefsOK(t)'
    BY <1>1, <1>4, <1>5, <1>7, <2>1 DEF RefsOK, ThreadOK, WithObject, Kept
  <2>4. ObjectOK(t)'
    BY <1>1, <1>2, <1>3, <1>4, <2>1 DEF ObjectOK, ThreadOK, Kept
  <2> QED  BY <2>2, <2>3, <2>4 DEF ThreadOK
<1> QED  BY <1>6, <1>7

\* pthread_mutex_lock(&hashlock)
LEMMA LockHashStep ==
    ASSUME IInv, NEW t \in Threads, NEW from, NEW to, LockHash(t, from, to),
           which' = which, LocksHash(from, to)
    PROVE  IInv'
<1> USE DEF LocksHash
<1>1. TypeOK /\ ThreadOK(t) /\ pc[t] = from
  BY DEF IInv, LockHash
<1>2. to \in Locking => f_lock'[fp[t]] = t
  BY <1>1 DEF LockHash, ThreadOK, LocksOK
<1>3. ThreadOK(t)'
  BY <1>1, <1>2, ControlThread DEF LockHash
<1>4. /\ hashlock' \in Threads \cup {NoThread} /\ f_lock' \in [Objs -> Threads \cup {NoThread}]
      /\ \A u \in Threads \ {t} : /\ hashlock = u => hashlock' = u
                                  /\ \A o \in Objs : f_lock[o] = u => f_lock'[o] = u
  BY <1>1, NoneAssumption DEF TypeOK, LockHash
<1>5. pc[t] # "r_unlink" /\ (pc[t] \in Fresh <=> to \in Fresh)
  BY <1>1 DEF Kept
<1> QED  BY <1>3, <1>4, <1>5, ControlStep DEF LockHash

\* pthread_mutex_unlock(&hashlock)
LEMMA UnlockHashStep ==
    ASSUME IInv, NEW t \in Threads, NEW from, NEW to, UnlockHash(t, from, to),
           which' = which, UnlocksHash(from, to)
    PROVE  IInv'
<1> USE DEF UnlocksHash, LocksHash
<1>1. TypeOK /\ ThreadOK(t) /\ pc[t] = from
  BY DEF IInv, UnlockHash
<1>2. hashlock = t /\ (to \in Locking => f_lock'[fp[t]] = t)
  BY <1>1 DEF UnlockHash, ThreadOK, LocksOK
<1>3. ThreadOK(t)'
  BY <1>1, <1>2, ControlThread DEF UnlockHash
<1>4. /\ hashlock' \in Threads \cup {NoThread} /\ f_lock' \in [Objs -> Threads \cup {NoThread}]
      /\ \A u \in Threads \ {t} : /\ hashlock = u => hashlock' = u
                                  /\ \A o \in Objs : f_lock[o] = u => f_lock'[o] = u
  BY <1>1, <1>2 DEF TypeOK, UnlockHash
<1>5. pc[t] # "r_unlink" /\ (pc[t] \in Fresh <=> to \in Fresh)
  BY <1>1 DEF Kept
<1> QED  BY <1>3, <1>4, <1>5, ControlStep DEF UnlockHash

\* pthread_mutex_lock(&fp->f_lock)
LEMMA LockObjStep ==
    ASSUME IInv, NEW t \in Threads, NEW from, NEW to, LockObj(t, from, to),
           which' = which, LocksObj(from, to)
    PROVE  IInv'
<1> USE DEF LocksObj
<1>1. TypeOK /\ ThreadOK(t) /\ pc[t] = from
  BY DEF IInv, LockObj
<1>2. fp[t] \in Objs /\ (to \in Hashing => hashlock' = t)
  BY <1>1 DEF LockObj, ThreadOK, LocksOK, RefsOK
<1>3. f_lock'[fp[t]] = t
  BY <1>1, <1>2 DEF LockObj, TypeOK
<1>4. ThreadOK(t)'
  BY <1>1, <1>2, <1>3, ControlThread DEF LockObj
<1>5. /\ hashlock' \in Threads \cup {NoThread} /\ f_lock' \in [Objs -> Threads \cup {NoThread}]
      /\ \A u \in Threads \ {t} : /\ hashlock = u => hashlock' = u
                                  /\ \A o \in Objs : f_lock[o] = u => f_lock'[o] = u
  BY <1>1, <1>2, NoneAssumption DEF TypeOK, LockObj
<1>6. pc[t] # "r_unlink" /\ (pc[t] \in Fresh <=> to \in Fresh)
  BY <1>1 DEF Kept
<1> QED  BY <1>4, <1>5, <1>6, ControlStep DEF LockObj

\* pthread_mutex_unlock(&fp->f_lock)
LEMMA UnlockObjStep ==
    ASSUME IInv, NEW t \in Threads, NEW from, NEW to, UnlockObj(t, from, to),
           which' = which, UnlocksObj(from, to)
    PROVE  IInv'
<1> USE DEF UnlocksObj, LocksObj
<1>1. TypeOK /\ ThreadOK(t) /\ pc[t] = from
  BY DEF IInv, UnlockObj
<1>2. fp[t] \in Objs /\ f_lock[fp[t]] = t /\ (to \in Hashing => hashlock' = t)
  BY <1>1, LockingPlaces DEF UnlockObj, ThreadOK, LocksOK, RefsOK
<1>3. ThreadOK(t)'
  BY <1>1, <1>2, ControlThread DEF UnlockObj
<1>4. /\ hashlock' \in Threads \cup {NoThread} /\ f_lock' \in [Objs -> Threads \cup {NoThread}]
      /\ \A u \in Threads \ {t} : /\ hashlock = u => hashlock' = u
                                  /\ \A o \in Objs : f_lock[o] = u => f_lock'[o] = u
  BY <1>1, <1>2 DEF TypeOK, UnlockObj
<1>5. pc[t] # "r_unlink" /\ (pc[t] \in Fresh <=> to \in Fresh)
  BY <1>1 DEF Kept
<1> QED  BY <1>3, <1>4, <1>5, ControlStep DEF UnlockObj

-----------------------------------------------------------------------------
(* The lists and the counts *)

\* An object is listed where some list has it.
LEMMA ListedAt ==
    \A o : o \in Listed <=> \E b \in Buckets : \E k \in 1..Len(fh[b]) : fh[b][k] = o
BY DEF Listed

\* The same after a step.
LEMMA ListedNext ==
    \A o : o \in Listed' <=> \E b \in Buckets : \E k \in 1..Len(fh'[b]) : fh'[b][k] = o
BY DEF Listed

\* The lists are made of objects.
LEMMA ListedObjs ==
    ASSUME TypeOK
    PROVE  Listed \subseteq Objs
<1> SUFFICES ASSUME NEW o \in Listed
             PROVE  o \in Objs
  OBVIOUS
<1>1. PICK b \in Buckets : \E k \in 1..Len(fh[b]) : fh[b][k] = o
  BY ListedAt
<1>2. fh[b] \in Seq(Objs)
  BY DEF TypeOK
<1> QED  BY <1>1, <1>2

\* The bucket of an identifier exists.
LEMMA HashInRange ==
    ASSUME NEW id \in Ids
    PROVE  HASH(id) \in Buckets
BY IdsAssumption, NHASHAssumption DEF HASH, Buckets

\* The references to an object are those with the object as their second half.
LEMMA ToObject ==
    ASSUME NEW o \in Objs
    PROVE  /\ NoRef \notin To(o)
           /\ \A t \in Threads, p \in Objs : <<t, p>> \in To(o) <=> p = o
BY NoneAssumption DEF To

\* What it does to the counts that one reference changes.
LEMMA CountMove ==
    ASSUME TypeOK, NEW r \in Refs, NEW v, held' = [held EXCEPT ![r] = v], NEW o \in Objs
    PROVE  /\ HowMany(held, To(o)) \in Nat
           /\ v \in To(o) /\ held[r] \in To(o) => HowMany(held', To(o)) = HowMany(held, To(o))
           /\ v \notin To(o) /\ held[r] \notin To(o) => HowMany(held', To(o)) = HowMany(held, To(o))
           /\ v \in To(o) /\ held[r] \notin To(o) => HowMany(held', To(o)) = HowMany(held, To(o)) + 1
           /\ v \notin To(o) /\ held[r] \in To(o) => HowMany(held', To(o)) = HowMany(held, To(o)) - 1
<1>1. DOMAIN held = Refs /\ IsFiniteSet(Refs)
  BY FiniteAssumption DEF TypeOK
<1>2. held' = Move(held, r, v)
  BY DEF Move
<1>3. HowMany(held, To(o)) \in Nat
  BY <1>1, HowManyNat
<1>4. /\ v \in To(o) /\ held[r] \in To(o) => HowMany(Move(held, r, v), To(o)) = HowMany(held, To(o))
      /\ v \notin To(o) /\ held[r] \notin To(o) => HowMany(Move(held, r, v), To(o)) = HowMany(held, To(o))
      /\ v \in To(o) /\ held[r] \notin To(o) => HowMany(Move(held, r, v), To(o)) = HowMany(held, To(o)) + 1
      /\ v \notin To(o) /\ held[r] \in To(o) => HowMany(Move(held, r, v), To(o)) = HowMany(held, To(o)) - 1
  BY <1>1, HowManyMove
<1> QED  BY <1>2, <1>3, <1>4

\* Two threads are never both where hashlock is held, nor both where the f_lock of
\* the same object is held.
LEMMA Exclusive ==
    ASSUME IInv, NEW t \in Threads, NEW u \in Threads, u # t
    PROVE  /\ ~(pc[t] \in Hashing /\ pc[u] \in Hashing)
           /\ ~(pc[t] \in Locking /\ pc[u] \in Locking /\ fp[t] = fp[u])
BY DEF IInv, ThreadOK, LocksOK

\* A count that nobody is about to leave is right.
LEMMA CountRight ==
    ASSUME IInv, NEW o \in Listed, \A u \in Threads : pc[u] = "r_unlink" => fp[u] # o
    PROVE  f_count[o] = HowMany(held, To(o))
BY DEF IInv, Objects

\* A count of one belongs to one reference.
LEMMA LastReference ==
    ASSUME TypeOK, NEW o \in Objs, HowMany(held, To(o)) = 1, NEW s \in Refs, held[s] \in To(o)
    PROVE  \A r \in Refs \ {s} : held[r] \notin To(o)
<1> SUFFICES ASSUME NEW r \in Refs, r # s, held[r] \in To(o)
             PROVE  FALSE
  OBVIOUS
<1>1. DOMAIN held = Refs /\ IsFiniteSet(Refs)
  BY FiniteAssumption DEF TypeOK
<1>2. HowMany(held, To(o)) > 1
  BY <1>1, HowManyTwo
<1> QED  BY <1>2

-----------------------------------------------------------------------------
(* The steps on a count *)

\* Where a thread uses the count of its object.
UsingCount == {"h_incr", "f_incr", "r_test", "r_recheck", "r_decr", "r_decrHash"}

\* The thread that uses a count is the only one.
LEMMA CountLocked ==
    ASSUME IInv, NEW t \in Threads, pc[t] \in UsingCount, NEW u \in Threads, u # t,
           pc[u] = "r_unlink" \/ (Mutex2 /\ pc[u] \in Decrementing)
    PROVE  fp[u] # fp[t]
<1>1. pc[t] \in Pcs
  BY DEF IInv, ThreadOK, LocksOK
<1>2. CASE Mutex2
  BY <1>2, Exclusive DEF UsingCount, Decrementing, Locking
<1>3. CASE ~Mutex2
  BY <1>1, <1>3, Exclusive DEF UsingCount, Hashing, Pcs
<1> QED  BY <1>2, <1>3

\* The object whose count is used is in the table, and the count is right.
LEMMA CountUsed ==
    ASSUME IInv, NEW t \in Threads, pc[t] \in UsingCount
    PROVE  /\ fp[t] \in Listed /\ fp[t] \in Objs
           /\ f_count[fp[t]] = HowMany(held, To(fp[t]))
<1>1. pc[t] \in WithObject /\ pc[t] \notin Creating \cup Freeing /\ pc[t] # "r_unlink"
  BY DEF UsingCount, WithObject, Creating, Sharing, Finding, Owning, Leaving, Freeing
<1>2. fp[t] \in Objs
  BY <1>1 DEF IInv, ThreadOK, RefsOK
<1>3. fp[t] \in Listed
  BY <1>1, <1>2, ObjectOwner, NoneAssumption
<1>4. \A u \in Threads : pc[u] = "r_unlink" => fp[u] # fp[t]
  BY <1>1, CountLocked
<1> QED  BY <1>2, <1>3, <1>4, CountRight

\* if (fp->f_count == 1)
LEMMA TestStep ==
    ASSUME IInv, NEW t \in Threads, M2!Test(t), which' = which, Mutex2
    PROVE  IInv'
<1>1. PICK to \in {"r_again", "r_decr"} :
         /\ Goto(t, to) /\ (to = "r_decr" => f_count[fp[t]] # 1)
         /\ pc[t] = "r_test" /\ UNCHANGED <<fh, memory, held, which>>
         /\ hashlock' = hashlock /\ f_lock' = f_lock
  <2>1. CASE f_count[fp[t]] = 1
    BY <2>1 DEF M2!Test, M2!Goto, Goto, M2!locals, locals, M2!memory, memory
  <2>2. CASE f_count[fp[t]] # 1
    BY <2>2 DEF M2!Test, M2!Goto, Goto, M2!locals, locals, M2!memory, memory
  <2> QED  BY <2>1, <2>2
<1>2. Kept("r_test", to)
  BY DEF Kept, Pcs, Creating, Sharing, Finding, Owning, Leaving, Freeing, Fresh, Searching
<1>3. to \in Labels /\ to \notin Hashing /\ to # "r_unlink" /\ "r_test" \in Locking
  BY DEF Labels, Hashing, Locking
<1>4. TypeOK /\ ThreadOK(t)
  BY DEF IInv
<1>5. f_lock'[fp[t]] = t /\ (to \in Decrementing => f_count[fp[t]] # 1)
  BY <1>1, <1>3, <1>4 DEF ThreadOK, LocksOK, Decrementing
<1>6. pc[t] # "r_unlink" /\ (pc[t] \in Fresh <=> to \in Fresh)
  BY <1>1, <1>2 DEF Kept
<1>7. ThreadOK(t)'
  BY <1>1, <1>2, <1>3, <1>5, ControlThread
<1> QED  BY <1>1, <1>3, <1>4, <1>6, <1>7, ControlStep DEF TypeOK

\* "need to recheck the condition"
LEMMA RecheckStep ==
    ASSUME IInv, NEW t \in Threads, M2!Recheck(t), which' = which, Mutex2
    PROVE  IInv'
<1>1. PICK to \in {"r_decrHash", "r_unlink"} :
         /\ Goto(t, to) /\ (to = "r_unlink" <=> f_count[fp[t]] = 1)
         /\ pc[t] = "r_recheck" /\ UNCHANGED <<fh, memory, held, which>>
         /\ hashlock' = hashlock /\ f_lock' = f_lock
  <2>1. CASE f_count[fp[t]] = 1
    BY <2>1 DEF M2!Recheck, M2!Goto, Goto, M2!locals, locals, M2!memory, memory
  <2>2. CASE f_count[fp[t]] # 1
    BY <2>2 DEF M2!Recheck, M2!Goto, Goto, M2!locals, locals, M2!memory, memory
  <2> QED  BY <2>1, <2>2
<1>2. Kept("r_recheck", to)
  BY DEF Kept, Pcs, Creating, Sharing, Finding, Owning, Leaving, Freeing, Fresh, Searching
<1>3. to \in Labels /\ "r_recheck" \in Hashing /\ "r_recheck" \in Locking
  BY DEF Labels, Hashing, Locking
<1>4. TypeOK /\ ThreadOK(t)
  BY DEF IInv
<1>5. hashlock' = t /\ f_lock'[fp[t]] = t /\ (to \in Decrementing => f_count[fp[t]] # 1)
  BY <1>1, <1>3, <1>4 DEF ThreadOK, LocksOK, Decrementing
<1>6. to = "r_unlink" => \A r \in Refs \ {ref[t]} : held[r] \notin To(fp[t])
  <2>1. f_count[fp[t]] = HowMany(held, To(fp[t])) /\ fp[t] \in Objs
    BY <1>1, CountUsed DEF UsingCount
  <2>2. ref[t] \in Refs /\ held[ref[t]] = <<t, fp[t]>>
    BY <1>1, <1>4 DEF ThreadOK, RefsOK, Owning
  <2>3. held[ref[t]] \in To(fp[t])
    BY <2>1, <2>2, ToObject
  <2> QED  BY <1>1, <1>4, <2>1, <2>2, <2>3, LastReference
<1>7. pc[t] # "r_unlink" /\ (pc[t] \in Fresh <=> to \in Fresh)
  BY <1>1, <1>2 DEF Kept
<1>8. ThreadOK(t)'
  BY <1>1, <1>2, <1>3, <1>5, <1>6, ControlThread
<1> QED  BY <1>1, <1>3, <1>4, <1>7, <1>8, ControlStep DEF TypeOK

\* fp->f_count++
LEMMA IncrStep ==
    ASSUME IInv, NEW t \in Threads, NEW from \in {"h_incr", "f_incr"},
           NEW to \in {"h_unlock", "f_unlock", "f_hunlock"}, Incr(t, from, to), which' = which,
           to \in Pcs,
           to \in Hashing => from \in Hashing,
           to \in Locking => from \in Locking
    PROVE  IInv'
<1> USE DEF memory
<1>1. TypeOK /\ Lists /\ Objects /\ Creators /\ CallsApart /\ \A u \in Threads : ThreadOK(u)
  BY DEF IInv
<1>2. /\ pc[t] = from /\ Goto(t, to) /\ UNCHANGED <<fh, hashlock, mem, f_id, f_lock, which>>
      /\ f_count' = [f_count EXCEPT ![fp[t]] = @ + 1]
      /\ held' = [held EXCEPT ![ref[t]] = <<t, fp[t]>>]
  BY DEF Incr
<1>3. /\ pc[t] \in UsingCount /\ pc[t] # "idle" /\ pc[t] \in Sharing \cup Finding /\ pc[t] # "r_unlink"
      /\ pc[t] \notin Fresh
      /\ to \in Labels /\ to # "idle" /\ to \in Owning \cup {"f_hunlock"}
      /\ to \notin Creating \cup Sharing \cup Finding \cup Leaving \cup Freeing \cup Searching
      /\ to \notin Fresh /\ to # "r_unlink" /\ to \notin Decrementing
  BY <1>2 DEF UsingCount, Labels, Owning, Creating, Sharing, Finding, Leaving, Freeing, Searching, Fresh,
              Decrementing
<1>4. /\ fp[t] \in Listed /\ fp[t] \in Objs /\ f_count[fp[t]] = HowMany(held, To(fp[t]))
      /\ ref[t] \in Refs /\ held[ref[t]] = NoRef
  BY <1>1, <1>3, CountUsed, RefOwner DEF ThreadOK, RefsOK
<1>5. /\ pc'[t] = to /\ fp'[t] = fp[t] /\ ref'[t] = ref[t] /\ want'[t] = want[t]
      /\ \A u \in Threads \ {t} : /\ pc'[u] = pc[u] /\ fp'[u] = fp[u]
                                  /\ want'[u] = want[u] /\ ref'[u] = ref[u]
  BY <1>1, <1>2, <1>3, GotoEffect
<1>6. /\ held'[ref[t]] = <<t, fp[t]>> /\ \A r \in Refs \ {ref[t]} : held'[r] = held[r]
      /\ f_count'[fp[t]] = f_count[fp[t]] + 1 /\ \A o \in Objs \ {fp[t]} : f_count'[o] = f_count[o]
      /\ \A r \in Refs : held[r] # NoRef => held'[r] = held[r]
  BY <1>1, <1>2, <1>4 DEF TypeOK
<1>7. TypeOK'
  <2>1. f_count[fp[t]] + 1 \in Nat  BY <1>1, <1>4 DEF TypeOK
  <2>2. f_count' \in [Objs -> Nat] /\ held' \in [Refs -> (Threads \X Objs) \cup {NoRef}]
    BY <1>1, <1>2, <1>4, <2>1 DEF TypeOK
  <2> QED  BY <1>1, <1>2, <1>3, <2>2, GotoEffect DEF TypeOK
<1>8. Listed' = Listed /\ Mutex2' = Mutex2 /\ Pcs' = Pcs /\ Hashing' = Hashing /\ Locking' = Locking
  BY <1>2, SameWhich DEF Listed
<1>9. ThreadOK(t)'
  <2>1. LocksOK(t)'
    BY <1>1, <1>2, <1>5, <1>8 DEF LocksOK, ThreadOK
  <2>2. RefsOK(t)'
    BY <1>3, <1>4, <1>5, <1>6 DEF RefsOK, WithObject
  <2>3. ObjectOK(t)'
    BY <1>3, <1>5, <1>8 DEF ObjectOK
  <2> QED  BY <2>1, <2>2, <2>3 DEF ThreadOK
<1>10. ASSUME NEW u \in Threads, u # t
       PROVE  ThreadOK(u)'
  <2>1. ThreadOK(u) /\ (pc[u] \in WithObject => fp[u] \in Objs)
    BY <1>1 DEF ThreadOK, RefsOK
  <2>2. /\ pc[u] \in Locking => f_lock'[fp[u]] = u
        /\ hashlock = u => hashlock' = u
    BY <1>2, <2>1 DEF ThreadOK, LocksOK
  <2>3. ref[u] \in Refs => held'[ref[u]] = held[ref[u]]
    BY <1>1, <1>4, <1>6, <1>10, NoneAssumption DEF CallsApart
  <2>4. pc[u] \in WithObject =>
            \A r \in Refs : held[r] = <<u, fp[u]>> => held'[r] = <<u, fp[u]>>
    BY <1>6, <2>1, NoneAssumption, SMTT(30)
  <2>5. pc[u] \in Creating \cup Freeing => fp[u] # fp[t] /\ fp[u] \notin Listed /\ mem[fp[u]] # "free"
    BY <1>4, <2>1 DEF ThreadOK, ObjectOK
  <2>6. pc[u] \in Creating => f_count'[fp[u]] = 1
    BY <1>6, <2>1, <2>5 DEF ThreadOK, ObjectOK, WithObject
  <2>7. pc[u] = "r_unlink" => \A r \in Refs \ {ref[u]} : held'[r] \notin To(fp[u])
    <3> SUFFICES ASSUME pc[u] = "r_unlink", NEW r \in Refs, r # ref[u]
                 PROVE  held'[r] \notin To(fp[u])
      OBVIOUS
    <3>1. fp[u] # fp[t] /\ fp[u] \in Objs
      BY <1>3, <1>10, <2>1, CountLocked DEF WithObject, Owning
    <3>2. held[r] \notin To(fp[u])
      BY <2>1 DEF ThreadOK, ObjectOK
    <3> QED  BY <1>4, <1>6, <3>1, <3>2 DEF To
  <2>8. Mutex2 /\ pc[u] \in Decrementing => f_count'[fp[u]] # 1
    <3>1. Decrementing \subseteq WithObject  BY DEF Decrementing, WithObject, Owning
    <3> QED  BY <1>3, <1>6, <1>10, <2>1, <3>1, CountLocked DEF ThreadOK, ObjectOK
  <2>9. /\ pc[u] \in Finding \cup Leaving => fp[u] \in Listed
        /\ pc[u] \in Fresh => mem[fp[u]] = "init"
    BY <2>1 DEF ThreadOK, ObjectOK
  <2> QED
    BY <1>2, <1>5, <1>8, <1>10, <2>1, <2>2, <2>3, <2>4, <2>5, <2>6, <2>7, <2>8, <2>9, OtherThread
       DEF WithObject
<1>11. Lists'
  BY <1>1, <1>2 DEF Lists
<1>12. Objects'
  <2>1. \A o \in Listed' : mem'[o] # "free"
    BY <1>1, <1>2, <1>8 DEF Objects
  <2>2. \A o \in Objs : mem'[o] # "free" => f_id'[o] \in Ids
    BY <1>1, <1>2 DEF Objects
  <2>3. \A r \in Refs : held'[r] # NoRef => held'[r][2] \in Listed'
    BY <1>1, <1>4, <1>6, <1>8 DEF Objects
  <2>4. ASSUME NEW o \in Listed
        PROVE  \/ f_count'[o] = HowMany(held', To(o))
               \/ \E u \in Threads : pc'[u] = "r_unlink" /\ fp'[u] = o
    <3>1. o \in Objs  BY <1>1, ListedObjs
    <3>2. CASE o = fp[t]
      <4>1. <<t, fp[t]>> \in To(o) /\ held[ref[t]] \notin To(o)
        BY <1>4, <3>2, ToObject
      <4>2. HowMany(held', To(o)) = HowMany(held, To(o)) + 1
        BY <1>1, <1>2, <1>4, <3>1, <4>1, CountMove
      <4> QED  BY <1>4, <1>6, <3>2, <4>2
    <3>3. CASE o # fp[t]
      <4>1. <<t, fp[t]>> \notin To(o) /\ held[ref[t]] \notin To(o)
        BY <1>4, <3>1, <3>3, ToObject
      <4>2. HowMany(held', To(o)) = HowMany(held, To(o))
        BY <1>1, <1>2, <1>4, <3>1, <4>1, CountMove
      <4>3. f_count'[o] = f_count[o]
        BY <1>6, <3>1, <3>3
      <4>4. CASE f_count[o] = HowMany(held, To(o))
        BY <4>2, <4>3, <4>4
      <4>5. CASE \E u \in Threads : pc[u] = "r_unlink" /\ fp[u] = o
        BY <1>3, <1>5, <4>5
      <4> QED  BY <1>1, <4>4, <4>5 DEF Objects
    <3> QED  BY <3>2, <3>3
  <2> QED  BY <1>8, <2>1, <2>2, <2>3, <2>4 DEF Objects
<1>13. Creators'
  <2>1. ASSUME Mutex2, mem[fp[t]] = "init"
        PROVE  FALSE
    <3>1. PICK c \in Threads : fp[c] = fp[t] /\ pc[c] \in Fresh
      BY <1>1, <1>4, <2>1 DEF Creators
    <3>2. c # t
      BY <1>3, <3>1
    <3>3. pc[c] \notin Creating
      BY <1>1, <1>4, <3>1 DEF ThreadOK, ObjectOK
    <3>4. pc[c] \notin Locking
      BY <1>2, <2>1, <3>1, <3>2, Exclusive DEF Locking
    <3>5. pc[c] = "a_flock"
      BY <3>1, <3>3, <3>4 DEF Fresh, Creating, Locking
    <3>6. pc[t] \notin Hashing
      BY <3>2, <3>5, Exclusive DEF Hashing
    <3>7. pc[t] \in Sharing
      BY <1>2, <3>6 DEF Hashing, Sharing
    <3>8. PICK r \in Refs : held[r] = <<t, fp[t]>>
      BY <1>1, <3>7 DEF ThreadOK, RefsOK
    <3>9. \A s \in Refs, v \in Threads : held[s] = <<v, fp[t]>> => pc[v] \in Fresh
      BY <1>1, <1>4, <2>1 DEF Creators
    <3> QED  BY <1>3, <3>8, <3>9
  <2> QED  BY <1>1, <1>2, <1>3, <1>4, <1>5, <1>6, <1>8, <2>1 DEF Creators
<1>14. CallsApart'
  BY <1>1, <1>2, <1>3, GotoCallsApart
<1> QED  BY <1>7, <1>9, <1>10, <1>11, <1>12, <1>13, <1>14 DEF IInv

\* fp->f_count-- when others have references.
LEMMA DecrStep ==
    ASSUME IInv, NEW t \in Threads, NEW from \in {"r_decr", "r_decrHash"},
           NEW to \in {"r_unlock", "r_unlockHash"}, Decr(t, from, to), which' = which,
           to \in Pcs, f_count[fp[t]] # 1,
           to \in Hashing => from \in Hashing,
           to \in Locking => from \in Locking
    PROVE  IInv'
<1> USE DEF memory
<1>1. TypeOK /\ Lists /\ Objects /\ Creators /\ CallsApart /\ \A u \in Threads : ThreadOK(u)
  BY DEF IInv
<1>2. /\ pc[t] = from /\ Goto(t, to) /\ UNCHANGED <<fh, hashlock, mem, f_id, f_lock, which>>
      /\ f_count' = [f_count EXCEPT ![fp[t]] = @ - 1]
      /\ held' = [held EXCEPT ![ref[t]] = NoRef]
  BY DEF Decr
<1>3. /\ pc[t] \in UsingCount /\ pc[t] # "idle" /\ pc[t] \in Owning /\ pc[t] # "r_unlink"
      /\ pc[t] \notin Fresh
      /\ to \in Labels /\ to # "idle" /\ to \in Leaving /\ to # "f_hunlock"
      /\ to \notin Creating \cup Sharing \cup Finding \cup Owning \cup Freeing \cup Searching
      /\ to \notin Fresh /\ to # "r_unlink" /\ to \notin Decrementing
  BY <1>2 DEF UsingCount, Labels, Owning, Creating, Sharing, Finding, Leaving, Freeing, Searching, Fresh,
              Decrementing
<1>4. /\ fp[t] \in Listed /\ fp[t] \in Objs /\ f_count[fp[t]] = HowMany(held, To(fp[t]))
      /\ ref[t] \in Refs /\ held[ref[t]] = <<t, fp[t]>>
  BY <1>1, <1>3, CountUsed, RefOwner DEF ThreadOK, RefsOK
<1>5. /\ pc'[t] = to /\ fp'[t] = fp[t] /\ ref'[t] = ref[t] /\ want'[t] = want[t]
      /\ \A u \in Threads \ {t} : /\ pc'[u] = pc[u] /\ fp'[u] = fp[u]
                                  /\ want'[u] = want[u] /\ ref'[u] = ref[u]
  BY <1>1, <1>2, <1>3, GotoEffect
<1>6. /\ held'[ref[t]] = NoRef /\ \A r \in Refs \ {ref[t]} : held'[r] = held[r]
      /\ f_count'[fp[t]] = f_count[fp[t]] - 1 /\ \A o \in Objs \ {fp[t]} : f_count'[o] = f_count[o]
  BY <1>1, <1>2, <1>4 DEF TypeOK
<1>7. TypeOK'
  <2>1. f_count[fp[t]] > 0
    <3>1. DOMAIN held = Refs /\ IsFiniteSet(Refs)
      BY <1>1, FiniteAssumption DEF TypeOK
    <3>2. held[ref[t]] \in To(fp[t])
      BY <1>4 DEF To
    <3> QED  BY <1>4, <3>1, <3>2, HowManyPositive
  <2>2. f_count[fp[t]] - 1 \in Nat
    BY <1>1, <1>4, <2>1 DEF TypeOK
  <2>3. f_count' \in [Objs -> Nat] /\ held' \in [Refs -> (Threads \X Objs) \cup {NoRef}]
    BY <1>1, <1>2, <1>4, <2>2 DEF TypeOK
  <2> QED  BY <1>1, <1>2, <1>3, <2>3, GotoEffect DEF TypeOK
<1>8. Listed' = Listed /\ Mutex2' = Mutex2 /\ Pcs' = Pcs /\ Hashing' = Hashing /\ Locking' = Locking
  BY <1>2, SameWhich DEF Listed
<1>9. ThreadOK(t)'
  <2>1. LocksOK(t)'
    BY <1>1, <1>2, <1>5, <1>8 DEF LocksOK, ThreadOK
  <2>2. RefsOK(t)'
    BY <1>3, <1>4, <1>5, <1>6 DEF RefsOK, WithObject
  <2>3. ObjectOK(t)'
    BY <1>3, <1>4, <1>5, <1>8 DEF ObjectOK
  <2> QED  BY <2>1, <2>2, <2>3 DEF ThreadOK
<1>10. ASSUME NEW u \in Threads, u # t
       PROVE  ThreadOK(u)'
  <2>1. ThreadOK(u) /\ (pc[u] \in WithObject => fp[u] \in Objs)
    BY <1>1 DEF ThreadOK, RefsOK
  <2>2. /\ pc[u] \in Locking => f_lock'[fp[u]] = u
        /\ hashlock = u => hashlock' = u
    BY <1>2, <2>1 DEF ThreadOK, LocksOK
  <2>3. ref[u] \in Refs => held'[ref[u]] = held[ref[u]]
    BY <1>1, <1>4, <1>6, <1>10, NoneAssumption DEF CallsApart
  <2>4. pc[u] \in WithObject =>
            \A r \in Refs : held[r] = <<u, fp[u]>> => held'[r] = <<u, fp[u]>>
    BY <1>4, <1>6, <1>10
  <2>5. pc[u] \in Creating \cup Freeing => fp[u] # fp[t] /\ fp[u] \notin Listed /\ mem[fp[u]] # "free"
    BY <1>4, <2>1 DEF ThreadOK, ObjectOK
  <2>6. pc[u] \in Creating => f_count'[fp[u]] = 1
    BY <1>6, <2>1, <2>5 DEF ThreadOK, ObjectOK, WithObject
  <2>7. pc[u] = "r_unlink" => \A r \in Refs \ {ref[u]} : held'[r] \notin To(fp[u])
    <3> SUFFICES ASSUME pc[u] = "r_unlink", NEW r \in Refs, r # ref[u]
                 PROVE  held'[r] \notin To(fp[u])
      OBVIOUS
    <3>1. held[r] \notin To(fp[u])
      BY <2>1 DEF ThreadOK, ObjectOK
    <3>2. fp[u] \in Objs
      BY <2>1 DEF WithObject, Owning
    <3> QED  BY <1>6, <3>1, <3>2, NoneAssumption DEF To
  <2>8. Mutex2 /\ pc[u] \in Decrementing => f_count'[fp[u]] # 1
    <3>1. Decrementing \subseteq WithObject  BY DEF Decrementing, WithObject, Owning
    <3> QED  BY <1>3, <1>6, <1>10, <2>1, <3>1, CountLocked DEF ThreadOK, ObjectOK
  <2>9. /\ pc[u] \in Finding \cup Leaving => fp[u] \in Listed
        /\ pc[u] \in Fresh => mem[fp[u]] = "init"
    BY <2>1 DEF ThreadOK, ObjectOK
  <2> QED
    BY <1>2, <1>5, <1>8, <1>10, <2>1, <2>2, <2>3, <2>4, <2>5, <2>6, <2>7, <2>8, <2>9, OtherThread
       DEF WithObject
<1>11. Lists'
  BY <1>1, <1>2 DEF Lists
<1>12. Objects'
  <2>1. \A o \in Listed' : mem'[o] # "free"
    BY <1>1, <1>2, <1>8 DEF Objects
  <2>2. \A o \in Objs : mem'[o] # "free" => f_id'[o] \in Ids
    BY <1>1, <1>2 DEF Objects
  <2>3. \A r \in Refs : held'[r] # NoRef => held'[r][2] \in Listed'
    BY <1>1, <1>4, <1>6, <1>8 DEF Objects
  <2>4. ASSUME NEW o \in Listed
        PROVE  \/ f_count'[o] = HowMany(held', To(o))
               \/ \E u \in Threads : pc'[u] = "r_unlink" /\ fp'[u] = o
    <3>1. o \in Objs  BY <1>1, ListedObjs
    <3>2. CASE o = fp[t]
      <4>1. NoRef \notin To(o) /\ held[ref[t]] \in To(o)
        BY <1>4, <3>2, ToObject
      <4>2. HowMany(held', To(o)) = HowMany(held, To(o)) - 1
        BY <1>1, <1>2, <1>4, <3>1, <4>1, CountMove
      <4> QED  BY <1>4, <1>6, <3>2, <4>2
    <3>3. CASE o # fp[t]
      <4>1. NoRef \notin To(o) /\ held[ref[t]] \notin To(o)
        BY <1>4, <3>1, <3>3, ToObject
      <4>2. HowMany(held', To(o)) = HowMany(held, To(o))
        BY <1>1, <1>2, <1>4, <3>1, <4>1, CountMove
      <4>3. f_count'[o] = f_count[o]
        BY <1>6, <3>1, <3>3
      <4>4. CASE f_count[o] = HowMany(held, To(o))
        BY <4>2, <4>3, <4>4
      <4>5. CASE \E u \in Threads : pc[u] = "r_unlink" /\ fp[u] = o
        BY <1>3, <1>5, <4>5
      <4> QED  BY <1>1, <4>4, <4>5 DEF Objects
    <3> QED  BY <3>2, <3>3
  <2> QED  BY <1>8, <2>1, <2>2, <2>3, <2>4 DEF Objects
<1>13. Creators'
  <2>1. \A u \in Threads : pc[u] \in Fresh => pc'[u] = pc[u] /\ fp'[u] = fp[u]
    BY <1>3, <1>5
  <2>2. \A r \in Refs, u \in Threads, o \in Objs : held'[r] = <<u, o>> => held[r] = <<u, o>>
    BY <1>6, NoneAssumption
  <2> QED  BY <1>1, <1>2, <1>8, <2>1, <2>2 DEF Creators
<1>14. CallsApart'
  BY <1>1, <1>2, <1>3, GotoCallsApart
<1> QED  BY <1>7, <1>9, <1>10, <1>11, <1>12, <1>13, <1>14 DEF IInv

\* if (--fp->f_count == 0) of mutex3.c, for the last reference.
LEMMA DecrLastStep ==
    ASSUME IInv, NEW t \in Threads, M3!DecrLast(t), which' = which, ~Mutex2
    PROVE  IInv'
<1> USE DEF memory
<1>1. TypeOK /\ Lists /\ Objects /\ Creators /\ CallsApart /\ \A u \in Threads : ThreadOK(u)
  BY DEF IInv
<1>2. /\ pc[t] = "r_decr" /\ Goto(t, "r_unlink") /\ f_count[fp[t]] = 1
      /\ UNCHANGED <<fh, hashlock, mem, f_id, f_lock, held, which>>
      /\ f_count' = [f_count EXCEPT ![fp[t]] = 0]
  BY DEF M3!DecrLast, M3!Goto, Goto, M3!locals, locals
<1>3. /\ pc[t] \in UsingCount /\ pc[t] # "idle" /\ pc[t] \in Owning /\ pc[t] # "r_unlink"
      /\ pc[t] \notin Fresh
      /\ "r_unlink" \in Labels /\ "r_unlink" \in Owning
      /\ "r_unlink" \notin Creating \cup Sharing \cup Finding \cup Leaving \cup Freeing \cup Searching
      /\ "r_unlink" \notin Fresh
  BY <1>2 DEF UsingCount, Labels, Owning, Creating, Sharing, Finding, Leaving, Freeing, Searching, Fresh
<1>4. /\ fp[t] \in Listed /\ fp[t] \in Objs /\ f_count[fp[t]] = HowMany(held, To(fp[t]))
      /\ ref[t] \in Refs /\ held[ref[t]] = <<t, fp[t]>>
  BY <1>1, <1>3, CountUsed, RefOwner DEF ThreadOK, RefsOK
<1>5. /\ pc'[t] = "r_unlink" /\ fp'[t] = fp[t] /\ ref'[t] = ref[t] /\ want'[t] = want[t]
      /\ \A u \in Threads \ {t} : /\ pc'[u] = pc[u] /\ fp'[u] = fp[u]
                                  /\ want'[u] = want[u] /\ ref'[u] = ref[u]
  BY <1>1, <1>2, <1>3, GotoEffect
<1>6. \A o \in Objs \ {fp[t]} : f_count'[o] = f_count[o]
  BY <1>1, <1>2 DEF TypeOK
<1>7. TypeOK'
  <2>1. f_count' \in [Objs -> Nat]
    BY <1>1, <1>2 DEF TypeOK
  <2> QED  BY <1>1, <1>2, <1>3, <2>1, GotoEffect DEF TypeOK
<1>8. Listed' = Listed /\ Mutex2' = Mutex2 /\ Pcs' = Pcs /\ Hashing' = Hashing /\ Locking' = Locking
  BY <1>2, SameWhich DEF Listed
<1>9. ThreadOK(t)'
  <2>1. LocksOK(t)'
    BY <1>1, <1>2, <1>5, <1>8 DEF LocksOK, ThreadOK, Pcs, Hashing, Locking
  <2>2. RefsOK(t)'
    BY <1>2, <1>3, <1>4, <1>5 DEF RefsOK, WithObject
  <2>3. \A r \in Refs \ {ref[t]} : held[r] \notin To(fp[t])
    <3>1. held[ref[t]] \in To(fp[t])
      BY <1>4 DEF To
    <3> QED  BY <1>1, <1>2, <1>4, <3>1, LastReference
  <2>4. ObjectOK(t)'
    BY <1>2, <1>3, <1>5, <1>8, <2>3 DEF ObjectOK
  <2> QED  BY <2>1, <2>2, <2>4 DEF ThreadOK
<1>10. ASSUME NEW u \in Threads, u # t
       PROVE  ThreadOK(u)'
  <2>1. ThreadOK(u) /\ (pc[u] \in WithObject => fp[u] \in Objs)
    BY <1>1 DEF ThreadOK, RefsOK
  <2>2. pc[u] \in Locking => f_lock'[fp[u]] = u
    BY <1>2, <2>1 DEF ThreadOK, LocksOK
  <2>3. pc[u] \in Creating \cup Freeing => fp[u] # fp[t] /\ fp[u] \notin Listed /\ mem[fp[u]] # "free"
    BY <1>4, <2>1 DEF ThreadOK, ObjectOK
  <2>4. pc[u] \in Creating => f_count'[fp[u]] = 1
    BY <1>6, <2>1, <2>3 DEF ThreadOK, ObjectOK, WithObject
  <2>5. /\ pc[u] \in Finding \cup Leaving => fp[u] \in Listed
        /\ pc[u] \in Fresh => mem[fp[u]] = "init"
        /\ pc[u] = "r_unlink" => \A r \in Refs \ {ref[u]} : held[r] \notin To(fp[u])
    BY <2>1 DEF ThreadOK, ObjectOK
  <2> QED
    BY <1>2, <1>5, <1>8, <1>10, <2>1, <2>2, <2>3, <2>4, <2>5, OtherThread
<1>11. Lists'
  BY <1>1, <1>2 DEF Lists
<1>12. Objects'
  <2>1. ASSUME NEW o \in Listed
        PROVE  \/ f_count'[o] = HowMany(held', To(o))
               \/ \E u \in Threads : pc'[u] = "r_unlink" /\ fp'[u] = o
    <3>1. o \in Objs  BY <1>1, ListedObjs
    <3>2. CASE o = fp[t]
      BY <1>5, <3>2
    <3>3. CASE o # fp[t]
      <4>1. f_count'[o] = f_count[o] /\ held' = held
        BY <1>2, <1>6, <3>1, <3>3
      <4>2. CASE f_count[o] = HowMany(held, To(o))
        BY <4>1, <4>2
      <4>3. CASE \E u \in Threads : pc[u] = "r_unlink" /\ fp[u] = o
        BY <1>3, <1>5, <4>3
      <4> QED  BY <1>1, <4>2, <4>3 DEF Objects
    <3> QED  BY <3>2, <3>3
  <2> QED  BY <1>1, <1>2, <1>8, <2>1 DEF Objects
<1>13. Creators'
  <2>1. \A u \in Threads : pc[u] \in Fresh => pc'[u] = pc[u] /\ fp'[u] = fp[u]
    BY <1>3, <1>5
  <2> QED  BY <1>1, <1>2, <1>8, <2>1 DEF Creators
<1>14. CallsApart'
  BY <1>1, <1>2, <1>3, GotoCallsApart
<1> QED  BY <1>7, <1>9, <1>10, <1>11, <1>12, <1>13, <1>14 DEF IInv

-----------------------------------------------------------------------------
(* The steps on the lists *)

\* A sequence with one more element in front.
LEMMA Prepend ==
    ASSUME NEW S, NEW s \in Seq(S), NEW x \in S
    PROVE  /\ <<x>> \o s \in Seq(S)
           /\ Len(<<x>> \o s) = Len(s) + 1
           /\ (<<x>> \o s)[1] = x
           /\ \A k \in 1..Len(s) + 1 : k = 1 \/ (k - 1 \in 1..Len(s) /\ (<<x>> \o s)[k] = s[k - 1])
           /\ \A k \in 1..Len(s) : k + 1 \in 1..Len(s) + 1 /\ (<<x>> \o s)[k + 1] = s[k]
<1>1. Len(s) \in Nat /\ <<x>> \in Seq(S) /\ Len(<<x>>) = 1 /\ <<x>>[1] = x
  OBVIOUS
<1>2. PICK q : q = <<x>> \o s
  OBVIOUS
<1>3. /\ q \in Seq(S)
      /\ Len(q) = 1 + Len(s)
      /\ \A i \in 1..1 + Len(s) : q[i] = IF i <= 1 THEN <<x>>[i] ELSE s[i - 1]
  BY <1>1, <1>2, ConcatProperties
<1>4. \A k \in 1..Len(s) + 1 : k = 1 \/ (k - 1 \in 1..Len(s) /\ q[k] = s[k - 1])
  BY <1>1, <1>3
<1>5. ASSUME NEW k \in 1..Len(s)
      PROVE  k + 1 \in 1..Len(s) + 1 /\ q[k + 1] = s[k]
  <2>1. k + 1 \in 1..1 + Len(s) /\ ~(k + 1 <= 1) /\ (k + 1) - 1 = k
    BY <1>1
  <2> QED  BY <1>1, <1>3, <2>1
<1>6. Len(q) = Len(s) + 1 /\ q[1] = x
  BY <1>1, <1>3
<1> QED  BY <1>2, <1>3, <1>4, <1>5, <1>6

\* q is s without its n-th element.
Removed(s, n, q) ==
    /\ q \in Seq(Objs)
    /\ Len(q) = Len(s) - 1
    /\ \A k \in 1..Len(q) : k < n => q[k] = s[k]
    /\ \A k \in 1..Len(q) : k >= n => q[k] = s[k + 1]

\* A sequence without its n-th element.
LEMMA Without ==
    ASSUME NEW S, NEW s \in Seq(S), NEW n \in 1..Len(s)
    PROVE  LET q == SubSeq(s, 1, n - 1) \o SubSeq(s, n + 1, Len(s))
           IN  /\ q \in Seq(S)
               /\ Len(q) = Len(s) - 1
               /\ \A k \in 1..Len(s) - 1 : k < n => q[k] = s[k]
               /\ \A k \in 1..Len(s) - 1 : k >= n => q[k] = s[k + 1]
<1>1. /\ Len(s) \in Nat /\ n \in Nat /\ n >= 1 /\ n <= Len(s)
      /\ n - 1 \in Int /\ n + 1 \in Int /\ 1 \in Int /\ Len(s) \in Int
      /\ \A i \in 1..(n - 1) : s[i] \in S
      /\ \A i \in (n + 1)..Len(s) : s[i] \in S
  OBVIOUS
<1>2. PICK h : h = SubSeq(s, 1, n - 1)
  OBVIOUS
<1>3. /\ h \in Seq(S)
      /\ Len(h) = IF 1 <= n - 1 THEN (n - 1) - 1 + 1 ELSE 0
      /\ \A i \in 1..(n - 1) - 1 + 1 : h[i] = s[1 + i - 1]
  BY <1>1, <1>2, SubSeqProperties
<1>4. Len(h) = n - 1 /\ \A i \in 1..(n - 1) : h[i] = s[i]
  BY <1>1, <1>3
<1>5. PICK r : r = SubSeq(s, n + 1, Len(s))
  OBVIOUS
<1>6. /\ r \in Seq(S)
      /\ Len(r) = IF n + 1 <= Len(s) THEN Len(s) - (n + 1) + 1 ELSE 0
      /\ \A i \in 1..Len(s) - (n + 1) + 1 : r[i] = s[(n + 1) + i - 1]
  BY <1>1, <1>5, SubSeqProperties
<1>7. Len(r) = Len(s) - n /\ \A i \in 1..(Len(s) - n) : r[i] = s[n + i]
  BY <1>1, <1>6
<1>8. PICK q : q = h \o r
  OBVIOUS
<1>9. /\ q \in Seq(S)
      /\ Len(q) = Len(h) + Len(r)
      /\ \A i \in 1..Len(h) + Len(r) : q[i] = IF i <= Len(h) THEN h[i] ELSE r[i - Len(h)]
  BY <1>3, <1>6, <1>8, ConcatProperties
<1>10. Len(q) = Len(s) - 1 /\ Len(h) + Len(r) = Len(s) - 1
  BY <1>1, <1>4, <1>7, <1>9
<1>11. ASSUME NEW k \in 1..Len(s) - 1, k < n
       PROVE  q[k] = s[k]
  BY <1>1, <1>4, <1>9, <1>10, <1>11
<1>12. ASSUME NEW k \in 1..Len(s) - 1, k >= n
       PROVE  q[k] = s[k + 1]
  <2>1. k - (n - 1) \in 1..(Len(s) - n) /\ ~(k <= n - 1) /\ n + (k - (n - 1)) = k + 1
    BY <1>1, <1>12
  <2>2. q[k] = r[k - (n - 1)]
    BY <1>4, <1>9, <1>10, <2>1
  <2>3. r[k - (n - 1)] = s[n + (k - (n - 1))]
    BY <1>7, <2>1
  <2> QED  BY <2>1, <2>2, <2>3
<1> QED  BY <1>2, <1>5, <1>8, <1>9, <1>10, <1>11, <1>12

\* An object put in front of a list.
LEMMA ListPush ==
    ASSUME TypeOK, Lists, NEW o \in Objs, o \notin Listed, f_id[o] \in Ids, f_id' = f_id,
           fh' = [fh EXCEPT ![HASH(f_id[o])] = <<o>> \o @]
    PROVE  /\ fh' \in [Buckets -> Seq(Objs)]
           /\ Listed' = Listed \cup {o}
           /\ Lists'
<1>1. PICK b \in Buckets : b = HASH(f_id[o])
  BY HashInRange
<1>2. PICK s \in Seq(Objs) : s = fh[b]
  BY DEF TypeOK
<1>3. PICK q : q = <<o>> \o s
  OBVIOUS
<1>4. /\ q \in Seq(Objs) /\ Len(q) = Len(s) + 1 /\ q[1] = o
      /\ \A k \in 1..Len(q) : k = 1 \/ (k - 1 \in 1..Len(s) /\ q[k] = s[k - 1])
      /\ \A k \in 1..Len(s) : k + 1 \in 1..Len(q) /\ q[k + 1] = s[k]
  BY <1>3, Prepend
<1>5. 1 \in 1..Len(q)
  BY <1>4
<1>6. fh' = [fh EXCEPT ![b] = q]
  BY <1>1, <1>2, <1>3
<1>7. fh' \in [Buckets -> Seq(Objs)]
  BY <1>4, <1>6 DEF TypeOK
<1>8. fh'[b] = q /\ \A c \in Buckets : c # b => fh'[c] = fh[c]
  BY <1>6 DEF TypeOK
<1>9. \A p : p \in Listed' <=> \E c \in Buckets : \E k \in 1..Len(fh'[c]) : fh'[c][k] = p
  BY DEF Listed
<1>10. \A c \in Buckets : /\ \A k \in 1..Len(fh[c]) : HASH(f_id[fh[c][k]]) = c
                          /\ \A j, k \in 1..Len(fh[c]) : fh[c][j] = fh[c][k] => j = k
  BY DEF Lists
<1>11. ASSUME NEW p \in Listed
       PROVE  p \in Listed'
  <2>1. PICK c \in Buckets, k \in Nat : k \in 1..Len(fh[c]) /\ fh[c][k] = p
    BY ListedAt
  <2>2. CASE c = b
    <3>1. k + 1 \in 1..Len(fh'[b]) /\ fh'[b][k + 1] = p
      BY <1>2, <1>4, <1>8, <2>1, <2>2
    <3> QED  BY <1>9, <3>1
  <2>3. CASE c # b
    <3>1. k \in 1..Len(fh'[c]) /\ fh'[c][k] = p
      BY <1>8, <2>1, <2>3
    <3> QED  BY <1>9, <3>1
  <2> QED  BY <2>2, <2>3
<1>12. o \in Listed'
  <2>1. 1 \in 1..Len(fh'[b]) /\ fh'[b][1] = o
    BY <1>4, <1>5, <1>8
  <2> QED  BY <1>9, <2>1
<1>13. ASSUME NEW p \in Listed', p # o
       PROVE  p \in Listed
  <2>1. PICK c \in Buckets, k \in Nat : k \in 1..Len(fh'[c]) /\ fh'[c][k] = p
    BY <1>9
  <2>2. CASE c = b
    <3>1. k - 1 \in 1..Len(fh[b]) /\ fh[b][k - 1] = p
      BY <1>2, <1>4, <1>8, <1>13, <2>1, <2>2
    <3> QED  BY <3>1, ListedAt
  <2>3. CASE c # b
    <3>1. k \in 1..Len(fh[c]) /\ fh[c][k] = p
      BY <1>8, <2>1, <2>3
    <3> QED  BY <3>1, ListedAt
  <2> QED  BY <2>2, <2>3
<1>14. ASSUME NEW c \in Buckets, NEW k \in 1..Len(fh'[c])
       PROVE  HASH(f_id[fh'[c][k]]) = c
  <2>1. CASE c = b
    BY <1>1, <1>2, <1>4, <1>8, <1>10, <2>1
  <2>2. CASE c # b
    BY <1>8, <1>10, <2>2
  <2> QED  BY <2>1, <2>2
<1>15. ASSUME NEW c \in Buckets, NEW j \in 1..Len(fh'[c]), NEW k \in 1..Len(fh'[c]),
              fh'[c][j] = fh'[c][k]
       PROVE  j = k
  <2>1. CASE c = b
    <3>1. j \in 1..Len(q) /\ k \in 1..Len(q) /\ q[j] = q[k]
      BY <1>8, <1>15, <2>1
    <3>2. \A i \in 1..Len(s) : s[i] # o
      BY <1>2, ListedAt
    <3>3. CASE j = 1
      BY <1>4, <3>1, <3>2, <3>3
    <3>4. CASE k = 1
      BY <1>4, <3>1, <3>2, <3>4
    <3>5. CASE j # 1 /\ k # 1
      <4>1. j - 1 \in 1..Len(s) /\ k - 1 \in 1..Len(s) /\ s[j - 1] = s[k - 1]
        BY <1>4, <3>1, <3>5
      <4>2. j - 1 = k - 1
        BY <1>2, <1>10, <4>1
      <4> QED  BY <3>1, <4>2
    <3> QED  BY <3>3, <3>4, <3>5
  <2>2. CASE c # b
    BY <1>8, <1>10, <1>15, <2>2
  <2> QED  BY <2>1, <2>2
<1>16. Lists'
  BY <1>14, <1>15 DEF Lists, HASH
<1> QED  BY <1>7, <1>11, <1>12, <1>13, <1>16

\* A list without its n-th object.
LEMMA ListWithout ==
    ASSUME TypeOK, Lists, f_id' = f_id, NEW b \in Buckets,
           NEW n \in 1..Len(fh[b]), NEW o \in Objs, o = fh[b][n],
           NEW q, Removed(fh[b], n, q), fh' = [fh EXCEPT ![b] = q]
    PROVE  /\ fh' \in [Buckets -> Seq(Objs)]
           /\ Listed' = Listed \ {o}
           /\ Lists'
<1>1. PICK s \in Seq(Objs) : s = fh[b] /\ o = s[n]
  BY DEF TypeOK
<1>2. n \in 1..Len(s) /\ Len(s) \in Nat /\ s[n] = o
  BY <1>1
<1>3. /\ q \in Seq(Objs) /\ Len(q) = Len(s) - 1
      /\ \A k \in 1..Len(q) : k < n => q[k] = s[k]
      /\ \A k \in 1..Len(q) : k >= n => q[k] = s[k + 1]
  BY <1>1 DEF Removed
<1>4. fh' = [fh EXCEPT ![b] = q]
  OBVIOUS
<1>5. fh' \in [Buckets -> Seq(Objs)]
  BY <1>3, <1>4 DEF TypeOK
<1>6. fh'[b] = q /\ \A c \in Buckets : c # b => fh'[c] = fh[c]
  BY <1>4 DEF TypeOK
<1>7. \A p : p \in Listed' <=> \E c \in Buckets : \E k \in 1..Len(fh'[c]) : fh'[c][k] = p
  BY ListedNext
<1>8. \A c \in Buckets : /\ \A k \in 1..Len(fh[c]) : HASH(f_id[fh[c][k]]) = c
                         /\ \A j, k \in 1..Len(fh[c]) : fh[c][j] = fh[c][k] => j = k
  BY DEF Lists
<1>9. ASSUME NEW k \in 1..Len(q)
       PROVE  \E i \in 1..Len(s) : i # n /\ q[k] = s[i] /\ (i = k \/ i = k + 1)
                                   /\ (k < n <=> i = k)
  <2>1. CASE k < n
    BY <1>2, <1>3, <2>1
  <2>2. CASE k >= n
    <3>1. k + 1 \in 1..Len(s) /\ k + 1 # n /\ q[k] = s[k + 1] /\ k + 1 # k /\ ~(k < n)
      BY <1>2, <1>3, <2>2
    <3> QED  BY <3>1
  <2> QED  BY <1>2, <2>1, <2>2
<1>10. ASSUME NEW p \in Listed, p # o
       PROVE  p \in Listed'
  <2>1. PICK c \in Buckets, k \in Nat : k \in 1..Len(fh[c]) /\ fh[c][k] = p
    BY ListedAt
  <2>2. CASE c = b
    <3>1. k \in 1..Len(s) /\ s[k] = p /\ k # n
      BY <1>1, <1>2, <1>10, <2>1, <2>2
    <3>2. CASE k < n
      <4>1. k \in 1..Len(fh'[b]) /\ fh'[b][k] = p
        BY <1>2, <1>3, <1>6, <3>1, <3>2
      <4> QED  BY <1>7, <4>1
    <3>3. CASE k > n
      <4>1. k - 1 \in 1..Len(q) /\ k - 1 >= n /\ (k - 1) + 1 = k
        BY <1>2, <1>3, <3>1, <3>3
      <4>2. k - 1 \in 1..Len(fh'[b]) /\ fh'[b][k - 1] = p
        BY <1>3, <1>6, <3>1, <4>1
      <4> QED  BY <1>7, <4>2
    <3> QED  BY <1>2, <3>1, <3>2, <3>3
  <2>3. CASE c # b
    <3>1. k \in 1..Len(fh'[c]) /\ fh'[c][k] = p
      BY <1>6, <2>1, <2>3
    <3> QED  BY <1>7, <3>1
  <2> QED  BY <2>2, <2>3
<1>11. ASSUME NEW p \in Listed'
       PROVE  p \in Listed /\ p # o
  <2>1. PICK c \in Buckets, k \in Nat : k \in 1..Len(fh'[c]) /\ fh'[c][k] = p
    BY <1>7
  <2>2. CASE c = b
    <3>1. PICK i \in 1..Len(s) : i # n /\ p = s[i]
      BY <1>6, <1>9, <2>1, <2>2
    <3>2. p # o
      BY <1>1, <1>2, <1>8, <3>1
    <3> QED  BY <1>1, <3>1, <3>2, ListedAt
  <2>3. CASE c # b
    <3>1. k \in 1..Len(fh[c]) /\ fh[c][k] = p
      BY <1>6, <2>1, <2>3
    <3>2. HASH(f_id[p]) = c /\ HASH(f_id[o]) = b
      BY <1>1, <1>2, <1>8, <3>1
    <3> QED  BY <2>3, <3>1, <3>2, ListedAt
  <2> QED  BY <2>2, <2>3
<1>12. ASSUME NEW c \in Buckets, NEW k \in 1..Len(fh'[c])
       PROVE  HASH(f_id[fh'[c][k]]) = c
  <2>1. CASE c = b
    <3>1. \A i \in 1..Len(s) : HASH(f_id[s[i]]) = b
      BY <1>1, <1>8
    <3>2. PICK i \in 1..Len(s) : q[k] = s[i]
      BY <1>6, <1>9, <2>1
    <3> QED  BY <1>6, <2>1, <3>1, <3>2
  <2>2. CASE c # b
    BY <1>6, <1>8, <2>2
  <2> QED  BY <2>1, <2>2
<1>13. ASSUME NEW c \in Buckets, NEW j \in 1..Len(fh'[c]), NEW k \in 1..Len(fh'[c]),
              fh'[c][j] = fh'[c][k]
       PROVE  j = k
  <2>1. CASE c = b
    <3>1. j \in 1..Len(q) /\ k \in 1..Len(q) /\ q[j] = q[k]
      BY <1>6, <1>13, <2>1
    <3>2. PICK i \in 1..Len(s) : q[j] = s[i] /\ (i = j \/ i = j + 1) /\ (j < n <=> i = j) /\ i # n
      BY <1>9, <3>1
    <3>3. PICK l \in 1..Len(s) : q[k] = s[l] /\ (l = k \/ l = k + 1) /\ (k < n <=> l = k) /\ l # n
      BY <1>9, <3>1
    <3>4. \A x, y \in 1..Len(s) : s[x] = s[y] => x = y
      BY <1>1, <1>8
    <3>5. s[i] = s[l]
      BY <3>1, <3>2, <3>3, Zenon
    <3>6. i = l
      BY <3>4, <3>5
    <3> QED  BY <1>2, <1>3, <3>1, <3>2, <3>3, <3>6
  <2>2. CASE c # b
    BY <1>6, <1>8, <1>13, <2>2
  <2> QED  BY <2>1, <2>2
<1>14. Lists'
  BY <1>12, <1>13 DEF Lists, HASH
<1> QED  BY <1>5, <1>10, <1>11, <1>14

\* fp->f_next = fh[idx]; fh[idx] = fp
LEMMA PushStep ==
    ASSUME IInv, NEW t \in Threads, Push(t), which' = which
    PROVE  IInv'
<1> USE DEF memory
<1>1. TypeOK /\ Lists /\ Objects /\ Creators /\ CallsApart /\ \A u \in Threads : ThreadOK(u)
  BY DEF IInv
<1>2. /\ pc[t] = "a_push" /\ Goto(t, "a_flock") /\ UNCHANGED <<hashlock, mem, f_count, f_id, f_lock, which>>
      /\ fh' = [fh EXCEPT ![HASH(f_id[fp[t]])] = <<fp[t]>> \o @]
      /\ held' = [held EXCEPT ![ref[t]] = <<t, fp[t]>>]
  BY DEF Push
<1>3. /\ pc[t] # "idle" /\ pc[t] \in Creating /\ pc[t] # "r_unlink" /\ pc[t] \in Fresh
      /\ "a_flock" \in Labels /\ "a_flock" \in Owning /\ "a_flock" \in Pcs
      /\ "a_flock" \notin Creating \cup Sharing \cup Finding \cup Leaving \cup Freeing \cup Searching
      /\ "a_flock" \in Fresh /\ "a_flock" \notin Decrementing
      /\ "a_flock" \in Hashing /\ "a_flock" \notin Locking /\ pc[t] \in Hashing
  BY <1>2 DEF Labels, Owning, Creating, Sharing, Finding, Leaving, Freeing, Searching, Fresh,
              Decrementing, Hashing, Locking, Pcs
<1>4. /\ fp[t] \notin Listed /\ fp[t] \in Objs /\ f_count[fp[t]] = 1 /\ mem[fp[t]] = "init"
      /\ ref[t] \in Refs /\ held[ref[t]] = NoRef
      /\ \A u \in Threads \ {t} : fp[u] # fp[t]
  BY <1>1, <1>3, RefOwner DEF ThreadOK, RefsOK, ObjectOK, WithObject
<1>5. /\ pc'[t] = "a_flock" /\ fp'[t] = fp[t] /\ ref'[t] = ref[t] /\ want'[t] = want[t]
      /\ \A u \in Threads \ {t} : /\ pc'[u] = pc[u] /\ fp'[u] = fp[u]
                                  /\ want'[u] = want[u] /\ ref'[u] = ref[u]
  BY <1>1, <1>2, <1>3, GotoEffect
<1>6. /\ held'[ref[t]] = <<t, fp[t]>> /\ \A r \in Refs \ {ref[t]} : held'[r] = held[r]
  BY <1>1, <1>2, <1>4 DEF TypeOK
<1>7. f_id[fp[t]] \in Ids
  BY <1>1, <1>4 DEF Objects
<1>8. fh' \in [Buckets -> Seq(Objs)] /\ Listed' = Listed \cup {fp[t]} /\ Lists'
  BY <1>1, <1>2, <1>4, <1>7, ListPush
<1>9. TypeOK'
  <2>1. held' \in [Refs -> (Threads \X Objs) \cup {NoRef}]
    BY <1>1, <1>2, <1>4 DEF TypeOK
  <2> QED  BY <1>1, <1>2, <1>3, <1>8, <2>1, GotoEffect DEF TypeOK
<1>10. Mutex2' = Mutex2 /\ Pcs' = Pcs /\ Hashing' = Hashing /\ Locking' = Locking
  BY SameWhich
<1>11. ThreadOK(t)'
  <2>1. LocksOK(t)'
    BY <1>1, <1>2, <1>3, <1>5, <1>10 DEF LocksOK, ThreadOK
  <2>2. RefsOK(t)'
    BY <1>3, <1>4, <1>5, <1>6 DEF RefsOK, WithObject
  <2>3. ObjectOK(t)'
    BY <1>2, <1>3, <1>4, <1>5, <1>10 DEF ObjectOK
  <2> QED  BY <2>1, <2>2, <2>3 DEF ThreadOK
<1>12. ASSUME NEW u \in Threads, u # t
       PROVE  ThreadOK(u)'
  <2>1. ThreadOK(u) /\ (pc[u] \in WithObject => fp[u] \in Objs) /\ fp[u] # fp[t]
    BY <1>1, <1>4, <1>12 DEF ThreadOK, RefsOK
  <2>2. /\ pc[u] \in Locking => f_lock'[fp[u]] = u
        /\ hashlock = u => hashlock' = u
    BY <1>2, <2>1 DEF ThreadOK, LocksOK
  <2>3. ref[u] \in Refs => held'[ref[u]] = held[ref[u]]
    BY <1>1, <1>4, <1>6, <1>12, NoneAssumption DEF CallsApart
  <2>4. pc[u] \in WithObject =>
            \A r \in Refs : held[r] = <<u, fp[u]>> => held'[r] = <<u, fp[u]>>
    BY <1>4, <1>6, <2>1, NoneAssumption
  <2>5. pc[u] = "r_unlink" => \A r \in Refs \ {ref[u]} : held'[r] \notin To(fp[u])
    <3> SUFFICES ASSUME pc[u] = "r_unlink", NEW r \in Refs, r # ref[u]
                 PROVE  held'[r] \notin To(fp[u])
      OBVIOUS
    <3>1. held[r] \notin To(fp[u])
      BY <2>1 DEF ThreadOK, ObjectOK
    <3> QED  BY <1>6, <2>1, <3>1 DEF To
  <2>6. /\ pc[u] \in Finding \cup Leaving => fp[u] \in Listed
        /\ pc[u] \in Creating \cup Freeing => fp[u] \notin Listed /\ mem[fp[u]] # "free"
        /\ pc[u] \in Creating => f_count[fp[u]] = 1
        /\ pc[u] \in Fresh => mem[fp[u]] = "init"
        /\ Mutex2 /\ pc[u] \in Decrementing => f_count[fp[u]] # 1
    BY <2>1 DEF ThreadOK, ObjectOK
  <2> QED
    BY <1>2, <1>5, <1>8, <1>12, <2>1, <2>2, <2>3, <2>4, <2>5, <2>6, OtherThread DEF WithObject
<1>13. Objects'
  <2>1. \A o \in Listed' : mem'[o] # "free"
    BY <1>1, <1>2, <1>4, <1>8 DEF Objects
  <2>2. \A o \in Objs : mem'[o] # "free" => f_id'[o] \in Ids
    BY <1>1, <1>2 DEF Objects
  <2>3. \A r \in Refs : held'[r] # NoRef => held'[r][2] \in Listed'
    BY <1>1, <1>4, <1>6, <1>8 DEF Objects
  <2>4. ASSUME NEW o \in Listed'
        PROVE  \/ f_count'[o] = HowMany(held', To(o))
               \/ \E u \in Threads : pc'[u] = "r_unlink" /\ fp'[u] = o
    <3>1. o \in Objs /\ (o = fp[t] \/ o \in Listed)
      BY <1>1, <1>4, <1>8, ListedObjs
    <3>2. CASE o = fp[t]
      <4>1. ASSUME NEW r \in Refs, held[r] \in To(o)
            PROVE  FALSE
        <5>1. held[r] # NoRef /\ held[r][2] = o
          BY <3>1, <4>1, NoneAssumption DEF To
        <5> QED  BY <1>1, <1>4, <3>2, <5>1 DEF Objects
      <4>2. DOMAIN held = Refs
        BY <1>1 DEF TypeOK
      <4>3. HowMany(held, To(o)) = 0
        BY <4>1, <4>2, HowManyWitness
      <4>4. <<t, fp[t]>> \in To(o) /\ held[ref[t]] \notin To(o)
        BY <1>4, <3>2, ToObject
      <4>5. HowMany(held', To(o)) = HowMany(held, To(o)) + 1
        BY <1>1, <1>2, <1>4, <3>1, <4>4, CountMove
      <4> QED  BY <1>2, <1>4, <3>2, <4>3, <4>5
    <3>3. CASE o # fp[t]
      <4>1. <<t, fp[t]>> \notin To(o) /\ held[ref[t]] \notin To(o)
        BY <1>4, <3>1, <3>3, ToObject
      <4>2. HowMany(held', To(o)) = HowMany(held, To(o))
        BY <1>1, <1>2, <1>4, <3>1, <4>1, CountMove
      <4>3. f_count'[o] = f_count[o]
        BY <1>2
      <4>4. CASE f_count[o] = HowMany(held, To(o))
        BY <4>2, <4>3, <4>4
      <4>5. CASE \E u \in Threads : pc[u] = "r_unlink" /\ fp[u] = o
        BY <1>3, <1>5, <4>5
      <4> QED  BY <1>1, <3>1, <3>3, <4>4, <4>5 DEF Objects
    <3> QED  BY <3>2, <3>3
  <2> QED  BY <2>1, <2>2, <2>3, <2>4 DEF Objects
<1>14. Creators'
  <2>1. \A u \in Threads : pc[u] \in Fresh => pc'[u] \in Fresh /\ fp'[u] = fp[u]
    BY <1>3, <1>5
  <2>2. ASSUME NEW o \in Objs, Mutex2, mem[o] = "init", NEW r \in Refs, NEW u \in Threads, held'[r] = <<u, o>>
        PROVE  fp'[u] = o /\ pc'[u] \in Fresh
    <3>1. CASE r = ref[t]
      BY <1>3, <1>5, <1>6, <2>2, <3>1
    <3>2. CASE r # ref[t]
      <4>1. fp[u] = o /\ pc[u] \in Fresh
        BY <1>1, <1>6, <2>2, <3>2 DEF Creators
      <4> QED  BY <2>1, <4>1
    <3> QED  BY <3>1, <3>2
  <2> QED  BY <1>1, <1>2, <1>10, <2>1, <2>2 DEF Creators
<1>15. CallsApart'
  BY <1>1, <1>2, <1>3, GotoCallsApart
<1> QED  BY <1>8, <1>9, <1>11, <1>12, <1>13, <1>14, <1>15 DEF IInv

\* foo_rele takes the object, and no other, out of its list.
LEMMA ListUnlink ==
    ASSUME TypeOK, Lists, NEW t \in Threads, Unlink(t, "r_hunlock"),
           NEW o \in Objs, o = fp[t], f_id[o] \in Ids
    PROVE  /\ fh' \in [Buckets -> Seq(Objs)]
           /\ Listed' = Listed \ {o}
           /\ Lists'
<1>1. PICK b \in Buckets : b = HASH(f_id[o])
  BY HashInRange
<1>2. PICK s \in Seq(Objs) : s = fh[b]
  BY DEF TypeOK
<1>3. PICK n \in 1..Len(s) : /\ s[n] = o
                             /\ fh' = [fh EXCEPT ![b] = SubSeq(s, 1, n - 1) \o SubSeq(s, n + 1, Len(s))]
  BY <1>1, <1>2 DEF Unlink
<1>4. PICK q : q = SubSeq(s, 1, n - 1) \o SubSeq(s, n + 1, Len(s))
  OBVIOUS
<1>5. Removed(s, n, q)
  BY <1>4, Without DEF Removed
<1>6. fh' = [fh EXCEPT ![b] = q]
  BY <1>3, <1>4
<1>7. o = fh[b][n] /\ n \in 1..Len(fh[b]) /\ Removed(fh[b], n, q)
  BY <1>2, <1>3, <1>5
<1>8. TypeOK /\ Lists /\ f_id' = f_id
  BY DEF Unlink, memory
<1> QED  BY ONLY <1>6, <1>7, <1>8, ListWithout

\* The object is taken out of its list, and the last reference is given back.
LEMMA UnlinkStep ==
    ASSUME IInv, NEW t \in Threads, Unlink(t, "r_hunlock"), which' = which
    PROVE  IInv'
<1> USE DEF memory
<1>1. TypeOK /\ Lists /\ Objects /\ Creators /\ CallsApart /\ \A u \in Threads : ThreadOK(u)
  BY DEF IInv
<1>2. /\ pc[t] = "r_unlink" /\ Goto(t, "r_hunlock")
      /\ UNCHANGED <<hashlock, mem, f_count, f_id, f_lock, which>>
      /\ held' = [held EXCEPT ![ref[t]] = NoRef]
  BY DEF Unlink
<1>3. /\ pc[t] # "idle" /\ pc[t] \in Owning /\ pc[t] \notin Fresh
      /\ pc[t] \in Hashing /\ (Mutex2 => pc[t] \in Locking)
      /\ "r_hunlock" \in Labels /\ "r_hunlock" \in Freeing /\ "r_hunlock" \in Pcs
      /\ "r_hunlock" \notin Creating \cup Sharing \cup Finding \cup Owning \cup Leaving \cup Searching
      /\ "r_hunlock" \notin Fresh /\ "r_hunlock" \notin Decrementing
      /\ "r_hunlock" \in Hashing /\ ("r_hunlock" \in Locking => Mutex2)
  BY <1>2 DEF Labels, Owning, Creating, Sharing, Finding, Leaving, Freeing, Searching, Fresh,
              Decrementing, Hashing, Locking, Pcs
<1>4. /\ fp[t] \in Objs /\ ref[t] \in Refs /\ held[ref[t]] = <<t, fp[t]>>
      /\ \A r \in Refs \ {ref[t]} : held[r] \notin To(fp[t])
  BY <1>1, <1>2, <1>3, RefOwner DEF ThreadOK, RefsOK, ObjectOK, WithObject
<1>5. /\ pc'[t] = "r_hunlock" /\ fp'[t] = fp[t] /\ ref'[t] = ref[t] /\ want'[t] = want[t]
      /\ \A u \in Threads \ {t} : /\ pc'[u] = pc[u] /\ fp'[u] = fp[u]
                                  /\ want'[u] = want[u] /\ ref'[u] = ref[u]
  BY <1>1, <1>2, <1>3, GotoEffect
<1>6. /\ held'[ref[t]] = NoRef /\ \A r \in Refs \ {ref[t]} : held'[r] = held[r]
  BY <1>1, <1>2, <1>4 DEF TypeOK
<1>7. fp[t] \in Listed /\ mem[fp[t]] # "free" /\ f_id[fp[t]] \in Ids
  <2>1. held[ref[t]] # NoRef
    BY <1>4, NoneAssumption
  <2>2. held[ref[t]][2] \in Listed
    BY <1>1, <1>4, <2>1 DEF Objects
  <2>3. fp[t] \in Listed
    BY <1>4, <2>2
  <2> QED  BY <1>1, <1>4, <2>3 DEF Objects
<1>8. fh' \in [Buckets -> Seq(Objs)] /\ Listed' = Listed \ {fp[t]} /\ Lists'
  <2>1. PICK o \in Objs : o = fp[t]
    BY <1>4
  <2>2. f_id[o] \in Ids
    BY <1>7, <2>1
  <2>3. fh' \in [Buckets -> Seq(Objs)] /\ Listed' = Listed \ {o} /\ Lists'
    BY <1>1, <2>1, <2>2, ListUnlink
  <2> QED  BY <2>1, <2>3
<1>9. TypeOK'
  <2>1. held' \in [Refs -> (Threads \X Objs) \cup {NoRef}]
    BY <1>1, <1>2, <1>4 DEF TypeOK
  <2> QED  BY <1>1, <1>2, <1>3, <1>8, <2>1, GotoEffect DEF TypeOK
<1>10. Mutex2' = Mutex2 /\ Pcs' = Pcs /\ Hashing' = Hashing /\ Locking' = Locking
  BY SameWhich
<1>11. ASSUME NEW u \in Threads, u # t
       PROVE  fp[u] # fp[t]
  <2> SUFFICES ASSUME fp[u] = fp[t]
               PROVE  FALSE
    OBVIOUS
  <2>1. ThreadOK(u)
    BY <1>1
  <2>2. \A r \in Refs : held[r] # <<u, fp[u]>>
    BY <1>4, <1>11 DEF To
  <2>3. pc[u] \in {"idle", "f_hunlock"} \cup Searching \cup WithObject
    BY <2>1, Places DEF ThreadOK, LocksOK
  <2>4. fp[u] # NoObj
    BY <1>4, NoneAssumption
  <2>5. pc[u] \in Finding \cup Leaving
    <3>1. pc[u] \notin Creating \cup Freeing
      BY <1>7, <2>1 DEF ThreadOK, ObjectOK
    <3>2. pc[u] \notin Sharing
      BY <2>1, <2>2 DEF ThreadOK, RefsOK
    <3>3. pc[u] # "idle" => ref[u] \in Refs
      BY RefOwner
    <3>4. pc[u] \notin Owning /\ pc[u] # "f_hunlock" /\ pc[u] # "idle" /\ pc[u] \notin Searching
      BY <2>1, <2>2, <2>4, <3>3, NotIdle DEF ThreadOK, RefsOK
    <3> QED  BY <2>3, <3>1, <3>2, <3>4 DEF WithObject
  <2>6. pc[u] \notin Hashing
    BY <1>3, <1>11, Exclusive
  <2>7. Mutex2 => pc[u] \notin Locking
    BY <1>3, <1>11, Exclusive
  <2>8. pc[u] \in Pcs
    BY <2>1 DEF ThreadOK, LocksOK
  <2> QED  BY <2>5, <2>6, <2>7, <2>8 DEF Finding, Leaving, Hashing, Locking, Pcs
<1>12. ThreadOK(t)'
  <2>1. LocksOK(t)'
    BY <1>1, <1>2, <1>3, <1>5, <1>10 DEF LocksOK, ThreadOK
  <2>2. RefsOK(t)'
    BY <1>3, <1>4, <1>5, <1>6 DEF RefsOK, WithObject
  <2>3. ObjectOK(t)'
    BY <1>2, <1>3, <1>5, <1>7, <1>8, <1>10, <1>11 DEF ObjectOK
  <2> QED  BY <2>1, <2>2, <2>3 DEF ThreadOK
<1>13. ASSUME NEW u \in Threads, u # t
       PROVE  ThreadOK(u)'
  <2>1. ThreadOK(u) /\ (pc[u] \in WithObject => fp[u] \in Objs) /\ fp[u] # fp[t]
    BY <1>1, <1>11, <1>13 DEF ThreadOK, RefsOK
  <2>2. /\ pc[u] \in Locking => f_lock'[fp[u]] = u
        /\ hashlock = u => hashlock' = u
    BY <1>2, <2>1 DEF ThreadOK, LocksOK
  <2>3. ref[u] \in Refs => held'[ref[u]] = held[ref[u]]
    BY <1>1, <1>4, <1>6, <1>13, NoneAssumption DEF CallsApart
  <2>4. pc[u] \in WithObject =>
            \A r \in Refs : held[r] = <<u, fp[u]>> => held'[r] = <<u, fp[u]>>
    BY <1>4, <1>6, <1>13
  <2>5. pc[u] = "r_unlink" => \A r \in Refs \ {ref[u]} : held'[r] \notin To(fp[u])
    <3> SUFFICES ASSUME pc[u] = "r_unlink", NEW r \in Refs, r # ref[u]
                 PROVE  held'[r] \notin To(fp[u])
      OBVIOUS
    <3>1. held[r] \notin To(fp[u])
      BY <2>1 DEF ThreadOK, ObjectOK
    <3>2. fp[u] \in Objs
      BY <2>1 DEF WithObject, Owning
    <3> QED  BY <1>6, <3>1, <3>2, NoneAssumption DEF To
  <2>6. /\ pc[u] \in Finding \cup Leaving => fp[u] \in Listed
        /\ pc[u] \in Creating \cup Freeing => fp[u] \notin Listed /\ mem[fp[u]] # "free"
        /\ pc[u] \in Creating => f_count[fp[u]] = 1
        /\ pc[u] \in Fresh => mem[fp[u]] = "init"
        /\ Mutex2 /\ pc[u] \in Decrementing => f_count[fp[u]] # 1
    BY <2>1 DEF ThreadOK, ObjectOK
  <2> QED
    BY <1>2, <1>5, <1>8, <1>13, <2>1, <2>2, <2>3, <2>4, <2>5, <2>6, OtherThread DEF WithObject
<1>14. Objects'
  <2>1. \A o \in Listed' : mem'[o] # "free"
    BY <1>1, <1>2, <1>8 DEF Objects
  <2>2. \A o \in Objs : mem'[o] # "free" => f_id'[o] \in Ids
    BY <1>1, <1>2 DEF Objects
  <2>3. ASSUME NEW r \in Refs, held'[r] # NoRef
        PROVE  held'[r][2] \in Listed'
    <3>1. r # ref[t] /\ held'[r] = held[r] /\ held[r] \in Threads \X Objs
      BY <1>1, <1>6, <2>3 DEF TypeOK
    <3>2. held[r][2] # fp[t]
      BY <1>4, <3>1 DEF To
    <3> QED  BY <1>1, <1>8, <2>3, <3>1, <3>2 DEF Objects
  <2>4. ASSUME NEW o \in Listed'
        PROVE  \/ f_count'[o] = HowMany(held', To(o))
               \/ \E u \in Threads : pc'[u] = "r_unlink" /\ fp'[u] = o
    <3>1. o \in Objs /\ o # fp[t] /\ o \in Listed
      BY <1>1, <1>8, ListedObjs
    <3>2. NoRef \notin To(o) /\ held[ref[t]] \notin To(o)
      BY <1>4, <3>1, ToObject
    <3>3. HowMany(held', To(o)) = HowMany(held, To(o))
      BY <1>1, <1>2, <1>4, <3>1, <3>2, CountMove
    <3>4. f_count'[o] = f_count[o]
      BY <1>2
    <3>5. CASE f_count[o] = HowMany(held, To(o))
      BY <3>3, <3>4, <3>5
    <3>6. CASE \E u \in Threads : pc[u] = "r_unlink" /\ fp[u] = o
      BY <1>5, <3>1, <3>6
    <3> QED  BY <1>1, <3>1, <3>5, <3>6 DEF Objects
  <2> QED  BY <2>1, <2>2, <2>3, <2>4 DEF Objects
<1>15. Creators'
  <2>1. \A u \in Threads : pc[u] \in Fresh => pc'[u] = pc[u] /\ fp'[u] = fp[u]
    BY <1>3, <1>5
  <2>2. \A r \in Refs, u \in Threads, o \in Objs : held'[r] = <<u, o>> => held[r] = <<u, o>>
    BY <1>6, NoneAssumption
  <2> QED  BY <1>1, <1>2, <1>10, <2>1, <2>2 DEF Creators
<1>16. CallsApart'
  BY <1>1, <1>2, <1>3, GotoCallsApart
<1> QED  BY <1>8, <1>9, <1>12, <1>13, <1>14, <1>15, <1>16 DEF IInv

-----------------------------------------------------------------------------
(* The other steps inside a call *)

\* "... continue initialization ..."
LEMMA InitialiseStep ==
    ASSUME IInv, NEW t \in Threads, Initialise(t), which' = which
    PROVE  IInv'
<1> USE DEF memory
<1>1. TypeOK /\ Lists /\ Objects /\ Creators /\ CallsApart /\ \A u \in Threads : ThreadOK(u)
  BY DEF IInv
<1>2. /\ pc[t] = "a_init" /\ Goto(t, "a_funlock")
      /\ UNCHANGED <<fh, hashlock, f_count, f_id, f_lock, held, which>>
      /\ mem' = [mem EXCEPT ![fp[t]] = "ready"]
  BY DEF Initialise
<1>3. /\ pc[t] # "idle" /\ pc[t] \in Owning /\ pc[t] # "r_unlink" /\ pc[t] \in Fresh /\ pc[t] \in Locking
      /\ "a_funlock" \in Labels /\ "a_funlock" \in Owning /\ "a_funlock" \in Pcs
      /\ "a_funlock" \notin Creating \cup Sharing \cup Finding \cup Leaving \cup Freeing \cup Searching
      /\ "a_funlock" \notin Fresh /\ "a_funlock" \notin Decrementing /\ "a_funlock" \notin Hashing
  BY <1>2 DEF Labels, Owning, Creating, Sharing, Finding, Leaving, Freeing, Searching, Fresh,
              Decrementing, Hashing, Locking, Pcs
<1>4. /\ fp[t] \in Objs /\ mem[fp[t]] = "init"
      /\ ref[t] \in Refs /\ held[ref[t]] = <<t, fp[t]>>
  BY <1>1, <1>3, RefOwner DEF ThreadOK, RefsOK, ObjectOK, WithObject
<1>5. /\ pc'[t] = "a_funlock" /\ fp'[t] = fp[t] /\ ref'[t] = ref[t] /\ want'[t] = want[t]
      /\ \A u \in Threads \ {t} : /\ pc'[u] = pc[u] /\ fp'[u] = fp[u]
                                  /\ want'[u] = want[u] /\ ref'[u] = ref[u]
  BY <1>1, <1>2, <1>3, GotoEffect
<1>6. mem'[fp[t]] = "ready" /\ \A o \in Objs \ {fp[t]} : mem'[o] = mem[o]
  BY <1>1, <1>2, <1>4 DEF TypeOK
<1>7. TypeOK'
  <2>1. mem' \in [Objs -> {"free", "init", "ready"}]
    BY <1>1, <1>2, <1>4 DEF TypeOK
  <2> QED  BY <1>1, <1>2, <1>3, <2>1, GotoEffect DEF TypeOK
<1>8. Listed' = Listed /\ Mutex2' = Mutex2 /\ Pcs' = Pcs /\ Hashing' = Hashing /\ Locking' = Locking
  BY <1>2, SameWhich DEF Listed
<1>9. ThreadOK(t)'
  <2>1. LocksOK(t)'
    BY <1>1, <1>2, <1>3, <1>5, <1>8 DEF LocksOK, ThreadOK
  <2>2. RefsOK(t)'
    BY <1>2, <1>3, <1>4, <1>5 DEF RefsOK, WithObject
  <2>3. ObjectOK(t)'
    BY <1>3, <1>5, <1>8 DEF ObjectOK
  <2> QED  BY <2>1, <2>2, <2>3 DEF ThreadOK
<1>10. ASSUME NEW u \in Threads, u # t
       PROVE  ThreadOK(u)'
  <2>1. ThreadOK(u) /\ (pc[u] \in WithObject => fp[u] \in Objs)
    BY <1>1 DEF ThreadOK, RefsOK
  <2>2. pc[u] \in Locking => f_lock'[fp[u]] = u
    BY <1>2, <2>1 DEF ThreadOK, LocksOK
  <2>3. pc[u] \in Creating \cup Freeing => /\ fp[u] # fp[t] /\ fp[u] \notin Listed
                                           /\ mem'[fp[u]] # "free"
    BY <1>6, <1>10, <2>1 DEF ThreadOK, ObjectOK, WithObject
  <2>4. pc[u] \in Fresh => mem'[fp[u]] = "init"
    <3> SUFFICES ASSUME pc[u] \in Fresh
                 PROVE  mem'[fp[u]] = "init"
      OBVIOUS
    <3>1. fp[u] # fp[t] /\ fp[u] \in Objs
      BY <1>1, <1>3, <1>10, <2>1, FreshPlaces DEF CallsApart, WithObject
    <3> QED  BY <1>6, <2>1, <3>1 DEF ThreadOK, ObjectOK
  <2>5. /\ pc[u] \in Finding \cup Leaving => fp[u] \in Listed
        /\ pc[u] \in Creating => f_count[fp[u]] = 1
        /\ pc[u] = "r_unlink" => \A r \in Refs \ {ref[u]} : held[r] \notin To(fp[u])
        /\ Mutex2 /\ pc[u] \in Decrementing => f_count[fp[u]] # 1
    BY <2>1 DEF ThreadOK, ObjectOK
  <2> QED
    BY <1>2, <1>5, <1>8, <1>10, <2>1, <2>2, <2>3, <2>4, <2>5, OtherThread
<1>11. Lists'
  BY <1>1, <1>2 DEF Lists
<1>12. Objects'
  <2>1. \A o \in Listed' : mem'[o] # "free"
    BY <1>1, <1>6, <1>8, ListedObjs DEF Objects
  <2>2. \A o \in Objs : mem'[o] # "free" => f_id'[o] \in Ids
    BY <1>1, <1>2, <1>4, <1>6 DEF Objects
  <2>3. \A u \in Threads : pc[u] = "r_unlink" => pc'[u] = "r_unlink" /\ fp'[u] = fp[u]
    BY <1>3, <1>5
  <2> QED  BY <1>1, <1>2, <1>8, <2>1, <2>2, <2>3 DEF Objects
<1>13. Creators'
  <2>1. \A u \in Threads : pc[u] \in Fresh /\ fp[u] # fp[t] => pc'[u] \in Fresh /\ fp'[u] = fp[u]
    BY <1>5
  <2>2. \A o \in Objs : mem'[o] = "init" => mem[o] = "init" /\ o # fp[t]
    BY <1>4, <1>6
  <2> QED  BY <1>1, <1>2, <1>8, <2>1, <2>2 DEF Creators
<1>14. CallsApart'
  BY <1>1, <1>2, <1>3, GotoCallsApart
<1> QED  BY <1>7, <1>9, <1>10, <1>11, <1>12, <1>13, <1>14 DEF IInv

\* pthread_mutex_destroy and free
LEMMA FreeStep ==
    ASSUME IInv, NEW t \in Threads, Free(t), which' = which
    PROVE  IInv'
<1>1. TypeOK /\ Lists /\ Objects /\ Creators /\ CallsApart /\ \A u \in Threads : ThreadOK(u)
  BY DEF IInv
<1>2. /\ pc[t] = "r_free" /\ Goto(t, "idle") /\ UNCHANGED <<fh, hashlock, held, which>>
      /\ mem' = [mem EXCEPT ![fp[t]] = "free"]
      /\ f_count' = [f_count EXCEPT ![fp[t]] = 0]
      /\ f_id' = [f_id EXCEPT ![fp[t]] = NoId]
      /\ f_lock' = [f_lock EXCEPT ![fp[t]] = NoThread]
  BY DEF Free
<1>3. /\ pc[t] \in Freeing /\ pc[t] \notin Fresh
      /\ "idle" \in Labels /\ "idle" \in Pcs /\ "idle" \notin WithObject /\ "idle" \notin Searching
      /\ "idle" \notin Fresh /\ "idle" \notin Decrementing /\ "idle" \notin Hashing /\ "idle" \notin Locking
  BY <1>2 DEF Labels, WithObject, Owning, Creating, Sharing, Finding, Leaving, Freeing, Searching, Fresh,
              Decrementing, Hashing, Locking, Pcs
<1>4. /\ fp[t] \in Objs /\ fp[t] \notin Listed
      /\ \A u \in Threads \ {t} : fp[u] # fp[t]
  BY <1>1, <1>3 DEF ThreadOK, RefsOK, ObjectOK, WithObject
<1>5. /\ pc'[t] = "idle" /\ fp'[t] = NoObj /\ ref'[t] = NoRef /\ want'[t] = NoId
      /\ \A u \in Threads \ {t} : /\ pc'[u] = pc[u] /\ fp'[u] = fp[u]
                                  /\ want'[u] = want[u] /\ ref'[u] = ref[u]
  BY <1>1, <1>2, <1>3, GotoEffect
<1>6. /\ mem'[fp[t]] = "free"
      /\ \A o \in Objs \ {fp[t]} : /\ mem'[o] = mem[o] /\ f_count'[o] = f_count[o]
                                   /\ f_id'[o] = f_id[o] /\ f_lock'[o] = f_lock[o]
  BY <1>1, <1>2, <1>4 DEF TypeOK
<1>7. TypeOK'
  <2>1. /\ mem' \in [Objs -> {"free", "init", "ready"}]
        /\ f_count' \in [Objs -> Nat]
        /\ f_lock' \in [Objs -> Threads \cup {NoThread}]
        /\ f_id' \in [Objs -> Ids \cup {NoId}]
    BY <1>1, <1>2, <1>4 DEF TypeOK
  <2> QED  BY <1>1, <1>2, <1>3, <2>1, GotoEffect DEF TypeOK
<1>8. Listed' = Listed /\ Mutex2' = Mutex2 /\ Pcs' = Pcs /\ Hashing' = Hashing /\ Locking' = Locking
  BY <1>2, SameWhich DEF Listed
<1>9. ThreadOK(t)'
  <2>1. LocksOK(t)'
    BY <1>3, <1>5, <1>8 DEF LocksOK
  <2>2. RefsOK(t)'
    BY <1>3, <1>5 DEF RefsOK, WithObject
  <2>3. ObjectOK(t)'
    BY <1>3, <1>5, <1>8 DEF ObjectOK, WithObject
  <2> QED  BY <2>1, <2>2, <2>3 DEF ThreadOK
<1>10. ASSUME NEW u \in Threads, u # t
       PROVE  ThreadOK(u)'
  <2>1. ThreadOK(u) /\ (pc[u] \in WithObject => fp[u] \in Objs) /\ fp[u] # fp[t]
    BY <1>1, <1>4, <1>10 DEF ThreadOK, RefsOK
  <2>2. pc[u] \in Locking => f_lock'[fp[u]] = u
    BY <1>6, <2>1, LockingPlaces DEF ThreadOK, LocksOK
  <2>3. pc[u] \in Creating \cup Freeing => /\ fp'[t] # fp[u] /\ fp[u] \notin Listed
                                           /\ mem'[fp[u]] # "free"
    BY <1>5, <1>6, <1>10, <2>1, NoneAssumption DEF ThreadOK, ObjectOK, WithObject
  <2>4. /\ pc[u] \in Fresh => mem'[fp[u]] = "init"
        /\ pc[u] \in Creating => f_count'[fp[u]] = 1
    <3>1. pc[u] \in Fresh \cup Creating => fp[u] \in Objs \ {fp[t]}
      BY <2>1, FreshPlaces DEF WithObject
    <3> QED  BY <1>6, <2>1, <3>1 DEF ThreadOK, ObjectOK
  <2>5. Mutex2 /\ pc[u] \in Decrementing => f_count'[fp[u]] # 1
    <3>1. Decrementing \subseteq WithObject  BY DEF Decrementing, WithObject, Owning
    <3> QED  BY <1>6, <2>1, <3>1 DEF ThreadOK, ObjectOK
  <2>6. /\ pc[u] \in Finding \cup Leaving => fp[u] \in Listed
        /\ pc[u] = "r_unlink" => \A r \in Refs \ {ref[u]} : held[r] \notin To(fp[u])
    BY <2>1 DEF ThreadOK, ObjectOK
  <2> QED
    BY <1>2, <1>5, <1>8, <1>10, <2>1, <2>2, <2>3, <2>4, <2>5, <2>6, OtherThread
<1>11. Lists'
  <2>1. \A b \in Buckets : \A k \in 1..Len(fh[b]) : fh[b][k] \in Objs \ {fp[t]}
    BY <1>1, <1>4, ListedAt, ListedObjs
  <2>2. \A b \in Buckets : \A k \in 1..Len(fh[b]) : f_id'[fh[b][k]] = f_id[fh[b][k]]
    BY <1>6, <2>1
  <2> QED  BY <1>1, <1>2, <2>2 DEF Lists, HASH
<1>12. Objects'
  <2>1. \A o \in Listed : o \in Objs \ {fp[t]}
    BY <1>1, <1>4, ListedObjs
  <2>2. \A o \in Listed' : mem'[o] # "free"
    BY <1>1, <1>6, <1>8, <2>1 DEF Objects
  <2>3. \A o \in Objs : mem'[o] # "free" => f_id'[o] \in Ids
    BY <1>1, <1>6 DEF Objects
  <2>4. \A o \in Listed : f_count'[o] = f_count[o]
    BY <1>6, <2>1
  <2>5. \A u \in Threads : pc[u] = "r_unlink" => pc'[u] = "r_unlink" /\ fp'[u] = fp[u]
    BY <1>2, <1>5
  <2> QED  BY <1>1, <1>2, <1>8, <2>2, <2>3, <2>4, <2>5 DEF Objects
<1>13. Creators'
  <2>1. \A u \in Threads : pc[u] \in Fresh => pc'[u] \in Fresh /\ fp'[u] = fp[u]
    BY <1>3, <1>5
  <2>2. \A o \in Objs : mem'[o] = "init" => mem[o] = "init"
    BY <1>4, <1>6
  <2> QED  BY <1>1, <1>2, <1>8, <2>1, <2>2 DEF Creators
<1>14. CallsApart'
  BY <1>1, <1>2, <1>3, GotoCallsApart
<1> QED  BY <1>7, <1>9, <1>10, <1>11, <1>12, <1>13, <1>14 DEF IInv

\* The search of foo_find.
LEMMA LookStep ==
    ASSUME IInv, NEW t \in Threads, NEW found \in Finding \ Locking, Look(t, found, "f_hunlock"),
           found \in Pcs, found \in Labels, which' = which
    PROVE  IInv'
<1> USE DEF memory
<1>1. TypeOK /\ Lists /\ Objects /\ Creators /\ CallsApart /\ \A u \in Threads : ThreadOK(u)
  BY DEF IInv
<1>2. pc[t] = "f_look" /\ UNCHANGED <<fh, hashlock, memory, f_lock, held, which>>
  BY DEF Look
<1>3. CASE Goto(t, "f_hunlock")
  <2>1. /\ Kept("f_look", "f_hunlock") /\ "f_look" \in Hashing
        /\ "f_hunlock" \in Labels /\ "f_hunlock" \notin Locking /\ "f_hunlock" \notin Decrementing
    BY DEF Kept, Pcs, Creating, Sharing, Finding, Owning, Leaving, Freeing, Fresh, Searching, Hashing,
           Locking, Decrementing, Labels
  <2>2. hashlock = t
    BY <1>1, <1>2, <2>1 DEF ThreadOK, LocksOK
  <2>3. ThreadOK(t)'
    BY <1>2, <1>3, <2>1, <2>2, ControlThread
  <2>4. pc[t] # "r_unlink" /\ (pc[t] \in Fresh <=> "f_hunlock" \in Fresh)
    BY <1>2, <2>1 DEF Kept
  <2> QED  BY <1>1, <1>2, <1>3, <2>1, <2>3, <2>4, ControlStep DEF TypeOK
<1>4. CASE ~Goto(t, "f_hunlock")
  <2>1. PICK o : /\ o \in Listed
                 /\ fp' = [fp EXCEPT ![t] = o] /\ pc' = [pc EXCEPT ![t] = found]
                 /\ want' = want /\ ref' = ref
    <3>1. PICK k \in 1..Len(fh[HASH(want[t])]) :
             /\ fp' = [fp EXCEPT ![t] = fh[HASH(want[t])][k]]
             /\ pc' = [pc EXCEPT ![t] = found]
             /\ UNCHANGED <<want, ref>>
      BY <1>4 DEF Look
    <3>2. HASH(want[t]) \in Buckets
      BY <1>1, <1>2, HashInRange DEF ThreadOK, RefsOK, Searching
    <3> QED  BY <3>1, <3>2, ListedAt
  <2>2. o \in Objs
    BY <1>1, <2>1, ListedObjs
  <2>3. /\ "f_look" \in Searching /\ "f_look" \in Hashing /\ "f_look" \notin Fresh
        /\ found \in Finding /\ found \notin Locking /\ found # "idle" /\ found # "f_hunlock"
        /\ found \notin Creating \cup Sharing \cup Owning \cup Leaving \cup Freeing \cup Searching
        /\ found \notin Fresh /\ found # "r_unlink" /\ found \notin Decrementing
    BY DEF Searching, Hashing, Fresh, Finding, Creating, Sharing, Owning, Leaving, Freeing, Decrementing
  <2>4. hashlock = t /\ ref[t] \in Refs /\ held[ref[t]] = NoRef
    BY <1>1, <1>2, <2>3 DEF ThreadOK, LocksOK, RefsOK
  <2>5. /\ pc'[t] = found /\ fp'[t] = o
        /\ \A u \in Threads \ {t} : pc'[u] = pc[u] /\ fp'[u] = fp[u]
    BY <1>1, <2>1 DEF TypeOK
  <2>6. TypeOK'
    BY <1>1, <1>2, <2>1, <2>2 DEF TypeOK
  <2>7. Listed' = Listed /\ Mutex2' = Mutex2 /\ Pcs' = Pcs /\ Hashing' = Hashing /\ Locking' = Locking
    BY <1>2, SameWhich DEF Listed
  <2>8. ThreadOK(t)'
    <3>1. LocksOK(t)'
      BY <1>2, <2>3, <2>4, <2>5, <2>7 DEF LocksOK
    <3>2. RefsOK(t)'
      BY <1>2, <2>1, <2>2, <2>3, <2>4, <2>5 DEF RefsOK, WithObject
    <3>3. ObjectOK(t)'
      BY <2>1, <2>3, <2>5, <2>7 DEF ObjectOK
    <3> QED  BY <3>1, <3>2, <3>3 DEF ThreadOK
  <2>9. ASSUME NEW u \in Threads, u # t
        PROVE  ThreadOK(u)'
    <3>1. ThreadOK(u)
      BY <1>1
    <3>2. pc[u] \in Locking => f_lock'[fp[u]] = u
      BY <1>2, <3>1 DEF ThreadOK, LocksOK
    <3>3. /\ pc[u] \in Finding \cup Leaving => fp[u] \in Listed
          /\ pc[u] \in Creating \cup Freeing => fp[u] \notin Listed /\ mem[fp[u]] # "free"
          /\ pc[u] \in Creating => f_count[fp[u]] = 1
          /\ pc[u] \in Fresh => mem[fp[u]] = "init"
          /\ pc[u] = "r_unlink" => \A r \in Refs \ {ref[u]} : held[r] \notin To(fp[u])
          /\ Mutex2 /\ pc[u] \in Decrementing => f_count[fp[u]] # 1
      BY <3>1 DEF ThreadOK, ObjectOK
    <3>4. pc[u] \in Creating \cup Freeing => fp'[t] # fp[u]
      BY <2>1, <2>5, <3>3
    <3> QED  BY <1>2, <2>1, <2>5, <2>7, <2>9, <3>1, <3>2, <3>3, <3>4, OtherThread
  <2>10. Lists'
    BY <1>1, <1>2 DEF Lists
  <2>11. Objects'
    <3>1. \A u \in Threads : pc[u] = "r_unlink" => pc'[u] = "r_unlink" /\ fp'[u] = fp[u]
      BY <1>2, <2>5
    <3> QED  BY <1>1, <1>2, <2>7, <3>1 DEF Objects
  <2>12. Creators'
    <3>1. \A u \in Threads : pc[u] \in Fresh => pc'[u] \in Fresh /\ fp'[u] = fp[u]
      BY <1>2, <2>3, <2>5
    <3> QED  BY <1>1, <1>2, <2>7, <3>1 DEF Creators
  <2>13. CallsApart'
    BY <1>1, <2>1, <2>3, <2>5 DEF CallsApart
  <2> QED  BY <2>6, <2>8, <2>9, <2>10, <2>11, <2>12, <2>13 DEF IInv
<1> QED  BY <1>3, <1>4

-----------------------------------------------------------------------------
(* The calls *)

\* A call of t changes its locals only.
LEMMA CallEffect ==
    ASSUME TypeOK, NEW t \in Threads, NEW r \in Refs, NEW o \in Objs \cup {NoObj},
           NEW id \in Ids \cup {NoId}, NEW there \in Labels, Call(t, r, o, id, there)
    PROVE  /\ pc[t] = "idle" /\ UNCHANGED <<fh, hashlock, f_lock, held>>
           /\ pc'[t] = there /\ fp'[t] = o /\ want'[t] = id /\ ref'[t] = r
           /\ \A u \in Threads \ {t} : /\ pc'[u] = pc[u] /\ fp'[u] = fp[u]
                                       /\ want'[u] = want[u] /\ ref'[u] = ref[u]
           /\ pc' \in [Threads -> Labels]
           /\ fp' \in [Threads -> Objs \cup {NoObj}]
           /\ want' \in [Threads -> Ids \cup {NoId}]
           /\ ref' \in [Threads -> Refs \cup {NoRef}]
BY DEF Call, TypeOK

\* The reference of a call is new to the other calls.
LEMMA CallCallsApart ==
    ASSUME CallsApart, NEW t \in Threads, NEW r, ref'[t] = r,
           \A u \in Threads \ {t} : ref[u] # r,
           \A u \in Threads \ {t} : pc'[u] = pc[u] /\ fp'[u] = fp[u] /\ ref'[u] = ref[u],
           pc'[t] \in Fresh => \A u \in Threads \ {t} : fp[u] # fp'[t]
    PROVE  CallsApart'
BY DEF CallsApart

\* A reference is spare or there is none.
LEMMA SpareRef ==
    ASSUME \E r \in Refs : Spare(r)
    PROVE  NewRef \in Refs /\ Spare(NewRef)
BY DEF NewRef

\* The locals of a call that does not allocate.
LEMMA CallStep ==
    ASSUME IInv, NEW t \in Threads, NEW r \in Refs, NEW o \in Objs \cup {NoObj},
           NEW id \in Ids \cup {NoId}, NEW there \in Labels, Call(t, r, o, id, there),
           UNCHANGED <<memory, which>>,
           \A u \in Threads \ {t} : ref[u] # r,
           there \in Pcs, there \notin Fresh, there # "r_unlink",
           o # NoObj => o \in Listed,
           ThreadOK(t)'
    PROVE  IInv'
<1> USE DEF memory
<1>1. TypeOK /\ Lists /\ Objects /\ Creators /\ CallsApart /\ \A u \in Threads : ThreadOK(u)
  BY DEF IInv
<1>2. /\ pc[t] = "idle" /\ UNCHANGED <<fh, hashlock, f_lock, held>>
      /\ pc'[t] = there /\ fp'[t] = o /\ want'[t] = id /\ ref'[t] = r
      /\ \A u \in Threads \ {t} : /\ pc'[u] = pc[u] /\ fp'[u] = fp[u]
                                  /\ want'[u] = want[u] /\ ref'[u] = ref[u]
  BY <1>1, CallEffect
<1>3. TypeOK'
  BY <1>1, <1>2, CallEffect DEF TypeOK
<1>4. Listed' = Listed /\ Mutex2' = Mutex2
  BY <1>2, SameWhich DEF Listed
<1>5. ASSUME NEW u \in Threads, u # t
      PROVE  ThreadOK(u)'
  <2>1. ThreadOK(u) /\ (pc[u] \in WithObject => fp[u] \in Objs)
    BY <1>1 DEF ThreadOK, RefsOK
  <2>2. pc[u] \in Locking => f_lock'[fp[u]] = u
    BY <1>2, <2>1 DEF ThreadOK, LocksOK
  <2>3. /\ pc[u] \in Finding \cup Leaving => fp[u] \in Listed
        /\ pc[u] \in Creating \cup Freeing => fp[u] \notin Listed /\ mem[fp[u]] # "free"
        /\ pc[u] \in Creating => f_count[fp[u]] = 1
        /\ pc[u] \in Fresh => mem[fp[u]] = "init"
        /\ pc[u] = "r_unlink" => \A s \in Refs \ {ref[u]} : held[s] \notin To(fp[u])
        /\ Mutex2 /\ pc[u] \in Decrementing => f_count[fp[u]] # 1
    BY <2>1 DEF ThreadOK, ObjectOK
  <2>4. pc[u] \in Creating \cup Freeing => fp'[t] # fp[u]
    BY <1>2, <2>1, <2>3, NoneAssumption DEF WithObject
  <2> QED  BY <1>2, <1>4, <1>5, <2>1, <2>2, <2>3, <2>4, OtherThread, SMTT(30)
<1>6. Lists'
  BY <1>1, <1>2 DEF Lists
<1>7. \A u \in Threads : pc[u] # "idle" => pc'[u] = pc[u] /\ fp'[u] = fp[u]
  BY <1>2
<1>8. Objects'
  BY <1>1, <1>2, <1>4, <1>7 DEF Objects
<1>9. Creators'
  BY <1>1, <1>2, <1>4, <1>7, FreshPlaces DEF Creators
<1>10. CallsApart'
  BY <1>1, <1>2, CallCallsApart
<1> QED  BY <1>3, <1>5, <1>6, <1>8, <1>9, <1>10 DEF IInv

\* foo_hold is called for an object that the caller has a reference to.
LEMMA CallHoldStep ==
    ASSUME IInv, NEW t \in Threads, CallHold(t), which' = which
    PROVE  IInv'
<1>1. TypeOK /\ Objects
  BY DEF IInv
<1>2. PICK mine \in Refs, o \in Objs :
         /\ NewRef \in Refs /\ Spare(NewRef) /\ held[mine] = <<t, o>>
         /\ Call(t, NewRef, o, NoId, "h_lock") /\ UNCHANGED memory
  BY SpareRef DEF CallHold
<1>3. PICK r \in Refs : r = NewRef
  BY <1>2
<1>4. /\ "h_lock" \in Labels /\ "h_lock" \in Pcs /\ "h_lock" \notin Fresh /\ "h_lock" \in Sharing
      /\ "h_lock" \notin Creating \cup Finding \cup Owning \cup Leaving \cup Freeing \cup Searching
      /\ "h_lock" \notin Hashing \cup Locking \cup Decrementing
  BY DEF Labels, Pcs, Fresh, Sharing, Creating, Finding, Owning, Leaving, Freeing, Searching, Hashing,
         Locking, Decrementing
<1>5. Call(t, r, o, NoId, "h_lock") /\ held[r] = NoRef /\ \A u \in Threads : ref[u] # r
  BY <1>2, <1>3 DEF Spare
<1>6. /\ pc'[t] = "h_lock" /\ fp'[t] = o /\ ref'[t] = r /\ held' = held
  BY <1>1, <1>4, <1>5, CallEffect
<1>7. Mutex2' = Mutex2 /\ Pcs' = Pcs /\ Hashing' = Hashing /\ Locking' = Locking
  BY SameWhich
<1>8. o \in Listed
  <2>1. held[mine] # NoRef  BY <1>2, NoneAssumption
  <2> QED  BY <1>1, <1>2, <2>1 DEF Objects
<1>9. ThreadOK(t)'
  <2>1. LocksOK(t)'
    BY <1>4, <1>6, <1>7 DEF LocksOK
  <2>2. RefsOK(t)'
    BY <1>2, <1>4, <1>5, <1>6 DEF RefsOK, WithObject
  <2>3. ObjectOK(t)'
    BY <1>4, <1>6 DEF ObjectOK
  <2> QED  BY <2>1, <2>2, <2>3 DEF ThreadOK
<1> QED  BY <1>2, <1>4, <1>5, <1>8, <1>9, CallStep

\* foo_find
LEMMA CallFindStep ==
    ASSUME IInv, NEW t \in Threads, CallFind(t), which' = which
    PROVE  IInv'
<1>1. TypeOK /\ Objects
  BY DEF IInv
<1>2. PICK id \in Ids :
         /\ NewRef \in Refs /\ Spare(NewRef)
         /\ Call(t, NewRef, NoObj, id, "f_hlock") /\ UNCHANGED memory
  BY SpareRef DEF CallFind
<1>3. PICK r \in Refs : r = NewRef
  BY <1>2
<1>4. /\ "f_hlock" \in Labels /\ "f_hlock" \in Pcs /\ "f_hlock" \notin Fresh /\ "f_hlock" \in Searching
      /\ "f_hlock" \notin Creating \cup Sharing \cup Finding \cup Owning \cup Leaving \cup Freeing
      /\ "f_hlock" \notin Hashing \cup Locking \cup Decrementing
  BY DEF Labels, Pcs, Fresh, Sharing, Creating, Finding, Owning, Leaving, Freeing, Searching, Hashing,
         Locking, Decrementing
<1>5. Call(t, r, NoObj, id, "f_hlock") /\ held[r] = NoRef /\ \A u \in Threads : ref[u] # r
  BY <1>2, <1>3 DEF Spare
<1>6. /\ pc'[t] = "f_hlock" /\ fp'[t] = NoObj /\ want'[t] = id /\ ref'[t] = r /\ held' = held
  BY <1>1, <1>4, <1>5, CallEffect
<1>7. Mutex2' = Mutex2 /\ Pcs' = Pcs /\ Hashing' = Hashing /\ Locking' = Locking
  BY SameWhich
<1>8. ThreadOK(t)'
  <2>1. LocksOK(t)'
    BY <1>4, <1>6, <1>7 DEF LocksOK
  <2>2. RefsOK(t)'
    BY <1>2, <1>4, <1>5, <1>6 DEF RefsOK, WithObject
  <2>3. ObjectOK(t)'
    BY <1>4, <1>6 DEF ObjectOK
  <2> QED  BY <2>1, <2>2, <2>3 DEF ThreadOK
<1> QED  BY <1>2, <1>4, <1>5, <1>8, CallStep

\* foo_rele is called for a reference that the caller has.
LEMMA CallReleStep ==
    ASSUME IInv, NEW t \in Threads, CallRele(t), which' = which
    PROVE  IInv'
<1>1. TypeOK /\ Objects
  BY DEF IInv
<1>2. PICK r \in Refs, o \in Objs :
         held[r] = <<t, o>> /\ Call(t, r, o, NoId, "r_lock") /\ UNCHANGED memory
  BY DEF CallRele
<1>3. held[r] # NoRef /\ o \in Listed
  <2>1. held[r] # NoRef  BY <1>2, NoneAssumption
  <2> QED  BY <1>1, <1>2, <2>1 DEF Objects
<1>4. /\ "r_lock" \in Labels /\ "r_lock" \in Pcs /\ "r_lock" \notin Fresh /\ "r_lock" \in Owning
      /\ "r_lock" \notin Creating \cup Sharing \cup Finding \cup Leaving \cup Freeing \cup Searching
      /\ "r_lock" \notin Hashing \cup Locking \cup Decrementing
  BY DEF Labels, Pcs, Fresh, Sharing, Creating, Finding, Owning, Leaving, Freeing, Searching, Hashing,
         Locking, Decrementing
<1>5. \A u \in Threads \ {t} : ref[u] # r
  BY <1>2, <1>3, RefOwner
<1>6. /\ pc'[t] = "r_lock" /\ fp'[t] = o /\ ref'[t] = r /\ held' = held
  BY <1>1, <1>2, <1>4, CallEffect
<1>7. Mutex2' = Mutex2 /\ Pcs' = Pcs /\ Hashing' = Hashing /\ Locking' = Locking
  BY SameWhich
<1>8. ThreadOK(t)'
  <2>1. LocksOK(t)'
    BY <1>4, <1>6, <1>7 DEF LocksOK
  <2>2. RefsOK(t)'
    BY <1>2, <1>4, <1>6 DEF RefsOK, WithObject
  <2>3. ObjectOK(t)'
    BY <1>4, <1>6 DEF ObjectOK
  <2> QED  BY <2>1, <2>2, <2>3 DEF ThreadOK
<1> QED  BY <1>2, <1>3, <1>4, <1>5, <1>8, CallStep

\* malloc of foo_alloc
LEMMA CallAllocStep ==
    ASSUME IInv, NEW t \in Threads, CallAlloc(t), which' = which
    PROVE  IInv'
<1>1. TypeOK /\ Lists /\ Objects /\ Creators /\ CallsApart /\ \A u \in Threads : ThreadOK(u)
  BY DEF IInv
<1>2. PICK o \in Objs, id \in Ids :
         /\ NewRef \in Refs /\ Spare(NewRef) /\ mem[o] = "free"
         /\ Call(t, NewRef, o, NoId, "a_hlock")
         /\ mem' = [mem EXCEPT ![o] = "init"]
         /\ f_count' = [f_count EXCEPT ![o] = 1]
         /\ f_id' = [f_id EXCEPT ![o] = id]
  BY SpareRef DEF CallAlloc
<1>3. PICK r \in Refs : r = NewRef
  BY <1>2
<1>4. /\ "a_hlock" \in Labels /\ "a_hlock" \in Pcs /\ "a_hlock" \in Fresh /\ "a_hlock" \in Creating
      /\ "a_hlock" \notin Sharing \cup Finding \cup Owning \cup Leaving \cup Freeing \cup Searching
      /\ "a_hlock" \notin Hashing \cup Locking \cup Decrementing
  BY DEF Labels, Pcs, Fresh, Sharing, Creating, Finding, Owning, Leaving, Freeing, Searching, Hashing,
         Locking, Decrementing
<1>5. Call(t, r, o, NoId, "a_hlock") /\ held[r] = NoRef /\ \A u \in Threads : ref[u] # r
  BY <1>2, <1>3 DEF Spare
<1>6. /\ pc[t] = "idle" /\ UNCHANGED <<fh, hashlock, f_lock, held>>
      /\ pc'[t] = "a_hlock" /\ fp'[t] = o /\ want'[t] = NoId /\ ref'[t] = r
      /\ \A u \in Threads \ {t} : /\ pc'[u] = pc[u] /\ fp'[u] = fp[u]
                                  /\ want'[u] = want[u] /\ ref'[u] = ref[u]
  BY <1>1, <1>4, <1>5, CallEffect
<1>7. /\ mem'[o] = "init" /\ f_count'[o] = 1 /\ f_id'[o] = id
      /\ \A p \in Objs \ {o} : mem'[p] = mem[p] /\ f_count'[p] = f_count[p] /\ f_id'[p] = f_id[p]
  BY <1>1, <1>2 DEF TypeOK
<1>8. o \notin Listed /\ \A u \in Threads : fp[u] # o
  <2>1. o \notin Listed
    BY <1>1, <1>2 DEF Objects
  <2>2. o # NoObj
    BY NoneAssumption
  <2> QED  BY <1>2, <2>1, <2>2, ObjectOwner
<1>9. TypeOK'
  <2>1. /\ mem' \in [Objs -> {"free", "init", "ready"}]
        /\ f_count' \in [Objs -> Nat]
        /\ f_id' \in [Objs -> Ids \cup {NoId}]
    BY <1>1, <1>2 DEF TypeOK
  <2> QED  BY <1>1, <1>4, <1>5, <1>6, <2>1, CallEffect DEF TypeOK
<1>10. Listed' = Listed /\ Mutex2' = Mutex2 /\ Pcs' = Pcs /\ Hashing' = Hashing /\ Locking' = Locking
  BY <1>6, SameWhich DEF Listed
<1>11. ThreadOK(t)'
  <2>1. LocksOK(t)'
    BY <1>4, <1>6, <1>10 DEF LocksOK
  <2>2. RefsOK(t)'
    BY <1>4, <1>5, <1>6 DEF RefsOK, WithObject
  <2>3. ObjectOK(t)'
    BY <1>4, <1>6, <1>7, <1>8, <1>10 DEF ObjectOK
  <2> QED  BY <2>1, <2>2, <2>3 DEF ThreadOK
<1>12. ASSUME NEW u \in Threads, u # t
       PROVE  ThreadOK(u)'
  <2>1. ThreadOK(u) /\ (pc[u] \in WithObject => fp[u] \in Objs) /\ fp[u] # o
    BY <1>1, <1>8 DEF ThreadOK, RefsOK
  <2>2. pc[u] \in Locking => f_lock'[fp[u]] = u
    BY <1>6, <2>1 DEF ThreadOK, LocksOK
  <2>3. pc[u] \in Creating \cup Freeing => /\ fp'[t] # fp[u] /\ fp[u] \notin Listed
                                           /\ mem'[fp[u]] # "free"
    BY <1>6, <1>7, <2>1 DEF ThreadOK, ObjectOK, WithObject
  <2>4. /\ pc[u] \in Fresh => mem'[fp[u]] = "init"
        /\ pc[u] \in Creating => f_count'[fp[u]] = 1
    <3>1. pc[u] \in Fresh \cup Creating => fp[u] \in Objs \ {o}
      BY <2>1, FreshPlaces DEF WithObject
    <3> QED  BY <1>7, <2>1, <3>1 DEF ThreadOK, ObjectOK
  <2>5. Mutex2 /\ pc[u] \in Decrementing => f_count'[fp[u]] # 1
    <3>1. Decrementing \subseteq WithObject  BY DEF Decrementing, WithObject, Owning
    <3> QED  BY <1>7, <2>1, <3>1 DEF ThreadOK, ObjectOK
  <2>6. /\ pc[u] \in Finding \cup Leaving => fp[u] \in Listed
        /\ pc[u] = "r_unlink" => \A s \in Refs \ {ref[u]} : held[s] \notin To(fp[u])
    BY <2>1 DEF ThreadOK, ObjectOK
  <2> QED
    BY <1>6, <1>10, <1>12, <2>1, <2>2, <2>3, <2>4, <2>5, <2>6, OtherThread
<1>13. Lists'
  <2>1. \A b \in Buckets : \A k \in 1..Len(fh[b]) : fh[b][k] \in Objs \ {o}
    BY <1>1, <1>8, ListedAt, ListedObjs
  <2>2. \A b \in Buckets : \A k \in 1..Len(fh[b]) : f_id'[fh[b][k]] = f_id[fh[b][k]]
    BY <1>7, <2>1
  <2> QED  BY <1>1, <1>6, <2>2 DEF Lists, HASH
<1>14. Objects'
  <2>1. \A p \in Listed : p \in Objs \ {o}
    BY <1>1, <1>8, ListedObjs
  <2>2. \A p \in Listed' : mem'[p] # "free"
    BY <1>1, <1>7, <1>10, <2>1 DEF Objects
  <2>3. \A p \in Objs : mem'[p] # "free" => f_id'[p] \in Ids
    BY <1>1, <1>7 DEF Objects
  <2>4. \A p \in Listed : f_count'[p] = f_count[p]
    BY <1>7, <2>1
  <2>5. \A u \in Threads : pc[u] = "r_unlink" => pc'[u] = "r_unlink" /\ fp'[u] = fp[u]
    BY <1>6
  <2> QED  BY <1>1, <1>6, <1>10, <2>2, <2>3, <2>4, <2>5 DEF Objects
<1>15. Creators'
  <2>1. \A u \in Threads : pc[u] \in Fresh => pc'[u] \in Fresh /\ fp'[u] = fp[u]
    BY <1>6, FreshPlaces
  <2>2. ASSUME NEW p \in Objs, mem'[p] = "init"
        PROVE  /\ \E u \in Threads : fp'[u] = p /\ pc'[u] \in Fresh
               /\ Mutex2 => \A s \in Refs, u \in Threads :
                                held'[s] = <<u, p>> => fp'[u] = p /\ pc'[u] \in Fresh
    <3>1. CASE p = o
      <4>1. \A s \in Refs, u \in Threads : held[s] # <<u, o>>
        <5> SUFFICES ASSUME NEW s \in Refs, NEW u \in Threads, held[s] = <<u, o>>
                     PROVE  FALSE
          OBVIOUS
        <5>1. held[s] # NoRef /\ held[s][2] = o  BY NoneAssumption
        <5>2. held[s][2] \in Listed  BY <1>1, <5>1 DEF Objects
        <5> QED  BY <1>8, <5>1, <5>2
      <4> QED  BY <1>4, <1>6, <3>1, <4>1
    <3>2. CASE p # o
      <4>1. mem[p] = "init"  BY <1>7, <2>2, <3>2
      <4> QED  BY <1>1, <1>6, <2>1, <4>1 DEF Creators
    <3> QED  BY <3>1, <3>2
  <2> QED  BY <1>10, <2>2 DEF Creators
<1>16. CallsApart'
  BY <1>1, <1>5, <1>6, <1>8, CallCallsApart
<1> QED  BY <1>9, <1>11, <1>12, <1>13, <1>14, <1>15, <1>16 DEF IInv

\* A client passes a reference on.
LEMMA GiveStep ==
    ASSUME IInv, NEW t \in Threads, NEW v \in Threads \ {t}, Give(t, v), which' = which
    PROVE  IInv'
<1> USE DEF memory, locals
<1>1. TypeOK /\ Lists /\ Objects /\ Creators /\ CallsApart /\ \A u \in Threads : ThreadOK(u)
  BY DEF IInv
<1>2. PICK r \in Refs, o \in Objs :
         /\ pc[t] = "idle" /\ held[r] = <<t, o>> /\ held' = [held EXCEPT ![r] = <<v, o>>]
         /\ UNCHANGED <<fh, hashlock, memory, f_lock, pc, locals>>
  BY DEF Give
<1>3. held'[r] = <<v, o>> /\ \A s \in Refs \ {r} : held'[s] = held[s]
  BY <1>1, <1>2 DEF TypeOK
<1>4. held[r] # NoRef /\ o \in Listed
  <2>1. held[r] # NoRef  BY <1>2, NoneAssumption
  <2> QED  BY <1>1, <1>2, <2>1, SMTT(30) DEF Objects
<1>5. \A u \in Threads : ref[u] # r
  <2>1. ref[t] # r
    BY <1>2, RefOwner, NoneAssumption
  <2> QED  BY <1>2, <1>4, <2>1, RefOwner
<1>6. TypeOK'
  <2>1. held' \in [Refs -> (Threads \X Objs) \cup {NoRef}]
    BY <1>1, <1>2 DEF TypeOK
  <2> QED  BY <1>1, <1>2, <2>1 DEF TypeOK
<1>7. Listed' = Listed /\ Mutex2' = Mutex2 /\ Pcs' = Pcs /\ Hashing' = Hashing /\ Locking' = Locking
  BY <1>2, SameWhich DEF Listed
<1>8. ASSUME NEW u \in Threads
      PROVE  ThreadOK(u)'
  <2>1. ThreadOK(u)
    BY <1>1
  <2>2. LocksOK(u)'
    BY <1>2, <1>7, <2>1 DEF ThreadOK, LocksOK
  <2>3. ref[u] \in Refs => held'[ref[u]] = held[ref[u]]
    BY <1>3, <1>5
  <2>4. pc[u] \in Sharing => u # t
    BY <1>2, NotIdle
  <2>5. pc[u] \in Sharing => \E s \in Refs : held'[s] = <<u, fp[u]>>
    BY <1>2, <1>3, <2>1, <2>4 DEF ThreadOK, RefsOK
  <2>6. RefsOK(u)'
    BY <1>2, <2>1, <2>3, <2>5, NotIdle DEF ThreadOK, RefsOK
  <2>7. pc[u] = "r_unlink" => \A s \in Refs \ {ref[u]} : held'[s] \notin To(fp[u])
    <3> SUFFICES ASSUME pc[u] = "r_unlink", NEW s \in Refs, s # ref[u]
                 PROVE  held'[s] \notin To(fp[u])
      OBVIOUS
    <3>1. \A q \in Refs \ {ref[u]} : held[q] \notin To(fp[u])
      BY <2>1 DEF ThreadOK, ObjectOK
    <3>2. held[r] \notin To(fp[u])
      BY <1>5, <3>1
    <3>3. fp[u] # o
      BY <1>2, <3>2 DEF To
    <3> QED  BY <1>3, <3>1, <3>3 DEF To
  <2>8. ObjectOK(u)'
    BY <1>2, <1>7, <2>1, <2>7 DEF ThreadOK, ObjectOK
  <2> QED  BY <2>2, <2>6, <2>8 DEF ThreadOK
<1>9. Lists'
  BY <1>1, <1>2 DEF Lists
<1>10. Objects'
  <2>1. \A s \in Refs : held'[s] # NoRef => held'[s][2] \in Listed'
    BY <1>1, <1>3, <1>4, <1>7 DEF Objects
  <2>2. ASSUME NEW p \in Listed
        PROVE  HowMany(held', To(p)) = HowMany(held, To(p))
    <3>1. p \in Objs  BY <1>1, ListedObjs
    <3>2. <<v, o>> \in To(p) <=> held[r] \in To(p)
      BY <1>2, <3>1, ToObject
    <3> QED  BY <1>1, <1>2, <3>1, <3>2, CountMove
  <2> QED  BY <1>1, <1>2, <1>7, <2>1, <2>2 DEF Objects
<1>11. Creators'
  <2>1. ~(Mutex2 /\ mem[o] = "init")
    <3> SUFFICES ASSUME Mutex2, mem[o] = "init"
                 PROVE  FALSE
      OBVIOUS
    <3>1. pc[t] \in Fresh
      BY <1>1, <1>2 DEF Creators
    <3> QED  BY <1>2, <3>1, FreshPlaces
  <2> QED  BY <1>1, <1>2, <1>3, <1>7, <2>1 DEF Creators
<1>12. CallsApart'
  BY <1>1, <1>2 DEF CallsApart
<1> QED  BY <1>6, <1>8, <1>9, <1>10, <1>11, <1>12 DEF IInv

-----------------------------------------------------------------------------
(* The steps of the two programs *)

\* How mutex2.c takes and releases its locks.
LEMMA Moves2 ==
    ASSUME Mutex2
    PROVE  /\ LocksHash("a_hlock", "a_push")
           /\ LocksObj("a_flock", "a_hunlock")
           /\ UnlocksHash("a_hunlock", "a_init")
           /\ UnlocksObj("a_funlock", "idle")
           /\ LocksObj("h_lock", "h_incr")
           /\ UnlocksObj("h_unlock", "idle")
           /\ LocksHash("f_hlock", "f_look")
           /\ LocksObj("f_lock", "f_incr")
           /\ UnlocksObj("f_unlock", "f_hunlock")
           /\ UnlocksHash("f_hunlock", "idle")
           /\ LocksObj("r_lock", "r_test")
           /\ UnlocksObj("r_unlock", "idle")
           /\ UnlocksObj("r_again", "r_hlock")
           /\ LocksHash("r_hlock", "r_flock")
           /\ LocksObj("r_flock", "r_recheck")
           /\ UnlocksObj("r_unlockHash", "r_return")
           /\ UnlocksHash("r_return", "idle")
           /\ UnlocksHash("r_hunlock", "r_funlock")
           /\ UnlocksObj("r_funlock", "r_free")
<1> USE DEF Kept, Pcs, WithObject, Creating, Sharing, Finding, Owning, Leaving, Freeing, Fresh, Searching,
            Hashing, Locking, Decrementing, Labels, LocksHash, UnlocksHash, LocksObj, UnlocksObj
<1>1. LocksHash("a_hlock", "a_push")  OBVIOUS
<1>2. LocksObj("a_flock", "a_hunlock")  OBVIOUS
<1>3. UnlocksHash("a_hunlock", "a_init")  OBVIOUS
<1>4. UnlocksObj("a_funlock", "idle")  OBVIOUS
<1>5. LocksObj("h_lock", "h_incr")  OBVIOUS
<1>6. UnlocksObj("h_unlock", "idle")  OBVIOUS
<1>7. LocksHash("f_hlock", "f_look")  OBVIOUS
<1>8. LocksObj("f_lock", "f_incr")  OBVIOUS
<1>9. UnlocksObj("f_unlock", "f_hunlock")  OBVIOUS
<1>10. UnlocksHash("f_hunlock", "idle")  OBVIOUS
<1>11. LocksObj("r_lock", "r_test")  OBVIOUS
<1>12. UnlocksObj("r_unlock", "idle")  OBVIOUS
<1>13. UnlocksObj("r_again", "r_hlock")  OBVIOUS
<1>14. LocksHash("r_hlock", "r_flock")  OBVIOUS
<1>15. LocksObj("r_flock", "r_recheck")  OBVIOUS
<1>16. UnlocksObj("r_unlockHash", "r_return")  OBVIOUS
<1>17. UnlocksHash("r_return", "idle")  OBVIOUS
<1>18. UnlocksHash("r_hunlock", "r_funlock")  OBVIOUS
<1>19. UnlocksObj("r_funlock", "r_free")  OBVIOUS
<1> QED  BY <1>1, <1>2, <1>3, <1>4, <1>5, <1>6, <1>7, <1>8, <1>9, <1>10, <1>11, <1>12, <1>13, <1>14, <1>15, <1>16, <1>17, <1>18, <1>19, ZenonT(30)

\* How mutex3.c takes and releases its locks.
LEMMA Moves3 ==
    ASSUME ~Mutex2
    PROVE  /\ LocksHash("a_hlock", "a_push")
           /\ LocksObj("a_flock", "a_hunlock")
           /\ UnlocksHash("a_hunlock", "a_init")
           /\ UnlocksObj("a_funlock", "idle")
           /\ LocksHash("h_lock", "h_incr")
           /\ UnlocksHash("h_unlock", "idle")
           /\ LocksHash("f_hlock", "f_look")
           /\ UnlocksHash("f_hunlock", "idle")
           /\ LocksHash("r_lock", "r_decr")
           /\ UnlocksHash("r_unlock", "idle")
           /\ UnlocksHash("r_hunlock", "r_free")
<1> USE DEF Kept, Pcs, WithObject, Creating, Sharing, Finding, Owning, Leaving, Freeing, Fresh, Searching,
            Hashing, Locking, Decrementing, Labels, LocksHash, UnlocksHash, LocksObj, UnlocksObj
<1>1. LocksHash("a_hlock", "a_push")  OBVIOUS
<1>2. LocksObj("a_flock", "a_hunlock")  OBVIOUS
<1>3. UnlocksHash("a_hunlock", "a_init")  OBVIOUS
<1>4. UnlocksObj("a_funlock", "idle")  OBVIOUS
<1>5. LocksHash("h_lock", "h_incr")  OBVIOUS
<1>6. UnlocksHash("h_unlock", "idle")  OBVIOUS
<1>7. LocksHash("f_hlock", "f_look")  OBVIOUS
<1>8. UnlocksHash("f_hunlock", "idle")  OBVIOUS
<1>9. LocksHash("r_lock", "r_decr")  OBVIOUS
<1>10. UnlocksHash("r_unlock", "idle")  OBVIOUS
<1>11. UnlocksHash("r_hunlock", "r_free")  OBVIOUS
<1> QED  BY <1>1, <1>2, <1>3, <1>4, <1>5, <1>6, <1>7, <1>8, <1>9, <1>10, <1>11

\* The steps that mutex2.c shares with the other file.
LEMMA Same2 ==
    ASSUME NEW t, NEW a, NEW b
    PROVE  /\ M2!LockHash(t, a, b) <=> LockHash(t, a, b)
           /\ M2!UnlockHash(t, a, b) <=> UnlockHash(t, a, b)
           /\ M2!LockObj(t, a, b) <=> LockObj(t, a, b)
           /\ M2!UnlockObj(t, a, b) <=> UnlockObj(t, a, b)
           /\ M2!Incr(t, a, b) <=> Incr(t, a, b)
           /\ M2!Decr(t, a, b) <=> Decr(t, a, b)
           /\ M2!Look(t, a, b) <=> Look(t, a, b)
           /\ M2!Unlink(t, a) <=> Unlink(t, a)
           /\ M2!Push(t) <=> Push(t)
           /\ M2!Initialise(t) <=> Initialise(t)
           /\ M2!Free(t) <=> Free(t)
<1>1. M2!Goto(t, b) <=> Goto(t, b)
  BY DEF M2!Goto, Goto, M2!locals, locals
<1>2. M2!LockHash(t, a, b) <=> LockHash(t, a, b)
  BY <1>1 DEF M2!LockHash, LockHash, M2!memory, memory
<1>3. M2!UnlockHash(t, a, b) <=> UnlockHash(t, a, b)
  BY <1>1 DEF M2!UnlockHash, UnlockHash, M2!memory, memory
<1>4. M2!LockObj(t, a, b) <=> LockObj(t, a, b)
  BY <1>1 DEF M2!LockObj, LockObj, M2!memory, memory
<1>5. M2!UnlockObj(t, a, b) <=> UnlockObj(t, a, b)
  BY <1>1 DEF M2!UnlockObj, UnlockObj, M2!memory, memory
<1>6. M2!Incr(t, a, b) <=> Incr(t, a, b)
  BY <1>1 DEF M2!Incr, Incr
<1>7. M2!Decr(t, a, b) <=> Decr(t, a, b)
  BY <1>1 DEF M2!Decr, Decr
<1>8. M2!Look(t, a, b) <=> Look(t, a, b)
  BY <1>1 DEF M2!Look, Look, M2!memory, memory, M2!HASH, HASH
<1>9. M2!Unlink(t, a) <=> Unlink(t, a)
  BY DEF M2!Unlink, Unlink, M2!memory, memory, M2!HASH, HASH, M2!Goto, Goto, M2!locals, locals
<1>10. M2!Push(t) <=> Push(t)
  BY DEF M2!Push, Push, M2!memory, memory, M2!HASH, HASH, M2!Goto, Goto, M2!locals, locals
<1>11. M2!Initialise(t) <=> Initialise(t)
  BY DEF M2!Initialise, Initialise, M2!Goto, Goto, M2!locals, locals
<1>12. M2!Free(t) <=> Free(t)
  BY DEF M2!Free, Free, M2!Goto, Goto, M2!locals, locals
<1> QED  BY <1>2, <1>3, <1>4, <1>5, <1>6, <1>7, <1>8, <1>9, <1>10, <1>11, <1>12

\* The steps that mutex3.c shares with the other file.
LEMMA Same3 ==
    ASSUME NEW t, NEW a, NEW b
    PROVE  /\ M3!LockHash(t, a, b) <=> LockHash(t, a, b)
           /\ M3!UnlockHash(t, a, b) <=> UnlockHash(t, a, b)
           /\ M3!LockObj(t, a, b) <=> LockObj(t, a, b)
           /\ M3!UnlockObj(t, a, b) <=> UnlockObj(t, a, b)
           /\ M3!Incr(t, a, b) <=> Incr(t, a, b)
           /\ M3!Decr(t, a, b) <=> Decr(t, a, b)
           /\ M3!Look(t, a, b) <=> Look(t, a, b)
           /\ M3!Unlink(t, a) <=> Unlink(t, a)
           /\ M3!Push(t) <=> Push(t)
           /\ M3!Initialise(t) <=> Initialise(t)
           /\ M3!Free(t) <=> Free(t)
<1>1. M3!Goto(t, b) <=> Goto(t, b)
  BY DEF M3!Goto, Goto, M3!locals, locals
<1>2. M3!LockHash(t, a, b) <=> LockHash(t, a, b)
  BY <1>1 DEF M3!LockHash, LockHash, M3!memory, memory
<1>3. M3!UnlockHash(t, a, b) <=> UnlockHash(t, a, b)
  BY <1>1 DEF M3!UnlockHash, UnlockHash, M3!memory, memory
<1>4. M3!LockObj(t, a, b) <=> LockObj(t, a, b)
  BY <1>1 DEF M3!LockObj, LockObj, M3!memory, memory
<1>5. M3!UnlockObj(t, a, b) <=> UnlockObj(t, a, b)
  BY <1>1 DEF M3!UnlockObj, UnlockObj, M3!memory, memory
<1>6. M3!Incr(t, a, b) <=> Incr(t, a, b)
  BY <1>1 DEF M3!Incr, Incr
<1>7. M3!Decr(t, a, b) <=> Decr(t, a, b)
  BY <1>1 DEF M3!Decr, Decr
<1>8. M3!Look(t, a, b) <=> Look(t, a, b)
  BY <1>1 DEF M3!Look, Look, M3!memory, memory, M3!HASH, HASH
<1>9. M3!Unlink(t, a) <=> Unlink(t, a)
  BY DEF M3!Unlink, Unlink, M3!memory, memory, M3!HASH, HASH, M3!Goto, Goto, M3!locals, locals
<1>10. M3!Push(t) <=> Push(t)
  BY DEF M3!Push, Push, M3!memory, memory, M3!HASH, HASH, M3!Goto, Goto, M3!locals, locals
<1>11. M3!Initialise(t) <=> Initialise(t)
  BY DEF M3!Initialise, Initialise, M3!Goto, Goto, M3!locals, locals
<1>12. M3!Free(t) <=> Free(t)
  BY DEF M3!Free, Free, M3!Goto, Goto, M3!locals, locals
<1> QED  BY <1>2, <1>3, <1>4, <1>5, <1>6, <1>7, <1>8, <1>9, <1>10, <1>11, <1>12

\* Every step of mutex2.c keeps the invariant.
LEMMA Mutex2Step ==
    ASSUME IInv, NEW t \in Threads, M2!Step(t), which' = which, Mutex2
    PROVE  IInv'
<1>1. CASE M2!foo_alloc(t)
  <2>1. CASE M2!LockHash(t, "a_hlock", "a_push")  BY <2>1, Moves2, LockHashStep, Same2
  <2>2. CASE M2!Push(t)
    BY <2>2, PushStep, Same2
  <2>3. CASE M2!LockObj(t, "a_flock", "a_hunlock")  BY <2>3, Moves2, LockObjStep, Same2
  <2>4. CASE M2!UnlockHash(t, "a_hunlock", "a_init")  BY <2>4, Moves2, UnlockHashStep, Same2
  <2>5. CASE M2!Initialise(t)
    BY <2>5, InitialiseStep, Same2
  <2>6. CASE M2!UnlockObj(t, "a_funlock", "idle")  BY <2>6, Moves2, UnlockObjStep, Same2
  <2> QED  BY <1>1, <2>1, <2>2, <2>3, <2>4, <2>5, <2>6 DEF M2!foo_alloc
<1>2. CASE M2!foo_hold(t)
  <2>1. CASE M2!LockObj(t, "h_lock", "h_incr")  BY <2>1, Moves2, LockObjStep, Same2
  <2>2. CASE M2!Incr(t, "h_incr", "h_unlock")
    BY <2>2, IncrStep, Same2 DEF Pcs, Hashing, Locking, Sharing, Finding, Owning
  <2>3. CASE M2!UnlockObj(t, "h_unlock", "idle")  BY <2>3, Moves2, UnlockObjStep, Same2
  <2> QED  BY <1>2, <2>1, <2>2, <2>3 DEF M2!foo_hold
<1>3. CASE M2!foo_find(t)
  <2>1. CASE M2!LockHash(t, "f_hlock", "f_look")  BY <2>1, Moves2, LockHashStep, Same2
  <2>2. CASE M2!Look(t, "f_lock", "f_hunlock")
    BY <2>2, LookStep, Same2 DEF Finding, Locking, Pcs, Labels
  <2>3. CASE M2!LockObj(t, "f_lock", "f_incr")  BY <2>3, Moves2, LockObjStep, Same2
  <2>4. CASE M2!Incr(t, "f_incr", "f_unlock")
    BY <2>4, IncrStep, Same2 DEF Pcs, Hashing, Locking, Sharing, Finding, Owning
  <2>5. CASE M2!UnlockObj(t, "f_unlock", "f_hunlock")  BY <2>5, Moves2, UnlockObjStep, Same2
  <2>6. CASE M2!UnlockHash(t, "f_hunlock", "idle")  BY <2>6, Moves2, UnlockHashStep, Same2
  <2> QED  BY <1>3, <2>1, <2>2, <2>3, <2>4, <2>5, <2>6 DEF M2!foo_find
<1>4. CASE M2!foo_rele(t)
  <2>1. CASE M2!LockObj(t, "r_lock", "r_test")  BY <2>1, Moves2, LockObjStep, Same2
  <2>2. CASE M2!Test(t)
    BY <2>2, TestStep
  <2>3. CASE M2!Decr(t, "r_decr", "r_unlock")
    <3>1. f_count[fp[t]] # 1
      BY <2>3 DEF IInv, ThreadOK, ObjectOK, Decrementing, M2!Decr
    <3> QED  BY <2>3, <3>1, DecrStep, Same2 DEF Pcs, Hashing, Locking, Leaving
  <2>4. CASE M2!UnlockObj(t, "r_unlock", "idle")  BY <2>4, Moves2, UnlockObjStep, Same2
  <2>5. CASE M2!UnlockObj(t, "r_again", "r_hlock")  BY <2>5, Moves2, UnlockObjStep, Same2
  <2>6. CASE M2!LockHash(t, "r_hlock", "r_flock")  BY <2>6, Moves2, LockHashStep, Same2
  <2>7. CASE M2!LockObj(t, "r_flock", "r_recheck")  BY <2>7, Moves2, LockObjStep, Same2
  <2>8. CASE M2!Recheck(t)
    BY <2>8, RecheckStep
  <2>9. CASE M2!Decr(t, "r_decrHash", "r_unlockHash")
    <3>1. f_count[fp[t]] # 1
      BY <2>9 DEF IInv, ThreadOK, ObjectOK, Decrementing, M2!Decr
    <3> QED  BY <2>9, <3>1, DecrStep, Same2 DEF Pcs, Hashing, Locking, Leaving
  <2>10. CASE M2!UnlockObj(t, "r_unlockHash", "r_return")  BY <2>10, Moves2, UnlockObjStep, Same2
  <2>11. CASE M2!UnlockHash(t, "r_return", "idle")  BY <2>11, Moves2, UnlockHashStep, Same2
  <2>12. CASE M2!Unlink(t, "r_hunlock")
    BY <2>12, UnlinkStep, Same2
  <2>13. CASE M2!UnlockHash(t, "r_hunlock", "r_funlock")  BY <2>13, Moves2, UnlockHashStep, Same2
  <2>14. CASE M2!UnlockObj(t, "r_funlock", "r_free")  BY <2>14, Moves2, UnlockObjStep, Same2
  <2>15. CASE M2!Free(t)
    BY <2>15, FreeStep, Same2
  <2> QED  BY <1>4, <2>1, <2>2, <2>3, <2>4, <2>5, <2>6, <2>7, <2>8, <2>9, <2>10, <2>11, <2>12, <2>13, <2>14, <2>15 DEF M2!foo_rele
<1> QED  BY <1>1, <1>2, <1>3, <1>4 DEF M2!Step

\* Every step of mutex3.c keeps the invariant.
LEMMA Mutex3Step ==
    ASSUME IInv, NEW t \in Threads, M3!Step(t), which' = which, ~Mutex2
    PROVE  IInv'
<1>1. CASE M3!foo_alloc(t)
  <2>1. CASE M3!LockHash(t, "a_hlock", "a_push")  BY <2>1, Moves3, LockHashStep, Same3
  <2>2. CASE M3!Push(t)
    BY <2>2, PushStep, Same3
  <2>3. CASE M3!LockObj(t, "a_flock", "a_hunlock")  BY <2>3, Moves3, LockObjStep, Same3
  <2>4. CASE M3!UnlockHash(t, "a_hunlock", "a_init")  BY <2>4, Moves3, UnlockHashStep, Same3
  <2>5. CASE M3!Initialise(t)
    BY <2>5, InitialiseStep, Same3
  <2>6. CASE M3!UnlockObj(t, "a_funlock", "idle")  BY <2>6, Moves3, UnlockObjStep, Same3
  <2> QED  BY <1>1, <2>1, <2>2, <2>3, <2>4, <2>5, <2>6 DEF M3!foo_alloc
<1>2. CASE M3!foo_hold(t)
  <2>1. CASE M3!LockHash(t, "h_lock", "h_incr")  BY <2>1, Moves3, LockHashStep, Same3
  <2>2. CASE M3!Incr(t, "h_incr", "h_unlock")
    BY <2>2, IncrStep, Same3 DEF Pcs, Hashing, Locking, Sharing, Finding, Owning
  <2>3. CASE M3!UnlockHash(t, "h_unlock", "idle")  BY <2>3, Moves3, UnlockHashStep, Same3
  <2> QED  BY <1>2, <2>1, <2>2, <2>3 DEF M3!foo_hold
<1>3. CASE M3!foo_find(t)
  <2>1. CASE M3!LockHash(t, "f_hlock", "f_look")  BY <2>1, Moves3, LockHashStep, Same3
  <2>2. CASE M3!Look(t, "f_incr", "f_hunlock")
    BY <2>2, LookStep, Same3 DEF Finding, Locking, Pcs, Labels
  <2>3. CASE M3!Incr(t, "f_incr", "f_hunlock")
    BY <2>3, IncrStep, Same3 DEF Pcs, Hashing, Locking, Sharing, Finding, Owning
  <2>4. CASE M3!UnlockHash(t, "f_hunlock", "idle")  BY <2>4, Moves3, UnlockHashStep, Same3
  <2> QED  BY <1>3, <2>1, <2>2, <2>3, <2>4 DEF M3!foo_find
<1>4. CASE M3!foo_rele(t)
  <2>1. CASE M3!LockHash(t, "r_lock", "r_decr")  BY <2>1, Moves3, LockHashStep, Same3
  <2>2. CASE M3!DecrLast(t)
    BY <2>2, DecrLastStep
  <2>3. CASE M3!DecrOther(t)
    <3>1. M3!Decr(t, "r_decr", "r_unlock") /\ f_count[fp[t]] # 1
      BY <2>3 DEF M3!DecrOther
    <3> QED  BY <3>1, DecrStep, Same3 DEF Pcs, Hashing, Locking, Leaving
  <2>4. CASE M3!UnlockHash(t, "r_unlock", "idle")  BY <2>4, Moves3, UnlockHashStep, Same3
  <2>5. CASE M3!Unlink(t, "r_hunlock")
    BY <2>5, UnlinkStep, Same3
  <2>6. CASE M3!UnlockHash(t, "r_hunlock", "r_free")  BY <2>6, Moves3, UnlockHashStep, Same3
  <2>7. CASE M3!Free(t)
    BY <2>7, FreeStep, Same3
  <2> QED  BY <1>4, <2>1, <2>2, <2>3, <2>4, <2>5, <2>6, <2>7 DEF M3!foo_rele
<1> QED  BY <1>1, <1>2, <1>3, <1>4 DEF M3!Step

-----------------------------------------------------------------------------
(* The invariant *)

\* In the initial states nothing is in the table and no call is made.
LEMMA InitIInv ==
    MCInit => IInv
<1> SUFFICES ASSUME MCInit
             PROVE  IInv
  OBVIOUS
<1> USE DEF MCInit, Init
<1>1. "idle" \in Labels /\ "idle" \in Pcs /\ "idle" \notin WithObject /\ "idle" \notin Searching
      /\ "idle" \notin Fresh /\ "idle" \notin Decrementing /\ "idle" \notin Hashing /\ "idle" \notin Locking
  BY DEF Labels, WithObject, Owning, Creating, Sharing, Finding, Leaving, Freeing, Searching, Fresh,
         Decrementing, Hashing, Locking, Pcs
<1>2. Listed = {}
  <2>1. \A b \in Buckets : fh[b] = << >>
    OBVIOUS
  <2> QED  BY <2>1 DEF Listed
<1>3. TypeOK
  BY <1>1 DEF TypeOK
<1>4. ASSUME NEW t \in Threads
      PROVE  ThreadOK(t)
  <2>1. LocksOK(t)
    BY <1>1 DEF LocksOK
  <2>2. RefsOK(t)
    BY <1>1 DEF RefsOK, WithObject
  <2>3. ObjectOK(t)
    BY <1>1 DEF ObjectOK, WithObject
  <2> QED  BY <2>1, <2>2, <2>3 DEF ThreadOK
<1>5. Lists
  BY DEF Lists
<1>6. Objects
  BY <1>2 DEF Objects
<1>7. Creators
  BY DEF Creators
<1>8. CallsApart
  BY <1>1 DEF CallsApart
<1> QED  BY <1>3, <1>4, <1>5, <1>6, <1>7, <1>8 DEF IInv

\* Every step keeps the invariant.
LEMMA NextIInv ==
    ASSUME IInv, [MCNext]_MCvars
    PROVE  IInv'
<1>1. CASE UNCHANGED MCvars
  <2>1. /\ UNCHANGED <<fh, hashlock, mem, f_count, f_lock, f_id, pc, fp, want, ref, held, which>>
    BY <1>1 DEF MCvars, vars
  <2>2. Listed' = Listed /\ Mutex2' = Mutex2 /\ Pcs' = Pcs /\ Hashing' = Hashing /\ Locking' = Locking
    BY <2>1, SameWhich DEF Listed
  <2>3. TypeOK' /\ Lists' /\ Objects' /\ Creators' /\ CallsApart'
    BY <2>1, <2>2 DEF IInv, TypeOK, Lists, Objects, Creators, CallsApart
  <2>4. ASSUME NEW t \in Threads
        PROVE  ThreadOK(t)'
    BY <2>1, <2>2 DEF IInv, ThreadOK, LocksOK, RefsOK, ObjectOK
  <2> QED  BY <2>3, <2>4 DEF IInv
<1>2. ASSUME NEW t \in Threads, Calls(t), which' = which
      PROVE  IInv'
  BY <1>2, CallAllocStep, CallHoldStep, CallFindStep, CallReleStep, GiveStep DEF Calls
<1>3. ASSUME NEW t \in Threads, MCStep(t)
      PROVE  IInv'
  <2>1. CASE which = "mutex2" /\ M2!Step(t)
    BY <1>3, <2>1, Mutex2Step DEF MCStep, Mutex2
  <2>2. CASE which = "mutex3" /\ M3!Step(t)
    BY <1>3, <2>2, Mutex3Step DEF MCStep, Mutex2
  <2> QED  BY <1>3, <2>1, <2>2 DEF MCStep
<1> QED  BY <1>1, <1>2, <1>3 DEF MCNext

LEMMA AlwaysIInv ==
    MCSpec => []IInv
BY InitIInv, NextIInv, PTL DEF MCSpec

-----------------------------------------------------------------------------
(* The theorems *)

\* Freed memory is not touched, with either way of locking, whatever foo_rele and
\* foo_find of the same object do at the same time.
THEOREM TableNoUseAfterFree ==
    MCSpec => []NoUseAfterFree
<1>1. IInv => NoUseAfterFree
  <2> SUFFICES ASSUME IInv
               PROVE  NoUseAfterFree
    OBVIOUS
  <2>1. Objects
    BY DEF IInv
  <2>2. \A t \in Threads : fp[t] # NoObj => mem[fp[t]] # "free"
    BY ObjectOwner
  <2>3. ASSUME NEW r \in Refs, NEW t \in Threads, NEW o \in Objs, held[r] = <<t, o>>
        PROVE  mem[o] # "free"
    <3>1. held[r] # NoRef /\ held[r][2] = o
      BY <2>3, NoneAssumption
    <3>2. o \in Listed
      BY <2>1, <3>1 DEF Objects
    <3> QED  BY <2>1, <3>2 DEF Objects
  <2> QED  BY <2>1, <2>2, <2>3 DEF NoUseAfterFree, Objects
<1> QED  BY <1>1, AlwaysIInv, PTL

\* mutex2.c hands out no object before foo_alloc has initialised it.
THEOREM TableFoundReady ==
    MCSpec => []FoundReady
<1>1. IInv => FoundReady
  <2> SUFFICES ASSUME IInv, Mutex2, NEW r \in Refs, NEW t \in Threads, NEW o \in Objs,
                      held[r] = <<t, o>>, pc[t] = "idle"
               PROVE  mem[o] = "ready"
    BY DEF FoundReady, M2!FoundReady, Mutex2
  <2>1. TypeOK /\ Objects /\ Creators
    BY DEF IInv
  <2>2. held[r] # NoRef /\ held[r][2] = o
    BY NoneAssumption
  <2>3. o \in Listed
    BY <2>1, <2>2 DEF Objects
  <2>4. mem[o] # "free"
    BY <2>1, <2>3 DEF Objects
  <2>5. mem[o] # "init"
    <3>1. mem[o] = "init" => pc[t] \in Fresh
      BY <2>1 DEF Creators
    <3> QED  BY <3>1, FreshPlaces
  <2> QED  BY <2>1, <2>4, <2>5 DEF TypeOK
<1> QED  BY <1>1, AlwaysIInv, PTL

-----------------------------------------------------------------------------
(* The table implements the one its callers are promised. *)

\* What an object is published as, before and after a step.
LEMMA PublishedAt ==
    ASSUME NEW o \in Objs
    PROVE  /\ o \in Listed => Published[o] = f_id[o]
           /\ o \notin Listed => Published[o] = NoId
           /\ o \in Listed' => Published'[o] = f_id'[o]
           /\ o \notin Listed' => Published'[o] = NoId
BY DEF Published

\* The table of the callers is a function on the objects.
LEMMA PublishedFunction ==
    /\ Published = [o \in Objs |-> Published[o]]
    /\ Published' = [o \in Objs |-> Published'[o]]
BY DEF Published

\* Nothing is published or taken back when the same objects are listed.
LEMMA PublishedSame ==
    ASSUME Listed' = Listed, \A o \in Objs : o \in Listed => f_id'[o] = f_id[o]
    PROVE  Published' = Published
<1>1. \A o \in Objs : Published'[o] = Published[o]
  BY PublishedAt
<1> QED  BY <1>1, PublishedFunction

\* One object is published anew or taken back.
LEMMA PublishedOne ==
    ASSUME NEW p \in Objs, NEW v, Published'[p] = v,
           \A o \in Objs \ {p} : (o \in Listed' <=> o \in Listed) /\ f_id'[o] = f_id[o]
    PROVE  Published' = [Published EXCEPT ![p] = v]
<1>1. \A o \in Objs \ {p} : Published'[o] = Published[o]
  BY PublishedAt
<1>2. Published \in [Objs -> {Published[o] : o \in Objs}]
  BY PublishedFunction
<1> QED  BY <1>1, <1>2, PublishedFunction

\* The kinds of steps inside a call.
LEMMA StepKinds ==
    ASSUME IInv, NEW t \in Threads, MCStep(t)
    PROVE  \/ UNCHANGED <<held, fh, f_id>>
           \/ Push(t)
           \/ \E to \in Labels : Incr(t, "h_incr", to) \/ Incr(t, "f_incr", to)
           \/ \E from \in {"r_decr", "r_decrHash"}, to \in Labels : Decr(t, from, to) /\ f_count[fp[t]] # 1
           \/ Unlink(t, "r_hunlock")
           \/ Free(t)
<1>1. CASE Mutex2 /\ M2!Step(t)
  <2>1. CASE M2!foo_alloc(t)
    BY <2>1, Same2 DEF M2!foo_alloc, LockHash, UnlockHash, LockObj, UnlockObj, Initialise, memory
  <2>2. CASE M2!foo_hold(t)
    BY <2>2, Same2 DEF M2!foo_hold, LockObj, UnlockObj, memory, Labels
  <2>3. CASE M2!foo_find(t)
    BY <2>3, Same2 DEF M2!foo_find, LockHash, UnlockHash, LockObj, UnlockObj, Look, memory, Labels
  <2>4. CASE M2!foo_rele(t)
    <3>1. CASE M2!Decr(t, "r_decr", "r_unlock") \/ M2!Decr(t, "r_decrHash", "r_unlockHash")
      <4>1. f_count[fp[t]] # 1
        BY <1>1, <3>1 DEF IInv, ThreadOK, ObjectOK, Decrementing, M2!Decr
      <4> QED  BY <3>1, <4>1, Same2 DEF Labels
    <3>2. CASE M2!Test(t) \/ M2!Recheck(t)
      BY <3>2 DEF M2!Test, M2!Recheck, M2!memory
    <3> QED  BY <2>4, <3>1, <3>2, Same2 DEF M2!foo_rele, LockHash, UnlockHash, LockObj, UnlockObj, memory
  <2> QED  BY <1>1, <2>1, <2>2, <2>3, <2>4 DEF M2!Step
<1>2. CASE ~Mutex2 /\ M3!Step(t)
  <2>1. CASE M3!foo_alloc(t)
    BY <2>1, Same3 DEF M3!foo_alloc, LockHash, UnlockHash, LockObj, UnlockObj, Initialise, memory
  <2>2. CASE M3!foo_hold(t)
    BY <2>2, Same3 DEF M3!foo_hold, LockHash, UnlockHash, memory, Labels
  <2>3. CASE M3!foo_find(t)
    BY <2>3, Same3 DEF M3!foo_find, LockHash, UnlockHash, Look, memory, Labels
  <2>4. CASE M3!foo_rele(t)
    <3>1. CASE M3!DecrOther(t)
      BY <3>1, Same3 DEF M3!DecrOther, Labels
    <3>2. CASE M3!DecrLast(t)
      BY <3>2 DEF M3!DecrLast
    <3> QED  BY <2>4, <3>1, <3>2, Same3 DEF M3!foo_rele, LockHash, UnlockHash, memory
  <2> QED  BY <1>2, <2>1, <2>2, <2>3, <2>4 DEF M3!Step
<1> QED  BY <1>1, <1>2 DEF MCStep, Mutex2

\* Publishing an object is the abstract foo_alloc.
LEMMA PushRefines ==
    ASSUME IInv, IInv', NEW t \in Threads, Push(t)
    PROVE  CO!foo_alloc(t)
<1>1. TypeOK /\ Lists /\ Objects /\ ThreadOK(t)
  BY DEF IInv
<1>2. /\ pc[t] = "a_push" /\ f_id' = f_id
      /\ fh' = [fh EXCEPT ![HASH(f_id[fp[t]])] = <<fp[t]>> \o @]
      /\ held' = [held EXCEPT ![ref[t]] = <<t, fp[t]>>]
  BY DEF Push, memory
<1>3. pc[t] \in Creating /\ pc[t] \in Fresh /\ pc[t] # "idle"
  BY <1>2 DEF Creating, Fresh
<1>4. /\ fp[t] \notin Listed /\ fp[t] \in Objs /\ mem[fp[t]] = "init"
      /\ ref[t] \in Refs /\ held[ref[t]] = NoRef
  BY <1>1, <1>3, RefOwner DEF ThreadOK, RefsOK, ObjectOK, WithObject
<1>5. f_id[fp[t]] \in Ids
  BY <1>1, <1>4 DEF Objects
<1>6. Listed' = Listed \cup {fp[t]}
  BY <1>1, <1>2, <1>4, <1>5, ListPush
<1>7. PICK o \in Objs : o = fp[t]
  BY <1>4
<1>8. PICK i \in Ids : i = f_id[o]
  BY <1>5, <1>7
<1>9. Published[o] = NoId /\ Published'[o] = i
  BY <1>2, <1>4, <1>6, <1>7, <1>8, PublishedAt
<1>10. Published' = [Published EXCEPT ![o] = i]
  BY <1>2, <1>6, <1>7, <1>9, PublishedOne
<1>11. held' = [held EXCEPT ![ref[t]] = <<t, o>>]
  BY <1>2, <1>7
<1> QED  BY <1>4, <1>9, <1>10, <1>11 DEF CO!foo_alloc

\* Counting up is the abstract foo_hold or foo_find.
LEMMA IncrRefines ==
    ASSUME IInv, IInv', NEW t \in Threads, NEW from \in {"h_incr", "f_incr"}, NEW to \in Labels,
           Incr(t, from, to)
    PROVE  CO!foo_hold(t) \/ CO!foo_find(t)
<1>1. TypeOK /\ Objects /\ ThreadOK(t)
  BY DEF IInv
<1>2. pc[t] = from /\ held' = [held EXCEPT ![ref[t]] = <<t, fp[t]>>] /\ fh' = fh /\ f_id' = f_id
  BY DEF Incr
<1>3. pc[t] \in UsingCount /\ pc[t] \in Sharing \cup Finding /\ pc[t] # "idle"
  BY <1>2 DEF UsingCount, Sharing, Finding
<1>4. /\ fp[t] \in Listed /\ fp[t] \in Objs /\ ref[t] \in Refs /\ held[ref[t]] = NoRef
  BY <1>1, <1>3, CountUsed, RefOwner DEF ThreadOK, RefsOK
<1>5. Published' = Published
  <2>1. Listed' = Listed  BY <1>2 DEF Listed
  <2> QED  BY <1>2, <2>1, PublishedSame
<1>6. PICK o \in Objs : o = fp[t]
  BY <1>4
<1>7. held' = [held EXCEPT ![ref[t]] = <<t, o>>]
  BY <1>2, <1>6
<1>8. CASE pc[t] \in Sharing
  <2>1. PICK mine \in Refs : held[mine] = <<t, o>>
    BY <1>1, <1>6, <1>8 DEF ThreadOK, RefsOK
  <2> QED  BY <1>4, <1>5, <1>7, <2>1 DEF CO!foo_hold
<1>9. CASE pc[t] \in Finding
  <2>1. f_id[o] \in Ids
    BY <1>1, <1>4, <1>6 DEF Objects
  <2>2. Published[o] # NoId
    BY <1>4, <1>6, <2>1, PublishedAt, IdsAssumption
  <2> QED  BY <1>4, <1>5, <1>7, <2>2 DEF CO!foo_find
<1> QED  BY <1>3, <1>8, <1>9

\* Counting down, when others have references, is the abstract foo_rele.
LEMMA DecrRefines ==
    ASSUME IInv, NEW t \in Threads, NEW from \in {"r_decr", "r_decrHash"}, NEW to \in Labels,
           Decr(t, from, to), f_count[fp[t]] # 1
    PROVE  CO!foo_rele(t)
<1>1. TypeOK /\ Objects /\ ThreadOK(t)
  BY DEF IInv
<1>2. pc[t] = from /\ held' = [held EXCEPT ![ref[t]] = NoRef] /\ fh' = fh /\ f_id' = f_id
  BY DEF Decr
<1>3. pc[t] \in UsingCount /\ pc[t] \in Owning /\ pc[t] # "idle"
  BY <1>2 DEF UsingCount, Owning
<1>4. /\ fp[t] \in Objs /\ f_count[fp[t]] = HowMany(held, To(fp[t]))
      /\ ref[t] \in Refs /\ held[ref[t]] = <<t, fp[t]>>
  BY <1>1, <1>3, CountUsed, RefOwner DEF ThreadOK, RefsOK
<1>5. Published' = Published
  <2>1. Listed' = Listed  BY <1>2 DEF Listed
  <2> QED  BY <1>2, <2>1, PublishedSame
<1>6. PICK o \in Objs : o = fp[t]
  BY <1>4
<1>7. PICK s \in Refs \ {ref[t]} : held[s] \in To(o)
  <2> SUFFICES ASSUME \A s \in Refs \ {ref[t]} : held[s] \notin To(o)
               PROVE  FALSE
    OBVIOUS
  <2>1. held[ref[t]] \in To(o) /\ NoRef \notin To(o)
    BY <1>4, <1>6, ToObject
  <2>2. HowMany(held', To(o)) = HowMany(held, To(o)) - 1 /\ HowMany(held, To(o)) \in Nat
    BY <1>1, <1>2, <1>4, <2>1, CountMove
  <2>3. DOMAIN held' = Refs /\ \A r \in Refs : held'[r] \notin To(o)
    BY <1>1, <1>2, <1>4, <2>1 DEF TypeOK
  <2>4. HowMany(held', To(o)) = 0
    BY <2>3, HowManyWitness
  <2> QED  BY <1>4, <1>6, <2>2, <2>4
<1>8. PICK u \in Threads : held[s] = <<u, o>>
  BY <1>7 DEF To
<1> QED  BY <1>2, <1>4, <1>5, <1>6, <1>7, <1>8 DEF CO!foo_rele

\* Taking the object out of the table is the abstract foo_rele of the last reference.
LEMMA UnlinkRefines ==
    ASSUME IInv, IInv', NEW t \in Threads, Unlink(t, "r_hunlock"), which' = which
    PROVE  CO!foo_rele(t)
<1>1. TypeOK /\ Lists /\ Objects /\ ThreadOK(t) /\ ThreadOK(t)'
  BY DEF IInv
<1>2. pc[t] = "r_unlink" /\ held' = [held EXCEPT ![ref[t]] = NoRef] /\ f_id' = f_id
  BY DEF Unlink, memory
<1>3. pc[t] \in Owning /\ pc[t] # "idle"
  BY <1>2 DEF Owning
<1>4. /\ fp[t] \in Objs /\ ref[t] \in Refs /\ held[ref[t]] = <<t, fp[t]>>
      /\ \A r \in Refs \ {ref[t]} : held[r] \notin To(fp[t])
  BY <1>1, <1>2, <1>3, RefOwner DEF ThreadOK, RefsOK, ObjectOK, WithObject
<1>5. PICK o \in Objs : o = fp[t]
  BY <1>4
<1>6. Listed' = Listed \ {o}
  <2>1. o \in Listed
    BY <1>1, <1>4, <1>5, NoneAssumption DEF Objects
  <2>2. f_id[o] \in Ids
    BY <1>1, <2>1 DEF Objects
  <2> QED  BY <1>1, <1>5, <2>2, ListUnlink
<1>7. Published' = [Published EXCEPT ![o] = NoId]
  BY <1>2, <1>6, PublishedAt, PublishedOne
<1>8. ~ \E s \in Refs \ {ref[t]}, u \in Threads : held[s] = <<u, o>>
  BY <1>4, <1>5 DEF To
<1> QED  BY <1>2, <1>4, <1>5, <1>7, <1>8 DEF CO!foo_rele

\* Freeing an object that is not in the table changes nothing for the callers.
LEMMA FreeRefines ==
    ASSUME IInv, NEW t \in Threads, Free(t)
    PROVE  UNCHANGED CO!vars
<1>1. TypeOK /\ ThreadOK(t)
  BY DEF IInv
<1>2. pc[t] = "r_free" /\ fh' = fh /\ held' = held /\ f_id' = [f_id EXCEPT ![fp[t]] = NoId]
  BY DEF Free
<1>3. fp[t] \notin Listed
  BY <1>1, <1>2 DEF ThreadOK, ObjectOK, Freeing
<1>4. Listed' = Listed
  BY <1>2 DEF Listed
<1>5. \A o \in Objs : o \in Listed => f_id'[o] = f_id[o]
  BY <1>1, <1>2, <1>3 DEF TypeOK
<1> QED  BY <1>2, <1>4, <1>5, PublishedSame DEF CO!vars

\* A step that leaves the lists, the identifiers and the references alone.
LEMMA NothingRefines ==
    ASSUME UNCHANGED <<held, fh, f_id>>
    PROVE  UNCHANGED CO!vars
<1>1. Listed' = Listed
  BY DEF Listed
<1> QED  BY <1>1, PublishedSame DEF CO!vars

\* A call that begins changes nothing for the callers: a new object is not yet
\* in the table.
LEMMA CallRefines ==
    ASSUME IInv, NEW t \in Threads, Calls(t)
    PROVE  CO!Next \/ UNCHANGED CO!vars
<1>1. TypeOK /\ Objects
  BY DEF IInv
<1>2. CASE CallAlloc(t)
  <2>1. PICK o \in Objs, id \in Ids : /\ mem[o] = "free" /\ UNCHANGED <<fh, held>>
                                      /\ f_id' = [f_id EXCEPT ![o] = id]
    BY <1>2 DEF CallAlloc, Call
  <2>2. o \notin Listed /\ Listed' = Listed
    BY <1>1, <2>1 DEF Objects, Listed
  <2>3. \A p \in Objs : p \in Listed => f_id'[p] = f_id[p]
    BY <1>1, <2>1, <2>2 DEF TypeOK
  <2> QED  BY <2>1, <2>2, <2>3, PublishedSame DEF CO!vars
<1>3. CASE CallHold(t) \/ CallFind(t) \/ CallRele(t)
  <2>1. UNCHANGED <<held, fh, f_id>>
    BY <1>3 DEF CallHold, CallFind, CallRele, Call, memory
  <2> QED  BY <2>1, NothingRefines
<1>4. ASSUME NEW v \in Threads, Give(t, v)
      PROVE  CO!Next
  <2>1. PICK r \in Refs, o \in Objs : /\ held[r] = <<t, o>> /\ held' = [held EXCEPT ![r] = <<v, o>>]
                                      /\ UNCHANGED <<fh, f_id>>
    BY <1>4 DEF Give, memory
  <2>2. Listed' = Listed
    BY <2>1 DEF Listed
  <2>3. Published' = Published
    BY <2>1, <2>2, PublishedSame
  <2> QED  BY <2>1, <2>3 DEF CO!Next, CO!Give
<1> QED  BY <1>2, <1>3, <1>4 DEF Calls

\* Each step of a call is one abstract step, or none.
LEMMA StepRefines ==
    ASSUME IInv, IInv', NEW t \in Threads, MCStep(t)
    PROVE  CO!Next \/ UNCHANGED CO!vars
<1>1. which' = which
  BY DEF MCStep
<1>2. CASE UNCHANGED <<held, fh, f_id>>
  BY <1>2, NothingRefines
<1>3. CASE Push(t)
  BY <1>3, PushRefines DEF CO!Next
<1>4. CASE \E to \in Labels : Incr(t, "h_incr", to) \/ Incr(t, "f_incr", to)
  BY <1>4, IncrRefines DEF CO!Next
<1>5. CASE \E from \in {"r_decr", "r_decrHash"}, to \in Labels : Decr(t, from, to) /\ f_count[fp[t]] # 1
  BY <1>5, DecrRefines DEF CO!Next
<1>6. CASE Unlink(t, "r_hunlock")
  BY <1>1, <1>6, UnlinkRefines DEF CO!Next
<1>7. CASE Free(t)
  BY <1>7, FreeRefines
<1> QED  BY <1>2, <1>3, <1>4, <1>5, <1>6, <1>7, StepKinds

LEMMA InitRefines ==
    ASSUME MCInit
    PROVE  CO!Init
<1>1. fh = [b \in Buckets |-> <<>>] /\ held = [r \in Refs |-> NoRef]
  BY DEF MCInit, Init
<1>2. Listed = {}
  BY <1>1 DEF Listed
<1>3. Published = [o \in Objs |-> NoId]
  BY <1>2 DEF Published
<1> QED  BY <1>1, <1>3 DEF CO!Init

\* The table implements the abstract one with either way of locking: an object stays
\* in it exactly as long as somebody has a reference, each call takes effect at one
\* of its steps, and the last foo_rele cannot be overtaken by a foo_find.
THEOREM TableImplementsCounted ==
    MCSpec => IsCountedObjects
<1>1. IInv /\ IInv' /\ [MCNext]_MCvars => [CO!Next]_CO!vars
  <2> SUFFICES ASSUME IInv, IInv', [MCNext]_MCvars
               PROVE  CO!Next \/ UNCHANGED CO!vars
    OBVIOUS
  <2>1. CASE UNCHANGED MCvars
    BY <2>1, NothingRefines DEF MCvars, vars
  <2>2. ASSUME NEW t \in Threads, MCStep(t)
        PROVE  CO!Next \/ UNCHANGED CO!vars
    BY <2>2, StepRefines
  <2>3. ASSUME NEW t \in Threads, Calls(t)
        PROVE  CO!Next \/ UNCHANGED CO!vars
    BY <2>3, CallRefines
  <2> QED  BY <2>1, <2>2, <2>3 DEF MCNext
<1> QED  BY <1>1, InitRefines, AlwaysIInv, PTL DEF MCSpec, IsCountedObjects, CO!Spec
=============================================================================
