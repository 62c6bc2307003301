----------------------- MODULE DiningPhilosophersProofs -----------------------
(***************************************************************************)
(* For any number of philosophers, at least three: mutex protects state,   *)
(* neighbours never have their forks at the same time, and a philosopher   *)
(* is woken exactly once for each grant.                                   *)
(***************************************************************************)
EXTENDS DiningPhilosophers, CountingProofs

\* A number below the modulus is its own remainder, and one modulus more does
\* not change it.
LEMMA SmallMod ==
    ASSUME NEW a \in 0..(N - 1)
    PROVE  a % N = a /\ (a + N) % N = a
<1> USE NAssumption
<1>1. a % N = a
  BY Z3
<1>2. (a + N) % N = a
  BY Z3
<1> QED  BY <1>1, <1>2

\* The macros LEFT and RIGHT name the two different neighbours at the table.
LEMMA Neighbours ==
    ASSUME NEW i \in Phil
    PROVE  /\ LEFT(i) \in Phil /\ RIGHT(i) \in Phil
           /\ LEFT(RIGHT(i)) = i /\ RIGHT(LEFT(i)) = i
           /\ LEFT(i) # i /\ RIGHT(i) # i /\ LEFT(i) # RIGHT(i)
<1> USE NAssumption DEF Phil
<1>1. ASSUME NEW j \in Phil
      PROVE  LEFT(j) = IF j = 0 THEN N - 1 ELSE j - 1
  <2>1. CASE j = 0
    BY <2>1, SmallMod DEF LEFT
  <2>2. CASE j # 0
    <3>1. j - 1 \in 0..(N - 1) /\ j + N - 1 = (j - 1) + N
      BY <2>2
    <3> QED  BY <2>2, <3>1, SmallMod DEF LEFT
  <2> QED  BY <2>1, <2>2
<1>2. ASSUME NEW j \in Phil
      PROVE  RIGHT(j) = IF j = N - 1 THEN 0 ELSE j + 1
  <2>1. CASE j = N - 1
    <3>1. 0 \in 0..(N - 1) /\ j + 1 = 0 + N
      BY <2>1
    <3>2. (0 + N) % N = 0
      BY <3>1, SmallMod
    <3> QED  BY <2>1, <3>1, <3>2 DEF RIGHT
  <2>2. CASE j # N - 1
    BY <2>2, SmallMod DEF RIGHT
  <2> QED  BY <2>1, <2>2
<1>3. LEFT(i) \in Phil /\ RIGHT(i) \in Phil
  BY <1>1, <1>2
<1> QED  BY <1>1, <1>2, <1>3

\* The places inside a section protected by mutex.
Inside == InTake \cup InPut

\* main creates the threads in order.
Created == \A i \in Phil : pc[i] = "new" <=> i >= started

\* Types, the order of creation and the mutex are kept by every step.
LEMMA MutexStep ==
    ASSUME TypeOK, Created, MutexExclusive, [Next]_vars
    PROVE  TypeOK' /\ Created' /\ MutexExclusive'
<1> DEFINE n == HowMany(pc, Inside)
<1> USE NAssumption
<1>0. /\ IsFiniteSet(Phil) /\ DOMAIN pc = Phil
      /\ n \in Nat /\ n <= 1 /\ mutex = 1 - n /\ mutex \in Nat
  <2>1. IsFiniteSet(Phil) /\ DOMAIN pc = Phil
    BY FS_Interval DEF Phil, TypeOK
  <2> QED  BY <2>1, HowManyNat DEF TypeOK, MutexExclusive, Inside
<1> HIDE DEF n
\* A thread moves: it enters the section, leaves it or neither.
<1>m. ASSUME NEW i \in Phil, NEW v, pc' = Move(pc, i, v)
      PROVE  /\ v \in Inside /\ pc[i] \in Inside => HowMany(pc', Inside) = n
             /\ v \notin Inside /\ pc[i] \notin Inside => HowMany(pc', Inside) = n
             /\ v \in Inside /\ pc[i] \notin Inside => HowMany(pc', Inside) = n + 1
             /\ v \notin Inside /\ pc[i] \in Inside => HowMany(pc', Inside) = n - 1
  BY <1>0, <1>m, HowManyMove DEF n
<1>x. ASSUME HowMany(pc', Inside) <= 1, mutex' = 1 - HowMany(pc', Inside)
      PROVE  MutexExclusive'
  BY <1>x DEF MutexExclusive, Inside
<1>1. CASE UNCHANGED vars
  BY <1>1 DEF vars, TypeOK, Created, MutexExclusive
<1>2. CASE pthread_create
  <2>1. started \in Phil /\ pc[started] = "new" /\ pc' = Move(pc, started, "think")
    BY <1>2 DEF pthread_create, TypeOK, Created, Phil, Goto, Move
  <2>2. TypeOK' /\ Created'
    BY <1>2, <2>1 DEF pthread_create, TypeOK, Created, Phil, Move
  <2>3. HowMany(pc', Inside) = n
    BY <2>1, <1>m DEF Inside, InTake, InPut
  <2> QED  BY <1>2, <2>2, <2>3, <1>0, <1>x DEF pthread_create
<1>3. ASSUME NEW i \in Phil, Lock(i, "think", "hungry")
      PROVE  TypeOK' /\ Created' /\ MutexExclusive'
  <2>1. pc[i] = "think" /\ pc' = Move(pc, i, "hungry")
    BY <1>3 DEF Lock, Goto, Move
  <2>2. TypeOK' /\ Created'
    BY <1>3, <2>1 DEF Lock, TypeOK, Created, InTake, InPut, Move
  <2>3. HowMany(pc', Inside) = n + 1
    BY <2>1, <1>m DEF Inside, InTake, InPut
  <2> QED  BY <1>3, <2>2, <2>3, <1>0, <1>x DEF Lock
<1>4. ASSUME NEW i \in Phil, Say(i, "HUNGRY", "hungry", "test")
      PROVE  TypeOK' /\ Created' /\ MutexExclusive'
  <2>1. pc[i] = "hungry" /\ pc' = Move(pc, i, "test")
    BY <1>4 DEF Say, Goto, Move
  <2>2. TypeOK' /\ Created'
    BY <1>4, <2>1 DEF Say, TypeOK, Created, InTake, InPut, Move
  <2>3. HowMany(pc', Inside) = n
    BY <2>1, <1>m DEF Inside, InTake, InPut
  <2> QED  BY <1>4, <2>2, <2>3, <1>0, <1>x DEF Say
<1>5. ASSUME NEW i \in Phil, Check(i, i, "test", "grant", "unlock")
      PROVE  TypeOK' /\ Created' /\ MutexExclusive'
  <2>1. PICK v \in {"grant", "unlock"} : pc[i] = "test" /\ pc' = Move(pc, i, v)
    BY <1>5 DEF Check, Goto, Move
  <2>2. TypeOK' /\ Created'
    BY <1>5, <2>1 DEF Check, TypeOK, Created, InTake, InPut, Move
  <2>3. HowMany(pc', Inside) = n
    BY <2>1, <1>m DEF Inside, InTake, InPut
  <2> QED  BY <1>5, <2>2, <2>3, <1>0, <1>x DEF Check
<1>6. ASSUME NEW i \in Phil, Grant(i, i, "grant", "unlock")
      PROVE  TypeOK' /\ Created' /\ MutexExclusive'
  <2>1. pc[i] = "grant" /\ pc' = Move(pc, i, "unlock")
    BY <1>6 DEF Grant, Goto, Move
  <2>2. TypeOK' /\ Created'
    BY <1>6, <2>1 DEF Grant, TypeOK, Created, InTake, InPut, Move
  <2>3. HowMany(pc', Inside) = n
    BY <2>1, <1>m DEF Inside, InTake, InPut
  <2> QED  BY <1>6, <2>2, <2>3, <1>0, <1>x DEF Grant
<1>7. ASSUME NEW i \in Phil, Unlock(i, "unlock", "wait")
      PROVE  TypeOK' /\ Created' /\ MutexExclusive'
  <2>1. pc[i] = "unlock" /\ pc' = Move(pc, i, "wait")
    BY <1>7 DEF Unlock, Goto, Move
  <2>2. TypeOK' /\ Created'
    BY <1>7, <2>1 DEF Unlock, TypeOK, Created, InTake, InPut, Move
  <2>3. HowMany(pc', Inside) = n - 1
    BY <2>1, <1>m DEF Inside, InTake, InPut
  <2> QED  BY <1>7, <2>2, <2>3, <1>0, <1>x DEF Unlock
<1>8. ASSUME NEW i \in Phil, WaitForForks(i)
      PROVE  TypeOK' /\ Created' /\ MutexExclusive'
  <2>1. pc[i] = "wait" /\ pc' = Move(pc, i, "eat")
    BY <1>8 DEF WaitForForks, Goto, Move
  <2>2. TypeOK' /\ Created'
    BY <1>8, <2>1 DEF WaitForForks, TypeOK, Created, InTake, InPut, Move
  <2>3. HowMany(pc', Inside) = n
    BY <2>1, <1>m DEF Inside, InTake, InPut
  <2> QED  BY <1>8, <2>2, <2>3, <1>0, <1>x DEF WaitForForks
<1>9. ASSUME NEW i \in Phil, Lock(i, "eat", "down")
      PROVE  TypeOK' /\ Created' /\ MutexExclusive'
  <2>1. pc[i] = "eat" /\ pc' = Move(pc, i, "down")
    BY <1>9 DEF Lock, Goto, Move
  <2>2. TypeOK' /\ Created'
    BY <1>9, <2>1 DEF Lock, TypeOK, Created, InTake, InPut, Move
  <2>3. HowMany(pc', Inside) = n + 1
    BY <2>1, <1>m DEF Inside, InTake, InPut
  <2> QED  BY <1>9, <2>2, <2>3, <1>0, <1>x DEF Lock
<1>10. ASSUME NEW i \in Phil, Say(i, "THINKING", "down", "testL")
      PROVE  TypeOK' /\ Created' /\ MutexExclusive'
  <2>1. pc[i] = "down" /\ pc' = Move(pc, i, "testL")
    BY <1>10 DEF Say, Goto, Move
  <2>2. TypeOK' /\ Created'
    BY <1>10, <2>1 DEF Say, TypeOK, Created, InTake, InPut, Move
  <2>3. HowMany(pc', Inside) = n
    BY <2>1, <1>m DEF Inside, InTake, InPut
  <2> QED  BY <1>10, <2>2, <2>3, <1>0, <1>x DEF Say
<1>11. ASSUME NEW i \in Phil, Check(i, LEFT(i), "testL", "grantL", "testR")
      PROVE  TypeOK' /\ Created' /\ MutexExclusive'
  <2>1. PICK v \in {"grantL", "testR"} : pc[i] = "testL" /\ pc' = Move(pc, i, v)
    BY <1>11 DEF Check, Goto, Move
  <2>2. TypeOK' /\ Created'
    BY <1>11, <2>1, Neighbours DEF Check, TypeOK, Created, InTake, InPut, Move
  <2>3. HowMany(pc', Inside) = n
    BY <2>1, <1>m DEF Inside, InTake, InPut
  <2> QED  BY <1>11, <2>2, <2>3, <1>0, <1>x DEF Check
<1>12. ASSUME NEW i \in Phil, Grant(i, LEFT(i), "grantL", "testR")
      PROVE  TypeOK' /\ Created' /\ MutexExclusive'
  <2>1. pc[i] = "grantL" /\ pc' = Move(pc, i, "testR")
    BY <1>12 DEF Grant, Goto, Move
  <2>2. TypeOK' /\ Created'
    BY <1>12, <2>1, Neighbours DEF Grant, TypeOK, Created, InTake, InPut, Move
  <2>3. HowMany(pc', Inside) = n
    BY <2>1, <1>m DEF Inside, InTake, InPut
  <2> QED  BY <1>12, <2>2, <2>3, <1>0, <1>x DEF Grant
<1>13. ASSUME NEW i \in Phil, Check(i, RIGHT(i), "testR", "grantR", "release")
      PROVE  TypeOK' /\ Created' /\ MutexExclusive'
  <2>1. PICK v \in {"grantR", "release"} : pc[i] = "testR" /\ pc' = Move(pc, i, v)
    BY <1>13 DEF Check, Goto, Move
  <2>2. TypeOK' /\ Created'
    BY <1>13, <2>1, Neighbours DEF Check, TypeOK, Created, InTake, InPut, Move
  <2>3. HowMany(pc', Inside) = n
    BY <2>1, <1>m DEF Inside, InTake, InPut
  <2> QED  BY <1>13, <2>2, <2>3, <1>0, <1>x DEF Check
<1>14. ASSUME NEW i \in Phil, Grant(i, RIGHT(i), "grantR", "release")
      PROVE  TypeOK' /\ Created' /\ MutexExclusive'
  <2>1. pc[i] = "grantR" /\ pc' = Move(pc, i, "release")
    BY <1>14 DEF Grant, Goto, Move
  <2>2. TypeOK' /\ Created'
    BY <1>14, <2>1, Neighbours DEF Grant, TypeOK, Created, InTake, InPut, Move
  <2>3. HowMany(pc', Inside) = n
    BY <2>1, <1>m DEF Inside, InTake, InPut
  <2> QED  BY <1>14, <2>2, <2>3, <1>0, <1>x DEF Grant
<1>15. ASSUME NEW i \in Phil, Unlock(i, "release", "think")
      PROVE  TypeOK' /\ Created' /\ MutexExclusive'
  <2>1. pc[i] = "release" /\ pc' = Move(pc, i, "think")
    BY <1>15 DEF Unlock, Goto, Move
  <2>2. TypeOK' /\ Created'
    BY <1>15, <2>1 DEF Unlock, TypeOK, Created, InTake, InPut, Move
  <2>3. HowMany(pc', Inside) = n - 1
    BY <2>1, <1>m DEF Inside, InTake, InPut
  <2> QED  BY <1>15, <2>2, <2>3, <1>0, <1>x DEF Unlock
<1> QED
  BY <1>1, <1>2, <1>3, <1>4, <1>5, <1>6, <1>7, <1>8, <1>9, <1>10,
     <1>11, <1>12, <1>13, <1>14, <1>15
     DEF Next, philosopher, take_fork, put_fork

\* What a philosopher's place says of its state and its semaphore, and, between
\* the two halves of test(), of the condition that was tested.
Place(i) ==
    /\ pc[i] \in {"new", "think", "hungry"} => state[i] # "HUNGRY" /\ S[i] = 0
    /\ pc[i] = "test" => state[i] = "HUNGRY" /\ S[i] = 0
    /\ pc[i] = "grant" => mayEat(i) /\ S[i] = 0
    /\ pc[i] \in {"unlock", "wait"} => /\ state[i] # "THINKING"
                                       /\ S[i] = IF state[i] = "EATING" THEN 1 ELSE 0
    /\ pc[i] \in {"eat", "down"} => state[i] = "EATING" /\ S[i] = 0
    /\ pc[i] \in InPut \ {"down"} => state[i] = "THINKING" /\ S[i] = 0
    /\ pc[i] = "grantL" => mayEat(LEFT(i))
    /\ pc[i] = "grantR" => mayEat(RIGHT(i))

\* A philosopher that was made EATING by test() has no neighbour that says
\* EATING, not even one that has not started yet.
Apart == \A i \in Phil :
    state[i] = "EATING" /\ pc[i] \in {"unlock", "wait", "eat", "down"}
        => state[LEFT(i)] # "EATING" /\ state[RIGHT(i)] # "EATING"

\* Two threads that both hold mutex are the same thread.
LEMMA Alone ==
    ASSUME TypeOK, MutexExclusive,
           NEW i \in Phil, NEW j \in Phil, pc[i] \in Inside, pc[j] \in Inside
    PROVE  i = j
<1>1. IsFiniteSet(Phil) /\ DOMAIN pc = Phil
  BY NAssumption, FS_Interval DEF Phil, TypeOK
<1>2. HowMany(pc, Inside) \in Nat /\ HowMany(pc, Inside) <= 1
  BY <1>1, HowManyNat DEF MutexExclusive, Inside
<1>3. i # j => HowMany(pc, Inside) > 1
  BY <1>1, HowManyTwo
<1> QED  BY <1>2, <1>3

\* Places and states stay in step.
LEMMA TableStep ==
    ASSUME TypeOK, Created, MutexExclusive, \A i \in Phil : Place(i), Apart, [Next]_vars
    PROVE  (\A i \in Phil : Place(i)') /\ Apart'
<1> DEFINE Goal == (\A j \in Phil : Place(j)') /\ Apart'
<1> SUFFICES Goal
  OBVIOUS
<1>0. /\ DOMAIN pc = Phil /\ DOMAIN state = Phil /\ DOMAIN S = Phil
      /\ \A j \in Phil : S[j] \in Nat
      /\ \A j \in Phil : pc[j] \in {"new", "think", "wait", "eat"} \cup InTake \cup InPut
      /\ \A j \in Phil : state[j] \in {"THINKING", "HUNGRY", "EATING"}
  BY DEF TypeOK
\* Whoever holds mutex is alone, so nobody else is between two statements of
\* take_fork or put_fork.
<1>a. ASSUME NEW i \in Phil, pc[i] \in Inside
      PROVE  \A j \in Phil : j # i => pc[j] \in {"new", "think", "wait", "eat"}
  BY <1>a, <1>0, Alone DEF Inside
<1>n. \A j \in Phil : /\ LEFT(j) \in Phil /\ RIGHT(j) \in Phil
                      /\ LEFT(RIGHT(j)) = j /\ RIGHT(LEFT(j)) = j
                      /\ LEFT(j) # j /\ RIGHT(j) # j
  BY Neighbours
<1>1. CASE UNCHANGED vars
  BY <1>1 DEF vars, Place, Apart, mayEat
<1>2. CASE pthread_create
  <2>1. started \in Phil /\ pc[started] = "new"
    BY <1>2, NAssumption DEF pthread_create, TypeOK, Created, Phil
  <2> QED  BY <1>2, <2>1, <1>0, <1>n DEF pthread_create, Goto, Place, Apart, mayEat, InPut
<1>3. ASSUME NEW i \in Phil, Lock(i, "think", "hungry")
      PROVE  Goal
  <2>2. \A j \in Phil : Place(j)'
    BY <1>3, <1>0, <1>n DEF Lock, Goto, Place, mayEat, InTake, InPut
  <2>3. Apart'
    BY <1>3, <1>0, <1>n DEF Lock, Goto, Place, Apart, mayEat, InTake, InPut
  <2> QED  BY <2>2, <2>3
<1>4. ASSUME NEW i \in Phil, Say(i, "HUNGRY", "hungry", "test")
      PROVE  Goal
  <2>1. \A j \in Phil : j # i => pc[j] \in {"new", "think", "wait", "eat"}
    BY <1>4, <1>a DEF Say, Inside, InTake, InPut
  <2>2. \A j \in Phil : Place(j)'
    BY <1>4, <2>1, <1>0, <1>n DEF Say, Goto, Place, mayEat, InTake, InPut
  <2>3. Apart'
    BY <1>4, <2>1, <1>0, <1>n DEF Say, Goto, Place, Apart, mayEat, InTake, InPut
  <2> QED  BY <2>2, <2>3
<1>5. ASSUME NEW i \in Phil, Check(i, i, "test", "grant", "unlock")
      PROVE  Goal
  <2>1. \A j \in Phil : j # i => pc[j] \in {"new", "think", "wait", "eat"}
    BY <1>5, <1>a DEF Check, Inside, InTake, InPut
  <2>2. \A j \in Phil : Place(j)'
    BY <1>5, <2>1, <1>0, <1>n DEF Check, Goto, Place, mayEat, InTake, InPut
  <2>3. Apart'
    BY <1>5, <2>1, <1>0, <1>n DEF Check, Goto, Place, Apart, mayEat, InTake, InPut
  <2> QED  BY <2>2, <2>3
<1>6. ASSUME NEW i \in Phil, Grant(i, i, "grant", "unlock")
      PROVE  Goal
  <2>1. \A j \in Phil : j # i => pc[j] \in {"new", "think", "wait", "eat"}
    BY <1>6, <1>a DEF Grant, Inside, InTake, InPut
  <2>2. \A j \in Phil : Place(j)'
    BY <1>6, <2>1, <1>0, <1>n DEF Grant, Goto, Place, mayEat, InTake, InPut
  <2>3. Apart'
    BY <1>6, <2>1, <1>0, <1>n DEF Grant, Goto, Place, Apart, mayEat, InTake, InPut
  <2> QED  BY <2>2, <2>3
<1>7. ASSUME NEW i \in Phil, Unlock(i, "unlock", "wait")
      PROVE  Goal
  <2>1. \A j \in Phil : j # i => pc[j] \in {"new", "think", "wait", "eat"}
    BY <1>7, <1>a DEF Unlock, Inside, InTake, InPut
  <2>2. \A j \in Phil : Place(j)'
    BY <1>7, <2>1, <1>0, <1>n DEF Unlock, Goto, Place, mayEat, InTake, InPut
  <2>3. Apart'
    BY <1>7, <2>1, <1>0, <1>n DEF Unlock, Goto, Place, Apart, mayEat, InTake, InPut
  <2> QED  BY <2>2, <2>3
<1>8. ASSUME NEW i \in Phil, WaitForForks(i)
      PROVE  Goal
  <2>2. \A j \in Phil : Place(j)'
    BY <1>8, <1>0, <1>n DEF WaitForForks, Goto, Place, mayEat, InTake, InPut
  <2>3. Apart'
    BY <1>8, <1>0, <1>n DEF WaitForForks, Goto, Place, Apart, mayEat, InTake, InPut
  <2> QED  BY <2>2, <2>3
<1>9. ASSUME NEW i \in Phil, Lock(i, "eat", "down")
      PROVE  Goal
  <2>2. \A j \in Phil : Place(j)'
    BY <1>9, <1>0, <1>n DEF Lock, Goto, Place, mayEat, InTake, InPut
  <2>3. Apart'
    BY <1>9, <1>0, <1>n DEF Lock, Goto, Place, Apart, mayEat, InTake, InPut
  <2> QED  BY <2>2, <2>3
<1>10. ASSUME NEW i \in Phil, Say(i, "THINKING", "down", "testL")
      PROVE  Goal
  <2>1. \A j \in Phil : j # i => pc[j] \in {"new", "think", "wait", "eat"}
    BY <1>10, <1>a DEF Say, Inside, InTake, InPut
  <2>2. \A j \in Phil : Place(j)'
    BY <1>10, <2>1, <1>0, <1>n DEF Say, Goto, Place, mayEat, InTake, InPut
  <2>3. Apart'
    BY <1>10, <2>1, <1>0, <1>n DEF Say, Goto, Place, Apart, mayEat, InTake, InPut
  <2> QED  BY <2>2, <2>3
<1>11. ASSUME NEW i \in Phil, Check(i, LEFT(i), "testL", "grantL", "testR")
      PROVE  Goal
  <2>1. \A j \in Phil : j # i => pc[j] \in {"new", "think", "wait", "eat"}
    BY <1>11, <1>a DEF Check, Inside, InTake, InPut
  <2>2. \A j \in Phil : Place(j)'
    BY <1>11, <2>1, <1>0, <1>n DEF Check, Goto, Place, mayEat, InTake, InPut
  <2>3. Apart'
    BY <1>11, <2>1, <1>0, <1>n DEF Check, Goto, Place, Apart, mayEat, InTake, InPut
  <2> QED  BY <2>2, <2>3
<1>12. ASSUME NEW i \in Phil, Grant(i, LEFT(i), "grantL", "testR")
      PROVE  Goal
  <2>1. \A j \in Phil : j # i => pc[j] \in {"new", "think", "wait", "eat"}
    BY <1>12, <1>a DEF Grant, Inside, InTake, InPut
  <2>2. \A j \in Phil : Place(j)'
    BY <1>12, <2>1, <1>0, <1>n DEF Grant, Goto, Place, mayEat, InTake, InPut
  <2>3. Apart'
    BY <1>12, <2>1, <1>0, <1>n DEF Grant, Goto, Place, Apart, mayEat, InTake, InPut
  <2> QED  BY <2>2, <2>3
<1>13. ASSUME NEW i \in Phil, Check(i, RIGHT(i), "testR", "grantR", "release")
      PROVE  Goal
  <2>1. \A j \in Phil : j # i => pc[j] \in {"new", "think", "wait", "eat"}
    BY <1>13, <1>a DEF Check, Inside, InTake, InPut
  <2>2. \A j \in Phil : Place(j)'
    BY <1>13, <2>1, <1>0, <1>n DEF Check, Goto, Place, mayEat, InTake, InPut
  <2>3. Apart'
    BY <1>13, <2>1, <1>0, <1>n DEF Check, Goto, Place, Apart, mayEat, InTake, InPut
  <2> QED  BY <2>2, <2>3
<1>14. ASSUME NEW i \in Phil, Grant(i, RIGHT(i), "grantR", "release")
      PROVE  Goal
  <2>1. \A j \in Phil : j # i => pc[j] \in {"new", "think", "wait", "eat"}
    BY <1>14, <1>a DEF Grant, Inside, InTake, InPut
  <2>2. \A j \in Phil : Place(j)'
    BY <1>14, <2>1, <1>0, <1>n DEF Grant, Goto, Place, mayEat, InTake, InPut
  <2>3. Apart'
    BY <1>14, <2>1, <1>0, <1>n DEF Grant, Goto, Place, Apart, mayEat, InTake, InPut
  <2> QED  BY <2>2, <2>3
<1>15. ASSUME NEW i \in Phil, Unlock(i, "release", "think")
      PROVE  Goal
  <2>1. \A j \in Phil : j # i => pc[j] \in {"new", "think", "wait", "eat"}
    BY <1>15, <1>a DEF Unlock, Inside, InTake, InPut
  <2>2. \A j \in Phil : Place(j)'
    BY <1>15, <2>1, <1>0, <1>n DEF Unlock, Goto, Place, mayEat, InTake, InPut
  <2>3. Apart'
    BY <1>15, <2>1, <1>0, <1>n DEF Unlock, Goto, Place, Apart, mayEat, InTake, InPut
  <2> QED  BY <2>2, <2>3
<1> QED
  BY <1>1, <1>2, <1>3, <1>4, <1>5, <1>6, <1>7, <1>8, <1>9, <1>10,
     <1>11, <1>12, <1>13, <1>14, <1>15
     DEF Next, philosopher, take_fork, put_fork

\* The inductive invariant: ForksExclusive alone is not inductive, since it says
\* nothing of a philosopher that was granted its forks and has not woken up.
IInv == /\ TypeOK /\ Created /\ MutexExclusive
        /\ \A i \in Phil : Place(i)
        /\ Apart

\* The inductive invariant holds in every reachable state.
LEMMA Inductive == Spec => []IInv
<1>1. Init => IInv
  <2> SUFFICES ASSUME Init PROVE IInv
    OBVIOUS
  <2>1. TypeOK /\ Created /\ (\A i \in Phil : Place(i)) /\ Apart
    BY NAssumption DEF Init, TypeOK, Created, Place, Apart, Phil, InPut
  <2>2. HowMany(pc, InTake \cup InPut) = 0
    <3>1. {i \in DOMAIN pc : pc[i] \in InTake \cup InPut} = {}
      BY DEF Init, InTake, InPut
    <3> QED  BY <3>1, FS_EmptySet DEF HowMany
  <2>3. MutexExclusive
    BY <2>2 DEF Init, MutexExclusive
  <2> QED  BY <2>1, <2>3 DEF IInv
<1>2. IInv /\ [Next]_vars => IInv'
  <2> SUFFICES ASSUME IInv, [Next]_vars PROVE IInv'
    OBVIOUS
  <2>1. TypeOK' /\ Created' /\ MutexExclusive'
    BY MutexStep DEF IInv
  <2>2. (\A i \in Phil : Place(i)') /\ Apart'
    BY TableStep DEF IInv
  <2> QED  BY <2>1, <2>2 DEF IInv
<1> QED  BY <1>1, <1>2, PTL DEF Spec

\* Type correctness of the philosophers.
THEOREM DiningType == Spec => []TypeOK
BY Inductive, PTL DEF IInv

\* One thread at a time is inside take_fork's or put_fork's protected section.
THEOREM DiningMutex == Spec => []MutexExclusive
BY Inductive, PTL DEF IInv

\* Neighbours never have their forks at the same time.
THEOREM DiningForks == Spec => []ForksExclusive
<1>1. IInv => ForksExclusive
  BY Neighbours DEF IInv, Place, Apart, ForksExclusive, HasForks
<1> QED  BY <1>1, Inductive, PTL

\* A philosopher is woken exactly once for each grant.
THEOREM DiningGrants == Spec => []GrantOnce
<1>1. IInv => GrantOnce
  BY DEF IInv, TypeOK, Place, GrantOnce, Granted, InTake, InPut
<1> QED  BY <1>1, Inductive, PTL
=============================================================================
