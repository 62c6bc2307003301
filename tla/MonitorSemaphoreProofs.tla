------------------------ MODULE MonitorSemaphoreProofs ------------------------
(***************************************************************************)
(* For every set of threads and every initial value, the class Semaphore   *)
(* keeps its mutex discipline, loses no wakeup and implements the abstract *)
(* counting semaphore.                                                     *)
(***************************************************************************)
EXTENDS MonitorSemaphore, CountingProofs

\* The inductive invariant: the unit seen by the predicate is still there only
\* because nobody else can own m meanwhile, which in turn needs the type.
IInv == TypeOK /\ MutexOwned /\ UnitIsThere /\ NoLostWakeup

\* The mutex discipline and the unit a thread has seen are kept by every step.
LEMMA MutexStep == 
    ASSUME TypeOK, MutexOwned, UnitIsThere, [Next]_vars
    PROVE  TypeOK' /\ MutexOwned' /\ UnitIsThere'
<1> USE NoThreadAssumption DEF TypeOK, MutexOwned, UnitIsThere, Holding, PCs
<1>1. CASE UNCHANGED vars
  BY <1>1 DEF vars
<1>2. ASSUME NEW t \in Threads, CallWait(t)
      PROVE  TypeOK' /\ MutexOwned' /\ UnitIsThere'
  BY <1>2 DEF CallWait
<1>3. ASSUME NEW t \in Threads, CallPost(t)
      PROVE  TypeOK' /\ MutexOwned' /\ UnitIsThere'
  BY <1>3 DEF CallPost
<1>4. ASSUME NEW t \in Threads, Lock(t)
      PROVE  TypeOK' /\ MutexOwned' /\ UnitIsThere'
  BY <1>4 DEF Lock
<1>5. ASSUME NEW t \in Threads, Test(t)
      PROVE  TypeOK' /\ MutexOwned' /\ UnitIsThere'
  BY <1>5 DEF Test
<1>6. ASSUME NEW t \in Threads, SpuriousWake(t)
      PROVE  TypeOK' /\ MutexOwned' /\ UnitIsThere'
  BY <1>6 DEF SpuriousWake
<1>7. ASSUME NEW t \in Threads, Take(t)
      PROVE  TypeOK' /\ MutexOwned' /\ UnitIsThere'
  BY <1>7 DEF Take
<1>8. ASSUME NEW t \in Threads, Incr(t)
      PROVE  TypeOK' /\ MutexOwned' /\ UnitIsThere'
  BY <1>8 DEF Incr
<1>9. ASSUME NEW t \in Threads, NotifyOne(t)
      PROVE  TypeOK' /\ MutexOwned' /\ UnitIsThere'
  BY <1>9 DEF NotifyOne, Asleep
<1>10. ASSUME NEW t \in Threads, Unlock(t)
      PROVE  TypeOK' /\ MutexOwned' /\ UnitIsThere'
  BY <1>10 DEF Unlock
<1> QED
  BY <1>1, <1>2, <1>3, <1>4, <1>5, <1>6, <1>7, <1>8, <1>9, <1>10 DEF Next, Step

\* Every step keeps as many threads on their way to value as there are units.
LEMMA WakeupStep ==
    ASSUME IInv, [Next]_vars
    PROVE  NoLostWakeup'
<1> DEFINE n == HowMany(pc, Rechecking)
<1> USE ThreadsAssumption
<1>0. /\ DOMAIN pc = Threads /\ value \in Nat /\ n \in Nat
      /\ pc \in [Threads -> PCs]
      /\ Asleep # {} => value <= n
      /\ \A t \in Threads : pc[t] = "w_take" => value > 0
  BY HowManyNat DEF IInv, TypeOK, UnitIsThere, NoLostWakeup
<1> HIDE DEF n
\* Where a thread that takes a step is counted before and after it.
<1>m. ASSUME NEW t \in Threads, NEW v, pc' = Move(pc, t, v)
      PROVE  /\ v \in Rechecking /\ pc[t] \in Rechecking => HowMany(pc', Rechecking) = n
             /\ v \notin Rechecking /\ pc[t] \notin Rechecking
                   => HowMany(pc', Rechecking) = n
             /\ v \in Rechecking /\ pc[t] \notin Rechecking
                   => HowMany(pc', Rechecking) = n + 1
             /\ v \notin Rechecking /\ pc[t] \in Rechecking
                   => HowMany(pc', Rechecking) = n - 1
             /\ v # "w_cv" => Asleep' \subseteq Asleep
  <2>1. v # "w_cv" => Asleep' \subseteq Asleep
    BY <1>m, <1>0 DEF Asleep, Move
  <2> QED  BY <1>0, <1>m, <2>1, HowManyMove DEF n
<1>1. CASE UNCHANGED vars
  BY <1>1, <1>0 DEF vars, NoLostWakeup, Asleep, n
<1>2. ASSUME NEW t \in Threads, CallWait(t)
      PROVE  NoLostWakeup'
  <2>1. pc[t] = "out" /\ pc' = Move(pc, t, "w_lock") /\ value' = value
    BY <1>2 DEF CallWait, Move
  <2> QED  BY <2>1, <1>0, <1>m DEF NoLostWakeup, Rechecking
<1>3. ASSUME NEW t \in Threads, CallPost(t)
      PROVE  NoLostWakeup'
  <2>1. pc[t] = "out" /\ pc' = Move(pc, t, "p_lock") /\ value' = value
    BY <1>3 DEF CallPost, Move
  <2> QED  BY <2>1, <1>0, <1>m DEF NoLostWakeup, Rechecking
<1>4. ASSUME NEW t \in Threads, Lock(t)
      PROVE  NoLostWakeup'
  <2>1. CASE pc[t] = "p_lock"
    <3>1. pc' = Move(pc, t, "p_incr") /\ value' = value
      BY <1>4, <2>1 DEF Lock, Move
    <3> QED  BY <2>1, <3>1, <1>0, <1>m DEF NoLostWakeup, Rechecking
  <2>2. CASE pc[t] # "p_lock"
    <3>1. /\ pc' = Move(pc, t, "w_test") /\ value' = value
          /\ pc[t] \in {"w_lock", "w_wake"}
      BY <1>4, <2>2 DEF Lock, Move
    <3> QED  BY <3>1, <1>0, <1>m DEF NoLostWakeup, Rechecking
  <2> QED  BY <2>1, <2>2
<1>5. ASSUME NEW t \in Threads, Test(t)
      PROVE  NoLostWakeup'
  <2>1. CASE value > 0
    <3>1. pc[t] = "w_test" /\ pc' = Move(pc, t, "w_take") /\ value' = value
      BY <1>5, <2>1 DEF Test, Move
    <3> QED  BY <3>1, <1>0, <1>m DEF NoLostWakeup, Rechecking
  <2>2. CASE ~(value > 0)
    <3>1. pc' \in [Threads -> PCs] /\ value' = 0
      BY <2>2, <1>5, <1>0 DEF Test, PCs
    <3>2. HowMany(pc', Rechecking) \in Nat
      BY <3>1, HowManyNat
    <3> QED  BY <3>1, <3>2 DEF NoLostWakeup
  <2> QED  BY <2>1, <2>2
<1>6. ASSUME NEW t \in Threads, SpuriousWake(t)
      PROVE  NoLostWakeup'
  <2>1. pc[t] = "w_cv" /\ pc' = Move(pc, t, "w_wake") /\ value' = value
    BY <1>6 DEF SpuriousWake, Move
  <2> QED  BY <2>1, <1>0, <1>m DEF NoLostWakeup, Rechecking
<1>7. ASSUME NEW t \in Threads, Take(t)
      PROVE  NoLostWakeup'
  <2>1. pc[t] = "w_take" /\ pc' = Move(pc, t, "leave") /\ value' = value - 1
    BY <1>7 DEF Take, Move
  <2> QED  BY <2>1, <1>0, <1>m DEF NoLostWakeup, Rechecking
<1>8. ASSUME NEW t \in Threads, Incr(t)
      PROVE  NoLostWakeup'
  <2>1. pc[t] = "p_incr" /\ pc' = Move(pc, t, "p_note") /\ value' = value + 1
    BY <1>8 DEF Incr, Move
  <2> QED  BY <2>1, <1>0, <1>m DEF NoLostWakeup, Rechecking
<1>9. ASSUME NEW t \in Threads, NotifyOne(t)
      PROVE  NoLostWakeup'
  <2>1. CASE Asleep = {} /\ pc' = [pc EXCEPT ![t] = "leave"]
    <3>1. Asleep' = {}
      BY <2>1, <1>0 DEF Asleep
    <3> QED  BY <3>1 DEF NoLostWakeup
  <2>2. ASSUME NEW u \in Asleep, pc' = [pc EXCEPT ![t] = "leave", ![u] = "w_wake"]
        PROVE  NoLostWakeup'
    <3> DEFINE mid == Move(pc, t, "leave")
    <3>1. /\ u \in Threads /\ pc[u] = "w_cv" /\ pc[t] = "p_note"
          /\ value' = value /\ value <= n
      BY <1>9, <1>0, <2>2 DEF Asleep, NotifyOne
    <3>2. HowMany(mid, Rechecking) = n - 1
      BY <3>1, <1>0, HowManyMove DEF n, Rechecking
    <3>3. DOMAIN mid = Threads /\ mid[u] = "w_cv" /\ pc' = Move(mid, u, "w_wake")
      BY <2>2, <3>1, <1>0 DEF Move
    <3> HIDE DEF mid
    <3>4. HowMany(Move(mid, u, "w_wake"), Rechecking) = HowMany(mid, Rechecking) + 1
      BY <3>1, <3>3, HowManyMove DEF Rechecking
    <3> QED  BY <3>1, <3>2, <3>3, <3>4, <1>0 DEF NoLostWakeup
  <2> QED  BY <1>9, <2>1, <2>2 DEF NotifyOne
<1>10. ASSUME NEW t \in Threads, Unlock(t)
      PROVE  NoLostWakeup'
  <2>1. pc[t] = "leave" /\ pc' = Move(pc, t, "out") /\ value' = value
    BY <1>10 DEF Unlock, Move
  <2> QED  BY <2>1, <1>0, <1>m DEF NoLostWakeup, Rechecking
<1> QED
  BY <1>1, <1>2, <1>3, <1>4, <1>5, <1>6, <1>7, <1>8, <1>9, <1>10 DEF Next, Step

\* The four invariants hold in every reachable state.
LEMMA Inductive == Spec => []IInv
<1>1. Init => IInv
  <2> SUFFICES ASSUME Init PROVE IInv
    OBVIOUS
  <2>1. TypeOK /\ MutexOwned /\ UnitIsThere /\ Asleep = {}
    BY InitialValueAssumption, NoThreadAssumption
       DEF Init, Semaphore, TypeOK, PCs, MutexOwned, Holding, UnitIsThere, Asleep
  <2> QED  BY <2>1 DEF IInv, NoLostWakeup
<1>2. IInv /\ [Next]_vars => IInv'
  BY MutexStep, WakeupStep DEF IInv
<1> QED  BY <1>1, <1>2, PTL DEF Spec

\* Type correctness of the semaphore object: value never becomes negative.
THEOREM SemaphoreType == Spec => []TypeOK
BY Inductive, PTL DEF IInv

\* wait() and post() touch value only while they own the mutex.
THEOREM SemaphoreMutex == Spec => []MutexOwned
BY Inductive, PTL DEF IInv

\* The unit that cv.wait's predicate saw is there when value-- runs.
THEOREM SemaphoreUnit == Spec => []UnitIsThere
BY Inductive, PTL DEF IInv

\* No wakeup is lost although post() notifies a single thread.
THEOREM SemaphoreWakeup == Spec => []NoLostWakeup
BY Inductive, PTL DEF IInv

\* The class implements the counting semaphore that its users rely on.
THEOREM SemaphoreRefines == Spec => IsCountingSemaphore
<1>1. Init => CS!Init
  BY DEF Init, Semaphore, CS!Init, AbsCall
<1>2. IInv /\ [Next]_vars => [CS!Next]_CS!vars
  <2> SUFFICES ASSUME IInv, [Next]_vars
               PROVE  CS!Next \/ CS!vars' = CS!vars
    OBVIOUS
  <2> USE DEF IInv, TypeOK, UnitIsThere
  <2>1. CASE UNCHANGED vars
    BY <2>1 DEF vars, CS!vars, AbsCall
  <2>2. ASSUME NEW t \in Threads, CallWait(t)
        PROVE  CS!CallWait(t)
    BY <2>2 DEF CallWait, CS!CallWait, AbsCall
  <2>3. ASSUME NEW t \in Threads, CallPost(t)
        PROVE  CS!CallPost(t)
    BY <2>3 DEF CallPost, CS!CallPost, AbsCall
  <2>4. ASSUME NEW t \in Threads, Lock(t)
        PROVE  UNCHANGED CS!vars
    BY <2>4 DEF Lock, CS!vars, AbsCall
  <2>5. ASSUME NEW t \in Threads, Test(t)
        PROVE  UNCHANGED CS!vars
    BY <2>5 DEF Test, CS!vars, AbsCall
  <2>6. ASSUME NEW t \in Threads, SpuriousWake(t)
        PROVE  UNCHANGED CS!vars
    BY <2>6 DEF SpuriousWake, CS!vars, AbsCall
  <2>7. ASSUME NEW t \in Threads, Take(t)
        PROVE  CS!Take(t)
    BY <2>7 DEF Take, CS!Take, AbsCall
  <2>8. ASSUME NEW t \in Threads, Incr(t)
        PROVE  CS!Give(t)
    BY <2>8 DEF Incr, CS!Give, AbsCall
  <2>9. ASSUME NEW t \in Threads, NotifyOne(t)
        PROVE  UNCHANGED CS!vars
    BY <2>9 DEF NotifyOne, Asleep, CS!vars, AbsCall
  <2>10. ASSUME NEW t \in Threads, Unlock(t)
        PROVE  UNCHANGED CS!vars
    BY <2>10 DEF Unlock, CS!vars, AbsCall
  <2> QED
    BY <2>1, <2>2, <2>3, <2>4, <2>5, <2>6, <2>7, <2>8, <2>9, <2>10 DEF Next, Step, CS!Next
<1> QED  BY <1>1, <1>2, Inductive, PTL DEF Spec, IsCountingSemaphore, CS!Spec
=============================================================================
