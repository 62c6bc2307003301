------------------------- MODULE BoundedBufferProofs -------------------------
(***************************************************************************)
(* For every number of pairs and every buffer at least as large: the       *)
(* globals are accessed exclusively, the semaphores account for every      *)
(* slot, the queue is never popped empty and no producer waits for a slot  *)
(* while it holds syncPrimes.  isPrime finds the primes, and for every     *)
(* number main starts from the producers put the primes that follow it,    *)
(* and each goes to one consumer.                                          *)
(***************************************************************************)
EXTENDS BoundedBuffer, CountingProofs

\* The search for the next prime ends below MaxPrime with a larger number that
\* passes the test, the first one that does.
LEMMA NextPrimeFound ==
    ASSUME NEW n \in Int, n < MaxPrime
    PROVE  /\ getNextPrime(n) \in (n + 1)..MaxPrime
           /\ isPrime(getNextPrime(n))
           /\ \A q \in (n + 1)..(getNextPrime(n) - 1) : ~isPrime(q)
<1> USE MaxPrimeAssumption
<1> DEFINE T == {q \in (n + 1)..MaxPrime : isPrime(q)}
<1>1. T \subseteq Nat
  BY DEF isPrime
<1>2. MaxPrime \in T
  OBVIOUS
<1>3. PICK p \in T : \A q \in T : p <= q
  BY <1>1, <1>2, LeastOf
<1>4. \A q \in T : ~(q < p)
  BY <1>1, <1>3
<1>5. \E q \in (n + 1)..MaxPrime : isPrime(q) /\ \A r \in (n + 1)..(q - 1) : ~isPrime(r)
  <2>1. \A r \in (n + 1)..(p - 1) : ~isPrime(r)
    BY <1>4
  <2> QED  BY <2>1
<1> QED  BY <1>5 DEF getNextPrime

\* A product grows with either factor.
LEMMA Grows ==
    ASSUME NEW a \in Nat, NEW b \in Nat, NEW c \in Nat, a <= b
    PROVE  a * c <= b * c /\ c * a <= c * b /\ a * c = c * a
OBVIOUS

\* A divisor has a cofactor, and a number with a cofactor is a divisor.
LEMMA Cofactor ==
    ASSUME NEW n \in Nat, NEW d \in Nat \ {0}
    PROVE  n % d = 0 <=> \E e \in Nat : n = d * e
<1>1. n = d * (n \div d) + (n % d) /\ n \div d \in Nat /\ n % d \in 0..(d - 1)
  OBVIOUS
<1>2. ASSUME n % d = 0
      PROVE  \E e \in Nat : n = d * e
  <2>1. n = d * (n \div d) /\ n \div d \in Nat
    BY <1>1, <1>2
  <2> QED  BY <2>1, Zenon
<1>3. ASSUME NEW e \in Nat, n = d * e
      PROVE  n % d = 0
  <2> DEFINE q == n \div d
             r == n % d
  <2>1. d * e = d * q + r /\ q \in Nat /\ r \in 0..(d - 1)
    BY <1>1, <1>3
  <2> HIDE DEF q, r
  <2>2. CASE e <= q
    <3>1. d * e <= d * q
      BY <2>1, <2>2, Z3
    <3> QED BY <2>1, <3>1, Z3 DEF r
  <2>3. CASE e >= q + 1
    <3>1. d * e >= d * (q + 1) /\ d * (q + 1) = d * q + d
      BY <2>1, <2>3, Z3
    <3> QED  BY <2>1, <3>1, Z3 DEF r
  <2> QED  BY <2>1, <2>2, <2>3
<1> QED  BY <1>2, <1>3

\* What divides a divisor divides the number.
LEMMA DividesOn ==
    ASSUME NEW n \in Nat, NEW d \in Nat \ {0}, NEW m \in Nat \ {0}, n % d = 0, d % m = 0
    PROVE  n % m = 0
<1>1. PICK e \in Nat : n = d * e
  BY Cofactor
<1>2. PICK f \in Nat : d = m * f
  BY Cofactor
<1>3. n = m * (f * e) /\ f * e \in Nat
  BY <1>1, <1>2, Z3
<1> QED  BY <1>3, Cofactor

\* The trial division of isPrime finds exactly the primes: a number that has a divisor
\* has one up to its square root, and that is a multiple of 2 or 3 or of the form
\* 6k - 1 or 6k + 1, which the loop tries.
THEOREM IsPrimeRight ==
    ASSUME NEW n \in Int
    PROVE  isPrime(n) <=> Prime(n)
<1>1. CASE n <= 3
  <2>1. n > 1 => n \in {2, 3}
    BY <1>1
  <2>2. \A d \in 2..(n - 1) : n % d # 0
    <3> SUFFICES ASSUME NEW d \in 2..(n - 1)
                 PROVE  n % d # 0
      OBVIOUS
    <3>1. n = 3 /\ d = 2
      BY <1>1
    <3> QED  BY <3>1
  <2> QED  BY <1>1, <2>2 DEF isPrime, Prime
<1>2. CASE n > 3
  <2>1. ASSUME isPrime(n), NEW d \in 2..(n - 1), n % d = 0
        PROVE  FALSE
    <3>1. PICK e \in Nat : n = d * e
      BY <1>2, <2>1, Cofactor
    <3> d \in Nat
      OBVIOUS
    <3>2. e > 1 /\ e < n
      <4>1. e # 0 /\ e # 1
        BY <1>2, <2>1, <3>1
      <4>2. 2 * e <= d * e
        BY Grows
      <4> QED  BY <1>2, <3>1, <4>1, <4>2
    <3>3. n % e = 0
      <4>1. n = e * d
        BY <3>1, Grows
      <4> QED  BY <1>2, <2>1, <3>2, <4>1, Cofactor
    <3>4. PICK s \in 2..(n - 1) : n % s = 0 /\ s * s <= n
      <4>1. CASE d <= e
        <5>1. d * d <= d * e
          BY <4>1, Grows
        <5>2. d * d <= n
          BY <3>1, <5>1
        <5> QED  BY <2>1, <5>2
      <4>2. CASE e <= d
        <5>1. e * e <= d * e
          BY <4>2, Grows
        <5>2. e \in 2..(n - 1) /\ e * e <= n
          BY <3>1, <3>2, <5>1
        <5> QED  BY <3>3, <5>2
      <4> QED  BY <2>1, <4>1, <4>2
    <3>5. n % 2 # 0 /\ n % 3 # 0
      BY <1>2, <2>1 DEF isPrime
    <3>6. s % 2 # 0 /\ s % 3 # 0
      <4>1. n \in Nat /\ s \in Nat \ {0}
        BY <1>2
      <4>2. 2 \in Nat \ {0} /\ 3 \in Nat \ {0}
        OBVIOUS
      <4>3. (s % 2 = 0 => n % 2 = 0) /\ (s % 3 = 0 => n % 3 = 0)
        BY ONLY <3>4, <4>1, <4>2, DividesOn, Zenon
      <4> QED  BY <3>5, <4>3
    <3>7. s % 6 = 5 \/ ((s - 2) % 6 = 5 /\ s >= 7)
      <4>1. PICK q \in Nat, r \in 0..5 : s = 6 * q + r /\ r = s % 6
        OBVIOUS
      <4>2. r # 0 /\ r # 2 /\ r # 4
        BY <3>6, <4>1
      <4>3. r # 3
        BY <3>6, <4>1
      <4> QED  BY <4>1, <4>2, <4>3
    <3>8. ASSUME NEW i \in 5..n, i % 6 = 5, i * i <= n
          PROVE  n % i # 0 /\ n % (i + 2) # 0
      <4>1. \A j \in {k \in 5..n : k % 6 = 5 /\ k * k <= n} : n % j # 0 /\ n % (j + 2) # 0
        <5>1. ~(n <= 3)
          BY <1>2
        <5> QED  BY <2>1, <5>1, Zenon DEF isPrime
      <4>2. i \in {k \in 5..n : k % 6 = 5 /\ k * k <= n}
        BY <3>8
      <4> QED  BY <4>1, <4>2
    <3>9. CASE s % 6 = 5
      <4>1. s >= 5
        BY <3>4, <3>9, Z3
      <4> QED  BY <3>4, <3>8, <3>9, <4>1
    <3>10. CASE (s - 2) % 6 = 5 /\ s >= 7
      <4>1. (s - 2) * (s - 2) <= s * s
        <5>1. s - 2 \in Nat /\ s \in Nat /\ s - 2 <= s
          BY <3>10
        <5>2. (s - 2) * (s - 2) <= (s - 2) * s /\ (s - 2) * s <= s * s
          BY <5>1, Grows
        <5> QED  BY <5>1, <5>2
      <4>2. s - 2 \in 5..n /\ (s - 2) * (s - 2) <= n /\ (s - 2) + 2 = s
        BY <3>4, <3>10, <4>1
      <4> QED  BY <3>4, <3>8, <3>10, <4>2
    <3> QED  BY <3>7, <3>9, <3>10
  <2>2. ASSUME Prime(n)
        PROVE  isPrime(n)
    <3>1. n % 2 # 0 /\ n % 3 # 0
      BY <1>2, <2>2 DEF Prime
    <3>2. ASSUME NEW i \in 5..n, i * i <= n
          PROVE  n % i # 0 /\ n % (i + 2) # 0
      <4>1. 5 * i <= n
        <5>1. 5 * i <= i * i
          BY Grows
        <5> QED  BY <3>2, <5>1
      <4>2. i \in 2..(n - 1) /\ i + 2 \in 2..(n - 1)
        BY <3>2, <4>1
      <4> QED  BY <2>2, <4>2 DEF Prime
    <3> QED  BY <1>2, <3>1, <3>2, SMTT(30) DEF isPrime
  <2>3. isPrime(n) => Prime(n)
    <3>1. isPrime(n) => \A d \in 2..(n - 1) : n % d # 0
      BY <2>1, Zenon
    <3> QED  BY <1>2, <3>1 DEF Prime
  <2> QED  BY <2>2, <2>3
<1> QED  BY <1>1, <1>2

\* main starts the threads in order: the ones from its index on are new.
Spawned == \A j \in Pairs :
    /\ prod[j] = "new" <=> \/ main.at = "prod" /\ j >= main.i
                           \/ main.at = "cons" /\ j > main.i
    /\ cons[j] = "new" <=> main.at \in {"prod", "cons"} /\ j >= main.i

\* Types, and the order in which main starts the threads, are kept by every step.
LEMMA TypeStep ==
    ASSUME TypeOK, Spawned, [Next]_vars
    PROVE  TypeOK' /\ Spawned'
<1> USE NumPairsAssumption DEF TypeOK, Spawned, Pairs, ProdPCs, ConsPCs, MainPCs, Goto
<1>1. CASE UNCHANGED vars
  BY <1>1 DEF vars
<1>2. ASSUME NEW i \in Pairs, WaitOther(i)
      PROVE  TypeOK' /\ Spawned'
  BY <1>2 DEF WaitOther, globals, sems
<1>3. ASSUME NEW i \in Pairs, ReadPrimer(i)
      PROVE  TypeOK' /\ Spawned'
  BY <1>3 DEF ReadPrimer, globals, sems
<1>4. ASSUME NEW i \in Pairs, RaiseNextPrime(i)
      PROVE  TypeOK' /\ Spawned'
  BY <1>4, FirstNumsAssumption DEF RaiseNextPrime, globals, sems
<1>5. ASSUME NEW i \in Pairs, ProdWaitSync(i)
      PROVE  TypeOK' /\ Spawned'
  BY <1>5 DEF ProdWaitSync, globals, sems
<1>6. ASSUME NEW i \in Pairs, WaitEmpty(i)
      PROVE  TypeOK' /\ Spawned'
  BY <1>6 DEF WaitEmpty, globals, sems
<1>7. ASSUME NEW i \in Pairs, GetNext(i)
      PROVE  TypeOK' /\ Spawned'
  <2>1. getNextPrime(nextPrime) \in Int
    BY <1>7, NextPrimeFound, MaxPrimeAssumption DEF GetNext
  <2> QED  BY <1>7, <2>1 DEF GetNext, globals, sems
<1>8. ASSUME NEW i \in Pairs, Push(i)
      PROVE  TypeOK' /\ Spawned'
  BY <1>8 DEF Push, globals, sems
<1>9. ASSUME NEW i \in Pairs, Store(i)
      PROVE  TypeOK' /\ Spawned'
  BY <1>9 DEF Store, globals, sems
<1>10. ASSUME NEW i \in Pairs, PostOther(i)
      PROVE  TypeOK' /\ Spawned'
  BY <1>10 DEF PostOther, globals, sems
<1>11. ASSUME NEW i \in Pairs, ProdPostSync(i)
      PROVE  TypeOK' /\ Spawned'
  BY <1>11 DEF ProdPostSync, globals, sems
<1>12. ASSUME NEW i \in Pairs, PostFull(i)
      PROVE  TypeOK' /\ Spawned'
  BY <1>12 DEF PostFull, globals, sems
<1>13. ASSUME NEW i \in Pairs, WaitFull(i)
      PROVE  TypeOK' /\ Spawned'
  BY <1>13 DEF WaitFull, globals, sems
<1>14. ASSUME NEW i \in Pairs, ConsWaitSync(i)
      PROVE  TypeOK' /\ Spawned'
  BY <1>14 DEF ConsWaitSync, globals, sems
<1>15. ASSUME NEW i \in Pairs, Front(i)
      PROVE  TypeOK' /\ Spawned'
  <2>1. list # <<>> => Head(list) \in Int
    OBVIOUS
  <2>2. CASE list = <<>>
    BY <1>15, <2>2 DEF Front, globals, sems
  <2>3. CASE list # <<>>
    BY <1>15, <2>1, <2>3 DEF Front, globals, sems
  <2> QED  BY <2>2, <2>3
<1>16. ASSUME NEW i \in Pairs, Pop(i)
      PROVE  TypeOK' /\ Spawned'
  <2>1. list # <<>> => Tail(list) \in Seq(Int)
    OBVIOUS
  <2>2. CASE list = <<>>
    BY <1>16, <2>2 DEF Pop, globals, sems
  <2>3. CASE list # <<>>
    BY <1>16, <2>1, <2>3 DEF Pop, globals, sems
  <2> QED  BY <2>2, <2>3
<1>17. ASSUME NEW i \in Pairs, ConsPostSync(i)
      PROVE  TypeOK' /\ Spawned'
  BY <1>17 DEF ConsPostSync, globals, sems
<1>18. ASSUME NEW i \in Pairs, PostEmpty(i)
      PROVE  TypeOK' /\ Spawned'
  BY <1>18 DEF PostEmpty, globals, sems
<1>19. CASE StartProducer
  <2>1. main' = [at |-> "cons", i |-> main.i]
    BY <1>19 DEF StartProducer
  <2>2. TypeOK'
    BY <1>19, <2>1 DEF StartProducer, globals, sems
  <2>3. Spawned'
    BY <1>19, <2>1 DEF StartProducer, globals, sems
  <2> QED  BY <2>2, <2>3
<1>20. CASE StartConsumer
  BY <1>20, SMTT(30) DEF StartConsumer, globals, sems
<1>21. CASE JoinProducer
  BY <1>21 DEF JoinProducer, globals, sems
<1>22. CASE JoinConsumer
  BY <1>22 DEF JoinConsumer, globals, sems
<1>23. CASE Returned
  BY <1>23 DEF Returned, globals, sems, vars
<1> QED
  BY <1>1, <1>2, <1>3, <1>4, <1>5, <1>6, <1>7, <1>8, <1>9, <1>10, <1>11,
     <1>12, <1>13, <1>14, <1>15, <1>16, <1>17, <1>18, <1>19, <1>20, <1>21, <1>22, <1>23
     DEF Next, PrimeProducer, PrimeConsumer, Main

\* What was put is queued or taken.
PutCount == HowMany(prod, HasPut) = Len(list) + HowMany(cons, HasGot)

\* The equations between the semaphores, the queue and the places of the threads.
Accounts == GlobalsExclusive /\ SlotAccounting /\ PutCount

\* A consumer that is at front() or pop() has been granted an element.
LEMMA GrantedIsThere ==
    ASSUME TypeOK, SlotAccounting, NEW i \in Pairs, cons[i] \in {"front", "pop"}
    PROVE  list # <<>>
<1>1. IsFiniteSet(Pairs)
  BY NumPairsAssumption, FS_Interval DEF Pairs
<1>2. DOMAIN prod = Pairs /\ DOMAIN cons = Pairs
  BY DEF TypeOK
<1>3. HowMany(cons, Granted) > 0
  BY <1>1, <1>2, HowManyPositive DEF Granted
<1>4. HowMany(prod, Unposted) \in Nat /\ HowMany(cons, Granted) \in Nat /\ fullSlots \in Nat
  BY <1>1, <1>2, HowManyNat DEF TypeOK
<1>5. Len(list) > 0
  BY <1>3, <1>4 DEF SlotAccounting
<1> QED  BY <1>5

\* Every step keeps the accounts.
LEMMA AccountStep ==
    ASSUME TypeOK, Spawned, Accounts, [Next]_vars
    PROVE  Accounts'
<1> DEFINE P(A) == HowMany(prod, A)
           C(A) == HowMany(cons, A)
<1>0. /\ IsFiniteSet(Pairs)
      /\ DOMAIN prod = Pairs /\ DOMAIN cons = Pairs
  BY NumPairsAssumption, FS_Interval DEF Pairs, TypeOK
\* The equations before the step, each with the types of its terms.
<1>b1. /\ P(ProdInList) + C(ConsInList) = 1 - syncPrimes
       /\ P(ProdInList) \in Nat /\ C(ConsInList) \in Nat /\ syncPrimes \in Nat
  BY <1>0, HowManyNat DEF TypeOK, Accounts, GlobalsExclusive
<1>b2. /\ P(InNextPrime) = 1 - otherPrime
       /\ P(InNextPrime) \in Nat /\ otherPrime \in Nat
  BY <1>0, HowManyNat DEF TypeOK, Accounts, GlobalsExclusive
<1>b3. /\ Len(list) = fullSlots + P(Unposted) + C(Granted)
       /\ Len(list) \in Nat /\ fullSlots \in Nat /\ P(Unposted) \in Nat /\ C(Granted) \in Nat
  BY <1>0, HowManyNat DEF TypeOK, Accounts, SlotAccounting
<1>b4. /\ emptySlots + P(Reserved) + Len(list) + C(Emptied) = buf_size
       /\ emptySlots \in Nat /\ P(Reserved) \in Nat /\ Len(list) \in Nat
       /\ C(Emptied) \in Nat /\ buf_size \in Nat
  BY <1>0, HowManyNat, BufSizeAssumption DEF TypeOK, Accounts, SlotAccounting
<1>b5. /\ P(HasPut) = Len(list) + C(HasGot)
       /\ P(HasPut) \in Nat /\ Len(list) \in Nat /\ C(HasGot) \in Nat
  BY <1>0, HowManyNat DEF TypeOK, Accounts, PutCount
\* The equations after it.
<1> DEFINE B1 == HowMany(prod', ProdInList) + HowMany(cons', ConsInList) = 1 - syncPrimes'
           B2 == HowMany(prod', InNextPrime) = 1 - otherPrime'
           B3 == Len(list') = fullSlots' + HowMany(prod', Unposted) + HowMany(cons', Granted)
           B4 == emptySlots' + HowMany(prod', Reserved) + Len(list') + HowMany(cons', Emptied)
                   = buf_size
           B5 == HowMany(prod', HasPut) = Len(list') + HowMany(cons', HasGot)
           Balanced == B1 /\ B2 /\ B3 /\ B4 /\ B5
<1>t. TypeOK'
  BY TypeStep
<1>u. syncPrimes' \in Nat /\ otherPrime' \in Nat
  BY <1>t DEF TypeOK
<1> SUFFICES Balanced
  BY <1>u DEF Accounts, GlobalsExclusive, SlotAccounting, PutCount
<1> HIDE DEF P, C
\* What a producer's or a consumer's step does to the counts.
<1>p. ASSUME NEW i \in Pairs, NEW v, prod' = Move(prod, i, v), NEW A
      PROVE  /\ v \in A /\ prod[i] \in A => HowMany(prod', A) = P(A)
             /\ v \notin A /\ prod[i] \notin A => HowMany(prod', A) = P(A)
             /\ v \in A /\ prod[i] \notin A => HowMany(prod', A) = P(A) + 1
             /\ v \notin A /\ prod[i] \in A => HowMany(prod', A) = P(A) - 1
  BY <1>0, <1>p, HowManyMove DEF P
<1>c. ASSUME NEW i \in Pairs, NEW v, cons' = Move(cons, i, v), NEW A
      PROVE  /\ v \in A /\ cons[i] \in A => HowMany(cons', A) = C(A)
             /\ v \notin A /\ cons[i] \notin A => HowMany(cons', A) = C(A)
             /\ v \in A /\ cons[i] \notin A => HowMany(cons', A) = C(A) + 1
             /\ v \notin A /\ cons[i] \in A => HowMany(cons', A) = C(A) - 1
  BY <1>0, <1>c, HowManyMove DEF C
<1>q. /\ prod' = prod => /\ HowMany(prod', ProdInList) = P(ProdInList)
                         /\ HowMany(prod', InNextPrime) = P(InNextPrime)
                         /\ HowMany(prod', Unposted) = P(Unposted)
                         /\ HowMany(prod', Reserved) = P(Reserved)
                         /\ HowMany(prod', HasPut) = P(HasPut)
      /\ cons' = cons => /\ HowMany(cons', ConsInList) = C(ConsInList)
                         /\ HowMany(cons', Granted) = C(Granted)
                         /\ HowMany(cons', Emptied) = C(Emptied)
                         /\ HowMany(cons', HasGot) = C(HasGot)
  BY DEF P, C
<1>1. CASE UNCHANGED vars
  BY <1>1, <1>b1, <1>b2, <1>b3, <1>b4, <1>b5, <1>q DEF vars
<1>2. ASSUME NEW i \in Pairs, WaitOther(i)
      PROVE  Balanced
  <2>1. prod[i] = "otherWait" /\ prod' = Move(prod, i, "primer") /\ cons' = cons
    BY <1>2 DEF WaitOther, Goto, Move
  <2>2. /\ otherPrime' = otherPrime - 1
        /\ fullSlots' = fullSlots /\ emptySlots' = emptySlots /\ syncPrimes' = syncPrimes
        /\ Len(list') = Len(list)
    BY <1>2 DEF WaitOther, globals, sems
  <2>3. /\ HowMany(prod', ProdInList) = P(ProdInList)
        /\ HowMany(prod', InNextPrime) = P(InNextPrime) + 1
        /\ HowMany(prod', Unposted) = P(Unposted)
        /\ HowMany(prod', Reserved) = P(Reserved)
        /\ HowMany(prod', HasPut) = P(HasPut)
    BY <2>1, <1>p DEF ProdInList, InNextPrime, Unposted, Reserved, HasPut
  <2>4. /\ HowMany(cons', ConsInList) = C(ConsInList)
        /\ HowMany(cons', Granted) = C(Granted)
        /\ HowMany(cons', Emptied) = C(Emptied)
        /\ HowMany(cons', HasGot) = C(HasGot)
    BY <2>1, <1>q
  <2>5. B1  BY <2>2, <2>3, <2>4, <1>b1
  <2>6. B2  BY <2>2, <2>3, <2>4, <1>b2
  <2>7. B3  BY <2>2, <2>3, <2>4, <1>b3
  <2>8. B4  BY <2>2, <2>3, <2>4, <1>b4
  <2>9. B5  BY <2>2, <2>3, <2>4, <1>b5
  <2> QED  BY <2>5, <2>6, <2>7, <2>8, <2>9
<1>3. ASSUME NEW i \in Pairs, ReadPrimer(i)
      PROVE  Balanced
  <2>1. CASE nextNum > nextPrime
    <3>1. prod[i] = "primer" /\ prod' = Move(prod, i, "raise") /\ cons' = cons
      BY <1>3, <2>1 DEF ReadPrimer, Goto, Move
    <3>2. /\ fullSlots' = fullSlots /\ emptySlots' = emptySlots /\ syncPrimes' = syncPrimes /\ otherPrime' = otherPrime
          /\ Len(list') = Len(list)
      BY <1>3, <2>1 DEF ReadPrimer, globals, sems
    <3>3. /\ HowMany(prod', ProdInList) = P(ProdInList)
          /\ HowMany(prod', InNextPrime) = P(InNextPrime)
          /\ HowMany(prod', Unposted) = P(Unposted)
          /\ HowMany(prod', Reserved) = P(Reserved)
          /\ HowMany(prod', HasPut) = P(HasPut)
      BY <3>1, <1>p DEF ProdInList, InNextPrime, Unposted, Reserved, HasPut
    <3>4. /\ HowMany(cons', ConsInList) = C(ConsInList)
          /\ HowMany(cons', Granted) = C(Granted)
          /\ HowMany(cons', Emptied) = C(Emptied)
          /\ HowMany(cons', HasGot) = C(HasGot)
      BY <3>1, <1>q
    <3>5. B1  BY <3>2, <3>3, <3>4, <1>b1
    <3>6. B2  BY <3>2, <3>3, <3>4, <1>b2
    <3>7. B3  BY <3>2, <3>3, <3>4, <1>b3
    <3>8. B4  BY <3>2, <3>3, <3>4, <1>b4
    <3>9. B5  BY <3>2, <3>3, <3>4, <1>b5
    <3> QED  BY <3>5, <3>6, <3>7, <3>8, <3>9
  <2>2. CASE ~(nextNum > nextPrime)
    <3>1. prod[i] = "primer" /\ prod' = Move(prod, i, "syncWait") /\ cons' = cons
      BY <1>3, <2>2 DEF ReadPrimer, Goto, Move
    <3>2. /\ fullSlots' = fullSlots /\ emptySlots' = emptySlots /\ syncPrimes' = syncPrimes /\ otherPrime' = otherPrime
          /\ Len(list') = Len(list)
      BY <1>3, <2>2 DEF ReadPrimer, globals, sems
    <3>3. /\ HowMany(prod', ProdInList) = P(ProdInList)
          /\ HowMany(prod', InNextPrime) = P(InNextPrime)
          /\ HowMany(prod', Unposted) = P(Unposted)
          /\ HowMany(prod', Reserved) = P(Reserved)
          /\ HowMany(prod', HasPut) = P(HasPut)
      BY <3>1, <1>p DEF ProdInList, InNextPrime, Unposted, Reserved, HasPut
    <3>4. /\ HowMany(cons', ConsInList) = C(ConsInList)
          /\ HowMany(cons', Granted) = C(Granted)
          /\ HowMany(cons', Emptied) = C(Emptied)
          /\ HowMany(cons', HasGot) = C(HasGot)
      BY <3>1, <1>q
    <3>5. B1  BY <3>2, <3>3, <3>4, <1>b1
    <3>6. B2  BY <3>2, <3>3, <3>4, <1>b2
    <3>7. B3  BY <3>2, <3>3, <3>4, <1>b3
    <3>8. B4  BY <3>2, <3>3, <3>4, <1>b4
    <3>9. B5  BY <3>2, <3>3, <3>4, <1>b5
    <3> QED  BY <3>5, <3>6, <3>7, <3>8, <3>9
  <2> QED  BY <2>1, <2>2
<1>4. ASSUME NEW i \in Pairs, RaiseNextPrime(i)
      PROVE  Balanced
  <2>1. prod[i] = "raise" /\ prod' = Move(prod, i, "syncWait") /\ cons' = cons
    BY <1>4 DEF RaiseNextPrime, Goto, Move
  <2>2. /\ fullSlots' = fullSlots /\ emptySlots' = emptySlots /\ syncPrimes' = syncPrimes /\ otherPrime' = otherPrime
        /\ Len(list') = Len(list)
    BY <1>4 DEF RaiseNextPrime, globals, sems
  <2>3. /\ HowMany(prod', ProdInList) = P(ProdInList)
        /\ HowMany(prod', InNextPrime) = P(InNextPrime)
        /\ HowMany(prod', Unposted) = P(Unposted)
        /\ HowMany(prod', Reserved) = P(Reserved)
        /\ HowMany(prod', HasPut) = P(HasPut)
    BY <2>1, <1>p DEF ProdInList, InNextPrime, Unposted, Reserved, HasPut
  <2>4. /\ HowMany(cons', ConsInList) = C(ConsInList)
        /\ HowMany(cons', Granted) = C(Granted)
        /\ HowMany(cons', Emptied) = C(Emptied)
        /\ HowMany(cons', HasGot) = C(HasGot)
    BY <2>1, <1>q
  <2>5. B1  BY <2>2, <2>3, <2>4, <1>b1
  <2>6. B2  BY <2>2, <2>3, <2>4, <1>b2
  <2>7. B3  BY <2>2, <2>3, <2>4, <1>b3
  <2>8. B4  BY <2>2, <2>3, <2>4, <1>b4
  <2>9. B5  BY <2>2, <2>3, <2>4, <1>b5
  <2> QED  BY <2>5, <2>6, <2>7, <2>8, <2>9
<1>5. ASSUME NEW i \in Pairs, ProdWaitSync(i)
      PROVE  Balanced
  <2>1. prod[i] = "syncWait" /\ prod' = Move(prod, i, "emptyWait") /\ cons' = cons
    BY <1>5 DEF ProdWaitSync, Goto, Move
  <2>2. /\ syncPrimes' = syncPrimes - 1
        /\ fullSlots' = fullSlots /\ emptySlots' = emptySlots /\ otherPrime' = otherPrime
        /\ Len(list') = Len(list)
    BY <1>5 DEF ProdWaitSync, globals, sems
  <2>3. /\ HowMany(prod', ProdInList) = P(ProdInList) + 1
        /\ HowMany(prod', InNextPrime) = P(InNextPrime)
        /\ HowMany(prod', Unposted) = P(Unposted)
        /\ HowMany(prod', Reserved) = P(Reserved)
        /\ HowMany(prod', HasPut) = P(HasPut)
    BY <2>1, <1>p DEF ProdInList, InNextPrime, Unposted, Reserved, HasPut
  <2>4. /\ HowMany(cons', ConsInList) = C(ConsInList)
        /\ HowMany(cons', Granted) = C(Granted)
        /\ HowMany(cons', Emptied) = C(Emptied)
        /\ HowMany(cons', HasGot) = C(HasGot)
    BY <2>1, <1>q
  <2>5. B1  BY <2>2, <2>3, <2>4, <1>b1
  <2>6. B2  BY <2>2, <2>3, <2>4, <1>b2
  <2>7. B3  BY <2>2, <2>3, <2>4, <1>b3
  <2>8. B4  BY <2>2, <2>3, <2>4, <1>b4
  <2>9. B5  BY <2>2, <2>3, <2>4, <1>b5
  <2> QED  BY <2>5, <2>6, <2>7, <2>8, <2>9
<1>6. ASSUME NEW i \in Pairs, WaitEmpty(i)
      PROVE  Balanced
  <2>1. prod[i] = "emptyWait" /\ prod' = Move(prod, i, "getNext") /\ cons' = cons
    BY <1>6 DEF WaitEmpty, Goto, Move
  <2>2. /\ emptySlots' = emptySlots - 1
        /\ fullSlots' = fullSlots /\ syncPrimes' = syncPrimes /\ otherPrime' = otherPrime
        /\ Len(list') = Len(list)
    BY <1>6 DEF WaitEmpty, globals, sems
  <2>3. /\ HowMany(prod', ProdInList) = P(ProdInList)
        /\ HowMany(prod', InNextPrime) = P(InNextPrime)
        /\ HowMany(prod', Unposted) = P(Unposted)
        /\ HowMany(prod', Reserved) = P(Reserved) + 1
        /\ HowMany(prod', HasPut) = P(HasPut)
    BY <2>1, <1>p DEF ProdInList, InNextPrime, Unposted, Reserved, HasPut
  <2>4. /\ HowMany(cons', ConsInList) = C(ConsInList)
        /\ HowMany(cons', Granted) = C(Granted)
        /\ HowMany(cons', Emptied) = C(Emptied)
        /\ HowMany(cons', HasGot) = C(HasGot)
    BY <2>1, <1>q
  <2>5. B1  BY <2>2, <2>3, <2>4, <1>b1
  <2>6. B2  BY <2>2, <2>3, <2>4, <1>b2
  <2>7. B3  BY <2>2, <2>3, <2>4, <1>b3
  <2>8. B4  BY <2>2, <2>3, <2>4, <1>b4
  <2>9. B5  BY <2>2, <2>3, <2>4, <1>b5
  <2> QED  BY <2>5, <2>6, <2>7, <2>8, <2>9
<1>7. ASSUME NEW i \in Pairs, GetNext(i)
      PROVE  Balanced
  <2>1. prod[i] = "getNext" /\ prod' = Move(prod, i, "push") /\ cons' = cons
    BY <1>7 DEF GetNext, Goto, Move
  <2>2. /\ fullSlots' = fullSlots /\ emptySlots' = emptySlots /\ syncPrimes' = syncPrimes /\ otherPrime' = otherPrime
        /\ Len(list') = Len(list)
    BY <1>7 DEF GetNext, globals, sems
  <2>3. /\ HowMany(prod', ProdInList) = P(ProdInList)
        /\ HowMany(prod', InNextPrime) = P(InNextPrime)
        /\ HowMany(prod', Unposted) = P(Unposted)
        /\ HowMany(prod', Reserved) = P(Reserved)
        /\ HowMany(prod', HasPut) = P(HasPut)
    BY <2>1, <1>p DEF ProdInList, InNextPrime, Unposted, Reserved, HasPut
  <2>4. /\ HowMany(cons', ConsInList) = C(ConsInList)
        /\ HowMany(cons', Granted) = C(Granted)
        /\ HowMany(cons', Emptied) = C(Emptied)
        /\ HowMany(cons', HasGot) = C(HasGot)
    BY <2>1, <1>q
  <2>5. B1  BY <2>2, <2>3, <2>4, <1>b1
  <2>6. B2  BY <2>2, <2>3, <2>4, <1>b2
  <2>7. B3  BY <2>2, <2>3, <2>4, <1>b3
  <2>8. B4  BY <2>2, <2>3, <2>4, <1>b4
  <2>9. B5  BY <2>2, <2>3, <2>4, <1>b5
  <2> QED  BY <2>5, <2>6, <2>7, <2>8, <2>9
<1>8. ASSUME NEW i \in Pairs, Push(i)
      PROVE  Balanced
  <2>1. prod[i] = "push" /\ prod' = Move(prod, i, "store") /\ cons' = cons
    BY <1>8 DEF Push, Goto, Move
  <2>2. /\ fullSlots' = fullSlots /\ emptySlots' = emptySlots /\ syncPrimes' = syncPrimes /\ otherPrime' = otherPrime
        /\ Len(list') = Len(list) + 1
    BY <1>8 DEF Push, sems, TypeOK
  <2>3. /\ HowMany(prod', ProdInList) = P(ProdInList)
        /\ HowMany(prod', InNextPrime) = P(InNextPrime)
        /\ HowMany(prod', Unposted) = P(Unposted) + 1
        /\ HowMany(prod', Reserved) = P(Reserved) - 1
        /\ HowMany(prod', HasPut) = P(HasPut) + 1
    BY <2>1, <1>p DEF ProdInList, InNextPrime, Unposted, Reserved, HasPut
  <2>4. /\ HowMany(cons', ConsInList) = C(ConsInList)
        /\ HowMany(cons', Granted) = C(Granted)
        /\ HowMany(cons', Emptied) = C(Emptied)
        /\ HowMany(cons', HasGot) = C(HasGot)
    BY <2>1, <1>q
  <2>5. B1  BY <2>2, <2>3, <2>4, <1>b1
  <2>6. B2  BY <2>2, <2>3, <2>4, <1>b2
  <2>7. B3  BY <2>2, <2>3, <2>4, <1>b3
  <2>8. B4  BY <2>2, <2>3, <2>4, <1>b4
  <2>9. B5  BY <2>2, <2>3, <2>4, <1>b5
  <2> QED  BY <2>5, <2>6, <2>7, <2>8, <2>9
<1>9. ASSUME NEW i \in Pairs, Store(i)
      PROVE  Balanced
  <2>1. prod[i] = "store" /\ prod' = Move(prod, i, "otherPost") /\ cons' = cons
    BY <1>9 DEF Store, Goto, Move
  <2>2. /\ fullSlots' = fullSlots /\ emptySlots' = emptySlots /\ syncPrimes' = syncPrimes /\ otherPrime' = otherPrime
        /\ Len(list') = Len(list)
    BY <1>9 DEF Store, globals, sems
  <2>3. /\ HowMany(prod', ProdInList) = P(ProdInList)
        /\ HowMany(prod', InNextPrime) = P(InNextPrime)
        /\ HowMany(prod', Unposted) = P(Unposted)
        /\ HowMany(prod', Reserved) = P(Reserved)
        /\ HowMany(prod', HasPut) = P(HasPut)
    BY <2>1, <1>p DEF ProdInList, InNextPrime, Unposted, Reserved, HasPut
  <2>4. /\ HowMany(cons', ConsInList) = C(ConsInList)
        /\ HowMany(cons', Granted) = C(Granted)
        /\ HowMany(cons', Emptied) = C(Emptied)
        /\ HowMany(cons', HasGot) = C(HasGot)
    BY <2>1, <1>q
  <2>5. B1  BY <2>2, <2>3, <2>4, <1>b1
  <2>6. B2  BY <2>2, <2>3, <2>4, <1>b2
  <2>7. B3  BY <2>2, <2>3, <2>4, <1>b3
  <2>8. B4  BY <2>2, <2>3, <2>4, <1>b4
  <2>9. B5  BY <2>2, <2>3, <2>4, <1>b5
  <2> QED  BY <2>5, <2>6, <2>7, <2>8, <2>9
<1>10. ASSUME NEW i \in Pairs, PostOther(i)
      PROVE  Balanced
  <2>1. prod[i] = "otherPost" /\ prod' = Move(prod, i, "syncPost") /\ cons' = cons
    BY <1>10 DEF PostOther, Goto, Move
  <2>2. /\ otherPrime' = otherPrime + 1
        /\ fullSlots' = fullSlots /\ emptySlots' = emptySlots /\ syncPrimes' = syncPrimes
        /\ Len(list') = Len(list)
    BY <1>10 DEF PostOther, globals, sems
  <2>3. /\ HowMany(prod', ProdInList) = P(ProdInList)
        /\ HowMany(prod', InNextPrime) = P(InNextPrime) - 1
        /\ HowMany(prod', Unposted) = P(Unposted)
        /\ HowMany(prod', Reserved) = P(Reserved)
        /\ HowMany(prod', HasPut) = P(HasPut)
    BY <2>1, <1>p DEF ProdInList, InNextPrime, Unposted, Reserved, HasPut
  <2>4. /\ HowMany(cons', ConsInList) = C(ConsInList)
        /\ HowMany(cons', Granted) = C(Granted)
        /\ HowMany(cons', Emptied) = C(Emptied)
        /\ HowMany(cons', HasGot) = C(HasGot)
    BY <2>1, <1>q
  <2>5. B1  BY <2>2, <2>3, <2>4, <1>b1
  <2>6. B2  BY <2>2, <2>3, <2>4, <1>b2
  <2>7. B3  BY <2>2, <2>3, <2>4, <1>b3
  <2>8. B4  BY <2>2, <2>3, <2>4, <1>b4
  <2>9. B5  BY <2>2, <2>3, <2>4, <1>b5
  <2> QED  BY <2>5, <2>6, <2>7, <2>8, <2>9
<1>11. ASSUME NEW i \in Pairs, ProdPostSync(i)
      PROVE  Balanced
  <2>1. prod[i] = "syncPost" /\ prod' = Move(prod, i, "fullPost") /\ cons' = cons
    BY <1>11 DEF ProdPostSync, Goto, Move
  <2>2. /\ syncPrimes' = syncPrimes + 1
        /\ fullSlots' = fullSlots /\ emptySlots' = emptySlots /\ otherPrime' = otherPrime
        /\ Len(list') = Len(list)
    BY <1>11 DEF ProdPostSync, globals, sems
  <2>3. /\ HowMany(prod', ProdInList) = P(ProdInList) - 1
        /\ HowMany(prod', InNextPrime) = P(InNextPrime)
        /\ HowMany(prod', Unposted) = P(Unposted)
        /\ HowMany(prod', Reserved) = P(Reserved)
        /\ HowMany(prod', HasPut) = P(HasPut)
    BY <2>1, <1>p DEF ProdInList, InNextPrime, Unposted, Reserved, HasPut
  <2>4. /\ HowMany(cons', ConsInList) = C(ConsInList)
        /\ HowMany(cons', Granted) = C(Granted)
        /\ HowMany(cons', Emptied) = C(Emptied)
        /\ HowMany(cons', HasGot) = C(HasGot)
    BY <2>1, <1>q
  <2>5. B1  BY <2>2, <2>3, <2>4, <1>b1
  <2>6. B2  BY <2>2, <2>3, <2>4, <1>b2
  <2>7. B3  BY <2>2, <2>3, <2>4, <1>b3
  <2>8. B4  BY <2>2, <2>3, <2>4, <1>b4
  <2>9. B5  BY <2>2, <2>3, <2>4, <1>b5
  <2> QED  BY <2>5, <2>6, <2>7, <2>8, <2>9
<1>12. ASSUME NEW i \in Pairs, PostFull(i)
      PROVE  Balanced
  <2>1. prod[i] = "fullPost" /\ prod' = Move(prod, i, "done") /\ cons' = cons
    BY <1>12 DEF PostFull, Goto, Move
  <2>2. /\ fullSlots' = fullSlots + 1
        /\ emptySlots' = emptySlots /\ syncPrimes' = syncPrimes /\ otherPrime' = otherPrime
        /\ Len(list') = Len(list)
    BY <1>12 DEF PostFull, globals, sems
  <2>3. /\ HowMany(prod', ProdInList) = P(ProdInList)
        /\ HowMany(prod', InNextPrime) = P(InNextPrime)
        /\ HowMany(prod', Unposted) = P(Unposted) - 1
        /\ HowMany(prod', Reserved) = P(Reserved)
        /\ HowMany(prod', HasPut) = P(HasPut)
    BY <2>1, <1>p DEF ProdInList, InNextPrime, Unposted, Reserved, HasPut
  <2>4. /\ HowMany(cons', ConsInList) = C(ConsInList)
        /\ HowMany(cons', Granted) = C(Granted)
        /\ HowMany(cons', Emptied) = C(Emptied)
        /\ HowMany(cons', HasGot) = C(HasGot)
    BY <2>1, <1>q
  <2>5. B1  BY <2>2, <2>3, <2>4, <1>b1
  <2>6. B2  BY <2>2, <2>3, <2>4, <1>b2
  <2>7. B3  BY <2>2, <2>3, <2>4, <1>b3
  <2>8. B4  BY <2>2, <2>3, <2>4, <1>b4
  <2>9. B5  BY <2>2, <2>3, <2>4, <1>b5
  <2> QED  BY <2>5, <2>6, <2>7, <2>8, <2>9
<1>13. ASSUME NEW i \in Pairs, WaitFull(i)
      PROVE  Balanced
  <2>1. cons[i] = "fullWait" /\ cons' = Move(cons, i, "syncWait") /\ prod' = prod
    BY <1>13 DEF WaitFull, Goto, Move
  <2>2. /\ fullSlots' = fullSlots - 1
        /\ emptySlots' = emptySlots /\ syncPrimes' = syncPrimes /\ otherPrime' = otherPrime
        /\ Len(list') = Len(list)
    BY <1>13 DEF WaitFull, globals, sems
  <2>3. /\ HowMany(cons', ConsInList) = C(ConsInList)
        /\ HowMany(cons', Granted) = C(Granted) + 1
        /\ HowMany(cons', Emptied) = C(Emptied)
        /\ HowMany(cons', HasGot) = C(HasGot)
    BY <2>1, <1>c DEF ConsInList, Granted, Emptied, HasGot
  <2>4. /\ HowMany(prod', ProdInList) = P(ProdInList)
        /\ HowMany(prod', InNextPrime) = P(InNextPrime)
        /\ HowMany(prod', Unposted) = P(Unposted)
        /\ HowMany(prod', Reserved) = P(Reserved)
        /\ HowMany(prod', HasPut) = P(HasPut)
    BY <2>1, <1>q
  <2>5. B1  BY <2>2, <2>3, <2>4, <1>b1
  <2>6. B2  BY <2>2, <2>3, <2>4, <1>b2
  <2>7. B3  BY <2>2, <2>3, <2>4, <1>b3
  <2>8. B4  BY <2>2, <2>3, <2>4, <1>b4
  <2>9. B5  BY <2>2, <2>3, <2>4, <1>b5
  <2> QED  BY <2>5, <2>6, <2>7, <2>8, <2>9
<1>14. ASSUME NEW i \in Pairs, ConsWaitSync(i)
      PROVE  Balanced
  <2>1. cons[i] = "syncWait" /\ cons' = Move(cons, i, "front") /\ prod' = prod
    BY <1>14 DEF ConsWaitSync, Goto, Move
  <2>2. /\ syncPrimes' = syncPrimes - 1
        /\ fullSlots' = fullSlots /\ emptySlots' = emptySlots /\ otherPrime' = otherPrime
        /\ Len(list') = Len(list)
    BY <1>14 DEF ConsWaitSync, globals, sems
  <2>3. /\ HowMany(cons', ConsInList) = C(ConsInList) + 1
        /\ HowMany(cons', Granted) = C(Granted)
        /\ HowMany(cons', Emptied) = C(Emptied)
        /\ HowMany(cons', HasGot) = C(HasGot)
    BY <2>1, <1>c DEF ConsInList, Granted, Emptied, HasGot
  <2>4. /\ HowMany(prod', ProdInList) = P(ProdInList)
        /\ HowMany(prod', InNextPrime) = P(InNextPrime)
        /\ HowMany(prod', Unposted) = P(Unposted)
        /\ HowMany(prod', Reserved) = P(Reserved)
        /\ HowMany(prod', HasPut) = P(HasPut)
    BY <2>1, <1>q
  <2>5. B1  BY <2>2, <2>3, <2>4, <1>b1
  <2>6. B2  BY <2>2, <2>3, <2>4, <1>b2
  <2>7. B3  BY <2>2, <2>3, <2>4, <1>b3
  <2>8. B4  BY <2>2, <2>3, <2>4, <1>b4
  <2>9. B5  BY <2>2, <2>3, <2>4, <1>b5
  <2> QED  BY <2>5, <2>6, <2>7, <2>8, <2>9
<1>15. ASSUME NEW i \in Pairs, Front(i)
      PROVE  Balanced
  <2>1. cons[i] = "front" /\ cons' = Move(cons, i, "pop") /\ prod' = prod
    BY <1>15 DEF Front, Goto, Move
  <2>2. /\ fullSlots' = fullSlots /\ emptySlots' = emptySlots /\ syncPrimes' = syncPrimes /\ otherPrime' = otherPrime
        /\ Len(list') = Len(list)
    BY <1>15 DEF Front, globals, sems
  <2>3. /\ HowMany(cons', ConsInList) = C(ConsInList)
        /\ HowMany(cons', Granted) = C(Granted)
        /\ HowMany(cons', Emptied) = C(Emptied)
        /\ HowMany(cons', HasGot) = C(HasGot)
    BY <2>1, <1>c DEF ConsInList, Granted, Emptied, HasGot
  <2>4. /\ HowMany(prod', ProdInList) = P(ProdInList)
        /\ HowMany(prod', InNextPrime) = P(InNextPrime)
        /\ HowMany(prod', Unposted) = P(Unposted)
        /\ HowMany(prod', Reserved) = P(Reserved)
        /\ HowMany(prod', HasPut) = P(HasPut)
    BY <2>1, <1>q
  <2>5. B1  BY <2>2, <2>3, <2>4, <1>b1
  <2>6. B2  BY <2>2, <2>3, <2>4, <1>b2
  <2>7. B3  BY <2>2, <2>3, <2>4, <1>b3
  <2>8. B4  BY <2>2, <2>3, <2>4, <1>b4
  <2>9. B5  BY <2>2, <2>3, <2>4, <1>b5
  <2> QED  BY <2>5, <2>6, <2>7, <2>8, <2>9
<1>16. ASSUME NEW i \in Pairs, Pop(i)
      PROVE  Balanced
  <2>1. cons[i] = "pop" /\ cons' = Move(cons, i, "syncPost") /\ prod' = prod
    BY <1>16 DEF Pop, Goto, Move
  <2>2. /\ fullSlots' = fullSlots /\ emptySlots' = emptySlots /\ syncPrimes' = syncPrimes /\ otherPrime' = otherPrime
        /\ Len(list') = Len(list) - 1
    <3>1. list # <<>>
      BY <1>16, GrantedIsThere DEF Pop, Accounts
    <3>2. Len(Tail(list)) = Len(list) - 1
      BY <3>1 DEF TypeOK
    <3> QED  BY <1>16, <3>1, <3>2 DEF Pop, sems
  <2>3. /\ HowMany(cons', ConsInList) = C(ConsInList)
        /\ HowMany(cons', Granted) = C(Granted) - 1
        /\ HowMany(cons', Emptied) = C(Emptied) + 1
        /\ HowMany(cons', HasGot) = C(HasGot) + 1
    BY <2>1, <1>c DEF ConsInList, Granted, Emptied, HasGot
  <2>4. /\ HowMany(prod', ProdInList) = P(ProdInList)
        /\ HowMany(prod', InNextPrime) = P(InNextPrime)
        /\ HowMany(prod', Unposted) = P(Unposted)
        /\ HowMany(prod', Reserved) = P(Reserved)
        /\ HowMany(prod', HasPut) = P(HasPut)
    BY <2>1, <1>q
  <2>5. B1  BY <2>2, <2>3, <2>4, <1>b1
  <2>6. B2  BY <2>2, <2>3, <2>4, <1>b2
  <2>7. B3  BY <2>2, <2>3, <2>4, <1>b3
  <2>8. B4  BY <2>2, <2>3, <2>4, <1>b4
  <2>9. B5  BY <2>2, <2>3, <2>4, <1>b5
  <2> QED  BY <2>5, <2>6, <2>7, <2>8, <2>9
<1>17. ASSUME NEW i \in Pairs, ConsPostSync(i)
      PROVE  Balanced
  <2>1. cons[i] = "syncPost" /\ cons' = Move(cons, i, "emptyPost") /\ prod' = prod
    BY <1>17 DEF ConsPostSync, Goto, Move
  <2>2. /\ syncPrimes' = syncPrimes + 1
        /\ fullSlots' = fullSlots /\ emptySlots' = emptySlots /\ otherPrime' = otherPrime
        /\ Len(list') = Len(list)
    BY <1>17 DEF ConsPostSync, globals, sems
  <2>3. /\ HowMany(cons', ConsInList) = C(ConsInList) - 1
        /\ HowMany(cons', Granted) = C(Granted)
        /\ HowMany(cons', Emptied) = C(Emptied)
        /\ HowMany(cons', HasGot) = C(HasGot)
    BY <2>1, <1>c DEF ConsInList, Granted, Emptied, HasGot
  <2>4. /\ HowMany(prod', ProdInList) = P(ProdInList)
        /\ HowMany(prod', InNextPrime) = P(InNextPrime)
        /\ HowMany(prod', Unposted) = P(Unposted)
        /\ HowMany(prod', Reserved) = P(Reserved)
        /\ HowMany(prod', HasPut) = P(HasPut)
    BY <2>1, <1>q
  <2>5. B1  BY <2>2, <2>3, <2>4, <1>b1
  <2>6. B2  BY <2>2, <2>3, <2>4, <1>b2
  <2>7. B3  BY <2>2, <2>3, <2>4, <1>b3
  <2>8. B4  BY <2>2, <2>3, <2>4, <1>b4
  <2>9. B5  BY <2>2, <2>3, <2>4, <1>b5
  <2> QED  BY <2>5, <2>6, <2>7, <2>8, <2>9
<1>18. ASSUME NEW i \in Pairs, PostEmpty(i)
      PROVE  Balanced
  <2>1. cons[i] = "emptyPost" /\ cons' = Move(cons, i, "done") /\ prod' = prod
    BY <1>18 DEF PostEmpty, Goto, Move
  <2>2. /\ emptySlots' = emptySlots + 1
        /\ fullSlots' = fullSlots /\ syncPrimes' = syncPrimes /\ otherPrime' = otherPrime
        /\ Len(list') = Len(list)
    BY <1>18 DEF PostEmpty, globals, sems
  <2>3. /\ HowMany(cons', ConsInList) = C(ConsInList)
        /\ HowMany(cons', Granted) = C(Granted)
        /\ HowMany(cons', Emptied) = C(Emptied) - 1
        /\ HowMany(cons', HasGot) = C(HasGot)
    BY <2>1, <1>c DEF ConsInList, Granted, Emptied, HasGot
  <2>4. /\ HowMany(prod', ProdInList) = P(ProdInList)
        /\ HowMany(prod', InNextPrime) = P(InNextPrime)
        /\ HowMany(prod', Unposted) = P(Unposted)
        /\ HowMany(prod', Reserved) = P(Reserved)
        /\ HowMany(prod', HasPut) = P(HasPut)
    BY <2>1, <1>q
  <2>5. B1  BY <2>2, <2>3, <2>4, <1>b1
  <2>6. B2  BY <2>2, <2>3, <2>4, <1>b2
  <2>7. B3  BY <2>2, <2>3, <2>4, <1>b3
  <2>8. B4  BY <2>2, <2>3, <2>4, <1>b4
  <2>9. B5  BY <2>2, <2>3, <2>4, <1>b5
  <2> QED  BY <2>5, <2>6, <2>7, <2>8, <2>9
<1>19. CASE StartProducer
  <2>0. main.i \in Pairs /\ prod[main.i] = "new"
    BY <1>19 DEF StartProducer, TypeOK, Spawned, Pairs
  <2>1. prod[main.i] = "new" /\ prod' = Move(prod, main.i, "otherWait") /\ cons' = cons
    BY <1>19, <2>0 DEF StartProducer, Goto, Move
  <2>2. /\ fullSlots' = fullSlots /\ emptySlots' = emptySlots /\ syncPrimes' = syncPrimes /\ otherPrime' = otherPrime
        /\ Len(list') = Len(list)
    BY <1>19, <2>0 DEF StartProducer, globals, sems
  <2>3. /\ HowMany(prod', ProdInList) = P(ProdInList)
        /\ HowMany(prod', InNextPrime) = P(InNextPrime)
        /\ HowMany(prod', Unposted) = P(Unposted)
        /\ HowMany(prod', Reserved) = P(Reserved)
        /\ HowMany(prod', HasPut) = P(HasPut)
    BY <2>0, <2>1, <1>p DEF ProdInList, InNextPrime, Unposted, Reserved, HasPut
  <2>4. /\ HowMany(cons', ConsInList) = C(ConsInList)
        /\ HowMany(cons', Granted) = C(Granted)
        /\ HowMany(cons', Emptied) = C(Emptied)
        /\ HowMany(cons', HasGot) = C(HasGot)
    BY <2>1, <1>q
  <2>5. B1  BY <2>2, <2>3, <2>4, <1>b1
  <2>6. B2  BY <2>2, <2>3, <2>4, <1>b2
  <2>7. B3  BY <2>2, <2>3, <2>4, <1>b3
  <2>8. B4  BY <2>2, <2>3, <2>4, <1>b4
  <2>9. B5  BY <2>2, <2>3, <2>4, <1>b5
  <2> QED  BY <2>5, <2>6, <2>7, <2>8, <2>9
<1>20. CASE StartConsumer
  <2>0. main.i \in Pairs /\ cons[main.i] = "new"
    BY <1>20 DEF StartConsumer, TypeOK, Spawned, Pairs
  <2>1. cons[main.i] = "new" /\ cons' = Move(cons, main.i, "fullWait") /\ prod' = prod
    BY <1>20, <2>0 DEF StartConsumer, Goto, Move
  <2>2. /\ fullSlots' = fullSlots /\ emptySlots' = emptySlots /\ syncPrimes' = syncPrimes /\ otherPrime' = otherPrime
        /\ Len(list') = Len(list)
    BY <1>20, <2>0 DEF StartConsumer, globals, sems
  <2>3. /\ HowMany(cons', ConsInList) = C(ConsInList)
        /\ HowMany(cons', Granted) = C(Granted)
        /\ HowMany(cons', Emptied) = C(Emptied)
        /\ HowMany(cons', HasGot) = C(HasGot)
    BY <2>0, <2>1, <1>c DEF ConsInList, Granted, Emptied, HasGot
  <2>4. /\ HowMany(prod', ProdInList) = P(ProdInList)
        /\ HowMany(prod', InNextPrime) = P(InNextPrime)
        /\ HowMany(prod', Unposted) = P(Unposted)
        /\ HowMany(prod', Reserved) = P(Reserved)
        /\ HowMany(prod', HasPut) = P(HasPut)
    BY <2>1, <1>q
  <2>5. B1  BY <2>2, <2>3, <2>4, <1>b1
  <2>6. B2  BY <2>2, <2>3, <2>4, <1>b2
  <2>7. B3  BY <2>2, <2>3, <2>4, <1>b3
  <2>8. B4  BY <2>2, <2>3, <2>4, <1>b4
  <2>9. B5  BY <2>2, <2>3, <2>4, <1>b5
  <2> QED  BY <2>5, <2>6, <2>7, <2>8, <2>9
<1>21. CASE JoinProducer
  BY <1>21, <1>b1, <1>b2, <1>b3, <1>b4, <1>b5, <1>q DEF JoinProducer, globals, sems
<1>22. CASE JoinConsumer
  BY <1>22, <1>b1, <1>b2, <1>b3, <1>b4, <1>b5, <1>q DEF JoinConsumer, globals, sems
<1>23. CASE Returned
  BY <1>23, <1>b1, <1>b2, <1>b3, <1>b4, <1>b5, <1>q DEF Returned, globals, sems, vars
<1> QED
  BY <1>1, <1>2, <1>3, <1>4, <1>5, <1>6, <1>7, <1>8, <1>9, <1>10, <1>11,
     <1>12, <1>13, <1>14, <1>15, <1>16, <1>17, <1>18, <1>19, <1>20, <1>21, <1>22, <1>23
     DEF Next, PrimeProducer, PrimeConsumer, Main

\* The inductive invariant.  The accounts need the order of main's spawning (a
\* thread is started once) and the count of what was put.
IInv == TypeOK /\ Spawned /\ Accounts

\* The inductive invariant holds in every reachable state.
LEMMA Inductive == Spec => []IInv
<1>1. Init => IInv
  <2> SUFFICES ASSUME Init PROVE IInv
    OBVIOUS
  <2>1. TypeOK /\ Spawned
    BY NumPairsAssumption, BufSizeAssumption
       DEF Init, TypeOK, Spawned, Pairs, ProdPCs, ConsPCs, MainPCs
  <2>2. ASSUME NEW A, "new" \notin A
        PROVE  HowMany(prod, A) = 0 /\ HowMany(cons, A) = 0
    <3>1. {x \in DOMAIN prod : prod[x] \in A} = {} /\ {x \in DOMAIN cons : cons[x] \in A} = {}
      BY <2>2 DEF Init
    <3> QED  BY <3>1, FS_EmptySet DEF HowMany
  <2>3. /\ HowMany(prod, ProdInList) = 0 /\ HowMany(prod, InNextPrime) = 0
        /\ HowMany(prod, Unposted) = 0 /\ HowMany(prod, Reserved) = 0
        /\ HowMany(prod, HasPut) = 0
    BY <2>2 DEF ProdInList, InNextPrime, Unposted, Reserved, HasPut
  <2>4. /\ HowMany(cons, ConsInList) = 0 /\ HowMany(cons, Granted) = 0
        /\ HowMany(cons, Emptied) = 0 /\ HowMany(cons, HasGot) = 0
    BY <2>2 DEF ConsInList, Granted, Emptied, HasGot
  <2>5. /\ fullSlots = 0 /\ emptySlots = buf_size /\ syncPrimes = 1 /\ otherPrime = 1
        /\ Len(list) = 0 /\ buf_size \in Nat
    BY BufSizeAssumption DEF Init
  <2>6. Accounts
    BY <2>3, <2>4, <2>5 DEF Accounts, GlobalsExclusive, SlotAccounting, PutCount
  <2> QED  BY <2>1, <2>6 DEF IInv
<1>2. IInv /\ [Next]_vars => IInv'
  BY TypeStep, AccountStep DEF IInv
<1> QED  BY <1>1, <1>2, PTL DEF Spec

\* Type correctness of the bounded buffer: no semaphore goes below zero.
THEOREM BufferType == Spec => []TypeOK
BY Inductive, PTL DEF IInv

\* list and nextPrime are never accessed by two threads at once.
THEOREM BufferExclusive == Spec => []GlobalsExclusive
BY Inductive, PTL DEF IInv, Accounts

\* The two counting semaphores and the queue agree at every moment.
THEOREM BufferSlots == Spec => []SlotAccounting
BY Inductive, PTL DEF IInv, Accounts

\* front() and pop() are never called on an empty queue.
THEOREM BufferNeverEmpty == Spec => []NeverEmpty
<1>1. IInv => NeverEmpty
  BY GrantedIsThere DEF IInv, Accounts, NeverEmpty
<1> QED  BY <1>1, Inductive, PTL

\* With at least as many slots as pairs no producer waits for a slot while it
\* keeps the consumers out: the other producers, of which there are fewer than
\* slots, account for every slot that is not free.
THEOREM BufferNeverStalls == Spec => []NeverStalls
<1>1. IInv => NeverStalls
  <2> SUFFICES ASSUME IInv, NEW i \in Pairs, prod[i] = "emptyWait"
               PROVE  emptySlots > 0
    BY DEF NeverStalls
  <2>1. /\ IsFiniteSet(Pairs) /\ Cardinality(Pairs) = NumPairs
        /\ DOMAIN prod = Pairs /\ DOMAIN cons = Pairs
    BY NumPairsAssumption, FS_Interval DEF Pairs, IInv, TypeOK
  <2>2. HowMany(prod, Reserved \cup HasPut) = HowMany(prod, Reserved) + HowMany(prod, HasPut)
    <3>1. Reserved \cap HasPut = {}
      BY DEF Reserved, HasPut
    <3> QED  BY <2>1, <3>1, HowManyDisjoint
  <2>3. HowMany(prod, Reserved \cup HasPut) <= NumPairs - 1
    <3>1. prod[i] \notin Reserved \cup HasPut
      BY DEF Reserved, HasPut
    <3> QED  BY <2>1, <3>1, HowManyElsewhere
  <2>4. HowMany(cons, Emptied) <= HowMany(cons, HasGot)
    <3>1. Emptied \subseteq HasGot
      BY DEF Emptied, HasGot
    <3> QED  BY <2>1, <3>1, HowManySubset
  <2>5. HowMany(prod, HasPut) = Len(list) + HowMany(cons, HasGot)
    BY DEF IInv, Accounts, PutCount
  <2>6. emptySlots + HowMany(prod, Reserved) + Len(list) + HowMany(cons, Emptied) = buf_size
    BY DEF IInv, Accounts, SlotAccounting
  <2>7. /\ HowMany(prod, Reserved) \in Nat /\ HowMany(prod, HasPut) \in Nat
        /\ HowMany(cons, Emptied) \in Nat /\ HowMany(cons, HasGot) \in Nat
        /\ emptySlots \in Nat /\ Len(list) \in Nat
    BY <2>1, HowManyNat DEF IInv, TypeOK
  <2> QED  BY <2>2, <2>3, <2>4, <2>5, <2>6, <2>7, BufSizeAssumption, NumPairsAssumption
<1> QED  BY <1>1, Inductive, PTL

-----------------------------------------------------------------------------
(* The elements *)

\* The number the primes begin after.
First == IF nextNum > 1 THEN nextNum ELSE 1

\* Where a producer has made sure that nextPrime is not below it.
Begun == {"syncWait", "emptyWait", "getNext", "push"} \cup HasPut

\* p is the first prime after n.
Follows(p, n) == n < p /\ Prime(p) /\ \A q \in (n + 1)..(p - 1) : ~Prime(q)

\* What was put are the primes from First to nextPrime, and the one that a producer is
\* about to store in nextPrime.
Search ==
    /\ nextPrime >= 1
    /\ \A i \in Pairs :
          /\ prod[i] = "raise" => nextPrime < nextNum
          /\ prod[i] \in Begun => First <= nextPrime
          /\ prod[i] \in {"push", "store"} => Follows(put[i], nextPrime)
          /\ prod[i] \in HasPut \ {"store"} => First < put[i] /\ put[i] <= nextPrime /\ Prime(put[i])
    /\ \A q \in (First + 1)..nextPrime : Prime(q) =>
          \E i \in Pairs : prod[i] \in HasPut /\ put[i] = q
    /\ \A i, j \in Pairs : prod[i] \in HasPut /\ prod[j] \in HasPut /\ put[i] = put[j] => i = j

\* The queue is in order, behind all that was taken, what was put is queued or taken and
\* nothing else is, and a consumer between front() and pop() has the first element.
Elements ==
    /\ \A k \in 1..Len(list) : \E i \in Pairs : prod[i] \in HasPut /\ put[i] = list[k]
    /\ \A c \in Pairs : cons[c] \in HasGot => \E i \in Pairs : prod[i] \in HasPut /\ put[i] = got[c]
    /\ \A i \in Pairs : prod[i] \in HasPut =>
          \/ \E k \in 1..Len(list) : list[k] = put[i]
          \/ \E c \in Pairs : cons[c] \in HasGot /\ got[c] = put[i]
    /\ \A j, k \in 1..Len(list) : j < k => list[j] < list[k]
    /\ \A c \in Pairs, k \in 1..Len(list) : cons[c] \in HasGot => got[c] < list[k]
    /\ \A c, d \in Pairs : cons[c] \in HasGot /\ cons[d] \in HasGot /\ got[c] = got[d] => c = d
    /\ \A c \in Pairs : cons[c] = "pop" => got[c] = list[1]

\* Two threads are never in the sections at once.
LEMMA OneInside ==
    ASSUME TypeOK, GlobalsExclusive
    PROVE  /\ \A i, j \in Pairs : prod[i] \in InNextPrime /\ prod[j] \in InNextPrime => i = j
           /\ \A i, j \in Pairs : cons[i] \in ConsInList /\ cons[j] \in ConsInList => i = j
           /\ \A i, j \in Pairs : ~(prod[i] \in ProdInList /\ cons[j] \in ConsInList)
<1>1. IsFiniteSet(Pairs) /\ DOMAIN prod = Pairs /\ DOMAIN cons = Pairs
  BY NumPairsAssumption, FS_Interval DEF Pairs, TypeOK
<1>2. /\ HowMany(prod, ProdInList) \in Nat /\ HowMany(cons, ConsInList) \in Nat
      /\ HowMany(prod, InNextPrime) \in Nat /\ syncPrimes \in Nat /\ otherPrime \in Nat
  BY <1>1, HowManyNat DEF TypeOK
<1>3. /\ HowMany(prod, InNextPrime) <= 1
      /\ HowMany(prod, ProdInList) + HowMany(cons, ConsInList) <= 1
  BY <1>2 DEF GlobalsExclusive
<1>4. ASSUME NEW i \in Pairs, NEW j \in Pairs, prod[i] \in InNextPrime, prod[j] \in InNextPrime, i # j
      PROVE  FALSE
  BY <1>1, <1>2, <1>3, <1>4, HowManyTwo
<1>5. ASSUME NEW i \in Pairs, NEW j \in Pairs, cons[i] \in ConsInList, cons[j] \in ConsInList, i # j
      PROVE  FALSE
  <2>1. HowMany(cons, ConsInList) > 1
    BY <1>1, <1>5, HowManyTwo
  <2> QED  BY <1>2, <1>3, <2>1
<1>6. ASSUME NEW i \in Pairs, NEW j \in Pairs, prod[i] \in ProdInList, cons[j] \in ConsInList
      PROVE  FALSE
  <2>1. HowMany(prod, ProdInList) > 0
    BY <1>1, <1>6, HowManyPositive
  <2>2. HowMany(cons, ConsInList) > 0
    BY <1>1, <1>6, HowManyPositive
  <2> QED  BY <1>2, <1>3, <2>1, <2>2
<1> QED  BY <1>4, <1>5, <1>6

\* A step that has nothing to do with the search.
LEMMA SearchKept ==
    ASSUME Search, UNCHANGED <<nextPrime, nextNum, put>>,
           \A i \in Pairs : \/ prod'[i] = prod[i]
                            \/ /\ prod'[i] \notin {"raise", "push", "store"} /\ prod[i] # "store"
                               /\ prod'[i] \in Begun => prod[i] \in Begun
                               /\ prod'[i] \in HasPut <=> prod[i] \in HasPut
    PROVE  Search'
<1>1. First' = First
  BY DEF First
<1>2. \A i \in Pairs : prod'[i] \in HasPut <=> prod[i] \in HasPut
  OBVIOUS
<1>3. \A i \in Pairs :
          /\ prod'[i] = "raise" => prod[i] = "raise"
          /\ prod'[i] \in Begun => prod[i] \in Begun
          /\ prod'[i] \in {"push", "store"} => prod[i] \in {"push", "store"}
          /\ prod'[i] \in HasPut \ {"store"} => prod[i] \in HasPut \ {"store"}
  OBVIOUS
<1> QED  BY <1>1, <1>2, <1>3 DEF Search

\* The steps of the search keep what was put right.
LEMMA ReadPrimerSearch ==
    ASSUME TypeOK, Search, NEW i \in Pairs, ReadPrimer(i)
    PROVE  Search'
<1>1. /\ UNCHANGED <<nextPrime, nextNum, put>> /\ First' = First
      /\ prod[i] = "primer" /\ \A j \in Pairs \ {i} : prod'[j] = prod[j]
      /\ prod'[i] = IF nextNum > nextPrime THEN "raise" ELSE "syncWait"
  BY DEF ReadPrimer, Goto, TypeOK, globals, First
<1>2. nextPrime \in Int /\ nextNum \in Int /\ nextPrime >= 1
  BY FirstNumsAssumption DEF TypeOK, Search
<1>3. /\ \A j \in Pairs : prod'[j] \in HasPut <=> prod[j] \in HasPut
      /\ \A j \in Pairs : prod'[j] \in HasPut \ {"store"} <=> prod[j] \in HasPut \ {"store"}
      /\ \A j \in Pairs : prod'[j] \in {"push", "store"} <=> prod[j] \in {"push", "store"}
  BY <1>1 DEF HasPut
<1>4. \A j \in Pairs : /\ prod'[j] = "raise" => nextPrime < nextNum
                       /\ prod'[j] \in Begun => First <= nextPrime
  BY <1>1, <1>2 DEF Search, Begun, HasPut, First
<1> QED  BY <1>1, <1>3, <1>4 DEF Search

LEMMA RaiseSearch ==
    ASSUME TypeOK, GlobalsExclusive, Search, NEW i \in Pairs, RaiseNextPrime(i)
    PROVE  Search'
<1>1. /\ UNCHANGED <<nextNum, put>> /\ First' = First /\ nextPrime' = nextNum
      /\ prod[i] = "raise" /\ \A j \in Pairs \ {i} : prod'[j] = prod[j]
      /\ prod'[i] = "syncWait"
  BY DEF RaiseNextPrime, Goto, TypeOK, globals, First
<1>2. /\ nextPrime \in Int /\ nextNum \in Int /\ nextPrime >= 1 /\ nextPrime < nextNum
      /\ First = nextNum
  BY <1>1, FirstNumsAssumption DEF TypeOK, Search, First
<1>3. \A j \in Pairs : prod[j] \notin Begun
  BY <1>2 DEF Search
<1>4. \A j \in Pairs : prod'[j] # "raise" /\ prod'[j] \notin HasPut /\ prod'[j] # "push"
  <2>1. \A j \in Pairs \ {i} : prod[j] # "raise"
    BY <1>1, OneInside DEF InNextPrime
  <2> QED  BY <1>1, <1>3, <2>1 DEF Begun, HasPut
<1>5. /\ nextPrime' >= 1 /\ First' <= nextPrime'
      /\ \A q \in (First' + 1)..nextPrime' : FALSE
  BY <1>1, <1>2
<1>6. \A j \in Pairs : prod'[j] \notin {"push", "store"}
  BY <1>4 DEF HasPut
<1> QED  BY <1>4, <1>5, <1>6 DEF Search

LEMMA GetNextSearch ==
    ASSUME TypeOK, GlobalsExclusive, Search, NEW i \in Pairs, GetNext(i)
    PROVE  Search'
<1>1. /\ UNCHANGED <<nextNum, nextPrime>> /\ First' = First
      /\ prod[i] = "getNext" /\ \A j \in Pairs \ {i} : prod'[j] = prod[j] /\ put'[j] = put[j]
      /\ prod'[i] = "push" /\ put'[i] = getNextPrime(nextPrime)
      /\ nextPrime \in Int /\ nextPrime < MaxPrime
  BY DEF GetNext, Goto, TypeOK, globals, First
<1>2. Follows(put'[i], nextPrime)
  <2>1. PICK p : p = getNextPrime(nextPrime)
    OBVIOUS
  <2>2. /\ p \in (nextPrime + 1)..MaxPrime /\ isPrime(p)
        /\ \A q \in (nextPrime + 1)..(p - 1) : ~isPrime(q)
    BY <1>1, <2>1, NextPrimeFound
  <2>3. p \in Int /\ nextPrime < p
    BY <1>1, <2>2, MaxPrimeAssumption
  <2>4. Prime(p) /\ \A q \in (nextPrime + 1)..(p - 1) : ~Prime(q)
    BY <1>1, <2>2, <2>3, IsPrimeRight
  <2>5. Follows(p, nextPrime)
    BY <2>3, <2>4 DEF Follows
  <2> QED  BY <1>1, <2>1, <2>5
<1>3. \A j \in Pairs : prod'[j] \in HasPut => prod[j] \in HasPut /\ j # i
  BY <1>1 DEF HasPut
<1>4. \A j \in Pairs : prod[j] \in HasPut => prod'[j] \in HasPut /\ put'[j] = put[j]
  BY <1>1 DEF HasPut
<1>5. prod[i] \in Begun /\ prod'[i] # "raise" /\ prod'[i] \notin HasPut
  BY <1>1 DEF Begun, HasPut
<1>6. ASSUME NEW j \in Pairs
      PROVE  /\ prod'[j] = "raise" => nextPrime < nextNum
             /\ prod'[j] \in Begun => First <= nextPrime
             /\ prod'[j] \in {"push", "store"} => Follows(put'[j], nextPrime)
             /\ prod'[j] \in HasPut \ {"store"} =>
                   First < put'[j] /\ put'[j] <= nextPrime /\ Prime(put'[j])
  <2>1. CASE j = i
    BY <1>2, <1>5, <2>1 DEF Search
  <2>2. CASE j # i
    BY <1>1, <2>2 DEF Search
  <2> QED  BY <2>1, <2>2
<1> QED  BY <1>1, <1>3, <1>4, <1>6 DEF Search

LEMMA PushSearch ==
    ASSUME TypeOK, GlobalsExclusive, Search, NEW i \in Pairs, Push(i)
    PROVE  Search'
<1>1. /\ UNCHANGED <<nextNum, nextPrime, put>> /\ First' = First
      /\ prod[i] = "push" /\ \A j \in Pairs \ {i} : prod'[j] = prod[j]
      /\ prod'[i] = "store"
  BY DEF Push, Goto, TypeOK, First
<1>2. /\ prod[i] \in Begun /\ "store" \in HasPut /\ prod[i] \notin HasPut
  BY <1>1 DEF Begun, HasPut
<1>3. \A j \in Pairs \ {i} : prod[j] # "store"
  BY <1>1, OneInside DEF InNextPrime
<1>4. \A j \in Pairs : /\ prod'[j] = "raise" => nextPrime < nextNum
                       /\ prod'[j] \in Begun => First <= nextPrime
                       /\ prod'[j] \in {"push", "store"} => Follows(put[j], nextPrime)
                       /\ prod'[j] \in HasPut \ {"store"} =>
                             First < put[j] /\ put[j] <= nextPrime /\ Prime(put[j])
  BY <1>1, <1>2 DEF Search
<1>5. \A j \in Pairs : prod'[j] \in HasPut <=> prod[j] \in HasPut \/ j = i
  BY <1>1, <1>2
<1>6. \A j \in Pairs \ {i} : prod[j] \in HasPut => put[j] # put[i]
  <2> SUFFICES ASSUME NEW j \in Pairs \ {i}, prod[j] \in HasPut
               PROVE  put[j] # put[i]
    OBVIOUS
  <2>1. put[j] <= nextPrime
    BY <1>3 DEF Search
  <2>2. nextPrime < put[i]
    BY <1>1 DEF Search, Follows
  <2> QED  BY <2>1, <2>2 DEF TypeOK
<1> QED  BY <1>1, <1>4, <1>5, <1>6 DEF Search

LEMMA StoreSearch ==
    ASSUME TypeOK, GlobalsExclusive, Search, NEW i \in Pairs, Store(i)
    PROVE  Search'
<1>1. /\ UNCHANGED <<nextNum, put>> /\ First' = First /\ nextPrime' = put[i]
      /\ prod[i] = "store" /\ \A j \in Pairs \ {i} : prod'[j] = prod[j]
      /\ prod'[i] = "otherPost"
  BY DEF Store, Goto, TypeOK, First
<1>2. \A j \in Pairs : prod'[j] \notin {"raise", "push", "store"}
  BY <1>1, OneInside DEF InNextPrime
<1>3. prod[i] \in Begun /\ \A j \in Pairs : prod'[j] \in HasPut <=> prod[j] \in HasPut
  BY <1>1 DEF Begun, HasPut
<1>4. /\ nextPrime < put[i] /\ Prime(put[i]) /\ First <= nextPrime /\ nextPrime >= 1
      /\ \A q \in (nextPrime + 1)..(put[i] - 1) : ~Prime(q)
  BY <1>1, <1>3 DEF Search, Follows
<1>5. nextPrime \in Int /\ First \in Int /\ \A j \in Pairs : put[j] \in Int
  BY FirstNumsAssumption DEF TypeOK, First
<1>6. \A j \in Pairs : prod'[j] \in HasPut =>
          First < put[j] /\ put[j] <= put[i] /\ Prime(put[j])
  <2> SUFFICES ASSUME NEW j \in Pairs, prod'[j] \in HasPut
               PROVE  First < put[j] /\ put[j] <= put[i] /\ Prime(put[j])
    OBVIOUS
  <2>1. CASE j = i
    BY <1>4, <1>5, <2>1
  <2>2. CASE j # i
    <3>1. prod[j] \in HasPut \ {"store"}
      BY <1>1, <1>2, <1>3, <2>2
    <3>2. First < put[j] /\ put[j] <= nextPrime /\ Prime(put[j])
      BY <3>1 DEF Search
    <3> QED  BY <1>4, <1>5, <3>2
  <2> QED  BY <2>1, <2>2
<1>7. ASSUME NEW q \in (First + 1)..put[i], Prime(q)
      PROVE  \E j \in Pairs : prod'[j] \in HasPut /\ put[j] = q
  <2>1. CASE q <= nextPrime
    <3>1. q \in (First + 1)..nextPrime
      BY <1>5, <2>1
    <3> QED  BY <1>3, <1>7, <3>1 DEF Search
  <2>2. CASE q > nextPrime
    <3>1. q = put[i]
      BY <1>4, <1>5, <1>7, <2>2
    <3> QED  BY <1>1, <1>3, <3>1 DEF HasPut
  <2> QED  BY <1>5, <2>1, <2>2
<1>8. nextPrime' >= 1 /\ First' <= nextPrime'
  BY <1>1, <1>4, <1>5
<1> QED  BY <1>1, <1>2, <1>3, <1>6, <1>7, <1>8 DEF Search

\* Every step keeps what was put right.
LEMMA SearchStep ==
    ASSUME TypeOK, GlobalsExclusive, Spawned, Search, [Next]_vars
    PROVE  Search'
<1> USE DEF globals, sems, Goto
<1>1. CASE UNCHANGED <<nextPrime, nextNum, put, prod>>
  BY <1>1, SearchKept
<1>2. ASSUME NEW i \in Pairs, PrimeProducer(i)
      PROVE  Search'
  <2>1. CASE ReadPrimer(i) \/ RaiseNextPrime(i) \/ GetNext(i) \/ Push(i) \/ Store(i)
    BY <2>1, ReadPrimerSearch, RaiseSearch, GetNextSearch, PushSearch, StoreSearch
  <2>2. CASE WaitOther(i)
    <3>1. /\ UNCHANGED <<nextPrime, nextNum, put>>
          /\ prod[i] = "otherWait" /\ prod' = [prod EXCEPT ![i] = "primer"]
      BY <2>2 DEF WaitOther
    <3> QED  BY <3>1, SearchKept DEF TypeOK, Begun, HasPut
  <2>3. CASE ProdWaitSync(i) \/ WaitEmpty(i)
    <3>1. /\ UNCHANGED <<nextPrime, nextNum, put>> /\ prod[i] \in {"syncWait", "emptyWait"}
          /\ \E p \in {"emptyWait", "getNext"} : prod' = [prod EXCEPT ![i] = p]
      BY <2>3 DEF ProdWaitSync, WaitEmpty
    <3> QED  BY <3>1, SearchKept DEF TypeOK, Begun, HasPut
  <2>4. CASE PostOther(i) \/ ProdPostSync(i) \/ PostFull(i)
    <3>1. /\ UNCHANGED <<nextPrime, nextNum, put>> /\ prod[i] \in {"otherPost", "syncPost", "fullPost"}
          /\ \E p \in {"syncPost", "fullPost", "done"} : prod' = [prod EXCEPT ![i] = p]
      BY <2>4 DEF PostOther, ProdPostSync, PostFull
    <3> QED  BY <3>1, SearchKept DEF TypeOK, Begun, HasPut
  <2> QED  BY <1>2, <2>1, <2>2, <2>3, <2>4 DEF PrimeProducer
<1>3. ASSUME NEW i \in Pairs, PrimeConsumer(i)
      PROVE  Search'
  <2>1. UNCHANGED <<nextPrime, nextNum, put, prod>>
    BY <1>3 DEF PrimeConsumer, WaitFull, ConsWaitSync, Front, Pop, ConsPostSync, PostEmpty
  <2> QED  BY <1>1, <2>1
<1>4. CASE StartProducer
  <2>1. PICK i \in Pairs : i = main.i
    BY DEF TypeOK
  <2>2. /\ UNCHANGED <<nextPrime, nextNum, put>> /\ prod' = [prod EXCEPT ![i] = "otherWait"]
        /\ prod[i] = "new"
    BY <1>4, <2>1, NumPairsAssumption DEF StartProducer, Spawned, TypeOK, Pairs
  <2> QED  BY <2>2, SearchKept DEF TypeOK, Begun, HasPut
<1>5. CASE StartConsumer \/ JoinProducer \/ JoinConsumer \/ Returned \/ UNCHANGED vars
  BY <1>1, <1>5 DEF StartConsumer, JoinProducer, JoinConsumer, Returned, vars
<1> QED  BY <1>2, <1>3, <1>4, <1>5 DEF Next, Main

\* A step that has nothing to do with the queue.
LEMMA ElementsKept ==
    ASSUME Elements, list' = list,
           \A i \in Pairs : prod[i] \in HasPut => put'[i] = put[i],
           \A i \in Pairs : cons[i] \in HasGot => got'[i] = got[i],
           \A i \in Pairs : prod'[i] \in HasPut <=> prod[i] \in HasPut,
           \A i \in Pairs : cons'[i] \in HasGot <=> cons[i] \in HasGot,
           \A i \in Pairs : cons'[i] = "pop" => got'[i] = list[1]
    PROVE  Elements'
BY DEF Elements

\* The element that is put is larger than all before it.
LEMMA PushElements ==
    ASSUME TypeOK, GlobalsExclusive, Search, Elements, NEW i \in Pairs, Push(i)
    PROVE  Elements'
<1>1. /\ UNCHANGED <<put, got, cons>> /\ prod[i] = "push" /\ prod'[i] = "store"
      /\ \A j \in Pairs \ {i} : prod'[j] = prod[j]
  BY DEF Push, Goto, TypeOK
<1>2. PICK s \in Seq(Int), p \in Int : s = list /\ p = put[i]
  BY DEF TypeOK
<1>3. /\ list' = Append(s, p) /\ Len(Append(s, p)) = Len(s) + 1 /\ Len(s) \in Nat
      /\ Append(s, p)[Len(s) + 1] = p
      /\ \A k \in 1..Len(s) : Append(s, p)[k] = s[k]
  BY <1>2 DEF Push
<1>4. PICK l : l = Append(s, p)
  OBVIOUS
<1>5. /\ list' = l /\ Len(l) = Len(s) + 1 /\ l[Len(s) + 1] = p
      /\ \A k \in 1..Len(s) : l[k] = s[k]
  BY <1>3, <1>4
<1>6. \A j \in Pairs : prod[j] \in HasPut => put[j] < p
  <2> SUFFICES ASSUME NEW j \in Pairs, prod[j] \in HasPut
               PROVE  put[j] < p
    OBVIOUS
  <2>1. prod[j] # "store"
    BY <1>1, OneInside DEF InNextPrime
  <2>2. put[j] <= nextPrime
    BY <2>1 DEF Search
  <2>3. nextPrime < p
    BY <1>1, <1>2 DEF Search, Follows
  <2> QED  BY <2>2, <2>3 DEF TypeOK
<1>7. \A j \in Pairs : prod'[j] \in HasPut <=> prod[j] \in HasPut \/ j = i
  BY <1>1 DEF HasPut
<1>8. \A c \in Pairs : cons[c] # "pop"
  BY <1>1, OneInside DEF ProdInList, ConsInList
<1>9. \A k \in 1..Len(l) : k \in 1..Len(s) \/ k = Len(s) + 1
  BY <1>3, <1>5
<1>10. /\ \A k \in 1..Len(s) : s[k] < p /\ k \in 1..Len(l)
       /\ \A c \in Pairs : cons[c] \in HasGot => got[c] < p
  BY <1>2, <1>3, <1>5, <1>6 DEF Elements
<1>11. /\ \A k \in 1..Len(l) : \E j \in Pairs : prod'[j] \in HasPut /\ put[j] = l[k]
       /\ \A c \in Pairs : cons[c] \in HasGot => \E j \in Pairs : prod'[j] \in HasPut /\ put[j] = got[c]
  BY <1>2, <1>5, <1>7, <1>9 DEF Elements
<1>12. \A j \in Pairs : prod'[j] \in HasPut =>
          \/ \E k \in 1..Len(l) : l[k] = put[j]
          \/ \E c \in Pairs : cons[c] \in HasGot /\ got[c] = put[j]
  <2> SUFFICES ASSUME NEW j \in Pairs, prod'[j] \in HasPut
               PROVE  \/ \E k \in 1..Len(l) : l[k] = put[j]
                      \/ \E c \in Pairs : cons[c] \in HasGot /\ got[c] = put[j]
    OBVIOUS
  <2>1. CASE j = i
    BY <1>2, <1>3, <1>5, <2>1
  <2>2. CASE j # i
    <3>1. \/ \E k \in 1..Len(s) : s[k] = put[j]
          \/ \E c \in Pairs : cons[c] \in HasGot /\ got[c] = put[j]
      BY <1>2, <1>7, <2>2 DEF Elements
    <3> QED  BY <1>5, <1>10, <3>1
  <2> QED  BY <2>1, <2>2
<1>13. \A j, k \in 1..Len(l) : j < k => l[j] < l[k]
  <2> SUFFICES ASSUME NEW j \in 1..Len(l), NEW k \in 1..Len(l), j < k
               PROVE  l[j] < l[k]
    OBVIOUS
  <2>1. j \in 1..Len(s)
    BY <1>3, <1>5
  <2>2. CASE k \in 1..Len(s)
    BY <1>2, <1>5, <2>1, <2>2 DEF Elements
  <2>3. CASE k = Len(s) + 1
    BY <1>5, <1>10, <2>1, <2>3
  <2> QED  BY <1>9, <2>2, <2>3
<1>14. \A c \in Pairs, k \in 1..Len(l) : cons[c] \in HasGot => got[c] < l[k]
  BY <1>2, <1>5, <1>9, <1>10 DEF Elements
<1>15. \A c, d \in Pairs : cons[c] \in HasGot /\ cons[d] \in HasGot /\ got[c] = got[d] => c = d
  BY DEF Elements
<1> QED  BY <1>1, <1>5, <1>8, <1>11, <1>12, <1>13, <1>14, <1>15 DEF Elements

\* The first element goes from the queue to the one consumer that has it.
LEMMA PopElements ==
    ASSUME TypeOK, GlobalsExclusive, Elements, NEW i \in Pairs, Pop(i), list # <<>>
    PROVE  Elements'
<1>1. /\ UNCHANGED <<put, got, prod>> /\ cons[i] = "pop" /\ cons'[i] = "syncPost"
      /\ \A j \in Pairs \ {i} : cons'[j] = cons[j]
  BY DEF Pop, Goto, TypeOK
<1>2. PICK s \in Seq(Int) : s = list
  BY DEF TypeOK
<1>3. PICK l : l = Tail(s)
  OBVIOUS
<1>4. /\ list' = l /\ Len(s) \in Nat /\ Len(s) >= 1 /\ Len(l) = Len(s) - 1
      /\ \A k \in 1..Len(l) : l[k] = s[k + 1]
  BY <1>2, <1>3 DEF Pop
<1>5. got[i] = s[1] /\ \A j \in Pairs \ {i} : cons'[j] # "pop"
  BY <1>1, <1>2, OneInside DEF Elements, ConsInList
<1>6. \A c \in Pairs : cons'[c] \in HasGot <=> cons[c] \in HasGot \/ c = i
  BY <1>1 DEF HasGot
<1>7. \A k \in 1..Len(l) : k + 1 \in 1..Len(s) /\ 1 < k + 1
  BY <1>4
<1>8. \A k \in 1..Len(s) : k # 1 => k - 1 \in 1..Len(l) /\ l[k - 1] = s[k]
  BY <1>4
<1>9. 1 \in 1..Len(s)
  BY <1>4
<1>10. \A k \in 1..Len(s) : s[k] \in Int
  OBVIOUS
<1>11. \A k \in 1..Len(l) : \E j \in Pairs : prod[j] \in HasPut /\ put[j] = l[k]
  BY <1>2, <1>4, <1>7 DEF Elements
<1>12. \A c \in Pairs : cons'[c] \in HasGot => \E j \in Pairs : prod[j] \in HasPut /\ put[j] = got[c]
  BY <1>2, <1>5, <1>6, <1>9 DEF Elements
<1>13. \A j \in Pairs : prod[j] \in HasPut =>
          \/ \E k \in 1..Len(l) : l[k] = put[j]
          \/ \E c \in Pairs : cons'[c] \in HasGot /\ got[c] = put[j]
  <2> SUFFICES ASSUME NEW j \in Pairs, prod[j] \in HasPut
               PROVE  \/ \E k \in 1..Len(l) : l[k] = put[j]
                      \/ \E c \in Pairs : cons'[c] \in HasGot /\ got[c] = put[j]
    OBVIOUS
  <2>1. CASE \E k \in 1..Len(s) : s[k] = put[j]
    BY <1>5, <1>6, <1>8, <2>1
  <2>2. CASE \E c \in Pairs : cons[c] \in HasGot /\ got[c] = put[j]
    BY <1>6, <2>2
  <2> QED  BY <1>2, <2>1, <2>2 DEF Elements
<1>14. \A j, k \in 1..Len(l) : j < k => l[j] < l[k]
  <2> SUFFICES ASSUME NEW j \in 1..Len(l), NEW k \in 1..Len(l), j < k
               PROVE  l[j] < l[k]
    OBVIOUS
  <2>1. j + 1 < k + 1 /\ j + 1 \in 1..Len(s) /\ k + 1 \in 1..Len(s)
    BY <1>7
  <2>2. s[j + 1] < s[k + 1]
    BY <1>2, <2>1 DEF Elements
  <2> QED  BY <1>4, <2>2
<1>15. \A c \in Pairs, k \in 1..Len(l) : cons'[c] \in HasGot => got[c] < l[k]
  <2> SUFFICES ASSUME NEW c \in Pairs, NEW k \in 1..Len(l), cons'[c] \in HasGot
               PROVE  got[c] < l[k]
    OBVIOUS
  <2>1. CASE c = i
    BY <1>2, <1>4, <1>5, <1>7, <1>9, <2>1, SMTT(30) DEF Elements
  <2>2. CASE c # i
    BY <1>2, <1>4, <1>6, <1>7, <2>2 DEF Elements
  <2> QED  BY <2>1, <2>2
<1>16. \A c \in Pairs \ {i} : cons[c] \in HasGot => got[c] # got[i]
  BY <1>2, <1>5, <1>9, <1>10 DEF Elements, TypeOK
<1>17. \A c, d \in Pairs : cons'[c] \in HasGot /\ cons'[d] \in HasGot /\ got[c] = got[d] => c = d
  BY <1>6, <1>16 DEF Elements
<1>18. \A c \in Pairs : cons'[c] # "pop"
  BY <1>1, <1>5
<1>19. put' = put /\ got' = got /\ prod' = prod /\ list' = l
  BY <1>1, <1>4
<1> QED  BY <1>11, <1>12, <1>13, <1>14, <1>15, <1>17, <1>18, <1>19 DEF Elements

\* Every step keeps the elements right.
LEMMA ElementsStep ==
    ASSUME TypeOK, GlobalsExclusive, SlotAccounting, Spawned, Search, Elements, [Next]_vars
    PROVE  Elements'
<1> USE DEF globals, sems, Goto
<1>1. CASE UNCHANGED <<list, put, got, prod, cons>>
  BY <1>1, ElementsKept DEF Elements
<1>2. ASSUME NEW i \in Pairs, PrimeProducer(i)
      PROVE  Elements'
  <2>1. CASE Push(i)
    BY <2>1, PushElements
  <2>2. CASE ~Push(i)
    <3>1. /\ UNCHANGED <<list, got, cons>>
          /\ \A j \in Pairs \ {i} : prod'[j] = prod[j] /\ put'[j] = put[j]
          /\ prod[i] \in HasPut <=> prod'[i] \in HasPut
          /\ prod[i] \in HasPut => put'[i] = put[i]
      BY <1>2, <2>2 DEF PrimeProducer, WaitOther, ReadPrimer, RaiseNextPrime, ProdWaitSync, WaitEmpty,
                        GetNext, Store, PostOther, ProdPostSync, PostFull, TypeOK, HasPut
    <3> QED  BY <3>1, ElementsKept DEF Elements
  <2> QED  BY <2>1, <2>2
<1>3. ASSUME NEW i \in Pairs, PrimeConsumer(i)
      PROVE  Elements'
  <2>1. CASE Pop(i)
    BY <2>1, PopElements, GrantedIsThere DEF Pop
  <2>2. CASE Front(i)
    <3>1. list # <<>>
      BY <2>2, GrantedIsThere DEF Front
    <3>2. /\ UNCHANGED <<list, put, prod>> /\ cons[i] = "front" /\ cons'[i] = "pop" /\ got'[i] = list[1]
          /\ \A j \in Pairs \ {i} : cons'[j] = cons[j] /\ got'[j] = got[j]
      BY <2>2, <3>1 DEF Front, TypeOK
    <3>3. /\ \A j \in Pairs : cons'[j] \in HasGot <=> cons[j] \in HasGot
          /\ cons[i] \notin HasGot
      BY <3>2 DEF HasGot
    <3> QED  BY <3>2, <3>3, ElementsKept DEF Elements
  <2>3. CASE ~Pop(i) /\ ~Front(i)
    <3>1. /\ UNCHANGED <<list, put, got, prod>>
          /\ \A j \in Pairs \ {i} : cons'[j] = cons[j]
          /\ cons[i] \in HasGot <=> cons'[i] \in HasGot
          /\ cons'[i] # "pop"
      BY <1>3, <2>3 DEF PrimeConsumer, WaitFull, ConsWaitSync, ConsPostSync, PostEmpty, TypeOK, HasGot
    <3> QED  BY <3>1, ElementsKept DEF Elements
  <2> QED  BY <2>1, <2>2, <2>3
<1>4. CASE StartProducer \/ StartConsumer
  <2>1. PICK i \in Pairs : i = main.i
    BY DEF TypeOK
  <2>2. /\ UNCHANGED <<list, put, got>>
        /\ \A j \in Pairs \ {i} : prod'[j] = prod[j] /\ cons'[j] = cons[j]
        /\ \/ prod[i] = "new" /\ prod'[i] = "otherWait" /\ cons'[i] = cons[i]
           \/ cons[i] = "new" /\ cons'[i] = "fullWait" /\ prod'[i] = prod[i]
    BY <1>4, <2>1, NumPairsAssumption, SMTT(30) DEF StartProducer, StartConsumer, Spawned, TypeOK, Pairs
  <2>3. /\ \A j \in Pairs : prod'[j] \in HasPut <=> prod[j] \in HasPut
        /\ \A j \in Pairs : cons'[j] \in HasGot <=> cons[j] \in HasGot
        /\ \A j \in Pairs : cons'[j] = "pop" => cons[j] = "pop"
    BY <2>2 DEF HasPut, HasGot
  <2> QED  BY <2>2, <2>3, ElementsKept DEF Elements
<1>5. CASE JoinProducer \/ JoinConsumer \/ Returned \/ UNCHANGED vars
  BY <1>1, <1>5 DEF JoinProducer, JoinConsumer, Returned, vars
<1> QED  BY <1>2, <1>3, <1>4, <1>5 DEF Next, Main

\* The search and the queue are right in every reachable state.
LEMMA AlwaysElements ==
    Spec => [](IInv /\ Search /\ Elements)
<1>1. Init => Search /\ Elements
  <2> SUFFICES ASSUME Init PROVE Search /\ Elements
    OBVIOUS
  <2>1. /\ nextPrime = 1 /\ list = <<>> /\ First >= 1 /\ First \in Int
        /\ \A i \in Pairs : prod[i] = "new" /\ cons[i] = "new"
    BY FirstNumsAssumption DEF Init, First
  <2>2. /\ \A i \in Pairs : prod[i] \notin Begun \cup {"raise", "push", "store"} /\ prod[i] \notin HasPut
        /\ \A i \in Pairs : cons[i] \notin HasGot /\ cons[i] # "pop"
    BY <2>1 DEF Begun, HasPut, HasGot
  <2>3. Len(list) = 0 /\ \A q \in (First + 1)..nextPrime : FALSE
    BY <2>1
  <2> QED  BY <2>1, <2>2, <2>3 DEF Search, Elements
<1>2. IInv /\ Search /\ Elements /\ [Next]_vars => (Search /\ Elements)'
  BY SearchStep, ElementsStep DEF IInv, Accounts
<1> QED  BY <1>1, <1>2, Inductive, PTL DEF Spec

\* The primes put are the ones that follow the larger of 1 and main's number, none
\* missing and none twice, for any number of pairs and whatever order they run in.
THEOREM BufferPrimes == Spec => []ConsecutivePrimes
<1>1. IInv /\ Search => ConsecutivePrimes
  <2> SUFFICES ASSUME TypeOK, Search
               PROVE  ConsecutivePrimes
    BY DEF IInv
  <2>1. ASSUME NEW i \in Pairs, prod[i] \in HasPut
        PROVE  /\ Prime(put[i]) /\ put[i] > First
               /\ \A q \in (First + 1)..(put[i] - 1) : Prime(q) => q \in Produced
    <3>1. First \in Int /\ nextPrime \in Int /\ put[i] \in Int /\ First <= nextPrime
      BY <2>1, FirstNumsAssumption DEF TypeOK, First, Search, Begun
    <3>2. \A q \in (First + 1)..nextPrime : Prime(q) => q \in Produced
      BY DEF Search, Produced
    <3>3. CASE prod[i] = "store"
      <4>1. /\ nextPrime < put[i] /\ Prime(put[i])
            /\ \A q \in (nextPrime + 1)..(put[i] - 1) : ~Prime(q)
        BY <3>3 DEF Search, Follows
      <4>2. \A q \in (First + 1)..(put[i] - 1) :
                q \in (First + 1)..nextPrime \/ q \in (nextPrime + 1)..(put[i] - 1)
        BY <3>1
      <4> QED  BY <3>1, <3>2, <4>1, <4>2
    <3>4. CASE prod[i] # "store"
      <4>1. First < put[i] /\ put[i] <= nextPrime /\ Prime(put[i])
        BY <2>1, <3>4 DEF Search
      <4>2. \A q \in (First + 1)..(put[i] - 1) : q \in (First + 1)..nextPrime
        BY <3>1, <4>1
      <4> QED  BY <3>1, <3>2, <4>1, <4>2
    <3> QED  BY <3>3, <3>4
  <2>2. \A i, j \in Pairs : prod[i] \in HasPut /\ prod[j] \in HasPut /\ put[i] = put[j] => i = j
    BY DEF Search
  <2> QED  BY <2>1, <2>2 DEF ConsecutivePrimes, Produced, First
<1> QED  BY <1>1, AlwaysElements, PTL

\* Every prime put is queued or goes to exactly one consumer, in the order it was put.
THEOREM BufferExactlyOnce == Spec => []ExactlyOnce
<1>1. IInv /\ Elements => ExactlyOnce
  <2> SUFFICES ASSUME TypeOK, Elements
               PROVE  ExactlyOnce
    BY DEF IInv
  <2>1. Range(list) = {list[k] : k \in 1..Len(list)}
    BY DEF Range, TypeOK
  <2>2. Produced = Consumed \cup Range(list)
    <3>1. \A p \in Produced : p \in Consumed \cup Range(list)
      BY <2>1 DEF Produced, Consumed, Elements
    <3>2. \A p \in Consumed \cup Range(list) : p \in Produced
      BY <2>1 DEF Produced, Consumed, Elements
    <3> QED  BY <3>1, <3>2
  <2>3. \A c \in Consumed, d \in Range(list) : c < d
    BY <2>1 DEF Consumed, Elements
  <2> QED  BY <2>2, <2>3 DEF ExactlyOnce, Elements
<1> QED  BY <1>1, AlwaysElements, PTL
=============================================================================
