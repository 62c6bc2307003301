---------------------------- MODULE CountingProofs ----------------------------
(***************************************************************************)
(* What moving one thread does to the number of threads at some places,    *)
(* and that there is a least place to look at.                             *)
(***************************************************************************)
EXTENDS Counting, FiniteSetTheorems, WellFoundedInduction, TLAPS

\* The number of threads at some places is a natural number.
LEMMA HowManyNat ==
    ASSUME NEW S, IsFiniteSet(S), NEW f, DOMAIN f = S, NEW A
    PROVE  HowMany(f, A) \in Nat
<1>1. IsFiniteSet({x \in S : f[x] \in A})
  BY FS_Subset
<1> QED  BY <1>1, FS_CardinalityType DEF HowMany

\* A thread at one of the places makes the number positive.
LEMMA HowManyPositive ==
    ASSUME NEW S, IsFiniteSet(S), NEW f, DOMAIN f = S, NEW A,
           NEW x \in S, f[x] \in A
    PROVE  HowMany(f, A) > 0
<1> DEFINE T == {y \in S : f[y] \in A}
<1>1. IsFiniteSet(T)
  BY FS_Subset
<1>2. T # {}
  OBVIOUS
<1>3. Cardinality(T) \in Nat /\ Cardinality(T) # 0
  BY <1>1, <1>2, FS_CardinalityType, FS_EmptySet
<1> QED  BY <1>3 DEF HowMany

\* A positive number has a thread at one of the places.
LEMMA HowManyWitness ==
    ASSUME NEW S, NEW f, DOMAIN f = S, NEW A, HowMany(f, A) # 0
    PROVE  \E x \in S : f[x] \in A
<1> SUFFICES ASSUME ~ \E x \in S : f[x] \in A
             PROVE  FALSE
  OBVIOUS
<1>1. {x \in DOMAIN f : f[x] \in A} = {}
  OBVIOUS
<1> QED  BY <1>1, FS_EmptySet DEF HowMany

\* Two different threads at the places make the number at least two.
LEMMA HowManyTwo ==
    ASSUME NEW S, IsFiniteSet(S), NEW f, DOMAIN f = S, NEW A,
           NEW x \in S, NEW y \in S, x # y, f[x] \in A, f[y] \in A
    PROVE  HowMany(f, A) > 1
<1> DEFINE T == {z \in S : f[z] \in A}
<1>1. IsFiniteSet(T)
  BY FS_Subset
<1>2. IsFiniteSet(T \ {x}) /\ Cardinality(T \ {x}) = Cardinality(T) - 1
  BY <1>1, FS_RemoveElement
<1>3. T \ {x} # {}
  OBVIOUS
<1>4. Cardinality(T \ {x}) \in Nat /\ Cardinality(T \ {x}) # 0
  BY <1>2, <1>3, FS_CardinalityType, FS_EmptySet
<1>5. Cardinality(T) \in Nat
  BY <1>1, FS_CardinalityType
<1> QED  BY <1>2, <1>4, <1>5 DEF HowMany

\* At most as many threads are at the places as there are threads.
LEMMA HowManyBound ==
    ASSUME NEW S, IsFiniteSet(S), NEW f, DOMAIN f = S, NEW A
    PROVE  HowMany(f, A) <= Cardinality(S)
<1>1. {x \in S : f[x] \in A} \subseteq S
  OBVIOUS
<1> QED  BY <1>1, FS_Subset DEF HowMany

\* Thread x goes to place v.  The provers see this operator and not its
\* definition when they use the next lemma.
Move(f, x, v) == [f EXCEPT ![x] = v]

\* A thread that moves is counted at the place it goes to and no longer at the
\* one it leaves.
LEMMA HowManyMove ==
    ASSUME NEW S, IsFiniteSet(S), NEW f, DOMAIN f = S, NEW A, NEW x \in S, NEW v
    PROVE  /\ v \in A /\ f[x] \in A => HowMany(Move(f, x, v), A) = HowMany(f, A)
           /\ v \notin A /\ f[x] \notin A => HowMany(Move(f, x, v), A) = HowMany(f, A)
           /\ v \in A /\ f[x] \notin A => HowMany(Move(f, x, v), A) = HowMany(f, A) + 1
           /\ v \notin A /\ f[x] \in A => HowMany(Move(f, x, v), A) = HowMany(f, A) - 1
<1> DEFINE T == {y \in S : f[y] \in A}
           g == [f EXCEPT ![x] = v]
           U == {y \in DOMAIN g : g[y] \in A}
<1>1. IsFiniteSet(T) /\ Cardinality(T) \in Nat
  BY FS_Subset, FS_CardinalityType
<1>2. DOMAIN g = S /\ g[x] = v /\ \A y \in S : y # x => g[y] = f[y]
  OBVIOUS
<1>3. HowMany(f, A) = Cardinality(T) /\ HowMany(Move(f, x, v), A) = Cardinality(U)
  BY DEF HowMany, Move
<1>4. CASE v \in A /\ f[x] \in A
  <2>1. U = T  BY <1>2, <1>4
  <2> QED  BY <1>1, <1>3, <1>4, <2>1
<1>5. CASE v \in A /\ f[x] \notin A
  <2>1. U = T \cup {x} /\ x \notin T  BY <1>2, <1>5
  <2>2. Cardinality(U) = Cardinality(T) + 1  BY <1>1, <2>1, FS_AddElement
  <2> QED  BY <1>1, <1>3, <1>5, <2>2
<1>6. CASE v \notin A /\ f[x] \in A
  <2>1. U = T \ {x} /\ x \in T  BY <1>2, <1>6
  <2>2. Cardinality(U) = Cardinality(T) - 1  BY <1>1, <2>1, FS_RemoveElement
  <2> QED  BY <1>1, <1>3, <1>6, <2>2
<1>7. CASE v \notin A /\ f[x] \notin A
  <2>1. U = T  BY <1>2, <1>7
  <2> QED  BY <1>1, <1>3, <1>7, <2>1
<1> QED  BY <1>4, <1>5, <1>6, <1>7

\* Threads at places that have nothing in common are counted apart.
LEMMA HowManyDisjoint ==
    ASSUME NEW S, IsFiniteSet(S), NEW f, DOMAIN f = S, NEW A, NEW B, A \cap B = {}
    PROVE  HowMany(f, A \cup B) = HowMany(f, A) + HowMany(f, B)
<1> DEFINE T == {x \in S : f[x] \in A}
           U == {x \in S : f[x] \in B}
<1>1. IsFiniteSet(T) /\ IsFiniteSet(U)
  BY FS_Subset
<1>2. T \cap U = {} /\ {x \in S : f[x] \in A \cup B} = T \cup U
  OBVIOUS
<1>3. Cardinality(T \cup U) = Cardinality(T) + Cardinality(U) - Cardinality(T \cap U)
  BY <1>1, FS_Union
<1>4. Cardinality(T) \in Nat /\ Cardinality(U) \in Nat /\ Cardinality(T \cap U) = 0
  BY <1>1, <1>2, FS_CardinalityType, FS_EmptySet
<1>5. HowMany(f, A) = Cardinality(T) /\ HowMany(f, B) = Cardinality(U)
  BY DEF HowMany
<1>6. HowMany(f, A \cup B) = Cardinality(T \cup U)
  BY <1>2 DEF HowMany
<1> HIDE DEF T, U
<1> QED  BY <1>3, <1>4, <1>5, <1>6

\* More places, more threads.
LEMMA HowManySubset ==
    ASSUME NEW S, IsFiniteSet(S), NEW f, DOMAIN f = S, NEW A, NEW B, A \subseteq B
    PROVE  HowMany(f, A) <= HowMany(f, B)
<1>1. IsFiniteSet({x \in S : f[x] \in B})
  BY FS_Subset
<1>2. {x \in S : f[x] \in A} \subseteq {x \in S : f[x] \in B}
  OBVIOUS
<1> QED  BY <1>1, <1>2, FS_Subset DEF HowMany

\* A thread elsewhere is one thread less at the places.
LEMMA HowManyElsewhere ==
    ASSUME NEW S, IsFiniteSet(S), NEW f, DOMAIN f = S, NEW A, NEW x \in S, f[x] \notin A
    PROVE  HowMany(f, A) <= Cardinality(S) - 1
<1> DEFINE T == {y \in S : f[y] \in A}
<1>1. T \subseteq S \ {x}
  OBVIOUS
<1>2. IsFiniteSet(S \ {x}) /\ Cardinality(S \ {x}) = Cardinality(S) - 1
  BY FS_RemoveElement
<1>3. Cardinality(T) <= Cardinality(S \ {x})
  BY <1>1, <1>2, FS_Subset
<1> QED  BY <1>2, <1>3 DEF HowMany

\* A set of natural numbers that is not empty has a least element.
LEMMA LeastOf == ASSUME NEW S, S \subseteq Nat, S # {} PROVE \E a \in S : \A b \in S : a <= b
<1>1. PICK a \in S : \A b \in S : <<b, a>> \notin OpToRel(<, Nat)
  BY NatLessThanWellFounded, WFMin
<1>2. \A b \in S : ~(b < a)
  BY <1>1 DEF OpToRel
<1> QED  BY <1>2
===============================================================================
