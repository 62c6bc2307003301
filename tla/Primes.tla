-------------------------------- MODULE Primes --------------------------------
(***************************************************************************)
(* class Primes of boundedBuffer/primes.cpp (the copies in semaphore/ and  *)
(* producerConsumer/ are the same file).  MaxPrime stands for the largest  *)
(* int: like INT_MAX it is a prime, so the search below it always ends.    *)
(***************************************************************************)
EXTENDS Integers

CONSTANT MaxPrime

\* A faulty variant, used as a mutant: the loop stops before the square root.
isPrimeShort(num) ==
    /\ num > 1
    /\ \/ num <= 3
       \/ /\ num % 2 # 0 /\ num % 3 # 0
          /\ \A i \in {j \in 5..num : j % 6 = 5 /\ j * j < num} :
                num % i # 0 /\ num % (i + 2) # 0

\* Trial division by 2, 3 and the pairs 6k - 1, 6k + 1 up to the square root.
isPrime(num) ==
    /\ num > 1
    /\ \/ num <= 3
       \/ /\ num % 2 # 0 /\ num % 3 # 0
          /\ \A i \in {j \in 5..num : j % 6 = 5 /\ j * j <= num} :
                num % i # 0 /\ num % (i + 2) # 0

\* The first number above prime that passes the test.
getNextPrime(prime) ==
    CHOOSE p \in (prime + 1)..MaxPrime :
        isPrime(p) /\ \A q \in (prime + 1)..(p - 1) : ~isPrime(q)

ASSUME MaxPrimeAssumption == MaxPrime \in Nat /\ isPrime(MaxPrime)

\* The definition of a prime number, to hold isPrime against.
Prime(n) == n > 1 /\ \A d \in 2..(n - 1) : n % d # 0
=============================================================================
