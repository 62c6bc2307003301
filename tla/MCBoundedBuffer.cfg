SPECIFICATION FairSpec
CONSTANTS
    NumPairs = 3
    buf_size = 3
    MaxPrime = 37
    FirstNums <- MCFirstNums
INVARIANTS
    SlotAccounting
    NeverEmpty
    NeverStalls
    ConsecutivePrimes
    ExactlyOnce
PROPERTY
    Terminates
