SPECIFICATION FairSpec
CONSTANT
    N = 5
INVARIANTS
    ForksExclusive
    GrantOnce
PROPERTY
    NeighbourEats
