SPECIFICATION Spec
CONSTANTS
    N = 3
    MaxWeight = 4
    Wrap = 8
    MaxPicks = 18
INVARIANTS
    TypeOK
    RoundRobinEven
    WeightedShare
PROPERTY
    EveryTargetServed
