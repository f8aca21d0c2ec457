SPECIFICATION Spec
CONSTANTS
    n1 = n1
    n2 = n2
    n3 = n3
    p1 = p1
    p2 = p2
    Nodes <- ThreeNodes
    Size = 2
    Hashes <- ThreeHashes
    CounterModulus = 4
    Picks <- TwoPicks
SYMMETRY Symmetry
INVARIANTS
    BoundKeysStay
    StablePickIsLive
    EvenRotation
