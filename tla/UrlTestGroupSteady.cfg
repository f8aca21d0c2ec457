SPECIFICATION SteadySpec
CONSTANTS
    a = a
    b = b
    None = None
    outbounds <- TwoNodes
    Networks = {"tcp", "udp"}
    NetworkOrder <- Both
    Supports <- LastIsTcpOnly
    tolerance = 1
    Modes = {"least_test", "failover"}
    DelayModulus = 16
    penaltyThreshold = 2
    Delays = {1, 2, 3}
    NodesChange = FALSE
    OtherWriters = FALSE
    BlockedSites = FALSE
    Dials = {"d1"}
    MaxPenalty = 3
INVARIANTS
    ChosenWithinTolerance
    PresentIsKept
PROPERTIES
    LeavesDeadNodes
    EachNetworkIsHeld
