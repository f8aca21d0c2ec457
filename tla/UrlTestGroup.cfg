SPECIFICATION Spec
CONSTANTS
    a = a
    b = b
    None = None
    outbounds <- TwoNodes
    Networks = {"tcp"}
    NetworkOrder <- Tcp
    Supports <- JustTcp
    tolerance = 1
    Modes = {"failover"}
    DelayModulus = 16
    penaltyThreshold = 1
    Delays = {1, 3}
    NodesChange = TRUE
    OtherWriters = TRUE
    BlockedSites = TRUE
    Dials = {"d1"}
    MaxPenalty = 2
PROPERTIES
    HoldsLiveNode
    TestConnectionLeavesNoTrace
