SPECIFICATION FairSpec
CONSTANTS
    e1 = e1
    e2 = e2
    d1 = d1
    d2 = d2
    Tick = Tick
    Nobody = Nobody
    Endpoints <- TwoEndpoints
    Dials <- TwoDials
    Listening = {}
    MaxLooks = 1
    Switched = {e2}
    Closed = {e1}
    Configs <- Caps
INVARIANTS
    AtMostMax
    AtRestAllAgree
    NoWaitCycle
PROPERTIES
    DialsKeepTheirDevice
    DisabledStaysOff
    ClosedIsFinal
    DialsReturn
    CloseReturns
