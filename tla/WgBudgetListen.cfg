SPECIFICATION Spec
CONSTANTS
    e1 = e1
    e2 = e2
    d1 = d1
    d2 = d2
    Tick = Tick
    Nobody = Nobody
    Endpoints <- TwoEndpoints
    Dials <- TwoDials
    Listening = {e1}
    MaxLooks = 1
    Switched = {}
    Closed = {}
    Configs <- Eager
INVARIANTS
    ListenersStay
