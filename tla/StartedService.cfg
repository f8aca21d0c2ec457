CONSTANTS
    c1 = c1
    c2 = c2
    i1 = i1
    i2 = i2
    Callers <- TwoCallers
    Waiters = {w1}
    Followers = {f1}
    Instances <- TwoInstances
    NoInstance = NoInstance
    SubscriberSize = 2
    ListenerSize = 1
SPECIFICATION Spec
SYMMETRY Symmetry
INVARIANTS
    OneLiveInstance
    StartedHasInstance
    NoOrphanStart
    FollowerNotStale
