CONSTANTS
    c1 = c1
    c2 = c2
    i1 = i1
    i2 = i2
    Callers = {c1}
    Waiters = {w1}
    Followers = {}
    Instances <- TwoInstances
    NoInstance = NoInstance
    SubscriberSize = 2
    ListenerSize = 1
SPECIFICATION FairSpec
PROPERTIES
    StreamProceedsOnceStarted
