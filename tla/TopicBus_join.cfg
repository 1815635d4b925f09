SPECIFICATION Spec
CONSTANTS
    t1 = t1
    int = int
    double = double
    p1 = p1
    p2 = p2
    s1 = s1
    s2 = s2
    Topics <- OneTopic
    Types <- OneType
    Publishers <- TwoPublishers
    Subscribers <- TwoSubscribers
    Offered <- LatchedOrSensor
    Requested <- Mixed
    Handlers <- Installed
    MaxPublish = 2
    MaxTime = 1
    MaxStop = 0
    MaxIdle = 0
SYMMETRY Symmetry
INVARIANTS TypeOK OnceAndNoGap
PROPERTIES PromiseKept OffersRespected
CHECK_DEADLOCK FALSE
