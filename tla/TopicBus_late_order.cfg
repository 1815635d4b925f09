SPECIFICATION Spec
CONSTANTS
    t1 = t1
    int = int
    double = double
    p1 = p1
    p2 = p2
    s1 = s1
    s2 = s2
    Topics <- OneTopic
    Types <- OneType
    Publishers <- OnePublisher
    Subscribers <- OneSubscriber
    Offered <- Latched3
    Requested <- Latched3
    Handlers = {}
    MaxPublish = 3
    MaxTime = 1
    MaxStop = 0
    MaxIdle = 0
INVARIANTS LateJoinerInOrder
CHECK_DEADLOCK FALSE
