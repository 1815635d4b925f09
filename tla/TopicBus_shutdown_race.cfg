SPECIFICATION Spec
CONSTANTS
    t1 = t1
    int = int
    double = double
    p1 = p1
    p2 = p2
    s1 = s1
    s2 = s2
    Topics <- OneTopic
    Types <- OneType
    Publishers <- OnePublisher
    Subscribers <- OneSubscriber
    Offered <- Command1
    Requested <- Command1
    Handlers = {}
    MaxPublish = 1
    MaxTime = 1
    MaxStop = 1
    MaxIdle = 0
INVARIANTS ShutdownStopsAll
CHECK_DEADLOCK FALSE
