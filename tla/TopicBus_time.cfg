SPECIFICATION Spec
CONSTANTS
    t1 = t1
    int = int
    double = double
    p1 = p1
    p2 = p2
    s1 = s1
    s2 = s2
    Topics <- OneTopic
    Types <- TwoTypes
    Publishers <- OnePublisher
    Subscribers <- OneSubscriber
    Offered <- Periodic
    Requested <- Timed
    Handlers = {}
    MaxPublish = 4
    MaxTime = 4
    MaxStop = 1
    MaxIdle = 0
INVARIANTS StatsTrue PublisherOrder StoppedMeansQuiet
CHECK_DEADLOCK FALSE
