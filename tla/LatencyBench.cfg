SPECIFICATION BenchSpec
CONSTANTS
    t1 = t1
    sample = sample
    main1 = main1
    s1 = s1
    s2 = s2
    Topics = {t1}
    Types = {sample}
    Publishers = {main1}
    Subscribers = {s1, s2}
    Offered <- EitherReliability
    Requested <- EitherReliability
    Handlers = {}
    PoolSizes = {1, 3}
    Count = 3
    Period = 2
    MaxClock = 7
    MaxPublish = 3
    MaxTime = 1
    MaxStop = 1
    MaxIdle = 1
SYMMETRY Symmetry
INVARIANTS BackpressureBounded ReportComplete NoDrift NoBurst
PROPERTIES IdleIsIdle
CHECK_DEADLOCK FALSE
