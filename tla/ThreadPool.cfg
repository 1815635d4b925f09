SPECIFICATION FairPoolSpec
CONSTANTS
    p1 = p1
    w1 = w1
    k1 = k1
    k2 = k2
    Producers <- PosterAndTask
    Consumers <- OneWorker
    Closers <- TwoStoppers
    Capacities = {1}
    Policies <- BlockOnly
    MaxPush = 3
INVARIANTS TasksOnce StoppedMeansDone
PROPERTIES FuturesSettle PoolStopReturns
CHECK_DEADLOCK FALSE
