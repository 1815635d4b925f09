SPECIFICATION Spec
CONSTANTS
    p1 = p1
    p2 = p2
    c1 = c1
    c2 = c2
    k1 = k1
    Producers <- TwoProducers
    Consumers <- TwoConsumers
    Closers <- OneCloser
    Capacities = {0, 2}
    Policies <- OverflowPolicy
    MaxPush = 4
SYMMETRY Symmetry
INVARIANTS TypeOK NoLostWakeup Accounting EndIsFinal
PROPERTIES ImplementsFifo
