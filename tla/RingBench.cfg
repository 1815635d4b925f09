SPECIFICATION FairBenchSpec
CONSTANTS
    Count = 40
    Values <- Numbers
    Capacities <- Rounded
    Wrap <- Wrapped
    Bits = 8
    None = None
INVARIANTS RingHoldsInFlight SizeInBounds SlotsExclusive
PROPERTIES RingIsFifo BenchEnds
CHECK_DEADLOCK FALSE
