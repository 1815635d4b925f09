SPECIFICATION Spec
CONSTANTS
    t1 = t1
    t2 = t2
    t3 = t3
    Threads <- ThreeThreads
    Counts = {0, 2}
    MaxExhausted = 1
INVARIANTS OnePlace NoUseAfterFree NoLeak
CHECK_DEADLOCK FALSE
