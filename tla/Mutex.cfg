SPECIFICATION FairSpec
CONSTANTS
    c1 = c1
    c2 = c2
    t1 = t1
    t2 = t2
    t3 = t3
    NULL = NULL
    CPUs = {c1, c2}
    Threads = {t1, t2, t3}
    BootQueue <- ThreeThreads
INVARIANTS HandOverSafe
PROPERTIES IsFifoLock NoStarvation
