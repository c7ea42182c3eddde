SPECIFICATION Spec
CONSTANTS
    c1 = c1
    c2 = c2
    t1 = t1
    t2 = t2
    t3 = t3
    NULL = NULL
    CPUs <- TwoCPUs
    Threads <- ThreeThreads
    BootQueue <- BootTwo
    KillOthers = FALSE
SYMMETRY CPUSymmetry
INVARIANTS ThreadsExact LockAndIrq NoPanic
PROPERTIES ImplementsSched
