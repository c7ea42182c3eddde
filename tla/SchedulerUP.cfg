SPECIFICATION FairSpec
CONSTANTS
    c1 = c1
    c2 = c2
    t1 = t1
    t2 = t2
    t3 = t3
    NULL = NULL
    CPUs <- OneCPU
    Threads <- ThreeThreads
    BootQueue <- BootTwo
    KillOthers = TRUE
PROPERTIES KilledForGood RunnableRuns
CHECK_DEADLOCK FALSE
