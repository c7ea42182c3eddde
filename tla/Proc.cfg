SPECIFICATION FairSpec
CONSTANTS
    c1 = c1
    c2 = c2
    t1 = t1
    t2 = t2
    t3 = t3
    t4 = t4
    p = p
    q = q
    NULL = NULL
    CPUs = {c1, c2}
    Threads = {t1, t2, t3, t4}
    BootQueue <- TwoThreads
    Procs = {p, q}
    BootThreads <- Boot
    Machines <- OneOrTwoCPUs
INVARIANTS WaiterSleeps ExitKillsAll
PROPERTIES WaiterReturns
CHECK_DEADLOCK FALSE
