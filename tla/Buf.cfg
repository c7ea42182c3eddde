SPECIFICATION Spec
CONSTANTS
    c1 = c1
    t1 = t1
    t2 = t2
    t3 = t3
    NULL = NULL
    CPUs = {c1}
    Threads = {t1, t2, t3}
    BootQueue <- ThreeThreads
    Locks = {"readlock", "writelock"}
    Readers = {t1, t2}
    Size = 3
    MaxChars = 7
INVARIANTS FreeszExact SleeperServed
PROPERTIES ReadInOrder
CHECK_DEADLOCK FALSE
