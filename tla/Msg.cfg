SPECIFICATION MCSpec
CONSTANTS
    c1 = c1
    s1 = s1
    r1 = r1
    r2 = r2
    m1 = m1
    m2 = m2
    b1 = b1
    p = p
    q = q
    NULL = NULL
    CPUs = {c1}
    Threads = {s1, r1, r2}
    BootQueue <- SendAndRecieve
    Msgs = {m1, m2}
    Boxes = {b1}
    Locks = {m1, m2, b1}
    Procs = {p, q}
    ProcOf <- TwoProcs
INVARIANTS SleeperWakeable SentIsThere
PROPERTIES IsMailbox WokenRecieves
CHECK_DEADLOCK FALSE
