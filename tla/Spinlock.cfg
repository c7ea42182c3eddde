SPECIFICATION FairSpec
CONSTANTS
    Procs = {p1, p2, p3}
    Tickets = 3
    NULL = NULL
INVARIANTS OwnerNeverWrong
PROPERTIES IsFifoLock NoStarvation
