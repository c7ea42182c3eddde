SPECIFICATION Spec
CONSTANTS
    NULL = NULL
    NR_BUDDY_ORDER = 4
    NrPages = 7
    Slots = 10
    MaxRefs = 2
    MaxId = 9
    Rom <- Roms
    MaxPages = 7
    Sizes = {1, 2, 3}
    MaxAreas = 6
    Threads = {t1, t2}
    HeapPages = 3
    FrameNos = {1, 2, 3, 4}
    Units = 4
    SlabMax = 2
    Requests = {1, 8}
    PteSpan = 2
    MaxCalls = 3
SYMMETRY Symmetry
INVARIANTS BlocksSound IdsSound AreasSound NothingShared
PROPERTIES IsFrames RacesOnly
CHECK_DEADLOCK FALSE
