SPECIFICATION Spec
CONSTANTS
    N_RNTI = 1
    CAP = 2
    N_IP = 8
    POOL_SIZE = 3
    LongPackets = {}
    MAX_READS = 9
    MAX_LEAKS = 0
    NULL = NULL
CHECK_DEADLOCK FALSE
INVARIANT ListedAreAvailable
