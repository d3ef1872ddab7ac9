SPECIFICATION Spec
CONSTANTS
    SN_MOD = 6
    WINDOW = 3
    Rnti = {1, 2}
    N_SDU = 2
    SduLen = {27}
    QUEUE_CAP = 2
    PDU_LEN = 12
    LONG = 6
    MAX_SUBH = 2
    REACH = 1
CHECK_DEADLOCK FALSE
INVARIANT VrUhIsHighest
