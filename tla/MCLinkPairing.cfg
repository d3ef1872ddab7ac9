SPECIFICATION LinkSpec
CONSTANTS
    NOF_BUFFER_PDUS = 2
    Pdu = {d1, d2, d3}
    NULL = NULL
    Rnti = {u1}
    HARQ_NUM = 2
    UINT_MOD = 8
    PduGetMayFail = FALSE
    K_WRAP = 4
    MayLose = FALSE
    SOCKET_CAP = 3
CHECK_DEADLOCK FALSE
SYMMETRY Symmetry
VIEW LinkBare
INVARIANT NextPduBelongs
