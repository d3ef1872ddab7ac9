SPECIFICATION LinkSpec
CONSTANTS
    NOF_BUFFER_PDUS = 1
    Pdu = {d1, d2, d3}
    NULL = NULL
    Rnti = {u1}
    HARQ_NUM = 2
    UINT_MOD = 8
    PduGetMayFail = TRUE
    K_WRAP = 3
    MayLose = TRUE
    SOCKET_CAP = 3
CHECK_DEADLOCK FALSE
SYMMETRY Symmetry
VIEW LinkBare
INVARIANTS
    LinkTypeOK
    BusyNumCountsUnanswered
    BusyNumCoversUnanswered
    EveryPduHasADci
PROPERTY ImplementsEntity
