SPECIFICATION SpecDue
CONSTANTS
    NOF_BUFFER_PDUS = 2
    Pdu = {d1, d2, d3}
    NULL = NULL
    Rnti = {u1}
    HARQ_NUM = 2
    UINT_MOD = 16
    PduGetMayFail = FALSE
CHECK_DEADLOCK FALSE
SYMMETRY Symmetry
PROPERTY OnlyAckedReleased
