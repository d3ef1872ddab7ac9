SPECIFICATION FairSpecDue
CONSTANTS
    NOF_BUFFER_PDUS = 1
    Pdu = {d1, d2}
    NULL = NULL
    Rnti = {u1}
    HARQ_NUM = 2
    UINT_MOD = 16
    PduGetMayFail = FALSE
CHECK_DEADLOCK FALSE
PROPERTY HarqBusyReturns
