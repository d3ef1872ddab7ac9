SPECIFICATION SpecDue
CONSTANTS
    NOF_BUFFER_PDUS = 1
    Pdu = {d1, d2}
    NULL = NULL
    Rnti = {u1, u2}
    HARQ_NUM = 2
    UINT_MOD = 16
    PduGetMayFail = FALSE
CHECK_DEADLOCK FALSE
SYMMETRY Symmetry
VIEW Bare
INVARIANTS BusyNumExact ScanFinds
