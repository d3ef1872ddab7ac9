SPECIFICATION Spec
CONSTANTS
    SN_MOD = 8
    WINDOW = 4
    Rnti = {1}
    N_SDU = 4
    SduLen = {1, 4, 26}
    QUEUE_CAP = 2
    PDU_LEN = 12
    LONG = 6
    MAX_SUBH = 3
    REACH = 12
CHECK_DEADLOCK FALSE
INVARIANTS RlcTypeOK StreamIntact FramingTrue MacPduFits ParsedAsWritten SdusWhole InOrderOnce NothingStranded
PROPERTY UeReturns
