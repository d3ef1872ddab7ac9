SPECIFICATION Spec
CONSTANTS
    NOF_BUFFER_PDUS = 3
    Pdu = {d1, d2, d3}
    NULL = NULL
    Queue = {f, g}
PROPERTY ImplementsFifo
