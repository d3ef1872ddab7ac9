SPECIFICATION Spec
CONSTANTS
    N_RNTI = 2
    CAP = 1
    N_IP = 5
    POOL_SIZE = 2
    LongPackets = {5}
    MAX_READS = 6
    MAX_LEAKS = 1
    NULL = NULL
CHECK_DEADLOCK FALSE
INVARIANTS
    BuffersTypeOK
    WriterNotForgotten
    ReadDoesNotBlock
    FirstRoundIntact
    FirstRoundOwners
PROPERTIES NeverOverwrites WriteEnds
