SPECIFICATION FairSpec
CONSTANTS
    USART1_DMA_REC_SIZE = 4
    USART1_PRO_SIZE = 2
    MaxBytes = 9
    Paced = TRUE
INVARIANTS
    TypeOK
    TailOnlyWhenFull
    LastPacketSeen
    ScanNotTorn
PROPERTIES
    ImplementsStream
    Drained
CHECK_DEADLOCK FALSE
