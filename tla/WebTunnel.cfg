CONSTANTS
  MaxBytes = 3
  Window = 2
SPECIFICATION FairSpec
INVARIANT TypeOK
INVARIANT InOrder
PROPERTY BytesArrive
PROPERTY LastBytesArrive
PROPERTY TunnelEnds
CHECK_DEADLOCK FALSE
