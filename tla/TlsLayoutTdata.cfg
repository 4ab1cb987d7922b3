SPECIFICATION Spec
CONSTANTS
  TlsSpace = 8
  PtrSize = 2
  Images <- MCImages
  MaxBins = 4
  LibcTlsAddr <- MCLibcTlsAddr
INVARIANT TdataIntact
CHECK_DEADLOCK FALSE
