SPECIFICATION Spec
CONSTANTS
  TlsSpace = 8
  PtrSize = 2
  Images <- MCImages
  MaxBins = 4
  LibcTlsAddr <- MCLibcTlsAddr
INVARIANT LibcTlsFound
CHECK_DEADLOCK FALSE
