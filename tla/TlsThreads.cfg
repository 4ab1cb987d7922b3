SPECIFICATION TSpec
CONSTANTS
  TlsSpace = 8
  PtrSize = 2
  Images <- MCImages
  MaxBins = 4
  LibcTlsAddr <- MCLibcTlsAddr
  Thread = {t1}
  MaxStores = 2
INVARIANTS
  TpoffMatchesLayout
  BlocksDisjoint
  GetAddrSingleModule
  EntryClean
  ThreadStoresInside
PROPERTIES
  TpoffStable
CHECK_DEADLOCK FALSE
