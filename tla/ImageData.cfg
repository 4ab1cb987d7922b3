SPECIFICATION Spec
CONSTANTS
  Proc = {1, 2}
  First = 1
  Lib = {"m", "a", "b", "c", "d", "e"}
  Sym = {"x", "y"}
  Image <- MCImage
  Weak <- MCWeak
  Maps <- MCMaps
  Opened <- MCOpened
  MaxBins = 5
INVARIANTS
  SlotsMapped
  CopyInitial
PROPERTIES
  StoresKept
CHECK_DEADLOCK FALSE
