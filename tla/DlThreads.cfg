SPECIFICATION FairSpec
CONSTANTS
  Thread = {t1, t2}
  Lib = {"a", "b", "c"}
  Sym = {"x", "y"}
  Needed <- MCNeeded
  Refers <- MCRefers
  Defines <- MCDefines
  MaxCalls = 1
INVARIANTS
  SerialUsable
PROPERTIES
  DlopenReturns
CHECK_DEADLOCK FALSE
