SPECIFICATION FilesSpec
CONSTANTS
  Sections <- MCSections
  Tables <- MCTables
  RelaSize <- MCRelaSize
  PathDir = {"d1", "d2"}
  Dir = {"d1", "d2", "d3"}
  MaxPath = 3
  Conf = {"conf", "a", "b", "i386"}
  Root = "conf"
  Foreign = {"i386"}
  Texts <- MCTexts
  MaxDepth = 3
  PageSize = 8
  MinSize = 2
  PhnumEnd = 5
  Byte = 2
  PhdrSize = 2
  Files <- MCFileSet
INVARIANTS
  RunsFirstInPath
  DirsInOrder
  FitsStack
  HeadersComplete
  OrderFree
  AllSymbolsRead
  AcceptsWellFormed
PROPERTIES
  ReaderReturns
CHECK_DEADLOCK FALSE
