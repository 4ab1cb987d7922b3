SPECIFICATION Spec
CONSTANTS
  File <- MCFile
  Name <- MCName
  Dir <- MCDir
  Content <- MCContent
  FileName <- MCFileName
  BaseName <- MCBaseName
  StartsWith <- MCStartsWith
  Absolute <- MCAbsolute
  EnvDirs <- MCNoDirs
  ConfDirs <- MCNoDirs
  DefaultDirs <- MCDefault
  Sym <- MCSym
  Skip <- MCSkip
  DummyFuns <- MCDummyFuns
  SloaderFuns <- MCSloaderFuns
  LibcFuns <- MCLibcFuns
  LibcTls <- MCLibcTls
  MainFile = "m"
  Disks <- SymbolDisks
  MaxDlopen = 2
INVARIANTS
  ScopeAgreement
  CopyShared
PROPERTIES
  NeverRebind
CHECK_DEADLOCK FALSE
