SPECIFICATION FairSpec
CONSTANTS
  File <- MCFile
  Name <- MCName
  Dir <- MCDir
  Content <- MCContent
  FileName <- MCFileName
  BaseName <- MCBaseName
  StartsWith <- MCStartsWith
  Absolute <- MCAbsolute
  EnvDirs <- MCNoDirs
  ConfDirs <- MCNoDirs
  DefaultDirs <- MCDefault
  Sym <- MCSym
  Skip <- MCSkip
  DummyFuns <- MCDummyFuns
  SloaderFuns <- MCSloaderFuns
  LibcFuns <- MCLibcFuns
  LibcTls <- MCLibcTls
  MainFile = "m"
  Disks <- GraphDisks
  MaxDlopen = 2
INVARIANTS
  LoaderInv
  DependenciesMapped
  RelocatedBeforeUse
  InitChildFirst
  InitOnce
PROPERTIES
  LoaderReturns
  ImplementsLinkMap
CHECK_DEADLOCK FALSE
