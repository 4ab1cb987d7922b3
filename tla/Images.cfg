SPECIFICATION ImagesSpec
CONSTANTS
  PageSize = 4
  BaseAlign = 16
  FirstBase = 32
  Reserved <- MCReserved
  Execs <- MCExecs
  Libs <- MCLibs
  MaxBins = 6
  Pages = 8
  Wrap = 16
  ExecImages <- MCExecImages
  Taken <- MCTaken
  Temporary = 100
  Envs <- MCEnvs
  Auxs <- MCAuxs
  Random = 25
  MaxOther = 3
INVARIANTS
  NextBaseFresh
  NoCollision
  SegmentsCovered
  SegmentsInPlace
PROPERTIES
  UnloadsOwnOnly
CHECK_DEADLOCK FALSE
