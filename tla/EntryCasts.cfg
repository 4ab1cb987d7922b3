SPECIFICATION EntrySpec
CONSTANTS
  Parts = {"libc"}
  Callees = {"access", "memchr", "modf", "wcschr", "__gmon_start__"}
  Str <- MCStr
  AuxTypes <- MCAuxTypes
  Random = 25
  AuxVals <- MCAuxVals
  MaxArgs = 3
  MaxEnvs = 3
  Bindings = {"GLOB_DAT", "COPY"}
  EnvNames = {"A", "B"}
  EnvValues = {"0", "1"}
  Envs <- MCEnvs
  MaxCtors = 2
  MaxSets = 2
INVARIANT CallsArrive
CHECK_DEADLOCK FALSE
