SPECIFICATION Spec
CONSTANTS
  Round = {i1, i2}
  Keep = 2
  Window = 2
  MaxFaults = 1
  MaxCrash = 1
INVARIANTS
  TypeOK
PROPERTIES
  LastingFailureReported
  NoFalseAlarm
  ScoreRecovers
