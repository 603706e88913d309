SPECIFICATION Spec
CONSTANTS
  Ticket = {t1}
  NoTicket = NoTicket
  Mac = {}
  NoMac = NoMac
  Ip = {}
  NoIp = NoIp
  Request = {r1, r2}
  Sweep = {l1, l2}
  Durations = {1}
  BatchSize = 1
  Operation <- PauseOperations
  NftFaults = FALSE
  MaxTime = 4
  MaxCrash = 0
SYMMETRY Symmetry
VIEW LedgerView
INVARIANTS
  LedgerBalanced
  PauseWithinElapsed
  SnapshotsSound
PROPERTIES
  LifecycleSpec
