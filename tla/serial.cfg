SPECIFICATION Spec
CONSTANTS
  Ticket = {t1}
  NoTicket = NoTicket
  Mac = {m1}
  NoMac = NoMac
  Ip = {a1}
  NoIp = NoIp
  Request = {r1}
  Sweep = {l1}
  Durations = {2}
  BatchSize = 1
  Operation <- AllOperations
  NftFaults = FALSE
  MaxTime = 3
  MaxCrash = 1
VIEW AccessView
INVARIANTS
  TypeOK
  PausedHasNoAccess
  BoundTicketStarted
  OpenTicketStarted
PROPERTIES
  AllowanceNeverShrinks
  BalanceNeverGrowsInUse
  FirstLoginFixesStart
  BindingKept
  LifecycleSpec
