SPECIFICATION Spec
CONSTANTS
  Ticket = {t1}
  NoTicket = NoTicket
  Mac = {m1}
  NoMac = NoMac
  Ip = {a1}
  NoIp = NoIp
  Request = {r1}
  Sweep = {}
  Durations = {1}
  BatchSize = 1
  Operation <- LoginOperations
  NftFaults = FALSE
  MaxTime = 1
  MaxCrash = 0
PROPERTIES
  RefusalGrantsNothing
