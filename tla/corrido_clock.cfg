SPECIFICATION Spec
CONSTANTS
  Ticket = {t1}
  NoTicket = NoTicket
  Mac = {}
  NoMac = NoMac
  Ip = {a1, a2}
  NoIp = NoIp
  Request = {r1, r2}
  Sweep = {}
  Durations = {2}
  BatchSize = 1
  Operation <- CorridoOperations
  NftFaults = FALSE
  MaxTime = 2
  MaxCrash = 0
PROPERTIES
  FirstLoginFixesStart
