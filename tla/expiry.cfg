SPECIFICATION FairSpec
CONSTANTS
  Ticket = {t1}
  NoTicket = NoTicket
  Mac = {}
  NoMac = NoMac
  Ip = {a1}
  NoIp = NoIp
  Request = {r1}
  Sweep = {l1}
  Durations = {1}
  BatchSize = 1
  Operation <- AllOperations
  NftFaults = TRUE
  MaxTime = 2
  MaxCrash = 1
PROPERTIES
  IndexedSpentExpires
