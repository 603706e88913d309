SPECIFICATION Spec
CONSTANTS
  Ticket = {t1}
  NoTicket = NoTicket
  Mac = {}
  NoMac = NoMac
  Ip = {a1}
  NoIp = NoIp
  Request = {r1}
  Sweep = {}
  Durations = {2}
  BatchSize = 1
  Operation <- CreditOperations
  NftFaults = FALSE
  MaxTime = 4
  MaxCrash = 0
PROPERTIES
  ResumeKeepsBalance
