SPECIFICATION Spec
CONSTANTS
  Ticket = {t1}
  NoTicket = NoTicket
  Mac = {m1}
  NoMac = NoMac
  Ip = {a1, a2}
  NoIp = NoIp
  Request = {r1}
  Sweep = {}
  Durations = {3}
  BatchSize = 1
  Operation <- LoginOperations
  NftFaults = FALSE
  MaxTime = 2
  MaxCrash = 0
INVARIANTS
  AccessNeedsLiveTicket
