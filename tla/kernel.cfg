SPECIFICATION KernelSpec
CONSTANTS
  Login = {c1, c2, c3}
  Rate = {low, high}
  NoRate = NoRate
  Faults = TRUE
  Cpu = {p1, p2}
  Iface = {"eth1"}
  Source <- Hosts
  Length = {13, 14, 33, 34}
  EtherType <- EtherTypes
  LittleEndian = TRUE
  MaxLoads = 2
  MaxFrames = 2
  Address = {client, customer, admin}
  Whitelist = {admin}
  Session = {s1}
  MaxCrash = 1
  MaxReboot = 1
INVARIANTS
  TypeOK
  LimitSurvivesOverlap
  XdpTypeOK
  EveryFrameCounted
  RouterTypeOK
  OnlyPermittedForwarded
  OnlyPermittedDelivered
  StopLeavesNothing
  IndexedSessionExists
PROPERTIES
  OnlyOwnLinkMoves
  AvoidsDeadLink
  BalancerSpec
  RouterComesBack
