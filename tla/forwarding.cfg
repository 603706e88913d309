SPECIFICATION RouterSpec
CONSTANTS
  Address = {client, admin}
  Whitelist = {admin}
  Session = {}
  MaxCrash = 1
  MaxReboot = 0
INVARIANTS
  PermittedGetsThrough
CHECK_DEADLOCK FALSE
