SPECIFICATION Spec
CONSTANTS
  Check = {c1}
  MaxChanges = 1
PROPERTIES
  LostPrimaryLeft
