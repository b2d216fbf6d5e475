CONSTANTS
  Places = {"sandbox"}
  MaxEdits = 1
  MaxOrphans = 0
  None = None
SPECIFICATION FairSpec
PROPERTY ReloadTakesEffect
CHECK_DEADLOCK FALSE
