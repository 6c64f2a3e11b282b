SPECIFICATION Spec
CONSTANTS
  cf1 = cf1
  cf2 = cf2
  cfc1 = cfc1
  other = other
  Spaces <- MCSpaces
  OtherKeys <- MCOthers
  Cursors <- MCCursors
  Slot <- MCSlot
  Faults = {"cut"}
  MaxCuts = 1
INVARIANT FailureIsLogged
CHECK_DEADLOCK FALSE
