SPECIFICATION FairSpec
CONSTANTS
  cf1 = cf1
  cf2 = cf2
  cfc1 = cfc1
  other = other
  Spaces <- MCSpaces
  OtherKeys <- MCOthers
  Cursors <- MCCursors
  Slot <- MCSlot
  Faults = {"cut", "refused", "closed", "hung"}
  MaxCuts = 2
INVARIANTS
  DoneMeansFlushed
PROPERTIES
  KeepsToItsNamespaces
  FlushEnds
CHECK_DEADLOCK FALSE
