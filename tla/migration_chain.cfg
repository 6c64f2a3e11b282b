SPECIFICATION Spec
CONSTANTS
  MaxLoads = 3
  SwapBackAny = FALSE
  Mixed = Mixed
  Absent = Absent
INVARIANTS
  TypeOK
  BodyFindsItsColumns
  CountsOfTheLiveFacilities
  UpgradesGoThrough
  LabelNamesTheBody
PROPERTIES
  NoBrokenBodyComesBack
CHECK_DEADLOCK FALSE
