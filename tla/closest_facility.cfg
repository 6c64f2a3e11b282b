SPECIFICATION Spec
CONSTANTS
  Stretch = 2
  TimeUnits = 39600
  CleanForm <- Forms
  Null = Null
  Extracts <- AllExtracts
  Questions <- AllQuestions
  Bodies = {2, 3, 4, 5, 6, 7, 8}
INVARIANTS
  NodingKeepsTheRoads
  NothingCloserLeftOut
  RowsAreJustified
  RewritesKeepTheAnswer
  WiderBufferNeverWorse
  SnapDecidesByDistance
  CategoriesOfTheNetwork
CHECK_DEADLOCK FALSE
