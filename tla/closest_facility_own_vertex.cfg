SPECIFICATION Spec
CONSTANTS
  Stretch = 2
  TimeUnits = 39600
  CleanForm <- Forms
  Null = Null
  Extracts <- AllExtracts
  Questions <- AllQuestions
  Bodies = {2, 3, 4, 5, 6, 7, 8}
INVARIANT OwnVertexIsServed
CHECK_DEADLOCK FALSE
