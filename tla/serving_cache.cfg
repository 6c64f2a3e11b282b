SPECIFICATION FairSpec
CONSTANTS
  Requests = {r1}
  Questions = {q1}
  Categories = categories
  MaxWal = 3
  MaxRestarts = 1
  MaxInFlight = 1
  Miss = Miss
  None = None
INVARIANTS
  TypeOK
  OneNetworkPerAnswer
  FlushClearsWhatItFound
  KeyVersionIsNotAhead
PROPERTIES
  RequestsEnd
  StaleEntriesExpire
CHECK_DEADLOCK FALSE
