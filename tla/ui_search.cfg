SPECIFICATION Spec
CONSTANTS
  Places = {p1, p2}
  Nowhere = Nowhere
  MaxSearches = 3
  MaxRank = 2
SYMMETRY Symmetry
INVARIANTS
  OneSearchAtATime
  OnlyTheLastComesBack
  NothingLostBeforeLoad
PROPERTIES
  ResultsNeverGoBack
