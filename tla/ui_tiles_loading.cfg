SPECIFICATION Spec
CONSTANTS
  Places = {p1, p2}
  Nowhere = Nowhere
  MaxSearches = 2
  MaxRank = 2
INVARIANT RoutesShowTheResults
