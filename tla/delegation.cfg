CONSTANTS
  Request = {1, 2}
  MaxParallel = 2
SPECIFICATION DelegationFairSpec
INVARIANTS BatchIsTrue CatalogIsTrue
PROPERTIES DelegationEnds
CHECK_DEADLOCK FALSE
