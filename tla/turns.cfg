CONSTANTS
  Owners = {p, q}
  MaxTurn = 2
  MaxMessage = 2
  MaxVersion = 2
  MaxFailures = 2
SPECIFICATION Spec
SYMMETRY MCOwners
INVARIANTS QuietMatchesStore SavedChangeSurvives UncommittedLeavesNothing
