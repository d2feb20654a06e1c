CONSTANTS
  MaxId = 3
  MaxTurn = 2
  MaxFaults = 2
  MaxStops = 2
  MaxHarm = 3
SPECIFICATION Spec
INVARIANTS FileIsSound TurnsAreWhole
PROPERTIES OutcomeHolds ImplementsSelection
