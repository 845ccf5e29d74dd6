SPECIFICATION PileSpec
CONSTANTS
  Face <- MCFace
  MaxDraw = 12
INVARIANTS
  PenaltyHasItsCard
PROPERTIES
  PenaltyOnlyEscalates
