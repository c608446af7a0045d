SPECIFICATION Spec
CONSTANTS
  Symbols = {A, B}
  Snapshots <- MCSnapshots
  Ratios <- MCRatios
  Defaults <- MCDefaults
  Conditions <- MCConditions
  ReviewBand = 20
  MaxId = 3
  MaxFlags = 2
  Lot = 1
  SanityPct = 30
  OffsetPct = 0
SYMMETRY MCSymmetry
INVARIANTS
  StoresStayLoadable
  LadderTellsTheGuards
  FollowedOncePerMove
