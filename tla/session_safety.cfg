SPECIFICATION Spec
CONSTANTS
  Symbols = {"A/S", "B/S"}
  Lot = 2
  SanityPct = 30
  OffsetPct = 0
  Config <- MCConfig
  Tickers <- MCTickers
  InitialBase <- MCBase
  InitialStable = 3000
  SessionCap = 2100
  MaxMoves = 2
INVARIANTS
  TypeOK
  EveryOrderWasPlanned
PROPERTIES
  PlacesWithinCaps
  OrdersReduceDrift
  FloorMissedByALotAtMost
  TradingStops
