SPECIFICATION Spec
CONSTANTS
  Lot = 1
  SanityPct = 10
  OffsetPct = 0
  Series <- MCSeries
  Requests <- MCRequests
  Capital = 20000
  FeePct = 1
  MinCost = 3000
  MinIntervals = {0, 3}
  BarLength = 2
  YearLength = 4
  MaxKills = 1
  Prices = {10, 20, 40}
  Ticks = 6
INVARIANTS
  FillsInOrder
