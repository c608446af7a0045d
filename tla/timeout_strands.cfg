SPECIFICATION FairSpec
CONSTANTS
  Symbols = {s1}
  NoSymbol = NoSymbol
  MaxOrders = 1
  Lots = 1
  MaxCrashes = 0
PROPERTIES
  TimeoutNeverStrands
