SPECIFICATION FairSpec
CONSTANTS
  Symbols = {s1}
  NoSymbol = NoSymbol
  MaxOrders = 2
  Lots = 1
  MaxCrashes = 1
PROPERTIES
  KnownOrdersSettle
