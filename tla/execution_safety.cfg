SPECIFICATION Spec
CONSTANTS
  Symbols = {s1, s2}
  NoSymbol = NoSymbol
  MaxOrders = 2
  Lots = 2
  MaxCrashes = 1
INVARIANTS
  TypeOK
  LiveOrdersAreTracked
  NoFillLost
  BookedOnceUnlessTorn
  OneRestingOrderPerPair
  HistoryAgreesWithLedger
PROPERTIES
  BooksExactlyOnce
