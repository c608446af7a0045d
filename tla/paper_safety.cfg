SPECIFICATION PaperSpec
CONSTANTS
  Symbols = {"BTC/USDT", "ETH/BTC"}
  NoSymbol = NoSymbol
  MaxOrders = 3
  Lots = 1
  MaxCrashes = 1
  Assets <- MCAssets
  BaseOf <- MCBaseOf
  QuoteOf <- MCQuoteOf
  Stable = "USDT"
  Amounts = {1}
  PricesOf <- MCPricesOf
  Capital = 2
  Scale = 10
  FeeRate = 1
  MaxResets = 1
INVARIANTS
  PaperTypeOK
  ShortOnlyByBuyFees
  LedgerExplainsBalances
  NoIdReuseWhileTracked
