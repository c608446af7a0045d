------------------------------ MODULE MCPaper ------------------------------
(***************************************************************************)
(* PaperAccount on small instances.  The second pair is quoted in the base *)
(* of the first: the one's sells and the other's buys reserve the same     *)
(* asset.                                                                  *)
(***************************************************************************)
EXTENDS PaperAccount, TLC

MCAssets == {"USDT", "BTC", "ETH"}
MCBaseOf == ("BTC/USDT" :> "BTC") @@ ("ETH/BTC" :> "ETH")
MCQuoteOf == ("BTC/USDT" :> "USDT") @@ ("ETH/BTC" :> "BTC")
MCPricesOf == ("BTC/USDT" :> {1, 2}) @@ ("ETH/BTC" :> {1})

=============================================================================
