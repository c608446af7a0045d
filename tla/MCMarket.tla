------------------------------ MODULE MCMarket ------------------------------
(***************************************************************************)
(* MarketData over candles of two ticks, with short periods, so that every *)
(* indicator has values within the bound.                                  *)
(***************************************************************************)
EXTENDS MarketData

MCSettings ==
    [rsi |-> 2, fast |-> 1, slow |-> 2, signal |-> 2,
     ema |-> 2, bollinger |-> 2, adx |-> 2, atr |-> 2, volume |-> 2,
     lookback |-> 1, cluster |-> 20, maxLevels |-> 2]
=============================================================================
