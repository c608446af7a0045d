------------------------------ MODULE MCCandles ------------------------------
(***************************************************************************)
(* SimulationFetch on two timeframes.  The venue misses a candle of the    *)
(* first; its pages are shorter than asked for, or it ignores since.       *)
(***************************************************************************)
EXTENDS SimulationFetch

MCOrder == <<"5m", "1h">>
MCInterval == ("5m" :> 1) @@ ("1h" :> 2)
MCPublished == ("5m" :> {0, 1, 2, 4, 5}) @@ ("1h" :> {0, 2, 4})

MCSource(cap, ignores) == [cap |-> cap, ignoresSince |-> ignores]
MCSources ==
    {("5m" :> MCSource(2, FALSE)) @@ ("1h" :> MCSource(1, FALSE)),
     ("5m" :> MCSource(2, TRUE)) @@ ("1h" :> MCSource(3, FALSE))}
==============================================================================
