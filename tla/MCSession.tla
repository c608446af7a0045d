----------------------------- MODULE MCSession -----------------------------
(***************************************************************************)
(* RebalanceSession on two pairs with different targets.                   *)
(***************************************************************************)
EXTENDS RebalanceSession, TLC

Ticker(last, bid, ask) == [last |-> last, bid |-> bid, ask |-> ask, active |-> TRUE]
Closed(t) == [t EXCEPT !.active = FALSE]

MCConfig ==
    ("A/S" :> [target |-> 50, band |-> 2, minNotional |-> 100, maxTrade |-> 0])
    @@ ("B/S" :> [target |-> 80, band |-> 5, minNotional |-> 900, maxTrade |-> 1700])

(* A market that moves within a spread, one that jumps, an unusable quote. *)
MCTickers ==
    ("A/S" :> {Ticker(3, 3, 3), Ticker(4, 3, 5), Closed(Ticker(3, 3, 3)), Ticker(4, 4, 4)})
    @@ ("B/S" :> {Ticker(2, 2, 2), Ticker(3, 2, 3), Ticker(0, 2, 2)})

MCBase == ("A/S" :> 4) @@ ("B/S" :> 4)

ASSUME NearLast == LimitsNearLast

=============================================================================
