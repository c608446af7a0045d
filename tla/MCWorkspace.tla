----------------------------- MODULE MCWorkspace -----------------------------
(***************************************************************************)
(* Workspace with two symbols, a snapshot for every guard, and targets on  *)
(* and off the ladder of the regime manager.                               *)
(***************************************************************************)
EXTENDS Workspace, TLC

Good == [base |-> 6, baseFree |-> 6, stable |-> 1200, stableFree |-> 1200,
         last |-> 4, bid |-> 4, ask |-> 4, active |-> TRUE, cooling |-> FALSE]

(* A drop and a run-up, a pair in balance, and one snapshot for each of the
   other reasons. *)
MCSnapshots ==
    {Good,
     [Good EXCEPT !.last = 3, !.bid = 3, !.ask = 3, !.cooling = TRUE],
     [Good EXCEPT !.last = 6, !.bid = 6, !.ask = 6, !.stableFree = 0],
     [Good EXCEPT !.base = 0, !.baseFree = 0, !.stableFree = 0],
     [Good EXCEPT !.stable = 160],
     [Good EXCEPT !.last = 0],
     [Good EXCEPT !.active = FALSE, !.cooling = TRUE]}

MCRatios == {[volatile |-> 70, stable |-> 30], [volatile |-> 80, stable |-> 30]}
MCDefaults == [band |-> 2, minNotional |-> 500, maxTrade |-> 0]
MCConditions == {[metric |-> "drift_pct", op |-> "lt", threshold |-> 0]}

MCSymmetry == Permutations(Symbols)
==============================================================================
