------------------------------ MODULE CandleLog ------------------------------
(***************************************************************************)
(* What the simulation store promises of the candles it keeps: for each    *)
(* timeframe it holds closed candles only, in the order of their opens,    *)
(* every one the venue has published between the first and the last, and   *)
(* nothing but the end of the series ever changes.                         *)
(***************************************************************************)
EXTENDS Subsequences

CONSTANTS
    Timeframes,  \* the timeframes asked for
    Interval,    \* length of a candle, per timeframe
    Published    \* opens of the candles the venue has or will have, per timeframe

VARIABLES
    now,  \* the clock
    log   \* opens of the candles kept, per timeframe

vars == <<now, log>>

(* Where the next candles begin: anywhere in an empty series, right after the
   last candle in another. *)
Begins(tf, u) ==
    log[tf] = <<>> \/ LET last == log[tf][Len(log[tf])]
                      IN  u > last /\ \A t \in Published[tf] : t > last => t >= u

Init == now \in Nat /\ log = [tf \in Timeframes |-> <<>>]

Tick == now' = now + 1 /\ UNCHANGED log

(* A series goes on with closed candles and leaves none out. *)
Extend(tf) ==
    /\ \E first \in {u \in Published[tf] : Begins(tf, u)} :
        \E last \in {u \in Published[tf] : first <= u /\ u + Interval[tf] <= now} :
            log' = [log EXCEPT ![tf] =
                        @ \o Ascending({u \in Published[tf] : first <= u /\ u <= last})]
    /\ UNCHANGED now

Next == Tick \/ \E tf \in Timeframes : Extend(tf)

Spec == Init /\ [][Next]_vars
==============================================================================
