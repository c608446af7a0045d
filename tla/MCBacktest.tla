----------------------------- MODULE MCBacktest -----------------------------
(***************************************************************************)
(* Backtest over every price path of a few ticks, two ticks to a bar.      *)
(* Some series miss the second bar, and its finer candles with it.         *)
(***************************************************************************)
EXTENDS Backtest

CONSTANTS
    Prices,  \* the prices of a path
    Ticks    \* length of a path

Fine(path, at) == [i \in DOMAIN path |->
    [open |-> at[i], low |-> path[i], high |-> path[i], close |-> path[i]]]

Bar2(path, at, k) ==
    LET a == path[2 * k - 1]
        b == path[2 * k]
    IN  [open |-> at[2 * k - 1], low |-> Min({a, b}), high |-> Max({a, b}), close |-> b]

SeriesOf(path, at) ==
    [fine |-> Fine(path, at),
     bars |-> [k \in 1..(Len(path) \div 2) |-> Bar2(path, at, k)]]

Straight == [i \in 1..Ticks |-> i - 1]
WithGap == [i \in 1..Ticks |-> IF i <= 2 THEN i - 1 ELSE i + 1]

Paths == {path \in [1..Ticks -> Prices] : path[1] = 20}
MCSeries == {SeriesOf(path, at) : path \in Paths, at \in {Straight, WithGap}}

Pair(target, maxTrade) == [target |-> target, band |-> 5, minNotional |-> 3000, maxTrade |-> maxTrade]
Request(pair, useFine, schedule, from, to) ==
    [start |-> from, end |-> to, pair |-> pair, useFine |-> useFine, schedule |-> schedule]
Step(at, pct) == [at |-> at, pct |-> pct]

MCRequests ==
    {Request(Pair(50, 0), TRUE, <<>>, 0, 20),
     Request(Pair(100, 0), FALSE, <<Step(3, 20)>>, 0, 20),
     Request(Pair(50, 6000), FALSE, <<Step(4, 100), Step(3, 0)>>, 30, 40)}
=============================================================================
