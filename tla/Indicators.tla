----------------------------- MODULE Indicators -----------------------------
(***************************************************************************)
(* The technical indicators over a series of values or of candles.         *)
(*                                                                         *)
(* A series is a sequence of fractions as long as its input; the positions *)
(* that lack history hold NoValue.  Positions start at 1, so that what the *)
(* code finds at index "period" is at position period + 1 here.            *)
(* A candle k has k.high, k.low and k.close; all periods are positive.     *)
(***************************************************************************)
EXTENDS Fractions, Subsequences, SequencesExt

NoValue == <<>>

Column(candles, field) == [i \in DOMAIN candles |-> Whole(candles[i][field])]

(* Mutant: the window is one value late, values[index - period + 2: index + 2]. *)
WindowAhead(values, i, period) ==
    SubSeq(values, i - period + 2, IF i < Len(values) THEN i + 1 ELSE i)

Window(values, i, period) == SubSeq(values, i - period + 1, i)

sma(values, period) ==
    [i \in DOMAIN values |-> IF i < period THEN NoValue ELSE Mean(Window(values, i, period))]

(* The loop of the running averages: the first value is the seed, at position
   first, and step[i] makes the value at i of the one before it. *)
Running(seed, first, step) ==
    LET previous == Loop(seed, first, step)
    IN  [i \in DOMAIN step |-> IF i < first THEN NoValue ELSE previous[i]]

(* Mutant: the old value keeps too much weight, period / (period + 1). *)
EmaStepHeavy(value, period) ==
    [previous \in Fractions |->
        Plus(Times(value, Frac(2, period + 1)), Times(previous, Frac(period, period + 1)))]

EmaStep(value, period) ==
    [previous \in Fractions |->
        Plus(Times(value, Frac(2, period + 1)), Times(previous, Frac(period - 1, period + 1)))]

(* Seeded with the mean of the first values. *)
ema(values, period) ==
    Running(Mean(SubSeq(values, 1, period)), period,
            [i \in DOMAIN values |-> EmaStep(values[i], period)])

MeanStep(value, period) ==
    [previous \in Fractions |->
        Over(Plus(Times(previous, Whole(period - 1)), value), Whole(period))]

(* Wilder's average of x[from..], seeded with the mean of its first values. *)
WilderMean(x, period, from) ==
    LET seeded == from + period - 1
    IN  Running(Mean(SubSeq(x, from, seeded)), seeded,
                [i \in DOMAIN x |-> MeanStep(x[i], period)])

SmoothStep(value, period) ==
    [previous \in Fractions |-> Plus(Minus(previous, Over(previous, Whole(period))), value)]

(* _wilder_smooth: a running sum; the first value has no bar before it. *)
WilderSum(x, period) ==
    Running(SumOf(SubSeq(x, 2, period + 1)), period + 1,
            [i \in DOMAIN x |-> SmoothStep(x[i], period)])

(* _gains_losses, from the second value on *)
Rise(values) ==
    [i \in DOMAIN values |->
        IF i = 1 THEN Zero ELSE Greatest(Minus(values[i], values[i - 1]), Zero)]
Fall(values) ==
    [i \in DOMAIN values |->
        IF i = 1 THEN Zero ELSE Greatest(Minus(values[i - 1], values[i]), Zero)]

(* _rsi_value *)
RsiValue(gain, loss) ==
    IF loss = Zero THEN Whole(100)
    ELSE Minus(Whole(100), Over(Whole(100), Plus(Whole(1), Over(gain, loss))))

rsi(values, period) ==
    LET gain == WilderMean(Rise(values), period, 2)
        loss == WilderMean(Fall(values), period, 2)
    IN  [i \in DOMAIN values |-> IF i <= period THEN NoValue ELSE RsiValue(gain[i], loss[i])]

Diff(a, b) == IF a = NoValue \/ b = NoValue THEN NoValue ELSE Minus(a, b)
Diffs(s, t) == [i \in DOMAIN s |-> Diff(s[i], t[i])]

(* _ema_optional: over the values behind the leading gap. *)
EmaOfTail(s, period) ==
    LET gap == {i \in DOMAIN s : \A j \in 1..i : s[j] = NoValue}
        tail == SubSeq(s, Cardinality(gap) + 1, Len(s))
        smoothed == ema(tail, period)
    IN  [i \in DOMAIN s |-> IF i \in gap THEN NoValue ELSE smoothed[i - Cardinality(gap)]]

macd(values, fast, slow, signal) ==
    LET line == Diffs(ema(values, fast), ema(values, slow))
        smoothed == EmaOfTail(line, signal)
    IN  [line |-> line, signal |-> smoothed, histogram |-> Diffs(line, smoothed)]

(* The bands lie num_std square roots of the variance off the middle. *)
bollinger(values, period) ==
    LET middle == sma(values, period)
        Off(i) == [j \in 1..period |->
                      LET d == Minus(values[i - period + j], middle[i]) IN Times(d, d)]
    IN  [middle |-> middle,
         variance |-> [i \in DOMAIN values |-> IF i < period THEN NoValue ELSE Mean(Off(i))]]

(* _true_ranges *)
TrueRange(candles) ==
    [i \in DOMAIN candles |->
        LET k == candles[i]
            before == candles[i - 1].close
        IN  IF i = 1 THEN Whole(k.high - k.low)
            ELSE Greatest(Whole(k.high - k.low),
                     Greatest(Whole(Magnitude(k.high - before)), Whole(Magnitude(k.low - before))))]

atr(candles, period) == WilderMean(TrueRange(candles), period, 2)

(* _directional_movement: the larger of the two moves counts, if positive. *)
UpMove(candles, i) == candles[i].high - candles[i - 1].high
DownMove(candles, i) == candles[i - 1].low - candles[i].low

PlusMove(candles) ==
    [i \in DOMAIN candles |->
        IF i > 1 /\ UpMove(candles, i) > DownMove(candles, i) /\ UpMove(candles, i) > 0
        THEN Whole(UpMove(candles, i)) ELSE Zero]

MinusMove(candles) ==
    [i \in DOMAIN candles |->
        IF i > 1 /\ DownMove(candles, i) > UpMove(candles, i) /\ DownMove(candles, i) > 0
        THEN Whole(DownMove(candles, i)) ELSE Zero]

(* _directional_index *)
DirectionalIndex(move, range) ==
    IF range = Zero THEN Zero ELSE Over(Times(Whole(100), move), range)

(* _dx_value *)
DxValue(plus, minus) ==
    LET total == Plus(plus, minus)
    IN  IF total = Zero THEN Zero ELSE Over(Times(Whole(100), Size(Minus(plus, minus))), total)

adx(candles, period) ==
    LET range == WilderSum(TrueRange(candles), period)
        up == WilderSum(PlusMove(candles), period)
        down == WilderSum(MinusMove(candles), period)
        enough == Len(candles) >= 2 * period
        Index(move) ==
            [i \in DOMAIN candles |->
                IF ~enough \/ i <= period THEN NoValue ELSE DirectionalIndex(move[i], range[i])]
        plus == Index(up)
        minus == Index(down)
        dx == [i \in DOMAIN candles |->
                IF ~enough \/ i <= period THEN Zero ELSE DxValue(plus[i], minus[i])]
    IN  [plus |-> plus, minus |-> minus,
         adx |-> IF enough THEN WilderMean(dx, period, period + 1)
                 ELSE [i \in DOMAIN candles |-> NoValue]]

----------------------------------------------------------------------------
(* Support and resistance. *)

(* _is_pivot_high, _is_pivot_low *)
PivotHigh(candles, i, lookback) ==
    LET near == (i - lookback)..(i + lookback)
    IN  /\ \A j \in near : candles[i].high >= candles[j].high
        /\ \E j \in near : candles[i].high > candles[j].high

PivotLow(candles, i, lookback) ==
    LET near == (i - lookback)..(i + lookback)
    IN  /\ \A j \in near : candles[i].low <= candles[j].low
        /\ \E j \in near : candles[i].low < candles[j].low

(* The highs and lows, candle by candle: the high of candle i at 2 * i - 1, its
   low at 2 * i. *)
CandleOf(j) == (j + 1) \div 2
Extremes(candles) ==
    [j \in 1..(2 * Len(candles)) |->
        IF j % 2 = 1 THEN candles[CandleOf(j)].high ELSE candles[CandleOf(j)].low]

(* _swing_pivots *)
Pivots(candles, lookback) ==
    Picked(Extremes(candles),
           {j \in 1..(2 * Len(candles)) :
               /\ CandleOf(j) \in (lookback + 1)..(Len(candles) - lookback)
               /\ IF j % 2 = 1 THEN PivotHigh(candles, CandleOf(j), lookback)
                  ELSE PivotLow(candles, CandleOf(j), lookback)})

(* _within_pct *)
WithinPct(price, reference, pct) ==
    IF reference = Zero THEN price = Zero
    ELSE Leq(Times(Whole(100), Size(Minus(price, reference))), Times(Whole(pct), Size(reference)))

(* Two prices, or a level and a price, make the level between them. *)
Merged(level, price) == Over(Plus(level, price), Whole(2))

(* A price joins the level before it, or becomes one. *)
LevelStep(price, pct) ==
    [levels \in Seq(Fractions) |->
        IF levels # <<>> /\ WithinPct(price, Last(levels), pct)
        THEN Front(levels) \o <<Merged(Last(levels), price)>>
        ELSE Append(levels, price)]

Grouped(prices, pct) ==
    Loop(<<>>, 0, [i \in DOMAIN prices |-> LevelStep(Whole(prices[i]), pct)])[Len(prices)]

(* Mutant: the pivots are taken in the order of time. *)
ClusteredUnsorted(pivots, pct) == Grouped(pivots, pct)

(* _cluster_levels: in ascending order. *)
Clustered(pivots, pct) == Grouped(Sorted(pivots), pct)

(* s[:n], which leaves out the last -n if n is negative. *)
Sliced(s, n) == SubSeq(s, 1, IF n < 0 THEN Len(s) + n ELSE IF n < Len(s) THEN n ELSE Len(s))

(* The nearest to the close first, max_levels on each side. *)
support_resistance(candles, lookback, pct, maxLevels) ==
    LET levels == Clustered(Pivots(candles, lookback), pct)
        lower == {i \in DOMAIN levels : Less(levels[i], Whole(Last(candles).close))}
    IN  [supports |-> Sliced(Reverse(Picked(levels, lower)), maxLevels),
         resistances |-> Sliced(Picked(levels, DOMAIN levels \ lower), maxLevels)]

(* FIB_RATIOS, in thousandths *)
FibRatios == {0, 236, 382, 500, 618, 786, 1000}

fib_levels(high, low) ==
    [r \in FibRatios |-> Minus(Whole(high), Times(Whole(high - low), Frac(r, 1000)))]

last_value(s) ==
    LET known == {i \in DOMAIN s : s[i] # NoValue}
    IN  IF known = {} THEN NoValue ELSE s[CHOOSE i \in known : \A j \in known : j <= i]
=============================================================================
