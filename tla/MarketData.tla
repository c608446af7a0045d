----------------------------- MODULE MarketData -----------------------------
(***************************************************************************)
(* analyze: candles of one pair and timeframe from the cache or from the   *)
(* data exchange, and the indicator snapshot computed over them, while the *)
(* market goes on trading.                                                 *)
(*                                                                         *)
(* A tick is a trade; a bar of TicksPerBar ticks is a candle.  The newest  *)
(* candle of the venue is still forming until its last tick.               *)
(***************************************************************************)
EXTENDS Indicators

CONSTANTS
    Prices,       \* what a tick may trade at
    TicksPerBar,
    OhlcvLimit,   \* ohlcv_limit
    Settings,     \* the parameters of the indicators (indicators.toml)
    MaxMove,      \* bound: how far a tick is from the one before
    MaxTicks      \* bound: ticks

ASSUME MarketAssumption ==
    /\ Prices \subseteq Nat \ {0} /\ Prices # {}
    /\ TicksPerBar \in Nat \ {0} /\ OhlcvLimit \in Nat \ {0}
    /\ MaxMove \in Nat /\ MaxTicks \in Nat \ {0}
    /\ \A p \in {"rsi", "fast", "slow", "signal", "ema", "bollinger", "adx", "atr", "volume", "lookback"} :
          Settings[p] \in Nat \ {0}
    /\ Settings.cluster \in Int /\ Settings.maxLevels \in Int

VARIABLES
    now,      \* the newest tick, counted from 0
    bars,     \* the venue's candles: [open, high, low, close, volume]
    cache,    \* the candles of the cache file
    shown     \* what analyze shows at this moment: [ok, stale, candles]

vars == <<now, bars, cache, shown>>

(* CACHE_STALE_FACTOR *)
StaleFactor == 2

NotShown == [ok |-> FALSE, stale |-> FALSE]

NewBar(tick, p) == [open |-> tick, high |-> p, low |-> p, close |-> p, volume |-> 1]

Traded(bar, p) ==
    [bar EXCEPT !.high = IF p > @ THEN p ELSE @, !.low = IF p < @ THEN p ELSE @,
                !.close = p, !.volume = @ + 1]

Init ==
    /\ now = 0
    /\ \E p \in Prices : bars = <<NewBar(0, p)>>
    /\ cache = <<>>
    /\ shown = NotShown

(* A trade at the venue. *)
Tick ==
    /\ now < MaxTicks   \* bound
    /\ now' = now + 1
    /\ \E p \in Prices :
        /\ Magnitude(p - Last(bars).close) <= MaxMove   \* bound
        /\ bars' = IF now' % TicksPerBar = 0 THEN Append(bars, NewBar(now', p))
                   ELSE Front(bars) \o <<Traded(Last(bars), p)>>
    /\ shown' = NotShown
    /\ UNCHANGED cache

(* fetch_ohlcv: the newest candles, the forming one among them. *)
Fetched == SubSeq(bars, IF Len(bars) > OhlcvLimit THEN Len(bars) - OhlcvLimit + 1 ELSE 1, Len(bars))

(* Mutant: the age is taken to be that of the close. *)
FreshByClose(candles) ==
    candles # <<>> /\ now - (Last(candles).open + TicksPerBar) < TicksPerBar * StaleFactor

(* is_fresh *)
IsFresh(candles) ==
    candles # <<>> /\ now - Last(candles).open < TicksPerBar * StaleFactor

----------------------------------------------------------------------------
(* The snapshot (_build). *)

HighestOf(candles) ==
    CHOOSE v \in {candles[i].high : i \in DOMAIN candles} :
        \A i \in DOMAIN candles : candles[i].high <= v

LowestOf(candles) ==
    CHOOSE v \in {candles[i].low : i \in DOMAIN candles} :
        \A i \in DOMAIN candles : v <= candles[i].low

(* Every series the snapshot takes its latest value of. *)
Lines(candles) ==
    LET closes == Column(candles, "close")
        m == macd(closes, Settings.fast, Settings.slow, Settings.signal)
        b == bollinger(closes, Settings.bollinger)
        d == adx(candles, Settings.adx)
    IN  [rsi |-> rsi(closes, Settings.rsi),
         ema |-> ema(closes, Settings.ema),
         macd |-> m.line, signal |-> m.signal, histogram |-> m.histogram,
         middle |-> b.middle, variance |-> b.variance,
         atr |-> atr(candles, Settings.atr),
         adx |-> d.adx, plus |-> d.plus, minus |-> d.minus,
         volume |-> sma(Column(candles, "volume"), Settings.volume)]

LineNames ==
    {"rsi", "ema", "macd", "signal", "histogram", "middle", "variance", "atr", "adx", "plus",
     "minus", "volume"}

LevelsOf(candles) ==
    support_resistance(candles, Settings.lookback, Settings.cluster, Settings.maxLevels)

Snapshot(candles) ==
    [asOf |-> Last(candles).open,
     count |-> Len(candles),
     close |-> Last(candles).close,
     latest |-> [l \in LineNames |-> last_value(Lines(candles)[l])],
     fib |-> fib_levels(HighestOf(candles), LowestOf(candles)),
     levels |-> LevelsOf(candles)]

----------------------------------------------------------------------------
(* analyze, for one timeframe (_load). *)

Show(candles, stale) == shown' = [ok |-> TRUE, stale |-> stale, candles |-> candles]

CacheHit ==
    /\ IsFresh(cache)
    /\ Show(cache, FALSE)
    /\ UNCHANGED <<now, bars, cache>>

(* The answer replaces the cache, whole. *)
Refetch ==
    /\ ~IsFresh(cache)
    /\ cache' = Fetched
    /\ Show(Fetched, FALSE)
    /\ UNCHANGED <<now, bars>>

(* The data exchange does not answer: the old candles, flagged; with
   --require-fresh, or without any, nothing. *)
Unreachable ==
    /\ ~IsFresh(cache)
    /\ cache # <<>>
    /\ Show(cache, TRUE)
    /\ UNCHANGED <<now, bars, cache>>

Next == Tick \/ CacheHit \/ Refetch \/ Unreachable

Spec == Init /\ [][Next]_vars

----------------------------------------------------------------------------
(* Properties. *)

VenueCandle(k) == bars[k.open \div TicksPerBar + 1]

(* A snapshot that is not flagged stale lacks no closed candle but the one
   before the forming one, which may be there as it was while it formed: all
   its other candles are the venue's own (is_fresh, _load). *)
UnflaggedIsCurrent ==
    (shown.ok /\ ~shown.stale) =>
        /\ Last(cache).open > now - 2 * TicksPerBar
        /\ \A i \in DOMAIN Front(cache) : cache[i] = VenueCandle(cache[i])
        /\ \A i \in 2..Len(cache) : cache[i].open = cache[i - 1].open + TicksPerBar

(* What was computed for a closed candle stays as it was when the series grows
   by later candles; only the newest, forming candle repaints.  The directional
   indexes appear, all at once, with the first value of the adx. *)
NoRepaint ==
    (cache # <<>> /\ cache # Fetched /\ cache[1] = Fetched[1]) =>
        \A before \in {Lines(cache)}, after \in {Lines(Fetched)} :
            \A l \in LineNames, i \in DOMAIN Front(cache) :
                \/ before[l][i] = after[l][i]
                \/ /\ l \in {"plus", "minus"} /\ Len(cache) < 2 * Settings.adx
                   /\ before[l][i] = NoValue

(* The documented first positions: "the first valid value is at index period"
   of rsi and atr, "index 2 * period - 1" of adx; the macd waits for the slower
   of its averages. *)
Slower == IF Settings.fast > Settings.slow THEN Settings.fast ELSE Settings.slow

WarmUp == [rsi |-> Settings.rsi, ema |-> Settings.ema - 1, macd |-> Slower - 1,
           signal |-> Slower + Settings.signal - 2,
           atr |-> Settings.atr, adx |-> 2 * Settings.adx - 1]

In(v, low, high) == v = NoValue \/ (Leq(Whole(low), v) /\ Leq(v, Whole(high)))

(* An indicator has a value from its documented position on, and not before;
   the oscillators keep to 0..100, the two directional indexes together as
   well; averages of prices and retracements stay within the range the candles
   have traded in, the true range and the variance within what it allows. *)
IndicatorsInRange ==
    shown.ok => \A s \in {Snapshot(shown.candles)} :
        LET v == s.latest
            high == HighestOf(shown.candles)
            low == LowestOf(shown.candles)
        IN  /\ \A l \in DOMAIN WarmUp : v[l] # NoValue <=> s.count > WarmUp[l]
            /\ \A l \in {"rsi", "adx", "plus", "minus"} : In(v[l], 0, 100)
            /\ v.plus # NoValue => In(Plus(v.plus, v.minus), 0, 100)
            /\ \A l \in {"ema", "middle"} : In(v[l], low, high)
            /\ In(v.atr, 0, high - low) /\ In(v.variance, 0, (high - low) * (high - low))
            /\ \A r \in FibRatios : In(s.fib[r], low, high)

Ascend(s) == \A i \in 1..(Len(s) - 1) : Less(s[i], s[i + 1])

(* Whatever was merged, each level lies within the range the candles have
   traded in, supports below the close and resistances not, each side nearest
   first, and no level is within cluster_pct of the next (support_resistance). *)
LevelsApart ==
    shown.ok => \A v \in {LevelsOf(shown.candles)} :
        LET close == Whole(Last(shown.candles).close)
            levels == Reverse(v.supports) \o v.resistances
        IN  /\ \A i \in DOMAIN levels :
                  In(levels[i], LowestOf(shown.candles), HighestOf(shown.candles))
            /\ \A i \in DOMAIN v.supports : Less(v.supports[i], close)
            /\ \A i \in DOMAIN v.resistances : Leq(close, v.resistances[i])
            /\ Settings.cluster >= 0 => Ascend(levels)
            /\ \A i \in 1..(Len(levels) - 1) : ~WithinPct(levels[i + 1], levels[i], Settings.cluster)
=============================================================================
