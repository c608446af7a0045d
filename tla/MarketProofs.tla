----------------------------- MODULE MarketProofs -----------------------------
(***************************************************************************)
(* Proofs that a snapshot which is not flagged is current, that what was   *)
(* computed for a closed candle stays, that the indicators keep to their   *)
(* ranges and that the levels of support and resistance keep apart, for    *)
(* candles of any length, any market, any limit on what is fetched and any *)
(* settings.                                                               *)
(***************************************************************************)
EXTENDS MarketData, Lemmas, SequenceTheorems

(* What a candle is. *)
Candle == [open : Nat, high : Nat, low : Nat, close : Nat, volume : Nat]

(* The tick the k-th candle after the first begins with. *)
Start(k) == k * TicksPerBar

(* The venue's candles follow each other from the first tick to the newest. *)
BarFrame ==
    /\ now \in Nat
    /\ bars \in Seq(Candle) /\ Len(bars) \in Nat \ {0}
    /\ \A i \in 1..Len(bars) : bars[i].open = Start(i - 1)
    /\ Start(Len(bars) - 1) <= now /\ now < Start(Len(bars))

(* The cache holds the candles of the venue after its first d, all but the last
   one closed and as the venue has them. *)
CachedFrom(d) ==
    /\ Len(cache) + d <= Len(bars)
    /\ \A i \in 1..(Len(cache) - 1) : cache[i] = bars[i + d]
    /\ cache[Len(cache)].open = Start(Len(cache) + d - 1)

(* So it is with every cache. *)
CacheFrame ==
    cache # <<>> => cache \in Seq(Candle) /\ Len(cache) \in Nat \ {0} /\ \E d \in Nat : CachedFrom(d)

(* What is shown without a flag is from the cache, and that is fresh. *)
ShownFrame ==
    (shown.ok /\ ~shown.stale) =>
        cache # <<>> /\ cache[Len(cache)].open > now - 2 * TicksPerBar

(* The invariant. *)
MarketInv == BarFrame /\ CacheFrame /\ ShownFrame

----------------------------------------------------------------------------
(* Arithmetic of candle lengths. *)

(* Of two numbers of candles the larger takes at least a candle longer. *)
LEMMA Monotone ==
  ASSUME NEW T \in Nat \ {0}, NEW m \in Int, NEW n \in Int, m < n
  PROVE  m * T + T <= n * T
<1>1. n - m - 1 >= 0 /\ n - m - 1 \in Nat
  OBVIOUS
<1>2. (n - m - 1) * T >= 0
  BY <1>1
<1>3. (n - m - 1) * T = n * T - m * T - T
  OBVIOUS
<1> QED
  BY <1>2, <1>3

(* Whole candles leave no remainder. *)
LEMMA WholeBars ==
  ASSUME NEW T \in Nat \ {0}, NEW m \in Nat
  PROVE  (m * T) \div T = m /\ (m * T) % T = 0
OBVIOUS

(* The tick after the last of a candle is the next multiple of its length. *)
LEMMA NextBar ==
  ASSUME NEW T \in Nat \ {0}, NEW n \in Nat \ {0}, NEW x \in Nat,
         (n - 1) * T < x, x <= n * T
  PROVE  x % T = 0 <=> x = n * T
<1>1. PICK q \in Nat : x = q * T + (x % T)
  <2>1. x \div T \in Nat /\ x = (x \div T) * T + (x % T)
    OBVIOUS
  <2> QED
    BY <2>1
<1>2. ASSUME x % T = 0 PROVE x = n * T
  <2>1. ~(q < n)
    <3>1. ASSUME q < n PROVE FALSE
      <4>1. q = n - 1 \/ q < n - 1
        BY <3>1
      <4>2. CASE q = n - 1
        BY <1>1, <1>2, <4>2
      <4>3. CASE q < n - 1
        <5>1. q * T + T <= (n - 1) * T
          BY <4>3, Monotone
        <5> QED
          BY <1>1, <1>2, <5>1
      <4> QED
        BY <4>1, <4>2, <4>3
    <3> QED
      BY <3>1
  <2>2. ~(n < q)
    <3>1. ASSUME n < q PROVE FALSE
      <4>1. n * T + T <= q * T
        BY <3>1, Monotone
      <4> QED
        BY <1>1, <1>2, <4>1
    <3> QED
      BY <3>1
  <2>3. q = n
    BY <2>1, <2>2
  <2> QED
    BY <1>1, <1>2, <2>3
<1>3. ASSUME x = n * T PROVE x % T = 0
  BY <1>3, WholeBars
<1> QED
  BY <1>2, <1>3

(* Candles start one length apart, and the start tells the candle. *)
LEMMA Starts ==
  /\ Start(0) = 0
  /\ \A k \in Nat : Start(k) \in Nat /\ Start(k + 1) = Start(k) + TicksPerBar
  /\ \A k \in Nat \ {0} : Start(k) = Start(k - 1) + TicksPerBar
  /\ \A k \in Nat : Start(k) \div TicksPerBar = k
<1> USE MarketAssumption DEF Start
<1>1. \A k \in Nat : Start(k) \in Nat /\ Start(k + 1) = Start(k) + TicksPerBar
  <2> TAKE k \in Nat
  <2> QED
    OBVIOUS
<1>2. ASSUME NEW k \in Nat \ {0} PROVE Start(k) = Start(k - 1) + TicksPerBar
  OBVIOUS
<1>3. \A k \in Nat : Start(k) \div TicksPerBar = k
  BY WholeBars
<1> QED
  BY <1>1, <1>2, <1>3

----------------------------------------------------------------------------

(* Part of a list of candles. *)
LEMMA Part ==
  ASSUME NEW s, NEW m \in Nat, NEW n \in Nat, m <= n + 1, \A i \in m..n : s[i] \in Candle
  PROVE  /\ SubSeq(s, m, n) \in Seq(Candle)
         /\ Len(SubSeq(s, m, n)) = n - m + 1
         /\ \A i \in 1..(n - m + 1) : SubSeq(s, m, n)[i] = s[m + i - 1]
<1>1. m \in Int /\ n \in Int
  OBVIOUS
<1>2. /\ SubSeq(s, m, n) \in Seq(Candle)
      /\ Len(SubSeq(s, m, n)) = IF m <= n THEN n - m + 1 ELSE 0
      /\ \A i \in 1 .. n-m+1 : SubSeq(s, m, n)[i] = s[m+i-1]
  BY <1>1, SubSeqProperties
<1> QED
  BY <1>2

(* A trade leaves the start of its candle alone. *)
LEMMA TradedKeepsOpen ==
  ASSUME NEW bar \in Candle, NEW p \in Nat
  PROVE  Traded(bar, p) \in Candle /\ Traded(bar, p).open = bar.open
<1>1. /\ (IF p > bar.high THEN p ELSE bar.high) \in Nat
      /\ (IF p < bar.low THEN p ELSE bar.low) \in Nat
      /\ bar.volume + 1 \in Nat
  BY DEF Candle
<1>2. Traded(bar, p) = [open |-> bar.open,
                        high |-> IF p > bar.high THEN p ELSE bar.high,
                        low |-> IF p < bar.low THEN p ELSE bar.low,
                        close |-> p, volume |-> bar.volume + 1]
  <2>1. bar = [open |-> bar.open, high |-> bar.high, low |-> bar.low,
               close |-> bar.close, volume |-> bar.volume]
    BY DEF Candle
  <2> DEFINE high == IF p > bar.high THEN p ELSE bar.high
             low == IF p < bar.low THEN p ELSE bar.low
             volume == bar.volume + 1
  <2>2. Traded(bar, p) = [bar EXCEPT !.high = high, !.low = low, !.close = p, !.volume = volume]
    BY DEF Traded
  <2> HIDE DEF high, low, volume
  <2>3. Traded(bar, p) = [open |-> bar.open, high |-> high, low |-> low, close |-> p, volume |-> volume]
    BY <2>1, <2>2
  <2> QED
    BY <2>3 DEF high, low, volume
<1> QED
  BY <1>1, <1>2 DEF Candle

(* It holds with the first candle. *)
LEMMA InitMarket ==
  ASSUME Init
  PROVE  MarketInv
<1>1. PICK p \in Prices : bars = <<NewBar(0, p)>>
  BY DEF Init
<1>2. NewBar(0, p) \in Candle /\ NewBar(0, p).open = 0
  BY MarketAssumption DEF NewBar, Candle
<1>3. /\ bars \in Seq(Candle) /\ Len(bars) = 1
      /\ \A i \in 1..Len(bars) : bars[i].open = 0 /\ i - 1 = 0
  BY <1>1, <1>2
<1>4. Start(1) = TicksPerBar
  BY MarketAssumption DEF Start
<1>5. BarFrame
  <2>1. now = 0 /\ TicksPerBar \in Nat \ {0} /\ Start(0) = 0
    BY Starts, MarketAssumption DEF Init
  <2>2. Len(bars) \in Nat \ {0} /\ Len(bars) - 1 = 0
    BY <1>3
  <2>3. \A i \in 1..Len(bars) : bars[i].open = Start(i - 1)
    BY <1>3, <2>1
  <2>4. Start(Len(bars) - 1) <= now /\ now < Start(Len(bars))
    BY <1>3, <1>4, <2>1, <2>2
  <2> QED
    BY <1>3, <2>1, <2>2, <2>3, <2>4 DEF BarFrame
<1> QED
  BY <1>5 DEF Init, MarketInv, CacheFrame, ShownFrame, NotShown

(* A trade: the forming candle changes, or a new one begins. *)
LEMMA TickMoves ==
  ASSUME BarFrame, Tick
  PROVE  /\ BarFrame' /\ Len(bars) <= Len(bars')
         /\ \A i \in 1..(Len(bars) - 1) : bars'[i] = bars[i]
<1> DEFINE n == Len(bars)
<1>1. PICK p \in Prices :
        bars' = IF now' % TicksPerBar = 0 THEN Append(bars, NewBar(now', p))
                ELSE Front(bars) \o <<Traded(Last(bars), p)>>
  BY DEF Tick
<1>2. /\ p \in Nat /\ TicksPerBar \in Nat \ {0} /\ n \in Nat \ {0} /\ bars \in Seq(Candle)
      /\ now \in Nat /\ now' = now + 1 /\ now' \in Nat
  BY MarketAssumption DEF Tick, BarFrame
<1>3. Start(n - 1) < now' /\ now' <= Start(n)
  <2>1. n - 1 \in Nat
    BY <1>2
  <2>2. Start(n - 1) \in Nat /\ Start(n) \in Nat
    BY <1>2, <2>1, Starts
  <2>3. Start(n - 1) <= now /\ now < Start(n)
    BY DEF BarFrame
  <2> QED
    BY <1>2, <2>2, <2>3
<1>4. now' % TicksPerBar = 0 <=> now' = Start(n)
  BY <1>2, <1>3, NextBar DEF Start
<1>5. Start(n + 1) = Start(n) + TicksPerBar /\ Start(n) \in Nat /\ Start(n - 1) \in Nat
  BY <1>2, Starts
<1>6. \A i \in 1..n : bars[i] \in Candle /\ bars[i].open = Start(i - 1)
  BY <1>2, ElementOfSeq DEF BarFrame
<1>7. CASE now' % TicksPerBar = 0
  <2> DEFINE bar == NewBar(now', p)
  <2>1. bar \in Candle /\ bar.open = now'
    BY <1>2 DEF NewBar, Candle
  <2>2. bars' = Append(bars, bar)
    BY <1>1, <1>7
  <2> HIDE DEF bar
  <2>3. /\ bars' \in Seq(Candle) /\ Len(bars') = n + 1
        /\ \A i \in 1..n : bars'[i] = bars[i]
        /\ bars'[n + 1] = bar
    BY <1>2, <2>1, <2>2
  <2>4. \A i \in 1..(n + 1) : bars'[i].open = Start(i - 1)
    <3> TAKE i \in 1..(n + 1)
    <3>1. CASE i \in 1..n
      BY <1>6, <2>3, <3>1
    <3>2. CASE i = n + 1
      <4>1. i - 1 = n
        BY <1>2, <3>2
      <4> QED
        BY <1>4, <1>7, <2>1, <2>3, <3>2, <4>1
    <3> QED
      BY <1>2, <3>1, <3>2
  <2>5. n + 1 - 1 = n /\ n + 1 \in Nat \ {0} /\ n <= n + 1 /\ 1..(n - 1) \subseteq 1..n
    BY <1>2
  <2>6. Start(n + 1 - 1) <= now' /\ now' < Start(n + 1)
    BY <1>2, <1>4, <1>5, <1>7, <2>5
  <2> QED
    BY <1>2, <2>3, <2>4, <2>5, <2>6 DEF BarFrame
<1>8. CASE now' % TicksPerBar # 0
  <2> DEFINE bar == Traded(bars[n], p)
             front == SubSeq(bars, 1, n - 1)
  <2>1. bar \in Candle /\ bar.open = Start(n - 1)
    <3>1. bars[n] \in Candle /\ bars[n].open = Start(n - 1)
      BY <1>2, <1>6
    <3> QED
      BY <1>2, <3>1, TradedKeepsOpen
  <2>2. bars' = front \o <<bar>>
    BY <1>1, <1>8 DEF Last, Front
  <2>3. /\ front \in Seq(Candle) /\ Len(front) = n - 1
        /\ \A i \in 1..(n - 1) : front[i] = bars[i]
    <3>1. \A i \in 1..(n - 1) : bars[i] \in Candle
      BY <1>2, <1>6
    <3>2. 1 \in Nat /\ n - 1 \in Nat /\ 1 <= n - 1 + 1 /\ n - 1 - 1 + 1 = n - 1
      BY <1>2
    <3>3. /\ front \in Seq(Candle) /\ Len(front) = n - 1
          /\ \A i \in 1..(n - 1) : front[i] = bars[1 + i - 1]
      BY <3>1, <3>2, Part
    <3> QED
      BY <3>3
  <2> HIDE DEF bar, front
  <2>4. /\ bars' \in Seq(Candle) /\ Len(bars') = n
        /\ \A i \in 1..(n - 1) : bars'[i] = bars[i]
        /\ bars'[n] = bar
    <3>1. <<bar>> \in Seq(Candle) /\ Len(<<bar>>) = 1 /\ <<bar>>[1] = bar
      BY <2>1
    <3>2. /\ bars' \in Seq(Candle) /\ Len(bars') = n - 1 + 1
          /\ \A i \in 1..(n - 1 + 1) : bars'[i] = IF i <= n - 1 THEN front[i] ELSE <<bar>>[i - (n - 1)]
      BY <2>2, <2>3, <3>1, ConcatProperties
    <3> QED
      BY <1>2, <2>3, <3>1, <3>2
  <2>5. \A i \in 1..n : bars'[i].open = Start(i - 1)
    <3> TAKE i \in 1..n
    <3>1. CASE i \in 1..(n - 1)
      BY <1>2, <1>6, <2>4, <3>1
    <3>2. CASE i = n
      BY <2>1, <2>4, <3>2
    <3> QED
      BY <1>2, <3>1, <3>2
  <2>6. Start(n - 1) <= now' /\ now' < Start(n)
    BY <1>2, <1>3, <1>4, <1>5, <1>8
  <2> QED
    BY <1>2, <2>4, <2>5, <2>6 DEF BarFrame
<1> QED
  BY <1>7, <1>8

(* A trade leaves the cache as it was: its candles were closed ones, or stay as
   old as they were. *)
LEMMA TickKeepsCache ==
  ASSUME MarketInv, Tick
  PROVE  MarketInv'
<1>1. /\ BarFrame' /\ Len(bars) <= Len(bars')
      /\ \A i \in 1..(Len(bars) - 1) : bars'[i] = bars[i]
  BY TickMoves DEF MarketInv
<1>2. cache' = cache /\ shown' = NotShown
  BY DEF Tick
<1>3. ASSUME cache # <<>>, NEW d \in Nat, CachedFrom(d)
      PROVE  CachedFrom(d)'
  <2>1. Len(cache) \in Nat \ {0} /\ Len(bars) \in Nat /\ Len(bars') \in Nat
    BY <1>1, <1>3 DEF MarketInv, CacheFrame, BarFrame
  <2>2. ASSUME NEW i \in 1..(Len(cache) - 1) PROVE cache[i] = bars'[i + d]
    <3>1. i + d \in 1..(Len(bars) - 1)
      BY <1>3, <2>1 DEF CachedFrom
    <3> QED
      BY <1>1, <1>3, <3>1 DEF CachedFrom
  <2> QED
    BY <1>1, <1>2, <1>3, <2>1, <2>2 DEF CachedFrom
<1>4. CacheFrame'
  BY <1>2, <1>3 DEF MarketInv, CacheFrame
<1>5. ShownFrame'
  BY <1>2 DEF ShownFrame, NotShown
<1> QED
  BY <1>1, <1>4, <1>5 DEF MarketInv

(* What is fetched ends with the forming candle. *)
LEMMA FetchedTail ==
  ASSUME BarFrame
  PROVE  /\ Fetched \in Seq(Candle) /\ Len(Fetched) \in Nat \ {0}
         /\ \E d \in Nat : /\ Len(Fetched) + d = Len(bars)
                          /\ \A i \in 1..Len(Fetched) : Fetched[i] = bars[i + d]
<1> DEFINE n == Len(bars)
           d == IF n > OhlcvLimit THEN n - OhlcvLimit ELSE 0
<1>1. /\ n \in Nat \ {0} /\ bars \in Seq(Candle) /\ OhlcvLimit \in Nat \ {0}
      /\ d \in Nat /\ d + 1 <= n
  BY MarketAssumption DEF BarFrame
<1>2. Fetched = SubSeq(bars, d + 1, n)
  BY <1>1 DEF Fetched
<1>3. \A i \in (d + 1)..n : bars[i] \in Candle
  BY <1>1, ElementOfSeq
<1> HIDE DEF d
<1>4. /\ Fetched \in Seq(Candle)
      /\ Len(Fetched) = n - (d + 1) + 1
      /\ \A i \in 1..(n - (d + 1) + 1) : Fetched[i] = bars[d + 1 + i - 1]
  <2>1. d + 1 \in Nat /\ n \in Nat /\ d + 1 <= n + 1
    BY <1>1
  <2> QED
    BY <1>2, <1>3, <2>1, Part
<1> QED
  BY <1>1, <1>4

(* The answer becomes the cache; its last candle is the newest there is. *)
LEMMA RefetchKeeps ==
  ASSUME MarketInv, Refetch
  PROVE  MarketInv'
<1>1. BarFrame /\ cache' = Fetched /\ now' = now /\ bars' = bars
  BY DEF MarketInv, Refetch
<1>2. PICK d \in Nat : /\ Len(Fetched) + d = Len(bars)
                       /\ \A i \in 1..Len(Fetched) : Fetched[i] = bars[i + d]
  BY <1>1, FetchedTail
<1>3. /\ Fetched \in Seq(Candle) /\ Len(Fetched) \in Nat \ {0}
      /\ Len(bars) \in Nat \ {0} /\ now \in Nat /\ TicksPerBar \in Nat \ {0}
  BY <1>1, FetchedTail, MarketAssumption DEF BarFrame
<1>4. Fetched # <<>>
  BY <1>3
<1>5. Fetched[Len(Fetched)].open = Start(Len(bars) - 1)
  <2>1. Len(Fetched) \in 1..Len(Fetched) /\ Len(bars) \in 1..Len(bars)
    BY <1>3
  <2> QED
    BY <1>1, <1>2, <2>1 DEF BarFrame
<1>6. CachedFrom(d)'
  <2>1. Len(Fetched) + d - 1 = Len(bars) - 1 /\ Len(Fetched) + d <= Len(bars)
    BY <1>2, <1>3
  <2>2. \A i \in 1..(Len(Fetched) - 1) : Fetched[i] = bars[i + d]
    BY <1>2, <1>3
  <2> QED
    BY <1>1, <1>5, <2>1, <2>2 DEF CachedFrom
<1>7. CacheFrame'
  BY <1>1, <1>3, <1>6 DEF CacheFrame
<1>8. Start(Len(bars) - 1) > now - 2 * TicksPerBar
  <2>1. Len(bars) - 1 \in Nat /\ Start(Len(bars)) = Start(Len(bars) - 1) + TicksPerBar
    BY <1>3, Starts
  <2>2. Start(Len(bars) - 1) \in Nat
    BY <2>1, Starts
  <2> QED
    BY <1>1, <1>3, <2>1, <2>2 DEF BarFrame
<1>9. ShownFrame'
  BY <1>1, <1>4, <1>5, <1>8 DEF ShownFrame
<1> QED
  BY <1>1, <1>7, <1>9 DEF MarketInv, BarFrame

(* A fresh cache is shown as it is. *)
LEMMA CacheHitKeeps ==
  ASSUME MarketInv, CacheHit
  PROVE  MarketInv'
<1>1. UNCHANGED <<now, bars, cache>>
  BY DEF CacheHit
<1>2. cache # <<>> /\ now - cache[Len(cache)].open < TicksPerBar * 2
  BY DEF CacheHit, IsFresh, Last, StaleFactor
<1>3. PICK d \in Nat : CachedFrom(d)
  BY <1>2 DEF MarketInv, CacheFrame
<1>4. cache[Len(cache)].open \in Nat /\ now \in Nat /\ TicksPerBar \in Nat
  <2>1. Len(cache) \in Nat \ {0} /\ now \in Nat /\ TicksPerBar \in Nat
    BY <1>2, MarketAssumption DEF MarketInv, CacheFrame, BarFrame
  <2>2. Len(cache) + d - 1 \in Nat
    BY <2>1
  <2> QED
    BY <1>3, <2>1, <2>2, Starts DEF CachedFrom
<1>5. cache[Len(cache)].open > now - 2 * TicksPerBar
  BY <1>2, <1>4
<1>6. ShownFrame'
  BY <1>1, <1>2, <1>5 DEF ShownFrame
<1> QED
  BY <1>1, <1>6 DEF MarketInv, BarFrame, CacheFrame, CachedFrom

(* Old candles are shown flagged. *)
LEMMA UnreachableKeeps ==
  ASSUME MarketInv, Unreachable
  PROVE  MarketInv'
<1>1. UNCHANGED <<now, bars, cache>> /\ shown'.stale
  BY DEF Unreachable, Show
<1>2. ShownFrame'
  BY <1>1 DEF ShownFrame
<1> QED
  BY <1>1, <1>2 DEF MarketInv, BarFrame, CacheFrame, CachedFrom

(* MarketInv says what UnflaggedIsCurrent asks for. *)
LEMMA CurrentFromInv ==
  ASSUME MarketInv
  PROVE  UnflaggedIsCurrent
<1> SUFFICES ASSUME shown.ok /\ ~shown.stale
             PROVE  /\ Last(cache).open > now - 2 * TicksPerBar
                    /\ \A i \in DOMAIN Front(cache) : cache[i] = VenueCandle(cache[i])
                    /\ \A i \in 2..Len(cache) : cache[i].open = cache[i - 1].open + TicksPerBar
  BY DEF UnflaggedIsCurrent
<1> DEFINE n == Len(cache)
<1>1. cache # <<>> /\ cache[n].open > now - 2 * TicksPerBar
  BY DEF MarketInv, ShownFrame
<1>2. PICK d \in Nat : CachedFrom(d)
  BY <1>1 DEF MarketInv, CacheFrame
<1>3. /\ n \in Nat \ {0} /\ cache \in Seq(Candle) /\ Len(bars) \in Nat \ {0}
      /\ \A i \in 1..Len(bars) : bars[i].open = Start(i - 1)
  BY <1>1 DEF MarketInv, CacheFrame, BarFrame
<1>4. ASSUME NEW i \in 1..n
      PROVE  i + d - 1 \in Nat /\ cache[i].open = Start(i + d - 1)
  <2>1. i + d - 1 \in Nat
    BY <1>3
  <2>2. CASE i = n
    BY <1>2, <1>3, <2>1, <2>2 DEF CachedFrom
  <2>3. CASE i # n
    <3>1. i \in 1..(n - 1) /\ i + d \in 1..Len(bars)
      BY <1>2, <1>3, <2>3 DEF CachedFrom
    <3>2. cache[i] = bars[i + d]
      BY <1>2, <3>1 DEF CachedFrom
    <3>3. bars[i + d].open = Start(i + d - 1)
      BY <1>3, <3>1
    <3> QED
      BY <2>1, <3>2, <3>3
  <2> QED
    BY <2>2, <2>3
<1>5. DOMAIN Front(cache) = 1..(n - 1)
  <2>1. \A i \in 1..(n - 1) : cache[i] \in Candle
    BY <1>3, ElementOfSeq
  <2>2. 1 \in Nat /\ n - 1 \in Nat /\ 1 <= n - 1 + 1 /\ n - 1 - 1 + 1 = n - 1
    BY <1>3
  <2>3. SubSeq(cache, 1, n - 1) \in Seq(Candle) /\ Len(SubSeq(cache, 1, n - 1)) = n - 1
    BY <2>1, <2>2, Part
  <2> QED
    BY <2>3 DEF Front
<1>6. ASSUME NEW i \in 1..(n - 1) PROVE cache[i] = VenueCandle(cache[i])
  <2>1. i \in 1..n /\ i + d - 1 \in Nat /\ i + d - 1 + 1 = i + d
    BY <1>3
  <2>2. cache[i].open \div TicksPerBar = i + d - 1
    BY <1>4, <2>1, Starts
  <2>3. VenueCandle(cache[i]) = bars[i + d]
    BY <2>1, <2>2 DEF VenueCandle
  <2> QED
    BY <1>2, <2>3 DEF CachedFrom
<1>7. ASSUME NEW i \in 2..n PROVE cache[i].open = cache[i - 1].open + TicksPerBar
  <2>1. i \in 1..n /\ i - 1 \in 1..n /\ i + d - 1 \in Nat \ {0} /\ i - 1 + d - 1 = i + d - 1 - 1
    BY <1>3
  <2>2. cache[i].open = Start(i + d - 1) /\ cache[i - 1].open = Start(i + d - 1 - 1)
    BY <1>4, <2>1
  <2> QED
    BY <2>1, <2>2, Starts
<1> QED
  BY <1>1, <1>5, <1>6, <1>7 DEF Last

(* The invariant holds of every behaviour. *)
LEMMA MarketInvHolds == Spec => []MarketInv
<1>1. Init => MarketInv
  BY InitMarket
<1>2. MarketInv /\ [Next]_vars => MarketInv'
  <2> SUFFICES ASSUME MarketInv, [Next]_vars
               PROVE  MarketInv'
    OBVIOUS
  <2>1. CASE Tick
    BY <2>1, TickKeepsCache
  <2>2. CASE CacheHit
    BY <2>2, CacheHitKeeps
  <2>3. CASE Refetch
    BY <2>3, RefetchKeeps
  <2>4. CASE Unreachable
    BY <2>4, UnreachableKeeps
  <2>5. CASE UNCHANGED vars
    BY <2>5 DEF vars, MarketInv, BarFrame, CacheFrame, CachedFrom, ShownFrame
  <2> QED
    BY <2>1, <2>2, <2>3, <2>4, <2>5 DEF Next
<1> QED
  BY <1>1, <1>2, PTL DEF Spec

(* A snapshot shown without the stale flag lacks no closed candle but the one
   before the forming one, and its candles follow each other without a gap and
   are the venue's own (is_fresh, _load). *)
THEOREM UnflaggedSnapshotIsCurrent == Spec => []UnflaggedIsCurrent
<1>1. MarketInv => UnflaggedIsCurrent
  BY CurrentFromInv
<1> QED
  BY <1>1, MarketInvHolds, PTL

----------------------------------------------------------------------------
(* Lists that agree on their first n elements. *)

(* A function on 1..n, whatever its values. *)
IsList(s) == Len(s) \in Nat /\ DOMAIN s = 1..Len(s)

(* A list with a value at each position of another. *)
Along(f, s) == f = [i \in DOMAIN s |-> f[i]]

(* The first n elements of two lists are the same. *)
Agree(s, t, n) ==
    /\ n \in Nat
    /\ IsList(s) /\ n <= Len(s)
    /\ IsList(t) /\ n <= Len(t)
    /\ \A i \in 1..n : s[i] = t[i]

(* A function on 1..k is a list of length k. *)
LEMMA FunctionIsList ==
  ASSUME NEW k \in Nat, NEW f, f = [i \in 1..k |-> f[i]]
  PROVE  IsList(f) /\ Len(f) = k
<1> DEFINE X == {f[i] : i \in 1..k}
<1>1. f \in [1..k -> X]
  <2>1. \A i \in 1..k : f[i] \in X
    OBVIOUS
  <2> HIDE DEF X
  <2> QED
    BY <2>1
<1> HIDE DEF X
<1>2. f \in Seq(X) /\ Len(f) = k
  BY <1>1
<1> QED
  BY <1>1, <1>2 DEF IsList

(* What is made of each element of a list is a list of the same length. *)
LEMMA AlongIsList ==
  ASSUME NEW s, NEW f, IsList(s), Along(f, s)
  PROVE  IsList(f) /\ Len(f) = Len(s)
<1>1. f = [i \in 1..Len(s) |-> f[i]] /\ Len(s) \in Nat
  BY DEF IsList, Along
<1> QED
  BY <1>1, FunctionIsList

(* What is made of agreeing lists element by element agrees where each element does. *)
LEMMA AgreeAlong ==
  ASSUME NEW n, NEW s, NEW t, Agree(s, t, n), NEW f, NEW g, Along(f, s), Along(g, t),
         \A i \in 1..n : f[i] = g[i]
  PROVE  Agree(f, g, n)
<1>1. IsList(f) /\ Len(f) = Len(s) /\ IsList(g) /\ Len(g) = Len(t)
  BY AlongIsList DEF Agree
<1> QED
  BY <1>1 DEF Agree

(* A part of a list. *)
LEMMA PartOfList ==
  ASSUME NEW s, IsList(s), NEW m \in Nat \ {0}, NEW k \in Nat, k <= Len(s), m <= k + 1
  PROVE  /\ IsList(SubSeq(s, m, k)) /\ Len(SubSeq(s, m, k)) = k - m + 1
         /\ \A i \in 1..(k - m + 1) : SubSeq(s, m, k)[i] = s[m + i - 1]
<1> DEFINE X == {s[i] : i \in m..k}
           p == SubSeq(s, m, k)
<1>1. \A i \in m..k : s[i] \in X
  OBVIOUS
<1>2. m \in Int /\ k \in Int
  OBVIOUS
<1> HIDE DEF X
<1>3. /\ p \in Seq(X)
      /\ Len(p) = IF m <= k THEN k - m + 1 ELSE 0
      /\ \A i \in 1 .. k-m+1 : p[i] = s[m+i-1]
  BY <1>1, <1>2, SubSeqProperties
<1>4. Len(p) = k - m + 1
  BY <1>3
<1>5. IsList(p)
  <2> HIDE DEF p
  <2> QED
    BY <1>3 DEF IsList
<1> QED
  BY <1>3, <1>4, <1>5 DEF X

(* Agreeing lists have the same parts. *)
LEMMA SameParts ==
  ASSUME NEW s, NEW t, NEW n, Agree(s, t, n), NEW m \in Nat \ {0}, NEW k \in Nat, k <= n, m <= k + 1
  PROVE  SubSeq(s, m, k) = SubSeq(t, m, k)
<1> DEFINE X == {s[i] : i \in m..k}
           p == SubSeq(s, m, k)
           q == SubSeq(t, m, k)
<1>1. \A i \in m..k : s[i] = t[i]
  BY DEF Agree
<1>2. p \in Seq(X) /\ q \in Seq(X)
  <2>1. (\A i \in m..k : s[i] \in X) /\ (\A i \in m..k : t[i] \in X)
    BY <1>1
  <2>2. m \in Int /\ k \in Int
    OBVIOUS
  <2> HIDE DEF X
  <2> QED
    BY <2>1, <2>2, SubSeqProperties
<1>3. IsList(s) /\ IsList(t) /\ n \in Nat /\ k <= Len(s) /\ k <= Len(t)
  BY DEF Agree, IsList
<1>4. Len(p) = k - m + 1 /\ \A i \in 1..(k - m + 1) : p[i] = s[m + i - 1]
  BY <1>3, PartOfList
<1>5. Len(q) = k - m + 1 /\ \A i \in 1..(k - m + 1) : q[i] = t[m + i - 1]
  BY <1>2, <1>3, PartOfList
<1>6. \A i \in 1..Len(p) : p[i] = q[i]
  <2> TAKE i \in 1..Len(p)
  <2>1. i \in 1..(k - m + 1) /\ m + i - 1 \in m..k
    BY <1>4
  <2> QED
    BY <1>1, <1>4, <1>5, <2>1
<1> HIDE DEF X, p, q
<1> QED
  BY <1>2, <1>4, <1>5, <1>6, SeqEqual DEF p, q

(* ... and what is behind the same number of elements agrees as well. *)
LEMMA TailsAgree ==
  ASSUME NEW s, NEW t, NEW n, Agree(s, t, n), NEW g \in Nat, g <= n
  PROVE  Agree(SubSeq(s, g + 1, Len(s)), SubSeq(t, g + 1, Len(t)), n - g)
<1>1. /\ n \in Nat /\ IsList(s) /\ IsList(t) /\ Len(s) \in Nat /\ Len(t) \in Nat
      /\ n <= Len(s) /\ n <= Len(t) /\ g + 1 \in Nat \ {0}
  BY DEF Agree, IsList
<1> DEFINE p == SubSeq(s, g + 1, Len(s))
           q == SubSeq(t, g + 1, Len(t))
<1>2. /\ IsList(p) /\ Len(p) = Len(s) - (g + 1) + 1
      /\ \A i \in 1..(Len(s) - (g + 1) + 1) : p[i] = s[(g + 1) + i - 1]
  BY <1>1, PartOfList
<1>3. /\ IsList(q) /\ Len(q) = Len(t) - (g + 1) + 1
      /\ \A i \in 1..(Len(t) - (g + 1) + 1) : q[i] = t[(g + 1) + i - 1]
  BY <1>1, PartOfList
<1> HIDE DEF p, q
<1>4. ASSUME NEW i \in 1..(n - g) PROVE p[i] = q[i]
  <2>1. /\ i \in 1..(Len(s) - (g + 1) + 1) /\ i \in 1..(Len(t) - (g + 1) + 1)
        /\ (g + 1) + i - 1 \in 1..n
    BY <1>1
  <2>2. p[i] = s[(g + 1) + i - 1] /\ q[i] = t[(g + 1) + i - 1]
    BY <1>2, <1>3, <2>1
  <2> QED
    BY <2>1, <2>2 DEF Agree
<1>5. n - g \in Nat /\ n - g <= Len(p) /\ n - g <= Len(q)
  BY <1>1, <1>2, <1>3
<1>6. Agree(p, q, n - g)
  BY <1>2, <1>3, <1>4, <1>5 DEF Agree
<1> QED
  BY <1>6 DEF p, q


----------------------------------------------------------------------------
(* The running averages. *)

(* r is the recursion of Running up to n, and up to any position. *)
RunsTo(r, n, seed, first, step) ==
    r = [i \in 0..n |-> IF i <= first THEN seed ELSE step[i][r[i - 1]]]

Runs(r, seed, first, step) ==
    r = [i \in Nat |-> IF i <= first THEN seed ELSE step[i][r[i - 1]]]

(* The one Running chooses. *)
RunOf(seed, first, step) == CHOOSE r : Runs(r, seed, first, step)

(* Running reads its values off that recursion. *)
LEMMA RunningByRun ==
  ASSUME NEW seed, NEW first, NEW step
  PROVE  Running(seed, first, step) =
           [i \in DOMAIN step |-> IF i < first THEN NoValue ELSE RunOf(seed, first, step)[i]]
BY DEF Running, Loop, RunOf, Runs

(* One step of it. *)
LEMMA RunsAt ==
  ASSUME NEW seed, NEW first, NEW step, NEW r, Runs(r, seed, first, step)
  PROVE  \A i \in Nat : r[i] = IF i <= first THEN seed ELSE step[i][r[i - 1]]
BY DEF Runs

(* Two recursions have the same values as far as both go. *)
LEMMA RunsToUnique ==
  ASSUME NEW seed, NEW first \in Nat, NEW step, NEW m \in Nat, NEW n \in Nat,
         NEW r, NEW q, RunsTo(r, m, seed, first, step), RunsTo(q, n, seed, first, step),
         NEW k \in Nat, k <= m, k <= n
  PROVE  r[k] = q[k]
<1> DEFINE Same == {i \in Nat : i <= m /\ i <= n => r[i] = q[i]}
<1>1. \A i \in 0..m : r[i] = IF i <= first THEN seed ELSE step[i][r[i - 1]]
  BY DEF RunsTo
<1>2. \A i \in 0..n : q[i] = IF i <= first THEN seed ELSE step[i][q[i - 1]]
  BY DEF RunsTo
<1>3. 0 \in Same
  BY <1>1, <1>2
<1>4. ASSUME NEW i \in Nat, i \in Same PROVE i + 1 \in Same
  <2>1. SUFFICES ASSUME i + 1 <= m, i + 1 <= n PROVE r[i + 1] = q[i + 1]
    OBVIOUS
  <2>2. r[i] = q[i] /\ i + 1 \in 0..m /\ i + 1 \in 0..n /\ (i + 1) - 1 = i
    BY <1>4, <2>1
  <2>3. r[i + 1] = IF i + 1 <= first THEN seed ELSE step[i + 1][r[(i + 1) - 1]]
    BY <2>2, <1>1
  <2>4. q[i + 1] = IF i + 1 <= first THEN seed ELSE step[i + 1][q[(i + 1) - 1]]
    BY <2>2, <1>2
  <2> QED
    BY <2>2, <2>3, <2>4
<1> HIDE DEF Same
<1>5. k \in Same
  BY <1>3, <1>4, NatSetInduction
<1> QED
  BY <1>5 DEF Same

(* For each n there is one up to n. *)
LEMMA RunsToExists ==
  ASSUME NEW seed, NEW first \in Nat, NEW step, NEW n \in Nat
  PROVE  \E r : RunsTo(r, n, seed, first, step)
<1> DEFINE Has == {m \in Nat : \E r : RunsTo(r, m, seed, first, step)}
<1>1. 0 \in Has
  <2> DEFINE r == [i \in 0..0 |-> seed]
  <2>1. RunsTo(r, 0, seed, first, step)
    BY DEF RunsTo
  <2> QED
    BY <2>1
<1>2. ASSUME NEW m \in Nat, m \in Has PROVE m + 1 \in Has
  <2>1. PICK r : RunsTo(r, m, seed, first, step)
    BY <1>2
  <2> DEFINE q == [i \in 0..(m + 1) |->
                      IF i <= first THEN seed
                      ELSE IF i <= m THEN r[i] ELSE step[i][r[m]]]
  <2>2. \A i \in 0..m : r[i] = IF i <= first THEN seed ELSE step[i][r[i - 1]]
    BY <2>1 DEF RunsTo
  <2>3. ASSUME NEW i \in 0..(m + 1), ~(i <= first)
        PROVE  q[i] = step[i][q[i - 1]]
    <3>1. i - 1 \in 0..m /\ i \in Nat
      BY <2>3
    <3>2. q[i - 1] = r[i - 1]
      BY <3>1, <2>2
    <3>3. CASE i <= m
      <4>1. i \in 0..m /\ q[i] = r[i]
        BY <2>3, <3>3
      <4> QED
        BY <2>2, <2>3, <3>2, <4>1
    <3>4. CASE ~(i <= m)
      <4>1. i - 1 = m
        BY <3>1, <3>4
      <4>2. q[i] = step[i][r[m]]
        BY <2>3, <3>4
      <4> QED
        BY <3>2, <4>1, <4>2
    <3> QED
      BY <3>3, <3>4
  <2>4. \A i \in 0..(m + 1) : q[i] = IF i <= first THEN seed ELSE step[i][q[i - 1]]
    BY <2>3
  <2>5. q = [i \in 0..(m + 1) |-> q[i]]
    OBVIOUS
  <2> HIDE DEF q
  <2>6. q = [i \in 0..(m + 1) |-> IF i <= first THEN seed ELSE step[i][q[i - 1]]]
    BY <2>4, <2>5
  <2>7. RunsTo(q, m + 1, seed, first, step)
    BY <2>6 DEF RunsTo
  <2> QED
    BY <2>7
<1> HIDE DEF Has
<1>3. n \in Has
  BY <1>1, <1>2, NatSetInduction
<1> QED
  BY <1>3 DEF Has

(* The recursion has a solution: at each n, what the recursion up to n has. *)
LEMMA RunExists ==
  ASSUME NEW seed, NEW first \in Nat, NEW step
  PROVE  Runs(RunOf(seed, first, step), seed, first, step)
<1> DEFINE To(n) == CHOOSE r : RunsTo(r, n, seed, first, step)
           q == [n \in Nat |-> To(n)[n]]
<1>1. ASSUME NEW n \in Nat PROVE RunsTo(To(n), n, seed, first, step)
  BY RunsToExists
<1>2. ASSUME NEW n \in Nat
      PROVE  q[n] = IF n <= first THEN seed ELSE step[n][q[n - 1]]
  <2>1. q[n] = To(n)[n] /\ n \in 0..n
    OBVIOUS
  <2>2. To(n)[n] = IF n <= first THEN seed ELSE step[n][To(n)[n - 1]]
    <3>1. RunsTo(To(n), n, seed, first, step)
      BY <1>1
    <3> HIDE DEF To, q
    <3>2. \A i \in 0..n : To(n)[i] = IF i <= first THEN seed ELSE step[i][To(n)[i - 1]]
      BY <3>1 DEF RunsTo
    <3> QED
      BY <2>1, <3>2
  <2>3. CASE n <= first
    BY <2>1, <2>2, <2>3
  <2>4. CASE ~(n <= first)
    <3>1. n - 1 \in Nat /\ n - 1 <= n /\ q[n - 1] = To(n - 1)[n - 1]
      BY <2>4
    <3>2. RunsTo(To(n), n, seed, first, step) /\ RunsTo(To(n - 1), n - 1, seed, first, step)
      BY <1>1, <3>1
    <3>3. To(n)[n - 1] = To(n - 1)[n - 1]
      <4> HIDE DEF To, q
      <4>1. n - 1 \in Nat /\ n - 1 <= n /\ n - 1 <= n - 1
        BY <3>1
      <4> QED
        BY <3>2, <4>1, RunsToUnique
    <3> HIDE DEF To, q
    <3> QED
      BY <2>1, <2>2, <2>4, <3>1, <3>3
  <2> QED
    BY <2>3, <2>4
<1>3. q = [n \in Nat |-> q[n]]
  OBVIOUS
<1> HIDE DEF q
<1>4. Runs(q, seed, first, step)
  <2>1. q = [n \in Nat |-> IF n <= first THEN seed ELSE step[n][q[n - 1]]]
    BY <1>2, <1>3
  <2> QED
    BY <2>1 DEF Runs
<1> QED
  BY <1>4 DEF RunOf

(* Runs with the same seed and the same first steps have the same first values. *)
LEMMA SameRuns ==
  ASSUME NEW first \in Nat, NEW seed, NEW s, NEW t, NEW n \in Nat,
         \A i \in 1..n : s[i] = t[i], NEW k \in Nat, k <= n
  PROVE  RunOf(seed, first, s)[k] = RunOf(seed, first, t)[k]
<1> DEFINE r == RunOf(seed, first, s)
           q == RunOf(seed, first, t)
           Same == {i \in Nat : i <= n => r[i] = q[i]}
<1>1. Runs(r, seed, first, s) /\ Runs(q, seed, first, t)
  BY RunExists
<1> HIDE DEF r, q
<1>2. 0 \in Same
  BY <1>1, RunsAt
<1>3. ASSUME NEW i \in Nat, i \in Same PROVE i + 1 \in Same
  <2>1. SUFFICES ASSUME i + 1 <= n PROVE r[i + 1] = q[i + 1]
    OBVIOUS
  <2>2. r[i] = q[i] /\ i + 1 \in Nat /\ (i + 1) - 1 = i /\ s[i + 1] = t[i + 1]
    BY <1>3, <2>1
  <2>3. r[i + 1] = IF i + 1 <= first THEN seed ELSE s[i + 1][r[(i + 1) - 1]]
    BY <1>1, <2>2, RunsAt
  <2>4. q[i + 1] = IF i + 1 <= first THEN seed ELSE t[i + 1][q[(i + 1) - 1]]
    BY <1>1, <2>2, RunsAt
  <2> QED
    BY <2>2, <2>3, <2>4
<1> HIDE DEF Same
<1>4. k \in Same
  BY <1>2, <1>3, NatSetInduction
<1> QED
  BY <1>4 DEF Same, r, q

(* Running averages agree as far as their steps do, if they start alike. *)
LEMMA RunningAgrees ==
  ASSUME NEW s, NEW t, NEW n, Agree(s, t, n), NEW first \in Nat, NEW seed, NEW seed2,
         first <= n => seed = seed2
  PROVE  Agree(Running(seed, first, s), Running(seed2, first, t), n)
<1> DEFINE f == Running(seed, first, s)
           g == Running(seed2, first, t)
<1>1. f = [i \in DOMAIN s |-> IF i < first THEN NoValue ELSE RunOf(seed, first, s)[i]]
  BY RunningByRun
<1>2. g = [i \in DOMAIN t |-> IF i < first THEN NoValue ELSE RunOf(seed2, first, t)[i]]
  BY RunningByRun
<1>3. /\ n \in Nat /\ \A i \in 1..n : i \in DOMAIN s /\ i \in DOMAIN t /\ s[i] = t[i]
  BY DEF Agree, IsList
<1> HIDE DEF f, g
<1>4. ASSUME NEW i \in 1..n PROVE f[i] = g[i]
  <2>1. CASE i < first
    BY <1>1, <1>2, <1>3, <2>1
  <2>2. CASE ~(i < first)
    <3>1. seed = seed2 /\ i \in Nat /\ i <= n
      BY <1>3, <2>2
    <3>2. RunOf(seed, first, s)[i] = RunOf(seed, first, t)[i]
      BY <1>3, <3>1, SameRuns
    <3> QED
      BY <1>1, <1>2, <1>3, <2>2, <3>1, <3>2
  <2> QED
    BY <2>1, <2>2
<1>5. Along(f, s) /\ Along(g, t)
  BY <1>1, <1>2 DEF Along
<1>6. Agree(f, g, n)
  BY <1>4, <1>5, AgreeAlong
<1> QED
  BY <1>6 DEF f, g


----------------------------------------------------------------------------
(* The indicators. *)

(* The simple average of a window that ends at the position ... *)
LEMMA SmaAgrees ==
  ASSUME NEW s, NEW t, NEW n, Agree(s, t, n), NEW p \in Nat \ {0}
  PROVE  Agree(sma(s, p), sma(t, p), n)
<1> DEFINE f == sma(s, p)
           g == sma(t, p)
<1>1. f = [i \in DOMAIN s |-> IF i < p THEN NoValue ELSE Mean(Window(s, i, p))]
  BY DEF sma
<1>2. g = [i \in DOMAIN t |-> IF i < p THEN NoValue ELSE Mean(Window(t, i, p))]
  BY DEF sma
<1>3. /\ n \in Nat /\ \A i \in 1..n : i \in DOMAIN s /\ i \in DOMAIN t
  BY DEF Agree, IsList
<1> HIDE DEF f, g
<1>4. ASSUME NEW i \in 1..n PROVE f[i] = g[i]
  <2>1. CASE i < p
    BY <1>1, <1>2, <1>3, <2>1
  <2>2. CASE ~(i < p)
    <3>1. i - p + 1 \in Nat \ {0} /\ i \in Nat /\ i <= n /\ i - p + 1 <= i + 1
      BY <1>3, <2>2
    <3>2. Window(s, i, p) = Window(t, i, p)
      BY <3>1, SameParts DEF Window
    <3> QED
      BY <1>1, <1>2, <1>3, <2>2, <3>2
  <2> QED
    BY <2>1, <2>2
<1>5. Along(f, s) /\ Along(g, t)
  BY <1>1, <1>2 DEF Along
<1>6. Agree(f, g, n)
  BY <1>4, <1>5, AgreeAlong
<1> QED
  BY <1>6 DEF f, g

(* ... the exponential one, seeded with the mean of the first values ... *)
LEMMA EmaAgrees ==
  ASSUME NEW s, NEW t, NEW n, Agree(s, t, n), NEW p \in Nat \ {0}
  PROVE  Agree(ema(s, p), ema(t, p), n)
<1> DEFINE f == [i \in DOMAIN s |-> EmaStep(s[i], p)]
           g == [i \in DOMAIN t |-> EmaStep(t[i], p)]
           a == Mean(SubSeq(s, 1, p))
           b == Mean(SubSeq(t, 1, p))
<1>1. n \in Nat /\ \A i \in 1..n : i \in DOMAIN s /\ i \in DOMAIN t /\ s[i] = t[i]
  BY DEF Agree, IsList
<1>2. \A i \in 1..n : f[i] = g[i]
  BY <1>1
<1>3. Along(f, s) /\ Along(g, t)
  BY DEF Along
<1>4. p <= n => a = b
  <2> SUFFICES ASSUME p <= n PROVE a = b
    OBVIOUS
  <2>1. 1 \in Nat \ {0} /\ p \in Nat /\ 1 <= p + 1
    OBVIOUS
  <2>2. SubSeq(s, 1, p) = SubSeq(t, 1, p)
    BY <2>1, SameParts
  <2> QED
    BY <2>2
<1>5. ema(s, p) = Running(a, p, f) /\ ema(t, p) = Running(b, p, g)
  BY DEF ema
<1> HIDE DEF f, g, a, b
<1>6. Agree(f, g, n)
  BY <1>2, <1>3, AgreeAlong
<1>7. p \in Nat
  OBVIOUS
<1>8. Agree(Running(a, p, f), Running(b, p, g), n)
  BY <1>4, <1>6, <1>7, RunningAgrees
<1> QED
  BY <1>5, <1>8

(* ... Wilder's average from a position on ... *)
LEMMA WilderMeanAgrees ==
  ASSUME NEW s, NEW t, NEW n, Agree(s, t, n), NEW p \in Nat \ {0}, NEW from \in Nat \ {0}
  PROVE  Agree(WilderMean(s, p, from), WilderMean(t, p, from), n)
<1> DEFINE f == [i \in DOMAIN s |-> MeanStep(s[i], p)]
           g == [i \in DOMAIN t |-> MeanStep(t[i], p)]
           first == from + p - 1
           a == Mean(SubSeq(s, from, first))
           b == Mean(SubSeq(t, from, first))
<1>1. n \in Nat /\ \A i \in 1..n : i \in DOMAIN s /\ i \in DOMAIN t /\ s[i] = t[i]
  BY DEF Agree, IsList
<1>2. \A i \in 1..n : f[i] = g[i]
  BY <1>1
<1>3. Along(f, s) /\ Along(g, t)
  BY DEF Along
<1>4. first \in Nat /\ from <= first + 1
  OBVIOUS
<1>5. WilderMean(s, p, from) = Running(a, first, f) /\ WilderMean(t, p, from) = Running(b, first, g)
  BY DEF WilderMean
<1> HIDE DEF f, g, first
<1>6. first <= n => a = b
  <2> SUFFICES ASSUME first <= n PROVE a = b
    OBVIOUS
  <2>1. SubSeq(s, from, first) = SubSeq(t, from, first)
    BY <1>4, SameParts
  <2> QED
    BY <2>1
<1> HIDE DEF a, b
<1>7. Agree(f, g, n)
  BY <1>2, <1>3, AgreeAlong
<1>8. Agree(Running(a, first, f), Running(b, first, g), n)
  BY <1>4, <1>6, <1>7, RunningAgrees
<1> QED
  BY <1>5, <1>8

(* ... and his running sum look at nothing behind the position. *)
LEMMA WilderSumAgrees ==
  ASSUME NEW s, NEW t, NEW n, Agree(s, t, n), NEW p \in Nat \ {0}
  PROVE  Agree(WilderSum(s, p), WilderSum(t, p), n)
<1> DEFINE f == [i \in DOMAIN s |-> SmoothStep(s[i], p)]
           g == [i \in DOMAIN t |-> SmoothStep(t[i], p)]
           first == p + 1
           a == SumOf(SubSeq(s, 2, first))
           b == SumOf(SubSeq(t, 2, first))
<1>1. n \in Nat /\ \A i \in 1..n : i \in DOMAIN s /\ i \in DOMAIN t /\ s[i] = t[i]
  BY DEF Agree, IsList
<1>2. \A i \in 1..n : f[i] = g[i]
  BY <1>1
<1>3. Along(f, s) /\ Along(g, t)
  BY DEF Along
<1>4. first \in Nat /\ 2 \in Nat \ {0} /\ 2 <= first + 1
  OBVIOUS
<1>5. WilderSum(s, p) = Running(a, first, f) /\ WilderSum(t, p) = Running(b, first, g)
  BY DEF WilderSum
<1> HIDE DEF f, g, first
<1>6. first <= n => a = b
  <2> SUFFICES ASSUME first <= n PROVE a = b
    OBVIOUS
  <2>1. SubSeq(s, 2, first) = SubSeq(t, 2, first)
    BY <1>4, SameParts
  <2> QED
    BY <2>1
<1> HIDE DEF a, b
<1>7. Agree(f, g, n)
  BY <1>2, <1>3, AgreeAlong
<1>8. Agree(Running(a, first, f), Running(b, first, g), n)
  BY <1>4, <1>6, <1>7, RunningAgrees
<1> QED
  BY <1>5, <1>8

(* Nor does the relative strength, which averages rises and falls. *)
LEMMA RsiAgrees ==
  ASSUME NEW s, NEW t, NEW n, Agree(s, t, n), NEW p \in Nat \ {0}
  PROVE  Agree(rsi(s, p), rsi(t, p), n)
<1>1. /\ n \in Nat
      /\ \A i \in 1..n : /\ i \in DOMAIN s /\ i \in DOMAIN t /\ s[i] = t[i]
                         /\ i # 1 => s[i - 1] = t[i - 1]
  BY DEF Agree, IsList
<1>2. Agree(Rise(s), Rise(t), n)
  <2>1. \A i \in 1..n : Rise(s)[i] = Rise(t)[i]
    BY <1>1 DEF Rise
  <2>2. Along(Rise(s), s) /\ Along(Rise(t), t)
    BY DEF Along, Rise
  <2> QED
    BY <2>1, <2>2, AgreeAlong
<1>3. Agree(Fall(s), Fall(t), n)
  <2>1. \A i \in 1..n : Fall(s)[i] = Fall(t)[i]
    BY <1>1 DEF Fall
  <2>2. Along(Fall(s), s) /\ Along(Fall(t), t)
    BY DEF Along, Fall
  <2> QED
    BY <2>1, <2>2, AgreeAlong
<1> DEFINE gain(v) == WilderMean(Rise(v), p, 2)
           loss(v) == WilderMean(Fall(v), p, 2)
<1>4. \A i \in 1..n : gain(s)[i] = gain(t)[i] /\ loss(s)[i] = loss(t)[i]
  <2>1. 2 \in Nat \ {0}
    OBVIOUS
  <2>2. Agree(gain(s), gain(t), n)
    BY <1>2, <2>1, WilderMeanAgrees
  <2>3. Agree(loss(s), loss(t), n)
    BY <1>3, <2>1, WilderMeanAgrees
  <2> QED
    BY <2>2, <2>3 DEF Agree
<1>5. rsi(s, p) = [i \in DOMAIN s |-> IF i <= p THEN NoValue ELSE RsiValue(gain(s)[i], loss(s)[i])]
  BY DEF rsi
<1>6. rsi(t, p) = [i \in DOMAIN t |-> IF i <= p THEN NoValue ELSE RsiValue(gain(t)[i], loss(t)[i])]
  BY DEF rsi
<1> HIDE DEF gain, loss
<1>7. \A i \in 1..n : rsi(s, p)[i] = rsi(t, p)[i]
  BY <1>1, <1>4, <1>5, <1>6
<1>8. Along(rsi(s, p), s) /\ Along(rsi(t, p), t)
  BY <1>5, <1>6 DEF Along
<1> QED
  BY <1>7, <1>8, AgreeAlong

(* Differences of agreeing lists agree. *)
LEMMA DiffsAgree ==
  ASSUME NEW n, NEW s, NEW t, Agree(s, t, n), NEW s2, NEW t2, Agree(s2, t2, n)
  PROVE  Agree(Diffs(s, s2), Diffs(t, t2), n)
<1>1. \A i \in 1..n : i \in DOMAIN s /\ i \in DOMAIN t /\ s[i] = t[i] /\ s2[i] = t2[i]
  BY DEF Agree, IsList
<1>2. \A i \in 1..n : Diffs(s, s2)[i] = Diffs(t, t2)[i]
  BY <1>1 DEF Diffs
<1>3. Along(Diffs(s, s2), s) /\ Along(Diffs(t, t2), t)
  BY DEF Along, Diffs
<1> QED
  BY <1>2, <1>3, AgreeAlong


(* The positions before the first value. *)
Gap(s) == {i \in DOMAIN s : \A j \in 1..i : s[j] = NoValue}

(* EmaOfTail smoothes what comes behind that gap. *)
LEMMA EmaOfTailAt ==
  ASSUME NEW s, NEW p
  PROVE  EmaOfTail(s, p) =
           [i \in DOMAIN s |->
               IF i \in Gap(s) THEN NoValue
               ELSE ema(SubSeq(s, Cardinality(Gap(s)) + 1, Len(s)), p)[i - Cardinality(Gap(s))]]
BY DEF EmaOfTail, Gap

(* The gap ends before the first value. *)
LEMMA GapIsHead ==
  ASSUME NEW s, IsList(s), NEW k \in 1..Len(s), s[k] # NoValue,
         \A j \in 1..(k - 1) : s[j] = NoValue
  PROVE  Gap(s) = 1..(k - 1) /\ Cardinality(Gap(s)) = k - 1
<1>1. DOMAIN s = 1..Len(s) /\ Len(s) \in Nat
  BY DEF IsList
<1>2. ASSUME NEW i \in Gap(s) PROVE i \in 1..(k - 1)
  <2>1. i \in 1..Len(s) /\ \A j \in 1..i : s[j] = NoValue
    BY <1>1 DEF Gap
  <2>2. ~(k \in 1..i)
    BY <2>1
  <2> QED
    BY <1>1, <2>1, <2>2
<1>3. ASSUME NEW i \in 1..(k - 1) PROVE i \in Gap(s)
  <2>1. i \in 1..Len(s) /\ \A j \in 1..i : j \in 1..(k - 1)
    BY <1>1
  <2> QED
    BY <1>1, <2>1 DEF Gap
<1>4. Gap(s) = 1..(k - 1)
  BY <1>2, <1>3
<1>5. 1 \in Int /\ k - 1 \in Int /\ k - 1 >= 0
  BY <1>1
<1>6. Cardinality(1..(k - 1)) = IF 1 > k - 1 THEN 0 ELSE k - 1 - 1 + 1
  BY <1>5, FS_Interval
<1> QED
  BY <1>4, <1>5, <1>6

(* With a value among the first n the gap is the same in both lists; without
   one it covers all of them. *)
LEMMA EmaOfTailAgrees ==
  ASSUME NEW s, NEW t, NEW n, Agree(s, t, n), NEW p \in Nat \ {0}
  PROVE  Agree(EmaOfTail(s, p), EmaOfTail(t, p), n)
<1> DEFINE f == EmaOfTail(s, p)
           g == EmaOfTail(t, p)
<1>1. /\ n \in Nat /\ IsList(s) /\ IsList(t) /\ n <= Len(s) /\ n <= Len(t)
      /\ \A i \in 1..n : i \in DOMAIN s /\ i \in DOMAIN t /\ s[i] = t[i]
  BY DEF Agree, IsList
<1>2. Along(f, s) /\ Along(g, t)
  BY EmaOfTailAt DEF Along
<1>3. \A i \in 1..n : f[i] = g[i]
  <2> DEFINE Known == {i \in 1..n : s[i] # NoValue}
  <2>1. CASE Known = {}
    <3>1. \A i \in 1..n : s[i] = NoValue /\ t[i] = NoValue
      BY <1>1, <2>1
    <3>2. ASSUME NEW i \in 1..n PROVE i \in Gap(s) /\ i \in Gap(t)
      <4>1. \A j \in 1..i : j \in 1..n
        BY <1>1
      <4> QED
        BY <1>1, <3>1, <4>1 DEF Gap
    <3>3. \A i \in 1..n : f[i] = NoValue
      BY <1>1, <3>2, EmaOfTailAt
    <3>4. \A i \in 1..n : g[i] = NoValue
      BY <1>1, <3>2, EmaOfTailAt
    <3> QED
      BY <3>3, <3>4
  <2>2. CASE Known # {}
    <3>1. PICK k \in Known : \A i \in Known : k <= i
      <4>1. Known \in SUBSET Nat
        BY <1>1
      <4> HIDE DEF Known
      <4> QED
        BY <2>2, <4>1, LeastNumber
    <3>2. /\ k \in 1..n /\ k \in 1..Len(s) /\ k \in 1..Len(t)
          /\ s[k] # NoValue /\ t[k] # NoValue
      BY <1>1, <3>1 DEF IsList
    <3>3. \A j \in 1..(k - 1) : s[j] = NoValue /\ t[j] = NoValue
      <4> TAKE j \in 1..(k - 1)
      <4>1. j \in 1..n /\ ~(k <= j)
        BY <1>1, <3>2
      <4>2. j \notin Known
        BY <3>1, <4>1
      <4> QED
        BY <1>1, <4>1, <4>2
    <3> DEFINE c == k - 1
               a == ema(SubSeq(s, c + 1, Len(s)), p)
               b == ema(SubSeq(t, c + 1, Len(t)), p)
    <3>4. Gap(s) = 1..c /\ Cardinality(Gap(s)) = c
      BY <1>1, <3>2, <3>3, GapIsHead
    <3>5. Gap(t) = 1..c /\ Cardinality(Gap(t)) = c
      BY <1>1, <3>2, <3>3, GapIsHead
    <3>6. c \in Nat /\ c <= n
      BY <1>1, <3>2
    <3>7. f = [i \in DOMAIN s |-> IF i \in 1..c THEN NoValue ELSE a[i - c]]
      BY <3>4, EmaOfTailAt
    <3>8. g = [i \in DOMAIN t |-> IF i \in 1..c THEN NoValue ELSE b[i - c]]
      BY <3>5, EmaOfTailAt
    <3> HIDE DEF c, f, g
    <3>9. Agree(a, b, n - c)
      <4>1. Agree(SubSeq(s, c + 1, Len(s)), SubSeq(t, c + 1, Len(t)), n - c)
        BY <3>6, TailsAgree
      <4> QED
        BY <4>1, EmaAgrees
    <3> HIDE DEF a, b
    <3>10. ASSUME NEW i \in 1..n, i \notin 1..c PROVE a[i - c] = b[i - c]
      <4>1. i - c \in 1..(n - c)
        BY <1>1, <3>6, <3>10
      <4> QED
        BY <3>9, <4>1 DEF Agree
    <3> QED
      BY <1>1, <3>7, <3>8, <3>10
  <2> QED
    BY <2>1, <2>2
<1> HIDE DEF f, g
<1>4. Agree(f, g, n)
  BY <1>2, <1>3, AgreeAlong
<1> QED
  BY <1>4 DEF f, g

(* The lines of macd are differences and averages of averages. *)
LEMMA MacdAgrees ==
  ASSUME NEW s, NEW t, NEW n, Agree(s, t, n),
         NEW fast \in Nat \ {0}, NEW slow \in Nat \ {0}, NEW signal \in Nat \ {0}
  PROVE  /\ Agree(macd(s, fast, slow, signal).line, macd(t, fast, slow, signal).line, n)
         /\ Agree(macd(s, fast, slow, signal).signal, macd(t, fast, slow, signal).signal, n)
         /\ Agree(macd(s, fast, slow, signal).histogram, macd(t, fast, slow, signal).histogram, n)
<1> DEFINE line(v) == Diffs(ema(v, fast), ema(v, slow))
           smoothed(v) == EmaOfTail(line(v), signal)
<1>1. Agree(ema(s, fast), ema(t, fast), n) /\ Agree(ema(s, slow), ema(t, slow), n)
  BY EmaAgrees
<1>2. Agree(line(s), line(t), n)
  BY <1>1, DiffsAgree
<1>3. \A v : macd(v, fast, slow, signal) =
        [line |-> line(v), signal |-> smoothed(v), histogram |-> Diffs(line(v), smoothed(v))]
  BY DEF macd
<1> HIDE DEF line
<1>4. Agree(smoothed(s), smoothed(t), n)
  BY <1>2, EmaOfTailAgrees
<1> HIDE DEF smoothed
<1>5. Agree(Diffs(line(s), smoothed(s)), Diffs(line(t), smoothed(t)), n)
  BY <1>2, <1>4, DiffsAgree
<1> QED
  BY <1>2, <1>3, <1>4, <1>5

(* The bands lie around the simple average of the same window. *)
LEMMA BollingerAgrees ==
  ASSUME NEW s, NEW t, NEW n, Agree(s, t, n), NEW p \in Nat \ {0}
  PROVE  /\ Agree(bollinger(s, p).middle, bollinger(t, p).middle, n)
         /\ Agree(bollinger(s, p).variance, bollinger(t, p).variance, n)
<1> DEFINE Square(v, i, j) ==
             LET d == Minus(v[i - p + j], sma(v, p)[i]) IN Times(d, d)
           Off(v, i) == [j \in 1..p |-> Square(v, i, j)]
           f(v) == [i \in DOMAIN v |-> IF i < p THEN NoValue ELSE Mean(Off(v, i))]
<1>1. \A v : bollinger(v, p) = [middle |-> sma(v, p), variance |-> f(v)]
  BY DEF bollinger
<1>2. Agree(sma(s, p), sma(t, p), n)
  BY SmaAgrees
<1>3. /\ n \in Nat
      /\ \A i \in 1..n : /\ i \in DOMAIN s /\ i \in DOMAIN t /\ s[i] = t[i]
                         /\ sma(s, p)[i] = sma(t, p)[i]
  BY <1>2 DEF Agree, IsList
<1>4. ASSUME NEW i \in 1..n PROVE f(s)[i] = f(t)[i]
  <2>1. CASE i < p
    BY <1>3, <2>1
  <2>2. CASE ~(i < p)
    <3>1. ASSUME NEW j \in 1..p PROVE Square(s, i, j) = Square(t, i, j)
      <4>1. i - p + j \in 1..n
        BY <1>3, <2>2
      <4> QED
        BY <1>3, <4>1
    <3> HIDE DEF Square
    <3>2. Off(s, i) = Off(t, i)
      BY <3>1
    <3> HIDE DEF Off
    <3> QED
      BY <1>3, <2>2, <3>2
  <2> QED
    BY <2>1, <2>2
<1>5. Along(f(s), s) /\ Along(f(t), t)
  BY DEF Along
<1> HIDE DEF f
<1>6. Agree(f(s), f(t), n)
  BY <1>4, <1>5, AgreeAlong
<1> QED
  BY <1>1, <1>2, <1>6


(* A true range looks at the close of the candle before ... *)
LEMMA TrueRangeAgrees ==
  ASSUME NEW s, NEW t, NEW n, Agree(s, t, n)
  PROVE  Agree(TrueRange(s), TrueRange(t), n)
<1>1. \A i \in 1..n : /\ i \in DOMAIN s /\ i \in DOMAIN t /\ s[i] = t[i]
                      /\ i # 1 => s[i - 1] = t[i - 1]
  BY DEF Agree, IsList
<1>2. \A i \in 1..n : TrueRange(s)[i] = TrueRange(t)[i]
  BY <1>1 DEF TrueRange
<1>3. Along(TrueRange(s), s) /\ Along(TrueRange(t), t)
  BY DEF Along, TrueRange
<1> QED
  BY <1>2, <1>3, AgreeAlong

(* ... and a directional move at its high and low. *)
LEMMA MovesAgree ==
  ASSUME NEW s, NEW t, NEW n, Agree(s, t, n)
  PROVE  Agree(PlusMove(s), PlusMove(t), n) /\ Agree(MinusMove(s), MinusMove(t), n)
<1>1. n \in Nat /\ \A i \in 1..n : /\ i \in DOMAIN s /\ i \in DOMAIN t /\ s[i] = t[i]
                                   /\ i > 1 => s[i - 1] = t[i - 1]
  BY DEF Agree, IsList
<1>2. \A i \in 1..n : i > 1 => UpMove(s, i) = UpMove(t, i) /\ DownMove(s, i) = DownMove(t, i)
  BY <1>1 DEF UpMove, DownMove
<1>3. \A i \in 1..n : PlusMove(s)[i] = PlusMove(t)[i]
  BY <1>1, <1>2 DEF PlusMove
<1>4. \A i \in 1..n : MinusMove(s)[i] = MinusMove(t)[i]
  BY <1>1, <1>2 DEF MinusMove
<1>5. /\ Along(PlusMove(s), s) /\ Along(PlusMove(t), t)
      /\ Along(MinusMove(s), s) /\ Along(MinusMove(t), t)
  BY DEF Along, PlusMove, MinusMove
<1> QED
  BY <1>3, <1>4, <1>5, AgreeAlong

(* adx, part by part: is there enough history, a directional index, and what the
   two of them make. *)
Enough(s, p) == Len(s) >= 2 * p

Index(s, p, move) ==
    [i \in DOMAIN s |->
        IF ~Enough(s, p) \/ i <= p THEN NoValue
        ELSE DirectionalIndex(WilderSum(move, p)[i], WilderSum(TrueRange(s), p)[i])]

Dx(s, p) ==
    [i \in DOMAIN s |->
        IF ~Enough(s, p) \/ i <= p THEN Zero
        ELSE DxValue(Index(s, p, PlusMove(s))[i], Index(s, p, MinusMove(s))[i])]

(* These are the parts of adx. *)
LEMMA AdxByParts ==
  ASSUME NEW s, NEW p
  PROVE  adx(s, p) =
           [plus |-> Index(s, p, PlusMove(s)), minus |-> Index(s, p, MinusMove(s)),
            adx |-> IF Enough(s, p) THEN WilderMean(Dx(s, p), p, p + 1)
                    ELSE [i \in DOMAIN s |-> NoValue]]
BY DEF adx, Enough, Index, Dx

(* With enough history in the shorter list the directional indexes agree. *)
LEMMA IndexAgrees ==
  ASSUME NEW s, NEW t, NEW n, Agree(s, t, n), NEW p \in Nat \ {0},
         Enough(s, p), Enough(t, p), NEW move, NEW move2, Agree(move, move2, n)
  PROVE  Agree(Index(s, p, move), Index(t, p, move2), n)
<1>1. \A i \in 1..n : i \in DOMAIN s /\ i \in DOMAIN t
  BY DEF Agree, IsList
<1> DEFINE range(v) == WilderSum(TrueRange(v), p)
<1>2. Agree(range(s), range(t), n) /\ Agree(WilderSum(move, p), WilderSum(move2, p), n)
  BY TrueRangeAgrees, WilderSumAgrees
<1>3. \A i \in 1..n : WilderSum(move, p)[i] = WilderSum(move2, p)[i] /\ range(s)[i] = range(t)[i]
  BY <1>2 DEF Agree
<1>4. Index(s, p, move) =
        [i \in DOMAIN s |-> IF i <= p THEN NoValue
                            ELSE DirectionalIndex(WilderSum(move, p)[i], range(s)[i])]
  BY DEF Index
<1>5. Index(t, p, move2) =
        [i \in DOMAIN t |-> IF i <= p THEN NoValue
                            ELSE DirectionalIndex(WilderSum(move2, p)[i], range(t)[i])]
  BY DEF Index
<1> HIDE DEF range
<1>6. \A i \in 1..n : Index(s, p, move)[i] = Index(t, p, move2)[i]
  BY <1>1, <1>3, <1>4, <1>5
<1>7. Along(Index(s, p, move), s) /\ Along(Index(t, p, move2), t)
  BY <1>4, <1>5 DEF Along
<1> QED
  BY <1>6, <1>7, AgreeAlong

(* So do the averages over them. *)
LEMMA AdxAgrees ==
  ASSUME NEW s, NEW t, NEW n, Agree(s, t, n), Len(s) <= Len(t), NEW p \in Nat \ {0},
         Enough(s, p)
  PROVE  /\ Agree(adx(s, p).plus, adx(t, p).plus, n)
         /\ Agree(adx(s, p).minus, adx(t, p).minus, n)
         /\ Agree(adx(s, p).adx, adx(t, p).adx, n)
<1>1. \A i \in 1..n : i \in DOMAIN s /\ i \in DOMAIN t
  BY DEF Agree, IsList
<1>2. Enough(t, p)
  BY DEF Enough, Agree, IsList
<1> DEFINE plus(v) == Index(v, p, PlusMove(v))
           minus(v) == Index(v, p, MinusMove(v))
<1>3. Agree(plus(s), plus(t), n)
  BY <1>2, MovesAgree, IndexAgrees
<1>4. Agree(minus(s), minus(t), n)
  BY <1>2, MovesAgree, IndexAgrees
<1>5. \A i \in 1..n : plus(s)[i] = plus(t)[i] /\ minus(s)[i] = minus(t)[i]
  BY <1>3, <1>4 DEF Agree
<1>6. Dx(s, p) = [i \in DOMAIN s |-> IF i <= p THEN Zero ELSE DxValue(plus(s)[i], minus(s)[i])]
  BY DEF Dx
<1>7. Dx(t, p) = [i \in DOMAIN t |-> IF i <= p THEN Zero ELSE DxValue(plus(t)[i], minus(t)[i])]
  BY <1>2 DEF Dx
<1>8. /\ adx(s, p).plus = plus(s) /\ adx(s, p).minus = minus(s)
      /\ adx(s, p).adx = WilderMean(Dx(s, p), p, p + 1)
  BY AdxByParts
<1>9. /\ adx(t, p).plus = plus(t) /\ adx(t, p).minus = minus(t)
      /\ adx(t, p).adx = WilderMean(Dx(t, p), p, p + 1)
  BY <1>2, AdxByParts
<1> HIDE DEF plus, minus
<1>10. Agree(Dx(s, p), Dx(t, p), n)
  <2>1. \A i \in 1..n : Dx(s, p)[i] = Dx(t, p)[i]
    BY <1>1, <1>5, <1>6, <1>7
  <2>2. Along(Dx(s, p), s) /\ Along(Dx(t, p), t)
    BY <1>6, <1>7 DEF Along
  <2> QED
    BY <2>1, <2>2, AgreeAlong
<1>11. Agree(WilderMean(Dx(s, p), p, p + 1), WilderMean(Dx(t, p), p, p + 1), n)
  <2>1. p + 1 \in Nat \ {0}
    OBVIOUS
  <2> QED
    BY <1>10, <2>1, WilderMeanAgrees
<1> QED
  BY <1>3, <1>4, <1>8, <1>9, <1>11

(* Without it, the shorter list has no value of the three; and the adx has none
   there in the longer one. *)
LEMMA AdxWithoutHistory ==
  ASSUME NEW s, NEW t, NEW n, Agree(s, t, n), NEW p \in Nat \ {0}, ~Enough(s, p)
  PROVE  \A i \in 1..n : /\ adx(s, p).plus[i] = NoValue /\ adx(s, p).minus[i] = NoValue
                         /\ adx(s, p).adx[i] = adx(t, p).adx[i]
<1>1. /\ n \in Nat /\ n < 2 * p
      /\ \A i \in 1..n : i \in DOMAIN s /\ i \in DOMAIN t
  BY DEF Agree, IsList, Enough
<1>2. \A i \in 1..n : adx(s, p).plus[i] = NoValue /\ adx(s, p).minus[i] = NoValue
  <2>1. \A move : \A i \in 1..n : Index(s, p, move)[i] = NoValue
    BY <1>1 DEF Index
  <2> QED
    BY <2>1, AdxByParts
<1>3. \A i \in 1..n : adx(s, p).adx[i] = NoValue
  BY <1>1, AdxByParts
<1>4. \A i \in 1..n : adx(t, p).adx[i] = NoValue
  <2>1. CASE Enough(t, p)
    <3> DEFINE step == [i \in DOMAIN Dx(t, p) |-> MeanStep(Dx(t, p)[i], p)]
               seed == Mean(SubSeq(Dx(t, p), p + 1, p + 1 + p - 1))
    <3>1. adx(t, p).adx = Running(seed, p + 1 + p - 1, step)
      BY <2>1, AdxByParts DEF WilderMean
    <3>2. DOMAIN step = DOMAIN t
      BY DEF Dx
    <3> HIDE DEF step, seed
    <3>3. \A i \in 1..n : i < p + 1 + p - 1
      BY <1>1
    <3> QED
      BY <1>1, <3>1, <3>2, <3>3, RunningByRun
  <2>2. CASE ~Enough(t, p)
    BY <1>1, <2>2, AdxByParts
  <2> QED
    BY <2>1, <2>2
<1> QED
  BY <1>2, <1>3, <1>4

----------------------------------------------------------------------------

(* A column of the candles. *)
LEMMA ColumnsAgree ==
  ASSUME NEW s, NEW t, NEW n, Agree(s, t, n), NEW field
  PROVE  Agree(Column(s, field), Column(t, field), n)
<1>1. \A i \in 1..n : i \in DOMAIN s /\ i \in DOMAIN t /\ s[i] = t[i]
  BY DEF Agree, IsList
<1>2. \A i \in 1..n : Column(s, field)[i] = Column(t, field)[i]
  BY <1>1 DEF Column
<1>3. Along(Column(s, field), s) /\ Along(Column(t, field), t)
  BY DEF Along, Column
<1> QED
  BY <1>2, <1>3, AgreeAlong

(* What was computed for the first n candles stays when later ones differ or
   come, but for the directional indexes that had no value. *)
LEMMA LinesAgree ==
  ASSUME NEW s, NEW t, NEW n, Agree(s, t, n), Len(s) <= Len(t)
  PROVE  \A l \in LineNames, i \in 1..n :
            \/ Lines(s)[l][i] = Lines(t)[l][i]
            \/ l \in {"plus", "minus"} /\ ~Enough(s, Settings.adx) /\ Lines(s)[l][i] = NoValue
<1> DEFINE closes(v) == Column(v, "close")
           volumes(v) == Column(v, "volume")
           m(v) == macd(closes(v), Settings.fast, Settings.slow, Settings.signal)
           b(v) == bollinger(closes(v), Settings.bollinger)
           d(v) == adx(v, Settings.adx)
<1>1. /\ Settings.rsi \in Nat \ {0} /\ Settings.fast \in Nat \ {0} /\ Settings.slow \in Nat \ {0}
      /\ Settings.signal \in Nat \ {0} /\ Settings.ema \in Nat \ {0}
      /\ Settings.bollinger \in Nat \ {0} /\ Settings.adx \in Nat \ {0}
      /\ Settings.atr \in Nat \ {0} /\ Settings.volume \in Nat \ {0}
  BY MarketAssumption
<1>2. Agree(closes(s), closes(t), n) /\ Agree(volumes(s), volumes(t), n)
  BY ColumnsAgree
<1>3. \A v : Lines(v) =
        [rsi |-> rsi(closes(v), Settings.rsi), ema |-> ema(closes(v), Settings.ema),
         macd |-> m(v).line, signal |-> m(v).signal, histogram |-> m(v).histogram,
         middle |-> b(v).middle, variance |-> b(v).variance,
         atr |-> atr(v, Settings.atr), adx |-> d(v).adx, plus |-> d(v).plus, minus |-> d(v).minus,
         volume |-> sma(volumes(v), Settings.volume)]
  BY DEF Lines
<1> HIDE DEF closes, volumes
<1>4. Agree(Lines(s).rsi, Lines(t).rsi, n) /\ Agree(Lines(s).ema, Lines(t).ema, n)
  BY <1>1, <1>2, <1>3, RsiAgrees, EmaAgrees
<1>5. /\ Agree(m(s).line, m(t).line, n) /\ Agree(m(s).signal, m(t).signal, n)
      /\ Agree(m(s).histogram, m(t).histogram, n)
  BY <1>1, <1>2, MacdAgrees
<1>6. Agree(b(s).middle, b(t).middle, n) /\ Agree(b(s).variance, b(t).variance, n)
  BY <1>1, <1>2, BollingerAgrees
<1>7. Agree(Lines(s).atr, Lines(t).atr, n)
  <2>1. 2 \in Nat \ {0}
    OBVIOUS
  <2>2. Agree(atr(s, Settings.atr), atr(t, Settings.atr), n)
    BY <1>1, <2>1, TrueRangeAgrees, WilderMeanAgrees DEF atr
  <2> QED
    BY <1>3, <2>2
<1>8. Agree(Lines(s).volume, Lines(t).volume, n)
  BY <1>1, <1>2, <1>3, SmaAgrees
<1> HIDE DEF m, b
<1>9. \A l \in {"rsi", "ema", "macd", "signal", "histogram", "middle", "variance", "atr",
               "volume"} :
         Agree(Lines(s)[l], Lines(t)[l], n)
  BY <1>3, <1>4, <1>5, <1>6, <1>7, <1>8
<1>10. CASE Enough(s, Settings.adx)
  <2>1. \A l \in {"adx", "plus", "minus"} : Agree(Lines(s)[l], Lines(t)[l], n)
    <3>1. /\ Agree(d(s).plus, d(t).plus, n) /\ Agree(d(s).minus, d(t).minus, n)
          /\ Agree(d(s).adx, d(t).adx, n)
      BY <1>1, <1>10, AdxAgrees
    <3> HIDE DEF d
    <3> QED
      BY <1>3, <3>1
  <2>2. \A l \in LineNames : Agree(Lines(s)[l], Lines(t)[l], n)
    BY <1>9, <2>1 DEF LineNames
  <2> QED
    BY <2>2 DEF Agree
<1>11. CASE ~Enough(s, Settings.adx)
  <2>1. \A i \in 1..n : /\ d(s).plus[i] = NoValue /\ d(s).minus[i] = NoValue
                        /\ d(s).adx[i] = d(t).adx[i]
    BY <1>1, <1>11, AdxWithoutHistory
  <2> HIDE DEF d
  <2>2. \A i \in 1..n : /\ Lines(s).plus[i] = NoValue /\ Lines(s).minus[i] = NoValue
                        /\ Lines(s).adx[i] = Lines(t).adx[i]
    BY <1>3, <2>1
  <2>3. \A l \in LineNames : \/ Agree(Lines(s)[l], Lines(t)[l], n)
                             \/ l \in {"plus", "minus", "adx"}
    BY <1>9 DEF LineNames
  <2> QED
    BY <1>11, <2>2, <2>3 DEF Agree
<1> QED
  BY <1>10, <1>11

(* A cache that begins with the candle the answer begins with agrees with it
   but for its own newest candle. *)
LEMMA CacheAgrees ==
  ASSUME MarketInv, cache # <<>>, cache[1] = Fetched[1]
  PROVE  /\ Len(cache) \in Nat \ {0} /\ Len(cache) <= Len(Fetched)
         /\ Agree(cache, Fetched, Len(cache) - 1)
<1> DEFINE n == Len(cache)
<1>1. /\ n \in Nat \ {0} /\ cache \in Seq(Candle) /\ Len(bars) \in Nat \ {0}
      /\ \A i \in 1..Len(bars) : bars[i].open = Start(i - 1)
  BY DEF MarketInv, CacheFrame, BarFrame
<1>2. PICK d \in Nat : CachedFrom(d)
  BY DEF MarketInv, CacheFrame
<1>3. /\ Fetched \in Seq(Candle) /\ Len(Fetched) \in Nat \ {0}
      /\ \E e \in Nat : /\ Len(Fetched) + e = Len(bars)
                        /\ \A i \in 1..Len(Fetched) : Fetched[i] = bars[i + e]
  BY FetchedTail DEF MarketInv
<1>4. PICK e \in Nat : /\ Len(Fetched) + e = Len(bars)
                       /\ \A i \in 1..Len(Fetched) : Fetched[i] = bars[i + e]
  BY <1>3
<1>5. cache[1].open = Start(d)
  <2>1. CASE n = 1
    <3>1. n + d - 1 = d
      BY <2>1
    <3> QED
      BY <1>2, <2>1, <3>1 DEF CachedFrom
  <2>2. CASE n # 1
    <3>1. n + d <= Len(bars) /\ \A i \in 1..(n - 1) : cache[i] = bars[i + d]
      BY <1>2 DEF CachedFrom
    <3> HIDE DEF n
    <3>2. 1 \in 1..(n - 1) /\ 1 + d \in 1..Len(bars) /\ 1 + d - 1 = d
      BY <1>1, <2>2, <3>1
    <3>3. cache[1] = bars[1 + d] /\ bars[1 + d].open = Start(1 + d - 1)
      BY <1>1, <3>1, <3>2
    <3> QED
      BY <3>2, <3>3
  <2> QED
    BY <2>1, <2>2
<1>6. Fetched[1].open = Start(e)
  <2>1. 1 \in 1..Len(Fetched) /\ 1 + e \in 1..Len(bars) /\ 1 + e - 1 = e
    BY <1>1, <1>3, <1>4
  <2>2. Fetched[1] = bars[1 + e] /\ bars[1 + e].open = Start(1 + e - 1)
    BY <1>1, <1>4, <2>1
  <2> QED
    BY <2>1, <2>2
<1>7. d = e
  <2>1. Start(d) = Start(e)
    BY <1>5, <1>6
  <2> QED
    BY <2>1, Starts
<1>8. n <= Len(Fetched)
  BY <1>1, <1>2, <1>3, <1>4, <1>7 DEF CachedFrom
<1>9. ASSUME NEW i \in 1..(n - 1) PROVE cache[i] = Fetched[i]
  <2>1. i \in 1..Len(Fetched)
    BY <1>1, <1>3, <1>8
  <2> QED
    BY <1>2, <1>4, <1>7, <2>1 DEF CachedFrom
<1>10. IsList(cache) /\ IsList(Fetched)
  BY <1>1, <1>3 DEF IsList
<1>11. n - 1 \in Nat /\ n - 1 <= n /\ n - 1 <= Len(Fetched)
  BY <1>1, <1>3, <1>8
<1> QED
  BY <1>1, <1>8, <1>9, <1>10, <1>11 DEF Agree

(* MarketInv says what NoRepaint asks for. *)
LEMMA StayFromInv ==
  ASSUME MarketInv
  PROVE  NoRepaint
<1> SUFFICES ASSUME cache # <<>>, cache[1] = Fetched[1]
             PROVE  \A before \in {Lines(cache)}, after \in {Lines(Fetched)} :
                       \A l \in LineNames, i \in DOMAIN Front(cache) :
                          \/ before[l][i] = after[l][i]
                          \/ /\ l \in {"plus", "minus"} /\ Len(cache) < 2 * Settings.adx
                             /\ before[l][i] = NoValue
  BY DEF NoRepaint
<1> DEFINE n == Len(cache) - 1
<1>1. Len(cache) \in Nat \ {0} /\ Len(cache) <= Len(Fetched) /\ Agree(cache, Fetched, n)
  BY CacheAgrees
<1>2. DOMAIN Front(cache) = 1..n
  <2>1. /\ IsList(cache) /\ 1 \in Nat \ {0} /\ n \in Nat
        /\ n <= Len(cache) /\ 1 <= n + 1 /\ n - 1 + 1 = n
    BY <1>1 DEF Agree
  <2>2. IsList(SubSeq(cache, 1, n)) /\ Len(SubSeq(cache, 1, n)) = n
    BY <2>1, PartOfList
  <2> QED
    BY <2>2 DEF Front, IsList
<1> HIDE DEF n
<1>3. \A l \in LineNames, i \in 1..n :
         \/ Lines(cache)[l][i] = Lines(Fetched)[l][i]
         \/ /\ l \in {"plus", "minus"} /\ ~Enough(cache, Settings.adx)
            /\ Lines(cache)[l][i] = NoValue
  BY <1>1, LinesAgree
<1>4. ~Enough(cache, Settings.adx) => Len(cache) < 2 * Settings.adx
  <2>1. Settings.adx \in Nat \ {0} /\ Len(cache) \in Nat
    BY <1>1, MarketAssumption
  <2> HIDE DEF n
  <2> QED
    BY <2>1 DEF Enough
<1> QED
  BY <1>2, <1>3, <1>4

(* The value of an indicator at a closed candle depends on no later candle: it
   is the same when the series has grown, and no indicator looks ahead
   (indicators.py); only the directional indexes are withheld, all of them,
   until the adx has its history. *)
THEOREM ClosedValuesStay == Spec => []NoRepaint
<1>1. MarketInv => NoRepaint
  BY StayFromInv
<1> QED
  BY <1>1, MarketInvHolds, PTL

----------------------------------------------------------------------------
(* Fractions. *)

(* f is Euclid's recursion for all second arguments up to n, and for all. *)
EuclidTo(f, n) ==
    f = [p \in Nat \X (0..n) |-> IF p[2] = 0 THEN p[1] ELSE f[<<p[2], p[1] % p[2]>>]]

Euclid(f) ==
    f = [p \in Nat \X Nat |-> IF p[2] = 0 THEN p[1] ELSE f[<<p[2], p[1] % p[2]>>]]

(* One step of it. *)
LEMMA EuclidToAt ==
  ASSUME NEW n \in Nat, NEW f, EuclidTo(f, n), NEW a \in Nat, NEW b \in 0..n
  PROVE  f[<<a, b>>] = IF b = 0 THEN a ELSE f[<<b, a % b>>]
BY DEF EuclidTo

(* The remainder is less than what is divided by. *)
LEMMA RemainderIsLess ==
  ASSUME NEW a \in Nat, NEW b \in Nat \ {0}
  PROVE  a % b \in 0..(b - 1)
OBVIOUS

(* Two recursions agree as far as both go. *)
LEMMA EuclidToUnique ==
  ASSUME NEW m \in Nat, NEW n \in Nat, NEW f, NEW g, EuclidTo(f, m), EuclidTo(g, n),
         NEW k \in Nat, k <= m, k <= n, NEW a \in Nat
  PROVE  f[<<a, k>>] = g[<<a, k>>]
<1> DEFINE Same == {i \in Nat : \A j \in 0..i : (j <= m /\ j <= n) =>
                       \A c \in Nat : f[<<c, j>>] = g[<<c, j>>]}
<1>1. \A c \in Nat, j \in 0..m : f[<<c, j>>] = IF j = 0 THEN c ELSE f[<<j, c % j>>]
  BY DEF EuclidTo
<1>2. \A c \in Nat, j \in 0..n : g[<<c, j>>] = IF j = 0 THEN c ELSE g[<<j, c % j>>]
  BY DEF EuclidTo
<1>3. 0 \in Same
  <2>1. ASSUME NEW c \in Nat PROVE f[<<c, 0>>] = c /\ g[<<c, 0>>] = c
    <3>1. 0 \in 0..m /\ 0 \in 0..n
      OBVIOUS
    <3>2. f[<<c, 0>>] = c
      BY <1>1, <3>1
    <3> QED
      BY <1>2, <3>1, <3>2
  <2> QED
    BY <2>1
<1>4. ASSUME NEW i \in Nat, i \in Same PROVE i + 1 \in Same
  <2>1. SUFFICES ASSUME i + 1 <= m, i + 1 <= n, NEW c \in Nat
                 PROVE  f[<<c, i + 1>>] = g[<<c, i + 1>>]
    BY <1>4
  <2>2. c % (i + 1) \in 0..i /\ i + 1 \in 0..m /\ i + 1 \in 0..n /\ i + 1 # 0 /\ i + 1 \in Nat
    BY <2>1, RemainderIsLess
  <2>3. f[<<c, i + 1>>] = f[<<i + 1, c % (i + 1)>>] /\ g[<<c, i + 1>>] = g[<<i + 1, c % (i + 1)>>]
    BY <1>1, <1>2, <2>2
  <2>4. f[<<i + 1, c % (i + 1)>>] = g[<<i + 1, c % (i + 1)>>]
    <3> DEFINE r == c % (i + 1)
    <3>1. r \in 0..i /\ r <= m /\ r <= n
      BY <2>1, <2>2
    <3> HIDE DEF r
    <3> QED
      BY <1>4, <2>2, <3>1
  <2> QED
    BY <2>3, <2>4
<1> HIDE DEF Same
<1>5. k \in Same
  BY <1>3, <1>4, NatSetInduction
<1> QED
  BY <1>5 DEF Same

(* For each n there is one up to n. *)
LEMMA EuclidToExists ==
  ASSUME NEW n \in Nat
  PROVE  \E f : EuclidTo(f, n)
<1> DEFINE Has == {m \in Nat : \E f : EuclidTo(f, m)}
<1>1. 0 \in Has
  <2> DEFINE f == [p \in Nat \X (0..0) |-> p[1]]
  <2>1. EuclidTo(f, 0)
    BY DEF EuclidTo
  <2> QED
    BY <2>1
<1>2. ASSUME NEW m \in Nat, m \in Has PROVE m + 1 \in Has
  <2>1. PICK f : EuclidTo(f, m)
    BY <1>2
  <2> DEFINE g == [p \in Nat \X (0..(m + 1)) |->
                      IF p[2] <= m THEN f[p] ELSE f[<<p[2], p[1] % p[2]>>]]
  <2>2. \A a \in Nat, b \in 0..m : f[<<a, b>>] = IF b = 0 THEN a ELSE f[<<b, a % b>>]
    BY <2>1 DEF EuclidTo
  <2>3. \A a \in Nat, b \in 0..m : g[<<a, b>>] = f[<<a, b>>]
    <3>1. \A a \in Nat, b \in 0..m : <<a, b>> \in Nat \X (0..(m + 1)) /\ b <= m
      OBVIOUS
    <3> QED
      BY <3>1
  <2>4. ASSUME NEW p \in Nat \X (0..(m + 1))
        PROVE  g[p] = IF p[2] = 0 THEN p[1] ELSE g[<<p[2], p[1] % p[2]>>]
    <3>1. PICK a \in Nat, b \in 0..(m + 1) : p = <<a, b>>
      OBVIOUS
    <3>2. b # 0 => a % b \in 0..(b - 1)
      BY RemainderIsLess
    <3>3. b # 0 => g[<<b, a % b>>] = f[<<b, a % b>>]
      <4> SUFFICES ASSUME b # 0 PROVE g[<<b, a % b>>] = f[<<b, a % b>>]
        OBVIOUS
      <4> DEFINE r == a % b
      <4>1. r \in 0..m /\ b \in Nat
        BY <3>2
      <4> HIDE DEF r, g
      <4> QED
        BY <2>3, <4>1
    <3>4. CASE b <= m
      <4>1. g[p] = f[<<a, b>>]
        BY <3>1, <3>4
      <4>2. b \in 0..m
        BY <3>4
      <4> HIDE DEF g
      <4> QED
        BY <2>2, <3>1, <3>3, <4>1, <4>2
    <3>5. CASE ~(b <= m)
      <4>1. g[p] = f[<<b, a % b>>] /\ b # 0
        BY <3>1, <3>5
      <4> HIDE DEF g
      <4> QED
        BY <3>1, <3>3, <4>1
    <3> QED
      BY <3>4, <3>5
  <2>5. EuclidTo(g, m + 1)
    <3>1. g = [p \in Nat \X (0..(m + 1)) |-> g[p]]
      OBVIOUS
    <3> HIDE DEF g
    <3>2. g = [p \in Nat \X (0..(m + 1)) |-> IF p[2] = 0 THEN p[1] ELSE g[<<p[2], p[1] % p[2]>>]]
      BY <2>4, <3>1
    <3> QED
      BY <3>2 DEF EuclidTo
  <2> QED
    BY <2>5
<1> HIDE DEF Has
<1>3. n \in Has
  BY <1>1, <1>2, NatSetInduction
<1> QED
  BY <1>3 DEF Has

(* The recursion gcd is defined by has a solution. *)
LEMMA GcdAt ==
  ASSUME NEW a \in Nat, NEW b \in Nat
  PROVE  gcd[<<a, b>>] = IF b = 0 THEN a ELSE gcd[<<b, a % b>>]
<1> DEFINE To(n) == CHOOSE f : EuclidTo(f, n)
           q == [p \in Nat \X Nat |-> To(p[2])[p]]
<1>1. \A n \in Nat : EuclidTo(To(n), n)
  BY EuclidToExists
<1>2. \A c \in Nat, k \in Nat : q[<<c, k>>] = To(k)[<<c, k>>]
  OBVIOUS
<1>3. q = [p \in Nat \X Nat |-> q[p]]
  OBVIOUS
<1> HIDE DEF To, q
<1>4. ASSUME NEW p \in Nat \X Nat
      PROVE  q[p] = IF p[2] = 0 THEN p[1] ELSE q[<<p[2], p[1] % p[2]>>]
  <2>1. PICK c \in Nat, k \in Nat : p = <<c, k>>
    OBVIOUS
  <2>2. q[<<c, k>>] = IF k = 0 THEN c ELSE To(k)[<<k, c % k>>]
    <3>1. EuclidTo(To(k), k) /\ k \in 0..k
      BY <1>1
    <3>2. To(k)[<<c, k>>] = IF k = 0 THEN c ELSE To(k)[<<k, c % k>>]
      BY <3>1, EuclidToAt
    <3> QED
      BY <1>2, <3>2
  <2>3. ASSUME k # 0 PROVE To(k)[<<k, c % k>>] = q[<<k, c % k>>]
    <3> DEFINE r == c % k
    <3>1. r \in Nat /\ r <= k
      BY <2>3, RemainderIsLess
    <3> HIDE DEF r
    <3>2. To(k)[<<k, r>>] = To(r)[<<k, r>>]
      BY <1>1, <3>1, EuclidToUnique
    <3>3. q[<<k, r>>] = To(r)[<<k, r>>]
      BY <1>2, <3>1
    <3> QED
      BY <3>2, <3>3 DEF r
  <2> QED
    BY <2>1, <2>2, <2>3
<1>5. Euclid(q)
  <2>1. q = [p \in Nat \X Nat |-> IF p[2] = 0 THEN p[1] ELSE q[<<p[2], p[1] % p[2]>>]]
    BY <1>3, <1>4
  <2> QED
    BY <2>1 DEF Euclid
<1>6. gcd = CHOOSE f : Euclid(f)
  BY DEF gcd, Euclid
<1>7. Euclid(gcd)
  BY <1>5, <1>6
<1>8. gcd = [p \in Nat \X Nat |-> IF p[2] = 0 THEN p[1] ELSE gcd[<<p[2], p[1] % p[2]>>]]
  BY <1>7 DEF Euclid
<1> DEFINE g == gcd
<1>9. g = [p \in Nat \X Nat |-> IF p[2] = 0 THEN p[1] ELSE g[<<p[2], p[1] % p[2]>>]]
  BY <1>8
<1> HIDE DEF g
<1>10. g[<<a, b>>] = IF b = 0 THEN a ELSE g[<<b, a % b>>]
  BY <1>9
<1> QED
  BY <1>10 DEF g

(* The greatest common divisor of two numbers is a number both are multiples
   of, unless both are 0. *)
LEMMA GcdDivides ==
  ASSUME NEW a \in Nat, NEW b \in Nat, a > 0 \/ b > 0
  PROVE  /\ gcd[<<a, b>>] \in Nat \ {0}
         /\ \E x, y \in Nat : a = gcd[<<a, b>>] * x /\ b = gcd[<<a, b>>] * y
<1> DEFINE g(c, k) == gcd[<<c, k>>]
           Divides(c, k) == /\ g(c, k) \in Nat \ {0}
                            /\ \E x, y \in Nat : c = g(c, k) * x /\ k = g(c, k) * y
           Good == {i \in Nat : \A k \in 0..i, c \in Nat : (c > 0 \/ k > 0) => Divides(c, k)}
<1>1. \A c, k \in Nat : g(c, k) = IF k = 0 THEN c ELSE g(k, c % k)
  BY GcdAt
<1> HIDE DEF g
<1>2. ASSUME NEW c \in Nat, c > 0 PROVE Divides(c, 0)
  <2>1. g(c, 0) = c
    BY <1>1
  <2>2. \E x, y \in Nat : c = g(c, 0) * x /\ 0 = g(c, 0) * y
    <3> WITNESS 1 \in Nat, 0 \in Nat
    <3> QED
      BY <2>1
  <2> QED
    BY <1>2, <2>1, <2>2
<1>3. 0 \in Good
  <2> HIDE DEF Divides
  <2> QED
    BY <1>2
<1>4. ASSUME NEW i \in Nat, i \in Good PROVE i + 1 \in Good
  <2>1. SUFFICES ASSUME NEW c \in Nat
                 PROVE  Divides(c, i + 1)
    <3> HIDE DEF Divides
    <3> QED
      BY <1>4
  <2> DEFINE k == i + 1
             r == c % k
             d == g(k, r)
  <2>2. r \in 0..i /\ k \in Nat \ {0} /\ g(c, k) = d
    <3>1. k \in Nat \ {0} /\ k - 1 = i
      OBVIOUS
    <3>2. r \in 0..i
      BY <3>1, RemainderIsLess
    <3> QED
      BY <1>1, <3>1, <3>2
  <2> DEFINE h == c \div k
  <2>3. c = k * h + r /\ h \in Nat
    <3> HIDE DEF k
    <3> QED
      BY <2>2
  <2> HIDE DEF k, r, d, h
  <2>4. Divides(k, r)
    BY <1>4, <2>2
  <2>5. PICK x, y \in Nat : k = d * x /\ r = d * y /\ d \in Nat \ {0}
    BY <2>4 DEF d
  <2>6. c = d * (x * h + y)
    <3>1. d * (x * h + y) = (d * x) * h + d * y
      BY <2>3, <2>5
    <3> QED
      BY <2>3, <2>5, <3>1
  <2>7. x * h + y \in Nat
    BY <2>3, <2>5
  <2>8. Divides(c, k)
    BY <2>2, <2>5, <2>6, <2>7
  <2> QED
    BY <2>8 DEF k
<1> HIDE DEF Good
<1>5. b \in Good
  BY <1>3, <1>4, NatSetInduction
<1>6. Divides(a, b)
  BY <1>5 DEF Good
<1> QED
  BY <1>6 DEF g


(* a is the fraction n / d.  What is 0 has the denominator 1. *)
Is(a, n, d) ==
    /\ a \in Fractions /\ (a[1] = 0 => a[2] = 1)
    /\ n \in Int /\ d \in Nat \ {0}
    /\ a[1] * d = n * a[2]

(* The fractions the operations give. *)
Lowest == {a \in Fractions : a[1] = 0 => a[2] = 1}

(* Equals times the same are equal, and the same taken out again. *)
LEMMA TimesSame ==
  ASSUME NEW x \in Int, NEW y \in Int, NEW z \in Int, x = y
  PROVE  x * z = y * z
OBVIOUS

(* A positive factor can be taken out of a comparison. *)
LEMMA TakenOut ==
  ASSUME NEW x \in Int, NEW y \in Int, NEW z \in Nat \ {0}
  PROVE  /\ x * z = y * z <=> x = y
         /\ x * z <= y * z <=> x <= y
         /\ x * z < y * z <=> x < y
<1>1. ASSUME NEW u \in Int, NEW v \in Int, u < v PROVE u * z < v * z
  <2>1. (u + 1) * z <= v * z
    BY <1>1, TimesKeepsOrder
  <2>2. (u + 1) * z = u * z + z /\ u * z \in Int /\ v * z \in Int
    OBVIOUS
  <2> QED
    BY <2>1, <2>2
<1>2. x * z \in Int /\ y * z \in Int
  OBVIOUS
<1>3. CASE x < y
  BY <1>1, <1>2, <1>3
<1>4. CASE y < x
  BY <1>1, <1>2, <1>4
<1>5. CASE x = y
  BY <1>2, <1>5
<1> QED
  BY <1>3, <1>4, <1>5

(* A product divided by one of its factors is the other. *)
LEMMA ProductDivided ==
  ASSUME NEW g \in Nat \ {0}, NEW x \in Int
  PROVE  (g * x) \div g = x
<1> DEFINE q == (g * x) \div g
           r == (g * x) % g
<1>1. g * x \in Int
  OBVIOUS
<1>2. g * x = g * q + r /\ q \in Int /\ r \in 0..(g - 1)
  <2> DEFINE p == g * x
  <2>1. p \in Int
    BY <1>1
  <2> HIDE DEF p
  <2>2. p = g * (p \div g) + (p % g) /\ p \div g \in Int /\ p % g \in 0..(g - 1)
    BY <2>1
  <2> QED
    BY <2>2 DEF p
<1> HIDE DEF q, r
<1>3. g * x = x * g /\ g * q = q * g /\ (q + 1) * g = q * g + g /\ x * g \in Int /\ q * g \in Int
  BY <1>2
<1>4. q * g <= x * g /\ x * g < (q + 1) * g
  BY <1>2, <1>3
<1>5. q <= x /\ x < q + 1
  BY <1>2, <1>4, TakenOut
<1> QED
  BY <1>2, <1>5 DEF q

(* Frac puts n / d in lowest terms. *)
LEMMA FracIs ==
  ASSUME NEW n \in Int, NEW d \in Nat \ {0}
  PROVE  Is(Frac(n, d), n, d)
<1> DEFINE g == gcd[<<Magnitude(n), Magnitude(d)>>]
<1>1. Magnitude(n) \in Nat /\ Magnitude(d) = d
  BY DEF Magnitude
<1>2. PICK x \in Nat, y \in Nat : Magnitude(n) = g * x /\ d = g * y /\ g \in Nat \ {0}
  BY <1>1, GcdDivides
<1>3. n = 0 => g = d
  <2>1. SUFFICES ASSUME n = 0 PROVE gcd[<<0, d>>] = d
    BY <1>1 DEF Magnitude
  <2>2. 0 % d = 0
    OBVIOUS
  <2>3. gcd[<<0, d>>] = gcd[<<d, 0>>]
    BY <2>2, GcdAt
  <2>4. gcd[<<d, 0>>] = d
    BY GcdAt
  <2> QED
    BY <2>3, <2>4
<1>4. Frac(n, d) = <<1 * (n \div g), 1 * (d \div g)>>
  BY DEF Frac
<1> HIDE DEF g
<1>5. PICK z \in Int : n = g * z
  <2>1. CASE n < 0
    <3>1. n = -(g * x) /\ -x \in Int
      BY <1>2, <2>1 DEF Magnitude
    <3>2. n = g * (-x)
      BY <1>2, <3>1
    <3> QED
      BY <3>1, <3>2
  <2>2. CASE ~(n < 0)
    BY <1>2, <2>2 DEF Magnitude
  <2> QED
    BY <2>1, <2>2
<1>6. n \div g = z /\ d \div g = y
  <2>1. (g * z) \div g = z
    BY <1>2, ProductDivided
  <2>2. (g * y) \div g = y
    BY <1>2, ProductDivided
  <2>3. n \div g = (g * z) \div g
    BY <1>5
  <2>4. d \div g = (g * y) \div g
    BY <1>2
  <2> QED
    BY <2>1, <2>2, <2>3, <2>4
<1>7. Frac(n, d) = <<z, y>>
  BY <1>4, <1>6
<1>8. y # 0
  BY <1>2
<1>9. z * d = n * y
  <2>1. z * d = z * (g * y) /\ n * y = (g * z) * y
    BY <1>2, <1>5
  <2>2. z * (g * y) = (g * z) * y
    BY <1>2
  <2> QED
    BY <2>1, <2>2
<1>10. z = 0 => y = 1
  <2>1. SUFFICES ASSUME z = 0 PROVE y = 1
    OBVIOUS
  <2>2. n = 0
    BY <1>2, <1>5, <2>1
  <2>3. g * y = g * 1
    BY <1>2, <1>3, <2>2
  <2>4. y * g = 1 * g
    BY <1>2, <2>3
  <2> QED
    BY <1>2, <2>4, TakenOut
<1> QED
  BY <1>7, <1>8, <1>9, <1>10 DEF Is, Fractions

(* What it is, in other terms. *)
LEMMA IsAlso ==
  ASSUME NEW a, NEW n, NEW d, Is(a, n, d), NEW m \in Int, NEW e \in Nat \ {0}, n * e = m * d
  PROVE  Is(a, m, e)
<1>1. a[1] \in Int /\ a[2] \in Nat \ {0} /\ n \in Int /\ d \in Nat \ {0} /\ a[1] * d = n * a[2]
  BY DEF Is, Fractions
<1> DEFINE x == a[1]
           y == a[2]
<1>2. x \in Int /\ y \in Nat \ {0} /\ x * d = n * y
  BY <1>1
<1> HIDE DEF x, y
<1>3. (x * d) * e = (n * y) * e
  BY <1>1, <1>2, TimesSame
<1>4. (n * e) * y = (m * d) * y
  BY <1>1, <1>2, TimesSame
<1>5. (x * e) * d = (m * y) * d
  <2>1. (x * e) * d = (x * d) * e /\ (n * y) * e = (n * e) * y /\ (m * d) * y = (m * y) * d
    BY <1>1, <1>2
  <2> QED
    BY <1>3, <1>4, <2>1
<1>6. x * e \in Int /\ m * y \in Int
  BY <1>2
<1>7. x * e = m * y
  BY <1>1, <1>5, <1>6, TakenOut
<1> QED
  BY <1>7 DEF Is, x, y

(* A fraction over a multiple of its denominator. *)
LEMMA IsScaled ==
  ASSUME NEW a, NEW n, NEW d, Is(a, n, d), NEW k \in Nat \ {0}
  PROVE  Is(a, n * k, d * k)
<1>1. n \in Int /\ d \in Nat \ {0}
  BY DEF Is
<1>2. n * k \in Int /\ d * k \in Nat \ {0}
  <2>1. \A i, j \in Nat \ {0} : i * j \in Nat \ {0}
    OBVIOUS
  <2> QED
    BY <1>1, <2>1
<1>3. n * (d * k) = (n * k) * d
  BY <1>1
<1> QED
  BY <1>2, <1>3, IsAlso

(* A fraction in lowest terms is what it says. *)
LEMMA IsItself ==
  ASSUME NEW a \in Lowest
  PROVE  Is(a, a[1], a[2]) /\ a[1] \in Int /\ a[2] \in Nat \ {0}
BY DEF Is, Lowest, Fractions

(* A fraction over a denominator is in lowest terms. *)
LEMMA IsLowest ==
  ASSUME NEW a, NEW n, NEW d, Is(a, n, d)
  PROVE  a \in Lowest
BY DEF Is, Lowest

(* A whole number over any denominator. *)
LEMMA WholeIs ==
  ASSUME NEW n \in Int, NEW d \in Nat \ {0}
  PROVE  Is(Whole(n), n * d, d)
<1>1. Whole(n)[1] = n /\ Whole(n)[2] = 1 /\ Whole(n) \in Fractions
  BY DEF Whole, Fractions
<1>2. n * d \in Int /\ (n * d) * 1 = n * d
  OBVIOUS
<1> QED
  BY <1>1, <1>2 DEF Is


(* The operations, on fractions of one denominator. *)
LEMMA PlusIs ==
  ASSUME NEW a, NEW b, NEW n, NEW m, NEW d, Is(a, n, d), Is(b, m, d)
  PROVE  Is(Plus(a, b), n + m, d) /\ Is(Minus(a, b), n - m, d)
<1> DEFINE x == a[1]
           y == a[2]
           u == b[1]
           v == b[2]
<1>1. /\ x \in Int /\ y \in Nat \ {0} /\ u \in Int /\ v \in Nat \ {0}
      /\ n \in Int /\ m \in Int /\ d \in Nat \ {0}
      /\ x * d = n * y /\ u * d = m * v
  BY DEF Is, Fractions
<1>2. Plus(a, b) = Frac(x * v + u * y, y * v) /\ Minus(a, b) = Frac(x * v - u * y, y * v)
  BY DEF Plus, Minus
<1> HIDE DEF x, y, u, v
<1>3. y * v \in Nat \ {0} /\ x * v \in Int /\ u * y \in Int
  <2>1. \A i, j \in Nat \ {0} : i * j \in Nat \ {0}
    OBVIOUS
  <2> QED
    BY <1>1, <2>1
<1>4. x * v * d = n * (y * v) /\ u * y * d = m * (y * v)
  <2>1. (x * d) * v = (n * y) * v /\ (u * d) * y = (m * v) * y
    BY <1>1, TimesSame
  <2>2. (x * d) * v = x * v * d /\ (n * y) * v = n * (y * v)
        /\ (u * d) * y = u * y * d /\ (m * v) * y = m * (y * v)
    BY <1>1
  <2> QED
    BY <2>1, <2>2
<1>5. (x * v + u * y) * d = (n + m) * (y * v) /\ (x * v - u * y) * d = (n - m) * (y * v)
  <2>1. (x * v + u * y) * d = x * v * d + u * y * d /\ (x * v - u * y) * d = x * v * d - u * y * d
    BY <1>1
  <2>2. (n + m) * (y * v) = n * (y * v) + m * (y * v) /\ (n - m) * (y * v) = n * (y * v) - m * (y * v)
    BY <1>1
  <2> QED
    BY <1>4, <2>1, <2>2
<1>6. x * v + u * y \in Int /\ x * v - u * y \in Int /\ n + m \in Int /\ n - m \in Int
  BY <1>1, <1>3
<1> DEFINE p == x * v + u * y
           q == x * v - u * y
           w == y * v
<1>7. p \in Int /\ q \in Int /\ w \in Nat \ {0} /\ p * d = (n + m) * w /\ q * d = (n - m) * w
      /\ Plus(a, b) = Frac(p, w) /\ Minus(a, b) = Frac(q, w)
  BY <1>2, <1>3, <1>5, <1>6
<1> HIDE DEF p, q, w
<1>8. Is(Frac(p, w), p, w) /\ Is(Frac(q, w), q, w)
  BY <1>7, FracIs
<1>9. Is(Frac(p, w), n + m, d)
  BY <1>1, <1>6, <1>7, <1>8, IsAlso
<1>10. Is(Frac(q, w), n - m, d)
  BY <1>1, <1>6, <1>7, <1>8, IsAlso
<1> QED
  BY <1>7, <1>9, <1>10

(* A product is the product over the product. *)
LEMMA TimesIs ==
  ASSUME NEW a, NEW b, NEW n, NEW m, NEW d, NEW e, Is(a, n, d), Is(b, m, e)
  PROVE  Is(Times(a, b), n * m, d * e)
<1> DEFINE x == a[1]
           y == a[2]
           u == b[1]
           v == b[2]
<1>1. /\ x \in Int /\ y \in Nat \ {0} /\ u \in Int /\ v \in Nat \ {0}
      /\ n \in Int /\ m \in Int /\ d \in Nat \ {0} /\ e \in Nat \ {0}
      /\ x * d = n * y /\ u * e = m * v
  BY DEF Is, Fractions
<1>2. Times(a, b) = Frac(x * u, y * v)
  BY DEF Times
<1> HIDE DEF x, y, u, v
<1>3. y * v \in Nat \ {0} /\ d * e \in Nat \ {0} /\ x * u \in Int /\ n * m \in Int
  <2>1. \A i, j \in Nat \ {0} : i * j \in Nat \ {0}
    OBVIOUS
  <2> QED
    BY <1>1, <2>1
<1>4. (x * u) * (d * e) = (n * m) * (y * v)
  <2>1. (x * d) * (u * e) = (n * y) * (u * e)
    BY <1>1, TimesSame
  <2>2. (u * e) * (n * y) = (m * v) * (n * y)
    BY <1>1, TimesSame
  <2>3. (x * u) * (d * e) = (x * d) * (u * e)
    BY <1>1
  <2>4. (n * m) * (y * v) = (m * v) * (n * y)
    BY <1>1
  <2>5. (u * e) * (n * y) = (n * y) * (u * e)
    BY <1>1
  <2> QED
    BY <2>1, <2>2, <2>3, <2>4, <2>5
<1> DEFINE p == x * u
           w == y * v
           h == n * m
           k == d * e
<1>5. p \in Int /\ w \in Nat \ {0} /\ h \in Int /\ k \in Nat \ {0} /\ p * k = h * w
      /\ Times(a, b) = Frac(p, w)
  BY <1>2, <1>3, <1>4
<1> HIDE DEF p, w, h, k
<1>6. Is(Frac(p, w), h, k)
  BY <1>5, FracIs, IsAlso
<1> QED
  BY <1>5, <1>6 DEF h, k

(* A quotient is one numerator over the other. *)
LEMMA OverIs ==
  ASSUME NEW a, NEW b, NEW n, NEW m, NEW d, Is(a, n, d), Is(b, m, d), m > 0
  PROVE  Is(Over(a, b), n, m)
<1> DEFINE x == a[1]
           y == a[2]
           u == b[1]
           v == b[2]
<1>1. /\ x \in Int /\ y \in Nat \ {0} /\ u \in Int /\ v \in Nat \ {0}
      /\ n \in Int /\ m \in Nat \ {0} /\ d \in Nat \ {0}
      /\ x * d = n * y /\ u * d = m * v
  BY DEF Is, Fractions
<1>2. Over(a, b) = Frac(x * v, y * u)
  BY DEF Over
<1> HIDE DEF x, y, u, v
<1>3. u > 0
  <2>1. \A i, j \in Nat \ {0} : i * j \in Nat \ {0}
    OBVIOUS
  <2>2. m * v > 0 /\ m * v \in Int
    BY <1>1, <2>1
  <2>3. 0 * d < u * d
    BY <1>1, <2>2
  <2>4. 0 < u
    BY <1>1, <2>3, TakenOut
  <2> QED
    BY <1>1, <2>4
<1>4. y * u \in Nat \ {0} /\ x * v \in Int
  <2>1. \A i, j \in Nat \ {0} : i * j \in Nat \ {0}
    OBVIOUS
  <2> QED
    BY <1>1, <1>3, <2>1
<1>5. (x * v) * m = n * (y * u)
  <2>1. (x * d) * (m * v) = (n * y) * (m * v)
    BY <1>1, TimesSame
  <2>2. (u * d) * (n * y) = (m * v) * (n * y)
    BY <1>1, TimesSame
  <2>3. ((x * v) * m) * d = (x * d) * (m * v) /\ (n * (y * u)) * d = (u * d) * (n * y)
    BY <1>1
  <2>4. (n * y) * (m * v) = (m * v) * (n * y)
    BY <1>1
  <2>5. ((x * v) * m) * d = (n * (y * u)) * d
    BY <2>1, <2>2, <2>3, <2>4
  <2>6. (x * v) * m \in Int /\ n * (y * u) \in Int
    BY <1>1
  <2> QED
    BY <1>1, <2>5, <2>6, TakenOut
<1> DEFINE p == x * v
           w == y * u
<1>6. p \in Int /\ w \in Nat \ {0} /\ p * m = n * w /\ Over(a, b) = Frac(p, w)
  BY <1>2, <1>4, <1>5
<1> HIDE DEF p, w
<1>7. Is(Frac(p, w), n, m)
  BY <1>1, <1>6, FracIs, IsAlso
<1> QED
  BY <1>6, <1>7

(* Divided by a whole number. *)
LEMMA OverWholeIs ==
  ASSUME NEW a, NEW n, NEW d, Is(a, n, d), NEW k \in Nat \ {0}
  PROVE  Is(Over(a, Whole(k)), n, d * k)
<1>1. d \in Nat \ {0} /\ n \in Int
  BY DEF Is
<1>2. Is(Whole(k), k * d, d)
  BY <1>1, WholeIs
<1>3. k * d > 0 /\ k * d = d * k
  <2>1. \A i, j \in Nat \ {0} : i * j \in Nat \ {0}
    OBVIOUS
  <2> QED
    BY <1>1, <2>1
<1> DEFINE w == k * d
<1>4. w > 0 /\ Is(Whole(k), w, d)
  BY <1>2, <1>3
<1> HIDE DEF w
<1>5. Is(Over(a, Whole(k)), n, w)
  BY <1>4, OverIs
<1> QED
  BY <1>3, <1>5 DEF w

(* They are compared by their numerators. *)
LEMMA ComparedIs ==
  ASSUME NEW a, NEW b, NEW n, NEW m, NEW d, Is(a, n, d), Is(b, m, d)
  PROVE  /\ Leq(a, b) <=> n <= m
         /\ Less(a, b) <=> n < m
<1> DEFINE x == a[1]
           y == a[2]
           u == b[1]
           v == b[2]
<1>1. /\ x \in Int /\ y \in Nat \ {0} /\ u \in Int /\ v \in Nat \ {0}
      /\ n \in Int /\ m \in Int /\ d \in Nat \ {0}
      /\ x * d = n * y /\ u * d = m * v
  BY DEF Is, Fractions
<1>2. (Leq(a, b) <=> x * v <= u * y) /\ (Less(a, b) <=> x * v < u * y)
  BY DEF Leq, Less
<1> HIDE DEF x, y, u, v
<1>3. y * v \in Nat \ {0} /\ x * v \in Int /\ u * y \in Int
  <2>1. \A i, j \in Nat \ {0} : i * j \in Nat \ {0}
    OBVIOUS
  <2> QED
    BY <1>1, <2>1
<1>4. (x * v) * d = n * (y * v) /\ (u * y) * d = m * (y * v)
  <2>1. (x * d) * v = (n * y) * v /\ (u * d) * y = (m * v) * y
    BY <1>1, TimesSame
  <2>2. (x * d) * v = (x * v) * d /\ (n * y) * v = n * (y * v)
        /\ (u * d) * y = (u * y) * d /\ (m * v) * y = m * (y * v)
    BY <1>1
  <2> QED
    BY <2>1, <2>2
<1> DEFINE p == x * v
           q == u * y
           w == y * v
<1>5. p \in Int /\ q \in Int /\ w \in Nat \ {0} /\ p * d = n * w /\ q * d = m * w
      /\ (Leq(a, b) <=> p <= q) /\ (Less(a, b) <=> p < q)
  BY <1>2, <1>3, <1>4
<1> HIDE DEF p, q, w
<1>6. (p * d <= q * d <=> p <= q) /\ (p * d < q * d <=> p < q)
  BY <1>1, <1>5, TakenOut
<1>7. (n * w <= m * w <=> n <= m) /\ (n * w < m * w <=> n < m)
  BY <1>1, <1>5, TakenOut
<1> QED
  BY <1>5, <1>6, <1>7

(* What is 0 is Zero, and so are equals. *)
LEMMA ZeroIs ==
  ASSUME NEW a, NEW n, NEW d, Is(a, n, d)
  PROVE  a = Zero <=> n = 0
<1>1. a[1] \in Int /\ a[2] \in Nat \ {0} /\ a = <<a[1], a[2]>> /\ (a[1] = 0 => a[2] = 1)
      /\ n \in Int /\ d \in Nat \ {0} /\ a[1] * d = n * a[2]
  BY DEF Is, Fractions
<1> DEFINE x == a[1]
           y == a[2]
<1>2. x \in Int /\ y \in Nat \ {0} /\ a = <<x, y>> /\ (x = 0 => y = 1) /\ x * d = n * y
  BY <1>1
<1> HIDE DEF x, y
<1>3. x = 0 <=> n = 0
  <2>1. (x * d = 0 * d <=> x = 0) /\ (n * y = 0 * y <=> n = 0)
    BY <1>1, <1>2, TakenOut
  <2>2. 0 * d = 0 /\ 0 * y = 0
    BY <1>1, <1>2
  <2> QED
    BY <1>2, <2>1, <2>2
<1>4. a = Zero <=> x = 0
  BY <1>2 DEF Zero, Whole
<1> QED
  BY <1>3, <1>4

(* The size of a fraction is the size of its numerator. *)
LEMMA SizeIs ==
  ASSUME NEW a, NEW n, NEW d, Is(a, n, d)
  PROVE  Is(Size(a), Magnitude(n), d)
<1> DEFINE x == a[1]
           y == a[2]
<1>1. x \in Int /\ y \in Nat \ {0} /\ (x = 0 => y = 1)
      /\ n \in Int /\ d \in Nat \ {0} /\ x * d = n * y
  BY DEF Is, Fractions
<1>2. Size(a) = <<Magnitude(x), y>>
  BY DEF Size
<1> HIDE DEF x, y
<1>3. Magnitude(x) \in Int /\ Magnitude(n) \in Int /\ (Magnitude(x) = 0 => x = 0)
  BY <1>1 DEF Magnitude
<1>4. x < 0 <=> n < 0
  <2>1. (x * d < 0 * d <=> x < 0) /\ (n * y < 0 * y <=> n < 0)
    BY <1>1, TakenOut
  <2>2. 0 * d = 0 /\ 0 * y = 0
    BY <1>1
  <2> QED
    BY <1>1, <2>1, <2>2
<1>5. Magnitude(x) * d = Magnitude(n) * y
  <2>1. CASE x < 0
    <3>1. Magnitude(x) = -x /\ Magnitude(n) = -n
      BY <1>4, <2>1 DEF Magnitude
    <3>2. (-x) * d = -(x * d) /\ (-n) * y = -(n * y)
      BY <1>1
    <3> QED
      BY <1>1, <3>1, <3>2
  <2>2. CASE ~(x < 0)
    BY <1>1, <1>4, <2>2 DEF Magnitude
  <2> QED
    BY <2>1, <2>2
<1>6. Size(a) \in Fractions /\ Size(a)[1] = Magnitude(x) /\ Size(a)[2] = y
  BY <1>1, <1>2, <1>3 DEF Fractions
<1> QED
  BY <1>1, <1>3, <1>5, <1>6 DEF Is

(* Any two fractions have a common denominator, and a third joins them. *)
LEMMA IsJoining ==
  ASSUME NEW d \in Nat \ {0}, NEW c \in Lowest
  PROVE  \E k \in Nat \ {0}, m \in Int : Is(c, m, d * k)
<1>1. Is(c, c[1], c[2]) /\ c[1] \in Int /\ c[2] \in Nat \ {0}
  BY IsItself
<1> DEFINE k == c[2]
           m == c[1]
<1>2. Is(c, m, k) /\ m \in Int /\ k \in Nat \ {0}
  BY <1>1
<1> HIDE DEF k, m
<1>3. Is(c, m * d, k * d)
  BY <1>2, IsScaled
<1>4. k * d = d * k /\ m * d \in Int
  BY <1>2
<1>5. Is(c, m * d, d * k)
  BY <1>3, <1>4
<1> QED
  BY <1>2, <1>4, <1>5

(* Two fractions have a common denominator. *)
LEMMA IsTwo ==
  ASSUME NEW a \in Lowest, NEW b \in Lowest
  PROVE  \E d \in Nat \ {0}, n, m \in Int : Is(a, n, d) /\ Is(b, m, d)
<1>1. PICK e \in Nat \ {0}, h \in Int : Is(a, h, e)
  BY IsItself
<1>2. PICK k \in Nat \ {0}, m \in Int : Is(b, m, e * k)
  BY IsJoining
<1>3. Is(a, h * k, e * k)
  BY <1>1, IsScaled
<1>4. h * k \in Int /\ e * k \in Nat \ {0}
  BY <1>2, <1>3 DEF Is
<1> QED
  BY <1>2, <1>3, <1>4

(* And so have three. *)
LEMMA IsThree ==
  ASSUME NEW a \in Lowest, NEW b \in Lowest, NEW c \in Lowest
  PROVE  \E d \in Nat \ {0}, n, m, l \in Int : Is(a, n, d) /\ Is(b, m, d) /\ Is(c, l, d)
<1>1. PICK e \in Nat \ {0}, h \in Int, i \in Int : Is(a, h, e) /\ Is(b, i, e)
  BY IsTwo
<1>2. PICK k \in Nat \ {0}, l \in Int : Is(c, l, e * k)
  BY IsJoining
<1>3. Is(a, h * k, e * k) /\ Is(b, i * k, e * k)
  BY <1>1, <1>2, IsScaled
<1>4. h * k \in Int /\ i * k \in Int /\ e * k \in Nat \ {0}
  BY <1>2, <1>3 DEF Is
<1> QED
  BY <1>2, <1>3, <1>4


(* The fractions from lo to hi. *)
Between(lo, hi) == {a \in Lowest : Leq(lo, a) /\ Leq(a, hi)}

(* A fraction lies between two if its numerator does, over a common denominator. *)
LEMMA BetweenIs ==
  ASSUME NEW a, NEW lo, NEW hi, NEW n, NEW l, NEW h, NEW d,
         Is(a, n, d), Is(lo, l, d), Is(hi, h, d)
  PROVE  a \in Between(lo, hi) <=> l <= n /\ n <= h
<1>1. Leq(lo, a) <=> l <= n
  BY ComparedIs
<1>2. Leq(a, hi) <=> n <= h
  BY ComparedIs
<1>3. a \in Lowest
  BY IsLowest
<1> QED
  BY <1>1, <1>2, <1>3 DEF Between

(* A whole number is in lowest terms. *)
LEMMA WholeLowest ==
  ASSUME NEW n \in Int
  PROVE  Whole(n) \in Lowest
BY DEF Whole, Lowest, Fractions

(* Two fractions and the bounds of an interval, in numbers. *)
BothWithin(a, b, lo, hi) ==
    \E d \in Nat \ {0}, n \in Int, m \in Int, l \in Int, h \in Int :
        /\ Is(a, n, d) /\ Is(b, m, d) /\ Is(lo, l, d) /\ Is(hi, h, d)
        /\ l <= n /\ n <= h /\ l <= m /\ m <= h

(* Two members of an interval and its bounds have a common denominator. *)
LEMMA IsInterval ==
  ASSUME NEW lo \in Lowest, NEW hi \in Lowest, NEW a \in Between(lo, hi), NEW b \in Between(lo, hi)
  PROVE  BothWithin(a, b, lo, hi)
<1>1. a \in Lowest /\ b \in Lowest
  BY DEF Between
<1>2. PICK e \in Nat \ {0}, n \in Int, m \in Int, l \in Int : Is(a, n, e) /\ Is(b, m, e) /\ Is(lo, l, e)
  BY <1>1, IsThree
<1>3. PICK k \in Nat \ {0}, h \in Int : Is(hi, h, e * k)
  BY IsJoining
<1>4. Is(a, n * k, e * k) /\ Is(b, m * k, e * k) /\ Is(lo, l * k, e * k)
  BY <1>2, <1>3, IsScaled
<1> DEFINE d == e * k
           p == n * k
           q == m * k
           r == l * k
<1>5. d \in Nat \ {0} /\ p \in Int /\ q \in Int /\ r \in Int
      /\ Is(a, p, d) /\ Is(b, q, d) /\ Is(lo, r, d) /\ Is(hi, h, d)
  BY <1>3, <1>4 DEF Is
<1> HIDE DEF d, p, q, r
<1>6. r <= p /\ p <= h
  BY <1>5, BetweenIs
<1>7. r <= q /\ q <= h
  BY <1>5, BetweenIs
<1> QED
  BY <1>5, <1>6, <1>7 DEF BothWithin

----------------------------------------------------------------------------
(* What the loops keep. *)

(* A loop stays in a set that its seed is in and that its body keeps. *)
LEMMA LoopKeeps ==
  ASSUME NEW X, NEW seed \in X, NEW first \in Nat, NEW n \in Nat, NEW step,
         \A i \in 1..n : i > first => \A x \in X : step[i][x] \in X,
         NEW k \in Nat, k <= n
  PROVE  RunOf(seed, first, step)[k] \in X
<1> DEFINE r == RunOf(seed, first, step)
           Good == {i \in Nat : i <= n => r[i] \in X}
<1>1. Runs(r, seed, first, step)
  BY RunExists
<1> HIDE DEF r
<1>2. \A i \in Nat : r[i] = IF i <= first THEN seed ELSE step[i][r[i - 1]]
  BY <1>1, RunsAt
<1>3. 0 \in Good
  BY <1>2
<1>4. ASSUME NEW i \in Nat, i \in Good PROVE i + 1 \in Good
  <2>1. SUFFICES ASSUME i + 1 <= n PROVE r[i + 1] \in X
    OBVIOUS
  <2>2. r[i] \in X /\ i + 1 \in 1..n /\ i + 1 \in Nat /\ (i + 1) - 1 = i
    BY <1>4, <2>1
  <2>3. r[i + 1] = IF i + 1 <= first THEN seed ELSE step[i + 1][r[(i + 1) - 1]]
    BY <1>2, <2>2
  <2> QED
    BY <2>2, <2>3
<1> HIDE DEF Good
<1>5. k \in Good
  BY <1>3, <1>4, NatSetInduction
<1> QED
  BY <1>5 DEF Good, r

(* A series of length n that has values, all in X, behind position w. *)
KnownBehind(s, n, w, X) ==
    /\ s = [i \in 1..n |-> s[i]]
    /\ \A i \in 1..n : IF i <= w THEN s[i] = NoValue ELSE s[i] \in X

(* So it is with the running averages. *)
LEMMA RunningKeeps ==
  ASSUME NEW X, NEW n \in Nat, NEW first \in Nat \ {0}, NEW seed, first <= n => seed \in X,
         NEW step, DOMAIN step = 1..n,
         \A i \in 1..n : i > first => \A x \in X : step[i][x] \in X
  PROVE  KnownBehind(Running(seed, first, step), n, first - 1, X)
<1> DEFINE s == Running(seed, first, step)
<1>1. s = [i \in 1..n |-> IF i < first THEN NoValue ELSE RunOf(seed, first, step)[i]]
  BY RunningByRun
<1>2. ASSUME NEW i \in 1..n
      PROVE  IF i <= first - 1 THEN s[i] = NoValue ELSE s[i] \in X
  <2>1. CASE i < first
    BY <1>1, <2>1
  <2>2. CASE ~(i < first)
    <3>1. seed \in X /\ i \in Nat /\ i <= n
      BY <2>2
    <3>2. RunOf(seed, first, step)[i] \in X
      BY <3>1, LoopKeeps
    <3> QED
      BY <1>1, <2>2, <3>2
  <2> QED
    BY <2>1, <2>2
<1>3. s = [i \in 1..n |-> s[i]]
  BY <1>1
<1> HIDE DEF s
<1>4. KnownBehind(s, n, first - 1, X)
  BY <1>2, <1>3 DEF KnownBehind
<1> QED
  BY <1>4 DEF s


(* A whole number as a fraction of one. *)
LEMMA WholeOverOne ==
  ASSUME NEW n \in Int
  PROVE  Is(Whole(n), n, 1)
<1>1. Is(Whole(n), n * 1, 1)
  BY WholeIs
<1>2. n * 1 = n
  OBVIOUS
<1> QED
  BY <1>1, <1>2

(* r is a sum of k fractions from lo to hi. *)
Totals(r, k, lo, hi) ==
    \E d \in Nat \ {0}, n, l, h \in Int :
        /\ Is(r, n, d) /\ Is(lo, l, d) /\ Is(hi, h, d)
        /\ k * l <= n /\ n <= k * h

(* One more value of the range is one more time the range. *)
LEMMA TotalsGrow ==
  ASSUME NEW lo, NEW hi, NEW r, NEW k \in Nat, Totals(r, k, lo, hi), NEW a \in Between(lo, hi)
  PROVE  Totals(Plus(r, a), k + 1, lo, hi) /\ r \in Fractions
<1>1. PICK d \in Nat \ {0}, n \in Int, l \in Int, h \in Int :
        /\ Is(r, n, d) /\ Is(lo, l, d) /\ Is(hi, h, d)
        /\ k * l <= n /\ n <= k * h
  BY DEF Totals
<1>2. a \in Lowest
  BY DEF Between
<1>3. PICK e \in Nat \ {0}, m \in Int : Is(a, m, d * e)
  BY <1>2, IsJoining
<1>4. Is(r, n * e, d * e) /\ Is(lo, l * e, d * e) /\ Is(hi, h * e, d * e)
  BY <1>1, <1>3, IsScaled
<1>5. l * e <= m /\ m <= h * e
  BY <1>3, <1>4, BetweenIs
<1>6. Is(Plus(r, a), n * e + m, d * e)
  BY <1>3, <1>4, PlusIs
<1>7. (k * l) * e <= n * e /\ n * e <= (k * h) * e
  <2>1. k * l \in Int /\ k * h \in Int /\ e \in Nat
    OBVIOUS
  <2> QED
    BY <1>1, <2>1, TimesKeepsOrder
<1>8. (k * l) * e = k * (l * e) /\ (k * h) * e = k * (h * e)
  OBVIOUS
<1> DEFINE x == l * e
           y == h * e
           z == n * e
           f == d * e
<1>9. x \in Int /\ y \in Int /\ z \in Int /\ f \in Nat \ {0}
  BY <1>4 DEF Is
<1>10. Is(Plus(r, a), z + m, f) /\ Is(lo, x, f) /\ Is(hi, y, f)
  BY <1>4, <1>6
<1>11. k * x <= z /\ z <= k * y /\ x <= m /\ m <= y
  BY <1>5, <1>7, <1>8
<1> HIDE DEF x, y, z, f
<1>12. (k + 1) * x = k * x + x /\ (k + 1) * y = k * y + y /\ k * x \in Int /\ k * y \in Int
  BY <1>9
<1>13. (k + 1) * x <= z + m /\ z + m <= (k + 1) * y
  BY <1>9, <1>11, <1>12
<1>14. z + m \in Int
  BY <1>9
<1>15. Totals(Plus(r, a), k + 1, lo, hi)
  BY <1>9, <1>10, <1>13, <1>14 DEF Totals
<1>16. r \in Fractions
  BY <1>1 DEF Is
<1> QED
  BY <1>15, <1>16

(* The sum of a list of them. *)
LEMMA SumTotals ==
  ASSUME NEW s, IsList(s), NEW lo \in Lowest, NEW hi \in Lowest,
         \A i \in 1..Len(s) : s[i] \in Between(lo, hi)
  PROVE  Totals(SumOf(s), Len(s), lo, hi)
<1> DEFINE step == [i \in DOMAIN s |-> [total \in Fractions |-> Plus(total, s[i])]]
           r == RunOf(Zero, 0, step)
           Good == {k \in Nat : k <= Len(s) => Totals(r[k], k, lo, hi)}
<1>1. SumOf(s) = r[Len(s)]
  BY DEF SumOf, Loop, RunOf, Runs
<1>2. Len(s) \in Nat /\ DOMAIN s = 1..Len(s)
  BY DEF IsList
<1>3. \A i \in 1..Len(s) : \A t \in Fractions : step[i][t] = Plus(t, s[i])
  BY <1>2
<1>4. \A i \in Nat : r[i] = IF i <= 0 THEN Zero ELSE step[i][r[i - 1]]
  <2>1. Runs(r, Zero, 0, step)
    BY RunExists
  <2> HIDE DEF r, step
  <2> QED
    BY <2>1, RunsAt
<1> HIDE DEF r, step
<1>5. 0 \in Good
  <2>1. r[0] = Zero
    BY <1>4
  <2>2. PICK d \in Nat \ {0}, l \in Int, h \in Int : Is(lo, l, d) /\ Is(hi, h, d)
    BY IsTwo
  <2>3. Is(Whole(0), 0 * d, d)
    BY WholeIs
  <2>4. 0 * d = 0 /\ 0 * l <= 0 /\ 0 <= 0 * h
    OBVIOUS
  <2>5. Totals(Zero, 0, lo, hi)
    BY <2>2, <2>3, <2>4 DEF Totals, Zero
  <2> QED
    BY <2>1, <2>5
<1>6. ASSUME NEW k \in Nat, k \in Good PROVE k + 1 \in Good
  <2>1. SUFFICES ASSUME k + 1 <= Len(s) PROVE Totals(r[k + 1], k + 1, lo, hi)
    OBVIOUS
  <2>2. Totals(r[k], k, lo, hi) /\ k + 1 \in 1..Len(s) /\ (k + 1) - 1 = k /\ ~(k + 1 <= 0)
    BY <1>2, <1>6, <2>1
  <2>3. s[k + 1] \in Between(lo, hi)
    BY <2>2
  <2> HIDE DEF Good
  <2>4. Totals(Plus(r[k], s[k + 1]), k + 1, lo, hi) /\ r[k] \in Fractions
    BY <2>2, <2>3, TotalsGrow
  <2>5. r[k + 1] = step[k + 1][r[(k + 1) - 1]]
    BY <1>4, <2>2
  <2>6. r[k + 1] = Plus(r[k], s[k + 1])
    BY <1>3, <2>2, <2>4, <2>5
  <2> QED
    BY <2>4, <2>6
<1> HIDE DEF Good
<1>7. Len(s) \in Good
  BY <1>2, <1>5, <1>6, NatSetInduction
<1> QED
  BY <1>1, <1>2, <1>7 DEF Good

(* The mean of fractions from lo to hi is one. *)
LEMMA MeanWithin ==
  ASSUME NEW s, IsList(s), Len(s) # 0, NEW lo \in Lowest, NEW hi \in Lowest,
         \A i \in 1..Len(s) : s[i] \in Between(lo, hi)
  PROVE  Mean(s) \in Between(lo, hi)
<1> DEFINE k == Len(s)
<1>1. k \in Nat \ {0}
  BY DEF IsList
<1>2. Totals(SumOf(s), k, lo, hi)
  BY SumTotals
<1>3. Mean(s) = Over(SumOf(s), Whole(k))
  BY DEF Mean
<1> HIDE DEF k
<1>4. PICK d \in Nat \ {0}, n \in Int, l \in Int, h \in Int :
        /\ Is(SumOf(s), n, d) /\ Is(lo, l, d) /\ Is(hi, h, d)
        /\ k * l <= n /\ n <= k * h
  BY <1>2 DEF Totals
<1>5. Is(Over(SumOf(s), Whole(k)), n, d * k)
  BY <1>1, <1>4, OverWholeIs
<1>6. Is(lo, l * k, d * k) /\ Is(hi, h * k, d * k)
  BY <1>1, <1>4, IsScaled
<1>7. l * k = k * l /\ h * k = k * h
  BY <1>1
<1>8. l * k <= n /\ n <= h * k
  BY <1>4, <1>7
<1> QED
  BY <1>3, <1>5, <1>6, <1>8, BetweenIs

(* One step of the exponential average stays between the value and the average
   before it ... *)
LEMMA EmaStepWithin ==
  ASSUME NEW lo \in Lowest, NEW hi \in Lowest, NEW v \in Between(lo, hi), NEW a \in Between(lo, hi),
         NEW p \in Nat \ {0}
  PROVE  EmaStep(v, p)[a] \in Between(lo, hi)
<1>1. PICK d \in Nat \ {0}, m \in Int, n \in Int, l \in Int, h \in Int :
        /\ Is(v, m, d) /\ Is(a, n, d) /\ Is(lo, l, d) /\ Is(hi, h, d)
        /\ l <= m /\ m <= h /\ l <= n /\ n <= h
  <2>1. BothWithin(v, a, lo, hi)
    BY IsInterval
  <2> QED
    BY <2>1 DEF BothWithin
<1> DEFINE q == p + 1
           r == p - 1
<1>2. q \in Nat \ {0} /\ r \in Nat /\ r \in Int /\ 2 \in Int /\ q = 2 + r
  OBVIOUS
<1>3. EmaStep(v, p)[a] = Plus(Times(v, Frac(2, q)), Times(a, Frac(r, q)))
  <2>1. a \in Fractions
    BY <1>1 DEF Is
  <2> QED
    BY <2>1 DEF EmaStep
<1> HIDE DEF q, r
<1>4. Is(Frac(2, q), 2, q) /\ Is(Frac(r, q), r, q)
  BY <1>2, FracIs
<1>5. Is(Times(v, Frac(2, q)), m * 2, d * q)
  BY <1>1, <1>4, TimesIs
<1>6. Is(Times(a, Frac(r, q)), n * r, d * q)
  BY <1>1, <1>4, TimesIs
<1>7. Is(EmaStep(v, p)[a], m * 2 + n * r, d * q)
  BY <1>3, <1>5, <1>6, PlusIs
<1>8. Is(lo, l * q, d * q) /\ Is(hi, h * q, d * q)
  BY <1>1, <1>2, IsScaled
<1>9. l * r <= n * r /\ n * r <= h * r
  BY <1>1, <1>2, TimesKeepsOrder
<1>10. l * q = l * 2 + l * r /\ h * q = h * 2 + h * r
  BY <1>2
<1>11. l * r \in Int /\ h * r \in Int /\ n * r \in Int
  BY <1>2
<1>12. l * q <= m * 2 + n * r /\ m * 2 + n * r <= h * q
  BY <1>1, <1>9, <1>10, <1>11
<1> QED
  BY <1>7, <1>8, <1>12, BetweenIs

(* ... and so does one step of Wilder's. *)
LEMMA MeanStepWithin ==
  ASSUME NEW lo \in Lowest, NEW hi \in Lowest, NEW v \in Between(lo, hi), NEW a \in Between(lo, hi),
         NEW p \in Nat \ {0}
  PROVE  MeanStep(v, p)[a] \in Between(lo, hi)
<1>1. PICK d \in Nat \ {0}, m \in Int, n \in Int, l \in Int, h \in Int :
        /\ Is(v, m, d) /\ Is(a, n, d) /\ Is(lo, l, d) /\ Is(hi, h, d)
        /\ l <= m /\ m <= h /\ l <= n /\ n <= h
  <2>1. BothWithin(v, a, lo, hi)
    BY IsInterval
  <2> QED
    BY <2>1 DEF BothWithin
<1> DEFINE r == p - 1
<1>2. r \in Nat /\ r \in Int /\ p = r + 1
  OBVIOUS
<1>3. MeanStep(v, p)[a] = Over(Plus(Times(a, Whole(r)), v), Whole(p))
  <2>1. a \in Fractions
    BY <1>1 DEF Is
  <2> QED
    BY <2>1 DEF MeanStep
<1> HIDE DEF r
<1>4. Is(Whole(r), r, 1)
  BY <1>2, WholeOverOne
<1>5. Is(Times(a, Whole(r)), n * r, d * 1)
  BY <1>1, <1>4, TimesIs
<1>6. d * 1 = d
  OBVIOUS
<1>7. Is(Plus(Times(a, Whole(r)), v), n * r + m, d)
  BY <1>1, <1>5, <1>6, PlusIs
<1>8. Is(MeanStep(v, p)[a], n * r + m, d * p)
  BY <1>3, <1>7, OverWholeIs
<1>9. Is(lo, l * p, d * p) /\ Is(hi, h * p, d * p)
  BY <1>1, IsScaled
<1>10. l * r <= n * r /\ n * r <= h * r
  BY <1>1, <1>2, TimesKeepsOrder
<1>11. l * p = l * r + l /\ h * p = h * r + h
  BY <1>2
<1>12. l * r \in Int /\ h * r \in Int /\ n * r \in Int
  BY <1>2
<1>13. l * p <= n * r + m /\ n * r + m <= h * p
  BY <1>1, <1>10, <1>11, <1>12
<1> QED
  BY <1>8, <1>9, <1>13, BetweenIs


----------------------------------------------------------------------------
(* The ranges of the averages. *)

(* No fraction is NoValue. *)
LEMMA NoValueIsNone == NoValue \notin Lowest
BY DEF NoValue, Lowest, Fractions

(* Whole numbers keep their order. *)
LEMMA WholeWithin ==
  ASSUME NEW n \in Int, NEW l \in Int, NEW h \in Int
  PROVE  Whole(n) \in Between(Whole(l), Whole(h)) <=> l <= n /\ n <= h
<1>1. Is(Whole(n), n, 1) /\ Is(Whole(l), l, 1) /\ Is(Whole(h), h, 1)
  BY WholeOverOne
<1> QED
  BY <1>1, BetweenIs

(* The mean of a part of a list. *)
LEMMA PartMeanWithin ==
  ASSUME NEW s, IsList(s), NEW lo \in Lowest, NEW hi \in Lowest,
         NEW m \in Nat \ {0}, NEW k \in Nat, k <= Len(s), m <= k,
         \A i \in m..k : s[i] \in Between(lo, hi)
  PROVE  Mean(SubSeq(s, m, k)) \in Between(lo, hi)
<1> DEFINE t == SubSeq(s, m, k)
<1>1. m <= k + 1 /\ k - m + 1 # 0
  OBVIOUS
<1>2. /\ IsList(t) /\ Len(t) = k - m + 1
      /\ \A i \in 1..(k - m + 1) : t[i] = s[m + i - 1]
  BY <1>1, PartOfList
<1> HIDE DEF t
<1>3. ASSUME NEW i \in 1..Len(t) PROVE t[i] \in Between(lo, hi)
  <2>1. i \in 1..(k - m + 1) /\ m + i - 1 \in m..k
    BY <1>2
  <2> QED
    BY <1>2, <2>1
<1>4. Mean(t) \in Between(lo, hi)
  BY <1>1, <1>2, <1>3, MeanWithin
<1> QED
  BY <1>4 DEF t

(* The moving average lies where the values do, from its period on (sma). *)
LEMMA SmaWithin ==
  ASSUME NEW s, IsList(s), NEW lo \in Lowest, NEW hi \in Lowest, NEW p \in Nat \ {0},
         \A i \in 1..Len(s) : s[i] \in Between(lo, hi)
  PROVE  KnownBehind(sma(s, p), Len(s), p - 1, Between(lo, hi))
<1> DEFINE f == sma(s, p)
<1>1. f = [i \in 1..Len(s) |-> IF i < p THEN NoValue ELSE Mean(Window(s, i, p))]
  BY DEF sma, IsList
<1>2. ASSUME NEW i \in 1..Len(s)
      PROVE  IF i <= p - 1 THEN f[i] = NoValue ELSE f[i] \in Between(lo, hi)
  <2>1. CASE i < p
    BY <1>1, <2>1
  <2>2. CASE ~(i < p)
    <3>1. i - p + 1 \in Nat \ {0} /\ i \in Nat /\ i <= Len(s) /\ i - p + 1 <= i
      BY <2>2 DEF IsList
    <3>2. \A j \in (i - p + 1)..i : j \in 1..Len(s)
      BY <3>1 DEF IsList
    <3>3. Mean(SubSeq(s, i - p + 1, i)) \in Between(lo, hi)
      BY <3>1, <3>2, PartMeanWithin
    <3> QED
      BY <1>1, <2>2, <3>3 DEF Window
  <2> QED
    BY <2>1, <2>2
<1>3. f = [i \in 1..Len(s) |-> f[i]]
  BY <1>1
<1> HIDE DEF f
<1>4. KnownBehind(f, Len(s), p - 1, Between(lo, hi))
  BY <1>2, <1>3 DEF KnownBehind
<1> QED
  BY <1>4 DEF f

(* The exponential average keeps to a set its seed is in and its steps keep. *)
LEMMA EmaKeeps ==
  ASSUME NEW X, NEW s, IsList(s), NEW p \in Nat \ {0},
         p <= Len(s) => Mean(SubSeq(s, 1, p)) \in X,
         \A i \in 1..Len(s) : \A x \in X : EmaStep(s[i], p)[x] \in X
  PROVE  KnownBehind(ema(s, p), Len(s), p - 1, X)
<1> DEFINE step == [i \in DOMAIN s |-> EmaStep(s[i], p)]
           seed == Mean(SubSeq(s, 1, p))
<1>1. ema(s, p) = Running(seed, p, step)
  BY DEF ema
<1>2. DOMAIN step = 1..Len(s) /\ Len(s) \in Nat
  BY DEF IsList
<1>3. \A i \in 1..Len(s) : step[i] = EmaStep(s[i], p)
  BY <1>2
<1>4. p <= Len(s) => seed \in X
  OBVIOUS
<1> HIDE DEF step, seed
<1>5. \A i \in 1..Len(s) : i > p => \A x \in X : step[i][x] \in X
  BY <1>3
<1>6. KnownBehind(Running(seed, p, step), Len(s), p - 1, X)
  BY <1>2, <1>4, <1>5, RunningKeeps
<1> QED
  BY <1>1, <1>6

(* So does the exponential one (ema). *)
LEMMA EmaWithin ==
  ASSUME NEW s, IsList(s), NEW lo \in Lowest, NEW hi \in Lowest, NEW p \in Nat \ {0},
         \A i \in 1..Len(s) : s[i] \in Between(lo, hi)
  PROVE  KnownBehind(ema(s, p), Len(s), p - 1, Between(lo, hi))
<1>1. p <= Len(s) => Mean(SubSeq(s, 1, p)) \in Between(lo, hi)
  <2> SUFFICES ASSUME p <= Len(s) PROVE Mean(SubSeq(s, 1, p)) \in Between(lo, hi)
    OBVIOUS
  <2>1. 1 \in Nat \ {0} /\ p \in Nat /\ 1 <= p /\ Len(s) \in Nat
    BY DEF IsList
  <2>2. \A i \in 1..p : s[i] \in Between(lo, hi)
    BY <2>1
  <2> QED
    BY <2>1, <2>2, PartMeanWithin
<1>2. ASSUME NEW i \in 1..Len(s), NEW x \in Between(lo, hi)
      PROVE  EmaStep(s[i], p)[x] \in Between(lo, hi)
  <2>1. s[i] \in Between(lo, hi)
    OBVIOUS
  <2> QED
    BY <2>1, EmaStepWithin
<1> QED
  BY <1>1, <1>2, EmaKeeps

(* Wilder's average of what comes from a position on. *)
LEMMA WilderMeanWithin ==
  ASSUME NEW s, IsList(s), NEW lo \in Lowest, NEW hi \in Lowest,
         NEW p \in Nat \ {0}, NEW from \in Nat \ {0},
         \A i \in from..Len(s) : s[i] \in Between(lo, hi)
  PROVE  KnownBehind(WilderMean(s, p, from), Len(s), from + p - 2, Between(lo, hi))
<1> DEFINE step == [i \in DOMAIN s |-> MeanStep(s[i], p)]
           first == from + p - 1
           seed == Mean(SubSeq(s, from, first))
<1>1. WilderMean(s, p, from) = Running(seed, first, step)
  BY DEF WilderMean
<1>2. DOMAIN step = 1..Len(s) /\ Len(s) \in Nat
  BY DEF IsList
<1>3. \A i \in 1..Len(s) : step[i] = MeanStep(s[i], p)
  BY <1>2
<1>4. first \in Nat \ {0} /\ from <= first /\ first - 1 = from + p - 2 /\ first \in Nat
  OBVIOUS
<1> HIDE DEF step, first
<1>5. first <= Len(s) => seed \in Between(lo, hi)
  <2> SUFFICES ASSUME first <= Len(s) PROVE seed \in Between(lo, hi)
    OBVIOUS
  <2>1. \A i \in from..first : s[i] \in Between(lo, hi)
    BY <1>2, <1>4
  <2> QED
    BY <1>4, <2>1, PartMeanWithin
<1> HIDE DEF seed
<1>6. ASSUME NEW i \in 1..Len(s), i > first, NEW x \in Between(lo, hi)
      PROVE  step[i][x] \in Between(lo, hi)
  <2>1. i \in from..Len(s)
    BY <1>2, <1>4, <1>6
  <2>2. s[i] \in Between(lo, hi)
    BY <2>1
  <2>3. MeanStep(s[i], p)[x] \in Between(lo, hi)
    BY <2>2, MeanStepWithin
  <2> QED
    BY <1>3, <2>3
<1>7. KnownBehind(Running(seed, first, step), Len(s), first - 1, Between(lo, hi))
  BY <1>2, <1>4, <1>5, <1>6, RunningKeeps
<1> QED
  BY <1>1, <1>4, <1>7

----------------------------------------------------------------------------
(* The macd has values from the documented positions on. *)

(* A sum and a difference are fractions, and so are a mean and a step. *)
LEMMA PlusLowest ==
  ASSUME NEW a \in Lowest, NEW b \in Lowest
  PROVE  Plus(a, b) \in Lowest /\ Minus(a, b) \in Lowest
<1>1. PICK d \in Nat \ {0}, n \in Int, m \in Int : Is(a, n, d) /\ Is(b, m, d)
  BY IsTwo
<1>2. Is(Plus(a, b), n + m, d) /\ Is(Minus(a, b), n - m, d)
  BY <1>1, PlusIs
<1> QED
  BY <1>2, IsLowest

(* The mean of fractions is a fraction. *)
LEMMA MeanLowest ==
  ASSUME NEW s, IsList(s), Len(s) # 0, \A i \in 1..Len(s) : s[i] \in Lowest
  PROVE  Mean(s) \in Lowest
<1> DEFINE step == [i \in DOMAIN s |-> [total \in Fractions |-> Plus(total, s[i])]]
<1>1. SumOf(s) = RunOf(Zero, 0, step)[Len(s)]
  BY DEF SumOf, Loop, RunOf, Runs
<1>2. Len(s) \in Nat \ {0} /\ DOMAIN s = 1..Len(s) /\ Len(s) \in Nat
  BY DEF IsList
<1>3. ASSUME NEW i \in 1..Len(s), NEW x \in Lowest PROVE step[i][x] \in Lowest
  <2>1. x \in Fractions /\ s[i] \in Lowest
    BY DEF Lowest
  <2>2. step[i][x] = Plus(x, s[i])
    BY <1>2, <2>1
  <2> QED
    BY <2>1, <2>2, PlusLowest
<1> HIDE DEF step
<1>4. Zero \in Lowest /\ 0 \in Nat
  BY WholeLowest DEF Zero
<1>5. SumOf(s) \in Lowest
  <2>1. \A i \in 1..Len(s) : i > 0 => \A x \in Lowest : step[i][x] \in Lowest
    BY <1>3
  <2>2. Len(s) <= Len(s)
    BY <1>2
  <2>3. RunOf(Zero, 0, step)[Len(s)] \in Lowest
    BY <1>2, <1>4, <2>1, <2>2, LoopKeeps
  <2> QED
    BY <1>1, <2>3
<1>6. Is(SumOf(s), SumOf(s)[1], SumOf(s)[2])
  BY <1>5, IsItself
<1>7. Is(Over(SumOf(s), Whole(Len(s))), SumOf(s)[1], SumOf(s)[2] * Len(s))
  BY <1>2, <1>6, OverWholeIs
<1> QED
  BY <1>7, IsLowest DEF Mean

(* A step of the exponential average leads from fractions to one. *)
LEMMA EmaStepLowest ==
  ASSUME NEW v \in Lowest, NEW a \in Lowest, NEW p \in Nat \ {0}
  PROVE  EmaStep(v, p)[a] \in Lowest
<1> DEFINE f == Frac(2, p + 1)
           g == Frac(p - 1, p + 1)
<1>1. p + 1 \in Nat \ {0} /\ 2 \in Int /\ p - 1 \in Int
  OBVIOUS
<1>2. Is(f, 2, p + 1) /\ Is(g, p - 1, p + 1)
  BY <1>1, FracIs
<1>3. EmaStep(v, p)[a] = Plus(Times(v, f), Times(a, g))
  BY DEF EmaStep, Lowest
<1> HIDE DEF f, g
<1>4. Is(v, v[1], v[2]) /\ Is(a, a[1], a[2])
  BY IsItself
<1>5. Is(Times(v, f), v[1] * 2, v[2] * (p + 1)) /\ Is(Times(a, g), a[1] * (p - 1), a[2] * (p + 1))
  BY <1>2, <1>4, TimesIs
<1>6. Times(v, f) \in Lowest /\ Times(a, g) \in Lowest
  BY <1>5, IsLowest
<1> QED
  BY <1>3, <1>6, PlusLowest

(* The exponential average of fractions is known from its period on (ema). *)
LEMMA EmaLowest ==
  ASSUME NEW s, IsList(s), NEW p \in Nat \ {0}, \A i \in 1..Len(s) : s[i] \in Lowest
  PROVE  KnownBehind(ema(s, p), Len(s), p - 1, Lowest)
<1>1. p <= Len(s) => Mean(SubSeq(s, 1, p)) \in Lowest
  <2> SUFFICES ASSUME p <= Len(s) PROVE Mean(SubSeq(s, 1, p)) \in Lowest
    OBVIOUS
  <2> DEFINE t == SubSeq(s, 1, p)
  <2>1. 1 \in Nat \ {0} /\ p \in Nat /\ 1 <= p + 1 /\ Len(s) \in Nat /\ p - 1 + 1 = p
    BY DEF IsList
  <2>2. IsList(t) /\ Len(t) = p - 1 + 1 /\ \A i \in 1..(p - 1 + 1) : t[i] = s[1 + i - 1]
    BY <2>1, PartOfList
  <2> HIDE DEF t
  <2>3. ASSUME NEW i \in 1..p PROVE t[i] \in Lowest
    <3>1. 1 + i - 1 = i /\ i \in 1..Len(s)
      BY <2>1
    <3> QED
      BY <2>1, <2>2, <3>1
  <2>4. Mean(t) \in Lowest
    BY <2>1, <2>2, <2>3, MeanLowest
  <2> QED
    BY <2>4 DEF t
<1>2. ASSUME NEW i \in 1..Len(s), NEW x \in Lowest
      PROVE  EmaStep(s[i], p)[x] \in Lowest
  <2>1. s[i] \in Lowest
    OBVIOUS
  <2> QED
    BY <2>1, EmaStepLowest
<1> QED
  BY <1>1, <1>2, EmaKeeps

(* A difference has a value where both have one. *)
LEMMA DiffsKnown ==
  ASSUME NEW n \in Nat, NEW s, NEW t, NEW v \in Nat, NEW w \in Nat,
         KnownBehind(s, n, v, Lowest), KnownBehind(t, n, w, Lowest)
  PROVE  KnownBehind(Diffs(s, t), n, IF v > w THEN v ELSE w, Lowest)
<1> DEFINE f == Diffs(s, t)
           u == IF v > w THEN v ELSE w
<1>1. DOMAIN s = 1..n
  <2>1. s = [i \in 1..n |-> s[i]]
    BY DEF KnownBehind
  <2> QED
    BY <2>1
<1>2. f = [i \in 1..n |-> Diff(s[i], t[i])]
  BY <1>1 DEF Diffs
<1>3. ASSUME NEW i \in 1..n
      PROVE  IF i <= u THEN f[i] = NoValue ELSE f[i] \in Lowest
  <2>1. /\ IF i <= v THEN s[i] = NoValue ELSE s[i] \in Lowest
        /\ IF i <= w THEN t[i] = NoValue ELSE t[i] \in Lowest
    BY DEF KnownBehind
  <2>2. f[i] = Diff(s[i], t[i])
    BY <1>2
  <2>3. CASE i <= v \/ i <= w
    <3>1. f[i] = NoValue
      BY <2>1, <2>2, <2>3 DEF Diff
    <3>2. i <= u
      BY <2>3
    <3> QED
      BY <3>1, <3>2
  <2>4. CASE ~(i <= v) /\ ~(i <= w)
    <3>1. s[i] \in Lowest /\ t[i] \in Lowest
      BY <2>1, <2>4
    <3>2. s[i] # NoValue /\ t[i] # NoValue
      BY <3>1, NoValueIsNone
    <3>3. f[i] = Minus(s[i], t[i])
      BY <2>2, <3>2 DEF Diff
    <3>4. f[i] \in Lowest
      BY <3>1, <3>3, PlusLowest
    <3>5. ~(i <= u)
      BY <2>4
    <3> QED
      BY <3>4, <3>5
  <2> QED
    BY <2>3, <2>4
<1>4. f = [i \in 1..n |-> f[i]]
  BY <1>2
<1> HIDE DEF f, u
<1>5. KnownBehind(f, n, u, Lowest)
  BY <1>3, <1>4 DEF KnownBehind
<1> QED
  BY <1>5 DEF f, u

(* A list with values behind a position. *)
LEMMA KnownIsList ==
  ASSUME NEW s, NEW n \in Nat, NEW w, NEW X, KnownBehind(s, n, w, X)
  PROVE  IsList(s) /\ Len(s) = n /\ DOMAIN s = 1..n
<1>1. s = [i \in 1..n |-> s[i]]
  BY DEF KnownBehind
<1>2. IsList(s) /\ Len(s) = n
  BY <1>1, FunctionIsList
<1> QED
  BY <1>2 DEF IsList

(* The average over the tail starts with the tail. *)
LEMMA EmaOfTailKnown ==
  ASSUME NEW n \in Nat, NEW s, NEW w \in Nat, NEW p \in Nat \ {0}, KnownBehind(s, n, w, Lowest)
  PROVE  KnownBehind(EmaOfTail(s, p), n, w + p - 1, Lowest)
<1> DEFINE f == EmaOfTail(s, p)
<1>1. IsList(s) /\ Len(s) = n /\ DOMAIN s = 1..n
  BY KnownIsList
<1>2. f = [i \in 1..n |->
               IF i \in Gap(s) THEN NoValue
               ELSE ema(SubSeq(s, Cardinality(Gap(s)) + 1, Len(s)), p)[i - Cardinality(Gap(s))]]
  BY <1>1, EmaOfTailAt
<1>3. \A i \in 1..n : IF i <= w THEN s[i] = NoValue ELSE s[i] \in Lowest
  BY DEF KnownBehind
<1>4. f = [i \in 1..n |-> f[i]]
  BY <1>2
<1> HIDE DEF f
<1>5. ASSUME NEW i \in 1..n
      PROVE  IF i <= w + p - 1 THEN f[i] = NoValue ELSE f[i] \in Lowest
  <2>1. CASE n <= w
    <3>1. \A j \in 1..i : j \in 1..n /\ j <= w
      BY <2>1
    <3>2. \A j \in 1..i : s[j] = NoValue
      BY <1>3, <3>1
    <3>3. i \in Gap(s)
      BY <1>1, <3>2 DEF Gap
    <3>4. f[i] = NoValue
      BY <1>2, <3>3
    <3>5. i <= w + p - 1
      BY <2>1
    <3> QED
      BY <3>4, <3>5
  <2>2. CASE w < n
    <3> DEFINE k == w + 1
               t == SubSeq(s, w + 1, n)
    <3>1. k \in 1..n /\ ~(k <= w) /\ k - 1 = w /\ \A j \in 1..w : j \in 1..n /\ j <= w
      BY <2>2
    <3>2. s[k] # NoValue /\ \A j \in 1..(k - 1) : s[j] = NoValue
      <4>1. s[k] \in Lowest
        BY <1>3, <3>1
      <4>2. s[k] # NoValue
        BY <4>1, NoValueIsNone
      <4>3. \A j \in 1..w : s[j] = NoValue
        BY <1>3, <3>1
      <4> QED
        BY <3>1, <4>2, <4>3
    <3>3. Gap(s) = 1..(k - 1) /\ Cardinality(Gap(s)) = k - 1
      <4>1. k \in 1..Len(s)
        BY <1>1, <3>1
      <4> HIDE DEF k
      <4> QED
        BY <1>1, <3>2, <4>1, GapIsHead
    <3>4. Gap(s) = 1..w /\ Cardinality(Gap(s)) = w
      BY <3>1, <3>3
    <3> HIDE DEF k
    <3>5. f[i] = IF i \in 1..w THEN NoValue ELSE ema(t, p)[i - w]
      BY <1>1, <1>2, <3>4
    <3>6. /\ IsList(t) /\ Len(t) = n - (w + 1) + 1
          /\ \A j \in 1..(n - (w + 1) + 1) : t[j] = s[(w + 1) + j - 1]
      <4>1. w + 1 \in Nat \ {0} /\ n <= Len(s) /\ w + 1 <= n + 1
        BY <1>1, <2>2
      <4> QED
        BY <1>1, <4>1, PartOfList
    <3> HIDE DEF t
    <3>7. ASSUME NEW j \in 1..Len(t) PROVE t[j] \in Lowest
      <4>1. /\ j \in 1..(n - (w + 1) + 1) /\ (w + 1) + j - 1 \in 1..n
            /\ ~((w + 1) + j - 1 <= w)
        BY <3>6
      <4> QED
        BY <1>3, <3>6, <4>1
    <3>8. KnownBehind(ema(t, p), Len(t), p - 1, Lowest)
      BY <3>6, <3>7, EmaLowest
    <3>9. CASE i \in 1..w
      <4>1. i <= w + p - 1 /\ f[i] = NoValue
        BY <3>5, <3>9
      <4> QED
        BY <4>1
    <3>10. CASE i \notin 1..w
      <4>1. i - w \in 1..Len(t) /\ (i - w <= p - 1 <=> i <= w + p - 1)
        BY <3>6, <3>10
      <4>2. IF i - w <= p - 1 THEN ema(t, p)[i - w] = NoValue ELSE ema(t, p)[i - w] \in Lowest
        BY <3>8, <4>1 DEF KnownBehind
      <4>3. f[i] = ema(t, p)[i - w]
        BY <3>5, <3>10
      <4> QED
        BY <4>1, <4>2, <4>3
    <3> QED
      BY <3>9, <3>10
  <2> QED
    BY <1>1, <2>1, <2>2
<1>6. KnownBehind(f, n, w + p - 1, Lowest)
  BY <1>4, <1>5 DEF KnownBehind
<1> QED
  BY <1>6 DEF f

(* The macd is known from its slower average on, its signal line
   as many values later as that takes (macd). *)
LEMMA MacdKnown ==
  ASSUME NEW s, IsList(s), NEW fast \in Nat \ {0}, NEW slow \in Nat \ {0}, NEW signal \in Nat \ {0},
         NEW slower, slower = IF fast > slow THEN fast ELSE slow,
         \A i \in 1..Len(s) : s[i] \in Lowest
  PROVE  /\ KnownBehind(macd(s, fast, slow, signal).line, Len(s), slower - 1, Lowest)
         /\ KnownBehind(macd(s, fast, slow, signal).signal, Len(s), slower + signal - 2, Lowest)
<1> DEFINE line == Diffs(ema(s, fast), ema(s, slow))
           smoothed == EmaOfTail(line, signal)
<1>1. macd(s, fast, slow, signal).line = line /\ macd(s, fast, slow, signal).signal = smoothed
  BY DEF macd
<1>2. /\ KnownBehind(ema(s, fast), Len(s), fast - 1, Lowest)
      /\ KnownBehind(ema(s, slow), Len(s), slow - 1, Lowest)
  BY EmaLowest
<1>3. /\ fast - 1 \in Nat /\ slow - 1 \in Nat /\ Len(s) \in Nat /\ slower - 1 \in Nat
      /\ slower - 1 = IF fast - 1 > slow - 1 THEN fast - 1 ELSE slow - 1
      /\ (slower - 1) + signal - 1 = slower + signal - 2
  BY DEF IsList
<1>4. KnownBehind(line, Len(s), slower - 1, Lowest)
  BY <1>2, <1>3, DiffsKnown
<1> HIDE DEF line
<1>5. KnownBehind(smoothed, Len(s), (slower - 1) + signal - 1, Lowest)
  BY <1>3, <1>4, EmaOfTailKnown
<1> QED
  BY <1>1, <1>3, <1>4, <1>5


----------------------------------------------------------------------------
(* The ranges of the variance, the true range and the relative strength. *)

(* A difference of two fractions of an interval is at most its length. *)
LEMMA MinusWithin ==
  ASSUME NEW low \in Int, NEW high \in Int,
         NEW a \in Between(Whole(low), Whole(high)), NEW b \in Between(Whole(low), Whole(high))
  PROVE  Minus(a, b) \in Between(Whole(low - high), Whole(high - low))
<1> DEFINE lo == Whole(low)
           hi == Whole(high)
<1>1. lo \in Lowest /\ hi \in Lowest /\ a \in Between(lo, hi) /\ b \in Between(lo, hi)
  BY WholeLowest
<1> HIDE DEF lo, hi
<1>2. PICK d \in Nat \ {0}, n \in Int, m \in Int, l \in Int, h \in Int :
        /\ Is(a, n, d) /\ Is(b, m, d) /\ Is(lo, l, d) /\ Is(hi, h, d)
        /\ l <= n /\ n <= h /\ l <= m /\ m <= h
  <2>1. BothWithin(a, b, lo, hi)
    BY <1>1, IsInterval
  <2> QED
    BY <2>1 DEF BothWithin
<1>3. Is(Minus(a, b), n - m, d)
  BY <1>2, PlusIs
<1>4. Is(Whole(low - high), (low - high) * d, d) /\ Is(Whole(high - low), (high - low) * d, d)
  <2>1. low - high \in Int /\ high - low \in Int
    OBVIOUS
  <2> QED
    BY <2>1, WholeIs
<1>5. low * d = l /\ high * d = h
  BY <1>2 DEF Is, Whole, lo, hi
<1>6. (low - high) * d = low * d - high * d /\ (high - low) * d = high * d - low * d
  OBVIOUS
<1>7. (low - high) * d <= n - m /\ n - m <= (high - low) * d
  BY <1>2, <1>5, <1>6
<1> QED
  BY <1>3, <1>4, <1>7, BetweenIs

(* What is between -H and H is squared between 0 and H * H ... *)
LEMMA SquareWithin ==
  ASSUME NEW H \in Int, NEW a \in Between(Whole(-H), Whole(H))
  PROVE  Times(a, a) \in Between(Zero, Whole(H * H))
<1>1. PICK d \in Nat \ {0}, n \in Int : Is(a, n, d)
  BY IsItself DEF Between
<1>2. Is(Whole(-H), (-H) * d, d) /\ Is(Whole(H), H * d, d)
  BY WholeIs
<1>3. (-H) * d <= n /\ n <= H * d
  BY <1>1, <1>2, BetweenIs
<1> DEFINE b == H * d
<1>4. b \in Int /\ -b <= n /\ n <= b
  <2>1. (-H) * d = -(H * d) /\ H * d \in Int
    OBVIOUS
  <2> QED
    BY <1>3, <2>1
<1> DEFINE e == d * d
<1>5. e \in Nat \ {0}
  <2>1. \A i, j \in Nat \ {0} : i * j \in Nat \ {0}
    OBVIOUS
  <2> QED
    BY <2>1
<1>6. Is(Times(a, a), n * n, e)
  BY <1>1, TimesIs
<1>7. Is(Whole(0), 0 * e, e) /\ Is(Whole(H * H), (H * H) * e, e)
  <2>1. H * H \in Int /\ 0 \in Int
    OBVIOUS
  <2> HIDE DEF e
  <2> QED
    BY <1>5, <2>1, WholeIs
<1>8. (H * H) * e = b * b
  OBVIOUS
<1> HIDE DEF b, e
<1>9. 0 * e <= n * n /\ n * n <= b * b
  <2>1. 0 * e = 0
    BY <1>5
  <2>2. \A i, j \in Nat : i * j \in Nat
    OBVIOUS
  <2>3. n * n >= 0
    <3>1. CASE n >= 0
      BY <2>2, <3>1
    <3>2. CASE n < 0
      <4>1. -n \in Nat /\ (-n) * (-n) = n * n
        BY <3>2
      <4> QED
        BY <2>2, <4>1
    <3> QED
      BY <3>1, <3>2
  <2>4. (b - n) * (b + n) \in Nat
    <3>1. b - n \in Nat /\ b + n \in Nat
      BY <1>4
    <3> QED
      BY <2>2, <3>1
  <2>5. (b - n) * (b + n) = b * b - n * n /\ b * b \in Int /\ n * n \in Int
    BY <1>4
  <2> QED
    BY <2>1, <2>3, <2>4, <2>5
<1>10. n * n <= (H * H) * e
  BY <1>8, <1>9
<1> QED
  BY <1>6, <1>7, <1>9, <1>10, BetweenIs DEF Zero

(* ... and what is negative counts as 0 between 0 and H. *)
LEMMA PositivePart ==
  ASSUME NEW H \in Nat, NEW a \in Between(Whole(-H), Whole(H))
  PROVE  Greatest(a, Zero) \in Between(Zero, Whole(H))
<1>1. Zero \in Between(Zero, Whole(H))
  <2>1. 0 \in Int /\ H \in Int /\ 0 <= 0 /\ 0 <= H
    OBVIOUS
  <2> QED
    BY <2>1, WholeWithin DEF Zero
<1>2. ASSUME ~Leq(a, Zero) PROVE a \in Between(Zero, Whole(H))
  <2>1. PICK d \in Nat \ {0}, n \in Int : Is(a, n, d)
    BY IsItself DEF Between
  <2>2. Is(Zero, 0, d)
    <3>1. Is(Whole(0), 0 * d, d) /\ 0 * d = 0
      BY WholeIs
    <3> QED
      BY <3>1 DEF Zero
  <2>3. Is(Whole(H), H * d, d)
    BY WholeIs
  <2>4. Leq(a, Whole(H)) <=> n <= H * d
    BY <2>1, <2>3, ComparedIs
  <2>5. Leq(a, Zero) <=> n <= 0
    BY <2>1, <2>2, ComparedIs
  <2>6. 0 <= n /\ n <= H * d
    BY <1>2, <2>4, <2>5 DEF Between
  <2> QED
    BY <2>1, <2>2, <2>3, <2>6, BetweenIs
<1> QED
  BY <1>1, <1>2 DEF Greatest

(* The variance is at most the square of the range (bollinger). *)
LEMMA VarianceWithin ==
  ASSUME NEW s, IsList(s), NEW low \in Int, NEW high \in Int, NEW p \in Nat \ {0},
         \A i \in 1..Len(s) : s[i] \in Between(Whole(low), Whole(high))
  PROVE  KnownBehind(bollinger(s, p).variance, Len(s), p - 1,
                     Between(Zero, Whole((high - low) * (high - low))))
<1> DEFINE H == high - low
           X == Between(Zero, Whole(H * H))
           Square(i, j) == LET d == Minus(s[i - p + j], sma(s, p)[i]) IN Times(d, d)
           Off(i) == [j \in 1..p |-> Square(i, j)]
           f == [i \in DOMAIN s |-> IF i < p THEN NoValue ELSE Mean(Off(i))]
<1>1. bollinger(s, p).variance = f
  BY DEF bollinger
<1>2. H \in Int /\ low - high = -H /\ H * H \in Int
  OBVIOUS
<1>3. Whole(low) \in Lowest /\ Whole(high) \in Lowest /\ Zero \in Lowest /\ Whole(H * H) \in Lowest
  BY <1>2, WholeLowest DEF Zero
<1>4. DOMAIN s = 1..Len(s) /\ Len(s) \in Nat
  BY DEF IsList
<1>5. KnownBehind(sma(s, p), Len(s), p - 1, Between(Whole(low), Whole(high)))
  BY <1>3, SmaWithin
<1> HIDE DEF H
<1>6. ASSUME NEW i \in 1..Len(s), ~(i < p), NEW j \in 1..p PROVE Square(i, j) \in X
  <2> DEFINE d == Minus(s[i - p + j], sma(s, p)[i])
  <2>1. i - p + j \in 1..Len(s)
    BY <1>4, <1>6
  <2>2. s[i - p + j] \in Between(Whole(low), Whole(high))
    BY <2>1
  <2>3. sma(s, p)[i] \in Between(Whole(low), Whole(high))
    <3>1. ~(i <= p - 1)
      BY <1>4, <1>6
    <3> QED
      BY <1>5, <3>1 DEF KnownBehind
  <2>4. d \in Between(Whole(-H), Whole(H))
    <3>1. d \in Between(Whole(low - high), Whole(high - low))
      BY <2>2, <2>3, MinusWithin
    <3> QED
      BY <1>2, <3>1 DEF H
  <2> HIDE DEF d
  <2>5. Times(d, d) \in X
    BY <1>2, <2>4, SquareWithin
  <2> QED
    BY <2>5 DEF d
<1> HIDE DEF Square
<1>7. ASSUME NEW i \in 1..Len(s), ~(i < p) PROVE Mean(Off(i)) \in X
  <2>1. Off(i) = [j \in 1..p |-> Off(i)[j]] /\ \A j \in 1..p : Off(i)[j] = Square(i, j)
    OBVIOUS
  <2> DEFINE t == Off(i)
  <2>2. t = [j \in 1..p |-> t[j]] /\ p \in Nat /\ p # 0
    BY <2>1
  <2>3. \A j \in 1..p : t[j] \in X
    BY <1>6, <1>7, <2>1
  <2> HIDE DEF t
  <2>4. IsList(t) /\ Len(t) = p
    BY <2>2, FunctionIsList
  <2>5. Mean(t) \in X
    BY <1>3, <2>2, <2>3, <2>4, MeanWithin
  <2> QED
    BY <2>5 DEF t
<1> HIDE DEF Off, X
<1>8. ASSUME NEW i \in 1..Len(s) PROVE IF i <= p - 1 THEN f[i] = NoValue ELSE f[i] \in X
  <2>1. i \in DOMAIN s /\ (i < p <=> i <= p - 1)
    BY <1>4
  <2> QED
    BY <1>7, <2>1
<1>9. f = [i \in 1..Len(s) |-> f[i]]
  BY <1>4
<1> HIDE DEF f
<1>10. KnownBehind(f, Len(s), p - 1, X)
  BY <1>8, <1>9 DEF KnownBehind
<1> QED
  BY <1>1, <1>10 DEF X, H

(* A list of candles whose prices are from low to high. *)
Ranging(candles, low, high) ==
    /\ IsList(candles) /\ low \in Int /\ high \in Int
    /\ \A i \in 1..Len(candles) :
          /\ candles[i].low \in Int /\ candles[i].close \in Int /\ candles[i].high \in Int
          /\ low <= candles[i].low /\ candles[i].low <= candles[i].close
          /\ candles[i].close <= candles[i].high /\ candles[i].high <= high

(* The closes lie where the prices do. *)
LEMMA ClosesWithin ==
  ASSUME NEW c, NEW low, NEW high, Ranging(c, low, high)
  PROVE  /\ IsList(Column(c, "close")) /\ Len(Column(c, "close")) = Len(c)
         /\ \A i \in 1..Len(c) : Column(c, "close")[i] \in Between(Whole(low), Whole(high))
<1>1. IsList(c) /\ DOMAIN c = 1..Len(c)
  BY DEF Ranging, IsList
<1>2. Along(Column(c, "close"), c)
  BY DEF Along, Column
<1>3. ASSUME NEW i \in 1..Len(c)
      PROVE  Column(c, "close")[i] \in Between(Whole(low), Whole(high))
  <2>1. Column(c, "close")[i] = Whole(c[i].close)
    BY <1>1 DEF Column
  <2>2. low \in Int /\ high \in Int /\ c[i].close \in Int /\ low <= c[i].close /\ c[i].close <= high
    BY DEF Ranging
  <2> QED
    BY <2>1, <2>2, WholeWithin
<1> QED
  BY <1>1, <1>2, <1>3, AlongIsList

(* A true range is not negative, and not more than the range of the candles. *)
LEMMA TrueRangeWithin ==
  ASSUME NEW c, NEW low, NEW high, Ranging(c, low, high)
  PROVE  /\ IsList(TrueRange(c)) /\ Len(TrueRange(c)) = Len(c)
         /\ \A i \in 1..Len(c) : TrueRange(c)[i] \in Between(Zero, Whole(high - low))
<1>1. IsList(c) /\ DOMAIN c = 1..Len(c) /\ Len(c) \in Nat /\ low \in Int /\ high \in Int
  BY DEF Ranging, IsList
<1>2. Along(TrueRange(c), c)
  BY DEF Along, TrueRange
<1>3. ASSUME NEW i \in 1..Len(c)
      PROVE  TrueRange(c)[i] \in Between(Zero, Whole(high - low))
  <2> DEFINE H == high - low
  <2>1. ASSUME NEW n \in Int, 0 <= n, n <= H PROVE Whole(n) \in Between(Zero, Whole(H))
    <3>1. H \in Int /\ 0 \in Int
      BY <1>1
    <3> HIDE DEF H
    <3> QED
      BY <2>1, <3>1, WholeWithin DEF Zero
  <2>2. /\ c[i].low \in Int /\ c[i].high \in Int
        /\ low <= c[i].low /\ c[i].low <= c[i].high /\ c[i].high <= high
    BY DEF Ranging
  <2>3. Whole(c[i].high - c[i].low) \in Between(Zero, Whole(H))
    <3>1. /\ c[i].high - c[i].low \in Int
          /\ 0 <= c[i].high - c[i].low /\ c[i].high - c[i].low <= H
      BY <1>1, <2>2
    <3> HIDE DEF H
    <3> QED
      BY <2>1, <3>1
  <2>4. CASE i = 1
    <3>1. TrueRange(c)[i] = Whole(c[i].high - c[i].low)
      BY <1>1, <2>4 DEF TrueRange
    <3> QED
      BY <2>3, <3>1
  <2>5. CASE i # 1
    <3> DEFINE b == c[i - 1].close
    <3>1. b \in Int /\ low <= b /\ b <= high
      <4>1. i - 1 \in 1..Len(c)
        BY <1>1, <2>5
      <4> DEFINE j == i - 1
      <4> HIDE DEF j
      <4>2. /\ c[j].low \in Int /\ c[j].close \in Int /\ c[j].high \in Int
            /\ low <= c[j].low /\ c[j].low <= c[j].close /\ c[j].close <= c[j].high /\ c[j].high <= high
        BY <4>1 DEF Ranging, j
      <4> QED
        BY <1>1, <4>2 DEF j
    <3> HIDE DEF b
    <3>2. TrueRange(c)[i] =
            Greatest(Whole(c[i].high - c[i].low),
                     Greatest(Whole(Magnitude(c[i].high - b)), Whole(Magnitude(c[i].low - b))))
      BY <1>1, <2>5 DEF TrueRange, b
    <3>3. /\ Magnitude(c[i].high - b) \in Int
          /\ 0 <= Magnitude(c[i].high - b) /\ Magnitude(c[i].high - b) <= H
      BY <1>1, <2>2, <3>1 DEF Magnitude
    <3>4. /\ Magnitude(c[i].low - b) \in Int
          /\ 0 <= Magnitude(c[i].low - b) /\ Magnitude(c[i].low - b) <= H
      BY <1>1, <2>2, <3>1 DEF Magnitude
    <3> HIDE DEF H
    <3>5. /\ Whole(Magnitude(c[i].high - b)) \in Between(Zero, Whole(H))
          /\ Whole(Magnitude(c[i].low - b)) \in Between(Zero, Whole(H))
      BY <2>1, <3>3, <3>4
    <3> QED
      BY <2>3, <3>2, <3>5 DEF Greatest, H
  <2> QED
    BY <2>4, <2>5
<1> QED
  BY <1>1, <1>2, <1>3, AlongIsList

(* The average true range is at most the range (atr). *)
LEMMA AtrWithin ==
  ASSUME NEW c, NEW low, NEW high, Ranging(c, low, high), NEW p \in Nat \ {0}
  PROVE  KnownBehind(atr(c, p), Len(c), p, Between(Zero, Whole(high - low)))
<1>1. low \in Int /\ high \in Int /\ 2 \in Nat \ {0} /\ 2 + p - 2 = p
  BY DEF Ranging
<1>2. Zero \in Lowest /\ Whole(high - low) \in Lowest
  BY <1>1, WholeLowest DEF Zero
<1> DEFINE t == TrueRange(c)
<1>3. /\ IsList(t) /\ Len(t) = Len(c)
      /\ \A i \in 1..Len(c) : t[i] \in Between(Zero, Whole(high - low))
  BY TrueRangeWithin
<1> HIDE DEF t
<1>4. \A i \in 2..Len(t) : t[i] \in Between(Zero, Whole(high - low))
  BY <1>3 DEF IsList
<1>5. KnownBehind(WilderMean(t, p, 2), Len(t), 2 + p - 2, Between(Zero, Whole(high - low)))
  BY <1>1, <1>2, <1>3, <1>4, WilderMeanWithin
<1> QED
  BY <1>1, <1>3, <1>5 DEF atr, t

(* The relative strength is from 0 to 100, whatever the two averages are. *)
Percents == Between(Zero, Whole(100))

(* The relative strength of an average gain and loss is a percentage (_rsi_value). *)
LEMMA RsiValueWithin ==
  ASSUME NEW gain \in Lowest, NEW loss \in Lowest, Leq(Zero, gain), Leq(Zero, loss)
  PROVE  RsiValue(gain, loss) \in Percents
<1>1. PICK d \in Nat \ {0}, n \in Int, m \in Int : Is(gain, n, d) /\ Is(loss, m, d)
  BY IsTwo
<1>2. Is(Zero, 0, d)
  <2>1. Is(Whole(0), 0 * d, d) /\ 0 * d = 0
    BY WholeIs
  <2> QED
    BY <2>1 DEF Zero
<1>3. n >= 0 /\ m >= 0
  <2>1. Leq(Zero, gain) <=> 0 <= n
    BY <1>1, <1>2, ComparedIs
  <2>2. Leq(Zero, loss) <=> 0 <= m
    BY <1>1, <1>2, ComparedIs
  <2> QED
    BY <2>1, <2>2
<1>4. CASE loss = Zero
  <2>1. RsiValue(gain, loss) = Whole(100)
    BY <1>4 DEF RsiValue
  <2>2. 100 \in Int /\ 0 \in Int /\ 0 <= 100
    OBVIOUS
  <2> QED
    BY <2>1, <2>2, WholeWithin DEF Percents, Zero
<1>5. CASE loss # Zero
  <2>1. m \in Nat \ {0} /\ m > 0
    <3>1. m # 0
      BY <1>1, <1>5, ZeroIs
    <3> QED
      BY <1>3, <3>1
  <2>2. Is(Over(gain, loss), n, m)
    BY <1>1, <2>1, OverIs
  <2> DEFINE t == m + n
  <2>3. t \in Nat \ {0} /\ t > 0 /\ t \in Int
    BY <1>3, <2>1
  <2>4. Is(Plus(Whole(1), Over(gain, loss)), t, m)
    <3>1. Is(Whole(1), 1 * m, m) /\ 1 * m = m
      BY <2>1, WholeIs
    <3> QED
      BY <2>2, <3>1, PlusIs
  <2> HIDE DEF t
  <2>5. Is(Whole(100), 100 * m, m)
    BY <2>1, WholeIs
  <2>6. Is(Over(Whole(100), Plus(Whole(1), Over(gain, loss))), 100 * m, t)
    BY <2>3, <2>4, <2>5, OverIs
  <2>7. Is(Whole(100), 100 * t, t)
    BY <2>3, WholeIs
  <2>8. Is(RsiValue(gain, loss), 100 * t - 100 * m, t)
    <3>1. RsiValue(gain, loss) =
            Minus(Whole(100), Over(Whole(100), Plus(Whole(1), Over(gain, loss))))
      BY <1>5 DEF RsiValue
    <3> QED
      BY <2>6, <2>7, <3>1, PlusIs
  <2>9. Is(Zero, 0, t)
    <3>1. Is(Whole(0), 0 * t, t) /\ 0 * t = 0
      BY <2>3, WholeIs
    <3> QED
      BY <3>1 DEF Zero
  <2>10. 0 <= 100 * t - 100 * m /\ 100 * t - 100 * m <= 100 * t
    BY <1>3, <2>1 DEF t
  <2> QED
    BY <2>7, <2>8, <2>9, <2>10, BetweenIs DEF Percents
<1> QED
  BY <1>4, <1>5

(* Rises and falls are not negative. *)
LEMMA RisesWithin ==
  ASSUME NEW s, IsList(s), NEW low \in Int, NEW high \in Int,
         \A i \in 1..Len(s) : s[i] \in Between(Whole(low), Whole(high)),
         NEW H \in Nat, H = high - low
  PROVE  /\ IsList(Rise(s)) /\ Len(Rise(s)) = Len(s)
         /\ IsList(Fall(s)) /\ Len(Fall(s)) = Len(s)
         /\ \A i \in 2..Len(s) : /\ Rise(s)[i] \in Between(Zero, Whole(H))
                                 /\ Fall(s)[i] \in Between(Zero, Whole(H))
<1>1. DOMAIN s = 1..Len(s) /\ Len(s) \in Nat
  BY DEF IsList
<1>2. Along(Rise(s), s) /\ Along(Fall(s), s)
  BY DEF Along, Rise, Fall
<1>3. ASSUME NEW i \in 2..Len(s)
      PROVE  Rise(s)[i] \in Between(Zero, Whole(H)) /\ Fall(s)[i] \in Between(Zero, Whole(H))
  <2>1. i \in 1..Len(s) /\ i - 1 \in 1..Len(s) /\ i # 1
    BY <1>1
  <2> DEFINE a == s[i]
             b == s[i - 1]
  <2>2. a \in Between(Whole(low), Whole(high)) /\ b \in Between(Whole(low), Whole(high))
    BY <2>1
  <2>3. Rise(s)[i] = Greatest(Minus(a, b), Zero) /\ Fall(s)[i] = Greatest(Minus(b, a), Zero)
    BY <1>1, <2>1 DEF Rise, Fall
  <2> HIDE DEF a, b
  <2>4. low - high = -H
    OBVIOUS
  <2>5. Minus(a, b) \in Between(Whole(-H), Whole(H)) /\ Minus(b, a) \in Between(Whole(-H), Whole(H))
    <3>1. Minus(a, b) \in Between(Whole(low - high), Whole(high - low))
      BY <2>2, MinusWithin
    <3>2. Minus(b, a) \in Between(Whole(low - high), Whole(high - low))
      BY <2>2, MinusWithin
    <3> QED
      BY <2>4, <3>1, <3>2
  <2> QED
    BY <2>3, <2>5, PositivePart
<1> QED
  BY <1>2, <1>3, AlongIsList

(* So it is at each position from its period on (rsi). *)
LEMMA RsiWithin ==
  ASSUME NEW s, IsList(s), NEW low \in Int, NEW high \in Int, low <= high,
         \A i \in 1..Len(s) : s[i] \in Between(Whole(low), Whole(high)), NEW p \in Nat \ {0}
  PROVE  KnownBehind(rsi(s, p), Len(s), p, Percents)
<1> DEFINE H == high - low
           X == Between(Zero, Whole(H))
           gain == WilderMean(Rise(s), p, 2)
           loss == WilderMean(Fall(s), p, 2)
           f == rsi(s, p)
<1>1. H \in Nat /\ H \in Int
  OBVIOUS
<1>2. Zero \in Lowest /\ Whole(H) \in Lowest
  BY <1>1, WholeLowest DEF Zero
<1>3. 2 \in Nat \ {0} /\ 2 + p - 2 = p
  OBVIOUS
<1>4. f = [i \in 1..Len(s) |-> IF i <= p THEN NoValue ELSE RsiValue(gain[i], loss[i])]
  BY DEF rsi, IsList
<1> HIDE DEF f
<1>5. /\ IsList(Rise(s)) /\ Len(Rise(s)) = Len(s)
      /\ IsList(Fall(s)) /\ Len(Fall(s)) = Len(s)
      /\ \A i \in 2..Len(s) : Rise(s)[i] \in X /\ Fall(s)[i] \in X
  BY <1>1, RisesWithin
<1>6. KnownBehind(gain, Len(s), p, X) /\ KnownBehind(loss, Len(s), p, X)
  <2> HIDE DEF H
  <2>1. KnownBehind(WilderMean(Rise(s), p, 2), Len(Rise(s)), 2 + p - 2, X)
    BY <1>2, <1>3, <1>5, WilderMeanWithin
  <2>2. KnownBehind(WilderMean(Fall(s), p, 2), Len(Fall(s)), 2 + p - 2, X)
    BY <1>2, <1>3, <1>5, WilderMeanWithin
  <2> QED
    BY <1>3, <1>5, <2>1, <2>2
<1> HIDE DEF gain, loss, H
<1>7. ASSUME NEW i \in 1..Len(s)
      PROVE  IF i <= p THEN f[i] = NoValue ELSE f[i] \in Percents
  <2>1. CASE i <= p
    BY <1>4, <2>1
  <2>2. CASE ~(i <= p)
    <3>1. gain[i] \in X /\ loss[i] \in X
      BY <1>6, <2>2 DEF KnownBehind
    <3>2. RsiValue(gain[i], loss[i]) \in Percents
      BY <3>1, RsiValueWithin DEF Between
    <3> QED
      BY <1>4, <2>2, <3>2
  <2> QED
    BY <2>1, <2>2
<1>8. f = [i \in 1..Len(s) |-> f[i]]
  BY <1>4
<1>9. KnownBehind(f, Len(s), p, Percents)
  BY <1>7, <1>8 DEF KnownBehind
<1> QED
  BY <1>9 DEF f


----------------------------------------------------------------------------
(* The directional indexes. *)

(* Two movements that are not negative and together not more than the range. *)
Covered(u, d, r) ==
    /\ u \in Lowest /\ d \in Lowest /\ r \in Lowest
    /\ Leq(Zero, u) /\ Leq(Zero, d) /\ Leq(Plus(u, d), r)

(* Zero is zero over every denominator. *)
LEMMA ZeroOver ==
  ASSUME NEW d \in Nat \ {0}
  PROVE  Is(Zero, 0, d)
<1>1. Is(Whole(0), 0 * d, d) /\ 0 * d = 0
  BY WholeIs
<1> QED
  BY <1>1 DEF Zero

(* What is covered, in numbers. *)
LEMMA CoveredIs ==
  ASSUME NEW u, NEW d, NEW r, NEW n, NEW m, NEW l, NEW e, Is(u, n, e), Is(d, m, e), Is(r, l, e)
  PROVE  Covered(u, d, r) <=> 0 <= n /\ 0 <= m /\ n + m <= l
<1>1. Is(Zero, 0, e)
  <2>1. e \in Nat \ {0}
    BY DEF Is
  <2> QED
    BY <2>1, ZeroOver
<1>2. Leq(Zero, u) <=> 0 <= n
  BY <1>1, ComparedIs
<1>3. Leq(Zero, d) <=> 0 <= m
  BY <1>1, ComparedIs
<1>4. Is(Plus(u, d), n + m, e)
  BY PlusIs
<1>5. Leq(Plus(u, d), r) <=> n + m <= l
  BY <1>4, ComparedIs
<1>6. u \in Lowest /\ d \in Lowest /\ r \in Lowest
  BY IsLowest
<1> QED
  BY <1>2, <1>3, <1>5, <1>6 DEF Covered

(* What is covered has numerators over a common denominator. *)
LEMMA CoveredHas ==
  ASSUME NEW u, NEW d, NEW r, Covered(u, d, r)
  PROVE  \E e \in Nat \ {0}, n, m, l \in Int :
            /\ Is(u, n, e) /\ Is(d, m, e) /\ Is(r, l, e)
            /\ 0 <= n /\ 0 <= m /\ n + m <= l
<1>1. u \in Lowest /\ d \in Lowest /\ r \in Lowest
  BY DEF Covered
<1>2. PICK e \in Nat \ {0}, n \in Int, m \in Int, l \in Int : Is(u, n, e) /\ Is(d, m, e) /\ Is(r, l, e)
  BY <1>1, IsThree
<1>3. 0 <= n /\ 0 <= m /\ n + m <= l
  BY <1>2, CoveredIs
<1> QED
  BY <1>2, <1>3

(* Added up they stay covered ... *)
LEMMA CoveredPlus ==
  ASSUME NEW u, NEW d, NEW r, Covered(u, d, r), NEW v, NEW w, NEW s, Covered(v, w, s)
  PROVE  Covered(Plus(u, v), Plus(d, w), Plus(r, s))
<1>1. PICK e \in Nat \ {0}, n \in Int, m \in Int, l \in Int :
        /\ Is(u, n, e) /\ Is(d, m, e) /\ Is(r, l, e)
        /\ 0 <= n /\ 0 <= m /\ n + m <= l
  BY CoveredHas
<1>2. PICK f \in Nat \ {0}, i \in Int, j \in Int, k \in Int :
        /\ Is(v, i, f) /\ Is(w, j, f) /\ Is(s, k, f)
        /\ 0 <= i /\ 0 <= j /\ i + j <= k
  BY CoveredHas
<1> DEFINE g == e * f
           N == n * f
           M == m * f
           L == l * f
           I == i * e
           J == j * e
           K == k * e
<1>3. Is(u, N, g) /\ Is(d, M, g) /\ Is(r, L, g)
  BY <1>1, <1>2, IsScaled
<1>4. Is(v, I, g) /\ Is(w, J, g) /\ Is(s, K, g)
  <2>1. Is(v, i * e, f * e) /\ Is(w, j * e, f * e) /\ Is(s, k * e, f * e)
    BY <1>1, <1>2, IsScaled
  <2>2. f * e = e * f
    OBVIOUS
  <2> QED
    BY <2>1, <2>2
<1> HIDE DEF g, N, M, L, I, J, K
<1>5. 0 <= N /\ 0 <= M /\ N + M <= L /\ N \in Int /\ M \in Int /\ L \in Int
  <2>1. Covered(u, d, r) <=> 0 <= N /\ 0 <= M /\ N + M <= L
    BY <1>3, CoveredIs
  <2> QED
    BY <1>3, <2>1 DEF Is
<1>6. 0 <= I /\ 0 <= J /\ I + J <= K /\ I \in Int /\ J \in Int /\ K \in Int
  <2>1. Covered(v, w, s) <=> 0 <= I /\ 0 <= J /\ I + J <= K
    BY <1>4, CoveredIs
  <2> QED
    BY <1>4, <2>1 DEF Is
<1>7. Is(Plus(u, v), N + I, g) /\ Is(Plus(d, w), M + J, g) /\ Is(Plus(r, s), L + K, g)
  BY <1>3, <1>4, PlusIs
<1>8. 0 <= N + I /\ 0 <= M + J /\ (N + I) + (M + J) <= L + K
  BY <1>5, <1>6
<1> QED
  BY <1>7, <1>8, CoveredIs

(* ... and with the same part of each taken off. *)
LEMMA CoveredLess ==
  ASSUME NEW u, NEW d, NEW r, Covered(u, d, r), NEW p \in Nat \ {0}
  PROVE  Covered(Minus(u, Over(u, Whole(p))), Minus(d, Over(d, Whole(p))), Minus(r, Over(r, Whole(p))))
<1>1. PICK e \in Nat \ {0}, n \in Int, m \in Int, l \in Int :
        /\ Is(u, n, e) /\ Is(d, m, e) /\ Is(r, l, e)
        /\ 0 <= n /\ 0 <= m /\ n + m <= l
  BY CoveredHas
<1>2. Is(u, n * p, e * p) /\ Is(d, m * p, e * p) /\ Is(r, l * p, e * p)
  BY <1>1, IsScaled
<1>3. /\ Is(Over(u, Whole(p)), n, e * p) /\ Is(Over(d, Whole(p)), m, e * p)
      /\ Is(Over(r, Whole(p)), l, e * p)
  BY <1>1, OverWholeIs
<1>4. /\ Is(Minus(u, Over(u, Whole(p))), n * p - n, e * p)
      /\ Is(Minus(d, Over(d, Whole(p))), m * p - m, e * p)
      /\ Is(Minus(r, Over(r, Whole(p))), l * p - l, e * p)
  BY <1>2, <1>3, PlusIs
<1> DEFINE q == p - 1
<1>5. q \in Nat /\ n * p - n = n * q /\ m * p - m = m * q /\ l * p - l = l * q
  OBVIOUS
<1>6. n * q + m * q = (n + m) * q /\ 0 * q = 0
  OBVIOUS
<1> HIDE DEF q
<1>7. 0 * q <= n * q /\ 0 * q <= m * q /\ (n + m) * q <= l * q
  <2>1. 0 \in Int /\ n + m \in Int
    OBVIOUS
  <2> QED
    BY <1>1, <1>5, <2>1, TimesKeepsOrder
<1>8. 0 <= n * p - n /\ 0 <= m * p - m /\ (n * p - n) + (m * p - m) <= l * p - l
  BY <1>5, <1>6, <1>7
<1> QED
  BY <1>4, <1>8, CoveredIs

(* Three loops side by side. *)
LEMMA LoopsCovered ==
  ASSUME NEW a, NEW b, NEW c, Covered(a, b, c), NEW first \in Nat, NEW n \in Nat,
         NEW f, NEW g, NEW h,
         \A i \in 1..n : i > first =>
            \A u, d, r : Covered(u, d, r) => Covered(f[i][u], g[i][d], h[i][r]),
         NEW k \in Nat, k <= n
  PROVE  Covered(RunOf(a, first, f)[k], RunOf(b, first, g)[k], RunOf(c, first, h)[k])
<1> DEFINE x == RunOf(a, first, f)
           y == RunOf(b, first, g)
           z == RunOf(c, first, h)
           Good == {i \in Nat : i <= n => Covered(x[i], y[i], z[i])}
<1>1. Runs(x, a, first, f) /\ Runs(y, b, first, g) /\ Runs(z, c, first, h)
  BY RunExists
<1> HIDE DEF x, y, z
<1>2. \A i \in Nat : x[i] = IF i <= first THEN a ELSE f[i][x[i - 1]]
  BY <1>1, RunsAt
<1>3. \A i \in Nat : y[i] = IF i <= first THEN b ELSE g[i][y[i - 1]]
  BY <1>1, RunsAt
<1>4. \A i \in Nat : z[i] = IF i <= first THEN c ELSE h[i][z[i - 1]]
  BY <1>1, RunsAt
<1>5. 0 \in Good
  BY <1>2, <1>3, <1>4
<1>6. ASSUME NEW i \in Nat, i \in Good PROVE i + 1 \in Good
  <2>1. SUFFICES ASSUME i + 1 <= n PROVE Covered(x[i + 1], y[i + 1], z[i + 1])
    OBVIOUS
  <2>2. Covered(x[i], y[i], z[i]) /\ i + 1 \in 1..n /\ i + 1 \in Nat /\ (i + 1) - 1 = i
    BY <1>6, <2>1
  <2>3. CASE i + 1 <= first
    BY <1>2, <1>3, <1>4, <2>2, <2>3
  <2>4. CASE ~(i + 1 <= first)
    <3>1. x[i + 1] = f[i + 1][x[i]] /\ y[i + 1] = g[i + 1][y[i]] /\ z[i + 1] = h[i + 1][z[i]]
      BY <1>2, <1>3, <1>4, <2>2, <2>4
    <3>2. i + 1 > first
      BY <2>4
    <3>3. Covered(f[i + 1][x[i]], g[i + 1][y[i]], h[i + 1][z[i]])
      BY <2>2, <3>2
    <3> QED
      BY <3>1, <3>3
  <2> QED
    BY <2>3, <2>4
<1> HIDE DEF Good
<1>7. k \in Good
  BY <1>5, <1>6, NatSetInduction
<1> QED
  BY <1>7 DEF Good, x, y, z

(* The body of the sum. *)
Adding(s) == [i \in DOMAIN s |-> [total \in Fractions |-> Plus(total, s[i])]]

(* Sums of covered values are covered. *)
LEMMA SumsCovered ==
  ASSUME NEW s, NEW t, NEW q, IsList(s), IsList(t), IsList(q), Len(t) = Len(s), Len(q) = Len(s),
         \A i \in 1..Len(s) : Covered(s[i], t[i], q[i])
  PROVE  Covered(SumOf(s), SumOf(t), SumOf(q))
<1>1. \A v : SumOf(v) = RunOf(Zero, 0, Adding(v))[Len(v)]
  BY DEF SumOf, Loop, RunOf, Runs, Adding
<1>2. DOMAIN s = 1..Len(s) /\ DOMAIN t = 1..Len(s) /\ DOMAIN q = 1..Len(s) /\ Len(s) \in Nat
  BY DEF IsList
<1>3. ASSUME NEW i \in 1..Len(s), NEW u, NEW d, NEW r, Covered(u, d, r)
      PROVE  Covered(Adding(s)[i][u], Adding(t)[i][d], Adding(q)[i][r])
  <2>1. u \in Fractions /\ d \in Fractions /\ r \in Fractions
    BY <1>3 DEF Covered, Lowest
  <2>2. /\ Adding(s)[i][u] = Plus(u, s[i]) /\ Adding(t)[i][d] = Plus(d, t[i])
        /\ Adding(q)[i][r] = Plus(r, q[i])
    BY <1>2, <2>1 DEF Adding
  <2>3. Covered(s[i], t[i], q[i])
    OBVIOUS
  <2> QED
    BY <1>3, <2>2, <2>3, CoveredPlus
<1>4. Covered(Zero, Zero, Zero)
  <2>1. Is(Zero, 0, 1)
    BY ZeroOver
  <2>2. 0 <= 0 /\ 0 + 0 <= 0
    OBVIOUS
  <2> QED
    BY <2>1, <2>2, CoveredIs
<1>5. \A i \in 1..Len(s) : i > 0 =>
        \A u, d, r : Covered(u, d, r) => Covered(Adding(s)[i][u], Adding(t)[i][d], Adding(q)[i][r])
  BY <1>3
<1>6. 0 \in Nat /\ Len(s) <= Len(s)
  BY <1>2
<1>7. Covered(RunOf(Zero, 0, Adding(s))[Len(s)], RunOf(Zero, 0, Adding(t))[Len(s)],
              RunOf(Zero, 0, Adding(q))[Len(s)])
  BY <1>2, <1>4, <1>5, <1>6, LoopsCovered
<1> QED
  BY <1>1, <1>7

(* The running sums of what is covered bar by bar are covered. *)
LEMMA WilderSumsCovered ==
  ASSUME NEW s, NEW t, NEW q, IsList(s), IsList(t), IsList(q), Len(t) = Len(s), Len(q) = Len(s),
         \A i \in 2..Len(s) : Covered(s[i], t[i], q[i]),
         NEW p \in Nat \ {0}, NEW k \in 1..Len(s), k > p
  PROVE  Covered(WilderSum(s, p)[k], WilderSum(t, p)[k], WilderSum(q, p)[k])
<1> DEFINE Step(v) == [i \in DOMAIN v |-> SmoothStep(v[i], p)]
           Seed(v) == SumOf(SubSeq(v, 2, p + 1))
<1>1. DOMAIN s = 1..Len(s) /\ DOMAIN t = 1..Len(s) /\ DOMAIN q = 1..Len(s) /\ Len(s) \in Nat
  BY DEF IsList
<1>2. p + 1 \in Nat /\ k \in Nat /\ k <= Len(s) /\ ~(k < p + 1) /\ p + 1 <= Len(s)
  BY <1>1
<1>3. \A v : WilderSum(v, p) =
        [i \in DOMAIN v |-> IF i < p + 1 THEN NoValue ELSE RunOf(Seed(v), p + 1, Step(v))[i]]
  <2>1. \A v : WilderSum(v, p) = Running(Seed(v), p + 1, Step(v))
    BY DEF WilderSum
  <2>2. \A v : DOMAIN Step(v) = DOMAIN v
    OBVIOUS
  <2> HIDE DEF Step, Seed
  <2> QED
    BY <2>1, <2>2, RunningByRun
<1>4. Covered(Seed(s), Seed(t), Seed(q))
  <2> DEFINE a == SubSeq(s, 2, p + 1)
             b == SubSeq(t, 2, p + 1)
             c == SubSeq(q, 2, p + 1)
  <2>1. 2 \in Nat \ {0} /\ p + 1 \in Nat /\ 2 <= p + 1 + 1 /\ p + 1 - 2 + 1 = p
    OBVIOUS
  <2>2. /\ IsList(a) /\ Len(a) = p + 1 - 2 + 1
        /\ \A i \in 1..(p + 1 - 2 + 1) : a[i] = s[2 + i - 1]
    BY <1>2, <2>1, PartOfList
  <2>3. /\ IsList(b) /\ Len(b) = p + 1 - 2 + 1
        /\ \A i \in 1..(p + 1 - 2 + 1) : b[i] = t[2 + i - 1]
    BY <1>2, <2>1, PartOfList
  <2>4. /\ IsList(c) /\ Len(c) = p + 1 - 2 + 1
        /\ \A i \in 1..(p + 1 - 2 + 1) : c[i] = q[2 + i - 1]
    BY <1>2, <2>1, PartOfList
  <2> HIDE DEF a, b, c
  <2>5. ASSUME NEW i \in 1..Len(a) PROVE Covered(a[i], b[i], c[i])
    <3>1. i \in 1..(p + 1 - 2 + 1) /\ 2 + i - 1 \in 2..Len(s)
      BY <1>1, <1>2, <2>2
    <3> QED
      BY <2>2, <2>3, <2>4, <3>1
  <2>6. Covered(SumOf(a), SumOf(b), SumOf(c))
    BY <2>2, <2>3, <2>4, <2>5, SumsCovered
  <2> QED
    BY <2>6 DEF a, b, c
<1> HIDE DEF Seed
<1>5. ASSUME NEW i \in 1..Len(s), i > p + 1, NEW u, NEW d, NEW r, Covered(u, d, r)
      PROVE  Covered(Step(s)[i][u], Step(t)[i][d], Step(q)[i][r])
  <2>1. u \in Fractions /\ d \in Fractions /\ r \in Fractions
    BY <1>5 DEF Covered, Lowest
  <2>2. /\ Step(s)[i][u] = Plus(Minus(u, Over(u, Whole(p))), s[i])
        /\ Step(t)[i][d] = Plus(Minus(d, Over(d, Whole(p))), t[i])
        /\ Step(q)[i][r] = Plus(Minus(r, Over(r, Whole(p))), q[i])
    BY <1>1, <2>1 DEF SmoothStep
  <2>3. i \in 2..Len(s)
    BY <1>1, <1>5
  <2>4. Covered(s[i], t[i], q[i])
    BY <2>3
  <2>5. Covered(Minus(u, Over(u, Whole(p))), Minus(d, Over(d, Whole(p))), Minus(r, Over(r, Whole(p))))
    BY <1>5, CoveredLess
  <2> QED
    BY <2>2, <2>4, <2>5, CoveredPlus
<1> HIDE DEF Step
<1>6. Covered(RunOf(Seed(s), p + 1, Step(s))[k], RunOf(Seed(t), p + 1, Step(t))[k],
              RunOf(Seed(q), p + 1, Step(q))[k])
  BY <1>1, <1>2, <1>4, <1>5, LoopsCovered
<1>7. /\ WilderSum(s, p)[k] = RunOf(Seed(s), p + 1, Step(s))[k]
      /\ WilderSum(t, p)[k] = RunOf(Seed(t), p + 1, Step(t))[k]
      /\ WilderSum(q, p)[k] = RunOf(Seed(q), p + 1, Step(q))[k]
  BY <1>1, <1>2, <1>3
<1> QED
  BY <1>6, <1>7


(* The larger of two whole numbers. *)
LEMMA GreatestWhole ==
  ASSUME NEW a \in Int, NEW b \in Int
  PROVE  \E t \in Int : Greatest(Whole(a), Whole(b)) = Whole(t) /\ a <= t /\ b <= t
<1>1. Leq(Whole(a), Whole(b)) <=> a <= b
  BY DEF Leq, Whole
<1>2. CASE a <= b
  BY <1>1, <1>2 DEF Greatest
<1>3. CASE ~(a <= b)
  BY <1>1, <1>3 DEF Greatest
<1> QED
  BY <1>2, <1>3

(* A move up goes beyond the high of the candle before, hence beyond its close,
   and so does a move down: at most one counts, and the true range covers it. *)
LEMMA MovesCovered ==
  ASSUME NEW c, NEW low, NEW high, Ranging(c, low, high), NEW i \in 2..Len(c)
  PROVE  Covered(PlusMove(c)[i], MinusMove(c)[i], TrueRange(c)[i])
<1>1. DOMAIN c = 1..Len(c) /\ Len(c) \in Nat
  BY DEF Ranging, IsList
<1>2. i \in 1..Len(c) /\ i - 1 \in 1..Len(c) /\ i # 1 /\ i > 1
  BY <1>1
<1> DEFINE h == c[i].high
           l == c[i].low
           j == i - 1
           up == UpMove(c, i)
           down == DownMove(c, i)
<1>3. h \in Int /\ l \in Int /\ l <= h
  BY <1>2 DEF Ranging
<1>4. /\ c[j].low \in Int /\ c[j].close \in Int /\ c[j].high \in Int
      /\ c[j].low <= c[j].close /\ c[j].close <= c[j].high
  <2>1. j \in 1..Len(c)
    BY <1>2
  <2> HIDE DEF j
  <2> QED
    BY <2>1 DEF Ranging
<1>5. up = h - c[j].high /\ down = c[j].low - l
  BY DEF UpMove, DownMove
<1>6. TrueRange(c)[i] =
        Greatest(Whole(h - l), Greatest(Whole(Magnitude(h - c[j].close)), Whole(Magnitude(l - c[j].close))))
  BY <1>1, <1>2 DEF TrueRange
<1>7. PlusMove(c)[i] = IF up > down /\ up > 0 THEN Whole(up) ELSE Zero
  BY <1>1, <1>2 DEF PlusMove
<1>8. MinusMove(c)[i] = IF down > up /\ down > 0 THEN Whole(down) ELSE Zero
  BY <1>1, <1>2 DEF MinusMove
<1> DEFINE x == c[j].close
<1>0. x \in Int /\ c[j].low <= x /\ x <= c[j].high
  BY <1>4
<1> HIDE DEF h, l, j, up, down, x
<1>9. Magnitude(h - x) \in Int /\ Magnitude(l - x) \in Int /\ h - l \in Int
  BY <1>0, <1>3, <1>4 DEF Magnitude
<1>10. PICK s \in Int :
         /\ Greatest(Whole(Magnitude(h - x)), Whole(Magnitude(l - x))) = Whole(s)
         /\ Magnitude(h - x) <= s /\ Magnitude(l - x) <= s
  BY <1>9, GreatestWhole
<1>11. PICK t \in Int : Greatest(Whole(h - l), Whole(s)) = Whole(t) /\ h - l <= t /\ s <= t
  BY <1>9, <1>10, GreatestWhole
<1>12. TrueRange(c)[i] = Whole(t)
  BY <1>6, <1>10, <1>11 DEF x
<1>13. up \in Int /\ down \in Int /\ up <= t /\ down <= t /\ 0 <= t
  <2>1. h - x <= Magnitude(h - x) /\ x - l <= Magnitude(l - x)
    BY <1>0, <1>3, <1>4 DEF Magnitude
  <2> DEFINE y == Magnitude(h - x)
             z == Magnitude(l - x)
             hb == c[j].high
             lb == c[j].low
  <2>2. /\ h - x <= y /\ x - l <= z /\ y \in Int /\ z \in Int /\ y <= s /\ z <= s /\ s <= t
        /\ lb \in Int /\ hb \in Int /\ lb <= x /\ x <= hb /\ up = h - hb /\ down = lb - l /\ h - l <= t
    BY <1>0, <1>4, <1>5, <1>9, <1>10, <1>11, <2>1
  <2> HIDE DEF y, z, hb, lb
  <2> QED
    BY <1>0, <1>3, <2>2
<1>14. PICK n \in Int, m \in Int :
         /\ PlusMove(c)[i] = Whole(n) /\ MinusMove(c)[i] = Whole(m)
         /\ 0 <= n /\ 0 <= m /\ n + m <= t
  <2>1. CASE up > down /\ up > 0
    <3>1. ~(down > up)
      BY <1>13, <2>1
    <3>2. PlusMove(c)[i] = Whole(up) /\ MinusMove(c)[i] = Whole(0)
      BY <1>7, <1>8, <2>1, <3>1 DEF Zero
    <3>3. 0 <= up /\ 0 <= 0 /\ up + 0 <= t /\ 0 \in Int
      BY <1>13, <2>1
    <3> QED
      BY <1>13, <3>2, <3>3
  <2>2. CASE ~(up > down /\ up > 0) /\ down > up /\ down > 0
    <3>1. PlusMove(c)[i] = Whole(0) /\ MinusMove(c)[i] = Whole(down)
      BY <1>7, <1>8, <2>2 DEF Zero
    <3>2. 0 <= down /\ 0 <= 0 /\ 0 + down <= t /\ 0 \in Int
      BY <1>13, <2>2
    <3> QED
      BY <1>13, <3>1, <3>2
  <2>3. CASE ~(up > down /\ up > 0) /\ ~(down > up /\ down > 0)
    <3>1. PlusMove(c)[i] = Whole(0) /\ MinusMove(c)[i] = Whole(0)
      BY <1>7, <1>8, <2>3 DEF Zero
    <3>2. 0 <= 0 /\ 0 + 0 <= t /\ 0 \in Int
      BY <1>13
    <3> QED
      BY <3>1, <3>2
  <2> QED
    BY <2>1, <2>2, <2>3
<1>15. Is(Whole(n), n, 1) /\ Is(Whole(m), m, 1) /\ Is(Whole(t), t, 1)
  BY WholeOverOne
<1>16. Covered(Whole(n), Whole(m), Whole(t))
  BY <1>14, <1>15, CoveredIs
<1> QED
  BY <1>12, <1>14, <1>16

(* The indexes of covered movements are percentages, and so is their sum. *)
LEMMA ZeroPercent == Zero \in Percents /\ Plus(Zero, Zero) \in Percents
<1>1. Is(Zero, 0, 1) /\ Is(Whole(100), 100, 1)
  <2>1. 100 \in Int /\ 1 \in Nat \ {0}
    OBVIOUS
  <2> QED
    BY <2>1, ZeroOver, WholeOverOne
<1>2. Is(Plus(Zero, Zero), 0 + 0, 1)
  BY <1>1, PlusIs
<1>3. 0 <= 0 /\ 0 <= 100 /\ 0 <= 0 + 0 /\ 0 + 0 <= 100
  OBVIOUS
<1> QED
  BY <1>1, <1>2, <1>3, BetweenIs DEF Percents

(* n parts of l are a percentage. *)
LEMMA PercentIs ==
  ASSUME NEW a, NEW n \in Int, NEW l, Is(a, 100 * n, l), 0 <= n, n <= l
  PROVE  a \in Percents
<1>1. l \in Nat \ {0} /\ l \in Int
  BY DEF Is
<1>2. Is(Zero, 0, l) /\ Is(Whole(100), 100 * l, l)
  BY <1>1, ZeroOver, WholeIs
<1>3. 0 <= 100 * n /\ 100 * n <= 100 * l
  BY <1>1
<1> QED
  BY <1>2, <1>3, BetweenIs DEF Percents

(* A directional index is a percentage, and so are the two together. *)
LEMMA IndexesWithin ==
  ASSUME NEW u, NEW d, NEW r, Covered(u, d, r)
  PROVE  /\ DirectionalIndex(u, r) \in Percents
         /\ DirectionalIndex(d, r) \in Percents
         /\ Plus(DirectionalIndex(u, r), DirectionalIndex(d, r)) \in Percents
<1>1. CASE r = Zero
  <2>1. DirectionalIndex(u, r) = Zero /\ DirectionalIndex(d, r) = Zero
    BY <1>1 DEF DirectionalIndex
  <2> QED
    BY <2>1, ZeroPercent
<1>2. CASE r # Zero
  <2>1. PICK e \in Nat \ {0}, n \in Int, m \in Int, l \in Int :
          /\ Is(u, n, e) /\ Is(d, m, e) /\ Is(r, l, e)
          /\ 0 <= n /\ 0 <= m /\ n + m <= l
    BY CoveredHas
  <2>2. l # 0
    BY <1>2, <2>1, ZeroIs
  <2>3. l > 0 /\ l \in Nat \ {0} /\ n <= l /\ m <= l
    BY <2>1, <2>2
  <2>4. Is(Whole(100), 100, 1) /\ 1 * e = e
    <3>1. 100 \in Int /\ 1 * e = e
      OBVIOUS
    <3> QED
      BY <3>1, WholeOverOne
  <2>5. Is(Times(Whole(100), u), 100 * n, e) /\ Is(Times(Whole(100), d), 100 * m, e)
    <3>1. Is(Times(Whole(100), u), 100 * n, 1 * e) /\ Is(Times(Whole(100), d), 100 * m, 1 * e)
      BY <2>1, <2>4, TimesIs
    <3> QED
      BY <2>4, <3>1
  <2> DEFINE a == DirectionalIndex(u, r)
             b == DirectionalIndex(d, r)
  <2>6. a = Over(Times(Whole(100), u), r) /\ b = Over(Times(Whole(100), d), r)
    BY <1>2 DEF DirectionalIndex
  <2> HIDE DEF a, b
  <2>7. Is(a, 100 * n, l)
    BY <2>1, <2>3, <2>5, <2>6, OverIs
  <2>8. Is(b, 100 * m, l)
    BY <2>1, <2>3, <2>5, <2>6, OverIs
  <2>9. Is(Plus(a, b), 100 * (n + m), l)
    <3>1. Is(Plus(a, b), 100 * n + 100 * m, l)
      BY <2>7, <2>8, PlusIs
    <3>2. 100 * n + 100 * m = 100 * (n + m)
      OBVIOUS
    <3> QED
      BY <3>1, <3>2
  <2>10. a \in Percents
    BY <2>1, <2>3, <2>7, PercentIs
  <2>11. b \in Percents
    BY <2>1, <2>3, <2>8, PercentIs
  <2>12. Plus(a, b) \in Percents
    <3>1. n + m \in Int /\ 0 <= n + m
      BY <2>1
    <3> QED
      BY <2>1, <2>9, <3>1, PercentIs
  <2> QED
    BY <2>10, <2>11, <2>12 DEF a, b
<1> QED
  BY <1>1, <1>2

(* The distance of the two indexes, relative to their sum, is a percentage. *)
LEMMA DxValueWithin ==
  ASSUME NEW a \in Percents, NEW b \in Percents
  PROVE  DxValue(a, b) \in Percents
<1> DEFINE total == Plus(a, b)
<1>1. CASE total = Zero
  <2>1. DxValue(a, b) = Zero
    BY <1>1 DEF DxValue
  <2> QED
    BY <2>1, ZeroPercent
<1>2. CASE total # Zero
  <2>1. a \in Lowest /\ b \in Lowest /\ Leq(Zero, a) /\ Leq(Zero, b)
    BY DEF Percents, Between
  <2>2. PICK e \in Nat \ {0}, n \in Int, m \in Int : Is(a, n, e) /\ Is(b, m, e)
    BY <2>1, IsTwo
  <2>3. Is(Zero, 0, e)
    BY ZeroOver
  <2>4. Leq(Zero, a) <=> 0 <= n
    BY <2>2, <2>3, ComparedIs
  <2>5. Leq(Zero, b) <=> 0 <= m
    BY <2>2, <2>3, ComparedIs
  <2>6. Is(total, n + m, e) /\ Is(Minus(a, b), n - m, e)
    BY <2>2, PlusIs
  <2>7. DxValue(a, b) = Over(Times(Whole(100), Size(Minus(a, b))), total)
    BY <1>2 DEF DxValue
  <2> HIDE DEF total
  <2>8. n + m # 0
    BY <1>2, <2>6, ZeroIs
  <2> DEFINE k == Magnitude(n - m)
  <2>9. n + m > 0 /\ k \in Int /\ 0 <= k /\ k <= n + m
    BY <2>1, <2>4, <2>5, <2>8 DEF Magnitude
  <2>10. Is(Size(Minus(a, b)), k, e)
    BY <2>6, SizeIs
  <2> HIDE DEF k
  <2>11. Is(Times(Whole(100), Size(Minus(a, b))), 100 * k, e)
    <3>1. Is(Whole(100), 100, 1) /\ 1 * e = e
      <4>1. 100 \in Int /\ 1 * e = e
        OBVIOUS
      <4> QED
        BY <4>1, WholeOverOne
    <3>2. Is(Times(Whole(100), Size(Minus(a, b))), 100 * k, 1 * e)
      BY <2>10, <3>1, TimesIs
    <3> QED
      BY <3>1, <3>2
  <2>12. Is(DxValue(a, b), 100 * k, n + m)
    BY <2>6, <2>7, <2>9, <2>11, OverIs
  <2> QED
    BY <2>9, <2>12, PercentIs
<1> QED
  BY <1>1, <1>2

(* From the first smoothed range on the two indexes are percentages that add up to
   one; their average has values from the documented position on. *)
LEMMA IndexKnown ==
  ASSUME NEW c, NEW low, NEW high, Ranging(c, low, high), NEW p \in Nat \ {0}, NEW i \in 1..Len(c)
  PROVE  LET a == Index(c, p, PlusMove(c))[i]
             b == Index(c, p, MinusMove(c))[i]
         IN  IF ~Enough(c, p) \/ i <= p THEN a = NoValue /\ b = NoValue
             ELSE a \in Percents /\ b \in Percents /\ Plus(a, b) \in Percents
<1>1. IsList(c) /\ DOMAIN c = 1..Len(c) /\ Len(c) \in Nat
  BY DEF Ranging, IsList
<1>2. CASE ~Enough(c, p) \/ i <= p
  BY <1>1, <1>2 DEF Index
<1>3. CASE ~(~Enough(c, p) \/ i <= p)
  <2> DEFINE s == PlusMove(c)
             t == MinusMove(c)
             q == TrueRange(c)
  <2>1. Along(s, c) /\ Along(t, c) /\ Along(q, c)
    BY DEF Along, PlusMove, MinusMove, TrueRange
  <2>2. \A k \in 2..Len(c) : Covered(s[k], t[k], q[k])
    BY MovesCovered
  <2> HIDE DEF s, t, q
  <2>3. /\ IsList(s) /\ Len(s) = Len(c) /\ IsList(t) /\ Len(t) = Len(c)
        /\ IsList(q) /\ Len(q) = Len(c)
    BY <1>1, <2>1, AlongIsList
  <2>4. \A k \in 2..Len(s) : Covered(s[k], t[k], q[k])
    BY <2>2, <2>3
  <2>5. i \in 1..Len(s) /\ i > p
    BY <1>3, <2>3
  <2>6. Covered(WilderSum(s, p)[i], WilderSum(t, p)[i], WilderSum(q, p)[i])
    BY <2>3, <2>4, <2>5, WilderSumsCovered
  <2>7. /\ Index(c, p, s)[i] = DirectionalIndex(WilderSum(s, p)[i], WilderSum(q, p)[i])
        /\ Index(c, p, t)[i] = DirectionalIndex(WilderSum(t, p)[i], WilderSum(q, p)[i])
    BY <1>1, <1>3 DEF Index, q
  <2> QED
    BY <1>3, <2>6, <2>7, IndexesWithin DEF s, t
<1> QED
  BY <1>2, <1>3

(* The average directional index is known from twice its period on, and a
   percentage (adx). *)
LEMMA AdxWithin ==
  ASSUME NEW c, NEW low, NEW high, Ranging(c, low, high), NEW p \in Nat \ {0}
  PROVE  KnownBehind(adx(c, p).adx, Len(c), 2 * p - 1, Percents)
<1>1. IsList(c) /\ DOMAIN c = 1..Len(c) /\ Len(c) \in Nat
  BY DEF Ranging, IsList
<1>2. CASE ~Enough(c, p)
  <2> DEFINE f == [i \in 1..Len(c) |-> NoValue]
  <2>1. adx(c, p).adx = f
    BY <1>1, <1>2, AdxByParts
  <2>2. \A i \in 1..Len(c) : i <= 2 * p - 1
    BY <1>1, <1>2 DEF Enough
  <2>3. KnownBehind(f, Len(c), 2 * p - 1, Percents)
    BY <2>2 DEF KnownBehind
  <2> QED
    BY <2>1, <2>3
<1>3. CASE Enough(c, p)
  <2> DEFINE s == Dx(c, p)
  <2>1. adx(c, p).adx = WilderMean(s, p, p + 1)
    BY <1>3, AdxByParts
  <2>2. Along(s, c)
    BY DEF Along, Dx
  <2>3. ASSUME NEW i \in (p + 1)..Len(c) PROVE s[i] \in Percents
    <3>1. i \in 1..Len(c) /\ ~(i <= p)
      BY <1>1
    <3>2. s[i] = DxValue(Index(c, p, PlusMove(c))[i], Index(c, p, MinusMove(c))[i])
      BY <1>1, <1>3, <3>1 DEF Dx
    <3>3. Index(c, p, PlusMove(c))[i] \in Percents /\ Index(c, p, MinusMove(c))[i] \in Percents
      BY <1>3, <3>1, IndexKnown
    <3> QED
      BY <3>2, <3>3, DxValueWithin
  <2> HIDE DEF s
  <2>4. IsList(s) /\ Len(s) = Len(c)
    BY <1>1, <2>2, AlongIsList
  <2>5. Zero \in Lowest /\ Whole(100) \in Lowest
    BY WholeLowest DEF Zero
  <2>6. p + 1 \in Nat \ {0} /\ (p + 1) + p - 2 = 2 * p - 1
    OBVIOUS
  <2>7. \A i \in (p + 1)..Len(s) : s[i] \in Between(Zero, Whole(100))
    BY <2>3, <2>4 DEF Percents
  <2>8. KnownBehind(WilderMean(s, p, p + 1), Len(s), (p + 1) + p - 2, Between(Zero, Whole(100)))
    BY <2>4, <2>5, <2>6, <2>7, WilderMeanWithin
  <2> QED
    BY <2>1, <2>4, <2>6, <2>8 DEF Percents
<1> QED
  BY <1>2, <1>3


----------------------------------------------------------------------------
(* The snapshot. *)

(* The latest value is the one of the last candle, once there is one. *)
LEMMA LastKnown ==
  ASSUME NEW n \in Nat \ {0}, NEW s, NEW w \in Nat, NEW X, KnownBehind(s, n, w, X), NoValue \notin X
  PROVE  /\ last_value(s) # NoValue <=> n > w
         /\ last_value(s) = NoValue \/ last_value(s) \in X
         /\ last_value(s) = s[n]
<1> DEFINE known == {i \in DOMAIN s : s[i] # NoValue}
<1>1. DOMAIN s = 1..n
  <2>1. s = [i \in 1..n |-> s[i]]
    BY DEF KnownBehind
  <2> QED
    BY <2>1
<1>2. \A i \in 1..n : IF i <= w THEN s[i] = NoValue ELSE s[i] \in X
  BY DEF KnownBehind
<1>3. n \in 1..n
  OBVIOUS
<1>4. last_value(s) = IF known = {} THEN NoValue ELSE s[CHOOSE i \in known : \A j \in known : j <= i]
  BY DEF last_value
<1>5. CASE n > w
  <2>1. s[n] \in X /\ s[n] # NoValue
    BY <1>2, <1>3, <1>5
  <2>2. n \in known /\ \A j \in known : j \in 1..n
    BY <1>1, <1>3, <2>1
  <2>3. \A j \in known : j <= n
    BY <2>2
  <2> DEFINE m == CHOOSE i \in known : \A j \in known : j <= i
  <2>4. m \in known /\ \A j \in known : j <= m
    BY <2>2, <2>3
  <2> HIDE DEF m
  <2>5. m = n
    BY <2>2, <2>3, <2>4
  <2>6. known # {}
    BY <2>2
  <2> HIDE DEF known
  <2>7. last_value(s) = s[m]
    BY <1>4, <2>6 DEF m
  <2> QED
    BY <1>5, <2>1, <2>5, <2>7
<1>6. CASE ~(n > w)
  <2>1. \A i \in 1..n : s[i] = NoValue
    BY <1>2, <1>6
  <2>2. known = {}
    BY <1>1, <2>1
  <2> QED
    BY <1>3, <1>4, <1>6, <2>1, <2>2
<1> QED
  BY <1>5, <1>6

(* A value of a range, or none, is in it as the property has it. *)
LEMMA InFromBetween ==
  ASSUME NEW low, NEW high, NEW v, v = NoValue \/ v \in Between(Whole(low), Whole(high))
  PROVE  In(v, low, high)
BY DEF In, Between

(* The candles range from the lowest low to the highest high. *)
LEMMA ExtremesExist ==
  ASSUME NEW c, IsList(c), Len(c) # 0,
         \A i \in 1..Len(c) : c[i].low \in Nat /\ c[i].high \in Nat
  PROVE  /\ HighestOf(c) \in {c[i].high : i \in 1..Len(c)}
         /\ \A i \in 1..Len(c) : c[i].high <= HighestOf(c)
         /\ LowestOf(c) \in {c[i].low : i \in 1..Len(c)}
         /\ \A i \in 1..Len(c) : LowestOf(c) <= c[i].low
<1>1. DOMAIN c = 1..Len(c) /\ Len(c) \in Nat /\ 1 \in 1..Len(c)
  BY DEF IsList
<1> DEFINE S == {c[i].high : i \in 1..Len(c)}
           T == {c[i].low : i \in 1..Len(c)}
<1>2. \E v \in S : \A i \in 1..Len(c) : c[i].high <= v
  <2> DEFINE f == [i \in 1..Len(c) |-> c[i].high]
  <2>1. S = {f[i] : i \in 1..Len(c)}
    OBVIOUS
  <2>2. IsFiniteSet(1..Len(c))
    BY <1>1, FS_Interval
  <2>3. IsFiniteSet({f[i] : i \in 1..Len(c)})
    BY <2>2, ImageIsFinite
  <2>4. S \in SUBSET Int /\ S # {}
    BY <1>1
  <2>5. \A i \in 1..Len(c) : c[i].high \in S
    OBVIOUS
  <2> HIDE DEF S, f
  <2>6. PICK m \in S : \A k \in S : k <= m
    BY <2>1, <2>3, <2>4, GreatestNumber
  <2> QED
    BY <2>5, <2>6
<1>3. \E v \in T : \A i \in 1..Len(c) : v <= c[i].low
  <2>1. T \in SUBSET Nat /\ T # {} /\ \A i \in 1..Len(c) : c[i].low \in T
    BY <1>1
  <2> HIDE DEF T
  <2>2. PICK m \in T : \A k \in T : m <= k
    BY <2>1, LeastNumber
  <2> QED
    BY <2>1, <2>2
<1>4. HighestOf(c) = CHOOSE v \in S : \A i \in 1..Len(c) : c[i].high <= v
  BY <1>1 DEF HighestOf
<1>5. LowestOf(c) = CHOOSE v \in T : \A i \in 1..Len(c) : v <= c[i].low
  BY <1>1 DEF LowestOf
<1> HIDE DEF S, T
<1>6. HighestOf(c) \in S /\ \A i \in 1..Len(c) : c[i].high <= HighestOf(c)
  BY <1>2, <1>4
<1>7. LowestOf(c) \in T /\ \A i \in 1..Len(c) : LowestOf(c) <= c[i].low
  BY <1>3, <1>5
<1> QED
  BY <1>6, <1>7 DEF S, T

(* A retracement lies between the two ends. *)
LEMMA FibWithin ==
  ASSUME NEW low \in Int, NEW high \in Int, low <= high, NEW r \in FibRatios
  PROVE  fib_levels(high, low)[r] \in Between(Whole(low), Whole(high))
<1>1. r \in Int /\ 0 <= r /\ r <= 1000 /\ 1000 \in Nat \ {0}
  BY DEF FibRatios
<1> DEFINE H == high - low
<1>2. H \in Nat /\ H \in Int /\ low = high - H
  OBVIOUS
<1>3. fib_levels(high, low)[r] = Minus(Whole(high), Times(Whole(H), Frac(r, 1000)))
  BY DEF fib_levels
<1> HIDE DEF H
<1>4. Is(Whole(H), H, 1) /\ Is(Frac(r, 1000), r, 1000)
  BY <1>1, <1>2, WholeOverOne, FracIs
<1>5. Is(Times(Whole(H), Frac(r, 1000)), H * r, 1 * 1000)
  BY <1>4, TimesIs
<1>6. 1 * 1000 = 1000
  OBVIOUS
<1>7. Is(Whole(high), high * 1000, 1000) /\ Is(Whole(low), low * 1000, 1000)
  BY <1>1, WholeIs
<1>8. Is(fib_levels(high, low)[r], high * 1000 - H * r, 1000)
  BY <1>3, <1>5, <1>6, <1>7, PlusIs
<1>9. 0 * H <= r * H /\ r * H <= 1000 * H /\ r * H = H * r /\ r * H \in Int
  <2>1. 0 \in Int /\ 1000 \in Int
    OBVIOUS
  <2> QED
    BY <1>1, <1>2, <2>1, TimesKeepsOrder
<1>10. low * 1000 <= high * 1000 - H * r /\ high * 1000 - H * r <= high * 1000
  BY <1>1, <1>2, <1>9
<1> QED
  BY <1>7, <1>8, <1>10, BetweenIs

----------------------------------------------------------------------------
(* The candles. *)

(* The close of a candle lies within it. *)
SoundCandle == {k \in Candle : 0 < k.low /\ k.low <= k.close /\ k.close <= k.high}

(* So it is with those of the venue, of the cache and of what is shown. *)
CandlesSound ==
    /\ bars \in Seq(SoundCandle) /\ bars # <<>>
    /\ cache \in Seq(SoundCandle)
    /\ shown.ok => shown.candles \in Seq(SoundCandle) /\ shown.candles # <<>>

(* A candle that begins, and one that is traded in, is sound. *)
LEMMA BarsAreSound ==
  ASSUME NEW p \in Prices
  PROVE  /\ \A tick \in Nat : NewBar(tick, p) \in SoundCandle
         /\ \A bar \in SoundCandle : Traded(bar, p) \in SoundCandle
<1>1. p \in Nat /\ p > 0
  BY MarketAssumption
<1>2. ASSUME NEW tick \in Nat PROVE NewBar(tick, p) \in SoundCandle
  BY <1>1 DEF NewBar, SoundCandle, Candle
<1>3. ASSUME NEW bar \in SoundCandle PROVE Traded(bar, p) \in SoundCandle
  <2>1. bar \in Candle /\ 0 < bar.low /\ bar.low <= bar.close /\ bar.close <= bar.high
    BY DEF SoundCandle
  <2>2. Traded(bar, p) \in Candle
    BY <1>1, <2>1, TradedKeepsOpen
  <2>3. /\ Traded(bar, p).high = IF p > bar.high THEN p ELSE bar.high
        /\ Traded(bar, p).low = IF p < bar.low THEN p ELSE bar.low
        /\ Traded(bar, p).close = p
    BY <2>1 DEF Traded, Candle
  <2>4. bar.low \in Nat /\ bar.high \in Nat /\ bar.close \in Nat
    BY <2>1 DEF Candle
  <2>5. /\ 0 < Traded(bar, p).low /\ Traded(bar, p).low <= Traded(bar, p).close
        /\ Traded(bar, p).close <= Traded(bar, p).high
    BY <1>1, <2>1, <2>3, <2>4
  <2> QED
    BY <2>2, <2>5 DEF SoundCandle
<1> QED
  BY <1>2, <1>3

(* At first the candles are sound. *)
LEMMA InitSound ==
  ASSUME Init
  PROVE  CandlesSound
<1>1. PICK p \in Prices : bars = <<NewBar(0, p)>>
  BY DEF Init
<1>2. NewBar(0, p) \in SoundCandle
  BY BarsAreSound
<1>3. bars \in Seq(SoundCandle) /\ bars # <<>>
  BY <1>1, <1>2
<1>4. cache = <<>> /\ ~shown.ok
  BY DEF Init, NotShown
<1> QED
  BY <1>3, <1>4 DEF CandlesSound

(* A tick keeps them sound. *)
LEMMA TickKeepsSound ==
  ASSUME BarFrame, CandlesSound, Tick
  PROVE  CandlesSound'
<1>1. PICK p \in Prices :
        bars' = IF now' % TicksPerBar = 0 THEN Append(bars, NewBar(now', p))
                ELSE Front(bars) \o <<Traded(Last(bars), p)>>
  BY DEF Tick
<1>2. now' \in Nat /\ cache' = cache /\ shown' = NotShown
  BY DEF Tick, BarFrame
<1>3. bars \in Seq(SoundCandle) /\ bars # <<>> /\ Len(bars) \in Nat \ {0}
  BY DEF CandlesSound
<1>4. CASE now' % TicksPerBar = 0
  <2> DEFINE bar == NewBar(now', p)
  <2>1. bar \in SoundCandle /\ bars' = Append(bars, bar)
    BY <1>1, <1>2, <1>4, BarsAreSound
  <2> HIDE DEF bar
  <2>2. bars' \in Seq(SoundCandle) /\ bars' # <<>>
    BY <1>3, <2>1
  <2> QED
    BY <1>2, <2>2 DEF CandlesSound, NotShown
<1>5. CASE now' % TicksPerBar # 0
  <2> DEFINE bar == Traded(bars[Len(bars)], p)
             front == SubSeq(bars, 1, Len(bars) - 1)
  <2>1. bars' = front \o <<bar>>
    BY <1>1, <1>5 DEF Last, Front
  <2>2. bars[Len(bars)] \in SoundCandle
    BY <1>3
  <2>3. bar \in SoundCandle
    BY <2>2, BarsAreSound
  <2>4. front \in Seq(SoundCandle)
    <3>1. \A i \in 1..(Len(bars) - 1) : bars[i] \in SoundCandle
      BY <1>3
    <3>2. 1 \in Int /\ Len(bars) - 1 \in Int
      BY <1>3
    <3> QED
      BY <3>1, <3>2, SubSeqProperties
  <2> HIDE DEF bar, front
  <2>5. <<bar>> \in Seq(SoundCandle) /\ Len(<<bar>>) = 1
    BY <2>3
  <2>6. bars' \in Seq(SoundCandle) /\ Len(bars') = Len(front) + 1 /\ Len(front) \in Nat
    BY <2>1, <2>4, <2>5, ConcatProperties
  <2>7. bars' # <<>>
    BY <2>6
  <2> QED
    BY <1>2, <1>3, <2>6, <2>7 DEF CandlesSound, NotShown
<1> QED
  BY <1>4, <1>5

(* What is fetched is sound. *)
LEMMA FetchedIsSound ==
  ASSUME BarFrame, CandlesSound
  PROVE  Fetched \in Seq(SoundCandle) /\ Fetched # <<>>
<1>1. Len(Fetched) \in Nat \ {0} /\ Fetched \in Seq(Candle)
  BY FetchedTail
<1> DEFINE m == IF Len(bars) > OhlcvLimit THEN Len(bars) - OhlcvLimit + 1 ELSE 1
<1>2. bars \in Seq(SoundCandle) /\ Len(bars) \in Nat /\ OhlcvLimit \in Nat \ {0}
  BY MarketAssumption DEF CandlesSound
<1>3. m \in Nat \ {0} /\ m \in Int /\ Len(bars) \in Int
  BY <1>2
<1>4. Fetched = SubSeq(bars, m, Len(bars))
  BY DEF Fetched
<1> HIDE DEF m
<1>5. \A i \in m..Len(bars) : bars[i] \in SoundCandle
  BY <1>2, <1>3
<1>6. SubSeq(bars, m, Len(bars)) \in Seq(SoundCandle)
  BY <1>3, <1>5, SubSeqProperties
<1> QED
  BY <1>1, <1>4, <1>6

(* The candles are sound in every reachable state. *)
LEMMA CandlesSoundHolds == Spec => []CandlesSound
<1>1. Init => CandlesSound
  BY InitSound
<1>2. MarketInv /\ CandlesSound /\ [Next]_vars => CandlesSound'
  <2> SUFFICES ASSUME MarketInv, CandlesSound, [Next]_vars
               PROVE  CandlesSound'
    OBVIOUS
  <2>1. BarFrame
    BY DEF MarketInv
  <2>2. CASE Tick
    BY <2>1, <2>2, TickKeepsSound
  <2>3. CASE CacheHit
    <3>1. cache # <<>> /\ UNCHANGED <<now, bars, cache>> /\ shown'.candles = cache
      BY <2>3 DEF CacheHit, IsFresh, Show
    <3> QED
      BY <3>1 DEF CandlesSound
  <2>4. CASE Refetch
    <3>1. cache' = Fetched /\ UNCHANGED <<now, bars>> /\ shown'.candles = Fetched
      BY <2>4 DEF Refetch, Show
    <3>2. Fetched \in Seq(SoundCandle) /\ Fetched # <<>>
      BY <2>1, FetchedIsSound
    <3> QED
      BY <3>1, <3>2 DEF CandlesSound
  <2>5. CASE Unreachable
    <3>1. cache # <<>> /\ UNCHANGED <<now, bars, cache>> /\ shown'.candles = cache
      BY <2>5 DEF Unreachable, Show
    <3> QED
      BY <3>1 DEF CandlesSound
  <2>6. CASE UNCHANGED vars
    BY <2>6 DEF vars, CandlesSound
  <2> QED
    BY <2>2, <2>3, <2>4, <2>5, <2>6 DEF Next
<1> QED
  BY <1>1, <1>2, MarketInvHolds, PTL DEF Spec

(* Sound candles range from their lowest low, which is positive, to their
   highest high. *)
LEMMA SoundRanging ==
  ASSUME NEW c \in Seq(SoundCandle), c # <<>>
  PROVE  /\ Ranging(c, LowestOf(c), HighestOf(c)) /\ Len(c) \in Nat \ {0}
         /\ LowestOf(c) <= HighestOf(c) /\ LowestOf(c) > 0
<1>1. IsList(c) /\ Len(c) \in Nat \ {0}
  BY DEF IsList
<1>2. ASSUME NEW i \in 1..Len(c)
      PROVE  /\ c[i].low \in Nat /\ c[i].close \in Nat /\ c[i].high \in Nat
             /\ 0 < c[i].low /\ c[i].low <= c[i].close /\ c[i].close <= c[i].high
  <2>1. c[i] \in SoundCandle
    BY <1>1
  <2> QED
    BY <2>1 DEF SoundCandle, Candle
<1>3. /\ HighestOf(c) \in {c[i].high : i \in 1..Len(c)}
      /\ \A i \in 1..Len(c) : c[i].high <= HighestOf(c)
      /\ LowestOf(c) \in {c[i].low : i \in 1..Len(c)}
      /\ \A i \in 1..Len(c) : LowestOf(c) <= c[i].low
  BY <1>1, <1>2, ExtremesExist
<1>4. HighestOf(c) \in Nat /\ LowestOf(c) \in Nat /\ LowestOf(c) > 0
  BY <1>2, <1>3
<1>5. Ranging(c, LowestOf(c), HighestOf(c))
  BY <1>1, <1>2, <1>3, <1>4 DEF Ranging
<1>6. LowestOf(c) <= HighestOf(c)
  <2>1. 1 \in 1..Len(c)
    BY <1>1
  <2>2. /\ c[1].low \in Nat /\ c[1].high \in Nat /\ c[1].low <= c[1].high
        /\ LowestOf(c) <= c[1].low /\ c[1].high <= HighestOf(c)
    <3>1. c[1].close \in Nat /\ c[1].low <= c[1].close /\ c[1].close <= c[1].high
      BY <1>2, <2>1
    <3> QED
      BY <1>2, <1>3, <2>1, <3>1
  <2> QED
    BY <1>4, <2>2
<1> QED
  BY <1>1, <1>4, <1>5, <1>6


----------------------------------------------------------------------------

(* The lines of the snapshot, and what is known of them. *)
LEMMA LinesInRange ==
  ASSUME NEW c \in Seq(SoundCandle), c # <<>>,
         NEW low, low = LowestOf(c), NEW high, high = HighestOf(c),
         NEW n, n = Len(c), NEW X, X = Between(Whole(low), Whole(high))
  PROVE  /\ KnownBehind(Lines(c).rsi, n, WarmUp.rsi, Percents)
         /\ KnownBehind(Lines(c).ema, n, WarmUp.ema, X)
         /\ KnownBehind(Lines(c).macd, n, WarmUp.macd, Lowest)
         /\ KnownBehind(Lines(c).signal, n, WarmUp.signal, Lowest)
         /\ KnownBehind(Lines(c).middle, n, Settings.bollinger - 1, X)
         /\ KnownBehind(Lines(c).variance, n, Settings.bollinger - 1,
                        Between(Zero, Whole((high - low) * (high - low))))
         /\ KnownBehind(Lines(c).atr, n, WarmUp.atr, Between(Zero, Whole(high - low)))
         /\ KnownBehind(Lines(c).adx, n, WarmUp.adx, Percents)
<1> DEFINE closes == Column(c, "close")
           m == macd(closes, Settings.fast, Settings.slow, Settings.signal)
           b == bollinger(closes, Settings.bollinger)
<1>1. /\ Settings.rsi \in Nat \ {0} /\ Settings.fast \in Nat \ {0} /\ Settings.slow \in Nat \ {0}
      /\ Settings.signal \in Nat \ {0} /\ Settings.ema \in Nat \ {0}
      /\ Settings.bollinger \in Nat \ {0} /\ Settings.adx \in Nat \ {0}
      /\ Settings.atr \in Nat \ {0}
  BY MarketAssumption
<1>2. /\ Lines(c).rsi = rsi(closes, Settings.rsi) /\ Lines(c).ema = ema(closes, Settings.ema)
      /\ Lines(c).macd = m.line /\ Lines(c).signal = m.signal
      /\ Lines(c).middle = b.middle /\ Lines(c).variance = b.variance
      /\ Lines(c).atr = atr(c, Settings.atr) /\ Lines(c).adx = adx(c, Settings.adx).adx
  BY DEF Lines
<1>3. /\ WarmUp.rsi = Settings.rsi /\ WarmUp.ema = Settings.ema - 1 /\ WarmUp.macd = Slower - 1
      /\ WarmUp.signal = Slower + Settings.signal - 2 /\ WarmUp.atr = Settings.atr
      /\ WarmUp.adx = 2 * Settings.adx - 1
  BY DEF WarmUp
<1>4. Ranging(c, low, high) /\ low <= high /\ low \in Int /\ high \in Int
  BY SoundRanging DEF Ranging
<1>5. IsList(closes) /\ Len(closes) = n /\ \A i \in 1..n : closes[i] \in X
  BY <1>4, ClosesWithin
<1>6. Whole(low) \in Lowest /\ Whole(high) \in Lowest
  BY <1>4, WholeLowest
<1>7. \A i \in 1..Len(closes) : closes[i] \in Between(Whole(low), Whole(high))
  BY <1>5
<1> HIDE DEF closes
<1>8. KnownBehind(rsi(closes, Settings.rsi), n, Settings.rsi, Percents)
  <2>1. KnownBehind(rsi(closes, Settings.rsi), Len(closes), Settings.rsi, Percents)
    BY <1>1, <1>4, <1>5, <1>7, RsiWithin
  <2> QED
    BY <1>5, <2>1
<1>9. KnownBehind(ema(closes, Settings.ema), n, Settings.ema - 1, X)
  <2>1. KnownBehind(ema(closes, Settings.ema), Len(closes), Settings.ema - 1, Between(Whole(low), Whole(high)))
    BY <1>1, <1>5, <1>6, <1>7, EmaWithin
  <2> QED
    BY <1>5, <2>1
<1>10. KnownBehind(m.line, n, Slower - 1, Lowest) /\ KnownBehind(m.signal, n, Slower + Settings.signal - 2, Lowest)
  <2>1. \A i \in 1..Len(closes) : closes[i] \in Lowest
    BY <1>7 DEF Between
  <2>2. Slower = IF Settings.fast > Settings.slow THEN Settings.fast ELSE Settings.slow
    BY DEF Slower
  <2>3. /\ KnownBehind(macd(closes, Settings.fast, Settings.slow, Settings.signal).line, Len(closes), Slower - 1, Lowest)
        /\ KnownBehind(macd(closes, Settings.fast, Settings.slow, Settings.signal).signal, Len(closes),
                       Slower + Settings.signal - 2, Lowest)
    BY <1>1, <1>5, <2>1, <2>2, MacdKnown
  <2> QED
    BY <1>5, <2>3
<1>11. KnownBehind(b.middle, n, Settings.bollinger - 1, X)
  <2>1. b.middle = sma(closes, Settings.bollinger)
    BY DEF bollinger
  <2>2. KnownBehind(sma(closes, Settings.bollinger), Len(closes), Settings.bollinger - 1,
                    Between(Whole(low), Whole(high)))
    BY <1>1, <1>5, <1>6, <1>7, SmaWithin
  <2> QED
    BY <1>5, <2>1, <2>2
<1>12. KnownBehind(b.variance, n, Settings.bollinger - 1, Between(Zero, Whole((high - low) * (high - low))))
  <2>1. KnownBehind(bollinger(closes, Settings.bollinger).variance, Len(closes), Settings.bollinger - 1,
                    Between(Zero, Whole((high - low) * (high - low))))
    BY <1>1, <1>4, <1>5, <1>7, VarianceWithin
  <2> QED
    BY <1>5, <2>1
<1>13. KnownBehind(atr(c, Settings.atr), n, Settings.atr, Between(Zero, Whole(high - low)))
  BY <1>1, <1>4, AtrWithin
<1>14. KnownBehind(adx(c, Settings.adx).adx, n, 2 * Settings.adx - 1, Percents)
  BY <1>1, <1>4, AdxWithin
<1> HIDE DEF m, b
<1> QED
  BY <1>2, <1>3, <1>8, <1>9, <1>10, <1>11, <1>12, <1>13, <1>14

(* The latest values of the two directional indexes. *)
LEMMA LatestIndexes ==
  ASSUME NEW c \in Seq(SoundCandle), c # <<>>
  PROVE  LET a == last_value(Lines(c).plus)
             b == last_value(Lines(c).minus)
         IN  \/ a = NoValue /\ b = NoValue
             \/ a \in Percents /\ b \in Percents /\ Plus(a, b) \in Percents
<1> DEFINE p == Settings.adx
           n == Len(c)
           s == Index(c, p, PlusMove(c))
           t == Index(c, p, MinusMove(c))
           w == IF Enough(c, p) THEN p ELSE n
<1>1. p \in Nat \ {0} /\ p \in Nat
  BY MarketAssumption
<1>2. Ranging(c, LowestOf(c), HighestOf(c)) /\ n \in Nat \ {0}
  BY SoundRanging
<1>3. DOMAIN c = 1..n /\ w \in Nat
  BY <1>1, <1>2 DEF Ranging, IsList
<1>4. Lines(c).plus = s /\ Lines(c).minus = t
  BY AdxByParts DEF Lines
<1>5. ASSUME NEW i \in 1..n
      PROVE  IF i <= w THEN s[i] = NoValue /\ t[i] = NoValue
             ELSE s[i] \in Percents /\ t[i] \in Percents /\ Plus(s[i], t[i]) \in Percents
  <2>1. IF ~Enough(c, p) \/ i <= p THEN s[i] = NoValue /\ t[i] = NoValue
        ELSE s[i] \in Percents /\ t[i] \in Percents /\ Plus(s[i], t[i]) \in Percents
    BY <1>1, <1>2, IndexKnown
  <2>2. (~Enough(c, p) \/ i <= p) <=> i <= w
    BY <1>2
  <2> QED
    BY <2>1, <2>2
<1>6. s = [i \in 1..n |-> s[i]] /\ t = [i \in 1..n |-> t[i]]
  BY <1>3 DEF Index
<1> HIDE DEF s, t, w, n, p
<1>7. KnownBehind(s, n, w, Percents)
  BY <1>5, <1>6 DEF KnownBehind
<1>8. KnownBehind(t, n, w, Percents)
  BY <1>5, <1>6 DEF KnownBehind
<1>9. NoValue \notin Percents
  BY NoValueIsNone DEF Percents, Between
<1>10. last_value(s) = s[n] /\ last_value(t) = t[n]
  BY <1>2, <1>3, <1>7, <1>8, <1>9, LastKnown
<1>11. n \in 1..n
  BY <1>2
<1> QED
  BY <1>4, <1>5, <1>10, <1>11

(* CandlesSound is all that IndicatorsInRange takes. *)
LEMMA RangeFromSound ==
  ASSUME CandlesSound
  PROVE  IndicatorsInRange
<1> SUFFICES ASSUME shown.ok
             PROVE  \A s \in {Snapshot(shown.candles)} :
                      LET v == s.latest
                          high == HighestOf(shown.candles)
                          low == LowestOf(shown.candles)
                      IN  /\ \A l \in DOMAIN WarmUp : v[l] # NoValue <=> s.count > WarmUp[l]
                          /\ \A l \in {"rsi", "adx", "plus", "minus"} : In(v[l], 0, 100)
                          /\ v.plus # NoValue => In(Plus(v.plus, v.minus), 0, 100)
                          /\ \A l \in {"ema", "middle"} : In(v[l], low, high)
                          /\ In(v.atr, 0, high - low)
                          /\ In(v.variance, 0, (high - low) * (high - low))
                          /\ \A r \in FibRatios : In(s.fib[r], low, high)
  BY DEF IndicatorsInRange
<1> DEFINE c == shown.candles
           high == HighestOf(c)
           low == LowestOf(c)
           n == Len(c)
           f == Lines(c)
           X == Between(Whole(low), Whole(high))
           V == Between(Zero, Whole((high - low) * (high - low)))
           R == Between(Zero, Whole(high - low))
           v == [l \in LineNames |-> last_value(f[l])]
           fib == fib_levels(high, low)
<1>1. c \in Seq(SoundCandle) /\ c # <<>>
  BY DEF CandlesSound
<1>2. Snapshot(c).latest = v /\ Snapshot(c).count = n /\ Snapshot(c).fib = fib
  BY DEF Snapshot
<1> HIDE DEF c
<1>3. n \in Nat \ {0} /\ low \in Int /\ high \in Int /\ low <= high
  BY <1>1, SoundRanging DEF Ranging
<1>4. /\ KnownBehind(f.rsi, n, WarmUp.rsi, Percents)
      /\ KnownBehind(f.ema, n, WarmUp.ema, X)
      /\ KnownBehind(f.macd, n, WarmUp.macd, Lowest)
      /\ KnownBehind(f.signal, n, WarmUp.signal, Lowest)
      /\ KnownBehind(f.middle, n, Settings.bollinger - 1, X)
      /\ KnownBehind(f.variance, n, Settings.bollinger - 1, V)
      /\ KnownBehind(f.atr, n, WarmUp.atr, R)
      /\ KnownBehind(f.adx, n, WarmUp.adx, Percents)
  BY <1>1, LinesInRange
<1>5. /\ WarmUp.rsi \in Nat /\ WarmUp.ema \in Nat /\ WarmUp.macd \in Nat /\ WarmUp.signal \in Nat
      /\ WarmUp.atr \in Nat /\ WarmUp.adx \in Nat /\ Settings.bollinger - 1 \in Nat
  <2>1. /\ Settings.rsi \in Nat \ {0} /\ Settings.fast \in Nat \ {0} /\ Settings.slow \in Nat \ {0}
        /\ Settings.signal \in Nat \ {0} /\ Settings.ema \in Nat \ {0}
        /\ Settings.bollinger \in Nat \ {0} /\ Settings.adx \in Nat \ {0}
        /\ Settings.atr \in Nat \ {0}
    BY MarketAssumption
  <2> QED
    BY <2>1 DEF WarmUp, Slower
<1>6. /\ NoValue \notin Lowest /\ NoValue \notin Percents /\ NoValue \notin X
      /\ NoValue \notin V /\ NoValue \notin R
  BY NoValueIsNone DEF Percents, Between
<1>7. \A l \in LineNames : v[l] = last_value(f[l])
  OBVIOUS
<1>8. /\ v.rsi = last_value(f.rsi) /\ v.ema = last_value(f.ema) /\ v.macd = last_value(f.macd)
      /\ v.signal = last_value(f.signal) /\ v.middle = last_value(f.middle)
      /\ v.variance = last_value(f.variance) /\ v.atr = last_value(f.atr) /\ v.adx = last_value(f.adx)
      /\ v.plus = last_value(f.plus) /\ v.minus = last_value(f.minus)
  BY <1>7 DEF LineNames
<1>9. \/ v.plus = NoValue /\ v.minus = NoValue
      \/ v.plus \in Percents /\ v.minus \in Percents /\ Plus(v.plus, v.minus) \in Percents
  BY <1>1, <1>8, LatestIndexes
<1> HIDE DEF f, v, n, low, high, X, V, R, fib
<1>10. (v.rsi # NoValue <=> n > WarmUp.rsi) /\ (v.rsi = NoValue \/ v.rsi \in Percents)
  BY <1>3, <1>4, <1>5, <1>6, <1>8, LastKnown
<1>11. (v.ema # NoValue <=> n > WarmUp.ema) /\ (v.ema = NoValue \/ v.ema \in X)
  BY <1>3, <1>4, <1>5, <1>6, <1>8, LastKnown
<1>12. v.macd # NoValue <=> n > WarmUp.macd
  BY <1>3, <1>4, <1>5, <1>6, <1>8, LastKnown
<1>13. v.signal # NoValue <=> n > WarmUp.signal
  BY <1>3, <1>4, <1>5, <1>6, <1>8, LastKnown
<1>14. v.middle = NoValue \/ v.middle \in X
  BY <1>3, <1>4, <1>5, <1>6, <1>8, LastKnown
<1>15. v.variance = NoValue \/ v.variance \in V
  BY <1>3, <1>4, <1>5, <1>6, <1>8, LastKnown
<1>16. (v.atr # NoValue <=> n > WarmUp.atr) /\ (v.atr = NoValue \/ v.atr \in R)
  BY <1>3, <1>4, <1>5, <1>6, <1>8, LastKnown
<1>17. (v.adx # NoValue <=> n > WarmUp.adx) /\ (v.adx = NoValue \/ v.adx \in Percents)
  BY <1>3, <1>4, <1>5, <1>6, <1>8, LastKnown
<1>18. \A l \in DOMAIN WarmUp : v[l] # NoValue <=> n > WarmUp[l]
  <2>1. DOMAIN WarmUp = {"rsi", "ema", "macd", "signal", "atr", "adx"}
    BY DEF WarmUp
  <2> QED
    BY <1>10, <1>11, <1>12, <1>13, <1>16, <1>17, <2>1
<1>19. \A l \in {"rsi", "adx", "plus", "minus"} : In(v[l], 0, 100)
  <2>1. \A u : (u = NoValue \/ u \in Percents) => In(u, 0, 100)
    BY DEF In, Percents, Between, Zero
  <2> QED
    BY <1>9, <1>10, <1>17, <2>1
<1>20. v.plus # NoValue => In(Plus(v.plus, v.minus), 0, 100)
  BY <1>9 DEF In, Percents, Between, Zero
<1>21. \A l \in {"ema", "middle"} : In(v[l], low, high)
  BY <1>11, <1>14 DEF In, Between, X
<1>22. In(v.atr, 0, high - low)
  BY <1>16 DEF In, Between, R, Zero
<1>23. In(v.variance, 0, (high - low) * (high - low))
  BY <1>15 DEF In, Between, V, Zero
<1>24. \A r \in FibRatios : In(fib[r], low, high)
  <2> TAKE r \in FibRatios
  <2>1. fib[r] \in Between(Whole(low), Whole(high))
    BY <1>3, FibWithin DEF fib
  <2> QED
    BY <2>1 DEF In, Between
<1> QED
  BY <1>2, <1>18, <1>19, <1>20, <1>21, <1>22, <1>23, <1>24 DEF c, high, low

(* An indicator has a value from its documented position on and not before, the
   oscillators keep to 0..100, the averages and retracements to the range the
   candles have traded in, and the true range and the variance to what it allows,
   for every market, every limit and all periods (indicators.py). *)
THEOREM IndicatorsKeepRange == Spec => []IndicatorsInRange
<1>1. CandlesSound => IndicatorsInRange
  BY RangeFromSound
<1> QED
  BY <1>1, CandlesSoundHolds, PTL


----------------------------------------------------------------------------
(* Sequences: their first elements, and the reverse. *)

(* The first k elements of a list. *)
LEMMA FirstOnes ==
  ASSUME NEW S, NEW s \in Seq(S), NEW k \in Nat, k <= Len(s)
  PROVE  /\ SubSeq(s, 1, k) \in Seq(S) /\ Len(SubSeq(s, 1, k)) = k
         /\ \A i \in 1..k : SubSeq(s, 1, k)[i] = s[i]
<1>1. 1 \in Int /\ k \in Int /\ \A i \in 1..k : s[i] \in S
  OBVIOUS
<1>2. SubSeq(s, 1, k) = [i \in 1..((k - 1) + 1) |-> s[(i + 1) - 1]]
  OBVIOUS
<1>3. SubSeq(s, 1, k) = [i \in 1..k |-> s[i]]
  BY <1>2
<1> QED
  BY <1>1, <1>3

(* A list in reverse. *)
LEMMA TurnedRound ==
  ASSUME NEW S, NEW s \in Seq(S)
  PROVE  /\ Reverse(s) \in Seq(S) /\ Len(Reverse(s)) = Len(s)
         /\ \A i \in 1..Len(s) : Reverse(s)[i] = s[(Len(s) - i) + 1]
<1>1. Reverse(s) = [i \in 1..Len(s) |-> s[(Len(s) - i) + 1]]
  BY DEF Reverse
<1>2. \A i \in 1..Len(s) : (Len(s) - i) + 1 \in 1..Len(s) /\ s[(Len(s) - i) + 1] \in S
  OBVIOUS
<1> QED
  BY <1>1, <1>2


----------------------------------------------------------------------------
(* Support and resistance: prices become levels. *)

(* What is not above the lower is not above the higher. *)
LEMMA LeqChains ==
  ASSUME NEW a \in Lowest, NEW b \in Lowest, NEW c \in Lowest
  PROVE  /\ Leq(a, a)
         /\ Leq(a, b) /\ Leq(b, c) => Leq(a, c)
         /\ Leq(a, b) /\ Less(b, c) => Less(a, c)
         /\ ~Less(a, b) <=> Leq(b, a)
<1>1. PICK d \in Nat \ {0}, n \in Int, m \in Int, l \in Int : Is(a, n, d) /\ Is(b, m, d) /\ Is(c, l, d)
  BY IsThree
<1>2. Leq(a, a) <=> n <= n
  BY <1>1, ComparedIs
<1>3. (Leq(a, b) <=> n <= m) /\ (Less(a, b) <=> n < m)
  BY <1>1, ComparedIs
<1>4. (Leq(b, c) <=> m <= l) /\ (Less(b, c) <=> m < l)
  BY <1>1, ComparedIs
<1>5. (Leq(a, c) <=> n <= l) /\ (Less(a, c) <=> n < l)
  BY <1>1, ComparedIs
<1>6. Leq(b, a) <=> m <= n
  BY <1>1, ComparedIs
<1> QED
  BY <1>2, <1>3, <1>4, <1>5, <1>6

(* Within pct of a reference, in numbers. *)
LEMMA WithinIs ==
  ASSUME NEW a, NEW b, NEW n, NEW m, NEW d, Is(a, n, d), Is(b, m, d), m > 0, NEW pct \in Int
  PROVE  WithinPct(a, b, pct) <=> 100 * Magnitude(n - m) <= pct * m
<1>1. n \in Int /\ m \in Int /\ d \in Nat \ {0} /\ 1 * d = d /\ 100 \in Int
  BY DEF Is
<1>2. b # Zero
  BY ZeroIs
<1>3. Is(Whole(100), 100, 1) /\ Is(Whole(pct), pct, 1)
  BY <1>1, WholeOverOne
<1>4. Is(Minus(a, b), n - m, d)
  BY PlusIs
<1>5. Is(Size(Minus(a, b)), Magnitude(n - m), d)
  BY <1>4, SizeIs
<1>6. Is(Size(b), m, d)
  <2>1. Is(Size(b), Magnitude(m), d)
    BY SizeIs
  <2>2. Magnitude(m) = m
    BY <1>1 DEF Magnitude
  <2> QED
    BY <2>1, <2>2
<1>7. Is(Times(Whole(100), Size(Minus(a, b))), 100 * Magnitude(n - m), d)
  <2>1. Is(Times(Whole(100), Size(Minus(a, b))), 100 * Magnitude(n - m), 1 * d)
    BY <1>3, <1>5, TimesIs
  <2> QED
    BY <1>1, <2>1
<1>8. Is(Times(Whole(pct), Size(b)), pct * m, d)
  <2>1. Is(Times(Whole(pct), Size(b)), pct * m, 1 * d)
    BY <1>3, <1>6, TimesIs
  <2> QED
    BY <1>1, <2>1
<1>9. Leq(Times(Whole(100), Size(Minus(a, b))), Times(Whole(pct), Size(b)))
        <=> 100 * Magnitude(n - m) <= pct * m
  BY <1>7, <1>8, ComparedIs
<1> QED
  BY <1>2, <1>9 DEF WithinPct

(* Fractions from a positive one on are positive. *)
LEMMA PositiveIs ==
  ASSUME NEW low \in Nat \ {0}, NEW hi, NEW a \in Between(Whole(low), hi), NEW n, NEW d, Is(a, n, d)
  PROVE  n > 0
<1>1. n \in Int /\ d \in Nat \ {0}
  BY DEF Is
<1>2. Is(Whole(low), low * d, d)
  BY <1>1, WholeIs
<1>3. Leq(Whole(low), a) <=> low * d <= n
  BY <1>2, ComparedIs
<1>4. low * d > 0 /\ low * d \in Int
  <2>1. \A i, j \in Nat \ {0} : i * j \in Nat \ {0}
    OBVIOUS
  <2>2. low * d \in Nat \ {0}
    BY <1>1, <2>1
  <2> QED
    BY <2>2
<1> QED
  BY <1>1, <1>3, <1>4 DEF Between

(* The level between a level and a price lies between them. *)
LEMMA MergedBetween ==
  ASSUME NEW b \in Lowest, NEW q \in Lowest, Leq(b, q)
  PROVE  Merged(b, q) \in Lowest /\ Leq(b, Merged(b, q)) /\ Leq(Merged(b, q), q)
<1>1. PICK d \in Nat \ {0}, n \in Int, m \in Int : Is(b, n, d) /\ Is(q, m, d)
  BY IsTwo
<1>2. n <= m
  BY <1>1, ComparedIs
<1>3. Is(Merged(b, q), n + m, d * 2)
  <2>1. Is(Plus(b, q), n + m, d)
    BY <1>1, PlusIs
  <2>2. 2 \in Nat \ {0}
    OBVIOUS
  <2> QED
    BY <2>1, <2>2, OverWholeIs DEF Merged
<1>4. Is(b, n * 2, d * 2) /\ Is(q, m * 2, d * 2)
  <2>1. 2 \in Nat \ {0}
    OBVIOUS
  <2> QED
    BY <1>1, <2>1, IsScaled
<1>5. n * 2 <= n + m /\ n + m <= m * 2
  BY <1>2
<1>6. Leq(b, Merged(b, q)) <=> n * 2 <= n + m
  BY <1>3, <1>4, ComparedIs
<1>7. Leq(Merged(b, q), q) <=> n + m <= m * 2
  BY <1>3, <1>4, ComparedIs
<1>8. Merged(b, q) \in Lowest
  BY <1>3, IsLowest
<1> QED
  BY <1>5, <1>6, <1>7, <1>8

(* What is further up is further off. *)
LEMMA FurtherUp ==
  ASSUME NEW low \in Nat \ {0}, NEW hi, NEW a \in Between(Whole(low), hi),
         NEW b \in Lowest, NEW c \in Lowest, Leq(a, b), Leq(b, c), NEW pct \in Int,
         ~WithinPct(b, a, pct)
  PROVE  ~WithinPct(c, a, pct)
<1>1. a \in Lowest
  BY DEF Between
<1>2. PICK d \in Nat \ {0}, n \in Int, m \in Int, l \in Int : Is(a, n, d) /\ Is(b, m, d) /\ Is(c, l, d)
  BY <1>1, IsThree
<1>3. n > 0
  BY <1>2, PositiveIs
<1>4. n <= m /\ m <= l
  <2>1. Leq(a, b) <=> n <= m
    BY <1>2, ComparedIs
  <2>2. Leq(b, c) <=> m <= l
    BY <1>2, ComparedIs
  <2> QED
    BY <2>1, <2>2
<1>5. WithinPct(b, a, pct) <=> 100 * Magnitude(m - n) <= pct * n
  BY <1>2, <1>3, WithinIs
<1>6. WithinPct(c, a, pct) <=> 100 * Magnitude(l - n) <= pct * n
  BY <1>2, <1>3, WithinIs
<1>7. Magnitude(m - n) = m - n /\ Magnitude(l - n) = l - n
  BY <1>4 DEF Magnitude
<1>8. pct * n \in Int
  BY <1>2
<1> DEFINE k == pct * n
<1> HIDE DEF k
<1>9. ~(100 * (m - n) <= k) /\ k \in Int
  BY <1>5, <1>7, <1>8 DEF k
<1>10. ~(100 * (l - n) <= k)
  BY <1>4, <1>9
<1> QED
  BY <1>6, <1>7, <1>10 DEF k

(* What is not within a percentage, 0 or more, of a positive price is not that price. *)
LEMMA ApartIsLess ==
  ASSUME NEW low \in Nat \ {0}, NEW hi, NEW a \in Between(Whole(low), hi),
         NEW b \in Lowest, Leq(a, b), NEW pct \in Nat, ~WithinPct(b, a, pct)
  PROVE  Less(a, b)
<1>1. a \in Lowest
  BY DEF Between
<1>2. PICK d \in Nat \ {0}, n \in Int, m \in Int : Is(a, n, d) /\ Is(b, m, d)
  BY <1>1, IsTwo
<1>3. n > 0
  BY <1>2, PositiveIs
<1>4. n <= m
  BY <1>2, ComparedIs
<1>5. WithinPct(b, a, pct) <=> 100 * Magnitude(m - n) <= pct * n
  BY <1>2, <1>3, WithinIs
<1>6. pct * n >= 0
  <2>1. \A i, j \in Nat : i * j >= 0
    OBVIOUS
  <2> QED
    BY <1>3, <2>1
<1>7. n # m
  BY <1>5, <1>6 DEF Magnitude
<1>8. n < m
  BY <1>4, <1>7
<1> QED
  BY <1>2, <1>8, ComparedIs

(* Levels in ascending order, none within pct of the next, and none above a price. *)
Risen(levels, pct) ==
    \A i \in 1..(Len(levels) - 1) :
        Leq(levels[i], levels[i + 1]) /\ ~WithinPct(levels[i + 1], levels[i], pct)

UpTo(levels, price, pct, X) ==
    /\ levels \in Seq(X) /\ levels # <<>>
    /\ Risen(levels, pct) /\ Leq(levels[Len(levels)], price)

(* A price that is not less joins the last level, or becomes the next. *)
LEMMA LevelStepKeeps ==
  ASSUME NEW low \in Nat \ {0}, NEW hi \in Lowest, NEW X, X = Between(Whole(low), hi), NEW pct \in Int,
         NEW q \in X, NEW levels \in Seq(X),
         levels # <<>> => Risen(levels, pct) /\ Leq(levels[Len(levels)], q)
  PROVE  UpTo(LevelStep(q, pct)[levels], q, pct, X)
<1> DEFINE n == Len(levels)
           new == LevelStep(q, pct)[levels]
<1>1. X \subseteq Lowest /\ X \subseteq Fractions
  BY DEF Between, Lowest
<1>2. levels \in Seq(Fractions)
  BY <1>1
<1>3. q \in Lowest /\ Leq(q, q)
  BY <1>1, LeqChains
<1>4. n \in Nat /\ (levels # <<>> <=> n # 0) /\ \A i \in 1..n : levels[i] \in X
  OBVIOUS
<1>5. CASE levels # <<>> /\ WithinPct(q, Last(levels), pct)
  <2> DEFINE b == levels[n]
             m == Merged(b, q)
             front == SubSeq(levels, 1, n - 1)
  <2>1. n \in Nat \ {0} /\ b \in X /\ b \in Lowest /\ Leq(b, q)
    BY <1>1, <1>4, <1>5
  <2>2. new = front \o <<m>>
    BY <1>2, <1>5 DEF LevelStep, Last, Front
  <2> HIDE DEF new
  <2>3. m \in Lowest /\ Leq(b, m) /\ Leq(m, q)
    BY <1>3, <2>1, MergedBetween
  <2> HIDE DEF m
  <2>4. m \in X
    <3>1. Whole(low) \in Lowest /\ Leq(Whole(low), b) /\ Leq(q, hi)
      BY <2>1, WholeLowest DEF Between
    <3>2. Leq(Whole(low), m)
      BY <2>1, <2>3, <3>1, LeqChains
    <3>3. Leq(m, hi)
      BY <1>3, <2>3, <3>1, LeqChains
    <3> QED
      BY <2>3, <3>2, <3>3 DEF Between
  <2>5. /\ front \in Seq(X) /\ Len(front) = n - 1
        /\ \A i \in 1..(n - 1) : front[i] = levels[i]
    <3>1. n - 1 \in Nat /\ n - 1 <= Len(levels)
      BY <2>1
    <3> QED
      BY <3>1, FirstOnes
  <2> HIDE DEF front
  <2>6. /\ new \in Seq(X) /\ Len(new) = n /\ new[n] = m
        /\ \A i \in 1..(n - 1) : new[i] = levels[i]
    <3>1. <<m>> \in Seq(X) /\ Len(<<m>>) = 1 /\ <<m>>[1] = m
      BY <2>4
    <3>2. /\ new \in Seq(X) /\ Len(new) = Len(front) + Len(<<m>>)
          /\ \A i \in 1..(Len(front) + Len(<<m>>)) :
                new[i] = IF i <= Len(front) THEN front[i] ELSE <<m>>[i - Len(front)]
      BY <2>2, <2>5, <3>1, ConcatProperties
    <3> HIDE DEF n
    <3>3. \A i \in 1..n : new[i] = IF i <= n - 1 THEN front[i] ELSE <<m>>[i - (n - 1)]
      BY <2>1, <2>5, <3>1, <3>2
    <3>4. new[n] = m
      <4>1. n \in 1..n /\ ~(n <= n - 1) /\ n - (n - 1) = 1
        BY <2>1
      <4> QED
        BY <3>1, <3>3, <4>1
    <3>5. \A i \in 1..(n - 1) : new[i] = levels[i]
      BY <2>1, <2>5, <3>3
    <3> QED
      BY <2>1, <2>5, <3>1, <3>2, <3>4, <3>5
  <2>7. ASSUME NEW i \in 1..(n - 1)
        PROVE  Leq(new[i], new[i + 1]) /\ ~WithinPct(new[i + 1], new[i], pct)
    <3>1. /\ i \in 1..n /\ i + 1 \in 1..n /\ levels[i] \in X /\ levels[i + 1] \in X
          /\ Leq(levels[i], levels[i + 1]) /\ ~WithinPct(levels[i + 1], levels[i], pct)
      BY <1>4, <1>5, <2>1 DEF Risen
    <3>2. CASE i + 1 <= n - 1
      <4>1. new[i] = levels[i] /\ new[i + 1] = levels[i + 1]
        BY <2>1, <2>6, <3>2
      <4> QED
        BY <3>1, <4>1
    <3>3. CASE ~(i + 1 <= n - 1)
      <4>1. i + 1 = n
        BY <2>1, <3>3
      <4>2. new[i] = levels[i] /\ new[i + 1] = m /\ levels[i + 1] = b
        BY <2>6, <4>1
      <4>3. levels[i] \in Lowest /\ levels[i] \in Between(Whole(low), hi)
        BY <1>1, <3>1
      <4>4. Leq(levels[i], m)
        BY <2>1, <2>3, <3>1, <4>2, <4>3, LeqChains
      <4>5. ~WithinPct(m, levels[i], pct)
        BY <2>1, <2>3, <3>1, <4>2, <4>3, FurtherUp
      <4> QED
        BY <4>2, <4>4, <4>5
    <3> QED
      BY <3>2, <3>3
  <2>8. new # <<>>
    BY <2>1, <2>6
  <2>9. UpTo(new, q, pct, X)
    BY <2>3, <2>6, <2>7, <2>8 DEF UpTo, Risen
  <2> QED
    BY <2>9 DEF new
<1>6. CASE ~(levels # <<>> /\ WithinPct(q, Last(levels), pct))
  <2>1. new = Append(levels, q)
    BY <1>2, <1>6 DEF LevelStep
  <2> HIDE DEF new
  <2>2. /\ new \in Seq(X) /\ new # <<>> /\ Len(new) = n + 1 /\ new[n + 1] = q
        /\ \A i \in 1..n : new[i] = levels[i]
    BY <2>1, AppendProperties
  <2>3. ASSUME NEW i \in 1..n
        PROVE  Leq(new[i], new[i + 1]) /\ ~WithinPct(new[i + 1], new[i], pct)
    <3>1. levels # <<>>
      BY <1>4
    <3>2. CASE i <= n - 1
      <4>1. i \in 1..(n - 1) /\ i \in 1..n /\ i + 1 \in 1..n
        BY <1>4, <3>2
      <4>2. Leq(levels[i], levels[i + 1]) /\ ~WithinPct(levels[i + 1], levels[i], pct)
        BY <3>1, <4>1 DEF Risen
      <4> QED
        BY <2>2, <4>1, <4>2
    <3>3. CASE ~(i <= n - 1)
      <4>1. i = n
        BY <1>4, <3>3
      <4>2. new[i] = levels[n] /\ new[i + 1] = q
        BY <2>2, <4>1
      <4> QED
        BY <1>6, <3>1, <4>2 DEF Last
    <3> QED
      BY <3>2, <3>3
  <2>4. Len(new) - 1 = n
    BY <1>4, <2>2
  <2>5. UpTo(new, q, pct, X)
    BY <1>3, <2>2, <2>3, <2>4 DEF UpTo, Risen
  <2> QED
    BY <2>5 DEF new
<1> QED
  BY <1>5, <1>6

(* The levels of ascending prices. *)
LEMMA GroupedLevels ==
  ASSUME NEW low \in Nat \ {0}, NEW high \in Nat, NEW pct \in Int,
         NEW prices, IsList(prices),
         \A i \in 1..Len(prices) : prices[i] \in Int /\ low <= prices[i] /\ prices[i] <= high,
         \A i \in 1..(Len(prices) - 1) : prices[i] <= prices[i + 1],
         NEW X, X = Between(Whole(low), Whole(high))
  PROVE  Grouped(prices, pct) \in Seq(X) /\ Risen(Grouped(prices, pct), pct)
<1> DEFINE n == Len(prices)
           step == [i \in DOMAIN prices |-> LevelStep(Whole(prices[i]), pct)]
           r == RunOf(<<>>, 0, step)
           Good == {k \in Nat : k <= n =>
                      IF k = 0 THEN r[k] = <<>> ELSE UpTo(r[k], Whole(prices[k]), pct, X)}
<1>1. Grouped(prices, pct) = r[n]
  BY DEF Grouped, Loop, RunOf, Runs
<1>2. n \in Nat /\ DOMAIN prices = 1..n
  BY DEF IsList
<1>3. \A i \in 1..n : step[i] = LevelStep(Whole(prices[i]), pct)
  BY <1>2
<1>4. \A i \in Nat : r[i] = IF i <= 0 THEN <<>> ELSE step[i][r[i - 1]]
  <2>1. Runs(r, <<>>, 0, step)
    BY RunExists
  <2> HIDE DEF r, step
  <2> QED
    BY <2>1, RunsAt
<1> HIDE DEF r, step
<1>5. \A i \in 1..n : Whole(prices[i]) \in X
  <2> TAKE i \in 1..n
  <2>1. prices[i] \in Int /\ low \in Int /\ high \in Int /\ low <= prices[i] /\ prices[i] <= high
    OBVIOUS
  <2> QED
    BY <2>1, WholeWithin
<1>6. Whole(high) \in Lowest
  BY WholeLowest
<1>7. 0 \in Good
  BY <1>4
<1>8. ASSUME NEW k \in Nat, k \in Good PROVE k + 1 \in Good
  <2>1. SUFFICES ASSUME k + 1 <= n PROVE UpTo(r[k + 1], Whole(prices[k + 1]), pct, X)
    OBVIOUS
  <2>2. k + 1 \in 1..n /\ k + 1 \in Nat /\ (k + 1) - 1 = k /\ ~(k + 1 <= 0) /\ k <= n
    BY <1>2, <2>1
  <2> DEFINE q == Whole(prices[k + 1])
  <2>3. q \in X
    BY <1>5, <2>2
  <2>4. r[k] \in Seq(X) /\ (r[k] # <<>> => Risen(r[k], pct) /\ Leq(r[k][Len(r[k])], q))
    <3>1. CASE k = 0
      <4>1. r[k] = <<>>
        BY <1>4, <3>1
      <4> QED
        BY <4>1
    <3>2. CASE k # 0
      <4>1. UpTo(r[k], Whole(prices[k]), pct, X)
        BY <1>8, <2>2, <3>2
      <4>2. k \in 1..n /\ k \in 1..(n - 1)
        BY <1>2, <2>2, <3>2
      <4>3. prices[k] <= prices[k + 1] /\ prices[k] \in Int /\ prices[k + 1] \in Int
        BY <2>2, <4>2
      <4>4. Leq(Whole(prices[k]), q)
        BY <4>3 DEF Leq, Whole
      <4>5. /\ r[k] \in Seq(X) /\ r[k] # <<>> /\ Risen(r[k], pct)
            /\ Leq(r[k][Len(r[k])], Whole(prices[k]))
        BY <4>1 DEF UpTo
      <4>6. r[k][Len(r[k])] \in X
        BY <4>5
      <4>7. X \subseteq Lowest /\ Whole(prices[k]) \in X
        BY <1>5, <4>2 DEF Between
      <4> HIDE DEF q
      <4>8. Leq(r[k][Len(r[k])], q)
        BY <2>3, <4>4, <4>5, <4>6, <4>7, LeqChains
      <4> QED
        BY <4>5, <4>8
    <3> QED
      BY <3>1, <3>2
  <2>5. r[k + 1] = LevelStep(q, pct)[r[k]]
    BY <1>3, <1>4, <2>2
  <2> HIDE DEF q, Good
  <2>6. UpTo(LevelStep(q, pct)[r[k]], q, pct, X)
    BY <1>6, <2>3, <2>4, LevelStepKeeps
  <2> QED
    BY <2>5, <2>6 DEF q
<1> HIDE DEF Good
<1>9. n \in Good
  BY <1>2, <1>7, <1>8, NatSetInduction
<1>10. IF n = 0 THEN r[n] = <<>> ELSE UpTo(r[n], Whole(prices[n]), pct, X)
  BY <1>2, <1>9 DEF Good
<1> HIDE DEF n
<1>11. CASE n = 0
  <2>1. r[n] = <<>>
    BY <1>10, <1>11
  <2> QED
    BY <1>1, <2>1 DEF Risen
<1>12. CASE n # 0
  BY <1>1, <1>10, <1>12 DEF UpTo
<1> QED
  BY <1>11, <1>12


(* A number in 1..n added to a multiple of n + 1 is what is left over. *)
LEMMA KeyHolds ==
  ASSUME NEW v \in Nat, NEW m \in Nat \ {0}, NEW i \in Nat, i < m
  PROVE  (v * m + i) \div m = v
<1> DEFINE w == v * m
<1>1. w \in Nat
  OBVIOUS
<1>2. w = v * m
  OBVIOUS
<1> HIDE DEF w
<1> DEFINE a == w + i
<1>3. a \in Int
  BY <1>1
<1> HIDE DEF a
<1> DEFINE q == a \div m
<1>4. a = m * q + (a % m) /\ q \in Int /\ a % m \in 0..(m - 1)
  BY <1>3
<1> HIDE DEF q
<1>5. m * q = q * m
  BY <1>4
<1>6. ASSUME q <= v - 1 PROVE FALSE
  <2>1. q * m <= (v - 1) * m /\ q * m \in Int
    BY <1>4, <1>6, TimesKeepsOrder
  <2>2. (v - 1) * m = w - m
    BY <1>2
  <2> QED
    BY <1>1, <1>4, <1>5, <2>1, <2>2 DEF a
<1>7. ASSUME v + 1 <= q PROVE FALSE
  <2>1. (v + 1) * m <= q * m /\ q * m \in Int
    BY <1>4, <1>7, TimesKeepsOrder
  <2>2. (v + 1) * m = w + m
    BY <1>2
  <2> QED
    BY <1>1, <1>4, <1>5, <2>1, <2>2 DEF a
<1>8. q = v
  BY <1>4, <1>6, <1>7
<1> QED
  BY <1>8 DEF q, a, w

(* The quotient of a smaller number is not greater. *)
LEMMA QuotientsInOrder ==
  ASSUME NEW a \in Int, NEW b \in Int, a <= b, NEW m \in Nat \ {0}
  PROVE  a \div m <= b \div m
<1> DEFINE p == a \div m
           q == b \div m
<1>1. /\ a = m * p + (a % m) /\ p \in Int /\ a % m \in 0..(m - 1)
      /\ b = m * q + (b % m) /\ q \in Int /\ b % m \in 0..(m - 1)
  OBVIOUS
<1> HIDE DEF p, q
<1>2. ASSUME q + 1 <= p PROVE FALSE
  <2>1. m * (q + 1) <= m * p
    BY <1>1, <1>2, TimesKeepsOrder
  <2>2. m * (q + 1) = m * q + m /\ m * q \in Int /\ m * p \in Int
    BY <1>1
  <2> QED
    BY <1>1, <2>1, <2>2
<1>3. p <= q
  BY <1>1, <1>2
<1> QED
  BY <1>3 DEF p, q

(* What is sorted is a list of the same elements, and in order. *)
LEMMA SortedLists ==
  ASSUME NEW Y \in SUBSET Nat, NEW s \in Seq(Y)
  PROVE  /\ Sorted(s) \in Seq(Y) /\ Len(Sorted(s)) = Len(s)
         /\ \A k \in 1..(Len(s) - 1) : Sorted(s)[k] <= Sorted(s)[k + 1]
<1> DEFINE n == Len(s)
           m == n + 1
           D == 1..n
           key == [i \in D |-> s[i] * m + i]
           K == {s[i] * m + i : i \in DOMAIN s}
           at == Ascending(K)
<1>1. n \in Nat /\ DOMAIN s = D /\ m \in Nat \ {0} /\ \A i \in D : s[i] \in Y /\ s[i] \in Nat
  <2>1. n \in Nat /\ DOMAIN s = D /\ m \in Nat \ {0} /\ \A i \in D : s[i] \in Y
    OBVIOUS
  <2> QED
    BY <2>1
<1>2. Sorted(s) = [k \in D |-> at[k] \div m]
  BY <1>1 DEF Sorted
<1>3. \A i \in D : i \in Nat /\ i < m
  BY <1>1
<1>4. K = {key[i] : i \in D}
  BY <1>1
<1> HIDE DEF K, n, m, D
<1>5. ASSUME NEW i \in D
      PROVE  key[i] \in Int /\ key[i] \div m = s[i] /\ key[i] = s[i] * m + i
  <2>1. s[i] \in Nat /\ i \in Nat /\ i < m
    BY <1>1, <1>3
  <2>2. s[i] * m \in Nat
    BY <1>1, <2>1
  <2>3. key[i] = s[i] * m + i
    OBVIOUS
  <2>4. (s[i] * m + i) \div m = s[i]
    BY <1>1, <2>1, KeyHolds
  <2> QED
    BY <2>1, <2>2, <2>3, <2>4
<1>6. DOMAIN key = D /\ key = [i \in D |-> key[i]]
  OBVIOUS
<1>7. ASSUME NEW i \in D, NEW j \in D, key[i] = key[j] PROVE i = j
  <2>1. s[i] = s[j]
    BY <1>5, <1>7
  <2>2. s[i] * m + i = s[i] * m + j
    BY <1>5, <1>7, <2>1
  <2>3. s[i] * m \in Nat /\ i \in Nat /\ j \in Nat
    BY <1>1, <1>3
  <2> QED
    BY <2>2, <2>3
<1> HIDE DEF key
<1>8. Cardinality(K) = n /\ IsFiniteSet(K)
  <2>1. key \in [D -> K]
    <3>1. \A i \in D : key[i] \in K
      BY <1>4
    <3> QED
      BY <1>6, <3>1
  <2>2. key \in Bijection(D, K)
    BY <1>4, <1>6, <1>7, <2>1 DEF Bijection, Injection, Surjection, IsInjective
  <2>3. IsFiniteSet(D) /\ Cardinality(D) = n
    <3>1. 1 \in Int /\ n \in Int /\ (1 > n <=> n = 0) /\ (n - 1) + 1 = n
      BY <1>1
    <3> QED
      BY <1>1, <3>1, FS_Interval DEF D
  <2> QED
    BY <2>2, <2>3, FS_Bijection DEF ExistsBijection
<1>9. K \in SUBSET Int
  BY <1>4, <1>5
<1>10. /\ at \in Seq(K) /\ Len(at) = n
       /\ \A i, j \in 1..n : i < j => at[i] < at[j]
  BY <1>8, <1>9, AscendingLists
<1> HIDE DEF at
<1>11. \A k \in D : at[k] \in K /\ at[k] \in Int
  <2>1. DOMAIN at = 1..n
    BY <1>10
  <2>2. \A k \in 1..n : at[k] \in K
    BY <1>10, <2>1
  <2> QED
    BY <1>9, <2>2 DEF D
<1>12. \A k \in D : at[k] \div m \in Y
  <2> TAKE k \in D
  <2>1. PICK i \in D : at[k] = key[i]
    BY <1>4, <1>11
  <2> QED
    BY <1>1, <1>5, <2>1
<1>13. Sorted(s) \in Seq(Y) /\ Len(Sorted(s)) = n
  <2> DEFINE r == [k \in D |-> at[k] \div m]
  <2>1. r \in [1..n -> Y]
    BY <1>12 DEF D
  <2> HIDE DEF r
  <2>2. r \in Seq(Y) /\ Len(r) = n
    BY <1>1, <2>1
  <2> QED
    BY <1>2, <2>2 DEF r
<1>14. ASSUME NEW k \in 1..(n - 1) PROVE Sorted(s)[k] <= Sorted(s)[k + 1]
  <2>1. k \in D /\ k + 1 \in D /\ k < k + 1
    BY <1>1 DEF D
  <2>2. at[k] < at[k + 1] /\ at[k] \in Int /\ at[k + 1] \in Int
    BY <1>10, <1>11, <2>1 DEF D
  <2>3. at[k] \div m <= at[k + 1] \div m
    BY <1>1, <2>2, QuotientsInOrder
  <2> QED
    BY <1>2, <2>1, <2>3
<1> QED
  BY <1>13, <1>14 DEF n

(* The pivots are prices the candles have traded at. *)
LEMMA PivotsWithin ==
  ASSUME NEW c \in Seq(SoundCandle), c # <<>>, NEW lookback
  PROVE  Pivots(c, lookback) \in Seq(LowestOf(c)..HighestOf(c))
<1> DEFINE Y == LowestOf(c)..HighestOf(c)
           e == Extremes(c)
<1>1. Len(c) \in Nat /\ Ranging(c, LowestOf(c), HighestOf(c))
  BY SoundRanging
<1>2. \A i \in 1..Len(c) : c[i].low \in Y /\ c[i].high \in Y
  <2> TAKE i \in 1..Len(c)
  <2>1. /\ c[i].low \in Int /\ c[i].close \in Int /\ c[i].high \in Int
        /\ LowestOf(c) \in Int /\ HighestOf(c) \in Int
        /\ LowestOf(c) <= c[i].low /\ c[i].low <= c[i].close
        /\ c[i].close <= c[i].high /\ c[i].high <= HighestOf(c)
    BY <1>1 DEF Ranging
  <2> QED
    BY <2>1
<1> HIDE DEF Y
<1>3. e \in Seq(Y) /\ DOMAIN e = 1..(2 * Len(c))
  <2>1. 2 * Len(c) \in Nat
    BY <1>1
  <2>2. ASSUME NEW j \in 1..(2 * Len(c)) PROVE CandleOf(j) \in 1..Len(c)
    BY <1>1, <2>2 DEF CandleOf
  <2>3. e \in [1..(2 * Len(c)) -> Y]
    BY <1>2, <2>2 DEF Extremes
  <2> HIDE DEF e
  <2> QED
    BY <2>1, <2>3
<1> DEFINE I == {j \in 1..(2 * Len(c)) :
               /\ CandleOf(j) \in (lookback + 1)..(Len(c) - lookback)
               /\ IF j % 2 = 1 THEN PivotHigh(c, CandleOf(j), lookback)
                  ELSE PivotLow(c, CandleOf(j), lookback)}
<1>4. I \in SUBSET DOMAIN e
  BY <1>3
<1>5. Pivots(c, lookback) = Picked(e, I)
  BY DEF Pivots
<1> HIDE DEF I, e
<1>6. Picked(e, I) \in Seq(Y)
  BY <1>3, <1>4, PickedLists
<1> QED
  BY <1>5, <1>6 DEF Y


(* A level is not above those after it. *)
LEMMA LevelsInOrder ==
  ASSUME NEW X \in SUBSET Lowest, NEW L \in Seq(X), NEW pct, Risen(L, pct)
  PROVE  \A i, j \in 1..Len(L) : i <= j => Leq(L[i], L[j])
<1> DEFINE n == Len(L)
           Good == {k \in Nat : \A i \in 1..n : i + k <= n => Leq(L[i], L[i + k])}
<1>1. n \in Nat /\ \A i \in 1..n : L[i] \in Lowest
  OBVIOUS
<1>2. \A i \in 1..(n - 1) : Leq(L[i], L[i + 1])
  BY DEF Risen
<1> HIDE DEF n
<1>3. 0 \in Good
  <2>1. \A i \in 1..n : i + 0 = i /\ Leq(L[i], L[i])
    BY <1>1, LeqChains
  <2> QED
    BY <2>1
<1>4. ASSUME NEW k \in Nat, k \in Good PROVE k + 1 \in Good
  <2>1. SUFFICES ASSUME NEW i \in 1..n, i + (k + 1) <= n PROVE Leq(L[i], L[i + (k + 1)])
    OBVIOUS
  <2>2. i + k <= n /\ i + k \in 1..n /\ i + k \in 1..(n - 1) /\ i + (k + 1) = (i + k) + 1
        /\ i + (k + 1) \in 1..n
    BY <1>1, <2>1
  <2>3. Leq(L[i], L[i + k])
    BY <1>4, <2>2
  <2>4. Leq(L[i + k], L[i + (k + 1)])
    BY <1>2, <2>2
  <2>5. L[i] \in Lowest /\ L[i + k] \in Lowest /\ L[i + (k + 1)] \in Lowest
    BY <1>1, <2>2
  <2> QED
    BY <2>3, <2>4, <2>5, LeqChains
<1> HIDE DEF Good
<1>5. Nat \subseteq Good
  BY <1>3, <1>4, NatSetInduction
<1>6. ASSUME NEW i \in 1..n, NEW j \in 1..n, i <= j PROVE Leq(L[i], L[j])
  <2>1. j - i \in Nat /\ i + (j - i) = j /\ i + (j - i) <= n
    BY <1>1, <1>6
  <2>2. j - i \in Good
    BY <1>5, <2>1
  <2> QED
    BY <2>1, <2>2 DEF Good
<1> QED
  BY <1>6 DEF n

(* So those below a price are the first ones. *)
LEMMA LowerOnesFirst ==
  ASSUME NEW X \in SUBSET Lowest, NEW L \in Seq(X), NEW pct, Risen(L, pct), NEW p \in Lowest
  PROVE  \E m \in 0..Len(L) : {i \in DOMAIN L : Less(L[i], p)} = 1..m
<1> DEFINE n == Len(L)
           A == {i \in DOMAIN L : Less(L[i], p)}
<1>1. n \in Nat /\ DOMAIN L = 1..n /\ \A i \in 1..n : L[i] \in Lowest
  OBVIOUS
<1>2. \A i, j \in 1..n : i <= j => Leq(L[i], L[j])
  BY LevelsInOrder
<1>3. A \in SUBSET (1..n) /\ \A i \in 1..n : i \in A <=> Less(L[i], p)
  BY <1>1
<1> HIDE DEF A, n
<1>4. CASE A = {}
  <2>1. 1..0 = {} /\ 0 \in 0..n
    BY <1>1
  <2> QED
    BY <1>4, <2>1 DEF A, n
<1>5. CASE A # {}
  <2>1. IsFiniteSet(A) /\ A \in SUBSET Int
    <3>1. 1 \in Int /\ n \in Int /\ A \in SUBSET Int
      BY <1>1, <1>3
    <3>2. IsFiniteSet(1..n)
      BY <3>1, FS_Interval
    <3>3. IsFiniteSet(A)
      BY <1>3, <3>2, FS_Subset
    <3> QED
      BY <3>1, <3>3
  <2>2. PICK m \in A : \A k \in A : k <= m
    BY <1>5, <2>1, GreatestNumber
  <2>3. m \in 1..n /\ m \in 0..n
    BY <1>1, <1>3, <2>2
  <2>4. ASSUME NEW i \in 1..m PROVE i \in A
    <3>1. i \in 1..n /\ i <= m
      BY <1>1, <2>3
    <3>2. Leq(L[i], L[m]) /\ Less(L[m], p) /\ L[i] \in Lowest /\ L[m] \in Lowest
      BY <1>1, <1>2, <1>3, <2>2, <2>3, <3>1
    <3>3. Less(L[i], p)
      BY <3>2, LeqChains
    <3> QED
      BY <1>3, <3>1, <3>3
  <2>5. ASSUME NEW i \in A PROVE i \in 1..m
    <3>1. i \in 1..n /\ i <= m
      BY <1>3, <2>2
    <3> QED
      BY <1>1, <2>3, <3>1
  <2>6. A = 1..m
    BY <2>4, <2>5
  <2> QED
    BY <2>3, <2>6 DEF A, n
<1> QED
  BY <1>4, <1>5

(* What is picked of neighbouring positions. *)
LEMMA PickedRun ==
  ASSUME NEW S, NEW s \in Seq(S), NEW a \in Nat, NEW b \in Nat, a <= b, b <= Len(s)
  PROVE  /\ Picked(s, (a + 1)..b) \in Seq(S) /\ Len(Picked(s, (a + 1)..b)) = b - a
         /\ \A k \in 1..(b - a) : Picked(s, (a + 1)..b)[k] = s[a + k]
<1> DEFINE I == (a + 1)..b
           l == b - a
           t == [k \in 1..l |-> a + k]
<1>1. l \in Nat /\ I \in SUBSET Int /\ I \in SUBSET DOMAIN s
  OBVIOUS
<1>2. \A k \in 1..l : a + k \in I
  OBVIOUS
<1>3. t \in Seq(I) /\ Len(t) = l
  BY <1>1, <1>2
<1>4. \A i, j \in 1..Len(t) : i < j => t[i] < t[j]
  BY <1>3
<1>5. \A u \in I : \E i \in 1..Len(t) : t[i] = u
  <2> SUFFICES ASSUME NEW u \in I PROVE \E i \in 1..Len(t) : t[i] = u
    OBVIOUS
  <2>1. u - a \in 1..l /\ a + (u - a) = u
    OBVIOUS
  <2> HIDE DEF l
  <2>2. t[u - a] = u
    BY <2>1
  <2> QED
    BY <1>3, <2>1, <2>2
<1>6. \A k \in 1..l : t[k] = a + k
  OBVIOUS
<1> HIDE DEF t, I, l
<1>7. Ascending(I) = t /\ Cardinality(I) = l
  <2>1. Cardinality(I) = Len(t) /\ Ascending(I) = t
    BY <1>1, <1>3, <1>4, <1>5, AscendingIsTheList
  <2> QED
    BY <1>3, <2>1
<1>8. /\ Picked(s, I) \in Seq(S) /\ Len(Picked(s, I)) = l
      /\ \A k \in 1..l : Picked(s, I)[k] = s[t[k]]
  <2>1. I \in SUBSET DOMAIN s
    BY <1>1
  <2>2. /\ Picked(s, I) \in Seq(S) /\ Len(Picked(s, I)) = Cardinality(I)
        /\ \A k \in 1..Cardinality(I) : Picked(s, I)[k] = s[Ascending(I)[k]]
    BY <2>1, PickedLists
  <2> QED
    BY <1>7, <2>2
<1> QED
  BY <1>6, <1>8 DEF I, l

(* A slice keeps the first ones. *)
LEMMA SlicedFirst ==
  ASSUME NEW S, NEW s \in Seq(S), NEW n \in Int
  PROVE  \E k \in 0..Len(s) :
            /\ Sliced(s, n) \in Seq(S) /\ Len(Sliced(s, n)) = k
            /\ \A i \in 1..k : Sliced(s, n)[i] = s[i]
<1> DEFINE l == Len(s)
           m == IF n < 0 THEN l + n ELSE IF n < l THEN n ELSE l
<1>1. l \in Nat /\ m \in Int /\ m <= l
  OBVIOUS
<1>2. Sliced(s, n) = SubSeq(s, 1, m)
  BY DEF Sliced
<1> HIDE DEF m, l
<1>3. CASE m >= 0
  <2>1. m \in Nat /\ m \in 0..l
    BY <1>1, <1>3
  <2>2. /\ SubSeq(s, 1, m) \in Seq(S) /\ Len(SubSeq(s, 1, m)) = m
        /\ \A i \in 1..m : SubSeq(s, 1, m)[i] = s[i]
    BY <1>1, <2>1, FirstOnes DEF l
  <2> QED
    BY <1>2, <2>1, <2>2 DEF l
<1>4. CASE m < 0
  <2>1. SubSeq(s, 1, m) = <<>>
    <3>1. 1 \in Int /\ m < 1
      BY <1>1, <1>4
    <3> QED
      BY <1>1, <3>1, SubSeqEmpty
  <2>2. <<>> \in Seq(S) /\ Len(<<>>) = 0 /\ 1..0 = {} /\ 0 \in 0..l
    BY <1>1
  <2> QED
    BY <1>2, <2>1, <2>2 DEF l
<1> QED
  BY <1>1, <1>3, <1>4

(* A list of elements of X that follow each other in L. *)
RunWithin(t, L, X) ==
    \E a, k \in Nat :
       /\ a + k <= Len(L)
       /\ t \in Seq(X) /\ Len(t) = k
       /\ \A i \in 1..k : t[i] = L[a + i]

(* What is shown of the levels is a run of them around the close. *)
LEMMA SidesOfLevels ==
  ASSUME NEW X \in SUBSET Lowest, NEW L \in Seq(X), NEW pct, Risen(L, pct), NEW p \in Lowest,
         NEW max \in Int, NEW lower, lower = {i \in DOMAIN L : Less(L[i], p)},
         NEW s, s = Sliced(Reverse(Picked(L, lower)), max),
         NEW r, r = Sliced(Picked(L, DOMAIN L \ lower), max)
  PROVE  /\ \A i \in DOMAIN s : Less(s[i], p)
         /\ \A i \in DOMAIN r : Leq(p, r[i])
         /\ RunWithin(Reverse(s) \o r, L, X)
<1> DEFINE n == Len(L)
<1>1. n \in Nat /\ DOMAIN L = 1..n /\ \A i \in 1..n : L[i] \in X /\ L[i] \in Lowest
  <2>1. n \in Nat /\ DOMAIN L = 1..n /\ \A i \in 1..n : L[i] \in X
    OBVIOUS
  <2> QED
    BY <2>1
<1>2. PICK m \in 0..n : lower = 1..m
  BY LowerOnesFirst
<1>3. \A i \in 1..n : i <= m <=> Less(L[i], p)
  BY <1>1, <1>2
<1> DEFINE low == Picked(L, lower)
           up == Picked(L, DOMAIN L \ lower)
<1> HIDE DEF n
<1>4. m \in Nat /\ m <= n /\ lower = (0 + 1)..m /\ DOMAIN L \ lower = (m + 1)..n
  BY <1>1, <1>2
<1>5. low \in Seq(X) /\ Len(low) = m /\ \A i \in 1..m : low[i] = L[i]
  <2>1. 0 \in Nat /\ 0 <= m /\ m <= Len(L) /\ m - 0 = m /\ \A i \in 1..m : 0 + i = i
    BY <1>4 DEF n
  <2> DEFINE o == 0
  <2> HIDE DEF o
  <2>2. o \in Nat /\ o <= m /\ m <= Len(L) /\ m \in Nat
    BY <1>4, <2>1 DEF o
  <2>3. /\ Picked(L, (o + 1)..m) \in Seq(X) /\ Len(Picked(L, (o + 1)..m)) = m - o
        /\ \A i \in 1..(m - o) : Picked(L, (o + 1)..m)[i] = L[o + i]
    BY <2>2, PickedRun
  <2>4. lower = (o + 1)..m
    BY <1>4 DEF o
  <2>5. low \in Seq(X) /\ Len(low) = m - o /\ \A i \in 1..(m - o) : low[i] = L[o + i]
    BY <2>3, <2>4
  <2>6. m - o = m /\ \A i \in 1..m : o + i = i
    BY <2>1 DEF o
  <2> HIDE DEF low
  <2> QED
    BY <2>5, <2>6
<1>6. up \in Seq(X) /\ Len(up) = n - m /\ \A i \in 1..(n - m) : up[i] = L[m + i]
  <2>0. n \in Nat /\ n <= Len(L) /\ m \in Nat /\ m <= n
    BY <1>1, <1>4 DEF n
  <2>1. /\ Picked(L, (m + 1)..n) \in Seq(X) /\ Len(Picked(L, (m + 1)..n)) = n - m
        /\ \A i \in 1..(n - m) : Picked(L, (m + 1)..n)[i] = L[m + i]
    BY <2>0, PickedRun
  <2> QED
    BY <1>4, <2>1
<1>7. s = Sliced(Reverse(low), max) /\ r = Sliced(up, max)
  OBVIOUS
<1> HIDE DEF low, up
<1>8. /\ Reverse(low) \in Seq(X) /\ Len(Reverse(low)) = m
      /\ \A i \in 1..m : Reverse(low)[i] = low[(m - i) + 1]
  <2>1. /\ Reverse(low) \in Seq(X) /\ Len(Reverse(low)) = Len(low)
        /\ \A i \in 1..Len(low) : Reverse(low)[i] = low[(Len(low) - i) + 1]
    BY <1>5, TurnedRound
  <2> QED
    BY <1>5, <2>1
<1>9. PICK k \in 0..m : s \in Seq(X) /\ Len(s) = k /\ \A i \in 1..k : s[i] = Reverse(low)[i]
  <2> DEFINE turned == Reverse(low)
  <2>1. s = Sliced(turned, max) /\ turned \in Seq(X) /\ Len(turned) = m
    BY <1>7, <1>8
  <2> HIDE DEF turned
  <2>2. \E k \in 0..Len(turned) :
            /\ Sliced(turned, max) \in Seq(X) /\ Len(Sliced(turned, max)) = k
            /\ \A i \in 1..k : Sliced(turned, max)[i] = turned[i]
    BY <2>1, SlicedFirst
  <2> QED
    BY <2>1, <2>2 DEF turned
<1>10. PICK h \in 0..(n - m) : r \in Seq(X) /\ Len(r) = h /\ \A i \in 1..h : r[i] = up[i]
  <2>1. \E h \in 0..Len(up) :
            /\ Sliced(up, max) \in Seq(X) /\ Len(Sliced(up, max)) = h
            /\ \A i \in 1..h : Sliced(up, max)[i] = up[i]
    BY <1>6, SlicedFirst
  <2> QED
    BY <1>6, <1>7, <2>1
<1>11. k \in Nat /\ h \in Nat /\ DOMAIN s = 1..k /\ DOMAIN r = 1..h /\ k <= m /\ h <= n - m
  BY <1>4, <1>9, <1>10
<1>12. ASSUME NEW i \in 1..k PROVE s[i] = L[(m - i) + 1] /\ (m - i) + 1 \in 1..m
  <2>1. i \in 1..m /\ (m - i) + 1 \in 1..m
    BY <1>4, <1>11
  <2> QED
    BY <1>5, <1>8, <1>9, <2>1
<1>13. ASSUME NEW i \in 1..h PROVE r[i] = L[m + i] /\ m + i \in 1..n /\ ~(m + i <= m)
  <2>1. i \in 1..(n - m) /\ m + i \in 1..n /\ ~(m + i <= m)
    BY <1>1, <1>4, <1>11
  <2> QED
    BY <1>6, <1>10, <2>1
<1>14. \A i \in DOMAIN s : Less(s[i], p)
  <2> SUFFICES ASSUME NEW i \in 1..k PROVE Less(s[i], p)
    BY <1>11
  <2>1. s[i] = L[(m - i) + 1] /\ (m - i) + 1 \in 1..n /\ (m - i) + 1 <= m
    BY <1>1, <1>4, <1>12
  <2> QED
    BY <1>3, <2>1
<1>15. \A i \in DOMAIN r : Leq(p, r[i])
  <2> SUFFICES ASSUME NEW i \in 1..h PROVE Leq(p, r[i])
    BY <1>11
  <2>1. r[i] = L[m + i] /\ m + i \in 1..n /\ ~(m + i <= m)
    BY <1>13
  <2>2. ~Less(r[i], p) /\ r[i] \in Lowest
    BY <1>1, <1>3, <2>1
  <2> QED
    BY <2>2, LeqChains
<1> DEFINE t == Reverse(s)
           all == t \o r
           a == m - k
<1>16. t \in Seq(X) /\ Len(t) = k /\ \A i \in 1..k : t[i] = s[(k - i) + 1]
  <2>1. s \in Seq(X) /\ Len(s) = k
    BY <1>9
  <2>2. t \in Seq(X) /\ Len(t) = Len(s) /\ \A i \in 1..Len(s) : t[i] = s[(Len(s) - i) + 1]
    BY <2>1, TurnedRound
  <2> QED
    BY <2>1, <2>2
<1> HIDE DEF t
<1>17. /\ all \in Seq(X) /\ Len(all) = k + h
       /\ \A i \in 1..k : all[i] = t[i]
       /\ \A i \in 1..h : all[k + i] = r[i]
  <2>1. r \in Seq(X) /\ Len(r) = h /\ t \in Seq(X) /\ Len(t) = k
    BY <1>10, <1>16
  <2>2. /\ all \in Seq(X) /\ Len(all) = Len(t) + Len(r)
        /\ \A i \in 1..Len(t) : all[i] = t[i]
        /\ \A i \in 1..Len(r) : all[Len(t) + i] = r[i]
    <3> HIDE DEF a
    <3>1. Len(t) \in Nat /\ Len(r) \in Nat
      BY <2>1
    <3>2. all \in Seq(X) /\ Len(all) = Len(t) + Len(r)
      BY <2>1, JoinedLists
    <3>3. \A i \in 1..Len(t) : all[i] = t[i]
      BY <2>1, JoinedLists
    <3>4. \A i \in 1..Len(r) : all[Len(t) + i] = r[i]
      <4> DEFINE u == r
      <4>1. u \in Seq(X) /\ t \in Seq(X) /\ all = t \o u
        BY <2>1
      <4> HIDE DEF u, all
      <4>2. \A i \in 1..Len(u) : (t \o u)[Len(t) + i] = u[i]
        BY <4>1, JoinedLists
      <4> QED
        BY <4>1, <4>2 DEF u
    <3> QED
      BY <3>2, <3>3, <3>4
  <2> QED
    BY <2>1, <2>2
<1> HIDE DEF all
<1>18. a \in Nat /\ k + h \in Nat /\ a + (k + h) <= n
  BY <1>1, <1>4, <1>11
<1>19. ASSUME NEW i \in 1..(k + h) PROVE all[i] = L[a + i]
  <2>1. CASE i <= k
    <3>1. i \in 1..k /\ (k - i) + 1 \in 1..k /\ (m - ((k - i) + 1)) + 1 = a + i
      BY <1>4, <1>11, <2>1
    <3>2. s[(k - i) + 1] = L[(m - ((k - i) + 1)) + 1]
      BY <1>12, <3>1
    <3> QED
      BY <1>16, <1>17, <3>1, <3>2
  <2>2. CASE ~(i <= k)
    <3>1. i - k \in 1..h /\ k + (i - k) = i /\ m + (i - k) = a + i
      BY <1>4, <1>11, <2>2
    <3>2. r[i - k] = L[m + (i - k)]
      BY <1>13, <3>1
    <3> QED
      BY <1>17, <3>1, <3>2
  <2> QED
    BY <2>1, <2>2
<1>20. RunWithin(all, L, X)
  <2> DEFINE g == k + h
  <2>1. a \in Nat /\ g \in Nat /\ a + g <= Len(L)
    BY <1>18 DEF n
  <2>2. all \in Seq(X) /\ Len(all) = g /\ \A i \in 1..g : all[i] = L[a + i]
    BY <1>17, <1>19
  <2> HIDE DEF g
  <2> QED
    BY <2>1, <2>2 DEF RunWithin
<1> QED
  BY <1>14, <1>15, <1>20 DEF all, t


(* The levels of sound candles, in ascending order. *)
LEMMA LevelsOfSound ==
  ASSUME NEW c \in Seq(SoundCandle), c # <<>>, NEW lookback, NEW pct \in Int
  PROVE  LET L == Clustered(Pivots(c, lookback), pct)
         IN  L \in Seq(Between(Whole(LowestOf(c)), Whole(HighestOf(c)))) /\ Risen(L, pct)
<1> DEFINE low == LowestOf(c)
           high == HighestOf(c)
           p == Pivots(c, lookback)
           q == Sorted(p)
           Y == low..high
           X == Between(Whole(low), Whole(high))
<1>1. low \in Int /\ high \in Int /\ low <= high /\ low > 0
  BY SoundRanging DEF Ranging
<1>2. low \in Nat \ {0} /\ high \in Nat /\ Y \in SUBSET Nat
  BY <1>1
<1>3. p \in Seq(Y)
  BY PivotsWithin
<1>4. Clustered(p, pct) = Grouped(q, pct)
  BY DEF Clustered
<1> HIDE DEF p
<1>5. /\ q \in Seq(Y) /\ Len(q) = Len(p)
      /\ \A k \in 1..(Len(p) - 1) : q[k] <= q[k + 1]
  <2> HIDE DEF Y
  <2> QED
    BY <1>2, <1>3, SortedLists
<1>6. IsList(q) /\ \A k \in 1..(Len(q) - 1) : q[k] <= q[k + 1]
  <2> HIDE DEF Y
  <2>1. Len(q) \in Nat /\ DOMAIN q = 1..Len(q)
    BY <1>5
  <2>2. \A k \in 1..(Len(q) - 1) : q[k] <= q[k + 1]
    BY <1>5
  <2> HIDE DEF q
  <2> QED
    BY <2>1, <2>2 DEF IsList
<1>7. \A i \in 1..Len(q) : q[i] \in Int /\ low <= q[i] /\ q[i] <= high
  <2>1. \A i \in 1..Len(q) : q[i] \in Y
    <3> HIDE DEF q, Y
    <3> QED
      BY <1>5
  <2> QED
    BY <1>1, <2>1
<1> HIDE DEF q, low, high
<1>8. Grouped(q, pct) \in Seq(X) /\ Risen(Grouped(q, pct), pct)
  BY <1>2, <1>6, <1>7, GroupedLevels
<1> QED
  BY <1>4, <1>8 DEF p, low, high

(* The levels of what is shown keep their distance. *)
LEMMA LevelsFromSound ==
  ASSUME CandlesSound
  PROVE  LevelsApart
<1> SUFFICES ASSUME shown.ok PROVE LevelsApart
  BY DEF LevelsApart
<1> DEFINE c == shown.candles
           pct == Settings.cluster
           max == Settings.maxLevels
           low == LowestOf(c)
           high == HighestOf(c)
           X == Between(Whole(low), Whole(high))
           close == Whole(Last(c).close)
           L == Clustered(Pivots(c, Settings.lookback), pct)
           lower == {i \in DOMAIN L : Less(L[i], close)}
           s == Sliced(Reverse(Picked(L, lower)), max)
           r == Sliced(Picked(L, DOMAIN L \ lower), max)
           all == Reverse(s) \o r
<1>1. c \in Seq(SoundCandle) /\ c # <<>>
  BY DEF CandlesSound
<1>2. pct \in Int /\ max \in Int
  BY MarketAssumption
<1>3. low \in Nat \ {0}
  <2>1. Ranging(c, low, high) /\ low > 0
    BY <1>1, SoundRanging
  <2> QED
    BY <2>1 DEF Ranging
<1>4. LevelsOf(c) = [supports |-> s, resistances |-> r]
  BY DEF LevelsOf, support_resistance
<1>5. close \in Lowest
  <2>1. Len(c) \in 1..Len(c)
    BY <1>1
  <2>2. c[Len(c)] \in SoundCandle
    BY <1>1, <2>1
  <2>3. Last(c).close \in Int
    BY <2>2 DEF SoundCandle, Candle, Last
  <2> QED
    BY <2>3, WholeLowest
<1>6. L \in Seq(X) /\ Risen(L, pct)
  BY <1>1, <1>2, LevelsOfSound
<1>7. X \in SUBSET Lowest
  BY DEF Between
<1> HIDE DEF L, X, close, pct, max
<1>7a. /\ lower = {i \in DOMAIN L : Less(L[i], close)}
      /\ s = Sliced(Reverse(Picked(L, lower)), max)
      /\ r = Sliced(Picked(L, DOMAIN L \ lower), max)
  OBVIOUS
<1> HIDE DEF s, r, lower
<1>8. /\ \A i \in DOMAIN s : Less(s[i], close)
      /\ \A i \in DOMAIN r : Leq(close, r[i])
      /\ RunWithin(all, L, X)
  <2>1. /\ X \in SUBSET Lowest /\ L \in Seq(X) /\ Risen(L, pct) /\ close \in Lowest
        /\ max \in Int
    BY <1>2, <1>5, <1>6, <1>7
  <2>2. \A i \in DOMAIN s : Less(s[i], close)
    BY <1>7a, <2>1, SidesOfLevels
  <2>3. \A i \in DOMAIN r : Leq(close, r[i])
    BY <1>7a, <2>1, SidesOfLevels
  <2>4. RunWithin(Reverse(s) \o r, L, X)
    BY <1>7a, <2>1, SidesOfLevels
  <2> QED
    BY <2>2, <2>3, <2>4
<1>9. PICK a \in Nat, k \in Nat :
           /\ a + k <= Len(L)
           /\ all \in Seq(X) /\ Len(all) = k
           /\ \A i \in 1..k : all[i] = L[a + i]
  BY <1>8 DEF RunWithin
<1> HIDE DEF all
<1>10. Len(L) \in Nat /\ \A i \in 1..Len(L) : L[i] \in X
  BY <1>6
<1>11. ASSUME NEW i \in DOMAIN all PROVE In(all[i], low, high)
  <2>1. all[i] \in X
    BY <1>9
  <2> HIDE DEF low, high
  <2> QED
    BY <2>1, InFromBetween DEF X
<1>12. ASSUME NEW i \in 1..(Len(all) - 1)
       PROVE  /\ ~WithinPct(all[i + 1], all[i], pct)
              /\ pct >= 0 => Less(all[i], all[i + 1])
  <2> DEFINE j == a + i
  <2>1. /\ i \in 1..k /\ i + 1 \in 1..k /\ j \in 1..(Len(L) - 1) /\ j \in 1..Len(L)
        /\ j + 1 \in 1..Len(L) /\ a + (i + 1) = j + 1
    BY <1>9, <1>10
  <2>2. all[i] = L[j] /\ all[i + 1] = L[j + 1]
    BY <1>9, <2>1
  <2> HIDE DEF j
  <2>3. Leq(L[j], L[j + 1]) /\ ~WithinPct(L[j + 1], L[j], pct)
    BY <1>6, <2>1 DEF Risen
  <2>4. L[j] \in Between(Whole(low), Whole(high)) /\ L[j + 1] \in Lowest
    BY <1>7, <1>10, <2>1 DEF X
  <2>5. ASSUME pct >= 0 PROVE Less(L[j], L[j + 1])
    <3>1. pct \in Nat
      BY <1>2, <2>5
    <3> HIDE DEF low, high
    <3> QED
      BY <1>3, <2>3, <2>4, <3>1, ApartIsLess
  <2> QED
    BY <2>2, <2>3, <2>5
<1>13. pct >= 0 => Ascend(all)
  BY <1>12 DEF Ascend
<1>14. ASSUME NEW v, v = LevelsOf(c)
       PROVE  v.supports = s /\ v.resistances = r
  BY <1>4, <1>14
<1>15. /\ \A i \in DOMAIN all : In(all[i], low, high)
       /\ \A i \in DOMAIN s : Less(s[i], close)
       /\ \A i \in DOMAIN r : Leq(close, r[i])
       /\ pct >= 0 => Ascend(all)
       /\ \A i \in 1..(Len(all) - 1) : ~WithinPct(all[i + 1], all[i], pct)
  BY <1>8, <1>11, <1>12, <1>13
<1> QED
  BY <1>14, <1>15 DEF LevelsApart, all, close, pct

(* Supports lie below the close and resistances not, each within the range the
   candles have traded in and none within the clustering percentage of the next,
   for every market, every limit, lookback, percentage and number of levels
   (support_resistance, _cluster_levels). *)
THEOREM LevelsStayApart == Spec => []LevelsApart
<1>1. CandlesSound => LevelsApart
  BY LevelsFromSound
<1> QED
  BY <1>1, CandlesSoundHolds, PTL

=============================================================================
