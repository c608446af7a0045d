---------------------------- MODULE BacktestProofs ----------------------------
(***************************************************************************)
(* Proofs about the replay, for all stored series, all requests and any    *)
(* number of kills.                                                        *)
(*                                                                         *)
(* 1. Candles: what a window of a series keeps of its order.               *)
(* 2. The steps: what a replay starts from, and what each bar does.        *)
(* 3. Where and when orders fill: NoLookAhead, FillsInOrderUnlessGap,      *)
(*    FillsSpaced.                                                         *)
(* 4. The virtual account: ShortOnlyByOneFee.                              *)
(* 5. The accounting of the ledger, and the report: ReportAddsUp.          *)
(***************************************************************************)
EXTENDS Backtest, Lemmas

----------------------------------------------------------------------------
(* 1. Candles. *)

(* The opens of candles are times. *)
LEMMA OpenIsTime ==
    ASSUME NEW candles \in Seq(Candles), NEW k \in DOMAIN candles
    PROVE  candles[k] \in Candles /\ candles[k].open \in Nat
  <1>1. candles[k] \in Candles
    OBVIOUS
  <1> QED
    BY <1>1 DEF Candles

(* Distances add up along a series. *)
LEMMA ApartFar ==
    ASSUME NEW candles \in Seq(Candles), NEW d \in Nat, Apart(candles, d),
           NEW i \in DOMAIN candles, NEW j \in DOMAIN candles, i < j
    PROVE  candles[j].open >= candles[i].open + d
  <1> DEFINE A == {n \in Nat : i + 1 + n \in DOMAIN candles =>
                                   candles[i + 1 + n].open >= candles[i].open + d}
  <1>1. DOMAIN candles = 1..Len(candles) /\ Len(candles) \in Nat
    OBVIOUS
  <1>2. \A k \in DOMAIN candles : candles[k].open \in Nat
    BY OpenIsTime
  <1>3. \A k \in 1..(Len(candles) - 1) : candles[k + 1].open >= candles[k].open + d
    BY DEF Apart
  <1>4. 0 \in A
    <2>1. i + 1 \in DOMAIN candles => i \in 1..(Len(candles) - 1)
      BY <1>1
    <2> QED
      BY <1>1, <1>3, <2>1
  <1>5. ASSUME NEW n \in Nat, n \in A
        PROVE  n + 1 \in A
    <2> SUFFICES ASSUME i + 1 + (n + 1) \in DOMAIN candles
                 PROVE  candles[i + 1 + (n + 1)].open >= candles[i].open + d
      OBVIOUS
    <2> DEFINE k == i + 1 + n
    <2>1. k \in 1..(Len(candles) - 1) /\ k \in DOMAIN candles /\ i + 1 + (n + 1) = k + 1
      BY <1>1
    <2>2. candles[k].open >= candles[i].open + d
      BY <1>5, <2>1
    <2> HIDE DEF k
    <2>3. candles[k + 1].open >= candles[k].open + d
      BY <1>3, <2>1
    <2>4. k + 1 \in DOMAIN candles
      BY <2>1
    <2>5. candles[k].open \in Nat /\ candles[k + 1].open \in Nat /\ candles[i].open \in Nat
      BY <1>2, <2>1, <2>4
    <2>6. candles[k + 1].open >= candles[i].open + d
      <3>1. \A x, y, z \in Nat : y >= x + d /\ z >= y + d => z >= x + d
        OBVIOUS
      <3> QED
        BY <2>2, <2>3, <2>5, <3>1
    <2> QED
      BY <2>1, <2>6
  <1>6. Nat \subseteq A
    <2> HIDE DEF A
    <2> QED
      BY <1>4, <1>5, NatSetInduction
  <1>7. j - i - 1 \in Nat /\ i + 1 + (j - i - 1) = j
    BY <1>1
  <1> QED
    BY <1>6, <1>7

(* A window holds candles of its range, in the order of the series, as far
   apart as they are there. *)
LEMMA WithinCandles ==
    ASSUME NEW candles \in Seq(Candles), NEW d \in Nat, Apart(candles, d),
           NEW from \in Int, NEW to \in Int
    PROVE  LET W == Within(candles, from, to)
           IN  /\ W \in Seq(Candles)
               /\ \A k \in DOMAIN W : W[k].open \in from..(to - 1)
               /\ \A k \in 1..(Len(W) - 1) : W[k + 1].open >= W[k].open + d
  <1> DEFINE I == {i \in DOMAIN candles : candles[i].open \in from..(to - 1)}
             W == Picked(candles, I)
             n == Cardinality(I)
  <1>1. I \in SUBSET DOMAIN candles
    OBVIOUS
  <1>2. Within(candles, from, to) = W
    BY DEF Within
  <1>3. \A i \in I : candles[i].open \in from..(to - 1)
    OBVIOUS
  <1> HIDE DEF I
  <1>4. W \in Seq(Candles) /\ Len(W) = n /\ DOMAIN W = 1..n /\ n \in Nat
    BY <1>1, PickedLists
  <1>5. \A k \in 1..n : Ascending(I)[k] \in I /\ W[k] = candles[Ascending(I)[k]]
    BY <1>1, PickedLists
  <1> HIDE DEF W
  <1>6. \A k \in DOMAIN W : W[k].open \in from..(to - 1)
    BY <1>3, <1>4, <1>5
  <1>7. ASSUME NEW k \in 1..(Len(W) - 1)
        PROVE  W[k + 1].open >= W[k].open + d
    <2> DEFINE i == Ascending(I)[k]
               j == Ascending(I)[k + 1]
    <2>1. i \in I /\ j \in I /\ i < j /\ W[k] = candles[i] /\ W[k + 1] = candles[j]
      BY <1>1, PickedInTurn DEF W
    <2> HIDE DEF i, j
    <2>2. candles[j].open >= candles[i].open + d
      BY <1>1, <2>1, ApartFar
    <2> QED
      BY <2>1, <2>2
  <1> QED
    BY <1>2, <1>4, <1>6, <1>7

(* A window of a series without gaps has none. *)
LEMMA WithinContiguous ==
    ASSUME NEW candles \in Seq(Candles), NEW d \in Nat \ {0},
           \A i \in 1..(Len(candles) - 1) : candles[i + 1].open = candles[i].open + d,
           NEW from \in Int, NEW to \in Int,
           NEW q \in 1..(Len(Within(candles, from, to)) - 1)
    PROVE  Within(candles, from, to)[q + 1].open = Within(candles, from, to)[q].open + d
  <1> DEFINE I == {i \in DOMAIN candles : candles[i].open \in from..(to - 1)}
             W == Picked(candles, I)
  <1>0. DOMAIN candles = 1..Len(candles) /\ Len(candles) \in Nat
    OBVIOUS
  <1>1. I \in SUBSET DOMAIN candles
    OBVIOUS
  <1>2. Within(candles, from, to) = W
    BY DEF Within
  <1>3. \A i \in DOMAIN candles : i \in I <=> candles[i].open \in from..(to - 1)
    OBVIOUS
  <1>4. \A i \in DOMAIN candles : candles[i].open \in Nat
    BY OpenIsTime
  <1> HIDE DEF I
  <1> DEFINE i == Ascending(I)[q]
             j == Ascending(I)[q + 1]
  <1>5. /\ i \in I /\ j \in I /\ i < j
        /\ W[q] = candles[i] /\ W[q + 1] = candles[j]
        /\ \A k \in I : ~(i < k /\ k < j)
    <2>1. q \in 1..(Len(Picked(candles, I)) - 1)
      BY <1>2
    <2> HIDE DEF W
    <2> QED
      BY <1>1, <2>1, PickedInTurn DEF W
  <1> HIDE DEF i, j
  <1>6. i \in 1..Len(candles) /\ j \in 1..Len(candles)
    BY <1>0, <1>1, <1>5
  <1> HIDE DEF W
  <1>9. Apart(candles, d)
    <2>1. ASSUME NEW m \in 1..(Len(candles) - 1)
          PROVE  candles[m + 1].open >= candles[m].open + d
      <3>1. m \in DOMAIN candles /\ candles[m + 1].open = candles[m].open + d
        BY <1>0
      <3>2. candles[m].open \in Nat /\ candles[m].open + d \in Nat
        BY <1>4, <3>1
      <3> QED
        BY <3>1, <3>2
    <2> QED
      BY <2>1 DEF Apart
  <1>10. j = i + 1
    <2> SUFFICES ASSUME i + 1 < j
                 PROVE  FALSE
      BY <1>5, <1>6
    <2>1. i + 1 \in DOMAIN candles /\ i \in 1..(Len(candles) - 1) /\ j \in DOMAIN candles
      BY <1>0, <1>6
    <2>2. candles[i + 1].open = candles[i].open + d
      BY <2>1
    <2>3. candles[j].open >= candles[i + 1].open + d
      BY <1>9, <2>1, ApartFar
    <2>4. candles[i + 1].open \in from..(to - 1)
      <3>1. candles[i].open \in from..(to - 1) /\ candles[j].open \in from..(to - 1)
        BY <1>3, <1>5, <2>1
      <3>2. candles[i].open \in Nat /\ candles[i + 1].open \in Nat /\ candles[j].open \in Nat
        BY <1>4, <2>1
      <3>3. \A x, y, z \in Nat : x \in from..(to - 1) /\ z \in from..(to - 1) /\ y = x + d
                /\ z >= y + d
                 => y \in from..(to - 1)
        OBVIOUS
      <3> QED
        BY <2>2, <2>3, <3>1, <3>2, <3>3
    <2>5. i + 1 \in I
      BY <1>3, <2>1, <2>4
    <2> QED
      BY <1>5, <1>6, <2>5
  <1>11. i \in 1..(Len(candles) - 1)
    BY <1>6, <1>10
  <1>12. candles[j].open = candles[i].open + d
    BY <1>10, <1>11
  <1> QED
    BY <1>2, <1>5, <1>12

----------------------------------------------------------------------------
(* 2. The steps. *)

(* A command has candles and an account. *)
Running == pc \in {"replay", "write"}

(* What a replay starts from. *)
Fresh == next = 1 /\ base = 0 /\ resting = NoOrder /\ lastAt = Never /\ fills = <<>>

(* Where a command stands: it replays what it was asked for, and before and
   after there is nothing of an account. *)
Frame ==
    /\ series \in Series /\ interval \in MinIntervals
    /\ pc \in {"idle", "read", "replay", "write"}
    /\ pc # "idle" => request \in Requests
    /\ ~Running => Fresh /\ stable = 0
    /\ Running => ~Refused
    /\ next \in Nat \ {0}

(* A step that is not a bar starts over or leaves the replay alone. *)
StartsOver == Fresh' /\ (Running' => stable' = Capital)
LeavesReplay ==
    /\ UNCHANGED <<request, next, base, stable, resting, lastAt, fills>>
    /\ Running' <=> Running

(* No command runs at first. *)
LEMMA FrameAtFirst == Init => Frame
  BY DEF Init, Frame, Running, Fresh

(* Every step keeps the frame, and is a bar, a new start or no business of
   the account's. *)
LEMMA FrameKept ==
    ASSUME Frame, [Next]_vars
    PROVE  /\ Frame'
           /\ UNCHANGED worldVars
           /\ ReplayBar \/ StartsOver \/ LeavesReplay
  <1> USE DEF worldVars
  <1>1. ASSUME NEW result, Finish(result), UNCHANGED worldVars
        PROVE  Frame' /\ StartsOver
    BY <1>1 DEF Finish, Frame, Running, Fresh, StartsOver
  <1>2. CASE StartRun
    <2>1. UNCHANGED <<series, interval, next, base, stable, resting, lastAt, fills>>
      BY <1>2 DEF StartRun, replayVars
    <2>2. pc = "idle" /\ pc' = "read" /\ request' \in Requests
      BY <1>2 DEF StartRun
    <2> QED
      BY <2>1, <2>2 DEF Frame, Running, Fresh, StartsOver
  <1>3. CASE RefuseRun
    BY <1>1, <1>3 DEF RefuseRun
  <1>4. CASE ReadCandles
    <2>1. UNCHANGED <<series, interval, request, next, base, resting, lastAt, fills>>
      BY <1>4 DEF ReadCandles
    <2>2. pc = "read" /\ pc' = "replay" /\ ~Refused /\ stable' = Capital
      BY <1>4 DEF ReadCandles
    <2>3. Refused' <=> Refused
      BY <2>1 DEF Refused, Bars, Clipped
    <2> QED
      BY <2>1, <2>2, <2>3 DEF Frame, Running, Fresh, StartsOver
  <1>5. CASE ReplayBar
    <2>1. UNCHANGED <<series, interval, request, pc>> /\ next' = next + 1 /\ pc = "replay"
      BY <1>5 DEF ReplayBar
    <2>2. Refused' <=> Refused
      BY <2>1 DEF Refused, Bars, Clipped
    <2> QED
      BY <1>5, <2>1, <2>2 DEF Frame, Running
  <1>6. CASE OpenRunDir \/ WriteFill
    <2>1. UNCHANGED <<series, interval, request, next, base, stable, resting, lastAt, fills>>
      BY <1>6 DEF OpenRunDir, WriteFill, replayVars
    <2>2. pc \in {"replay", "write"} /\ pc' = "write"
      BY <1>6 DEF OpenRunDir, WriteFill
    <2>3. Refused' <=> Refused
      BY <2>1 DEF Refused, Bars, Clipped
    <2> QED
      BY <2>1, <2>2, <2>3 DEF Frame, Running, LeavesReplay
  <1>7. CASE WriteMeta
    BY <1>1, <1>7 DEF WriteMeta
  <1>8. CASE KillRun
    BY <1>1, <1>8 DEF KillRun
  <1>9. CASE UNCHANGED vars
    <2>1. UNCHANGED <<series, interval, pc, request, next, base, stable, resting, lastAt, fills>>
      BY <1>9 DEF vars, replayVars
    <2>2. Refused' <=> Refused
      BY <2>1 DEF Refused, Bars, Clipped
    <2> QED
      BY <2>1, <2>2 DEF Frame, Running, Fresh, LeavesReplay
  <1> QED
    BY <1>2, <1>3, <1>4, <1>5, <1>6, <1>7, <1>8, <1>9 DEF Next

(* The bars of a running command are in order, a bar's length apart or more,
   and exactly that far apart when the series has no gap. *)
LEMMA BarsInOrder ==
    ASSUME Frame, Running
    PROVE  /\ Bars \in Seq(Candles) /\ Bars # <<>>
           /\ \A k \in 1..(Len(Bars) - 1) : Bars[k + 1].open >= Bars[k].open + BarLength
           /\ Contiguous =>
                \A k \in 1..(Len(Bars) - 1) : Bars[k + 1].open = Bars[k].open + BarLength
  <1>1. /\ series.bars \in Seq(Candles) /\ Apart(series.bars, BarLength)
        /\ BarLength \in Nat /\ BarLength \in Nat \ {0}
        /\ request.start \in Int /\ request.end \in Int
    BY BacktestAssumption DEF Frame, Running
  <1>2. Bars = Within(series.bars, request.start, request.end)
    BY DEF Bars, Clipped
  <1>3. /\ Bars \in Seq(Candles)
        /\ \A k \in 1..(Len(Bars) - 1) : Bars[k + 1].open >= Bars[k].open + BarLength
    BY <1>1, <1>2, WithinCandles
  <1>4. ASSUME Contiguous, NEW k \in 1..(Len(Bars) - 1)
        PROVE  Bars[k + 1].open = Bars[k].open + BarLength
    <2>1. \A i \in 1..(Len(series.bars) - 1) :
             series.bars[i + 1].open = series.bars[i].open + BarLength
      BY <1>4 DEF Contiguous
    <2>2. k \in 1..(Len(Within(series.bars, request.start, request.end)) - 1)
      BY <1>2, <1>4
    <2> QED
      BY <1>1, <1>2, <2>1, <2>2, WithinContiguous
  <1>5. Bars # <<>>
    BY DEF Frame, Refused
  <1> QED
    BY <1>3, <1>4, <1>5

(* The bar to be replayed and the one before it. *)
LEMMA BarTimes ==
    ASSUME Frame, pc = "replay", next <= Len(Bars)
    PROVE  /\ Bar \in Candles /\ Bar.open \in Nat
           /\ next > 1 => /\ Bars[next - 1] \in Candles /\ Bars[next - 1].open \in Nat
                          /\ Bar.open >= Bars[next - 1].open + BarLength
                          /\ Contiguous => Bar.open = Bars[next - 1].open + BarLength
  <1>1. Running /\ next \in Nat \ {0}
    BY DEF Running, Frame
  <1>2. /\ Bars \in Seq(Candles)
        /\ \A k \in 1..(Len(Bars) - 1) : Bars[k + 1].open >= Bars[k].open + BarLength
        /\ Contiguous =>
                \A k \in 1..(Len(Bars) - 1) : Bars[k + 1].open = Bars[k].open + BarLength
    BY <1>1, BarsInOrder
  <1>3. next \in DOMAIN Bars
    BY <1>1, <1>2
  <1>4. Bar \in Candles /\ Bar.open \in Nat
    BY <1>2, <1>3, OpenIsTime DEF Bar
  <1>5. ASSUME next > 1
        PROVE  /\ next - 1 \in DOMAIN Bars /\ next - 1 \in 1..(Len(Bars) - 1)
               /\ (next - 1) + 1 = next
    BY <1>1, <1>2, <1>5
  <1>6. next > 1 => Bars[next - 1] \in Candles /\ Bars[next - 1].open \in Nat
    BY <1>2, <1>5, OpenIsTime
  <1> QED
    BY <1>2, <1>4, <1>5, <1>6 DEF Bar

(* An order fills on a candle that opens with the bar after its decision or
   later, and before the next bar is due when the series has no gap. *)
LEMMA FillTimes ==
    ASSUME Frame, pc = "replay", next <= Len(Bars), next > 1, Filled
    PROVE  /\ FillCandle \in Candles /\ FillCandle.open \in Nat
           /\ FillCandle.open >= Bar.open
           /\ Contiguous => FillCandle.open < Bar.open + BarLength
  <1> DEFINE before == Bars[next - 1].open
  <1>1. /\ Bar \in Candles /\ Bar.open \in Nat /\ before \in Nat
        /\ Contiguous => Bar.open = before + BarLength
    BY BarTimes
  <1>2. BarLength \in Nat \ {0}
    BY BacktestAssumption
  <1>3. /\ Window \in Seq(Candles)
        /\ \A k \in DOMAIN Window : /\ Window[k].open >= Bar.open
                                    /\ Contiguous => Window[k].open < Bar.open + BarLength
    <2>1. CASE ~request.useFine
      <3>1. Window = <<Bar>>
        BY <2>1 DEF Window
      <3>2. \A k \in DOMAIN Window : Window[k] = Bar
        BY <3>1
      <3>3. Bar.open >= Bar.open /\ Bar.open < Bar.open + BarLength
        BY <1>1, <1>2
      <3>4. Window \in Seq(Candles)
        BY <1>1, <3>1
      <3> QED
        BY <3>2, <3>3, <3>4
    <2>2. CASE request.useFine
      <3> DEFINE fine == Clipped(series.fine)
                 to == Bar.open + (Bar.open - before)
      <3>1. /\ series.fine \in Seq(Candles) /\ Apart(series.fine, 1) /\ 1 \in Nat
            /\ request.start \in Int /\ request.end \in Int
        BY BacktestAssumption DEF Frame
      <3>2. fine = Within(series.fine, request.start, request.end)
        BY DEF Clipped
      <3>3. fine \in Seq(Candles)
                /\ \A k \in 1..(Len(fine) - 1) : fine[k + 1].open >= fine[k].open + 1
        BY <3>1, <3>2, WithinCandles
      <3>4. Apart(fine, 1)
        BY <3>3 DEF Apart
      <3>5. Bar.open \in Int /\ to \in Int
        BY <1>1
      <3>6. Window = Within(fine, Bar.open, to)
        BY <2>2 DEF Window
      <3> HIDE DEF fine, to, before
      <3>7. Window \in Seq(Candles)
                /\ \A k \in DOMAIN Window : Window[k].open \in Bar.open..(to - 1)
        BY <3>1, <3>3, <3>4, <3>5, <3>6, WithinCandles
      <3>8. Contiguous => to = Bar.open + BarLength
        BY <1>1, <1>2 DEF to
      <3>9. ASSUME NEW k \in DOMAIN Window
            PROVE  Window[k].open >= Bar.open /\ (Contiguous
                => Window[k].open < Bar.open + BarLength)
        <4>1. Window[k].open \in Bar.open..(to - 1)
          BY <3>7
        <4> QED
          BY <1>1, <1>2, <3>5, <3>8, <4>1
      <3> QED
        BY <3>7, <3>9
    <2> QED
      BY <2>1, <2>2
  <1>4. Crossing \in SUBSET DOMAIN Window /\ Crossing # {} /\ DOMAIN Window \in SUBSET Nat
    BY <1>3 DEF Crossing, Filled
  <1>5. \E m \in Crossing : \A k \in Crossing : m <= k
    BY <1>4, LeastNumber
  <1>6. Min(Crossing) \in Crossing
    BY <1>5 DEF Min
  <1>7. FillCandle \in Candles /\ FillCandle.open \in Nat
    BY <1>3, <1>4, <1>6, OpenIsTime DEF FillCandle
  <1> QED
    BY <1>3, <1>4, <1>6, <1>7 DEF FillCandle

----------------------------------------------------------------------------
(* What a bar does to the account. *)

(* The fills a ledger may hold: the fee of a replayed fill is always in the
   quote asset. *)
FillRecords ==
    [side: {"buy", "sell"}, price: Nat, qty: Nat, fee: Nat, feeIn: {"quote"}, at: Nat, decided: Nat]

(* The balances, the fills and the time of the last. *)
Account ==
    /\ base \in Nat /\ stable \in Int /\ lastAt \in Int
    /\ fills \in Seq(FillRecords)
    /\ fills = <<>> => lastAt = Never
    /\ fills # <<>> => lastAt = fills[Len(fills)].at

(* An order o decided on with b and s in the account, at the time t, when the
   last fill was at the time last. *)
WellDecided(o, b, s, t, last) ==
    /\ IsOrder(o)
    /\ o.side = "sell" => o.amount <= b
    /\ o.side = "buy" => o.notional <= s
    /\ interval > 0 /\ last # Never => t >= last + interval

(* The order that waits for its bar was decided on the bar before, with the
   account as it is. *)
OrderCovered ==
    resting # NoOrder =>
        next > 1 /\ WellDecided(resting, base, stable, Bars[next - 1].open, lastAt)

(* The inductive invariant of the replay. *)
Replay == Frame /\ Account /\ OrderCovered

(* The pair with the target in effect is a configured pair (_target_pair). *)
LEMMA TargetedPair ==
    ASSUME Frame, Running, NEW open \in Nat
    PROVE  PairAt(open) \in PairConfig
  <1> DEFINE s == request.schedule
             effective == {i \in DOMAIN s : s[i].at <= open}
  <1>1. request.pair \in PairConfig /\ s \in Seq([at: Nat, pct: Int])
    BY BacktestAssumption DEF Frame, Running
  <1>2. \A i \in DOMAIN s : s[i].pct \in 0..100
    BY DEF Frame, Refused, ValidSchedule
  <1>3. TargetAt(s, open, request.pair.target) \in 0..100
    <2>1. CASE effective = {}
      BY <1>1, <2>1 DEF TargetAt, PairConfig
    <2>2. CASE effective # {}
      <3>1. DOMAIN s = 1..Len(s) /\ Len(s) \in Int /\ IsFiniteSet(1..Len(s))
        BY <1>1, FS_Interval
      <3>2. effective \in SUBSET DOMAIN s
        OBVIOUS
      <3> HIDE DEF effective
      <3>3. effective \in SUBSET Int /\ IsFiniteSet(effective)
        BY <3>1, <3>2, FS_Subset
      <3>4. \E m \in effective : \A k \in effective : k <= m
        BY <2>2, <3>3, GreatestNumber
      <3>5. \E m \in effective : \A k \in effective : m >= k
        BY <3>3, <3>4
      <3>6. Max(effective) \in effective
        BY <3>5 DEF Max
      <3>7. TargetAt(s, open, request.pair.target) = s[Max(effective)].pct
        BY <2>2 DEF TargetAt, effective
      <3> QED
        BY <1>2, <3>2, <3>6, <3>7
    <2> QED
      BY <2>1, <2>2
  <1>4. PairAt(open) = [request.pair EXCEPT !.target = TargetAt(s, open, request.pair.target)]
    BY DEF PairAt
  <1> QED
    BY <1>1, <1>3, <1>4 DEF PairConfig

(* What is left for the next bar is covered by the account it was decided on
   with, and keeps the minimum interval. *)
LEMMA DecidedOnBar ==
    ASSUME Frame, pc = "replay", next <= Len(Bars),
           NEW b \in Nat, NEW s \in Int, NEW last \in Int,
           NEW o, o = RestingAfter(PairAt(Bar.open), SnapshotAt(Bar, b, s, last)), o # NoOrder
    PROVE  WellDecided(o, b, s, Bar.open, last)
  <1> DEFINE p == PairAt(Bar.open)
             n == SnapshotAt(Bar, b, s, last)
  <1>1. Bar \in Candles /\ Bar.open \in Nat /\ interval \in Nat
    BY BarTimes, BacktestAssumption DEF Frame
  <1>2. p \in PairConfig
    BY <1>1, TargetedPair DEF Running
  <1>3. /\ n.base = b /\ n.baseFree = b /\ n.stable = s /\ n.stableFree = s
        /\ n.last = Bar.close /\ n.bid = Bar.close /\ n.ask = Bar.close
        /\ n.cooling = (interval > 0 /\ last # Never /\ Bar.open - last < interval)
    BY DEF SnapshotAt
  <1>4. Bar.close \in Nat
    BY <1>1 DEF Candles
  <1>5. o = Proposed(p, n) /\ Actionable(p, n)
    BY DEF RestingAfter
  <1> HIDE DEF p, n
  <1>6. IsSnapshot(n) /\ n.baseFree \in Int /\ n.stableFree \in Int
    BY <1>3, <1>4 DEF IsSnapshot
  <1>7. IsOrder(o)
    BY <1>2, <1>5, <1>6, ProposedIsOrder
  <1>8. (o.side = "sell" => o.amount <= b) /\ (o.side = "buy" => o.notional <= s)
    BY <1>2, <1>3, <1>5, <1>6, ProposedIsCovered
  <1>9. ~n.cooling
    BY <1>5, NotCooling
  <1>10. interval > 0 /\ last # Never => Bar.open >= last + interval
    <2>1. ~(interval > 0 /\ last # Never /\ Bar.open - last < interval)
      BY <1>3, <1>9, Zenon
    <2> QED
      BY <1>1, <2>1
  <1> QED
    BY <1>7, <1>8, <1>10 DEF WellDecided

(* A fee is a part of what is paid (_apply_fill). *)
LEMMA FeeIsPart ==
    ASSUME NEW o, o.notional \in Nat
    PROVE  FeeOf(o) \in Nat /\ FeeOf(o) <= o.notional /\ (o.notional = 0 => FeeOf(o) = 0)
  <1> DEFINE x == o.notional
             q == (x * FeePct) \div 100
  <1>1. x \in Nat /\ FeePct \in Nat /\ FeePct <= 100
    BY BacktestAssumption
  <1> HIDE DEF x
  <1>2. x * FeePct \in Nat /\ x * FeePct <= x * 100
    BY <1>1
  <1>3. q \in Nat /\ q * 100 <= x * FeePct
    BY <1>2, QuotientTimesDivisor
  <1>4. x = 0 => x * FeePct = 0
    BY <1>1
  <1> HIDE DEF q
  <1>5. q <= x
    BY <1>1, <1>2, <1>3
  <1>6. x = 0 => q = 0
    BY <1>1, <1>3, <1>5
  <1> QED
    BY <1>3, <1>5, <1>6 DEF FeeOf, q, x

(* What a fill says of itself. *)
LEMMA FillSays ==
    ASSUME Replay, pc = "replay", next <= Len(Bars), Filled
    PROVE  LET f == FillOf(resting, FillCandle)
           IN  /\ f \in FillRecords /\ next > 1
               /\ f.decided = Bars[next - 1].open
               /\ f.decided + BarLength <= Bar.open /\ Bar.open <= f.at
               /\ Contiguous => f.at < Bar.open + BarLength /\ Bar.open = f.decided + BarLength
               /\ interval > 0 /\ lastAt # Never => f.decided >= lastAt + interval
               /\ f.at = FillCandle.open /\ f.fee = FeeOf(resting) /\ f.fee <= resting.notional
               /\ f.side = resting.side /\ f.qty = resting.amount /\ f.price = resting.limit
  <1> DEFINE f == FillOf(resting, FillCandle)
  <1>1. next > 1 /\ WellDecided(resting, base, stable, Bars[next - 1].open, lastAt)
    BY DEF Replay, OrderCovered, Filled
  <1>2. /\ resting.amount \in Nat /\ resting.limit \in Nat /\ resting.notional \in Nat
        /\ resting.side \in {"buy", "sell"}
    BY <1>1, OrdersAreNumbers DEF WellDecided
  <1>3. /\ FillCandle.open \in Nat /\ FillCandle.open >= Bar.open
        /\ Contiguous => FillCandle.open < Bar.open + BarLength
    BY <1>1, FillTimes DEF Replay
  <1>4. /\ Bar.open \in Nat /\ Bars[next - 1].open \in Nat
        /\ Bar.open >= Bars[next - 1].open + BarLength
        /\ Contiguous => Bar.open = Bars[next - 1].open + BarLength
    BY <1>1, BarTimes DEF Replay
  <1>5. FeeOf(resting) \in Nat /\ FeeOf(resting) <= resting.notional
    BY <1>2, FeeIsPart
  <1>6. /\ f.decided = Bars[next - 1].open /\ f.at = FillCandle.open /\ f.fee = FeeOf(resting)
        /\ f.side = resting.side /\ f.qty = resting.amount /\ f.price = resting.limit
    BY DEF FillOf
  <1>7. f \in FillRecords
    BY <1>2, <1>3, <1>4, <1>5 DEF FillOf, FillRecords
  <1>8. BarLength \in Nat
    BY BacktestAssumption
  <1> HIDE DEF f
  <1>9. f.decided + BarLength <= Bar.open /\ Bar.open <= f.at
    BY <1>3, <1>4, <1>6, <1>8
  <1> QED
    BY <1>1, <1>3, <1>4, <1>5, <1>6, <1>7, <1>9 DEF WellDecided, f

(* What a bar does: nothing fills and the account is what it was, or the order
   of the bar before fills and is booked. *)
BooksFill(f) ==
    /\ fills' = Append(fills, f) /\ lastAt' = f.at
    /\ f.side = "buy" => /\ base' = base + f.qty
                         /\ stable' = stable - (resting.notional + f.fee)
    /\ f.side = "sell" => /\ base' = base - f.qty
                          /\ stable' = stable + (resting.notional - f.fee)

(* A bar fills nothing, or books the order of the bar before. *)
LEMMA BarEffects ==
    ASSUME Replay, ReplayBar
    PROVE  /\ pc = "replay" /\ next <= Len(Bars) /\ next' = next + 1
           /\ UNCHANGED <<series, interval, pc, request>>
           /\ \/ UNCHANGED <<base, stable, lastAt, fills>>
              \/ Filled /\ BooksFill(FillOf(resting, FillCandle))
  <1>1. /\ pc = "replay" /\ next <= Len(Bars) /\ next' = next + 1
        /\ UNCHANGED <<series, interval, pc, request>>
        /\ base' = BaseAfter /\ stable' = StableAfter /\ lastAt' = StampAfter
        /\ fills' = IF Filled THEN Append(fills, FillOf(resting, FillCandle)) ELSE fills
    BY DEF ReplayBar, worldVars
  <1>2. CASE ~Filled
    BY <1>1, <1>2 DEF BaseAfter, StableAfter, StampAfter
  <1>3. CASE Filled
    <2>1. /\ FillOf(resting, FillCandle).side = resting.side
          /\ FillOf(resting, FillCandle).qty = resting.amount
          /\ FillOf(resting, FillCandle).fee = FeeOf(resting)
          /\ FillOf(resting, FillCandle).at = FillCandle.open
      BY DEF FillOf
    <2> QED
      BY <1>1, <1>3, <2>1 DEF BaseAfter, StableAfter, StampAfter, BooksFill
  <1> QED
    BY <1>1, <1>2, <1>3

(* Every step keeps the invariant: what fills was covered, and the account
   has not moved since. *)
LEMMA ReplayKept ==
    ASSUME Replay, [Next]_vars
    PROVE  Replay'
  <1>1. Frame' /\ UNCHANGED worldVars /\ (ReplayBar \/ StartsOver \/ LeavesReplay)
    BY FrameKept DEF Replay
  <1>2. CASE StartsOver
    <2>1. stable' \in Int
      <3>1. Capital \in Int
        BY BacktestAssumption
      <3> QED
        BY <1>1, <1>2, <3>1 DEF StartsOver, Frame
    <2> QED
      BY <1>1, <1>2, <2>1 DEF StartsOver, Fresh, Replay, Account, OrderCovered, Never
  <1>3. CASE LeavesReplay
    <2>1. UNCHANGED <<series, interval, request, next, base, stable, resting, lastAt, fills>>
      BY <1>1, <1>3 DEF LeavesReplay, worldVars
    <2>2. Bars' = Bars
      BY <2>1 DEF Bars, Clipped
    <2> QED
      BY <1>1, <2>1, <2>2 DEF Replay, Account, OrderCovered, WellDecided
  <1>4. CASE ReplayBar
    <2>1. /\ pc = "replay" /\ next <= Len(Bars) /\ next' = next + 1
          /\ UNCHANGED <<series, interval, pc, request>>
      BY <1>4, BarEffects
    <2>2. next \in Nat \ {0} /\ Bars' = Bars
      BY <2>1 DEF Replay, Frame, Bars, Clipped
    <2>3. Account'
      <3>1. CASE UNCHANGED <<base, stable, lastAt, fills>>
        BY <3>1 DEF Replay, Account
      <3>2. CASE Filled /\ BooksFill(FillOf(resting, FillCandle))
        <4> DEFINE f == FillOf(resting, FillCandle)
        <4>1. /\ f \in FillRecords /\ f.fee <= resting.notional
              /\ f.side = resting.side /\ f.qty = resting.amount
          BY <2>1, <3>2, FillSays
        <4>2. WellDecided(resting, base, stable, Bars[next - 1].open, lastAt)
          BY <3>2 DEF Replay, OrderCovered, Filled
        <4>3. resting.amount \in Nat /\ resting.notional \in Nat
                  /\ resting.side \in {"buy", "sell"}
          BY <4>2, OrdersAreNumbers DEF WellDecided
        <4>4. f.side = "sell" => f.qty <= base
          BY <4>1, <4>2 DEF WellDecided
        <4>5. f.at \in Nat /\ f.fee \in Nat /\ f.qty \in Nat
          BY <4>1 DEF FillRecords
        <4>6. base \in Nat /\ stable \in Int /\ fills \in Seq(FillRecords)
          BY DEF Replay, Account
        <4>7. BooksFill(f)
          BY <3>2
        <4> HIDE DEF f
        <4>8. base' \in Nat /\ stable' \in Int
          <5>1. CASE resting.side = "buy"
            BY <4>1, <4>3, <4>5, <4>6, <4>7, <5>1 DEF BooksFill
          <5>2. CASE resting.side = "sell"
            BY <4>1, <4>3, <4>4, <4>5, <4>6, <4>7, <5>2 DEF BooksFill
          <5> QED
            BY <4>3, <5>1, <5>2
        <4>9. /\ fills' \in Seq(FillRecords) /\ fills' # <<>>
              /\ lastAt' = fills'[Len(fills')].at /\ lastAt' \in Int
          <5>1. fills' = Append(fills, f) /\ lastAt' = f.at
            BY <4>7 DEF BooksFill
          <5> QED
            BY <4>1, <4>5, <4>6, <5>1
        <4> QED
          BY <4>8, <4>9 DEF Account
      <3> QED
        BY <1>4, <3>1, <3>2, BarEffects
    <2>4. OrderCovered'
      <3>1. base' \in Nat /\ stable' \in Int /\ lastAt' \in Int
        BY <2>3 DEF Account
      <3>2. resting' = RestingAfter(PairAt(Bar.open), SnapshotAt(Bar, base', stable', lastAt'))
        BY <1>4 DEF ReplayBar
      <3>3. resting' # NoOrder => WellDecided(resting', base', stable', Bar.open, lastAt')
        BY <2>1, <3>1, <3>2, DecidedOnBar DEF Replay
      <3>4. next' > 1 /\ next' - 1 = next
        BY <2>1, <2>2
      <3>5. Bars'[next' - 1].open = Bar.open
        BY <2>2, <3>4 DEF Bar
      <3> QED
        BY <2>1, <3>3, <3>4, <3>5 DEF OrderCovered, WellDecided
    <2> QED
      BY <1>1, <2>3, <2>4 DEF Replay
  <1> QED
    BY <1>1, <1>2, <1>3, <1>4

(* No command runs at first. *)
LEMMA ReplayAtFirst == Init => Replay
  <1> SUFFICES ASSUME Init
               PROVE  Replay
    OBVIOUS
  <1>1. Frame
    BY FrameAtFirst
  <1>2. base = 0 /\ stable = 0 /\ lastAt = Never /\ fills = <<>> /\ resting = NoOrder
    BY DEF Init
  <1> QED
    BY <1>1, <1>2 DEF Replay, Account, OrderCovered, Never

----------------------------------------------------------------------------
(* 3. Where and when orders fill. *)

(* How the fills grow. *)
Booked == /\ ReplayBar /\ Filled
          /\ BooksFill(FillOf(resting, FillCandle))

(* The ledger starts over, stays as it is, or grows by one fill that is
   booked. *)
LEMMA FillsGrow ==
    ASSUME Replay, [Next]_vars
    PROVE  /\ UNCHANGED worldVars
           /\ \/ fills' = <<>> /\ StartsOver
              \/ LeavesReplay
              \/ ReplayBar /\ UNCHANGED <<base, stable, lastAt, fills>>
              \/ Booked
  <1>1. Frame' /\ UNCHANGED worldVars /\ (ReplayBar \/ StartsOver \/ LeavesReplay)
    BY FrameKept DEF Replay
  <1> QED
    BY <1>1, BarEffects DEF StartsOver, Fresh, Booked

(* One more fill at the end. *)
LEMMA OneMore ==
    ASSUME Replay, Booked
    PROVE  LET f == FillOf(resting, FillCandle)
           IN  /\ f \in FillRecords
               /\ fills \in Seq(FillRecords) /\ Len(fills) \in Nat
               /\ DOMAIN fills = 1..Len(fills)
               /\ DOMAIN fills' = 1..(Len(fills) + 1) /\ Len(fills') = Len(fills) + 1
               /\ \A i \in DOMAIN fills : fills'[i] = fills[i]
               /\ fills'[Len(fills) + 1] = f
  <1> DEFINE f == FillOf(resting, FillCandle)
  <1>1. f \in FillRecords
    BY BarEffects, FillSays DEF Booked
  <1>2. fills' = Append(fills, f) /\ fills \in Seq(FillRecords)
    BY DEF Booked, BooksFill, Replay, Account
  <1> HIDE DEF f
  <1>3. Len(fills) \in Nat /\ DOMAIN fills = 1..Len(fills)
    BY <1>2
  <1>4. /\ DOMAIN fills' = 1..(Len(fills) + 1) /\ Len(fills') = Len(fills) + 1
        /\ fills'[Len(fills) + 1] = f
    BY <1>1, <1>2
  <1>5. \A i \in DOMAIN fills : fills'[i] = fills[i]
    BY <1>1, <1>2
  <1> QED
    BY <1>1, <1>2, <1>3, <1>4, <1>5 DEF f

(* No order fills before the bar it was decided on has closed, whatever the
   series, the finer candles, the targets and the settings: the replay never
   trades on what it could not know ("an order never resolves on its own
   decision bar"). *)
THEOREM ReplayLooksBack == Spec => []NoLookAhead
  <1>1. Init => NoLookAhead
    BY DEF Init, NoLookAhead
  <1>2. Replay /\ NoLookAhead /\ [Next]_vars => NoLookAhead'
    <2> SUFFICES ASSUME Replay, NoLookAhead, [Next]_vars
                 PROVE  NoLookAhead'
      OBVIOUS
    <2>1. CASE fills' = <<>>
      BY <2>1 DEF NoLookAhead
    <2>2. CASE fills' = fills
      BY <2>2 DEF NoLookAhead
    <2>3. CASE Booked
      <3> DEFINE f == FillOf(resting, FillCandle)
      <3>1. /\ f.decided + BarLength <= Bar.open /\ Bar.open <= f.at /\ f \in FillRecords
        BY <2>3, BarEffects, FillSays DEF Booked
      <3>2. Bar.open \in Nat /\ BarLength \in Nat
        BY <2>3, BarEffects, BarTimes, BacktestAssumption DEF Booked, Replay
      <3>3. /\ DOMAIN fills = 1..Len(fills) /\ DOMAIN fills' = 1..(Len(fills) + 1)
            /\ Len(fills) \in Nat
            /\ \A i \in DOMAIN fills : fills'[i] = fills[i]
            /\ fills'[Len(fills) + 1] = f
        BY <2>3, OneMore
      <3>4. f.at >= f.decided + BarLength
        <4> HIDE DEF f
        <4>1. f.at \in Nat /\ f.decided \in Nat
          BY <3>1 DEF FillRecords
        <4> QED
          BY <3>1, <3>2, <4>1
      <3> HIDE DEF f
      <3>5. ASSUME NEW i \in DOMAIN fills'
            PROVE  fills'[i].at >= fills'[i].decided + BarLength
        <4>1. i \in DOMAIN fills \/ i = Len(fills) + 1
          BY <3>3
        <4> QED
          BY <3>3, <3>4, <4>1 DEF NoLookAhead
      <3> QED
        BY <3>5 DEF NoLookAhead
    <2> QED
      BY <2>1, <2>2, <2>3, FillsGrow DEF LeavesReplay
  <1> QED
    BY <1>1, <1>2, ReplayAtFirst, ReplayKept, PTL DEF Spec

(* The fills so far are over before the next bar is due. *)
FillsOver ==
    fills # <<>> => /\ next > 1
                    /\ \A i \in DOMAIN fills : fills[i].at < Bars[next - 1].open + BarLength

(* In a series without gaps the ledger is chronological and every order fills
   before the decision after it falls due. *)
THEOREM ReplayInOrder == Spec => []FillsInOrderUnlessGap
  <1> DEFINE Ordered == FillsInOrderUnlessGap /\ (Contiguous => FillsOver)
  <1>1. Init => Ordered
    BY DEF Init, FillsInOrderUnlessGap, FillsOver, InOrder
  <1>2. Replay /\ Ordered /\ [Next]_vars => Ordered'
    <2> SUFFICES ASSUME Replay, Ordered, [Next]_vars, Contiguous'
                 PROVE  /\ InOrder(fills')
                        /\ \A i \in DOMAIN fills' :
                              fills'[i].at < fills'[i].decided + 2 * BarLength
                        /\ FillsOver'
      BY DEF FillsInOrderUnlessGap
    <2>1. UNCHANGED <<series, interval>> /\ Contiguous
      BY FillsGrow DEF worldVars, Contiguous
    <2>2. /\ InOrder(fills)
          /\ \A i \in DOMAIN fills : fills[i].at < fills[i].decided + 2 * BarLength
          /\ FillsOver
      BY <2>1 DEF FillsInOrderUnlessGap
    <2>3. CASE fills' = <<>>
      BY <2>3 DEF InOrder, FillsOver
    <2>4. CASE LeavesReplay
      <3>1. UNCHANGED <<fills, next, request>> /\ Bars' = Bars
        BY <2>1, <2>4 DEF LeavesReplay, Bars, Clipped
      <3> QED
        BY <2>2, <3>1 DEF FillsOver
    <2>5. CASE ReplayBar
      <3>1. pc = "replay" /\ next <= Len(Bars) /\ next' = next + 1 /\ UNCHANGED request
        BY <2>5, BarEffects
      <3>2. next \in Nat \ {0} /\ Bars' = Bars
        BY <2>1, <3>1 DEF Replay, Frame, Bars, Clipped
      <3>3. /\ Bar.open \in Nat /\ BarLength \in Nat \ {0} /\ next' > 1
                /\ Bars'[next' - 1].open = Bar.open
        BY <3>1, <3>2, BarTimes, BacktestAssumption DEF Replay, Bar
      <3>4. fills \in Seq(FillRecords) /\ \A i \in DOMAIN fills : fills[i].at \in Nat
        <4>1. fills \in Seq(FillRecords)
          BY DEF Replay, Account
        <4>2. \A i \in DOMAIN fills : fills[i] \in FillRecords
          BY <4>1
        <4> QED
          BY <4>1, <4>2 DEF FillRecords
      <3>5. \A i \in DOMAIN fills : fills[i].at < Bar.open
        <4> SUFFICES ASSUME NEW i \in DOMAIN fills
                     PROVE  fills[i].at < Bar.open
          OBVIOUS
        <4>1. next > 1 /\ fills[i].at < Bars[next - 1].open + BarLength
          BY <2>2 DEF FillsOver
        <4>2. Bar.open >= Bars[next - 1].open + BarLength /\ Bars[next - 1].open \in Nat
          BY <3>1, <4>1, BarTimes DEF Replay
        <4> QED
          BY <3>3, <3>4, <4>1, <4>2
      <3>6. CASE fills' = fills
        <4>1. FillsOver'
          BY <3>3, <3>4, <3>5, <3>6 DEF FillsOver
        <4> QED
          BY <2>2, <3>6, <4>1
      <3>7. CASE Booked
        <4> DEFINE f == FillOf(resting, FillCandle)
        <4>1. /\ f \in FillRecords /\ Bar.open <= f.at /\ f.at < Bar.open + BarLength
              /\ Bar.open = f.decided + BarLength
          BY <2>1, <3>1, <3>7, FillSays DEF Booked
        <4>2. /\ DOMAIN fills = 1..Len(fills) /\ DOMAIN fills' = 1..(Len(fills) + 1)
              /\ Len(fills) \in Nat
              /\ \A i \in DOMAIN fills : fills'[i] = fills[i]
              /\ fills'[Len(fills) + 1] = f
          BY <3>7, OneMore
        <4> HIDE DEF f
        <4>3. f.at \in Nat /\ f.decided \in Nat
          BY <4>1 DEF FillRecords
        <4>4. \A i \in DOMAIN fills' : i \in DOMAIN fills \/ (i = Len(fills) + 1
                  /\ fills'[i] = f)
          BY <4>2
        <4>5. ASSUME NEW i \in DOMAIN fills', NEW j \in DOMAIN fills', i < j
              PROVE  fills'[i].at < fills'[j].at
          <5>1. i \in DOMAIN fills
            BY <4>2, <4>5
          <5>2. CASE j \in DOMAIN fills
            BY <2>2, <4>2, <4>5, <5>1, <5>2 DEF InOrder
          <5>3. CASE j = Len(fills) + 1
            BY <3>3, <3>4, <3>5, <4>1, <4>2, <4>3, <5>1, <5>3
          <5> QED
            BY <4>4, <5>2, <5>3
        <4>6. ASSUME NEW i \in DOMAIN fills'
              PROVE  fills'[i].at < fills'[i].decided + 2 * BarLength
          <5>1. f.at < f.decided + 2 * BarLength
            BY <3>3, <4>1, <4>3
          <5> QED
            BY <2>2, <4>2, <4>4, <5>1
        <4>7. ASSUME NEW i \in DOMAIN fills'
              PROVE  fills'[i].at < Bar.open + BarLength
          BY <3>3, <3>4, <3>5, <4>1, <4>2, <4>4
        <4>8. FillsOver'
          BY <3>3, <4>7 DEF FillsOver
        <4> QED
          BY <4>5, <4>6, <4>8 DEF InOrder
      <3> QED
        BY <2>5, <3>6, <3>7, BarEffects DEF Booked
    <2> QED
      BY <2>3, <2>4, <2>5, FillsGrow DEF Booked
  <1> QED
    BY <1>1, <1>2, ReplayAtFirst, ReplayKept, PTL DEF Spec

(* However the market moves, an order is decided on only when the fill before
   it is at least the minimum interval old. *)
THEOREM ReplayKeepsInterval == Spec => []FillsSpaced
  <1>1. Init => FillsSpaced
    BY DEF Init, FillsSpaced
  <1>2. Replay /\ FillsSpaced /\ [Next]_vars => FillsSpaced'
    <2> SUFFICES ASSUME Replay, FillsSpaced, [Next]_vars, interval' > 0,
                        NEW i \in 1..(Len(fills') - 1)
                 PROVE  fills'[i + 1].decided >= fills'[i].at + interval'
      BY DEF FillsSpaced
    <2>1. interval' = interval
      BY FillsGrow DEF worldVars
    <2>2. CASE fills' = <<>>
      BY <2>2
    <2>3. CASE fills' = fills
      BY <2>1, <2>3 DEF FillsSpaced
    <2>4. CASE Booked
      <3> DEFINE f == FillOf(resting, FillCandle)
      <3>1. interval > 0 /\ lastAt # Never => f.decided >= lastAt + interval
        BY <2>4, BarEffects, FillSays DEF Booked
      <3>2. /\ DOMAIN fills = 1..Len(fills) /\ Len(fills') = Len(fills) + 1
            /\ Len(fills) \in Nat /\ fills \in Seq(FillRecords)
            /\ \A k \in DOMAIN fills : fills'[k] = fills[k]
            /\ fills'[Len(fills) + 1] = f
        BY <2>4, OneMore
      <3> HIDE DEF f
      <3>3. CASE i < Len(fills)
        <4>1. i \in 1..(Len(fills) - 1) /\ i \in DOMAIN fills /\ i + 1 \in DOMAIN fills
          BY <3>2, <3>3
        <4>2. fills[i + 1].decided >= fills[i].at + interval
          BY <2>1, <4>1 DEF FillsSpaced
        <4>3. fills'[i] = fills[i] /\ fills'[i + 1] = fills[i + 1]
          BY <3>2, <4>1
        <4> QED
          BY <2>1, <4>2, <4>3
      <3>4. CASE i = Len(fills)
        <4>1. fills # <<>> /\ i \in DOMAIN fills
          BY <3>2, <3>4
        <4>2. lastAt = fills[i].at /\ fills[i] \in FillRecords
          BY <3>2, <3>4, <4>1 DEF Replay, Account
        <4>3. lastAt # Never
          BY <4>2 DEF FillRecords, Never
        <4> QED
          BY <2>1, <3>1, <3>2, <3>4, <4>1, <4>2, <4>3
      <3> QED
        BY <3>2, <3>3, <3>4
    <2> QED
      BY <2>2, <2>3, <2>4, FillsGrow DEF LeavesReplay
  <1> QED
    BY <1>1, <1>2, ReplayAtFirst, ReplayKept, PTL DEF Spec

----------------------------------------------------------------------------
(* 4. The virtual account. *)

(* The account never holds less than nothing of the base, and the stable coin
   falls below zero by no more than the fee of one buy, which the test of the
   free balance leaves out (_insufficient_balance, _apply_fill). *)
THEOREM ReplayShortByOneFee == Spec => []ShortOnlyByOneFee
  <1>1. Init => ShortOnlyByOneFee
    BY DEF Init, ShortOnlyByOneFee
  <1>2. Replay /\ ShortOnlyByOneFee /\ [Next]_vars => ShortOnlyByOneFee'
    <2> SUFFICES ASSUME Replay, ShortOnlyByOneFee, [Next]_vars
                 PROVE  ShortOnlyByOneFee'
      OBVIOUS
    <2>1. Replay' /\ Frame'
      BY ReplayKept DEF Replay
    <2>2. base' \in Nat /\ stable' \in Int
      BY <2>1 DEF Replay, Account
    <2>3. CASE StartsOver
      <3>1. stable' = Capital \/ stable' = 0
        BY <2>1, <2>3 DEF StartsOver, Frame
      <3> QED
        BY <2>2, <3>1, BacktestAssumption DEF ShortOnlyByOneFee
    <2>4. CASE UNCHANGED <<base, stable, fills>>
      BY <2>4 DEF ShortOnlyByOneFee
    <2>5. CASE Booked
      <3> DEFINE f == FillOf(resting, FillCandle)
      <3>1. /\ f \in FillRecords /\ f.fee <= resting.notional /\ f.side = resting.side
        BY <2>5, BarEffects, FillSays DEF Booked
      <3>2. /\ DOMAIN fills = 1..Len(fills) /\ DOMAIN fills' = 1..(Len(fills) + 1)
            /\ Len(fills) \in Nat
            /\ \A i \in DOMAIN fills : fills'[i] = fills[i]
            /\ fills'[Len(fills) + 1] = f
        BY <2>5, OneMore
      <3>3. WellDecided(resting, base, stable, Bars[next - 1].open, lastAt)
        BY <2>5 DEF Booked, Filled, Replay, OrderCovered
      <3>4. resting.notional \in Nat /\ stable \in Int
        BY <3>3, OrdersAreNumbers DEF WellDecided, Replay, Account
      <3>5. BooksFill(f)
        BY <2>5 DEF Booked
      <3> HIDE DEF f
      <3>6. f.fee \in Nat /\ f.side \in {"buy", "sell"}
        BY <3>1 DEF FillRecords
      <3>7. SUFFICES ASSUME stable' < 0
                     PROVE  \E i \in DOMAIN fills' : fills'[i].side = "buy"
                         /\ stable' + fills'[i].fee >= 0
        BY <2>2 DEF ShortOnlyByOneFee
      <3>8. CASE f.side = "buy"
        <4>1. resting.notional <= stable /\ stable' = stable - (resting.notional + f.fee)
          BY <3>1, <3>3, <3>5, <3>8 DEF WellDecided, BooksFill
        <4>2. stable' + f.fee >= 0
          BY <3>4, <3>6, <4>1
        <4>3. Len(fills) + 1 \in DOMAIN fills'
          BY <3>2
        <4> QED
          BY <3>2, <3>8, <4>2, <4>3
      <3>9. CASE f.side = "sell"
        <4>1. stable' = stable + (resting.notional - f.fee)
          BY <3>5, <3>9 DEF BooksFill
        <4>2. stable < 0 /\ stable <= stable'
          BY <3>1, <3>4, <3>6, <3>7, <4>1
        <4>3. PICK i \in DOMAIN fills : fills[i].side = "buy" /\ stable + fills[i].fee >= 0
          BY <4>2 DEF ShortOnlyByOneFee
        <4>4. i \in DOMAIN fills' /\ fills'[i] = fills[i] /\ fills[i] \in FillRecords
          BY <3>2, <2>5, OneMore
        <4>5. fills[i].fee \in Nat
          BY <4>4 DEF FillRecords
        <4>6. stable' + fills'[i].fee >= 0
          BY <2>2, <3>4, <4>2, <4>3, <4>4, <4>5
        <4> QED
          BY <4>3, <4>4, <4>6
      <3> QED
        BY <3>6, <3>8, <3>9
    <2> QED
      BY <2>3, <2>4, <2>5, FillsGrow DEF LeavesReplay
  <1> QED
    BY <1>1, <1>2, ReplayAtFirst, ReplayKept, PTL DEF Spec

----------------------------------------------------------------------------
(* 5. The report. *)

(* What an account of the performance manager is made of. *)
Accs == [position: Int, costBasis: Int, realized: Int, fees: Int, buyCost: Int]

(* g runs through the totals after each fill of L. *)
IsRun(g, L) == g = [i \in 0..Len(L) |-> IF i = 0 THEN C!NoAcc ELSE C!Applied(g[i - 1], L[i])]

(* walk_fills is the run that the definition chooses. *)
LEMMA AfterIsRun ==
    ASSUME NEW L
    PROVE  C!After(L) = CHOOSE g : IsRun(g, L)
  BY DEF C!After, IsRun

(* The recursion over a ledger is a function: there are totals after every
   fill. *)
LEMMA RunExists ==
    ASSUME NEW S, NEW L \in Seq(S)
    PROVE  IsRun(C!After(L), L)
  <1> DEFINE Upto(g, n) ==
                g = [i \in 0..n |-> IF i = 0 THEN C!NoAcc ELSE C!Applied(g[i - 1], L[i])]
             A == {n \in Nat : \E g : Upto(g, n)}
  <1>1. 0 \in A
    <2>1. Upto([i \in 0..0 |-> C!NoAcc], 0)
      OBVIOUS
    <2> QED
      BY <2>1
  <1>2. ASSUME NEW n \in Nat, n \in A
        PROVE  n + 1 \in A
    <2>1. PICK g : Upto(g, n)
      BY <1>2
    <2> DEFINE h == [i \in 0..(n + 1) |-> IF i = n + 1 THEN C!Applied(g[n], L[n + 1]) ELSE g[i]]
    <2>2. ASSUME NEW i \in 0..(n + 1)
          PROVE  h[i] = IF i = 0 THEN C!NoAcc ELSE C!Applied(h[i - 1], L[i])
      <3>1. CASE i = n + 1
        <4>1. h[i] = C!Applied(g[n], L[n + 1]) /\ i - 1 = n /\ i # 0 /\ n \in 0..(n + 1)
                  /\ n # n + 1
          BY <3>1
        <4>2. h[n] = g[n]
          BY <4>1
        <4> QED
          BY <3>1, <4>1, <4>2
      <3>2. CASE i # n + 1
        <4>1. i \in 0..n /\ h[i] = g[i]
          BY <3>2
        <4>2. g[i] = IF i = 0 THEN C!NoAcc ELSE C!Applied(g[i - 1], L[i])
          BY <2>1, <4>1
        <4>3. i # 0 => i - 1 \in 0..(n + 1) /\ i - 1 # n + 1
          BY <4>1
        <4>4. i # 0 => h[i - 1] = g[i - 1]
          BY <4>3
        <4> QED
          BY <4>1, <4>2, <4>4
      <3> QED
        BY <3>1, <3>2
    <2>3. h = [i \in 0..(n + 1) |-> h[i]]
      OBVIOUS
    <2> HIDE DEF h
    <2>4. Upto(h, n + 1)
      BY <2>2, <2>3
    <2> HIDE DEF Upto
    <2>5. \E q : Upto(q, n + 1)
      BY <2>4
    <2> QED
      BY <2>5
  <1>3. Nat \subseteq A
    <2> HIDE DEF A
    <2> QED
      BY <1>1, <1>2, NatSetInduction
  <1>4. \E g : IsRun(g, L)
    BY <1>3 DEF IsRun
  <1> QED
    BY <1>4, AfterIsRun

(* The totals before the first fill, and after each. *)
LEMMA RunSteps ==
    ASSUME NEW S, NEW L \in Seq(S)
    PROVE  /\ C!After(L)[0] = C!NoAcc
           /\ \A i \in 1..Len(L) : C!After(L)[i] = C!Applied(C!After(L)[i - 1], L[i])
  <1> DEFINE g == C!After(L)
  <1>1. g = [i \in 0..Len(L) |-> IF i = 0 THEN C!NoAcc ELSE C!Applied(g[i - 1], L[i])]
    BY RunExists DEF IsRun
  <1> HIDE DEF g
  <1>2. Len(L) \in Nat
    OBVIOUS
  <1>3. \A i \in 0..Len(L) : g[i] = IF i = 0 THEN C!NoAcc ELSE C!Applied(g[i - 1], L[i])
    BY <1>1
  <1>4. 0 \in 0..Len(L) /\ \A i \in 1..Len(L) : i \in 0..Len(L) /\ i # 0
    BY <1>2
  <1>5. g[0] = C!NoAcc
    BY <1>3, <1>4
  <1>6. \A i \in 1..Len(L) : g[i] = C!Applied(g[i - 1], L[i])
    BY <1>3, <1>4
  <1> QED
    BY <1>5, <1>6 DEF g

(* One more fill at the end of a ledger is one more step of the walk
   (walk_fills). *)
LEMMA WalkOneMore ==
    ASSUME NEW S, NEW L \in Seq(S), NEW f \in S
    PROVE  C!Walk(Append(L, f)) = C!Applied(C!Walk(L), f)
  <1> DEFINE M == Append(L, f)
             g == C!After(L)
             h == C!After(M)
             A == {n \in Nat : n <= Len(L) => h[n] = g[n]}
  <1>1. /\ M \in Seq(S) /\ Len(M) = Len(L) + 1 /\ Len(L) \in Nat /\ M[Len(L) + 1] = f
        /\ \A i \in 1..Len(L) : M[i] = L[i]
    OBVIOUS
  <1>2. g[0] = C!NoAcc /\ \A i \in 1..Len(L) : g[i] = C!Applied(g[i - 1], L[i])
    BY RunSteps
  <1> HIDE DEF M
  <1>3. h[0] = C!NoAcc /\ \A i \in 1..Len(M) : h[i] = C!Applied(h[i - 1], M[i])
    BY <1>1, RunSteps
  <1> HIDE DEF g, h
  <1>4. 0 \in A
    BY <1>2, <1>3
  <1>5. ASSUME NEW n \in Nat, n \in A
        PROVE  n + 1 \in A
    <2> SUFFICES ASSUME n + 1 <= Len(L)
                 PROVE  h[n + 1] = g[n + 1]
      OBVIOUS
    <2>1. n + 1 \in 1..Len(L) /\ n + 1 \in 1..Len(M) /\ (n + 1) - 1 = n /\ h[n] = g[n]
      BY <1>1, <1>5
    <2> QED
      BY <1>1, <1>2, <1>3, <2>1
  <1>6. Nat \subseteq A
    <2> HIDE DEF A
    <2> QED
      BY <1>4, <1>5, NatSetInduction
  <1>7. h[Len(L)] = g[Len(L)]
    BY <1>1, <1>6
  <1>8. Len(L) + 1 \in 1..Len(M) /\ (Len(L) + 1) - 1 = Len(L)
    BY <1>1
  <1>9. h[Len(M)] = C!Applied(g[Len(L)], f)
    BY <1>1, <1>3, <1>7, <1>8
  <1> QED
    BY <1>9 DEF C!Walk, M, g, h

(* The basis a sale takes out is a whole number. *)
LEMMA BasisIsNumber ==
    ASSUME NEW acc \in Accs, NEW f \in FillRecords
    PROVE  /\ C!BasisOut(acc, f) \in Int
           /\ acc.position > 0 /\ f.qty = acc.position => C!BasisOut(acc, f) = acc.costBasis
           /\ acc.position = 0 => C!BasisOut(acc, f) = 0
  <1>1. acc.position \in Int /\ acc.costBasis \in Int /\ f.qty \in Nat
    BY DEF Accs, FillRecords
  <1>2. \A x, y, z \in Int : z > 0 => (x * y) \div z \in Int
    OBVIOUS
  <1>3. \A x, z \in Int : z > 0 => (x * z) \div z = x
    OBVIOUS
  <1>4. CASE acc.position > 0
    BY <1>1, <1>2, <1>3, <1>4 DEF C!BasisOut
  <1>5. CASE ~(acc.position > 0)
    BY <1>1, <1>5 DEF C!BasisOut
  <1> QED
    BY <1>4, <1>5

(* _apply_buy and _apply_sell, spelled out. *)
LEMMA BuyApplied ==
    ASSUME NEW acc \in Accs, NEW f \in FillRecords, f.side = "buy"
    PROVE  LET new == C!Applied(acc, f)
           IN  /\ new \in Accs
               /\ new.position = acc.position + f.qty
               /\ new.costBasis = acc.costBasis + (f.qty * f.price + f.fee)
               /\ new.realized = acc.realized /\ new.fees = acc.fees + f.fee
  <1>1. C!FeeInQuote(f) = f.fee
    BY DEF C!FeeInQuote, FillRecords
  <1>2. f.qty \in Nat /\ f.price \in Nat /\ f.fee \in Nat /\ f.qty * f.price \in Nat
    BY DEF FillRecords
  <1>3. /\ acc.position \in Int /\ acc.costBasis \in Int /\ acc.realized \in Int
        /\ acc.fees \in Int /\ acc.buyCost \in Int
    BY DEF Accs
  <1>4. C!Applied(acc, f) =
           [position |-> acc.position + f.qty,
            costBasis |-> acc.costBasis + (f.qty * f.price + f.fee),
            realized |-> acc.realized, fees |-> acc.fees + f.fee,
            buyCost |-> acc.buyCost + (f.qty * f.price + f.fee)]
    BY <1>1 DEF C!Applied, C!Bought
  <1> QED
    BY <1>2, <1>3, <1>4 DEF Accs

(* A sale, of all there is or of a part. *)
LEMMA SaleApplied ==
    ASSUME NEW acc \in Accs, NEW f \in FillRecords, f.side = "sell"
    PROVE  LET new  == C!Applied(acc, f)
               flat == f.qty >= acc.position
           IN  /\ new \in Accs
               /\ new.position = IF flat THEN 0 ELSE acc.position - f.qty
               /\ new.costBasis = IF flat THEN 0 ELSE acc.costBasis - C!BasisOut(acc, f)
               /\ C!Gain(acc, f) = f.qty * f.price - f.fee - C!BasisOut(acc, f)
               /\ C!Gain(acc, f) \in Int
               /\ new.realized = acc.realized + C!Gain(acc, f)
               /\ new.fees = acc.fees + f.fee
  <1>1. C!FeeInQuote(f) = f.fee
    BY DEF C!FeeInQuote, FillRecords
  <1>2. f.qty \in Nat /\ f.price \in Nat /\ f.fee \in Nat /\ f.qty * f.price \in Nat
    BY DEF FillRecords
  <1>3. /\ acc.position \in Int /\ acc.costBasis \in Int /\ acc.realized \in Int
        /\ acc.fees \in Int /\ acc.buyCost \in Int
    BY DEF Accs
  <1>4. C!BasisOut(acc, f) \in Int
    BY BasisIsNumber
  <1>5. C!Gain(acc, f) = f.qty * f.price - f.fee - C!BasisOut(acc, f)
    BY <1>1 DEF C!Gain
  <1>6. C!Gain(acc, f) \in Int
    BY <1>2, <1>4, <1>5
  <1>7. C!Applied(acc, f) =
           [position |-> IF f.qty >= acc.position THEN 0 ELSE acc.position - f.qty,
            costBasis |-> IF f.qty >= acc.position THEN 0
                ELSE acc.costBasis - C!BasisOut(acc, f),
            realized |-> acc.realized + C!Gain(acc, f), fees |-> acc.fees + f.fee,
            buyCost |-> acc.buyCost]
    BY <1>1 DEF C!Applied, C!Sold
  <1> HIDE DEF FillRecords
  <1> QED
    BY <1>2, <1>3, <1>4, <1>5, <1>6, <1>7 DEF Accs

(* Fills keep the totals numbers. *)
LEMMA AppliedIsAcc ==
    ASSUME NEW acc \in Accs, NEW f \in FillRecords
    PROVE  C!Applied(acc, f) \in Accs
  <1>1. f.side \in {"buy", "sell"}
    BY DEF FillRecords
  <1> QED
    BY <1>1, BuyApplied, SaleApplied

(* All totals of a ledger are numbers. *)
LEMMA RunIsAccs ==
    ASSUME NEW L \in Seq(FillRecords)
    PROVE  /\ \A i \in 0..Len(L) : C!After(L)[i] \in Accs
           /\ C!Walk(L) \in Accs
  <1> DEFINE g == C!After(L)
             A == {n \in Nat : n <= Len(L) => g[n] \in Accs}
  <1>1. /\ g[0] = C!NoAcc /\ Len(L) \in Nat
        /\ \A i \in 1..Len(L) : g[i] = C!Applied(g[i - 1], L[i])
    BY RunSteps
  <1> HIDE DEF g
  <1>2. 0 \in A
    BY <1>1 DEF C!NoAcc, Accs
  <1>3. ASSUME NEW n \in Nat, n \in A
        PROVE  n + 1 \in A
    <2> SUFFICES ASSUME n + 1 <= Len(L)
                 PROVE  g[n + 1] \in Accs
      OBVIOUS
    <2>1. n + 1 \in 1..Len(L) /\ (n + 1) - 1 = n /\ g[n] \in Accs /\ L[n + 1] \in FillRecords
      BY <1>1, <1>3
    <2> QED
      BY <1>1, <2>1, AppliedIsAcc
  <1>4. Nat \subseteq A
    <2> HIDE DEF A
    <2> QED
      BY <1>2, <1>3, NatSetInduction
  <1>5. \A i \in 0..Len(L) : g[i] \in Accs
    BY <1>1, <1>4
  <1>6. Len(L) \in 0..Len(L)
    BY <1>1
  <1> QED
    BY <1>5, <1>6 DEF C!Walk, g

----------------------------------------------------------------------------
(* The ledger and the account agree. *)

(* The average-cost walk of the ledger L finds the position b, and its profit
   is what the stable coin has gained, less what the position cost. *)
Books(L, b, s) ==
    LET acc == C!Walk(L)
    IN  /\ acc.position = b
        /\ s - Capital = acc.realized - acc.costBasis
        /\ b = 0 => acc.costBasis = 0

(* An empty ledger agrees with the capital. *)
LEMMA BooksAtFirst == Books(<<>>, 0, Capital)
  <1>1. <<>> \in Seq(FillRecords) /\ Len(<<>>) = 0
    OBVIOUS
  <1>2. C!After(<<>>)[0] = C!NoAcc
    BY <1>1, RunSteps
  <1>3. C!Walk(<<>>) = C!NoAcc
    BY <1>1, <1>2 DEF C!Walk
  <1> QED
    BY <1>3, BacktestAssumption DEF Books, C!NoAcc

(* A fill moves the account of the replay and the accounting of its ledger
   alike; the basis of a position sold out is taken out to the last. *)
LEMMA BooksKept ==
    ASSUME NEW L \in Seq(FillRecords), NEW f \in FillRecords, NEW b \in Nat, NEW s \in Int,
           Books(L, b, s), f.side = "sell" => f.qty <= b, f.qty * f.price = 0 => f.fee = 0
    PROVE  LET value == f.qty * f.price
           IN  IF f.side = "buy"
               THEN Books(Append(L, f), b + f.qty, s - (value + f.fee))
               ELSE Books(Append(L, f), b - f.qty, s + (value - f.fee))
  <1> DEFINE acc == C!Walk(L)
             new == C!Walk(Append(L, f))
             value == f.qty * f.price
  <1>1. acc \in Accs /\ new = C!Applied(acc, f)
    BY RunIsAccs, WalkOneMore
  <1>2. acc.position = b /\ s - Capital = acc.realized - acc.costBasis /\ (b = 0
            => acc.costBasis = 0)
    BY DEF Books
  <1>3. f.qty \in Nat /\ f.fee \in Nat /\ f.price \in Nat /\ value \in Nat
            /\ f.side \in {"buy", "sell"}
    BY DEF FillRecords
  <1> HIDE DEF acc, new
  <1>4. acc.costBasis \in Int /\ acc.realized \in Int /\ Capital \in Int
    BY <1>1, BacktestAssumption DEF Accs
  <1>5. (s - (value + f.fee)) - Capital = acc.realized - (acc.costBasis + (value + f.fee))
    <2> DEFINE r == acc.realized
               c == acc.costBasis
               e == f.fee
    <2>1. /\ s - Capital = r - c /\ e \in Int /\ value \in Int
          /\ r \in Int /\ c \in Int /\ Capital \in Int
      BY <1>2, <1>3, <1>4
    <2> HIDE DEF r, c, e, value
    <2>2. (s - (value + e)) - Capital = r - (c + (value + e))
      BY <2>1
    <2> QED
      BY <2>2 DEF r, c, e
  <1>6. ASSUME NEW out \in Int
        PROVE  (s + (value - f.fee)) - Capital
                  = (acc.realized + (value - f.fee - out)) - (acc.costBasis - out)
    <2> DEFINE r == acc.realized
               c == acc.costBasis
               e == f.fee
    <2>1. /\ s - Capital = r - c /\ e \in Int /\ value \in Int
          /\ r \in Int /\ c \in Int /\ Capital \in Int
      BY <1>2, <1>3, <1>4
    <2> HIDE DEF r, c, e, value
    <2>2. (s + (value - e)) - Capital = (r + (value - e - out)) - (c - out)
      BY <2>1
    <2> QED
      BY <2>2 DEF r, c, e
  <1>7. CASE f.side = "buy"
    <2>1. /\ new.position = acc.position + f.qty
          /\ new.costBasis = acc.costBasis + (value + f.fee)
          /\ new.realized = acc.realized
      BY <1>1, <1>7, BuyApplied
    <2>2. f.qty = 0 => value = 0
      BY <1>3
    <2> HIDE DEF value
    <2>3. new.position = b + f.qty
      BY <1>2, <2>1
    <2>4. (s - (value + f.fee)) - Capital = new.realized - new.costBasis
      BY <1>5, <2>1
    <2>5. b + f.qty = 0 => new.costBasis = 0
      <3> SUFFICES ASSUME b + f.qty = 0
                   PROVE  new.costBasis = 0
        OBVIOUS
      <3>1. b = 0 /\ f.qty = 0
        BY <1>3
      <3>2. value = 0 /\ f.fee = 0 /\ acc.costBasis = 0
        BY <1>2, <2>2, <3>1 DEF value
      <3> QED
        BY <2>1, <3>2
    <2> QED
      BY <1>7, <2>3, <2>4, <2>5 DEF Books, new, value
  <1>8. CASE f.side = "sell"
    <2> DEFINE out == C!BasisOut(acc, f)
    <2>1. f.qty <= b
      BY <1>8
    <2>2. /\ new.position = IF f.qty >= b THEN 0 ELSE b - f.qty
          /\ new.costBasis = IF f.qty >= b THEN 0 ELSE acc.costBasis - out
          /\ new.realized = acc.realized + (value - f.fee - out)
      BY <1>1, <1>2, <1>8, SaleApplied
    <2>3. out \in Int /\ (f.qty = b => out = acc.costBasis)
      <3>1. out \in Int /\ (b > 0 /\ f.qty = b => out = acc.costBasis) /\ (b = 0 => out = 0)
        BY <1>1, <1>2, BasisIsNumber
      <3>2. b > 0 \/ b = 0
        OBVIOUS
      <3> QED
        BY <1>2, <3>1, <3>2
    <2> HIDE DEF value, out
    <2>4. (s + (value - f.fee)) - Capital
             = (acc.realized + (value - f.fee - out)) - (acc.costBasis - out)
      BY <1>6, <2>3
    <2>5. CASE f.qty = b
      <3>1. new.position = 0 /\ b - f.qty = 0 /\ new.costBasis = 0
        BY <1>3, <2>2, <2>5
      <3>2. (s + (value - f.fee)) - Capital = new.realized - new.costBasis
        <4>1. acc.costBasis - out = 0
          BY <1>4, <2>3, <2>5
        <4> QED
          BY <2>2, <2>4, <3>1, <4>1
      <3> QED
        BY <1>8, <3>1, <3>2 DEF Books, new, value
    <2>6. CASE f.qty # b
      <3>1. /\ new.position = b - f.qty /\ new.costBasis = acc.costBasis - out
            /\ b - f.qty # 0
        BY <1>3, <2>1, <2>2, <2>6
      <3>2. (s + (value - f.fee)) - Capital = new.realized - new.costBasis
        BY <2>2, <2>4, <3>1
      <3> QED
        BY <1>8, <3>1, <3>2 DEF Books, new, value
    <2> QED
      BY <2>5, <2>6
  <1> QED
    BY <1>3, <1>7, <1>8

(* The ledger of a running replay agrees with its account. *)
RunBooks == Running => Books(fills, base, stable)

(* Every step keeps ledger and account in agreement. *)
LEMMA RunBooksKept ==
    ASSUME Replay, RunBooks, [Next]_vars
    PROVE  RunBooks'
  <1>1. CASE fills' = <<>> /\ StartsOver
    BY <1>1, BooksAtFirst DEF StartsOver, Fresh, RunBooks
  <1>2. CASE LeavesReplay
    BY <1>2 DEF LeavesReplay, RunBooks
  <1>3. CASE ReplayBar /\ UNCHANGED <<base, stable, lastAt, fills>>
    BY <1>3, BarEffects DEF RunBooks, Running
  <1>4. CASE Booked
    <2> DEFINE f == FillOf(resting, FillCandle)
    <2>1. /\ pc = "replay" /\ next <= Len(Bars) /\ Filled /\ BooksFill(f)
      BY <1>4, BarEffects DEF Booked
    <2>2. /\ f \in FillRecords /\ f.side = resting.side /\ f.qty = resting.amount
          /\ f.price = resting.limit /\ f.fee = FeeOf(resting)
      BY <2>1, FillSays
    <2>3. WellDecided(resting, base, stable, Bars[next - 1].open, lastAt)
      BY <2>1 DEF Filled, Replay, OrderCovered
    <2>4. /\ resting.notional = f.qty * f.price
          /\ f.side = "sell" => f.qty <= base
          /\ resting.notional \in Nat
      BY <2>2, <2>3, OrdersAreNumbers DEF WellDecided, IsOrder
    <2>5. f.qty * f.price = 0 => f.fee = 0
      BY <2>2, <2>4, FeeIsPart
    <2> HIDE DEF f
    <2>6. base \in Nat /\ stable \in Int /\ fills \in Seq(FillRecords)
              /\ Books(fills, base, stable)
      BY <2>1 DEF Replay, Account, RunBooks, Running
    <2>7. f.side \in {"buy", "sell"}
      BY <2>2 DEF FillRecords
    <2>8. CASE f.side = "buy"
      <3>1. Books(Append(fills, f), base + f.qty, stable - (f.qty * f.price + f.fee))
        BY <2>2, <2>4, <2>5, <2>6, <2>8, BooksKept
      <3>2. /\ fills' = Append(fills, f) /\ base' = base + f.qty
            /\ stable' = stable - (f.qty * f.price + f.fee)
        BY <2>1, <2>4, <2>8 DEF BooksFill
      <3> QED
        BY <3>1, <3>2 DEF RunBooks
    <2>9. CASE f.side = "sell"
      <3>1. Books(Append(fills, f), base - f.qty, stable + (f.qty * f.price - f.fee))
        BY <2>2, <2>4, <2>5, <2>6, <2>9, BooksKept
      <3>2. /\ fills' = Append(fills, f) /\ base' = base - f.qty
            /\ stable' = stable + (f.qty * f.price - f.fee)
        BY <2>1, <2>4, <2>9 DEF BooksFill
      <3> QED
        BY <3>1, <3>2 DEF RunBooks
    <2> QED
      BY <2>7, <2>8, <2>9
  <1> QED
    BY <1>1, <1>2, <1>3, <1>4, FillsGrow

----------------------------------------------------------------------------
(* The run directories. *)

(* A directory written to the end: the ledger is that of the account it says
   it ended with. *)
Complete(d) ==
    /\ d.ledger \in Seq(FillRecords) /\ d.meta.fills = Len(d.ledger)
    /\ d.meta.finalBase \in Nat /\ d.meta.finalStable \in Int /\ d.meta.finalClose \in Nat
    /\ Books(d.ledger, d.meta.finalBase, d.meta.finalStable)

(* Every directory is complete but those a kill left half written and the
   one being written; there, what is written and what is left make up the
   fills. *)
Dirs ==
    /\ \A id \in DOMAIN runDirs \ torn : (pc = "write" /\ id = RunId) \/ Complete(runDirs[id])
    /\ pc = "write" => /\ RunId \in DOMAIN runDirs
                       /\ runDirs[RunId].ledger \in Seq(FillRecords)
                       /\ toWrite \in Seq(FillRecords)
                       /\ runDirs[RunId].ledger \o toWrite = fills

(* The inductive invariant of the command with its directories. *)
Reported == Replay /\ RunBooks /\ Dirs

(* Moving the first of what is left to the end of what is there changes
   nothing of the two together. *)
LEMMA MovedAcross ==
    ASSUME NEW S, NEW l \in Seq(S), NEW t \in Seq(S), t # <<>>
    PROVE  /\ Append(l, Head(t)) \in Seq(S) /\ Tail(t) \in Seq(S)
           /\ Append(l, Head(t)) \o Tail(t) = l \o t
  <1> DEFINE M == Append(l, Head(t)) \o Tail(t)
             N == l \o t
  <1>1. /\ Head(t) \in S /\ Tail(t) \in Seq(S) /\ Append(l, Head(t)) \in Seq(S)
        /\ Len(l) \in Nat /\ Len(t) \in Nat /\ Len(t) > 0 /\ Len(Tail(t)) = Len(t) - 1
        /\ Len(Append(l, Head(t))) = Len(l) + 1
    OBVIOUS
  <1>2. /\ M \in Seq(S) /\ N \in Seq(S)
        /\ Len(M) = Len(l) + Len(t) /\ Len(N) = Len(l) + Len(t)
    BY <1>1
  <1>3. ASSUME NEW i \in 1..Len(M)
        PROVE  M[i] = N[i]
    <2>1. CASE i <= Len(l)
      BY <1>1, <1>2, <2>1
    <2>2. CASE i = Len(l) + 1
      BY <1>1, <1>2, <2>2
    <2>3. CASE i > Len(l) + 1
      BY <1>1, <1>2, <2>3
    <2> QED
      BY <1>1, <1>2, <2>1, <2>2, <2>3
  <1>4. M = N
    <2> HIDE DEF M, N
    <2> QED
      BY <1>2, <1>3
  <1> QED
    BY <1>1, <1>4

(* There is no directory at first. *)
LEMMA DirsAtFirst == Init => Dirs
  BY DEF Init, Dirs

(* Every step keeps it: run.json comes last, and a kill before it marks the
   directory. *)
LEMMA DirsKept ==
    ASSUME Reported, [Next]_vars
    PROVE  Dirs'
  <1>1. Replay /\ Frame /\ RunBooks /\ Dirs
    BY DEF Reported, Replay
  <1>2. ASSUME UNCHANGED <<runDirs, torn>>, pc # "write", pc' # "write"
        PROVE  Dirs'
    BY <1>1, <1>2 DEF Dirs
  <1>3. CASE StartRun \/ RefuseRun \/ ReadCandles \/ ReplayBar
    BY <1>2, <1>3 DEF StartRun, RefuseRun, ReadCandles, ReplayBar, Finish, dirVars
  <1>4. CASE OpenRunDir
    <2>1. /\ pc = "replay" /\ pc' = "write" /\ toWrite' = fills
          /\ UNCHANGED <<request, fills, torn>> /\ PutDir(<<>>, MetaOf(RunId))
      BY <1>4 DEF OpenRunDir, EmptiedLedger, worldVars, replayVars
    <2>2. RunId' = RunId
      BY <2>1 DEF RunId
    <2>3. /\ DOMAIN runDirs' = DOMAIN runDirs \cup {RunId}
          /\ runDirs'[RunId].ledger = <<>>
          /\ \A id \in DOMAIN runDirs : id # RunId => runDirs'[id] = runDirs[id]
      BY <2>1 DEF PutDir
    <2>4. fills \in Seq(FillRecords) /\ <<>> \o fills = fills
      BY <1>1 DEF Replay, Account
    <2>5. ASSUME NEW id \in DOMAIN runDirs' \ torn', id # RunId
          PROVE  Complete(runDirs'[id])
      <3>1. id \in DOMAIN runDirs \ torn /\ runDirs'[id] = runDirs[id]
        BY <2>1, <2>3, <2>5
      <3> QED
        BY <1>1, <2>1, <3>1 DEF Dirs
    <2> QED
      BY <2>1, <2>2, <2>3, <2>4, <2>5 DEF Dirs
  <1>5. CASE WriteFill
    <2>1. /\ pc = "write" /\ pc' = "write" /\ toWrite # <<>> /\ toWrite' = Tail(toWrite)
          /\ UNCHANGED <<request, fills, torn>>
          /\ PutDir(Append(runDirs[RunId].ledger, Head(toWrite)), MetaOf(RunId))
      BY <1>5 DEF WriteFill, worldVars, replayVars
    <2>2. RunId' = RunId
      BY <2>1 DEF RunId
    <2>3. /\ DOMAIN runDirs' = DOMAIN runDirs \cup {RunId}
          /\ runDirs'[RunId].ledger = Append(runDirs[RunId].ledger, Head(toWrite))
          /\ \A id \in DOMAIN runDirs : id # RunId => runDirs'[id] = runDirs[id]
      BY <2>1 DEF PutDir
    <2>4. /\ runDirs[RunId].ledger \in Seq(FillRecords) /\ toWrite \in Seq(FillRecords)
          /\ runDirs[RunId].ledger \o toWrite = fills
      BY <1>1, <2>1 DEF Dirs
    <2>5. /\ runDirs'[RunId].ledger \in Seq(FillRecords) /\ toWrite' \in Seq(FillRecords)
          /\ runDirs'[RunId].ledger \o toWrite' = fills
      <3>1. PICK l, t : l = runDirs[RunId].ledger /\ t = toWrite
        OBVIOUS
      <3>2. l \in Seq(FillRecords) /\ t \in Seq(FillRecords) /\ t # <<>> /\ l \o t = fills
        BY <2>1, <2>4, <3>1
      <3>3. /\ Append(l, Head(t)) \in Seq(FillRecords) /\ Tail(t) \in Seq(FillRecords)
            /\ Append(l, Head(t)) \o Tail(t) = l \o t
        BY <3>2, MovedAcross
      <3>4. runDirs'[RunId].ledger = Append(l, Head(t)) /\ toWrite' = Tail(t)
        BY <2>1, <2>3, <3>1
      <3> QED
        BY <3>2, <3>3, <3>4
    <2>6. ASSUME NEW id \in DOMAIN runDirs' \ torn', id # RunId
          PROVE  Complete(runDirs'[id])
      <3>1. id \in DOMAIN runDirs \ torn /\ runDirs'[id] = runDirs[id]
        BY <2>1, <2>3, <2>6
      <3> QED
        BY <1>1, <3>1, <2>6 DEF Dirs
    <2> QED
      BY <2>1, <2>2, <2>3, <2>4, <2>5, <2>6 DEF Dirs
  <1>6. CASE WriteMeta
    <2> DEFINE meta == [bars |-> Len(Bars), fills |-> Len(fills), finalBase |-> base,
                        finalStable |-> stable, finalClose |-> Bars[Len(Bars)].close]
    <2>1. /\ pc = "write" /\ pc' = "idle" /\ toWrite = <<>> /\ torn' = torn \ {RunId}
          /\ PutDir(runDirs[RunId].ledger, meta)
      BY <1>6 DEF WriteMeta, Finish
    <2>2. /\ DOMAIN runDirs' = DOMAIN runDirs \cup {RunId}
          /\ runDirs'[RunId].ledger = runDirs[RunId].ledger /\ runDirs'[RunId].meta = meta
          /\ \A id \in DOMAIN runDirs : id # RunId => runDirs'[id] = runDirs[id]
      BY <2>1 DEF PutDir
    <2>3. runDirs[RunId].ledger = fills /\ fills \in Seq(FillRecords)
      BY <1>1, <2>1 DEF Dirs
    <2>4. base \in Nat /\ stable \in Int /\ Books(fills, base, stable)
      BY <1>1, <2>1 DEF Replay, Account, RunBooks, Running
    <2>5. Bars[Len(Bars)].close \in Nat
      <3>1. Bars \in Seq(Candles) /\ Bars # <<>>
        BY <1>1, <2>1, BarsInOrder DEF Running
      <3>2. Bars[Len(Bars)] \in Candles
        BY <3>1
      <3> QED
        BY <3>2 DEF Candles
    <2>6. Complete(runDirs'[RunId])
      BY <2>2, <2>3, <2>4, <2>5 DEF Complete
    <2>7. ASSUME NEW id \in DOMAIN runDirs' \ torn', id # RunId
          PROVE  Complete(runDirs'[id])
      <3>1. id \in DOMAIN runDirs \ torn /\ runDirs'[id] = runDirs[id]
        BY <2>1, <2>2, <2>7
      <3> QED
        BY <1>1, <3>1, <2>7 DEF Dirs
    <2> QED
      BY <2>1, <2>6, <2>7 DEF Dirs
  <1>7. CASE KillRun
    <2>1. pc' = "idle" /\ torn' = IF pc = "write" THEN torn \cup {RunId} ELSE torn
      BY <1>7 DEF KillRun, Finish
    <2>2. ASSUME NEW id \in DOMAIN runDirs' \ torn'
          PROVE  Complete(runDirs'[id])
      <3>1. CASE UNCHANGED runDirs
        BY <1>1, <2>1, <2>2, <3>1 DEF Dirs
      <3>2. CASE ~UNCHANGED runDirs
        <4>1. pc = "write" /\ \E ledger, meta : PutDir(ledger, meta)
          BY <1>7, <3>2 DEF KillRun
        <4>2. /\ DOMAIN runDirs' = DOMAIN runDirs \cup {RunId}
              /\ \A x \in DOMAIN runDirs : x # RunId => runDirs'[x] = runDirs[x]
          BY <4>1 DEF PutDir
        <4>3. id \in DOMAIN runDirs \ torn /\ id # RunId /\ runDirs'[id] = runDirs[id]
          BY <2>1, <2>2, <4>1, <4>2
        <4> QED
          BY <1>1, <4>3 DEF Dirs
      <3> QED
        BY <3>1, <3>2
    <2> QED
      BY <2>1, <2>2 DEF Dirs
  <1>8. CASE UNCHANGED vars
    <2>1. UNCHANGED <<request, pc, fills, toWrite, runDirs, torn>>
      BY <1>8 DEF vars, worldVars, replayVars, dirVars
    <2>2. RunId' = RunId
      BY <2>1 DEF RunId
    <2> QED
      BY <1>1, <2>1, <2>2 DEF Dirs
  <1> QED
    BY <1>3, <1>4, <1>5, <1>6, <1>7, <1>8 DEF Next

(* The trades' columns. *)
RealizedIn(trades) == [i \in DOMAIN trades |-> trades[i].realized]
FeesIn(trades) == [i \in DOMAIN trades |-> trades[i].fee]

(* What the trades of a ledger have realized and paid in fees sums to the
   totals of its walk (trades, walk_fills). *)
LEMMA TradesSum ==
    ASSUME NEW L \in Seq(FillRecords), NEW trades, trades = C!Trades(L)
    PROVE  /\ DOMAIN trades = 1..Len(L)
           /\ \A i \in DOMAIN trades : RealizedIn(trades)[i] \in Int
               /\ FeesIn(trades)[i] \in Int
           /\ SumFunctionOnSet(RealizedIn(trades), DOMAIN trades) = C!Walk(L).realized
           /\ SumFunctionOnSet(FeesIn(trades), DOMAIN trades) = C!Walk(L).fees
  <1> DEFINE realized == [i \in DOMAIN trades |-> trades[i].realized]
             fees == [i \in DOMAIN trades |-> trades[i].fee]
             g == C!After(L)
  <1>1. /\ DOMAIN L = 1..Len(L) /\ Len(L) \in Nat
        /\ g[0] = C!NoAcc /\ \A i \in 1..Len(L) : g[i] = C!Applied(g[i - 1], L[i])
        /\ \A i \in 0..Len(L) : g[i] \in Accs
    BY RunSteps, RunIsAccs
  <1>2. trades = [i \in DOMAIN L |->
            [at |-> L[i].at, fee |-> C!FeeInQuote(L[i]),
             realized |-> IF L[i].side = "buy" THEN 0 ELSE C!Gain(g[i - 1], L[i])]]
    BY DEF C!Trades
  <1> HIDE DEF g
  <1>3. DOMAIN trades = 1..Len(L)
    BY <1>1, <1>2
  <1>4. ASSUME NEW i \in 1..Len(L)
        PROVE  /\ realized[i] \in Int /\ fees[i] \in Int
               /\ g[i].realized = g[i - 1].realized + realized[i]
               /\ g[i].fees = g[i - 1].fees + fees[i]
    <2>1. L[i] \in FillRecords /\ g[i - 1] \in Accs /\ g[i] = C!Applied(g[i - 1], L[i])
      <3>1. i - 1 \in 0..Len(L) /\ i \in DOMAIN L
        BY <1>1
      <3>2. L[i] \in FillRecords
        BY <3>1, PlacesOf
      <3>3. g[i - 1] \in Accs /\ g[i] = C!Applied(g[i - 1], L[i])
        BY <1>1, <3>1
      <3> QED
        BY <3>2, <3>3
    <2>2. L[i].side \in {"buy", "sell"} /\ L[i].fee \in Int /\ C!FeeInQuote(L[i]) = L[i].fee
      <3>1. L[i].side \in {"buy", "sell"} /\ L[i].fee \in Int /\ L[i].feeIn = "quote"
        <4>1. PICK fill : fill = L[i]
          OBVIOUS
        <4>2. fill \in FillRecords
          BY <2>1, <4>1
        <4>3. fill.side \in {"buy", "sell"} /\ fill.fee \in Int /\ fill.feeIn = "quote"
          BY <4>2 DEF FillRecords
        <4> QED
          BY <4>1, <4>3
      <3> QED
        BY <3>1 DEF C!FeeInQuote
    <2>3. /\ fees[i] = L[i].fee
          /\ realized[i] = IF L[i].side = "buy" THEN 0 ELSE C!Gain(g[i - 1], L[i])
      BY <1>1, <1>2, <1>3, <2>2
    <2>4. g[i - 1].realized \in Int
      BY <2>1 DEF Accs
    <2> HIDE DEF realized, fees
    <2>5. CASE L[i].side = "buy"
      <3>1. g[i].realized = g[i - 1].realized /\ g[i].fees = g[i - 1].fees + L[i].fee
        BY <2>1, <2>5, BuyApplied
      <3> QED
        BY <2>2, <2>3, <2>4, <2>5, <3>1
    <2>6. CASE L[i].side = "sell"
      <3>1. /\ g[i].realized = g[i - 1].realized + C!Gain(g[i - 1], L[i])
            /\ C!Gain(g[i - 1], L[i]) \in Int /\ g[i].fees = g[i - 1].fees + L[i].fee
        BY <2>1, <2>6, SaleApplied
      <3> QED
        BY <2>2, <2>3, <2>6, <3>1
    <2> QED
      BY <2>2, <2>5, <2>6
  <1> DEFINE Summed(n) == /\ SumFunctionOnSet(realized, 1..n) = g[n].realized
                          /\ SumFunctionOnSet(fees, 1..n) = g[n].fees
             A == {n \in Nat : n <= Len(L) => Summed(n)}
  <1> HIDE DEF realized, fees
  <1>5. 0 \in A
    <2>1. 1..0 = {} /\ g[0].realized = 0 /\ g[0].fees = 0
      BY <1>1 DEF C!NoAcc
    <2>2. Summed(0)
      BY <2>1, SumOfNone
    <2> QED
      BY <2>2
  <1>6. ASSUME NEW n \in Nat, n \in A
        PROVE  n + 1 \in A
    <2> SUFFICES ASSUME n + 1 <= Len(L)
                 PROVE  Summed(n + 1)
      OBVIOUS
    <2> DEFINE T == 1..(n + 1)
    <2>1. /\ n + 1 \in 1..Len(L) /\ (n + 1) - 1 = n /\ Summed(n)
          /\ n + 1 \in T /\ T \ {n + 1} = 1..n /\ T \subseteq 1..Len(L) /\ T = 1..(n + 1)
      BY <1>1, <1>6
    <2>2. IsFiniteSet(T)
      BY FS_Interval
    <2> HIDE DEF T, Summed
    <2>3. \A f \in {realized, fees} : \A x \in T : f[x] \in Int
      BY <1>4, <2>1
    <2>4. ASSUME NEW f \in {realized, fees}
          PROVE  SumFunctionOnSet(f, T) = f[n + 1] + SumFunctionOnSet(f, 1..n)
      <3>1. n + 1 \in T /\ \A x \in T : f[x] \in Int
        BY <2>1, <2>3
      <3>2. SumFunctionOnSet(f, T) = f[n + 1] + SumFunctionOnSet(f, T \ {n + 1})
        BY <2>2, <3>1, SumWithout
      <3> QED
        BY <2>1, <3>2
    <2>5. /\ SumFunctionOnSet(realized, T) = realized[n + 1] + SumFunctionOnSet(realized, 1..n)
          /\ SumFunctionOnSet(fees, T) = fees[n + 1] + SumFunctionOnSet(fees, 1..n)
      BY <2>4
    <2>6. /\ g[n + 1].realized = g[n].realized + realized[n + 1]
          /\ g[n + 1].fees = g[n].fees + fees[n + 1]
          /\ realized[n + 1] \in Int /\ fees[n + 1] \in Int
      BY <1>4, <2>1
    <2>7. g[n].realized \in Int /\ g[n].fees \in Int
      <3>1. n \in 0..Len(L)
        BY <1>1, <2>1
      <3>2. g[n] \in Accs
        BY <1>1, <3>1
      <3> QED
        BY <3>2 DEF Accs
    <2> QED
      <3>1. SumFunctionOnSet(realized, 1..n) = g[n].realized
                /\ SumFunctionOnSet(fees, 1..n) = g[n].fees
        BY <2>1 DEF Summed
      <3>2. SumFunctionOnSet(realized, T) = g[n + 1].realized
                /\ SumFunctionOnSet(fees, T) = g[n + 1].fees
        BY <2>5, <2>6, <2>7, <3>1
      <3> QED
        BY <2>1, <3>2 DEF Summed
  <1>7. Nat \subseteq A
    <2> HIDE DEF A
    <2> QED
      BY <1>5, <1>6, NatSetInduction
  <1>8. Summed(Len(L))
    BY <1>1, <1>7
  <1>9. g[Len(L)] = C!Walk(L)
    BY DEF C!Walk, g
  <1>10. \A i \in DOMAIN trades : realized[i] \in Int /\ fees[i] \in Int
    BY <1>3, <1>4
  <1> QED
    BY <1>3, <1>8, <1>9, <1>10 DEF realized, fees, RealizedIn, FeesIn

(* The years y sum to the totals of acc. *)
YearsTotal(y, acc) ==
    /\ acc.realized = SumFunctionOnSet([k \in DOMAIN y |-> y[k].realized], DOMAIN y)
    /\ acc.fees = SumFunctionOnSet([k \in DOMAIN y |-> y[k].fees], DOMAIN y)

(* The years are classes of the trades, and their sums add up to the totals
   (_by_year). *)
LEMMA YearsAddUp ==
    ASSUME NEW id, runDirs[id].ledger \in Seq(FillRecords)
    PROVE  YearsTotal(ByYear(id), C!Walk(runDirs[id].ledger))
  <1> DEFINE L == runDirs[id].ledger
             y == ByYear(id)
             trades == C!Trades(L)
             S == DOMAIN trades
             year == [i \in S |-> trades[i].at \div YearLength]
             years == {year[i] : i \in S}
             inYear(k) == {i \in S : year[i] = k}
             sums(f) == [k \in years |-> SumFunctionOnSet(f, inYear(k))]
  <1>1. y = [k \in years |->
                [realized |-> SumFunctionOnSet(RealizedIn(trades), inYear(k)),
                 fees     |-> SumFunctionOnSet(FeesIn(trades), inYear(k)),
                 trades   |-> Cardinality(inYear(k))]]
    <2>1. /\ years = {trades[i].at \div YearLength : i \in S}
          /\ \A k : inYear(k) = {i \in S : trades[i].at \div YearLength = k}
      OBVIOUS
    <2> HIDE DEF year, years, inYear
    <2> QED
      BY <2>1 DEF ByYear, RealizedIn, FeesIn
  <1>2. /\ S = 1..Len(L)
        /\ \A i \in S : RealizedIn(trades)[i] \in Int /\ FeesIn(trades)[i] \in Int
        /\ SumFunctionOnSet(RealizedIn(trades), S) = C!Walk(L).realized
        /\ SumFunctionOnSet(FeesIn(trades), S) = C!Walk(L).fees
    <2>1. trades = C!Trades(L) /\ L \in Seq(FillRecords)
      OBVIOUS
    <2> HIDE DEF trades, L
    <2> QED
      BY <2>1, TradesSum
  <1>3. \A x \in S : year[x] \in years
    OBVIOUS
  <1> HIDE DEF trades, S
  <1>4. IsFiniteSet(S)
    <2>1. Len(L) \in Nat
      OBVIOUS
    <2> QED
      BY <1>2, <2>1, FS_Interval
  <1>5. IsFiniteSet(years)
    <2> HIDE DEF year
    <2> QED
      BY <1>4, ImageIsFinite
  <1> HIDE DEF year, years
  <1>6. ASSUME NEW f, \A x \in S : f[x] \in Int
        PROVE  SumFunctionOnSet(f, S) = SumFunctionOnSet(sums(f), years)
    BY <1>3, <1>4, <1>5, <1>6, SumByClass
  <1>7. /\ DOMAIN y = years
        /\ [k \in DOMAIN y |-> y[k].realized] = sums(RealizedIn(trades))
        /\ [k \in DOMAIN y |-> y[k].fees] = sums(FeesIn(trades))
    <2> HIDE DEF inYear
    <2> QED
      BY <1>1
  <1> HIDE DEF sums, inYear, y
  <1>8. /\ SumFunctionOnSet(RealizedIn(trades), S)
            = SumFunctionOnSet(sums(RealizedIn(trades)), years)
        /\ SumFunctionOnSet(FeesIn(trades), S) = SumFunctionOnSet(sums(FeesIn(trades)), years)
    BY <1>2, <1>6
  <1> QED
    BY <1>2, <1>7, <1>8 DEF YearsTotal, L, y

(* The report of every run that was written to the end adds up: the accounting
   of its ledger, which knows the fills only, finds the position and the profit
   of the account that was replayed, no fill is missing, and the years sum to
   the totals - whatever was killed before, and however often the same run was
   repeated. *)
THEOREM ReplayReportAddsUp == Spec => []ReportAddsUp
  <1>1. Init => Reported
    BY ReplayAtFirst, DirsAtFirst DEF Reported, RunBooks, Running, Init
  <1>2. Reported /\ [Next]_vars => Reported'
    BY ReplayKept, RunBooksKept, DirsKept DEF Reported
  <1>3. Reported => ReportAddsUp
    <2> SUFFICES ASSUME Reported, NEW id \in DOMAIN runDirs \ torn,
                        ~(pc = "write" /\ id = RunId)
                 PROVE  LET r == Report(id)
                            y == ByYear(id)
                        IN  /\ r.position = runDirs[id].meta.finalBase
                            /\ r.total = r.finalValue - Capital
                            /\ Len(runDirs[id].ledger) = runDirs[id].meta.fills
                            /\ r.realized
                                = SumFunctionOnSet([k \in DOMAIN y |-> y[k].realized], DOMAIN y)
                            /\ r.fees = SumFunctionOnSet([k \in DOMAIN y |-> y[k].fees], DOMAIN y)
      BY DEF ReportAddsUp
    <2> DEFINE meta == runDirs[id].meta
               L == runDirs[id].ledger
               acc == C!Walk(L)
               market == acc.position * 100 * meta.finalClose
               r == Report(id)
    <2>1. Complete(runDirs[id])
      BY DEF Reported, Dirs
    <2>2. /\ r.position = acc.position /\ r.realized = acc.realized /\ r.fees = acc.fees
          /\ r.total = acc.realized + market - acc.costBasis
          /\ r.finalValue = meta.finalBase * 100 * meta.finalClose + meta.finalStable
      BY DEF Report
    <2>3. /\ L \in Seq(FillRecords) /\ meta.fills = Len(L) /\ acc.position = meta.finalBase
          /\ meta.finalStable - Capital = acc.realized - acc.costBasis
          /\ meta.finalBase \in Nat /\ meta.finalStable \in Int /\ meta.finalClose \in Nat
      BY <2>1 DEF Complete, Books
    <2>4. acc \in Accs
      BY <2>3, RunIsAccs
    <2>5. acc.realized + market - acc.costBasis
             = (meta.finalBase * 100 * meta.finalClose + meta.finalStable) - Capital
      <3> DEFINE w == meta.finalBase * 100 * meta.finalClose
                 x == acc.realized
                 c == acc.costBasis
                 s == meta.finalStable
      <3>1. x \in Int /\ c \in Int /\ s \in Int /\ s - Capital = x - c
        BY <2>3, <2>4 DEF Accs
      <3>2. market = w /\ w \in Int
        <4>1. PICK b, p : b = meta.finalBase /\ p = meta.finalClose
          OBVIOUS
        <4>2. b \in Nat /\ p \in Nat
          BY <2>3, <4>1
        <4>3. b * 100 * p \in Int
          BY <4>2
        <4> QED
          BY <2>3, <4>1, <4>3
      <3>3. Capital \in Int
        BY BacktestAssumption
      <3> HIDE DEF w, x, c, s, market
      <3>4. x + market - c = (w + s) - Capital
        BY <3>1, <3>2, <3>3
      <3> QED
        BY <3>4 DEF w, x, c, s
    <2>6. YearsTotal(ByYear(id), acc)
      <3>1. runDirs[id].ledger \in Seq(FillRecords)
        BY <2>3
      <3> QED
        BY <3>1, YearsAddUp
    <2>7. r.position = meta.finalBase /\ r.total = r.finalValue - Capital /\ Len(L) = meta.fills
      <3> HIDE DEF acc, market, r, meta, L
      <3>1. r.position = meta.finalBase /\ Len(L) = meta.fills
        BY <2>2, <2>3
      <3> DEFINE gain == acc.realized + market - acc.costBasis
                 value == meta.finalBase * 100 * meta.finalClose + meta.finalStable
      <3>2. r.total = gain /\ r.finalValue = value /\ gain = value - Capital
        BY <2>2, <2>5
      <3> HIDE DEF gain, value
      <3> QED
        BY <3>1, <3>2
    <2> HIDE DEF acc, r
    <2> QED
      BY <2>2, <2>6, <2>7 DEF YearsTotal, r
  <1> QED
    BY <1>1, <1>2, <1>3, PTL DEF Spec

=============================================================================
