---------------------------- MODULE CandleProofs ----------------------------
(***************************************************************************)
(* Proofs about the candle store of the simulation, for any timeframes,    *)
(* whatever the venue published, answers and refuses, and for any number   *)
(* of kills.                                                               *)
(*                                                                         *)
(* 1. Series: lists of candles in order that leave none out.               *)
(* 2. Files: what an append, whole or cut off, makes of one.               *)
(* 3. The inductive invariant of the commands: StoredCandlesAreFinal,      *)
(*    ReadableUnlessKilled.                                                *)
(* 4. The manifest: ManifestTellsTheGaps.                                  *)
(* 5. The step simulation of CandleLog: KeepsTheCandleLog.                 *)
(***************************************************************************)
EXTENDS SimulationFetch, Lemmas

----------------------------------------------------------------------------
(* 1. Series. *)

(* A candle as it is read: when it opens, and whether it was closed then. *)
Candle == [open : Nat, final : BOOLEAN]

(* b comes after a, and no candle of tf between them. *)
Follows(tf, a, b) == a < b /\ \A t \in Published[tf] : ~(a < t /\ t < b)

(* A candle of tf that may be stored at time n; only a fetch that asks for
   candles of the future may store one that has not closed. *)
Kept(tf, c, n) ==
    /\ c \in Candle
    /\ c.open \in Published[tf]
    /\ MaxAhead = 0 => c.final /\ c.open + Interval[tf] <= n

(* s lists the candles of tf that open from lo on and before hi. *)
Covers(tf, s, lo, hi) ==
    /\ s \in Seq(Candle)
    /\ \A i, j \in 1..Len(s) : i < j => s[i].open < s[j].open
    /\ \A i \in 1..Len(s) : s[i].open \in Published[tf] /\ lo <= s[i].open /\ s[i].open < hi
    /\ \A t \in Published[tf] : lo <= t /\ t < hi => \E i \in 1..Len(s) : s[i].open = t

(* The fields of a candle; no candle is torn text. *)
LEMMA CandleFields ==
    ASSUME NEW c \in Candle
    PROVE  c.open \in Nat /\ c.final \in BOOLEAN /\ c # Torn
  <1>1. c.open \in Nat /\ c.final \in BOOLEAN
    BY DEF Candle
  <1>2. Torn.open = -1
    BY DEF Torn
  <1>3. -1 \notin Nat
    OBVIOUS
  <1> QED
    BY <1>1, <1>2, <1>3

(* What the constants are, for one timeframe. *)
LEMMA OfTimeframe ==
    ASSUME NEW tf \in Timeframes
    PROVE  /\ Interval[tf] \in Nat \ {0} /\ Interval[tf] \in Nat
           /\ Published[tf] \in SUBSET Nat
           /\ \A t \in Published[tf] : t \in Nat /\ t % Interval[tf] = 0
  <1>1. Interval \in [Timeframes -> Nat \ {0}] /\ Published \in [Timeframes -> SUBSET Nat]
        /\ \A t \in Published[tf] : t % Interval[tf] = 0
    BY FetchAssumption
  <1> QED
    BY <1>1

(* Two candles of tf lie an interval apart. *)
LEMMA OpensApart ==
    ASSUME NEW tf \in Timeframes, NEW a \in Published[tf], NEW b \in Published[tf], a < b
    PROVE  a + Interval[tf] <= b
  <1>1. Interval[tf] \in Nat \ {0} /\ a \in Int /\ b \in Int
        /\ a % Interval[tf] = 0 /\ b % Interval[tf] = 0
    BY OfTimeframe
  <1> QED
    BY <1>1, MultiplesApart

(* Neighbours in a list that leaves none out follow each other. *)
LEMMA CoveredFollow ==
    ASSUME NEW tf \in Timeframes, NEW s, NEW lo \in Nat, NEW hi \in Nat,
           Covers(tf, s, lo, hi), NEW i \in 1..(Len(s) - 1)
    PROVE  Follows(tf, s[i].open, s[i + 1].open)
  <1>1. /\ s \in Seq(Candle) /\ Len(s) \in Nat
        /\ \A j \in 1..Len(s) : s[j] \in Candle /\ s[j].open \in Nat
    <2>1. s \in Seq(Candle)
      BY DEF Covers
    <2>2. \A j \in 1..Len(s) : s[j] \in Candle
      BY <2>1
    <2> QED
      BY <2>1, <2>2, CandleFields
  <1>2. \A k, j \in 1..Len(s) : k < j => s[k].open < s[j].open
    BY DEF Covers
  <1>3. i \in 1..Len(s) /\ i + 1 \in 1..Len(s) /\ i < i + 1
    BY <1>1
  <1>4. lo <= s[i].open /\ s[i + 1].open < hi
    BY <1>3 DEF Covers
  <1>5. ASSUME NEW t \in Published[tf], s[i].open < t, t < s[i + 1].open
        PROVE  FALSE
    <2>1. t \in Nat
      BY OfTimeframe
    <2>2. lo <= t /\ t < hi
      BY <1>1, <1>3, <1>4, <1>5, <2>1
    <2>3. PICK k \in 1..Len(s) : s[k].open = t
      BY <2>2 DEF Covers
    <2>4. ~(k < i) /\ k # i /\ ~(i + 1 < k) /\ k # i + 1
      <3>1. s[i].open \in Nat /\ s[i + 1].open \in Nat
        BY <1>1
      <3>2. k < i => t < s[i].open
        BY <1>2, <1>3, <2>3
      <3>3. i + 1 < k => s[i + 1].open < t
        BY <1>2, <1>3, <2>3
      <3> QED
        BY <1>5, <2>1, <2>3, <3>1, <3>2, <3>3
    <2> QED
      BY <1>3, <2>4
  <1> QED
    BY <1>2, <1>3, <1>5 DEF Follows

(* So do the candle before lo, if lo is where the next may open, and the first
   of the list. *)
LEMMA FirstFollows ==
    ASSUME NEW tf \in Timeframes, NEW s, NEW lo \in Nat, NEW hi \in Nat,
           Covers(tf, s, lo, hi), Len(s) > 0,
           NEW a \in Published[tf], lo = a + Interval[tf]
    PROVE  Follows(tf, a, s[1].open)
  <1>1. /\ s \in Seq(Candle) /\ Len(s) \in Nat
        /\ \A j \in 1..Len(s) : s[j] \in Candle /\ s[j].open \in Nat
    <2>1. s \in Seq(Candle)
      BY DEF Covers
    <2>2. \A j \in 1..Len(s) : s[j] \in Candle
      BY <2>1
    <2> QED
      BY <2>1, <2>2, CandleFields
  <1>2. Interval[tf] \in Nat \ {0} /\ a \in Nat
    BY OfTimeframe
  <1>3. 1 \in 1..Len(s)
    BY <1>1
  <1>4. lo <= s[1].open /\ s[1].open < hi
    BY <1>3 DEF Covers
  <1>5. a < s[1].open
    BY <1>1, <1>2, <1>3, <1>4
  <1>6. ASSUME NEW t \in Published[tf], a < t, t < s[1].open
        PROVE  FALSE
    <2>1. t \in Nat /\ lo <= t
      BY <1>6, OfTimeframe, OpensApart
    <2>2. lo <= t /\ t < hi
      BY <1>1, <1>3, <1>4, <1>6, <2>1
    <2>3. PICK k \in 1..Len(s) : s[k].open = t
      BY <2>2 DEF Covers
    <2>4. k # 1 /\ ~(1 < k)
      BY <1>1, <1>3, <1>6, <2>3 DEF Covers
    <2> QED
      BY <2>4
  <1> QED
    BY <1>5, <1>6 DEF Follows

(* A list that covers a range, and those of another list that open in the
   range after it, cover both ranges. *)
LEMMA CoversJoin ==
    ASSUME NEW tf \in Timeframes, NEW s, NEW p,
           NEW lo \in Nat, NEW mid \in Nat, NEW hi \in Nat, NEW from \in Nat, NEW to \in Nat,
           Covers(tf, s, lo, mid), Covers(tf, p, from, to),
           lo <= mid, mid <= hi,
           \A t \in Published[tf] : mid <= t /\ t < hi => from <= t /\ t < to,
           NEW I \in SUBSET DOMAIN p,
           \A i \in DOMAIN p : i \in I <=> mid <= p[i].open /\ p[i].open < hi
    PROVE  Covers(tf, s \o Picked(p, I), lo, hi)
  <1> DEFINE q == Picked(p, I)
             at == Ascending(I)
             n == Len(s)
             m == Cardinality(I)
  <1>1. /\ s \in Seq(Candle) /\ p \in Seq(Candle)
        /\ n \in Nat /\ Len(p) \in Nat /\ DOMAIN p = 1..Len(p)
    BY DEF Covers
  <1>2. /\ \A i \in 1..n : s[i] \in Candle /\ s[i].open \in Nat
        /\ \A i \in 1..Len(p) : p[i] \in Candle /\ p[i].open \in Nat
    <2>1. (\A i \in 1..n : s[i] \in Candle) /\ (\A i \in 1..Len(p) : p[i] \in Candle)
      BY <1>1
    <2> QED
      BY <2>1, CandleFields
  <1>3. /\ q \in Seq(Candle) /\ Len(q) = m /\ m \in Nat
        /\ at \in [1..m -> I]
        /\ \A k \in 1..m : q[k] = p[at[k]]
        /\ \A k, l \in 1..m : k < l => at[k] < at[l]
        /\ \A i \in I : \E k \in 1..m : at[k] = i
    BY <1>1, PickedLists
  <1> DEFINE r == s \o q
  <1> HIDE DEF q, at, m, n
  <1>4. /\ r \in Seq(Candle) /\ Len(r) = n + m
        /\ \A i \in 1..n : r[i] = s[i]
        /\ \A k \in 1..m : r[n + k] = q[k]
    <2>1. s \in Seq(Candle) /\ q \in Seq(Candle) /\ Len(s) = n /\ Len(q) = m
          /\ n \in Nat /\ m \in Nat
      BY <1>1, <1>3 DEF n
    <2>2. r \in Seq(Candle) /\ Len(r) = n + m
      BY <2>1
    <2>3. \A i \in 1..n : r[i] = s[i]
      BY <2>1
    <2>4. \A k \in 1..m : r[n + k] = q[k]
      BY <2>1
    <2> QED
      BY <2>2, <2>3, <2>4
  <1>5. /\ \A i, j \in 1..n : i < j => s[i].open < s[j].open
        /\ \A i \in 1..n : s[i].open \in Published[tf] /\ lo <= s[i].open /\ s[i].open < mid
        /\ \A t \in Published[tf] : lo <= t /\ t < mid => \E i \in 1..n : s[i].open = t
    BY DEF Covers, n
  <1>6. /\ \A i, j \in 1..Len(p) : i < j => p[i].open < p[j].open
        /\ \A i \in 1..Len(p) : p[i].open \in Published[tf]
        /\ \A t \in Published[tf] : from <= t /\ t < to => \E i \in 1..Len(p) : p[i].open = t
    BY DEF Covers
  <1>7. \A k \in 1..m : /\ at[k] \in I /\ at[k] \in 1..Len(p) /\ r[n + k] = p[at[k]]
                        /\ mid <= p[at[k]].open /\ p[at[k]].open < hi
    BY <1>1, <1>3, <1>4
  <1> HIDE DEF r
  <1>8. ASSUME NEW i \in 1..Len(r)
        PROVE  \/ i \in 1..n
               \/ i - n \in 1..m /\ i = n + (i - n)
    BY <1>1, <1>3, <1>4, <1>8
  <1>9. ASSUME NEW i \in 1..Len(r)
        PROVE  r[i].open \in Published[tf] /\ lo <= r[i].open /\ r[i].open < hi
    <2>1. CASE i \in 1..n
      BY <1>2, <1>4, <1>5, <2>1
    <2>2. CASE i - n \in 1..m
      <3> DEFINE k == i - n
      <3>1. k \in 1..m /\ r[i] = r[n + k]
        BY <1>1, <2>2
      <3> HIDE DEF k
      <3>2. at[k] \in 1..Len(p) /\ r[i] = p[at[k]] /\ mid <= p[at[k]].open /\ p[at[k]].open < hi
        BY <1>7, <3>1
      <3> QED
        BY <1>2, <1>6, <3>2
    <2> QED
      BY <1>8, <2>1, <2>2
  <1>10. ASSUME NEW i \in 1..Len(r), NEW j \in 1..Len(r), i < j
         PROVE  r[i].open < r[j].open
    <2>1. CASE i \in 1..n /\ j \in 1..n
      BY <1>4, <1>5, <1>10, <2>1
    <2>2. CASE i \in 1..n /\ j - n \in 1..m
      <3> DEFINE k == j - n
      <3>1. k \in 1..m /\ r[j] = r[n + k]
        BY <1>1, <2>2
      <3> HIDE DEF k
      <3>2. at[k] \in 1..Len(p) /\ r[j] = p[at[k]] /\ mid <= p[at[k]].open
        BY <1>7, <3>1
      <3>3. r[i] = s[i] /\ s[i].open < mid /\ s[i].open \in Nat /\ p[at[k]].open \in Nat
        BY <1>2, <1>4, <1>5, <2>2, <3>2
      <3>4. s[i].open < p[at[k]].open
        <4> DEFINE a == s[i].open
                   b == p[at[k]].open
        <4>1. a \in Nat /\ b \in Nat /\ a < mid /\ mid <= b
          BY <3>2, <3>3
        <4> HIDE DEF a, b
        <4>2. a < b
          BY <4>1
        <4> QED
          BY <4>2 DEF a, b
      <3> QED
        BY <3>2, <3>3, <3>4
    <2>3. CASE i - n \in 1..m /\ j - n \in 1..m
      <3> DEFINE k == i - n
                 l == j - n
      <3>1. k \in 1..m /\ r[i] = r[n + k] /\ l \in 1..m /\ r[j] = r[n + l] /\ k < l
        <4>1. n \in Nat /\ i \in Int /\ j \in Int
          <5>1. n + m \in Int
            BY <1>1, <1>3
          <5>2. i \in 1..(n + m) /\ j \in 1..(n + m)
            BY <1>4
          <5> QED
            BY <1>1, <5>1, <5>2
        <4>2. n + k = i /\ n + l = j /\ k < l
          BY <1>10, <4>1
        <4> QED
          BY <2>3, <4>2
      <3> HIDE DEF k, l
      <3>2. at[k] \in 1..Len(p) /\ r[i] = p[at[k]] /\ at[l] \in 1..Len(p) /\ r[j] = p[at[l]]
            /\ at[k] < at[l]
        BY <1>3, <1>7, <3>1
      <3> QED
        BY <1>6, <3>2
    <2>4. CASE i - n \in 1..m /\ j \in 1..n
      BY <1>1, <1>3, <1>10, <2>4
    <2> QED
      BY <1>8, <2>1, <2>2, <2>3, <2>4
  <1>11. ASSUME NEW t \in Published[tf], lo <= t, t < hi
         PROVE  \E i \in 1..Len(r) : r[i].open = t
    <2>1. t \in Nat
      BY OfTimeframe
    <2>2. CASE t < mid
      <3>1. PICK i \in 1..n : s[i].open = t
        BY <1>5, <1>11, <2>2
      <3>2. i \in 1..Len(r) /\ r[i] = s[i]
        BY <1>1, <1>3, <1>4
      <3> QED
        BY <3>1, <3>2
    <2>3. CASE mid <= t
      <3>1. PICK i \in 1..Len(p) : p[i].open = t
        BY <1>6, <1>11, <2>3
      <3>2. i \in I
        BY <1>1, <1>11, <2>3, <3>1
      <3>3. PICK k \in 1..m : at[k] = i
        BY <1>3, <3>2
      <3>4. n + k \in 1..Len(r) /\ r[n + k] = p[i]
        BY <1>1, <1>3, <1>4, <1>7, <3>3
      <3> QED
        BY <3>1, <3>4
    <2> QED
      BY <2>1, <2>2, <2>3
  <1>12. Covers(tf, r, lo, hi)
    BY <1>4, <1>9, <1>10, <1>11 DEF Covers
  <1> QED
    BY <1>12 DEF r, q

(* Taking all of a list changes nothing of what it covers. *)
LEMMA CoversAll ==
    ASSUME NEW tf \in Timeframes, NEW s, NEW lo \in Nat, NEW hi \in Nat, lo <= hi,
           Covers(tf, s, lo, hi), NEW I, I = DOMAIN s
    PROVE  Covers(tf, Picked(s, I), lo, hi)
  <1>1. s \in Seq(Candle) /\ DOMAIN s = 1..Len(s)
    BY DEF Covers
  <1>2. \A i \in DOMAIN s : lo <= s[i].open /\ s[i].open < hi
    BY <1>1 DEF Covers
  <1>3. Covers(tf, <<>>, lo, lo)
    <2>1. <<>> \in Seq(Candle) /\ Len(<<>>) = 0 /\ 1..0 = {}
      OBVIOUS
    <2>2. \A t \in Published[tf] : ~(lo <= t /\ t < lo)
      BY OfTimeframe
    <2> QED
      BY <2>1, <2>2 DEF Covers
  <1>4. Covers(tf, <<>> \o Picked(s, I), lo, hi)
    <2>1. lo <= lo /\ I \in SUBSET DOMAIN s
          /\ \A i \in DOMAIN s : i \in I <=> lo <= s[i].open /\ s[i].open < hi
      BY <1>2
    <2>2. \A t \in Published[tf] : lo <= t /\ t < hi => lo <= t /\ t < hi
      OBVIOUS
    <2> QED
      BY <1>3, <2>1, <2>2, CoversJoin
  <1>5. <<>> \o Picked(s, I) = Picked(s, I)
    <2> DEFINE q == Picked(s, I)
    <2>1. q \in Seq(Candle)
      BY <1>1, PickedLists
    <2> HIDE DEF q
    <2>2. <<>> \o q = q
      BY <2>1
    <2> QED
      BY <2>2 DEF q
  <1> QED
    BY <1>4, <1>5

(* A page lists candles from the one asked for on, leaving none out, as they
   are now. *)
LEMMA AnswerCovers ==
    ASSUME NEW tf \in Timeframes, NEW from \in Nat, now \in Nat, source \in Sources,
           NEW page, page = Answer(tf, from), page # <<>>
    PROVE  /\ page \in Seq(Candle) /\ Len(page) > 0
           /\ Last(page).open \in Published[tf] /\ from <= Last(page).open
           /\ Covers(tf, page, from, Last(page).open + 1)
           /\ \A i \in DOMAIN page : page[i].final = (page[i].open + Interval[tf] <= now)
  <1> DEFINE opens == {t \in Published[tf] : t >= from /\ t <= now}
             all   == Ascending(opens)
             k     == Min({Len(all), source[tf].cap, PageLimit})
             short == SubSeq(all, 1, k)
  <1>1. opens \in SUBSET Int /\ IsFiniteSet(opens)
    <2>1. opens \in SUBSET (0..now)
      BY OfTimeframe
    <2>2. IsFiniteSet(0..now)
      BY FS_Interval
    <2>3. 0..now \subseteq Int
      OBVIOUS
    <2> HIDE DEF opens
    <2> QED
      BY <2>1, <2>2, <2>3, FS_Subset
  <1>2. page = [i \in DOMAIN short |->
                    [open |-> short[i], final |-> short[i] + Interval[tf] <= now]]
    BY DEF Answer
  <1>3. /\ Cardinality(opens) \in Nat /\ all \in Seq(opens) /\ Len(all) = Cardinality(opens)
        /\ \A i, j \in 1..Cardinality(opens) : i < j => all[i] < all[j]
        /\ \A t \in opens : \E i \in 1..Cardinality(opens) : all[i] = t
    <2> HIDE DEF opens
    <2> QED
      BY <1>1, AscendingLists
  <1>4. \A t \in opens : t \in Published[tf] /\ from <= t /\ t <= now /\ t \in Nat
    BY OfTimeframe
  <1>5. \A t \in Published[tf] : from <= t /\ t <= now => t \in opens
    BY OfTimeframe
  <1> HIDE DEF opens, all
  <1>6. k \in Nat /\ k <= Len(all)
    <2>1. source[tf].cap \in Nat \ {0} /\ PageLimit \in Nat \ {0}
      <3>1. source \in [Timeframes -> [cap : Nat \ {0}, ignoresSince : BOOLEAN]]
        BY FetchAssumption
      <3>2. source[tf] \in [cap : Nat \ {0}, ignoresSince : BOOLEAN]
        BY <3>1
      <3> QED
        BY <3>2, FetchAssumption
    <2> DEFINE C == {Len(all), source[tf].cap, PageLimit}
    <2>2. Len(all) \in Nat
      BY <1>3
    <2>3. \E x \in C : \A y \in C : x <= y
      BY <2>1, <2>2
    <2>4. k \in C /\ \A y \in C : k <= y
      BY <2>3 DEF Min
    <2> QED
      BY <2>1, <2>2, <2>4
  <1> HIDE DEF k
  <1>7. /\ short \in Seq(opens) /\ Len(short) = k /\ DOMAIN short = 1..k
        /\ \A i \in 1..k : short[i] = all[i] /\ all[i] \in opens
    <2>1. 1..k \subseteq 1..Len(all)
      BY <1>3, <1>6
    <2>2. short = [i \in 1..k |-> all[i]]
      BY <1>3, <1>6
    <2>3. \A i \in 1..k : all[i] \in opens
      BY <1>3, <2>1
    <2>4. short \in [1..k -> opens]
      BY <2>2, <2>3
    <2> HIDE DEF short
    <2>5. short \in Seq(opens) /\ Len(short) = k /\ DOMAIN short = 1..k
      BY <1>6, <2>4
    <2> QED
      BY <2>2, <2>3, <2>5
  <1> HIDE DEF short
  <1>8. \A i \in 1..k : /\ page[i].open = all[i]
                        /\ page[i].final = (all[i] + Interval[tf] <= now)
                        /\ page[i] \in Candle
    <2> SUFFICES ASSUME NEW i \in 1..k
                 PROVE  /\ page[i].open = all[i]
                        /\ page[i].final = (all[i] + Interval[tf] <= now)
                        /\ page[i] \in Candle
      OBVIOUS
    <2>1. page[i] = [open |-> all[i], final |-> all[i] + Interval[tf] <= now]
      BY <1>2, <1>7
    <2>2. all[i] \in Nat
      BY <1>4, <1>7
    <2> DEFINE b == all[i] + Interval[tf] <= now
    <2>3. b \in BOOLEAN
      BY <2>2, OfTimeframe
    <2>4. page[i] = [open |-> all[i], final |-> b]
      BY <2>1, Zenon
    <2> HIDE DEF b
    <2>5. page[i] \in Candle /\ page[i].open = all[i] /\ page[i].final = b
      BY <2>2, <2>3, <2>4 DEF Candle
    <2> QED
      BY <2>5, Zenon DEF b
  <1>9. page \in Seq(Candle) /\ Len(page) = k /\ DOMAIN page = 1..k
    <2>1. page = [i \in 1..k |-> page[i]]
      BY <1>2, <1>7
    <2>2. page \in [1..k -> Candle]
      BY <1>8, <2>1
    <2> QED
      BY <1>6, <2>2
  <1>10. k > 0 /\ k \in 1..k
    <2>1. k # 0
      BY <1>9
    <2> QED
      BY <1>6, <2>1
  <1>11. Last(page) = page[k]
    BY <1>9 DEF Last
  <1> DEFINE last == all[k]
  <1>12. last \in opens /\ Last(page).open = last
    BY <1>7, <1>8, <1>10, <1>11
  <1>13. last \in Nat /\ last <= now /\ from <= last /\ last \in Published[tf]
    BY <1>4, <1>12
  <1>14. \A i, j \in 1..k : i < j => page[i].open < page[j].open
    <2>1. \A i \in 1..k : i \in 1..Cardinality(opens)
      BY <1>3, <1>6
    <2> QED
      BY <1>3, <1>8, <2>1
  <1>15. \A i \in 1..k : /\ page[i].open \in Published[tf]
                         /\ from <= page[i].open /\ page[i].open < last + 1
    <2> SUFFICES ASSUME NEW i \in 1..k
                 PROVE  /\ all[i] \in Published[tf] /\ from <= all[i] /\ all[i] < last + 1
      BY <1>8
    <2>1. all[i] \in Published[tf] /\ from <= all[i] /\ all[i] \in Nat
      BY <1>4, <1>7
    <2>2. i = k \/ i < k
      BY <1>6
    <2>3. i \in 1..Cardinality(opens) /\ k \in 1..Cardinality(opens)
      BY <1>3, <1>6, <1>10
    <2>4. all[i] = last \/ all[i] < last
      BY <1>3, <2>2, <2>3
    <2> HIDE DEF last
    <2> QED
      BY <1>13, <2>1, <2>4
  <1>16. ASSUME NEW t \in Published[tf], from <= t, t < last + 1
         PROVE  \E i \in 1..k : page[i].open = t
    <2>1. t \in Nat
      BY OfTimeframe
    <2>2. t <= last /\ t <= now
      <3> HIDE DEF last
      <3> QED
        BY <1>13, <1>16, <2>1
    <2>3. PICK i \in 1..Cardinality(opens) : all[i] = t
      BY <1>3, <1>5, <1>16, <2>2
    <2>4. ~(k < i)
      <3>1. k \in 1..Cardinality(opens)
        BY <1>3, <1>6, <1>10
      <3>2. k < i => last < t
        BY <1>3, <2>3, <3>1
      <3> HIDE DEF last
      <3> QED
        BY <1>13, <2>1, <2>2, <3>2
    <2>5. i \in 1..k
      BY <1>3, <1>6, <2>4
    <2> QED
      BY <1>8, <2>3, <2>5
  <1> HIDE DEF last
  <1>17. Covers(tf, page, from, last + 1)
    BY <1>9, <1>14, <1>15, <1>16 DEF Covers
  <1>18. \A i \in DOMAIN page : page[i].final = (page[i].open + Interval[tf] <= now)
    BY <1>8, <1>9, Zenon
  <1> QED
    BY <1>9, <1>10, <1>12, <1>13, <1>17, <1>18

----------------------------------------------------------------------------
(* 2. Files. *)

(* What a line of a file holds. *)
Line == Candle \cup {Torn}
(* A file: whether it is there, its lines, and whether the last one has its
   newline. *)
File == [exists : BOOLEAN, lines : Seq(Line), ended : BOOLEAN]

(* The lines of a file of tf: candles that may be kept, and none left out
   between two that are neighbours.  Text that does not parse may be anywhere. *)
Series(tf, s, n) ==
    /\ s \in Seq(Line)
    /\ \A i \in 1..Len(s) : s[i] # Torn => Kept(tf, s[i], n)
    /\ \A i \in 1..(Len(s) - 1) : s[i] # Torn /\ s[i + 1] # Torn =>
                                      Follows(tf, s[i].open, s[i + 1].open)

(* The lines t may come after the lines s. *)
Joins(tf, s, t) ==
    s # <<>> /\ t # <<>> /\ Last(s) # Torn /\ t[1] # Torn => Follows(tf, Last(s).open, t[1].open)

(* A file the commands may leave of tf: its lines are a series, and only a
   line that is there can lack its newline. *)
Stored(tf, f, n) ==
    /\ f \in File
    /\ Series(tf, f.lines, n)
    /\ f.ended \/ f.lines # <<>>

(* A series written after another is a series. *)
LEMMA SeriesJoin ==
    ASSUME NEW tf, NEW n, NEW s, NEW t, Series(tf, s, n), Series(tf, t, n), Joins(tf, s, t)
    PROVE  Series(tf, s \o t, n)
  <1> DEFINE k == Len(s)
             m == Len(t)
             r == s \o t
  <1>1. s \in Seq(Line) /\ t \in Seq(Line) /\ k \in Nat /\ m \in Nat
    BY DEF Series
  <1>2. r \in Seq(Line) /\ Len(r) = k + m
    BY <1>1
  <1>3. (\A i \in 1..k : r[i] = s[i]) /\ (\A i \in 1..m : r[k + i] = t[i])
    BY <1>1
  <1>4. s # <<>> => Last(s) = s[k] /\ k > 0
    BY <1>1 DEF Last
  <1>5. t # <<>> <=> m > 0
    BY <1>1
  <1>6. /\ \A i \in 1..k : s[i] # Torn => Kept(tf, s[i], n)
        /\ \A i \in 1..(k - 1) : s[i] # Torn /\ s[i + 1] # Torn =>
                                      Follows(tf, s[i].open, s[i + 1].open)
    BY DEF Series
  <1>7. /\ \A i \in 1..m : t[i] # Torn => Kept(tf, t[i], n)
        /\ \A i \in 1..(m - 1) : t[i] # Torn /\ t[i + 1] # Torn =>
                                      Follows(tf, t[i].open, t[i + 1].open)
    BY DEF Series
  <1> HIDE DEF k, m, r
  <1>8. ASSUME NEW i \in 1..Len(r), r[i] # Torn
        PROVE  Kept(tf, r[i], n)
    <2>1. CASE i \in 1..k
      BY <1>3, <1>6, <1>8, <2>1
    <2>2. CASE i \notin 1..k
      <3> DEFINE j == i - k
      <3>1. j \in 1..m /\ i = k + j
        BY <1>1, <1>2, <2>2
      <3> HIDE DEF j
      <3> QED
        BY <1>3, <1>7, <1>8, <3>1
    <2> QED
      BY <2>1, <2>2
  <1>9. ASSUME NEW i \in 1..(Len(r) - 1), r[i] # Torn, r[i + 1] # Torn
        PROVE  Follows(tf, r[i].open, r[i + 1].open)
    <2>1. CASE i < k
      <3>1. i \in 1..(k - 1) /\ i \in 1..k /\ i + 1 \in 1..k
        BY <1>1, <1>2, <2>1
      <3> QED
        BY <1>3, <1>6, <1>9, <3>1
    <2>2. CASE i = k
      <3>1. i \in 1..k /\ 1 \in 1..m /\ k > 0 /\ m > 0
        BY <1>1, <1>2, <2>2
      <3>2. s # <<>> /\ t # <<>>
        BY <1>1, <1>5, <3>1 DEF k
      <3>3. r[i] = s[k] /\ r[i + 1] = t[1]
        BY <1>3, <2>2, <3>1
      <3> QED
        BY <1>4, <1>9, <3>2, <3>3 DEF Joins
    <2>3. CASE i > k
      <3> DEFINE j == i - k
      <3>1. j \in 1..(m - 1) /\ j \in 1..m /\ j + 1 \in 1..m /\ i = k + j /\ i + 1 = k + (j + 1)
        BY <1>1, <1>2, <2>3
      <3> HIDE DEF j
      <3> QED
        BY <1>3, <1>7, <1>9, <3>1
    <2> QED
      BY <1>1, <1>2, <2>1, <2>2, <2>3
  <1> QED
    BY <1>2, <1>8, <1>9 DEF Series, r

(* So is a part of one. *)
LEMMA SeriesPart ==
    ASSUME NEW tf, NEW n, NEW s, Series(tf, s, n),
           NEW i \in 1..(Len(s) + 1), NEW j \in (i - 1)..Len(s)
    PROVE  /\ Series(tf, SubSeq(s, i, j), n)
           /\ Len(SubSeq(s, i, j)) = j - i + 1
           /\ \A k \in 1..(j - i + 1) : SubSeq(s, i, j)[k] = s[i + k - 1]
  <1> DEFINE r == SubSeq(s, i, j)
             m == j - i + 1
  <1>1. s \in Seq(Line) /\ Len(s) \in Nat /\ m \in Nat
    BY DEF Series
  <1>2. r = [k \in 1..m |-> s[i + k - 1]]
    BY <1>1
  <1>3. \A k \in 1..m : i + k - 1 \in 1..Len(s) /\ i + k - 1 + 1 = i + (k + 1) - 1
    BY <1>1
  <1> HIDE DEF r, m
  <1>4. \A k \in 1..m : r[k] = s[i + k - 1] /\ r[k] \in Line
    <2>1. \A l \in 1..Len(s) : s[l] \in Line
      BY <1>1
    <2>2. \A k \in 1..m : r[k] = s[i + k - 1]
      BY <1>2
    <2> QED
      BY <1>3, <2>1, <2>2
  <1>5. r \in Seq(Line) /\ Len(r) = m
    <2>1. r \in [1..m -> Line]
      BY <1>2, <1>4
    <2> QED
      BY <1>1, <2>1
  <1>6. \A k \in 1..m : r[k] # Torn => Kept(tf, r[k], n)
    BY <1>3, <1>4 DEF Series
  <1>7. ASSUME NEW k \in 1..(m - 1), r[k] # Torn, r[k + 1] # Torn
        PROVE  Follows(tf, r[k].open, r[k + 1].open)
    <2> DEFINE l == i + k - 1
    <2>1. k \in 1..m /\ k + 1 \in 1..m /\ l \in 1..(Len(s) - 1)
      BY <1>1, <1>7 DEF m
    <2>2. l + 1 = i + (k + 1) - 1
      BY <1>3, <2>1
    <2>3. r[k] = s[l] /\ r[k + 1] = s[l + 1]
      <3>1. r[k] = s[l] /\ r[k + 1] = s[i + (k + 1) - 1]
        BY <1>4, <2>1
      <3> QED
        BY <2>2, <3>1
    <2> HIDE DEF l
    <2> QED
      BY <1>7, <2>1, <2>3 DEF Series
  <1> QED
    BY <1>4, <1>5, <1>6, <1>7 DEF Series, r, m

(* Torn text is a series of its own. *)
LEMMA TornSeries ==
    ASSUME NEW tf, NEW n
    PROVE  Series(tf, <<Torn>>, n)
  <1>1. Torn \in Line
    BY DEF Line
  <1>2. <<Torn>> \in Seq(Line) /\ Len(<<Torn>>) = 1 /\ <<Torn>>[1] = Torn
    BY <1>1
  <1>3. \A i \in 1..1 : <<Torn>>[i] = Torn
    BY <1>2
  <1> QED
    BY <1>2, <1>3 DEF Series

(* Candles that cover a range and may be kept are a series. *)
LEMMA CoversSeries ==
    ASSUME NEW tf \in Timeframes, NEW n, NEW s, NEW lo \in Nat, NEW hi \in Nat,
           Covers(tf, s, lo, hi), \A i \in 1..Len(s) : Kept(tf, s[i], n)
    PROVE  Series(tf, s, n)
  <1>1. s \in Seq(Line)
    BY DEF Covers, Line
  <1>2. \A i \in 1..(Len(s) - 1) : Follows(tf, s[i].open, s[i + 1].open)
    BY CoveredFollow
  <1> QED
    BY <1>1, <1>2 DEF Series

(* A write leaves a file of the kind it found. *)
LEMMA WrittenStored ==
    ASSUME NEW tf, NEW n, NEW f, Stored(tf, f, n), NEW new, Series(tf, new, n),
           Joins(tf, f.lines, new), NEW ends \in BOOLEAN
    PROVE  Stored(tf, Written(f, new, ends), n)
  <1> DEFINE s == f.lines
             r == Joined(f, new)
             g == Written(f, new, ends)
  <1>1. s \in Seq(Line) /\ new \in Seq(Line) /\ f.ended \in BOOLEAN /\ Series(tf, s, n)
    BY DEF Stored, Series, File
  <1>2. CASE f.ended \/ new = <<>>
    <2>1. Series(tf, s \o new, n)
      BY <1>1, SeriesJoin
    <2>2. r = s \o new
      BY <1>2 DEF Joined
    <2>3. r = <<>> => s = <<>> /\ new = <<>>
      <3> HIDE DEF r, s
      <3>1. Len(r) = Len(s) + Len(new) /\ Len(s) \in Nat /\ Len(new) \in Nat
        BY <1>1, <2>2
      <3>2. r = <<>> => Len(s) = 0 /\ Len(new) = 0
        BY <3>1
      <3> QED
        BY <1>1, <3>2
    <2>4. new = <<>> => f.ended \/ r # <<>>
      BY <2>3 DEF Stored
    <2>5. Series(tf, r, n)
      BY <2>1, <2>2
    <2> HIDE DEF r
    <2>6. g = [exists |-> TRUE, lines |-> r, ended |-> IF new = <<>> THEN f.ended ELSE ends]
      BY DEF Written, r
    <2>7. g \in File
      BY <1>1, <2>5, <2>6 DEF File, Series
    <2>8. g.lines = r /\ (g.ended \/ r # <<>>)
      BY <2>3, <2>4, <2>6
    <2> QED
      BY <2>5, <2>7, <2>8 DEF Stored
  <1>3. CASE ~f.ended /\ new # <<>>
    <2> DEFINE a == Front(s)
               b == <<Torn>>
               c == Tail(new)
    <2>1. s # <<>> /\ Len(s) \in Nat /\ Len(s) # 0 /\ Len(new) \in Nat /\ Len(new) # 0
      BY <1>1, <1>3 DEF Stored
    <2>2. Series(tf, a, n)
      <3>1. a = SubSeq(s, 1, Len(s) - 1)
        BY DEF Front
      <3>2. 1 \in 1..(Len(s) + 1) /\ Len(s) - 1 \in (1 - 1)..Len(s)
        BY <2>1
      <3> HIDE DEF a, s
      <3> QED
        BY <1>1, <3>1, <3>2, SeriesPart
    <2>3. Series(tf, c, n)
      <3>1. c = SubSeq(new, 2, Len(new))
        BY <1>1, <2>1
      <3>2. 2 \in 1..(Len(new) + 1) /\ Len(new) \in (2 - 1)..Len(new)
        BY <2>1
      <3> HIDE DEF c
      <3> QED
        BY <1>1, <3>1, <3>2, SeriesPart
    <2>4. Series(tf, b, n) /\ b \in Seq(Line) /\ Len(b) = 1 /\ b[1] = Torn
      <3>1. Series(tf, b, n)
        BY TornSeries
      <3> QED
        BY <3>1 DEF Series
    <2>5. a \in Seq(Line) /\ c \in Seq(Line)
      BY <2>2, <2>3 DEF Series
    <2> HIDE DEF a, c, s
    <2>6. Series(tf, a \o b, n) /\ a \o b \in Seq(Line) /\ a \o b # <<>> /\ Last(a \o b) = Torn
      <3>1. Joins(tf, a, b)
        BY <2>4 DEF Joins
      <3>2. Series(tf, a \o b, n)
        BY <2>2, <2>4, <3>1, SeriesJoin
      <3>3. a \o b \in Seq(Line) /\ Len(a \o b) = Len(a) + 1 /\ (a \o b)[Len(a) + 1] = Torn
        BY <2>4, <2>5
      <3>4. Len(a) \in Nat /\ Len(a) + 1 # 0 /\ Len(<<>>) = 0
        BY <2>5
      <3> QED
        BY <3>2, <3>3, <3>4 DEF Last
    <2> HIDE DEF b
    <2>7. Joins(tf, a \o b, c)
      BY <2>6 DEF Joins
    <2>8. Series(tf, (a \o b) \o c, n)
      BY <2>3, <2>6, <2>7, SeriesJoin
    <2>9. (a \o b) \o c # <<>>
      <3> DEFINE d == a \o b
      <3>1. d \in Seq(Line) /\ d # <<>>
        BY <2>6
      <3> HIDE DEF d
      <3>2. d \o c # <<>>
        BY <2>5, <3>1
      <3> QED
        BY <3>2 DEF d
    <2>10. r = (a \o b) \o c
      BY <1>3 DEF Joined, a, b, c, s
    <2>11. Series(tf, r, n) /\ r # <<>>
      BY <2>8, <2>9, <2>10
    <2> HIDE DEF r
    <2>12. g = [exists |-> TRUE, lines |-> r, ended |-> ends]
      BY <1>3 DEF Written, r
    <2>13. g \in File /\ g.lines = r
      BY <2>11, <2>12 DEF File, Series
    <2> QED
      BY <2>11, <2>13 DEF Stored
  <1> QED
    BY <1>1, <1>2, <1>3

(* What a kill in the middle of a write leaves is a file of the kind too. *)
LEMMA RemainsStored ==
    ASSUME NEW tf, NEW n, NEW f, Stored(tf, f, n), NEW new, Series(tf, new, n),
           Joins(tf, f.lines, new), NEW g \in Remains(f, new)
    PROVE  Stored(tf, g, n)
  <1> DEFINE whole(k) == SubSeq(new, 1, k)
  <1>1. new \in Seq(Line) /\ Len(new) \in Nat
    BY DEF Series
  <1>2. ASSUME NEW k \in 0..Len(new)
        PROVE  /\ Series(tf, whole(k), n) /\ Joins(tf, f.lines, whole(k))
               /\ Series(tf, Append(whole(k), Torn), n)
               /\ Joins(tf, f.lines, Append(whole(k), Torn))
    <2> DEFINE w == whole(k)
    <2>1. /\ Series(tf, w, n) /\ Len(w) = k
          /\ \A i \in 1..k : w[i] = new[i]
      <3>1. 1 \in 1..(Len(new) + 1) /\ k \in (1 - 1)..Len(new) /\ k - 1 + 1 = k
        BY <1>1
      <3>2. /\ Series(tf, w, n) /\ Len(w) = k - 1 + 1
            /\ \A i \in 1..(k - 1 + 1) : w[i] = new[1 + i - 1]
        BY <3>1, SeriesPart
      <3>3. \A i \in 1..k : 1 + i - 1 = i
        BY <1>1
      <3> HIDE DEF w
      <3> QED
        BY <3>1, <3>2, <3>3
    <2> HIDE DEF w
    <2>2. w \in Seq(Line)
      BY <2>1 DEF Series
    <2>3. k # 0 => new # <<>> /\ w[1] = new[1]
      BY <1>1, <2>1
    <2>4. Joins(tf, f.lines, w)
      <3>1. k = 0 => w = <<>>
        BY <2>1, <2>2
      <3> QED
        BY <2>3, <3>1 DEF Joins
    <2>5. Torn \in Line /\ Append(w, Torn) = w \o <<Torn>>
      BY <2>2 DEF Line
    <2>6. Series(tf, w \o <<Torn>>, n)
      <3>1. Series(tf, <<Torn>>, n) /\ <<Torn>>[1] = Torn
        BY TornSeries
      <3>2. Joins(tf, w, <<Torn>>)
        BY <3>1 DEF Joins
      <3> QED
        BY <2>1, <3>1, <3>2, SeriesJoin
    <2>7. Joins(tf, f.lines, Append(w, Torn))
      <3>1. k = 0 => Append(w, Torn)[1] = Torn
        BY <2>1, <2>2, <2>5
      <3>2. k # 0 => Append(w, Torn)[1] = w[1]
        BY <2>1, <2>2, <2>5
      <3> QED
        BY <2>3, <3>1, <3>2 DEF Joins
    <2> QED
      BY <2>1, <2>4, <2>5, <2>6, <2>7 DEF w
  <1> HIDE DEF whole
  <1>3. \/ \E k \in 0..Len(new) : g = Written(f, whole(k), TRUE)
        \/ \E k \in 1..Len(new) : g = Written(f, whole(k), FALSE)
        \/ \E k \in 0..(Len(new) - 1) : g = Written(f, Append(whole(k), Torn), FALSE)
    BY DEF Remains, whole
  <1>4. CASE \E k \in 0..Len(new) : g = Written(f, whole(k), TRUE)
    BY <1>2, <1>4, WrittenStored
  <1>5. CASE \E k \in 1..Len(new) : g = Written(f, whole(k), FALSE)
    <2>1. PICK k \in 1..Len(new) : g = Written(f, whole(k), FALSE)
      BY <1>5
    <2>2. k \in 0..Len(new)
      BY <1>1
    <2> QED
      BY <1>2, <2>1, <2>2, WrittenStored
  <1>6. CASE \E k \in 0..(Len(new) - 1) : g = Written(f, Append(whole(k), Torn), FALSE)
    <2>1. PICK k \in 0..(Len(new) - 1) : g = Written(f, Append(whole(k), Torn), FALSE)
      BY <1>6
    <2>2. k \in 0..Len(new)
      BY <1>1
    <2> QED
      BY <1>2, <2>1, <2>2, WrittenStored
  <1> QED
    BY <1>3, <1>4, <1>5, <1>6

(* What may be kept may be kept for ever. *)
LEMMA KeptOn ==
    ASSUME NEW tf \in Timeframes, NEW c, NEW n \in Nat, Kept(tf, c, n)
    PROVE  Kept(tf, c, n + 1)
  <1>1. c.open \in Nat /\ Interval[tf] \in Nat
    BY OfTimeframe, CandleFields DEF Kept
  <1> QED
    BY <1>1 DEF Kept

(* What may be stored now may be stored a tick later. *)
LEMMA StoredOn ==
    ASSUME NEW tf \in Timeframes, NEW f, NEW n \in Nat, Stored(tf, f, n)
    PROVE  Stored(tf, f, n + 1)
  BY KeptOn DEF Stored, Series

----------------------------------------------------------------------------
(* 3. The commands. *)

(* What the clock and the locals of a command can be. *)
FetchTypes ==
    /\ now \in Nat /\ source \in Sources
    /\ pc \in {"idle", "resume", "page", "append", "summarize", "manifest"}
    /\ todo \in Seq(Timeframes)
    /\ pc \in {"resume", "page", "append", "summarize"} => todo # <<>>
    /\ start \in Nat /\ until \in Nat /\ since \in Nat /\ cursor \in Nat
    /\ kills \in Nat
    \* nothing is asked for beyond the clock, unless --end lies ahead of it
    /\ pc # "idle" /\ MaxAhead = 0 => until <= now

(* Every file holds a series. *)
FilesInv ==
    /\ files \in [Timeframes -> File]
    /\ \A tf \in Timeframes : Stored(tf, files[tf], now)

(* What the pages read so far have brought: the candles from the resume point
   on to where the next page begins. *)
PagesInv ==
    pc \in {"page", "append"} =>
        /\ ~LastOpenFails(files[tf0])
        /\ since = ResumePoint(tf0)
        /\ since <= cursor
        /\ \A i \in 1..Len(got) : Kept(tf0, got[i], now)
        /\ \E hi \in Nat : /\ since <= hi /\ Covers(tf0, got, since, hi)
                           /\ pc = "page" => hi = cursor

(* What the last step of a command leaves. *)
ManifestInv ==
    pc = "idle" /\ outcome = "ok" =>
        /\ Describable
        /\ manifest = [tf \in Present |-> CoverageOf(files[tf], Interval[tf])]

(* The inductive invariant of the candle store. *)
CandleInv == FetchTypes /\ FilesInv /\ PagesInv /\ ManifestInv /\ ReadableUnlessKilled

(* The timeframe being fetched. *)
LEMMA Fetching ==
    ASSUME FetchTypes, todo # <<>>
    PROVE  tf0 \in Timeframes /\ Tail(todo) \in Seq(Timeframes)
  BY DEF FetchTypes, tf0

(* It is asked for from right after what is stored. *)
LEMMA ResumeIsTime ==
    ASSUME NEW tf \in Timeframes, FetchTypes, FilesInv, ~LastOpenFails(files[tf])
    PROVE  /\ ResumePoint(tf) \in Nat
           /\ files[tf].lines # <<>> =>
                 /\ Last(files[tf].lines) # Torn
                 /\ Last(files[tf].lines).open \in Published[tf]
                 /\ Last(files[tf].lines).open \in Nat
                 /\ ResumePoint(tf) = Last(files[tf].lines).open + Interval[tf]
  <1> DEFINE s == files[tf].lines
  <1>1. Series(tf, s, now)
    BY DEF FilesInv, Stored
  <1>2. CASE s = <<>>
    BY <1>2 DEF ResumePoint, FetchTypes
  <1>3. CASE s # <<>>
    <2>1. Last(s) # Torn /\ ResumePoint(tf) = Last(s).open + Interval[tf]
      BY <1>3 DEF LastOpenFails, ResumePoint
    <2> HIDE DEF s
    <2>2. s \in Seq(Line) /\ Len(s) \in 1..Len(s)
      BY <1>1, <1>3 DEF Series
    <2>3. Kept(tf, Last(s), now)
      BY <1>1, <2>1, <2>2 DEF Series, Last
    <2>4. Last(s).open \in Published[tf] /\ Last(s).open \in Nat /\ Interval[tf] \in Nat
      BY <2>3, OfTimeframe, CandleFields DEF Kept
    <2> QED
      BY <1>3, <2>1, <2>4 DEF s
  <1> QED
    BY <1>2, <1>3

(* What an append writes goes on from what is stored. *)
LEMMA FreshSeries ==
    ASSUME FetchTypes, FilesInv, PagesInv, pc = "append"
    PROVE  /\ tf0 \in Timeframes /\ todo # <<>>
           /\ Series(tf0, Fresh, now)
           /\ Joins(tf0, files[tf0].lines, Fresh)
           /\ \E hi \in Nat : Covers(tf0, Fresh, since, hi)
           /\ \A i \in 1..Len(Fresh) : Kept(tf0, Fresh[i], now)
  <1>1. tf0 \in Timeframes /\ todo # <<>>
    BY Fetching DEF FetchTypes
  <1> DEFINE tf == tf0
             s == files[tf].lines
             I == {i \in DOMAIN got : Newer(files[tf], got[i])}
  <1>2. PICK hi \in Nat : since <= hi /\ Covers(tf, got, since, hi)
    BY DEF PagesInv
  <1>3. /\ ~LastOpenFails(files[tf]) /\ since = ResumePoint(tf) /\ since \in Nat
        /\ \A i \in 1..Len(got) : Kept(tf, got[i], now)
    BY DEF PagesInv, FetchTypes
  <1> HIDE DEF tf
  <1>4. tf \in Timeframes /\ tf = tf0
    BY <1>1 DEF tf
  <1>5. /\ s # <<>> => /\ Last(s) # Torn /\ Last(s).open \in Published[tf]
                       /\ Last(s).open \in Nat /\ since = Last(s).open + Interval[tf]
    BY <1>3, <1>4, ResumeIsTime
  <1>6. got \in Seq(Candle) /\ DOMAIN got = 1..Len(got)
        /\ \A i \in 1..Len(got) : since <= got[i].open /\ got[i].open \in Nat
    <2>1. got \in Seq(Candle) /\ DOMAIN got = 1..Len(got)
      BY <1>2 DEF Covers
    <2>2. \A i \in 1..Len(got) : got[i] \in Candle
      BY <2>1
    <2> QED
      BY <1>2, <2>1, <2>2, CandleFields DEF Covers
  <1>7. I = DOMAIN got
    <2> SUFFICES ASSUME NEW i \in DOMAIN got, s # <<>>
                 PROVE  got[i].open > Last(s).open
      BY DEF Newer
    <2>1. Interval[tf] \in Nat \ {0}
      BY <1>4, OfTimeframe
    <2> HIDE DEF s
    <2> QED
      BY <1>3, <1>5, <1>6, <2>1
  <1>8. Fresh = Picked(got, I)
    BY DEF Fresh, tf
  <1> HIDE DEF s, I
  <1>9. Covers(tf, Fresh, since, hi)
    BY <1>2, <1>3, <1>4, <1>7, <1>8, CoversAll
  <1>10. \A i \in 1..Len(Fresh) : Kept(tf, Fresh[i], now)
    <2> DEFINE n == Cardinality(I)
    <2>1. I \in SUBSET DOMAIN got
      BY <1>7
    <2>2. Len(Fresh) = n /\ Ascending(I) \in [1..n -> I]
          /\ \A k \in 1..n : Fresh[k] = got[Ascending(I)[k]]
      BY <1>6, <1>8, <2>1, PickedLists
    <2> HIDE DEF n
    <2>3. \A k \in 1..n : Ascending(I)[k] \in 1..Len(got)
      BY <1>6, <1>7, <2>2
    <2> QED
      BY <1>3, <2>2, <2>3
  <1>11. Series(tf, Fresh, now)
    BY <1>3, <1>4, <1>9, <1>10, CoversSeries
  <1>12. Joins(tf, s, Fresh)
    <2> SUFFICES ASSUME s # <<>>, Fresh # <<>>
                 PROVE  Follows(tf, Last(s).open, Fresh[1].open)
      BY DEF Joins
    <2> DEFINE q == Fresh
    <2>1. q \in Seq(Candle) /\ q # <<>>
      BY <1>9 DEF Covers
    <2>2. Len(q) > 0
      <3> HIDE DEF q
      <3> QED
        BY <2>1
    <2> DEFINE a == Last(s).open
    <2>3. a \in Published[tf] /\ since = a + Interval[tf]
      BY <1>5
    <2> HIDE DEF a, q
    <2>4. Covers(tf, q, since, hi)
      BY <1>9 DEF q
    <2>5. Follows(tf, a, q[1].open)
      BY <1>3, <1>4, <2>2, <2>3, <2>4, FirstFollows
    <2> QED
      BY <2>5 DEF a, q
  <1> QED
    BY <1>1, <1>9, <1>10, <1>11, <1>12 DEF s, tf

(* It holds of an empty store. *)
LEMMA CandleStarts == Init => CandleInv
  <1> SUFFICES ASSUME Init
               PROVE  CandleInv
    OBVIOUS
  <1>1. FetchTypes
    <2>1. <<>> \in Seq(Timeframes)
      OBVIOUS
    <2> QED
      BY <2>1 DEF Init, FetchTypes
  <1>2. NoFile \in File /\ NoFile.lines = <<>> /\ NoFile.ended
    <2>1. <<>> \in Seq(Line)
      OBVIOUS
    <2> QED
      BY <2>1 DEF NoFile, File
  <1>3. \A tf \in Timeframes : files[tf] = NoFile
    BY DEF Init
  <1>4. FilesInv
    <2>1. files \in [Timeframes -> File]
      BY <1>2 DEF Init
    <2>2. \A tf, n : Series(tf, <<>>, n)
      <3>1. <<>> \in Seq(Line) /\ Len(<<>>) = 0
        OBVIOUS
      <3>2. 1..0 = {} /\ 1..(0 - 1) = {}
        OBVIOUS
      <3> QED
        BY <3>1, <3>2 DEF Series
    <2> QED
      BY <1>2, <1>3, <2>1, <2>2 DEF FilesInv, Stored
  <1>5. PagesInv /\ ManifestInv
    BY DEF Init, PagesInv, ManifestInv
  <1>6. ReadableUnlessKilled
    <2>1. Torn \notin Range(NoFile.lines)
      BY <1>2 DEF Range
    <2> QED
      BY <1>2, <1>3, <2>1 DEF ReadableUnlessKilled, Readable
  <1> QED
    BY <1>1, <1>4, <1>5, <1>6 DEF CandleInv

(* The end of a command, in success or failure, when it leaves the files. *)
LEMMA FinishKeeps ==
    ASSUME CandleInv, NEW result, Finish(result), UNCHANGED <<worldVars, files, kills>>,
           result = "ok" => ManifestInv'
    PROVE  CandleInv'
  <1>1. FetchTypes'
    <2>1. <<>> \in Seq(Timeframes)
      OBVIOUS
    <2> QED
      BY <2>1 DEF CandleInv, FetchTypes, Finish, worldVars
  <1>2. FilesInv'
    BY DEF CandleInv, FilesInv, worldVars
  <1>3. PagesInv'
    BY DEF PagesInv, Finish
  <1>4. ManifestInv'
    BY DEF ManifestInv, Finish
  <1>5. ReadableUnlessKilled'
    BY DEF CandleInv, ReadableUnlessKilled, Readable
  <1> QED
    BY <1>1, <1>2, <1>3, <1>4, <1>5 DEF CandleInv

(* A fetch that starts is asked for nothing beyond the clock, unless --end
   lies ahead of it. *)
LEMMA StartFetchKeeps == CandleInv /\ StartFetch => CandleInv'
  <1> SUFFICES ASSUME CandleInv, StartFetch
               PROVE  CandleInv'
    OBVIOUS
  <1>1. FetchTypes'
    <2>1. PICK s \in Starts, u \in 1..(now + MaxAhead) : start' = s /\ until' = u
      BY DEF StartFetch
    <2>2. /\ Starts \subseteq Nat /\ MaxAhead \in Nat
          /\ Order \in Seq(Timeframes) /\ Order # <<>>
      BY FetchAssumption
    <2>3. now \in Nat
      BY DEF CandleInv, FetchTypes
    <2>4. s \in Nat /\ u \in Nat /\ (MaxAhead = 0 => u <= now)
      BY <2>1, <2>2, <2>3
    <2> QED
      BY <2>1, <2>2, <2>3, <2>4
      DEF CandleInv, FetchTypes, StartFetch, worldVars, storeVars, pageVars
  <1>2. FilesInv'
    BY DEF CandleInv, FilesInv, StartFetch, worldVars, storeVars
  <1>3. PagesInv' /\ ManifestInv'
    BY DEF PagesInv, ManifestInv, StartFetch
  <1>4. ReadableUnlessKilled'
    BY DEF CandleInv, ReadableUnlessKilled, Readable, StartFetch, storeVars
  <1> QED
    BY <1>1, <1>2, <1>3, <1>4 DEF CandleInv

(* Resuming after the last stored candle, nothing is left out so far. *)
LEMMA ResumeKeeps == CandleInv /\ Resume => CandleInv'
  <1> SUFFICES ASSUME CandleInv, Resume
               PROVE  CandleInv'
    OBVIOUS
  <1>1. FetchTypes /\ FilesInv /\ todo # <<>> /\ tf0 \in Timeframes
    BY Fetching DEF CandleInv, FetchTypes, Resume
  <1>2. ResumePoint(tf0) \in Nat
    BY <1>1, ResumeIsTime DEF Resume
  <1>3. /\ since' = ResumePoint(tf0) /\ cursor' = since' /\ got' = <<>>
        /\ pc' \in {"page", "summarize"} /\ ~LastOpenFails(files[tf0])
        /\ todo' = todo /\ files' = files /\ tf0' = tf0 /\ now' = now /\ source' = source
        /\ start' = start /\ until' = until /\ kills' = kills
    BY DEF Resume, worldVars, storeVars, callVars, tf0
  <1>4. FetchTypes'
    BY <1>1, <1>2, <1>3 DEF FetchTypes, Resume
  <1>5. FilesInv'
    BY <1>1, <1>3 DEF FilesInv
  <1>6. PagesInv'
    <2>1. Covers(tf0, <<>>, since', since')
      <3>1. <<>> \in Seq(Candle) /\ Len(<<>>) = 0 /\ 1..0 = {}
        OBVIOUS
      <3>2. \A t \in Published[tf0] : ~(since' <= t /\ t < since')
        BY <1>1, <1>2, <1>3, OfTimeframe
      <3> QED
        BY <3>1, <3>2 DEF Covers
    <2>2. since' \in Nat /\ since' <= cursor' /\ cursor' = since'
      BY <1>2, <1>3
    <2>3. Len(<<>>) = 0 /\ 1..0 = {}
      OBVIOUS
    <2>4. ~LastOpenFails(files[tf0])' /\ (since = ResumePoint(tf0))'
          /\ (\A i \in 1..Len(got) : Kept(tf0, got[i], now))'
      BY <1>3, <2>3 DEF LastOpenFails, ResumePoint, Resume, callVars
    <2>5. \E hi \in Nat : /\ since' <= hi /\ Covers(tf0, <<>>, since', hi)
                          /\ pc' = "page" => hi = cursor'
      BY <2>1, <2>2
    <2> QED
      BY <1>3, <2>2, <2>4, <2>5 DEF PagesInv
  <1>7. ManifestInv'
    BY <1>3 DEF ManifestInv
  <1>8. ReadableUnlessKilled'
    BY <1>3 DEF CandleInv, ReadableUnlessKilled, Readable
  <1> QED
    BY <1>4, <1>5, <1>6, <1>7, <1>8 DEF CandleInv

(* What a page adds: the candles it has that were not collected before, up to
   those that close within the range asked for. *)
LEMMA PageAdds ==
    ASSUME CandleInv, FetchPage, NEW page, page = Page, page # <<>>,
           NEW I, I = {i \in DOMAIN page : InRange(page[i])},
           NEW next, next = Last(page).open + Interval[tf0]
    PROVE  /\ \A i \in 1..Len(got \o Picked(page, I)) :
                  Kept(tf0, (got \o Picked(page, I))[i], now)
           /\ next \in Nat
           /\ \E hi \in Nat : cursor <= hi /\ Covers(tf0, got \o Picked(page, I), since, hi)
           /\ ~LastPage(page, next) => /\ cursor <= next
                                       /\ Covers(tf0, got \o Picked(page, I), since, next)
  <1> DEFINE tf == tf0
             d == Interval[tf]
             last == Last(page).open
             from == IF source[tf].ignoresSince THEN 0 ELSE cursor
  <1>1. /\ pc = "page" /\ tf \in Timeframes /\ now \in Nat /\ source \in Sources
        /\ since \in Nat /\ cursor \in Nat /\ until \in Nat
        /\ MaxAhead = 0 => until <= now
    BY Fetching DEF CandleInv, FetchTypes, FetchPage
  <1>2. /\ since <= cursor
        /\ \A i \in 1..Len(got) : Kept(tf, got[i], now)
        /\ Covers(tf, got, since, cursor)
    BY <1>1 DEF CandleInv, PagesInv
  <1>3. from \in Nat /\ from <= cursor
    BY <1>1
  <1>4. page = Answer(tf, from)
    BY DEF Page
  <1> HIDE DEF tf, from
  <1>5. /\ page \in Seq(Candle) /\ Len(page) > 0
        /\ last \in Published[tf] /\ from <= last
        /\ Covers(tf, page, from, last + 1)
        /\ \A i \in DOMAIN page : page[i].final = (page[i].open + d <= now)
    BY <1>1, <1>3, <1>4, AnswerCovers
  <1> HIDE DEF last
  <1>6. d \in Nat \ {0} /\ last \in Nat /\ next = last + d
    <2>1. d \in Nat \ {0} /\ last \in Nat
      BY <1>1, <1>5, OfTimeframe
    <2> QED
      BY <2>1 DEF last, tf
  <1>7. got \in Seq(Candle) /\ DOMAIN got = 1..Len(got) /\ DOMAIN page = 1..Len(page)
        /\ Len(got) \in Nat
    BY <1>2, <1>5 DEF Covers
  <1>8. \A i \in DOMAIN page :
            /\ page[i] \in Candle /\ page[i].open \in Nat /\ page[i].open \in Published[tf]
            /\ from <= page[i].open /\ page[i].open <= last
    <2> SUFFICES ASSUME NEW i \in DOMAIN page
                 PROVE  /\ page[i] \in Candle /\ page[i].open \in Nat
                        /\ page[i].open \in Published[tf]
                        /\ from <= page[i].open /\ page[i].open <= last
      OBVIOUS
    <2>1. page[i] \in Candle
      BY <1>5
    <2>2. page[i].open \in Nat
      BY <2>1, CandleFields
    <2>3. page[i].open \in Published[tf] /\ from <= page[i].open /\ page[i].open < last + 1
      BY <1>5, <1>7 DEF Covers
    <2> QED
      BY <1>6, <2>1, <2>2, <2>3
  <1> HIDE DEF d
  \* a candle of the page is not there yet if it opens at the cursor or later
  <1>9. \A i \in DOMAIN page :
            i \in I <=> cursor <= page[i].open /\ page[i].open + d <= until
    <2> SUFFICES ASSUME NEW i \in DOMAIN page
                 PROVE  InRange(page[i]) <=>
                            cursor <= page[i].open /\ page[i].open + d <= until
      OBVIOUS
    <2> DEFINE x == page[i].open
    <2>1. x \in Nat /\ x \in Published[tf]
      BY <1>8
    <2> HIDE DEF x
    <2>2. (\A c \in Range(got) : c.open # x) <=> ~(since <= x /\ x < cursor)
      <3>1. ASSUME since <= x, x < cursor
            PROVE  \E c \in Range(got) : c.open = x
        <4>1. PICK k \in 1..Len(got) : got[k].open = x
          BY <1>2, <2>1, <3>1 DEF Covers
        <4> QED
          BY <1>7, <4>1 DEF Range
      <3>2. ASSUME NEW c \in Range(got), c.open = x
            PROVE  since <= x /\ x < cursor
        <4>1. PICK k \in 1..Len(got) : got[k] = c
          BY <1>7 DEF Range
        <4> QED
          BY <1>2, <3>2, <4>1 DEF Covers
      <3> QED
        BY <3>1, <3>2
    <2>3. InRange(page[i]) <=> /\ x >= since /\ x + d <= until
                               /\ \A c \in Range(got) : c.open # x
      BY DEF InRange, x, d, tf
    <2>4. InRange(page[i]) <=> cursor <= x /\ x + d <= until
      BY <1>1, <1>2, <2>1, <2>2, <2>3
    <2> QED
      BY <2>4 DEF x
  <1>10. I \in SUBSET DOMAIN page
    OBVIOUS
  <1>11. \A t \in Published[tf] : t \in Nat /\ (t < last + d => t <= last)
    <2> SUFFICES ASSUME NEW t \in Published[tf], t < last + d
                 PROVE  t <= last
      BY <1>1, OfTimeframe
    <2>1. t \in Nat
      BY <1>1, OfTimeframe
    <2>2. last < t => last + d <= t
      BY <1>1, <1>5, OpensApart DEF d
    <2> QED
      BY <1>6, <2>1, <2>2
  <1> DEFINE r == got \o Picked(page, I)
  <1>12. ASSUME NEW i \in 1..Len(r)
         PROVE  Kept(tf, r[i], now)
    <2> DEFINE q == Picked(page, I)
               m == Cardinality(I)
               n == Len(got)
               at == Ascending(I)
    <2>1. /\ q \in Seq(Candle) /\ Len(q) = m /\ m \in Nat
          /\ at \in [1..m -> I] /\ \A k \in 1..m : q[k] = page[at[k]]
      BY <1>5, <1>10, PickedLists
    <2> HIDE DEF q, m, at
    <2>2. /\ Len(r) = n + m
          /\ \A k \in 1..n : r[k] = got[k]
          /\ \A k \in 1..m : r[n + k] = q[k]
      <3>1. r = got \o q
        BY DEF q
      <3> HIDE DEF r
      <3>2. Len(r) = n + m
        <4>1. got \in Seq(Candle) /\ q \in Seq(Candle) /\ Len(q) = m
          BY <1>7, <2>1
        <4>2. Len(got \o q) = Len(got) + Len(q)
          BY <4>1
        <4> QED
          BY <3>1, <4>1, <4>2
      <3>3. \A k \in 1..n : r[k] = got[k]
        BY <1>7, <2>1, <3>1
      <3>4. \A k \in 1..m : r[n + k] = q[k]
        BY <1>7, <2>1, <3>1
      <3> QED
        BY <3>2, <3>3, <3>4
    <2> HIDE DEF r
    <2>3. CASE i \in 1..n
      BY <1>2, <2>2, <2>3
    <2>4. CASE i \notin 1..n
      <3> DEFINE k == i - n
                 j == at[k]
      <3>1. k \in 1..m /\ i = n + k
        BY <1>7, <2>1, <2>2, <2>4
      <3> HIDE DEF k
      <3>2. j \in I /\ j \in DOMAIN page /\ r[i] = page[j]
        BY <1>10, <2>1, <2>2, <3>1
      <3> HIDE DEF j
      <3>3. /\ page[j] \in Candle /\ page[j].open \in Nat /\ page[j].open \in Published[tf]
            /\ page[j].final = (page[j].open + d <= now)
            /\ page[j].open + d <= until
        BY <1>5, <1>8, <1>9, <3>2, Zenon DEF d
      <3>4. MaxAhead = 0 => page[j].open + d <= now
        BY <1>1, <1>6, <3>3
      <3>5. MaxAhead = 0 => page[j].final
        BY <3>3, <3>4, Zenon
      <3> QED
        BY <3>2, <3>3, <3>4, <3>5 DEF Kept, d
    <2> QED
      BY <2>3, <2>4
  <1>13. \E hi \in Nat : cursor <= hi /\ Covers(tf, r, since, hi)
    <2> DEFINE b == (until - d) + 1
               m == IF b <= last + 1 THEN b ELSE last + 1
               hi == IF m <= cursor THEN cursor ELSE m
    <2>1. hi \in Nat /\ cursor <= hi /\ (hi = cursor \/ (hi <= b /\ hi <= last + 1))
      BY <1>1, <1>6
    <2>2. \A i \in DOMAIN page : i \in I <=> cursor <= page[i].open /\ page[i].open < hi
      <3> SUFFICES ASSUME NEW i \in DOMAIN page
                   PROVE  i \in I <=> cursor <= page[i].open /\ page[i].open < hi
        OBVIOUS
      <3> DEFINE x == page[i].open
      <3>1. x \in Nat /\ x <= last /\ (i \in I <=> cursor <= x /\ x + d <= until)
        BY <1>8, <1>9
      <3> HIDE DEF x
      <3>2. i \in I <=> cursor <= x /\ x < hi
        BY <1>1, <1>6, <3>1
      <3> QED
        BY <3>2 DEF x
    <2>3. \A t \in Published[tf] : cursor <= t /\ t < hi => from <= t /\ t < last + 1
      BY <1>1, <1>3, <1>6, <1>11, <2>1
    <2> HIDE DEF hi
    <2>4. last + 1 \in Nat
      BY <1>6
    <2>5. Covers(tf, r, since, hi)
      BY <1>1, <1>2, <1>3, <1>5, <1>10, <2>1, <2>2, <2>3, <2>4, CoversJoin
    <2> QED
      BY <2>1, <2>5
  <1>14. ASSUME ~LastPage(page, next)
         PROVE  cursor <= next /\ Covers(tf, r, since, next)
    <2>1. next \in Nat /\ cursor < next /\ next < until
      BY <1>1, <1>6, <1>14 DEF LastPage
    <2>2. \A i \in DOMAIN page : i \in I <=> cursor <= page[i].open /\ page[i].open < next
      <3> SUFFICES ASSUME NEW i \in DOMAIN page
                   PROVE  i \in I <=> cursor <= page[i].open /\ page[i].open < next
        OBVIOUS
      <3> DEFINE x == page[i].open
      <3>1. x \in Nat /\ x <= last /\ (i \in I <=> cursor <= x /\ x + d <= until)
        BY <1>8, <1>9
      <3> HIDE DEF x
      <3>2. i \in I <=> cursor <= x /\ x < next
        BY <1>1, <1>6, <2>1, <3>1
      <3> QED
        BY <3>2 DEF x
    <2>3. \A t \in Published[tf] : cursor <= t /\ t < next => from <= t /\ t < last + 1
      BY <1>1, <1>3, <1>6, <1>11
    <2>4. last + 1 \in Nat /\ cursor <= next
      BY <1>1, <1>6, <2>1
    <2>5. Covers(tf, r, since, next)
      BY <1>1, <1>2, <1>3, <1>5, <1>10, <2>1, <2>2, <2>3, <2>4, CoversJoin
    <2> QED
      BY <2>4, <2>5
  <1>15. next \in Nat
    BY <1>6
  <1> HIDE DEF r
  <1>16. \A i \in 1..Len(r) : Kept(tf, r[i], now)
    BY <1>12
  <1> QED
    BY <1>13, <1>14, <1>15, <1>16 DEF r, tf

(* A page takes the candles read so far on to its own last one. *)
LEMMA FetchPageKeeps == CandleInv /\ FetchPage => CandleInv'
  <1> SUFFICES ASSUME CandleInv, FetchPage
               PROVE  CandleInv'
    OBVIOUS
  <1> DEFINE page == Page
             next == Last(page).open + Interval[tf0]
             I == {i \in DOMAIN page : InRange(page[i])}
  <1>1. /\ FetchTypes /\ FilesInv /\ todo # <<>> /\ tf0 \in Timeframes /\ pc = "page"
        /\ cursor \in Nat
    BY Fetching DEF CandleInv, FetchTypes, FetchPage
  <1>2. /\ todo' = todo /\ files' = files /\ tf0' = tf0 /\ now' = now /\ source' = source
        /\ start' = start /\ until' = until /\ kills' = kills /\ since' = since
        /\ outcome' = outcome /\ manifest' = manifest
    BY DEF FetchPage, worldVars, storeVars, callVars, tf0
  <1>3. page = <<>> => pc' = "append" /\ cursor' = cursor /\ got' = got
    BY DEF FetchPage
  <1>4. page # <<>> =>
            /\ got' = got \o Picked(page, I)
            /\ \/ pc' = "append" /\ cursor' = cursor
               \/ ~LastPage(page, next) /\ cursor' = next /\ pc' = "page"
    BY <1>1 DEF FetchPage
  <1>5. page # <<>> =>
            /\ \A i \in 1..Len(got') : Kept(tf0, got'[i], now)
            /\ next \in Nat
            /\ \E hi \in Nat : cursor <= hi /\ Covers(tf0, got', since, hi)
            /\ ~LastPage(page, next) => cursor <= next /\ Covers(tf0, got', since, next)
    <2> HIDE DEF page
    <2> SUFFICES ASSUME page # <<>>
                 PROVE  /\ \A i \in 1..Len(got') : Kept(tf0, got'[i], now)
                        /\ next \in Nat
                        /\ \E hi \in Nat : cursor <= hi /\ Covers(tf0, got', since, hi)
                        /\ ~LastPage(page, next) =>
                                cursor <= next /\ Covers(tf0, got', since, next)
      OBVIOUS
    <2>1. page = Page
      BY DEF page
    <2> HIDE DEF next, I
    <2>2. next = Last(page).open + Interval[tf0] /\ I = {i \in DOMAIN page : InRange(page[i])}
      BY DEF next, I
    <2>3. CandleInv /\ FetchPage /\ page # <<>>
      OBVIOUS
    <2> DEFINE r == got \o Picked(page, I)
    <2>4. /\ \A i \in 1..Len(r) : Kept(tf0, r[i], now)
          /\ next \in Nat
          /\ \E hi \in Nat : cursor <= hi /\ Covers(tf0, r, since, hi)
          /\ ~LastPage(page, next) => cursor <= next /\ Covers(tf0, r, since, next)
      BY <2>1, <2>2, <2>3, PageAdds
    <2>5. got' = r
      BY <1>4
    <2> HIDE DEF r
    <2> QED
      BY <2>4, <2>5
  <1> HIDE DEF page, next, I
  <1>6. pc' \in {"page", "append"} /\ cursor' \in Nat
    BY <1>1, <1>3, <1>4, <1>5
  <1>7. FetchTypes'
    BY <1>1, <1>2, <1>6 DEF FetchTypes
  <1>8. FilesInv'
    BY <1>1, <1>2 DEF FilesInv
  <1>9. PagesInv'
    <2>1. /\ ~LastOpenFails(files[tf0]) /\ since = ResumePoint(tf0) /\ since <= cursor
          /\ \A i \in 1..Len(got) : Kept(tf0, got[i], now)
          /\ Covers(tf0, got, since, cursor)
      BY <1>1 DEF CandleInv, PagesInv
    <2>2. since \in Nat /\ cursor \in Nat
      BY <1>1 DEF FetchTypes
    <2>3. since' <= cursor' /\ \A i \in 1..Len(got') : Kept(tf0, got'[i], now)
      BY <1>2, <1>3, <1>4, <1>5, <2>1, <2>2
    <2>4. \E hi \in Nat : /\ since <= hi /\ Covers(tf0, got', since, hi)
                          /\ pc' = "page" => hi = cursor'
      <3>1. CASE page = <<>>
        BY <1>3, <2>1, <2>2, <3>1
      <3>2. CASE page # <<>> /\ pc' = "append"
        <4>1. PICK hi \in Nat : cursor <= hi /\ Covers(tf0, got', since, hi)
          BY <1>5, <3>2
        <4>2. since <= hi
          BY <2>1, <2>2, <4>1
        <4> QED
          BY <3>2, <4>1, <4>2
      <3>3. CASE page # <<>> /\ pc' = "page"
        <4>1. cursor' = next /\ next \in Nat /\ cursor <= next /\ Covers(tf0, got', since, next)
          BY <1>4, <1>5, <3>3
        <4>2. since <= next
          BY <2>1, <2>2, <4>1
        <4> QED
          BY <4>1, <4>2
      <3> QED
        BY <1>6, <3>1, <3>2, <3>3
    <2>5. ~LastOpenFails(files[tf0])' /\ (since = ResumePoint(tf0))'
      BY <1>2, <2>1 DEF ResumePoint
    <2> QED
      BY <1>2, <2>3, <2>4, <2>5 DEF PagesInv
  <1>10. ManifestInv'
    BY <1>6 DEF ManifestInv
  <1>11. ReadableUnlessKilled'
    BY <1>2 DEF CandleInv, ReadableUnlessKilled, Readable
  <1> QED
    BY <1>7, <1>8, <1>9, <1>10, <1>11 DEF CandleInv

(* Neither a request that fails nor the clock touches anything. *)
LEMMA RetryPageKeeps == CandleInv /\ RetryPage => CandleInv'
  <1> SUFFICES ASSUME CandleInv, RetryPage
               PROVE  CandleInv'
    OBVIOUS
  <1>1. /\ UNCHANGED <<now, source, files, manifest, pc, todo, start, until, since, cursor,
                       got, outcome, kills, tf0>>
    BY DEF RetryPage, worldVars, storeVars, callVars, tf0
  <1>2. FetchTypes' /\ FilesInv' /\ ManifestInv'
    BY <1>1 DEF CandleInv, FetchTypes, FilesInv, ManifestInv, Describable, Present, Readable
  <1>3. PagesInv'
    BY <1>1 DEF CandleInv, PagesInv, ResumePoint, LastOpenFails
  <1>4. ReadableUnlessKilled'
    BY <1>1 DEF CandleInv, ReadableUnlessKilled, Readable
  <1> QED
    BY <1>2, <1>3, <1>4 DEF CandleInv

(* The clock goes on; what was closed stays closed. *)
LEMMA TickKeeps == CandleInv /\ Tick => CandleInv'
  <1> SUFFICES ASSUME CandleInv, Tick
               PROVE  CandleInv'
    OBVIOUS
  <1>1. /\ UNCHANGED <<source, files, manifest, pc, todo, start, until, since, cursor,
                       got, outcome, kills, tf0>>
        /\ now' = now + 1 /\ now \in Nat
    BY DEF Tick, fetchVars, tf0, CandleInv, FetchTypes
  <1>2. FetchTypes'
    <2>1. FetchTypes /\ (until <= now => until <= now + 1)
      BY <1>1 DEF CandleInv, FetchTypes
    <2> QED
      BY <1>1, <2>1 DEF FetchTypes
  <1>3. FilesInv'
    BY <1>1, StoredOn DEF CandleInv, FilesInv
  <1>4. PagesInv'
    <2> SUFFICES ASSUME pc \in {"page", "append"}
                 PROVE  PagesInv'
      BY <1>1 DEF PagesInv
    <2>1. tf0 \in Timeframes
      BY Fetching DEF CandleInv, FetchTypes
    <2>2. /\ ~LastOpenFails(files[tf0]) /\ since = ResumePoint(tf0) /\ since <= cursor
          /\ \A i \in 1..Len(got) : Kept(tf0, got[i], now)
          /\ \E hi \in Nat : /\ since <= hi /\ Covers(tf0, got, since, hi)
                             /\ pc = "page" => hi = cursor
      BY DEF CandleInv, PagesInv
    <2>3. \A i \in 1..Len(got) : Kept(tf0, got[i], now + 1)
      BY <1>1, <2>1, <2>2, KeptOn
    <2>4. (since = ResumePoint(tf0))' /\ (~LastOpenFails(files[tf0]))'
      BY <1>1, <2>2 DEF ResumePoint
    <2>5. (\E hi \in Nat : /\ since <= hi /\ Covers(tf0, got, since, hi)
                           /\ pc = "page" => hi = cursor)'
      BY <1>1, <2>2
    <2>6. (since <= cursor)' /\ (\A i \in 1..Len(got) : Kept(tf0, got[i], now))'
      BY <1>1, <2>2, <2>3
    <2> QED
      BY <2>4, <2>5, <2>6 DEF PagesInv
  <1>5. ManifestInv'
    BY <1>1 DEF CandleInv, ManifestInv, Describable, Present, Readable
  <1>6. ReadableUnlessKilled'
    BY <1>1 DEF CandleInv, ReadableUnlessKilled, Readable
  <1> QED
    BY <1>2, <1>3, <1>4, <1>5, <1>6 DEF CandleInv

(* A file written: the others are what they were. *)
LEMMA WriteKeepsFiles ==
    ASSUME FilesInv, NEW tf \in Timeframes, NEW g, Stored(tf, g, now),
           files' = [files EXCEPT ![tf] = g], now' = now
    PROVE  FilesInv'
  <1>1. g \in File
    BY DEF Stored
  <1>2. files' \in [Timeframes -> File]
    BY <1>1 DEF FilesInv
  <1>3. \A t \in Timeframes : Stored(t, files'[t], now)
    BY DEF FilesInv
  <1> QED
    BY <1>2, <1>3 DEF FilesInv

(* An append goes on from the last candle of the file. *)
LEMMA AppendKeeps == CandleInv /\ AppendCandles => CandleInv'
  <1> SUFFICES ASSUME CandleInv, AppendCandles
               PROVE  CandleInv'
    OBVIOUS
  <1> DEFINE f == files[tf0]
             g == Written(f, Fresh, TRUE)
  <1>1. FetchTypes /\ FilesInv /\ PagesInv /\ pc = "append" /\ ReadableUnlessKilled
    BY DEF CandleInv, AppendCandles
  <1>2. /\ tf0 \in Timeframes /\ todo # <<>>
        /\ Series(tf0, Fresh, now) /\ Joins(tf0, f.lines, Fresh)
        /\ \E hi \in Nat : Covers(tf0, Fresh, since, hi)
    BY <1>1, FreshSeries
  <1>3. /\ UNCHANGED <<now, source, manifest, todo, start, until, since, cursor, kills>>
        /\ pc' = "summarize"
        /\ files' = IF Fresh = <<>> THEN files ELSE [files EXCEPT ![tf0] = g]
    BY DEF AppendCandles, worldVars, callVars, pageVars
  <1>4. FetchTypes'
    BY <1>1, <1>2, <1>3 DEF FetchTypes
  <1>5. Stored(tf0, g, now)
    BY <1>1, <1>2, WrittenStored DEF FilesInv
  <1>6. FilesInv'
    <2>1. CASE Fresh = <<>>
      BY <1>1, <1>3, <2>1 DEF FilesInv
    <2>2. CASE Fresh # <<>>
      <3> HIDE DEF g
      <3>1. files' = [files EXCEPT ![tf0] = g]
        BY <1>3, <2>2
      <3> QED
        BY <1>1, <1>2, <1>3, <1>5, <3>1, WriteKeepsFiles
    <2> QED
      BY <2>1, <2>2
  <1>7. PagesInv' /\ ManifestInv'
    BY <1>3 DEF PagesInv, ManifestInv
  <1>8. ReadableUnlessKilled'
    <2> SUFFICES ASSUME kills = 0, Fresh # <<>>
                 PROVE  Readable(g) /\ g.ended
      <3>1. CASE kills # 0 \/ Fresh = <<>>
        BY <1>1, <1>3, <3>1 DEF ReadableUnlessKilled, Readable
      <3>2. CASE kills = 0 /\ Fresh # <<>>
        <4>1. Readable(g) /\ g.ended
          BY <3>2
        <4>2. \A tf \in Timeframes : Readable(files[tf]) /\ files[tf].ended
          BY <1>1, <3>2 DEF ReadableUnlessKilled
        <4> HIDE DEF g
        <4>3. \A tf \in Timeframes : files'[tf] = IF tf = tf0 THEN g ELSE files[tf]
          BY <1>1, <1>3, <3>2 DEF FilesInv
        <4>4. \A tf \in Timeframes : Readable(files'[tf]) /\ files'[tf].ended
          BY <4>1, <4>2, <4>3
        <4> QED
          BY <4>4 DEF ReadableUnlessKilled, Readable
      <3> QED
        BY <3>1, <3>2
    <2> DEFINE new == Fresh
               s == f.lines
    <2>1. Readable(f) /\ f.ended
      BY <1>1, <1>2 DEF ReadableUnlessKilled
    <2>2. new \in Seq(Candle) /\ s \in Seq(Line)
      BY <1>1, <1>2 DEF Covers, FilesInv, Stored, Series
    <2>3. g.lines = s \o new /\ g.ended
      BY <2>1 DEF Written, Joined
    <2>4. \A i \in 1..Len(s) : s[i] # Torn
      BY <2>1, <2>2 DEF Readable, Range
    <2> HIDE DEF g, s, new
    <2>5. \A i \in 1..Len(new) : new[i] # Torn
      <3>1. \A i \in 1..Len(new) : new[i] \in Candle
        BY <2>2
      <3> QED
        BY <3>1, CandleFields
    <2> DEFINE r == s \o new
    <2>6. new \in Seq(Line)
      BY <2>2 DEF Line
    <2>7. /\ r \in Seq(Line) /\ Len(r) = Len(s) + Len(new)
          /\ \A i \in 1..Len(s) : r[i] = s[i]
          /\ \A i \in 1..Len(new) : r[Len(s) + i] = new[i]
      BY <2>2, <2>6
    <2> HIDE DEF r
    <2>8. \A i \in 1..Len(r) : r[i] # Torn
      <3> SUFFICES ASSUME NEW i \in 1..Len(r), i \notin 1..Len(s)
                   PROVE  r[i] # Torn
        BY <2>4, <2>7
      <3> DEFINE j == i - Len(s)
      <3>1. j \in 1..Len(new) /\ i = Len(s) + j
        <4>1. Len(s) \in Nat /\ Len(new) \in Nat
          BY <2>2
        <4> QED
          BY <2>7, <4>1
      <3> HIDE DEF j
      <3> QED
        BY <2>5, <2>7, <3>1
    <2>9. Torn \notin Range(r)
      BY <2>7, <2>8 DEF Range
    <2> QED
      BY <2>3, <2>9 DEF Readable, r
  <1> QED
    BY <1>4, <1>6, <1>7, <1>8 DEF CandleInv

(* Reading a file back changes none. *)
LEMMA SummarizeKeeps == CandleInv /\ Summarize => CandleInv'
  <1> SUFFICES ASSUME CandleInv, Summarize
               PROVE  CandleInv'
    OBVIOUS
  <1>1. FetchTypes /\ todo # <<>> /\ tf0 \in Timeframes /\ Tail(todo) \in Seq(Timeframes)
    BY Fetching DEF CandleInv, FetchTypes, Summarize
  <1>2. /\ UNCHANGED <<now, source, files, manifest, start, until, kills>>
        /\ todo' = Tail(todo)
        /\ \/ pc' = "resume" /\ todo' # <<>>
           \/ pc' = "manifest"
        /\ since' = 0 /\ cursor' = 0 /\ pc = "summarize"
    BY DEF Summarize, worldVars, storeVars
  <1>3. FetchTypes'
    BY <1>1, <1>2 DEF FetchTypes
  <1>4. FilesInv' /\ PagesInv' /\ ManifestInv'
    BY <1>2 DEF CandleInv, FilesInv, PagesInv, ManifestInv
  <1>5. ReadableUnlessKilled'
    BY <1>2 DEF CandleInv, ReadableUnlessKilled, Readable
  <1> QED
    BY <1>3, <1>4, <1>5 DEF CandleInv

(* A command that fails leaves the files as they are. *)
LEMMA FailureKeeps ==
    CandleInv /\ (ResumeFails \/ PageFails \/ SummarizeFails \/ RebuildFails) => CandleInv'
  <1> SUFFICES ASSUME CandleInv, ResumeFails \/ PageFails \/ SummarizeFails \/ RebuildFails
               PROVE  CandleInv'
    OBVIOUS
  <1>1. Finish("failed") /\ UNCHANGED <<worldVars, files, kills>>
    BY DEF ResumeFails, PageFails, SummarizeFails, RebuildFails, storeVars
  <1> QED
    BY <1>1, FinishKeeps

(* The manifest is what the files say when it is written. *)
LEMMA RebuildKeeps == CandleInv /\ RebuildManifest => CandleInv'
  <1> SUFFICES ASSUME CandleInv, RebuildManifest
               PROVE  CandleInv'
    OBVIOUS
  <1>1. Finish("ok") /\ UNCHANGED <<worldVars, files, kills>>
    BY DEF RebuildManifest
  <1>2. ManifestInv'
    BY DEF RebuildManifest, ManifestInv, Describable, Present, Readable
  <1> QED
    BY <1>1, <1>2, FinishKeeps

(* A kill leaves any part of what an append was writing. *)
LEMMA KillKeeps == CandleInv /\ Kill => CandleInv'
  <1> SUFFICES ASSUME CandleInv, Kill
               PROVE  CandleInv'
    OBVIOUS
  <1>1. FetchTypes /\ FilesInv /\ PagesInv /\ Finish("killed") /\ now' = now
        /\ source' = source /\ kills' = kills + 1 /\ kills \in Nat
    BY DEF CandleInv, FetchTypes, Kill, worldVars
  <1>2. FetchTypes'
    <2>1. <<>> \in Seq(Timeframes)
      OBVIOUS
    <2> QED
      BY <1>1, <2>1 DEF FetchTypes, Finish
  <1>3. FilesInv'
    <2>1. CASE files' = files
      BY <1>1, <2>1 DEF FilesInv
    <2>2. CASE /\ pc = "append"
               /\ \E f \in Remains(files[tf0], Fresh) : files' = [files EXCEPT ![tf0] = f]
      <3>1. PICK g \in Remains(files[tf0], Fresh) : files' = [files EXCEPT ![tf0] = g]
        BY <2>2
      <3>2. /\ tf0 \in Timeframes
            /\ Series(tf0, Fresh, now) /\ Joins(tf0, files[tf0].lines, Fresh)
        BY <1>1, <2>2, FreshSeries
      <3>3. Stored(tf0, files[tf0], now)
        BY <1>1, <3>2 DEF FilesInv
      <3>4. Stored(tf0, g, now)
        BY <3>2, <3>3, RemainsStored
      <3> QED
        BY <1>1, <3>1, <3>2, <3>4, WriteKeepsFiles
    <2> QED
      BY <2>1, <2>2 DEF Kill, storeVars
  <1>4. PagesInv' /\ ManifestInv'
    BY <1>1 DEF PagesInv, ManifestInv, Finish
  <1>5. ReadableUnlessKilled'
    <2>1. kills' # 0
      BY <1>1
    <2> QED
      BY <2>1 DEF ReadableUnlessKilled
  <1> QED
    BY <1>2, <1>3, <1>4, <1>5 DEF CandleInv

(* Every step keeps the invariant. *)
LEMMA CandleStep == CandleInv /\ [Next]_vars => CandleInv'
  <1> SUFFICES ASSUME CandleInv, [Next]_vars
               PROVE  CandleInv'
    OBVIOUS
  <1>1. CASE UNCHANGED vars
    <2>1. UNCHANGED <<now, source, files, manifest, pc, todo, start, until, since, cursor,
                      got, outcome, kills, tf0>>
      BY <1>1 DEF vars, worldVars, fetchVars, tf0
    <2>2. FetchTypes' /\ FilesInv' /\ ManifestInv'
      BY <2>1 DEF CandleInv, FetchTypes, FilesInv, ManifestInv, Describable, Present, Readable
    <2>3. PagesInv' /\ ReadableUnlessKilled'
      BY <2>1
      DEF CandleInv, PagesInv, ResumePoint, LastOpenFails, ReadableUnlessKilled, Readable
    <2> QED
      BY <2>2, <2>3 DEF CandleInv
  <1>2. CASE StartFetch
    BY <1>2, StartFetchKeeps
  <1>3. CASE Resume
    BY <1>3, ResumeKeeps
  <1>4. CASE FetchPage
    BY <1>4, FetchPageKeeps
  <1>5. CASE AppendCandles
    BY <1>5, AppendKeeps
  <1>6. CASE Summarize
    BY <1>6, SummarizeKeeps
  <1>7. CASE RebuildManifest
    BY <1>7, RebuildKeeps
  <1>8. CASE ResumeFails \/ PageFails \/ SummarizeFails \/ RebuildFails
    BY <1>8, FailureKeeps
  <1>9. CASE RetryPage
    BY <1>9, RetryPageKeeps
  <1>10. CASE Kill
    BY <1>10, KillKeeps
  <1>11. CASE Tick
    BY <1>11, TickKeeps
  <1> QED
    BY <1>1, <1>2, <1>3, <1>4, <1>5, <1>6, <1>7, <1>8, <1>9, <1>10, <1>11 DEF Next, Command

(* The invariant of the candle store (stores/simulation_store.py,
   managers/simulation_manager.py): the files hold series, and what the
   pages have brought goes on from them. *)
THEOREM CandleInvariant == Spec => []CandleInv
  BY CandleStarts, CandleStep, PTL DEF Spec

(* Only a kill in the middle of an append spoils a series. *)
THEOREM SeriesStayReadable == Spec => []ReadableUnlessKilled
  <1>1. CandleInv => ReadableUnlessKilled
    BY DEF CandleInv
  <1> QED
    BY <1>1, CandleInvariant, PTL

(* A candle stored is one the venue will not change any more, as long as no
   fetch is asked for candles of the future: with --end ahead of the clock the
   candle still forming is taken too. *)
THEOREM StoredAreFinal ==
    ASSUME MaxAhead = 0
    PROVE  Spec => []StoredCandlesAreFinal
  <1>1. CandleInv => StoredCandlesAreFinal
    <2> SUFFICES ASSUME CandleInv, NEW tf \in Timeframes, NEW c \in Range(files[tf].lines),
                        c # Torn
                 PROVE  c.final
      BY DEF StoredCandlesAreFinal
    <2>1. Series(tf, files[tf].lines, now)
      BY DEF CandleInv, FilesInv, Stored
    <2> DEFINE s == files[tf].lines
    <2> HIDE DEF s
    <2>2. s \in Seq(Line) /\ Series(tf, s, now) /\ c \in Range(s)
      BY <2>1 DEF Series, s
    <2>3. PICK i \in 1..Len(s) : s[i] = c
      BY <2>2 DEF Range
    <2> QED
      BY <2>2, <2>3 DEF Series, Kept
  <1> QED
    BY <1>1, CandleInvariant, PTL

----------------------------------------------------------------------------
(* 4. The manifest. *)

(* The opens of candles that leave none of tf out. *)
Chain(tf, o) ==
    /\ o \in Seq(Nat)
    /\ \A i \in 1..Len(o) : o[i] \in Published[tf]
    /\ \A i \in 1..(Len(o) - 1) : Follows(tf, o[i], o[i + 1])

(* They are in order. *)
LEMMA ChainRises ==
    ASSUME NEW tf, NEW o, Chain(tf, o), NEW i \in 1..Len(o), NEW j \in 1..Len(o), i < j
    PROVE  o[i] < o[j]
  <1>1. o \in Seq(Nat) /\ Len(o) \in Nat /\ \A k \in 1..Len(o) : o[k] \in Nat
    BY DEF Chain
  <1>2. \A k \in 1..(Len(o) - 1) : o[k] < o[k + 1]
    BY DEF Chain, Follows
  <1> DEFINE A == {n \in Nat : i + 1 + n \in 1..Len(o) => o[i] < o[i + 1 + n]}
  <1>3. 0 \in A
    BY <1>1, <1>2
  <1>4. ASSUME NEW n \in Nat, n \in A
        PROVE  n + 1 \in A
    <2> SUFFICES ASSUME i + 1 + (n + 1) \in 1..Len(o)
                 PROVE  o[i] < o[i + 1 + (n + 1)]
      OBVIOUS
    <2> DEFINE k == i + 1 + n
    <2>1. k \in 1..(Len(o) - 1) /\ k \in 1..Len(o) /\ k + 1 \in 1..Len(o)
          /\ i + 1 + (n + 1) = k + 1
      <3>1. i \in Nat \ {0} /\ Len(o) \in Nat
        BY <1>1
      <3>2. k \in Nat \ {0} /\ k + 1 = i + 1 + (n + 1) /\ k + 1 <= Len(o)
        BY <3>1
      <3> HIDE DEF k
      <3> QED
        BY <3>1, <3>2
    <2>2. o[i] < o[k]
      BY <1>4, <2>1
    <2> HIDE DEF k
    <2>3. o[i] < o[k + 1]
      <3>1. o[i] \in Nat /\ o[k] \in Nat /\ o[k + 1] \in Nat
        BY <1>1, <2>1
      <3>2. o[k] < o[k + 1]
        BY <1>2, <2>1
      <3> QED
        BY <2>2, <3>1, <3>2
    <2> QED
      BY <2>1, <2>3
  <1> HIDE DEF A
  <1>5. Nat \subseteq A
    BY <1>3, <1>4, NatSetInduction
  <1>6. j - i - 1 \in Nat /\ j = i + 1 + (j - i - 1)
    BY <1>1
  <1>7. j - i - 1 \in A
    BY <1>5, <1>6
  <1> QED
    BY <1>6, <1>7 DEF A

(* A number within the range of a list is in it, or between two neighbours. *)
LEMMA InOrBetween ==
    ASSUME NEW o \in Seq(Nat), Len(o) > 0, NEW t \in Int, o[1] <= t, t <= o[Len(o)]
    PROVE  \/ \E i \in 1..Len(o) : o[i] = t
           \/ \E i \in 1..(Len(o) - 1) : o[i] < t /\ t < o[i + 1]
  <1> DEFINE n == Len(o)
             S == {i \in 1..n : o[i] <= t}
  <1>1. n \in Nat /\ n > 0 /\ \A i \in 1..n : o[i] \in Nat
    OBVIOUS
  <1>2. S \in SUBSET Int /\ IsFiniteSet(S) /\ S # {}
    <2>1. IsFiniteSet(1..n) /\ 1..n \subseteq Int
      BY <1>1, FS_Interval
    <2>2. S \in SUBSET (1..n) /\ 1 \in S
      BY <1>1
    <2> HIDE DEF S, n
    <2> QED
      BY <2>1, <2>2, FS_Subset
  <1>3. PICK m \in S : \A k \in S : k <= m
    <2> HIDE DEF S
    <2> QED
      BY <1>2, GreatestNumber
  <1> HIDE DEF n
  <1>4. m \in 1..n /\ o[m] <= t
    BY <1>3
  <1>5. CASE o[m] = t
    BY <1>4, <1>5 DEF n
  <1>6. CASE o[m] # t
    <2>1. m # n
      BY <1>1, <1>4, <1>6 DEF n
    <2>2. m \in 1..(n - 1) /\ m + 1 \in 1..n
      BY <1>1, <1>4, <2>1
    <2>3. ~(o[m + 1] <= t)
      <3>1. m + 1 \notin S
        BY <1>3, <1>4
      <3> QED
        BY <2>2, <3>1
    <2>4. o[m] < t /\ t < o[m + 1]
      BY <1>1, <1>4, <1>6, <2>2, <2>3
    <2> QED
      BY <2>2, <2>4 DEF n
  <1> QED
    BY <1>5, <1>6

(* What the venue published within the range of a chain is in it. *)
LEMMA ChainHoldsAll ==
    ASSUME NEW tf \in Timeframes, NEW o, Chain(tf, o), Len(o) > 0,
           NEW t \in Published[tf], o[1] <= t, t <= o[Len(o)]
    PROVE  \E i \in 1..Len(o) : o[i] = t
  <1>1. o \in Seq(Nat) /\ t \in Int
    BY OfTimeframe DEF Chain
  <1>2. ~ \E i \in 1..(Len(o) - 1) : o[i] < t /\ t < o[i + 1]
    BY DEF Chain, Follows
  <1> QED
    BY <1>1, <1>2, InOrBetween

(* S has the multiples of d from a to b. *)
SlotsAre(S, d, a, b) ==
    /\ IsFiniteSet(S) /\ S \in SUBSET Int
    /\ Cardinality(S) = (b - a) \div d + 1
    /\ \A t \in a..b : t \in S <=> t % d = 0

(* The multiples of d from one to another, counted. *)
LEMMA SlotsCounted ==
    ASSUME NEW d \in Nat \ {0}, NEW a \in Nat, NEW b \in Nat, a % d = 0, b % d = 0, a <= b,
           NEW S, S = {t \in a..b : (t - a) % d = 0}
    PROVE  SlotsAre(S, d, a, b)
  <1> DEFINE k == (b - a) \div d
             s == [q \in 1..(k + 1) |-> a + d * (q - 1)]
  <1>1. b - a \in Nat /\ (b - a) % d = 0
    <2>1. a \in Int /\ b \in Int /\ b - a \in Nat
      OBVIOUS
    <2>2. (b - a) % d = 0
      BY <2>1, DistanceOfMultiples
    <2> QED
      BY <2>1, <2>2
  <1>2. k \in Int /\ b - a = d * k
    BY <1>1, MultipleOf
  <1> HIDE DEF k
  <1>3. k \in Nat
    <2>1. k < 0 => d * k < 0
      BY <1>2
    <2> QED
      BY <1>1, <1>2, <2>1
  <1>4. \A q \in 1..(k + 1) : s[q] \in S
    <2> SUFFICES ASSUME NEW q \in 1..(k + 1)
                 PROVE  a + d * (q - 1) \in S
      OBVIOUS
    <2> DEFINE p == q - 1
    <2>1. p \in Nat /\ p <= k
      BY <1>3
    <2> HIDE DEF p
    <2>2. d * p \in Nat /\ d * p <= d * k
      BY <1>3, <2>1
    <2>3. (d * p) % d = 0
      BY <2>1
    <2>4. a + d * p \in a..b /\ (a + d * p) - a = d * p
      BY <1>2, <1>3, <2>2
    <2> QED
      BY <2>3, <2>4 DEF p
  <1>5. s \in Seq(S) /\ Len(s) = k + 1
    <2>1. s \in [1..(k + 1) -> S]
      BY <1>4
    <2> HIDE DEF s
    <2> QED
      BY <1>3, <2>1
  <1>6. \A i, j \in 1..(k + 1) : i < j => s[i] < s[j]
    <2> SUFFICES ASSUME NEW i \in 1..(k + 1), NEW j \in 1..(k + 1), i < j
                 PROVE  a + d * (i - 1) < a + d * (j - 1)
      OBVIOUS
    <2> DEFINE x == i - 1
               y == j - 1
    <2>1. x \in Nat /\ y \in Nat /\ x + 1 <= y
      BY <1>3
    <2> HIDE DEF x, y
    <2>2. d * (x + 1) <= d * y
      BY <2>1
    <2>3. d * x + d <= d * y
      BY <2>1, <2>2
    <2>4. d * x \in Nat /\ d * y \in Nat
      BY <2>1
    <2>5. a + d * x < a + d * y
      BY <2>3, <2>4
    <2> QED
      BY <2>5 DEF x, y
  <1>7. \A t \in S : \E i \in 1..(k + 1) : s[i] = t
    <2> SUFFICES ASSUME NEW t \in S
                 PROVE  \E i \in 1..(k + 1) : s[i] = t
      OBVIOUS
    <2> DEFINE p == (t - a) \div d
    <2>1. t \in a..b /\ t - a \in Nat /\ (t - a) % d = 0
      OBVIOUS
    <2>2. p \in Int /\ t - a = d * p
      BY <2>1, MultipleOf
    <2> HIDE DEF p
    <2>3. p \in Nat
      <3>1. p < 0 => d * p < 0
        BY <2>2
      <3> QED
        BY <2>1, <2>2, <3>1
    <2>4. p <= k
      <3>1. d * p <= d * k
        BY <1>1, <1>2, <1>3, <2>1, <2>2, <2>3
      <3>2. k + 1 <= p => d * (k + 1) <= d * p
        BY <1>3, <2>3
      <3>3. d * (k + 1) = d * k + d /\ d * k \in Nat /\ d * p \in Nat
        BY <1>3, <2>3
      <3> QED
        BY <1>3, <2>3, <3>1, <3>2, <3>3
    <2>5. p + 1 \in 1..(k + 1) /\ s[p + 1] = a + d * p
      <3>1. p + 1 \in 1..(k + 1) /\ (p + 1) - 1 = p
        BY <1>3, <2>3, <2>4
      <3> QED
        BY <3>1
    <2>6. a + d * p = t
      BY <2>1, <2>2, <2>3
    <2> QED
      BY <2>5, <2>6
  <1>8. S \in SUBSET Int
    OBVIOUS
  <1> HIDE DEF s
  <1>9. IsFiniteSet(S) /\ Cardinality(S) = k + 1
    BY <1>5, <1>6, <1>7, <1>8, AscendingIsTheList
  <1>10. ASSUME NEW t \in a..b
         PROVE  t \in S <=> t % d = 0
    <2>1. ASSUME t % d = 0
          PROVE  (t - a) % d = 0
      <3>1. a \in Int /\ t \in Int
        OBVIOUS
      <3> QED
        BY <2>1, <3>1, DistanceOfMultiples
    <2>2. ASSUME (t - a) % d = 0
          PROVE  t % d = 0
      <3> DEFINE p == (t - a) \div d
                 q == a \div d
      <3>1. p \in Int /\ t - a = d * p /\ q \in Int /\ a = d * q
        BY <2>2, MultipleOf
      <3> HIDE DEF p, q
      <3>2. t = d * (p + q)
        BY <3>1
      <3>3. (d * (p + q)) % d = 0
        BY <3>1
      <3> QED
        BY <3>2, <3>3
    <2> QED
      BY <2>1, <2>2
  <1> QED
    BY <1>8, <1>9, <1>10 DEF k, SlotsAre

(* Two candles lie more than an interval apart just when there is a time for
   one between them. *)
LEMMA RoomBetween ==
    ASSUME NEW d \in Nat \ {0}, NEW a \in Nat, NEW b \in Nat, NEW t \in Nat,
           a % d = 0, b % d = 0, t % d = 0, a < t, t < b
    PROVE  (b - a) \div d - 1 > 0
  <1> DEFINE q == (b - a) \div d
  <1>0. a \in Int /\ b \in Int /\ t \in Int /\ b - a \in Int
    OBVIOUS
  <1>1. a + d <= t /\ t + d <= b
    <2>1. a + d <= t
      BY <1>0, MultiplesApart
    <2>2. t + d <= b
      BY <1>0, MultiplesApart
    <2> QED
      BY <2>1, <2>2
  <1>2. (b - a) % d = 0 /\ b - a \in Int
    BY <1>0, DistanceOfMultiples
  <1>3. q \in Int /\ b - a = d * q
    BY <1>2, MultipleOf
  <1> HIDE DEF q
  <1>4. d * q >= d + d
    BY <1>1, <1>3
  <1>5. q <= 1 => d * q <= d
    BY <1>3
  <1>6. q > 1
    BY <1>3, <1>4, <1>5
  <1>7. q - 1 > 0
    BY <1>3, <1>6
  <1> QED
    BY <1>7 DEF q

(* The times of S within the gaps G. *)
Within(S, G) == UNION {{t \in S : g.after < t /\ t < g.before} : g \in G}

(* What the manifest counts as missing, and where it says it is missing, is
   what the venue did not publish. *)
LEMMA GapsFound ==
    ASSUME NEW tf \in Timeframes, NEW o, Chain(tf, o), Len(o) > 0,
           NEW S, S = {t \in o[1]..o[Len(o)] : (t - o[1]) % Interval[tf] = 0}
    PROVE  /\ Cardinality(S \ Published[tf]) =
                  ((o[Len(o)] - o[1]) \div Interval[tf] + 1) - Len(o)
           /\ Within(S, GapsOf(o, Interval[tf])) = S \ Published[tf]
  <1> DEFINE n == Len(o)
             a == o[1]
             b == o[n]
             d == Interval[tf]
             O == {o[i] : i \in 1..n}
  <1>1. /\ o \in Seq(Nat) /\ n \in Nat /\ n > 0 /\ 1 \in 1..n /\ n \in 1..n
        /\ \A i \in 1..n : o[i] \in Nat /\ o[i] \in Published[tf]
        /\ \A i \in 1..(n - 1) : Follows(tf, o[i], o[i + 1])
    <2>1. o \in Seq(Nat) /\ n \in Nat /\ n > 0
      BY DEF Chain
    <2>2. 1 \in 1..n /\ n \in 1..n /\ \A i \in 1..n : o[i] \in Nat
      BY <2>1
    <2> QED
      BY <2>1, <2>2 DEF Chain
  <1>2. /\ d \in Nat \ {0}
        /\ \A t \in Published[tf] : t \in Nat /\ t % d = 0
    BY OfTimeframe
  <1>3. \A i, j \in 1..n : i < j => o[i] < o[j]
    BY ChainRises
  <1>4. \A i \in 1..n : a <= o[i] /\ o[i] <= b
    <2> SUFFICES ASSUME NEW i \in 1..n
                 PROVE  a <= o[i] /\ o[i] <= b
      OBVIOUS
    <2>1. o[1] \in Nat /\ o[i] \in Nat /\ o[n] \in Nat
      BY <1>1
    <2>2. i = 1 \/ 1 < i
      BY <1>1
    <2>3. i = n \/ i < n
      BY <1>1
    <2>4. o[1] <= o[i]
      BY <1>1, <1>3, <2>1, <2>2
    <2>5. o[i] <= o[n]
      BY <1>1, <1>3, <2>1, <2>3
    <2> QED
      BY <2>4, <2>5
  <1>5. a \in Nat /\ b \in Nat /\ a % d = 0 /\ b % d = 0 /\ a <= b
    BY <1>1, <1>2, <1>4
  <1> HIDE DEF a, b, d, n
  <1>6. S = {t \in a..b : (t - a) % d = 0}
    BY DEF a, b, d, n
  <1>7. /\ IsFiniteSet(S) /\ S \in SUBSET Int
        /\ Cardinality(S) = (b - a) \div d + 1
        /\ \A t \in a..b : t \in S <=> t % d = 0
    <2>1. d \in Nat \ {0} /\ a \in Nat /\ b \in Nat /\ a % d = 0 /\ b % d = 0 /\ a <= b
      BY <1>2, <1>5
    <2>2. S = {t \in a..b : (t - a) % d = 0}
      BY <1>6
    <2> HIDE DEF O
    <2>3. SlotsAre(S, d, a, b)
      BY <2>1, <2>2, SlotsCounted
    <2> QED
      BY <2>3 DEF SlotsAre
  <1>8. \A t \in S : t \in a..b /\ t \in Nat /\ t % d = 0
    BY <1>5, <1>6, <1>7
  <1>9. O \in SUBSET Int /\ o \in Seq(O) /\ n = Len(o)
    <2>1. \A i \in 1..n : o[i] \in O
      OBVIOUS
    <2>2. O \in SUBSET Int
      BY <1>1
    <2> HIDE DEF O
    <2>3. o \in Seq(O)
      BY <1>1, <2>1 DEF n
    <2> QED
      BY <2>2, <2>3 DEF n
  <1>10. IsFiniteSet(O) /\ Cardinality(O) = n
    <2>1. \A t \in O : \E i \in 1..n : o[i] = t
      OBVIOUS
    <2> HIDE DEF O
    <2> QED
      BY <1>3, <1>9, <2>1, AscendingIsTheList
  <1>11. S \cap Published[tf] = O
    <2>1. ASSUME NEW t \in S, t \in Published[tf]
          PROVE  t \in O
      <3>1. a <= t /\ t <= b
        BY <1>5, <1>8
      <3>2. \E i \in 1..n : o[i] = t
        BY <1>1, <2>1, <3>1, ChainHoldsAll DEF a, b, n
      <3> QED
        BY <3>2
    <2>2. ASSUME NEW i \in 1..n
          PROVE  o[i] \in S /\ o[i] \in Published[tf]
      <3>1. o[i] \in a..b
        BY <1>1, <1>4, <1>5
      <3> QED
        BY <1>1, <1>2, <1>7, <3>1
    <2> QED
      BY <2>1, <2>2
  <1>12. Cardinality(S \ Published[tf]) = ((b - a) \div d + 1) - n
    <2> DEFINE M == S \ Published[tf]
    <2>1. M \cup O = S /\ M \cap O = {}
      BY <1>11
    <2>2. M \in SUBSET S
      OBVIOUS
    <2> HIDE DEF M, O
    <2>3. IsFiniteSet(M)
      BY <1>7, <2>2, FS_Subset
    <2>4. Cardinality(M \cup O) = Cardinality(M) + Cardinality(O) - Cardinality(M \cap O)
      BY <1>10, <2>3, FS_Union
    <2>5. Cardinality(M \cap O) = 0
      BY <2>1, FS_EmptySet
    <2>6. Cardinality(M) \in Nat /\ Cardinality(S) \in Nat
      BY <1>7, <2>3, FS_CardinalityType
    <2>7. Cardinality(M) = Cardinality(S) - n
      <3>1. Cardinality(M \cup O) = Cardinality(S) /\ Cardinality(O) = n /\ n \in Nat
        BY <1>1, <1>10, <2>1 DEF O
      <3> QED
        BY <2>4, <2>5, <2>6, <3>1
    <2> QED
      BY <1>7, <2>7 DEF M
  <1>13. ASSUME NEW g \in GapsOf(o, d), NEW t \in S, g.after < t, t < g.before
         PROVE  t \notin Published[tf]
    <2>1. PICK i \in 1..(n - 1) : g.after = o[i] /\ g.before = o[i + 1]
      BY DEF GapsOf, n
    <2> QED
      BY <1>1, <1>13, <2>1 DEF Follows
  <1>14. ASSUME NEW t \in S, t \notin Published[tf]
         PROVE  \E g \in GapsOf(o, d) : g.after < t /\ t < g.before
    <2>1. t \in Nat /\ a <= t /\ t <= b /\ t % d = 0
      BY <1>5, <1>8
    <2>2. ~ \E i \in 1..n : o[i] = t
      BY <1>1, <1>14
    <2>3. PICK i \in 1..(n - 1) : o[i] < t /\ t < o[i + 1]
      <3>1. n > 0 /\ t \in Int
        BY <1>1, <2>1
      <3> QED
        BY <1>1, <2>1, <2>2, <3>1, InOrBetween DEF a, b, n
    <2>4. i \in 1..n /\ i + 1 \in 1..n
      BY <1>1
    <2> DEFINE x == o[i]
               y == o[i + 1]
    <2>5. x \in Nat /\ y \in Nat /\ x % d = 0 /\ y % d = 0 /\ x < t /\ t < y
      BY <1>1, <1>2, <2>3, <2>4
    <2> HIDE DEF x, y
    <2>6. (y - x) \div d - 1 > 0
      BY <1>2, <2>1, <2>5, RoomBetween
    <2> DEFINE g == [after |-> o[i], before |-> o[i + 1], missing |-> (y - x) \div d - 1]
    <2>7. g \in GapsOf(o, d)
      BY <2>6 DEF GapsOf, n, x, y
    <2>8. g.after < t /\ t < g.before
      BY <2>3
    <2> HIDE DEF g
    <2> QED
      BY <2>7, <2>8
  <1> DEFINE G == GapsOf(o, d)
  <1> HIDE DEF G
  <1>15. Within(S, G) = S \ Published[tf]
    BY <1>13, <1>14 DEF G, Within
  <1> QED
    BY <1>12, <1>15 DEF G, a, b, d, n

(* A series that parses is a chain of candles. *)
LEMMA ReadableIsChain ==
    ASSUME NEW tf \in Timeframes, NEW n, NEW f, Stored(tf, f, n), Readable(f),
           NEW o, o = [i \in DOMAIN f.lines |-> f.lines[i].open]
    PROVE  Chain(tf, o) /\ Len(o) = Len(f.lines)
  <1> DEFINE s == f.lines
  <1>1. Series(tf, s, n) /\ s \in Seq(Line)
    BY DEF Stored, Series
  <1>2. \A i \in DOMAIN s : s[i] # Torn
    BY DEF Readable, Range
  <1> HIDE DEF s
  <1>3. Len(s) \in Nat /\ DOMAIN s = 1..Len(s)
    BY <1>1
  <1>4. \A i \in 1..Len(s) : s[i].open \in Nat /\ s[i].open \in Published[tf]
    <2>1. \A i \in 1..Len(s) : Kept(tf, s[i], n)
      BY <1>1, <1>2, <1>3 DEF Series
    <2> QED
      BY <2>1, CandleFields DEF Kept
  <1>5. o = [i \in 1..Len(s) |-> s[i].open]
    BY <1>3 DEF s
  <1>6. o \in Seq(Nat) /\ Len(o) = Len(s) /\ \A i \in 1..Len(s) : o[i] = s[i].open
    <2>1. o \in [1..Len(s) -> Nat]
      BY <1>4, <1>5
    <2> QED
      BY <1>3, <1>5, <2>1
  <1>7. \A i \in 1..(Len(s) - 1) : Follows(tf, o[i], o[i + 1])
    <2> SUFFICES ASSUME NEW i \in 1..(Len(s) - 1)
                 PROVE  Follows(tf, o[i], o[i + 1])
      OBVIOUS
    <2>1. i \in 1..Len(s) /\ i + 1 \in 1..Len(s)
      BY <1>3
    <2>2. Follows(tf, s[i].open, s[i + 1].open)
      BY <1>1, <1>2, <1>3, <2>1 DEF Series
    <2> QED
      BY <1>6, <2>1, <2>2
  <1> QED
    BY <1>4, <1>6, <1>7 DEF Chain, s

(* After a fetch that succeeded the manifest describes the files as they are,
   and what it calls missing is what the venue never published. *)
THEOREM ManifestIsTrue == Spec => []ManifestTellsTheGaps
  <1>1. CandleInv => ManifestTellsTheGaps
    <2> SUFFICES ASSUME CandleInv, pc = "idle", outcome = "ok"
                 PROVE  ManifestTellsTheGaps
      BY DEF ManifestTellsTheGaps
    <2>1. Describable /\ manifest = [tf \in Present |-> CoverageOf(files[tf], Interval[tf])]
      BY DEF CandleInv, ManifestInv
    <2>2. DOMAIN manifest = Present /\ Present \subseteq Timeframes
      BY <2>1 DEF Present
    <2>3. ASSUME NEW tf \in Present,
                 NEW c, c = manifest[tf],
                 NEW S, S = {t \in c.first..c.last : (t - c.first) % Interval[tf] = 0}
          PROVE  /\ c = CoverageOf(files[tf], Interval[tf])
                 /\ c.missing = Cardinality(S \ Published[tf])
                 /\ Within(S, c.gaps) = S \ Published[tf]
      <3> DEFINE f == files[tf]
                 o == [i \in DOMAIN f.lines |-> f.lines[i].open]
                 d == Interval[tf]
      <3>1. tf \in Timeframes /\ Stored(tf, f, now) /\ Readable(f) /\ f.lines # <<>>
        BY <2>1, <2>2 DEF Describable, CandleInv, FilesInv
      <3>2. Chain(tf, o) /\ Len(o) = Len(f.lines)
        <4> HIDE DEF f
        <4>1. o = [i \in DOMAIN f.lines |-> f.lines[i].open]
          OBVIOUS
        <4> HIDE DEF o
        <4> QED
          BY <3>1, <4>1, ReadableIsChain
      <3>3. c = CoverageOf(f, d)
        BY <2>1, <2>3
      <3>4. /\ c.first = Head(o) /\ c.last = Last(o)
            /\ c.missing = ((Last(o) - Head(o)) \div d + 1) - Len(o)
            /\ c.gaps = GapsOf(o, d)
        <4> HIDE DEF f, d
        <4> QED
          BY <3>3 DEF CoverageOf
      <3>5. Len(f.lines) \in Nat /\ Len(f.lines) # 0
        BY <3>1 DEF Stored, Series
      <3> HIDE DEF o, f
      <3>6. o \in Seq(Nat) /\ Len(o) > 0 /\ Head(o) = o[1] /\ Last(o) = o[Len(o)]
        <4>1. o \in Seq(Nat) /\ Len(o) > 0
          BY <3>2, <3>5 DEF Chain
        <4> QED
          BY <4>1 DEF Last
      <3>7. S = {t \in o[1]..o[Len(o)] : (t - o[1]) % d = 0}
        BY <2>3, <3>4, <3>6
      <3>8. /\ Cardinality(S \ Published[tf]) = ((o[Len(o)] - o[1]) \div d + 1) - Len(o)
            /\ Within(S, GapsOf(o, d)) = S \ Published[tf]
        <4>1. tf \in Timeframes /\ Chain(tf, o) /\ Len(o) > 0
          BY <3>1, <3>2, <3>6
        <4>2. S = {t \in o[1]..o[Len(o)] : (t - o[1]) % Interval[tf] = 0}
          BY <3>7
        <4>3. Cardinality(S \ Published[tf])
                  = ((o[Len(o)] - o[1]) \div Interval[tf] + 1) - Len(o)
          BY <4>1, <4>2, GapsFound
        <4>4. Within(S, GapsOf(o, Interval[tf])) = S \ Published[tf]
          BY <4>1, <4>2, GapsFound
        <4> QED
          BY <4>3, <4>4
      <3> QED
        BY <3>3, <3>4, <3>6, <3>8 DEF f
    <2> QED
      BY <2>2, <2>3 DEF ManifestTellsTheGaps, Within
  <1> QED
    BY <1>1, CandleInvariant, PTL

----------------------------------------------------------------------------
(* 5. The log of candles. *)

(* The lines of f that are not there to stay, and how many before them are. *)
Doubtful(f, i) == f.lines[i] = Torn \/ (i = Len(f.lines) /\ ~f.ended)

(* The first n lines of f are there to stay, and the next one, if any, is
   not. *)
SoundTo(f, n) ==
    /\ n \in 0..Len(f.lines)
    /\ \A i \in 1..n : ~Doubtful(f, i)
    /\ n < Len(f.lines) => Doubtful(f, n + 1)

(* There is such an n. *)
LEMMA SoundExists ==
    ASSUME NEW f \in File
    PROVE  \E n \in Nat : SoundTo(f, n)
  <1> DEFINE L == Len(f.lines)
             D == {i \in 1..L : Doubtful(f, i)}
  <1>1. L \in Nat
    BY DEF File
  <1> HIDE DEF L
  <1>2. CASE D = {}
    <2>1. \A i \in 1..L : ~Doubtful(f, i)
      BY <1>2
    <2> QED
      BY <1>1, <2>1 DEF SoundTo, L
  <1>3. CASE D # {}
    <2>1. D \in SUBSET Nat
      BY <1>1
    <2>2. PICK m \in D : \A k \in D : m <= k
      <3> HIDE DEF D
      <3> QED
        BY <1>3, <2>1, LeastNumber
    <2>3. m \in 1..L /\ Doubtful(f, m)
      BY <2>2
    <2>4. \A i \in 1..(m - 1) : ~Doubtful(f, i)
      <3> SUFFICES ASSUME NEW i \in 1..(m - 1), Doubtful(f, i)
                   PROVE  FALSE
        OBVIOUS
      <3>1. i \in 1..L /\ ~(m <= i)
        BY <1>1, <2>3
      <3> QED
        BY <2>2, <3>1
    <2>5. m - 1 \in 0..L /\ m - 1 \in Nat /\ (m - 1) + 1 = m
      BY <1>1, <2>3
    <2>6. SoundTo(f, m - 1)
      BY <2>3, <2>4, <2>5 DEF SoundTo, L
    <2> QED
      BY <2>5, <2>6
  <1> QED
    BY <1>2, <1>3

(* The sound prefix of a file is what its first n lines open at. *)
LEMMA SoundPrefixIs ==
    ASSUME NEW f \in File, NEW n, SoundTo(f, n)
    PROVE  SoundPrefix(f) = [i \in 1..n |-> f.lines[i].open]
  <1> DEFINE L == Len(f.lines)
             D == {i \in DOMAIN f.lines : f.lines[i] = Torn \/ (i = L /\ ~f.ended)}
  <1>1. L \in Nat /\ DOMAIN f.lines = 1..L
    BY DEF File
  <1>2. D = {i \in 1..L : Doubtful(f, i)}
    BY <1>1 DEF Doubtful
  <1>3. SoundPrefix(f) =
            [i \in 1..(IF D = {} THEN L ELSE Min(D) - 1) |-> f.lines[i].open]
    BY DEF SoundPrefix
  <1> HIDE DEF L, D
  <1>4. n \in 0..L /\ (\A i \in 1..n : ~Doubtful(f, i)) /\ (n < L => Doubtful(f, n + 1))
    BY DEF SoundTo, L
  <1>5. CASE n = L
    <2>1. D = {}
      BY <1>2, <1>4, <1>5
    <2> QED
      BY <1>3, <1>5, <2>1
  <1>6. CASE n # L
    <2>1. n + 1 \in D
      BY <1>1, <1>2, <1>4, <1>6
    <2>2. \A k \in D : n + 1 <= k /\ k \in Int
      BY <1>1, <1>2, <1>4
    <2>3. Min(D) \in D /\ \A k \in D : Min(D) <= k
      BY <2>1, <2>2 DEF Min
    <2>4. Min(D) - 1 = n
      <3> DEFINE m == Min(D)
      <3>1. m \in Int /\ m <= n + 1 /\ n + 1 <= m /\ n \in Int
        BY <1>1, <1>4, <2>1, <2>2, <2>3
      <3> HIDE DEF m
      <3>2. m - 1 = n
        BY <3>1
      <3> QED
        BY <3>2 DEF m
    <2> QED
      BY <1>3, <2>1, <2>4
  <1> QED
    BY <1>5, <1>6

(* What is written into a file that is spoilt does not make it longer. *)
LEMMA SpoiltStays ==
    ASSUME NEW f \in File, f.ended \/ f.lines # <<>>, NEW n, SoundTo(f, n), n < Len(f.lines),
           NEW w \in Seq(Line), NEW ends \in BOOLEAN,
           NEW g, g = Written(f, w, ends), g \in File
    PROVE  SoundPrefix(g) = SoundPrefix(f)
  <1> DEFINE s == f.lines
             L == Len(s)
             r == g.lines
  <1>1. s \in Seq(Line) /\ L \in Nat /\ n \in Nat /\ n + 1 \in 1..L
    BY DEF File, SoundTo
  <1>2. r = Joined(f, w) /\ g.ended = IF w = <<>> THEN f.ended ELSE ends
    BY DEF Written
  <1>3. (\A i \in 1..n : s[i] # Torn) /\ (s[n + 1] = Torn \/ (n + 1 = L /\ ~f.ended))
    BY <1>1 DEF SoundTo, Doubtful
  <1>4. /\ Len(r) \in Nat /\ Len(r) >= L
        /\ \A i \in 1..n : r[i] = s[i]
        /\ r[n + 1] = Torn \/ (n + 1 = Len(r) /\ ~g.ended)
    <2>1. CASE f.ended \/ w = <<>>
      <3>1. r = s \o w
        BY <1>2, <2>1 DEF Joined
      <3> HIDE DEF s, r
      <3>2. Len(r) = L + Len(w) /\ Len(w) \in Nat /\ \A i \in 1..L : r[i] = s[i]
        BY <1>1, <3>1
      <3>3. r[n + 1] = s[n + 1] /\ \A i \in 1..n : r[i] = s[i]
        BY <1>1, <3>2
      <3>4. Len(r) \in Nat /\ Len(r) >= L
        BY <1>1, <3>2
      <3>5. CASE s[n + 1] = Torn
        BY <3>3, <3>4, <3>5
      <3>6. CASE n + 1 = L /\ ~f.ended
        <4>1. Len(r) = L /\ ~g.ended
          BY <1>1, <1>2, <2>1, <3>2, <3>6
        <4> QED
          BY <3>3, <3>4, <3>6, <4>1
      <3> QED
        BY <1>3, <3>5, <3>6 DEF s
    <2>2. CASE ~(f.ended \/ w = <<>>)
      <3> DEFINE a == Front(s)
                 b == <<Torn>>
                 c == Tail(w)
                 ab == a \o b
      <3>1. r = ab \o c
        BY <1>2, <2>2 DEF Joined
      <3>2. a \in Seq(Line) /\ Len(a) = L - 1 /\ \A i \in 1..(L - 1) : a[i] = s[i]
        <4> HIDE DEF s
        <4>1. L - 1 \in Nat
          BY <1>1
        <4>2. a = [i \in 1..(L - 1) |-> s[i]]
          <5>1. a = SubSeq(s, 1, L - 1)
            BY DEF Front
          <5> HIDE DEF a
          <5> QED
            BY <1>1, <4>1, <5>1
        <4>3. a \in [1..(L - 1) -> Line]
          <5>1. \A i \in 1..(L - 1) : s[i] \in Line
            BY <1>1
          <5> QED
            BY <4>2, <5>1
        <4> HIDE DEF a
        <4> QED
          BY <4>1, <4>2, <4>3
      <3>3. b \in Seq(Line) /\ Len(b) = 1 /\ b[1] = Torn
        BY DEF Line
      <3>4. c \in Seq(Line) /\ Len(c) \in Nat
        BY <2>2
      <3> HIDE DEF a, b, c
      <3>5. /\ ab \in Seq(Line) /\ Len(ab) = L /\ ab[L] = Torn
            /\ \A i \in 1..(L - 1) : ab[i] = s[i]
        <4>1. /\ ab \in Seq(Line) /\ Len(ab) = Len(a) + Len(b)
              /\ \A i \in 1..Len(a) : ab[i] = a[i]
              /\ \A i \in 1..Len(b) : ab[Len(a) + i] = b[i]
          <5>1. a \in Seq(Line) /\ b \in Seq(Line)
            BY <3>2, <3>3
          <5>2. a \o b \in Seq(Line) /\ Len(a \o b) = Len(a) + Len(b)
            BY <5>1
          <5>3. \A i \in 1..Len(a) : (a \o b)[i] = a[i]
            BY <5>1
          <5>4. \A i \in 1..Len(b) : (a \o b)[Len(a) + i] = b[i]
            BY <5>1
          <5> QED
            BY <5>2, <5>3, <5>4
        <4> HIDE DEF ab, L
        <4>2. 1 \in 1..1 /\ (L - 1) + 1 = L
          BY <1>1
        <4>3. ab[(L - 1) + 1] = b[1]
          BY <3>2, <3>3, <4>1, <4>2
        <4> QED
          BY <3>2, <3>3, <4>1, <4>2, <4>3
      <3> HIDE DEF ab
      <3>6. Len(r) = L + Len(c) /\ \A i \in 1..L : r[i] = ab[i]
        <4>1. ab \in Seq(Line) /\ c \in Seq(Line)
          BY <3>4, <3>5
        <4>2. Len(ab \o c) = Len(ab) + Len(c)
          BY <4>1
        <4>3. \A i \in 1..Len(ab) : (ab \o c)[i] = ab[i]
          BY <4>1
        <4> HIDE DEF L, r
        <4> QED
          BY <3>1, <3>5, <4>2, <4>3
      <3> HIDE DEF r
      <3>7. \A i \in 1..n : r[i] = s[i]
        <4>1. \A i \in 1..n : i \in 1..L /\ i \in 1..(L - 1)
          BY <1>1
        <4> QED
          BY <3>5, <3>6, <4>1
      <3>8. r[n + 1] = Torn
        <4>1. CASE n + 1 = L
          BY <1>1, <3>5, <3>6, <4>1
        <4>2. CASE n + 1 # L
          <5>1. n + 1 \in 1..L /\ n + 1 \in 1..(L - 1)
            BY <1>1, <4>2
          <5> QED
            BY <1>3, <3>5, <3>6, <4>2, <5>1
        <4> QED
          BY <4>1, <4>2
      <3> QED
        BY <1>1, <3>4, <3>6, <3>7, <3>8
    <2> QED
      BY <2>1, <2>2
  <1> HIDE DEF r, s, L
  <1>5. SoundTo(g, n)
    <2>1. n \in 0..Len(r) /\ \A i \in 1..n : i # Len(r)
      BY <1>1, <1>4
    <2>2. \A i \in 1..n : ~Doubtful(g, i)
      BY <1>3, <1>4, <2>1 DEF Doubtful, r, s
    <2>3. Doubtful(g, n + 1)
      BY <1>4 DEF Doubtful, r
    <2> QED
      BY <2>1, <2>2, <2>3 DEF SoundTo, r
  <1>6. SoundPrefix(g) = [i \in 1..n |-> r[i].open]
    BY <1>5, SoundPrefixIs DEF r
  <1>7. SoundPrefix(f) = [i \in 1..n |-> s[i].open]
    BY SoundPrefixIs DEF s
  <1> QED
    BY <1>4, <1>6, <1>7

(* What is written into a file that is sound adds the lines before the first
   that does not parse or lacks its newline. *)
LEMMA SoundGrows ==
    ASSUME NEW f \in File, f.ended \/ f.lines # <<>>, SoundTo(f, Len(f.lines)),
           NEW w \in Seq(Line), NEW ends \in BOOLEAN,
           NEW g, g = Written(f, w, ends), g \in File,
           NEW j \in 0..Len(w), \A i \in 1..j : w[i] # Torn,
           \/ j = Len(w) /\ (ends \/ w = <<>>)
           \/ j < Len(w) /\ (w[j + 1] = Torn \/ (j + 1 = Len(w) /\ ~ends))
    PROVE  SoundPrefix(g) = SoundPrefix(f) \o [i \in 1..j |-> w[i].open]
  <1> DEFINE s == f.lines
             L == Len(s)
             r == g.lines
  <1>1. s \in Seq(Line) /\ L \in Nat /\ Len(w) \in Nat /\ (Len(w) = 0 <=> w = <<>>)
    BY DEF File
  <1>2. (\A i \in 1..L : s[i] # Torn) /\ f.ended
    <2>1. \A i \in 1..L : s[i] # Torn /\ ~(i = L /\ ~f.ended)
      BY DEF SoundTo, Doubtful
    <2>2. ~f.ended => L \in 1..L
      BY <1>1
    <2> QED
      BY <2>1, <2>2
  <1>3. r = s \o w /\ g.ended = IF w = <<>> THEN TRUE ELSE ends
    BY <1>2 DEF Written, Joined
  <1> HIDE DEF s, r, L
  <1>4. /\ Len(r) = L + Len(w)
        /\ \A i \in 1..L : r[i] = s[i]
        /\ \A i \in 1..Len(w) : r[L + i] = w[i]
    BY <1>1, <1>3 DEF L
  <1>5. \A i \in 1..(L + j) : \/ i \in 1..L
                              \/ i - L \in 1..j /\ i = L + (i - L)
    BY <1>1
  <1>6. \A i \in 1..(L + j) : r[i] # Torn
    <2> SUFFICES ASSUME NEW i \in 1..(L + j)
                 PROVE  r[i] # Torn
      OBVIOUS
    <2>1. CASE i \in 1..L
      BY <1>2, <1>4, <2>1
    <2>2. CASE i - L \in 1..j
      <3> DEFINE k == i - L
      <3>1. k \in 1..j /\ k \in 1..Len(w) /\ i = L + k
        BY <1>1, <2>2
      <3> HIDE DEF k
      <3> QED
        BY <1>4, <3>1
    <2> QED
      BY <1>5, <2>1, <2>2
  <1>7. SoundTo(g, L + j)
    <2>1. L + j \in 0..Len(r)
      BY <1>1, <1>4
    <2>2. \A i \in 1..(L + j) : ~(i = Len(r) /\ ~g.ended)
      <3> SUFFICES ASSUME NEW i \in 1..(L + j), i = Len(r), ~g.ended
                   PROVE  FALSE
        OBVIOUS
      <3>1. j = Len(w)
        BY <1>1, <1>4
      <3>2. ends \/ w = <<>>
        BY <1>1, <3>1
      <3> QED
        BY <1>3, <3>2
    <2>3. ASSUME L + j < Len(r)
          PROVE  r[(L + j) + 1] = Torn \/ ((L + j) + 1 = Len(r) /\ ~g.ended)
      <3>1. j < Len(w) /\ j + 1 \in 1..Len(w) /\ L + (j + 1) = (L + j) + 1 /\ w # <<>>
        BY <1>1, <1>4, <2>3
      <3>2. r[(L + j) + 1] = w[j + 1]
        BY <1>4, <3>1
      <3>3. CASE w[j + 1] = Torn
        BY <3>2, <3>3
      <3>4. CASE j + 1 = Len(w) /\ ~ends
        BY <1>1, <1>3, <1>4, <3>1, <3>4
      <3> QED
        BY <3>1, <3>3, <3>4
    <2> QED
      BY <1>6, <2>1, <2>2, <2>3 DEF SoundTo, Doubtful, r
  <1>8. SoundPrefix(g) = [i \in 1..(L + j) |-> r[i].open]
    BY <1>7, SoundPrefixIs DEF r
  <1> DEFINE p == [i \in 1..L |-> s[i].open]
             q == [i \in 1..j |-> w[i].open]
             h == [i \in 1..(L + j) |-> r[i].open]
  <1>9. SoundPrefix(f) = p
    BY SoundPrefixIs DEF s, L
  <1>10. h = p \o q
    <2> DEFINE S == {s[i].open : i \in 1..L} \cup {w[i].open : i \in 1..j}
    <2>1. p \in [1..L -> S] /\ q \in [1..j -> S] /\ L \in Nat /\ j \in Nat
      BY <1>1
    <2>2. \A i \in 1..L : h[i] = p[i]
      <3> SUFFICES ASSUME NEW i \in 1..L
                   PROVE  h[i] = p[i]
        OBVIOUS
      <3>1. i \in 1..(L + j) /\ r[i] = s[i]
        BY <1>1, <1>4
      <3> QED
        BY <3>1
    <2>3. \A i \in 1..j : h[L + i] = q[i]
      <3> SUFFICES ASSUME NEW i \in 1..j
                   PROVE  h[L + i] = q[i]
        OBVIOUS
      <3>1. L + i \in 1..(L + j) /\ i \in 1..Len(w)
        BY <1>1
      <3>2. r[L + i] = w[i]
        BY <1>4, <3>1
      <3> QED
        BY <3>1, <3>2
    <2>4. h \in [1..(L + j) -> S]
      <3>1. \A i \in 1..(L + j) : i \in 1..L \/ \E k \in 1..j : i = L + k
        BY <1>1, <1>5
      <3>2. \A i \in 1..L : p[i] \in S
        BY <2>1
      <3>3. \A i \in 1..j : q[i] \in S
        BY <2>1
      <3>4. \A i \in 1..(L + j) : h[i] \in S
        <4> HIDE DEF p, q, h, S
        <4> QED
          BY <2>2, <2>3, <3>1, <3>2, <3>3
      <3> HIDE DEF S
      <3> QED
        BY <3>4
    <2> HIDE DEF p, q, h, S
    <2>5. /\ p \in Seq(S) /\ q \in Seq(S) /\ Len(p) = L /\ Len(q) = j
          /\ h \in Seq(S) /\ Len(h) = L + j
      <3>1. p \in Seq(S) /\ Len(p) = L
        BY <2>1
      <3>2. q \in Seq(S) /\ Len(q) = j
        BY <2>1
      <3>3. L + j \in Nat
        BY <2>1
      <3>4. h \in Seq(S) /\ Len(h) = L + j
        BY <2>4, <3>3
      <3> QED
        BY <3>1, <3>2, <3>4
    <2>6. p \o q = h
      <3>1. /\ p \in Seq(S) /\ q \in Seq(S)
            /\ h \in Seq(S) /\ Len(h) = Len(p) + Len(q)
            /\ \A i \in 1..Len(p) : h[i] = p[i]
            /\ \A i \in 1..Len(q) : h[Len(p) + i] = q[i]
        BY <2>2, <2>3, <2>4, <2>5
      <3> QED
        BY <3>1, IsJoined
    <2> QED
      BY <2>6
  <1> QED
    BY <1>8, <1>9, <1>10

(* The first candles of a list that leaves none out. *)
LEMMA OpensAreAscending ==
    ASSUME NEW tf \in Timeframes, NEW s, NEW lo \in Nat, NEW hi \in Nat,
           Covers(tf, s, lo, hi), NEW j \in 1..Len(s),
           NEW S, S = {u \in Published[tf] : s[1].open <= u /\ u <= s[j].open}
    PROVE  Ascending(S) = [i \in 1..j |-> s[i].open]
  <1> DEFINE q == [i \in 1..j |-> s[i].open]
  <1>1. /\ s \in Seq(Candle) /\ Len(s) \in Nat /\ 1 \in 1..Len(s) /\ j \in Nat
        /\ \A i \in 1..Len(s) : s[i].open \in Nat
    <2>1. s \in Seq(Candle) /\ Len(s) \in Nat
      BY DEF Covers
    <2>2. \A i \in 1..Len(s) : s[i] \in Candle
      BY <2>1
    <2> QED
      BY <2>1, <2>2, CandleFields
  <1>2. /\ \A i, k \in 1..Len(s) : i < k => s[i].open < s[k].open
        /\ \A i \in 1..Len(s) : s[i].open \in Published[tf] /\ lo <= s[i].open /\ s[i].open < hi
        /\ \A t \in Published[tf] : lo <= t /\ t < hi => \E i \in 1..Len(s) : s[i].open = t
    BY DEF Covers
  <1>3. \A i \in 1..j : i \in 1..Len(s) /\ s[i].open \in S
    <2> SUFFICES ASSUME NEW i \in 1..j
                 PROVE  i \in 1..Len(s) /\ s[i].open \in S
      OBVIOUS
    <2>1. i \in 1..Len(s) /\ (i = 1 \/ 1 < i) /\ (i = j \/ i < j)
      BY <1>1
    <2>2. s[1].open <= s[i].open /\ s[i].open <= s[j].open
      BY <1>1, <1>2, <2>1
    <2> QED
      BY <1>2, <2>1, <2>2
  <1>4. q \in Seq(S) /\ Len(q) = j
    <2>1. q \in [1..j -> S]
      BY <1>3
    <2> HIDE DEF q
    <2> QED
      BY <1>1, <2>1
  <1>5. \A i, k \in 1..j : i < k => q[i] < q[k]
    BY <1>2, <1>3
  <1>6. \A t \in S : \E i \in 1..j : q[i] = t
    <2> SUFFICES ASSUME NEW t \in S
                 PROVE  \E i \in 1..j : s[i].open = t
      OBVIOUS
    <2>1. t \in Published[tf] /\ s[1].open <= t /\ t <= s[j].open /\ t \in Nat
      BY OfTimeframe
    <2>2. lo <= s[1].open /\ s[j].open < hi /\ s[1].open \in Nat /\ s[j].open \in Nat
      BY <1>1, <1>2
    <2>3. lo <= t /\ t < hi
      <3> DEFINE a == s[1].open
                 b == s[j].open
      <3>1. a \in Nat /\ b \in Nat /\ a <= t /\ t <= b /\ lo <= a /\ b < hi /\ t \in Nat
        BY <2>1, <2>2
      <3> HIDE DEF a, b
      <3> QED
        BY <3>1
    <2>4. PICK i \in 1..Len(s) : s[i].open = t
      BY <1>2, <2>1, <2>3
    <2>5. ~(j < i)
      <3>1. j < i => s[j].open < s[i].open
        BY <1>2
      <3> QED
        BY <2>1, <2>2, <2>4, <3>1
    <2> QED
      BY <1>1, <2>4, <2>5
  <1>7. S \in SUBSET Int
    BY OfTimeframe
  <1> HIDE DEF q
  <1>8. Ascending(S) = q
    BY <1>4, <1>5, <1>6, <1>7, AscendingIsTheList
  <1> QED
    BY <1>8 DEF q

(* The candles of all files that are there to stay. *)
Logged == [tf \in Timeframes |-> SoundPrefix(files[tf])]

(* The abstract log in terms of the files. *)
LEMMA LoggedIsLog ==
    /\ Log!Init <=> now \in Nat /\ Logged = [tf \in Timeframes |-> <<>>]
    /\ UNCHANGED Log!vars <=> now' = now /\ Logged' = Logged
    /\ Log!Tick <=> now' = now + 1 /\ Logged' = Logged
    /\ Log!Next <=> Log!Tick \/ \E tf \in Timeframes : Log!Extend(tf)
  BY DEF Log!Init, Log!vars, Log!Tick, Log!Next, Logged

(* What joins the log goes on from its last candle and leaves none out. *)
LEMMA GrowthIsExtend ==
    ASSUME CandleInv, MaxAhead = 0, pc = "append", now' = now,
           NEW tf \in Timeframes, tf = tf0,
           SoundTo(files[tf], Len(files[tf].lines)),
           NEW j \in 1..Len(Fresh), NEW q, q = [i \in 1..j |-> Fresh[i].open],
           Logged' = [Logged EXCEPT ![tf] = SoundPrefix(files[tf]) \o q]
    PROVE  Log!Extend(tf)
  <1> DEFINE f == files[tf]
             s == f.lines
             new == Fresh
             first == new[1].open
             last == new[j].open
             S == {u \in Published[tf] : first <= u /\ u <= last}
  <1>1. /\ Joins(tf, s, new) /\ \A i \in 1..Len(new) : Kept(tf, new[i], now)
        /\ \E hi \in Nat : Covers(tf, new, since, hi)
    BY FreshSeries DEF CandleInv
  <1>2. f \in File /\ since \in Nat
    BY DEF CandleInv, FilesInv, FetchTypes
  <1>3. SoundPrefix(f) = [i \in 1..Len(s) |-> s[i].open]
    BY <1>2, SoundPrefixIs
  <1>4. s \in Seq(Line) /\ Len(s) \in Nat /\ \A i \in 1..Len(s) : s[i] # Torn
    BY <1>2 DEF File, SoundTo, Doubtful
  <1>5. PICK hi \in Nat : Covers(tf, new, since, hi)
    BY <1>1
  <1> HIDE DEF s, f
  <1>6. q = Ascending(S)
    <2> HIDE DEF S, new
    <2>1. S = {u \in Published[tf] : new[1].open <= u /\ u <= new[j].open}
      BY DEF S
    <2>2. j \in 1..Len(new) /\ q = [i \in 1..j |-> new[i].open]
      BY DEF new
    <2>3. Ascending(S) = [i \in 1..j |-> new[i].open]
      BY <1>2, <1>5, <2>1, <2>2, OpensAreAscending
    <2> QED
      BY <2>2, <2>3
  <1>7. /\ new \in Seq(Candle) /\ 1 \in 1..Len(new) /\ j \in Nat /\ new # <<>>
        /\ \A i \in 1..Len(new) : new[i] \in Candle
    <2> HIDE DEF new
    <2>1. new \in Seq(Candle) /\ j \in 1..Len(new)
      BY <1>5 DEF Covers, new
    <2> QED
      BY <2>1
  <1>8. /\ first \in Published[tf] /\ last \in Published[tf] /\ first \in Nat /\ last \in Nat
        /\ last + Interval[tf] <= now /\ first <= last
    <2> HIDE DEF new
    <2>1. Kept(tf, new[1], now) /\ Kept(tf, new[j], now)
      BY <1>1, <1>7 DEF new
    <2>2. first \in Published[tf] /\ last \in Published[tf] /\ last + Interval[tf] <= now
      BY <2>1 DEF Kept
    <2>3. first \in Nat /\ last \in Nat
      BY <2>2, OfTimeframe
    <2>4. 1 = j \/ 1 < j
      BY <1>7
    <2>5. 1 < j => first < last
      BY <1>5, <1>7 DEF Covers, new
    <2> QED
      BY <2>2, <2>3, <2>4, <2>5
  <1> DEFINE p == [i \in 1..Len(s) |-> s[i].open]
  <1>9. Logged[tf] = p
    BY <1>3 DEF Logged, f
  <1>10. \/ p = <<>>
         \/ first > p[Len(p)] /\ \A t \in Published[tf] : t > p[Len(p)] => t >= first
    <2>1. CASE s = <<>>
      <3>1. Len(s) = 0
        BY <2>1
      <3> HIDE DEF s
      <3>2. p = <<>>
        BY <3>1
      <3> QED
        BY <3>2
    <2>2. CASE s # <<>>
      <3>1. Len(s) \in 1..Len(s) /\ Last(s) = s[Len(s)]
        BY <1>4, <2>2 DEF Last
      <3>2. new[1] # Torn
        BY <1>7, CandleFields
      <3>3. Follows(tf, s[Len(s)].open, first)
        BY <1>1, <1>4, <1>7, <2>2, <3>1, <3>2 DEF Joins
      <3>4. Len(p) = Len(s) /\ p[Len(s)] = s[Len(s)].open
        <4> DEFINE V == {s[i].open : i \in 1..Len(s)}
        <4>1. p \in [1..Len(s) -> V]
          OBVIOUS
        <4>2. p[Len(s)] = s[Len(s)].open
          BY <3>1
        <4> HIDE DEF p, V
        <4> QED
          BY <1>4, <4>1, <4>2
      <3>5. s[Len(s)].open \in Nat
        <4>1. s[Len(s)] \in Candle
          BY <1>4, <3>1 DEF Line
        <4> QED
          BY <4>1, CandleFields
      <3> DEFINE a == s[Len(s)].open
      <3> HIDE DEF a, p, first
      <3>6. p[Len(p)] = a /\ a \in Nat /\ Follows(tf, a, first) /\ first \in Nat
        BY <1>8, <3>3, <3>4, <3>5 DEF a
      <3>7. \A t \in Published[tf] : t \in Nat
        BY OfTimeframe
      <3> QED
        BY <3>6, <3>7 DEF Follows
    <2> QED
      BY <2>1, <2>2
  <1> HIDE DEF p, first, last, new
  <1>11. Log!Begins(tf, first)
    <2>1. \/ Logged[tf] = <<>>
          \/ /\ first > Logged[tf][Len(Logged[tf])]
             /\ \A t \in Published[tf] : t > Logged[tf][Len(Logged[tf])] => t >= first
      BY <1>9, <1>10
    <2> QED
      BY <2>1 DEF Log!Begins, Logged
  <1>12. Logged' = [Logged EXCEPT ![tf] = Logged[tf] \o Ascending(S)]
    BY <1>6 DEF Logged
  <1>13. S = {u \in Published[tf] : first <= u /\ u <= last}
    OBVIOUS
  <1>14. \A T : Log!Ascending(T) = Ascending(T)
    BY Zenon DEF Log!Ascending, Ascending, Log!Cardinality, Cardinality
  <1>15. Logged' = [Logged EXCEPT ![tf] =
                        @ \o Log!Ascending({u \in Published[tf] : first <= u /\ u <= last})]
    BY <1>12, <1>14, Zenon
  <1>16. /\ first \in {u \in Published[tf] : Log!Begins(tf, u)}
         /\ last \in {u \in Published[tf] : first <= u /\ u + Interval[tf] <= now}
    BY <1>8, <1>11
  <1> HIDE DEF S
  <1>17. \E fst \in {u \in Published[tf] : Log!Begins(tf, u)} :
             \E lst \in {u \in Published[tf] : fst <= u /\ u + Interval[tf] <= now} :
                 Logged' = [Logged EXCEPT ![tf] =
                        @ \o Log!Ascending({u \in Published[tf] : fst <= u /\ u <= lst})]
    <2>1. first \in {u \in Published[tf] : Log!Begins(tf, u)}
      BY <1>16
    <2>2. last \in {u \in Published[tf] : first <= u /\ u + Interval[tf] <= now}
      BY <1>16
    <2> WITNESS first \in {u \in Published[tf] : Log!Begins(tf, u)}
    <2> WITNESS last \in {u \in Published[tf] : first <= u /\ u + Interval[tf] <= now}
    <2> QED
      BY <1>15
  <1> QED
    BY <1>17, Zenon DEF Log!Extend, Logged

(* A write that leaves g for f adds the first j of the candles new to the log,
   and only to a series that is sound. *)
LEMMA RemainsLogged ==
    ASSUME NEW f \in File, f.ended \/ f.lines # <<>>, NEW new \in Seq(Candle),
           NEW g \in Remains(f, new), g \in File
    PROVE  \/ SoundPrefix(g) = SoundPrefix(f)
           \/ /\ SoundTo(f, Len(f.lines))
              /\ \E j \in 1..Len(new) :
                     SoundPrefix(g) = SoundPrefix(f) \o [i \in 1..j |-> new[i].open]
  <1> DEFINE whole(k) == SubSeq(new, 1, k)
  <1>1. Len(new) \in Nat /\ \A i \in 1..Len(new) : new[i] \in Candle /\ new[i] # Torn
    <2>1. \A i \in 1..Len(new) : new[i] \in Candle
      OBVIOUS
    <2> QED
      BY <2>1, CandleFields
  <1>2. ASSUME NEW k \in 0..Len(new)
        PROVE  /\ whole(k) \in Seq(Line) /\ Len(whole(k)) = k
               /\ \A i \in 1..k : whole(k)[i] = new[i]
               /\ Append(whole(k), Torn) \in Seq(Line) /\ Len(Append(whole(k), Torn)) = k + 1
               /\ \A i \in 1..k : Append(whole(k), Torn)[i] = new[i]
               /\ Append(whole(k), Torn)[k + 1] = Torn
    <2> DEFINE w == whole(k)
    <2>1. w = [i \in 1..k |-> new[i]] /\ k \in Nat
      BY <1>1
    <2>2. \A i \in 1..k : new[i] \in Line
      BY <1>1 DEF Line
    <2>3. w \in [1..k -> Line]
      BY <2>1, <2>2
    <2> HIDE DEF w
    <2>4. w \in Seq(Line) /\ Len(w) = k /\ \A i \in 1..k : w[i] = new[i]
      BY <2>1, <2>3
    <2>5. Torn \in Line
      BY DEF Line
    <2>6. Append(w, Torn) \in Seq(Line) /\ Len(Append(w, Torn)) = k + 1
      BY <2>4, <2>5
    <2>7. Append(w, Torn)[k + 1] = Torn /\ \A i \in 1..k : Append(w, Torn)[i] = w[i]
      BY <2>1, <2>4, <2>5
    <2> QED
      BY <2>4, <2>6, <2>7 DEF w
  <1>3. \/ \E k \in 0..Len(new) : g = Written(f, whole(k), TRUE)
        \/ \E k \in 1..Len(new) : g = Written(f, whole(k), FALSE)
        \/ \E k \in 0..(Len(new) - 1) : g = Written(f, Append(whole(k), Torn), FALSE)
    BY DEF Remains
  <1> HIDE DEF whole
  \* the lines written, and how many of them are whole
  <1>4. \E w \in Seq(Line), ends \in BOOLEAN, j \in 0..Len(new) :
            /\ g = Written(f, w, ends) /\ j <= Len(w)
            /\ \A i \in 1..j : w[i] = new[i]
            /\ \/ j = Len(w) /\ (ends \/ w = <<>>)
               \/ j < Len(w) /\ (w[j + 1] = Torn \/ (j + 1 = Len(w) /\ ~ends))
    <2>1. CASE \E k \in 0..Len(new) : g = Written(f, whole(k), TRUE)
      <3>1. PICK k \in 0..Len(new) : g = Written(f, whole(k), TRUE)
        BY <2>1
      <3>2. /\ whole(k) \in Seq(Line) /\ TRUE \in BOOLEAN /\ k = Len(whole(k)) /\ k <= k
            /\ k \in Nat /\ \A i \in 1..k : whole(k)[i] = new[i]
        BY <1>1, <1>2
      <3> QED
        BY <3>1, <3>2
    <2>2. CASE \E k \in 1..Len(new) : g = Written(f, whole(k), FALSE)
      <3>1. PICK k \in 1..Len(new) : g = Written(f, whole(k), FALSE)
        BY <2>2
      <3>2. k \in 0..Len(new) /\ k - 1 \in 0..Len(new) /\ (k - 1) + 1 = k /\ k - 1 < k
            /\ \A i \in 1..(k - 1) : i \in 1..k
        BY <1>1
      <3>3. /\ whole(k) \in Seq(Line) /\ k = Len(whole(k))
            /\ \A i \in 1..k : whole(k)[i] = new[i]
        BY <1>2, <3>2
      <3>4. FALSE \in BOOLEAN /\ k - 1 <= Len(whole(k)) /\ k - 1 < Len(whole(k))
            /\ (k - 1) + 1 = Len(whole(k)) /\ \A i \in 1..(k - 1) : whole(k)[i] = new[i]
        BY <3>2, <3>3
      <3> QED
        BY <3>1, <3>2, <3>3, <3>4
    <2>3. CASE \E k \in 0..(Len(new) - 1) : g = Written(f, Append(whole(k), Torn), FALSE)
      <3>1. PICK k \in 0..(Len(new) - 1) : g = Written(f, Append(whole(k), Torn), FALSE)
        BY <2>3
      <3> DEFINE w == Append(whole(k), Torn)
      <3>2. k \in 0..Len(new) /\ k <= k + 1 /\ k < k + 1
        BY <1>1
      <3>3. /\ w \in Seq(Line) /\ Len(w) = k + 1 /\ w[k + 1] = Torn
            /\ \A i \in 1..k : w[i] = new[i]
        BY <1>2, <3>2
      <3> HIDE DEF w
      <3>4. g = Written(f, w, FALSE)
        BY <3>1 DEF w
      <3>5. FALSE \in BOOLEAN /\ k <= Len(w) /\ k < Len(w)
        BY <3>2, <3>3
      <3> QED
        BY <3>2, <3>3, <3>4, <3>5
    <2> QED
      BY <1>3, <2>1, <2>2, <2>3
  <1>5. PICK w \in Seq(Line), ends \in BOOLEAN, j \in 0..Len(new) :
            /\ g = Written(f, w, ends) /\ j <= Len(w)
            /\ \A i \in 1..j : w[i] = new[i]
            /\ \/ j = Len(w) /\ (ends \/ w = <<>>)
               \/ j < Len(w) /\ (w[j + 1] = Torn \/ (j + 1 = Len(w) /\ ~ends))
    BY <1>4
  <1>6. PICK n \in Nat : SoundTo(f, n)
    BY SoundExists
  <1>7. CASE n < Len(f.lines)
    <2>1. SoundPrefix(g) = SoundPrefix(f)
      BY <1>5, <1>6, <1>7, SpoiltStays
    <2> QED
      BY <2>1
  <1>8. CASE ~(n < Len(f.lines))
    <2>1. n = Len(f.lines)
      <3>1. Len(f.lines) \in Nat /\ n \in 0..Len(f.lines)
        BY <1>6 DEF File, SoundTo
      <3> QED
        BY <1>8, <3>1
    <2>2. SoundTo(f, Len(f.lines))
      BY <1>6, <2>1
    <2>3. j \in 0..Len(w) /\ \A i \in 1..j : i \in 1..Len(new) /\ w[i] # Torn
      <3>1. Len(w) \in Nat /\ j \in Nat
        BY <1>1
      <3>2. \A i \in 1..j : i \in 1..Len(new)
        BY <1>1
      <3> QED
        BY <1>1, <1>5, <3>1, <3>2
    <2> DEFINE q == [i \in 1..j |-> w[i].open]
    <2>4. SoundPrefix(g) = SoundPrefix(f) \o q
      BY <1>5, <2>2, <2>3, SoundGrows
    <2>5. q = [i \in 1..j |-> new[i].open]
      BY <1>5
    <2>6. CASE j = 0
      <3>1. q = <<>>
        BY <2>6
      <3>2. SoundPrefix(f) = [i \in 1..n |-> f.lines[i].open]
        BY <1>6, SoundPrefixIs
      <3> DEFINE p == SoundPrefix(f)
                 V == {f.lines[i].open : i \in 1..n}
      <3>3. p \in [1..n -> V]
        BY <3>2
      <3> HIDE DEF p, V, q
      <3>4. p \in Seq(V)
        BY <3>3
      <3>5. p \o <<>> = p
        BY <3>4
      <3> QED
        BY <2>4, <3>1, <3>5 DEF p
    <2>7. CASE j # 0
      <3>1. j \in 1..Len(new)
        BY <1>1, <2>7
      <3> HIDE DEF q
      <3> QED
        BY <2>2, <2>4, <2>5, <3>1
    <2> QED
      BY <2>6, <2>7
  <1> QED
    BY <1>7, <1>8

(* Whatever is left of an append extends the log or leaves it. *)
LEMMA WriteIsLogged ==
    ASSUME CandleInv, MaxAhead = 0, pc = "append", now' = now,
           NEW g \in Remains(files[tf0], Fresh), files' = [files EXCEPT ![tf0] = g]
    PROVE  Logged' = Logged \/ \E tf \in Timeframes : Log!Extend(tf)
  <1> DEFINE f == files[tf0]
             new == Fresh
  <1>1. /\ tf0 \in Timeframes /\ Series(tf0, new, now) /\ Joins(tf0, f.lines, new)
        /\ \E hi \in Nat : Covers(tf0, new, since, hi)
    BY FreshSeries DEF CandleInv
  <1>2. new \in Seq(Candle)
    BY <1>1 DEF Covers
  <1>3. Stored(tf0, f, now) /\ files \in [Timeframes -> File]
    BY <1>1 DEF CandleInv, FilesInv
  <1> HIDE DEF f, new
  <1>4. g \in Remains(f, new)
    BY DEF f, new
  <1>5. g \in File /\ f \in File /\ (f.ended \/ f.lines # <<>>)
    <2>1. Stored(tf0, g, now)
      BY <1>1, <1>3, <1>4, RemainsStored
    <2> QED
      BY <1>3, <2>1 DEF Stored
  <1>6. \/ SoundPrefix(g) = SoundPrefix(f)
        \/ /\ SoundTo(f, Len(f.lines))
           /\ \E j \in 1..Len(new) :
                  SoundPrefix(g) = SoundPrefix(f) \o [i \in 1..j |-> new[i].open]
    BY <1>2, <1>4, <1>5, RemainsLogged
  <1>7. Logged' = [Logged EXCEPT ![tf0] = SoundPrefix(g)]
    <2>1. \A tf \in Timeframes : files'[tf] = IF tf = tf0 THEN g ELSE files[tf]
      BY <1>3
    <2>2. Logged' = [tf \in Timeframes |-> SoundPrefix(files'[tf])]
      BY DEF Logged, SoundPrefix
    <2>3. Logged = [tf \in Timeframes |-> SoundPrefix(files[tf])]
      BY DEF Logged
    <2> QED
      BY <1>1, <2>1, <2>2, <2>3
  <1>8. Logged[tf0] = SoundPrefix(f) /\ Logged = [tf \in Timeframes |-> Logged[tf]]
    BY <1>1 DEF Logged, f
  <1>9. CASE SoundPrefix(g) = SoundPrefix(f)
    <2>1. Logged' = Logged
      BY <1>1, <1>7, <1>8, <1>9
    <2> QED
      BY <2>1
  <1>10. CASE SoundPrefix(g) # SoundPrefix(f)
    <2>1. PICK j \in 1..Len(new) :
               SoundPrefix(g) = SoundPrefix(f) \o [i \in 1..j |-> new[i].open]
      BY <1>6, <1>10
    <2> DEFINE q == [i \in 1..j |-> new[i].open]
               tf == tf0
    <2> HIDE DEF q
    <2>2. Logged' = [Logged EXCEPT ![tf] = SoundPrefix(files[tf]) \o q]
      BY <1>7, <2>1 DEF q, f
    <2>3. SoundTo(files[tf], Len(files[tf].lines))
      BY <1>6, <1>10 DEF f
    <2>4. j \in 1..Len(Fresh) /\ q = [i \in 1..j |-> Fresh[i].open]
      BY DEF q, new
    <2> HIDE DEF tf
    <2>5. tf \in Timeframes /\ tf = tf0
      BY <1>1 DEF tf
    <2>6. Log!Extend(tf)
      BY <2>2, <2>3, <2>4, <2>5, GrowthIsExtend
    <2> QED
      BY <2>5, <2>6
  <1> QED
    BY <1>9, <1>10

(* Every step of the commands is a step of the log or a stutter. *)
LEMMA LogStep ==
    ASSUME CandleInv, MaxAhead = 0, [Next]_vars
    PROVE  [Log!Next]_(Log!vars)
  <1>1. CASE files' = files /\ now' = now
    <2>1. Logged' = Logged
      BY <1>1 DEF Logged, SoundPrefix
    <2> QED
      BY <1>1, <2>1, LoggedIsLog
  <1>2. CASE Tick
    <2>1. now' = now + 1 /\ files' = files
      BY <1>2 DEF Tick, fetchVars
    <2>2. Logged' = Logged
      BY <2>1 DEF Logged, SoundPrefix
    <2> QED
      BY <2>1, <2>2, LoggedIsLog
  <1>3. ASSUME NEW g \in Remains(files[tf0], Fresh), files' = [files EXCEPT ![tf0] = g],
               pc = "append", now' = now
        PROVE  [Log!Next]_(Log!vars)
    <2>1. Logged' = Logged \/ \E tf \in Timeframes : Log!Extend(tf)
      BY <1>3, WriteIsLogged
    <2> QED
      BY <1>3, <2>1, LoggedIsLog
  <1>4. CASE AppendCandles /\ Fresh # <<>>
    <2> DEFINE new == Fresh
               g == Written(files[tf0], new, TRUE)
    <2>1. pc = "append" /\ now' = now /\ files' = [files EXCEPT ![tf0] = g]
      BY <1>4 DEF AppendCandles, worldVars
    <2>2. new \in Seq(Line)
      BY <2>1, FreshSeries DEF CandleInv, Series
    <2> HIDE DEF new
    <2>3. SubSeq(new, 1, Len(new)) = new /\ Len(new) \in 0..Len(new)
      BY <2>2
    <2>4. g \in Remains(files[tf0], new)
      BY <2>3 DEF Remains
    <2> HIDE DEF g
    <2> QED
      BY <1>3, <2>1, <2>4 DEF new
  <1>5. CASE AppendCandles /\ Fresh = <<>>
    BY <1>1, <1>5 DEF AppendCandles, worldVars
  <1>6. CASE Kill
    <2>1. now' = now
      BY <1>6 DEF Kill, worldVars
    <2>2. CASE files' = files
      BY <1>1, <2>1, <2>2
    <2>3. CASE /\ pc = "append"
               /\ \E f \in Remains(files[tf0], Fresh) : files' = [files EXCEPT ![tf0] = f]
      BY <1>3, <2>1, <2>3
    <2> QED
      BY <1>6, <2>2, <2>3 DEF Kill, storeVars
  <1>7. CASE StartFetch \/ Resume \/ ResumeFails \/ FetchPage \/ Summarize \/ SummarizeFails
             \/ RebuildManifest \/ RebuildFails \/ RetryPage \/ PageFails
    <2>1. files' = files /\ now' = now
      BY <1>7 DEF StartFetch, Resume, ResumeFails, FetchPage, Summarize, SummarizeFails,
                  RebuildManifest, RebuildFails, RetryPage, PageFails, worldVars, storeVars
    <2> QED
      BY <1>1, <2>1
  <1>8. CASE UNCHANGED vars
    <2>1. files' = files /\ now' = now
      BY <1>8 DEF vars, worldVars, fetchVars
    <2> QED
      BY <1>1, <2>1
  <1> QED
    BY <1>2, <1>4, <1>5, <1>6, <1>7, <1>8 DEF Next, Command

(* The store keeps the log of candles it promises, whatever fails and whenever
   a command is killed, as long as no fetch is asked for candles of the
   future. *)
THEOREM StoreKeepsTheLog ==
    ASSUME MaxAhead = 0
    PROVE  Spec => KeepsTheCandleLog
  <1>1. Init => Log!Init
    <2> SUFFICES ASSUME Init
                 PROVE  Log!Init
      OBVIOUS
    <2>1. now = 0 /\ \A tf \in Timeframes : files[tf] = NoFile
      BY DEF Init
    <2>2. NoFile.lines = <<>> /\ NoFile.ended /\ NoFile \in File
      <3>1. <<>> \in Seq(Line)
        OBVIOUS
      <3> QED
        BY <3>1 DEF NoFile, File
    <2>3. SoundPrefix(NoFile) = <<>>
      <3>1. SoundTo(NoFile, 0)
        <4>1. Len(<<>>) = 0 /\ 1..0 = {} /\ 0 \in 0..0 /\ ~(0 < 0)
          OBVIOUS
        <4> QED
          BY <2>2, <4>1 DEF SoundTo
      <3>2. SoundPrefix(NoFile) = [i \in 1..0 |-> NoFile.lines[i].open]
        BY <2>2, <3>1, SoundPrefixIs
      <3> QED
        BY <3>2
    <2>4. Logged = [tf \in Timeframes |-> <<>>]
      BY <2>1, <2>3 DEF Logged
    <2> QED
      BY <2>1, <2>4, LoggedIsLog
  <1>2. CandleInv /\ [Next]_vars => [Log!Next]_(Log!vars)
    BY LogStep
  <1> QED
    BY <1>1, <1>2, CandleInvariant, PTL DEF Spec, KeepsTheCandleLog, Log!Spec

=============================================================================
