---------------------------- MODULE WorkspaceProofs ----------------------------
(***************************************************************************)
(* Proofs about the pairs, the flags, the decision log and the regime      *)
(* signal, for any symbols, targets and conditions, and whatever the       *)
(* exchange answers.                                                       *)
(*                                                                         *)
(* The invariant has three parts.  The files: no symbol twice, valid       *)
(* pairs, ascending ids.  The baselines: where a suggestion was followed,  *)
(* the pair still has the price it was followed at.  The output: what is   *)
(* reported of a pair is what the pair and the market say now, because     *)
(* every command that changes them reports something else.                 *)
(***************************************************************************)
EXTENDS Workspace, Lemmas

----------------------------------------------------------------------------
(* The invariant. *)

Pair == [symbol : Symbols, target : Int, stable : Int, band : {Defaults.band},
         minNotional : {Defaults.minNotional}, maxTrade : {Defaults.maxTrade}, baseline : Nat]

Flag == [id : 1..MaxId, symbol : Symbols, condition : Conditions]

SymbolsOnce(ps) == \A i, j \in DOMAIN ps : ps[i].symbol = ps[j].symbol => i = j

Sound(ps) ==
    /\ ps \in Seq(Pair)
    /\ SymbolsOnce(ps)
    /\ \A i \in DOMAIN ps : ValidPair(ps[i])

IdsAscend(fs) ==
    /\ fs \in Seq(Flag)
    /\ \A i, j \in DOMAIN fs : i < j => fs[i].id < fs[j].id

(* A pair has the baseline it was followed at; what is not configured was not
   followed. *)
Remembered(ps, fw) ==
    /\ fw \in [Symbols -> Nat]
    /\ \A i \in DOMAIN ps : fw[ps[i].symbol] > 0 => ps[i].baseline = fw[ps[i].symbol]
    /\ \A s \in Symbols : s \notin SymbolsOf(ps) => fw[s] = 0

RecordsTrue ==
    output.kind = "plan" =>
        \A k \in DOMAIN output.records : \E i \in DOMAIN pairs : output.records[k] = Record(pairs[i])

SignalsTrue ==
    output.kind = "regime" =>
        \A k \in DOMAIN output.signals : \E i \in DOMAIN pairs : output.signals[k] = Signal(pairs[i])

WorkspaceInv ==
    /\ market \in Snapshots
    /\ Sound(pairs)
    /\ IdsAscend(flags)
    /\ Remembered(pairs, followed)
    /\ RecordsTrue
    /\ SignalsTrue

----------------------------------------------------------------------------
(* Pairs. *)

(* PairOf finds the pair of a symbol. *)
LEMMA PairOfIs ==
    ASSUME NEW ps, Sound(ps), NEW s \in SymbolsOf(ps)
    PROVE  \E i \in DOMAIN ps : PairOf(ps, s) = ps[i] /\ ps[i].symbol = s
  <1>1. \E i \in DOMAIN ps : ps[i].symbol = s
    BY DEF SymbolsOf
  <1> QED
    BY <1>1 DEF PairOf

(* ... and the pair there is no other of its symbol. *)
LEMMA PairOfItsSymbol ==
    ASSUME NEW ps, Sound(ps), NEW i \in DOMAIN ps
    PROVE  PairOf(ps, ps[i].symbol) = ps[i]
  <1>1. ps[i].symbol \in SymbolsOf(ps)
    BY DEF SymbolsOf
  <1>2. PICK j \in DOMAIN ps : PairOf(ps, ps[i].symbol) = ps[j] /\ ps[j].symbol = ps[i].symbol
    BY <1>1, PairOfIs
  <1> QED
    BY <1>2 DEF Sound, SymbolsOnce

(* What the market, the ratios and the ids are. *)
LEMMA WorkspaceNumbers ==
    ASSUME market \in Snapshots
    PROVE  /\ market.last \in Nat /\ ReviewBand \in Nat /\ MaxId \in Nat
           /\ \A r \in Ratios : r.volatile \in Int /\ r.stable \in Int
  BY WorkspaceAssumption

(* pair add: a valid pair of a new symbol leaves the file sound. *)
LEMMA AddedIsSound ==
    ASSUME NEW ps, Sound(ps), NEW p \in Pair, ValidPair(p), p.symbol \notin SymbolsOf(ps)
    PROVE  /\ Sound(Append(ps, p))
           /\ SymbolsOf(Append(ps, p)) = SymbolsOf(ps) \cup {p.symbol}
           /\ \A i \in DOMAIN Append(ps, p) :
                 Append(ps, p)[i] = p \/ \E j \in DOMAIN ps : Append(ps, p)[i] = ps[j]
  <1> DEFINE qs == Append(ps, p)
             n == Len(ps)
  <1>1. ps \in Seq(Pair) /\ n \in Nat /\ DOMAIN ps = 1..n
    BY DEF Sound
  <1>2. /\ qs \in Seq(Pair) /\ DOMAIN qs = 1..(n + 1)
        /\ qs[n + 1] = p /\ \A i \in 1..n : qs[i] = ps[i]
    BY <1>1
  <1> HIDE DEF qs, n
  <1>3. \A i \in DOMAIN qs : i = n + 1 \/ i \in DOMAIN ps
    BY <1>1, <1>2
  <1>4. \A i \in DOMAIN ps : i \in DOMAIN qs /\ qs[i] = ps[i] /\ i # n + 1
    BY <1>1, <1>2
  <1>5. n + 1 \in DOMAIN qs
    BY <1>1, <1>2
  <1>6. \A i \in DOMAIN ps : ps[i].symbol # p.symbol
    BY DEF SymbolsOf
  <1>7. SymbolsOnce(qs)
    BY <1>2, <1>3, <1>4, <1>6 DEF Sound, SymbolsOnce
  <1>8. \A i \in DOMAIN qs : ValidPair(qs[i])
    BY <1>2, <1>3, <1>4 DEF Sound
  <1>9. SymbolsOf(qs) = SymbolsOf(ps) \cup {p.symbol}
    BY <1>2, <1>3, <1>4, <1>5 DEF SymbolsOf
  <1>10. \A i \in DOMAIN qs : qs[i] = p \/ \E j \in DOMAIN ps : qs[i] = ps[j]
    BY <1>2, <1>3, <1>4
  <1>11. Sound(qs)
    BY <1>2, <1>7, <1>8 DEF Sound
  <1> QED
    BY <1>9, <1>10, <1>11 DEF qs

(* pair set: so does another pair of the same symbol. *)
LEMMA ReplacedIsSound ==
    ASSUME NEW ps, Sound(ps), NEW p \in Pair, ValidPair(p), p.symbol \in SymbolsOf(ps)
    PROVE  /\ Sound(Replaced(ps, p))
           /\ SymbolsOf(Replaced(ps, p)) = SymbolsOf(ps)
           /\ DOMAIN Replaced(ps, p) = DOMAIN ps
           /\ \A i \in DOMAIN ps : /\ Replaced(ps, p)[i].symbol = ps[i].symbol
                                   /\ Replaced(ps, p)[i] =
                                         IF ps[i].symbol = p.symbol THEN p ELSE ps[i]
  <1> DEFINE qs == Replaced(ps, p)
             n == Len(ps)
  <1>1. ps \in Seq(Pair) /\ n \in Nat /\ DOMAIN ps = 1..n
    BY DEF Sound
  <1>2. /\ DOMAIN qs = DOMAIN ps
        /\ \A i \in DOMAIN ps : qs[i] = IF ps[i].symbol = p.symbol THEN p ELSE ps[i]
        /\ qs = [i \in 1..n |-> IF ps[i].symbol = p.symbol THEN p ELSE ps[i]]
    BY <1>1 DEF Replaced
  <1>3. \A i \in 1..n : (IF ps[i].symbol = p.symbol THEN p ELSE ps[i]) \in Pair
    BY <1>1
  <1>4. qs \in [1..n -> Pair]
    BY <1>2, <1>3
  <1>5. qs \in Seq(Pair)
    BY <1>1, <1>4
  <1> HIDE DEF qs, n
  <1>6. \A i \in DOMAIN ps : qs[i].symbol = ps[i].symbol
    BY <1>2
  <1>7. SymbolsOnce(qs)
    BY <1>2, <1>6 DEF Sound, SymbolsOnce
  <1>8. \A i \in DOMAIN qs : ValidPair(qs[i])
    BY <1>2 DEF Sound
  <1>9. SymbolsOf(qs) = SymbolsOf(ps)
    BY <1>2, <1>6 DEF SymbolsOf
  <1>10. Sound(qs)
    BY <1>5, <1>7, <1>8 DEF Sound
  <1> QED
    BY <1>2, <1>6, <1>9, <1>10 DEF qs

(* The places of the pairs of other symbols. *)
Others(ps, s) == {i \in DOMAIN ps : ps[i].symbol # s}

(* pair remove: and the others, in the order of the file. *)
LEMMA OthersAreSound ==
    ASSUME NEW ps, Sound(ps), NEW s, NEW qs, qs = Picked(ps, Others(ps, s))
    PROVE  /\ Sound(qs)
           /\ SymbolsOf(qs) = SymbolsOf(ps) \ {s}
           /\ \A k \in DOMAIN qs : \E i \in DOMAIN ps : qs[k] = ps[i] /\ ps[i].symbol # s
  <1> DEFINE I == Others(ps, s)
             n == Cardinality(I)
             at == Ascending(I)
  <1>1. ps \in Seq(Pair) /\ I \in SUBSET DOMAIN ps
    BY DEF Sound, Others
  <1>2. qs = Picked(ps, I)
    OBVIOUS
  <1>3. I \subseteq Int
    BY <1>1
  <1> HIDE DEF I
  <1>4. /\ qs \in Seq(Pair) /\ DOMAIN qs = 1..n /\ n \in Nat
        /\ at \in [1..n -> I]
        /\ \A k \in 1..n : qs[k] = ps[at[k]]
        /\ \A k, m \in 1..n : k < m => at[k] < at[m]
        /\ \A i \in I : \E k \in 1..n : at[k] = i
    <2> HIDE DEF n, at
    <2>1. /\ Picked(ps, I) \in Seq(Pair) /\ DOMAIN Picked(ps, I) = 1..n /\ n \in Nat
          /\ at \in [1..n -> I]
          /\ \A k \in 1..n : Picked(ps, I)[k] = ps[at[k]]
          /\ \A k, m \in 1..n : k < m => at[k] < at[m]
          /\ \A i \in I : \E k \in 1..n : at[k] = i
      BY <1>1, PickedLists DEF n, at
    <2> QED
      BY <1>2, <2>1
  <1> HIDE DEF n, at
  <1>5. \A k, m \in 1..n : at[k] = at[m] => k = m
    <2> SUFFICES ASSUME NEW k \in 1..n, NEW m \in 1..n, at[k] = at[m], k # m
                 PROVE  FALSE
      OBVIOUS
    <2>1. at[k] \in Int /\ at[m] \in Int
      BY <1>3, <1>4
    <2>2. k < m \/ m < k
      OBVIOUS
    <2> QED
      BY <1>4, <2>1, <2>2
  <1>6. \A k \in DOMAIN qs : /\ at[k] \in DOMAIN ps /\ at[k] \in I
                             /\ qs[k] = ps[at[k]] /\ ps[at[k]].symbol # s
    BY <1>4 DEF I, Others
  <1>7. SymbolsOnce(qs)
    BY <1>4, <1>5, <1>6 DEF Sound, SymbolsOnce
  <1>8. \A k \in DOMAIN qs : ValidPair(qs[k])
    BY <1>6 DEF Sound
  <1>9. SymbolsOf(qs) = SymbolsOf(ps) \ {s}
    <2>1. ASSUME NEW x \in SymbolsOf(ps) \ {s}
          PROVE  x \in SymbolsOf(qs)
      <3>1. PICK i \in DOMAIN ps : x = ps[i].symbol
        BY <2>1 DEF SymbolsOf
      <3>2. i \in I
        BY <2>1, <3>1 DEF I, Others
      <3>3. PICK k \in 1..n : at[k] = i
        BY <1>4, <3>2
      <3>4. k \in DOMAIN qs /\ qs[k].symbol = x
        BY <1>4, <3>1, <3>3
      <3> QED
        BY <3>4 DEF SymbolsOf
    <2>2. SymbolsOf(qs) \subseteq SymbolsOf(ps) \ {s}
      BY <1>6 DEF SymbolsOf
    <2> QED
      BY <2>1, <2>2
  <1>10. Sound(qs)
    BY <1>4, <1>7, <1>8 DEF Sound
  <1> QED
    BY <1>6, <1>9, <1>10

----------------------------------------------------------------------------
(* Flags. *)

(* _next_id is the number after the greatest id. *)
LEMMA NextIdIsNew ==
    ASSUME IdsAscend(flags), MaxId \in Nat
    PROVE  /\ NextId \in Nat \ {0}
           /\ \A i \in DOMAIN flags : flags[i].id < NextId
  <1>1. /\ flags \in Seq(Flag) /\ Len(flags) \in Nat /\ DOMAIN flags = 1..Len(flags)
        /\ \A i \in DOMAIN flags : flags[i] \in Flag
    BY DEF IdsAscend
  <1>2. \A i \in DOMAIN flags : flags[i].id \in Nat /\ flags[i].id >= 1
    BY <1>1 DEF Flag
  <1>3. CASE Ids = {}
    <2>1. DOMAIN flags = {}
      BY <1>3 DEF Ids
    <2>2. NextId = 1
      BY <1>3 DEF NextId
    <2> QED
      BY <2>1, <2>2
  <1>4. CASE Ids # {}
    <2>1. Ids \in SUBSET Nat /\ \A i \in DOMAIN flags : flags[i].id \in Ids
      BY <1>2 DEF Ids
    <2>2. IsFiniteSet(Ids)
      <3>1. Ids \subseteq 1..MaxId
        <4>1. \A i \in DOMAIN flags : flags[i].id \in 1..MaxId
          BY <1>1 DEF Flag
        <4> QED
          BY <4>1 DEF Ids
      <3>2. IsFiniteSet(1..MaxId)
        BY FS_Interval
      <3> QED
        BY <3>1, <3>2, FS_Subset
    <2> DEFINE Greatest(x) == \A k \in Ids : k <= x
    <2>3. \E x \in Ids : Greatest(x)
      BY <1>4, <2>1, <2>2, GreatestNumber
    <2>4. PICK m : m = CHOOSE x \in Ids : Greatest(x)
      OBVIOUS
    <2>5. NextId = 1 + m
      BY <1>4, <2>4 DEF NextId
    <2>6. m \in Ids /\ Greatest(m)
      <3> HIDE DEF Greatest
      <3> QED
        BY <2>3, <2>4
    <2>7. m \in Nat
      BY <2>1, <2>6
    <2>8. \A i \in DOMAIN flags : flags[i].id <= m /\ flags[i].id \in Nat
      BY <1>2, <2>1, <2>6
    <2> HIDE DEF Greatest
    <2> QED
      BY <2>5, <2>7, <2>8
  <1> QED
    BY <1>3, <1>4

(* flag add: the new flag comes last, with the greatest id. *)
LEMMA FlagAddKeeps ==
    ASSUME IdsAscend(flags), MaxId \in Nat, FlagAdd
    PROVE  IdsAscend(flags')
  <1> DEFINE n == Len(flags)
  <1>1. PICK s \in Symbols, c \in Conditions :
           flags' = Append(flags, [id |-> NextId, symbol |-> s, condition |-> c])
    BY DEF FlagAdd
  <1>2. PICK f : f = [id |-> NextId, symbol |-> s, condition |-> c]
    OBVIOUS
  <1>3. PICK gs : gs = flags'
    OBVIOUS
  <1>4. NextId \in Nat \ {0} /\ NextId <= MaxId /\ \A i \in DOMAIN flags : flags[i].id < NextId
    BY NextIdIsNew DEF FlagAdd
  <1>5. f \in Flag /\ f.id = NextId
    BY <1>2, <1>4 DEF Flag
  <1>6. flags \in Seq(Flag) /\ n \in Nat /\ DOMAIN flags = 1..n
        /\ \A i, j \in DOMAIN flags : i < j => flags[i].id < flags[j].id
    BY DEF IdsAscend
  <1>7. gs = Append(flags, f)
    BY <1>1, <1>2, <1>3
  <1>8. /\ gs \in Seq(Flag) /\ DOMAIN gs = 1..(n + 1) /\ gs[n + 1] = f
        /\ \A i \in 1..n : gs[i] = flags[i]
    <2>1. flags \in Seq(Flag)
      BY <1>6
    <2> QED
      BY <1>5, <1>7, <2>1
  <1> HIDE DEF n
  <1>9. \A i, j \in DOMAIN gs : i < j => gs[i].id < gs[j].id
    <2> SUFFICES ASSUME NEW i \in DOMAIN gs, NEW j \in DOMAIN gs, i < j
                 PROVE  gs[i].id < gs[j].id
      OBVIOUS
    <2>1. i \in 1..n /\ gs[i] = flags[i] /\ i \in DOMAIN flags
      BY <1>6, <1>8
    <2>2. CASE j = n + 1
      BY <1>4, <1>5, <1>8, <2>1, <2>2
    <2>3. CASE j # n + 1
      <3>1. j \in 1..n /\ j \in DOMAIN flags /\ gs[j] = flags[j]
        BY <1>6, <1>8, <2>3
      <3> QED
        BY <1>6, <2>1, <3>1
    <2> QED
      BY <2>2, <2>3
  <1> QED
    BY <1>3, <1>8, <1>9 DEF IdsAscend

(* flag remove: the others stay in their order. *)
LEMMA FlagRemoveKeeps ==
    ASSUME IdsAscend(flags), MaxId \in Nat, FlagRemove
    PROVE  IdsAscend(flags')
  <1>1. PICK id \in Ids : flags' = Picked(flags, {i \in DOMAIN flags : flags[i].id # id})
    BY DEF FlagRemove
  <1> DEFINE I == {i \in DOMAIN flags : flags[i].id # id}
             n == Cardinality(I)
             at == Ascending(I)
  <1>2. PICK gs : gs = flags'
    OBVIOUS
  <1>3. gs = Picked(flags, I)
    BY <1>1, <1>2
  <1>4. flags \in Seq(Flag) /\ I \in SUBSET DOMAIN flags
    BY DEF IdsAscend
  <1>5. \A i, j \in DOMAIN flags : i < j => flags[i].id < flags[j].id
    BY DEF IdsAscend
  <1> HIDE DEF I
  <1>6. /\ gs \in Seq(Flag) /\ DOMAIN gs = 1..n
        /\ at \in [1..n -> I]
        /\ \A k \in 1..n : gs[k] = flags[at[k]]
        /\ \A k, m \in 1..n : k < m => at[k] < at[m]
    <2> HIDE DEF n, at
    <2>1. /\ Picked(flags, I) \in Seq(Flag) /\ DOMAIN Picked(flags, I) = 1..n
          /\ at \in [1..n -> I]
          /\ \A k \in 1..n : Picked(flags, I)[k] = flags[at[k]]
          /\ \A k, m \in 1..n : k < m => at[k] < at[m]
      BY <1>4, PickedLists DEF n, at
    <2> QED
      BY <1>3, <2>1
  <1> HIDE DEF n, at
  <1>7. \A k, m \in DOMAIN gs : k < m => gs[k].id < gs[m].id
    <2>1. \A k \in 1..n : at[k] \in DOMAIN flags
      BY <1>4, <1>6
    <2> QED
      BY <1>5, <1>6, <2>1
  <1> QED
    BY <1>2, <1>6, <1>7 DEF IdsAscend

----------------------------------------------------------------------------
(* The regime signal. *)

(* What _suggested names is a percentage: a rung of the ladder, or the target. *)
LEMMA SuggestedIsInt ==
    ASSUME NEW p, p.target \in Int
    PROVE  Suggested(p) \in Int
  <1>1. Below(p) \subseteq {80, 50, 25} /\ Above(p) \subseteq {80, 50, 25}
    BY DEF Below, Above, Ladder, Scenarios
  <1>2. ASSUME Below(p) # {}
        PROVE  \E v \in Below(p) : \A w \in Below(p) : w <= v
    <2>1. CASE 80 \in Below(p)
      BY <1>1, <2>1
    <2>2. CASE 80 \notin Below(p) /\ 50 \in Below(p)
      BY <1>1, <2>2
    <2>3. CASE 80 \notin Below(p) /\ 50 \notin Below(p)
      BY <1>1, <1>2, <2>3
    <2> QED
      BY <2>1, <2>2, <2>3
  <1>3. ASSUME Above(p) # {}
        PROVE  \E v \in Above(p) : \A w \in Above(p) : v <= w
    <2>1. CASE 25 \in Above(p)
      BY <1>1, <2>1
    <2>2. CASE 25 \notin Above(p) /\ 50 \in Above(p)
      BY <1>1, <2>2
    <2>3. CASE 25 \notin Above(p) /\ 50 \notin Above(p)
      BY <1>1, <1>3, <2>3
    <2> QED
      BY <2>1, <2>2, <2>3
  <1>4. CASE Direction(p) = "up" /\ Below(p) # {}
    <2>1. Suggested(p) = CHOOSE v \in Below(p) : \A w \in Below(p) : w <= v
      BY <1>4 DEF Suggested
    <2>2. Suggested(p) \in Below(p)
      BY <1>2, <1>4, <2>1
    <2> QED
      BY <1>1, <2>2
  <1>5. CASE Direction(p) = "down" /\ Above(p) # {}
    <2>1. Suggested(p) = CHOOSE v \in Above(p) : \A w \in Above(p) : v <= w
      BY <1>5 DEF Suggested
    <2>2. Suggested(p) \in Above(p)
      BY <1>3, <1>5, <2>1
    <2> QED
      BY <1>1, <2>2
  <1>6. CASE ~(Direction(p) = "up" /\ Below(p) # {}) /\ ~(Direction(p) = "down" /\ Above(p) # {})
    BY <1>6 DEF Suggested
  <1> QED
    BY <1>4, <1>5, <1>6

----------------------------------------------------------------------------
(* The decision log. *)

(* The six guards have six names, and none is called OK. *)
LEMMA SixGuards ==
    /\ GUARD_ORDER = GuardOrder /\ DOMAIN GuardOrder = 1..6
    /\ \A i \in 1..6 : GuardOrder[i] # "OK"
    /\ \A i, j \in 1..6 : GuardOrder[i] = GuardOrder[j] => i = j
  <1>1. GUARD_ORDER = GuardOrder
    BY DEF GUARD_ORDER, GuardOrder
  <1>2. DOMAIN GuardOrder = 1..6
    BY DEF GuardOrder
  <1>3. \A i \in 1..6 : GuardOrder[i] # "OK"
    BY DEF GuardOrder
  <1>4. \A i, j \in 1..6 : GuardOrder[i] = GuardOrder[j] => i = j
    BY DEF GuardOrder
  <1> QED
    BY <1>1, <1>2, <1>3, <1>4

(* The reason of a pair is OK, with all guards passed, or names the first
   guard that skips it (decide). *)
LEMMA FirstToSkip ==
    ASSUME NEW p, NEW n
    PROVE  \/ /\ Reason(p, n) = "OK"
              /\ \A i \in 1..6 : ~Skips(GuardOrder[i], p, n)
           \/ \E f \in 1..6 : /\ Reason(p, n) = GuardOrder[f]
                              /\ Skips(GuardOrder[f], p, n)
                              /\ \A j \in 1..(f - 1) : ~Skips(GuardOrder[j], p, n)
  <1> DEFINE Bad(i) == Skips(GuardOrder[i], p, n)
             First(i) == Bad(i) /\ \A j \in 1..(i - 1) : ~Bad(j)
  <1>1. DOMAIN GuardOrder = 1..6
    BY SixGuards
  <1>2. CASE \A i \in 1..6 : ~Bad(i)
    BY <1>1, <1>2 DEF Reason
  <1>3. CASE \E i \in 1..6 : Bad(i)
    <2> DEFINE B == {i \in 1..6 : Bad(i)}
    <2>1. B \in SUBSET Nat /\ B # {}
      BY <1>3
    <2>2. PICK m \in B : \A k \in B : m <= k
      BY <2>1, LeastNumber
    <2>3. m \in 1..6 /\ First(m)
      BY <2>2
    <2>4. PICK f : f = CHOOSE i \in 1..6 : First(i)
      OBVIOUS
    <2>5. f \in 1..6 /\ First(f)
      <3> HIDE DEF First
      <3> QED
        BY <2>3, <2>4
    <2>6. Reason(p, n) = GuardOrder[f]
      BY <1>1, <1>3, <2>4 DEF Reason
    <2> QED
      BY <2>5, <2>6
  <1> QED
    BY <1>2, <1>3

(* What the log says of a record r of the pair p. *)
TellsTheGuards(r, p) ==
    /\ \A g \in DOMAIN r.guards :
          /\ r.guards[g] = "pass" => ~Skips(GUARD_ORDER[g], p, market)
          /\ r.guards[g] = "fail" => Skips(GUARD_ORDER[g], p, market)
          /\ r.guards[g] = "skipped" => \E h \in 1..(g - 1) : r.guards[h] = "fail"
    /\ (r.order.side # "none") <=> \A g \in DOMAIN r.guards : r.guards[g] = "pass"

(* The ladder reconstructed from a reason: the guard it names failed, those
   before it passed, those behind it were skipped (guard_ladder). *)
LEMMA LadderIs ==
    ASSUME NEW reason
    PROVE  /\ DOMAIN GuardLadder(reason) = 1..6
           /\ reason = "OK" => \A g \in 1..6 : GuardLadder(reason)[g] = "pass"
           /\ \A f \in 1..6 : reason = GuardOrder[f] =>
                 \A g \in 1..6 :
                    GuardLadder(reason)[g] =
                       IF g = f THEN "fail" ELSE IF f < g THEN "skipped" ELSE "pass"
  <1> DEFINE L == GuardLadder(reason)
             o == GuardOrder
  <1>1. o = GUARD_ORDER /\ DOMAIN o = 1..6 /\ (\A i \in 1..6 : o[i] # "OK")
        /\ (\A i, j \in 1..6 : o[i] = o[j] => i = j)
    BY SixGuards
  <1>2. /\ DOMAIN L = 1..6
        /\ \A g \in 1..6 : L[g] = IF o[g] = reason THEN "fail"
                                  ELSE IF \E j \in 1..(g - 1) : o[j] = reason THEN "skipped"
                                  ELSE "pass"
    BY <1>1 DEF GuardLadder
  <1> HIDE DEF L, o
  <1>3. reason = "OK" => \A g \in 1..6 : L[g] = "pass"
    BY <1>1, <1>2
  <1>4. ASSUME NEW f \in 1..6, reason = o[f], NEW g \in 1..6
        PROVE  L[g] = IF g = f THEN "fail" ELSE IF f < g THEN "skipped" ELSE "pass"
    <2>1. CASE g = f
      BY <1>2, <1>4, <2>1
    <2>2. CASE g # f
      <3>1. o[g] # reason
        BY <1>1, <1>4, <2>2
      <3>2. (\E j \in 1..(g - 1) : o[j] = reason) <=> f < g
        BY <1>1, <1>4
      <3> QED
        BY <1>2, <2>2, <3>1, <3>2
    <2> QED
      BY <2>1, <2>2
  <1> QED
    BY <1>2, <1>3, <1>4 DEF L, o

(* decision_to_record tells the guards the pair went through. *)
LEMMA RecordTells ==
    ASSUME NEW p
    PROVE  TellsTheGuards(Record(p), p)
  <1> DEFINE reason == Reason(p, market)
             L == GuardLadder(reason)
             r == Record(p)
             o == GuardOrder
  <1>1. o = GUARD_ORDER /\ DOMAIN L = 1..6 /\ \A f \in 1..6 : o[f] # "OK"
    BY SixGuards, LadderIs
  <1>2. /\ r.guards = L
        /\ r.order = IF reason = "OK" THEN Proposed(p, market) ELSE OrderOf("none", 0, 0)
    BY DEF Record
  <1>3. Proposed(p, market).side \in {"buy", "sell"} /\ OrderOf("none", 0, 0).side = "none"
    BY DEF Proposed, Clamp, Sized, OrderOf, SideOf
  <1>4. CASE reason = "OK" /\ \A i \in 1..6 : ~Skips(o[i], p, market)
    <2>1. \A g \in 1..6 : L[g] = "pass"
      BY <1>4, LadderIs
    <2>2. r.order.side # "none"
      BY <1>2, <1>3, <1>4
    <2> HIDE DEF r, L, o
    <2> QED
      BY <1>1, <1>2, <1>4, <2>1, <2>2 DEF TellsTheGuards, r
  <1>5. ASSUME NEW f \in 1..6, reason = o[f], Skips(o[f], p, market),
               \A j \in 1..(f - 1) : ~Skips(o[j], p, market)
        PROVE  TellsTheGuards(r, p)
    <2>1. \A g \in 1..6 : L[g] = IF g = f THEN "fail" ELSE IF f < g THEN "skipped" ELSE "pass"
      BY <1>5, LadderIs
    <2>2. r.order.side = "none"
      BY <1>1, <1>2, <1>3, <1>5
    <2> HIDE DEF r, L, o
    <2>3. ASSUME NEW g \in 1..6
          PROVE  /\ L[g] = "pass" => ~Skips(o[g], p, market)
                 /\ L[g] = "fail" => Skips(o[g], p, market)
                 /\ L[g] = "skipped" => \E h \in 1..(g - 1) : L[h] = "fail"
      <3>1. CASE g < f
        BY <1>5, <2>1, <3>1
      <3>2. CASE g = f
        BY <1>5, <2>1, <3>2
      <3>3. CASE f < g
        <4>1. f \in 1..(g - 1) /\ L[f] = "fail" /\ L[g] = "skipped"
          BY <2>1, <3>3
        <4> QED
          BY <4>1
      <3> QED
        BY <3>1, <3>2, <3>3
    <2>4. L[f] # "pass"
      BY <2>1
    <2> QED
      BY <1>1, <1>2, <2>2, <2>3, <2>4 DEF TellsTheGuards
  <1>6. \/ reason = "OK" /\ \A i \in 1..6 : ~Skips(o[i], p, market)
        \/ \E f \in 1..6 : /\ reason = o[f] /\ Skips(o[f], p, market)
                           /\ \A j \in 1..(f - 1) : ~Skips(o[j], p, market)
    BY FirstToSkip
  <1> QED
    BY <1>4, <1>5, <1>6

----------------------------------------------------------------------------
(* The steps. *)

LEMMA InitWorkspace == Init => WorkspaceInv
  <1> SUFFICES ASSUME Init
               PROVE  WorkspaceInv
    OBVIOUS
  <1>1. /\ pairs = <<>> /\ flags = <<>> /\ market \in Snapshots
        /\ output = [kind |-> "nothing"] /\ followed = [s \in Symbols |-> 0]
    BY DEF Init, Nothing
  <1>2. Sound(pairs) /\ SymbolsOf(pairs) = {}
    BY <1>1 DEF Sound, SymbolsOnce, SymbolsOf
  <1>3. IdsAscend(flags)
    BY <1>1 DEF IdsAscend
  <1>4. Remembered(pairs, followed)
    BY <1>1 DEF Remembered
  <1>5. RecordsTrue /\ SignalsTrue
    BY <1>1 DEF RecordsTrue, SignalsTrue
  <1> QED
    BY <1>1, <1>2, <1>3, <1>4, <1>5 DEF WorkspaceInv

(* A command that reports nothing of the pairs reports nothing wrong. *)
LEMMA Silent ==
    ASSUME output' = Nothing
    PROVE  RecordsTrue' /\ SignalsTrue'
  BY DEF Nothing, RecordsTrue, SignalsTrue

LEMMA PairAddKeeps == WorkspaceInv /\ PairAdd => WorkspaceInv'
  <1> SUFFICES ASSUME WorkspaceInv, PairAdd
               PROVE  WorkspaceInv'
    OBVIOUS
  <1>1. /\ market \in Snapshots /\ Sound(pairs) /\ IdsAscend(flags) /\ Remembered(pairs, followed)
    BY DEF WorkspaceInv
  <1>2. PICK s \in Symbols, r \in Ratios, b \in {0, market.last} :
           /\ Addable(s) /\ ValidPair(NewPair(s, r, b))
           /\ pairs' = Append(pairs, NewPair(s, r, b))
    BY DEF PairAdd
  <1>3. /\ output' = Nothing /\ flags' = flags /\ market' = market /\ followed' = followed
    BY DEF PairAdd
  <1>4. PICK p : p = NewPair(s, r, b)
    OBVIOUS
  <1>5. p \in Pair /\ p.symbol = s
    <2>1. b \in Nat /\ r.volatile \in Int /\ r.stable \in Int
      BY <1>1, WorkspaceNumbers
    <2> QED
      BY <1>4, <2>1 DEF NewPair, Pair
  <1>6. PICK qs : qs = Append(pairs, p)
    OBVIOUS
  <1>7. /\ Sound(qs) /\ SymbolsOf(qs) = SymbolsOf(pairs) \cup {s}
        /\ \A i \in DOMAIN qs : qs[i] = p \/ \E j \in DOMAIN pairs : qs[i] = pairs[j]
    BY <1>1, <1>2, <1>4, <1>5, <1>6, AddedIsSound DEF Addable
  <1>8. pairs' = qs
    BY <1>2, <1>4, <1>6
  <1>9. Remembered(qs, followed)
    <2>1. followed[s] = 0
      BY <1>1, <1>2 DEF Remembered, Addable
    <2>2. \A i \in DOMAIN qs : followed[qs[i].symbol] > 0 => qs[i].baseline = followed[qs[i].symbol]
      <3> SUFFICES ASSUME NEW i \in DOMAIN qs, followed[qs[i].symbol] > 0
                   PROVE  qs[i].baseline = followed[qs[i].symbol]
        OBVIOUS
      <3>1. qs[i] # p
        BY <1>5, <2>1
      <3>2. PICK j \in DOMAIN pairs : qs[i] = pairs[j]
        BY <1>7, <3>1
      <3> QED
        BY <1>1, <3>2 DEF Remembered
    <2> QED
      BY <1>1, <1>7, <2>2 DEF Remembered
  <1>10. RecordsTrue' /\ SignalsTrue'
    BY <1>3, Silent
  <1> QED
    BY <1>1, <1>3, <1>7, <1>8, <1>9, <1>10 DEF WorkspaceInv

(* _merge_pair: of the pair, what was given is new. *)
LEMMA MergedIsPair ==
    ASSUME NEW p \in Pair, NEW r, r.volatile \in Int, r.stable \in Int, NEW b \in Nat \cup {NotGiven}
    PROVE  /\ Merged(p, r, b) \in Pair
           /\ Merged(p, r, b).symbol = p.symbol
           /\ Merged(p, r, b).baseline = IF b = NotGiven THEN p.baseline ELSE b
  <1>1. NotGiven \notin Nat
    BY DEF NotGiven
  <1> QED
    BY <1>1 DEF Pair, Merged

(* A pair set anew is remembered as followed only if it has the baseline it was
   followed at (_merge_pair). *)
LEMMA SetIsRemembered ==
    ASSUME Sound(pairs), Remembered(pairs, followed), NEW s \in Symbols, NEW p \in Pair, p.symbol = s,
           s \in SymbolsOf(pairs), ValidPair(p), NEW b \in Nat,
           b > 0 => p.baseline = b
    PROVE  Remembered(Replaced(pairs, p), [followed EXCEPT ![s] = b])
  <1>1. PICK qs : qs = Replaced(pairs, p)
    OBVIOUS
  <1>2. /\ SymbolsOf(qs) = SymbolsOf(pairs) /\ DOMAIN qs = DOMAIN pairs
        /\ \A i \in DOMAIN pairs : /\ qs[i].symbol = pairs[i].symbol
                                   /\ qs[i] = IF pairs[i].symbol = p.symbol THEN p ELSE pairs[i]
    BY <1>1, ReplacedIsSound
  <1>3. PICK fw : fw = [followed EXCEPT ![s] = b]
    OBVIOUS
  <1>4. fw \in [Symbols -> Nat] /\ fw[s] = b /\ \A x \in Symbols : x # s => fw[x] = followed[x]
    BY <1>3 DEF Remembered
  <1>5. \A i \in DOMAIN pairs : pairs[i].symbol \in Symbols
    <2>1. \A i \in DOMAIN pairs : pairs[i] \in Pair
      BY DEF Sound
    <2> QED
      BY <2>1 DEF Pair
  <1>6. ASSUME NEW i \in DOMAIN qs, fw[qs[i].symbol] > 0
        PROVE  qs[i].baseline = fw[qs[i].symbol]
    <2>1. CASE pairs[i].symbol = s
      BY <1>2, <1>4, <1>6, <2>1
    <2>2. CASE pairs[i].symbol # s
      BY <1>2, <1>4, <1>5, <1>6, <2>2 DEF Remembered
    <2> QED
      BY <2>1, <2>2
  <1>7. \A x \in Symbols : x \notin SymbolsOf(qs) => fw[x] = 0
    BY <1>2, <1>4 DEF Remembered
  <1> QED
    BY <1>1, <1>3, <1>4, <1>6, <1>7 DEF Remembered

LEMMA PairSetKeeps == WorkspaceInv /\ PairSet => WorkspaceInv'
  <1> SUFFICES ASSUME WorkspaceInv, PairSet
               PROVE  WorkspaceInv'
    OBVIOUS
  <1>1. market \in Snapshots /\ Sound(pairs) /\ IdsAscend(flags) /\ Remembered(pairs, followed)
    BY DEF WorkspaceInv
  <1>2. PICK s \in SymbolsOf(pairs), b \in {NotGiven, market.last} :
           \E r \in Ratios \cup {Kept(PairOf(pairs, s))} :
              LET p == Merged(PairOf(pairs, s), r, b)
              IN  /\ ValidPair(p)
                  /\ pairs' = Replaced(pairs, p)
                  /\ followed' = [followed EXCEPT ![s] = IF b = NotGiven THEN @ ELSE 0]
    BY DEF PairSet
  <1>3. PICK r \in Ratios \cup {Kept(PairOf(pairs, s))} :
           LET p == Merged(PairOf(pairs, s), r, b)
           IN  /\ ValidPair(p)
               /\ pairs' = Replaced(pairs, p)
               /\ followed' = [followed EXCEPT ![s] = IF b = NotGiven THEN @ ELSE 0]
    BY <1>2
  <1>4. output' = Nothing /\ flags' = flags /\ market' = market
    BY DEF PairSet
  <1>5. PICK i \in DOMAIN pairs : PairOf(pairs, s) = pairs[i] /\ pairs[i].symbol = s
    BY <1>1, PairOfIs
  <1>6. pairs[i] \in Pair
    BY <1>1 DEF Sound
  <1>7. r.volatile \in Int /\ r.stable \in Int
    <2>1. CASE r \in Ratios
      BY <1>1, <2>1, WorkspaceNumbers
    <2>2. CASE r = Kept(pairs[i])
      BY <1>6, <2>2 DEF Kept, Pair
    <2> QED
      BY <1>5, <2>1, <2>2
  <1>8. b \in Nat \cup {NotGiven}
    BY <1>1, WorkspaceNumbers
  <1>9. PICK p : p = Merged(pairs[i], r, b)
    OBVIOUS
  <1>10. p \in Pair /\ p.symbol = s /\ p.baseline = IF b = NotGiven THEN pairs[i].baseline ELSE b
    BY <1>5, <1>6, <1>7, <1>8, <1>9, MergedIsPair
  <1>11. ValidPair(p) /\ pairs' = Replaced(pairs, p)
         /\ followed' = [followed EXCEPT ![s] = IF b = NotGiven THEN followed[s] ELSE 0]
    BY <1>3, <1>5, <1>9
  <1>12. Sound(pairs')
    BY <1>1, <1>10, <1>11, ReplacedIsSound
  <1>13. Remembered(pairs', followed')
    <2>1. s \in Symbols
      BY <1>5, <1>6 DEF Pair
    <2>2. PICK c : c = IF b = NotGiven THEN followed[s] ELSE 0
      OBVIOUS
    <2>3. c \in Nat /\ followed' = [followed EXCEPT ![s] = c]
      BY <1>1, <1>11, <2>1, <2>2 DEF Remembered
    <2>4. c > 0 => p.baseline = c
      <3>1. followed[pairs[i].symbol] > 0 => pairs[i].baseline = followed[pairs[i].symbol]
        BY <1>1 DEF Remembered
      <3> QED
        BY <1>5, <1>10, <2>2, <3>1
    <2>5. Remembered(Replaced(pairs, p), [followed EXCEPT ![s] = c])
      BY <1>1, <1>10, <1>11, <2>1, <2>3, <2>4, SetIsRemembered
    <2> QED
      BY <1>11, <2>3, <2>5
  <1>14. RecordsTrue' /\ SignalsTrue'
    BY <1>4, Silent
  <1> QED
    BY <1>1, <1>4, <1>12, <1>13, <1>14 DEF WorkspaceInv

LEMMA PairRemoveKeeps == WorkspaceInv /\ PairRemove => WorkspaceInv'
  <1> SUFFICES ASSUME WorkspaceInv, PairRemove
               PROVE  WorkspaceInv'
    OBVIOUS
  <1>1. market \in Snapshots /\ Sound(pairs) /\ IdsAscend(flags) /\ Remembered(pairs, followed)
    BY DEF WorkspaceInv
  <1>2. PICK s \in SymbolsOf(pairs) :
           /\ pairs' = Picked(pairs, {i \in DOMAIN pairs : pairs[i].symbol # s})
           /\ followed' = [followed EXCEPT ![s] = 0]
    BY DEF PairRemove
  <1>3. output' = Nothing /\ flags' = flags /\ market' = market
    BY DEF PairRemove
  <1>4. PICK qs : qs = Picked(pairs, Others(pairs, s))
    OBVIOUS
  <1>5. /\ Sound(qs) /\ SymbolsOf(qs) = SymbolsOf(pairs) \ {s}
        /\ \A k \in DOMAIN qs : \E i \in DOMAIN pairs : qs[k] = pairs[i] /\ pairs[i].symbol # s
    BY <1>1, <1>4, OthersAreSound
  <1>6. PICK fw : fw = [followed EXCEPT ![s] = 0]
    OBVIOUS
  <1>7. \A i \in DOMAIN pairs : pairs[i].symbol \in Symbols
    <2>1. \A i \in DOMAIN pairs : pairs[i] \in Pair
      BY <1>1 DEF Sound
    <2> QED
      BY <2>1 DEF Pair
  <1>8. s \in Symbols
    BY <1>7 DEF SymbolsOf
  <1>9. fw \in [Symbols -> Nat] /\ fw[s] = 0 /\ \A x \in Symbols : x # s => fw[x] = followed[x]
    BY <1>1, <1>6, <1>8 DEF Remembered
  <1>10. ASSUME NEW k \in DOMAIN qs, fw[qs[k].symbol] > 0
         PROVE  qs[k].baseline = fw[qs[k].symbol]
    <2>1. PICK i \in DOMAIN pairs : qs[k] = pairs[i] /\ pairs[i].symbol # s
      BY <1>5
    <2>2. fw[qs[k].symbol] = followed[pairs[i].symbol]
      BY <1>7, <1>9, <2>1
    <2> QED
      BY <1>1, <1>10, <2>1, <2>2 DEF Remembered
  <1>11. \A x \in Symbols : x \notin SymbolsOf(qs) => fw[x] = 0
    BY <1>1, <1>5, <1>9 DEF Remembered
  <1>12. Remembered(qs, fw)
    BY <1>9, <1>10, <1>11 DEF Remembered
  <1>13. pairs' = qs /\ followed' = fw
    BY <1>2, <1>4, <1>6 DEF Others
  <1>14. RecordsTrue' /\ SignalsTrue'
    BY <1>3, Silent
  <1> QED
    BY <1>1, <1>3, <1>5, <1>12, <1>13, <1>14 DEF WorkspaceInv

(* What is selected of the file is in the file. *)
LEMMA SelectedAreThere ==
    ASSUME Sound(pairs), NEW S, NEW ps, ps = Selected(S)
    PROVE  \A k \in DOMAIN ps : \E i \in DOMAIN pairs : ps[k] = pairs[i]
  <1> DEFINE I == {i \in DOMAIN pairs : pairs[i].symbol \in S}
  <1>1. pairs \in Seq(Pair) /\ I \in SUBSET DOMAIN pairs
    BY DEF Sound
  <1>2. ps = Picked(pairs, I)
    BY DEF Selected
  <1> HIDE DEF I
  <1>3. /\ DOMAIN Picked(pairs, I) = 1..Cardinality(I)
        /\ Ascending(I) \in [1..Cardinality(I) -> I]
        /\ \A k \in 1..Cardinality(I) : Picked(pairs, I)[k] = pairs[Ascending(I)[k]]
    BY <1>1, PickedLists
  <1> QED
    BY <1>1, <1>2, <1>3

LEMMA PlanKeeps == WorkspaceInv /\ Plan => WorkspaceInv'
  <1> SUFFICES ASSUME WorkspaceInv, Plan
               PROVE  WorkspaceInv'
    OBVIOUS
  <1>1. /\ market \in Snapshots /\ Sound(pairs) /\ IdsAscend(flags) /\ Remembered(pairs, followed)
    BY DEF WorkspaceInv
  <1>2. pairs' = pairs /\ flags' = flags /\ market' = market /\ followed' = followed
    BY DEF Plan
  <1>3. PICK S \in Requests :
           output' = [kind |-> "plan",
                      records |-> [i \in DOMAIN Selected(S) |-> Record(Selected(S)[i])]]
    BY DEF Plan
  <1>4. PICK ps : ps = Selected(S)
    OBVIOUS
  <1>5. output'.kind = "plan" /\ output'.records = [i \in DOMAIN ps |-> Record(ps[i])]
    BY <1>3, <1>4
  <1>6. \A k \in DOMAIN ps : \E i \in DOMAIN pairs : ps[k] = pairs[i]
    BY <1>1, <1>4, SelectedAreThere
  <1>7. \A p : Record(p)' = Record(p)
    BY <1>2 DEF Record
  <1>8. RecordsTrue'
    BY <1>2, <1>5, <1>6, <1>7 DEF RecordsTrue
  <1>9. SignalsTrue'
    BY <1>5 DEF SignalsTrue
  <1> QED
    BY <1>1, <1>2, <1>8, <1>9 DEF WorkspaceInv

LEMMA RegimeKeeps == WorkspaceInv /\ Regime => WorkspaceInv'
  <1> SUFFICES ASSUME WorkspaceInv, Regime
               PROVE  WorkspaceInv'
    OBVIOUS
  <1>1. /\ market \in Snapshots /\ Sound(pairs) /\ IdsAscend(flags) /\ Remembered(pairs, followed)
    BY DEF WorkspaceInv
  <1>2. pairs' = pairs /\ flags' = flags /\ market' = market /\ followed' = followed
    BY DEF Regime
  <1>3. PICK S \in Requests :
           output' = [kind |-> "regime",
                      signals |-> [i \in DOMAIN Selected(S) |-> Signal(Selected(S)[i])]]
    BY DEF Regime
  <1>4. PICK ps : ps = Selected(S)
    OBVIOUS
  <1>5. output'.kind = "regime" /\ output'.signals = [i \in DOMAIN ps |-> Signal(ps[i])]
    BY <1>3, <1>4
  <1>6. \A k \in DOMAIN ps : \E i \in DOMAIN pairs : ps[k] = pairs[i]
    BY <1>1, <1>4, SelectedAreThere
  <1>7. \A p : Signal(p)' = Signal(p)
    BY <1>2 DEF Signal, Direction, PriceChange, Suggested, Below, Above, Ladder, ScenariosOf
  <1>8. SignalsTrue'
    BY <1>2, <1>5, <1>6, <1>7 DEF SignalsTrue
  <1>9. RecordsTrue'
    BY <1>5 DEF RecordsTrue
  <1> QED
    BY <1>1, <1>2, <1>8, <1>9 DEF WorkspaceInv

LEMMA FlagsKeep == WorkspaceInv /\ (FlagAdd \/ FlagRemove \/ FlagList) => WorkspaceInv'
  <1> SUFFICES ASSUME WorkspaceInv, FlagAdd \/ FlagRemove \/ FlagList
               PROVE  WorkspaceInv'
    OBVIOUS
  <1>1. /\ market \in Snapshots /\ Sound(pairs) /\ IdsAscend(flags) /\ Remembered(pairs, followed)
        /\ MaxId \in Nat
    BY WorkspaceNumbers DEF WorkspaceInv
  <1>2. pairs' = pairs /\ market' = market /\ followed' = followed
    BY DEF FlagAdd, FlagRemove, FlagList
  <1>3. IdsAscend(flags')
    <2>1. CASE FlagList
      BY <1>1, <2>1 DEF FlagList
    <2> QED
      BY <1>1, <2>1, FlagAddKeeps, FlagRemoveKeeps
  <1>4. RecordsTrue' /\ SignalsTrue'
    <2>1. CASE FlagAdd \/ FlagRemove
      BY <2>1, Silent DEF FlagAdd, FlagRemove
    <2>2. CASE FlagList
      <3>1. output'.kind = "flags"
        BY <2>2 DEF FlagList
      <3> QED
        BY <3>1 DEF RecordsTrue, SignalsTrue
    <2> QED
      BY <2>1, <2>2
  <1> QED
    BY <1>1, <1>2, <1>3, <1>4 DEF WorkspaceInv

LEMMA FollowKeeps == WorkspaceInv /\ Follow => WorkspaceInv'
  <1> SUFFICES ASSUME WorkspaceInv, Follow
               PROVE  WorkspaceInv'
    OBVIOUS
  <1>1. /\ market \in Snapshots /\ Sound(pairs) /\ IdsAscend(flags) /\ Remembered(pairs, followed)
        /\ SignalsTrue /\ market.last \in Nat
    BY WorkspaceNumbers DEF WorkspaceInv
  <1>2. PICK k \in DOMAIN output.signals :
           LET g == output.signals[k]
               p == Merged(PairOf(pairs, g.symbol),
                           [volatile |-> g.suggested, stable |-> 100 - g.suggested], market.last)
           IN  /\ g.flag /\ ValidPair(p)
               /\ pairs' = Replaced(pairs, p)
               /\ followed' = [followed EXCEPT ![g.symbol] = market.last]
    BY DEF Follow
  <1>3. output.kind = "regime" /\ output' = Nothing /\ flags' = flags /\ market' = market
    BY DEF Follow
  <1>4. PICK i \in DOMAIN pairs : output.signals[k] = Signal(pairs[i])
    BY <1>1, <1>3 DEF SignalsTrue
  <1>5. PICK q : q = pairs[i]
    OBVIOUS
  <1>6. q \in Pair /\ q.symbol \in Symbols /\ q.symbol \in SymbolsOf(pairs) /\ q.target \in Int
    <2>1. q \in Pair
      BY <1>1, <1>5 DEF Sound
    <2>2. q.symbol \in SymbolsOf(pairs)
      BY <1>5 DEF SymbolsOf
    <2> QED
      BY <2>1, <2>2 DEF Pair
  <1>7. PICK g : g = Signal(q)
    OBVIOUS
  <1>8. g.symbol = q.symbol /\ (g.flag => g.suggested = Suggested(q))
    BY <1>7 DEF Signal
  <1>9. PICK r : r = [volatile |-> g.suggested, stable |-> 100 - g.suggested]
    OBVIOUS
  <1>10. PairOf(pairs, g.symbol) = q
    BY <1>1, <1>5, <1>8, PairOfItsSymbol
  <1>11. PICK p : p = Merged(q, r, market.last)
    OBVIOUS
  <1>12. /\ g.flag /\ ValidPair(p) /\ pairs' = Replaced(pairs, p)
         /\ followed' = [followed EXCEPT ![q.symbol] = market.last]
    BY <1>2, <1>4, <1>5, <1>7, <1>8, <1>9, <1>10, <1>11
  <1>13. r.volatile \in Int /\ r.stable \in Int
    <2>1. g.suggested \in Int
      BY <1>6, <1>8, <1>12, SuggestedIsInt
    <2> QED
      BY <1>9, <2>1
  <1>14. p \in Pair /\ p.symbol = q.symbol /\ p.baseline = market.last
    <2>1. market.last \in Nat \cup {NotGiven} /\ market.last # NotGiven
      BY <1>1 DEF NotGiven
    <2> QED
      BY <1>6, <1>11, <1>13, <2>1, MergedIsPair
  <1>15. Sound(pairs')
    BY <1>1, <1>6, <1>12, <1>14, ReplacedIsSound
  <1>16. Remembered(pairs', followed')
    BY <1>1, <1>6, <1>12, <1>14, SetIsRemembered
  <1>17. RecordsTrue' /\ SignalsTrue'
    BY <1>3, Silent
  <1> QED
    BY <1>1, <1>3, <1>15, <1>16, <1>17 DEF WorkspaceInv

LEMMA MarketMovesKeeps == WorkspaceInv /\ MarketMoves => WorkspaceInv'
  <1> SUFFICES ASSUME WorkspaceInv, MarketMoves
               PROVE  WorkspaceInv'
    OBVIOUS
  <1>1. RecordsTrue' /\ SignalsTrue'
    BY Silent DEF MarketMoves
  <1> QED
    BY <1>1 DEF WorkspaceInv, MarketMoves

LEMMA WorkspaceStutter == WorkspaceInv /\ UNCHANGED vars => WorkspaceInv'
  <1> SUFFICES ASSUME WorkspaceInv, UNCHANGED vars
               PROVE  WorkspaceInv'
    OBVIOUS
  <1>1. pairs' = pairs /\ flags' = flags /\ market' = market /\ output' = output /\ followed' = followed
    BY DEF vars
  <1>2. \A p : Record(p)' = Record(p)
    BY <1>1 DEF Record
  <1>3. \A p : Signal(p)' = Signal(p)
    BY <1>1 DEF Signal, Direction, PriceChange, Suggested, Below, Above, Ladder, ScenariosOf
  <1>4. RecordsTrue'
    BY <1>1, <1>2 DEF RecordsTrue, WorkspaceInv
  <1>5. SignalsTrue'
    BY <1>1, <1>3 DEF SignalsTrue, WorkspaceInv
  <1> QED
    BY <1>1, <1>4, <1>5 DEF WorkspaceInv

LEMMA WorkspaceSteps == WorkspaceInv /\ [Next]_vars => WorkspaceInv'
  <1> SUFFICES ASSUME WorkspaceInv, [Next]_vars
               PROVE  WorkspaceInv'
    OBVIOUS
  <1>1. CASE PairAdd
    BY <1>1, PairAddKeeps
  <1>2. CASE PairSet
    BY <1>2, PairSetKeeps
  <1>3. CASE PairRemove
    BY <1>3, PairRemoveKeeps
  <1>4. CASE Plan
    BY <1>4, PlanKeeps
  <1>5. CASE FlagAdd \/ FlagRemove \/ FlagList
    BY <1>5, FlagsKeep
  <1>6. CASE Regime
    BY <1>6, RegimeKeeps
  <1>7. CASE Follow
    BY <1>7, FollowKeeps
  <1>8. CASE MarketMoves
    BY <1>8, MarketMovesKeeps
  <1>9. CASE UNCHANGED vars
    BY <1>9, WorkspaceStutter
  <1> QED
    BY <1>1, <1>2, <1>3, <1>4, <1>5, <1>6, <1>7, <1>8, <1>9 DEF Next

(* The invariant holds of every reachable state of the files and of what the
   commands report of them. *)
THEOREM WorkspaceInvHolds == Spec => []WorkspaceInv
  <1> QED
    BY InitWorkspace, WorkspaceSteps, PTL DEF Spec

----------------------------------------------------------------------------
(* What follows. *)

LEMMA LoadableFromInv == WorkspaceInv => StoresStayLoadable
  <1> SUFFICES ASSUME WorkspaceInv
               PROVE  StoresStayLoadable
    OBVIOUS
  <1>1. Sound(pairs) /\ IdsAscend(flags)
    BY DEF WorkspaceInv
  <1>2. /\ flags \in Seq(Flag) /\ Len(flags) \in Nat /\ DOMAIN flags = 1..Len(flags)
        /\ \A i, j \in DOMAIN flags : i < j => flags[i].id < flags[j].id
    BY <1>1 DEF IdsAscend
  <1>3. \A i \in DOMAIN flags : flags[i].id \in 1..MaxId
    <2>1. \A i \in DOMAIN flags : flags[i] \in Flag
      BY <1>2
    <2> QED
      BY <2>1 DEF Flag
  <1>4. ASSUME NEW i \in 1..(Len(flags) - 1)
        PROVE  flags[i].id < flags[i + 1].id
    <2>1. i \in DOMAIN flags /\ i + 1 \in DOMAIN flags /\ i < i + 1
      BY <1>2
    <2> QED
      BY <1>2, <2>1
  <1>5. /\ \A i, j \in DOMAIN pairs : pairs[i].symbol = pairs[j].symbol => i = j
        /\ \A i \in DOMAIN pairs : ValidPair(pairs[i])
    BY <1>1 DEF Sound, SymbolsOnce
  <1> QED
    BY <1>3, <1>4, <1>5 DEF StoresStayLoadable

LEMMA LadderFromInv == WorkspaceInv => LadderTellsTheGuards
  <1> SUFFICES ASSUME WorkspaceInv, output.kind = "plan", NEW k \in DOMAIN output.records
               PROVE  TellsTheGuards(output.records[k],
                                     PairOf(pairs, output.records[k].symbol))
    BY DEF LadderTellsTheGuards, TellsTheGuards
  <1>1. PICK i \in DOMAIN pairs : output.records[k] = Record(pairs[i])
    BY DEF WorkspaceInv, RecordsTrue
  <1>2. output.records[k].symbol = pairs[i].symbol
    BY <1>1 DEF Record
  <1>3. PairOf(pairs, output.records[k].symbol) = pairs[i]
    BY <1>2, PairOfItsSymbol DEF WorkspaceInv
  <1> QED
    BY <1>1, <1>3, RecordTells

LEMMA FollowedFromInv == WorkspaceInv => FollowedOncePerMove
  <1> SUFFICES ASSUME WorkspaceInv, NEW i \in DOMAIN pairs,
                      followed[pairs[i].symbol] > 0, followed[pairs[i].symbol] = market.last
               PROVE  Direction(pairs[i]) = "flat"
    BY DEF FollowedOncePerMove
  <1>1. PICK p : p = pairs[i]
    OBVIOUS
  <1>2. p.baseline = market.last /\ market.last > 0
    BY <1>1 DEF WorkspaceInv, Remembered
  <1>3. market.last \in Nat /\ ReviewBand \in Nat
    BY WorkspaceNumbers DEF WorkspaceInv
  <1>4. PriceChange(p) = 0
    <2>1. market.last - p.baseline = 0
      BY <1>2, <1>3
    <2> QED
      BY <2>1 DEF PriceChange
  <1>5. ReviewBand * p.baseline \in Nat
    BY <1>2, <1>3
  <1>6. Direction(p) = "flat"
    <2> DEFINE edge == ReviewBand * p.baseline
    <2>1. ~(p.baseline <= 0) /\ ~(PriceChange(p) > edge) /\ ~(PriceChange(p) < -edge)
      <3> HIDE DEF edge
      <3>1. edge \in Nat
        BY <1>5 DEF edge
      <3> QED
        BY <1>2, <1>3, <1>4, <3>1
    <2> QED
      BY <2>1 DEF Direction
  <1> QED
    BY <1>1, <1>6

(* Any sequence of pair add, pair set, pair remove, flag add and flag remove
   leaves files that can be read back: no symbol twice, every pair valid, the
   ids of the flags ascending (PortfolioStore._check_duplicates,
   FlagsManager._next_id). *)
THEOREM StoresLoadable == Spec => []StoresStayLoadable
  <1> QED
    BY WorkspaceInvHolds, LoadableFromInv, PTL

(* The ladder of every record of the decision log is the one the guards went
   through, for any pair and any snapshot (guard_ladder, decision_to_record). *)
THEOREM LadderIsTrue == Spec => []LadderTellsTheGuards
  <1> QED
    BY WorkspaceInvHolds, LadderFromInv, PTL

(* A pair whose suggestion was taken over at a price gets no other at that
   price, whatever is edited in between (RegimeManager.signal, _merge_pair). *)
THEOREM FollowedOnce == Spec => []FollowedOncePerMove
  <1> QED
    BY WorkspaceInvHolds, FollowedFromInv, PTL

===============================================================================
