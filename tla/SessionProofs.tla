---------------------------- MODULE SessionProofs ----------------------------
(***************************************************************************)
(* What holds of the plan / rebalance handshake for every configuration,   *)
(* every market and any number of pairs.                                   *)
(***************************************************************************)
EXTENDS RebalanceSession, Lemmas

(* The tickers shown are quotes; every pair has its slot for an order, and
   what rests in it was planned. *)
TickersShown == ticker \in [Symbols -> Prices]
PlannedInv == DOMAIN resting = Symbols /\ EveryOrderWasPlanned

----------------------------------------------------------------------------
(* The steps. *)

(* The quotes shown are always ones the pair may show. *)
LEMMA TickersAreShown == Spec => []TickersShown
  <1>1. \A s \in Symbols : Tickers[s] \subseteq Prices
    BY SessionAssumption
  <1>2. Init => TickersShown
    BY <1>1 DEF Init, TickersShown
  <1>3. TickersShown /\ [Next]_vars => TickersShown'
    <2> SUFFICES ASSUME TickersShown, [Next]_vars
                 PROVE  TickersShown'
      OBVIOUS
    <2>1. CASE UNCHANGED ticker
      BY <2>1 DEF TickersShown
    <2>2. ASSUME NEW s \in Symbols, TickerMoves(s)
          PROVE  TickersShown'
      BY <1>1, <2>2 DEF TickerMoves, TickersShown
    <2>3. CASE UNCHANGED vars
      BY <2>1, <2>3 DEF vars
    <2>4. ASSUME NEW S \in SUBSET Symbols, Command(S)
          PROVE  UNCHANGED ticker
      BY <2>4 DEF Command, IssueToken, Rebalance, Cancel
    <2>5. ASSUME NEW s \in Symbols, Fill(s) \/ IntervalElapses(s)
          PROVE  UNCHANGED ticker
      BY <2>5 DEF Fill, IntervalElapses
    <2>6. CASE ToggleStop
      BY <2>1, <2>6 DEF ToggleStop
    <2> QED
      BY <2>1, <2>2, <2>3, <2>4, <2>5, <2>6 DEF Next
  <1> QED
    BY <1>2, <1>3, PTL DEF Spec

(* Only rebalance leaves an order where there was none or another. *)
LEMMA OnlyRebalancePlaces ==
    ASSUME DOMAIN resting = Symbols, [Next]_vars, NEW s \in Symbols, Places(s)
    PROVE  \E S \in SUBSET Symbols, confirm \in issued \cup {NoToken} : Rebalance(S, confirm)
  <1>1. resting'[s] # NoOrder /\ resting'[s] # resting[s]
    BY DEF Places
  <1>2. CASE UNCHANGED resting
    BY <1>1, <1>2
  <1>3. ASSUME NEW S \in SUBSET Symbols, Cancel(S)
        PROVE  FALSE
    BY <1>1, <1>3 DEF Cancel
  <1>4. ASSUME NEW S \in SUBSET Symbols, IssueToken(S)
        PROVE  UNCHANGED resting
    BY <1>4 DEF IssueToken, account
  <1>5. ASSUME NEW q \in Symbols, Fill(q)
        PROVE  FALSE
    BY <1>1, <1>5 DEF Fill
  <1>6. ASSUME NEW q \in Symbols, TickerMoves(q) \/ IntervalElapses(q)
        PROVE  UNCHANGED resting
    BY <1>6 DEF TickerMoves, IntervalElapses, account
  <1>7. CASE ToggleStop \/ UNCHANGED vars
    BY <1>2, <1>7 DEF ToggleStop, vars, account
  <1> QED
    BY <1>2, <1>3, <1>4, <1>5, <1>6, <1>7 DEF Next, Command

(* The order it leaves is the proposed one of an actionable pair. *)
LEMMA PlacedIsProposed ==
    ASSUME NEW S \in SUBSET Symbols, NEW confirm, Rebalance(S, confirm),
           NEW s \in Symbols, Places(s)
    PROVE  s \in ActionableIn(S) /\ resting'[s] = ProposedFor(s)
  <1>1. PICK R \in SUBSET ActionableIn(S) :
           resting' = [q \in Symbols |->
                          IF q \in R THEN NoOrder
                          ELSE IF q \in ActionableIn(S) THEN ProposedFor(q)
                          ELSE resting[q]]
    BY DEF Rebalance
  <1> QED
    BY <1>1 DEF Places

(* Tokens once issued stay issued. *)
LEMMA TokensStay == [Next]_vars => issued \subseteq issued'
  BY DEF Next, Command, IssueToken, Rebalance, Cancel, Fill, TickerMoves, IntervalElapses,
         ToggleStop, vars

(* Every pair keeps its slot for an order. *)
LEMMA SlotsStay == DOMAIN resting = Symbols /\ [Next]_vars => DOMAIN resting' = Symbols
  <1> SUFFICES ASSUME DOMAIN resting = Symbols, [Next]_vars
               PROVE  DOMAIN resting' = Symbols
    OBVIOUS
  <1>1. ASSUME NEW S \in SUBSET Symbols, Command(S)
        PROVE  DOMAIN resting' = Symbols
    BY <1>1 DEF Command, IssueToken, Rebalance, Cancel, account
  <1>2. ASSUME NEW s \in Symbols, Fill(s) \/ TickerMoves(s) \/ IntervalElapses(s)
        PROVE  DOMAIN resting' = Symbols
    BY <1>2 DEF Fill, TickerMoves, IntervalElapses, account
  <1>3. CASE ToggleStop \/ UNCHANGED vars
    BY <1>3 DEF ToggleStop, vars, account
  <1> QED
    BY <1>1, <1>2, <1>3 DEF Next

----------------------------------------------------------------------------
(* The theorems. *)

(* No order ever rests whose pair and direction no plan or dry run announced,
   whatever the market, the balances and the selection of pairs did in between
   (confirm_token, _enforce_safety). *)
THEOREM Planned == Spec => []EveryOrderWasPlanned
  <1>1. Init => PlannedInv
    BY DEF Init, PlannedInv, EveryOrderWasPlanned, Rests
  <1>2. PlannedInv /\ [Next]_vars => PlannedInv'
    <2> SUFFICES ASSUME PlannedInv, [Next]_vars
                 PROVE  PlannedInv'
      OBVIOUS
    <2>1. DOMAIN resting' = Symbols
      BY SlotsStay DEF PlannedInv
    <2>2. SUFFICES ASSUME NEW s \in Symbols, resting'[s] # NoOrder
                   PROVE  \E t \in issued' : <<s, resting'[s].side>> \in t
      BY <2>1 DEF PlannedInv, EveryOrderWasPlanned, Rests
    <2>3. CASE resting'[s] = resting[s]
      BY <2>2, <2>3, TokensStay DEF PlannedInv, EveryOrderWasPlanned, Rests
    <2>4. CASE resting'[s] # resting[s]
      <3>1. Places(s)
        BY <2>2, <2>4 DEF Places
      <3>2. PICK S \in SUBSET Symbols, confirm \in issued \cup {NoToken} : Rebalance(S, confirm)
        BY <3>1, OnlyRebalancePlaces DEF PlannedInv
      <3>3. <<s, resting'[s].side>> \in Token(S)
        BY <3>1, <3>2, PlacedIsProposed DEF Token
      <3>4. confirm = Token(S) /\ issued' = issued
        BY <3>2 DEF Rebalance, PassesSafety
      <3>5. confirm \in issued
        BY <3>2, <3>3, <3>4 DEF NoToken
      <3> QED
        BY <3>2, <3>3, <3>4, <3>5
    <2> QED
      BY <2>3, <2>4
  <1>3. PlannedInv => EveryOrderWasPlanned
    BY DEF PlannedInv
  <1> QED
    BY <1>1, <1>2, <1>3, PTL DEF Spec

(* Every order placed is within max_trade_notional of its pair at its own
   limit (_clamp). *)
THEOREM MaxTradeHolds == Spec => OrdersWithinMaxTrade
  <1> DEFINE Within(s) == (Places(s) /\ Config[s].maxTrade > 0) =>
                             resting'[s].amount * resting'[s].limit <= Config[s].maxTrade
             Slots == DOMAIN resting = Symbols
  <1>1. Init => Slots
    BY DEF Init
  <1>2. Slots /\ [Next]_vars => Slots'
    BY SlotsStay
  <1>3. TickersShown /\ Slots /\ [Next]_vars => [\A s \in Symbols : Within(s)]_vars
    <2> SUFFICES ASSUME TickersShown, DOMAIN resting = Symbols, [Next]_vars,
                        NEW s \in Symbols, Places(s), Config[s].maxTrade > 0
                 PROVE  resting'[s].amount * resting'[s].limit <= Config[s].maxTrade
      OBVIOUS
    <2> DEFINE p == Config[s]
               n == Snapshot(s)
    <2>1. p.maxTrade \in Nat \ {0}
      BY SessionAssumption DEF PairConfig
    <2>2. n.bid \in Nat /\ n.ask \in Nat
      BY DEF TickersShown, Prices, Snapshot
    <2>3. Actionable(p, n) /\ resting'[s] = Proposed(p, n)
      BY OnlyRebalancePlaces, PlacedIsProposed DEF ActionableIn, ProposedFor
    <2>4. Limit(p, n) \in Nat \ {0}
      <3> HIDE DEF n, p
      <3> QED
        BY <2>2, <2>3, LimitIsAPrice
    <2>5. Proposed(p, n) = Clamp(OrderOf(SideOf(p, n), Amount(p, n), Limit(p, n)), p, n)
      BY DEF Proposed, Sized
    <2> HIDE DEF n, p
    <2>6. Proposed(p, n).amount * Proposed(p, n).limit <= p.maxTrade
      BY <2>1, <2>4, <2>5, ClampHolds
    <2> QED
      BY <2>3, <2>6 DEF p
  <1> QED
    BY <1>1, <1>2, <1>3, TickersAreShown, PTL DEF Spec, OrdersWithinMaxTrade

----------------------------------------------------------------------------
(* The floor. *)

(* Balances and orders are numbers. *)
Numbers ==
    /\ base \in [Symbols -> Int] /\ stable \in Int
    /\ ticker \in [Symbols -> Prices]
    /\ DOMAIN resting = Symbols
    /\ \A s \in Symbols : resting[s].amount \in Int /\ resting[s].notional \in Int

(* The decision reads numbers. *)
LEMMA SnapshotInNumbers ==
    ASSUME Numbers, NEW s \in Symbols
    PROVE  Config[s] \in PairConfig /\ IsSnapshot(Snapshot(s))
  BY SessionAssumption DEF Numbers, Prices, Snapshot, IsSnapshot

(* A session starts with numbers ... *)
LEMMA NumbersAtFirst == Init => Numbers
  <1>1. NoOrder.amount \in Int /\ NoOrder.notional \in Int
    BY DEF NoOrder, OrderOf
  <1>2. Init => ticker \in [Symbols -> Prices]
    <2>1. \A s \in Symbols : Tickers[s] \subseteq Prices
      BY SessionAssumption
    <2> QED
      BY <2>1 DEF Init
  <1> QED
    BY <1>1, <1>2, SessionAssumption DEF Init, Numbers

(* ... and every step keeps them: a fill adds or takes a number, an order is
   an order of the decision. *)
LEMMA NumbersKept ==
    ASSUME Numbers, [Next]_vars
    PROVE  Numbers'
  <1> DEFINE Slot(s) == resting[s].amount \in Int /\ resting[s].notional \in Int
  <1>1. NoOrder.amount \in Int /\ NoOrder.notional \in Int
    BY DEF NoOrder, OrderOf
  <1>2. \A s \in Symbols : Tickers[s] \subseteq Prices
    BY SessionAssumption
  <1>3. CASE UNCHANGED <<base, stable, resting, ticker>>
    BY <1>3 DEF Numbers
  <1>4. ASSUME NEW S \in SUBSET Symbols, NEW confirm \in issued \cup {NoToken},
               Rebalance(S, confirm)
        PROVE  Numbers'
    <2>1. PICK R \in SUBSET ActionableIn(S) :
             resting' = [q \in Symbols |->
                            IF q \in R THEN NoOrder
                            ELSE IF q \in ActionableIn(S) THEN ProposedFor(q)
                            ELSE resting[q]]
      BY <1>4 DEF Rebalance
    <2>2. UNCHANGED <<base, stable, ticker>>
      BY <1>4 DEF Rebalance
    <2>3. ASSUME NEW q \in Symbols, q \in ActionableIn(S)
          PROVE  ProposedFor(q).amount \in Int /\ ProposedFor(q).notional \in Int
      <3>1. Actionable(Config[q], Snapshot(q))
        BY <2>3 DEF ActionableIn
      <3>2. Config[q] \in PairConfig /\ IsSnapshot(Snapshot(q))
        BY SnapshotInNumbers
      <3> QED
        BY <3>1, <3>2, ProposedNumbers DEF ProposedFor
    <2>4. DOMAIN resting' = Symbols /\ \A q \in Symbols : Slot(q)'
      BY <1>1, <2>1, <2>3 DEF Numbers
    <2> QED
      BY <2>2, <2>4 DEF Numbers
  <1>5. ASSUME NEW S \in SUBSET Symbols, Cancel(S)
        PROVE  Numbers'
    <2>1. resting' = [s \in Symbols |-> IF s \in S THEN NoOrder ELSE resting[s]]
      BY <1>5 DEF Cancel
    <2>2. DOMAIN resting' = Symbols /\ \A q \in Symbols : Slot(q)'
      BY <1>1, <2>1 DEF Numbers
    <2> QED
      BY <1>5, <2>2 DEF Cancel, Numbers
  <1>6. ASSUME NEW s \in Symbols, Fill(s)
        PROVE  Numbers'
    <2>1. PICK sign \in {1, -1} :
            /\ base' = [base EXCEPT ![s] = @ + sign * resting[s].amount]
            /\ stable' = stable - sign * resting[s].notional
            /\ resting' = [resting EXCEPT ![s] = NoOrder]
            /\ ticker' = ticker
      BY <1>6 DEF Fill
    <2>2. sign * resting[s].amount \in Int /\ sign * resting[s].notional \in Int
      BY DEF Numbers
    <2>3. base' \in [Symbols -> Int] /\ stable' \in Int
      BY <2>1, <2>2 DEF Numbers
    <2>4. DOMAIN resting' = Symbols /\ \A q \in Symbols : Slot(q)'
      BY <1>1, <2>1 DEF Numbers
    <2> QED
      BY <2>1, <2>3, <2>4 DEF Numbers
  <1>7. ASSUME NEW s \in Symbols, TickerMoves(s)
        PROVE  Numbers'
    <2>1. ticker' \in [Symbols -> Prices]
      BY <1>2, <1>7 DEF TickerMoves, Numbers
    <2> QED
      BY <1>7, <2>1 DEF TickerMoves, Numbers, account
  <1>8. ASSUME NEW S \in SUBSET Symbols, IssueToken(S)
        PROVE  UNCHANGED <<base, stable, resting, ticker>>
    BY <1>8 DEF IssueToken, account
  <1>9. ASSUME NEW s \in Symbols, IntervalElapses(s)
        PROVE  UNCHANGED <<base, stable, resting, ticker>>
    BY <1>9 DEF IntervalElapses, account
  <1>10. CASE ToggleStop \/ UNCHANGED vars
    BY <1>3, <1>10 DEF ToggleStop, vars, account
  <1> QED
    BY <1>3, <1>4, <1>5, <1>6, <1>7, <1>8, <1>9, <1>10 DEF Next, Command

(* An order placed that max_trade did not cut misses min_notional by less than
   the value of a lot and what its limit is away from the last price, for every
   configuration and every market (_below_min_notional, _size_order). *)
THEOREM FloorMissed == Spec => FloorMissedByALotAtMost
  <1> DEFINE Kept(s) == LET o == resting'[s]
                            n == Snapshot(s)
                        IN  (Places(s) /\ (Config[s].maxTrade = 0
                            \/ o.notional + Lot * o.limit <= Config[s].maxTrade)) =>
                              o.notional + Lot * LastPrice(n) + o.amount * Abs(LastPrice(n) - o.limit)
                                  > Config[s].minNotional
  <1>1. Init => Numbers
    BY NumbersAtFirst
  <1>2. Numbers /\ [Next]_vars => Numbers'
    BY NumbersKept
  <1>3. Numbers /\ [Next]_vars => [\A s \in Symbols : Kept(s)]_vars
    <2> SUFFICES ASSUME Numbers, [Next]_vars, NEW s \in Symbols, Places(s),
                        \/ Config[s].maxTrade = 0
                        \/ resting'[s].notional + Lot * resting'[s].limit <= Config[s].maxTrade
                 PROVE  resting'[s].notional + Lot * LastPrice(Snapshot(s))
                            + resting'[s].amount * Abs(LastPrice(Snapshot(s)) - resting'[s].limit)
                          > Config[s].minNotional
      OBVIOUS
    <2>1. DOMAIN resting = Symbols
      BY DEF Numbers
    <2>2. Actionable(Config[s], Snapshot(s)) /\ resting'[s] = Proposed(Config[s], Snapshot(s))
      BY <2>1, OnlyRebalancePlaces, PlacedIsProposed DEF ActionableIn, ProposedFor
    <2>3. Config[s] \in PairConfig /\ IsSnapshot(Snapshot(s))
      BY SnapshotInNumbers
    <2> QED
      BY <2>2, <2>3, FloorHolds
  <1> QED
    BY <1>1, <1>2, <1>3, PTL DEF Spec, FloorMissedByALotAtMost

----------------------------------------------------------------------------
(* The session cap. *)

(* Orders agreeing with proposals on a part of the pairs cost no more than all
   the proposals together (session_notional). *)
LEMMA PartCostsLess ==
    ASSUME NEW A, IsFiniteSet(A), NEW P \in SUBSET A, NEW orders, NEW proposed,
           \A s \in A : proposed[s].notional \in Nat,
           \A s \in P : orders[s] = proposed[s]
    PROVE  NotionalOf(P, orders) <= NotionalOf(A, proposed)
  <1> DEFINE f == [s \in P |-> orders[s].notional]
             g == [s \in A |-> proposed[s].notional]
  <1>1. IsFiniteSet(P) /\ (\A s \in P : f[s] = g[s]) /\ (\A s \in A : g[s] \in Nat)
    BY FS_Subset
  <1>2. NotionalOf(P, orders) = SumFunctionOnSet(f, P)
    BY DEF NotionalOf
  <1>3. NotionalOf(A, proposed) = SumFunctionOnSet(g, A)
    BY DEF NotionalOf
  <1> HIDE DEF f, g
  <1>4. SumFunctionOnSet(f, P) = SumFunctionOnSet(g, P)
    BY <1>1, SumSame
  <1>5. SumFunctionOnSet(g, P) <= SumFunctionOnSet(g, A)
    BY <1>1, SumOfPart
  <1> QED
    BY <1>2, <1>3, <1>4, <1>5

(* What one run places costs, at the limits it is placed at, no more than the
   session cap, for every configuration, every market and any number of pairs
   (session_notional, _enforce_safety). *)
THEOREM CapHolds == Spec => RunWithinCap
  <1> DEFINE Placed == {s \in Symbols : Places(s)}
             Kept == SessionCap > 0 => NotionalOf(Placed, resting') <= SessionCap
  <1>1. Init => Numbers
    BY NumbersAtFirst
  <1>2. Numbers /\ [Next]_vars => Numbers'
    BY NumbersKept
  <1>3. Numbers /\ [Next]_vars => [Kept]_vars
    <2> SUFFICES ASSUME Numbers, [Next]_vars, SessionCap > 0
                 PROVE  NotionalOf(Placed, resting') <= SessionCap
      OBVIOUS
    <2>1. CASE Placed = {}
      <3>1. NotionalOf({}, resting') = 0
        BY SumOfNone DEF NotionalOf
      <3> QED
        BY <2>1, <3>1, SessionAssumption
    <2>2. CASE Placed # {}
      <3>1. PICK S \in SUBSET Symbols, confirm \in issued \cup {NoToken} : Rebalance(S, confirm)
        BY <2>2, OnlyRebalancePlaces DEF Numbers
      <3> DEFINE A == ActionableIn(S)
                 proposed == [s \in A |-> ProposedFor(s)]
      <3>2. A \in SUBSET Symbols /\ IsFiniteSet(A)
        BY SessionAssumption, FS_Subset DEF ActionableIn
      <3>3. Placed \in SUBSET A /\ \A s \in Placed : resting'[s] = proposed[s]
        BY <3>1, PlacedIsProposed
      <3>4. ASSUME NEW s \in A
            PROVE  proposed[s].notional \in Nat
        <4>1. Actionable(Config[s], Snapshot(s))
          BY DEF ActionableIn
        <4>2. Config[s] \in PairConfig /\ IsSnapshot(Snapshot(s))
          BY <3>2, SnapshotInNumbers
        <4> QED
          BY <4>1, <4>2, ProposedNumbers DEF ProposedFor
      <3>5. SessionNotional(S) = NotionalOf(A, proposed)
        BY DEF SessionNotional
      <3>6. SessionNotional(S) <= SessionCap
        BY <3>1 DEF Rebalance, PassesSafety
      <3> HIDE DEF A, proposed, Placed
      <3>7. NotionalOf(Placed, resting') <= NotionalOf(A, proposed)
        BY <3>2, <3>3, <3>4, PartCostsLess
      <3>8. NotionalOf(Placed, resting') \in Int /\ NotionalOf(A, proposed) \in Int
        <4> DEFINE f == [s \in Placed |-> resting'[s].notional]
                   g == [s \in A |-> proposed[s].notional]
        <4>1. IsFiniteSet(Placed) /\ (\A s \in Placed : f[s] \in Int)
                  /\ (\A s \in A : g[s] \in Int)
          BY <3>2, <3>3, <3>4, FS_Subset
        <4> HIDE DEF f, g
        <4>2. SumFunctionOnSet(f, Placed) \in Int /\ SumFunctionOnSet(g, A) \in Int
          BY <3>2, <4>1, SumIsInt
        <4> QED
          BY <4>2 DEF NotionalOf, f, g
      <3> QED
        BY <3>5, <3>6, <3>7, <3>8, SessionAssumption
    <2> QED
      BY <2>1, <2>2
  <1> QED
    BY <1>1, <1>2, <1>3, PTL DEF Spec, RunWithinCap

(* What a run places stays within both caps, for every configuration and
   market (_enforce_safety, _clamp). *)
THEOREM CapsHold == Spec => PlacesWithinCaps
  BY CapHolds, MaxTradeHolds DEF PlacesWithinCaps

----------------------------------------------------------------------------
(* The funds of the account. *)

(* What a list of orders ties up of the stable coin, pair by pair. *)
Tied(orders) == [s \in Symbols |-> IF orders[s].side = "buy" THEN orders[s].notional ELSE 0]

(* Every resting order is covered: the buys together by the stable coin, each
   sell by its base asset. *)
Covered ==
    /\ NotionalOf(BuysAmong(Symbols, resting), resting) <= stable
    /\ \A s \in Symbols : resting[s].side = "sell" => resting[s].amount <= base[s]

(* The inductive invariant: the type says that no balance is negative, which
   only holds because the orders are covered. *)
AccountInv == TypeOK /\ Covered

(* The empty slot counts as an order of nothing. *)
LEMMA NoOrderIsOrder ==
    IsOrder(NoOrder) /\ NoOrder.side = "buy" /\ NoOrder.amount = 0 /\ NoOrder.notional = 0
  BY DEF NoOrder, OrderOf, IsOrder

(* What the buys cost together is the sum of what is tied up. *)
LEMMA TiedFunds ==
    ASSUME NEW orders, \A s \in Symbols : IsOrder(orders[s])
    PROVE  /\ NotionalOf(BuysAmong(Symbols, orders), orders)
                 = SumFunctionOnSet(Tied(orders), Symbols)
           /\ \A s \in Symbols : Tied(orders)[s] \in Nat
           /\ SumFunctionOnSet(Tied(orders), Symbols) \in Nat
  <1> DEFINE B == BuysAmong(Symbols, orders)
             f == [s \in B |-> orders[s].notional]
             g == Tied(orders)
  <1>1. IsFiniteSet(Symbols) /\ B \in SUBSET Symbols /\ IsFiniteSet(B)
    BY SessionAssumption, FS_Subset DEF BuysAmong
  <1>2. \A s \in Symbols : g[s] \in Nat
    BY OrdersAreNumbers DEF Tied
  <1>3. (\A s \in B : f[s] = g[s]) /\ (\A s \in Symbols \ B : g[s] = 0)
    BY DEF Tied, BuysAmong
  <1>4. NotionalOf(B, orders) = SumFunctionOnSet(f, B)
    BY DEF NotionalOf
  <1> HIDE DEF B, f, g
  <1>5. SumFunctionOnSet(f, B) = SumFunctionOnSet(g, B)
    BY <1>1, <1>3, SumSame
  <1>6. SumFunctionOnSet(g, Symbols) = SumFunctionOnSet(g, B)
    BY <1>1, <1>2, <1>3, SumOfRest
  <1>7. SumFunctionOnSet(g, Symbols) \in Nat
    BY <1>1, <1>2, SumIsNat
  <1> QED
    BY <1>2, <1>4, <1>5, <1>6, <1>7 DEF B, g

(* Orders taken away tie up no more than before. *)
LEMMA FewerTieUpLess ==
    ASSUME NEW orders, NEW fewer,
           \A s \in Symbols : IsOrder(orders[s]) /\ IsOrder(fewer[s]),
           \A s \in Symbols : fewer[s] = orders[s] \/ fewer[s] = NoOrder
    PROVE  SumFunctionOnSet(Tied(fewer), Symbols) <= SumFunctionOnSet(Tied(orders), Symbols)
  <1> DEFINE f == Tied(fewer)
             g == Tied(orders)
  <1>1. IsFiniteSet(Symbols)
    BY SessionAssumption
  <1>2. \A s \in Symbols : f[s] \in Nat /\ g[s] \in Nat
    BY TiedFunds
  <1>3. \A s \in Symbols : f[s] <= g[s]
    BY <1>2, NoOrderIsOrder DEF Tied
  <1> HIDE DEF f, g
  <1>4. \A s \in Symbols : f[s] \in Int /\ g[s] \in Int /\ f[s] <= g[s]
    BY <1>2, <1>3
  <1> QED
    BY <1>1, <1>4, SumAtMost DEF f, g

(* One order taken away leaves what the others tie up. *)
LEMMA OneTiesUpItsOwn ==
    ASSUME NEW orders, NEW fewer, NEW s \in Symbols,
           \A q \in Symbols : IsOrder(orders[q]) /\ IsOrder(fewer[q]),
           \A q \in Symbols \ {s} : fewer[q] = orders[q], fewer[s] = NoOrder
    PROVE  SumFunctionOnSet(Tied(orders), Symbols)
              = Tied(orders)[s] + SumFunctionOnSet(Tied(fewer), Symbols)
  <1> DEFINE f == Tied(fewer)
             g == Tied(orders)
             Rest == Symbols \ {s}
  <1>1. IsFiniteSet(Symbols) /\ IsFiniteSet(Rest)
    BY SessionAssumption, FS_Subset
  <1>2. \A q \in Symbols : f[q] \in Int /\ g[q] \in Int
    BY TiedFunds
  <1>3. f[s] = 0 /\ \A q \in Rest : f[q] = g[q]
    BY NoOrderIsOrder DEF Tied
  <1> HIDE DEF f, g
  <1>4. SumFunctionOnSet(g, Symbols) = g[s] + SumFunctionOnSet(g, Rest)
    BY <1>1, <1>2, SumWithout
  <1>5. SumFunctionOnSet(f, Symbols) = f[s] + SumFunctionOnSet(f, Rest)
    BY <1>1, <1>2, SumWithout
  <1>6. SumFunctionOnSet(f, Rest) = SumFunctionOnSet(g, Rest)
    BY <1>1, <1>3, SumSame
  <1>7. SumFunctionOnSet(f, Rest) \in Int
    BY <1>1, <1>2, SumIsInt
  <1> QED
    BY <1>3, <1>4, <1>5, <1>6, <1>7 DEF f, g

(* Rebalance leaves orders the account covers. *)
LEMMA RebalanceKeepsAccount ==
    ASSUME Numbers, AccountInv, NEW S \in SUBSET Symbols, NEW confirm, Rebalance(S, confirm)
    PROVE  AccountInv'
  <1>1. PICK R \in SUBSET ActionableIn(S) :
           resting' = [q \in Symbols |->
                          IF q \in R THEN NoOrder
                          ELSE IF q \in ActionableIn(S) THEN ProposedFor(q)
                          ELSE resting[q]]
    BY DEF Rebalance
  <1>2. UNCHANGED <<base, stable, ticker, cooling, issued, stop, moves>> /\ FundsHold
    BY DEF Rebalance
  <1>3. ASSUME NEW q \in Symbols
        PROVE  IsOrder(resting'[q])
    <2>1. CASE q \in ActionableIn(S)
      <3>1. Actionable(Config[q], Snapshot(q))
        BY <2>1 DEF ActionableIn
      <3>2. Config[q] \in PairConfig /\ IsSnapshot(Snapshot(q))
        BY SnapshotInNumbers
      <3>3. IsOrder(ProposedFor(q))
        BY <3>1, <3>2, ProposedIsOrder DEF ProposedFor
      <3> QED
        BY <1>1, <2>1, <3>3, NoOrderIsOrder
    <2>2. CASE q \notin ActionableIn(S)
      BY <1>1, <2>2, NoOrderIsOrder DEF AccountInv, TypeOK
    <2> QED
      BY <2>1, <2>2
  <1>4. DOMAIN resting' = Symbols
    BY <1>1
  <1>5. TypeOK'
    BY <1>2, <1>3, <1>4 DEF AccountInv, TypeOK
  <1>6. Covered'
    BY <1>2 DEF FundsHold, Covered
  <1> QED
    BY <1>5, <1>6 DEF AccountInv

(* Orders taken away leave the rest covered. *)
LEMMA CancelKeepsAccount ==
    ASSUME AccountInv, NEW S \in SUBSET Symbols, Cancel(S)
    PROVE  AccountInv'
  <1>1. resting' = [s \in Symbols |-> IF s \in S THEN NoOrder ELSE resting[s]]
    BY DEF Cancel
  <1>2. UNCHANGED <<base, stable, ticker, cooling, issued, stop, moves>>
    BY DEF Cancel
  <1>3. /\ DOMAIN resting' = Symbols
        /\ \A s \in Symbols : IsOrder(resting[s]) /\ IsOrder(resting'[s])
        /\ \A s \in Symbols : resting'[s] = resting[s] \/ resting'[s] = NoOrder
    BY <1>1, NoOrderIsOrder DEF AccountInv, TypeOK
  <1>4. TypeOK'
    BY <1>2, <1>3 DEF AccountInv, TypeOK
  <1>5. NotionalOf(BuysAmong(Symbols, resting'), resting') <= stable
    <2>1. /\ SumFunctionOnSet(Tied(resting'), Symbols) \in Nat
          /\ NotionalOf(BuysAmong(Symbols, resting'), resting')
              = SumFunctionOnSet(Tied(resting'), Symbols)
      BY <1>3, TiedFunds
    <2>2. /\ SumFunctionOnSet(Tied(resting), Symbols) \in Nat
          /\ NotionalOf(BuysAmong(Symbols, resting), resting)
              = SumFunctionOnSet(Tied(resting), Symbols)
      BY <1>3, TiedFunds
    <2>3. SumFunctionOnSet(Tied(resting'), Symbols) <= SumFunctionOnSet(Tied(resting), Symbols)
      BY <1>3, FewerTieUpLess
    <2>4. NotionalOf(BuysAmong(Symbols, resting), resting) <= stable /\ stable \in Nat
      BY DEF AccountInv, Covered, TypeOK
    <2> QED
      BY <2>1, <2>2, <2>3, <2>4
  <1>6. \A s \in Symbols : resting'[s].side = "sell" => resting'[s].amount <= base[s]
    BY <1>3, NoOrderIsOrder DEF AccountInv, Covered
  <1> QED
    BY <1>2, <1>4, <1>5, <1>6 DEF AccountInv, Covered

(* A fill pays with what its order had tied up. *)
LEMMA FillKeepsAccount ==
    ASSUME AccountInv, NEW s \in Symbols, Fill(s)
    PROVE  AccountInv'
  <1> DEFINE o == resting[s]
  <1>1. /\ resting' = [resting EXCEPT ![s] = NoOrder]
        /\ cooling' = [cooling EXCEPT ![s] = TRUE]
        /\ UNCHANGED <<ticker, issued, stop, moves>>
    BY DEF Fill
  <1>2. /\ DOMAIN resting' = Symbols
        /\ \A q \in Symbols : IsOrder(resting[q]) /\ IsOrder(resting'[q])
        /\ (\A q \in Symbols \ {s} : resting'[q] = resting[q]) /\ resting'[s] = NoOrder
    BY <1>1, NoOrderIsOrder DEF AccountInv, TypeOK
  <1>3. /\ o.amount \in Nat /\ o.notional \in Nat /\ o.side \in {"buy", "sell"}
        /\ stable \in Nat /\ base \in [Symbols -> Nat] /\ base[s] \in Nat
    BY <1>2, OrdersAreNumbers DEF AccountInv, TypeOK
  <1>4. /\ o.side = "buy" => stable' = stable - o.notional
            /\ base' = [base EXCEPT ![s] = @ + o.amount]
        /\ o.side = "sell" => stable' = stable + o.notional
            /\ base' = [base EXCEPT ![s] = @ - o.amount]
    <2>1. CASE o.side = "buy"
      <3>1. stable' = stable - 1 * o.notional
                /\ base' = [base EXCEPT ![s] = base[s] + 1 * o.amount]
        BY <2>1 DEF Fill
      <3>2. stable - 1 * o.notional = stable - o.notional
            /\ base[s] + 1 * o.amount = base[s] + o.amount
        BY <1>3
      <3> QED
        BY <2>1, <3>1, <3>2
    <2>2. CASE o.side = "sell"
      <3>1. stable' = stable - (-1) * o.notional
                /\ base' = [base EXCEPT ![s] = base[s] + (-1) * o.amount]
        BY <2>2 DEF Fill
      <3>2. stable - (-1) * o.notional = stable + o.notional
            /\ base[s] + (-1) * o.amount = base[s] - o.amount
        BY <1>3
      <3> QED
        BY <2>2, <3>1, <3>2
    <2> QED
      BY <1>3, <2>1, <2>2
  <1>5. o.side = "sell" => o.amount <= base[s]
    BY DEF AccountInv, Covered
  <1> DEFINE before == SumFunctionOnSet(Tied(resting), Symbols)
             after == SumFunctionOnSet(Tied(resting'), Symbols)
  <1>6. before = Tied(resting)[s] + after
    BY <1>2, OneTiesUpItsOwn
  <1>7. before \in Nat /\ before = NotionalOf(BuysAmong(Symbols, resting), resting)
    BY <1>2, TiedFunds
  <1>8. after \in Nat /\ after = NotionalOf(BuysAmong(Symbols, resting'), resting')
    BY <1>2, TiedFunds
  <1>9. before <= stable
    BY <1>7 DEF AccountInv, Covered
  <1>10. Tied(resting)[s] = IF o.side = "buy" THEN o.notional ELSE 0
    BY DEF Tied
  <1> HIDE DEF o, before, after
  <1>11. stable' \in Nat /\ after <= stable'
    BY <1>3, <1>4, <1>6, <1>7, <1>8, <1>9, <1>10
  <1>12. base' \in [Symbols -> Nat] /\ \A q \in Symbols \ {s} : base'[q] = base[q]
    <2>1. CASE o.side = "buy"
      BY <1>3, <1>4, <2>1
    <2>2. CASE o.side = "sell"
      BY <1>3, <1>4, <1>5, <2>2
    <2> QED
      BY <1>3, <2>1, <2>2
  <1>13. TypeOK'
    BY <1>1, <1>2, <1>11, <1>12 DEF AccountInv, TypeOK
  <1>14. \A q \in Symbols : resting'[q].side = "sell" => resting'[q].amount <= base'[q]
    BY <1>2, <1>12, NoOrderIsOrder DEF AccountInv, Covered
  <1> QED
    BY <1>8, <1>11, <1>13, <1>14 DEF AccountInv, Covered

(* Nothing else touches balances or orders. *)
LEMMA OthersKeepAccount ==
    ASSUME AccountInv, UNCHANGED <<base, stable, resting>>, TypeOK'
    PROVE  AccountInv'
  <1>1. Covered'
    BY DEF AccountInv, Covered
  <1> QED
    BY <1>1 DEF AccountInv

(* No balance is ever overdrawn, for every configuration and every market:
   whatever rests is covered, the buys of all pairs together (Snapshot, the
   venue's own test).  Every other variable stays in its range. *)
THEOREM AccountTypes == Spec => []TypeOK
  <1>1. Init => AccountInv
    <2> SUFFICES ASSUME Init
                 PROVE  AccountInv
      OBVIOUS
    <2>1. DOMAIN resting = Symbols /\ \A s \in Symbols : resting[s] = NoOrder
      BY DEF Init
    <2>2. TypeOK
      <3>1. base \in [Symbols -> Nat] /\ stable \in Nat
        BY SessionAssumption DEF Init
      <3>2. DOMAIN ticker = Symbols /\ \A s \in Symbols : ticker[s] \in Tickers[s]
        BY DEF Init
      <3>3. moves \in 0..MaxMoves
        BY SessionAssumption DEF Init
      <3>4. cooling \in [Symbols -> BOOLEAN] /\ issued = {} /\ stop \in BOOLEAN
        BY DEF Init
      <3> QED
        BY <2>1, <3>1, <3>2, <3>3, <3>4, NoOrderIsOrder DEF TypeOK
    <2>3. NotionalOf(BuysAmong(Symbols, resting), resting) = 0
      <3> DEFINE f == Tied(resting)
      <3>1. IsFiniteSet(Symbols)
        BY SessionAssumption
      <3>2. \A s \in Symbols \ {} : f[s] = 0
        BY <2>1, NoOrderIsOrder DEF Tied
      <3>3. NotionalOf(BuysAmong(Symbols, resting), resting) = SumFunctionOnSet(f, Symbols)
        BY <2>1, NoOrderIsOrder, TiedFunds
      <3> HIDE DEF f
      <3>4. {} \in SUBSET Symbols /\ \A s \in Symbols : f[s] \in Int
        BY <3>2
      <3>5. SumFunctionOnSet(f, Symbols) = SumFunctionOnSet(f, {})
        BY <3>1, <3>2, <3>4, SumOfRest
      <3> QED
        BY <3>3, <3>5, SumOfNone
    <2>4. \A s \in Symbols : resting[s].side = "sell" => resting[s].amount <= base[s]
      BY <2>1, NoOrderIsOrder
    <2> QED
      BY <2>2, <2>3, <2>4 DEF AccountInv, Covered, TypeOK
  <1>2. Numbers /\ AccountInv /\ [Next]_vars => AccountInv'
    <2> SUFFICES ASSUME Numbers, AccountInv, [Next]_vars
                 PROVE  AccountInv'
      OBVIOUS
    <2>1. ASSUME NEW S \in SUBSET Symbols, NEW confirm \in issued \cup {NoToken},
                 Rebalance(S, confirm)
          PROVE  AccountInv'
      BY <2>1, RebalanceKeepsAccount
    <2>2. ASSUME NEW S \in SUBSET Symbols, Cancel(S)
          PROVE  AccountInv'
      BY <2>2, CancelKeepsAccount
    <2>3. ASSUME NEW s \in Symbols, Fill(s)
          PROVE  AccountInv'
      BY <2>3, FillKeepsAccount
    <2>4. ASSUME NEW S \in SUBSET Symbols, IssueToken(S)
          PROVE  AccountInv'
      <3>1. UNCHANGED <<base, stable, resting, ticker, cooling, stop, moves>>
        BY <2>4 DEF IssueToken, account
      <3>2. Token(S) \subseteq Symbols \X {"buy", "sell"}
        <4>1. ASSUME NEW s \in ActionableIn(S)
              PROVE  ProposedFor(s).side \in {"buy", "sell"}
          BY DEF ProposedFor, Proposed, Clamp, Sized, OrderOf, SideOf
        <4> QED
          BY <4>1 DEF Token, ActionableIn
      <3>3. TypeOK'
        BY <2>4, <3>1, <3>2 DEF IssueToken, AccountInv, TypeOK
      <3> QED
        BY <3>1, <3>3, OthersKeepAccount
    <2>5. ASSUME NEW s \in Symbols, TickerMoves(s)
          PROVE  AccountInv'
      <3>1. UNCHANGED <<base, stable, resting, cooling, issued, stop>>
        BY <2>5 DEF TickerMoves, account
      <3>2. moves' \in 0..MaxMoves
        BY <2>5, SessionAssumption DEF TickerMoves, AccountInv, TypeOK
      <3>3. TypeOK'
        BY <2>5, <3>1, <3>2 DEF TickerMoves, AccountInv, TypeOK
      <3> QED
        BY <3>1, <3>3, OthersKeepAccount
    <2>6. ASSUME NEW s \in Symbols, IntervalElapses(s)
          PROVE  AccountInv'
      <3>1. UNCHANGED <<base, stable, resting, ticker, issued, stop, moves>>
        BY <2>6 DEF IntervalElapses, account
      <3>2. TypeOK'
        BY <2>6, <3>1 DEF IntervalElapses, AccountInv, TypeOK
      <3> QED
        BY <3>1, <3>2, OthersKeepAccount
    <2>7. CASE ToggleStop
      <3>1. UNCHANGED <<base, stable, resting, ticker, cooling, issued, moves>>
        BY <2>7 DEF ToggleStop, account
      <3>2. TypeOK'
        BY <2>7, <3>1 DEF ToggleStop, AccountInv, TypeOK
      <3> QED
        BY <3>1, <3>2, OthersKeepAccount
    <2>8. CASE UNCHANGED vars
      BY <2>8 DEF vars, account, AccountInv, TypeOK, Covered
    <2> QED
      BY <2>1, <2>2, <2>3, <2>4, <2>5, <2>6, <2>7, <2>8 DEF Next, Command
  <1>3. AccountInv => TypeOK
    BY DEF AccountInv
  <1> QED
    BY <1>1, <1>2, <1>3, NumbersAtFirst, NumbersKept, PTL DEF Spec

----------------------------------------------------------------------------
(* The drift. *)

(* A buy makes good what it was sized for.  It pays less than the last price,
   or else by less than half of it more. *)
LEMMA BuyNears ==
    ASSUME NEW t \in 0..100, NEW d \in Nat, NEW total \in Nat, NEW y \in Nat \ {0}, NEW x \in Int,
           NEW l \in Int, l = y - d - t * x, y <= d, d <= t * total, 100 * x < y, -200 * x < y
    PROVE  Abs(l) * total < d * (total + x)
  <1>1. /\ t \in Nat /\ t <= 100 /\ t * x \in Int /\ t * total \in Nat /\ d > 0
    OBVIOUS
  <1>2. total > 0
    <2>1. CASE total = 0
      BY <1>1, <2>1
    <2> QED
      BY <2>1
  <1>4. d * (total + x) = d * total + d * x /\ d * total \in Int /\ d * x \in Int
        /\ l * total \in Int /\ (-l) * total = -(l * total)
    BY <1>1
  <1>5. l * total = y * total - d * total - t * x * total
    BY <1>1
  <1>6. y * total \in Nat /\ y * total > 0 /\ t * x * total \in Int
    <2>1. \A m, n \in Nat \ {0} : m * n \in Nat \ {0}
      OBVIOUS
    <2>2. y * total \in Nat \ {0}
      BY <1>2, <2>1
    <2> QED
      BY <1>1, <2>2
  <1>7. y * total <= d * total
    BY TimesKeepsOrder
  <1>8. CASE x >= 0
    <2>1. x \in Nat /\ t * x <= 100 * x
      BY <1>1, <1>8, TimesKeepsOrder
    <2>2. t * x \in Nat /\ d * x >= 0 /\ t * x < y
      <3>1. \A m, n \in Nat : m * n \in Nat
        OBVIOUS
      <3>2. t * x \in Nat /\ d * x \in Nat
        BY <1>1, <2>1, <3>1
      <3> QED
        BY <2>1, <3>2
    <2>3. t * x * total < y * total
      <3>1. t * x + 1 <= y
        BY <2>2
      <3>2. (t * x + 1) * total <= y * total
        BY <2>2, <3>1, TimesKeepsOrder
      <3>3. (t * x + 1) * total = t * x * total + total
        BY <2>2
      <3> QED
        BY <1>2, <1>6, <3>2, <3>3
    <2>4. t * x * total >= 0
      <3>1. \A m, n \in Nat : m * n \in Nat
        OBVIOUS
      <3> QED
        BY <2>2, <3>1
    <2>5. l * total < d * (total + x) /\ (-l) * total < d * (total + x)
      <3>1. l * total <= 0
        BY <1>4, <1>5, <1>6, <1>7, <2>4
      <3>2. (-l) * total < d * total
        BY <1>4, <1>5, <1>6, <2>3
      <3>3. d * total > 0
        BY <1>4, <1>6, <1>7
      <3> QED
        BY <1>4, <2>2, <3>1, <3>2, <3>3
    <2> QED
      BY <2>5 DEF Abs
  <1>9. CASE x < 0
    <2> DEFINE z == -x
    <2>1. z \in Nat \ {0} /\ 200 * z < y /\ t * z \in Nat /\ t * z <= 100 * z
      <3>1. z \in Nat \ {0} /\ 200 * z < y
        BY <1>9
      <3>2. t * z <= 100 * z
        BY <1>1, <3>1, TimesKeepsOrder
      <3>3. \A m, n \in Nat : m * n \in Nat
        OBVIOUS
      <3>4. t * z \in Nat
        BY <1>1, <3>1, <3>3
      <3> QED
        BY <3>1, <3>2, <3>4
    <2>2. d * z <= t * z * total
      <3>1. d * z <= (t * total) * z
        BY <1>1, <2>1, TimesKeepsOrder
      <3>2. (t * total) * z = t * z * total
        BY <1>1, <2>1
      <3> QED
        BY <3>1, <3>2
    <2>3. 2 * (t * z * total) < d * total
      <3>1. 2 * (t * z) + 1 <= d
        BY <2>1
      <3>2. (2 * (t * z) + 1) * total <= d * total
        BY <2>1, <3>1, TimesKeepsOrder
      <3>3. (2 * (t * z) + 1) * total = 2 * (t * z * total) + total
        BY <2>1
      <3>4. t * z * total \in Int
        BY <2>1
      <3> QED
        BY <1>2, <1>4, <3>2, <3>3, <3>4
    <2>4. t * x * total = -(t * z * total) /\ d * x = -(d * z) /\ t * z * total \in Int /\ d * z \in Int
      BY <1>1, <2>1
    <2>5. l * total < d * (total + x) /\ (-l) * total < d * (total + x)
      <3> HIDE DEF z
      <3>1. l * total <= t * z * total
        BY <1>4, <1>5, <1>6, <1>7, <2>4
      <3>2. (-l) * total < d * total - t * z * total
        BY <1>4, <1>5, <1>6, <2>4
      <3> QED
        BY <1>4, <2>2, <2>3, <2>4, <3>1, <3>2
    <2> QED
      BY <2>5 DEF Abs
  <1> QED
    BY <1>8, <1>9

(* A sale does too.  It brings more than the last price, but less than twice
   it, or else less by less than the whole of it. *)
LEMMA SaleNears ==
    ASSUME NEW t \in 0..100, NEW d \in Nat, NEW total \in Nat, NEW y \in Nat \ {0}, NEW x \in Int,
           NEW l \in Int, l = d - y - t * x, y <= d, d <= (100 - t) * total, 100 * x <= y, -100 * x < y
    PROVE  Abs(l) * total < d * (total + x)
  <1>1. /\ t \in Nat /\ t <= 100 /\ t * x \in Int /\ (100 - t) \in Nat /\ (100 - t) * total \in Nat
        /\ d > 0
    OBVIOUS
  <1>2. total > 0 /\ t < 100
    <2>1. CASE total = 0
      BY <1>1, <2>1
    <2>2. CASE t = 100
      BY <1>1, <2>2
    <2> QED
      BY <1>1, <2>1, <2>2
  <1>4. d * (total + x) = d * total + d * x /\ d * total \in Int /\ d * x \in Int
        /\ l * total \in Int /\ (-l) * total = -(l * total)
    OBVIOUS
  <1>5. l * total = d * total - y * total - t * x * total
    BY <1>1
  <1>6. y * total \in Nat /\ y * total > 0 /\ t * x * total \in Int
    <2>1. \A m, n \in Nat \ {0} : m * n \in Nat \ {0}
      OBVIOUS
    <2>2. y * total \in Nat \ {0}
      BY <1>2, <2>1
    <2> QED
      BY <1>1, <2>2
  <1>7. y * total <= d * total
    BY TimesKeepsOrder
  <1>8. CASE x >= 0
    <2>1. x \in Nat /\ t * x <= 99 * x
      BY <1>1, <1>2, <1>8, TimesKeepsOrder
    <2>2. t * x \in Nat /\ d * x >= 0 /\ t * x < d
      <3>1. \A m, n \in Nat : m * n \in Nat
        OBVIOUS
      <3>2. t * x \in Nat /\ d * x \in Nat
        BY <1>1, <2>1, <3>1
      <3> QED
        BY <1>1, <2>1, <3>2
    <2>3. t * x * total < d * total
      <3>1. t * x + 1 <= d
        BY <2>2
      <3>2. (t * x + 1) * total <= d * total
        BY <2>2, <3>1, TimesKeepsOrder
      <3>3. (t * x + 1) * total = t * x * total + total
        BY <2>2
      <3> QED
        BY <1>2, <1>4, <1>6, <3>2, <3>3
    <2>4. t * x * total >= 0
      <3>1. \A m, n \in Nat : m * n \in Nat
        OBVIOUS
      <3> QED
        BY <2>2, <3>1
    <2>5. l * total < d * (total + x) /\ (-l) * total < d * (total + x)
      BY <1>4, <1>5, <1>6, <1>7, <2>2, <2>3, <2>4
    <2> QED
      BY <2>5 DEF Abs
  <1>9. CASE x < 0
    <2> DEFINE z == -x
    <2>1. z \in Nat \ {0} /\ 100 * z < y /\ t * z \in Nat
      <3>1. z \in Nat \ {0} /\ 100 * z < y
        BY <1>9
      <3>2. \A m, n \in Nat : m * n \in Nat
        OBVIOUS
      <3>3. t * z \in Nat
        BY <1>1, <3>1, <3>2
      <3> QED
        BY <3>1, <3>3
    <2>2. d * z <= 100 * (z * total) - t * z * total
      <3>1. d * z <= ((100 - t) * total) * z
        BY <1>1, <2>1, TimesKeepsOrder
      <3>2. ((100 - t) * total) * z = 100 * (z * total) - t * z * total
        BY <1>1, <2>1
      <3> QED
        BY <3>1, <3>2
    <2>3. 100 * (z * total) < y * total
      <3>1. 100 * z + 1 <= y /\ 100 * z + 1 \in Nat
        BY <2>1
      <3>2. (100 * z + 1) * total <= y * total
        BY <3>1, TimesKeepsOrder
      <3>3. (100 * z + 1) * total = 100 * (z * total) + total /\ z * total \in Int
        BY <2>1
      <3> QED
        BY <1>2, <1>6, <3>2, <3>3
    <2>4. z < total
      <3>1. (100 - t) * total <= 100 * total
        BY <1>1, TimesKeepsOrder
      <3> QED
        BY <1>1, <2>1, <3>1
    <2>5. d * z < d * total
      <3>1. d * (z + 1) <= d * total
        BY <2>1, <2>4, TimesKeepsOrder
      <3>2. d * (z + 1) = d * z + d /\ d * z \in Int
        BY <2>1
      <3> QED
        BY <1>1, <1>4, <3>1, <3>2
    <2>6. t * x * total = -(t * z * total) /\ d * x = -(d * z) /\ t * z * total \in Nat /\ d * z \in Int
          /\ z * total \in Int
      <3>1. \A m, n \in Nat : m * n \in Nat
        OBVIOUS
      <3>2. t * z * total \in Nat
        BY <2>1, <3>1
      <3> QED
        BY <1>1, <2>1, <3>2
    <2>7. l * total < d * (total + x)
      <3> HIDE DEF z
      <3> QED
        BY <1>4, <1>5, <1>6, <2>2, <2>3, <2>6
    <2>8. (-l) * total < d * (total + x)
      <3> HIDE DEF z
      <3> QED
        BY <1>4, <1>5, <1>6, <1>7, <2>5, <2>6
    <2> QED
      BY <2>7, <2>8 DEF Abs
  <1> QED
    BY <1>8, <1>9

(* The sanity check keeps a limit below the middle of the book from half as
   much again as the last price (_quote_sane). *)
LEMMA BuyLimitNearLast ==
    ASSUME NEW p, NEW n, IsSnapshot(n), ~AbnormalPrice(n), SanityPct <= 33, SideOf(p, n) = "buy"
    PROVE  2 * Limit(p, n) < 3 * LastPrice(n)
  <1> DEFINE mid == n.bid + n.ask
  <1>1. n.last \in Nat \ {0} /\ n.bid \in Nat \ {0} /\ n.ask \in Nat \ {0} /\ n.bid <= n.ask
    BY DEF IsSnapshot, AbnormalPrice
  <1>2. 100 * Abs(2 * n.last - mid) <= SanityPct * mid
    <2>1. SanityPct * mid \in Int /\ Abs(2 * n.last - mid) \in Int
      BY <1>1, DecisionAssumption DEF Abs
    <2> QED
      BY <2>1 DEF AbnormalPrice
  <1>3. SanityPct * mid <= 33 * mid
    BY <1>1, DecisionAssumption, TimesKeepsOrder
  <1>4. 100 * (mid - 2 * n.last) <= 33 * mid
    <2>1. mid - 2 * n.last <= Abs(2 * n.last - mid) /\ Abs(2 * n.last - mid) \in Int
      BY <1>1 DEF Abs
    <2>2. SanityPct * mid \in Int /\ mid \in Int
      BY <1>1, DecisionAssumption
    <2> HIDE DEF mid
    <2> QED
      BY <1>1, <1>2, <1>3, <2>1, <2>2
  <1>5. Limit(p, n) <= 100 * n.bid
    <2>1. Limit(p, n) = n.bid * (100 - OffsetPct)
      BY DEF Limit
    <2>2. 100 - OffsetPct \in Int /\ 100 - OffsetPct <= 100
      BY DecisionAssumption
    <2>3. n.bid * (100 - OffsetPct) <= n.bid * 100
      BY <1>1, <2>2, TimesKeepsOrder
    <2> QED
      BY <1>1, <2>1, <2>3
  <1>6. Limit(p, n) \in Int
    BY <1>1, DecisionAssumption DEF Limit
  <1> QED
    BY <1>1, <1>4, <1>5, <1>6 DEF LastPrice

(* The order of an actionable pair, filled at its limit, nears its target
   (_size_order, _limit_price, _clamp). *)
LEMMA OrderNears ==
    ASSUME NEW p \in PairConfig, NEW n, IsSnapshot(n), n.base \in Nat, n.stable \in Nat,
           Actionable(p, n), SanityPct <= 33, n.ask * (100 + OffsetPct) <= 200 * n.last,
           NEW o, o = Proposed(p, n), o.amount > 0,
           NEW m, m.last = n.last,
           o.side = "buy" => (m.base = n.base + o.amount /\ m.stable = n.stable - o.notional),
           o.side = "sell" => (m.base = n.base - o.amount /\ m.stable = n.stable + o.notional)
    PROVE  Nearer(p, n, m)
  <1> DEFINE price == LastPrice(n)
             limit == Limit(p, n)
             a == o.amount
             t == p.target
             d == Abs(Drift(p, n))
             y == 100 * (a * price)
             value == BaseValue(n)
             total == Total(n)
  <1>1. /\ price \in Nat \ {0} /\ limit \in Nat \ {0} /\ a \in Nat \ {0} /\ t \in 0..100
        /\ d \in Nat /\ Amount(p, n) \in Nat
    BY ActionableNumbers, ProposedNumbers DEF PairConfig
  <1>2. o.side = SideOf(p, n) /\ a <= Amount(p, n) /\ o.notional = a * limit
    BY ClampedIsSmaller, ProposedNumbers
  <1>3. ~AbnormalPrice(n)
    <2>1. 1 \in DOMAIN GuardOrder /\ GuardOrder[1] = "ABNORMAL_PRICE"
      BY DEF GuardOrder
    <2> QED
      BY <2>1, GuardsPassed DEF Skips
  <1>4. y \in Nat \ {0} /\ y <= d
    <2>1. 100 * price \in Nat \ {0}
      BY <1>1
    <2>2. d \div (100 * price) \in Nat /\ (d \div (100 * price)) * (100 * price) <= d
      <3> HIDE DEF d, price
      <3> QED
        BY <1>1, <2>1, QuotientTimesDivisor
    <2>3. a <= d \div (100 * price)
      <3>1. Amount(p, n) <= d \div (100 * price)
        BY <2>2, RoundedDown DEF Amount
      <3> QED
        BY <1>1, <1>2, <2>2, <3>1
    <2> HIDE DEF d, price, a
    <2>4. a * (100 * price) <= (d \div (100 * price)) * (100 * price)
          /\ a * (100 * price) \in Int /\ (d \div (100 * price)) * (100 * price) \in Int
      BY <1>1, <2>1, <2>2, <2>3, TimesKeepsOrder
    <2>5. a * (100 * price) = y
      BY <1>1
    <2>6. \A i, j \in Nat \ {0} : i * j \in Nat \ {0}
      OBVIOUS
    <2>7. a * price \in Nat \ {0}
      BY <1>1, <2>6
    <2> QED
      BY <1>1, <2>2, <2>4, <2>5, <2>7
  <1>5. value \in Nat /\ total \in Nat /\ total = value + n.stable /\ value = n.base * price
    <2>1. \A i, j \in Nat : i * j \in Nat
      OBVIOUS
    <2>2. n.base * price \in Nat
      BY <1>1, <2>1
    <2> QED
      BY <2>2 DEF BaseValue, Total
  <1>6. Drift(p, n) = 100 * value - t * total /\ t * total \in Int /\ Drift(p, n) \in Int
    <2>1. Drift(p, n) = 100 * value - t * total
      BY DEF Drift
    <2>2. t * total \in Int
      BY <1>1, <1>5
    <2> QED
      BY <1>5, <2>1, <2>2
  <1>7. a * limit \in Nat /\ a * price \in Nat /\ a * limit > 0
    <2>1. \A i, j \in Nat \ {0} : i * j \in Nat \ {0}
      OBVIOUS
    <2> HIDE DEF a, limit, price
    <2> QED
      BY <1>1, <2>1
  <1>8. LastPrice(m) = price
    BY DEF LastPrice
  <1>9. CASE SideOf(p, n) = "buy"
    <2> DEFINE x == a * price - a * limit
               l == y - d - t * x
    <2>1. Drift(p, n) = -d /\ d <= t * total
      <3>1. Drift(p, n) <= 0
        BY <1>6, <1>9 DEF SideOf
      <3>2. Drift(p, n) = -d
        BY <1>6, <3>1 DEF Abs
      <3>3. value \in Nat /\ d \in Nat
        BY <1>1, <1>5
      <3> HIDE DEF d, value, total, t
      <3> QED
        BY <1>6, <3>2, <3>3
    <2>2. x \in Int /\ 100 * x < y /\ -200 * x < y
      <3>1. 2 * limit < 3 * price
        BY <1>3, <1>9, BuyLimitNearLast
      <3>2. a * (2 * limit + 1) <= a * (3 * price)
        <4> HIDE DEF a, limit, price
        <4> QED
          BY <1>1, <3>1, TimesKeepsOrder
      <3>3. a * (2 * limit + 1) = 2 * (a * limit) + a /\ a * (3 * price) = 3 * (a * price)
        BY <1>1
      <3> HIDE DEF a, limit, price
      <3> QED
        BY <1>1, <1>7, <3>2, <3>3
    <2>3. m.base = n.base + a /\ m.stable = n.stable - a * limit
      BY <1>2, <1>9
    <2>4. BaseValue(m) = value + a * price
      <3>1. BaseValue(m) = (n.base + a) * price
        BY <1>8, <2>3 DEF BaseValue
      <3>2. (n.base + a) * price = n.base * price + a * price
        BY <1>1
      <3> QED
        BY <1>5, <3>1, <3>2
    <2>5. Total(m) = total + x
      <3>1. Total(m) = value + a * price + (n.stable - a * limit)
        BY <2>3, <2>4 DEF Total
      <3> HIDE DEF a, limit, price, value, total
      <3> QED
        BY <1>5, <1>7, <3>1 DEF x
    <2>6. Drift(p, m) = l
      <3>1. Drift(p, m) = 100 * (value + a * price) - t * (total + x)
        BY <2>4, <2>5 DEF Drift
      <3>2. t * (total + x) = t * total + t * x /\ t * x \in Int
        <4> HIDE DEF total, x, t
        <4> QED
          BY <1>1, <1>5, <2>2
      <3>3. value \in Nat /\ a * price \in Nat /\ d \in Nat
        BY <1>1, <1>5, <1>7
      <3>4. 100 * (value + a * price) = 100 * value + 100 * (a * price)
        <4> HIDE DEF value, a, price
        <4> QED
          BY <3>3
      <3> HIDE DEF value, total, x, a, price, t, d
      <3> QED
        BY <1>6, <2>1, <3>1, <3>2, <3>3, <3>4
    <2>7. Abs(l) * total < d * (total + x)
      <3>1. l \in Int /\ l = y - d - t * x
        <4> HIDE DEF y, d, t, x
        <4> QED
          BY <1>1, <1>4, <2>2
      <3> HIDE DEF y, d, t, x, total, l
      <3> QED
        BY <1>1, <1>4, <1>5, <2>1, <2>2, <3>1, BuyNears
    <2> QED
      BY <2>5, <2>6, <2>7 DEF Nearer
  <1>10. CASE SideOf(p, n) = "sell"
    <2> DEFINE x == a * limit - a * price
               l == d - y - t * x
    <2>1. Drift(p, n) = d /\ d <= (100 - t) * total
      <3>1. Drift(p, n) > 0
        BY <1>10 DEF SideOf
      <3>2. Drift(p, n) = d
        BY <1>6, <3>1 DEF Abs
      <3>3. (100 - t) * total = 100 * total - t * total
        <4> HIDE DEF total, t
        <4> QED
          BY <1>1, <1>5
      <3>4. value \in Nat /\ total \in Nat /\ total = value + n.stable
        BY <1>5
      <3>5. n.stable \in Nat
        OBVIOUS
      <3> HIDE DEF d, value, total, t
      <3> QED
        BY <1>6, <3>2, <3>3, <3>4, <3>5
    <2>2. x \in Int /\ 100 * x <= y /\ -100 * x < y
      <3>1. limit <= 2 * price
        <4>1. limit = n.ask * (100 + OffsetPct)
          BY <1>10 DEF Limit
        <4> QED
          BY <4>1 DEF LastPrice, IsSnapshot
      <3>2. a * limit <= a * (2 * price)
        <4> HIDE DEF a, limit, price
        <4> QED
          BY <1>1, <3>1, TimesKeepsOrder
      <3>3. a * (2 * price) = 2 * (a * price)
        BY <1>1
      <3> HIDE DEF a, limit, price
      <3> QED
        BY <1>1, <1>7, <3>2, <3>3
    <2>3. m.base = n.base - a /\ m.stable = n.stable + a * limit
      BY <1>2, <1>10
    <2>4. BaseValue(m) = value - a * price
      <3>1. BaseValue(m) = (n.base - a) * price
        BY <1>8, <2>3 DEF BaseValue
      <3>2. (n.base - a) * price = n.base * price - a * price
        BY <1>1
      <3> QED
        BY <1>5, <3>1, <3>2
    <2>5. Total(m) = total + x
      <3>1. Total(m) = value - a * price + (n.stable + a * limit)
        BY <2>3, <2>4 DEF Total
      <3> HIDE DEF a, limit, price, value, total
      <3> QED
        BY <1>5, <1>7, <3>1 DEF x
    <2>6. Drift(p, m) = l
      <3>1. Drift(p, m) = 100 * (value - a * price) - t * (total + x)
        BY <2>4, <2>5 DEF Drift
      <3>2. t * (total + x) = t * total + t * x /\ t * x \in Int
        <4> HIDE DEF total, x, t
        <4> QED
          BY <1>1, <1>5, <2>2
      <3>3. value \in Nat /\ a * price \in Nat
        BY <1>5, <1>7
      <3> HIDE DEF value, total, x, a, price, t, d
      <3> QED
        BY <1>1, <1>6, <2>1, <3>1, <3>2, <3>3
    <2>7. Abs(l) * total < d * (total + x)
      <3>1. l \in Int /\ l = d - y - t * x
        <4> HIDE DEF y, d, t, x
        <4> QED
          BY <1>1, <1>4, <2>2
      <3> HIDE DEF y, d, t, x, total, l
      <3> QED
        BY <1>1, <1>4, <1>5, <2>1, <2>2, <3>1, SaleNears
    <2> QED
      BY <2>5, <2>6, <2>7 DEF Nearer
  <1> QED
    BY <1>9, <1>10 DEF SideOf

(* In a market whose accepted quotes stay within twice the last price, with
   the sanity bound at a third or below, every order corrects the drift it was
   sized for, for every configuration and any number of pairs (_size_order,
   _limit_price, _clamp, _quote_sane). *)
THEOREM DriftReduced == LimitsNearLast => (Spec => OrdersReduceDrift)
  <1> DEFINE Reduced(s) == (Places(s) /\ resting'[s].amount > 0) =>
                             Nearer(Config[s], Snapshot(s), AfterFill(Snapshot(s), resting'[s]))
  <1>1. LimitsNearLast /\ TypeOK /\ TickersShown /\ [Next]_vars => [\A s \in Symbols : Reduced(s)]_vars
    <2> SUFFICES ASSUME LimitsNearLast, TypeOK, TickersShown, [Next]_vars, NEW s \in Symbols,
                        Places(s), resting'[s].amount > 0
                 PROVE  Nearer(Config[s], Snapshot(s), AfterFill(Snapshot(s), resting'[s]))
      OBVIOUS
    <2> DEFINE n == Snapshot(s)
               o == resting'[s]
               m == AfterFill(n, o)
    <2>1. DOMAIN resting = Symbols
      BY DEF TypeOK
    <2>2. Actionable(Config[s], n) /\ o = Proposed(Config[s], n)
      BY <2>1, OnlyRebalancePlaces, PlacedIsProposed DEF ActionableIn, ProposedFor
    <2>3. Config[s] \in PairConfig /\ IsSnapshot(n) /\ n.base \in Nat /\ n.stable \in Nat
      BY SessionAssumption DEF TypeOK, TickersShown, Prices, Snapshot, IsSnapshot
    <2>4. SanityPct <= 33 /\ n.ask * (100 + OffsetPct) <= 200 * n.last
      <3>1. ~AbnormalPrice(n)
        <4>1. 1 \in DOMAIN GuardOrder /\ GuardOrder[1] = "ABNORMAL_PRICE"
          BY DEF GuardOrder
        <4> QED
          BY <2>2, <4>1, GuardsPassed DEF Skips
      <3>2. n.last = ticker[s].last /\ n.bid = ticker[s].bid /\ n.ask = ticker[s].ask
        BY DEF Snapshot
      <3>3. ~AbnormalPrice(ticker[s])
        BY <3>1, <3>2 DEF AbnormalPrice
      <3>4. ticker[s] \in Tickers[s]
        BY DEF TypeOK
      <3> QED
        BY <3>2, <3>3, <3>4 DEF LimitsNearLast
    <2>5. /\ m.last = n.last
          /\ o.side = "buy" => (m.base = n.base + o.amount /\ m.stable = n.stable - o.notional)
          /\ o.side = "sell" => (m.base = n.base - o.amount /\ m.stable = n.stable + o.notional)
      <3>1. o.amount \in Int /\ o.notional \in Int
        BY <2>2, <2>3, ProposedNumbers
      <3> HIDE DEF o
      <3> QED
        BY <2>3, <3>1 DEF AfterFill, Snapshot
    <2> HIDE DEF n, o, m
    <2>6. Nearer(Config[s], n, m)
      BY <2>2, <2>3, <2>4, <2>5, OrderNears DEF o
    <2> QED
      BY <2>6 DEF n, o, m
  <1>2. LimitsNearLast /\ [Next]_vars => LimitsNearLast'
    BY DEF LimitsNearLast, AbnormalPrice
  <1> QED
    BY <1>1, <1>2, AccountTypes, TickersAreShown, PTL DEF Spec, OrdersReduceDrift

=============================================================================
