-------------------------- MODULE RebalanceSession --------------------------
(***************************************************************************)
(* The plan / rebalance handshake over one account whose pairs share the   *)
(* stable coin: plan or a dry run issues a confirm token, the market and   *)
(* the balances move on, rebalance --execute decides anew and passes or    *)
(* fails _enforce_safety, what it places rests and fills.                  *)
(*                                                                         *)
(* How execute() works through its requests, their failures and the books  *)
(* is the subject of Execution; here it is one step that replaces the      *)
(* resting orders of the actionable pairs, each of which may be refused.   *)
(***************************************************************************)
EXTENDS RebalanceDecision, FiniteSets, Functions

CONSTANTS
    Symbols,        \* the configured pairs
    Config,         \* pair -> its target, band, minNotional, maxTrade
    Tickers,        \* pair -> the tickers (last, bid, ask, active) it may show
    InitialStable,  \* the stable coin to begin with, in hundredths
    InitialBase,    \* pair -> its base holding to begin with
    SessionCap,     \* max_session_notional_usd, in hundredths (0: no limit)
    MaxMoves        \* bound: times a ticker changes

Prices == [last: Nat, bid: Nat, ask: Nat, active: BOOLEAN]

ASSUME SessionAssumption ==
    /\ IsFiniteSet(Symbols)
    /\ Config \in [Symbols -> PairConfig]
    /\ Tickers \in [Symbols -> SUBSET Prices]
    /\ InitialStable \in Nat
    /\ InitialBase \in [Symbols -> Nat]
    /\ SessionCap \in Nat
    /\ MaxMoves \in Nat

VARIABLES
    base,     \* pair -> total of its base asset
    stable,   \* total of the stable coin
    resting,  \* pair -> our open order, or NoOrder
    ticker,   \* pair -> its current ticker
    cooling,  \* pair -> its minimum interval still runs
    issued,   \* the confirm tokens issued so far
    stop,     \* the kill-switch file exists
    moves     \* ticker changes so far

account == <<base, stable, resting>>
vars == <<account, ticker, cooling, issued, stop, moves>>

NoOrder == OrderOf("buy", 0, 0)
Rests(s) == resting[s] # NoOrder

Init ==
    /\ base = InitialBase
    /\ stable = InitialStable
    /\ resting = [s \in Symbols |-> NoOrder]
    /\ ticker \in {t \in [Symbols -> UNION {Tickers[s] : s \in Symbols}] :
                      \A s \in Symbols : t[s] \in Tickers[s]}
    /\ cooling = [s \in Symbols |-> FALSE]
    /\ issued = {}
    /\ stop = FALSE
    /\ moves = 0

----------------------------------------------------------------------------
(* Snapshot, decision and token. *)

LockedBase(s) == IF resting[s].side = "sell" THEN resting[s].amount ELSE 0
BuysAmong(S, orders) == {s \in S : orders[s].side = "buy"}
NotionalOf(S, orders) == SumFunctionOnSet([s \in S |-> orders[s].notional], S)
LockedStable == NotionalOf(BuysAmong(Symbols, resting), resting)

(* PortfolioManager.snapshot: open orders reduce what is free. *)
Snapshot(s) ==
    [base |-> base[s], baseFree |-> base[s] - LockedBase(s),
     stable |-> stable, stableFree |-> stable - LockedStable,
     last |-> ticker[s].last, bid |-> ticker[s].bid, ask |-> ticker[s].ask,
     active |-> ticker[s].active, cooling |-> cooling[s]]

ActionableIn(S) == {s \in S : Actionable(Config[s], Snapshot(s))}
ProposedFor(s) == Proposed(Config[s], Snapshot(s))

(* confirm_token: which pairs trade in which direction, not how much. *)
NoToken == {}
Token(S) == {<<s, ProposedFor(s).side>> : s \in ActionableIn(S)}

SessionNotional(S) ==
    LET A == ActionableIn(S)
    IN  NotionalOf(A, [s \in A |-> ProposedFor(s)])

(* Mutants: the token is not compared; each order is held to the cap alone. *)
UnconfirmedPasses(S, confirm) ==
    /\ ~stop
    /\ SessionCap > 0 => SessionNotional(S) <= SessionCap
CapPerOrder(S, confirm) ==
    /\ ~stop
    /\ confirm = Token(S)
    /\ SessionCap > 0 => \A s \in ActionableIn(S) : ProposedFor(s).notional <= SessionCap

(* _enforce_safety with something actionable. *)
PassesSafety(S, confirm) ==
    /\ ~stop
    /\ confirm = Token(S)
    /\ SessionCap > 0 => SessionNotional(S) <= SessionCap

----------------------------------------------------------------------------
(* The commands; S are the pairs selected by --pair. *)

(* plan, or rebalance without --execute. *)
IssueToken(S) ==
    /\ Token(S) # NoToken
    /\ issued' = issued \cup {Token(S)}
    /\ UNCHANGED <<account, ticker, cooling, stop, moves>>

(* The funds the orders in resting' tie up are there (the venue refuses an
   order otherwise, the later one of two that do not fit together). *)
FundsHold ==
    /\ NotionalOf(BuysAmong(Symbols, resting'), resting') <= stable
    /\ \A s \in Symbols : resting'[s].side = "sell" => resting'[s].amount <= base[s]

(* rebalance --execute --confirm: our resting orders of the actionable pairs
   are cancelled, and one order is placed per actionable pair, those of the
   pairs R excepted, which the venue refuses. *)
Rebalance(S, confirm) ==
    /\ Token(S) # NoToken
    /\ PassesSafety(S, confirm)
    /\ \E R \in SUBSET ActionableIn(S) :
          resting' = [s \in Symbols |->
                        IF s \in R THEN NoOrder
                        ELSE IF s \in ActionableIn(S) THEN ProposedFor(s)
                        ELSE resting[s]]
    /\ FundsHold
    /\ UNCHANGED <<base, stable, ticker, cooling, issued, stop, moves>>

(* cancel --execute, which the kill switch does not block. *)
Cancel(S) ==
    /\ \E s \in S : Rests(s)
    /\ resting' = [s \in Symbols |-> IF s \in S THEN NoOrder ELSE resting[s]]
    /\ UNCHANGED <<base, stable, ticker, cooling, issued, stop, moves>>

----------------------------------------------------------------------------
(* The market and the human. *)

(* A resting order trades at its limit, and is booked. *)
Fill(s) ==
    LET o == resting[s]
        sign == IF o.side = "buy" THEN 1 ELSE -1
    IN  /\ Rests(s)
        /\ base' = [base EXCEPT ![s] = @ + sign * o.amount]
        /\ stable' = stable - sign * o.notional
        /\ resting' = [resting EXCEPT ![s] = NoOrder]
        /\ cooling' = [cooling EXCEPT ![s] = TRUE]
        /\ UNCHANGED <<ticker, issued, stop, moves>>

TickerMoves(s) ==
    /\ moves < MaxMoves
    /\ \E t \in Tickers[s] \ {ticker[s]} : ticker' = [ticker EXCEPT ![s] = t]
    /\ moves' = moves + 1
    /\ UNCHANGED <<account, cooling, issued, stop>>

IntervalElapses(s) ==
    /\ cooling[s]
    /\ cooling' = [cooling EXCEPT ![s] = FALSE]
    /\ UNCHANGED <<account, ticker, issued, stop, moves>>

ToggleStop ==
    /\ stop' = ~stop
    /\ UNCHANGED <<account, ticker, cooling, issued, moves>>

Command(S) ==
    \/ IssueToken(S)
    \/ \E confirm \in issued \cup {NoToken} : Rebalance(S, confirm)
    \/ Cancel(S)

Next ==
    \/ \E S \in SUBSET Symbols : Command(S)
    \/ \E s \in Symbols : Fill(s) \/ TickerMoves(s) \/ IntervalElapses(s)
    \/ ToggleStop

Spec == Init /\ [][Next]_vars

----------------------------------------------------------------------------
(* Properties. *)

(* Every variable stays in its range; no balance is ever overdrawn. *)
TypeOK ==
    /\ base \in [Symbols -> Nat]
    /\ stable \in Nat
    /\ DOMAIN resting = Symbols /\ \A s \in Symbols : IsOrder(resting[s])
    /\ DOMAIN ticker = Symbols /\ \A s \in Symbols : ticker[s] \in Tickers[s]
    /\ cooling \in [Symbols -> BOOLEAN]
    /\ \A t \in issued : t \subseteq Symbols \X {"buy", "sell"}
    /\ stop \in BOOLEAN
    /\ moves \in 0..MaxMoves

(* An order of s was placed in this step. *)
Places(s) == resting'[s] # NoOrder /\ resting'[s] # resting[s]

(* Whatever the market did between plan and rebalance, every order that rests
   is of a pair and a direction some plan had announced (confirm_token,
   _enforce_safety). *)
EveryOrderWasPlanned ==
    \A s \in Symbols : Rests(s) => \E t \in issued : <<s, resting[s].side>> \in t

(* What one run places stays within the session cap as a whole
   (session_notional, _enforce_safety). *)
RunWithinCap ==
    [][SessionCap > 0 => NotionalOf({s \in Symbols : Places(s)}, resting') <= SessionCap]_vars

(* However a price moved between sizing at the last price and pricing at the
   touch, what an order would cost at its own limit stays within
   max_trade_notional of its pair (_clamp). *)
OrdersWithinMaxTrade ==
    [][\A s \in Symbols :
          (Places(s) /\ Config[s].maxTrade > 0) =>
              resting'[s].amount * resting'[s].limit <= Config[s].maxTrade]_vars

(* What a run places stays within both caps, together and each, although both
   are compared with values of the decision and not of the order. *)
PlacesWithinCaps == RunWithinCap /\ OrdersWithinMaxTrade

(* An order corrects the drift it was sized for: filled at its own limit with
   the last price unchanged, it leaves the pair nearer to its target than it
   was, wherever the last price stood in or about the spread and whatever was
   rounded and clamped (_size_order, _limit_price, _clamp). *)
AfterFill(n, o) ==
    LET sign == IF o.side = "buy" THEN 1 ELSE -1
    IN  [n EXCEPT !.base = @ + sign * o.amount, !.stable = @ - sign * o.notional]

Nearer(p, n, m) == Abs(Drift(p, m)) * Total(n) < Abs(Drift(p, n)) * Total(m)

OrdersReduceDrift ==
    [][\A s \in Symbols :
          (Places(s) /\ resting'[s].amount > 0) =>
              Nearer(Config[s], Snapshot(s), AfterFill(Snapshot(s), resting'[s]))]_vars

(* The markets OrdersReduceDrift is about.  The sanity check holds the last
   price to the middle of the spread and bounds the spread by nothing: sold at
   an ask of more than twice the last price, a pair may end further away. *)
LimitsNearLast ==
    /\ SanityPct <= 33
    /\ \A s \in Symbols : \A t \in Tickers[s] :
          ~AbnormalPrice(t) => t.ask * (100 + OffsetPct) <= 200 * t.last

(* The floor is tested on the value to be moved.  An order that max_trade did
   not cut falls below min_notional by less than the value of one lot and the
   distance of its limit from the last price (_below_min_notional). *)
FloorMissedByALotAtMost ==
    [][\A s \in Symbols :
          LET o == resting'[s]
              n == Snapshot(s)
          IN  (Places(s) /\ (Config[s].maxTrade = 0 \/ o.notional + Lot * o.limit <= Config[s].maxTrade)) =>
                o.notional + Lot * LastPrice(n) + o.amount * Abs(LastPrice(n) - o.limit)
                    > Config[s].minNotional]_vars

(* Pairs that share the stable coin disturb each other's drift with every
   fill, yet once the market stands still the account is traded only a finite
   number of times, however often rebalance is repeated (decide). *)
TradingStops == <>[][\A s \in Symbols : ~Fill(s)]_vars

=============================================================================
