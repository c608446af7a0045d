------------------------------ MODULE Workspace ------------------------------
(***************************************************************************)
(* What an agent keeps beside its orders: the pairs of portfolio.json, the *)
(* flags of flags.json and the decision log, and what plan, flag list and  *)
(* regime tell it of them.                                                 *)
(*                                                                         *)
(* One snapshot of the account and the market stands for all pairs.  A     *)
(* baseline of 0 is one that was never given: regime treats them alike.    *)
(* The decision log is append-only and read by no action: output holds the *)
(* records the last plan appended.                                         *)
(***************************************************************************)
EXTENDS RebalanceDecision, Subsequences

CONSTANTS
    Symbols,
    Snapshots,    \* what the exchange may answer
    Ratios,       \* targets the agent may ask for: [volatile, stable]
    Defaults,     \* band_pct, min_notional, max_trade_notional of a new pair
    Conditions,   \* conditions of a flag: [metric, op, threshold]
    ReviewBand,   \* target_review_band_pct
    MaxId,        \* bound: ids of flags
    MaxFlags      \* bound: flags at a time

ASSUME WorkspaceAssumption ==
    /\ \A n \in Snapshots : n.last \in Nat
    /\ \A r \in Ratios : r.volatile \in Int /\ r.stable \in Int
    /\ \A c \in Conditions :
          /\ c.metric \in {"price", "drift_pct", "volatile_pct", "value"}
          /\ c.op \in {"ge", "le", "gt", "lt", "eq"}
    /\ ReviewBand \in Nat /\ MaxId \in Nat /\ MaxFlags \in Nat

VARIABLES
    pairs,      \* portfolio.json
    flags,      \* flags.json
    market,     \* the snapshot a command would take now
    output,     \* what the last command reported
    followed    \* symbol -> the price a regime suggestion was followed at

vars == <<pairs, flags, market, output, followed>>

Nothing == [kind |-> "nothing"]

Init ==
    /\ pairs = <<>> /\ flags = <<>>
    /\ market \in Snapshots
    /\ output = Nothing
    /\ followed = [s \in Symbols |-> 0]

----------------------------------------------------------------------------
(* Pairs. *)

SymbolsOf(ps) == {ps[i].symbol : i \in DOMAIN ps}
PairOf(ps, s) == ps[CHOOSE i \in DOMAIN ps : ps[i].symbol = s]

(* __post_init__: only the sum of a ratio is looked at. *)
ValidPair(p) ==
    /\ p.target + p.stable = 100
    /\ p.band >= 0 /\ p.minNotional >= 0 /\ p.maxTrade >= 0
    /\ p.baseline >= 0

NewPair(s, ratio, baseline) ==
    [symbol |-> s, target |-> ratio.volatile, stable |-> ratio.stable,
     band |-> Defaults.band, minNotional |-> Defaults.minNotional,
     maxTrade |-> Defaults.maxTrade, baseline |-> baseline]

Addable(s) == s \notin SymbolsOf(pairs)

(* pair add *)
PairAdd ==
    /\ \E s \in Symbols, r \in Ratios, b \in {0, market.last} :
        /\ Addable(s) /\ ValidPair(NewPair(s, r, b))
        /\ pairs' = Append(pairs, NewPair(s, r, b))
    /\ output' = Nothing
    /\ UNCHANGED <<flags, market, followed>>

NotGiven == -1

(* Mutant: a new target keeps the old baseline. *)
MergedKeepingBaseline(p, ratio, baseline) ==
    [p EXCEPT !.target = ratio.volatile, !.stable = ratio.stable,
              !.baseline = IF @ # 0 \/ baseline = NotGiven THEN @ ELSE baseline]

(* _merge_pair: what is not given stays. *)
Merged(p, ratio, baseline) ==
    [p EXCEPT !.target = ratio.volatile, !.stable = ratio.stable,
              !.baseline = IF baseline = NotGiven THEN @ ELSE baseline]

Replaced(ps, p) == [i \in DOMAIN ps |-> IF ps[i].symbol = p.symbol THEN p ELSE ps[i]]

Kept(p) == [volatile |-> p.target, stable |-> p.stable]

(* pair set, of the target, of the baseline, or of both *)
PairSet ==
    /\ \E s \in SymbolsOf(pairs), b \in {NotGiven, market.last} :
        \E r \in Ratios \cup {Kept(PairOf(pairs, s))} :
            LET p == Merged(PairOf(pairs, s), r, b)
            IN  /\ ValidPair(p)
                /\ pairs' = Replaced(pairs, p)
                /\ followed' = [followed EXCEPT ![s] = IF b = NotGiven THEN @ ELSE 0]
    /\ output' = Nothing
    /\ UNCHANGED <<flags, market>>

(* pair remove *)
PairRemove ==
    /\ \E s \in SymbolsOf(pairs) :
        /\ pairs' = Picked(pairs, {i \in DOMAIN pairs : pairs[i].symbol # s})
        /\ followed' = [followed EXCEPT ![s] = 0]
    /\ output' = Nothing
    /\ UNCHANGED <<flags, market>>

(* --pair, or all pairs in the order of the file *)
Selected(requested) == Picked(pairs, {i \in DOMAIN pairs : pairs[i].symbol \in requested})
Requests == {S \in SUBSET SymbolsOf(pairs) : S # {}}

----------------------------------------------------------------------------
(* plan, and the decision log. *)

(* Mutant: the log is written from another order than decide goes by. *)
OtherOrder ==
    <<"ABNORMAL_PRICE", "TOO_SOON", "MARKET_UNAVAILABLE", "WITHIN_BAND",
      "BELOW_MIN_NOTIONAL", "INSUFFICIENT_BALANCE">>

(* The order the log is written from. *)
GUARD_ORDER ==
    <<"ABNORMAL_PRICE", "MARKET_UNAVAILABLE", "TOO_SOON", "WITHIN_BAND",
      "BELOW_MIN_NOTIONAL", "INSUFFICIENT_BALANCE">>

(* guard_ladder: reconstructed from the reason. *)
GuardLadder(reason) ==
    [i \in DOMAIN GUARD_ORDER |->
        IF GUARD_ORDER[i] = reason THEN "fail"
        ELSE IF \E j \in 1..(i - 1) : GUARD_ORDER[j] = reason THEN "skipped"
        ELSE "pass"]

(* decision_to_record *)
Record(p) ==
    LET reason == Reason(p, market)
    IN  [symbol |-> p.symbol, reason |-> reason, guards |-> GuardLadder(reason),
         order |-> IF reason = "OK" THEN Proposed(p, market) ELSE OrderOf("none", 0, 0)]

(* One record a pair is appended; those of earlier commands are not changed. *)
Plan ==
    /\ output = Nothing
    /\ \E S \in Requests :
        output' = [kind |-> "plan",
                   records |-> [i \in DOMAIN Selected(S) |-> Record(Selected(S)[i])]]
    /\ UNCHANGED <<pairs, flags, market, followed>>

----------------------------------------------------------------------------
(* Flags. *)

Ids == {flags[i].id : i \in DOMAIN flags}

(* Mutant: the id is the place in the file. *)
CountedId == Len(flags) + 1

(* _next_id *)
NextId == 1 + (IF Ids = {} THEN 0 ELSE CHOOSE m \in Ids : \A i \in Ids : i <= m)

(* flag add, for any symbol *)
FlagAdd ==
    /\ Len(flags) < MaxFlags /\ NextId <= MaxId   \* bound
    /\ \E s \in Symbols, c \in Conditions :
        flags' = Append(flags, [id |-> NextId, symbol |-> s, condition |-> c])
    /\ output' = Nothing
    /\ UNCHANGED <<pairs, market, followed>>

(* flag remove *)
FlagRemove ==
    /\ \E id \in Ids : flags' = Picked(flags, {i \in DOMAIN flags : flags[i].id # id})
    /\ output' = Nothing
    /\ UNCHANGED <<pairs, market, followed>>

(* _metric_value, as a fraction; a pair without value holds no base. *)
MetricValue(metric, p, n) ==
    CASE metric = "price" -> <<n.last, 1>>
      [] metric = "value" -> <<Total(n), 100>>
      [] metric = "volatile_pct" -> IF Total(n) = 0 THEN <<0, 1>> ELSE <<100 * BaseValue(n), Total(n)>>
      [] metric = "drift_pct" -> IF Total(n) = 0 THEN <<-p.target, 1>> ELSE <<Drift(p, n), Total(n)>>

(* _compare *)
Holds(op, value, threshold) ==
    LET v == value[1]
        t == threshold * value[2]
    IN  \/ op = "ge" /\ v >= t
        \/ op = "le" /\ v <= t
        \/ op = "gt" /\ v > t
        \/ op = "lt" /\ v < t
        \/ op = "eq" /\ v = t

(* _evaluate_one: a symbol that is not configured has no context. *)
Verdict(f) ==
    LET c == f.condition
    IN  IF f.symbol \notin SymbolsOf(pairs) THEN "unknown"
        ELSE IF Holds(c.op, MetricValue(c.metric, PairOf(pairs, f.symbol), market), c.threshold)
        THEN "hit" ELSE "miss"

(* flag list *)
FlagList ==
    /\ output = Nothing
    /\ \E S \in SUBSET Symbols :
        LET listed == Picked(flags, {i \in DOMAIN flags : flags[i].symbol \in S})
        IN  output' = [kind |-> "flags",
                       verdicts |-> [i \in DOMAIN listed |->
                                        [id |-> listed[i].id, verdict |-> Verdict(listed[i])]]]
    /\ UNCHANGED <<pairs, flags, market, followed>>

----------------------------------------------------------------------------
(* The regime signal. *)

(* REGIME_SCENARIO_VOLATILE_PCTS *)
Scenarios == {80, 50, 25}

(* _price_change, in hundredths of the baseline *)
PriceChange(p) == 100 * (market.last - p.baseline)

(* _direction: the move since the target was set, against the review band. *)
Direction(p) ==
    CASE p.baseline <= 0 -> "none"
      [] p.baseline > 0 /\ PriceChange(p) > ReviewBand * p.baseline -> "up"
      [] p.baseline > 0 /\ PriceChange(p) < -(ReviewBand * p.baseline) -> "down"
      [] OTHER -> "flat"

Ladder(p) == Scenarios \cup {p.target}

(* _suggested: one rung down after a run-up, one up after a drop. *)
Below(p) == {v \in Ladder(p) : v < p.target}
Above(p) == {v \in Ladder(p) : v > p.target}

Suggested(p) ==
    CASE Direction(p) = "up" /\ Below(p) # {} -> CHOOSE v \in Below(p) : \A w \in Below(p) : w <= v
      [] Direction(p) = "down" /\ Above(p) # {} -> CHOOSE v \in Above(p) : \A w \in Above(p) : v <= w
      [] OTHER -> p.target

(* _scenarios: the volatile value in hundredths. *)
ScenariosOf(p) ==
    {[volatile |-> v, atRisk |-> Total(market) * v, isCurrent |-> v = p.target,
      isSuggested |-> Direction(p) # "none" /\ v = Suggested(p)] : v \in Ladder(p)}

(* signal *)
Signal(p) ==
    [symbol |-> p.symbol, direction |-> Direction(p),
     flag |-> Direction(p) \in {"up", "down"},
     suggested |-> IF Direction(p) = "none" THEN NotGiven ELSE Suggested(p),
     scenarios |-> ScenariosOf(p)]

Regime ==
    /\ output = Nothing
    /\ \E S \in Requests :
        output' = [kind |-> "regime",
                   signals |-> [i \in DOMAIN Selected(S) |-> Signal(Selected(S)[i])]]
    /\ UNCHANGED <<pairs, flags, market, followed>>

(* The agent follows a flagged signal: pair set --target --target-set-price. *)
Follow ==
    /\ output.kind = "regime"
    /\ \E i \in DOMAIN output.signals :
        LET g == output.signals[i]
            p == Merged(PairOf(pairs, g.symbol),
                        [volatile |-> g.suggested, stable |-> 100 - g.suggested], market.last)
        IN  /\ g.flag /\ ValidPair(p)
            /\ pairs' = Replaced(pairs, p)
            /\ followed' = [followed EXCEPT ![g.symbol] = market.last]
    /\ output' = Nothing
    /\ UNCHANGED <<flags, market>>

----------------------------------------------------------------------------

(* The market moves, an order fills. *)
MarketMoves ==
    /\ market' \in Snapshots \ {market}
    /\ output' = Nothing
    /\ UNCHANGED <<pairs, flags, followed>>

Next ==
    \/ PairAdd \/ PairSet \/ PairRemove \/ Plan
    \/ FlagAdd \/ FlagRemove \/ FlagList
    \/ Regime \/ Follow \/ MarketMoves

Spec == Init /\ [][Next]_vars

----------------------------------------------------------------------------
(* Properties. *)

(* After any sequence of edits the files can be read back: no symbol is there
   twice (_check_duplicates refuses the file, and with it every command),
   every pair is valid, and the ids of the flags ascend, so that flag remove
   names one flag. *)
StoresStayLoadable ==
    /\ \A i, j \in DOMAIN pairs : pairs[i].symbol = pairs[j].symbol => i = j
    /\ \A i \in DOMAIN pairs : ValidPair(pairs[i])
    /\ \A i \in 1..(Len(flags) - 1) : flags[i].id < flags[i + 1].id
    /\ \A i \in DOMAIN flags : flags[i].id \in 1..MaxId

(* The ladder the log keeps of a decision is the one the guards went through:
   the passed ones would not have skipped the pair, the failed one did, and an
   order is recorded just when all passed ("the final reason fully determines
   the ladder", guard_ladder). *)
LadderTellsTheGuards ==
    output.kind = "plan" =>
        \A i \in DOMAIN output.records :
            LET r == output.records[i]
                p == PairOf(pairs, r.symbol)
            IN  /\ \A g \in DOMAIN r.guards :
                      /\ r.guards[g] = "pass" => ~Skips(GUARD_ORDER[g], p, market)
                      /\ r.guards[g] = "fail" => Skips(GUARD_ORDER[g], p, market)
                      /\ r.guards[g] = "skipped" =>
                            \E h \in 1..(g - 1) : r.guards[h] = "fail"
                /\ (r.order.side # "none") <=> \A g \in DOMAIN r.guards : r.guards[g] = "pass"

(* A move of the market is followed once: at the price at which the agent took
   the suggestion over, nothing more is suggested, whatever it edits in
   between, until it records another price (RegimeManager.signal, _merge_pair). *)
FollowedOncePerMove ==
    \A i \in DOMAIN pairs :
        LET p == pairs[i]
        IN  (followed[p.symbol] > 0 /\ followed[p.symbol] = market.last) => Direction(p) = "flat"
==============================================================================
