------------------------- MODULE RebalanceDecision -------------------------
(***************************************************************************)
(* RebalanceManager.decide: what to do about one pair, from its            *)
(* configuration and one snapshot of the account and the market.           *)
(*                                                                         *)
(* Quantities of the base asset are whole numbers of its smallest unit,    *)
(* amounts of an order multiples of Lot (the market's amount precision).   *)
(* Prices and percentages are whole numbers, amounts of the quote asset    *)
(* are counted in hundredths of it.  What the code divides by 100 or by a  *)
(* total is compared after multiplying it out, so nothing is rounded but   *)
(* what round_amount rounds.                                               *)
(***************************************************************************)
EXTENDS Integers, Sequences

CONSTANTS
    Lot,        \* amount precision of the market, in base units
    SanityPct,  \* quote_sanity_pct
    OffsetPct   \* limit_offset_pct

ASSUME DecisionAssumption ==
    /\ Lot \in Nat \ {0}
    /\ SanityPct \in Nat
    /\ OffsetPct \in 0..99

Abs(n) == IF n < 0 THEN -n ELSE n

(***************************************************************************)
(* A pair p: target (percent of the base asset), band (percentage points), *)
(* minNotional, maxTrade (0: no limit).                                    *)
(* A snapshot n: base, baseFree, stable, stableFree, last, bid, ask        *)
(* (0: not positive), active, cooling (the minimum interval still runs).   *)
(***************************************************************************)

PairConfig == [target: 0..100, band: Nat, minNotional: Nat, maxTrade: Nat]

(* round_amount: down to the precision, never up. *)
RoundAmount(q) == (q \div Lot) * Lot

(* _metrics *)
LastPrice(n) == 100 * n.last
BaseValue(n) == n.base * LastPrice(n)
Total(n) == BaseValue(n) + n.stable

(* drift_pct times the total, and so 100 times the value to be moved. *)
Drift(p, n) == 100 * BaseValue(n) - p.target * Total(n)

(* An account without value counts as holding no base. *)
DriftExceeds(p, n) ==
    IF Total(n) = 0 THEN p.target > p.band
    ELSE Abs(Drift(p, n)) > p.band * Total(n)

(* Mutant: the sign of the drift is misread. *)
SideReversed(p, n) == IF Drift(p, n) > 0 THEN "buy" ELSE "sell"

SideOf(p, n) == IF Drift(p, n) > 0 THEN "sell" ELSE "buy"

(* The limit price: at the touch, or OffsetPct away from it. *)
Limit(p, n) ==
    IF SideOf(p, n) = "buy" THEN n.bid * (100 - OffsetPct) ELSE n.ask * (100 + OffsetPct)

(* Mutant: the amount is rounded up to the next lot. *)
NextLot(p, n) == RoundAmount(Abs(Drift(p, n)) \div (100 * LastPrice(n))) + Lot

(* _size_order: the value to be moved, at the last price. *)
Amount(p, n) == RoundAmount(Abs(Drift(p, n)) \div (100 * LastPrice(n)))

OrderOf(side, amount, limit) ==
    [side |-> side, amount |-> amount, limit |-> limit, notional |-> amount * limit]

IsOrder(o) ==
    /\ DOMAIN o = {"side", "amount", "limit", "notional"}
    /\ o.side \in {"buy", "sell"} /\ o.amount \in Nat /\ o.limit \in Nat
    /\ o.notional = o.amount * o.limit

Sized(p, n) == OrderOf(SideOf(p, n), Amount(p, n), Limit(p, n))

(* Mutant: the amount is cut down, the notional is not computed again. *)
ClampAmountOnly(o, p, n) ==
    IF p.maxTrade = 0 \/ o.notional <= p.maxTrade THEN o
    ELSE [o EXCEPT !.amount = RoundAmount(p.maxTrade \div o.limit)]

(* Mutant: the amount is rounded up to the next lot. *)
ClampRoundsUp(o, p, n) ==
    IF p.maxTrade = 0 \/ o.notional <= p.maxTrade THEN o
    ELSE OrderOf(o.side, RoundAmount(p.maxTrade \div o.limit) + Lot, o.limit)

(* _clamp: cut down to max_trade_notional. *)
Clamp(o, p, n) ==
    IF p.maxTrade = 0 \/ o.notional <= p.maxTrade THEN o
    ELSE OrderOf(o.side, RoundAmount(p.maxTrade \div o.limit), o.limit)

----------------------------------------------------------------------------
(* The guards, by the reason a pair is skipped for. *)

GuardOrder ==
    <<"ABNORMAL_PRICE", "MARKET_UNAVAILABLE", "TOO_SOON", "WITHIN_BAND",
      "BELOW_MIN_NOTIONAL", "INSUFFICIENT_BALANCE">>

AbnormalPrice(n) ==
    \/ n.last <= 0 \/ n.bid <= 0 \/ n.ask <= 0
    \/ n.bid > n.ask
    \/ 100 * Abs(2 * n.last - (n.bid + n.ask)) > SanityPct * (n.bid + n.ask)

(* Mutant: only an order of nothing is held back. *)
OnlyZeroIsBelow(p, n) == Amount(p, n) <= 0

(* The floor is compared with the value to be moved, not with the order's
   own notional. *)
BelowMinNotional(p, n) ==
    \/ Amount(p, n) <= 0
    \/ Abs(Drift(p, n)) < 100 * p.minNotional

InsufficientBalance(p, n) ==
    IF SideOf(p, n) = "sell" THEN n.baseFree < Amount(p, n)
    ELSE n.stableFree < Sized(p, n).notional

Skips(reason, p, n) ==
    \/ reason = "ABNORMAL_PRICE" /\ AbnormalPrice(n)
    \/ reason = "MARKET_UNAVAILABLE" /\ ~n.active
    \/ reason = "TOO_SOON" /\ n.cooling
    \/ reason = "WITHIN_BAND" /\ ~DriftExceeds(p, n)
    \/ reason = "BELOW_MIN_NOTIONAL" /\ BelowMinNotional(p, n)
    \/ reason = "INSUFFICIENT_BALANCE" /\ InsufficientBalance(p, n)

(* The first guard that skips the pair; the later ones are not evaluated. *)
Reason(p, n) ==
    IF \E i \in DOMAIN GuardOrder : Skips(GuardOrder[i], p, n)
    THEN GuardOrder[CHOOSE i \in DOMAIN GuardOrder :
                        /\ Skips(GuardOrder[i], p, n)
                        /\ \A j \in 1..(i - 1) : ~Skips(GuardOrder[j], p, n)]
    ELSE "OK"

Actionable(p, n) == Reason(p, n) = "OK"

(* The order of an OK decision. *)
Proposed(p, n) == Clamp(Sized(p, n), p, n)

=============================================================================
