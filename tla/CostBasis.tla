------------------------------ MODULE CostBasis ------------------------------
(***************************************************************************)
(* The average-cost accounting of the performance manager: what a ledger   *)
(* of fills says of the position held, what it cost, and what the sales    *)
(* have brought.                                                           *)
(*                                                                         *)
(* A fill f is [side, price, qty, fee, feeIn, at]; feeIn is "base" when    *)
(* the fee was taken in the base asset.  Amounts are whole numbers; the    *)
(* basis a sale takes out is rounded down, where the code has 28 digits.   *)
(***************************************************************************)
EXTENDS Integers, Sequences

NoAcc == [position |-> 0, costBasis |-> 0, realized |-> 0, fees |-> 0, buyCost |-> 0]

(* _fee_in_quote *)
FeeInQuote(f) == IF f.feeIn = "base" THEN f.fee * f.price ELSE f.fee

(* _apply_buy *)
Bought(acc, f) ==
    LET cost == f.qty * f.price + FeeInQuote(f)
    IN  [position  |-> acc.position + f.qty,
         costBasis |-> acc.costBasis + cost,
         realized  |-> acc.realized,
         fees      |-> acc.fees + FeeInQuote(f),
         buyCost   |-> acc.buyCost + cost]

(* The part of the cost basis that goes with the quantity sold. *)
BasisOut(acc, f) ==
    IF acc.position > 0 THEN (acc.costBasis * f.qty) \div acc.position ELSE 0

(* Mutant: the proceeds are booked without the fee. *)
GrossProceeds(acc, f) == f.qty * f.price - BasisOut(acc, f)

(* What a sale realizes. *)
Gain(acc, f) == f.qty * f.price - FeeInQuote(f) - BasisOut(acc, f)

(* _apply_sell: a sale of all there is, or of more, leaves a flat position. *)
Sold(acc, f) ==
    LET flat == f.qty >= acc.position
    IN  [position  |-> IF flat THEN 0 ELSE acc.position - f.qty,
         costBasis |-> IF flat THEN 0 ELSE acc.costBasis - BasisOut(acc, f),
         realized  |-> acc.realized + Gain(acc, f),
         fees      |-> acc.fees + FeeInQuote(f),
         buyCost   |-> acc.buyCost]

(* _apply_fill *)
Applied(acc, f) == IF f.side = "buy" THEN Bought(acc, f) ELSE Sold(acc, f)

(* walk_fills: the totals after each fill, and after the last; the trade
   timeline. *)
After(fills) ==
    LET acc[i \in 0..Len(fills)] == IF i = 0 THEN NoAcc ELSE Applied(acc[i - 1], fills[i])
    IN  acc

Walk(fills) == After(fills)[Len(fills)]

Trades(fills) ==
    LET acc == After(fills)
    IN  [i \in DOMAIN fills |->
            [at |-> fills[i].at, fee |-> FeeInQuote(fills[i]),
             realized |-> IF fills[i].side = "buy" THEN 0 ELSE Gain(acc[i - 1], fills[i])]]
==============================================================================
