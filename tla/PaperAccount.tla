---------------------------- MODULE PaperAccount ----------------------------
(***************************************************************************)
(* A paper account: the commands of Execution, run unchanged against       *)
(* PaperExchangeStore instead of a venue.  The book of paper_book.json     *)
(* holds balances and orders; an order fills whole, at its limit price,    *)
(* and only when fetch_order finds the live price across the limit.        *)
(*                                                                         *)
(* Every action of Execution keeps its effect on the files and gains its   *)
(* effect on the book.  What a real venue may do and the book never does   *)
(* is left out: it trades only when asked, answers every placement, and    *)
(* cancels without failing.                                                *)
(*                                                                         *)
(* Balances are counted in units of 1/Scale, so that the fee of one unit   *)
(* of value is the whole number FeeRate.                                   *)
(***************************************************************************)
EXTENDS Execution, Functions

CONSTANTS
    Assets,     \* what the book keeps a balance of
    BaseOf,     \* pair -> its base asset
    QuoteOf,    \* pair -> its quote asset
    Stable,     \* the asset a book is seeded with
    Amounts,    \* the order amounts a decision may ask for
    PricesOf,   \* pair -> its limit and market prices
    Capital,    \* the balance a book is seeded with
    Scale,      \* units per 1 of an asset
    FeeRate,    \* fee per 1 of value, in those units
    MaxResets   \* bound: times the book is seeded again

ASSUME PaperAssumption ==
    /\ Lots = 1
    /\ BaseOf \in [Symbols -> Assets] /\ QuoteOf \in [Symbols -> Assets]
    /\ \A s \in Symbols : BaseOf[s] # QuoteOf[s]
    /\ Stable \in Assets
    /\ Amounts \subseteq Nat \ {0}
    /\ PricesOf \in [Symbols -> (SUBSET (Nat \ {0})) \ {{}}]
    /\ Capital \in Nat
    /\ Scale \in Nat /\ FeeRate \in 0..Scale
    /\ MaxResets \in Nat

VARIABLES
    balances, \* asset -> the book's total of it
    market,   \* pair -> the live public price
    terms,    \* client-order-id -> side, amount and limit price asked for
    paperId,  \* client-order-id -> n of its id paper-<n>, 0 before it has one
    nextId,   \* the book's id counter
    resets    \* times the book was seeded again

bookVars == <<balances, paperId, nextId>>
paperVars == <<bookVars, market, terms, resets>>
allVars == <<vars, paperVars>>

TermsOf(s) == [side: {"buy", "sell"}, amount: Amounts, price: PricesOf[s]]
NoTerms == [side |-> "buy", amount |-> 0, price |-> 0]

SeedBalances == [a \in Assets |-> IF a = Stable THEN Capital * Scale ELSE 0]

PaperInit ==
    /\ Init
    /\ balances = SeedBalances
    /\ market \in {p \in [Symbols -> UNION Range(PricesOf)] :
                      \A s \in Symbols : p[s] \in PricesOf[s]}
    /\ terms = [o \in Orders |-> NoTerms]
    /\ paperId = [o \in Orders |-> 0]
    /\ nextId = 1
    /\ resets = 0

----------------------------------------------------------------------------
(* The book. *)

IsBuy(o) == terms[o].side = "buy"
Base(o) == BaseOf[symbolOf[o]]
Quote(o) == QuoteOf[symbolOf[o]]
Quantity(o) == terms[o].amount * Scale
Value(o) == terms[o].amount * terms[o].price * Scale
Fee(o) == terms[o].amount * terms[o].price * FeeRate

(* What an order takes from the book when it fills, apart from the fee: a
   buy its value, a sell its amount. *)
Paid(o) == IF IsBuy(o) THEN Quote(o) ELSE Base(o)
Need(o) == IF IsBuy(o) THEN Value(o) ELSE Quantity(o)

(* What the open orders reserve of an asset. *)
OpenPaying(a) == {o \in Orders : IsOpen(o) /\ Paid(o) = a}
Locked(a) == SumFunctionOnSet([o \in Orders |-> Need(o)], OpenPaying(a))

(* Mutant: the order is checked against the total. *)
TotalCovers(o) == balances[Paid(o)] >= Need(o)

(* _check_funds: free is the total minus what open orders reserve. *)
FundsCover(o) == balances[Paid(o)] - Locked(Paid(o)) >= Need(o)

Crosses(o) ==
    IF IsBuy(o) THEN market[symbolOf[o]] <= terms[o].price
    ELSE market[symbolOf[o]] >= terms[o].price

(* Mutant: the fee of a sell is credited. *)
GainWithFeeCredited(o, a) ==
    IF a = Base(o) THEN IF IsBuy(o) THEN Quantity(o) ELSE -Quantity(o)
    ELSE IF a = Quote(o) THEN IF IsBuy(o) THEN -(Value(o) + Fee(o)) ELSE Value(o) + Fee(o)
    ELSE 0

(* What a fill adds to the balance of an asset. *)
Gain(o, a) ==
    CASE a = Base(o) -> IF IsBuy(o) THEN Quantity(o) ELSE -Quantity(o)
      [] a = Quote(o) -> (IF IsBuy(o) THEN -Value(o) ELSE Value(o)) - Fee(o)
      [] OTHER -> 0

(* fetch_order, first half: the live price crosses the limit of the resting
   order, which fills; balances and status are saved in one write. *)
Fetching(o) ==
    /\ pc = "fetch" \/ (pc = "resolve" /\ store[o].hasId)
    /\ IsNext(o)

FillOnFetch(o) ==
    /\ Fetching(o)
    /\ IsOpen(o) /\ Crosses(o)
    /\ FillLot(o)
    /\ balances' = [a \in Assets |-> balances[a] + Gain(o, a)]
    /\ UNCHANGED <<storeVars, frameVars, executionVars, paperId, nextId, market, terms, resets>>

(* Second half: the status is returned. *)
FetchPaperOrder(o) ==
    /\ FetchOrder(o)
    /\ ~(IsOpen(o) /\ Crosses(o))
    /\ UNCHANGED <<executionVars, paperVars>>

(* Mutant: an order the book does not know is passed over. *)
UnknownOrderSkipped(o) ==
    /\ Fetching(o)
    /\ ~IsKnown(o)
    /\ todo' = todo \ {o}
    /\ UNCHANGED <<venueVars, storeVars, pc, cont, fetched, executionVars, paperVars>>

(* "No paper order": the error ends the command. *)
UnknownOrder(o) ==
    /\ Fetching(o)
    /\ ~IsKnown(o)
    /\ ReadFails
    /\ UNCHANGED paperVars

(* The live price of a resting order cannot be had. *)
TickerFails(o) ==
    /\ Fetching(o)
    /\ IsOpen(o)
    /\ ReadFails
    /\ UNCHANGED paperVars

----------------------------------------------------------------------------
(* Placing and cancelling. *)

(* The decision's order is recorded before the book is asked. *)
PutPaperOrder(s) ==
    /\ PutUnconfirmed(s)
    /\ \E t \in TermsOf(s) : terms' = [terms EXCEPT ![nextOrder] = t]
    /\ UNCHANGED <<bookVars, market, resets>>

CreatePaperOrder ==
    /\ CreateSucceeds
    /\ FundsCover(Placing)
    /\ paperId' = [paperId EXCEPT ![Placing] = nextId]
    /\ nextId' = nextId + 1
    /\ UNCHANGED <<balances, market, terms, resets>>

(* InsufficientBalanceError. *)
RejectPaperOrder ==
    /\ CreateRejected
    /\ ~FundsCover(Placing)
    /\ UNCHANGED paperVars

(* A kill: the book has been saved or it has not, nothing is on its way. *)
KillPaperCommand ==
    /\ Killed
    /\ UNCHANGED <<venue, paperVars>>

----------------------------------------------------------------------------
(* Around the commands. *)

(* Mutant: the balances and the counter are set back, the orders stay. *)
SeedKeepsOrders ==
    /\ pc = "idle"
    /\ resets < MaxResets
    /\ resets' = resets + 1
    /\ balances' = SeedBalances
    /\ nextId' = 1
    /\ UNCHANGED <<vars, paperId, market, terms>>

(* paper reset, or auth login --paper over an existing account: a fresh book
   in place of the old one.  The account's other files are left alone. *)
Seed ==
    /\ pc = "idle"
    /\ resets < MaxResets
    /\ resets' = resets + 1
    /\ balances' = SeedBalances
    /\ venue' = [o \in Orders |-> NoOrder]
    /\ nextId' = 1
    /\ UNCHANGED <<symbolOf, storeVars, frameVars, executionVars, paperId, market, terms>>

MarketMoves(s) ==
    /\ \E p \in PricesOf[s] \ {market[s]} : market' = [market EXCEPT ![s] = p]
    /\ UNCHANGED <<vars, bookVars, terms, resets>>

PaperEnvironment ==
    \/ \E s \in Symbols : MarketMoves(s) \/ (IntervalElapses(s) /\ UNCHANGED paperVars)
    \/ Seed

PaperReconcile ==
    \/ \E o \in Orders :
          \/ FillOnFetch(o) \/ FetchPaperOrder(o) \/ UnknownOrder(o) \/ TickerFails(o)
          \/ /\ \/ FindOpen(o) \/ LeaveUnresolved(o) \/ AppendFill(o)
                \/ SaveState(o) \/ AppendEvent(o) \/ AdvanceRecord(o)
             /\ UNCHANGED <<executionVars, paperVars>>
    \/ ReturnFromReconcile /\ UNCHANGED <<executionVars, paperVars>>

PaperCancel ==
    /\ \/ \E s \in Symbols : ListOpen(s)
       \/ \E o \in Orders : CancelSucceeds(o)
       \/ FinishCancelling
    /\ UNCHANGED paperVars

PaperPlace ==
    \/ \E s \in Symbols : PutPaperOrder(s)
    \/ CreatePaperOrder \/ RejectPaperOrder
    \/ (RemoveRejected \/ StampId \/ FinishPlacing) /\ UNCHANGED paperVars

PaperNext ==
    \/ PaperEnvironment
    \/ Start /\ UNCHANGED paperVars
    \/ PaperReconcile \/ PaperCancel \/ PaperPlace
    \/ KillPaperCommand

PaperSpec == PaperInit /\ [][PaperNext]_allVars

----------------------------------------------------------------------------
(* Properties. *)

(* Every variable stays in its range, and the ids of the book below its
   counter. *)
PaperTypeOK ==
    /\ TypeOK
    /\ balances \in [Assets -> Int]
    /\ DOMAIN market = Symbols /\ \A s \in Symbols : market[s] \in PricesOf[s]
    /\ DOMAIN terms = Orders
    /\ \A o \in Orders :
          IF o < nextOrder THEN terms[o] \in TermsOf(symbolOf[o]) ELSE terms[o] = NoTerms
    /\ paperId \in [Orders -> Nat]
    /\ nextId \in Nat \ {0}
    /\ \A o \in Orders : IsKnown(o) => paperId[o] \in 1..(nextId - 1)
    /\ resets \in 0..MaxResets

(* However orders are placed, filled, cancelled and left over by kills, the
   book holds what its open orders promise.  A buy does not reserve the fee it
   will cost, so the total of an asset may fall short of what is reserved of
   it: by the fees of the buys that filled, and by nothing else (_check_funds,
   locked, _fill). *)
FilledBuysIn(a) == {o \in Orders : IsDone(o) /\ venue[o].filled = 1 /\ IsBuy(o) /\ Quote(o) = a}
FeesPaid(a) == SumFunctionOnSet([o \in Orders |-> Fee(o)], FilledBuysIn(a))

ShortOnlyByBuyFees ==
    \A a \in Assets : balances[a] + FeesPaid(a) >= Locked(a)

(* The ledger explains the balances: between commands, with no booking torn
   and every finished order of the book let go, replaying over the seeded
   balances the ledger lines of the book's orders, each with the fee it
   carries, gives the book's balances (_fill against _write_fill). *)
Replayed(o, a) ==
    CASE a = Base(o) -> ledger[o] * (IF IsBuy(o) THEN Quantity(o) ELSE -Quantity(o))
      [] a = Quote(o) -> ledger[o] * (IF IsBuy(o) THEN -Value(o) ELSE Value(o)) - fees[o] * Fee(o)
      [] OTHER -> 0

LedgerExplainsBalances ==
    LET book == {o \in Orders : IsKnown(o)}
    IN  (pc = "idle" /\ torn = {} /\ \A o \in book : IsDone(o) => ~Tracked(o)) =>
          \A a \in Assets :
            balances[a] = SeedBalances[a]
                          + SumFunctionOnSet([o \in Orders |-> Replayed(o, a)], book)

(* A seeded book counts its ids from 1 again.  No order of the new book ever
   gets the id an old record still holds: reconcile would book the one under
   the name of the other (create_order, fetch_order). *)
NoIdReuseWhileTracked ==
    \A o, p \in Orders :
        (store[o].hasId /\ IsKnown(p) /\ paperId[p] = paperId[o]) => p = o

=============================================================================
