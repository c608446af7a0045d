------------------------------- MODULE Venue -------------------------------
(***************************************************************************)
(* The trading venue (or the paper account's simulated book) as the tool   *)
(* sees it through stores/exchange.py: a set of limit orders, each known   *)
(* by the client-order-id the tool gave it.  The venue is not part of the  *)
(* repository; what is modelled is what the code assumes of it: an order   *)
(* fills a bit at a time while it is open, a finished order stays          *)
(* readable by its id, and a placement call that ends without an answer    *)
(* may or may not have created the order.                                  *)
(*                                                                         *)
(* Client-order-ids are the numbers 1..MaxOrders: an id is a timestamp     *)
(* and an index, so ids are issued in increasing order and the insertion   *)
(* order of open_orders.json is their numeric order.                       *)
(***************************************************************************)
EXTENDS Integers

CONSTANTS
    Symbols,    \* the configured pairs
    NoSymbol,   \* the pair of a client-order-id that was never issued
    MaxOrders,  \* bound: client-order-ids issued over a behaviour
    Lots        \* the amount of every order, in the lots it fills by

ASSUME VenueAssumption ==
    /\ NoSymbol \notin Symbols
    /\ MaxOrders \in Nat \ {0}
    /\ Lots \in Nat \ {0}

Orders == 1..MaxOrders

VARIABLES
    venue,     \* client-order-id -> the venue's own record of that order
    symbolOf   \* client-order-id -> the pair it was issued for

venueVars == <<venue, symbolOf>>

(***************************************************************************)
(* "none": no such order at the venue; "inflight": the placement call      *)
(* ended without an answer and its request is still on its way; "open",    *)
(* "closed" and "canceled" are ccxt's order statuses.  "late" marks an     *)
(* order created after the tool had given up waiting for it.               *)
(***************************************************************************)
VenueOrder ==
    [state: {"none", "inflight", "open", "closed", "canceled"},
     filled: 0..Lots,
     late: BOOLEAN]

NoOrder  == [state |-> "none", filled |-> 0, late |-> FALSE]
InFlight == [state |-> "inflight", filled |-> 0, late |-> FALSE]
NewOrder == [state |-> "open", filled |-> 0, late |-> FALSE]

IsOpen(o) == venue[o].state = "open"
IsDone(o) == venue[o].state \in {"closed", "canceled"}
IsKnown(o) == IsOpen(o) \/ IsDone(o)

VenueInit ==
    /\ venue = [o \in Orders |-> NoOrder]
    /\ symbolOf = [o \in Orders |-> NoSymbol]

----------------------------------------------------------------------------

(* One more lot of an open order trades; the last lot closes the order. *)
FillLot(o) ==
    /\ IsOpen(o)
    /\ venue[o].filled < Lots
    /\ venue' = [venue EXCEPT ![o] =
            [state |-> IF venue[o].filled + 1 = Lots THEN "closed" ELSE "open",
             filled |-> venue[o].filled + 1,
             late |-> venue[o].late]]
    /\ UNCHANGED symbolOf

(* The venue expires the order, or its owner cancels it by hand. *)
VenueCancels(o) ==
    /\ IsOpen(o)
    /\ venue' = [venue EXCEPT ![o].state = "canceled"]
    /\ UNCHANGED symbolOf

(* An unanswered placement request reaches the venue after all ... *)
LandLate(o) ==
    /\ venue[o].state = "inflight"
    /\ venue' = [venue EXCEPT ![o] = [state |-> "open", filled |-> 0, late |-> TRUE]]
    /\ UNCHANGED symbolOf

(* ... or never does. *)
DropRequest(o) ==
    /\ venue[o].state = "inflight"
    /\ venue' = [venue EXCEPT ![o] = NoOrder]
    /\ UNCHANGED symbolOf

VenueStep(o) == FillLot(o) \/ VenueCancels(o) \/ LandLate(o) \/ DropRequest(o)

VenueTypeOK ==
    /\ venue \in [Orders -> VenueOrder]
    /\ symbolOf \in [Orders -> Symbols \cup {NoSymbol}]

=============================================================================
