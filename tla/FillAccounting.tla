--------------------------- MODULE FillAccounting ---------------------------
(***************************************************************************)
(* What the order store, the ledger and the reconciler promise together    *)
(* about each order: whatever the venue executes is booked exactly once,   *)
(* and an order is let go only when nothing of it is left to book.  A kill *)
(* in the middle of a booking gives the promise up for that order alone.   *)
(*                                                                         *)
(* This is the promise of docs/fixes/F-6.md ("never lost or                *)
(* double-booked") with the requests, the files and the processing order   *)
(* left out.                                                               *)
(***************************************************************************)
EXTENDS Naturals

CONSTANTS
    Orders,  \* the orders that may be placed
    Lots     \* the amount of an order

VARIABLES
    executed,  \* quantity the venue has executed of each order
    booked,    \* quantity of it that has been booked
    phase      \* how far each order has come

accountingVars == <<executed, booked, phase>>

Phases == {"new", "working", "finished", "settled", "discarded", "forfeited"}

AccountingInit ==
    /\ executed = [o \in Orders |-> 0]
    /\ booked = [o \in Orders |-> 0]
    /\ phase = [o \in Orders |-> "new"]

(* The order is recorded, before anything is asked of the venue. *)
Register(o) ==
    /\ phase[o] = "new"
    /\ phase' = [phase EXCEPT ![o] = "working"]
    /\ UNCHANGED <<executed, booked>>

(* The venue executes part of it, or the rest of it. *)
ExecuteLot(o) ==
    /\ phase[o] = "working"
    /\ executed[o] < Lots
    /\ executed' = [executed EXCEPT ![o] = @ + 1]
    /\ phase' = [phase EXCEPT ![o] = IF executed[o] + 1 = Lots THEN "finished" ELSE @]
    /\ UNCHANGED booked

(* It is cancelled with the rest unexecuted. *)
Close(o) ==
    /\ phase[o] = "working"
    /\ phase' = [phase EXCEPT ![o] = "finished"]
    /\ UNCHANGED <<executed, booked>>

(* Executed quantity not booked before is booked. *)
Book(o) ==
    /\ phase[o] \in {"working", "finished"}
    /\ \E q \in (booked[o] + 1)..executed[o] : booked' = [booked EXCEPT ![o] = q]
    /\ UNCHANGED <<executed, phase>>

(* A finished order with all of it booked is let go. *)
Settle(o) ==
    /\ phase[o] = "finished"
    /\ booked[o] = executed[o]
    /\ phase' = [phase EXCEPT ![o] = "settled"]
    /\ UNCHANGED <<executed, booked>>

(* The venue refuses the order. *)
Discard(o) ==
    /\ phase[o] = "working"
    /\ executed[o] = 0
    /\ phase' = [phase EXCEPT ![o] = "discarded"]
    /\ UNCHANGED <<executed, booked>>

(* A kill tears its booking; its quantities are not kept any more. *)
Forfeit(o) ==
    /\ phase[o] \in {"working", "finished"}
    /\ booked[o] > 0
    /\ phase' = [phase EXCEPT ![o] = "forfeited"]
    /\ executed' = [executed EXCEPT ![o] = 0]
    /\ booked' = [booked EXCEPT ![o] = 0]

AccountingNext ==
    \E o \in Orders :
        \/ Register(o) \/ ExecuteLot(o) \/ Close(o) \/ Book(o) \/ Settle(o)
        \/ Discard(o) \/ Forfeit(o)

AccountingSpec == AccountingInit /\ [][AccountingNext]_accountingVars

=============================================================================
