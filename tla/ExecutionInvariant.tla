------------------------- MODULE ExecutionInvariant -------------------------
(***************************************************************************)
(* The inductive invariant of Execution.  The safety properties of that    *)
(* module are not inductive: they say nothing of a command half way        *)
(* through an order, of the status it holds in memory while the venue goes *)
(* on, or of the pairs it has promised to clear.  The parts below do.      *)
(***************************************************************************)
EXTENDS Execution

(* o is being booked: its ledger line is written, its mark not advanced. *)
HalfBooked(o) == IsNext(o) /\ pc \in {"state", "history", "advance"}

(* The status in memory is that of o. *)
Held(o) == IsNext(o) /\ pc \in {"book", "state", "history", "advance"}

(* Ids not yet issued are unknown everywhere. *)
UnissuedAreUnknown ==
    \A o \in Orders : o >= nextOrder =>
        /\ venue[o] = NoOrder /\ symbolOf[o] = NoSymbol
        /\ store[o] = Absent
        /\ ledger[o] = 0 /\ fees[o] = 0 /\ history[o] = 0

(* reconcile() is running, on the orders still in open_orders.json; it goes
   back to where it was called, and an idle tool has nothing in hand. *)
Reconciling == pc \in {"resolve", "fetch", "book", "state", "history", "advance"}

CommandFrame ==
    /\ \A o \in todo : Tracked(o)
    /\ ~Reconciling => todo = {} /\ cont = "idle"
    /\ (pc = "idle" \/ (Reconciling /\ cont = "idle"))
            => toScan = {} /\ doomed = {} /\ toPlace = {}

(* The order being placed has its write-ahead record and nothing more, and
   until the venue answers nothing of it is known there. *)
PlacementFrame ==
    pc \in {"create", "untrack", "stamp"} =>
        /\ Placing \in Orders
        /\ store[Placing] = Unconfirmed
        /\ symbolOf[Placing] \notin toPlace
        /\ pc \in {"create", "untrack"} => venue[Placing] = NoOrder

(* An order the venue does not hold has traded nothing. *)
VenueFrame ==
    \A o \in Orders : venue[o].state \in {"none", "inflight"} => venue[o].filled = 0

(* The status in memory may be old, but never ahead of the venue or behind
   the mark, and a terminal one is final. *)
StatusFrame ==
    \A o \in Orders : Held(o) =>
        /\ store[o].booked <= fetched.filled
        /\ fetched.filled <= venue[o].filled
        /\ fetched.terminal => IsDone(o) /\ fetched.filled = venue[o].filled

(* The mark is what the ledger holds, and ahead of it only while the order
   is being booked. *)
MarkFrame ==
    \A o \in Orders :
        /\ store[o].booked <= venue[o].filled
        /\ Tracked(o) => ledger[o] >= store[o].booked
        /\ HalfBooked(o) => ledger[o] >= fetched.filled
        /\ (o \notin torn /\ HalfBooked(o)) => ledger[o] = fetched.filled
        /\ (o \notin torn /\ ~HalfBooked(o) /\ Tracked(o)) => ledger[o] = store[o].booked

(* The audit log is behind by the quantity just booked until its event is
   appended. *)
HistoryFrame ==
    \A o \in Orders : o \notin torn =>
        ledger[o] = history[o]
                    + (IF IsNext(o) /\ pc \in {"state", "history"} THEN Delta(o) ELSE 0)

(* The fee is booked with the last fill, after which the order is let go. *)
FeeFrame ==
    \A o \in Orders : o \notin torn =>
        /\ fees[o] <= 1
        /\ Tracked(o) => fees[o] = 0 \/ (HalfBooked(o) /\ fetched.terminal)

(* Before an order is placed for a pair, every open order of that pair has
   been listed, and every listed one cancelled. *)
ClearedFrame ==
    /\ (pc \in {"place", "create", "untrack", "stamp"} \/ cont = "place")
            => toScan = {} /\ doomed = {}
    /\ \A s \in toPlace, o \in Orders :
            (IsOpen(o) /\ symbolOf[o] = s /\ ~venue[o].late) => s \in toScan \/ o \in doomed
    /\ pc = "create" =>
            \A o \in Orders :
                (IsOpen(o) /\ symbolOf[o] = symbolOf[Placing]) => venue[o].late

(* The bookkeeping parts, and all of them. *)
BookingInv ==
    /\ UnissuedAreUnknown
    /\ CommandFrame
    /\ PlacementFrame
    /\ VenueFrame
    /\ StatusFrame
    /\ MarkFrame
    /\ LiveOrdersAreTracked
    /\ NoFillLost
    /\ BookedOnceUnlessTorn

ExecutionInv ==
    /\ TypeOK
    /\ BookingInv
    /\ HistoryFrame
    /\ FeeFrame
    /\ ClearedFrame
    /\ OneRestingOrderPerPair

=============================================================================
