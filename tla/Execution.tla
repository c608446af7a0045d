------------------------------ MODULE Execution ------------------------------
(***************************************************************************)
(* The commands that write: rebalance --execute (ExecutionManager.execute),*)
(* cancel --execute and reconcile, run one at a time by the agent against  *)
(* one account.  A command may fail at any request it makes to the venue,  *)
(* or be killed between any two of its steps; the files survive.           *)
(***************************************************************************)
EXTENDS Reconciliation, FiniteSets

CONSTANT MaxCrashes   \* bound: times a command is killed half way

ASSUME CrashAssumption == MaxCrashes \in Nat

VARIABLES
    toScan,    \* pairs whose open orders are still to be listed
    doomed,    \* our open orders listed, to be cancelled
    toPlace,   \* pairs with an actionable decision and no order placed yet
    nextOrder, \* the next client-order-id to issue
    crashes,   \* commands killed so far
    torn       \* orders whose booking a kill has torn: the ledger line was
               \* appended, the filled_booked mark not yet advanced

planVars == <<toScan, doomed, toPlace>>
auditVars == <<crashes, torn>>
executionVars == <<planVars, nextOrder, auditVars>>
vars == <<venueVars, storeVars, frameVars, executionVars>>

Init ==
    /\ VenueInit
    /\ ReconciliationInit
    /\ toScan = {} /\ doomed = {} /\ toPlace = {}
    /\ nextOrder = 1
    /\ crashes = 0
    /\ torn = {}

----------------------------------------------------------------------------
(* Starting a command. *)

(* reconcile [--pair ...] *)
StartReconcile(S) ==
    /\ pc = "idle"
    /\ todo' = TrackedIn(S)
    /\ cont' = "idle"
    /\ pc' = "resolve"
    /\ UNCHANGED <<venueVars, storeVars, fetched, executionVars>>

(* Mutant: leftovers are not looked for. *)
CancelsNothingFor(D) == {}

(* The pairs whose open orders execute() cancels before it places. *)
CancelsFor(D) == D

(* rebalance --execute, past the safety gate, with actionable decisions for
   the pairs D.  The decisions were taken before execute() is entered: no
   pair of D was inside its minimum interval at that moment. *)
StartRebalance(D) ==
    /\ pc = "idle"
    /\ \A s \in D : ~cooling[s]
    /\ nextOrder + Cardinality(D) <= MaxOrders + 1   \* bound
    /\ todo' = TrackedIn(Symbols)
    /\ cont' = "scan"
    /\ pc' = "resolve"
    /\ toScan' = CancelsFor(D)
    /\ toPlace' = D
    /\ UNCHANGED <<venueVars, storeVars, fetched, doomed, nextOrder, auditVars>>

(* cancel [--pair ...] --execute *)
StartCancel(S) ==
    /\ pc = "idle"
    /\ pc' = "scan"
    /\ toScan' = S
    /\ UNCHANGED <<venueVars, storeVars, cont, todo, fetched,
                   doomed, toPlace, nextOrder, auditVars>>

----------------------------------------------------------------------------
(* Ending one: every exit leaves the files and forgets the rest. *)

Forget ==
    /\ pc' = "idle"
    /\ cont' = "idle"
    /\ todo' = {}
    /\ fetched' = NoSnapshot
    /\ toScan' = {}
    /\ doomed' = {}
    /\ toPlace' = {}

(* A read fails after its retries: the error ends the command. *)
ReadFails ==
    /\ \/ pc = "resolve" /\ todo # {}
       \/ pc = "fetch"
       \/ pc = "scan" /\ toScan # {}
    /\ Forget
    /\ UNCHANGED <<venueVars, storeVars, nextOrder, auditVars>>

(* The process is killed between two steps. *)
Killed ==
    /\ pc # "idle"
    /\ crashes < MaxCrashes
    /\ crashes' = crashes + 1
    /\ torn' = torn \cup {o \in todo : IsNext(o) /\ pc \in {"state", "history", "advance"}}
    /\ Forget
    /\ UNCHANGED <<symbolOf, storeVars, nextOrder>>

(* A placement request it was waiting for may still be on its way. *)
Crash ==
    /\ Killed
    /\ \/ UNCHANGED venue
       \/ /\ pc = "create"
          /\ venue' = [venue EXCEPT ![nextOrder - 1] = InFlight]

----------------------------------------------------------------------------
(* owned_open_orders and cancel_orders. *)

ListOpen(s) ==
    /\ pc = "scan" /\ s \in toScan
    /\ toScan' = toScan \ {s}
    /\ doomed' = doomed \cup {o \in Orders : IsOpen(o) /\ symbolOf[o] = s}
    /\ UNCHANGED <<venueVars, storeVars, frameVars, toPlace, nextOrder, auditVars>>

CancelSucceeds(o) ==
    /\ pc = "scan" /\ toScan = {} /\ o \in doomed
    /\ IsOpen(o)
    /\ venue' = [venue EXCEPT ![o].state = "canceled"]
    /\ doomed' = doomed \ {o}
    /\ UNCHANGED <<symbolOf, storeVars, frameVars, toScan, toPlace, nextOrder, auditVars>>

(* The order is no longer open, or the request fails after its retries, with
   the cancel applied or not: the error ends the command. *)
CancelFails(o) ==
    /\ pc = "scan" /\ toScan = {} /\ o \in doomed
    /\ \/ UNCHANGED venue
       \/ IsOpen(o) /\ venue' = [venue EXCEPT ![o].state = "canceled"]
    /\ Forget
    /\ UNCHANGED <<symbolOf, storeVars, nextOrder, auditVars>>

(* The cancel command has nothing to place and ends in FinishPlacing. *)
FinishCancelling ==
    /\ pc = "scan" /\ toScan = {} /\ doomed = {}
    /\ pc' = "place"
    /\ UNCHANGED <<venueVars, storeVars, cont, todo, fetched, executionVars>>

----------------------------------------------------------------------------
(* _place, once per actionable decision. *)

(* The order being placed carries the last id issued. *)
Placing == nextOrder - 1

(* The write-ahead record: "unconfirmed", without an order id. *)
PutUnconfirmed(s) ==
    /\ pc = "place" /\ s \in toPlace
    /\ nextOrder <= MaxOrders
    /\ store' = [store EXCEPT ![nextOrder] = Unconfirmed]
    /\ symbolOf' = [symbolOf EXCEPT ![nextOrder] = s]
    /\ nextOrder' = nextOrder + 1
    /\ toPlace' = toPlace \ {s}
    /\ pc' = "create"
    /\ UNCHANGED <<venue, ledger, fees, history, cooling, cont, todo, fetched,
                   toScan, doomed, auditVars>>

CreateSucceeds ==
    /\ pc = "create"
    /\ venue' = [venue EXCEPT ![Placing] = NewOrder]
    /\ pc' = "stamp"
    /\ UNCHANGED <<symbolOf, storeVars, cont, todo, fetched, executionVars>>

(* OrderRejectedError or InsufficientBalanceError. *)
CreateRejected ==
    /\ pc = "create"
    /\ pc' = "untrack"
    /\ UNCHANGED <<venueVars, storeVars, cont, todo, fetched, executionVars>>

RemoveRejected ==
    /\ pc = "untrack"
    /\ store' = [store EXCEPT ![Placing] = Absent]
    /\ pc' = "place"
    /\ UNCHANGED <<venueVars, ledger, fees, history, cooling, cont, todo, fetched,
                   executionVars>>

(* Mutant: every failed placement is taken for a rejection. *)
UnansweredUntracks ==
    /\ pc = "create"
    /\ venue' = [venue EXCEPT ![Placing] = InFlight]
    /\ pc' = "untrack"
    /\ UNCHANGED <<symbolOf, storeVars, cont, todo, fetched, executionVars>>

(* Any other ExchangeError: placement is never retried, its outcome is
   unknown, and the record stays. *)
CreateUnanswered ==
    /\ pc = "create"
    /\ venue' = [venue EXCEPT ![Placing] = InFlight]
    /\ pc' = "place"
    /\ UNCHANGED <<symbolOf, storeVars, cont, todo, fetched, executionVars>>

(* The answer's id is stamped, and the pair reconciled at once. *)
StampId ==
    /\ pc = "stamp"
    /\ store' = [store EXCEPT ![Placing] = Placed]
    /\ todo' = TrackedIn({symbolOf[Placing]})
    /\ cont' = "place"
    /\ pc' = "resolve"
    /\ UNCHANGED <<venueVars, ledger, fees, history, cooling, fetched, executionVars>>

FinishPlacing ==
    /\ pc = "place" /\ toPlace = {}
    /\ Forget
    /\ UNCHANGED <<venueVars, storeVars, nextOrder, auditVars>>

----------------------------------------------------------------------------

(* Between commands a pair's minimum interval runs out.  A command judges it
   by the one timestamp it takes when it starts. *)
IntervalElapses(s) ==
    /\ pc = "idle"
    /\ cooling[s]
    /\ cooling' = [cooling EXCEPT ![s] = FALSE]
    /\ UNCHANGED <<venueVars, store, ledger, fees, history, frameVars, executionVars>>

Environment ==
    \/ \E o \in Orders : VenueStep(o) /\ UNCHANGED <<storeVars, frameVars, executionVars>>
    \/ \E s \in Symbols : IntervalElapses(s)

Reconcile ==
    \/ \E o \in Orders : ReconcileOrder(o) /\ UNCHANGED executionVars
    \/ ReturnFromReconcile /\ UNCHANGED executionVars

CancelOrders ==
    \/ \E s \in Symbols : ListOpen(s)
    \/ \E o \in Orders : CancelSucceeds(o) \/ CancelFails(o)
    \/ FinishCancelling

Place ==
    \/ \E s \in Symbols : PutUnconfirmed(s)
    \/ CreateSucceeds \/ CreateRejected \/ RemoveRejected \/ CreateUnanswered
    \/ StampId \/ FinishPlacing

Start ==
    \E S \in SUBSET Symbols : StartReconcile(S) \/ StartRebalance(S) \/ StartCancel(S)

Next == Environment \/ Start \/ Reconcile \/ CancelOrders \/ Place \/ ReadFails \/ Crash

Spec == Init /\ [][Next]_vars

----------------------------------------------------------------------------
(* Fairness.  The tool has no timer: commands run because the agent runs
   them.  Assumed are an agent that keeps running reconcile, a command that
   does not stall, reads that are answered now and then however often they
   fail, and a venue that settles what became of a placement request. *)

LocalStep ==
    \/ \E o \in Orders :
          (AppendFill(o) \/ SaveState(o) \/ AppendEvent(o) \/ AdvanceRecord(o))
          /\ UNCHANGED executionVars
    \/ ReturnFromReconcile /\ UNCHANGED executionVars
    \/ CancelOrders
    \/ Place

Fairness ==
    /\ WF_vars(LocalStep)
    /\ SF_vars(StartReconcile(Symbols))
    /\ \A o \in Orders :
        /\ SF_vars(FindOpen(o) /\ UNCHANGED executionVars)
        /\ SF_vars(LeaveUnresolved(o) /\ UNCHANGED executionVars)
        /\ SF_vars(FetchOrder(o) /\ UNCHANGED executionVars)
        /\ WF_vars((LandLate(o) \/ DropRequest(o))
                   /\ UNCHANGED <<storeVars, frameVars, executionVars>>)

FairSpec == Spec /\ Fairness

----------------------------------------------------------------------------
(* Safety. *)

(* Every variable stays in its range. *)
TypeOK ==
    /\ VenueTypeOK
    /\ ReconciliationTypeOK
    /\ pc \in {"idle", "resolve", "fetch", "book", "state", "history", "advance",
              "scan", "place", "create", "untrack", "stamp"}
    /\ toScan \in SUBSET Symbols
    /\ doomed \in SUBSET Orders
    /\ toPlace \in SUBSET Symbols
    /\ nextOrder \in 1..(MaxOrders + 1)
    /\ crashes \in Nat
    /\ torn \in SUBSET Orders

(* Write-ahead tracking works: whatever way a command ends, an order that
   rests at the venue, or may still reach it, has its record in
   open_orders.json (execution_manager._place). *)
LiveOrdersAreTracked ==
    \A o \in Orders : venue[o].state \in {"inflight", "open"} => Tracked(o)

(* An order leaves open_orders.json only when all it ever traded is in the
   ledger: after the record is gone nothing would book the rest
   (reconciliation_manager._book). *)
NoFillLost ==
    \A o \in Orders : ~Tracked(o) => ledger[o] >= venue[o].filled

(* No quantity is in the ledger twice, however commands are repeated, fail or
   are cut short, except for an order whose booking a kill tore between the
   ledger line and the filled_booked mark. *)
BookedOnceUnlessTorn ==
    \A o \in Orders : o \notin torn => ledger[o] <= venue[o].filled

(* Cancel-and-replace leaves one resting order per pair: two can only meet
   when one of them was created after its placement call had been given up. *)
OneRestingOrderPerPair ==
    \A o, p \in Orders :
        (o # p /\ IsOpen(o) /\ IsOpen(p) /\ symbolOf[o] = symbolOf[p])
            => venue[o].late \/ venue[p].late

(* Between commands the audit log tells the same quantities as the ledger,
   order by order, unless a booking was torn (state_store.record). *)
HistoryAgreesWithLedger ==
    pc = "idle" => \A o \in Orders : o \notin torn => history[o] = ledger[o]

(* The venue's cumulative fee is never booked twice for an order
   (reconciliation_manager._write_fill). *)
FeeBookedAtMostOnce ==
    \A o \in Orders : o \notin torn => fees[o] <= 1

----------------------------------------------------------------------------
(* Liveness. *)

(* An order whose id was learned is, once the venue is done with it, booked
   and let go, however many commands fail before (reconcile). *)
KnownOrdersSettle ==
    \A o \in Orders : (store[o].hasId /\ IsDone(o)) ~> ~Tracked(o)

----------------------------------------------------------------------------
(* What the documentation says beyond that. *)

(* order_store.py:5: write-ahead tracking means "a placement timeout never
   strands an order": sooner or later each tracked order that is done at the
   venue is resolved and let go. *)
TimeoutNeverStrands ==
    \A o \in Orders : (Tracked(o) /\ IsDone(o)) ~> ~Tracked(o)

----------------------------------------------------------------------------
(* Implementation of FillAccounting. *)

(* How far an order has come, read off the record, the venue and the ids. *)
PhaseOf(o) ==
    IF o \in torn THEN "forfeited"
    ELSE IF o >= nextOrder THEN "new"
    ELSE IF Tracked(o) THEN IF IsDone(o) THEN "finished" ELSE "working"
    ELSE IF IsDone(o) THEN "settled" ELSE "discarded"

Accounting ==
    INSTANCE FillAccounting WITH
        executed <- [o \in Orders |-> IF o \in torn THEN 0 ELSE venue[o].filled],
        booked <- [o \in Orders |-> IF o \in torn THEN 0 ELSE ledger[o]],
        phase <- [o \in Orders |-> PhaseOf(o)]

(* The files, the failed requests, the kills and the interleaved fills
   together still book every executed lot exactly once (F-6.md:53), but for
   an order whose booking a kill has torn. *)
BooksExactlyOnce == Accounting!AccountingSpec

=============================================================================
