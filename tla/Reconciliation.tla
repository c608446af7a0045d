--------------------------- MODULE Reconciliation ---------------------------
(***************************************************************************)
(* ReconciliationManager.reconcile over the three files it writes:         *)
(* open_orders.json (OrderStore), ledger.jsonl (LedgerStore), and          *)
(* state.json with history.jsonl (StateStore).                             *)
(*                                                                         *)
(* One step per call that leaves the process: each read of the venue and   *)
(* each file write is an action of its own, so that fills, failed          *)
(* requests and crashes fall between them.  Reads are retried inside       *)
(* _request; a step that reads stands for the attempt that got an answer.  *)
(***************************************************************************)
EXTENDS Venue

VARIABLES
    store,    \* open_orders.json: client-order-id -> tracked record
    ledger,   \* quantity booked in ledger.jsonl per client-order-id
    fees,     \* ledger lines of the order that carry the venue's fee
    history,  \* quantity of the history.jsonl events of the order
    cooling,  \* pair -> its last_rebalance_at in state.json is younger than
              \* min_interval_hours (the TOO_SOON guard would skip it)
    pc,       \* what the running command does next; "idle" between commands
    cont,     \* where reconcile() returns to
    todo,     \* the orders reconcile() has yet to process
    fetched   \* the status just read by fetch_order

storeVars == <<store, ledger, fees, history, cooling>>
frameVars == <<pc, cont, todo, fetched>>

(* hasId: order_id is known, i.e. the record is no longer "unconfirmed";
   booked: filled_booked, the quantity already written to the ledger. *)
TrackedRecord == [tracked: BOOLEAN, hasId: BOOLEAN, booked: 0..Lots]

Absent == [tracked |-> FALSE, hasId |-> FALSE, booked |-> 0]
Unconfirmed == [tracked |-> TRUE, hasId |-> FALSE, booked |-> 0]
Placed == [tracked |-> TRUE, hasId |-> TRUE, booked |-> 0]

Tracked(o) == store[o].tracked

Snapshot == [filled: 0..Lots, terminal: BOOLEAN]
NoSnapshot == [filled |-> 0, terminal |-> FALSE]

ReconciliationInit ==
    /\ store = [o \in Orders |-> Absent]
    /\ ledger = [o \in Orders |-> 0]
    /\ fees = [o \in Orders |-> 0]
    /\ history = [o \in Orders |-> 0]
    /\ cooling = [s \in Symbols |-> FALSE]
    /\ pc = "idle"
    /\ cont = "idle"
    /\ todo = {}
    /\ fetched = NoSnapshot

(* Every tracked order, restricted to the pairs S. *)
TrackedIn(S) == {o \in Orders : Tracked(o) /\ symbolOf[o] \in S}

(* The list is worked through in insertion order. *)
IsNext(o) == o \in todo /\ \A p \in todo : o <= p

(* Mutant: the whole filled quantity, as if nothing had been booked. *)
WholeFill(o) == fetched.filled

(* What _book adds to the ledger. *)
Delta(o) == fetched.filled - store[o].booked

(* Mutant: a cancelled order is read as if it had traded nothing. *)
CancelledReportsNothing(o) ==
    [filled |-> IF venue[o].state = "canceled" THEN 0 ELSE venue[o].filled,
     terminal |-> IsDone(o)]

(* What fetch_order returns, as far as _map_status and _book use it. *)
StatusOf(o) == [filled |-> venue[o].filled, terminal |-> IsDone(o)]

(* Ledger lines of this fill that carry the venue's cumulative fee. *)
FeeLines == IF fetched.terminal THEN 1 ELSE 0

(* Mutants: the mark is left where it was; a terminal order is kept. *)
RecordWithOldMark(o) ==
    IF fetched.terminal
    THEN Absent
    ELSE [tracked |-> TRUE, hasId |-> TRUE, booked |-> store[o].booked]
RecordKeptWhenTerminal(o) == [tracked |-> TRUE, hasId |-> TRUE, booked |-> fetched.filled]
RecordWithSummedMark(o) ==
    IF fetched.terminal
    THEN Absent
    ELSE [tracked |-> TRUE, hasId |-> TRUE, booked |-> store[o].booked + fetched.filled]

(* What _book leaves in the store: a terminal order is dropped, any other
   gets its id and its filled_booked mark written back. *)
RecordAfter(o) ==
    IF fetched.terminal
    THEN Absent
    ELSE [tracked |-> TRUE, hasId |-> TRUE, booked |-> fetched.filled]

----------------------------------------------------------------------------

(* _resolve without an order id: the open-orders list holds our id. *)
FindOpen(o) ==
    /\ pc = "resolve" /\ IsNext(o)
    /\ ~store[o].hasId
    /\ IsOpen(o)
    /\ pc' = "fetch"
    /\ UNCHANGED <<venueVars, storeVars, cont, todo, fetched>>

(* _resolve without an order id, and the open-orders list does not hold it:
   the record is left as it is for a later pass. *)
LeaveUnresolved(o) ==
    /\ pc = "resolve" /\ IsNext(o)
    /\ ~store[o].hasId
    /\ ~IsOpen(o)
    /\ todo' = todo \ {o}
    /\ UNCHANGED <<venueVars, storeVars, pc, cont, fetched>>

(* fetch_order answers: filled quantity and status as of this moment. *)
FetchOrder(o) ==
    /\ pc = "fetch" \/ (pc = "resolve" /\ store[o].hasId)
    /\ IsNext(o)
    /\ IsKnown(o)
    /\ fetched' = StatusOf(o)
    /\ pc' = "book"
    /\ UNCHANGED <<venueVars, storeVars, cont, todo>>

(* _write_fill appends the delta to the ledger; the venue's cumulative fee
   goes with it only when the status is terminal. *)
AppendFill(o) ==
    /\ pc = "book" /\ IsNext(o)
    /\ Delta(o) > 0
    /\ ledger' = [ledger EXCEPT ![o] = @ + Delta(o)]
    /\ fees' = [fees EXCEPT ![o] = @ + FeeLines]
    /\ pc' = "state"
    /\ UNCHANGED <<venueVars, store, history, cooling, cont, todo, fetched>>

(* StateStore.save: last_rebalance_at of the pair becomes now. *)
SaveState(o) ==
    /\ pc = "state" /\ IsNext(o)
    /\ cooling' = [cooling EXCEPT ![symbolOf[o]] = TRUE]
    /\ pc' = "history"
    /\ UNCHANGED <<venueVars, store, ledger, fees, history, cont, todo, fetched>>

(* Mutant: the event carries the cumulative quantity, not the delta. *)
AppendCumulativeEvent(o) ==
    /\ pc = "history" /\ IsNext(o)
    /\ history' = [history EXCEPT ![o] = @ + fetched.filled]
    /\ pc' = "advance"
    /\ UNCHANGED <<venueVars, store, ledger, fees, cooling, cont, todo, fetched>>

(* StateStore.append_event. *)
AppendEvent(o) ==
    /\ pc = "history" /\ IsNext(o)
    /\ history' = [history EXCEPT ![o] = @ + Delta(o)]
    /\ pc' = "advance"
    /\ UNCHANGED <<venueVars, store, ledger, fees, cooling, cont, todo, fetched>>

(* The end of _book: the store is advanced and the next order taken up. *)
AdvanceRecord(o) ==
    /\ pc = "advance" \/ (pc = "book" /\ ~(Delta(o) > 0))
    /\ IsNext(o)
    /\ store' = [store EXCEPT ![o] = RecordAfter(o)]
    /\ todo' = todo \ {o}
    /\ fetched' = NoSnapshot
    /\ pc' = "resolve"
    /\ UNCHANGED <<venueVars, ledger, fees, history, cooling, cont>>

(* reconcile() returns to its caller. *)
ReturnFromReconcile ==
    /\ pc = "resolve" /\ todo = {}
    /\ pc' = cont
    /\ cont' = "idle"
    /\ UNCHANGED <<venueVars, storeVars, todo, fetched>>

ReconcileOrder(o) ==
    \/ FindOpen(o) \/ LeaveUnresolved(o) \/ FetchOrder(o)
    \/ AppendFill(o) \/ SaveState(o) \/ AppendEvent(o) \/ AdvanceRecord(o)

ReconciliationTypeOK ==
    /\ store \in [Orders -> TrackedRecord]
    /\ ledger \in [Orders -> Nat]
    /\ fees \in [Orders -> Nat]
    /\ history \in [Orders -> Nat]
    /\ cooling \in [Symbols -> BOOLEAN]
    /\ cont \in {"idle", "scan", "place"}
    /\ todo \in SUBSET Orders
    /\ fetched \in Snapshot

=============================================================================
