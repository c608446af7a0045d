----------------------------- MODULE OrderProofs -----------------------------
(***************************************************************************)
(* Proofs about the orders of a portfolio: the commands that place, book   *)
(* and cancel them (Execution), and the paper account as their venue       *)
(* (PaperAccount).                                                         *)
(*                                                                         *)
(* 1. ExecutionInv is an invariant of Execution for every set of pairs,    *)
(*    every number of orders and lots, and every number of kills.          *)
(*    Most steps either leave the books alone while no order is being      *)
(*    booked (QuietSteps) or are a move of one order at the venue          *)
(*    (VenueMoves); the lemmas of these two kinds carry the bookkeeping    *)
(*    parts of the invariant for them, so that only what a step does to    *)
(*    the running command is left to its own lemma.                        *)
(* 2. Execution implements FillAccounting.                                 *)
(* 3. A paper account that is never seeded again is a venue as the         *)
(*    commands know it: each of its steps is a step of Execution, so       *)
(*    everything proved of Execution holds of it too.                      *)
(* 4. However often it is seeded again, no order of the new book is taken  *)
(*    for one of the old: NoIdReuseWhileTracked.                           *)
(* 5. Every variable stays in its range: PaperTypeOK.                      *)
(* 6. The book covers what its open orders reserve, but for the fees of    *)
(*    buys: ShortOnlyByBuyFees.                                            *)
(* 7. Between commands the ledger explains the balances, if no booking is  *)
(*    torn: LedgerExplainsBalances.                                        *)
(***************************************************************************)
EXTENDS PaperAccount, ExecutionInvariant, Lemmas

----------------------------------------------------------------------------
(* 1. The commands. *)


Books == <<store, ledger, fees, history>>

(* A tracked order the venue is not done with moves on. *)
MovesAtVenue(o) ==
    /\ symbolOf' = symbolOf
    /\ \A p \in Orders : p # o => venue'[p] = venue[p]
    /\ ~(o >= nextOrder) /\ Tracked(o)
    /\ ~IsDone(o)
    /\ venue'[o].state \in {"none", "inflight"} => venue'[o].filled = 0
    /\ venue'[o].filled \in Nat
    /\ venue'[o].filled >= venue[o].filled

(* If it is open now it was so before, unless it came late. *)
OpensLate(o) ==
    venue'[o].state = "open" =>
        (IsOpen(o) /\ venue'[o].late = venue[o].late) \/ venue'[o].late

(* No order is being booked, before or after. *)
NothingHeld ==
    /\ pc \notin {"book", "state", "history", "advance"}
    /\ pc' \notin {"book", "state", "history", "advance"}

----------------------------------------------------------------------------

LEMMA InitInv == Init => ExecutionInv
<1> SUFFICES ASSUME Init PROVE ExecutionInv
  OBVIOUS
<1> USE VenueAssumption, CrashAssumption
        DEF Init, VenueInit, ReconciliationInit, NoOrder, Absent, NoSnapshot
<1>1. TypeOK
  BY DEF TypeOK, VenueTypeOK, ReconciliationTypeOK, Orders, VenueOrder, TrackedRecord, Snapshot
<1>2. BookingInv
  BY DEF BookingInv, UnissuedAreUnknown, CommandFrame, Reconciling, PlacementFrame, VenueFrame,
         StatusFrame, MarkFrame, LiveOrdersAreTracked, NoFillLost, BookedOnceUnlessTorn,
         Held, HalfBooked, IsNext, Tracked
<1>3. HistoryFrame /\ FeeFrame
  BY DEF HistoryFrame, FeeFrame, IsNext, HalfBooked, Tracked
<1>4. ClearedFrame /\ OneRestingOrderPerPair
  BY DEF ClearedFrame, OneRestingOrderPerPair, IsOpen
<1> QED
  BY <1>1, <1>2, <1>3, <1>4 DEF ExecutionInv

(* A step that touches no book, while none is being written. *)
LEMMA QuietSteps ==
  ASSUME ExecutionInv, NothingHeld, UNCHANGED <<venueVars, Books, nextOrder, torn>>
  PROVE  /\ (UnissuedAreUnknown /\ VenueFrame /\ StatusFrame /\ MarkFrame)'
         /\ (LiveOrdersAreTracked /\ NoFillLost /\ BookedOnceUnlessTorn)'
         /\ (HistoryFrame /\ FeeFrame /\ OneRestingOrderPerPair)'
<1> USE DEF NothingHeld, Books, venueVars
<1>1. (UnissuedAreUnknown /\ VenueFrame)'
  BY DEF ExecutionInv, BookingInv, UnissuedAreUnknown, VenueFrame
<1>2. (StatusFrame /\ MarkFrame)'
  BY DEF ExecutionInv, BookingInv, StatusFrame, MarkFrame, Held, HalfBooked, Tracked
<1>3. (LiveOrdersAreTracked /\ NoFillLost /\ BookedOnceUnlessTorn)'
  BY DEF ExecutionInv, BookingInv, LiveOrdersAreTracked, NoFillLost, BookedOnceUnlessTorn, Tracked
<1>4. (HistoryFrame /\ FeeFrame)'
  BY DEF ExecutionInv, HistoryFrame, FeeFrame, HalfBooked, Tracked, Delta
<1>5. OneRestingOrderPerPair'
  BY DEF ExecutionInv, OneRestingOrderPerPair, IsOpen
<1> QED
  BY <1>1, <1>2, <1>3, <1>4, <1>5

(* A move of one order at the venue, whatever command is running. *)
LEMMA VenueMoves ==
  ASSUME ExecutionInv, NEW o \in Orders, MovesAtVenue(o),
         UNCHANGED <<Books, nextOrder, torn>>,
         UNCHANGED <<pc, todo, fetched>> \/ NothingHeld
  PROVE  /\ (UnissuedAreUnknown /\ VenueFrame /\ StatusFrame /\ MarkFrame)'
         /\ (LiveOrdersAreTracked /\ NoFillLost /\ BookedOnceUnlessTorn)'
         /\ (HistoryFrame /\ FeeFrame)'
         /\ OpensLate(o) => OneRestingOrderPerPair'
<1> USE DEF MovesAtVenue, NothingHeld, Books
<1>0. /\ Tracked(o)'
      /\ fetched.filled \in Nat
      /\ \A p \in Orders : store[p].booked \in Nat /\ ledger[p] \in Nat /\ venue[p].filled \in Nat
  BY VenueAssumption
     DEF Tracked, ExecutionInv, TypeOK, VenueTypeOK, VenueOrder, ReconciliationTypeOK, TrackedRecord, Snapshot
<1>1. (UnissuedAreUnknown /\ VenueFrame)'
  BY <1>0 DEF ExecutionInv, BookingInv, UnissuedAreUnknown, VenueFrame
<1>2. \A p \in Orders : Held(p)' => Held(p)
  BY DEF Held, IsNext
<1>3. StatusFrame'
  <2> SUFFICES ASSUME NEW p \in Orders, Held(p)'
               PROVE  /\ store[p].booked <= fetched'.filled
                      /\ fetched'.filled <= venue'[p].filled
                      /\ fetched'.terminal => IsDone(p)' /\ fetched'.filled = venue'[p].filled
    BY DEF StatusFrame
  <2>1. Held(p) /\ fetched' = fetched
    BY <1>2 DEF Held
  <2>2. /\ store[p].booked <= fetched.filled
        /\ fetched.filled <= venue[p].filled
        /\ fetched.terminal => IsDone(p) /\ fetched.filled = venue[p].filled
    BY <2>1 DEF ExecutionInv, BookingInv, StatusFrame
  <2>3. CASE p = o
    BY <1>0, <2>1, <2>2, <2>3 DEF IsDone
  <2>4. CASE p # o
    BY <2>1, <2>2, <2>4 DEF IsDone
  <2> QED
    BY <2>3, <2>4
<1>4. \A p \in Orders : venue[p].filled <= venue'[p].filled
  BY <1>0
<1>5. \A p \in Orders : (HalfBooked(p)' <=> HalfBooked(p)) /\ (HalfBooked(p) => fetched' = fetched)
  BY DEF HalfBooked, IsNext
<1>6. MarkFrame'
  <2> SUFFICES ASSUME NEW p \in Orders
               PROVE  /\ store[p].booked <= venue'[p].filled
                      /\ Tracked(p)' => ledger[p] >= store[p].booked
                      /\ HalfBooked(p)' => ledger[p] >= fetched'.filled
                      /\ (p \notin torn /\ HalfBooked(p)') => ledger[p] = fetched'.filled
                      /\ (p \notin torn /\ ~HalfBooked(p)' /\ Tracked(p)') => ledger[p] = store[p].booked
    BY DEF MarkFrame
  <2>1. store[p].booked <= venue'[p].filled
    BY <1>0, <1>4 DEF ExecutionInv, BookingInv, MarkFrame
  <2> QED
    BY <1>5, <2>1 DEF ExecutionInv, BookingInv, MarkFrame, Tracked
<1>7. (LiveOrdersAreTracked /\ NoFillLost)'
  BY <1>0 DEF ExecutionInv, BookingInv, LiveOrdersAreTracked, NoFillLost, Tracked
<1>8. BookedOnceUnlessTorn'
  BY <1>0, <1>4 DEF ExecutionInv, BookingInv, BookedOnceUnlessTorn
<1>9. (HistoryFrame /\ FeeFrame)'
  BY <1>5 DEF ExecutionInv, HistoryFrame, FeeFrame, HalfBooked, IsNext, Tracked, Delta
<1>10. ASSUME OpensLate(o) PROVE OneRestingOrderPerPair'
  <2>1. \A r \in Orders : (IsOpen(r)' /\ ~venue'[r].late) => IsOpen(r) /\ ~venue[r].late
    BY <1>10 DEF OpensLate, IsOpen
  <2> QED
    BY <2>1 DEF ExecutionInv, OneRestingOrderPerPair
<1> QED
  BY <1>1, <1>3, <1>6, <1>7, <1>8, <1>9, <1>10

----------------------------------------------------------------------------
(* The venue's own steps. *)

LEMMA VenueStepInv ==
  ASSUME ExecutionInv, NEW o \in Orders, VenueStep(o),
         UNCHANGED <<storeVars, frameVars, executionVars>>
  PROVE  ExecutionInv'
<1> USE VenueAssumption
        DEF VenueStep, FillLot, VenueCancels, LandLate, DropRequest,
            storeVars, frameVars, executionVars, planVars, auditVars
<1>1. /\ venue \in [Orders -> VenueOrder]
      /\ venue[o] \in VenueOrder
      /\ Lots \in Nat
      /\ venue[o].state \in {"none", "inflight"} => venue[o].filled = 0
      /\ venue[o].state \in {"inflight", "open"} => Tracked(o) /\ ~(o >= nextOrder)
  BY DEF ExecutionInv, BookingInv, VenueFrame, LiveOrdersAreTracked, UnissuedAreUnknown, NoOrder,
         TypeOK, VenueTypeOK
<1>2. venue'[o] \in VenueOrder /\ MovesAtVenue(o) /\ OpensLate(o)
  <2>1. CASE FillLot(o)
    <3>1. /\ IsOpen(o) /\ venue[o].filled + 1 \in 0..Lots
          /\ venue'[o].state \in {"open", "closed"}
          /\ venue'[o].filled = venue[o].filled + 1
          /\ venue'[o].late = venue[o].late
      BY <1>1, <2>1 DEF VenueOrder
    <3> QED
      BY <1>1, <2>1, <3>1 DEF MovesAtVenue, OpensLate, VenueOrder, IsOpen, IsDone
  <2>2. CASE VenueCancels(o)
    BY <1>1, <2>2 DEF MovesAtVenue, OpensLate, VenueOrder, IsOpen, IsDone
  <2>3. CASE LandLate(o)
    BY <1>1, <2>3 DEF MovesAtVenue, OpensLate, VenueOrder, IsOpen, IsDone
  <2>4. CASE DropRequest(o)
    BY <1>1, <2>4 DEF MovesAtVenue, OpensLate, VenueOrder, IsOpen, IsDone, NoOrder
  <2> QED
    BY <2>1, <2>2, <2>3, <2>4
<1>3. MovesAtVenue(o) /\ venue' \in [Orders -> VenueOrder]
  BY <1>1, <1>2
<1>4. TypeOK'
  BY <1>3 DEF MovesAtVenue, ExecutionInv, TypeOK, VenueTypeOK, ReconciliationTypeOK
<1>5. CommandFrame' /\ PlacementFrame'
  <2>1. pc \in {"create", "untrack"} => o # Placing
    BY DEF IsOpen, ExecutionInv, BookingInv, PlacementFrame, NoOrder
  <2> QED
    BY <1>3, <2>1 DEF MovesAtVenue, ExecutionInv, BookingInv, CommandFrame, Reconciling, PlacementFrame,
                      Placing, Tracked
<1>6. ClearedFrame'
  <2>1. \A p \in Orders : (IsOpen(p)' /\ ~venue'[p].late) => IsOpen(p) /\ ~venue[p].late
    BY <1>2, <1>3 DEF MovesAtVenue, OpensLate, IsOpen
  <2> QED
    BY <1>3, <2>1 DEF MovesAtVenue, ExecutionInv, ClearedFrame, Placing
<1> QED
  BY <1>2, <1>4, <1>5, <1>6, VenueMoves DEF ExecutionInv, BookingInv, Books

LEMMA IntervalElapsesInv ==
  ASSUME ExecutionInv, NEW s \in Symbols, IntervalElapses(s)
  PROVE  ExecutionInv'
<1> USE DEF IntervalElapses, venueVars, frameVars, executionVars, planVars, auditVars
<1>1. TypeOK'
  BY DEF ExecutionInv, TypeOK, VenueTypeOK, ReconciliationTypeOK
<1>2. CommandFrame' /\ PlacementFrame' /\ ClearedFrame'
  BY DEF ExecutionInv, BookingInv, CommandFrame, Reconciling, PlacementFrame, ClearedFrame, Placing, Tracked, IsOpen
<1> QED
  BY <1>1, <1>2, QuietSteps DEF ExecutionInv, BookingInv, NothingHeld, Books

----------------------------------------------------------------------------
(* Starting and ending a command. *)

LEMMA StartInv ==
  ASSUME ExecutionInv, NEW S \in SUBSET Symbols,
         StartReconcile(S) \/ StartRebalance(S) \/ StartCancel(S)
  PROVE  ExecutionInv'
<1> USE DEF StartReconcile, StartRebalance, StartCancel, TrackedIn, CancelsFor,
            venueVars, storeVars, executionVars, planVars, auditVars
<1>1. TypeOK'
  BY DEF ExecutionInv, TypeOK, VenueTypeOK, ReconciliationTypeOK
<1>2. CommandFrame' /\ PlacementFrame'
  BY DEF ExecutionInv, BookingInv, CommandFrame, Reconciling, PlacementFrame, Placing, Tracked
<1>3. ClearedFrame'
  BY DEF ExecutionInv, BookingInv, CommandFrame, Reconciling, ClearedFrame, Placing, IsOpen
<1> QED
  BY <1>1, <1>2, <1>3, QuietSteps DEF ExecutionInv, BookingInv, NothingHeld, Books

LEMMA ForgetTyped ==
  ASSUME Forget
  PROVE  cont' \in {"idle"} /\ todo' \in SUBSET Orders /\ fetched' \in Snapshot
<1> NoSnapshot \in Snapshot
  BY VenueAssumption DEF NoSnapshot, Snapshot
<1> QED
  BY DEF Forget

(* Ends that change nothing else. *)
LEMMA ForgetInv ==
  ASSUME ExecutionInv, FinishPlacing \/ ReadFails
  PROVE  ExecutionInv'
<1> USE DEF FinishPlacing, ReadFails,
            venueVars, storeVars, executionVars, planVars, auditVars
<1>1. TypeOK'
  BY ForgetTyped DEF ExecutionInv, TypeOK, VenueTypeOK, ReconciliationTypeOK, Forget
<1>2. CommandFrame' /\ PlacementFrame' /\ ClearedFrame'
  BY DEF ExecutionInv, CommandFrame, Reconciling, PlacementFrame, ClearedFrame, Forget
<1> QED
  BY <1>1, <1>2, QuietSteps DEF Forget, ExecutionInv, BookingInv, NothingHeld, Books

----------------------------------------------------------------------------
(* Cancelling. *)

LEMMA ListOpenInv ==
  ASSUME ExecutionInv, NEW s \in Symbols, ListOpen(s)
  PROVE  ExecutionInv'
<1> USE DEF ListOpen, venueVars, storeVars, frameVars, executionVars, planVars, auditVars
<1>1. TypeOK'
  BY DEF ExecutionInv, TypeOK, VenueTypeOK, ReconciliationTypeOK
<1>2. CommandFrame' /\ PlacementFrame' /\ ClearedFrame'
  BY DEF ExecutionInv, BookingInv, CommandFrame, Reconciling, PlacementFrame, ClearedFrame, Tracked, IsOpen
<1> QED
  BY <1>1, <1>2, QuietSteps DEF ExecutionInv, BookingInv, NothingHeld, Books

LEMMA FinishCancellingInv ==
  ASSUME ExecutionInv, FinishCancelling
  PROVE  ExecutionInv'
<1> USE DEF FinishCancelling, venueVars, storeVars, executionVars, planVars, auditVars
<1>1. TypeOK'
  BY DEF ExecutionInv, TypeOK, VenueTypeOK, ReconciliationTypeOK
<1>2. CommandFrame' /\ PlacementFrame' /\ ClearedFrame'
  BY DEF ExecutionInv, BookingInv, CommandFrame, Reconciling, PlacementFrame, ClearedFrame, Tracked, IsOpen
<1> QED
  BY <1>1, <1>2, QuietSteps DEF ExecutionInv, BookingInv, NothingHeld, Books

(* An order is cancelled, and the command goes on or stops. *)
LEMMA CancelInv ==
  ASSUME ExecutionInv, NEW o \in Orders, CancelSucceeds(o) \/ CancelFails(o)
  PROVE  ExecutionInv'
<1> USE DEF CancelSucceeds, CancelFails, Forget,
            storeVars, frameVars, executionVars, planVars, auditVars
<1>1. TypeOK'
  <2>1. VenueTypeOK'
    BY DEF ExecutionInv, TypeOK, VenueTypeOK, VenueOrder
  <2>2. ReconciliationTypeOK'
    BY ForgetTyped DEF ExecutionInv, TypeOK, ReconciliationTypeOK
  <2> QED
    BY <2>1, <2>2 DEF ExecutionInv, TypeOK
<1>2. CommandFrame' /\ PlacementFrame'
  BY DEF ExecutionInv, BookingInv, CommandFrame, Reconciling, PlacementFrame, Tracked
<1>3. CASE CancelFails(o) /\ UNCHANGED venue
  <2>1. ClearedFrame'
    BY <1>3 DEF ExecutionInv, BookingInv, CommandFrame, Reconciling, ClearedFrame, IsOpen
  <2> QED
    BY <1>1, <1>2, <1>3, <2>1, QuietSteps
       DEF ExecutionInv, BookingInv, NothingHeld, Books, venueVars
<1>4. CASE IsOpen(o) /\ venue' = [venue EXCEPT ![o].state = "canceled"]
  <2>1. MovesAtVenue(o) /\ OpensLate(o)
    <3>1. Tracked(o) /\ ~(o >= nextOrder)
      BY <1>4 DEF ExecutionInv, BookingInv, LiveOrdersAreTracked, UnissuedAreUnknown, NoOrder, IsOpen
    <3> QED
      BY <1>4, <3>1, VenueAssumption
         DEF ExecutionInv, TypeOK, VenueTypeOK, VenueOrder, MovesAtVenue, OpensLate, IsOpen, IsDone
  <2>2. ~IsOpen(o)' /\ \A p \in Orders : p # o => venue'[p] = venue[p]
    BY <1>4 DEF ExecutionInv, TypeOK, VenueTypeOK, IsOpen
  <2>3. ClearedFrame'
    BY <2>2 DEF ExecutionInv, BookingInv, CommandFrame, Reconciling, ClearedFrame, IsOpen
  <2> QED
    BY <1>1, <1>2, <2>1, <2>3, VenueMoves DEF ExecutionInv, BookingInv, NothingHeld, Books
<1> QED
  BY <1>3, <1>4

----------------------------------------------------------------------------
(* reconcile(). *)

(* Only one order is next. *)
LEMMA NextIsUnique ==
  ASSUME NEW o \in Orders, NEW p \in Orders, IsNext(o), IsNext(p)
  PROVE  o = p
BY DEF IsNext, Orders

LEMMA ResolveInv ==
  ASSUME ExecutionInv, UNCHANGED executionVars,
         ReturnFromReconcile \/ \E o \in Orders : FindOpen(o) \/ LeaveUnresolved(o)
  PROVE  ExecutionInv'
<1> USE DEF FindOpen, LeaveUnresolved, ReturnFromReconcile,
            venueVars, storeVars, executionVars, planVars, auditVars
<1>1. TypeOK'
  BY DEF ExecutionInv, TypeOK, VenueTypeOK, ReconciliationTypeOK
<1>2. CommandFrame' /\ PlacementFrame'
  BY DEF ExecutionInv, BookingInv, CommandFrame, Reconciling, PlacementFrame, Tracked,
         TypeOK, ReconciliationTypeOK
<1>3. ClearedFrame'
  BY DEF ExecutionInv, ClearedFrame, IsOpen, TypeOK, ReconciliationTypeOK
<1>4. NothingHeld
  BY DEF NothingHeld, ExecutionInv, TypeOK, ReconciliationTypeOK
<1> QED
  BY <1>1, <1>2, <1>3, <1>4, QuietSteps DEF ExecutionInv, BookingInv, Books

(* The three frames of a step from one of reconcile()'s points to another. *)
LEMMA ReconcilingFrames ==
  ASSUME ExecutionInv, Reconciling, Reconciling',
         todo' \in SUBSET todo, \A o \in todo' : Tracked(o)',
         UNCHANGED <<venueVars, executionVars, cont>>
  PROVE  CommandFrame' /\ PlacementFrame' /\ ClearedFrame' /\ OneRestingOrderPerPair'
<1> USE DEF Reconciling, venueVars, executionVars, planVars, auditVars
<1>1. CommandFrame' /\ PlacementFrame'
  BY DEF ExecutionInv, BookingInv, CommandFrame, PlacementFrame
<1>2. ClearedFrame' /\ OneRestingOrderPerPair'
  BY DEF ExecutionInv, ClearedFrame, OneRestingOrderPerPair, IsOpen
<1> QED
  BY <1>1, <1>2

LEMMA FetchOrderInv ==
  ASSUME ExecutionInv, NEW o \in Orders, FetchOrder(o), UNCHANGED executionVars
  PROVE  ExecutionInv'
<1> USE DEF FetchOrder, venueVars, storeVars, executionVars, planVars, auditVars
<1>1. /\ fetched'.filled = venue[o].filled
      /\ fetched'.terminal => IsDone(o)
      /\ fetched' \in Snapshot
  <2>1. fetched'.terminal = IsDone(o)
    BY DEF StatusOf
  <2>2. fetched'.terminal => IsDone(o)
    BY <2>1, Zenon
  <2>3. fetched'.filled = venue[o].filled
    BY DEF StatusOf
  <2>4. fetched' \in Snapshot
    <3>1. venue[o].filled \in 0..Lots
      BY DEF ExecutionInv, TypeOK, VenueTypeOK, VenueOrder
    <3>2. IsDone(o) \in BOOLEAN
      BY DEF IsDone
    <3> QED
      BY <3>1, <3>2 DEF StatusOf, Snapshot
  <2> QED
    BY <2>2, <2>3, <2>4
<1>2. TypeOK'
  BY <1>1 DEF ExecutionInv, TypeOK, VenueTypeOK, ReconciliationTypeOK
<1>3. CommandFrame' /\ PlacementFrame' /\ ClearedFrame' /\ OneRestingOrderPerPair'
  BY ReconcilingFrames DEF Reconciling, ExecutionInv, BookingInv, CommandFrame, Tracked
<1>4. \A p \in Orders : Held(p)' => p = o
  BY NextIsUnique DEF Held, IsNext
<1>5. StatusFrame'
  <2>1. store[o].booked <= venue[o].filled
    BY DEF ExecutionInv, BookingInv, MarkFrame
  <2>2. venue[o].filled \in Nat
    BY VenueAssumption DEF ExecutionInv, TypeOK, VenueTypeOK, VenueOrder
  <2> HIDE DEF FetchOrder
  <2>3. UNCHANGED <<venue, store>>
    BY DEF FetchOrder
  <2> QED
    BY <1>1, <1>4, <2>1, <2>2, <2>3 DEF StatusFrame, IsDone
<1>6. MarkFrame'
  BY DEF MarkFrame, HalfBooked, Tracked, ExecutionInv, BookingInv
<1>7. (UnissuedAreUnknown /\ VenueFrame /\ LiveOrdersAreTracked /\ NoFillLost /\ BookedOnceUnlessTorn)'
  BY DEF ExecutionInv, BookingInv, UnissuedAreUnknown, VenueFrame,
         LiveOrdersAreTracked, NoFillLost, BookedOnceUnlessTorn, Tracked
<1>8. HistoryFrame' /\ FeeFrame'
  BY DEF ExecutionInv, HistoryFrame, FeeFrame, HalfBooked, Tracked
<1> QED
  BY <1>2, <1>3, <1>5, <1>6, <1>7, <1>8 DEF ExecutionInv, BookingInv

LEMMA AppendFillInv ==
  ASSUME ExecutionInv, NEW o \in Orders, AppendFill(o), UNCHANGED executionVars
  PROVE  ExecutionInv'
<1> USE DEF AppendFill, venueVars, executionVars, planVars, auditVars
<1>0. /\ Tracked(o) /\ ~(o >= nextOrder)
      /\ Held(o) /\ ~HalfBooked(o) /\ HalfBooked(o)'
      /\ FeeLines \in Nat /\ FeeLines <= 1 /\ (~fetched.terminal => FeeLines = 0)
      /\ fetched.filled \in Nat /\ store[o].booked \in Nat /\ venue[o].filled \in Nat
      /\ ledger \in [Orders -> Nat] /\ fees \in [Orders -> Nat] /\ history \in [Orders -> Nat]
  <2>1. Tracked(o)
    BY DEF IsNext, ExecutionInv, BookingInv, CommandFrame
  <2>2. ~(o >= nextOrder)
    BY <2>1 DEF ExecutionInv, BookingInv, UnissuedAreUnknown, Absent, Tracked
  <2>3. Held(o) /\ ~HalfBooked(o) /\ HalfBooked(o)'
    BY DEF Held, HalfBooked, IsNext
  <2>4. FeeLines \in Nat /\ FeeLines <= 1 /\ (~fetched.terminal => FeeLines = 0)
    BY DEF FeeLines
  <2>5. fetched.filled \in Nat /\ store[o].booked \in Nat /\ venue[o].filled \in Nat
    BY VenueAssumption
       DEF ExecutionInv, TypeOK, VenueTypeOK, VenueOrder, ReconciliationTypeOK, TrackedRecord, Snapshot
  <2> QED
    BY <2>1, <2>2, <2>3, <2>4, <2>5 DEF ExecutionInv, TypeOK, ReconciliationTypeOK
<1>1. Delta(o) \in Nat /\ Delta(o) = fetched.filled - store[o].booked
  <2>1. Delta(o) = fetched.filled - store[o].booked /\ Delta(o) > 0
    BY DEF Delta
  <2> HIDE DEF AppendFill
  <2> QED
    BY <1>0, <2>1
<1>2. /\ ledger'[o] = ledger[o] + Delta(o) /\ fees'[o] = fees[o] + FeeLines
      /\ \A p \in Orders : p # o => ledger'[p] = ledger[p] /\ fees'[p] = fees[p]
  BY <1>0
<1>3. TypeOK'
  BY <1>0, <1>1 DEF ExecutionInv, TypeOK, VenueTypeOK, ReconciliationTypeOK
<1>4. CommandFrame' /\ PlacementFrame' /\ ClearedFrame' /\ OneRestingOrderPerPair'
  BY ReconcilingFrames DEF Reconciling, ExecutionInv, BookingInv, CommandFrame, Tracked
<1>5. \A p \in Orders : /\ Held(p)' => p = o
                        /\ HalfBooked(p)' => p = o
                        /\ ~HalfBooked(p)
                        /\ Tracked(p)' = Tracked(p)
  BY NextIsUnique DEF Held, HalfBooked, IsNext, Tracked
<1>6. /\ store[o].booked <= fetched.filled
      /\ fetched.filled <= venue[o].filled
      /\ fetched.terminal => IsDone(o) /\ fetched.filled = venue[o].filled
      /\ ledger[o] >= store[o].booked
      /\ o \notin torn => ledger[o] = store[o].booked
  BY <1>0 DEF ExecutionInv, BookingInv, StatusFrame, MarkFrame
<1>7. StatusFrame'
  BY <1>5, <1>6 DEF StatusFrame, IsDone
<1>8. MarkFrame'
  <2> SUFFICES ASSUME NEW p \in Orders
               PROVE  /\ store[p].booked <= venue[p].filled
                      /\ Tracked(p) => ledger'[p] >= store[p].booked
                      /\ HalfBooked(p)' => ledger'[p] >= fetched.filled
                      /\ (p \notin torn /\ HalfBooked(p)') => ledger'[p] = fetched.filled
                      /\ (p \notin torn /\ ~HalfBooked(p)' /\ Tracked(p)) => ledger'[p] = store[p].booked
    BY DEF MarkFrame, Tracked
  <2>1. CASE p = o
    BY <1>0, <1>1, <1>2, <1>6, <2>1 DEF ExecutionInv, BookingInv, MarkFrame
  <2>2. CASE p # o
    BY <1>2, <1>5, <2>2 DEF ExecutionInv, BookingInv, MarkFrame
  <2> QED
    BY <2>1, <2>2
<1>9. (UnissuedAreUnknown /\ VenueFrame /\ LiveOrdersAreTracked)'
  BY <1>0, <1>2 DEF ExecutionInv, BookingInv, UnissuedAreUnknown, VenueFrame, LiveOrdersAreTracked, Tracked
<1>10. (NoFillLost /\ BookedOnceUnlessTorn)'
  BY <1>0, <1>1, <1>2, <1>6 DEF ExecutionInv, BookingInv, NoFillLost, BookedOnceUnlessTorn, Tracked
<1>11. HistoryFrame'
  <2> SUFFICES ASSUME NEW p \in Orders, p \notin torn
               PROVE  ledger'[p] = history[p]
                        + (IF IsNext(p)' /\ pc' \in {"state", "history"} THEN Delta(p)' ELSE 0)
    BY DEF HistoryFrame
  <2>1. ledger[p] = history[p] /\ history[p] \in Nat
    BY <1>0 DEF ExecutionInv, HistoryFrame
  <2>2. IsNext(p)' <=> p = o
    BY NextIsUnique DEF IsNext
  <2>3. Delta(p)' = Delta(p)
    BY DEF Delta
  <2> QED
    BY <1>1, <1>2, <2>1, <2>2, <2>3
<1>12. FeeFrame'
  <2> SUFFICES ASSUME NEW p \in Orders, p \notin torn
               PROVE  /\ fees'[p] <= 1
                      /\ Tracked(p)' => fees'[p] = 0 \/ (HalfBooked(p)' /\ fetched'.terminal)
    BY DEF FeeFrame
  <2>1. fees[p] <= 1 /\ (Tracked(p) => fees[p] = 0)
    BY <1>5 DEF ExecutionInv, FeeFrame
  <2>2. CASE p = o
    BY <1>0, <1>2, <2>1, <2>2
  <2>3. CASE p # o
    BY <1>2, <1>5, <2>1, <2>3
  <2> QED
    BY <2>2, <2>3
<1> QED
  BY <1>3, <1>4, <1>7, <1>8, <1>9, <1>10, <1>11, <1>12 DEF ExecutionInv, BookingInv

LEMMA SaveStateInv ==
  ASSUME ExecutionInv, NEW o \in Orders, SaveState(o), UNCHANGED executionVars
  PROVE  ExecutionInv'
<1> USE DEF SaveState, venueVars, executionVars, planVars, auditVars
<1>1. TypeOK'
  BY DEF ExecutionInv, TypeOK, VenueTypeOK, ReconciliationTypeOK
<1>2. CommandFrame' /\ PlacementFrame' /\ ClearedFrame' /\ OneRestingOrderPerPair'
  BY ReconcilingFrames DEF Reconciling, ExecutionInv, BookingInv, CommandFrame, Tracked
<1>3. \A p \in Orders : (Held(p)' <=> Held(p)) /\ (HalfBooked(p)' <=> HalfBooked(p))
  BY DEF Held, HalfBooked, IsNext
<1>4. (StatusFrame /\ MarkFrame)'
  BY <1>3 DEF ExecutionInv, BookingInv, StatusFrame, MarkFrame, IsDone, Tracked
<1>5. (UnissuedAreUnknown /\ VenueFrame /\ LiveOrdersAreTracked /\ NoFillLost /\ BookedOnceUnlessTorn)'
  BY DEF ExecutionInv, BookingInv, UnissuedAreUnknown, VenueFrame,
         LiveOrdersAreTracked, NoFillLost, BookedOnceUnlessTorn, Tracked
<1>6. HistoryFrame' /\ FeeFrame'
  BY <1>3 DEF ExecutionInv, HistoryFrame, FeeFrame, Tracked, Delta, IsNext
<1> QED
  BY <1>1, <1>2, <1>4, <1>5, <1>6 DEF ExecutionInv, BookingInv

LEMMA AppendEventInv ==
  ASSUME ExecutionInv, NEW o \in Orders, AppendEvent(o), UNCHANGED executionVars
  PROVE  ExecutionInv'
<1> USE DEF AppendEvent, venueVars, executionVars, planVars, auditVars
<1>0. /\ ~(o >= nextOrder) /\ Held(o)
      /\ fetched.filled \in Nat /\ store[o].booked \in Nat
      /\ history \in [Orders -> Nat]
  <2>1. Tracked(o)
    BY DEF IsNext, ExecutionInv, BookingInv, CommandFrame
  <2>2. ~(o >= nextOrder)
    BY <2>1 DEF ExecutionInv, BookingInv, UnissuedAreUnknown, Absent, Tracked
  <2>3. fetched.filled \in Nat /\ store[o].booked \in Nat
    BY VenueAssumption DEF ExecutionInv, TypeOK, ReconciliationTypeOK, TrackedRecord, Snapshot
  <2> QED
    BY <2>2, <2>3 DEF ExecutionInv, TypeOK, ReconciliationTypeOK, Held
<1>1. Delta(o) \in Nat
  <2>1. store[o].booked <= fetched.filled
    BY <1>0 DEF ExecutionInv, BookingInv, StatusFrame
  <2> HIDE DEF AppendEvent
  <2> QED
    BY <1>0, <2>1 DEF Delta
<1>2. /\ history'[o] = history[o] + Delta(o)
      /\ \A p \in Orders : p # o => history'[p] = history[p]
  BY <1>0
<1>3. TypeOK'
  BY <1>0, <1>1 DEF ExecutionInv, TypeOK, VenueTypeOK, ReconciliationTypeOK
<1>4. CommandFrame' /\ PlacementFrame' /\ ClearedFrame' /\ OneRestingOrderPerPair'
  BY ReconcilingFrames DEF Reconciling, ExecutionInv, BookingInv, CommandFrame, Tracked
<1>5. \A p \in Orders : (Held(p)' <=> Held(p)) /\ (HalfBooked(p)' <=> HalfBooked(p))
  BY DEF Held, HalfBooked, IsNext
<1>6. (StatusFrame /\ MarkFrame)'
  BY <1>5 DEF ExecutionInv, BookingInv, StatusFrame, MarkFrame, IsDone, Tracked
<1>7. (UnissuedAreUnknown /\ VenueFrame /\ LiveOrdersAreTracked /\ NoFillLost /\ BookedOnceUnlessTorn)'
  BY <1>0, <1>2 DEF ExecutionInv, BookingInv, UnissuedAreUnknown, VenueFrame,
         LiveOrdersAreTracked, NoFillLost, BookedOnceUnlessTorn, Tracked
<1>8. HistoryFrame'
  <2> SUFFICES ASSUME NEW p \in Orders, p \notin torn
               PROVE  ledger[p] = history'[p]
    BY <1>0, <1>1, <1>2 DEF HistoryFrame
  <2>1. CASE p = o
    BY <1>1, <1>2, <2>1 DEF ExecutionInv, HistoryFrame
  <2>2. CASE p # o
    <3>1. ~IsNext(p)
      BY <2>2, NextIsUnique
    <3> QED
      BY <1>0, <1>2, <2>2, <3>1 DEF ExecutionInv, HistoryFrame
  <2> QED
    BY <2>1, <2>2
<1>9. FeeFrame'
  BY <1>5 DEF ExecutionInv, FeeFrame, Tracked
<1> QED
  BY <1>3, <1>4, <1>6, <1>7, <1>8, <1>9 DEF ExecutionInv, BookingInv

LEMMA AdvanceRecordInv ==
  ASSUME ExecutionInv, NEW o \in Orders, AdvanceRecord(o), UNCHANGED executionVars
  PROVE  ExecutionInv'
<1> USE DEF AdvanceRecord, venueVars, executionVars, planVars, auditVars
<1>0. /\ o \in todo /\ Tracked(o) /\ ~(o >= nextOrder) /\ Held(o)
      /\ store \in [Orders -> TrackedRecord]
      /\ fetched \in Snapshot /\ fetched.filled \in Nat
      /\ store[o].booked \in Nat /\ ledger[o] \in Nat /\ venue[o].filled \in Nat
  <2>1. o \in todo /\ Tracked(o) /\ Held(o)
    BY DEF IsNext, Held, ExecutionInv, BookingInv, CommandFrame
  <2>2. ~(o >= nextOrder)
    BY <2>1 DEF ExecutionInv, BookingInv, UnissuedAreUnknown, Absent, Tracked
  <2>3. fetched.filled \in Nat /\ store[o].booked \in Nat /\ venue[o].filled \in Nat
    BY VenueAssumption
       DEF ExecutionInv, TypeOK, VenueTypeOK, VenueOrder, ReconciliationTypeOK, TrackedRecord, Snapshot
  <2> QED
    BY <2>1, <2>2, <2>3 DEF ExecutionInv, TypeOK, ReconciliationTypeOK
<1>1. /\ RecordAfter(o) \in TrackedRecord
      /\ fetched.terminal => ~RecordAfter(o).tracked /\ RecordAfter(o).booked = 0
      /\ ~fetched.terminal => RecordAfter(o).tracked /\ RecordAfter(o).booked = fetched.filled
  <2>1. CASE fetched.terminal
    BY <2>1, VenueAssumption DEF RecordAfter, Absent, TrackedRecord
  <2>2. CASE ~fetched.terminal
    BY <1>0, <2>2 DEF RecordAfter, TrackedRecord, Snapshot
  <2> QED
    BY <2>1, <2>2
<1>2. /\ store'[o] = RecordAfter(o)
      /\ \A p \in Orders : p # o => store'[p] = store[p]
  BY <1>0
<1>3. TypeOK'
  <2>1. NoSnapshot \in Snapshot
    BY VenueAssumption DEF NoSnapshot, Snapshot
  <2> QED
    BY <1>0, <1>1, <2>1 DEF ExecutionInv, TypeOK, VenueTypeOK, ReconciliationTypeOK
<1>4. CommandFrame' /\ PlacementFrame' /\ ClearedFrame' /\ OneRestingOrderPerPair'
  <2>1. \A p \in todo' : Tracked(p)'
    BY <1>2 DEF Tracked, ExecutionInv, BookingInv, CommandFrame, TypeOK, ReconciliationTypeOK
  <2> QED
    BY <2>1, ReconcilingFrames DEF Reconciling
<1>5. /\ store[o].booked <= fetched.filled
      /\ fetched.filled <= venue[o].filled
      /\ fetched.terminal => IsDone(o) /\ fetched.filled = venue[o].filled
      /\ ledger[o] >= fetched.filled
      /\ o \notin torn => ledger[o] = fetched.filled
  <2>1. /\ store[o].booked <= fetched.filled
        /\ fetched.filled <= venue[o].filled
        /\ fetched.terminal => IsDone(o) /\ fetched.filled = venue[o].filled
    BY <1>0 DEF ExecutionInv, BookingInv, StatusFrame
  <2>2. CASE pc = "advance"
    BY <2>1, <2>2 DEF ExecutionInv, BookingInv, MarkFrame, HalfBooked
  <2>3. CASE pc = "book"
    <3>1. ~HalfBooked(o) /\ fetched.filled = store[o].booked
      BY <1>0, <2>1, <2>3 DEF HalfBooked, Delta
    <3> QED
      BY <1>0, <2>1, <3>1 DEF ExecutionInv, BookingInv, MarkFrame
  <2> QED
    BY <2>2, <2>3
<1>6. \A p \in Orders : ~Held(p)' /\ ~HalfBooked(p)' /\ (p # o => ~HalfBooked(p))
  BY NextIsUnique DEF Held, HalfBooked
<1>7. StatusFrame'
  BY <1>6 DEF StatusFrame
<1>8. MarkFrame'
  <2> SUFFICES ASSUME NEW p \in Orders
               PROVE  /\ store'[p].booked <= venue[p].filled
                      /\ Tracked(p)' => ledger[p] >= store'[p].booked
                      /\ (p \notin torn /\ Tracked(p)') => ledger[p] = store'[p].booked
    BY <1>6 DEF MarkFrame
  <2>1. CASE p = o
    BY <1>0, <1>1, <1>2, <1>5, <2>1 DEF Tracked
  <2>2. CASE p # o
    BY <1>2, <1>6, <2>2 DEF ExecutionInv, BookingInv, MarkFrame, Tracked
  <2> QED
    BY <2>1, <2>2
<1>9. (UnissuedAreUnknown /\ VenueFrame /\ LiveOrdersAreTracked)'
  BY <1>0, <1>1, <1>2, <1>5
     DEF ExecutionInv, BookingInv, UnissuedAreUnknown, VenueFrame, LiveOrdersAreTracked, Tracked, IsDone
<1>10. (NoFillLost /\ BookedOnceUnlessTorn)'
  <2>1. NoFillLost'
    BY <1>1, <1>2, <1>5 DEF ExecutionInv, BookingInv, NoFillLost, Tracked
  <2> QED
    BY <2>1 DEF ExecutionInv, BookingInv, BookedOnceUnlessTorn
<1>11. HistoryFrame'
  <2> SUFFICES ASSUME NEW p \in Orders, p \notin torn
               PROVE  ledger[p] = history[p]
    BY DEF HistoryFrame, ExecutionInv, TypeOK, ReconciliationTypeOK
  <2> QED
    BY DEF ExecutionInv, HistoryFrame, TypeOK, ReconciliationTypeOK
<1>12. FeeFrame'
  <2> SUFFICES ASSUME NEW p \in Orders, p \notin torn
               PROVE  fees[p] <= 1 /\ (Tracked(p)' => fees[p] = 0)
    BY DEF FeeFrame
  <2>1. CASE p = o
    BY <1>0, <1>1, <1>2, <2>1 DEF ExecutionInv, FeeFrame, Tracked
  <2>2. CASE p # o
    BY <1>2, <1>6, <2>2 DEF ExecutionInv, FeeFrame, Tracked
  <2> QED
    BY <2>1, <2>2
<1> QED
  BY <1>3, <1>4, <1>7, <1>8, <1>9, <1>10, <1>11, <1>12 DEF ExecutionInv, BookingInv

----------------------------------------------------------------------------
(* Placing. *)

LEMMA PutUnconfirmedInv ==
  ASSUME ExecutionInv, NEW s \in Symbols, PutUnconfirmed(s)
  PROVE  ExecutionInv'
<1> USE DEF PutUnconfirmed, planVars, auditVars
<1>0. /\ nextOrder \in Orders /\ nextOrder \in Nat /\ MaxOrders \in Nat
      /\ venue[nextOrder] = NoOrder /\ symbolOf[nextOrder] = NoSymbol
      /\ store[nextOrder] = Absent
      /\ ledger[nextOrder] = 0 /\ fees[nextOrder] = 0 /\ history[nextOrder] = 0
      /\ store \in [Orders -> TrackedRecord] /\ symbolOf \in [Orders -> Symbols \cup {NoSymbol}]
      /\ todo = {} /\ todo' = {}
  BY VenueAssumption
     DEF ExecutionInv, BookingInv, UnissuedAreUnknown, CommandFrame, Reconciling, TypeOK, VenueTypeOK,
         ReconciliationTypeOK, Orders
<1>1. /\ store'[nextOrder] = Unconfirmed /\ symbolOf'[nextOrder] = s
      /\ \A p \in Orders : p # nextOrder => store'[p] = store[p] /\ symbolOf'[p] = symbolOf[p]
  BY <1>0
<1>2. TypeOK'
  <2>1. Unconfirmed \in TrackedRecord
    BY VenueAssumption DEF Unconfirmed, TrackedRecord
  <2> QED
    BY <1>0, <2>1 DEF ExecutionInv, TypeOK, VenueTypeOK, ReconciliationTypeOK, Orders
<1>3. CommandFrame'
  BY <1>0 DEF ExecutionInv, BookingInv, CommandFrame, Reconciling
<1>4. PlacementFrame' /\ (Placing' = nextOrder)
  BY <1>0, <1>1 DEF PlacementFrame, Placing
<1>5. UnissuedAreUnknown'
  BY <1>0, <1>1 DEF ExecutionInv, BookingInv, UnissuedAreUnknown, Orders
<1>6. \A p \in Orders : ~Held(p)' /\ ~HalfBooked(p)' /\ ~HalfBooked(p)
  BY <1>0 DEF Held, HalfBooked
<1>7. (VenueFrame /\ StatusFrame)'
  BY <1>6 DEF ExecutionInv, BookingInv, VenueFrame, StatusFrame
<1>8. \A p \in Orders : store'[p].booked = store[p].booked /\ (Tracked(p) => Tracked(p)')
  BY <1>0, <1>1 DEF Unconfirmed, Absent, Tracked
<1>9. MarkFrame'
  <2> SUFFICES ASSUME NEW p \in Orders
               PROVE  /\ store'[p].booked <= venue[p].filled
                      /\ Tracked(p)' => ledger[p] >= store'[p].booked
                      /\ (p \notin torn /\ Tracked(p)') => ledger[p] = store'[p].booked
    BY <1>6 DEF MarkFrame
  <2>1. CASE p = nextOrder
    BY <1>0, <1>1, <2>1 DEF Unconfirmed, NoOrder
  <2>2. CASE p # nextOrder
    BY <1>1, <1>6, <2>2 DEF ExecutionInv, BookingInv, MarkFrame, Tracked
  <2> QED
    BY <2>1, <2>2
<1>10. (LiveOrdersAreTracked /\ NoFillLost /\ BookedOnceUnlessTorn)'
  BY <1>8 DEF ExecutionInv, BookingInv, LiveOrdersAreTracked, NoFillLost, BookedOnceUnlessTorn
<1>11. (HistoryFrame /\ FeeFrame)'
  <2>1. HistoryFrame'
    BY <1>0 DEF ExecutionInv, HistoryFrame, IsNext
  <2> SUFFICES ASSUME NEW p \in Orders, p \notin torn
               PROVE  fees[p] <= 1 /\ (Tracked(p)' => fees[p] = 0)
    BY <2>1 DEF FeeFrame
  <2>2. CASE p = nextOrder
    BY <1>0, <2>2
  <2>3. CASE p # nextOrder
    BY <1>1, <1>6, <2>3 DEF ExecutionInv, FeeFrame, Tracked
  <2> QED
    BY <2>2, <2>3
<1>12. \A p \in Orders : IsOpen(p) => p # nextOrder /\ symbolOf'[p] = symbolOf[p]
  BY <1>0, <1>1 DEF IsOpen, NoOrder
<1>13. ClearedFrame'
  <2>1. toScan = {} /\ doomed = {}
    BY DEF ExecutionInv, ClearedFrame
  <2>2. \A p \in Orders : (IsOpen(p) /\ symbolOf[p] \in toPlace) => venue[p].late
    BY <2>1 DEF ExecutionInv, ClearedFrame
  <2> QED
    BY <1>1, <1>4, <1>12, <2>1, <2>2 DEF ClearedFrame, IsOpen
<1>14. OneRestingOrderPerPair'
  BY <1>12 DEF ExecutionInv, OneRestingOrderPerPair, IsOpen
<1> QED
  BY <1>2, <1>3, <1>4, <1>5, <1>7, <1>9, <1>10, <1>11, <1>13, <1>14 DEF ExecutionInv, BookingInv

LEMMA CreateSucceedsInv ==
  ASSUME ExecutionInv, CreateSucceeds
  PROVE  ExecutionInv'
<1> USE DEF CreateSucceeds, storeVars, executionVars, planVars, auditVars
<1>0. /\ Placing \in Orders /\ Placing' = Placing
      /\ store[Placing] = Unconfirmed /\ symbolOf[Placing] \notin toPlace
      /\ venue[Placing] = NoOrder
      /\ venue'[Placing] = NewOrder
      /\ \A p \in Orders : p # Placing => venue'[p] = venue[p]
  BY DEF ExecutionInv, BookingInv, PlacementFrame, Placing, TypeOK, VenueTypeOK
<1>1. TypeOK'
  <2>1. NewOrder \in VenueOrder
    BY VenueAssumption DEF NewOrder, VenueOrder
  <2> QED
    BY <2>1 DEF ExecutionInv, TypeOK, VenueTypeOK, ReconciliationTypeOK
<1>2. MovesAtVenue(Placing)
  <2>1. Tracked(Placing) /\ ~(Placing >= nextOrder)
    BY <1>0 DEF Unconfirmed, Tracked, Placing, ExecutionInv, TypeOK
  <2> QED
    BY <1>0, <2>1 DEF MovesAtVenue, NoOrder, NewOrder, IsDone
<1>3. CommandFrame'
  BY DEF ExecutionInv, BookingInv, CommandFrame, Reconciling
<1>4. PlacementFrame'
  BY <1>0 DEF PlacementFrame, Placing
<1>5. ClearedFrame'
  <2>1. \A p \in Orders : (IsOpen(p)' /\ symbolOf[p] \in toPlace) => p # Placing /\ IsOpen(p)
    BY <1>0 DEF IsOpen
  <2> QED
    BY <1>0, <2>1 DEF ExecutionInv, ClearedFrame
<1>6. OneRestingOrderPerPair'
  <2> SUFFICES ASSUME NEW p \in Orders, NEW q \in Orders, p # q,
                      IsOpen(p)', IsOpen(q)', symbolOf[p] = symbolOf[q]
               PROVE  venue'[p].late \/ venue'[q].late
    BY DEF OneRestingOrderPerPair
  <2>1. \A r \in Orders : (IsOpen(r)' /\ r # Placing) =>
            /\ IsOpen(r) /\ venue'[r].late = venue[r].late
            /\ symbolOf[r] = symbolOf[Placing] => venue[r].late
    BY <1>0 DEF IsOpen, ExecutionInv, ClearedFrame
  <2> QED
    BY <2>1 DEF ExecutionInv, OneRestingOrderPerPair
<1> QED
  BY <1>0, <1>1, <1>2, <1>3, <1>4, <1>5, <1>6, VenueMoves
     DEF ExecutionInv, BookingInv, NothingHeld, Books

LEMMA CreateRejectedInv ==
  ASSUME ExecutionInv, CreateRejected
  PROVE  ExecutionInv'
<1> USE DEF CreateRejected, venueVars, storeVars, executionVars, planVars, auditVars
<1>1. TypeOK'
  BY DEF ExecutionInv, TypeOK, VenueTypeOK, ReconciliationTypeOK
<1>2. CommandFrame' /\ PlacementFrame' /\ ClearedFrame'
  BY DEF ExecutionInv, BookingInv, CommandFrame, Reconciling, PlacementFrame, ClearedFrame, Placing, IsOpen
<1> QED
  BY <1>1, <1>2, QuietSteps DEF ExecutionInv, BookingInv, NothingHeld, Books

(* The placement request is left on its way, by the venue's silence or by a
   kill. *)
LEMMA UnansweredMoves ==
  ASSUME ExecutionInv, pc = "create", venue' = [venue EXCEPT ![Placing] = InFlight],
         symbolOf' = symbolOf
  PROVE  /\ Placing \in Orders /\ MovesAtVenue(Placing) /\ OpensLate(Placing)
         /\ VenueTypeOK'
         /\ \A p \in Orders : IsOpen(p)' => IsOpen(p) /\ venue'[p] = venue[p]
<1>1. /\ Placing \in Orders /\ store[Placing] = Unconfirmed /\ venue[Placing] = NoOrder
  BY DEF ExecutionInv, BookingInv, PlacementFrame
<1>2. /\ venue \in [Orders -> VenueOrder]
      /\ venue'[Placing] = InFlight
      /\ \A p \in Orders : p # Placing => venue'[p] = venue[p]
  BY <1>1 DEF ExecutionInv, TypeOK, VenueTypeOK
<1>3. ~(Placing >= nextOrder)
  BY DEF Placing, ExecutionInv, TypeOK
<1>4. VenueTypeOK'
  <2>1. InFlight \in VenueOrder
    BY VenueAssumption DEF InFlight, VenueOrder
  <2> QED
    BY <2>1 DEF ExecutionInv, TypeOK, VenueTypeOK
<1>5. MovesAtVenue(Placing)
  <2>1. Tracked(Placing) /\ ~IsDone(Placing)
    BY <1>1 DEF Unconfirmed, Tracked, IsDone, NoOrder
  <2>2. venue'[Placing].filled = 0 /\ venue[Placing].filled = 0
    BY <1>1, <1>2 DEF NoOrder, InFlight
  <2> QED
    BY <1>2, <1>3, <2>1, <2>2 DEF MovesAtVenue
<1>6. venue'[Placing].state = "inflight"
  BY <1>2 DEF InFlight
<1>7. OpensLate(Placing)
  BY <1>6 DEF OpensLate
<1> QED
  BY <1>1, <1>2, <1>4, <1>5, <1>6, <1>7 DEF IsOpen

LEMMA CreateUnansweredInv ==
  ASSUME ExecutionInv, CreateUnanswered
  PROVE  ExecutionInv'
<1> USE DEF CreateUnanswered, storeVars, executionVars, planVars, auditVars
<1>1. /\ Placing \in Orders /\ MovesAtVenue(Placing) /\ OpensLate(Placing)
      /\ VenueTypeOK'
      /\ \A p \in Orders : IsOpen(p)' => IsOpen(p) /\ venue'[p] = venue[p]
  BY UnansweredMoves
<1>2. TypeOK'
  BY <1>1 DEF ExecutionInv, TypeOK, ReconciliationTypeOK
<1>3. CommandFrame' /\ PlacementFrame' /\ ClearedFrame'
  BY <1>1 DEF ExecutionInv, BookingInv, CommandFrame, Reconciling, PlacementFrame, ClearedFrame
<1> QED
  BY <1>1, <1>2, <1>3, VenueMoves DEF ExecutionInv, BookingInv, NothingHeld, Books

LEMMA RemoveRejectedInv ==
  ASSUME ExecutionInv, RemoveRejected
  PROVE  ExecutionInv'
<1> USE DEF RemoveRejected, venueVars, executionVars, planVars, auditVars
<1>0. /\ Placing \in Orders
      /\ store[Placing] = Unconfirmed /\ venue[Placing] = NoOrder
      /\ store'[Placing] = Absent
      /\ \A p \in Orders : p # Placing => store'[p] = store[p]
      /\ ledger[Placing] \in Nat
      /\ todo = {} /\ todo' = {}
  BY DEF ExecutionInv, BookingInv, CommandFrame, Reconciling, PlacementFrame, Placing,
         TypeOK, ReconciliationTypeOK
<1>1. TypeOK'
  <2>1. Absent \in TrackedRecord
    BY VenueAssumption DEF Absent, TrackedRecord
  <2> QED
    BY <2>1 DEF ExecutionInv, TypeOK, VenueTypeOK, ReconciliationTypeOK
<1>2. CommandFrame' /\ PlacementFrame' /\ ClearedFrame' /\ OneRestingOrderPerPair'
  BY <1>0 DEF ExecutionInv, BookingInv, CommandFrame, Reconciling, PlacementFrame, ClearedFrame,
              OneRestingOrderPerPair, IsOpen
<1>3. UnissuedAreUnknown'
  <2>1. \A p \in Orders : p >= nextOrder => p # Placing
    BY DEF Placing, ExecutionInv, TypeOK, Orders
  <2> QED
    BY <1>0, <2>1 DEF ExecutionInv, BookingInv, UnissuedAreUnknown
<1>4. \A p \in Orders : ~Held(p)' /\ ~HalfBooked(p)' /\ ~HalfBooked(p)
  BY <1>0 DEF Held, HalfBooked
<1>5. (VenueFrame /\ StatusFrame)'
  BY <1>4 DEF ExecutionInv, BookingInv, VenueFrame, StatusFrame
<1>6. \A p \in Orders : Tracked(p)' => p # Placing /\ Tracked(p)
  BY <1>0 DEF Absent, Tracked
<1>7. MarkFrame'
  <2> SUFFICES ASSUME NEW p \in Orders
               PROVE  /\ store'[p].booked <= venue[p].filled
                      /\ Tracked(p)' => ledger[p] >= store'[p].booked
                      /\ (p \notin torn /\ Tracked(p)') => ledger[p] = store'[p].booked
    BY <1>4 DEF MarkFrame
  <2>1. CASE p = Placing
    BY <1>0, <2>1 DEF Absent, NoOrder, Tracked
  <2>2. CASE p # Placing
    BY <1>0, <1>4, <2>2 DEF ExecutionInv, BookingInv, MarkFrame, Tracked
  <2> QED
    BY <2>1, <2>2
<1>8. LiveOrdersAreTracked' /\ NoFillLost'
  <2>1. \A p \in Orders : p # Placing => (Tracked(p)' <=> Tracked(p))
    BY <1>0 DEF Tracked
  <2>2. venue[Placing].state = "none" /\ ledger[Placing] >= venue[Placing].filled
    BY <1>0 DEF NoOrder
  <2> QED
    BY <2>1, <2>2 DEF ExecutionInv, BookingInv, LiveOrdersAreTracked, NoFillLost
<1>9. BookedOnceUnlessTorn' /\ HistoryFrame'
  BY <1>0 DEF ExecutionInv, BookingInv, BookedOnceUnlessTorn, HistoryFrame, IsNext
<1>10. FeeFrame'
  BY <1>4, <1>6 DEF ExecutionInv, FeeFrame
<1> QED
  BY <1>1, <1>2, <1>3, <1>5, <1>7, <1>8, <1>9, <1>10 DEF ExecutionInv, BookingInv

LEMMA StampIdInv ==
  ASSUME ExecutionInv, StampId
  PROVE  ExecutionInv'
<1> USE DEF StampId, venueVars, executionVars, planVars, auditVars
<1>0. /\ Placing \in Orders /\ store[Placing] = Unconfirmed
      /\ store'[Placing] = Placed
      /\ \A p \in Orders : p # Placing => store'[p] = store[p]
      /\ todo = {}
  BY DEF ExecutionInv, BookingInv, CommandFrame, Reconciling, PlacementFrame, Placing,
         TypeOK, ReconciliationTypeOK
<1>1. \A p \in Orders : store'[p].booked = store[p].booked /\ (Tracked(p)' <=> Tracked(p))
  BY <1>0 DEF Unconfirmed, Placed, Tracked
<1>2. TypeOK'
  <2>1. Placed \in TrackedRecord
    BY VenueAssumption DEF Placed, TrackedRecord
  <2>2. TrackedIn({symbolOf[Placing]}) \in SUBSET Orders
    BY DEF TrackedIn
  <2> QED
    BY <2>1, <2>2 DEF ExecutionInv, TypeOK, VenueTypeOK, ReconciliationTypeOK
<1>3. CommandFrame' /\ PlacementFrame'
  <2>1. \A p \in todo' : p \in Orders /\ Tracked(p)
    BY DEF TrackedIn
  <2> QED
    BY <1>1, <2>1 DEF CommandFrame, Reconciling, PlacementFrame
<1>4. ClearedFrame' /\ OneRestingOrderPerPair'
  BY DEF ExecutionInv, ClearedFrame, OneRestingOrderPerPair, IsOpen
<1>5. UnissuedAreUnknown'
  <2>1. \A p \in Orders : p >= nextOrder => p # Placing
    BY DEF Placing, ExecutionInv, TypeOK, Orders
  <2> QED
    BY <1>0, <2>1 DEF ExecutionInv, BookingInv, UnissuedAreUnknown
<1>6. \A p \in Orders : ~Held(p)' /\ ~HalfBooked(p)' /\ ~HalfBooked(p)
  BY DEF Held, HalfBooked
<1>7. (VenueFrame /\ StatusFrame /\ MarkFrame)'
  BY <1>1, <1>6 DEF ExecutionInv, BookingInv, VenueFrame, StatusFrame, MarkFrame
<1>8. (LiveOrdersAreTracked /\ NoFillLost /\ BookedOnceUnlessTorn)'
  BY <1>1 DEF ExecutionInv, BookingInv, LiveOrdersAreTracked, NoFillLost, BookedOnceUnlessTorn
<1>9. (HistoryFrame /\ FeeFrame)'
  BY <1>1, <1>6 DEF ExecutionInv, HistoryFrame, FeeFrame
<1> QED
  BY <1>2, <1>3, <1>4, <1>5, <1>7, <1>8, <1>9 DEF ExecutionInv, BookingInv

----------------------------------------------------------------------------
(* A kill. *)

LEMMA CrashInv ==
  ASSUME ExecutionInv, Crash
  PROVE  ExecutionInv'
<1> USE DEF Crash, Killed, Forget, storeVars
<1>1. /\ CommandFrame' /\ PlacementFrame' /\ ClearedFrame'
      /\ cont' = "idle" /\ todo' \in SUBSET Orders /\ fetched' \in Snapshot
      /\ torn' \in SUBSET Orders
  <2>1. CommandFrame' /\ PlacementFrame' /\ ClearedFrame'
    BY DEF CommandFrame, Reconciling, PlacementFrame, ClearedFrame
  <2> QED
    BY <2>1, ForgetTyped DEF ExecutionInv, TypeOK, ReconciliationTypeOK
<1>2. VenueTypeOK' => TypeOK'
  BY <1>1 DEF ExecutionInv, TypeOK, ReconciliationTypeOK
<1>3. CASE UNCHANGED venue
  <2>1. TypeOK'
    BY <1>2, <1>3 DEF ExecutionInv, TypeOK, VenueTypeOK
  <2>2. \A p \in Orders : p \notin torn' => p \notin torn /\ ~HalfBooked(p)
    BY DEF HalfBooked, IsNext
  <2>3. \A p \in Orders : ~Held(p)' /\ ~HalfBooked(p)'
    BY DEF Held, HalfBooked, IsNext
  <2>4. (UnissuedAreUnknown /\ VenueFrame /\ StatusFrame)'
    BY <1>3, <2>3 DEF ExecutionInv, BookingInv, UnissuedAreUnknown, VenueFrame, StatusFrame
  <2>5. MarkFrame'
    BY <1>3, <2>2, <2>3 DEF ExecutionInv, BookingInv, MarkFrame, Tracked
  <2>6. (LiveOrdersAreTracked /\ NoFillLost /\ BookedOnceUnlessTorn)'
    BY <1>3, <2>2 DEF ExecutionInv, BookingInv, LiveOrdersAreTracked, NoFillLost, BookedOnceUnlessTorn, Tracked
  <2>7. HistoryFrame'
    BY <2>2 DEF ExecutionInv, HistoryFrame, HalfBooked, TypeOK, ReconciliationTypeOK
  <2>8. FeeFrame'
    BY <2>2, <2>3 DEF ExecutionInv, FeeFrame, Tracked
  <2>9. OneRestingOrderPerPair'
    BY <1>3 DEF ExecutionInv, OneRestingOrderPerPair, IsOpen
  <2> QED
    BY <1>1, <2>1, <2>4, <2>5, <2>6, <2>7, <2>8, <2>9 DEF ExecutionInv, BookingInv
<1>4. CASE pc = "create" /\ venue' = [venue EXCEPT ![nextOrder - 1] = InFlight]
  <2>1. Placing \in Orders /\ MovesAtVenue(Placing) /\ OpensLate(Placing) /\ VenueTypeOK'
    BY <1>4, UnansweredMoves DEF Placing
  <2>2. torn' = torn
    BY <1>4
  <2> QED
    BY <1>1, <1>2, <1>4, <2>1, <2>2, VenueMoves DEF ExecutionInv, BookingInv, NothingHeld, Books
<1> QED
  BY <1>3, <1>4

----------------------------------------------------------------------------

(* No step leaves the invariant. *)
LEMMA NextInv ==
  ASSUME ExecutionInv, [Next]_vars
  PROVE  ExecutionInv'
<1>1. CASE Environment
  BY <1>1, VenueStepInv, IntervalElapsesInv DEF Environment
<1>2. CASE Start
  BY <1>2, StartInv DEF Start
<1>3. CASE Reconcile
  <2>1. CASE ReturnFromReconcile /\ UNCHANGED executionVars
    BY <2>1, ResolveInv
  <2>2. ASSUME NEW o \in Orders, ReconcileOrder(o), UNCHANGED executionVars
        PROVE  ExecutionInv'
    <3>1. CASE FindOpen(o) \/ LeaveUnresolved(o)
      BY <2>2, <3>1, ResolveInv
    <3>2. CASE FetchOrder(o)
      BY <2>2, <3>2, FetchOrderInv
    <3>3. CASE AppendFill(o)
      BY <2>2, <3>3, AppendFillInv
    <3>4. CASE SaveState(o)
      BY <2>2, <3>4, SaveStateInv
    <3>5. CASE AppendEvent(o)
      BY <2>2, <3>5, AppendEventInv
    <3>6. CASE AdvanceRecord(o)
      BY <2>2, <3>6, AdvanceRecordInv
    <3> QED
      BY <2>2, <3>1, <3>2, <3>3, <3>4, <3>5, <3>6 DEF ReconcileOrder
  <2> QED
    BY <1>3, <2>1, <2>2 DEF Reconcile
<1>4. CASE CancelOrders
  BY <1>4, ListOpenInv, CancelInv, FinishCancellingInv DEF CancelOrders
<1>5. CASE Place
  BY <1>5, PutUnconfirmedInv, CreateSucceedsInv, CreateRejectedInv, RemoveRejectedInv,
     CreateUnansweredInv, StampIdInv, ForgetInv DEF Place
<1>6. CASE ReadFails
  BY <1>6, ForgetInv
<1>7. CASE Crash
  BY <1>7, CrashInv
<1>8. CASE UNCHANGED vars
  BY <1>8 DEF vars, venueVars, storeVars, frameVars, executionVars, planVars, auditVars,
     ExecutionInv, TypeOK, VenueTypeOK, ReconciliationTypeOK, BookingInv, UnissuedAreUnknown,
     CommandFrame, Reconciling, PlacementFrame, Placing, VenueFrame, StatusFrame, MarkFrame,
     LiveOrdersAreTracked, NoFillLost, BookedOnceUnlessTorn, HistoryFrame, FeeFrame, ClearedFrame,
     OneRestingOrderPerPair, Held, HalfBooked, IsNext, Tracked, IsOpen, IsDone, Delta
<1> QED
  BY <1>1, <1>2, <1>3, <1>4, <1>5, <1>6, <1>7, <1>8 DEF Next

(* The invariant holds throughout, for all constants. *)
THEOREM Invariance == Spec => []ExecutionInv
<1>1. Init => ExecutionInv
  BY InitInv
<1>2. ExecutionInv /\ [Next]_vars => ExecutionInv'
  BY NextInv
<1> QED
  BY <1>1, <1>2, PTL DEF Spec

(* Every variable stays in its range. *)
THEOREM TypeCorrect == Spec => []TypeOK
<1>1. ExecutionInv => TypeOK
  BY DEF ExecutionInv
<1> QED
  BY <1>1, Invariance, PTL

(* Write-ahead tracking: whatever way commands end, an order that rests at
   the venue or may still reach it is in open_orders.json. *)
THEOREM WriteAhead == Spec => []LiveOrdersAreTracked
<1>1. ExecutionInv => LiveOrdersAreTracked
  BY DEF ExecutionInv, BookingInv
<1> QED
  BY <1>1, Invariance, PTL

(* An order that is let go has all it traded in the ledger. *)
THEOREM NothingIsLost == Spec => []NoFillLost
<1>1. ExecutionInv => NoFillLost
  BY DEF ExecutionInv, BookingInv
<1> QED
  BY <1>1, Invariance, PTL

(* Outside a torn booking nothing is booked twice. *)
THEOREM NothingIsBookedTwice == Spec => []BookedOnceUnlessTorn
<1>1. ExecutionInv => BookedOnceUnlessTorn
  BY DEF ExecutionInv, BookingInv
<1> QED
  BY <1>1, Invariance, PTL

(* Cancel-and-replace leaves one resting order per pair, up to orders that
   came late. *)
THEOREM CancelAndReplace == Spec => []OneRestingOrderPerPair
<1>1. ExecutionInv => OneRestingOrderPerPair
  BY DEF ExecutionInv
<1> QED
  BY <1>1, Invariance, PTL

(* Between commands the audit log and the ledger agree, and no fee is in the
   ledger twice. *)
THEOREM AuditAgrees == Spec => [](HistoryAgreesWithLedger /\ FeeBookedAtMostOnce)
<1>1. ExecutionInv => HistoryAgreesWithLedger /\ FeeBookedAtMostOnce
  <2> SUFFICES ASSUME ExecutionInv PROVE HistoryAgreesWithLedger /\ FeeBookedAtMostOnce
    OBVIOUS
  <2>1. FeeBookedAtMostOnce
    BY DEF ExecutionInv, FeeFrame, FeeBookedAtMostOnce
  <2>2. \A o \in Orders : history[o] \in Nat
    BY DEF ExecutionInv, TypeOK, ReconciliationTypeOK
  <2>3. HistoryAgreesWithLedger
    BY <2>2 DEF ExecutionInv, HistoryFrame, HistoryAgreesWithLedger
  <2> QED
    BY <2>1, <2>3
<1> QED
  BY <1>1, Invariance, PTL

----------------------------------------------------------------------------
(* 2. Execution implements FillAccounting: every step, under every          *)
(* interleaving of fills, failed requests and kills, is a step of the       *)
(* abstract bookkeeping or invisible to it.                                 *)

Phases == [o \in Orders |-> PhaseOf(o)]
Executed == [o \in Orders |-> IF o \in torn THEN 0 ELSE venue[o].filled]
Booked == [o \in Orders |-> IF o \in torn THEN 0 ELSE ledger[o]]

(* What the abstract specification sees has not changed. *)
Unseen == Executed' = Executed /\ Booked' = Booked /\ Phases' = Phases

(* A step of the abstract specification, or none. *)
Seen == Accounting!AccountingNext \/ Unseen

LEMMA UnseenSteps ==
  ASSUME UNCHANGED <<ledger, nextOrder, torn>>,
         \A o \in Orders : /\ venue'[o].filled = venue[o].filled
                           /\ Tracked(o)' <=> Tracked(o)
                           /\ IsDone(o)' <=> IsDone(o)
  PROVE  Unseen
<1>1. \A o \in Orders : PhaseOf(o)' = PhaseOf(o)
  BY DEF PhaseOf
<1> QED
  BY <1>1 DEF Unseen, Phases, Executed, Booked

(* Nor do the steps of an order whose booking was torn. *)
LEMMA TornUnseen ==
  ASSUME NEW o \in torn, UNCHANGED <<nextOrder, torn>>,
         \A p \in Orders : p # o =>
            venue'[p] = venue[p] /\ store'[p] = store[p] /\ ledger'[p] = ledger[p]
  PROVE  Unseen
<1>1. \A p \in Orders : PhaseOf(p)' = PhaseOf(p)
  BY DEF PhaseOf, Tracked, IsDone
<1>2. Executed' = Executed /\ Booked' = Booked
  BY DEF Executed, Booked
<1> QED
  BY <1>1, <1>2 DEF Unseen, Phases

(* The phases of the orders other than o. *)
LEMMA OtherPhases ==
  ASSUME NEW o \in Orders, UNCHANGED <<nextOrder, torn>>,
         \A p \in Orders : p # o => venue'[p] = venue[p] /\ store'[p] = store[p]
  PROVE  \A p \in Orders : p # o => PhaseOf(p)' = PhaseOf(p)
BY DEF PhaseOf, Tracked, IsDone

----------------------------------------------------------------------------
(* What a kill finds: an order in the middle of its booking has had new     *)
(* quantity written, so an order whose booking was torn has traded.         *)
TearFrame ==
    /\ \A o \in Orders : HalfBooked(o) => store[o].booked < fetched.filled
    /\ \A o \in torn : venue[o].filled > 0

(* A booking begins with AppendFill; no other step leads into one. *)
LEMMA StillHalfBooked ==
  ASSUME ExecutionInv, [Next]_vars, NEW p \in Orders, HalfBooked(p)',
         ~(\E o \in Orders : AppendFill(o))
  PROVE  HalfBooked(p) /\ UNCHANGED <<store, fetched>>
<1> USE DEF HalfBooked, IsNext
<1>1. CASE Environment \/ UNCHANGED vars
  BY <1>1 DEF Environment, IntervalElapses, vars, storeVars, frameVars
<1>2. CASE Start \/ ReadFails \/ Crash
  BY <1>2 DEF Start, StartReconcile, StartRebalance, StartCancel, ReadFails, Crash, Killed, Forget
<1>3. CASE Reconcile
  <2>1. CASE ReturnFromReconcile
    BY <2>1 DEF ReturnFromReconcile, ExecutionInv, TypeOK, ReconciliationTypeOK
  <2>2. ASSUME NEW o \in Orders, ReconcileOrder(o)
        PROVE  HalfBooked(p) /\ UNCHANGED <<store, fetched>>
    BY <2>2 DEF ReconcileOrder, FindOpen, LeaveUnresolved, FetchOrder, SaveState, AppendEvent,
                AdvanceRecord, storeVars
  <2> QED
    BY <1>3, <2>1, <2>2 DEF Reconcile
<1>4. CASE CancelOrders
  BY <1>4 DEF CancelOrders, ListOpen, CancelSucceeds, CancelFails, FinishCancelling, Forget, frameVars
<1>5. CASE Place
  BY <1>5 DEF Place, PutUnconfirmed, CreateSucceeds, CreateRejected, RemoveRejected, CreateUnanswered,
              StampId, FinishPlacing, Forget
<1> QED
  BY <1>1, <1>2, <1>3, <1>4, <1>5 DEF Next

(* What has traded goes on having traded. *)
LEMMA TradedStays ==
  ASSUME ExecutionInv, [Next]_vars, NEW p \in Orders, venue[p].filled > 0
  PROVE  venue'[p].filled > 0
<1>0. /\ venue \in [Orders -> VenueOrder]
      /\ \A q \in Orders : venue[q].filled \in Nat
  BY VenueAssumption DEF ExecutionInv, TypeOK, VenueTypeOK, VenueOrder
<1>1. CASE UNCHANGED venue
  BY <1>1
<1>2. ASSUME NEW o \in Orders, VenueStep(o)
      PROVE  venue'[p].filled > 0
  <2>1. CASE FillLot(o) \/ VenueCancels(o)
    BY <1>0, <2>1 DEF FillLot, VenueCancels, VenueOrder
  <2>2. CASE LandLate(o) \/ DropRequest(o)
    <3>1. venue[o].filled = 0
      BY <2>2 DEF LandLate, DropRequest, ExecutionInv, BookingInv, VenueFrame
    <3> QED
      BY <1>0, <2>2, <3>1 DEF LandLate, DropRequest
  <2> QED
    BY <1>2, <2>1, <2>2 DEF VenueStep
<1>3. ASSUME NEW o \in Orders, CancelSucceeds(o) \/ CancelFails(o)
      PROVE  venue'[p].filled > 0
  BY <1>0, <1>3 DEF CancelSucceeds, CancelFails, VenueOrder
<1>4. CASE pc = "create" /\ \E r \in {NewOrder, InFlight} : venue' = [venue EXCEPT ![Placing] = r]
  <2>1. Placing \in Orders /\ venue[Placing] = NoOrder
    BY <1>4 DEF ExecutionInv, BookingInv, PlacementFrame
  <2>2. p # Placing
    BY <2>1 DEF NoOrder
  <2> QED
    BY <1>0, <1>4, <2>2
<1> QED
  <2>1. CASE Environment \/ UNCHANGED vars
    BY <1>1, <1>2, <2>1 DEF Environment, IntervalElapses, vars, venueVars
  <2>2. CASE Start \/ ReadFails
    BY <1>1, <2>2 DEF Start, StartReconcile, StartRebalance, StartCancel, ReadFails, venueVars
  <2>3. CASE Reconcile
    BY <1>1, <2>3 DEF Reconcile, ReturnFromReconcile, ReconcileOrder, FindOpen, LeaveUnresolved, FetchOrder,
                      AppendFill, SaveState, AppendEvent, AdvanceRecord, venueVars
  <2>4. CASE CancelOrders
    BY <1>1, <1>3, <2>4 DEF CancelOrders, ListOpen, FinishCancelling, venueVars
  <2>5. CASE Place
    BY <1>1, <1>4, <2>5 DEF Place, PutUnconfirmed, CreateSucceeds, CreateRejected, RemoveRejected,
                            CreateUnanswered, StampId, FinishPlacing, venueVars
  <2>6. CASE Crash
    BY <1>1, <1>4, <2>6 DEF Crash, Placing
  <2> QED
    BY <2>1, <2>2, <2>3, <2>4, <2>5, <2>6 DEF Next

LEMMA OnlyKillsTear ==
  ASSUME [Next]_vars, ~Crash
  PROVE  torn' = torn
BY DEF Next, Environment, Start, Reconcile, CancelOrders, Place, IntervalElapses,
   StartReconcile, StartRebalance, StartCancel, ListOpen, CancelSucceeds, CancelFails, FinishCancelling,
   PutUnconfirmed, CreateSucceeds, CreateRejected, RemoveRejected, CreateUnanswered, StampId,
   FinishPlacing, ReadFails, executionVars, auditVars, vars

LEMMA TearFrameInv ==
  ASSUME ExecutionInv, TearFrame, [Next]_vars
  PROVE  TearFrame'
<1>1. ASSUME NEW p \in Orders, HalfBooked(p)'
      PROVE  store'[p].booked < fetched'.filled
  <2>1. ASSUME NEW o \in Orders, AppendFill(o)
        PROVE  store'[p].booked < fetched'.filled
    <3>1. p = o /\ store' = store /\ fetched' = fetched /\ Delta(o) > 0
      <4>1. IsNext(p) /\ IsNext(o)
        BY <1>1, <2>1 DEF HalfBooked, IsNext, AppendFill
      <4> QED
        BY <2>1, <4>1, NextIsUnique DEF AppendFill
    <3>2. store[o].booked \in Nat /\ fetched.filled \in Nat
      BY VenueAssumption DEF ExecutionInv, TypeOK, ReconciliationTypeOK, TrackedRecord, Snapshot
    <3> QED
      BY <3>1, <3>2 DEF Delta
  <2>2. CASE ~(\E o \in Orders : AppendFill(o))
    BY <1>1, <2>2, StillHalfBooked DEF TearFrame
  <2> QED
    BY <2>1, <2>2
<1>2. ASSUME NEW p \in torn'
      PROVE  venue[p].filled > 0 /\ p \in Orders
  <2>1. CASE p \in torn
    BY <2>1 DEF TearFrame, ExecutionInv, TypeOK
  <2>2. CASE p \notin torn
    <3>1. Crash
      BY <1>2, <2>2, OnlyKillsTear
    <3>2. p \in Orders /\ HalfBooked(p)
      BY <1>2, <2>2, <3>1 DEF Crash, Killed, HalfBooked, ExecutionInv, TypeOK, ReconciliationTypeOK
    <3>3. store[p].booked < fetched.filled /\ fetched.filled <= venue[p].filled
      BY <3>2 DEF TearFrame, ExecutionInv, BookingInv, StatusFrame, Held, HalfBooked
    <3>4. store[p].booked \in Nat /\ fetched.filled \in Nat /\ venue[p].filled \in Nat
      BY <3>2, VenueAssumption
         DEF ExecutionInv, TypeOK, VenueTypeOK, VenueOrder, ReconciliationTypeOK, TrackedRecord, Snapshot
    <3> QED
      BY <3>2, <3>3, <3>4
  <2> QED
    BY <2>1, <2>2
<1> QED
  BY <1>1, <1>2, TradedStays DEF TearFrame

----------------------------------------------------------------------------

LEMMA FillSeen ==
  ASSUME ExecutionInv, NEW o \in Orders, o \notin torn, FillLot(o), UNCHANGED <<storeVars, frameVars, executionVars>>
  PROVE  Accounting!ExecuteLot(o)
<1> USE DEF storeVars, frameVars, executionVars, planVars, auditVars
<1>1. /\ venue \in [Orders -> VenueOrder] /\ IsOpen(o)
      /\ Tracked(o) /\ ~(o >= nextOrder) /\ Tracked(o)'
  BY DEF FillLot, IsOpen, ExecutionInv, BookingInv, LiveOrdersAreTracked, UnissuedAreUnknown, NoOrder,
         TypeOK, VenueTypeOK, Tracked
<1>2. /\ venue'[o].filled = venue[o].filled + 1 /\ venue[o].filled < Lots
      /\ venue'[o].state = IF venue[o].filled + 1 = Lots THEN "closed" ELSE "open"
      /\ \A p \in Orders : p # o => venue'[p] = venue[p]
  BY <1>1 DEF FillLot
<1>3. PhaseOf(o) = "working"
  BY <1>1 DEF PhaseOf, IsDone, IsOpen
<1>4. PhaseOf(o)' = IF venue[o].filled + 1 = Lots THEN "finished" ELSE "working"
  BY <1>1, <1>2 DEF PhaseOf, IsDone
<1>5. Phases' = [Phases EXCEPT ![o] = IF venue[o].filled + 1 = Lots THEN "finished" ELSE "working"]
  <2>1. \A p \in Orders : p # o => PhaseOf(p)' = PhaseOf(p)
    BY <1>2, OtherPhases
  <2> QED
    BY <1>4, <2>1 DEF Phases
<1>6. Executed' = [Executed EXCEPT ![o] = Executed[o] + 1] /\ Booked' = Booked
  BY <1>2 DEF Executed, Booked
<1> QED
  BY <1>2, <1>3, <1>5, <1>6 DEF Accounting!ExecuteLot, Phases, Executed, Booked

(* An open order is cancelled, by the venue or by the tool. *)
LEMMA CancelSeen ==
  ASSUME ExecutionInv, NEW o \in Orders, o \notin torn, IsOpen(o),
         venue' = [venue EXCEPT ![o].state = "canceled"],
         UNCHANGED <<store, ledger, nextOrder, torn>>
  PROVE  Accounting!Close(o)
<1>1. /\ venue \in [Orders -> VenueOrder]
      /\ Tracked(o) /\ ~(o >= nextOrder) /\ Tracked(o)'
  BY DEF IsOpen, ExecutionInv, BookingInv, LiveOrdersAreTracked, UnissuedAreUnknown, NoOrder,
         TypeOK, VenueTypeOK, Tracked
<1>2. /\ venue'[o].state = "canceled" /\ venue'[o].filled = venue[o].filled
      /\ \A p \in Orders : p # o => venue'[p] = venue[p]
  BY <1>1 DEF VenueOrder
<1>3. PhaseOf(o) = "working" /\ PhaseOf(o)' = "finished"
  BY <1>1, <1>2 DEF PhaseOf, IsDone, IsOpen
<1>4. Phases' = [Phases EXCEPT ![o] = "finished"]
  <2>1. \A p \in Orders : p # o => PhaseOf(p)' = PhaseOf(p)
    BY <1>2, OtherPhases
  <2> QED
    BY <1>3, <2>1 DEF Phases
<1>5. Executed' = Executed /\ Booked' = Booked
  BY <1>2 DEF Executed, Booked
<1> QED
  BY <1>3, <1>4, <1>5 DEF Accounting!Close, Phases, Executed, Booked

(* The fate of an unanswered placement is not seen. *)
LEMMA LateUnseen ==
  ASSUME ExecutionInv, NEW o \in Orders, LandLate(o) \/ DropRequest(o),
         UNCHANGED <<store, ledger, nextOrder, torn>>
  PROVE  Unseen
<1>1. venue \in [Orders -> VenueOrder] /\ venue[o].filled = 0 /\ venue[o].state = "inflight"
  BY DEF LandLate, DropRequest, ExecutionInv, BookingInv, VenueFrame, TypeOK, VenueTypeOK
<1>2. /\ venue'[o].filled = 0 /\ venue'[o].state \in {"none", "open"}
      /\ \A p \in Orders : p # o => venue'[p] = venue[p]
  BY <1>1 DEF LandLate, DropRequest, NoOrder
<1> QED
  BY <1>1, <1>2, UnseenSteps DEF IsDone, Tracked

(* Nor is what the venue makes of one, answered or not. *)
LEMMA InFlightUnseen ==
  ASSUME ExecutionInv, pc = "create", NEW r \in {NewOrder, InFlight},
         venue' = [venue EXCEPT ![Placing] = r], UNCHANGED <<store, ledger, nextOrder, torn>>
  PROVE  Unseen
<1>1. Placing \in Orders /\ venue[Placing] = NoOrder /\ venue \in [Orders -> VenueOrder]
  BY DEF ExecutionInv, BookingInv, PlacementFrame, TypeOK, VenueTypeOK
<1>2. PICK n \in Orders : n = Placing
  BY <1>1
<1>3. /\ venue[n].filled = 0 /\ ~IsDone(n)
      /\ venue'[n].filled = 0 /\ ~(venue'[n].state \in {"closed", "canceled"})
      /\ \A p \in Orders : p # n => venue'[p] = venue[p]
  <2>1. venue[n].filled = 0 /\ venue[n].state = "none"
    BY <1>1, <1>2 DEF NoOrder
  <2>2. /\ venue'[n] = r
        /\ \A p \in Orders : p # n => venue'[p] = venue[p]
    BY <1>1, <1>2
  <2>3. venue'[n].filled = 0 /\ venue'[n].state \in {"open", "inflight"}
    BY <2>2 DEF NewOrder, InFlight
  <2> QED
    BY <2>1, <2>2, <2>3 DEF IsDone
<1> QED
  BY <1>3, UnseenSteps DEF IsDone, Tracked

LEMMA CreateUnseen ==
  ASSUME ExecutionInv, CreateSucceeds \/ CreateUnanswered
  PROVE  Unseen
BY InFlightUnseen DEF CreateSucceeds, CreateUnanswered, storeVars, executionVars, auditVars

LEMMA PutSeen ==
  ASSUME ExecutionInv, TearFrame, NEW s \in Symbols, PutUnconfirmed(s)
  PROVE  Accounting!Register(nextOrder)
<1> USE DEF PutUnconfirmed, auditVars
<1>0. nextOrder \in Orders /\ nextOrder \in Nat /\ venue[nextOrder] = NoOrder
      /\ store \in [Orders -> TrackedRecord]
  BY VenueAssumption DEF ExecutionInv, BookingInv, UnissuedAreUnknown, TypeOK, ReconciliationTypeOK, Orders
<1>1. PICK n \in Orders : n = nextOrder
  BY <1>0
<1>2. /\ store'[n] = Unconfirmed /\ venue[n].state = "none"
      /\ \A p \in Orders : p # n => store'[p] = store[p]
  BY <1>0, <1>1 DEF NoOrder
<1>3. PhaseOf(n) = "new" /\ PhaseOf(n)' = "working"
  <2>1. ~(n >= nextOrder') /\ n >= nextOrder /\ n \notin torn
    BY <1>0, <1>1 DEF TearFrame, NoOrder
  <2>2. Tracked(n)' /\ ~IsDone(n)'
    BY <1>2 DEF Unconfirmed, Tracked, IsDone
  <2> QED
    BY <2>1, <2>2 DEF PhaseOf
<1>4. Phases' = [Phases EXCEPT ![n] = "working"]
  <2>1. \A p \in Orders : p # n => PhaseOf(p)' = PhaseOf(p)
    BY <1>0, <1>1, <1>2 DEF PhaseOf, Tracked, IsDone, Orders
  <2> QED
    BY <1>3, <2>1 DEF Phases
<1>5. Executed' = Executed /\ Booked' = Booked
  BY DEF Executed, Booked
<1> QED
  BY <1>1, <1>3, <1>4, <1>5 DEF Accounting!Register, Phases, Executed, Booked

LEMMA RemoveSeen ==
  ASSUME ExecutionInv, TearFrame, RemoveRejected
  PROVE  \E o \in Orders : Accounting!Discard(o)
<1> USE DEF RemoveRejected, venueVars, executionVars, auditVars
<1>0. /\ Placing \in Orders /\ venue[Placing] = NoOrder /\ store[Placing] = Unconfirmed
      /\ store \in [Orders -> TrackedRecord] /\ nextOrder \in Nat
  BY DEF ExecutionInv, BookingInv, PlacementFrame, TypeOK, ReconciliationTypeOK
<1>1. PICK n \in Orders : n = Placing
  BY <1>0
<1>2. /\ store'[n] = Absent /\ venue[n].state = "none" /\ venue[n].filled = 0
      /\ store[n] = Unconfirmed
      /\ \A p \in Orders : p # n => store'[p] = store[p]
      /\ ~(n >= nextOrder) /\ n \notin torn
  BY <1>0, <1>1 DEF NoOrder, Placing, TearFrame
<1>3. PhaseOf(n) = "working" /\ PhaseOf(n)' = "discarded"
  <2>1. Tracked(n) /\ ~Tracked(n)' /\ ~IsDone(n) /\ ~IsDone(n)'
    BY <1>2 DEF Unconfirmed, Absent, Tracked, IsDone
  <2> QED
    BY <1>2, <2>1 DEF PhaseOf
<1>4. Phases' = [Phases EXCEPT ![n] = "discarded"]
  <2>1. \A p \in Orders : p # n => PhaseOf(p)' = PhaseOf(p)
    BY <1>2, OtherPhases
  <2> QED
    BY <1>3, <2>1 DEF Phases
<1>5. Executed' = Executed /\ Booked' = Booked
  BY DEF Executed, Booked
<1> QED
  BY <1>2, <1>3, <1>4, <1>5 DEF Accounting!Discard, Phases, Executed, Booked

LEMMA StampUnseen ==
  ASSUME ExecutionInv, StampId
  PROVE  Unseen
<1> USE DEF StampId, venueVars, executionVars, auditVars
<1>0. /\ Placing \in Orders /\ store[Placing] = Unconfirmed /\ store \in [Orders -> TrackedRecord]
  BY DEF ExecutionInv, BookingInv, PlacementFrame, TypeOK, ReconciliationTypeOK
<1>1. \A p \in Orders : Tracked(p)' <=> Tracked(p)
  BY <1>0 DEF Unconfirmed, Placed, Tracked
<1> QED
  BY <1>1, UnseenSteps DEF IsDone

LEMMA AppendFillSeen ==
  ASSUME ExecutionInv, ExecutionInv',
         NEW o \in Orders, o \notin torn, AppendFill(o), UNCHANGED executionVars
  PROVE  Accounting!Book(o)
<1> USE DEF AppendFill, venueVars, executionVars, auditVars
<1>1. Tracked(o) /\ ~(o >= nextOrder)
  BY DEF IsNext, ExecutionInv, BookingInv, CommandFrame, UnissuedAreUnknown, Absent, Tracked
<1>2. PhaseOf(o) \in {"working", "finished"}
  BY <1>1 DEF PhaseOf
<1>3. ledger \in [Orders -> Nat] /\ ledger[o] \in Nat /\ Delta(o) \in Int /\ venue[o].filled \in Nat
  <2>1. store[o].booked \in Nat /\ fetched.filled \in Nat /\ venue[o].filled \in Nat
    BY VenueAssumption
       DEF ExecutionInv, TypeOK, VenueTypeOK, VenueOrder, ReconciliationTypeOK, TrackedRecord, Snapshot
  <2> QED
    BY <2>1 DEF Delta, ExecutionInv, TypeOK, ReconciliationTypeOK
<1>4. ledger' = [ledger EXCEPT ![o] = ledger[o] + Delta(o)] /\ Delta(o) > 0
  OBVIOUS
<1>5. ledger[o] + Delta(o) \in (Booked[o] + 1)..Executed[o]
  <2>1. ledger'[o] <= venue[o].filled
    BY DEF ExecutionInv, BookingInv, BookedOnceUnlessTorn
  <2>2. ledger'[o] = ledger[o] + Delta(o)
    BY <1>3, <1>4
  <2> HIDE DEF AppendFill
  <2> QED
    BY <1>3, <1>4, <2>1, <2>2 DEF Executed, Booked
<1>6. Executed' = Executed /\ Phases' = Phases
  BY DEF Executed, Phases, PhaseOf, Tracked, IsDone
<1>7. Booked' = [Booked EXCEPT ![o] = ledger[o] + Delta(o)]
  BY <1>3 DEF Booked
<1> HIDE DEF AppendFill
<1> QED
  BY <1>2, <1>5, <1>6, <1>7 DEF Accounting!Book, Phases, Executed, Booked

LEMMA AdvanceSeen ==
  ASSUME ExecutionInv, ExecutionInv',
         NEW o \in Orders, o \notin torn, AdvanceRecord(o), UNCHANGED executionVars
  PROVE  Accounting!Settle(o) \/ Unseen
<1> USE DEF AdvanceRecord, venueVars, executionVars, auditVars
<1>1. /\ Tracked(o) /\ ~(o >= nextOrder) /\ Held(o)
      /\ store \in [Orders -> TrackedRecord]
  BY DEF IsNext, Held, ExecutionInv, BookingInv, CommandFrame, UnissuedAreUnknown, Absent, Tracked,
         TypeOK, ReconciliationTypeOK
<1>2. /\ store'[o] = RecordAfter(o)
      /\ \A p \in Orders : p # o => store'[p] = store[p]
  BY <1>1
<1>3. CASE fetched.terminal
  <2>1. ~Tracked(o)' /\ IsDone(o)
    BY <1>1, <1>2, <1>3 DEF RecordAfter, Absent, Tracked, ExecutionInv, BookingInv, StatusFrame
  <2>2. PhaseOf(o) = "finished" /\ PhaseOf(o)' = "settled"
    BY <1>1, <2>1 DEF PhaseOf, IsDone
  <2>3. Phases' = [Phases EXCEPT ![o] = "settled"]
    <3>1. \A p \in Orders : p # o => PhaseOf(p)' = PhaseOf(p)
      BY <1>2, OtherPhases
    <3> QED
      BY <2>2, <3>1 DEF Phases
  <2>4. ledger[o] = venue[o].filled
    <3>1. ledger[o] >= venue[o].filled /\ ledger[o] <= venue[o].filled
      BY <2>1 DEF ExecutionInv, BookingInv, NoFillLost, BookedOnceUnlessTorn
    <3>2. ledger[o] \in Nat /\ venue[o].filled \in Nat
      BY VenueAssumption DEF ExecutionInv, TypeOK, VenueTypeOK, VenueOrder, ReconciliationTypeOK
    <3> HIDE DEF AdvanceRecord
    <3> QED
      BY <3>1, <3>2
  <2>5. Executed' = Executed /\ Booked' = Booked
    BY DEF Executed, Booked
  <2> QED
    BY <2>2, <2>3, <2>4, <2>5 DEF Accounting!Settle, Phases, Executed, Booked
<1>4. CASE ~fetched.terminal
  <2>1. \A p \in Orders : Tracked(p)' <=> Tracked(p)
    BY <1>1, <1>2, <1>4 DEF RecordAfter, Tracked
  <2> QED
    BY <2>1, UnseenSteps DEF IsDone
<1> QED
  BY <1>3, <1>4

(* The steps that touch neither the venue's orders nor what is booked. *)
LEMMA OtherUnseen ==
  ASSUME ExecutionInv,
         \/ \E s \in Symbols : IntervalElapses(s) \/ ListOpen(s)
         \/ Start \/ FinishCancelling \/ CreateRejected \/ FinishPlacing \/ ReadFails
         \/ /\ ReturnFromReconcile \/ \E o \in Orders :
                  FindOpen(o) \/ LeaveUnresolved(o) \/ FetchOrder(o) \/ SaveState(o) \/ AppendEvent(o)
            /\ UNCHANGED executionVars
         \/ UNCHANGED vars
  PROVE  Unseen
<1>1. UNCHANGED <<venue, store, ledger, nextOrder, torn>>
  BY DEF IntervalElapses, ListOpen, Start, StartReconcile, StartRebalance, StartCancel, FinishCancelling,
         CreateRejected, FinishPlacing, ReadFails, ReturnFromReconcile, FindOpen, LeaveUnresolved,
         FetchOrder, SaveState, AppendEvent,
         vars, venueVars, storeVars, frameVars, executionVars, planVars, auditVars
<1> QED
  BY <1>1, UnseenSteps DEF Tracked, IsDone

(* The steps on one order, torn or not. *)
LEMMA VenueStepSeen ==
  ASSUME ExecutionInv, NEW o \in Orders, VenueStep(o),
         UNCHANGED <<storeVars, frameVars, executionVars>>
  PROVE  Seen
<1>1. UNCHANGED <<store, ledger, nextOrder, torn>>
  BY DEF storeVars, executionVars, auditVars
<1>2. CASE o \in torn
  <2>1. \A p \in Orders : p # o => venue'[p] = venue[p]
    BY DEF VenueStep, FillLot, VenueCancels, LandLate, DropRequest, ExecutionInv, TypeOK, VenueTypeOK
  <2> QED
    BY <1>1, <1>2, <2>1, TornUnseen DEF Seen
<1>3. CASE o \notin torn
  <2>1. CASE FillLot(o)
    BY <1>3, <2>1, FillSeen DEF Seen, Accounting!AccountingNext
  <2>2. CASE VenueCancels(o)
    BY <1>1, <1>3, <2>2, CancelSeen DEF VenueCancels, Seen, Accounting!AccountingNext
  <2>3. CASE LandLate(o) \/ DropRequest(o)
    BY <1>1, <2>3, LateUnseen DEF Seen
  <2> QED
    BY <2>1, <2>2, <2>3 DEF VenueStep
<1> QED
  BY <1>2, <1>3

LEMMA ToolCancelSeen ==
  ASSUME ExecutionInv, NEW o \in Orders, CancelSucceeds(o) \/ CancelFails(o)
  PROVE  Seen
<1>1. UNCHANGED <<store, ledger, nextOrder, torn>>
  BY DEF CancelSucceeds, CancelFails, storeVars, auditVars
<1>2. CASE UNCHANGED venue
  BY <1>1, <1>2, UnseenSteps DEF Tracked, IsDone, Seen
<1>3. CASE IsOpen(o) /\ venue' = [venue EXCEPT ![o].state = "canceled"]
  <2>1. CASE o \in torn
    <3>1. \A p \in Orders : p # o => venue'[p] = venue[p]
      BY <1>3 DEF ExecutionInv, TypeOK, VenueTypeOK
    <3> QED
      BY <1>1, <2>1, <3>1, TornUnseen DEF Seen
  <2>2. CASE o \notin torn
    BY <1>1, <1>3, <2>2, CancelSeen DEF Seen, Accounting!AccountingNext
  <2> QED
    BY <2>1, <2>2
<1> QED
  BY <1>2, <1>3 DEF CancelSucceeds, CancelFails

LEMMA BookingSeen ==
  ASSUME ExecutionInv, ExecutionInv',
         NEW o \in Orders, AppendFill(o) \/ AdvanceRecord(o), UNCHANGED executionVars
  PROVE  Seen
<1>1. CASE o \in torn
  <2>1. /\ UNCHANGED <<venue, nextOrder, torn>>
        /\ \A p \in Orders : p # o => store'[p] = store[p] /\ ledger'[p] = ledger[p]
    BY DEF AppendFill, AdvanceRecord, venueVars, executionVars, auditVars,
           ExecutionInv, TypeOK, ReconciliationTypeOK
  <2> QED
    BY <1>1, <2>1, TornUnseen DEF Seen
<1>2. CASE o \notin torn
  BY <1>2, AppendFillSeen, AdvanceSeen DEF Seen, Accounting!AccountingNext
<1> QED
  BY <1>1, <1>2

(* A kill that tears the booking of o gives it up. *)
LEMMA TearSeen ==
  ASSUME ExecutionInv, TearFrame, NEW o \in Orders, HalfBooked(o), o \notin torn,
         torn' = torn \cup {o}, UNCHANGED <<venue, store, ledger, nextOrder>>
  PROVE  Accounting!Forfeit(o)
<1>1. Tracked(o) /\ ~(o >= nextOrder)
  BY DEF HalfBooked, IsNext, ExecutionInv, BookingInv, CommandFrame, UnissuedAreUnknown, Absent, Tracked
<1>2. PhaseOf(o) \in {"working", "finished"}
  BY <1>1 DEF PhaseOf
<1>3. Booked[o] > 0
  <2>1. ledger[o] >= fetched.filled /\ store[o].booked < fetched.filled
    BY DEF TearFrame, ExecutionInv, BookingInv, MarkFrame
  <2>2. ledger[o] \in Nat /\ store[o].booked \in Nat /\ fetched.filled \in Nat
    BY VenueAssumption DEF ExecutionInv, TypeOK, ReconciliationTypeOK, TrackedRecord, Snapshot
  <2> QED
    BY <2>1, <2>2 DEF Booked
<1>4. /\ Executed' = [Executed EXCEPT ![o] = 0]
      /\ Booked' = [Booked EXCEPT ![o] = 0]
  BY DEF Executed, Booked
<1>5. Phases' = [Phases EXCEPT ![o] = "forfeited"]
  BY DEF Phases, PhaseOf, Tracked, IsDone
<1> QED
  BY <1>2, <1>3, <1>4, <1>5 DEF Accounting!Forfeit, Phases, Executed, Booked

LEMMA CrashSeen ==
  ASSUME ExecutionInv, TearFrame, Crash
  PROVE  Seen
<1>1. UNCHANGED <<store, ledger, nextOrder>>
  BY DEF Crash, Killed, storeVars
<1>2. torn' = torn \cup {p \in todo : HalfBooked(p)}
  BY DEF Crash, Killed, HalfBooked
<1>3. CASE \E p \in todo : HalfBooked(p) /\ p \notin torn
  <2>1. PICK o \in todo : HalfBooked(o) /\ o \notin torn
    BY <1>3
  <2>2. o \in Orders /\ todo \in SUBSET Orders
    BY <2>1 DEF ExecutionInv, TypeOK, ReconciliationTypeOK
  <2>3. torn' = torn \cup {o}
    BY <1>2, <2>1, <2>2, NextIsUnique DEF HalfBooked
  <2>4. UNCHANGED venue
    BY <2>1 DEF HalfBooked, Crash
  <2> QED
    BY <1>1, <2>1, <2>2, <2>3, <2>4, TearSeen DEF Seen, Accounting!AccountingNext
<1>4. CASE ~(\E p \in todo : HalfBooked(p) /\ p \notin torn)
  <2>1. torn' = torn
    BY <1>2, <1>4
  <2>2. CASE UNCHANGED venue
    BY <1>1, <2>1, <2>2, UnseenSteps DEF Tracked, IsDone, Seen
  <2>3. CASE pc = "create" /\ venue' = [venue EXCEPT ![Placing] = InFlight]
    BY <1>1, <2>1, <2>3, InFlightUnseen DEF Seen
  <2> QED
    BY <2>2, <2>3 DEF Crash, Placing
<1> QED
  BY <1>3, <1>4

(* Every step is a step of the abstract specification, or unseen. *)
LEMMA EveryStepSeen ==
  ASSUME ExecutionInv, ExecutionInv', TearFrame, [Next]_vars
  PROVE  Seen
<1>1. CASE Environment
  BY <1>1, VenueStepSeen, OtherUnseen DEF Environment, Seen
<1>2. CASE Start \/ ReadFails \/ UNCHANGED vars
  BY <1>2, OtherUnseen DEF Seen
<1>3. CASE Reconcile
  BY <1>3, BookingSeen, OtherUnseen DEF Reconcile, ReconcileOrder, Seen
<1>4. CASE CancelOrders
  BY <1>4, ToolCancelSeen, OtherUnseen DEF CancelOrders, Seen
<1>5. CASE Place
  <2>1. ASSUME NEW s \in Symbols, PutUnconfirmed(s)
        PROVE  Seen
    <3>1. nextOrder \in Orders
      BY <2>1, VenueAssumption DEF PutUnconfirmed, Orders, ExecutionInv, TypeOK
    <3> QED
      BY <2>1, <3>1, PutSeen DEF Seen, Accounting!AccountingNext
  <2>2. CASE RemoveRejected
    BY <2>2, RemoveSeen DEF Seen, Accounting!AccountingNext
  <2>3. CASE CreateSucceeds \/ CreateUnanswered
    BY <2>3, CreateUnseen DEF Seen
  <2>4. CASE StampId
    BY <2>4, StampUnseen DEF Seen
  <2>5. CASE CreateRejected \/ FinishPlacing
    BY <2>5, OtherUnseen DEF Seen
  <2> QED
    BY <1>5, <2>1, <2>2, <2>3, <2>4, <2>5 DEF Place
<1>6. CASE Crash
  BY <1>6, CrashSeen
<1> QED
  BY <1>1, <1>2, <1>3, <1>4, <1>5, <1>6 DEF Next

(* The reconciler, the order store and the ledger together book everything
   the venue executes exactly once, except for an order whose booking a kill
   has torn: Execution implements FillAccounting. *)
THEOREM Implementation == Spec => BooksExactlyOnce
<1> DEFINE Inv == ExecutionInv /\ TearFrame
<1>1. Init => Inv /\ Accounting!AccountingInit
  <2> SUFFICES ASSUME Init PROVE Inv /\ Accounting!AccountingInit
    OBVIOUS
  <2>1. Inv
    BY InitInv DEF Init, ReconciliationInit, TearFrame, HalfBooked
  <2>2. \A o \in Orders : PhaseOf(o) = "new"
    BY VenueAssumption DEF Init, PhaseOf, Orders
  <2>3. Executed = [o \in Orders |-> 0] /\ Booked = [o \in Orders |-> 0] /\ Phases = [o \in Orders |-> "new"]
    BY <2>2 DEF Init, VenueInit, ReconciliationInit, NoOrder, Executed, Booked, Phases
  <2> QED
    BY <2>1, <2>3 DEF Accounting!AccountingInit, Executed, Booked, Phases
<1>2. Inv /\ [Next]_vars => Inv'
  BY NextInv, TearFrameInv
<1>3. Inv /\ Inv' /\ [Next]_vars => [Accounting!AccountingNext]_(Accounting!accountingVars)
  BY EveryStepSeen DEF Seen, Unseen, Accounting!accountingVars, Executed, Booked, Phases
<1> QED
  BY <1>1, <1>2, <1>3, PTL DEF Spec, BooksExactlyOnce, Accounting!AccountingSpec


----------------------------------------------------------------------------
(* 3. A venue. *)

(* The book's answers to fetch_order are steps of reconcile, or its end. *)
LEMMA PaperReads ==
    ASSUME NEW o \in Orders,
           FillOnFetch(o) \/ FetchPaperOrder(o) \/ UnknownOrder(o) \/ TickerFails(o)
    PROVE  Next
  <1>1. ASSUME FillOnFetch(o)
        PROVE  Environment
    BY <1>1 DEF FillOnFetch, Environment, VenueStep
  <1>2. ASSUME FetchPaperOrder(o)
        PROVE  Reconcile
    BY <1>2 DEF FetchPaperOrder, Reconcile, ReconcileOrder
  <1>3. ASSUME UnknownOrder(o) \/ TickerFails(o)
        PROVE  ReadFails
    BY <1>3 DEF UnknownOrder, TickerFails
  <1> QED
    BY <1>1, <1>2, <1>3 DEF Next

(* The steps of reconcile that ask nothing of the book. *)
LEMMA PaperReconciles ==
    ASSUME PaperReconcile
    PROVE  Next
  <1>1. ASSUME NEW o \in Orders,
               FindOpen(o) \/ LeaveUnresolved(o) \/ AppendFill(o)
                  \/ SaveState(o) \/ AppendEvent(o) \/ AdvanceRecord(o),
               UNCHANGED executionVars
        PROVE  Reconcile
    BY <1>1 DEF Reconcile, ReconcileOrder
  <1>2. ASSUME ReturnFromReconcile, UNCHANGED executionVars
        PROVE  Reconcile
    BY <1>2 DEF Reconcile
  <1> QED
    BY <1>1, <1>2, PaperReads DEF PaperReconcile, Next

(* Cancelling is Execution's, without the failures a venue may have. *)
LEMMA PaperCancels ==
    ASSUME PaperCancel
    PROVE  Next
  BY DEF PaperCancel, CancelOrders, Next

(* Placing is Execution's: the funds check decides between its answers. *)
LEMMA PaperPlaces ==
    ASSUME PaperPlace
    PROVE  Next
  <1>1. ASSUME NEW s \in Symbols, PutPaperOrder(s)
        PROVE  Place
    BY <1>1 DEF PutPaperOrder, Place
  <1>2. ASSUME CreatePaperOrder \/ RejectPaperOrder
        PROVE  Place
    BY <1>2 DEF CreatePaperOrder, RejectPaperOrder, Place
  <1>3. ASSUME RemoveRejected \/ StampId \/ FinishPlacing
        PROVE  Place
    BY <1>3 DEF Place
  <1> QED
    BY <1>1, <1>2, <1>3 DEF PaperPlace, Next

(* What happens around the commands: the market moving changes nothing they
   see, and the book is not seeded again. *)
LEMMA PaperSurroundings ==
    ASSUME PaperEnvironment, resets = 0, MaxResets = 0
    PROVE  [Next]_vars
  <1>1. ASSUME NEW s \in Symbols, MarketMoves(s)
        PROVE  UNCHANGED vars
    BY <1>1 DEF MarketMoves
  <1>2. ASSUME NEW s \in Symbols, IntervalElapses(s)
        PROVE  Next
    BY <1>2 DEF Environment, Next
  <1>3. ~Seed
    BY DEF Seed
  <1> QED
    BY <1>1, <1>2, <1>3 DEF PaperEnvironment

(* Every step of the paper account is one of Execution, or changes nothing of
   it. *)
LEMMA PaperSteps ==
    ASSUME [PaperNext]_allVars, resets = 0, MaxResets = 0
    PROVE  [Next]_vars
  <1>1. CASE UNCHANGED allVars
    BY <1>1 DEF allVars
  <1>2. CASE Start
    BY <1>2 DEF Next
  <1>3. CASE KillPaperCommand
    BY <1>3 DEF KillPaperCommand, Crash, Next
  <1> QED
    BY <1>1, <1>2, <1>3, PaperSurroundings, PaperReconciles, PaperCancels, PaperPlaces
       DEF PaperNext

(* Without resets the counter of resets stays where it is. *)
LEMMA NeverSeeded ==
    ASSUME [PaperNext]_allVars, resets = 0, MaxResets = 0
    PROVE  resets' = 0
  <1>1. CASE UNCHANGED paperVars
    BY <1>1 DEF paperVars
  <1>2. CASE UNCHANGED allVars
    BY <1>1, <1>2 DEF allVars
  <1>3. CASE PaperEnvironment
    <2>1. ~Seed
      BY DEF Seed
    <2>2. ASSUME NEW s \in Symbols, MarketMoves(s)
          PROVE  resets' = 0
      BY <2>2 DEF MarketMoves
    <2> QED
      BY <1>1, <1>3, <2>1, <2>2 DEF PaperEnvironment
  <1>4. CASE PaperReconcile
    <2>1. ASSUME NEW o \in Orders, FillOnFetch(o)
          PROVE  resets' = 0
      BY <2>1 DEF FillOnFetch
    <2>2. ASSUME NEW o \in Orders, FetchPaperOrder(o) \/ UnknownOrder(o) \/ TickerFails(o)
          PROVE  UNCHANGED paperVars
      BY <2>2 DEF FetchPaperOrder, UnknownOrder, TickerFails
    <2> QED
      BY <1>1, <1>4, <2>1, <2>2 DEF PaperReconcile
  <1>5. CASE PaperPlace
    <2>1. ASSUME NEW s \in Symbols, PutPaperOrder(s)
          PROVE  resets' = 0
      BY <2>1 DEF PutPaperOrder
    <2>2. ASSUME CreatePaperOrder
          PROVE  resets' = 0
      BY <2>2 DEF CreatePaperOrder
    <2>3. ASSUME RejectPaperOrder
          PROVE  UNCHANGED paperVars
      BY <2>3 DEF RejectPaperOrder
    <2> QED
      BY <1>1, <1>5, <2>1, <2>2, <2>3 DEF PaperPlace
  <1> QED
    BY <1>1, <1>2, <1>3, <1>4, <1>5 DEF PaperNext, PaperCancel, KillPaperCommand

----------------------------------------------------------------------------

(* A paper account that is never seeded again implements Execution: to the
   commands, the book is a venue (PaperExchangeStore keeps the interface of
   ExchangeStore). *)
THEOREM PaperIsAVenue ==
    ASSUME MaxResets = 0
    PROVE  PaperSpec => Spec
  <1>1. PaperInit => Init /\ resets = 0
    BY DEF PaperInit
  <1>2. resets = 0 /\ [PaperNext]_allVars => [Next]_vars
    BY PaperSteps
  <1>3. resets = 0 /\ [PaperNext]_allVars => (resets = 0)'
    BY NeverSeeded
  <1> QED
    BY <1>1, <1>2, <1>3, PTL DEF PaperSpec, Spec

(* Its orders are therefore tracked, booked and let go as those of a venue:
   no fill is lost, and none is booked twice unless a kill tore the booking. *)
THEOREM PaperBooksAsAVenue ==
    ASSUME MaxResets = 0
    PROVE  PaperSpec => []NoFillLost /\ []BookedOnceUnlessTorn
  BY PaperIsAVenue, NothingIsLost, NothingIsBookedTwice, PTL

----------------------------------------------------------------------------
(* 4. Ids.

   The invariants of Execution are of no use here: a new book is no venue, and
   its orders know nothing of the ledger.  What holds is that a record of the
   old book stops every rebalance before it places, because the reconcile it
   begins with ends in "no paper order"; as long as there is such a record the
   new book stays empty. *)

(* The record of an order that went with an earlier book. *)
Stale(o) == store[o].hasId /\ ~IsKnown(o)

(* The command has orders to place, or is placing one. *)
AboutToPlace == toPlace # {} \/ pc \in {"create", "untrack", "stamp"}

(* Ids not yet issued have no record and no order. *)
UnissuedAreAbsent ==
    \A o \in Orders : o >= nextOrder => ~IsKnown(o) /\ ~Tracked(o)

(* Records are of issued orders, and only records have ids. *)
RecordFrame ==
    \A o \in Orders :
        /\ store[o].hasId => Tracked(o)
        /\ Tracked(o) => symbolOf[o] \in Symbols

(* What a command has in hand at each point. *)
HandFrame ==
    /\ todo \in SUBSET Orders /\ \A o \in todo : Tracked(o)
    /\ ~Reconciling => todo = {}
    /\ cont \in {"idle", "scan", "place"}
    /\ (pc = "idle" \/ (Reconciling /\ cont = "idle")) => toPlace = {}

(* An order past its resolution is one of the book. *)
ReachedFrame ==
    pc \in {"fetch", "book", "state", "history", "advance"} =>
        \A o \in Orders : IsNext(o) => IsKnown(o)

(* The order being placed has a record without an id, and is in the book once
   the book has answered. *)
PlacingFrame ==
    pc \in {"create", "untrack", "stamp"} =>
        /\ Placing \in Orders
        /\ Tracked(Placing) /\ ~store[Placing].hasId
        /\ IsKnown(Placing) <=> pc = "stamp"

(* The orders of a book have different ids, below its counter. *)
BookIds ==
    /\ nextId \in Nat \ {0} /\ paperId \in [Orders -> Nat]
    /\ \A o \in Orders : IsKnown(o) => paperId[o] < nextId
    /\ \A o, p \in Orders : IsKnown(o) /\ IsKnown(p) /\ paperId[o] = paperId[p] => o = p

(* A stale record keeps the book empty: it is before every command that could
   place an order. *)
StaleBlocks ==
    \A o \in Orders : Stale(o) =>
        /\ \A p \in Orders : ~IsKnown(p)
        /\ AboutToPlace => o \in todo

(* All of it: inductive, and NoIdReuseWhileTracked follows from it. *)
IdInv ==
    /\ DOMAIN store = Orders /\ DOMAIN venue = Orders /\ DOMAIN symbolOf = Orders
    /\ nextOrder \in 1..(MaxOrders + 1)
    /\ UnissuedAreAbsent /\ RecordFrame
    /\ HandFrame /\ ReachedFrame /\ PlacingFrame
    /\ BookIds /\ StaleBlocks

----------------------------------------------------------------------------

LEMMA InitIds ==
  ASSUME PaperInit
  PROVE  IdInv
<1> USE DEF PaperInit, Init, VenueInit, ReconciliationInit
<1>1. /\ \A o \in Orders : ~IsKnown(o) /\ ~Tracked(o) /\ ~store[o].hasId
      /\ DOMAIN store = Orders /\ DOMAIN venue = Orders /\ DOMAIN symbolOf = Orders
      /\ nextOrder \in 1..(MaxOrders + 1)
  BY VenueAssumption DEF IsKnown, IsOpen, IsDone, NoOrder, Tracked, Absent
<1>2. HandFrame /\ ReachedFrame /\ PlacingFrame
  BY DEF HandFrame, ReachedFrame, PlacingFrame, Reconciling
<1>3. BookIds
  BY <1>1 DEF BookIds
<1> QED
  BY <1>1, <1>2, <1>3 DEF IdInv, UnissuedAreAbsent, RecordFrame, StaleBlocks, Stale

(* A step that leaves the records alone, and the orders of the book the ones
   they were: what is left to show is about the running command. *)
LEMMA BookKept ==
  ASSUME IdInv,
         UNCHANGED <<store, symbolOf, paperId, nextId, nextOrder>>,
         DOMAIN venue' = Orders,
         \A o \in Orders : IsKnown(o)' <=> IsKnown(o),
         HandFrame', ReachedFrame', PlacingFrame',
         \A o \in Orders : Stale(o) /\ AboutToPlace' => o \in todo'
  PROVE  IdInv'
<1>1. (UnissuedAreAbsent /\ RecordFrame)'
  BY DEF IdInv, UnissuedAreAbsent, RecordFrame, Tracked
<1>2. BookIds'
  BY DEF IdInv, BookIds
<1>3. StaleBlocks'
  BY DEF IdInv, StaleBlocks, Stale
<1> QED
  BY <1>1, <1>2, <1>3 DEF IdInv

(* If the book is left alone altogether, its orders are the ones they were. *)
LEMMA KnownKept ==
  ASSUME IdInv, UNCHANGED venue
  PROVE  DOMAIN venue' = Orders /\ \A o \in Orders : IsKnown(o)' <=> IsKnown(o)
BY DEF IdInv, IsKnown, IsOpen, IsDone

----------------------------------------------------------------------------
(* Steps of a command that change neither records nor book. *)

LEMMA StartIds ==
  ASSUME IdInv, NEW S \in SUBSET Symbols,
         StartReconcile(S) \/ StartRebalance(S) \/ StartCancel(S), UNCHANGED paperVars
  PROVE  IdInv'
<1> USE DEF StartReconcile, StartRebalance, StartCancel, TrackedIn, CancelsFor,
            venueVars, storeVars, executionVars, planVars, auditVars, paperVars, bookVars
<1>1. HandFrame' /\ ReachedFrame' /\ PlacingFrame'
  BY DEF IdInv, HandFrame, ReachedFrame, PlacingFrame, Reconciling, Tracked
<1>2. ASSUME NEW o \in Orders, Stale(o), AboutToPlace'
      PROVE  o \in todo'
  BY <1>2 DEF Stale, AboutToPlace, IdInv, HandFrame, RecordFrame
<1> QED
  BY <1>1, <1>2, KnownKept, BookKept

LEMMA EndIds ==
  ASSUME IdInv, FinishPlacing \/ ReadFails \/ KillPaperCommand, UNCHANGED paperVars
  PROVE  IdInv'
<1> USE DEF FinishPlacing, ReadFails, KillPaperCommand, Killed, Forget,
            venueVars, storeVars, executionVars, planVars, auditVars, paperVars, bookVars
<1>1. HandFrame' /\ ReachedFrame' /\ PlacingFrame'
  BY DEF IdInv, HandFrame, ReachedFrame, PlacingFrame, Reconciling, Tracked
<1>2. ~AboutToPlace'
  BY DEF AboutToPlace
<1> QED
  BY <1>1, <1>2, KnownKept, BookKept

LEMMA ResolveIds ==
  ASSUME IdInv, NEW o \in Orders, FindOpen(o) \/ LeaveUnresolved(o),
         UNCHANGED <<executionVars, paperVars>>
  PROVE  IdInv'
<1> USE DEF FindOpen, LeaveUnresolved,
            venueVars, storeVars, executionVars, planVars, auditVars, paperVars, bookVars
<1>1. HandFrame' /\ PlacingFrame'
  BY DEF IdInv, HandFrame, PlacingFrame, Reconciling, Tracked
<1>2. ReachedFrame'
  BY NextIsUnique DEF ReachedFrame, IsNext, IsKnown, IsOpen, IsDone
<1>3. ASSUME NEW p \in Orders, Stale(p), AboutToPlace'
      PROVE  p \in todo'
  BY <1>3 DEF Stale, AboutToPlace, IdInv, StaleBlocks
<1> QED
  BY <1>1, <1>2, <1>3, KnownKept, BookKept

LEMMA FetchIds ==
  ASSUME IdInv, NEW o \in Orders, FetchPaperOrder(o)
  PROVE  IdInv'
<1> USE DEF FetchPaperOrder, FetchOrder,
            venueVars, storeVars, executionVars, planVars, auditVars, paperVars, bookVars
<1>1. HandFrame' /\ PlacingFrame'
  BY DEF IdInv, HandFrame, PlacingFrame, Reconciling, Tracked
<1>2. ReachedFrame'
  BY NextIsUnique DEF ReachedFrame, IsNext, IsKnown, IsOpen, IsDone
<1>3. ASSUME NEW p \in Orders, Stale(p), AboutToPlace'
      PROVE  p \in todo'
  BY <1>3 DEF Stale, AboutToPlace, IdInv, StaleBlocks
<1> QED
  BY <1>1, <1>2, <1>3, KnownKept, BookKept

(* The steps of a booking before its last. *)
LEMMA BookingIds ==
  ASSUME IdInv, NEW o \in Orders, AppendFill(o) \/ SaveState(o) \/ AppendEvent(o),
         UNCHANGED <<executionVars, paperVars>>
  PROVE  IdInv'
<1> USE DEF AppendFill, SaveState, AppendEvent,
            venueVars, storeVars, executionVars, planVars, auditVars, paperVars, bookVars
<1>1. HandFrame' /\ PlacingFrame'
  BY DEF IdInv, HandFrame, PlacingFrame, Reconciling, Tracked
<1>2. ReachedFrame'
  BY DEF IdInv, ReachedFrame, IsNext, IsKnown, IsOpen, IsDone
<1>3. ASSUME NEW p \in Orders, Stale(p), AboutToPlace'
      PROVE  p \in todo'
  BY <1>3 DEF Stale, AboutToPlace, IdInv, StaleBlocks
<1> QED
  BY <1>1, <1>2, <1>3, KnownKept, BookKept

(* reconcile() has nothing left to do: no stale record was on its list, or it
   would have ended there. *)
LEMMA ReturnIds ==
  ASSUME IdInv, ReturnFromReconcile, UNCHANGED <<executionVars, paperVars>>
  PROVE  IdInv'
<1> USE DEF ReturnFromReconcile,
            venueVars, storeVars, executionVars, planVars, auditVars, paperVars, bookVars
<1>1. HandFrame' /\ ReachedFrame' /\ PlacingFrame'
  BY DEF IdInv, HandFrame, ReachedFrame, PlacingFrame, Reconciling, Tracked
<1>2. ASSUME NEW p \in Orders, Stale(p), AboutToPlace'
      PROVE  p \in todo'
  BY <1>2 DEF Stale, AboutToPlace, IdInv, StaleBlocks, HandFrame
<1> QED
  BY <1>1, <1>2, KnownKept, BookKept

LEMMA ScanIds ==
  ASSUME IdInv, UNCHANGED paperVars,
         FinishCancelling \/ \E s \in Symbols : ListOpen(s)
  PROVE  IdInv'
<1> USE DEF FinishCancelling, ListOpen,
            venueVars, storeVars, frameVars, executionVars, planVars, auditVars, paperVars, bookVars
<1>1. HandFrame' /\ ReachedFrame' /\ PlacingFrame'
  BY DEF IdInv, HandFrame, ReachedFrame, PlacingFrame, Reconciling, Tracked
<1>2. ASSUME NEW p \in Orders, Stale(p), AboutToPlace'
      PROVE  p \in todo'
  BY <1>2 DEF Stale, AboutToPlace, IdInv, StaleBlocks
<1> QED
  BY <1>1, <1>2, KnownKept, BookKept

LEMMA RejectIds ==
  ASSUME IdInv, RejectPaperOrder
  PROVE  IdInv'
<1> USE DEF RejectPaperOrder, CreateRejected,
            venueVars, storeVars, executionVars, planVars, auditVars, paperVars, bookVars
<1>1. HandFrame' /\ ReachedFrame'
  BY DEF IdInv, HandFrame, ReachedFrame, Reconciling, Tracked
<1>2. PlacingFrame'
  BY DEF IdInv, PlacingFrame, Placing, Tracked, IsKnown, IsOpen, IsDone
<1>3. ASSUME NEW p \in Orders, Stale(p), AboutToPlace'
      PROVE  p \in todo'
  BY <1>3 DEF Stale, AboutToPlace, IdInv, StaleBlocks
<1> QED
  BY <1>1, <1>2, <1>3, KnownKept, BookKept

(* What happens around the commands, but for a new book. *)
LEMMA AroundIds ==
  ASSUME IdInv, NEW s \in Symbols,
         MarketMoves(s) \/ (IntervalElapses(s) /\ UNCHANGED paperVars)
  PROVE  IdInv'
<1> USE DEF MarketMoves, IntervalElapses, vars,
            venueVars, storeVars, frameVars, executionVars, planVars, auditVars, paperVars, bookVars
<1>1. HandFrame' /\ ReachedFrame' /\ PlacingFrame'
  BY DEF IdInv, HandFrame, ReachedFrame, PlacingFrame, Reconciling, Placing, Tracked, IsNext,
         IsKnown, IsOpen, IsDone
<1>2. ASSUME NEW p \in Orders, Stale(p), AboutToPlace'
      PROVE  p \in todo'
  BY <1>2 DEF Stale, AboutToPlace, IdInv, StaleBlocks
<1> QED
  BY <1>1, <1>2, KnownKept, BookKept

----------------------------------------------------------------------------
(* Steps that change an order of the book. *)

(* A fill and a cancel leave an order known. *)
LEMMA FillIds ==
  ASSUME IdInv, NEW o \in Orders, FillOnFetch(o)
  PROVE  IdInv'
<1> USE DEF FillOnFetch, FillLot,
            storeVars, frameVars, executionVars, planVars, auditVars
<1>1. DOMAIN venue' = Orders /\ \A p \in Orders : IsKnown(p)' <=> IsKnown(p)
  BY DEF IdInv, IsKnown, IsOpen, IsDone
<1>2. HandFrame' /\ PlacingFrame'
  BY <1>1 DEF IdInv, HandFrame, PlacingFrame, Reconciling, Placing, Tracked
<1>3. ReachedFrame'
  BY <1>1 DEF IdInv, ReachedFrame, IsNext
<1>4. ASSUME NEW p \in Orders, Stale(p), AboutToPlace'
      PROVE  p \in todo'
  BY <1>4 DEF Stale, AboutToPlace, IdInv, StaleBlocks
<1> QED
  BY <1>1, <1>2, <1>3, <1>4, BookKept

LEMMA CancelIds ==
  ASSUME IdInv, NEW o \in Orders, CancelSucceeds(o), UNCHANGED paperVars
  PROVE  IdInv'
<1> USE DEF CancelSucceeds,
            storeVars, frameVars, executionVars, planVars, auditVars, paperVars, bookVars
<1>1. DOMAIN venue' = Orders /\ \A p \in Orders : IsKnown(p)' <=> IsKnown(p)
  BY DEF IdInv, IsKnown, IsOpen, IsDone
<1>2. HandFrame' /\ ReachedFrame' /\ PlacingFrame'
  BY DEF IdInv, HandFrame, ReachedFrame, PlacingFrame, Reconciling, Tracked
<1>3. ASSUME NEW p \in Orders, Stale(p), AboutToPlace'
      PROVE  p \in todo'
  BY <1>3 DEF Stale, AboutToPlace, IdInv, StaleBlocks
<1> QED
  BY <1>1, <1>2, <1>3, BookKept

(* Where an order is placed no record is stale: its reconcile would have
   ended the command. *)
LEMMA NothingStale ==
  ASSUME IdInv, ~Reconciling, AboutToPlace
  PROVE  \A o \in Orders : ~Stale(o)
BY DEF IdInv, HandFrame, StaleBlocks, Tracked

(* The book takes the order up under the next of its ids. *)
LEMMA CreateIds ==
  ASSUME IdInv, CreatePaperOrder
  PROVE  IdInv'
<1> USE DEF CreatePaperOrder, CreateSucceeds,
            storeVars, executionVars, planVars, auditVars
<1>1. /\ Placing \in Orders /\ Placing' = Placing
      /\ Tracked(Placing) /\ ~store[Placing].hasId /\ ~IsKnown(Placing)
  BY DEF IdInv, PlacingFrame, Placing
<1>2. /\ DOMAIN venue' = Orders /\ IsKnown(Placing)'
      /\ \A p \in Orders : p # Placing => (IsKnown(p)' <=> IsKnown(p))
  BY <1>1 DEF IdInv, IsKnown, IsOpen, IsDone, NewOrder
<1>3. /\ nextId \in Nat \ {0} /\ nextId' = nextId + 1
      /\ paperId \in [Orders -> Nat] /\ paperId' \in [Orders -> Nat]
      /\ paperId'[Placing] = nextId
      /\ \A p \in Orders : p # Placing => paperId'[p] = paperId[p]
  BY <1>1 DEF IdInv, BookIds
<1>4. \A o \in Orders : ~Stale(o)
  BY NothingStale DEF Reconciling, AboutToPlace
<1>5. BookIds'
  <2>1. \A p \in Orders : IsKnown(p)' => paperId'[p] < nextId'
    <3> SUFFICES ASSUME NEW p \in Orders, IsKnown(p)'
                 PROVE  paperId'[p] < nextId'
      OBVIOUS
    <3>1. CASE p = Placing
      BY <1>3, <3>1
    <3>2. CASE p # Placing
      <4>1. paperId[p] < nextId /\ paperId[p] \in Nat
        BY <1>2, <1>3, <3>2 DEF IdInv, BookIds
      <4> QED
        BY <1>3, <3>2, <4>1
    <3> QED
      BY <3>1, <3>2
  <2>2. \A p \in Orders : p # Placing /\ IsKnown(p)' => paperId'[p] < nextId
    BY <1>2, <1>3 DEF IdInv, BookIds
  <2>3. ASSUME NEW p \in Orders, NEW q \in Orders, IsKnown(p)', IsKnown(q)',
               paperId'[p] = paperId'[q]
        PROVE  p = q
    <3>1. CASE p # Placing /\ q # Placing
      BY <1>2, <1>3, <2>3, <3>1 DEF IdInv, BookIds
    <3>2. CASE p = Placing \/ q = Placing
      BY <1>3, <2>2, <2>3, <3>2
    <3> QED
      BY <3>1, <3>2
  <2>4. nextId' \in Nat \ {0}
    BY <1>3
  <2> QED
    BY <1>3, <2>1, <2>3, <2>4 DEF BookIds
<1>6. UnissuedAreAbsent' /\ RecordFrame'
  <2>1. ~(Placing >= nextOrder)
    BY <1>1 DEF IdInv, UnissuedAreAbsent
  <2> QED
    BY <1>2, <2>1 DEF IdInv, UnissuedAreAbsent, RecordFrame, Tracked
<1>7. HandFrame' /\ ReachedFrame'
  BY DEF IdInv, HandFrame, ReachedFrame, Reconciling, Tracked
<1>8. PlacingFrame'
  BY <1>1, <1>2 DEF PlacingFrame, Tracked
<1>9. StaleBlocks'
  BY <1>1, <1>2, <1>4 DEF StaleBlocks, Stale
<1> QED
  BY <1>2, <1>5, <1>6, <1>7, <1>8, <1>9 DEF IdInv

(* A new book: its orders are gone, its ids begin again. *)
LEMMA SeedIds ==
  ASSUME IdInv, Seed
  PROVE  IdInv'
<1> USE DEF Seed, storeVars, frameVars, executionVars, planVars, auditVars
<1>1. DOMAIN venue' = Orders /\ \A p \in Orders : ~IsKnown(p)'
  BY DEF IsKnown, IsOpen, IsDone, NoOrder
<1>2. HandFrame' /\ ReachedFrame' /\ PlacingFrame'
  BY DEF IdInv, HandFrame, ReachedFrame, PlacingFrame, Reconciling, Tracked
<1>3. UnissuedAreAbsent' /\ RecordFrame'
  BY <1>1 DEF IdInv, UnissuedAreAbsent, RecordFrame, Tracked
<1>4. BookIds'
  BY <1>1 DEF IdInv, BookIds
<1>5. StaleBlocks'
  BY <1>1 DEF IdInv, StaleBlocks, AboutToPlace, HandFrame
<1> QED
  BY <1>1, <1>2, <1>3, <1>4, <1>5 DEF IdInv

----------------------------------------------------------------------------
(* Steps that change a record. *)

LEMMA PutIds ==
  ASSUME IdInv, NEW s \in Symbols, PutPaperOrder(s)
  PROVE  IdInv'
<1> USE DEF PutPaperOrder, PutUnconfirmed, bookVars, planVars, auditVars
<1>1. PICK n \in Orders : n = nextOrder
  BY VenueAssumption DEF IdInv, Orders
<1>2. /\ nextOrder' \in 1..(MaxOrders + 1) /\ Placing' = n
      /\ \A p \in Orders : p >= nextOrder' => p >= nextOrder /\ p # n
      /\ n >= nextOrder
  BY <1>1, VenueAssumption DEF IdInv, Orders, Placing
<1>3. /\ DOMAIN store' = Orders /\ DOMAIN symbolOf' = Orders
      /\ store'[n] = Unconfirmed /\ symbolOf'[n] = s
      /\ \A p \in Orders : p # n => store'[p] = store[p] /\ symbolOf'[p] = symbolOf[p]
  BY <1>1 DEF IdInv
<1>4. Tracked(n)' /\ ~store'[n].hasId
  BY <1>3 DEF Tracked, Unconfirmed
<1>5. /\ DOMAIN venue' = Orders
      /\ \A p \in Orders : IsKnown(p)' <=> IsKnown(p)
      /\ ~IsKnown(n)'
  BY <1>2, KnownKept DEF IdInv, UnissuedAreAbsent
<1>6. \A o \in Orders : ~Stale(o)
  BY NothingStale DEF Reconciling, AboutToPlace
<1>7. UnissuedAreAbsent'
  BY <1>2, <1>3, <1>5 DEF IdInv, UnissuedAreAbsent, Tracked
<1>8. RecordFrame'
  BY <1>3, <1>4 DEF IdInv, RecordFrame, Tracked
<1>9. HandFrame' /\ ReachedFrame'
  BY DEF IdInv, HandFrame, ReachedFrame, Reconciling, Tracked
<1>10. PlacingFrame'
  BY <1>2, <1>4, <1>5 DEF PlacingFrame, Tracked, IsKnown, IsOpen, IsDone
<1>11. BookIds'
  BY <1>5 DEF IdInv, BookIds
<1>12. StaleBlocks'
  BY <1>3, <1>4, <1>5, <1>6 DEF StaleBlocks, Stale
<1> QED
  BY <1>2, <1>3, <1>5, <1>7, <1>8, <1>9, <1>10, <1>11, <1>12 DEF IdInv

LEMMA RemoveIds ==
  ASSUME IdInv, RemoveRejected, UNCHANGED paperVars
  PROVE  IdInv'
<1> USE DEF RemoveRejected, venueVars, executionVars, planVars, auditVars, paperVars, bookVars
<1>1. /\ DOMAIN store' = Orders
      /\ ~Tracked(Placing)' /\ ~store'[Placing].hasId
      /\ \A p \in Orders : p # Placing => store'[p] = store[p]
  BY DEF IdInv, PlacingFrame, Tracked, Absent, Placing
<1>2. DOMAIN venue' = Orders /\ \A p \in Orders : IsKnown(p)' <=> IsKnown(p)
  BY KnownKept
<1>3. UnissuedAreAbsent' /\ RecordFrame'
  BY <1>1, <1>2 DEF IdInv, UnissuedAreAbsent, RecordFrame, Tracked, Placing
<1>4. HandFrame' /\ ReachedFrame' /\ PlacingFrame'
  BY DEF IdInv, HandFrame, ReachedFrame, PlacingFrame, Reconciling, Tracked
<1>5. BookIds'
  BY <1>2 DEF IdInv, BookIds
<1>6. \A o \in Orders : ~Stale(o)
  BY NothingStale DEF Reconciling, AboutToPlace
<1>7. StaleBlocks'
  BY <1>1, <1>2, <1>6 DEF StaleBlocks, Stale, Placing
<1> QED
  BY <1>1, <1>2, <1>3, <1>4, <1>5, <1>7 DEF IdInv

(* The id is stamped on the record of an order that is in the book. *)
LEMMA StampIds ==
  ASSUME IdInv, StampId, UNCHANGED paperVars
  PROVE  IdInv'
<1> USE DEF StampId, venueVars, executionVars, planVars, auditVars, paperVars, bookVars
<1>1. PICK n \in Orders : n = Placing
  BY DEF IdInv, PlacingFrame
<1>2. IsKnown(n) /\ Tracked(n)
  BY <1>1 DEF IdInv, PlacingFrame
<1>3. /\ DOMAIN store' = Orders /\ store'[n] = Placed
      /\ \A p \in Orders : p # n => store'[p] = store[p]
  BY <1>1 DEF IdInv
<1>4. Tracked(n)' /\ store'[n].hasId
  BY <1>3 DEF Tracked, Placed
<1>5. DOMAIN venue' = Orders /\ \A p \in Orders : IsKnown(p)' <=> IsKnown(p)
  BY KnownKept
<1>6. \A p \in Orders : Tracked(p)' <=> Tracked(p)
  BY <1>2, <1>3, <1>4 DEF Tracked
<1>7. UnissuedAreAbsent'
  BY <1>5, <1>6 DEF IdInv, UnissuedAreAbsent
<1>8. RecordFrame'
  BY <1>3, <1>4, <1>6 DEF IdInv, RecordFrame
<1>9. HandFrame'
  <2>1. todo' \in SUBSET Orders /\ \A p \in todo' : Tracked(p)
    BY DEF TrackedIn
  <2> QED
    BY <1>6, <2>1 DEF HandFrame, Reconciling
<1>10. ReachedFrame' /\ PlacingFrame'
  BY DEF ReachedFrame, PlacingFrame
<1>11. BookIds'
  BY <1>5 DEF IdInv, BookIds
<1>12. \A o \in Orders : ~Stale(o)
  BY NothingStale DEF Reconciling, AboutToPlace
<1>13. StaleBlocks'
  BY <1>2, <1>3, <1>5, <1>12 DEF StaleBlocks, Stale
<1> QED
  BY <1>3, <1>5, <1>7, <1>8, <1>9, <1>10, <1>11, <1>13 DEF IdInv

(* A record is advanced or dropped when its order has been read, and what was
   read is in the book: no record is stale then. *)
LEMMA AdvanceIds ==
  ASSUME IdInv, NEW o \in Orders, AdvanceRecord(o), UNCHANGED <<executionVars, paperVars>>
  PROVE  IdInv'
<1> USE DEF AdvanceRecord, venueVars, executionVars, planVars, auditVars, paperVars, bookVars
<1>1. IsKnown(o)
  BY DEF IdInv, ReachedFrame
<1>2. /\ DOMAIN store' = Orders
      /\ store'[o] = RecordAfter(o)
      /\ \A p \in Orders : p # o => store'[p] = store[p]
  BY DEF IdInv
<1>3. /\ store'[o].hasId => Tracked(o)'
      /\ ~(o >= nextOrder)
      /\ o \in todo
  BY <1>1, <1>2 DEF RecordAfter, Absent, Tracked, IdInv, UnissuedAreAbsent, IsNext
<1>4. DOMAIN venue' = Orders /\ \A p \in Orders : IsKnown(p)' <=> IsKnown(p)
  BY KnownKept
<1>5. UnissuedAreAbsent'
  BY <1>2, <1>3, <1>4 DEF IdInv, UnissuedAreAbsent, Tracked
<1>6. RecordFrame'
  <2>1. symbolOf[o] \in Symbols
    BY <1>3 DEF IdInv, HandFrame, RecordFrame
  <2> QED
    BY <1>2, <1>3, <2>1 DEF IdInv, RecordFrame, Tracked
<1>7. HandFrame' /\ PlacingFrame'
  BY <1>2, <1>3 DEF IdInv, HandFrame, PlacingFrame, Reconciling, Tracked
<1>8. ReachedFrame'
  BY DEF ReachedFrame
<1>9. BookIds'
  BY <1>4 DEF IdInv, BookIds
<1>10. \A p \in Orders : ~Stale(p)
  BY <1>1 DEF IdInv, StaleBlocks
<1>11. StaleBlocks'
  BY <1>1, <1>2, <1>4, <1>10 DEF StaleBlocks, Stale
<1> QED
  BY <1>2, <1>4, <1>5, <1>6, <1>7, <1>8, <1>9, <1>11 DEF IdInv

----------------------------------------------------------------------------

(* Every step keeps it. *)
LEMMA IdsKept ==
  ASSUME IdInv, [PaperNext]_allVars
  PROVE  IdInv'
<1>1. CASE PaperEnvironment
  BY <1>1, AroundIds, SeedIds DEF PaperEnvironment
<1>2. CASE Start /\ UNCHANGED paperVars
  BY <1>2, StartIds DEF Start
<1>3. CASE PaperReconcile
  <2>1. ASSUME NEW o \in Orders, UnknownOrder(o) \/ TickerFails(o)
        PROVE  IdInv'
    BY <2>1, EndIds DEF UnknownOrder, TickerFails
  <2>2. ASSUME NEW o \in Orders, UNCHANGED <<executionVars, paperVars>>,
               \/ FindOpen(o) \/ LeaveUnresolved(o) \/ AppendFill(o)
               \/ SaveState(o) \/ AppendEvent(o) \/ AdvanceRecord(o)
        PROVE  IdInv'
    BY <2>2, ResolveIds, BookingIds, AdvanceIds
  <2> QED
    BY <1>3, <2>1, <2>2, FillIds, FetchIds, ReturnIds DEF PaperReconcile
<1>4. CASE PaperCancel
  BY <1>4, ScanIds, CancelIds DEF PaperCancel
<1>5. CASE PaperPlace
  BY <1>5, PutIds, CreateIds, RejectIds, RemoveIds, StampIds, EndIds DEF PaperPlace
<1>6. CASE KillPaperCommand
  <2>1. UNCHANGED paperVars
    BY <1>6 DEF KillPaperCommand
  <2> QED
    BY <1>6, <2>1, EndIds
<1>7. CASE UNCHANGED allVars
  <2> USE <1>7 DEF allVars, vars, venueVars, storeVars, frameVars, executionVars, planVars,
                   auditVars, paperVars, bookVars
  <2>1. HandFrame' /\ ReachedFrame' /\ PlacingFrame'
    BY DEF IdInv, HandFrame, ReachedFrame, PlacingFrame, Reconciling, Placing, Tracked, IsNext,
           IsKnown, IsOpen, IsDone
  <2>2. ASSUME NEW p \in Orders, Stale(p), AboutToPlace'
        PROVE  p \in todo'
    BY <2>2 DEF Stale, AboutToPlace, IdInv, StaleBlocks
  <2> QED
    BY <2>1, <2>2, KnownKept, BookKept
<1> QED
  BY <1>1, <1>2, <1>3, <1>4, <1>5, <1>6, <1>7 DEF PaperNext

(* However often the book is seeded anew, whatever fails and whenever a
   command is killed, no order of the book has the id that the record of
   another order holds: reconcile never books the one under the other's name
   (create_order, fetch_order, paper reset). *)
THEOREM NoOrderTakenForAnother == PaperSpec => []NoIdReuseWhileTracked
<1>1. PaperInit => IdInv
  BY InitIds
<1>2. IdInv /\ [PaperNext]_allVars => IdInv'
  BY IdsKept
<1>3. IdInv => NoIdReuseWhileTracked
  BY DEF IdInv, StaleBlocks, Stale, BookIds, NoIdReuseWhileTracked
<1> QED
  BY <1>1, <1>2, <1>3, PTL DEF PaperSpec

----------------------------------------------------------------------------
(* 5. Types.

   They hold of the commands only together with the frame of the ids (what is
   booked is of a pair), and with two facts of their own: an open order has
   traded nothing, and what is about to become an event was worth a line. *)

(* A pair and the order asked for are known of every id issued. *)
IssuedForPairs == \A o \in Orders : o < nextOrder => symbolOf[o] \in Symbols

(* An order fills whole. *)
OpenUnfilled == \A o \in Orders : IsOpen(o) => venue[o].filled = 0

(* Something is booked between the ledger line and the event. *)
BookedAhead ==
    pc \in {"state", "history"} => \A o \in Orders : IsNext(o) => Delta(o) > 0

(* What the book adds to the types of the commands. *)
BookTypeOK ==
    /\ balances \in [Assets -> Int]
    /\ DOMAIN market = Symbols /\ \A s \in Symbols : market[s] \in PricesOf[s]
    /\ DOMAIN terms = Orders
    /\ \A o \in Orders :
          IF o < nextOrder THEN terms[o] \in TermsOf(symbolOf[o]) ELSE terms[o] = NoTerms
    /\ paperId \in [Orders -> Nat]
    /\ nextId \in Nat \ {0}
    /\ \A o \in Orders : IsKnown(o) => paperId[o] \in 1..(nextId - 1)
    /\ resets \in 0..MaxResets

(* The inductive type invariant. *)
TypeInv == IdInv /\ TypeOK /\ BookTypeOK /\ IssuedForPairs /\ OpenUnfilled /\ BookedAhead

LEMMA InitTypes ==
  ASSUME PaperInit
  PROVE  TypeInv
<1> USE DEF PaperInit, Init, VenueInit, ReconciliationInit
<1>1. TypeOK
  <2>1. VenueTypeOK
    BY VenueAssumption, PaperAssumption DEF VenueTypeOK, VenueOrder, NoOrder
  <2>2. ReconciliationTypeOK
    BY VenueAssumption, PaperAssumption DEF ReconciliationTypeOK, TrackedRecord, Absent,
       Snapshot, NoSnapshot
  <2> QED
    BY <2>1, <2>2, VenueAssumption DEF TypeOK, Orders
<1>2. BookTypeOK
  <2>1. balances \in [Assets -> Int]
    <3>1. Capital * Scale \in Int
      BY PaperAssumption
    <3> QED
      BY <3>1 DEF SeedBalances
  <2>2. DOMAIN market = Symbols /\ \A s \in Symbols : market[s] \in PricesOf[s]
    OBVIOUS
  <2>3. \A o \in Orders : ~(o < nextOrder) /\ terms[o] = NoTerms
    BY DEF Orders
  <2>4. \A o \in Orders : ~IsKnown(o)
    BY DEF IsKnown, IsOpen, IsDone, NoOrder
  <2>5. resets \in 0..MaxResets
    BY PaperAssumption
  <2> QED
    BY <2>1, <2>2, <2>3, <2>4, <2>5 DEF BookTypeOK
<1>3. IssuedForPairs /\ OpenUnfilled /\ BookedAhead
  BY DEF IssuedForPairs, OpenUnfilled, BookedAhead, Orders, IsOpen, NoOrder
<1> QED
  BY <1>1, <1>2, <1>3, InitIds DEF TypeInv

(* The parts about the book, over a step that leaves its orders the ones they
   were and the ids issued alone. *)
LEMMA BookTypesKept ==
  ASSUME TypeInv,
         UNCHANGED <<balances, market, terms, resets, paperId, nextId, symbolOf, nextOrder>>,
         \A o \in Orders : IsKnown(o)' <=> IsKnown(o)
  PROVE  BookTypeOK' /\ IssuedForPairs'
BY DEF TypeInv, BookTypeOK, IssuedForPairs

----------------------------------------------------------------------------
(* The types of the commands, command by command. *)

LEMMA StartTypes ==
  ASSUME TypeInv, NEW S \in SUBSET Symbols,
         StartReconcile(S) \/ StartRebalance(S) \/ StartCancel(S)
  PROVE  TypeOK' /\ BookedAhead'
BY DEF TypeInv, TypeOK, VenueTypeOK, ReconciliationTypeOK, StartReconcile, StartRebalance,
       StartCancel, TrackedIn, CancelsFor,
       venueVars, storeVars, executionVars, planVars, auditVars, BookedAhead, Orders

LEMMA EndTypes ==
  ASSUME TypeInv, FinishPlacing \/ ReadFails \/ (Killed /\ UNCHANGED venue)
  PROVE  TypeOK' /\ BookedAhead'
<1> USE CrashAssumption, VenueAssumption DEF TypeInv, TypeOK, VenueTypeOK,
        ReconciliationTypeOK, FinishPlacing, ReadFails, Killed, Forget, Snapshot, NoSnapshot,
       venueVars, storeVars, executionVars, planVars, auditVars, BookedAhead
<1>1. NoSnapshot \in Snapshot
  BY VenueAssumption
<1>2. CASE FinishPlacing
  BY <1>1, <1>2
<1>3. CASE ReadFails
  BY <1>1, <1>3
<1>4. CASE Killed /\ UNCHANGED venue
  BY <1>1, <1>4
<1> QED
  BY <1>2, <1>3, <1>4

LEMMA ReadTypes ==
  ASSUME TypeInv, NEW o \in Orders, FindOpen(o) \/ LeaveUnresolved(o) \/ FetchOrder(o),
         UNCHANGED executionVars
  PROVE  TypeOK' /\ BookedAhead'
<1> USE DEF TypeInv, TypeOK, VenueTypeOK, ReconciliationTypeOK,
       venueVars, storeVars, executionVars, planVars, auditVars, BookedAhead
<1>1. CASE FindOpen(o)
  BY <1>1 DEF FindOpen
<1>2. CASE LeaveUnresolved(o)
  BY <1>2 DEF LeaveUnresolved
<1>3. CASE FetchOrder(o)
  <2>1. StatusOf(o) \in Snapshot
    BY DEF StatusOf, Snapshot, VenueOrder, IsDone
  <2> QED
    BY <1>3, <2>1 DEF FetchOrder
<1> QED
  BY <1>1, <1>2, <1>3

LEMMA BookTypes ==
  ASSUME TypeInv, NEW o \in Orders,
         AppendFill(o) \/ SaveState(o) \/ AppendEvent(o) \/ AdvanceRecord(o),
         UNCHANGED executionVars
  PROVE  TypeOK' /\ BookedAhead'
<1> USE DEF TypeInv, TypeOK, VenueTypeOK, ReconciliationTypeOK, 
       venueVars, storeVars, executionVars, planVars, auditVars, BookedAhead
<1>1. Delta(o) \in Int
  BY VenueAssumption DEF Delta, Snapshot, TrackedRecord
<1>2. CASE AppendFill(o)
  <2>1. ledger[o] + Delta(o) \in Nat /\ fees[o] + FeeLines \in Nat
    BY <1>1, <1>2 DEF AppendFill, FeeLines
  <2>2. \A p \in Orders : IsNext(p)' => p = o
    BY <1>2 DEF AppendFill, IsNext, Orders
  <2>3. Delta(o)' = Delta(o)
    BY <1>2 DEF AppendFill, Delta
  <2> QED
    BY <1>2, <2>1, <2>2, <2>3 DEF AppendFill
<1>3. CASE SaveState(o)
  <2>1. symbolOf[o] \in Symbols
    BY <1>3 DEF SaveState, IsNext, IdInv, HandFrame, RecordFrame
  <2>2. \A p \in Orders : (IsNext(p)' <=> IsNext(p)) /\ Delta(p)' = Delta(p)
    BY <1>3 DEF SaveState, IsNext, Delta
  <2> QED
    BY <1>3, <2>1, <2>2 DEF SaveState
<1>4. CASE AppendEvent(o)
  <2>1. history[o] + Delta(o) \in Nat
    BY <1>1, <1>4 DEF AppendEvent
  <2> QED
    BY <1>4, <2>1 DEF AppendEvent
<1>5. CASE AdvanceRecord(o)
  <2>1. RecordAfter(o) \in TrackedRecord /\ NoSnapshot \in Snapshot
    BY VenueAssumption DEF RecordAfter, TrackedRecord, Absent, Snapshot, NoSnapshot
  <2> QED
    BY <1>5, <2>1 DEF AdvanceRecord
<1> QED
  BY <1>2, <1>3, <1>4, <1>5

LEMMA ScanTypes ==
  ASSUME TypeInv,
     \/ \E s \in Symbols : ListOpen(s)
     \/ \E o \in Orders : CancelSucceeds(o)
     \/ FinishCancelling
     \/ ReturnFromReconcile /\ UNCHANGED executionVars
  PROVE TypeOK' /\ BookedAhead'
<1> USE DEF TypeInv, TypeOK, VenueTypeOK, ReconciliationTypeOK,
       venueVars, storeVars, frameVars, executionVars, planVars, auditVars, BookedAhead
<1>1. ASSUME NEW s \in Symbols, ListOpen(s)
      PROVE  TypeOK' /\ BookedAhead'
  BY <1>1 DEF ListOpen
<1>2. ASSUME NEW o \in Orders, CancelSucceeds(o)
      PROVE  TypeOK' /\ BookedAhead'
  BY <1>2 DEF CancelSucceeds, VenueOrder
<1>3. CASE FinishCancelling
  BY <1>3 DEF FinishCancelling
<1>4. CASE ReturnFromReconcile /\ UNCHANGED executionVars
  BY <1>4 DEF ReturnFromReconcile
<1> QED
  BY <1>1, <1>2, <1>3, <1>4

LEMMA PlaceTypes ==
  ASSUME TypeInv,
     \/ \E s \in Symbols : PutUnconfirmed(s)
     \/ CreateSucceeds \/ CreateRejected \/ RemoveRejected \/ StampId
  PROVE TypeOK' /\ BookedAhead'
<1> USE DEF TypeInv, TypeOK, VenueTypeOK, ReconciliationTypeOK,
       venueVars, storeVars, frameVars, executionVars, planVars, auditVars, BookedAhead
<1>1. ASSUME NEW s \in Symbols, PutUnconfirmed(s)
      PROVE  TypeOK' /\ BookedAhead'
  <2>1. nextOrder \in Orders /\ nextOrder' \in 1..(MaxOrders + 1)
    BY <1>1, VenueAssumption DEF Orders, PutUnconfirmed
  <2>2. Unconfirmed \in TrackedRecord
    BY VenueAssumption DEF Unconfirmed, TrackedRecord
  <2> QED
    BY <1>1, <2>1, <2>2 DEF PutUnconfirmed
<1>2. CASE CreateSucceeds
  <2>1. NewOrder \in VenueOrder
    BY VenueAssumption DEF NewOrder, VenueOrder
  <2> QED
    BY <1>2, <2>1 DEF CreateSucceeds
<1>3. CASE CreateRejected
  BY <1>3 DEF CreateRejected
<1>4. CASE RemoveRejected
  <2>1. Absent \in TrackedRecord
    BY VenueAssumption DEF Absent, TrackedRecord
  <2> QED
    BY <1>4, <2>1 DEF RemoveRejected
<1>5. CASE StampId
  <2>1. Placed \in TrackedRecord
    BY VenueAssumption DEF Placed, TrackedRecord
  <2> QED
    BY <1>5, <2>1 DEF StampId, TrackedIn
<1> QED
  BY <1>1, <1>2, <1>3, <1>4, <1>5

LEMMA AroundTypes ==
  ASSUME TypeInv, NEW s \in Symbols, UNCHANGED vars \/ IntervalElapses(s)
  PROVE  TypeOK' /\ BookedAhead'
<1> USE DEF TypeInv, TypeOK, VenueTypeOK, ReconciliationTypeOK, vars,
       venueVars, storeVars, frameVars, executionVars, planVars, auditVars, BookedAhead, IsNext, Delta
<1>1. CASE UNCHANGED vars
  BY <1>1
<1>2. CASE IntervalElapses(s)
  BY <1>2 DEF IntervalElapses
<1> QED
  BY <1>1, <1>2

----------------------------------------------------------------------------
(* The whole of the types, and that an open order has traded nothing. *)

(* A step of a command that leaves the book alone. *)
LEMMA CommandTypes ==
  ASSUME TypeInv, UNCHANGED <<paperVars, venueVars, nextOrder>>, TypeOK', BookedAhead', IdInv'
  PROVE  TypeInv'
<1>1. \A o \in Orders : IsKnown(o)' <=> IsKnown(o)
  BY DEF TypeInv, IdInv, IsKnown, IsOpen, IsDone, venueVars
<1>2. OpenUnfilled'
  BY DEF TypeInv, OpenUnfilled, IsOpen, venueVars
<1> QED
  BY <1>1, <1>2, BookTypesKept DEF TypeInv, paperVars, bookVars, venueVars

LEMMA FillTypes ==
  ASSUME TypeInv, NEW o \in Orders, FillOnFetch(o), IdInv'
  PROVE  TypeInv'
<1> USE DEF FillOnFetch, FillLot, storeVars, frameVars, executionVars, planVars, auditVars
<1>1. venue' \in [Orders -> VenueOrder] /\ \A p \in Orders : IsKnown(p)' <=> IsKnown(p)
  <2>1. venue[o].filled + 1 \in 0..Lots
    BY VenueAssumption DEF TypeInv, TypeOK, VenueTypeOK, VenueOrder
  <2> QED
    BY <2>1 DEF TypeInv, TypeOK, VenueTypeOK, VenueOrder, IsKnown, IsOpen, IsDone
<1>2. TypeOK'
  BY <1>1 DEF TypeInv, TypeOK, VenueTypeOK, ReconciliationTypeOK
<1>3. BookedAhead'
  BY DEF TypeInv, BookedAhead, IsNext, Delta
<1>4. OpenUnfilled'
  <2>1. \A p \in Orders : p # o => venue'[p] = venue[p]
    BY DEF TypeInv, IdInv
  <2>2. ~IsOpen(o)'
    BY PaperAssumption DEF TypeInv, IdInv, OpenUnfilled, IsOpen
  <2> QED
    BY <2>1, <2>2 DEF TypeInv, OpenUnfilled, IsOpen
<1>5. \A a \in Assets : Gain(o, a) \in Int
  <2>1. terms[o] \in TermsOf(symbolOf[o]) /\ symbolOf[o] \in Symbols
    BY <1>1 DEF TypeInv, IdInv, UnissuedAreAbsent, BookTypeOK, IssuedForPairs, IsKnown, Orders
  <2>2. terms[o].amount \in Nat /\ terms[o].price \in Nat /\ Scale \in Nat /\ FeeRate \in Nat
    BY <2>1, PaperAssumption DEF TermsOf
  <2>3. Quantity(o) \in Nat /\ Value(o) \in Nat /\ Fee(o) \in Nat
    BY <2>2 DEF Quantity, Value, Fee
  <2> HIDE DEF FillOnFetch
  <2> QED
    BY <2>3 DEF Gain
<1>6. BookTypeOK'
  <2>1. balances' \in [Assets -> Int]
    BY <1>5 DEF TypeInv, BookTypeOK
  <2> QED
    BY <1>1, <2>1 DEF TypeInv, BookTypeOK
<1>7. IssuedForPairs'
  BY DEF TypeInv, IssuedForPairs
<1> QED
  BY <1>2, <1>3, <1>4, <1>6, <1>7 DEF TypeInv

LEMMA CancelTypes ==
  ASSUME TypeInv, NEW o \in Orders, CancelSucceeds(o), UNCHANGED paperVars, IdInv'
  PROVE  TypeInv'
<1>1. TypeOK' /\ BookedAhead'
  BY ScanTypes
<1> USE DEF CancelSucceeds, paperVars, bookVars
<1>2. \A p \in Orders : IsKnown(p)' <=> IsKnown(p)
  BY DEF TypeInv, IdInv, IsKnown, IsOpen, IsDone
<1>3. OpenUnfilled'
  BY DEF TypeInv, IdInv, OpenUnfilled, IsOpen
<1> QED
  BY <1>1, <1>2, <1>3, BookTypesKept DEF TypeInv

LEMMA PutTypes ==
  ASSUME TypeInv, NEW s \in Symbols, PutPaperOrder(s), IdInv'
  PROVE  TypeInv'
<1>1. TypeOK' /\ BookedAhead'
  BY PlaceTypes DEF PutPaperOrder
<1> USE DEF PutPaperOrder, PutUnconfirmed, bookVars
<1>2. PICK n \in Orders : n = nextOrder
  BY VenueAssumption DEF TypeInv, IdInv, Orders
<1>3. /\ nextOrder' = n + 1 /\ symbolOf'[n] = s /\ terms'[n] \in TermsOf(s)
      /\ DOMAIN terms' = Orders
      /\ \A p \in Orders : p # n => symbolOf'[p] = symbolOf[p] /\ terms'[p] = terms[p]
  BY <1>2 DEF TypeInv, IdInv, BookTypeOK
<1>4. \A p \in Orders : (p < nextOrder' <=> p < nextOrder \/ p = n) /\ ~(n < nextOrder)
  BY <1>2, <1>3 DEF Orders
<1>5. (\A p \in Orders : IsKnown(p)' <=> IsKnown(p)) /\ OpenUnfilled'
  BY DEF TypeInv, IdInv, OpenUnfilled, IsKnown, IsOpen, IsDone
<1>6. IssuedForPairs'
  BY <1>3, <1>4 DEF TypeInv, IssuedForPairs
<1>7. \A p \in Orders : IF p < nextOrder' THEN terms'[p] \in TermsOf(symbolOf'[p])
          ELSE terms'[p] = NoTerms
  BY <1>3, <1>4 DEF TypeInv, BookTypeOK
<1>8. BookTypeOK'
  <2>1. \A p \in Orders :
            (terms[p] \in TermsOf(symbolOf[p]))' <=> terms'[p] \in TermsOf(symbolOf'[p])
    BY DEF TermsOf
  <2> QED
    BY <1>3, <1>5, <1>7, <2>1 DEF TypeInv, BookTypeOK
<1> QED
  BY <1>1, <1>5, <1>6, <1>8 DEF TypeInv

LEMMA CreateTypes ==
  ASSUME TypeInv, CreatePaperOrder, IdInv'
  PROVE  TypeInv'
<1>1. TypeOK' /\ BookedAhead'
  BY PlaceTypes DEF CreatePaperOrder
<1> USE DEF CreatePaperOrder, CreateSucceeds, executionVars
<1>2. PICK n \in Orders : n = Placing
  BY DEF TypeInv, IdInv, PlacingFrame
<1>3. /\ DOMAIN venue' = Orders /\ venue'[n] = NewOrder
      /\ \A p \in Orders : p # n => venue'[p] = venue[p]
  BY <1>2 DEF TypeInv, IdInv
<1>4. nextId \in Nat \ {0} /\ paperId' \in [Orders -> Nat] /\ nextId' = nextId + 1
      /\ paperId'[n] = nextId /\ \A p \in Orders : p # n => paperId'[p] = paperId[p]
  BY <1>2 DEF TypeInv, BookTypeOK
<1>5. OpenUnfilled'
  BY <1>3 DEF TypeInv, OpenUnfilled, IsOpen, NewOrder
<1>6. \A p \in Orders : IsKnown(p)' => paperId'[p] \in 1..(nextId' - 1)
  <2>1. ASSUME NEW p \in Orders, IsKnown(p)', p # n
        PROVE  paperId'[p] \in 1..(nextId' - 1)
    <3>1. paperId[p] \in 1..(nextId - 1)
      BY <1>3, <2>1 DEF TypeInv, BookTypeOK, IsKnown, IsOpen, IsDone
    <3> QED
      BY <1>4, <2>1, <3>1
  <2>2. paperId'[n] \in 1..(nextId' - 1)
    BY <1>4
  <2> QED
    BY <2>1, <2>2
<1>7. BookTypeOK'
  <2>1. nextId' \in Nat \ {0}
    BY <1>4
  <2> QED
    BY <1>4, <1>6, <2>1 DEF TypeInv, BookTypeOK
<1> QED
  BY <1>1, <1>5, <1>7 DEF TypeInv, IssuedForPairs

LEMMA SeedTypes ==
  ASSUME TypeInv, Seed, IdInv'
  PROVE  TypeInv'
<1> USE DEF Seed, storeVars, frameVars, executionVars, planVars, auditVars
<1>1. NoOrder \in VenueOrder
  BY VenueAssumption DEF NoOrder, VenueOrder
<1>2. TypeOK' /\ BookedAhead'
  BY <1>1 DEF TypeInv, TypeOK, VenueTypeOK, ReconciliationTypeOK, BookedAhead
<1>3. \A p \in Orders : ~IsKnown(p)' /\ ~IsOpen(p)'
  BY DEF IsKnown, IsOpen, IsDone, NoOrder
<1>4. SeedBalances \in [Assets -> Int]
  <2>1. Capital * Scale \in Int
    BY PaperAssumption
  <2> QED
    BY <2>1 DEF SeedBalances
<1>5. resets' \in 0..MaxResets
  BY PaperAssumption DEF TypeInv, BookTypeOK
<1>6. BookTypeOK'
  BY <1>3, <1>4, <1>5 DEF TypeInv, BookTypeOK
<1> QED
  BY <1>2, <1>3, <1>6 DEF TypeInv, IssuedForPairs, OpenUnfilled

LEMMA MarketTypes ==
  ASSUME TypeInv, NEW s \in Symbols,
         MarketMoves(s) \/ (IntervalElapses(s) /\ UNCHANGED paperVars), IdInv'
  PROVE  TypeInv'
<1>1. TypeOK' /\ BookedAhead'
  BY AroundTypes DEF MarketMoves
<1> USE DEF MarketMoves, IntervalElapses, vars, venueVars, executionVars, paperVars, bookVars
<1>2. DOMAIN market' = Symbols /\ \A t \in Symbols : market'[t] \in PricesOf[t]
  BY DEF TypeInv, BookTypeOK
<1>3. (\A o \in Orders : IsKnown(o)' <=> IsKnown(o)) /\ OpenUnfilled'
  BY DEF TypeInv, IdInv, IsKnown, IsOpen, IsDone, OpenUnfilled
<1>4. BookTypeOK' /\ IssuedForPairs'
  BY <1>2, <1>3 DEF TypeInv, BookTypeOK, IssuedForPairs
<1> QED
  BY <1>1, <1>3, <1>4 DEF TypeInv

(* Every step keeps it. *)
LEMMA TypesKept ==
  ASSUME TypeInv, [PaperNext]_allVars
  PROVE  TypeInv'
<1>0. IdInv'
  BY IdsKept DEF TypeInv
<1>1. CASE PaperEnvironment
  BY <1>0, <1>1, MarketTypes, SeedTypes DEF PaperEnvironment
<1>2. CASE Start /\ UNCHANGED paperVars
  BY <1>0, <1>2, StartTypes, CommandTypes
     DEF Start, StartReconcile, StartRebalance, StartCancel, venueVars, executionVars
<1>3. CASE PaperReconcile
  <2>1. ASSUME NEW o \in Orders, UnknownOrder(o) \/ TickerFails(o)
        PROVE  TypeInv'
    BY <1>0, <2>1, EndTypes, CommandTypes DEF UnknownOrder, TickerFails, ReadFails
  <2>2. ASSUME NEW o \in Orders, FetchPaperOrder(o)
        PROVE  TypeInv'
    BY <1>0, <2>2, ReadTypes, CommandTypes DEF FetchPaperOrder, FetchOrder, executionVars
  <2>3. ASSUME NEW o \in Orders, UNCHANGED <<executionVars, paperVars>>,
               \/ FindOpen(o) \/ LeaveUnresolved(o) \/ AppendFill(o)
               \/ SaveState(o) \/ AppendEvent(o) \/ AdvanceRecord(o)
        PROVE  TypeInv'
    BY <1>0, <2>3, ReadTypes, BookTypes, CommandTypes
       DEF FindOpen, LeaveUnresolved, AppendFill, SaveState, AppendEvent, AdvanceRecord, executionVars
  <2>4. ASSUME ReturnFromReconcile, UNCHANGED <<executionVars, paperVars>>
        PROVE  TypeInv'
    BY <1>0, <2>4, ScanTypes, CommandTypes DEF ReturnFromReconcile, executionVars
  <2> QED
    BY <1>0, <1>3, <2>1, <2>2, <2>3, <2>4, FillTypes DEF PaperReconcile
<1>4. CASE PaperCancel
  <2>1. ASSUME NEW s \in Symbols, ListOpen(s), UNCHANGED paperVars
        PROVE  TypeInv'
    BY <1>0, <2>1, ScanTypes, CommandTypes DEF ListOpen
  <2>2. ASSUME FinishCancelling, UNCHANGED paperVars
        PROVE  TypeInv'
    BY <1>0, <2>2, ScanTypes, CommandTypes DEF FinishCancelling, executionVars
  <2> QED
    BY <1>0, <1>4, <2>1, <2>2, CancelTypes DEF PaperCancel
<1>5. CASE PaperPlace
  <2>1. ASSUME RejectPaperOrder
        PROVE  TypeInv'
    BY <1>0, <2>1, PlaceTypes, CommandTypes DEF RejectPaperOrder, CreateRejected, executionVars
  <2>2. ASSUME RemoveRejected \/ StampId, UNCHANGED paperVars
        PROVE  TypeInv'
    BY <1>0, <2>2, PlaceTypes, CommandTypes DEF RemoveRejected, StampId, executionVars
  <2>3. ASSUME FinishPlacing, UNCHANGED paperVars
        PROVE  TypeInv'
    BY <1>0, <2>3, EndTypes, CommandTypes DEF FinishPlacing
  <2> QED
    BY <1>0, <1>5, <2>1, <2>2, <2>3, PutTypes, CreateTypes DEF PaperPlace
<1>6. CASE KillPaperCommand
  BY <1>0, <1>6, EndTypes, CommandTypes DEF KillPaperCommand, Killed, venueVars
<1>7. CASE UNCHANGED allVars
  <2>1. PICK s \in SUBSET Symbols : TRUE
    OBVIOUS
  <2>2. TypeOK' /\ BookedAhead'
    BY <1>7 DEF allVars, vars, venueVars, storeVars, frameVars, executionVars, planVars,
       auditVars,
       TypeInv, TypeOK, VenueTypeOK, ReconciliationTypeOK, BookedAhead, IsNext, Delta
  <2> QED
    BY <1>0, <1>7, <2>2, CommandTypes DEF allVars, vars, executionVars
<1> QED
  BY <1>1, <1>2, <1>3, <1>4, <1>5, <1>6, <1>7 DEF PaperNext

(* Every variable stays in its range, whatever is placed, filled, cancelled,
   killed or seeded anew; each order of the book has an id below its counter
   (paper_book.json, PaperBook). *)
THEOREM PaperTypes == PaperSpec => []PaperTypeOK
<1>1. PaperInit => TypeInv
  BY InitTypes
<1>2. TypeInv /\ [PaperNext]_allVars => TypeInv'
  BY TypesKept
<1>3. TypeInv => PaperTypeOK
  BY DEF TypeInv, BookTypeOK, PaperTypeOK
<1> QED
  BY <1>1, <1>2, <1>3, PTL DEF PaperSpec

----------------------------------------------------------------------------
(* 6. Funds.

   Both sides of the inequality are sums over orders.  A fill takes an order
   out of the one and puts its fee into the other; a placement puts into the
   one what the funds check found free. *)

(* What every order would need, and would cost in fees. *)
Needs == [o \in Orders |-> Need(o)]
(* The fees as a function, for the sums. *)
FeesOf == [o \in Orders |-> Fee(o)]

(* Sums over orders are over finite sets. *)
LEMMA OrdersAreFinite ==
  ASSUME NEW T \in SUBSET Orders
  PROVE  IsFiniteSet(T)
<1>1. IsFiniteSet(1..MaxOrders)
  BY VenueAssumption, FS_Interval
<1> QED
  BY <1>1, FS_Subset DEF Orders

(* Fees are below values. *)
LEMMA FeeBelowValue ==
  ASSUME NEW x \in Nat, NEW k \in Nat, NEW m \in 0..k
  PROVE  x * m \in Nat /\ x * k \in Nat /\ x * m <= x * k
<1>1. x * (k - m) \in Nat
  <2>1. k - m \in Nat
    OBVIOUS
  <2> QED
    BY <2>1
<1>2. x * k = x * m + x * (k - m)
  OBVIOUS
<1>3. x * m \in Nat /\ x * k \in Nat
  OBVIOUS
<1> QED
  BY <1>1, <1>2, <1>3

(* The amounts of an issued order. *)
LEMMA IssuedAmounts ==
  ASSUME TypeInv, NEW o \in Orders, o < nextOrder
  PROVE  /\ terms[o] \in TermsOf(symbolOf[o])
         /\ Quantity(o) \in Nat /\ Value(o) \in Nat /\ Fee(o) \in Nat /\ Need(o) \in Nat
         /\ Fee(o) <= Value(o)
         /\ Base(o) # Quote(o) /\ Base(o) \in Assets /\ Quote(o) \in Assets
<1>1. terms[o] \in TermsOf(symbolOf[o]) /\ symbolOf[o] \in Symbols
  BY DEF TypeInv, BookTypeOK, IssuedForPairs
<1>2. terms[o].amount \in Nat /\ terms[o].price \in Nat /\ Scale \in Nat /\ FeeRate \in 0..Scale
  BY <1>1, PaperAssumption DEF TermsOf
<1>3. terms[o].amount * terms[o].price \in Nat /\ terms[o].amount * Scale \in Nat
  BY <1>2
<1>4. Value(o) \in Nat /\ Fee(o) \in Nat /\ Fee(o) <= Value(o)
  <2> DEFINE x == terms[o].amount * terms[o].price
  <2>1. Value(o) = x * Scale /\ Fee(o) = x * FeeRate
    BY DEF Value, Fee
  <2>2. x \in Nat
    BY <1>3
  <2> HIDE DEF x
  <2> QED
    BY <1>2, <2>1, <2>2, FeeBelowValue
<1>5. Quantity(o) \in Nat /\ Need(o) \in Nat
  BY <1>3, <1>4 DEF Quantity, Need
<1>6. Base(o) # Quote(o) /\ Base(o) \in Assets /\ Quote(o) \in Assets
  BY <1>1, PaperAssumption DEF Base, Quote
<1> QED
  BY <1>1, <1>4, <1>5, <1>6

(* An order of the book has been issued. *)
LEMMA KnownIsIssued ==
  ASSUME TypeInv, NEW o \in Orders, IsKnown(o)
  PROVE  o < nextOrder
BY DEF TypeInv, IdInv, UnissuedAreAbsent, Orders

(* The sums the invariant speaks of are sums of numbers. *)
LEMMA SumsAreNumbers ==
  ASSUME TypeInv, NEW a
  PROVE  /\ IsFiniteSet(OpenPaying(a)) /\ IsFiniteSet(FilledBuysIn(a))
         /\ \A o \in OpenPaying(a) : Needs[o] \in Int
         /\ \A o \in FilledBuysIn(a) : FeesOf[o] \in Nat
         /\ Locked(a) = SumFunctionOnSet(Needs, OpenPaying(a)) /\ Locked(a) \in Int
         /\ FeesPaid(a) = SumFunctionOnSet(FeesOf, FilledBuysIn(a)) /\ FeesPaid(a) \in Nat
<1>1. OpenPaying(a) \in SUBSET Orders /\ FilledBuysIn(a) \in SUBSET Orders
  BY DEF OpenPaying, FilledBuysIn
<1>2. IsFiniteSet(OpenPaying(a)) /\ IsFiniteSet(FilledBuysIn(a))
  BY <1>1, OrdersAreFinite
<1>3. \A o \in OpenPaying(a) : Needs[o] \in Int
  BY KnownIsIssued, IssuedAmounts DEF OpenPaying, IsKnown, Needs
<1>4. \A o \in FilledBuysIn(a) : FeesOf[o] \in Nat
  BY KnownIsIssued, IssuedAmounts DEF FilledBuysIn, IsKnown, FeesOf
<1>5. /\ Locked(a) = SumFunctionOnSet(Needs, OpenPaying(a))
      /\ FeesPaid(a) = SumFunctionOnSet(FeesOf, FilledBuysIn(a))
  BY DEF Locked, FeesPaid, Needs, FeesOf
<1>6. Locked(a) \in Int
  BY <1>2, <1>3, <1>5, SumIsInt
<1>7. FeesPaid(a) \in Nat
  BY <1>2, <1>4, <1>5, SumIsNat
<1> QED
  BY <1>2, <1>3, <1>4, <1>5, <1>6, <1>7

(* A step that changes neither the balances nor the terms of the orders the
   book had: what it does to the sums is what it does to the sets. *)
LEMMA NeedsKept ==
  ASSUME TypeInv, TypeInv', NEW a, NEW T \in SUBSET Orders,
         \A o \in T : terms'[o] = terms[o]
  PROVE  /\ SumFunctionOnSet(Needs', T) = SumFunctionOnSet(Needs, T)
         /\ SumFunctionOnSet(FeesOf', T) = SumFunctionOnSet(FeesOf, T)
<1>1. \A o \in T : Needs'[o] = Needs[o] /\ FeesOf'[o] = FeesOf[o]
  BY DEF Needs, FeesOf, Need, Fee, IsBuy, Value, Quantity
<1>2. IsFiniteSet(T)
  BY OrdersAreFinite
<1>3. SumFunctionOnSet(Needs', T) = SumFunctionOnSet(Needs, T)
  BY <1>1, <1>2, SumSame
<1>4. SumFunctionOnSet(FeesOf', T) = SumFunctionOnSet(FeesOf, T)
  BY <1>1, <1>2, SumSame
<1> QED
  BY <1>3, <1>4

(* A fill moves both sides alike: what it takes of an asset was reserved, and
   a buy's fee is counted from then on. *)
LEMMA FillCovered ==
  ASSUME TypeInv, TypeInv', ShortOnlyByBuyFees, NEW o \in Orders, FillOnFetch(o)
  PROVE  ShortOnlyByBuyFees'
<1>1. /\ UNCHANGED <<terms, symbolOf>>
      /\ \A p \in Orders : p # o => venue'[p] = venue[p]
      /\ venue'[o].state = "closed" /\ venue'[o].filled = 1
      /\ IsOpen(o) /\ ~IsDone(o) /\ o < nextOrder
      /\ \A a \in Assets : balances'[a] = balances[a] + Gain(o, a)
  <2>1. venue[o].filled = 0 /\ Lots = 1 /\ IsOpen(o)
    BY PaperAssumption DEF FillOnFetch, TypeInv, OpenUnfilled
  <2>2. UNCHANGED <<terms, symbolOf>>
            /\ \A a \in Assets : balances'[a] = balances[a] + Gain(o, a)
    BY DEF FillOnFetch, FillLot
  <2>3. DOMAIN venue = Orders
    BY DEF TypeInv, IdInv
  <2>4. (\A p \in Orders : p # o => venue'[p] = venue[p]) /\ venue'[o].state = "closed"
            /\ venue'[o].filled = 1
    BY <2>1, <2>3 DEF FillOnFetch, FillLot
  <2>5. ~IsDone(o) /\ IsKnown(o)
    BY <2>1 DEF IsDone, IsOpen, IsKnown
  <2> QED
    BY <2>1, <2>2, <2>4, <2>5, KnownIsIssued
<1>2. Needs' = Needs /\ FeesOf' = FeesOf
  BY <1>1 DEF Needs, FeesOf, Need, Fee, IsBuy, Value, Quantity
<1> SUFFICES ASSUME NEW a \in Assets
             PROVE  balances'[a] + FeesPaid(a)' >= Locked(a)'
  BY DEF ShortOnlyByBuyFees
<1>3. /\ OpenPaying(a)' = OpenPaying(a) \ {o}
      /\ o \in OpenPaying(a) <=> Paid(o) = a
  BY <1>1 DEF OpenPaying, IsOpen, Paid, IsBuy, Base, Quote
<1>4. /\ FilledBuysIn(a)' = IF IsBuy(o) /\ Quote(o) = a
                             THEN FilledBuysIn(a) \cup {o}
                             ELSE FilledBuysIn(a)
      /\ o \notin FilledBuysIn(a)
  BY <1>1 DEF FilledBuysIn, IsDone, IsBuy, Quote
<1>5. Locked(a)' = IF Paid(o) = a THEN Locked(a) - Need(o) ELSE Locked(a)
  <2>1. Locked(a)' = SumFunctionOnSet(Needs, OpenPaying(a) \ {o})
    BY <1>2, <1>3, SumsAreNumbers DEF Locked, Needs
  <2>2. CASE Paid(o) = a
    <3>1. Locked(a) = Needs[o] + SumFunctionOnSet(Needs, OpenPaying(a) \ {o})
      BY <1>3, <2>2, SumsAreNumbers, SumWithout
    <3>2. Needs[o] = Need(o) /\ Need(o) \in Nat
      BY <1>1, IssuedAmounts DEF Needs
    <3>3. SumFunctionOnSet(Needs, OpenPaying(a) \ {o}) \in Int
      <4>1. IsFiniteSet(OpenPaying(a) \ {o}) /\ \A p \in OpenPaying(a) \ {o} : Needs[p] \in Int
        BY SumsAreNumbers, FS_Subset
      <4> HIDE DEF OpenPaying
      <4> QED
        BY <4>1, SumIsInt
    <3> QED
      BY <2>1, <2>2, <3>1, <3>2, <3>3, SumsAreNumbers
  <2>3. CASE Paid(o) # a
    <3>1. OpenPaying(a) \ {o} = OpenPaying(a)
      BY <1>3, <2>3
    <3> QED
      BY <2>1, <2>3, <3>1, SumsAreNumbers
  <2> QED
    BY <2>2, <2>3
<1>6. FeesPaid(a)' = IF IsBuy(o) /\ Quote(o) = a THEN FeesPaid(a) + Fee(o) ELSE FeesPaid(a)
  <2>1. FeesPaid(a)' = SumFunctionOnSet(FeesOf, FilledBuysIn(a)')
    BY <1>2 DEF FeesPaid, FeesOf
  <2>2. FeesOf[o] = Fee(o) /\ Fee(o) \in Nat
    BY <1>1, IssuedAmounts DEF FeesOf
  <2>3. CASE IsBuy(o) /\ Quote(o) = a
    <3>1. SumFunctionOnSet(FeesOf, FilledBuysIn(a) \cup {o})
              = FeesOf[o] + SumFunctionOnSet(FeesOf, FilledBuysIn(a))
      BY <1>4, <2>2, SumsAreNumbers, SumWith
    <3> QED
      BY <1>4, <2>1, <2>2, <2>3, <3>1, SumsAreNumbers
  <2>4. CASE ~(IsBuy(o) /\ Quote(o) = a)
    BY <1>4, <2>1, <2>4, SumsAreNumbers
  <2> QED
    BY <2>3, <2>4
<1>7. balances[a] + FeesPaid(a) >= Locked(a) /\ balances[a] \in Int
          /\ balances'[a] = balances[a] + Gain(o, a)
  BY <1>1 DEF ShortOnlyByBuyFees, TypeInv, BookTypeOK
<1>8. FeesPaid(a) \in Nat /\ Locked(a) \in Int
  BY SumsAreNumbers
<1>9. /\ Quantity(o) \in Nat /\ Value(o) \in Nat /\ Fee(o) \in Nat /\ Fee(o) <= Value(o)
      /\ Base(o) # Quote(o)
  BY <1>1, IssuedAmounts
<1>10. CASE IsBuy(o)
  <2>1. Paid(o) = Quote(o) /\ Need(o) = Value(o)
        /\ Gain(o, a) = IF a = Base(o) THEN Quantity(o)
            ELSE IF a = Quote(o) THEN -Value(o) - Fee(o) ELSE 0
    BY <1>9, <1>10 DEF Paid, Need, Gain
  <2> QED
    BY <1>5, <1>6, <1>7, <1>8, <1>9, <1>10, <2>1
<1>11. CASE ~IsBuy(o)
  <2>1. Paid(o) = Base(o) /\ Need(o) = Quantity(o)
        /\ Gain(o, a) = IF a = Base(o) THEN -Quantity(o)
            ELSE IF a = Quote(o) THEN Value(o) - Fee(o) ELSE 0
    BY <1>9, <1>11 DEF Paid, Need, Gain
  <2> QED
    BY <1>5, <1>6, <1>7, <1>8, <1>9, <1>11, <2>1
<1> QED
  BY <1>10, <1>11

(* What a placement reserves was free. *)
LEMMA CreateCovered ==
  ASSUME TypeInv, TypeInv', ShortOnlyByBuyFees, CreatePaperOrder
  PROVE  ShortOnlyByBuyFees'
<1>1. PICK n \in Orders : n = Placing
  BY DEF TypeInv, IdInv, PlacingFrame, CreatePaperOrder, CreateSucceeds
<1>2. /\ UNCHANGED <<terms, symbolOf, balances, nextOrder>>
      /\ \A p \in Orders : p # n => venue'[p] = venue[p]
      /\ IsOpen(n)' /\ ~IsDone(n)' /\ ~IsOpen(n) /\ ~IsDone(n)
      /\ n < nextOrder
  <2>1. UNCHANGED <<terms, symbolOf, balances, nextOrder>>
    BY DEF CreatePaperOrder, CreateSucceeds, executionVars
  <2>2. DOMAIN venue = Orders /\ ~IsKnown(n) /\ nextOrder \in Int
    BY <1>1 DEF TypeInv, IdInv, PlacingFrame, CreatePaperOrder, CreateSucceeds
  <2>3. venue'[n] = NewOrder /\ \A p \in Orders : p # n => venue'[p] = venue[p]
    BY <1>1, <2>2 DEF CreatePaperOrder, CreateSucceeds
  <2>4. IsOpen(n)' /\ ~IsDone(n)'
    BY <2>3 DEF IsOpen, IsDone, NewOrder
  <2>5. ~IsOpen(n) /\ ~IsDone(n)
    BY <2>2 DEF IsKnown
  <2>6. n < nextOrder
    BY <1>1, <2>2 DEF Placing
  <2> QED
    BY <2>1, <2>3, <2>4, <2>5, <2>6
<1>3. Needs' = Needs /\ FeesOf' = FeesOf
  BY <1>2 DEF Needs, FeesOf, Need, Fee, IsBuy, Value, Quantity
<1> SUFFICES ASSUME NEW a \in Assets
             PROVE  balances'[a] + FeesPaid(a)' >= Locked(a)'
  BY DEF ShortOnlyByBuyFees
<1>4. /\ OpenPaying(a)' = IF Paid(n) = a THEN OpenPaying(a) \cup {n} ELSE OpenPaying(a)
      /\ n \notin OpenPaying(a)
      /\ FilledBuysIn(a)' = FilledBuysIn(a)
  <2>1. (\A p \in Orders : p # n => (IsOpen(p)' <=> IsOpen(p)) /\ (IsDone(p)' <=> IsDone(p))
            /\ venue'[p].filled = venue[p].filled)
    BY <1>2 DEF IsOpen, IsDone
  <2>2. \A p \in Orders : Paid(p)' = Paid(p) /\ IsBuy(p)' = IsBuy(p) /\ Quote(p)' = Quote(p)
    BY <1>2 DEF Paid, IsBuy, Base, Quote
  <2> QED
    BY <1>2, <2>1, <2>2 DEF OpenPaying, FilledBuysIn
<1>5. FeesPaid(a)' = FeesPaid(a)
  BY <1>3, <1>4 DEF FeesPaid, FeesOf
<1>6. balances[a] + FeesPaid(a) >= Locked(a) /\ balances[a] \in Int
          /\ balances'[a] = balances[a]
  BY <1>2 DEF ShortOnlyByBuyFees, TypeInv, BookTypeOK
<1>7. FeesPaid(a) \in Nat /\ Locked(a) \in Int
  BY SumsAreNumbers
<1>8. CASE Paid(n) = a
  <2>1. Locked(a)' = SumFunctionOnSet(Needs, OpenPaying(a) \cup {n})
    BY <1>3, <1>4, <1>8 DEF Locked, Needs
  <2>2. Needs[n] = Need(n) /\ Need(n) \in Nat
    BY <1>2, IssuedAmounts DEF Needs
  <2>3. SumFunctionOnSet(Needs, OpenPaying(a) \cup {n})
            = Needs[n] + SumFunctionOnSet(Needs, OpenPaying(a))
    BY <1>4, <2>2, SumsAreNumbers, SumWith
  <2>4. balances[a] - Locked(a) >= Need(n)
    BY <1>1, <1>8 DEF CreatePaperOrder, FundsCover
  <2>5. Locked(a)' = Need(n) + Locked(a)
    BY <2>1, <2>2, <2>3, SumsAreNumbers
  <2> QED
    BY <1>5, <1>6, <1>7, <2>2, <2>4, <2>5
<1>9. CASE Paid(n) # a
  <2>1. Locked(a)' = Locked(a)
    BY <1>3, <1>4, <1>9 DEF Locked, Needs
  <2> QED
    BY <1>5, <1>6, <2>1
<1> QED
  BY <1>8, <1>9

(* A cancelled order reserves nothing more. *)
LEMMA CancelCovered ==
  ASSUME TypeInv, TypeInv', ShortOnlyByBuyFees, NEW o \in Orders, CancelSucceeds(o),
         UNCHANGED paperVars
  PROVE  ShortOnlyByBuyFees'
<1>1. /\ UNCHANGED <<terms, symbolOf, balances>>
      /\ \A p \in Orders : p # o => venue'[p] = venue[p]
      /\ venue'[o].filled = 0 /\ venue[o].filled = 0 /\ IsOpen(o) /\ ~IsOpen(o)'
          /\ o < nextOrder
  <2>1. UNCHANGED <<terms, symbolOf, balances>> /\ IsOpen(o) /\ IsKnown(o)
            /\ DOMAIN venue = Orders /\ venue[o].filled = 0
    BY DEF CancelSucceeds, paperVars, bookVars, IsKnown, TypeInv, IdInv, OpenUnfilled
  <2>2. venue[o] \in VenueOrder
    BY DEF TypeInv, TypeOK, VenueTypeOK
  <2>3. venue'[o].state = "canceled" /\ venue'[o].filled = venue[o].filled
            /\ \A p \in Orders : p # o => venue'[p] = venue[p]
    BY <2>1, <2>2 DEF CancelSucceeds, VenueOrder
  <2> QED
    BY <2>1, <2>3, KnownIsIssued DEF IsOpen
<1>2. Needs' = Needs /\ FeesOf' = FeesOf
  BY <1>1 DEF Needs, FeesOf, Need, Fee, IsBuy, Value, Quantity
<1> SUFFICES ASSUME NEW a \in Assets
             PROVE  balances'[a] + FeesPaid(a)' >= Locked(a)'
  BY DEF ShortOnlyByBuyFees
<1>3. OpenPaying(a)' = OpenPaying(a) \ {o} /\ FilledBuysIn(a)' = FilledBuysIn(a)
  <2>1. \A p \in Orders : p # o => (IsOpen(p)' <=> IsOpen(p)) /\ (IsDone(p)' <=> IsDone(p))
            /\ venue'[p].filled = venue[p].filled
    BY <1>1 DEF IsOpen, IsDone
  <2>2. \A p \in Orders : Paid(p)' = Paid(p) /\ IsBuy(p)' = IsBuy(p) /\ Quote(p)' = Quote(p)
    BY <1>1 DEF Paid, IsBuy, Base, Quote
  <2> QED
    BY <1>1, <2>1, <2>2 DEF OpenPaying, FilledBuysIn
<1>4. FeesPaid(a)' = FeesPaid(a)
  BY <1>2, <1>3 DEF FeesPaid, FeesOf
<1>5. balances[a] + FeesPaid(a) >= Locked(a) /\ balances[a] \in Int
          /\ balances'[a] = balances[a]
  BY <1>1 DEF ShortOnlyByBuyFees, TypeInv, BookTypeOK
<1>6. FeesPaid(a) \in Nat /\ Locked(a) \in Int
  BY SumsAreNumbers
<1>7. Locked(a)' = SumFunctionOnSet(Needs, OpenPaying(a) \ {o})
  BY <1>2, <1>3 DEF Locked, Needs
<1>8. CASE o \in OpenPaying(a)
  <2>1. Locked(a) = Needs[o] + SumFunctionOnSet(Needs, OpenPaying(a) \ {o})
    BY <1>8, SumsAreNumbers, SumWithout
  <2>2. Needs[o] \in Nat
    BY <1>1, IssuedAmounts DEF Needs
  <2>3. Locked(a)' \in Int
    <3>1. IsFiniteSet(OpenPaying(a) \ {o}) /\ \A p \in OpenPaying(a) \ {o} : Needs[p] \in Int
      BY SumsAreNumbers, FS_Subset
    <3> QED
      BY <1>7, <3>1, SumIsInt
  <2> QED
    BY <1>4, <1>5, <1>6, <1>7, <2>1, <2>2, <2>3
<1>9. CASE o \notin OpenPaying(a)
  <2>1. OpenPaying(a) \ {o} = OpenPaying(a)
    BY <1>9
  <2> QED
    BY <1>4, <1>5, <1>7, <2>1, SumsAreNumbers
<1> QED
  BY <1>8, <1>9

(* A new book has no orders, and nothing below zero. *)
LEMMA SeedCovers ==
  /\ \A a \in Assets : SeedBalances[a] \in Nat
  /\ \A f, g, b : b \in Nat => b + SumFunctionOnSet(f, {}) >= SumFunctionOnSet(g, {})
<1>1. \A a \in Assets : SeedBalances[a] \in Nat
  <2>1. Capital * Scale \in Nat
    BY PaperAssumption
  <2> QED
    BY <2>1 DEF SeedBalances
<1> QED
  BY <1>1, SumOfNone

(* The same of a book seeded again, and of the first. *)
LEMMA SeedCovered ==
  ASSUME Seed
  PROVE  ShortOnlyByBuyFees'
<1>1. balances' = SeedBalances /\ \A o \in Orders : ~IsOpen(o)' /\ ~IsDone(o)'
  BY DEF Seed, IsOpen, IsDone, NoOrder
<1>2. \A a : OpenPaying(a)' = {} /\ FilledBuysIn(a)' = {}
  BY <1>1 DEF OpenPaying, FilledBuysIn
<1> QED
  BY <1>1, <1>2, SeedCovers DEF ShortOnlyByBuyFees, FeesPaid, Locked

LEMMA InitCovered ==
  ASSUME PaperInit
  PROVE  ShortOnlyByBuyFees
<1>1. balances = SeedBalances /\ \A o \in Orders : ~IsOpen(o) /\ ~IsDone(o)
  BY DEF PaperInit, Init, VenueInit, IsOpen, IsDone, NoOrder
<1>2. \A a : OpenPaying(a) = {} /\ FilledBuysIn(a) = {}
  BY <1>1 DEF OpenPaying, FilledBuysIn
<1> QED
  BY <1>1, <1>2, SeedCovers DEF ShortOnlyByBuyFees, FeesPaid, Locked

(* A new record is of an id the book does not know. *)
LEMMA PutCovered ==
  ASSUME TypeInv, TypeInv', ShortOnlyByBuyFees, NEW s \in Symbols, PutPaperOrder(s)
  PROVE  ShortOnlyByBuyFees'
<1>1. /\ UNCHANGED <<venue, balances>>
      /\ \A p \in Orders : IsKnown(p) => terms'[p] = terms[p] /\ symbolOf'[p] = symbolOf[p]
  <2>1. UNCHANGED <<venue, balances>>
    BY DEF PutPaperOrder, PutUnconfirmed, bookVars
  <2>2. \A p \in Orders : IsKnown(p) => p # nextOrder
    BY KnownIsIssued DEF TypeInv, IdInv
  <2> QED
    BY <2>1, <2>2 DEF PutPaperOrder, PutUnconfirmed, TypeInv, IdInv, BookTypeOK
<1> SUFFICES ASSUME NEW a \in Assets
             PROVE  balances'[a] + FeesPaid(a)' >= Locked(a)'
  BY DEF ShortOnlyByBuyFees
<1>2. OpenPaying(a)' = OpenPaying(a)
  BY <1>1 DEF OpenPaying, Paid, IsBuy, Base, Quote, IsKnown, IsOpen
<1>3. FilledBuysIn(a)' = FilledBuysIn(a)
  BY <1>1 DEF FilledBuysIn, IsBuy, Quote, IsKnown, IsDone
<1>4. Locked(a)' = SumFunctionOnSet(Needs', OpenPaying(a))
          /\ FeesPaid(a)' = SumFunctionOnSet(FeesOf', FilledBuysIn(a))
  BY <1>2, <1>3 DEF Locked, FeesPaid, Needs, FeesOf
<1>5. \A T \in SUBSET Orders : (\A o \in T : IsKnown(o)) =>
        SumFunctionOnSet(Needs', T) = SumFunctionOnSet(Needs, T)
            /\ SumFunctionOnSet(FeesOf', T) = SumFunctionOnSet(FeesOf, T)
  BY <1>1, NeedsKept
<1>6. SumFunctionOnSet(Needs', OpenPaying(a)) = SumFunctionOnSet(Needs, OpenPaying(a))
  BY <1>5 DEF OpenPaying, IsKnown
<1>7. SumFunctionOnSet(FeesOf', FilledBuysIn(a)) = SumFunctionOnSet(FeesOf, FilledBuysIn(a))
  BY <1>5 DEF FilledBuysIn, IsKnown
<1>8. balances[a] + FeesPaid(a) >= Locked(a) /\ balances'[a] = balances[a]
  BY <1>1 DEF ShortOnlyByBuyFees
<1> QED
  BY <1>4, <1>6, <1>7, <1>8, SumsAreNumbers

(* All other steps leave both sides alone. *)
LEMMA CoverKept ==
  ASSUME ShortOnlyByBuyFees, UNCHANGED <<venue, symbolOf, terms, balances>>
  PROVE  ShortOnlyByBuyFees'
BY DEF ShortOnlyByBuyFees, FeesPaid, FilledBuysIn, Locked, OpenPaying, Paid, Need, Fee, Value,
       Quantity,
       IsBuy, Base, Quote, IsOpen, IsDone

(* The steps that touch the book's orders or balances; all others leave them. *)
LEMMA BookSteps ==
  ASSUME [PaperNext]_allVars
  PROVE  \/ \E o \in Orders : FillOnFetch(o)
         \/ \E o \in Orders : CancelSucceeds(o) /\ UNCHANGED paperVars
         \/ \E s \in Symbols : PutPaperOrder(s)
         \/ CreatePaperOrder
         \/ Seed
         \/ UNCHANGED <<venue, symbolOf, terms, balances>>
<1> DEFINE Untouched == UNCHANGED <<venue, symbolOf, terms, balances>>
<1> USE DEF vars, bookVars, venueVars
<1>1. CASE PaperEnvironment
  <2>1. ASSUME NEW s \in Symbols, MarketMoves(s) \/ (IntervalElapses(s) /\ UNCHANGED paperVars)
        PROVE  Untouched
    BY <2>1 DEF MarketMoves, IntervalElapses, paperVars
  <2> QED
    BY <1>1, <2>1 DEF PaperEnvironment
<1>2. CASE Start /\ UNCHANGED paperVars
  BY <1>2 DEF Start, StartReconcile, StartRebalance, StartCancel, paperVars
<1>3. CASE PaperReconcile
  <2>1. ASSUME NEW o \in Orders, UnknownOrder(o) \/ TickerFails(o) \/ FetchPaperOrder(o)
        PROVE  Untouched
    BY <2>1 DEF UnknownOrder, TickerFails, ReadFails, FetchPaperOrder, FetchOrder, paperVars
  <2>2. ASSUME NEW o \in Orders, UNCHANGED <<executionVars, paperVars>>,
               \/ FindOpen(o) \/ LeaveUnresolved(o) \/ AppendFill(o)
               \/ SaveState(o) \/ AppendEvent(o) \/ AdvanceRecord(o)
        PROVE  Untouched
    BY <2>2 DEF FindOpen, LeaveUnresolved, AppendFill, SaveState, AppendEvent, AdvanceRecord,
       paperVars
  <2>3. ASSUME ReturnFromReconcile, UNCHANGED <<executionVars, paperVars>>
        PROVE  Untouched
    BY <2>3 DEF ReturnFromReconcile, paperVars
  <2> QED
    BY <1>3, <2>1, <2>2, <2>3 DEF PaperReconcile
<1>4. CASE PaperCancel
  <2>1. ASSUME FinishCancelling \/ (\E s \in Symbols : ListOpen(s)), UNCHANGED paperVars
        PROVE  Untouched
    BY <2>1 DEF ListOpen, FinishCancelling, paperVars
  <2> HIDE DEF Untouched
  <2> QED
    BY <1>4, <2>1 DEF PaperCancel, Untouched
<1>5. CASE PaperPlace
  <2>1. ASSUME RejectPaperOrder
        PROVE  Untouched
    BY <2>1 DEF RejectPaperOrder, CreateRejected, paperVars
  <2>2. ASSUME RemoveRejected \/ StampId \/ FinishPlacing, UNCHANGED paperVars
        PROVE  Untouched
    BY <2>2 DEF RemoveRejected, StampId, FinishPlacing, paperVars
  <2> QED
    BY <1>5, <2>1, <2>2 DEF PaperPlace
<1>6. CASE KillPaperCommand
  BY <1>6 DEF KillPaperCommand, Killed, paperVars
<1>7. CASE UNCHANGED allVars
  BY <1>7 DEF allVars, paperVars
<1> QED
  BY <1>1, <1>2, <1>3, <1>4, <1>5, <1>6, <1>7 DEF PaperNext

(* Every step keeps the book covered. *)
LEMMA StaysCovered ==
  ASSUME TypeInv, TypeInv', ShortOnlyByBuyFees, [PaperNext]_allVars
  PROVE  ShortOnlyByBuyFees'
BY BookSteps, FillCovered, CancelCovered, PutCovered, CreateCovered, SeedCovered, CoverKept

(* However orders are placed, filled, cancelled, left over by kills, and
   whatever the market does, the total of an asset falls short of what the
   open orders reserve of it by no more than the fees of the buys that
   filled: the funds check and the fill keep one account (PaperBook.locked,
   _check_funds, _fill). *)
THEOREM PaperCovers == PaperSpec => []ShortOnlyByBuyFees
<1>1. PaperInit => TypeInv /\ ShortOnlyByBuyFees
  BY InitTypes, InitCovered
<1>2. TypeInv /\ ShortOnlyByBuyFees /\ [PaperNext]_allVars => (TypeInv /\ ShortOnlyByBuyFees)'
  BY TypesKept, StaysCovered
<1> QED
  BY <1>1, <1>2, PTL DEF PaperSpec

----------------------------------------------------------------------------
(* 7. The ledger.

   The balances are the seed and what the filled orders gained, at all times;
   the ledger has a line of an order exactly when its record says so.  Between
   commands, with every finished order let go, the two speak of the same
   orders. *)

(* The orders of the book that have filled, and what each gained of an
   asset. *)
Filled == {o \in Orders : IsDone(o) /\ venue[o].filled = 1}
Gains(a) == [o \in Orders |-> Gain(o, a)]

(* The balances are what the fills of the book's orders made of the seed. *)
BalancesAreFills ==
    \A a \in Assets : balances[a] = SeedBalances[a] + SumFunctionOnSet(Gains(a), Filled)

(* The status in memory: an order not done has traded nothing, and the mark of
   a record is never above zero, because what fills, fills whole. *)
StatusInHand ==
    /\ \A o \in Orders : store[o].booked = 0
    /\ ~fetched.terminal => fetched.filled = 0
    /\ \A o \in Orders : Held(o) /\ fetched.terminal => IsDone(o)
        /\ fetched.filled = venue[o].filled
    /\ \A o \in Orders : HalfBooked(o) => fetched.filled = 1

(* No id is in the ledger before its order is in the book. *)
UnplacedUnbooked ==
    \A o \in Orders :
        (o >= nextOrder \/ (pc = "create" /\ o = Placing)) => ledger[o] = 0 /\ fees[o] = 0

(* As long as no booking is torn, the ledger has of each order in the book what
   its record says. *)
BookedOf(o) == IF Tracked(o) THEN IF HalfBooked(o) THEN 1 ELSE 0 ELSE venue[o].filled

(* So its records agree with its ledger lines. *)
BookedAsRecorded ==
    torn = {} => \A o \in Orders : IsKnown(o) =>
        /\ ledger[o] = BookedOf(o) /\ fees[o] = BookedOf(o)
        /\ ~Tracked(o) => IsDone(o)

----------------------------------------------------------------------------

(* What the book's orders gained can be summed. *)
LEMMA GainsAreNumbers ==
  ASSUME TypeInv, NEW a
  PROVE  IsFiniteSet(Filled) /\ \A o \in Orders : IsKnown(o) => Gains(a)[o] \in Int
<1>1. IsFiniteSet(Filled)
  BY OrdersAreFinite DEF Filled
<1>2. ASSUME NEW o \in Orders, IsKnown(o)
      PROVE  Gains(a)[o] \in Int
  <2>1. Quantity(o) \in Nat /\ Value(o) \in Nat /\ Fee(o) \in Nat
    BY <1>2, KnownIsIssued, IssuedAmounts
  <2> QED
    BY <2>1 DEF Gains, Gain
<1> QED
  BY <1>1, <1>2

(* Over a step that leaves balances, finished orders and their terms alone. *)
LEMMA FillsKept ==
  ASSUME TypeInv, BalancesAreFills, UNCHANGED balances, Filled' = Filled,
         \A o \in Orders : IsDone(o) => terms'[o] = terms[o] /\ symbolOf'[o] = symbolOf[o]
  PROVE  BalancesAreFills'
<1>1. ASSUME NEW a \in Assets
      PROVE  SumFunctionOnSet(Gains(a)', Filled) = SumFunctionOnSet(Gains(a), Filled)
  <2>1. \A o \in Filled : Gains(a)'[o] = Gains(a)[o]
    BY DEF Gains, Filled, Gain, IsBuy, Base, Quote, Quantity, Value, Fee
  <2> QED
    BY <2>1, GainsAreNumbers, SumSame
<1>2. SeedBalances' = SeedBalances
  BY DEF SeedBalances
<1> QED
  BY <1>1, <1>2 DEF BalancesAreFills

(* A step that leaves the whole book alone. *)
LEMMA FillsStay ==
  ASSUME TypeInv, BalancesAreFills, UNCHANGED <<balances, venue, terms, symbolOf>>
  PROVE  BalancesAreFills'
<1>1. Filled' = Filled
  BY DEF Filled, IsDone
<1> QED
  BY <1>1, FillsKept

(* A fill adds to the balances what it adds to the sum. *)
LEMMA FillExplained ==
  ASSUME TypeInv, BalancesAreFills, NEW o \in Orders, FillOnFetch(o)
  PROVE  BalancesAreFills'
<1>1. /\ UNCHANGED <<terms, symbolOf>>
      /\ \A p \in Orders : p # o => venue'[p] = venue[p]
      /\ venue'[o].state = "closed" /\ venue'[o].filled = 1
      /\ IsKnown(o) /\ o \notin Filled
      /\ \A a \in Assets : balances'[a] = balances[a] + Gain(o, a)
  <2>1. venue[o].filled = 0 /\ Lots = 1 /\ IsOpen(o)
    BY PaperAssumption DEF FillOnFetch, TypeInv, OpenUnfilled
  <2>2. UNCHANGED <<terms, symbolOf>>
            /\ \A a \in Assets : balances'[a] = balances[a] + Gain(o, a)
    BY DEF FillOnFetch, FillLot
  <2>3. DOMAIN venue = Orders
    BY DEF TypeInv, IdInv
  <2>4. (\A p \in Orders : p # o => venue'[p] = venue[p]) /\ venue'[o].state = "closed"
            /\ venue'[o].filled = 1
    BY <2>1, <2>3 DEF FillOnFetch, FillLot
  <2> QED
    BY <2>1, <2>2, <2>4 DEF IsOpen, IsKnown, Filled
<1>2. Filled' = Filled \cup {o}
  BY <1>1 DEF Filled, IsDone
<1>3. ASSUME NEW a \in Assets
      PROVE  balances'[a] = SeedBalances[a] + SumFunctionOnSet(Gains(a), Filled \cup {o})
  <2>1. IsFiniteSet(Filled) /\ Gains(a)[o] \in Int /\ \A p \in Filled : Gains(a)[p] \in Int
    BY <1>1, GainsAreNumbers DEF Filled, IsKnown
  <2>2. SumFunctionOnSet(Gains(a), Filled \cup {o})
            = Gains(a)[o] + SumFunctionOnSet(Gains(a), Filled)
    BY <1>1, <2>1, SumWith
  <2>3. SumFunctionOnSet(Gains(a), Filled) \in Int
    BY <2>1, SumIsInt
  <2>4. Gains(a)[o] = Gain(o, a)
    BY DEF Gains
  <2>5. SeedBalances[a] \in Int
    BY SeedCovers
  <2>6. balances'[a] = (SeedBalances[a] + SumFunctionOnSet(Gains(a), Filled)) + Gain(o, a)
    BY <1>1 DEF BalancesAreFills
  <2> QED
    BY <2>1, <2>2, <2>3, <2>4, <2>5, <2>6
<1>4. \A a : Gains(a)' = Gains(a)
  BY <1>1 DEF Gains, Gain, IsBuy, Base, Quote, Quantity, Value, Fee
<1>5. SeedBalances' = SeedBalances
  BY DEF SeedBalances
<1> QED
  BY <1>2, <1>3, <1>4, <1>5 DEF BalancesAreFills

(* A book without fills has the balances it was seeded with. *)
LEMMA NoFills ==
  \A f, a : a \in Assets => SeedBalances[a] = SeedBalances[a] + SumFunctionOnSet(f, {})
BY SumOfNone, SeedCovers

LEMMA SeedExplained ==
  ASSUME Seed
  PROVE  BalancesAreFills'
<1>1. balances' = SeedBalances /\ Filled' = {} /\ SeedBalances' = SeedBalances
  BY DEF Seed, Filled, IsDone, NoOrder, SeedBalances
<1> QED
  BY <1>1, NoFills DEF BalancesAreFills

LEMMA InitExplained ==
  ASSUME PaperInit
  PROVE  BalancesAreFills
<1>1. balances = SeedBalances /\ Filled = {}
  BY DEF PaperInit, Init, VenueInit, Filled, IsDone, NoOrder
<1> QED
  BY <1>1, NoFills DEF BalancesAreFills

(* Every step keeps the balances explained by the fills. *)
LEMMA FillsExplain ==
  ASSUME TypeInv, BalancesAreFills, [PaperNext]_allVars
  PROVE  BalancesAreFills'
<1>1. CASE \E o \in Orders : FillOnFetch(o)
  BY <1>1, FillExplained
<1>2. CASE Seed
  BY <1>2, SeedExplained
<1>3. ASSUME NEW o \in Orders, CancelSucceeds(o), UNCHANGED paperVars
      PROVE  BalancesAreFills'
  <2>1. Filled' = Filled
    BY <1>3 DEF Filled, IsDone, IsOpen, CancelSucceeds, TypeInv, IdInv, OpenUnfilled, TypeOK,
       VenueTypeOK, VenueOrder
  <2> QED
    BY <1>3, <2>1, FillsKept DEF CancelSucceeds, paperVars, bookVars
<1>4. ASSUME CreatePaperOrder
      PROVE  BalancesAreFills'
  <2>1. Placing \in Orders /\ ~IsKnown(Placing) /\ DOMAIN venue = Orders
    BY <1>4 DEF TypeInv, IdInv, PlacingFrame, CreatePaperOrder, CreateSucceeds
  <2>2. Filled' = Filled
    BY <1>4, <2>1 DEF Filled, IsKnown, IsDone, CreatePaperOrder, CreateSucceeds, NewOrder
  <2> QED
    BY <1>4, <2>2, FillsKept DEF CreatePaperOrder, CreateSucceeds
<1>5. ASSUME NEW s \in Symbols, PutPaperOrder(s)
      PROVE  BalancesAreFills'
  <2>1. UNCHANGED <<venue, balances>> /\ Filled' = Filled
    BY <1>5 DEF PutPaperOrder, PutUnconfirmed, bookVars, Filled, IsDone
  <2>2. \A p \in Orders : IsDone(p) => p # nextOrder
    BY KnownIsIssued DEF TypeInv, IdInv, IsKnown
  <2>3. \A p \in Orders : IsDone(p) => terms'[p] = terms[p] /\ symbolOf'[p] = symbolOf[p]
    BY <1>5, <2>2 DEF PutPaperOrder, PutUnconfirmed, TypeInv, IdInv, BookTypeOK
  <2> QED
    BY <2>1, <2>3, FillsKept
<1>6. CASE UNCHANGED <<balances, venue, terms, symbolOf>>
  BY <1>6, FillsStay
<1> QED
  BY <1>1, <1>2, <1>3, <1>4, <1>5, <1>6, BookSteps

----------------------------------------------------------------------------
(* What the files say of the book's orders. *)

(* What holds of files, book and status at every point of a command. *)
BookingFrame == StatusInHand /\ UnplacedUnbooked /\ BookedAsRecorded

(* Over a step that leaves files, book, status and place alone, or ends the
   command before anything is booked. *)
LEMMA FrameKept ==
  ASSUME TypeInv, TypeInv', BookingFrame,
         UNCHANGED <<venue, store, ledger, fees, fetched, nextOrder>>,
         torn' = {} => torn = {},
         \A o \in Orders : Held(o)' => Held(o),
         \A o \in Orders : HalfBooked(o)' => HalfBooked(o),
         \A o \in Orders : HalfBooked(o) => HalfBooked(o)' \/ torn' # {},
         pc' = "create" => pc = "create"
  PROVE  BookingFrame'
<1>1. StatusInHand'
  BY DEF BookingFrame, StatusInHand, IsDone
<1>2. UnplacedUnbooked'
  BY DEF BookingFrame, UnplacedUnbooked, Placing
<1>3. BookedAsRecorded'
  BY DEF BookingFrame, BookedAsRecorded, BookedOf, IsKnown, IsOpen, IsDone, Tracked
<1> QED
  BY <1>1, <1>2, <1>3 DEF BookingFrame

(* A command ends: only a kill can leave a booking half way, and that is a
   torn one. *)
LEMMA EndFrame ==
  ASSUME TypeInv, TypeInv', BookingFrame,
         FinishPlacing \/ ReadFails \/ KillPaperCommand
  PROVE  BookingFrame'
<1>1. /\ UNCHANGED <<venue, store, ledger, fees, nextOrder>>
      /\ pc' = "idle" /\ fetched' = NoSnapshot
      /\ torn' = {} => torn = {} /\ \A o \in Orders : ~HalfBooked(o)
  <2>1. CASE FinishPlacing \/ ReadFails
    BY <2>1 DEF FinishPlacing, ReadFails, Forget, venueVars, storeVars, auditVars, HalfBooked
  <2>2. CASE KillPaperCommand
    <3>1. \A o \in Orders : HalfBooked(o) => o \in todo
      BY DEF HalfBooked, IsNext
    <3> QED
      BY <2>2, <3>1 DEF KillPaperCommand, Killed, Forget, venueVars, storeVars, auditVars,
         HalfBooked
  <2> QED
    BY <2>1, <2>2
<1>2. StatusInHand'
  BY <1>1 DEF BookingFrame, StatusInHand, Held, HalfBooked, NoSnapshot
<1>3. UnplacedUnbooked'
  BY <1>1 DEF BookingFrame, UnplacedUnbooked
<1>4. BookedAsRecorded'
  BY <1>1 DEF BookingFrame, BookedAsRecorded, BookedOf, HalfBooked, IsKnown, IsOpen, IsDone,
     Tracked
<1> QED
  BY <1>2, <1>3, <1>4 DEF BookingFrame

LEMMA StartFrame ==
  ASSUME TypeInv, TypeInv', BookingFrame, NEW S \in SUBSET Symbols,
         StartReconcile(S) \/ StartRebalance(S) \/ StartCancel(S)
  PROVE  BookingFrame'
<1> USE DEF StartReconcile, StartRebalance, StartCancel, venueVars, storeVars, executionVars,
            auditVars
<1>1. \A o \in Orders : ~Held(o)' /\ ~HalfBooked(o)' /\ ~HalfBooked(o)
  BY DEF Held, HalfBooked
<1> QED
  BY <1>1, FrameKept

(* Resolving and reading; what is read of an order that is done is final. *)
LEMMA ReadFrame ==
  ASSUME TypeInv, TypeInv', BookingFrame, NEW o \in Orders,
         FindOpen(o) \/ LeaveUnresolved(o) \/ FetchOrder(o), UNCHANGED executionVars
  PROVE  BookingFrame'
<1> USE DEF venueVars, storeVars, executionVars, auditVars
<1>1. CASE FindOpen(o) \/ LeaveUnresolved(o)
  <2>1. \A p \in Orders : ~Held(p)' /\ ~HalfBooked(p)' /\ ~HalfBooked(p)
    BY <1>1 DEF FindOpen, LeaveUnresolved, Held, HalfBooked
  <2> QED
    BY <1>1, <2>1, FrameKept DEF FindOpen, LeaveUnresolved
<1>2. CASE FetchOrder(o)
  <2> USE <1>2 DEF FetchOrder
  <2>1. \A p \in Orders : ~HalfBooked(p)' /\ ~HalfBooked(p) /\ (IsNext(p)' => p = o)
    BY DEF HalfBooked, IsNext, Orders
  <2>2. fetched' = StatusOf(o)
        /\ (~IsDone(o) => venue[o].filled = 0)
    BY DEF IsKnown, TypeInv, OpenUnfilled
  <2>3. StatusInHand'
    <3>1. \A p \in Orders : IsDone(p)' <=> IsDone(p)
      BY DEF IsDone
    <3>2. \A p \in Orders : Held(p)' => p = o
      BY <2>1 DEF Held
    <3> QED
      BY <2>1, <2>2, <3>1, <3>2 DEF BookingFrame, StatusInHand, StatusOf
  <2>4. UnplacedUnbooked'
    BY DEF BookingFrame, UnplacedUnbooked
  <2>5. BookedAsRecorded'
    BY <2>1 DEF BookingFrame, BookedAsRecorded, BookedOf, IsKnown, IsOpen, IsDone, Tracked
  <2> QED
    BY <2>3, <2>4, <2>5 DEF BookingFrame
<1> QED
  BY <1>1, <1>2

(* The order a booking is about is one of the book, issued and tracked. *)
LEMMA HeldIsKnown ==
  ASSUME TypeInv, NEW o \in Orders, Held(o)
  PROVE  IsKnown(o) /\ Tracked(o) /\ ~(o >= nextOrder)
BY DEF TypeInv, IdInv, ReachedFrame, HandFrame, UnissuedAreAbsent, Held, IsNext

(* The ledger line: one lot and one fee, of an order the ledger knew nothing
   of. *)
LEMMA AppendFrame ==
  ASSUME TypeInv, TypeInv', BookingFrame, NEW o \in Orders, AppendFill(o),
         UNCHANGED executionVars
  PROVE  BookingFrame'
<1> USE DEF AppendFill, venueVars, executionVars, auditVars
<1>1. IsKnown(o) /\ Tracked(o) /\ ~(o >= nextOrder) /\ Held(o) /\ ~HalfBooked(o)
  BY HeldIsKnown DEF Held, HalfBooked
<1>2. fetched.filled = 1 /\ fetched.terminal /\ store[o].booked = 0 /\ Delta(o) = 1
          /\ FeeLines = 1
  <2>1. fetched.filled \in 0..1
    BY PaperAssumption DEF TypeInv, TypeOK, ReconciliationTypeOK, Snapshot
  <2>2. store[o].booked = 0 /\ (~fetched.terminal => fetched.filled = 0)
    BY DEF BookingFrame, StatusInHand
  <2> QED
    BY <2>1, <2>2 DEF Delta, FeeLines
<1>3. /\ ledger'[o] = ledger[o] + 1 /\ fees'[o] = fees[o] + 1
      /\ \A p \in Orders : p # o => ledger'[p] = ledger[p] /\ fees'[p] = fees[p]
  BY <1>2 DEF TypeInv, TypeOK, ReconciliationTypeOK
<1>4. HalfBooked(o)' /\ \A p \in Orders : p # o => ~HalfBooked(p)' /\ ~HalfBooked(p)
  BY DEF HalfBooked, IsNext, Orders
<1>5. \A p \in Orders : Held(p)' <=> Held(p)
  BY DEF Held, IsNext
<1>6. StatusInHand'
  BY <1>2, <1>4, <1>5 DEF BookingFrame, StatusInHand, IsDone
<1>7. UnplacedUnbooked'
  BY <1>1, <1>3 DEF BookingFrame, UnplacedUnbooked
<1>8. BookedAsRecorded'
  <2>1. \A p \in Orders : (IsKnown(p)' <=> IsKnown(p)) /\ (IsDone(p)' <=> IsDone(p))
            /\ (Tracked(p)' <=> Tracked(p))
    BY DEF IsKnown, IsOpen, IsDone, Tracked
  <2>2. torn' = {} => BookedOf(o) = 0 /\ ledger[o] = 0 /\ fees[o] = 0
    BY <1>1 DEF BookingFrame, BookedAsRecorded, BookedOf
  <2>3. torn' = {} => BookedOf(o)' = 1 /\ ledger'[o] = 1 /\ fees'[o] = 1
    BY <1>1, <1>3, <1>4, <2>1, <2>2 DEF BookedOf
  <2>4. \A p \in Orders : p # o => BookedOf(p)' = BookedOf(p)
    BY <1>4, <2>1 DEF BookedOf
  <2> QED
    BY <1>1, <1>3, <2>1, <2>3, <2>4 DEF BookingFrame, BookedAsRecorded
<1> QED
  BY <1>6, <1>7, <1>8 DEF BookingFrame

(* The state and the event change nothing of it. *)
LEMMA EventFrame ==
  ASSUME TypeInv, TypeInv', BookingFrame, NEW o \in Orders, SaveState(o) \/ AppendEvent(o),
         UNCHANGED executionVars
  PROVE  BookingFrame'
<1> USE DEF SaveState, AppendEvent, venueVars, executionVars, auditVars
<1>1. \A p \in Orders : (Held(p)' <=> Held(p)) /\ (HalfBooked(p)' <=> HalfBooked(p))
  BY DEF Held, HalfBooked, IsNext
<1> QED
  BY <1>1, FrameKept

(* The record is advanced or dropped: what it says is what the ledger has.
   *)
LEMMA AdvanceFrame ==
  ASSUME TypeInv, TypeInv', BookingFrame, NEW o \in Orders, AdvanceRecord(o),
         UNCHANGED executionVars
  PROVE  BookingFrame'
<1> USE DEF AdvanceRecord, venueVars, executionVars, auditVars
<1>1. IsKnown(o) /\ Tracked(o) /\ Held(o) /\ IsNext(o)
  BY HeldIsKnown DEF Held
<1>2. /\ store[o].booked = 0
      /\ ~fetched.terminal => fetched.filled = 0
      /\ fetched.terminal => IsDone(o) /\ fetched.filled = venue[o].filled
      /\ HalfBooked(o) => fetched.filled = 1
      /\ ~HalfBooked(o) => fetched.filled = 0
  <2>1. fetched.filled \in Nat
    BY VenueAssumption DEF TypeInv, TypeOK, ReconciliationTypeOK, Snapshot
  <2> QED
    BY <1>1, <2>1 DEF BookingFrame, StatusInHand, HalfBooked, Delta
<1>3. /\ store'[o] = RecordAfter(o) /\ \A p \in Orders : p # o => store'[p] = store[p]
  BY DEF TypeInv, IdInv
<1>4. \A p \in Orders : ~Held(p)' /\ ~HalfBooked(p)' /\ (HalfBooked(p) => p = o)
  BY <1>1 DEF Held, HalfBooked, IsNext, Orders
<1>5. /\ store'[o].booked = 0
      /\ Tracked(o)' <=> ~fetched.terminal
  BY <1>2, <1>3 DEF RecordAfter, Absent, Tracked
<1>6. StatusInHand'
  BY <1>3, <1>4, <1>5 DEF BookingFrame, StatusInHand, NoSnapshot
<1>7. UnplacedUnbooked'
  BY DEF BookingFrame, UnplacedUnbooked
<1>8. BookedAsRecorded'
  <2>1. \A p \in Orders : (IsKnown(p)' <=> IsKnown(p)) /\ (IsDone(p)' <=> IsDone(p))
    BY DEF IsKnown, IsOpen, IsDone
  <2>2. torn' = {} => BookedOf(o)' = BookedOf(o)
    BY <1>1, <1>2, <1>4, <1>5 DEF BookedOf
  <2>3. \A p \in Orders : p # o => BookedOf(p)' = BookedOf(p) /\ (Tracked(p)' <=> Tracked(p))
    BY <1>3, <1>4 DEF BookedOf, Tracked
  <2>4. ~Tracked(o)' => IsDone(o)'
    BY <1>2, <1>5, <2>1
  <2> QED
    BY <2>1, <2>2, <2>3, <2>4 DEF BookingFrame, BookedAsRecorded
<1> QED
  BY <1>6, <1>7, <1>8 DEF BookingFrame

LEMMA ScanFrame ==
  ASSUME TypeInv, TypeInv', BookingFrame,
         \/ \E s \in Symbols : ListOpen(s)
         \/ FinishCancelling
         \/ ReturnFromReconcile /\ UNCHANGED executionVars
  PROVE  BookingFrame'
<1> USE DEF ListOpen, FinishCancelling, ReturnFromReconcile,
            venueVars, storeVars, frameVars, executionVars, auditVars
<1>1. \A p \in Orders : ~Held(p)' /\ ~HalfBooked(p)' /\ ~HalfBooked(p)
  BY DEF TypeInv, TypeOK, ReconciliationTypeOK, Held, HalfBooked, IsNext
<1>2. pc' # "create"
  BY DEF TypeInv, TypeOK, ReconciliationTypeOK
<1> QED
  BY <1>1, <1>2, FrameKept

(* A fill and a cancel: the order was in the book and open, so it has its
   record. *)
LEMMA VenueFrameKept ==
  ASSUME TypeInv, TypeInv', BookingFrame, NEW o \in Orders,
         UNCHANGED <<store, ledger, fees, fetched, nextOrder, pc, todo, torn>>,
         \A p \in Orders : p # o => venue'[p] = venue[p],
         IsOpen(o), IsDone(o)', pc \in {"resolve", "fetch", "scan"}
  PROVE  BookingFrame'
<1>1. \A p \in Orders : ~Held(p)' /\ ~HalfBooked(p)' /\ ~HalfBooked(p)
  BY DEF Held, HalfBooked
<1>2. StatusInHand'
  BY <1>1 DEF BookingFrame, StatusInHand
<1>3. UnplacedUnbooked'
  BY DEF BookingFrame, UnplacedUnbooked
<1>4. BookedAsRecorded'
  <2>1. IsKnown(o) /\ ~IsDone(o)
    BY DEF IsKnown, IsOpen, IsDone
  <2>2. torn' = {} => Tracked(o) /\ ledger[o] = 0 /\ fees[o] = 0
    BY <1>1, <2>1 DEF BookingFrame, BookedAsRecorded, BookedOf
  <2>3. \A p \in Orders : p # o => (IsKnown(p)' <=> IsKnown(p))
            /\ (IsDone(p)' <=> IsDone(p)) /\ venue'[p].filled = venue[p].filled
    BY DEF IsKnown, IsOpen, IsDone
  <2> QED
    BY <1>1, <2>2, <2>3 DEF BookingFrame, BookedAsRecorded, BookedOf, Tracked
<1> QED
  BY <1>2, <1>3, <1>4 DEF BookingFrame

(* They are such steps. *)
LEMMA TradeFrame ==
  ASSUME TypeInv, TypeInv', BookingFrame, NEW o \in Orders, FillOnFetch(o) \/ CancelSucceeds(o)
  PROVE  BookingFrame'
<1>1. venue[o].filled + 1 = Lots /\ DOMAIN venue = Orders /\ venue[o] \in VenueOrder
  BY PaperAssumption DEF FillOnFetch, CancelSucceeds, TypeInv, IdInv, OpenUnfilled, TypeOK,
     VenueTypeOK
<1>2. IsOpen(o) /\ IsDone(o)' /\ \A p \in Orders : p # o => venue'[p] = venue[p]
  BY <1>1 DEF FillOnFetch, FillLot, CancelSucceeds, IsOpen, IsDone, VenueOrder
<1>3. UNCHANGED <<store, ledger, fees, fetched, nextOrder, pc, todo, torn>>
          /\ pc \in {"resolve", "fetch", "scan"}
  BY DEF FillOnFetch, Fetching, CancelSucceeds, storeVars, frameVars, executionVars, auditVars
<1> QED
  BY <1>2, <1>3, VenueFrameKept

(* The record of a new id. *)
LEMMA PutFrame ==
  ASSUME TypeInv, TypeInv', BookingFrame, NEW s \in Symbols, PutPaperOrder(s)
  PROVE  BookingFrame'
<1> USE DEF PutPaperOrder, PutUnconfirmed, auditVars
<1>1. PICK n \in Orders : n = nextOrder
  BY VenueAssumption DEF TypeInv, IdInv, Orders
<1>2. /\ store'[n] = Unconfirmed /\ \A p \in Orders : p # n => store'[p] = store[p]
      /\ nextOrder' = n + 1 /\ Placing' = n /\ ~IsKnown(n)
      /\ \A p \in Orders : p >= nextOrder' => p >= nextOrder
  BY <1>1 DEF TypeInv, IdInv, UnissuedAreAbsent, Placing, Orders
<1>3. \A p \in Orders : ~Held(p)' /\ ~HalfBooked(p)' /\ ~HalfBooked(p)
  BY DEF Held, HalfBooked
<1>4. StatusInHand'
  BY <1>2, <1>3 DEF BookingFrame, StatusInHand, Unconfirmed
<1>5. UnplacedUnbooked'
  BY <1>1, <1>2 DEF BookingFrame, UnplacedUnbooked, Orders
<1>6. BookedAsRecorded'
  <2>1. \A p \in Orders : (IsKnown(p)' <=> IsKnown(p)) /\ (IsDone(p)' <=> IsDone(p))
    BY DEF IsKnown, IsOpen, IsDone
  <2>2. \A p \in Orders : p # n => BookedOf(p)' = BookedOf(p) /\ (Tracked(p)' <=> Tracked(p))
    BY <1>2, <1>3 DEF BookedOf, Tracked
  <2> QED
    BY <1>2, <2>1, <2>2 DEF BookingFrame, BookedAsRecorded
<1> QED
  BY <1>4, <1>5, <1>6 DEF BookingFrame

(* Its order in the book: the ledger has nothing of it yet. *)
LEMMA CreateFrame ==
  ASSUME TypeInv, TypeInv', BookingFrame, CreatePaperOrder
  PROVE  BookingFrame'
<1> USE DEF CreatePaperOrder, CreateSucceeds, storeVars, executionVars, auditVars
<1>1. PICK n \in Orders : n = Placing
  BY DEF TypeInv, IdInv, PlacingFrame
<1>2. /\ venue'[n] = NewOrder /\ Tracked(n) /\ ~IsKnown(n)
      /\ \A p \in Orders : p # n => venue'[p] = venue[p]
  BY <1>1 DEF TypeInv, IdInv, PlacingFrame
<1>3. \A p \in Orders : ~Held(p)' /\ ~HalfBooked(p)' /\ ~HalfBooked(p)
  BY DEF Held, HalfBooked
<1>4. StatusInHand'
  BY <1>3 DEF BookingFrame, StatusInHand
<1>5. UnplacedUnbooked'
  BY DEF BookingFrame, UnplacedUnbooked
<1>6. BookedAsRecorded'
  <2>1. \A p \in Orders : p # n => (IsKnown(p)' <=> IsKnown(p))
            /\ (IsDone(p)' <=> IsDone(p)) /\ venue'[p].filled = venue[p].filled
    BY <1>2 DEF IsKnown, IsOpen, IsDone
  <2>2. ledger[n] = 0 /\ fees[n] = 0
    BY <1>1 DEF BookingFrame, UnplacedUnbooked
  <2> QED
    BY <1>2, <1>3, <2>1, <2>2 DEF BookingFrame, BookedAsRecorded, BookedOf, Tracked
<1> QED
  BY <1>4, <1>5, <1>6 DEF BookingFrame

(* The record of the order being placed is dropped, or gets its id. *)
LEMMA PlacedFrame ==
  ASSUME TypeInv, TypeInv', BookingFrame, RejectPaperOrder \/ RemoveRejected \/ StampId
  PROVE  BookingFrame'
<1> USE DEF venueVars, storeVars, executionVars, auditVars
<1>1. CASE RejectPaperOrder
  <2>1. \A p \in Orders : ~Held(p)' /\ ~HalfBooked(p)' /\ ~HalfBooked(p)
    BY <1>1 DEF RejectPaperOrder, CreateRejected, Held, HalfBooked
  <2> QED
    BY <1>1, <2>1, FrameKept DEF RejectPaperOrder, CreateRejected
<1>2. CASE RemoveRejected \/ StampId
  <2> USE <1>2 DEF RemoveRejected, StampId
  <2>1. PICK n \in Orders : n = Placing
    BY DEF TypeInv, IdInv, PlacingFrame
  <2>2. /\ IsKnown(n) => pc = "stamp"
        /\ Tracked(n)
        /\ store'[n] \in {Absent, Placed} /\ (pc = "stamp" => store'[n] = Placed)
        /\ \A p \in Orders : p # n => store'[p] = store[p]
    BY <2>1 DEF TypeInv, IdInv, PlacingFrame
  <2>3. \A p \in Orders : ~Held(p)' /\ ~HalfBooked(p)' /\ ~HalfBooked(p)
    BY DEF Held, HalfBooked
  <2>4. StatusInHand'
    BY <2>2, <2>3 DEF BookingFrame, StatusInHand, Absent, Placed
  <2>5. UnplacedUnbooked'
    BY DEF BookingFrame, UnplacedUnbooked
  <2>6. BookedAsRecorded'
    <3>1. \A p \in Orders : (IsKnown(p)' <=> IsKnown(p)) /\ (IsDone(p)' <=> IsDone(p))
      BY DEF IsKnown, IsOpen, IsDone
    <3>2. \A p \in Orders : IsKnown(p) => (Tracked(p)' <=> Tracked(p))
              /\ BookedOf(p)' = BookedOf(p)
      BY <2>2, <2>3 DEF BookedOf, Tracked, Placed
    <3> QED
      BY <3>1, <3>2 DEF BookingFrame, BookedAsRecorded
  <2> QED
    BY <2>4, <2>5, <2>6 DEF BookingFrame
<1> QED
  BY <1>1, <1>2

LEMMA AroundFrame ==
  ASSUME TypeInv, TypeInv', BookingFrame,
         PaperEnvironment \/ UNCHANGED allVars
  PROVE  BookingFrame'
<1> USE DEF vars, allVars, venueVars, storeVars, frameVars, executionVars, auditVars
<1>1. ASSUME (\E s \in Symbols : MarketMoves(s) \/ IntervalElapses(s)) \/ UNCHANGED allVars
      PROVE  BookingFrame'
  <2>1. \A p \in Orders : (Held(p)' <=> Held(p)) /\ (HalfBooked(p)' <=> HalfBooked(p))
    BY <1>1 DEF MarketMoves, IntervalElapses, Held, HalfBooked, IsNext
  <2> QED
    BY <1>1, <2>1, FrameKept DEF MarketMoves, IntervalElapses
<1>2. CASE Seed
  <2> USE <1>2 DEF Seed
  <2>1. \A p \in Orders : ~Held(p)' /\ ~HalfBooked(p)' /\ ~IsKnown(p)'
    BY DEF Held, HalfBooked, IsKnown, IsOpen, IsDone, NoOrder
  <2> QED
    BY <2>1 DEF BookingFrame, StatusInHand, UnplacedUnbooked, BookedAsRecorded, Placing
<1> QED
  BY <1>1, <1>2 DEF PaperEnvironment

LEMMA InitFrame ==
  ASSUME PaperInit
  PROVE  BookingFrame
<1> USE DEF PaperInit, Init, VenueInit, ReconciliationInit
<1>1. \A o \in Orders : ~Held(o) /\ ~HalfBooked(o) /\ ~IsKnown(o)
  BY DEF Held, HalfBooked, IsKnown, IsOpen, IsDone, NoOrder
<1> QED
  BY <1>1 DEF BookingFrame, StatusInHand, UnplacedUnbooked, BookedAsRecorded, Absent, NoSnapshot

(* Every step keeps the frame. *)
LEMMA FrameStays ==
  ASSUME TypeInv, TypeInv', BookingFrame, [PaperNext]_allVars
  PROVE  BookingFrame'
<1>1. CASE PaperEnvironment \/ UNCHANGED allVars
  BY <1>1, AroundFrame
<1>2. CASE Start /\ UNCHANGED paperVars
  BY <1>2, StartFrame DEF Start
<1>3. CASE PaperReconcile
  <2>1. ASSUME NEW o \in Orders, UnknownOrder(o) \/ TickerFails(o)
        PROVE  BookingFrame'
    BY <2>1, EndFrame DEF UnknownOrder, TickerFails
  <2>2. ASSUME NEW o \in Orders, FetchPaperOrder(o)
        PROVE  BookingFrame'
    BY <2>2, ReadFrame DEF FetchPaperOrder
  <2>3. ASSUME NEW o \in Orders, UNCHANGED <<executionVars, paperVars>>,
               \/ FindOpen(o) \/ LeaveUnresolved(o) \/ AppendFill(o)
               \/ SaveState(o) \/ AppendEvent(o) \/ AdvanceRecord(o)
        PROVE  BookingFrame'
    BY <2>3, ReadFrame, AppendFrame, EventFrame, AdvanceFrame
  <2>4. ASSUME ReturnFromReconcile, UNCHANGED <<executionVars, paperVars>>
        PROVE  BookingFrame'
    BY <2>4, ScanFrame
  <2> QED
    BY <1>3, <2>1, <2>2, <2>3, <2>4, TradeFrame DEF PaperReconcile
<1>4. CASE PaperCancel
  BY <1>4, ScanFrame, TradeFrame DEF PaperCancel
<1>5. CASE PaperPlace
  BY <1>5, PutFrame, CreateFrame, PlacedFrame, EndFrame DEF PaperPlace
<1>6. CASE KillPaperCommand
  BY <1>6, EndFrame
<1> QED
  BY <1>1, <1>2, <1>3, <1>4, <1>5, <1>6 DEF PaperNext

----------------------------------------------------------------------------

(* Between commands the ledger's lines are the fills. *)
LEMMA LedgerIsFills ==
  ASSUME TypeInv, BookingFrame, BalancesAreFills
  PROVE  LedgerExplainsBalances
<1> DEFINE book == {o \in Orders : IsKnown(o)}
           replayed(a) == [o \in Orders |-> Replayed(o, a)]
<1> SUFFICES ASSUME pc = "idle", torn = {}, \A o \in book : IsDone(o) => ~Tracked(o),
                    NEW a \in Assets
             PROVE  balances[a] = SeedBalances[a] + SumFunctionOnSet(replayed(a), book)
  BY DEF LedgerExplainsBalances
<1>1. ASSUME NEW o \in book
      PROVE  /\ ledger[o] = IF o \in Filled THEN 1 ELSE 0
             /\ fees[o] = IF o \in Filled THEN 1 ELSE 0
  <2>1. ~HalfBooked(o)
    BY DEF HalfBooked
  <2>2. venue[o].filled \in 0..1
    BY PaperAssumption DEF TypeInv, TypeOK, VenueTypeOK, VenueOrder
  <2>3. Tracked(o) <=> ~IsDone(o)
    BY DEF BookingFrame, BookedAsRecorded
  <2>4. ledger[o] = BookedOf(o) /\ fees[o] = BookedOf(o)
    BY DEF BookingFrame, BookedAsRecorded
  <2>5. BookedOf(o) = IF o \in Filled THEN 1 ELSE 0
    BY <2>1, <2>2, <2>3 DEF BookedOf, Filled
  <2> QED
    BY <2>4, <2>5
<1>2. ASSUME NEW o \in book
      PROVE  replayed(a)[o] = IF o \in Filled THEN Gains(a)[o] ELSE 0
  <2>1. Quantity(o) \in Nat /\ Value(o) \in Nat /\ Fee(o) \in Nat /\ Base(o) # Quote(o)
    BY KnownIsIssued, IssuedAmounts
  <2>2. replayed(a)[o] = Replayed(o, a) /\ Gains(a)[o] = Gain(o, a)
    BY DEF Gains
  <2>3. CASE o \in Filled
    <3>1. ledger[o] = 1 /\ fees[o] = 1
      BY <1>1, <2>3
    <3>2. Replayed(o, a) = Gain(o, a)
      BY <2>1, <3>1 DEF Replayed, Gain
    <3> QED
      BY <2>2, <2>3, <3>2
  <2>4. CASE o \notin Filled
    <3>1. ledger[o] = 0 /\ fees[o] = 0
      BY <1>1, <2>4
    <3>2. Replayed(o, a) = 0
      BY <2>1, <3>1 DEF Replayed
    <3> QED
      BY <2>2, <2>4, <3>2
  <2> QED
    BY <2>3, <2>4
<1>3. Filled \in SUBSET book /\ IsFiniteSet(book) /\ \A o \in book : Gains(a)[o] \in Int
  <2>1. Filled \in SUBSET book
    BY DEF Filled, IsKnown
  <2>2. IsFiniteSet(book)
    BY OrdersAreFinite
  <2> QED
    BY <2>1, <2>2, GainsAreNumbers
<1> HIDE DEF replayed, book
<1>4. \A o \in book : replayed(a)[o] \in Int
  BY <1>2, <1>3
<1>5. SumFunctionOnSet(replayed(a), book) = SumFunctionOnSet(replayed(a), Filled)
  BY <1>2, <1>3, <1>4, SumOfRest
<1>6. SumFunctionOnSet(replayed(a), Filled) = SumFunctionOnSet(Gains(a), Filled)
  <2>1. IsFiniteSet(Filled) /\ \A o \in Filled : replayed(a)[o] = Gains(a)[o]
    BY <1>2, <1>3, FS_Subset
  <2> QED
    BY <2>1, SumSame
<1> QED
  BY <1>5, <1>6 DEF BalancesAreFills

(* Between commands, with no booking torn by a kill and every finished order
   let go, replaying the ledger's lines of the book's orders over the seeded
   balances, each with the fee it carries, gives the balances of the book
   (PaperExchangeStore._fill against ReconciliationManager._write_fill). *)
THEOREM PaperLedgerExplains == PaperSpec => []LedgerExplainsBalances
<1> DEFINE Inv == TypeInv /\ BookingFrame /\ BalancesAreFills
<1>1. PaperInit => Inv
  BY InitTypes, InitFrame, InitExplained
<1>2. Inv /\ [PaperNext]_allVars => Inv'
  BY TypesKept, FrameStays, FillsExplain
<1>3. Inv => LedgerExplainsBalances
  BY LedgerIsFills
<1> QED
  BY <1>1, <1>2, <1>3, PTL DEF PaperSpec

=============================================================================
