------------------------------ MODULE Backtest ------------------------------
(***************************************************************************)
(* simulation run and simulation report: the replay of stored candles      *)
(* through RebalanceManager.decide, bar by bar, the run directory it       *)
(* writes, and the report read from that directory.                        *)
(*                                                                         *)
(* A candle is [open, low, high, close], its open on the clock of ticks;   *)
(* prices are whole numbers.  An order decided on a bar rests until the    *)
(* next bar and is filled there or dropped.                                *)
(***************************************************************************)
EXTENDS RebalanceDecision, Subsequences, FiniteSetsExt
C == INSTANCE CostBasis

CONSTANTS
    Series,       \* what the store may hold: [bars, fine], each a sequence of
                  \* candles in the order of their opens
    Requests,     \* the commands given: [start, end, pair, useFine, schedule]
    Capital,      \* --capital, in hundredths
    FeePct,       \* --fee-rate
    MinCost,      \* --min-cost, in hundredths; 0: none
    MinIntervals, \* what min_interval_hours may be, in ticks; 0: none
    BarLength,    \* length of a bar, in ticks
    YearLength,   \* ticks of a calendar year
    MaxKills      \* bound: commands killed half way

Candles == [open: Nat, low: Nat, high: Nat, close: Nat]
Apart(candles, distance) ==
    \A i \in 1..(Len(candles) - 1) : candles[i + 1].open >= candles[i].open + distance

ASSUME BacktestAssumption ==
    /\ \A s \in Series : /\ s.bars \in Seq(Candles) /\ Apart(s.bars, BarLength)
                         /\ s.fine \in Seq(Candles) /\ Apart(s.fine, 1)
    /\ \A r \in Requests : /\ r.start \in Nat /\ r.end \in Nat /\ r.useFine \in BOOLEAN
                           /\ r.pair \in PairConfig
                           /\ r.schedule \in Seq([at: Nat, pct: Int])
    /\ Capital \in Nat /\ FeePct \in 0..100 /\ MinCost \in Nat
    /\ MinIntervals \subseteq Nat /\ BarLength \in Nat \ {0} /\ YearLength \in Nat \ {0}
    /\ MaxKills \in Nat

VARIABLES
    series,     \* the candles stored
    interval,   \* min_interval_hours
    pc,         \* where the running command is
    request,    \* what it was asked for
    next,       \* index of the bar it takes up next
    base,       \* the virtual balance
    stable,
    resting,    \* the order decided on the previous bar
    lastAt,     \* last_rebalance_at
    fills,      \* fills so far
    placed,     \* orders placed
    rejects,    \* of these, rejected below MinCost
    toWrite,    \* fills not in the ledger yet
    runDirs,    \* run id -> what its directory holds
    torn,       \* ids whose directory a kill left half rewritten
    outcome,    \* how the last command ended
    kills       \* commands killed

replayVars == <<next, base, stable, resting, lastAt, fills, placed, rejects>>
dirVars == <<toWrite, runDirs, torn>>
worldVars == <<series, interval>>
vars == <<worldVars, pc, request, replayVars, dirVars, outcome, kills>>

NoRequest == [start |-> 0]
NoOrder == [side |-> "none"]
Never == -1
NoMeta == [bars |-> 0]
TornMeta == [bars |-> Never]
TornLine == [qty |-> 0]

Init ==
    /\ series \in Series /\ interval \in MinIntervals
    /\ pc = "idle" /\ request = NoRequest
    /\ next = 1 /\ base = 0 /\ stable = 0 /\ resting = NoOrder /\ lastAt = Never
    /\ fills = <<>> /\ placed = 0 /\ rejects = 0
    /\ toWrite = <<>> /\ runDirs = [id \in {} |-> 0] /\ torn = {}
    /\ outcome = "none" /\ kills = 0

Finish(result) ==
    /\ pc' = "idle" /\ request' = NoRequest
    /\ next' = 1 /\ base' = 0 /\ stable' = 0 /\ resting' = NoOrder /\ lastAt' = Never
    /\ fills' = <<>> /\ placed' = 0 /\ rejects' = 0 /\ toWrite' = <<>>
    /\ outcome' = result

----------------------------------------------------------------------------
(* The target schedule: [at, pct] steps; <<>> when --targets is not given.   *)

(* load_target_schedule: in range, dates strictly increasing. *)
ValidSchedule(s) ==
    /\ \A i \in DOMAIN s : s[i].pct \in 0..100
    /\ \A i \in 1..(Len(s) - 1) : s[i].at < s[i + 1].at

(* target_at: the last step that has come into effect; before the first, the
   target the pair is configured with. *)
TargetAt(s, open, configured) ==
    LET effective == {i \in DOMAIN s : s[i].at <= open}
    IN  IF effective = {} THEN configured ELSE s[Max(effective)].pct

(* _target_pair *)
PairAt(open) ==
    [request.pair EXCEPT !.target = TargetAt(request.schedule, open, @)]

----------------------------------------------------------------------------
(* The replay. *)

Within(candles, from, to) ==
    Picked(candles, {i \in DOMAIN candles : candles[i].open \in from..(to - 1)})

Clipped(candles) == Within(candles, request.start, request.end)
Bars == Clipped(series.bars)
Bar == Bars[next]

(* _snapshot: the close stands for last, bid and ask. *)
SnapshotAt(bar, b, s, at) ==
    [base |-> b, baseFree |-> b, stable |-> s, stableFree |-> s,
     last |-> bar.close, bid |-> bar.close, ask |-> bar.close, active |-> TRUE,
     cooling |-> interval > 0 /\ at # Never /\ bar.open - at < interval]

CrossedBy(c) ==
    IF resting.side = "buy" THEN 100 * c.low <= resting.limit
    ELSE 100 * c.high >= resting.limit

(* Mutant: the order may fill in the bar it was decided on. *)
FromItsOwnBar ==
    LET previous == Bars[next - 1].open
    IN  IF request.useFine THEN Within(Clipped(series.fine), previous, Bar.open)
        ELSE <<Bars[next - 1]>>

(* Mutant: every finer candle from the bar on. *)
ToTheEnd ==
    IF request.useFine THEN Within(Clipped(series.fine), Bar.open, request.end) ELSE <<Bar>>

(* _FineIndex.window, or the bar itself: where the order may fill.  The
   window of finer candles is as long as the distance to the previous bar. *)
Window ==
    IF request.useFine
    THEN Within(Clipped(series.fine), Bar.open, Bar.open + (Bar.open - Bars[next - 1].open))
    ELSE <<Bar>>

(* _resolve: the first candle that crosses the limit. *)
Crossing == LET candles == Window IN {i \in DOMAIN candles : CrossedBy(candles[i])}
FillCandle == Window[Min(Crossing)]

Filled == resting # NoOrder /\ Crossing # {}

FeeOf(o) == (o.notional * FeePct) \div 100

(* _apply_fill *)
FillOf(o, c) ==
    [side |-> o.side, price |-> o.limit, qty |-> o.amount, fee |-> FeeOf(o),
     feeIn |-> "quote", at |-> c.open, decided |-> Bars[next - 1].open]

BaseAfter == IF ~Filled THEN base
             ELSE IF resting.side = "buy" THEN base + resting.amount ELSE base - resting.amount
StableAfter == IF ~Filled THEN stable
               ELSE IF resting.side = "buy" THEN stable - (resting.notional + FeeOf(resting))
               ELSE stable + (resting.notional - FeeOf(resting))

(* validate_order *)
Accepted(o) == MinCost = 0 \/ o.notional >= MinCost

(* Mutant: an order that finds no successor stays in the book. *)
StaysResting(p, n) ==
    IF Actionable(p, n) THEN IF Accepted(Proposed(p, n)) THEN Proposed(p, n) ELSE NoOrder
    ELSE resting

(* The order left for the next bar; whatever rested before is gone. *)
RestingAfter(p, n) ==
    IF Actionable(p, n) /\ Accepted(Proposed(p, n)) THEN Proposed(p, n) ELSE NoOrder

(* Mutant: the fill is stamped with the bar it was decided on. *)
StampOfDecision == IF Filled THEN Bars[next - 1].open ELSE lastAt

(* last_rebalance_at is the open of the candle that filled the order. *)
StampAfter == IF Filled THEN FillCandle.open ELSE lastAt

(* One bar: the order of the previous bar is resolved first, then the next
   is decided on. *)
ReplayBar ==
    /\ pc = "replay"
    /\ next <= Len(Bars)
    /\ base' = BaseAfter /\ stable' = StableAfter
    /\ fills' = IF Filled THEN Append(fills, FillOf(resting, FillCandle)) ELSE fills
    /\ lastAt' = StampAfter
    /\ LET p == PairAt(Bar.open)
           n == SnapshotAt(Bar, base', stable', lastAt')
       IN  /\ resting' = RestingAfter(p, n)
           /\ placed' = placed + IF Actionable(p, n) THEN 1 ELSE 0
           /\ rejects' = rejects + IF Actionable(p, n) /\ ~Accepted(Proposed(p, n)) THEN 1 ELSE 0
    /\ next' = next + 1
    /\ UNCHANGED <<worldVars, pc, request, dirVars, outcome, kills>>

----------------------------------------------------------------------------
(* The command and its run directory. *)

(* simulation run starts: the schedule is loaded. *)
StartRun ==
    /\ pc = "idle"
    /\ \E r \in Requests : request' = r
    /\ pc' = "read"
    /\ outcome' = "none"
    /\ UNCHANGED <<worldVars, replayVars, dirVars, kills>>

(* Nothing to replay, or nothing to fill from. *)
Refused ==
    \/ ~ValidSchedule(request.schedule)
    \/ Bars = <<>>
    \/ request.useFine /\ Clipped(series.fine) = <<>>

RefuseRun ==
    /\ pc = "read"
    /\ Refused
    /\ Finish("failed")
    /\ UNCHANGED <<worldVars, runDirs, torn, kills>>

ReadCandles ==
    /\ pc = "read"
    /\ ~Refused
    /\ pc' = "replay"
    /\ stable' = Capital
    /\ UNCHANGED <<worldVars, request, next, base, resting, lastAt, fills, placed, rejects,
                   dirVars, outcome, kills>>

(* _run_id: the digest names the request. *)
RunId == request

Known(id) == id \in DOMAIN runDirs
MetaOf(id) == IF Known(id) THEN runDirs[id].meta ELSE NoMeta

(* Mutant: the ledger of an earlier run is appended to. *)
LedgerKept == IF Known(RunId) THEN runDirs[RunId].ledger ELSE <<>>

(* The ledger is written from scratch: an old one is removed first. *)
EmptiedLedger == <<>>

PutDir(ledger, meta) ==
    runDirs' = [id \in DOMAIN runDirs \cup {RunId} |->
                   IF id = RunId THEN [ledger |-> ledger, meta |-> meta] ELSE runDirs[id]]

OpenRunDir ==
    /\ pc = "replay"
    /\ next > Len(Bars)
    /\ PutDir(EmptiedLedger, MetaOf(RunId))
    /\ toWrite' = fills
    /\ pc' = "write"
    /\ UNCHANGED <<worldVars, request, replayVars, torn, outcome, kills>>

(* LedgerStore.append_fill, once per fill. *)
WriteFill ==
    /\ pc = "write"
    /\ toWrite # <<>>
    /\ PutDir(Append(runDirs[RunId].ledger, Head(toWrite)), MetaOf(RunId))
    /\ toWrite' = Tail(toWrite)
    /\ UNCHANGED <<worldVars, pc, request, replayVars, torn, outcome, kills>>

(* run.json, last: what the run was and where it ended. *)
WriteMeta ==
    /\ pc = "write"
    /\ toWrite = <<>>
    /\ PutDir(runDirs[RunId].ledger,
              [bars |-> Len(Bars), fills |-> Len(fills), finalBase |-> base,
               finalStable |-> stable, finalClose |-> Bars[Len(Bars)].close])
    /\ torn' = torn \ {RunId}
    /\ Finish("ok")
    /\ UNCHANGED <<worldVars, kills>>

(* The process is killed: what was written of the directory stays, and with
   it, perhaps, the beginning of the line or file being written. *)
KillRun ==
    /\ pc # "idle"
    /\ kills < MaxKills   \* bound
    /\ kills' = kills + 1
    /\ torn' = IF pc = "write" THEN torn \cup {RunId} ELSE torn
    /\ \/ UNCHANGED runDirs
       \/ /\ pc = "write" /\ toWrite # <<>>
          /\ PutDir(Append(runDirs[RunId].ledger, TornLine), MetaOf(RunId))
       \/ /\ pc = "write" /\ toWrite = <<>>
          /\ PutDir(runDirs[RunId].ledger, TornMeta)
    /\ Finish("killed")
    /\ UNCHANGED worldVars

Next ==
    \/ StartRun \/ RefuseRun \/ ReadCandles
    \/ ReplayBar
    \/ OpenRunDir \/ WriteFill \/ WriteMeta
    \/ KillRun

Spec == Init /\ [][Next]_vars

----------------------------------------------------------------------------
(* The report. *)

(* SimulationReportManager.report: run.json is there, and both files parse. *)
Reportable(id) ==
    /\ MetaOf(id) \notin {NoMeta, TornMeta}
    /\ \A i \in DOMAIN runDirs[id].ledger : runDirs[id].ledger[i] # TornLine

(* build_report: the position marked at the last close replayed. *)
Report(id) ==
    LET meta   == runDirs[id].meta
        acc    == C!Walk(runDirs[id].ledger)
        market == acc.position * 100 * meta.finalClose
    IN  [position   |-> acc.position,
         realized   |-> acc.realized,
         unrealized |-> market - acc.costBasis,
         total      |-> acc.realized + market - acc.costBasis,
         fees       |-> acc.fees,
         finalValue |-> meta.finalBase * 100 * meta.finalClose + meta.finalStable]

(* _by_year *)
ByYear(id) ==
    LET trades   == C!Trades(runDirs[id].ledger)
        year(i)  == trades[i].at \div YearLength
        years    == {year(i) : i \in DOMAIN trades}
        inYear(y) == {i \in DOMAIN trades : year(i) = y}
    IN  [y \in years |->
            [realized |-> SumFunctionOnSet([i \in DOMAIN trades |-> trades[i].realized], inYear(y)),
             fees     |-> SumFunctionOnSet([i \in DOMAIN trades |-> trades[i].fee], inYear(y)),
             trades   |-> Cardinality(inYear(y))]]

----------------------------------------------------------------------------
(* Properties. *)

(* No look-ahead: an order is filled only by candles that opened after the bar
   it was decided on had closed ("an order never resolves on its own decision
   bar"). *)
NoLookAhead == \A i \in DOMAIN fills : fills[i].at >= fills[i].decided + BarLength

Contiguous ==
    \A i \in 1..(Len(series.bars) - 1) :
        series.bars[i + 1].open = series.bars[i].open + BarLength

InOrder(s) == \A i, j \in DOMAIN s : i < j => s[i].at < s[j].at

(* In a series without gaps, finer candles or not, an order is filled before
   the next decision falls due, and so the ledger is chronological. *)
FillsInOrderUnlessGap ==
    Contiguous =>
        /\ InOrder(fills)
        /\ \A i \in DOMAIN fills : fills[i].at < fills[i].decided + 2 * BarLength

(* ReplayOutcome: "fills produced, in chronological order". *)
FillsInOrder == InOrder(fills)

(* The minimum interval holds along the replay: an order is decided on only
   when the last fill is at least that old. *)
FillsSpaced ==
    interval > 0 =>
        \A i \in 1..(Len(fills) - 1) : fills[i + 1].decided >= fills[i].at + interval

(* The virtual account never sells what it does not hold, and is overdrawn by
   no more than the fee of one buy, which the check of the balance leaves out. *)
ShortOnlyByOneFee ==
    /\ base >= 0
    /\ stable < 0 => \E i \in DOMAIN fills : fills[i].side = "buy" /\ stable + fills[i].fee >= 0

(* The report of a run that was written to the end adds up: the average-cost
   accounting of its ledger finds the position and the profit of the replayed
   account, and the years sum to the totals. *)
ReportAddsUp ==
    \A id \in DOMAIN runDirs \ torn :
        (Reportable(id) /\ ~(pc = "write" /\ id = RunId)) =>
            LET r == Report(id)
                y == ByYear(id)
            IN  /\ r.position = runDirs[id].meta.finalBase
                /\ r.total = r.finalValue - Capital
                /\ Len(runDirs[id].ledger) = runDirs[id].meta.fills
                /\ r.realized = SumFunctionOnSet([k \in DOMAIN y |-> y[k].realized], DOMAIN y)
                /\ r.fees = SumFunctionOnSet([k \in DOMAIN y |-> y[k].fees], DOMAIN y)
=============================================================================
