--------------------------- MODULE SimulationFetch ---------------------------
(***************************************************************************)
(* simulation fetch: SimulationManager pulls the missing tail of each      *)
(* timeframe from its source, page by page, appends it to the candle file  *)
(* of the timeframe, and rebuilds the manifest at the end.                 *)
(*                                                                         *)
(* A request may fail, the command may be killed anywhere, and a kill in   *)
(* the middle of an append leaves whatever the write had got to.           *)
(***************************************************************************)
EXTENDS Subsequences, SequencesExt

CONSTANTS
    Timeframes,    \* the timeframes fetched
    Order,         \* the order a command fetches them in
    Interval,      \* timeframe_to_seconds, per timeframe, in ticks of the clock
    Published,     \* opens of the candles the venue has or will have, per timeframe
    PageLimit,     \* SIM_FETCH_PAGE_LIMIT, BINANCE_KLINES_LIMIT
    Sources,       \* what the venue may be like, per timeframe: [cap, ignoresSince]
    Starts,        \* values of --start
    Retries,       \* http_retries, BINANCE_KLINES_RETRIES
    MaxNow,        \* bound: the clock
    MaxAhead,      \* bound: how far ahead of the clock --end may lie
    MaxKills       \* bound: commands killed half way

ASSUME FetchAssumption ==
    /\ Order \in Seq(Timeframes) /\ Order # <<>>
    /\ Interval \in [Timeframes -> Nat \ {0}]
    /\ Published \in [Timeframes -> SUBSET Nat]
    \* a candle opens at a multiple of its length
    /\ \A tf \in Timeframes : \A t \in Published[tf] : t % Interval[tf] = 0
    /\ PageLimit \in Nat \ {0}
    /\ Sources \subseteq [Timeframes -> [cap : Nat \ {0}, ignoresSince : BOOLEAN]]
    /\ Starts \subseteq Nat
    /\ Retries \in Nat /\ MaxNow \in Nat /\ MaxAhead \in Nat /\ MaxKills \in Nat

VARIABLES
    now,       \* the clock
    source,    \* the venue: most candles of a page, and whether it answers from
               \* its first candle on, whatever since is asked for
    files,     \* the candle file of each timeframe
    manifest,  \* manifest.json: coverage per timeframe
    pc,        \* where the running command is
    todo,      \* timeframes it has not finished; the first is being fetched
    start,     \* its start_ms
    until,     \* its until_ms
    since,     \* resume point of the timeframe being fetched
    cursor,    \* open the next page is asked from
    got,       \* closed candles collected from the pages so far
    attempt,   \* failed attempts at the page being asked for
    outcome,   \* how the last command ended
    kills      \* commands killed so far

storeVars == <<files, manifest>>
pageVars == <<since, cursor, got, attempt>>
callVars == <<todo, start, until>>
fetchVars == <<files, manifest, pc, todo, start, until, since, cursor, got, attempt,
               outcome, kills>>
worldVars == <<now, source>>
vars == <<worldVars, fetchVars>>

(***************************************************************************)
(* A line of a candle file is a candle, [open, final], where final says    *)
(* whether it was read after it had closed, or text that does not parse.   *)
(* The last line lacks its newline (~ended) if a kill has cut it off.      *)
(***************************************************************************)
Torn == [open |-> -1, final |-> FALSE]
NoFile == [exists |-> FALSE, lines |-> <<>>, ended |-> TRUE]

NoManifest == [tf \in {} |-> <<>>]
TornManifest == [torn |-> TRUE]

Init ==
    /\ now = 0 /\ source \in Sources
    /\ files = [tf \in Timeframes |-> NoFile]
    /\ manifest = NoManifest
    /\ pc = "idle" /\ todo = <<>> /\ start = 0 /\ until = 0
    /\ since = 0 /\ cursor = 0 /\ got = <<>> /\ attempt = 0
    /\ outcome = "none"
    /\ kills = 0

tf0 == Head(todo)

Finish(result) ==
    /\ pc' = "idle" /\ todo' = <<>> /\ start' = 0 /\ until' = 0
    /\ since' = 0 /\ cursor' = 0 /\ got' = <<>> /\ attempt' = 0
    /\ outcome' = result

----------------------------------------------------------------------------
(* Reading the store. *)

(* SimulationStore.read: every line is parsed. *)
Readable(f) == Torn \notin Range(f.lines)

(* SimulationStore.last_open: only the last line is parsed. *)
LastOpenFails(f) == f.lines # <<>> /\ Last(f.lines) = Torn

(* Mutant: the first candle after the stored ones is taken to be stored. *)
ResumesOneLater(tf) ==
    IF files[tf].lines = <<>> THEN start ELSE Last(files[tf].lines).open + 2 * Interval[tf]

(* The first open not stored yet; --start counts only for an empty series. *)
ResumePoint(tf) ==
    IF files[tf].lines = <<>> THEN start ELSE Last(files[tf].lines).open + Interval[tf]

----------------------------------------------------------------------------
(* The commands. *)

StartFetch ==
    /\ pc = "idle"
    /\ \E s \in Starts, u \in 1..(now + MaxAhead) : start' = s /\ until' = u
    /\ todo' = Order
    /\ pc' = "resume"
    /\ outcome' = "none"
    /\ UNCHANGED <<worldVars, storeVars, pageVars, kills>>

(* _fetch_timeframe: nothing is asked for when the store covers the range. *)
Resume ==
    /\ pc = "resume"
    /\ ~LastOpenFails(files[tf0])
    /\ since' = ResumePoint(tf0) /\ cursor' = since' /\ got' = <<>> /\ attempt' = 0
    /\ pc' = IF since' < until THEN "page" ELSE "summarize"
    /\ UNCHANGED <<worldVars, storeVars, callVars, outcome, kills>>

ResumeFails ==
    /\ pc = "resume"
    /\ LastOpenFails(files[tf0])
    /\ Finish("failed")
    /\ UNCHANGED <<worldVars, storeVars, kills>>

(* What the venue answers now: the candle still forming is part of it. *)
Answer(tf, from) ==
    LET opens == {t \in Published[tf] : t >= from /\ t <= now}
        all   == Ascending(opens)
        page  == SubSeq(all, 1, Min({Len(all), source[tf].cap, PageLimit}))
    IN  [i \in DOMAIN page |->
            [open |-> page[i], final |-> page[i] + Interval[tf] <= now]]

Page == Answer(tf0, IF source[tf0].ignoresSince THEN 0 ELSE cursor)

(* Mutant: a candle is taken when it has opened, not when it has closed. *)
InRangeOrForming(c) == c.open >= since /\ c.open < until /\ c \notin Range(got)

(* _collect_closed: in range, closed by until_ms, not seen before. *)
InRange(c) ==
    /\ c.open >= since
    /\ c.open + Interval[tf0] <= until
    /\ \A d \in Range(got) : d.open # c.open

(* Mutant: a page that brings the cursor no further does not end the loop. *)
ShortPage(page, next) == Len(page) < PageLimit \/ next >= until

(* The loop ends with a page that is short or brings the cursor no further,
   or once the cursor has reached until_ms. *)
LastPage(page, next) == Len(page) < PageLimit \/ next <= cursor \/ next >= until

(* fetch_ohlcv_range, one page. *)
FetchPage ==
    /\ pc = "page"
    /\ LET page == Page
           next == Last(page).open + Interval[tf0]
       IN  IF page = <<>>
           THEN pc' = "append" /\ UNCHANGED <<cursor, got>>
           ELSE /\ got' = got \o Picked(page, {i \in DOMAIN page : InRange(page[i])})
                /\ IF LastPage(page, next)
                   THEN pc' = "append" /\ UNCHANGED cursor
                   ELSE cursor' = next /\ UNCHANGED pc
    /\ attempt' = 0
    /\ UNCHANGED <<worldVars, storeVars, callVars, since, outcome, kills>>

(* A network error, or HTTP 429 or 418: the page is asked for again. *)
RetryPage ==
    /\ pc = "page"
    /\ attempt < Retries
    /\ attempt' = attempt + 1
    /\ UNCHANGED <<worldVars, storeVars, pc, callVars, since, cursor, got, outcome, kills>>

(* The retries are used up, or the error is of a kind not retried (HTTP 451,
   a refusal of the venue): the pages read so far are dropped. *)
PageFails ==
    /\ pc = "page"
    /\ Finish("failed")
    /\ UNCHANGED <<worldVars, storeVars, kills>>

----------------------------------------------------------------------------
(* Writing the store. *)

(* Text appended to a file whose last line has no newline joins that line. *)
Joined(f, new) ==
    IF f.ended \/ new = <<>> THEN f.lines \o new
    ELSE Front(f.lines) \o <<Torn>> \o Tail(new)

(* Mutant: the newline goes before a line, not after it. *)
WrittenUnended(f, new, ends) ==
    [exists |-> TRUE, lines |-> Joined(f, new), ended |-> IF new = <<>> THEN f.ended ELSE FALSE]

Written(f, new, ends) ==
    [exists |-> TRUE, lines |-> Joined(f, new), ended |-> IF new = <<>> THEN f.ended ELSE ends]

(* Strictly newer than the last stored open. *)
Newer(f, c) == f.lines # <<>> => c.open > Last(f.lines).open

Fresh == Picked(got, {i \in DOMAIN got : Newer(files[tf0], got[i])})

(* SimulationStore.append *)
AppendCandles ==
    /\ pc = "append"
    /\ files' = IF Fresh = <<>> THEN files
                ELSE [files EXCEPT ![tf0] = Written(@, Fresh, TRUE)]
    /\ pc' = "summarize"
    /\ UNCHANGED <<worldVars, manifest, callVars, pageVars, outcome, kills>>

(* _summarize reads the series back; then the next timeframe, or the end. *)
Summarize ==
    /\ pc = "summarize"
    /\ Readable(files[tf0])
    /\ todo' = Tail(todo)
    /\ pc' = IF Tail(todo) = <<>> THEN "manifest" ELSE "resume"
    /\ since' = 0 /\ cursor' = 0 /\ got' = <<>> /\ attempt' = 0
    /\ UNCHANGED <<worldVars, storeVars, start, until, outcome, kills>>

SummarizeFails ==
    /\ pc = "summarize"
    /\ ~Readable(files[tf0])
    /\ Finish("failed")
    /\ UNCHANGED <<worldVars, storeVars, kills>>

(* Mutant: a run of one missing candle is not seen. *)
WideGapsOf(opens, interval) ==
    LET missing(i) == (opens[i + 1] - opens[i]) \div interval - 1
    IN  {[after |-> opens[i], before |-> opens[i + 1], missing |-> missing(i)] :
            i \in {j \in 1..(Len(opens) - 1) : missing(j) > 1}}

(* _gaps: the runs of candles missing between two that are stored. *)
GapsOf(opens, interval) ==
    LET missing(i) == (opens[i + 1] - opens[i]) \div interval - 1
    IN  {[after |-> opens[i], before |-> opens[i + 1], missing |-> missing(i)] :
            i \in {j \in 1..(Len(opens) - 1) : missing(j) > 0}}

(* _timeframe_coverage *)
CoverageOf(f, interval) ==
    LET opens    == [i \in DOMAIN f.lines |-> f.lines[i].open]
        expected == (Last(opens) - Head(opens)) \div interval + 1
    IN  [first |-> Head(opens), last |-> Last(opens), rows |-> Len(opens),
         expected |-> expected, missing |-> expected - Len(opens),
         gaps |-> GapsOf(opens, interval)]

Present == {tf \in Timeframes : files[tf].exists}

(* Every file of the symbol is read, those of other commands included: one
   that does not parse, or is empty (opens[0]), ends the command. *)
Describable == \A tf \in Present : Readable(files[tf]) /\ files[tf].lines # <<>>

RebuildManifest ==
    /\ pc = "manifest"
    /\ Describable
    /\ manifest' = [tf \in Present |-> CoverageOf(files[tf], Interval[tf])]
    /\ Finish("ok")
    /\ UNCHANGED <<worldVars, files, kills>>

RebuildFails ==
    /\ pc = "manifest"
    /\ ~Describable
    /\ Finish("failed")
    /\ UNCHANGED <<worldVars, storeVars, kills>>

----------------------------------------------------------------------------
(* The world. *)

(* What a kill during an append may leave: some whole lines, then nothing,
   part of a line, or the last of them without its newline. *)
Remains(f, new) ==
    LET whole(k) == SubSeq(new, 1, k)
    IN  {Written(f, whole(k), TRUE) : k \in 0..Len(new)}
        \cup {Written(f, whole(k), FALSE) : k \in 1..Len(new)}
        \cup {Written(f, Append(whole(k), Torn), FALSE) : k \in 0..(Len(new) - 1)}

Kill ==
    /\ pc # "idle"
    /\ kills < MaxKills   \* bound
    /\ kills' = kills + 1
    /\ \/ UNCHANGED storeVars
       \/ /\ pc = "append" /\ Fresh # <<>>
          /\ \E f \in Remains(files[tf0], Fresh) : files' = [files EXCEPT ![tf0] = f]
          /\ UNCHANGED manifest
       \/ /\ pc = "manifest" /\ Describable
          /\ manifest' = TornManifest   \* write_text is not atomic
          /\ UNCHANGED files
    /\ Finish("killed")
    /\ UNCHANGED worldVars

Tick ==
    /\ now < MaxNow   \* bound
    /\ now' = now + 1
    /\ UNCHANGED <<source, fetchVars>>

Command ==
    \/ Resume \/ ResumeFails
    \/ FetchPage
    \/ AppendCandles
    \/ Summarize \/ SummarizeFails
    \/ RebuildManifest \/ RebuildFails

Next == StartFetch \/ Command \/ RetryPage \/ PageFails \/ Kill \/ Tick

Spec == Init /\ [][Next]_vars

(* A command that runs goes on, and a page is answered some time; nothing
   forces the user to start one, or a request to fail. *)
FairSpec == Spec /\ WF_vars(Command)

----------------------------------------------------------------------------
(* Properties. *)

(* The candles of a file that are there to stay: those before the first line
   that does not parse, without a last line that lacks its newline. *)
SoundPrefix(f) ==
    LET doubtful == {i \in DOMAIN f.lines : f.lines[i] = Torn \/ (i = Len(f.lines) /\ ~f.ended)}
        sound == IF doubtful = {} THEN Len(f.lines) ELSE Min(doubtful) - 1
    IN  [i \in 1..sound |-> f.lines[i].open]

(* Whatever fails and whenever the command is killed, the candles kept are
   the venue's closed candles, in order, none left out between two that are
   kept, and only the end of the series grows: SimulationStore's "a range is
   never re-downloaded ... prior rows stay byte-identical ... the boundary
   candle is never duplicated". *)
Log == INSTANCE CandleLog WITH log <- [tf \in Timeframes |-> SoundPrefix(files[tf])]
KeepsTheCandleLog == Log!Spec

(* A candle stored is one the venue will not change any more: fetch_ohlcv_range
   drops the candle still forming. *)
StoredCandlesAreFinal ==
    \A tf \in Timeframes : \A c \in Range(files[tf].lines) : c # Torn => c.final

(* After a fetch that succeeded, whatever happened to earlier ones, the
   manifest describes the files as they are, and what it calls missing is
   what the venue never published. *)
ManifestTellsTheGaps ==
    pc = "idle" /\ outcome = "ok" =>
        /\ DOMAIN manifest = Present
        /\ \A tf \in Present :
            LET c == manifest[tf]
                slots == {t \in c.first..c.last : (t - c.first) % Interval[tf] = 0}
            IN  /\ c = CoverageOf(files[tf], Interval[tf])
                /\ c.missing = Cardinality(slots \ Published[tf])
                /\ UNION {{t \in slots : g.after < t /\ t < g.before} : g \in c.gaps}
                    = slots \ Published[tf]

(* Only a kill in the middle of an append spoils a series: a failed request,
   a capped page or an earlier fetch never does. *)
ReadableUnlessKilled ==
    kills = 0 => \A tf \in Timeframes : Readable(files[tf]) /\ files[tf].ended

(* A fetch ends, whatever the venue answers to a page request. *)
FetchEnds == pc # "idle" ~> pc = "idle"
=============================================================================
