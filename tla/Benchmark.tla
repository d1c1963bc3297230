------------------------------ MODULE Benchmark ------------------------------
(***************************************************************************)
(* Benchmark runs of one model over one dataset, repeated on the same      *)
(* output directory: backtest/benchmark/runner.py, provider.py, cache.py,  *)
(* models.py, and the decision loop of backtest/engine.py.                 *)
(*                                                                         *)
(* A run loads the decision cache (or truncates it), then decides every    *)
(* hour candle that no active signal and no blackout blocks: from the      *)
(* cache, or by a fresh analysis that is put into the cache.  A run may    *)
(* crash anywhere, also in the middle of writing a line.                   *)
(***************************************************************************)
EXTENDS Analysis, FiniteSets, SequencesExt

CONSTANTS
    Hours,       \* decision candles of the dataset
    Lasts,       \* Lasts[h]: hours a signal created at h stays active, by the data
    Releases,    \* calendar entries: [name, allDay, at, before, after], in hours
    Market,      \* what the context may hold: close, atr, funding, regime, as sets
    Wirings,     \* sets of options among "events", "positioning", "htf"
    Guards,      \* the guard thresholds of the environment
    MaxRuns, MaxFaults

ASSUME BenchmarkAssumption ==
    /\ Hours \in Nat \ {0} /\ Lasts \in [1 .. Hours -> Nat]
    /\ Market.close \subseteq Int
    /\ \A r \in Releases : r.at \in Int /\ r.before \in Nat /\ r.after \in Nat
    /\ Wirings \subseteq SUBSET {"events", "positioning", "htf"}
    /\ MaxRuns \in Nat /\ MaxFaults \in Nat

VARIABLES
    file,     \* lines of decisions.jsonl: the record that parses, if any; ended
              \* or not; cut inside a character or not
    memory,   \* records of the run's DecisionCache
    run,      \* options of the run in progress, {} or one record
    hour,     \* next hour to decide
    busy,     \* last hour the active signal covers
    judged,   \* judged[h]: what the engine made of hour h in this run, or "none"
    source,   \* source[h]: "cache", "model", "failed" or "none"
    stats,    \* the run's inference statistics
    pending,  \* the analysis being recorded, {} or one
    history   \* puts since the last truncation, verdicts when recorded, bounds used

cache == <<file, memory>>
engine == <<hour, busy, judged, source, stats>>
vars == <<inference, cache, run, engine, pending, history>>

Nowhere == [h \in 1 .. Hours |-> "none"]
NoStats == [cached |-> 0, fresh |-> 0, failed |-> 0]

Init ==
    /\ InferenceInit
    /\ file = <<>> /\ memory = {} /\ run = {} /\ pending = {}
    /\ hour = 1 /\ busy = 0 /\ judged = Nowhere /\ source = Nowhere /\ stats = NoStats
    /\ history = [puts |-> 0, verdict |-> Nowhere, runs |-> 0, faults |-> 0]

-------------------------------------------------------------------------------
(* load: a line that does not parse is skipped, the later of two records wins. *)
Parsed(lines) ==
    LET good == {i \in DOMAIN lines : lines[i].record # {}}
        latest == {i \in good : \A j \in good :
                      j > i => \A old \in lines[i].record, new \in lines[j].record :
                                  new.hour # old.hour}
    IN  UNION {lines[i].record : i \in latest}

(* readlines decodes the whole file first, and raises out of load on a byte    *)
(* that is not part of a character.                                            *)
Garbled(lines) == \E i \in DOMAIN lines : lines[i].garbled

Unended(lines) == lines # <<>> /\ ~Last(lines).ended

Line(part, ended, garbled) == [record |-> part, ended |-> ended, garbled |-> garbled]

(* Mutant of Appended: the file is opened for writing, not for appending. *)
AppendedAfresh(lines, record) == <<Line({record}, TRUE, FALSE)>>

(* A record written after an unended line continues that line. *)
Appended(lines, record) ==
    IF Unended(lines)
      THEN Append(Front(lines), Line({}, TRUE, Last(lines).garbled))
      ELSE Append(lines, Line({record}, TRUE, FALSE))

(* A write cut short leaves the beginning of a line, up to the end of a        *)
(* character or not (ensure_ascii=False), or all of it but its end.            *)
CutShort(lines, record) ==
    IF Unended(lines)
      THEN {Append(Front(lines), Line({}, FALSE, garbled)) :
                garbled \in {Last(lines).garbled, TRUE}}
      ELSE {Append(lines, line) : line \in {Line({}, FALSE, FALSE), Line({}, FALSE, TRUE),
                                            Line({record}, FALSE, FALSE)}}

AfterFault == {file} \cup UNION {CutShort(file, record) : record \in pending}

(* Mutant of Remembered: only the latest record is held. *)
RememberedOnly(record) == {record}

(* put keeps the record in memory first. *)
Remembered(record) == {r \in memory : r.hour # record.hour} \cup {record}

Cached(h) == {r \in memory : r.hour = h}

-------------------------------------------------------------------------------
(* _match_window: the three series a blackout is kept for. *)
Matches(r) == r.name \in {"fomc", "nfp", "cpi"}

(* _parse_range_item: an all-day entry, or one of another series, is dropped. *)
Kept(r) == ~r.allDay /\ Matches(r)

(* _load_range: the releases of the dataset's span, whatever their windows. *)
Loaded(from, to) == {r \in Releases : Kept(r) /\ r.at \in from .. to}

(* build_event_wiring: the calendar is primed once, from the opening of the    *)
(* first candle to the close of the last.                                      *)
Calendar == Loaded(0, Hours)

(* blackout_at: asked at the close of the candle. *)
BlackedOut(h) == \E r \in Calendar : h \in r.at - r.before .. r.at + r.after

(* The context of a candle's analysis under the wiring of run_benchmark: the  *)
(* 4H wiring is dropped when it is the only one.                              *)
Context(wiring) ==
    [close |-> Market.close, atr |-> Market.atr,
     funding |-> IF "positioning" \in wiring THEN Market.funding ELSE {},
     regime |-> IF "htf" \in wiring /\ wiring # {"htf"} THEN Market.regime ELSE {}]

(* The 4H wiring does not take the notes the positioning wiring passes it. *)
Clash(wiring) == {"positioning", "htf"} \subseteq wiring

NoContext == [close |-> Market.close, atr |-> {}, funding |-> {}, regime |-> {}]

(* What the engine makes of an analysis; _classify tags the record alike. *)
Verdict(analysis) ==
    IF analysis.decision = "WAIT" THEN "wait"
    ELSE IF Valid(analysis, Guards) THEN "created" ELSE "rejected"

(* Mutant of Fallback: a failed call reads as the model choosing to wait. *)
FallbackWait ==
    InContext([decision |-> "WAIT", entry |-> {}, stop |-> {}, take |-> {}, confidence |-> 0],
              NoContext)

(* _fallback_analysis: a LONG whose stop is its entry. *)
Fallback ==
    InContext([decision |-> "LONG", entry |-> Market.close, stop |-> Market.close,
               take |-> {2 * price : price \in Market.close}, confidence |-> 0],
              NoContext)

(* Mutant of Rebuilt: stop and take change places. *)
RebuiltSwapped(record) ==
    InContext([record.proposal EXCEPT !.stop = record.proposal.take,
                                      !.take = record.proposal.stop], NoContext)

(* _record_to_analysis: the record keeps the proposal, not the context. *)
Rebuilt(record) == InContext(record.proposal, NoContext)

(* The engine's bookkeeping of a decided hour. *)
Conclude(verdict, from) ==
    /\ judged' = [judged EXCEPT ![hour] = verdict]
    /\ source' = [source EXCEPT ![hour] = from]
    /\ busy' = IF verdict = "created" THEN hour + Lasts[hour] ELSE busy
    /\ hour' = hour + 1

(* RunningInferenceStats.add. *)
Counted(from) ==
    CASE from = "cache" -> [stats EXCEPT !.cached = @ + 1]
      [] from = "model" -> [stats EXCEPT !.fresh = @ + 1]
      [] from = "failed" -> [stats EXCEPT !.fresh = @ + 1, !.failed = @ + 1]

-------------------------------------------------------------------------------
(* run_benchmark: the cache is loaded, or truncated with --force-fresh. *)
Start(wiring, force, pipeline) ==
    /\ run = {} /\ history.runs < MaxRuns /\ (force \/ ~Garbled(file))
    /\ run' = {[wiring |-> wiring, force |-> force, pipeline |-> pipeline]}
    /\ file' = IF force THEN <<>> ELSE file
    /\ memory' = IF force THEN {} ELSE Parsed(file)
    /\ history' = [history EXCEPT !.runs = @ + 1, !.puts = IF force THEN 0 ELSE @,
                                  !.verdict = IF force THEN Nowhere ELSE @]
    /\ UNCHANGED <<inference, engine, pending>>

(* Without --force-fresh, a run on a garbled file ends with the error of load. *)
LoadRaises ==
    /\ run = {} /\ history.runs < MaxRuns /\ Garbled(file)
    /\ history' = [history EXCEPT !.runs = @ + 1]
    /\ UNCHANGED <<inference, cache, run, engine, pending>>

Deciding(r) == r \in run /\ hour <= Hours /\ call = {} /\ pending = {}

Blocked(r) == hour <= busy \/ ("events" \in r.wiring /\ BlackedOut(hour))

(* An active signal or a blackout: the candle is not analysed. *)
Skip ==
    \E r \in run :
        /\ Deciding(r) /\ Blocked(r)
        /\ hour' = hour + 1
        /\ UNCHANGED <<inference, cache, run, busy, judged, source, stats, pending, history>>

(* Mutant of Usable: a record of a rejected answer is asked again. *)
UsableOk(r, h) == IF r.force THEN {} ELSE {c \in Cached(h) : c.verdict # "rejected"}

(* decide: unless the run is forced to be fresh, a cached record is replayed. *)
(* (No record is ever FAILED: failures are not put.)                          *)
Usable(r, h) == IF r.force THEN {} ELSE Cached(h)

Replay ==
    \E r \in run :
        /\ Deciding(r) /\ ~Blocked(r)
        /\ \E record \in Usable(r, hour) : Conclude(Verdict(Rebuilt(record)), "cache")
        /\ stats' = Counted("cache")
        /\ UNCHANGED <<inference, cache, run, pending, history>>

(* _fresh: the analyzer is called. *)
Consult ==
    \E r \in run :
        /\ Deciding(r) /\ ~Blocked(r) /\ Usable(r, hour) = {} /\ ~Clash(r.wiring)
        /\ Begin(r.pipeline)
        /\ UNCHANGED <<cache, run, engine, pending, history>>

AskRole == Ask /\ UNCHANGED <<cache, run, engine, pending, history>>

(* Any failure: the engine gets the fallback, and nothing is put. *)
Fail ==
    /\ Conclude(Verdict(Fallback), "failed")
    /\ stats' = Counted("failed")
    /\ UNCHANGED <<cache, run, history>>

CallRaises == Raises /\ Fail /\ UNCHANGED pending

WiringClashes ==
    \E r \in run :
        /\ Deciding(r) /\ ~Blocked(r) /\ Usable(r, hour) = {} /\ Clash(r.wiring)
        /\ Fail /\ UNCHANGED <<inference, pending>>

(* The last answer breaks a decision rule. *)
AnswerRefused ==
    \E r \in run, proposal \in Proposals :
        /\ Answered /\ ~Accepted(proposal, r.pipeline)
        /\ call' = {} /\ Fail /\ UNCHANGED <<binding, pending>>

(* The analysis is classified and put: first in memory, *)
Record ==
    \E r \in run, proposal \in Proposals :
        /\ Answered /\ Accepted(proposal, r.pipeline)
        /\ LET verdict == Verdict(InContext(proposal, Context(r.wiring)))
               record == [hour |-> hour, proposal |-> proposal, verdict |-> verdict]
           IN  /\ pending' = {record} /\ memory' = Remembered(record)
               /\ history' = [history EXCEPT !.verdict[hour] = verdict]
        /\ call' = {}
        /\ UNCHANGED <<binding, file, run, engine>>

(* then in the file. *)
Write ==
    \E record \in pending :
        /\ file' = Appended(file, record)
        /\ pending' = {}
        /\ Conclude(record.verdict, "model")
        /\ stats' = Counted("model")
        /\ history' = [history EXCEPT !.puts = @ + 1]
        /\ UNCHANGED <<inference, memory, run>>

(* The disk refuses: the same handler takes it for a failed call, although the *)
(* record stays in memory.                                                     *)
WriteFails ==
    /\ pending # {} /\ pending' = {} /\ history.faults < MaxFaults
    /\ Conclude(Verdict(Fallback), "failed") /\ stats' = Counted("failed")
    /\ file' \in AfterFault
    /\ history' = [history EXCEPT !.faults = @ + 1]
    /\ UNCHANGED <<inference, memory, run>>

(* The process ends: what it held in memory is gone. *)
Exit ==
    /\ run' = {} /\ memory' = {}
    /\ hour' = 1 /\ busy' = 0 /\ judged' = Nowhere /\ source' = Nowhere /\ stats' = NoStats

(* build_signal_quality, from the records the cache holds (INVALID is the tag *)
(* of a rejected proposal), and the engine_counts of build_summary.           *)
SignalQuality ==
    LET ok(decision) == {r \in memory : r.verdict # "rejected" /\ r.proposal.decision = decision}
    IN  [analyzed |-> Cardinality(memory),
         invalid |-> Cardinality({r \in memory : r.verdict = "rejected"}),
         longs |-> Cardinality(ok("LONG")), shorts |-> Cardinality(ok("SHORT")),
         waits |-> Cardinality(ok("WAIT")), cached |-> stats.cached]

EngineCounts ==
    LET made(verdict) == Cardinality({h \in 1 .. Hours : judged[h] = verdict})
    IN  [analyzed |-> made("created") + made("rejected") + made("wait"), blocked |-> made("none"),
         waits |-> made("wait"), rejected |-> made("rejected"), created |-> made("created")]

(* The summary is written from memory and the statistics. *)
Finish ==
    /\ run # {} /\ hour > Hours
    /\ Exit
    /\ UNCHANGED <<inference, file, pending, history>>

Crash ==
    /\ run # {} /\ history.faults < MaxFaults
    /\ Exit /\ call' = {} /\ pending' = {}
    /\ file' \in AfterFault
    /\ history' = [history EXCEPT !.faults = @ + 1]
    /\ UNCHANGED binding

Step ==
    \/ Skip \/ Replay \/ Consult
    \/ AskRole \/ CallRaises \/ WiringClashes \/ AnswerRefused
    \/ Record \/ Write \/ WriteFails
    \/ Finish

Exhausted == run = {} /\ history.runs = MaxRuns /\ UNCHANGED vars

Next ==
    \/ \E wiring \in Wirings, force \in BOOLEAN, pipeline \in Pipelines :
           Start(wiring, force, pipeline)
    \/ LoadRaises
    \/ Step
    \/ Crash
    \/ Exhausted

Spec == Init /\ [][Next]_vars
-------------------------------------------------------------------------------
(* provider.py: "Producing WAIT here would silently mislabel an LLM failure as *)
(* the model choosing to wait": a failed call is always an explicit rejection, *)
(* never a signal, a wait, or a record another run would read.                 *)
FailureNeverTraded ==
    \A h \in 1 .. Hours : source[h] = "failed" => judged[h] = "rejected"

(* What a load returns. *)
Readable(lines) == IF Garbled(lines) THEN {} ELSE Parsed(lines)

(* Every recorded answer is paid for once: but for the one record that is      *)
(* written after a line a fault cut short, no candle is recorded twice between *)
(* two --force-fresh runs, and a record, once written, can be read -- as long  *)
(* as no fault cut a line inside a character.  From then on load raises and    *)
(* only --force-fresh goes on, which pays for everything again.                *)
PaidOnce ==
    /\ ~Garbled(file) => history.puts - Cardinality(Readable(file)) <= history.faults
    /\ Garbled(file) => history.faults > 0

(* Records whose line is ended. *)
Settled(lines) ==
    {record \in Parsed(lines) :
        \E i \in DOMAIN lines : lines[i].ended /\ lines[i].record = {record}}

(* cache.py: "a crash mid-run never corrupts already-recorded decisions": no   *)
(* step but a --force-fresh start removes the ended line of a record, and a    *)
(* load returns it unless a fault has cut a line inside a character; nothing   *)
(* but a fault makes a file unreadable.                                        *)
RecordsKept ==
    [][file' # <<>> =>
          /\ Settled(file) \subseteq Parsed(file')
          /\ ~Garbled(file') => Settled(file) \subseteq Readable(file')
          /\ Garbled(file') /\ ~Garbled(file) => history'.faults > history.faults]_vars

(* A replay drops only guards: what the first run let through, every rerun of  *)
(* the cache lets through.                                                     *)
ReplayOnlyLoosens ==
    \A h \in 1 .. Hours :
        source[h] = "cache" /\ history.verdict[h] # "rejected"
            => judged[h] = history.verdict[h]

(* summary.json adds up, whatever failed: each half of it is drawn from other  *)
(* state (the engine's counters, the inference statistics, the cache's records *)
(* of this run and of earlier ones).  Every hour decided by the model is among *)
(* the records; what the engine took for a wait, the model's own WAITs cover;  *)
(* what it traded, its signals and those that were rejected when recorded; and *)
(* no failed hour has a record ("FAILED/INVALID outputs are never counted as   *)
(* model signal choices"), but for one the disk refused.                       *)
SummaryAddsUp ==
    run # {} /\ hour > Hours =>
        LET quality == SignalQuality
            counts == EngineCounts
            failed == {h \in 1 .. Hours : source[h] = "failed"}
        IN  /\ counts.analyzed = stats.cached + stats.fresh
            /\ counts.analyzed - stats.failed <= quality.analyzed
            /\ counts.waits <= quality.waits
            /\ counts.created <= quality.longs + quality.shorts + quality.invalid
            /\ Cardinality({h \in failed : Cached(h) # {}}) <= history.faults
===============================================================================
