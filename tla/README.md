# Tool-Trade in TLA+

This directory holds the formal model of Tool-Trade: TLA+ modules translated from
the Python source, TLC configurations that check them on small instances, and
TLAPS proofs for every value of the constants. Paths below are relative to the
repository.

## The system

Tool-Trade asks language models for a trade once per closed one-hour candle,
turns the answer into a *signal*, watches one-minute candles for the signal's
entry, take-profit and stop-loss, and books the result on a *demo account*. One
daemon process per symbol does this; a web server shows the state and lets the
user close positions, delete signals, change settings and reset the account; all
processes share one SQLite database and one secrets file. Beside it stand a
backtest and a benchmark of models, which replay the same rules over historical
candles, and the TradingAgents workflow, a graph of LLM agents with checkpoints
and a memory log.

### Components

| Component | State | Operations | What makes it correct |
|---|---|---|---|
| Signal ledger `database/database.py`, `models.py` | signals, demo account, positions, trades, candle log, scheduler and runtime state; the schema | one `BEGIN IMMEDIATE` transaction per write; `initialize` | one active signal per symbol; status only along the transition table; a trade booked once and only for a closed signal with a position; an upgrade loses nothing |
| Daemon runtime `signal_engine/runtime.py`, `__main__.py` | program position, the signal object of the last read | start, scheduler tick, monitor poll, run_forever, `--once` | whatever it began is finished after a restart; staged settings are applied; what happened is told |
| Recovery `signal_engine/recovery.py` | none | read the active signal at start | never hands reconcile a signal that would do harm |
| Monitor `signal_engine/monitor.py`, `state.py` | none | poll, `_open`, `_close` | a lost race never leads to a write on the demo account |
| Scheduler `signal_engine/scheduler.py` | processed-candle marker, breaker, event flags | tick, `_detect`, `_event_watch` | a candle is analysed once; no entry waits through a blackout; a sick provider is left alone |
| Signal engine `signal_engine/engine.py` | none | `process` | blocked by an active signal, even one created meanwhile |
| AI analysis, validator `signal_engine/analysis.py`, `multiagent.py`, `validator.py` | none | LLM calls, guards | a malformed or failed answer is never a trade |
| Demo executor `demo/executor.py` | none | `open_position`, `close_position`, `reconcile` | idempotent: any number of attempts opens and books once |
| Demo accounting `demo/account.py`, `statistics.py`, ... | none | sizing, fees, PnL, statistics | a stop costs no more than the risk share; one-pass sums agree with the ledger |
| Web server `web/server.py` | none | close, delete, reset, clear log, settings, views | no request breaks what a daemon is doing |
| Settings and secrets `signal_engine/config.py` | config tables, secrets file, a cache of it per process | staged AI settings, symbol lists, API key, reset lock | settings change only when no signal depends on them, none is lost, a key reaches every process |
| Supervisor `signal_engine/supervisor.py` | child processes, PID files | start and stop daemons | one daemon per enabled symbol, none stopped under an open position |
| Event calendar `signal_engine/event_calendar.py` | cached events | `check`, refresh | a blackout is neither missed nor left open |
| Telegram, daily report `signal_engine/telegram.py`, `daily_report.py` | sent flags | notify, report | nothing recorded as told that was not, an exit told once |
| Backtest `backtest/` | positions of one run | replay | same rules as the live engine, no look-ahead |
| Benchmark `backtest/benchmark/` | decision cache file, counters | record, replay, summarise | a failure is not a decision; answers are paid once; a crash spoils one record |
| TradingAgents graph `tradingagents/graph`, `agents` | graph state, checkpoints, memory log | propagate, resume, resolve, reflect | the graph asked for is the one that runs; what waits in the log is kept |
| Data tools `tradingagents/dataflows` | cached files | vendor calls | nothing later than the trade date is shown |
| CLI `cli/main.py` | status board | run_analysis | the board shows what is done |
| Market data, LLM clients, signal chat, web front end | none | HTTP and LLM calls, pages | free choices, or presentation |

Daemons and the web server interact through the database and the secrets file
only: each reads, decides and writes in separate transactions, and the other
processes do the same in between. The behaviours that are hard here are stale
reads (a signal object is read, a price is fetched, then the object is acted on),
crashes between two writes that belong together (signal closed, trade not booked;
message sent, flag not set; record written, line not ended), two processes on one
symbol (a daemon and a `--once` run), read-modify-write sequences over settings
and files, runs that are cut and resumed under another configuration, and time
(candles, blackouts, breaker, report hour) passing while a network call is under
way. `PROJECT.json` lists these hazards at their lines, each with the property
that watches it.

## The modules

| Module | Models | Uses |
|---|---|---|
| `Ledger` | the repository transactions over signals, positions, trades, balance and candle log | |
| `TradeCore` | daemons, one-shots and web threads around the ledger | extends `Ledger` |
| `DemoLedger` | abstract specification of the demo account | instantiated by `TradeCore` |
| `Scheduler` | when the AI runs: candles, marker, breaker, blackouts | |
| `Settings` | statements on the AI and symbol settings, the secrets file | |
| `ControlPlane` | daemons and requests around the settings | extends `Settings` |
| `EventCalendar`, `Telegram` | the calendar's refresh and lookup; routing of a message, retries | |
| `Notices` | what the daemons tell the user, and when | extends both |
| `Migration` | `Database.initialize` by several processes, beside an older version | |
| `Money`, `Validator`, `Statistics` | accounting, guards, summaries, as operators | |
| `Backtest` | one backtest run | extends the three |
| `Replay` | the live engine beside the backtest, on the same candles | extends `Backtest` |
| `Analysis` | one AI analysis by either pipeline | extends `Validator` |
| `Benchmark` | runs over one decision cache | extends `Analysis` |
| `MemoryLog`, `AgentGraph`, `DataTools` | the log's operators; nodes and routing; what a tool shows | |
| `AgentRuns` | runs of the agent graph, cut and resumed | extends the three |
| `Fleet` | the supervisor and the processes it starts | |
| `MC...` | constants of the TLC instances | extend the module they check |
| `...Proofs` | theorems | extend their module and `TLAPS` |

Definitions named after a mutation (`ExitBoth`, `UsableOk`, ...) and commented
*Mutant of* are plausible mistakes in the definition that follows. No
specification uses them; each shows that a property of a run notices the mistake.

### Ledger, TradeCore, DemoLedger

A signal is its id, symbol and status; a position its status; a trade the id of
its signal; the account its balance. Each operator of `Ledger` is the body of one
transaction: `CreateSignal` (with the repeated active-signal check),
`Transition`, `DeleteSignals` (blocked by the foreign key of `candle_log`),
`CreatePosition`, `RecordTrade`, `ResetAccount`, `LogSignal`/`LogOther`,
`DropLog`. Ids are never reused, as in a table with AUTOINCREMENT.

In `TradeCore`, `pc[p]` is the line a process is about to execute, `sig[p]` the
signal object it holds (its *id*, and by the program counter the status it was
seen with), `todo` the list a recovery or reconcile has read, `phase` where an
executor call returns to. One action is one read or one transaction; everything
another process does in between makes the held object stale. Start, recovery and
reconcile are `Start`, `Recover`, `ReconcileList`, `ReconcileNext`,
`ReconcileDone`; the executor is `OpenCheck`/`OpenInsert` and
`CloseCheck`/`CloseRecord`; a tick is `EventRead`, `EventCancel`, `BlackoutGate`,
`TickGate`, `Create`, `NoSignal`, `LogCreated`; a poll is `PollRead`, `NoTouch`,
`EntryHit`, `Reread`, `ExitHit`; the web handlers are the `Web...` actions.
`gone` is the one thing a process remembers beyond that: `record_trade` looks its
position up by row id, so a position wiped since the check is not found even when
the signal has a new one.

Abstractions: which candle touches which level, what the analysis answers and
when a blackout begins are free choices. Reads that are decided together are one
read: position, balance and count in `OpenCheck`; status and position in
`WebCloseRead`; trade and position in `CloseCheck`; status and trade in
`ReconcileNext`. A database error ends a process as `Crash` does. The retention
prune of the candle log is `WebClearLog`. The expiry of a pending entry is not
here, because it is never reached (see *Findings*). The tick of a disabled symbol
does nothing and is no step. `LogSignal` and `LogOther` overwrite the rows of the
same candle, so they may drop another signal's reference.

`DemoLedger` is what the account promises without processes, reads or crashes: a
signal lives through its life cycle once, gets at most one position, is booked at
most once, only when settled and with a position, and the balance moves by that
booking or by a reset and never otherwise. `TradeCore` implements it under the
mapping `Life`, `Book`, `balance`. `VoidLive` says whether a live signal may still
be cancelled: the mapping sets it to `~SoleDaemon`, since the code rules that out
only with one process per symbol.

### Scheduler

One process per symbol, a clock, and candles numbered by the hour they close in. A
tick is `Start` (breaker, then `_event_watch` when a start is not flagged yet),
`EventStart` (cancel the pending entry, set the flag, which all daemons share),
`Detect` (`_detect`, AI lock, blackout gate), `Fetch` (the window, whose last candle
is the one that is analysed), `Call`, `Process` and `Mark`. It uses the instant it
was given (`at`) while the clock runs on, as `now_ms` does. Mishaps (an ERROR
outcome, a marker write that fails, a cancellation that fails, an answer one candle
behind, a kill) share the budget `MaxMishaps`. `calls` counts the analyses of a
candle that no mishap excuses: every mishap that makes the code analyse a candle
again takes one off. `handled` remembers which daemon has handled the start of which
event; the others find the flag set and keep their entry. WARN and END notices are
in `Notices`. WAIT stands for a rate limit too, which marks its candle in the same
way. `break_count <= 0` (breaker off) is not an instance. Of overlapping events only
the first one listed counts, as in `check`.

### Settings and ControlPlane

A save of the AI provider settings is its number, so that *older* and *lost* can
be said; an API key is the number of the save that set it. `Settings` has one
operator per statement of `ConfigRepository` (`Stage`, `Promote`, `Unstage`, the
symbol rows) and the two resolutions of a daemon's symbol. `ControlPlane` gives
daemons and request threads a step per read and per write: a daemon's tick is
`Tick`, `ReadPending`, `PromoteDaemon`, `DropDaemon`, `ResolveOwn`, `Gate`,
`Lock`, `StatKey`, `LoadKey`, `Conclude`; a request is `SaveAi`, `Truncate`,
`Write` (the secrets file is rewritten in place), `StageAi`, `CheckIdle`,
`PromoteRequest`, `CopyRow`, `DropRequest`. A cached key whose mtime is the file's
is `d \in current`. A rewrite of the file in a new tick of the clock that stamps it
takes all processes out of `current`; in the tick of the last rewrite (`Rewrite`)
the mtime stays, and who has read the file since is `fooled`: its content is out of
date and it does not know. `raced` remembers the AI records staged while a promotion
was about to delete its row. Of a signal only status and symbol are kept.

### EventCalendar, Telegram, Notices

A pass of the daemon's loop is `Tick` (the calendar, refreshed where due),
`WarnOf`, `StartOf` and `EndOf`, each with the step that writes its flag
(`Warned`, `Started`, `Ended`, `WriteLast`), `Gate`, `Create` and `Created`; then
the poll (`Poll`, `Enter`, `Book`, `Opened`, `Exit`, `Settle`, `Tell`) and the
report (`DailyReport`, `Reported`). `fate` says what became of every message:
*none*, *muted*, *nowhere* (no chat), *delivered*, *lost* after the retries. A
calendar is the releases last listed and when. What the feed may answer at an
instant is any choice of one release per series, the next one or one whose blackout
is on still, with any series left out (`Answers`); of an empty answer the curated
file takes the place where nothing is cached. `SetFlag`, `WriteLast` and `Reported`
may be refused by the store, and `EndUnread` is a read that fails: the code logs
either and goes on. `faulted` remembers whose END may be lost by that. One signal is
followed from creation to end. Settings may be saved meanwhile.

### Migration

A database is its tables with their columns, whether the CHECK on `signals`
accepts `PENDING_ENTRY`, the tables that have their indexes, the values each
signal has, and `signals_new` while it exists. `Mirror`, `Copy`, `Drop`, `Rename`
are the rebuild, `CreateTables`, `AddColumns`, `CreateIndex`, `Commit` the rest.
A transaction works on the file as of its first read (`work`), and a first write
on a stale snapshot is refused (`Refused`), as SQLite does with a deferred
transaction. An older version may write meanwhile, since the containers of
`docker-compose.yml` are replaced one after another. One table stands for each
way a table changes, one column for each generation.

### Money, Validator, Statistics, Backtest, Replay

Amounts are integers and quotients round down, which keeps every inequality that
bounds a loss. A value the program may lack is a set of at most one element.
`Backtest` replays minute candles chosen as they come; `Replay` puts the live side
next to it: the scheduler's decision (`LiveAccept`, `LiveReject`, `LiveGated`), the
monitor (`LiveWatch`, `LiveEnter`, `LiveClose`), the booking, kills (`LiveDies`) and
`Restart`. `parted` collects the reasons for which the two may differ: a candle the
monitor missed, evaluated before the decision (*early*) or only after the analysis
ended (*late*); thresholds of the settings page, which a backtest ignores
(*guards*), or fields its analysis drops (*vetoed*); a gate of the live scheduler; a
blackout's cancellation; a position the balance does not cover, or whose size comes
to nothing. What is compared is every history up to the first of them. `Summary` and
`DemoSummary` are the one-pass statistics of `backtest/metrics.py` and
`demo/statistics.py`; they are compared with the ledger, with each other, and with a
drawdown defined over all pairs of points. `demo_statistics` is given what
`list_trades` hands its callers, the newest trades up to a limit (`ListTrades`,
`Shown`): 100 in `demo_statistics` of `executor.py:302-305` and on the demo pages
(`server.py:593`, `server.py:895`), 50 on the dashboard (`server.py:425`), 20 in
`signal_engine demo` (`__main__.py:250`).

### Analysis, Benchmark

An analysis is a sequence of roles asked in turn (one for the single analyzer, five
for the multi-agent one); a call may raise, come without usage, or bring a proposal.
`Benchmark` repeats runs over one cache file. A line is the record it holds, whether
it is ended and whether it was cut inside a character, so that a torn line and the
line a later append glues to it are states, and so is a file that `load` cannot
decode (`LoadRaises`). A step of a run is `Skip`, `Replay`, `Consult` followed by
`AskRole`, `CallRaises`, `WiringClashes` or `AnswerRefused`, and `Record` with
`Write` or `WriteFails`; `Finish` and `Crash` end it. `SignalQuality` and
`EngineCounts` are the two halves of `summary.json`.

### MemoryLog, AgentGraph, DataTools, AgentRuns

The graph is operators on the state a checkpoint holds: the node to run next and
what earlier nodes left. A text is whether it is there, a debate how often each
side spoke, the message channel the number of user messages in it, the data read
the sources that showed something later than the trade date, the identity of the
company in every prompt among them. `DataTools` says of each tool the days on which
what it shows had become known, out of vendors that hold everything ever published;
the day a model asks about is its own choice, up to a day past the present
(`Calls`). `AgentRuns` runs the two entry points,
`propagate` and the command line's `run_analysis`; a run is cut at any node, a
later run of the same thread goes on from its checkpoint, and the memory log is
read, resolved, rewritten and rotated in separate steps.

### Fleet

Invocations of `sync` and `stop` with the reads, spawns, PID files and kills in
their order; processes parse their command line before they run; PIDs are used
again. It serves one finding. Its other behaviours are described under *Seen
while modelling*.

## The runs

Each run asks one question. For every property of a passing run `PROJECT.json`
names a mutant: a plausible mistake in one definition that breaks the property
under the same instance.

| Run | Instance | Question and properties |
|---|---|---|
| `core_one_shot` | a daemon and a one-shot on one symbol, one web thread that may die | Does the ledger hold with two processes on a symbol? `OneActivePerSymbol`, `TradeBacked` |
| `core_account` | one daemon, one web thread, each may be killed once; fair | Is the account what `DemoLedger` promises, is nothing left behind, and is what was begun finished? `TypeOK`, `OpenPositionBacked`, `NothingStranded`, `CapOvershootBounded`, `CancelSparesOpen`, `KeepsPromise`, `BookingFinishes`, `RestartSettles` |
| `scheduler_ticks` | two daemons with a symbol each, two candles, a blackout across a candle's close, any three mishaps | Is a candle analysed once, an entry cleared from a blackout, a provider given its pause? `CallsExplained`, `BlackoutClears`, `BreakerPauses` |
| `control_plane` | one daemon, two requests, two saves of AI settings, one signal, one symbol save or kill; fair | Are staged settings applied in order, none lost but by the race named, and keys noticed? `TypeOK`, `SecretFresh`, `LiveNeverRegresses`, `NoSaveLost`, `StagedIsApplied`, `KeyReachesDaemons` |
| `replay_parity` | three decision candles of two minutes, five kinds of candle, four analyses; a risk share of 120 %, so that a run can fail; pages of two trades | Do backtest and live engine agree until a named reason parts them? `LiveTracksReplay`, `LossCapped`, `StatisticsAgree` |
| `benchmark` | three runs over three candles and one cache, both pipelines, three wirings, one fault | Are failures kept apart, answers paid once, and the summary right? `FailureNeverTraded`, `PaidOnce`, `RecordsKept`, `ReplayOnlyLoosens`, `SummaryAddsUp` |
| `agent_runs` | two runs, cut and resumed, of three shapes and two tickers, by both entry points, over a log with a waiting and a legacy entry, two days | Does a resumed run stay the one that was asked for? `GraphIsTheOneAsked`, `AskedOnce`, `NoLookahead`, `OnePending`, `PendingKept`, `BoardIsHonest` |
| `notices` | a daemon and a one-shot, two releases of which the file lists one, one signal, one mishap; fair | Is what is recorded as told told, and once? `FlagsAreHonest`, `CloseToldOnce`, `QuietInBlackout`, `EndFollows`, `ReportComes` |
| `schema_upgrade` | two daemons and the web server, four generations of file, one older writer, two mishaps; fair | Does an upgrade keep every row and end? `RowsKept`, `EveryStartServes` |
| `pending_waits`, `symbol_switch`, `fleet` | see *Findings* | one documented promise each, which the code does not keep |

### Bounds, and why they are enough

- `core_*`: two signals, since every property relates a signal to itself or to the
  next one of its symbol. One crash per kind of process: each step is followed by
  a crash in some behaviour, and recovery is complete before a second one could
  add anything but a repetition of the start. Two processes per symbol are what
  one process can be surprised by. `MaxOpenPositions = 1` and a margin equal
  to the initial balance make the cap and the balance bite. Daemons on several
  symbols, which share the account and the list of positions, are not an instance
  but are covered by the theorems: there the cap is really passed, by one position
  for two daemons that count at the same time.
- `scheduler_ticks`: one error opens a breaker of one, a second shows that the
  half-open trial opens it again, a third mishap comes on top; four instants are two
  candles with a blackout across the close of the first. Two daemons are one that
  handles the start of the blackout and one that finds it flagged.
- `control_plane`: two saves are an older and a newer one; two requests and a
  daemon are three promoters that may overtake each other. A second daemon
  repeats the first.
- `replay_parity`: three hours are a signal, its end and a next one; the candles
  touch the entry, either exit, both, or nothing, for either direction. A ledger
  may hold three trades and a page shows two of them, so that the summary of a page
  is one of a whole ledger in some behaviours and of its end in others.
- `benchmark`: a run that records, one that replays, one that does so after a
  fault, which may be a line cut inside a character, or under another wiring. The
  three hours are one in which a signal is
  active, one that a release may black out, one that is free.
- `agent_runs`: of two runs one leaves what the other may find. The shapes call
  every tool, have a debate of two rounds and an analyst without tools; two
  entries are what rotation to two can get wrong with a third.
- `notices`: the processes start in the blackout of one release and are warned of
  another that the file does not list, as `event_calendar.json` lists FOMC decisions
  and no CPI or NFP. The second instant is after the end of that blackout and
  within the day whose report is due. One mishap is a kill, a feed that fails for
  one series or for all, a lost message, a refused write, a failed read or new
  settings, at any step.
- `schema_upgrade`: two daemons queue for the lock while a third process gives up;
  the files are none, the first version, one before the rebuild with a column
  added since, and one before the latest columns; three signals are one more than
  any of them holds.

Deadlock is checked but in two runs. `agent_runs` ends at its bounds on runs and
days, `schema_upgrade` when all serve and the bound on signals is reached.
`NothingStranded` says nothing once the web server has died: one that dies between
its transition and its booking, or a `--once` process that is killed, leaves the
position until the next start of a daemon. That is what `RestartSettles` says.

### Fairness

Weak fairness is given to three kinds of step, and to nothing else: the loop of a
running daemon; the start of a daemon that ended, which Docker does
(`restart: unless-stopped`; `docker-compose.yml`, `entrypoint-signalengine.sh`);
and the steps of a request or invocation that was begun. Nothing says that
a request arrives, a one-shot is started, a price touches a level or a mishap
happens. Mishaps are bounded, so that in the end a process lives long enough to
finish.

- `BookingFinishes`: a booking that was begun ends in a trade, or the user took the
  position away. `RestartSettles`: the same of positions stranded by somebody
  else, from the moment a daemon is about to list them.
- `StagedIsApplied`: settings do not stay staged for ever once no signal is active.
  `KeyReachesDaemons`: in the end every analysis uses the key of the file. Each
  excepts what the code does not prevent: a record `raced`, a daemon `fooled`.
- `EndFollows`: the end of a blackout recorded as on is told, unless the store
  failed it (`faulted`). `ReportComes`: the
  report of a day comes once its hour has come, unless the day ends.
- `EveryStartServes`: a process that is started again comes to serve.

## Findings

Lines of the documentation that the code does not keep, each shown by a violation
run.

1. `pending_waits` (`PendingExpires`): *`pending_expiry_hours` caps how long a PENDING_ENTRY may
   wait* (`validator.py:109`). `_tick_locked` returns for any active signal, so
   that the code in `engine.process` that expires it is never reached.
2. `symbol_switch` (`OpenIsMonitored`): *an OPEN position is monitored through its own signal's symbol,
   so the running trade is never affected* (`config.py:909-910`). The monitor looks
   for the active signal of the symbol `resolve_daemon_symbol` gives
   (`monitor.py:333-336`), which a save of another symbol changes at once: nobody
   watches the exits of the OPEN position any more.
3. `fleet` (`StartedRuns`): sync *converges the process set: start missing daemons*
   (`supervisor.py:6`). `_spawn` runs `python -m signal_engine daemon ...`, a
   command the parser of `__main__.py` does not have. The child ends at once, and
   sync reports it as started, each time again.

### Seen while modelling

The following came up while the modules were written and checked. They are
described here and are not runs: the runs above were kept for the questions that
need all interleavings.

Ledger and daemons: a delete or a reset between the monitor's close and
`record_trade` makes the write raise, and nothing up to `run_forever` catches it
(`runtime.py:546` against `552-554`, *a single failing poll never stops the
daemon*); a signal that `candle_log` refers to cannot be deleted, and takes the
whole request with it (`database.py:942` against `883-890`); with a second process
on the symbol the blackout's cancellation may cancel an OPEN signal
(`scheduler.py:1259` against `1248-1249`); count and insert of positions are two
transactions, so the cap can be overrun (`executor.py:134` against `114-117`), by
fewer positions than there are engine processes (`CapOvershootBounded`); the
START flag is shared by all daemons and the cancellation is not, so that of the
three daemons of `docker-compose.yml` one cancels its pending entry at the start of a
blackout and those that find the flag set keep theirs through it
(`scheduler.py:1315-1321` against `1278-1279`, *cancels a PENDING_ENTRY the minute a
blackout starts*; `BlackoutClears` speaks of a daemon that has handled the start);
a fee rate of zero is accepted by `account.py` and refused by `record_trade`
(`database.py:1551`), so that with it no trade is ever booked and every booking
raises; an analysis that began before a blackout
creates its signal inside it, and only the next tick cancels it; a cancellation
that fails is not tried again; the breaker's cooldown counts from the start of the
failed tick; a kill between `create_signal` and the marker lets one candle give
two signals.

Settings: an API key takes effect at once while its provider record is staged;
`resolve_llm_config` and `resolve_analysis_mode` are two reads; the lock looks at
signals of all symbols, so staged settings may starve where one is always active;
`_promote_ai` copies the staged row and deletes what is staged by then, so that what
another request stages in between is lost (`config.py:965` against `29-31`, *staged
... and applied the moment the system is idle*; `NoSaveLost` and `StagedIsApplied`
except exactly those saves);
`SecretStore.set` rewrites in place, though its docstring says atomically, and a
reader tells a rewrite by the file's mtime alone (`config.py:194-221`): one that
reads within the tick of the clock in which the file is truncated and written keeps
the old key, or none, until the next save or restart (`SecretFresh` and
`KeyReachesDaemons` except exactly those daemons, `fooled`).

Notices: the daily report's `_build` reads `signal.decision`, which `Signal` does
not have, and counts every signal as WAIT; END may come early, with the stale
instant of a long tick; a kill between the START flag and `event.last_active`,
restarted after the blackout, loses END; `_set_event_flag` swallows a failed write
and the pass goes on to store `event.last_active`, and a read that fails counts as
*nothing there*: either way END is not sent; so it is when the passes of two
processes straddle two blackouts, and the later write of `event.last_active` is of
the older pass (`EndFollows` excepts exactly these, `faulted`); a read of the WARN or
START flag that fails sends the notice again, which is not modelled; when
one series of the calendar fails and another answers, `refresh` takes the partial
answer for the whole calendar and does not look at the curated file, so that a
release the file lists is not gated until a later refresh succeeds
(`event_calendar.py:252-258` against `11-13`, *any fetch/parse failure degrades to
the curated fallback file*), and the curated file lists FOMC decisions only, so that
in an outage from the start of a daemon on no CPI or NFP is gated
(`QuietInBlackout` speaks of the releases the daemon was told of); the feed may
name the next release of a series while the blackout of the last is still on, and
a refresh then ends that blackout early; a report is sent again after a kill; a
retry after a timeout duplicates a message; who loses the race for an entry
announces OPEN as well.

Schema: the comment on `sqlite_sequence` holds only while the highest id was not
deleted; the first write on a stale snapshot ends the process, which is why the
restart matters; `fcntl` is used unconditionally though imported only off Windows.

Supervisor: daemons started by hand have no PID file; a failed read of the open
signals is read as *none*, so that `sync` stops their daemons; the read and the
kill race; `_cmdline_matches` ignores the symbol; a kill between `_spawn` and
`_write_pid`, or two concurrent syncs, start a daemon twice.

Backtest and benchmark: the backtest drops atr, funding and regime, and has no
expiry, breaker, margin refusal or cancellation, against *engine.py:3*; it uses
the environment's thresholds and not the stored ones; funding costs are left out.
The benchmark's scope hash omits part of the wiring, so that a record made with
more guards is replayed with fewer (`ReplayOnlyLoosens` says how far that goes);
`htf` with `positioning` raises for every candle; `build_signal_quality`'s count
of failures is always 0. `load` decodes the whole file before it looks at a line
(`cache.py:103-107`), and records are written with `ensure_ascii=False`
(`cache.py:131`): a write cut inside a character makes every later run raise, all
records are out of reach, and only `--force-fresh` goes on, paying for all again
(against `cache.py:87-89`, *a crash mid-run never corrupts already-recorded
decisions*, and `101`, `115-116`; `PaidOnce` and `RecordsKept` say what holds until
then). `demo_statistics` starts its path at the initial balance although its callers
pass the newest 100, 50 or 20 trades only: from then on final balance, wins and
drawdown are of the tail of the ledger (`StatisticsAgree` says by how much they
differ).

Agents: the memory log is a read-modify-write of a file, and two processes may
lose an update; a second decision for a pending date is dropped silently; the
command line neither resolves, injects nor stores decisions, and clears its
checkpoint before its report is saved; a run without checkpoints leaves a stale
one behind. Insider filings and prediction odds are undated, statements are
filtered by fiscal period, not by filing date, and the name, sector and industry in
every prompt are today's on a run of any day (`trading_graph.py:367-377`,
`agent_utils.py:92-133`, `cli/main.py:1117-1125`; `date_window.py:38-42` withholds the
same profile from the fundamentals tool as a leak): `NoLookahead` excepts these four
by name (`Undated`). Nothing clamps the dates a model puts into a tool call: the
prompt tells it the trade date, and a call about a later day is shown later data
(*ahead* in `NoLookahead`).

## What is proved

All theorems hold for every value of the constants, under the named assumptions on
them and nothing else, unless a hypothesis is stated.

| Theorem | Property | Of |
|---|---|---|
| `TradeCoreProofs!TypeCorrect`, `OneActive`, `TradesAreBacked` | `TypeOK`, `OneActivePerSymbol`, `TradeBacked` | any symbols, processes, signals, crashes |
| `TradeCoreProofs!OpenPositionsAreBacked`, `AloneSparesOpen` | `OpenPositionBacked`, `CancelSparesOpen` | the same, one process per symbol (`SoleDaemon`) |
| `TradeCoreProofs!CapIsBounded` | `CapOvershootBounded` | any symbols, processes, signals, crashes |
| `TradeCoreProofs!NothingIsStranded` | `NothingStranded` | `SoleDaemon`, no one-shots (`Deployed`); the property holds as long as the web server has not died |
| `TradeCoreProofs!PromiseKept` | `KeepsPromise` | `TradeCore` implements `DemoLedger` |
| `SchedulerProofs!TypeCorrect`, `CallsAreExplained` | `TypeOK`, `CallsExplained` | any daemons, candles, events, mishaps |
| `SchedulerProofs!BlackoutIsClear` | `BlackoutClears` | any daemons, candles, mishaps; windows without gaps |
| `SchedulerProofs!BreakerIsPatient` | `BreakerPauses` | any daemons, errors, kills |
| `ControlPlaneProofs!TypeCorrect`, `KeysAreFresh`, `LiveAdvances`, `SavesAreKept` | `TypeOK`, `SecretFresh`, `LiveNeverRegresses`, `NoSaveLost` | any daemons, requests, symbols, saves |
| `NoticesProofs!FlagsHonest`, `ToldOnce`, `QuietThrough` | `FlagsAreHonest`, `CloseToldOnce`, `QuietInBlackout` | any processes, releases, answers of the feed, failures, kills |
| `MigrationProofs!SignalsKept` | `RowsKept` | any processes, files, kills |
| `ReplayProofs!LossIsCapped`, `LiveTracksTheReplay`, `StatisticsDoAgree` | `LossCapped`, `LiveTracksReplay`, `StatisticsAgree` | any candles, analyses, thresholds, accounts; ledgers and pages of any length |
| `BenchmarkProofs!FailuresAreRejections`, `PaidForOnce`, `ReplaysOnlyLoosen`, `RecordsAreKept`, `SummaryAdds` | `FailureNeverTraded`, `PaidOnce`, `ReplayOnlyLoosens`, `RecordsKept`, `SummaryAddsUp` | any dataset, market, guards, proposals, wirings, runs, faults |
| `AgentRunsProofs!GraphIsAsked`, `ModelsAskedOnce`, `NothingFromTheFuture` | `GraphIsTheOneAsked`, `AskedOnce`, `NoLookahead` | any processes, requests, shapes, days, vendors |
| `AgentRunsProofs!BoardStaysHonest` | `BoardIsHonest` | the same |
| `AgentRunsProofs!OneDecisionPending`, `PendingIsKept` | `OnePending`, `PendingKept` | one process at a time, a log that begins without repetition |

With them every invariant and every action property that a passing run checks is a
theorem.

**TradeCore.** The argument has two layers. `NextIsLedgerStep` forgets the
processes: whatever a step does to the ledger is one of the repository's
transactions, together with what the caller knew of the signal. The ledger's
invariants and the refinement are then proved over these few transactions. What a
caller knows is not part of the ledger and has to be carried along: `Known` (a
process about to book has seen the signal closed, one about to open has seen it
OPEN) and, with one process per symbol, `KnownAlone` (nobody promotes the signal a
process is about to cancel). The inductive invariant is
`IInv == TypeOK /\ Known /\ KnownAlone /\ LedgerInv`. `NothingStranded` needs four
more parts. `NoneLost` says of every open position of a closed signal who will book
it: a process at the booking, a daemon whose list still holds it, or one that has
yet to list. That stays true only because no booking is dropped: a daemon holds a
signal of its own symbol and never loses the race for an entry, so `Reread` is out
of reach (`Manned`); the signal it has just opened stays OPEN without a position
until it inserts one, since nobody closes by hand what has no position
(`Opening`); and a position wiped under a process concerns one that is booking
(`GoneIsBooking`). A one-shot on the symbol, or a web server that
dies before its booking, breaks them.

The cap on open positions counts promises as well as positions. `Inserting` are the
processes that have passed the count of `open_position` and not inserted yet;
`Capped` bounds positions and `Inserting` together. Of all steps only three kinds
matter (`CapStep`): one that adds to neither set, a count below the cap, which adds
one process to `Inserting`, and an insert, which moves one from there to the
positions. A count is made with fewer positions than the cap, and with at most all
engine processes inserting after it; hence the bound
`MaxOpenPositions + Cardinality(Daemons) - 1`, which `DaemonsAssumption` (finitely
many daemons) makes a number.

**Scheduler.** `CallsExplained` is not inductive: it needs that a tick about to
analyse holds a candle above the marker, or one whose repetition is excused
(`CandleAhead`), that its symbol has no active signal until it creates one
(`TickShape`), and that an unmarked analysis is in the hands of the tick that made
it (`CallsKnown`). Since a daemon writes only its own part of the state, the step
is proved for one daemon (`TickKnows`) and the others are framed (`OthersAlone`).
`BlackoutClears` needs an order in time (`Clears`): every blackout a daemon has
handled had begun when its present tick did (`Begun`), so that a tick which passed
the gate began after all of them were over (`Over`, where windows have no gaps), and
so does the entry it creates. Of a daemon that another one's flag kept from handling
the start nothing is said, since nothing holds. `BreakerPauses`
follows from `Pauses`: while the streak is that long, the pause of an idle daemon
ends a cooldown after its last error, and a tick that is under way began after it.

**ControlPlane.** The types are proved by parts, since each step touches few of
them; `RecordSteps` says which statement on the AI settings a step is, and
`LiveAdvances` follows from it with the invariant that what is staged, if
anything, is never older than what is in force (`StagedAhead`). `KeysAreFresh` is
inductive over the types: truncation and write take every process out of
`current` or make it `fooled`, and only a daemon about to read is in `current` and
neither `fooled` nor holding the file's key. `SavesAreKept` needs that who is about
to delete the staged row has copied all that is staged, but for what was staged
since: those records are `raced`.

**Notices.** `FlagsAreHonest` needs that a process about to set a flag has sent the
notice (`SentFirst`). `CloseToldOnce` needs `ClosedOnce`: at most one process is
between closing the signal and telling so, the signal is closed all the while, its
trade is booked before the last step, and until that step nobody has told. Steps
are sorted by what they may touch: watch, news, quiet, surroundings; `Calm` is what
all but `_close`'s own steps keep. `QuietInBlackout` rests on what a calendar holds
(`Sighted`): what the feed named last, or, before it named anything, what the file
lists, and the latter for certain once a tick has asked in vain; each refresh keeps
that (`RefreshHears`). That the code looks for the first blackout that is on and
finds one whenever any is on (`NoneActive`) does the rest. No assumption on feed or
file is made: what it says of a release the daemon was never told of is nothing.

**Migration.** The transaction's work is compared with the file it began from, one
clause per phase (`Stages`). That file is still the one on disk once the
transaction has written (`Based`): the advisory lock keeps a second migration out
(`Alone`), the write lock every other writer, and a first write on a stale snapshot
is refused. One lemma per statement carries `Stages` to the next phase.

**Backtest and Replay.** The live side lags the backtest by at most the newest
candle. `Due` is what it would hold once it had evaluated that candle, or booked the
trade a kill interrupted; `Tracks` says that, as long as nothing parts them, the due
state is the backtest's. Each live step leaves the due state as it is, or names the
reason for which the two part; each step of the backtest makes the same change to
both. `Aged` keeps a signal just entered from being evaluated against the candle
that opened it. `LossIsCapped` is arithmetic: `DivisionRoundsDown` for the
quotients, `QuantityIsCapped` for the smallest of the margin's and the risk's share
(the lemmas hold because a position is sized on the fill that slippage moved), and
`SizedBy` carries it from the fill on. `AnswersAssumption` types the analyses.
`StatisticsAgree` is about loops over ledgers of any length. `Statistics` writes a
loop as the function of its values (`Running`), whose existence and whose bounds
need an induction over its rounds. It is carried out without an operator for a
parameter: `IntervalInduction` says it of a set, from the library's least element of
a well-founded order. `DrawdownIsTheWorstFall` shows that what the loop leaves is a
fall between two points of the path and bounds all others; `SameFalls`, that a path
turned round and negated falls as far, so that the newest-first list of
`demo_statistics` yields what `compute` finds for the trades shown; `SummariesAgree`
collects totals, streaks and drawdown. The invariant `Curve` ties equity, balance,
counters and trades to one another through the steps of the engine.

**Benchmark.** `FileSound`: only the last line of the cache file is unended, and an
hour is on one line only. `RunSound`: a run remembers everything on file, and puts
a record only for an hour it does not remember. Then every record is the latest of
its hour (`ReadableIsOnFile`), and what an append may destroy is known in advance:
itself and the unended line, `Debt`. `PaidSound` counts it:
`puts - records + Debt <= faults`, where a fault that tears a line adds to the debt
and the append that pays it adds no record. All this is of the lines that parse;
`Garbled` spreads by a fault only (`GarbledParts`), and until then a load returns
them. `RecordsAreKept` follows from the same
lemmas on the file (`AppendedSound`, `CutSound`): an ended line is never the one that
is overwritten. `ReplayLoosens` shows that the guards which read funding, regime or
ATR let pass what lacks them, so a replay can only accept more; a failed call is
rejected by `PricesOrdered`, as the fallback's stop is its entry
(`FallbackIsRejected`, which needs prices to be numbers: `BenchmarkAssumption`). For
the summary every hour the model decided has a record that explains what the engine
made of it (`Decides`), and hours inject into records (`HoursHaveRecords`).

**AgentRuns.** Runs share checkpoints, so the invariant is about checkpoints as much
as about processes (`RunsSound`): whoever finds one finds it under a name that
fixes ticker, day and shape (`AskedByThread`), and what it holds is what a graph of
that shape has done before its next node (`Asked`, `Debated`, `Assessed`) and knew
on that day (`Ignorant`). Every node keeps these. Of the log, `LogKept` says that what
a run read is still the file when it replaces it, and that an entry about to be
appended does not wait already; rotation is followed through the ranks of the
entries it keeps (`RankIsBijective`). These theorems
assume `Alone`: two processes that run at once may both pass `store_decision`'s scan
before either appends, or replace the file on top of each other's entry. They also
assume that the log they begin with has no ticker and day waiting twice. The board is
`Backed`: an agent is done on it only when the graph holds what the agent was to
write. No node takes the plan or the proposal back, and none runs after the decision
(`NodesKeepRulings`, from `Assessed`), so that whatever the chunks before a step set
to done is set again (`ShownIsHonest`).

Only model-checked is liveness
(`BookingFinishes`, `RestartSettles`, `StagedIsApplied`, `KeyReachesDaemons`,
`EndFollows`, `ReportComes`, `EveryStartServes`), which with
ENABLED is out of the prover's reach. `Scheduler!TypeOK` is the other way round: it
is proved and no run lists it. The violation
runs are counterexamples and need no proof.

## Not modelled, and why

- Web front end, signal chat, prompts, terminal output, the wording of messages and
  the layout of files: presentation.
- Numeric indicators: floating point. Network clients: their answers and failures
  are free choices of the modules that call them; `llm_clients/` constructs third
  party clients and keeps no state.
- Read-only views of the web server and of the repository; heartbeats and the health
  file; the audit log and connection tests of the settings; quotas and costs.
- The validation of single settings fields, parsing of configuration files, reading
  of candle files and export of results: one field or one file at a time, and
  covered by unit tests.
- Funding in the backtest; `scenario.py`, a preview for the page.
- `compare.py`, which formats two finished summaries.

## Plan

Done: ledger and daemons; scheduler; settings; notices; schema; accounting, backtest
and parity; benchmark; agent graph; supervisor as far as its finding; every invariant
and action property of the passing runs proved. In this order next:

1. The month view of the calendar.
2. The supervisor's other promises as runs, once its command line is repaired.
3. The symbol switch once it is repaired: `OpenIsMonitored` as a passing property.

## Running

    tlc -config CoreAccount.cfg MCTradeCore.tla
    tlc -config NoticesSent.cfg MCNotices.tla
    tlapm TradeCoreProofs.tla

`PROJECT.json` lists all runs with module and configuration, for every definition the
source lines it models, for every property of a passing run a changed definition
that breaks it, and the theorems. The longest run takes two to three minutes on two
workers, the longest proof a few minutes.
