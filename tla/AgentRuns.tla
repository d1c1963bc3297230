------------------------------ MODULE AgentRuns ------------------------------
(***************************************************************************)
(* Runs of the TradingAgents graph: TradingAgentsGraph.propagate and the   *)
(* command line's run_analysis, over the checkpoints and the memory log    *)
(* they share on disk.  A run may be cut anywhere, by an error of a model  *)
(* or a data tool, by the recursion limit or by the death of its process;  *)
(* what survives is on disk, and a later run of the same ticker, date and  *)
(* graph shape picks it up.                                                *)
(***************************************************************************)
EXTENDS Naturals, Sequences, FiniteSets, AgentGraph, DataTools, MemoryLog

CONSTANTS
  Procs,       \* processes that run analyses
  Requests,    \* what may be asked for: the entry point ("propagate" or "cli"), the
               \* ticker, the shape of the graph [analysts, debate, risk] and
               \* checkpoint_enabled
  FirstLog,    \* the log earlier runs left
  Chain,       \* number of vendors configured for a data tool
  Holding,     \* holding_days of _fetch_returns
  Limit,       \* max_recur_limit
  LastDay,     \* bound: the last day of the model
  MaxRuns      \* bound: runs begun

Shapes  == {r.shape : r \in Requests}

ASSUME RunsAssumption ==
  /\ Holding \in Nat /\ Limit \in Nat \ {0} /\ Chain \in Nat \ {0}
  /\ \A s \in Shapes : /\ s.debate \in Nat \ {0} /\ s.risk \in Nat \ {0}
                       /\ s.analysts \in Seq(DOMAIN ToolsOf) /\ Len(s.analysts) > 0

\* Nobody knew more than was known on the first day.
ASSUME LogAssumption ==
  /\ FirstLog \in Seq(Entries({e.ticker : e \in Range(FirstLog)}))
  /\ \A e \in Range(FirstLog) : e.known = 0

VARIABLES
  day,     \* today
  log,     \* the memory log file
  saved,   \* the checkpoint of every thread that has one
  proc,    \* what each process is doing
  begun    \* runs begun

vars == <<day, log, saved, proc, begun>>

NoState == [node |-> Node("none", 0)]
NoBoard == <<>>

\* Mutant of Signature: a thread is its ticker and date alone.
SignatureLegacy(shape) == <<<<>>, 0, 0>>

\* The inputs that shape the graph, folded into the thread id.
Signature(shape) == <<shape.analysts, shape.debate, shape.risk>>

Thread(ticker, date, shape) == <<ticker, date, Signature(shape)>>

Idle == [pc |-> "idle", req |-> CHOOSE r \in Requests : TRUE, date |-> 0,
         updates |-> {}, text |-> <<>>, g |-> NoState, left |-> 0, board |-> NoBoard]

\* The thread of a run, and a checkpoint of it.
Mine(p) == Thread(proc[p].req.ticker, proc[p].date, proc[p].req.shape)
Saved(p, g) ==
  saved' = IF proc[p].req.keep
           THEN [t \in DOMAIN saved \cup {Mine(p)} |-> IF t = Mine(p) THEN g ELSE saved[t]]
           ELSE saved

Goto(p, pc) == proc' = [proc EXCEPT ![p].pc = pc]

Init ==
  /\ day = 0
  /\ log = FirstLog
  /\ saved = <<>>
  /\ proc = [p \in Procs |-> Idle]
  /\ begun = 0

-----------------------------------------------------------------------------
(* Before the graph                                                        *)

\* The price history covers the holding window of an entry from this day on.
Settled(e) == e.date + Holding <= day

\* A run of propagate or of the command line begins.  propagate resolves what
\* is pending for its ticker first: the entries whose returns it could fetch.
Start(p) ==
  /\ proc[p].pc = "idle" /\ begun < MaxRuns
  /\ begun' = begun + 1
  /\ \E req \in Requests, date \in 0..day :
       \E fetched \in SUBSET {e \in PendingFor(log, req.ticker) : Settled(e)} :
         /\ req.way = "cli" => fetched = {}
         /\ proc' = [proc EXCEPT ![p] =
              [Idle EXCEPT !.req = req, !.date = date,
                 !.pc = IF fetched = {} THEN "begin" ELSE "read",
                 !.updates = {[ticker |-> e.ticker, date |-> e.date, known |-> e.date + Holding] :
                                e \in fetched}]]
  /\ UNCHANGED <<day, log, saved>>

\* batch_update_with_outcomes reads the file ...
ReadLog(p) ==
  /\ proc[p].pc = "read"
  /\ proc' = [proc EXCEPT ![p].text = log, ![p].pc = "replace"]
  /\ UNCHANGED <<day, log, saved, begun>>

\* ... and replaces it by what it made of the text it read.
ReplaceLog(p) ==
  /\ proc[p].pc = "replace"
  /\ log' = WithOutcomes(proc[p].text, proc[p].updates)
  /\ proc' = [proc EXCEPT ![p].text = <<>>, ![p].updates = {}, ![p].pc = "begin"]
  /\ UNCHANGED <<day, saved, begun>>

\* Mutant of MemoryAsOf: every run reads the whole log.
MemoryAsOfNever(date) == FALSE

\* _memory_as_of: a run of a past day filters the lessons.
MemoryAsOf(date) == date < day

\* Mutant of GraphInput: the initial state is passed whether or not a
\* checkpoint exists.
GraphInputAlways(cp, context, late) ==
  IF cp = NoState THEN Fresh(context, late) ELSE Reentered(cp, context, late)

\* checkpoint_input: nothing is passed to a thread that is resumed, the graph
\* goes on from its checkpoint.
GraphInput(cp, context, late) == IF cp = NoState THEN Fresh(context, late) ELSE cp

\* The source, if it showed something of after the run's trade date.
Late(p, source, shown) == IF \E d \in shown : d > proc[p].date THEN {source} ELSE {}

\* begin_checkpoint, the initial state and the first values of the stream.
\* Only propagate puts past lessons in the state; both resolve the identity of the
\* company, by no date.
Begin(p) ==
  /\ proc[p].pc = "begin"
  /\ \E identity \in Identities(day) :
     LET req     == proc[p].req
         date    == proc[p].date
         context == IF req.way = "cli" THEN {}
                    ELSE PastContext(log, req.ticker, MemoryAsOf(date), date)
         g       == GraphInput(IF req.keep /\ Mine(p) \in DOMAIN saved THEN saved[Mine(p)]
                               ELSE NoState, context, Late(p, "identity", identity))
     IN  /\ proc' = [proc EXCEPT ![p].pc = "run", ![p].g = g, ![p].left = Limit,
                       ![p].board = IF req.way = "cli" THEN Shown(NewBoard(req.shape), req.shape, g)
                                    ELSE NoBoard]
         /\ Saved(p, g)
  /\ UNCHANGED <<day, log, begun>>

-----------------------------------------------------------------------------
(* The graph.  Each node costs one step of the recursion limit, and its    *)
(* result is in the checkpoint and on the board before the next one runs.  *)

At(p, kinds) == proc[p].pc = "run" /\ proc[p].left > 0 /\ proc[p].g.node.kind \in kinds

Ran(p, g) ==
  /\ proc' = [proc EXCEPT ![p].g = g, ![p].left = @ - 1,
                ![p].board = IF proc[p].req.way = "cli" THEN Shown(@, proc[p].req.shape, g)
                             ELSE @]
  /\ Saved(p, g)
  /\ UNCHANGED <<day, log, begun>>

Key(p) == proc[p].req.shape.analysts[proc[p].g.node.i]

Analyst(p) ==
  /\ At(p, {"agent"}) /\ ToolsOf[Key(p)] # {}
  /\ \E answer \in {"report", "empty", "tools"} :
       Ran(p, Analysed(proc[p].g, proc[p].req.shape, answer))

\* The sentiment analyst's data - news and posts up to the trade date - is in its
\* prompt: it is asked once.
SentimentAnalyst(p) ==
  /\ At(p, {"agent"}) /\ ToolsOf[Key(p)] = {}
  /\ \E answer \in {"report", "empty"}, fetched \in BOOLEAN :
       Ran(p, [Analysed(proc[p].g, proc[p].req.shape, answer) EXCEPT
                 !.late = @ \cup Late(p, "news", CompanyNews(proc[p].date, day))
                            \cup Late(p, "messages", Messages(proc[p].date, day))
                            \cup Late(p, "posts", RedditPosts(proc[p].date, day, fetched))])

\* The prompt gives the trade date as today's, but nothing holds the model to it.
Source(p, call) == IF call.asked > proc[p].date THEN "ahead" ELSE call.tool

\* A data tool returns something for the model to read, a sentinel included.
Tools(p) ==
  /\ At(p, {"tools"})
  /\ \E call \in Calls(Key(p), day), outcomes \in [1..Chain -> VendorOutcomes] :
       /\ Possible(call, outcomes)
       /\ Result(call.tool, outcomes) # "raise"
       /\ Ran(p, ToolsDone(proc[p].g,
                 IF Result(call.tool, outcomes) = "data"
                 THEN Late(p, Source(p, call), Shows(call, day)) ELSE {}))

\* ... or raises, which ends the run.
ToolRaises(p) ==
  /\ At(p, {"tools"})
  /\ \E call \in Calls(Key(p), day), outcomes \in [1..Chain -> VendorOutcomes] :
       Possible(call, outcomes) /\ Result(call.tool, outcomes) = "raise"
  /\ proc' = [proc EXCEPT ![p] = Idle]
  /\ UNCHANGED <<day, log, saved, begun>>

Clear(p) == At(p, {"clear"}) /\ Ran(p, Cleared(proc[p].g, proc[p].req.shape))

Bull(p) == At(p, {"bull"}) /\ Ran(p, Argued(proc[p].g, proc[p].req.shape))
Bear(p) == At(p, {"bear"}) /\ Ran(p, Argued(proc[p].g, proc[p].req.shape))

Research(p) == At(p, {"research"}) /\ Ran(p, Planned(proc[p].g))

Trade(p) == At(p, {"trader"}) /\ Ran(p, Proposed(proc[p].g))

Aggressive(p)   == At(p, {"agg"}) /\ Ran(p, Weighed(proc[p].g, proc[p].req.shape))
Conservative(p) == At(p, {"con"}) /\ Ran(p, Weighed(proc[p].g, proc[p].req.shape))
Neutral(p)      == At(p, {"neu"}) /\ Ran(p, Weighed(proc[p].g, proc[p].req.shape))

Manage(p) == At(p, {"manager"}) /\ Ran(p, Decided(proc[p].g))

\* The graph is at its end: the command line goes on to clear the checkpoint,
\* propagate logs the state and stores the decision first.
Finish(p) ==
  /\ proc[p].pc = "run" /\ proc[p].g.node = End
  /\ Goto(p, IF proc[p].req.way = "cli" THEN "clear" ELSE "store")
  /\ UNCHANGED <<day, log, saved, begun>>

\* GraphRecursionError: the limit is spent short of the end.  The checkpoint
\* stays.
OutOfSteps(p) ==
  /\ proc[p].pc = "run" /\ proc[p].g.node # End /\ proc[p].left = 0
  /\ proc' = [proc EXCEPT ![p] = Idle]
  /\ UNCHANGED <<day, log, saved, begun>>

-----------------------------------------------------------------------------
(* After the graph                                                         *)

\* Mutant of StoreOrNot: the guard of store_decision is left out.
StoreOrNotAlways(p) == "append"

\* The scan of store_decision.
StoreOrNot(p) == IF HasPending(log, proc[p].req.ticker, proc[p].date) THEN "clear" ELSE "append"

Store(p) ==
  /\ proc[p].pc = "store"
  /\ Goto(p, StoreOrNot(p))
  /\ UNCHANGED <<day, log, saved, begun>>

AppendLog(p) ==
  /\ proc[p].pc = "append"
  /\ log' = Stored(log, proc[p].req.ticker, proc[p].date)
  /\ Goto(p, "clear")
  /\ UNCHANGED <<day, saved, begun>>

\* clear_checkpoint_on_success, then end_checkpoint.
ClearCheckpoint(p) ==
  /\ proc[p].pc = "clear"
  /\ saved' = IF proc[p].req.keep THEN [t \in DOMAIN saved \ {Mine(p)} |-> saved[t]] ELSE saved
  /\ proc' = [proc EXCEPT ![p] = Idle]
  /\ UNCHANGED <<day, log, begun>>

-----------------------------------------------------------------------------
(* The surroundings                                                        *)

\* The run is cut: a model call or a write raises, or the process dies.
Cut(p) ==
  /\ proc[p].pc # "idle"
  /\ proc' = [proc EXCEPT ![p] = Idle]
  /\ UNCHANGED <<day, log, saved, begun>>

\* clear_all_checkpoints, asked for on the command line before a run.
ClearAll(p) ==
  /\ proc[p].pc = "idle" /\ DOMAIN saved # {}
  /\ saved' = <<>>
  /\ UNCHANGED <<day, log, proc, begun>>

NextDay ==
  /\ day < LastDay
  /\ day' = day + 1
  /\ UNCHANGED <<log, saved, proc, begun>>

Step(p) ==
  \/ ReadLog(p) \/ ReplaceLog(p) \/ Begin(p)
  \/ Analyst(p) \/ SentimentAnalyst(p) \/ Tools(p) \/ ToolRaises(p) \/ Clear(p)
  \/ Bull(p) \/ Bear(p) \/ Research(p) \/ Trade(p)
  \/ Aggressive(p) \/ Conservative(p) \/ Neutral(p) \/ Manage(p) \/ Finish(p) \/ OutOfSteps(p)
  \/ Store(p) \/ AppendLog(p) \/ ClearCheckpoint(p)

Next ==
  \/ NextDay
  \/ \E p \in Procs : Start(p) \/ Step(p) \/ Cut(p) \/ ClearAll(p)

Spec == Init /\ [][Next]_vars

-----------------------------------------------------------------------------
(* Properties                                                              *)

Running == {p \in Procs : proc[p].pc \in {"run", "store", "append", "clear"}}

\* The graph a run finishes is the graph it was asked for: when the Research
\* Manager has ruled both sides spoke once a round, when the Portfolio Manager
\* has decided each risk analyst did, and no report comes from an analyst that
\* was not selected - also when the run went on from a checkpoint another run,
\* perhaps of another configuration, left behind (thread_id, _run_signature).
GraphIsTheOneAsked ==
  \A p \in Running :
    LET g == proc[p].g
        s == proc[p].req.shape
    IN  /\ g.plan => g.bull = s.debate /\ g.bear = s.debate
        /\ g.decided => g.agg = s.risk /\ g.con = s.risk /\ g.neu = s.risk
        /\ g.reports \subseteq {s.analysts[i] : i \in DOMAIN s.analysts}

\* Resuming never puts the request in front of the models twice: there is one
\* user message in the channel, whatever was cut and resumed (checkpoint_input).
AskedOnce == \A p \in Running : proc[p].g.users = 1

\* The sources that date what they show by something else than its publication, or
\* by nothing: the period of a statement, filings of insiders, live odds, and the
\* identity in every prompt, whose name, sector and industry are today's - what
\* date_window.py:38-42 withholds from a past day as a leak.
Undated == {"statements", "insiders", "odds", "identity"}

\* What a run learns that was not known on its trade date, whichever day it is run,
\* cut and resumed on, is of an undated source or was asked for by the model for a
\* later day.  It never is the outcome of an earlier decision (_memory_as_of,
\* get_past_context), nor prices, indicators, news, posts, profiles or macro data
\* asked for as of the trade date or before (load_ohlcv, in_window,
\* withhold_live_profile, get_macro_data).  Entries from before resolution days
\* were recorded are shown to live runs.
NoLookahead ==
  \A p \in Running :
    /\ \A e \in proc[p].g.context : e.outcome = "resolved" => e.known <= proc[p].date
    /\ proc[p].g.late \subseteq Undated \cup {"ahead"}

\* One ticker and day has one decision waiting for its outcome, though a run is
\* cut between storing the decision and clearing its checkpoint, and is resumed
\* or repeated (store_decision).
OnePending ==
  \A i, j \in DOMAIN log :
    IsPending(log[i]) /\ IsPending(log[j]) /\ log[i] = log[j] => i = j

\* A decision that waits for its outcome stays in the log until a run resolves
\* it: neither rotation nor the rewrite of the file loses it
\* (batch_update_with_outcomes, _apply_rotation).
PendingKept ==
  [][\A e \in Range(log) : IsPending(e) /\ e \notin Range(log') =>
       \E p \in Procs : /\ proc[p].pc = "replace"
                        /\ \E u \in proc[p].updates : u.ticker = e.ticker /\ u.date = e.date]_vars

\* On the status board of the command line an agent that is done stays done
\* until the run is over, whatever later chunks bring, and a section that counts
\* as completed shows what its finalizing agent wrote: get_completed_reports_count
\* "prevents interim updates (like debate rounds) from counting as completed".
BoardIsHonest ==
  [][\A p \in Procs :
       proc'[p].pc = "run" /\ proc'[p].req.way = "cli" /\ proc'[p].g # proc[p].g =>
         LET shape  == proc'[p].req.shape
             before == IF proc[p].pc = "begin" THEN NewBoard(shape) ELSE proc[p].board
             after  == proc'[p].board
         IN  /\ \A a \in DOMAIN before : before[a] = "completed" => after[a] = "completed"
             /\ \A section \in CompletedSections(before, after, proc'[p].g) :
                   SectionText(section, before, proc'[p].g) = Finalizer[section]]_vars
=============================================================================
