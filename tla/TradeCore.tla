----------------------------- MODULE TradeCore ------------------------------
(***************************************************************************)
(* The processes that share the ledger.  One daemon (signal_engine/        *)
(* runtime.py) serves one symbol: it recovers, reconciles the demo account,*)
(* then alternates scheduler ticks and monitor polls for ever.  A one-shot *)
(* (`python -m signal_engine --once`) recovers, ticks, polls, reconciles   *)
(* and ends.  The web server (web/server.py) closes positions by hand,     *)
(* deletes signals, resets the account and clears the candle log.          *)
(*                                                                         *)
(* An action is one read or one transaction of the code: what a process    *)
(* learnt from a read is in pc, sig and todo, and may be stale when it is  *)
(* used.  A process keeps nothing else across its steps.                   *)
(***************************************************************************)
EXTENDS Ledger

CONSTANTS
    Daemons,          \* the engine processes, one-shots included
    OneShots,         \* those of them started with --once
    Web,              \* request threads of the web server
    SymbolOf,         \* SymbolOf[d]: the symbol daemon d serves
    NetPnls,          \* the net results a trade may have
    ResetBalances,    \* the balances a reset may set
    Margin,           \* margin_per_trade
    MaxOpenPositions, \* MAX_OPEN_POSITIONS
    MaxCrashes,       \* bound: crashes of engine processes
    MaxWebCrashes     \* bound: crashes of the web server

ASSUME ProcessAssumption == OneShots \subseteq Daemons /\ Daemons \cap Web = {}
ASSUME DaemonsAssumption == IsFiniteSet(Daemons)
ASSUME SymbolOfAssumption == SymbolOf \in [Daemons -> Symbols]
ASSUME AmountAssumption ==
    /\ NetPnls \subseteq Int
    /\ ResetBalances \subseteq Int
    /\ Margin \in Int
    /\ MaxOpenPositions \in Nat
ASSUME CrashAssumption == MaxCrashes \in Nat /\ MaxWebCrashes \in Nat

VARIABLES
    pc,         \* pc[p]: where process p is
    sig,        \* sig[p]: the signal object p holds, 0 for none
    todo,       \* todo[d]: ids a recovery or reconcile of d has read
    phase,      \* phase[d]: "boot", "run" or (one-shots) "final"
    gone,       \* processes whose position row was wiped since they read it
    crashes,    \* engine crashes so far
    webCrashes  \* web server crashes so far

procs == <<pc, sig, todo, phase, gone>>
vars == <<db, procs, crashes, webCrashes>>

Procs == Daemons \cup Web

DaemonPcs ==
    {"down", "failed", "recover", "rec_list", "reconcile", "idle", "poll",
     "final", "gate", "cancel", "analyzing", "logging", "seen_pending",
     "seen_open", "reread", "open_chk", "open_ins", "close_chk", "close_rec"}
WebPcs == {"idle", "failed", "manual", "reset", "close_chk", "close_rec"}

Init ==
    /\ LedgerInit
    /\ pc = [p \in Procs |-> IF p \in Web THEN "idle" ELSE "down"]
    /\ sig = [p \in Procs |-> 0]
    /\ todo = [d \in Daemons |-> {}]
    /\ phase = [d \in Daemons |-> "boot"]
    /\ gone = {}
    /\ crashes = 0
    /\ webCrashes = 0

(* Where a process goes next.  A daemon's ticks and polls return to its    *)
(* loop; a one-shot ticks, polls and then runs its final reconcile.        *)
AfterTick(d) == IF d \in OneShots THEN "poll" ELSE "idle"
AfterPoll(d) == IF d \in OneShots THEN "final" ELSE "idle"
AfterOpen(d) == IF phase[d] = "run" THEN AfterPoll(d) ELSE "rec_list"
AfterClose(p) ==
    IF p \in Web THEN "idle"
    ELSE IF phase[p] = "run" THEN AfterPoll(p) ELSE "reconcile"

Goto(p, l) == pc' = [pc EXCEPT ![p] = l]
Hold(p, i) == sig' = [sig EXCEPT ![p] = i]
Finish(p, l) == Goto(p, l) /\ Hold(p, 0)
Proceed(p, l) == Goto(p, l) /\ UNCHANGED sig

(* An exception no frame catches: the daemon's process ends, the web       *)
(* request is answered with an error.                                      *)
Fail(p) ==
    /\ Finish(p, "failed")
    /\ todo' = [d \in Daemons |-> IF d = p THEN {} ELSE todo[d]]

-----------------------------------------------------------------------------
(* Start-up: RecoveryService.recover, then DemoExecutor.reconcile *)

(* recover, first read: the pending signals of the daemon's symbol. *)
Start(d) ==
    /\ pc[d] \in {"down", "failed"}
    /\ Goto(d, "recover")
    /\ todo' = [todo EXCEPT ![d] =
                    {i \in ActiveOf(SymbolOf[d]) : status[i] = "PENDING_ENTRY"}]
    /\ phase' = [phase EXCEPT ![d] = "boot"]
    /\ UNCHANGED <<db, sig, gone>>

(* Mutant of Recover: without an open signal the reconcile is skipped. *)
RecoverWithoutReconcile(d) ==
    LET opened == {i \in ActiveOf(SymbolOf[d]) : status[i] = "OPEN"}
    IN  /\ pc[d] = "recover"
        /\ \/ \E i \in opened :
                /\ Goto(d, "open_chk")
                /\ Hold(d, i)
                /\ UNCHANGED phase
           \/ /\ opened = {}
              /\ Finish(d, "idle")
              /\ phase' = [phase EXCEPT ![d] = "run"]
        /\ todo' = [todo EXCEPT ![d] = {}]
        /\ UNCHANGED <<db, gone>>

(* recover, second read: the open signals.  The two lists together must    *)
(* hold at most one signal; only a single OPEN one is handed to reconcile  *)
(* in a way that matters to it.                                            *)
Recover(d) ==
    LET opened == {i \in ActiveOf(SymbolOf[d]) : status[i] = "OPEN"}
    IN  /\ pc[d] = "recover"
        /\ \/ \E i \in opened :
                /\ opened = {i}
                /\ todo[d] = {}
                /\ Goto(d, "open_chk")
                /\ Hold(d, i)
           \/ /\ todo[d] # {} \/ Cardinality(opened) # 1
              /\ Finish(d, "rec_list")
        /\ todo' = [todo EXCEPT ![d] = {}]
        /\ UNCHANGED <<db, phase, gone>>

(* Mutant of ReconcileList: only positions of live signals are repaired. *)
ReconcileListLive(d) ==
    /\ pc[d] = "rec_list"
    /\ Proceed(d, "reconcile")
    /\ todo' = [todo EXCEPT ![d] = {i \in OpenPositions : status[i] = "OPEN"}]
    /\ UNCHANGED <<db, phase, gone>>

(* reconcile lists the positions of every symbol once ... *)
ReconcileList(d) ==
    /\ pc[d] = "rec_list"
    /\ Proceed(d, "reconcile")
    /\ todo' = [todo EXCEPT ![d] = {i \in Ids : pos[i] # "none"}]
    /\ UNCHANGED <<db, phase, gone>>

(* Mutant of ReconcileNext: stop losses are forgotten. *)
ReconcileNextTakeProfit(d) ==
    /\ pc[d] = "reconcile"
    /\ \E i \in todo[d] :
        /\ todo' = [todo EXCEPT ![d] = @ \ {i}]
        /\ \/ /\ status[i] = "TP_HIT" /\ i \notin trades
              /\ Goto(d, "close_chk")
              /\ Hold(d, i)
           \/ /\ status[i] # "TP_HIT" \/ i \in trades
              /\ UNCHANGED <<pc, sig>>
    /\ UNCHANGED <<db, phase, gone>>

(* ... and takes them one by one: a TP/SL signal without a trade is closed *)
(* the way the monitor closes it, anything else is skipped.                *)
ReconcileNext(d) ==
    /\ pc[d] = "reconcile"
    /\ \E i \in todo[d] :
        /\ todo' = [todo EXCEPT ![d] = @ \ {i}]
        /\ \/ /\ status[i] \in Closed /\ i \notin trades
              /\ Goto(d, "close_chk")
              /\ Hold(d, i)
           \/ /\ status[i] \notin Closed \/ i \in trades
              /\ UNCHANGED <<pc, sig>>
    /\ UNCHANGED <<db, phase, gone>>

ReconcileDone(d) ==
    /\ pc[d] = "reconcile"
    /\ todo[d] = {}
    /\ \/ /\ phase[d] = "boot"
          /\ phase' = [phase EXCEPT ![d] = "run"]
          /\ Proceed(d, "idle")
       \/ /\ phase[d] = "final"
          /\ phase' = [phase EXCEPT ![d] = "boot"]
          /\ Proceed(d, "down")
    /\ UNCHANGED <<db, todo, gone>>

-----------------------------------------------------------------------------
(* DemoExecutor.open_position and close_position *)

(* Mutant of OpenRefused: the cap is not looked at. *)
OpenRefusedUncapped(i) == pos[i] # "none" \/ balance < Margin

(* The signal object says OPEN.  An existing position, a balance below the *)
(* margin or a full book end the call without a write.                     *)
OpenRefused(i) ==
    \/ pos[i] # "none"
    \/ balance < Margin
    \/ Cardinality(OpenPositions) >= MaxOpenPositions

OpenCheck(d) ==
    /\ pc[d] = "open_chk"
    /\ \/ OpenRefused(sig[d]) /\ Finish(d, AfterOpen(d))
       \/ ~OpenRefused(sig[d]) /\ Proceed(d, "open_ins")
    /\ UNCHANGED <<db, todo, phase, gone>>

OpenInsert(d) ==
    /\ pc[d] = "open_ins"
    /\ \/ /\ CreatePosition(sig[d])
          /\ Finish(d, AfterOpen(d))
          /\ UNCHANGED todo
       \/ /\ ~Exists(sig[d])
          /\ Fail(d)
          /\ UNCHANGED db
    /\ UNCHANGED <<phase, gone>>

(* The signal object says TP_HIT or SL_HIT. *)
CloseCheck(p) ==
    /\ pc[p] = "close_chk"
    /\ \/ ~CanRecord(sig[p]) /\ Finish(p, AfterClose(p))
       \/ CanRecord(sig[p]) /\ Proceed(p, "close_rec")
    /\ UNCHANGED <<db, todo, phase, gone>>

(* record_trade looks its position up by row id: one that was wiped since  *)
(* the check is not found, even if the signal has a new one.               *)
CloseRecord(p) ==
    /\ pc[p] = "close_rec"
    /\ \/ /\ p \notin gone
          /\ \E n \in NetPnls : RecordTrade(sig[p], n)
          /\ Finish(p, AfterClose(p))
          /\ UNCHANGED todo
       \/ /\ p \in gone \/ ~CanRecord(sig[p])
          /\ Fail(p)
          /\ UNCHANGED db
    /\ gone' = gone \ {p}
    /\ UNCHANGED phase

-----------------------------------------------------------------------------
(* AnalysisScheduler.tick *)

(* Mutant of EventRead: whatever is active is taken, pending or not. *)
EventReadAny(d) ==
    /\ pc[d] = "idle"
    /\ \E i \in ActiveOf(SymbolOf[d]) : Goto(d, "cancel") /\ Hold(d, i)
    /\ UNCHANGED <<db, todo, phase, gone>>

(* _event_watch at the start of a blackout: read the active signal ... *)
EventRead(d) ==
    /\ pc[d] = "idle"
    /\ \E i \in First(ActiveOf(SymbolOf[d])) :
        /\ status[i] = "PENDING_ENTRY"
        /\ Goto(d, "cancel")
        /\ Hold(d, i)
    /\ UNCHANGED <<db, todo, phase, gone>>

(* ... and cancel it; a refused transition is only logged. *)
EventCancel(d) ==
    /\ pc[d] = "cancel"
    /\ \/ Transition(sig[d], "CANCELLED")
       \/ ~CanTransition(sig[d], "CANCELLED") /\ UNCHANGED db
    /\ Finish(d, "gate")
    /\ UNCHANGED <<todo, phase, gone>>

(* The rest of that tick: inside the blackout nothing is analysed. *)
BlackoutGate(d) ==
    /\ pc[d] = "gate"
    /\ LogOther(SymbolOf[d])
    /\ Proceed(d, AfterTick(d))
    /\ UNCHANGED <<todo, phase, gone>>

(* The AI lock: the analysis starts only without an active signal. *)
TickGate(d) ==
    /\ pc[d] = "idle"
    /\ \/ ActiveOf(SymbolOf[d]) = {} /\ Proceed(d, "analyzing") /\ UNCHANGED db
       \/ /\ ActiveOf(SymbolOf[d]) # {}
          /\ LogOther(SymbolOf[d])
          /\ Proceed(d, AfterTick(d))
    /\ UNCHANGED <<todo, phase, gone>>

(* The analysis proposes a trade: SignalEngine.process persists it, or is  *)
(* blocked by a signal another process created meanwhile.                  *)
Create(d) ==
    /\ pc[d] = "analyzing"
    /\ \/ \E i \in Ids :
            /\ CreateSignal(i, SymbolOf[d])
            /\ Goto(d, "logging")
            /\ Hold(d, i)
       \/ /\ ActiveOf(SymbolOf[d]) # {}
          /\ LogOther(SymbolOf[d])
          /\ Proceed(d, AfterTick(d))
    /\ UNCHANGED <<todo, phase, gone>>

(* WAIT, REJECTED, a rate limit, no data, an error. *)
NoSignal(d) ==
    /\ pc[d] = "analyzing"
    /\ LogOther(SymbolOf[d])
    /\ Proceed(d, AfterTick(d))
    /\ UNCHANGED <<todo, phase, gone>>

LogCreated(d) ==
    /\ pc[d] = "logging"
    /\ LogSignal(sig[d])
    /\ Finish(d, AfterTick(d))
    /\ UNCHANGED <<todo, phase, gone>>

-----------------------------------------------------------------------------
(* SignalMonitor.poll and its handling by the runtime *)

PollRead(d) ==
    /\ pc[d] = AfterTick(d)
    /\ \/ ActiveOf(SymbolOf[d]) = {} /\ Finish(d, AfterPoll(d))
       \/ \E i \in First(ActiveOf(SymbolOf[d])) :
            /\ Goto(d, IF status[i] = "OPEN" THEN "seen_open" ELSE "seen_pending")
            /\ Hold(d, i)
    /\ UNCHANGED <<db, todo, phase, gone>>

(* No candle, an ambiguous one, or one that touches no level. *)
NoTouch(d) ==
    /\ pc[d] \in {"seen_pending", "seen_open"}
    /\ Finish(d, AfterPoll(d))
    /\ UNCHANGED <<db, todo, phase, gone>>

(* _open *)
EntryHit(d) ==
    /\ pc[d] = "seen_pending"
    /\ \/ Transition(sig[d], "OPEN") /\ Proceed(d, "open_chk")
       \/ /\ Exists(sig[d]) /\ ~CanTransition(sig[d], "OPEN")
          /\ Proceed(d, "reread")
          /\ UNCHANGED db
       \/ ~Exists(sig[d]) /\ Finish(d, AfterPoll(d)) /\ UNCHANGED db
    /\ UNCHANGED <<todo, phase, gone>>

(* _open lost a race: whatever is OPEN for the symbol now counts as the    *)
(* entry hit.                                                              *)
Reread(d) ==
    LET active == ActiveOf(symbol[sig[d]])
    IN  /\ pc[d] = "reread"
        /\ \/ \E i \in First(active) :
                /\ status[i] = "OPEN"
                /\ Goto(d, "open_chk")
                /\ Hold(d, i)
           \/ /\ \A i \in First(active) : status[i] # "OPEN"
              /\ Finish(d, AfterPoll(d))
        /\ UNCHANGED <<db, todo, phase, gone>>

(* _close: a refused transition never leads to a demo write. *)
ExitHit(d) ==
    /\ pc[d] = "seen_open"
    /\ \/ \E new \in Closed : Transition(sig[d], new) /\ Proceed(d, "close_chk")
       \/ /\ ~CanTransition(sig[d], "TP_HIT")
          /\ Finish(d, AfterPoll(d))
          /\ UNCHANGED db
    /\ UNCHANGED <<todo, phase, gone>>

(* run_once: the final reconcile is given the oldest active signal of any  *)
(* symbol.                                                                 *)
FinalReconcile(d) ==
    /\ pc[d] = "final"
    /\ phase' = [phase EXCEPT ![d] = "final"]
    /\ \/ \E i \in First(AllActive) :
            /\ status[i] = "OPEN"
            /\ Goto(d, "open_chk")
            /\ Hold(d, i)
       \/ /\ \A i \in First(AllActive) : status[i] # "OPEN"
          /\ Finish(d, "rec_list")
    /\ UNCHANGED <<db, todo, gone>>

-----------------------------------------------------------------------------
(* The web server's handlers *)

(* close_position: the signal must be OPEN and have a position; the market *)
(* price is fetched before the transition.                                 *)
WebCloseRead(w) ==
    /\ pc[w] = "idle"
    /\ \E i \in Ids :
        /\ status[i] = "OPEN" /\ pos[i] # "none"
        /\ Goto(w, "manual")
        /\ Hold(w, i)
    /\ UNCHANGED <<db, todo, phase, gone>>

WebClose(w) ==
    /\ pc[w] = "manual"
    /\ \/ \E new \in Closed : Transition(sig[w], new) /\ Proceed(w, "close_chk")
       \/ /\ ~CanTransition(sig[w], "TP_HIT")
          /\ Finish(w, "idle")
          /\ UNCHANGED db
    /\ UNCHANGED <<todo, phase, gone>>

WebDelete(w) ==
    /\ pc[w] = "idle"
    /\ \E S \in SUBSET Deletable :
        /\ S # {}
        /\ \/ DeleteSignals(S) /\ UNCHANGED <<pc, sig>>
           \/ S \cap logged # {} /\ Finish(w, "failed") /\ UNCHANGED db
    /\ UNCHANGED <<todo, phase, gone>>

(* reset_demo_account: the lock is checked ... *)
WebResetCheck(w) ==
    /\ pc[w] = "idle"
    /\ AllActive = {}
    /\ Proceed(w, "reset")
    /\ UNCHANGED <<db, todo, phase, gone>>

(* ... and the account reset later, whatever happened meanwhile. *)
WebReset(w) ==
    /\ pc[w] = "reset"
    /\ \E b \in ResetBalances : ResetAccount(b)
    /\ gone' = gone \cup {p \in Procs : pc[p] = "close_rec"}
    /\ Finish(w, "idle")
    /\ UNCHANGED <<todo, phase>>

WebClearLog(w) ==
    /\ pc[w] = "idle"
    /\ \E K \in (SUBSET logged) \ {{}} : DropLog(K)
    /\ UNCHANGED <<pc, sig, todo, phase, gone>>

WebReply(w) ==
    /\ pc[w] = "failed"
    /\ Finish(w, "idle")
    /\ UNCHANGED <<db, todo, phase, gone>>

-----------------------------------------------------------------------------
(* A killed process loses everything but the ledger. *)

Crash(d) ==
    /\ crashes < MaxCrashes
    /\ pc[d] \notin {"down", "failed"}
    /\ crashes' = crashes + 1
    /\ Finish(d, "down")
    /\ todo' = [todo EXCEPT ![d] = {}]
    /\ phase' = [phase EXCEPT ![d] = "boot"]
    /\ gone' = gone \ {d}
    /\ UNCHANGED <<db, webCrashes>>

WebCrash ==
    /\ webCrashes < MaxWebCrashes
    /\ \E w \in Web : pc[w] # "idle"
    /\ webCrashes' = webCrashes + 1
    /\ pc' = [p \in Procs |-> IF p \in Web THEN "idle" ELSE pc[p]]
    /\ sig' = [p \in Procs |-> IF p \in Web THEN 0 ELSE sig[p]]
    /\ gone' = gone \ Web
    /\ UNCHANGED <<db, todo, phase, crashes>>

-----------------------------------------------------------------------------
DaemonStep(d) ==
    /\ \/ Start(d) \/ Recover(d)
       \/ ReconcileList(d) \/ ReconcileNext(d) \/ ReconcileDone(d)
       \/ OpenCheck(d) \/ OpenInsert(d)
       \/ CloseCheck(d) \/ CloseRecord(d)
       \/ EventRead(d) \/ EventCancel(d) \/ BlackoutGate(d)
       \/ TickGate(d) \/ Create(d) \/ NoSignal(d) \/ LogCreated(d)
       \/ PollRead(d) \/ NoTouch(d) \/ EntryHit(d) \/ Reread(d) \/ ExitHit(d)
       \/ FinalReconcile(d)
    /\ UNCHANGED <<crashes, webCrashes>>

(* A request arrives ... *)
WebRequest(w) ==
    /\ \/ WebCloseRead(w) \/ WebDelete(w) \/ WebResetCheck(w) \/ WebClearLog(w)
    /\ UNCHANGED <<crashes, webCrashes>>

(* ... and is worked off. *)
WebStep(w) ==
    /\ \/ WebClose(w) \/ WebReset(w) \/ WebReply(w)
       \/ CloseCheck(w) \/ CloseRecord(w)
    /\ UNCHANGED <<crashes, webCrashes>>

Next ==
    \/ \E d \in Daemons : DaemonStep(d) \/ Crash(d)
    \/ \E w \in Web : WebRequest(w) \/ WebStep(w)
    \/ WebCrash

Spec == Init /\ [][Next]_vars

(* Docker restarts a daemon that ended (restart: unless-stopped) and a     *)
(* running one keeps executing; a request that was accepted is worked off. *)
(* No request has to arrive and no one-shot has to be started.             *)
FairSpec ==
    /\ Spec
    /\ \A d \in Daemons \ OneShots : WF_vars(DaemonStep(d))
    /\ \A w \in Web : WF_vars(WebStep(w))
-----------------------------------------------------------------------------
(* Safety *)

(* Where a process acts on the signal object it holds. *)
HoldingPcs ==
    {"cancel", "logging", "seen_pending", "seen_open", "reread", "open_chk",
     "open_ins", "manual", "close_chk", "close_rec"}

TypeOK ==
    /\ status \in [Ids -> Statuses \cup {"NONE", "DELETED"}]
    /\ symbol \in [Ids -> Symbols \cup {NoSymbol}]
    /\ pos \in [Ids -> {"none", "OPEN", "CLOSED"}]
    /\ trades \subseteq Ids
    /\ balance \in Int
    /\ logged \subseteq Ids
    /\ pc \in [Procs -> DaemonPcs \cup WebPcs]
    /\ sig \in [Procs -> Ids \cup {0}]
    /\ \A p \in Procs : pc[p] \in HoldingPcs => sig[p] \in Ids
    /\ todo \in [Daemons -> SUBSET Ids]
    /\ phase \in [Daemons -> {"boot", "run", "final"}]
    /\ gone \subseteq Procs
    /\ crashes \in 0 .. MaxCrashes
    /\ webCrashes \in 0 .. MaxWebCrashes

(* At most one signal per symbol is PENDING_ENTRY or OPEN, whatever runs   *)
(* side by side (README "only one active signal", create_signal).          *)
OneActivePerSymbol ==
    \A i, j \in Ids :
        /\ status[i] \in Active /\ status[j] \in Active
        /\ symbol[i] = symbol[j]
        => i = j

(* A trade is booked only for a signal that reached TP or SL and whose     *)
(* position is closed, and a position is closed only by booking its trade  *)
(* (close_position, record_trade), even across crashes, repeated           *)
(* reconciles, manual closes, deletes and resets.                          *)
TradeBacked ==
    \A i \in Ids :
        /\ i \in trades => pos[i] = "CLOSED" /\ status[i] \in Closed
        /\ pos[i] = "CLOSED" => i \in trades

(* Each symbol is served by one process, the deployment of                 *)
(* docker-compose.yml.                                                     *)
SoleDaemon == \A d, e \in Daemons : SymbolOf[d] = SymbolOf[e] => d = e

(* With one process per symbol an open position always belongs to a signal *)
(* that is OPEN, or has closed at TP/SL and waits to be booked: never to a *)
(* cancelled one, which no reconcile would ever settle (open_position,     *)
(* reconcile).                                                             *)
OpenPositionBacked ==
    SoleDaemon =>
        \A i \in OpenPositions : status[i] \in {"OPEN"} \cup Closed

(* open_position calls its cap on open positions "defense in depth so a    *)
(* slot bug can never over-commit shared margin".  It counts in one        *)
(* transaction and inserts in another, so engine processes that count at   *)
(* the same time may each add a position.  The account passes the cap by   *)
(* fewer positions than there are such processes: one that is killed or    *)
(* restarted counts anew, and a process alone never passes it.             *)
CapOvershootBounded ==
    OpenPositions # {} =>
        Cardinality(OpenPositions) < MaxOpenPositions + Cardinality(Daemons)

(* With one process per symbol an OPEN signal is never cancelled, although *)
(* transition_signal would allow it: every caller of cancel has just seen  *)
(* it pending.                                                             *)
CancelSparesOpen ==
    [][\A i \in Ids : status[i] = "OPEN" => status'[i] # "CANCELLED"]_vars

(* Until the web server dies, a signal that closed at TP/SL is never left  *)
(* with an unbooked position: some process is booking it now, has it on    *)
(* its reconcile list, or is going to list the positions before it does    *)
(* anything else.                                                          *)
WillList(d) ==
    \/ pc[d] \in {"down", "failed"} /\ d \notin OneShots
    \/ pc[d] \in {"recover", "rec_list"}
    \/ pc[d] \in {"open_chk", "open_ins"} /\ phase[d] # "run"

BeingSettled(i) ==
    \/ \E p \in Procs : sig[p] = i /\ pc[p] \in {"close_chk", "close_rec"}
    \/ \E d \in Daemons : (i \in todo[d] /\ pc[d] # "recover") \/ WillList(d)

NothingStranded ==
    webCrashes = 0 =>
        \A i \in OpenPositions : status[i] \in Closed => BeingSettled(i)

(* The ledger keeps the promises of DemoLedger. *)
Life(i) ==
    IF status[i] = "NONE" THEN "free"
    ELSE IF status[i] = "PENDING_ENTRY" THEN "waiting"
    ELSE IF status[i] = "OPEN" THEN "live"
    ELSE IF status[i] \in Closed THEN "settled"
    ELSE IF status[i] = "CANCELLED" THEN "void"
    ELSE "erased"

Book(i) ==
    IF i \in trades THEN "booked" ELSE IF pos[i] = "none" THEN "none" ELSE "open"

Promise == INSTANCE DemoLedger WITH
    Signals <- Ids,
    VoidLive <- ~SoleDaemon,
    life <- [i \in Ids |-> Life(i)],
    book <- [i \in Ids |-> Book(i)],
    money <- balance

(* Every behaviour of the processes is one of the abstract account: one    *)
(* booking per signal, after the close, with a position, and the balance   *)
(* moved only by that booking or by a reset.                               *)
KeepsPromise == Promise!Spec
-----------------------------------------------------------------------------
(* Liveness, under FairSpec *)

(* Once a daemon is booking the trade of a signal it closed, the trade is  *)
(* booked in the end, even if the daemon is killed first: the reconcile of *)
(* its next start finishes the job (_handle_monitor_result, reconcile).    *)
(* Only a reset or a delete that takes the position away ends it otherwise.*)
BookingFinishes ==
    \A d \in Daemons, i \in Ids :
        (sig[d] = i /\ pc[d] \in {"close_chk", "close_rec"})
            ~> (i \in trades \/ pos[i] = "none")

(* Whatever stranded a closed signal's position, a crash of the web server *)
(* between its transition and its booking included, the next start of a    *)
(* daemon settles it (start, reconcile).                                   *)
RestartSettles ==
    \A i \in Ids :
        (pos[i] = "OPEN" /\ status[i] \in Closed /\ \E d \in Daemons : WillList(d))
            ~> pos[i] # "OPEN"
=============================================================================
