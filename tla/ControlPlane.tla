---------------------------- MODULE ControlPlane ----------------------------
(***************************************************************************)
(* How the daemons follow the settings while the web server changes them.  *)
(* Before each tick a daemon promotes staged AI settings when no signal is *)
(* active, finds out which symbol it serves and whether that symbol is     *)
(* enabled, and analyses it with the API key of the secrets file           *)
(* (signal_engine/runtime.py, scheduler.py); each poll resolves the symbol *)
(* again and watches its active signal (monitor.py).  Requests of the web  *)
(* server save AI settings and symbols and close positions (web/server.py, *)
(* config.py).                                                             *)
(*                                                                         *)
(* An action is one read or write of the code on the shared state.  Of a   *)
(* signal only its status and its symbol are kept; the demo ledger is the  *)
(* business of TradeCore.                                                  *)
(***************************************************************************)
EXTENDS Settings

CONSTANTS
    Requests,    \* the request threads of the web server
    MaxSignals,  \* bound: how many signals are ever created
    MaxTurns     \* bound: kills of daemons and saves of symbols, together

ASSUME ProcessAssumption == Daemons \cap Requests = {}
ASSUME BoundAssumption == MaxSignals \in Nat /\ MaxTurns \in Nat

VARIABLES
    pc,       \* pc[p]: where daemon or request p is
    booting,  \* the daemons that have not yet finished their start
    own,      \* own[d]: the symbol daemon d resolved for its tick
    newKey,   \* newKey[r]: the API key request r is about to write
    status,   \* status[i] of signal i
    label,    \* label[i]: the symbol stored with signal i
    raced,    \* history: AI records staged while a promotion was about to delete its row
    asked,    \* saves of AI settings asked for so far
    turns     \* kills and symbol saves so far

signals == <<status, label>>
procs == <<pc, booting, own, newKey>>
vars == <<settings, procs, signals, raced, asked, turns>>

Ids == 1 .. MaxSignals
Active == {"PENDING_ENTRY", "OPEN"}
AllActive == {i \in Ids : status[i] \in Active}
ActiveOf(s) == {i \in AllActive : label[i] = s}

DaemonPcs == {"down", "idle", "pending", "promote", "drop", "own", "gate",
              "lock", "stat", "load", "analysed"}
RequestPcs == {"idle", "truncate", "write", "stage", "check",
               "promote", "copyrow", "drop"}

Init ==
    /\ SettingsInit
    /\ pc = [p \in Daemons \cup Requests |-> IF p \in Requests THEN "idle" ELSE "down"]
    /\ booting = Daemons
    /\ own = [d \in Daemons |-> Unset]
    /\ newKey = [r \in Requests |-> 0]
    /\ status = [i \in Ids |-> "NONE"]
    /\ label = [i \in Ids |-> Unset]
    /\ raced = {}
    /\ asked = 0
    /\ turns = 0

Goto(p, l) == pc' = [pc EXCEPT ![p] = l]

-----------------------------------------------------------------------------
(* apply_pending_if_idle, at the start of a daemon and before each tick *)

(* A daemon starts, or is restarted by its container. *)
Start(d) ==
    /\ pc[d] = "down"
    /\ Goto(d, "pending")
    /\ booting' = booting \cup {d}
    /\ UNCHANGED <<settings, own, newKey, signals>>

Tick(d) ==
    /\ pc[d] = "idle"
    /\ Goto(d, "pending")
    /\ UNCHANGED <<settings, booting, own, newKey, signals>>

(* After apply_pending_if_idle: a booting daemon is up, a tick goes on. *)
Applied(d) ==
    /\ Goto(d, IF d \in booting THEN "idle" ELSE "own")
    /\ booting' = booting \ {d}

(* Mutant of ReadPending: only staged settings that differ from nothing    *)
(* live are looked at, so a second save is never applied.                  *)
ReadPendingFirst(d) ==
    /\ pc[d] = "pending"
    /\ \/ /\ staged # 0 /\ live = 0 /\ AllActive = {}
          /\ Goto(d, "promote")
          /\ UNCHANGED booting
       \/ /\ staged = 0 \/ live # 0 \/ AllActive # {}
          /\ Applied(d)
    /\ UNCHANGED <<settings, own, newKey, signals>>

(* Nothing staged, or a signal of any symbol is active: nothing to do. *)
ReadPending(d) ==
    /\ pc[d] = "pending"
    /\ \/ /\ staged # 0 /\ AllActive = {}
          /\ Goto(d, "promote")
          /\ UNCHANGED booting
       \/ /\ staged = 0 \/ AllActive # {}
          /\ Applied(d)
    /\ UNCHANGED <<settings, own, newKey, signals>>

(* Mutant of PromoteDaemon: the row is deleted uncopied when settings are  *)
(* in force already.                                                       *)
PromoteDaemonOnce(d) ==
    /\ pc[d] = "promote"
    /\ \/ /\ staged # 0
          /\ Goto(d, "drop")
          /\ IF live = 0 THEN Promote ELSE UNCHANGED records
          /\ UNCHANGED booting
       \/ staged = 0 /\ Applied(d) /\ UNCHANGED records
    /\ UNCHANGED <<routes, secrets, own, newKey, signals>>

(* _promote_ai: the staged row is read again (it may be gone by now), ... *)
PromoteDaemon(d) ==
    /\ pc[d] = "promote"
    /\ \/ staged # 0 /\ Goto(d, "drop") /\ Promote /\ UNCHANGED booting
       \/ staged = 0 /\ Applied(d) /\ UNCHANGED records
    /\ UNCHANGED <<routes, secrets, own, newKey, signals>>

(* ... copied, and deleted in a transaction of its own. *)
DropDaemon(d) ==
    /\ pc[d] = "drop"
    /\ Unstage
    /\ Applied(d)
    /\ UNCHANGED <<routes, secrets, own, newKey, signals>>

-----------------------------------------------------------------------------
(* tick_scheduler: the symbol gate, the AI lock, the analysis *)

ResolveOwn(d) ==
    /\ pc[d] = "own"
    /\ own' = [own EXCEPT ![d] = ResolveDaemonSymbol(d)]
    /\ Goto(d, "gate")
    /\ UNCHANGED <<settings, booting, newKey, signals>>

Rest(d) ==
    /\ Goto(d, "idle")
    /\ own' = [own EXCEPT ![d] = Unset]

(* SYMBOL_DISABLED: a daemon whose symbol is not enabled rests; otherwise  *)
(* the scheduler resolves the symbol anew for its own tick.                *)
Gate(d) ==
    /\ pc[d] = "gate"
    /\ \/ /\ own[d] \notin EnabledSymbols(d)
          /\ Rest(d)
       \/ /\ own[d] \in EnabledSymbols(d)
          /\ own' = [own EXCEPT ![d] = ResolveDaemonSymbol(d)]
          /\ Goto(d, "lock")
    /\ UNCHANGED <<settings, booting, newKey, signals>>

(* The AI lock of the symbol; without it the tick may still end early (no  *)
(* new candle, blackout, missing data) or reach the analysis.              *)
Lock(d) ==
    /\ pc[d] = "lock"
    /\ \/ Rest(d)
       \/ ActiveOf(own[d]) = {} /\ Goto(d, "stat") /\ UNCHANGED own
    /\ UNCHANGED <<settings, booting, newKey, signals>>

(* Mutant of StatKey: a filled cache is kept whatever the mtime says. *)
StatKeyOnce(d) ==
    /\ pc[d] = "stat"
    /\ Goto(d, IF cached[d] # 0 \/ d \in current THEN "analysed" ELSE "load")
    /\ UNCHANGED secrets
    /\ UNCHANGED <<records, routes, booting, own, newKey, signals>>

(* resolve_llm_config gets the API key: the store keeps a cache whose      *)
(* mtime is the file's, ...                                                *)
StatKey(d) ==
    /\ pc[d] = "stat"
    /\ Goto(d, IF d \in current THEN "analysed" ELSE "load")
    /\ StatSecret(d)
    /\ UNCHANGED <<records, routes, booting, own, newKey, signals>>

(* Mutant of LoadKey: an empty file does not replace a filled cache. *)
LoadKeyKeep(d) ==
    /\ pc[d] = "load"
    /\ Goto(d, "analysed")
    /\ IF secret = 0 THEN UNCHANGED secrets ELSE LoadSecret(d)
    /\ UNCHANGED <<records, routes, booting, own, newKey, signals>>

(* ... and otherwise reads the file. *)
LoadKey(d) ==
    /\ pc[d] = "load"
    /\ Goto(d, "analysed")
    /\ LoadSecret(d)
    /\ UNCHANGED <<records, routes, booting, own, newKey, signals>>

(* The verdict: WAIT and the failures end the tick; a trade is stored      *)
(* under the symbol the analyzer was given, which is resolve_symbol's      *)
(* answer, not the tick's symbol.  create_signal refuses a second active   *)
(* signal of that symbol.                                                  *)
Conclude(d) ==
    /\ pc[d] = "analysed"
    /\ Rest(d)
    /\ \/ UNCHANGED signals
       \/ \E i \in Ids :
            /\ status[i] = "NONE"
            /\ \A j \in Ids : j < i => status[j] # "NONE"
            /\ ActiveOf(ResolveSymbol(d)) = {}
            /\ status' = [status EXCEPT ![i] = "PENDING_ENTRY"]
            /\ label' = [label EXCEPT ![i] = ResolveSymbol(d)]
    /\ UNCHANGED <<settings, booting, newKey>>

-----------------------------------------------------------------------------
(* poll_monitor *)

(* The active signal of the symbol as it resolves now; its entry or an     *)
(* exit is touched.  (A poll that finds no touch changes nothing.)         *)
Poll(d) ==
    /\ pc[d] = "idle"
    /\ \E i \in ActiveOf(ResolveDaemonSymbol(d)) :
        status' = [status EXCEPT ![i] =
                        IF @ = "PENDING_ENTRY" THEN "OPEN" ELSE "CLOSED"]
    /\ UNCHANGED <<settings, procs, label>>

-----------------------------------------------------------------------------
(* Requests of the web server *)

(* PUT /api/settings with an ai_provider section: a valid key is written   *)
(* to the secrets file before anything is staged.                          *)
SaveAi(r) ==
    /\ pc[r] = "idle"
    /\ asked < MaxSaves
    /\ asked' = asked + 1
    /\ \/ Goto(r, "truncate") /\ newKey' = [newKey EXCEPT ![r] = asked + 1]
       \/ Goto(r, "stage") /\ UNCHANGED newKey
    /\ UNCHANGED <<settings, booting, own, signals>>

(* SecretStore.set opens the file with O_TRUNC ... *)
Truncate(r) ==
    /\ pc[r] = "truncate"
    /\ Goto(r, "write")
    /\ TruncateSecret
    /\ UNCHANGED <<records, routes, booting, own, newKey, signals>>

(* ... and writes it. *)
Write(r) ==
    /\ pc[r] = "write"
    /\ Goto(r, "stage")
    /\ WriteSecret(newKey[r])
    /\ newKey' = [newKey EXCEPT ![r] = 0]
    /\ UNCHANGED <<records, routes, booting, own, signals>>

(* A promotion has copied the staged row and is about to delete it. *)
Dropping == \E p \in Daemons \cup Requests : pc[p] = "drop"

(* update_ai_provider always stages first, ... *)
StageAi(r) ==
    /\ pc[r] = "stage"
    /\ Goto(r, "check")
    /\ Stage
    /\ raced' = IF Dropping THEN raced \cup {saves + 1} ELSE raced
    /\ UNCHANGED <<routes, secrets, booting, own, newKey, signals>>

(* ... and promotes when no signal is active. *)
CheckIdle(r) ==
    /\ pc[r] = "check"
    /\ Goto(r, IF AllActive = {} THEN "promote" ELSE "idle")
    /\ UNCHANGED <<settings, booting, own, newKey, signals>>

(* _promote_ai reads the staged row, ... *)
PromoteRequest(r) ==
    /\ pc[r] = "promote"
    /\ Goto(r, IF staged # 0 THEN "copyrow" ELSE "idle")
    /\ UNCHANGED <<settings, booting, own, newKey, signals>>

(* ... copies it in one transaction ... *)
CopyRow(r) ==
    /\ pc[r] = "copyrow"
    /\ Goto(r, "drop")
    /\ Promote
    /\ UNCHANGED <<routes, secrets, booting, own, newKey, signals>>

(* ... and deletes it in another. *)
DropRequest(r) ==
    /\ pc[r] = "drop"
    /\ Goto(r, "idle")
    /\ Unstage
    /\ UNCHANGED <<routes, secrets, booting, own, newKey, signals>>

(* Kills and symbol saves share one bound. *)
Turn == turns < MaxTurns /\ turns' = turns + 1

(* The symbol and symbols sections, never locked. *)
SaveSymbol(r) ==
    /\ Turn
    /\ pc[r] = "idle"
    /\ \E s \in Symbols : StoreSymbol(s)
    /\ UNCHANGED <<records, secrets, procs, signals>>

SaveSymbols(r) ==
    /\ Turn
    /\ pc[r] = "idle"
    /\ \E S \in SUBSET Symbols : StoreSymbols(S)
    /\ UNCHANGED <<records, secrets, procs, signals>>

(* POST /api/positions/<id>/close *)
CloseByHand(r) ==
    /\ pc[r] = "idle"
    /\ \E i \in Ids :
        /\ status[i] = "OPEN"
        /\ status' = [status EXCEPT ![i] = "CLOSED"]
    /\ UNCHANGED <<settings, procs, label>>

-----------------------------------------------------------------------------
(* The specification *)

(* One step of a daemon's start or tick; polls are taken in between. *)
TickStep(d) ==
    \/ Start(d) \/ Tick(d) \/ ReadPending(d) \/ PromoteDaemon(d) \/ DropDaemon(d)
    \/ ResolveOwn(d) \/ Gate(d) \/ Lock(d) \/ StatKey(d) \/ LoadKey(d) \/ Conclude(d)

(* The steps a request takes once it has come in. *)
RequestStep(r) ==
    \/ StageAi(r)
    \/ /\ \/ Truncate(r) \/ Write(r)
          \/ CheckIdle(r) \/ PromoteRequest(r) \/ CopyRow(r) \/ DropRequest(r)
       /\ UNCHANGED raced

(* A daemon is killed wherever it is; its cache of the secrets goes too. *)
Kill(d) ==
    /\ Turn
    /\ pc[d] # "down"
    /\ Goto(d, "down")
    /\ own' = [own EXCEPT ![d] = Unset]
    /\ ForgetSecret(d)
    /\ UNCHANGED <<records, routes, booting, newKey, signals>>

Next ==
    \/ /\ \E r \in Requests : RequestStep(r)
       /\ UNCHANGED <<asked, turns>>
    \/ /\ \/ \E d \in Daemons : TickStep(d) \/ Poll(d)
          \/ \E r \in Requests : CloseByHand(r)
       /\ UNCHANGED <<raced, asked, turns>>
    \/ \E r \in Requests : SaveAi(r) /\ UNCHANGED <<raced, turns>>
    \/ /\ \/ \E r \in Requests : SaveSymbol(r) \/ SaveSymbols(r)
          \/ \E d \in Daemons : Kill(d)
       /\ UNCHANGED <<raced, asked>>

Spec == Init /\ [][Next]_vars

(* The daemon's loop ticks for ever and its container restarts it; a       *)
(* request runs to its end.  Nothing makes a price touch a level or a user *)
(* send a request.                                                         *)
Fairness ==
    /\ \A d \in Daemons : WF_vars(TickStep(d) /\ UNCHANGED <<raced, asked, turns>>)
    /\ \A r \in Requests : WF_vars(RequestStep(r) /\ UNCHANGED <<asked, turns>>)

FairSpec == Spec /\ Fairness

-----------------------------------------------------------------------------
(* Properties *)

(* The parts of the type invariant. *)
RecordsOK ==
    /\ saves \in 0 .. MaxSaves /\ live \in 0 .. saves /\ staged \in 0 .. saves

RoutesOK == single \in Symbols \cup {Unset} /\ combo \subseteq Symbols

SecretsOK ==
    /\ secret \in 0 .. MaxSaves /\ cached \in [Daemons -> 0 .. MaxSaves]
    /\ current \subseteq Daemons /\ fooled \subseteq Daemons

ProcsOK ==
    /\ pc \in [Daemons \cup Requests -> DaemonPcs \cup RequestPcs]
    /\ \A d \in Daemons : pc[d] \in DaemonPcs
    /\ \A r \in Requests : pc[r] \in RequestPcs
    /\ booting \subseteq Daemons
    /\ own \in [Daemons -> Symbols \cup {Unset}]
    /\ newKey \in [Requests -> 0 .. MaxSaves]

SignalsOK ==
    /\ status \in [Ids -> Active \cup {"NONE", "CLOSED"}]
    /\ label \in [Ids -> Symbols \cup {Unset}]
    /\ \A i \in Ids : status[i] = "NONE" <=> label[i] = Unset

(* Every process is at a step of its own kind, every counter is in its      *)
(* range, no setting is newer than the last save, and a signal once created *)
(* carries a symbol of the system: the fallbacks of resolve_symbol and      *)
(* resolve_daemon_symbol never leave a daemon without one.                  *)
TypeOK ==
    /\ RecordsOK /\ RoutesOK /\ SecretsOK /\ ProcsOK /\ SignalsOK
    /\ asked \in 0 .. MaxSaves /\ turns \in 0 .. MaxTurns /\ raced \subseteq 1 .. saves

(* The AI settings in force are never replaced by older ones, nor lost,    *)
(* whatever daemons and requests promote and delete the staged row at the  *)
(* same time (ConfigRepository.promote copies what is staged now).         *)
LiveNeverRegresses == [][live' >= live]_live

(* A daemon's SecretStore that believes to be up to date is, although the  *)
(* web server truncates and rewrites the file in between: outside of a     *)
(* reload, a cached key with the file's mtime is the file's key, unless    *)
(* the file was rewritten after the read within the same tick of its       *)
(* clock.  The exception is real: the mtime is all a store compares, so    *)
(* such a daemon keeps a replaced key, or the nothing of a truncated file, *)
(* although its docstring calls the write atomic and promises that "a      *)
(* stale in-memory copy never leaks through".                              *)
SecretFresh ==
    \A d \in Daemons :
        d \in current \ fooled /\ pc[d] # "load" => cached[d] = secret

(* update_symbol is never locked, since "an OPEN position is monitored     *)
(* through its own signal's symbol, so the running trade is never          *)
(* affected": while daemons run, the signal of an OPEN position is the one *)
(* that the poll of one of them looks for.                                 *)
OpenIsMonitored ==
    \A i \in Ids :
        status[i] = "OPEN" => \E d \in Daemons : i \in ActiveOf(ResolveDaemonSymbol(d))

(* No saved AI settings get lost on the way to the analysis: every record  *)
(* ever staged still is, or it (or a later one) is in force.  The one      *)
(* exception: _promote_ai copies and deletes the staged row in two         *)
(* transactions, and a record staged in between is deleted unread.         *)
NoSaveLost ==
    \A n \in 1 .. saves : live >= n \/ staged >= n \/ n \in raced

(* "applied the moment the system is idle": once no signal is active any   *)
(* more, every record ever staged, or a later one, comes into force        *)
(* (apply_pending_if_idle before each tick), unless it was staged between  *)
(* the copy and the delete of a promotion.                                 *)
StagedIsApplied ==
    (<>[](AllActive = {})) => <>[](\A n \in 1 .. saves : live >= n \/ n \in raced)

(* The last API key saved reaches every daemon without a restart: in the   *)
(* end each analysis runs with the key in the file, except in a daemon     *)
(* that read the file in the tick of its last rewrite, before that         *)
(* rewrite; that one keeps what it read.                                   *)
KeyReachesDaemons ==
    \A d \in Daemons : <>[](pc[d] = "analysed" => cached[d] = secret \/ d \in fooled)
=============================================================================
