------------------------------- MODULE Fleet -------------------------------
(***************************************************************************)
(* The multi-symbol supervisor (signal_engine/supervisor.py, driven by     *)
(* run-symbols.sh): invocations of sync and of stop read the settings, the *)
(* ledger and the PID files and start or stop one process per symbol.  The *)
(* processes are those of python -m signal_engine, whose first argument    *)
(* the command line of signal_engine/__main__.py accepts or refuses.       *)
(* Reports, logging and the ports are left out.                            *)
(***************************************************************************)
EXTENDS Naturals

CONSTANTS
  Symbols,   \* SUPPORTED_SYMBOLS
  Default,   \* DEFAULT_SYMBOL, one of them
  Pids,      \* process identifiers, used again once they are free
  Supers,    \* invocations of the supervisor
  NoPid,     \* not one of Pids
  MaxByHand  \* bound: processes started or killed by hand

VARIABLES
  enabled,  \* app_settings.symbols, {} when nothing is saved
  open,     \* symbols whose signal is OPEN
  process,  \* what every PID runs: [mode, symbol, parsed]
  pidFile,  \* the PID files, one per symbol and one for the dashboard
  super,    \* the invocations of the supervisor
  byHand    \* processes that may still be started or killed by hand

vars == <<enabled, open, process, pidFile, super, byHand>>

Web     == "web"
Files   == Symbols \cup {Web}
Free    == [mode |-> "free", symbol |-> Default, parsed |-> FALSE]
Waiting == [pc |-> "off", goal |-> "sync", running |-> [s \in Symbols |-> NoPid],
            starts |-> {}, stops |-> {}, started |-> {}, child |-> NoPid, file |-> Web]

Init ==
  /\ enabled = {} /\ open = {}
  /\ process = [p \in Pids |-> Free]
  /\ pidFile = [f \in Files |-> NoPid]
  /\ super = [v \in Supers |-> Waiting]
  /\ byHand = MaxByHand

\* read_enabled_symbols.
Desired == IF enabled = {} THEN {Default} ELSE enabled

\* read_pid and _cmdline_matches: the file names a live process whose command
\* line has the word; the symbol of the process is not compared.
LivePid(f, word) ==
  LET p == pidFile[f]
  IN  IF p # NoPid /\ process[p].mode = word THEN p ELSE NoPid

\* daemon_pids, web_pid.
DaemonPids == [s \in Symbols |-> LivePid(s, "daemon")]
WebPid     == LivePid(Web, "web")

\* The commands argparse takes.
Commands == {"run", "status", "signals", "active", "demo", "health", "web"}

-----------------------------------------------------------------------------
(* Processes                                                               *)

Spawned(p, mode, s) ==
  /\ process[p] = Free
  /\ process' = [process EXCEPT ![p] = [mode |-> mode, symbol |-> s, parsed |-> FALSE]]

\* A process reads its arguments: one that is refused ends with a usage message.
Parse(p) ==
  /\ process[p] # Free /\ ~process[p].parsed
  /\ process' = [process EXCEPT ![p] =
                   IF @.mode \in Commands THEN [@ EXCEPT !.parsed = TRUE] ELSE Free]
  /\ UNCHANGED <<enabled, open, pidFile, super, byHand>>

Trading(s) == \E p \in Pids : process[p].mode \in {"run", "daemon"}
                                /\ process[p].symbol = s /\ process[p].parsed

\* A daemon started by hand leaves no PID file.
StartByHand(p, s) ==
  /\ byHand > 0 /\ byHand' = byHand - 1
  /\ Spawned(p, "run", s) /\ UNCHANGED <<enabled, open, pidFile, super>>

Exit(p) ==
  /\ process[p] # Free
  /\ byHand > 0 /\ byHand' = byHand - 1
  /\ process' = [process EXCEPT ![p] = Free]
  /\ UNCHANGED <<enabled, open, pidFile, super>>

-----------------------------------------------------------------------------
(* Invocations                                                             *)

\* The first reads of sync and of stop_all, and plan.
Look(v, goal) ==
  LET wanted  == IF goal = "sync" THEN Desired ELSE {}
      running == DaemonPids
      Runs(s) == running[s] # NoPid
  IN  /\ super[v].pc = "off"
      /\ super' = [super EXCEPT ![v] =
           [Waiting EXCEPT !.pc = "block", !.goal = goal, !.running = running,
              !.starts = {s \in wanted : ~Runs(s)},
              !.stops  = {s \in Symbols : Runs(s) /\ s \notin wanted}]]
      /\ UNCHANGED <<enabled, open, process, pidFile, byHand>>

\* open_symbols: the set is empty when the ledger cannot be read.
Block(v) ==
  /\ super[v].pc = "block"
  /\ \E blocked \in {open, {}} :
       super' = [super EXCEPT ![v].pc = "start", ![v].stops = @ \ blocked]
  /\ UNCHANGED <<enabled, open, process, pidFile, byHand>>

\* _spawn.
Start(v, f, p) ==
  /\ \/ super[v].pc = "start" /\ f \in super[v].starts /\ Spawned(p, "daemon", f)
     \/ super[v].pc = "web" /\ f = Web /\ super[v].goal = "sync" /\ WebPid = NoPid
        /\ Spawned(p, "web", Default)
  /\ super' = [super EXCEPT ![v].pc = "record", ![v].child = p, ![v].file = f,
                            ![v].starts = @ \ {f}, ![v].started = @ \cup {f}]
  /\ UNCHANGED <<enabled, open, pidFile, byHand>>

\* _write_pid, once the child runs.
Record(v) ==
  /\ super[v].pc = "record"
  /\ pidFile' = [pidFile EXCEPT ![super[v].file] = super[v].child]
  /\ super' = [super EXCEPT ![v].pc = IF super[v].file = Web THEN "done" ELSE "start"]
  /\ UNCHANGED <<enabled, open, process, byHand>>

AllStarted(v) ==
  /\ super[v].pc = "start" /\ super[v].starts = {}
  /\ super' = [super EXCEPT ![v].pc = "stop"]
  /\ UNCHANGED <<enabled, open, process, pidFile, byHand>>

\* _terminate, by the PID that was read at first, and the file removed.
Stop(v, s) ==
  /\ super[v].pc = "stop" /\ s \in super[v].stops
  /\ process' = [process EXCEPT ![super[v].running[s]] = Free]
  /\ pidFile' = [pidFile EXCEPT ![s] = NoPid]
  /\ super' = [super EXCEPT ![v].stops = @ \ {s}]
  /\ UNCHANGED <<enabled, open, byHand>>

AllStopped(v) ==
  /\ super[v].pc = "stop" /\ super[v].stops = {}
  /\ super' = [super EXCEPT ![v].pc = "web"]
  /\ UNCHANGED <<enabled, open, process, pidFile, byHand>>

\* The dashboard runs already, or is to stop.
WebStep(v) ==
  /\ super[v].pc = "web"
  /\ IF super[v].goal = "stop" /\ WebPid # NoPid
     THEN /\ process' = [process EXCEPT ![WebPid] = Free]
          /\ pidFile' = [pidFile EXCEPT ![Web] = NoPid]
     ELSE (super[v].goal = "stop" \/ WebPid # NoPid) /\ UNCHANGED <<process, pidFile>>
  /\ super' = [super EXCEPT ![v].pc = "done"]
  /\ UNCHANGED <<enabled, open, byHand>>

\* The supervisor is killed, or the user runs it again.
Again(v) ==
  /\ super[v].pc # "off"
  /\ super' = [super EXCEPT ![v] = Waiting]
  /\ UNCHANGED <<enabled, open, process, pidFile, byHand>>

-----------------------------------------------------------------------------
(* The surroundings                                                        *)

SaveSymbols(combo) ==
  combo # {} /\ enabled' = combo /\ UNCHANGED <<open, process, pidFile, super, byHand>>

\* A signal opens or ends in a process that trades its symbol.
Open(s) ==
  /\ Trading(s) /\ open' = open \cup {s}
  /\ UNCHANGED <<enabled, process, pidFile, super, byHand>>

Close(s) ==
  /\ Trading(s) /\ open' = open \ {s}
  /\ UNCHANGED <<enabled, process, pidFile, super, byHand>>

Work(v) ==
  \/ Block(v) \/ Record(v) \/ AllStarted(v) \/ AllStopped(v) \/ WebStep(v)
  \/ \E f \in Files, p \in Pids : Start(v, f, p)
  \/ \E s \in Symbols : Stop(v, s)

Next ==
  \/ \E v \in Supers : Work(v) \/ Again(v) \/ \E goal \in {"sync", "stop"} : Look(v, goal)
  \/ \E p \in Pids : Parse(p) \/ Exit(p) \/ \E s \in Symbols : StartByHand(p, s)
  \/ \E combo \in SUBSET Symbols : SaveSymbols(combo)
  \/ \E s \in Symbols : Open(s) \/ Close(s)

Spec == Init /\ [][Next]_vars

\* An invocation that was begun goes on, and a process reads its arguments.
FairSpec ==
  Spec /\ (\A v \in Supers : WF_vars(Work(v))) /\ (\A p \in Pids : WF_vars(Parse(p)))

-----------------------------------------------------------------------------
(* Properties                                                              *)

\* A daemon that sync reports as started comes to run, while the report stands
\* (sync: "converges the process set: start missing daemons").
StartedRuns ==
  \A v \in Supers, s \in Symbols :
    super[v].pc = "done" /\ s \in super[v].started ~> Trading(s) \/ super[v].pc # "done"
=============================================================================
