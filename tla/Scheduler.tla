------------------------------ MODULE Scheduler ------------------------------
(***************************************************************************)
(* When the AI runs: signal_engine/scheduler.py.  Every daemon analyses    *)
(* the newest closed 1H candle of its own symbol at most once, not while   *)
(* its symbol has an active signal, not inside the blackout window of a    *)
(* macro event, and not while its circuit breaker is open.                 *)
(*                                                                         *)
(* A tick is taken apart where the code waits for a network, a language    *)
(* model or a database: time passes, the web server writes and the process *)
(* may be killed between those steps.  Prices are abstracted away, a       *)
(* candle is its number, and the ledger is what the scheduler reads of it: *)
(* the symbol's active signal and the candle of its newest one.  Here each *)
(* symbol is served by one process; TradeCore has the others.              *)
(***************************************************************************)
EXTENDS Integers, FiniteSets

CONSTANTS
    Daemons,      \* the daemons, each on a symbol of its own
    HourLen,      \* clock units from one closed candle to the next
    MaxTime,      \* bound on the clock
    Events,       \* macro events
    Window,       \* Window[e]: the instants of e's blackout
    BreakerN,     \* BTCUSDT_ERROR_BREAKER_N
    Cooldown,     \* BTCUSDT_ERROR_BREAKER_COOLDOWN_S
    ExpiryAge,    \* pending_expiry_hours
    Mishaps,      \* the kinds of mishap that may happen
    MaxMishaps    \* bound: how many of them

ASSUME ClockAssumption == HourLen \in Nat \ {0} /\ MaxTime \in Nat
ASSUME WindowAssumption == Window \in [Events -> SUBSET Nat]
ASSUME BreakerAssumption ==
    BreakerN \in Nat \ {0} /\ Cooldown \in Nat \ {0} /\ ExpiryAge \in Nat

(* An error the tick reports, a marker that is not written, a cancellation *)
(* that fails, an answer that lags one candle behind, a killed process.    *)
ASSUME MishapAssumption ==
    /\ Mishaps \subseteq {"error", "mark", "cancel", "lag", "crash"}
    /\ MaxMishaps \in Nat

VARIABLES
    now,        \* the clock
    slot,       \* slot[d]: the active signal of d's symbol, or "free"
    born,       \* born[d]: when that signal was created
    newest,     \* newest[d]: candle of the newest signals row, 0 for none
    marker,     \* marker[d]: scheduler_state.last_processed_candle, 0 for none
    flagged,    \* events whose "start" flag is set in runtime_state
    pc,         \* pc[d]: the step of d's tick
    at,         \* at[d]: the instant the tick was given
    candle,     \* candle[d]: the candle the tick is about
    verdict,    \* verdict[d]: its outcome so far
    streak,     \* streak[d]: consecutive ERROR ticks
    openUntil,  \* openUntil[d]: end of the breaker's pause, 0 when closed
    left,       \* mishaps that may still happen
    calls,      \* history: calls[d][c], analyses of candle c no mishap excuses
    missed,     \* history: daemons whose pending entry could not be cancelled
    handled,    \* history: <<d, e>> when daemon d has handled the start of event e
    lastError   \* history: at of the last ERROR tick, -Cooldown for none

ledger == <<slot, born, newest, missed>>
breaker == <<streak, openUntil, lastError>>
tick == <<at, candle, verdict>>
vars == <<now, ledger, marker, flagged, handled, pc, tick, breaker, left, calls>>

Closed(t) == 1 + t \div HourLen
Candles == 1 .. Closed(MaxTime)
(* The event the calendar reports active at t, the first one it lists. *)
Blackout(t) ==
    LET on == {e \in Events : t \in Window[e]}
    IN  IF on = {} THEN {} ELSE {CHOOSE e \in on : TRUE}

Init ==
    /\ now = 0
    /\ slot = [d \in Daemons |-> "free"]
    /\ born = [d \in Daemons |-> 0]
    /\ newest = [d \in Daemons |-> 0]
    /\ marker = [d \in Daemons |-> 0]
    /\ flagged = {}
    /\ pc = [d \in Daemons |-> "idle"]
    /\ at = [d \in Daemons |-> 0]
    /\ candle = [d \in Daemons |-> 0]
    /\ verdict = [d \in Daemons |-> "none"]
    /\ streak = [d \in Daemons |-> 0]
    /\ openUntil = [d \in Daemons |-> 0]
    /\ left = MaxMishaps
    /\ calls = [d \in Daemons |-> [c \in Candles |-> 0]]
    /\ missed = {}
    /\ handled = {}
    /\ lastError = [d \in Daemons |-> -Cooldown]

Spend(k) == k \in Mishaps /\ left > 0 /\ left' = left - 1
Goto(d, l) == pc' = [pc EXCEPT ![d] = l]
Count(d, c, n) == calls' = [calls EXCEPT ![d][c] = @ + n]
Excuse(d) == Count(d, candle[d], -1)

(* The symbol's active signal is closed, cancelled or deleted. *)
FreeSlot(d) ==
    /\ slot' = [slot EXCEPT ![d] = "free"]
    /\ born' = [born EXCEPT ![d] = 0]
    /\ missed' = missed \ {d}

-----------------------------------------------------------------------------
(* How a tick ends *)

(* Nothing of a tick outlives it. *)
Idle(d) ==
    /\ Goto(d, "idle")
    /\ at' = [at EXCEPT ![d] = 0]
    /\ candle' = [candle EXCEPT ![d] = 0]
    /\ verdict' = [verdict EXCEPT ![d] = "none"]

(* Any outcome but ERROR closes the breaker. *)
EndWell(d) ==
    /\ Idle(d)
    /\ streak' = [streak EXCEPT ![d] = 0]
    /\ openUntil' = [openUntil EXCEPT ![d] = 0]
    /\ lastError' = [lastError EXCEPT ![d] = -Cooldown]

(* Mutant of EndInError: the breaker trips once, not at every later error. *)
EndInErrorOnce(d) ==
    /\ Idle(d)
    /\ streak' = [streak EXCEPT ![d] = @ + 1]
    /\ openUntil' = [openUntil EXCEPT ![d] =
                        IF streak[d] + 1 = BreakerN THEN at[d] + Cooldown ELSE @]
    /\ lastError' = [lastError EXCEPT ![d] = at[d]]

(* ERROR: from the BreakerN-th in a row on, the breaker opens. *)
EndInError(d) ==
    /\ Idle(d)
    /\ streak' = [streak EXCEPT ![d] = @ + 1]
    /\ openUntil' = [openUntil EXCEPT ![d] =
                        IF streak[d] + 1 >= BreakerN THEN at[d] + Cooldown ELSE @]
    /\ lastError' = [lastError EXCEPT ![d] = at[d]]

-----------------------------------------------------------------------------
(* The tick *)

(* An open breaker skips the tick; a pause that is over half-opens it.     *)
(* _event_watch then looks at the calendar: a blackout whose start no      *)
(* daemon has flagged is handled first.  The daemons share the flag.       *)
Start(d) ==
    /\ pc[d] = "idle"
    /\ now >= openUntil[d]
    /\ openUntil' = [openUntil EXCEPT ![d] = 0]
    /\ at' = [at EXCEPT ![d] = now]
    /\ Goto(d, IF Blackout(now) \subseteq flagged THEN "detect" ELSE "event")
    /\ UNCHANGED <<now, ledger, marker, flagged, handled, candle, verdict, streak,
                   lastError, left, calls>>

(* Mutant of EventStart: the flag is set, the pending entry stays. *)
EventStartFlagOnly(d) ==
    /\ pc[d] = "event"
    /\ flagged' = flagged \cup Blackout(at[d])
    /\ handled' = handled \cup ({d} \X Blackout(at[d]))
    /\ Goto(d, "detect")
    /\ UNCHANGED <<now, ledger, marker, tick, breaker, left, calls>>

(* _cancel_pending_for_event: a pending entry is cancelled; a cancellation *)
(* that fails is only logged.  Then the flag is set, best effort too.      *)
EventStart(d) ==
    /\ pc[d] = "event"
    /\ \/ slot[d] # "PENDING_ENTRY" /\ UNCHANGED <<slot, born, missed, left>>
       \/ slot[d] = "PENDING_ENTRY" /\ FreeSlot(d) /\ UNCHANGED left
       \/ /\ slot[d] = "PENDING_ENTRY"
          /\ Spend("cancel")
          /\ missed' = missed \cup {d}
          /\ UNCHANGED <<slot, born>>
    /\ flagged' \in {flagged, flagged \cup Blackout(at[d])}
    /\ handled' = handled \cup ({d} \X Blackout(at[d]))
    /\ Goto(d, "detect")
    /\ UNCHANGED <<now, newest, marker, tick, breaker, calls>>

(* The exchange answers with the newest closed candle, or one behind it.   *)
Fetched(d, c) ==
    \/ c = Closed(at[d]) /\ UNCHANGED left
    \/ c = Closed(at[d]) - 1 /\ c > 0 /\ Spend("lag")

(* The persisted marker, or on a database without one the candle of the    *)
(* symbol's newest signal.                                                 *)
LastProcessed(d) == IF marker[d] # 0 THEN marker[d] ELSE newest[d]

(* _detect and the two gates: no new candle, no data or a locked AI end    *)
(* the tick; a blackout has the candle marked unseen.                      *)
Detect(d) ==
    /\ pc[d] = "detect"
    /\ \/ EndWell(d) /\ UNCHANGED left
       \/ Spend("error") /\ EndInError(d)
       \/ \E c \in Candles :
            /\ Fetched(d, c)
            /\ IF c =< LastProcessed(d) \/ slot[d] # "free" THEN EndWell(d)
               ELSE /\ candle' = [candle EXCEPT ![d] = c]
                    /\ IF Blackout(at[d]) # {}
                       THEN /\ verdict' = [verdict EXCEPT ![d] = "EVENT_BLACKOUT"]
                            /\ Goto(d, "mark")
                       ELSE Goto(d, "fetch") /\ UNCHANGED verdict
                    /\ UNCHANGED <<at, breaker>>
    /\ UNCHANGED <<now, ledger, marker, flagged, handled, calls>>

(* The analysis window is fetched anew: its last candle, not the detected  *)
(* one, is analysed.                                                       *)
Fetch(d) ==
    /\ pc[d] = "fetch"
    /\ \/ EndWell(d) /\ UNCHANGED <<left, calls>>
       \/ Spend("error") /\ EndInError(d) /\ UNCHANGED calls
       \/ \E c \in Candles :
            /\ Fetched(d, c)
            /\ candle' = [candle EXCEPT ![d] = c]
            /\ IF c < candle[d] THEN Count(d, c, -1) ELSE UNCHANGED calls
            /\ Goto(d, "call")
            /\ UNCHANGED <<at, verdict, breaker>>
    /\ UNCHANGED <<now, ledger, marker, flagged, handled>>

(* The language model is called: it fails, it proposes a trade, or the     *)
(* candle is done with (WAIT, or a rate limit).  A context that is refused *)
(* before the call ends the tick as unusable data does, in Fetch.          *)
Call(d) ==
    /\ pc[d] = "call"
    /\ \/ Spend("error") /\ EndInError(d) /\ UNCHANGED calls
       \/ /\ Count(d, candle[d], 1)
          /\ \/ verdict' = [verdict EXCEPT ![d] = "TRADE"] /\ Goto(d, "process")
             \/ verdict' = [verdict EXCEPT ![d] = "WAIT"] /\ Goto(d, "mark")
          /\ UNCHANGED <<at, candle, breaker, left>>
    /\ UNCHANGED <<now, ledger, marker, flagged, handled>>

(* SignalEngine.process: an active signal blocks, unless it is a pending   *)
(* entry past its expiry, which is cancelled first; then the trade is      *)
(* rejected by the validator, persisted, or lost to a database error.      *)
(* With one process per symbol the slot is still free here.                *)
Expired(d) == slot[d] = "PENDING_ENTRY" /\ now - born[d] > ExpiryAge

Process(d) ==
    /\ pc[d] = "process"
    /\ IF slot[d] # "free" /\ ~Expired(d)
       THEN EndWell(d) /\ UNCHANGED <<ledger, left, calls>>
       ELSE \/ /\ FreeSlot(d)
               /\ verdict' = [verdict EXCEPT ![d] = "REJECTED"]
               /\ Goto(d, "mark")
               /\ UNCHANGED <<newest, at, candle, breaker, left, calls>>
            \/ /\ slot' = [slot EXCEPT ![d] = "PENDING_ENTRY"]
               /\ born' = [born EXCEPT ![d] = now]
               /\ newest' = [newest EXCEPT ![d] = candle[d]]
               /\ verdict' = [verdict EXCEPT ![d] = "CREATED"]
               /\ Goto(d, "mark")
               /\ UNCHANGED <<missed, at, candle, breaker, left, calls>>
            \/ /\ Spend("error")
               /\ FreeSlot(d)
               /\ EndInError(d)
               /\ Excuse(d)
               /\ UNCHANGED newest
    /\ UNCHANGED <<now, marker, flagged, handled>>

(* Mutant of Mark: a rejected trade does not mark its candle. *)
MarkUnlessRejected(d) ==
    /\ pc[d] = "mark"
    /\ marker' = [marker EXCEPT ![d] =
                    IF verdict[d] = "REJECTED" THEN @ ELSE candle[d]]
    /\ EndWell(d)
    /\ UNCHANGED <<now, ledger, flagged, handled, left, calls>>

(* _mark_processed: the candle is recorded.  When the write fails the tick *)
(* ends in an error, except for a created signal, whose success stands.    *)
Mark(d) ==
    /\ pc[d] = "mark"
    /\ \/ /\ marker' = [marker EXCEPT ![d] = candle[d]]
          /\ EndWell(d)
          /\ UNCHANGED <<left, calls>>
       \/ /\ Spend("mark")
          /\ IF verdict[d] = "EVENT_BLACKOUT" THEN UNCHANGED calls ELSE Excuse(d)
          /\ IF verdict[d] = "CREATED" THEN EndWell(d) ELSE EndInError(d)
          /\ UNCHANGED marker
    /\ UNCHANGED <<now, ledger, flagged, handled>>

-----------------------------------------------------------------------------
(* Everything else *)

(* A killed daemon loses its breaker, and an analysis it had not marked. *)
Crash(d) ==
    /\ pc[d] # "down"
    /\ Spend("crash")
    /\ pc' = [pc EXCEPT ![d] = "down"]
    /\ at' = [at EXCEPT ![d] = 0]
    /\ candle' = [candle EXCEPT ![d] = 0]
    /\ verdict' = [verdict EXCEPT ![d] = "none"]
    /\ streak' = [streak EXCEPT ![d] = 0]
    /\ openUntil' = [openUntil EXCEPT ![d] = 0]
    /\ lastError' = [lastError EXCEPT ![d] = -Cooldown]
    /\ IF verdict[d] \in {"TRADE", "WAIT", "REJECTED", "CREATED"}
       THEN Excuse(d) ELSE UNCHANGED calls
    /\ UNCHANGED <<now, ledger, marker, flagged, handled>>

Restart(d) ==
    /\ pc[d] = "down"
    /\ Goto(d, "idle")
    /\ UNCHANGED <<now, ledger, marker, flagged, handled, tick, breaker, left, calls>>

(* The monitor runs between the ticks of its daemon. *)
EnterTrade(d) ==
    /\ pc[d] = "idle"
    /\ slot[d] = "PENDING_ENTRY"
    /\ slot' = [slot EXCEPT ![d] = "OPEN"]
    /\ born' = [born EXCEPT ![d] = 0]
    /\ missed' = missed \ {d}
    /\ UNCHANGED <<now, newest, marker, flagged, handled, pc, tick, breaker, left, calls>>

(* TP, SL or a manual close; the web server may close at any moment. *)
CloseTrade(d) ==
    /\ slot[d] = "OPEN"
    /\ FreeSlot(d)
    /\ UNCHANGED <<now, newest, marker, flagged, handled, pc, tick, breaker, left, calls>>

(* The user deletes the symbol's signals, at any moment; not an OPEN one. *)
DeleteSignals(d) ==
    /\ slot[d] # "OPEN"
    /\ FreeSlot(d)
    /\ newest' = [newest EXCEPT ![d] = 0]
    /\ UNCHANGED <<now, marker, flagged, handled, pc, tick, breaker, left, calls>>

Clock ==
    /\ now < MaxTime
    /\ now' = now + 1
    /\ UNCHANGED <<ledger, marker, flagged, handled, pc, tick, breaker, left, calls>>

TickStep(d) ==
    \/ Start(d) \/ EventStart(d) \/ Detect(d) \/ Fetch(d) \/ Call(d)
    \/ Process(d) \/ Mark(d)

Next ==
    \/ \E d \in Daemons :
        \/ TickStep(d) \/ Crash(d) \/ Restart(d)
        \/ EnterTrade(d) \/ CloseTrade(d) \/ DeleteSignals(d)
    \/ Clock

Spec == Init /\ [][Next]_vars
-----------------------------------------------------------------------------
(* Properties *)

TypeOK ==
    /\ now \in 0 .. MaxTime
    /\ slot \in [Daemons -> {"free", "PENDING_ENTRY", "OPEN"}]
    /\ born \in [Daemons -> 0 .. MaxTime]
    /\ newest \in [Daemons -> {0} \cup Candles]
    /\ marker \in [Daemons -> {0} \cup Candles]
    /\ flagged \subseteq Events
    /\ pc \in [Daemons -> {"down", "idle", "event", "detect", "fetch", "call",
                           "process", "mark"}]
    /\ at \in [Daemons -> 0 .. MaxTime]
    /\ candle \in [Daemons -> {0} \cup Candles]
    /\ verdict \in [Daemons -> {"none", "TRADE", "WAIT", "REJECTED", "CREATED",
                                "EVENT_BLACKOUT"}]
    /\ streak \in [Daemons -> Nat]
    /\ openUntil \in [Daemons -> 0 .. MaxTime + Cooldown]
    /\ left \in 0 .. MaxMishaps
    /\ calls \in [Daemons -> [Candles -> Int]]
    /\ missed \subseteq Daemons
    /\ handled \subseteq Daemons \X Events
    /\ lastError \in [Daemons -> {-Cooldown} \cup 0 .. MaxTime]

(* A candle is analysed once; every further analysis of it is due to an    *)
(* error, a marker that could not be written, a kill in mid-tick, or an    *)
(* answer of the exchange that lagged behind (module docstring,            *)
(* "Idempotency" and "Failure safety"): never to a verdict forgotten, a    *)
(* restart, a cold start or a deleted signal.                              *)
CallsExplained == \A d \in Daemons, c \in Candles : calls[d][c] =< 1

(* A daemon that has handled the start of a blackout has no pending entry  *)
(* through it, unless the cancellation failed: neither one that was        *)
(* waiting nor one whose analysis began before it (_event_watch: "cancels  *)
(* a PENDING_ENTRY the minute a blackout starts").  Which daemon handles   *)
(* it is left to chance: the first one to set the start flag keeps all     *)
(* others from looking, and their pending entries stay.                    *)
BlackoutClears ==
    \A d \in Daemons, e \in Blackout(now) :
        <<d, e>> \in handled /\ slot[d] = "PENDING_ENTRY" => d \in missed

(* From the BreakerN-th error in a row on, ticks that end in an error are  *)
(* a cooldown apart: the half-open breaker grants one trial (tick).        *)
BreakerPauses ==
    [][\A d \in Daemons :
        streak'[d] > streak[d] /\ streak[d] >= BreakerN
            => at[d] >= lastError[d] + Cooldown]_vars

(* validator.GuardrailConfig: pending_expiry_hours "caps how long a        *)
(* PENDING_ENTRY may wait".  A tick that begins a whole candle after the   *)
(* expiry does not leave the entry waiting.                                *)
PendingExpires ==
    [][\A d \in Daemons :
        /\ pc[d] = "detect" /\ pc'[d] = "idle"
        /\ slot[d] = "PENDING_ENTRY" /\ slot'[d] = "PENDING_ENTRY"
        => at[d] - born[d] =< ExpiryAge + HourLen]_vars
=============================================================================
