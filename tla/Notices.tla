------------------------------- MODULE Notices -------------------------------
(***************************************************************************)
(* What the daemons tell the user: the loop of signal_engine/runtime.py as *)
(* far as messages depend on it.  A pass of the loop is a scheduler tick   *)
(* (event watch, blackout gate, new signal), a monitor poll and the daily  *)
(* report.  The processes share the ledger and the flags of runtime_state, *)
(* each has a calendar of its own, and any of them may be killed between   *)
(* two steps.  They analyse one symbol, as a daemon and a one-shot do.     *)
(* One signal is followed from its creation to its end; what the scheduler *)
(* does besides is in Scheduler, what the executor does in TradeCore.      *)
(***************************************************************************)
EXTENDS EventCalendar, Telegram

CONSTANTS
  Procs,
  OneShots,     \* those of them that are started by hand with --once
  Payloads,     \* what may be saved on the Settings page
  Warn,         \* the warn horizon, BTCUSDT_EVENT_WARN_HOURS
  DayLen,       \* clock units in a day
  ReportHour,   \* 07:00 of a day
  MaxTime,      \* bound on the clock
  MaxMishaps    \* bound: kills, settings saved, failures of requests, of the feed
                \* and of the store

ASSUME NoticesAssumption ==
  /\ OneShots \subseteq Procs
  /\ Warn \in Nat /\ DayLen \in Nat \ {0} /\ ReportHour \in 0..(DayLen - 1)
  /\ MaxTime \in Nat /\ MaxMishaps \in Nat

VARIABLES
  now,        \* the clock
  stored,     \* the Telegram settings saved, or NotSaved
  slot,       \* the signal: "none", "PENDING_ENTRY", "OPEN", "closed", "cancelled"
  position,   \* whether it has a demo position
  trade,      \* whether it has a demo trade
  flags,      \* notices of releases that count as sent
  lastActive, \* event.last_active
  lastDaily,  \* report.last_daily, 0 for none
  proc,       \* the processes
  fate,       \* what became of every message
  again,      \* history: whether the end of the signal was told twice
  faulted,    \* history: the releases whose START could not be put on record, whose
              \* record could not be read, or was overwritten by a pass that had read
              \* it earlier
  mishaps     \* mishaps that may still happen

ledger == <<slot, position, trade>>
store  == <<flags, lastActive, lastDaily>>
vars   == <<now, stored, ledger, store, proc, fate, again, faulted, mishaps>>

Day(t)  == 1 + t \div DayLen
Hour(t) == t % DayLen

Phases   == {"warn", "start", "end"}
Notice(e, phase) == [kind |-> phase, event |-> e, day |-> 0]
Report(day)      == [kind |-> "report", event |-> NoEvent, day |-> day]
Life(what)       == [kind |-> what, event |-> NoEvent, day |-> 0]
Messages ==
  {Notice(e, phase) : e \in Events, phase \in Phases}
    \cup {Report(day) : day \in 1..Day(MaxTime)}
    \cup {Life(what) : what \in {"created", "opened", "ended"}}

\* passed: the releases the loop of warnings has been through in this pass.
\* heard, a history: the last answer of the feed that named anything.
Fresh == [pc |-> "tick", at |-> 0, cal |-> Empty, heard |-> {}, event |-> NoEvent,
          passed |-> {}, opened |-> FALSE]

Init ==
  /\ now = 0
  /\ stored = NotSaved
  /\ slot = "none" /\ position = FALSE /\ trade = FALSE
  /\ flags = {} /\ lastActive = NoEvent /\ lastDaily = 0
  /\ proc = [p \in Procs |-> IF p \in OneShots THEN [Fresh EXCEPT !.pc = "off"] ELSE Fresh]
  /\ fate = [m \in Messages |-> "none"]
  /\ again = FALSE /\ faulted = {}
  /\ mishaps = MaxMishaps

At(p, pc)   == proc[p].pc = pc
Goto(p, pc) == proc' = [proc EXCEPT ![p].pc = pc]
Leave(p, pc) == proc' = [proc EXCEPT ![p].pc = pc, ![p].at = 0]
Mishap      == mishaps > 0 /\ mishaps' = mishaps - 1

\* The notifier is built anew for every message (RefreshableTelegramNotifier).
\* Nothing depends on how the sending went.
Send(m, channel) ==
  \E n \in 0..mishaps :
    /\ n <= Retries + 1
    /\ Effective(stored).enabled \/ n = 0
    /\ mishaps' = mishaps - n
    /\ fate' = [fate EXCEPT ![m] = Fate(Effective(stored), channel, n)]
    /\ again' = (again \/ (m = Life("ended") /\ fate[m] # "none"))
    /\ faulted' = faulted

Silent == UNCHANGED <<fate, again, faulted, mishaps>>

-----------------------------------------------------------------------------
(* The scheduler tick: _event_watch, the gate, a new signal                *)

\* The calendar is asked first, and refreshed where it is due.
Tick(p) ==
  /\ At(p, "tick")
  /\ \E answer \in IF Throttled(proc[p].cal, now) THEN {{}} ELSE Answers(now) :
       /\ proc' = [proc EXCEPT ![p].pc = "warn", ![p].at = now,
                               ![p].cal = Refreshed(@, now, answer),
                               ![p].heard = IF answer = {} THEN @ ELSE answer]
       /\ IF Throttled(proc[p].cal, now) \/ Complete(answer, now) THEN UNCHANGED mishaps
          ELSE Mishap
  /\ UNCHANGED <<now, stored, ledger, store, fate, again, faulted>>

\* The releases to warn of.
Due(p) ==
  {e \in Upcoming(proc[p].cal, proc[p].at) :
     /\ e \notin proc[p].passed
     /\ e.at - proc[p].at <= Warn /\ Notice(e, "warn") \notin flags}

WarnOf(p) ==
  /\ At(p, "warn")
  /\ IF Due(p) = {} THEN proc' = [proc EXCEPT ![p].pc = "start", ![p].passed = {}] /\ Silent
     ELSE \E e \in Due(p) :
            /\ \A o \in Due(p) : e.at <= o.at
            /\ Send(Notice(e, "warn"), "report")
            /\ proc' = [proc EXCEPT ![p].pc = "warned", ![p].event = e]
  /\ UNCHANGED <<now, stored, ledger, store>>

\* A write of the store that succeeds, or one that fails and is swallowed.
Written == UNCHANGED <<mishaps, faulted>>
Refused(releases) == Mishap /\ faulted' = faulted \cup releases

\* _set_event_flag; the pass goes on either way.
SetFlag(p, phase, pc) ==
  /\ \/ flags' = flags \cup {Notice(proc[p].event, phase)} /\ Written
     \/ flags' = flags /\ Refused(IF phase = "start" THEN {proc[p].event} ELSE {})
  /\ proc' = [proc EXCEPT ![p].pc = pc,
                          ![p].event = IF phase = "end" THEN @ ELSE NoEvent,
                          ![p].passed = IF phase = "warn" THEN @ \cup {proc[p].event} ELSE @]
  /\ UNCHANGED <<now, stored, ledger, lastActive, lastDaily, fate, again>>

Warned(p) == At(p, "warned") /\ SetFlag(p, "warn", "warn")

Blackout(p) == Active(proc[p].cal, proc[p].at)

\* Mutant of StartOf: the flag is set before the notice goes out.
StartOfFlagged(p) ==
  /\ At(p, "start")
  /\ IF Blackout(p) = NoEvent \/ Notice(Blackout(p), "start") \in flags
     THEN Goto(p, "last") /\ Silent /\ UNCHANGED <<slot, flags>>
     ELSE /\ slot' = IF slot = "PENDING_ENTRY" THEN "cancelled" ELSE slot
          /\ flags' = flags \cup {Notice(Blackout(p), "start")}
          /\ proc' = [proc EXCEPT ![p].pc = "started", ![p].event = Blackout(p)]
          /\ Silent
  /\ UNCHANGED <<now, stored, position, trade, lastActive, lastDaily>>

\* The start of a blackout nobody has flagged: a pending entry is cancelled and
\* the user told.
StartOf(p) ==
  /\ At(p, "start")
  /\ IF Blackout(p) = NoEvent \/ Notice(Blackout(p), "start") \in flags
     THEN Goto(p, "last") /\ Silent /\ UNCHANGED slot
     ELSE /\ slot' = IF slot = "PENDING_ENTRY" THEN "cancelled" ELSE slot
          /\ Send(Notice(Blackout(p), "start"), "report")
          /\ proc' = [proc EXCEPT ![p].pc = "started", ![p].event = Blackout(p)]
  /\ UNCHANGED <<now, stored, position, trade, store>>

Started(p) == At(p, "started") /\ SetFlag(p, "start", "last")

\* Mutant of Finished: an end is noticed only when the next blackout begins.
FinishedNext(p, e) ==
  /\ Blackout(p) # NoEvent /\ e # NoEvent /\ e # Blackout(p)
  /\ Notice(e, "start") \in flags /\ Notice(e, "end") \notin flags

\* The blackout last seen active is not the one active now, and its end is owed.
Finished(p, e) ==
  /\ e # NoEvent /\ e # Blackout(p)
  /\ Notice(e, "start") \in flags /\ Notice(e, "end") \notin flags

\* What was read of event.last_active is written, below, where it differs.
Differs(p, last) ==
  proc' = [proc EXCEPT ![p].pc = IF last # Blackout(p) THEN "write" ELSE "gate",
                       ![p].event = IF last # Blackout(p) THEN last ELSE NoEvent]

\* event.last_active is read, and the end told that it owes.
EndOf(p) ==
  /\ At(p, "last")
  /\ IF Finished(p, lastActive)
     THEN /\ Send(Notice(lastActive, "end"), "report")
          /\ proc' = [proc EXCEPT ![p].pc = "ended", ![p].event = lastActive]
     ELSE Differs(p, lastActive) /\ Silent
  /\ UNCHANGED <<now, stored, ledger, store>>

Ended(p) == At(p, "ended") /\ SetFlag(p, "end", "write")

\* A read of event.last_active or of the START flag that fails counts as finding
\* nothing there, and no end is told.
EndUnread(p) ==
  /\ At(p, "last")
  /\ \E last \in {lastActive, NoEvent} : Differs(p, last)
  /\ Refused({lastActive} \ {NoEvent})
  /\ UNCHANGED <<now, stored, ledger, store, fate, again>>

WriteLast(p) ==
  /\ At(p, "write")
  /\ \/ /\ lastActive' = Blackout(p) /\ UNCHANGED mishaps
        /\ faulted' = faulted \cup ({lastActive} \ {NoEvent, proc[p].event, Blackout(p)})
     \/ lastActive' = lastActive /\ Refused({})
  /\ proc' = [proc EXCEPT ![p].pc = "gate", ![p].event = NoEvent]
  /\ UNCHANGED <<now, stored, ledger, flags, lastDaily, fate, again>>

\* No AI while a signal is active, nor in a blackout.  The answer is a signal or
\* none; the ledger takes a signal if none is active still.
Gate(p) ==
  /\ At(p, "gate")
  /\ IF slot \in {"PENDING_ENTRY", "OPEN"} \/ Blackout(p) # NoEvent
     THEN Leave(p, "poll") ELSE Leave(p, "poll") \/ Goto(p, "create")
  /\ Silent /\ UNCHANGED <<now, stored, ledger, store>>

Create(p) ==
  /\ At(p, "create")
  /\ IF slot = "none" THEN slot' = "PENDING_ENTRY" /\ Leave(p, "created")
                      ELSE Leave(p, "poll") /\ UNCHANGED slot
  /\ Silent /\ UNCHANGED <<now, stored, position, trade, store>>

Created(p) ==
  /\ At(p, "created")
  /\ Send(Life("created"), "signal") /\ Goto(p, "poll")
  /\ UNCHANGED <<now, stored, ledger, store>>

-----------------------------------------------------------------------------
(* The monitor poll and _handle_monitor_result                             *)

\* The active signal is read, and a candle fetched that touches a level or does
\* not.
Poll(p) ==
  /\ At(p, "poll")
  /\ \/ Goto(p, "report")
     \/ slot = "PENDING_ENTRY" /\ Goto(p, "enter")
     \/ slot = "OPEN" /\ Goto(p, "exit")
  /\ Silent /\ UNCHANGED <<now, stored, ledger, store>>

\* The winner opens the signal; who finds it open already goes on as the winner.
Enter(p) ==
  /\ At(p, "enter")
  /\ slot' = IF slot = "PENDING_ENTRY" THEN "OPEN" ELSE slot
  /\ Goto(p, IF slot \in {"PENDING_ENTRY", "OPEN"} THEN "book" ELSE "report")
  /\ Silent /\ UNCHANGED <<now, stored, position, trade, store>>

\* executor.open_position for the signal that was read, which may be over by now.
Book(p) ==
  /\ At(p, "book")
  /\ position' = TRUE
  /\ Goto(p, "opened")
  /\ Silent /\ UNCHANGED <<now, stored, slot, trade, store>>

\* Each process announces an opening once.
Opened(p) ==
  /\ At(p, "opened")
  /\ IF proc[p].opened THEN Silent ELSE Send(Life("opened"), "signal")
  /\ proc' = [proc EXCEPT ![p].pc = "report", ![p].opened = TRUE]
  /\ UNCHANGED <<now, stored, ledger, store>>

\* Mutant of Exit: who finds the signal closed already goes on as the winner.
ExitBoth(p) ==
  /\ At(p, "exit")
  /\ slot' = "closed"
  /\ Goto(p, "settle")
  /\ Silent /\ UNCHANGED <<now, stored, position, trade, store>>

\* Only the winner closes the signal and goes on.
Exit(p) ==
  /\ At(p, "exit")
  /\ slot' = IF slot = "OPEN" THEN "closed" ELSE slot
  /\ Goto(p, IF slot = "OPEN" THEN "settle" ELSE "report")
  /\ Silent /\ UNCHANGED <<now, stored, position, trade, store>>

\* executor.close_position: no trade, and no message, without a position.
Settle(p) ==
  /\ At(p, "settle")
  /\ trade' = (trade \/ position)
  /\ Goto(p, IF position THEN "tell" ELSE "report")
  /\ Silent /\ UNCHANGED <<now, stored, slot, position, store>>

Tell(p) ==
  /\ At(p, "tell")
  /\ Send(Life("ended"), "signal") /\ Goto(p, "report")
  /\ UNCHANGED <<now, stored, ledger, store>>

-----------------------------------------------------------------------------
(* The daily report                                                        *)

\* Mutant of ShouldSend: only in the hour of the report.
ShouldSendThen(last, t) == last # Day(t) /\ Hour(t) = ReportHour

\* should_send_daily.
ShouldSend(last, t) == last # Day(t) /\ Hour(t) >= ReportHour

\* _maybe_daily_report: the flag is read and the report sent; the loop begins
\* again when there is nothing to send.
DailyReport(p) ==
  /\ At(p, "report") /\ p \notin OneShots
  /\ IF ShouldSend(lastDaily, now)
     THEN /\ Send(Report(Day(now)), "report")
          /\ proc' = [proc EXCEPT ![p].pc = "reported", ![p].at = now]
     ELSE Goto(p, "tick") /\ Silent
  /\ UNCHANGED <<now, stored, ledger, store>>

\* A one-shot sends no report: it ends after its pass.
Leaves(p) ==
  /\ At(p, "report") /\ p \in OneShots
  /\ proc' = [proc EXCEPT ![p] = [Fresh EXCEPT !.pc = "done"]]
  /\ Silent /\ UNCHANGED <<now, stored, ledger, store>>

\* The flag is the day of the instant the check began.
Reported(p) ==
  /\ At(p, "reported")
  /\ \/ lastDaily' = Day(proc[p].at) /\ Written
     \/ lastDaily' = lastDaily /\ Refused({})
  /\ Leave(p, "tick")
  /\ UNCHANGED <<now, stored, ledger, flags, lastActive, fate, again>>

-----------------------------------------------------------------------------
(* The surroundings                                                        *)

Kill(p) ==
  /\ proc[p].pc \notin {"off", "down", "done"}
  /\ Mishap
  /\ proc' = [proc EXCEPT ![p] = [Fresh EXCEPT !.pc = IF p \in OneShots THEN "done" ELSE "down"]]
  /\ UNCHANGED <<now, stored, ledger, store, fate, again, faulted>>

\* Recovery and reconciliation repair the demo account and tell nobody.
Begin(p, pc) ==
  /\ At(p, pc)
  /\ proc' = [proc EXCEPT ![p] = Fresh]
  /\ position' = (position \/ slot = "OPEN")
  /\ trade' = (trade \/ (slot = "closed" /\ position))
  /\ Silent /\ UNCHANGED <<now, stored, slot, store>>

Restart(p) == Begin(p, "down")
RunOnce(p) == Begin(p, "off")

\* update_telegram.
Save ==
  /\ \E payload \in Payloads :
       /\ Accepts(payload)
       /\ stored' = Saved(payload)
  /\ stored' # stored
  /\ Mishap
  /\ UNCHANGED <<now, ledger, store, proc, fate, again, faulted>>

Clock ==
  /\ now < MaxTime
  /\ now' = now + 1
  /\ UNCHANGED <<stored, ledger, store, proc>> /\ Silent

Step(p) ==
  \/ Tick(p) \/ WarnOf(p) \/ Warned(p) \/ StartOf(p) \/ Started(p) \/ EndOf(p) \/ EndUnread(p)
  \/ Ended(p) \/ WriteLast(p) \/ Gate(p) \/ Create(p) \/ Created(p)
  \/ Poll(p) \/ Enter(p) \/ Book(p) \/ Opened(p) \/ Exit(p) \/ Settle(p) \/ Tell(p)
  \/ DailyReport(p) \/ Reported(p) \/ Leaves(p)

Next ==
  \/ Clock \/ Save
  \/ \E p \in Procs : Step(p) \/ Kill(p) \/ Restart(p) \/ RunOnce(p)

Spec == Init /\ [][Next]_vars

\* The loop of a living daemon goes round, and Docker restarts a dead one.  A
\* one-shot may stop for good anywhere.
FairSpec == Spec /\ \A p \in Procs \ OneShots : WF_vars(Step(p) \/ Restart(p))

-----------------------------------------------------------------------------
(* Properties                                                              *)

\* A flag in runtime_state never stands for a notice nobody tried to send: a
\* process killed between the two leaves a notice that will be sent again, not
\* one that is lost (_event_watch, _maybe_daily_report).
FlagsAreHonest ==
  /\ \A m \in flags : fate[m] # "none"
  /\ lastDaily > 0 => fate[Report(lastDaily)] # "none"

\* The end of a position is told once, by the process that closed it, and not
\* before its trade is booked, however polls of two processes interleave with
\* kills, restarts and reconciliation (_close, _handle_monitor_result).
CloseToldOnce ==
  /\ ~again
  /\ fate[Life("ended")] # "none" => trade /\ slot = "closed"

\* No signal comes of a tick that began in the blackout of a release the daemon was
\* told of, however old the word is: the releases the feed named when it last named
\* any, or, as long as it named none since the daemon started, the curated ones
\* (EventCalendar.check, the gate in _tick_locked).  A release neither knows of - its
\* series failed in that answer, or the file does not list it - has no blackout.
QuietInBlackout ==
  \A p \in Procs :
    LET known == IF proc[p].heard # {} THEN proc[p].heard ELSE Curated
    IN  At(p, "create") => \A e \in known : ~Contains(e, proc[p].at)

\* Once a blackout is recorded as on, its end is told after it: a restart in the
\* middle of it does not swallow the notice (event.last_active).  A write of its
\* START flag that was refused, or a read that failed, may - _set_event_flag and the
\* reads swallow the error, and the pass goes on -, and so may a pass of the other
\* process that read event.last_active earlier and overwrites it.
EndFollows ==
  \A e \in {o \in Events : o.at + o.after < MaxTime} :
    lastActive = e /\ now > e.at + e.after ~> fate[Notice(e, "end")] # "none" \/ e \in faulted

\* A daemon that runs sends the report of a day once its hour has come, unless
\* the day ends first (_maybe_daily_report, should_send_daily).
ReportComes ==
  \A day \in 1..Day(MaxTime) :
    Day(now) = day /\ Hour(now) >= ReportHour ~> fate[Report(day)] # "none" \/ Day(now) # day
=============================================================================
