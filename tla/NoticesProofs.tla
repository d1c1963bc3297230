--------------------------- MODULE NoticesProofs ---------------------------
(***************************************************************************)
(* Proofs about Notices, for any processes, releases and bounds: no flag   *)
(* stands for a notice nobody tried to send, the end of a position is told *)
(* once, after its trade was booked, and no signal comes of the blackout   *)
(* of a release the daemon was told of.                                    *)
(***************************************************************************)
EXTENDS Notices, TLAPS, WellFoundedInduction

Stops ==
  {"off", "down", "done", "tick", "warn", "warned", "start", "started", "last", "ended",
   "write", "gate", "create", "created", "poll", "enter", "book", "opened", "exit", "settle",
   "tell", "report", "reported"}

Fates == {"none", "muted", "nowhere", "delivered", "lost"}

Calendars == [events : SUBSET Events, last : Int]

Processes ==
  [pc : Stops, at : 0..MaxTime, cal : Calendars, heard : SUBSET Events,
   event : Events \cup {NoEvent}, passed : SUBSET (Events \cup {NoEvent}), opened : BOOLEAN]

ProcOK == proc \in [Procs -> Processes]

TypeOK ==
  /\ now \in 0..MaxTime
  /\ ProcOK
  /\ fate \in [Messages -> Fates]
  /\ lastActive \in Events \cup {NoEvent}
  /\ lastDaily \in Nat
  /\ position \in BOOLEAN /\ trade \in BOOLEAN /\ again \in BOOLEAN

Told(m) == m \in Messages /\ fate[m] # "none"

\* What a process is about to put on record was sent before.
Owed(p) ==
  /\ At(p, "warned")   => Told(Notice(proc[p].event, "warn"))
  /\ At(p, "started")  => Told(Notice(proc[p].event, "start"))
  /\ At(p, "ended")    => Told(Notice(proc[p].event, "end"))
  /\ At(p, "reported") => Told(Report(Day(proc[p].at)))

SentFirst == \A p \in Procs : Owed(p)

Honest ==
  /\ \A m \in flags : Told(m)
  /\ lastDaily > 0 => Told(Report(lastDaily))

\* One process closes the signal, and until it has told so nobody has.
Closing(p) == At(p, "settle") \/ At(p, "tell")

ClosedOnce ==
  /\ \A p \in Procs : Closing(p) => slot = "closed" /\ ~Told(Life("ended"))
  /\ \A p \in Procs : At(p, "tell") => trade
  /\ \A p, q \in Procs : Closing(p) /\ Closing(q) => p = q
  /\ Told(Life("ended")) => trade /\ slot = "closed"
  /\ ~again

IInv == TypeOK /\ SentFirst /\ Honest /\ ClosedOnce

-----------------------------------------------------------------------------
(* The clock, the calendar and the messages *)

LEMMA DaysAreBounded ==
  ASSUME NEW t \in 0..MaxTime
  PROVE  Day(t) \in Nat /\ Day(t) \in 1..Day(MaxTime)
  <1> DEFINE q == t \div DayLen
             m == MaxTime \div DayLen
  <1>1. DayLen \in Nat /\ DayLen > 0 /\ MaxTime \in Nat /\ t \in Nat /\ t <= MaxTime
    BY NoticesAssumption
  <1>2. /\ q \in Nat /\ t = DayLen * q + (t % DayLen) /\ t % DayLen \in 0..(DayLen - 1)
        /\ m \in Nat /\ MaxTime = DayLen * m + (MaxTime % DayLen)
        /\ MaxTime % DayLen \in 0..(DayLen - 1)
    BY <1>1
  <1> HIDE DEF q, m
  <1>3. q <= m
    <2>1. SUFFICES ASSUME q >= m + 1 PROVE FALSE
      BY <1>2
    <2>2. DayLen * q >= DayLen * (m + 1)
      BY <1>1, <1>2, <2>1
    <2>3. DayLen * (m + 1) = DayLen * m + DayLen
      BY <1>1, <1>2
    <2> QED
      BY <1>1, <1>2, <2>2, <2>3
  <1> QED
    BY <1>2, <1>3 DEF Day, q, m

LEMMA KnownMessages ==
  /\ \A e \in Events, phase \in Phases :
        Notice(e, phase) \in Messages /\ Notice(e, phase) # Life("ended")
  /\ \A t \in 0..MaxTime : Report(Day(t)) \in Messages /\ Report(Day(t)) # Life("ended")
  /\ \A what \in {"created", "opened", "ended"} : Life(what) \in Messages
  /\ Life("created") # Life("ended") /\ Life("opened") # Life("ended")
  <1>1. ASSUME NEW e \in Events, NEW phase \in Phases
        PROVE  Notice(e, phase) \in Messages /\ Notice(e, phase) # Life("ended")
    <2>1. Notice(e, phase) \in Messages
      BY DEF Messages
    <2>2. Notice(e, phase).kind # Life("ended").kind
      BY DEF Notice, Life, Phases
    <2> QED
      BY <2>1, <2>2
  <1>2. ASSUME NEW t \in 0..MaxTime
        PROVE  Report(Day(t)) \in Messages /\ Report(Day(t)) # Life("ended")
    <2>1. Report(Day(t)) \in Messages
      BY DaysAreBounded DEF Messages
    <2>2. Report(Day(t)).kind # Life("ended").kind
      BY DEF Report, Life
    <2> QED
      BY <2>1, <2>2
  <1>3. \A what \in {"created", "opened", "ended"} : Life(what) \in Messages
    BY DEF Messages
  <1>4. \A what : Life(what).kind = what
    BY DEF Life
  <1> QED
    BY <1>1, <1>2, <1>3, <1>4

Below == {pair \in Nat \X Nat : pair[1] < pair[2]}

LEMMA LeastExists ==
  ASSUME NEW numbers \in SUBSET Nat, numbers # {}
  PROVE  \E least \in numbers : \A other \in numbers : least <= other
  <1>1. IsWellFoundedOn(Below, Nat)
    BY NatLessThanWellFounded DEF OpToRel, Below
  <1>2. PICK least \in numbers : \A other \in numbers : ~(<<other, least>> \in Below)
    BY <1>1, WFMin
  <1>3. ASSUME NEW other \in numbers
        PROVE  least <= other
    <2>1. <<other, least>> \in Nat \X Nat
      OBVIOUS
    <2>2. ~(other < least)
      BY <1>2, <2>1 DEF Below
    <2> QED
      BY <2>2
  <1> QED
    BY <1>3

\* The first of the blackouts that are on is one of the calendar's.
LEMMA ActiveIsListed ==
  ASSUME NEW cal \in Calendars, NEW t
  PROVE  Active(cal, t) \in Events \cup {NoEvent}
  <1> DEFINE on    == {e \in cal.events : Contains(e, t)}
             first == {e \in on : \A o \in on : e.at <= o.at}
  <1>1. on \subseteq Events
    BY DEF Calendars
  <1>2. on # {} => first # {}
    <2>1. SUFFICES ASSUME on # {} PROVE first # {}
      OBVIOUS
    <2> DEFINE hours == {e.at : e \in on}
    <2>2. hours \subseteq Nat /\ hours # {}
      BY <1>1, <2>1, EventsAssumption
    <2>3. PICK hour \in hours : \A other \in hours : hour <= other
      BY <2>2, LeastExists
    <2> QED
      BY <2>3
  <1> QED
    BY <1>1, <1>2 DEF Active

LEMMA RefreshedTyped ==
  ASSUME NEW cal \in Calendars, NEW t \in Int, NEW answer \in Answers(t) \cup {{}}
  PROVE  Refreshed(cal, t, answer) \in Calendars
  <1>1. answer \subseteq Events
    BY DEF Answers
  <1> QED
    BY <1>1, EventsAssumption DEF Calendars, Refreshed, Fallback

LEMMA Sent ==
  ASSUME TypeOK, NEW m \in Messages, NEW channel, Send(m, channel)
  PROVE  /\ fate' \in [Messages -> Fates]
         /\ fate'[m] # "none"
         /\ \A other \in Messages \ {m} : fate'[other] = fate[other]
         /\ again' = (again \/ (m = Life("ended") /\ fate[m] # "none"))
  <1>1. PICK n : fate' = [fate EXCEPT ![m] = Fate(Effective(stored), channel, n)]
    BY DEF Send
  <1>2. Fate(Effective(stored), channel, n) \in Fates \ {"none"}
    BY DEF Fate, Fates
  <1> QED
    BY <1>1, <1>2 DEF TypeOK, Send

-----------------------------------------------------------------------------
(* Types, and that what was told stays told *)

\* A process moves on, and the others stay where they are.
Moves(p, next) == next \in Processes /\ proc' = [proc EXCEPT ![p] = next]

Unmoved == UNCHANGED <<now, lastActive, lastDaily, position, trade>>

\* The notices of the event watch.
LEMMA WatchTyped ==
  ASSUME TypeOK, NEW p \in Procs, WarnOf(p) \/ StartOf(p) \/ EndOf(p)
  PROVE  /\ TypeOK'
         /\ \A m \in Messages : fate[m] # "none" => fate'[m] # "none"
         /\ fate'[Life("ended")] = fate[Life("ended")] /\ again' = again
  <1> DEFINE Outcome ==
        /\ TypeOK'
        /\ \A m \in Messages : fate[m] # "none" => fate'[m] # "none"
        /\ fate'[Life("ended")] = fate[Life("ended")] /\ again' = again
  <1>1. Blackout(p) \in Events \cup {NoEvent}
    BY ActiveIsListed DEF Blackout, TypeOK, ProcOK, Processes
  <1>2. ASSUME NEW e \in Events, NEW phase \in Phases, NEW channel,
               Send(Notice(e, phase), channel), NEW pc \in Stops,
               proc' = [proc EXCEPT ![p].pc = pc, ![p].event = e], Unmoved
        PROVE  Outcome
    <2>1. Notice(e, phase) \in Messages /\ Notice(e, phase) # Life("ended")
          /\ Life("ended") \in Messages
      BY KnownMessages
    <2>2. /\ fate' \in [Messages -> Fates] /\ fate'[Notice(e, phase)] # "none"
          /\ \A other \in Messages \ {Notice(e, phase)} : fate'[other] = fate[other]
          /\ again' = again
      BY <1>2, <2>1, Sent DEF TypeOK
    <2>3. ProcOK'
      BY <1>2 DEF TypeOK, ProcOK, Processes
    <2> QED
      BY <1>2, <2>1, <2>2, <2>3 DEF TypeOK, Unmoved
  <1>3. ASSUME Silent, Unmoved, NEW pc \in Stops, NEW event \in Events \cup {NoEvent},
               \/ proc' = [proc EXCEPT ![p].pc = pc]
               \/ proc' = [proc EXCEPT ![p].pc = pc, ![p].passed = {}]
               \/ proc' = [proc EXCEPT ![p].pc = pc, ![p].event = event]
        PROVE  Outcome
    <2>1. ProcOK'
      BY <1>3 DEF TypeOK, ProcOK, Processes
    <2> QED
      BY <1>3, <2>1 DEF TypeOK, Silent, Unmoved
  <1>4. {"warned", "start", "started", "last", "ended", "write", "gate"} \subseteq Stops
        /\ {"warn", "start", "end"} \subseteq Phases
    BY DEF Stops, Phases
  <1>5. CASE WarnOf(p)
    <2>1. Unmoved
      BY <1>5 DEF WarnOf, Unmoved, ledger, store
    <2>2. Due(p) \subseteq Events
      BY DEF Due, Upcoming, TypeOK, ProcOK, Processes, Calendars
    <2> QED
      BY <1>2, <1>3, <1>4, <1>5, <2>1, <2>2 DEF WarnOf, Goto
  <1>6. CASE StartOf(p)
    <2>1. Unmoved
      BY <1>6 DEF StartOf, Unmoved, store
    <2> QED
      BY <1>1, <1>2, <1>3, <1>4, <1>6, <2>1 DEF StartOf, Goto
  <1>7. CASE EndOf(p)
    <2>1. Unmoved
      BY <1>7 DEF EndOf, Unmoved, ledger, store
    <2>2. Finished(p, lastActive) => lastActive \in Events
      BY DEF Finished, TypeOK
    <2>3. lastActive \in Events \cup {NoEvent} /\ NoEvent \in Events \cup {NoEvent}
      BY DEF TypeOK
    <2> QED
      BY <1>2, <1>3, <1>4, <1>7, <2>1, <2>2, <2>3 DEF EndOf, Differs
  <1> QED
    BY <1>5, <1>6, <1>7

\* What is told of the signal itself, and the report.
LEMMA NewsTyped ==
  ASSUME TypeOK, NEW p \in Procs, Created(p) \/ Opened(p) \/ Tell(p) \/ DailyReport(p)
  PROVE  /\ TypeOK'
         /\ \A m \in Messages : fate[m] # "none" => fate'[m] # "none"
         /\ Tell(p) \/ (fate'[Life("ended")] = fate[Life("ended")] /\ again' = again)
  <1>1. Unmoved
    BY DEF Created, Opened, Tell, DailyReport, Unmoved, ledger, store
  <1>2. ProcOK'
    BY DEF Created, Opened, Tell, DailyReport, TypeOK, ProcOK, Processes, Stops, Goto
  <1>3. CASE Silent
    BY <1>1, <1>2, <1>3 DEF Silent, TypeOK, Unmoved
  <1>4. ASSUME NEW m \in Messages, NEW channel, Send(m, channel), m # Life("ended") \/ Tell(p)
        PROVE  /\ TypeOK'
               /\ \A o \in Messages : fate[o] # "none" => fate'[o] # "none"
               /\ Tell(p) \/ (fate'[Life("ended")] = fate[Life("ended")] /\ again' = again)
    <2>1. /\ fate' \in [Messages -> Fates] /\ fate'[m] # "none"
          /\ \A other \in Messages \ {m} : fate'[other] = fate[other]
          /\ again' = (again \/ (m = Life("ended") /\ fate[m] # "none"))
      BY <1>4, Sent
    <2>2. Life("ended") \in Messages
      BY KnownMessages
    <2>3. again' \in BOOLEAN
      BY <2>1 DEF TypeOK
    <2> QED
      BY <1>1, <1>2, <1>4, <2>1, <2>2, <2>3 DEF TypeOK, Unmoved
  <1>5. CASE Created(p)
    BY <1>4, <1>5, KnownMessages DEF Created
  <1>6. CASE Opened(p)
    BY <1>3, <1>4, <1>6, KnownMessages DEF Opened
  <1>7. CASE Tell(p)
    BY <1>4, <1>7, KnownMessages DEF Tell
  <1>8. CASE DailyReport(p)
    BY <1>3, <1>4, <1>8, KnownMessages DEF DailyReport, TypeOK
  <1> QED
    BY <1>5, <1>6, <1>7, <1>8

\* A tick takes the process to the warnings, with the calendar refreshed.
LEMMA TickMoves ==
  ASSUME TypeOK, NEW p \in Procs, Tick(p)
  PROVE  \E r \in Processes : r.pc = "warn" /\ proc' = [proc EXCEPT ![p] = r]
  <1>1. PICK answer \in Answers(now) \cup {{}} :
          proc' = [proc EXCEPT ![p].pc = "warn", ![p].at = now,
                               ![p].cal = Refreshed(proc[p].cal, now, answer),
                               ![p].heard = IF answer = {} THEN proc[p].heard ELSE answer]
    BY DEF Tick
  <1> DEFINE cal   == Refreshed(proc[p].cal, now, answer)
             heard == IF answer = {} THEN proc[p].heard ELSE answer
             r     == [proc[p] EXCEPT !.pc = "warn", !.at = now, !.cal = cal, !.heard = heard]
  <1>2. cal \in Calendars
    BY RefreshedTyped, NoticesAssumption DEF TypeOK, ProcOK, Processes
  <1>3. heard \in SUBSET Events
    BY DEF Answers, TypeOK, ProcOK, Processes
  <1>4. proc' = [proc EXCEPT ![p].pc = "warn", ![p].at = now, ![p].cal = cal,
                             ![p].heard = heard]
    BY <1>1
  <1> HIDE DEF cal, heard
  <1>5. proc[p] \in Processes /\ now \in 0..MaxTime /\ "warn" \in Stops
    BY DEF TypeOK, ProcOK, Stops
  <1>6. proc' = [proc EXCEPT ![p] = r]
    BY <1>4 DEF TypeOK, ProcOK
  <1>7. r \in Processes /\ r.pc = "warn"
    BY <1>2, <1>3, <1>5 DEF Processes
  <1> HIDE DEF r
  <1> QED
    BY <1>6, <1>7

\* An end, a kill or a new start leaves nothing of what the process knew.
LEMMA StartsAfresh ==
  ASSUME NEW p, Leaves(p) \/ Kill(p) \/ Restart(p) \/ RunOnce(p)
  PROVE  \E r \in Processes :
           /\ r.pc \in {"tick", "down", "done"} /\ proc' = [proc EXCEPT ![p] = r]
           /\ r.heard = {} /\ r.cal = Empty
  <1> DEFINE down == [Fresh EXCEPT !.pc = "down"]
             done == [Fresh EXCEPT !.pc = "done"]
  <1>1. /\ Fresh \in Processes /\ Fresh.pc = "tick" /\ Fresh.heard = {} /\ Fresh.cal = Empty
    <2>1. Empty \in Calendars
      BY DEF Empty, Calendars
    <2>2. 0 \in 0..MaxTime /\ "tick" \in Stops
      BY NoticesAssumption DEF Stops
    <2> QED
      BY <2>1, <2>2 DEF Fresh, Processes
  <1>3. down \in Processes /\ down.pc = "down" /\ down.heard = {} /\ down.cal = Empty
    BY <1>1 DEF Processes, Stops
  <1>4. done \in Processes /\ done.pc = "done" /\ done.heard = {} /\ done.cal = Empty
    BY <1>1 DEF Processes, Stops
  <1>2. \/ proc' = [proc EXCEPT ![p] = Fresh]
        \/ proc' = [proc EXCEPT ![p] = down]
        \/ proc' = [proc EXCEPT ![p] = done]
    BY DEF Kill, Restart, RunOnce, Leaves, Begin
  <1> HIDE DEF down, done
  <1> QED
    BY <1>1, <1>2, <1>3, <1>4

\* The steps of a process that send nothing.
Quiet(p) ==
  \/ Tick(p) \/ Warned(p) \/ Started(p) \/ Ended(p) \/ EndUnread(p) \/ WriteLast(p)
  \/ Gate(p) \/ Create(p)
  \/ Poll(p) \/ Enter(p) \/ Book(p) \/ Exit(p) \/ Settle(p)
  \/ Reported(p) \/ Leaves(p) \/ Kill(p) \/ Restart(p) \/ RunOnce(p)

LEMMA QuietTyped ==
  ASSUME TypeOK, NEW p \in Procs, Quiet(p)
  PROVE  TypeOK' /\ fate' = fate /\ again' = again
  <1>1. fate' = fate /\ again' = again /\ now' = now
    BY DEF Quiet, Tick, Warned, Started, Ended, SetFlag, EndUnread, WriteLast, Gate, Create, Poll, Enter,
           Book, Exit, Settle, Reported, Leaves, Kill, Restart, RunOnce, Begin, Silent
  <1>2. Blackout(p) \in Events \cup {NoEvent}
    BY ActiveIsListed DEF Blackout, TypeOK, ProcOK, Processes
  <1>3. lastActive' \in Events \cup {NoEvent} /\ position' \in BOOLEAN /\ trade' \in BOOLEAN
    BY <1>2
       DEF TypeOK, Quiet, Tick, Warned, Started, Ended, SetFlag, EndUnread, WriteLast, Gate, Create, Poll, Enter,
           Book, Exit, Settle, Reported, Leaves, Kill, Restart, RunOnce, Begin, ledger, store
  <1>4. lastDaily' \in Nat
    <2>1. CASE Reported(p)
      BY <2>1, DaysAreBounded DEF Reported, TypeOK, ProcOK, Processes
    <2>2. CASE ~Reported(p)
      BY <2>2
         DEF TypeOK, Quiet, Tick, Warned, Started, Ended, SetFlag, EndUnread, WriteLast, Gate, Create, Poll,
             Enter, Book, Exit, Settle, Leaves, Kill, Restart, RunOnce, Begin, store
    <2> QED
      BY <2>1, <2>2
  <1>5. ProcOK'
    <2>2. CASE Tick(p)
      BY <2>2, TickMoves DEF TypeOK, ProcOK
    <2>3. CASE Leaves(p) \/ Kill(p) \/ Restart(p) \/ RunOnce(p)
      BY <2>3, StartsAfresh DEF TypeOK, ProcOK
    <2>4. ASSUME NEW pc \in Stops, Goto(p, pc) \/ Leave(p, pc)
          PROVE  ProcOK'
      <3>1. 0 \in 0..MaxTime
        BY NoticesAssumption
      <3> QED
        BY <2>4, <3>1 DEF TypeOK, ProcOK, Processes, Goto, Leave
    <2>5. CASE Warned(p) \/ Started(p) \/ Ended(p)
      <3>1. PICK pc \in Stops, event \in {proc[p].event, NoEvent},
                 passed \in {proc[p].passed, proc[p].passed \cup {proc[p].event}} :
              proc' = [proc EXCEPT ![p].pc = pc, ![p].event = event, ![p].passed = passed]
        BY <2>5 DEF Warned, Started, Ended, SetFlag, Stops
      <3>2. proc[p].event \in Events \cup {NoEvent}
        BY DEF TypeOK, ProcOK, Processes
      <3>3. proc[p].passed \in SUBSET (Events \cup {NoEvent})
        BY DEF TypeOK, ProcOK, Processes
      <3> DEFINE r == [proc[p] EXCEPT !.pc = pc, !.event = event, !.passed = passed]
      <3>4. event \in Events \cup {NoEvent} /\ passed \in SUBSET (Events \cup {NoEvent})
        BY <3>1, <3>2, <3>3
      <3>5. proc' = [proc EXCEPT ![p] = r] /\ proc[p] \in Processes
        BY <3>1 DEF TypeOK, ProcOK
      <3>6. r \in Processes
        BY <3>1, <3>4, <3>5 DEF Processes
      <3> HIDE DEF r
      <3> QED
        BY <3>5, <3>6 DEF TypeOK, ProcOK
    <2>8. CASE EndUnread(p) \/ WriteLast(p)
      <3>1. PICK pc \in Stops, event \in Events \cup {NoEvent} :
              proc' = [proc EXCEPT ![p].pc = pc, ![p].event = event]
        BY <2>8 DEF EndUnread, WriteLast, Differs, Stops, TypeOK
      <3> QED
        BY <3>1 DEF TypeOK, ProcOK, Processes
    <2>6. CASE Gate(p) \/ Create(p) \/ Reported(p)
      BY <2>4, <2>6 DEF Stops, Gate, Create, Reported
    <2>7. CASE Poll(p) \/ Enter(p) \/ Book(p) \/ Exit(p) \/ Settle(p)
      BY <2>4, <2>7 DEF Stops, Poll, Enter, Book, Exit, Settle
    <2> QED
      BY <2>2, <2>3, <2>5, <2>6, <2>7, <2>8 DEF Quiet
  <1> QED
    BY <1>1, <1>3, <1>4, <1>5 DEF TypeOK

LEMMA SurroundingsTyped ==
  ASSUME TypeOK, Clock \/ Save \/ UNCHANGED vars
  PROVE  TypeOK' /\ UNCHANGED <<proc, fate, again, ledger, store>>
  <1>1. UNCHANGED <<proc, fate, again, ledger, store>>
    BY DEF Clock, Save, vars, ledger, store, Silent
  <1>2. now' \in 0..MaxTime
    BY NoticesAssumption DEF TypeOK, Clock, Save, vars
  <1> QED
    BY <1>1, <1>2 DEF TypeOK, ProcOK, ledger, store

\* Every step is of one of the four kinds.
LEMMA StepCases ==
  ASSUME [Next]_vars
  PROVE  \/ Clock \/ Save \/ UNCHANGED vars
         \/ \E p \in Procs : WarnOf(p) \/ StartOf(p) \/ EndOf(p)
         \/ \E p \in Procs : Created(p) \/ Opened(p) \/ Tell(p) \/ DailyReport(p)
         \/ \E p \in Procs : Quiet(p)
  BY DEF Next, Step, Quiet

LEMMA Typed ==
  ASSUME TypeOK, [Next]_vars
  PROVE  TypeOK' /\ \A m : Told(m) => Told(m)'
  <1>1. CASE Clock \/ Save \/ UNCHANGED vars
    BY <1>1, SurroundingsTyped DEF Told
  <1>2. ASSUME NEW p \in Procs, WarnOf(p) \/ StartOf(p) \/ EndOf(p)
        PROVE  TypeOK' /\ \A m : Told(m) => Told(m)'
    BY <1>2, WatchTyped DEF Told
  <1>3. ASSUME NEW p \in Procs, Created(p) \/ Opened(p) \/ Tell(p) \/ DailyReport(p)
        PROVE  TypeOK' /\ \A m : Told(m) => Told(m)'
    BY <1>3, NewsTyped DEF Told
  <1>4. ASSUME NEW p \in Procs, Quiet(p)
        PROVE  TypeOK' /\ \A m : Told(m) => Told(m)'
    BY <1>4, QuietTyped DEF Told
  <1> QED
    BY <1>1, <1>2, <1>3, <1>4, StepCases

-----------------------------------------------------------------------------
(* What is put on record was sent                                          *)

LEMMA SendTells ==
  ASSUME TypeOK, NEW m \in Messages, NEW channel, Send(m, channel)
  PROVE  Told(m)'
  BY Sent DEF Told

\* A step of a process leaves the others where they are.
LEMMA OthersStay ==
  ASSUME TypeOK, NEW p \in Procs, Step(p) \/ Kill(p) \/ Restart(p) \/ RunOnce(p),
         NEW q \in Procs \ {p}
  PROVE  proc'[q] = proc[q]
  BY DEF TypeOK, ProcOK, Step, Tick, WarnOf, Warned, StartOf, Started, EndOf, Ended, SetFlag,
         EndUnread, Differs, WriteLast, Gate, Create, Created, Poll, Enter, Book, Opened, Exit, Settle, Tell,
         DailyReport, Reported, Leaves, Kill, Restart, RunOnce, Begin, Goto, Leave

Records == {"warned", "started", "ended", "reported"}

\* A quiet step, and news of the signal, leads nowhere near a record.
LEMMA NothingOwed ==
  ASSUME TypeOK, NEW p \in Procs, Quiet(p) \/ Created(p) \/ Opened(p) \/ Tell(p)
  PROVE  proc'[p].pc \notin Records
  <1>1. CASE Leaves(p) \/ Kill(p) \/ Restart(p) \/ RunOnce(p)
    BY <1>1, StartsAfresh DEF TypeOK, ProcOK, Records
  <1>5. CASE Tick(p)
    BY <1>5, TickMoves DEF TypeOK, ProcOK, Records
  <1>2. CASE Warned(p) \/ Started(p) \/ Ended(p) \/ EndUnread(p) \/ WriteLast(p) \/ Gate(p)
              \/ Create(p)
    BY <1>2 DEF TypeOK, ProcOK, Processes, Records, Warned, Started, Ended, SetFlag, EndUnread,
                Differs, WriteLast, Gate, Create, Goto, Leave
  <1>3. CASE Poll(p) \/ Enter(p) \/ Book(p) \/ Exit(p) \/ Settle(p) \/ Reported(p)
    BY <1>3 DEF TypeOK, ProcOK, Processes, Records, Poll, Enter, Book, Exit, Settle, Reported,
                Goto, Leave
  <1>4. CASE Created(p) \/ Opened(p) \/ Tell(p)
    BY <1>4 DEF TypeOK, ProcOK, Processes, Records, Created, Opened, Tell, Goto
  <1> QED
    BY <1>1, <1>2, <1>3, <1>4, <1>5 DEF Quiet

LEMMA SentFirstKept ==
  ASSUME TypeOK, SentFirst, [Next]_vars
  PROVE  SentFirst'
  <1>1. TypeOK' /\ \A m : Told(m) => Told(m)'
    BY Typed
  <1>2. ASSUME NEW q \in Procs, proc'[q] = proc[q]
        PROVE  Owed(q)'
    BY <1>1, <1>2 DEF SentFirst, Owed, At
  <1>3. ASSUME NEW p \in Procs, proc'[p].pc \notin Records
        PROVE  Owed(p)'
    BY <1>3 DEF Owed, At, Records
  <1>4. CASE Clock \/ Save \/ UNCHANGED vars
    BY <1>2, <1>4, SurroundingsTyped DEF SentFirst
  <1>5. ASSUME NEW p \in Procs, Step(p) \/ Kill(p) \/ Restart(p) \/ RunOnce(p), Owed(p)'
        PROVE  SentFirst'
    BY <1>2, <1>5, OthersStay DEF SentFirst
  <1>6. ASSUME NEW p \in Procs, WarnOf(p)
        PROVE  Owed(p)'
    <2>1. CASE Due(p) = {}
      BY <1>3, <1>6, <2>1 DEF WarnOf, TypeOK, ProcOK, Processes, Records
    <2>2. CASE Due(p) # {}
      <3>1. PICK e \in Due(p) : /\ Send(Notice(e, "warn"), "report")
                                /\ proc' = [proc EXCEPT ![p].pc = "warned", ![p].event = e]
        BY <1>6, <2>2 DEF WarnOf
      <3>2. e \in Events
        BY DEF Due, Upcoming, TypeOK, ProcOK, Processes, Calendars
      <3>3. Told(Notice(e, "warn"))'
        BY <3>1, <3>2, KnownMessages, SendTells DEF Phases
      <3>4. proc'[p].pc = "warned" /\ proc'[p].event = e
        BY <3>1 DEF TypeOK, ProcOK, Processes
      <3> QED
        BY <3>3, <3>4 DEF Owed, At
    <2> QED
      BY <2>1, <2>2
  <1>7. ASSUME NEW p \in Procs, StartOf(p)
        PROVE  Owed(p)'
    <2>1. Blackout(p) \in Events \cup {NoEvent}
      BY ActiveIsListed DEF Blackout, TypeOK, ProcOK, Processes
    <2>2. CASE proc' = [proc EXCEPT ![p].pc = "last"]
      BY <1>3, <2>2 DEF TypeOK, ProcOK, Processes, Records
    <2>3. CASE /\ Blackout(p) # NoEvent
               /\ Send(Notice(Blackout(p), "start"), "report")
               /\ proc' = [proc EXCEPT ![p].pc = "started", ![p].event = Blackout(p)]
      <3>1. PICK e \in Events : e = Blackout(p)
        BY <2>1, <2>3
      <3>2. Told(Notice(e, "start"))'
        BY <2>3, <3>1, KnownMessages, SendTells DEF Phases
      <3>3. proc'[p].pc = "started" /\ proc'[p].event = e
        BY <2>3, <3>1 DEF TypeOK, ProcOK, Processes
      <3> QED
        BY <3>2, <3>3 DEF Owed, At
    <2> QED
      BY <1>7, <2>2, <2>3 DEF StartOf, Goto
  <1>8. ASSUME NEW p \in Procs, EndOf(p)
        PROVE  Owed(p)'
    <2>1. CASE Finished(p, lastActive)
      <3>1. /\ Send(Notice(lastActive, "end"), "report")
            /\ proc' = [proc EXCEPT ![p].pc = "ended", ![p].event = lastActive]
            /\ lastActive' = lastActive
        BY <1>8, <2>1 DEF EndOf, store
      <3>2. lastActive \in Events
        BY <2>1 DEF Finished, TypeOK
      <3>3. PICK e \in Events : e = lastActive
        BY <3>2
      <3>4. Told(Notice(e, "end"))'
        BY <3>1, <3>3, KnownMessages, SendTells DEF Phases
      <3>5. proc'[p].pc = "ended" /\ proc'[p].event = e
        BY <3>1, <3>3 DEF TypeOK, ProcOK, Processes
      <3> QED
        BY <3>4, <3>5 DEF Owed, At
    <2>2. CASE ~Finished(p, lastActive)
      BY <1>3, <1>8, <2>2 DEF EndOf, Differs, TypeOK, ProcOK, Processes, Records
    <2> QED
      BY <2>1, <2>2
  <1>9. ASSUME NEW p \in Procs, DailyReport(p)
        PROVE  Owed(p)'
    <2>1. CASE ShouldSend(lastDaily, now)
      <3>1. PICK t \in 0..MaxTime : t = now
        BY DEF TypeOK
      <3>2. /\ Send(Report(Day(t)), "report")
            /\ proc' = [proc EXCEPT ![p].pc = "reported", ![p].at = t]
        BY <1>9, <2>1, <3>1 DEF DailyReport
      <3>3. Told(Report(Day(t)))'
        BY <3>2, KnownMessages, SendTells
      <3>4. proc'[p].pc = "reported" /\ proc'[p].at = t
        BY <3>2 DEF TypeOK, ProcOK, Processes
      <3> QED
        BY <3>3, <3>4 DEF Owed, At
    <2>2. CASE ~ShouldSend(lastDaily, now)
      BY <1>3, <1>9, <2>2 DEF DailyReport, Goto, TypeOK, ProcOK, Processes, Records
    <2> QED
      BY <2>1, <2>2
  <1>10. ASSUME NEW p \in Procs, Quiet(p) \/ Created(p) \/ Opened(p) \/ Tell(p)
         PROVE  Owed(p)'
    BY <1>3, <1>10, NothingOwed
  <1> QED
    BY <1>4, <1>5, <1>6, <1>7, <1>8, <1>9, <1>10, StepCases DEF Quiet, Step

LEMMA HonestKept ==
  ASSUME TypeOK, SentFirst, Honest, [Next]_vars
  PROVE  Honest'
  <1>1. \A m : Told(m) => Told(m)'
    BY Typed
  <1>2. CASE flags' = flags /\ lastDaily' = lastDaily
    BY <1>1, <1>2 DEF Honest
  <1>3. ASSUME NEW p \in Procs, NEW phase, NEW pc, SetFlag(p, phase, pc),
               Told(Notice(proc[p].event, phase))
        PROVE  Honest'
    <2>1. PICK m : m = Notice(proc[p].event, phase)
      OBVIOUS
    <2>2. flags' \subseteq flags \cup {m} /\ lastDaily' = lastDaily /\ Told(m)
      BY <1>3, <2>1 DEF SetFlag
    <2> QED
      BY <1>1, <2>2 DEF Honest
  <1>4. ASSUME NEW p \in Procs, Warned(p) \/ Started(p) \/ Ended(p)
        PROVE  Honest'
    BY <1>3, <1>4 DEF SentFirst, Owed, Warned, Started, Ended
  <1>5. ASSUME NEW p \in Procs, Reported(p)
        PROVE  Honest'
    <2>1. PICK day : day = Day(proc[p].at)
      OBVIOUS
    <2>2. flags' = flags /\ lastDaily' \in {day, lastDaily} /\ Told(Report(day))
      BY <1>5, <2>1 DEF Reported, SentFirst, Owed
    <2> QED
      BY <1>1, <2>2 DEF Honest
  <1>6. ASSUME NEW p \in Procs, Quiet(p), ~Warned(p), ~Started(p), ~Ended(p), ~Reported(p)
        PROVE  flags' = flags /\ lastDaily' = lastDaily
    BY <1>6 DEF Quiet, Tick, EndUnread, WriteLast, Gate, Create, Poll, Enter, Book, Exit, Settle, Leaves, Kill,
                Restart, RunOnce, Begin, store
  <1>7. ASSUME NEW p \in Procs, WarnOf(p) \/ StartOf(p) \/ EndOf(p) \/ Created(p) \/ Opened(p)
                                \/ Tell(p) \/ DailyReport(p)
        PROVE  flags' = flags /\ lastDaily' = lastDaily
    BY <1>7 DEF WarnOf, StartOf, EndOf, Created, Opened, Tell, DailyReport, store
  <1>8. CASE Clock \/ Save \/ UNCHANGED vars
    BY <1>2, <1>8, SurroundingsTyped DEF store
  <1> QED
    BY <1>2, <1>4, <1>5, <1>6, <1>7, <1>8, StepCases

-----------------------------------------------------------------------------
(* The end is told once                                                    *)

\* What keeps the invariant wherever nobody begins to close.
Calm ==
  /\ fate'[Life("ended")] = fate[Life("ended")] /\ again' = again
  /\ \A q \in Procs : Closing(q)' => Closing(q)
  /\ \A q \in Procs : At(q, "tell")' => At(q, "tell")
  /\ trade => trade'
  /\ slot = "closed" => slot' = "closed"

LEMMA CalmKeeps ==
  ASSUME ClosedOnce, Calm
  PROVE  ClosedOnce'
  <1>1. Told(Life("ended"))' <=> Told(Life("ended"))
    BY DEF Calm, Told
  <1> QED
    BY <1>1 DEF ClosedOnce, Calm

LEMMA StaysApart ==
  ASSUME TypeOK, NEW p \in Procs, Step(p) \/ Kill(p) \/ Restart(p) \/ RunOnce(p),
         proc'[p].pc \notin {"settle", "tell"}
  PROVE  /\ \A q \in Procs : Closing(q)' => Closing(q) /\ q # p
         /\ \A q \in Procs : At(q, "tell")' => At(q, "tell")
  BY OthersStay DEF Closing, At

\* Every step but those of _close keeps clear of closing.
LEMMA OthersCalm ==
  ASSUME TypeOK, NEW p \in Procs, Step(p) \/ Kill(p) \/ Restart(p) \/ RunOnce(p),
         ~Exit(p), ~Settle(p), ~Tell(p)
  PROVE  Calm
  <1>1. fate'[Life("ended")] = fate[Life("ended")] /\ again' = again
    BY WatchTyped, NewsTyped, QuietTyped DEF Step, Quiet
  <1>2. (trade => trade') /\ (slot = "closed" => slot' = "closed")
    <2>1. CASE Restart(p) \/ RunOnce(p)
      BY <2>1 DEF Restart, RunOnce, Begin
    <2>2. CASE ~Restart(p) /\ ~RunOnce(p)
      <3>1. trade' = trade
        BY <2>2 DEF Step, Tick, WarnOf, Warned, StartOf, Started, EndOf, EndUnread, Ended, SetFlag, WriteLast,
                    Gate, Create, Created, Poll, Enter, Book, Opened, DailyReport, Reported,
                    Leaves, Kill, ledger
      <3>2. slot = "closed" => slot' = "closed"
        BY <2>2 DEF Step, Tick, WarnOf, Warned, StartOf, Started, EndOf, EndUnread, Ended, SetFlag, WriteLast,
                    Gate, Create, Created, Poll, Enter, Book, Opened, DailyReport, Reported,
                    Leaves, Kill, ledger
      <3> QED
        BY <3>1, <3>2
    <2> QED
      BY <2>1, <2>2
  <1>3. proc'[p].pc \notin {"settle", "tell"}
    <2>1. CASE Leaves(p) \/ Kill(p) \/ Restart(p) \/ RunOnce(p)
      BY <2>1, StartsAfresh DEF TypeOK, ProcOK
    <2>5. CASE Tick(p)
      BY <2>5, TickMoves DEF TypeOK, ProcOK
    <2>2. CASE \/ WarnOf(p) \/ StartOf(p) \/ EndOf(p) \/ EndUnread(p)
               \/ Warned(p) \/ Started(p) \/ Ended(p)
      BY <2>2 DEF TypeOK, ProcOK, Processes, WarnOf, StartOf, EndOf, EndUnread, Differs,
                  Warned, Started, Ended, SetFlag, Goto
    <2>3. CASE WriteLast(p) \/ Gate(p) \/ Create(p) \/ Created(p) \/ Poll(p) \/ Enter(p) \/ Book(p)
      BY <2>3 DEF TypeOK, ProcOK, Processes, WriteLast, Gate, Create, Created, Poll, Enter, Book,
                  Goto, Leave
    <2>4. CASE Opened(p) \/ DailyReport(p) \/ Reported(p)
      BY <2>4 DEF TypeOK, ProcOK, Processes, Opened, DailyReport, Reported, Goto, Leave
    <2> QED
      BY <2>1, <2>2, <2>3, <2>4, <2>5 DEF Step
  <1> QED
    BY <1>1, <1>2, <1>3, StaysApart DEF Calm

LEMMA ClosedOnceKept ==
  ASSUME TypeOK, ClosedOnce, [Next]_vars
  PROVE  ClosedOnce'
  <1>1. CASE Clock \/ Save \/ UNCHANGED vars
    <2>1. Calm
      BY <1>1, SurroundingsTyped DEF Calm, Closing, At, ledger
    <2> QED
      BY <2>1, CalmKeeps
  <1>2. ASSUME NEW p \in Procs, Exit(p)
        PROVE  ClosedOnce'
    <2>1. /\ fate' = fate /\ again' = again /\ trade' = trade
          /\ \A q \in Procs \ {p} : proc'[q] = proc[q]
      BY <1>2, OthersStay DEF Exit, Silent, Step
    <2>2. CASE slot = "OPEN"
      <3>1. slot' = "closed" /\ proc'[p].pc = "settle"
        BY <1>2, <2>2 DEF Exit, Goto, TypeOK, ProcOK, Processes
      <3>2. ~Told(Life("ended")) /\ \A q \in Procs : ~Closing(q)
        BY <2>2 DEF ClosedOnce
      <3>3. ~Told(Life("ended"))'
        BY <2>1, <3>2 DEF Told
      <3>4. \A q \in Procs : Closing(q)' => q = p
        BY <2>1, <3>2 DEF Closing, At
      <3>5. \A q \in Procs : ~At(q, "tell")'
        BY <2>1, <3>1, <3>2 DEF Closing, At
      <3> QED
        BY <2>1, <3>1, <3>3, <3>4, <3>5 DEF ClosedOnce
    <2>3. CASE slot # "OPEN"
      <3>1. slot' = slot /\ proc'[p].pc = "report"
        BY <1>2, <2>3 DEF Exit, Goto, TypeOK, ProcOK, Processes
      <3>2. Calm
        BY <1>2, <2>1, <3>1, StaysApart DEF Calm, Step
      <3> QED
        BY <3>2, CalmKeeps
    <2> QED
      BY <2>2, <2>3
  <1>3. ASSUME NEW p \in Procs, Settle(p)
        PROVE  ClosedOnce'
    <2>1. /\ fate' = fate /\ again' = again /\ slot' = slot
          /\ \A q \in Procs \ {p} : proc'[q] = proc[q]
      BY <1>3, OthersStay DEF Settle, Silent, Step
    <2>2. Closing(p) /\ slot = "closed" /\ ~Told(Life("ended"))
      BY <1>3 DEF Settle, Closing, ClosedOnce
    <2>3. ~Told(Life("ended"))'
      BY <2>1, <2>2 DEF Told
    <2>4. \A q \in Procs : Closing(q)' => q = p
      BY <2>1, <2>2 DEF Closing, At, ClosedOnce
    <2>5. (trade => trade') /\ (At(p, "tell")' => trade')
      BY <1>3 DEF Settle, Goto, At, TypeOK, ProcOK, Processes
    <2>6. \A q \in Procs : At(q, "tell")' => trade'
      BY <2>4, <2>5 DEF Closing
    <2> QED
      BY <2>1, <2>2, <2>3, <2>4, <2>6 DEF ClosedOnce
  <1>4. ASSUME NEW p \in Procs, Tell(p)
        PROVE  ClosedOnce'
    <2>1. Closing(p) /\ slot = "closed" /\ trade /\ ~Told(Life("ended")) /\ ~again
      BY <1>4 DEF Tell, Closing, ClosedOnce
    <2>2. slot' = slot /\ trade' = trade /\ proc'[p].pc = "report"
      BY <1>4 DEF Tell, ledger, Goto, TypeOK, ProcOK, Processes
    <2>3. again' = FALSE
      BY <1>4, <2>1, KnownMessages, Sent DEF Tell, Told
    <2>4. \A q \in Procs : ~Closing(q)'
      BY <1>4, <2>1, <2>2, StaysApart DEF ClosedOnce, Step
    <2>5. \A q \in Procs : ~At(q, "tell")'
      BY <2>4 DEF Closing
    <2> QED
      BY <2>1, <2>2, <2>3, <2>4, <2>5 DEF ClosedOnce
  <1>5. ASSUME NEW p \in Procs, Step(p) \/ Kill(p) \/ Restart(p) \/ RunOnce(p),
               ~Exit(p), ~Settle(p), ~Tell(p)
        PROVE  ClosedOnce'
    BY <1>5, OthersCalm, CalmKeeps
  <1> QED
    BY <1>1, <1>2, <1>3, <1>4, <1>5 DEF Next

-----------------------------------------------------------------------------
(* The gate, and what the calendar lists                                   *)

\* From the refresh of a tick to the call of the AI.
InTick ==
  {"warn", "warned", "start", "started", "last", "ended", "write", "gate", "create"}

\* The calendar lists what was heard last; before anything was heard it is empty, or
\* filled from the file once a tick has asked in vain.
Sighted(r) ==
  /\ r.cal.last >= 0 => r.heard # {}
  /\ r.heard # {} => r.cal.events = r.heard
  /\ r.heard = {} => r.cal.events = {} \/ r.cal.events = Curated
  /\ r.pc \in InTick /\ r.heard = {} => r.cal.events = Curated
  /\ r.pc = "create" => Active(r.cal, r.at) = NoEvent

AllSighted == \A p \in Procs : Sighted(proc[p])

\* What a tick makes of the calendar.
LEMMA RefreshHears ==
  ASSUME NEW r, r.cal \in Calendars, Sighted(r), NEW t \in Nat, NEW answer, NEW new,
         new.cal = Refreshed(r.cal, t, answer),
         new.heard = IF answer = {} THEN r.heard ELSE answer,
         new.pc = "warn", Throttled(r.cal, t) => answer = {}
  PROVE  Sighted(new)
  <1>1. CASE Throttled(r.cal, t)
    <2>1. new.cal = r.cal /\ new.heard = r.heard /\ r.heard # {}
      BY <1>1 DEF Refreshed, Throttled, Sighted
    <2> QED
      BY <2>1 DEF Sighted
  <1>2. CASE ~Throttled(r.cal, t) /\ answer # {}
    <2>1. new.cal = [events |-> answer, last |-> t] /\ new.heard = answer
      BY <1>2 DEF Refreshed
    <2> QED
      BY <1>2, <2>1 DEF Sighted
  <1>3. CASE ~Throttled(r.cal, t) /\ answer = {} /\ r.cal.events = {}
    <2>1. r.heard = {} /\ new.heard = {} /\ ~(r.cal.last >= 0)
      BY <1>3 DEF Sighted
    <2>2. new.cal = Fallback(r.cal)
      BY <1>3 DEF Refreshed
    <2>3. CASE Curated = {}
      <3>1. new.cal = r.cal
        BY <2>2, <2>3 DEF Fallback
      <3> QED
        BY <1>3, <2>1, <2>3, <3>1 DEF Sighted
    <2>4. CASE Curated # {}
      <3>1. /\ new.cal = [r.cal EXCEPT !.events = Curated]
            /\ r.cal \in [events : SUBSET Events, last : Int]
        BY <2>2, <2>4 DEF Fallback, Calendars
      <3>2. new.cal.events = Curated /\ new.cal.last = r.cal.last
        BY <3>1
      <3> QED
        BY <1>3, <2>1, <3>2 DEF Sighted
    <2> QED
      BY <2>3, <2>4
  <1>4. CASE ~Throttled(r.cal, t) /\ answer = {} /\ r.cal.events # {}
    <2>1. new.cal = r.cal /\ new.heard = r.heard
      BY <1>4 DEF Refreshed
    <2> QED
      BY <1>4, <2>1 DEF Sighted
  <1> QED
    BY <1>1, <1>2, <1>3, <1>4

\* With no blackout on the calendar none is on of what it lists.
LEMMA NoneActive ==
  ASSUME NEW cal \in Calendars, NEW t \in Int, Active(cal, t) = NoEvent
  PROVE  \A e \in cal.events : ~Contains(e, t)
  <1> DEFINE on    == {e \in cal.events : Contains(e, t)}
             first == {e \in on : \A o \in on : e.at <= o.at}
  <1>1. on \subseteq Events
    BY DEF Calendars
  <1>2. NoEvent \notin Events
    <2>1. NoEvent.at = -1
      BY DEF NoEvent
    <2> QED
      BY <2>1, EventsAssumption
  <1>3. on = {}
    <2> SUFFICES ASSUME on # {} PROVE FALSE
      OBVIOUS
    <2> DEFINE hours == {e.at : e \in on}
    <2>1. hours \subseteq Nat /\ hours # {}
      BY <1>1, EventsAssumption
    <2>2. PICK hour \in hours : \A other \in hours : hour <= other
      BY <2>1, LeastExists
    <2>3. first # {}
      BY <2>2
    <2>4. Active(cal, t) \in first
      BY <2>3 DEF Active
    <2> QED
      BY <1>1, <1>2, <2>4
  <1> QED
    BY <1>3

LEMMA SightedKept ==
  ASSUME AllSighted, ProcOK, NEW p \in Procs, NEW r, Sighted(r),
         proc' = [proc EXCEPT ![p] = r]
  PROVE  AllSighted'
  BY DEF AllSighted, ProcOK

\* A process that goes on, in its tick or out of it, with the calendar it has.
GoesOn(p) ==
  \E r : /\ proc' = [proc EXCEPT ![p] = r]
         /\ r.cal = proc[p].cal /\ r.heard = proc[p].heard
         /\ r.pc \in InTick => proc[p].pc \in InTick /\ r.pc # "create"

LEMMA GoesOnSighted ==
  ASSUME AllSighted, ProcOK, NEW p \in Procs, GoesOn(p)
  PROVE  AllSighted'
  <1>1. PICK r : /\ proc' = [proc EXCEPT ![p] = r]
                 /\ r.cal = proc[p].cal /\ r.heard = proc[p].heard
                 /\ r.pc \in InTick => proc[p].pc \in InTick /\ r.pc # "create"
    BY DEF GoesOn
  <1>2. Sighted(proc[p])
    BY DEF AllSighted
  <1>3. Sighted(r)
    BY <1>1, <1>2 DEF Sighted, InTick
  <1> QED
    BY <1>1, <1>3, SightedKept

\* The forms the steps of a tick have.
OnWay(p, pc, event, passed) ==
  \/ proc' = [proc EXCEPT ![p].pc = pc]
  \/ proc' = [proc EXCEPT ![p].pc = pc, ![p].event = event]
  \/ proc' = [proc EXCEPT ![p].pc = pc, ![p].passed = passed]
  \/ proc' = [proc EXCEPT ![p].pc = pc, ![p].event = event, ![p].passed = passed]

LEMMA KeptOnWay ==
  ASSUME AllSighted, ProcOK, NEW p \in Procs, proc[p].pc \in InTick,
         NEW pc, pc # "create", NEW event, NEW passed, OnWay(p, pc, event, passed)
  PROVE  AllSighted'
  <1>1. proc[p] \in Processes
    BY DEF ProcOK
  <1>2. CASE proc' = [proc EXCEPT ![p].pc = pc]
    <2> DEFINE r == [proc[p] EXCEPT !.pc = pc]
    <2>1. proc' = [proc EXCEPT ![p] = r]
      BY <1>2 DEF ProcOK
    <2>2. r.cal = proc[p].cal /\ r.heard = proc[p].heard /\ r.pc = pc
      BY <1>1 DEF Processes
    <2> HIDE DEF r
    <2>3. GoesOn(p)
      BY <2>1, <2>2 DEF GoesOn
    <2> QED
      BY <2>3, GoesOnSighted
  <1>3. CASE proc' = [proc EXCEPT ![p].pc = pc, ![p].event = event]
    <2> DEFINE r == [proc[p] EXCEPT !.pc = pc, !.event = event]
    <2>1. proc' = [proc EXCEPT ![p] = r]
      BY <1>3 DEF ProcOK
    <2>2. r.cal = proc[p].cal /\ r.heard = proc[p].heard /\ r.pc = pc
      BY <1>1 DEF Processes
    <2> HIDE DEF r
    <2>3. GoesOn(p)
      BY <2>1, <2>2 DEF GoesOn
    <2> QED
      BY <2>3, GoesOnSighted
  <1>4. CASE proc' = [proc EXCEPT ![p].pc = pc, ![p].passed = passed]
    <2> DEFINE r == [proc[p] EXCEPT !.pc = pc, !.passed = passed]
    <2>1. proc' = [proc EXCEPT ![p] = r]
      BY <1>4 DEF ProcOK
    <2>2. r.cal = proc[p].cal /\ r.heard = proc[p].heard /\ r.pc = pc
      BY <1>1 DEF Processes
    <2> HIDE DEF r
    <2>3. GoesOn(p)
      BY <2>1, <2>2 DEF GoesOn
    <2> QED
      BY <2>3, GoesOnSighted
  <1>5. CASE proc' = [proc EXCEPT ![p].pc = pc, ![p].event = event, ![p].passed = passed]
    <2> DEFINE r == [proc[p] EXCEPT !.pc = pc, !.event = event, !.passed = passed]
    <2>1. proc' = [proc EXCEPT ![p] = r]
      BY <1>5 DEF ProcOK
    <2>2. r.cal = proc[p].cal /\ r.heard = proc[p].heard /\ r.pc = pc
      BY <1>1 DEF Processes
    <2> HIDE DEF r
    <2>3. GoesOn(p)
      BY <2>1, <2>2 DEF GoesOn
    <2> QED
      BY <2>3, GoesOnSighted
  <1> QED
    BY <1>2, <1>3, <1>4, <1>5 DEF OnWay

LEMMA AllSightedKept ==
  ASSUME TypeOK, AllSighted, Next
  PROVE  AllSighted'
  <1>1. ProcOK /\ now \in Nat
    BY NoticesAssumption DEF TypeOK
  <1>2. CASE Clock
    BY <1>2 DEF Clock, AllSighted
  <1>3. CASE Save
    BY <1>3 DEF Save, AllSighted
  <1>4. ASSUME NEW p \in Procs, Tick(p) PROVE AllSighted'
    <2>1. PICK answer : /\ Throttled(proc[p].cal, now) => answer = {}
                        /\ proc' = [proc EXCEPT ![p].pc = "warn", ![p].at = now,
                                     ![p].cal = Refreshed(@, now, answer),
                                     ![p].heard = IF answer = {} THEN @ ELSE answer]
      BY <1>4 DEF Tick
    <2> DEFINE r == [proc[p] EXCEPT !.pc = "warn", !.at = now,
                                    !.cal = Refreshed(@, now, answer),
                                    !.heard = IF answer = {} THEN @ ELSE answer]
    <2>2. proc[p] \in Processes
      BY <1>1 DEF ProcOK
    <2>3. proc' = [proc EXCEPT ![p] = r]
      BY <1>1, <2>1 DEF ProcOK
    <2>4. /\ r.cal = Refreshed(proc[p].cal, now, answer) /\ r.pc = "warn"
          /\ r.heard = IF answer = {} THEN proc[p].heard ELSE answer
      BY <2>2 DEF Processes
    <2> HIDE DEF r
    <2>6. proc[p].cal \in Calendars /\ Sighted(proc[p])
      BY <2>2 DEF AllSighted, Processes
    <2>5. Sighted(r)
      BY <1>1, <2>1, <2>4, <2>6, RefreshHears
    <2> QED
      BY <1>1, <2>3, <2>5, SightedKept
  <1>5. ASSUME NEW p \in Procs, Gate(p) PROVE AllSighted'
    <2>1. CASE Leave(p, "poll")
      <3> DEFINE r == [proc[p] EXCEPT !.pc = "poll", !.at = 0]
      <3>2. /\ proc' = [proc EXCEPT ![p] = r] /\ r.cal = proc[p].cal
            /\ r.heard = proc[p].heard /\ r.pc \notin InTick
        BY <1>1, <2>1 DEF Leave, ProcOK, Processes, InTick
      <3> HIDE DEF r
      <3>1. GoesOn(p)
        BY <3>2 DEF GoesOn
      <3> QED
        BY <1>1, <3>1, GoesOnSighted
    <2>2. CASE ~Leave(p, "poll")
      <3> DEFINE r == [proc[p] EXCEPT !.pc = "create"]
      <3>1. /\ proc' = [proc EXCEPT ![p] = r] /\ r.cal = proc[p].cal /\ r.at = proc[p].at
            /\ r.heard = proc[p].heard
            /\ r.pc = "create" /\ Blackout(p) = NoEvent /\ proc[p].pc \in InTick
        BY <1>1, <1>5, <2>2 DEF Gate, Goto, At, ProcOK, Processes, InTick
      <3> HIDE DEF r
      <3> QED
        BY <1>1, <3>1, SightedKept DEF AllSighted, Sighted, Blackout
    <2> QED
      BY <2>1, <2>2
  <1>6. ASSUME NEW p \in Procs, Kill(p) \/ Restart(p) \/ RunOnce(p) \/ Leaves(p)
        PROVE  AllSighted'
    <2>1. PICK r \in Processes :
            /\ r.pc \in {"tick", "down", "done"} /\ proc' = [proc EXCEPT ![p] = r]
            /\ r.heard = {} /\ r.cal = Empty
      BY <1>6, StartsAfresh
    <2>2. Sighted(r)
      BY <2>1 DEF Empty, Sighted, InTick
    <2> QED
      BY <1>1, <2>1, <2>2, SightedKept
  <1>7. ASSUME NEW p \in Procs, Step(p), ~Tick(p), ~Gate(p), ~Leaves(p) PROVE AllSighted'
    <2>1. CASE WarnOf(p) \/ StartOf(p) \/ EndOf(p) \/ EndUnread(p) \/ WriteLast(p)
      <3>1. proc[p].pc \in InTick
        BY <2>1 DEF WarnOf, StartOf, EndOf, EndUnread, WriteLast, At, InTick
      <3>7. ASSUME NEW pc, pc # "create", NEW event, NEW passed, OnWay(p, pc, event, passed)
            PROVE  AllSighted'
        BY <1>1, <3>1, <3>7, KeptOnWay
      <3>8. ASSUME NEW last, Differs(p, last) PROVE AllSighted'
        <4> DEFINE pc    == IF last # Blackout(p) THEN "write" ELSE "gate"
                   event == IF last # Blackout(p) THEN last ELSE NoEvent
        <4>1. proc' = [proc EXCEPT ![p].pc = pc, ![p].event = event] /\ pc # "create"
          BY <3>8 DEF Differs
        <4> HIDE DEF pc, event
        <4>2. OnWay(p, pc, event, {})
          BY <4>1, Zenon DEF OnWay
        <4> QED
          BY <3>7, <4>1, <4>2
      <3>2. CASE WarnOf(p)
        <4>1. CASE Due(p) = {}
          <5>1. OnWay(p, "start", NoEvent, {})
            BY <3>2, <4>1, Zenon DEF WarnOf, OnWay
          <5> QED
            BY <3>7, <5>1
        <4>2. CASE Due(p) # {}
          <5>1. PICK e \in Due(p) : proc' = [proc EXCEPT ![p].pc = "warned", ![p].event = e]
            BY <3>2, <4>2, Zenon DEF WarnOf
          <5>2. OnWay(p, "warned", e, {})
            BY <5>1, Zenon DEF OnWay
          <5> QED
            BY <3>7, <5>2
        <4> QED
          BY <4>1, <4>2
      <3>3. CASE StartOf(p)
        <4>1. \/ proc' = [proc EXCEPT ![p].pc = "last"]
              \/ proc' = [proc EXCEPT ![p].pc = "started", ![p].event = Blackout(p)]
          BY <3>3, Zenon DEF StartOf, Goto
        <4>2. OnWay(p, "last", NoEvent, {}) \/ OnWay(p, "started", Blackout(p), {})
          BY <4>1, Zenon DEF OnWay
        <4> QED
          BY <3>7, <4>2
      <3>4. CASE EndOf(p)
        <4>1. CASE Finished(p, lastActive)
          <5>1. proc' = [proc EXCEPT ![p].pc = "ended", ![p].event = lastActive]
            BY <3>4, <4>1, Zenon DEF EndOf
          <5>2. OnWay(p, "ended", lastActive, {})
            BY <5>1, Zenon DEF OnWay
          <5> QED
            BY <3>7, <5>2
        <4>2. CASE ~Finished(p, lastActive)
          BY <3>4, <3>8, <4>2, Zenon DEF EndOf
        <4> QED
          BY <4>1, <4>2
      <3>5. CASE EndUnread(p)
        BY <3>5, <3>8, Zenon DEF EndUnread
      <3>6. CASE WriteLast(p)
        <4>1. proc' = [proc EXCEPT ![p].pc = "gate", ![p].event = NoEvent]
          BY <3>6, Zenon DEF WriteLast
        <4>2. OnWay(p, "gate", NoEvent, {})
          BY <4>1, Zenon DEF OnWay
        <4> QED
          BY <3>7, <4>2
      <3> QED
        BY <2>1, <3>2, <3>3, <3>4, <3>5, <3>6
    <2>3. CASE Warned(p) \/ Started(p) \/ Ended(p)
      <3>1. proc[p].pc \in InTick
        BY <2>3 DEF Warned, Started, Ended, At, InTick
      <3>2. ASSUME NEW phase, NEW pc, pc # "create", SetFlag(p, phase, pc) PROVE AllSighted'
        <4> DEFINE event  == IF phase = "end" THEN proc[p].event ELSE NoEvent
                   passed == IF phase = "warn" THEN proc[p].passed \cup {proc[p].event}
                                               ELSE proc[p].passed
        <4>1. proc' = [proc EXCEPT ![p].pc = pc, ![p].event = event, ![p].passed = passed]
          BY <3>2 DEF SetFlag
        <4> HIDE DEF event, passed
        <4>2. OnWay(p, pc, event, passed)
          BY <4>1, Zenon DEF OnWay
        <4> QED
          BY <1>1, <3>1, <3>2, <4>2, KeptOnWay
      <3> QED
        BY <2>3, <3>2 DEF Warned, Started, Ended
    <2>2. CASE Create(p) \/ Created(p) \/ Poll(p) \/ Enter(p) \/ Book(p) \/ Opened(p) \/ Exit(p)
                 \/ Settle(p) \/ Tell(p) \/ DailyReport(p) \/ Reported(p)
      <3>1. PICK r : /\ proc' = [proc EXCEPT ![p] = r] /\ r.cal = proc[p].cal
                     /\ r.heard = proc[p].heard /\ r.pc \notin InTick
        BY <1>1, <2>2 DEF Create, Created, Poll, Enter, Book, Opened, Exit, Settle, Tell,
                DailyReport, Reported, Goto, Leave, ProcOK, Processes, InTick
      <3>2. GoesOn(p)
        BY <3>1 DEF GoesOn
      <3> QED
        BY <1>1, <3>2, GoesOnSighted
    <2> QED
      BY <1>7, <2>1, <2>2, <2>3 DEF Step
  <1> QED
    BY <1>2, <1>3, <1>4, <1>5, <1>6, <1>7 DEF Next

-----------------------------------------------------------------------------
(* The theorems                                                            *)

LEMMA InitInv == Init => IInv
  <1> SUFFICES ASSUME Init PROVE IInv
    OBVIOUS
  <1> DEFINE Off == [Fresh EXCEPT !.pc = "off"]
  <1>1. Fresh \in Processes /\ Fresh.pc = "tick"
    BY NoticesAssumption DEF Fresh, Processes, Stops, Calendars, Empty
  <1>2. Off \in Processes /\ Off.pc = "off"
    BY <1>1 DEF Processes, Stops
  <1>3. \A p \in Procs : proc[p] = Fresh \/ proc[p] = Off
    BY DEF Init
  <1> HIDE DEF Off
  <1>4. \A p \in Procs : proc[p].pc \in {"tick", "off"}
    BY <1>1, <1>2, <1>3
  <1>5. ProcOK
    BY <1>1, <1>2, <1>3 DEF Init, ProcOK, Off
  <1>6. TypeOK
    <2>1. now \in 0..MaxTime /\ lastDaily \in Nat /\ lastActive \in Events \cup {NoEvent}
      BY NoticesAssumption DEF Init
    <2>2. fate \in [Messages -> Fates]
      BY DEF Init, Fates
    <2>3. position \in BOOLEAN /\ trade \in BOOLEAN /\ again \in BOOLEAN
      BY Zenon DEF Init
    <2> QED
      BY <1>5, <2>1, <2>2, <2>3 DEF TypeOK
  <1>7. \A m : ~Told(m)
    BY DEF Init, Told
  <1> QED
    BY <1>4, <1>6, <1>7 DEF Init, IInv, SentFirst, Owed, At, Honest, ClosedOnce, Closing

LEMMA Invariance == Spec => []IInv
  <1>1. IInv /\ [Next]_vars => IInv'
    BY Typed, SentFirstKept, HonestKept, ClosedOnceKept DEF IInv
  <1> QED
    BY <1>1, InitInv, PTL DEF Spec

\* A flag in runtime_state never stands for a notice nobody tried to send
\* (_event_watch, _maybe_daily_report), for any number of processes and mishaps.
THEOREM FlagsHonest == Spec => []FlagsAreHonest
  <1>1. IInv => FlagsAreHonest
    BY DEF IInv, Honest, Told, FlagsAreHonest
  <1> QED
    BY <1>1, Invariance, PTL

\* The end of a position is told once, after its trade is booked (_close,
\* _handle_monitor_result), for any number of processes and mishaps.
THEOREM ToldOnce == Spec => []CloseToldOnce
  <1>1. IInv => CloseToldOnce
    BY KnownMessages DEF IInv, ClosedOnce, Told, CloseToldOnce
  <1> QED
    BY <1>1, Invariance, PTL

\* No signal comes of a tick that began in the blackout of a release the feed named
\* when it last named any, or the file lists as long as it named none since the start
\* (EventCalendar.check, the gate in _tick_locked): for any processes and releases,
\* whatever fails and is killed.
THEOREM QuietThrough == Spec => []QuietInBlackout
  <1>1. Init => AllSighted
    <2> SUFFICES ASSUME Init, NEW p \in Procs PROVE Sighted(proc[p])
      BY DEF AllSighted
    <2>1. proc[p].cal = Empty /\ proc[p].heard = {} /\ proc[p].pc \in {"tick", "off"}
      BY DEF Init, Fresh
    <2> QED
      BY <2>1 DEF Sighted, Empty, InTick
  <1>2. TypeOK /\ AllSighted /\ [Next]_vars => AllSighted'
    <2>1. CASE UNCHANGED vars
      BY <2>1 DEF vars, AllSighted
    <2> QED
      BY <2>1, AllSightedKept
  <1>3. TypeOK /\ AllSighted => QuietInBlackout
    <2> SUFFICES ASSUME TypeOK, AllSighted, NEW p \in Procs, At(p, "create"),
                        NEW e \in (IF proc[p].heard # {} THEN proc[p].heard ELSE Curated)
                 PROVE  ~Contains(e, proc[p].at)
      BY DEF QuietInBlackout
    <2>1. proc[p].cal \in Calendars /\ proc[p].at \in Int
      BY NoticesAssumption DEF TypeOK, ProcOK, Processes
    <2>2. e \in proc[p].cal.events /\ Active(proc[p].cal, proc[p].at) = NoEvent
      BY DEF AllSighted, Sighted, At, InTick
    <2> QED
      BY <2>1, <2>2, NoneActive
  <1>4. IInv => TypeOK
    BY DEF IInv
  <1> QED
    BY <1>1, <1>2, <1>3, <1>4, Invariance, PTL DEF Spec
=============================================================================
