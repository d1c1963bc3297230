---------------------------- MODULE EventCalendar ----------------------------
(***************************************************************************)
(* The macro-event calendar a daemon keeps in memory                       *)
(* (signal_engine/event_calendar.py): the releases the feed last listed,   *)
(* when it listed them, and the curated file that stands in for it.  A     *)
(* release is a record of its series, its instant and the blackout around  *)
(* it; what the code keeps for display is left out.                        *)
(***************************************************************************)
EXTENDS Integers, FiniteSets

CONSTANTS
  Events,        \* the releases there are: [series, at, before, after]
  Curated,       \* those of them listed in event_calendar.json
  RefreshEvery   \* refresh_interval_s

ASSUME EventsAssumption ==
  /\ \A e \in Events : e.at \in Nat /\ e.before \in Nat /\ e.after \in Nat
  /\ Curated \subseteq Events
  /\ RefreshEvery \in Nat

NoEvent == [series |-> "none", at |-> -1, before |-> 0, after |-> 0]

Contains(e, t) == e.at - e.before <= t /\ t <= e.at + e.after

\* A new process: nothing was ever fetched.
Empty == [events |-> {}, last |-> -1]

Over(e, t) == e.at + e.after < t

\* What /next?series=... may name at t: the first release of its series to come, or
\* one that is out and whose blackout is on still.
MayName(e, t) ==
  ~Over(e, t) /\ \A o \in Events : o.series = e.series /\ o.at > t => e.at <= o.at

\* _fetch_all asks for one series after the other, and a series that fails or names
\* nothing is left out.
Answers(t) ==
  {a \in SUBSET {e \in Events : MayName(e, t)} : \A e, o \in a : e.series = o.series => e = o}

\* The feed failed for no series that has a release to come.
Complete(answer, t) ==
  \A o \in Events : o.at > t => \E e \in answer : e.series = o.series

Throttled(cal, t) == cal.last >= 0 /\ t - cal.last < RefreshEvery

\* _load_fallback; the fetch is not counted as done.
Fallback(cal) ==
  IF Curated = {} THEN cal ELSE [cal EXCEPT !.events = Curated]

\* Mutant of Refreshed: the answer replaces the cache also when it is empty.
RefreshedAnyway(cal, t, answer) ==
  IF Throttled(cal, t) THEN cal ELSE [events |-> answer, last |-> t]

\* refresh: a non-empty answer replaces the cache, an empty one leaves it, and
\* an empty cache is filled from the file.
Refreshed(cal, t, answer) ==
  IF Throttled(cal, t) THEN cal
  ELSE IF answer # {} THEN [events |-> answer, last |-> t]
  ELSE IF cal.events = {} THEN Fallback(cal)
  ELSE cal

\* check: the first release whose blackout is on, and those to come.
Active(cal, t) ==
  LET on == {e \in cal.events : Contains(e, t)}
  IN  IF on = {} THEN NoEvent ELSE CHOOSE e \in on : \A o \in on : e.at <= o.at

Upcoming(cal, t) == {e \in cal.events : e.at > t}
=============================================================================
