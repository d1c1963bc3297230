------------------------------ MODULE MemoryLog ------------------------------
(***************************************************************************)
(* The trading memory log (tradingagents/agents/utils/memory.py): a        *)
(* markdown file, read as a sequence of entries.  An entry is pending      *)
(* until its outcome is known, and carries from then on the day the        *)
(* outcome became known.  Dates are day numbers.                           *)
(***************************************************************************)
EXTENDS Naturals, Sequences, FiniteSets, SequencesExt

CONSTANTS
  NSame,       \* same-ticker lessons shown to a run (n_same)
  NCross,      \* lessons of other tickers shown to a run (n_cross)
  MaxEntries   \* memory_log_max_entries, 0 when rotation is disabled

\* The outcome of a pending entry, and of one resolved before resolution days
\* were recorded.
Pending == "pending"
Legacy  == "legacy"

Entry(ticker, date, outcome, known) ==
  [ticker |-> ticker, date |-> date, outcome |-> outcome, known |-> known]

Entries(tickers) ==
  [ticker : tickers, date : Nat, outcome : {Pending, Legacy, "resolved"}, known : Nat]

IsPending(e) == e.outcome = Pending

PendingFor(log, ticker) == {e \in Range(log) : IsPending(e) /\ e.ticker = ticker}

\* The idempotency guard of store_decision, a scan for the pending tag.
HasPending(log, ticker, date) ==
  \E e \in PendingFor(log, ticker) : e.date = date

Stored(log, ticker, date) == Append(log, Entry(ticker, date, Pending, 0))

\* The newest n of the entries at these places.
Newest(log, places, n) ==
  {log[i] : i \in {j \in places : Cardinality({k \in places : k >= j}) <= n}}

\* What as_of lets through: the outcome was known by that day.
KnownBy(e, asOf) == e.outcome = "resolved" /\ e.known <= asOf

\* get_past_context.  filtered says whether as_of was given.
PastContext(log, ticker, filtered, asOf) ==
  LET settled == {i \in DOMAIN log : /\ ~IsPending(log[i])
                                     /\ filtered => KnownBy(log[i], asOf)}
      same    == {i \in settled : log[i].ticker = ticker}
  IN  Newest(log, same, NSame) \cup Newest(log, settled \ same, NCross)

\* Mutant of Droppable: the oldest entries go first, pending or not.
DroppableAny(e) == TRUE

\* The entries rotation may drop: is_resolved.
Droppable(e) == ~IsPending(e)

\* _apply_rotation drops the oldest resolved entries beyond the cap.
Rotated(log) ==
  LET droppable(n) == {i \in 1..n : Droppable(log[i])}
      over         == Cardinality(droppable(Len(log))) - MaxEntries
      keep(i)      == ~(Droppable(log[i]) /\ Cardinality(droppable(i)) <= over)
      kept         == {i \in DOMAIN log : keep(i)}
  IN  IF MaxEntries = 0 \/ Cardinality(droppable(Len(log))) <= MaxEntries THEN log
      ELSE [n \in 1..Cardinality(kept) |->
              log[CHOOSE i \in kept : Cardinality({j \in kept : j <= i}) = n]]

\* batch_update_with_outcomes on the text it read: each update resolves the
\* first pending entry of its day and ticker, then the log is rotated.
WithOutcomes(text, updates) ==
  LET matches(i, u) == IsPending(text[i]) /\ text[i].ticker = u.ticker /\ text[i].date = u.date
      hits(u)       == {i \in DOMAIN text : matches(i, u)}
      first(i, u)   == i \in hits(u) /\ \A j \in hits(u) : i <= j
      update(i)     == {u \in updates : first(i, u)}
  IN  Rotated([i \in DOMAIN text |->
        IF update(i) = {} THEN text[i]
        ELSE LET u == CHOOSE u \in update(i) : TRUE
             IN  Entry(text[i].ticker, text[i].date, "resolved", u.known)])
=============================================================================
