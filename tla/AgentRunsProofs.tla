---------------------------- MODULE AgentRunsProofs ----------------------------
(***************************************************************************)
(* Theorems about AgentRuns, for any requests, shapes of the graph, days,  *)
(* limits and numbers of processes, whatever is cut and resumed.           *)
(*                                                                         *)
(* A checkpoint and a running graph are the graph of the shape that was    *)
(* asked for, at the node they are at (Asked), and know nothing of after   *)
(* the trade date (Ignorant).  The board of the command line says done     *)
(* only of what the graph holds (Backed).                                  *)
(***************************************************************************)
EXTENDS AgentRuns, FiniteSetTheorems, TLAPS

-------------------------------------------------------------------------------
(* Sets of places in a sequence *)

(* Counting what lies at or before each place numbers the places of a      *)
(* finite set.                                                             *)
LEMMA RankIsBijective ==
    ASSUME NEW K \in SUBSET Nat, IsFiniteSet(K)
    PROVE  /\ \A i \in K : Cardinality({j \in K : j <= i}) \in 1..Cardinality(K)
           /\ \A h, i \in K :
                 Cardinality({j \in K : j <= h}) = Cardinality({j \in K : j <= i}) => h = i
           /\ \A n \in 1..Cardinality(K) : \E i \in K : Cardinality({j \in K : j <= i}) = n
<1> DEFINE upto(i) == {j \in K : j <= i}
           rank == [i \in K |-> Cardinality(upto(i))]
           size == Cardinality(K)
<1>1. size \in Nat
  BY FS_CardinalityType
<1>2. ASSUME NEW i \in K
      PROVE  /\ IsFiniteSet(upto(i)) /\ Cardinality(upto(i)) \in 1..size
  <2>1. upto(i) \in SUBSET K /\ i \in upto(i)
    OBVIOUS
  <2> HIDE DEF upto
  <2>2. IsFiniteSet(upto(i)) /\ Cardinality(upto(i)) <= size
    BY <2>1, FS_Subset
  <2>3. Cardinality(upto(i)) \in Nat /\ Cardinality(upto(i)) # 0
    BY <2>1, <2>2, FS_CardinalityType, FS_EmptySet
  <2>4. QED
    BY <1>1, <2>2, <2>3
<1>3. ASSUME NEW h \in K, NEW i \in K, h < i
      PROVE  Cardinality(upto(h)) # Cardinality(upto(i))
  <2>1. h \in Nat /\ i \in Nat
    OBVIOUS
  <2>2. upto(h) \in SUBSET upto(i)
    <3>1. ASSUME NEW k \in upto(h) PROVE k \in K /\ k <= i
      <4>1. k \in Nat /\ k \in K /\ k <= h
        OBVIOUS
      <4>2. QED
        BY <1>3, <2>1, <4>1
    <3>2. QED
      BY <3>1
  <2>3. i \in upto(i) /\ i \notin upto(h)
    BY <1>3, <2>1
  <2>4. IsFiniteSet(upto(i))
    BY <1>2
  <2> HIDE DEF upto
  <2>5. QED
    BY <2>2, <2>3, <2>4, FS_Subset
<1>4. \A h, i \in K : Cardinality(upto(h)) = Cardinality(upto(i)) => h = i
  BY <1>3
<1> HIDE DEF upto, size
<1>5. rank \in Injection(K, 1..size)
  BY <1>2, <1>4 DEF Injection, IsInjective
<1>6. IsFiniteSet(1..size) /\ Cardinality(1..size) = size
  BY <1>1, FS_Interval
<1>7. rank \in Surjection(K, 1..size)
  BY <1>5, <1>6, FS_Injection DEF size
<1>8. \A n \in 1..size : \E i \in K : Cardinality(upto(i)) = n
  BY <1>7 DEF Surjection
<1>9. QED
  BY <1>2, <1>4, <1>8 DEF upto, size

(* The picked places, in order: each once, and none left out. *)
LEMMA PicksAreBijective ==
    ASSUME NEW K \in SUBSET Nat, IsFiniteSet(K),
           NEW place, place = [n \in 1..Cardinality(K) |->
                                 CHOOSE i \in K : Cardinality({j \in K : j <= i}) = n]
    PROVE  /\ Cardinality(K) \in Nat
           /\ place \in [1..Cardinality(K) -> K]
           /\ \A m, n \in 1..Cardinality(K) : place[m] = place[n] => m = n
           /\ \A i \in K : \E n \in 1..Cardinality(K) : place[n] = i
<1> DEFINE rank(i) == Cardinality({j \in K : j <= i})
           size == Cardinality(K)
<1>1. /\ \A i \in K : rank(i) \in 1..size
      /\ \A h, i \in K : rank(h) = rank(i) => h = i
      /\ \A n \in 1..size : \E i \in K : rank(i) = n
  BY RankIsBijective
<1>2. size \in Nat
  BY FS_CardinalityType
<1>3. place = [n \in 1..size |-> CHOOSE i \in K : rank(i) = n]
  OBVIOUS
<1> HIDE DEF rank, size
<1>4. ASSUME NEW n \in 1..size
      PROVE  place[n] \in K /\ rank(place[n]) = n
  <2>1. place[n] = CHOOSE i \in K : rank(i) = n
    BY <1>3
  <2>2. \E i \in K : rank(i) = n
    BY <1>1
  <2>3. QED
    BY <2>1, <2>2
<1>5. DOMAIN place = 1..size /\ place = [n \in 1..size |-> place[n]]
  BY <1>3
<1>6. ASSUME NEW i \in K
      PROVE  rank(i) \in 1..size /\ place[rank(i)] = i
  <2>1. rank(i) \in 1..size
    BY <1>1
  <2>2. place[rank(i)] \in K /\ rank(place[rank(i)]) = rank(i)
    BY <1>4, <2>1
  <2>3. QED
    BY <1>1, <2>1, <2>2
<1>7. /\ place \in [1..size -> K]
      /\ \A m, n \in 1..size : place[m] = place[n] => m = n
      /\ \A i \in K : \E n \in 1..size : place[n] = i
  <2>1. place \in [1..size -> K]
    BY <1>4, <1>5
  <2>2. ASSUME NEW m \in 1..size, NEW n \in 1..size, place[m] = place[n] PROVE m = n
    <3>1. rank(place[m]) = m /\ rank(place[n]) = n
      BY <1>4
    <3>2. QED
      BY <2>2, <3>1
  <2>3. QED
    BY <1>6, <2>1, <2>2
<1>8. QED
  BY <1>2, <1>7 DEF size

(* Rotation keeps entries of the log at different places, among them every *)
(* entry that waits for its outcome.                                       *)
Picks(out, text, place) ==
    /\ place \in [DOMAIN out -> DOMAIN text]
    /\ \A n \in DOMAIN out : out[n] = text[place[n]]
    /\ \A m, n \in DOMAIN out : place[m] = place[n] => m = n
    /\ \A i \in DOMAIN text : IsPending(text[i]) => \E n \in DOMAIN out : place[n] = i

LEMMA RotatedPicks ==
    ASSUME NEW T, NEW text \in Seq(T)
    PROVE  Rotated(text) \in Seq(T) /\ \E place : Picks(Rotated(text), text, place)
<1> DEFINE droppable(n) == {i \in 1..n : Droppable(text[i])}
           over         == Cardinality(droppable(Len(text))) - MaxEntries
           keep(i)      == ~(Droppable(text[i]) /\ Cardinality(droppable(i)) <= over)
           kept         == {i \in DOMAIN text : keep(i)}
           size         == Cardinality(kept)
           place        == [n \in 1..size |->
                              CHOOSE i \in kept : Cardinality({j \in kept : j <= i}) = n]
           whole        == MaxEntries = 0 \/ Cardinality(droppable(Len(text))) <= MaxEntries
           out          == Rotated(text)
<1>1. CASE whole
  <2>1. out = text
    BY <1>1 DEF Rotated
  <2>2. Picks(text, text, [n \in DOMAIN text |-> n])
    BY DEF Picks
  <2>3. QED
    BY <2>1, <2>2
<1>2. CASE ~whole
  <2>1. out = [n \in 1..size |-> text[CHOOSE i \in kept : Cardinality({j \in kept : j <= i}) = n]]
    BY <1>2 DEF Rotated
  <2>2. out = [n \in 1..size |-> text[place[n]]]
    BY <2>1
  <2>3. Len(text) \in Nat /\ DOMAIN text = 1..Len(text) /\ IsFiniteSet(1..Len(text))
    BY FS_Interval
  <2>4. kept \in SUBSET (DOMAIN text)
    OBVIOUS
  <2>5. \A i \in DOMAIN text : IsPending(text[i]) => i \in kept
    BY DEF Droppable
  <2> HIDE DEF kept
  <2>6. kept \in SUBSET Nat /\ IsFiniteSet(kept)
    BY <2>3, <2>4, FS_Subset
  <2>7. /\ size \in Nat
        /\ place \in [1..size -> kept]
        /\ \A m, n \in 1..size : place[m] = place[n] => m = n
        /\ \A i \in kept : \E n \in 1..size : place[n] = i
    BY <2>6, PicksAreBijective
  <2> HIDE DEF size, place, out
  <2>8. \A n \in 1..size : place[n] \in DOMAIN text /\ text[place[n]] \in T
    BY <2>3, <2>4, <2>7
  <2>9. DOMAIN out = 1..size
    BY <2>2
  <2>10. out \in Seq(T)
    BY <2>2, <2>7, <2>8
  <2>11. Picks(out, text, place)
    BY <2>2, <2>4, <2>5, <2>7, <2>8, <2>9 DEF Picks
  <2>12. QED
    BY <2>10, <2>11 DEF out
<1>3. QED
  BY <1>1, <1>2

-------------------------------------------------------------------------------
(* What the memory log keeps *)

Known(entries, today) ==
    \A i \in DOMAIN entries : entries[i].outcome = "resolved" => entries[i].known <= today

Unrepeated(entries) ==
    \A i, j \in DOMAIN entries :
        /\ IsPending(entries[i]) /\ IsPending(entries[j])
        /\ entries[i].ticker = entries[j].ticker /\ entries[i].date = entries[j].date
        => i = j

Resolves(u, e) == u.ticker = e.ticker /\ u.date = e.date

(* The rewrite of the log keeps its entries but for the pending ones it    *)
(* resolves, on the day of the update, and the resolved ones it drops.     *)
LEMMA OutcomesKeep ==
    ASSUME NEW T, NEW text \in Seq(Entries(T)), NEW updates, \A u \in updates : u.known \in Nat
    PROVE  LET out == WithOutcomes(text, updates)
           IN  /\ out \in Seq(Entries(T))
               /\ \A n \in DOMAIN out : out[n].outcome = "resolved" =>
                     (\E i \in DOMAIN text : text[i] = out[n]) \/ \E u \in updates : u.known = out[n].known
               /\ \A i \in DOMAIN text : IsPending(text[i]) =>
                     (\E n \in DOMAIN out : out[n] = text[i]) \/ \E u \in updates : Resolves(u, text[i])
               /\ Unrepeated(text) => Unrepeated(out)
<1> DEFINE matches(i, u) == IsPending(text[i]) /\ text[i].ticker = u.ticker /\ text[i].date = u.date
           hits(u)       == {i \in DOMAIN text : matches(i, u)}
           first(i, u)   == i \in hits(u) /\ \A j \in hits(u) : i <= j
           update(i)     == {u \in updates : first(i, u)}
           resolution(i) == Entry(text[i].ticker, text[i].date, "resolved",
                                  (CHOOSE u \in update(i) : TRUE).known)
           made          == [i \in DOMAIN text |->
                               IF update(i) = {} THEN text[i] ELSE resolution(i)]
           out           == WithOutcomes(text, updates)
<1>1. out = Rotated(made)
  BY Zenon DEF WithOutcomes
<1>2. ASSUME NEW i \in DOMAIN text, update(i) # {}
      PROVE  \E u \in updates : Resolves(u, text[i]) /\ resolution(i).known = u.known
  <2> DEFINE u == CHOOSE x \in update(i) : TRUE
  <2>1. u \in update(i)
    BY <1>2
  <2>2. u \in updates /\ matches(i, u)
    BY <2>1
  <2>3. resolution(i).known = u.known
    BY DEF Entry
  <2> HIDE DEF u
  <2>4. QED
    BY <2>2, <2>3 DEF Resolves
<1>3. ASSUME NEW i \in DOMAIN text
      PROVE  text[i] \in Entries(T)
  OBVIOUS
<1> HIDE DEF update
<1>4. ASSUME NEW i \in DOMAIN text
      PROVE  /\ made[i] \in Entries(T)
             /\ IsPending(made[i]) => made[i] = text[i]
             /\ IsPending(text[i]) => made[i] = text[i] \/ \E u \in updates : Resolves(u, text[i])
             /\ made[i] = text[i] \/ \E u \in updates : u.known = made[i].known
  <2>1. CASE update(i) = {}
    BY <1>3, <2>1
  <2>2. CASE update(i) # {}
    <3>1. PICK u \in updates : Resolves(u, text[i]) /\ resolution(i).known = u.known
      BY <1>2, <2>2
    <3>2. made[i] = Entry(text[i].ticker, text[i].date, "resolved", u.known)
      BY <2>2, <3>1 DEF Entry
    <3>3. Entry(text[i].ticker, text[i].date, "resolved", u.known) \in Entries(T)
      BY <1>3, <3>1 DEF Entry, Entries, Pending, Legacy
    <3>4. QED
      BY <3>1, <3>2, <3>3 DEF Entry, IsPending, Pending
  <2>3. QED
    BY <2>1, <2>2
<1>5. DOMAIN made = DOMAIN text /\ made \in Seq(Entries(T))
  <2>1. DOMAIN text = 1..Len(text) /\ Len(text) \in Nat
    OBVIOUS
  <2>2. made \in [DOMAIN text -> Entries(T)]
    BY <1>4
  <2> HIDE DEF made
  <2>3. QED
    BY <2>1, <2>2
<1> HIDE DEF made, out
<1>6. PICK place : out \in Seq(Entries(T)) /\ Picks(out, made, place)
  BY <1>1, <1>5, RotatedPicks
<1>7. ASSUME NEW n \in DOMAIN out
      PROVE  place[n] \in DOMAIN text /\ out[n] = made[place[n]]
  BY <1>5, <1>6 DEF Picks
<1>8. ASSUME NEW n \in DOMAIN out, out[n].outcome = "resolved"
      PROVE  (\E i \in DOMAIN text : text[i] = out[n]) \/ \E u \in updates : u.known = out[n].known
  BY <1>4, <1>7
<1>9. ASSUME NEW i \in DOMAIN text, IsPending(text[i])
      PROVE  (\E n \in DOMAIN out : out[n] = text[i]) \/ \E u \in updates : Resolves(u, text[i])
  <2>1. CASE made[i] = text[i]
    <3>1. PICK n \in DOMAIN out : place[n] = i
      BY <1>5, <1>6, <1>9, <2>1 DEF Picks
    <3>2. QED
      BY <1>7, <2>1, <3>1
  <2>2. QED
    BY <1>4, <1>9, <2>1
<1>10. ASSUME Unrepeated(text), NEW m \in DOMAIN out, NEW n \in DOMAIN out,
              IsPending(out[m]), IsPending(out[n]),
              out[m].ticker = out[n].ticker, out[m].date = out[n].date
       PROVE  m = n
  <2>1. /\ place[m] \in DOMAIN text /\ out[m] = text[place[m]]
        /\ place[n] \in DOMAIN text /\ out[n] = text[place[n]]
    BY <1>4, <1>7, <1>10
  <2>2. place[m] = place[n]
    BY <1>10, <2>1 DEF Unrepeated
  <2>3. QED
    BY <1>6, <2>2 DEF Picks
<1>11. Unrepeated(text) => Unrepeated(out)
  BY <1>10 DEF Unrepeated
<1>12. QED
  BY <1>6, <1>8, <1>9, <1>11 DEF out

(* Appending a decision nobody waits for. *)
LEMMA StoredKeeps ==
    ASSUME NEW T, NEW entries \in Seq(Entries(T)), NEW ticker \in T, NEW date \in Nat
    PROVE  LET out == Stored(entries, ticker, date)
           IN  /\ out \in Seq(Entries(T))
               /\ \A today \in Nat : Known(entries, today) => Known(out, today)
               /\ \A i \in DOMAIN entries : i \in DOMAIN out /\ out[i] = entries[i]
               /\ Unrepeated(entries) /\ ~HasPending(entries, ticker, date) => Unrepeated(out)
<1> DEFINE new == Entry(ticker, date, Pending, 0)
           out == Stored(entries, ticker, date)
<1>1. new \in Entries(T) /\ new.outcome # "resolved" /\ new.ticker = ticker /\ new.date = date
  BY DEF Entry, Entries, Pending
<1>2. out = Append(entries, new)
  BY DEF Stored
<1> HIDE DEF new, out
<1>3. out \in Seq(Entries(T)) /\ DOMAIN out = 1..Len(entries) + 1 /\ DOMAIN entries = 1..Len(entries)
      /\ Len(entries) \in Nat
  BY <1>1, <1>2
<1>4. /\ \A i \in DOMAIN entries : out[i] = entries[i]
      /\ out[Len(entries) + 1] = new
  BY <1>1, <1>2, <1>3
<1>5. ASSUME NEW today \in Nat, Known(entries, today) PROVE Known(out, today)
  BY <1>1, <1>3, <1>4, <1>5 DEF Known
<1>6. ASSUME Unrepeated(entries), ~HasPending(entries, ticker, date) PROVE Unrepeated(out)
  <2>1. ASSUME NEW i \in DOMAIN entries, IsPending(entries[i])
        PROVE  entries[i].ticker # ticker \/ entries[i].date # date
    BY <1>6, <2>1 DEF HasPending, PendingFor, Range
  <2>2. SUFFICES ASSUME NEW i \in DOMAIN out, NEW j \in DOMAIN out,
                        IsPending(out[i]), IsPending(out[j]),
                        out[i].ticker = out[j].ticker, out[i].date = out[j].date
                 PROVE  i = j
    BY DEF Unrepeated
  <2>3. CASE i \in DOMAIN entries /\ j \in DOMAIN entries
    BY <1>4, <1>6, <2>2, <2>3 DEF Unrepeated
  <2>4. CASE i \notin DOMAIN entries /\ j \notin DOMAIN entries
    BY <1>3, <2>4
  <2>5. CASE i \in DOMAIN entries /\ j \notin DOMAIN entries
    <3>1. out[j] = new /\ out[i] = entries[i]
      BY <1>3, <1>4, <2>5
    <3>2. QED
      BY <1>1, <2>1, <2>2, <2>5, <3>1
  <2>6. CASE i \notin DOMAIN entries /\ j \in DOMAIN entries
    <3>1. out[i] = new /\ out[j] = entries[j]
      BY <1>3, <1>4, <2>6
    <3>2. QED
      BY <1>1, <2>1, <2>2, <2>6, <3>1
  <2>7. QED
    BY <2>3, <2>4, <2>5, <2>6
<1>7. QED
  BY <1>3, <1>4, <1>5, <1>6 DEF out

-------------------------------------------------------------------------------
(* The state of a graph *)

USE RunsAssumption, StaleAssumption

GraphFields ==
    {"node", "users", "context", "late", "reports", "bull", "bear", "last", "plan",
     "trade", "agg", "con", "neu", "spoke", "decided"}

Kept(s) == {s.analysts[i] : i \in DOMAIN s.analysts}

Analysing == {"agent", "tools", "clear"}

(* How far the debate of the researchers is at each node. *)
Debated(g, s) ==
    \/ g.node.kind \in Analysing /\ g.bull = 0 /\ g.bear = 0 /\ ~g.plan
    \/ g.node.kind = "bull" /\ g.bull = g.bear /\ g.bear < s.debate /\ ~g.plan
    \/ g.node.kind = "bear" /\ g.bull = g.bear + 1 /\ g.bear < s.debate /\ ~g.plan
    \/ g.node.kind = "research" /\ g.bull = s.debate /\ g.bear = s.debate /\ ~g.plan
    \/ /\ g.node.kind \in {"trader", "agg", "con", "neu", "manager", "end"}
       /\ g.bull = s.debate /\ g.bear = s.debate

(* How far the risk analysts are. *)
Assessed(g, s) ==
    \/ /\ g.node.kind \in Analysing \cup {"bull", "bear", "research", "trader"}
       /\ g.agg = 0 /\ g.con = 0 /\ g.neu = 0 /\ ~g.decided
    \/ g.node.kind = "agg" /\ g.agg = g.neu /\ g.con = g.neu /\ g.neu < s.risk /\ ~g.decided
    \/ g.node.kind = "con" /\ g.agg = g.neu + 1 /\ g.con = g.neu /\ g.neu < s.risk /\ ~g.decided
    \/ g.node.kind = "neu" /\ g.agg = g.neu + 1 /\ g.con = g.neu + 1 /\ g.neu < s.risk /\ ~g.decided
    \/ g.node.kind = "manager" /\ g.agg = s.risk /\ g.con = s.risk /\ g.neu = s.risk /\ ~g.decided
    \/ g.node.kind = "end" /\ g.agg = s.risk /\ g.con = s.risk /\ g.neu = s.risk

Asked(g, s) ==
    /\ DOMAIN g = GraphFields
    /\ g.users = 1
    /\ g.reports \subseteq Kept(s)
    /\ g.node.kind \in Analysing => g.node.i \in DOMAIN s.analysts
    /\ g.bull \in Nat /\ g.bear \in Nat /\ g.agg \in Nat /\ g.con \in Nat /\ g.neu \in Nat
    /\ Debated(g, s) /\ Assessed(g, s)

Excepted == Undated \cup {"ahead"}

Ignorant(g, date) ==
    /\ \A e \in g.context : e.outcome = "resolved" => e.known <= date
    /\ g.late \subseteq Excepted

-------------------------------------------------------------------------------
(* The nodes keep a graph the one that was asked for *)

LEMMA FreshIsAsked ==
    ASSUME NEW s \in Shapes, NEW context, NEW late PROVE Asked(Fresh(context, late), s)
BY DEF Fresh, Node, Asked, GraphFields, Debated, Assessed, Analysing

LEMMA AnalysedIsAsked ==
    ASSUME NEW s \in Shapes, NEW g, Asked(g, s), g.node.kind = "agent", NEW answer
    PROVE  Asked(Analysed(g, s, answer), s)
BY DEF Analysed, Node, Asked, GraphFields, Kept, Debated, Assessed, Analysing

LEMMA ToolsDoneIsAsked ==
    ASSUME NEW s \in Shapes, NEW g, Asked(g, s), g.node.kind = "tools", NEW late
    PROVE  Asked(ToolsDone(g, late), s)
BY DEF ToolsDone, Node, Asked, GraphFields, Debated, Assessed, Analysing

LEMMA ClearedIsAsked ==
    ASSUME NEW s \in Shapes, NEW g, Asked(g, s), g.node.kind = "clear"
    PROVE  Asked(Cleared(g, s), s)
BY DEF Cleared, Node, Asked, GraphFields, Debated, Assessed, Analysing

LEMMA ArguedIsAsked ==
    ASSUME NEW s \in Shapes, NEW g, Asked(g, s), g.node.kind \in {"bull", "bear"}
    PROVE  Asked(Argued(g, s), s)
<1>1. CASE g.node.kind = "bull"
  BY <1>1 DEF Argued, AfterDebate, Node, Asked, GraphFields, Debated, Assessed, Analysing
<1>2. CASE g.node.kind = "bear"
  BY <1>2 DEF Argued, AfterDebate, Node, Asked, GraphFields, Debated, Assessed, Analysing
<1>3. QED
  BY <1>1, <1>2

LEMMA PlannedIsAsked ==
    ASSUME NEW s \in Shapes, NEW g, Asked(g, s), g.node.kind = "research"
    PROVE  Asked(Planned(g), s)
BY DEF Planned, Node, Asked, GraphFields, Debated, Assessed, Analysing

LEMMA ProposedIsAsked ==
    ASSUME NEW s \in Shapes, NEW g, Asked(g, s), g.node.kind = "trader"
    PROVE  Asked(Proposed(g), s)
BY DEF Proposed, Node, Asked, GraphFields, Debated, Assessed, Analysing

LEMMA WeighedIsAsked ==
    ASSUME NEW s \in Shapes, NEW g, Asked(g, s), g.node.kind \in RiskTeam
    PROVE  Asked(Weighed(g, s), s)
<1>1. CASE g.node.kind = "agg"
  BY <1>1 DEF Weighed, AfterRisk, Node, Asked, GraphFields, Debated, Assessed, Analysing
<1>2. CASE g.node.kind = "con"
  BY <1>2 DEF Weighed, AfterRisk, Node, Asked, GraphFields, Debated, Assessed, Analysing
<1>3. CASE g.node.kind = "neu"
  BY <1>3 DEF Weighed, AfterRisk, Node, Asked, GraphFields, Debated, Assessed, Analysing
<1>4. QED
  BY <1>1, <1>2, <1>3 DEF RiskTeam

LEMMA DecidedIsAsked ==
    ASSUME NEW s \in Shapes, NEW g, Asked(g, s), g.node.kind = "manager"
    PROVE  Asked(Decided(g), s)
BY DEF Decided, End, Node, Asked, GraphFields, Debated, Assessed, Analysing

-------------------------------------------------------------------------------
(* What a run is shown *)

LEMMA MinOfTwo ==
    ASSUME NEW a \in Int, NEW b \in Int
    PROVE  Min({a, b}) \in Int /\ Min({a, b}) <= a
<1>1. \E x \in {a, b} : \A y \in {a, b} : x <= y
  <2>1. CASE a <= b
    BY <2>1
  <2>2. CASE b < a
    BY <2>2
  <2>3. QED
    BY <2>1, <2>2
<1>2. Min({a, b}) \in {a, b} /\ \A y \in {a, b} : Min({a, b}) <= y
  BY <1>1, Zenon DEF Min
<1>3. QED
  BY <1>2

LEMMA SeriesDays ==
    ASSUME NEW newest \in Nat, NEW asked \in Nat, NEW date \in Nat, asked <= date,
           NEW d \in Series(newest, asked)
    PROVE  d \in Nat /\ d <= date
BY DEF Series

(* A call for a day up to the trade date shows nothing of after it, unless *)
(* its vendor does not date what it shows.                                 *)
LEMMA ShowsInTime ==
    ASSUME NEW key \in DOMAIN ToolsOf, NEW date \in Nat, NEW today \in Nat, date <= today,
           NEW call \in Calls(key, today), call.asked <= date, call.tool \notin Undated,
           NEW d \in Shows(call, today)
    PROVE  d <= date
<1>1. /\ call.asked \in 0..date /\ call.newest \in 0..today
      /\ call.tool \in {"stock_data", "indicators", "snapshot", "news", "global_news",
                        "insiders", "macro", "odds", "profile", "statements"}
  BY DEF Calls, ToolsOf
<1>2. CASE call.tool = "snapshot"
  <2>1. d \in Series(call.newest, call.asked)
    BY <1>2 DEF Shows, Snapshot
  <2>2. QED
    BY <1>1, <2>1, SeriesDays
<1>3. CASE call.tool = "macro"
  <2>0. call.asked \in Int /\ today \in Int
    BY <1>1
  <2>1. Min({call.asked, today}) \in Int /\ Min({call.asked, today}) <= call.asked
    BY <2>0, MinOfTwo, Zenon
  <2>2. d \in 0..Min({call.asked, today})
    BY <1>3 DEF Shows, Macro
  <2>3. QED
    BY <1>1, <2>1, <2>2
<1>4. CASE call.tool = "stock_data"
  BY <1>1, <1>4 DEF Shows, YFinance, AlphaVantage, History, Trimmed
<1>5. CASE call.tool = "indicators"
  BY <1>1, <1>5 DEF Shows, YFinance, AlphaVantage, Indicator, Series, AlphaIndicator
<1>6. CASE call.tool = "news"
  BY <1>1, <1>6 DEF Shows, YFinance, AlphaVantage, CompanyNews, AlphaNews, Items, InWindow
<1>7. CASE call.tool = "global_news"
  BY <1>1, <1>7 DEF Shows, YFinance, AlphaVantage, GlobalNews, AlphaNews, Items, InWindow
<1>8. CASE call.tool = "profile"
  BY <1>1, <1>8 DEF Shows, YFinance, AlphaVantage, Profile, AlphaProfile, Withheld
<1>9. QED
  BY <1>1, <1>2, <1>3, <1>4, <1>5, <1>6, <1>7, <1>8 DEF Undated

LEMMA ShowsDays ==
    ASSUME NEW key \in DOMAIN ToolsOf, NEW date \in Nat, NEW today \in Nat, date <= today,
           NEW call \in Calls(key, today), call.asked <= date, call.tool \notin Undated,
           NEW d \in Shows(call, today)
    PROVE  d \in Nat
<1>1. /\ call.asked \in 0..date /\ call.newest \in 0..today
      /\ call.tool \in {"stock_data", "indicators", "snapshot", "news", "global_news",
                        "insiders", "macro", "odds", "profile", "statements"}
  BY DEF Calls, ToolsOf
<1>2. CASE call.tool \in {"snapshot", "macro"}
  BY <1>1, <1>2 DEF Shows, Snapshot, Series, Macro
<1>3. CASE call.tool \in {"stock_data", "indicators"}
  BY <1>1, <1>3 DEF Shows, YFinance, AlphaVantage, History, Trimmed, Indicator, AlphaIndicator
<1>4. CASE call.tool \in {"news", "global_news"}
  BY <1>1, <1>4 DEF Shows, YFinance, AlphaVantage, CompanyNews, GlobalNews, AlphaNews, Items
<1>5. CASE call.tool = "profile"
  BY <1>1, <1>5 DEF Shows, YFinance, AlphaVantage, Profile, AlphaProfile
<1>6. QED
  BY <1>1, <1>2, <1>3, <1>4, <1>5 DEF Undated

(* So does what the sentiment analyst is given. *)
LEMMA SentimentInTime ==
    ASSUME NEW date \in Nat, NEW today \in Nat, date <= today, NEW fetched \in BOOLEAN,
           NEW d \in CompanyNews(date, today) \cup Messages(date, today)
                       \cup RedditPosts(date, today, fetched)
    PROVE  d <= date
BY DEF CompanyNews, Messages, RedditPosts, Items, InWindow

(* The lessons a run is given were learnt by its trade date: the run of a  *)
(* past day filters them, and by today everything in the log is known.     *)
LEMMA ContextInTime ==
    ASSUME NEW T, NEW entries \in Seq(Entries(T)), NEW ticker, NEW date \in Nat,
           day \in Nat, date <= day, Known(entries, day),
           NEW e \in PastContext(entries, ticker, MemoryAsOf(date), date),
           e.outcome = "resolved"
    PROVE  e.known <= date
<1>1. PICK i \in DOMAIN entries : e = entries[i] /\ (MemoryAsOf(date) => KnownBy(entries[i], date))
  BY DEF PastContext, Newest
<1>2. CASE date < day
  BY <1>1, <1>2 DEF MemoryAsOf, KnownBy
<1>3. CASE date = day
  BY <1>1, <1>3 DEF Known
<1>4. QED
  BY <1>2, <1>3

-------------------------------------------------------------------------------
(* The invariant of the runs *)

Tickers == {r.ticker : r \in Requests} \cup {e.ticker : e \in Range(FirstLog)}

ProcFields == {"pc", "req", "date", "updates", "text", "g", "left", "board"}

InGraph == {"run", "store", "append", "clear"}

(* One process: what it holds of the log, and the graph it runs. *)
Orderly(r, today) ==
    /\ DOMAIN r = ProcFields
    /\ \A u \in r.updates : u.known \in Nat /\ u.known <= today
    /\ r.text \in Seq(Entries(Tickers)) /\ Known(r.text, today)
    /\ r.pc # "idle" => r.req \in Requests /\ r.date \in Nat /\ r.date <= today
    /\ r.pc \in InGraph => Asked(r.g, r.req.shape) /\ Ignorant(r.g, r.date)

LogSound == day \in Nat /\ log \in Seq(Entries(Tickers)) /\ Known(log, day)

ProcsSound == DOMAIN proc = Procs /\ \A p \in Procs : Orderly(proc[p], day)

(* A checkpoint is a graph of the request its thread is named after. *)
SavedSound ==
    \A r \in Requests, d \in Nat :
        LET t == Thread(r.ticker, d, r.shape)
        IN  t \in DOMAIN saved => Asked(saved[t], r.shape) /\ Ignorant(saved[t], d)

RunsSound == LogSound /\ ProcsSound /\ SavedSound

(* The name of a thread tells all that shapes its graph. *)
LEMMA AskedByThread ==
    ASSUME NEW r \in Requests, NEW d, NEW q \in Requests, NEW e, NEW g,
           Thread(r.ticker, d, r.shape) = Thread(q.ticker, e, q.shape),
           Asked(g, q.shape), Ignorant(g, e)
    PROVE  Asked(g, r.shape) /\ Ignorant(g, d)
<1>1. /\ d = e /\ r.shape.analysts = q.shape.analysts
      /\ r.shape.debate = q.shape.debate /\ r.shape.risk = q.shape.risk
  BY DEF Thread, Signature
<1>2. QED
  BY <1>1 DEF Asked, Kept, Debated, Assessed

LEMMA IdleIsOrderly == ASSUME day \in Nat PROVE Orderly(Idle, day)
BY DEF Idle, Orderly, ProcFields, InGraph, Known

LEMMA InitRunsSound == ASSUME Init PROVE RunsSound
<1>1. LogSound
  <2>1. FirstLog \in Seq(Entries(Tickers))
    <3>1. Entries({e.ticker : e \in Range(FirstLog)}) \subseteq Entries(Tickers)
      BY DEF Entries, Tickers
    <3>2. QED
      BY <3>1, LogAssumption
  <2>2. Known(FirstLog, 0)
    BY LogAssumption DEF Known, Range
  <2>3. QED
    BY <2>1, <2>2 DEF Init, LogSound
<1>2. ProcsSound
  BY IdleIsOrderly DEF Init, ProcsSound
<1>3. SavedSound
  BY DEF Init, SavedSound
<1>4. QED
  BY <1>1, <1>2, <1>3 DEF RunsSound

(* A step that changes one process, and leaves it orderly. *)
LEMMA OneProcSound ==
    ASSUME ProcsSound, UNCHANGED day, NEW p \in Procs, NEW r, Orderly(r, day),
           proc' = [proc EXCEPT ![p] = r]
    PROVE  ProcsSound'
BY DEF ProcsSound

LEMMA SavesSound ==
    ASSUME RunsSound, NEW p \in Procs, proc[p].pc # "idle", NEW g,
           Asked(g, proc[p].req.shape), Ignorant(g, proc[p].date), Saved(p, g)
    PROVE  SavedSound'
<1>1. proc[p].req \in Requests
  BY DEF RunsSound, ProcsSound, Orderly
<1>2. SUFFICES ASSUME NEW r \in Requests, NEW d \in Nat,
                      Thread(r.ticker, d, r.shape) \in DOMAIN saved'
               PROVE  LET t == Thread(r.ticker, d, r.shape)
                      IN  Asked(saved'[t], r.shape) /\ Ignorant(saved'[t], d)
  BY DEF SavedSound
<1> DEFINE t == Thread(r.ticker, d, r.shape)
<1>3. CASE t = Mine(p) /\ saved'[t] = g
  BY <1>1, <1>3, AskedByThread DEF Mine
<1>4. CASE t \in DOMAIN saved /\ saved'[t] = saved[t]
  BY <1>4 DEF RunsSound, SavedSound
<1>5. QED
  BY <1>2, <1>3, <1>4, Zenon DEF Saved

(* A step of the graph. *)
LEMMA RanSound ==
    ASSUME RunsSound, NEW p \in Procs, proc[p].pc = "run", NEW g, Ran(p, g),
           Asked(g, proc[p].req.shape), Ignorant(g, proc[p].date)
    PROVE  RunsSound'
<1> DEFINE r == proc'[p]
<1>1. Orderly(proc[p], day) /\ DOMAIN proc = Procs
  BY DEF RunsSound, ProcsSound
<1>2. /\ proc' = [proc EXCEPT ![p] = proc'[p]]
      /\ DOMAIN r = ProcFields /\ r.pc = "run" /\ r.g = g
      /\ r.req = proc[p].req /\ r.date = proc[p].date
      /\ r.updates = proc[p].updates /\ r.text = proc[p].text
  BY <1>1 DEF Ran, Orderly, ProcFields
<1> HIDE DEF r
<1>3. Orderly(r, day)
  BY <1>1, <1>2 DEF Orderly
<1>4. UNCHANGED <<day, log>> /\ Saved(p, g)
  BY DEF Ran
<1>5. ProcsSound'
  BY <1>2, <1>3, <1>4, OneProcSound DEF RunsSound, r
<1>6. SavedSound'
  BY <1>4, SavesSound
<1>7. LogSound'
  BY <1>4 DEF RunsSound, LogSound
<1>8. QED
  BY <1>5, <1>6, <1>7 DEF RunsSound

LEMMA ProcAtNode ==
    ASSUME RunsSound, NEW p \in Procs, NEW kinds, At(p, kinds)
    PROVE  /\ proc[p].pc = "run" /\ proc[p].g.node.kind \in kinds
           /\ proc[p].req \in Requests /\ proc[p].req.shape \in Shapes
           /\ Asked(proc[p].g, proc[p].req.shape) /\ Ignorant(proc[p].g, proc[p].date)
           /\ day \in Nat /\ proc[p].date \in Nat /\ proc[p].date <= day
BY DEF At, RunsSound, LogSound, ProcsSound, Orderly, InGraph, Shapes

(* What the nodes do not touch. *)
LEMMA SameLessons ==
    ASSUME NEW g, NEW s, NEW date, Ignorant(g, date), DOMAIN g = GraphFields
    PROVE  /\ \A answer : Ignorant(Analysed(g, s, answer), date)
           /\ \A late : late \subseteq Excepted => Ignorant(ToolsDone(g, late), date)
           /\ Ignorant(Cleared(g, s), date)
           /\ g.node.kind \in {"bull", "bear"} => Ignorant(Argued(g, s), date)
           /\ Ignorant(Planned(g), date)
           /\ Ignorant(Proposed(g), date)
           /\ g.node.kind \in RiskTeam => Ignorant(Weighed(g, s), date)
           /\ Ignorant(Decided(g), date)
<1>1. \A answer : Ignorant(Analysed(g, s, answer), date)
  BY DEF Analysed, Ignorant, GraphFields
<1>2. \A late : late \subseteq Excepted => Ignorant(ToolsDone(g, late), date)
  BY DEF ToolsDone, Ignorant, GraphFields
<1>3. Ignorant(Cleared(g, s), date)
  BY DEF Cleared, Ignorant, GraphFields
<1>4. g.node.kind \in {"bull", "bear"} => Ignorant(Argued(g, s), date)
  BY DEF Argued, Ignorant, GraphFields
<1>5. Ignorant(Planned(g), date) /\ Ignorant(Proposed(g), date) /\ Ignorant(Decided(g), date)
  BY DEF Planned, Proposed, Decided, Ignorant, GraphFields
<1>6. g.node.kind \in RiskTeam => Ignorant(Weighed(g, s), date)
  BY DEF Weighed, RiskTeam, Ignorant, GraphFields
<1>7. QED
  BY <1>1, <1>2, <1>3, <1>4, <1>5, <1>6

LEMMA SentimentSound ==
    ASSUME RunsSound, NEW p \in Procs, SentimentAnalyst(p)
    PROVE  RunsSound'
<1> DEFINE g == proc[p].g
           s == proc[p].req.shape
           date == proc[p].date
<1>1. /\ proc[p].pc = "run" /\ g.node.kind = "agent" /\ s \in Shapes
      /\ Asked(g, s) /\ Ignorant(g, date) /\ day \in Nat /\ date \in Nat /\ date <= day
  BY ProcAtNode DEF SentimentAnalyst
<1>2. PICK answer \in {"report", "empty"}, fetched \in BOOLEAN :
        Ran(p, [Analysed(g, s, answer) EXCEPT
                  !.late = @ \cup Late(p, "news", CompanyNews(date, day))
                             \cup Late(p, "messages", Messages(date, day))
                             \cup Late(p, "posts", RedditPosts(date, day, fetched))])
  BY DEF SentimentAnalyst
<1>3. /\ Late(p, "news", CompanyNews(date, day)) = {}
      /\ Late(p, "messages", Messages(date, day)) = {}
      /\ Late(p, "posts", RedditPosts(date, day, fetched)) = {}
  <2>1. ASSUME NEW d \in CompanyNews(date, day) \cup Messages(date, day)
                            \cup RedditPosts(date, day, fetched)
        PROVE  ~(d > date)
    <3>1. d <= date
      BY <1>1, SentimentInTime
    <3>2. d \in Nat
      BY <1>1 DEF CompanyNews, Messages, RedditPosts, Items
    <3>3. QED
      BY <1>1, <3>1, <3>2
  <2>2. QED
    BY <2>1 DEF Late
<1> DEFINE a == Analysed(g, s, answer)
           b == [a EXCEPT !.late = @ \cup Late(p, "news", CompanyNews(date, day))
                             \cup Late(p, "messages", Messages(date, day))
                             \cup Late(p, "posts", RedditPosts(date, day, fetched))]
<1>4. Asked(a, s) /\ Ignorant(a, date)
  BY <1>1, AnalysedIsAsked, SameLessons DEF Asked
<1> HIDE DEF a
<1>5. b = [a EXCEPT !.late = @ \cup {}]
  BY <1>3
<1>6. Asked(b, s) /\ Ignorant(b, date)
  BY <1>4, <1>5 DEF Asked, Ignorant, GraphFields, Kept, Debated, Assessed, Analysing
<1>7. Ran(p, b)
  BY <1>2 DEF a
<1> HIDE DEF b
<1>8. QED
  BY <1>1, <1>6, <1>7, RanSound

LEMMA ToolsSound ==
    ASSUME RunsSound, NEW p \in Procs, Tools(p)
    PROVE  RunsSound'
<1> DEFINE g == proc[p].g
           s == proc[p].req.shape
           date == proc[p].date
<1>1. /\ proc[p].pc = "run" /\ g.node.kind = "tools" /\ s \in Shapes
      /\ Asked(g, s) /\ Ignorant(g, date) /\ day \in Nat /\ date \in Nat /\ date <= day
  BY ProcAtNode DEF Tools
<1>2. PICK call \in Calls(Key(p), day), outcomes \in [1..Chain -> VendorOutcomes] :
        Ran(p, ToolsDone(g, IF Result(call.tool, outcomes) = "data"
                              THEN Late(p, Source(p, call), Shows(call, day)) ELSE {}))
  BY DEF Tools
<1> DEFINE late == IF Result(call.tool, outcomes) = "data"
                     THEN Late(p, Source(p, call), Shows(call, day)) ELSE {}
<1>3. Key(p) \in DOMAIN ToolsOf
  <2>1. g.node.i \in DOMAIN s.analysts /\ s.analysts \in Seq(DOMAIN ToolsOf)
    BY <1>1 DEF Asked, Analysing
  <2>2. QED
    BY <2>1 DEF Key
<1>4. late \subseteq Excepted
  <2>1. CASE Source(p, call) \in Excepted
    BY <2>1 DEF Late
  <2>2. CASE Source(p, call) \notin Excepted
    <3> /\ Source(p, call) = call.tool /\ call.tool \notin Undated
        /\ call.asked \in Nat /\ call.asked <= date
      BY <1>1, <2>2 DEF Source, Excepted, Calls
    <3>1. ASSUME NEW d \in Shows(call, day) PROVE ~(d > date)
      <4>1. d <= date
        BY <1>1, <1>3, <2>2, ShowsInTime
      <4>2. d \in Nat
        BY <1>1, <1>3, <2>2, ShowsDays
      <4>3. QED
        BY <1>1, <4>1, <4>2
    <3>2. QED
      BY <3>1 DEF Late
  <2>3. QED
    BY <2>1, <2>2
<1>7. Ran(p, ToolsDone(g, late))
  BY <1>2
<1> HIDE DEF late
<1>5. Asked(ToolsDone(g, late), s) /\ Ignorant(ToolsDone(g, late), date)
  BY <1>1, <1>4, ToolsDoneIsAsked, SameLessons DEF Asked
<1>6. QED
  BY <1>1, <1>5, <1>7, RanSound

LEMMA NodesSound ==
    ASSUME RunsSound, NEW p \in Procs,
           \/ Analyst(p) \/ Clear(p) \/ Bull(p) \/ Bear(p) \/ Research(p) \/ Trade(p)
           \/ Aggressive(p) \/ Conservative(p) \/ Neutral(p) \/ Manage(p)
    PROVE  RunsSound'
<1> DEFINE g == proc[p].g
           s == proc[p].req.shape
           date == proc[p].date
<1>1. ASSUME NEW kinds, At(p, kinds)
      PROVE  /\ proc[p].pc = "run" /\ g.node.kind \in kinds /\ s \in Shapes
             /\ Asked(g, s) /\ Ignorant(g, date) /\ DOMAIN g = GraphFields
  BY <1>1, ProcAtNode DEF Asked
<1>2. CASE Analyst(p)
  <2>1. PICK answer : Ran(p, Analysed(g, s, answer))
    BY <1>2 DEF Analyst
  <2>2. At(p, {"agent"})
    BY <1>2 DEF Analyst
  <2>3. /\ proc[p].pc = "run" /\ g.node.kind \in {"agent"} /\ s \in Shapes
        /\ Asked(g, s) /\ Ignorant(g, date) /\ DOMAIN g = GraphFields
    BY <1>1, <2>2
  <2>4. Asked(Analysed(g, s, answer), s)
    BY <2>3, AnalysedIsAsked
  <2>5. Ignorant(Analysed(g, s, answer), date)
    BY <2>3, SameLessons
  <2>6. QED
    BY <2>1, <2>3, <2>4, <2>5, RanSound
<1>3. CASE Clear(p)
  <2>1. At(p, {"clear"}) /\ Ran(p, Cleared(g, s))
    BY <1>3 DEF Clear
  <2>2. /\ proc[p].pc = "run" /\ g.node.kind \in {"clear"} /\ s \in Shapes
        /\ Asked(g, s) /\ Ignorant(g, date) /\ DOMAIN g = GraphFields
    BY <1>1, <2>1
  <2>3. Asked(Cleared(g, s), s)
    BY <2>2, ClearedIsAsked
  <2>4. Ignorant(Cleared(g, s), date)
    BY <2>2, SameLessons
  <2>5. QED
    BY <2>1, <2>2, <2>3, <2>4, RanSound
<1>4. CASE Bull(p) \/ Bear(p)
  <2>1. Ran(p, Argued(g, s)) /\ \E kind \in {"bull", "bear"} : At(p, {kind})
    BY <1>4 DEF Bull, Bear
  <2>2. /\ proc[p].pc = "run" /\ g.node.kind \in {"bull", "bear"} /\ s \in Shapes
        /\ Asked(g, s) /\ Ignorant(g, date) /\ DOMAIN g = GraphFields
    BY <1>1, <2>1
  <2>3. Asked(Argued(g, s), s)
    BY <2>2, ArguedIsAsked
  <2>4. Ignorant(Argued(g, s), date)
    BY <2>2, SameLessons
  <2>5. QED
    BY <2>1, <2>2, <2>3, <2>4, RanSound
<1>5. CASE Research(p)
  <2>1. At(p, {"research"}) /\ Ran(p, Planned(g))
    BY <1>5 DEF Research
  <2>2. /\ proc[p].pc = "run" /\ g.node.kind \in {"research"} /\ s \in Shapes
        /\ Asked(g, s) /\ Ignorant(g, date) /\ DOMAIN g = GraphFields
    BY <1>1, <2>1
  <2>3. Asked(Planned(g), s)
    BY <2>2, PlannedIsAsked
  <2>4. Ignorant(Planned(g), date)
    BY <2>2, SameLessons
  <2>5. QED
    BY <2>1, <2>2, <2>3, <2>4, RanSound
<1>6. CASE Trade(p)
  <2>1. At(p, {"trader"}) /\ Ran(p, Proposed(g))
    BY <1>6 DEF Trade
  <2>2. /\ proc[p].pc = "run" /\ g.node.kind \in {"trader"} /\ s \in Shapes
        /\ Asked(g, s) /\ Ignorant(g, date) /\ DOMAIN g = GraphFields
    BY <1>1, <2>1
  <2>3. Asked(Proposed(g), s)
    BY <2>2, ProposedIsAsked
  <2>4. Ignorant(Proposed(g), date)
    BY <2>2, SameLessons
  <2>5. QED
    BY <2>1, <2>2, <2>3, <2>4, RanSound
<1>7. CASE Aggressive(p) \/ Conservative(p) \/ Neutral(p)
  <2>1. Ran(p, Weighed(g, s)) /\ \E kind \in RiskTeam : At(p, {kind})
    BY <1>7 DEF Aggressive, Conservative, Neutral, RiskTeam
  <2>2. /\ proc[p].pc = "run" /\ g.node.kind \in RiskTeam /\ s \in Shapes
        /\ Asked(g, s) /\ Ignorant(g, date) /\ DOMAIN g = GraphFields
    BY <1>1, <2>1
  <2>3. Asked(Weighed(g, s), s)
    BY <2>2, WeighedIsAsked
  <2>4. Ignorant(Weighed(g, s), date)
    BY <2>2, SameLessons
  <2>5. QED
    BY <2>1, <2>2, <2>3, <2>4, RanSound
<1>8. CASE Manage(p)
  <2>1. At(p, {"manager"}) /\ Ran(p, Decided(g))
    BY <1>8 DEF Manage
  <2>2. /\ proc[p].pc = "run" /\ g.node.kind \in {"manager"} /\ s \in Shapes
        /\ Asked(g, s) /\ Ignorant(g, date) /\ DOMAIN g = GraphFields
    BY <1>1, <2>1
  <2>3. Asked(Decided(g), s)
    BY <2>2, DecidedIsAsked
  <2>4. Ignorant(Decided(g), date)
    BY <2>2, SameLessons
  <2>5. QED
    BY <2>1, <2>2, <2>3, <2>4, RanSound
<1>9. QED
  BY <1>2, <1>3, <1>4, <1>5, <1>6, <1>7, <1>8

(* A process that begins a run. *)
LEMMA IdleWith ==
    ASSUME NEW req, NEW date, NEW pc, NEW updates
    PROVE  LET r == [Idle EXCEPT !.req = req, !.date = date, !.pc = pc, !.updates = updates]
           IN  /\ DOMAIN r = ProcFields /\ r.pc = pc /\ r.req = req /\ r.date = date
               /\ r.updates = updates /\ r.text = <<>>
BY DEF Idle, ProcFields

(* The other steps of a process: before and after the graph. *)
LEMMA StartSound ==
    ASSUME RunsSound, NEW p \in Procs, Start(p)
    PROVE  RunsSound'
<1> DEFINE Made(fetched) ==
             {[ticker |-> e.ticker, date |-> e.date, known |-> e.date + Holding] : e \in fetched}
           Begun(req, date, fetched) ==
             [Idle EXCEPT !.req = req, !.date = date,
                !.pc = IF fetched = {} THEN "begin" ELSE "read", !.updates = Made(fetched)]
<1>1. \E req \in Requests, date \in 0..day :
        \E fetched \in SUBSET {e \in PendingFor(log, req.ticker) : Settled(e)} :
          proc' = [proc EXCEPT ![p] = Begun(req, date, fetched)]
  BY Zenon DEF Start
<1>2. SUFFICES ASSUME NEW req \in Requests, NEW date \in 0..day,
                      NEW fetched \in SUBSET {e \in PendingFor(log, req.ticker) : Settled(e)},
                      proc' = [proc EXCEPT ![p] = Begun(req, date, fetched)]
               PROVE  RunsSound'
  BY <1>1, Zenon
<1> DEFINE made == Made(fetched)
           r == Begun(req, date, fetched)
<1>3. day \in Nat /\ date \in Nat /\ date <= day /\ UNCHANGED <<day, log, saved>>
  BY DEF RunsSound, LogSound, Start
<1>4. \A u \in made : u.known \in Nat /\ u.known <= day
  <2>1. ASSUME NEW e \in fetched PROVE e.date + Holding \in Nat /\ e.date + Holding <= day
    <3>1. Settled(e) /\ e \in Range(log)
      BY DEF PendingFor
    <3>2. e \in Entries(Tickers)
      BY <3>1 DEF Range, RunsSound, LogSound
    <3>3. QED
      BY <3>1, <3>2 DEF Settled, Entries
  <2>2. QED
    BY <2>1
<1> HIDE DEF made
<1>5. /\ DOMAIN r = ProcFields /\ r.pc \in {"begin", "read"} /\ r.req = req /\ r.date = date
      /\ r.updates = made /\ r.text = <<>>
  <2>1. ASSUME NEW pc \in {"begin", "read"}
        PROVE  LET w == [Idle EXCEPT !.req = req, !.date = date, !.pc = pc, !.updates = made]
               IN  /\ DOMAIN w = ProcFields /\ w.pc \in {"begin", "read"} /\ w.req = req
                   /\ w.date = date /\ w.updates = made /\ w.text = <<>>
    BY IdleWith
  <2>2. QED
    BY <2>1 DEF made
<1>6. proc' = [proc EXCEPT ![p] = r]
  BY <1>2
<1> HIDE DEF r
<1>7. Orderly(r, day)
  BY <1>3, <1>4, <1>5 DEF Orderly, InGraph, Known
<1>8. ProcsSound'
  BY <1>3, <1>6, <1>7, OneProcSound DEF RunsSound
<1>9. QED
  BY <1>3, <1>8 DEF RunsSound, LogSound, SavedSound

LEMMA ReadSound ==
    ASSUME RunsSound, NEW p \in Procs, ReadLog(p)
    PROVE  RunsSound'
<1> DEFINE r == [proc[p] EXCEPT !.text = log, !.pc = "replace"]
<1>1. /\ Orderly(proc[p], day) /\ DOMAIN proc = Procs /\ proc[p].pc = "read"
      /\ UNCHANGED <<day, log, saved>>
  BY DEF RunsSound, ProcsSound, ReadLog
<1>2. proc' = [proc EXCEPT ![p] = r]
  BY <1>1 DEF ReadLog
<1>3. Orderly(r, day)
  BY <1>1 DEF Orderly, InGraph, ProcFields, RunsSound, LogSound
<1> HIDE DEF r
<1>4. ProcsSound'
  BY <1>1, <1>2, <1>3, OneProcSound DEF RunsSound
<1>5. QED
  BY <1>1, <1>4 DEF RunsSound, LogSound, SavedSound

LEMMA ReplaceSound ==
    ASSUME RunsSound, NEW p \in Procs, ReplaceLog(p)
    PROVE  RunsSound'
<1> DEFINE r == [proc[p] EXCEPT !.text = <<>>, !.updates = {}, !.pc = "begin"]
           text == proc[p].text
           updates == proc[p].updates
<1>1. /\ Orderly(proc[p], day) /\ DOMAIN proc = Procs /\ proc[p].pc = "replace"
      /\ UNCHANGED <<day, saved>> /\ log' = WithOutcomes(text, updates) /\ day \in Nat
  BY DEF RunsSound, LogSound, ProcsSound, ReplaceLog
<1>2. proc' = [proc EXCEPT ![p] = r]
  BY <1>1 DEF ReplaceLog
<1>3. Orderly(r, day)
  BY <1>1 DEF Orderly, InGraph, ProcFields, Known
<1>4. /\ text \in Seq(Entries(Tickers)) /\ Known(text, day)
      /\ \A u \in updates : u.known \in Nat /\ u.known <= day
  BY <1>1 DEF Orderly
<1> HIDE DEF r, text, updates
<1>5. ProcsSound'
  BY <1>1, <1>2, <1>3, OneProcSound DEF RunsSound
<1>6. /\ log' \in Seq(Entries(Tickers))
      /\ \A n \in DOMAIN log' : log'[n].outcome = "resolved" =>
            (\E i \in DOMAIN text : text[i] = log'[n]) \/ \E u \in updates : u.known = log'[n].known
  BY <1>1, <1>4, OutcomesKeep
<1>7. Known(log', day)
  BY <1>4, <1>6 DEF Known
<1>8. QED
  BY <1>1, <1>5, <1>6, <1>7 DEF RunsSound, LogSound, SavedSound

LEMMA BeginSound ==
    ASSUME RunsSound, NEW p \in Procs, Begin(p)
    PROVE  RunsSound'
<1>0. PICK identity \in Identities(day) :
      LET req     == proc[p].req
          date    == proc[p].date
          context == IF req.way = "cli" THEN {}
                     ELSE PastContext(log, req.ticker, MemoryAsOf(date), date)
          g       == GraphInput(IF req.keep /\ Mine(p) \in DOMAIN saved THEN saved[Mine(p)]
                                ELSE NoState, context, Late(p, "identity", identity))
      IN  /\ proc' = [proc EXCEPT ![p].pc = "run", ![p].g = g, ![p].left = Limit,
                        ![p].board = IF req.way = "cli"
                                     THEN Shown(NewBoard(req.shape), req.shape, g)
                                     ELSE NoBoard]
          /\ Saved(p, g)
  BY DEF Begin
<1> DEFINE req     == proc[p].req
           date    == proc[p].date
           context == IF req.way = "cli" THEN {}
                      ELSE PastContext(log, req.ticker, MemoryAsOf(date), date)
           late    == Late(p, "identity", identity)
           g       == GraphInput(IF req.keep /\ Mine(p) \in DOMAIN saved THEN saved[Mine(p)]
                                 ELSE NoState, context, late)
<1>1. /\ Orderly(proc[p], day) /\ DOMAIN proc = Procs /\ proc[p].pc = "begin"
      /\ UNCHANGED <<day, log>> /\ day \in Nat
      /\ req \in Requests /\ req.shape \in Shapes /\ date \in Nat /\ date <= day
  BY DEF RunsSound, LogSound, ProcsSound, Begin, Orderly, Shapes
<1>2. Saved(p, g)
  BY <1>0
<1>3. /\ DOMAIN proc'[p] = ProcFields /\ proc'[p].pc = "run" /\ proc'[p].g = g
      /\ proc'[p].req = req /\ proc'[p].date = date
      /\ proc'[p].updates = proc[p].updates /\ proc'[p].text = proc[p].text
      /\ proc' = [proc EXCEPT ![p] = proc'[p]]
  BY <1>0, <1>1 DEF Orderly, ProcFields
<1>4. \A e \in context : e.outcome = "resolved" => e.known <= date
  BY <1>1, ContextInTime DEF RunsSound, LogSound
<1> HIDE DEF context
<1>11. late \subseteq Excepted
  BY DEF Late, Excepted, Undated
<1> HIDE DEF late
<1>5. Asked(Fresh(context, late), req.shape) /\ Ignorant(Fresh(context, late), date)
  BY <1>1, <1>4, <1>11, FreshIsAsked DEF Fresh, Ignorant
<1>6. Asked(g, req.shape) /\ Ignorant(g, date)
  <2>1. CASE req.keep /\ Mine(p) \in DOMAIN saved /\ saved[Mine(p)] # NoState
    <3>1. g = saved[Mine(p)]
      BY <2>1 DEF GraphInput
    <3>2. QED
      BY <1>1, <2>1, <3>1, Zenon DEF RunsSound, SavedSound, Mine
  <2>2. CASE ~(req.keep /\ Mine(p) \in DOMAIN saved /\ saved[Mine(p)] # NoState)
    BY <1>5, <2>2, Zenon DEF GraphInput
  <2>3. QED
    BY <2>1, <2>2
<1> HIDE DEF g
<1>7. Orderly(proc'[p], day)
  BY <1>1, <1>3, <1>6 DEF Orderly
<1>8. ProcsSound'
  BY <1>1, <1>3, <1>7, OneProcSound DEF RunsSound
<1>9. SavedSound'
  BY <1>1, <1>2, <1>6, SavesSound
<1>10. QED
  BY <1>1, <1>8, <1>9 DEF RunsSound, LogSound

LEMMA GotoSound ==
    ASSUME RunsSound, NEW p \in Procs, proc[p].pc \in InGraph, NEW pc \in InGraph,
           Goto(p, pc), UNCHANGED day
    PROVE  ProcsSound'
<1>1. Orderly(proc[p], day) /\ DOMAIN proc = Procs
  BY DEF RunsSound, ProcsSound
<1> DEFINE r == [proc[p] EXCEPT !.pc = pc]
<1>2. Orderly(r, day)
  BY <1>1 DEF Orderly, ProcFields, InGraph
<1>3. proc' = [proc EXCEPT ![p] = r]
  BY <1>1 DEF Goto
<1> HIDE DEF r
<1>4. QED
  BY <1>2, <1>3, OneProcSound DEF RunsSound

LEMMA StopSound ==
    ASSUME RunsSound, NEW p \in Procs, proc' = [proc EXCEPT ![p] = Idle], UNCHANGED day
    PROVE  ProcsSound'
BY OneProcSound, IdleIsOrderly DEF RunsSound, LogSound

LEMMA AppendSound ==
    ASSUME RunsSound, NEW p \in Procs, AppendLog(p)
    PROVE  RunsSound'
<1>1. /\ proc[p].pc = "append" /\ UNCHANGED <<day, saved>> /\ Goto(p, "clear")
      /\ log' = Stored(log, proc[p].req.ticker, proc[p].date)
      /\ log \in Seq(Entries(Tickers)) /\ day \in Nat /\ Known(log, day)
  BY DEF AppendLog, RunsSound, LogSound
<1>2. proc[p].req.ticker \in Tickers /\ proc[p].date \in Nat
  BY <1>1 DEF RunsSound, ProcsSound, Orderly, Tickers
<1>3. log' \in Seq(Entries(Tickers)) /\ Known(log', day)
  BY <1>1, <1>2, StoredKeeps
<1>4. ProcsSound'
  BY <1>1, GotoSound DEF InGraph
<1>5. QED
  BY <1>1, <1>3, <1>4 DEF RunsSound, LogSound, SavedSound

LEMMA NextRunsSound ==
    ASSUME RunsSound, Next
    PROVE  RunsSound'
<1>1. CASE NextDay
  <2>1. day \in Nat /\ day' = day + 1 /\ UNCHANGED <<log, saved, proc>>
    BY <1>1 DEF NextDay, RunsSound, LogSound
  <2>2. ASSUME NEW entries \in Seq(Entries(Tickers)), Known(entries, day)
        PROVE  Known(entries, day')
    <3>1. ASSUME NEW i \in DOMAIN entries PROVE entries[i].known \in Nat
      <4>1. entries[i] \in Entries(Tickers)
        OBVIOUS
      <4>2. QED
        BY <4>1 DEF Entries
    <3>2. QED
      BY <2>1, <2>2, <3>1 DEF Known
  <2>5. LogSound'
    BY <2>1, <2>2 DEF RunsSound, LogSound
  <2>3. ASSUME NEW r, Orderly(r, day) PROVE Orderly(r, day')
    <3>1. Known(r.text, day')
      BY <2>2, <2>3 DEF Orderly
    <3>2. QED
      BY <2>1, <2>3, <3>1 DEF Orderly
  <2>4. QED
    BY <2>1, <2>5, <2>3 DEF RunsSound, ProcsSound, SavedSound
<1>2. ASSUME NEW p \in Procs, Start(p) PROVE RunsSound'
  BY <1>2, StartSound
<1>3. ASSUME NEW p \in Procs, Step(p) PROVE RunsSound'
  <2>1. CASE ReadLog(p)
    BY <2>1, ReadSound
  <2>2. CASE ReplaceLog(p)
    BY <2>2, ReplaceSound
  <2>3. CASE Begin(p)
    BY <2>3, BeginSound
  <2>4. CASE \/ Analyst(p) \/ Clear(p) \/ Bull(p) \/ Bear(p) \/ Research(p) \/ Trade(p)
             \/ Aggressive(p) \/ Conservative(p) \/ Neutral(p) \/ Manage(p)
    BY <2>4, NodesSound
  <2>5. CASE SentimentAnalyst(p)
    BY <2>5, SentimentSound
  <2>6. CASE Tools(p)
    BY <2>6, ToolsSound
  <2>7. CASE ToolRaises(p) \/ OutOfSteps(p)
    BY <2>7, StopSound DEF ToolRaises, OutOfSteps, RunsSound, LogSound, SavedSound
  <2>8. CASE Finish(p)
    <3>1. proc[p].pc = "run" /\ UNCHANGED <<day, log, saved>>
          /\ \E pc \in {"clear", "store"} : Goto(p, pc)
      BY <2>8 DEF Finish
    <3>2. ProcsSound'
      BY <3>1, GotoSound DEF InGraph
    <3>3. QED
      BY <3>1, <3>2 DEF RunsSound, LogSound, SavedSound
  <2>9. CASE Store(p)
    <3>1. proc[p].pc = "store" /\ UNCHANGED <<day, log, saved>>
          /\ \E pc \in {"clear", "append"} : Goto(p, pc)
      BY <2>9 DEF Store, StoreOrNot
    <3>2. ProcsSound'
      BY <3>1, GotoSound DEF InGraph
    <3>3. QED
      BY <3>1, <3>2 DEF RunsSound, LogSound, SavedSound
  <2>10. CASE AppendLog(p)
    BY <2>10, AppendSound
  <2>11. CASE ClearCheckpoint(p)
    <3>1. UNCHANGED <<day, log>> /\ ProcsSound'
      BY <2>11, StopSound DEF ClearCheckpoint
    <3>2. \A t \in DOMAIN saved' : t \in DOMAIN saved /\ saved'[t] = saved[t]
      BY <2>11 DEF ClearCheckpoint
    <3>3. QED
      BY <3>1, <3>2 DEF RunsSound, LogSound, SavedSound
  <2>12. QED
    BY <1>3, <2>1, <2>2, <2>3, <2>4, <2>5, <2>6, <2>7, <2>8, <2>9, <2>10, <2>11 DEF Step
<1>4. ASSUME NEW p \in Procs, Cut(p) PROVE RunsSound'
  BY <1>4, StopSound DEF Cut, RunsSound, LogSound, SavedSound
<1>5. ASSUME NEW p \in Procs, ClearAll(p) PROVE RunsSound'
  BY <1>5 DEF ClearAll, RunsSound, LogSound, ProcsSound, SavedSound
<1>6. QED
  BY <1>1, <1>2, <1>3, <1>4, <1>5 DEF Next

(* The types of runs, checkpoints and memory log (AgentState, thread_id,   *)
(* TradingMemoryLog), with what the theorems below need: what a graph has  *)
(* done is what its shape asks for, and no later than its node allows.     *)
THEOREM RunsAreSound == Spec => []RunsSound
<1>1. Init => RunsSound
  BY InitRunsSound
<1>2. RunsSound /\ [Next]_vars => RunsSound'
  <2>1. CASE UNCHANGED vars
    BY <2>1 DEF vars, RunsSound, LogSound, ProcsSound, SavedSound
  <2>2. QED
    BY <2>1, NextRunsSound
<1>3. QED
  BY <1>1, <1>2, PTL DEF Spec

(* GraphIsTheOneAsked, for any number of processes, requests and shapes:   *)
(* whatever was cut, resumed or configured anew, the debates a run ends    *)
(* with have the rounds it was asked for, and no report is another's.      *)
THEOREM GraphIsAsked == Spec => []GraphIsTheOneAsked
<1>1. RunsSound => GraphIsTheOneAsked
  <2> SUFFICES ASSUME RunsSound, NEW p \in Running
               PROVE  LET g == proc[p].g
                          s == proc[p].req.shape
                      IN  /\ g.plan => g.bull = s.debate /\ g.bear = s.debate
                          /\ g.decided => g.agg = s.risk /\ g.con = s.risk /\ g.neu = s.risk
                          /\ g.reports \subseteq {s.analysts[i] : i \in DOMAIN s.analysts}
    BY DEF GraphIsTheOneAsked
  <2>1. Asked(proc[p].g, proc[p].req.shape)
    BY DEF Running, RunsSound, ProcsSound, Orderly, InGraph
  <2>2. QED
    BY <2>1 DEF Asked, Debated, Assessed, Kept, Analysing
<1>2. QED
  BY <1>1, RunsAreSound, PTL

(* AskedOnce, for any number of processes: a resumed thread is not asked    *)
(* again.                                                                  *)
THEOREM ModelsAskedOnce == Spec => []AskedOnce
<1>1. RunsSound => AskedOnce
  BY DEF AskedOnce, Running, RunsSound, ProcsSound, Orderly, InGraph, Asked
<1>2. QED
  BY <1>1, RunsAreSound, PTL

(* NoLookahead, for any days, vendors, chains and lags: what a run, cut and *)
(* resumed on any day, learns of after its trade date comes from statements, *)
(* insiders, odds and the identity in its prompt, which nothing dates, or     *)
(* from a tool the model asked about a later day.                             *)
THEOREM NothingFromTheFuture == Spec => []NoLookahead
<1>1. RunsSound => NoLookahead
  BY DEF NoLookahead, Running, RunsSound, ProcsSound, Orderly, InGraph, Ignorant, Excepted
<1>2. QED
  BY <1>1, RunsAreSound, PTL

-------------------------------------------------------------------------------
(* The log of a single process.  Two processes may read the log, and then  *)
(* both append the same decision, or one replaces what the other appended. *)

Alone == \A p, q \in Procs : p = q

LogKept ==
    /\ Unrepeated(log)
    /\ \A p \in Procs :
          /\ proc[p].pc = "replace" => proc[p].text = log
          /\ proc[p].pc = "append" => ~HasPending(log, proc[p].req.ticker, proc[p].date)

(* What a step of a process is, but for what its node makes of the graph. *)
LEMMA StepKinds ==
    ASSUME NEW p \in Procs, Step(p)
    PROVE  \/ ReadLog(p) \/ ReplaceLog(p) \/ Begin(p)
           \/ \E g : proc[p].pc = "run" /\ Ran(p, g)
           \/ ToolRaises(p) \/ OutOfSteps(p) \/ ClearCheckpoint(p)
           \/ Finish(p) \/ Store(p) \/ AppendLog(p)
BY Zenon DEF Step, Analyst, SentimentAnalyst, Tools, Clear, Bull, Bear, Research, Trade,
       Aggressive, Conservative, Neutral, Manage, At

(* A run that begins, and one that is cut. *)
LEMMA StartsOrStops ==
    ASSUME NEW p \in Procs, Start(p) \/ Cut(p)
    PROVE  /\ UNCHANGED log
           /\ \E r : proc' = [proc EXCEPT ![p] = r] /\ r.pc \in {"begin", "read", "idle"}
<1>1. CASE Start(p)
  <2>1. PICK req \in Requests, date \in 0..day :
          \E fetched \in SUBSET {e \in PendingFor(log, req.ticker) : Settled(e)} :
            proc' = [proc EXCEPT ![p] =
              [Idle EXCEPT !.req = req, !.date = date,
                 !.pc = IF fetched = {} THEN "begin" ELSE "read",
                 !.updates = {[ticker |-> e.ticker, date |-> e.date,
                               known |-> e.date + Holding] : e \in fetched}]]
    BY <1>1, Zenon DEF Start
  <2>2. PICK fetched \in SUBSET {e \in PendingFor(log, req.ticker) : Settled(e)} :
          proc' = [proc EXCEPT ![p] =
            [Idle EXCEPT !.req = req, !.date = date,
               !.pc = IF fetched = {} THEN "begin" ELSE "read",
               !.updates = {[ticker |-> e.ticker, date |-> e.date,
                             known |-> e.date + Holding] : e \in fetched}]]
    BY <2>1, Zenon
  <2> DEFINE made == {[ticker |-> e.ticker, date |-> e.date,
                       known |-> e.date + Holding] : e \in fetched}
             pc == IF fetched = {} THEN "begin" ELSE "read"
             w == [Idle EXCEPT !.req = req, !.date = date, !.pc = pc, !.updates = made]
  <2>3. proc' = [proc EXCEPT ![p] = w]
    BY <2>2, Zenon
  <2>4. w.pc = pc /\ pc \in {"begin", "read"}
    <3>1. pc \in {"begin", "read"}
      OBVIOUS
    <3> HIDE DEF pc, made
    <3>2. QED
      BY <3>1, IdleWith
  <2> HIDE DEF w, pc
  <2>5. UNCHANGED log
    BY <1>1, Zenon DEF Start
  <2>6. QED
    BY <2>3, <2>4, <2>5
<1>2. CASE Cut(p)
  <2>1. Idle.pc = "idle"
    BY DEF Idle
  <2>2. QED
    BY <1>2, <2>1 DEF Cut
<1>3. QED
  BY <1>1, <1>2

LEMMA NextLogKept ==
    ASSUME Alone, RunsSound, LogKept, Next
    PROVE  LogKept'
<1>1. /\ DOMAIN proc = Procs /\ log \in Seq(Entries(Tickers))
      /\ \A p \in Procs : DOMAIN proc[p] = ProcFields
  BY DEF RunsSound, LogSound, ProcsSound, Orderly
<1>2. CASE UNCHANGED <<log, proc>>
  BY <1>2 DEF LogKept
<1>4. ASSUME NEW p \in Procs, Start(p) \/ Cut(p) PROVE LogKept'
  BY <1>1, <1>4, StartsOrStops DEF LogKept, Alone
<1>5. ASSUME NEW p \in Procs, Step(p) PROVE LogKept'
  <2>1. CASE ReadLog(p)
    <3>1. UNCHANGED log /\ proc'[p].pc = "replace" /\ proc'[p].text = log
      BY <1>1, <2>1 DEF ReadLog, ProcFields
    <3>2. QED
      BY <3>1 DEF LogKept, Alone
  <2>2. CASE ReplaceLog(p)
    <3>1. /\ proc[p].text = log /\ log' = WithOutcomes(log, proc[p].updates)
          /\ proc'[p].pc = "begin" /\ \A u \in proc[p].updates : u.known \in Nat
      BY <1>1, <2>2 DEF ReplaceLog, LogKept, RunsSound, ProcsSound, Orderly, ProcFields
    <3>2. Unrepeated(log')
      BY <1>1, <3>1, OutcomesKeep DEF LogKept
    <3>3. QED
      BY <3>1, <3>2 DEF LogKept, Alone
  <2>3. CASE Begin(p)
    <3>1. UNCHANGED log /\ proc'[p].pc = "run"
      BY <1>1, <2>3 DEF Begin, ProcFields
    <3>2. QED
      BY <3>1 DEF LogKept, Alone
  <2>4. CASE \E g : proc[p].pc = "run" /\ Ran(p, g)
    <3>1. UNCHANGED log /\ proc'[p].pc = "run"
      BY <1>1, <2>4 DEF Ran, ProcFields
    <3>2. QED
      BY <3>1 DEF LogKept, Alone
  <2>5. CASE ToolRaises(p) \/ OutOfSteps(p) \/ ClearCheckpoint(p)
    <3>1. UNCHANGED log /\ proc'[p].pc = "idle"
      BY <1>1, <2>5 DEF ToolRaises, OutOfSteps, ClearCheckpoint, Idle
    <3>2. QED
      BY <3>1 DEF LogKept, Alone
  <2>6. CASE Finish(p)
    <3>1. UNCHANGED log /\ proc'[p].pc \in {"clear", "store"}
      BY <1>1, <2>6 DEF Finish, Goto, ProcFields
    <3>2. QED
      BY <3>1 DEF LogKept, Alone
  <2>7. CASE Store(p)
    <3>1. /\ UNCHANGED log /\ proc'[p].pc = StoreOrNot(p)
          /\ proc'[p].req = proc[p].req /\ proc'[p].date = proc[p].date
      BY <1>1, <2>7 DEF Store, Goto, ProcFields
    <3>2. QED
      BY <3>1 DEF StoreOrNot, LogKept, Alone
  <2>8. CASE AppendLog(p)
    <3>1. /\ ~HasPending(log, proc[p].req.ticker, proc[p].date)
          /\ log' = Stored(log, proc[p].req.ticker, proc[p].date) /\ proc'[p].pc = "clear"
          /\ proc[p].req.ticker \in Tickers /\ proc[p].date \in Nat
      BY <1>1, <2>8 DEF AppendLog, LogKept, Goto, ProcFields, RunsSound, ProcsSound, Orderly, Tickers
    <3>2. Unrepeated(log')
      BY <1>1, <3>1, StoredKeeps DEF LogKept
    <3>3. QED
      BY <3>1, <3>2 DEF LogKept, Alone
  <2>9. QED
    BY <1>5, <2>1, <2>2, <2>3, <2>4, <2>5, <2>6, <2>7, <2>8, StepKinds
<1>6. CASE NextDay \/ \E p \in Procs : ClearAll(p)
  BY <1>2, <1>6 DEF NextDay, ClearAll
<1>7. QED
  BY <1>4, <1>5, <1>6 DEF Next

LEMMA SoundAndKept ==
    ASSUME Alone, Unrepeated(FirstLog)
    PROVE  Spec => [](RunsSound /\ LogKept)
<1>1. Init => RunsSound /\ LogKept
  BY InitRunsSound DEF Init, LogKept, Idle
<1>2. RunsSound /\ LogKept /\ [Next]_vars => (RunsSound /\ LogKept)'
  <2>1. CASE UNCHANGED vars
    BY <2>1 DEF vars, RunsSound, LogSound, ProcsSound, SavedSound, LogKept
  <2>2. QED
    BY <2>1, NextRunsSound, NextLogKept
<1>3. QED
  BY <1>1, <1>2, PTL DEF Spec

(* OnePending, for one process and any log that has it: one ticker and day *)
(* never wait for two outcomes, whatever is cut, resumed and repeated.     *)
THEOREM OneDecisionPending ==
    ASSUME Alone, Unrepeated(FirstLog)
    PROVE  Spec => []OnePending
<1>1. LogKept => OnePending
  BY DEF LogKept, OnePending, Unrepeated
<1>2. QED
  BY <1>1, SoundAndKept, PTL

(* PendingKept, for one process: a decision leaves the log of the waiting  *)
(* only by the update that resolves it.                                    *)
THEOREM PendingIsKept ==
    ASSUME Alone, Unrepeated(FirstLog)
    PROVE  Spec => PendingKept
<1> DEFINE Resolved(e) ==
             \E p \in Procs : /\ proc[p].pc = "replace"
                              /\ \E u \in proc[p].updates : u.ticker = e.ticker /\ u.date = e.date
           Kept2 == \A e \in Range(log) : IsPending(e) /\ e \notin Range(log') => Resolved(e)
<1>1. RunsSound /\ LogKept /\ [Next]_vars => [Kept2]_vars
  <2> SUFFICES ASSUME RunsSound, LogKept, Next PROVE Kept2
    BY DEF Kept2
  <2>1. CASE UNCHANGED log
    BY <2>1
  <2>2. ASSUME NEW p \in Procs, ReplaceLog(p) PROVE Kept2
    <3>1. /\ proc[p].text = log /\ log' = WithOutcomes(log, proc[p].updates)
          /\ log \in Seq(Entries(Tickers)) /\ \A u \in proc[p].updates : u.known \in Nat
      BY <2>2 DEF ReplaceLog, LogKept, RunsSound, LogSound, ProcsSound, Orderly
    <3>2. \A i \in DOMAIN log : IsPending(log[i]) =>
            (\E n \in DOMAIN log' : log'[n] = log[i])
              \/ \E u \in proc[p].updates : Resolves(u, log[i])
      BY <3>1, OutcomesKeep
    <3>3. QED
      BY <2>2, <3>2 DEF Range, Resolves, ReplaceLog
  <2>3. ASSUME NEW p \in Procs, AppendLog(p) PROVE Kept2
    <3>1. /\ log \in Seq(Entries(Tickers)) /\ log' = Stored(log, proc[p].req.ticker, proc[p].date)
          /\ proc[p].req.ticker \in Tickers /\ proc[p].date \in Nat
      BY <2>3 DEF AppendLog, RunsSound, LogSound, ProcsSound, Orderly, Tickers
    <3>2. \A i \in DOMAIN log : i \in DOMAIN log' /\ log'[i] = log[i]
      <4> DEFINE e == Entry(proc[p].req.ticker, proc[p].date, Pending, 0)
      <4>1. log' = Append(log, e)
        BY <3>1 DEF Stored
      <4> HIDE DEF e
      <4>2. QED
        BY <3>1, <4>1
    <3>3. Range(log) \subseteq Range(log')
      BY <3>2 DEF Range
    <3>4. QED
      BY <3>3
  <2>4. UNCHANGED log \/ \E p \in Procs : ReplaceLog(p) \/ AppendLog(p)
    <3>1. ASSUME NEW p \in Procs, \E g : Ran(p, g) PROVE UNCHANGED log
      BY <3>1 DEF Ran
    <3>2. ASSUME NEW p \in Procs, ReadLog(p) \/ Begin(p) \/ ToolRaises(p) \/ OutOfSteps(p)
                                     \/ ClearCheckpoint(p) \/ Finish(p) \/ Store(p)
          PROVE  UNCHANGED log
      BY <3>2 DEF ReadLog, Begin, ToolRaises, OutOfSteps, ClearCheckpoint, Finish, Store
    <3>3. ASSUME NEW p \in Procs, Start(p) \/ Cut(p) \/ ClearAll(p) PROVE UNCHANGED log
      <4>1. CASE Start(p)
        BY <4>1, Zenon DEF Start
      <4>2. CASE Cut(p) \/ ClearAll(p)
        BY <4>2 DEF Cut, ClearAll
      <4>3. QED
        BY <3>3, <4>1, <4>2
    <3>4. ASSUME NEW p \in Procs, Step(p)
          PROVE  UNCHANGED log \/ ReplaceLog(p) \/ AppendLog(p)
      BY <3>1, <3>2, <3>4, StepKinds
    <3>5. CASE NextDay
      BY <3>5 DEF NextDay
    <3>6. QED
      BY <3>3, <3>4, <3>5 DEF Next
  <2>5. QED
    BY <2>1, <2>2, <2>3, <2>4
<1>2. QED
  BY <1>1, SoundAndKept, PTL DEF Spec, PendingKept, Kept2, Resolved

-------------------------------------------------------------------------------
(* The status board of the command line.  An agent is done only by what    *)
(* the graph says is done, so that a chunk that says so again keeps it.    *)

Backed(board, g, s) ==
    /\ DOMAIN board = Kept(s) \cup FixedAgents
    /\ \A a \in Researchers : board[a] = "completed" => g.plan
    /\ board["trader"] = "completed" => g.trade
    /\ \A a \in RiskTeam \cup {"manager"} : board[a] = "completed" => g.decided

BoardsBacked ==
    \A p \in Procs : proc[p].pc = "run" /\ proc[p].req.way = "cli" =>
        Backed(proc[p].board, proc[p].g, proc[p].req.shape)

(* What a chunk makes of a board. *)
HonestChunk(before, after, g) ==
    /\ \A a \in DOMAIN before : before[a] = "completed" => after[a] = "completed"
    /\ \A section \in CompletedSections(before, after, g) :
          SectionText(section, before, g) = Finalizer[section]

(* Before a run, and so before its first chunk, nobody is done. *)
LEMMA NewBoardIsBacked ==
    ASSUME NEW s
    PROVE  Backed(NewBoard(s), Fresh({}, {}), s)
<1> DEFINE board == NewBoard(s)
<1>1. DOMAIN board = Kept(s) \cup FixedAgents
  BY DEF NewBoard, Kept
<1>2. \A a \in DOMAIN board : board[a] # "completed"
  BY DEF NewBoard
<1>3. Researchers \cup RiskTeam \cup {"trader", "manager"} \subseteq DOMAIN board
  BY <1>1 DEF FixedAgents
<1> HIDE DEF board
<1>4. QED
  BY <1>1, <1>2, <1>3 DEF Backed, board

(* The board after a chunk, agent by agent, given the analysts left. *)
AgentsShown(before, after, open, g, s) ==
    /\ DOMAIN after = DOMAIN before
    /\ \A a \in Researchers : after[a] = ResearchStatus(a, before, open, g)
    /\ after["trader"] = TraderStatus(before, g)
    /\ \A a \in RiskTeam : after[a] = RiskStatus(a, before, g)
    /\ after["manager"] = IF g.decided THEN "completed" ELSE before["manager"]
    /\ \A a \in DOMAIN before \ FixedAgents :
          \E i \in DOMAIN s.analysts : s.analysts[i] = a /\ after[a] = AnalystStatus(i, open)

LEMMA ShownAgents ==
    ASSUME NEW s, NEW before, NEW g, DOMAIN before = Kept(s) \cup FixedAgents
    PROVE  AgentsShown(before, Shown(before, s, g), Open(before, s, g), g, s)
<1> DEFINE open == Open(before, s, g)
           after == Shown(before, s, g)
           analyst(a) == AnalystStatus(CHOOSE i \in DOMAIN s.analysts : s.analysts[i] = a, open)
           status(a) ==
             CASE a \in Researchers -> ResearchStatus(a, before, open, g)
               [] a = "trader"      -> TraderStatus(before, g)
               [] a \in RiskTeam    -> RiskStatus(a, before, g)
               [] a = "manager"     -> IF g.decided THEN "completed" ELSE before[a]
               [] OTHER -> analyst(a)
<1>1. after = [a \in DOMAIN before |-> status(a)]
  BY Zenon DEF Shown
<1> HIDE DEF after, open, analyst
<1>2. \A a \in Researchers : status(a) = ResearchStatus(a, before, open, g)
  BY DEF Researchers, RiskTeam
<1>3. status("trader") = TraderStatus(before, g)
  BY DEF Researchers, RiskTeam
<1>4. \A a \in RiskTeam : status(a) = RiskStatus(a, before, g)
  BY DEF Researchers, RiskTeam
<1>5. status("manager") = IF g.decided THEN "completed" ELSE before["manager"]
  BY DEF Researchers, RiskTeam
<1>6. \A a \in DOMAIN before \ FixedAgents : status(a) = analyst(a)
  BY DEF FixedAgents
<1>7. Researchers \cup RiskTeam \cup {"trader", "manager"} \subseteq DOMAIN before
  BY DEF FixedAgents
<1> HIDE DEF status
<1>8. ASSUME NEW a \in DOMAIN before \ FixedAgents
      PROVE  \E i \in DOMAIN s.analysts : s.analysts[i] = a /\ after[a] = AnalystStatus(i, open)
  <2>1. after[a] = analyst(a)
    BY <1>1, <1>6
  <2>2. \E i \in DOMAIN s.analysts : s.analysts[i] = a
    BY DEF Kept
  <2>3. QED
    BY <2>1, <2>2 DEF analyst
<1>9. AgentsShown(before, after, open, g, s)
  BY <1>1, <1>2, <1>3, <1>4, <1>5, <1>7, <1>8 DEF AgentsShown
<1>10. QED
  BY <1>9 DEF after, open

(* A chunk of a graph that has not lost the plan and the proposal of the   *)
(* one before, which was not at its end.                                   *)
LEMMA ShownIsHonest ==
    ASSUME NEW s, NEW before, NEW old, NEW g, Backed(before, old, s),
           old.plan => g.plan, old.trade => g.trade, ~old.decided
    PROVE  /\ Backed(Shown(before, s, g), g, s)
           /\ HonestChunk(before, Shown(before, s, g), g)
<1> DEFINE after == Shown(before, s, g)
           open  == Open(before, s, g)
<1>1. DOMAIN before = Kept(s) \cup FixedAgents /\ AgentsShown(before, after, open, g, s)
  BY ShownAgents DEF Backed
<1> HIDE DEF after, open
<1>2. \A a \in RiskTeam \cup {"manager"} : before[a] # "completed"
  BY DEF Backed
<1>3. \A a \in Researchers : after[a] = "completed" <=> g.plan
  BY <1>1 DEF AgentsShown, Backed, ResearchStatus
<1>4. after["trader"] = "completed" <=> g.trade
  BY <1>1 DEF AgentsShown, Backed, TraderStatus
<1>5. \A a \in RiskTeam : after[a] = "completed" => g.decided
  BY <1>1, <1>2 DEF AgentsShown, RiskStatus
<1>6. after["manager"] = "completed" => g.decided
  BY <1>1, <1>2 DEF AgentsShown
<1>7. Backed(after, g, s)
  BY <1>1, <1>3, <1>4, <1>5, <1>6 DEF AgentsShown, Backed
<1>8. ASSUME NEW a \in DOMAIN before, before[a] = "completed"
      PROVE  after[a] = "completed"
  <2>1. CASE a \in Researchers
    BY <1>3, <1>8, <2>1 DEF Backed
  <2>2. CASE a = "trader"
    BY <1>4, <1>8, <2>2 DEF Backed
  <2>3. CASE a \in RiskTeam \cup {"manager"}
    BY <1>2, <1>8, <2>3
  <2>4. CASE a \notin FixedAgents
    <3>1. PICK i \in DOMAIN s.analysts : s.analysts[i] = a /\ after[a] = AnalystStatus(i, open)
      BY <1>1, <2>4 DEF AgentsShown
    <3>2. i \notin open
      BY <1>8, <3>1 DEF open, Open
    <3>3. QED
      BY <3>1, <3>2 DEF AnalystStatus
  <2>5. QED
    BY <2>1, <2>2, <2>3, <2>4 DEF FixedAgents
<1>9. ASSUME NEW section \in CompletedSections(before, after, g)
      PROVE  SectionText(section, before, g) = Finalizer[section]
  <2>1. section \in {"plan", "trade", "decision"} /\ after[Finalizer[section]] = "completed"
    BY DEF CompletedSections, Finalizer
  <2>2. CASE section = "plan"
    BY <1>3, <2>1, <2>2 DEF Finalizer, SectionText, Researchers
  <2>3. CASE section = "trade"
    BY <1>4, <2>1, <2>3 DEF Finalizer, SectionText
  <2>4. CASE section = "decision"
    BY <1>2, <1>6, <2>1, <2>4 DEF Finalizer, SectionText
  <2>5. QED
    BY <2>1, <2>2, <2>3, <2>4
<1>10. QED
  BY <1>7, <1>8, <1>9 DEF HonestChunk, after

(* A node runs short of the end, and takes neither plan nor proposal back. *)
LEMMA NodesKeepRulings ==
    ASSUME RunsSound, NEW p \in Procs,
           \/ Analyst(p) \/ SentimentAnalyst(p) \/ Tools(p) \/ Clear(p)
           \/ Bull(p) \/ Bear(p) \/ Research(p) \/ Trade(p)
           \/ Aggressive(p) \/ Conservative(p) \/ Neutral(p) \/ Manage(p)
    PROVE  \E g : /\ Ran(p, g)
                  /\ proc[p].g.plan => g.plan
                  /\ proc[p].g.trade => g.trade
                  /\ proc[p].pc = "run" /\ ~proc[p].g.decided
<1> DEFINE old == proc[p].g
           s   == proc[p].req.shape
<1>1. ASSUME NEW kinds, At(p, kinds), "end" \notin kinds
      PROVE  proc[p].pc = "run" /\ DOMAIN old = GraphFields /\ ~old.decided
             /\ old.node.kind \in kinds
  <2>1. proc[p].pc = "run" /\ old.node.kind \in kinds /\ Asked(old, s)
    BY <1>1, ProcAtNode
  <2>2. QED
    BY <1>1, <2>1 DEF Asked, Assessed
<1>2. CASE Analyst(p)
  <2>1. PICK answer : Ran(p, Analysed(old, s, answer))
    BY <1>2 DEF Analyst
  <2>2. At(p, {"agent"})
    BY <1>2 DEF Analyst
  <2>3. LET g == Analysed(old, s, answer) IN g.plan = old.plan /\ g.trade = old.trade
    BY <1>1, <2>2 DEF Analysed, GraphFields
  <2>4. QED
    BY <1>1, <2>1, <2>2, <2>3
<1>3. CASE SentimentAnalyst(p)
  <2>1. PICK answer, late : Ran(p, [Analysed(old, s, answer) EXCEPT !.late = late])
    BY <1>3 DEF SentimentAnalyst
  <2>2. At(p, {"agent"})
    BY <1>3 DEF SentimentAnalyst
  <2>3. LET g == [Analysed(old, s, answer) EXCEPT !.late = late]
        IN  g.plan = old.plan /\ g.trade = old.trade
    BY <1>1, <2>2 DEF Analysed, GraphFields
  <2>4. QED
    BY <1>1, <2>1, <2>2, <2>3
<1>4. CASE Tools(p)
  <2>1. PICK late : Ran(p, ToolsDone(old, late))
    BY <1>4 DEF Tools
  <2>2. At(p, {"tools"})
    BY <1>4 DEF Tools
  <2>3. LET g == ToolsDone(old, late) IN g.plan = old.plan /\ g.trade = old.trade
    BY <1>1, <2>2 DEF ToolsDone, GraphFields
  <2>4. QED
    BY <1>1, <2>1, <2>2, <2>3
<1>5. CASE Clear(p)
  <2>1. At(p, {"clear"}) /\ Ran(p, Cleared(old, s))
    BY <1>5 DEF Clear
  <2>2. LET g == Cleared(old, s) IN g.plan = old.plan /\ g.trade = old.trade
    BY <1>1, <2>1 DEF Cleared, GraphFields
  <2>3. QED
    BY <1>1, <2>1, <2>2
<1>6. CASE Bull(p) \/ Bear(p)
  <2>1. Ran(p, Argued(old, s)) /\ \E kind \in {"bull", "bear"} : At(p, {kind})
    BY <1>6 DEF Bull, Bear
  <2>2. proc[p].pc = "run" /\ DOMAIN old = GraphFields /\ ~old.decided
        /\ old.node.kind \in {"bull", "bear"}
    BY <1>1, <2>1
  <2>3. LET g == Argued(old, s) IN g.plan = old.plan /\ g.trade = old.trade
    BY <2>2 DEF Argued, GraphFields
  <2>4. QED
    BY <2>1, <2>2, <2>3
<1>7. CASE Research(p)
  <2>1. At(p, {"research"}) /\ Ran(p, Planned(old))
    BY <1>7 DEF Research
  <2>2. LET g == Planned(old) IN g.plan /\ g.trade = old.trade
    BY <1>1, <2>1 DEF Planned, GraphFields
  <2>3. QED
    BY <1>1, <2>1, <2>2
<1>8. CASE Trade(p)
  <2>1. At(p, {"trader"}) /\ Ran(p, Proposed(old))
    BY <1>8 DEF Trade
  <2>2. LET g == Proposed(old) IN g.plan = old.plan /\ g.trade
    BY <1>1, <2>1 DEF Proposed, GraphFields
  <2>3. QED
    BY <1>1, <2>1, <2>2
<1>9. CASE Aggressive(p) \/ Conservative(p) \/ Neutral(p)
  <2>1. Ran(p, Weighed(old, s)) /\ \E kind \in {"agg", "con", "neu"} : At(p, {kind})
    BY <1>9 DEF Aggressive, Conservative, Neutral
  <2>2. proc[p].pc = "run" /\ DOMAIN old = GraphFields /\ ~old.decided
        /\ old.node.kind \in {"agg", "con", "neu"}
    BY <1>1, <2>1
  <2>3. LET g == Weighed(old, s) IN g.plan = old.plan /\ g.trade = old.trade
    BY <2>2 DEF Weighed, GraphFields
  <2>4. QED
    BY <2>1, <2>2, <2>3
<1>10. CASE Manage(p)
  <2>1. At(p, {"manager"}) /\ Ran(p, Decided(old))
    BY <1>10 DEF Manage
  <2>2. LET g == Decided(old) IN g.plan = old.plan /\ g.trade = old.trade
    BY <1>1, <2>1 DEF Decided, GraphFields
  <2>3. QED
    BY <1>1, <2>1, <2>2
<1>11. QED
  BY <1>2, <1>3, <1>4, <1>5, <1>6, <1>7, <1>8, <1>9, <1>10

(* The chunk p is shown by a step, if it is shown one. *)
Board(p) == IF proc[p].pc = "begin" THEN NewBoard(proc'[p].req.shape) ELSE proc[p].board

ChunkOf(p) ==
    proc'[p].pc = "run" /\ proc'[p].req.way = "cli" =>
        /\ Backed(proc'[p].board, proc'[p].g, proc'[p].req.shape)
        /\ proc'[p].g # proc[p].g => HonestChunk(Board(p), proc'[p].board, proc'[p].g)

(* Every step shows every process what it should: a run that begins or     *)
(* goes on, and the ones that did not move.                                *)
LEMMA ChunksAreHonest ==
    ASSUME RunsSound, BoardsBacked, Next, NEW p \in Procs
    PROVE  ChunkOf(p)
<1>1. DOMAIN proc = Procs /\ \A q \in Procs : DOMAIN proc[q] = ProcFields
  BY DEF RunsSound, ProcsSound, Orderly
<1>2. CASE proc'[p] = proc[p]
  BY <1>2 DEF BoardsBacked, ChunkOf
<1>3. CASE proc'[p].pc # "run"
  BY <1>3 DEF ChunkOf
<1>4. CASE Begin(p)
  <2>1. PICK g : proc' = [proc EXCEPT ![p].pc = "run", ![p].g = g, ![p].left = Limit,
                            ![p].board = IF proc[p].req.way = "cli"
                                         THEN Shown(NewBoard(proc[p].req.shape),
                                                    proc[p].req.shape, g)
                                         ELSE NoBoard]
    BY <1>4, Zenon DEF Begin
  <2>2. proc'[p].g = g /\ proc'[p].req = proc[p].req
        /\ proc'[p].board = IF proc[p].req.way = "cli"
                            THEN Shown(NewBoard(proc[p].req.shape), proc[p].req.shape, g)
                            ELSE NoBoard
    BY <1>1, <2>1 DEF ProcFields
  <2>3. proc[p].pc = "begin"
    BY <1>4 DEF Begin
  <2> DEFINE s == proc[p].req.shape
  <2>4. Backed(Shown(NewBoard(s), s, g), g, s) /\ HonestChunk(NewBoard(s), Shown(NewBoard(s), s, g), g)
    <3>1. ~Fresh({}, {}).plan /\ ~Fresh({}, {}).trade /\ ~Fresh({}, {}).decided
      BY DEF Fresh
    <3>2. QED
      BY <3>1, NewBoardIsBacked, ShownIsHonest
  <2>5. QED
    BY <2>2, <2>3, <2>4 DEF ChunkOf, Board
<1>5. CASE \/ Analyst(p) \/ SentimentAnalyst(p) \/ Tools(p) \/ Clear(p)
           \/ Bull(p) \/ Bear(p) \/ Research(p) \/ Trade(p)
           \/ Aggressive(p) \/ Conservative(p) \/ Neutral(p) \/ Manage(p)
  <2>1. PICK g : /\ Ran(p, g)
                 /\ proc[p].g.plan => g.plan
                 /\ proc[p].g.trade => g.trade
                 /\ proc[p].pc = "run" /\ ~proc[p].g.decided
    BY <1>5, NodesKeepRulings
  <2>2. proc'[p].g = g /\ proc'[p].req = proc[p].req
        /\ proc'[p].board = IF proc[p].req.way = "cli"
                            THEN Shown(proc[p].board, proc[p].req.shape, g) ELSE proc[p].board
    BY <1>1, <2>1 DEF Ran, ProcFields
  <2>3. CASE proc[p].req.way = "cli"
    <3>1. Backed(proc[p].board, proc[p].g, proc[p].req.shape)
      BY <2>1, <2>3 DEF BoardsBacked
    <3>2. /\ Backed(Shown(proc[p].board, proc[p].req.shape, g), g, proc[p].req.shape)
          /\ HonestChunk(proc[p].board, Shown(proc[p].board, proc[p].req.shape, g), g)
      BY <2>1, <3>1, ShownIsHonest
    <3>3. QED
      BY <2>1, <2>2, <2>3, <3>2 DEF ChunkOf, Board
  <2>4. CASE proc[p].req.way # "cli"
    BY <2>2, <2>4 DEF ChunkOf
  <2>5. QED
    BY <2>3, <2>4
<1>6. CASE NextDay \/ \E q \in Procs : ClearAll(q)
  BY <1>2, <1>6 DEF NextDay, ClearAll
<1>7. ASSUME NEW q \in Procs, Start(q) \/ Step(q) \/ Cut(q)
      PROVE  q # p => proc'[p] = proc[p]
  <2>1. CASE Start(q)
    <3>1. \E r : proc' = [proc EXCEPT ![q] = r]
      BY <2>1, Zenon DEF Start
    <3>2. QED
      BY <1>1, <3>1
  <2>2. CASE Cut(q)
    BY <1>1, <2>2 DEF Cut
  <2>3. CASE Step(q)
    <3>1. CASE ReadLog(q) \/ ReplaceLog(q) \/ Begin(q)
      BY <1>1, <3>1 DEF ReadLog, ReplaceLog, Begin
    <3>2. CASE \E g : Ran(q, g)
      BY <1>1, <3>2 DEF Ran
    <3>3. CASE ToolRaises(q) \/ OutOfSteps(q) \/ ClearCheckpoint(q)
      BY <1>1, <3>3 DEF ToolRaises, OutOfSteps, ClearCheckpoint
    <3>4. CASE Finish(q) \/ Store(q) \/ AppendLog(q)
      BY <1>1, <3>4 DEF Finish, Store, AppendLog, Goto
    <3>5. QED
      BY <2>3, <3>1, <3>2, <3>3, <3>4, StepKinds
  <2>4. QED
    BY <1>7, <2>1, <2>2, <2>3
<1>8. CASE Start(p) \/ Cut(p)
  BY <1>1, <1>3, <1>8, StartsOrStops
<1>9. CASE \/ ReadLog(p) \/ ReplaceLog(p) \/ ToolRaises(p) \/ Finish(p) \/ OutOfSteps(p)
           \/ Store(p) \/ AppendLog(p) \/ ClearCheckpoint(p)
  <2>1. proc'[p].pc # "run"
    BY <1>1, <1>9 DEF ReadLog, ReplaceLog, ToolRaises, Finish, OutOfSteps, Store, StoreOrNot,
         AppendLog, ClearCheckpoint, Goto, Idle, ProcFields
  <2>2. QED
    BY <1>3, <2>1
<1>10. CASE Step(p)
  BY <1>4, <1>5, <1>9, <1>10, Zenon DEF Step
<1>11. QED
  BY <1>2, <1>6, <1>7, <1>8, <1>10, Zenon DEF Next

LEMMA SoundAndBacked == Spec => [](RunsSound /\ BoardsBacked)
<1>1. Init => RunsSound /\ BoardsBacked
  BY InitRunsSound DEF Init, BoardsBacked, Idle
<1>2. RunsSound /\ BoardsBacked /\ [Next]_vars => (RunsSound /\ BoardsBacked)'
  <2>1. CASE UNCHANGED vars
    BY <2>1 DEF vars, RunsSound, LogSound, ProcsSound, SavedSound, BoardsBacked
  <2>2. QED
    BY <2>1, NextRunsSound, ChunksAreHonest DEF BoardsBacked, ChunkOf
<1>3. QED
  BY <1>1, <1>2, PTL DEF Spec

(* BoardIsHonest, for any number of processes, requests and shapes: what   *)
(* the board shows as done stays done and is backed by what was written,   *)
(* also when the first chunk is a checkpoint's.                            *)
THEOREM BoardStaysHonest == Spec => BoardIsHonest
<1> DEFINE Honest ==
             \A p \in Procs :
               proc'[p].pc = "run" /\ proc'[p].req.way = "cli" /\ proc'[p].g # proc[p].g =>
                 LET shape  == proc'[p].req.shape
                     before == IF proc[p].pc = "begin" THEN NewBoard(shape) ELSE proc[p].board
                     after  == proc'[p].board
                 IN  /\ \A a \in DOMAIN before : before[a] = "completed" => after[a] = "completed"
                     /\ \A section \in CompletedSections(before, after, proc'[p].g) :
                           SectionText(section, before, proc'[p].g) = Finalizer[section]
<1>1. RunsSound /\ BoardsBacked /\ [Next]_vars => [Honest]_vars
  <2> SUFFICES ASSUME RunsSound, BoardsBacked, Next PROVE Honest
    BY DEF Honest
  <2>1. \A p \in Procs : ChunkOf(p)
    BY ChunksAreHonest
  <2>2. QED
    BY <2>1, Zenon DEF ChunkOf, HonestChunk, Board
<1>2. QED
  BY <1>1, SoundAndBacked, PTL DEF Spec, BoardIsHonest, Honest

===============================================================================
