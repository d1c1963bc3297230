------------------------------ MODULE AgentGraph ------------------------------
(***************************************************************************)
(* The analysis graph of tradingagents/graph and the nodes of              *)
(* tradingagents/agents, as operators on the state a checkpoint holds:     *)
(* the node to run next and what earlier nodes left behind.  A text is     *)
(* abstracted to whether it is there, a debate to how often each side      *)
(* spoke and who spoke last, the message channel to the number of user     *)
(* messages in it, the data read to the sources that showed something of   *)
(* after the trade date (late): a tool, the prompt's identity of the       *)
(* company, or "ahead" for a tool the model asked about a later day.        *)
(***************************************************************************)
EXTENDS Naturals, Sequences, FiniteSets

Node(kind, i) == [kind |-> kind, i |-> i]
End           == Node("end", 0)

\* create_initial_state, entered at the edge from START to the first analyst.  The
\* identity of the company (instrument_context) is in it, and so in every prompt.
Fresh(context, late) ==
  [node |-> Node("agent", 1), users |-> 1, context |-> context, late |-> late, reports |-> {},
   bull |-> 0, bear |-> 0, last |-> "none", plan |-> FALSE, trade |-> FALSE,
   agg |-> 0, con |-> 0, neu |-> 0, spoke |-> "none", decided |-> FALSE]

\* An initial state given to a thread that already has a checkpoint: its fields
\* overwrite, its user message is appended by the message reducer.
Reentered(g, context, late) == [Fresh(context, late) EXCEPT !.users = g.users + 1]

-----------------------------------------------------------------------------
(* Analysts                                                                *)

\* An analyst that asks for tools leaves an empty report, and is asked again
\* after its tool node; its clear node follows otherwise (should_continue_*).
Analysed(g, shape, answer) ==
  LET i   == g.node.i
      key == shape.analysts[i]
  IN  [g EXCEPT !.reports = IF answer = "report" THEN @ \cup {key} ELSE @ \ {key},
                !.node    = Node(IF answer = "tools" THEN "tools" ELSE "clear", i)]

ToolsDone(g, late) ==
  [g EXCEPT !.late = @ \cup late, !.node = Node("agent", g.node.i)]

\* create_msg_delete: every message goes, a placeholder of the user comes.
Cleared(g, shape) ==
  [g EXCEPT !.users = 1,
            !.node  = IF g.node.i < Len(shape.analysts) THEN Node("agent", g.node.i + 1)
                      ELSE Node("bull", 0)]

-----------------------------------------------------------------------------
(* The debates                                                             *)

\* should_continue_debate, asked after the speaker has been counted.
AfterDebate(g, shape) ==
  IF g.bull + g.bear >= 2 * shape.debate THEN Node("research", 0)
  ELSE IF g.last = "bull" THEN Node("bear", 0)
  ELSE Node("bull", 0)

Argued(g, shape) ==
  LET who  == g.node.kind
      said == [g EXCEPT ![who] = @ + 1, !.last = who]
  IN  [said EXCEPT !.node = AfterDebate(said, shape)]

\* The Research Manager's plan becomes the current response of the debate.
Planned(g) == [g EXCEPT !.plan = TRUE, !.last = "plan", !.node = Node("trader", 0)]

Proposed(g) == [g EXCEPT !.trade = TRUE, !.node = Node("agg", 0)]

\* should_continue_risk_analysis.
AfterRisk(g, shape) ==
  IF g.agg + g.con + g.neu >= 3 * shape.risk THEN Node("manager", 0)
  ELSE IF g.spoke = "agg" THEN Node("con", 0)
  ELSE IF g.spoke = "con" THEN Node("neu", 0)
  ELSE Node("agg", 0)

Weighed(g, shape) ==
  LET who  == g.node.kind
      said == [g EXCEPT ![who] = @ + 1, !.spoke = who]
  IN  [said EXCEPT !.node = AfterRisk(said, shape)]

Decided(g) == [g EXCEPT !.decided = TRUE, !.spoke = "judge", !.node = End]

-----------------------------------------------------------------------------
(* The status board of the command line (cli/main.py)                      *)

Researchers  == {"bull", "bear", "research"}
RiskTeam     == {"agg", "con", "neu"}
FixedAgents  == Researchers \cup {"trader"} \cup RiskTeam \cup {"manager"}

\* MessageBuffer.init_for_analysis; the first analyst is then set in progress.
NewBoard(shape) ==
  [a \in {shape.analysts[i] : i \in DOMAIN shape.analysts} \cup FixedAgents |->
     IF a = shape.analysts[1] THEN "in_progress" ELSE "pending"]

\* update_analyst_statuses: completed with a report, in progress if first of
\* those without, pending otherwise.  A report shown once stays in its section
\* though the state empties it.
Open(board, shape, g) ==
  {i \in DOMAIN shape.analysts :
     shape.analysts[i] \notin g.reports /\ board[shape.analysts[i]] # "completed"}

AnalystStatus(i, open) ==
  IF i \notin open THEN "completed"
  ELSE IF \A j \in open : i <= j THEN "in_progress" ELSE "pending"

\* Mutant of ResearchStatus: the verdict is acted on once, while the trader is
\* still to come.
ResearchStatusOnce(a, board, open, g) ==
  IF g.plan /\ board["trader"] = "pending" THEN "completed"
  ELSE IF g.bull + g.bear > 0 THEN "in_progress"
  ELSE IF a = "bull" /\ open = {} /\ board[a] = "pending" THEN "in_progress" ELSE board[a]

\* The bull is next when no analyst is left; the team works from the first
\* argument to the plan.  Both are set anew on every chunk.
ResearchStatus(a, board, open, g) ==
  IF g.plan THEN "completed"
  ELSE IF g.bull + g.bear > 0 THEN "in_progress"
  ELSE IF a = "bull" /\ open = {} /\ board[a] = "pending" THEN "in_progress" ELSE board[a]

\* Every chunk with a plan puts the trader in progress, every chunk with a
\* proposal completes it, and then puts the aggressive analyst in progress.
TraderStatus(board, g) ==
  IF g.trade THEN "completed" ELSE IF g.plan THEN "in_progress" ELSE board["trader"]

RiskStatus(a, board, g) ==
  IF g.decided /\ board["manager"] # "completed" THEN "completed"
  ELSE IF (a = "agg" /\ g.trade) \/ (g[a] > 0 /\ board[a] # "completed") THEN "in_progress"
  ELSE board[a]

\* What the board shows once a chunk, the graph's whole state, is processed.
Shown(board, shape, g) ==
  LET open == Open(board, shape, g)
  IN  [a \in DOMAIN board |->
         CASE a \in Researchers -> ResearchStatus(a, board, open, g)
           [] a = "trader"      -> TraderStatus(board, g)
           [] a \in RiskTeam    -> RiskStatus(a, board, g)
           [] a = "manager"     -> IF g.decided THEN "completed" ELSE board[a]
           [] OTHER -> AnalystStatus(CHOOSE i \in DOMAIN shape.analysts : shape.analysts[i] = a,
                                     open)]

\* REPORT_SECTIONS: the agent that finalizes each section of a team.
Finalizer == [plan |-> "research", trade |-> "trader", decision |-> "manager"]

\* Whose text a section of the panel shows once a chunk is processed.  A chunk
\* holds every text so far, so the texts of a debate are written into its
\* section again each time, in a fixed order; the Portfolio Manager's once.
SectionText(section, board, g) ==
  CASE section = "plan" ->
         IF g.plan THEN "research" ELSE IF g.bear > 0 THEN "bear"
         ELSE IF g.bull > 0 THEN "bull" ELSE "none"
    [] section = "trade" -> IF g.trade THEN "trader" ELSE "none"
    [] section = "decision" ->
         IF g.decided /\ board["manager"] # "completed" THEN "manager"
         ELSE IF g.neu > 0 THEN "neu" ELSE IF g.con > 0 THEN "con"
         ELSE IF g.agg > 0 THEN "agg" ELSE "none"

\* get_completed_reports_count: the sections that have a text and whose
\* finalizing agent is done, given the board before and after a chunk.
CompletedSections(before, after, g) ==
  {section \in DOMAIN Finalizer :
     SectionText(section, before, g) # "none" /\ after[Finalizer[section]] = "completed"}
=============================================================================
