------------------------------- MODULE Analysis -------------------------------
(***************************************************************************)
(* One AI analysis: signal_engine/analysis.py (SignalAnalyzer, one call)   *)
(* and signal_engine/multiagent.py (MultiAgentSignalAnalyzer, five calls   *)
(* in a row), both dispatched by analyze_signal.                           *)
(*                                                                         *)
(* A call is a record with the roles still to be asked, the calls made,    *)
(* how many of them came with no usage, and the flag that says some count  *)
(* is an estimate.  The model's last answer is a proposal [decision,       *)
(* entry, stop, take, confidence], prices as in Validator (a missing price *)
(* is the empty set).                                                      *)
(***************************************************************************)
EXTENDS Integers, Sequences, Validator

CONSTANTS
    Proposals,  \* what the model may propose
    Pipelines,  \* sequences of roles an analyzer asks
    Bindings    \* how the provider returns structured output

ASSUME AnalysisAssumption ==
    /\ Pipelines \subseteq {<<"analyzer">>, <<"analyst", "bull", "bear", "trader", "risk">>}
    /\ Bindings \subseteq {"raw", "parsed", "text"}

VARIABLES
    binding,  \* the provider's binding
    call      \* the analysis in progress, {} or one record

inference == <<binding, call>>

InferenceInit == binding \in Bindings /\ call = {}

Fresh(pipeline) ==
    [roles |-> pipeline, calls |-> 0, estimated |-> FALSE]

Begin(pipeline) == call' = {Fresh(pipeline)} /\ UNCHANGED binding

(* _extract_usage: only the raw envelope and a plain text response carry the *)
(* provider's counts; the parsed-only binding drops them.                    *)
MayBeMetered == binding # "parsed"

(* The totals after one more step: usage that is absent is estimated. *)
Accumulated(c, metered) ==
    [c EXCEPT !.roles = Tail(@), !.calls = @ + 1,
              !.estimated = @ \/ ~metered]

(* A step's answer parses. *)
Ask ==
    \E c \in call, metered \in BOOLEAN :
        /\ c.roles # <<>>
        /\ metered => MayBeMetered
        /\ call' = {Accumulated(c, metered)}
        /\ UNCHANGED binding

(* The step raises: a rate limit, another provider error, a parsing error, no *)
(* result, or an answer its schema refuses.                                   *)
Raises == (\E c \in call : c.roles # <<>>) /\ call' = {} /\ UNCHANGED binding

Answered == \E c \in call : c.roles = <<>>

(* _validate_decision_rules: a WAIT has no prices. *)
RulesHold(proposal) ==
    proposal.decision = "WAIT" =>
        proposal.entry = {} /\ proposal.stop = {} /\ proposal.take = {}

(* _validate_ordering, which only the committee applies. *)
OrderingHolds(proposal) ==
    proposal.decision # "WAIT" =>
        \E entry \in proposal.entry, stop \in proposal.stop, take \in proposal.take :
            PricesOrdered(proposal.decision, entry, stop, take)

(* The last answer becomes an analysis. *)
Accepted(proposal, pipeline) ==
    RulesHold(proposal) /\ (Len(pipeline) > 1 => OrderingHolds(proposal))

(* _to_analysis: the proposal with what the guards read of the context. *)
InContext(proposal, context) ==
    [decision |-> proposal.decision, entry |-> proposal.entry, stop |-> proposal.stop,
     take |-> proposal.take, confidence |-> proposal.confidence, close |-> context.close,
     atr |-> context.atr, funding |-> context.funding, regime |-> context.regime]
===============================================================================
