---------------------------- MODULE MCAgentRuns ----------------------------
(* Instances of AgentRuns for TLC.                                           *)
EXTENDS AgentRuns

\* Shallow graphs of one analyst, and a deeper one that ends with the analyst that
\* calls no tools: between them every tool is called.
Shallow == [analysts |-> <<"market">>, debate |-> 1, risk |-> 1]
Company == [analysts |-> <<"fundamentals">>, debate |-> 1, risk |-> 1]
Deep    == [analysts |-> <<"news", "social">>, debate |-> 2, risk |-> 1]

Request(way, ticker, shape, keep) ==
  [way |-> way, ticker |-> ticker, shape |-> shape, keep |-> keep]

\* Both entry points, with and without checkpoints, three shapes and two tickers.
SomeRequests ==
  {Request("propagate", "T1", Shallow, TRUE), Request("propagate", "T2", Company, FALSE),
   Request("cli", "T1", Deep, TRUE)}

\* Earlier runs left a decision on T2 that waits, and a lesson on T1 that was
\* settled before resolution days were recorded.
EarlierLog == <<Entry("T2", 0, Pending, 0), Entry("T1", 0, Legacy, 0)>>
=============================================================================
