-------------------------- MODULE SchedulerProofs ---------------------------
(***************************************************************************)
(* Theorems about Scheduler, for any number of daemons, candles, events    *)
(* and mishaps.                                                            *)
(*                                                                         *)
(* That a candle is analysed once is not inductive.  What makes it so is   *)
(* what a tick knows between its steps: the candle it is about to analyse  *)
(* lies above the marker (or its repetition is excused), the symbol has no *)
(* active signal until the tick creates one, and an analysis that is not   *)
(* yet marked is the tick's own.                                           *)
(***************************************************************************)
EXTENDS Scheduler, TLAPS

USE ClockAssumption, WindowAssumption, BreakerAssumption, MishapAssumption

(* The outcomes of a tick that has called the language model. *)
Outcomes == {"TRADE", "WAIT", "REJECTED", "CREATED"}

(* What the program counter of a tick says of its locals. *)
TickShape ==
    \A d \in Daemons :
        /\ pc[d] \in {"down", "idle", "event", "detect", "fetch", "call"}
            => verdict[d] = "none"
        /\ pc[d] = "process" => verdict[d] = "TRADE"
        /\ pc[d] = "mark" => verdict[d] # "none"
        /\ pc[d] \in {"fetch", "call", "process"} => slot[d] = "free"

(* Where the tick's candle lies. *)
CandleAhead ==
    \A d \in Daemons :
        /\ pc[d] \in {"fetch", "call", "process", "mark"} =>
            /\ candle[d] \in Candles
            /\ candle[d] >= marker[d]
        /\ pc[d] = "fetch" =>
            /\ candle[d] > marker[d]
            /\ candle[d] =< Closed(at[d])
        /\ pc[d] = "call" => calls[d][candle[d]] =< 0

(* A candle counts an analysis only when it is behind the marker, or is in *)
(* the hands of the tick that analysed it.                                 *)
CallsKnown ==
    \A d \in Daemons, c \in Candles :
        /\ calls[d][c] =< 1
        /\ \/ calls[d][c] =< 0
           \/ c =< marker[d]
           \/ verdict[d] \in Outcomes /\ candle[d] = c

IInv == TypeOK /\ TickShape /\ CandleAhead /\ CallsKnown

-----------------------------------------------------------------------------
(* A candle's number is an integer. *)
LEMMA ClosedInt == \A t \in Int : Closed(t) \in Int
BY DEF Closed

LEMMA InitIInv == Init => IInv
BY ClosedInt DEF Init, IInv, TypeOK, TickShape, CandleAhead, CallsKnown, Candles

(* The type invariant in four parts. *)
LedgerTyped ==
    /\ slot \in [Daemons -> {"free", "PENDING_ENTRY", "OPEN"}]
    /\ born \in [Daemons -> 0 .. MaxTime]
    /\ newest \in [Daemons -> {0} \cup Candles]
    /\ missed \subseteq Daemons

TickTyped ==
    /\ pc \in [Daemons -> {"down", "idle", "event", "detect", "fetch", "call",
                           "process", "mark"}]
    /\ at \in [Daemons -> 0 .. MaxTime]
    /\ candle \in [Daemons -> {0} \cup Candles]
    /\ verdict \in [Daemons -> {"none", "TRADE", "WAIT", "REJECTED", "CREATED",
                                "EVENT_BLACKOUT"}]

BreakerTyped ==
    /\ streak \in [Daemons -> Nat]
    /\ openUntil \in [Daemons -> 0 .. MaxTime + Cooldown]
    /\ lastError \in [Daemons -> {-Cooldown} \cup 0 .. MaxTime]

RestTyped ==
    /\ now \in 0 .. MaxTime
    /\ marker \in [Daemons -> {0} \cup Candles]
    /\ flagged \subseteq Events
    /\ handled \subseteq Daemons \X Events
    /\ left \in 0 .. MaxMishaps
    /\ calls \in [Daemons -> [Candles -> Int]]

LEMMA Parts == TypeOK <=> LedgerTyped /\ TickTyped /\ BreakerTyped /\ RestTyped
BY DEF TypeOK, LedgerTyped, TickTyped, BreakerTyped, RestTyped

(* However a tick ends, its locals are reset and its breaker stays typed. *)
LEMMA EndTyped ==
    ASSUME TickTyped, BreakerTyped, NEW d \in Daemons, EndWell(d) \/ EndInError(d)
    PROVE  TickTyped' /\ BreakerTyped'
<1>1. TickTyped'
  BY DEF EndWell, EndInError, Idle, Goto, TickTyped
<1>2. CASE EndWell(d)
  BY <1>1, <1>2 DEF EndWell, BreakerTyped
<1>3. CASE EndInError(d)
  BY <1>1, <1>3 DEF EndInError, BreakerTyped, TickTyped
<1> QED
  BY <1>2, <1>3

(* The slot's parts stay typed when it is freed. *)
LEMMA FreeTyped ==
    ASSUME LedgerTyped, NEW d \in Daemons, FreeSlot(d)
    PROVE  /\ slot' \in [Daemons -> {"free", "PENDING_ENTRY", "OPEN"}]
           /\ born' \in [Daemons -> 0 .. MaxTime]
           /\ missed' \subseteq Daemons
BY DEF FreeSlot, LedgerTyped

(* Counting keeps the counts integers. *)
LEMMA CountTyped ==
    ASSUME RestTyped, NEW d \in Daemons, NEW c, NEW n \in Int, Count(d, c, n)
    PROVE  calls' \in [Daemons -> [Candles -> Int]]
<1>1. CASE c \in Candles
  BY <1>1 DEF Count, RestTyped
<1>2. CASE c \notin Candles
  BY <1>2 DEF Count, RestTyped
<1> QED
  BY <1>1, <1>2

(* Every step of every daemon, the clock and the user keeps the types. *)
LEMMA NextTypeOK == TypeOK /\ [Next]_vars => TypeOK'
<1> SUFFICES ASSUME TypeOK, [Next]_vars PROVE TypeOK'
  OBVIOUS
<1> LedgerTyped /\ TickTyped /\ BreakerTyped /\ RestTyped
  BY Parts
<1>1. ASSUME NEW d \in Daemons, Start(d) PROVE TypeOK'
  BY <1>1 DEF Start, TypeOK, Goto, ledger
<1>2. ASSUME NEW d \in Daemons, EventStart(d) PROVE TypeOK'
  <2>1. LedgerTyped'
    BY <1>2, FreeTyped DEF EventStart, LedgerTyped
  <2>2. TickTyped' /\ BreakerTyped'
    BY <1>2 DEF EventStart, TickTyped, BreakerTyped, tick, breaker, Goto
  <2>3. RestTyped'
    BY <1>2 DEF EventStart, RestTyped, Spend, Blackout
  <2> QED
    BY <2>1, <2>2, <2>3 DEF TypeOK, LedgerTyped, TickTyped, BreakerTyped, RestTyped
<1>3. ASSUME NEW d \in Daemons, Detect(d) PROVE TypeOK'
  <2>1. LedgerTyped'
    BY <1>3 DEF Detect, LedgerTyped, ledger
  <2>2. RestTyped'
    BY <1>3 DEF Detect, RestTyped, Spend, Fetched
  <2>3. ASSUME EndWell(d) \/ EndInError(d) PROVE TickTyped' /\ BreakerTyped'
    BY <2>3, EndTyped
  <2>4. ASSUME ~(EndWell(d) \/ EndInError(d)) PROVE TickTyped' /\ BreakerTyped'
    BY <1>3, <2>4 DEF Detect, TickTyped, BreakerTyped, breaker, Goto
  <2> QED
    BY <2>1, <2>2, <2>3, <2>4 DEF TypeOK, LedgerTyped, TickTyped, BreakerTyped, RestTyped
<1>4. ASSUME NEW d \in Daemons, Fetch(d) PROVE TypeOK'
  <2>1. LedgerTyped'
    BY <1>4 DEF Fetch, LedgerTyped, ledger
  <2>2. calls' \in [Daemons -> [Candles -> Int]]
    <3>1. \A c \in Candles : Count(d, c, -1) => calls' \in [Daemons -> [Candles -> Int]]
      BY CountTyped
    <3> QED
      BY <1>4, <3>1 DEF Fetch, RestTyped
  <2>3. RestTyped'
    BY <1>4, <2>2 DEF Fetch, RestTyped, Spend, Fetched
  <2>4. ASSUME EndWell(d) \/ EndInError(d) PROVE TickTyped' /\ BreakerTyped'
    BY <2>4, EndTyped
  <2>5. ASSUME ~(EndWell(d) \/ EndInError(d)) PROVE TickTyped' /\ BreakerTyped'
    BY <1>4, <2>5 DEF Fetch, TickTyped, BreakerTyped, breaker, Goto
  <2> QED
    BY <2>1, <2>3, <2>4, <2>5 DEF TypeOK, LedgerTyped, TickTyped, BreakerTyped, RestTyped
<1>5. ASSUME NEW d \in Daemons, Call(d) PROVE TypeOK'
  <2>1. LedgerTyped'
    BY <1>5 DEF Call, LedgerTyped, ledger
  <2>2. calls' \in [Daemons -> [Candles -> Int]]
    <3>1. Count(d, candle[d], 1) => calls' \in [Daemons -> [Candles -> Int]]
      BY CountTyped
    <3> QED
      BY <1>5, <3>1 DEF Call, RestTyped
  <2>3. RestTyped'
    BY <1>5, <2>2 DEF Call, RestTyped, Spend
  <2>4. ASSUME EndInError(d) PROVE TickTyped' /\ BreakerTyped'
    BY <2>4, EndTyped
  <2>5. ASSUME ~EndInError(d) PROVE TickTyped' /\ BreakerTyped'
    BY <1>5, <2>5 DEF Call, TickTyped, BreakerTyped, breaker, Goto
  <2> QED
    BY <2>1, <2>3, <2>4, <2>5 DEF TypeOK, LedgerTyped, TickTyped, BreakerTyped, RestTyped
<1>6. ASSUME NEW d \in Daemons, Process(d) PROVE TypeOK'
  <2>1. LedgerTyped'
    <3>1. CASE UNCHANGED ledger
      BY <3>1 DEF ledger, LedgerTyped
    <3>2. CASE FreeSlot(d) /\ UNCHANGED newest
      BY <3>2, FreeTyped DEF LedgerTyped
    <3>3. CASE /\ slot' = [slot EXCEPT ![d] = "PENDING_ENTRY"]
               /\ born' = [born EXCEPT ![d] = now]
               /\ newest' = [newest EXCEPT ![d] = candle[d]]
               /\ UNCHANGED missed
      BY <3>3 DEF LedgerTyped, TickTyped, RestTyped
    <3> QED
      BY <1>6, <3>1, <3>2, <3>3 DEF Process
  <2>2. calls' \in [Daemons -> [Candles -> Int]]
    <3>1. Count(d, candle[d], -1) => calls' \in [Daemons -> [Candles -> Int]]
      BY CountTyped
    <3> QED
      BY <1>6, <3>1 DEF Process, RestTyped, Excuse
  <2>3. RestTyped'
    BY <1>6, <2>2 DEF Process, RestTyped, Spend
  <2>4. ASSUME EndWell(d) \/ EndInError(d) PROVE TickTyped' /\ BreakerTyped'
    BY <2>4, EndTyped
  <2>5. ASSUME ~(EndWell(d) \/ EndInError(d)) PROVE TickTyped' /\ BreakerTyped'
    BY <1>6, <2>5 DEF Process, TickTyped, BreakerTyped, breaker, Goto
  <2> QED
    BY <2>1, <2>3, <2>4, <2>5 DEF TypeOK, LedgerTyped, TickTyped, BreakerTyped, RestTyped
<1>7. ASSUME NEW d \in Daemons, Mark(d) PROVE TypeOK'
  <2>1. LedgerTyped'
    BY <1>7 DEF Mark, LedgerTyped, ledger
  <2>2. calls' \in [Daemons -> [Candles -> Int]]
    <3>1. Count(d, candle[d], -1) => calls' \in [Daemons -> [Candles -> Int]]
      BY CountTyped
    <3> QED
      BY <1>7, <3>1 DEF Mark, RestTyped, Excuse
  <2>3. RestTyped'
    <3>1. marker' \in [Daemons -> {0} \cup Candles]
      BY <1>7 DEF Mark, RestTyped, TickTyped
    <3>2. left' \in 0 .. MaxMishaps /\ UNCHANGED <<now, flagged, handled>>
      BY <1>7 DEF Mark, RestTyped, Spend
    <3> QED
      BY <2>2, <3>1, <3>2 DEF RestTyped
  <2>4. EndWell(d) \/ EndInError(d)
    BY <1>7 DEF Mark
  <2> QED
    BY <2>1, <2>3, <2>4, EndTyped DEF TypeOK, LedgerTyped, TickTyped, BreakerTyped, RestTyped
<1>8. ASSUME NEW d \in Daemons, Crash(d) PROVE TypeOK'
  <2>1. calls' \in [Daemons -> [Candles -> Int]]
    <3>1. Count(d, candle[d], -1) => calls' \in [Daemons -> [Candles -> Int]]
      BY CountTyped
    <3> QED
      BY <1>8, <3>1 DEF Crash, RestTyped, Excuse
  <2>2. LedgerTyped' /\ RestTyped'
    BY <1>8, <2>1 DEF Crash, LedgerTyped, RestTyped, ledger, Spend
  <2>3. TickTyped' /\ BreakerTyped'
    BY <1>8 DEF Crash, TickTyped, BreakerTyped
  <2> QED
    BY <2>2, <2>3 DEF TypeOK, LedgerTyped, TickTyped, BreakerTyped, RestTyped
<1>9. ASSUME NEW d \in Daemons, Restart(d) PROVE TypeOK'
  BY <1>9 DEF Restart, TypeOK, Goto, ledger, tick, breaker
<1>10. ASSUME NEW d \in Daemons, EnterTrade(d) \/ CloseTrade(d) \/ DeleteSignals(d)
       PROVE TypeOK'
  <2>1. LedgerTyped'
    BY <1>10, FreeTyped DEF EnterTrade, CloseTrade, DeleteSignals, LedgerTyped
  <2>2. UNCHANGED <<now, marker, flagged, handled, pc, tick, breaker, left, calls>>
    BY <1>10 DEF EnterTrade, CloseTrade, DeleteSignals
  <2> QED
    BY <2>1, <2>2 DEF TypeOK, LedgerTyped, tick, breaker
<1>11. CASE Clock
  BY <1>11 DEF Clock, TypeOK, ledger, tick, breaker
<1>12. CASE UNCHANGED vars
  BY <1>12 DEF vars, TypeOK, ledger, tick, breaker
<1> QED
  BY <1>1, <1>2, <1>3, <1>4, <1>5, <1>6, <1>7, <1>8, <1>9, <1>10, <1>11, <1>12
     DEF Next, TickStep

-----------------------------------------------------------------------------
(* What a tick knows *)

(* Only the daemon's own steps touch its locals, its marker and its counts. *)
Own(d) == <<pc[d], at[d], candle[d], verdict[d], marker[d], calls[d], slot[d]>>

(* The parts of IInv that speak of one daemon. *)
Knows(d) ==
    /\ pc[d] \in {"down", "idle", "event", "detect", "fetch", "call"}
        => verdict[d] = "none"
    /\ pc[d] = "process" => verdict[d] = "TRADE"
    /\ pc[d] = "mark" => verdict[d] # "none"
    /\ pc[d] \in {"fetch", "call", "process"} => slot[d] = "free"
    /\ pc[d] \in {"fetch", "call", "process", "mark"} =>
        /\ candle[d] \in Candles
        /\ candle[d] >= marker[d]
    /\ pc[d] = "fetch" =>
        /\ candle[d] > marker[d]
        /\ candle[d] =< Closed(at[d])
    /\ pc[d] = "call" => calls[d][candle[d]] =< 0
    /\ \A c \in Candles :
        /\ calls[d][c] =< 1
        /\ \/ calls[d][c] =< 0
           \/ c =< marker[d]
           \/ verdict[d] \in Outcomes /\ candle[d] = c

LEMMA KnowsAll ==
    (\A d \in Daemons : Knows(d)) <=> TickShape /\ CandleAhead /\ CallsKnown
BY DEF Knows, TickShape, CandleAhead, CallsKnown

(* A step of another daemon, or of the clock, leaves what d knows alone. *)
LEMMA OthersKeep ==
    ASSUME NEW d \in Daemons, Knows(d), UNCHANGED Own(d) PROVE Knows(d)'
BY DEF Knows, Own

(* A daemon's own steps keep what it knows. *)
LEMMA TickKnows ==
    ASSUME TypeOK, TypeOK', NEW d \in Daemons, Knows(d),
           TickStep(d) \/ Crash(d) \/ Restart(d)
              \/ EnterTrade(d) \/ CloseTrade(d) \/ DeleteSignals(d)
    PROVE  Knows(d)'
<1> USE DEF TypeOK, Goto, Outcomes
<1>0. /\ \A c \in Candles : c \in Int /\ c > 0
      /\ Closed(at[d]) \in Int
      /\ marker[d] \in Int /\ newest[d] \in Int /\ candle[d] \in Int
      /\ \A c \in Candles : calls[d][c] \in Int
  <2>1. Candles \subseteq Int /\ \A c \in Candles : c > 0
    BY ClosedInt DEF Candles
  <2>2. at[d] \in Int /\ \A c \in Candles : calls[d][c] \in Int
    OBVIOUS
  <2>3. marker[d] \in Int /\ newest[d] \in Int /\ candle[d] \in Int
    <3>1. /\ marker[d] \in {0} \cup Candles
          /\ newest[d] \in {0} \cup Candles
          /\ candle[d] \in {0} \cup Candles
      OBVIOUS
    <3>2. \A x \in {0} \cup Candles : x \in Int
      <4> HIDE DEF TypeOK
      <4> QED
        BY <2>1
    <3> HIDE DEF TypeOK
    <3> QED
      BY <3>1, <3>2
  <2>4. Closed(at[d]) \in Int
    BY <2>2, ClosedInt
  <2> QED
    BY <2>1, <2>2, <2>3, <2>4
<1>1. CASE Start(d)
  BY <1>0, <1>1 DEF Start, Knows
<1>2. CASE EventStart(d)
  BY <1>0, <1>2 DEF EventStart, Knows, tick
<1>3. CASE Detect(d)
  <2>1. CASE EndWell(d) \/ EndInError(d)
    BY <1>0, <1>3, <2>1 DEF Detect, Knows, EndWell, EndInError, Idle
  <2>2. ASSUME NEW c \in Candles, Fetched(d, c), c > LastProcessed(d),
               slot[d] = "free", ~(EndWell(d) \/ EndInError(d)),
               candle' = [candle EXCEPT ![d] = c]
        PROVE  Knows(d)'
    <3>1. c > marker[d] /\ c =< Closed(at[d])
      BY <1>0, <2>2 DEF LastProcessed, Fetched
    <3>2. /\ UNCHANGED <<slot, marker, calls, at>>
          /\ \/ pc'[d] = "mark" /\ verdict'[d] = "EVENT_BLACKOUT"
             \/ pc'[d] = "fetch" /\ verdict'[d] = "none"
      <4>1. verdict[d] = "none"
        BY <1>3 DEF Detect, Knows
      <4>2. \/ Goto(d, "mark") /\ verdict' = [verdict EXCEPT ![d] = "EVENT_BLACKOUT"]
            \/ Goto(d, "fetch") /\ UNCHANGED verdict
        BY <1>3, <2>2 DEF Detect
      <4>3. UNCHANGED <<slot, marker, calls, at>>
        BY <1>3, <2>2 DEF Detect, ledger
      <4> QED
        BY <4>1, <4>2, <4>3
    <3>3. candle'[d] = c
      BY <2>2
    <3> QED
      <4>1. \A x \in Candles :
              calls[d][x] =< 1 /\ (calls[d][x] =< 0 \/ x =< marker[d])
        BY <1>3 DEF Detect, Knows
      <4>2. c >= marker[d]
        <5> HIDE DEF TypeOK
        <5> QED
          BY <1>0, <3>1
      <4> QED
        BY <2>2, <3>1, <3>2, <3>3, <4>1, <4>2 DEF Knows
  <2>3. CASE ~(EndWell(d) \/ EndInError(d))
    <3>1. PICK c \in Candles :
            /\ Fetched(d, c)
            /\ ~(c =< LastProcessed(d) \/ slot[d] # "free")
            /\ candle' = [candle EXCEPT ![d] = c]
      BY <1>3, <2>3 DEF Detect
    <3>2. LastProcessed(d) \in Int
      BY <1>0 DEF LastProcessed
    <3>3. c > LastProcessed(d)
      BY <1>0, <3>1, <3>2
    <3> QED
      BY <2>2, <2>3, <3>1, <3>3
  <2> QED
    BY <2>1, <2>3
<1>4. CASE Fetch(d)
  <2>1. CASE EndWell(d) \/ EndInError(d)
    BY <1>0, <1>4, <2>1 DEF Fetch, Knows, EndWell, EndInError, Idle
  <2>2. ASSUME NEW c \in Candles, Fetched(d, c), ~(EndWell(d) \/ EndInError(d)),
               candle' = [candle EXCEPT ![d] = c],
               IF c < candle[d] THEN Count(d, c, -1) ELSE UNCHANGED calls
        PROVE  Knows(d)'
    <3>1. c >= candle[d] \/ c = candle[d] - 1
      BY <1>0, <1>4, <2>2 DEF Fetch, Fetched, Knows
    <3>2. c >= marker[d]
      BY <1>0, <1>4, <2>2, <3>1 DEF Knows, Fetch
    <3>3. \A x \in Candles :
            calls'[d][x] = IF c < candle[d] /\ x = c THEN calls[d][x] - 1
                           ELSE calls[d][x]
      BY <1>0, <2>2 DEF Count
    <3>4. calls'[d][c] =< 0
      BY <1>0, <1>4, <2>2, <3>1, <3>3 DEF Knows, Fetch
    <3>5. \A x \in Candles :
            calls[d][x] =< 1 /\ (calls[d][x] =< 0 \/ x =< marker[d])
      BY <1>0, <1>4 DEF Knows, Fetch
    <3>6. \A x \in Candles :
            calls'[d][x] =< 1 /\ (calls'[d][x] =< 0 \/ x =< marker[d])
      <4> HIDE DEF TypeOK
      <4> QED
        BY <1>0, <3>3, <3>5
    <3>7. /\ UNCHANGED <<slot, marker>>
          /\ pc'[d] = "call" /\ candle'[d] = c /\ verdict'[d] = "none"
          /\ slot[d] = "free"
      BY <1>4, <2>2 DEF Fetch, Knows, ledger
    <3> QED
      BY <2>2, <3>2, <3>4, <3>6, <3>7 DEF Knows
  <2> QED
    BY <1>4, <2>1, <2>2 DEF Fetch
<1>5. CASE Call(d)
  <2>1. CASE EndInError(d) /\ UNCHANGED calls
    BY <1>0, <1>5, <2>1 DEF Call, Knows, EndInError, Idle
  <2>2. CASE Count(d, candle[d], 1) /\ UNCHANGED <<at, candle>>
    BY <1>0, <1>5, <2>2 DEF Call, Knows, Count, ledger, EndInError
  <2> QED
    BY <1>5, <2>1, <2>2 DEF Call
<1>6. CASE Process(d)
  <2>1. slot[d] = "free" /\ candle[d] \in Candles /\ UNCHANGED marker
    BY <1>6 DEF Process, Knows
  <2>2. CASE EndInError(d) /\ Excuse(d)
    BY <1>0, <1>6, <2>1, <2>2 DEF Process, Knows, EndInError, Idle, Excuse, Count
  <2>3. CASE /\ verdict' \in {[verdict EXCEPT ![d] = "REJECTED"],
                               [verdict EXCEPT ![d] = "CREATED"]}
             /\ Goto(d, "mark")
             /\ UNCHANGED <<at, candle, calls>>
    <3>1. /\ pc'[d] = "mark" /\ verdict'[d] \in {"REJECTED", "CREATED"}
          /\ candle'[d] = candle[d] /\ marker'[d] = marker[d] /\ calls'[d] = calls[d]
      BY <2>1, <2>3
    <3>2. candle[d] >= marker[d]
      BY <1>6 DEF Process, Knows
    <3> QED
      BY <1>0, <1>6, <2>1, <3>1, <3>2 DEF Process, Knows
  <2> QED
    BY <1>6, <2>1, <2>2, <2>3 DEF Process
<1>7. CASE Mark(d)
  <2>1. Idle(d) /\ UNCHANGED slot
    BY <1>7 DEF Mark, EndWell, EndInError, ledger
  <2>2. CASE marker' = [marker EXCEPT ![d] = candle[d]] /\ UNCHANGED calls
    <3>1. /\ pc'[d] = "idle" /\ verdict'[d] = "none"
          /\ marker'[d] = candle[d] /\ calls'[d] = calls[d]
      BY <2>1, <2>2 DEF Idle
    <3>2. candle[d] >= marker[d]
      BY <1>7 DEF Mark, Knows
    <3>3. \A c \in Candles :
            /\ calls[d][c] =< 1
            /\ calls[d][c] =< 0 \/ c =< marker[d] \/ c = candle[d]
      BY DEF Knows
    <3>4. \A c \in Candles :
            calls[d][c] =< 1 /\ (calls[d][c] =< 0 \/ c =< candle[d])
      <4> HIDE DEF TypeOK
      <4> QED
        BY <1>0, <3>2, <3>3
    <3> QED
      BY <3>1, <3>4 DEF Knows
  <2>3. CASE UNCHANGED <<marker, calls>> /\ verdict[d] = "EVENT_BLACKOUT"
    BY <1>0, <1>7, <2>1, <2>3 DEF Mark, Knows, Idle
  <2>4. CASE UNCHANGED marker /\ Excuse(d)
    BY <1>0, <1>7, <2>1, <2>4 DEF Mark, Knows, Idle, Excuse, Count
  <2> QED
    BY <1>7, <2>2, <2>3, <2>4 DEF Mark
<1>8. CASE Crash(d)
  <2>1. CASE verdict[d] \in Outcomes /\ Excuse(d)
    BY <1>0, <1>8, <2>1 DEF Crash, Knows, Excuse, Count
  <2>2. CASE verdict[d] \notin Outcomes /\ UNCHANGED calls
    BY <1>0, <1>8, <2>2 DEF Crash, Knows
  <2> QED
    BY <1>8, <2>1, <2>2 DEF Crash
<1>9. CASE Restart(d)
  BY <1>0, <1>9 DEF Restart, Knows, tick
<1>10. CASE EnterTrade(d) \/ CloseTrade(d) \/ DeleteSignals(d)
  BY <1>0, <1>10 DEF EnterTrade, CloseTrade, DeleteSignals, FreeSlot, Knows, tick
<1> QED
  BY <1>1, <1>2, <1>3, <1>4, <1>5, <1>6, <1>7, <1>8, <1>9, <1>10 DEF TickStep

(* No daemon writes another's locals, marker, counts or slot. *)
LEMMA OthersAlone ==
    ASSUME TypeOK, NEW d \in Daemons, NEW e \in Daemons, e # d,
           TickStep(d) \/ Crash(d) \/ Restart(d)
              \/ EnterTrade(d) \/ CloseTrade(d) \/ DeleteSignals(d)
    PROVE  UNCHANGED Own(e)
<1> USE DEF TypeOK, Own, Goto, FreeSlot, Idle, Count, Excuse, ledger, tick
<1>1. CASE Start(d) \/ EventStart(d)
  BY <1>1 DEF Start, EventStart
<1>2. CASE Detect(d) \/ Fetch(d)
  BY <1>2 DEF Detect, Fetch, EndWell, EndInError
<1>3. CASE Call(d)
  BY <1>3 DEF Call, EndInError
<1>4. CASE Process(d)
  BY <1>4 DEF Process, EndWell, EndInError
<1>5. CASE Mark(d)
  BY <1>5 DEF Mark, EndWell, EndInError
<1>6. CASE Crash(d) \/ Restart(d)
  BY <1>6 DEF Crash, Restart
<1>7. CASE EnterTrade(d) \/ CloseTrade(d) \/ DeleteSignals(d)
  BY <1>7 DEF EnterTrade, CloseTrade, DeleteSignals
<1> QED
  BY <1>1, <1>2, <1>3, <1>4, <1>5, <1>6, <1>7 DEF TickStep

-----------------------------------------------------------------------------
(* Theorems *)

LEMMA IInvIsInvariant == Spec => []IInv
<1>1. IInv /\ [Next]_vars => IInv'
  <2> SUFFICES ASSUME IInv, [Next]_vars PROVE IInv'
    OBVIOUS
  <2>1. TypeOK /\ TypeOK' /\ \A d \in Daemons : Knows(d)
    BY NextTypeOK, KnowsAll DEF IInv
  <2>2. ASSUME NEW e \in Daemons PROVE Knows(e)'
    <3>1. ASSUME NEW d \in Daemons,
                 TickStep(d) \/ Crash(d) \/ Restart(d)
                    \/ EnterTrade(d) \/ CloseTrade(d) \/ DeleteSignals(d)
          PROVE  Knows(e)'
      BY <2>1, <2>2, <3>1, TickKnows, OthersAlone, OthersKeep
    <3>2. CASE Clock \/ UNCHANGED vars
      <4> UNCHANGED Own(e)
        BY <3>2 DEF Clock, vars, Own, ledger, tick
      <4> QED
        BY <2>1, <2>2, OthersKeep
    <3> QED
      BY <3>1, <3>2 DEF Next
  <2>3. (TickShape /\ CandleAhead /\ CallsKnown)'
    BY <2>2, KnowsAll DEF Knows, TickShape, CandleAhead, CallsKnown
  <2> QED
    BY <2>1, <2>3 DEF IInv
<1> QED
  BY InitIInv, <1>1, PTL DEF Spec

(* Every reachable state of the schedulers is well typed: no counter, count *)
(* or instant leaves its range.                                             *)
THEOREM TypeCorrect == Spec => []TypeOK
<1>1. IInv => TypeOK
  BY DEF IInv
<1> QED
  BY IInvIsInvariant, <1>1, PTL

(* A candle is analysed once, and again only for a reason: whatever the     *)
(* number of daemons, candles, errors, kills and deletions.                 *)
THEOREM CallsAreExplained == Spec => []CallsExplained
<1>1. IInv => CallsExplained
  BY DEF IInv, CallsKnown, CallsExplained
<1> QED
  BY IInvIsInvariant, <1>1, PTL
-----------------------------------------------------------------------------
(* No entry waits through a blackout its daemon has handled: windows        *)
(* without gaps, any number of daemons                                      *)

NoGaps ==
    \A e \in Events : \A s, u \in Window[e], t \in Nat :
        s =< t /\ t =< u => t \in Window[e]

(* The blackouts whose start d has handled ... *)
Handled(d) == {e \in Events : <<d, e>> \in handled}

(* ... had begun by t, or are over at t. *)
Begun(d, t) == \A e \in Handled(d) : \E s \in Window[e] : s =< t
Over(d, t) == \A e \in Handled(d) : \A s \in Window[e] : s < t

(* A tick is not older than what its daemon has handled, one that is past  *)
(* the gate began after all of it, and so did the one that created a       *)
(* pending entry.                                                          *)
Clears(d) ==
    /\ Begun(d, now)
    /\ pc[d] \notin {"down", "idle"} => at[d] =< now /\ Begun(d, at[d])
    /\ pc[d] \in {"fetch", "call", "process"} => Over(d, at[d])
    /\ slot[d] = "PENDING_ENTRY" /\ d \notin missed => Over(d, now)

ClearInv == TypeOK /\ \A d \in Daemons : Clears(d)

LEMMA BlackoutHolds ==
    ASSUME NEW t
    PROVE  /\ \A e \in Blackout(t) : e \in Events /\ t \in Window[e]
           /\ Blackout(t) = {} => \A e \in Events : t \notin Window[e]
BY DEF Blackout

LEMMA GateIsAfter ==
    ASSUME NoGaps, NEW d, NEW t \in Nat, Begun(d, t), Blackout(t) = {}
    PROVE  Over(d, t)
<1> SUFFICES ASSUME NEW e \in Handled(d), NEW u \in Window[e], ~(u < t) PROVE FALSE
  BY DEF Over
<1>1. e \in Events /\ Window[e] \subseteq Nat /\ t \notin Window[e]
  BY BlackoutHolds DEF Handled
<1>2. PICK s \in Window[e] : s =< t
  BY DEF Begun
<1> QED
  BY <1>1, <1>2 DEF NoGaps

(* Time only adds to what is over. *)
LEMMA LaterIsOver ==
    ASSUME NEW d, NEW s \in Nat, NEW t \in Nat, s =< t
    PROVE  (Over(d, s) => Over(d, t)) /\ (Begun(d, s) => Begun(d, t))
<1> \A e \in Handled(d) : Window[e] \subseteq Nat
  BY DEF Handled
<1> QED
  BY DEF Over, Begun

LEMMA ClearsStep ==
    ASSUME NoGaps, TypeOK, NEW d \in Daemons, Clears(d),
           TickStep(d) \/ Crash(d) \/ Restart(d)
              \/ EnterTrade(d) \/ CloseTrade(d) \/ DeleteSignals(d)
    PROVE  Clears(d)'
<1>1. /\ now \in Nat /\ at[d] \in Nat
      /\ pc[d] \in {"down", "idle", "event", "detect", "fetch", "call", "process", "mark"}
  BY DEF TypeOK
<1>2. now' = now
  BY DEF TickStep, Start, EventStart, Detect, Fetch, Call, Process, Mark, Crash, Restart,
         EnterTrade, CloseTrade, DeleteSignals
(* Where nothing new is handled, three facts about d are enough. *)
<1>3. ASSUME Handled(d)' = Handled(d),
             pc'[d] \notin {"down", "idle"} => at'[d] =< now /\ Begun(d, at'[d]),
             pc'[d] \in {"fetch", "call", "process"} => Over(d, at'[d]),
             slot'[d] = "PENDING_ENTRY" /\ d \notin missed' => Over(d, now)
      PROVE  Clears(d)'
  BY <1>2, <1>3 DEF Begun, Over, Clears
<1>4. ASSUME Handled(d)' = Handled(d), slot' = slot, missed' = missed,
             pc'[d] \in {"down", "idle"}
      PROVE  Clears(d)'
  BY <1>3, <1>4 DEF Clears
<1>5. CASE EventStart(d)
  <2>1. /\ pc[d] = "event" /\ pc'[d] = "detect" /\ at' = at
        /\ handled' = handled \cup ({d} \X Blackout(at[d]))
    BY <1>5 DEF EventStart, Goto, tick, TypeOK
  <2>2. slot'[d] # "PENDING_ENTRY" \/ d \in missed'
    BY <1>5 DEF EventStart, FreeSlot, TypeOK
  <2>3. at[d] =< now /\ Begun(d, at[d])
    BY <2>1 DEF Clears
  <2>4. Handled(d)' = Handled(d) \cup Blackout(at[d])
    BY <2>1, BlackoutHolds DEF Handled
  <2>5. \A e \in Handled(d)' : Window[e] \subseteq Nat /\ \E s \in Window[e] : s =< at[d]
    <3> SUFFICES ASSUME NEW e \in Handled(d)'
                 PROVE  Window[e] \subseteq Nat /\ \E s \in Window[e] : s =< at[d]
      OBVIOUS
    <3>1. CASE e \in Handled(d)
      BY <2>3, <3>1 DEF Begun, Handled
    <3>2. CASE e \in Blackout(at[d])
      BY <1>1, <3>2, BlackoutHolds
    <3> QED
      BY <2>4, <3>1, <3>2
  <2>6. Begun(d, now)' /\ Begun(d, at[d])'
    BY <1>1, <1>2, <2>1, <2>3, <2>5 DEF Begun
  <2> QED
    BY <1>2, <2>1, <2>2, <2>3, <2>6 DEF Clears
<1>6. CASE Start(d)
  <2>1. /\ slot' = slot /\ missed' = missed /\ at'[d] = now /\ Handled(d)' = Handled(d)
        /\ pc'[d] \in {"event", "detect"}
    BY <1>6 DEF Start, Goto, ledger, TypeOK, Handled
  <2> QED
    BY <1>1, <1>3, <2>1 DEF Clears
<1>7. CASE Detect(d)
  <2>1. Handled(d)' = Handled(d) /\ slot' = slot /\ missed' = missed /\ pc[d] = "detect"
    BY <1>7 DEF Detect, ledger, Handled
  <2>2. at[d] =< now /\ Begun(d, at[d])
    BY <2>1 DEF Clears
  <2>3. \/ pc'[d] = "idle"
        \/ pc'[d] = "mark" /\ at' = at
        \/ pc'[d] = "fetch" /\ at' = at /\ Blackout(at[d]) = {}
    BY <1>7 DEF Detect, EndWell, EndInError, Idle, Goto, TypeOK
  <2>4. Blackout(at[d]) = {} => Over(d, at[d])
    BY <1>1, <2>2, GateIsAfter
  <2> QED
    BY <1>3, <1>4, <2>1, <2>2, <2>3, <2>4 DEF Clears
<1>8. CASE Fetch(d) \/ Call(d)
  <2>1. /\ Handled(d)' = Handled(d) /\ slot' = slot /\ missed' = missed
        /\ pc[d] \in {"fetch", "call"}
    BY <1>8 DEF Fetch, Call, ledger, Handled
  <2>2. at[d] =< now /\ Begun(d, at[d]) /\ Over(d, at[d])
    BY <2>1 DEF Clears
  <2>3. pc'[d] = "idle" \/ (pc'[d] \in {"call", "process", "mark"} /\ at' = at)
    BY <1>8 DEF Fetch, Call, EndWell, EndInError, Idle, Goto, TypeOK
  <2> QED
    BY <1>3, <1>4, <2>1, <2>2, <2>3 DEF Clears
<1>9. CASE Process(d)
  <2>1. Handled(d)' = Handled(d) /\ pc[d] = "process"
    BY <1>9 DEF Process, Handled
  <2>2. at[d] =< now /\ Begun(d, at[d]) /\ Over(d, at[d])
    BY <2>1 DEF Clears
  <2>3. pc'[d] = "idle" \/ (pc'[d] = "mark" /\ at' = at)
    BY <1>9 DEF Process, EndWell, EndInError, Idle, Goto, TypeOK
  <2>4. Over(d, now)
    BY <1>1, <2>2, LaterIsOver
  <2> QED
    BY <1>3, <2>1, <2>2, <2>3, <2>4
<1>10. CASE Mark(d) \/ Crash(d) \/ Restart(d)
  <2>1. Handled(d)' = Handled(d) /\ slot' = slot /\ missed' = missed
    BY <1>10 DEF Mark, Crash, Restart, ledger, Handled
  <2>2. pc'[d] \in {"down", "idle"}
    BY <1>10 DEF Mark, Crash, Restart, EndWell, EndInError, Idle, Goto, TypeOK
  <2> QED
    BY <1>4, <2>1, <2>2
<1>11. CASE EnterTrade(d) \/ CloseTrade(d) \/ DeleteSignals(d)
  <2>1. Handled(d)' = Handled(d) /\ pc' = pc /\ at' = at
    BY <1>11 DEF EnterTrade, CloseTrade, DeleteSignals, tick, Handled
  <2>2. slot'[d] # "PENDING_ENTRY"
    BY <1>11 DEF EnterTrade, CloseTrade, DeleteSignals, FreeSlot, TypeOK
  <2> QED
    BY <1>3, <2>1, <2>2 DEF Clears
<1> QED
  BY <1>5, <1>6, <1>7, <1>8, <1>9, <1>10, <1>11 DEF TickStep

(* A step of d does not touch what Clears says of another daemon. *)
LEMMA OthersClear ==
    ASSUME TypeOK, NEW d \in Daemons, NEW e \in Daemons, e # d, Clears(e),
           TickStep(d) \/ Crash(d) \/ Restart(d)
              \/ EnterTrade(d) \/ CloseTrade(d) \/ DeleteSignals(d)
    PROVE  Clears(e)'
<1>1. UNCHANGED Own(e)
  BY OthersAlone
<1>2. now' = now
  BY DEF TickStep, Start, EventStart, Detect, Fetch, Call, Process, Mark, Crash, Restart,
         EnterTrade, CloseTrade, DeleteSignals
<1>3. e \in missed' <=> e \in missed
  <2> USE DEF FreeSlot, ledger
  <2>1. CASE Start(d) \/ EventStart(d) \/ Detect(d) \/ Fetch(d) \/ Call(d)
    BY <2>1 DEF Start, EventStart, Detect, Fetch, Call
  <2>2. CASE Process(d) \/ Mark(d) \/ Crash(d) \/ Restart(d)
    BY <2>2 DEF Process, Mark, Crash, Restart
  <2>3. CASE EnterTrade(d) \/ CloseTrade(d) \/ DeleteSignals(d)
    BY <2>3 DEF EnterTrade, CloseTrade, DeleteSignals
  <2> QED
    BY <2>1, <2>2, <2>3 DEF TickStep
<1>4. Handled(e)' = Handled(e)
  <2>1. CASE EventStart(d)
    BY <2>1 DEF EventStart, Handled
  <2>2. CASE UNCHANGED handled
    BY <2>2 DEF Handled
  <2>3. EventStart(d) \/ UNCHANGED handled
    BY DEF TickStep, Start, Detect, Fetch, Call, Process, Mark, Crash, Restart,
           EnterTrade, CloseTrade, DeleteSignals
  <2> QED
    BY <2>1, <2>2, <2>3
<1> QED
  BY <1>1, <1>2, <1>3, <1>4 DEF Clears, Own, Begun, Over

LEMMA ClearsKept ==
    ASSUME NoGaps, ClearInv, [Next]_vars
    PROVE  ClearInv'
<1>1. TypeOK /\ TypeOK'
  BY NextTypeOK DEF ClearInv
<1>2. ASSUME NEW d \in Daemons,
             TickStep(d) \/ Crash(d) \/ Restart(d)
                \/ EnterTrade(d) \/ CloseTrade(d) \/ DeleteSignals(d)
      PROVE  ClearInv'
  BY <1>1, <1>2, ClearsStep, OthersClear DEF ClearInv
<1>3. CASE Clock
  <2>1. now \in Nat /\ now' = now + 1
    BY <1>1, <1>3 DEF Clock, TypeOK
  <2>2. /\ handled' = handled /\ pc' = pc /\ at' = at /\ slot' = slot /\ missed' = missed
        /\ at \in [Daemons -> Nat]
    BY <1>1, <1>3 DEF Clock, tick, ledger, TypeOK
  <2>3. ASSUME NEW d \in Daemons PROVE Clears(d)'
    <3>1. Clears(d)
      BY DEF ClearInv
    <3>2. Handled(d)' = Handled(d)
      BY <2>2 DEF Handled
    <3>3. (Begun(d, at[d]) => Begun(d, at[d])') /\ (Over(d, at[d]) => Over(d, at[d])')
      BY <2>2, <3>2 DEF Begun, Over
    <3>4. Begun(d, now + 1) /\ (Over(d, now) => Over(d, now + 1))
      BY <2>1, <3>1, LaterIsOver DEF Clears
    <3>5. Begun(d, now)' /\ (Over(d, now) => Over(d, now)')
      BY <2>1, <3>2, <3>4 DEF Begun, Over
    <3>6. at[d] =< now => at'[d] =< now'
      BY <2>1, <2>2
    <3> QED
      BY <2>2, <3>1, <3>3, <3>5, <3>6 DEF Clears
  <2> QED
    BY <1>1, <2>3 DEF ClearInv
<1>4. CASE UNCHANGED vars
  BY <1>1, <1>4 DEF ClearInv, Clears, Begun, Over, Handled, vars, tick, ledger
<1> QED
  BY <1>2, <1>3, <1>4 DEF Next

(* A daemon that has handled the start of a blackout has no pending entry   *)
(* through it unless the cancellation failed (_event_watch), for any        *)
(* daemons, candles, windows without gaps, errors, kills and deletions, and *)
(* whoever sets the shared flag.  A daemon kept from handling the start by  *)
(* another one's flag is promised nothing.                                  *)
THEOREM BlackoutIsClear ==
    ASSUME NoGaps
    PROVE  Spec => []BlackoutClears
<1>1. Init => ClearInv
  <2>1. Init => TypeOK
    BY InitIInv DEF IInv
  <2> QED
    BY <2>1 DEF Init, ClearInv, Begun, Clears, Handled
<1>2. ClearInv /\ [Next]_vars => ClearInv'
  BY ClearsKept
<1>3. ClearInv => BlackoutClears
  <2> SUFFICES ASSUME ClearInv, NEW d \in Daemons, NEW e \in Blackout(now),
                      <<d, e>> \in handled, slot[d] = "PENDING_ENTRY", d \notin missed
               PROVE  FALSE
    BY DEF BlackoutClears
  <2>1. e \in Handled(d) /\ now \in Window[e] /\ now \in Nat /\ Over(d, now)
    BY BlackoutHolds DEF ClearInv, Clears, TypeOK, Handled
  <2> QED
    BY <2>1 DEF Over
<1> QED
  BY <1>1, <1>2, <1>3, PTL DEF Spec

-----------------------------------------------------------------------------
(* The breaker *)

Ticking == {"event", "detect", "fetch", "call", "process", "mark"}

(* From the BreakerN-th error in a row on, the pause lasts a cooldown from  *)
(* the last one, and a tick that is under way began after it.               *)
Pauses(d) ==
    /\ pc[d] = "down" => streak[d] = 0
    /\ streak[d] >= BreakerN /\ pc[d] = "idle" => openUntil[d] >= lastError[d] + Cooldown
    /\ streak[d] >= BreakerN /\ pc[d] \in Ticking => at[d] >= lastError[d] + Cooldown

(* The part of the state the breaker of a daemon depends on. *)
Timing(d) == <<pc[d], at[d], streak[d], openUntil[d], lastError[d]>>

(* A tick begins, goes on, or ends well or in an error. *)
LEMMA TickGoesOn ==
    ASSUME TypeOK, NEW d \in Daemons, TickStep(d)
    PROVE  \/ Start(d)
           \/ pc[d] \in Ticking /\ (EndWell(d) \/ EndInError(d))
           \/ /\ pc[d] \in Ticking /\ UNCHANGED <<at, breaker>>
              /\ \E l \in Ticking : Goto(d, l)
<1>1. CASE EventStart(d)
  BY <1>1 DEF EventStart, Ticking, tick
<1>2. CASE Detect(d)
  BY <1>2 DEF Detect, Ticking
<1>3. CASE Fetch(d)
  BY <1>3 DEF Fetch, Ticking
<1>4. CASE Call(d)
  BY <1>4 DEF Call, Ticking
<1>5. CASE Process(d)
  BY <1>5 DEF Process, Ticking
<1>6. CASE Mark(d)
  BY <1>6 DEF Mark, Ticking
<1> QED
  BY <1>1, <1>2, <1>3, <1>4, <1>5, <1>6 DEF TickStep

(* What a step does to the timing of its own daemon, and of every other. *)
LEMMA TimingSteps ==
    ASSUME TypeOK, NEW d \in Daemons, NEW e \in Daemons,
           TickStep(d) \/ Crash(d) \/ Restart(d)
              \/ EnterTrade(d) \/ CloseTrade(d) \/ DeleteSignals(d)
    PROVE  \/ UNCHANGED Timing(e)
           \/ /\ pc[e] = "idle" /\ pc'[e] \in Ticking
              /\ at'[e] = now /\ now >= openUntil[e] /\ UNCHANGED <<streak[e], lastError[e]>>
           \/ pc'[e] \in {"idle", "down"} /\ streak'[e] = 0
           \/ /\ pc[e] \in Ticking /\ pc'[e] = "idle"
              /\ streak'[e] = streak[e] + 1 /\ lastError'[e] = at[e]
              /\ streak[e] + 1 >= BreakerN => openUntil'[e] = at[e] + Cooldown
           \/ /\ pc[e] \in Ticking /\ pc'[e] \in Ticking
              /\ UNCHANGED <<at[e], streak[e], lastError[e]>>
           \/ pc[e] = "down" /\ pc'[e] = "idle" /\ UNCHANGED streak[e]
<1> USE DEF TypeOK, Goto, Timing
<1>1. CASE Start(d)
  BY <1>1 DEF Start, Ticking
<1>2. CASE pc[d] \in Ticking /\ EndWell(d)
  BY <1>2 DEF EndWell, Idle
<1>3. CASE pc[d] \in Ticking /\ EndInError(d)
  BY <1>3 DEF EndInError, Idle
<1>4. CASE /\ pc[d] \in Ticking /\ UNCHANGED <<at, breaker>>
           /\ \E l \in Ticking : Goto(d, l)
  BY <1>4 DEF breaker
<1>5. CASE Crash(d)
  BY <1>5 DEF Crash
<1>6. CASE Restart(d)
  BY <1>6 DEF Restart, tick, breaker
<1>7. CASE EnterTrade(d) \/ CloseTrade(d) \/ DeleteSignals(d)
  BY <1>7 DEF EnterTrade, CloseTrade, DeleteSignals, tick, breaker
<1> HIDE DEF TypeOK, Goto, Timing
<1> QED
  BY <1>1, <1>2, <1>3, <1>4, <1>5, <1>6, <1>7, TickGoesOn

(* An error after the breaker has opened comes a cooldown after the one     *)
(* before, for any number of daemons, errors, kills and restarts: the       *)
(* half-open breaker grants one trial (tick, consecutive_failures).         *)
THEOREM BreakerIsPatient == Spec => BreakerPauses
<1> DEFINE Inv == TypeOK /\ \A d \in Daemons : Pauses(d)
           Patient == \A d \in Daemons :
                streak'[d] > streak[d] /\ streak[d] >= BreakerN
                    => at[d] >= lastError[d] + Cooldown
<1>1. Init => Inv
  <2>1. Init => TypeOK
    BY InitIInv DEF IInv
  <2> QED
    BY <2>1, BreakerAssumption DEF Init, Pauses, Ticking
<1>2. ASSUME Inv, [Next]_vars PROVE Inv' /\ Patient
  <2>1. TypeOK /\ TypeOK'
    BY <1>2, NextTypeOK
  <2>2. ASSUME NEW e \in Daemons
        PROVE  Pauses(e)' /\ (streak'[e] > streak[e] /\ streak[e] >= BreakerN
                                => at[e] >= lastError[e] + Cooldown)
    <3>1. Pauses(e)
      BY <1>2
    <3>2. /\ streak[e] \in Nat /\ openUntil[e] \in Int /\ lastError[e] \in Int
          /\ at[e] \in Int /\ now \in Int
          /\ BreakerN \in Nat \ {0} /\ Cooldown \in Nat \ {0} /\ pc[e] \notin Ticking \cap {"idle", "down"}
      BY <2>1, BreakerAssumption DEF TypeOK, Ticking
    <3>3. CASE UNCHANGED Timing(e)
      BY <3>1, <3>2, <3>3 DEF Pauses, Timing
    <3>4. ASSUME NEW d \in Daemons,
                 TickStep(d) \/ Crash(d) \/ Restart(d)
                    \/ EnterTrade(d) \/ CloseTrade(d) \/ DeleteSignals(d)
          PROVE  Pauses(e)' /\ (streak'[e] > streak[e] /\ streak[e] >= BreakerN
                                  => at[e] >= lastError[e] + Cooldown)
      <4>1. CASE /\ pc[e] = "idle" /\ pc'[e] \in Ticking
                 /\ at'[e] = now /\ now >= openUntil[e] /\ UNCHANGED <<streak[e], lastError[e]>>
        BY <3>1, <3>2, <4>1 DEF Pauses, Ticking
      <4>2. CASE pc'[e] \in {"idle", "down"} /\ streak'[e] = 0
        BY <3>2, <4>2 DEF Pauses, Ticking
      <4>3. CASE /\ pc[e] \in Ticking /\ pc'[e] = "idle"
                 /\ streak'[e] = streak[e] + 1 /\ lastError'[e] = at[e]
                 /\ streak[e] + 1 >= BreakerN => openUntil'[e] = at[e] + Cooldown
        BY <3>1, <3>2, <4>3 DEF Pauses, Ticking
      <4>4. CASE /\ pc[e] \in Ticking /\ pc'[e] \in Ticking
                 /\ UNCHANGED <<at[e], streak[e], lastError[e]>>
        BY <3>1, <3>2, <4>4 DEF Pauses, Ticking
      <4>5. CASE pc[e] = "down" /\ pc'[e] = "idle" /\ UNCHANGED streak[e]
        BY <3>1, <3>2, <4>5 DEF Pauses, Ticking
      <4> QED
        BY <2>1, <2>2, <3>3, <3>4, <4>1, <4>2, <4>3, <4>4, <4>5, TimingSteps
    <3>5. CASE Clock \/ UNCHANGED vars
      <4>1. UNCHANGED Timing(e)
        BY <3>5 DEF Clock, vars, Timing, tick, breaker
      <4> QED
        BY <3>3, <4>1
    <3> QED
      BY <1>2, <3>4, <3>5 DEF Next
  <2> QED
    BY <2>1, <2>2
<1>3. ASSUME Inv, [Next]_vars PROVE [Patient]_vars
  BY <1>2, <1>3
<1> QED
  BY <1>1, <1>2, <1>3, PTL DEF Spec, BreakerPauses
=============================================================================
