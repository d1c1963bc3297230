-------------------------- MODULE TradeCoreProofs ---------------------------
(***************************************************************************)
(* Theorems about TradeCore, for any number of symbols, processes and      *)
(* signals.                                                                *)
(*                                                                         *)
(* The argument has two layers.  NextIsLedgerStep forgets the processes:   *)
(* whatever a step does to the ledger is one of the repository             *)
(* transactions, with what the caller knew of the signal.  The invariants  *)
(* of the ledger are then proved over those few transactions.  What the    *)
(* callers know (Known below) is the part that depends on their program    *)
(* counters.                                                               *)
(***************************************************************************)
EXTENDS TradeCore, FiniteSetTheorems, TLAPS

(* Arithmetic of the cap on open positions. *)
LEMMA FewerStillFit ==
    ASSUME NEW a \in Int, NEW b \in Int, NEW c \in Int, NEW e \in Int,
           NEW m \in Int, NEW n \in Int,
           a <= c, b <= e, c + e < m + n
    PROVE  a + b < m + n
OBVIOUS

LEMMA OneMoreFits ==
    ASSUME NEW a \in Int, NEW b \in Int, NEW m \in Int, NEW n \in Int,
           a < m, b <= n
    PROVE  a + b < m + n
OBVIOUS

LEMMA OneMovesOver ==
    ASSUME NEW a \in Int, NEW b \in Int, NEW c \in Int, NEW e \in Int,
           NEW m \in Int, NEW n \in Int,
           a <= c + 1, b = e - 1, c + e < m + n
    PROVE  a + b < m + n
OBVIOUS

USE SignalsAssumption, SymbolAssumption, BalanceAssumption, ProcessAssumption,
    SymbolOfAssumption, AmountAssumption, CrashAssumption, DaemonsAssumption

-----------------------------------------------------------------------------
(* Types *)

(* The initial state is well typed. *)
LEMMA InitTypeOK == Init => TypeOK
BY DEF Init, LedgerInit, TypeOK, Statuses, Active, Closed, DaemonPcs, WebPcs,
       Procs, HoldingPcs

(* Every step of every process keeps the state well typed; in particular a *)
(* process that acts on a signal holds one.                                *)
LEMMA NextTypeOK == TypeOK /\ [Next]_vars => TypeOK'
<1> SUFFICES ASSUME TypeOK, [Next]_vars PROVE TypeOK'
  OBVIOUS
<1> USE DEF TypeOK, Procs, DaemonPcs, WebPcs, HoldingPcs, Statuses, Active,
            Closed, Goto, Hold, Finish, Proceed
<1>1. ASSUME NEW d \in Daemons, DaemonStep(d) PROVE TypeOK'
  <2> UNCHANGED <<crashes, webCrashes>>
    BY <1>1 DEF DaemonStep
  <2>1. CASE Start(d)
    BY <2>1 DEF Start, ActiveOf, db
  <2>2. CASE Recover(d)
    BY <2>2 DEF Recover, ActiveOf, db
  <2>3. CASE ReconcileList(d) \/ ReconcileNext(d) \/ ReconcileDone(d)
    BY <2>3 DEF ReconcileList, ReconcileNext, ReconcileDone, db
  <2>4. CASE OpenCheck(d)
    BY <2>4 DEF OpenCheck, AfterOpen, AfterPoll, db
  <2>5. CASE OpenInsert(d)
    BY <2>5 DEF OpenInsert, CreatePosition, Fail, AfterOpen, AfterPoll, db, signals
  <2>6. CASE CloseCheck(d)
    BY <2>6 DEF CloseCheck, AfterClose, AfterPoll, db
  <2>7. CASE CloseRecord(d)
    BY <2>7 DEF CloseRecord, RecordTrade, Fail, AfterClose, AfterPoll, db, signals
  <2>8. CASE EventRead(d)
    BY <2>8 DEF EventRead, ActiveOf, First, db
  <2>9. CASE EventCancel(d)
    BY <2>9 DEF EventCancel, Transition, db, demo
  <2>10. CASE BlackoutGate(d) \/ TickGate(d) \/ NoSignal(d)
    BY <2>10 DEF BlackoutGate, TickGate, NoSignal, LogOther, AfterTick, db,
                 signals, demo
  <2>11. CASE Create(d)
    BY <2>11 DEF Create, CreateSignal, LogOther, AfterTick, db, signals, demo
  <2>12. CASE LogCreated(d)
    BY <2>12 DEF LogCreated, LogSignal, AfterTick, signals, demo
  <2>13. CASE PollRead(d) \/ NoTouch(d)
    BY <2>13 DEF PollRead, NoTouch, ActiveOf, First, AfterPoll, db
  <2>14. CASE EntryHit(d)
    BY <2>14 DEF EntryHit, Transition, AfterPoll, db, demo
  <2>15. CASE Reread(d)
    BY <2>15 DEF Reread, ActiveOf, First, AfterPoll, db
  <2>16. CASE ExitHit(d)
    BY <2>16 DEF ExitHit, Transition, AfterPoll, db, demo
  <2>17. CASE FinalReconcile(d)
    BY <2>17 DEF FinalReconcile, AllActive, First, db
  <2>18. QED
    BY <1>1, <2>1, <2>2, <2>3, <2>4, <2>5, <2>6, <2>7, <2>8, <2>9, <2>10,
       <2>11, <2>12, <2>13, <2>14, <2>15, <2>16, <2>17 DEF DaemonStep
<1>2. ASSUME NEW d \in Daemons, Crash(d) PROVE TypeOK'
  BY <1>2 DEF Crash, db
<1>3. ASSUME NEW w \in Web, WebRequest(w) PROVE TypeOK'
  <2> UNCHANGED <<crashes, webCrashes>>
    BY <1>3 DEF WebRequest
  <2>1. CASE WebCloseRead(w) \/ WebResetCheck(w)
    BY <2>1 DEF WebCloseRead, WebResetCheck, db
  <2>2. CASE WebDelete(w)
    BY <2>2 DEF WebDelete, DeleteSignals, db
  <2>3. CASE WebClearLog(w)
    BY <2>3 DEF WebClearLog, DropLog, signals, demo
  <2>4. QED
    BY <1>3, <2>1, <2>2, <2>3 DEF WebRequest
<1>4. ASSUME NEW w \in Web, WebStep(w) PROVE TypeOK'
  <2> UNCHANGED <<crashes, webCrashes>>
    BY <1>4 DEF WebStep
  <2>1. CASE WebClose(w)
    BY <2>1 DEF WebClose, Transition, db, demo
  <2>2. CASE WebReset(w)
    BY <2>2 DEF WebReset, ResetAccount, signals
  <2>3. CASE WebReply(w)
    BY <2>3 DEF WebReply, db
  <2>4. CASE CloseCheck(w)
    BY <2>4 DEF CloseCheck, AfterClose, db
  <2>5. CASE CloseRecord(w)
    BY <2>5 DEF CloseRecord, RecordTrade, Fail, AfterClose, db, signals
  <2>6. QED
    BY <1>4, <2>1, <2>2, <2>3, <2>4, <2>5 DEF WebStep
<1>5. CASE WebCrash
  BY <1>5 DEF WebCrash, db
<1>6. CASE UNCHANGED vars
  BY <1>6 DEF vars, db, procs
<1>7. QED
  BY <1>1, <1>2, <1>3, <1>4, <1>5, <1>6 DEF Next

(* The type invariant holds in every reachable state. *)
THEOREM TypeCorrect == Spec => []TypeOK
BY InitTypeOK, NextTypeOK, PTL DEF Spec
-----------------------------------------------------------------------------
(* What a process knows of the signal it holds *)

(* The signal it read is still there or was deleted, never "not yet        *)
(* created"; a process about to open a position has seen it OPEN, one      *)
(* about to book its trade has seen it closed.                             *)
Known ==
    \A p \in Procs :
        /\ pc[p] \in HoldingPcs => status[sig[p]] # "NONE"
        /\ pc[p] \in {"open_chk", "open_ins"} =>
                status[sig[p]] \in {"OPEN", "CANCELLED", "DELETED"} \cup Closed
        /\ pc[p] \in {"close_chk", "close_rec"} =>
                status[sig[p]] \in {"DELETED"} \cup Closed

(* With one process per symbol nobody promotes the signal a process is     *)
(* about to cancel: promoting it takes the same process.                   *)
KnownAlone ==
    SoleDaemon =>
        \A d \in Daemons :
            /\ pc[d] \in {"cancel", "seen_pending"} =>
                    symbol[sig[d]] = SymbolOf[d]
            /\ pc[d] = "cancel" =>
                    status[sig[d]] \in {"PENDING_ENTRY", "CANCELLED", "DELETED"}
            /\ pc[d] \in {"open_chk", "open_ins"} =>
                    status[sig[d]] # "CANCELLED"

LEMMA InitKnown == Init => Known /\ KnownAlone
BY DEF Init, Known, KnownAlone, Procs, HoldingPcs

LEMMA NextKnown ==
    TypeOK /\ Known /\ KnownAlone /\ [Next]_vars => Known' /\ KnownAlone'
<1> SUFFICES ASSUME TypeOK, Known, KnownAlone, [Next]_vars
             PROVE Known' /\ KnownAlone'
  OBVIOUS
<1> USE DEF TypeOK, Known, KnownAlone, SoleDaemon, Procs, DaemonPcs, WebPcs,
            HoldingPcs, Statuses, Active, Closed, Goto, Hold, Finish, Proceed,
            AfterTick, AfterPoll
<1>1. ASSUME NEW d \in Daemons, DaemonStep(d) PROVE Known' /\ KnownAlone'
  <2>1. CASE Start(d) \/ Recover(d)
    BY <2>1 DEF Start, Recover, ActiveOf, db
  <2>2. CASE ReconcileList(d) \/ ReconcileNext(d) \/ ReconcileDone(d)
    BY <2>2 DEF ReconcileList, ReconcileNext, ReconcileDone, db
  <2>3. CASE OpenCheck(d) \/ OpenInsert(d)
    BY <2>3 DEF OpenCheck, OpenInsert, CreatePosition, Fail, AfterOpen, db, signals
  <2>4. CASE CloseCheck(d) \/ CloseRecord(d)
    BY <2>4 DEF CloseCheck, CloseRecord, RecordTrade, Fail, AfterClose, db, signals
  <2>5. CASE EventRead(d)
    BY <2>5 DEF EventRead, ActiveOf, First, db
  <2>6. CASE EventCancel(d)
    BY <2>6 DEF EventCancel, Transition, CanTransition, AllowedTransitions, Exists,
                db, demo
  <2>7. CASE BlackoutGate(d) \/ TickGate(d) \/ NoSignal(d)
    BY <2>7 DEF BlackoutGate, TickGate, NoSignal, LogOther, db, signals, demo
  <2>8. CASE Create(d)
    BY <2>8 DEF Create, CreateSignal, LogOther, db, signals, demo
  <2>9. CASE LogCreated(d)
    BY <2>9 DEF LogCreated, LogSignal, signals, demo
  <2>10. CASE PollRead(d) \/ NoTouch(d)
    BY <2>10 DEF PollRead, NoTouch, ActiveOf, First, db
  <2>11. CASE EntryHit(d)
    BY <2>11 DEF EntryHit, Transition, CanTransition, AllowedTransitions, Exists,
                 db, demo
  <2>12. CASE Reread(d) \/ FinalReconcile(d)
    BY <2>12 DEF Reread, FinalReconcile, ActiveOf, AllActive, First, db
  <2>13. CASE ExitHit(d)
    BY <2>13 DEF ExitHit, Transition, CanTransition, AllowedTransitions, Exists,
                 db, demo
  <2>14. QED
    BY <1>1, <2>1, <2>2, <2>3, <2>4, <2>5, <2>6, <2>7, <2>8, <2>9, <2>10,
       <2>11, <2>12, <2>13 DEF DaemonStep
<1>2. ASSUME NEW d \in Daemons, Crash(d) PROVE Known' /\ KnownAlone'
  BY <1>2 DEF Crash, db
<1>3. ASSUME NEW w \in Web, WebRequest(w) PROVE Known' /\ KnownAlone'
  <2>1. CASE WebCloseRead(w) \/ WebResetCheck(w)
    BY <2>1 DEF WebCloseRead, WebResetCheck, db
  <2>2. CASE WebDelete(w)
    BY <2>2 DEF WebDelete, DeleteSignals, Deletable, Exists, db
  <2>3. CASE WebClearLog(w)
    BY <2>3 DEF WebClearLog, DropLog, signals, demo
  <2>4. QED
    BY <1>3, <2>1, <2>2, <2>3 DEF WebRequest
<1>4. ASSUME NEW w \in Web, WebStep(w) PROVE Known' /\ KnownAlone'
  <2>1. CASE WebClose(w)
    BY <2>1 DEF WebClose, Transition, CanTransition, AllowedTransitions, Exists,
                db, demo
  <2>2. CASE WebReset(w) \/ WebReply(w)
    BY <2>2 DEF WebReset, WebReply, ResetAccount, db, signals
  <2>3. CASE CloseCheck(w) \/ CloseRecord(w)
    BY <2>3 DEF CloseCheck, CloseRecord, RecordTrade, Fail, AfterClose, db, signals
  <2>4. QED
    BY <1>4, <2>1, <2>2, <2>3 DEF WebStep
<1>5. CASE WebCrash
  BY <1>5 DEF WebCrash, db
<1>6. CASE UNCHANGED vars
  BY <1>6 DEF vars, db, procs
<1>7. QED
  BY <1>1, <1>2, <1>3, <1>4, <1>5, <1>6 DEF Next
-----------------------------------------------------------------------------
(* What a step does to the ledger *)

(* A demo position or trade belongs to a signal whose row exists. *)
Footprint == \A i \in Ids : pos[i] # "none" => Exists(i)

(* The repository transactions, each with what its caller knows. *)
LedgerStep ==
    \/ UNCHANGED <<signals, demo>>
    \/ \E d \in Daemons, i \in Ids : CreateSignal(i, SymbolOf[d])
    \/ \E i \in Ids, new \in Statuses :
        /\ Transition(i, new)
        /\ SoleDaemon /\ new = "CANCELLED" => status[i] = "PENDING_ENTRY"
    \/ \E S \in SUBSET Deletable : DeleteSignals(S)
    \/ \E i \in Ids :
        /\ status[i] \in {"OPEN", "CANCELLED"} \cup Closed
        /\ SoleDaemon => status[i] # "CANCELLED"
        /\ CreatePosition(i)
    \/ \E i \in Ids, n \in NetPnls : status[i] \in Closed /\ RecordTrade(i, n)
    \/ \E b \in ResetBalances : ResetAccount(b)

LEMMA NextIsLedgerStep ==
    TypeOK /\ Known /\ KnownAlone /\ Footprint /\ [Next]_vars => LedgerStep
<1> SUFFICES ASSUME TypeOK, Known, KnownAlone, Footprint, [Next]_vars
             PROVE LedgerStep
  OBVIOUS
<1> USE DEF LedgerStep, db, signals, demo
<1>a. ASSUME NEW p \in Procs, CloseRecord(p) PROVE LedgerStep
  BY <1>a DEF CloseRecord, RecordTrade, CanRecord, Footprint, Exists, Statuses,
              Known, TypeOK, HoldingPcs, Active, Closed
<1>1. ASSUME NEW d \in Daemons, DaemonStep(d) PROVE LedgerStep
  <2>1. CASE Start(d) \/ Recover(d) \/ ReconcileList(d) \/ ReconcileNext(d)
              \/ ReconcileDone(d) \/ OpenCheck(d) \/ CloseCheck(d) \/ EventRead(d)
              \/ PollRead(d) \/ NoTouch(d) \/ Reread(d) \/ FinalReconcile(d)
    BY <2>1 DEF Start, Recover, ReconcileList, ReconcileNext, ReconcileDone,
                OpenCheck, CloseCheck, EventRead, PollRead, NoTouch, Reread,
                FinalReconcile
  <2>2. CASE OpenInsert(d)
    BY <2>2 DEF OpenInsert, CreatePosition, Exists, Statuses, Active, Closed,
                TypeOK, Known, KnownAlone, HoldingPcs, Procs
  <2>3. CASE CloseRecord(d)
    BY <2>3, <1>a DEF Procs
  <2>4. CASE EventCancel(d)
    BY <2>4 DEF EventCancel, Transition, CanTransition, AllowedTransitions,
                Exists, Statuses, Active, Closed, TypeOK, KnownAlone,
                HoldingPcs, Procs
  <2>5. CASE BlackoutGate(d) \/ TickGate(d) \/ NoSignal(d) \/ LogCreated(d)
    BY <2>5 DEF BlackoutGate, TickGate, NoSignal, LogCreated, LogOther, LogSignal
  <2>6. CASE Create(d)
    BY <2>6 DEF Create, LogOther
  <2>7. CASE EntryHit(d)
    BY <2>7 DEF EntryHit, TypeOK, HoldingPcs, Procs, Statuses, Active, Closed
  <2>8. CASE ExitHit(d)
    BY <2>8 DEF ExitHit, TypeOK, HoldingPcs, Procs, Statuses, Active, Closed
  <2>9. QED
    BY <1>1, <2>1, <2>2, <2>3, <2>4, <2>5, <2>6, <2>7, <2>8 DEF DaemonStep
<1>2. ASSUME NEW d \in Daemons, Crash(d) PROVE LedgerStep
  BY <1>2 DEF Crash
<1>3. ASSUME NEW w \in Web, WebRequest(w) PROVE LedgerStep
  BY <1>3 DEF WebRequest, WebCloseRead, WebDelete, WebResetCheck, WebClearLog,
              DropLog
<1>4. ASSUME NEW w \in Web, WebStep(w) PROVE LedgerStep
  <2>1. CASE WebClose(w)
    BY <2>1 DEF WebClose, TypeOK, HoldingPcs, Procs, Statuses, Active, Closed
  <2>2. CASE WebReset(w) \/ WebReply(w) \/ CloseCheck(w)
    BY <2>2 DEF WebReset, WebReply, CloseCheck
  <2>3. CASE CloseRecord(w)
    BY <2>3, <1>a DEF Procs
  <2>4. QED
    BY <1>4, <2>1, <2>2, <2>3 DEF WebStep
<1>5. CASE WebCrash
  BY <1>5 DEF WebCrash
<1>6. CASE UNCHANGED vars
  BY <1>6 DEF vars
<1>7. QED
  BY <1>1, <1>2, <1>3, <1>4, <1>5, <1>6 DEF Next

-----------------------------------------------------------------------------
(* The invariants of the ledger *)

LedgerInv == OneActivePerSymbol /\ TradeBacked /\ Footprint /\ OpenPositionBacked

LEMMA InitLedgerInv == Init => LedgerInv
BY DEF Init, LedgerInit, LedgerInv, OneActivePerSymbol, TradeBacked, Footprint,
       OpenPositionBacked, OpenPositions, Active

LEMMA LedgerStepLedgerInv == TypeOK /\ LedgerInv /\ LedgerStep => LedgerInv'
<1> SUFFICES ASSUME TypeOK, LedgerInv, LedgerStep PROVE LedgerInv'
  OBVIOUS
<1> USE DEF TypeOK, LedgerInv, OneActivePerSymbol, TradeBacked, Footprint,
            OpenPositionBacked, OpenPositions, SoleDaemon, Exists, Statuses,
            Active, Closed, signals, demo
<1>1. CASE UNCHANGED <<signals, demo>>
  BY <1>1
<1>2. ASSUME NEW d \in Daemons, NEW i \in Ids, CreateSignal(i, SymbolOf[d])
      PROVE LedgerInv'
  BY <1>2 DEF CreateSignal, ActiveOf
<1>3. ASSUME NEW i \in Ids, NEW new \in Statuses, Transition(i, new),
             SoleDaemon /\ new = "CANCELLED" => status[i] = "PENDING_ENTRY"
      PROVE LedgerInv'
  BY <1>3 DEF Transition, CanTransition, AllowedTransitions
<1>4. ASSUME NEW S \in SUBSET Deletable, DeleteSignals(S) PROVE LedgerInv'
  BY <1>4 DEF DeleteSignals, Deletable
<1>5. ASSUME NEW i \in Ids, CreatePosition(i),
             status[i] \in {"OPEN", "CANCELLED"} \cup Closed,
             SoleDaemon => status[i] # "CANCELLED"
      PROVE LedgerInv'
  BY <1>5 DEF CreatePosition
<1>6. ASSUME NEW i \in Ids, NEW n \in NetPnls, RecordTrade(i, n),
             status[i] \in Closed
      PROVE LedgerInv'
  BY <1>6 DEF RecordTrade, CanRecord
<1>7. ASSUME NEW b \in ResetBalances, ResetAccount(b) PROVE LedgerInv'
  BY <1>7 DEF ResetAccount
<1>8. QED
  BY <1>1, <1>2, <1>3, <1>4, <1>5, <1>6, <1>7 DEF LedgerStep

(* The inductive invariant: the ledger's invariants, what the processes    *)
(* know of the signals they hold, and the types.                           *)
IInv == TypeOK /\ Known /\ KnownAlone /\ LedgerInv

LEMMA IInvIsInvariant == Spec => []IInv
<1>1. Init => IInv
  BY InitTypeOK, InitKnown, InitLedgerInv DEF IInv
<1>2. IInv /\ [Next]_vars => IInv'
  BY NextTypeOK, NextKnown, NextIsLedgerStep, LedgerStepLedgerInv
     DEF IInv, LedgerInv
<1>3. QED
  BY <1>1, <1>2, PTL DEF Spec

(* At most one signal per symbol is active, whatever processes share the   *)
(* database and whenever they crash (create_signal).                       *)
THEOREM OneActive == Spec => []OneActivePerSymbol
<1>1. IInv => OneActivePerSymbol
  BY DEF IInv, LedgerInv
<1>2. QED
  BY <1>1, IInvIsInvariant, PTL

(* A booked trade belongs to a signal closed at TP/SL and to a closed      *)
(* position, and a closed position is a booked one (record_trade).         *)
THEOREM TradesAreBacked == Spec => []TradeBacked
<1>1. IInv => TradeBacked
  BY DEF IInv, LedgerInv
<1>2. QED
  BY <1>1, IInvIsInvariant, PTL

(* With one process per symbol no open position belongs to a cancelled     *)
(* signal, where no reconcile would find it (open_position, reconcile).    *)
THEOREM OpenPositionsAreBacked == Spec => []OpenPositionBacked
<1>1. IInv => OpenPositionBacked
  BY DEF IInv, LedgerInv
<1>2. QED
  BY <1>1, IInvIsInvariant, PTL

(* With one process per symbol an OPEN signal is never cancelled: each     *)
(* caller of cancel_signal has read it PENDING_ENTRY and nobody else can   *)
(* have promoted it since (_cancel_pending_for_event).                     *)
THEOREM AloneSparesOpen == SoleDaemon /\ Spec => CancelSparesOpen
<1> SUFFICES ASSUME SoleDaemon PROVE Spec => CancelSparesOpen
  OBVIOUS
<1>1. IInv /\ [Next]_vars =>
        [\A i \in Ids : status[i] = "OPEN" => status'[i] # "CANCELLED"]_vars
  <2> SUFFICES ASSUME IInv, LedgerStep, NEW i \in Ids, status[i] = "OPEN"
               PROVE status'[i] # "CANCELLED"
    BY NextIsLedgerStep DEF IInv, LedgerInv
  <2> QED
    BY DEF LedgerStep, IInv, TypeOK, CreateSignal, Transition, DeleteSignals,
           CreatePosition, RecordTrade, ResetAccount, signals, demo, Active,
           ActiveOf
<1>2. QED
  BY <1>1, IInvIsInvariant, PTL DEF Spec, CancelSparesOpen
-----------------------------------------------------------------------------
(* The cap on open positions *)

(* The processes that have counted and not inserted yet. *)
Inserting == {d \in Daemons : pc[d] = "open_ins"}

(* Positions and promised positions together.  One process counted less    *)
(* than the cap; each of the others may have counted before it inserted.   *)
Capped ==
    OpenPositions \cup Inserting # {} =>
        Cardinality(OpenPositions) + Cardinality(Inserting)
            < MaxOpenPositions + Cardinality(Daemons)

(* Three kinds of step matter to the cap. *)
CapStep ==
    \/ OpenPositions' \subseteq OpenPositions /\ Inserting' \subseteq Inserting
    \/ \E d \in Daemons :
        /\ Cardinality(OpenPositions) < MaxOpenPositions
        /\ OpenPositions' = OpenPositions /\ Inserting' = Inserting \cup {d}
    \/ \E d \in Inserting, i \in Ids :
        /\ Inserting' = Inserting \ {d}
        /\ OpenPositions' \subseteq OpenPositions \cup {i}

LEMMA CapSizes ==
    /\ IsFiniteSet(OpenPositions) /\ IsFiniteSet(Inserting)
    /\ Cardinality(OpenPositions) \in Nat /\ Cardinality(Inserting) \in Nat
    /\ Cardinality(Daemons) \in Nat
    /\ Cardinality(Inserting) <= Cardinality(Daemons)
<1>1. OpenPositions \subseteq Ids /\ Inserting \subseteq Daemons
  BY DEF OpenPositions, Inserting
<1>2. IsFiniteSet(Ids)
  BY FS_Interval, SignalsAssumption DEF Ids
<1>3. IsFiniteSet(OpenPositions)
  BY <1>1, <1>2, FS_Subset
<1>4. IsFiniteSet(Inserting) /\ Cardinality(Inserting) <= Cardinality(Daemons)
  BY <1>1, FS_Subset, DaemonsAssumption
<1>5. QED
  BY <1>3, <1>4, DaemonsAssumption, FS_CardinalityType

LEMMA CapSizesNext ==
    /\ IsFiniteSet(OpenPositions') /\ IsFiniteSet(Inserting')
    /\ Cardinality(OpenPositions') \in Nat /\ Cardinality(Inserting') \in Nat
    /\ Cardinality(Inserting') <= Cardinality(Daemons)
<1>1. OpenPositions' \subseteq Ids /\ Inserting' \subseteq Daemons
  BY DEF OpenPositions, Inserting
<1>2. IsFiniteSet(Ids)
  BY FS_Interval, SignalsAssumption DEF Ids
<1>3. IsFiniteSet(OpenPositions')
  BY <1>1, <1>2, FS_Subset
<1>4. IsFiniteSet(Inserting') /\ Cardinality(Inserting') <= Cardinality(Daemons)
  BY <1>1, FS_Subset, DaemonsAssumption
<1>5. QED
  BY <1>3, <1>4, FS_CardinalityType

LEMMA NextIsCapStep == TypeOK /\ [Next]_vars => CapStep
<1> SUFFICES ASSUME TypeOK, [Next]_vars PROVE CapStep
  OBVIOUS
<1> USE DEF CapStep, Inserting, OpenPositions, TypeOK, Procs, Goto, Hold, Finish,
            Proceed, db, signals, demo
<1>1. ASSUME NEW d \in Daemons, DaemonStep(d) PROVE CapStep
  <2>1. CASE OpenCheck(d)
    <3>1. OpenPositions' = OpenPositions
      BY <2>1 DEF OpenCheck
    <3>2. CASE OpenRefused(sig[d])
      <4>1. AfterOpen(d) # "open_ins"
        BY DEF AfterOpen, AfterPoll
      <4>2. Inserting' \subseteq Inserting
        BY <2>1, <3>2, <4>1 DEF OpenCheck
      <4>3. QED
        BY <3>1, <4>2
    <3>3. CASE ~OpenRefused(sig[d])
      <4>1. ~(Cardinality(OpenPositions) >= MaxOpenPositions)
        BY <3>3, Zenon DEF OpenRefused
      <4>2. Inserting' = Inserting \cup {d}
        BY <2>1, <3>3 DEF OpenCheck
      <4>3. Cardinality(OpenPositions) \in Int /\ MaxOpenPositions \in Int
        BY CapSizes, AmountAssumption
      <4>4. Cardinality(OpenPositions) < MaxOpenPositions
        BY <4>1, <4>3
      <4>5. QED
        BY <3>1, <4>2, <4>4
    <3>4. QED
      BY <3>2, <3>3
  <2>2. CASE OpenInsert(d)
    <3>1. d \in Inserting /\ Inserting' = Inserting \ {d}
      BY <2>2 DEF OpenInsert, Fail, AfterOpen, AfterPoll
    <3>2. sig[d] \in Ids
      BY <2>2 DEF OpenInsert, HoldingPcs
    <3>3. OpenPositions' \subseteq OpenPositions \cup {sig[d]}
      BY <2>2, <3>2 DEF OpenInsert, CreatePosition
    <3>4. QED
      BY <3>1, <3>2, <3>3
  <2>3. CASE Start(d) \/ Recover(d)
    BY <2>3 DEF Start, Recover
  <2>4. CASE ReconcileList(d) \/ ReconcileNext(d) \/ ReconcileDone(d)
    BY <2>4 DEF ReconcileList, ReconcileNext, ReconcileDone
  <2>5. CASE CloseCheck(d) \/ CloseRecord(d)
    BY <2>5 DEF CloseCheck, CloseRecord, RecordTrade, Fail, AfterClose, AfterPoll
  <2>6. CASE EventRead(d) \/ EventCancel(d)
    BY <2>6 DEF EventRead, EventCancel, Transition
  <2>7. CASE BlackoutGate(d) \/ TickGate(d) \/ NoSignal(d)
    BY <2>7 DEF BlackoutGate, TickGate, NoSignal, LogOther, AfterTick
  <2>8. CASE Create(d) \/ LogCreated(d)
    BY <2>8 DEF Create, LogCreated, CreateSignal, LogSignal, LogOther, AfterTick
  <2>9. CASE PollRead(d) \/ NoTouch(d)
    BY <2>9 DEF PollRead, NoTouch, AfterPoll
  <2>10. CASE EntryHit(d) \/ ExitHit(d)
    BY <2>10 DEF EntryHit, ExitHit, Transition, AfterPoll
  <2>11. CASE Reread(d) \/ FinalReconcile(d)
    BY <2>11 DEF Reread, FinalReconcile, AfterPoll
  <2>12. QED
    BY <1>1, <2>1, <2>2, <2>3, <2>4, <2>5, <2>6, <2>7, <2>8, <2>9, <2>10,
       <2>11 DEF DaemonStep
<1>2. ASSUME NEW d \in Daemons, Crash(d) PROVE CapStep
  BY <1>2 DEF Crash
<1>3. ASSUME NEW w \in Web, WebRequest(w) PROVE CapStep
  BY <1>3 DEF WebRequest, WebCloseRead, WebDelete, WebResetCheck, WebClearLog,
              DeleteSignals, DropLog
<1>4. ASSUME NEW w \in Web, WebStep(w) PROVE CapStep
  BY <1>4 DEF WebStep, WebClose, WebReset, WebReply, CloseCheck, CloseRecord,
              Transition, ResetAccount, RecordTrade, Fail, AfterClose
<1>5. CASE WebCrash
  BY <1>5 DEF WebCrash
<1>6. CASE UNCHANGED vars
  BY <1>6 DEF vars, procs
<1>7. QED
  BY <1>1, <1>2, <1>3, <1>4, <1>5, <1>6 DEF Next

LEMMA CapStepCapped == Capped /\ CapStep => Capped'
<1> SUFFICES ASSUME Capped, CapStep PROVE Capped'
  OBVIOUS
<1> DEFINE open == Cardinality(OpenPositions)
           ins == Cardinality(Inserting)
           all == Cardinality(Daemons)
<1>a. /\ IsFiniteSet(OpenPositions) /\ IsFiniteSet(Inserting)
      /\ open \in Nat /\ ins \in Nat /\ all \in Nat /\ ins <= all
  BY CapSizes
<1>b. /\ IsFiniteSet(OpenPositions') /\ IsFiniteSet(Inserting')
      /\ open' \in Nat /\ ins' \in Nat /\ ins' <= all
  BY CapSizesNext
<1>c. MaxOpenPositions \in Nat
  BY AmountAssumption
<1>d. /\ open \in Int /\ ins \in Int /\ all \in Int
      /\ open' \in Int /\ ins' \in Int /\ MaxOpenPositions \in Int
  BY <1>a, <1>b, <1>c
<1>1. CASE OpenPositions' \subseteq OpenPositions /\ Inserting' \subseteq Inserting
  <2>1. open' <= open /\ ins' <= ins
    BY <1>1, <1>a, FS_Subset
  <2>2. SUFFICES ASSUME OpenPositions' \cup Inserting' # {}
                 PROVE open' + ins' < MaxOpenPositions + all
    BY DEF Capped
  <2>3. open + ins < MaxOpenPositions + all
    BY <1>1, <2>2 DEF Capped
  <2> HIDE DEF open, ins, all
  <2>4. QED
    BY <2>1, <2>3, <1>d, FewerStillFit
<1>2. ASSUME NEW d \in Daemons, open < MaxOpenPositions,
             OpenPositions' = OpenPositions, Inserting' = Inserting \cup {d}
      PROVE Capped'
  <2>1. open' = open
    BY <1>2
  <2>2. open' < MaxOpenPositions
    BY <2>1, <1>2
  <2>3. open' + ins' < MaxOpenPositions + all
    <3> HIDE DEF open, ins, all
    <3> QED
      BY <2>2, <1>b, <1>d, OneMoreFits
  <2>4. QED
    BY <2>3 DEF Capped
<1>3. ASSUME NEW d \in Inserting, NEW i \in Ids, Inserting' = Inserting \ {d},
             OpenPositions' \subseteq OpenPositions \cup {i}
      PROVE Capped'
  <2>1. ins' = ins - 1
    BY <1>3, <1>a, FS_RemoveElement
  <2>2. open' <= open + 1
    <3>1. /\ IsFiniteSet(OpenPositions \cup {i})
          /\ \/ Cardinality(OpenPositions \cup {i}) = open
             \/ Cardinality(OpenPositions \cup {i}) = open + 1
      BY <1>a, FS_AddElement
    <3>2. open' <= Cardinality(OpenPositions \cup {i})
      BY <1>3, <3>1, FS_Subset
    <3> HIDE DEF open
    <3>3. QED
      BY <3>1, <3>2, <1>a, <1>b
  <2>3. open + ins < MaxOpenPositions + all
    BY <1>3 DEF Capped
  <2>4. open' + ins' < MaxOpenPositions + all
    <3> HIDE DEF open, ins, all
    <3> QED
      BY <2>1, <2>2, <2>3, <1>d, OneMovesOver
  <2>5. QED
    BY <2>4 DEF Capped
<1>4. QED
  BY <1>1, <1>2, <1>3 DEF CapStep

(* The cap on open positions is passed by fewer positions than there are   *)
(* engine processes, whatever they do side by side and whenever they are   *)
(* killed (open_position); a single process keeps it.                      *)
THEOREM CapIsBounded == Spec => []CapOvershootBounded
<1>1. Init => Capped
  BY FS_EmptySet DEF Init, LedgerInit, Capped, OpenPositions, Inserting, Procs
<1>2. TypeOK /\ Capped /\ [Next]_vars => Capped'
  BY NextIsCapStep, CapStepCapped
<1>3. Capped => CapOvershootBounded
  <2> SUFFICES ASSUME Capped, OpenPositions # {}
               PROVE Cardinality(OpenPositions)
                        < MaxOpenPositions + Cardinality(Daemons)
    BY DEF CapOvershootBounded
  <2> DEFINE open == Cardinality(OpenPositions)
             ins == Cardinality(Inserting)
             all == Cardinality(Daemons)
  <2>1. open + ins < MaxOpenPositions + all
    BY DEF Capped
  <2>2. open \in Nat /\ ins \in Nat /\ all \in Nat /\ MaxOpenPositions \in Nat
    BY CapSizes, AmountAssumption
  <2> HIDE DEF open, ins, all
  <2>3. open < MaxOpenPositions + all
    BY <2>1, <2>2
  <2>4. QED
    BY <2>3 DEF open, all
<1>4. QED
  BY <1>1, <1>2, <1>3, TypeCorrect, PTL DEF Spec
-----------------------------------------------------------------------------
(* Nothing is stranded *)

(* The deployment of docker-compose.yml. *)
Deployed == SoleDaemon /\ OneShots = {}

(* A daemon holds a signal of its own symbol, and one it saw pending still *)
(* is, or was deleted: it never loses a race for the entry.                *)
Manned ==
    \A d \in Daemons :
        /\ pc[d] \notin {"poll", "final", "reread"}
        /\ pc[d] = "recover" => phase[d] # "run"
        /\ pc[d] \in {"cancel", "seen_pending", "seen_open", "open_chk", "open_ins"} =>
                symbol[sig[d]] = SymbolOf[d]
        /\ pc[d] = "seen_pending" =>
                status[sig[d]] \in {"PENDING_ENTRY", "DELETED"}

OpensOwn(d) == pc[d] \in {"open_chk", "open_ins"} /\ phase[d] = "run"

(* The signal a running daemon promoted stays OPEN, without a position,    *)
(* until that daemon opens one: nobody can close it by hand.               *)
Opening ==
    /\ \A d \in Daemons :
        OpensOwn(d) => status[sig[d]] = "OPEN" /\ pos[sig[d]] = "none"
    /\ \A w \in Web :
        pc[w] = "manual" =>
            /\ status[sig[w]] # "PENDING_ENTRY"
            /\ \A d \in Daemons : OpensOwn(d) => sig[d] # sig[w]

GoneIsBooking == \A p \in gone : pc[p] = "close_rec"

(* A web thread whose position row was wiped will fail, not book.          *)
Books(p, i) ==
    sig[p] = i /\ pc[p] \in {"close_chk", "close_rec"} /\ (p \in Web => p \notin gone)

WillSettle(i) ==
    \/ \E p \in Procs : Books(p, i)
    \/ \E d \in Daemons : (i \in todo[d] /\ pc[d] # "recover") \/ WillList(d)

NoneLost == \A i \in OpenPositions : status[i] \in Closed => WillSettle(i)

LEMMA InitManned == Deployed /\ Init => Manned /\ Opening /\ GoneIsBooking /\ NoneLost
BY DEF Init, LedgerInit, Manned, Opening, OpensOwn, GoneIsBooking, NoneLost,
       OpenPositions, Procs

LEMMA NextManned ==
    Deployed /\ IInv /\ Manned /\ [Next]_vars /\ webCrashes' = 0 => Manned'
<1> SUFFICES ASSUME Deployed, IInv, Manned, [Next]_vars, webCrashes' = 0
             PROVE Manned'
  OBVIOUS
<1> USE DEF Deployed, SoleDaemon, IInv, TypeOK, Known, KnownAlone, Manned, Procs,
            HoldingPcs, Active, Closed, Statuses, Goto, Hold, Finish, Proceed,
            AfterTick, AfterPoll
<1>1. ASSUME NEW d \in Daemons, DaemonStep(d) PROVE Manned'
  <2>1. CASE Start(d)
    BY <2>1 DEF Start, db
  <2>2. CASE Recover(d)
    BY <2>2 DEF Recover, ActiveOf, db
  <2>3. CASE ReconcileList(d) \/ ReconcileNext(d) \/ ReconcileDone(d)
    BY <2>3 DEF ReconcileList, ReconcileNext, ReconcileDone, db
  <2>4. CASE OpenCheck(d) \/ OpenInsert(d)
    BY <2>4 DEF OpenCheck, OpenInsert, CreatePosition, Fail, AfterOpen, db, signals
  <2>5. CASE CloseCheck(d) \/ CloseRecord(d)
    BY <2>5 DEF CloseCheck, CloseRecord, RecordTrade, Fail, AfterClose, db, signals
  <2>6. CASE EventRead(d)
    BY <2>6 DEF EventRead, ActiveOf, First, db
  <2>7. CASE EventCancel(d)
    BY <2>7 DEF EventCancel, Transition, CanTransition, AllowedTransitions, Exists,
                db, demo
  <2>8. CASE BlackoutGate(d) \/ TickGate(d) \/ NoSignal(d) \/ LogCreated(d)
    BY <2>8 DEF BlackoutGate, TickGate, NoSignal, LogCreated, LogOther, LogSignal,
                db, signals, demo
  <2>9. CASE Create(d)
    BY <2>9 DEF Create, CreateSignal, LogOther, db, signals, demo
  <2>10. CASE PollRead(d) \/ NoTouch(d)
    BY <2>10 DEF PollRead, NoTouch, ActiveOf, First, db
  <2>11. CASE EntryHit(d)
    BY <2>11 DEF EntryHit, Transition, CanTransition, AllowedTransitions, Exists,
                 db, demo
  <2>12. CASE Reread(d) \/ FinalReconcile(d)
    BY <2>12 DEF Reread, FinalReconcile
  <2>13. CASE ExitHit(d)
    BY <2>13 DEF ExitHit, Transition, CanTransition, AllowedTransitions, Exists,
                 db, demo
  <2>14. QED
    BY <1>1, <2>1, <2>2, <2>3, <2>4, <2>5, <2>6, <2>7, <2>8, <2>9, <2>10,
       <2>11, <2>12, <2>13 DEF DaemonStep
<1>2. ASSUME NEW d \in Daemons, Crash(d) PROVE Manned'
  BY <1>2 DEF Crash, db
<1>3. ASSUME NEW w \in Web, WebRequest(w) PROVE Manned'
  <2>1. CASE WebCloseRead(w) \/ WebResetCheck(w)
    BY <2>1 DEF WebCloseRead, WebResetCheck, db
  <2>2. CASE WebDelete(w)
    BY <2>2 DEF WebDelete, DeleteSignals, Deletable, Exists, db
  <2>3. CASE WebClearLog(w)
    BY <2>3 DEF WebClearLog, DropLog, signals, demo
  <2>4. QED
    BY <1>3, <2>1, <2>2, <2>3 DEF WebRequest
<1>4. ASSUME NEW w \in Web, WebStep(w) PROVE Manned'
  <2>1. CASE WebClose(w)
    BY <2>1 DEF WebClose, Transition, CanTransition, AllowedTransitions, Exists,
                db, demo
  <2>2. CASE WebReset(w) \/ WebReply(w)
    BY <2>2 DEF WebReset, WebReply, ResetAccount, db, signals
  <2>3. CASE CloseCheck(w) \/ CloseRecord(w)
    BY <2>3 DEF CloseCheck, CloseRecord, RecordTrade, Fail, AfterClose, db, signals
  <2>4. QED
    BY <1>4, <2>1, <2>2, <2>3 DEF WebStep
<1>5. ~WebCrash
  BY DEF WebCrash
<1>6. CASE UNCHANGED vars
  BY <1>6 DEF vars, db, procs
<1>7. QED
  BY <1>1, <1>2, <1>3, <1>4, <1>5, <1>6 DEF Next

LEMMA NextGone == TypeOK /\ GoneIsBooking /\ [Next]_vars => GoneIsBooking'
<1> SUFFICES ASSUME TypeOK, GoneIsBooking, [Next]_vars PROVE GoneIsBooking'
  OBVIOUS
<1> USE DEF TypeOK, GoneIsBooking, Procs, Goto, Hold, Finish, Proceed
<1>1. ASSUME NEW d \in Daemons, DaemonStep(d) PROVE GoneIsBooking'
  <2>1. CASE CloseRecord(d)
    BY <2>1 DEF CloseRecord, Fail
  <2>2. CASE ~CloseRecord(d)
    BY <1>1, <2>2 DEF DaemonStep, Start, Recover, ReconcileList, ReconcileNext,
       ReconcileDone, OpenCheck, OpenInsert, Fail, CloseCheck, EventRead, EventCancel,
       BlackoutGate, TickGate, Create, NoSignal, LogCreated, PollRead, NoTouch,
       EntryHit, Reread, ExitHit, FinalReconcile, AfterTick
  <2>3. QED
    BY <2>1, <2>2
<1>2. ASSUME NEW d \in Daemons, Crash(d) PROVE GoneIsBooking'
  BY <1>2 DEF Crash
<1>3. ASSUME NEW w \in Web, WebRequest(w) PROVE GoneIsBooking'
  BY <1>3 DEF WebRequest, WebCloseRead, WebDelete, WebResetCheck, WebClearLog
<1>4. ASSUME NEW w \in Web, WebStep(w) PROVE GoneIsBooking'
  <2>1. CASE CloseRecord(w)
    BY <2>1 DEF CloseRecord, Fail
  <2>2. CASE WebClose(w) \/ WebReset(w) \/ WebReply(w) \/ CloseCheck(w)
    BY <2>2 DEF WebClose, WebReset, WebReply, CloseCheck
  <2>3. QED
    BY <1>4, <2>1, <2>2 DEF WebStep
<1>5. CASE WebCrash
  BY <1>5 DEF WebCrash
<1>6. CASE UNCHANGED vars
  BY <1>6 DEF vars, procs
<1>7. QED
  BY <1>1, <1>2, <1>3, <1>4, <1>5, <1>6 DEF Next

LEMMA NextOpening ==
    Deployed /\ IInv /\ Manned /\ Opening /\ [Next]_vars /\ webCrashes' = 0 => Opening'
<1> SUFFICES ASSUME Deployed, IInv, Manned, Opening, [Next]_vars, webCrashes' = 0
             PROVE Opening'
  OBVIOUS
<1> USE DEF Deployed, SoleDaemon, IInv, TypeOK, Known, KnownAlone, Manned, Opening,
            OpensOwn, Procs, HoldingPcs, Active, Closed, Statuses, Goto, Hold,
            Finish, Proceed, AfterTick, AfterPoll
<1>1. ASSUME NEW d \in Daemons, DaemonStep(d) PROVE Opening'
  <2>1. CASE Start(d)
    BY <2>1 DEF Start, db
  <2>2. CASE Recover(d)
    BY <2>2 DEF Recover, ActiveOf, db
  <2>3. CASE ReconcileList(d) \/ ReconcileNext(d) \/ ReconcileDone(d)
    BY <2>3 DEF ReconcileList, ReconcileNext, ReconcileDone, db
  <2>4. CASE OpenCheck(d)
    BY <2>4 DEF OpenCheck, AfterOpen, db, signals
  <2>5. CASE OpenInsert(d)
    BY <2>5 DEF OpenInsert, CreatePosition, Fail, AfterOpen, db, signals
  <2>6. CASE CloseCheck(d) \/ CloseRecord(d)
    BY <2>6 DEF CloseCheck, CloseRecord, RecordTrade, CanRecord, Fail, AfterClose, db,
                signals
  <2>7. CASE EventRead(d)
    BY <2>7 DEF EventRead, ActiveOf, First, db
  <2>8. CASE EventCancel(d)
    BY <2>8 DEF EventCancel, Transition, CanTransition, AllowedTransitions, Exists,
                db, demo
  <2>9. CASE BlackoutGate(d) \/ TickGate(d) \/ NoSignal(d) \/ LogCreated(d)
    BY <2>9 DEF BlackoutGate, TickGate, NoSignal, LogCreated, LogOther, LogSignal,
                db, signals, demo
  <2>10. CASE Create(d)
    BY <2>10 DEF Create, CreateSignal, LogOther, db, signals, demo
  <2>11. CASE PollRead(d) \/ NoTouch(d)
    BY <2>11 DEF PollRead, NoTouch, ActiveOf, First, db
  <2>12. CASE EntryHit(d)
    <3>1. CASE Transition(sig[d], "OPEN") /\ Proceed(d, "open_chk")
      <4>1. status[sig[d]] = "PENDING_ENTRY"
        BY <2>12, <3>1 DEF EntryHit, Transition, CanTransition, AllowedTransitions,
                           Exists
      <4>2. pos[sig[d]] = "none"
        BY <2>12, <4>1 DEF EntryHit, LedgerInv, TradeBacked, OpenPositionBacked,
                           OpenPositions
      <4>3. QED
        BY <2>12, <3>1, <4>1, <4>2 DEF EntryHit, Transition, db, demo
    <3>2. CASE ~Exists(sig[d]) /\ Finish(d, AfterPoll(d)) /\ UNCHANGED db
      BY <2>12, <3>2 DEF EntryHit, db
    <3>3. QED
      BY <2>12, <3>1, <3>2 DEF EntryHit, CanTransition, AllowedTransitions, Exists
  <2>13. CASE Reread(d) \/ FinalReconcile(d)
    BY <2>13 DEF Reread, FinalReconcile
  <2>14. CASE ExitHit(d)
    BY <2>14 DEF ExitHit, Transition, CanTransition, AllowedTransitions, Exists,
                 db, demo
  <2>15. QED
    BY <1>1, <2>1, <2>2, <2>3, <2>4, <2>5, <2>6, <2>7, <2>8, <2>9, <2>10,
       <2>11, <2>12, <2>13, <2>14 DEF DaemonStep
<1>2. ASSUME NEW d \in Daemons, Crash(d) PROVE Opening'
  BY <1>2 DEF Crash, db
<1>3. ASSUME NEW w \in Web, WebRequest(w) PROVE Opening'
  <2>1. CASE WebCloseRead(w) \/ WebResetCheck(w)
    BY <2>1 DEF WebCloseRead, WebResetCheck, db
  <2>2. CASE WebDelete(w)
    BY <2>2 DEF WebDelete, DeleteSignals, Deletable, Exists, db
  <2>3. CASE WebClearLog(w)
    BY <2>3 DEF WebClearLog, DropLog, signals, demo
  <2>4. QED
    BY <1>3, <2>1, <2>2, <2>3 DEF WebRequest
<1>4. ASSUME NEW w \in Web, WebStep(w) PROVE Opening'
  <2>1. CASE WebClose(w)
    BY <2>1 DEF WebClose, Transition, CanTransition, AllowedTransitions, Exists,
                db, demo
  <2>2. CASE WebReset(w) \/ WebReply(w)
    BY <2>2 DEF WebReset, WebReply, ResetAccount, db, signals
  <2>3. CASE CloseCheck(w) \/ CloseRecord(w)
    BY <2>3 DEF CloseCheck, CloseRecord, RecordTrade, CanRecord, Fail, AfterClose, db,
                signals
  <2>4. QED
    BY <1>4, <2>1, <2>2, <2>3 DEF WebStep
<1>5. ~WebCrash
  BY DEF WebCrash
<1>6. CASE UNCHANGED vars
  BY <1>6 DEF vars, db, procs
<1>7. QED
  BY <1>1, <1>2, <1>3, <1>4, <1>5, <1>6 DEF Next

(* A position is closed or its signal's booking is in somebody's hands,    *)
(* and stays there: a process that lets go of it has booked it or is about *)
(* to start again.                                                         *)
LEMMA NextNoneLost ==
    Deployed /\ IInv /\ Manned /\ Opening /\ GoneIsBooking /\ NoneLost
        /\ [Next]_vars /\ webCrashes' = 0 => NoneLost'
<1> SUFFICES ASSUME Deployed, IInv, Manned, Opening, GoneIsBooking, NoneLost,
                    [Next]_vars, webCrashes' = 0,
                    NEW i \in Ids, pos'[i] = "OPEN", status'[i] \in Closed
             PROVE WillSettle(i)'
  BY DEF NoneLost, OpenPositions
<1> USE DEF Deployed, IInv, LedgerInv, TradeBacked, TypeOK, Known, GoneIsBooking,
            WillSettle, Books, WillList, Procs, HoldingPcs, Closed, Goto, Hold,
            Finish, Proceed, AfterTick, AfterPoll
<1>0. pos[i] = "OPEN" /\ status[i] \in Closed => WillSettle(i)
  BY DEF NoneLost, OpenPositions
<1>a. ASSUME NEW p \in Procs, CloseCheck(p) PROVE WillSettle(i)'
  BY <1>a, <1>0 DEF CloseCheck, CanRecord, AfterClose, db
<1>b. ASSUME NEW p \in Procs, CloseRecord(p) PROVE WillSettle(i)'
  <2>1. CASE p \notin gone /\ (\E n \in NetPnls : RecordTrade(sig[p], n))
    BY <1>b, <2>1, <1>0 DEF CloseRecord, RecordTrade, Fail, AfterClose, signals
  <2>2. CASE (p \in gone \/ ~CanRecord(sig[p])) /\ Fail(p) /\ UNCHANGED db
    <3>1. CASE p \in Daemons
      BY <2>2, <3>1 DEF Fail
    <3>2. CASE p \in Web
      <4>1. ~Books(p, i)
        BY <2>2, <3>2 DEF CanRecord, db
      <4>2. pc'[p] = "failed" /\ todo' = todo
        BY <2>2, <3>2 DEF Fail
      <4>3. \A q \in Procs : q # p => pc'[q] = pc[q] /\ sig'[q] = sig[q]
        BY <2>2 DEF Fail
      <4>4. gone' = gone \ {p} /\ phase' = phase
        BY <1>b DEF CloseRecord
      <4>5. WillSettle(i)
        BY <2>2, <1>0 DEF db
      <4>6. QED
        BY <3>2, <4>1, <4>2, <4>3, <4>4, <4>5
    <3>3. QED
      BY <3>1, <3>2
  <2>3. QED
    BY <1>b, <2>1, <2>2 DEF CloseRecord
<1>1. ASSUME NEW d \in Daemons, DaemonStep(d) PROVE WillSettle(i)'
  <2>1. CASE Start(d)
    BY <2>1 DEF Start
  <2>2. CASE Recover(d)
    BY <2>2, <1>0 DEF Recover, Manned, db
  <2>3. CASE ReconcileList(d)
    BY <2>3, <1>0 DEF ReconcileList, db
  <2>4. CASE ReconcileNext(d)
    BY <2>4, <1>0 DEF ReconcileNext, db
  <2>5. CASE ReconcileDone(d)
    BY <2>5, <1>0 DEF ReconcileDone, db
  <2>6. CASE OpenCheck(d)
    BY <2>6, <1>0 DEF OpenCheck, AfterOpen, db
  <2>7. CASE OpenInsert(d)
    <3>1. CASE phase[d] = "run" /\ sig[d] = i
      BY <2>7, <3>1 DEF OpenInsert, CreatePosition, Opening, OpensOwn, signals, db
    <3>2. CASE phase[d] = "run" /\ sig[d] # i
      BY <2>7, <3>2, <1>0 DEF OpenInsert, CreatePosition, Fail, AfterOpen, signals, db
    <3>3. CASE phase[d] # "run"
      BY <2>7, <3>3 DEF OpenInsert, Fail, AfterOpen
    <3>4. QED
      BY <3>1, <3>2, <3>3
  <2>8. CASE CloseCheck(d)
    BY <2>8, <1>a
  <2>9. CASE CloseRecord(d)
    BY <2>9, <1>b
  <2>10. CASE EventRead(d) \/ PollRead(d) \/ NoTouch(d)
    BY <2>10, <1>0 DEF EventRead, PollRead, NoTouch, db
  <2>11. CASE EventCancel(d)
    BY <2>11, <1>0 DEF EventCancel, Transition, demo, db
  <2>12. CASE BlackoutGate(d) \/ TickGate(d) \/ NoSignal(d) \/ LogCreated(d)
    BY <2>12, <1>0 DEF BlackoutGate, TickGate, NoSignal, LogCreated, LogOther,
                       LogSignal, db, signals, demo
  <2>13. CASE Create(d)
    BY <2>13, <1>0 DEF Create, CreateSignal, LogOther, db, signals, demo
  <2>14. CASE EntryHit(d)
    BY <2>14, <1>0 DEF EntryHit, Transition, db, demo
  <2>15. CASE Reread(d) \/ FinalReconcile(d)
    BY <2>15 DEF Reread, FinalReconcile, Manned
  <2>16. CASE ExitHit(d)
    BY <2>16, <1>0 DEF ExitHit, Transition, db, demo
  <2>17. QED
    BY <1>1, <2>1, <2>2, <2>3, <2>4, <2>5, <2>6, <2>7, <2>8, <2>9, <2>10,
       <2>11, <2>12, <2>13, <2>14, <2>15, <2>16 DEF DaemonStep
<1>2. ASSUME NEW d \in Daemons, Crash(d) PROVE WillSettle(i)'
  BY <1>2 DEF Crash
<1>3. ASSUME NEW w \in Web, WebRequest(w) PROVE WillSettle(i)'
  <2>1. CASE WebCloseRead(w) \/ WebResetCheck(w)
    BY <2>1, <1>0 DEF WebCloseRead, WebResetCheck, db
  <2>2. CASE WebDelete(w)
    BY <2>2, <1>0 DEF WebDelete, DeleteSignals, db
  <2>3. CASE WebClearLog(w)
    BY <2>3, <1>0 DEF WebClearLog, DropLog, signals, demo
  <2>4. QED
    BY <1>3, <2>1, <2>2, <2>3 DEF WebRequest
<1>4. ASSUME NEW w \in Web, WebStep(w) PROVE WillSettle(i)'
  <2>1. CASE WebClose(w)
    BY <2>1, <1>0 DEF WebClose, Transition, db, demo
  <2>2. CASE WebReset(w)
    BY <2>2 DEF WebReset, ResetAccount
  <2>3. CASE WebReply(w)
    BY <2>3, <1>0 DEF WebReply, db
  <2>4. CASE CloseCheck(w)
    BY <2>4, <1>a
  <2>5. CASE CloseRecord(w)
    BY <2>5, <1>b
  <2>6. QED
    BY <1>4, <2>1, <2>2, <2>3, <2>4, <2>5 DEF WebStep
<1>5. ~WebCrash
  BY DEF WebCrash
<1>6. CASE UNCHANGED vars
  BY <1>6, <1>0 DEF vars, db, procs
<1>7. QED
  BY <1>1, <1>2, <1>3, <1>4, <1>5, <1>6 DEF Next

(* The death of the web server is remembered. *)
LEMMA WebCrashesCount ==
    TypeOK /\ [Next]_vars => webCrashes' = webCrashes \/ webCrashes' = webCrashes + 1
BY DEF Next, DaemonStep, Crash, WebRequest, WebStep, WebCrash, vars

(* With one process per symbol and no one-shots, as long as the web server *)
(* has not died, a signal closed at TP/SL never keeps an open position     *)
(* that no process is going to book: neither a crash of a daemon, a manual *)
(* close, a delete nor a reset in between strands it                       *)
(* (_handle_monitor_result, reconcile, close_position).                    *)
THEOREM NothingIsStranded == Deployed /\ Spec => []NothingStranded
<1> SUFFICES ASSUME Deployed PROVE Spec => []NothingStranded
  OBVIOUS
<1> DEFINE Kept == Manned /\ Opening /\ GoneIsBooking /\ NoneLost
           Inv == webCrashes = 0 => Kept
<1>1. Init => Inv
  BY InitManned
<1>2. Inv /\ IInv /\ [Next]_vars => Inv'
  <2> SUFFICES ASSUME Inv, IInv, [Next]_vars, webCrashes' = 0 PROVE Kept'
    OBVIOUS
  <2>1. webCrashes = 0
    BY WebCrashesCount DEF IInv, TypeOK
  <2>2. QED
    BY <2>1, NextManned, NextOpening, NextGone, NextNoneLost DEF IInv
<1>3. Inv => NothingStranded
  BY DEF NoneLost, NothingStranded, WillSettle, Books, BeingSettled
<1>4. QED
  BY <1>1, <1>2, <1>3, IInvIsInvariant, PTL DEF Spec

-----------------------------------------------------------------------------
(* Refinement *)

life == [i \in Ids |-> Life(i)]
book == [i \in Ids |-> Book(i)]

LEMMA LedgerStepRefines ==
    IInv /\ LedgerStep => [Promise!Next]_<<life, book, balance>>
<1> SUFFICES ASSUME IInv, LedgerStep
             PROVE Promise!Next \/ UNCHANGED <<life, book, balance>>
  BY DEF life, book
<1> USE DEF IInv, TypeOK, LedgerInv, TradeBacked, Footprint, Exists, Life, Book,
            life, book, Statuses, Active, Closed, signals, demo
<1>1. CASE UNCHANGED <<signals, demo>>
  BY <1>1
<1>2. ASSUME NEW d \in Daemons, NEW i \in Ids, CreateSignal(i, SymbolOf[d])
      PROVE Promise!Issue(i)
  BY <1>2 DEF CreateSignal, Promise!Issue
<1>3. ASSUME NEW i \in Ids, NEW new \in Statuses, Transition(i, new),
             SoleDaemon /\ new = "CANCELLED" => status[i] = "PENDING_ENTRY"
      PROVE Promise!Enter(i) \/ Promise!Settle(i) \/ Promise!Void(i)
  <2>1. CASE new = "OPEN"
    BY <1>3, <2>1 DEF Transition, CanTransition, AllowedTransitions, Promise!Enter
  <2>2. CASE new \in Closed
    BY <1>3, <2>2 DEF Transition, CanTransition, AllowedTransitions, Promise!Settle
  <2>3. CASE new = "CANCELLED"
    BY <1>3, <2>3 DEF Transition, CanTransition, AllowedTransitions, Promise!Void
  <2>4. CASE new = "PENDING_ENTRY"
    BY <1>3, <2>4 DEF Transition, CanTransition, AllowedTransitions
  <2>5. QED
    BY <2>1, <2>2, <2>3, <2>4
<1>4. ASSUME NEW S \in SUBSET Deletable, DeleteSignals(S) PROVE Promise!Erase(S)
  BY <1>4 DEF DeleteSignals, Deletable, Promise!Erase
<1>5. ASSUME NEW i \in Ids, CreatePosition(i),
             status[i] \in {"OPEN", "CANCELLED"} \cup Closed,
             SoleDaemon => status[i] # "CANCELLED"
      PROVE Promise!Open(i) \/ UNCHANGED <<life, book, balance>>
  BY <1>5 DEF CreatePosition, Promise!Open
<1>6. ASSUME NEW i \in Ids, NEW n \in NetPnls, RecordTrade(i, n),
             status[i] \in Closed
      PROVE Promise!Book(i)
  BY <1>6 DEF RecordTrade, CanRecord, Promise!Book
<1>7. ASSUME NEW b \in ResetBalances, ResetAccount(b) PROVE Promise!Reset
  BY <1>7 DEF ResetAccount, Promise!Reset
<1>8. Deletable \subseteq Ids
  BY DEF Deletable
<1>9. QED
  BY <1>1, <1>2, <1>3, <1>4, <1>5, <1>6, <1>7, <1>8 DEF LedgerStep, Promise!Next

(* The processes and their ledger implement the abstract demo account, for *)
(* every number of processes, symbols and signals and however often they   *)
(* crash: one booking per signal, after its close, and no other movement   *)
(* of the balance but a reset (DemoExecutor, DemoRepository).              *)
THEOREM PromiseKept == Spec => KeepsPromise
<1>1. Init => Promise!Init
  BY DEF Init, LedgerInit, Promise!Init, Life, Book
<1>2. IInv /\ [Next]_vars => [Promise!Next]_<<life, book, balance>>
  BY NextIsLedgerStep, LedgerStepRefines DEF IInv, LedgerInv
<1>3. QED
  BY <1>1, <1>2, IInvIsInvariant, PTL DEF Spec, KeepsPromise, Promise!Spec, life, book
=============================================================================
