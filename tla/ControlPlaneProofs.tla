-------------------------- MODULE ControlPlaneProofs --------------------------
(***************************************************************************)
(* Proofs about ControlPlane, for any daemons, requests, symbols and       *)
(* bounds: its state is well typed, a store that trusts its cache has the  *)
(* key of the file or was fooled by a rewrite in the same tick, the AI     *)
(* settings in force never go back, and only a save that falls between the *)
(* copy and the delete of a promotion is lost.                             *)
(***************************************************************************)
EXTENDS ControlPlane, TLAPS

(* What a step does, without the counters. *)
DaemonAct(d) == TickStep(d) \/ Poll(d) \/ Kill(d)
RequestAct(r) ==
    RequestStep(r) \/ CloseByHand(r) \/ SaveAi(r) \/ SaveSymbol(r) \/ SaveSymbols(r)

(* Every step that is no stutter belongs to a daemon or a request. *)
LEMMA StepCases ==
    ASSUME [Next]_vars
    PROVE  \/ UNCHANGED vars
           \/ \E d \in Daemons : DaemonAct(d)
           \/ \E r \in Requests : RequestAct(r)
  BY DEF Next, DaemonAct, RequestAct

-----------------------------------------------------------------------------
(* Types *)

(* Every symbol a daemon resolves is one of the system. *)
LEMMA SymbolsResolved ==
    ASSUME RoutesOK, NEW d \in Daemons
    PROVE  ResolveSymbol(d) \in Symbols /\ ResolveDaemonSymbol(d) \in Symbols
  BY EnvAssumption DEF RoutesOK, ResolveSymbol, ResolveDaemonSymbol

(* Who writes the AI records, and how. *)
LEMMA RecordSteps ==
    ASSUME [Next]_vars
    PROVE  UNCHANGED records \/ Stage \/ Promote \/ Unstage
  <1>1. ASSUME NEW d \in Daemons, DaemonAct(d)
        PROVE  UNCHANGED records \/ Promote \/ Unstage
    BY <1>1 DEF DaemonAct, TickStep, Start, Tick, ReadPending, PromoteDaemon, DropDaemon,
                ResolveOwn, Gate, Lock, StatKey, LoadKey, Conclude, Poll, Kill, settings
  <1>2. ASSUME NEW r \in Requests, RequestAct(r)
        PROVE  UNCHANGED records \/ Stage \/ Promote \/ Unstage
    BY <1>2 DEF RequestAct, RequestStep, Truncate, Write, StageAi, CheckIdle, PromoteRequest,
                CopyRow, DropRequest, CloseByHand, SaveAi, SaveSymbol, SaveSymbols, settings
  <1>3. UNCHANGED vars => UNCHANGED records
    BY DEF vars, settings
  <1> QED
    BY <1>1, <1>2, <1>3, StepCases

LEMMA RecordsTyped ==
    ASSUME RecordsOK, [Next]_vars
    PROVE  RecordsOK'
  BY RecordSteps, SaveAssumption DEF RecordsOK, records, Stage, Promote, Unstage

LEMMA RoutesTyped ==
    ASSUME RoutesOK, [Next]_vars
    PROVE  RoutesOK'
  <1>1. UNCHANGED routes => RoutesOK'
    BY DEF RoutesOK, routes
  <1>2. ASSUME NEW d \in Daemons, DaemonAct(d)
        PROVE  UNCHANGED routes
    BY <1>2 DEF DaemonAct, TickStep, Start, Tick, ReadPending, PromoteDaemon, DropDaemon,
                ResolveOwn, Gate, Lock, StatKey, LoadKey, Conclude, Poll, Kill, settings
  <1>3. ASSUME NEW r \in Requests, RequestAct(r)
        PROVE  UNCHANGED routes \/ SaveSymbol(r) \/ SaveSymbols(r)
    BY <1>3 DEF RequestAct, RequestStep, Truncate, Write, StageAi, CheckIdle, PromoteRequest,
                CopyRow, DropRequest, CloseByHand, SaveAi, settings
  <1>4. ASSUME NEW r \in Requests, SaveSymbol(r) \/ SaveSymbols(r)
        PROVE  RoutesOK'
    BY <1>4 DEF SaveSymbol, SaveSymbols, StoreSymbol, StoreSymbols, RoutesOK
  <1>5. UNCHANGED vars => UNCHANGED routes
    BY DEF vars, settings
  <1> QED
    BY <1>1, <1>2, <1>3, <1>4, <1>5, StepCases

LEMMA SecretsTyped ==
    ASSUME SecretsOK, ProcsOK, [Next]_vars
    PROVE  SecretsOK'
  <1>1. UNCHANGED secrets => SecretsOK'
    BY DEF SecretsOK, secrets
  <1>2. ASSUME NEW d \in Daemons, StatSecret(d) \/ LoadSecret(d) \/ ForgetSecret(d)
        PROVE  SecretsOK'
    BY <1>2, SaveAssumption DEF SecretsOK, StatSecret, LoadSecret, ForgetSecret
  <1>3. ASSUME NEW r \in Requests, TruncateSecret \/ WriteSecret(newKey[r])
        PROVE  SecretsOK'
    BY <1>3, SaveAssumption DEF SecretsOK, ProcsOK, TruncateSecret, WriteSecret, Rewrite
  <1>4. ASSUME NEW d \in Daemons, DaemonAct(d)
        PROVE  UNCHANGED secrets \/ StatSecret(d) \/ LoadSecret(d) \/ ForgetSecret(d)
    BY <1>4 DEF DaemonAct, TickStep, Start, Tick, ReadPending, PromoteDaemon, DropDaemon,
                ResolveOwn, Gate, Lock, StatKey, LoadKey, Conclude, Poll, Kill, settings
  <1>5. ASSUME NEW r \in Requests, RequestAct(r)
        PROVE  UNCHANGED secrets \/ TruncateSecret \/ WriteSecret(newKey[r])
    BY <1>5 DEF RequestAct, RequestStep, Truncate, Write, StageAi, CheckIdle, PromoteRequest,
                CopyRow, DropRequest, CloseByHand, SaveAi, SaveSymbol, SaveSymbols, settings
  <1>6. UNCHANGED vars => UNCHANGED secrets
    BY DEF vars, settings
  <1> QED
    BY <1>1, <1>2, <1>3, <1>4, <1>5, <1>6, StepCases

(* A move of one process, to a step of its kind. *)
LEMMA DaemonMoves ==
    ASSUME ProcsOK, NEW d \in Daemons, NEW step \in DaemonPcs, Goto(d, step)
    PROVE  /\ pc' \in [Daemons \cup Requests -> DaemonPcs \cup RequestPcs]
           /\ \A e \in Daemons : pc'[e] \in DaemonPcs
           /\ \A r \in Requests : pc'[r] \in RequestPcs
  BY ProcessAssumption DEF ProcsOK, Goto

LEMMA RequestMoves ==
    ASSUME ProcsOK, NEW r \in Requests, NEW step \in RequestPcs, Goto(r, step)
    PROVE  /\ pc' \in [Daemons \cup Requests -> DaemonPcs \cup RequestPcs]
           /\ \A e \in Daemons : pc'[e] \in DaemonPcs
           /\ \A q \in Requests : pc'[q] \in RequestPcs
  BY ProcessAssumption DEF ProcsOK, Goto

(* Where the steps of a daemon lead. *)
LEMMA DaemonGoes ==
    ASSUME NEW d \in Daemons, DaemonAct(d)
    PROVE  UNCHANGED pc \/ \E step \in DaemonPcs : Goto(d, step)
  <1> USE DEF DaemonPcs
  <1>1. CASE Start(d) \/ Tick(d)
    BY <1>1 DEF Start, Tick
  <1>2. CASE ReadPending(d) \/ PromoteDaemon(d) \/ DropDaemon(d)
    BY <1>2 DEF ReadPending, PromoteDaemon, DropDaemon, Applied
  <1>3. CASE ResolveOwn(d) \/ Gate(d) \/ Lock(d)
    BY <1>3 DEF ResolveOwn, Gate, Lock, Rest
  <1>4. CASE StatKey(d) \/ LoadKey(d) \/ Conclude(d)
    BY <1>4 DEF StatKey, LoadKey, Conclude, Rest
  <1>5. CASE Poll(d) \/ Kill(d)
    BY <1>5 DEF Poll, Kill, procs
  <1> QED
    BY <1>1, <1>2, <1>3, <1>4, <1>5 DEF DaemonAct, TickStep

LEMMA RequestGoes ==
    ASSUME NEW r \in Requests, RequestAct(r)
    PROVE  UNCHANGED pc \/ \E step \in RequestPcs : Goto(r, step)
  <1> USE DEF RequestPcs
  <1>1. CASE RequestStep(r)
    BY <1>1 DEF RequestStep, Truncate, Write, StageAi, CheckIdle, PromoteRequest, CopyRow,
                DropRequest
  <1>2. CASE SaveAi(r)
    BY <1>2 DEF SaveAi
  <1>3. CASE CloseByHand(r) \/ SaveSymbol(r) \/ SaveSymbols(r)
    BY <1>3 DEF CloseByHand, SaveSymbol, SaveSymbols, procs
  <1> QED
    BY <1>1, <1>2, <1>3 DEF RequestAct

(* What the steps of a daemon do to its symbol. *)
LEMMA OwnTyped ==
    ASSUME ProcsOK, RoutesOK, NEW d \in Daemons, DaemonAct(d)
    PROVE  /\ booting' \subseteq Daemons /\ UNCHANGED newKey
           /\ own' \in [Daemons -> Symbols \cup {Unset}]
  <1>1. CASE UNCHANGED own /\ UNCHANGED newKey /\ booting' \subseteq booting \cup {d}
    BY <1>1 DEF ProcsOK
  <1>2. CASE Start(d) \/ Tick(d) \/ ReadPending(d) \/ PromoteDaemon(d) \/ DropDaemon(d)
    BY <1>1, <1>2 DEF Start, Tick, ReadPending, PromoteDaemon, DropDaemon, Applied
  <1>3. CASE ResolveOwn(d) \/ Gate(d) \/ Lock(d)
    BY <1>3, SymbolsResolved DEF ResolveOwn, Gate, Lock, Rest, ProcsOK
  <1>4. CASE StatKey(d) \/ LoadKey(d) \/ Poll(d)
    BY <1>1, <1>4 DEF StatKey, LoadKey, Poll, procs
  <1>5. CASE Conclude(d) \/ Kill(d)
    BY <1>5 DEF Conclude, Kill, Rest, ProcsOK
  <1> QED
    BY <1>2, <1>3, <1>4, <1>5 DEF DaemonAct, TickStep

LEMMA KeyTyped ==
    ASSUME ProcsOK, asked \in 0 .. MaxSaves, NEW r \in Requests, RequestAct(r)
    PROVE  /\ UNCHANGED <<booting, own>>
           /\ newKey' \in [Requests -> 0 .. MaxSaves]
  <1>1. CASE RequestStep(r)
    BY <1>1, SaveAssumption
       DEF RequestStep, Truncate, Write, StageAi, CheckIdle, PromoteRequest, CopyRow,
           DropRequest, ProcsOK
  <1>2. CASE SaveAi(r)
    <2>1. asked + 1 \in 0 .. MaxSaves
      BY <1>2, SaveAssumption DEF SaveAi
    <2> QED
      BY <1>2, <2>1 DEF SaveAi, ProcsOK
  <1>3. CASE CloseByHand(r) \/ SaveSymbol(r) \/ SaveSymbols(r)
    BY <1>3 DEF CloseByHand, SaveSymbol, SaveSymbols, procs, ProcsOK
  <1> QED
    BY <1>1, <1>2, <1>3 DEF RequestAct

LEMMA ProcsTyped ==
    ASSUME ProcsOK, RoutesOK, asked \in 0 .. MaxSaves, [Next]_vars
    PROVE  ProcsOK'
  <1>1. ASSUME NEW d \in Daemons, DaemonAct(d)
        PROVE  ProcsOK'
    BY <1>1, DaemonGoes, DaemonMoves, OwnTyped DEF ProcsOK
  <1>2. ASSUME NEW r \in Requests, RequestAct(r)
        PROVE  ProcsOK'
    BY <1>2, RequestGoes, RequestMoves, KeyTyped DEF ProcsOK
  <1>3. UNCHANGED vars => ProcsOK'
    BY DEF vars, procs, ProcsOK
  <1> QED
    BY <1>1, <1>2, <1>3, StepCases

-----------------------------------------------------------------------------
(* Signals *)

LEMMA SignalsTyped ==
    ASSUME SignalsOK, RoutesOK, [Next]_vars
    PROVE  SignalsOK'
  <1> USE DEF Active
  <1>1. UNCHANGED signals => SignalsOK'
    BY DEF SignalsOK, signals
  <1>2. ASSUME NEW d \in Daemons, Conclude(d)
        PROVE  SignalsOK'
    <2>1. CASE UNCHANGED signals
      BY <1>1, <2>1
    <2>2. ASSUME NEW i \in Ids,
                 status' = [status EXCEPT ![i] = "PENDING_ENTRY"],
                 label' = [label EXCEPT ![i] = ResolveSymbol(d)]
          PROVE  SignalsOK'
      BY <2>2, SymbolsResolved, EnvAssumption DEF SignalsOK
    <2> QED
      BY <1>2, <2>1, <2>2 DEF Conclude
  <1>3. ASSUME NEW i \in Ids, status[i] \in Active, UNCHANGED label,
               NEW after \in {"OPEN", "CLOSED"}, status' = [status EXCEPT ![i] = after]
        PROVE  SignalsOK'
    BY <1>3 DEF SignalsOK
  <1>4. ASSUME NEW d \in Daemons, Poll(d)
        PROVE  SignalsOK'
    <2>1. PICK i \in ActiveOf(ResolveDaemonSymbol(d)) :
             status' = [status EXCEPT ![i] = IF @ = "PENDING_ENTRY" THEN "OPEN" ELSE "CLOSED"]
      BY <1>4 DEF Poll
    <2>2. i \in Ids /\ status[i] \in Active
      BY <2>1 DEF ActiveOf, AllActive
    <2>3. \E after \in {"OPEN", "CLOSED"} : status' = [status EXCEPT ![i] = after]
      BY <2>1
    <2>4. UNCHANGED label
      BY <1>4 DEF Poll
    <2> QED
      BY <1>3, <2>2, <2>3, <2>4
  <1>5. ASSUME NEW r \in Requests, CloseByHand(r)
        PROVE  SignalsOK'
    BY <1>3, <1>5 DEF CloseByHand
  <1>6. ASSUME NEW d \in Daemons, DaemonAct(d)
        PROVE  UNCHANGED signals \/ Conclude(d) \/ Poll(d)
    BY <1>6 DEF DaemonAct, TickStep, Start, Tick, ReadPending, PromoteDaemon, DropDaemon,
                ResolveOwn, Gate, Lock, StatKey, LoadKey, Kill
  <1>7. ASSUME NEW r \in Requests, RequestAct(r)
        PROVE  UNCHANGED signals \/ CloseByHand(r)
    BY <1>7 DEF RequestAct, RequestStep, Truncate, Write, StageAi, CheckIdle, PromoteRequest,
                CopyRow, DropRequest, SaveAi, SaveSymbol, SaveSymbols
  <1>8. UNCHANGED vars => UNCHANGED signals
    BY DEF vars
  <1> QED
    BY <1>1, <1>2, <1>4, <1>5, <1>6, <1>7, <1>8, StepCases

LEMMA CountersTyped ==
    ASSUME asked \in 0 .. MaxSaves, turns \in 0 .. MaxTurns, [Next]_vars
    PROVE  asked' \in 0 .. MaxSaves /\ turns' \in 0 .. MaxTurns
  <1>1. CASE UNCHANGED <<asked, turns>>
    BY <1>1
  <1>2. CASE \E r \in Requests : SaveAi(r) /\ UNCHANGED turns
    BY <1>2, SaveAssumption DEF SaveAi
  <1>3. CASE UNCHANGED asked /\ Turn
    BY <1>3, BoundAssumption DEF Turn
  <1>4. UNCHANGED vars => UNCHANGED <<asked, turns>>
    BY DEF vars
  <1> QED
    BY <1>1, <1>2, <1>3, <1>4 DEF Next, SaveSymbol, SaveSymbols, Kill

(* A record is noted as raced when it is staged. *)
LEMMA RacedTyped ==
    ASSUME RecordsOK, raced \subseteq 1 .. saves, [Next]_vars
    PROVE  raced' \subseteq 1 .. saves'
  <1> USE SaveAssumption DEF RecordsOK
  <1>1. ASSUME UNCHANGED raced, saves' = saves \/ saves' = saves + 1
        PROVE  raced' \subseteq 1 .. saves'
    BY <1>1
  <1>2. ASSUME NEW r \in Requests, StageAi(r)
        PROVE  raced' \subseteq 1 .. saves'
    BY <1>2 DEF StageAi, Stage
  <1>3. saves' = saves \/ saves' = saves + 1
    BY RecordSteps DEF records, Stage, Promote, Unstage
  <1>4. UNCHANGED raced \/ \E r \in Requests : StageAi(r)
    BY DEF Next, RequestStep, vars
  <1> QED
    BY <1>1, <1>2, <1>3, <1>4

LEMMA InitTyped ==
    ASSUME Init
    PROVE  TypeOK
  <1>1. RecordsOK /\ RoutesOK /\ SecretsOK
    BY SaveAssumption, StoredAssumption DEF Init, SettingsInit, RecordsOK, RoutesOK, SecretsOK
  <1>2. ProcsOK
    BY SaveAssumption, ProcessAssumption DEF Init, ProcsOK, DaemonPcs, RequestPcs
  <1>3. SignalsOK
    BY DEF Init, SignalsOK
  <1>4. asked \in 0 .. MaxSaves /\ turns \in 0 .. MaxTurns /\ raced \subseteq 1 .. saves
    BY SaveAssumption, BoundAssumption DEF Init
  <1> QED
    BY <1>1, <1>2, <1>3, <1>4 DEF TypeOK

LEMMA TypeKept ==
    ASSUME TypeOK, [Next]_vars
    PROVE  TypeOK'
  BY RecordsTyped, RoutesTyped, SecretsTyped, ProcsTyped, SignalsTyped, CountersTyped,
     RacedTyped
     DEF TypeOK

(* Daemons, requests, settings and signals are always well typed; in       *)
(* particular every signal carries a symbol of the system and no setting   *)
(* is newer than the last save.                                            *)
THEOREM TypeCorrect == Spec => []TypeOK
  BY InitTyped, TypeKept, PTL DEF Spec

-----------------------------------------------------------------------------
(* The API key *)

(* Only a daemon's own steps touch its cache; a rewrite of the file takes   *)
(* every store out of `current` or puts those in it into `fooled`.          *)
LEMMA FreshKept ==
    ASSUME TypeOK, SecretFresh, [Next]_vars
    PROVE  SecretFresh'
  <1> USE DEF TypeOK
  <1>1. ASSUME TruncateSecret \/ \E k \in Nat : WriteSecret(k)
        PROVE  SecretFresh'
    BY <1>1 DEF TruncateSecret, WriteSecret, Rewrite, SecretFresh
  <1>2. ASSUME UNCHANGED secrets, NEW p \in Daemons \cup Requests,
               NEW step \in DaemonPcs \cup RequestPcs, Goto(p, step), pc[p] # "load"
        PROVE  SecretFresh'
    BY <1>2 DEF SecretFresh, secrets, Goto, ProcsOK
  <1>3. ASSUME UNCHANGED secrets, UNCHANGED pc
        PROVE  SecretFresh'
    BY <1>3 DEF SecretFresh, secrets
  <1>4. ASSUME NEW d \in Daemons, StatKey(d)
        PROVE  SecretFresh'
    BY <1>4 DEF StatKey, StatSecret, SecretFresh, Goto, ProcsOK, SecretsOK
  <1>5. ASSUME NEW d \in Daemons, LoadKey(d)
        PROVE  SecretFresh'
    BY <1>5 DEF LoadKey, LoadSecret, SecretFresh, Goto, ProcsOK, SecretsOK
  <1>6. ASSUME NEW d \in Daemons, Kill(d)
        PROVE  SecretFresh'
    BY <1>6 DEF Kill, ForgetSecret, SecretFresh, Goto, ProcsOK, SecretsOK
  <1>7. ASSUME NEW d \in Daemons, DaemonAct(d)
        PROVE  SecretFresh'
    <2>1. CASE StatKey(d) \/ LoadKey(d) \/ Kill(d)
      BY <1>4, <1>5, <1>6, <2>1
    <2>2. CASE ~(StatKey(d) \/ LoadKey(d) \/ Kill(d))
      <3>1. UNCHANGED secrets
        BY <1>7, <2>2 DEF DaemonAct, TickStep, Start, Tick, ReadPending, PromoteDaemon,
              DropDaemon, ResolveOwn, Gate, Lock, Conclude, Poll, settings
      <3>2. pc[d] # "load" \/ UNCHANGED pc
        BY <1>7, <2>2 DEF DaemonAct, TickStep, Start, Tick, ReadPending, PromoteDaemon,
              DropDaemon, ResolveOwn, Gate, Lock, Conclude, Poll, procs
      <3> QED
        BY <1>2, <1>3, <1>7, <3>1, <3>2, DaemonGoes
    <2> QED
      BY <2>1, <2>2
  <1>8. ASSUME NEW r \in Requests, RequestAct(r)
        PROVE  SecretFresh'
    <2>1. CASE Truncate(r) \/ Write(r)
      <3>1. newKey[r] \in Nat
        BY SaveAssumption DEF ProcsOK
      <3> QED
        BY <1>1, <2>1, <3>1 DEF Truncate, Write
    <2>2. CASE ~(Truncate(r) \/ Write(r))
      <3>1. UNCHANGED secrets
        BY <1>8, <2>2 DEF RequestAct, RequestStep, StageAi, CheckIdle, PromoteRequest, CopyRow,
              DropRequest, CloseByHand, SaveAi, SaveSymbol, SaveSymbols, settings
      <3>2. pc[r] # "load"
        BY DEF ProcsOK, RequestPcs
      <3> QED
        BY <1>2, <1>3, <1>8, <3>1, <3>2, RequestGoes
    <2> QED
      BY <2>1, <2>2
  <1>9. UNCHANGED vars => UNCHANGED secrets /\ UNCHANGED pc
    BY DEF vars, settings, procs
  <1> QED
    BY <1>3, <1>7, <1>8, <1>9, StepCases

(* A store that trusts its cache holds the key of the file, in every        *)
(* interleaving of reloads with the web server's truncations and writes,    *)
(* unless the file was rewritten after its read within one tick of the      *)
(* clock that stamps it.                                                    *)
THEOREM KeysAreFresh == Spec => []SecretFresh
  <1>1. Init => SecretFresh
    BY DEF Init, SettingsInit, SecretFresh
  <1> QED
    BY <1>1, FreshKept, TypeCorrect, PTL DEF Spec

-----------------------------------------------------------------------------
(* The AI settings in force *)

(* What is staged is never older than what is live. *)
StagedAhead == staged # 0 => staged >= live

LEMMA AheadKept ==
    ASSUME TypeOK, StagedAhead, [Next]_vars
    PROVE  StagedAhead' /\ live' >= live
  BY RecordSteps, SaveAssumption
     DEF TypeOK, RecordsOK, StagedAhead, records, Stage, Promote, Unstage

(* The AI settings in force are never replaced by older ones, nor lost,    *)
(* however many daemons and requests promote and delete the staged row at  *)
(* once: each promotion copies what is staged at that moment.              *)
THEOREM LiveAdvances == Spec => LiveNeverRegresses
  <1>1. Init => StagedAhead
    BY DEF Init, SettingsInit, StagedAhead
  <1>2. TypeOK /\ StagedAhead /\ [Next]_vars => [live' >= live]_live
    BY AheadKept
  <1> QED
    BY <1>1, <1>2, AheadKept, TypeCorrect, PTL DEF Spec, LiveNeverRegresses

-----------------------------------------------------------------------------
(* The records staged *)

(* What a promotion is about to delete is in force. *)
CopiedAtDrop ==
    Dropping => \A n \in 1 .. saves : live >= n \/ n \in raced

(* Who is about to delete the staged row after a step: who was before, or  *)
(* who has just copied it.                                                 *)
LEMMA DropSteps ==
    ASSUME TypeOK, [Next]_vars
    PROVE  \/ /\ (Dropping' => Dropping) /\ UNCHANGED raced
              /\ UNCHANGED records \/ (Unstage /\ Dropping)
           \/ Promote /\ UNCHANGED raced
           \/ /\ Stage /\ (Dropping' => Dropping)
              /\ raced' = IF Dropping THEN raced \cup {saves + 1} ELSE raced
  <1> USE DEF TypeOK
  <1>1. ASSUME UNCHANGED pc
        PROVE  Dropping' => Dropping
    BY <1>1 DEF Dropping
  <1>2. ASSUME NEW p \in Daemons \cup Requests,
               NEW step \in (DaemonPcs \cup RequestPcs) \ {"drop"}, Goto(p, step)
        PROVE  Dropping' => Dropping
    BY <1>2 DEF Dropping, Goto, ProcsOK
  <1>3. ASSUME NEW d \in Daemons, DaemonAct(d), ~PromoteDaemon(d)
        PROVE  (Dropping' => Dropping) /\ (UNCHANGED records \/ (Unstage /\ Dropping))
    <2> USE DEF DaemonPcs
    <2>1. CASE Start(d) \/ Tick(d) \/ ReadPending(d)
      BY <1>2, <2>1 DEF Start, Tick, ReadPending, Applied, settings
    <2>2. CASE DropDaemon(d) \/ ResolveOwn(d) \/ Gate(d) \/ Lock(d)
      BY <1>2, <2>2 DEF DropDaemon, Dropping, Applied, ResolveOwn, Gate, Lock, Rest, settings
    <2>3. CASE StatKey(d) \/ LoadKey(d) \/ Conclude(d) \/ Kill(d)
      BY <1>2, <2>3 DEF StatKey, LoadKey, Conclude, Kill, Rest, settings
    <2>4. CASE Poll(d)
      BY <1>1, <2>4 DEF Poll, procs, settings
    <2> QED
      BY <1>3, <2>1, <2>2, <2>3, <2>4 DEF DaemonAct, TickStep
  <1>4. ASSUME NEW d \in Daemons, PromoteDaemon(d)
        PROVE  Promote \/ ((Dropping' => Dropping) /\ UNCHANGED records)
    BY <1>2, <1>4 DEF PromoteDaemon, Applied, DaemonPcs
  <1>5. ASSUME NEW r \in Requests, RequestAct(r), ~CopyRow(r), ~StageAi(r)
        PROVE  (Dropping' => Dropping) /\ (UNCHANGED records \/ (Unstage /\ Dropping))
    <2> USE DEF RequestPcs
    <2>1. CASE Truncate(r) \/ Write(r) \/ CheckIdle(r) \/ PromoteRequest(r)
      BY <1>2, <2>1 DEF Truncate, Write, CheckIdle, PromoteRequest, settings
    <2>2. CASE DropRequest(r) \/ SaveAi(r)
      BY <1>2, <2>2 DEF DropRequest, Dropping, SaveAi, settings
    <2>3. CASE CloseByHand(r) \/ SaveSymbol(r) \/ SaveSymbols(r)
      BY <1>1, <2>3 DEF CloseByHand, SaveSymbol, SaveSymbols, procs, settings
    <2> QED
      BY <1>5, <2>1, <2>2, <2>3 DEF RequestAct, RequestStep
  <1>6. ASSUME NEW r \in Requests, StageAi(r)
        PROVE  Dropping' => Dropping
    BY <1>2, <1>6 DEF StageAi, RequestPcs
  <1>7. UNCHANGED vars => UNCHANGED pc /\ UNCHANGED records /\ UNCHANGED raced
    BY DEF vars, settings, procs
  <1>8. UNCHANGED raced \/ \E r \in Requests : StageAi(r)
    BY DEF Next, RequestStep, vars
  <1>9. ASSUME ~(\E r \in Requests : StageAi(r))
        PROVE  \/ (Dropping' => Dropping) /\ (UNCHANGED records \/ (Unstage /\ Dropping))
               \/ Promote
    BY <1>1, <1>3, <1>4, <1>5, <1>7, <1>9, StepCases DEF CopyRow
  <1> QED
    BY <1>6, <1>8, <1>9 DEF StageAi

LEMMA SavesKept ==
    ASSUME TypeOK, StagedAhead, NoSaveLost, CopiedAtDrop, [Next]_vars
    PROVE  NoSaveLost' /\ CopiedAtDrop'
  <1> USE SaveAssumption DEF TypeOK, RecordsOK
  <1>1. CASE (Dropping' => Dropping) /\ UNCHANGED records /\ UNCHANGED raced
    BY <1>1 DEF NoSaveLost, CopiedAtDrop, records
  <1>2. CASE (Dropping' => Dropping) /\ Unstage /\ Dropping /\ UNCHANGED raced
    BY <1>2 DEF NoSaveLost, CopiedAtDrop, Unstage
  <1>3. CASE Promote /\ UNCHANGED raced
    BY <1>3 DEF NoSaveLost, CopiedAtDrop, StagedAhead, Promote
  <1>4. CASE /\ Stage /\ (Dropping' => Dropping)
             /\ raced' = IF Dropping THEN raced \cup {saves + 1} ELSE raced
    <2>1. \A n \in 1 .. saves' : n \in 1 .. saves \/ n = saves + 1
      BY <1>4 DEF Stage
    <2>2. staged' = saves + 1 /\ live' = live /\ raced \subseteq raced'
      BY <1>4 DEF Stage
    <2>3. NoSaveLost'
      BY <1>4, <2>2 DEF NoSaveLost, Stage
    <2>4. CopiedAtDrop'
      BY <1>4, <2>1, <2>2 DEF CopiedAtDrop
    <2> QED
      BY <2>3, <2>4
  <1> QED
    BY <1>1, <1>2, <1>3, <1>4, DropSteps

(* However many daemons and requests stage, promote and delete at once, a  *)
(* record that is neither in force nor staged any more, nor replaced by a  *)
(* later one, was staged between the copy and the delete of a promotion.   *)
THEOREM SavesAreKept == Spec => []NoSaveLost
  <1>1. Init => StagedAhead /\ NoSaveLost /\ CopiedAtDrop
    BY SaveAssumption DEF Init, SettingsInit, StagedAhead, NoSaveLost, CopiedAtDrop, Dropping
  <1> QED
    BY <1>1, AheadKept, SavesKept, TypeCorrect, PTL DEF Spec
=============================================================================
