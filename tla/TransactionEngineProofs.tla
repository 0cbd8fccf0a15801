------------------------ MODULE TransactionEngineProofs ------------------------
(***************************************************************************)
(* Proofs about TransactionEngine.  A tick is cut into steps the network   *)
(* can separate, so the argument is in two layers: PassInv says that the   *)
(* snapshot a pass works from is still what the store holds; from it,      *)
(* RecordSteps lists everything one step can do to one record; and every   *)
(* safety property follows from that list and the facts about the node.    *)
(* The last section is about EngineHistory, the engine with its history.   *)
(***************************************************************************)
EXTENDS EngineHistory, BitcoinNodeProofs

Live == {"InMempool", "Confirmed"}

\* Where a pass stands, and that its snapshot is fresh.
PassInv ==
    /\ pc \in {"idle", "handle"} => todo = {}
    /\ pc \in {"idle", "review"} => outcome = NoOutcome
    /\ \A t \in Txs : t \in todo => outcome[t] = "none"
    /\ SnapshotFresh

-----------------------------------------------------------------------------
(* What one step may do to the record of t. *)

Same(t) ==
    /\ state'[t] = state[t]
    /\ broadcast'[t] = broadcast[t]
    /\ guard'[t] = guard[t]
    /\ settled'[t] = settled[t]

Enrolled(t) ==
    /\ state[t] = "Unregistered" /\ state'[t] = "ToDispatch"
    /\ broadcast'[t] = broadcast[t] /\ guard'[t] = guard[t] /\ settled'[t] = settled[t]

Removed(t) ==
    /\ \/ state[t] = "ToDispatch"
       \/ state[t] \in Terminal /\ vheight' - settled[t] >= MaxTracking
    /\ state'[t] = "Unregistered"
    /\ broadcast'[t] = 0 /\ guard'[t] = 0 /\ settled'[t] = 0

Requeued(t) ==
    /\ state[t] \in Live /\ state'[t] = "ToDispatch"
    /\ guard'[t] = IF guard[t] = 0 THEN vheight + MaxConfs ELSE guard[t]
    /\ broadcast'[t] = broadcast[t] /\ settled'[t] = settled[t]

Reviewed(t) ==
    /\ state[t] \in Live /\ state'[t] \in Live
    /\ broadcast'[t] = broadcast[t] \/ broadcast'[t] = vheight
    /\ guard'[t] = guard[t] /\ settled'[t] = settled[t]

Accepted(t) ==
    /\ state[t] = "ToDispatch" /\ state'[t] \in Live
    /\ outcome[t] = "Success" \/ MayAnswerZero(t) \/ t \in OnChain
    /\ broadcast'[t] = vheight \/ (broadcast'[t] = broadcast[t] /\ broadcast[t] # 0)
    /\ guard'[t] = 0 /\ settled'[t] = settled[t]

Finalizes(t) ==
    /\ state[t] \in Live /\ state'[t] = "Finalized"
    /\ TxStatus(t) = "finalized"
    /\ broadcast'[t] = broadcast[t] /\ guard'[t] = guard[t]
    /\ settled'[t] = vheight /\ vheight' = vheight

Fails(t) ==
    /\ state[t] = "ToDispatch" /\ state'[t] = "Failed"
    /\ broadcast'[t] = broadcast[t] /\ guard'[t] = guard[t]
    /\ settled'[t] = vheight /\ vheight' = vheight

RecordStep(t) ==
    \/ Same(t)
    \/ Enrolled(t)
    \/ Removed(t)
    \/ Requeued(t)
    \/ Reviewed(t)
    \/ Accepted(t)
    \/ Finalizes(t)
    \/ Fails(t)

RecordType ==
    /\ state \in [Txs -> RecordState]
    /\ broadcast \in [Txs -> 0..MaxHeight]
    /\ guard \in [Txs -> 0..(MaxHeight + MaxConfs)]
    /\ settled \in [Txs -> 0..MaxHeight]
    /\ outcome \in [Txs -> Outcomes]

\* The review pass leaves every other record alone and treats the reviewed one
\* as its status demands.
LEMMA ReviewRecord ==
    ASSUME RecordType, PassInv, NEW u \in Txs, NEW t \in Txs, Review(u)
    PROVE  RecordStep(t)
<1>0. state[u] \in Live /\ UNCHANGED vheight
  BY DEF Review, PassInv, SnapshotFresh, viewVars, Live
<1>1. CASE ReviewInMempool(u)
  BY <1>0, <1>1 DEF ReviewInMempool, MarkReorg, RecordType, recordVars, RecordStep, Same, Reviewed, Live
<1>2. CASE ReviewNotFound(u)
  BY <1>0, <1>2 DEF ReviewNotFound, RequeueNotFound, RefuseTransition, RecordType, recordVars, RecordStep, Same, Requeued, Live
<1>3. CASE ReviewFinalized(u)
  BY <1>0, <1>3 DEF ReviewFinalized, SettleTx, RefuseTransition, RecordType, recordVars, RecordStep, Same, Finalizes, Live
<1>4. CASE ReviewConfirmed(u)
  BY <1>0, <1>4 DEF ReviewConfirmed, UpdateTxState, RefuseTransition, RecordType, recordVars, RecordStep, Same, Reviewed, Live
<1>5. CASE ReviewOrphan(u)
  BY <1>0, <1>5 DEF ReviewOrphan, UpdateTxState, RefuseTransition, RecordType, recordVars, RecordStep, Same, Reviewed, Live
<1>6. QED
  BY <1>1, <1>2, <1>3, <1>4, <1>5 DEF Review

\* Handling the outcome of one dispatch touches the record it is about only.
LEMMA HandleRecord ==
    ASSUME RecordType, PassInv, NodeTypeOK, NEW u \in Txs, NEW t \in Txs, HandleStep(u)
    PROVE  RecordStep(t)
<1>0. UNCHANGED vheight
  BY DEF HandleStep, HandleSuccess, HandleFatal, Fail, PublishFailure, ProbeConfirmations,
         ProbeInputs, Handling, viewVars
<1>1. outcome[u] \notin {"none", "publish"} => state[u] = "ToDispatch"
  BY DEF PassInv, SnapshotFresh
<1>2. CASE HandleSuccess(u)
  BY <1>1, <1>2 DEF HandleSuccess, Handling, MarkAccepted, RecordType, RecordStep, Same, Accepted, Live
<1>3. ASSUME NEW from \in {"Fatal", "ParentFailed", "absent"}, Fail(u, from)
      PROVE  RecordStep(t)
  BY <1>0, <1>1, <1>3 DEF Fail, Handling, SettleTx, RefuseTransition, recordVars, RecordType, RecordStep, Same, Fails
<1>4. CASE PublishFailure(u)
  BY <1>4 DEF PublishFailure, recordVars, RecordStep, Same
<1>5. CASE ProbeConfirmations(u)
  <2>1. CASE MayAnswerZero(u) /\ Handling(u, "DispatchError", "none") /\ MarkAccepted(u)
    BY <1>1, <2>1 DEF Handling, MarkAccepted, RecordType, RecordStep, Same, Accepted, Live
  <2>2. CASE u \in OnChain /\ Handling(u, "DispatchError", "none") /\ MarkAlreadyConfirmed(u)
    BY <1>1, <2>2 DEF Handling, MarkAlreadyConfirmed, RecordType, RecordStep, Same, Accepted, Live
  <2>3. CASE UNCHANGED recordVars
    BY <2>3 DEF recordVars, RecordStep, Same
  <2>4. QED
    BY <1>5, <2>1, <2>2, <2>3 DEF ProbeConfirmations
<1>6. CASE ProbeInputs(u)
  <2>1. CASE Handling(u, "absent", "none") /\ MarkAsRetry(u)
    BY <1>1, <2>1 DEF Handling, MarkAsRetry, RefuseTransition, recordVars, RecordType, RecordStep, Same
  <2>2. CASE Fail(u, "absent")
    BY <1>3, <2>2
  <2>3. QED
    BY <1>6, <2>1, <2>2 DEF ProbeInputs
<1>7. CASE HandleFatal(u)
  BY <1>3, <1>7 DEF HandleFatal
<1>8. QED
  BY <1>2, <1>4, <1>5, <1>6, <1>7 DEF HandleStep

\* Everything one step of the system can do to one record.
LEMMA RecordSteps ==
    ASSUME RecordType, PassInv, NodeTypeOK, [Next]_vars, NEW t \in Txs
    PROVE  RecordStep(t)
<1>1. CASE \E u \in Txs, delay \in Delays : Register(u, delay)
  BY <1>1 DEF Register, Known, RecordType, RecordStep, Same, Enrolled
<1>2. CASE \E u \in Cancelled : Cancel(u)
  BY <1>2, EngineAssumption
     DEF Cancel, Cancellable, RemoveTxs, recordVars, RecordType, RecordStep, Same, Removed
<1>3. CASE TickStart
  <2>1. vheight' = height /\ RemoveTxs(StaleTxs(height))
    BY <1>3 DEF TickStart
  <2>2. QED
    BY <2>1 DEF RemoveTxs, StaleTxs, RecordType, RecordStep, Same, Removed
<1>4. CASE \E u \in Txs : Review(u)
  BY <1>4, ReviewRecord
<1>5. CASE \E u \in Txs : HandleStep(u)
  BY <1>5, HandleRecord
<1>6. CASE UNCHANGED recordVars
  BY <1>6 DEF recordVars, RecordStep, Same
<1>7. QED
  <2>1. (\E u \in Txs : DispatchStep(u)) => UNCHANGED recordVars
    BY DEF DispatchStep, DispatchParentFailed, DispatchDeferred, DispatchSend, Dispatched
  <2>2. TickNotReady \/ BeginDispatch \/ BeginHandle \/ EndTick => UNCHANGED recordVars
    BY DEF TickNotReady, BeginDispatch, BeginHandle, EndTick
  <2>3. FaultStep \/ RetryIntervalElapses \/ Network => UNCHANGED recordVars
    BY DEF FaultStep, TickError, Crash, RetryIntervalElapses, Network
  <2>4. UNCHANGED vars => UNCHANGED recordVars
    BY DEF vars
  <2>5. QED
    BY <1>1, <1>2, <1>3, <1>4, <1>5, <1>6, <2>1, <2>2, <2>3, <2>4
       DEF Next, ClientStep, TickStep

-----------------------------------------------------------------------------
(* Every step is a step of the node and the monitor, as BitcoinNodeProofs     *)
(* knows them.                                                                *)

\* The coordinator touches the node and the index only by broadcasting and by
\* ticking the monitor.
LEMMA StepsOfNode ==
    ASSUME [Next]_vars
    PROVE  NodeStep
<1>1. ClientStep => UNCHANGED <<nodeVars, viewVars>>
  BY DEF ClientStep, Register, Cancel
<1>2. TickNotReady \/ TickStart => MonitorTick
  BY DEF TickNotReady, TickStart
<1>3. BeginDispatch \/ BeginHandle \/ EndTick => UNCHANGED <<nodeVars, viewVars>>
  BY DEF BeginDispatch, BeginHandle, EndTick
<1>4. ASSUME NEW u \in Txs
      PROVE  Review(u) \/ HandleStep(u) => UNCHANGED <<nodeVars, viewVars>>
  BY DEF Review, HandleStep, HandleSuccess, HandleFatal, Fail, PublishFailure,
         ProbeConfirmations, ProbeInputs, Handling
<1>5. ASSUME NEW u \in Txs
      PROVE  DispatchStep(u) => Accept(u) \/ UNCHANGED <<nodeVars, viewVars>>
  BY DEF DispatchStep, DispatchParentFailed, DispatchDeferred, DispatchSend
<1>6. FaultStep \/ RetryIntervalElapses => UNCHANGED <<nodeVars, viewVars>>
  BY DEF FaultStep, TickError, Crash, RetryIntervalElapses
<1>7. Network => NetworkStep
  BY DEF Network
<1>8. UNCHANGED vars => UNCHANGED <<nodeVars, viewVars>>
  BY DEF vars
<1>9. QED
  BY <1>1, <1>2, <1>3, <1>4, <1>5, <1>6, <1>7, <1>8 DEF Next, TickStep, NodeStep

-----------------------------------------------------------------------------
(* The snapshot a pass works from stays fresh. *)

\* A review removes the record from the snapshot before it changes it.
LEMMA ReviewPass ==
    ASSUME RecordType, PassInv, NEW u \in Txs, Review(u)
    PROVE  PassInv'
<1>1. \A t \in Txs : t # u => state'[t] = state[t]
  BY DEF Review, ReviewInMempool, ReviewNotFound, ReviewFinalized, ReviewConfirmed,
         ReviewOrphan, MarkReorg, RequeueNotFound, SettleTx, UpdateTxState,
         RefuseTransition, recordVars, RecordType
<1>2. outcome' = NoOutcome /\ pc' = "review" /\ todo' = todo \ {u}
  BY DEF Review, PassInv
<1>3. \A t \in Txs : t \in todo' => state'[t] \in {"InMempool", "Confirmed"}
  BY <1>1, <1>2 DEF Review, PassInv, SnapshotFresh
<1>4. QED
  BY <1>2, <1>3 DEF PassInv, SnapshotFresh, NoOutcome

\* Handling one outcome changes the record it is about and no other.
LEMMA HandlePass ==
    ASSUME RecordType, PassInv, NEW u \in Txs, HandleStep(u)
    PROVE  PassInv'
<1>0. /\ pc = "handle" /\ pc' = "handle" /\ todo' = todo /\ todo = {}
      /\ \A t \in Txs : t # u => outcome'[t] = outcome[t]
  BY DEF HandleStep, HandleSuccess, HandleFatal, Fail, PublishFailure, ProbeConfirmations,
         ProbeInputs, Handling, PassInv, RecordType
<1>1. \A t \in Txs : t # u => state'[t] = state[t]
  BY DEF HandleStep, HandleSuccess, HandleFatal, Fail, PublishFailure, ProbeConfirmations,
         ProbeInputs, MarkAccepted, MarkAlreadyConfirmed, MarkAsRetry, SettleTx,
         RefuseTransition, recordVars, RecordType
<1>2. outcome[u] \notin {"none", "publish"} => state[u] = "ToDispatch"
  BY DEF PassInv, SnapshotFresh
<1>3. /\ outcome'[u] = "publish" => state'[u] = "Failed"
      /\ outcome'[u] \notin {"none", "publish"} => state'[u] = "ToDispatch"
  <2>1. CASE HandleSuccess(u) \/ PublishFailure(u)
    BY <2>1 DEF HandleSuccess, PublishFailure, Handling, RecordType
  <2>2. ASSUME NEW from \in {"Fatal", "ParentFailed", "absent"}, Fail(u, from)
        PROVE  outcome'[u] = "publish" /\ state'[u] = "Failed"
    <3>1. state[u] = "ToDispatch"
      BY <1>2, <2>2 DEF Fail, Handling
    <3>2. Known(u) /\ CanTransitionTo(state[u], "Failed")
      BY <3>1 DEF Known, CanTransitionTo, Transitions
    <3>3. QED
      BY <2>2, <3>2 DEF Fail, Handling, SettleTx, RefuseTransition, RecordType
  <2>3. CASE ProbeConfirmations(u)
    BY <1>2, <2>3 DEF ProbeConfirmations, Handling, recordVars, RecordType
  <2>4. CASE ProbeInputs(u)
    <3>1. CASE Handling(u, "absent", "none")
      BY <3>1 DEF Handling, RecordType
    <3>2. CASE Fail(u, "absent")
      BY <3>2, <2>2
    <3>3. QED
      BY <2>4, <3>1, <3>2 DEF ProbeInputs
  <2>5. CASE HandleFatal(u)
    BY <2>5, <2>2 DEF HandleFatal
  <2>6. QED
    BY <2>1, <2>3, <2>4, <2>5 DEF HandleStep
<1>4. QED
  BY <1>0, <1>1, <1>3 DEF PassInv, SnapshotFresh

\* Sending one transaction removes it from the batch and notes its outcome.
LEMMA DispatchPass ==
    ASSUME RecordType, PassInv, NEW u \in Txs, DispatchStep(u)
    PROVE  PassInv'
<1>1. PICK o \in {"none", "Success", "ParentFailed", "DispatchError"} : Dispatched(u, o)
  BY DEF DispatchStep, DispatchParentFailed, DispatchDeferred, DispatchSend
<1>2. state[u] = "ToDispatch" /\ pc = "dispatch"
  BY <1>1 DEF Dispatched, PassInv, SnapshotFresh
<1>3. state' = state /\ pc' = pc /\ todo' = todo \ {u}
  BY <1>1 DEF Dispatched, recordVars
<1>4. outcome'[u] = o /\ \A t \in Txs : t # u => outcome'[t] = outcome[t]
  BY <1>1 DEF Dispatched, RecordType
<1>5. QED
  BY <1>2, <1>3, <1>4 DEF PassInv, SnapshotFresh

\* Choosing a batch takes queued records only.
LEMMA BatchPass ==
    ASSUME PassInv, BeginDispatch
    PROVE  PassInv'
<1>1. PICK batch \in SUBSET Due :
          /\ outcome' = [t \in Txs |-> IF t \in batch \cap Invalid THEN "Fatal" ELSE "none"]
          /\ todo' = batch \ Invalid
  BY DEF BeginDispatch, RateLimited, Retrying
<1>2. pc' = "dispatch" /\ state' = state
  BY DEF BeginDispatch, recordVars
<1>3. \A t \in batch : state[t] = "ToDispatch"
  BY DEF Due
<1>4. ASSUME NEW t \in Txs
      PROVE  /\ outcome'[t] = IF t \in batch \cap Invalid THEN "Fatal" ELSE "none"
             /\ t \in todo' => t \in batch /\ t \notin Invalid
  BY <1>1
<1>5. QED
  BY <1>2, <1>3, <1>4 DEF PassInv, SnapshotFresh

\* Every step of the system keeps the snapshot of the pass under way fresh.
LEMMA PassSteps ==
    ASSUME RecordType, PassInv, [Next]_vars
    PROVE  PassInv'
<1>1. CASE \E u \in Txs, delay \in Delays : Register(u, delay)
  BY <1>1 DEF Register, PassInv, SnapshotFresh, tickVars, NoOutcome
<1>2. CASE \E u \in Cancelled : Cancel(u)
  BY <1>2 DEF Cancel, PassInv, SnapshotFresh, tickVars, NoOutcome
<1>3. CASE TickStart
  <2>1. \A t \in Txs : state[t] \in {"InMempool", "Confirmed"} => state'[t] = state[t]
    BY <1>3 DEF TickStart, RemoveTxs, StaleTxs, Terminal, RecordType
  <2>2. outcome' = NoOutcome /\ pc' = "review"
    BY <1>3 DEF TickStart, PassInv
  <2>3. \A t \in Txs : t \in todo' => state'[t] \in {"InMempool", "Confirmed"}
    BY <1>3, <2>1 DEF TickStart
  <2>4. QED
    BY <2>2, <2>3 DEF PassInv, SnapshotFresh, NoOutcome
<1>4. CASE \E u \in Txs : Review(u)
  BY <1>4, ReviewPass
<1>5. CASE \E u \in Txs : HandleStep(u)
  BY <1>5, HandlePass
<1>6. CASE \E u \in Txs : DispatchStep(u)
  BY <1>6, DispatchPass
<1>7. CASE BeginDispatch
  BY <1>7, BatchPass
<1>8. CASE BeginHandle
  BY <1>8 DEF BeginHandle, PassInv, SnapshotFresh, recordVars
<1>9. CASE EndTick
  BY <1>9 DEF EndTick, PassInv, SnapshotFresh, recordVars, NoOutcome
<1>10. CASE FaultStep
  BY <1>10 DEF FaultStep, TickError, Crash, AbandonTick, PassInv, SnapshotFresh, NoOutcome
<1>11. CASE UNCHANGED <<state, pc, todo, outcome>>
  BY <1>11 DEF PassInv, SnapshotFresh, NoOutcome
<1>12. QED
  <2>1. TickNotReady \/ RetryIntervalElapses \/ Network \/ UNCHANGED vars
          => UNCHANGED <<state, pc, todo, outcome>>
    BY DEF TickNotReady, RetryIntervalElapses, Network, vars, recordVars, tickVars
  <2>2. QED
    BY <1>1, <1>2, <1>3, <1>4, <1>5, <1>6, <1>7, <1>8, <1>9, <1>10, <1>11, <2>1
       DEF Next, ClientStep, TickStep

-----------------------------------------------------------------------------
(* Types. *)

StoreType ==
    /\ state \in [Txs -> RecordState]
    /\ target \in [Txs -> Nat]
    /\ broadcast \in [Txs -> 0..MaxHeight]
    /\ guard \in [Txs -> 0..(MaxHeight + MaxConfs)]
    /\ retries \in [Txs -> 0..RetryAttempts]
    /\ settled \in [Txs -> 0..MaxHeight]
    /\ news \subseteq NewsKinds \X Txs

TickType ==
    /\ pc \in {"idle", "review", "dispatch", "handle"}
    /\ todo \subseteq Txs
    /\ outcome \in [Txs -> Outcomes]
    /\ retryReady \in BOOLEAN
    /\ errors \in 0..MaxErrors
    /\ crashes \in 0..MaxCrashes

\* The writes of the review pass keep the store well-formed.
LEMMA ReviewStoreType ==
    ASSUME StoreType, NodeTypeOK, NEW u \in Txs, Review(u)
    PROVE  StoreType'
<1>0. vheight \in 0..MaxHeight /\ vheight + MaxConfs \in 0..(MaxHeight + MaxConfs)
  BY NodeAssumption DEF NodeTypeOK, Heights
<1> USE DEF StoreType, RecordState, TransactionState, Active, Terminal, NewsKinds
<1>1. CASE ReviewInMempool(u)
  BY <1>0, <1>1 DEF ReviewInMempool, MarkReorg, AddNews, recordVars
<1>2. ASSUME NEW to \in RecordState, RefuseTransition(u, to)
      PROVE  StoreType'
  BY <1>2 DEF RefuseTransition, AddNews, recordVars
<1>3. CASE ReviewNotFound(u)
  BY <1>0, <1>2, <1>3 DEF ReviewNotFound, RequeueNotFound
<1>4. CASE ReviewFinalized(u)
  BY <1>0, <1>2, <1>4 DEF ReviewFinalized, SettleTx
<1>5. CASE ReviewConfirmed(u)
  BY <1>0, <1>2, <1>5 DEF ReviewConfirmed, UpdateTxState
<1>6. CASE ReviewOrphan(u)
  BY <1>0, <1>2, <1>6 DEF ReviewOrphan, UpdateTxState
<1>7. QED
  BY <1>1, <1>3, <1>4, <1>5, <1>6 DEF Review

\* So do the writes that follow a dispatch.
LEMMA HandleStoreType ==
    ASSUME StoreType, NodeTypeOK, NEW u \in Txs, HandleStep(u)
    PROVE  StoreType'
<1>0. vheight \in 0..MaxHeight /\ 0 \in 0..(MaxHeight + MaxConfs)
  BY NodeAssumption DEF NodeTypeOK, Heights
<1> USE DEF StoreType, RecordState, TransactionState, Active, Terminal, NewsKinds
<1>1. ASSUME NEW to \in RecordState, RefuseTransition(u, to)
      PROVE  StoreType'
  BY <1>1 DEF RefuseTransition, AddNews, recordVars
<1>2. CASE MarkAccepted(u) \/ MarkAlreadyConfirmed(u)
  BY <1>0, <1>2 DEF MarkAccepted, MarkAlreadyConfirmed
<1>3. CASE SettleTx(u, "Failed")
  BY <1>0, <1>1, <1>3 DEF SettleTx
<1>4. CASE MarkAsRetry(u)
  BY <1>0, <1>1, <1>4, EngineAssumption DEF MarkAsRetry
<1>5. CASE UNCHANGED <<recordVars, news>>
  BY <1>5 DEF recordVars
<1>6. CASE PublishFailure(u)
  BY <1>6 DEF PublishFailure, AddNews, recordVars
<1>7. QED
  BY <1>2, <1>3, <1>4, <1>5, <1>6
     DEF HandleStep, HandleSuccess, HandleFatal, Fail, ProbeConfirmations, ProbeInputs

\* Every step keeps the store well-formed.
LEMMA StoreTypeSteps ==
    ASSUME StoreType, NodeTypeOK, NodeTypeOK', [Next]_vars
    PROVE  StoreType'
<1>1. CASE \E u \in Txs, delay \in Delays : Register(u, delay)
  <2>1. PICK u \in Txs, delay \in Delays : Register(u, delay)
    BY <1>1
  <2>2. vheight + delay \in Nat
    BY EngineAssumption, NodeAssumption DEF NodeTypeOK, Heights
  <2>3. QED
    BY <2>1, <2>2 DEF Register, StoreType, RecordState, TransactionState, Active
<1>2. ASSUME NEW S \in SUBSET Txs, RemoveTxs(S), news' \subseteq NewsKinds \X Txs
      PROVE  StoreType'
  BY <1>2, NodeAssumption, EngineAssumption DEF RemoveTxs, StoreType, RecordState
<1>3. CASE \E u \in Cancelled : Cancel(u)
  <2>1. PICK u \in Cancelled : Cancel(u)
    BY <1>3
  <2>2. CASE RemoveTxs({u}) /\ UNCHANGED news
    BY <1>2, <2>2, EngineAssumption DEF StoreType
  <2>3. CASE AddNews("InvalidCancel", u) /\ UNCHANGED recordVars
    BY <2>3, EngineAssumption DEF AddNews, recordVars, StoreType, NewsKinds
  <2>4. QED
    BY <2>1, <2>2, <2>3 DEF Cancel
<1>4. CASE TickStart
  <2>1. StaleTxs(height) \subseteq Txs
    BY DEF StaleTxs
  <2>2. news' \subseteq NewsKinds \X Txs
    BY <1>4, <2>1 DEF TickStart, StoreType, NewsKinds
  <2>3. QED
    BY <1>2, <1>4, <2>1, <2>2 DEF TickStart
<1>5. CASE \E u \in Txs : Review(u)
  BY <1>5, ReviewStoreType
<1>6. CASE \E u \in Txs : HandleStep(u)
  BY <1>6, HandleStoreType
<1>7. CASE UNCHANGED <<recordVars, news>>
  BY <1>7 DEF StoreType, recordVars
<1>8. QED
  <2>1. (\E u \in Txs : DispatchStep(u)) => UNCHANGED <<recordVars, news>>
    BY DEF DispatchStep, DispatchParentFailed, DispatchDeferred, DispatchSend, Dispatched
  <2>2. TickNotReady \/ BeginDispatch \/ BeginHandle \/ EndTick => UNCHANGED <<recordVars, news>>
    BY DEF TickNotReady, BeginDispatch, BeginHandle, EndTick
  <2>3. FaultStep \/ RetryIntervalElapses \/ Network \/ UNCHANGED vars
          => UNCHANGED <<recordVars, news>>
    BY DEF FaultStep, TickError, Crash, RetryIntervalElapses, Network, vars
  <2>4. QED
    BY <1>1, <1>3, <1>4, <1>5, <1>6, <1>7, <2>1, <2>2, <2>3 DEF Next, ClientStep, TickStep

\* Every step keeps the state of the tick well-formed.
LEMMA TickTypeSteps ==
    ASSUME TickType, [Next]_vars
    PROVE  TickType'
<1>0. NoOutcome \in [Txs -> Outcomes]
  BY DEF NoOutcome, Outcomes
<1> USE DEF TickType
<1>1. CASE TickStart
  BY <1>1 DEF TickStart, faultVars
<1>2. CASE \E u \in Txs : Review(u)
  BY <1>2 DEF Review, faultVars
<1>3. CASE BeginDispatch
  <2>0. retryReady' \in BOOLEAN
    BY <1>3, Zenon DEF BeginDispatch
  <2>1. todo' \subseteq Txs
    BY <1>3 DEF BeginDispatch, RateLimited, Retrying, Due
  <2>2. outcome' \in [Txs -> Outcomes]
    BY <1>3 DEF BeginDispatch, Outcomes
  <2>3. QED
    BY <1>3, <2>0, <2>1, <2>2 DEF BeginDispatch, faultVars
<1>4. CASE \E u \in Txs : DispatchStep(u)
  <2>1. PICK u \in Txs, o \in {"none", "Success", "ParentFailed", "DispatchError"} :
            Dispatched(u, o)
    BY <1>4 DEF DispatchStep, DispatchParentFailed, DispatchDeferred, DispatchSend
  <2>2. QED
    BY <2>1 DEF Dispatched, Outcomes, faultVars
<1>5. CASE \E u \in Txs : HandleStep(u)
  <2>1. PICK u \in Txs, from \in Outcomes, to \in {"none", "absent", "publish"} :
            Handling(u, from, to)
    BY <1>5 DEF HandleStep, HandleSuccess, HandleFatal, Fail, PublishFailure,
                ProbeConfirmations, ProbeInputs, Outcomes
  <2>2. QED
    BY <2>1 DEF Handling, Outcomes, faultVars
<1>6. CASE BeginHandle \/ EndTick
  BY <1>6 DEF BeginHandle, EndTick, faultVars
<1>7. CASE FaultStep
  <2>1. errors' \in 0..MaxErrors /\ crashes' \in 0..MaxCrashes
    BY <1>7, EngineAssumption DEF FaultStep, TickError, Crash
  <2>2. pc' = "idle" /\ todo' = {} /\ outcome' = NoOutcome
    BY <1>7 DEF FaultStep, TickError, Crash, AbandonTick
  <2>3. retryReady' \in BOOLEAN
    BY <1>7, Zenon DEF FaultStep, TickError, Crash
  <2>4. QED
    BY <1>0, <2>1, <2>2, <2>3
<1>8. CASE RetryIntervalElapses
  BY <1>8 DEF RetryIntervalElapses, faultVars
<1>9. CASE UNCHANGED <<tickVars, faultVars>>
  BY <1>9 DEF tickVars, faultVars
<1>10. QED
  <2>1. ClientStep \/ TickNotReady \/ Network \/ UNCHANGED vars
          => UNCHANGED <<tickVars, faultVars>>
    BY DEF ClientStep, Register, Cancel, TickNotReady, Network, vars
  <2>2. QED
    BY <1>1, <1>2, <1>3, <1>4, <1>5, <1>6, <1>7, <1>8, <1>9, <2>1 DEF Next, TickStep

-----------------------------------------------------------------------------
(* The inductive invariant and the theorems. *)

\* A record has a settled height only once it is terminal, and what the node is
\* known to have taken reached the network.
Bookkeeping ==
    \A t \in Txs : /\ state[t] \notin Terminal => settled[t] = 0
                   /\ outcome[t] = "Success" => t \in relayed

IndInv ==
    /\ TypeOK
    /\ IndexAgrees
    /\ ReachedNetwork
    /\ PassInv
    /\ Bookkeeping
    /\ GuardOnlyWhileQueued
    /\ NoPhantom

\* The invariant holds initially.
LEMMA IndInvInit == Init => IndInv
<1> SUFFICES ASSUME Init PROVE IndInv
  OBVIOUS
<1>1. NodeTypeOK /\ IndexAgrees /\ ReachedNetwork
  BY NodeStart DEF Init
<1>2. TypeOK
  <2>1. /\ 0 \in 0..MaxHeight /\ 0 \in 0..(MaxHeight + MaxConfs) /\ 0 \in 0..RetryAttempts
        /\ 0 \in 0..MaxErrors /\ 0 \in 0..MaxCrashes /\ 0 \in Nat
    BY NodeAssumption, EngineAssumption
  <2>2. retryReady \in BOOLEAN
    BY Zenon DEF Init
  <2>3. QED
    BY <1>1, <2>1, <2>2 DEF Init, TypeOK, NoOutcome, Outcomes, RecordState, NewsKinds
<1>3. PassInv
  BY DEF Init, PassInv, SnapshotFresh, NoOutcome
<1>4. Bookkeeping /\ GuardOnlyWhileQueued /\ NoPhantom
  BY DEF Init, Bookkeeping, GuardOnlyWhileQueued, NoPhantom, NoOutcome, Terminal
<1>5. QED
  BY <1>1, <1>2, <1>3, <1>4 DEF IndInv

\* What reached the network stays known to have reached it.
LEMMA RelayedGrows ==
    ASSUME NodeStep
    PROVE  relayed \subseteq relayed'
  BY DEF NodeStep, NetworkStep, Mine, Reorg, Evict, ForeignBroadcast, Accept, MonitorTick, nodeVars

\* A Success is noted only in the step in which the node takes the transaction.
LEMMA SuccessIsSent ==
    ASSUME RecordType, [Next]_vars, NEW t \in Txs, outcome'[t] = "Success"
    PROVE  outcome[t] = "Success" \/ t \in relayed'
<1>1. CASE \E u \in Txs : DispatchStep(u)
  <2>1. PICK u \in Txs : DispatchStep(u)
    BY <1>1
  <2>2. CASE t = u
    BY <2>1, <2>2 DEF DispatchStep, DispatchParentFailed, DispatchDeferred, DispatchSend,
                      Dispatched, Accept, RecordType
  <2>3. CASE t # u
    BY <2>1, <2>3 DEF DispatchStep, DispatchParentFailed, DispatchDeferred, DispatchSend,
                      Dispatched, RecordType
  <2>4. QED
    BY <2>2, <2>3
<1>2. CASE \E u \in Txs : HandleStep(u)
  <2>1. PICK u \in Txs, from \in Outcomes, to \in {"none", "absent", "publish"} :
            Handling(u, from, to)
    BY <1>2 DEF HandleStep, HandleSuccess, HandleFatal, Fail, PublishFailure,
                ProbeConfirmations, ProbeInputs, Outcomes
  <2>2. QED
    BY <2>1 DEF Handling, RecordType
<1>3. CASE BeginDispatch
  BY <1>3 DEF BeginDispatch
<1>4. CASE FaultStep
  BY <1>4 DEF FaultStep, TickError, Crash, AbandonTick, NoOutcome
<1>5. CASE UNCHANGED outcome
  BY <1>5
<1>6. QED
  <2>1. ClientStep \/ TickNotReady \/ TickStart \/ BeginHandle \/ EndTick
          \/ RetryIntervalElapses \/ Network \/ UNCHANGED vars => UNCHANGED outcome
    BY DEF ClientStep, Register, Cancel, TickNotReady, TickStart, BeginHandle, EndTick,
           RetryIntervalElapses, Network, vars, tickVars
  <2>2. (\E u \in Txs : Review(u)) => UNCHANGED outcome
    BY DEF Review
  <2>3. QED
    BY <1>1, <1>2, <1>3, <1>4, <1>5, <2>1, <2>2 DEF Next, TickStep

\* Every step preserves the invariant.
LEMMA IndInvStep == IndInv /\ [Next]_vars => IndInv'
<1> SUFFICES ASSUME IndInv, [Next]_vars PROVE IndInv'
  OBVIOUS
<1>1. NodeStep
  BY StepsOfNode
<1>2. NodeTypeOK /\ IndexAgrees /\ ReachedNetwork /\ PassInv
  BY DEF IndInv, TypeOK
<1>3. NodeTypeOK' /\ IndexAgrees' /\ ReachedNetwork'
  BY <1>1, <1>2, NodeType, NodeAgrees, NodeReached
<1>4. RecordType /\ StoreType /\ TickType
  BY DEF IndInv, TypeOK, RecordType, StoreType, TickType
<1>5. StoreType' /\ TickType'
  BY <1>2, <1>3, <1>4, StoreTypeSteps, TickTypeSteps
<1>6. TypeOK'
  BY <1>3, <1>5 DEF TypeOK, StoreType, TickType
<1>7. PassInv'
  BY <1>2, <1>4, PassSteps
<1>8. ASSUME NEW t \in Txs PROVE RecordStep(t)
  BY <1>2, <1>4, RecordSteps
<1>9. Bookkeeping'
  <2>1. ASSUME NEW t \in Txs, state'[t] \notin Terminal PROVE settled'[t] = 0
    BY <1>8, <2>1 DEF IndInv, Bookkeeping, RecordStep, Same, Enrolled, Removed, Requeued,
                      Reviewed, Accepted, Finalizes, Fails, Terminal, Live
  <2>2. ASSUME NEW t \in Txs, outcome'[t] = "Success" PROVE t \in relayed'
    BY <1>1, <1>4, <2>2, SuccessIsSent, RelayedGrows DEF IndInv, Bookkeeping
  <2>3. QED
    BY <2>1, <2>2 DEF Bookkeeping
<1>10. GuardOnlyWhileQueued'
  <2>1. ASSUME NEW t \in Txs, guard'[t] # 0 PROVE state'[t] \in {"ToDispatch", "Failed"}
    BY <1>8, <2>1 DEF IndInv, GuardOnlyWhileQueued, RecordStep, Same, Enrolled, Removed,
                      Requeued, Reviewed, Accepted, Finalizes, Fails, Live
  <2>2. QED
    BY <2>1 DEF GuardOnlyWhileQueued
<1>11. NoPhantom'
  <2>1. ASSUME NEW t \in Txs, state'[t] \in {"InMempool", "Confirmed", "Finalized"}
        PROVE  t \in relayed' /\ broadcast'[t] # 0
    <3>1. vheight # 0
      BY <1>2, NodeAssumption DEF NodeTypeOK, Heights
    <3>2. outcome[t] = "Success" \/ MayAnswerZero(t) \/ t \in OnChain => t \in relayed
      BY <1>2 DEF IndInv, Bookkeeping, ReachedNetwork, MayAnswerZero, OnChain
    <3>3. t \in relayed /\ broadcast'[t] # 0
      BY <1>8, <2>1, <3>1, <3>2
         DEF IndInv, NoPhantom, RecordStep, Same, Enrolled, Removed, Requeued, Reviewed,
             Accepted, Finalizes, Fails, Live
    <3>4. QED
      BY <1>1, <3>3, RelayedGrows
  <2>2. QED
    BY <2>1 DEF NoPhantom
<1>12. QED
  BY <1>3, <1>6, <1>7, <1>9, <1>10, <1>11 DEF IndInv

\* The invariant holds in every reachable state.
THEOREM Invariance == Spec => []IndInv
<1>1. Init => IndInv
  BY IndInvInit
<1>2. IndInv /\ [Next]_vars => IndInv'
  BY IndInvStep
<1>3. QED
  BY <1>1, <1>2, PTL DEF Spec

\* Type correctness, for every set of transactions and every bound.
THEOREM TypeCorrect == Spec => []TypeOK
<1>1. IndInv => TypeOK
  BY DEF IndInv
<1>2. QED
  BY <1>1, Invariance, PTL

\* No unchecked write of a record copy overwrites a decision taken meanwhile.
THEOREM SnapshotsStayFresh == Spec => []SnapshotFresh
<1>1. IndInv => SnapshotFresh
  BY DEF IndInv, PassInv
<1>2. QED
  BY <1>1, Invariance, PTL

\* A live record has no leftover fail-guard deadline.
THEOREM GuardDisarmed == Spec => []GuardOnlyWhileQueued
<1>1. IndInv => GuardOnlyWhileQueued
  BY DEF IndInv
<1>2. QED
  BY <1>1, Invariance, PTL

\* Only what reached the network is ever reported InMempool, Confirmed or
\* Finalized.
THEOREM NoPhantoms == Spec => []NoPhantom
<1>1. IndInv => NoPhantom
  BY DEF IndInv
<1>2. QED
  BY <1>1, Invariance, PTL

-----------------------------------------------------------------------------
(* Finality. *)

Buried == \A t \in Txs : state[t] = "Finalized" =>
                           minedAt[t] # 0 /\ minedAt[t] <= height - MaxReorg

\* A record settled Finalized stays on the best chain for ever, provided
\* reorganisations are strictly shallower than max_monitoring_confirmations.
THEOREM FinalizedIsPermanent ==
    ASSUME MaxReorg < MaxConfs
    PROVE  Spec => []FinalizedOnChain
<1>1. Init => Buried
  BY DEF Init, Buried
<1>2. IndInv /\ Buried /\ [Next]_vars => Buried'
  <2> SUFFICES ASSUME IndInv, Buried, [Next]_vars, NEW t \in Txs, state'[t] = "Finalized"
               PROVE  minedAt'[t] # 0 /\ minedAt'[t] <= height' - MaxReorg
    BY DEF Buried
  <2>1. NodeTypeOK /\ IndexAgrees /\ PassInv /\ RecordType /\ t \in Transactions
    BY DEF IndInv, TypeOK, RecordType, Transactions
  <2>2. RecordStep(t)
    BY <2>1, RecordSteps
  <2>3. state[t] = "Finalized" \/ TxStatus(t) = "finalized"
    BY <2>2 DEF RecordStep, Same, Enrolled, Removed, Requeued, Reviewed, Accepted, Finalizes,
                Fails, Live
  <2>4. minedAt[t] # 0 /\ minedAt[t] <= height - MaxReorg
    BY <2>1, <2>3, FinalizedIsDeep DEF Buried
  <2>5. QED
    BY <2>1, <2>4, StepsOfNode, DeepStaysMined
<1>3. Buried => FinalizedOnChain
  BY DEF Buried, FinalizedOnChain, OnChain, Transactions
<1>4. QED
  BY <1>1, <1>2, <1>3, Invariance, PTL DEF Spec

-----------------------------------------------------------------------------
(* Refinement. *)

\* Every step of the engine is a step of the lifecycle promised to clients, or
\* leaves it alone.
THEOREM EngineImplementsLifecycle == Spec => ImplementsLifecycle
<1>1. Init => Lifecycle!Init
  BY NodeAssumption DEF Init, NodeInit, Lifecycle!Init
<1>2. IndInv /\ IndInv' /\ [Next]_vars => [Lifecycle!Next]_<<state, settled, vheight>>
  <2> SUFFICES ASSUME IndInv, IndInv', [Next]_vars
               PROVE  Lifecycle!Next
    OBVIOUS
  <2>1. vheight \in Nat /\ vheight' \in Nat
    BY NodeAssumption DEF IndInv, TypeOK, NodeTypeOK, Heights
  <2>2. NodeTypeOK /\ PassInv /\ RecordType
    BY DEF IndInv, TypeOK, RecordType
  <2>3. ASSUME NEW t \in Txs
        PROVE  \/ Lifecycle!Keeps(t)
               \/ Lifecycle!Registers(t)
               \/ Lifecycle!Advances(t)
               \/ Lifecycle!Withdrawn(t)
               \/ Lifecycle!Expires(t)
    <3>1. RecordStep(t)
      BY <2>2, RecordSteps
    <3>2. state[t] \notin Terminal => settled[t] = 0
      BY DEF IndInv, Bookkeeping
    <3>3. CASE Same(t)
      BY <3>3 DEF Same, Lifecycle!Keeps
    <3>4. CASE Enrolled(t)
      BY <3>2, <3>4 DEF Enrolled, Terminal, Lifecycle!Registers
    <3>5. CASE Removed(t)
      BY <3>5 DEF Removed, Terminal, Lifecycle!Withdrawn, Lifecycle!Expires, Lifecycle!Terminal
    <3>6. CASE Requeued(t) \/ Reviewed(t) \/ Accepted(t)
      BY <3>2, <3>6
         DEF Requeued, Reviewed, Accepted, Live, Terminal, Lifecycle!Advances,
             Lifecycle!Active, Lifecycle!Terminal, Lifecycle!TransactionState,
             Lifecycle!CanTransitionTo, Lifecycle!Transitions
    <3>7. CASE Finalizes(t) \/ Fails(t)
      BY <3>7
         DEF Finalizes, Fails, Live, Lifecycle!Advances, Lifecycle!Active,
             Lifecycle!Terminal, Lifecycle!TransactionState,
             Lifecycle!CanTransitionTo, Lifecycle!Transitions
    <3>8. QED
      BY <3>1, <3>3, <3>4, <3>5, <3>6, <3>7 DEF RecordStep
  <2>4. QED
    BY <2>1, <2>3 DEF Lifecycle!Next
<1>3. QED
  BY <1>1, <1>2, Invariance, PTL DEF Spec, ImplementsLifecycle, Lifecycle!Spec

-----------------------------------------------------------------------------
(* The index and the store after a review. *)

\* The record of t says what the monitor's index says.
Agrees(t) ==
    /\ state[t] = "Confirmed" => vmined[t] # 0 /\ Confirmations(t) < MaxConfs
    /\ state[t] = "InMempool" => vmined[t] = 0

\* The review pass leaves behind it only records that agree with the index, and
\* nothing between the pass and the broadcasts moves the index or a record.
ReviewProgress ==
    /\ pc = "review" => \A t \in Txs : t \notin todo => Agrees(t)
    /\ pc = "dispatch" => \A t \in Txs : Agrees(t)

\* Whatever the status of the record under review, it agrees afterwards.
LEMMA ReviewSettlesStatus ==
    ASSUME RecordType, PassInv, NEW u \in Txs, Review(u)
    PROVE  Agrees(u)'
<1>1. state[u] \in Live /\ UNCHANGED <<vheight, vmined>>
  BY DEF Review, PassInv, SnapshotFresh, viewVars, Live
<1>2. \A to \in {"ToDispatch", "Finalized", "Confirmed", "InMempool"} :
          Known(u) /\ CanTransitionTo(state[u], to)
  BY <1>1 DEF Live, Known, CanTransitionTo, Transitions
<1>3. CASE ReviewInMempool(u)
  <2>1. vmined[u] = 0 /\ state'[u] = "InMempool"
    BY <1>1, <1>3 DEF ReviewInMempool, MarkReorg, TxStatus, recordVars, RecordType, Live
  <2>2. QED
    BY <1>1, <2>1 DEF Agrees
<1>4. CASE ReviewNotFound(u)
  BY <1>1, <1>2, <1>4 DEF ReviewNotFound, RequeueNotFound, RefuseTransition, RecordType, Agrees
<1>5. CASE ReviewFinalized(u)
  BY <1>1, <1>2, <1>5 DEF ReviewFinalized, SettleTx, RefuseTransition, RecordType, Agrees
<1>6. CASE ReviewConfirmed(u)
  <2>1. vmined[u] # 0 /\ Confirmations(u) < MaxConfs /\ state'[u] = "Confirmed"
    BY <1>2, <1>6 DEF ReviewConfirmed, UpdateTxState, RefuseTransition, TxStatus, RecordType
  <2>2. QED
    BY <1>1, <2>1 DEF Agrees, Confirmations
<1>7. CASE ReviewOrphan(u)
  <2>1. vmined[u] = 0 /\ state'[u] = "InMempool"
    BY <1>2, <1>7 DEF ReviewOrphan, UpdateTxState, RefuseTransition, TxStatus, RecordType
  <2>2. QED
    BY <1>1, <2>1 DEF Agrees
<1>8. QED
  BY <1>3, <1>4, <1>5, <1>6, <1>7 DEF Review

\* Every step keeps what the review pass has established.
LEMMA ReviewProgressSteps ==
    ASSUME RecordType, PassInv, ReviewProgress, [Next]_vars
    PROVE  ReviewProgress'
<1>1. CASE pc' \notin {"review", "dispatch"}
  BY <1>1 DEF ReviewProgress
<1>2. CASE TickStart
  <2>1. pc' = "review" /\ \A t \in Txs : t \notin todo' => state[t] \notin Live
    BY <1>2 DEF TickStart, Live
  <2>2. \A t \in Txs : state'[t] = state[t] \/ state'[t] = "Unregistered"
    BY <1>2 DEF TickStart, RemoveTxs, RecordType
  <2>3. QED
    BY <2>1, <2>2 DEF ReviewProgress, Agrees, Live
<1>3. CASE \E u \in Txs : Review(u)
  <2>1. PICK u \in Txs : Review(u)
    BY <1>3
  <2>2. pc = "review" /\ pc' = "review" /\ todo' = todo \ {u} /\ UNCHANGED <<vheight, vmined>>
    BY <2>1 DEF Review, viewVars
  <2>3. ASSUME NEW t \in Txs, t # u, Agrees(t) PROVE Agrees(t)'
    <3>1. state'[t] = state[t]
      BY <2>1, <2>3 DEF Review, ReviewInMempool, ReviewNotFound, ReviewFinalized,
                ReviewConfirmed, ReviewOrphan, MarkReorg, RequeueNotFound, SettleTx,
                UpdateTxState, RefuseTransition, recordVars, RecordType
    <3>2. QED
      BY <2>2, <2>3, <3>1 DEF Agrees, Confirmations
  <2>4. Agrees(u)'
    BY <2>1, ReviewSettlesStatus
  <2>5. QED
    BY <2>2, <2>3, <2>4 DEF ReviewProgress
<1>4. CASE UNCHANGED <<state, vheight, vmined, pc, todo>>
  BY <1>4 DEF ReviewProgress, Agrees, Confirmations
<1>5. CASE BeginDispatch
  BY <1>5 DEF BeginDispatch, ReviewProgress, Agrees, Confirmations, recordVars, viewVars
<1>6. CASE \E u \in Txs : DispatchStep(u)
  <2>1. pc = "dispatch" /\ pc' = "dispatch" /\ UNCHANGED <<state, vheight, vmined>>
    BY <1>6 DEF DispatchStep, DispatchParentFailed, DispatchDeferred, DispatchSend,
                Dispatched, Accept, recordVars, viewVars
  <2>2. QED
    BY <2>1 DEF ReviewProgress, Agrees, Confirmations
<1>7. QED
  <2>1. ClientStep \/ TickNotReady => pc' = "idle"
    BY DEF ClientStep, Register, Cancel, TickNotReady, tickVars
  <2>2. BeginHandle \/ EndTick \/ FaultStep => pc' \in {"handle", "idle"}
    BY DEF BeginHandle, EndTick, FaultStep, TickError, Crash, AbandonTick
  <2>3. (\E u \in Txs : HandleStep(u)) => pc' = "handle"
    BY DEF HandleStep, HandleSuccess, HandleFatal, Fail, PublishFailure, ProbeConfirmations,
           ProbeInputs, Handling
  <2>4. RetryIntervalElapses \/ UNCHANGED vars => UNCHANGED <<state, vheight, vmined, pc, todo>>
    BY DEF RetryIntervalElapses, vars, recordVars, viewVars, tickVars
  <2>5. Network => UNCHANGED <<state, vheight, vmined, pc, todo>>
    BY DEF Network, NetworkStep, Mine, Reorg, Evict, ForeignBroadcast, recordVars, viewVars,
           tickVars
  <2>6. QED
    BY <1>1, <1>2, <1>3, <1>4, <1>5, <1>6, <2>1, <2>2, <2>3, <2>4, <2>5 DEF Next, TickStep

\* When the broadcasts begin, every live record says what the index says.
THEOREM ReviewLeavesAgreement == Spec => []ReviewedAgreesWithIndex
<1>1. Init => ReviewProgress
  BY DEF Init, ReviewProgress
<1>2. IndInv /\ ReviewProgress /\ [Next]_vars => ReviewProgress'
  BY ReviewProgressSteps DEF IndInv, TypeOK, RecordType
<1>3. ReviewProgress => ReviewedAgreesWithIndex
  BY DEF ReviewProgress, ReviewedAgreesWithIndex, Agrees
<1>4. QED
  BY <1>1, <1>2, <1>3, Invariance, PTL DEF Spec

-----------------------------------------------------------------------------
(* What is published. *)

RefusalKinds == {"InvalidStateTransition", "TxNotFound"}

\* News is only ever added, and a step never adds that of a refused transition:
\* a reviewed record is live and a handled one queued, and can_transition_to
\* allows from there all that review and classification ask for.
LEMMA NewsSteps ==
    ASSUME RecordType, PassInv, [Next]_vars
    PROVE  /\ news \subseteq news'
           /\ \A t \in Txs, k \in RefusalKinds : <<k, t>> \in news' => <<k, t>> \in news
<1>0. ASSUME NEW kind, NEW S, kind \notin RefusalKinds, news' = news \cup ({kind} \X S)
      PROVE  /\ news \subseteq news'
             /\ \A t \in Txs, k \in RefusalKinds : <<k, t>> \in news' => <<k, t>> \in news
  BY <1>0
<1>1. ASSUME NEW kind, NEW u, kind \notin RefusalKinds, AddNews(kind, u)
      PROVE  /\ news \subseteq news'
             /\ \A t \in Txs, k \in RefusalKinds : <<k, t>> \in news' => <<k, t>> \in news
  BY <1>1 DEF AddNews
<1>2. CASE UNCHANGED news
  BY <1>2
<1>3. CASE \E u \in Cancelled : Cancel(u)
  BY <1>1, <1>2, <1>3 DEF Cancel, RefusalKinds
<1>4. CASE TickStart
  BY <1>0, <1>4 DEF TickStart, RefusalKinds
<1>5. CASE \E u \in Txs : Review(u)
  <2>1. PICK u \in Txs : Review(u)
    BY <1>5
  <2>2. \A to \in {"ToDispatch", "Finalized", "Confirmed", "InMempool"} :
            Known(u) /\ CanTransitionTo(state[u], to)
    BY <2>1 DEF Review, PassInv, SnapshotFresh, Known, CanTransitionTo, Transitions
  <2>3. UNCHANGED news \/ AddNews("TransactionStuckInMempool", u)
    BY <2>1, <2>2 DEF Review, ReviewInMempool, ReviewNotFound, ReviewFinalized,
              ReviewConfirmed, ReviewOrphan, MarkReorg, RequeueNotFound, SettleTx,
              UpdateTxState, RefuseTransition
  <2>4. QED
    BY <1>1, <1>2, <2>3 DEF RefusalKinds
<1>6. CASE \E u \in Txs : HandleStep(u)
  <2>1. PICK u \in Txs : HandleStep(u)
    BY <1>6
  <2>2. outcome[u] \notin {"none", "publish"} =>
            \A to \in {"ToDispatch", "Failed"} : Known(u) /\ CanTransitionTo(state[u], to)
    BY DEF PassInv, SnapshotFresh, Known, CanTransitionTo, Transitions
  <2>3. UNCHANGED news \/ AddNews("DispatchError", u)
    BY <2>1, <2>2 DEF HandleStep, HandleSuccess, HandleFatal, Fail, PublishFailure,
              ProbeConfirmations, ProbeInputs, Handling, MarkAccepted, MarkAlreadyConfirmed,
              MarkAsRetry, SettleTx, RefuseTransition
  <2>4. QED
    BY <1>1, <1>2, <2>3 DEF RefusalKinds
<1>7. QED
  <2>1. (\E u \in Txs, delay \in Delays : Register(u, delay)) => UNCHANGED news
    BY DEF Register
  <2>2. (\E u \in Txs : DispatchStep(u)) => UNCHANGED news
    BY DEF DispatchStep, DispatchParentFailed, DispatchDeferred, DispatchSend, Dispatched
  <2>3. TickNotReady \/ BeginDispatch \/ BeginHandle \/ EndTick => UNCHANGED news
    BY DEF TickNotReady, BeginDispatch, BeginHandle, EndTick
  <2>4. FaultStep \/ RetryIntervalElapses \/ Network \/ UNCHANGED vars => UNCHANGED news
    BY DEF FaultStep, TickError, Crash, RetryIntervalElapses, Network, vars
  <2>5. QED
    BY <1>2, <1>3, <1>4, <1>5, <1>6, <2>1, <2>2, <2>3, <2>4 DEF Next, ClientStep, TickStep

\* The store never refuses a transition the engine asks for.
THEOREM TransitionsAllowed == Spec => []NoRefusedTransition
<1>1. Init => NoRefusedTransition
  BY DEF Init, NoRefusedTransition
<1>2. IndInv /\ NoRefusedTransition /\ [Next]_vars => NoRefusedTransition'
  <2> SUFFICES ASSUME IndInv, NoRefusedTransition, [Next]_vars PROVE NoRefusedTransition'
    OBVIOUS
  <2>1. \A t \in Txs, k \in RefusalKinds : <<k, t>> \in news' => <<k, t>> \in news
    BY NewsSteps DEF IndInv, TypeOK, RecordType
  <2>2. QED
    BY <2>1 DEF NoRefusedTransition, RefusalKinds
<1>3. QED
  BY <1>1, <1>2, Invariance, PTL DEF Spec

\* A record becomes Failed only by a verdict of the classification, and for a
\* transaction the node does not hold the verdict is drawn from its inputs.
LEMMA FailureStep ==
    ASSUME RecordType, PassInv, [Next]_vars, NEW t \in Txs,
           state[t] # "Failed", state'[t] = "Failed"
    PROVE  \E from \in {"Fatal", "ParentFailed", "absent"} :
               /\ Fail(t, from)
               /\ from = "absent" => IF InputMissing(t) THEN ~WithinGuard(t) ELSE BudgetSpent(t)
<1>1. CASE \E u \in Txs : HandleStep(u)
  <2>1. PICK u \in Txs : HandleStep(u)
    BY <1>1
  <2>2. CASE HandleFatal(u)
    <3>1. t = u
      BY <2>2 DEF HandleFatal, Fail, SettleTx, RefuseTransition, recordVars, RecordType
    <3>2. QED
      BY <2>2, <3>1 DEF HandleFatal
  <2>3. CASE ProbeInputs(u)
    <3>1. ~MarkAsRetry(u)
      BY DEF MarkAsRetry, RefuseTransition, recordVars, RecordType
    <3>2. /\ Fail(u, "absent")
          /\ IF InputMissing(u) THEN ~WithinGuard(u) ELSE BudgetSpent(u)
      BY <2>3, <3>1 DEF ProbeInputs
    <3>3. t = u
      BY <3>2 DEF Fail, SettleTx, RefuseTransition, recordVars, RecordType
    <3>4. QED
      BY <3>2, <3>3
  <2>4. ~HandleSuccess(u) /\ ~PublishFailure(u) /\ ~ProbeConfirmations(u)
    BY DEF HandleSuccess, PublishFailure, ProbeConfirmations, MarkAccepted,
           MarkAlreadyConfirmed, recordVars, RecordType
  <2>5. QED
    BY <2>1, <2>2, <2>3, <2>4 DEF HandleStep
<1>2. ASSUME NEW u \in Txs PROVE ~Review(u)
  BY DEF Review, ReviewInMempool, ReviewNotFound, ReviewFinalized, ReviewConfirmed,
         ReviewOrphan, MarkReorg, RequeueNotFound, SettleTx, UpdateTxState,
         RefuseTransition, recordVars, RecordType
<1>3. ASSUME NEW u \in Txs, NEW delay \in Delays PROVE ~Register(u, delay)
  BY DEF Register, RecordType
<1>4. ASSUME NEW u \in Cancelled PROVE ~Cancel(u)
  BY DEF Cancel, RemoveTxs, recordVars, RecordType
<1>5. ~TickStart
  BY DEF TickStart, RemoveTxs, RecordType
<1>6. QED
  <2>1. (\E u \in Txs : DispatchStep(u)) => UNCHANGED state
    BY DEF DispatchStep, DispatchParentFailed, DispatchDeferred, DispatchSend, Dispatched,
           recordVars
  <2>2. TickNotReady \/ BeginDispatch \/ BeginHandle \/ EndTick => UNCHANGED state
    BY DEF TickNotReady, BeginDispatch, BeginHandle, EndTick, recordVars
  <2>3. FaultStep \/ RetryIntervalElapses \/ Network \/ UNCHANGED vars => UNCHANGED state
    BY DEF FaultStep, TickError, Crash, RetryIntervalElapses, Network, vars, recordVars
  <2>4. QED
    BY <1>1, <1>2, <1>3, <1>4, <1>5, <2>1, <2>2, <2>3 DEF Next, ClientStep, TickStep

\* A note that news is due is given up by publishing it, or by a crash.
LEMMA NoteIsHonoured ==
    ASSUME RecordType, PassInv, TickType, [Next]_vars, NEW t \in Txs, outcome[t] = "publish"
    PROVE  outcome'[t] = "publish" \/ <<"DispatchError", t>> \in news' \/ crashes' # 0
<1>0. pc \notin {"idle", "review"} /\ t \notin todo
  BY DEF PassInv, NoOutcome
<1>1. CASE \E u \in Txs : HandleStep(u)
  <2>1. PICK u \in Txs : HandleStep(u)
    BY <1>1
  <2>2. CASE PublishFailure(u)
    BY <2>2 DEF PublishFailure, Handling, AddNews, RecordType
  <2>3. CASE \E from \in Outcomes \ {"publish"}, to \in Outcomes : Handling(u, from, to)
    BY <2>3 DEF Handling, RecordType
  <2>4. QED
    BY <2>1, <2>2, <2>3 DEF HandleStep, HandleSuccess, HandleFatal, Fail, ProbeConfirmations,
              ProbeInputs, Outcomes
<1>2. CASE \E u \in Txs : DispatchStep(u)
  <2>1. PICK u \in Txs, o \in Outcomes : Dispatched(u, o)
    BY <1>2 DEF DispatchStep, DispatchParentFailed, DispatchDeferred, DispatchSend, Outcomes
  <2>2. QED
    BY <1>0, <2>1 DEF Dispatched, RecordType
<1>3. CASE UNCHANGED outcome
  BY <1>3
<1>4. CASE FaultStep
  <2>1. ~TickError
    BY DEF TickError
  <2>2. crashes' = crashes + 1 /\ crashes \in Nat
    BY <1>4, <2>1, EngineAssumption DEF FaultStep, Crash, TickType
  <2>3. QED
    BY <2>2
<1>5. QED
  <2>1. ClientStep \/ TickNotReady \/ BeginHandle \/ EndTick \/ RetryIntervalElapses \/ Network
          \/ UNCHANGED vars => UNCHANGED outcome
    BY DEF ClientStep, Register, Cancel, TickNotReady, BeginHandle, EndTick,
           RetryIntervalElapses, Network, vars, tickVars
  <2>2. ~TickStart /\ ~BeginDispatch /\ \A u \in Txs : ~Review(u)
    BY <1>0 DEF TickStart, BeginDispatch, Review
  <2>3. QED
    BY <1>1, <1>2, <1>3, <1>4, <2>1, <2>2 DEF Next, TickStep

\* As long as the process has not crashed, every failure has been reported or
\* is about to be in the tick under way.
THEOREM FailuresReported == Spec => [](crashes = 0 => NoSilentFailure)
<1> DEFINE Reported == crashes = 0 => NoSilentFailure
<1>1. Init => Reported
  BY DEF Init, NoSilentFailure
<1>2. IndInv /\ Reported /\ [Next]_vars => Reported'
  <2> SUFFICES ASSUME IndInv, Reported, [Next]_vars, crashes' = 0,
                      NEW t \in Txs, state'[t] = "Failed"
               PROVE  <<"DispatchError", t>> \in news' \/ outcome'[t] = "publish"
    BY DEF NoSilentFailure
  <2>1. RecordType /\ PassInv /\ NodeTypeOK /\ TickType
    BY DEF IndInv, TypeOK, RecordType, TickType
  <2>2. crashes = 0
    <3>1. crashes' = crashes \/ crashes' = crashes + 1
      BY DEF Next, ClientStep, Register, Cancel, TickStep, TickNotReady, TickStart,
             BeginDispatch, BeginHandle, EndTick, Review, DispatchStep,
             DispatchParentFailed, DispatchDeferred, DispatchSend, Dispatched, HandleStep,
             HandleSuccess, HandleFatal, Fail, PublishFailure, ProbeConfirmations,
             ProbeInputs, Handling, FaultStep, TickError, Crash, RetryIntervalElapses,
             Network, vars, faultVars
    <3>2. QED
      BY <2>1, <3>1, EngineAssumption DEF TickType
  <2>3. CASE state[t] # "Failed"
    BY <2>1, <2>3, FailureStep DEF Fail, Handling, RecordType
  <2>4. CASE state[t] = "Failed"
    BY <2>1, <2>2, <2>4, NewsSteps, NoteIsHonoured DEF NoSilentFailure
  <2>5. QED
    BY <2>3, <2>4
<1>3. QED
  BY <1>1, <1>2, Invariance, PTL DEF Spec

-----------------------------------------------------------------------------
(* The reorg-flap guard keeps its promise.  The height at which a           *)
(* transaction was first missed is taken from the monitor's index, which    *)
(* may roll back: a guard armed again later must not end before the window  *)
(* counted from that first height.  It does not, because records are        *)
(* requeued only in ticks that found the index at the node's tip, and the   *)
(* tip's height never falls.                                                *)

\* While a tick works, the index is not ahead of the node, nor behind any height
\* at which a transaction was missed.
HeightsOrdered ==
    /\ \A t \in Txs : lostSince[t] \in 0..height
    /\ pc # "idle" => /\ vheight <= height
                      /\ \A t \in Txs : lostSince[t] <= vheight

\* A missing transaction in the queue has a guard that covers its window.
WindowCovered ==
    \A t \in Txs :
        /\ state[t] = "Unregistered" => lostSince[t] = 0
        /\ state[t] = "ToDispatch" /\ lostSince[t] # 0 => guard[t] >= lostSince[t] + MaxConfs

HistoryInv == HeightsOrdered /\ WindowCovered

\* The observer takes only steps of the engine.
LEMMA HistoryObserves == HSpec => Spec
<1>1. HInit => Init
  BY DEF HInit
<1>2. [HNext]_hvars => [Next]_vars
  BY DEF HNext, hvars
<1>3. QED
  BY <1>1, <1>2, PTL DEF HSpec, Spec

\* The node's tip never falls, and the index moves between ticks and at their
\* start only, where it has reached the tip.
LEMMA HeightSteps ==
    ASSUME NodeTypeOK, [Next]_vars
    PROVE  /\ height' >= height
           /\ pc' # "idle" => \/ pc # "idle" /\ vheight' = vheight
                              \/ vheight' = height /\ height' = height
<1>1. height' >= height
  BY StepsOfNode, TipNeverFalls
<1>2. ASSUME pc' # "idle"
      PROVE  \/ pc # "idle" /\ vheight' = vheight
             \/ vheight' = height /\ height' = height
  <2>1. ~ClientStep /\ ~TickNotReady /\ ~EndTick /\ ~FaultStep
    BY <1>2 DEF ClientStep, Register, Cancel, TickNotReady, EndTick, FaultStep, TickError,
                Crash, AbandonTick, tickVars
  <2>2. TickStart => vheight' = height /\ height' = height
    BY DEF TickStart, MonitorTick, nodeVars
  <2>3. BeginDispatch \/ BeginHandle => pc # "idle" /\ vheight' = vheight
    BY DEF BeginDispatch, BeginHandle, viewVars
  <2>4. ASSUME NEW u \in Txs
        PROVE  Review(u) \/ DispatchStep(u) \/ HandleStep(u) => pc # "idle" /\ vheight' = vheight
    BY DEF Review, DispatchStep, DispatchParentFailed, DispatchDeferred, DispatchSend,
           Dispatched, Accept, HandleStep, HandleSuccess, HandleFatal, Fail, PublishFailure,
           ProbeConfirmations, ProbeInputs, Handling, viewVars
  <2>5. RetryIntervalElapses \/ UNCHANGED vars => pc' = pc /\ vheight' = vheight
    BY DEF RetryIntervalElapses, vars, tickVars, viewVars
  <2>6. Network => pc' = pc /\ vheight' = vheight
    BY DEF Network, NetworkStep, Mine, Reorg, Evict, ForeignBroadcast, tickVars, viewVars
  <2>7. QED
    BY <1>2, <2>1, <2>2, <2>3, <2>4, <2>5, <2>6 DEF Next, TickStep
<1>3. QED
  BY <1>1, <1>2

\* What a step may do to the height at which t was first missed.
LEMMA LostSinceSteps ==
    ASSUME [HNext]_hvars, NEW t \in Txs
    PROVE  \/ lostSince'[t] = lostSince[t] /\ (state'[t] # "Unregistered" \/ state'[t] = state[t])
           \/ lostSince'[t] = 0
           \/ lostSince'[t] = vheight /\ lostSince[t] = 0 /\ Lost(t)
<1>1. CASE HNext
  BY <1>1 DEF HNext, Observe
<1>2. CASE UNCHANGED hvars
  BY <1>2 DEF hvars, vars, recordVars, historyVars
<1>3. QED
  BY <1>1, <1>2

\* A live record is queued again by the review pass only.
LEMMA RequeueIsReview ==
    ASSUME RecordType, PassInv, [Next]_vars, NEW t \in Txs, Lost(t)
    PROVE  \E u \in Txs : Review(u)
<1>2. ASSUME NEW u \in Txs PROVE ~HandleStep(u)
  <2>1. outcome[u] \notin {"none", "publish"} => state[u] = "ToDispatch"
    BY DEF PassInv, SnapshotFresh
  <2>2. QED
    BY <2>1 DEF HandleStep, HandleSuccess, HandleFatal, Fail, PublishFailure,
          ProbeConfirmations, ProbeInputs, Handling, MarkAccepted, MarkAlreadyConfirmed,
          MarkAsRetry, SettleTx, RefuseTransition, recordVars, RecordType, Lost
<1>3. ASSUME NEW u \in Txs, NEW delay \in Delays PROVE ~Register(u, delay)
  BY DEF Register, Known, RecordType, Lost
<1>4. ASSUME NEW u \in Cancelled PROVE ~Cancel(u)
  BY DEF Cancel, RemoveTxs, recordVars, RecordType, Lost
<1>5. ~TickStart
  BY DEF TickStart, RemoveTxs, RecordType, Lost
<1>6. QED
  <2>1. ~UNCHANGED state
    BY DEF Lost
  <2>2. \A u \in Txs : ~DispatchStep(u)
    BY <2>1 DEF DispatchStep, DispatchParentFailed, DispatchDeferred, DispatchSend, Dispatched,
           recordVars
  <2>3. ~TickNotReady /\ ~BeginDispatch /\ ~BeginHandle /\ ~EndTick
    BY <2>1 DEF TickNotReady, BeginDispatch, BeginHandle, EndTick, recordVars
  <2>4. ~FaultStep /\ ~RetryIntervalElapses /\ ~Network /\ ~UNCHANGED vars
    BY <2>1 DEF FaultStep, TickError, Crash, RetryIntervalElapses, Network, vars, recordVars
  <2>5. QED
    BY <1>2, <1>3, <1>4, <1>5, <2>2, <2>3, <2>4 DEF Next, ClientStep, TickStep

\* Every step keeps the heights in order.
LEMMA HeightsStep ==
    ASSUME IndInv, IndInv', HeightsOrdered, [HNext]_hvars
    PROVE  HeightsOrdered'
<1>1. [Next]_vars
  BY DEF HNext, hvars
<1>2. /\ height \in Nat /\ vheight \in Nat /\ height' \in Nat /\ vheight' \in Nat
      /\ NodeTypeOK /\ PassInv /\ RecordType
  BY NodeAssumption DEF IndInv, TypeOK, NodeTypeOK, Heights, RecordType
<1>3. /\ height' >= height
      /\ pc' # "idle" => \/ pc # "idle" /\ vheight' = vheight
                         \/ vheight' = height /\ height' = height
  BY <1>1, <1>2, HeightSteps
<1>4. ASSUME NEW t \in Txs, Lost(t)
      PROVE  pc # "idle" /\ pc' # "idle" /\ vheight' = vheight
  <2>1. \E u \in Txs : Review(u)
    BY <1>1, <1>2, <1>4, RequeueIsReview
  <2>2. QED
    BY <2>1 DEF Review, viewVars
<1>5. ASSUME NEW t \in Txs
      PROVE  lostSince'[t] \in 0..height' /\ (pc' # "idle" => lostSince'[t] <= vheight')
  <2>1. CASE lostSince'[t] = lostSince[t] \/ lostSince'[t] = 0
    BY <1>2, <1>3, <2>1 DEF HeightsOrdered
  <2>2. CASE lostSince'[t] = vheight /\ Lost(t)
    BY <1>2, <1>3, <1>4, <2>2 DEF HeightsOrdered
  <2>3. QED
    BY <2>1, <2>2, LostSinceSteps
<1>6. QED
  BY <1>2, <1>3, <1>5 DEF HeightsOrdered

\* Every step keeps the guard of a missing transaction ahead of its window: the
\* guard is armed with the first not_found, and one armed again after the record
\* was live meanwhile ends later, never earlier.
LEMMA WindowStep ==
    ASSUME IndInv, HeightsOrdered, WindowCovered, [HNext]_hvars
    PROVE  WindowCovered'
<1> SUFFICES ASSUME NEW t \in Txs
             PROVE  /\ state'[t] = "Unregistered" => lostSince'[t] = 0
                    /\ state'[t] = "ToDispatch" /\ lostSince'[t] # 0
                         => guard'[t] >= lostSince'[t] + MaxConfs
  BY DEF WindowCovered
<1>1. [Next]_vars
  BY DEF HNext, hvars
<1>2. NodeTypeOK /\ PassInv /\ RecordType
  BY DEF IndInv, TypeOK, RecordType
<1>3. RecordStep(t)
  BY <1>1, <1>2, RecordSteps
<1>4. \/ lostSince'[t] = lostSince[t] /\ (state'[t] # "Unregistered" \/ state'[t] = state[t])
      \/ lostSince'[t] = 0
      \/ lostSince'[t] = vheight /\ lostSince[t] = 0 /\ Lost(t)
  BY LostSinceSteps
<1>5. state'[t] = "Unregistered" => lostSince'[t] = 0
  BY <1>4 DEF WindowCovered, Lost
<1>6. ASSUME state'[t] = "ToDispatch", lostSince'[t] # 0
      PROVE  guard'[t] >= lostSince'[t] + MaxConfs
  <2>1. CASE Lost(t)
    <3>1. guard[t] = 0
      BY <2>1 DEF IndInv, GuardOnlyWhileQueued, Lost
    <3>2. guard'[t] = vheight + MaxConfs
      BY <1>3, <2>1, <3>1 DEF Lost, RecordStep, Same, Enrolled, Removed, Requeued, Reviewed,
                              Accepted, Finalizes, Fails, Live
    <3>3. \E u \in Txs : Review(u)
      BY <1>1, <1>2, <2>1, RequeueIsReview
    <3>4. lostSince[t] <= vheight /\ lostSince[t] \in Int
      BY <3>3 DEF Review, HeightsOrdered
    <3>5. lostSince'[t] \in Int /\ lostSince'[t] <= vheight
      BY <1>2, <1>4, <1>6, <3>4, NodeAssumption DEF NodeTypeOK, Heights
    <3>6. QED
      BY <1>2, <3>2, <3>5, NodeAssumption DEF NodeTypeOK, Heights
  <2>2. CASE ~Lost(t)
    <3>1. lostSince'[t] = lostSince[t]
      BY <1>4, <1>6, <2>2
    <3>2. state[t] = "ToDispatch" /\ guard'[t] = guard[t]
      BY <1>3, <1>6, <2>2, <3>1
         DEF WindowCovered, Lost, RecordStep, Same, Enrolled, Removed, Requeued, Reviewed,
             Accepted, Finalizes, Fails, Live
    <3>3. QED
      BY <1>6, <3>1, <3>2 DEF WindowCovered
  <2>3. QED
    BY <2>1, <2>2
<1>7. QED
  BY <1>5, <1>6

\* The history invariant holds in every reachable state.
LEMMA HistoryInvariance == HSpec => [](IndInv /\ HistoryInv)
<1>1. HInit => HistoryInv
  BY NodeAssumption DEF HInit, Init, NodeInit, HistoryInv, HeightsOrdered, WindowCovered
<1>2. IndInv /\ IndInv' /\ HistoryInv /\ [HNext]_hvars => HistoryInv'
  BY HeightsStep, WindowStep DEF HistoryInv
<1>3. HSpec => []IndInv
  BY HistoryObserves, Invariance, PTL
<1>4. QED
  BY <1>1, <1>2, <1>3, PTL DEF HSpec

\* A transaction that vanished is not settled Failed on a consumed input before
\* max_monitoring_confirmations blocks have passed since it was first missed.
THEOREM FlapGuardHolds == HSpec => GuardWindowRespected
<1>1. ASSUME IndInv, HistoryInv, [HNext]_hvars, NEW t \in Txs,
             Settles(t), Judged(t), InputMissing(t), lostSince[t] # 0
      PROVE  vheight >= lostSince[t] + MaxConfs
  <2>1. [Next]_vars
    BY <1>1 DEF HNext, hvars
  <2>2. NodeTypeOK /\ PassInv /\ RecordType
    BY <1>1 DEF IndInv, TypeOK, RecordType
  <2>3. PICK from \in {"Fatal", "ParentFailed", "absent"} :
            /\ Fail(t, from)
            /\ from = "absent" => IF InputMissing(t) THEN ~WithinGuard(t) ELSE BudgetSpent(t)
    BY <1>1, <2>1, <2>2, FailureStep DEF Settles
  <2>4. ~WithinGuard(t) /\ state[t] = "ToDispatch"
    BY <1>1, <2>2, <2>3 DEF Fail, Handling, Judged, PassInv, SnapshotFresh
  <2>5. lostSince[t] \in Int /\ lostSince[t] >= 0 /\ guard[t] >= lostSince[t] + MaxConfs
    BY <1>1, <2>4 DEF HistoryInv, HeightsOrdered, WindowCovered
  <2>6. QED
    BY <1>1, <2>2, <2>4, <2>5, NodeAssumption DEF WithinGuard, RecordType, NodeTypeOK, Heights
<1>2. IndInv /\ HistoryInv /\ [HNext]_hvars =>
        [\A t \in Txs : Settles(t) /\ Judged(t) /\ InputMissing(t) /\ lostSince[t] # 0
                          => vheight >= lostSince[t] + MaxConfs]_hvars
  BY <1>1
<1>3. QED
  BY <1>2, HistoryInvariance, PTL DEF HSpec, GuardWindowRespected
=============================================================================
