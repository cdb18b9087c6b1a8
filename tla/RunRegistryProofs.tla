------------------------- MODULE RunRegistryProofs --------------------------
(***************************************************************************)
(* Proofs about RunRegistry, for any number of runs, issues and slots, any *)
(* time limit and any grace that covers the kill's latency.                *)
(***************************************************************************)
EXTENDS RunRegistry, TLAPS

-----------------------------------------------------------------------------
(* The inductive invariant, part by part. *)

\* A busy slot holds its own message and is within its time limit.
Holding ==
  \A w \in Workers : Busy(w) =>
    /\ job[w] \in Runs
    /\ msg[job[w]] = "held"
    /\ began[w] <= now
    /\ now <= began[w] + MaxWallclock + KillLatency

\* A message is held by one slot.
OneHolder ==
  \A v, w \in Workers : Busy(v) /\ Busy(w) /\ job[v] = job[w] => v = w

\* The row of a run at work is running, and younger than the delivery.
WorkHasRow ==
  \A w \in Workers : pc[w] = "work" =>
    /\ status[job[w]] = "running"
    /\ began[w] <= startedAt[job[w]]

\* What a reaper has selected is about its issue, expired, and nobody's.
FoundIsDead ==
  \A w \in Workers : \A r \in found[w] :
    /\ Busy(w)
    /\ IssueOf[r] = IssueOf[job[w]]
    /\ status[r] \in {"running", "stale"}
    /\ Expired(r)

\* The partial unique index.
OneActiveRow ==
  \A q, r \in Runs :
    status[q] = "running" /\ status[r] = "running" /\ IssueOf[q] = IssueOf[r]
      => q = r

IInv ==
  /\ TypeOK
  /\ Holding
  /\ OneHolder
  /\ WorkHasRow
  /\ FoundIsDead
  /\ OneActiveRow
-----------------------------------------------------------------------------
(* One lemma per action: it preserves the invariant. *)

\* A new message touches no slot and no row.
LEMMA EnqueueKeeps ==
  ASSUME IInv, NEW r \in Runs, Enqueue(r)
  PROVE  IInv'
<1>1. TypeOK'
  BY DEF IInv, TypeOK, Enqueue, slotVars, tableVars, MsgStates, Stages,
         Terminal
<1>2. Holding'
  BY DEF IInv, TypeOK, Holding, Busy, Enqueue, slotVars, tableVars
<1>3. OneHolder'
  BY DEF IInv, TypeOK, Holding, OneHolder, Busy, Enqueue, slotVars, tableVars
<1>4. WorkHasRow'
  BY DEF IInv, TypeOK, Holding, WorkHasRow, Busy, Enqueue, slotVars, tableVars
<1>5. FoundIsDead'
  BY DEF IInv, TypeOK, Holding, FoundIsDead, Busy, Expired, Enqueue, slotVars,
         tableVars
<1>6. OneActiveRow'
  BY DEF IInv, TypeOK, OneActiveRow, Enqueue, slotVars, tableVars
<1>. QED  BY <1>1, <1>2, <1>3, <1>4, <1>5, <1>6 DEF IInv

\* An orphaned message is nobody's.
LEMMA RedeliverKeeps ==
  ASSUME IInv, NEW r \in Runs, Redeliver(r)
  PROVE  IInv'
<1>1. TypeOK'
  BY DEF IInv, TypeOK, Redeliver, slotVars, tableVars, MsgStates, Stages,
         Terminal
<1>2. Holding'
  BY DEF IInv, TypeOK, Holding, Busy, Redeliver, slotVars, tableVars
<1>3. OneHolder'
  BY DEF IInv, TypeOK, Holding, OneHolder, Busy, Redeliver, slotVars,
         tableVars
<1>4. WorkHasRow'
  BY DEF IInv, TypeOK, Holding, WorkHasRow, Busy, Redeliver, slotVars,
         tableVars
<1>5. FoundIsDead'
  BY DEF IInv, TypeOK, Holding, FoundIsDead, Busy, Expired, Redeliver,
         slotVars, tableVars
<1>6. OneActiveRow'
  BY DEF IInv, TypeOK, OneActiveRow, Redeliver, slotVars, tableVars
<1>. QED  BY <1>1, <1>2, <1>3, <1>4, <1>5, <1>6 DEF IInv

\* A queued message is not held, so its new holder is the only one.
LEMMA DeliverKeeps ==
  ASSUME IInv, NEW w \in Workers, NEW r \in Runs, Deliver(w, r)
  PROVE  IInv'
<1>1. TypeOK'
  BY DEF IInv, TypeOK, Deliver, tableVars, MsgStates, Stages, Terminal
<1>2. Holding'
  BY RegistryAssumption DEF IInv, TypeOK, Holding, Busy, Deliver, tableVars
<1>3. OneHolder'
  BY DEF IInv, TypeOK, Holding, OneHolder, Busy, Deliver, tableVars
<1>4. WorkHasRow'
  BY DEF IInv, TypeOK, Holding, WorkHasRow, Busy, Deliver, tableVars
<1>5. FoundIsDead'
  BY DEF IInv, TypeOK, Holding, FoundIsDead, Busy, Expired, Deliver, tableVars
<1>6. OneActiveRow'
  BY DEF IInv, TypeOK, OneActiveRow, Deliver, tableVars
<1>. QED  BY <1>1, <1>2, <1>3, <1>4, <1>5, <1>6 DEF IInv

\* A slot that lets go of its message leaves the table as it is.
LEMMA LetGoKeeps ==
  ASSUME IInv, NEW w \in Workers, Busy(w),
         NEW fate \in {"acked", "orphaned"}, LetGo(w, fate)
  PROVE  IInv'
<1>1. TypeOK'
  BY DEF IInv, TypeOK, LetGo, tableVars, MsgStates, Stages, Terminal
<1>2. Holding'
  BY RegistryAssumption
  DEF IInv, TypeOK, Holding, OneHolder, WorkHasRow, FoundIsDead, OneActiveRow,
      Busy, Expired, LetGo, tableVars
<1>3. OneHolder'
  BY DEF IInv, TypeOK, Holding, OneHolder, Busy, LetGo, tableVars
<1>4. WorkHasRow'
  BY DEF IInv, TypeOK, Holding, WorkHasRow, Busy, LetGo, tableVars
<1>5. FoundIsDead'
  BY DEF IInv, TypeOK, Holding, FoundIsDead, Busy, Expired, LetGo, tableVars
<1>6. OneActiveRow'
  BY DEF IInv, TypeOK, OneActiveRow, LetGo, tableVars
<1>. QED  BY <1>1, <1>2, <1>3, <1>4, <1>5, <1>6 DEF IInv

\* Only expired running rows are selected.
LEMMA ReapSelectKeeps ==
  ASSUME IInv, NEW w \in Workers, ReapSelect(w)
  PROVE  IInv'
<1>1. TypeOK'
  BY DEF IInv, TypeOK, ReapSelect, Goto, ActiveRows, queueVars, tableVars,
         MsgStates, Stages, Terminal
<1>2. Holding'
  BY DEF IInv, TypeOK, Holding, Busy, ReapSelect, Goto, ActiveRows, queueVars,
         tableVars
<1>3. OneHolder'
  BY DEF IInv, TypeOK, Holding, OneHolder, Busy, ReapSelect, Goto, ActiveRows,
         queueVars, tableVars
<1>4. WorkHasRow'
  BY DEF IInv, TypeOK, Holding, WorkHasRow, Busy, ReapSelect, Goto,
         ActiveRows, queueVars, tableVars
<1>5. FoundIsDead'
  BY DEF IInv, TypeOK, Holding, FoundIsDead, Busy, Expired, ReapSelect, Goto,
         ActiveRows, queueVars, tableVars
<1>6. OneActiveRow'
  BY DEF IInv, TypeOK, OneActiveRow, ReapSelect, Goto, ActiveRows, queueVars,
         tableVars
<1>. QED  BY <1>1, <1>2, <1>3, <1>4, <1>5, <1>6 DEF IInv

\* An expired row has no slot at work: its time limit is over.
LEMMA ReapCommitKeeps ==
  ASSUME IInv, NEW w \in Workers, ReapCommit(w)
  PROVE  IInv'
<1>1. TypeOK'
  BY DEF IInv, TypeOK, ReapCommit, Goto, queueVars, MsgStates, Stages,
         Terminal
<1>2. Holding'
  BY DEF IInv, TypeOK, Holding, Busy, ReapCommit, Goto, queueVars
<1>3. OneHolder'
  BY DEF IInv, TypeOK, Holding, OneHolder, Busy, ReapCommit, Goto, queueVars
<1>4. WorkHasRow'
  BY RegistryAssumption
  DEF IInv, TypeOK, Holding, OneHolder, WorkHasRow, FoundIsDead, OneActiveRow,
      Busy, Expired, ReapCommit, Goto, queueVars
<1>5. FoundIsDead'
  BY DEF IInv, TypeOK, Holding, FoundIsDead, Busy, Expired, ReapCommit, Goto,
         queueVars
<1>6. OneActiveRow'
  BY DEF IInv, TypeOK, OneActiveRow, ReapCommit, Goto, queueVars
<1>. QED  BY <1>1, <1>2, <1>3, <1>4, <1>5, <1>6 DEF IInv

\* Rolling back forgets the selection.
LEMMA ReapFailsKeeps ==
  ASSUME IInv, NEW w \in Workers, ReapFails(w)
  PROVE  IInv'
<1>1. TypeOK'
  BY DEF IInv, TypeOK, ReapFails, Goto, queueVars, tableVars, MsgStates,
         Stages, Terminal
<1>2. Holding'
  BY DEF IInv, TypeOK, Holding, Busy, ReapFails, Goto, queueVars, tableVars
<1>3. OneHolder'
  BY DEF IInv, TypeOK, Holding, OneHolder, Busy, ReapFails, Goto, queueVars,
         tableVars
<1>4. WorkHasRow'
  BY DEF IInv, TypeOK, Holding, WorkHasRow, Busy, ReapFails, Goto, queueVars,
         tableVars
<1>5. FoundIsDead'
  BY DEF IInv, TypeOK, Holding, FoundIsDead, Busy, Expired, ReapFails, Goto,
         queueVars, tableVars
<1>6. OneActiveRow'
  BY DEF IInv, TypeOK, OneActiveRow, ReapFails, Goto, queueVars, tableVars
<1>. QED  BY <1>1, <1>2, <1>3, <1>4, <1>5, <1>6 DEF IInv

\* Reading changes nothing.
LEMMA CheckActiveKeeps ==
  ASSUME IInv, NEW w \in Workers, CheckActive(w)
  PROVE  IInv'
<1>1. TypeOK'
  BY DEF IInv, TypeOK, CheckActive, Goto, ActiveRows, queueVars, tableVars,
         MsgStates, Stages, Terminal
<1>2. Holding'
  BY DEF IInv, TypeOK, Holding, Busy, CheckActive, Goto, ActiveRows,
         queueVars, tableVars
<1>3. OneHolder'
  BY DEF IInv, TypeOK, Holding, OneHolder, Busy, CheckActive, Goto,
         ActiveRows, queueVars, tableVars
<1>4. WorkHasRow'
  BY DEF IInv, TypeOK, Holding, WorkHasRow, Busy, CheckActive, Goto,
         ActiveRows, queueVars, tableVars
<1>5. FoundIsDead'
  BY DEF IInv, TypeOK, Holding, FoundIsDead, Busy, Expired, CheckActive, Goto,
         ActiveRows, queueVars, tableVars
<1>6. OneActiveRow'
  BY DEF IInv, TypeOK, OneActiveRow, CheckActive, Goto, ActiveRows, queueVars,
         tableVars
<1>. QED  BY <1>1, <1>2, <1>3, <1>4, <1>5, <1>6 DEF IInv

\* The new row is the only running one, and as young as now.
LEMMA InsertRunKeeps ==
  ASSUME IInv, NEW w \in Workers, InsertRun(w)
  PROVE  IInv'
<1>1. TypeOK'
  BY DEF IInv, TypeOK, InsertRun, InsertRow, MayInsert, Goto, ActiveRows,
         queueVars, MsgStates, Stages, Terminal
<1>2. Holding'
  BY DEF IInv, TypeOK, Holding, Busy, InsertRun, InsertRow, MayInsert, Goto,
         ActiveRows, queueVars
<1>3. OneHolder'
  BY DEF IInv, TypeOK, Holding, OneHolder, Busy, InsertRun, InsertRow,
         MayInsert, Goto, ActiveRows, queueVars
<1>4. WorkHasRow'
  BY DEF IInv, TypeOK, Holding, WorkHasRow, Busy, InsertRun, InsertRow,
         MayInsert, Goto, ActiveRows, queueVars
<1>5. FoundIsDead'
  BY DEF IInv, TypeOK, Holding, FoundIsDead, Busy, Expired, InsertRun,
         InsertRow, MayInsert, Goto, ActiveRows, queueVars
<1>6. OneActiveRow'
  BY DEF IInv, TypeOK, OneActiveRow, InsertRun, InsertRow, MayInsert, Goto,
         ActiveRows, queueVars
<1>. QED  BY <1>1, <1>2, <1>3, <1>4, <1>5, <1>6 DEF IInv

\* A refused INSERT changes nothing.
LEMMA InsertConflictKeeps ==
  ASSUME IInv, NEW w \in Workers, InsertConflict(w)
  PROVE  IInv'
<1>1. TypeOK'
  BY DEF IInv, TypeOK, InsertConflict, Goto, queueVars, tableVars, MsgStates,
         Stages, Terminal
<1>2. Holding'
  BY DEF IInv, TypeOK, Holding, Busy, InsertConflict, Goto, queueVars,
         tableVars
<1>3. OneHolder'
  BY DEF IInv, TypeOK, Holding, OneHolder, Busy, InsertConflict, Goto,
         queueVars, tableVars
<1>4. WorkHasRow'
  BY DEF IInv, TypeOK, Holding, WorkHasRow, Busy, InsertConflict, Goto,
         queueVars, tableVars
<1>5. FoundIsDead'
  BY DEF IInv, TypeOK, Holding, FoundIsDead, Busy, Expired, InsertConflict,
         Goto, queueVars, tableVars
<1>6. OneActiveRow'
  BY DEF IInv, TypeOK, OneActiveRow, InsertConflict, Goto, queueVars,
         tableVars
<1>. QED  BY <1>1, <1>2, <1>3, <1>4, <1>5, <1>6 DEF IInv

\* A run without a row owes the table nothing.
LEMMA SetupFailsKeeps ==
  ASSUME IInv, NEW w \in Workers, SetupFails(w)
  PROVE  IInv'
<1>1. TypeOK'
  BY DEF IInv, TypeOK, SetupFails, Goto, queueVars, tableVars, MsgStates,
         Stages, Terminal
<1>2. Holding'
  BY DEF IInv, TypeOK, Holding, Busy, SetupFails, Goto, queueVars, tableVars
<1>3. OneHolder'
  BY DEF IInv, TypeOK, Holding, OneHolder, Busy, SetupFails, Goto, queueVars,
         tableVars
<1>4. WorkHasRow'
  BY DEF IInv, TypeOK, Holding, WorkHasRow, Busy, SetupFails, Goto, queueVars,
         tableVars
<1>5. FoundIsDead'
  BY DEF IInv, TypeOK, Holding, FoundIsDead, Busy, Expired, SetupFails, Goto,
         queueVars, tableVars
<1>6. OneActiveRow'
  BY DEF IInv, TypeOK, OneActiveRow, SetupFails, Goto, queueVars, tableVars
<1>. QED  BY <1>1, <1>2, <1>3, <1>4, <1>5, <1>6 DEF IInv

\* An ownerless row is still the only running one.
LEMMA InsertUnacknowledgedKeeps ==
  ASSUME IInv, NEW w \in Workers, InsertUnacknowledged(w)
  PROVE  IInv'
<1>1. TypeOK'
  BY DEF IInv, TypeOK, InsertUnacknowledged, InsertRow, MayInsert, Goto,
         ActiveRows, queueVars, MsgStates, Stages, Terminal
<1>2. Holding'
  BY DEF IInv, TypeOK, Holding, Busy, InsertUnacknowledged, InsertRow,
         MayInsert, Goto, ActiveRows, queueVars
<1>3. OneHolder'
  BY DEF IInv, TypeOK, Holding, OneHolder, Busy, InsertUnacknowledged,
         InsertRow, MayInsert, Goto, ActiveRows, queueVars
<1>4. WorkHasRow'
  BY DEF IInv, TypeOK, Holding, WorkHasRow, Busy, InsertUnacknowledged,
         InsertRow, MayInsert, Goto, ActiveRows, queueVars
<1>5. FoundIsDead'
  BY DEF IInv, TypeOK, Holding, FoundIsDead, Busy, Expired,
         InsertUnacknowledged, InsertRow, MayInsert, Goto, ActiveRows,
         queueVars
<1>6. OneActiveRow'
  BY DEF IInv, TypeOK, OneActiveRow, InsertUnacknowledged, InsertRow,
         MayInsert, Goto, ActiveRows, queueVars
<1>. QED  BY <1>1, <1>2, <1>3, <1>4, <1>5, <1>6 DEF IInv

\* The final update ends the slot's own row.
LEMMA FinishKeeps ==
  ASSUME IInv, NEW w \in Workers, Finish(w)
  PROVE  IInv'
<1>1. TypeOK'
  BY DEF IInv, TypeOK, Finish, Goto, queueVars, MsgStates, Stages, Terminal
<1>2. Holding'
  BY DEF IInv, TypeOK, Holding, Busy, Finish, Goto, queueVars
<1>3. OneHolder'
  BY DEF IInv, TypeOK, Holding, OneHolder, Busy, Finish, Goto, queueVars
<1>4. WorkHasRow'
  BY RegistryAssumption
  DEF IInv, TypeOK, Holding, OneHolder, WorkHasRow, FoundIsDead, OneActiveRow,
      Busy, Expired, Finish, Goto, queueVars
<1>5. FoundIsDead'
  BY RegistryAssumption
  DEF IInv, TypeOK, Holding, OneHolder, WorkHasRow, FoundIsDead, OneActiveRow,
      Busy, Expired, Finish, Goto, queueVars
<1>6. OneActiveRow'
  BY DEF IInv, TypeOK, OneActiveRow, Finish, Goto, queueVars
<1>. QED  BY <1>1, <1>2, <1>3, <1>4, <1>5, <1>6 DEF IInv

\* A row left running is still the only one.
LEMMA FinishFailsKeeps ==
  ASSUME IInv, NEW w \in Workers, FinishFails(w)
  PROVE  IInv'
<1>1. TypeOK'
  BY DEF IInv, TypeOK, FinishFails, Goto, queueVars, tableVars, MsgStates,
         Stages, Terminal
<1>2. Holding'
  BY DEF IInv, TypeOK, Holding, Busy, FinishFails, Goto, queueVars, tableVars
<1>3. OneHolder'
  BY DEF IInv, TypeOK, Holding, OneHolder, Busy, FinishFails, Goto, queueVars,
         tableVars
<1>4. WorkHasRow'
  BY DEF IInv, TypeOK, Holding, WorkHasRow, Busy, FinishFails, Goto,
         queueVars, tableVars
<1>5. FoundIsDead'
  BY DEF IInv, TypeOK, Holding, FoundIsDead, Busy, Expired, FinishFails, Goto,
         queueVars, tableVars
<1>6. OneActiveRow'
  BY DEF IInv, TypeOK, OneActiveRow, FinishFails, Goto, queueVars, tableVars
<1>. QED  BY <1>1, <1>2, <1>3, <1>4, <1>5, <1>6 DEF IInv

\* Nothing to update.
LEMMA FinishBlindKeeps ==
  ASSUME IInv, NEW w \in Workers, FinishBlind(w)
  PROVE  IInv'
<1>1. TypeOK'
  BY DEF IInv, TypeOK, FinishBlind, Goto, queueVars, tableVars, MsgStates,
         Stages, Terminal
<1>2. Holding'
  BY DEF IInv, TypeOK, Holding, Busy, FinishBlind, Goto, queueVars, tableVars
<1>3. OneHolder'
  BY DEF IInv, TypeOK, Holding, OneHolder, Busy, FinishBlind, Goto, queueVars,
         tableVars
<1>4. WorkHasRow'
  BY DEF IInv, TypeOK, Holding, WorkHasRow, Busy, FinishBlind, Goto,
         queueVars, tableVars
<1>5. FoundIsDead'
  BY DEF IInv, TypeOK, Holding, FoundIsDead, Busy, Expired, FinishBlind, Goto,
         queueVars, tableVars
<1>6. OneActiveRow'
  BY DEF IInv, TypeOK, OneActiveRow, FinishBlind, Goto, queueVars, tableVars
<1>. QED  BY <1>1, <1>2, <1>3, <1>4, <1>5, <1>6 DEF IInv

\* Time only makes rows older, and stops at every slot's deadline.
LEMMA TickKeeps ==
  ASSUME IInv, Tick
  PROVE  IInv'
<1>1. TypeOK'
  BY DEF IInv, TypeOK, Tick, queueVars, slotVars, tableVars, MsgStates,
         Stages, Terminal
<1>2. Holding'
  BY RegistryAssumption
  DEF IInv, TypeOK, Holding, Busy, Tick, queueVars, slotVars, tableVars
<1>3. OneHolder'
  BY DEF IInv, TypeOK, Holding, OneHolder, Busy, Tick, queueVars, slotVars,
         tableVars
<1>4. WorkHasRow'
  BY DEF IInv, TypeOK, Holding, WorkHasRow, Busy, Tick, queueVars, slotVars,
         tableVars
<1>5. FoundIsDead'
  BY RegistryAssumption
  DEF IInv, TypeOK, Holding, FoundIsDead, Busy, Expired, Tick, queueVars,
      slotVars, tableVars
<1>6. OneActiveRow'
  BY DEF IInv, TypeOK, OneActiveRow, Tick, queueVars, slotVars, tableVars
<1>. QED  BY <1>1, <1>2, <1>3, <1>4, <1>5, <1>6 DEF IInv

\* The invariant holds of a broker and a table with nothing in them.
LEMMA InitEstablishes == Init => IInv
BY RegistryAssumption
   DEF Init, IInv, TypeOK, MsgStates, Stages, Holding, OneHolder, WorkHasRow,
       FoundIsDead, OneActiveRow, Busy

\* A step that changes nothing keeps the invariant.
LEMMA StutterKeeps ==
  ASSUME IInv, UNCHANGED vars
  PROVE  IInv'
BY DEF IInv, TypeOK, Holding, OneHolder, WorkHasRow, FoundIsDead,
       OneActiveRow, Busy, Expired, vars, queueVars, slotVars, tableVars

\* Each step keeps the invariant: one lemma above for each action.
LEMMA NextKeeps == IInv /\ [Next]_vars => IInv'
<1>. SUFFICES ASSUME IInv, [Next]_vars  PROVE IInv'
  OBVIOUS
<1>1. CASE Broker
  BY <1>1, EnqueueKeeps, RedeliverKeeps DEF Broker
<1>2. CASE \E w \in Workers, r \in Runs : Deliver(w, r)
  BY <1>2, DeliverKeeps
<1>3. ASSUME NEW w \in Workers, Setup(w)  PROVE IInv'
  BY <1>3, ReapSelectKeeps, ReapCommitKeeps, ReapFailsKeeps, CheckActiveKeeps,
     InsertRunKeeps, InsertConflictKeeps, SetupFailsKeeps,
     InsertUnacknowledgedKeeps
  DEF Setup
<1>4. ASSUME NEW w \in Workers, Wrapup(w)  PROVE IInv'
  <2>1. CASE Ack(w)
    BY <2>1, LetGoKeeps DEF Ack, Busy
  <2>2. QED
    BY <1>4, <2>1, FinishKeeps, FinishFailsKeeps, FinishBlindKeeps DEF Wrapup
<1>5. ASSUME NEW w \in Workers, Dies(w)  PROVE IInv'
  BY <1>5, LetGoKeeps DEF Dies, HardKill, ChildLost, WorkerCrash
<1>6. CASE Tick
  BY <1>6, TickKeeps
<1>7. CASE UNCHANGED vars
  BY <1>7, StutterKeeps
<1>. QED
  BY <1>1, <1>2, <1>3, <1>4, <1>5, <1>6, <1>7 DEF Next

\* The parts above hold in every reachable state.
THEOREM Invariance == Spec => []IInv
BY InitEstablishes, NextKeeps, PTL DEF Spec

-----------------------------------------------------------------------------
(* What follows from the invariant. *)

\* Every variable of the registry keeps its type.
THEOREM TypeCorrectness == Spec => []TypeOK
<1>1. IInv => TypeOK
  BY DEF IInv
<1>. QED  BY <1>1, Invariance, PTL

\* Two slots never work on one issue with a row each: both rows would be
\* running, hence one row, hence one message, hence one slot.
THEOREM MutualExclusion == Spec => []OneWorkerPerIssue
<1>1. IInv => OneWorkerPerIssue
  <2>. SUFFICES ASSUME IInv, NEW v \in Workers, NEW w \in Workers,
                       pc[v] = "work", pc[w] = "work",
                       IssueOf[job[v]] = IssueOf[job[w]]
                PROVE  v = w
    BY DEF OneWorkerPerIssue
  <2>1. job[v] \in Runs /\ job[w] \in Runs
    BY DEF IInv, Holding, Busy
  <2>2. status[job[v]] = "running" /\ status[job[w]] = "running"
    BY DEF IInv, WorkHasRow
  <2>3. job[v] = job[w]
    BY <2>1, <2>2 DEF IInv, OneActiveRow
  <2>. QED  BY <2>3 DEF IInv, OneHolder, Busy
<1>. QED  BY <1>1, Invariance, PTL

\* The reaper and the final updates of others leave the row of a run at
\* work alone.
THEOREM LiveRows == Spec => []LiveRunKeepsItsRow
<1>1. IInv => LiveRunKeepsItsRow
  BY DEF IInv, WorkHasRow, LiveRunKeepsItsRow
<1>. QED  BY <1>1, Invariance, PTL

\* No step changes a row whose run has ended.  Only three actions write to
\* the table: an INSERT needs a row that is absent, the final update has a
\* running row, and a reaper rewrites stale rows as what they are.
THEOREM Finality == Spec => EndedRowsAreFinal
<1>1. IInv /\ [Next]_vars =>
        [\A r \in Runs : status[r] \in Terminal =>
            status'[r] = status[r] /\ startedAt'[r] = startedAt[r]]_vars
  <2>. SUFFICES ASSUME IInv, Next, NEW r \in Runs, status[r] \in Terminal
                PROVE  status'[r] = status[r] /\ startedAt'[r] = startedAt[r]
    OBVIOUS
  <2>1. CASE UNCHANGED tableVars
    BY <2>1 DEF tableVars
  <2>2. ASSUME NEW w \in Workers, InsertRun(w) \/ InsertUnacknowledged(w)
        PROVE  status'[r] = status[r] /\ startedAt'[r] = startedAt[r]
    BY <2>2 DEF IInv, TypeOK, Terminal, InsertRun, InsertUnacknowledged,
                InsertRow, MayInsert
  <2>3. ASSUME NEW w \in Workers, Finish(w)
        PROVE  status'[r] = status[r] /\ startedAt'[r] = startedAt[r]
    BY <2>3 DEF IInv, TypeOK, WorkHasRow, Terminal, Finish
  <2>4. ASSUME NEW w \in Workers, ReapCommit(w)
        PROVE  status'[r] = status[r] /\ startedAt'[r] = startedAt[r]
    BY <2>4 DEF IInv, TypeOK, FoundIsDead, Terminal, ReapCommit
  <2>. QED
    BY <2>1, <2>2, <2>3, <2>4
    DEF Next, Broker, Enqueue, Redeliver, Deliver, Setup, ReapSelect,
        ReapFails, CheckActive, InsertConflict, SetupFails, Wrapup,
        FinishFails, FinishBlind, Ack, Dies, HardKill, ChildLost,
        WorkerCrash, LetGo, Tick, tableVars
<1>. QED  BY <1>1, Invariance, PTL DEF Spec, EndedRowsAreFinal

-----------------------------------------------------------------------------
(* An abandoned row blocks its issue no longer than the cutoff says. *)

\* At the check and, but for the rows about to be reaped, before the commit.
BlockInv ==
  ~DbMayFail =>
    \A w \in Workers : \A r \in ActiveRows(job[w]) :
      \/ pc[w] = "check"
      \/ pc[w] = "reapCommit" /\ r \notin found[w]
      => began[w] <= startedAt[r] + MaxWallclock + Grace

\* Rows that appear during a delivery are younger than it; the reaper's
\* SELECT finds all the others that have expired.
LEMMA BlockStep == IInv /\ BlockInv /\ [Next]_vars => BlockInv'
<1>. SUFFICES ASSUME IInv, BlockInv, [Next]_vars, ~DbMayFail,
                     NEW w \in Workers, NEW r \in ActiveRows(job[w])',
                     \/ pc'[w] = "check"
                     \/ pc'[w] = "reapCommit" /\ r \notin found'[w]
              PROVE  began'[w] <= startedAt'[r] + MaxWallclock + Grace
  BY DEF BlockInv
<1>0. /\ r \in Runs /\ IssueOf[r] = IssueOf[job'[w]] /\ status'[r] = "running"
      /\ job[w] \in Runs \union {NoRun}
  BY DEF ActiveRows, IInv, TypeOK
<1>1. CASE ReapSelect(w)
  BY <1>0, <1>1, RegistryAssumption
  DEF ReapSelect, Goto, ActiveRows, Expired, IInv, TypeOK, Holding, Busy,
      tableVars
<1>2. CASE ReapCommit(w)
  BY <1>0, <1>2 DEF ReapCommit, Goto, BlockInv, ActiveRows, IInv, TypeOK
<1>3. ASSUME NEW v \in Workers, InsertRun(v) \/ InsertUnacknowledged(v)
      PROVE  began'[w] <= startedAt'[r] + MaxWallclock + Grace
  <2>1. CASE r = job[v]
    <3>1. v # w /\ pc[w] = pc'[w] /\ began'[w] = began[w]
      BY <1>3 DEF InsertRun, InsertUnacknowledged, Goto, IInv, TypeOK
    <3>2. startedAt'[r] = now /\ began[w] <= now
      BY <1>3, <2>1, <3>1
      DEF InsertRun, InsertUnacknowledged, InsertRow, IInv, TypeOK, Holding,
          Busy
    <3>. QED  BY <3>1, <3>2, RegistryAssumption DEF IInv, TypeOK
  <2>. QED
    BY <1>0, <1>3, <2>1
    DEF InsertRun, InsertUnacknowledged, InsertRow, Goto, BlockInv,
        ActiveRows, IInv, TypeOK
<1>4. CASE UNCHANGED <<pc, job, began, found, status, startedAt>>
  BY <1>4 DEF BlockInv, ActiveRows
<1>5. ASSUME NEW v \in Workers,
             Setup(v) \/ Wrapup(v) \/ Dies(v) \/ \E q \in Runs : Deliver(v, q)
      PROVE  began'[w] <= startedAt'[r] + MaxWallclock + Grace
  <2>1. CASE v # w /\ ~InsertRun(v) /\ ~InsertUnacknowledged(v)
    BY <1>0, <1>5, <2>1
    DEF BlockInv, ActiveRows, IInv, TypeOK, Setup, ReapSelect, ReapCommit,
        ReapFails, CheckActive, InsertConflict, SetupFails, Wrapup, Finish,
        FinishFails, FinishBlind, Ack, Dies, HardKill, ChildLost,
        WorkerCrash, LetGo, Deliver, Goto, tableVars
  <2>2. CASE v = w /\ ~ReapSelect(v) /\ ~ReapCommit(v)
    BY <1>5, <2>2
    DEF IInv, TypeOK, Setup, ReapFails, CheckActive, InsertRun,
        InsertConflict, SetupFails, InsertUnacknowledged, Wrapup, Finish,
        FinishFails, FinishBlind, Ack, Dies, HardKill, ChildLost,
        WorkerCrash, LetGo, Deliver, Goto
  <2>. QED  BY <1>1, <1>2, <1>3, <2>1, <2>2
<1>. QED
  BY <1>4, <1>5
  DEF Next, Broker, Enqueue, Redeliver, Tick, vars, slotVars, tableVars

\* While the database answers, only rows younger than the cutoff turn a
\* delivery away.
THEOREM BoundedBlocking == Spec => []OnlyRecentRowsBlock
<1>1. Init => BlockInv
  BY DEF Init, BlockInv
<1>2. BlockInv => OnlyRecentRowsBlock
  BY DEF BlockInv, OnlyRecentRowsBlock
<1>. QED  BY <1>1, <1>2, BlockStep, Invariance, PTL DEF Spec

-----------------------------------------------------------------------------
(* The table implements the lease. *)

\* The holder of an issue is the run of its one running row ...
LEMMA RunningRowHolds ==
  ASSUME NEW table, NEW r \in Runs, table[r] = "running",
         \A q \in Runs :
           table[q] = "running" /\ IssueOf[q] = IssueOf[r] => q = r
  PROVE  HolderIn(table, IssueOf[r]) = r
<1>1. RunningIn(table, IssueOf[r]) = {r}
  BY DEF RunningIn
<1>. QED  BY <1>1 DEF HolderIn, AnyOf

\* ... and nobody when it has none.
LEMMA NoRowNoHolder ==
  ASSUME NEW table, NEW i \in Issues,
         \A r \in Runs : IssueOf[r] = i => table[r] # "running"
  PROVE  HolderIn(table, i) = NoRun
BY DEF HolderIn, AnyOf, RunningIn

\* The holder of an issue depends on the running rows of that issue only.
LEMMA HolderIsLocal ==
  ASSUME NEW old, NEW new, NEW i \in Issues,
         \A r \in Runs :
           IssueOf[r] = i => (old[r] = "running" <=> new[r] = "running")
  PROVE  HolderIn(old, i) = HolderIn(new, i)
<1>1. RunningIn(old, i) = RunningIn(new, i)
  BY DEF RunningIn
<1>. QED  BY <1>1 DEF HolderIn

\* Inserting a running row acquires the lease.
LEMMA InsertAcquires ==
  ASSUME IInv, NEW r \in Runs, MayInsert(r), InsertRow(r)
  PROVE  Lease!Acquire(r)
<1>. DEFINE i == IssueOf[r]
<1>1. i \in Issues
  BY RegistryAssumption
<1>2. HolderIn(status, i) = NoRun
  BY <1>1, NoRowNoHolder DEF MayInsert, ActiveRows
<1>3. HolderIn(status', i) = r
  <2>1. status' = [status EXCEPT ![r] = "running"]
    BY DEF InsertRow
  <2>2. DOMAIN status = Runs
    BY DEF IInv, TypeOK
  <2>3. status'[r] = "running"
    BY <2>1, <2>2
  <2>4. ASSUME NEW q \in Runs, status'[q] = "running", IssueOf[q] = IssueOf[r]
        PROVE  q = r
    <3>1. status[q] # "running"
      BY <2>4 DEF MayInsert, ActiveRows
    <3>. QED  BY <2>1, <2>2, <2>4, <3>1
  <2>. QED  BY <2>3, <2>4, RunningRowHolds
<1>4. ASSUME NEW j \in Issues, j # i
      PROVE  HolderIn(status', j) = HolderIn(status, j)
  <2>1. \A q \in Runs :
          IssueOf[q] = j => (status'[q] = "running" <=> status[q] = "running")
    BY <1>4 DEF InsertRow, IInv, TypeOK
  <2>. QED  BY <2>1, HolderIsLocal
<1>5. r \notin {q \in Runs : status[q] \in Terminal}
  BY DEF MayInsert, Terminal
<1>6. {q \in Runs : status'[q] \in Terminal}
        = {q \in Runs : status[q] \in Terminal}
  BY DEF MayInsert, InsertRow, Terminal, IInv, TypeOK
<1>7. [j \in Issues |-> HolderIn(status', j)]
        = [[j \in Issues |-> HolderIn(status, j)] EXCEPT ![i] = r]
  BY <1>1, <1>3, <1>4
<1>. QED
  BY <1>1, <1>2, <1>5, <1>6, <1>7 DEF Lease!Acquire

\* Ending the running row of an issue releases its lease.
LEMMA EndReleases ==
  ASSUME IInv, NEW r \in Runs, status[r] = "running", NEW end \in Terminal,
         status' = [status EXCEPT ![r] = end]
  PROVE  Lease!Release(IssueOf[r])
<1>. DEFINE i == IssueOf[r]
<1>1. i \in Issues
  BY RegistryAssumption
<1>2. HolderIn(status, i) = r
  BY RunningRowHolds DEF IInv, OneActiveRow
<1>3. HolderIn(status', i) = NoRun
  BY <1>1, NoRowNoHolder DEF IInv, TypeOK, OneActiveRow, Terminal
<1>4. ASSUME NEW j \in Issues, j # i
      PROVE  HolderIn(status', j) = HolderIn(status, j)
  <2>1. \A q \in Runs :
          IssueOf[q] = j => (status'[q] = "running" <=> status[q] = "running")
    BY <1>4 DEF IInv, TypeOK
  <2>. QED  BY <2>1, HolderIsLocal
<1>5. {q \in Runs : status'[q] \in Terminal}
        = {q \in Runs : status[q] \in Terminal} \union {r}
  BY DEF IInv, TypeOK
<1>6. [j \in Issues |-> HolderIn(status', j)]
        = [[j \in Issues |-> HolderIn(status, j)] EXCEPT ![i] = NoRun]
  BY <1>1, <1>3, <1>4
<1>. QED
  BY <1>1, <1>2, <1>5, <1>6, RegistryAssumption DEF Lease!Release

\* A step that leaves the statuses alone is a stutter of the lease.
LEMMA SameTableStutters ==
  ASSUME UNCHANGED status
  PROVE  UNCHANGED Lease!leaseVars
BY DEF Lease!leaseVars

\* A reaper finds at most one row still running, and ends it.
LEMMA ReapReleases ==
  ASSUME IInv, NEW w \in Workers, ReapCommit(w)
  PROVE  [Lease!Next]_(Lease!leaseVars)
<1>1. CASE \A r \in found[w] : status[r] = "stale"
  <2>1. UNCHANGED status
    BY <1>1 DEF ReapCommit, IInv, TypeOK
  <2>. QED  BY <2>1, SameTableStutters
<1>2. ASSUME NEW r \in found[w], status[r] # "stale"
      PROVE  [Lease!Next]_(Lease!leaseVars)
  <2>1. r \in Runs /\ status[r] = "running"
    BY <1>2 DEF IInv, TypeOK, FoundIsDead
  <2>2. \A q \in found[w] : q # r => status[q] = "stale"
    BY <2>1 DEF IInv, TypeOK, FoundIsDead, OneActiveRow
  <2>3. status' = [status EXCEPT ![r] = "stale"]
    BY <2>1, <2>2 DEF ReapCommit, IInv, TypeOK
  <2>4. Lease!Release(IssueOf[r])
    BY <2>1, <2>3, EndReleases DEF Terminal
  <2>. QED  BY <2>1, <2>4, RegistryAssumption DEF Lease!Next
<1>. QED  BY <1>1, <1>2

\* Every behaviour of the registry is a behaviour of the lease.
THEOREM Refinement == Spec => ImplementsLease
<1>1. Init => Lease!Init
  <2>. SUFFICES ASSUME Init  PROVE Lease!Init
    OBVIOUS
  <2>1. \A i \in Issues : HolderIn(status, i) = NoRun
    BY NoRowNoHolder DEF Init
  <2>2. {r \in Runs : status[r] \in Terminal} = {}
    BY DEF Init, Terminal
  <2>. QED  BY <2>1, <2>2 DEF Lease!Init
<1>2. IInv /\ [Next]_vars => [Lease!Next]_(Lease!leaseVars)
  <2>. SUFFICES ASSUME IInv, [Next]_vars
                PROVE  [Lease!Next]_(Lease!leaseVars)
    OBVIOUS
  <2>1. ASSUME NEW w \in Workers, InsertRun(w) \/ InsertUnacknowledged(w)
        PROVE  [Lease!Next]_(Lease!leaseVars)
    <3>1. job[w] \in Runs
      BY <2>1 DEF InsertRun, InsertUnacknowledged, IInv, Holding, Busy
    <3>2. Lease!Acquire(job[w])
      BY <2>1, <3>1, InsertAcquires DEF InsertRun, InsertUnacknowledged
    <3>. QED  BY <3>1, <3>2 DEF Lease!Next
  <2>2. ASSUME NEW w \in Workers, Finish(w)
        PROVE  [Lease!Next]_(Lease!leaseVars)
    <3>1. job[w] \in Runs /\ status[job[w]] = "running"
      BY <2>2 DEF Finish, IInv, Holding, WorkHasRow, Busy
    <3>2. PICK r \in Runs : r = job[w]
      BY <3>1
    <3>3. status[r] = "running" /\ status' = [status EXCEPT ![r] = "finished"]
      BY <2>2, <3>1, <3>2 DEF Finish
    <3>4. Lease!Release(IssueOf[r])
      BY <3>3, EndReleases DEF Terminal
    <3>. QED  BY <3>4, RegistryAssumption DEF Lease!Next
  <2>3. ASSUME NEW w \in Workers, ReapCommit(w)
        PROVE  [Lease!Next]_(Lease!leaseVars)
    BY <2>3, ReapReleases
  <2>4. CASE UNCHANGED status
    BY <2>4, SameTableStutters
  <2>. QED
    BY <2>1, <2>2, <2>3, <2>4
    DEF Next, Broker, Enqueue, Redeliver, Deliver, Setup, ReapSelect,
        ReapFails, CheckActive, InsertConflict, SetupFails, Wrapup,
        FinishFails, FinishBlind, Ack, Dies, HardKill, ChildLost,
        WorkerCrash, LetGo, Tick, tableVars, vars
<1>. QED
  BY <1>1, <1>2, Invariance, PTL DEF Spec, ImplementsLease, Lease!Spec
=============================================================================
