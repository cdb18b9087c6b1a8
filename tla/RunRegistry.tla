---------------------------- MODULE RunRegistry -----------------------------
(***************************************************************************)
(* Who may work on an issue: the Celery queue, the worker slots that take  *)
(* run_issue messages from it, and the runs table whose 'running' rows     *)
(* decide which delivery proceeds (workers/tasks.py, db/models.py).        *)
(*                                                                         *)
(* A slot is one child process of a Celery worker.  Everything run_issue   *)
(* does between inserting its row and updating it at the end is one stage  *)
(* here ("work"); Pipeline models what happens inside it.                  *)
(***************************************************************************)
EXTENDS Naturals

CONSTANTS
  Runs,           \* run ids; the API mints one per message it enqueues
  Issues,         \* (repo, issue_number) pairs
  IssueOf,        \* the issue each run id was enqueued for
  Workers,        \* worker slots
  NoRun,          \* an idle slot's job
  MaxWallclock,   \* MAX_WALLCLOCK_S, the hard time limit of a task
  Grace,          \* the 300 s margin of the reaper's cutoff
  KillLatency,    \* how late the hard kill may land
  DbMayFail,      \* whether statements on the runs table may fail
  MaxNow,         \* bound: the clock's horizon
  MaxDeliveries   \* bound: deliveries of one message

ASSUME RegistryAssumption ==
  /\ IssueOf \in [Runs -> Issues]
  /\ NoRun \notin Runs
  /\ MaxWallclock \in Nat /\ Grace \in Nat /\ KillLatency \in Nat
  /\ KillLatency <= Grace
  /\ DbMayFail \in BOOLEAN
  /\ MaxNow \in Nat /\ MaxDeliveries \in Nat

VARIABLES
  now,         \* the clock
  msg,         \* msg[r]: where the broker has the message of run r
  deliveries,  \* deliveries[r]: how often it was handed to a slot
  pc,          \* pc[w]: the stage of run_issue slot w is in
  job,         \* job[w]: the run id of the message slot w holds
  began,       \* began[w]: when slot w took it
  found,       \* found[w]: the rows the reaper's SELECT returned to slot w
  status,      \* status[r]: runs.status, "absent" when there is no row r
  startedAt    \* startedAt[r]: runs.started_at

queueVars == <<msg, deliveries>>
slotVars == <<pc, job, began, found>>
tableVars == <<status, startedAt>>
vars == <<now, queueVars, slotVars, tableVars>>

MsgStates == {"new", "queued", "held", "orphaned", "acked"}
Stages == {"idle", "reap", "reapCommit", "check", "insert",
           "work", "blind", "returned"}
Terminal == {"stale", "finished"}

TypeOK ==
  /\ now \in Nat
  /\ msg \in [Runs -> MsgStates]
  /\ deliveries \in [Runs -> Nat]
  /\ pc \in [Workers -> Stages]
  /\ job \in [Workers -> Runs \union {NoRun}]
  /\ began \in [Workers -> Nat]
  /\ found \in [Workers -> SUBSET Runs]
  /\ status \in [Runs -> {"absent", "running"} \union Terminal]
  /\ startedAt \in [Runs -> Nat]

Busy(w) == pc[w] # "idle"

\* The 'running' rows of the issue that run r is about.
ActiveRows(r) ==
  {q \in Runs : IssueOf[q] = IssueOf[r] /\ status[q] = "running"}

\* Mutants: a cutoff without the margin, and one with the margin twice.
ExpiredWithoutGrace(r) == startedAt[r] + MaxWallclock < now
ExpiredLate(r) == startedAt[r] + MaxWallclock + Grace + Grace < now

\* Run.started_at < cutoff, with cutoff = now - (MAX_WALLCLOCK_S + 300).
Expired(r) == startedAt[r] + MaxWallclock + Grace < now

Init ==
  /\ now = 0
  /\ msg = [r \in Runs |-> "new"]
  /\ deliveries = [r \in Runs |-> 0]
  /\ pc = [w \in Workers |-> "idle"]
  /\ job = [w \in Workers |-> NoRun]
  /\ began = [w \in Workers |-> 0]
  /\ found = [w \in Workers |-> {}]
  /\ status = [r \in Runs |-> "absent"]
  /\ startedAt = [r \in Runs |-> 0]

-----------------------------------------------------------------------------
(* The broker. *)

\* _enqueue_run: one message per freshly minted run id.
Enqueue(r) ==
  /\ msg[r] = "new"
  /\ msg' = [msg EXCEPT ![r] = "queued"]
  /\ UNCHANGED <<now, deliveries, slotVars, tableVars>>

\* A slot takes a message, without acknowledging it (acks_late), and enters
\* run_issue.  The horizon leaves every delivery its full time limit.
Deliver(w, r) ==
  /\ pc[w] = "idle"
  /\ msg[r] = "queued"
  /\ now + MaxWallclock + KillLatency <= MaxNow
  /\ msg' = [msg EXCEPT ![r] = "held"]
  /\ deliveries' = [deliveries EXCEPT ![r] = @ + 1]
  /\ pc' = [pc EXCEPT ![w] = "reap"]
  /\ job' = [job EXCEPT ![w] = r]
  /\ began' = [began EXCEPT ![w] = now]
  /\ UNCHANGED <<now, found, tableVars>>

\* A message that was never acknowledged goes back to the queue.
Redeliver(r) ==
  /\ msg[r] = "orphaned"
  /\ deliveries[r] < MaxDeliveries
  /\ msg' = [msg EXCEPT ![r] = "queued"]
  /\ UNCHANGED <<now, deliveries, slotVars, tableVars>>

\* The slot lets go of its message, which the broker then has as fate.
LetGo(w, fate) ==
  /\ msg' = [msg EXCEPT ![job[w]] = fate]
  /\ pc' = [pc EXCEPT ![w] = "idle"]
  /\ job' = [job EXCEPT ![w] = NoRun]
  /\ began' = [began EXCEPT ![w] = 0]
  /\ found' = [found EXCEPT ![w] = {}]
  /\ UNCHANGED <<now, deliveries, tableVars>>

\* run_issue has returned, and only now is the message acknowledged.
Ack(w) == pc[w] = "returned" /\ LetGo(w, "acked")

\* Mutant: only a slot at work has a time limit.
HardKillAtWork(w) ==
  /\ pc[w] = "work"
  /\ began[w] + MaxWallclock <= now
  /\ LetGo(w, "acked")

\* The hard time limit: the child process is killed wherever it is and its
\* message acknowledged (Celery's default for a timed-out late-ack task).
HardKill(w) ==
  /\ Busy(w)
  /\ began[w] + MaxWallclock <= now
  /\ LetGo(w, "acked")

\* The child dies (out of memory, a signal) while its parent survives: by
\* default Celery acknowledges the message of a lost child.
ChildLost(w) == Busy(w) /\ LetGo(w, "acked")

\* The worker dies as a whole: nobody acknowledges the message.
WorkerCrash(w) == Busy(w) /\ LetGo(w, "orphaned")
-----------------------------------------------------------------------------
(* run_issue: from the message to the 'running' row and back. *)

Goto(w, stage) ==
  /\ pc' = [pc EXCEPT ![w] = stage]
  /\ UNCHANGED <<job, began>>

\* _reap_stale_runs: SELECT the expired 'running' rows of this issue ...
ReapSelect(w) ==
  LET rows == {r \in ActiveRows(job[w]) : Expired(r)} IN
  /\ pc[w] = "reap"
  /\ found' = [found EXCEPT ![w] = rows]
  /\ Goto(w, IF rows = {} THEN "check" ELSE "reapCommit")
  /\ UNCHANGED <<now, queueVars, tableVars>>

\* Mutant: abandoned rows are deleted.
ReapByDeleting(w) ==
  /\ pc[w] = "reapCommit"
  /\ status' = [r \in Runs |-> IF r \in found[w] THEN "absent" ELSE status[r]]
  /\ found' = [found EXCEPT ![w] = {}]
  /\ Goto(w, "check")
  /\ UNCHANGED <<now, queueVars, startedAt>>

\* ... and UPDATE them by primary key, whatever they hold by now.
ReapCommit(w) ==
  /\ pc[w] = "reapCommit"
  /\ status' = [r \in Runs |-> IF r \in found[w] THEN "stale" ELSE status[r]]
  /\ found' = [found EXCEPT ![w] = {}]
  /\ Goto(w, "check")
  /\ UNCHANGED <<now, queueVars, startedAt>>

\* A failing reaper rolls back and is ignored.
ReapFails(w) ==
  /\ DbMayFail
  /\ pc[w] \in {"reap", "reapCommit"}
  /\ found' = [found EXCEPT ![w] = {}]
  /\ Goto(w, "check")
  /\ UNCHANGED <<now, queueVars, tableVars>>

\* SELECT ... WHERE status = 'running': a hit ends the run as
\* skipped_duplicate, which only the task's result records.
CheckActive(w) ==
  /\ pc[w] = "check"
  /\ Goto(w, IF ActiveRows(job[w]) = {} THEN "insert" ELSE "returned")
  /\ UNCHANGED <<now, found, queueVars, tableVars>>

\* Mutants: no partial unique index; an upsert instead of an INSERT.
MayInsertWithoutIndex(r) == status[r] = "absent"
MayUpsert(r) == ActiveRows(r) = {}

\* The primary key and the partial unique index uq_runs_active_issue.
MayInsert(r) == status[r] = "absent" /\ ActiveRows(r) = {}

InsertRow(r) ==
  /\ status' = [status EXCEPT ![r] = "running"]
  /\ startedAt' = [startedAt EXCEPT ![r] = now]

InsertRun(w) ==
  /\ pc[w] = "insert"
  /\ MayInsert(job[w])
  /\ InsertRow(job[w])
  /\ Goto(w, "work")
  /\ UNCHANGED <<now, found, queueVars>>

\* IntegrityError, from either constraint: stand down as skipped_duplicate.
InsertConflict(w) ==
  /\ pc[w] = "insert"
  /\ ~MayInsert(job[w])
  /\ Goto(w, "returned")
  /\ UNCHANGED <<now, found, queueVars, tableVars>>

\* Any other database error: "non-fatal, continuing without DB".
SetupFails(w) ==
  /\ DbMayFail
  /\ pc[w] \in {"reap", "check", "insert"}
  /\ Goto(w, "blind")
  /\ UNCHANGED <<now, found, queueVars, tableVars>>

\* The same, when the connection broke after the server had committed the
\* INSERT: the row is there and the run does not know it.
InsertUnacknowledged(w) ==
  /\ DbMayFail
  /\ pc[w] = "insert"
  /\ MayInsert(job[w])
  /\ InsertRow(job[w])
  /\ Goto(w, "blind")
  /\ UNCHANGED <<now, found, queueVars>>

\* The finally block: UPDATE runs SET status = result["status"] by primary
\* key, and return.
Finish(w) ==
  /\ pc[w] = "work"
  /\ status' = [status EXCEPT ![job[w]] = "finished"]
  /\ Goto(w, "returned")
  /\ UNCHANGED <<now, found, queueVars, startedAt>>

\* The final update fails and is rolled back: the row stays 'running'.
FinishFails(w) ==
  /\ DbMayFail
  /\ pc[w] = "work"
  /\ Goto(w, "returned")
  /\ UNCHANGED <<now, found, queueVars, tableVars>>

\* A run without a row has nothing to update.
FinishBlind(w) ==
  /\ pc[w] = "blind"
  /\ Goto(w, "returned")
  /\ UNCHANGED <<now, found, queueVars, tableVars>>

\* Time passes, but never beyond the moment a slot must have been killed.
Tick ==
  /\ now < MaxNow
  /\ \A w \in Workers : Busy(w) => now < began[w] + MaxWallclock + KillLatency
  /\ now' = now + 1
  /\ UNCHANGED <<queueVars, slotVars, tableVars>>
-----------------------------------------------------------------------------
Dies(w) == HardKill(w) \/ ChildLost(w) \/ WorkerCrash(w)

Setup(w) ==
  \/ ReapSelect(w) \/ ReapCommit(w) \/ ReapFails(w) \/ CheckActive(w)
  \/ InsertRun(w) \/ InsertConflict(w)
  \/ SetupFails(w) \/ InsertUnacknowledged(w)

Wrapup(w) == Finish(w) \/ FinishFails(w) \/ FinishBlind(w) \/ Ack(w)

Broker == \E r \in Runs : Enqueue(r) \/ Redeliver(r)

Next ==
  \/ Broker
  \/ \E w \in Workers, r \in Runs : Deliver(w, r)
  \/ \E w \in Workers : Setup(w) \/ Wrapup(w) \/ Dies(w)
  \/ Tick

Spec == Init /\ [][Next]_vars

\* Nothing obliges an agent to finish; time and the parent's kill are certain.
FairSpec == Spec /\ WF_vars(Tick) /\ \A w \in Workers : WF_vars(HardKill(w))
-----------------------------------------------------------------------------
(* Safety. *)

\* Two slots never work on one issue under two rows, or under one row: the
\* index, the primary key, the reaper's cutoff and the hard time limit
\* together keep them apart.
OneWorkerPerIssue ==
  \A v, w \in Workers :
    pc[v] = "work" /\ pc[w] = "work" /\ IssueOf[job[v]] = IssueOf[job[w]]
      => v = w

\* The reaper only takes rows whose worker is gone: a slot at work still has
\* its row 'running'.
LiveRunKeepsItsRow ==
  \A w \in Workers : pc[w] = "work" => status[job[w]] = "running"

\* While the database answers, a delivery that reaches the active-run check
\* can be turned away only by a row that had not yet expired when the
\* delivery began: an abandoned row blocks its issue no longer than the
\* cutoff says.
OnlyRecentRowsBlock ==
  ~DbMayFail =>
    \A w \in Workers : pc[w] = "check" =>
      \A r \in ActiveRows(job[w]) :
        began[w] <= startedAt[r] + MaxWallclock + Grace

\* The table is append-only: once a row says how its run ended, no reaper,
\* late update, redelivery or retry changes it.  docs/persistence.md still has
\* a retrigger overwrite the ended row of its issue.
EndedRowsAreFinal ==
  [][\A r \in Runs : status[r] \in Terminal =>
        status'[r] = status[r] /\ startedAt'[r] = startedAt[r]]_vars

\* Every delivery comes to an end: the message is acknowledged or orphaned.
EveryDeliveryEnds == \A r \in Runs : msg[r] = "held" ~> msg[r] # "held"

-----------------------------------------------------------------------------
(* The lease the table implements. *)

RunningIn(table, i) == {r \in Runs : IssueOf[r] = i /\ table[r] = "running"}

AnyOf(rows) == IF rows = {} THEN NoRun ELSE CHOOSE r \in rows : TRUE

HolderIn(table, i) == AnyOf(RunningIn(table, i))

Lease == INSTANCE IssueLease WITH
  holder <- [i \in Issues |-> HolderIn(status, i)],
  spent <- {r \in Runs : status[r] \in Terminal}

\* Every change of the table is one run taking or losing one issue's lease.
ImplementsLease == Lease!Spec
=============================================================================
