# Auto-SWE-Agent in TLA+

TLA+ specifications of Auto-SWE-Agent (`src/`): a webhook arrives, a Celery
worker takes the issue, three model-driven agents plan, code and review, and a
pull request comes out. The modules model the parts in which *order* matters —
who may work on an issue, what a repeated or lost message does, what is left
behind when a stage fails, what a budget bounds, what exactly a pull request
ships, what the agents' calls add up to, what a search or a listing may return.
TLC checks them on small instances; TLAPS proves every safety property that
the passing runs check, for every value of the constants.

Run everything from this directory:

    tlc -workers 2 -config RegistryRace.cfg MCRunRegistry     # one run
    tlapm RunRegistryProofs.tla                               # the proofs

`PROJECT.json` lists the runs, the mutants, the source lines behind every
definition, the hazards and the theorems.

## 1. The system

| Part | State it keeps | Operations | Where | Module |
|---|---|---|---|---|
| Gateway | `webhook_events` rows, the rate-limit window | signed webhook, manual trigger | `app/main.py` | `Gateway` |
| Queue | messages: queued, held by a worker, acknowledged | enqueue, deliver, redeliver, time limits | Celery and Redis, configured in `workers/__init__.py` | inside `RunRegistry` (external) |
| Run registry | `runs` rows: `running`, then how the run ended | reap, active-run check, INSERT, final UPDATE | `workers/tasks.py`, `db/models.py` | `RunRegistry`, abstractly `IssueLease` |
| Run pipeline | locals of `run_issue`; the clone, the vectors, the container; `run_steps` | the stages from fetch to clean-up | `workers/tasks.py` | `Pipeline` |
| Coder | message history, the tools, the current model, plan deviations, the last test output | one model call and its tools per iteration | `agent/loop.py` | `AgentTeam`; one turn per action in `Pipeline` |
| Planner, Reviewer | none between calls | one structured answer, with retries and a fallback | `agent/planner.py`, `agent/reviewer.py` | `AgentTeam`; outcomes in `Pipeline` |
| Git and GitHub | the branch and the pull request of an issue | clone, commit, push, open or adopt a pull request | `agent/github.py` | `Submission`; one outcome in `Pipeline` |
| Sandbox | one container per run | start, exec, close | `agent/sandbox.py` | `Sandbox`; one resource in `Pipeline` |
| Retrieval | an in-memory collection per process, the embedding cache on disk | index, search, delete | `agent/retrieval.py` | `Retrieval`; one resource in `Pipeline` |
| Providers | none | resolve provider, model and fallback per role | `agent/providers/` | `Providers`, used by `AgentTeam` |
| API for callers | rate-limit buckets per process | `POST /runs` limit, `GET /runs`, `GET /runs/{id}` | `app/main.py` | `RunApi` |

How they interact. The gateway and the workers share PostgreSQL and the Redis
queue and call each other through nothing else. A gateway process mints a run
id, gives it to the broker as the message's task id, writes a `webhook_events`
row and answers. A worker slot (one Celery child) takes the message *without*
acknowledging it, and `run_issue` looks at the `runs` table to decide whether it
may proceed. Within a run everything is sequential: `run_issue` calls the
Planner once, the Coder at least once, the Reviewer up to `MAX_REVIEW_ROUNDS`
times, all with one `Budget` object and one working tree, then `github.py`. Two
runs meet in the `runs` table, on GitHub (they share the issue's branch), in the
embedding cache, which all processes share, and in the vector collection of a
process that serves one run after the other.

What is hard about it:

* two deliveries of one webhook, or two runs of one issue, in different
  processes with a transaction boundary between check and write;
* late acknowledgement: a message may come back under the run id of a row that
  already exists;
* the reaper, which must not take the row of a slow but live run, and the
  300-second margin that is all that keeps it from doing so;
* any stage may fail, raise something nobody expects, be hit by the soft time
  limit, or be killed, and the finally block must cope with whatever exists
  then;
* three agents share one budget and only one of them asks it;
* a docker command that hangs may have done its work, or do it later, and the
  object that started it has forgotten the container by then;
* a push or a REST call may time out after it arrived, be repeated, or meet
  another run's or a person's work on the same branch;
* a failed model call is not in the budget, so only the one switch to a fallback
  model bounds how often each agent repeats it; first run and rerun share one
  agent object with everything it has collected;
* a cache entry is emptied before it is written, by processes that know nothing
  of each other;
* a listing is read page by page while rows appear and change; a run's state has
  two sources that disagree;
* the Reviewer's verdict is about a diff captured at one moment and ships with
  a tree committed at another.

`PROJECT.json` lists the hazards at their lines.

### What makes each part correct

* **Gateway** — an event row never claims a message nobody queued; a run id
  handed out is queued exactly once; a repeated delivery starts no second run
  (with one process; one per process otherwise).
* **Run registry** — never two slots at work on one issue with a row each; a
  live run keeps its row; a row that says how its run ended is final; an
  abandoned row blocks its issue no longer than the cutoff; every delivery ends.
* **Run pipeline** — the spending overshoot is bounded; what a pull request
  calls approved is what it ships; a completed row has a pull request; a fix
  that was completed survives a rerun or a review that fails, by an exception
  too; nothing the run can name stays on the host untried; the run ends.
* **Agents** — failures outside the budget are few; the trace misses one call of
  a run of the Coder that returns and no run but the one that raised; what was
  edited outside the plan, or never reviewed, is told in the pull request; the
  Reviewer sees the latest diff and tests; a fallback has had its turn before an
  agent gives up; no vendor is asked for another vendor's model; all of it is a
  behaviour of the run pipeline.
* **Retrieval** — a chunk carries its own vector; a file is never held in two
  versions; a search returns its own run's code; what is stale or left over is
  exactly what the code leaves.
* **API for callers** — no window holds more starts than the limit and a refusal
  does not prolong it; a walk through the list misses no standing row and
  repeats none; an ended run stays ended.
* **Sandbox** — no container is forgotten but by docker's own fault; a killed
  container, or a refused call, strands no later one; a name is never reused
  while it may be taken.
* **Git and GitHub** — no push destroys a commit; what is reported done is on
  the branch or was taken over by people; without a person's doing no run
  is refused its pull request, whatever answers were lost; the retries end.

## 2. The modules

### IssueLease
The abstract promise of the `runs` table: an issue is leased to at most one run,
and a run whose lease is over never holds one again. No tables, clocks or
workers.

### RunRegistry
The detailed one. `pc[w]` is where slot `w` is in `run_issue`; each database
transaction is one action and everything between two transactions may
interleave with the other slots.

| Action | Code |
|---|---|
| `Enqueue` | `_enqueue_run`, one message per minted id |
| `Deliver`, `Ack`, `Redeliver` | Celery with `task_acks_late` |
| `ReapSelect`, `ReapCommit`, `ReapFails` | `_reap_stale_runs`: SELECT, then UPDATE by primary key, then the handler that ignores errors |
| `CheckActive` | the SELECT of a running row for this issue, `skipped_duplicate` on a hit |
| `InsertRun`, `InsertConflict` | the INSERT under the primary key and the partial unique index `uq_runs_active_issue`; `IntegrityError` stands down |
| `SetupFails`, `InsertUnacknowledged` | any other database error: the run goes on without knowing a row ("blind") |
| `Finish`, `FinishFails`, `FinishBlind` | the final UPDATE |
| `HardKill`, `ChildLost`, `WorkerCrash` | the three ends of a process: by default Celery acknowledges the message in the first two |
| `Tick` | the clock; it never passes the moment by which a kill must have landed |

`startedAt` and `now` are logical ticks. `KillLatency` is how late the hard kill
may land; the assumption `KillLatency <= Grace` is the reason the reaper's
margin exists, and without it (mutant `ExpiredWithoutGrace`) the reaper takes
live rows.

### Gateway
`pc[p]` is where API process `p` is in its handler. Once the body is read a
handler does not await, so a process is inside one handler at a time and
interleavings are between processes. `Receive` stands for the checks that touch
no table (size, signature, JSON, token, allowlist of the manual route, rate
limit) and says only whether the request survives them. `Dedupe`, `EnqueueRun`,
`RecordEnqueued`/`RecordSkipped` and `Respond` are the four steps between which
other processes, a crash or a failing database or broker may come. A failing
`apply_async` may or may not have queued its message.

### Pipeline
One run from its row to its return. The working tree is a version number (0 is
the clone, every edit makes a new one), so "the same diff" is equality of
versions. `held` are the locals the finally block tests and, for the sandbox,
whether it has a `container_id`, without which `close()` returns at once; `left`
is what really exists on the host, a `stray` being a container whose id the
sandbox never got (`docker run` was given up) or has dropped (it hung and its
kill failed); `stuck` is what a clean-up step tried and failed to remove.
`review` carries the verdict *and* the version it was about. `escaped` remembers
which stage an exception left for the catch-all.

Failures come in three kinds: those a stage expects (`Fail`, with the status the
code sets), exceptions it does not, and the soft limit. An exception may leave
any stage (`Escapes`), the review and the rerun too, where the code between the
two try blocks has none of its own; `agent.run` may raise (`CoderRaises`), which
the first run turns into `provider_error` or the catch-all's `error` and the
rerun into the earlier result; and so may the finally block (`CleanupRaises`).
Last, the soft time limit, which Celery raises once as an ordinary exception
wherever the run happens to be: `SoftLimit` takes each way the handler at that
place can treat it — it escapes to the catch-all, is swallowed, or is taken for
a failure of the stage. `Killed` is the hard limit or the death of the process.

### Sandbox
One `Sandbox` object from `start()` to `close()`. `pc` is the docker command
that comes next, and every docker command is one action with the outcomes its
caller distinguishes: it works, docker refuses, or the outer time limit strikes
(`Hang`), after which `_kill_container` runs `docker kill` and sets
`container_id` to `None` whether or not the kill worked. `alive` and `late` are
the daemon's: what runs, and what a given-up `docker run` may still start.
`lost` collects the containers on which a docker command failed or hung; it is
what separates a leak the object could not help from one it caused.
`CallRunTests` is the restart after a kill, under a fresh name. A call whose
target is outside the workspace is refused before any of this (`RefuseTarget`,
`_container_path`); `target` remembers why a call ended in an error.

### Submission
`submit_changes` by several runs of one issue that share `agent/issue-N`.
`Commit`, `Push`, `PostOpens`/`PostRefused`/`PostFails` and `Find` are its
steps; `RetryOrFail` is the retry loop of `_request`, counted in `tries`. A push
that times out and a POST whose answer is lost may have taken effect. `push
--force-with-lease` is given a URL, and the clone has no remote-tracking ref of
the branch, so git's lease is that the branch does not exist. `People` push,
merge, close and delete at any moment; `closed`, `merged` and `deleted` remember
that they did. Commits are named by the run that made them.

`Submission` and `Sandbox` detail one stage each of `Pipeline`, which only keeps
their outcomes: `Submit`/`SubmitFails` and `StartSandbox`/`CloseSandbox`.

### Providers
No state: operators over an environment record, one field per variable of the
`.env` file. `VendorFor`, `Inherited` and `ModelFor` are `resolve_role`,
`CanBuild` and `ClientFor` are `get_provider_for_role`, `FallbackFor` is
`get_fallback_for_role`. A misspelt provider name makes resolution raise, even
where a role does not use the global one; a vendor in `broken` has no key or no
package.

### AgentTeam
The agents of one run, call by call. `stage` uses `Pipeline`'s words and `at`
says where in the stage an agent is.

| Action | Code |
|---|---|
| `StartPlanner`, `StartCoder`, `StartReviewer` | building the role's client, and what a `ProviderError` does there |
| `PlannerAnswers`, `PlannerCallFails` | `_attempt` of the Planner: usable, nudged once, given up; then the fallback or no plan |
| `CoderStops`, `CoderCallFails`, `CoderAnswers`, `CoderAsksForTools` | one iteration of `ReActAgent.run`: the budget check, the call, the stop reasons |
| `Edit`, `RunTests`, `Look`, `ReturnResults` | one tool call each through `_dispatch`, with the plan guardrail, and the message with the results; tests write files too |
| `CoderRaises` | an exception out of `agent.run`: of the code around the loop, of the guardrail (outside `_dispatch`'s try), or the soft limit; the steps of that run go with it |
| `CoderReturns` | what `run_issue` does with a `RunResult`: steps persisted, best result kept, diff captured |
| `ReviewerAnswers`, `ReviewerCallFails`, `Reviewed`, `ReviewSkipped` | a review round and what follows from the verdict |
| `Ship`, `Report` | the pull request with its notes and deviations |
| `Killed` | the hard time limit, at any point |

It `EXTENDS Providers` and is shown to implement `Pipeline`: the tree, the
budget and the review loop are hidden behind `settled`, the state when the last
turn ended, so a call or a tool in the middle of a turn is a stutter and its end
one `CoderTurn`, `Plan` or `Review`. `edited` and `written` tell the files that
`edit_file` changed from those test runs changed, since only the former are
compared with the plan. `made`, `listed` and `saved` count the Coder's calls in
the budget, in the running list and in `run_steps`, `past` those before the last
run that returned, and `raised` what became of a run that did not. The model has
a row and an answering database and no sandbox, and takes all edits of one turn
for one version; `Pipeline`, `RunRegistry` and `Sandbox` are about the rest.
Files are sequences of path components, so that `_matches_loosely` is modelled
by the suffixes it compares; a plan may also name a path without components,
which matches nothing.

### Retrieval
Several worker processes, each with its collection (`index`), one shared cache.
A text is the sequence of codes it is cut into and a vector is named after the
code it belongs to, so "the right vector" is an equality. `CutFile` (parse,
delete the old chunks, look up the cache), `Encode`, `OpenEntry`/`CloseEntry`
for each miss, and `Upsert` are the steps of one file; `SkipFile` and
`FileFails` are its early exits. A run then searches, edits and re-indexes and
ends with `DropRepo`, or its process dies. `behind` and `leaked` record which
files and runs the code itself leaves behind.

### RunApi
One caller is followed: one that starts runs, one that lists them, or one that
asks about a run. `Accept`/`Refuse` are `_check_rate_limit` over `bucket`, while
`letIn` remembers what the bucket forgets, and what the filter of a bucket keeps
are its last entries, because the clock never goes back; `FetchPage` is one
`GET /runs` with its keyset condition (`After`), order (`Before`) and cursor;
`AskRow`, `AskRowFails` and `AskCelery` are the two sources of `GET /runs/{id}`.
Rows and results change in between at will.

## 3. What is checked

Each passing run checks properties over its whole bounded state space. The type
invariants are proved; those of `AgentTeam` and `RunApi` are checked beside the
properties below as well. Each property has a mutant, a
plausible bug in the modelled code that makes TLC find the property violated.

| Run | Instance | Shows |
|---|---|---|
| `RegistryRace` | three runs of one issue, two slots, database failures | `OneWorkerPerIssue`, `LiveRunKeepsItsRow`; the table refines `IssueLease` |
| `RegistryProgress` | two runs of one issue, two deliveries each, no database failures, fairness | `OnlyRecentRowsBlock`, `EndedRowsAreFinal`, `EveryDeliveryEnds` |
| `GatewayFaults` | two processes, crashes, database and broker failures, one anonymous delivery, one manual run | `RecordedMeansQueued`, `AcceptedRunsAreQueued` |
| `GatewayRepeats` | two processes, no faults, every request sent three times | `AtMostOneRunPerProcess` |
| `PipelineSafety` | a budget of three calls, two review rounds, two model tries per helper agent, fairness | `SpendingIsBounded`, `ApprovalIsOfWhatShips`, `VerdictIsKept`, `CompletedMeansShipped`, `GoodFixIsNotDiscarded`, `NothingIsLeftBehind`, `RunEnds` |
| `TeamSafety` | four environments, four model calls, two tool calls per answer, two review rounds, two files, fairness | `FallbackHasOneTurn`, `TraceLosesOneRun`, `DeviationsAreReported`, `UnreviewedEditsAreFlagged`, `ReviewerSeesTheLatest`, `ClientsFitTheirVendors`, `TeamEnds`; the agents refine `Pipeline` |
| `RetrievalSafety` | two processes, two runs, one file in three texts, two edits or re-indexings per run | `VectorsMatchTheirCodes`, `OneTextPerFile`, `RunsAreKeptApart` |
| `ApiReads` | one API process, two clients, a limit of two in a window of two; four rows, two start times | `LimitIsExact`, `WalkListsEachRowOnce`, `EndedStaysEnded` |
| `SandboxSafety` | up to four containers of one object | `NoContainerIsForgotten`, `NoCallIsStranded`, `NamesAreFree` |
| `SubmissionSafety` | two runs, two repetitions per call, people, fairness | `DoneMeansDelivered`, `NoCommitIsClobbered`, `RefusalTakesAPerson`, `EverySubmissionEnds` |

Why the bounds are enough. In the registry every race is over the rows of one
issue: only the reaper looks across issues, and row by row; so the instances
have one issue, and the theorems cover any number. Two slots are enough for
every race over one row, three runs for a reaper, its victim and a newcomer; the
horizon of `RegistryRace` (5 ticks, cutoff at 2) holds a run that starts, is
abandoned, expires and is succeeded. Two deliveries reach every state in which a
message finds its own earlier row. Three attempts per delivery and two processes
exceed the bound `AtMostOneRunPerProcess` claims. A budget of three lets a first
attempt edit and complete and a rerun edit and stop, and two review rounds are
the default and the first number that has a rerun. Four containers allow a kill
that failed, a restart, and a restart of the restart while the first container
still lives. Two runs show every meeting on the branch, since a run knows of
others only through the branch and the pull request; two repetitions allow a
POST to be lost twice.

In `TeamSafety` four calls let a first run edit and finish and a rerun edit and
stop, or a Planner be nudged and a Reviewer object. Of the four environments one
gives the Planner alone a fallback and misspells the Reviewer's vendor, one
breaks the Planner's vendor and gives the others a fallback, one configures
everybody with the stable model, and in one nothing can be built. The two files
are one the plan lists under a longer path and one it does not, and the plan may
list a path without components. One file suffices for `Retrieval`,
whose loop treats files one by one: its texts share a code and differ in length,
so hits and misses alternate, and one has no chunk; a second process tears the
cache entries of the first, a second run finds what the first could not drop. In
`ApiReads` two rows share a start time whatever is inserted, pages of one and
two leave a full and a short last page, and two clients show that a bucket is a
client's own. The buckets of two processes never meet, so one process is enough
and the limit is per process. What the bounds cannot show is what section 5
proves.

Fairness. `RunRegistry!FairSpec` asks that time passes and that the parent
process carries out the hard kill of a slot whose time is up; nothing obliges an
agent to finish. `Pipeline!FairSpec` asks that the next step of a run is taken:
HTTP, git, docker and model calls have time limits of their own, and the hard
limit ends what has none. `Submission!FairSpec` asks the same of each run's
submission and nothing of GitHub or of people; `AgentTeam!FairSpec` asks it of
the agents, whose model calls and tools have time limits. None assumes anything
about what a model answers.

`CHECK_DEADLOCK FALSE` is set everywhere because every instance really stops:
the horizon, the last attempt, the end of the run, a closed sandbox.

## 4. Where the code and its documentation disagree

The first two are runs of their own that TLC must find violated.

* `SandboxDead` — `docker exec` on a container that has died exits non-zero, and
  that is returned as the test command's result; `container_id` stays set, so
  nothing restarts it. `agent/sandbox.py:69` keeps `SandboxError` for a
  container that died.
* `SubmissionRerun` — without a remote-tracking ref the lease of
  `agent/github.py:687` only holds while the branch does not exist, so the push
  of a second run of the issue is rejected and the run ends as `github_error`.
  `agent/github.py:523` says a rerun updates the same branch and pull request.

Known from reading, and covered by a weaker property or by none:

* two processes that hold one delivery start two runs, for the duplicate check
  and the event row are two transactions with the enqueue between them
  (`app/main.py:250`), against `docs/how-it-works.md:60`;
  `AtMostOneRunPerProcess` says how many there can be, and the registry turns
  the second away while the first is alive;
* a redelivered message finds the dead worker's own row, still `running` and
  younger than the cutoff, and is acknowledged as `skipped_duplicate`, against
  `workers/__init__.py:57`; `OnlyRecentRowsBlock` bounds how long;
* a rerun that ends without completing may have edited files, and what ships is
  the tree, not "the earlier fix" of `workers/tasks.py:689`;
  `UnreviewedEditsAreFlagged` says that the pull request then carries the
  Reviewer's objections;
* the comment of `workers/tasks.py:549` promises a pull request "when the tests
  pass"; nothing asks whether they were run, and the test output the Reviewer is
  shown may be older than the diff beside it (`ReviewerSeesTheLatest` says that
  it is the latest there is);
* a deviation from the plan is noted before the edit is tried, so a file whose
  edit was refused is listed as changed (`agent/loop.py:678`);
* `LLM_FALLBACK_MODEL` is given to every role whatever its vendor, although
  `docs/how-it-works.md:203` says a model name is never carried across
  providers; `FallbackFits` is therefore a condition of
  `ClientsFitTheirVendors`;
* an answer `{}` of the Reviewer counts as a review that approves
  (`agent/schemas.py:182`);
* `index_repo` promises that no orphaned duplicates stay behind
  (`agent/retrieval.py:377`), but a file that has been emptied, deleted or can
  no longer be parsed keeps its old chunks; and two definitions of one kind on
  one line get one chunk id, which fails the whole file;
* `GET /runs/{id}` answers `pending` for a run that is over while the database
  fails or once Celery has forgotten the result; `EndedStaysEnded` excepts only
  that;
* the rate limit is one per process: n processes let a client start n times as
  many runs;
* the Planner and the Reviewer call their models without asking the budget, so
  the total may exceed the cap of `docs/how-it-works.md:228`;
  `SpendingIsBounded` says by how much;
* a Reviewer that raises in the first round leaves the default review in place,
  whose `review_status` is `reviewed` (`agent/schemas.py:182` reserves it for a
  diff a model judged); `VerdictIsKept` says that is the only way it ships;
* the Coder's steps are written when it has returned (`workers/tasks.py:618`,
  `:683`), so a crash, the soft limit or an exception out of `agent.run` keeps
  none of the current run's, against `docs/how-it-works.md:276` and
  `docs/persistence.md:45` ("written to this table *as they happen*");
  `TraceLosesOneRun` says that no other run's are lost with them, and one call
  at most of a run that returns;
* `_dispatch` is said never to raise (`agent/loop.py:665`), but it compares the
  path of an edit with the plan at line 675, outside its try, so a path that is
  no string, or one the file system rejects, ends the run of the Coder;
  `CoderRaises` is that step among others;
* `workers/tasks.py:605` says that a later review round "must never destroy" a
  completed fix. A rerun or a Reviewer that raises does not, but an exception or
  the soft limit in `run_issue`'s own code between those two try blocks (lines
  658 to 673 and 681 to 701), or in the submission, reaches the catch-all, which
  reports `error` and deletes the workspace. `GoodFixIsNotDiscarded` says that
  this is the only way;
* the pull request heads its list of deviations "files changed outside the
  Planner's `files_to_touch`" (`workers/tasks.py:748`), but only `edit_file` is
  compared with the plan. What a test run writes (`agent/loop.py:363`, and in
  the sandbox the workspace is mounted writable) is committed by `git add -A`
  (`agent/github.py:663`) and not listed; `DeviationsAreReported` excepts it by
  name;
* `docs/persistence.md:37` and `:94` and `db/models.py:11` say that a retrigger
  updates the issue's ended row and purges its steps, under a unique constraint
  on the issue. The code does neither: every attempt inserts a row of its own
  (`workers/tasks.py:317`), and only running rows are unique
  (`db/models.py:116`). `EndedRowsAreFinal` and `EndedStaysEnded` are about the
  code; an upsert as the documents have it (mutant `MayUpsert`) violates the
  first;
* a run whose setup hit a database error other than `IntegrityError` works
  without a row, so `OneWorkerPerIssue` does not speak of it;
* the soft time limit is an ordinary exception, so most places swallow it and
  run on to the hard kill;
* an exception other than `GitHubError` in the result comment turns a run with
  an open pull request into `error`;
* `Sandbox.close()` without a container returns before it clears
  `_was_started`, so such an object would restart if used again, and it asks
  docker nothing: a container whose `docker run` timed out or whose kill failed
  is nobody's any more. It is the `stray` that `NothingIsLeftBehind` excepts;
* a comment whose POST is repeated after a lost answer appears twice.

## 5. What is proved

`RunRegistryProofs` proves, for all finite or infinite sets of runs, issues and
slots, all limits and both values of `DbMayFail`, from `RegistryAssumption`:

| Theorem | Statement |
|---|---|
| `TypeCorrectness` | `Spec => []TypeOK` |
| `MutualExclusion` | `Spec => []OneWorkerPerIssue` |
| `LiveRows` | `Spec => []LiveRunKeepsItsRow` |
| `Finality` | `Spec => EndedRowsAreFinal` |
| `BoundedBlocking` | `Spec => []OnlyRecentRowsBlock` |
| `Refinement` | `Spec => ImplementsLease` |

The argument. `OneWorkerPerIssue` is not inductive: it says nothing of the row a
slot at work owns. The invariant that is has these parts: a busy slot holds the
message of its job and no other slot does; a slot is never older than
`MaxWallclock + KillLatency`; a slot at work has a `running` row that started no
earlier than the slot began; at most one `running` row per issue; and every row
a reaper has selected is either over already or so old that, by the third fact
and `KillLatency <= Grace`, no slot can be at work on it. Preservation is one
step per action, and the interesting case is `ReapCommit`, which updates by
primary key whatever the rows hold by then. Finality follows because the rows a
reaper found are still `running` or already `stale`. Refinement maps the holder
of an issue to its one `running` row and the spent leases to the rows that are
over; only `InsertRun`, `InsertUnacknowledged`, `ReapCommit` and `Finish` are
lease steps.

`GatewayProofs` — for any finite set of processes, any deliveries and triggers,
any bounds, and every combination of faults: `TypeCorrectness`, `RowsAreTrue`
(`RecordedMeansQueued`), `AcceptedOnce` (`AcceptedRunsAreQueued`) and
`OneRunPerProcess` (`AtMostOneRunPerProcess`). The first three rest on what a
handler knows once it has enqueued — its own message is in the queue, under an
id nobody else was given. The last needs a count. While a delivery has no row,
each of its messages is one whose process is about to write the row, so messages
and processes that still wait to enqueue are at most as many as there are
processes; once there is a row nobody joins those who wait, and every message
sent is a process that stops waiting.

`PipelineProofs` — for every budget, every number of rounds and of calls a
Planner or Reviewer may make: `TypeCorrectness`, `BoundedSpending`,
`ApprovalShips`, `VerdictsAreKept`, `CompletedIsShipped`, `FixesSurvive` and
`CleanExit`, that is, all safety properties of `PipelineSafety`. The invariant
has four parts that are proved separately: `Rounds`/`Budgeted` (nothing is spent
before the Planner, a review only begins with a round left), `Judged` (an
approval ends the rounds, so it is about the tree as it still is; a rerun only
follows a request for changes), `Consistent` (a pull request and the gate on the
best result, `Shipped`; how a result that knows of a pull request or has missed
it came about, `Told`; and the row that repeats it, `Recorded`), `Accounted`
(what is on the host has a local that says so, and a container that is no stray
has its id in the sandbox; after its clean-up step each is gone or stuck). The
soft time limit adds no case: each way a handler can treat it is a step that
exists already, or `Swallowed` or `ReviewBreaksOff`.

`SandboxProofs` — for any number of restarts: `TypeCorrectness`,
`NoneForgotten`, `CallsAreNotStranded`, `FreshNames`. They need that names only
grow, that a `docker run` that may still take effect was given up on, and that
only a fault of the same call leaves `exec` without a container.

`SubmissionProofs` — for any number of runs and repetitions: `TypeCorrectness`,
`Delivery` (`DoneMeansDelivered`), `NothingClobbered` (`NoCommitIsClobbered`)
and `RefusalsTakeAPerson` (`RefusalTakesAPerson`). `Delivery` holds by one
invariant: from the push on, a run's commit is on the branch, merged or removed
by a person. The other needs that a run which looks for the pull request in its
way still finds one, unless a person took it: an open one only closes by
a person's doing, and a push without one leaves a branch that may be opened.

`RetrievalProofs` — for any processes, runs, files, texts and codes, and any
number of edits and indexings: `TypeCorrectness`, `OwnVectors`
(`VectorsMatchTheirCodes`), `FilesHaveOneText` (`OneTextPerFile`) and
`SeparateRuns` (`RunsAreKeptApart`). The cache invariant comes first: an entry
is its own code's vector or none, whoever writes it. While a file is indexed,
each place of its list then holds the right vector or is one of the misses still
to be encoded, and the file's old chunks are already gone, so that what `Upsert`
adds meets no older version. Two more facts carry the rest: a run is held by one
process only, and no collection knows a run that has not begun.

`AgentTeamProofs` — for any environments, files and plans, any budget, any
number of tool calls and review rounds:

| Theorem | Statement |
|---|---|
| `TypeCorrectness` | `Spec => []TypeOK` |
| `FallbackTurns` | `Spec => []FallbackHasOneTurn` |
| `FullTrace` | `Spec => []TraceLosesOneRun` |
| `FreshReviews` | `Spec => []ReviewerSeesTheLatest` |
| `FlaggedEdits` | `Spec => []UnreviewedEditsAreFlagged` |
| `ReportedDeviations` | `Spec => []DeviationsAreReported` |
| `OwnModels` | `Spec => []ClientsFitTheirVendors` |
| `Refinement` | `Spec => ImplementsPipeline` |
| `AgentsSpendLittle` | `Spec => []P!SpendingIsBounded` |
| `AgentsShipWhatWasApproved` | `Spec => [](P!ApprovalIsOfWhatShips /\ P!VerdictIsKept)` |

None of these is inductive, and each has its own part of the invariant. An agent
holds no client but its configured one and its fallback
(`ClientsAreConfigured`), and while it asks it has one (`AskersHaveClients`); so
a failed call is counted by whether the agent has left its configured model
(`PlannerFailures`, `CoderFailures`, `ReviewerFailures`), which bounds the
failures the budget never sees, and what is given up has been tried on both
(`GivenUpLast`). A recorded call of the Coder is in the list until the list is
persisted, and a run of the Coder that raises is the last (`CallsAreListed`).
Every edited file is a deviation or matches a planned path (`EditsAreWatched`),
and a path and a file of which one is the other's suffix have the same last
component (`EndingsMatch`). The tree is the best result's until a rerun that
follows a request for changes (`TreeIsBest`), and nothing is edited once the
pull request is open (`PrIsLast`). `OwnModels` needs no induction over steps
beyond the first part: it is a lemma about `Providers`, that the model an
environment gives a role is its vendor's own (`ClientsAreAtHome`).

`Refinement` maps a call in the middle of a turn to a stutter and the end of the
turn to one step of `Pipeline`. The mapping hides the calls behind `settled`, so
the proof needs what a turn has added since (`TurnsSettle`): a Planner has made
no more calls than its nudge and its switch allow, a Reviewer no more than its
switch, a Coder exactly one, for which the budget had room, and at most one new
version of the tree. `Pipeline` allows exactly these steps, with four calls of
the Planner and two of the Reviewer. Its inductive invariant, from
`PipelineProofs`, holds in the state in which the Planner is first asked and is
kept by its steps, hence by the agents' (`PipelineInvariance`): what is proved
of the pipeline with its nondeterministic agents is thereby proved of the agents
as they are called.

`RunApiProofs` — for any processes and callers, limit and window, any number of
runs, any start times and page sizes: `TypeCorrectness`, `ExactLimit`
(`LimitIsExact`), `EachRowOnce` (`WalkListsEachRowOnce`) and `FinalAnswers`
(`EndedStaysEnded`). A bucket forgets, so the limit is proved of the starts
themselves: they ascend, a start is a window later than the one `Limit` places
before it, and a bucket is always their end, with nothing in the window before
it (`LastOf`). Starts that are spaced so are never more than `Limit` in a window
(`SpacedStartsAreFew`), and a refusal has `Limit` starts in a row behind it
(`FullWindow`). For the pages, matching rows have the ranks 1, 2, ... without
gaps, because the order of the list is total (`Ranks`), so a page holds exactly
the first of them (`ThePage`). The walk's invariant is that what was listed is
what lies up to the cursor: a row that appears later may lie on either side, but
no row moves, since its start time never changes (`RowsStay`). Finality follows
because a row that has ended stays and keeps saying so.

The assumptions on the constants are the named ASSUMEs of the modules:
`RegistryAssumption`, `GatewayAssumption`, `PipelineAssumption`,
`SandboxAssumption`, `SubmissionAssumption`, `RetrievalAssumption`,
`ProvidersAssumption`, `TeamAssumption` and `ApiAssumption`. They type the
constants and say that the value that stands for "none" is not one of the things
it is the absence of. Three say more, each from the code: a hard kill lands
within the reaper's margin, a manual trigger names an issue or is refused, and a
vendor's default and fallback models are its own.

Only model-checked: the liveness properties `EveryDeliveryEnds`, `RunEnds`,
`EverySubmissionEnds` and `TeamEnds` — fairness and ENABLED are out of the
prover's reach — and the counterexamples of section 4.

## 6. What is not modelled

Prompts, the text of model answers, JSON repair, diff and body text, logging,
the ranking and the token budget of a search, `build_call_graph` (nothing calls
it), the vendor adapters, `GET /runs/{id}/steps` and the health endpoint,
database session set-up, migrations, and the build and deployment files. A
Reviewer whose JSON sets `review_status` itself is left out. `AgentTeam` leaves
the soft time limit to `Pipeline`, but for the run of the Coder it ends
(`CoderRaises`); `Gateway` takes the rate limiter for one of
the reasons for which `Receive` may refuse, and `RunApi` models it.

## 7. Plan

`Submission` and `Sandbox` as refinements of the stages of `Pipeline`, as
`AgentTeam` is of its agents.
