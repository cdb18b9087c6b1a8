------------------------------ MODULE Pipeline ------------------------------
(***************************************************************************)
(* One run of run_issue once it owns its issue (workers/tasks.py): fetch,  *)
(* clone, branch, index, plan, code, review, submit, report and clean up,  *)
(* with the budget the three agents share and every way a stage can fail.  *)
(*                                                                         *)
(* The working tree is a version number: 0 is the clone, and each edit     *)
(* makes the next one.  Comments and the texts the agents exchange are     *)
(* left out; a comment that fails changes nothing unless it says so here.  *)
(***************************************************************************)
EXTENDS Naturals

CONSTANTS
  MaxSteps,         \* the budget: MAX_STEPS, or the calls the other caps allow
  PlannerCalls,     \* the model calls run_planner may make: 2 models, 2 tries
  ReviewerCalls,    \* the model calls of one run_reviewer: 2 models
  MaxReviewRounds,  \* MAX_REVIEW_ROUNDS
  None              \* no version, no pull request

\* What the body of a pull request says about the review.
Verdicts == {"unset", "approve", "request_changes", "unavailable"}

ASSUME PipelineAssumption ==
  /\ MaxSteps \in Nat /\ PlannerCalls \in Nat
  /\ ReviewerCalls \in Nat /\ MaxReviewRounds \in Nat
  /\ None \notin Nat /\ None \notin [tree : Nat, notes : Verdicts]

VARIABLES
  pc,       \* the stage run_issue is in
  softHit,  \* whether the soft time limit has been raised
  spent,    \* budget.steps, the model calls recorded so far
  reviews,  \* calls of run_reviewer
  tree,     \* the version of the working tree
  best,     \* the version best_result was completed with
  diff,     \* the version diff_text was captured from
  review,   \* last_review and the version it is about
  pr,       \* the pull request on GitHub: its version and reviewer notes
  status,   \* result["status"]
  prUrl,    \* whether result["pr_url"] is set
  escaped,  \* whose exception reached the catch-all: a stage's own code, or
            \* agent.run in the first run of the Coder
  row,      \* runs.status; "absent" when the run has no row
  rowUrl,   \* whether runs.pr_url is set
  held,     \* what the finally block tests: the locals workspace and sandbox,
            \* and the container_id of the sandbox
  left,     \* what exists on the host on behalf of this run
  stuck     \* what a cleanup step failed to remove

agentVars == <<spent, reviews>>
codeVars == <<tree, best, diff, review>>
resultVars == <<pr, status, prUrl, escaped>>
rowVars == <<row, rowUrl>>
hostVars == <<held, left, stuck>>
vars == <<pc, softHit, agentVars, codeVars, resultVars, rowVars, hostVars>>

Working == {"fetch", "clone", "branch", "index", "plan", "sandbox", "setup",
            "code", "review", "rerun", "submit", "report"}
Cleanup == {"closeSandbox", "dropVectors", "removeWorkspace", "updateRow"}
\* returned; raised out of the finally block; killed
Ended == {"done", "raised", "dead"}

AgentStatuses == {"completed", "out_of_budget", "refused", "max_tokens",
                  "provider_error", "error"}
Statuses == AgentStatuses \union
              {"github_error", "index_error", "sandbox_error", "no_changes"}
\* A stray is a container whose id the sandbox never got, or has dropped.
Resources == {"workspace", "vectors", "container", "stray"}

\* No review yet: ReviewerOutput("approve", "No review performed.").
NoReview == [verdict |-> "unset", of |-> None]

Versions == Nat \union {None}

TypeOK ==
  /\ pc \in Working \union Cleanup \union Ended
  /\ softHit \in BOOLEAN
  /\ spent \in Nat /\ reviews \in Nat
  /\ tree \in Nat /\ best \in Versions /\ diff \in Versions
  /\ review \in [verdict : Verdicts, of : Versions]
  /\ pr \in [tree : Nat, notes : Verdicts] \union {None}
  /\ status \in Statuses
  /\ prUrl \in BOOLEAN
  /\ escaped \in Working \union {"agent", "nothing"}
  /\ row \in Statuses \union {"absent", "running"}
  /\ rowUrl \in BOOLEAN
  /\ held \subseteq {"workspace", "sandbox", "container"}
  /\ left \subseteq Resources
  /\ stuck \subseteq Resources

Init ==
  /\ pc = "fetch"
  /\ softHit = FALSE
  /\ spent = 0 /\ reviews = 0
  /\ tree = 0 /\ best = None /\ diff = None
  /\ review = NoReview
  /\ pr = None
  /\ status = "error"
  /\ prUrl = FALSE
  /\ escaped = "nothing"
  /\ row \in {"absent", "running"}
  /\ rowUrl = FALSE
  /\ held = {} /\ left = {} /\ stuck = {}

Goto(stage) == pc' = stage /\ UNCHANGED <<status, escaped>>

\* result["status"] is set, and the run goes on at the stage.
EndAs(stage, s) == pc' = stage /\ status' = s /\ UNCHANGED escaped

\* return result, through the finally block.
Fail(s) == EndAs("closeSandbox", s)

\* The catch-all, and the finally block.
Escape(from) == pc' = "closeSandbox" /\ status' = "error" /\ escaped' = from

\* Model calls recorded in the shared budget.
Spend(calls) == \E k \in calls : spent' = spent + k

-----------------------------------------------------------------------------
(* From the issue to a prepared workspace. *)

Fetch ==
  /\ pc = "fetch"
  /\ Goto("clone") \/ Fail("github_error")
  /\ UNCHANGED <<agentVars, codeVars, pr, prUrl, rowVars, hostVars>>

\* Mutant: the local is set once the clone has succeeded.
CloneThenHold ==
  /\ pc = "clone"
  /\ \/ /\ Goto("branch")
        /\ left' = left \union {"workspace"}
        /\ held' = held \union {"workspace"}
     \/ /\ Fail("github_error")
        /\ left' \in {left, left \union {"workspace"}}
        /\ UNCHANGED held
  /\ UNCHANGED <<agentVars, codeVars, pr, prUrl, rowVars, stuck>>

\* The local is set before the clone, so a failed clone is cleaned up too.
Clone ==
  /\ pc = "clone"
  /\ held' = held \union {"workspace"}
  /\ \/ Goto("branch") /\ left' = left \union {"workspace"}
     \/ Fail("github_error") /\ left' \in {left, left \union {"workspace"}}
  /\ UNCHANGED <<agentVars, codeVars, pr, prUrl, rowVars, stuck>>

CreateBranch ==
  /\ pc = "branch"
  /\ Goto("index") \/ Fail("github_error")
  /\ UNCHANGED <<agentVars, codeVars, pr, prUrl, rowVars, hostVars>>

Index ==
  /\ pc = "index"
  /\ Goto("plan") \/ Fail("index_error")
  /\ left' \in {left, left \union {"vectors"}}
  /\ UNCHANGED <<agentVars, codeVars, pr, prUrl, rowVars, held, stuck>>

\* The Planner never looks at budget.exhausted(); a Planner that fails leaves
\* an empty plan.
Plan ==
  /\ pc = "plan"
  /\ Spend(0..PlannerCalls)
  /\ Goto("sandbox")
  /\ UNCHANGED <<reviews, codeVars, pr, prUrl, rowVars, hostVars>>

\* The sandbox has the id of its container, or it has none: docker run failed
\* or was not answered in time, or a command hung and its container was
\* killed.  What the sandbox has lost track of may exist, or appear late.
HasContainer ==
  /\ held' = held \union {"sandbox", "container"}
  /\ left' \in {left \union {"container"}, left \union {"container", "stray"}}
HasNoContainer ==
  /\ held' = (held \union {"sandbox"}) \ {"container"}
  /\ left' \in {left \ {"container"}, (left \ {"container"}) \union {"stray"}}

\* Without use_sandbox there is nothing to start.  A container started may
\* still fail the run, and one that hangs on the first command does not.
StartSandbox ==
  /\ pc = "sandbox"
  /\ \/ UNCHANGED <<held, left>>
     \/ HasContainer /\ "stray" \notin left'
     \/ HasNoContainer
  /\ Goto("setup") \/ Fail("sandbox_error")
  /\ UNCHANGED <<agentVars, codeVars, pr, prUrl, rowVars, stuck>>

-----------------------------------------------------------------------------
(* The Coder: ReActAgent.run, entered from "setup" and again for a rerun. *)

Coding == pc \in {"code", "rerun"}

\* ReActAgent(...): no workspace or no usable provider.
SetUpCoder ==
  /\ pc = "setup"
  /\ Goto("code") \/ Fail("provider_error")
  /\ UNCHANGED <<agentVars, codeVars, pr, prUrl, rowVars, hostVars>>

\* Mutant: the diff is not refreshed after a rerun.
CaptureDiffOnce(version) == diff' = IF diff = None THEN version ELSE diff

\* _capture_diff: a git failure leaves an empty diff.
CaptureDiff(version) == diff' \in {version, None}

ReviewOrSubmit == IF reviews < MaxReviewRounds THEN "review" ELSE "submit"

\* Mutants: the gate on the latest attempt, and no gate at all.
CoderReturnsUngated(r, t) ==
  /\ best' = IF r = "completed" THEN t ELSE best
  /\ UNCHANGED diff
  /\ Goto("submit")
  /\ UNCHANGED <<reviews, review, pr, prUrl, rowVars, stuck>>
CoderReturnsLatest(r, t) ==
  /\ \/ /\ r = "completed"
        /\ best' = t
        /\ CaptureDiff(t)
        /\ Goto(ReviewOrSubmit)
     \/ /\ r # "completed"
        /\ UNCHANGED <<best, diff>>
        /\ EndAs("report", r)
  /\ UNCHANGED <<reviews, review, pr, prUrl, rowVars, stuck>>

\* agent.run has returned with result r and the tree at version t.
CoderReturns(r, t) ==
  /\ \/ /\ r = "completed"
        /\ best' = t
        /\ CaptureDiff(t)
        /\ Goto(ReviewOrSubmit)
     \/ /\ r # "completed"
        /\ UNCHANGED <<best, diff>>
        /\ IF pc = "code" THEN EndAs("report", r) ELSE Goto("submit")
  /\ UNCHANGED <<reviews, review, pr, prUrl, rowVars, stuck>>

\* Mutant: the budget is not asked before a call.
CoderTurnUnchecked ==
  /\ Coding
  /\ Spend({1})
  /\ tree' = tree + 1
  /\ Goto(pc)
  /\ UNCHANGED <<reviews, best, diff, review, pr, prUrl, rowVars, hostVars>>

\* The tools of one turn: they may change files, and tests that hang lose the
\* container, which the next test run replaces.
ToolsRun ==
  /\ tree' \in {tree, tree + 1}
  /\ \/ UNCHANGED <<held, left>>
     \/ "sandbox" \in held /\ (HasContainer \/ HasNoContainer)

\* One model call and the tools it asks for.  The answer ends the loop, or
\* the next iteration follows, or the history cannot be extended.
CoderTurn ==
  /\ Coding
  /\ spent < MaxSteps
  /\ Spend({1})
  /\ \/ /\ ToolsRun
        /\ Goto(pc)
        /\ UNCHANGED <<reviews, best, diff, review, pr, prUrl, rowVars, stuck>>
     \/ /\ UNCHANGED <<tree, held, left>>
        /\ \E r \in {"completed", "refused", "max_tokens"} :
             CoderReturns(r, tree)
     \/ ToolsRun /\ CoderReturns("provider_error", tree)

\* Mutant: the loop goes round again when the budget is exhausted.
CoderStopsLater ==
  /\ Coding
  /\ spent >= MaxSteps
  /\ Goto(pc)
  /\ UNCHANGED <<agentVars, codeVars, pr, prUrl, rowVars, hostVars>>

\* budget.exhausted(), asked before every call of the loop.
CoderStops ==
  /\ Coding
  /\ spent >= MaxSteps
  /\ CoderReturns("out_of_budget", tree)
  /\ UNCHANGED <<spent, tree, held, left>>

\* The call itself fails, on the fallback model as well.
CoderCallFails ==
  /\ Coding
  /\ spent < MaxSteps
  /\ \E r \in {"provider_error", "error"} : CoderReturns(r, tree)
  /\ UNCHANGED <<spent, tree, held, left>>

\* agent.run raises, before a call or in the middle of a turn: a tool's
\* arguments are looked at outside the try that guards the tool.
CoderRaising ==
  /\ Coding
  /\ \/ UNCHANGED <<spent, tree, held, left>>
     \/ spent < MaxSteps /\ Spend({1}) /\ ToolsRun
  /\ UNCHANGED <<reviews, best, diff, review, pr, prUrl, rowVars, stuck>>

\* Mutant: the rerun is not guarded by a try of its own.
CoderRaisesUncaught ==
  /\ CoderRaising
  /\ Escape("agent") \/ (pc = "code" /\ Fail("provider_error"))

\* A ValueError of the first run is taken for a provider's, anything else
\* reaches the catch-all.  "Coder re-run raised": the earlier result is kept.
CoderRaises ==
  /\ CoderRaising
  /\ \/ pc = "code" /\ (Fail("provider_error") \/ Escape("agent"))
     \/ pc = "rerun" /\ Goto("submit")

-----------------------------------------------------------------------------
(* The review loop. *)

\* The next stage once the verdict on the captured diff is in.
AfterReview(verdict) ==
  IF verdict = "request_changes" /\ reviews' < MaxReviewRounds
    THEN "rerun" ELSE "submit"

\* What run_reviewer may answer about the captured diff.
Judgements == [verdict : Verdicts \ {"unset"}, of : {diff}]

ReviewCalls ==
  /\ pc = "review"
  /\ Spend(0..ReviewerCalls)
  /\ reviews' = reviews + 1
  /\ UNCHANGED <<tree, best, diff, pr, prUrl, rowVars, hostVars>>

Review ==
  /\ ReviewCalls
  /\ review' \in Judgements
  /\ Goto(AfterReview(review'.verdict))

\* Mutant: a round that fails clears the earlier verdict.
ReviewRaisesForgets ==
  /\ ReviewCalls
  /\ Goto("submit")
  /\ review' = NoReview

\* "Reviewer failed (skipping)": last_review stays what it was.
ReviewRaises ==
  /\ ReviewCalls
  /\ Goto("submit")
  /\ UNCHANGED review

-----------------------------------------------------------------------------
(* Shipping. *)

\* The section of the body about the review: a banner when unavailable, a
\* warning when concerns are outstanding, else the bare summary.
ReviewerNotes == review.verdict

OpenPullRequest == pr' = [tree |-> tree, notes |-> ReviewerNotes]

\* Gated on best_result, but it commits whatever the working tree holds: git
\* may find nothing to commit in a tree that was edited, for what the edits
\* undid or what is ignored, and always in one that was not.
Submit ==
  /\ pc = "submit"
  /\ \/ EndAs("report", "no_changes") /\ UNCHANGED <<pr, prUrl>>
     \/ /\ tree # 0
        /\ OpenPullRequest
        /\ prUrl' = TRUE
        /\ EndAs("report", "completed")
  /\ UNCHANGED <<agentVars, codeVars, rowVars, hostVars>>

\* GitHubError: before the pull request is there, or after, when GitHub
\* created it and its answer was lost.
SubmitFails ==
  /\ pc = "submit"
  /\ UNCHANGED pr \/ (tree # 0 /\ OpenPullRequest)
  /\ Fail("github_error")
  /\ UNCHANGED <<agentVars, codeVars, prUrl, rowVars, hostVars>>

\* The result comment; a GitHubError is only logged.
Report ==
  /\ pc = "report"
  /\ Goto("closeSandbox")
  /\ UNCHANGED <<agentVars, codeVars, pr, prUrl, rowVars, hostVars>>

-----------------------------------------------------------------------------
(* The finally block. *)

\* Remove a resource when all that names it is set; a failure is only logged.
\* When something is not set, nothing is tried.
Remove(names, resource) ==
  /\ \/ /\ names \subseteq held
        /\ left' = left \ {resource} /\ UNCHANGED stuck
     \/ /\ names \subseteq held
        /\ UNCHANGED left /\ stuck' = stuck \union {resource}
     \/ ~(names \subseteq held) /\ UNCHANGED <<left, stuck>>
  /\ UNCHANGED <<agentVars, codeVars, pr, prUrl, rowVars, held>>

\* close() returns at once when the sandbox has no container_id.
CloseSandbox ==
  /\ pc = "closeSandbox"
  /\ Remove({"sandbox", "container"}, "container")
  /\ Goto("dropVectors")

DropVectors ==
  /\ pc = "dropVectors"
  /\ Remove({"workspace"}, "vectors")
  /\ Goto("removeWorkspace")

RemoveWorkspace ==
  /\ pc = "removeWorkspace"
  /\ Remove({"workspace"}, "workspace")
  /\ Goto("updateRow")

\* The final UPDATE, skipped without a row; a failure is only logged.
UpdateRow ==
  /\ pc = "updateRow"
  /\ \/ row # "absent" /\ row' = status /\ rowUrl' = prUrl
     \/ UNCHANGED rowVars
  /\ Goto("done")
  /\ UNCHANGED <<agentVars, codeVars, pr, prUrl, hostVars>>

-----------------------------------------------------------------------------
(* Exceptions no stage expects, the soft time limit, and the end of time. *)

\* An exception in a stage's own code, outside every try but the catch-all's
\* or of a kind its try does not expect.  What was done by then stays done.
Escapes ==
  /\ pc \in Working
  /\ Escape(pc)
  /\ \/ UNCHANGED <<held, left>>
     \/ /\ pc = "clone"
        /\ held' = held \union {"workspace"}
        /\ left' \in {left, left \union {"workspace"}}
  /\ UNCHANGED pr \/ (pc = "submit" /\ tree # 0 /\ OpenPullRequest)
  /\ UNCHANGED <<agentVars, codeVars, prUrl, rowVars, stuck>>

\* rmtree's except clause only knows OSError, so anything else leaves the
\* finally block before the row is updated.
CleanupRaises ==
  /\ pc = "removeWorkspace"
  /\ Goto("raised")
  /\ UNCHANGED <<agentVars, codeVars, pr, prUrl, rowVars, hostVars>>

Unexpected == Escapes \/ CoderRaises \/ CleanupRaises

\* A helper, a tool or an SDK call that swallows every exception goes on.
Swallowed ==
  /\ pc \in Working
  /\ Goto(pc)
  /\ UNCHANGED <<agentVars, codeVars, pr, prUrl, rowVars, hostVars>>

\* The review loop stops with the review it has, old or new.
ReviewBreaksOff ==
  /\ ReviewCalls
  /\ review' \in Judgements \union {review}
  /\ Goto("submit")

\* SoftTimeLimitExceeded, raised once, wherever the run is: it escapes, it is
\* swallowed, or it is taken for a failure of the stage.
SoftLimit ==
  /\ ~softHit
  /\ softHit' = TRUE
  /\ \/ Unexpected /\ (pc = "code" => status' = "error")
     \/ Swallowed
     \/ Index \/ Plan \/ CoderCallFails \/ ReviewBreaksOff
     \/ StartSandbox /\ status' = "sandbox_error"
     \/ CloseSandbox \/ DropVectors \/ UpdateRow

\* The hard time limit, or the death of the worker process.
Killed ==
  /\ pc \notin Ended
  /\ pc' = "dead"
  /\ UNCHANGED <<softHit, agentVars, codeVars, resultVars, rowVars, hostVars>>

-----------------------------------------------------------------------------
Coder == SetUpCoder \/ CoderTurn \/ CoderStops \/ CoderCallFails

Finally == CloseSandbox \/ DropVectors \/ RemoveWorkspace \/ UpdateRow

Step ==
  /\ \/ Fetch \/ Clone \/ CreateBranch \/ Index \/ Plan \/ StartSandbox
     \/ Coder
     \/ Review \/ ReviewRaises
     \/ Submit \/ SubmitFails \/ Report
     \/ Finally
  /\ UNCHANGED softHit

Next ==
  \/ Step
  \/ Unexpected /\ UNCHANGED softHit
  \/ SoftLimit \/ Killed

Spec == Init /\ [][Next]_vars

\* Every call a stage makes returns: HTTP, git, docker and model calls have
\* time limits of their own, and the hard time limit stops what has none.
FairSpec == Spec /\ WF_vars(Step)
-----------------------------------------------------------------------------
(* Safety. *)

\* The caps are checked by the Coder's loop alone, so the total may exceed
\* them, but only by what a Planner and the reviews held so far can spend.
Larger(m, n) == IF m > n THEN m ELSE n

SpendingIsBounded ==
  /\ spent <= Larger(MaxSteps, PlannerCalls) + ReviewerCalls * reviews
  /\ reviews <= MaxReviewRounds

\* A pull request whose notes read as an approval ships exactly the version
\* the Reviewer approved, unless the diff could not be captured at all.
ApprovalIsOfWhatShips ==
  pr # None /\ pr.notes = "approve" =>
    review.verdict = "approve" /\ review.of \in {pr.tree, None}

\* The default review reaches a pull request only when no round was held or
\* the first one raised: a verdict once given is never lost to a later round
\* that fails.
VerdictIsKept == pr # None /\ pr.notes = "unset" => reviews <= 1

\* A row that says completed has the URL of a pull request, and a pull request
\* is only ever opened for work a Coder completed.  The two ways the row and
\* the pull request may disagree are the only ones: the run failed after the
\* pull request was open, in the comment that reports it, or the submission
\* did, with a pull request on GitHub that nobody told the run about.
CompletedMeansShipped ==
  /\ row = "completed" => rowUrl /\ pr # None
  /\ rowUrl /\ row # "completed" => row = "error" /\ escaped = "report"
  /\ pr # None /\ ~prUrl /\ pc \in Cleanup \union {"done", "raised"} =>
       \/ status = "github_error"
       \/ status = "error" /\ escaped = "submit"
  /\ pr # None => best # None

\* However a later run of the Coder ends, with an exception too, and however
\* a review fails, the fix completed earlier is submitted.  It is lost only
\* when the submission fails, or when run_issue itself raises outside the try
\* blocks of the review loop.
GoodFixIsNotDiscarded ==
  pc \in Cleanup \union {"done", "raised"} /\ best # None =>
    \/ status \in {"completed", "no_changes", "github_error"}
    \/ /\ status = "error"
       /\ escaped \in {"review", "rerun", "submit", "report"}

\* A run that returns leaves a workspace, an index or a container it knows
\* the id of only where it tried to remove it and failed, whichever stage it
\* ended in.  A container whose id the sandbox never got or has dropped is
\* not tried at all: that stray is all it leaves unasked.
NothingIsLeftBehind == pc = "done" => left \subseteq stuck \union {"stray"}

\* The budget and MAX_REVIEW_ROUNDS end every run, whatever the model says.
RunEnds == <>(pc \in Ended)
=============================================================================
