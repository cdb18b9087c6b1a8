----------------------------- MODULE AgentTeam -----------------------------
(***************************************************************************)
(* The three agents of one run from the inside: the model calls of the     *)
(* Planner, the Coder's loop with its tools, the Reviewer's rounds, and    *)
(* the switch each of them makes to a fallback model.  One action is one   *)
(* model call or one tool call.  Pipeline is the abstract specification:   *)
(* its Plan, CoderTurn and Review are what these steps add up to.          *)
(*                                                                         *)
(* The working tree is a version number, as in Pipeline; the edits of one  *)
(* turn make one version.  A run with a row and an answering database is   *)
(* modelled, and no sandbox: RunRegistry and Sandbox are about those.      *)
(***************************************************************************)
EXTENDS Naturals, Sequences, Providers

CONSTANTS
  Envs,             \* the environments considered
  Names,            \* the components of paths
  Files,            \* files the Coder edits, each a sequence of components
  PlannedPaths,     \* paths a plan may list in files_to_touch
  MaxSteps,         \* MAX_STEPS, or the calls the other caps allow
  MaxCalls,         \* tool calls in one answer
  MaxReviewRounds   \* MAX_REVIEW_ROUNDS

Verdicts == {"unset", "approve", "request_changes", "unavailable"}

\* What a pull request holds, and says in its body.
PullRequests == [tree : Nat, notes : Verdicts, deviations : SUBSET Files]

ASSUME TeamAssumption ==
  /\ Envs \subseteq Environments
  /\ Files \union PlannedPaths \subseteq Seq(Names)
  /\ MaxSteps \in Nat /\ MaxCalls \in Nat /\ MaxReviewRounds \in Nat
  /\ None \notin Nat \union PullRequests \union [tree : Nat, notes : Verdicts]

VARIABLES
  env,         \* the environment of the worker
  stage,       \* where run_issue is, in Pipeline's words
  at,          \* within a stage: about to start, ask or nudge, or in the tools
  client,      \* client[role]: the provider object the agent holds
  failed,      \* failed[role]: model calls the budget never sees
  steps,       \* budget.steps
  plan,        \* how the Planner ended, and files_to_touch
  made,        \* model calls of the Coder that the budget recorded
  listed,      \* the length of `steps` in ReActAgent.run
  saved,       \* run_steps rows of the Coder
  past,        \* of `made`, the calls up to the last run that returned
  raised,      \* whether a run of the Coder raised, and what became of that
  todo,        \* tool calls of the answer that are still to be dispatched
  tree,        \* the version of the working tree
  edited,      \* the files that edit_file changed
  written,     \* the files that test runs changed
  deviations,  \* agent.plan_deviations
  tested,      \* the turn whose run_tests agent.last_test_output holds; 0: none
  settled,     \* the budget and the tree when the last turn or stage ended
  best,        \* the version best_result was completed with
  shown,       \* diff_text and test_output, what the Reviewer is given
  rounds,      \* calls of run_reviewer
  review,      \* last_review and the version it is about
  pr,          \* the pull request
  status       \* result["status"]

traceVars == <<made, listed, saved, past, raised>>
toolVars == <<todo, edited, written, deviations, tested>>
coderVars == <<traceVars, toolVars>>
shipVars == <<pr, status>>
vars == <<env, stage, at, client, failed, steps, plan, coderVars, tree,
          settled, best, shown, rounds, review, shipVars>>

Versions == Nat \union {None}

TypeOK ==
  /\ env \in Envs
  /\ stage \in {"plan", "sandbox", "setup", "code", "review", "rerun",
                "submit", "report", "closeSandbox", "dead"}
  /\ at \in {"start", "ask", "nudge", "tools"}
  /\ client \in [Roles -> Clients \union {None}]
  /\ failed \in [Roles -> Nat]
  /\ plan \in [end : {"raised", "useless", "usable"},
               files : SUBSET PlannedPaths]
  /\ {steps, made, listed, saved, past, todo, tree, tested, rounds}
       \subseteq Nat
  /\ raised \in {"no", "caught", "escaped"}
  /\ edited \subseteq Files /\ written \subseteq Files
  /\ deviations \subseteq Files
  /\ settled \in [steps : Nat, tree : Nat]
  /\ best \in Versions
  /\ shown \in [diff : Versions, tests : Nat]
  /\ review \in [verdict : Verdicts, of : Versions]
  /\ pr \in PullRequests \union {None}
  /\ status \in {"completed", "out_of_budget", "refused", "max_tokens",
                 "provider_error", "error", "sandbox_error", "no_changes",
                 "github_error"}

\* The empty PlannerOutput a Planner that raises leaves behind.
NoPlan == [end |-> "raised", files |-> {}]

Init ==
  /\ env \in Envs
  /\ stage = "plan" /\ at = "start"
  /\ client = [role \in Roles |-> None]
  /\ failed = [role \in Roles |-> 0]
  /\ steps = 0 /\ plan = NoPlan
  /\ made = 0 /\ listed = 0 /\ saved = 0 /\ past = 0 /\ raised = "no"
  /\ todo = 0 /\ edited = {} /\ written = {} /\ deviations = {}
  /\ tree = 0 /\ tested = 0
  /\ settled = [steps |-> 0, tree |-> 0]
  /\ best = None /\ shown = [diff |-> None, tests |-> 0]
  /\ rounds = 0 /\ review = [verdict |-> "unset", of |-> None]
  /\ pr = None /\ status = "error"

-----------------------------------------------------------------------------
(* Shared by the agents. *)

Entry(s) == IF s \in {"code", "rerun"} THEN "ask" ELSE "start"
Goto(s) == stage' = s /\ at' = Entry(s) /\ UNCHANGED status
EndAs(s, result) == stage' = s /\ at' = Entry(s) /\ status' = result
Stay(place) == at' = place /\ UNCHANGED <<stage, status>>

\* The turn, or the stage, is over.
Settle == settled' = [steps |-> steps', tree |-> tree']

Build(role) ==
  /\ CanBuild(env, role)
  /\ client' = [client EXCEPT ![role] = ClientFor(env, role)]

Recorded == steps' = steps + 1 /\ UNCHANGED failed
Unrecorded(role) ==
  /\ failed' = [failed EXCEPT ![role] = @ + 1]
  /\ UNCHANGED steps

\* Mutant: the fallback may follow itself.
FallbackLeftAlways(role) == FallbackFor(env, role) # None

\* The agent still holds its configured model and there is another to try.
FallbackLeft(role) ==
  /\ client[role] = ClientFor(env, role)
  /\ FallbackFor(env, role) # None

Switch(role) == client' = [client EXCEPT ![role] = FallbackFor(env, role)]

-----------------------------------------------------------------------------
(* The Planner: two models, two calls each. *)

Planning(place) == stage = "plan" /\ at \in place

\* Nothing but the plan leaves this stage.
PlannerKeeps ==
  UNCHANGED <<env, coderVars, tree, best, shown, rounds, review, pr>>

Planned(end, files) ==
  /\ plan' = [end |-> end, files |-> files]
  /\ Goto("sandbox")
  /\ Settle

\* get_provider_for_role raises and run_issue goes on with an empty plan.
StartPlanner ==
  /\ Planning({"start"})
  /\ UNCHANGED <<steps, failed>> /\ PlannerKeeps
  /\ \/ Build("planner") /\ Stay("ask") /\ UNCHANGED <<plan, settled>>
     \/ /\ ~CanBuild(env, "planner") /\ Planned("raised", {})
        /\ UNCHANGED client

\* This model gave no plan: the fallback from the start, or no plan at all.
PlannerGivesUp ==
  \/ /\ FallbackLeft("planner") /\ Switch("planner")
     /\ Stay("ask")
     /\ UNCHANGED <<plan, settled>>
  \/ ~FallbackLeft("planner") /\ Planned("useless", {}) /\ UNCHANGED client

\* Text that holds no plan_steps is nudged once for raw JSON.
PlannerAnswers ==
  /\ Planning({"ask", "nudge"})
  /\ Recorded /\ PlannerKeeps
  /\ \/ \E files \in SUBSET PlannedPaths :
          Planned("usable", files) /\ UNCHANGED client
     \/ at = "ask" /\ Stay("nudge") /\ UNCHANGED <<client, plan, settled>>
     \/ at = "nudge" /\ PlannerGivesUp

\* ProviderError; whatever else is raised ends run_planner.
PlannerCallFails ==
  /\ Planning({"ask", "nudge"})
  /\ Unrecorded("planner") /\ PlannerKeeps
  /\ PlannerGivesUp \/ (Planned("raised", {}) /\ UNCHANGED client)

-----------------------------------------------------------------------------
(* To the Coder. *)

StartSandbox ==
  /\ stage = "sandbox"
  /\ Goto("setup") \/ EndAs("closeSandbox", "sandbox_error")
  /\ UNCHANGED <<env, client, failed, steps, plan, coderVars, tree, settled,
                 best, shown, rounds, review, pr>>

\* Mutant: a status nothing else knows.
StartCoderOddly ==
  /\ stage = "setup"
  /\ EndAs("closeSandbox", "setup_error")
  /\ UNCHANGED <<env, client, failed, steps, plan, coderVars, tree, settled,
                 best, shown, rounds, review, pr>>

StartCoder ==
  /\ stage = "setup"
  /\ \/ Build("coder") /\ Goto("code")
     \/ /\ ~CanBuild(env, "coder")
        /\ EndAs("closeSandbox", "provider_error")
        /\ UNCHANGED client
  /\ UNCHANGED <<env, failed, steps, plan, coderVars, tree, settled,
                 best, shown, rounds, review, pr>>

-----------------------------------------------------------------------------
(* The Coder's loop, for the first run and for the rerun after a review. *)

Coding(place) == stage \in {"code", "rerun"} /\ at = place

CoderKeeps == UNCHANGED <<env, plan, rounds, review, pr>>
ToolsKeep == UNCHANGED <<tree, toolVars>>

\* Mutant: the Reviewer is given the test output it was given before.
ShowOldTests == \E d \in {tree, None} :
  shown' = [diff |-> d, tests |-> IF rounds = 0 THEN tested ELSE shown.tests]

\* diff_text and test_output; a git failure leaves an empty diff.
Show == \E d \in {tree, None} : shown' = [diff |-> d, tests |-> tested]

\* Mutant: only the steps of a result that completed are persisted.
CoderReturnsUntraced(r, n) ==
  /\ saved' = saved + (IF r = "completed" THEN n ELSE 0)
  /\ listed' = 0 /\ past' = made' /\ UNCHANGED raised
  /\ Settle
  /\ \/ /\ r = "completed"
        /\ best' = tree
        /\ Show
        /\ Goto(IF rounds < MaxReviewRounds THEN "review" ELSE "submit")
     \/ /\ r # "completed"
        /\ UNCHANGED <<best, shown>>
        /\ IF stage = "code" THEN EndAs("report", r) ELSE Goto("submit")

\* ReActAgent.run returns r with n steps, which are only now persisted.
CoderReturns(r, n) ==
  /\ saved' = saved + n
  /\ listed' = 0 /\ past' = made' /\ UNCHANGED raised
  /\ Settle
  /\ \/ /\ r = "completed"
        /\ best' = tree
        /\ Show
        /\ Goto(IF rounds < MaxReviewRounds THEN "review" ELSE "submit")
     \/ /\ r # "completed"
        /\ UNCHANGED <<best, shown>>
        /\ IF stage = "code" THEN EndAs("report", r) ELSE Goto("submit")

CoderContinues(n) ==
  /\ Stay("ask")
  /\ listed' = listed + n
  /\ UNCHANGED <<saved, past, raised, best, shown>>

\* Mutant: the loop goes round again.
CoderNeverStops ==
  /\ Coding("ask")
  /\ steps >= MaxSteps
  /\ UNCHANGED vars

CoderStops ==
  /\ Coding("ask")
  /\ steps >= MaxSteps
  /\ UNCHANGED <<client, failed, steps, made>>
  /\ ToolsKeep /\ CoderKeeps
  /\ CoderReturns("out_of_budget", listed)

\* ReActAgent.run raises, before a call or in the middle of a turn, and its
\* steps are lost with it.  In the first run a ValueError is a provider error
\* and anything else the catch-all's; in the rerun the earlier result is kept.
CoderRaises ==
  /\ Coding("ask") \/ Coding("tools")
  /\ listed' = 0 /\ todo' = 0
  /\ \/ /\ stage = "code" /\ raised' = "caught"
        /\ EndAs("closeSandbox", "provider_error")
     \/ /\ stage = "code" /\ raised' = "escaped"
        /\ EndAs("closeSandbox", "error")
     \/ stage = "rerun" /\ raised' = "caught" /\ Goto("submit")
  /\ UNCHANGED <<client, failed, steps, made, saved, past, tree, edited,
                 written, deviations, tested, best, shown>>
  /\ Settle
  /\ CoderKeeps

\* ProviderError: once per agent object, the same conversation goes on with
\* the fallback.  Any other exception ends the run.
CoderCallFails ==
  /\ Coding("ask")
  /\ steps < MaxSteps
  /\ Unrecorded("coder") /\ UNCHANGED made
  /\ ToolsKeep /\ CoderKeeps
  /\ \/ /\ FallbackLeft("coder") /\ Switch("coder")
        /\ CoderContinues(0)
        /\ UNCHANGED settled
     \/ /\ ~FallbackLeft("coder") /\ CoderReturns("provider_error", listed)
        /\ UNCHANGED client
     \/ CoderReturns("error", listed) /\ UNCHANGED client

\* Mutant: the budget is not asked.
CoderIsAnsweredUnasked ==
  /\ Coding("ask")
  /\ steps <= MaxSteps
  /\ Recorded /\ made' = made + 1
  /\ UNCHANGED client
  /\ CoderKeeps

CoderIsAnswered ==
  /\ Coding("ask")
  /\ steps < MaxSteps
  /\ Recorded /\ made' = made + 1
  /\ UNCHANGED client
  /\ CoderKeeps

\* The answer asks for no tool: it ends the run, pauses it, or cannot be
\* appended to the history, and then it is not among the steps either.
CoderAnswers ==
  /\ CoderIsAnswered /\ ToolsKeep
  /\ \/ \E r \in {"refused", "completed", "max_tokens"} :
          CoderReturns(r, listed + 1)
     \/ CoderReturns("provider_error", listed)
     \/ CoderContinues(1) /\ Settle

CoderAsksForTools ==
  /\ CoderIsAnswered
  /\ todo' \in 1..MaxCalls
  /\ Stay("tools")
  /\ UNCHANGED <<listed, saved, past, raised, tree, edited, written,
                 deviations, tested, settled, best, shown>>

\* _matches_loosely: the shorter of the two ends the longer.  A path without
\* components, such as ".", matches nothing.
Matches(file, path) ==
  LET n == IF Len(file) < Len(path) THEN Len(file) ELSE Len(path)
      Ending(s) == SubSeq(s, Len(s) - n + 1, Len(s))
  IN n > 0 /\ Ending(file) = Ending(path)

\* _plan_deviation: a plan that lists no file constrains nothing.
Deviates(file) ==
  plan.files # {} /\ \A path \in plan.files : ~Matches(file, path)

\* One tool call.  What a tool raises is its answer; the path of an edit is
\* looked at before, outside that try, and may raise: CoderRaises.
Dispatches ==
  /\ Coding("tools")
  /\ todo > 0 /\ todo' = todo - 1
  /\ UNCHANGED <<stage, at, client, failed, steps, traceVars, settled, best,
                 shown, status>>
  /\ CoderKeeps

\* Mutant: an edit is only compared with the plan in the first run.
EditUnwatched(file) ==
  /\ Dispatches
  /\ deviations' = IF Deviates(file) /\ stage = "code"
                     THEN deviations \union {file} ELSE deviations
  /\ edited' = edited \union {file} /\ tree' = settled.tree + 1
  /\ UNCHANGED <<written, tested>>

\* Noted before the edit is tried, and kept when it is refused.
Edit(file) ==
  /\ Dispatches
  /\ deviations' = IF Deviates(file)
                     THEN deviations \union {file} ELSE deviations
  /\ \/ edited' = edited \union {file} /\ tree' = settled.tree + 1
     \/ UNCHANGED <<edited, tree>>
  /\ UNCHANGED <<written, tested>>

\* Tests run with the workspace writable, in the sandbox too.  They may change
\* files, and last_test_output only changes when they come to an end.
RunTests ==
  /\ Dispatches
  /\ tested' \in {made, tested}
  /\ \/ UNCHANGED <<written, tree>>
     \/ /\ \E file \in Files : written' = written \union {file}
        /\ tree' = settled.tree + 1
  /\ UNCHANGED <<edited, deviations>>

\* A look at the code, or a tool that fails or does not exist.
Look == Dispatches /\ UNCHANGED <<tree, edited, written, deviations, tested>>

\* The results go back in one message, or cannot be built.
ReturnResults ==
  /\ Coding("tools") /\ todo = 0
  /\ UNCHANGED <<client, failed, steps, made>>
  /\ ToolsKeep /\ CoderKeeps
  /\ \/ CoderContinues(1) /\ Settle
     \/ CoderReturns("provider_error", listed)

Coder ==
  \/ CoderStops \/ CoderCallFails
  \/ CoderAnswers \/ CoderAsksForTools
  \/ \E file \in Files : Edit(file)
  \/ RunTests \/ Look \/ ReturnResults

-----------------------------------------------------------------------------
(* The Reviewer: two models, one call each, in every round. *)

Reviewing(place) == stage = "review" /\ at = place

ReviewerKeeps == UNCHANGED <<env, plan, coderVars, tree, best, shown, pr>>

RoundEnds(s) ==
  /\ rounds' = rounds + 1
  /\ Goto(s)
  /\ Settle

\* Mutant: every review but the last is followed by a rerun.
ReviewedAndRerun(verdict) ==
  /\ review' = [verdict |-> verdict, of |-> shown.diff]
  /\ RoundEnds(IF rounds + 1 < MaxReviewRounds THEN "rerun" ELSE "submit")
  /\ UNCHANGED client

Reviewed(verdict) ==
  /\ review' = [verdict |-> verdict, of |-> shown.diff]
  /\ RoundEnds(IF verdict = "request_changes" /\ rounds + 1 < MaxReviewRounds
                 THEN "rerun" ELSE "submit")
  /\ UNCHANGED client

\* "Reviewer failed (skipping)".
ReviewSkipped == RoundEnds("submit") /\ UNCHANGED <<client, review>>

StartReviewer ==
  /\ Reviewing("start")
  /\ UNCHANGED <<steps, failed>> /\ ReviewerKeeps
  /\ \/ /\ Build("reviewer") /\ Stay("ask")
        /\ UNCHANGED <<settled, rounds, review>>
     \/ ~CanBuild(env, "reviewer") /\ ReviewSkipped

\* No usable review from this model: the fallback, or "unavailable".
ReviewerGivesUp ==
  \/ /\ FallbackLeft("reviewer") /\ Switch("reviewer")
     /\ Stay("ask")
     /\ UNCHANGED <<settled, rounds, review>>
  \/ ~FallbackLeft("reviewer") /\ Reviewed("unavailable")

ReviewerAnswers ==
  /\ Reviewing("ask")
  /\ Recorded /\ ReviewerKeeps
  /\ \/ \E verdict \in {"approve", "request_changes"} : Reviewed(verdict)
     \/ ReviewerGivesUp

ReviewerCallFails ==
  /\ Reviewing("ask")
  /\ Unrecorded("reviewer") /\ ReviewerKeeps
  /\ ReviewerGivesUp \/ ReviewSkipped

-----------------------------------------------------------------------------
(* What the run does with it. *)

RunKeeps == UNCHANGED <<env, client, failed, steps, plan, coderVars, tree,
                        settled, best, shown, rounds, review>>

\* commit_all stages whatever is in the tree; git may find nothing to commit.
Ship ==
  /\ stage = "submit"
  /\ \/ EndAs("report", "no_changes") /\ UNCHANGED pr
     \/ /\ tree # 0
        /\ pr' = [tree |-> tree, notes |-> review.verdict,
                  deviations |-> deviations]
        /\ EndAs("report", "completed")
     \/ EndAs("closeSandbox", "github_error") /\ UNCHANGED pr
  /\ RunKeeps

Report == stage = "report" /\ Goto("closeSandbox") /\ UNCHANGED pr /\ RunKeeps

Killed ==
  /\ stage \notin {"closeSandbox", "dead"}
  /\ stage' = "dead"
  /\ UNCHANGED <<at, shipVars>> /\ RunKeeps

Step ==
  \/ StartPlanner \/ PlannerAnswers \/ PlannerCallFails
  \/ StartSandbox \/ StartCoder
  \/ Coder
  \/ StartReviewer \/ ReviewerAnswers \/ ReviewerCallFails
  \/ Ship \/ Report

Next == Step \/ CoderRaises \/ Killed

Spec == Init /\ [][Next]_vars

\* Model calls and tools have time limits of their own.
FairSpec == Spec /\ WF_vars(Step)
-----------------------------------------------------------------------------
(* Properties. *)

\* A failed call costs time and often money and the budget never sees it; each
\* agent makes at most two of them per task.  The Coder's switch is once per
\* agent object, so the rerun has none left if the first run used it.  Yet "no
\* plan" and "review unavailable" are only said once the fallback model has
\* had its turn, if the environment offers one.
FallbackHasOneTurn ==
  /\ plan.end = "useless" => ~FallbackLeft("planner")
  /\ review.verdict = "unavailable" => ~FallbackLeft("reviewer")
  /\ failed["planner"] <= 2
  /\ failed["coder"] <= 2
  /\ failed["reviewer"] <=
       2 * (IF stage \in {"review", "dead"} THEN rounds + 1 ELSE rounds)

\* A run of the Coder that returns, whatever with, leaves all its calls but
\* the last one in run_steps.  A run that raises or crashes loses its own
\* calls, all of them, and none of an earlier run.
TraceLosesOneRun ==
  /\ past <= saved + 1
  /\ raised = "no" => made <= saved + listed + 1
  /\ stage \notin {"code", "rerun", "dead"} => listed = 0

\* Every file outside the plan that ships and is not named in the pull request
\* was changed by test runs alone, or a listed file has the same name: what
\* edit_file changed is named, in whichever run it did.  And a file the plan
\* listed, under any leading directories, is never named.
DeviationsAreReported ==
  pr # None /\ plan.files # {} =>
    /\ \A file \in (edited \union written) \ pr.deviations :
         \/ file \in written \ edited
         \/ \E path \in plan.files \ {<<>>} :
              path[Len(path)] = file[Len(file)]
    /\ \A file \in pr.deviations, path \in plan.files :
         ~\E n \in 1..Len(path) : SubSeq(path, n, Len(path)) = file

\* A rerun that fails leaves its edits in the tree and they ship.  Whoever
\* reads the pull request is then told that the review had objections.
UnreviewedEditsAreFlagged ==
  pr # None /\ pr.tree # best => pr.notes = "request_changes"

\* The Reviewer judges the tree as it is, unless git failed, and the last test
\* output there is, in the first round and after a rerun.
ReviewerSeesTheLatest ==
  stage = "review" => shown.diff \in {tree, None} /\ shown.tests = tested

\* No vendor is ever asked for another vendor's model, and no agent changes
\* vendors in mid conversation, provided that the names of the environment
\* stand beside the providers they belong to.
ClientsFitTheirVendors ==
  \A role \in Roles : client[role] # None =>
    /\ client[role].vendor = VendorFor(env, role)
    /\ WellNamed(env) /\ (FallbackFits(env, role) \/ FallbackLeft(role)) =>
         HomeOf[client[role].model] = client[role].vendor

\* The agents come to an end whatever the models answer.
TeamEnds == <>(stage \in {"closeSandbox", "dead"})

P == INSTANCE Pipeline WITH
  PlannerCalls <- 4, ReviewerCalls <- 2,
  pc <- stage, softHit <- FALSE, spent <- settled.steps, reviews <- rounds,
  tree <- settled.tree, diff <- shown.diff,
  pr <- IF pr = None THEN None ELSE [tree |-> pr.tree, notes |-> pr.notes],
  prUrl <- status = "completed",
  escaped <- IF raised = "escaped" THEN "agent" ELSE "nothing",
  row <- "running", rowUrl <- FALSE,
  held <- {"workspace"}, left <- {"workspace", "vectors"}, stuck <- {}

\* Every turn, round and stage of the agents is a step the run pipeline
\* allows: its budget, its review loop and its gate on the best result are
\* what run_planner, ReActAgent.run and run_reviewer really do.
ImplementsPipeline == [][P!Next]_(P!vars)
=============================================================================
