--------------------------- MODULE PipelineProofs ---------------------------
(***************************************************************************)
(* Proofs about Pipeline, for every budget, every number of review rounds  *)
(* and every number of calls a Planner or a Reviewer may make.             *)
(***************************************************************************)
EXTENDS Pipeline, TLAPS

\* Stages by what cannot have happened before them.
BeforePlan == {"fetch", "clone", "branch", "index", "plan"}
BeforeReview == BeforePlan \union {"sandbox", "setup", "code"}
BeforeSubmit == BeforeReview \union {"review", "rerun"}

\* Only a Planner that finds the budget untouched, a Coder that asks it and a
\* Reviewer whose round is counted spend anything.
Rounds ==
  /\ pc \in BeforePlan => spent = 0
  /\ pc \in BeforeReview => reviews = 0
  /\ pc = "review" => reviews < MaxReviewRounds

Budgeted == Rounds /\ SpendingIsBounded

\* An approval ends the rounds, so it is about the tree as it still is, and
\* whatever reaches the pull request is the last verdict given.
Judged ==
  /\ pc \in BeforeReview \union {"review"} => review.verdict # "approve"
  /\ pc = "rerun" => review.verdict = "request_changes"
  /\ pc = "review" => diff \in {tree, None}
  /\ pc = "submit" /\ review.verdict = "approve" => review.of \in {tree, None}
  /\ review.verdict = "unset" =>
       reviews <= 1 /\ (pc \in BeforeSubmit => reviews = 0)
  /\ pc \in BeforeSubmit \union {"submit"} => pr = None
  /\ pr # None => pr.notes = review.verdict
  /\ pr # None /\ pr.notes = "approve" => review.of \in {pr.tree, None}

\* The pull request, the local result and the row agree, but for a run that
\* ended in the middle of submitting or reporting.
Shipped ==
  /\ pc \in BeforeReview => best = None
  /\ pc \in {"review", "rerun", "submit"} => best # None
  /\ pc \in BeforeSubmit \union {"submit"} => pr = None /\ ~prUrl
  /\ pr # None => best # None
  /\ prUrl => pr # None
  /\ pc = "report" /\ pr # None => prUrl
  /\ pr # None /\ ~prUrl /\ pc \in Cleanup \union {"done", "raised"} =>
       \/ status = "github_error"
       \/ status = "error" /\ escaped = "submit"

\* The status a run ends with tells what became of a completed fix.
Told ==
  /\ status = "completed" => prUrl
  /\ prUrl =>
       \/ status = "completed" /\ pc \in Cleanup \union Ended \union {"report"}
       \/ status = "error" /\ escaped = "report"
  /\ best # None /\ pc \in Cleanup \union {"report", "done", "raised"} =>
       \/ status \in {"completed", "no_changes", "github_error"}
       \/ /\ status = "error"
          /\ escaped \in {"review", "rerun", "submit", "report"}

\* What the row says, once the last stage has updated it.
Recorded ==
  /\ row = "completed" => rowUrl /\ pr # None
  /\ rowUrl /\ row # "completed" => row = "error" /\ escaped = "report"
  /\ rowUrl => pc \in {"done", "dead"}
  /\ row = "completed" => pc \in {"done", "dead"}

Consistent == Shipped /\ Told /\ Recorded

\* Everything on the host that the run can name is named, until its clean-up
\* step.
Accounted ==
  /\ pc \in Working \ {"fetch", "clone"} => "workspace" \in held
  /\ "workspace" \in left \/ "vectors" \in left => "workspace" \in held
  /\ "container" \in left => {"sandbox", "container"} \subseteq held
  /\ pc \in {"dropVectors", "removeWorkspace", "updateRow", "done"} =>
       left \intersect {"container"} \subseteq stuck
  /\ pc \in {"removeWorkspace", "updateRow", "done"} =>
       left \intersect {"vectors"} \subseteq stuck
  /\ pc \in {"updateRow", "done"} =>
       left \intersect {"workspace"} \subseteq stuck

Inv == TypeOK /\ Budgeted /\ Judged /\ Consistent /\ Accounted

-----------------------------------------------------------------------------
\* Nothing has happened yet.
LEMMA InitInv == Init => Inv
<1> SUFFICES ASSUME Init PROVE Inv
  OBVIOUS
<1>1. TypeOK
  BY DEF Init, TypeOK, Working, Cleanup, Ended, AgentStatuses, Statuses,
         Verdicts, Resources, NoReview, Versions
<1>2. Budgeted
  BY PipelineAssumption
     DEF Init, Budgeted, Rounds, SpendingIsBounded, Larger,
         BeforePlan, BeforeReview
<1>3. Judged
  BY DEF Init, Judged, NoReview, BeforePlan, BeforeReview, BeforeSubmit
<1>4. Consistent
  BY DEF Init, Consistent, Shipped, Told, Recorded, BeforePlan, BeforeReview,
         BeforeSubmit, Cleanup
<1>5. Accounted
  BY DEF Init, Accounted, Working
<1> QED
  BY <1>1, <1>2, <1>3, <1>4, <1>5 DEF Inv

\* What a step does to anything but the soft limit's own flag.
LEMMA StepCases ==
  [Next]_vars =>
    \/ Fetch \/ Clone \/ CreateBranch \/ Index \/ Plan \/ StartSandbox
    \/ SetUpCoder \/ CoderTurn \/ CoderStops \/ CoderCallFails \/ Review
    \/ ReviewRaises \/ Submit \/ SubmitFails \/ Report \/ CloseSandbox
    \/ DropVectors \/ RemoveWorkspace \/ UpdateRow \/ Escapes
    \/ CoderRaises \/ CleanupRaises \/ Swallowed \/ ReviewBreaksOff
    \/ Killed \/ UNCHANGED vars
  BY DEF Next, Step, Coder, Finally, Unexpected, SoftLimit

\* What a sandbox may do to the host stays within the types.
LEMMA ContainersTypeOK ==
  ASSUME TypeOK, HasContainer \/ HasNoContainer
  PROVE  /\ held' \subseteq {"workspace", "sandbox", "container"}
         /\ left' \subseteq Resources
<1>1. held' \subseteq held \union {"sandbox", "container"}
  BY DEF HasContainer, HasNoContainer
<1>2. left' \subseteq left \union {"container", "stray"}
  BY DEF HasContainer, HasNoContainer
<1> QED
  BY <1>1, <1>2 DEF TypeOK, Resources

\* Every step keeps the types.
LEMMA NextTypeOK == TypeOK /\ [Next]_vars => TypeOK'
<1> SUFFICES ASSUME TypeOK, [Next]_vars PROVE TypeOK'
  OBVIOUS
<1>0. softHit' \in BOOLEAN
  BY DEF TypeOK, Next, Step, SoftLimit, Killed, vars
<1> USE <1>0, PipelineAssumption
    DEF TypeOK, Working, Cleanup, Ended, AgentStatuses, Statuses, Verdicts,
        Resources, Versions, Goto, EndAs, Fail, Escape, Spend, agentVars,
        codeVars, resultVars, rowVars, hostVars
<1>1. CASE Fetch
  BY <1>1 DEF Fetch
<1>2. CASE Clone
  <2>1. held' \subseteq held \union {"workspace"}
    BY <1>2 DEF Clone
  <2>2. left' \subseteq left \union {"workspace"}
    BY <1>2 DEF Clone
  <2>3. pc' \in Working \union Cleanup /\ status' \in Statuses
    BY <1>2 DEF Clone
  <2>5. UNCHANGED escaped
    BY <1>2 DEF Clone
  <2>4. UNCHANGED <<agentVars, codeVars, pr, prUrl, rowVars, stuck>>
    BY <1>2 DEF Clone
  <2> QED
    BY <2>1, <2>2, <2>3, <2>4, <2>5
<1>3. CASE CreateBranch
  BY <1>3 DEF CreateBranch
<1>4. CASE Index
  BY <1>4 DEF Index
<1>5. CASE Plan
  BY <1>5 DEF Plan
<1>6. CASE StartSandbox
  <2>1. held' \subseteq {"workspace", "sandbox", "container"}
    BY <1>6, ContainersTypeOK DEF StartSandbox
  <2>2. left' \subseteq Resources
    BY <1>6, ContainersTypeOK DEF StartSandbox
  <2>3. pc' \in Working \union Cleanup /\ status' \in Statuses
    BY <1>6 DEF StartSandbox
  <2>4. UNCHANGED <<agentVars, codeVars, pr, prUrl, escaped, rowVars, stuck>>
    BY <1>6 DEF StartSandbox
  <2> QED
    BY <2>1, <2>2, <2>3, <2>4
<1>7. CASE SetUpCoder
  BY <1>7 DEF SetUpCoder
<1>8. CASE CoderTurn
  <2>1. tree' \in Nat /\ spent' = spent + 1
    BY <1>8 DEF CoderTurn, ToolsRun
  <2>2. best' \in {best, tree} /\ diff' \in {diff, tree, None}
    BY <1>8 DEF CoderTurn, CoderReturns, CaptureDiff
  <2>3. pc' \in Working /\ status' \in Statuses
    BY <1>8 DEF CoderTurn, CoderReturns, ReviewOrSubmit, Coding
  <2>4. UNCHANGED <<reviews, review, pr, prUrl, rowVars, stuck>>
    BY <1>8 DEF CoderTurn, CoderReturns
  <2>5. held' \subseteq {"workspace", "sandbox", "container"}
    BY <1>8, ContainersTypeOK DEF CoderTurn, ToolsRun
  <2>6. left' \subseteq Resources
    BY <1>8, ContainersTypeOK DEF CoderTurn, ToolsRun
  <2>7. UNCHANGED escaped
    BY <1>8 DEF CoderTurn, CoderReturns
  <2> QED
    BY <2>1, <2>2, <2>3, <2>4, <2>5, <2>6, <2>7
<1>9. CASE CoderStops
  BY <1>9 DEF CoderStops, CoderReturns, CaptureDiff, ReviewOrSubmit, Coding
<1>10. CASE CoderCallFails
  BY <1>10 DEF CoderCallFails, CoderReturns, CaptureDiff, ReviewOrSubmit,
     Coding
<1>11. CASE Review
  BY <1>11 DEF Review, ReviewCalls, AfterReview, Judgements
<1>12. CASE ReviewRaises
  BY <1>12 DEF ReviewRaises, ReviewCalls
<1>13. CASE Submit
  <2>1. pr' \in {pr, [tree |-> tree, notes |-> review.verdict]}
    BY <1>13 DEF Submit, OpenPullRequest, ReviewerNotes
  <2>2. prUrl' \in BOOLEAN
    BY <1>13 DEF Submit, OpenPullRequest, ReviewerNotes
  <2>3. pc' \in Working /\ status' \in Statuses
    BY <1>13 DEF Submit, OpenPullRequest, ReviewerNotes
  <2>4. UNCHANGED <<agentVars, codeVars, escaped, rowVars, hostVars>>
    BY <1>13 DEF Submit, OpenPullRequest, ReviewerNotes
  <2> QED
    BY <2>1, <2>2, <2>3, <2>4
<1>14. CASE SubmitFails
  BY <1>14 DEF SubmitFails, OpenPullRequest, ReviewerNotes
<1>15. CASE Report
  BY <1>15 DEF Report
<1>16. CASE CloseSandbox
  <2>1. left' \subseteq left /\ stuck' \subseteq stuck \union Resources
    BY <1>16 DEF CloseSandbox, Remove
  <2>2. pc' \in Cleanup \union Ended /\ UNCHANGED status
    BY <1>16 DEF CloseSandbox, Remove
  <2>3. UNCHANGED <<agentVars, codeVars, pr, prUrl, escaped, rowVars, held>>
    BY <1>16 DEF CloseSandbox, Remove
  <2> QED
    BY <2>1, <2>2, <2>3
<1>17. CASE DropVectors
  <2>1. left' \subseteq left /\ stuck' \subseteq stuck \union Resources
    BY <1>17 DEF DropVectors, Remove
  <2>2. pc' \in Cleanup \union Ended /\ UNCHANGED status
    BY <1>17 DEF DropVectors, Remove
  <2>3. UNCHANGED <<agentVars, codeVars, pr, prUrl, escaped, rowVars, held>>
    BY <1>17 DEF DropVectors, Remove
  <2> QED
    BY <2>1, <2>2, <2>3
<1>18. CASE RemoveWorkspace
  <2>1. left' \subseteq left /\ stuck' \subseteq stuck \union Resources
    BY <1>18 DEF RemoveWorkspace, Remove
  <2>2. pc' \in Cleanup \union Ended /\ UNCHANGED status
    BY <1>18 DEF RemoveWorkspace, Remove
  <2>3. UNCHANGED <<agentVars, codeVars, pr, prUrl, escaped, rowVars, held>>
    BY <1>18 DEF RemoveWorkspace, Remove
  <2> QED
    BY <2>1, <2>2, <2>3
<1>19. CASE UpdateRow
  BY <1>19 DEF UpdateRow
<1>20. CASE Escapes
  <2>1. pr' \in {pr, [tree |-> tree, notes |-> review.verdict]}
    BY <1>20 DEF Escapes, OpenPullRequest, ReviewerNotes
  <2>2. held' \subseteq held \union {"workspace"}
    BY <1>20 DEF Escapes, OpenPullRequest, ReviewerNotes
  <2>3. left' \subseteq left \union {"workspace"}
    BY <1>20 DEF Escapes, OpenPullRequest, ReviewerNotes
  <2>4. pc' \in Cleanup /\ status' \in Statuses /\ escaped' \in Working
    BY <1>20 DEF Escapes, OpenPullRequest, ReviewerNotes
  <2>5. UNCHANGED <<agentVars, codeVars, prUrl, rowVars, stuck>>
    BY <1>20 DEF Escapes, OpenPullRequest, ReviewerNotes
  <2> QED
    BY <2>1, <2>2, <2>3, <2>4, <2>5
<1>21. CASE CoderRaises
  <2>1. tree' \in Nat /\ spent' \in Nat
    BY <1>21 DEF CoderRaises, CoderRaising, ToolsRun
  <2>2. pc' \in Working \union Cleanup /\ status' \in Statuses
    BY <1>21 DEF CoderRaises
  <2>3. escaped' \in Working \union {"agent", "nothing"}
    BY <1>21 DEF CoderRaises
  <2>4. UNCHANGED <<reviews, best, diff, review, pr, prUrl, rowVars, stuck>>
    BY <1>21 DEF CoderRaises, CoderRaising
  <2>5. held' \subseteq {"workspace", "sandbox", "container"}
    BY <1>21, ContainersTypeOK DEF CoderRaises, CoderRaising, ToolsRun
  <2>6. left' \subseteq Resources
    BY <1>21, ContainersTypeOK DEF CoderRaises, CoderRaising, ToolsRun
  <2> QED
    BY <2>1, <2>2, <2>3, <2>4, <2>5, <2>6
<1>22. CASE CleanupRaises
  BY <1>22 DEF CleanupRaises
<1>23. CASE Swallowed
  BY <1>23 DEF Swallowed
<1>24. CASE ReviewBreaksOff
  BY <1>24 DEF ReviewBreaksOff, ReviewCalls, Judgements
<1>25. CASE Killed
  BY <1>25 DEF Killed
<1>26. CASE UNCHANGED vars
  BY <1>26 DEF vars
<1> QED
  BY <1>1, <1>2, <1>3, <1>4, <1>5, <1>6, <1>7, <1>8, <1>9, <1>10, <1>11,
     <1>12, <1>13, <1>14, <1>15, <1>16, <1>17, <1>18, <1>19, <1>20, <1>21,
     <1>22, <1>23, <1>24, <1>25, <1>26, StepCases

\* Every step keeps the rounds and what is spent before them.
LEMMA NextRounds == TypeOK /\ Rounds /\ [Next]_vars => Rounds'
<1> SUFFICES ASSUME TypeOK, Rounds, [Next]_vars PROVE Rounds'
  OBVIOUS
<1> USE DEF Rounds, BeforePlan, BeforeReview, Goto, EndAs, Fail, Escape, Spend,
        agentVars
<1>1. CASE Fetch
  BY <1>1 DEF Fetch
<1>2. CASE Clone
  BY <1>2 DEF Clone
<1>3. CASE CreateBranch
  BY <1>3 DEF CreateBranch
<1>4. CASE Index
  BY <1>4 DEF Index
<1>5. CASE Plan
  BY <1>5 DEF Plan
<1>6. CASE StartSandbox
  BY <1>6 DEF StartSandbox, HasContainer, HasNoContainer
<1>7. CASE SetUpCoder
  BY <1>7 DEF SetUpCoder
<1>8. CASE CoderTurn
  BY <1>8 DEF CoderTurn, ToolsRun, HasContainer, HasNoContainer, CoderReturns,
     CaptureDiff, ReviewOrSubmit, Coding
<1>9. CASE CoderStops
  BY <1>9 DEF CoderStops, CoderReturns, CaptureDiff, ReviewOrSubmit, Coding
<1>10. CASE CoderCallFails
  BY <1>10 DEF CoderCallFails, CoderReturns, CaptureDiff, ReviewOrSubmit,
     Coding
<1>11. CASE Review
  BY <1>11 DEF Review, ReviewCalls, AfterReview, Judgements
<1>12. CASE ReviewRaises
  BY <1>12 DEF ReviewRaises, ReviewCalls
<1>13. CASE Submit
  BY <1>13 DEF Submit, OpenPullRequest, ReviewerNotes
<1>14. CASE SubmitFails
  BY <1>14 DEF SubmitFails, OpenPullRequest, ReviewerNotes
<1>15. CASE Report
  BY <1>15 DEF Report
<1>16. CASE CloseSandbox
  BY <1>16 DEF CloseSandbox, Remove
<1>17. CASE DropVectors
  BY <1>17 DEF DropVectors, Remove
<1>18. CASE RemoveWorkspace
  BY <1>18 DEF RemoveWorkspace, Remove
<1>19. CASE UpdateRow
  BY <1>19 DEF UpdateRow
<1>20. CASE Escapes
  BY <1>20 DEF Escapes, OpenPullRequest, ReviewerNotes
<1>21. CASE CoderRaises
  BY <1>21 DEF CoderRaises, CoderRaising, ToolsRun, HasContainer,
     HasNoContainer, Coding
<1>22. CASE CleanupRaises
  BY <1>22 DEF CleanupRaises
<1>23. CASE Swallowed
  BY <1>23 DEF Swallowed
<1>24. CASE ReviewBreaksOff
  BY <1>24 DEF ReviewBreaksOff, ReviewCalls, Judgements
<1>25. CASE Killed
  BY <1>25 DEF Killed
<1>26. CASE UNCHANGED vars
  BY <1>26 DEF vars
<1> QED
  BY <1>1, <1>2, <1>3, <1>4, <1>5, <1>6, <1>7, <1>8, <1>9, <1>10, <1>11,
     <1>12, <1>13, <1>14, <1>15, <1>16, <1>17, <1>18, <1>19, <1>20, <1>21,
     <1>22, <1>23, <1>24, <1>25, <1>26, StepCases

\* Every step keeps the budget.
LEMMA NextBudgeted == TypeOK /\ Budgeted /\ [Next]_vars => Budgeted'
<1> SUFFICES ASSUME TypeOK, Budgeted, [Next]_vars PROVE Budgeted'
  OBVIOUS
<1> DEFINE Bound == Larger(MaxSteps, PlannerCalls)
<1>1. MaxSteps <= Bound /\ PlannerCalls <= Bound /\ Bound \in Nat
  BY PipelineAssumption DEF Larger
<1>2. ReviewerCalls * (reviews + 1) = ReviewerCalls * reviews + ReviewerCalls
  BY PipelineAssumption DEF TypeOK
<1>3. ReviewerCalls * reviews \in Nat
  BY PipelineAssumption DEF TypeOK
<1>4. SpendingIsBounded'
  <2>1. CASE UNCHANGED <<spent, reviews>>
    BY <2>1 DEF Budgeted, SpendingIsBounded
  <2>2. CASE Plan
    <3>1. PICK k \in 0..PlannerCalls : spent' = spent + k
      BY <2>2 DEF Plan, Spend
    <3>2. spent = 0 /\ UNCHANGED reviews
      BY <2>2 DEF Plan, Budgeted, Rounds, BeforePlan
    <3>3. spent' <= Bound + ReviewerCalls * reviews
      BY <1>1, <1>3, <3>1, <3>2, PipelineAssumption
    <3> QED
      BY <3>2, <3>3 DEF Budgeted, SpendingIsBounded
  <2>3. CASE (CoderTurn \/ CoderRaises) /\ spent' # spent
    <3>1. spent < MaxSteps /\ spent' = spent + 1 /\ UNCHANGED reviews
      BY <2>3 DEF CoderTurn, CoderReturns, CoderRaises, CoderRaising, Spend
    <3>2. spent' <= Bound + ReviewerCalls * reviews
      BY <1>1, <1>3, <3>1, PipelineAssumption DEF TypeOK
    <3> QED
      BY <3>1, <3>2 DEF Budgeted, SpendingIsBounded
  <2>4. CASE ReviewCalls
    <3>1. PICK k \in 0..ReviewerCalls : spent' = spent + k
      BY <2>4 DEF ReviewCalls, Spend
    <3>2. reviews' = reviews + 1 /\ reviews < MaxReviewRounds
      BY <2>4 DEF ReviewCalls, Budgeted, Rounds
    <3>3. spent <= Bound + ReviewerCalls * reviews
      BY DEF Budgeted, SpendingIsBounded
    <3>4. spent' <= Bound + ReviewerCalls * reviews + ReviewerCalls
      BY <1>1, <1>3, <3>1, <3>3, PipelineAssumption DEF TypeOK
    <3>5. spent' <= Bound + ReviewerCalls * reviews'
      BY <1>1, <1>2, <1>3, <3>2, <3>4, PipelineAssumption
    <3>6. reviews' <= MaxReviewRounds
      BY <3>2, PipelineAssumption DEF TypeOK
    <3> QED
      BY <3>5, <3>6 DEF SpendingIsBounded
  <2>5. \/ UNCHANGED <<spent, reviews>>
        \/ Plan \/ CoderTurn \/ CoderRaises \/ ReviewCalls
    BY StepCases
       DEF Fetch, Clone, CreateBranch, Index, StartSandbox, SetUpCoder,
           CoderStops, CoderCallFails, CoderReturns, Review, ReviewRaises,
           Submit, SubmitFails, Report, CloseSandbox, DropVectors,
           RemoveWorkspace, UpdateRow, Remove, Escapes, CleanupRaises,
           Swallowed, ReviewBreaksOff, Killed, agentVars, vars
  <2>6. CoderTurn \/ CoderRaises => UNCHANGED reviews
    BY DEF CoderTurn, CoderReturns, CoderRaises, CoderRaising
  <2> QED
    BY <2>1, <2>2, <2>3, <2>4, <2>5, <2>6
<1>5. Rounds'
  BY NextRounds DEF Budgeted
<1> QED
  BY <1>4, <1>5 DEF Budgeted

\* Every step keeps the verdict, what it is about and what ships together.
LEMMA NextJudged ==
  TypeOK /\ Budgeted /\ Judged /\ [Next]_vars => Judged'
<1> SUFFICES ASSUME TypeOK, Budgeted, Judged, [Next]_vars PROVE Judged'
  OBVIOUS
<1> USE DEF Judged, BeforePlan, BeforeReview, BeforeSubmit, Cleanup, Ended,
        Goto, EndAs, Fail, Escape, agentVars, codeVars, resultVars
<1>1. CASE Fetch
  BY <1>1 DEF Fetch
<1>2. CASE Clone
  BY <1>2 DEF Clone
<1>3. CASE CreateBranch
  BY <1>3 DEF CreateBranch
<1>4. CASE Index
  BY <1>4 DEF Index
<1>5. CASE Plan
  BY <1>5 DEF Plan
<1>6. CASE StartSandbox
  BY <1>6 DEF StartSandbox, HasContainer, HasNoContainer
<1>7. CASE SetUpCoder
  BY <1>7 DEF SetUpCoder
<1>8. CASE CoderTurn
  BY <1>8 DEF CoderTurn, ToolsRun, HasContainer, HasNoContainer, CoderReturns,
     CaptureDiff, ReviewOrSubmit, Coding
<1>9. CASE CoderStops
  BY <1>9 DEF CoderStops, CoderReturns, CaptureDiff, ReviewOrSubmit, Coding
<1>10. CASE CoderCallFails
  BY <1>10 DEF CoderCallFails, CoderReturns, CaptureDiff, ReviewOrSubmit,
     Coding
<1>11. CASE Review
  BY <1>11 DEF Review, ReviewCalls, AfterReview, Judgements
<1>12. CASE ReviewRaises
  BY <1>12 DEF ReviewRaises, ReviewCalls
<1>13. CASE Submit
  BY <1>13 DEF Submit, OpenPullRequest, ReviewerNotes
<1>14. CASE SubmitFails
  BY <1>14 DEF SubmitFails, OpenPullRequest, ReviewerNotes
<1>15. CASE Report
  BY <1>15 DEF Report
<1>16. CASE CloseSandbox
  BY <1>16 DEF CloseSandbox, Remove
<1>17. CASE DropVectors
  BY <1>17 DEF DropVectors, Remove
<1>18. CASE RemoveWorkspace
  BY <1>18 DEF RemoveWorkspace, Remove
<1>19. CASE UpdateRow
  BY <1>19 DEF UpdateRow
<1>20. CASE Escapes
  BY <1>20 DEF Escapes, OpenPullRequest, ReviewerNotes
<1>21. CASE CoderRaises
  BY <1>21 DEF CoderRaises, CoderRaising, ToolsRun, HasContainer,
     HasNoContainer, Coding
<1>22. CASE CleanupRaises
  BY <1>22 DEF CleanupRaises
<1>23. CASE Swallowed
  BY <1>23 DEF Swallowed
<1>24. CASE ReviewBreaksOff
  BY <1>24 DEF ReviewBreaksOff, ReviewCalls, Judgements
<1>25. CASE Killed
  BY <1>25 DEF Killed
<1>26. CASE UNCHANGED vars
  BY <1>26 DEF vars
<1> QED
  BY <1>1, <1>2, <1>3, <1>4, <1>5, <1>6, <1>7, <1>8, <1>9, <1>10, <1>11,
     <1>12, <1>13, <1>14, <1>15, <1>16, <1>17, <1>18, <1>19, <1>20, <1>21,
     <1>22, <1>23, <1>24, <1>25, <1>26, StepCases

\* Every step keeps the pull request, the result and the row in agreement.
LEMMA NextConsistent == TypeOK /\ Consistent /\ [Next]_vars => Consistent'
<1> SUFFICES ASSUME TypeOK, Consistent, [Next]_vars PROVE Consistent'
  OBVIOUS
<1> USE PipelineAssumption
    DEF Consistent, Shipped, Told, Recorded, BeforePlan, BeforeReview,
        BeforeSubmit, Cleanup, Ended, Goto, EndAs, Fail, Escape, agentVars,
        codeVars, resultVars, rowVars
<1>1. CASE Fetch
  BY <1>1 DEF Fetch
<1>2. CASE Clone
  BY <1>2 DEF Clone
<1>3. CASE CreateBranch
  BY <1>3 DEF CreateBranch
<1>4. CASE Index
  BY <1>4 DEF Index
<1>5. CASE Plan
  BY <1>5 DEF Plan
<1>6. CASE StartSandbox
  BY <1>6 DEF StartSandbox, HasContainer, HasNoContainer
<1>7. CASE SetUpCoder
  BY <1>7 DEF SetUpCoder
<1>8. CASE CoderTurn
  <2>1. best' \in {best, tree} /\ tree # None
    BY <1>8 DEF CoderTurn, CoderReturns, TypeOK
  <2>2. UNCHANGED <<pr, prUrl, rowVars>>
    BY <1>8 DEF CoderTurn, CoderReturns
  <2>3. pc \in {"code", "rerun"}
    BY <1>8 DEF CoderTurn, Coding
  <2>4. \/ pc' = pc /\ UNCHANGED <<best, status>>
        \/ pc' \in {"review", "submit"} /\ best' = tree /\ UNCHANGED status
        \/ /\ pc = "code" /\ pc' = "report" /\ UNCHANGED best
           /\ status' \in {"refused", "max_tokens", "provider_error"}
        \/ pc = "rerun" /\ pc' = "submit" /\ UNCHANGED <<best, status>>
    BY <1>8 DEF CoderTurn, CoderReturns, ReviewOrSubmit, Coding
  <2> QED
    BY <2>1, <2>2, <2>3, <2>4
<1>9. CASE CoderStops
  BY <1>9 DEF CoderStops, CoderReturns, CaptureDiff, ReviewOrSubmit, Coding
<1>10. CASE CoderCallFails
  BY <1>10 DEF CoderCallFails, CoderReturns, CaptureDiff, ReviewOrSubmit,
     Coding
<1>11. CASE Review
  BY <1>11 DEF Review, ReviewCalls, AfterReview, Judgements
<1>12. CASE ReviewRaises
  BY <1>12 DEF ReviewRaises, ReviewCalls
<1>13. CASE Submit
  <2>1. UNCHANGED <<best, rowVars, escaped>> /\ pc' = "report"
    BY <1>13 DEF Submit
  <2>2. best # None /\ pr = None /\ ~prUrl /\ ~rowUrl /\ row # "completed"
    BY <1>13 DEF Submit
  <2>3. Recorded'
    BY <2>1, <2>2
  <2>4. CASE status' = "no_changes"
    <3>1. UNCHANGED <<pr, prUrl>>
      BY <1>13, <2>4 DEF Submit
    <3>2. pr' = None /\ ~prUrl'
      BY <2>2, <3>1
    <3> QED
      BY <2>1, <2>2, <2>3, <2>4, <3>2
  <2>5. CASE status' = "completed"
    <3>1. pr' = [tree |-> tree, notes |-> review.verdict] /\ prUrl'
      BY <1>13, <2>5 DEF Submit, OpenPullRequest, ReviewerNotes
    <3>2. tree \in Nat /\ review.verdict \in Verdicts
      BY DEF TypeOK
    <3>3. pr' # None
      BY <3>1, <3>2, PipelineAssumption
    <3>4. prUrl'
      BY <3>1
    <3> QED
      BY <2>1, <2>2, <2>3, <2>5, <3>3, <3>4
  <2> QED
    BY <1>13, <2>4, <2>5 DEF Submit
<1>14. CASE SubmitFails
  BY <1>14 DEF SubmitFails, OpenPullRequest, ReviewerNotes
<1>15. CASE Report
  BY <1>15 DEF Report
<1>16. CASE CloseSandbox
  BY <1>16 DEF CloseSandbox, Remove
<1>17. CASE DropVectors
  BY <1>17 DEF DropVectors, Remove
<1>18. CASE RemoveWorkspace
  BY <1>18 DEF RemoveWorkspace, Remove
<1>19. CASE UpdateRow
  BY <1>19 DEF UpdateRow
<1>20. CASE Escapes
  <2>1. /\ UNCHANGED <<best, prUrl, rowVars>> /\ pc' = "closeSandbox"
        /\ status' = "error" /\ escaped' = pc /\ pc \in Working
    BY <1>20 DEF Escapes
  <2>2. pr' = pr \/ pc = "submit"
    BY <1>20 DEF Escapes
  <2>3. prUrl => pc = "report" /\ pr # None /\ pr' = pr
    BY <2>1, <2>2 DEF Working
  <2>4. pr # None => best # None /\ pr' = pr /\ prUrl
    BY <2>1, <2>2 DEF Working
  <2>5. best # None => pc \in {"review", "rerun", "submit", "report"}
    BY <2>1 DEF Working
  <2>6. pr' # None => best # None /\ (prUrl \/ pc = "submit")
    BY <2>2, <2>4
  <2>7. ~rowUrl /\ row # "completed"
    BY <2>1 DEF Working
  <2> QED
    BY <2>1, <2>3, <2>5, <2>6, <2>7
<1>21. CASE CoderRaises
  BY <1>21 DEF CoderRaises, CoderRaising, ToolsRun, HasContainer,
     HasNoContainer, Coding
<1>22. CASE CleanupRaises
  BY <1>22 DEF CleanupRaises
<1>23. CASE Swallowed
  BY <1>23 DEF Swallowed
<1>24. CASE ReviewBreaksOff
  BY <1>24 DEF ReviewBreaksOff, ReviewCalls, Judgements
<1>25. CASE Killed
  BY <1>25 DEF Killed
<1>26. CASE UNCHANGED vars
  BY <1>26 DEF vars
<1> QED
  BY <1>1, <1>2, <1>3, <1>4, <1>5, <1>6, <1>7, <1>8, <1>9, <1>10, <1>11,
     <1>12, <1>13, <1>14, <1>15, <1>16, <1>17, <1>18, <1>19, <1>20, <1>21,
     <1>22, <1>23, <1>24, <1>25, <1>26, StepCases

\* Every step keeps the host accounted for.
LEMMA NextAccounted == TypeOK /\ Accounted /\ [Next]_vars => Accounted'
<1> SUFFICES ASSUME TypeOK, Accounted, [Next]_vars PROVE Accounted'
  OBVIOUS
<1> USE DEF Accounted, Working, Cleanup, Ended, Goto, EndAs, Fail, Escape,
        hostVars
<1>1. CASE Fetch
  BY <1>1 DEF Fetch
<1>2. CASE Clone
  BY <1>2 DEF Clone
<1>3. CASE CreateBranch
  BY <1>3 DEF CreateBranch
<1>4. CASE Index
  BY <1>4 DEF Index
<1>5. CASE Plan
  BY <1>5 DEF Plan
<1>6. CASE StartSandbox
  BY <1>6 DEF StartSandbox, HasContainer, HasNoContainer
<1>7. CASE SetUpCoder
  BY <1>7 DEF SetUpCoder
<1>8. CASE CoderTurn
  BY <1>8 DEF CoderTurn, ToolsRun, HasContainer, HasNoContainer, CoderReturns,
     CaptureDiff, ReviewOrSubmit, Coding
<1>9. CASE CoderStops
  BY <1>9 DEF CoderStops, CoderReturns, CaptureDiff, ReviewOrSubmit, Coding
<1>10. CASE CoderCallFails
  BY <1>10 DEF CoderCallFails, CoderReturns, CaptureDiff, ReviewOrSubmit,
     Coding
<1>11. CASE Review
  BY <1>11 DEF Review, ReviewCalls, AfterReview, Judgements
<1>12. CASE ReviewRaises
  BY <1>12 DEF ReviewRaises, ReviewCalls
<1>13. CASE Submit
  BY <1>13 DEF Submit, OpenPullRequest, ReviewerNotes
<1>14. CASE SubmitFails
  BY <1>14 DEF SubmitFails, OpenPullRequest, ReviewerNotes
<1>15. CASE Report
  BY <1>15 DEF Report
<1>16. CASE CloseSandbox
  BY <1>16 DEF CloseSandbox, Remove
<1>17. CASE DropVectors
  BY <1>17 DEF DropVectors, Remove
<1>18. CASE RemoveWorkspace
  BY <1>18 DEF RemoveWorkspace, Remove
<1>19. CASE UpdateRow
  BY <1>19 DEF UpdateRow
<1>20. CASE Escapes
  BY <1>20 DEF Escapes, OpenPullRequest, ReviewerNotes
<1>21. CASE CoderRaises
  BY <1>21 DEF CoderRaises, CoderRaising, ToolsRun, HasContainer,
     HasNoContainer, Coding
<1>22. CASE CleanupRaises
  BY <1>22 DEF CleanupRaises
<1>23. CASE Swallowed
  BY <1>23 DEF Swallowed
<1>24. CASE ReviewBreaksOff
  BY <1>24 DEF ReviewBreaksOff, ReviewCalls, Judgements
<1>25. CASE Killed
  BY <1>25 DEF Killed
<1>26. CASE UNCHANGED vars
  BY <1>26 DEF vars
<1> QED
  BY <1>1, <1>2, <1>3, <1>4, <1>5, <1>6, <1>7, <1>8, <1>9, <1>10, <1>11,
     <1>12, <1>13, <1>14, <1>15, <1>16, <1>17, <1>18, <1>19, <1>20, <1>21,
     <1>22, <1>23, <1>24, <1>25, <1>26, StepCases

\* The invariant is inductive.
LEMMA NextInv == Inv /\ [Next]_vars => Inv'
  BY NextTypeOK, NextBudgeted, NextJudged, NextConsistent, NextAccounted
     DEF Inv

\* The invariant holds in every reachable state.
THEOREM Invariance == Spec => []Inv
  BY InitInv, NextInv, PTL DEF Spec

-----------------------------------------------------------------------------
\* The variables of a run keep their types through every stage and failure.
THEOREM TypeCorrectness == Spec => []TypeOK
  BY Invariance, PTL DEF Inv

\* However the three agents fail and retry, the total is bounded by the caps
\* and the reviews held (Budget.exhausted, the review loop).
THEOREM BoundedSpending == Spec => []SpendingIsBounded
<1>1. Inv => SpendingIsBounded
  BY DEF Inv, Budgeted
<1> QED
  BY <1>1, Invariance, PTL

\* A pull request that reads as approved ships what the Reviewer approved.
THEOREM ApprovalShips == Spec => []ApprovalIsOfWhatShips
<1>1. Inv => ApprovalIsOfWhatShips
  BY DEF Inv, Judged, ApprovalIsOfWhatShips
<1> QED
  BY <1>1, Invariance, PTL

\* No round that fails loses the verdict of an earlier one.
THEOREM VerdictsAreKept == Spec => []VerdictIsKept
<1>1. Inv => VerdictIsKept
  BY DEF Inv, Judged, VerdictIsKept
<1> QED
  BY <1>1, Invariance, PTL

\* A row that says completed has its pull request, and a pull request and a
\* row disagree only when the run failed while submitting or reporting it.
THEOREM CompletedIsShipped == Spec => []CompletedMeansShipped
<1>1. Inv => CompletedMeansShipped
  BY DEF Inv, Consistent, Shipped, Recorded, CompletedMeansShipped
<1> QED
  BY <1>1, Invariance, PTL

\* A completed fix survives whatever a review or a later run of the Coder
\* ends with, an exception of agent.run included; only an exception of
\* run_issue's own code between the try blocks of the review loop loses it.
THEOREM FixesSurvive == Spec => []GoodFixIsNotDiscarded
<1>1. Inv => GoodFixIsNotDiscarded
  BY DEF Inv, Consistent, Told, GoodFixIsNotDiscarded
<1> QED
  BY <1>1, Invariance, PTL

\* The finally block leaves only what it failed to remove, and containers
\* the sandbox has no id for.
THEOREM CleanExit == Spec => []NothingIsLeftBehind
<1>1. Inv => NothingIsLeftBehind
  BY DEF Inv, TypeOK, Accounted, NothingIsLeftBehind, Resources
<1> QED
  BY <1>1, Invariance, PTL
=============================================================================
