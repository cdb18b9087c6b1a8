-------------------------- MODULE AgentTeamProofs --------------------------
(***************************************************************************)
(* Proofs about AgentTeam and Providers, for every environment, any files  *)
(* and plans, any number of calls, tools and review rounds.                *)
(***************************************************************************)
EXTENDS AgentTeam, SequenceTheorems, TLAPS

CoderStages == {"code", "rerun"}
BeforeCode == {"plan", "sandbox", "setup"}

\* An agent holds no other client than its configured one and its fallback.
ClientsAreConfigured ==
  \A role \in Roles : client[role] # None =>
    /\ CanBuild(env, role)
    /\ client[role] \in {ClientFor(env, role), FallbackFor(env, role)}

\* The agents that ask a model have one.
AskersHaveClients ==
  /\ stage = "plan" /\ at # "start" => client["planner"] # None
  /\ stage \in CoderStages \union {"review"} => client["coder"] # None
  /\ stage = "review" /\ at # "start" => client["reviewer"] # None

\* 0 until the agent has left its configured model.
Switched(role) == IF client[role] = FallbackFor(env, role) THEN 1 ELSE 0

\* While an agent asks, a failed call is one that made it switch.
PlannerFailures ==
  stage = "plan" =>
    failed["planner"] <= IF at = "start" THEN 0 ELSE Switched("planner")

CoderFailures ==
  /\ stage \in BeforeCode => failed["coder"] = 0
  /\ stage \in CoderStages \union {"review"} =>
       failed["coder"] <= Switched("coder")

ReviewerFailures ==
  stage = "review" =>
    failed["reviewer"] <=
      2 * rounds + IF at = "start" THEN 0 ELSE Switched("reviewer")

\* A verdict that was given up on is the last one.
GivenUpLast ==
  /\ stage = "plan" => plan = NoPlan
  /\ plan.end = "useless" => ~FallbackLeft("planner")
  /\ stage \in BeforeCode \union {"code"} => review.verdict = "unset"
  /\ stage = "review" => review.verdict \in {"unset", "request_changes"}
  /\ stage = "rerun" => review.verdict = "request_changes"
  /\ review.verdict = "unavailable" => ~FallbackLeft("reviewer")

\* Between two answers every call of the Coder is among the steps, and no run
\* follows one that raised.
CallsAreListed ==
  /\ stage \in CoderStages => at \in {"ask", "tools"}
  /\ stage \in CoderStages /\ at = "ask" => made <= saved + listed
  /\ stage \in BeforeCode \union {"review"} => made <= saved
  /\ stage \in BeforeCode \union CoderStages \union {"review"} =>
       raised = "no"

\* Each changed file was compared with the plan.
EditsAreWatched ==
  /\ stage \in BeforeCode => edited = {} /\ deviations = {}
  /\ \A file \in deviations : Deviates(file)
  /\ \A file \in edited \ deviations : ~Deviates(file)

\* What is not the best result was edited in a rerun.
TreeIsBest ==
  /\ stage = "review" => tree = best
  /\ stage = "submit" => tree = best \/ review.verdict = "request_changes"

\* A pull request is the last thing a run opens.
PrIsLast ==
  pr # None =>
    /\ stage \in {"report", "closeSandbox", "dead"}
    /\ pr.tree = tree /\ pr.deviations = deviations
    /\ pr.notes = review.verdict
    /\ tree = best \/ review.verdict = "request_changes"

\* The calls and edits since the last turn, round or stage ended.
TurnsSettle ==
  /\ stage = "plan" =>
       /\ at \in {"start", "ask", "nudge"}
       /\ settled.steps <= steps /\ steps <= settled.steps +
            (IF at = "start" THEN 0 ELSE 2 * Switched("planner"))
            + (IF at = "nudge" THEN 1 ELSE 0)
  /\ stage = "review" =>
       /\ at \in {"start", "ask"}
       /\ settled.steps <= steps /\ steps <= settled.steps +
            (IF at = "start" THEN 0 ELSE Switched("reviewer"))
  /\ stage \in CoderStages =>
       IF at = "ask" THEN steps = settled.steps /\ tree = settled.tree
       ELSE /\ steps = settled.steps + 1
            /\ settled.steps < MaxSteps
            /\ tree \in {settled.tree, settled.tree + 1}
  /\ stage \notin {"plan", "review", "dead"} \union CoderStages =>
       steps = settled.steps
  /\ stage \notin {"dead"} \union CoderStages => tree = settled.tree

\* A run is only called completed once it has opened its pull request.
CompletedLast ==
  status = "completed" => stage \in {"report", "closeSandbox", "dead"}

Inv ==
  /\ TypeOK
  /\ ClientsAreConfigured
  /\ AskersHaveClients
  /\ PlannerFailures /\ CoderFailures /\ ReviewerFailures
  /\ FallbackHasOneTurn
  /\ GivenUpLast
  /\ CallsAreListed
  /\ TraceLosesOneRun
  /\ EditsAreWatched
  /\ TreeIsBest
  /\ PrIsLast
  /\ ReviewerSeesTheLatest
  /\ TurnsSettle
  /\ CompletedLast

-----------------------------------------------------------------------------
(* The clients of a role. *)

\* A role whose provider can be built has a client, and its fallback, if it
\* has one, is another.
LEMMA ClientsOfRoles ==
  ASSUME NEW e \in Environments, NEW role \in Roles, CanBuild(e, role)
  PROVE  /\ ClientFor(e, role) \in Clients /\ ClientFor(e, role) # None
         /\ FallbackFor(e, role) \in Clients \union {None}
         /\ FallbackFor(e, role) # ClientFor(e, role)
<1>1. VendorFor(e, role) \in Vendors
  BY DEF CanBuild, Resolvable
<1>2. ModelFor(e, role) \in Models
  <2>1. e.model \in ModelNames /\ e.roleModel[role] \in ModelNames
    BY DEF Environments
  <2>2. DefaultModel[VendorFor(e, role)] \in Models
    BY <1>1, ProvidersAssumption
  <2> QED
    BY <2>1, <2>2 DEF ModelFor, Inherited, OrElse, ModelNames
<1>3. FallbackModel(e, role) \in Models
  <2>1. e.fallback \in ModelNames
    BY DEF Environments
  <2>2. StableModel[VendorFor(e, role)] \in Models
    BY <1>1, ProvidersAssumption
  <2> QED
    BY <2>1, <2>2 DEF FallbackModel, OrElse, ModelNames
<1>4. ClientFor(e, role) \in Clients /\ ClientFor(e, role) # None
  BY <1>1, <1>2, ProvidersAssumption DEF ClientFor, Clients
<1>5. CASE FallbackModel(e, role) # ModelFor(e, role)
  <2>1. FallbackFor(e, role)
          = [vendor |-> VendorFor(e, role), model |-> FallbackModel(e, role)]
    BY <1>5 DEF FallbackFor
  <2> QED
    BY <1>1, <1>3, <1>4, <1>5, <2>1 DEF Clients, ClientFor
<1>6. CASE FallbackModel(e, role) = ModelFor(e, role)
  BY <1>4, <1>6 DEF FallbackFor
<1> QED
  BY <1>4, <1>5, <1>6

\* The configured client is asked for a model of its own vendor's, and so is
\* the fallback when LLM_FALLBACK_MODEL is the vendor's or not set.
LEMMA ClientsAreAtHome ==
  ASSUME NEW e \in Environments, NEW role \in Roles, CanBuild(e, role),
         NEW c \in {ClientFor(e, role), FallbackFor(e, role)}, c # None
  PROVE  /\ c.vendor = VendorFor(e, role)
         /\ WellNamed(e) /\ (FallbackFits(e, role) \/ c = ClientFor(e, role)) =>
              HomeOf[c.model] = c.vendor
<1>1. VendorFor(e, role) \in Vendors
  BY DEF CanBuild, Resolvable
<1>2. CASE c = ClientFor(e, role)
  <2>1. c.vendor = VendorFor(e, role) /\ c.model = ModelFor(e, role)
    BY <1>2 DEF ClientFor
  <2>2. WellNamed(e) => HomeOf[ModelFor(e, role)] = VendorFor(e, role)
    BY <1>1, ProvidersAssumption DEF WellNamed, ModelFor, Inherited, OrElse
  <2> QED
    BY <2>1, <2>2
<1>3. CASE c # ClientFor(e, role)
  <2>1. c = FallbackFor(e, role)
    BY <1>3
  <2>2. FallbackModel(e, role) # ModelFor(e, role)
    BY <2>1 DEF FallbackFor
  <2>3. c = [vendor |-> VendorFor(e, role), model |-> FallbackModel(e, role)]
    BY <2>1, <2>2 DEF FallbackFor
  <2>4. FallbackFits(e, role) =>
          HomeOf[FallbackModel(e, role)] = VendorFor(e, role)
    BY <1>1, ProvidersAssumption DEF FallbackFits, FallbackModel, OrElse
  <2> QED
    BY <1>3, <2>3, <2>4
<1> QED
  BY <1>2, <1>3

-----------------------------------------------------------------------------
(* The invariant holds at first. *)

\* The invariant holds before the first agent is asked.
LEMMA InitInv == Init => Inv
<1> SUFFICES ASSUME Init PROVE Inv
  OBVIOUS
<1> USE DEF Init, NoPlan, CoderStages, BeforeCode
<1>1. TypeOK
  BY TeamAssumption DEF TypeOK, Verdicts, Versions
<1>2. ClientsAreConfigured /\ AskersHaveClients
  BY DEF ClientsAreConfigured, AskersHaveClients
<1>3. /\ PlannerFailures /\ CoderFailures /\ ReviewerFailures
      /\ FallbackHasOneTurn /\ GivenUpLast
  BY DEF PlannerFailures, CoderFailures, ReviewerFailures, FallbackHasOneTurn,
         GivenUpLast, Roles
<1>4. CallsAreListed /\ TraceLosesOneRun
  BY DEF CallsAreListed, TraceLosesOneRun
<1>5. EditsAreWatched /\ TreeIsBest /\ PrIsLast /\ ReviewerSeesTheLatest
  BY DEF EditsAreWatched, TreeIsBest, PrIsLast, ReviewerSeesTheLatest
<1>6. TurnsSettle /\ CompletedLast
  BY DEF TurnsSettle, CompletedLast
<1> QED
  BY <1>1, <1>2, <1>3, <1>4, <1>5, <1>6 DEF Inv

-----------------------------------------------------------------------------
(* Types. *)

ClientMaps == [Roles -> Clients \union {None}]

\* An agent that is built holds its configured client.
LEMMA Building ==
  ASSUME env \in Environments, client \in ClientMaps,
         NEW role \in Roles, Build(role)
  PROVE  /\ client' \in ClientMaps
         /\ CanBuild(env, role)
         /\ client'[role] = ClientFor(env, role) /\ client'[role] # None
         /\ client'[role] # FallbackFor(env, role)
         /\ \A r \in Roles \ {role} : client'[r] = client[r]
<1>1. CanBuild(env, role)
  BY DEF Build
<1>2. ClientFor(env, role) \in Clients
  BY <1>1, ClientsOfRoles
<1> QED
  BY <1>1, <1>2, ClientsOfRoles DEF Build, ClientMaps

\* An agent that switches leaves its configured client for its fallback.
LEMMA Switching ==
  ASSUME env \in Environments, client \in ClientMaps,
         NEW role \in Roles, FallbackLeft(role), Switch(role)
  PROVE  /\ client' \in ClientMaps
         /\ CanBuild(env, role)
         /\ client[role] # FallbackFor(env, role)
         /\ client'[role] = FallbackFor(env, role) /\ client'[role] # None
         /\ client'[role] # ClientFor(env, role)
         /\ \A r \in Roles \ {role} : client'[r] = client[r]
<1>1. CanBuild(env, role)
  BY DEF FallbackLeft, FallbackFor
<1>2. FallbackFor(env, role) \in Clients
  BY <1>1, ClientsOfRoles DEF FallbackLeft
<1> QED
  BY <1>1, <1>2, ClientsOfRoles DEF FallbackLeft, Switch, ClientMaps

\* Each step leaves the state well formed.
LEMMA NextType == TypeOK /\ [Next]_vars => TypeOK'
<1> SUFFICES ASSUME TypeOK, [Next]_vars PROVE TypeOK'
  OBVIOUS
<1> USE DEF TypeOK, PullRequests, Verdicts, Versions, coderVars, traceVars,
            toolVars, shipVars, Goto, EndAs, Stay, Entry, Settle, Recorded,
            Unrecorded
<1>a. env \in Environments /\ client \in ClientMaps
  BY TeamAssumption DEF ClientMaps
<1>b. \A role \in Roles :
        [failed EXCEPT ![role] = @ + 1] \in [Roles -> Nat]
  OBVIOUS
<1>c. {"planner", "coder", "reviewer"} \subseteq Roles
  BY DEF Roles
<1>d. \A role \in Roles : Build(role) => client' \in ClientMaps
  BY <1>a, Building
<1>e. \A role \in Roles :
        FallbackLeft(role) /\ Switch(role) => client' \in ClientMaps
  BY <1>a, Switching
<1> USE DEF ClientMaps
<1>1. CASE StartPlanner
  BY <1>1, <1>c, <1>d
     DEF StartPlanner, Planning, PlannerKeeps, Planned
<1>2. CASE PlannerAnswers
  BY <1>2, <1>c, <1>e
     DEF PlannerAnswers, PlannerGivesUp, Planning, PlannerKeeps, Planned
<1>3. CASE PlannerCallFails
  BY <1>3, <1>b, <1>c, <1>e
     DEF PlannerCallFails, PlannerGivesUp, Planning, PlannerKeeps, Planned
<1>4. CASE StartSandbox
  BY <1>4 DEF StartSandbox
<1>5. CASE StartCoder
  BY <1>5, <1>c, <1>d DEF StartCoder
<1>6. CASE CoderStops \/ CoderRaises
  BY <1>6
     DEF CoderStops, CoderRaises, Coding, CoderReturns, Show, ToolsKeep,
         CoderKeeps
<1>7. CASE CoderCallFails
  BY <1>7, <1>b, <1>c, <1>e
     DEF CoderCallFails, CoderContinues, CoderReturns, Coding, Show, ToolsKeep,
         CoderKeeps
<1>8. CASE CoderAnswers
  <2>3. \/ \E r \in {"refused", "completed", "max_tokens", "provider_error"} :
             CoderReturns(r, listed) \/ CoderReturns(r, listed + 1)
        \/ CoderContinues(1) /\ Settle
    BY <1>8 DEF CoderAnswers
  <2> USE DEF CoderIsAnswered, Coding, ToolsKeep, CoderKeeps
  <2>1. ASSUME NEW r \in {"refused", "completed", "max_tokens",
                          "provider_error"},
               CoderReturns(r, listed) \/ CoderReturns(r, listed + 1)
        PROVE  TypeOK'
    <3>1. saved' \in Nat /\ listed' \in Nat
      BY <2>1 DEF CoderReturns
    <3> QED
      BY <1>8, <2>1, <3>1 DEF CoderAnswers, CoderReturns, Show
  <2>2. CASE CoderContinues(1) /\ Settle
    BY <1>8, <2>2 DEF CoderAnswers, CoderContinues
  <2> QED
    BY <2>1, <2>2, <2>3
<1>9. CASE CoderAsksForTools
  <2>1. todo' \in 1..MaxCalls
    BY <1>9 DEF CoderAsksForTools
  <2>2. todo' \in Nat
    BY <2>1, TeamAssumption
  <2> QED
    BY <1>9, <2>2 DEF CoderAsksForTools, CoderIsAnswered, Coding, CoderKeeps
<1>10. ASSUME NEW file \in Files, Edit(file) PROVE TypeOK'
  BY <1>10 DEF Edit, Dispatches, Coding, CoderKeeps
<1>11. CASE RunTests
  BY <1>11 DEF RunTests, Dispatches, Coding, CoderKeeps
<1>12. CASE Look
  BY <1>12 DEF Look, Dispatches, Coding, CoderKeeps
<1>13. CASE ReturnResults
  BY <1>13
     DEF ReturnResults, CoderContinues, CoderReturns, Coding, Show, ToolsKeep,
         CoderKeeps
<1>14. CASE StartReviewer
  BY <1>14, <1>c, <1>d
     DEF StartReviewer, Reviewing, ReviewerKeeps, ReviewSkipped, RoundEnds
<1>15. CASE ReviewerAnswers
  BY <1>15, <1>c, <1>e
     DEF ReviewerAnswers, ReviewerGivesUp, Reviewing, ReviewerKeeps, Reviewed,
         RoundEnds
<1>16. CASE ReviewerCallFails
  BY <1>16, <1>b, <1>c, <1>e
     DEF ReviewerCallFails, ReviewerGivesUp, Reviewing, ReviewerKeeps,
         Reviewed, ReviewSkipped, RoundEnds
<1>17. CASE Ship
  BY <1>17 DEF Ship, RunKeeps
<1>18. CASE Report \/ Killed
  BY <1>18 DEF Report, Killed, RunKeeps
<1>19. CASE UNCHANGED vars
  BY <1>19 DEF vars
<1> QED
  BY <1>1, <1>2, <1>3, <1>4, <1>5, <1>6, <1>7, <1>8, <1>9, <1>10, <1>11, <1>12,
     <1>13, <1>14, <1>15, <1>16, <1>17, <1>18, <1>19
     DEF Next, Step, Coder

-----------------------------------------------------------------------------
(* Clients and failures. *)

\* What Build and Switch do to the client of a role.
LEMMA ClientMoves ==
  ASSUME TypeOK
  PROVE  \A role \in Roles :
           /\ Build(role) =>
                /\ CanBuild(env, role)
                /\ client'[role] = ClientFor(env, role)
                /\ client'[role] # None
                /\ client'[role] # FallbackFor(env, role)
                /\ \A r \in Roles \ {role} : client'[r] = client[r]
           /\ FallbackLeft(role) /\ Switch(role) =>
                /\ CanBuild(env, role)
                /\ client[role] # FallbackFor(env, role)
                /\ client'[role] = FallbackFor(env, role)
                /\ client'[role] # None
                /\ client'[role] # ClientFor(env, role)
                /\ \A r \in Roles \ {role} : client'[r] = client[r]
<1>1. env \in Environments /\ client \in ClientMaps
  BY TeamAssumption DEF TypeOK, ClientMaps
<1> QED
  BY <1>1, Building, Switching

\* The roles are the three agents.
LEMMA RolesAre ==
  /\ "planner" \in Roles /\ "coder" \in Roles /\ "reviewer" \in Roles
  /\ "planner" # "coder" /\ "planner" # "reviewer" /\ "coder" # "reviewer"
  BY DEF Roles

\* Whoever changes a client builds it or switches to the fallback.
LEMMA NextClients ==
  ASSUME TypeOK, ClientsAreConfigured, [Next]_vars
  PROVE  ClientsAreConfigured'
<1> USE DEF ClientsAreConfigured
<1>1. CASE StartPlanner \/ PlannerAnswers \/ PlannerCallFails
  BY <1>1, ClientMoves, RolesAre
     DEF Planning, PlannerKeeps, Planned, PlannerGivesUp, StartPlanner,
         PlannerAnswers, PlannerCallFails
<1>2. CASE StartSandbox \/ StartCoder
  BY <1>2, ClientMoves, RolesAre
     DEF StartSandbox, StartCoder
<1>3. CASE CoderStops \/ CoderRaises
  BY <1>3, ClientMoves, RolesAre
     DEF CoderStops, CoderRaises, CoderReturns, Show, Coding, CoderKeeps,
         ToolsKeep
<1>4. CASE CoderCallFails
  BY <1>4, ClientMoves, RolesAre
     DEF CoderCallFails, CoderContinues, CoderReturns, Show, Coding,
         CoderKeeps, ToolsKeep
<1>5. CASE CoderAnswers
  BY <1>5, ClientMoves, RolesAre
     DEF CoderAnswers, CoderIsAnswered, CoderContinues, CoderReturns, Show,
         Coding, CoderKeeps, ToolsKeep
<1>6. CASE CoderAsksForTools
  BY <1>6, ClientMoves, RolesAre
     DEF CoderAsksForTools, CoderIsAnswered, Coding, CoderKeeps, ToolsKeep
<1>7. CASE \E file \in Files : Edit(file)
  BY <1>7, ClientMoves, RolesAre
     DEF Edit, Dispatches, Coding, CoderKeeps, ToolsKeep
<1>8. CASE RunTests \/ Look
  BY <1>8, ClientMoves, RolesAre
     DEF RunTests, Look, Dispatches, Coding, CoderKeeps, ToolsKeep
<1>9. CASE ReturnResults
  BY <1>9, ClientMoves, RolesAre
     DEF ReturnResults, CoderContinues, CoderReturns, Show, Coding, CoderKeeps,
         ToolsKeep
<1>10. CASE StartReviewer \/ ReviewerAnswers \/ ReviewerCallFails
  BY <1>10, ClientMoves, RolesAre
     DEF Reviewing, ReviewerKeeps, Reviewed, ReviewSkipped, RoundEnds,
         ReviewerGivesUp, StartReviewer, ReviewerAnswers, ReviewerCallFails
<1>11. CASE Ship \/ Report \/ Killed
  BY <1>11, ClientMoves, RolesAre
     DEF Ship, Report, Killed, RunKeeps
<1>12. CASE UNCHANGED vars
  BY <1>12, ClientMoves, RolesAre
     DEF vars
<1> QED
  BY <1>1, <1>2, <1>3, <1>4, <1>5, <1>6, <1>7, <1>8, <1>9, <1>10, <1>11, <1>12
     DEF Next, Step, Coder

\* An agent only asks after it was built.
LEMMA NextAskers ==
  ASSUME TypeOK, AskersHaveClients, [Next]_vars
  PROVE  AskersHaveClients'
<1> USE DEF AskersHaveClients, CoderStages, coderVars, traceVars, toolVars,
            shipVars, Goto, EndAs, Stay, Entry
<1>1. CASE StartPlanner \/ PlannerAnswers \/ PlannerCallFails
  BY <1>1, ClientMoves, RolesAre
     DEF Planning, PlannerKeeps, Planned, PlannerGivesUp, StartPlanner,
         PlannerAnswers, PlannerCallFails
<1>2. CASE StartSandbox \/ StartCoder
  BY <1>2, ClientMoves, RolesAre
     DEF StartSandbox, StartCoder
<1>3. CASE CoderStops \/ CoderRaises
  BY <1>3, ClientMoves, RolesAre
     DEF CoderStops, CoderRaises, CoderReturns, Show, Coding, CoderKeeps,
         ToolsKeep
<1>4. CASE CoderCallFails
  BY <1>4, ClientMoves, RolesAre
     DEF CoderCallFails, CoderContinues, CoderReturns, Show, Coding,
         CoderKeeps, ToolsKeep
<1>5. CASE CoderAnswers
  BY <1>5, ClientMoves, RolesAre
     DEF CoderAnswers, CoderIsAnswered, CoderContinues, CoderReturns, Show,
         Coding, CoderKeeps, ToolsKeep
<1>6. CASE CoderAsksForTools
  BY <1>6, ClientMoves, RolesAre
     DEF CoderAsksForTools, CoderIsAnswered, Coding, CoderKeeps, ToolsKeep
<1>7. CASE \E file \in Files : Edit(file)
  BY <1>7, ClientMoves, RolesAre
     DEF Edit, Dispatches, Coding, CoderKeeps, ToolsKeep
<1>8. CASE RunTests \/ Look
  BY <1>8, ClientMoves, RolesAre
     DEF RunTests, Look, Dispatches, Coding, CoderKeeps, ToolsKeep
<1>9. CASE ReturnResults
  BY <1>9, ClientMoves, RolesAre
     DEF ReturnResults, CoderContinues, CoderReturns, Show, Coding, CoderKeeps,
         ToolsKeep
<1>10. CASE StartReviewer \/ ReviewerAnswers \/ ReviewerCallFails
  BY <1>10, ClientMoves, RolesAre
     DEF Reviewing, ReviewerKeeps, Reviewed, ReviewSkipped, RoundEnds,
         ReviewerGivesUp, StartReviewer, ReviewerAnswers, ReviewerCallFails
<1>11. CASE Ship \/ Report \/ Killed
  BY <1>11, ClientMoves, RolesAre
     DEF Ship, Report, Killed, RunKeeps
<1>12. CASE UNCHANGED vars
  BY <1>12, ClientMoves, RolesAre
     DEF vars
<1> QED
  BY <1>1, <1>2, <1>3, <1>4, <1>5, <1>6, <1>7, <1>8, <1>9, <1>10, <1>11, <1>12
     DEF Next, Step, Coder

\* A failed call of the Planner makes it switch, or ends it.
LEMMA NextPlannerFailures ==
  ASSUME TypeOK, AskersHaveClients, PlannerFailures, FallbackHasOneTurn,
         [Next]_vars
  PROVE  PlannerFailures'
<1> USE DEF PlannerFailures, Switched, CoderStages, BeforeCode, Recorded,
            Unrecorded, coderVars, traceVars, toolVars, shipVars, Goto, EndAs,
            Stay, Entry
<1>a. failed \in [Roles -> Nat] /\ rounds \in Nat
  BY DEF TypeOK
<1>1. CASE StartPlanner \/ PlannerAnswers \/ PlannerCallFails
  BY <1>1, <1>a, ClientMoves, RolesAre
     DEF Planning, PlannerKeeps, Planned, PlannerGivesUp, StartPlanner,
         PlannerAnswers, PlannerCallFails
<1>2. CASE StartSandbox \/ StartCoder
  BY <1>2, <1>a, ClientMoves, RolesAre
     DEF StartSandbox, StartCoder
<1>3. CASE CoderStops \/ CoderRaises
  BY <1>3, <1>a, ClientMoves, RolesAre
     DEF CoderStops, CoderRaises, CoderReturns, Show, Coding, CoderKeeps,
         ToolsKeep
<1>4. CASE CoderCallFails
  BY <1>4, <1>a, ClientMoves, RolesAre
     DEF CoderCallFails, CoderContinues, CoderReturns, Show, Coding,
         CoderKeeps, ToolsKeep
<1>5. CASE CoderAnswers
  BY <1>5, <1>a, ClientMoves, RolesAre
     DEF CoderAnswers, CoderIsAnswered, CoderContinues, CoderReturns, Show,
         Coding, CoderKeeps, ToolsKeep
<1>6. CASE CoderAsksForTools
  BY <1>6, <1>a, ClientMoves, RolesAre
     DEF CoderAsksForTools, CoderIsAnswered, Coding, CoderKeeps, ToolsKeep
<1>7. CASE \E file \in Files : Edit(file)
  BY <1>7, <1>a, ClientMoves, RolesAre
     DEF Edit, Dispatches, Coding, CoderKeeps, ToolsKeep
<1>8. CASE RunTests \/ Look
  BY <1>8, <1>a, ClientMoves, RolesAre
     DEF RunTests, Look, Dispatches, Coding, CoderKeeps, ToolsKeep
<1>9. CASE ReturnResults
  BY <1>9, <1>a, ClientMoves, RolesAre
     DEF ReturnResults, CoderContinues, CoderReturns, Show, Coding, CoderKeeps,
         ToolsKeep
<1>10. CASE StartReviewer \/ ReviewerAnswers \/ ReviewerCallFails
  BY <1>10, <1>a, ClientMoves, RolesAre
     DEF Reviewing, ReviewerKeeps, Reviewed, ReviewSkipped, RoundEnds,
         ReviewerGivesUp, StartReviewer, ReviewerAnswers, ReviewerCallFails
<1>11. CASE Ship \/ Report \/ Killed
  BY <1>11, <1>a, ClientMoves, RolesAre
     DEF Ship, Report, Killed, RunKeeps
<1>12. CASE UNCHANGED vars
  BY <1>12, <1>a, ClientMoves, RolesAre
     DEF vars
<1> QED
  BY <1>1, <1>2, <1>3, <1>4, <1>5, <1>6, <1>7, <1>8, <1>9, <1>10, <1>11, <1>12
     DEF Next, Step, Coder

\* A failed call of the Coder makes it switch, or ends the run or the rerun.
LEMMA NextCoderFailures ==
  ASSUME TypeOK, AskersHaveClients, CoderFailures, FallbackHasOneTurn,
         [Next]_vars
  PROVE  CoderFailures'
<1> USE DEF CoderFailures, Switched, CoderStages, BeforeCode, Recorded,
            Unrecorded, coderVars, traceVars, toolVars, shipVars, Goto, EndAs,
            Stay, Entry
<1>a. failed \in [Roles -> Nat] /\ rounds \in Nat
  BY DEF TypeOK
<1>1. CASE StartPlanner \/ PlannerAnswers \/ PlannerCallFails
  BY <1>1, <1>a, ClientMoves, RolesAre
     DEF Planning, PlannerKeeps, Planned, PlannerGivesUp, StartPlanner,
         PlannerAnswers, PlannerCallFails
<1>2. CASE StartSandbox \/ StartCoder
  BY <1>2, <1>a, ClientMoves, RolesAre
     DEF StartSandbox, StartCoder
<1>3. CASE CoderStops \/ CoderRaises
  BY <1>3, <1>a, ClientMoves, RolesAre
     DEF CoderStops, CoderRaises, CoderReturns, Show, Coding, CoderKeeps,
         ToolsKeep
<1>4. CASE CoderCallFails
  BY <1>4, <1>a, ClientMoves, RolesAre
     DEF CoderCallFails, CoderContinues, CoderReturns, Show, Coding,
         CoderKeeps, ToolsKeep
<1>5. CASE CoderAnswers
  BY <1>5, <1>a, ClientMoves, RolesAre
     DEF CoderAnswers, CoderIsAnswered, CoderContinues, CoderReturns, Show,
         Coding, CoderKeeps, ToolsKeep
<1>6. CASE CoderAsksForTools
  BY <1>6, <1>a, ClientMoves, RolesAre
     DEF CoderAsksForTools, CoderIsAnswered, Coding, CoderKeeps, ToolsKeep
<1>7. CASE \E file \in Files : Edit(file)
  BY <1>7, <1>a, ClientMoves, RolesAre
     DEF Edit, Dispatches, Coding, CoderKeeps, ToolsKeep
<1>8. CASE RunTests \/ Look
  BY <1>8, <1>a, ClientMoves, RolesAre
     DEF RunTests, Look, Dispatches, Coding, CoderKeeps, ToolsKeep
<1>9. CASE ReturnResults
  BY <1>9, <1>a, ClientMoves, RolesAre
     DEF ReturnResults, CoderContinues, CoderReturns, Show, Coding, CoderKeeps,
         ToolsKeep
<1>10. CASE StartReviewer \/ ReviewerAnswers \/ ReviewerCallFails
  BY <1>10, <1>a, ClientMoves, RolesAre
     DEF Reviewing, ReviewerKeeps, Reviewed, ReviewSkipped, RoundEnds,
         ReviewerGivesUp, StartReviewer, ReviewerAnswers, ReviewerCallFails
<1>11. CASE Ship \/ Report \/ Killed
  BY <1>11, <1>a, ClientMoves, RolesAre
     DEF Ship, Report, Killed, RunKeeps
<1>12. CASE UNCHANGED vars
  BY <1>12, <1>a, ClientMoves, RolesAre
     DEF vars
<1> QED
  BY <1>1, <1>2, <1>3, <1>4, <1>5, <1>6, <1>7, <1>8, <1>9, <1>10, <1>11, <1>12
     DEF Next, Step, Coder

\* A failed call of the Reviewer makes it switch, or ends the round.
LEMMA NextReviewerFailures ==
  ASSUME TypeOK, AskersHaveClients, ReviewerFailures, FallbackHasOneTurn,
         [Next]_vars
  PROVE  ReviewerFailures'
<1> USE DEF ReviewerFailures, Switched, CoderStages, BeforeCode, Recorded,
            Unrecorded, coderVars, traceVars, toolVars, shipVars, Goto, EndAs,
            Stay, Entry
<1>a. failed \in [Roles -> Nat] /\ rounds \in Nat
  BY DEF TypeOK
<1>1. CASE StartPlanner \/ PlannerAnswers \/ PlannerCallFails
  BY <1>1, <1>a, ClientMoves, RolesAre
     DEF Planning, PlannerKeeps, Planned, PlannerGivesUp, StartPlanner,
         PlannerAnswers, PlannerCallFails
<1>2. CASE StartSandbox \/ StartCoder
  BY <1>2, <1>a, ClientMoves, RolesAre
     DEF StartSandbox, StartCoder
<1>3. CASE CoderStops \/ CoderRaises
  BY <1>3, <1>a, ClientMoves, RolesAre
     DEF CoderStops, CoderRaises, CoderReturns, Show, Coding, CoderKeeps,
         ToolsKeep
<1>4. CASE CoderCallFails
  BY <1>4, <1>a, ClientMoves, RolesAre
     DEF CoderCallFails, CoderContinues, CoderReturns, Show, Coding,
         CoderKeeps, ToolsKeep
<1>5. CASE CoderAnswers
  <2>1. failed["reviewer"] <= 2 * rounds
    BY <1>5 DEF CoderAnswers, CoderIsAnswered, Coding, FallbackHasOneTurn
  <2> QED
    BY <1>5, <2>1, <1>a
       DEF CoderAnswers, CoderIsAnswered, CoderContinues, CoderReturns, Coding,
           CoderKeeps
<1>6. CASE CoderAsksForTools
  BY <1>6, <1>a, ClientMoves, RolesAre
     DEF CoderAsksForTools, CoderIsAnswered, Coding, CoderKeeps, ToolsKeep
<1>7. CASE \E file \in Files : Edit(file)
  BY <1>7, <1>a, ClientMoves, RolesAre
     DEF Edit, Dispatches, Coding, CoderKeeps, ToolsKeep
<1>8. CASE RunTests \/ Look
  BY <1>8, <1>a, ClientMoves, RolesAre
     DEF RunTests, Look, Dispatches, Coding, CoderKeeps, ToolsKeep
<1>9. CASE ReturnResults
  BY <1>9, <1>a, ClientMoves, RolesAre
     DEF ReturnResults, CoderContinues, CoderReturns, Show, Coding, CoderKeeps,
         ToolsKeep
<1>10. CASE StartReviewer \/ ReviewerAnswers \/ ReviewerCallFails
  BY <1>10, <1>a, ClientMoves, RolesAre
     DEF Reviewing, ReviewerKeeps, Reviewed, ReviewSkipped, RoundEnds,
         ReviewerGivesUp, StartReviewer, ReviewerAnswers, ReviewerCallFails
<1>11. CASE Ship \/ Report \/ Killed
  BY <1>11, <1>a, ClientMoves, RolesAre
     DEF Ship, Report, Killed, RunKeeps
<1>12. CASE UNCHANGED vars
  BY <1>12, <1>a, ClientMoves, RolesAre
     DEF vars
<1> QED
  BY <1>1, <1>2, <1>3, <1>4, <1>5, <1>6, <1>7, <1>8, <1>9, <1>10, <1>11, <1>12
     DEF Next, Step, Coder

\* A verdict is only given up on after the fallback.
LEMMA NextGivenUp ==
  ASSUME TypeOK, GivenUpLast, [Next]_vars
  PROVE  GivenUpLast'
<1> USE DEF GivenUpLast, NoPlan, FallbackLeft, CoderStages, BeforeCode,
            coderVars, traceVars, toolVars, shipVars, Goto, EndAs, Stay, Entry
<1>1. CASE StartPlanner \/ PlannerAnswers \/ PlannerCallFails
  BY <1>1, ClientMoves, RolesAre
     DEF Planning, PlannerKeeps, Planned, PlannerGivesUp, StartPlanner,
         PlannerAnswers, PlannerCallFails
<1>2. CASE StartSandbox \/ StartCoder
  BY <1>2, ClientMoves, RolesAre
     DEF StartSandbox, StartCoder
<1>3. CASE CoderStops \/ CoderRaises
  BY <1>3, ClientMoves, RolesAre
     DEF CoderStops, CoderRaises, CoderReturns, Show, Coding, CoderKeeps,
         ToolsKeep
<1>4. CASE CoderCallFails
  BY <1>4, ClientMoves, RolesAre
     DEF CoderCallFails, CoderContinues, CoderReturns, Show, Coding,
         CoderKeeps, ToolsKeep
<1>5. CASE CoderAnswers
  <2>1. ASSUME NEW r, NEW n, CoderReturns(r, n) PROVE GivenUpLast'
    BY <1>5, <2>1
       DEF CoderAnswers, CoderIsAnswered, CoderReturns, Coding, CoderKeeps
  <2>2. CASE CoderContinues(1)
    BY <1>5, <2>2
       DEF CoderAnswers, CoderIsAnswered, CoderContinues, Coding, CoderKeeps
  <2> QED
    BY <1>5, <2>1, <2>2 DEF CoderAnswers
<1>6. CASE CoderAsksForTools
  BY <1>6, ClientMoves, RolesAre
     DEF CoderAsksForTools, CoderIsAnswered, Coding, CoderKeeps, ToolsKeep
<1>7. CASE \E file \in Files : Edit(file)
  BY <1>7, ClientMoves, RolesAre
     DEF Edit, Dispatches, Coding, CoderKeeps, ToolsKeep
<1>8. CASE RunTests \/ Look
  BY <1>8, ClientMoves, RolesAre
     DEF RunTests, Look, Dispatches, Coding, CoderKeeps, ToolsKeep
<1>9. CASE ReturnResults
  BY <1>9, ClientMoves, RolesAre
     DEF ReturnResults, CoderContinues, CoderReturns, Show, Coding, CoderKeeps,
         ToolsKeep
<1>10. CASE StartReviewer \/ ReviewerAnswers \/ ReviewerCallFails
  BY <1>10, ClientMoves, RolesAre
     DEF Reviewing, ReviewerKeeps, Reviewed, ReviewSkipped, RoundEnds,
         ReviewerGivesUp, StartReviewer, ReviewerAnswers, ReviewerCallFails
<1>11. CASE Ship \/ Report \/ Killed
  BY <1>11, ClientMoves, RolesAre
     DEF Ship, Report, Killed, RunKeeps
<1>12. CASE UNCHANGED vars
  BY <1>12, ClientMoves, RolesAre
     DEF vars
<1> QED
  BY <1>1, <1>2, <1>3, <1>4, <1>5, <1>6, <1>7, <1>8, <1>9, <1>10, <1>11, <1>12
     DEF Next, Step, Coder

\* The bounds on failed calls outlive the turn they were made in.
LEMMA NextFallback ==
  ASSUME TypeOK, AskersHaveClients, PlannerFailures, CoderFailures,
         ReviewerFailures, FallbackHasOneTurn, GivenUpLast, [Next]_vars
  PROVE  FallbackHasOneTurn'
<1> USE DEF PlannerFailures, CoderFailures, ReviewerFailures,
            FallbackHasOneTurn, GivenUpLast, FallbackLeft, Switched,
            CoderStages, BeforeCode, Recorded, Unrecorded, coderVars,
            traceVars, toolVars, shipVars, Goto, EndAs, Stay, Entry
<1>a. failed \in [Roles -> Nat] /\ rounds \in Nat
  BY DEF TypeOK
<1>1. CASE StartPlanner \/ PlannerAnswers \/ PlannerCallFails
  <2> USE DEF Planning, PlannerKeeps, Planned, PlannerGivesUp
  <2>1. failed'["planner"] <= 2 /\ UNCHANGED rounds
        /\ stage' \in {"plan", "sandbox"}
    BY <1>1, <1>a, RolesAre DEF StartPlanner, PlannerAnswers, PlannerCallFails
  <2>2. /\ failed'["coder"] = failed["coder"]
        /\ failed'["reviewer"] = failed["reviewer"]
    BY <1>1, <1>a, RolesAre DEF StartPlanner, PlannerAnswers, PlannerCallFails
  <2>3. plan'.end = "useless" => ~FallbackLeft("planner")'
    BY <1>1 DEF StartPlanner, PlannerAnswers, PlannerCallFails, NoPlan
  <2>4. review' = review /\ client'["reviewer"] = client["reviewer"]
    BY <1>1, ClientMoves, RolesAre
       DEF StartPlanner, PlannerAnswers, PlannerCallFails
  <2> QED
    BY <1>1, <2>1, <2>2, <2>3, <2>4
       DEF StartPlanner, PlannerAnswers, PlannerCallFails
<1>2. CASE StartSandbox \/ StartCoder
  BY <1>2, <1>a, ClientMoves, RolesAre
     DEF StartSandbox, StartCoder
<1>3. CASE CoderStops \/ CoderRaises
  BY <1>3, <1>a, ClientMoves, RolesAre
     DEF CoderStops, CoderRaises, CoderReturns, Show, Coding, CoderKeeps,
         ToolsKeep
<1>4. CASE CoderCallFails
  BY <1>4, <1>a, ClientMoves, RolesAre
     DEF CoderCallFails, CoderContinues, CoderReturns, Show, Coding,
         CoderKeeps, ToolsKeep
<1>5. CASE CoderAnswers
  BY <1>5, <1>a, ClientMoves, RolesAre
     DEF CoderAnswers, CoderIsAnswered, CoderContinues, CoderReturns, Show,
         Coding, CoderKeeps, ToolsKeep
<1>6. CASE CoderAsksForTools
  BY <1>6, <1>a, ClientMoves, RolesAre
     DEF CoderAsksForTools, CoderIsAnswered, Coding, CoderKeeps, ToolsKeep
<1>7. CASE \E file \in Files : Edit(file)
  BY <1>7, <1>a, ClientMoves, RolesAre
     DEF Edit, Dispatches, Coding, CoderKeeps, ToolsKeep
<1>8. CASE RunTests \/ Look
  BY <1>8, <1>a, ClientMoves, RolesAre
     DEF RunTests, Look, Dispatches, Coding, CoderKeeps, ToolsKeep
<1>9. CASE ReturnResults
  BY <1>9, <1>a, ClientMoves, RolesAre
     DEF ReturnResults, CoderContinues, CoderReturns, Show, Coding, CoderKeeps,
         ToolsKeep
<1>10. CASE StartReviewer \/ ReviewerAnswers \/ ReviewerCallFails
  BY <1>10, <1>a, ClientMoves, RolesAre
     DEF Reviewing, ReviewerKeeps, Reviewed, ReviewSkipped, RoundEnds,
         ReviewerGivesUp, StartReviewer, ReviewerAnswers, ReviewerCallFails
<1>11. CASE Ship \/ Report \/ Killed
  BY <1>11, <1>a, ClientMoves, RolesAre
     DEF Ship, Report, Killed, RunKeeps
<1>12. CASE UNCHANGED vars
  BY <1>12, <1>a, ClientMoves, RolesAre
     DEF vars
<1> QED
  BY <1>1, <1>2, <1>3, <1>4, <1>5, <1>6, <1>7, <1>8, <1>9, <1>10, <1>11, <1>12
     DEF Next, Step, Coder

-----------------------------------------------------------------------------
(* The trace, the edits and the pull request. *)

\* The steps of a run of the Coder grow with its calls.
LEMMA NextListed ==
  ASSUME TypeOK, CallsAreListed, TraceLosesOneRun, [Next]_vars
  PROVE  CallsAreListed'
<1> USE DEF CallsAreListed, TraceLosesOneRun, CoderStages, BeforeCode,
            coderVars, traceVars, toolVars, shipVars, Goto, EndAs, Stay, Entry
<1>a. /\ made \in Nat /\ saved \in Nat /\ listed \in Nat
      /\ steps \in Nat /\ tree \in Nat
      /\ settled.steps \in Nat /\ settled.tree \in Nat
  BY DEF TypeOK
<1>1. CASE StartPlanner \/ PlannerAnswers \/ PlannerCallFails
  BY <1>1, <1>a
     DEF Planning, PlannerKeeps, Planned, PlannerGivesUp, StartPlanner,
         PlannerAnswers, PlannerCallFails
<1>2. CASE StartSandbox \/ StartCoder
  BY <1>2, <1>a
     DEF StartSandbox, StartCoder
<1>3. CASE CoderStops \/ CoderRaises
  BY <1>3, <1>a
     DEF CoderStops, CoderRaises, CoderReturns, Show, Coding, CoderKeeps,
         ToolsKeep
<1>4. CASE CoderCallFails
  BY <1>4, <1>a
     DEF CoderCallFails, CoderContinues, CoderReturns, Show, Coding,
         CoderKeeps, ToolsKeep
<1>5. CASE CoderAnswers
  BY <1>5, <1>a
     DEF CoderAnswers, CoderIsAnswered, CoderContinues, CoderReturns, Show,
         Coding, CoderKeeps, ToolsKeep
<1>6. CASE CoderAsksForTools
  BY <1>6, <1>a
     DEF CoderAsksForTools, CoderIsAnswered, Coding, CoderKeeps, ToolsKeep
<1>7. CASE \E file \in Files : Edit(file)
  BY <1>7, <1>a
     DEF Edit, Dispatches, Coding, CoderKeeps, ToolsKeep
<1>8. CASE RunTests \/ Look
  BY <1>8, <1>a
     DEF RunTests, Look, Dispatches, Coding, CoderKeeps, ToolsKeep
<1>9. CASE ReturnResults
  BY <1>9, <1>a
     DEF ReturnResults, CoderContinues, CoderReturns, Show, Coding, CoderKeeps,
         ToolsKeep
<1>10. CASE StartReviewer \/ ReviewerAnswers \/ ReviewerCallFails
  BY <1>10, <1>a
     DEF Reviewing, ReviewerKeeps, Reviewed, ReviewSkipped, RoundEnds,
         ReviewerGivesUp, StartReviewer, ReviewerAnswers, ReviewerCallFails
<1>11. CASE Ship \/ Report \/ Killed
  BY <1>11, <1>a
     DEF Ship, Report, Killed, RunKeeps
<1>12. CASE UNCHANGED vars
  BY <1>12, <1>a
     DEF vars
<1> QED
  BY <1>1, <1>2, <1>3, <1>4, <1>5, <1>6, <1>7, <1>8, <1>9, <1>10, <1>11, <1>12
     DEF Next, Step, Coder

\* They are persisted when it returns, all but one that could not be listed.
LEMMA NextTrace ==
  ASSUME TypeOK, CallsAreListed, TraceLosesOneRun, [Next]_vars
  PROVE  TraceLosesOneRun'
<1> USE DEF CallsAreListed, TraceLosesOneRun, CoderStages, BeforeCode,
            coderVars, traceVars, toolVars, shipVars, Goto, EndAs, Stay, Entry
<1>a. /\ made \in Nat /\ saved \in Nat /\ listed \in Nat
      /\ steps \in Nat /\ tree \in Nat
      /\ settled.steps \in Nat /\ settled.tree \in Nat
  BY DEF TypeOK
<1>1. CASE StartPlanner \/ PlannerAnswers \/ PlannerCallFails
  BY <1>1, <1>a
     DEF Planning, PlannerKeeps, Planned, PlannerGivesUp, StartPlanner,
         PlannerAnswers, PlannerCallFails
<1>2. CASE StartSandbox \/ StartCoder
  BY <1>2, <1>a
     DEF StartSandbox, StartCoder
<1>3. CASE CoderStops \/ CoderRaises
  BY <1>3, <1>a
     DEF CoderStops, CoderRaises, CoderReturns, Show, Coding, CoderKeeps,
         ToolsKeep
<1>4. CASE CoderCallFails
  BY <1>4, <1>a
     DEF CoderCallFails, CoderContinues, CoderReturns, Show, Coding,
         CoderKeeps, ToolsKeep
<1>5. CASE CoderAnswers
  BY <1>5, <1>a
     DEF CoderAnswers, CoderIsAnswered, CoderContinues, CoderReturns, Show,
         Coding, CoderKeeps, ToolsKeep
<1>6. CASE CoderAsksForTools
  BY <1>6, <1>a
     DEF CoderAsksForTools, CoderIsAnswered, Coding, CoderKeeps, ToolsKeep
<1>7. CASE \E file \in Files : Edit(file)
  BY <1>7, <1>a
     DEF Edit, Dispatches, Coding, CoderKeeps, ToolsKeep
<1>8. CASE RunTests \/ Look
  BY <1>8, <1>a
     DEF RunTests, Look, Dispatches, Coding, CoderKeeps, ToolsKeep
<1>9. CASE ReturnResults
  BY <1>9, <1>a
     DEF ReturnResults, CoderContinues, CoderReturns, Show, Coding, CoderKeeps,
         ToolsKeep
<1>10. CASE StartReviewer \/ ReviewerAnswers \/ ReviewerCallFails
  BY <1>10, <1>a
     DEF Reviewing, ReviewerKeeps, Reviewed, ReviewSkipped, RoundEnds,
         ReviewerGivesUp, StartReviewer, ReviewerAnswers, ReviewerCallFails
<1>11. CASE Ship \/ Report \/ Killed
  BY <1>11, <1>a
     DEF Ship, Report, Killed, RunKeeps
<1>12. CASE UNCHANGED vars
  BY <1>12, <1>a
     DEF vars
<1> QED
  BY <1>1, <1>2, <1>3, <1>4, <1>5, <1>6, <1>7, <1>8, <1>9, <1>10, <1>11, <1>12
     DEF Next, Step, Coder

\* An edit is compared with a plan that does not change any more.
LEMMA NextWatched ==
  ASSUME EditsAreWatched, [Next]_vars
  PROVE  EditsAreWatched'
<1> USE DEF EditsAreWatched, Deviates, CoderStages, BeforeCode, coderVars,
            traceVars, toolVars, shipVars, Goto, EndAs, Stay, Entry
<1>1. CASE StartPlanner \/ PlannerAnswers \/ PlannerCallFails
  BY <1>1
     DEF Planning, PlannerKeeps, Planned, PlannerGivesUp, StartPlanner,
         PlannerAnswers, PlannerCallFails
<1>2. CASE StartSandbox \/ StartCoder
  BY <1>2
     DEF StartSandbox, StartCoder
<1>3. CASE CoderStops \/ CoderRaises
  BY <1>3
     DEF CoderStops, CoderRaises, CoderReturns, Show, Coding, CoderKeeps,
         ToolsKeep
<1>4. CASE CoderCallFails
  BY <1>4
     DEF CoderCallFails, CoderContinues, CoderReturns, Show, Coding,
         CoderKeeps, ToolsKeep
<1>5. CASE CoderAnswers
  BY <1>5
     DEF CoderAnswers, CoderIsAnswered, CoderContinues, CoderReturns, Show,
         Coding, CoderKeeps, ToolsKeep
<1>6. CASE CoderAsksForTools
  BY <1>6
     DEF CoderAsksForTools, CoderIsAnswered, Coding, CoderKeeps, ToolsKeep
<1>7. CASE \E file \in Files : Edit(file)
  BY <1>7
     DEF Edit, Dispatches, Coding, CoderKeeps, ToolsKeep
<1>8. CASE RunTests \/ Look
  BY <1>8
     DEF RunTests, Look, Dispatches, Coding, CoderKeeps, ToolsKeep
<1>9. CASE ReturnResults
  BY <1>9
     DEF ReturnResults, CoderContinues, CoderReturns, Show, Coding, CoderKeeps,
         ToolsKeep
<1>10. CASE StartReviewer \/ ReviewerAnswers \/ ReviewerCallFails
  BY <1>10
     DEF Reviewing, ReviewerKeeps, Reviewed, ReviewSkipped, RoundEnds,
         ReviewerGivesUp, StartReviewer, ReviewerAnswers, ReviewerCallFails
<1>11. CASE Ship \/ Report \/ Killed
  BY <1>11
     DEF Ship, Report, Killed, RunKeeps
<1>12. CASE UNCHANGED vars
  BY <1>12
     DEF vars
<1> QED
  BY <1>1, <1>2, <1>3, <1>4, <1>5, <1>6, <1>7, <1>8, <1>9, <1>10, <1>11, <1>12
     DEF Next, Step, Coder

\* Only a rerun edits what is not reviewed afterwards.
LEMMA NextBest ==
  ASSUME GivenUpLast, TreeIsBest, [Next]_vars
  PROVE  TreeIsBest'
<1> USE DEF GivenUpLast, TreeIsBest, CoderStages, BeforeCode, coderVars,
            traceVars, toolVars, shipVars, Goto, EndAs, Stay, Entry
<1>1. CASE StartPlanner \/ PlannerAnswers \/ PlannerCallFails
  BY <1>1
     DEF Planning, PlannerKeeps, Planned, PlannerGivesUp, StartPlanner,
         PlannerAnswers, PlannerCallFails
<1>2. CASE StartSandbox \/ StartCoder
  BY <1>2
     DEF StartSandbox, StartCoder
<1>3. CASE CoderStops \/ CoderRaises
  BY <1>3
     DEF CoderStops, CoderRaises, CoderReturns, Show, Coding, CoderKeeps,
         ToolsKeep
<1>4. CASE CoderCallFails
  BY <1>4
     DEF CoderCallFails, CoderContinues, CoderReturns, Show, Coding,
         CoderKeeps, ToolsKeep
<1>5. CASE CoderAnswers
  BY <1>5
     DEF CoderAnswers, CoderIsAnswered, CoderContinues, CoderReturns, Show,
         Coding, CoderKeeps, ToolsKeep
<1>6. CASE CoderAsksForTools
  BY <1>6
     DEF CoderAsksForTools, CoderIsAnswered, Coding, CoderKeeps, ToolsKeep
<1>7. CASE \E file \in Files : Edit(file)
  BY <1>7
     DEF Edit, Dispatches, Coding, CoderKeeps, ToolsKeep
<1>8. CASE RunTests \/ Look
  BY <1>8
     DEF RunTests, Look, Dispatches, Coding, CoderKeeps, ToolsKeep
<1>9. CASE ReturnResults
  BY <1>9
     DEF ReturnResults, CoderContinues, CoderReturns, Show, Coding, CoderKeeps,
         ToolsKeep
<1>10. CASE StartReviewer \/ ReviewerAnswers \/ ReviewerCallFails
  BY <1>10
     DEF Reviewing, ReviewerKeeps, Reviewed, ReviewSkipped, RoundEnds,
         ReviewerGivesUp, StartReviewer, ReviewerAnswers, ReviewerCallFails
<1>11. CASE Ship \/ Report \/ Killed
  BY <1>11
     DEF Ship, Report, Killed, RunKeeps
<1>12. CASE UNCHANGED vars
  BY <1>12
     DEF vars
<1> QED
  BY <1>1, <1>2, <1>3, <1>4, <1>5, <1>6, <1>7, <1>8, <1>9, <1>10, <1>11, <1>12
     DEF Next, Step, Coder

\* Nothing is edited, reviewed or completed after the pull request.
LEMMA NextPr ==
  ASSUME TreeIsBest, PrIsLast, [Next]_vars
  PROVE  PrIsLast'
<1> USE DEF TreeIsBest, PrIsLast, CoderStages, BeforeCode, coderVars,
            traceVars, toolVars, shipVars, Goto, EndAs, Stay, Entry
<1>1. CASE StartPlanner \/ PlannerAnswers \/ PlannerCallFails
  BY <1>1
     DEF Planning, PlannerKeeps, Planned, PlannerGivesUp, StartPlanner,
         PlannerAnswers, PlannerCallFails
<1>2. CASE StartSandbox \/ StartCoder
  BY <1>2
     DEF StartSandbox, StartCoder
<1>3. CASE CoderStops \/ CoderRaises
  BY <1>3
     DEF CoderStops, CoderRaises, CoderReturns, Show, Coding, CoderKeeps,
         ToolsKeep
<1>4. CASE CoderCallFails
  BY <1>4
     DEF CoderCallFails, CoderContinues, CoderReturns, Show, Coding,
         CoderKeeps, ToolsKeep
<1>5. CASE CoderAnswers
  BY <1>5
     DEF CoderAnswers, CoderIsAnswered, CoderContinues, CoderReturns, Show,
         Coding, CoderKeeps, ToolsKeep
<1>6. CASE CoderAsksForTools
  BY <1>6
     DEF CoderAsksForTools, CoderIsAnswered, Coding, CoderKeeps, ToolsKeep
<1>7. CASE \E file \in Files : Edit(file)
  BY <1>7
     DEF Edit, Dispatches, Coding, CoderKeeps, ToolsKeep
<1>8. CASE RunTests \/ Look
  BY <1>8
     DEF RunTests, Look, Dispatches, Coding, CoderKeeps, ToolsKeep
<1>9. CASE ReturnResults
  BY <1>9
     DEF ReturnResults, CoderContinues, CoderReturns, Show, Coding, CoderKeeps,
         ToolsKeep
<1>10. CASE StartReviewer \/ ReviewerAnswers \/ ReviewerCallFails
  BY <1>10
     DEF Reviewing, ReviewerKeeps, Reviewed, ReviewSkipped, RoundEnds,
         ReviewerGivesUp, StartReviewer, ReviewerAnswers, ReviewerCallFails
<1>11. CASE Ship \/ Report \/ Killed
  BY <1>11
     DEF Ship, Report, Killed, RunKeeps
<1>12. CASE UNCHANGED vars
  BY <1>12
     DEF vars
<1> QED
  BY <1>1, <1>2, <1>3, <1>4, <1>5, <1>6, <1>7, <1>8, <1>9, <1>10, <1>11, <1>12
     DEF Next, Step, Coder

\* The Reviewer is entered with what the Coder has just done.
LEMMA NextShown ==
  ASSUME ReviewerSeesTheLatest, [Next]_vars
  PROVE  ReviewerSeesTheLatest'
<1> USE DEF ReviewerSeesTheLatest, coderVars, traceVars, toolVars, shipVars,
            Goto, EndAs, Stay, Entry
<1>1. CASE StartPlanner \/ PlannerAnswers \/ PlannerCallFails
  BY <1>1
     DEF Planning, PlannerKeeps, Planned, PlannerGivesUp, StartPlanner,
         PlannerAnswers, PlannerCallFails
<1>2. CASE StartSandbox \/ StartCoder
  BY <1>2
     DEF StartSandbox, StartCoder
<1>3. CASE CoderStops \/ CoderRaises
  BY <1>3
     DEF CoderStops, CoderRaises, CoderReturns, Show, Coding, CoderKeeps,
         ToolsKeep
<1>4. CASE CoderCallFails
  BY <1>4
     DEF CoderCallFails, CoderContinues, CoderReturns, Show, Coding,
         CoderKeeps, ToolsKeep
<1>5. CASE CoderAnswers
  BY <1>5
     DEF CoderAnswers, CoderIsAnswered, CoderContinues, CoderReturns, Show,
         Coding, CoderKeeps, ToolsKeep
<1>6. CASE CoderAsksForTools
  BY <1>6
     DEF CoderAsksForTools, CoderIsAnswered, Coding, CoderKeeps, ToolsKeep
<1>7. CASE \E file \in Files : Edit(file)
  BY <1>7
     DEF Edit, Dispatches, Coding, CoderKeeps, ToolsKeep
<1>8. CASE RunTests \/ Look
  BY <1>8
     DEF RunTests, Look, Dispatches, Coding, CoderKeeps, ToolsKeep
<1>9. CASE ReturnResults
  BY <1>9
     DEF ReturnResults, CoderContinues, CoderReturns, Show, Coding, CoderKeeps,
         ToolsKeep
<1>10. CASE StartReviewer \/ ReviewerAnswers \/ ReviewerCallFails
  BY <1>10
     DEF Reviewing, ReviewerKeeps, Reviewed, ReviewSkipped, RoundEnds,
         ReviewerGivesUp, StartReviewer, ReviewerAnswers, ReviewerCallFails
<1>11. CASE Ship \/ Report \/ Killed
  BY <1>11
     DEF Ship, Report, Killed, RunKeeps
<1>12. CASE UNCHANGED vars
  BY <1>12
     DEF vars
<1> QED
  BY <1>1, <1>2, <1>3, <1>4, <1>5, <1>6, <1>7, <1>8, <1>9, <1>10, <1>11, <1>12
     DEF Next, Step, Coder

\* Every turn, round and stage ends where it is settled.
LEMMA NextSettled ==
  ASSUME TypeOK, AskersHaveClients, TurnsSettle, [Next]_vars
  PROVE  TurnsSettle'
<1> USE DEF TurnsSettle, Switched, Settle, Recorded, Unrecorded, CoderStages,
            BeforeCode, coderVars, traceVars, toolVars, shipVars, Goto, EndAs,
            Stay, Entry
<1>a. /\ made \in Nat /\ saved \in Nat /\ listed \in Nat
      /\ steps \in Nat /\ tree \in Nat
      /\ settled.steps \in Nat /\ settled.tree \in Nat
  BY DEF TypeOK
<1>1. CASE StartPlanner \/ PlannerAnswers \/ PlannerCallFails
  BY <1>1, <1>a, ClientMoves, RolesAre
     DEF Planning, PlannerKeeps, Planned, PlannerGivesUp, StartPlanner,
         PlannerAnswers, PlannerCallFails
<1>2. CASE StartSandbox \/ StartCoder
  BY <1>2, <1>a, ClientMoves, RolesAre
     DEF StartSandbox, StartCoder
<1>3. CASE CoderStops \/ CoderRaises
  BY <1>3, <1>a, ClientMoves, RolesAre
     DEF CoderStops, CoderRaises, CoderReturns, Show, Coding, CoderKeeps,
         ToolsKeep
<1>4. CASE CoderCallFails
  BY <1>4, <1>a, ClientMoves, RolesAre
     DEF CoderCallFails, CoderContinues, CoderReturns, Show, Coding,
         CoderKeeps, ToolsKeep
<1>5. CASE CoderAnswers
  BY <1>5, <1>a, ClientMoves, RolesAre
     DEF CoderAnswers, CoderIsAnswered, CoderContinues, CoderReturns, Show,
         Coding, CoderKeeps, ToolsKeep
<1>6. CASE CoderAsksForTools
  BY <1>6, <1>a, ClientMoves, RolesAre
     DEF CoderAsksForTools, CoderIsAnswered, Coding, CoderKeeps, ToolsKeep
<1>7. CASE \E file \in Files : Edit(file)
  BY <1>7, <1>a, ClientMoves, RolesAre
     DEF Edit, Dispatches, Coding, CoderKeeps, ToolsKeep
<1>8. CASE RunTests \/ Look
  BY <1>8, <1>a, ClientMoves, RolesAre
     DEF RunTests, Look, Dispatches, Coding, CoderKeeps, ToolsKeep
<1>9. CASE ReturnResults
  BY <1>9, <1>a, ClientMoves, RolesAre
     DEF ReturnResults, CoderContinues, CoderReturns, Show, Coding, CoderKeeps,
         ToolsKeep
<1>10. CASE StartReviewer \/ ReviewerAnswers \/ ReviewerCallFails
  BY <1>10, <1>a, ClientMoves, RolesAre
     DEF Reviewing, ReviewerKeeps, Reviewed, ReviewSkipped, RoundEnds,
         ReviewerGivesUp, StartReviewer, ReviewerAnswers, ReviewerCallFails
<1>11. CASE Ship \/ Report \/ Killed
  BY <1>11, <1>a, ClientMoves, RolesAre
     DEF Ship, Report, Killed, RunKeeps
<1>12. CASE UNCHANGED vars
  BY <1>12, <1>a, ClientMoves, RolesAre
     DEF vars
<1> QED
  BY <1>1, <1>2, <1>3, <1>4, <1>5, <1>6, <1>7, <1>8, <1>9, <1>10, <1>11, <1>12
     DEF Next, Step, Coder

\* No agent ends a run as completed.
LEMMA NextCompleted ==
  ASSUME CompletedLast, [Next]_vars
  PROVE  CompletedLast'
<1> USE DEF CompletedLast, coderVars, traceVars, toolVars, shipVars, Goto,
            EndAs, Stay, Entry
<1>1. CASE StartPlanner \/ PlannerAnswers \/ PlannerCallFails
  BY <1>1
     DEF Planning, PlannerKeeps, Planned, PlannerGivesUp, StartPlanner,
         PlannerAnswers, PlannerCallFails
<1>2. CASE StartSandbox \/ StartCoder
  BY <1>2
     DEF StartSandbox, StartCoder
<1>3. CASE CoderStops \/ CoderRaises
  BY <1>3
     DEF CoderStops, CoderRaises, CoderReturns, Show, Coding, CoderKeeps,
         ToolsKeep
<1>4. CASE CoderCallFails
  BY <1>4
     DEF CoderCallFails, CoderContinues, CoderReturns, Show, Coding,
         CoderKeeps, ToolsKeep
<1>5. CASE CoderAnswers
  BY <1>5
     DEF CoderAnswers, CoderIsAnswered, CoderContinues, CoderReturns, Show,
         Coding, CoderKeeps, ToolsKeep
<1>6. CASE CoderAsksForTools
  BY <1>6
     DEF CoderAsksForTools, CoderIsAnswered, Coding, CoderKeeps, ToolsKeep
<1>7. CASE \E file \in Files : Edit(file)
  BY <1>7
     DEF Edit, Dispatches, Coding, CoderKeeps, ToolsKeep
<1>8. CASE RunTests \/ Look
  BY <1>8
     DEF RunTests, Look, Dispatches, Coding, CoderKeeps, ToolsKeep
<1>9. CASE ReturnResults
  BY <1>9
     DEF ReturnResults, CoderContinues, CoderReturns, Show, Coding, CoderKeeps,
         ToolsKeep
<1>10. CASE StartReviewer \/ ReviewerAnswers \/ ReviewerCallFails
  BY <1>10
     DEF Reviewing, ReviewerKeeps, Reviewed, ReviewSkipped, RoundEnds,
         ReviewerGivesUp, StartReviewer, ReviewerAnswers, ReviewerCallFails
<1>11. CASE Ship \/ Report \/ Killed
  BY <1>11
     DEF Ship, Report, Killed, RunKeeps
<1>12. CASE UNCHANGED vars
  BY <1>12
     DEF vars
<1> QED
  BY <1>1, <1>2, <1>3, <1>4, <1>5, <1>6, <1>7, <1>8, <1>9, <1>10, <1>11, <1>12
     DEF Next, Step, Coder

-----------------------------------------------------------------------------
(* The invariant holds throughout. *)

\* Each step keeps the invariant: the lemmas above, one for each part of it.
LEMMA NextInv == Inv /\ [Next]_vars => Inv'
  BY NextType, NextClients, NextAskers, NextPlannerFailures,
     NextCoderFailures, NextReviewerFailures, NextGivenUp, NextFallback,
     NextListed, NextTrace, NextWatched, NextBest, NextPr, NextShown,
     NextSettled, NextCompleted
     DEF Inv

\* Whatever the agents answer and whichever calls fail, every state of a run
\* satisfies the invariant.
THEOREM Invariance == Spec => []Inv
  BY InitInv, NextInv, PTL DEF Spec

-----------------------------------------------------------------------------
(* Paths. *)

\* Paths that match have the same last component.
LEMMA MatchesByName ==
  ASSUME NEW file \in Seq(Names), NEW path \in Seq(Names),
         Matches(file, path)
  PROVE  path # <<>> /\ path[Len(path)] = file[Len(file)]
<1> DEFINE n == IF Len(file) < Len(path) THEN Len(file) ELSE Len(path)
           Ending(s) == SubSeq(s, Len(s) - n + 1, Len(s))
<1>1. n > 0 /\ Ending(file) = Ending(path)
  BY DEF Matches
<1>2. /\ Len(file) \in Nat /\ Len(path) \in Nat /\ n \in Nat
      /\ n <= Len(file) /\ n <= Len(path)
  BY LenProperties
<1> HIDE DEF n
<1>3. ASSUME NEW s \in Seq(Names), n <= Len(s)
      PROVE  Ending(s)[n] = s[Len(s)]
  <2>1. Len(s) \in Nat /\ Len(s) - n + 1 \in 1..Len(s)
    BY <1>1, <1>2, <1>3, LenProperties
  <2>2. n \in 1..(Len(s) - (Len(s) - n + 1) + 1)
    BY <1>1, <1>2, <2>1
  <2>3. Ending(s)[n] = s[(Len(s) - n + 1) + n - 1]
    BY <1>1, <1>2, <2>1, <2>2
  <2>4. (Len(s) - n + 1) + n - 1 = Len(s)
    BY <1>2, <2>1
  <2> QED
    BY <2>3, <2>4
<1>4. path[Len(path)] = file[Len(file)]
  BY <1>1, <1>2, <1>3
<1>5. path # <<>>
  BY <1>1, <1>2
<1> QED
  BY <1>4, <1>5

\* A file is matched by itself under any leading directories.
LEMMA EndingsMatch ==
  ASSUME NEW path \in Seq(Names), NEW n \in 1..Len(path)
  PROVE  Matches(SubSeq(path, n, Len(path)), path)
<1> DEFINE file == SubSeq(path, n, Len(path))
<1>1. Len(path) \in Nat /\ n \in Nat /\ n <= Len(path) /\ n > 0
  BY LenProperties
<1>2. file \in Seq(Names) /\ Len(file) = Len(path) - n + 1
  BY <1>1, SubSeqProperties
<1>3. SubSeq(file, 1, Len(file)) = file
  BY <1>2, SubSeqFull
<1>4. (IF Len(file) < Len(path) THEN Len(file) ELSE Len(path)) = Len(file)
  BY <1>1, <1>2
<1> HIDE DEF file
<1>5. SubSeq(path, Len(path) - Len(file) + 1, Len(path)) = file
  <2>1. Len(path) - Len(file) + 1 = n
    BY <1>1, <1>2
  <2> QED
    BY <2>1 DEF file
<1>6. SubSeq(file, Len(file) - Len(file) + 1, Len(file)) = file
  <2>1. Len(file) - Len(file) + 1 = 1
    BY <1>1, <1>2
  <2> QED
    BY <1>3, <2>1
<1>7. Len(file) > 0
  BY <1>1, <1>2
<1>8. Matches(file, path)
  BY <1>4, <1>5, <1>6, <1>7 DEF Matches
<1> QED
  BY <1>8 DEF file

-----------------------------------------------------------------------------
\* The variables of the team keep their types.
THEOREM TypeCorrectness == Spec => []TypeOK
  BY Invariance, PTL DEF Inv

\* Each agent makes at most two calls per task that the budget never sees, and
\* "no plan" and "unavailable" are only said once the fallback had its turn.
THEOREM FallbackTurns == Spec => []FallbackHasOneTurn
  BY Invariance, PTL DEF Inv

\* The trace misses at most the last call of a run of the Coder that returns,
\* whatever with; one that raises or dies loses its own calls and no others.
THEOREM FullTrace == Spec => []TraceLosesOneRun
  BY Invariance, PTL DEF Inv

\* The Reviewer is shown the tree and the test output as they are.
THEOREM FreshReviews == Spec => []ReviewerSeesTheLatest
  BY Invariance, PTL DEF Inv

\* Edits that ship without a review of their own ship under the objections of
\* the last one.
THEOREM FlaggedEdits == Spec => []UnreviewedEditsAreFlagged
<1>1. Inv => UnreviewedEditsAreFlagged
  BY DEF Inv, PrIsLast, UnreviewedEditsAreFlagged
<1> QED
  BY <1>1, Invariance, PTL

\* Whatever the plan lists, the Coder edits and its tests write, the pull
\* request names the files that were edited and nobody planned, and none that
\* was planned; what ships unnamed was written by tests or shares its name
\* with a planned file.
THEOREM ReportedDeviations == Spec => []DeviationsAreReported
<1>1. Inv => DeviationsAreReported
  <2> SUFFICES ASSUME Inv, pr # None, plan.files # {}
               PROVE  DeviationsAreReported
    BY DEF DeviationsAreReported
  <2>1. pr.deviations = deviations
    BY DEF Inv, PrIsLast
  <2>2. /\ edited \subseteq Files /\ deviations \subseteq Files
        /\ plan.files \subseteq PlannedPaths
    BY DEF Inv, TypeOK
  <2>3. Files \subseteq Seq(Names) /\ PlannedPaths \subseteq Seq(Names)
    BY TeamAssumption
  <2>4. ASSUME NEW file \in edited \ pr.deviations
        PROVE  \E path \in plan.files \ {<<>>} :
                 path[Len(path)] = file[Len(file)]
    <3>1. ~Deviates(file)
      BY <2>1, <2>4 DEF Inv, EditsAreWatched
    <3>2. PICK path \in plan.files : Matches(file, path)
      BY <3>1 DEF Deviates
    <3>3. file \in Seq(Names) /\ path \in Seq(Names)
      BY <2>2, <2>3
    <3> QED
      BY <3>2, <3>3, MatchesByName
  <2>5. ASSUME NEW file \in pr.deviations, NEW path \in plan.files,
               NEW n \in 1..Len(path), SubSeq(path, n, Len(path)) = file
        PROVE  FALSE
    <3>1. path \in Seq(Names)
      BY <2>2, <2>3
    <3>2. Matches(file, path)
      BY <2>5, <3>1, EndingsMatch
    <3> QED
      BY <2>1, <3>2 DEF Inv, EditsAreWatched, Deviates
  <2>6. ASSUME NEW file \in (edited \union written) \ pr.deviations
        PROVE  \/ file \in written \ edited
               \/ \E path \in plan.files \ {<<>>} :
                    path[Len(path)] = file[Len(file)]
    <3>1. CASE file \in edited
      BY <2>4, <3>1
    <3>2. CASE file \notin edited
      BY <3>2
    <3> QED
      BY <3>1, <3>2
  <2> QED
    BY <2>5, <2>6 DEF DeviationsAreReported
<1> QED
  BY <1>1, Invariance, PTL

\* For every environment, well spelt or not: no vendor is asked for another
\* vendor's model.
THEOREM OwnModels == Spec => []ClientsFitTheirVendors
<1>1. Inv => ClientsFitTheirVendors
  <2> SUFFICES ASSUME Inv, NEW role \in Roles, client[role] # None
               PROVE  /\ client[role].vendor = VendorFor(env, role)
                      /\ WellNamed(env)
                           /\ (FallbackFits(env, role) \/ FallbackLeft(role)) =>
                         HomeOf[client[role].model] = client[role].vendor
    BY DEF ClientsFitTheirVendors
  <2>1. env \in Environments
    BY TeamAssumption DEF Inv, TypeOK
  <2>2. /\ CanBuild(env, role)
        /\ client[role] \in {ClientFor(env, role), FallbackFor(env, role)}
    BY DEF Inv, ClientsAreConfigured
  <2>3. FallbackLeft(role) => client[role] = ClientFor(env, role)
    BY DEF FallbackLeft
  <2> QED
    BY <2>1, <2>2, <2>3, ClientsAreAtHome
<1> QED
  BY <1>1, Invariance, PTL

-----------------------------------------------------------------------------
(* The agents implement the run pipeline. *)

\* A step within a turn, a round or a stage.
LEMMA Within ==
  ASSUME UNCHANGED <<stage, settled, rounds, best, shown, review, pr, status,
                     raised>>
  PROVE  UNCHANGED P!vars
  BY DEF P!vars, P!agentVars, P!codeVars, P!resultVars, P!rowVars, P!hostVars

\* The Planner's calls add up to one Plan.
LEMMA PlannerPlans ==
  ASSUME Inv, StartPlanner \/ PlannerAnswers \/ PlannerCallFails
  PROVE  P!Plan \/ UNCHANGED P!vars
<1>1. /\ stage = "plan"
      /\ UNCHANGED <<rounds, best, shown, review, pr, tree, raised>>
  BY DEF StartPlanner, PlannerAnswers, PlannerCallFails, Planning,
         PlannerKeeps, coderVars, traceVars
<1>2. \/ UNCHANGED <<stage, status, settled>>
      \/ stage' = "sandbox" /\ UNCHANGED status /\ Settle
  BY DEF StartPlanner, PlannerAnswers, PlannerCallFails, PlannerGivesUp,
         Planned, Goto, Stay
<1>3. CASE UNCHANGED <<stage, status, settled>>
  BY <1>1, <1>3, Within
<1>4. CASE stage' = "sandbox" /\ UNCHANGED status /\ Settle
  <2>1. /\ steps \in Nat /\ settled.steps \in Nat /\ tree = settled.tree
        /\ settled.steps <= steps /\ steps <= settled.steps + 3
    BY <1>1 DEF Inv, TypeOK, TurnsSettle, Switched, CoderStages
  <2>2. steps' = steps \/ steps' = steps + 1
    BY DEF StartPlanner, PlannerAnswers, PlannerCallFails, Recorded,
           Unrecorded
  <2>3. settled'.steps - settled.steps \in 0..4
    BY <1>4, <2>1, <2>2 DEF Settle
  <2>4. settled'.steps = settled.steps + (settled'.steps - settled.steps)
    BY <1>4, <2>1, <2>2 DEF Settle
  <2>5. settled'.tree = settled.tree
    BY <1>1, <1>4, <2>1 DEF Settle
  <2> QED
    BY <1>1, <1>4, <2>3, <2>4, <2>5
       DEF P!Plan, P!Spend, P!Goto, P!codeVars, P!rowVars, P!hostVars
<1> QED
  BY <1>2, <1>3, <1>4

\* The sandbox and the Coder are set up in one step each.
LEMMA SetupSimulated ==
  ASSUME Inv, StartSandbox \/ StartCoder
  PROVE  P!StartSandbox \/ P!SetUpCoder
<1>1. UNCHANGED <<settled, rounds, best, shown, review, pr, raised>>
  BY DEF StartSandbox, StartCoder, coderVars, traceVars
<1>2. status # "completed"
  BY DEF Inv, CompletedLast, StartSandbox, StartCoder
<1> USE DEF Goto, EndAs, P!Goto, P!EndAs, P!Fail, P!agentVars, P!codeVars,
            P!rowVars, P!hostVars
<1>3. CASE StartSandbox
  BY <1>1, <1>2, <1>3 DEF StartSandbox, P!StartSandbox
<1>4. CASE StartCoder
  BY <1>1, <1>2, <1>4 DEF StartCoder, P!SetUpCoder
<1> QED
  BY <1>3, <1>4

\* The end of ReActAgent.run is the Coder's return.
LEMMA ReturnSimulated ==
  ASSUME Inv, stage \in CoderStages, CoderKeeps, tree' = tree,
         NEW r, NEW n, CoderReturns(r, n),
         NEW t, r = "completed" => t = tree
  PROVE  P!CoderReturns(r, t)
<1>1. status # "completed"
  BY DEF Inv, CompletedLast, CoderStages
<1>2. UNCHANGED <<rounds, review, pr>>
  BY DEF CoderKeeps
<1>3. CASE r = "completed"
  BY <1>1, <1>2, <1>3
     DEF CoderReturns, Show, Goto, P!CoderReturns, P!CaptureDiff,
         P!ReviewOrSubmit, P!Goto, P!rowVars, P!hostVars
<1>4. CASE r # "completed"
  BY <1>1, <1>2, <1>4
     DEF CoderReturns, Goto, EndAs, P!CoderReturns, P!Goto, P!EndAs,
         P!rowVars, P!hostVars
<1> QED
  BY <1>3, <1>4

\* Asking, answering and the tools of one answer add up to one CoderTurn.
LEMMA CoderSimulated ==
  ASSUME Inv, Coder \/ CoderRaises
  PROVE  \/ P!CoderTurn \/ P!CoderStops \/ P!CoderCallFails
         \/ P!CoderRaises \/ UNCHANGED P!vars
<1>1. stage \in CoderStages /\ CoderKeeps
  BY DEF Coder, CoderStops, CoderRaises, CoderCallFails, CoderAnswers,
         CoderAsksForTools, CoderIsAnswered, Edit, RunTests, Look, Dispatches,
         ReturnResults, Coding, CoderStages
<1>2. /\ at = "ask" => steps = settled.steps /\ tree = settled.tree
      /\ at # "ask" => /\ steps = settled.steps + 1
                       /\ settled.steps < MaxSteps
                       /\ tree \in {settled.tree, settled.tree + 1}
      /\ steps \in Nat /\ settled.steps \in Nat /\ MaxSteps \in Nat
  BY <1>1, TeamAssumption DEF Inv, TypeOK, TurnsSettle
<1>3. status # "completed"
  BY <1>1 DEF Inv, CompletedLast, CoderStages
<1>4. UNCHANGED <<rounds, review, pr>>
  BY <1>1 DEF CoderKeeps
<1>5. P!Coding
  BY <1>1 DEF P!Coding, CoderStages
<1> USE DEF P!agentVars, P!codeVars, P!rowVars, P!hostVars, P!Goto, P!Spend,
            P!ToolsRun
<1>6. CASE CoderStops
  <2>1. /\ at = "ask" /\ steps >= MaxSteps /\ UNCHANGED <<steps, tree>>
        /\ CoderReturns("out_of_budget", listed)
    BY <1>6 DEF CoderStops, Coding, ToolsKeep
  <2>2. settled' = [steps |-> steps, tree |-> tree]
    BY <2>1 DEF CoderReturns, Settle
  <2>3. P!CoderReturns("out_of_budget", tree)
    BY <1>1, <2>1, ReturnSimulated
  <2> QED
    BY <1>2, <1>5, <2>1, <2>2, <2>3 DEF P!CoderStops
<1>7. CASE CoderCallFails
  <2>1. at = "ask" /\ steps < MaxSteps /\ UNCHANGED <<steps, tree>>
    BY <1>7 DEF CoderCallFails, Coding, ToolsKeep, Unrecorded
  <2>2. ASSUME NEW r \in {"provider_error", "error"}, CoderReturns(r, listed)
        PROVE  P!CoderCallFails
    <3>1. settled' = [steps |-> steps, tree |-> tree]
      BY <2>1, <2>2 DEF CoderReturns, Settle
    <3>2. P!CoderReturns(r, tree)
      BY <1>1, <2>1, <2>2, ReturnSimulated
    <3> QED
      BY <1>2, <1>5, <2>1, <3>1, <3>2 DEF P!CoderCallFails
  <2>3. CASE CoderContinues(0) /\ UNCHANGED settled
    BY <1>4, <2>3, Within DEF CoderContinues, Stay
  <2> QED
    BY <1>7, <2>2, <2>3 DEF CoderCallFails
<1>8. CASE CoderAnswers
  <2>1. /\ at = "ask" /\ steps < MaxSteps /\ steps' = steps + 1
        /\ UNCHANGED tree
    BY <1>8 DEF CoderAnswers, CoderIsAnswered, Recorded, Coding, ToolsKeep
  <2>2. ASSUME NEW r \in {"completed", "refused", "max_tokens",
                          "provider_error"},
               NEW n, CoderReturns(r, n)
        PROVE  P!CoderTurn
    <3>1. settled' = [steps |-> steps + 1, tree |-> tree]
      BY <2>1, <2>2 DEF CoderReturns, Settle
    <3>2. P!CoderReturns(r, tree)
      BY <1>1, <2>1, <2>2, ReturnSimulated
    <3> QED
      BY <1>2, <1>5, <2>1, <3>1, <3>2 DEF P!CoderTurn
  <2>3. CASE CoderContinues(1) /\ Settle
    <3>1. settled' = [steps |-> steps + 1, tree |-> tree]
      BY <2>1, <2>3 DEF Settle
    <3>2. UNCHANGED <<stage, status, best, shown, raised>>
      BY <2>3 DEF CoderContinues, Stay
    <3> QED
      BY <1>2, <1>4, <1>5, <2>1, <3>1, <3>2 DEF P!CoderTurn
  <2> QED
    BY <1>8, <2>2, <2>3 DEF CoderAnswers
<1>9. CASE CoderAsksForTools
  BY <1>4, <1>9, Within DEF CoderAsksForTools, Stay
<1>10. CASE (\E file \in Files : Edit(file)) \/ RunTests \/ Look
  BY <1>4, <1>10, Within DEF Edit, RunTests, Look, Dispatches, traceVars
<1>11. CASE ReturnResults
  <2>1. at = "tools" /\ UNCHANGED <<steps, tree>>
    BY <1>11 DEF ReturnResults, Coding, ToolsKeep
  <2>2. settled' = [steps |-> steps, tree |-> tree]
    BY <1>11, <2>1 DEF ReturnResults, CoderReturns, Settle
  <2>3. CASE CoderContinues(1)
    <3>1. UNCHANGED <<stage, status, best, shown, raised>>
      BY <2>3 DEF CoderContinues, Stay
    <3> QED
      BY <1>2, <1>4, <1>5, <2>1, <2>2, <3>1 DEF P!CoderTurn
  <2>4. CASE CoderReturns("provider_error", listed)
    <3>1. P!CoderReturns("provider_error", settled.tree)
      BY <1>1, <2>1, <2>4, ReturnSimulated
    <3> QED
      BY <1>2, <1>5, <2>1, <2>2, <3>1 DEF P!CoderTurn
  <2> QED
    BY <1>11, <2>3, <2>4 DEF ReturnResults
<1>12. CASE CoderRaises
  <2>1. /\ UNCHANGED <<steps, tree, best, shown>>
        /\ settled' = [steps |-> steps, tree |-> tree]
    BY <1>12 DEF CoderRaises, Settle
  <2>2. P!CoderRaising
    <3>1. CASE at = "ask"
      BY <1>2, <1>3, <1>4, <1>5, <1>12, <2>1, <3>1
         DEF P!CoderRaising, CoderRaises, Goto, EndAs
    <3>2. CASE at # "ask"
      BY <1>2, <1>3, <1>4, <1>5, <1>12, <2>1, <3>2
         DEF P!CoderRaising, CoderRaises, Goto, EndAs
    <3> QED
      BY <3>1, <3>2
  <2>3. \/ stage = "code" /\ (P!Fail("provider_error") \/ P!Escape("agent"))
        \/ stage = "rerun" /\ P!Goto("submit")
    BY <1>1, <1>12
       DEF CoderRaises, Goto, EndAs, P!Fail, P!EndAs, P!Escape, Inv,
           CallsAreListed
  <2> QED
    BY <2>2, <2>3 DEF P!CoderRaises
<1> QED
  BY <1>6, <1>7, <1>8, <1>9, <1>10, <1>11, <1>12 DEF Coder

\* The Reviewer's calls add up to one review, or to none.
LEMMA ReviewerSimulated ==
  ASSUME Inv, StartReviewer \/ ReviewerAnswers \/ ReviewerCallFails
  PROVE  P!Review \/ P!ReviewRaises \/ UNCHANGED P!vars
<1>1. /\ stage = "review" /\ UNCHANGED <<best, shown, pr, tree, raised>>
      /\ steps' = steps \/ steps' = steps + 1
  BY DEF StartReviewer, ReviewerAnswers, ReviewerCallFails, Reviewing,
         ReviewerKeeps, Recorded, Unrecorded, coderVars, traceVars
<1>2. \/ UNCHANGED <<stage, status, settled, rounds, review>>
      \/ ReviewSkipped
      \/ \E verdict \in {"approve", "request_changes", "unavailable"} :
           Reviewed(verdict)
  BY DEF StartReviewer, ReviewerAnswers, ReviewerCallFails, ReviewerGivesUp,
         Stay
<1>3. /\ steps \in Nat /\ settled.steps \in Nat /\ tree = settled.tree
      /\ settled.steps <= steps /\ steps <= settled.steps + 1
      /\ rounds \in Nat
  BY <1>1 DEF Inv, TypeOK, TurnsSettle, Switched, CoderStages
<1>4. ASSUME NEW s, RoundEnds(s)
      PROVE  /\ P!ReviewCalls
             /\ stage' = s /\ UNCHANGED status /\ rounds' = rounds + 1
  <2>1. settled' = [steps |-> steps', tree |-> tree]
    BY <1>1, <1>4 DEF RoundEnds, Settle
  <2>2. settled'.steps - settled.steps \in 0..2
    BY <1>1, <1>3, <2>1
  <2>3. settled'.steps = settled.steps + (settled'.steps - settled.steps)
    BY <1>1, <1>3, <2>1
  <2> QED
    BY <1>1, <1>3, <1>4, <2>1, <2>2, <2>3
       DEF RoundEnds, Goto, P!ReviewCalls, P!Spend, P!rowVars, P!hostVars
<1>5. CASE UNCHANGED <<stage, status, settled, rounds, review>>
  BY <1>1, <1>5, Within
<1>6. CASE ReviewSkipped
  <2>1. P!ReviewCalls /\ stage' = "submit" /\ UNCHANGED status
    BY <1>4, <1>6 DEF ReviewSkipped
  <2> QED
    BY <1>1, <1>6, <2>1 DEF ReviewSkipped, P!ReviewRaises, P!Goto
<1>7. ASSUME NEW verdict \in {"approve", "request_changes", "unavailable"},
             Reviewed(verdict)
      PROVE  P!Review
  <2> DEFINE next == IF verdict = "request_changes"
                          /\ rounds + 1 < MaxReviewRounds
                       THEN "rerun" ELSE "submit"
  <2>1. RoundEnds(next) /\ review' = [verdict |-> verdict, of |-> shown.diff]
    BY <1>7 DEF Reviewed
  <2>2. /\ P!ReviewCalls
        /\ stage' = next /\ UNCHANGED status /\ rounds' = rounds + 1
    BY <1>4, <2>1
  <2>3. review' \in P!Judgements
    BY <2>1 DEF P!Judgements, P!Verdicts
  <2>4. review'.verdict = verdict
    BY <2>1
  <2> QED
    BY <1>1, <2>2, <2>3, <2>4 DEF P!Review, P!AfterReview, P!Goto
<1> QED
  BY <1>2, <1>5, <1>6, <1>7

\* What the run does with it, and its death.
LEMMA EndSimulated ==
  ASSUME Inv, Ship \/ Report \/ Killed
  PROVE  P!Submit \/ P!SubmitFails \/ P!Report \/ P!Killed
<1>1. UNCHANGED <<settled, rounds, best, shown, review, raised>>
  BY DEF Ship, Report, Killed, RunKeeps, coderVars, traceVars
<1> USE DEF P!agentVars, P!codeVars, P!resultVars, P!rowVars, P!hostVars
<1>2. CASE Ship
  <2>1. status # "completed" /\ stage = "submit" /\ tree = settled.tree
    BY <1>2 DEF Ship, Inv, CompletedLast, TurnsSettle, CoderStages
  <2>2. pr = None
    BY <2>1 DEF Inv, PrIsLast
  <2>3. CASE EndAs("report", "no_changes") /\ UNCHANGED pr
    BY <1>1, <2>1, <2>3 DEF EndAs, P!EndAs, P!Submit
  <2>4. CASE EndAs("closeSandbox", "github_error") /\ UNCHANGED pr
    BY <1>1, <2>1, <2>4 DEF EndAs, P!EndAs, P!SubmitFails, P!Fail
  <2>5. CASE /\ tree # 0 /\ EndAs("report", "completed")
             /\ pr' = [tree |-> tree, notes |-> review.verdict,
                       deviations |-> deviations]
    <3>1. pr' \in PullRequests
      BY <2>5 DEF Inv, TypeOK, PullRequests
    <3>2. pr' # None
      BY <3>1, TeamAssumption
    <3> QED
      BY <1>1, <2>1, <2>2, <2>5, <3>2
         DEF EndAs, P!EndAs, P!Submit, P!OpenPullRequest, P!ReviewerNotes
  <2> QED
    BY <1>2, <2>3, <2>4, <2>5 DEF Ship
<1>3. CASE Report
  BY <1>1, <1>3 DEF Report, Goto, P!Report, P!Goto
<1>4. CASE Killed
  <2>1. stage \notin {"done", "raised", "dead"}
    BY <1>4 DEF Killed, Inv, TypeOK
  <2> QED
    BY <1>1, <1>4, <2>1 DEF Killed, shipVars, P!Killed, P!Ended
<1> QED
  BY <1>2, <1>3, <1>4

\* Every step of the agents is a step of the run pipeline or none at all: what
\* is proved of Pipeline's review loop and its gate on the best result holds
\* of the agents themselves.
THEOREM Refinement == Spec => ImplementsPipeline
<1>1. Inv /\ [Next]_vars => [P!Next]_(P!vars)
  <2> SUFFICES ASSUME Inv, [Next]_vars PROVE P!Next \/ UNCHANGED P!vars
    OBVIOUS
  <2>1. CASE StartPlanner \/ PlannerAnswers \/ PlannerCallFails
    BY <2>1, PlannerPlans DEF P!Next, P!Step
  <2>2. CASE StartSandbox \/ StartCoder
    BY <2>2, SetupSimulated DEF P!Next, P!Step, P!Coder
  <2>3. CASE Coder \/ CoderRaises
    <3>1. CASE P!CoderRaises
      BY <3>1 DEF P!Next, P!Unexpected
    <3>2. CASE P!CoderTurn \/ P!CoderStops \/ P!CoderCallFails
      BY <3>2 DEF P!Next, P!Step, P!Coder
    <3> QED
      BY <2>3, <3>1, <3>2, CoderSimulated
  <2>4. CASE StartReviewer \/ ReviewerAnswers \/ ReviewerCallFails
    BY <2>4, ReviewerSimulated DEF P!Next, P!Step
  <2>5. CASE Ship \/ Report \/ Killed
    BY <2>5, EndSimulated DEF P!Next, P!Step
  <2>6. CASE UNCHANGED vars
    BY <2>6, Within DEF vars, shipVars, coderVars, traceVars
  <2> QED
    BY <2>1, <2>2, <2>3, <2>4, <2>5, <2>6 DEF Next, Step
<1> QED
  BY <1>1, Invariance, PTL DEF Spec, ImplementsPipeline

-----------------------------------------------------------------------------
(* What is proved of the run pipeline holds of the agents. *)

PL == INSTANCE PipelineProofs WITH
  PlannerCalls <- 4, ReviewerCalls <- 2,
  pc <- stage, softHit <- FALSE, spent <- settled.steps, reviews <- rounds,
  tree <- settled.tree, diff <- shown.diff,
  pr <- IF pr = None THEN None ELSE [tree |-> pr.tree, notes |-> pr.notes],
  prUrl <- status = "completed",
  escaped <- IF raised = "escaped" THEN "agent" ELSE "nothing",
  row <- "running", rowUrl <- FALSE,
  held <- {"workspace"}, left <- {"workspace", "vectors"}, stuck <- {}

\* The instance with the proofs is another one, but it has the same steps.
LEMMA SameSteps == [P!Next]_(P!vars) <=> [PL!Next]_(PL!vars)
  BY DEF P!Verdicts, PL!Verdicts, P!agentVars, PL!agentVars, P!codeVars,
         PL!codeVars, P!resultVars, PL!resultVars, P!rowVars, PL!rowVars,
         P!hostVars, PL!hostVars, P!vars, PL!vars, P!Working, PL!Working,
         P!Cleanup, PL!Cleanup, P!Ended, PL!Ended, P!AgentStatuses,
         PL!AgentStatuses, P!Statuses, PL!Statuses, P!Goto, PL!Goto, P!Fail,
         PL!Fail, P!Spend, PL!Spend, P!Fetch, PL!Fetch, P!Clone, PL!Clone,
         P!CreateBranch, PL!CreateBranch, P!Index, PL!Index, P!Plan, PL!Plan,
         P!StartSandbox, PL!StartSandbox, P!Coding, PL!Coding, P!SetUpCoder,
         PL!SetUpCoder, P!CaptureDiff, PL!CaptureDiff, P!ReviewOrSubmit,
         PL!ReviewOrSubmit, P!CoderReturns, PL!CoderReturns, P!CoderTurn,
         PL!CoderTurn, P!CoderStops, PL!CoderStops, P!CoderCallFails,
         PL!CoderCallFails, P!AfterReview, PL!AfterReview, P!Judgements,
         PL!Judgements, P!ReviewCalls, PL!ReviewCalls, P!Review, PL!Review,
         P!ReviewRaises, PL!ReviewRaises, P!ReviewerNotes, PL!ReviewerNotes,
         P!OpenPullRequest, PL!OpenPullRequest, P!Submit, PL!Submit,
         P!SubmitFails, PL!SubmitFails, P!Report, PL!Report, P!Remove,
         PL!Remove, P!CloseSandbox, PL!CloseSandbox, P!DropVectors,
         PL!DropVectors, P!RemoveWorkspace, PL!RemoveWorkspace, P!UpdateRow,
         PL!UpdateRow, P!Escapes, PL!Escapes, P!CoderRaising,
         PL!CoderRaising, P!CoderRaises, PL!CoderRaises, P!EndAs, PL!EndAs,
         P!Escape, PL!Escape, P!HasContainer, PL!HasContainer,
         P!HasNoContainer, PL!HasNoContainer, P!ToolsRun, PL!ToolsRun,
         P!CleanupRaises, PL!CleanupRaises, P!Unexpected, PL!Unexpected,
         P!Swallowed, PL!Swallowed, P!ReviewBreaksOff, PL!ReviewBreaksOff,
         P!SoftLimit, PL!SoftLimit, P!Killed, PL!Killed, P!Coder, PL!Coder,
         P!Finally, PL!Finally, P!Step, PL!Step, P!Next, PL!Next

\* Its assumption on the constants holds here.
LEMMA PipelineFits == PL!PipelineAssumption
  BY TeamAssumption DEF PL!PipelineAssumption, PL!Verdicts, Verdicts

\* The Planner is first asked in a state that the pipeline's invariant allows.
LEMMA PipelineBegins == Init => PL!Inv
<1> SUFFICES ASSUME Init PROVE PL!Inv
  OBVIOUS
<1>1. /\ stage = "plan" /\ settled = [steps |-> 0, tree |-> 0] /\ rounds = 0
      /\ best = None /\ shown = [diff |-> None, tests |-> 0] /\ pr = None
      /\ review = [verdict |-> "unset", of |-> None] /\ status = "error"
      /\ raised = "no"
  BY DEF Init
<1>2. PL!TypeOK
  BY <1>1 DEF PL!TypeOK, PL!Working, PL!Cleanup, PL!Ended, PL!Statuses,
              PL!AgentStatuses, PL!Verdicts, PL!Versions, PL!Resources
<1>3. PL!Budgeted
  BY <1>1, TeamAssumption
     DEF PL!Budgeted, PL!Rounds, PL!SpendingIsBounded, PL!Larger,
         PL!BeforePlan, PL!BeforeReview
<1>4. PL!Judged
  BY <1>1 DEF PL!Judged, PL!BeforePlan, PL!BeforeReview, PL!BeforeSubmit
<1>5. PL!Consistent
  BY <1>1 DEF PL!Consistent, PL!Shipped, PL!Told, PL!Recorded, PL!BeforePlan,
              PL!BeforeReview, PL!BeforeSubmit, PL!Cleanup
<1>6. PL!Accounted
  BY <1>1 DEF PL!Accounted, PL!Working
<1> QED
  BY <1>2, <1>3, <1>4, <1>5, <1>6 DEF PL!Inv

\* Call by call, the agents keep the invariant of the run pipeline.
THEOREM PipelineInvariance == Spec => []PL!Inv
<1>1. PL!Inv /\ [PL!Next]_(PL!vars) => PL!Inv'
  BY PipelineFits, PL!NextInv
<1>2. PL!Inv /\ [P!Next]_(P!vars) => PL!Inv'
  BY <1>1, SameSteps
<1> QED
  BY <1>2, PipelineBegins, Refinement, PTL DEF Spec, ImplementsPipeline

\* However often the three agents are asked, nudged and replaced, what they
\* charge to the budget by the end of a turn is within the pipeline's bound.
THEOREM AgentsSpendLittle == Spec => []P!SpendingIsBounded
<1>1. PL!Inv => P!SpendingIsBounded
  BY DEF PL!Inv, PL!Budgeted, PL!SpendingIsBounded, PL!Larger,
         P!SpendingIsBounded, P!Larger
<1> QED
  BY <1>1, PipelineInvariance, PTL

\* A pull request of the agents that reads as approved ships what the Reviewer
\* saw, and one without a verdict followed no round but the first.
THEOREM AgentsShipWhatWasApproved ==
  Spec => [](P!ApprovalIsOfWhatShips /\ P!VerdictIsKept)
<1>1. PL!Inv => P!ApprovalIsOfWhatShips /\ P!VerdictIsKept
  BY DEF PL!Inv, PL!Judged, P!ApprovalIsOfWhatShips, P!VerdictIsKept
<1> QED
  BY <1>1, PipelineInvariance, PTL
=============================================================================
