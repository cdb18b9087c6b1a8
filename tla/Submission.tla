----------------------------- MODULE Submission -----------------------------
(***************************************************************************)
(* Turning a working tree into a pull request (agent/github.py,            *)
(* submit_changes): commit, push, open a pull request or adopt the one     *)
(* that is there, by several runs of one issue, which share the branch     *)
(* agent/issue-N, against a GitHub whose answers may be lost and people    *)
(* who work on the branch too.                                             *)
(*                                                                         *)
(* A commit is named by the run that made it; Others is anybody else's.    *)
(* GitHub and git are external: the actions under "GitHub" say what the    *)
(* code can see of them.                                                   *)
(***************************************************************************)
EXTENDS Naturals

CONSTANTS
  Runs,        \* runs of one issue
  Others,      \* people's commits on the branch
  MaxRetries   \* _MAX_RETRIES, the repetitions of one REST call

ASSUME SubmissionAssumption == Others \notin Runs /\ MaxRetries \in Nat

VARIABLES
  pc,       \* pc[r]: where run r is in submit_changes
  tries,    \* tries[r]: repetitions of the REST call in progress
  failure,  \* failure[r]: what made submit_changes raise
  branch,   \* the commits on agent/issue-N beyond its base; {} without it
  openPr,   \* whether a pull request for the branch is open
  merged,   \* the commits that were merged
  deleted,  \* the commits that went away when a person deleted the branch
  closed    \* whether a person ever closed a pull request of the branch

runVars == <<pc, tries, failure>>
remoteVars == <<branch, openPr, merged, deleted, closed>>
vars == <<runVars, remoteVars>>

Commits == Runs \union {Others}

\* "git": a git command; "rejected": the push; "refused": a 422 with no pull
\* request to adopt; "api": any other REST failure.
Failures == {"none", "git", "rejected", "refused", "api"}

TypeOK ==
  /\ pc \in [Runs -> {"commit", "push", "post", "find", "done",
                      "unchanged", "failed"}]
  /\ tries \in [Runs -> 0..MaxRetries]
  /\ failure \in [Runs -> Failures]
  /\ branch \subseteq Commits
  /\ openPr \in BOOLEAN
  /\ merged \subseteq Commits /\ deleted \subseteq Commits
  /\ closed \in BOOLEAN

\* Every run has a fresh shallow clone of the base with edits or without.
Init ==
  /\ pc = [r \in Runs |-> "commit"]
  /\ tries = [r \in Runs |-> 0]
  /\ failure = [r \in Runs |-> "none"]
  /\ branch = {}
  /\ openPr = FALSE
  /\ merged = {} /\ deleted = {} /\ closed = FALSE

-----------------------------------------------------------------------------
Goto(r, step) ==
  /\ pc' = [pc EXCEPT ![r] = step]
  /\ tries' = [tries EXCEPT ![r] = 0]
  /\ UNCHANGED failure

Fail(r, why) ==
  /\ pc' = [pc EXCEPT ![r] = "failed"]
  /\ failure' = [failure EXCEPT ![r] = why]
  /\ UNCHANGED tries

\* commit_all: nothing staged means no pull request.
Commit(r) ==
  /\ pc[r] = "commit"
  /\ Goto(r, "push") \/ Goto(r, "unchanged") \/ Fail(r, "git")
  /\ UNCHANGED remoteVars

\* Mutant: push --force.
PushForced(r) ==
  /\ pc[r] = "push"
  /\ branch' = {r}
  /\ Goto(r, "post")
  /\ UNCHANGED <<openPr, merged, deleted, closed>>

\* push --force-with-lease to a URL: the clone has no remote-tracking ref of
\* the branch, so the lease is that there is no such branch.  A push that
\* times out may have arrived.
Push(r) ==
  /\ pc[r] = "push"
  /\ \/ branch = {} /\ branch' = {r} /\ (Goto(r, "post") \/ Fail(r, "git"))
     \/ branch # {} /\ UNCHANGED branch /\ Fail(r, "rejected")
     \/ UNCHANGED branch /\ Fail(r, "git")
  /\ UNCHANGED <<openPr, merged, deleted, closed>>

\* A network error or a retryable status: once more, or give up.
RetryOrFail(r) ==
  \/ /\ tries[r] < MaxRetries
     /\ tries' = [tries EXCEPT ![r] = @ + 1]
     /\ UNCHANGED <<pc, failure>>
  \/ tries[r] = MaxRetries /\ Fail(r, "api")

\* GitHub opens a pull request when the branch has commits to propose and
\* none is open for it.
MayOpen == ~openPr /\ ~(branch \subseteq merged)

\* One POST /pulls that GitHub acts on: 201, or an answer that is lost, or
\* one that cannot be read.
PostOpens(r) ==
  /\ pc[r] = "post"
  /\ MayOpen
  /\ openPr' = TRUE
  /\ Goto(r, "done") \/ RetryOrFail(r) \/ Fail(r, "api")
  /\ UNCHANGED <<branch, merged, deleted, closed>>

\* Mutant: a 422 is an error like any other.
PostRefusedRaises(r) ==
  /\ pc[r] = "post"
  /\ ~MayOpen
  /\ Fail(r, "refused") \/ RetryOrFail(r)
  /\ UNCHANGED remoteVars

\* 422: look for the pull request that is in the way.
PostRefused(r) ==
  /\ pc[r] = "post"
  /\ ~MayOpen
  /\ Goto(r, "find") \/ RetryOrFail(r)
  /\ UNCHANGED remoteVars

\* One that does not reach GitHub, or that it turns down: 401, 403, 404.
PostFails(r) ==
  /\ pc[r] = "post"
  /\ RetryOrFail(r) \/ Fail(r, "api")
  /\ UNCHANGED remoteVars

\* Mutant: with no pull request to adopt, the POST is made again.
FindOrPostAgain(r) ==
  /\ pc[r] = "find"
  /\ \/ openPr /\ Goto(r, "done")
     \/ ~openPr /\ Goto(r, "post")
  /\ UNCHANGED remoteVars

\* find_pull_request: adopt the open one, or raise the 422 again.
Find(r) ==
  /\ pc[r] = "find"
  /\ \/ openPr /\ Goto(r, "done")
     \/ ~openPr /\ Fail(r, "refused")
     \/ RetryOrFail(r) \/ Fail(r, "api")
  /\ UNCHANGED remoteVars

-----------------------------------------------------------------------------
(* GitHub: what people do there meanwhile. *)

PeoplePush ==
  /\ branch # {}
  /\ branch' = branch \union {Others}
  /\ UNCHANGED <<runVars, openPr, merged, deleted, closed>>

\* Merging may delete the branch.
Merge ==
  /\ openPr
  /\ openPr' = FALSE
  /\ merged' = merged \union branch
  /\ branch' \in {branch, {}}
  /\ UNCHANGED <<runVars, deleted, closed>>

ClosePr ==
  /\ openPr
  /\ openPr' = FALSE
  /\ closed' = TRUE
  /\ UNCHANGED <<runVars, branch, merged, deleted>>

\* Deleting the branch closes its pull request.
DeleteBranch ==
  /\ branch # {}
  /\ deleted' = deleted \union branch
  /\ branch' = {}
  /\ openPr' = FALSE
  /\ UNCHANGED <<runVars, merged, closed>>

Submit(r) ==
  \/ Commit(r) \/ Push(r)
  \/ PostOpens(r) \/ PostRefused(r) \/ PostFails(r) \/ Find(r)

People == PeoplePush \/ Merge \/ ClosePr \/ DeleteBranch

Next == (\E r \in Runs : Submit(r)) \/ People

Spec == Init /\ [][Next]_vars

\* git and HTTP calls have time limits, so a run's next step is taken.
FairSpec == Spec /\ \A r \in Runs : WF_vars(Submit(r))
-----------------------------------------------------------------------------
\* "never clobber commits it has not seen": a commit leaves the branch only by
\* being merged or because a person deleted the branch, never by a run's push,
\* though every run starts from a clone that does not know the branch.
NoCommitIsClobbered ==
  [][\A c \in branch : c \in branch' \union merged' \union deleted']_vars

\* What a run reports as done is on the branch, was merged, or was removed by
\* a person: no later or concurrent run undoes it.
DoneMeansDelivered ==
  \A r \in Runs : pc[r] = "done" => r \in branch \union merged \union deleted

\* It takes a person to have a run refused: without anybody who closed or
\* merged a pull request or deleted the branch, a 422 is always of a pull
\* request that can be adopted.  So neither the one an earlier try of the same
\* POST opened, its answer lost, nor the one of another run ever fails a run.
RefusalTakesAPerson ==
  \A r \in Runs : failure[r] = "refused" =>
    closed \/ merged # {} \/ deleted # {}

\* Every submission ends, however often GitHub asks for another try.
EverySubmissionEnds ==
  \A r \in Runs : <>(pc[r] \in {"done", "unchanged", "failed"})

-----------------------------------------------------------------------------
(* What a docstring promises and the code does not do. *)

\* "re-running on the same issue updates the same branch (and thus the same
\* PR)": a push is only rejected to spare somebody else's commits.
RerunUpdatesTheBranch ==
  [][\A r \in Runs : failure[r] # "rejected" /\ failure'[r] = "rejected"
       => Others \in branch]_vars
=============================================================================
