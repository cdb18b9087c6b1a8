-------------------------- MODULE SubmissionProofs --------------------------
(***************************************************************************)
(* Proofs about Submission, for any number of runs of one issue and of     *)
(* repetitions of a REST call.                                             *)
(***************************************************************************)
EXTENDS Submission, TLAPS

\* A run that has pushed: its commit is on the branch, was merged, or went
\* away with a branch a person deleted, at every later step of submit_changes.
PushedIsDelivered ==
  \A r \in Runs : pc[r] \in {"post", "find", "done"} =>
    r \in branch \union merged \union deleted

\* Somebody has taken a pull request or the branch away.
PersonActed == closed \/ merged # {} \/ deleted # {}

\* A run that looks for the pull request in its way finds one, unless somebody
\* has taken it away: the branch it pushed was refused for one or was merged.
FoundUnlessTaken ==
  \A r \in Runs : pc[r] = "find" => openPr \/ PersonActed

Inv ==
  TypeOK /\ PushedIsDelivered /\ FoundUnlessTaken /\ RefusalTakesAPerson

-----------------------------------------------------------------------------
\* Nothing has been pushed at the start.
LEMMA InitInv == Init => Inv
<1> SUFFICES ASSUME Init PROVE Inv
  OBVIOUS
<1>1. 0 \in 0..MaxRetries
  BY SubmissionAssumption
<1>2. TypeOK
  BY <1>1 DEF Init, TypeOK, Failures, Commits
<1>3. PushedIsDelivered
  BY DEF Init, PushedIsDelivered
<1>4. FoundUnlessTaken /\ RefusalTakesAPerson
  BY DEF Init, FoundUnlessTaken, RefusalTakesAPerson
<1> QED
  BY <1>2, <1>3, <1>4 DEF Inv

\* A step of run r stays within the types, and moves only r.
LEMMA SubmitMovesOne ==
  ASSUME TypeOK, NEW r \in Runs, Submit(r)
  PROVE  /\ \E step \in {"commit", "push", "post", "find", "done",
                         "unchanged", "failed"} :
              pc' = [pc EXCEPT ![r] = step]
         /\ \E n \in 0..MaxRetries : tries' = [tries EXCEPT ![r] = n]
         /\ \E why \in Failures : failure' = [failure EXCEPT ![r] = why]
<1> USE SubmissionAssumption DEF TypeOK, Goto, Fail, RetryOrFail, Failures
<1>1. CASE Commit(r)
  BY <1>1 DEF Commit
<1>2. CASE Push(r)
  BY <1>2 DEF Push
<1>3. CASE PostOpens(r)
  BY <1>3 DEF PostOpens
<1>4. CASE PostRefused(r)
  BY <1>4 DEF PostRefused
<1>5. CASE PostFails(r)
  BY <1>5 DEF PostFails
<1>6. CASE Find(r)
  BY <1>6 DEF Find
<1> QED
  BY <1>1, <1>2, <1>3, <1>4, <1>5, <1>6 DEF Submit

\* The remote only changes by a push of r's commit to a branch that was not
\* there and by the pull request that is opened.
LEMMA SubmitOnlyAdds ==
  ASSUME NEW r \in Runs, Submit(r)
  PROVE  /\ branch' = branch \/ (branch = {} /\ branch' = {r})
         /\ openPr => openPr'
         /\ UNCHANGED <<merged, deleted, closed>>
  BY DEF Submit, Commit, Push, PostOpens, PostRefused, PostFails, Find,
         remoteVars

\* People keep the runs where they are, and every commit somewhere.
LEMMA PeopleKeepCommits ==
  ASSUME TypeOK, People
  PROVE  /\ UNCHANGED runVars
         /\ branch \union merged \union deleted
              \subseteq branch' \union merged' \union deleted'
         /\ branch' \subseteq branch \union {Others}
         /\ merged' \subseteq merged \union branch
         /\ deleted' \subseteq deleted \union branch
         /\ openPr' \in BOOLEAN /\ closed' \in BOOLEAN
  BY DEF TypeOK, People, PeoplePush, Merge, ClosePr, DeleteBranch

\* People take a pull request away only in ways that are remembered.
LEMMA PeopleAreRemembered ==
  ASSUME People
  PROVE  /\ PersonActed => PersonActed'
         /\ openPr /\ ~openPr' => PersonActed' \/ branch = {}
  BY DEF People, PeoplePush, Merge, ClosePr, DeleteBranch, PersonActed

-----------------------------------------------------------------------------
\* Every step of a run and of people preserves the invariant.
LEMMA NextInv == Inv /\ [Next]_vars => Inv'
<1> SUFFICES ASSUME Inv, [Next]_vars PROVE Inv'
  OBVIOUS
<1>1. ASSUME NEW r \in Runs, Submit(r) PROVE Inv'
  <2>1. TypeOK'
    <3>1. openPr' \in BOOLEAN
      BY <1>1 DEF Inv, TypeOK, Submit, Commit, Push, PostOpens, PostRefused,
                  PostFails, Find, remoteVars
    <3> QED
      BY <1>1, <3>1, SubmitMovesOne, SubmitOnlyAdds
         DEF Inv, TypeOK, Commits
  <2>2. PushedIsDelivered'
    <3> SUFFICES ASSUME NEW q \in Runs, pc'[q] \in {"post", "find", "done"}
                 PROVE  q \in branch' \union merged' \union deleted'
      BY DEF PushedIsDelivered
    <3>1. branch \union merged \union deleted
            \subseteq branch' \union merged' \union deleted'
      BY <1>1, SubmitOnlyAdds
    <3>2. CASE q # r
      <4>1. pc'[q] = pc[q]
        BY <1>1, <3>2, SubmitMovesOne DEF Inv, TypeOK
      <4> QED
        BY <3>1, <4>1 DEF Inv, PushedIsDelivered
    <3>3. CASE q = r /\ pc[r] = "push"
      BY <1>1, <3>3 DEF Inv, TypeOK, Submit, Commit, Push, PostOpens,
                        PostRefused, PostFails, Find, Goto, Fail
    <3>4. CASE q = r /\ pc[r] # "push"
      <4>1. pc[r] \in {"post", "find", "done"}
        BY <1>1, <3>4 DEF Inv, TypeOK, Submit, Commit, Push, PostOpens,
                          PostRefused, PostFails, Find, Goto, Fail
      <4> QED
        BY <3>1, <3>4, <4>1 DEF Inv, PushedIsDelivered
    <3> QED
      BY <3>2, <3>3, <3>4
  <2>3. PersonActed => PersonActed'
    BY <1>1, SubmitOnlyAdds DEF PersonActed
  <2>4. FoundUnlessTaken'
    <3> SUFFICES ASSUME NEW q \in Runs, pc'[q] = "find"
                 PROVE  openPr' \/ PersonActed'
      BY DEF FoundUnlessTaken
    <3>1. CASE pc[q] = "find"
      BY <1>1, <2>3, <3>1, SubmitOnlyAdds DEF Inv, FoundUnlessTaken
    <3>2. CASE pc[q] # "find"
      <4>1. q = r
        BY <1>1, <3>2, SubmitMovesOne DEF Inv, TypeOK
      <4>2. PostRefused(r)
        BY <1>1, <3>2, <4>1 DEF Inv, TypeOK, Submit, Commit, Push, PostOpens,
           PostFails, Find, Goto, Fail, RetryOrFail
      <4>3. openPr \/ branch \subseteq merged
        BY <4>2 DEF PostRefused, MayOpen
      <4>4. r \in branch \union merged \union deleted
        BY <4>2 DEF PostRefused, Inv, PushedIsDelivered
      <4>5. openPr \/ PersonActed
        BY <4>3, <4>4 DEF PersonActed
      <4> QED
        BY <1>1, <2>3, <4>5, SubmitOnlyAdds
    <3> QED
      BY <3>1, <3>2
  <2>5. RefusalTakesAPerson'
    <3> SUFFICES ASSUME NEW q \in Runs, failure'[q] = "refused"
                 PROVE  PersonActed'
      BY DEF RefusalTakesAPerson, PersonActed
    <3>1. CASE failure[q] = "refused"
      BY <2>3, <3>1 DEF Inv, RefusalTakesAPerson, PersonActed
    <3>2. CASE failure[q] # "refused"
      <4>1. q = r
        BY <1>1, <3>2, SubmitMovesOne DEF Inv, TypeOK
      <4>2. pc[r] = "find" /\ ~openPr
        BY <1>1, <3>2, <4>1 DEF Inv, TypeOK, Submit, Commit, Push, PostOpens,
           PostRefused, PostFails, Find, Goto, Fail, RetryOrFail
      <4> QED
        BY <2>3, <4>2 DEF Inv, FoundUnlessTaken
    <3> QED
      BY <3>1, <3>2
  <2> QED
    BY <2>1, <2>2, <2>4, <2>5 DEF Inv
<1>2. CASE People
  <2>1. TypeOK' /\ PushedIsDelivered'
    BY <1>2, PeopleKeepCommits
       DEF Inv, TypeOK, PushedIsDelivered, Commits, runVars
  <2>2. UNCHANGED <<pc, failure>>
    BY <1>2, PeopleKeepCommits DEF Inv, runVars
  <2>3. FoundUnlessTaken'
    <3> SUFFICES ASSUME NEW q \in Runs, pc[q] = "find", ~openPr'
                 PROVE  PersonActed'
      BY <2>2 DEF FoundUnlessTaken
    <3>1. openPr \/ PersonActed
      BY DEF Inv, FoundUnlessTaken
    <3>2. branch = {} => PersonActed
      BY DEF Inv, PushedIsDelivered, PersonActed
    <3> QED
      BY <1>2, <3>1, <3>2, PeopleAreRemembered
  <2>4. RefusalTakesAPerson'
    BY <1>2, <2>2, PeopleAreRemembered
       DEF Inv, RefusalTakesAPerson, PersonActed
  <2> QED
    BY <2>1, <2>3, <2>4 DEF Inv
<1>3. CASE UNCHANGED vars
  BY <1>3 DEF Inv, TypeOK, PushedIsDelivered, FoundUnlessTaken, PersonActed,
              RefusalTakesAPerson, vars, runVars, remoteVars
<1> QED
  BY <1>1, <1>2, <1>3 DEF Next

\* The invariant holds in every reachable state.
THEOREM Invariance == Spec => []Inv
  BY InitInv, NextInv, PTL DEF Spec

-----------------------------------------------------------------------------
\* The submissions of an issue keep their types; no call is repeated more
\* often than _MAX_RETRIES.
THEOREM TypeCorrectness == Spec => []TypeOK
  BY Invariance, PTL DEF Inv

\* What submit_changes reports as done stays on the branch unless people take
\* it over, however many runs push after it.
THEOREM Delivery == Spec => []DoneMeansDelivered
<1>1. Inv => DoneMeansDelivered
  BY DEF Inv, PushedIsDelivered, DoneMeansDelivered
<1> QED
  BY <1>1, Invariance, PTL

\* The lease: no push of any run takes a commit off the branch.
THEOREM NothingClobbered == Spec => NoCommitIsClobbered
<1>1. TypeOK /\ [Next]_vars =>
        [\A c \in branch : c \in branch' \union merged' \union deleted']_vars
  <2> SUFFICES ASSUME TypeOK, Next, NEW c \in branch
               PROVE  c \in branch' \union merged' \union deleted'
    OBVIOUS
  <2>1. CASE \E r \in Runs : Submit(r)
    BY <2>1, SubmitOnlyAdds
  <2>2. CASE People
    BY <2>2, PeopleKeepCommits
  <2> QED
    BY <2>1, <2>2 DEF Next
<1> QED
  BY <1>1, TypeCorrectness, PTL DEF Spec, NoCommitIsClobbered

\* Unless a person closed or merged a pull request or deleted the branch, a
\* 422 is adopted, whichever answers were lost and whoever opened the pull
\* request that is in the way.
THEOREM RefusalsTakeAPerson == Spec => []RefusalTakesAPerson
  BY Invariance, PTL DEF Inv
=============================================================================
