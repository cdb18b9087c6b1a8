----------------------------- MODULE IssueLease -----------------------------
(***************************************************************************)
(* What the runs table promises the rest of the system, with the tables,   *)
(* transactions, clocks and worker processes left out: an issue is leased  *)
(* to at most one run at a time, and a run that has given its lease up, or *)
(* lost it, never holds a lease again.                                     *)
(*                                                                         *)
(* RunRegistry is the detailed specification that implements this one.     *)
(***************************************************************************)

CONSTANTS
  Runs,      \* run ids
  Issues,    \* (repo, issue_number) pairs
  IssueOf,   \* the issue each run was enqueued for
  NoRun      \* "nobody": not a run id

VARIABLES
  holder,    \* holder[i]: the run that holds the lease of issue i, or NoRun
  spent      \* the runs whose lease is over

leaseVars == <<holder, spent>>

Init ==
  /\ holder = [i \in Issues |-> NoRun]
  /\ spent = {}

Acquire(r) ==
  /\ holder[IssueOf[r]] = NoRun
  /\ r \notin spent
  /\ holder' = [holder EXCEPT ![IssueOf[r]] = r]
  /\ UNCHANGED spent

\* Given up by its holder or taken from it: the two look the same from here.
Release(i) ==
  /\ holder[i] # NoRun
  /\ spent' = spent \union {holder[i]}
  /\ holder' = [holder EXCEPT ![i] = NoRun]

Next ==
  \/ \E r \in Runs : Acquire(r)
  \/ \E i \in Issues : Release(i)

Spec == Init /\ [][Next]_leaseVars
=============================================================================
