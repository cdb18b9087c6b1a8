--------------------------- MODULE SandboxProofs ----------------------------
(***************************************************************************)
(* Proofs about Sandbox, for any number of restarts and for images with    *)
(* and without coreutils' timeout.                                         *)
(***************************************************************************)
EXTENDS Sandbox, TLAPS

\* Names only grow, so a container of an earlier start has a smaller one.
NamesAreOld == \A n \in alive \union late : n <= name

\* A docker run that may still take effect was given up on.
LateAreLost == late \subseteq lost

\* What the object knows about itself at each step: _was_started is set
\* before anything can be executed, and only a fault of this very call leaves
\* exec() without a container.
Lifecycle ==
  /\ pc = "new" => alive \union late = {}
  /\ pc = "run" => call = "start" \/ started
  /\ pc = "probe" => held
  /\ pc \in {"probe", "exec", "idle"} => started
  /\ pc = "exec" /\ ~held => faulted

Inv ==
  /\ TypeOK
  /\ NoContainerIsForgotten
  /\ NoCallIsStranded
  /\ NamesAreFree
  /\ NamesAreOld
  /\ LateAreLost
  /\ Lifecycle

-----------------------------------------------------------------------------
\* A new object has no container and no answer yet.
LEMMA InitInv == Init => Inv
<1> SUFFICES ASSUME Init PROVE Inv
  OBVIOUS
<1> USE DEF Init
<1>1. TypeOK
  BY DEF TypeOK
<1>2. NoContainerIsForgotten
  BY DEF NoContainerIsForgotten
<1>3. NoCallIsStranded
  BY DEF NoCallIsStranded
<1>4. NamesAreFree
  BY DEF NamesAreFree
<1>5. NamesAreOld
  BY DEF NamesAreOld
<1>6. LateAreLost
  BY DEF LateAreLost
<1>7. Lifecycle
  BY DEF Lifecycle
<1> QED
  BY <1>1, <1>2, <1>3, <1>4, <1>5, <1>6, <1>7 DEF Inv

\* The names the daemon knows stay behind the object's: only a restart moves
\* the name, and forward, and only docker run gives it to a container.
LEMMA NextOld == TypeOK /\ NamesAreOld /\ [Next]_vars => NamesAreOld'
<1> SUFFICES ASSUME TypeOK, NamesAreOld, [Next]_vars PROVE NamesAreOld'
  OBVIOUS
<1>1. \/ /\ name' = name
         /\ alive' \union late' \subseteq alive \union late \union {name}
      \/ /\ name' = name + 1
         /\ UNCHANGED <<alive, late>>
  <2> USE DEF objectVars, daemonVars, Hang, CannotExec
  <2>1. CASE CallStart
    BY <2>1 DEF CallStart
  <2>2. CASE DockerRun
    BY <2>2 DEF DockerRun
  <2>3. CASE Probe
    BY <2>3 DEF Probe
  <2>4. CASE CallRunTests
    BY <2>4 DEF CallRunTests, RefuseTarget
  <2>5. CASE Exec
    BY <2>5 DEF Exec, ExecWithout, ExecEnds, ExecDies, ExecNowhere, ExecHangs,
            ExecFails
  <2>6. CASE Close
    BY <2>6 DEF Close
  <2>7. CASE Dies
    BY <2>7 DEF Dies
  <2>8. CASE ComesUp
    BY <2>8 DEF ComesUp
  <2>9. CASE UNCHANGED vars
    BY <2>9 DEF vars
  <2> QED
    BY <2>1, <2>2, <2>3, <2>4, <2>5, <2>6, <2>7, <2>8, <2>9 DEF Next
<1>2. name \in Nat /\ alive \subseteq Nat /\ late \subseteq Nat
  BY DEF TypeOK
<1>3. SUFFICES ASSUME NEW n \in alive' \union late' PROVE n <= name'
  BY DEF NamesAreOld
<1>4. CASE name' = name /\ n = name
  BY <1>2, <1>4
<1>5. CASE name' = name /\ n \in alive \union late
  BY <1>5 DEF NamesAreOld
<1>6. CASE name' = name + 1 /\ n \in alive \union late
  <2>1. n \in Nat /\ n <= name
    BY <1>2, <1>6 DEF NamesAreOld
  <2> QED
    BY <1>2, <1>6, <2>1
<1> QED
  BY <1>1, <1>3, <1>4, <1>5, <1>6

\* Every docker command, public call and event of the daemon keeps the types.
LEMMA NextTypeOK == TypeOK /\ [Next]_vars => TypeOK'
<1> SUFFICES ASSUME TypeOK, [Next]_vars PROVE TypeOK'
  OBVIOUS
<1>0. name' \in Nat
  <2>1. name' \in {name, name + 1}
    BY DEF Next, CallStart, DockerRun, Probe, CallRunTests, Exec, ExecWithout,
           ExecEnds, ExecDies, ExecNowhere, ExecHangs, ExecFails, Close, Dies,
           ComesUp, Hang, CannotExec, vars, objectVars
  <2> QED
    BY <2>1 DEF TypeOK
<1> USE <1>0 DEF TypeOK, objectVars, answerVars, daemonVars, faultVars, Begin,
                 Answer, Raise, Hang, CannotExec
<1>1. CASE CallStart
  BY <1>1 DEF CallStart
<1>2. CASE DockerRun
  BY <1>2 DEF DockerRun
<1>3. CASE Probe
  BY <1>3 DEF Probe, AfterProbe
<1>4. CASE CallRunTests
  BY <1>4 DEF CallRunTests, RefuseTarget
<1>5. CASE Exec
  <2>1. CASE ExecWithout
    BY <2>1 DEF ExecWithout
  <2>2. CASE ExecEnds
    BY <2>2 DEF ExecEnds
  <2>3. CASE ExecDies
    BY <2>3 DEF ExecDies
  <2>4. CASE ExecNowhere
    BY <2>4 DEF ExecNowhere
  <2>5. CASE ExecHangs
    <3>1. ran' \in BOOLEAN
      BY <2>5 DEF ExecHangs
    <3>2. /\ pc' = "idle" /\ result' = "timeout" /\ held' = FALSE
          /\ faulted' = TRUE
          /\ UNCHANGED <<call, target, started, name, hasTimeout, late>>
      BY <2>5 DEF ExecHangs
    <3>3. alive' \subseteq alive /\ lost' \subseteq lost \union {name}
      BY <2>5 DEF ExecHangs
    <3> QED
      BY <3>1, <3>2, <3>3
  <2>6. CASE ExecFails
    BY <2>6 DEF ExecFails
  <2> QED
    BY <1>5, <2>1, <2>2, <2>3, <2>4, <2>5, <2>6 DEF Exec
<1>6. CASE Close
  BY <1>6 DEF Close
<1>7. CASE Dies
  BY <1>7 DEF Dies
<1>8. CASE ComesUp
  BY <1>8 DEF ComesUp
<1>9. CASE UNCHANGED vars
  BY <1>9 DEF vars
<1> QED
  BY <1>1, <1>2, <1>3, <1>4, <1>5, <1>6, <1>7, <1>8, <1>9 DEF Next

\* The parts of the invariant that need no arithmetic but the restart's.
Safe == NoContainerIsForgotten /\ NoCallIsStranded /\ NamesAreFree
          /\ LateAreLost /\ Lifecycle

\* Every step keeps them.
LEMMA NextSafe == Inv /\ [Next]_vars => Safe'
<1> SUFFICES ASSUME Inv, [Next]_vars PROVE Safe'
  OBVIOUS
<1>0. name + 1 \notin alive \union late
  BY DEF Inv, TypeOK, NamesAreOld
<1> USE DEF Inv, Safe, TypeOK, NoContainerIsForgotten, NoCallIsStranded,
            NamesAreFree, LateAreLost, Lifecycle
<1> USE DEF objectVars, answerVars, daemonVars, faultVars, Begin, Answer,
            Raise, Hang, CannotExec
<1>1. CASE CallStart
  BY <1>1 DEF CallStart
<1>2. CASE DockerRun
  BY <1>2 DEF DockerRun
<1>3. CASE Probe
  BY <1>3 DEF Probe, AfterProbe
<1>4. CASE CallRunTests
  BY <1>0, <1>4 DEF CallRunTests, RefuseTarget
<1>5. CASE Exec
  <2>1. CASE ExecWithout
    BY <2>1 DEF ExecWithout
  <2>2. CASE ExecEnds
    BY <2>2 DEF ExecEnds
  <2>3. CASE ExecDies
    BY <2>3 DEF ExecDies
  <2>4. CASE ExecNowhere
    BY <2>4 DEF ExecNowhere
  <2>5. CASE ExecHangs
    BY <2>5 DEF ExecHangs
  <2>6. CASE ExecFails
    BY <2>6 DEF ExecFails
  <2> QED
    BY <1>5, <2>1, <2>2, <2>3, <2>4, <2>5, <2>6 DEF Exec
<1>6. CASE Close
  BY <1>6 DEF Close
<1>7. CASE Dies
  BY <1>7 DEF Dies
<1>8. CASE ComesUp
  BY <1>8 DEF ComesUp
<1>9. CASE UNCHANGED vars
  BY <1>9 DEF vars
<1> QED
  BY <1>1, <1>2, <1>3, <1>4, <1>5, <1>6, <1>7, <1>8, <1>9 DEF Next

\* The invariant is inductive.
LEMMA NextInv == Inv /\ [Next]_vars => Inv'
  BY NextTypeOK, NextOld, NextSafe DEF Inv, Safe

\* The invariant holds throughout the life of a sandbox.
THEOREM Invariance == Spec => []Inv
  BY InitInv, NextInv, PTL DEF Spec

-----------------------------------------------------------------------------
\* The variables of a sandbox keep their types.
THEOREM TypeCorrectness == Spec => []TypeOK
  BY Invariance, PTL DEF Inv

\* Kills, restarts and early returns forget no container but those a docker
\* command failed or hung on (start, _kill_container, close).
THEOREM NoneForgotten == Spec => []NoContainerIsForgotten
  BY Invariance, PTL DEF Inv

\* start() and run_tests() only raise SandboxError for a fault of docker's
\* during that very call or for a target outside the workspace, however many
\* containers had to be killed before.
THEOREM CallsAreNotStranded == Spec => []NoCallIsStranded
  BY Invariance, PTL DEF Inv

\* docker run is never given a name that is in use or may come into use.
THEOREM FreshNames == Spec => []NamesAreFree
  BY Invariance, PTL DEF Inv
=============================================================================
