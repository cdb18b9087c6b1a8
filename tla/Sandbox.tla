------------------------------ MODULE Sandbox -------------------------------
(***************************************************************************)
(* The container that runs a repository's tests (agent/sandbox.py): one    *)
(* Sandbox object, used by one run from start() over any number of         *)
(* run_tests() to close(), against a docker daemon that may be slow, fail  *)
(* or lose the container.                                                  *)
(*                                                                         *)
(* Every docker command is an action with the outcomes its caller tells    *)
(* apart.  Containers are named 0, 1, ...: the code draws random names.    *)
(***************************************************************************)
EXTENDS Naturals

CONSTANTS
  ImageHasTimeout,  \* whether the image has coreutils' timeout
  MaxName           \* bound: containers started by one object, less one

ASSUME SandboxAssumption == ImageHasTimeout \in BOOLEAN /\ MaxName \in Nat

VARIABLES
  pc,          \* the docker command that comes next; "idle" between calls
  call,        \* the public method in progress
  held,        \* whether container_id is set
  started,     \* _was_started
  name,        \* the container's name
  hasTimeout,  \* _has_timeout
  target,      \* whether the target of the last call was in the workspace
  result,      \* what the last call gave its caller
  ran,         \* whether the command of the last run_tests ran at all
  alive,       \* daemon: the containers that run; --rm removes the others
  late,        \* daemon: the containers a timed-out docker run may still start
  faulted,     \* whether a docker command of the last call failed or hung
  lost         \* the containers a docker command failed or hung on

objectVars == <<held, started, name, hasTimeout>>
answerVars == <<target, result, ran>>
daemonVars == <<alive, late>>
faultVars == <<faulted, lost>>
vars == <<pc, call, objectVars, answerVars, daemonVars, faultVars>>

TypeOK ==
  /\ pc \in {"new", "run", "probe", "exec", "idle", "failed", "closed"}
  /\ call \in {"none", "start", "run_tests"}
  /\ held \in BOOLEAN /\ started \in BOOLEAN /\ hasTimeout \in BOOLEAN
  /\ name \in Nat
  /\ target \in {"inside", "outside"}
  /\ result \in {"none", "exit", "timeout", "error"}
  /\ ran \in BOOLEAN
  /\ alive \subseteq Nat /\ late \subseteq Nat
  /\ faulted \in BOOLEAN /\ lost \subseteq Nat

Init ==
  /\ pc = "new" /\ call = "none"
  /\ held = FALSE /\ started = FALSE /\ name = 0 /\ hasTimeout = FALSE
  /\ target = "inside" /\ result = "none" /\ ran = FALSE
  /\ alive = {} /\ late = {}
  /\ faulted = FALSE /\ lost = {}

\* Enter a public method.
Begin(method, step) ==
  /\ pc' = step
  /\ call' = method
  /\ target' = "inside" /\ result' = "none" /\ ran' = FALSE /\ faulted' = FALSE

\* Leave it with an answer about a command that ran, or did not.
Answer(answer, executed) ==
  /\ pc' = "idle"
  /\ result' = answer /\ ran' = executed
  /\ UNCHANGED <<call, target>>

\* raise SandboxError: out of start(), the run is over but for close().
Raise ==
  /\ pc' = IF call = "start" THEN "failed" ELSE "idle"
  /\ result' = "error" /\ ran' = FALSE
  /\ UNCHANGED <<call, target>>

-----------------------------------------------------------------------------
CallStart ==
  /\ pc = "new"
  /\ Begin("start", "run")
  /\ UNCHANGED <<objectVars, daemonVars, lost>>

\* docker run -d: the container runs and is probed; or docker refuses; or it
\* gives no answer in time, and the container may run all the same, or soon.
DockerRun ==
  /\ pc = "run"
  /\ \/ /\ held' = TRUE /\ started' = TRUE
        /\ alive' = alive \union {name}
        /\ pc' = "probe"
        /\ UNCHANGED <<call, late, answerVars, faultVars>>
     \/ /\ Raise
        /\ faulted' = TRUE
        /\ \/ UNCHANGED <<alive, late, lost>>
           \/ /\ lost' = lost \union {name}
              /\ \/ alive' = alive \union {name} /\ UNCHANGED late
                 \/ late' = late \union {name} /\ UNCHANGED alive
        /\ UNCHANGED <<held, started>>
  /\ UNCHANGED <<name, hasTimeout>>

\* Mutant: the container is forgotten, and not killed.
HangForgets ==
  /\ held' = FALSE
  /\ faulted' = TRUE
  /\ UNCHANGED <<started, name, alive, late, lost>>

\* The outer time limit: docker kill, whose failure nobody looks at, and
\* container_id is None from here.
Hang ==
  /\ held' = FALSE
  /\ faulted' = TRUE
  /\ \/ alive' = alive \ {name} /\ UNCHANGED lost
     \/ lost' = lost \union {name} /\ UNCHANGED alive
  /\ UNCHANGED <<started, name, late>>

\* docker could not be executed (OSError).
CannotExec ==
  /\ Raise
  /\ faulted' = TRUE
  /\ UNCHANGED <<objectVars, daemonVars, lost>>

\* Where start() returns to.
AfterProbe == IF call = "start" THEN "idle" ELSE "exec"

\* start() asks the image for coreutils' timeout; a dead container says no,
\* and in a restart the old timeout may cut the question short.
Probe ==
  /\ pc = "probe"
  /\ \/ /\ \/ hasTimeout' = (ImageHasTimeout /\ name \in alive)
           \/ hasTimeout /\ hasTimeout' = FALSE
        /\ pc' = AfterProbe
        /\ UNCHANGED <<call, held, started, name, answerVars, daemonVars,
                       faultVars>>
     \/ /\ Hang
        /\ hasTimeout' = FALSE
        /\ pc' = AfterProbe
        /\ UNCHANGED <<call, answerVars>>
     \/ CannotExec

-----------------------------------------------------------------------------
\* _container_path: a target outside the workspace is a SandboxError before
\* docker is asked anything; a container that is needed is not started.
RefuseTarget ==
  /\ pc' = "idle"
  /\ call' = "run_tests"
  /\ target' = "outside" /\ result' = "error" /\ ran' = FALSE
  /\ faulted' = FALSE

\* Mutants: no restart, and a restart under the same name.
CallRunTestsOnce ==
  /\ pc = "idle"
  /\ Begin("run_tests", "exec") \/ RefuseTarget
  /\ UNCHANGED <<objectVars, daemonVars, lost>>
CallRunTestsSameName ==
  /\ pc = "idle"
  /\ name < MaxName
  /\ Begin("run_tests", IF ~held /\ started THEN "run" ELSE "exec")
  /\ UNCHANGED <<objectVars, daemonVars, lost>>

\* exec(): a container that had to be killed is replaced by a fresh one,
\* under a fresh name, "old name may still be releasing".
CallRunTests ==
  /\ pc = "idle"
  /\ \/ RefuseTarget /\ UNCHANGED name
     \/ /\ ~held /\ started
        /\ name < MaxName
        /\ name' = name + 1
        /\ Begin("run_tests", "run")
     \/ /\ held \/ ~started
        /\ Begin("run_tests", "exec")
        /\ UNCHANGED name
  /\ UNCHANGED <<held, started, hasTimeout, daemonVars, lost>>

\* _exec_raw without a container: the restart's own probe had to kill it.
ExecWithout ==
  /\ pc = "exec" /\ ~held
  /\ Raise
  /\ UNCHANGED <<objectVars, daemonVars, faultVars>>

\* The command ends by itself or by the timeout inside the container ...
ExecEnds ==
  /\ pc = "exec" /\ held
  /\ name \in alive
  /\ Answer("exit", TRUE) \/ (hasTimeout /\ Answer("timeout", TRUE))
  /\ UNCHANGED <<objectVars, daemonVars, faultVars>>

\* ... or with its container, whose exit code 137 reads as a timeout ...
ExecDies ==
  /\ pc = "exec" /\ held
  /\ name \in alive
  /\ alive' = alive \ {name}
  /\ Answer("timeout", TRUE)
  /\ UNCHANGED <<objectVars, late, faultVars>>

\* ... or there is no such container any more: docker's own exit code is
\* taken for the command's.
ExecNowhere ==
  /\ pc = "exec" /\ held
  /\ name \notin alive
  /\ Answer("exit", FALSE)
  /\ UNCHANGED <<objectVars, daemonVars, faultVars>>

ExecHangs ==
  /\ pc = "exec" /\ held
  /\ Hang
  /\ Answer("timeout", name \in alive)
  /\ UNCHANGED hasTimeout

ExecFails == pc = "exec" /\ held /\ CannotExec

\* docker rm -f, whose failure is only logged; nothing without container_id.
Close ==
  /\ pc \in {"idle", "failed"}
  /\ pc' = "closed"
  /\ IF held
       THEN /\ held' = FALSE /\ started' = FALSE
            /\ \/ alive' = alive \ {name} /\ UNCHANGED lost
               \/ lost' = lost \union {name} /\ UNCHANGED alive
       ELSE UNCHANGED <<held, started, alive, lost>>
  /\ UNCHANGED <<call, name, hasTimeout, answerVars, late, faulted>>

-----------------------------------------------------------------------------
\* The daemon: a container dies, or one comes up after its client gave up.
Dies ==
  /\ \E n \in alive : alive' = alive \ {n}
  /\ UNCHANGED <<pc, call, objectVars, answerVars, late, faultVars>>

ComesUp ==
  /\ \E n \in late : alive' = alive \union {n} /\ late' = late \ {n}
  /\ UNCHANGED <<pc, call, objectVars, answerVars, faultVars>>

Exec ==
  \/ ExecWithout \/ ExecEnds \/ ExecDies \/ ExecNowhere
  \/ ExecHangs \/ ExecFails

Next ==
  \/ CallStart \/ DockerRun \/ Probe \/ CallRunTests \/ Exec \/ Close
  \/ Dies \/ ComesUp

Spec == Init /\ [][Next]_vars
-----------------------------------------------------------------------------
\* Every container that runs, or may yet come up, is the one the object still
\* holds, or one that a docker command failed or hung on: kills, restarts and
\* early returns forget no other.  After close() there is nothing else left.
NoContainerIsForgotten ==
  alive \union late \subseteq lost \union (IF held THEN {name} ELSE {})

\* "one runaway test must not strand every later run_tests call": a call only
\* fails when docker itself failed or hung during that very call, or when its
\* own target is outside the workspace.  Whatever earlier calls did to the
\* container, or were refused, is not held against it.
NoCallIsStranded == result = "error" => faulted \/ target = "outside"

\* docker run is never given a name that is, or may still come, into use,
\* though the container it replaces may have survived its kill.
NamesAreFree == pc = "run" => name \notin alive \union late

-----------------------------------------------------------------------------
(* What a docstring promises and the code does not do. *)

\* SandboxError is for "daemon down, image missing, container died", "distinct
\* from a command that merely exits non-zero": an exit code is a command's.
ExitMeansItRan == result = "exit" => ran
=============================================================================
