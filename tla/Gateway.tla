------------------------------ MODULE Gateway -------------------------------
(***************************************************************************)
(* The API in front of the queue (app/main.py): signed webhook deliveries  *)
(* and manual triggers become run_issue messages, and webhook_events       *)
(* remembers the deliveries that were handled.                             *)
(*                                                                         *)
(* Once the body is read a handler runs to its end without awaiting, so a  *)
(* uvicorn process serves one request at a time; requests interleave only  *)
(* between processes.  The broker and GitHub are external.                 *)
(***************************************************************************)
EXTENDS Naturals, FiniteSets

CONSTANTS
  Procs,          \* API processes
  Deliveries,     \* X-GitHub-Delivery ids
  Manuals,        \* POST /runs requests
  KindOf,         \* what a request turns out to be, see Kinds
  Anonymous,      \* deliveries that come without the header
  None,           \* no request, no run id
  DbMayFail,      \* whether statements on webhook_events may fail
  BrokerMayFail,  \* whether apply_async may raise
  MayCrash,       \* whether an API process may die in a handler
  MaxAttempts,    \* bound: times one delivery or trigger is sent
  MaxRuns         \* bound: run ids minted

\* "refused": bad size, signature, JSON, token or repository, or over the
\* rate limit; "other": an event that calls for no run; "blocked": an issue
\* of a repository outside the allowlist; "issue": work to do.
Kinds == {"refused", "other", "blocked", "issue"}

Requests == Deliveries \union Manuals

ASSUME GatewayAssumption ==
  /\ IsFiniteSet(Procs)
  /\ Deliveries \intersect Manuals = {}
  /\ Anonymous \subseteq Deliveries
  /\ KindOf \in [Requests -> Kinds]
  /\ \A m \in Manuals : KindOf[m] \in {"refused", "issue"}
  /\ None \notin Requests
  /\ DbMayFail \in BOOLEAN /\ BrokerMayFail \in BOOLEAN /\ MayCrash \in BOOLEAN
  /\ MaxAttempts \in Nat /\ MaxRuns \in Nat

VARIABLES
  pc,        \* pc[p]: where process p is in its handler
  req,       \* req[p]: the request it serves
  run,       \* run[p]: the run id it minted, 0 before
  sent,      \* sent[q]: how often request q was sent
  events,    \* events[q]: webhook_events.action_taken, "none" without a row
  queue,     \* the messages given to the broker: [run, origin]
  minted,    \* the number of run ids minted so far
  accepted   \* the run ids handed out with a 202

handlerVars == <<pc, req, run>>
vars == <<handlerVars, sent, events, queue, minted, accepted>>

Steps == {"idle", "dedupe", "skip", "enqueue", "record", "respond"}

TypeOK ==
  /\ pc \in [Procs -> Steps]
  /\ req \in [Procs -> Requests \union {None}]
  /\ run \in [Procs -> 0..MaxRuns]
  /\ sent \in [Requests -> 0..MaxAttempts]
  /\ events \in [Requests -> {"none", "skipped", "enqueued"}]
  /\ queue \subseteq [run : 1..MaxRuns, origin : Requests]
  /\ minted \in 0..MaxRuns
  /\ accepted \subseteq 1..MaxRuns

Init ==
  /\ pc = [p \in Procs |-> "idle"]
  /\ req = [p \in Procs |-> None]
  /\ run = [p \in Procs |-> 0]
  /\ sent = [q \in Requests |-> 0]
  /\ events = [q \in Requests |-> "none"]
  /\ queue = {}
  /\ minted = 0
  /\ accepted = {}

MessagesOf(q) == {m \in queue : m.origin = q}

-----------------------------------------------------------------------------
Goto(p, step) == pc' = [pc EXCEPT ![p] = step] /\ UNCHANGED <<req, run>>

\* Answer, or die, and be free for the next request.
Leave(p) ==
  /\ pc' = [pc EXCEPT ![p] = "idle"]
  /\ req' = [req EXCEPT ![p] = None]
  /\ run' = [run EXCEPT ![p] = 0]

\* A request arrives, perhaps again, and passes the checks that touch no
\* table; one that fails them is answered at once.
Receive(p, q) ==
  /\ pc[p] = "idle"
  /\ sent[q] < MaxAttempts
  /\ sent' = [sent EXCEPT ![q] = @ + 1]
  /\ \/ KindOf[q] = "refused" /\ UNCHANGED <<pc, req>>
     \/ /\ KindOf[q] # "refused"
        /\ pc' = [pc EXCEPT ![p] =
                      IF q \in Manuals THEN "enqueue" ELSE "dedupe"]
        /\ req' = [req EXCEPT ![p] = q]
  /\ UNCHANGED <<run, events, queue, minted, accepted>>

\* Mutant: only skipped deliveries are looked up.
KnownSkipped(q) == q \notin Anonymous /\ events[q] = "skipped"

\* An anonymous delivery gets a fresh id, which no row has.
Known(q) == q \notin Anonymous /\ events[q] # "none"

\* Mutant: the event is recorded before the message is queued.
DedupeThenRecord(p) ==
  /\ pc[p] = "dedupe"
  /\ \/ Known(req[p]) /\ Leave(p)
     \/ ~Known(req[p]) /\ Goto(p, IF KindOf[req[p]] = "issue" THEN "record"
                                                              ELSE "skip")
  /\ UNCHANGED <<sent, events, queue, minted, accepted>>

\* SELECT the delivery: "duplicate webhook ignored", or go on.
Dedupe(p) ==
  /\ pc[p] = "dedupe"
  /\ \/ Known(req[p]) /\ Leave(p)
     \/ ~Known(req[p]) /\ Goto(p, IF KindOf[req[p]] = "issue" THEN "enqueue"
                                                              ELSE "skip")
  /\ UNCHANGED <<sent, events, queue, minted, accepted>>

\* The dedupe query is not guarded: the request ends with a 500.
DedupeFails(p) ==
  /\ DbMayFail
  /\ pc[p] = "dedupe"
  /\ Leave(p)
  /\ UNCHANGED <<sent, events, queue, minted, accepted>>

\* INSERT the event; its unique delivery_id refuses a second row, and that
\* error is logged like any other.  A manual run has an id of its own.
RecordAs(q, action) ==
  events' = [events EXCEPT ![q] = IF @ = "none" THEN action ELSE @]

RecordSkipped(p) ==
  /\ pc[p] = "skip"
  /\ RecordAs(req[p], "skipped") \/ (DbMayFail /\ UNCHANGED events)
  /\ Leave(p)
  /\ UNCHANGED <<sent, queue, minted, accepted>>

\* Mutant: an apply_async that raises is only logged.
EnqueueUnnoticed(p) ==
  /\ pc[p] = "enqueue"
  /\ minted < MaxRuns
  /\ minted' = minted + 1
  /\ queue' \in {queue, queue \union {[run |-> minted', origin |-> req[p]]}}
  /\ pc' = [pc EXCEPT ![p] = "record"]
  /\ run' = [run EXCEPT ![p] = minted']
  /\ UNCHANGED <<req, sent, events, accepted>>

\* _enqueue_run: one uuid4 as both task id and run id.  When apply_async
\* raises the request ends with a 500, and the message may be queued anyway.
EnqueueRun(p) ==
  /\ pc[p] = "enqueue"
  /\ minted < MaxRuns
  /\ minted' = minted + 1
  /\ LET message == [run |-> minted', origin |-> req[p]]
         sends == queue' = queue \union {message}
     IN
     \/ /\ sends
        /\ pc' = [pc EXCEPT ![p] = "record"]
        /\ run' = [run EXCEPT ![p] = minted']
        /\ UNCHANGED req
     \/ BrokerMayFail /\ (sends \/ UNCHANGED queue) /\ Leave(p)
  /\ UNCHANGED <<sent, events, accepted>>

RecordEnqueued(p) ==
  /\ pc[p] = "record"
  /\ RecordAs(req[p], "enqueued") \/ (DbMayFail /\ UNCHANGED events)
  /\ Goto(p, "respond")
  /\ UNCHANGED <<sent, queue, minted, accepted>>

Respond(p) ==
  /\ pc[p] = "respond"
  /\ accepted' = accepted \union {run[p]}
  /\ Leave(p)
  /\ UNCHANGED <<sent, events, queue, minted>>

Crash(p) ==
  /\ MayCrash
  /\ pc[p] # "idle"
  /\ Leave(p)
  /\ UNCHANGED <<sent, events, queue, minted, accepted>>

Handle(p) ==
  \/ Dedupe(p) \/ DedupeFails(p) \/ RecordSkipped(p)
  \/ EnqueueRun(p) \/ RecordEnqueued(p) \/ Respond(p)

Next ==
  \/ \E p \in Procs, q \in Requests : Receive(p, q)
  \/ \E p \in Procs : Handle(p) \/ Crash(p)

Spec == Init /\ [][Next]_vars
-----------------------------------------------------------------------------
\* A row that says a delivery was enqueued is only there when a message is:
\* whatever fails in between, the dedupe check never turns away a delivery
\* nobody has queued.
RecordedMeansQueued ==
  \A q \in Requests : events[q] = "enqueued" => MessagesOf(q) # {}

\* Every run id handed to a caller is in the queue exactly once, under the
\* request it was minted for.
AcceptedRunsAreQueued ==
  \A r \in accepted : Cardinality({m \in queue : m.run = r}) = 1

\* A delivery GitHub repeats starts another run only while an API process that
\* has not seen the first one's event row still holds it: as long as nothing
\* fails, at most one run per process, and one run with a single process.
AtMostOneRunPerProcess ==
  ~DbMayFail /\ ~BrokerMayFail /\ ~MayCrash =>
    \A d \in Deliveries \ Anonymous :
      Cardinality(MessagesOf(d)) <= Cardinality(Procs)
=============================================================================
