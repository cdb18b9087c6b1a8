---------------------------- MODULE GatewayProofs ----------------------------
(***************************************************************************)
(* Proofs about Gateway, for any number of processes, deliveries, triggers *)
(* and repetitions, and whatever may fail.                                 *)
(***************************************************************************)
EXTENDS Gateway, FiniteSetTheorems, TLAPS

Message(r, q) == [run |-> r, origin |-> q]

\* A process that has left "idle" knows its request, and one that has enqueued
\* has its message in the queue.
HandlersKnow ==
  \A p \in Procs :
    /\ pc[p] # "idle" => req[p] \in Requests
    /\ pc[p] \in {"record", "respond"} => Message(run[p], req[p]) \in queue

\* Run ids are never minted twice.
IdsAreUnique ==
  /\ \A m \in queue : m.run <= minted
  /\ \A m, n \in queue : m.run = n.run => m = n

\* A run id is handed out after its message was queued.
AcceptedAreSent == \A r \in accepted : \E m \in queue : m.run = r

Inv == TypeOK /\ HandlersKnow /\ IdsAreUnique /\ AcceptedAreSent
         /\ RecordedMeansQueued

-----------------------------------------------------------------------------
\* No request has been received.
LEMMA InitInv == Init => Inv
<1> SUFFICES ASSUME Init PROVE Inv
  OBVIOUS
<1>0. 0 \in 0..MaxRuns /\ 0 \in 0..MaxAttempts
  BY GatewayAssumption
<1>1. TypeOK
  BY <1>0 DEF Init, TypeOK, Steps
<1>2. HandlersKnow
  BY DEF Init, HandlersKnow
<1>3. IdsAreUnique
  BY DEF Init, IdsAreUnique
<1>4. AcceptedAreSent
  BY DEF Init, AcceptedAreSent
<1>5. RecordedMeansQueued
  BY DEF Init, RecordedMeansQueued
<1> QED
  BY <1>1, <1>2, <1>3, <1>4, <1>5 DEF Inv

\* Every step keeps the types.
LEMMA NextTypeOK == TypeOK /\ HandlersKnow /\ [Next]_vars => TypeOK'
<1> SUFFICES ASSUME TypeOK, HandlersKnow, [Next]_vars PROVE TypeOK'
  OBVIOUS
<1> USE GatewayAssumption DEF TypeOK, HandlersKnow, Steps, Goto, Leave
<1>1. ASSUME NEW p \in Procs, NEW q \in Requests, Receive(p, q)
      PROVE  TypeOK'
  BY <1>1 DEF Receive
<1>2. ASSUME NEW p \in Procs, Dedupe(p) PROVE TypeOK'
  BY <1>2 DEF Dedupe, Known
<1>3. ASSUME NEW p \in Procs, DedupeFails(p) PROVE TypeOK'
  BY <1>3 DEF DedupeFails
<1>4. ASSUME NEW p \in Procs, RecordSkipped(p) PROVE TypeOK'
  BY <1>4 DEF RecordSkipped, RecordAs
<1>5. ASSUME NEW p \in Procs, EnqueueRun(p) PROVE TypeOK'
  <2>1. minted' = minted + 1 /\ minted' \in 1..MaxRuns /\ req[p] \in Requests
    BY <1>5 DEF EnqueueRun
  <2>2. queue' \subseteq [run : 1..MaxRuns, origin : Requests]
    BY <1>5, <2>1 DEF EnqueueRun
  <2>3. pc' \in [Procs -> Steps]
    BY <1>5 DEF EnqueueRun
  <2>4. req' \in [Procs -> Requests \union {None}]
    BY <1>5 DEF EnqueueRun
  <2>5. run' \in [Procs -> 0..MaxRuns]
    BY <1>5, <2>1 DEF EnqueueRun
  <2>6. UNCHANGED <<sent, events, accepted>>
    BY <1>5 DEF EnqueueRun
  <2> QED
    BY <2>1, <2>2, <2>3, <2>4, <2>5, <2>6
<1>6. ASSUME NEW p \in Procs, RecordEnqueued(p) PROVE TypeOK'
  <2>1. req[p] \in Requests
    BY <1>6 DEF RecordEnqueued
  <2>2. events' \in [Requests -> {"none", "skipped", "enqueued"}]
    BY <1>6, <2>1 DEF RecordEnqueued, RecordAs
  <2>3. pc' \in [Procs -> Steps]
    BY <1>6 DEF RecordEnqueued
  <2>4. UNCHANGED <<req, run, sent, queue, minted, accepted>>
    BY <1>6 DEF RecordEnqueued
  <2> QED
    BY <2>2, <2>3, <2>4
<1>7. ASSUME NEW p \in Procs, Respond(p) PROVE TypeOK'
  <2>1. accepted' \subseteq 1..MaxRuns
    <3>1. run[p] \in 1..MaxRuns
      BY <1>7 DEF Respond, Message
    <3> QED
      BY <1>7, <3>1 DEF Respond
  <2>2. pc' \in [Procs -> Steps] /\ req' \in [Procs -> Requests \union {None}]
    BY <1>7 DEF Respond
  <2>3. run' \in [Procs -> 0..MaxRuns]
    BY <1>7 DEF Respond
  <2>4. UNCHANGED <<sent, events, queue, minted>>
    BY <1>7 DEF Respond
  <2> QED
    BY <2>1, <2>2, <2>3, <2>4
<1>8. ASSUME NEW p \in Procs, Crash(p) PROVE TypeOK'
  BY <1>8 DEF Crash
<1>9. CASE UNCHANGED vars
  BY <1>9 DEF vars, handlerVars
<1> QED
  BY <1>1, <1>2, <1>3, <1>4, <1>5, <1>6, <1>7, <1>8, <1>9 DEF Next, Handle

\* The queue only grows, and by one message under a fresh id.
LEMMA QueueGrows ==
  ASSUME TypeOK, [Next]_vars
  PROVE  \/ UNCHANGED <<queue, minted>>
         \/ /\ minted' = minted + 1
            /\ \/ UNCHANGED queue
               \/ \E p \in Procs :
                    queue' = queue \union {Message(minted + 1, req[p])}
  BY DEF Next, Receive, Handle, Dedupe, DedupeFails, RecordSkipped, EnqueueRun,
         RecordEnqueued, Respond, Crash, vars, Message

\* Every step keeps what the handlers know.
LEMMA NextHandlers == TypeOK /\ HandlersKnow /\ [Next]_vars => HandlersKnow'
<1> SUFFICES ASSUME TypeOK, HandlersKnow, [Next]_vars PROVE HandlersKnow'
  OBVIOUS
<1> USE DEF TypeOK, HandlersKnow, Steps, Goto, Leave, Message
<1>1. ASSUME NEW p \in Procs, NEW q \in Requests, Receive(p, q)
      PROVE  HandlersKnow'
  BY <1>1 DEF Receive
<1>2. ASSUME NEW p \in Procs, Dedupe(p) PROVE HandlersKnow'
  BY <1>2 DEF Dedupe, Known
<1>3. ASSUME NEW p \in Procs, DedupeFails(p) PROVE HandlersKnow'
  BY <1>3 DEF DedupeFails
<1>4. ASSUME NEW p \in Procs, RecordSkipped(p) PROVE HandlersKnow'
  BY <1>4 DEF RecordSkipped, RecordAs
<1>5. ASSUME NEW p \in Procs, EnqueueRun(p) PROVE HandlersKnow'
  BY <1>5 DEF EnqueueRun
<1>6. ASSUME NEW p \in Procs, RecordEnqueued(p) PROVE HandlersKnow'
  BY <1>6 DEF RecordEnqueued, RecordAs
<1>7. ASSUME NEW p \in Procs, Respond(p) PROVE HandlersKnow'
  BY <1>7 DEF Respond
<1>8. ASSUME NEW p \in Procs, Crash(p) PROVE HandlersKnow'
  BY <1>8 DEF Crash
<1>9. CASE UNCHANGED vars
  BY <1>9 DEF vars, handlerVars
<1> QED
  BY <1>1, <1>2, <1>3, <1>4, <1>5, <1>6, <1>7, <1>8, <1>9 DEF Next, Handle

\* Every step keeps the run ids apart.
LEMMA NextUnique == TypeOK /\ IdsAreUnique /\ [Next]_vars => IdsAreUnique'
<1> SUFFICES ASSUME TypeOK, IdsAreUnique, [Next]_vars PROVE IdsAreUnique'
  OBVIOUS
<1>1. minted \in Nat /\ \A m \in queue : m.run \in Nat
  BY DEF TypeOK
<1>2. CASE UNCHANGED <<queue, minted>>
  BY <1>2 DEF IdsAreUnique
<1>3. CASE minted' = minted + 1 /\ UNCHANGED queue
  BY <1>1, <1>3 DEF IdsAreUnique
<1>4. ASSUME minted' = minted + 1, NEW p \in Procs,
             queue' = queue \union {Message(minted + 1, req[p])}
      PROVE  IdsAreUnique'
  BY <1>1, <1>4 DEF IdsAreUnique, Message
<1> QED
  BY <1>2, <1>3, <1>4, QueueGrows

\* Every step keeps the promise of the ids handed out.
LEMMA NextAccepted ==
  TypeOK /\ HandlersKnow /\ AcceptedAreSent /\ [Next]_vars => AcceptedAreSent'
<1> SUFFICES ASSUME TypeOK, HandlersKnow, AcceptedAreSent, [Next]_vars
             PROVE  AcceptedAreSent'
  OBVIOUS
<1> USE DEF TypeOK, HandlersKnow, AcceptedAreSent, Message
<1>1. ASSUME NEW p \in Procs, NEW q \in Requests, Receive(p, q)
      PROVE  AcceptedAreSent'
  BY <1>1 DEF Receive
<1>2. ASSUME NEW p \in Procs, Dedupe(p) PROVE AcceptedAreSent'
  BY <1>2 DEF Dedupe, Known
<1>3. ASSUME NEW p \in Procs, DedupeFails(p) PROVE AcceptedAreSent'
  BY <1>3 DEF DedupeFails
<1>4. ASSUME NEW p \in Procs, RecordSkipped(p) PROVE AcceptedAreSent'
  BY <1>4 DEF RecordSkipped, RecordAs
<1>5. ASSUME NEW p \in Procs, EnqueueRun(p) PROVE AcceptedAreSent'
  BY <1>5 DEF EnqueueRun
<1>6. ASSUME NEW p \in Procs, RecordEnqueued(p) PROVE AcceptedAreSent'
  BY <1>6 DEF RecordEnqueued, RecordAs
<1>7. ASSUME NEW p \in Procs, Respond(p) PROVE AcceptedAreSent'
  BY <1>7 DEF Respond
<1>8. ASSUME NEW p \in Procs, Crash(p) PROVE AcceptedAreSent'
  BY <1>8 DEF Crash
<1>9. CASE UNCHANGED vars
  BY <1>9 DEF vars, handlerVars
<1> QED
  BY <1>1, <1>2, <1>3, <1>4, <1>5, <1>6, <1>7, <1>8, <1>9 DEF Next, Handle

\* Every step keeps the event rows true.
LEMMA NextRecorded ==
  TypeOK /\ HandlersKnow /\ RecordedMeansQueued /\ [Next]_vars
    => RecordedMeansQueued'
<1> SUFFICES ASSUME TypeOK, HandlersKnow, RecordedMeansQueued, [Next]_vars
             PROVE  RecordedMeansQueued'
  OBVIOUS
<1> USE DEF TypeOK, HandlersKnow, RecordedMeansQueued, MessagesOf, Message
<1>1. ASSUME NEW p \in Procs, NEW q \in Requests, Receive(p, q)
      PROVE  RecordedMeansQueued'
  BY <1>1 DEF Receive
<1>2. ASSUME NEW p \in Procs, Dedupe(p) PROVE RecordedMeansQueued'
  BY <1>2 DEF Dedupe, Known
<1>3. ASSUME NEW p \in Procs, DedupeFails(p) PROVE RecordedMeansQueued'
  BY <1>3 DEF DedupeFails
<1>4. ASSUME NEW p \in Procs, RecordSkipped(p) PROVE RecordedMeansQueued'
  BY <1>4 DEF RecordSkipped, RecordAs
<1>5. ASSUME NEW p \in Procs, EnqueueRun(p) PROVE RecordedMeansQueued'
  BY <1>5 DEF EnqueueRun
<1>6. ASSUME NEW p \in Procs, RecordEnqueued(p) PROVE RecordedMeansQueued'
  <2>1. req[p] \in Requests /\ Message(run[p], req[p]) \in queue
    BY <1>6 DEF RecordEnqueued
  <2>2. MessagesOf(req[p]) # {}
    BY <2>1
  <2>3. UNCHANGED queue
    BY <1>6 DEF RecordEnqueued
  <2>4. SUFFICES ASSUME NEW q \in Requests, events'[q] = "enqueued"
                 PROVE  MessagesOf(q) # {}
    BY <2>3
  <2>5. q = req[p] \/ events'[q] = events[q]
    BY <1>6 DEF RecordEnqueued, RecordAs
  <2> QED
    BY <2>2, <2>4, <2>5
<1>7. ASSUME NEW p \in Procs, Respond(p) PROVE RecordedMeansQueued'
  BY <1>7 DEF Respond
<1>8. ASSUME NEW p \in Procs, Crash(p) PROVE RecordedMeansQueued'
  BY <1>8 DEF Crash
<1>9. CASE UNCHANGED vars
  BY <1>9 DEF vars, handlerVars
<1> QED
  BY <1>1, <1>2, <1>3, <1>4, <1>5, <1>6, <1>7, <1>8, <1>9 DEF Next, Handle

\* The invariant holds in every reachable state.
THEOREM Invariance == Spec => []Inv
<1>1. Inv /\ [Next]_vars => Inv'
  BY NextTypeOK, NextHandlers, NextUnique, NextAccepted, NextRecorded DEF Inv
<1> QED
  BY <1>1, InitInv, PTL DEF Spec

-----------------------------------------------------------------------------
\* The variables of the gateway keep their types.
THEOREM TypeCorrectness == Spec => []TypeOK
  BY Invariance, PTL DEF Inv

\* No event row claims a message nobody queued, whatever fails or crashes
\* between the lookup and the row.
THEOREM RowsAreTrue == Spec => []RecordedMeansQueued
  BY Invariance, PTL DEF Inv

\* Every run id a caller was given is in the queue exactly once.
THEOREM AcceptedOnce == Spec => []AcceptedRunsAreQueued
<1>1. Inv => AcceptedRunsAreQueued
  <2> SUFFICES ASSUME Inv, NEW r \in accepted
               PROVE  Cardinality({m \in queue : m.run = r}) = 1
    BY DEF AcceptedRunsAreQueued
  <2>1. PICK m \in queue : m.run = r
    BY DEF Inv, AcceptedAreSent
  <2>2. {n \in queue : n.run = r} = {m}
    BY <2>1 DEF Inv, IdsAreUnique
  <2> QED
    BY <2>2, FS_Singleton
<1> QED
  BY <1>1, Invariance, PTL

-----------------------------------------------------------------------------
(* How many runs one delivery starts when nothing fails. *)

Quiet == ~DbMayFail /\ ~BrokerMayFail /\ ~MayCrash

\* The processes that will enqueue a run for d, and those that have and are
\* about to write its row.
Waiting(d) == {p \in Procs : pc[p] = "enqueue" /\ req[p] = d}
Recording(d) == {p \in Procs : pc[p] = "record" /\ req[p] = d}

\* Without a row, each message is one whose process is about to write it; with
\* one, nobody joins those who wait to enqueue.
Counted(d) ==
  /\ IsFiniteSet(MessagesOf(d))
  /\ events[d] = "none" =>
       Cardinality(MessagesOf(d)) = Cardinality(Recording(d))
  /\ events[d] # "none" =>
       Cardinality(MessagesOf(d)) + Cardinality(Waiting(d))
         <= Cardinality(Procs)

\* Sets of processes are finite, and nobody waits and records at once.
LEMMA CountsAreFinite ==
  ASSUME NEW d
  PROVE  /\ IsFiniteSet(Waiting(d)) /\ IsFiniteSet(Recording(d))
         /\ Cardinality(Waiting(d)) \in Nat
         /\ Cardinality(Recording(d)) \in Nat
         /\ Cardinality(Procs) \in Nat
         /\ Cardinality(Recording(d)) + Cardinality(Waiting(d))
              <= Cardinality(Procs)
<1>1. IsFiniteSet(Procs)
  BY GatewayAssumption
<1>2. Waiting(d) \in SUBSET Procs /\ Recording(d) \in SUBSET Procs
  BY DEF Waiting, Recording
<1>3. IsFiniteSet(Waiting(d)) /\ IsFiniteSet(Recording(d))
  BY <1>1, <1>2, FS_Subset
<1>4. /\ Cardinality(Waiting(d)) \in Nat /\ Cardinality(Recording(d)) \in Nat
      /\ Cardinality(Procs) \in Nat
  BY <1>1, <1>3, FS_CardinalityType
<1>5. Recording(d) \intersect Waiting(d) = {}
  BY DEF Waiting, Recording
<1>6. Recording(d) \union Waiting(d) \in SUBSET Procs
  BY <1>2
<1>7. Cardinality(Recording(d) \union Waiting(d)) <= Cardinality(Procs)
  BY <1>1, <1>6, FS_Subset
<1>8. Cardinality(Recording(d) \intersect Waiting(d)) = 0
  BY <1>5, FS_EmptySet
<1>9. Cardinality(Recording(d) \union Waiting(d))
        = Cardinality(Recording(d)) + Cardinality(Waiting(d))
            - Cardinality(Recording(d) \intersect Waiting(d))
  BY <1>3, FS_Union
<1> QED
  BY <1>3, <1>4, <1>7, <1>8, <1>9

\* The three things a step may mean for a delivery d: nothing, but that a
\* process without a row to see joins those who wait; a message from one of
\* them; or the row.
Idle(d) ==
  /\ MessagesOf(d)' = MessagesOf(d) /\ Recording(d)' = Recording(d)
  /\ events'[d] = events[d]
  /\ events[d] = "none" \/ Waiting(d)' \subseteq Waiting(d)

Sends(d) ==
  /\ events'[d] = events[d]
  /\ \E p \in Waiting(d), m \in MessagesOf(d)' :
       /\ m \notin MessagesOf(d) /\ MessagesOf(d)' = MessagesOf(d) \union {m}
       /\ p \notin Recording(d) /\ Recording(d)' = Recording(d) \union {p}
       /\ Waiting(d)' = Waiting(d) \ {p}

Records(d) ==
  /\ events'[d] # "none"
  /\ MessagesOf(d)' = MessagesOf(d)
  /\ Waiting(d)' \subseteq Waiting(d)

\* There is no fourth.
LEMMA DeliverySteps ==
  ASSUME Quiet, Inv, NEW d \in Deliveries \ Anonymous, [Next]_vars
  PROVE  Idle(d) \/ Sends(d) \/ Records(d)
<1> USE DEF Quiet, Inv, TypeOK, HandlersKnow, Requests, Goto, Leave,
            Waiting, Recording, MessagesOf
<1>1. ASSUME NEW p \in Procs, NEW q \in Requests, Receive(p, q) PROVE Idle(d)
  BY <1>1, GatewayAssumption DEF Receive, Idle
<1>2. ASSUME NEW p \in Procs, Dedupe(p) PROVE Idle(d)
  BY <1>2 DEF Dedupe, Known, Idle
<1>3. ASSUME NEW p \in Procs, RecordSkipped(p) PROVE Idle(d) \/ Records(d)
  <2>1. CASE req[p] = d
    BY <1>3, <2>1 DEF RecordSkipped, RecordAs, Records
  <2>2. CASE req[p] # d
    BY <1>3, <2>2 DEF RecordSkipped, RecordAs, Idle
  <2> QED
    BY <2>1, <2>2
<1>4. ASSUME NEW p \in Procs, EnqueueRun(p) PROVE Idle(d) \/ Sends(d)
  <2> DEFINE m == Message(minted + 1, req[p])
  <2>1. /\ queue' = queue \union {m}
        /\ pc[p] = "enqueue" /\ pc' = [pc EXCEPT ![p] = "record"]
        /\ UNCHANGED <<req, events>>
    BY <1>4 DEF EnqueueRun, Message
  <2>2. m \notin queue /\ m.origin = req[p]
    BY DEF IdsAreUnique, Message
  <2>3. CASE req[p] = d
    <3>1. p \in Waiting(d) /\ p \notin Recording(d)
      BY <2>1, <2>3
    <3>2. Waiting(d)' = Waiting(d) \ {p}
      BY <2>1, <2>3
    <3>3. Recording(d)' = Recording(d) \union {p}
      BY <2>1, <2>3
    <3>4. MessagesOf(d)' = MessagesOf(d) \union {m}
      BY <2>1, <2>2, <2>3
    <3>5. m \notin MessagesOf(d)
      BY <2>2
    <3> QED
      BY <2>1, <3>1, <3>2, <3>3, <3>4, <3>5 DEF Sends
  <2>4. CASE req[p] # d
    <3>1. MessagesOf(d)' = MessagesOf(d)
      BY <2>1, <2>2, <2>4
    <3>2. Recording(d)' = Recording(d) /\ Waiting(d)' = Waiting(d)
      BY <2>1, <2>4
    <3> QED
      BY <2>1, <3>1, <3>2 DEF Idle
  <2> QED
    BY <2>3, <2>4
<1>5. ASSUME NEW p \in Procs, RecordEnqueued(p) PROVE Idle(d) \/ Records(d)
  <2>1. CASE req[p] = d
    BY <1>5, <2>1 DEF RecordEnqueued, RecordAs, Records
  <2>2. CASE req[p] # d
    BY <1>5, <2>2 DEF RecordEnqueued, RecordAs, Idle
  <2> QED
    BY <2>1, <2>2
<1>6. ASSUME NEW p \in Procs, Respond(p) PROVE Idle(d)
  BY <1>6 DEF Respond, Idle
<1>7. CASE UNCHANGED vars
  BY <1>7 DEF vars, handlerVars, Idle
<1> QED
  BY <1>1, <1>2, <1>3, <1>4, <1>5, <1>6, <1>7
     DEF Next, Handle, DedupeFails, Crash

\* Each of them keeps the count.
LEMMA NextCounted ==
  ASSUME NEW d, Counted(d), Idle(d) \/ Sends(d) \/ Records(d)
  PROVE  Counted(d)'
<1>0. /\ Cardinality(MessagesOf(d)) \in Nat
      /\ IsFiniteSet(Waiting(d)) /\ IsFiniteSet(Recording(d))
      /\ Cardinality(Waiting(d)) \in Nat /\ Cardinality(Recording(d)) \in Nat
      /\ Cardinality(Procs) \in Nat
      /\ Cardinality(Recording(d)) + Cardinality(Waiting(d))
           <= Cardinality(Procs)
  BY CountsAreFinite, FS_CardinalityType DEF Counted
<1>1. ASSUME Waiting(d)' \subseteq Waiting(d)
      PROVE  /\ Cardinality(Waiting(d)') \in Nat
             /\ Cardinality(Waiting(d)') <= Cardinality(Waiting(d))
  <2>1. Waiting(d)' \in SUBSET Waiting(d)
    BY <1>1
  <2>2. IsFiniteSet(Waiting(d)')
    BY <1>0, <2>1, FS_Subset
  <2> QED
    BY <1>0, <2>1, <2>2, FS_Subset, FS_CardinalityType
<1>2. CASE Idle(d)
  <2>1. CASE events[d] = "none"
    BY <1>2, <2>1 DEF Idle, Counted
  <2>2. CASE events[d] # "none"
    <3>1. Waiting(d)' \subseteq Waiting(d)
      BY <1>2, <2>2 DEF Idle
    <3>2. Cardinality(MessagesOf(d)) + Cardinality(Waiting(d)')
            <= Cardinality(Procs)
      BY <1>0, <1>1, <2>2, <3>1 DEF Counted
    <3> QED
      BY <1>2, <2>2, <3>2 DEF Idle, Counted
  <2> QED
    BY <2>1, <2>2
<1>3. CASE Sends(d)
  <2>1. PICK p \in Waiting(d), m \in MessagesOf(d)' :
          /\ m \notin MessagesOf(d) /\ MessagesOf(d)' = MessagesOf(d) \union {m}
          /\ p \notin Recording(d) /\ Recording(d)' = Recording(d) \union {p}
          /\ Waiting(d)' = Waiting(d) \ {p}
    BY <1>3 DEF Sends
  <2>2. /\ IsFiniteSet(MessagesOf(d)')
        /\ Cardinality(MessagesOf(d)') = Cardinality(MessagesOf(d)) + 1
    BY <2>1, FS_AddElement DEF Counted
  <2>3. Cardinality(Recording(d)') = Cardinality(Recording(d)) + 1
    BY <1>0, <2>1, FS_AddElement
  <2>4. Cardinality(Waiting(d)') = Cardinality(Waiting(d)) - 1
    BY <1>0, <2>1, FS_RemoveElement
  <2>5. CASE events[d] = "none"
    BY <1>3, <2>2, <2>3, <2>5 DEF Sends, Counted
  <2>6. CASE events[d] # "none"
    <3>1. Cardinality(MessagesOf(d)') + Cardinality(Waiting(d)')
            <= Cardinality(Procs)
      BY <1>0, <2>2, <2>4, <2>6 DEF Counted
    <3> QED
      BY <1>3, <2>2, <2>6, <3>1 DEF Sends, Counted
  <2> QED
    BY <2>5, <2>6
<1>4. CASE Records(d)
  <2>1. Cardinality(MessagesOf(d)) + Cardinality(Waiting(d))
          <= Cardinality(Procs)
    BY <1>0 DEF Counted
  <2>2. Cardinality(MessagesOf(d)) + Cardinality(Waiting(d)')
          <= Cardinality(Procs)
    BY <1>0, <1>1, <1>4, <2>1 DEF Records
  <2> QED
    BY <1>4, <2>2 DEF Records, Counted
<1> QED
  BY <1>2, <1>3, <1>4

\* However often GitHub repeats a delivery, and however the handlers
\* interleave, it starts at most one run per API process.
THEOREM OneRunPerProcess == Spec => []AtMostOneRunPerProcess
<1> DEFINE Count == Quiet => \A d \in Deliveries \ Anonymous : Counted(d)
<1>1. Init => Count
  <2> SUFFICES ASSUME Init, NEW d \in Deliveries \ Anonymous PROVE Counted(d)
    OBVIOUS
  <2>1. MessagesOf(d) = {} /\ Recording(d) = {} /\ events[d] = "none"
    BY DEF Init, MessagesOf, Recording, Requests
  <2> QED
    BY <2>1, FS_EmptySet DEF Counted
<1>2. Count /\ Inv /\ [Next]_vars => Count'
  <2> SUFFICES ASSUME Count, Inv, [Next]_vars, Quiet,
                      NEW d \in Deliveries \ Anonymous
               PROVE  Counted(d)'
    BY DEF Quiet
  <2>1. Counted(d)
    OBVIOUS
  <2>2. Idle(d) \/ Sends(d) \/ Records(d)
    BY DeliverySteps
  <2> QED
    BY <2>1, <2>2, NextCounted
<1>3. Count => AtMostOneRunPerProcess
  <2> SUFFICES ASSUME Count, Quiet, NEW d \in Deliveries \ Anonymous
               PROVE  Cardinality(MessagesOf(d)) <= Cardinality(Procs)
    BY DEF AtMostOneRunPerProcess, Quiet
  <2>1. Counted(d)
    OBVIOUS
  <2>2. Cardinality(MessagesOf(d)) \in Nat
    BY <2>1, FS_CardinalityType DEF Counted
  <2> QED
    BY <2>1, <2>2, CountsAreFinite DEF Counted
<1> HIDE DEF Count
<1> QED
  BY <1>1, <1>2, <1>3, Invariance, PTL DEF Spec
=============================================================================
