------------------------------- MODULE RunApi -------------------------------
(***************************************************************************)
(* What a caller of the API sees (app/main.py): POST /runs under its rate  *)
(* limit, GET /runs a page at a time, and GET /runs/{id}, which asks the   *)
(* database first and Celery's result backend when that has no answer.     *)
(*                                                                         *)
(* A read changes nothing, so one caller is followed at a time: one that   *)
(* starts runs, one that lists them, or one that asks about one of them.   *)
(* What the other callers and the workers do meanwhile is that rows and    *)
(* results appear; RunRegistry models how they come to be written.         *)
(* Filtering by repository is left out, for a row's never changes.         *)
(***************************************************************************)
EXTENDS Naturals, Sequences, FiniteSets

CONSTANTS
  Servers,    \* API processes
  Clients,    \* caller addresses
  Limit,      \* RUNS_RATE_LIMIT
  Window,     \* RUNS_RATE_WINDOW_S
  MaxId,      \* run ids are 1 .. MaxId, in the order of their UUIDs
  Watched,    \* the run the caller asks about
  Starts,     \* start times of runs, by the clocks of their workers
  PageSizes,  \* values of the limit parameter
  MaxNow,     \* bound: the clock's horizon
  None        \* no row, no cursor, no answer

Ids == 1..MaxId
Statuses == {"running", "ended"}
Rows == [started : Starts, status : Statuses]
Answers == [state : {"pending"} \union Statuses,
            by : {"row", "nothing", "failure"}]

ASSUME ApiAssumption ==
  /\ Limit \in Nat /\ Window \in Nat
  /\ MaxId \in Nat /\ Watched \in Ids
  /\ Starts \subseteq Nat
  /\ PageSizes \subseteq Nat \ {0}
  /\ MaxNow \in Nat
  /\ None \notin Nat \union Rows \union Answers

VARIABLES
  caller,   \* what the caller that is followed does
  now,      \* the clock
  bucket,   \* bucket[s][c]: _rate_buckets of process s, for client c
  letIn,    \* letIn[s][c]: when s let c in, ever since s started
  refused,  \* refused[s][c]: when s last answered c with 429
  row,      \* row[i]: the start time and status of run i's row
  result,   \* what Celery knows of the watched run's task
  walk,     \* the filter, page size and cursor of a walk through GET /runs
  seen,     \* the ids it was given
  due,      \* rows there and matching ever since the walk began
  asking,   \* why a GET /runs/{id} goes on from the database to Celery
  told      \* the last answer of GET /runs/{id}, and who gave it

limitVars == <<bucket, letIn, refused>>
taskVars == <<row, result>>
walkVars == <<walk, seen, due>>
askVars == <<asking, told>>
vars == <<caller, now, limitVars, taskVars, walkVars, askVars>>

Filters == Statuses \union {"any"}

TypeOK ==
  /\ caller \in {"starts", "lists", "asks"}
  /\ now \in 0..MaxNow
  /\ bucket \in [Servers -> [Clients -> Seq(0..now)]]
  /\ letIn \in [Servers -> [Clients -> Seq(0..now)]]
  /\ refused \in [Servers -> [Clients -> (0..now) \union {None}]]
  /\ row \in [Ids -> Rows \union {None}]
  /\ result \in {"pending", "ended", "expired"}
  /\ walk \in [filter : Filters, size : Nat, cursor : Ids \union {None},
               on : BOOLEAN]
  /\ seen \in Seq(Ids) /\ due \subseteq Ids
  /\ asking \in {None, "nothing", "failure"}
  /\ told \in Answers \union {None}

Init ==
  /\ caller \in {"starts", "lists", "asks"}
  /\ now = 0
  /\ bucket = [s \in Servers |-> [c \in Clients |-> <<>>]]
  /\ letIn = [s \in Servers |-> [c \in Clients |-> <<>>]]
  /\ refused = [s \in Servers |-> [c \in Clients |-> None]]
  /\ row = [i \in Ids |-> None] /\ result = "pending"
  /\ walk = [filter |-> "any", size |-> 0, cursor |-> None, on |-> FALSE]
  /\ seen = <<>> /\ due = {}
  /\ asking = None /\ told = None

-----------------------------------------------------------------------------
(* POST /runs: a caller that starts runs. *)

Tick ==
  /\ caller = "starts" /\ now < MaxNow
  /\ now' = now + 1
  /\ UNCHANGED <<caller, limitVars, taskVars, walkVars, askVars>>

\* The times of ts later than a window before t.  time.monotonic() does not go
\* back, so the times ascend and those that are filtered out come first.
Recent(ts, t) ==
  LET old == {k \in DOMAIN ts : ts[k] + Window <= t}
  IN SubSeq(ts, Cardinality(old) + 1, Len(ts))

\* Mutant: one start too many.
FullAtMost(hits) == Len(hits) > Limit

Full(hits) == Len(hits) >= Limit

\* The request is counted, whether or not the run can then be enqueued.
Accept(s, c) ==
  LET hits == Recent(bucket[s][c], now) IN
  /\ caller = "starts" /\ ~Full(hits)
  /\ bucket' = [bucket EXCEPT ![s][c] = Append(hits, now)]
  /\ letIn' = [letIn EXCEPT ![s][c] = Append(@, now)]
  /\ UNCHANGED <<caller, now, refused, taskVars, walkVars, askVars>>

\* 429; the bucket keeps what it had.
Refuse(s, c) ==
  /\ caller = "starts" /\ Full(Recent(bucket[s][c], now))
  /\ refused' = [refused EXCEPT ![s][c] = now]
  /\ UNCHANGED <<caller, now, bucket, letIn, taskVars, walkVars, askVars>>

\* The buckets are in memory.
Restart(s) ==
  /\ caller = "starts"
  /\ bucket' = [bucket EXCEPT ![s] = [c \in Clients |-> <<>>]]
  /\ letIn' = [letIn EXCEPT ![s] = [c \in Clients |-> <<>>]]
  /\ refused' = [refused EXCEPT ![s] = [c \in Clients |-> None]]
  /\ UNCHANGED <<caller, now, taskVars, walkVars, askVars>>

-----------------------------------------------------------------------------
(* What the workers write meanwhile. *)

\* The rows of a table that a filter lets through.
Passing(table, filter) ==
  {i \in Ids : table[i] # None /\ filter \in {"any", table[i].status}}

\* The rows that were due and still pass.
StillDue == due' = due \intersect Passing(row', walk.filter)

\* A row is committed some time after the start time in it was taken: it may
\* come to lie anywhere in the list.  A run whose result is there inserts none.
InsertRow(i) ==
  /\ caller = "lists" \/ (caller = "asks" /\ i = Watched)
  /\ row[i] = None /\ result = "pending"
  /\ \E t \in Starts :
       row' = [row EXCEPT ![i] = [started |-> t, status |-> "running"]]
  /\ UNCHANGED <<caller, now, limitVars, result, walk, seen, askVars>>
  /\ StillDue

\* The run's final update, or the reaper's.
EndRow(i) ==
  /\ row[i] # None
  /\ row' = [row EXCEPT ![i].status = "ended"]
  /\ UNCHANGED <<caller, now, limitVars, result, walk, seen, askVars>>
  /\ StillDue

\* The task returns, fails or is killed, with or without a row to show; in the
\* end its result expires.
ResultChanges ==
  /\ caller = "asks"
  /\ \/ result = "pending" /\ result' = "ended"
     \/ result = "ended" /\ result' = "expired"
  /\ UNCHANGED <<caller, now, limitVars, row, walkVars, askVars>>

-----------------------------------------------------------------------------
(* GET /runs: a caller that lists runs. *)

\* ORDER BY started_at DESC, id DESC: i is listed before j.
Before(i, j) ==
  \/ row[i].started > row[j].started
  \/ row[i].started = row[j].started /\ i > j

\* Mutant: the cursor's start time alone decides.
AfterItsTime(i, cursor) ==
  \/ cursor = None \/ row[cursor] = None
  \/ row[i].started < row[cursor].started

\* The keyset condition; without a cursor, or a row for it, nothing is
\* filtered.
After(i, cursor) ==
  \/ cursor = None \/ row[cursor] = None
  \/ row[i].started < row[cursor].started
  \/ row[i].started = row[cursor].started /\ i < cursor

Matching == {i \in Passing(row, walk.filter) : After(i, walk.cursor)}

\* The first walk.size of the matching rows, in the order of the list.
Rank(i) == Cardinality({j \in Matching : Before(j, i)}) + 1
PageLength ==
  IF Cardinality(Matching) < walk.size THEN Cardinality(Matching) ELSE walk.size
Page == [k \in 1..PageLength |-> CHOOSE i \in Matching : Rank(i) = k]

StartWalk(f, size) ==
  /\ caller = "lists"
  /\ walk' = [filter |-> f, size |-> size, cursor |-> None, on |-> TRUE]
  /\ seen' = <<>>
  /\ due' = Passing(row, f)
  /\ UNCHANGED <<caller, now, limitVars, taskVars, askVars>>

\* The cursor of the next page, None after the last one.
NextCursor == IF PageLength = walk.size THEN Page[PageLength] ELSE None

FetchPage ==
  /\ walk.on
  /\ seen' = seen \o Page
  /\ walk' = [walk EXCEPT !.cursor = NextCursor, !.on = NextCursor # None]
  /\ UNCHANGED <<caller, now, limitVars, taskVars, due, askVars>>

-----------------------------------------------------------------------------
(* GET /runs/{id}: a caller that asks about one run. *)

Answer(state, by) ==
  /\ told' = [state |-> state, by |-> by]
  /\ asking' = None

\* Mutant: Celery is asked first, for all but pending tasks.
AskRowLast ==
  /\ caller = "asks" /\ asking = None
  /\ IF result = "pending" /\ row[Watched] # None
     THEN Answer(row[Watched].status, "row")
     ELSE asking' = "nothing" /\ UNCHANGED told
  /\ UNCHANGED <<caller, now, limitVars, taskVars, walkVars>>

\* The row answers, or there is none.
AskRow ==
  /\ caller = "asks" /\ asking = None
  /\ IF row[Watched] # None
     THEN Answer(row[Watched].status, "row")
     ELSE asking' = "nothing" /\ UNCHANGED told
  /\ UNCHANGED <<caller, now, limitVars, taskVars, walkVars>>

\* The database raises.
AskRowFails ==
  /\ caller = "asks" /\ asking = None
  /\ asking' = "failure"
  /\ UNCHANGED <<caller, now, limitVars, taskVars, walkVars, told>>

\* Mutant: a state without a case of its own is passed on as it is.
AskCeleryVerbatim ==
  /\ asking # None
  /\ Answer(result, asking)
  /\ UNCHANGED <<caller, now, limitVars, taskVars, walkVars>>

\* Tasks are not tracked while they run, and expired ones are forgotten.
AskCelery ==
  /\ asking # None
  /\ Answer(IF result = "ended" THEN "ended" ELSE "pending", asking)
  /\ UNCHANGED <<caller, now, limitVars, taskVars, walkVars>>

-----------------------------------------------------------------------------
Next ==
  \/ Tick
  \/ \E s \in Servers : Restart(s)
  \/ \E s \in Servers, c \in Clients : Accept(s, c) \/ Refuse(s, c)
  \/ \E i \in Ids : InsertRow(i) \/ EndRow(i)
  \/ ResultChanges
  \/ \E f \in Filters, size \in PageSizes : StartWalk(f, size)
  \/ FetchPage
  \/ AskRow \/ AskRowFails \/ AskCelery

Spec == Init /\ [][Next]_vars

-----------------------------------------------------------------------------
(* Safety. *)

\* The times of ts in the window that ends with t.
Within(ts, t) ==
  Cardinality({k \in DOMAIN ts : ts[k] <= t /\ ts[k] + Window > t})

\* No process starts more than Limit runs for one client in any window, though
\* its bucket forgets every request that has left the window.  And a caller who
\* is turned away can be sure of a start one window after the last request
\* that was let in: being refused does not prolong the wait.
LimitIsExact ==
  \A s \in Servers, c \in Clients :
    /\ \A t \in 0..now : Within(letIn[s][c], t) <= Limit
    /\ refused[s][c] # None =>
         Within(letIn[s][c], refused[s][c]) >= Limit

\* A walk that has come to its end has listed every row that was there and
\* matched all along, whatever was inserted or changed between its pages, and
\* no page repeats a row of an earlier one.
WalkListsEachRowOnce ==
  /\ ~walk.on => due \subseteq {seen[k] : k \in DOMAIN seen}
  /\ \A j, k \in DOMAIN seen : seen[j] = seen[k] => j = k

\* Once a row has answered that its run ended, no later answer is another one,
\* except while the database fails.
EndedStaysEnded ==
  [][told = [state |-> "ended", by |-> "row"] =>
       told' = told \/ told'.by = "failure"]_vars
=============================================================================
