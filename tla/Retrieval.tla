----------------------------- MODULE Retrieval -----------------------------
(***************************************************************************)
(* The chunk index the agents search (agent/retrieval.py).  Every worker   *)
(* process has an index of its own in memory, which ends with the process  *)
(* and outlives its runs; all processes share the embedding cache on disk, *)
(* where an entry is half written while somebody writes it and stays so if *)
(* the writer fails or dies.                                               *)
(*                                                                         *)
(* A file's text is the sequence of codes it is cut into, empty when it    *)
(* has no chunks or cannot be read or parsed.  A code's own vector is      *)
(* named after the code.  The ranking of a search is left out.             *)
(***************************************************************************)
EXTENDS Naturals, Sequences, FiniteSets

CONSTANTS
  Procs,      \* worker processes
  Runs,       \* runs, each with a workspace of its own
  Files,      \* the Python files of the repository
  Codes,      \* texts of chunks
  Texts,      \* texts of files, the ones a Coder may write included
  Cloned,     \* Cloned[f] is the text of f in a fresh clone
  MaxChanges, \* bound on edits and on repeated indexing, per run
  None        \* no run, no vector, no cache entry

Absent == "absent"
Torn == "torn"

ASSUME RetrievalAssumption ==
  /\ Texts \subseteq Seq(Codes)
  /\ Cloned \in [Files -> Texts]
  /\ MaxChanges \in Nat
  /\ None \notin Runs \union Codes
  /\ {Absent, Torn} \intersect Codes = {}

VARIABLES
  at,       \* at[p]: where process p is in index_repo or in its run
  run,      \* run[p]: the run p works on
  begun,    \* runs that have been taken up
  text,     \* text[r][f]: the text of f in the workspace of r
  changes,  \* changes[r]: edits and indexings of r so far
  todo,     \* todo[p]: files still to be indexed
  file,     \* file[p]: the file being indexed
  vectors,  \* vectors[p]: embed_many's list, None where the cache missed
  misses,   \* misses[p]: positions encoded but not yet written to the cache
  index,    \* index[p]: the chunks in the collection of p
  cache,    \* cache[c]: the cache file of code c
  behind,   \* behind[p]: files edited, or skipped, since they were cut last
  leaked,   \* leaked[p]: runs whose chunks p failed to drop
  context   \* context[p]: what the last search returned

workVars == <<at, run, begun, text, changes>>
fileVars == <<todo, file, vectors, misses>>
vars == <<workVars, fileVars, index, cache, behind, leaked, context>>

Chunks == [run : Runs, file : Files, text : Texts, pos : Nat, vec : Codes]

TypeOK ==
  /\ at \in [Procs -> {"idle", "walk", "encode", "write", "close", "work"}]
  /\ run \in [Procs -> Runs \union {None}]
  /\ begun \subseteq Runs
  /\ text \in [Runs -> [Files -> Texts]]
  /\ changes \in [Runs -> Nat]
  /\ todo \in [Procs -> SUBSET Files]
  /\ file \in [Procs -> Files \union {None}]
  /\ vectors \in [Procs -> Seq(Codes \union {None})]
  /\ misses \in [Procs -> SUBSET Nat]
  /\ index \in [Procs -> SUBSET Chunks]
  /\ context \in [Procs -> SUBSET Chunks]
  /\ cache \in [Codes -> Codes \union {Absent, Torn}]
  /\ behind \in [Procs -> SUBSET Files]
  /\ leaked \in [Procs -> SUBSET Runs]

Init ==
  /\ at = [p \in Procs |-> "idle"] /\ run = [p \in Procs |-> None]
  /\ begun = {}
  /\ text = [r \in Runs |-> Cloned] /\ changes = [r \in Runs |-> 0]
  /\ todo = [p \in Procs |-> {}]
  /\ file = [p \in Procs |-> None]
  /\ vectors = [p \in Procs |-> <<>>] /\ misses = [p \in Procs |-> {}]
  /\ index = [p \in Procs |-> {}]
  /\ cache = [c \in Codes |-> Absent]
  /\ behind = [p \in Procs |-> {}] /\ leaked = [p \in Procs |-> {}]
  /\ context = [p \in Procs |-> {}]

Goto(p, place) == at' = [at EXCEPT ![p] = place]

\* The text p is cutting; the Coder does not edit while it is indexed.
TextOf(p) == text[run[p]][file[p]]
OfFile(p, f) == {c \in index[p] : c.run = run[p] /\ c.file = f}

-----------------------------------------------------------------------------
(* index_repo, one file at a time. *)

StartIndexing(p) ==
  /\ Goto(p, "walk")
  /\ todo' = [todo EXCEPT ![p] = Files]
  /\ UNCHANGED <<text, file, vectors, misses, index, cache, leaked>>

\* A clone, and its first indexing.
TakeRun(p, r) ==
  /\ at[p] = "idle" /\ r \notin begun
  /\ run' = [run EXCEPT ![p] = r] /\ begun' = begun \union {r}
  /\ StartIndexing(p)
  /\ UNCHANGED <<changes, behind, context>>

\* index_repo again over the same workspace, as auto_index does.
IndexAgain(p) ==
  /\ at[p] = "work"
  /\ changes[run[p]] < MaxChanges
  /\ changes' = [changes EXCEPT ![run[p]] = @ + 1]
  /\ StartIndexing(p)
  /\ UNCHANGED <<run, begun, behind, context>>

\* No chunks, or an exception before the old chunks are deleted: the index
\* keeps what it has of this file.
SkipFile(p, f) ==
  /\ at[p] = "walk" /\ f \in todo[p]
  /\ todo' = [todo EXCEPT ![p] = @ \ {f}]
  /\ behind' = [behind EXCEPT ![p] = @ \union {f}]
  /\ UNCHANGED <<workVars, file, vectors, misses, index, cache, leaked,
                  context>>

\* What embed_many finds in the cache; a torn entry is a miss.
Lookup(codes) ==
  [i \in DOMAIN codes |->
     IF cache[codes[i]] \in Codes THEN cache[codes[i]] ELSE None]

Missing(codes) == {i \in DOMAIN codes : Lookup(codes)[i] = None}

\* Mutant: the old chunks stay until the new ones are written.
CutFileOnly(p, f) ==
  /\ at[p] = "walk" /\ f \in todo[p]
  /\ text[run[p]][f] # <<>>
  /\ Goto(p, "encode")
  /\ todo' = [todo EXCEPT ![p] = @ \ {f}]
  /\ file' = [file EXCEPT ![p] = f]
  /\ vectors' = [vectors EXCEPT ![p] = Lookup(text[run[p]][f])]
  /\ misses' = [misses EXCEPT ![p] = Missing(text[run[p]][f])]
  /\ behind' = [behind EXCEPT ![p] = @ \ {f}]
  /\ UNCHANGED <<run, begun, text, changes, index, cache, leaked, context>>

\* Parse, delete the chunks of an earlier indexing, look the codes up.
CutFile(p, f) ==
  /\ at[p] = "walk" /\ f \in todo[p]
  /\ text[run[p]][f] # <<>>
  /\ Goto(p, "encode")
  /\ todo' = [todo EXCEPT ![p] = @ \ {f}]
  /\ file' = [file EXCEPT ![p] = f]
  /\ index' = [index EXCEPT ![p] = @ \ OfFile(p, f)]
  /\ vectors' = [vectors EXCEPT ![p] = Lookup(text[run[p]][f])]
  /\ misses' = [misses EXCEPT ![p] = Missing(text[run[p]][f])]
  /\ behind' = [behind EXCEPT ![p] = @ \ {f}]
  /\ UNCHANGED <<run, begun, text, changes, cache, leaked, context>>

\* Mutant: the n-th encoded vector goes with the n-th code.
FilledByRank(p) ==
  [i \in DOMAIN vectors[p] |->
     IF i \in misses[p]
       THEN TextOf(p)[Cardinality({j \in misses[p] : j <= i})]
       ELSE vectors[p][i]]

\* The encoded vectors, each in the place of its own miss.
Filled(p) ==
  [i \in DOMAIN vectors[p] |->
     IF i \in misses[p] THEN TextOf(p)[i] ELSE vectors[p][i]]

Encode(p) ==
  /\ at[p] = "encode"
  /\ Goto(p, "write")
  /\ vectors' = [vectors EXCEPT ![p] = Filled(p)]
  /\ UNCHANGED <<run, begun, text, changes, todo, file, misses, index, cache,
                 behind, leaked, context>>

\* The position whose cache entry is written next, if any is left.
Nexts(p) == {i \in misses[p] : \A j \in misses[p] : i <= j}

\* open(cache_file, 'w') empties the file, whoever had written it.
OpenEntry(p) == \E i \in Nexts(p) :
  /\ at[p] = "write"
  /\ Goto(p, "close")
  /\ cache' = [cache EXCEPT ![TextOf(p)[i]] = Torn]
  /\ UNCHANGED <<run, begun, text, changes, fileVars, index, behind, leaked,
                 context>>

\* The entry is whole, or torn: a failing write, or another process that
\* opened the file meanwhile.
CloseEntry(p) == \E i \in Nexts(p) :
  /\ at[p] = "close"
  /\ Goto(p, "write")
  /\ \E entry \in {vectors[p][i], Torn} :
       cache' = [cache EXCEPT ![TextOf(p)[i]] = entry]
  /\ misses' = [misses EXCEPT ![p] = @ \ {i}]
  /\ UNCHANGED <<run, begun, text, changes, todo, file, vectors, index, behind,
                 leaked, context>>

NextFile(p) ==
  /\ Goto(p, "walk")
  /\ file' = [file EXCEPT ![p] = None]
  /\ vectors' = [vectors EXCEPT ![p] = <<>>]
  /\ misses' = [misses EXCEPT ![p] = {}]
  /\ UNCHANGED <<run, begun, text, changes, todo>>

\* One chunk per code, under an id that is its place in the file.
NewChunks(p) ==
  {[run |-> run[p], file |-> file[p], text |-> TextOf(p), pos |-> i,
    vec |-> vectors[p][i]] : i \in DOMAIN vectors[p]}

Upsert(p) ==
  /\ at[p] = "write" /\ misses[p] = {}
  /\ index' = [index EXCEPT ![p] =
       {c \in @ : c \notin OfFile(p, file[p]) \/ c.pos \notin DOMAIN vectors[p]}
         \union NewChunks(p)]
  /\ NextFile(p)
  /\ UNCHANGED <<cache, behind, leaked, context>>

\* The embedder, the cache directory or the collection fails: the file is left
\* without chunks and the next one follows.
FileFails(p) ==
  /\ at[p] \in {"encode", "write"}
  /\ NextFile(p)
  /\ UNCHANGED <<index, cache, behind, leaked, context>>

Indexed(p) ==
  /\ at[p] = "walk" /\ todo[p] = {}
  /\ Goto(p, "work")
  /\ UNCHANGED <<run, begun, text, changes, fileVars, index, cache, behind,
                 leaked, context>>

-----------------------------------------------------------------------------
(* The run that uses the index. *)

\* Mutant: the query is not restricted to the repository of the run.
FoundAnywhere(p) == index[p]

Found(p) == {c \in index[p] : c.run = run[p]}

\* The k best of them, or none when the query fails.
Search(p) ==
  /\ at[p] = "work"
  /\ \E found \in SUBSET Found(p) : context' = [context EXCEPT ![p] = found]
  /\ UNCHANGED <<workVars, fileVars, index, cache, behind, leaked>>

\* edit_file; nothing tells the index.
Edit(p, f, t) ==
  /\ at[p] = "work"
  /\ changes[run[p]] < MaxChanges
  /\ changes' = [changes EXCEPT ![run[p]] = @ + 1]
  /\ text' = [text EXCEPT ![run[p]][f] = t]
  /\ behind' = [behind EXCEPT ![p] = @ \union {f}]
  /\ UNCHANGED <<at, run, begun, fileVars, index, cache, leaked, context>>

\* drop_repo's filter.
Dropped(p) == {c \in index[p] : c.run = run[p]}

RunIsOver(p) ==
  /\ Goto(p, "idle")
  /\ run' = [run EXCEPT ![p] = None]
  /\ todo' = [todo EXCEPT ![p] = {}]
  /\ file' = [file EXCEPT ![p] = None]
  /\ vectors' = [vectors EXCEPT ![p] = <<>>]
  /\ misses' = [misses EXCEPT ![p] = {}]
  /\ behind' = [behind EXCEPT ![p] = {}]
  /\ context' = [context EXCEPT ![p] = {}]
  /\ UNCHANGED <<begun, text, changes, cache>>

\* The finally block of the run, also when index_repo itself raised.
DropRepo(p) ==
  /\ at[p] \in {"walk", "work"}
  /\ \/ index' = [index EXCEPT ![p] = @ \ Dropped(p)] /\ UNCHANGED leaked
     \/ leaked' = [leaked EXCEPT ![p] = @ \union {run[p]}] /\ UNCHANGED index
  /\ RunIsOver(p)

\* The process ends, its index with it; the entry it was writing stays torn.
Die(p) ==
  /\ at[p] # "idle"
  /\ index' = [index EXCEPT ![p] = {}]
  /\ leaked' = [leaked EXCEPT ![p] = {}]
  /\ RunIsOver(p)

Next == \E p \in Procs :
  \/ \E r \in Runs : TakeRun(p, r)
  \/ IndexAgain(p)
  \/ \E f \in Files : SkipFile(p, f) \/ CutFile(p, f)
  \/ Encode(p) \/ OpenEntry(p) \/ CloseEntry(p) \/ Upsert(p) \/ FileFails(p)
  \/ Indexed(p) \/ Search(p)
  \/ \E f \in Files, t \in Texts : Edit(p, f, t)
  \/ DropRepo(p) \/ Die(p)

Spec == Init /\ [][Next]_vars

-----------------------------------------------------------------------------
(* Safety. *)

\* Every chunk is found under the vector of its own code, whichever of the
\* codes were cached, by whom, and however their entries were left behind.
VectorsMatchTheirCodes ==
  \A p \in Procs : \A c \in index[p] : c.vec = c.text[c.pos]

\* A file is never held in two versions at once: what an earlier indexing left
\* of it is gone before the new chunks are written, wherever they lie.  And
\* the chunks a run works with are up to date, but for the files the Coder has
\* edited since and those the last indexing skipped.
OneTextPerFile ==
  \A p \in Procs :
    /\ \A c, d \in index[p] :
         c.run = d.run /\ c.file = d.file => c.text = d.text
    /\ at[p] = "work" => \A c \in index[p] : c.run = run[p] =>
         c.text = text[c.run][c.file] \/ c.file \in behind[p]

\* A process holds the chunks of the run it works on and of those whose
\* clean-up failed, an idle one no others; and the agents of a run are shown
\* that run's code only, whatever the collection holds.
RunsAreKeptApart ==
  \A p \in Procs :
    /\ \A c \in index[p] : c.run = run[p] \/ c.run \in leaked[p]
    /\ at[p] = "work" => \A c \in context[p] : c.run = run[p]
=============================================================================
