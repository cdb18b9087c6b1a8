--------------------------- MODULE RetrievalProofs ---------------------------
(***************************************************************************)
(* Proofs about Retrieval, for any processes, runs, files, texts and codes *)
(* and any number of edits and indexings.                                  *)
(***************************************************************************)
EXTENDS Retrieval, SequenceTheorems, TLAPS

\* A process has a run exactly when it is not idle, and no two have the same.
RunsAreTaken ==
  \A p \in Procs :
    /\ at[p] = "idle" <=> run[p] = None
    /\ run[p] # None => run[p] \in begun
    /\ \A q \in Procs : run[p] # None /\ run[p] = run[q] => p = q

\* A cache entry is the vector of its own code or no vector at all.
CacheIsTrue == \A c \in Codes : cache[c] \in {c, Absent, Torn}

Embedding(p) == at[p] \in {"encode", "write", "close"}

\* While a file is indexed, embed_many's list has the length of the file's
\* text, and every place holds the right vector or waits to be encoded.
VectorsFill ==
  \A p \in Procs : Embedding(p) =>
    /\ file[p] \in Files
    /\ DOMAIN vectors[p] = DOMAIN TextOf(p)
    /\ misses[p] \subseteq DOMAIN vectors[p]
    /\ \A i \in DOMAIN vectors[p] :
         vectors[p][i] = TextOf(p)[i] \/ (at[p] = "encode" /\ i \in misses[p])

\* The chunks of an earlier indexing of the file are gone by then.
OldChunksAreGone ==
  \A p \in Procs : Embedding(p) =>
    \A c \in index[p] : c.run = run[p] => c.file # file[p]

\* No collection knows a run that has not begun.
IndexedRunsBegan == \A p \in Procs : \A c \in index[p] : c.run \in begun

\* Also while a run is indexed again, its chunks are up to date, edited or
\* skipped.
ChunksAreFresh ==
  \A p \in Procs : \A c \in index[p] : run[p] # None /\ c.run = run[p] =>
    c.text = text[c.run][c.file] \/ c.file \in behind[p]

\* What a process was last shown is of its run, wherever it is in it.
ContextIsOwn ==
  \A p \in Procs : \A c \in context[p] : run[p] # None /\ c.run = run[p]

ChunksAreOwned ==
  \A p \in Procs : \A c \in index[p] : c.run = run[p] \/ c.run \in leaked[p]

OneVersion ==
  \A p \in Procs : \A c, d \in index[p] :
    c.run = d.run /\ c.file = d.file => c.text = d.text

Inv ==
  /\ TypeOK
  /\ RunsAreTaken
  /\ CacheIsTrue
  /\ VectorsFill
  /\ OldChunksAreGone
  /\ IndexedRunsBegan
  /\ ContextIsOwn
  /\ ChunksAreOwned
  /\ ChunksAreFresh
  /\ OneVersion
  /\ VectorsMatchTheirCodes

-----------------------------------------------------------------------------
\* drop_repo adds no chunk, whether it works or not.
LEMMA DropsOnly ==
  ASSUME TypeOK, NEW p \in Procs, DropRepo(p)
  PROVE  \A q \in Procs : index'[q] \subseteq index[q]
<1>1. \/ index' = [index EXCEPT ![p] = index[p] \ Dropped(p)]
      \/ index' = index
  BY DEF DropRepo
<1> QED
  BY <1>1 DEF TypeOK

\* A function over the positions of a sequence is a sequence.
LEMMA SeqOver ==
  ASSUME NEW S, NEW s \in Seq(S), NEW T, NEW g \in [DOMAIN s -> T]
  PROVE  g \in Seq(T)
<1>1. DOMAIN s = 1..Len(s) /\ Len(s) \in Nat
  OBVIOUS
<1> QED
  BY <1>1, SeqDef

\* Nothing is indexed or cached at first.
LEMMA InitInv == Init => Inv
<1> SUFFICES ASSUME Init PROVE Inv
  OBVIOUS
<1> USE RetrievalAssumption DEF Init
<1>1. TypeOK
  BY DEF TypeOK
<1>2. RunsAreTaken
  BY DEF RunsAreTaken
<1>3. CacheIsTrue
  BY DEF CacheIsTrue
<1>4. VectorsFill /\ OldChunksAreGone
  BY DEF VectorsFill, OldChunksAreGone, Embedding
<1>5. IndexedRunsBegan /\ ContextIsOwn /\ ChunksAreOwned
  BY DEF IndexedRunsBegan, ContextIsOwn, ChunksAreOwned
<1>6. ChunksAreFresh /\ OneVersion /\ VectorsMatchTheirCodes
  BY DEF ChunksAreFresh, OneVersion, VectorsMatchTheirCodes
<1> QED
  BY <1>1, <1>2, <1>3, <1>4, <1>5, <1>6 DEF Inv

\* A run is taken up once, by an idle process.
LEMMA NextTaken == TypeOK /\ RunsAreTaken /\ [Next]_vars => RunsAreTaken'
<1> SUFFICES ASSUME TypeOK, RunsAreTaken, [Next]_vars PROVE RunsAreTaken'
  OBVIOUS
<1> USE RetrievalAssumption DEF TypeOK, RunsAreTaken, workVars, fileVars
<1>1. CASE UNCHANGED vars
  BY <1>1 DEF workVars, fileVars, vars
<1>2. ASSUME NEW p \in Procs, NEW r \in Runs, TakeRun(p, r)
      PROVE  RunsAreTaken'
  BY <1>2 DEF TakeRun, StartIndexing, Goto
<1>3. ASSUME NEW p \in Procs, IndexAgain(p) PROVE RunsAreTaken'
  BY <1>3 DEF IndexAgain, StartIndexing, Goto
<1>4. ASSUME NEW p \in Procs, NEW f \in Files, SkipFile(p, f)
      PROVE  RunsAreTaken'
  BY <1>4 DEF SkipFile
<1>5. ASSUME NEW p \in Procs, NEW f \in Files, CutFile(p, f)
      PROVE  RunsAreTaken'
  BY <1>5 DEF CutFile, Goto
<1>6. ASSUME NEW p \in Procs, Encode(p) PROVE RunsAreTaken'
  BY <1>6 DEF Encode, Goto
<1>7. ASSUME NEW p \in Procs, OpenEntry(p) PROVE RunsAreTaken'
  BY <1>7 DEF OpenEntry, Goto
<1>8. ASSUME NEW p \in Procs, CloseEntry(p) PROVE RunsAreTaken'
  BY <1>8 DEF CloseEntry, Goto
<1>9. ASSUME NEW p \in Procs, Upsert(p) PROVE RunsAreTaken'
  BY <1>9 DEF Upsert, NextFile, Goto
<1>10. ASSUME NEW p \in Procs, FileFails(p) PROVE RunsAreTaken'
  BY <1>10 DEF FileFails, NextFile, Goto
<1>11. ASSUME NEW p \in Procs, Indexed(p) PROVE RunsAreTaken'
  BY <1>11 DEF Indexed, Goto
<1>12. ASSUME NEW p \in Procs, Search(p) PROVE RunsAreTaken'
  BY <1>12 DEF Search
<1>13. ASSUME NEW p \in Procs, NEW f \in Files, NEW t \in Texts, Edit(p, f, t)
      PROVE  RunsAreTaken'
  BY <1>13 DEF Edit
<1>14. ASSUME NEW p \in Procs, DropRepo(p) PROVE RunsAreTaken'
  BY <1>14 DEF DropRepo, RunIsOver, Goto
<1>15. ASSUME NEW p \in Procs, Die(p) PROVE RunsAreTaken'
  BY <1>15 DEF Die, RunIsOver, Goto
<1> QED
  BY <1>1, <1>2, <1>3, <1>4, <1>5, <1>6, <1>7, <1>8,
     <1>9, <1>10, <1>11, <1>12, <1>13, <1>14, <1>15 DEF Next

\* Only the vector of the code itself is written to its entry.
LEMMA NextCache ==
  TypeOK /\ VectorsFill /\ CacheIsTrue /\ [Next]_vars => CacheIsTrue'
<1> SUFFICES ASSUME TypeOK, VectorsFill, CacheIsTrue, [Next]_vars
             PROVE  CacheIsTrue'
  OBVIOUS
<1> USE RetrievalAssumption DEF TypeOK, CacheIsTrue, workVars, fileVars
<1>1. CASE UNCHANGED vars
  BY <1>1 DEF workVars, fileVars, vars
<1>2. ASSUME NEW p \in Procs, NEW r \in Runs, TakeRun(p, r)
      PROVE  CacheIsTrue'
  BY <1>2 DEF TakeRun, StartIndexing, Goto
<1>3. ASSUME NEW p \in Procs, IndexAgain(p) PROVE CacheIsTrue'
  BY <1>3 DEF IndexAgain, StartIndexing, Goto
<1>4. ASSUME NEW p \in Procs, NEW f \in Files, SkipFile(p, f)
      PROVE  CacheIsTrue'
  BY <1>4 DEF SkipFile
<1>5. ASSUME NEW p \in Procs, NEW f \in Files, CutFile(p, f)
      PROVE  CacheIsTrue'
  BY <1>5 DEF CutFile, Goto
<1>6. ASSUME NEW p \in Procs, Encode(p) PROVE CacheIsTrue'
  BY <1>6 DEF Encode, Goto
<1>7. ASSUME NEW p \in Procs, OpenEntry(p) PROVE CacheIsTrue'
  BY <1>7 DEF OpenEntry, Goto
<1>8. ASSUME NEW p \in Procs, CloseEntry(p) PROVE CacheIsTrue'
  BY <1>8 DEF CloseEntry, Goto, Nexts, VectorsFill, Embedding
<1>9. ASSUME NEW p \in Procs, Upsert(p) PROVE CacheIsTrue'
  BY <1>9 DEF Upsert, NextFile, Goto
<1>10. ASSUME NEW p \in Procs, FileFails(p) PROVE CacheIsTrue'
  BY <1>10 DEF FileFails, NextFile, Goto
<1>11. ASSUME NEW p \in Procs, Indexed(p) PROVE CacheIsTrue'
  BY <1>11 DEF Indexed, Goto
<1>12. ASSUME NEW p \in Procs, Search(p) PROVE CacheIsTrue'
  BY <1>12 DEF Search
<1>13. ASSUME NEW p \in Procs, NEW f \in Files, NEW t \in Texts, Edit(p, f, t)
      PROVE  CacheIsTrue'
  BY <1>13 DEF Edit
<1>14. ASSUME NEW p \in Procs, DropRepo(p) PROVE CacheIsTrue'
  BY <1>14 DEF DropRepo, RunIsOver, Goto
<1>15. ASSUME NEW p \in Procs, Die(p) PROVE CacheIsTrue'
  BY <1>15 DEF Die, RunIsOver, Goto
<1> QED
  BY <1>1, <1>2, <1>3, <1>4, <1>5, <1>6, <1>7, <1>8,
     <1>9, <1>10, <1>11, <1>12, <1>13, <1>14, <1>15 DEF Next

\* The types hold at every step; those of a new chunk follow from the list that
\* embed_many has filled.
LEMMA NextType ==
  TypeOK /\ RunsAreTaken /\ VectorsFill /\ [Next]_vars => TypeOK'
<1> SUFFICES ASSUME TypeOK, RunsAreTaken, VectorsFill, [Next]_vars
             PROVE  TypeOK'
  OBVIOUS
<1> USE RetrievalAssumption DEF TypeOK, workVars, fileVars
<1>1. CASE UNCHANGED vars
  BY <1>1 DEF workVars, fileVars, vars
<1>2. ASSUME NEW p \in Procs, NEW r \in Runs, TakeRun(p, r)
      PROVE  TypeOK'
  BY <1>2 DEF TakeRun, StartIndexing, Goto
<1>3. ASSUME NEW p \in Procs, IndexAgain(p) PROVE TypeOK'
<2>1. run[p] \in Runs
  BY <1>3 DEF IndexAgain, RunsAreTaken
<2> QED
  BY <2>1, <1>3 DEF IndexAgain, StartIndexing, Goto
<1>4. ASSUME NEW p \in Procs, NEW f \in Files, SkipFile(p, f)
      PROVE  TypeOK'
  BY <1>4 DEF SkipFile
<1>5. ASSUME NEW p \in Procs, NEW f \in Files, CutFile(p, f)
      PROVE  TypeOK'
<2> DEFINE t == text[run[p]][f]
<2>1. run[p] \in Runs
  BY <1>5 DEF CutFile, RunsAreTaken
<2>2. t \in Seq(Codes)
  BY <2>1
<2>3. Lookup(t) \in Seq(Codes \union {None}) /\ Missing(t) \subseteq Nat
  BY <2>2, SeqOver DEF Lookup, Missing
<2> QED
  BY <2>1, <2>3, <1>5 DEF CutFile, Goto
<1>6. ASSUME NEW p \in Procs, Encode(p) PROVE TypeOK'
<2>1. Filled(p) \in Seq(Codes \union {None})
  <3>1. vectors[p] \in Seq(Codes \union {None})
    OBVIOUS
  <3>2. \A i \in DOMAIN vectors[p] : TextOf(p)[i] \in Codes
    BY <1>6 DEF Encode, VectorsFill, Embedding, RunsAreTaken, TextOf
  <3>3. \A i \in DOMAIN vectors[p] : vectors[p][i] \in Codes \union {None}
    BY <3>1
  <3>4. Filled(p) \in [DOMAIN vectors[p] -> Codes \union {None}]
    BY <3>2, <3>3 DEF Filled
  <3> QED
    BY <3>1, <3>4, SeqOver
<2> QED
  BY <2>1, <1>6 DEF Encode, Goto
<1>7. ASSUME NEW p \in Procs, OpenEntry(p) PROVE TypeOK'
  BY <1>7 DEF OpenEntry, Goto
<1>8. ASSUME NEW p \in Procs, CloseEntry(p) PROVE TypeOK'
<2>1. run[p] \in Runs /\ file[p] \in Files /\ TextOf(p) \in Texts
  BY <1>8 DEF CloseEntry, VectorsFill, Embedding, RunsAreTaken, TextOf
<2>2. \A i \in DOMAIN TextOf(p) : TextOf(p)[i] \in Codes
  <3>1. TextOf(p) \in Seq(Codes)
    BY <2>1
  <3> QED
    BY <3>1
<2>3. \A i \in Nexts(p) : vectors[p][i] \in Codes
  <3>1. /\ DOMAIN vectors[p] = DOMAIN TextOf(p)
        /\ misses[p] \subseteq DOMAIN vectors[p]
    BY <1>8 DEF CloseEntry, VectorsFill, Embedding
  <3>2. \A i \in DOMAIN vectors[p] : vectors[p][i] = TextOf(p)[i]
    BY <1>8 DEF CloseEntry, VectorsFill, Embedding
  <3> QED
    BY <2>2, <3>1, <3>2 DEF Nexts
<2>4. cache' \in [Codes -> Codes \union {Absent, Torn}]
  BY <2>3, <1>8 DEF CloseEntry
<2>5. misses' \in [Procs -> SUBSET Nat]
  BY <1>8 DEF CloseEntry
<2> QED
  BY <2>4, <2>5, <1>8 DEF CloseEntry, Goto
<1>9. ASSUME NEW p \in Procs, Upsert(p) PROVE TypeOK'
<2>1. run[p] \in Runs /\ file[p] \in Files /\ TextOf(p) \in Texts
  BY <1>9 DEF Upsert, VectorsFill, Embedding, RunsAreTaken, TextOf
<2>2. TextOf(p) \in Seq(Codes) /\ vectors[p] \in Seq(Codes \union {None})
  BY <2>1
<2>3. \A i \in DOMAIN vectors[p] : i \in Nat /\ vectors[p][i] \in Codes
  BY <2>2, <1>9 DEF Upsert, VectorsFill, Embedding
<2>4. NewChunks(p) \subseteq Chunks
  BY <2>1, <2>3 DEF NewChunks, Chunks
<2> QED
  BY <2>4, <1>9 DEF Upsert, NextFile, Goto
<1>10. ASSUME NEW p \in Procs, FileFails(p) PROVE TypeOK'
  BY <1>10 DEF FileFails, NextFile, Goto
<1>11. ASSUME NEW p \in Procs, Indexed(p) PROVE TypeOK'
  BY <1>11 DEF Indexed, Goto
<1>12. ASSUME NEW p \in Procs, Search(p) PROVE TypeOK'
  BY <1>12 DEF Search, Found
<1>13. ASSUME NEW p \in Procs, NEW f \in Files, NEW t \in Texts, Edit(p, f, t)
      PROVE  TypeOK'
<2>1. run[p] \in Runs
  BY <1>13 DEF Edit, RunsAreTaken
<2> QED
  BY <2>1, <1>13 DEF Edit
<1>14. ASSUME NEW p \in Procs, DropRepo(p) PROVE TypeOK'
<2>1. run[p] \in Runs
  BY <1>14 DEF DropRepo, RunsAreTaken
<2>2. index' \in [Procs -> SUBSET Chunks]
  <3>1. \/ index' = [index EXCEPT ![p] = index[p] \ Dropped(p)]
        \/ index' = index
    BY <1>14 DEF DropRepo
  <3>2. index[p] \ Dropped(p) \in SUBSET Chunks
    OBVIOUS
  <3> QED
    BY <3>1, <3>2
<2>3. leaked' \in [Procs -> SUBSET Runs]
  <3>1. \/ leaked' = [leaked EXCEPT ![p] = leaked[p] \union {run[p]}]
        \/ leaked' = leaked
    BY <1>14 DEF DropRepo
  <3>2. leaked[p] \union {run[p]} \in SUBSET Runs
    BY <2>1
  <3> QED
    BY <3>1, <3>2
<2> QED
  BY <2>2, <2>3, <1>14 DEF DropRepo, RunIsOver, Goto
<1>15. ASSUME NEW p \in Procs, Die(p) PROVE TypeOK'
  BY <1>15 DEF Die, RunIsOver, Goto
<1> QED
  BY <1>1, <1>2, <1>3, <1>4, <1>5, <1>6, <1>7, <1>8,
     <1>9, <1>10, <1>11, <1>12, <1>13, <1>14, <1>15 DEF Next

\* A cached entry and an encoded one go where their code is, and nobody edits
\* the file meanwhile.
LEMMA NextFill ==
  TypeOK /\ RunsAreTaken /\ CacheIsTrue /\ VectorsFill /\
  [Next]_vars => VectorsFill'
<1> SUFFICES ASSUME TypeOK, RunsAreTaken, CacheIsTrue, VectorsFill,
                    [Next]_vars
             PROVE  VectorsFill'
  OBVIOUS
<1> USE RetrievalAssumption DEF TypeOK, RunsAreTaken, VectorsFill, Embedding,
    TextOf, workVars, fileVars
<1>1. CASE UNCHANGED vars
  BY <1>1 DEF workVars, fileVars, vars
<1>2. ASSUME NEW p \in Procs, NEW r \in Runs, TakeRun(p, r)
      PROVE  VectorsFill'
  BY <1>2 DEF TakeRun, StartIndexing, Goto
<1>3. ASSUME NEW p \in Procs, IndexAgain(p) PROVE VectorsFill'
  BY <1>3 DEF IndexAgain, StartIndexing, Goto
<1>4. ASSUME NEW p \in Procs, NEW f \in Files, SkipFile(p, f)
      PROVE  VectorsFill'
  BY <1>4 DEF SkipFile
<1>5. ASSUME NEW p \in Procs, NEW f \in Files, CutFile(p, f)
      PROVE  VectorsFill'
  BY <1>5 DEF CutFile, Goto, CacheIsTrue, Lookup, Missing
<1>6. ASSUME NEW p \in Procs, Encode(p) PROVE VectorsFill'
  BY <1>6 DEF Encode, Goto, Filled
<1>7. ASSUME NEW p \in Procs, OpenEntry(p) PROVE VectorsFill'
  BY <1>7 DEF OpenEntry, Goto
<1>8. ASSUME NEW p \in Procs, CloseEntry(p) PROVE VectorsFill'
  BY <1>8 DEF CloseEntry, Goto
<1>9. ASSUME NEW p \in Procs, Upsert(p) PROVE VectorsFill'
  BY <1>9 DEF Upsert, NextFile, Goto
<1>10. ASSUME NEW p \in Procs, FileFails(p) PROVE VectorsFill'
  BY <1>10 DEF FileFails, NextFile, Goto
<1>11. ASSUME NEW p \in Procs, Indexed(p) PROVE VectorsFill'
  BY <1>11 DEF Indexed, Goto
<1>12. ASSUME NEW p \in Procs, Search(p) PROVE VectorsFill'
  BY <1>12 DEF Search
<1>13. ASSUME NEW p \in Procs, NEW f \in Files, NEW t \in Texts, Edit(p, f, t)
      PROVE  VectorsFill'
  BY <1>13 DEF Edit
<1>14. ASSUME NEW p \in Procs, DropRepo(p) PROVE VectorsFill'
  BY <1>14 DEF DropRepo, RunIsOver, Goto
<1>15. ASSUME NEW p \in Procs, Die(p) PROVE VectorsFill'
  BY <1>15 DEF Die, RunIsOver, Goto
<1> QED
  BY <1>1, <1>2, <1>3, <1>4, <1>5, <1>6, <1>7, <1>8,
     <1>9, <1>10, <1>11, <1>12, <1>13, <1>14, <1>15 DEF Next

\* CutFile deletes them, and only Upsert adds any.
LEMMA NextGone ==
  TypeOK /\ OldChunksAreGone /\ [Next]_vars => OldChunksAreGone'
<1> SUFFICES ASSUME TypeOK, OldChunksAreGone, [Next]_vars
             PROVE  OldChunksAreGone'
  OBVIOUS
<1> USE RetrievalAssumption DEF TypeOK, OldChunksAreGone, Embedding, workVars,
    fileVars
<1>1. CASE UNCHANGED vars
  BY <1>1 DEF workVars, fileVars, vars
<1>2. ASSUME NEW p \in Procs, NEW r \in Runs, TakeRun(p, r)
      PROVE  OldChunksAreGone'
  BY <1>2 DEF TakeRun, StartIndexing, Goto
<1>3. ASSUME NEW p \in Procs, IndexAgain(p) PROVE OldChunksAreGone'
  BY <1>3 DEF IndexAgain, StartIndexing, Goto
<1>4. ASSUME NEW p \in Procs, NEW f \in Files, SkipFile(p, f)
      PROVE  OldChunksAreGone'
  BY <1>4 DEF SkipFile
<1>5. ASSUME NEW p \in Procs, NEW f \in Files, CutFile(p, f)
      PROVE  OldChunksAreGone'
  BY <1>5 DEF CutFile, Goto, OfFile
<1>6. ASSUME NEW p \in Procs, Encode(p) PROVE OldChunksAreGone'
  BY <1>6 DEF Encode, Goto
<1>7. ASSUME NEW p \in Procs, OpenEntry(p) PROVE OldChunksAreGone'
  BY <1>7 DEF OpenEntry, Goto
<1>8. ASSUME NEW p \in Procs, CloseEntry(p) PROVE OldChunksAreGone'
  BY <1>8 DEF CloseEntry, Goto
<1>9. ASSUME NEW p \in Procs, Upsert(p) PROVE OldChunksAreGone'
  BY <1>9 DEF Upsert, NextFile, Goto
<1>10. ASSUME NEW p \in Procs, FileFails(p) PROVE OldChunksAreGone'
  BY <1>10 DEF FileFails, NextFile, Goto
<1>11. ASSUME NEW p \in Procs, Indexed(p) PROVE OldChunksAreGone'
  BY <1>11 DEF Indexed, Goto
<1>12. ASSUME NEW p \in Procs, Search(p) PROVE OldChunksAreGone'
  BY <1>12 DEF Search
<1>13. ASSUME NEW p \in Procs, NEW f \in Files, NEW t \in Texts, Edit(p, f, t)
      PROVE  OldChunksAreGone'
  BY <1>13 DEF Edit
<1>14. ASSUME NEW p \in Procs, DropRepo(p) PROVE OldChunksAreGone'
  BY <1>14, DropsOnly DEF DropRepo, RunIsOver, Goto
<1>15. ASSUME NEW p \in Procs, Die(p) PROVE OldChunksAreGone'
  BY <1>15 DEF Die, RunIsOver, Goto
<1> QED
  BY <1>1, <1>2, <1>3, <1>4, <1>5, <1>6, <1>7, <1>8,
     <1>9, <1>10, <1>11, <1>12, <1>13, <1>14, <1>15 DEF Next

\* Upsert adds chunks of a run that has begun.
LEMMA NextBegan ==
  TypeOK /\ RunsAreTaken /\ IndexedRunsBegan /\
  [Next]_vars => IndexedRunsBegan'
<1> SUFFICES ASSUME TypeOK, RunsAreTaken, IndexedRunsBegan, [Next]_vars
             PROVE  IndexedRunsBegan'
  OBVIOUS
<1> USE RetrievalAssumption DEF TypeOK, RunsAreTaken, IndexedRunsBegan,
    workVars, fileVars
<1>1. CASE UNCHANGED vars
  BY <1>1 DEF workVars, fileVars, vars
<1>2. ASSUME NEW p \in Procs, NEW r \in Runs, TakeRun(p, r)
      PROVE  IndexedRunsBegan'
  BY <1>2 DEF TakeRun, StartIndexing, Goto
<1>3. ASSUME NEW p \in Procs, IndexAgain(p) PROVE IndexedRunsBegan'
  BY <1>3 DEF IndexAgain, StartIndexing, Goto
<1>4. ASSUME NEW p \in Procs, NEW f \in Files, SkipFile(p, f)
      PROVE  IndexedRunsBegan'
  BY <1>4 DEF SkipFile
<1>5. ASSUME NEW p \in Procs, NEW f \in Files, CutFile(p, f)
      PROVE  IndexedRunsBegan'
  BY <1>5 DEF CutFile, Goto
<1>6. ASSUME NEW p \in Procs, Encode(p) PROVE IndexedRunsBegan'
  BY <1>6 DEF Encode, Goto
<1>7. ASSUME NEW p \in Procs, OpenEntry(p) PROVE IndexedRunsBegan'
  BY <1>7 DEF OpenEntry, Goto
<1>8. ASSUME NEW p \in Procs, CloseEntry(p) PROVE IndexedRunsBegan'
  BY <1>8 DEF CloseEntry, Goto
<1>9. ASSUME NEW p \in Procs, Upsert(p) PROVE IndexedRunsBegan'
  BY <1>9 DEF Upsert, NextFile, Goto, OfFile, NewChunks
<1>10. ASSUME NEW p \in Procs, FileFails(p) PROVE IndexedRunsBegan'
  BY <1>10 DEF FileFails, NextFile, Goto
<1>11. ASSUME NEW p \in Procs, Indexed(p) PROVE IndexedRunsBegan'
  BY <1>11 DEF Indexed, Goto
<1>12. ASSUME NEW p \in Procs, Search(p) PROVE IndexedRunsBegan'
  BY <1>12 DEF Search
<1>13. ASSUME NEW p \in Procs, NEW f \in Files, NEW t \in Texts, Edit(p, f, t)
      PROVE  IndexedRunsBegan'
  BY <1>13 DEF Edit
<1>14. ASSUME NEW p \in Procs, DropRepo(p) PROVE IndexedRunsBegan'
  BY <1>14, DropsOnly DEF DropRepo, RunIsOver, Goto
<1>15. ASSUME NEW p \in Procs, Die(p) PROVE IndexedRunsBegan'
  BY <1>15 DEF Die, RunIsOver, Goto
<1> QED
  BY <1>1, <1>2, <1>3, <1>4, <1>5, <1>6, <1>7, <1>8,
     <1>9, <1>10, <1>11, <1>12, <1>13, <1>14, <1>15 DEF Next

\* A search keeps to the run, and the context ends with it.
LEMMA NextContext ==
  TypeOK /\ RunsAreTaken /\ ContextIsOwn /\ [Next]_vars => ContextIsOwn'
<1> SUFFICES ASSUME TypeOK, RunsAreTaken, ContextIsOwn, [Next]_vars
             PROVE  ContextIsOwn'
  OBVIOUS
<1> USE RetrievalAssumption DEF TypeOK, RunsAreTaken, ContextIsOwn, workVars,
    fileVars
<1>1. CASE UNCHANGED vars
  BY <1>1 DEF workVars, fileVars, vars
<1>2. ASSUME NEW p \in Procs, NEW r \in Runs, TakeRun(p, r)
      PROVE  ContextIsOwn'
  BY <1>2 DEF TakeRun, StartIndexing, Goto
<1>3. ASSUME NEW p \in Procs, IndexAgain(p) PROVE ContextIsOwn'
  BY <1>3 DEF IndexAgain, StartIndexing, Goto
<1>4. ASSUME NEW p \in Procs, NEW f \in Files, SkipFile(p, f)
      PROVE  ContextIsOwn'
  BY <1>4 DEF SkipFile
<1>5. ASSUME NEW p \in Procs, NEW f \in Files, CutFile(p, f)
      PROVE  ContextIsOwn'
  BY <1>5 DEF CutFile, Goto
<1>6. ASSUME NEW p \in Procs, Encode(p) PROVE ContextIsOwn'
  BY <1>6 DEF Encode, Goto
<1>7. ASSUME NEW p \in Procs, OpenEntry(p) PROVE ContextIsOwn'
  BY <1>7 DEF OpenEntry, Goto
<1>8. ASSUME NEW p \in Procs, CloseEntry(p) PROVE ContextIsOwn'
  BY <1>8 DEF CloseEntry, Goto
<1>9. ASSUME NEW p \in Procs, Upsert(p) PROVE ContextIsOwn'
  BY <1>9 DEF Upsert, NextFile, Goto
<1>10. ASSUME NEW p \in Procs, FileFails(p) PROVE ContextIsOwn'
  BY <1>10 DEF FileFails, NextFile, Goto
<1>11. ASSUME NEW p \in Procs, Indexed(p) PROVE ContextIsOwn'
  BY <1>11 DEF Indexed, Goto
<1>12. ASSUME NEW p \in Procs, Search(p) PROVE ContextIsOwn'
  BY <1>12 DEF Search, Found
<1>13. ASSUME NEW p \in Procs, NEW f \in Files, NEW t \in Texts, Edit(p, f, t)
      PROVE  ContextIsOwn'
  BY <1>13 DEF Edit
<1>14. ASSUME NEW p \in Procs, DropRepo(p) PROVE ContextIsOwn'
  BY <1>14 DEF DropRepo, RunIsOver, Goto
<1>15. ASSUME NEW p \in Procs, Die(p) PROVE ContextIsOwn'
  BY <1>15 DEF Die, RunIsOver, Goto
<1> QED
  BY <1>1, <1>2, <1>3, <1>4, <1>5, <1>6, <1>7, <1>8,
     <1>9, <1>10, <1>11, <1>12, <1>13, <1>14, <1>15 DEF Next

\* A chunk outlives its run only where drop_repo failed.
LEMMA NextOwned ==
  TypeOK /\ RunsAreTaken /\ ChunksAreOwned /\ [Next]_vars => ChunksAreOwned'
<1> SUFFICES ASSUME TypeOK, RunsAreTaken, ChunksAreOwned, [Next]_vars
             PROVE  ChunksAreOwned'
  OBVIOUS
<1> USE RetrievalAssumption DEF TypeOK, RunsAreTaken, ChunksAreOwned,
    workVars, fileVars
<1>1. CASE UNCHANGED vars
  BY <1>1 DEF workVars, fileVars, vars
<1>2. ASSUME NEW p \in Procs, NEW r \in Runs, TakeRun(p, r)
      PROVE  ChunksAreOwned'
  BY <1>2 DEF TakeRun, StartIndexing, Goto, Chunks
<1>3. ASSUME NEW p \in Procs, IndexAgain(p) PROVE ChunksAreOwned'
  BY <1>3 DEF IndexAgain, StartIndexing, Goto
<1>4. ASSUME NEW p \in Procs, NEW f \in Files, SkipFile(p, f)
      PROVE  ChunksAreOwned'
  BY <1>4 DEF SkipFile
<1>5. ASSUME NEW p \in Procs, NEW f \in Files, CutFile(p, f)
      PROVE  ChunksAreOwned'
  BY <1>5 DEF CutFile, Goto
<1>6. ASSUME NEW p \in Procs, Encode(p) PROVE ChunksAreOwned'
  BY <1>6 DEF Encode, Goto
<1>7. ASSUME NEW p \in Procs, OpenEntry(p) PROVE ChunksAreOwned'
  BY <1>7 DEF OpenEntry, Goto
<1>8. ASSUME NEW p \in Procs, CloseEntry(p) PROVE ChunksAreOwned'
  BY <1>8 DEF CloseEntry, Goto
<1>9. ASSUME NEW p \in Procs, Upsert(p) PROVE ChunksAreOwned'
  BY <1>9 DEF Upsert, NextFile, Goto, OfFile, NewChunks
<1>10. ASSUME NEW p \in Procs, FileFails(p) PROVE ChunksAreOwned'
  BY <1>10 DEF FileFails, NextFile, Goto
<1>11. ASSUME NEW p \in Procs, Indexed(p) PROVE ChunksAreOwned'
  BY <1>11 DEF Indexed, Goto
<1>12. ASSUME NEW p \in Procs, Search(p) PROVE ChunksAreOwned'
  BY <1>12 DEF Search
<1>13. ASSUME NEW p \in Procs, NEW f \in Files, NEW t \in Texts, Edit(p, f, t)
      PROVE  ChunksAreOwned'
  BY <1>13 DEF Edit
<1>14. ASSUME NEW p \in Procs, DropRepo(p) PROVE ChunksAreOwned'
<2>1. \A q \in Procs : q # p =>
        index'[q] = index[q] /\ leaked'[q] = leaked[q] /\ run'[q] = run[q]
  BY <1>14 DEF DropRepo, RunIsOver
<2>2. \/ index'[p] = index[p] \ Dropped(p) /\ leaked'[p] = leaked[p]
      \/ index'[p] = index[p] /\ leaked'[p] = leaked[p] \union {run[p]}
  BY <1>14 DEF DropRepo
<2>3. \A c \in index'[p] : c.run \in leaked'[p]
  BY <2>2 DEF Dropped
<2> QED
  BY <2>1, <2>3
<1>15. ASSUME NEW p \in Procs, Die(p) PROVE ChunksAreOwned'
  BY <1>15 DEF Die, RunIsOver, Goto
<1> QED
  BY <1>1, <1>2, <1>3, <1>4, <1>5, <1>6, <1>7, <1>8,
     <1>9, <1>10, <1>11, <1>12, <1>13, <1>14, <1>15 DEF Next

\* A run that is taken up has no chunks yet; then every edit, skip and cut is
\* noted in behind.
LEMMA NextFresh ==
  TypeOK /\ RunsAreTaken /\ VectorsFill /\ IndexedRunsBegan /\
  ChunksAreFresh /\ [Next]_vars => ChunksAreFresh'
<1> SUFFICES ASSUME TypeOK, RunsAreTaken, VectorsFill, IndexedRunsBegan,
                    ChunksAreFresh, [Next]_vars
             PROVE  ChunksAreFresh'
  OBVIOUS
<1> USE RetrievalAssumption DEF TypeOK, RunsAreTaken, ChunksAreFresh,
    workVars, fileVars
<1>1. CASE UNCHANGED vars
  BY <1>1 DEF workVars, fileVars, vars
<1>2. ASSUME NEW p \in Procs, NEW r \in Runs, TakeRun(p, r)
      PROVE  ChunksAreFresh'
  BY <1>2 DEF TakeRun, StartIndexing, Goto, IndexedRunsBegan
<1>3. ASSUME NEW p \in Procs, IndexAgain(p) PROVE ChunksAreFresh'
  BY <1>3 DEF IndexAgain, StartIndexing, Goto
<1>4. ASSUME NEW p \in Procs, NEW f \in Files, SkipFile(p, f)
      PROVE  ChunksAreFresh'
  BY <1>4 DEF SkipFile
<1>5. ASSUME NEW p \in Procs, NEW f \in Files, CutFile(p, f)
      PROVE  ChunksAreFresh'
  BY <1>5 DEF CutFile, Goto, OfFile
<1>6. ASSUME NEW p \in Procs, Encode(p) PROVE ChunksAreFresh'
  BY <1>6 DEF Encode, Goto
<1>7. ASSUME NEW p \in Procs, OpenEntry(p) PROVE ChunksAreFresh'
  BY <1>7 DEF OpenEntry, Goto
<1>8. ASSUME NEW p \in Procs, CloseEntry(p) PROVE ChunksAreFresh'
  BY <1>8 DEF CloseEntry, Goto
<1>9. ASSUME NEW p \in Procs, Upsert(p) PROVE ChunksAreFresh'
  BY <1>9 DEF Upsert, NextFile, Goto, OfFile, NewChunks, VectorsFill,
     Embedding, TextOf
<1>10. ASSUME NEW p \in Procs, FileFails(p) PROVE ChunksAreFresh'
  BY <1>10 DEF FileFails, NextFile, Goto
<1>11. ASSUME NEW p \in Procs, Indexed(p) PROVE ChunksAreFresh'
  BY <1>11 DEF Indexed, Goto
<1>12. ASSUME NEW p \in Procs, Search(p) PROVE ChunksAreFresh'
  BY <1>12 DEF Search
<1>13. ASSUME NEW p \in Procs, NEW f \in Files, NEW t \in Texts, Edit(p, f, t)
      PROVE  ChunksAreFresh'
  BY <1>13 DEF Edit
<1>14. ASSUME NEW p \in Procs, DropRepo(p) PROVE ChunksAreFresh'
  BY <1>14, DropsOnly DEF DropRepo, RunIsOver, Goto
<1>15. ASSUME NEW p \in Procs, Die(p) PROVE ChunksAreFresh'
  BY <1>15 DEF Die, RunIsOver, Goto
<1> QED
  BY <1>1, <1>2, <1>3, <1>4, <1>5, <1>6, <1>7, <1>8,
     <1>9, <1>10, <1>11, <1>12, <1>13, <1>14, <1>15 DEF Next

\* The new chunks of a file meet none of another version.
LEMMA NextOneVersion ==
  TypeOK /\ RunsAreTaken /\ VectorsFill /\ OldChunksAreGone /\ OneVersion /\
  [Next]_vars => OneVersion'
<1> SUFFICES ASSUME TypeOK, RunsAreTaken, VectorsFill, OldChunksAreGone,
                    OneVersion, [Next]_vars
             PROVE  OneVersion'
  OBVIOUS
<1> USE RetrievalAssumption DEF TypeOK, OneVersion, workVars, fileVars
<1>1. CASE UNCHANGED vars
  BY <1>1 DEF workVars, fileVars, vars
<1>2. ASSUME NEW p \in Procs, NEW r \in Runs, TakeRun(p, r)
      PROVE  OneVersion'
  BY <1>2 DEF TakeRun, StartIndexing, Goto
<1>3. ASSUME NEW p \in Procs, IndexAgain(p) PROVE OneVersion'
  BY <1>3 DEF IndexAgain, StartIndexing, Goto
<1>4. ASSUME NEW p \in Procs, NEW f \in Files, SkipFile(p, f)
      PROVE  OneVersion'
  BY <1>4 DEF SkipFile
<1>5. ASSUME NEW p \in Procs, NEW f \in Files, CutFile(p, f)
      PROVE  OneVersion'
  BY <1>5 DEF CutFile, Goto
<1>6. ASSUME NEW p \in Procs, Encode(p) PROVE OneVersion'
  BY <1>6 DEF Encode, Goto
<1>7. ASSUME NEW p \in Procs, OpenEntry(p) PROVE OneVersion'
  BY <1>7 DEF OpenEntry, Goto
<1>8. ASSUME NEW p \in Procs, CloseEntry(p) PROVE OneVersion'
  BY <1>8 DEF CloseEntry, Goto
<1>9. ASSUME NEW p \in Procs, Upsert(p) PROVE OneVersion'
  BY <1>9 DEF Upsert, OldChunksAreGone, NextFile, Goto, OfFile, NewChunks,
     VectorsFill, Embedding, TextOf
<1>10. ASSUME NEW p \in Procs, FileFails(p) PROVE OneVersion'
  BY <1>10 DEF FileFails, NextFile, Goto
<1>11. ASSUME NEW p \in Procs, Indexed(p) PROVE OneVersion'
  BY <1>11 DEF Indexed, Goto
<1>12. ASSUME NEW p \in Procs, Search(p) PROVE OneVersion'
  BY <1>12 DEF Search
<1>13. ASSUME NEW p \in Procs, NEW f \in Files, NEW t \in Texts, Edit(p, f, t)
      PROVE  OneVersion'
  BY <1>13 DEF Edit
<1>14. ASSUME NEW p \in Procs, DropRepo(p) PROVE OneVersion'
  BY <1>14, DropsOnly DEF DropRepo, RunIsOver, Goto
<1>15. ASSUME NEW p \in Procs, Die(p) PROVE OneVersion'
  BY <1>15 DEF Die, RunIsOver, Goto
<1> QED
  BY <1>1, <1>2, <1>3, <1>4, <1>5, <1>6, <1>7, <1>8,
     <1>9, <1>10, <1>11, <1>12, <1>13, <1>14, <1>15 DEF Next

\* The new chunks carry the vectors that embed_many has put in their places.
LEMMA NextVectors ==
  TypeOK /\ RunsAreTaken /\ VectorsFill /\ VectorsMatchTheirCodes /\
  [Next]_vars => VectorsMatchTheirCodes'
<1> SUFFICES ASSUME TypeOK, RunsAreTaken, VectorsFill, VectorsMatchTheirCodes,
                    [Next]_vars
             PROVE  VectorsMatchTheirCodes'
  OBVIOUS
<1> USE RetrievalAssumption DEF TypeOK, VectorsMatchTheirCodes, workVars,
    fileVars
<1>1. CASE UNCHANGED vars
  BY <1>1 DEF workVars, fileVars, vars
<1>2. ASSUME NEW p \in Procs, NEW r \in Runs, TakeRun(p, r)
      PROVE  VectorsMatchTheirCodes'
  BY <1>2 DEF TakeRun, StartIndexing, Goto
<1>3. ASSUME NEW p \in Procs, IndexAgain(p) PROVE VectorsMatchTheirCodes'
  BY <1>3 DEF IndexAgain, StartIndexing, Goto
<1>4. ASSUME NEW p \in Procs, NEW f \in Files, SkipFile(p, f)
      PROVE  VectorsMatchTheirCodes'
  BY <1>4 DEF SkipFile
<1>5. ASSUME NEW p \in Procs, NEW f \in Files, CutFile(p, f)
      PROVE  VectorsMatchTheirCodes'
  BY <1>5 DEF CutFile, Goto
<1>6. ASSUME NEW p \in Procs, Encode(p) PROVE VectorsMatchTheirCodes'
  BY <1>6 DEF Encode, Goto
<1>7. ASSUME NEW p \in Procs, OpenEntry(p) PROVE VectorsMatchTheirCodes'
  BY <1>7 DEF OpenEntry, Goto
<1>8. ASSUME NEW p \in Procs, CloseEntry(p) PROVE VectorsMatchTheirCodes'
  BY <1>8 DEF CloseEntry, Goto
<1>9. ASSUME NEW p \in Procs, Upsert(p) PROVE VectorsMatchTheirCodes'
  BY <1>9 DEF Upsert, NextFile, Goto, OfFile, NewChunks, VectorsFill,
     Embedding, TextOf
<1>10. ASSUME NEW p \in Procs, FileFails(p) PROVE VectorsMatchTheirCodes'
  BY <1>10 DEF FileFails, NextFile, Goto
<1>11. ASSUME NEW p \in Procs, Indexed(p) PROVE VectorsMatchTheirCodes'
  BY <1>11 DEF Indexed, Goto
<1>12. ASSUME NEW p \in Procs, Search(p) PROVE VectorsMatchTheirCodes'
  BY <1>12 DEF Search
<1>13. ASSUME NEW p \in Procs, NEW f \in Files, NEW t \in Texts, Edit(p, f, t)
      PROVE  VectorsMatchTheirCodes'
  BY <1>13 DEF Edit
<1>14. ASSUME NEW p \in Procs, DropRepo(p) PROVE VectorsMatchTheirCodes'
  BY <1>14, DropsOnly DEF DropRepo, RunIsOver, Goto
<1>15. ASSUME NEW p \in Procs, Die(p) PROVE VectorsMatchTheirCodes'
  BY <1>15 DEF Die, RunIsOver, Goto
<1> QED
  BY <1>1, <1>2, <1>3, <1>4, <1>5, <1>6, <1>7, <1>8,
     <1>9, <1>10, <1>11, <1>12, <1>13, <1>14, <1>15 DEF Next

-----------------------------------------------------------------------------
\* Each step keeps the invariant.
LEMMA NextInv == Inv /\ [Next]_vars => Inv'
  BY NextType, NextTaken, NextCache, NextFill, NextGone, NextBegan,
     NextContext,
     NextOwned, NextFresh, NextOneVersion, NextVectors DEF Inv

\* The invariant holds in every state.
LEMMA Invariance == Spec => []Inv
  BY InitInv, NextInv, PTL DEF Spec

\* The variables of the index keep their types through every failure, death
\* and meeting in the cache.
THEOREM TypeCorrectness == Spec => []TypeOK
<1>1. Inv => TypeOK
  BY DEF Inv
<1> QED
  BY Invariance, <1>1, PTL

\* Every chunk is found under the vector of its own code, whatever is cached,
\* torn or written by other processes (embed_many, index_repo).
THEOREM OwnVectors == Spec => []VectorsMatchTheirCodes
<1>1. Inv => VectorsMatchTheirCodes
  BY DEF Inv
<1> QED
  BY Invariance, <1>1, PTL

\* A file is held in one version only, and out of date only where it was
\* edited or skipped (index_repo, edit_file).
THEOREM FilesHaveOneText == Spec => []OneTextPerFile
<1>1. Inv => OneTextPerFile
  <2> SUFFICES ASSUME Inv PROVE OneTextPerFile
    OBVIOUS
  <2>1. \A p \in Procs : at[p] = "work" => run[p] # None
    BY DEF Inv, RunsAreTaken
  <2> QED
    BY <2>1 DEF Inv, ChunksAreFresh, OneVersion, OneTextPerFile
<1> QED
  BY Invariance, <1>1, PTL

\* A process keeps what it failed to drop from the runs that follow (retrieve,
\* drop_repo).
THEOREM SeparateRuns == Spec => []RunsAreKeptApart
<1>1. Inv => RunsAreKeptApart
  BY DEF Inv, ContextIsOwn, ChunksAreOwned, RunsAreKeptApart
<1> QED
  BY Invariance, <1>1, PTL
=============================================================================
