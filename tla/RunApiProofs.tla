---------------------------- MODULE RunApiProofs ----------------------------
(***************************************************************************)
(* Proofs about RunApi, for any processes and callers, any limit, window   *)
(* and page sizes, and any number of runs with any start times.            *)
(***************************************************************************)
EXTENDS RunApi, SequenceTheorems, FiniteSetTheorems, WellFoundedInduction,
        TLAPS

-----------------------------------------------------------------------------
(* Sets of numbers. *)

\* A set of natural numbers has a least element.
LEMMA LeastElement ==
  ASSUME NEW S \in SUBSET Nat, S # {}
  PROVE  \E x \in S : \A y \in S : x <= y
<1>1. PICK x \in S : \A y \in S : ~(<<y, x>> \in OpToRel(<, Nat))
  BY NatLessThanWellFounded, WFMin
<1>2. \A y \in S : ~(y < x)
  BY <1>1 DEF OpToRel
<1> QED
  BY <1>2

\* A set of positions that holds every position before one it holds is 1..m.
LEMMA PrefixOf ==
  ASSUME NEW n \in Nat, NEW S \in SUBSET (1..n),
         \A k \in S : \A j \in 1..k : j \in S
  PROVE  /\ IsFiniteSet(S) /\ Cardinality(S) \in 0..n
         /\ S = 1..Cardinality(S)
<1> DEFINE T == {k \in Nat : k > 0 /\ k \notin S}
<1>1. n + 1 \in T /\ T \in SUBSET Nat
  OBVIOUS
<1>2. PICK x \in T : \A y \in T : x <= y
  BY <1>1, LeastElement
<1>3. x \in Nat /\ x > 0 /\ x <= n + 1
  BY <1>1, <1>2
<1>4. S = 1..(x - 1)
  <2>1. ASSUME NEW k \in S PROVE k \in 1..(x - 1)
    <3>1. k \in Nat /\ k > 0
      OBVIOUS
    <3>2. ~(x <= k)
      <4>1. x \notin S
        BY <1>2
      <4>2. x <= k => x \in 1..k
        BY <1>3, <3>1
      <4> QED
        BY <4>1, <4>2
    <3> QED
      BY <1>3, <3>1, <3>2
  <2>2. ASSUME NEW k \in 1..(x - 1) PROVE k \in S
    BY <1>2, <1>3, <2>2
  <2> QED
    BY <1>3, <2>1, <2>2
<1>5. IsFiniteSet(1..(x - 1)) /\ Cardinality(1..(x - 1)) = x - 1
  BY <1>3, FS_Interval
<1> QED
  BY <1>3, <1>4, <1>5

\* A subset of k+1..k+m has at most m elements.
LEMMA BoundedCount ==
  ASSUME NEW k \in Nat, NEW m \in Nat, NEW S \in SUBSET (k + 1..k + m)
  PROVE  IsFiniteSet(S) /\ Cardinality(S) <= m
<1>1. IsFiniteSet(k + 1..k + m) /\ Cardinality(k + 1..k + m) = m
  BY FS_Interval
<1> QED
  BY <1>1, FS_Subset

\* What is left of a sequence without its first m elements.
LEMMA RestOf ==
  ASSUME NEW S, NEW ts \in Seq(S), NEW m \in 0..Len(ts)
  PROVE  LET rest == SubSeq(ts, m + 1, Len(ts))
         IN  /\ rest \in Seq(S) /\ Len(rest) = Len(ts) - m
             /\ \A k \in 1..Len(ts) - m : rest[k] = ts[m + k]
<1> DEFINE rest == SubSeq(ts, m + 1, Len(ts))
<1>1. Len(ts) \in Nat /\ m \in Nat /\ m <= Len(ts)
  BY LenProperties
<1>2. \A k \in m + 1..Len(ts) : ts[k] \in S
  BY <1>1, ElementOfSeq
<1>3. /\ rest \in Seq(S)
      /\ Len(rest) =
           IF m + 1 <= Len(ts) THEN Len(ts) - (m + 1) + 1 ELSE 0
      /\ \A k \in 1..Len(ts) - (m + 1) + 1 : rest[k] = ts[m + 1 + k - 1]
  BY <1>1, <1>2, SubSeqProperties
<1> HIDE DEF rest
<1>4. Len(rest) = Len(ts) - m
  BY <1>1, <1>3
<1>5. ASSUME NEW k \in 1..Len(ts) - m PROVE rest[k] = ts[m + k]
  <2>1. k \in 1..Len(ts) - (m + 1) + 1 /\ m + 1 + k - 1 = m + k
    BY <1>1
  <2> QED
    BY <1>3, <2>1
<1> QED
  BY <1>3, <1>4, <1>5 DEF rest


-----------------------------------------------------------------------------
(* The rate limiter.  In what follows ts are the times of one caller's       *)
(* starts, in the order in which one process let them in.                    *)

Ascending(ts) == \A j, k \in DOMAIN ts : j <= k => ts[j] <= ts[k]

\* A start is a window later than the one Limit starts before it.
Spaced(ts) == \A j, k \in DOMAIN ts : k = j + Limit => ts[j] + Window <= ts[k]

\* Hits are the last of ts, and those before them are out of the window at t.
LastOf(hits, ts, t) ==
  /\ Len(hits) <= Len(ts)
  /\ \A k \in DOMAIN hits : hits[k] = ts[Len(ts) - Len(hits) + k]
  /\ \A k \in 1..Len(ts) - Len(hits) : ts[k] + Window <= t

\* Limit starts in a row lie in the window that ends with t.
FullAt(ts, t) ==
  \E a \in Nat :
    /\ a + Limit <= Len(ts)
    /\ \A k \in a + 1..a + Limit : ts[k] <= t /\ t < ts[k] + Window

LimiterInv ==
  \A s \in Servers, c \in Clients :
    /\ Ascending(letIn[s][c]) /\ Spaced(letIn[s][c])
    /\ LastOf(bucket[s][c], letIn[s][c], now)
    /\ refused[s][c] # None => FullAt(letIn[s][c], refused[s][c])

\* What the filter leaves of an ascending bucket are its last times.
LEMMA RecentIsTheRest ==
  ASSUME NEW t \in Nat, NEW ts \in Seq(0..t), Ascending(ts)
  PROVE  /\ Recent(ts, t) \in Seq(0..t) /\ Len(Recent(ts, t)) <= Len(ts)
         /\ \A k \in 1..Len(Recent(ts, t)) :
              LET i == Len(ts) - Len(Recent(ts, t)) + k
              IN  Recent(ts, t)[k] = ts[i] /\ t < ts[i] + Window
         /\ \A k \in 1..Len(ts) - Len(Recent(ts, t)) : ts[k] + Window <= t
<1> DEFINE old == {k \in DOMAIN ts : ts[k] + Window <= t}
           m == Cardinality(old)
           kept == SubSeq(ts, m + 1, Len(ts))
<1>1. Len(ts) \in Nat /\ DOMAIN ts = 1..Len(ts) /\ Window \in Nat
      /\ \A k \in DOMAIN ts : ts[k] \in 0..t /\ ts[k] \in Nat
  BY ApiAssumption, LenProperties, ElementOfSeq
<1>2. old \in SUBSET (1..Len(ts))
  BY <1>1
<1>3. ASSUME NEW k \in old, NEW j \in 1..k PROVE j \in old
  <2>1. j \in DOMAIN ts /\ k \in DOMAIN ts /\ j <= k
    BY <1>1, <1>2
  <2>2. ts[j] <= ts[k] /\ ts[j] \in Nat /\ ts[k] \in Nat
    BY <1>1, <2>1 DEF Ascending
  <2> QED
    BY <1>1, <2>1, <2>2
<1> HIDE DEF old
<1>4. m \in 0..Len(ts) /\ old = 1..m
  BY <1>1, <1>2, <1>3, PrefixOf
<1> HIDE DEF m
<1>5. \A k \in m + 1..Len(ts) : ts[k] \in 0..t
  BY <1>1, <1>4
<1>6. /\ kept \in Seq(0..t) /\ Len(kept) = Len(ts) - m
      /\ \A k \in 1..Len(ts) - m : kept[k] = ts[m + k]
  <2> HIDE DEF kept
  <2>1. kept = SubSeq(ts, m + 1, Len(ts))
    BY DEF kept
  <2> QED
    BY <1>1, <1>4, <2>1, RestOf
<1>7. kept = Recent(ts, t)
  BY DEF Recent, m, old
<1> HIDE DEF kept
<1>8. \A k \in 1..m : ts[k] + Window <= t
  BY <1>4 DEF old
<1>9. \A k \in m + 1..Len(ts) : t < ts[k] + Window
  <2> SUFFICES ASSUME NEW k \in m + 1..Len(ts) PROVE t < ts[k] + Window
    OBVIOUS
  <2>1. k \in DOMAIN ts /\ k \notin old
    BY <1>1, <1>4
  <2>2. ts[k] \in Nat /\ ~(ts[k] + Window <= t)
    BY <1>1, <2>1 DEF old
  <2> QED
    BY <1>1, <2>2
<1>10. Len(ts) - Len(kept) = m /\ Len(kept) <= Len(ts)
  BY <1>1, <1>4, <1>6
<1>11. ASSUME NEW k \in 1..Len(kept)
       PROVE  kept[k] = ts[m + k] /\ t < ts[m + k] + Window
  BY <1>1, <1>4, <1>6, <1>9
<1> QED
  BY <1>6, <1>7, <1>8, <1>10, <1>11

\* Starts that are spaced out by Limit are never more than Limit in a window.
LEMMA SpacedStartsAreFew ==
  ASSUME NEW t \in Nat, NEW ts \in Seq(Nat), Ascending(ts), Spaced(ts)
  PROVE  Within(ts, t) <= Limit
<1> DEFINE K == {k \in DOMAIN ts : ts[k] <= t /\ ts[k] + Window > t}
<1>1. /\ Len(ts) \in Nat /\ DOMAIN ts = 1..Len(ts)
      /\ \A k \in DOMAIN ts : ts[k] \in Nat
      /\ Window \in Nat /\ Limit \in Nat
  BY ApiAssumption, LenProperties, ElementOfSeq
<1>2. K \in SUBSET Nat
  BY <1>1
<1>3. CASE K = {}
  BY <1>1, <1>3, FS_EmptySet DEF Within
<1>4. CASE K # {}
  <2>1. PICK x \in K : \A y \in K : x <= y
    BY <1>2, <1>4, LeastElement
  <2>2. x \in 1..Len(ts) /\ ts[x] \in Nat /\ t < ts[x] + Window
    BY <1>1, <2>1
  <2>3. ASSUME NEW y \in K PROVE y \in (x - 1) + 1..(x - 1) + Limit
    <3>1. y \in 1..Len(ts) /\ x <= y /\ ts[y] \in Nat /\ ts[y] <= t
      BY <1>1, <2>1
    <3>2. ~(x + Limit <= y)
      <4> SUFFICES ASSUME x + Limit <= y PROVE FALSE
        OBVIOUS
      <4>1. x + Limit \in DOMAIN ts
        BY <1>1, <2>2, <3>1
      <4>2. ts[x] + Window <= ts[x + Limit]
        BY <1>1, <2>2, <4>1 DEF Spaced
      <4>3. ts[x + Limit] <= ts[y] /\ ts[x + Limit] \in Nat
        BY <1>1, <3>1, <4>1 DEF Ascending
      <4> QED
        BY <1>1, <2>2, <3>1, <4>2, <4>3
    <3> QED
      BY <1>1, <2>2, <3>1, <3>2
  <2>4. x - 1 \in Nat /\ K \in SUBSET ((x - 1) + 1..(x - 1) + Limit)
    BY <2>2, <2>3
  <2>5. Cardinality(K) <= Limit
    BY <1>1, <2>4, BoundedCount
  <2> QED
    BY <2>5 DEF Within
<1> QED
  BY <1>3, <1>4

\* A full window is one with at least Limit starts.
LEMMA FullWindow ==
  ASSUME NEW t \in Nat, NEW ts \in Seq(Nat), FullAt(ts, t)
  PROVE  Within(ts, t) >= Limit
<1> DEFINE K == {k \in DOMAIN ts : ts[k] <= t /\ ts[k] + Window > t}
<1>1. /\ Len(ts) \in Nat /\ DOMAIN ts = 1..Len(ts)
      /\ \A k \in DOMAIN ts : ts[k] \in Nat
      /\ Window \in Nat /\ Limit \in Nat
  BY ApiAssumption, LenProperties, ElementOfSeq
<1>2. PICK a \in Nat :
        /\ a + Limit <= Len(ts)
        /\ \A k \in a + 1..a + Limit : ts[k] <= t /\ t < ts[k] + Window
  BY DEF FullAt
<1>3. a + 1..a + Limit \in SUBSET K
  BY <1>1, <1>2
<1>4. IsFiniteSet(K) /\ Cardinality(K) \in Nat
  <2>1. K \in SUBSET (1..Len(ts)) /\ IsFiniteSet(1..Len(ts))
    BY <1>1, FS_Interval
  <2> QED
    BY <2>1, FS_Subset, FS_CardinalityType
<1>5. Cardinality(a + 1..a + Limit) = Limit
  BY <1>1, FS_Interval
<1> HIDE DEF K
<1>6. Limit <= Cardinality(K)
  BY <1>3, <1>4, <1>5, FS_Subset
<1> QED
  BY <1>1, <1>4, <1>6 DEF Within, K


\* The hits are the last starts of all, and each is still in the window.
LEMMA HitsAreTheLast ==
  ASSUME NEW t \in Nat, NEW ts \in Seq(0..t), NEW hits \in Seq(0..t),
         Ascending(ts), LastOf(hits, ts, t)
  PROVE  LET left == Recent(hits, t)
         IN  /\ left \in Seq(0..t) /\ LastOf(left, ts, t)
             /\ \A k \in DOMAIN left : t < left[k] + Window
<1> DEFINE left == Recent(hits, t)
           d == Len(ts) - Len(hits)
<1>1. /\ Len(ts) \in Nat /\ DOMAIN ts = 1..Len(ts)
      /\ Len(hits) \in Nat /\ DOMAIN hits = 1..Len(hits)
      /\ Len(hits) <= Len(ts)
  BY LenProperties DEF LastOf
<1>2. d \in Nat /\ d + Len(hits) = Len(ts)
  BY <1>1
<1>3. \A k \in 1..Len(hits) : hits[k] = ts[d + k]
  BY <1>1 DEF LastOf
<1>4. \A k \in 1..d : ts[k] + Window <= t
  BY DEF LastOf
<1> HIDE DEF d
<1>5. Ascending(hits)
  <2> SUFFICES ASSUME NEW j \in 1..Len(hits), NEW k \in 1..Len(hits), j <= k
               PROVE  hits[j] <= hits[k]
    BY <1>1 DEF Ascending
  <2>1. d + j \in 1..Len(ts) /\ d + k \in 1..Len(ts) /\ d + j <= d + k
    BY <1>1, <1>2
  <2>2. ts[d + j] <= ts[d + k]
    BY <1>1, <2>1 DEF Ascending
  <2> QED
    BY <1>3, <2>2
<1>6. /\ left \in Seq(0..t) /\ Len(left) <= Len(hits)
      /\ \A k \in 1..Len(left) :
           /\ left[k] = hits[Len(hits) - Len(left) + k]
           /\ t < hits[Len(hits) - Len(left) + k] + Window
      /\ \A k \in 1..Len(hits) - Len(left) : hits[k] + Window <= t
  BY <1>5, RecentIsTheRest
<1>7. Len(left) \in Nat /\ DOMAIN left = 1..Len(left)
  BY <1>6, LenProperties
<1> HIDE DEF left
<1>8. ASSUME NEW k \in 1..Len(left)
      PROVE  left[k] = ts[Len(ts) - Len(left) + k] /\ t < left[k] + Window
  <2>1. Len(hits) - Len(left) + k \in 1..Len(hits)
    BY <1>1, <1>6, <1>7
  <2>2. d + (Len(hits) - Len(left) + k) = Len(ts) - Len(left) + k
    BY <1>1, <1>2, <1>7
  <2>3. hits[Len(hits) - Len(left) + k] = ts[Len(ts) - Len(left) + k]
    BY <1>3, <2>1, <2>2
  <2> QED
    BY <1>6, <2>3
<1>9. ASSUME NEW k \in 1..Len(ts) - Len(left) PROVE ts[k] + Window <= t
  <2>1. CASE k <= d
    <3>1. k \in 1..d
      BY <1>1, <1>2, <1>7, <2>1
    <3> QED
      BY <1>4, <3>1
  <2>2. CASE ~(k <= d)
    <3>1. k - d \in 1..Len(hits) - Len(left) /\ k - d \in 1..Len(hits)
          /\ d + (k - d) = k
      BY <1>1, <1>2, <1>6, <1>7, <2>2
    <3>2. hits[k - d] = ts[k] /\ hits[k - d] + Window <= t
      BY <1>3, <1>6, <3>1
    <3> QED
      BY <3>2
  <2> QED
    BY <2>1, <2>2
<1>10. LastOf(left, ts, t)
  <2>1. Len(left) <= Len(ts)
    BY <1>1, <1>6, <1>7
  <2> QED
    BY <1>7, <1>8, <1>9, <2>1 DEF LastOf
<1> QED
  BY <1>6, <1>7, <1>8, <1>10 DEF left

\* A start that is let in keeps the starts spaced out, and the bucket the last
\* of them.
LEMMA AnotherStart ==
  ASSUME NEW t \in Nat, NEW ts \in Seq(0..t), NEW hits \in Seq(0..t),
         Ascending(ts), Spaced(ts), LastOf(hits, ts, t), Len(hits) < Limit
  PROVE  /\ Ascending(Append(ts, t)) /\ Spaced(Append(ts, t))
         /\ LastOf(Append(hits, t), Append(ts, t), t)
<1> DEFINE ts2 == Append(ts, t)
           hits2 == Append(hits, t)
           n == Len(ts)
           h == Len(hits)
<1>1. /\ n \in Nat /\ DOMAIN ts = 1..n /\ h \in Nat /\ DOMAIN hits = 1..h
      /\ h <= n /\ Limit \in Nat /\ Window \in Nat
      /\ \A k \in 1..n : ts[k] \in 0..t
  BY ApiAssumption, LenProperties, ElementOfSeq DEF LastOf
<1>2. /\ Len(ts2) = n + 1 /\ DOMAIN ts2 = 1..n + 1 /\ ts2[n + 1] = t
      /\ \A k \in 1..n : ts2[k] = ts[k]
  BY AppendProperties, LenProperties
<1>3. /\ Len(hits2) = h + 1 /\ DOMAIN hits2 = 1..h + 1 /\ hits2[h + 1] = t
      /\ \A k \in 1..h : hits2[k] = hits[k]
  BY AppendProperties, LenProperties
<1>4. /\ \A k \in 1..h : hits[k] = ts[n - h + k]
      /\ \A k \in 1..n - h : ts[k] + Window <= t
  BY <1>1 DEF LastOf
<1> HIDE DEF ts2, hits2, n, h
<1>5. Ascending(ts2)
  <2> SUFFICES ASSUME NEW j \in 1..n + 1, NEW k \in 1..n + 1, j <= k
               PROVE  ts2[j] <= ts2[k]
    BY <1>2 DEF Ascending
  <2>1. CASE k = n + 1
    <3>1. CASE j = n + 1
      BY <1>2, <2>1, <3>1
    <3>2. CASE j # n + 1
      <4>1. j \in 1..n
        BY <1>1, <3>2
      <4> QED
        BY <1>1, <1>2, <2>1, <4>1
    <3> QED
      BY <3>1, <3>2
  <2>2. CASE k # n + 1
    <3>1. j \in 1..n /\ k \in 1..n
      BY <1>1, <2>2
    <3> QED
      BY <1>1, <1>2, <3>1 DEF Ascending
  <2> QED
    BY <2>1, <2>2
<1>6. Spaced(ts2)
  <2> SUFFICES ASSUME NEW j \in 1..n + 1, NEW k \in 1..n + 1, k = j + Limit
               PROVE  ts2[j] + Window <= ts2[k]
    BY <1>2 DEF Spaced
  <2>1. CASE k = n + 1
    <3>1. j \in 1..n - h /\ j \in 1..n
      BY <1>1, <2>1, h < Limit DEF h
    <3> QED
      BY <1>2, <1>4, <2>1, <3>1
  <2>2. CASE k # n + 1
    <3>1. j \in 1..n /\ k \in 1..n
      BY <1>1, <2>2
    <3> QED
      BY <1>1, <1>2, <3>1 DEF Spaced
  <2> QED
    BY <2>1, <2>2
<1>7. LastOf(hits2, ts2, t)
  <2>1. Len(hits2) <= Len(ts2) /\ Len(ts2) - Len(hits2) = n - h
    BY <1>1, <1>2, <1>3
  <2>2. ASSUME NEW k \in 1..h + 1 PROVE hits2[k] = ts2[n - h + k]
    <3>1. CASE k = h + 1
      <4>1. n - h + k = n + 1
        BY <1>1, <3>1
      <4> QED
        BY <1>2, <1>3, <3>1, <4>1
    <3>2. CASE k # h + 1
      <4>1. k \in 1..h /\ n - h + k \in 1..n
        BY <1>1, <3>2
      <4> QED
        BY <1>2, <1>3, <1>4, <4>1
    <3> QED
      BY <3>1, <3>2
  <2>3. ASSUME NEW k \in 1..n - h PROVE ts2[k] + Window <= t
    <3>1. k \in 1..n
      BY <1>1
    <3> QED
      BY <1>2, <1>4, <3>1
  <2> QED
    BY <1>3, <2>1, <2>2, <2>3 DEF LastOf
<1> QED
  BY <1>5, <1>6, <1>7 DEF ts2, hits2

\* A caller who is turned away has a full window behind him.
LEMMA TurnedAway ==
  ASSUME NEW t \in Nat, NEW ts \in Seq(0..t), NEW hits \in Seq(0..t),
         LastOf(hits, ts, t), Len(hits) >= Limit,
         \A k \in DOMAIN hits : t < hits[k] + Window
  PROVE  FullAt(ts, t)
<1> DEFINE a == Len(ts) - Limit
<1>1. /\ Len(ts) \in Nat /\ Len(hits) \in Nat /\ DOMAIN hits = 1..Len(hits)
      /\ Len(hits) <= Len(ts) /\ Limit \in Nat
      /\ \A k \in 1..Len(hits) : hits[k] = ts[Len(ts) - Len(hits) + k]
      /\ \A k \in 1..Len(hits) : hits[k] \in 0..t
  <2>1. Len(ts) \in Nat /\ Len(hits) \in Nat /\ DOMAIN hits = 1..Len(hits)
        /\ Limit \in Nat
    BY ApiAssumption, LenProperties
  <2>2. \A k \in 1..Len(hits) : hits[k] \in 0..t
    BY ElementOfSeq
  <2> QED
    BY <2>1, <2>2 DEF LastOf
<1>2. a \in Nat /\ a + Limit = Len(ts)
  BY <1>1
<1> HIDE DEF a
<1>3. ASSUME NEW k \in a + 1..a + Limit PROVE ts[k] <= t /\ t < ts[k] + Window
  <2> DEFINE i == k - (Len(ts) - Len(hits))
  <2>1. i \in 1..Len(hits) /\ Len(ts) - Len(hits) + i = k
    BY <1>1, <1>2
  <2> HIDE DEF i
  <2>2. hits[i] = ts[k] /\ hits[i] \in 0..t /\ t < hits[i] + Window
    BY <1>1, <2>1
  <2> QED
    BY <2>2
<1>4. a + Limit <= Len(ts)
  BY <1>1, <1>2
<1> QED
  BY <1>2, <1>3, <1>4 DEF FullAt

\* A window that was full stays so when a start is added.
LEMMA FullStays ==
  ASSUME NEW t \in Nat, NEW ts \in Seq(0..t), NEW r \in Nat, FullAt(ts, r)
  PROVE  FullAt(Append(ts, t), r)
<1>1. PICK a \in Nat :
        /\ a + Limit <= Len(ts)
        /\ \A k \in a + 1..a + Limit : ts[k] <= r /\ r < ts[k] + Window
  BY DEF FullAt
<1>2. Len(ts) \in Nat /\ Limit \in Nat
  BY ApiAssumption, LenProperties
<1>3. /\ Len(Append(ts, t)) = Len(ts) + 1
      /\ \A k \in 1..Len(ts) : Append(ts, t)[k] = ts[k]
  BY AppendProperties
<1>4. ASSUME NEW k \in a + 1..a + Limit PROVE Append(ts, t)[k] = ts[k]
  <2>1. k \in 1..Len(ts)
    BY <1>1, <1>2
  <2> QED
    BY <1>3, <2>1
<1>5. a + Limit <= Len(Append(ts, t))
  BY <1>1, <1>2, <1>3
<1>6. \A k \in a + 1..a + Limit :
        Append(ts, t)[k] <= r /\ r < Append(ts, t)[k] + Window
  BY <1>1, <1>4
<1> QED
  BY <1>5, <1>6 DEF FullAt

\* Nothing comes back into the window as time goes on.
LEMMA LaterStill ==
  ASSUME NEW t \in Nat, NEW ts \in Seq(0..t), NEW hits \in Seq(0..t),
         LastOf(hits, ts, t)
  PROVE  LastOf(hits, ts, t + 1)
<1>1. /\ Len(ts) \in Nat /\ Len(hits) \in Nat /\ Window \in Nat
      /\ \A k \in 1..Len(ts) : ts[k] \in Nat
  BY ApiAssumption, LenProperties, ElementOfSeq
<1>2. ASSUME NEW k \in 1..Len(ts) - Len(hits) PROVE ts[k] + Window <= t + 1
  <2>1. ts[k] + Window <= t /\ k \in 1..Len(ts)
    BY <1>1 DEF LastOf
  <2> QED
    BY <1>1, <2>1
<1> QED
  BY <1>2 DEF LastOf


LimiterTypes ==
  /\ now \in 0..MaxNow
  /\ bucket \in [Servers -> [Clients -> Seq(0..now)]]
  /\ letIn \in [Servers -> [Clients -> Seq(0..now)]]
  /\ refused \in [Servers -> [Clients -> (0..now) \union {None}]]

\* The limiter's part of the state keeps its type and its invariant.
LEMMA NextLimiter ==
  ASSUME LimiterTypes, LimiterInv, [Next]_vars
  PROVE  LimiterTypes' /\ LimiterInv'
<1>1. now \in Nat /\ now <= MaxNow /\ MaxNow \in Nat
      /\ Window \in Nat /\ Limit \in Nat
  BY ApiAssumption DEF LimiterTypes
<1>2. CASE Tick
  <2>1. now' = now + 1 /\ now' \in 0..MaxNow /\ UNCHANGED limitVars
    BY <1>1, <1>2 DEF Tick
  <2>2. 0..now \subseteq 0..now'
    BY <1>1, <2>1
  <2>3. ASSUME NEW s \in Servers, NEW c \in Clients
        PROVE  /\ bucket[s][c] \in Seq(0..now) /\ letIn[s][c] \in Seq(0..now)
               /\ bucket[s][c] \in Seq(0..now') /\ letIn[s][c] \in Seq(0..now')
    <3>1. bucket[s][c] \in Seq(0..now) /\ letIn[s][c] \in Seq(0..now)
      BY DEF LimiterTypes
    <3> QED
      BY <2>2, <3>1, SeqMonotonic
  <2>4. LimiterTypes'
    <3>1. bucket \in [Servers -> [Clients -> Seq(0..now')]]
      BY <2>3 DEF LimiterTypes
    <3>2. letIn \in [Servers -> [Clients -> Seq(0..now')]]
      BY <2>3 DEF LimiterTypes
    <3>3. refused \in [Servers -> [Clients -> (0..now') \union {None}]]
      BY <2>2 DEF LimiterTypes
    <3> QED
      BY <2>1, <3>1, <3>2, <3>3 DEF LimiterTypes, limitVars
  <2>5. ASSUME NEW s \in Servers, NEW c \in Clients
        PROVE  LastOf(bucket[s][c], letIn[s][c], now + 1)
    BY <1>1, <2>3, LaterStill DEF LimiterInv
  <2>6. LimiterInv'
    BY <2>1, <2>5 DEF LimiterInv, limitVars
  <2> QED
    BY <2>4, <2>6
<1>3. ASSUME NEW z \in Servers, Restart(z)
      PROVE  LimiterTypes' /\ LimiterInv'
  <2>1. \A S : <<>> \in Seq(S)
    BY EmptySeq
  <2>2. now' = now /\ bucket' = [bucket EXCEPT ![z] = [c \in Clients |-> <<>>]]
        /\ letIn' = [letIn EXCEPT ![z] = [c \in Clients |-> <<>>]]
        /\ refused' = [refused EXCEPT ![z] = [c \in Clients |-> None]]
    BY <1>3 DEF Restart
  <2>3. LimiterTypes'
    BY <2>1, <2>2 DEF LimiterTypes
  <2>4. Ascending(<<>>) /\ Spaced(<<>>)
    BY DEF Ascending, Spaced
  <2>5. LastOf(<<>>, <<>>, now)
    BY DEF LastOf
  <2>6. ASSUME NEW s \in Servers, NEW c \in Clients
        PROVE  /\ Ascending(letIn'[s][c]) /\ Spaced(letIn'[s][c])
               /\ LastOf(bucket'[s][c], letIn'[s][c], now')
               /\ refused'[s][c] # None => FullAt(letIn'[s][c], refused'[s][c])
    <3>1. CASE s = z
      <4>1. letIn'[s][c] = <<>> /\ bucket'[s][c] = <<>> /\ refused'[s][c] = None
        BY <2>2, <3>1 DEF LimiterTypes
      <4> QED
        BY <2>2, <2>4, <2>5, <4>1
    <3>2. CASE s # z
      <4>1. letIn'[s][c] = letIn[s][c] /\ bucket'[s][c] = bucket[s][c]
            /\ refused'[s][c] = refused[s][c]
        BY <2>2, <3>2 DEF LimiterTypes
      <4> QED
        BY <2>2, <4>1 DEF LimiterInv
    <3> QED
      BY <3>1, <3>2
  <2> QED
    BY <2>3, <2>6 DEF LimiterInv
<1>4. ASSUME NEW z \in Servers, NEW d \in Clients
      PROVE  /\ bucket[z][d] \in Seq(0..now) /\ letIn[z][d] \in Seq(0..now)
             /\ Ascending(letIn[z][d]) /\ Spaced(letIn[z][d])
             /\ Recent(bucket[z][d], now) \in Seq(0..now)
             /\ Len(Recent(bucket[z][d], now)) \in Nat
             /\ LastOf(Recent(bucket[z][d], now), letIn[z][d], now)
             /\ \A k \in DOMAIN Recent(bucket[z][d], now) :
                  now < Recent(bucket[z][d], now)[k] + Window
  <2>1. /\ bucket[z][d] \in Seq(0..now) /\ letIn[z][d] \in Seq(0..now)
        /\ Ascending(letIn[z][d]) /\ Spaced(letIn[z][d])
        /\ LastOf(bucket[z][d], letIn[z][d], now)
    BY DEF LimiterTypes, LimiterInv
  <2>2. /\ Recent(bucket[z][d], now) \in Seq(0..now)
        /\ LastOf(Recent(bucket[z][d], now), letIn[z][d], now)
        /\ \A k \in DOMAIN Recent(bucket[z][d], now) :
             now < Recent(bucket[z][d], now)[k] + Window
    BY <1>1, <2>1, HitsAreTheLast
  <2> QED
    BY <2>1, <2>2, LenProperties
<1>5. ASSUME NEW z \in Servers, NEW d \in Clients, Accept(z, d)
      PROVE  LimiterTypes' /\ LimiterInv'
  <2> DEFINE hits == Recent(bucket[z][d], now)
             ts == letIn[z][d]
  <2>1. /\ Len(hits) < Limit /\ now' = now /\ refused' = refused
        /\ bucket' = [bucket EXCEPT ![z][d] = Append(hits, now)]
        /\ letIn' = [letIn EXCEPT ![z][d] = Append(ts, now)]
    BY <1>1, <1>4, <1>5 DEF Accept, Full
  <2>2. /\ ts \in Seq(0..now) /\ hits \in Seq(0..now) /\ Ascending(ts)
        /\ Spaced(ts) /\ LastOf(hits, ts, now)
    BY <1>4
  <2> HIDE DEF hits
  <2>3. /\ Ascending(Append(ts, now)) /\ Spaced(Append(ts, now))
        /\ LastOf(Append(hits, now), Append(ts, now), now)
    BY <1>1, <2>1, <2>2, AnotherStart
  <2>4. Append(ts, now) \in Seq(0..now) /\ Append(hits, now) \in Seq(0..now)
    <3>1. now \in 0..now
      BY <1>1
    <3> QED
      BY <2>2, <3>1, AppendProperties
  <2>5. ASSUME NEW r \in Nat, FullAt(ts, r) PROVE FullAt(Append(ts, now), r)
    BY <1>1, <2>2, <2>5, FullStays
  <2>6. LimiterTypes'
    BY <2>1, <2>4 DEF LimiterTypes
  <2>7. ASSUME NEW s \in Servers, NEW c \in Clients
        PROVE  /\ Ascending(letIn'[s][c]) /\ Spaced(letIn'[s][c])
               /\ LastOf(bucket'[s][c], letIn'[s][c], now')
               /\ refused'[s][c] # None => FullAt(letIn'[s][c], refused'[s][c])
    <3>1. refused[s][c] # None =>
            refused[s][c] \in Nat /\ FullAt(letIn[s][c], refused[s][c])
      BY <1>1 DEF LimiterTypes, LimiterInv
    <3>2. CASE s = z /\ c = d
      <4>1. /\ letIn'[s][c] = Append(ts, now) /\ letIn[s][c] = ts
            /\ bucket'[s][c] = Append(hits, now)
        BY <2>1, <3>2 DEF LimiterTypes
      <4> QED
        BY <2>1, <2>3, <2>5, <3>1, <4>1
    <3>3. CASE ~(s = z /\ c = d)
      <4>1. letIn'[s][c] = letIn[s][c] /\ bucket'[s][c] = bucket[s][c]
        BY <2>1, <3>3 DEF LimiterTypes
      <4> QED
        BY <2>1, <4>1 DEF LimiterInv
    <3> QED
      BY <3>2, <3>3
  <2> QED
    BY <2>6, <2>7 DEF LimiterInv
<1>6. ASSUME NEW z \in Servers, NEW d \in Clients, Refuse(z, d)
      PROVE  LimiterTypes' /\ LimiterInv'
  <2> DEFINE hits == Recent(bucket[z][d], now)
             ts == letIn[z][d]
  <2>1. /\ Len(hits) >= Limit /\ now' = now /\ bucket' = bucket
        /\ letIn' = letIn /\ refused' = [refused EXCEPT ![z][d] = now]
    BY <1>6 DEF Refuse, Full
  <2>2. /\ ts \in Seq(0..now) /\ hits \in Seq(0..now)
        /\ LastOf(hits, ts, now)
        /\ \A k \in DOMAIN hits : now < hits[k] + Window
    BY <1>4
  <2> HIDE DEF hits
  <2>3. FullAt(ts, now)
    BY <1>1, <2>1, <2>2, TurnedAway
  <2>4. LimiterTypes'
    <3>1. now \in 0..now
      BY <1>1
    <3> QED
      BY <2>1, <3>1 DEF LimiterTypes
  <2>5. ASSUME NEW s \in Servers, NEW c \in Clients, refused'[s][c] # None
        PROVE  FullAt(letIn'[s][c], refused'[s][c])
    <3>1. CASE s = z /\ c = d
      <4>1. refused'[s][c] = now /\ letIn'[s][c] = ts
        BY <2>1, <3>1 DEF LimiterTypes
      <4> QED
        BY <2>3, <4>1
    <3>2. CASE ~(s = z /\ c = d)
      <4>1. refused'[s][c] = refused[s][c] /\ letIn'[s][c] = letIn[s][c]
        BY <2>1, <3>2 DEF LimiterTypes
      <4> QED
        BY <2>5, <4>1 DEF LimiterInv
    <3> QED
      BY <3>1, <3>2
  <2> QED
    BY <2>1, <2>4, <2>5 DEF LimiterInv
<1>7. CASE UNCHANGED <<now, limitVars>>
  <2>1. UNCHANGED <<now, bucket, letIn, refused>>
    BY <1>7 DEF limitVars
  <2> QED
    BY <2>1 DEF LimiterTypes, LimiterInv
<1>8. ASSUME NEW i \in Ids, InsertRow(i) \/ EndRow(i)
      PROVE  UNCHANGED <<now, limitVars>>
  BY <1>8 DEF InsertRow, EndRow
<1>9. CASE ResultChanges
  BY <1>7, <1>9 DEF ResultChanges
<1>10. ASSUME NEW f \in Filters, NEW size \in PageSizes, StartWalk(f, size)
       PROVE  UNCHANGED <<now, limitVars>>
  BY <1>10 DEF StartWalk
<1>11. CASE FetchPage \/ AskRow \/ AskRowFails \/ AskCelery \/ UNCHANGED vars
  BY <1>7, <1>11 DEF FetchPage, AskRow, AskRowFails, AskCelery, vars
<1> QED
  BY <1>2, <1>3, <1>5, <1>6, <1>7, <1>8, <1>9, <1>10, <1>11 DEF Next


-----------------------------------------------------------------------------
(* The pages of the list.                                                    *)

\* The list has an order: newest first, then the greatest id first.
LEMMA TheListIsOrdered ==
  ASSUME row \in [Ids -> Rows \union {None}],
         NEW i \in Ids, NEW j \in Ids, NEW k \in Ids,
         row[i] # None, row[j] # None, row[k] # None
  PROVE  /\ ~Before(i, i) /\ (Before(i, j) => ~Before(j, i))
         /\ Before(i, j) /\ Before(j, k) => Before(i, k)
         /\ i = j \/ Before(i, j) \/ Before(j, i)
<1>1. /\ i \in Nat /\ j \in Nat /\ k \in Nat
  BY ApiAssumption DEF Ids
<1>2. /\ row[i].started \in Nat /\ row[j].started \in Nat
      /\ row[k].started \in Nat
  BY ApiAssumption DEF Rows
<1> QED
  BY <1>1, <1>2 DEF Before

\* What the cursor leaves are the rows that the list has after it.
LEMMA AfterIsBefore ==
  ASSUME row \in [Ids -> Rows \union {None}], NEW i \in Ids, NEW c \in Ids,
         row[i] # None, row[c] # None, c # None
  PROVE  After(i, c) <=> Before(c, i)
<1>1. i \in Nat /\ c \in Nat
  BY ApiAssumption DEF Ids
<1>2. row[i].started \in Nat /\ row[c].started \in Nat
  BY ApiAssumption DEF Rows
<1> QED
  BY <1>1, <1>2 DEF After, Before

\* Matching rows are ranked 1, 2, ... in the order of the list, without gaps.
LEMMA Ranks ==
  ASSUME row \in [Ids -> Rows \union {None}]
  PROVE  /\ IsFiniteSet(Matching) /\ Cardinality(Matching) \in Nat
         /\ \A i \in Matching : Rank(i) \in 1..Cardinality(Matching)
         /\ \A i, j \in Matching : Before(i, j) => Rank(i) < Rank(j)
         /\ \A k \in 1..Cardinality(Matching) :
              \E i \in Matching : Rank(i) = k
<1> DEFINE n == Cardinality(Matching)
           ahead(i) == {j \in Matching : Before(j, i)}
<1>1. Matching \in SUBSET Ids /\ \A i \in Matching : row[i] # None
  BY DEF Matching, Passing
<1>2. IsFiniteSet(Ids)
  BY ApiAssumption, FS_Interval DEF Ids
<1>3. IsFiniteSet(Matching) /\ n \in Nat /\ n = Cardinality(Matching)
  BY <1>1, <1>2, FS_Subset, FS_CardinalityType
<1>4. ASSUME NEW i \in Ids
      PROVE  /\ IsFiniteSet(ahead(i)) /\ Cardinality(ahead(i)) \in Nat
             /\ Rank(i) = Cardinality(ahead(i)) + 1
  <2>1. ahead(i) \in SUBSET Matching
    OBVIOUS
  <2> QED
    BY <1>3, <2>1, FS_Subset, FS_CardinalityType DEF Rank
<1> HIDE DEF n
<1>5. ASSUME NEW i \in Matching, NEW T \in SUBSET Matching,
             ahead(i) \subseteq T, i \in T
      PROVE  Rank(i) <= Cardinality(T) /\ Cardinality(T) \in Nat
             /\ Rank(i) \in Nat
  <2> DEFINE A == ahead(i)
  <2>1. i \notin A /\ A \in SUBSET T
    BY <1>1, <1>5, TheListIsOrdered
  <2>2. i \in Ids /\ IsFiniteSet(T) /\ Cardinality(T) \in Nat
    BY <1>1, <1>3, FS_Subset, FS_CardinalityType
  <2>3. IsFiniteSet(A) /\ Cardinality(A) \in Nat /\ Rank(i) = Cardinality(A) + 1
    BY <1>4, <2>2
  <2> HIDE DEF A
  <2>4. Cardinality(A \union {i}) = Rank(i)
    BY <2>1, <2>3, FS_AddElement
  <2>5. A \union {i} \in SUBSET T
    BY <1>5, <2>1
  <2>6. Cardinality(A \union {i}) <= Cardinality(T)
    BY <2>2, <2>5, FS_Subset
  <2> QED
    BY <2>2, <2>3, <2>4, <2>6
<1>6. ASSUME NEW i \in Matching PROVE Rank(i) \in 1..n
  <2>1. Rank(i) <= n /\ i \in Ids /\ Rank(i) \in Nat
    BY <1>1, <1>5 DEF n
  <2>2. Cardinality(ahead(i)) \in Nat /\ Rank(i) = Cardinality(ahead(i)) + 1
    BY <1>4, <2>1
  <2> HIDE DEF ahead
  <2> QED
    BY <1>3, <2>1, <2>2
<1>7. ASSUME NEW i \in Matching, NEW j \in Matching, Before(i, j)
      PROVE  Rank(i) < Rank(j)
  <2> DEFINE A == ahead(j)
  <2>1. ahead(i) \subseteq A /\ i \in A /\ A \in SUBSET Matching
    BY <1>1, <1>7, TheListIsOrdered
  <2>2. Rank(i) <= Cardinality(A) /\ Rank(i) \in Nat
    BY <1>5, <2>1
  <2>3. Cardinality(A) \in Nat /\ Rank(j) = Cardinality(A) + 1
    BY <1>1, <1>4
  <2> HIDE DEF A
  <2> QED
    BY <2>2, <2>3
<1>8. ASSUME NEW k \in 1..n PROVE \E i \in Matching : Rank(i) = k
  <2> DEFINE r == [i \in Matching |-> Rank(i)]
  <2>1. r \in [Matching -> 1..n]
    BY <1>6
  <2>2. ASSUME NEW i \in Matching, NEW j \in Matching, r[i] = r[j]
        PROVE  i = j
    <3>1. Rank(i) = Rank(j) /\ Rank(i) \in Nat
      BY <1>3, <1>6, <2>2
    <3>2. ~Before(i, j) /\ ~Before(j, i)
      BY <1>7, <3>1
    <3> QED
      BY <1>1, <3>2, TheListIsOrdered
  <2>3. r \in Injection(Matching, 1..n)
    BY <2>1, <2>2 DEF Injection, IsInjective
  <2>4. IsFiniteSet(1..n) /\ Cardinality(1..n) = n
    BY <1>3, FS_Interval
  <2> HIDE DEF r
  <2>5. r \in Surjection(Matching, 1..n)
    BY <1>3, <2>3, <2>4, FS_Injection
  <2>6. PICK i \in Matching : r[i] = k
    BY <2>5 DEF Surjection
  <2> QED
    BY <2>6 DEF r
<1> QED
  BY <1>3, <1>6, <1>7, <1>8 DEF n

\* The page has the first of the matching rows, in their order, and no other.
LEMMA ThePage ==
  ASSUME row \in [Ids -> Rows \union {None}], walk.size \in PageSizes
  PROVE  /\ Page \in Seq(Ids) /\ Len(Page) = PageLength
         /\ PageLength \in Nat /\ PageLength <= walk.size
         /\ \A k \in 1..PageLength : Page[k] \in Matching /\ Rank(Page[k]) = k
         /\ \A i \in Matching :
              /\ Rank(i) \in Nat /\ Rank(i) > 0
              /\ Rank(i) <= PageLength => Page[Rank(i)] = i
              /\ PageLength # walk.size => Rank(i) <= PageLength
<1> DEFINE n == Cardinality(Matching)
<1>1. /\ n \in Nat
      /\ \A i \in Matching : Rank(i) \in 1..n
      /\ \A i, j \in Matching : Before(i, j) => Rank(i) < Rank(j)
      /\ \A k \in 1..n : \E i \in Matching : Rank(i) = k
  BY Ranks
<1>2. walk.size \in Nat /\ walk.size > 0
  <2>1. \A z \in PageSizes : z \in Nat /\ z # 0
    BY ApiAssumption
  <2>2. \A z \in Nat : z # 0 => z > 0
    OBVIOUS
  <2> QED
    BY <2>1, <2>2
<1>3. /\ PageLength \in Nat /\ PageLength <= n /\ PageLength <= walk.size
      /\ PageLength # walk.size => PageLength = n
  BY <1>1, <1>2 DEF PageLength
<1>4. ASSUME NEW i \in Matching, NEW j \in Matching, Rank(i) = Rank(j)
      PROVE  i = j
  <2>1. Rank(i) \in Nat /\ ~Before(i, j) /\ ~Before(j, i)
    BY <1>1, <1>4
  <2>2. i \in Ids /\ j \in Ids /\ row[i] # None /\ row[j] # None
    BY DEF Matching, Passing
  <2> QED
    BY <2>1, <2>2, TheListIsOrdered
<1> HIDE DEF n
<1>5. ASSUME NEW k \in 1..PageLength
      PROVE  Page[k] \in Matching /\ Rank(Page[k]) = k
  <2>1. \E i \in Matching : Rank(i) = k
    BY <1>1, <1>3
  <2>2. Page[k] = CHOOSE i \in Matching : Rank(i) = k
    BY DEF Page
  <2> QED
    BY <2>1, <2>2
<1>6. Page \in [1..PageLength -> Ids]
  <2>1. \A k \in 1..PageLength : Page[k] \in Ids
    BY <1>5 DEF Matching, Passing
  <2> QED
    BY <2>1 DEF Page
<1>7. Page \in Seq(Ids) /\ Len(Page) = PageLength
  BY <1>3, <1>6
<1>8. ASSUME NEW i \in Matching
      PROVE  /\ Rank(i) \in Nat /\ Rank(i) > 0
             /\ Rank(i) <= PageLength => Page[Rank(i)] = i
             /\ PageLength # walk.size => Rank(i) <= PageLength
  <2>1. Rank(i) \in 1..n /\ Rank(i) \in Nat /\ Rank(i) > 0 /\ Rank(i) <= n
    BY <1>1
  <2>2. ASSUME Rank(i) <= PageLength PROVE Page[Rank(i)] = i
    <3>1. Rank(i) \in 1..PageLength
      BY <1>3, <2>1, <2>2
    <3> QED
      BY <1>4, <1>5, <3>1
  <2> QED
    BY <1>3, <2>1, <2>2
<1> QED
  BY <1>3, <1>5, <1>7, <1>8


Listed == {seen[k] : k \in DOMAIN seen}

NoRepeats == \A j, k \in DOMAIN seen : seen[j] = seen[k] => j = k

\* The rows listed so far are those up to the cursor; what is due and lies
\* before it was listed.
UpToCursor ==
  /\ row[walk.cursor] # None
  /\ \A i \in Listed : row[i] # None /\ ~After(i, walk.cursor)
  /\ \A i \in due : ~After(i, walk.cursor) => i \in Listed

WalkInv ==
  /\ NoRepeats
  /\ due \subseteq Passing(row, walk.filter)
  /\ walk.on => walk.size \in PageSizes
  /\ walk.on /\ walk.cursor = None => seen = <<>>
  /\ walk.on /\ walk.cursor # None => UpToCursor
  /\ ~walk.on => due \subseteq Listed

\* A row that has answered that its run ended is still there and says so, and
\* the database is not being passed over for want of a row.
AnswerInv ==
  told = [state |-> "ended", by |-> "row"] =>
    /\ row[Watched] # None /\ row[Watched].status = "ended"
    /\ asking \in {None, "failure"}

OtherTypes ==
  /\ caller \in {"starts", "lists", "asks"}
  /\ row \in [Ids -> Rows \union {None}]
  /\ result \in {"pending", "ended", "expired"}
  /\ walk \in [filter : Filters, size : Nat, cursor : Ids \union {None},
               on : BOOLEAN]
  /\ seen \in Seq(Ids) /\ due \subseteq Ids
  /\ asking \in {None, "nothing", "failure"}
  /\ told \in Answers \union {None}

\* A row never goes away, and its start time never changes.
LEMMA RowsStay ==
  ASSUME row \in [Ids -> Rows \union {None}],
         NEW i \in Ids, InsertRow(i) \/ EndRow(i)
  PROVE  /\ row' \in [Ids -> Rows \union {None}]
         /\ \A j \in Ids : row[j] # None =>
              /\ row'[j] # None /\ row'[j].started = row[j].started
              /\ row[j].status = "ended" => row'[j].status = "ended"
         /\ due' = due \intersect Passing(row', walk.filter)
         /\ UNCHANGED <<caller, result, walk, seen, asking, told>>
<1>1. None \notin Rows
  BY ApiAssumption
<1>2. due' = due \intersect Passing(row', walk.filter)
      /\ UNCHANGED <<caller, result, walk, seen, asking, told>>
  BY DEF InsertRow, EndRow, StillDue, askVars
<1>3. CASE InsertRow(i)
  <2>1. PICK t \in Starts :
          row' = [row EXCEPT ![i] = [started |-> t, status |-> "running"]]
    BY <1>3 DEF InsertRow
  <2>2. row[i] = None
    BY <1>3 DEF InsertRow
  <2>3. row' \in [Ids -> Rows \union {None}]
    BY <2>1 DEF Rows, Statuses
  <2> QED
    BY <1>2, <2>1, <2>2, <2>3
<1>4. CASE EndRow(i)
  <2>1. row[i] \in Rows /\ row' = [row EXCEPT ![i].status = "ended"]
    BY <1>4 DEF EndRow
  <2>2. row'[i] = [row[i] EXCEPT !.status = "ended"]
        /\ \A j \in Ids : j # i => row'[j] = row[j]
    BY <2>1
  <2>3. row'[i] \in Rows /\ row'[i].started = row[i].started
        /\ row'[i].status = "ended"
    BY <2>1, <2>2 DEF Rows, Statuses
  <2>4. row' \in [Ids -> Rows \union {None}]
    BY <2>1, <2>2, <2>3
  <2> QED
    BY <1>1, <1>2, <2>2, <2>3, <2>4
<1> QED
  BY <1>3, <1>4

\* A row that appears or ends leaves the walk where it was.
LEMMA WalkAmongChanges ==
  ASSUME OtherTypes, WalkInv, NEW i \in Ids, InsertRow(i) \/ EndRow(i)
  PROVE  WalkInv'
<1>1. /\ \A j \in Ids : row[j] # None =>
           row'[j] # None /\ row'[j].started = row[j].started
      /\ due' = due \intersect Passing(row', walk.filter)
      /\ walk' = walk /\ seen' = seen
  BY RowsStay DEF OtherTypes
<1>2. Listed' = Listed /\ due' \subseteq due
  BY <1>1 DEF Listed
<1>3. NoRepeats'
  BY <1>1 DEF WalkInv, NoRepeats
<1>4. due' \subseteq Passing(row', walk'.filter)
  BY <1>1
<1>5. ASSUME walk.on, walk.cursor # None PROVE UpToCursor'
  <2>1. UpToCursor /\ walk.cursor \in Ids
    BY <1>5 DEF WalkInv, OtherTypes
  <2>2. \A j \in Ids : row[j] # None =>
          (After(j, walk.cursor)' <=> After(j, walk.cursor))
    BY <1>1, <2>1 DEF After, UpToCursor
  <2>3. Listed \subseteq Ids
    <3>1. \A k \in DOMAIN seen : seen[k] \in Ids
      BY LenProperties, ElementOfSeq DEF OtherTypes
    <3> QED
      BY <3>1 DEF Listed
  <2>4. due' \subseteq Ids /\ \A j \in due' : row[j] # None
    BY <1>2 DEF WalkInv, Passing
  <2> QED
    BY <1>1, <1>2, <2>1, <2>2, <2>3, <2>4 DEF UpToCursor
<1>6. walk'.on /\ walk'.cursor = None => seen' = <<>>
  BY <1>1 DEF WalkInv
<1>7. ~walk'.on => due' \subseteq Listed'
  BY <1>1, <1>2 DEF WalkInv
<1>8. walk'.on => walk'.size \in PageSizes
  BY <1>1 DEF WalkInv
<1> QED
  BY <1>1, <1>3, <1>4, <1>5, <1>6, <1>7, <1>8 DEF WalkInv

\* A walk begins with nothing listed.
LEMMA WalkBegins ==
  ASSUME NEW f \in Filters, NEW size \in PageSizes, StartWalk(f, size)
  PROVE  WalkInv'
<1>1. /\ walk' = [filter |-> f, size |-> size, cursor |-> None, on |-> TRUE]
      /\ seen' = <<>> /\ due' = Passing(row, f) /\ row' = row
  BY DEF StartWalk, taskVars
<1>2. DOMAIN <<>> = {}
  OBVIOUS
<1>3. NoRepeats'
  BY <1>1, <1>2 DEF NoRepeats
<1>4. /\ walk'.on /\ walk'.cursor = None /\ walk'.filter = f
      /\ walk'.size = size
  BY <1>1
<1> QED
  BY <1>1, <1>3, <1>4 DEF WalkInv

\* The rows of a page lie after those of the earlier pages, and with it
\* everything is listed up to its last row.
LEMMA WalkGoesOn ==
  ASSUME OtherTypes, WalkInv, FetchPage
  PROVE  WalkInv' /\ seen' \in Seq(Ids) /\ walk'.cursor \in Ids \union {None}
<1> DEFINE n == PageLength
           c == walk.cursor
           d == walk'.cursor
           paged == {Page[k] : k \in 1..n}
<1>1. /\ walk.on /\ seen' = seen \o Page /\ row' = row /\ due' = due
      /\ walk' = [walk EXCEPT !.cursor = NextCursor, !.on = NextCursor # None]
  BY DEF FetchPage, taskVars
<1>2. /\ walk'.cursor = NextCursor /\ walk'.on = (NextCursor # None)
      /\ walk'.filter = walk.filter /\ walk'.size = walk.size
  BY <1>1 DEF OtherTypes
<1>3. walk.size \in PageSizes /\ row \in [Ids -> Rows \union {None}]
      /\ c \in Ids \union {None} /\ seen \in Seq(Ids)
  BY <1>1 DEF WalkInv, OtherTypes
<1>4. /\ Page \in Seq(Ids) /\ Len(Page) = n
      /\ n \in Nat /\ n <= walk.size
      /\ \A k \in 1..n : Page[k] \in Matching /\ Rank(Page[k]) = k
      /\ \A i \in Matching :
           /\ Rank(i) \in Nat /\ Rank(i) > 0
           /\ Rank(i) <= n => Page[Rank(i)] = i
           /\ n # walk.size => Rank(i) <= n
  BY <1>3, ThePage
<1>5. \A i \in Matching : i \in Ids /\ row[i] # None /\ After(i, c)
  BY DEF Matching, Passing
<1>6. paged \in SUBSET Matching
      /\ \A i \in Matching : Rank(i) <= n => i \in paged
  <2>1. \A k \in 1..n : Page[k] \in Matching
    BY <1>4
  <2>2. ASSUME NEW i \in Matching, Rank(i) <= n PROVE i \in paged
    <3>1. Rank(i) \in 1..n /\ Page[Rank(i)] = i
      BY <1>4, <2>2
    <3> QED
      BY <3>1
  <2> QED
    BY <2>1, <2>2
<1>7. /\ seen' \in Seq(Ids) /\ Len(seen) \in Nat /\ DOMAIN seen = 1..Len(seen)
      /\ DOMAIN seen' = 1..Len(seen) + n
      /\ \A k \in 1..Len(seen) : seen'[k] = seen[k]
      /\ \A k \in 1..n : seen'[Len(seen) + k] = Page[k]
  <2>1. Len(seen) \in Nat /\ DOMAIN seen = 1..Len(seen)
    BY <1>3, LenProperties
  <2>2. /\ seen' \in Seq(Ids) /\ Len(seen') = Len(seen) + n
        /\ \A k \in 1..Len(seen) + n : seen'[k] =
             IF k <= Len(seen) THEN seen[k] ELSE Page[k - Len(seen)]
    <3>1. seen' = seen \o Page /\ seen \in Seq(Ids)
      BY <1>1, <1>3
    <3>2. Page \in Seq(Ids) /\ Len(Page) = n
      BY <1>4
    <3> HIDE DEF n
    <3> QED
      BY <3>1, <3>2, ConcatProperties
  <2>3. DOMAIN seen' = 1..Len(seen) + n
    BY <2>2, LenProperties
  <2>4. ASSUME NEW k \in 1..Len(seen) PROVE seen'[k] = seen[k]
    <3>1. k \in 1..Len(seen) + n /\ k <= Len(seen)
      BY <1>4, <2>1
    <3> QED
      BY <2>2, <3>1
  <2>5. ASSUME NEW k \in 1..n PROVE seen'[Len(seen) + k] = Page[k]
    <3>1. /\ Len(seen) + k \in 1..Len(seen) + n
          /\ ~(Len(seen) + k <= Len(seen)) /\ Len(seen) + k - Len(seen) = k
      BY <1>4, <2>1
    <3> QED
      BY <2>2, <3>1
  <2> QED
    BY <2>1, <2>2, <2>3, <2>4, <2>5
<1> HIDE DEF n, c, paged
<1>8. Listed' = Listed \union paged
  <2>1. ASSUME NEW k \in DOMAIN seen' PROVE seen'[k] \in Listed \union paged
    <3>1. CASE k <= Len(seen)
      <4>1. k \in 1..Len(seen)
        BY <1>7, <2>1, <3>1
      <4> QED
        BY <1>7, <4>1 DEF Listed
    <3>2. CASE ~(k <= Len(seen))
      <4>1. k - Len(seen) \in 1..n /\ Len(seen) + (k - Len(seen)) = k
        BY <1>4, <1>7, <2>1, <3>2
      <4>2. seen'[k] = Page[k - Len(seen)]
        BY <1>7, <4>1
      <4> QED
        BY <4>1, <4>2 DEF paged
    <3> QED
      BY <3>1, <3>2
  <2>2. ASSUME NEW k \in DOMAIN seen PROVE seen[k] \in Listed'
    <3>1. k \in DOMAIN seen' /\ seen'[k] = seen[k]
      BY <1>4, <1>7
    <3> QED
      BY <3>1 DEF Listed
  <2>3. ASSUME NEW k \in 1..n PROVE Page[k] \in Listed'
    <3>1. Len(seen) + k \in DOMAIN seen' /\ seen'[Len(seen) + k] = Page[k]
      BY <1>4, <1>7
    <3> QED
      BY <3>1 DEF Listed
  <2>4. Listed' \subseteq Listed \union paged
    BY <2>1 DEF Listed
  <2>5. Listed \subseteq Listed' /\ paged \subseteq Listed'
    BY <2>2, <2>3 DEF Listed, paged
  <2> QED
    BY <2>4, <2>5
<1>9. Listed \intersect Matching = {}
  <2>1. CASE c = None
    <3>1. seen = <<>>
      BY <1>1, <2>1 DEF WalkInv, c
    <3> QED
      BY <3>1 DEF Listed
  <2>2. CASE c # None
    BY <1>1, <1>5, <2>2 DEF WalkInv, UpToCursor, c
  <2> QED
    BY <2>1, <2>2
<1>10. NoRepeats'
  <2> SUFFICES ASSUME NEW j \in DOMAIN seen', NEW k \in DOMAIN seen',
                      seen'[j] = seen'[k]
               PROVE  j = k
    BY DEF NoRepeats
  <2>1. ASSUME NEW i \in DOMAIN seen'
        PROVE  \/ i \in DOMAIN seen /\ seen'[i] = seen[i] /\ seen[i] \in Listed
               \/ /\ i - Len(seen) \in 1..n /\ seen'[i] \in Matching
                  /\ Rank(seen'[i]) = i - Len(seen)
    <3>1. CASE i <= Len(seen)
      <4>1. i \in 1..Len(seen)
        BY <1>7, <2>1, <3>1
      <4> QED
        BY <1>7, <4>1 DEF Listed
    <3>2. CASE ~(i <= Len(seen))
      <4>1. i - Len(seen) \in 1..n /\ Len(seen) + (i - Len(seen)) = i
        BY <1>4, <1>7, <2>1, <3>2
      <4>2. seen'[i] = Page[i - Len(seen)]
        BY <1>7, <4>1
      <4> QED
        BY <1>4, <4>1, <4>2
    <3> QED
      BY <3>1, <3>2
  <2>2. CASE j \in DOMAIN seen /\ seen'[j] = seen[j] /\ seen[j] \in Listed
    <3>1. k \in DOMAIN seen /\ seen'[k] = seen[k]
      BY <1>9, <2>1, <2>2
    <3> QED
      BY <2>2, <3>1 DEF WalkInv, NoRepeats
  <2>3. CASE /\ j - Len(seen) \in 1..n /\ seen'[j] \in Matching
             /\ Rank(seen'[j]) = j - Len(seen)
    <3>1. k - Len(seen) \in 1..n /\ Rank(seen'[k]) = k - Len(seen)
      BY <1>9, <2>1, <2>3
    <3>2. j - Len(seen) = k - Len(seen)
      BY <2>3, <3>1
    <3> QED
      BY <1>4, <1>7, <3>2
  <2> QED
    BY <2>1, <2>2, <2>3
<1>11. ASSUME NEW i \in due PROVE i \in Listed \/ i \in Matching
  <2>1. i \in Passing(row, walk.filter)
    BY DEF WalkInv
  <2>2. CASE After(i, c)
    BY <2>1, <2>2 DEF Matching, c
  <2>3. CASE ~After(i, c)
    <3>1. c # None
      BY <2>3 DEF After
    <3> QED
      BY <1>1, <2>3, <3>1 DEF WalkInv, UpToCursor, c
  <2> QED
    BY <2>2, <2>3
<1>12. CASE n = walk.size
  <2>1. n \in 1..n /\ n > 0
    <3>1. \A z \in PageSizes : z \in Nat /\ z # 0
      BY ApiAssumption
    <3>2. n \in Nat /\ n # 0
      BY <1>3, <1>12, <3>1
    <3> QED
      BY <3>2
  <2>2. d = Page[n]
    BY <1>2, <1>12 DEF NextCursor, n
  <2>3. d \in Matching /\ Rank(d) = n /\ d \in Ids /\ row[d] # None
        /\ After(d, c)
    BY <1>4, <1>5, <2>1, <2>2
  <2>4. d # None
    BY <2>3, ApiAssumption DEF Ids
  <2>5. \A i \in Matching : Before(d, i) => n < Rank(i)
    BY <1>3, <2>3, Ranks
  <2>6. ASSUME NEW i \in paged
        PROVE  i \in Ids /\ row[i] # None /\ ~After(i, d)
    <3>1. i \in Matching /\ i \in Ids /\ row[i] # None
      BY <1>5, <1>6
    <3>2. PICK k \in 1..n : i = Page[k]
      BY DEF paged
    <3>3. Rank(i) = k /\ ~(n < k)
      BY <1>4, <3>2
    <3>4. ~Before(d, i)
      BY <2>5, <3>1, <3>3
    <3> QED
      BY <1>3, <2>3, <2>4, <3>1, <3>4, AfterIsBefore
  <2>7. ASSUME NEW i \in Ids, row[i] # None, After(i, d)
        PROVE  After(i, c)
    <3>1. CASE c = None \/ row[c] = None
      BY <3>1 DEF After
    <3>2. CASE c # None /\ row[c] # None
      <4>1. c \in Ids /\ Before(c, d) /\ Before(d, i)
        BY <1>3, <2>3, <2>4, <2>7, <3>2, AfterIsBefore
      <4>2. Before(c, i)
        BY <1>3, <2>3, <2>7, <3>2, <4>1, TheListIsOrdered
      <4> QED
        BY <1>3, <2>7, <3>2, <4>1, <4>2, AfterIsBefore
    <3> QED
      BY <3>1, <3>2
  <2>8. ASSUME NEW i \in Listed PROVE row[i] # None /\ ~After(i, d)
    <3>1. c # None
      <4>1. seen # <<>>
        BY DEF Listed
      <4> QED
        BY <1>1, <4>1 DEF WalkInv, c
    <3>2. row[i] # None /\ ~After(i, c) /\ i \in Ids
      <4>1. \A k \in DOMAIN seen : seen[k] \in Ids
        BY <1>3, <1>7, ElementOfSeq
      <4> QED
        BY <1>1, <3>1, <4>1 DEF WalkInv, UpToCursor, Listed, c
    <3> QED
      BY <2>7, <3>2
  <2>9. ASSUME NEW i \in due, ~After(i, d) PROVE i \in Listed'
    <3>1. CASE i \in Listed
      BY <1>8, <3>1
    <3>2. CASE i \in Matching
      <4>1. ~Before(d, i) /\ i \in Ids /\ row[i] # None
        BY <1>3, <1>5, <2>3, <2>4, <2>9, <3>2, AfterIsBefore
      <4>2. i = d \/ Before(i, d)
        BY <1>3, <2>3, <4>1, TheListIsOrdered
      <4>3. Rank(i) <= n
        <5>1. CASE i = d
          BY <1>4, <2>3, <5>1
        <5>2. CASE Before(i, d)
          <6>1. Rank(i) < Rank(d)
            BY <1>3, <2>3, <3>2, <5>2, Ranks
          <6> QED
            BY <1>4, <2>3, <3>2, <6>1
        <5> QED
          BY <4>2, <5>1, <5>2
      <4> QED
        BY <1>6, <1>8, <3>2, <4>3
    <3> QED
      BY <1>11, <3>1, <3>2
  <2>10. UpToCursor'
    <3>1. \A i : After(i, d) <=> After(i, walk.cursor)'
      BY <1>1 DEF After
    <3>2. \A i \in Listed' : row[i] # None /\ ~After(i, d)
      BY <1>8, <2>6, <2>8
    <3> QED
      BY <1>1, <2>3, <2>9, <3>1, <3>2 DEF UpToCursor
  <2>11. walk'.on /\ walk'.size \in PageSizes
    BY <1>2, <1>3, <2>4
  <2>12. due' \subseteq Passing(row', walk'.filter)
    BY <1>1, <1>2 DEF WalkInv
  <2> QED
    BY <1>7, <1>10, <2>3, <2>4, <2>10, <2>11, <2>12 DEF WalkInv
<1>13. CASE n # walk.size
  <2>1. walk'.cursor = None /\ ~walk'.on
    BY <1>2, <1>13 DEF NextCursor, n
  <2>2. \A i \in Matching : i \in paged
    BY <1>4, <1>6, <1>13
  <2>3. due' \subseteq Listed'
    BY <1>1, <1>8, <1>11, <2>2
  <2>4. due' \subseteq Passing(row', walk'.filter)
    BY <1>1, <1>2 DEF WalkInv
  <2> QED
    BY <1>7, <1>10, <2>1, <2>3, <2>4 DEF WalkInv
<1> QED
  BY <1>12, <1>13


\* The invariant holds of an API that has just started, before any call.
LEMMA InitInv ==
  Init => LimiterTypes /\ OtherTypes /\ LimiterInv /\ WalkInv /\ AnswerInv
<1> SUFFICES ASSUME Init
             PROVE  LimiterTypes /\ OtherTypes /\ LimiterInv /\ WalkInv
                    /\ AnswerInv
  OBVIOUS
<1>1. \A S : <<>> \in Seq(S)
  BY EmptySeq
<1>2. LimiterTypes
  BY <1>1, ApiAssumption DEF Init, LimiterTypes
<1>3. OtherTypes
  BY <1>1 DEF Init, OtherTypes, Filters
<1>4. LimiterInv
  <2>1. Ascending(<<>>) /\ Spaced(<<>>)
    BY DEF Ascending, Spaced
  <2>2. LastOf(<<>>, <<>>, now)
    BY DEF LastOf
  <2> QED
    BY <2>1, <2>2 DEF Init, LimiterInv
<1>5. WalkInv
  BY DEF Init, WalkInv, NoRepeats
<1>6. AnswerInv
  <2>1. [state |-> "ended", by |-> "row"] \in Answers
    BY DEF Answers, Statuses
  <2> QED
    BY <2>1, ApiAssumption DEF Init, AnswerInv
<1> QED
  BY <1>2, <1>3, <1>4, <1>5, <1>6

\* What the walk and the questions of GET /runs/{id} do to the other parts.
LEMMA NextOthers ==
  ASSUME OtherTypes, WalkInv, AnswerInv, [Next]_vars
  PROVE  OtherTypes' /\ WalkInv' /\ AnswerInv'
<1> DEFINE Ended == [state |-> "ended", by |-> "row"]
<1>1. CASE UNCHANGED <<caller, taskVars, walkVars, askVars>>
  <2>1. UNCHANGED <<caller, row, result, walk, seen, due, asking, told>>
    BY <1>1 DEF taskVars, walkVars, askVars
  <2>2. WalkInv'
    BY <2>1 DEF WalkInv, NoRepeats, UpToCursor, Listed, After, Passing
  <2> QED
    BY <2>1, <2>2 DEF OtherTypes, AnswerInv
<1>2. CASE Tick \/ UNCHANGED vars
  BY <1>1, <1>2 DEF Tick, vars
<1>3. ASSUME NEW s \in Servers, Restart(s)
      PROVE  UNCHANGED <<caller, taskVars, walkVars, askVars>>
  BY <1>3 DEF Restart
<1>4. ASSUME NEW s \in Servers, NEW c \in Clients, Accept(s, c) \/ Refuse(s, c)
      PROVE  UNCHANGED <<caller, taskVars, walkVars, askVars>>
  BY <1>4 DEF Accept, Refuse
<1>5. ASSUME NEW i \in Ids, InsertRow(i) \/ EndRow(i)
      PROVE  OtherTypes' /\ WalkInv' /\ AnswerInv'
  <2>1. /\ row' \in [Ids -> Rows \union {None}]
        /\ \A j \in Ids : row[j] # None =>
             /\ row'[j] # None
             /\ row[j].status = "ended" => row'[j].status = "ended"
        /\ due' = due \intersect Passing(row', walk.filter)
        /\ UNCHANGED <<caller, result, walk, seen, asking, told>>
    BY <1>5, RowsStay DEF OtherTypes
  <2>2. OtherTypes'
    BY <2>1 DEF OtherTypes
  <2>3. WalkInv'
    BY <1>5, WalkAmongChanges
  <2>4. Watched \in Ids
    BY ApiAssumption
  <2>5. AnswerInv'
    BY <2>1, <2>4 DEF AnswerInv
  <2> QED
    BY <2>2, <2>3, <2>5
<1>6. CASE ResultChanges
  <2>1. /\ result' \in {"pending", "ended", "expired"}
        /\ UNCHANGED <<caller, row, walk, seen, due, asking, told>>
    BY <1>6 DEF ResultChanges, walkVars, askVars
  <2>2. WalkInv'
    BY <2>1 DEF WalkInv, NoRepeats, UpToCursor, Listed, After, Passing
  <2> QED
    BY <2>1, <2>2 DEF OtherTypes, AnswerInv
<1>7. ASSUME NEW f \in Filters, NEW size \in PageSizes, StartWalk(f, size)
      PROVE  OtherTypes' /\ WalkInv' /\ AnswerInv'
  <2>1. /\ walk' = [filter |-> f, size |-> size, cursor |-> None, on |-> TRUE]
        /\ seen' = <<>> /\ due' = Passing(row, f)
        /\ UNCHANGED <<caller, row, result, asking, told>>
    BY <1>7 DEF StartWalk, taskVars, askVars
  <2>2. size \in Nat /\ <<>> \in Seq(Ids)
    BY ApiAssumption, EmptySeq
  <2>3. OtherTypes'
    BY <2>1, <2>2 DEF OtherTypes, Passing
  <2> QED
    BY <1>7, <2>1, <2>3, WalkBegins DEF AnswerInv
<1>8. CASE FetchPage
  <2>1. /\ UNCHANGED <<caller, row, result, due, asking, told>>
        /\ walk' = [walk EXCEPT !.cursor = NextCursor, !.on = NextCursor # None]
    BY <1>8 DEF FetchPage, taskVars, askVars
  <2>2. WalkInv' /\ seen' \in Seq(Ids) /\ walk'.cursor \in Ids \union {None}
    BY <1>8, WalkGoesOn
  <2>3. OtherTypes'
    BY <2>1, <2>2 DEF OtherTypes
  <2> QED
    BY <2>1, <2>2, <2>3 DEF AnswerInv
<1>9. CASE AskRow \/ AskRowFails \/ AskCelery
  <2>1. UNCHANGED <<caller, row, result, walk, seen, due>>
    BY <1>9 DEF AskRow, AskRowFails, AskCelery, taskVars, walkVars
  <2>2. WalkInv'
    BY <2>1 DEF WalkInv, NoRepeats, UpToCursor, Listed, After, Passing
  <2>3. /\ asking' \in {None, "nothing", "failure"}
        /\ told' \in Answers \union {None} /\ AnswerInv'
    <3>1. CASE AskRow /\ row[Watched] # None
      <4>1. /\ told' = [state |-> row[Watched].status, by |-> "row"]
            /\ asking' = None
        BY <3>1 DEF AskRow, Answer
      <4>2. row[Watched].status \in Statuses
        BY <3>1, ApiAssumption DEF OtherTypes, Rows
      <4> QED
        BY <2>1, <3>1, <4>1, <4>2 DEF Answers, AnswerInv
    <3>2. CASE AskRow /\ row[Watched] = None
      <4>1. told' = told /\ asking' = "nothing"
        BY <3>2 DEF AskRow
      <4> QED
        BY <3>2, <4>1 DEF OtherTypes, AnswerInv
    <3>3. CASE AskRowFails
      <4>1. told' = told /\ asking' = "failure"
        BY <3>3 DEF AskRowFails
      <4> QED
        BY <2>1, <4>1 DEF OtherTypes, AnswerInv
    <3>4. CASE AskCelery
      <4>1. asking \in {"nothing", "failure"} /\ asking' = None
        BY <3>4 DEF AskCelery, Answer, OtherTypes
      <4>2. PICK state \in {"ended", "pending"} :
              told' = [state |-> state, by |-> asking]
        BY <3>4 DEF AskCelery, Answer
      <4>3. told'.by # "row" /\ told' \in Answers
        BY <4>1, <4>2 DEF Answers, Statuses
      <4>4. told' # Ended
        BY <4>3
      <4> QED
        BY <4>1, <4>3, <4>4 DEF AnswerInv
    <3> QED
      BY <1>9, <3>1, <3>2, <3>3, <3>4 DEF AskRow, AskRowFails, AskCelery
  <2> QED
    BY <2>1, <2>2, <2>3 DEF OtherTypes
<1> QED
  BY <1>1, <1>2, <1>3, <1>4, <1>5, <1>6, <1>7, <1>8, <1>9 DEF Next

-----------------------------------------------------------------------------
(* The theorems.                                                             *)

\* Whatever the callers and workers do, the invariant holds throughout.
THEOREM Invariance ==
  Spec => []( /\ LimiterTypes /\ OtherTypes
              /\ LimiterInv /\ WalkInv /\ AnswerInv)
<1>1. LimiterTypes /\ OtherTypes /\ LimiterInv /\ WalkInv /\ AnswerInv
        /\ [Next]_vars
      => (LimiterTypes /\ OtherTypes /\ LimiterInv /\ WalkInv /\ AnswerInv)'
  BY NextLimiter, NextOthers
<1> QED
  BY <1>1, InitInv, PTL DEF Spec

\* Buckets hold times up to now, the walk's cursor is a run, and every answer
\* of GET /runs/{id} is one of the states that the route has.
THEOREM TypeCorrectness == Spec => []TypeOK
<1>1. LimiterTypes /\ OtherTypes => TypeOK
  BY DEF LimiterTypes, OtherTypes, TypeOK
<1> QED
  BY <1>1, Invariance, PTL

\* For any limit and window: a process starts no more than the limit in any
\* window, whichever requests its bucket has forgotten, and refuses none that
\* the window has room for.
THEOREM ExactLimit == Spec => []LimitIsExact
<1>1. LimiterTypes /\ LimiterInv => LimitIsExact
  <2> SUFFICES ASSUME LimiterTypes, LimiterInv,
                      NEW s \in Servers, NEW c \in Clients
               PROVE  /\ \A t \in 0..now : Within(letIn[s][c], t) <= Limit
                      /\ refused[s][c] # None =>
                           Within(letIn[s][c], refused[s][c]) >= Limit
    BY DEF LimitIsExact
  <2>1. letIn[s][c] \in Seq(Nat)
    <3>1. letIn[s][c] \in Seq(0..now) /\ 0..now \subseteq Nat
      BY DEF LimiterTypes
    <3> QED
      BY <3>1, SeqMonotonic
  <2>2. ASSUME NEW t \in 0..now PROVE Within(letIn[s][c], t) <= Limit
    <3>1. t \in Nat
      BY DEF LimiterTypes
    <3> QED
      BY <2>1, <3>1, SpacedStartsAreFew DEF LimiterInv
  <2>3. ASSUME refused[s][c] # None
        PROVE  Within(letIn[s][c], refused[s][c]) >= Limit
    <3>1. refused[s][c] \in Nat /\ FullAt(letIn[s][c], refused[s][c])
      BY <2>3 DEF LimiterTypes, LimiterInv
    <3> QED
      BY <2>1, <3>1, FullWindow
  <2> QED
    BY <2>2, <2>3
<1> QED
  BY <1>1, Invariance, PTL

\* For any number of runs, any page size and any changes between the pages: a
\* walk through GET /runs repeats no row and, once at its end, has missed none
\* that matched all along.
THEOREM EachRowOnce == Spec => []WalkListsEachRowOnce
<1>1. WalkInv => WalkListsEachRowOnce
  BY DEF WalkInv, WalkListsEachRowOnce, Listed, NoRepeats
<1> QED
  BY <1>1, Invariance, PTL

\* A caller who was told from the row that a run ended is told nothing else
\* afterwards while the database answers.
THEOREM FinalAnswers == Spec => EndedStaysEnded
<1> DEFINE Ended == [state |-> "ended", by |-> "row"]
<1>1. OtherTypes /\ AnswerInv /\ [Next]_vars =>
        [told = Ended => told' = told \/ told'.by = "failure"]_vars
  <2> SUFFICES ASSUME OtherTypes, AnswerInv, Next, told = Ended
               PROVE  told' = told \/ told'.by = "failure"
    OBVIOUS
  <2>1. /\ row[Watched] # None /\ row[Watched].status = "ended"
        /\ asking \in {None, "failure"}
    BY DEF AnswerInv
  <2>2. CASE AskRow
    BY <2>1, <2>2 DEF AskRow, Answer
  <2>3. CASE AskCelery
    <3>1. asking = "failure"
      BY <2>1, <2>3 DEF AskCelery
    <3> QED
      BY <2>3, <3>1 DEF AskCelery, Answer
  <2>4. CASE AskRowFails \/ FetchPage \/ ResultChanges \/ Tick
    BY <2>4 DEF AskRowFails, FetchPage, ResultChanges, Tick, askVars
  <2>5. ASSUME NEW s \in Servers, Restart(s) PROVE told' = told
    BY <2>5 DEF Restart, askVars
  <2>6. ASSUME NEW s \in Servers, NEW c \in Clients,
             Accept(s, c) \/ Refuse(s, c)
        PROVE  told' = told
    BY <2>6 DEF Accept, Refuse, askVars
  <2>7. ASSUME NEW i \in Ids, InsertRow(i) \/ EndRow(i) PROVE told' = told
    BY <2>7 DEF InsertRow, EndRow, askVars
  <2>8. ASSUME NEW f \in Filters, NEW size \in PageSizes, StartWalk(f, size)
        PROVE  told' = told
    BY <2>8 DEF StartWalk, askVars
  <2> QED
    BY <2>2, <2>3, <2>4, <2>5, <2>6, <2>7, <2>8 DEF Next
<1>2. (LimiterTypes /\ OtherTypes /\ LimiterInv /\ WalkInv /\ AnswerInv)
      => OtherTypes /\ AnswerInv
  OBVIOUS
<1> QED
  BY <1>1, <1>2, Invariance, PTL DEF Spec, EndedStaysEnded
=============================================================================
