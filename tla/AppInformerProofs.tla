--------------------------- MODULE AppInformerProofs ---------------------------
(***************************************************************************)
(* Proofs about AppInformer: the inductive invariant, what follows from    *)
(* it, and that the informer's cache implements Replica.                   *)
(***************************************************************************)
EXTENDS AppInformer, FiniteSetTheorems, SequenceTheorems, TLAPS

-----------------------------------------------------------------------------
(* Sequences.                                                              *)

\* SetToSeq lists each element of a finite set once.
LEMMA SetToSeqLists ==
  ASSUME NEW S, IsFiniteSet(S)
  PROVE  LET s == SetToSeq(S) IN
         /\ s \in Seq(S)
         /\ Len(s) = Cardinality(S) /\ Len(s) \in Nat
         /\ \A i, j \in 1 .. Len(s) : s[i] = s[j] => i = j
         /\ \A x \in S : \E i \in 1 .. Len(s) : s[i] = x
         /\ DOMAIN s = 1 .. Len(s)
<1> DEFINE n == Cardinality(S)
           s == SetToSeq(S)
<1>1. n \in Nat /\ ExistsBijection(1 .. n, S)
  BY FS_CardinalityType
<1>2. PICK b \in [1 .. n -> S] : IsInjective(b)
  BY <1>1 DEF ExistsBijection, Bijection, Injection
<1>3. s \in [1 .. n -> S] /\ IsInjective(s)
  BY <1>2 DEF SetToSeq
<1>4. s \in Seq(S) /\ Len(s) = n /\ DOMAIN s = 1 .. n
  BY <1>1, <1>3
<1>5. \A i, j \in 1 .. n : s[i] = s[j] => i = j
  BY <1>3 DEF IsInjective
<1>6. ASSUME NEW x \in S PROVE \E i \in 1 .. n : s[i] = x
  <2> DEFINE T == {s[i] : i \in 1 .. n}
  <2>1. T \in SUBSET S
    BY <1>3
  <2>2. s \in [1 .. n -> T]
    BY <1>3
  <2>3. s \in Bijection(1 .. n, T)
    BY <1>3, <2>2 DEF Bijection, Injection, Surjection
  <2>4. Cardinality(T) = n
    BY <1>1, <2>3, FS_CountingElements DEF ExistsBijection
  <2>5. T = S
    BY <2>1, <2>4, FS_Subset
  <2> QED
    BY <2>5
<1> QED
  BY <1>1, <1>4, <1>5, <1>6

-----------------------------------------------------------------------------
(* Logs.  What the log g says of k after p writes, with the log as an      *)
(* argument so that two of them can be compared.                           *)

LastIn(g, k, p) ==
    {i \in 1 .. p : g[i].key = k /\ \A j \in i + 1 .. p : g[j].key # k}

StoredIn(g, k, p) ==
    IF LastIn(g, k, p) = {} THEN None
    ELSE g[CHOOSE i \in LastIn(g, k, p) : TRUE].obj

LEMMA StoredIsStoredIn ==
  \A k, p : R!StoredAt(k, p) = StoredIn(log, k, p)
BY DEF R!StoredAt, R!LastWrite, StoredIn, LastIn

\* There is one last write at most.
LEMMA LastIsOne ==
  ASSUME NEW g, NEW k, NEW p \in Nat, NEW i \in LastIn(g, k, p)
  PROVE  StoredIn(g, k, p) = g[i].obj
<1>1. \A j \in LastIn(g, k, p) : j = i
  BY DEF LastIn
<1> QED
  BY <1>1 DEF StoredIn

LEMMA StoredInType ==
  ASSUME NEW g \in Seq(Writes), NEW k, NEW p \in 0 .. Len(g)
  PROVE  /\ StoredIn(g, k, p) \in Apps \cup {None}
         /\ StoredIn(g, k, p) # None =>
              \E i \in 1 .. p : g[i].key = k /\ g[i].obj = StoredIn(g, k, p)
<1>1. CASE LastIn(g, k, p) = {}
  BY <1>1 DEF StoredIn
<1>2. CASE LastIn(g, k, p) # {}
  <2>1. PICK i \in LastIn(g, k, p) : TRUE
    BY <1>2
  <2>2. i \in 1 .. p /\ g[i].key = k /\ g[i] \in Writes
    BY <2>1 DEF LastIn
  <2>3. StoredIn(g, k, p) = g[i].obj
    BY <2>1, LastIsOne
  <2> QED
    BY <2>2, <2>3 DEF Writes
<1> QED
  BY <1>1, <1>2

LEMMA NothingStoredFirst ==
  ASSUME NEW g, NEW k
  PROVE  StoredIn(g, k, 0) = None
BY DEF StoredIn, LastIn

\* What is stored depends on the last write alone.
LEMMA SameLast ==
  ASSUME NEW g, NEW k, NEW p \in Nat, NEW q \in Nat,
         LastIn(g, k, p) = LastIn(g, k, q)
  PROVE  StoredIn(g, k, p) = StoredIn(g, k, q)
<1>1. CASE LastIn(g, k, p) = {}
  BY <1>1 DEF StoredIn
<1>2. CASE LastIn(g, k, p) # {}
  BY <1>2, LastIsOne
<1> QED
  BY <1>1, <1>2

\* One more write.
LEMMA StoredNext ==
  ASSUME NEW g, NEW k, NEW p \in Nat
  PROVE  StoredIn(g, k, p + 1) = IF g[p + 1].key = k THEN g[p + 1].obj
                                 ELSE StoredIn(g, k, p)
<1>1. CASE g[p + 1].key = k
  <2>1. p + 1 \in LastIn(g, k, p + 1)
    BY <1>1 DEF LastIn
  <2> QED
    BY <1>1, <2>1, LastIsOne
<1>2. CASE g[p + 1].key # k
  <2>1. LastIn(g, k, p + 1) = LastIn(g, k, p)
    BY <1>2 DEF LastIn
  <2>2. StoredIn(g, k, p + 1) = StoredIn(g, k, p)
    BY <2>1, SameLast
  <2> QED
    BY <1>2, <2>2
<1> QED
  BY <1>1, <1>2

\* The past does not change.
LEMMA StoredStays ==
  ASSUME NEW g, NEW h, NEW k, NEW p \in Nat,
         \A i \in 1 .. p : h[i] = g[i]
  PROVE  StoredIn(h, k, p) = StoredIn(g, k, p)
<1>1. LastIn(h, k, p) = LastIn(g, k, p)
  BY DEF LastIn
<1>2. CASE LastIn(g, k, p) = {}
  BY <1>1, <1>2 DEF StoredIn
<1>3. CASE LastIn(g, k, p) # {}
  <2>1. PICK i \in LastIn(g, k, p) : TRUE
    BY <1>3
  <2>2. h[i] = g[i]
    BY <2>1 DEF LastIn
  <2> QED
    BY <1>1, <2>1, <2>2, LastIsOne
<1> QED
  BY <1>2, <1>3

\* After writes to other keys, ...
LEMMA StoredAfterOthers ==
  ASSUME NEW g, NEW h, NEW k, NEW p \in Nat, NEW q \in Nat, p <= q,
         \A i \in 1 .. p : h[i] = g[i],
         \A i \in p + 1 .. q : h[i].key # k
  PROVE  StoredIn(h, k, q) = StoredIn(g, k, p)
<1>1. LastIn(h, k, q) = LastIn(h, k, p)
  BY DEF LastIn
<1>2. StoredIn(h, k, q) = StoredIn(h, k, p)
  BY <1>1, SameLast
<1> QED
  BY <1>2, StoredStays

\* ... and after deletions.
LEMMA StoredAfterDeletion ==
  ASSUME NEW h, NEW k, NEW p \in Nat, NEW q \in Nat, p <= q,
         \A i \in p + 1 .. q : h[i].obj = None,
         NEW d \in p + 1 .. q, h[d].key = k
  PROVE  StoredIn(h, k, q) = None
<1>1. CASE LastIn(h, k, q) = {}
  BY <1>1 DEF StoredIn
<1>2. CASE LastIn(h, k, q) # {}
  <2>1. PICK i \in LastIn(h, k, q) : TRUE
    BY <1>2
  <2>2. i \in p + 1 .. q
    BY <2>1 DEF LastIn
  <2> QED
    BY <2>1, <2>2, LastIsOne
<1> QED
  BY <1>1, <1>2

-----------------------------------------------------------------------------
(* DeltaFIFO.                                                              *)

\* A deletion follows an object, in the queue or in the cache.
Paired(s, cached) ==
    \A i \in 1 .. Len(s) :
        s[i].obj = None =>
            IF i = 1 THEN cached # None ELSE s[i - 1].obj # None

\* A delta that is queued is the last one, whether it is combined or not.
LEMMA DedupAppend ==
  ASSUME NEW s \in Seq(Deltas), NEW d \in Deltas
  PROVE  LET r == Dedup(Append(s, d)) IN
         /\ r \in Seq(Deltas) /\ r # <<>> /\ Last(r) = d
         /\ \A c : Paired(s, c) /\ (d.obj = None /\ s = <<>> => c # None)
                    => Paired(r, c)
<1> DEFINE t == Append(s, d)
           n == Len(t)
           r == Dedup(t)
<1>1. /\ t \in Seq(Deltas) /\ n = Len(s) + 1 /\ n \in Nat /\ t[n] = d
      /\ \A i \in 1 .. Len(s) : t[i] = s[i]
  BY AppendProperties
<1>2. CASE n >= 2 /\ t[n].obj = None /\ t[n - 1].obj = None
  <2> DEFINE u == SubSeq(t, 1, n - 2)
  <2>1. r = Append(u, d)
    BY <1>1, <1>2 DEF Dedup
  <2>2. \A i \in 1 .. n - 2 : t[i] \in Deltas
    BY <1>1
  <2>3. /\ u \in Seq(Deltas) /\ Len(u) = n - 2
        /\ \A i \in 1 .. n - 2 : u[i] = t[i]
    <3> HIDE DEF t, n
    <3> DEFINE m == n - 2
    <3>1. m \in Nat
      BY <1>1, <1>2
    <3>2. \A i \in 1 .. m : t[i] \in Deltas
      BY <2>2
    <3> HIDE DEF m
    <3>3. /\ SubSeq(t, 1, m) \in Seq(Deltas)
          /\ Len(SubSeq(t, 1, m)) = IF 1 <= m THEN m - 1 + 1 ELSE 0
          /\ \A i \in 1 .. m - 1 + 1 : SubSeq(t, 1, m)[i] = t[1 + i - 1]
      BY <3>1, <3>2, SubSeqProperties
    <3>4. /\ SubSeq(t, 1, m) \in Seq(Deltas) /\ Len(SubSeq(t, 1, m)) = m
          /\ \A i \in 1 .. m : SubSeq(t, 1, m)[i] = t[i]
      BY <3>1, <3>3
    <3> QED
      BY <3>4 DEF m
  <2>4. /\ r \in Seq(Deltas) /\ r # <<>> /\ Len(r) = n - 1 /\ r[n - 1] = d
        /\ \A i \in 1 .. n - 2 : r[i] = s[i]
    BY <1>1, <1>2, <2>1, <2>3, AppendProperties
  <2>5. s[n - 1].obj = None /\ d.obj = None /\ n - 1 \in 1 .. Len(s)
    BY <1>1, <1>2
  <2>6. ASSUME NEW c, Paired(s, c) PROVE Paired(r, c)
    BY <1>1, <1>2, <2>4, <2>5, <2>6 DEF Paired
  <2> QED
    BY <1>1, <1>2, <2>4, <2>6 DEF Last
<1>3. CASE ~(n >= 2 /\ t[n].obj = None /\ t[n - 1].obj = None)
  <2>1. r = t
    BY <1>3 DEF Dedup
  <2>2. ASSUME NEW c, Paired(s, c), d.obj = None /\ s = <<>> => c # None
        PROVE  Paired(t, c)
    <3> SUFFICES ASSUME NEW i \in 1 .. n, t[i].obj = None
                 PROVE  IF i = 1 THEN c # None ELSE t[i - 1].obj # None
      BY DEF Paired
    <3>1. CASE i <= Len(s)
      BY <1>1, <2>2, <3>1 DEF Paired
    <3>2. CASE i = n /\ n >= 2
      BY <1>1, <1>3, <3>2
    <3>3. CASE i = n /\ n = 1
      BY <1>1, <2>2, <3>3, EmptySeq
    <3> QED
      BY <1>1, <3>1, <3>2, <3>3
  <2>3. t # <<>>
    BY AppendProperties
  <2> QED
    BY <1>1, <2>1, <2>2, <2>3 DEF Last
<1> QED
  BY <1>2, <1>3

FifoType ==
    /\ items \in [Keys -> Seq(Deltas)]
    /\ queue \in Seq(Keys)
    /\ \A k \in Keys : items[k] # <<>> <=> \E i \in 1 .. Len(queue) : queue[i] = k
    /\ \A i, j \in 1 .. Len(queue) : queue[i] = queue[j] => i = j

LEMMA FifoTyped ==
  FifoType <=>
    /\ items \in [Keys -> Seq(Deltas)]
    /\ queue \in Seq(Keys)
    /\ \A k \in Keys : items[k] # <<>> <=> k \in ToSet(queue)
    /\ IsInjective(queue)
<1> SUFFICES ASSUME queue \in Seq(Keys)
             PROVE  /\ \A k : k \in ToSet(queue)
                                <=> \E i \in 1 .. Len(queue) : queue[i] = k
                    /\ IsInjective(queue)
                         <=> \A i, j \in 1 .. Len(queue) :
                               queue[i] = queue[j] => i = j
  BY DEF FifoType
<1>1. DOMAIN queue = 1 .. Len(queue)
  BY LenProperties
<1> QED
  BY <1>1 DEF ToSet, IsInjective

\* What queueActionLocked leaves behind.
LEMMA QueueKeys ==
  ASSUME FifoType, NEW new, DOMAIN new \subseteq Keys,
         \A k \in DOMAIN new : new[k] \in Deltas,
         Queue(new), IsFiniteSet(Keys)
  PROVE  /\ FifoType'
         /\ Len(queue) \in Nat
         /\ Len(queue') = Len(queue)
              + Cardinality({k \in DOMAIN new : items[k] = <<>>})
         /\ Len(queue') \in Nat /\ Len(queue') >= Len(queue)
         /\ \A i \in 1 .. Len(queue) : queue'[i] = queue[i]
         /\ \A k \in Keys \ DOMAIN new : items'[k] = items[k]
         /\ \A k \in DOMAIN new :
              /\ items'[k] = Dedup(Append(items[k], new[k]))
              /\ items'[k] # <<>> /\ Last(items'[k]) = new[k]
<1> DEFINE S == {k \in DOMAIN new : items[k] = <<>>}
           fresh == SetToSeq(S)
<1>1. IsFiniteSet(S)
  BY FS_Subset
<1>2. /\ fresh \in Seq(S)
      /\ Len(fresh) = Cardinality(S) /\ Len(fresh) \in Nat
      /\ \A i, j \in 1 .. Len(fresh) : fresh[i] = fresh[j] => i = j
      /\ \A x \in S : \E i \in 1 .. Len(fresh) : fresh[i] = x
  BY <1>1, SetToSeqLists
<1>12. S \subseteq Keys /\ \A k \in S : k \in DOMAIN new /\ items[k] = <<>>
  OBVIOUS
<1> HIDE DEF S, fresh
<1>3. fresh \in Seq(Keys) /\ \A i \in 1 .. Len(fresh) : fresh[i] \in S
  BY <1>2, <1>12, SeqMonotonic, ElementOfSeq
<1>4. /\ items' = [k \in Keys |-> IF k \in DOMAIN new
                                 THEN Dedup(Append(items[k], new[k]))
                                 ELSE items[k]]
      /\ queue' = queue \o fresh
  BY DEF Queue, S, fresh
<1>5. /\ queue' \in Seq(Keys) /\ Len(queue) \in Nat
      /\ Len(queue') = Len(queue) + Len(fresh)
      /\ \A i \in 1 .. Len(queue) : queue'[i] = queue[i]
      /\ \A i \in 1 .. Len(fresh) : queue'[Len(queue) + i] = fresh[i]
      /\ \A i \in 1 .. Len(queue') :
           \/ i \in 1 .. Len(queue)
           \/ /\ i - Len(queue) \in 1 .. Len(fresh)
              /\ queue'[i] = fresh[i - Len(queue)]
  <2>1. queue \in Seq(Keys) /\ Len(queue) \in Nat
    BY LenProperties DEF FifoType
  <2>2. /\ queue \o fresh \in Seq(Keys)
        /\ Len(queue \o fresh) = Len(queue) + Len(fresh)
        /\ \A i \in 1 .. Len(queue) + Len(fresh) :
             (queue \o fresh)[i] = IF i <= Len(queue) THEN queue[i]
                                   ELSE fresh[i - Len(queue)]
    BY <1>3, <2>1, ConcatProperties
  <2> QED
    BY <1>2, <1>4, <2>1, <2>2
<1>6. ASSUME NEW k \in DOMAIN new
      PROVE  /\ items'[k] = Dedup(Append(items[k], new[k]))
             /\ items'[k] \in Seq(Deltas)
             /\ items'[k] # <<>> /\ Last(items'[k]) = new[k]
  <2>1. items[k] \in Seq(Deltas) /\ new[k] \in Deltas /\ k \in Keys
    BY DEF FifoType
  <2>2. items'[k] = Dedup(Append(items[k], new[k]))
    BY <1>4, <2>1
  <2> QED
    BY <2>1, <2>2, DedupAppend
<1>7. \A k \in Keys \ DOMAIN new : items'[k] = items[k]
  BY <1>4
<1>8. items' \in [Keys -> Seq(Deltas)]
  BY <1>4, <1>6, <1>7 DEF FifoType
<1>9. ASSUME NEW k \in Keys
      PROVE  items'[k] # <<>> <=> \E i \in 1 .. Len(queue') : queue'[i] = k
  <2>1. CASE items[k] # <<>>
    <3>1. PICK i \in 1 .. Len(queue) : queue[i] = k
      BY <2>1 DEF FifoType
    <3>2. i \in 1 .. Len(queue') /\ queue'[i] = k
      BY <1>2, <1>5, <3>1
    <3> QED
      BY <1>6, <1>7, <2>1, <3>2
  <2>2. CASE items[k] = <<>> /\ k \in DOMAIN new
    <3>1. PICK i \in 1 .. Len(fresh) : fresh[i] = k
      BY <1>2, <2>2 DEF S
    <3>2. Len(queue) + i \in 1 .. Len(queue') /\ queue'[Len(queue) + i] = k
      BY <1>2, <1>5, <3>1
    <3> QED
      BY <1>6, <2>2, <3>2
  <2>3. CASE items[k] = <<>> /\ k \notin DOMAIN new
    <3>1. items'[k] = <<>>
      BY <1>7, <2>3
    <3>2. ASSUME NEW i \in 1 .. Len(queue') PROVE queue'[i] # k
      <4>1. CASE i \in 1 .. Len(queue)
        BY <1>5, <2>3, <4>1 DEF FifoType
      <4>2. CASE i - Len(queue) \in 1 .. Len(fresh)
        <5>1. queue'[i] = fresh[i - Len(queue)]
          BY <1>2, <1>5, <4>2
        <5> QED
          BY <1>3, <1>12, <2>3, <4>2, <5>1
      <4> QED
        BY <1>5, <4>1, <4>2
    <3> QED
      BY <3>1, <3>2
  <2> QED
    BY <2>1, <2>2, <2>3
<1>10. ASSUME NEW i \in 1 .. Len(queue'), NEW j \in 1 .. Len(queue'),
              queue'[i] = queue'[j]
       PROVE  i = j
  <2>1. ASSUME NEW x \in 1 .. Len(queue), NEW y \in 1 .. Len(fresh)
        PROVE  queue[x] # fresh[y]
    <3>1. queue[x] \in Keys /\ items[queue[x]] # <<>>
      BY ElementOfSeq DEF FifoType
    <3> QED
      BY <1>3, <1>12, <3>1
  <2>2. CASE i \in 1 .. Len(queue) /\ j \in 1 .. Len(queue)
    BY <1>5, <1>10, <2>2 DEF FifoType
  <2>3. CASE i - Len(queue) \in 1 .. Len(fresh) /\ j - Len(queue) \in 1 .. Len(fresh)
    <3>1. queue'[i] = fresh[i - Len(queue)] /\ queue'[j] = fresh[j - Len(queue)]
      BY <1>5, <2>3
    <3>2. i - Len(queue) = j - Len(queue)
      BY <1>2, <1>10, <2>3, <3>1
    <3> QED
      BY <1>5, <3>2
  <2>4. CASE i \in 1 .. Len(queue) /\ j - Len(queue) \in 1 .. Len(fresh)
    <3>1. queue'[i] = queue[i] /\ queue'[j] = fresh[j - Len(queue)]
      BY <1>5, <2>4
    <3> QED
      BY <1>10, <2>1, <2>4, <3>1
  <2>5. CASE i - Len(queue) \in 1 .. Len(fresh) /\ j \in 1 .. Len(queue)
    <3>1. queue'[j] = queue[j] /\ queue'[i] = fresh[i - Len(queue)]
      BY <1>5, <2>5
    <3> QED
      BY <1>10, <2>1, <2>5, <3>1
  <2> QED
    BY <1>5, <2>2, <2>3, <2>4, <2>5
<1>11. FifoType'
  BY <1>5, <1>8, <1>9, <1>10 DEF FifoType
<1>13. Len(fresh) = Cardinality({k \in DOMAIN new : items[k] = <<>>})
  BY <1>2 DEF S
<1> QED
  BY <1>2, <1>5, <1>6, <1>7, <1>11, <1>13

-----------------------------------------------------------------------------
(* The invariant with the log as an argument of what is stored, so that    *)
(* the states before and after a step can be compared.                     *)

Types ==
    /\ log \in Seq(Writes) /\ Len(log) \in Nat
    /\ held \in [key : Keys, obj : Apps] \cup {None}
    /\ watching \in BOOLEAN /\ unavailable \in BOOLEAN /\ populated \in BOOLEAN
    /\ lastSync \in 0 .. Len(log)
    /\ FifoType
    /\ initial \in 0 .. Len(queue)
    /\ cache \in [Keys -> Apps \cup {None}]
    /\ changes \in [Keys -> Nat] /\ moment \in [Keys -> Nat]
    /\ firstList \in Nat
    /\ ghosts \subseteq Keys
    /\ left \in [Disturbances -> Nat]

CacheShows(k) ==
    /\ moment[k] <= lastSync
    /\ cache[k] = StoredIn(log, k, moment[k])

DeltaShows(k) ==
    items[k] # <<>> =>
        /\ Last(items[k]).at \in moment[k] .. lastSync
        /\ Last(items[k]).obj = StoredIn(log, k, Last(items[k]).at)

Counted(k) == \E i \in 1 .. initial : queue[i] = k

FirstListIn ==
    /\ ~populated => queue = <<>> /\ ~watching /\ initial = 0
    /\ firstList <= lastSync
    /\ populated =>
         /\ \A i \in 1 .. initial : Last(items[queue[i]]).at >= firstList
         /\ \A k \in Keys : \/ moment[k] >= firstList
                           \/ StoredIn(log, k, firstList) = None
                           \/ Counted(k)

Tracks(k) ==
    (IF items[k] = <<>> THEN cache[k] ELSE Last(items[k]).obj)
        = StoredIn(log, k, lastSync)

CountsChanges(k) ==
    LET app == StoredIn(log, k, Len(log)) IN app # None => app.n = changes[k]

Inv ==
    /\ Types
    /\ VersionsIdentify
    /\ \A k \in Keys : CacheShows(k) /\ DeltaShows(k)
    /\ FirstListIn
    /\ \A k \in Keys \ ghosts : Tracks(k)
    /\ \A k \in Keys : Paired(items[k], cache[k])
    /\ \A k \in Keys : CountsChanges(k)

InvIsIInv == IInv <=> Inv

LEMMA Before == InvIsIInv
<1>1. TypeOK <=> Types
  BY FifoTyped, LenProperties DEF TypeOK, Types
<1>2. CacheIsPast <=> \A k \in Keys : CacheShows(k) /\ DeltaShows(k)
  BY StoredIsStoredIn DEF CacheIsPast, CacheShows, DeltaShows
<1>3. ListUnderWay <=> FirstListIn
  BY StoredIsStoredIn DEF ListUnderWay, FirstListIn, Counted
<1>4. FifoTracksLog <=> \A k \in Keys \ ghosts : Tracks(k)
  BY StoredIsStoredIn DEF FifoTracksLog, Tracks, Latest
<1>5. DeletionsArePaired <=> \A k \in Keys : Paired(items[k], cache[k])
  BY DEF DeletionsArePaired, Paired
<1>6. NoLostUpdate <=> \A k \in Keys : CountsChanges(k)
  BY StoredIsStoredIn DEF NoLostUpdate, CountsChanges, Stored
<1> QED
  BY <1>1, <1>2, <1>3, <1>4, <1>5, <1>6 DEF InvIsIInv, IInv, Inv

LEMMA After == InvIsIInv'
BY Before, PTL

-----------------------------------------------------------------------------
(* Clients.                                                                *)

\* Writes at the server leave the informer's share of the invariant alone.
LEMMA ServerStep ==
  ASSUME Inv, UNCHANGED informer,
         log' \in Seq(Writes), Len(log') \in Nat, Len(log') >= Len(log),
         \A i \in 1 .. Len(log) : log'[i] = log[i],
         held' \in [key : Keys, obj : Apps] \cup {None},
         changes' \in [Keys -> Nat], left' \in [Disturbances -> Nat]
  PROVE  /\ Types'
         /\ \A k \in Keys : CacheShows(k)' /\ DeltaShows(k)'
         /\ FirstListIn'
         /\ \A k \in Keys \ ghosts' : Tracks(k)'
         /\ \A k \in Keys : Paired(items[k], cache[k])'
<1> USE DEF informer, reflector, fifo
<1>1. Types
  BY DEF Inv
<1>2. FifoType'
  BY <1>1 DEF Types, FifoType
<1>3. Types'
  BY <1>1, <1>2 DEF Types
<1>4. \A k, p : p \in 0 .. lastSync => StoredIn(log', k, p) = StoredIn(log, k, p)
  BY <1>1, StoredStays DEF Types
<1>5. ASSUME NEW k \in Keys
      PROVE  CacheShows(k)' /\ DeltaShows(k)'
  <2>1. /\ CacheShows(k) /\ DeltaShows(k) /\ moment[k] \in Nat /\ lastSync \in Nat
        /\ items[k] \in Seq(Deltas)
    BY <1>1 DEF Inv, Types, FifoType
  <2>2. UNCHANGED <<items, cache, moment, lastSync>>
    OBVIOUS
  <2>3. moment[k] \in 0 .. lastSync /\ CacheShows(k)'
    BY <1>4, <2>1, <2>2 DEF CacheShows
  <2>4. CASE items[k] # <<>>
    <3>1. Last(items[k]).at \in 0 .. lastSync
      BY <2>1, <2>3, <2>4 DEF DeltaShows
    <3>2. StoredIn(log', k, Last(items[k]).at) = StoredIn(log, k, Last(items[k]).at)
      BY <1>4, <3>1
    <3> QED
      BY <2>1, <2>2, <2>3, <2>4, <3>2 DEF DeltaShows
  <2> QED
    BY <2>2, <2>3, <2>4 DEF DeltaShows
<1>6. FirstListIn'
  <2>1. FirstListIn /\ firstList \in 0 .. lastSync
    BY <1>1 DEF Inv, Types, FirstListIn
  <2>2. \A k : StoredIn(log', k, firstList) = StoredIn(log, k, firstList)
    BY <1>4, <2>1
  <2> QED
    BY <2>1, <2>2 DEF FirstListIn, Counted
<1>7. ASSUME NEW k \in Keys \ ghosts'
      PROVE  Tracks(k)'
  <2>1. Tracks(k) /\ lastSync \in 0 .. lastSync
    BY <1>1 DEF Inv, Types
  <2>2. StoredIn(log', k, lastSync) = StoredIn(log, k, lastSync)
    BY <1>4, <2>1
  <2>3. UNCHANGED <<items, cache, lastSync>>
    OBVIOUS
  <2> QED
    BY <2>1, <2>2, <2>3 DEF Tracks
<1>8. ASSUME NEW k \in Keys
      PROVE  Paired(items[k], cache[k])'
  BY DEF Inv
<1> QED
  BY <1>3, <1>5, <1>6, <1>7, <1>8

\* A client that only reads, and what it has read is somewhere in the log.
LEMMA HeldStep ==
  ASSUME Inv, UNCHANGED <<log, informer, changes, left>>,
         \/ held' = None
         \/ \E i \in 1 .. Len(log) : log[i].obj # None /\ held' = log[i]
  PROVE  Inv'
<1>1. Types /\ VersionsIdentify
  BY DEF Inv
<1>2. /\ held' \in [key : Keys, obj : Apps] \cup {None}
      /\ held' # None => held'.obj.rv \in 1 .. Len(log)
                          /\ log[held'.obj.rv] = held'
  <2>1. CASE held' = None
    BY <2>1
  <2>2. CASE held' # None
    <3>1. PICK i \in 1 .. Len(log) : log[i].obj # None /\ held' = log[i]
      BY <2>2
    <3>2. log[i] \in Writes /\ log[i].obj.rv = i
      BY <1>1, <3>1 DEF Types, VersionsIdentify
    <3> QED
      BY <3>1, <3>2 DEF Writes
  <2> QED
    BY <2>1, <2>2
<1>3. VersionsIdentify'
  BY <1>1, <1>2 DEF VersionsIdentify
<1>4. /\ Types'
      /\ \A k \in Keys : CacheShows(k)' /\ DeltaShows(k)'
      /\ FirstListIn'
      /\ \A k \in Keys \ ghosts' : Tracks(k)'
      /\ \A k \in Keys : Paired(items[k], cache[k])'
  BY <1>1, <1>2, ServerStep DEF Types
<1>5. \A k \in Keys : CountsChanges(k)'
  BY DEF Inv, CountsChanges
<1> QED
  BY <1>3, <1>4, <1>5 DEF Inv

LEMMA SpendStep ==
  ASSUME Inv, NEW d \in Disturbances, NEW n \in Nat, Spend(d, n)
  PROVE  left' \in [Disturbances -> Nat]
<1>1. left \in [Disturbances -> Nat]
  BY DEF Inv, Types
<1>2. left' = [left EXCEPT ![d] = left[d] - n] /\ left[d] - n \in Nat
  BY <1>1 DEF Spend
<1> QED
  BY <1>1, <1>2

LEMMA ReadStep ==
  ASSUME Inv, NEW k \in Keys, NEW p \in 0 .. Len(log),
         Read(k, StoredIn(log, k, p))
  PROVE  Inv'
<1>1. Types
  BY DEF Inv
<1>2. StoredIn(log, k, p) # None
  BY DEF Read
<1>3. PICK i \in 1 .. p : log[i].key = k /\ log[i].obj = StoredIn(log, k, p)
  BY <1>1, <1>2, StoredInType DEF Types
<1>4. i \in 1 .. Len(log) /\ log[i] = [key |-> k, obj |-> StoredIn(log, k, p)]
  <2>1. i \in 1 .. Len(log) /\ log \in Seq(Writes)
    BY <1>1, <1>3 DEF Types
  <2>2. log[i] \in Writes
    BY <2>1, ElementOfSeq
  <2> QED
    BY <1>3, <2>1, <2>2 DEF Writes
<1>5. held' = log[i] /\ UNCHANGED <<log, informer, changes, left>>
  BY <1>4 DEF Read
<1> QED
  BY <1>2, <1>3, <1>4, <1>5, HeldStep

LEMMA RefusedStep ==
  ASSUME Inv, Refused
  PROVE  Inv'
BY HeldStep DEF Refused

\* A write that leaves k with a counter that agrees with its changes.
LEMMA PutStep ==
  ASSUME Inv, NEW k \in Keys, NEW n \in Nat,
         Put(k, n), changes' = [changes EXCEPT ![k] = n]
  PROVE  Inv'
<1> DEFINE obj == [n |-> n, rv |-> Len(log) + 1]
           entry == [key |-> k, obj |-> obj]
           m == Len(log)
<1>1. Types /\ VersionsIdentify
  BY DEF Inv
<1>2. obj \in Apps /\ entry \in Writes /\ entry \in [key : Keys, obj : Apps]
  BY <1>1 DEF Types, Apps, Writes
<1>3. log' = Append(log, entry) /\ held' = entry /\ UNCHANGED informer
  BY DEF Put
<1>4. /\ log' \in Seq(Writes) /\ Len(log') = m + 1 /\ Len(log') \in Nat
      /\ \A i \in 1 .. m : log'[i] = log[i]
      /\ log'[m + 1] = entry
  BY <1>1, <1>2, <1>3, AppendProperties DEF Types
<1>5. left' \in [Disturbances -> Nat]
  BY SpendStep DEF Put, Disturbances
<1>6. changes' \in [Keys -> Nat]
  BY <1>1 DEF Types
<1>7. /\ Types'
      /\ \A j \in Keys : CacheShows(j)' /\ DeltaShows(j)'
      /\ FirstListIn'
      /\ \A j \in Keys \ ghosts' : Tracks(j)'
      /\ \A j \in Keys : Paired(items[j], cache[j])'
  <2>1. Len(log') >= Len(log)
    BY <1>1, <1>4 DEF Types
  <2>2. held' \in [key : Keys, obj : Apps] \cup {None}
    BY <1>2, <1>3
  <2> QED
    BY <1>3, <1>4, <1>5, <1>6, <2>1, <2>2, ServerStep
<1>8. VersionsIdentify'
  <2>1. m \in Nat /\ m + 1 \in 1 .. Len(log')
    BY <1>1, <1>4 DEF Types
  <2>2. \A i \in 1 .. m + 1 : i \in 1 .. m \/ i = m + 1
    BY <2>1
  <2>3. \A i \in 1 .. Len(log') : log'[i].obj # None => log'[i].obj.rv = i
    BY <1>1, <1>4, <2>2 DEF VersionsIdentify
  <2> QED
    BY <1>3, <1>4, <2>1, <2>3 DEF VersionsIdentify
<1>9. ASSUME NEW j \in Keys PROVE CountsChanges(j)'
  <2>1. m \in Nat /\ CountsChanges(j)
    BY <1>1 DEF Types, Inv
  <2>2. StoredIn(log', j, m + 1) = IF j = k THEN obj ELSE StoredIn(log', j, m)
    <3>1. StoredIn(log', j, m + 1) = IF log'[m + 1].key = j THEN log'[m + 1].obj
                                     ELSE StoredIn(log', j, m)
      BY <2>1, StoredNext
    <3> QED
      BY <1>4, <3>1
  <2>3. StoredIn(log', j, m) = StoredIn(log, j, m)
    BY <1>4, <2>1, StoredStays
  <2> QED
    BY <1>1, <1>4, <2>1, <2>2, <2>3 DEF CountsChanges, Types
<1> QED
  BY <1>7, <1>8, <1>9 DEF Inv

LEMMA CreateStep ==
  ASSUME Inv, NEW k \in Keys, Create(k)
  PROVE  Inv'
BY PutStep DEF Create

LEMMA PatchStep ==
  ASSUME Inv, NEW k \in Keys, Patch(k)
  PROVE  Inv'
<1>1. Stored(k) = StoredIn(log, k, Len(log)) /\ Stored(k) # None
  BY StoredIsStoredIn DEF Stored, Patch
<1>2. Stored(k) \in Apps /\ Stored(k).n = changes[k]
  <2>1. log \in Seq(Writes) /\ Len(log) \in 0 .. Len(log) /\ CountsChanges(k)
    BY DEF Inv, Types
  <2>2. StoredIn(log, k, Len(log)) \in Apps \cup {None}
    BY <2>1, StoredInType
  <2> QED
    BY <1>1, <2>1, <2>2 DEF CountsChanges
<1>3. changes' = [changes EXCEPT ![k] = Stored(k).n + 1]
  BY <1>2 DEF Patch, Count
<1>4. Stored(k).n + 1 \in Nat /\ Put(k, Stored(k).n + 1)
  BY <1>1, <1>2 DEF Patch, Apps
<1> QED
  BY <1>3, <1>4, PutStep

\* The update is accepted only if the client holds what is stored.
LEMMA UpdateStep ==
  ASSUME Inv, Update
  PROVE  Inv'
<1> DEFINE k == held.key
<1>1. /\ held \in [key : Keys, obj : Apps]
      /\ held.obj.rv \in 1 .. Len(log) /\ log[held.obj.rv] = held
  BY DEF Inv, Types, VersionsIdentify, Update
<1>2. CASE ~(Stored(k) # None /\ Stored(k).rv = held.obj.rv)
  BY <1>2, RefusedStep DEF Update
<1>3. CASE Stored(k) # None /\ Stored(k).rv = held.obj.rv
  <2>1. Stored(k) = StoredIn(log, k, Len(log))
    BY StoredIsStoredIn DEF Stored
  <2>2. PICK i \in 1 .. Len(log) : log[i].key = k /\ log[i].obj = Stored(k)
    <3>1. log \in Seq(Writes) /\ Len(log) \in 0 .. Len(log)
      BY DEF Inv, Types
    <3> QED
      BY <1>3, <2>1, <3>1, StoredInType
  <2>3. Stored(k).rv = i
    BY <1>3, <2>2 DEF Inv, VersionsIdentify
  <2>4. Stored(k) = held.obj
    BY <1>1, <1>3, <2>2, <2>3
  <2>5. held.obj.n = changes[k] /\ k \in Keys /\ held.obj.n \in Nat
    BY <1>1, <1>3, <2>1, <2>4 DEF Inv, CountsChanges, Apps
  <2>6. changes' = [changes EXCEPT ![k] = held.obj.n + 1]
    BY <1>3, <2>5 DEF Update, Count
  <2>7. Put(k, held.obj.n + 1) /\ held.obj.n + 1 \in Nat
    BY <1>3, <2>5 DEF Update
  <2> QED
    BY <2>5, <2>6, <2>7, PutStep
<1> QED
  BY <1>2, <1>3

LEMMA EraseStep ==
  ASSUME Inv, NEW gone, gone \subseteq Keys, Erase(gone)
  PROVE  Inv'
<1> DEFINE keys == SetToSeq(gone)
           m == Len(log)
           l == Len(keys)
           tail == [i \in DOMAIN keys |-> [key |-> keys[i], obj |-> None]]
<1>1. Types /\ VersionsIdentify /\ m \in Nat
  BY DEF Inv, Types
<1>2. IsFiniteSet(gone)
  BY InformerAssumption, FS_Subset
<1>3. /\ keys \in Seq(gone) /\ l \in Nat /\ DOMAIN keys = 1 .. l
      /\ \A x \in gone : \E i \in 1 .. l : keys[i] = x
  BY <1>2, SetToSeqLists
<1>4. Cardinality(gone) \in Nat
  BY <1>2, FS_CardinalityType
<1>5. log' = log \o tail /\ UNCHANGED <<held, informer, changes>>
  BY DEF Erase
<1> HIDE DEF keys, l
<1>6. \A i \in 1 .. l : keys[i] \in gone
  BY <1>3, ElementOfSeq DEF l
<1>7. tail \in Seq(Writes) /\ Len(tail) = l
  <2>1. \A i \in 1 .. l : [key |-> keys[i], obj |-> None] \in Writes
    BY <1>6 DEF Writes
  <2>2. tail \in [1 .. l -> Writes]
    BY <1>3, <2>1
  <2> QED
    BY <1>3, <2>2
<1>8. /\ log' \in Seq(Writes) /\ Len(log') = m + l /\ Len(log') \in Nat
      /\ \A i \in 1 .. m : log'[i] = log[i]
      /\ \A i \in m + 1 .. m + l :
           /\ i - m \in 1 .. l
           /\ log'[i] = [key |-> keys[i - m], obj |-> None]
  <2> HIDE DEF tail
  <2>1. /\ log \o tail \in Seq(Writes)
        /\ Len(log \o tail) = m + l
        /\ \A i \in 1 .. m + l :
             (log \o tail)[i] = IF i <= m THEN log[i] ELSE tail[i - m]
    BY <1>1, <1>7, ConcatProperties DEF Types
  <2>2. \A i \in 1 .. l : tail[i] = [key |-> keys[i], obj |-> None]
    BY <1>3 DEF tail
  <2>3. \A i \in m + 1 .. m + l : i - m \in 1 .. l /\ ~(i <= m) /\ i \in 1 .. m + l
    BY <1>1, <1>3
  <2>4. \A i \in 1 .. m : i \in 1 .. m + l
    BY <1>1, <1>3
  <2>5. /\ log' \in Seq(Writes) /\ Len(log') = m + l /\ m + l \in Nat
    BY <1>1, <1>3, <1>5, <2>1
  <2>6. \A i \in 1 .. m : log'[i] = log[i]
    BY <1>1, <1>5, <2>1, <2>4
  <2>7. ASSUME NEW i \in m + 1 .. m + l
        PROVE  i - m \in 1 .. l /\ log'[i] = [key |-> keys[i - m], obj |-> None]
    <3>1. log'[i] = tail[i - m]
      BY <1>5, <2>1, <2>3
    <3> QED
      BY <2>2, <2>3, <3>1
  <2> QED
    BY <2>5, <2>6, <2>7
<1>13. ASSUME NEW i \in m + 1 .. m + l
       PROVE  /\ log'[i].key = keys[i - m] /\ log'[i].key \in gone
              /\ log'[i].obj = None
  <2>1. i - m \in 1 .. l /\ log'[i] = [key |-> keys[i - m], obj |-> None]
    BY <1>8
  <2> QED
    BY <1>6, <2>1
<1> HIDE DEF tail, m
<1>9. left' \in [Disturbances -> Nat]
  BY <1>4, SpendStep DEF Erase, Disturbances
<1>10. /\ Types'
       /\ \A j \in Keys : CacheShows(j)' /\ DeltaShows(j)'
       /\ FirstListIn'
       /\ \A j \in Keys \ ghosts' : Tracks(j)'
       /\ \A j \in Keys : Paired(items[j], cache[j])'
  <2>1. Len(log') >= Len(log)
    BY <1>1, <1>3, <1>8 DEF m
  <2>2. held' \in [key : Keys, obj : Apps] \cup {None}
        /\ changes' \in [Keys -> Nat]
    BY <1>1, <1>5 DEF Types
  <2> QED
    BY <1>5, <1>8, <1>9, <2>1, <2>2, ServerStep DEF m
<1>11. VersionsIdentify'
  <2>1. \A i \in 1 .. m + l : i \in 1 .. m \/ i \in m + 1 .. m + l
    BY <1>1, <1>3
  <2>2. \A i \in 1 .. Len(log') : log'[i].obj # None => log'[i].obj.rv = i
    BY <1>1, <1>8, <1>13, <2>1 DEF VersionsIdentify, m
  <2>3. \A i \in 1 .. m : i \in 1 .. m + l
    BY <1>1, <1>3
  <2> QED
    BY <1>1, <1>5, <1>8, <2>2, <2>3 DEF VersionsIdentify, m
<1>12. ASSUME NEW j \in Keys PROVE CountsChanges(j)'
  <2>0. m + l \in Nat /\ m <= m + l
    BY <1>1, <1>3
  <2>1. CASE j \in gone
    <3>1. PICK i \in 1 .. l : keys[i] = j
      BY <1>3, <2>1
    <3>2. PICK d \in m + 1 .. m + l : d - m = i
      BY <1>1, <1>3
    <3>3. log'[d].key = j /\ \A x \in m + 1 .. m + l : log'[x].obj = None
      BY <1>13, <3>1, <3>2
    <3>4. StoredIn(log', j, m + l) = None
      BY <1>1, <2>0, <3>3, StoredAfterDeletion
    <3> QED
      BY <1>8, <3>4 DEF CountsChanges
  <2>2. CASE j \notin gone
    <3>1. \A i \in m + 1 .. m + l : log'[i].key # j
      BY <1>13, <2>2
    <3>2. StoredIn(log', j, m + l) = StoredIn(log, j, m)
      BY <1>1, <1>8, <2>0, <3>1, StoredAfterOthers
    <3>3. CountsChanges(j)
      BY DEF Inv
    <3> QED
      BY <1>5, <1>8, <3>2, <3>3 DEF CountsChanges, m
  <2> QED
    BY <2>1, <2>2
<1> QED
  BY <1>10, <1>11, <1>12 DEF Inv

LEMMA ClientStep ==
  ASSUME Inv, Client
  PROVE  Inv'
<1>1. \A k \in Keys : Stored(k) = StoredIn(log, k, Len(log))
  BY StoredIsStoredIn DEF Stored
<1>2. Len(log) \in 0 .. Len(log)
  BY DEF Inv, Types
<1>3. ASSUME NEW k \in Keys, ListerGet(k) PROVE Inv'
  <2>1. moment[k] \in 0 .. Len(log) /\ cache[k] = StoredIn(log, k, moment[k])
    BY DEF Inv, Types, CacheShows
  <2> QED
    BY <1>3, <2>1, ReadStep DEF ListerGet
<1>4. CASE ListApps
  BY <1>1, <1>2, <1>4, ReadStep DEF ListApps, Get
<1>5. ASSUME NEW k \in Keys, Delete(k) PROVE Inv'
  BY <1>5, EraseStep DEF Delete
<1>6. CASE DeleteCollection
  BY <1>6, EraseStep DEF DeleteCollection
<1>7. CASE UpdateStatus
  BY <1>7, RefusedStep DEF UpdateStatus
<1> QED
  BY <1>3, <1>4, <1>5, <1>6, <1>7, CreateStep, PatchStep, UpdateStep DEF Client

-----------------------------------------------------------------------------
(* The reflector.                                                          *)

LEMMA LastDelta ==
  ASSUME NEW s \in Seq(Deltas), s # <<>>
  PROVE  Last(s) \in Deltas /\ Last(s).obj \in Apps \cup {None} /\ Last(s).at \in Nat
<1>1. Len(s) \in 1 .. Len(s)
  BY LenProperties, EmptySeq
<1>2. Last(s) \in Deltas
  BY <1>1, ElementOfSeq DEF Last
<1> QED
  BY <1>2 DEF Deltas

\* What is queued shows the server at a moment that the cache has not passed,
\* and no deletion of nothing.
Sound(new) ==
    /\ DOMAIN new \subseteq Keys
    /\ \A k \in DOMAIN new :
         /\ new[k] \in Deltas
         /\ new[k].at \in moment[k] .. lastSync'
         /\ new[k].obj = StoredIn(log, k, new[k].at)
         /\ items[k] # <<>> => new[k].at >= firstList
         /\ new[k].obj = None /\ items[k] = <<>> => cache[k] # None

LEMMA QueueSound ==
  ASSUME Inv, NEW new, Sound(new), Queue(new),
         UNCHANGED <<log, cache, moment>>, lastSync' \in lastSync .. Len(log)
  PROVE  /\ FifoType'
         /\ Len(queue') \in Nat /\ Len(queue') >= Len(queue)
         /\ \A k \in Keys : CacheShows(k)' /\ DeltaShows(k)'
         /\ \A k \in Keys : Paired(items[k], cache[k])'
         /\ populated /\ populated' /\ UNCHANGED <<initial, firstList>>
              => FirstListIn'
<1>1. Types /\ FifoType /\ IsFiniteSet(Keys)
  BY InformerAssumption DEF Inv, Types
<1>2. /\ FifoType'
      /\ Len(queue) \in Nat
      /\ Len(queue') \in Nat /\ Len(queue') >= Len(queue)
      /\ \A i \in 1 .. Len(queue) : queue'[i] = queue[i]
      /\ \A k \in Keys \ DOMAIN new : items'[k] = items[k]
      /\ \A k \in DOMAIN new :
           /\ items'[k] = Dedup(Append(items[k], new[k]))
           /\ items'[k] # <<>> /\ Last(items'[k]) = new[k]
  BY <1>1, QueueKeys DEF Sound
<1>3. ASSUME NEW k \in Keys PROVE CacheShows(k)' /\ DeltaShows(k)'
  <2>1. CacheShows(k) /\ DeltaShows(k) /\ moment[k] \in Nat /\ lastSync \in Nat
    BY <1>1 DEF Inv, Types
  <2>2. CacheShows(k)'
    BY <2>1 DEF CacheShows
  <2>3. CASE k \in DOMAIN new
    BY <1>2, <2>2, <2>3 DEF Sound, DeltaShows
  <2>4. CASE k \notin DOMAIN new
    <3>1. items'[k] = items[k]
      BY <1>2, <2>4
    <3> QED
      BY <2>1, <2>2, <3>1 DEF DeltaShows
  <2> QED
    BY <2>3, <2>4
<1>4. ASSUME NEW k \in Keys PROVE Paired(items[k], cache[k])'
  <2>1. Paired(items[k], cache[k]) /\ items[k] \in Seq(Deltas)
    BY <1>1 DEF Inv, FifoType
  <2>2. CASE k \in DOMAIN new
    <3>1. Paired(Dedup(Append(items[k], new[k])), cache[k])
      BY <2>1, <2>2, DedupAppend DEF Sound
    <3> QED
      BY <1>2, <2>2, <3>1
  <2>3. CASE k \notin DOMAIN new
    <3>1. items'[k] = items[k]
      BY <1>2, <2>3
    <3> QED
      BY <2>1, <3>1
  <2> QED
    BY <2>2, <2>3
<1>5. ASSUME populated, populated', UNCHANGED <<initial, firstList>>
      PROVE  FirstListIn'
  <2>1. FirstListIn /\ firstList \in Nat /\ lastSync \in Nat /\ initial \in 0 .. Len(queue)
    BY <1>1 DEF Inv, Types
  <2>2. firstList' <= lastSync'
    BY <1>5, <2>1 DEF FirstListIn
  <2>3. ASSUME NEW i \in 1 .. initial'
        PROVE  Last(items'[queue'[i]]).at >= firstList'
    <3>1. i \in 1 .. initial /\ i \in 1 .. Len(queue) /\ queue'[i] = queue[i]
      BY <1>2, <1>5, <2>1
    <3>2. queue[i] \in Keys /\ items[queue[i]] # <<>>
      BY <1>1, <3>1, ElementOfSeq DEF FifoType
    <3>3. Last(items[queue[i]]).at >= firstList
      BY <1>5, <2>1, <3>1 DEF FirstListIn
    <3>4. CASE queue[i] \in DOMAIN new
      BY <1>2, <1>5, <3>1, <3>2, <3>4 DEF Sound
    <3>5. CASE queue[i] \notin DOMAIN new
      BY <1>2, <1>5, <3>1, <3>2, <3>3, <3>5
    <3> QED
      BY <3>4, <3>5
  <2>4. \A k \in Keys : Counted(k) => Counted(k)'
    BY <1>2, <1>5, <2>1 DEF Counted
  <2> QED
    BY <1>5, <2>1, <2>2, <2>3, <2>4 DEF FirstListIn
<1> QED
  BY <1>2, <1>3, <1>4, <1>5

LEMMA SyncStep ==
  ASSUME Inv, NEW v \in lastSync .. Len(log), ~watching, SyncWith(v),
         left' \in [Disturbances -> Nat]
  PROVE  Inv'
<1> DEFINE listed == {k \in Keys : StoredIn(log, k, v) # None}
           gone == DeletedBy(listed)
           new == [k \in listed \cup gone |->
                     [obj |-> StoredIn(log, k, v), at |-> v]]
<1>1. Types /\ FirstListIn /\ FifoType
  BY DEF Inv, Types
<1>2. v \in Nat /\ v \in 0 .. Len(log) /\ lastSync \in Nat /\ lastSync <= v
  BY <1>1 DEF Types
<1>3. /\ lastSync' = v /\ watching' = TRUE /\ unavailable' = FALSE
      /\ Queue(new)
      /\ Populate(Cardinality(listed \cup gone))
      /\ ghosts' = (ghosts \ (listed \cup gone)) \cup Overlooked(listed)
      /\ UNCHANGED <<log, held, cache, changes, moment>>
  BY StoredIsStoredIn DEF SyncWith
<1>4. /\ gone \subseteq Keys /\ listed \subseteq Keys
      /\ \A k \in gone : cache[k] # None
      /\ \A k \in Keys : k \notin listed /\ k \notin gone =>
           cache[k] = None /\ StoredIn(log, k, v) = None
  BY DEF DeletedBy
<1>5. \A k \in Keys : moment[k] <= lastSync /\ moment[k] \in Nat
  BY <1>1 DEF Inv, CacheShows, Types
<1>6. /\ DOMAIN new = listed \cup gone
      /\ \A k \in DOMAIN new : new[k].obj = StoredIn(log, k, v) /\ new[k].at = v
  OBVIOUS
<1>7. \A k \in DOMAIN new : new[k] \in Deltas
  <2>1. \A k : StoredIn(log, k, v) \in Apps \cup {None}
    BY <1>1, <1>2, StoredInType DEF Types
  <2> QED
    BY <1>2, <2>1 DEF Deltas
<1> HIDE DEF listed, gone, new
<1>8. Sound(new)
  <2>1. firstList <= v
    BY <1>1, <1>2 DEF FirstListIn, Types
  <2>2. ASSUME NEW k \in DOMAIN new
        PROVE  /\ new[k].at \in moment[k] .. lastSync'
               /\ new[k].obj = StoredIn(log, k, new[k].at)
               /\ items[k] # <<>> => new[k].at >= firstList
               /\ new[k].obj = None /\ items[k] = <<>> => cache[k] # None
    <3>1. k \in Keys
      BY <1>4, <1>6
    <3>2. v \in moment[k] .. lastSync'
      BY <1>2, <1>3, <1>5, <3>1
    <3>3. StoredIn(log, k, v) = None => cache[k] # None
      BY <1>4, <1>6 DEF listed
    <3>4. v >= firstList
      BY <1>1, <1>2, <2>1 DEF Types
    <3> QED
      BY <1>6, <3>2, <3>3, <3>4
  <2> QED
    BY <1>4, <1>6, <1>7, <2>2 DEF Sound
<1>9. lastSync' \in lastSync .. Len(log)
  BY <1>3
<1>10. /\ FifoType'
       /\ Len(queue') \in Nat /\ Len(queue') >= Len(queue)
       /\ \A k \in Keys : CacheShows(k)' /\ DeltaShows(k)'
       /\ \A k \in Keys : Paired(items[k], cache[k])'
       /\ populated /\ populated' /\ UNCHANGED <<initial, firstList>>
            => FirstListIn'
  BY <1>3, <1>8, <1>9, QueueSound
<1>11. /\ Len(queue') = Len(queue)
            + Cardinality({k \in DOMAIN new : items[k] = <<>>})
       /\ \A k \in Keys \ DOMAIN new : items'[k] = items[k]
       /\ \A k \in DOMAIN new : items'[k] # <<>> /\ Last(items'[k]) = new[k]
  BY <1>1, <1>3, <1>8, QueueKeys, InformerAssumption DEF Sound
<1>12. populated' = TRUE /\ firstList' \in Nat /\ initial' \in 0 .. Len(queue') /\ FirstListIn'
  <2>1. CASE populated
    <3>1. populated' /\ UNCHANGED <<initial, firstList>>
      BY <1>3, <2>1 DEF Populate
    <3> QED
      BY <1>1, <1>3, <1>10, <2>1, <3>1 DEF Types, Populate
  <2>2. CASE ~populated
    <3>1. queue = <<>> /\ Len(queue) = 0
      BY <1>1, <2>2 DEF FirstListIn
    <3>2. \A k \in Keys : items[k] = <<>>
      BY <1>1, <3>1 DEF FifoType
    <3>3. {k \in DOMAIN new : items[k] = <<>>} = listed \cup gone
      BY <1>4, <1>6, <3>2
    <3>4. initial' = Len(queue') /\ firstList' = v /\ populated'
      <4>1. /\ initial' = Cardinality(listed \cup gone)
            /\ firstList' = lastSync' /\ populated'
        BY <1>3, <2>2 DEF Populate
      <4>2. Len(queue') = 0 + Cardinality(listed \cup gone)
        BY <1>11, <3>1, <3>3
      <4>3. IsFiniteSet(listed \cup gone)
        BY <1>4, InformerAssumption, FS_Subset
      <4>4. Cardinality(listed \cup gone) \in Nat
        BY <4>3, FS_CardinalityType
      <4> QED
        BY <1>3, <4>1, <4>2, <4>4
    <3>5. ASSUME NEW i \in 1 .. initial'
          PROVE  Last(items'[queue'[i]]).at >= firstList'
      <4>1. queue'[i] \in Keys /\ items'[queue'[i]] # <<>>
        BY <1>10, <3>4, ElementOfSeq DEF FifoType
      <4>2. queue'[i] \in DOMAIN new
        BY <1>11, <3>2, <4>1
      <4>3. Last(items'[queue'[i]]).at = v
        BY <1>6, <1>11, <4>2
      <4> QED
        BY <1>2, <3>4, <4>3
    <3>6. ASSUME NEW k \in Keys
          PROVE  StoredIn(log', k, firstList') = None \/ Counted(k)'
      <4>1. CASE k \in listed
        BY <1>6, <1>10, <1>11, <3>4, <4>1 DEF FifoType, Counted
      <4>2. CASE k \notin listed
        BY <1>3, <3>4, <4>2 DEF listed
      <4> QED
        BY <4>1, <4>2
    <3>7. firstList' <= lastSync'
      BY <1>2, <1>3, <3>4
    <3> QED
      BY <1>2, <1>10, <3>4, <3>5, <3>6, <3>7 DEF FirstListIn
  <2> QED
    BY <2>1, <2>2
<1>13. Types'
  <2>1. ghosts' \subseteq Keys
    BY <1>1, <1>3 DEF Types, Overlooked
  <2> QED
    BY <1>1, <1>2, <1>3, <1>10, <1>12, <2>1 DEF Types
<1>14. ASSUME NEW k \in Keys \ ghosts' PROVE Tracks(k)'
  <2>1. CASE k \in DOMAIN new
    BY <1>3, <1>6, <1>11, <2>1 DEF Tracks
  <2>2. CASE k \notin DOMAIN new
    <3>1. /\ cache[k] = None /\ StoredIn(log, k, v) = None
          /\ items'[k] = items[k] /\ k \in Keys \ listed
      <4>1. k \in Keys \ DOMAIN new /\ k \notin listed /\ k \notin gone
        BY <1>6, <1>14, <2>2
      <4>2. cache[k] = None /\ StoredIn(log, k, v) = None
        BY <1>4, <4>1
      <4>3. items'[k] = items[k]
        BY <1>11, <4>1
      <4>4. k \in Keys \ listed
        BY <4>1
      <4> QED
        BY <4>2, <4>3, <4>4
    <3>2. k \notin Overlooked(listed)
      BY <1>3, <1>14
    <3>3. items[k] = <<>> \/ Last(items[k]).obj = None
      BY <3>1, <3>2 DEF Overlooked
    <3> QED
      BY <1>3, <3>1, <3>3 DEF Tracks
  <2> QED
    BY <2>1, <2>2
<1>15. VersionsIdentify' /\ \A k \in Keys : CountsChanges(k)'
  BY <1>3 DEF Inv, VersionsIdentify, CountsChanges
<1> QED
  BY <1>10, <1>12, <1>13, <1>14, <1>15 DEF Inv

LEMMA WatchEventStep ==
  ASSUME Inv, WatchEvent
  PROVE  Inv'
<1> DEFINE e == log[lastSync + 1]
           new == [k \in {e.key} |-> [obj |-> e.obj, at |-> lastSync + 1]]
<1>1. Types /\ FirstListIn /\ FifoType
  BY DEF Inv, Types
<1>2. /\ watching /\ lastSync < Len(log) /\ lastSync' = lastSync + 1
      /\ IF Ignored(e.key, e.obj) THEN UNCHANGED <<items, queue>> ELSE Queue(new)
      /\ ghosts' = ghosts \ {e.key} /\ populated' = TRUE
      /\ UNCHANGED <<log, held, watching, unavailable, initial, cache, changes,
                     moment, firstList, left>>
  BY DEF WatchEvent
<1>3. /\ lastSync \in Nat /\ Len(log) \in Nat /\ lastSync + 1 \in 1 .. Len(log)
      /\ lastSync' \in lastSync .. Len(log)
  BY <1>1, <1>2 DEF Types
<1>4. e \in Writes /\ e.key \in Keys /\ e.obj \in Apps \cup {None}
  <2>1. e \in Writes
    BY <1>1, <1>3, ElementOfSeq DEF Types
  <2> QED
    BY <2>1 DEF Writes
<1>5. \A k : StoredIn(log, k, lastSync + 1)
             = IF e.key = k THEN e.obj ELSE StoredIn(log, k, lastSync)
  BY <1>3, StoredNext
<1>6. populated
  BY <1>1, <1>2 DEF FirstListIn
<1>7. \A k \in Keys : /\ moment[k] <= lastSync /\ moment[k] \in Nat
                     /\ items[k] \in Seq(Deltas)
  BY <1>1 DEF Inv, CacheShows, Types, FifoType
<1>8. firstList <= lastSync + 1 /\ firstList \in Nat
  BY <1>1, <1>3 DEF FirstListIn, Types
<1> HIDE DEF e
<1>9. /\ FifoType'
      /\ Len(queue') \in Nat /\ Len(queue') >= Len(queue)
      /\ \A k \in Keys : CacheShows(k)' /\ DeltaShows(k)'
      /\ \A k \in Keys : Paired(items[k], cache[k])'
      /\ FirstListIn'
      /\ \A k \in Keys \ {e.key} : items'[k] = items[k]
      /\ items'[e.key] = <<>> => cache[e.key] = None /\ e.obj = None
      /\ items'[e.key] # <<>> => Last(items'[e.key]).obj = e.obj
  <2>1. CASE ~Ignored(e.key, e.obj)
    <3>1. /\ DOMAIN new = {e.key} /\ DOMAIN new \subseteq Keys
          /\ \A k \in DOMAIN new : /\ k = e.key /\ new[k] \in Deltas
                                   /\ new[k].obj = e.obj /\ new[k].at = lastSync + 1
      BY <1>3, <1>4 DEF Deltas
    <3>2. Queue(new)
      BY <1>2, <2>1
    <3> HIDE DEF new
    <3>3. Sound(new)
      <4> SUFFICES ASSUME NEW k \in DOMAIN new
                   PROVE  /\ new[k].at \in moment[k] .. lastSync'
                          /\ new[k].obj = StoredIn(log, k, new[k].at)
                          /\ items[k] # <<>> => new[k].at >= firstList
                          /\ new[k].obj = None /\ items[k] = <<>> => cache[k] # None
        BY <3>1 DEF Sound
      <4>1. new[k].at \in moment[k] .. lastSync'
        BY <1>2, <1>3, <1>4, <1>7, <3>1
      <4>2. new[k].obj = StoredIn(log, k, new[k].at)
        BY <1>5, <3>1
      <4>3. new[k].at >= firstList
        BY <1>3, <1>8, <3>1
      <4>4. new[k].obj = None /\ items[k] = <<>> => cache[k] # None
        BY <2>1, <3>1 DEF Ignored
      <4> QED
        BY <4>1, <4>2, <4>3, <4>4
    <3>4. /\ FifoType'
          /\ Len(queue') \in Nat /\ Len(queue') >= Len(queue)
          /\ \A k \in Keys : CacheShows(k)' /\ DeltaShows(k)'
          /\ \A k \in Keys : Paired(items[k], cache[k])'
          /\ FirstListIn'
      BY <1>2, <1>3, <1>6, <3>2, <3>3, QueueSound
    <3>5. /\ \A k \in Keys \ DOMAIN new : items'[k] = items[k]
          /\ \A k \in DOMAIN new : items'[k] # <<>> /\ Last(items'[k]) = new[k]
      BY <1>1, <3>1, <3>2, QueueKeys, InformerAssumption
    <3> QED
      BY <3>1, <3>4, <3>5
  <2>2. CASE Ignored(e.key, e.obj)
    <3>1. UNCHANGED <<items, queue>> /\ e.obj = None /\ cache[e.key] = None
          /\ items[e.key] = <<>>
      BY <1>2, <2>2 DEF Ignored
    <3>2. FifoType' /\ Len(queue') \in Nat /\ Len(queue') >= Len(queue)
      <4>1. FifoType'
        BY <1>1, <3>1 DEF FifoType
      <4>2. Len(queue) \in Nat
        BY <1>1, LenProperties DEF FifoType
      <4>3. Len(queue') = Len(queue)
        BY <3>1
      <4> QED
        BY <4>1, <4>2, <4>3
    <3>3. ASSUME NEW k \in Keys PROVE CacheShows(k)' /\ DeltaShows(k)'
      <4>1. CacheShows(k) /\ DeltaShows(k)
        BY DEF Inv
      <4>2. items[k] # <<>> => Last(items[k]).at \in Nat
        BY <1>7, LastDelta
      <4> QED
        BY <1>2, <1>3, <1>7, <3>1, <4>1, <4>2 DEF CacheShows, DeltaShows
    <3>4. \A k \in Keys : Paired(items[k], cache[k])'
      BY <1>2, <3>1 DEF Inv
    <3>5. FirstListIn'
      BY <1>1, <1>2, <1>6, <1>8, <3>1 DEF FirstListIn, Counted
    <3> QED
      BY <1>4, <3>1, <3>2, <3>3, <3>4, <3>5
  <2> QED
    BY <2>1, <2>2
<1>10. Types'
  BY <1>1, <1>2, <1>3, <1>9 DEF Types
<1>11. ASSUME NEW k \in Keys \ ghosts' PROVE Tracks(k)'
  <2>1. CASE k = e.key
    BY <1>2, <1>5, <1>9, <2>1 DEF Tracks
  <2>2. CASE k # e.key
    <3>1. Tracks(k) /\ items'[k] = items[k]
      BY <1>2, <1>9, <2>2 DEF Inv
    <3> QED
      BY <1>2, <1>5, <2>2, <3>1 DEF Tracks
  <2> QED
    BY <2>1, <2>2
<1>12. VersionsIdentify' /\ \A k \in Keys : CountsChanges(k)'
  BY <1>2 DEF Inv, VersionsIdentify, CountsChanges
<1> QED
  BY <1>9, <1>10, <1>11, <1>12 DEF Inv

LEMMA ResyncStep ==
  ASSUME Inv, Resync
  PROVE  Inv'
<1> DEFINE S == {k \in Keys : cache[k] # None /\ items[k] = <<>>}
           new == [k \in S |-> AsCached(k)]
<1>1. Types /\ FirstListIn /\ FifoType
  BY DEF Inv, Types
<1>2. /\ watching /\ Queue(new)
      /\ UNCHANGED <<log, held, reflector, populated, initial, cache, history, left>>
  BY DEF Resync
<1>3. UNCHANGED <<log, held, watching, lastSync, unavailable, populated, initial,
                  cache, changes, moment, firstList, ghosts, left>>
  BY <1>2 DEF reflector, history
<1>4. populated
  BY <1>1, <1>2 DEF FirstListIn
<1>5. /\ DOMAIN new = S /\ S \subseteq Keys
      /\ \A k \in S : /\ cache[k] # None /\ items[k] = <<>>
                     /\ new[k].obj = cache[k] /\ new[k].at = moment[k]
  BY DEF AsCached
<1>6. \A k \in DOMAIN new : new[k] \in Deltas
  BY <1>1, <1>5 DEF AsCached, Deltas, Types
<1> HIDE DEF S, new
<1>7. Sound(new)
  <2> SUFFICES ASSUME NEW k \in DOMAIN new
               PROVE  /\ new[k].at \in moment[k] .. lastSync'
                      /\ new[k].obj = StoredIn(log, k, new[k].at)
                      /\ items[k] # <<>> => new[k].at >= firstList
                      /\ new[k].obj = None /\ items[k] = <<>> => cache[k] # None
    BY <1>5, <1>6 DEF Sound
  <2>1. k \in Keys /\ CacheShows(k) /\ moment[k] \in Nat /\ lastSync \in Nat
    BY <1>1, <1>5 DEF Inv, Types
  <2> QED
    BY <1>3, <1>5, <2>1 DEF CacheShows
<1>8. lastSync' \in lastSync .. Len(log)
  BY <1>1, <1>3 DEF Types
<1>9. /\ FifoType'
      /\ Len(queue') \in Nat /\ Len(queue') >= Len(queue)
      /\ \A k \in Keys : CacheShows(k)' /\ DeltaShows(k)'
      /\ \A k \in Keys : Paired(items[k], cache[k])'
      /\ FirstListIn'
  BY <1>2, <1>3, <1>4, <1>7, <1>8, QueueSound
<1>10. /\ \A k \in Keys \ DOMAIN new : items'[k] = items[k]
       /\ \A k \in DOMAIN new : items'[k] # <<>> /\ Last(items'[k]) = new[k]
  BY <1>1, <1>2, <1>5, <1>6, QueueKeys, InformerAssumption
<1>11. ASSUME NEW k \in Keys \ ghosts' PROVE Tracks(k)'
  <2>1. Tracks(k)
    BY <1>3 DEF Inv
  <2>2. CASE k \in S
    BY <1>3, <1>5, <1>10, <2>1, <2>2 DEF Tracks
  <2>3. CASE k \notin S
    <3>1. items'[k] = items[k]
      BY <1>5, <1>10, <2>3
    <3> QED
      BY <1>3, <2>1, <3>1 DEF Tracks
  <2> QED
    BY <2>2, <2>3
<1>12. /\ Types' /\ VersionsIdentify' /\ \A k \in Keys : CountsChanges(k)'
  <2>1. Types'
    BY <1>1, <1>3, <1>9 DEF Types
  <2> QED
    BY <1>3, <2>1 DEF Inv, VersionsIdentify, CountsChanges
<1> QED
  BY <1>9, <1>11, <1>12 DEF Inv

LEMMA ReflectorStep ==
  ASSUME Inv,
         \/ List \/ ListTooLarge \/ WatchEvent \/ WatchEnds \/ Resync
         \/ \E v \in 0 .. Len(log) : ListBehind(v)
  PROVE  Inv'
<1>1. Types /\ FirstListIn /\ lastSync \in 0 .. Len(log) /\ Len(log) \in Nat
  BY DEF Inv, Types
<1>2. CASE List
  <2>1. ~watching /\ SyncWith(Len(log)) /\ left' \in [Disturbances -> Nat]
    BY <1>1, <1>2 DEF List, Types
  <2>2. Len(log) \in lastSync .. Len(log)
    BY <1>1
  <2> QED
    BY <2>1, <2>2, SyncStep
<1>3. ASSUME NEW v \in 0 .. Len(log), ListBehind(v)
      PROVE  Inv'
  <2>1. ~watching /\ SyncWith(v) /\ v \in lastSync .. Len(log)
    BY <1>1, <1>3 DEF ListBehind
  <2>2. left' \in [Disturbances -> Nat]
    BY <1>3, SpendStep DEF ListBehind, Disturbances
  <2> QED
    BY <2>1, <2>2, SyncStep
<1>4. CASE ListTooLarge \/ WatchEnds
  <2>1. left' \in [Disturbances -> Nat]
    BY <1>4, SpendStep DEF ListTooLarge, WatchEnds, Disturbances
  <2>2. /\ UNCHANGED <<log, held, lastSync, items, queue, populated, initial,
                       cache, changes, moment, firstList, ghosts>>
        /\ watching' \in BOOLEAN /\ unavailable' \in BOOLEAN
        /\ watching' => watching
    <3>1. watching \in BOOLEAN /\ unavailable \in BOOLEAN
      BY <1>1 DEF Types
    <3>2. CASE ListTooLarge
      BY <3>1, <3>2 DEF ListTooLarge, fifo, history
    <3>3. CASE WatchEnds
      BY <3>1, <3>3 DEF WatchEnds, fifo, history
    <3> QED
      BY <1>4, <3>2, <3>3
  <2>3. FifoType'
    BY <1>1, <2>2 DEF Types, FifoType
  <2>4. Types'
    BY <1>1, <2>1, <2>2, <2>3 DEF Types
  <2>5. FirstListIn'
    BY <1>1, <2>2 DEF FirstListIn, Counted
  <2>6. \A k \in Keys : CacheShows(k)' /\ DeltaShows(k)'
    BY <2>2 DEF Inv, CacheShows, DeltaShows
  <2>7. \A k \in Keys \ ghosts' : Tracks(k)'
    BY <2>2 DEF Inv, Tracks
  <2>8. /\ VersionsIdentify'
        /\ \A k \in Keys : Paired(items[k], cache[k])'
        /\ \A k \in Keys : CountsChanges(k)'
    BY <2>2 DEF Inv, VersionsIdentify, CountsChanges
  <2> QED
    BY <2>4, <2>5, <2>6, <2>7, <2>8 DEF Inv
<1> QED
  BY <1>2, <1>3, <1>4, WatchEventStep, ResyncStep

-----------------------------------------------------------------------------
(* The informer.                                                           *)

LEMMA RestartStep ==
  ASSUME Inv, Restart
  PROVE  Inv'
<1>1. Types
  BY DEF Inv
<1>2. left' \in [Disturbances -> Nat]
  BY SpendStep DEF Restart, Disturbances
<1>3. /\ held' = None
      /\ watching' = FALSE /\ lastSync' = 0 /\ unavailable' = FALSE
      /\ items' = [k \in Keys |-> <<>>] /\ queue' = <<>>
      /\ populated' = FALSE /\ initial' = 0
      /\ cache' = [k \in Keys |-> None] /\ moment' = [k \in Keys |-> 0]
      /\ firstList' = 0 /\ ghosts' = {} /\ UNCHANGED <<log, changes>>
  BY DEF Restart
<1>4. FifoType' /\ Len(queue') = 0
  <2>1. Len(queue') = 0 /\ queue' \in Seq(Keys)
    BY <1>3
  <2>2. items' \in [Keys -> Seq(Deltas)] /\ \A k \in Keys : items'[k] = <<>>
    BY <1>3
  <2> QED
    BY <2>1, <2>2 DEF FifoType
<1>5. Types'
  <2>1. cache' \in [Keys -> Apps \cup {None}] /\ moment' \in [Keys -> Nat]
    BY <1>3
  <2>2. lastSync' \in 0 .. Len(log') /\ initial' \in 0 .. Len(queue')
    BY <1>1, <1>3, <1>4 DEF Types
  <2> QED
    BY <1>1, <1>2, <1>3, <1>4, <2>1, <2>2 DEF Types
<1>6. \A k : StoredIn(log', k, 0) = None
  BY NothingStoredFirst
<1>7. ASSUME NEW k \in Keys
      PROVE  CacheShows(k)' /\ DeltaShows(k)' /\ Tracks(k)'
  BY <1>3, <1>6 DEF CacheShows, DeltaShows, Tracks
<1>8. FirstListIn'
  BY <1>3 DEF FirstListIn
<1>9. ASSUME NEW k \in Keys PROVE Paired(items[k], cache[k])'
  BY <1>3 DEF Paired
<1>10. VersionsIdentify' /\ \A k \in Keys : CountsChanges(k)'
  BY <1>3 DEF Inv, VersionsIdentify, CountsChanges
<1> QED
  BY <1>5, <1>7, <1>8, <1>9, <1>10 DEF Inv

\* The head of the queue leaves it, the others move up.
LEMMA PopQueue ==
  ASSUME FifoType, queue # <<>>,
         queue' = Tail(queue), items' = [items EXCEPT ![Head(queue)] = <<>>]
  PROVE  /\ FifoType'
         /\ Len(queue) \in Nat \ {0} /\ Len(queue') = Len(queue) - 1
         /\ Head(queue) = queue[1] /\ Head(queue) \in Keys
         /\ items[Head(queue)] # <<>> /\ items[Head(queue)] \in Seq(Deltas)
         /\ items'[Head(queue)] = <<>>
         /\ \A k \in Keys \ {Head(queue)} : items'[k] = items[k]
         /\ \A i \in 1 .. Len(queue) - 1 : queue'[i] = queue[i + 1]
<1> DEFINE n == Len(queue)
<1>1. /\ queue \in Seq(Keys) /\ n \in Nat \ {0}
      /\ \A i \in 1 .. n : queue[i] \in Keys
  BY LenProperties, EmptySeq, ElementOfSeq DEF FifoType
<1>2. Head(queue) = queue[1] /\ 1 \in 1 .. n
  BY <1>1, HeadTailProperties
<1>3. /\ queue' \in Seq(Keys) /\ Len(queue') = n - 1
      /\ \A i \in 1 .. n - 1 : queue'[i] = queue[i + 1]
  BY <1>1, HeadTailProperties
<1> DEFINE k == Head(queue)
<1>4. k \in Keys /\ items[k] # <<>> /\ items[k] \in Seq(Deltas)
  BY <1>1, <1>2 DEF FifoType
<1>5. /\ items' \in [Keys -> Seq(Deltas)] /\ items'[k] = <<>>
      /\ \A j \in Keys \ {k} : items'[j] = items[j]
  BY <1>4 DEF FifoType
<1>6. \A i, j \in 1 .. n - 1 : queue'[i] = queue'[j] => i = j
  <2> SUFFICES ASSUME NEW i \in 1 .. n - 1, NEW j \in 1 .. n - 1,
                      queue'[i] = queue'[j]
               PROVE  i = j
    OBVIOUS
  <2>1. i + 1 \in 1 .. n /\ j + 1 \in 1 .. n
    BY <1>1
  <2>2. i + 1 = j + 1
    BY <1>3, <2>1 DEF FifoType
  <2> QED
    BY <1>1, <2>2
<1>7. ASSUME NEW j \in Keys
      PROVE  items'[j] # <<>> <=> \E i \in 1 .. n - 1 : queue'[i] = j
  <2>1. ASSUME NEW i \in 1 .. n - 1, queue'[i] = j
        PROVE  j # k /\ items[j] # <<>>
    <3>1. i + 1 \in 1 .. n /\ queue[i + 1] = j /\ i + 1 # 1
      BY <1>1, <1>3, <2>1
    <3> QED
      BY <1>2, <3>1 DEF FifoType
  <2>2. ASSUME j # k, items[j] # <<>>
        PROVE  \E i \in 1 .. n - 1 : queue'[i] = j
    <3>1. PICK d \in 1 .. n : queue[d] = j
      BY <2>2 DEF FifoType
    <3>2. d # 1
      BY <1>2, <2>2, <3>1
    <3>3. d - 1 \in 1 .. n - 1 /\ (d - 1) + 1 = d
      BY <1>1, <3>1, <3>2
    <3>4. queue'[d - 1] = j
      BY <1>3, <3>1, <3>3
    <3> QED
      BY <3>3, <3>4
  <2> QED
    BY <1>5, <2>1, <2>2
<1>8. FifoType'
  BY <1>3, <1>5, <1>6, <1>7 DEF FifoType
<1> QED
  BY <1>1, <1>2, <1>3, <1>4, <1>5, <1>8

LEMMA PopStep ==
  ASSUME Inv, Pop
  PROVE  Inv'
<1> DEFINE k == Head(queue)
           d == Last(items[k])
<1>1. Types /\ FifoType /\ FirstListIn
  BY DEF Inv, Types
<1>2. /\ queue # <<>> /\ queue' = Tail(queue)
      /\ cache' = [cache EXCEPT ![k] = d.obj]
      /\ moment' = [moment EXCEPT ![k] = d.at]
      /\ items' = [items EXCEPT ![k] = <<>>]
      /\ initial' = IF initial > 0 THEN initial - 1 ELSE 0
      /\ UNCHANGED <<log, held, watching, lastSync, unavailable, populated,
                     changes, firstList, ghosts, left>>
  BY DEF Pop, CountDown, reflector
<1>3. /\ FifoType'
      /\ Len(queue) \in Nat \ {0} /\ Len(queue') = Len(queue) - 1
      /\ k = queue[1] /\ k \in Keys
      /\ items[k] # <<>> /\ items[k] \in Seq(Deltas)
      /\ items'[k] = <<>>
      /\ \A j \in Keys \ {k} : items'[j] = items[j]
      /\ \A i \in 1 .. Len(queue) - 1 : queue'[i] = queue[i + 1]
  BY <1>1, <1>2, PopQueue
<1>4. d \in Deltas /\ d.obj \in Apps \cup {None} /\ d.at \in Nat
  BY <1>3, LastDelta
<1>5. /\ cache' \in [Keys -> Apps \cup {None}] /\ cache'[k] = d.obj
      /\ moment' \in [Keys -> Nat] /\ moment'[k] = d.at
      /\ \A j \in Keys \ {k} : cache'[j] = cache[j] /\ moment'[j] = moment[j]
  BY <1>1, <1>2, <1>3, <1>4 DEF Types
<1>6. d.at \in moment[k] .. lastSync /\ d.obj = StoredIn(log, k, d.at)
  BY <1>3 DEF Inv, DeltaShows
<1>7. /\ initial \in 0 .. Len(queue) /\ initial' \in 0 .. Len(queue')
      /\ lastSync \in Nat /\ firstList \in Nat /\ moment[k] \in Nat
  BY <1>1, <1>2, <1>3 DEF Types
<1> HIDE DEF k, d
<1>8. Types'
  BY <1>1, <1>2, <1>3, <1>5, <1>7 DEF Types
<1>9. ASSUME NEW j \in Keys
      PROVE  CacheShows(j)' /\ DeltaShows(j)' /\ Paired(items[j], cache[j])'
  <2>1. CASE j = k
    <3>1. CacheShows(j)'
      BY <1>2, <1>4, <1>5, <1>6, <1>7, <2>1 DEF CacheShows
    <3>2. DeltaShows(j)'
      BY <1>3, <2>1 DEF DeltaShows
    <3>3. Paired(items[j], cache[j])'
      BY <1>3, <2>1 DEF Paired
    <3> QED
      BY <3>1, <3>2, <3>3
  <2>2. CASE j # k
    <3>1. items'[j] = items[j] /\ cache'[j] = cache[j] /\ moment'[j] = moment[j]
      BY <1>3, <1>5, <2>2
    <3>2. CacheShows(j) /\ DeltaShows(j) /\ Paired(items[j], cache[j])
      BY DEF Inv
    <3> QED
      BY <1>2, <3>1, <3>2 DEF CacheShows, DeltaShows
  <2> QED
    BY <2>1, <2>2
<1>10. FirstListIn'
  <2>1. populated
    BY <1>1, <1>2 DEF FirstListIn
  <2>2. firstList <= lastSync
    BY <1>1 DEF FirstListIn
  <2>3. ASSUME NEW i \in 1 .. initial'
        PROVE  Last(items'[queue'[i]]).at >= firstList
    <3>1. i + 1 \in 1 .. initial /\ i \in 1 .. Len(queue) - 1 /\ i + 1 \in 1 .. Len(queue)
      BY <1>2, <1>3, <1>7
    <3>2. queue'[i] = queue[i + 1]
      BY <1>3, <3>1
    <3>3. queue[i + 1] \in Keys /\ queue[i + 1] # k
      <4>1. queue[i + 1] \in Keys
        BY <1>1, <3>1, ElementOfSeq DEF FifoType
      <4>2. 1 \in 1 .. Len(queue) /\ i + 1 # 1
        BY <1>3, <3>1
      <4> QED
        BY <1>1, <1>3, <3>1, <4>1, <4>2 DEF FifoType
    <3>4. items'[queue'[i]] = items[queue[i + 1]]
      BY <1>3, <3>2, <3>3
    <3> QED
      BY <1>1, <2>1, <3>1, <3>4 DEF FirstListIn
  <2>4. ASSUME NEW j \in Keys
        PROVE  \/ moment'[j] >= firstList
               \/ StoredIn(log, j, firstList) = None
               \/ Counted(j)'
    <3>1. CASE moment[j] >= firstList
      <4>1. moment[j] \in Nat
        BY <1>1 DEF Types
      <4> QED
        BY <1>4, <1>5, <1>6, <1>7, <3>1, <4>1
    <3>2. CASE Counted(j)
      <4>1. PICK i \in 1 .. initial : queue[i] = j
        BY <3>2 DEF Counted
      <4>2. CASE i = 1
        <5>1. j = k /\ items[queue[i]] = items[k] /\ 1 \in 1 .. initial
          BY <1>3, <4>1, <4>2
        <5>2. d.at >= firstList
          BY <1>1, <2>1, <4>1, <5>1 DEF FirstListIn, d
        <5> QED
          BY <1>5, <5>1, <5>2
      <4>3. CASE i # 1
        <5>1. /\ i - 1 \in 1 .. initial' /\ (i - 1) + 1 = i
              /\ i - 1 \in 1 .. Len(queue) - 1
          BY <1>2, <1>3, <1>7, <4>1, <4>3
        <5>2. queue'[i - 1] = j
          BY <1>3, <4>1, <5>1
        <5> QED
          BY <5>1, <5>2 DEF Counted
      <4> QED
        BY <4>2, <4>3
    <3> QED
      BY <1>1, <2>1, <3>1, <3>2 DEF FirstListIn
  <2> QED
    BY <1>2, <2>1, <2>2, <2>3, <2>4 DEF FirstListIn
<1>11. ASSUME NEW j \in Keys \ ghosts' PROVE Tracks(j)'
  <2>1. Tracks(j)
    BY <1>2 DEF Inv
  <2>2. CASE j = k
    BY <1>2, <1>3, <1>5, <2>1, <2>2 DEF Tracks, d
  <2>3. CASE j # k
    <3>1. items'[j] = items[j] /\ cache'[j] = cache[j]
      BY <1>3, <1>5, <2>3
    <3> QED
      BY <1>2, <2>1, <3>1 DEF Tracks
  <2> QED
    BY <2>2, <2>3
<1>12. VersionsIdentify' /\ \A j \in Keys : CountsChanges(j)'
  BY <1>2 DEF Inv, VersionsIdentify, CountsChanges
<1> QED
  BY <1>8, <1>9, <1>10, <1>11, <1>12 DEF Inv

-----------------------------------------------------------------------------
(* The theorems.                                                           *)

LEMMA Initially == Init => Inv
<1> SUFFICES ASSUME Init PROVE Inv
  OBVIOUS
<1>1. /\ log = <<>> /\ Len(log) = 0 /\ held = None
      /\ watching = FALSE /\ lastSync = 0 /\ unavailable = FALSE
      /\ items = [k \in Keys |-> <<>>] /\ queue = <<>> /\ Len(queue) = 0
      /\ populated = FALSE /\ initial = 0
      /\ cache = [k \in Keys |-> None]
      /\ changes = [k \in Keys |-> 0] /\ moment = [k \in Keys |-> 0]
      /\ firstList = 0 /\ ghosts = {} /\ left \in [Disturbances -> Nat]
  BY InformerAssumption DEF Init
<1>2. FifoType
  <2>1. items \in [Keys -> Seq(Deltas)] /\ \A k \in Keys : items[k] = <<>>
    BY <1>1
  <2> QED
    BY <1>1, <2>1 DEF FifoType
<1>3. Types
  <2>1. log \in Seq(Writes)
    BY <1>1
  <2>2. /\ items \in [Keys -> Seq(Deltas)] /\ cache \in [Keys -> Apps \cup {None}]
        /\ changes \in [Keys -> Nat] /\ moment \in [Keys -> Nat]
    BY <1>1
  <2>3. lastSync \in 0 .. Len(log) /\ initial \in 0 .. Len(queue)
    BY <1>1
  <2> QED
    BY <1>1, <1>2, <2>1, <2>2, <2>3 DEF Types
<1>4. \A k, p : p = 0 => StoredIn(log, k, p) = None
  BY NothingStoredFirst
<1>5. ASSUME NEW k \in Keys
      PROVE  CacheShows(k) /\ DeltaShows(k) /\ Tracks(k) /\ CountsChanges(k)
  BY <1>1, <1>4 DEF CacheShows, DeltaShows, Tracks, CountsChanges
<1>6. VersionsIdentify
  BY <1>1 DEF VersionsIdentify
<1>7. FirstListIn
  BY <1>1 DEF FirstListIn
<1>8. \A k \in Keys : Paired(items[k], cache[k])
  BY <1>1 DEF Paired
<1> QED
  BY <1>3, <1>5, <1>6, <1>7, <1>8 DEF Inv

LEMMA Stuttering ==
  ASSUME Inv, UNCHANGED vars
  PROVE  Inv'
<1>1. UNCHANGED <<informer, log, held, changes, left>>
  BY DEF vars, informer, history
<1>2. Types
  BY DEF Inv
<1>3. /\ Types'
      /\ \A k \in Keys : CacheShows(k)' /\ DeltaShows(k)'
      /\ FirstListIn'
      /\ \A k \in Keys \ ghosts' : Tracks(k)'
      /\ \A k \in Keys : Paired(items[k], cache[k])'
  <2>1. Len(log) \in Nat /\ Len(log) >= Len(log)
    BY <1>2 DEF Types
  <2> QED
    BY <1>1, <1>2, <2>1, ServerStep DEF Types
<1>4. VersionsIdentify' /\ \A k \in Keys : CountsChanges(k)'
  BY <1>1 DEF Inv, VersionsIdentify, CountsChanges
<1> QED
  BY <1>3, <1>4 DEF Inv

LEMMA Step == Inv /\ [Next]_vars => Inv'
BY ClientStep, ReflectorStep, PopStep, RestartStep, Stuttering DEF Next

\* The inductive invariant: what cache and queued deltas show is somewhere in
\* the server's log, and together they are where the reflector is.
THEOREM Invariance == Safety => []IInv
<1>1. Init => IInv
  BY Initially, Before DEF InvIsIInv
<1>2. IInv /\ [Next]_vars => IInv'
  BY Step, Before, After DEF InvIsIInv
<1> QED
  BY <1>1, <1>2, PTL DEF Safety

\* The variables keep their types: a queued key has deltas and is queued once, and
\* the countdown of the first list never runs past the queue.
THEOREM TypeCorrect == Safety => []TypeOK
<1>1. IInv => TypeOK
  BY DEF IInv
<1> QED
  BY <1>1, Invariance, PTL

\* Lists that come late, lost watches, resyncs and restarts, in any number and
\* order, leave no change between what is cached or queued and where the watch
\* goes on.
THEOREM FifoCorrect == Safety => []FifoTracksLog
<1>1. IInv => FifoTracksLog
  BY DEF IInv
<1> QED
  BY <1>1, Invariance, PTL

\* No handler is told of the deletion of something it was never told of.
THEOREM DeletionsPaired == Safety => []DeletionsArePaired
<1>1. IInv => DeletionsArePaired
  BY DEF IInv
<1> QED
  BY <1>1, Invariance, PTL

\* Workers start only when the whole first list is in the cache: of the keys that
\* ListUnderWay still counts none is left.
THEOREM ListedFirst == Safety => []SyncedMeansListed
<1>1. IInv => SyncedMeansListed
  <2> SUFFICES ASSUME IInv, HasSynced
               PROVE  \A k \in Keys : \/ moment[k] >= firstList
                                      \/ R!StoredAt(k, firstList) = None
    BY DEF SyncedMeansListed
  <2>1. populated /\ initial = 0 /\ ListUnderWay
    BY DEF IInv, HasSynced
  <2>2. ~ \E i \in 1 .. initial : TRUE
    BY <2>1
  <2> QED
    BY <2>1, <2>2 DEF ListUnderWay
<1> QED
  BY <1>1, Invariance, PTL

\* However old what a client has read, an update it sends is refused or counts.
THEOREM NoUpdateLost == Safety => []NoLostUpdate
<1>1. IInv => NoLostUpdate
  BY DEF IInv
<1> QED
  BY <1>1, Invariance, PTL

-----------------------------------------------------------------------------
(* The cache is a replica: a write extends the log, a Pop moves one copy   *)
(* forward, a restart forgets, and every other step stutters.              *)

\* A write leaves a longer log that begins with the one before.
LEMMA Appended ==
  ASSUME NEW g \in Seq(Writes), NEW t \in Seq(Writes), t # <<>>
  PROVE  Len(g \o t) > Len(g) /\ SubSeq(g \o t, 1, Len(g)) = g
<1> DEFINE h == g \o t
           n == Len(g)
<1>1. n \in Nat /\ Len(t) \in Nat /\ Len(t) # 0
  BY LenProperties, EmptySeq
<1>2. /\ h \in Seq(Writes) /\ Len(h) = n + Len(t)
      /\ \A i \in 1 .. n + Len(t) : h[i] = IF i <= n THEN g[i] ELSE t[i - n]
  BY ConcatProperties
<1> HIDE DEF h
<1>3. Len(h) > n /\ \A i \in 1 .. n : h[i] = g[i]
  BY <1>1, <1>2
<1>4. SubSeq(h, 1, n) = [i \in 1 .. n |-> g[i]]
  BY <1>1, <1>3
<1>5. g = [i \in 1 .. n |-> g[i]]
  OBVIOUS
<1> QED
  BY <1>3, <1>4, <1>5 DEF h

LEMMA PutExtends ==
  ASSUME Inv, NEW k \in Keys, NEW n \in Nat, Put(k, n)
  PROVE  R!Extend
<1> DEFINE entry == [key |-> k, obj |-> [n |-> n, rv |-> Len(log) + 1]]
<1>1. log \in Seq(Writes) /\ Len(log) \in Nat
  BY DEF Inv, Types
<1>2. entry \in Writes
  BY <1>1 DEF Writes, Apps
<1>3. log' = Append(log, entry) /\ UNCHANGED <<cache, moment>>
  BY DEF Put, informer
<1> HIDE DEF entry
<1>4. Append(log, entry) = log \o <<entry>>
  BY <1>1, <1>2
<1>5. <<entry>> \in Seq(Writes) /\ <<entry>> # <<>>
  BY <1>2
<1> QED
  BY <1>1, <1>3, <1>4, <1>5, Appended DEF R!Extend

LEMMA EraseExtends ==
  ASSUME Inv, NEW gone, gone \subseteq Keys, Erase(gone)
  PROVE  R!Extend
<1> DEFINE keys == SetToSeq(gone)
           tail == [i \in DOMAIN keys |-> [key |-> keys[i], obj |-> None]]
<1>1. log \in Seq(Writes)
  BY DEF Inv, Types
<1>2. IsFiniteSet(gone) /\ gone # {}
  BY InformerAssumption, FS_Subset DEF Erase
<1>3. /\ keys \in Seq(gone) /\ Len(keys) \in Nat /\ DOMAIN keys = 1 .. Len(keys)
      /\ \A x \in gone : \E i \in 1 .. Len(keys) : keys[i] = x
  BY <1>2, SetToSeqLists
<1>4. log' = log \o tail /\ UNCHANGED <<cache, moment>>
  BY DEF Erase, informer
<1> HIDE DEF keys
<1>5. \A i \in 1 .. Len(keys) : keys[i] \in Keys
  BY <1>3, ElementOfSeq
<1>6. tail \in Seq(Writes) /\ Len(tail) = Len(keys)
  <2>1. \A i \in 1 .. Len(keys) : [key |-> keys[i], obj |-> None] \in Writes
    BY <1>5 DEF Writes
  <2>2. tail \in [1 .. Len(keys) -> Writes]
    BY <1>3, <2>1
  <2> QED
    BY <1>3, <2>2
<1> HIDE DEF tail
<1>7. tail # <<>>
  <2>1. PICK x : x \in gone
    BY <1>2
  <2>2. Len(keys) # 0
    BY <1>3, <2>1
  <2> QED
    BY <1>6, <2>2
<1> QED
  BY <1>1, <1>4, <1>6, <1>7, Appended DEF R!Extend

\* An update that is accepted is a write, a refused one leaves all as it is.
LEMMA UpdateExtends ==
  ASSUME Inv, Update
  PROVE  R!Extend \/ UNCHANGED <<log, cache, moment>>
<1>1. held \in [key : Keys, obj : Apps]
  BY DEF Inv, Types, Update
<1>2. held.key \in Keys /\ held.obj.n + 1 \in Nat
  BY <1>1 DEF Apps
<1> QED
  BY <1>2, PutExtends DEF Update, Refused, informer

LEMMA ClientExtends ==
  ASSUME Inv, Client
  PROVE  R!Extend \/ UNCHANGED <<log, cache, moment>>
<1>1. ASSUME NEW k \in Keys, Create(k) PROVE R!Extend
  BY <1>1, PutExtends DEF Create
<1>2. ASSUME NEW k \in Keys, Patch(k) PROVE R!Extend
  <2>1. Stored(k) = StoredIn(log, k, Len(log)) /\ Stored(k) # None
    BY <1>2, StoredIsStoredIn DEF Stored, Patch
  <2>2. log \in Seq(Writes) /\ Len(log) \in 0 .. Len(log)
    BY DEF Inv, Types
  <2>3. StoredIn(log, k, Len(log)) \in Apps \cup {None}
    BY <2>2, StoredInType
  <2>4. Stored(k).n + 1 \in Nat
    BY <2>1, <2>3 DEF Apps
  <2> QED
    BY <1>2, <2>4, PutExtends DEF Patch
<1>3. ASSUME NEW k \in Keys, Delete(k) PROVE R!Extend
  BY <1>3, EraseExtends DEF Delete
<1>4. CASE DeleteCollection
  BY <1>4, EraseExtends DEF DeleteCollection
<1>5. ASSUME NEW k \in Keys, ListerGet(k) \/ Get(k)
      PROVE  UNCHANGED <<log, cache, moment>>
  BY <1>5 DEF ListerGet, Get, Read, informer
<1>6. CASE UpdateStatus
  BY <1>6 DEF UpdateStatus, Refused, informer
<1> QED
  BY <1>1, <1>2, <1>3, <1>4, <1>5, <1>6, UpdateExtends DEF Client, ListApps

LEMMA PopAdvances ==
  ASSUME Inv, Pop
  PROVE  \E k \in Keys : R!Advance(k)
<1> DEFINE k == Head(queue)
           d == Last(items[k])
<1>1. Types /\ FifoType
  BY DEF Inv, Types
<1>2. /\ queue # <<>> /\ queue' = Tail(queue) /\ items' = [items EXCEPT ![k] = <<>>]
      /\ cache' = [cache EXCEPT ![k] = d.obj]
      /\ moment' = [moment EXCEPT ![k] = d.at]
      /\ UNCHANGED log
  BY DEF Pop
<1>3. k \in Keys /\ items[k] # <<>>
  BY <1>1, <1>2, PopQueue
<1>4. d.at \in moment[k] .. lastSync /\ d.obj = StoredIn(log, k, d.at)
  BY <1>3 DEF Inv, DeltaShows
<1>5. moment[k] \in Nat /\ lastSync \in Nat /\ lastSync <= Len(log) /\ Len(log) \in Nat
  BY <1>1, <1>3 DEF Types
<1>6. d.at \in moment[k] .. Len(log) /\ d.obj = R!StoredAt(k, d.at)
  BY <1>4, <1>5, StoredIsStoredIn
<1> QED
  BY <1>2, <1>3, <1>6 DEF R!Advance

\* Whatever the lists, watches, resyncs and restarts, each key of the cache goes
\* from one moment of the server's log to a later one.
THEOREM ImplementsReplica == Safety => RefinesReplica
<1>1. Init => R!ReplicaInit
  BY DEF Init, R!ReplicaInit
<1>2. IInv /\ [Next]_vars => [R!ReplicaNext]_<<log, cache, moment>>
  <2> SUFFICES ASSUME IInv, [Next]_vars
               PROVE  R!ReplicaNext \/ UNCHANGED <<log, cache, moment>>
    OBVIOUS
  <2>1. Inv
    BY Before DEF InvIsIInv
  <2>2. CASE Client
    BY <2>1, <2>2, ClientExtends DEF R!ReplicaNext
  <2>3. CASE Pop
    BY <2>1, <2>3, PopAdvances DEF R!ReplicaNext
  <2>4. CASE Restart
    BY <2>4 DEF Restart, R!Forget, R!ReplicaNext
  <2>5. ASSUME NEW v, SyncWith(v)
        PROVE  UNCHANGED <<log, cache, moment>>
    BY <2>5 DEF SyncWith
  <2>6. CASE List \/ \E v \in 0 .. Len(log) : ListBehind(v)
    BY <2>5, <2>6 DEF List, ListBehind
  <2>7. CASE ListTooLarge \/ WatchEvent \/ WatchEnds \/ Resync
    BY <2>7 DEF ListTooLarge, WatchEvent, WatchEnds, Resync, history
  <2>8. CASE UNCHANGED vars
    BY <2>8 DEF vars, history
  <2> QED
    BY <2>2, <2>3, <2>4, <2>6, <2>7, <2>8 DEF Next
<1> QED
  BY <1>1, <1>2, Invariance, PTL DEF Safety, RefinesReplica, R!ReplicaSpec
=============================================================================
