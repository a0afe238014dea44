---------------------------- MODULE FakeClientProofs ----------------------------
(***************************************************************************)
(* Proofs about FakeClient: that no memory is shared, that the tracker     *)
(* keeps what was written, and that the informer's cache implements        *)
(* Replica.                                                                *)
(***************************************************************************)
EXTENDS FakeClient, FiniteSetTheorems, SequenceTheorems, TLAPS

-----------------------------------------------------------------------------
(* Sequences.                                                              *)

\* SetToSeq lists each element of a finite set once.
LEMMA SetToSeqLists ==
  ASSUME NEW S, IsFiniteSet(S)
  PROVE  LET s == SetToSeq(S) IN
         /\ s \in Seq(S)
         /\ Len(s) = Cardinality(S) /\ Len(s) \in Nat
         /\ \A i, j \in 1 .. Len(s) : s[i] = s[j] => i = j
         /\ \A x \in S : \E i \in 1 .. Len(s) : s[i] = x
         /\ DOMAIN s = 1 .. Len(s)
<1> DEFINE n == Cardinality(S)
           s == SetToSeq(S)
<1>1. n \in Nat /\ ExistsBijection(1 .. n, S)
  BY FS_CardinalityType
<1>2. PICK b \in [1 .. n -> S] : IsInjective(b)
  BY <1>1 DEF ExistsBijection, Bijection, Injection
<1>3. s \in [1 .. n -> S] /\ IsInjective(s)
  BY <1>2 DEF SetToSeq
<1>4. s \in Seq(S) /\ Len(s) = n /\ DOMAIN s = 1 .. n
  BY <1>1, <1>3
<1>5. \A i, j \in 1 .. n : s[i] = s[j] => i = j
  BY <1>3 DEF IsInjective
<1>6. ASSUME NEW x \in S PROVE \E i \in 1 .. n : s[i] = x
  <2> DEFINE T == {s[i] : i \in 1 .. n}
  <2>1. T \in SUBSET S
    BY <1>3
  <2>2. s \in [1 .. n -> T]
    BY <1>3
  <2>3. s \in Bijection(1 .. n, T)
    BY <1>3, <2>2 DEF Bijection, Injection, Surjection
  <2>4. Cardinality(T) = n
    BY <1>1, <2>3, FS_CountingElements DEF ExistsBijection
  <2>5. T = S
    BY <2>1, <2>4, FS_Subset
  <2> QED
    BY <2>5
<1> QED
  BY <1>1, <1>4, <1>5, <1>6

-----------------------------------------------------------------------------
(* Logs.  What the log g says of k after p writes, with the log as an      *)
(* argument so that two of them can be compared.                           *)

LastIn(g, k, p) ==
    {i \in 1 .. p : g[i].key = k /\ \A j \in i + 1 .. p : g[j].key # k}

StoredIn(g, k, p) ==
    IF LastIn(g, k, p) = {} THEN None
    ELSE g[CHOOSE i \in LastIn(g, k, p) : TRUE].obj

LEMMA StoredIsStoredIn ==
  \A k, p : R!StoredAt(k, p) = StoredIn(log, k, p)
BY DEF R!StoredAt, R!LastWrite, StoredIn, LastIn

\* There is one last write at most.
LEMMA LastIsOne ==
  ASSUME NEW g, NEW k, NEW p \in Nat, NEW i \in LastIn(g, k, p)
  PROVE  StoredIn(g, k, p) = g[i].obj
<1>1. \A j \in LastIn(g, k, p) : j = i
  BY DEF LastIn
<1> QED
  BY <1>1 DEF StoredIn

LEMMA NothingStoredFirst ==
  ASSUME NEW g, NEW k
  PROVE  StoredIn(g, k, 0) = None
BY DEF StoredIn, LastIn

\* What is stored depends on the last write alone.
LEMMA SameLast ==
  ASSUME NEW g, NEW h, NEW k, NEW p \in Nat, NEW q \in Nat,
         LastIn(g, k, p) = LastIn(h, k, q),
         \A i \in LastIn(g, k, p) : g[i] = h[i]
  PROVE  StoredIn(g, k, p) = StoredIn(h, k, q)
<1>1. CASE LastIn(g, k, p) = {}
  BY <1>1 DEF StoredIn
<1>2. CASE LastIn(g, k, p) # {}
  BY <1>2, LastIsOne
<1> QED
  BY <1>1, <1>2

\* The past does not change.
LEMMA StoredStays ==
  ASSUME NEW g, NEW h, NEW k, NEW p \in Nat,
         \A i \in 1 .. p : h[i] = g[i]
  PROVE  StoredIn(h, k, p) = StoredIn(g, k, p)
<1>1. LastIn(h, k, p) = LastIn(g, k, p)
  BY DEF LastIn
<1>2. \A i \in LastIn(h, k, p) : h[i] = g[i]
  BY DEF LastIn
<1> QED
  BY <1>1, <1>2, SameLast

\* One more write.
LEMMA StoredNext ==
  ASSUME NEW g, NEW k, NEW p \in Nat
  PROVE  StoredIn(g, k, p + 1) = IF g[p + 1].key = k THEN g[p + 1].obj
                                 ELSE StoredIn(g, k, p)
<1>1. CASE g[p + 1].key = k
  <2>1. p + 1 \in LastIn(g, k, p + 1)
    BY <1>1 DEF LastIn
  <2> QED
    BY <1>1, <2>1, LastIsOne
<1>2. CASE g[p + 1].key # k
  <2>1. LastIn(g, k, p + 1) = LastIn(g, k, p)
    BY <1>2 DEF LastIn
  <2>2. StoredIn(g, k, p + 1) = StoredIn(g, k, p)
    BY <2>1, SameLast
  <2> QED
    BY <1>2, <2>2
<1> QED
  BY <1>1, <1>2

-----------------------------------------------------------------------------
(* Cells.                                                                  *)

\* Each number up to the size of a finite set of numbers is the rank of one of
\* its members.
LEMMA Ranks ==
  ASSUME NEW F, F \subseteq Nat, IsFiniteSet(F), NEW i \in 1 .. Cardinality(F)
  PROVE  \E c \in F : Cardinality({d \in F : d <= c}) = i
<1> DEFINE upTo(c) == {d \in F : d <= c}
           rank == [c \in F |-> Cardinality(upTo(c))]
           n == Cardinality(F)
<1>1. n \in Nat
  BY FS_CardinalityType
<1>2. ASSUME NEW c \in F
      PROVE  /\ IsFiniteSet(upTo(c)) /\ Cardinality(upTo(c)) \in 1 .. n
  <2>1. IsFiniteSet(upTo(c)) /\ Cardinality(upTo(c)) <= n
    BY FS_Subset
  <2>2. c \in upTo(c)
    OBVIOUS
  <2> HIDE DEF upTo
  <2>3. Cardinality(upTo(c)) \in Nat /\ Cardinality(upTo(c)) # 0
    BY <2>1, <2>2, FS_CardinalityType, FS_EmptySet
  <2> QED
    BY <1>1, <2>1, <2>3
<1>3. ASSUME NEW c \in F, NEW e \in F, c < e
      PROVE  Cardinality(upTo(c)) < Cardinality(upTo(e))
  <2> c \in Nat /\ e \in Nat /\ \A d \in F : d \in Nat
    OBVIOUS
  <2>1. \A d \in F : d <= c => d <= e
    BY <1>3
  <2>2. e <= e /\ ~(e <= c)
    BY <1>3
  <2>3. upTo(c) \subseteq upTo(e) /\ e \in upTo(e) /\ e \notin upTo(c)
    BY <2>1, <2>2, Zenon
  <2> HIDE DEF upTo
  <2>4. /\ Cardinality(upTo(c)) <= Cardinality(upTo(e))
        /\ Cardinality(upTo(c)) # Cardinality(upTo(e))
    BY <1>2, <2>3, FS_Subset
  <2> QED
    BY <1>1, <1>2, <2>4
<1>4. rank \in [F -> 1 .. n]
  BY <1>2
<1>5. \A c, e \in F : rank[c] = rank[e] => c = e
  BY <1>2, <1>3
<1>6. IsFiniteSet(1 .. n) /\ Cardinality(1 .. n) = n
  BY <1>1, FS_Interval
<1>7. rank \in Surjection(F, 1 .. n)
  <2>1. rank \in Injection(F, 1 .. n)
    BY <1>4, <1>5 DEF Injection, IsInjective
  <2> HIDE DEF rank
  <2> QED
    BY <1>6, <2>1, FS_Injection
<1> QED
  BY <1>7 DEF Surjection

\* Who holds Foos.
LEMMA LiveCells ==
  /\ \A c \in Live : /\ c # None /\ c # Nil
                     /\ \/ \E k \in Keys : c = tracker[k] \/ c = cache[k]
                        \/ \E i \in DOMAIN events : c = events[i].foo
                        \/ c = mine \/ c = borrowed
  /\ \A c : /\ c # None /\ c # Nil
            /\ \/ \E k \in Keys : c = tracker[k] \/ c = cache[k]
               \/ \E i \in DOMAIN events : c = events[i].foo
               \/ c = mine \/ c = borrowed
            => c \in Live
BY DEF Live

LEMMA LiveCellsNext ==
  /\ \A c \in Live' : /\ c # None /\ c # Nil
                      /\ \/ \E k \in Keys : c = tracker'[k] \/ c = cache'[k]
                         \/ \E i \in DOMAIN events' : c = events'[i].foo
                         \/ c = mine' \/ c = borrowed'
  /\ \A c : /\ c # None /\ c # Nil
            /\ \/ \E k \in Keys : c = tracker'[k] \/ c = cache'[k]
               \/ \E i \in DOMAIN events' : c = events'[i].foo
               \/ c = mine' \/ c = borrowed'
            => c \in Live'
BY DEF Live

\* Cells not in use: there are as many as there is room for, each its own.
LEMMA FreshCells ==
  ASSUME NEW n \in Nat, Room(n)
  PROVE  /\ \A i \in 1 .. n : Fresh(i) \in Cells /\ Fresh(i) \notin Live
         /\ \A i, j \in 1 .. n : Fresh(i) = Fresh(j) => i = j
<1> DEFINE F == Cells \ Live
<1>1. F \subseteq Nat /\ IsFiniteSet(F)
  BY FakeAssumption, FS_Subset
<1>2. Cardinality(F) >= n /\ Cardinality(F) \in Nat
  BY <1>1, FS_CardinalityType DEF Room
<1>3. \A i \in 1 .. n : \E c \in F : Cardinality({d \in F : d <= c}) = i
  BY <1>1, <1>2, Ranks
<1>4. \A i : Fresh(i) = CHOOSE c \in F : Cardinality({d \in F : d <= c}) = i
  BY DEF Fresh
<1> HIDE DEF F
<1>5. \A i \in 1 .. n : /\ Fresh(i) \in F
                        /\ Cardinality({d \in F : d <= Fresh(i)}) = i
  BY <1>3, <1>4
<1> QED
  BY <1>5 DEF F

\* They get what is put there, and the cells in use stay what they are.
LEMMA Allocated ==
  ASSUME NEW n \in Nat, Room(n), NEW vs, DOMAIN vs = 1 .. n
  PROVE  /\ \A c \in Live : Allocate(vs)[c] = heap[c]
         /\ \A i \in 1 .. n : Allocate(vs)[Fresh(i)] = vs[i]
<1>1. /\ \A i \in 1 .. n : Fresh(i) \in Cells /\ Fresh(i) \notin Live
      /\ \A i, j \in 1 .. n : Fresh(i) = Fresh(j) => i = j
  BY FreshCells
<1>2. ASSUME NEW c \in Live PROVE Allocate(vs)[c] = heap[c]
  BY DEF Allocate
<1>3. ASSUME NEW i \in 1 .. n PROVE Allocate(vs)[Fresh(i)] = vs[i]
  <2>1. (CHOOSE j \in DOMAIN vs : Fresh(j) = Fresh(i)) = i
    BY <1>1
  <2> QED
    BY <1>1, <2>1 DEF Allocate
<1> QED
  BY <1>2, <1>3

-----------------------------------------------------------------------------
(* The invariant, with what a cell holds and what the log says as          *)
(* operators of heap and log.                                              *)

ValueIn(h, foo) == IF foo \in {None, Nil} THEN foo ELSE h[foo]

TrackerShows ==
    \A k \in Keys : ValueIn(heap, tracker[k]) = StoredIn(log, k, Len(log))

CacheShows ==
    \A k \in Keys : ValueIn(heap, cache[k]) = StoredIn(log, k, moment[k])

EventsShow ==
    \A i \in DOMAIN events :
        ValueIn(heap, events[i].foo) = StoredIn(log, events[i].key, events[i].at)

Inv == TypeOK /\ Apart /\ TrackerShows /\ CacheShows /\ EventsShow /\ EventsAhead

InvIsIInv == IInv <=> Inv

LEMMA Before == InvIsIInv
<1>1. \A foo : Value(foo) = ValueIn(heap, foo)
  BY DEF Value, ValueIn
<1>2. TrackerKeepsWrites <=> TrackerShows
  BY <1>1, StoredIsStoredIn DEF TrackerKeepsWrites, TrackerShows
<1>3. ShowsThePast <=> CacheShows /\ EventsShow
  BY <1>1, StoredIsStoredIn DEF ShowsThePast, CacheShows, EventsShow
<1> QED
  BY <1>2, <1>3 DEF InvIsIInv, IInv, Inv

LEMMA After == InvIsIInv'
BY Before, PTL

\* Events, one by one.
LEMMA EventTypes ==
  ASSUME TypeOK
  PROVE  /\ Len(log) \in Nat /\ Len(events) \in Nat
         /\ DOMAIN events = 1 .. Len(events)
         /\ \A i \in DOMAIN events : /\ events[i].key \in Keys
                                     /\ events[i].foo \in Foos \cup {None}
                                     /\ events[i].at \in 1 .. Len(log)
<1>1. /\ events \in Seq([key : Keys, foo : Foos \cup {None}, at : 1 .. Len(log)])
      /\ log \in Seq([key : Keys, obj : Values \cup {Nil, None}])
  BY DEF TypeOK
<1>2. /\ Len(log) \in Nat /\ Len(events) \in Nat
      /\ DOMAIN events = 1 .. Len(events)
  BY <1>1, LenProperties
<1>3. \A i \in 1 .. Len(events) :
        events[i] \in [key : Keys, foo : Foos \cup {None}, at : 1 .. Len(log)]
  BY <1>1, ElementOfSeq
<1> QED
  BY <1>2, <1>3

\* What is in use is a cell, with a number in it.
LEMMA LiveTypes ==
  ASSUME TypeOK
  PROVE  /\ Live \subseteq Cells
         /\ \A c \in Live : heap[c] \in Values
         /\ \A x \in Cells : x # None /\ x # Nil
<1>1. \A x \in Cells : x # None /\ x # Nil
  BY FakeAssumption
<1>2. ASSUME NEW c \in Live PROVE c \in Cells
  <2>1. c # None /\ c # Nil
    BY LiveCells
  <2>2. c \in Foos \cup {None}
    BY LiveCells, EventTypes DEF TypeOK
  <2> QED
    BY <2>1, <2>2 DEF Foos
<1> QED
  BY <1>1, <1>2 DEF TypeOK

-----------------------------------------------------------------------------
(* Writes.                                                                 *)

\* A write of v to k: a is stored, b goes to the watcher, c to the client, and h
\* is the heap with the new cells.
Stores(k, v, a, b, c, h) ==
    /\ k \in Keys /\ v \in Values \cup {Nil, None}
    /\ a \in Foos \cup {None} /\ b \in Foos \cup {None} /\ c \in Foos \cup {None}
    /\ a \in Cells => a \notin Live /\ a # b /\ a # c /\ h[a] \in Values
    /\ b \in Cells => b \notin Live /\ b # c /\ h[b] \in Values
    /\ c \in Cells => c \notin Live /\ h[c] \in Values
    /\ ValueIn(h, a) = v /\ ValueIn(h, b) = v
    /\ \A x \in Live : h[x] = heap[x]
    /\ log' = Append(log, [key |-> k, obj |-> v])
    /\ tracker' = [tracker EXCEPT ![k] = a]
    /\ events' = events \/ events' = Append(events, [key |-> k, foo |-> b, at |-> Len(log) + 1])
    /\ events' = events \/ phase = "watching"
    /\ mine' \in {mine, c}
    /\ UNCHANGED <<phase, cache, borrowed, moment>>
    /\ missed' \subseteq Keys
    /\ heap' = [x \in Live' |-> h[x]]

\* The events after it.
LEMMA StoresEvents ==
  ASSUME TypeOK, NEW k, NEW v, NEW a, NEW b, NEW c, NEW h, Stores(k, v, a, b, c, h)
  PROVE  /\ log' \in Seq([key : Keys, obj : Values \cup {Nil, None}])
         /\ Len(log') = Len(log) + 1 /\ Len(log) \in Nat
         /\ \A i \in 1 .. Len(log) : log'[i] = log[i]
         /\ log'[Len(log) + 1].key = k /\ log'[Len(log) + 1].obj = v
         /\ events' \in Seq([key : Keys, foo : Foos \cup {None}, at : 1 .. Len(log')])
         /\ Len(events) \in Nat /\ DOMAIN events = 1 .. Len(events)
         /\ \/ events' = events
            \/ /\ phase = "watching"
               /\ DOMAIN events' = 1 .. Len(events) + 1
               /\ \A i \in DOMAIN events : events'[i] = events[i]
               /\ events'[Len(events) + 1].key = k
               /\ events'[Len(events) + 1].foo = b
               /\ events'[Len(events) + 1].at = Len(log) + 1
<1> DEFINE entry == [key |-> k, obj |-> v]
           event == [key |-> k, foo |-> b, at |-> Len(log) + 1]
           W == [key : Keys, obj : Values \cup {Nil, None}]
           E(n) == [key : Keys, foo : Foos \cup {None}, at : 1 .. n]
<1>1. /\ Len(log) \in Nat /\ Len(events) \in Nat
      /\ DOMAIN events = 1 .. Len(events)
  BY EventTypes
<1>2. /\ log \in Seq(W) /\ entry \in W /\ entry.key = k /\ entry.obj = v
      /\ log' = Append(log, entry)
  BY DEF TypeOK, Stores
<1>3. /\ event \in E(Len(log) + 1)
      /\ event.key = k /\ event.foo = b /\ event.at = Len(log) + 1
  BY <1>1 DEF Stores
<1>4. E(Len(log)) \subseteq E(Len(log) + 1)
  BY <1>1
<1>5. events \in Seq(E(Len(log)))
  BY DEF TypeOK
<1>6. /\ events' = events \/ events' = Append(events, event)
      /\ events' = events \/ phase = "watching"
  BY DEF Stores
<1> HIDE DEF entry, event, W, E
<1>7. /\ log' \in Seq(W) /\ Len(log') = Len(log) + 1
      /\ \A i \in 1 .. Len(log) : log'[i] = log[i]
      /\ log'[Len(log) + 1] = entry
  BY <1>1, <1>2, AppendProperties
<1>8. events \in Seq(E(Len(log) + 1))
  BY <1>4, <1>5, SeqMonotonic
<1>9. /\ events' \in Seq(E(Len(log) + 1))
      /\ \/ events' = events
         \/ /\ phase = "watching"
            /\ DOMAIN events' = 1 .. Len(events) + 1
            /\ \A i \in DOMAIN events : events'[i] = events[i]
            /\ events'[Len(events) + 1] = event
  <2>1. CASE events' = events
    BY <1>8, <2>1
  <2>2. CASE events' = Append(events, event) /\ phase = "watching"
    <3>1. /\ events' \in Seq(E(Len(log) + 1))
          /\ Len(events') = Len(events) + 1
          /\ \A i \in 1 .. Len(events) : events'[i] = events[i]
          /\ events'[Len(events) + 1] = event
      BY <1>1, <1>3, <1>8, <2>2, AppendProperties
    <3>2. DOMAIN events' = 1 .. Len(events) + 1
      BY <3>1, LenProperties
    <3> QED
      BY <1>1, <2>2, <3>1, <3>2
  <2> QED
    BY <1>6, <2>1, <2>2
<1>10. events' \in Seq(E(Len(log')))
  BY <1>7, <1>9
<1> QED
  BY <1>1, <1>2, <1>3, <1>7, <1>9, <1>10 DEF W, E

\* The cells after it.
LEMMA StoresLive ==
  ASSUME TypeOK, NEW k, NEW v, NEW a, NEW b, NEW c, NEW h, Stores(k, v, a, b, c, h)
  PROVE  /\ \A x \in Live' : x \in Live \/ x \in {a, b, c} \cap Cells
         /\ \A x \in Live' : heap'[x] = h[x]
         /\ heap' \in [Live' -> Values]
<1>1. /\ \A l \in Keys : tracker'[l] = tracker[l] \/ tracker'[l] = a
      /\ mine' = mine \/ mine' = c
      /\ UNCHANGED <<cache, borrowed>>
      /\ heap' = [x \in Live' |-> h[x]] /\ \A x \in Live : h[x] = heap[x]
      /\ \A x \in {a, b, c} : x \in Cells => h[x] \in Values
      /\ \A x \in {a, b, c} : x \in Cells \/ x \in {None, Nil}
  BY DEF Stores, TypeOK, Foos
<1>2. \A i \in DOMAIN events' : \/ i \in DOMAIN events /\ events'[i].foo = events[i].foo
                                \/ events'[i].foo = b
  <2>1. /\ Len(events) \in Nat /\ DOMAIN events = 1 .. Len(events)
        /\ \/ events' = events
           \/ /\ DOMAIN events' = 1 .. Len(events) + 1
              /\ \A i \in DOMAIN events : events'[i] = events[i]
              /\ events'[Len(events) + 1].foo = b
    BY StoresEvents
  <2> QED
    BY <2>1
<1>3. ASSUME NEW x \in Live' PROVE x \in Live \/ x \in {a, b, c}
  <2>1. x # None /\ x # Nil
    BY LiveCellsNext
  <2>2. \/ \E l \in Keys : x = tracker[l] \/ x = cache[l]
        \/ \E i \in DOMAIN events : x = events[i].foo
        \/ x = mine \/ x = borrowed
        \/ x \in {a, b, c}
    BY <1>1, <1>2, LiveCellsNext
  <2> QED
    BY <2>1, <2>2, LiveCells
<1>4. ASSUME NEW x \in Live' PROVE x \in Live \/ x \in {a, b, c} \cap Cells
  BY <1>1, <1>3, LiveCellsNext
<1>5. ASSUME NEW x \in Live' PROVE h[x] \in Values
  BY <1>1, <1>4, LiveTypes
<1> QED
  BY <1>1, <1>4, <1>5

LEMMA StoresTypes ==
  ASSUME TypeOK, NEW k, NEW v, NEW a, NEW b, NEW c, NEW h, Stores(k, v, a, b, c, h)
  PROVE  TypeOK'
<1>1. /\ tracker' \in [Keys -> Foos \cup {None}]
      /\ cache' \in [Keys -> Foos \cup {None}]
      /\ phase' \in {"list", "watch", "watching"}
      /\ mine' \in Foos \cup {None} /\ borrowed' \in Foos \cup {None}
      /\ missed' \subseteq Keys
  BY DEF TypeOK, Stores
<1>2. moment' \in [Keys -> 0 .. Len(log')]
  BY StoresEvents DEF TypeOK, Stores
<1> QED
  BY <1>1, <1>2, StoresEvents, StoresLive DEF TypeOK

LEMMA StoresApart ==
  ASSUME TypeOK, Apart, NEW k, NEW v, NEW a, NEW b, NEW c, NEW h, Stores(k, v, a, b, c, h)
  PROVE  Apart'
<1>1. /\ k \in Keys
      /\ tracker \in [Keys -> Foos \cup {None}]
      /\ tracker' = [tracker EXCEPT ![k] = a] /\ cache' = cache
      /\ mine' = mine \/ mine' = c
      /\ borrowed' = borrowed
  BY DEF Stores, TypeOK
<1>2. /\ Len(events) \in Nat /\ DOMAIN events = 1 .. Len(events)
      /\ \/ events' = events
         \/ /\ DOMAIN events' = 1 .. Len(events) + 1
            /\ \A i \in DOMAIN events : events'[i] = events[i]
            /\ events'[Len(events) + 1].foo = b
  BY StoresEvents
\* The new cells are nobody's.
<1>3. ASSUME NEW x \in {a, b, c}, x \in Cells
      PROVE  /\ \A l \in Keys : x # tracker[l] /\ x # cache[l]
             /\ \A i \in DOMAIN events : x # events[i].foo
             /\ x # mine /\ x # borrowed
  <2>1. x \notin Live /\ x # None /\ x # Nil
    BY <1>3, LiveTypes DEF Stores
  <2> QED
    BY <2>1, LiveCells
<1>4. /\ a \in Cells => a # b /\ a # c
      /\ b \in Cells => b # c
  BY DEF Stores
<1>5. ASSUME NEW l \in Keys
      PROVE  tracker'[l] = IF l = k THEN a ELSE tracker[l]
  BY <1>1
<1>6. ASSUME NEW i \in DOMAIN events'
      PROVE  \/ i \in DOMAIN events /\ events'[i].foo = events[i].foo
             \/ i = Len(events) + 1 /\ events'[i].foo = b
  BY <1>2
<1>7. ASSUME NEW l \in Keys, NEW m \in Keys
      PROVE  /\ tracker'[l] \in Cells /\ tracker'[l] = tracker'[m] => l = m
             /\ cache'[l] \in Cells /\ cache'[l] = cache'[m] => l = m
             /\ tracker'[l] \in Cells => tracker'[l] # cache'[m]
  BY <1>1, <1>3, <1>5 DEF Apart
<1>8. ASSUME NEW i \in DOMAIN events', NEW j \in DOMAIN events',
             events'[i].foo \in Cells, events'[i].foo = events'[j].foo
      PROVE  i = j
  BY <1>3, <1>6, <1>8 DEF Apart
<1>9. ASSUME NEW l \in Keys, NEW i \in DOMAIN events', events'[i].foo \in Cells
      PROVE  events'[i].foo # tracker'[l] /\ events'[i].foo # cache'[l]
  BY <1>1, <1>3, <1>4, <1>5, <1>6, <1>9 DEF Apart
<1>10. ASSUME mine' \in Cells
       PROVE  /\ mine' # borrowed'
              /\ \A l \in Keys : mine' # tracker'[l] /\ mine' # cache'[l]
              /\ \A i \in DOMAIN events' : mine' # events'[i].foo
  BY <1>1, <1>3, <1>4, <1>5, <1>6, <1>10 DEF Apart
<1> QED
  BY <1>7, <1>8, <1>9, <1>10 DEF Apart

\* Foos held before and after have the value they had.
LEMMA StoresKeeps ==
  ASSUME TypeOK, NEW k, NEW v, NEW a, NEW b, NEW c, NEW h, Stores(k, v, a, b, c, h),
         NEW foo, foo \in Live \cup {None, Nil}, foo \in Live' \cup {None, Nil}
  PROVE  ValueIn(heap', foo) = ValueIn(heap, foo)
BY StoresLive DEF ValueIn, Stores

\* What the log said stays, and says v of k.
LEMMA StoresLog ==
  ASSUME TypeOK, NEW k, NEW v, NEW a, NEW b, NEW c, NEW h, Stores(k, v, a, b, c, h)
  PROVE  /\ \A l, p : p \in 0 .. Len(log) => StoredIn(log', l, p) = StoredIn(log, l, p)
         /\ StoredIn(log', k, Len(log')) = v
         /\ \A l : l # k => StoredIn(log', l, Len(log')) = StoredIn(log, l, Len(log))
<1>1. /\ Len(log') = Len(log) + 1 /\ Len(log) \in Nat
      /\ \A i \in 1 .. Len(log) : log'[i] = log[i]
      /\ log'[Len(log) + 1].key = k /\ log'[Len(log) + 1].obj = v
  BY StoresEvents
<1>2. ASSUME NEW l, NEW p \in 0 .. Len(log)
      PROVE  StoredIn(log', l, p) = StoredIn(log, l, p)
  <2>1. p \in Nat /\ \A i \in 1 .. p : log'[i] = log[i]
    BY <1>1
  <2> QED
    BY <2>1, StoredStays
<1>3. \A l : StoredIn(log', l, Len(log) + 1) = IF log'[Len(log) + 1].key = l
                                               THEN log'[Len(log) + 1].obj
                                               ELSE StoredIn(log', l, Len(log))
  BY <1>1, StoredNext
<1> QED
  BY <1>1, <1>2, <1>3

LEMMA StoresShows ==
  ASSUME Inv, NEW k, NEW v, NEW a, NEW b, NEW c, NEW h, Stores(k, v, a, b, c, h)
  PROVE  TrackerShows' /\ CacheShows' /\ EventsShow'
<1>1. TypeOK /\ TrackerShows /\ CacheShows /\ EventsShow
  BY DEF Inv
<1>2. /\ k \in Keys
      /\ tracker \in [Keys -> Foos \cup {None}]
      /\ tracker' = [tracker EXCEPT ![k] = a] /\ UNCHANGED <<cache, moment>>
      /\ ValueIn(h, a) = v /\ ValueIn(h, b) = v
      /\ moment \in [Keys -> 0 .. Len(log)]
  BY <1>1 DEF Stores, TypeOK
<1>3. /\ Len(events) \in Nat /\ DOMAIN events = 1 .. Len(events)
      /\ Len(log') = Len(log) + 1 /\ Len(log) \in Nat
      /\ \/ events' = events
         \/ /\ DOMAIN events' = 1 .. Len(events) + 1
            /\ \A i \in DOMAIN events : events'[i] = events[i]
            /\ events'[Len(events) + 1].key = k
            /\ events'[Len(events) + 1].foo = b
            /\ events'[Len(events) + 1].at = Len(log) + 1
  BY <1>1, StoresEvents
\* The new ones show v.
<1>4. ASSUME NEW foo \in {a, b}, foo \in Live' \cup {None, Nil}
      PROVE  ValueIn(heap', foo) = v
  BY <1>1, <1>2, <1>4, StoresLive DEF ValueIn
<1>5. ASSUME NEW l \in Keys
      PROVE  ValueIn(heap', tracker'[l]) = StoredIn(log', l, Len(log'))
  <2>1. tracker'[l] \in Live' \cup {None, Nil}
    BY LiveCellsNext
  <2>2. CASE l = k
    BY <1>1, <1>2, <1>4, <2>1, <2>2, StoresLog
  <2>3. CASE l # k
    <3>1. tracker'[l] = tracker[l] /\ tracker[l] \in Live \cup {None, Nil}
      BY <1>2, <2>3, LiveCells
    <3>2. ValueIn(heap', tracker[l]) = ValueIn(heap, tracker[l])
      BY <1>1, <2>1, <3>1, StoresKeeps
    <3> QED
      BY <1>1, <2>3, <3>1, <3>2, StoresLog DEF TrackerShows
  <2> QED
    BY <2>2, <2>3
<1>6. ASSUME NEW l \in Keys
      PROVE  ValueIn(heap', cache'[l]) = StoredIn(log', l, moment'[l])
  <2>1. cache'[l] \in Live' \cup {None, Nil}
    BY LiveCellsNext
  <2>2. cache'[l] = cache[l] /\ cache[l] \in Live \cup {None, Nil}
    BY <1>2, LiveCells
  <2>3. ValueIn(heap', cache[l]) = ValueIn(heap, cache[l])
    BY <1>1, <2>1, <2>2, StoresKeeps
  <2>4. moment[l] \in 0 .. Len(log) /\ moment'[l] = moment[l]
    BY <1>2
  <2> QED
    BY <1>1, <2>2, <2>3, <2>4, StoresLog DEF CacheShows
<1>7. ASSUME NEW i \in DOMAIN events'
      PROVE  ValueIn(heap', events'[i].foo) = StoredIn(log', events'[i].key, events'[i].at)
  <2>1. events'[i].foo \in Live' \cup {None, Nil}
    BY LiveCellsNext
  <2>2. CASE i \in DOMAIN events /\ events'[i] = events[i]
    <3>1. events[i].foo \in Live \cup {None, Nil}
      BY <2>2, LiveCells
    <3>2. ValueIn(heap', events[i].foo) = ValueIn(heap, events[i].foo)
      BY <1>1, <2>1, <2>2, <3>1, StoresKeeps
    <3>3. events[i].at \in 0 .. Len(log)
      BY <1>1, <2>2, EventTypes
    <3> QED
      BY <1>1, <2>2, <3>2, <3>3, StoresLog DEF EventsShow
  <2>3. CASE /\ events'[i].key = k /\ events'[i].foo = b
             /\ events'[i].at = Len(log')
    BY <1>1, <1>4, <2>1, <2>3, StoresLog
  <2> QED
    BY <1>3, <2>2, <2>3
<1> QED
  BY <1>5, <1>6, <1>7 DEF TrackerShows, CacheShows, EventsShow

LEMMA StoresAhead ==
  ASSUME TypeOK, EventsAhead,
         NEW k, NEW v, NEW a, NEW b, NEW c, NEW h, Stores(k, v, a, b, c, h)
  PROVE  EventsAhead'
<1>1. /\ Len(events) \in Nat /\ DOMAIN events = 1 .. Len(events) /\ Len(log) \in Nat
      /\ \/ events' = events
         \/ /\ phase = "watching"
            /\ DOMAIN events' = 1 .. Len(events) + 1
            /\ \A i \in DOMAIN events : events'[i] = events[i]
            /\ events'[Len(events) + 1].at = Len(log) + 1
  BY StoresEvents
<1>2. UNCHANGED <<phase, moment>> /\ moment \in [Keys -> 0 .. Len(log)]
  BY DEF Stores, TypeOK
<1>3. /\ \A i \in DOMAIN events : events[i].at \in 1 .. Len(log)
      /\ \A l \in Keys : moment[l] \in 0 .. Len(log)
  BY <1>2, EventTypes
<1>4. CASE events' = events
  BY <1>2, <1>4 DEF EventsAhead
<1>5. CASE /\ phase = "watching"
           /\ DOMAIN events' = 1 .. Len(events) + 1
           /\ \A i \in DOMAIN events : events'[i] = events[i]
           /\ events'[Len(events) + 1].at = Len(log) + 1
  <2>1. ASSUME NEW i \in DOMAIN events', NEW j \in DOMAIN events', i < j
        PROVE  events'[i].at < events'[j].at
    <3>1. i \in DOMAIN events /\ events'[i] = events[i]
      BY <1>1, <1>5, <2>1
    <3>2. CASE j \in DOMAIN events
      BY <1>5, <2>1, <3>1, <3>2 DEF EventsAhead
    <3>3. CASE j = Len(events) + 1
      BY <1>1, <1>3, <1>5, <3>1, <3>3
    <3> QED
      BY <1>1, <1>5, <3>2, <3>3
  <2>2. ASSUME NEW l \in Keys, NEW i \in DOMAIN events'
        PROVE  moment'[l] < events'[i].at
    <3>1. CASE i \in DOMAIN events
      BY <1>2, <1>5, <3>1 DEF EventsAhead
    <3>2. CASE i = Len(events) + 1
      BY <1>1, <1>2, <1>3, <1>5, <3>2
    <3> QED
      BY <1>1, <1>5, <3>1, <3>2
  <2> QED
    BY <1>2, <1>5, <2>1, <2>2 DEF EventsAhead
<1> QED
  BY <1>1, <1>4, <1>5

LEMMA StoresInv ==
  ASSUME Inv, NEW k, NEW v, NEW a, NEW b, NEW c, NEW h, Stores(k, v, a, b, c, h)
  PROVE  Inv'
BY StoresTypes, StoresApart, StoresShows, StoresAhead DEF Inv

\* DeepCopy's answer, made of the i-th new cell, and what is in it.
LEMMA Copied ==
  ASSUME TypeOK, NEW n \in Nat, Room(n), NEW i \in 1 .. n,
         NEW vs, DOMAIN vs = 1 .. n,
         NEW foo \in Foos \cup {None}, foo \in Cells => foo \in Live,
         vs[i] = Value(foo)
  PROVE  /\ DeepCopy(foo, i) \in {None, Nil, Fresh(i)}
         /\ DeepCopy(foo, i) = Fresh(i) => Allocate(vs)[Fresh(i)] \in Values
         /\ ValueIn(Allocate(vs), DeepCopy(foo, i)) = Value(foo)
<1>1. /\ Fresh(i) \in Cells /\ Fresh(i) \notin Live
      /\ Allocate(vs)[Fresh(i)] = vs[i]
  BY FreshCells, Allocated
<1>2. Fresh(i) # None /\ Fresh(i) # Nil
  BY <1>1, LiveTypes
<1>3. CASE foo \in {None, Nil}
  <2>1. DeepCopy(foo, i) = foo
    BY <1>3 DEF DeepCopy
  <2>2. ValueIn(Allocate(vs), foo) = foo /\ Value(foo) = foo
    BY <1>3 DEF ValueIn, Value
  <2> QED
    BY <1>2, <1>3, <2>1, <2>2
<1>4. CASE foo \notin {None, Nil}
  <2>1. DeepCopy(foo, i) = Fresh(i) /\ foo \in Live
    BY <1>4 DEF DeepCopy, Foos
  <2>2. Value(foo) = heap[foo] /\ heap[foo] \in Values
    BY <1>4, <2>1, LiveTypes DEF Value
  <2>3. ValueIn(Allocate(vs), Fresh(i)) = Allocate(vs)[Fresh(i)]
    BY <1>2 DEF ValueIn
  <2> QED
    BY <1>1, <1>2, <1>4, <2>1, <2>2, <2>3 DEF Foos
<1> QED
  BY <1>3, <1>4

\* What Announce does, whatever the phase.
LEMMA Announced ==
  ASSUME TypeOK, NEW k \in Keys, NEW foo, Announce(k, foo)
  PROVE  /\ \/ events' = events
            \/ events' = Append(events, [key |-> k, foo |-> foo, at |-> Len(log) + 1])
         /\ events' = events \/ phase = "watching"
         /\ missed' \subseteq Keys
<1>1. /\ \/ events' = events
         \/ events' = Append(events, [key |-> k, foo |-> foo, at |-> Len(log) + 1])
      /\ events' = events \/ phase = "watching"
  BY Zenon DEF Announce
<1>2. /\ phase = "watch" => missed' = missed \cup {k}
      /\ phase = "watching" => missed' = missed \ {k}
      /\ phase = "list" => missed' = missed
  BY Zenon DEF Announce
<1> QED
  BY <1>1, <1>2 DEF TypeOK

LEMMA WriteStep ==
  ASSUME Inv, NEW k \in Keys, mine # None, Write(k, mine)
  PROVE  Inv'
<1>1. TypeOK
  BY DEF Inv
<1>2. PICK foo : foo = mine
  OBVIOUS
<1>3. PICK v, vs : v = Value(foo) /\ vs = <<v, v, v>>
  OBVIOUS
<1>4. PICK h : h = Allocate(vs)
  OBVIOUS
<1>5. PICK a, b, c : a = DeepCopy(foo, 1) /\ b = DeepCopy(foo, 2) /\ c = DeepCopy(foo, 3)
  OBVIOUS
<1>6. /\ Room(3) /\ Record(k, v) /\ Announce(k, b)
      /\ tracker' = [tracker EXCEPT ![k] = a]
      /\ mine' \in {mine, c}
      /\ heap' = [x \in Live' |-> h[x]]
  BY <1>2, <1>3, <1>4, <1>5 DEF Write, Store, Thrice, Keep
<1>7. foo \in Foos /\ (foo \in Cells => foo \in Live) /\ foo # None
  BY <1>1, <1>2, LiveTypes, LiveCells DEF TypeOK
<1>8. v \in Values \cup {Nil}
  BY <1>1, <1>3, <1>7, LiveTypes DEF Value, Foos
<1>9. /\ \A i \in 1 .. 3 : Fresh(i) \in Cells /\ Fresh(i) \notin Live
      /\ \A i, j \in 1 .. 3 : Fresh(i) = Fresh(j) => i = j
  BY <1>6, FreshCells
<1>10. /\ \A x \in Live : h[x] = heap[x]
       /\ DOMAIN vs = 1 .. 3 /\ \A i \in 1 .. 3 : vs[i] = v
  <2>1. DOMAIN vs = 1 .. 3 /\ \A i \in 1 .. 3 : vs[i] = v
    BY <1>3
  <2> QED
    BY <1>4, <1>6, <2>1, Allocated
<1>11. ASSUME NEW i \in 1 .. 3
       PROVE  /\ DeepCopy(foo, i) \in {None, Nil, Fresh(i)}
              /\ DeepCopy(foo, i) = Fresh(i) => h[Fresh(i)] \in Values
              /\ ValueIn(h, DeepCopy(foo, i)) = v
  <2>1. /\ vs[i] = Value(foo) /\ foo \in Foos \cup {None}
        /\ foo \in Cells => foo \in Live
        /\ 3 \in Nat /\ Room(3) /\ DOMAIN vs = 1 .. 3
    BY <1>3, <1>6, <1>7, <1>10
  <2>2. /\ DeepCopy(foo, i) \in {None, Nil, Fresh(i)}
        /\ DeepCopy(foo, i) = Fresh(i) => Allocate(vs)[Fresh(i)] \in Values
        /\ ValueIn(Allocate(vs), DeepCopy(foo, i)) = Value(foo)
    BY <1>1, <2>1, Copied, Zenon
  <2> QED
    BY <1>3, <1>4, <2>2
<1>12. /\ a \in {None, Nil, Fresh(1)} /\ (a = Fresh(1) => h[a] \in Values)
       /\ b \in {None, Nil, Fresh(2)} /\ (b = Fresh(2) => h[b] \in Values)
       /\ c \in {None, Nil, Fresh(3)} /\ (c = Fresh(3) => h[c] \in Values)
       /\ ValueIn(h, a) = v /\ ValueIn(h, b) = v
  BY <1>5, <1>11
<1>13. /\ a \in Foos \cup {None} /\ b \in Foos \cup {None} /\ c \in Foos \cup {None}
       /\ a \in Cells => a \notin Live /\ a # b /\ a # c /\ h[a] \in Values
       /\ b \in Cells => b \notin Live /\ b # c /\ h[b] \in Values
       /\ c \in Cells => c \notin Live /\ h[c] \in Values
  BY <1>1, <1>9, <1>12, LiveTypes DEF Foos
<1>14. Stores(k, v, a, b, c, h)
  BY <1>1, <1>6, <1>8, <1>10, <1>12, <1>13, Announced DEF Stores, Record
<1> QED
  BY <1>14, StoresInv

LEMMA PatchStep ==
  ASSUME Inv, NEW k \in Keys, NEW v \in Values \cup {Nil}, Patch(k, v)
  PROVE  Inv'
<1>1. TypeOK
  BY DEF Inv
<1>2. PICK vs, h : vs = <<v, v, v>> /\ h = Allocate(vs)
  OBVIOUS
<1>3. PICK a, b, c : a = Made(v, 1) /\ b = Made(v, 2) /\ c = Made(v, 3)
  OBVIOUS
<1>4. /\ Room(3) /\ Record(k, v) /\ Announce(k, b)
      /\ tracker' = [tracker EXCEPT ![k] = a]
      /\ mine' = c
      /\ heap' = [x \in Live' |-> h[x]]
  BY <1>2, <1>3 DEF Patch, Thrice, Keep
<1>5. /\ \A i \in 1 .. 3 : Fresh(i) \in Cells /\ Fresh(i) \notin Live
      /\ \A i, j \in 1 .. 3 : Fresh(i) = Fresh(j) => i = j
  BY <1>4, FreshCells
<1>6. DOMAIN vs = 1 .. 3 /\ \A i \in 1 .. 3 : vs[i] = v
  BY <1>2
<1>7. /\ \A x \in Live : h[x] = heap[x]
      /\ \A i \in 1 .. 3 : h[Fresh(i)] = v
  <2>1. /\ \A x \in Live : Allocate(vs)[x] = heap[x]
        /\ \A i \in 1 .. 3 : Allocate(vs)[Fresh(i)] = vs[i]
    BY <1>4, <1>6, Allocated, Zenon
  <2> QED
    BY <1>2, <1>6, <2>1
<1>8. CASE v = Nil
  <2>1. a = Nil /\ b = Nil /\ c = Nil
    BY <1>3, <1>8 DEF Made
  <2>2. Nil \notin Cells /\ ValueIn(h, Nil) = v
    BY <1>1, <1>8, LiveTypes DEF ValueIn
  <2>3. Stores(k, v, a, b, c, h)
    BY <1>1, <1>4, <1>7, <2>1, <2>2, Announced DEF Stores, Record, Foos
  <2> QED
    BY <2>3, StoresInv
<1>9. CASE v # Nil
  <2>1. /\ a \in Cells /\ b \in Cells /\ c \in Cells
        /\ a \notin Live /\ b \notin Live /\ c \notin Live
        /\ a # b /\ a # c /\ b # c
        /\ h[a] = v /\ h[b] = v /\ h[c] = v
        /\ v \in Values
    BY <1>3, <1>5, <1>7, <1>9 DEF Made
  <2>2. ValueIn(h, a) = v /\ ValueIn(h, b) = v
    BY <1>1, <2>1, LiveTypes DEF ValueIn
  <2>3. Stores(k, v, a, b, c, h)
    BY <1>1, <1>4, <1>7, <2>1, <2>2, Announced DEF Stores, Record, Foos
  <2> QED
    BY <2>3, StoresInv
<1> QED
  BY <1>8, <1>9

LEMMA DeleteStep ==
  ASSUME Inv, NEW k \in Keys, Delete(k)
  PROVE  Inv'
<1>1. TypeOK
  BY DEF Inv
<1>2. PICK h : h = heap
  OBVIOUS
<1>3. /\ Record(k, None) /\ Announce(k, None)
      /\ tracker' = [tracker EXCEPT ![k] = None]
      /\ mine' = mine
      /\ heap' = [x \in Live' |-> h[x]]
  BY <1>2 DEF Delete, Keep
<1>4. None \notin Cells /\ ValueIn(h, None) = None
  BY FakeAssumption DEF ValueIn
<1>5. Stores(k, None, None, None, None, h)
  BY <1>1, <1>2, <1>3, <1>4, Announced DEF Stores, Record
<1> QED
  BY <1>5, StoresInv

-----------------------------------------------------------------------------
(* Reads, and the client's own Foos.                                       *)

\* h has the cells of the heap, and heap' those of h that stay in use.
Keeps(h) ==
    /\ \A x \in Live : h[x] = heap[x]
    /\ heap' = [x \in Live' |-> h[x]]

LEMMA KeepsValue ==
  ASSUME NEW h, Keeps(h), NEW foo, foo \in Live \cup {None, Nil}, foo \in Live' \cup {None, Nil}
  PROVE  ValueIn(heap', foo) = ValueIn(heap, foo)
BY DEF ValueIn, Keeps

\* The tracker, the cache or the events show the same after a step that leaves
\* them alone.
LEMMA KeepsTracker ==
  ASSUME TypeOK, TrackerShows, NEW h, Keeps(h), UNCHANGED <<tracker, log>>
  PROVE  TrackerShows'
<1>1. ASSUME NEW l \in Keys
      PROVE  ValueIn(heap', tracker[l]) = StoredIn(log, l, Len(log))
  <2>1. tracker[l] \in Live \cup {None, Nil} /\ tracker[l] \in Live' \cup {None, Nil}
    BY LiveCells, LiveCellsNext
  <2> QED
    BY <2>1, KeepsValue DEF TrackerShows
<1> QED
  BY <1>1 DEF TrackerShows

LEMMA KeepsCache ==
  ASSUME TypeOK, CacheShows, NEW h, Keeps(h), UNCHANGED <<cache, log, moment>>
  PROVE  CacheShows'
<1>1. ASSUME NEW l \in Keys
      PROVE  ValueIn(heap', cache[l]) = StoredIn(log, l, moment[l])
  <2>1. cache[l] \in Live \cup {None, Nil} /\ cache[l] \in Live' \cup {None, Nil}
    BY LiveCells, LiveCellsNext
  <2> QED
    BY <2>1, KeepsValue DEF CacheShows
<1> QED
  BY <1>1 DEF CacheShows

LEMMA KeepsEvents ==
  ASSUME TypeOK, EventsShow, NEW h, Keeps(h), UNCHANGED <<events, log>>
  PROVE  EventsShow'
<1>1. ASSUME NEW i \in DOMAIN events
      PROVE  ValueIn(heap', events[i].foo) = StoredIn(log, events[i].key, events[i].at)
  <2>1. events[i].foo \in Live \cup {None, Nil} /\ events[i].foo \in Live' \cup {None, Nil}
    BY LiveCells, LiveCellsNext
  <2> QED
    BY <2>1, KeepsValue DEF EventsShow
<1> QED
  BY <1>1 DEF EventsShow

\* The client goes on with c, to change it or to look at it.
Takes(c, h) ==
    /\ c \in Foos \cup {None}
    /\ \/ mine' = c /\ borrowed' = borrowed /\ (c \in Cells => c \notin Live)
       \/ borrowed' = c /\ mine' = mine /\ (c \in Cells => c # mine)
    /\ c \in Cells => h[c] \in Values
    /\ UNCHANGED <<tracker, phase, events, cache, log, moment, missed>>
    /\ Keeps(h)

LEMMA TakesTypes ==
  ASSUME TypeOK, NEW c, NEW h, Takes(c, h)
  PROVE  TypeOK'
<1>1. /\ UNCHANGED <<tracker, phase, events, cache, log, moment, missed>>
      /\ mine' \in {mine, c} /\ borrowed' \in {borrowed, c}
      /\ c \in Foos \cup {None} /\ (c \in Cells => h[c] \in Values)
      /\ Keeps(h)
  BY DEF Takes
<1>2. ASSUME NEW x \in Live' PROVE h[x] \in Values
  <2>1. x # None /\ x # Nil
    BY LiveCellsNext
  <2>2. \/ \E l \in Keys : x = tracker[l] \/ x = cache[l]
        \/ \E i \in DOMAIN events : x = events[i].foo
        \/ x = mine \/ x = borrowed
        \/ x = c
    BY <1>1, LiveCellsNext
  <2>3. x \in Live \/ (x = c /\ x \in Cells)
    BY <1>1, <2>1, <2>2, LiveCells DEF Foos
  <2> QED
    BY <1>1, <2>3, LiveTypes DEF Keeps
<1>3. heap' \in [Live' -> Values]
  BY <1>1, <1>2 DEF Keeps
<1> QED
  BY <1>1, <1>3 DEF TypeOK

LEMMA TakesApart ==
  ASSUME TypeOK, Apart, NEW c, NEW h, Takes(c, h)
  PROVE  Apart'
<1>1. UNCHANGED <<tracker, events, cache>>
  BY DEF Takes
<1>2. CASE mine' = c /\ borrowed' = borrowed /\ (c \in Cells => c \notin Live)
  <2>1. ASSUME c \in Cells
        PROVE  /\ \A l \in Keys : c # tracker[l] /\ c # cache[l]
               /\ \A i \in DOMAIN events : c # events[i].foo
               /\ c # borrowed
    BY <1>2, <2>1, LiveTypes, LiveCells
  <2> QED
    BY <1>1, <1>2, <2>1 DEF Apart
<1>3. CASE borrowed' = c /\ mine' = mine /\ (c \in Cells => c # mine)
  BY <1>1, <1>3 DEF Apart
<1> QED
  BY <1>2, <1>3 DEF Takes

LEMMA TakesInv ==
  ASSUME Inv, NEW c, NEW h, Takes(c, h)
  PROVE  Inv'
<1>1. UNCHANGED <<tracker, phase, events, cache, log, moment>> /\ Keeps(h)
  BY DEF Takes
<1>2. EventsAhead'
  BY <1>1 DEF Inv, EventsAhead
<1> QED
  BY <1>1, <1>2, TakesTypes, TakesApart, KeepsTracker, KeepsCache, KeepsEvents DEF Inv

\* A copy of one Foo is taken.
LEMMA CopyTaken ==
  ASSUME Inv, NEW foo \in Foos \cup {None}, foo \in Cells => foo \in Live, Room(1),
         \/ mine' = DeepCopy(foo, 1) /\ UNCHANGED borrowed
         \/ borrowed' = DeepCopy(foo, 1) /\ UNCHANGED mine,
         UNCHANGED <<tracker, phase, events, cache, log, moment, missed>>,
         Keep(Allocate(<<Value(foo)>>))
  PROVE  Inv'
<1>1. PICK vs, h, c : vs = <<Value(foo)>> /\ h = Allocate(vs) /\ c = DeepCopy(foo, 1)
  OBVIOUS
<1>2. TypeOK /\ DOMAIN vs = 1 .. 1 /\ vs[1] = Value(foo) /\ 1 \in Nat /\ 1 \in 1 .. 1
  BY <1>1 DEF Inv
<1>3. Fresh(1) \in Cells /\ Fresh(1) \notin Live
  BY <1>2, FreshCells
<1>4. \A x \in Live : h[x] = heap[x]
  BY <1>1, <1>2, Allocated
<1>5. /\ DeepCopy(foo, 1) \in {None, Nil, Fresh(1)}
      /\ DeepCopy(foo, 1) = Fresh(1) => Allocate(vs)[Fresh(1)] \in Values
  BY <1>2, Copied, Zenon
<1>6. c \in Foos \cup {None} /\ (c \in Cells => c = Fresh(1) /\ h[c] \in Values)
  BY <1>1, <1>2, <1>3, <1>5, LiveTypes DEF Foos
<1>7. c \in Cells => c \notin Live /\ c # mine
  BY <1>2, <1>3, <1>6, LiveTypes, LiveCells
<1>8. Takes(c, h)
  BY <1>1, <1>4, <1>6, <1>7 DEF Takes, Keep, Keeps
<1> QED
  BY <1>8, TakesInv

LEMMA GetStep ==
  ASSUME Inv, NEW k \in Keys, Get(k)
  PROVE  Inv'
<1>1. PICK foo : foo = tracker[k]
  OBVIOUS
<1>2. foo \in Foos \cup {None} /\ (foo \in Cells => foo \in Live)
  BY <1>1, LiveTypes, LiveCells DEF Inv, TypeOK
<1>3. /\ Room(1)
      /\ \/ mine' = DeepCopy(foo, 1) /\ UNCHANGED borrowed
         \/ borrowed' = DeepCopy(foo, 1) /\ UNCHANGED mine
      /\ UNCHANGED <<tracker, phase, events, cache, log, moment, missed>>
      /\ Keep(Allocate(<<Value(foo)>>))
  BY <1>1 DEF Get, Hold
<1> QED
  BY <1>2, <1>3, CopyTaken

LEMMA CopyBorrowedStep ==
  ASSUME Inv, CopyBorrowed
  PROVE  Inv'
<1>1. PICK foo : foo = borrowed
  OBVIOUS
<1>2. foo \in Foos \cup {None} /\ (foo \in Cells => foo \in Live)
  BY <1>1, LiveTypes, LiveCells DEF Inv, TypeOK
<1>3. /\ Room(1)
      /\ mine' = DeepCopy(foo, 1) /\ UNCHANGED borrowed
      /\ UNCHANGED <<tracker, phase, events, cache, log, moment, missed>>
      /\ Keep(Allocate(<<Value(foo)>>))
  BY <1>1 DEF CopyBorrowed
<1> QED
  BY <1>2, <1>3, CopyTaken

LEMMA MakeFooStep ==
  ASSUME Inv, NEW v \in Values \cup {Nil}, MakeFoo(v)
  PROVE  Inv'
<1>1. PICK vs, h, c : /\ vs = <<v>> /\ h = Allocate(vs)
                      /\ c = Made(v, 1)
  OBVIOUS
<1>2. TypeOK /\ DOMAIN vs = 1 .. 1 /\ vs[1] = v /\ Room(1) /\ 1 \in Nat /\ 1 \in 1 .. 1
  BY <1>1 DEF Inv, MakeFoo
<1>3. Fresh(1) \in Cells /\ Fresh(1) \notin Live
  BY <1>2, FreshCells
<1>4. /\ \A x \in Live : h[x] = heap[x]
      /\ h[Fresh(1)] = v
  BY <1>1, <1>2, Allocated
<1>5. /\ c \in Foos \cup {None}
      /\ c \in Cells => c \notin Live /\ h[c] \in Values
  BY <1>1, <1>2, <1>3, <1>4, LiveTypes DEF Foos, Made
<1>6. Takes(c, h)
  BY <1>1, <1>4, <1>5 DEF MakeFoo, Takes, Keep, Keeps
<1> QED
  BY <1>6, TakesInv

LEMMA ListerGetStep ==
  ASSUME Inv, NEW k \in Keys, ListerGet(k)
  PROVE  Inv'
<1>1. PICK h, c : h = heap /\ c = cache[k]
  OBVIOUS
<1>2. c \in Foos \cup {None} /\ (c \in Cells => c \in Live)
  BY <1>1, LiveTypes, LiveCells DEF Inv, TypeOK
<1>3. c \in Cells => c # mine /\ h[c] \in Values
  BY <1>1, <1>2, LiveTypes DEF Inv, Apart
<1>4. Takes(c, h)
  BY <1>1, <1>2, <1>3 DEF ListerGet, Takes, Keep, Keeps
<1> QED
  BY <1>4, TakesInv

\* *mine.Spec.Replicas = v: nobody else's Foo changes.
LEMMA ChangeStep ==
  ASSUME Inv, NEW v \in Values, Change(v)
  PROVE  Inv'
<1>1. /\ mine \in Cells
      /\ UNCHANGED <<tracker, phase, events, cache, mine, borrowed, log, moment, missed>>
      /\ heap' = [heap EXCEPT ![mine] = v]
  BY DEF Change
<1>2. TypeOK /\ Apart /\ TrackerShows /\ CacheShows /\ EventsShow /\ EventsAhead
  BY DEF Inv
<1>3. Live' = Live
  BY <1>1 DEF Live
<1>4. heap \in [Live -> Values] /\ heap' \in [Live' -> Values]
  BY <1>1, <1>2, <1>3 DEF TypeOK
<1>5. TypeOK'
  BY <1>1, <1>2, <1>4 DEF TypeOK
<1>6. Apart' /\ EventsAhead'
  BY <1>1, <1>2 DEF Apart, EventsAhead
<1>7. ASSUME NEW foo, foo \in Live \cup {None, Nil}, foo # mine
      PROVE  ValueIn(heap', foo) = ValueIn(heap, foo)
  BY <1>1, <1>4, <1>7 DEF ValueIn
<1>8. ASSUME NEW l \in Keys
      PROVE  /\ ValueIn(heap', tracker[l]) = ValueIn(heap, tracker[l])
             /\ ValueIn(heap', cache[l]) = ValueIn(heap, cache[l])
  <2>1. tracker[l] \in Live \cup {None, Nil} /\ cache[l] \in Live \cup {None, Nil}
    BY LiveCells
  <2>2. mine # tracker[l] /\ mine # cache[l]
    BY <1>1, <1>2 DEF Apart
  <2> QED
    BY <1>7, <2>1, <2>2
<1>9. ASSUME NEW i \in DOMAIN events
      PROVE  ValueIn(heap', events[i].foo) = ValueIn(heap, events[i].foo)
  <2>1. events[i].foo \in Live \cup {None, Nil}
    BY LiveCells
  <2>2. mine # events[i].foo
    BY <1>1, <1>2 DEF Apart
  <2> QED
    BY <1>7, <2>1, <2>2
<1>10. TrackerShows'
  BY <1>1, <1>2, <1>8 DEF TrackerShows
<1>11. CacheShows'
  BY <1>1, <1>2, <1>8 DEF CacheShows
<1>12. EventsShow'
  BY <1>1, <1>2, <1>9 DEF EventsShow
<1> QED
  BY <1>5, <1>6, <1>10, <1>11, <1>12 DEF Inv

-----------------------------------------------------------------------------
(* The informer.                                                           *)

\* The list, with the i-th key's copy in the i-th new cell.
LEMMA ListMakes ==
  ASSUME TypeOK, List
  PROVE  \E h, at :
           /\ Keeps(h)
           /\ \A k, l \in Keys : Fresh(at[k]) = Fresh(at[l]) => k = l
           /\ \A k \in Keys : /\ Fresh(at[k]) \in Cells /\ Fresh(at[k]) \notin Live
                              /\ cache'[k] \in {None, Nil, Fresh(at[k])}
                              /\ cache'[k] = Fresh(at[k]) => h[cache'[k]] \in Values
                              /\ ValueIn(h, cache'[k]) = ValueIn(heap, tracker[k])
           /\ cache' = [k \in Keys |-> cache'[k]]
<1>1. PICK keys, n : keys = SetToSeq(Keys) /\ n = Cardinality(Keys)
  OBVIOUS
<1>2. PICK at, vs, h : /\ at = [k \in Keys |-> CHOOSE i \in DOMAIN keys : keys[i] = k]
                       /\ vs = [i \in DOMAIN keys |-> Value(tracker[keys[i]])]
                       /\ h = Allocate(vs)
  OBVIOUS
<1>3. /\ n \in Nat /\ DOMAIN keys = 1 .. n
      /\ \A i, j \in 1 .. n : keys[i] = keys[j] => i = j
      /\ \A k \in Keys : \E i \in 1 .. n : keys[i] = k
  BY <1>1, FakeAssumption, SetToSeqLists
<1>4. /\ Room(n) /\ Keep(h)
      /\ cache' = ListCopy(tracker, at)
  BY <1>1, <1>2 DEF List
<1>5. tracker \in [Keys -> Foos \cup {None}]
  BY DEF TypeOK
<1>6. ASSUME NEW k \in Keys
      PROVE  at[k] \in 1 .. n /\ keys[at[k]] = k
  BY <1>2, <1>3
<1>7. DOMAIN vs = 1 .. n /\ \A k \in Keys : vs[at[k]] = Value(tracker[k])
  BY <1>2, <1>3, <1>6
<1>8. /\ \A i \in 1 .. n : Fresh(i) \in Cells /\ Fresh(i) \notin Live
      /\ \A i, j \in 1 .. n : Fresh(i) = Fresh(j) => i = j
  BY <1>3, <1>4, FreshCells
<1>9. \A x \in Live : h[x] = heap[x]
  BY <1>2, <1>3, <1>4, <1>7, Allocated
<1>10. cache' = [k \in Keys |-> DeepCopy(tracker[k], at[k])]
  BY <1>4, <1>5 DEF ListCopy
<1>11. ASSUME NEW k \in Keys
       PROVE  /\ cache'[k] \in {None, Nil, Fresh(at[k])}
              /\ cache'[k] = Fresh(at[k]) => h[cache'[k]] \in Values
              /\ ValueIn(h, cache'[k]) = ValueIn(heap, tracker[k])
  <2>1. PICK foo, i : foo = tracker[k] /\ i = at[k]
    OBVIOUS
  <2>2. /\ foo \in Foos \cup {None} /\ (foo \in Cells => foo \in Live)
        /\ i \in 1 .. n /\ vs[i] = Value(foo)
        /\ n \in Nat /\ Room(n) /\ DOMAIN vs = 1 .. n
    BY <1>3, <1>4, <1>5, <1>6, <1>7, <2>1, LiveTypes, LiveCells
  <2>3. /\ DeepCopy(foo, i) \in {None, Nil, Fresh(i)}
        /\ DeepCopy(foo, i) = Fresh(i) => Allocate(vs)[Fresh(i)] \in Values
        /\ ValueIn(Allocate(vs), DeepCopy(foo, i)) = Value(foo)
    BY <2>2, Copied, Zenon
  <2>4. Value(foo) = ValueIn(heap, foo)
    BY DEF Value, ValueIn
  <2>5. cache'[k] = DeepCopy(foo, i)
    BY <1>10, <2>1
  <2> QED
    BY <1>2, <2>1, <2>3, <2>4, <2>5
<1>12. /\ Keeps(h)
       /\ \A k, l \in Keys : Fresh(at[k]) = Fresh(at[l]) => k = l
       /\ cache' = [k \in Keys |-> cache'[k]]
  <2>1. \A k, l \in Keys : at[k] = at[l] => k = l
    BY <1>6
  <2>2. \A k, l \in Keys : Fresh(at[k]) = Fresh(at[l]) => k = l
    BY <1>6, <1>8, <2>1
  <2> QED
    BY <1>4, <1>9, <1>10, <2>2 DEF Keeps, Keep
<1> QED
  BY <1>6, <1>8, <1>11, <1>12

LEMMA ListStep ==
  ASSUME Inv, List
  PROVE  Inv'
<1>1. TypeOK /\ Apart /\ TrackerShows /\ EventsAhead
  BY DEF Inv
<1>2. /\ phase = "list" /\ phase' = "watch"
      /\ moment' = [k \in Keys |-> Len(log)]
      /\ UNCHANGED <<tracker, events, mine, borrowed, log, missed>>
  BY DEF List
<1>3. events = <<>> /\ events' = <<>> /\ Len(log) \in Nat
  BY <1>1, <1>2, EventTypes DEF EventsAhead
<1>4. PICK h, at :
        /\ Keeps(h)
        /\ \A k, l \in Keys : Fresh(at[k]) = Fresh(at[l]) => k = l
        /\ \A k \in Keys : /\ Fresh(at[k]) \in Cells /\ Fresh(at[k]) \notin Live
                           /\ cache'[k] \in {None, Nil, Fresh(at[k])}
                           /\ cache'[k] = Fresh(at[k]) => h[cache'[k]] \in Values
                           /\ ValueIn(h, cache'[k]) = ValueIn(heap, tracker[k])
        /\ cache' = [k \in Keys |-> cache'[k]]
  BY <1>1, ListMakes
<1>5. cache' \in [Keys -> Foos \cup {None}]
  <2>1. \A k \in Keys : cache'[k] \in Foos \cup {None}
    BY <1>4 DEF Foos
  <2> QED
    BY <1>4, <2>1
\* The new cells are nobody's.
<1>6. ASSUME NEW k \in Keys, cache'[k] \in Cells
      PROVE  /\ cache'[k] = Fresh(at[k]) /\ h[cache'[k]] \in Values
             /\ \A l \in Keys : cache'[k] # tracker[l]
             /\ cache'[k] # mine
  <2>1. /\ cache'[k] = Fresh(at[k]) /\ cache'[k] \notin Live /\ h[cache'[k]] \in Values
        /\ cache'[k] # None /\ cache'[k] # Nil
    BY <1>1, <1>4, <1>6, LiveTypes
  <2> QED
    BY <2>1, LiveCells
<1>7. heap' \in [Live' -> Values]
  <2>1. ASSUME NEW x \in Live' PROVE h[x] \in Values
    <3>1. x # None /\ x # Nil
      BY LiveCellsNext
    <3>2. \/ \E l \in Keys : x = tracker[l] \/ x = cache'[l]
          \/ x = mine \/ x = borrowed
      BY <1>2, <1>3, LiveCellsNext
    <3>3. x \in Live \/ \E l \in Keys : x = cache'[l] /\ x \in Cells
      BY <1>5, <3>1, <3>2, LiveCells DEF Foos
    <3> QED
      BY <1>1, <1>4, <1>6, <3>3, LiveTypes DEF Keeps
  <2> QED
    BY <1>4, <2>1 DEF Keeps
<1>8. TypeOK'
  BY <1>1, <1>2, <1>3, <1>5, <1>7 DEF TypeOK
<1>9. Apart'
  <2>1. \A k, l \in Keys :
          /\ tracker'[k] \in Cells /\ tracker'[k] = tracker'[l] => k = l
          /\ cache'[k] \in Cells /\ cache'[k] = cache'[l] => k = l
          /\ tracker'[k] \in Cells => tracker'[k] # cache'[l]
    BY <1>1, <1>2, <1>4, <1>6 DEF Apart
  <2>2. mine' \in Cells => /\ mine' # borrowed'
                           /\ \A k \in Keys : mine' \notin {tracker'[k], cache'[k]}
    BY <1>1, <1>2, <1>6 DEF Apart
  <2> QED
    BY <1>3, <2>1, <2>2 DEF Apart
<1>10. TrackerShows'
  BY <1>1, <1>2, <1>4, KeepsTracker
<1>11. CacheShows'
  <2>1. ASSUME NEW k \in Keys
        PROVE  ValueIn(heap', cache'[k]) = StoredIn(log', k, moment'[k])
    <3>1. cache'[k] \in Live' \cup {None, Nil}
      BY LiveCellsNext
    <3>2. ValueIn(heap', cache'[k]) = ValueIn(h, cache'[k])
      BY <1>4, <3>1 DEF ValueIn, Keeps
    <3>3. ValueIn(heap, tracker[k]) = StoredIn(log, k, Len(log))
      BY <1>1 DEF TrackerShows
    <3> QED
      BY <1>2, <1>4, <3>2, <3>3
  <2> QED
    BY <2>1 DEF CacheShows
<1>12. EventsShow' /\ EventsAhead'
  BY <1>2, <1>3 DEF EventsShow, EventsAhead
<1> QED
  BY <1>8, <1>9, <1>10, <1>11, <1>12 DEF Inv

LEMMA WatchStep ==
  ASSUME Inv, Watch
  PROVE  Inv'
<1>1. /\ phase = "watch" /\ phase' = "watching"
      /\ UNCHANGED <<heap, tracker, events, cache, mine, borrowed, log, moment, missed>>
  BY DEF Watch
<1>2. Live' = Live
  BY <1>1 DEF Live
<1>3. TypeOK'
  BY <1>1, <1>2 DEF Inv, TypeOK
<1>4. Apart' /\ TrackerShows' /\ CacheShows' /\ EventsShow' /\ EventsAhead'
  BY <1>1 DEF Inv, Apart, TrackerShows, CacheShows, EventsShow, EventsAhead
<1> QED
  BY <1>3, <1>4 DEF Inv

\* The queue of events, without the first.
LEMMA DeliverEvents ==
  ASSUME TypeOK, Deliver
  PROVE  /\ Len(events) \in Nat \ {0} /\ DOMAIN events = 1 .. Len(events)
         /\ Head(events) = events[1] /\ 1 \in DOMAIN events
         /\ events' \in Seq([key : Keys, foo : Foos \cup {None}, at : 1 .. Len(log)])
         /\ DOMAIN events' = 1 .. Len(events) - 1
         /\ \A i \in DOMAIN events' : events'[i] = events[i + 1] /\ i + 1 \in DOMAIN events
<1> DEFINE E == [key : Keys, foo : Foos \cup {None}, at : 1 .. Len(log)]
<1>1. events \in Seq(E)
  BY DEF TypeOK
<1>2. events # <<>> /\ events' = Tail(events)
  BY DEF Deliver
<1> HIDE DEF E
<1>3. /\ Len(events) \in Nat \ {0} /\ DOMAIN events = 1 .. Len(events)
      /\ Head(events) = events[1]
      /\ events' \in Seq(E) /\ Len(events') = Len(events) - 1
      /\ \A i \in 1 .. Len(events') : events'[i] = events[i + 1]
  BY <1>1, <1>2, HeadTailProperties, LenProperties, EmptySeq
<1>4. DOMAIN events' = 1 .. Len(events')
  BY <1>3, LenProperties
<1> QED
  BY <1>3, <1>4 DEF E

LEMMA DeliverStep ==
  ASSUME Inv, Deliver
  PROVE  Inv'
<1>1. TypeOK /\ Apart /\ TrackerShows /\ CacheShows /\ EventsShow /\ EventsAhead
  BY DEF Inv
<1>2. PICK e, h : e = events[1] /\ h = heap
  OBVIOUS
<1>3. /\ Len(events) \in Nat \ {0} /\ DOMAIN events = 1 .. Len(events)
      /\ Head(events) = events[1] /\ 1 \in DOMAIN events
      /\ DOMAIN events' = 1 .. Len(events) - 1
      /\ \A i \in DOMAIN events' : events'[i] = events[i + 1] /\ i + 1 \in DOMAIN events
  BY <1>1, DeliverEvents
<1>4. /\ cache' = [cache EXCEPT ![e.key] = e.foo]
      /\ moment' = [moment EXCEPT ![e.key] = e.at]
      /\ UNCHANGED <<tracker, phase, mine, borrowed, log, missed>>
      /\ Keeps(h) /\ events # <<>>
  BY <1>2, <1>3 DEF Deliver, Keep, Keeps
<1>5. /\ e.key \in Keys /\ e.foo \in Foos \cup {None} /\ e.at \in 1 .. Len(log)
      /\ Len(log) \in Nat
      /\ cache \in [Keys -> Foos \cup {None}] /\ moment \in [Keys -> 0 .. Len(log)]
  BY <1>1, <1>2, <1>3, EventTypes DEF TypeOK
<1>6. ASSUME NEW k \in Keys
      PROVE  /\ cache'[k] = IF k = e.key THEN e.foo ELSE cache[k]
             /\ moment'[k] = IF k = e.key THEN e.at ELSE moment[k]
  BY <1>4, <1>5
<1>7. ASSUME NEW x \in Live' PROVE x \in Live
  <2>1. x # None /\ x # Nil
    BY LiveCellsNext
  <2>2. \/ \E l \in Keys : x = tracker[l] \/ x = cache[l]
        \/ \E i \in DOMAIN events : x = events[i].foo
        \/ x = mine \/ x = borrowed
    BY <1>2, <1>3, <1>4, <1>6, LiveCellsNext
  <2> QED
    BY <2>1, <2>2, LiveCells
<1>8. TypeOK'
  <2>1. heap' \in [Live' -> Values]
    BY <1>1, <1>2, <1>4, <1>7, LiveTypes DEF Keeps
  <2>2. cache' \in [Keys -> Foos \cup {None}] /\ moment' \in [Keys -> 0 .. Len(log)]
    BY <1>4, <1>5
  <2>3. events' \in Seq([key : Keys, foo : Foos \cup {None}, at : 1 .. Len(log)])
    BY <1>1, DeliverEvents
  <2> QED
    BY <1>1, <1>4, <2>1, <2>2, <2>3 DEF TypeOK
<1>9. Apart'
  \* The event's object is nobody else's.
  <2>1. ASSUME e.foo \in Cells
        PROVE  /\ \A l \in Keys : e.foo # tracker[l] /\ e.foo # cache[l]
               /\ \A i \in DOMAIN events' : e.foo # events'[i].foo
               /\ e.foo # mine
    BY <1>1, <1>2, <1>3, <2>1 DEF Apart
  <2>2. ASSUME NEW l \in Keys, NEW m \in Keys
        PROVE  /\ tracker'[l] \in Cells /\ tracker'[l] = tracker'[m] => l = m
               /\ cache'[l] \in Cells /\ cache'[l] = cache'[m] => l = m
               /\ tracker'[l] \in Cells => tracker'[l] # cache'[m]
    BY <1>1, <1>4, <1>6, <2>1 DEF Apart
  <2>3. ASSUME NEW i \in DOMAIN events', NEW j \in DOMAIN events',
               events'[i].foo \in Cells, events'[i].foo = events'[j].foo
        PROVE  i = j
    <3>1. i + 1 = j + 1
      BY <1>1, <1>3, <2>3 DEF Apart
    <3> QED
      BY <1>3, <3>1
  <2>4. ASSUME NEW l \in Keys, NEW i \in DOMAIN events', events'[i].foo \in Cells
        PROVE  events'[i].foo # tracker'[l] /\ events'[i].foo # cache'[l]
    BY <1>1, <1>3, <1>4, <1>6, <2>1, <2>4 DEF Apart
  <2>5. ASSUME mine' \in Cells
        PROVE  /\ mine' # borrowed'
               /\ \A l \in Keys : mine' # tracker'[l] /\ mine' # cache'[l]
               /\ \A i \in DOMAIN events' : mine' # events'[i].foo
    BY <1>1, <1>3, <1>4, <1>6, <2>1, <2>5 DEF Apart
  <2> QED
    BY <2>2, <2>3, <2>4, <2>5 DEF Apart
<1>10. TrackerShows'
  BY <1>1, <1>4, KeepsTracker
<1>11. ASSUME NEW foo, foo \in Live' \cup {None, Nil}
       PROVE  ValueIn(heap', foo) = ValueIn(heap, foo)
  BY <1>4, <1>7, <1>11, KeepsValue
<1>12. CacheShows'
  <2>1. ASSUME NEW k \in Keys
        PROVE  ValueIn(heap', cache'[k]) = StoredIn(log', k, moment'[k])
    <3>1. ValueIn(heap', cache'[k]) = ValueIn(heap, cache'[k])
      BY <1>11, LiveCellsNext
    <3>2. CASE k = e.key
      BY <1>1, <1>2, <1>3, <1>4, <1>6, <3>1, <3>2 DEF EventsShow
    <3>3. CASE k # e.key
      BY <1>1, <1>4, <1>6, <3>1, <3>3 DEF CacheShows
    <3> QED
      BY <3>2, <3>3
  <2> QED
    BY <2>1 DEF CacheShows
<1>13. EventsShow'
  <2>1. ASSUME NEW i \in DOMAIN events'
        PROVE  ValueIn(heap', events'[i].foo) = StoredIn(log', events'[i].key, events'[i].at)
    <3>1. ValueIn(heap', events'[i].foo) = ValueIn(heap, events'[i].foo)
      BY <1>11, LiveCellsNext
    <3> QED
      BY <1>1, <1>3, <1>4, <3>1 DEF EventsShow
  <2> QED
    BY <2>1 DEF EventsShow
<1>14. EventsAhead'
  <2>1. phase = "watching" /\ phase' = "watching"
    BY <1>1, <1>4 DEF EventsAhead
  <2>2. ASSUME NEW i \in DOMAIN events', NEW j \in DOMAIN events', i < j
        PROVE  events'[i].at < events'[j].at
    <3>1. i + 1 < j + 1
      BY <1>3, <2>2
    <3> QED
      BY <1>1, <1>3, <3>1 DEF EventsAhead
  <2>3. ASSUME NEW k \in Keys, NEW i \in DOMAIN events'
        PROVE  moment'[k] < events'[i].at
    <3>1. 1 < i + 1
      BY <1>3
    <3> QED
      BY <1>1, <1>2, <1>3, <1>6, <3>1 DEF EventsAhead
  <2> QED
    BY <2>1, <2>2, <2>3 DEF EventsAhead
<1> QED
  BY <1>8, <1>9, <1>10, <1>12, <1>13, <1>14 DEF Inv

-----------------------------------------------------------------------------
(* The invariant holds.                                                    *)

LEMMA Initially == Init => Inv
<1> SUFFICES ASSUME Init PROVE Inv
  OBVIOUS
<1>1. /\ heap = <<>> /\ tracker = [k \in Keys |-> None] /\ phase = "list"
      /\ events = <<>> /\ cache = [k \in Keys |-> None]
      /\ mine = None /\ borrowed = None /\ log = <<>>
      /\ moment = [k \in Keys |-> 0] /\ missed = {}
  BY DEF Init
<1>2. None \notin Cells
  BY FakeAssumption
<1>3. Live = {}
  BY <1>1 DEF Live
<1>4. TypeOK
  BY <1>1, <1>3 DEF TypeOK
<1>5. Apart /\ EventsAhead
  BY <1>1, <1>2 DEF Apart, EventsAhead
<1>6. \A k \in Keys : StoredIn(log, k, 0) = None
  BY NothingStoredFirst
<1>7. TrackerShows /\ CacheShows /\ EventsShow
  BY <1>1, <1>6 DEF TrackerShows, CacheShows, EventsShow, ValueIn
<1> QED
  BY <1>4, <1>5, <1>7 DEF Inv

LEMMA Stuttering ==
  ASSUME Inv, UNCHANGED vars
  PROVE  Inv'
<1>1. UNCHANGED <<heap, tracker, phase, events, cache, mine, borrowed, log, moment, missed>>
  BY DEF vars
<1>2. Live' = Live
  BY <1>1 DEF Live
<1> QED
  BY <1>1, <1>2 DEF Inv, TypeOK, Apart, TrackerShows, CacheShows, EventsShow, EventsAhead

LEMMA Step == Inv /\ [Next]_vars => Inv'
<1> SUFFICES ASSUME Inv, [Next]_vars PROVE Inv'
  OBVIOUS
<1>1. ASSUME NEW k \in Keys, Create(k) \/ Update(k) PROVE Inv'
  BY <1>1, WriteStep DEF Create, Update
<1>2. ASSUME NEW k \in Keys, Delete(k) PROVE Inv'
  BY <1>2, DeleteStep
<1>3. ASSUME NEW k \in Keys, Get(k) \/ ListerGet(k) PROVE Inv'
  BY <1>3, GetStep, ListerGetStep
<1>4. ASSUME NEW k \in Keys, NEW v \in Values \cup {Nil}, Patch(k, v) PROVE Inv'
  BY <1>4, PatchStep
<1>5. ASSUME NEW v \in Values \cup {Nil}, MakeFoo(v) PROVE Inv'
  BY <1>5, MakeFooStep
<1>6. ASSUME NEW v \in Values, Change(v) PROVE Inv'
  BY <1>6, ChangeStep
<1>7. CASE CopyBorrowed \/ List \/ Watch \/ Deliver
  BY <1>7, CopyBorrowedStep, ListStep, WatchStep, DeliverStep
<1> QED
  BY <1>1, <1>2, <1>3, <1>4, <1>5, <1>6, <1>7, Stuttering DEF Next

\* The inductive invariant: owners share no cell, the tracker shows the last
\* writes, and the cache and the events, in order, show earlier ones.
THEOREM Invariance == Safety => []IInv
<1>1. Init => IInv
  BY Initially, Before DEF InvIsIInv
<1>2. IInv /\ [Next]_vars => IInv'
  BY Step, Before, After DEF InvIsIInv
<1> QED
  BY <1>1, <1>2, PTL DEF Safety

\* The variables keep their types: exactly the cells in use hold a number.
THEOREM TypeCorrect == Safety => []TypeOK
<1>1. IInv => TypeOK
  BY DEF IInv
<1> QED
  BY <1>1, Invariance, PTL

\* A set without two members has one at most.
LEMMA OneAtMost ==
  ASSUME NEW S, \A x, y \in S : x = y
  PROVE  Cardinality(S) <= 1
<1>1. CASE S = {}
  BY <1>1, FS_EmptySet
<1>2. CASE S # {}
  <2>1. PICK x : x \in S
    BY <1>2
  <2>2. S = {x}
    BY <2>1
  <2> QED
    BY <2>2, FS_Singleton
<1> QED
  BY <1>1, <1>2

\* Whatever clients create, read, copy and change, and however the informer's list
\* and events come in between, no two owners of Foos own the same memory.
THEOREM NothingShared == Safety => []Unshared
<1>1. IInv => Unshared
  <2> SUFFICES ASSUME IInv PROVE Unshared
    OBVIOUS
  <2>1. TypeOK /\ Apart
    BY DEF IInv
  <2>2. ASSUME NEW c \in Live PROVE Cardinality(Owners(c)) <= 1
    <3> DEFINE inTracker == {<<"tracker", k>> : k \in {k \in Keys : tracker[k] = c}}
               inEvents == {<<"event", i>> : i \in {i \in DOMAIN events : events[i].foo = c}}
               inCache == {<<"cache", k>> : k \in {k \in Keys : cache[k] = c}}
               isMine == {<<"mine", o>> : o \in {mine} \cap {c}}
    <3>1. c \in Cells
      BY <2>1, LiveTypes
    <3>2. /\ \A x, y \in inTracker : x = y
          /\ \A x, y \in inEvents : x = y
          /\ \A x, y \in inCache : x = y
          /\ \A x, y \in isMine : x = y
      BY <2>1, <3>1 DEF Apart
    <3>3. /\ inTracker # {} => inEvents = {} /\ inCache = {} /\ isMine = {}
          /\ inEvents # {} => inCache = {} /\ isMine = {}
          /\ inCache # {} => isMine = {}
      BY <2>1, <3>1 DEF Apart
    <3>4. Owners(c) = inTracker \cup inEvents \cup inCache \cup isMine
      BY Zenon DEF Owners
    <3> HIDE DEF inTracker, inEvents, inCache, isMine
    <3>5. \A x, y \in Owners(c) : x = y
      BY <3>2, <3>3, <3>4
    <3> QED
      BY <3>5, OneAtMost
  <2> QED
    BY <2>1, <2>2 DEF Unshared, Apart
<1> QED
  BY <1>1, Invariance, PTL

\* The tracker holds what was written: no later change of an object that was passed
\* to it, or that it handed out, shows in it.
THEOREM WritesKept == Safety => []TrackerKeepsWrites
<1>1. IInv => TrackerKeepsWrites
  BY DEF IInv
<1> QED
  BY <1>1, Invariance, PTL

-----------------------------------------------------------------------------
(* The informer's cache implements Replica.                                *)

Copy == [k \in Keys |-> Value(cache[k])]

LEMMA CopyIs == Copy = [k \in Keys |-> ValueIn(heap, cache[k])]
BY DEF Copy, Value, ValueIn

LEMMA CopyNext == Copy' = [k \in Keys |-> ValueIn(heap', cache'[k])]
BY DEF Copy, Value, ValueIn

\* One more entry in the log, and the cache alone, is a write.
LEMMA StoresExtends ==
  ASSUME Inv, NEW k \in Keys, NEW v \in Values \cup {Nil, None},
         log' = Append(log, [key |-> k, obj |-> v]), UNCHANGED <<cache, moment>>, Inv'
  PROVE  R!Extend
<1> DEFINE entry == [key |-> k, obj |-> v]
           W == [key : Keys, obj : Values \cup {Nil, None}]
<1>1. log \in Seq(W) /\ entry \in W /\ log' = Append(log, entry)
  BY DEF Inv, TypeOK
<1> HIDE DEF entry, W
<1>2. /\ Len(log) \in Nat /\ log' \in Seq(W) /\ Len(log') = Len(log) + 1
      /\ \A i \in 1 .. Len(log) : log'[i] = log[i]
  BY <1>1, AppendProperties, LenProperties
<1>3. SubSeq(log', 1, Len(log)) = log
  <2>1. \A i \in 1 .. Len(log) : log'[i] \in W
    BY <1>1, <1>2, ElementOfSeq
  <2>2. /\ SubSeq(log', 1, Len(log)) \in Seq(W)
        /\ Len(SubSeq(log', 1, Len(log))) = Len(log)
        /\ \A i \in 1 .. Len(log) : SubSeq(log', 1, Len(log))[i] = log'[i]
    BY <1>2, <2>1, SubSeqProperties
  <2> QED
    BY <1>1, <1>2, <2>2, SeqEqual
<1>4. ASSUME NEW l \in Keys
      PROVE  ValueIn(heap', cache'[l]) = ValueIn(heap, cache[l])
  <2>1. moment[l] \in 0 .. Len(log) /\ Len(log) \in Nat
    BY <1>2 DEF Inv, TypeOK
  <2>2. PICK p : p = moment[l]
    OBVIOUS
  <2>3. p \in Nat /\ \A i \in 1 .. p : log'[i] = log[i]
    BY <1>2, <2>1, <2>2
  <2>4. StoredIn(log', l, p) = StoredIn(log, l, p)
    BY <2>3, StoredStays
  <2>5. /\ ValueIn(heap, cache[l]) = StoredIn(log, l, moment[l])
        /\ ValueIn(heap', cache'[l]) = StoredIn(log', l, moment'[l])
    BY DEF Inv, CacheShows
  <2> QED
    BY <2>2, <2>4, <2>5
<1>5. Copy' = Copy
  BY <1>4, CopyIs, CopyNext
<1> QED
  BY <1>2, <1>3, <1>5 DEF R!Extend, Copy

\* A step that leaves the log and the cache's moments alone leaves the copy alone.
LEMMA CopyStays ==
  ASSUME Inv, Inv', UNCHANGED <<log, moment>>
  PROVE  UNCHANGED <<log, Copy, moment>>
<1>1. \A l \in Keys : ValueIn(heap', cache'[l]) = ValueIn(heap, cache[l])
  BY DEF Inv, CacheShows
<1> QED
  BY <1>1, CopyIs, CopyNext

\* The list moves all keys to its moment, ...
LEMMA ListAdvances ==
  ASSUME Inv, Inv', List
  PROVE  R!AdvanceAll
<1> DEFINE p == [k \in Keys |-> Len(log)]
<1>1. phase = "list" /\ moment' = p /\ UNCHANGED log
  BY DEF List
<1>2. Len(log) \in Nat /\ moment = [k \in Keys |-> 0]
  BY <1>1, EventTypes DEF Inv, EventsAhead
<1>3. p \in [Keys -> 0 .. Len(log)] /\ \A k \in Keys : moment[k] <= p[k]
  BY <1>2
<1>4. \A k \in Keys : ValueIn(heap', cache'[k]) = R!StoredAt(k, p[k])
  BY <1>1, StoredIsStoredIn DEF Inv, CacheShows
<1>5. Copy' = [k \in Keys |-> R!StoredAt(k, p[k])]
  BY <1>4, CopyNext
<1> HIDE DEF p
<1> QED
  BY <1>1, <1>3, <1>5 DEF R!AdvanceAll, Copy

\* ... and an event one key to a later one.
LEMMA DeliverAdvances ==
  ASSUME Inv, Inv', Deliver
  PROVE  \E k \in Keys : R!Advance(k)
<1>1. PICK e, k, p : e = events[1] /\ k = e.key /\ p = e.at
  OBVIOUS
<1>2. Head(events) = events[1] /\ 1 \in DOMAIN events
  BY DeliverEvents DEF Inv
<1>3. k \in Keys /\ p \in 1 .. Len(log) /\ Len(log) \in Nat
  BY <1>1, <1>2, EventTypes DEF Inv
<1>4. moment[k] < p /\ moment \in [Keys -> 0 .. Len(log)]
  BY <1>1, <1>2, <1>3 DEF Inv, EventsAhead, TypeOK
<1>5. moment' = [moment EXCEPT ![k] = p] /\ UNCHANGED log
  BY <1>1, <1>2 DEF Deliver
<1>6. p \in moment[k] .. Len(log)
  BY <1>3, <1>4
<1>7. ASSUME NEW l \in Keys
      PROVE  ValueIn(heap', cache'[l]) = IF l = k THEN R!StoredAt(k, p)
                                         ELSE ValueIn(heap, cache[l])
  <2>1. moment'[l] = IF l = k THEN p ELSE moment[l]
    BY <1>4, <1>5
  <2>2. /\ ValueIn(heap, cache[l]) = StoredIn(log, l, moment[l])
        /\ ValueIn(heap', cache'[l]) = StoredIn(log', l, moment'[l])
    BY DEF Inv, CacheShows
  <2> QED
    BY <1>5, <2>1, <2>2, StoredIsStoredIn
<1>8. Copy' = [Copy EXCEPT ![k] = R!StoredAt(k, p)]
  BY <1>3, <1>7, CopyIs, CopyNext
<1> QED
  BY <1>3, <1>5, <1>6, <1>8 DEF R!Advance, Copy

\* Whatever is written, read and changed, each key of the cache, read through the
\* lister, goes from one moment of the tracker's past to a later one.
THEOREM ImplementsReplica == Safety => RefinesReplica
<1>1. Init => R!ReplicaInit
  <2> SUFFICES ASSUME Init PROVE R!ReplicaInit
    OBVIOUS
  <2>1. \A k \in Keys : Value(cache[k]) = None
    BY DEF Init, Value
  <2> QED
    BY <2>1 DEF Init, R!ReplicaInit
<1>2. IInv /\ IInv' /\ [Next]_vars => [R!ReplicaNext]_<<log, Copy, moment>>
  <2> SUFFICES ASSUME IInv, IInv', [Next]_vars
               PROVE  R!ReplicaNext \/ UNCHANGED <<log, Copy, moment>>
    OBVIOUS
  <2>1. Inv /\ Inv'
    BY Before, After DEF InvIsIInv
  <2>2. ASSUME NEW k \in Keys, Create(k) \/ Update(k) PROVE R!Extend
    <3>1. PICK v : v = Value(mine)
      OBVIOUS
    <3>2. /\ log' = Append(log, [key |-> k, obj |-> v])
          /\ UNCHANGED <<cache, moment>>
      BY <2>2, <3>1 DEF Create, Update, Write, Record
    <3>3. v \in Values \cup {Nil, None}
      <4>1. mine \in Cells => heap[mine] \in Values
        BY <2>1, LiveTypes, LiveCells DEF Inv
      <4> QED
        BY <2>1, <3>1, <4>1 DEF Inv, TypeOK, Foos, Value
    <3> QED
      BY <2>1, <3>2, <3>3, StoresExtends
  <2>3. ASSUME NEW k \in Keys, Delete(k) PROVE R!Extend
    BY <2>1, <2>3, StoresExtends DEF Delete, Record
  <2>4. ASSUME NEW k \in Keys, NEW v \in Values \cup {Nil}, Patch(k, v) PROVE R!Extend
    BY <2>1, <2>4, StoresExtends DEF Patch, Record
  <2>5. ASSUME NEW k \in Keys, Get(k) \/ ListerGet(k) PROVE UNCHANGED <<log, moment>>
    BY <2>5 DEF Get, Hold, ListerGet
  <2>6. ASSUME NEW v, MakeFoo(v) \/ Change(v) PROVE UNCHANGED <<log, moment>>
    BY <2>6 DEF MakeFoo, Change
  <2>7. CASE CopyBorrowed \/ Watch
    BY <2>1, <2>7, CopyStays DEF CopyBorrowed, Watch
  <2>8. CASE List
    BY <2>1, <2>8, ListAdvances DEF R!ReplicaNext
  <2>9. CASE Deliver
    BY <2>1, <2>9, DeliverAdvances DEF R!ReplicaNext
  <2>10. CASE UNCHANGED vars
    BY <2>1, <2>10, CopyStays DEF vars
  <2> QED
    BY <2>1, <2>2, <2>3, <2>4, <2>5, <2>6, <2>7, <2>8, <2>9, <2>10, CopyStays
       DEF Next, R!ReplicaNext
<1> QED
  BY <1>1, <1>2, Invariance, PTL DEF Safety, RefinesReplica, R!ReplicaSpec, Copy

=============================================================================
