--------------------------- MODULE InformersProofs ---------------------------
(***************************************************************************)
(* What the steps of Informers preserve, for any kinds, keys and objects:  *)
(* the types, and that each cache trails its store, but for the objects    *)
(* whose deletion DeltaFIFO's Replace has overlooked.                      *)
(***************************************************************************)
EXTENDS Informers, SequenceTheorems, TLAPS

Good == TypeOK /\ CacheTrails

\* A stored object is not taken for the mark of a deletion.
Distinct == \A kind \in Kinds : Tombstone \notin Objects[kind]

-----------------------------------------------------------------------------
(* Sequences of deltas.                                                    *)

LEMMA AppendFacts ==
    ASSUME NEW S, NEW p \in Seq(S), NEW d \in S
    PROVE  LET q == Append(p, d) IN
           /\ q \in Seq(S) /\ q # <<>>
           /\ Len(q) = Len(p) + 1 /\ Len(p) \in Nat
           /\ q[Len(q)] = d /\ Newest(q) = d
           /\ \A i \in 1 .. Len(p) : q[i] = p[i]
BY AppendProperties, LenProperties, EmptySeq DEF Newest

LEMMA TailFacts ==
    ASSUME NEW S, NEW p \in Seq(S), p # <<>>
    PROVE  LET q == Tail(p) IN
           /\ q \in Seq(S)
           /\ Len(p) \in Nat \ {0} /\ Len(q) = Len(p) - 1
           /\ Head(p) = p[1] /\ Head(p) \in S
           /\ \A i \in 1 .. Len(q) : q[i] = p[i + 1]
           /\ Newest(p) = IF q = <<>> THEN Head(p) ELSE Newest(q)
<1> DEFINE q == Tail(p)
<1>1. /\ q \in Seq(S)
      /\ Len(p) \in Nat \ {0} /\ Len(q) = Len(p) - 1
      /\ Head(p) = p[1] /\ Head(p) \in S
      /\ \A i \in 1 .. Len(q) : q[i] = p[i + 1]
  BY HeadTailProperties, LenProperties, EmptySeq
<1>2. CASE q = <<>>
  <2>1. Len(q) = 0
    BY <1>2, EmptySeq
  <2>2. Len(p) = 1
    BY <2>1, <1>1
  <2> QED BY <1>1, <1>2, <2>2 DEF Newest
<1>3. CASE q # <<>>
  <2>1. Len(q) # 0
    BY <1>1, <1>3, EmptySeq
  <2>2. Len(q) \in 1 .. Len(q) /\ Len(p) = Len(q) + 1
    BY <1>1, <2>1
  <2>3. q[Len(q)] = p[Len(p)]
    BY <1>1, <2>2
  <2> QED BY <1>1, <1>3, <2>3 DEF Newest
<1> QED BY <1>1, <1>2, <1>3

LEMMA LastIsOne ==
    ASSUME NEW S, NEW p \in Seq(S), p # <<>>
    PROVE  Len(p) \in 1 .. Len(p) /\ Newest(p) = p[Len(p)] /\ Newest(p) \in S
<1>1. Len(p) \in Nat /\ Len(p) # 0
  BY LenProperties, EmptySeq
<1>2. Len(p) \in 1 .. Len(p)
  BY <1>1
<1> QED BY <1>2, ElementOfSeq DEF Newest

LEMMA PrefixFacts ==
    ASSUME NEW S, NEW p \in Seq(S), NEW m \in 0 .. Len(p)
    PROVE  LET q == SubSeq(p, 1, m) IN
           /\ q \in Seq(S) /\ Len(q) = m
           /\ \A i \in 1 .. m : q[i] = p[i]
<1>1. Len(p) \in Nat /\ m \in Nat
  BY LenProperties
<1> QED BY <1>1, SubSeqProperties

-----------------------------------------------------------------------------
(* The two invariants, of one kind, or one name: so a step that leaves a   *)
(* kind, or a name, alone is dealt with without looking into its deltas.   *)

Typed(kind, li, st, ini, ca, pe, qu, gh) ==
    /\ st \in [Keys[kind] -> Objects[kind] \cup {None}]
    /\ ini \subseteq Keys[kind]
    /\ ca \in [Keys[kind] -> Objects[kind] \cup {None}]
    /\ pe \in [Keys[kind] -> Seq(Deltas(kind))]
    /\ qu \in [Keys[kind] -> Nat]
    /\ gh \subseteq Keys[kind]
    /\ kind \notin li => \A n \in Keys[kind] : pe[n] = <<>>

\* What is cached, ca, will be what is in the store, st, when the deltas p have
\* been applied, unless it is overlooked that it is gone.
NameTrails(st, ca, p, overlooked) ==
    \/ (IF p = <<>> THEN ca ELSE Applied(Newest(p))) = st
    \/ overlooked /\ st = None

LEMMA TypedKinds ==
    TypeOK <=> /\ listed \subseteq Kinds
               /\ DOMAIN store = Kinds /\ DOMAIN initial = Kinds
               /\ DOMAIN cache = Kinds /\ DOMAIN pend = Kinds
               /\ DOMAIN queued = Kinds /\ DOMAIN ghosts = Kinds
               /\ \A k \in Kinds : Typed(k, listed, store[k], initial[k], cache[k],
                                         pend[k], queued[k], ghosts[k])
BY DEF TypeOK, Typed

LEMMA TrailsNames ==
    CacheTrails <=> \A k \in listed : \A n \in Keys[k] :
                       NameTrails(store[k][n], cache[k][n], pend[k][n], n \in ghosts[k])
BY DEF CacheTrails, NameTrails, Final

\* What Good says, in these terms, and what is to be shown of it after a step.
LEMMA Before ==
    ASSUME Good
    PROVE  /\ listed \subseteq Kinds
           /\ DOMAIN store = Kinds /\ DOMAIN initial = Kinds
           /\ DOMAIN cache = Kinds /\ DOMAIN pend = Kinds
           /\ DOMAIN queued = Kinds /\ DOMAIN ghosts = Kinds
           /\ \A k \in Kinds : Typed(k, listed, store[k], initial[k], cache[k],
                                     pend[k], queued[k], ghosts[k])
           /\ \A k \in listed : \A n \in Keys[k] :
                 NameTrails(store[k][n], cache[k][n], pend[k][n], n \in ghosts[k])
BY TypedKinds, TrailsNames DEF Good

LEMMA KindByKind ==
    ASSUME listed' \subseteq Kinds,
           DOMAIN store' = Kinds, DOMAIN initial' = Kinds, DOMAIN cache' = Kinds,
           DOMAIN pend' = Kinds, DOMAIN queued' = Kinds, DOMAIN ghosts' = Kinds,
           \A k \in Kinds : Typed(k, listed', store'[k], initial'[k], cache'[k],
                                  pend'[k], queued'[k], ghosts'[k]),
           \A k \in listed' : \A n \in Keys[k] :
              NameTrails(store'[k][n], cache'[k][n], pend'[k][n], n \in ghosts'[k])
    PROVE  Good'
<1>1. TypeOK'
  BY DEF TypeOK, Typed, Deltas
<1>2. CacheTrails'
  BY DEF CacheTrails, NameTrails, Final, Newest, Applied
<1> QED BY <1>1, <1>2 DEF Good

-----------------------------------------------------------------------------
(* The steps.                                                              *)

\* Informers start empty and have listed nothing.
LEMMA GoodInit == InformersInit => Good
<1> SUFFICES ASSUME InformersInit PROVE Good
  OBVIOUS
<1>1. \A kind \in Kinds : <<>> \in Seq(Deltas(kind))
  BY EmptySeq
<1>2. TypeOK
  BY <1>1 DEF InformersInit, TypeOK
<1>3. CacheTrails
  BY DEF InformersInit, CacheTrails
<1> QED BY <1>2, <1>3 DEF Good

\* What Write does, of its kind and of others.
Written(kind, n, obj) ==
    /\ DOMAIN store' = Kinds /\ DOMAIN pend' = Kinds /\ DOMAIN ghosts' = Kinds
    /\ \A k \in Kinds \ {kind} : /\ store'[k] = store[k] /\ pend'[k] = pend[k]
                                 /\ ghosts'[k] = ghosts[k]
    /\ store'[kind] = [store[kind] EXCEPT ![n] = obj]
    /\ pend'[kind] = IF kind \in listed
                     THEN [pend[kind] EXCEPT ![n] = Append(pend[kind][n], obj)]
                     ELSE pend[kind]
    /\ ghosts'[kind] = ghosts[kind] \ {n}
    /\ UNCHANGED <<listed, initial, cache, queued>>

LEMMA WriteFacts ==
    ASSUME Good, NEW kind \in Kinds, NEW n \in Keys[kind],
           NEW obj \in Objects[kind] \cup {None}, Write(kind, n, obj)
    PROVE  Written(kind, n, obj)
BY Before DEF Write, Written

\* A write to the server.
LEMMA GoodWrite ==
    ASSUME Distinct, Good, NEW kind \in Kinds, NEW n \in Keys[kind],
           NEW obj \in Objects[kind] \cup {None}, Write(kind, n, obj)
    PROVE  Good'
<1>0. Written(kind, n, obj)
  BY WriteFacts
<1> DEFINE p == pend[kind][n]
           q == Append(p, obj)
<1>1. Typed(kind, listed, store[kind], initial[kind], cache[kind], pend[kind],
            queued[kind], ghosts[kind])
  BY Before
<1>2. p \in Seq(Deltas(kind)) /\ obj \in Deltas(kind)
  BY <1>1 DEF Typed, Deltas
<1>3. q \in Seq(Deltas(kind)) /\ q # <<>> /\ Newest(q) = obj
  BY <1>2, AppendFacts
<1>4. Applied(obj) = obj
  BY DEF Applied, Distinct
<1> HIDE DEF p, q
<1>5. Typed(kind, listed, store'[kind], initial[kind], cache[kind], pend'[kind],
            queued[kind], ghosts'[kind])
  <2>1. store'[kind] \in [Keys[kind] -> Objects[kind] \cup {None}]
    BY <1>1, <1>0 DEF Written, Typed
  <2>2. CASE kind \in listed
    <3>1. pend'[kind] \in [Keys[kind] -> Seq(Deltas(kind))]
      BY <1>1, <1>3, <2>2, <1>0 DEF Written, Typed, p, q
    <3> QED BY <1>1, <2>1, <2>2, <3>1, <1>0 DEF Written, Typed
  <2>3. CASE kind \notin listed
    BY <1>1, <2>1, <2>3, <1>0 DEF Written, Typed
  <2> QED BY <2>2, <2>3
<1>6. ASSUME kind \in listed, NEW m \in Keys[kind]
      PROVE  NameTrails(store'[kind][m], cache[kind][m], pend'[kind][m],
                        m \in ghosts'[kind])
  <2>1. CASE m = n
    <3>1. store'[kind][m] = obj /\ pend'[kind][m] = q
      BY <1>1, <1>6, <2>1, <1>0 DEF Written, Typed, p, q
    <3> QED BY <1>3, <1>4, <3>1 DEF NameTrails
  <2>2. CASE m # n
    <3>1. /\ store'[kind][m] = store[kind][m] /\ pend'[kind][m] = pend[kind][m]
          /\ m \in ghosts'[kind] <=> m \in ghosts[kind]
      BY <1>1, <1>6, <2>2, <1>0 DEF Written, Typed
    <3> QED BY <1>6, <3>1, Before
  <2> QED BY <2>1, <2>2
<1>7. /\ listed' \subseteq Kinds
      /\ DOMAIN store' = Kinds /\ DOMAIN initial' = Kinds /\ DOMAIN cache' = Kinds
      /\ DOMAIN pend' = Kinds /\ DOMAIN queued' = Kinds /\ DOMAIN ghosts' = Kinds
  BY Before, <1>0 DEF Written
<1>8. \A k \in Kinds : Typed(k, listed', store'[k], initial'[k], cache'[k],
                             pend'[k], queued'[k], ghosts'[k])
  BY <1>5, Before, <1>0 DEF Written
<1>9. \A k \in listed' : \A m \in Keys[k] :
         NameTrails(store'[k][m], cache'[k][m], pend'[k][m], m \in ghosts'[k])
  BY <1>6, Before, <1>0 DEF Written
<1> QED BY <1>7, <1>8, <1>9, KindByKind

\* Of a name whose deltas Replace has queued some, or all: what it queues makes up
\* for those that are lost, or it has overlooked that the object is gone.
LEMMA RelistedFacts ==
    ASSUME Distinct, Good, NEW kind \in Kinds, NEW n \in Keys[kind],
           NEW p \in Seq(Deltas(kind))
    PROVE  /\ Relisted(kind, n, p) \in Seq(Deltas(kind))
           /\ NameTrails(store[kind][n], cache[kind][n], Relisted(kind, n, p),
                         Overlooked(kind, n, p))
<1> DEFINE st == store[kind][n]
           ca == cache[kind][n]
<1>1. /\ st \in Objects[kind] \cup {None} /\ ca \in Objects[kind] \cup {None}
      /\ st \in Deltas(kind) /\ Tombstone \in Deltas(kind)
  BY Before DEF Typed, Deltas
<1>2. Applied(st) = st /\ Applied(Tombstone) = None
  BY <1>1 DEF Applied, Distinct
<1>3. /\ Append(p, st) \in Seq(Deltas(kind)) /\ Append(p, Tombstone) \in Seq(Deltas(kind))
      /\ Append(p, st) # <<>> /\ Append(p, Tombstone) # <<>>
      /\ Newest(Append(p, st)) = st /\ Newest(Append(p, Tombstone)) = Tombstone
  BY <1>1, AppendFacts
<1>4. CASE st # None
  BY <1>2, <1>3, <1>4 DEF Relisted, NameTrails
<1>5. CASE st = None /\ ca # None
  BY <1>2, <1>3, <1>5 DEF Relisted, Bury, NameTrails
<1>6. CASE st = None /\ ca = None
  BY <1>6 DEF Relisted, NameTrails, Overlooked
<1> QED BY <1>4, <1>5, <1>6

\* What Replace does: of each name some deltas are kept, as if they had been all.
Replaced(kind) ==
    /\ listed' = listed \cup {kind} /\ UNCHANGED <<store, cache>>
    /\ DOMAIN initial' = Kinds /\ DOMAIN pend' = Kinds
    /\ DOMAIN queued' = Kinds /\ DOMAIN ghosts' = Kinds
    /\ \A k \in Kinds \ {kind} :
          /\ initial'[k] = initial[k] /\ pend'[k] = pend[k]
          /\ queued'[k] = queued[k] /\ ghosts'[k] = ghosts[k]
    /\ initial'[kind] = IF kind \in listed THEN initial[kind]
                        ELSE {n \in Keys[kind] : store[kind][n] # None}
    /\ pend'[kind] = [n \in Keys[kind] |-> pend'[kind][n]]
    /\ ghosts'[kind] \subseteq Keys[kind]
    /\ queued'[kind] = [n \in Keys[kind] |-> Len(pend'[kind][n])]
    /\ \A n \in Keys[kind] :
          \E m \in 0 .. Len(pend[kind][n]) :
             LET kept == SubSeq(pend[kind][n], 1, m) IN
             /\ kept \in Seq(Deltas(kind)) /\ Len(kept) = m
             /\ \A i \in 1 .. m : kept[i] = pend[kind][n][i]
             /\ pend'[kind][n] = Relisted(kind, n, kept)
             /\ n \in ghosts'[kind] <=> Overlooked(kind, n, kept)

LEMMA ReplaceFacts ==
    ASSUME Good, NEW kind \in Kinds, Replace(kind)
    PROVE  Replaced(kind)
<1> DEFINE Kept(r) == [n \in Keys[kind] |-> SubSeq(pend[kind][n], 1, r[n])]
           Made(r) == [n \in Keys[kind] |-> Relisted(kind, n, Kept(r)[n])]
<1>1. PICK r \in [Keys[kind] -> 0 .. MaxLag] :
        /\ \A n \in Keys[kind] :
             /\ Len(pend[kind][n]) <= MaxLag
             /\ r[n] \in queued[kind][n] .. Len(pend[kind][n])
        /\ pend' = [pend EXCEPT ![kind] = Made(r)]
        /\ queued' = [queued EXCEPT ![kind] = [n \in Keys[kind] |-> Len(Made(r)[n])]]
        /\ ghosts' = [ghosts EXCEPT ![kind] =
                         {n \in Keys[kind] : Overlooked(kind, n, Kept(r)[n])}]
        /\ listed' = listed \cup {kind}
        /\ initial' = IF kind \in listed THEN initial
                      ELSE [initial EXCEPT ![kind] =
                               {n \in Keys[kind] : store[kind][n] # None}]
        /\ UNCHANGED <<store, cache>>
  BY Zenon DEF Replace
<1>2. pend'[kind] = Made(r) /\ ghosts'[kind] = {n \in Keys[kind] : Overlooked(kind, n, Kept(r)[n])}
  BY <1>1, Before
<1>3. ASSUME NEW n \in Keys[kind]
      PROVE  \E m \in 0 .. Len(pend[kind][n]) :
                LET kept == SubSeq(pend[kind][n], 1, m) IN
                /\ kept \in Seq(Deltas(kind)) /\ Len(kept) = m
                /\ \A i \in 1 .. m : kept[i] = pend[kind][n][i]
                /\ pend'[kind][n] = Relisted(kind, n, kept)
                /\ n \in ghosts'[kind] <=> Overlooked(kind, n, kept)
  <2>1. /\ pend[kind][n] \in Seq(Deltas(kind)) /\ queued[kind][n] \in Nat
        /\ r[n] \in queued[kind][n] .. Len(pend[kind][n])
    BY <1>1, Before DEF Typed
  <2>2. r[n] \in 0 .. Len(pend[kind][n])
    BY <2>1, LenProperties
  <2>3. Kept(r)[n] = SubSeq(pend[kind][n], 1, r[n])
    OBVIOUS
  <2> HIDE DEF Kept
  <2>4. pend'[kind][n] = Relisted(kind, n, Kept(r)[n])
        /\ (n \in ghosts'[kind] <=> Overlooked(kind, n, Kept(r)[n]))
    BY <1>2
  <2> QED BY <2>1, <2>2, <2>3, <2>4, PrefixFacts
<1>4. /\ DOMAIN initial' = Kinds /\ DOMAIN pend' = Kinds
      /\ DOMAIN queued' = Kinds /\ DOMAIN ghosts' = Kinds
      /\ \A k \in Kinds \ {kind} :
            /\ initial'[k] = initial[k] /\ pend'[k] = pend[k]
            /\ queued'[k] = queued[k] /\ ghosts'[k] = ghosts[k]
      /\ initial'[kind] = IF kind \in listed THEN initial[kind]
                          ELSE {n \in Keys[kind] : store[kind][n] # None}
      /\ queued'[kind] = [n \in Keys[kind] |-> Len(Made(r)[n])]
  <2> HIDE DEF Kept, Made
  <2> QED BY <1>1, Before
<1>5. /\ pend'[kind] = [n \in Keys[kind] |-> pend'[kind][n]]
      /\ ghosts'[kind] \subseteq Keys[kind]
  BY <1>2
<1> HIDE DEF Kept, Made
<1>6. queued'[kind] = [n \in Keys[kind] |-> Len(pend'[kind][n])]
  BY <1>2, <1>4 DEF Made
<1> QED BY <1>1, <1>3, <1>4, <1>5, <1>6 DEF Replaced

\* A list.
LEMMA GoodReplace ==
    ASSUME Distinct, Good, NEW kind \in Kinds, Replace(kind)
    PROVE  Good'
<1>0. Replaced(kind)
  BY ReplaceFacts
<1>1. \A n \in Keys[kind] :
         /\ pend'[kind][n] \in Seq(Deltas(kind))
         /\ NameTrails(store[kind][n], cache[kind][n], pend'[kind][n],
                       n \in ghosts'[kind])
  <2> TAKE n \in Keys[kind]
  <2>1. PICK p \in Seq(Deltas(kind)) :
          /\ pend'[kind][n] = Relisted(kind, n, p)
          /\ n \in ghosts'[kind] <=> Overlooked(kind, n, p)
    BY <1>0 DEF Replaced
  <2>2. /\ pend'[kind][n] \in Seq(Deltas(kind))
        /\ NameTrails(store[kind][n], cache[kind][n], pend'[kind][n],
                      Overlooked(kind, n, p))
    BY <2>1, RelistedFacts
  <2> QED BY <2>1, <2>2 DEF NameTrails
<1>2. \A n \in Keys[kind] : Len(pend'[kind][n]) \in Nat
  BY <1>1, LenProperties
<1>3. Typed(kind, listed', store[kind], initial'[kind], cache[kind], pend'[kind],
            queued'[kind], ghosts'[kind])
  <2>1. pend'[kind] \in [Keys[kind] -> Seq(Deltas(kind))]
    <3>1. pend'[kind] = [n \in Keys[kind] |-> pend'[kind][n]]
      BY <1>0 DEF Replaced
    <3> QED BY <1>1, <3>1
  <2>2. /\ initial'[kind] \subseteq Keys[kind]
        /\ queued'[kind] \in [Keys[kind] -> Nat]
        /\ ghosts'[kind] \subseteq Keys[kind]
    BY <1>2, <1>0, Before DEF Replaced, Typed
  <2> QED BY <2>1, <2>2, <1>0, Before DEF Replaced, Typed
<1>4. /\ listed' \subseteq Kinds
      /\ DOMAIN store' = Kinds /\ DOMAIN initial' = Kinds /\ DOMAIN cache' = Kinds
      /\ DOMAIN pend' = Kinds /\ DOMAIN queued' = Kinds /\ DOMAIN ghosts' = Kinds
  BY Before, <1>0 DEF Replaced
<1>5. \A k \in Kinds : Typed(k, listed', store'[k], initial'[k], cache'[k],
                             pend'[k], queued'[k], ghosts'[k])
  <2> TAKE k \in Kinds
  <2>1. CASE k = kind
    BY <1>3, <1>0, <2>1 DEF Replaced
  <2>2. CASE k # kind
    BY Before, <1>0, <2>2 DEF Replaced, Typed
  <2> QED BY <2>1, <2>2
<1>6. \A k \in listed' : \A n \in Keys[k] :
         NameTrails(store'[k][n], cache'[k][n], pend'[k][n], n \in ghosts'[k])
  BY <1>1, Before, <1>0 DEF Replaced
<1> QED BY <1>4, <1>5, <1>6, KindByKind

\* What ProcessDelta does.
Applying(kind, n) ==
    /\ kind \in listed
    /\ pend[kind][n] \in Seq(Deltas(kind)) /\ pend[kind][n] # <<>>
    /\ Head(pend[kind][n]) \in Deltas(kind)
    /\ UNCHANGED <<store, listed, ghosts>>
    /\ DOMAIN cache' = Kinds /\ DOMAIN pend' = Kinds
    /\ DOMAIN queued' = Kinds /\ DOMAIN initial' = Kinds
    /\ \A k \in Kinds \ {kind} :
          /\ cache'[k] = cache[k] /\ pend'[k] = pend[k]
          /\ queued'[k] = queued[k] /\ initial'[k] = initial[k]
    /\ cache'[kind] = [cache[kind] EXCEPT ![n] = Applied(Head(pend[kind][n]))]
    /\ pend'[kind] = [pend[kind] EXCEPT ![n] = Tail(pend[kind][n])]
    /\ queued'[kind] = [queued[kind] EXCEPT ![n] =
                           IF queued[kind][n] = 0 THEN 0 ELSE queued[kind][n] - 1]
    /\ initial'[kind] \in {initial[kind], initial[kind] \ {n}}

LEMMA DeltaFacts ==
    ASSUME Good, NEW kind \in Kinds, NEW n \in Keys[kind], ProcessDelta(kind, n)
    PROVE  Applying(kind, n)
<1>1. /\ pend[kind][n] \in Seq(Deltas(kind)) /\ pend[kind][n] # <<>>
      /\ kind \in listed
  BY Before DEF Typed, ProcessDelta
<1>2. Head(pend[kind][n]) \in Deltas(kind)
  BY <1>1, TailFacts
<1>3. /\ UNCHANGED <<store, listed, ghosts>>
      /\ DOMAIN cache' = Kinds /\ DOMAIN pend' = Kinds
      /\ DOMAIN queued' = Kinds
      /\ \A k \in Kinds \ {kind} : cache'[k] = cache[k] /\ pend'[k] = pend[k]
                                   /\ queued'[k] = queued[k]
      /\ cache'[kind] = [cache[kind] EXCEPT ![n] = Applied(Head(pend[kind][n]))]
      /\ pend'[kind] = [pend[kind] EXCEPT ![n] = Tail(pend[kind][n])]
  BY Before DEF ProcessDelta
<1>4. queued'[kind] = [queued[kind] EXCEPT ![n] =
                          IF queued[kind][n] = 0 THEN 0 ELSE queued[kind][n] - 1]
  BY Before DEF ProcessDelta
<1>5. /\ DOMAIN initial' = Kinds
      /\ \A k \in Kinds \ {kind} : initial'[k] = initial[k]
      /\ initial'[kind] \in {initial[kind], initial[kind] \ {n}}
  BY Before DEF ProcessDelta
<1> QED BY <1>1, <1>2, <1>3, <1>4, <1>5 DEF Applying

\* The next delta of a name is applied to the cache.
LEMMA GoodDelta ==
    ASSUME Good, NEW kind \in Kinds, NEW n \in Keys[kind], ProcessDelta(kind, n)
    PROVE  Good'
<1>0. Applying(kind, n)
  BY DeltaFacts
<1> DEFINE p == pend[kind][n]
           q == Tail(p)
           e == Head(p)
<1>1. Typed(kind, listed, store[kind], initial[kind], cache[kind], pend[kind],
            queued[kind], ghosts[kind])
  BY Before
<1>2. /\ p \in Seq(Deltas(kind)) /\ p # <<>> /\ kind \in listed
      /\ e \in Deltas(kind)
  BY <1>0 DEF Applying
<1>3. /\ q \in Seq(Deltas(kind))
      /\ Newest(p) = IF q = <<>> THEN e ELSE Newest(q)
  BY <1>2, TailFacts
<1>4. Applied(e) \in Objects[kind] \cup {None}
  BY <1>2 DEF Applied, Deltas
<1> HIDE DEF p, q, e
<1>5. Typed(kind, listed, store[kind], initial'[kind], cache'[kind], pend'[kind],
            queued'[kind], ghosts[kind])
  <2>1. cache'[kind] \in [Keys[kind] -> Objects[kind] \cup {None}]
    BY <1>1, <1>4, <1>0 DEF Applying, Typed, p, e
  <2>2. pend'[kind] \in [Keys[kind] -> Seq(Deltas(kind))]
    BY <1>1, <1>3, <1>0 DEF Applying, Typed, p, q
  <2>3. queued'[kind] \in [Keys[kind] -> Nat]
    <3>1. queued[kind][n] \in Nat
      BY <1>1 DEF Typed
    <3>2. (IF queued[kind][n] = 0 THEN 0 ELSE queued[kind][n] - 1) \in Nat
      BY <3>1
    <3> QED BY <1>1, <3>2, <1>0 DEF Applying, Typed
  <2>4. initial'[kind] \subseteq Keys[kind]
    BY <1>1, <1>0 DEF Applying, Typed
  <2> QED BY <1>1, <1>2, <2>1, <2>2, <2>3, <2>4 DEF Typed
<1>6. ASSUME NEW m \in Keys[kind]
      PROVE  NameTrails(store[kind][m], cache'[kind][m], pend'[kind][m],
                        m \in ghosts[kind])
  <2>1. NameTrails(store[kind][m], cache[kind][m], pend[kind][m], m \in ghosts[kind])
    BY <1>2, Before
  <2>2. CASE m = n
    <3>1. cache'[kind][m] = Applied(e) /\ pend'[kind][m] = q
      BY <1>1, <2>2, <1>0 DEF Applying, Typed, p, q, e
    <3> QED BY <1>2, <1>3, <2>1, <2>2, <3>1 DEF NameTrails, p
  <2>3. CASE m # n
    <3>1. cache'[kind][m] = cache[kind][m] /\ pend'[kind][m] = pend[kind][m]
      BY <1>1, <2>3, <1>0 DEF Applying, Typed
    <3> QED BY <2>1, <3>1
  <2> QED BY <2>2, <2>3
<1>7. /\ listed' \subseteq Kinds
      /\ DOMAIN store' = Kinds /\ DOMAIN initial' = Kinds /\ DOMAIN cache' = Kinds
      /\ DOMAIN pend' = Kinds /\ DOMAIN queued' = Kinds /\ DOMAIN ghosts' = Kinds
  BY Before, <1>0 DEF Applying
<1>8. \A k \in Kinds : Typed(k, listed', store'[k], initial'[k], cache'[k],
                             pend'[k], queued'[k], ghosts'[k])
  BY <1>5, Before, <1>0 DEF Applying
<1>9. \A k \in listed' : \A m \in Keys[k] :
         NameTrails(store'[k][m], cache'[k][m], pend'[k][m], m \in ghosts'[k])
  BY <1>6, Before, <1>0 DEF Applying
<1> QED BY <1>7, <1>8, <1>9, KindByKind

\* The process ends.
LEMMA GoodLoss ==
    ASSUME Good, LoseInformers
    PROVE  Good'
<1>1. /\ listed' = {} /\ store' = store
      /\ DOMAIN initial' = Kinds /\ DOMAIN cache' = Kinds /\ DOMAIN pend' = Kinds
      /\ DOMAIN queued' = Kinds /\ DOMAIN ghosts' = Kinds
      /\ \A k \in Kinds : /\ cache'[k] = [n \in Keys[k] |-> None]
                          /\ pend'[k] = [n \in Keys[k] |-> <<>>]
                          /\ queued'[k] = [n \in Keys[k] |-> 0]
                          /\ initial'[k] = {} /\ ghosts'[k] = {}
                          /\ <<>> \in Seq(Deltas(k))
  BY EmptySeq DEF LoseInformers
<1>2. \A k \in Kinds : Typed(k, listed', store'[k], initial'[k], cache'[k],
                             pend'[k], queued'[k], ghosts'[k])
  <2> TAKE k \in Kinds
  <2>1. store[k] \in [Keys[k] -> Objects[k] \cup {None}]
    BY Before DEF Typed
  <2>2. cache'[k] \in [Keys[k] -> Objects[k] \cup {None}]
    BY <1>1
  <2>3. /\ pend'[k] \in [Keys[k] -> Seq(Deltas(k))]
        /\ \A n \in Keys[k] : pend'[k][n] = <<>>
    <3>1. PICK S : S = Seq(Deltas(k))
      OBVIOUS
    <3>2. pend'[k] = [n \in Keys[k] |-> <<>>] /\ <<>> \in S
      BY <1>1, <3>1
    <3> QED BY <3>1, <3>2
  <2>4. queued'[k] \in [Keys[k] -> Nat]
    BY <1>1
  <2> QED BY <1>1, <2>1, <2>2, <2>3, <2>4 DEF Typed
<1> QED BY <1>1, <1>2, Before, KindByKind

LEMMA GoodStutter == ASSUME Good, UNCHANGED informerVars PROVE Good'
BY Before, KindByKind DEF informerVars

-----------------------------------------------------------------------------
(* News: what is under way about a name whose cached state is not the      *)
(* stored one.                                                             *)

\* What is not cached as it is stored is on its way, unless it is overlooked.
LEMMA NoNewsIsCurrent ==
    ASSUME Good, NEW kind \in listed, NEW n \in Keys[kind],
           store[kind][n] # None \/ n \notin ghosts[kind], ~News(kind, n)
    PROVE  cache[kind][n] = store[kind][n]
<1> DEFINE p == pend[kind][n]
<1>1. /\ kind \in Kinds
      /\ NameTrails(store[kind][n], cache[kind][n], p, n \in ghosts[kind])
  BY Before
<1>4. p \in Seq(Deltas(kind))
  <2>1. Typed(kind, listed, store[kind], initial[kind], cache[kind], pend[kind],
              queued[kind], ghosts[kind])
    BY <1>1, Before
  <2> QED BY <2>1 DEF Typed
<1>2. CASE p = <<>>
  BY <1>1, <1>2 DEF NameTrails
<1>3. CASE p # <<>>
  <2>1. Len(p) \in 1 .. Len(p) /\ Newest(p) = p[Len(p)]
    BY <1>4, <1>3, LastIsOne
  <2>2. Applied(p[Len(p)]) = cache[kind][n]
    BY <2>1 DEF News
  <2> QED BY <1>1, <1>3, <2>1, <2>2 DEF NameTrails
<1> QED BY <1>2, <1>3

\* A write takes no news away, and an object that was not cached is news.
LEMMA WriteNews ==
    ASSUME Distinct, Good, NEW kind \in Kinds, NEW n \in Keys[kind],
           NEW obj \in Objects[kind] \cup {None}, Write(kind, n, obj),
           NEW k \in Kinds, NEW m \in Keys[k]
    PROVE  /\ News(k, m) => News(k, m)'
           /\ k = kind /\ m = n /\ kind \in listed /\ obj # cache[kind][n]
                 => News(k, m)'
<1>0. Written(kind, n, obj)
  BY WriteFacts
<1> DEFINE p == pend[kind][n]
           q == Append(p, obj)
<1>1. p \in Seq(Deltas(kind)) /\ obj \in Deltas(kind)
  BY Before DEF Typed, Deltas
<1>2. /\ Len(q) = Len(p) + 1 /\ Len(p) \in Nat /\ q[Len(q)] = obj
      /\ \A i \in 1 .. Len(p) : q[i] = p[i]
  BY <1>1, AppendFacts
<1>3. Applied(obj) = obj
  BY DEF Applied, Distinct
<1> HIDE DEF p, q
<1>4. CASE k = kind /\ m = n /\ kind \in listed
  <2>1. pend'[k][m] = q /\ cache'[k][m] = cache[k][m]
    BY <1>4, Before, <1>0 DEF Written, Typed, p, q
  <2>2. ASSUME NEW i \in 1 .. Len(p), Applied(p[i]) # cache[k][m] PROVE News(k, m)'
    <3>1. i \in 1 .. Len(q) /\ Applied(q[i]) # cache[k][m]
      BY <1>2, <2>2
    <3> QED BY <2>1, <3>1 DEF News, Applied
  <2>3. ASSUME obj # cache[kind][n] PROVE News(k, m)'
    <3>1. Len(q) \in 1 .. Len(q) /\ Applied(q[Len(q)]) # cache[k][m]
      BY <1>2, <1>3, <1>4, <2>3
    <3> QED BY <2>1, <3>1 DEF News, Applied
  <2> QED BY <1>4, <2>2, <2>3 DEF News, p
<1>5. CASE ~(k = kind /\ m = n /\ kind \in listed)
  <2>1. pend'[k][m] = pend[k][m] /\ cache'[k][m] = cache[k][m]
    BY <1>5, Before, <1>0 DEF Written, Typed
  <2> QED BY <1>5, <2>1 DEF News, Applied
<1> QED BY <1>4, <1>5

\* A delta that does not change what is cached leaves the news under way.
LEMMA DeltaNews ==
    ASSUME Good, NEW kind \in Kinds, NEW n \in Keys[kind], ProcessDelta(kind, n),
           NEW k \in Kinds, NEW m \in Keys[k], cache'[k][m] = cache[k][m], News(k, m)
    PROVE  News(k, m)'
<1>0. Applying(kind, n)
  BY DeltaFacts
<1> DEFINE p == pend[kind][n]
           q == Tail(p)
<1>1. CASE k = kind /\ m = n
  <2>1. p \in Seq(Deltas(kind)) /\ p # <<>>
    BY <1>0 DEF Applying
  <2>2. /\ Len(p) \in Nat \ {0} /\ Len(q) = Len(p) - 1 /\ Head(p) = p[1]
        /\ \A i \in 1 .. Len(q) : q[i] = p[i + 1]
    BY <2>1, TailFacts
  <2>3. PICK i \in 1 .. Len(p) : Applied(p[i]) # cache[k][m]
    BY <1>1 DEF News
  <2> HIDE DEF p, q
  <2>4. pend'[k][m] = q /\ cache'[k][m] = Applied(Head(p))
    BY <1>1, Before, <1>0 DEF Applying, Typed, p, q
  <2>5. i # 1
    BY <2>2, <2>3, <2>4
  <2>6. i - 1 \in 1 .. Len(q) /\ q[i - 1] = p[i]
    BY <2>2, <2>5
  <2>7. Applied(q[i - 1]) # cache'[k][m]
    BY <2>3, <2>6
  <2> QED BY <2>4, <2>6, <2>7 DEF News, Applied
<1>2. CASE ~(k = kind /\ m = n)
  <2>1. pend'[k][m] = pend[k][m]
    BY <1>2, Before, <1>0 DEF Applying, Typed
  <2> QED BY <2>1 DEF News, Applied
<1> QED BY <1>1, <1>2

-----------------------------------------------------------------------------
(* What is held of a name, at the server and on the way to the cache: no   *)
(* step but a write puts an object there that was not held before.         *)

Held(kind, n) ==
    {store[kind][n], cache[kind][n], None, Tombstone}
        \cup {pend[kind][n][i] : i \in 1 .. Len(pend[kind][n])}

LEMMA HeldTypes ==
    ASSUME Good, NEW kind \in Kinds, NEW n \in Keys[kind]
    PROVE  Held(kind, n) \subseteq Deltas(kind)
<1>1. /\ store[kind][n] \in Deltas(kind) /\ cache[kind][n] \in Deltas(kind)
      /\ pend[kind][n] \in Seq(Deltas(kind))
  BY Before DEF Typed, Deltas
<1>2. \A i \in 1 .. Len(pend[kind][n]) : pend[kind][n][i] \in Deltas(kind)
  BY <1>1, ElementOfSeq
<1> QED BY <1>1, <1>2 DEF Held, Deltas

LEMMA HeldSame ==
    ASSUME UNCHANGED informerVars, NEW kind \in Kinds, NEW n \in Keys[kind]
    PROVE  Held(kind, n)' = Held(kind, n)
BY DEF informerVars, Held

LEMMA HeldAfterWrite ==
    ASSUME Distinct, Good, NEW kind \in Kinds, NEW n \in Keys[kind],
           NEW obj \in Objects[kind] \cup {None}, Write(kind, n, obj),
           NEW k \in Kinds, NEW m \in Keys[k]
    PROVE  Held(k, m)' \subseteq Held(k, m) \cup (IF k = kind /\ m = n THEN {obj} ELSE {})
<1>0. Written(kind, n, obj)
  BY WriteFacts
<1>1. /\ pend[kind][n] \in Seq(Deltas(kind)) /\ obj \in Deltas(kind)
      /\ DOMAIN store[kind] = Keys[kind] /\ DOMAIN pend[kind] = Keys[kind]
  BY Before DEF Typed, Deltas
<1>2. CASE k = kind /\ m = n
  <2>1. store'[k][m] = obj /\ cache'[k][m] = cache[k][m]
    BY <1>0, <1>1, <1>2 DEF Written
  <2>2. CASE pend'[k][m] = pend[k][m]
    BY <1>2, <2>1, <2>2 DEF Held
  <2>3. CASE pend'[k][m] = Append(pend[kind][n], obj)
    <3> DEFINE q == Append(pend[kind][n], obj)
    <3>1. /\ Len(q) = Len(pend[kind][n]) + 1 /\ Len(pend[kind][n]) \in Nat
          /\ q[Len(q)] = obj /\ \A i \in 1 .. Len(pend[kind][n]) : q[i] = pend[kind][n][i]
      BY <1>1, AppendFacts
    <3>2. ASSUME NEW i \in 1 .. Len(q)
          PROVE  q[i] = obj \/ i \in 1 .. Len(pend[kind][n])
      BY <3>1
    <3> QED BY <1>2, <2>1, <2>3, <3>1, <3>2 DEF Held
  <2> QED BY <1>0, <1>1, <1>2, <2>2, <2>3 DEF Written
<1>3. CASE ~(k = kind /\ m = n)
  <2>1. /\ store'[k][m] = store[k][m] /\ cache'[k][m] = cache[k][m]
        /\ pend'[k][m] = pend[k][m]
    BY <1>0, <1>1, <1>3 DEF Written
  <2> QED BY <2>1 DEF Held
<1> QED BY <1>2, <1>3

LEMMA HeldAfterReplace ==
    ASSUME Good, NEW kind \in Kinds, Replace(kind), NEW k \in Kinds, NEW m \in Keys[k]
    PROVE  Held(k, m)' \subseteq Held(k, m)
<1>0. Replaced(kind)
  BY ReplaceFacts
<1>1. store' = store /\ cache' = cache
  BY <1>0 DEF Replaced
<1>2. CASE k # kind
  <2>1. pend'[k][m] = pend[k][m]
    BY <1>0, <1>2 DEF Replaced
  <2> QED BY <1>1, <2>1 DEF Held
<1>3. CASE k = kind
  <2>1. PICK h \in 0 .. Len(pend[k][m]) :
          LET kept == SubSeq(pend[k][m], 1, h) IN
          /\ kept \in Seq(Deltas(k)) /\ Len(kept) = h
          /\ \A i \in 1 .. h : kept[i] = pend[k][m][i]
          /\ pend'[k][m] = Relisted(k, m, kept)
    BY <1>0, <1>3 DEF Replaced
  <2> DEFINE kept == SubSeq(pend[k][m], 1, h)
  <2>2. /\ store[k][m] \in Deltas(k) /\ Tombstone \in Deltas(k)
        /\ Len(pend[k][m]) \in Nat
    <3>1. Typed(k, listed, store[k], initial[k], cache[k], pend[k], queued[k],
                ghosts[k])
      BY Before
    <3>2. pend[k][m] \in Seq(Deltas(k))
      BY <3>1 DEF Typed
    <3>3. store[k][m] \in Deltas(k) /\ Tombstone \in Deltas(k)
      BY <3>1 DEF Typed, Deltas
    <3>4. Len(pend[k][m]) \in Nat
      BY <3>2, LenProperties
    <3> QED BY <3>3, <3>4
  <2>3. /\ kept \in Seq(Deltas(k)) /\ Len(kept) = h
        /\ \A i \in 1 .. h : kept[i] = pend[k][m][i]
        /\ pend'[k][m] = Relisted(k, m, kept)
    BY <2>1
  <2> HIDE DEF kept
  <2>4. ASSUME NEW i \in 1 .. Len(kept) PROVE kept[i] \in Held(k, m)
    <3>1. i \in 1 .. Len(pend[k][m]) /\ kept[i] = pend[k][m][i]
      BY <2>2, <2>3
    <3> QED BY <3>1 DEF Held
  <2>5. ASSUME NEW d \in {store[k][m], Tombstone}, NEW i \in 1 .. Len(Append(kept, d))
        PROVE  Append(kept, d)[i] \in Held(k, m)
    <3> DEFINE q == Append(kept, d)
    <3>1. /\ Len(q) = Len(kept) + 1 /\ Len(kept) \in Nat
          /\ q[Len(q)] = d /\ \A j \in 1 .. Len(kept) : q[j] = kept[j]
      BY <2>2, <2>3, AppendFacts
    <3>2. d \in Held(k, m)
      BY DEF Held
    <3>3. i = Len(q) \/ i \in 1 .. Len(kept)
      BY <3>1
    <3> QED BY <2>4, <3>1, <3>2, <3>3
  <2>6. pend'[k][m] \in {kept, Append(kept, store[k][m]), Append(kept, Tombstone)}
    BY <2>3 DEF Relisted, Bury
  <2>7. \A i \in 1 .. Len(pend'[k][m]) : pend'[k][m][i] \in Held(k, m)
    BY <2>4, <2>5, <2>6
  <2>8. store'[k][m] = store[k][m] /\ cache'[k][m] = cache[k][m]
    BY <1>1
  <2> QED BY <2>7, <2>8 DEF Held
<1> QED BY <1>2, <1>3

LEMMA HeldAfterDelta ==
    ASSUME Good, NEW kind \in Kinds, NEW n \in Keys[kind], ProcessDelta(kind, n),
           NEW k \in Kinds, NEW m \in Keys[k]
    PROVE  Held(k, m)' \subseteq Held(k, m)
<1>0. Applying(kind, n)
  BY DeltaFacts
<1>1. DOMAIN cache[kind] = Keys[kind] /\ DOMAIN pend[kind] = Keys[kind]
  BY Before DEF Typed
<1>2. CASE k = kind /\ m = n
  <2> DEFINE p == pend[k][m]
             q == Tail(p)
  <2>1. /\ p \in Seq(Deltas(k)) /\ p # <<>>
        /\ store'[k][m] = store[k][m] /\ pend'[k][m] = q
        /\ cache'[k][m] = Applied(Head(p))
    BY <1>0, <1>1, <1>2 DEF Applying
  <2>2. /\ Len(p) \in Nat \ {0} /\ Len(q) = Len(p) - 1 /\ Head(p) = p[1]
        /\ \A i \in 1 .. Len(q) : q[i] = p[i + 1]
    BY <2>1, TailFacts
  <2>3. cache'[k][m] \in Held(k, m)
    BY <2>1, <2>2 DEF Held, Applied
  <2>4. ASSUME NEW i \in 1 .. Len(q) PROVE q[i] \in Held(k, m)
    <3>1. i + 1 \in 1 .. Len(p) /\ q[i] = p[i + 1]
      BY <2>2
    <3> QED BY <3>1 DEF Held
  <2>5. \A i \in 1 .. Len(pend'[k][m]) : pend'[k][m][i] \in Held(k, m)
    BY <2>1, <2>4
  <2> QED BY <2>1, <2>3, <2>5 DEF Held
<1>3. CASE ~(k = kind /\ m = n)
  <2>1. /\ store'[k][m] = store[k][m] /\ cache'[k][m] = cache[k][m]
        /\ pend'[k][m] = pend[k][m]
    BY <1>0, <1>1, <1>3 DEF Applying
  <2> QED BY <2>1 DEF Held
<1> QED BY <1>2, <1>3

LEMMA HeldAfterLoss ==
    ASSUME LoseInformers, NEW k \in Kinds, NEW m \in Keys[k]
    PROVE  Held(k, m)' \subseteq Held(k, m)
<1>1. /\ store'[k][m] = store[k][m] /\ cache'[k][m] = None /\ pend'[k][m] = <<>>
  BY DEF LoseInformers
<1>2. \A i : i \notin 1 .. Len(pend'[k][m])
  BY <1>1, EmptySeq
<1> QED BY <1>1, <1>2 DEF Held
=============================================================================
