------------------------- MODULE AppControllerProofs -------------------------
(***************************************************************************)
(* The safety of the App controller, for any number of Apps, workers,      *)
(* kinds, disturbances and events under way: IInv is an inductive          *)
(* invariant, and what it says of forgotten Apps and leaked failure counts *)
(* therefore always holds.                                                 *)
(*                                                                         *)
(* The heart of the argument is that what is cached is served: whenever    *)
(* the cache shows an App in another way a note of it is made, and every   *)
(* step passes the note on (into the queue, from a failure into a back-off *)
(* and again into the queue), until a worker holds the item; what that     *)
(* worker then reads is what is cached.  And what is stored is cached, or  *)
(* a delta is under way that will change what is cached.                   *)
(*                                                                         *)
(* What the Synced event promises needs a second invariant, OwnersStay: an *)
(* object that is some App's, wherever and whenever it was read, is still  *)
(* that App's as long as the App exists.                                   *)
(***************************************************************************)
EXTENDS AppController, SequenceTheorems, TLAPS

IP == INSTANCE InformersProofs WITH Kinds <- Stored, Keys <- KeysOf,
                                    Objects <- ObjectsOf, Tombstone <- None

-----------------------------------------------------------------------------
(* Constants.                                                              *)

LEMMA KindFacts ==
    /\ Len(KindOrder) \in Nat \ {0}
    /\ \A i \in 1 .. Len(KindOrder) : KindOrder[i] \in Kinds
    /\ "Deployment" \in Kinds
    /\ "App" \notin Kinds
    /\ Stored = Kinds \cup {"App"}
<1>1. Len(KindOrder) \in Nat \ {0}
  BY AppAssumption, LenProperties
<1>2. \A i \in 1 .. Len(KindOrder) : KindOrder[i] \in Kinds
  BY DEF Kinds
<1>3. "Deployment" \in Kinds
  BY <1>1, <1>2, AppAssumption
<1> QED BY <1>1, <1>2, <1>3, AppAssumption DEF Stored

LEMMA StoredFacts ==
    /\ "App" \in Stored
    /\ KeysOf["App"] = Apps /\ ObjectsOf["App"] = AppObjects
    /\ \A k \in Kinds : /\ k \in Stored /\ k # "App"
                        /\ KeysOf[k] = Names /\ ObjectsOf[k] = Objects
BY KindFacts DEF KeysOf, ObjectsOf

-----------------------------------------------------------------------------
(* The informers: what InformersProofs says, in the terms of AppController.*)

LEMMA InformersGood == I!TypeOK /\ I!CacheTrails <=> IP!Good
BY DEF IP!Good, I!TypeOK, IP!TypeOK, I!CacheTrails, IP!CacheTrails, I!Deltas,
       IP!Deltas, I!Final, IP!Final, I!Newest, IP!Newest, I!Applied, IP!Applied

LEMMA InformersGoodNext == (I!TypeOK /\ I!CacheTrails)' <=> IP!Good'
BY DEF IP!Good, I!TypeOK, IP!TypeOK, I!CacheTrails, IP!CacheTrails, I!Deltas,
       IP!Deltas, I!Final, IP!Final, I!Newest, IP!Newest, I!Applied, IP!Applied

LEMMA Distinct == IP!Distinct
BY NoneIsNoObject, StoredFacts DEF IP!Distinct, Stored

LEMMA WriteKeeps ==
    ASSUME I!TypeOK, I!CacheTrails, NEW kind \in Stored,
           NEW n \in KeysOf[kind], NEW obj \in ObjectsOf[kind] \cup {None},
           I!Write(kind, n, obj)
    PROVE  (I!TypeOK /\ I!CacheTrails)' /\ IP!Written(kind, n, obj)
<1>1. IP!Good /\ IP!Write(kind, n, obj)
  BY InformersGood DEF I!Write, IP!Write
<1>2. IP!Good'
  BY <1>1, Distinct, IP!GoodWrite
<1>3. IP!Written(kind, n, obj)
  BY <1>1, IP!WriteFacts
<1> QED BY <1>2, <1>3, InformersGoodNext

LEMMA ReplaceSame ==
    ASSUME NEW kind \in Stored, I!Replace(kind) PROVE IP!Replace(kind)
BY Zenon
   DEF I!Replace, IP!Replace, I!Relisted, IP!Relisted, I!Bury, IP!Bury,
       I!Overlooked, IP!Overlooked, I!Newest, IP!Newest, I!Applied, IP!Applied

LEMMA ReplaceKeeps ==
    ASSUME I!TypeOK, I!CacheTrails, NEW kind \in Stored, I!Replace(kind)
    PROVE  (I!TypeOK /\ I!CacheTrails)' /\ IP!Replaced(kind)
<1>1. IP!Good /\ IP!Replace(kind)
  BY InformersGood, ReplaceSame
<1>2. IP!Good'
  BY <1>1, Distinct, IP!GoodReplace
<1>3. IP!Replaced(kind)
  BY <1>1, IP!ReplaceFacts
<1> QED BY <1>2, <1>3, InformersGoodNext

LEMMA DeltaKeeps ==
    ASSUME I!TypeOK, I!CacheTrails, NEW kind \in Stored, NEW n \in KeysOf[kind],
           I!ProcessDelta(kind, n)
    PROVE  (I!TypeOK /\ I!CacheTrails)' /\ IP!Applying(kind, n)
<1>1. IP!Good /\ IP!ProcessDelta(kind, n)
  BY InformersGood DEF I!ProcessDelta, IP!ProcessDelta, I!Applied, IP!Applied
<1>2. IP!Good'
  BY <1>1, IP!GoodDelta
<1>3. IP!Applying(kind, n)
  BY <1>1, IP!DeltaFacts
<1> QED BY <1>2, <1>3, InformersGoodNext

LEMMA LossKeeps ==
    ASSUME I!TypeOK, I!CacheTrails, I!LoseInformers
    PROVE  (I!TypeOK /\ I!CacheTrails)'
<1>1. IP!Good /\ IP!LoseInformers
  BY InformersGood DEF I!LoseInformers, IP!LoseInformers
<1>2. IP!Good'
  BY <1>1, IP!GoodLoss
<1> QED BY <1>2, InformersGoodNext

LEMMA StutterKeeps ==
    ASSUME I!TypeOK, I!CacheTrails, UNCHANGED informers
    PROVE  (I!TypeOK /\ I!CacheTrails)'
<1>1. IP!Good /\ UNCHANGED IP!informerVars
  BY InformersGood DEF informers, IP!informerVars
<1>2. IP!Good'
  BY <1>1, IP!GoodStutter
<1> QED BY <1>2, InformersGoodNext

\* A stored App is cached as it is, or something is under way about it.
LEMMA CurrentApp ==
    ASSUME I!TypeOK, I!CacheTrails, "App" \in listed, NEW a \in Apps,
           store["App"][a] # None, ~I!News("App", a)
    PROVE  cache["App"][a] = store["App"][a]
<1>1. IP!Good /\ ~IP!News("App", a) /\ a \in KeysOf["App"]
  BY InformersGood, StoredFacts DEF I!News, IP!News, I!Applied, IP!Applied
<1> QED BY <1>1, IP!NoNewsIsCurrent

LEMMA StoredTypes ==
    ASSUME I!TypeOK
    PROVE  /\ DOMAIN store = Stored /\ DOMAIN cache = Stored
           /\ DOMAIN pend = Stored
           /\ store["App"] \in [Apps -> AppObjects \cup {None}]
           /\ cache["App"] \in [Apps -> AppObjects \cup {None}]
           /\ \A k \in Kinds : /\ store[k] \in [Names -> Objects \cup {None}]
                               /\ cache[k] \in [Names -> Objects \cup {None}]
BY StoredFacts DEF I!TypeOK

-----------------------------------------------------------------------------
(* Syncs to come.                                                          *)

LEMMA AheadKept ==
    ASSUME NEW a, Ahead(a), shuttingDown => shuttingDown',
           \/ shuttingDown'
           \/ notes \cup dirty \cup waiting \subseteq notes' \cup dirty' \cup waiting'
    PROVE  Ahead(a)'
BY DEF Ahead

\* A step that leaves the workers alone, and puts what it caches ahead.
LEMMA WorkersIdle ==
    ASSUME IInv, UNCHANGED <<holding, threads, synced, tracked>>,
           shuttingDown' \/ dirty \cup waiting \subseteq dirty' \cup waiting',
           shuttingDown => shuttingDown',
           \A a \in Apps : Ahead(a) => Ahead(a)',
           \A a \in Apps : cache'["App"][a] \in {None, cache["App"][a]} \/ Ahead(a)'
    PROVE  /\ WorkerState' /\ StaleSyncIsFollowed'
           /\ CachedAppIsServed' /\ NoTrackedFailureLeaks'
<1>1. WorkerState'
  BY DEF IInv, WorkerState, threads
<1>2. StaleSyncIsFollowed'
  <2> SUFFICES ASSUME NEW w \in Workers, pc[w] \in {"lookup", "create", "check"},
                      cache'["App"][holding[w]] \notin {None, local[w].app}
               PROVE  Ahead(holding[w])'
    BY DEF StaleSyncIsFollowed, threads
  <2>1. holding[w] \in Apps
    BY DEF IInv, TypeOK, WorkerState
  <2>2. CASE cache'["App"][holding[w]] = cache["App"][holding[w]]
    <3>1. Ahead(holding[w])
      BY <2>2 DEF IInv, StaleSyncIsFollowed
    <3> QED BY <2>1, <3>1
  <2> QED BY <2>1, <2>2
<1>3. CachedAppIsServed'
  <2> SUFFICES ASSUME NEW a \in Apps, cache'["App"][a] # None,
                      synced[a] # cache'["App"][a], ~Ahead(a)'
               PROVE  \E w \in Workers :
                         /\ holding[w] = a
                         /\ \/ pc[w] = "app"
                            \/ /\ pc[w] \notin {"app", "Done"}
                               /\ local[w].app = cache'["App"][a]
    BY DEF CachedAppIsServed, Underway, threads
  <2>1. cache'["App"][a] = cache["App"][a] /\ ~Ahead(a)
    OBVIOUS
  <2>2. Underway(a, cache["App"][a])
    BY <2>1 DEF IInv, CachedAppIsServed
  <2> QED BY <2>1, <2>2 DEF Underway
<1>4. NoTrackedFailureLeaks'
  BY DEF IInv, NoTrackedFailureLeaks, threads
<1> QED BY <1>1, <1>2, <1>3, <1>4

\* A step of a worker that holds an item.  What is left to show is about that
\* item alone.
LEMMA WorkerMoves ==
    ASSUME IInv, NEW w \in Workers, NEW h \in Apps, h = holding[w], h # None,
           cache' = cache, UNCHANGED <<notes, items>>,
           waiting \subseteq waiting',
           \A v \in Workers \ {w} : pc'[v] = pc[v] /\ local'[v] = local[v],
           \A a \in Apps \ {h} : synced'[a] = synced[a],
           \/ /\ pc'[w] = "Done"
              /\ \/ tracked' = tracked \ {h}
                 \/ /\ tracked' = tracked \cup {h}
                    /\ shuttingDown \/ h \in waiting'
           \/ /\ pc'[w] \in {"lookup", "create", "check"}
              /\ local'[w].app # None
              /\ pc'[w] # "check" => local'[w].next <= Len(KindOrder)
              /\ tracked' = tracked,
           pc'[w] # "Done" => \/ cache["App"][h] \in {None, local'[w].app}
                              \/ Ahead(h),
           pc'[w] = "Done" => \/ cache["App"][h] \in {None, synced'[h]}
                              \/ Ahead(h)'
    PROVE  /\ WorkerState' /\ StaleSyncIsFollowed'
           /\ CachedAppIsServed' /\ NoTrackedFailureLeaks'
<1>1. /\ holding' = holding /\ dirty' = dirty /\ shuttingDown' = shuttingDown
      /\ \A v \in Workers : holding[v] \in Apps \cup {None}
  BY DEF IInv, TypeOK, items
<1>2. \A a \in Apps : Ahead(a) => Ahead(a)'
  BY AheadKept DEF items
<1>3. WorkerState'
  <2> SUFFICES ASSUME NEW v \in Workers
               PROVE  /\ pc'[v] = "Get" <=> holding[v] = None
                      /\ pc'[v] \in {"Get", "app"} => local'[v] = NoLocals
                      /\ pc'[v] \in {"lookup", "create", "check"}
                            => local'[v].app # None
                      /\ pc'[v] \in {"lookup", "create"}
                            => local'[v].next <= Len(KindOrder)
    BY <1>1 DEF WorkerState, NoLocals
  <2>1. CASE v = w
    BY <2>1
  <2>2. CASE v # w
    BY <2>2 DEF IInv, WorkerState
  <2> QED BY <2>1, <2>2
<1>4. StaleSyncIsFollowed'
  <2> SUFFICES ASSUME NEW v \in Workers, pc'[v] \in {"lookup", "create", "check"},
                      cache["App"][holding[v]] \notin {None, local'[v].app}
               PROVE  Ahead(holding[v])'
    BY <1>1 DEF StaleSyncIsFollowed
  <2>1. CASE v = w
    BY <2>1, <1>1, <1>2 DEF Ahead
  <2>2. CASE v # w
    <3>1. Ahead(holding[v])
      BY <2>2 DEF IInv, StaleSyncIsFollowed
    <3>2. holding[v] \in Apps
      BY <2>2, <1>1 DEF IInv, WorkerState
    <3> QED BY <3>1, <3>2, <1>1, <1>2 DEF Ahead
  <2> QED BY <2>1, <2>2
<1>5. CachedAppIsServed'
  <2> SUFFICES ASSUME NEW a \in Apps, cache["App"][a] # None,
                      synced'[a] # cache["App"][a], ~Ahead(a)'
               PROVE  \E v \in Workers :
                         /\ holding[v] = a
                         /\ \/ pc'[v] = "app"
                            \/ /\ pc'[v] \notin {"app", "Done"}
                               /\ local'[v].app = cache["App"][a]
    BY <1>1 DEF CachedAppIsServed, Underway
  <2>1. ~Ahead(a)
    BY <1>2
  <2>2. CASE a = h
    BY <2>1, <2>2
  <2>3. CASE a # h
    <3>1. Underway(a, cache["App"][a])
      BY <2>3 DEF IInv, CachedAppIsServed
    <3>2. PICK v \in Workers :
            /\ holding[v] = a
            /\ \/ pc[v] = "app"
               \/ /\ pc[v] \notin {"app", "Done"}
                  /\ local[v].app = cache["App"][a]
      BY <2>1, <3>1 DEF Underway
    <3> QED BY <2>3, <3>2
  <2> QED BY <2>2, <2>3
<1>6. NoTrackedFailureLeaks'
  <2> SUFFICES ASSUME NEW a \in tracked'
               PROVE  \/ a \in dirty \cup waiting'
                      \/ \E v \in Workers : holding[v] = a /\ pc'[v] # "Done"
                      \/ shuttingDown
    BY <1>1 DEF NoTrackedFailureLeaks
  <2>1. CASE a = h
    BY <2>1
  <2>2. CASE a # h
    <3>1. \/ a \in dirty \cup waiting
          \/ \E v \in Workers : holding[v] = a /\ pc[v] # "Done"
          \/ shuttingDown
      BY <2>2 DEF IInv, NoTrackedFailureLeaks
    <3> QED BY <3>1, <2>2
  <2> QED BY <2>1, <2>2
<1> QED BY <1>3, <1>4, <1>5, <1>6

-----------------------------------------------------------------------------
(* The steps.                                                              *)

PCs == {"Get", "app", "lookup", "create", "check", "Done"}
Locals == [app : AppObjects \cup {None}, next : 1 .. Len(KindOrder) + 1,
           seen : [Kinds -> Uids \cup {Nobody, None}]]

LEMMA NoLocalsType == NoLocals \in Locals
BY KindFacts DEF NoLocals, Locals

LEMMA InitHolds == Init => IInv
<1> SUFFICES ASSUME Init PROVE IInv
  OBVIOUS
<1>1. I!TypeOK /\ I!CacheTrails
  <2>1. IP!InformersInit
    BY DEF Init, I!InformersInit, IP!InformersInit
  <2> QED BY <2>1, IP!GoodInit, InformersGood
<1>2. \A a \in Apps : cache["App"][a] = None
  BY StoredFacts DEF Init, I!InformersInit
<1>3. NoLocals \in Locals
  BY NoLocalsType
<1>4. TypeOK
  BY <1>1, <1>3, AppAssumption DEF Init, TypeOK, Q!ItemInit, Uids, Locals
<1>5. WorkerState
  BY DEF Init, WorkerState, Q!ItemInit
<1>6. StaleSyncIsFollowed
  BY DEF Init, StaleSyncIsFollowed
<1>7. CachedAppIsServed
  BY <1>2 DEF CachedAppIsServed
<1>8. NoTrackedFailureLeaks
  BY DEF Init, NoTrackedFailureLeaks
<1> QED BY <1>1, <1>4, <1>5, <1>6, <1>7, <1>8 DEF IInv, CacheTrails

LEMMA SpendTypes ==
    ASSUME left \in [Disturbances -> Nat], NEW d \in Disturbances, Spend(d)
    PROVE  left' \in [Disturbances -> Nat]
BY DEF Spend

\* A write that no worker makes changes nothing for them: what is cached stays.
LEMMA QuietWriteKeeps ==
    ASSUME IInv, NEW kind \in Stored, NEW n \in KeysOf[kind],
           NEW obj \in ObjectsOf[kind] \cup {None}, I!Write(kind, n, obj),
           nextUid' \in Uids, left' \in [Disturbances -> Nat],
           UNCHANGED <<notes, items, limiter, threads, synced>>
    PROVE  IInv'
<1>1. (I!TypeOK /\ I!CacheTrails)' /\ cache' = cache
  BY WriteKeeps DEF IInv, TypeOK, CacheTrails, IP!Written
<1>2. TypeOK'
  BY <1>1 DEF IInv, TypeOK, items, limiter, threads
<1>3. \A a \in Apps : Ahead(a) => Ahead(a)'
  BY AheadKept DEF items, limiter
<1>4. /\ WorkerState' /\ StaleSyncIsFollowed'
      /\ CachedAppIsServed' /\ NoTrackedFailureLeaks'
  BY <1>1, <1>3, WorkersIdle DEF items, limiter
<1> QED BY <1>1, <1>2, <1>4 DEF IInv, CacheTrails

LEMMA AppWriteKeeps ==
    ASSUME IInv, NEW a \in Apps, NEW obj \in AppObjects \cup {None},
           UserWrite("user", "App", a, obj), nextUid' \in Uids
    PROVE  IInv'
<1>1. left' \in [Disturbances -> Nat]
  BY SpendTypes DEF UserWrite, IInv, TypeOK, Disturbances
<1>2. a \in KeysOf["App"] /\ obj \in ObjectsOf["App"] \cup {None} /\ "App" \in Stored
  BY StoredFacts
<1>3. I!Write("App", a, obj) /\ UNCHANGED <<notes, items, limiter, threads, synced>>
  BY DEF UserWrite
<1> QED BY <1>1, <1>2, <1>3, QuietWriteKeeps

LEMMA OtherWriteKeeps ==
    ASSUME IInv, NEW k \in Kinds, NEW n \in Names, NEW obj \in Objects \cup {None},
           I!Write(k, n, obj), left' \in [Disturbances -> Nat],
           UNCHANGED <<nextUid, notes, items, limiter, threads, synced>>
    PROVE  IInv'
<1>1. n \in KeysOf[k] /\ obj \in ObjectsOf[k] \cup {None} /\ k \in Stored
  BY StoredFacts
<1>2. nextUid' \in Uids
  BY DEF IInv, TypeOK
<1> QED BY <1>1, <1>2, QuietWriteKeeps

LEMMA UserKeeps == ASSUME IInv, User PROVE IInv'
<1>1. ASSUME NEW a \in Apps, DeleteApp(a) PROVE IInv'
  BY <1>1, AppWriteKeeps DEF DeleteApp, IInv, TypeOK
<1>2. ASSUME NEW a \in Apps, NEW s \in Specs, CreateApp(a, s) PROVE IInv'
  <2>1. [uid |-> nextUid, spec |-> s] \in AppObjects /\ nextUid' \in Uids
    BY <1>2 DEF CreateApp, IInv, TypeOK, AppObjects, Uids
  <2> QED BY <1>2, <2>1, AppWriteKeeps DEF CreateApp
<1>3. ASSUME NEW a \in Apps, NEW s \in Specs, UpdateApp(a, s) PROVE IInv'
  <2>1. store["App"][a] \in AppObjects
    BY <1>3, StoredTypes DEF UpdateApp, IInv, TypeOK
  <2>2. [store["App"][a] EXCEPT !.spec = s] \in AppObjects
    BY <2>1 DEF AppObjects
  <2>3. nextUid' \in Uids
    BY <1>3 DEF UpdateApp, IInv, TypeOK
  <2> QED BY <1>3, <2>2, <2>3, AppWriteKeeps DEF UpdateApp
<1>4. ASSUME NEW k \in Kinds, NEW n \in Names, CreateForeign(k, n) PROVE IInv'
  <2>1. [owner |-> Nobody, replicas |-> None] \in Objects
    BY DEF Objects
  <2>2. left' \in [Disturbances -> Nat]
    BY <1>4, SpendTypes DEF CreateForeign, UserWrite, IInv, TypeOK, Disturbances
  <2> QED BY <1>4, <2>1, <2>2, OtherWriteKeeps DEF CreateForeign, UserWrite
<1>5. ASSUME NEW k \in Kinds, NEW n \in Names, DeleteDependent(k, n) PROVE IInv'
  <2>1. left' \in [Disturbances -> Nat]
    BY <1>5, SpendTypes DEF DeleteDependent, UserWrite, IInv, TypeOK, Disturbances
  <2> QED BY <1>5, <2>1, OtherWriteKeeps DEF DeleteDependent, UserWrite
<1> QED BY <1>1, <1>2, <1>3, <1>4, <1>5 DEF User

LEMMA GarbageKeeps ==
    ASSUME IInv, NEW k \in Kinds, NEW n \in Names, GarbageCollect(k, n)
    PROVE  IInv'
BY OtherWriteKeeps DEF GarbageCollect, IInv, TypeOK

\* A list leaves the cache as it is.
LEMMA ListKeeps == ASSUME IInv, NEW kind \in Stored, List(kind) PROVE IInv'
<1>1. (I!TypeOK /\ I!CacheTrails)' /\ cache' = cache
  BY ReplaceKeeps DEF IInv, TypeOK, CacheTrails, List, IP!Replaced
<1>2. /\ UNCHANGED <<nextUid, notes, dirty, holding, shuttingDown, waiting, tracked,
                     threads, synced>>
      /\ left' \in [Disturbances -> Nat]
  BY SpendTypes DEF List, IInv, TypeOK, items, limiter, Disturbances
<1>3. TypeOK'
  BY <1>1, <1>2 DEF IInv, TypeOK, threads
<1>4. \A a \in Apps : Ahead(a) => Ahead(a)'
  BY <1>2, AheadKept
<1>5. /\ WorkerState' /\ StaleSyncIsFollowed'
      /\ CachedAppIsServed' /\ NoTrackedFailureLeaks'
  BY <1>1, <1>2, <1>4, WorkersIdle
<1> QED BY <1>1, <1>3, <1>5 DEF IInv, CacheTrails

\* A delta that shows an App in another way turns into a note.
LEMMA DeliverKeeps ==
    ASSUME IInv, NEW kind \in Stored, NEW n \in KeysOf[kind], Deliver(kind, n)
    PROVE  IInv'
<1>1. (I!TypeOK /\ I!CacheTrails)' /\ IP!Applying(kind, n)
  BY DeltaKeeps DEF IInv, TypeOK, CacheTrails, Deliver
<1>2. UNCHANGED <<nextUid, dirty, holding, shuttingDown, waiting, tracked, threads,
                  synced, left>>
  BY DEF Deliver, items, limiter
<1>3. notes \subseteq notes' /\ notes' \subseteq Apps
  BY StoredFacts DEF Deliver, Notified, IInv, TypeOK
<1>4. TypeOK'
  BY <1>1, <1>2, <1>3 DEF IInv, TypeOK, threads
<1>5. \A a \in Apps : Ahead(a) => Ahead(a)'
  BY <1>2, <1>3, AheadKept
<1>6. ASSUME NEW a \in Apps, cache'["App"][a] \notin {None, cache["App"][a]}
      PROVE  Ahead(a)'
  <2>1. kind = "App" /\ n = a
    BY <1>1, <1>6, StoredTypes, StoredFacts DEF IP!Applying, IInv, TypeOK
  <2>2. a \in notes'
    BY <1>6, <2>1 DEF Deliver, Notified
  <2> QED BY <2>2 DEF Ahead
<1>7. /\ WorkerState' /\ StaleSyncIsFollowed'
      /\ CachedAppIsServed' /\ NoTrackedFailureLeaks'
  BY <1>2, <1>5, <1>6, WorkersIdle
<1> QED BY <1>1, <1>4, <1>7 DEF IInv, CacheTrails

\* A resync, a handler's enqueueApp, the end of a back-off, and a stop.
LEMMA QueueStepKeeps ==
    ASSUME IInv, UNCHANGED <<informers, nextUid, holding, threads, synced, tracked>>,
           notes' \subseteq Apps, dirty' \subseteq Apps, waiting' \subseteq Apps,
           shuttingDown' \in BOOLEAN, shuttingDown => shuttingDown',
           \/ shuttingDown'
           \/ notes \cup dirty \cup waiting \subseteq notes' \cup dirty' \cup waiting',
           shuttingDown' \/ dirty \cup waiting \subseteq dirty' \cup waiting',
           left' \in [Disturbances -> Nat]
    PROVE  IInv'
<1>1. (I!TypeOK /\ I!CacheTrails)'
  BY StutterKeeps DEF IInv, TypeOK, CacheTrails
<1>2. TypeOK'
  BY <1>1 DEF IInv, TypeOK, threads
<1>3. \A a \in Apps : Ahead(a) => Ahead(a)'
  BY AheadKept
<1>4. /\ WorkerState' /\ StaleSyncIsFollowed'
      /\ CachedAppIsServed' /\ NoTrackedFailureLeaks'
  BY <1>3, WorkersIdle DEF informers
<1> QED BY <1>1, <1>2, <1>4 DEF IInv, CacheTrails

LEMMA ResyncKeeps == ASSUME IInv, Resync PROVE IInv'
BY QueueStepKeeps DEF Resync, IInv, TypeOK, items, limiter, threads

LEMMA EnqueueKeeps == ASSUME IInv, NEW a \in Apps, EnqueueApp(a) PROVE IInv'
<1>1. /\ UNCHANGED <<informers, nextUid, holding, shuttingDown, threads, synced,
                     tracked, waiting, left>>
      /\ notes' = notes \ {a}
      /\ \/ dirty' = dirty \cup {a}
         \/ shuttingDown /\ dirty' = dirty
  BY DEF EnqueueApp, Q!Add, items, limiter
<1> QED BY <1>1, QueueStepKeeps DEF IInv, TypeOK

LEMMA BackoffKeeps == ASSUME IInv, NEW a \in Apps, AddAfterBackoff(a) PROVE IInv'
<1>1. /\ UNCHANGED <<informers, nextUid, holding, shuttingDown, threads, synced,
                     tracked, notes, left>>
      /\ waiting' = waiting \ {a}
      /\ dirty' = dirty \cup {a}
  BY DEF AddAfterBackoff, Q!Add
<1> QED BY <1>1, QueueStepKeeps DEF IInv, TypeOK

LEMMA StopKeeps == ASSUME IInv, Stop PROVE IInv'
<1>1. /\ UNCHANGED <<informers, nextUid, holding, dirty, threads, synced,
                     tracked, waiting, notes>>
      /\ shuttingDown' = TRUE
      /\ left' \in [Disturbances -> Nat]
  BY SpendTypes DEF Stop, Q!ShutDown, limiter, IInv, TypeOK, Disturbances
<1> QED BY <1>1, QueueStepKeeps DEF IInv, TypeOK

\* After a restart the caches are empty.
LEMMA RestartKeeps == ASSUME IInv, Restart PROVE IInv'
<1>1. (I!TypeOK /\ I!CacheTrails)'
  BY LossKeeps DEF IInv, TypeOK, CacheTrails, Restart
<1>2. \A a \in Apps : cache'["App"][a] = None
  BY StoredFacts DEF Restart, I!LoseInformers
<1>3. left' \in [Disturbances -> Nat]
  BY SpendTypes DEF Restart, IInv, TypeOK, Disturbances
<1>4. NoLocals \in Locals
  BY NoLocalsType
<1>5. TypeOK'
  BY <1>1, <1>3, <1>4 DEF Restart, IInv, TypeOK, Locals
<1>6. WorkerState'
  BY DEF Restart, WorkerState
<1>7. StaleSyncIsFollowed'
  BY DEF Restart, StaleSyncIsFollowed
<1>8. CachedAppIsServed'
  BY <1>2 DEF CachedAppIsServed
<1>9. NoTrackedFailureLeaks'
  BY DEF Restart, NoTrackedFailureLeaks
<1> QED BY <1>1, <1>5, <1>6, <1>7, <1>8, <1>9 DEF IInv, CacheTrails

\* A worker takes an item: whatever it will read, the sync has begun.
LEMMA GetKeeps ==
    ASSUME IInv, NEW w \in Workers, NEW a \in Apps, Get(w, a) PROVE IInv'
<1>1. (I!TypeOK /\ I!CacheTrails)'
  BY StutterKeeps DEF IInv, TypeOK, CacheTrails, Get
<1>2. /\ UNCHANGED <<store, listed, cache, pend, nextUid, notes, waiting, tracked,
                     local, synced, left, shuttingDown>>
      /\ holding[w] = None /\ pc[w] = "Get"
      /\ holding' = [holding EXCEPT ![w] = a]
      /\ pc' = [pc EXCEPT ![w] = "app"]
      /\ dirty' = dirty \ {a}
  BY DEF Get, Q!Take, informers, limiter
<1>3. TypeOK'
  BY <1>1, <1>2 DEF IInv, TypeOK
<1>4. /\ holding'[w] = a /\ pc'[w] = "app"
      /\ \A v \in Workers \ {w} : holding'[v] = holding[v] /\ pc'[v] = pc[v]
  BY <1>2 DEF IInv, TypeOK
<1>5. \A b \in Apps : Ahead(b) => Ahead(b)' \/ b = a
  BY <1>2 DEF Ahead
<1>6. WorkerState'
  BY <1>2, <1>4, AppAssumption DEF IInv, WorkerState
<1>7. StaleSyncIsFollowed'
  <2> SUFFICES ASSUME NEW v \in Workers, NEW h, h = holding'[v],
                      pc'[v] \in {"lookup", "create", "check"},
                      cache["App"][h] \notin {None, local[v].app}
               PROVE  Ahead(h)'
    BY <1>2 DEF StaleSyncIsFollowed
  <2>1. v # w /\ h = holding[v] /\ pc[v] = pc'[v]
    BY <1>4
  <2>2. h \in Apps /\ h # a
    BY <2>1 DEF IInv, TypeOK, WorkerState, Get, Q!Take, Q!Held
  <2> QED BY <2>1, <2>2, <1>5 DEF IInv, StaleSyncIsFollowed
<1>8. CachedAppIsServed'
  <2> SUFFICES ASSUME NEW b \in Apps, cache["App"][b] # None,
                      synced[b] # cache["App"][b]
               PROVE  Underway(b, cache["App"][b])'
    BY <1>2 DEF CachedAppIsServed
  <2>1. CASE b = a
    BY <2>1, <1>4 DEF Underway
  <2>2. CASE b # a
    <3>1. Underway(b, cache["App"][b])
      BY DEF IInv, CachedAppIsServed
    <3>2. CASE Ahead(b)
      BY <3>2, <2>2, <1>5 DEF Underway
    <3>3. CASE ~Ahead(b)
      <4>1. PICK v \in Workers :
              /\ holding[v] = b
              /\ \/ pc[v] = "app"
                 \/ /\ pc[v] \notin {"app", "Done"}
                    /\ local[v].app = cache["App"][b]
        BY <3>1, <3>3 DEF Underway
      <4>2. v # w
        BY <4>1, <1>2, AppAssumption
      <4> QED BY <4>1, <4>2, <1>2, <1>4 DEF Underway
    <3> QED BY <3>2, <3>3
  <2> QED BY <2>1, <2>2
<1>9. NoTrackedFailureLeaks'
  <2> SUFFICES ASSUME NEW b \in tracked
               PROVE  \/ b \in dirty' \cup waiting
                      \/ \E v \in Workers : holding'[v] = b /\ pc'[v] # "Done"
                      \/ shuttingDown
    BY <1>2 DEF NoTrackedFailureLeaks
  <2>1. CASE b = a
    BY <2>1, <1>4
  <2>2. CASE b # a
    <3>1. \/ b \in dirty \cup waiting
          \/ \E v \in Workers : holding[v] = b /\ pc[v] # "Done"
          \/ shuttingDown
      BY DEF IInv, NoTrackedFailureLeaks
    <3>2. b # None
      BY AppAssumption DEF IInv, TypeOK
    <3> QED BY <3>1, <3>2, <2>2, <1>2, <1>4
  <2> QED BY <2>1, <2>2
<1> QED BY <1>1, <1>3, <1>6, <1>7, <1>8, <1>9 DEF IInv, CacheTrails

\* The key's failures are counted or forgotten by then.
LEMMA DoneKeeps == ASSUME IInv, NEW w \in Workers, Done(w) PROVE IInv'
<1>1. (I!TypeOK /\ I!CacheTrails)'
  BY StutterKeeps DEF IInv, TypeOK, CacheTrails, Done
<1>2. /\ UNCHANGED <<store, listed, cache, pend, nextUid, notes, dirty, waiting,
                     tracked, synced, left, shuttingDown>>
      /\ pc[w] = "Done"
      /\ holding' = [holding EXCEPT ![w] = None]
      /\ pc' = [pc EXCEPT ![w] = "Get"]
      /\ local' = [local EXCEPT ![w] = NoLocals]
  BY DEF Done, Q!Done, Goto, informers, limiter
<1>3. NoLocals \in Locals
  BY NoLocalsType
<1>4. TypeOK'
  BY <1>1, <1>2, <1>3 DEF IInv, TypeOK, Locals
<1>5. /\ holding'[w] = None /\ pc'[w] = "Get" /\ local'[w] = NoLocals
      /\ \A v \in Workers \ {w} : /\ holding'[v] = holding[v]
                                /\ pc'[v] = pc[v] /\ local'[v] = local[v]
  BY <1>2 DEF IInv, TypeOK
<1>6. \A b \in Apps : Ahead(b) => Ahead(b)'
  BY <1>2 DEF Ahead
<1>7. WorkerState'
  BY <1>5 DEF IInv, WorkerState
<1>8. StaleSyncIsFollowed'
  <2> SUFFICES ASSUME NEW v \in Workers, NEW h, h = holding'[v],
                      pc'[v] \in {"lookup", "create", "check"},
                      cache["App"][h] \notin {None, local'[v].app}
               PROVE  Ahead(h)'
    BY <1>2 DEF StaleSyncIsFollowed
  <2>1. v # w /\ h = holding[v] /\ pc[v] = pc'[v] /\ local[v] = local'[v]
    BY <1>5
  <2>2. h \in Apps
    BY <2>1 DEF IInv, TypeOK, WorkerState
  <2> QED BY <2>1, <2>2, <1>6 DEF IInv, StaleSyncIsFollowed
<1>9. CachedAppIsServed'
  <2> SUFFICES ASSUME NEW b \in Apps, cache["App"][b] # None,
                      synced[b] # cache["App"][b]
               PROVE  Underway(b, cache["App"][b])'
    BY <1>2 DEF CachedAppIsServed
  <2>1. Underway(b, cache["App"][b])
    BY DEF IInv, CachedAppIsServed
  <2>2. CASE Ahead(b)
    BY <2>2, <1>6 DEF Underway
  <2>3. CASE ~Ahead(b)
    <3>1. PICK v \in Workers :
            /\ holding[v] = b
            /\ \/ pc[v] = "app"
               \/ /\ pc[v] \notin {"app", "Done"}
                  /\ local[v].app = cache["App"][b]
      BY <2>1, <2>3 DEF Underway
    <3> QED BY <3>1, <1>2, <1>5 DEF Underway
  <2> QED BY <2>2, <2>3
<1>10. NoTrackedFailureLeaks'
  BY <1>2, <1>5 DEF IInv, NoTrackedFailureLeaks
<1> QED BY <1>1, <1>4, <1>7, <1>8, <1>9, <1>10 DEF IInv, CacheTrails

LEMMA Holds ==
    ASSUME IInv, NEW w \in Workers, pc[w] # "Get"
    PROVE  holding[w] \in Apps /\ holding[w] # None
BY DEF IInv, TypeOK, WorkerState

\* A sync goes on with the next kind, or from the lookup to the Create call.
LEMMA SyncGoesOn ==
    ASSUME IInv, NEW w \in Workers, pc[w] \in {"lookup", "create"},
           pc'[w] \in {"lookup", "create", "check"},
           local'[w].app = local[w].app,
           pc'[w] # "check" => local'[w].next <= Len(KindOrder),
           \A v \in Workers \ {w} : pc'[v] = pc[v] /\ local'[v] = local[v],
           UNCHANGED <<cache, notes, items, limiter, synced>>
    PROVE  /\ WorkerState' /\ StaleSyncIsFollowed'
           /\ CachedAppIsServed' /\ NoTrackedFailureLeaks'
<1>1. PICK h \in Apps : h = holding[w] /\ h # None
  BY Holds
<1>2. waiting' = waiting /\ tracked' = tracked /\ local'[w].app # None
  BY DEF limiter, IInv, WorkerState
<1>3. cache["App"][h] \in {None, local'[w].app} \/ Ahead(h)
  BY <1>1 DEF IInv, StaleSyncIsFollowed
<1> QED BY <1>1, <1>2, <1>3, WorkerMoves

\* A sync fails: its key is put back.
LEMMA FailKeeps ==
    ASSUME IInv, NEW w \in Workers, pc[w] # "Get", Fail(w),
           UNCHANGED <<cache, notes, items, local, synced>>
    PROVE  /\ WorkerState' /\ StaleSyncIsFollowed'
           /\ CachedAppIsServed' /\ NoTrackedFailureLeaks'
           /\ pc' \in [Workers -> PCs]
           /\ waiting' \subseteq Apps /\ tracked' \subseteq Apps
<1>1. PICK h \in Apps : h = holding[w] /\ h # None
  BY Holds
<1>2. /\ shuttingDown' = shuttingDown
      /\ waiting' = IF shuttingDown THEN waiting ELSE waiting \cup {h}
      /\ tracked' = tracked \cup {h}
      /\ pc' \in [Workers -> PCs]
      /\ pc'[w] = "Done" /\ \A v \in Workers \ {w} : pc'[v] = pc[v]
  BY <1>1 DEF items, Fail, Goto, IInv, TypeOK, PCs
<1>3. Ahead(h)'
  BY <1>2 DEF Ahead
<1>4. /\ WorkerState' /\ StaleSyncIsFollowed'
      /\ CachedAppIsServed' /\ NoTrackedFailureLeaks'
  BY <1>1, <1>2, <1>3, WorkerMoves
<1>5. waiting' \subseteq Apps /\ tracked' \subseteq Apps
  BY <1>2 DEF IInv, TypeOK
<1> QED BY <1>2, <1>4, <1>5

\* A sync succeeds: the key is forgotten, unless it is to be synced again.
LEMMA SucceedKeeps ==
    ASSUME IInv, NEW w \in Workers, pc[w] # "Get", Succeed(w),
           UNCHANGED <<informers, notes, items, local>>,
           NEW h \in Apps, h = holding[w],
           \A a \in Apps \ {h} : synced'[a] = synced[a],
           cache["App"][h] \notin {None, synced'[h]} => Ahead(h)
    PROVE  /\ WorkerState' /\ StaleSyncIsFollowed'
           /\ CachedAppIsServed' /\ NoTrackedFailureLeaks'
           /\ pc' \in [Workers -> PCs]
           /\ waiting' \subseteq Apps /\ tracked' \subseteq Apps
<1>1. h # None
  BY AppAssumption
<1>2. /\ cache' = cache /\ waiting' = waiting
      /\ tracked' = tracked \ {h}
      /\ pc' \in [Workers -> PCs]
      /\ pc'[w] = "Done" /\ \A v \in Workers \ {w} : pc'[v] = pc[v]
  BY DEF informers, Succeed, Goto, IInv, TypeOK, PCs
<1>3. Ahead(h) => Ahead(h)'
  BY <1>2, AheadKept DEF items
<1>4. /\ WorkerState' /\ StaleSyncIsFollowed'
      /\ CachedAppIsServed' /\ NoTrackedFailureLeaks'
  BY <1>1, <1>2, <1>3, WorkerMoves
<1>5. waiting' \subseteq Apps /\ tracked' \subseteq Apps
  BY <1>2 DEF IInv, TypeOK
<1> QED BY <1>2, <1>4, <1>5

\* What the worker reads is what is cached.
LEMMA GetAppKeeps == ASSUME IInv, NEW w \in Workers, GetApp(w) PROVE IInv'
<1>1. (I!TypeOK /\ I!CacheTrails)'
  BY StutterKeeps DEF IInv, TypeOK, CacheTrails, GetApp
<1>2. PICK h \in Apps : h = holding[w] /\ h # None
  BY Holds DEF GetApp
<1>3. pc[w] = "app" /\ local[w] = NoLocals
  BY DEF GetApp, IInv, WorkerState
<1>4. UNCHANGED <<informers, nextUid, notes, items, synced, left>>
  BY DEF GetApp
<1>5. CASE cache["App"][h] = None
  <2>1. Succeed(w) /\ UNCHANGED local
    BY <1>2, <1>5 DEF GetApp
  <2>2. /\ WorkerState' /\ StaleSyncIsFollowed'
        /\ CachedAppIsServed' /\ NoTrackedFailureLeaks'
        /\ pc' \in [Workers -> PCs]
        /\ waiting' \subseteq Apps /\ tracked' \subseteq Apps
    BY <1>2, <1>3, <1>4, <1>5, <2>1, SucceedKeeps
  <2>3. TypeOK'
    BY <1>1, <1>4, <2>1, <2>2 DEF IInv, TypeOK, items, PCs
  <2> QED BY <1>1, <2>2, <2>3 DEF IInv, CacheTrails
<1>6. CASE cache["App"][h] # None
  <2>1. /\ pc' = [pc EXCEPT ![w] = "lookup"]
        /\ local' = [local EXCEPT ![w].app = cache["App"][h]]
        /\ UNCHANGED limiter
    BY <1>2, <1>6 DEF GetApp, Goto
  <2>2. cache["App"][h] \in AppObjects
    BY <1>6, StoredTypes DEF IInv, TypeOK
  <2>3. /\ pc' \in [Workers -> PCs] /\ local' \in [Workers -> Locals]
        /\ pc'[w] = "lookup"
        /\ local'[w].app = cache["App"][h] /\ local'[w].next = local[w].next
        /\ \A v \in Workers \ {w} : pc'[v] = pc[v] /\ local'[v] = local[v]
    BY <2>1, <2>2 DEF IInv, TypeOK, PCs, Locals
  <2>4. local[w].next <= Len(KindOrder)
    BY <1>3, KindFacts DEF NoLocals
  <2>5. cache' = cache /\ waiting' = waiting /\ tracked' = tracked
    BY <1>4, <2>1 DEF informers, limiter
  <2>6. /\ WorkerState' /\ StaleSyncIsFollowed'
        /\ CachedAppIsServed' /\ NoTrackedFailureLeaks'
    BY <1>2, <1>4, <1>6, <2>3, <2>4, <2>5, WorkerMoves
  <2>7. TypeOK'
    BY <1>1, <1>4, <2>1, <2>3 DEF IInv, TypeOK, items, limiter, PCs, Locals
  <2> QED BY <1>1, <2>6, <2>7 DEF IInv, CacheTrails
<1> QED BY <1>5, <1>6

\* The worker has an object of its current kind.
LEMMA ProceedFacts ==
    ASSUME IInv, NEW w \in Workers, pc[w] \in {"lookup", "create"},
           NEW owner \in Uids \cup {Nobody}, Proceed(w, owner)
    PROVE  /\ pc' \in [Workers -> PCs] /\ local' \in [Workers -> Locals]
           /\ pc'[w] \in {"lookup", "create", "check"}
           /\ local'[w].app = local[w].app
           /\ pc'[w] # "check" => local'[w].next <= Len(KindOrder)
           /\ \A v \in Workers \ {w} : pc'[v] = pc[v] /\ local'[v] = local[v]
<1> DEFINE l == local[w]
           m == [l EXCEPT !.seen[Kind(w)] = owner, !.next = @ + 1]
<1>1. /\ l \in Locals /\ l.next <= Len(KindOrder)
      /\ pc \in [Workers -> PCs] /\ local \in [Workers -> Locals]
  BY DEF IInv, TypeOK, WorkerState, Locals, PCs
<1>2. Kind(w) \in Kinds
  BY <1>1, KindFacts DEF Kind, Locals
<1>3. local' = [local EXCEPT ![w] = m]
  BY <1>1 DEF Proceed, Locals
<1>4. m \in Locals /\ m.app = l.app /\ m.next = l.next + 1
  <2>1. PICK l2 \in Locals : l2 = [l EXCEPT !.seen[Kind(w)] = owner]
    BY <1>1, <1>2 DEF Locals
  <2>2. m = [l2 EXCEPT !.next = @ + 1]
    BY <2>1, <1>1, <1>2 DEF Locals
  <2>3. l2.app = l.app /\ l2.next = l.next
    BY <2>1, <1>1 DEF Locals
  <2>4. l2.next + 1 \in 1 .. Len(KindOrder) + 1
    BY <2>3, <1>1, KindFacts DEF Locals
  <2> HIDE DEF m
  <2> QED BY <2>2, <2>3, <2>4 DEF Locals
<1>5. pc' = [pc EXCEPT ![w] = IF l.next = Len(KindOrder) THEN "check" ELSE "lookup"]
  BY DEF Proceed, Goto
<1>6. /\ pc' \in [Workers -> PCs] /\ local' \in [Workers -> Locals]
      /\ pc'[w] = IF l.next = Len(KindOrder) THEN "check" ELSE "lookup"
      /\ local'[w] = m
      /\ \A v \in Workers \ {w} : pc'[v] = pc[v] /\ local'[v] = local[v]
  BY <1>1, <1>3, <1>4, <1>5 DEF PCs
<1>7. l.next # Len(KindOrder) => l.next + 1 <= Len(KindOrder)
  BY <1>1, KindFacts DEF Locals
<1> QED BY <1>4, <1>6, <1>7

\* What a worker that is creating an object creates, and where.
LEMMA CreateFacts ==
    ASSUME IInv, NEW w \in Workers, pc[w] \in {"lookup", "create"}
    PROVE  /\ local[w].app \in AppObjects
           /\ Kind(w) \in Kinds
           /\ LookupName(local[w].app, Kind(w)) \in Names
           /\ CreateName(local[w].app, Kind(w)) \in Names
           /\ NewObject(local[w].app, Kind(w)) \in Objects
<1> DEFINE app == local[w].app
<1>1. app \in AppObjects /\ local[w].next \in 1 .. Len(KindOrder)
  BY KindFacts DEF IInv, TypeOK, WorkerState
<1>2. Kind(w) \in Kinds
  BY <1>1, KindFacts DEF Kind
<1>3. /\ app.uid \in Uids /\ app.spec \in Specs
      /\ app.spec.names \in [Kinds -> Names] /\ app.spec.replicas \in Replicas
  BY <1>1, AppAssumption DEF AppObjects, Replicas
<1>4. NewObject(app, Kind(w)) \in Objects
  BY <1>3 DEF NewObject, Objects
<1> QED BY <1>1, <1>2, <1>3, <1>4, KindFacts DEF LookupName, CreateName

LEMMA LookupKeeps == ASSUME IInv, NEW w \in Workers, Lookup(w) PROVE IInv'
<1>1. (I!TypeOK /\ I!CacheTrails)'
  BY StutterKeeps DEF IInv, TypeOK, CacheTrails, Lookup
<1> DEFINE obj == cache[Kind(w)][LookupName(local[w].app, Kind(w))]
<1>2. /\ pc[w] = "lookup"
      /\ UNCHANGED <<informers, nextUid, notes, items, limiter, synced, left>>
  BY DEF Lookup
<1>3. /\ pc' \in [Workers -> PCs] /\ local' \in [Workers -> Locals]
      /\ pc'[w] \in {"lookup", "create", "check"}
      /\ local'[w].app = local[w].app
      /\ pc'[w] # "check" => local'[w].next <= Len(KindOrder)
      /\ \A v \in Workers \ {w} : pc'[v] = pc[v] /\ local'[v] = local[v]
  <2>1. CASE obj # None /\ Proceed(w, obj.owner)
    <3>1. obj \in Objects
      BY <1>2, <2>1, CreateFacts, StoredTypes DEF IInv, TypeOK
    <3>2. obj.owner \in Uids \cup {Nobody}
      BY <3>1 DEF Objects
    <3> QED BY <1>2, <2>1, <3>2, ProceedFacts
  <2>2. CASE Goto(w, "create") /\ UNCHANGED local
    BY <1>2, <2>2 DEF Goto, IInv, TypeOK, WorkerState, PCs, Locals
  <2> QED BY <2>1, <2>2 DEF Lookup
<1>4. TypeOK'
  BY <1>1, <1>2, <1>3 DEF IInv, TypeOK, items, limiter, PCs, Locals
<1>5. /\ WorkerState' /\ StaleSyncIsFollowed'
      /\ CachedAppIsServed' /\ NoTrackedFailureLeaks'
  BY <1>2, <1>3, SyncGoesOn DEF informers
<1> QED BY <1>1, <1>4, <1>5 DEF IInv, CacheTrails

LEMMA CreateKeeps == ASSUME IInv, NEW w \in Workers, Create(w) PROVE IInv'
<1>1. /\ pc[w] = "create"
      /\ UNCHANGED <<nextUid, notes, items, limiter, synced, left>>
  BY DEF Create
<1>2. PICK k \in Kinds, n \in Names, obj \in Objects, u \in Uids :
        I!Write(k, n, obj) /\ Proceed(w, u)
  BY <1>1, CreateFacts DEF Create, AppObjects
<1>3. (I!TypeOK /\ I!CacheTrails)'
  BY <1>1, <1>2, StoredFacts, WriteKeeps DEF IInv, TypeOK, CacheTrails
<1>4. cache' = cache
  BY <1>1, <1>2, StoredFacts, WriteKeeps DEF IInv, TypeOK, CacheTrails, IP!Written
<1>5. /\ pc' \in [Workers -> PCs] /\ local' \in [Workers -> Locals]
      /\ pc'[w] \in {"lookup", "create", "check"}
      /\ local'[w].app = local[w].app
      /\ pc'[w] # "check" => local'[w].next <= Len(KindOrder)
      /\ \A v \in Workers \ {w} : pc'[v] = pc[v] /\ local'[v] = local[v]
  BY <1>1, <1>2, ProceedFacts
<1>6. TypeOK'
  BY <1>1, <1>3, <1>5 DEF IInv, TypeOK, items, limiter, PCs, Locals
<1>7. /\ WorkerState' /\ StaleSyncIsFollowed'
      /\ CachedAppIsServed' /\ NoTrackedFailureLeaks'
  BY <1>1, <1>4, <1>5, SyncGoesOn
<1> QED BY <1>3, <1>6, <1>7 DEF IInv, CacheTrails

LEMMA AlreadyExistsKeeps ==
    ASSUME IInv, NEW w \in Workers, CreateAlreadyExists(w) PROVE IInv'
<1>1. (I!TypeOK /\ I!CacheTrails)'
  BY StutterKeeps DEF IInv, TypeOK, CacheTrails, CreateAlreadyExists
<1>2. /\ pc[w] # "Get" /\ Fail(w)
      /\ UNCHANGED <<informers, nextUid, notes, items, local, synced, left>>
  BY DEF CreateAlreadyExists
<1>3. /\ WorkerState' /\ StaleSyncIsFollowed'
      /\ CachedAppIsServed' /\ NoTrackedFailureLeaks'
      /\ pc' \in [Workers -> PCs]
      /\ waiting' \subseteq Apps /\ tracked' \subseteq Apps
  BY <1>2, FailKeeps DEF informers
<1>4. TypeOK'
  BY <1>1, <1>2, <1>3 DEF IInv, TypeOK, items, PCs
<1> QED BY <1>1, <1>3, <1>4 DEF IInv, CacheTrails

LEMMA CreateFailsKeeps == ASSUME IInv, NEW w \in Workers, CreateFails(w) PROVE IInv'
<1>1. /\ pc[w] = "create" /\ Fail(w) /\ Spend("fault")
      /\ UNCHANGED <<nextUid, notes, items, local, synced>>
  BY DEF CreateFails
<1>2. PICK k \in Kinds, n \in Names, obj \in Objects :
        UNCHANGED informers \/ I!Write(k, n, obj)
  BY <1>1, CreateFacts DEF CreateFails
<1>3. (I!TypeOK /\ I!CacheTrails)'
  BY <1>1, <1>2, StoredFacts, WriteKeeps, StutterKeeps DEF IInv, TypeOK, CacheTrails
<1>4. cache' = cache
  BY <1>1, <1>2, StoredFacts, WriteKeeps
     DEF IInv, TypeOK, CacheTrails, IP!Written, informers
<1>5. /\ WorkerState' /\ StaleSyncIsFollowed'
      /\ CachedAppIsServed' /\ NoTrackedFailureLeaks'
      /\ pc' \in [Workers -> PCs]
      /\ waiting' \subseteq Apps /\ tracked' \subseteq Apps
  BY <1>1, <1>4, FailKeeps
<1>6. left' \in [Disturbances -> Nat]
  BY <1>1, SpendTypes DEF IInv, TypeOK, Disturbances
<1>7. TypeOK'
  BY <1>1, <1>3, <1>5, <1>6 DEF IInv, TypeOK, items, PCs
<1> QED BY <1>3, <1>5, <1>7 DEF IInv, CacheTrails

\* The Synced event is recorded for the version that was read; if that is not
\* the cached one any more another sync is ahead.
LEMMA CheckKeeps == ASSUME IInv, NEW w \in Workers, Check(w) PROVE IInv'
<1>1. (I!TypeOK /\ I!CacheTrails)'
  BY StutterKeeps DEF IInv, TypeOK, CacheTrails, Check
<1>2. PICK h \in Apps : h = holding[w]
  BY Holds DEF Check
<1>3. /\ pc[w] = "check" /\ local[w].app \in AppObjects
      /\ UNCHANGED <<informers, nextUid, notes, items, local, left>>
  BY DEF Check, IInv, TypeOK, WorkerState
<1>4. CASE Succeed(w) /\ synced' = [synced EXCEPT ![h] = local[w].app]
  <2>1. /\ synced' \in [Apps -> AppObjects \cup {None}]
        /\ synced'[h] = local[w].app
        /\ \A a \in Apps \ {h} : synced'[a] = synced[a]
    BY <1>3, <1>4 DEF IInv, TypeOK
  <2>2. cache["App"][h] \notin {None, local[w].app} => Ahead(h)
    BY <1>2, <1>3 DEF IInv, StaleSyncIsFollowed
  <2>3. /\ WorkerState' /\ StaleSyncIsFollowed'
        /\ CachedAppIsServed' /\ NoTrackedFailureLeaks'
        /\ pc' \in [Workers -> PCs]
        /\ waiting' \subseteq Apps /\ tracked' \subseteq Apps
    BY <1>2, <1>3, <1>4, <2>1, <2>2, SucceedKeeps
  <2>4. TypeOK'
    BY <1>1, <1>3, <2>1, <2>3 DEF IInv, TypeOK, items, PCs
  <2> QED BY <1>1, <2>3, <2>4 DEF IInv, CacheTrails
<1>5. CASE Fail(w) /\ UNCHANGED synced
  <2>1. /\ WorkerState' /\ StaleSyncIsFollowed'
        /\ CachedAppIsServed' /\ NoTrackedFailureLeaks'
        /\ pc' \in [Workers -> PCs]
        /\ waiting' \subseteq Apps /\ tracked' \subseteq Apps
    BY <1>3, <1>5, FailKeeps DEF informers
  <2>2. TypeOK'
    BY <1>1, <1>3, <1>5, <2>1 DEF IInv, TypeOK, items, PCs
  <2> QED BY <1>1, <2>1, <2>2 DEF IInv, CacheTrails
<1> QED BY <1>2, <1>4, <1>5 DEF Check

LEMMA NextKeeps == IInv /\ [Next]_vars => IInv'
<1> SUFFICES ASSUME IInv, [Next]_vars PROVE IInv'
  OBVIOUS
<1>1. CASE User
  BY <1>1, UserKeeps
<1>2. ASSUME NEW k \in Kinds, NEW n \in Names, GarbageCollect(k, n) PROVE IInv'
  BY <1>2, GarbageKeeps
<1>3. ASSUME NEW kind \in Stored, List(kind) \/ \E n \in KeysOf[kind] : Deliver(kind, n)
      PROVE  IInv'
  BY <1>3, ListKeeps, DeliverKeeps
<1>4. CASE Resync
  BY <1>4, ResyncKeeps
<1>5. ASSUME NEW a \in Apps, EnqueueApp(a) \/ AddAfterBackoff(a) PROVE IInv'
  BY <1>5, EnqueueKeeps, BackoffKeeps
<1>6. ASSUME NEW w \in Workers, SyncStep(w) PROVE IInv'
  BY <1>6, GetAppKeeps, LookupKeeps, CheckKeeps, DoneKeeps, CreateKeeps,
     AlreadyExistsKeeps DEF SyncStep
<1>7. ASSUME NEW w \in Workers, CreateFails(w) PROVE IInv'
  BY <1>7, CreateFailsKeeps
<1>8. ASSUME NEW w \in Workers, NEW a \in Apps, Get(w, a) PROVE IInv'
  BY <1>8, GetKeeps
<1>9. CASE Stop \/ Restart
  BY <1>9, StopKeeps, RestartKeeps
<1>10. CASE UNCHANGED vars
  <2>1. UNCHANGED <<informers, nextUid, notes, dirty, holding, shuttingDown,
                    waiting, tracked, threads, synced, left>>
    BY <1>10 DEF vars, items, limiter
  <2> QED BY <2>1, QueueStepKeeps DEF IInv, TypeOK
<1> QED BY <1>1, <1>2, <1>3, <1>4, <1>5, <1>6, <1>7, <1>8, <1>9, <1>10 DEF Next

-----------------------------------------------------------------------------
(* Owners.  OwnersStay, with what it depends on as arguments: st is what   *)
(* the server stores and nu the next uid.                                  *)

AliveIn(st, u) == \E a \in Apps : st["App"][a] # None /\ st["App"][a].uid = u

OwnedIn(st, nu, k, n, u) ==
    /\ u < nu
    /\ AliveIn(st, u) => st[k][n] # None /\ st[k][n].owner = u

TellingIn(st, nu, kind, n, obj) ==
    \/ obj = None
    \/ kind = "App" /\ obj.uid < nu
    \/ kind # "App" /\ (obj.owner = Nobody \/ OwnedIn(st, nu, kind, n, obj.owner))

\* What the server stores, the caches hold and the watches carry.
Tells ==
    \A kind \in Stored : \A n \in KeysOf[kind] : \A obj \in IP!Held(kind, n) :
        TellingIn(store, nextUid, kind, n, obj)

LocalTells(w) ==
    local[w].app # None =>
        /\ local[w].app.uid < nextUid
        /\ \A k \in Kinds :
             local[w].seen[k] = local[w].app.uid =>
                 OwnedIn(store, nextUid, k, local[w].app.spec.names[k], local[w].app.uid)

ReportTells(a) ==
    synced[a] # None =>
        \A k \in Kinds :
            OwnedIn(store, nextUid, k, synced[a].spec.names[k], synced[a].uid)

Owners ==
    /\ left["delete"] = 0
    /\ Tells
    /\ \A w \in Workers : LocalTells(w)
    /\ \A a \in Apps : ReportTells(a)

OwnersAre == OwnersStay <=> Owners

LEMMA OwnersBefore == OwnersAre
<1>1. \A k, n, u : Owned(k, n, u) <=> OwnedIn(store, nextUid, k, n, u)
  BY DEF Owned, OwnedIn, Alive, AliveIn
<1>2. \A kind, n, obj : Telling(kind, n, obj) <=> TellingIn(store, nextUid, kind, n, obj)
  BY <1>1 DEF Telling, TellingIn
<1>3. ObjectsTell <=> Tells
  BY <1>2 DEF ObjectsTell, Tells, TellingIn, IP!Held
<1>4. LocalsTell <=> \A w \in Workers : LocalTells(w)
  BY <1>1 DEF LocalsTell, LocalTells, LookupName
<1>5. SyncedTells <=> \A a \in Apps : ReportTells(a)
  BY <1>1 DEF SyncedTells, ReportTells, LookupName
<1> QED
  BY <1>3, <1>4, <1>5 DEF OwnersAre, OwnersStay, Owners

LEMMA OwnersAfter == OwnersAre'
BY OwnersBefore, PTL

\* Objects of Apps that were made stay with them, and no uid is used again.
Stays ==
    /\ nextUid' \in Nat /\ nextUid' >= nextUid
    /\ \A k \in Kinds, n \in Names, u \in Nat :
         OwnedIn(store, nextUid, k, n, u) => OwnedIn(store', nextUid', k, n, u)

LEMMA StaysIf ==
    ASSUME TypeOK, nextUid' \in Nat, nextUid' >= nextUid,
           \A u \in Nat : u < nextUid /\ AliveIn(store', u) => AliveIn(store, u),
           \A k \in Kinds, n \in Names :
              store[k][n] # None /\ AliveIn(store, store[k][n].owner) =>
                store'[k][n] # None /\ store'[k][n].owner = store[k][n].owner
    PROVE  Stays
<1>1. nextUid \in Nat
  BY DEF TypeOK, Uids
<1> QED BY <1>1 DEF Stays, OwnedIn

LEMMA StaysSame == ASSUME TypeOK, UNCHANGED <<store, nextUid>> PROVE Stays
BY DEF Stays, TypeOK, Uids

LEMMA TellingStays ==
    ASSUME TypeOK, Stays, NEW kind \in Stored, NEW n \in KeysOf[kind],
           NEW obj \in ObjectsOf[kind] \cup {None},
           TellingIn(store, nextUid, kind, n, obj)
    PROVE  TellingIn(store', nextUid', kind, n, obj)
<1>1. nextUid \in Nat /\ nextUid' \in Nat /\ nextUid' >= nextUid
  BY DEF TypeOK, Uids, Stays
<1>2. CASE obj = None
  BY <1>2 DEF TellingIn
<1>3. CASE obj # None /\ kind = "App"
  <2>1. obj.uid \in Nat /\ obj.uid < nextUid
    BY <1>3, StoredFacts DEF TellingIn, AppObjects, Uids
  <2> QED BY <1>1, <1>3, <2>1 DEF TellingIn
<1>4. CASE obj # None /\ kind # "App"
  <2>1. kind \in Kinds
    BY <1>4, KindFacts
  <2>2. n \in Names /\ obj \in Objects
    BY <1>4, <2>1, StoredFacts
  <2>3. obj.owner \in Nat \cup {Nobody}
    BY <2>2 DEF Objects, Uids
  <2> QED BY <1>4, <2>1, <2>2, <2>3 DEF TellingIn, Stays
<1> QED BY <1>2, <1>3, <1>4

\* What a worker has seen, and what was reported, stays true as well.
LEMMA LocalStays ==
    ASSUME IInv, Stays, NEW w \in Workers, LocalTells(w), local'[w] = local[w]
    PROVE  LocalTells(w)'
<1> SUFFICES ASSUME local[w].app # None PROVE LocalTells(w)'
  BY DEF LocalTells
<1>1. nextUid \in Nat /\ nextUid' \in Nat /\ nextUid' >= nextUid
  BY DEF IInv, TypeOK, Uids, Stays
<1>2. local[w].app \in AppObjects
  BY DEF IInv, TypeOK
<1>3. /\ local[w].app.uid \in Nat
      /\ \A k \in Kinds : local[w].app.spec.names[k] \in Names
  BY <1>2, AppAssumption DEF AppObjects, Uids
<1> QED BY <1>1, <1>3 DEF LocalTells, Stays

LEMMA ReportStays ==
    ASSUME IInv, Stays, NEW a \in Apps, ReportTells(a), synced'[a] = synced[a]
    PROVE  ReportTells(a)'
<1> SUFFICES ASSUME synced[a] # None PROVE ReportTells(a)'
  BY DEF ReportTells
<1>1. synced[a] \in AppObjects
  BY DEF IInv, TypeOK
<1>2. /\ synced[a].uid \in Nat
      /\ \A k \in Kinds : synced[a].spec.names[k] \in Names
  BY <1>1, AppAssumption DEF AppObjects, Uids
<1> QED BY <1>2 DEF ReportTells, Stays

\* Objects that were held before tell what they told.
LEMMA OldObjects ==
    ASSUME IInv, Stays, Tells, NEW kind \in Stored, NEW n \in KeysOf[kind],
           NEW obj \in IP!Held(kind, n)
    PROVE  TellingIn(store', nextUid', kind, n, obj)
<1>1. IP!Good
  BY InformersGood DEF IInv, TypeOK, CacheTrails
<1>2. obj \in ObjectsOf[kind] \cup {None}
  BY <1>1, IP!HeldTypes DEF IP!Deltas
<1>3. TellingIn(store, nextUid, kind, n, obj)
  BY DEF Tells
<1> QED BY <1>2, <1>3, TellingStays DEF IInv

\* The steps of the informers put nothing new anywhere.
LEMMA SameObjects ==
    ASSUME IInv, Stays, UNCHANGED informers, Tells
    PROVE  Tells'
<1>1. UNCHANGED IP!informerVars
  BY DEF informers, IP!informerVars
<1>2. ASSUME NEW kind \in Stored, NEW n \in KeysOf[kind]
      PROVE  IP!Held(kind, n)' = IP!Held(kind, n)
  BY <1>1, IP!HeldSame
<1> QED BY <1>2, OldObjects DEF Tells

LEMMA ListedObjects ==
    ASSUME IInv, Stays, NEW kind \in Stored, I!Replace(kind), Tells
    PROVE  Tells'
<1>1. IP!Good /\ IP!Replace(kind)
  BY InformersGood, ReplaceSame DEF IInv, TypeOK, CacheTrails
<1>2. ASSUME NEW k \in Stored, NEW m \in KeysOf[k]
      PROVE  IP!Held(k, m)' \subseteq IP!Held(k, m)
  BY <1>1, IP!HeldAfterReplace
<1> QED BY <1>2, OldObjects DEF Tells

LEMMA DeliveredObjects ==
    ASSUME IInv, Stays, NEW kind \in Stored, NEW n \in KeysOf[kind],
           I!ProcessDelta(kind, n), Tells
    PROVE  Tells'
<1>1. IP!Good /\ IP!ProcessDelta(kind, n)
  BY InformersGood
     DEF IInv, TypeOK, CacheTrails, I!ProcessDelta, IP!ProcessDelta, I!Applied,
         IP!Applied
<1>2. ASSUME NEW k \in Stored, NEW m \in KeysOf[k]
      PROVE  IP!Held(k, m)' \subseteq IP!Held(k, m)
  BY <1>1, IP!HeldAfterDelta
<1> QED BY <1>2, OldObjects DEF Tells

LEMMA LostObjects ==
    ASSUME IInv, Stays, I!LoseInformers, Tells
    PROVE  Tells'
<1>1. IP!LoseInformers
  BY DEF I!LoseInformers, IP!LoseInformers
<1>2. ASSUME NEW k \in Stored, NEW m \in KeysOf[k]
      PROVE  IP!Held(k, m)' \subseteq IP!Held(k, m)
  BY <1>1, IP!HeldAfterLoss
<1> QED BY <1>2, OldObjects DEF Tells

\* A write puts in what is written.
LEMMA WrittenObjects ==
    ASSUME IInv, Stays, NEW kind \in Stored, NEW n \in KeysOf[kind],
           NEW obj \in ObjectsOf[kind] \cup {None}, I!Write(kind, n, obj),
           TellingIn(store', nextUid', kind, n, obj), Tells
    PROVE  Tells'
<1>1. IP!Good /\ IP!Write(kind, n, obj)
  BY InformersGood DEF IInv, TypeOK, CacheTrails, I!Write, IP!Write
<1>2. ASSUME NEW k \in Stored, NEW m \in KeysOf[k]
      PROVE  IP!Held(k, m)' \subseteq
                IP!Held(k, m) \cup (IF k = kind /\ m = n THEN {obj} ELSE {})
  BY <1>1, Distinct, IP!HeldAfterWrite
<1>3. ASSUME NEW k \in Stored, NEW m \in KeysOf[k], NEW x \in IP!Held(k, m)'
      PROVE  TellingIn(store', nextUid', k, m, x)
  <2>1. CASE x \in IP!Held(k, m)
    BY <2>1, OldObjects
  <2>2. CASE x \notin IP!Held(k, m)
    <3>1. k = kind /\ m = n /\ x = obj
      BY <1>2, <2>2
    <3> QED BY <3>1
  <2> QED BY <2>1, <2>2
<1> QED BY <1>3 DEF Tells

-----------------------------------------------------------------------------
(* Owners, step by step.                                                   *)

\* Who deletes no dependents has no deletions left.
LEMMA NoDeletions ==
    ASSUME IInv, left["delete"] = 0, [Next]_vars
    PROVE  left'["delete"] = 0 /\ ~\E k \in Kinds, n \in Names : DeleteDependent(k, n)
<1>1. left \in [Disturbances -> Nat] /\ "delete" \in Disturbances
  BY DEF IInv, TypeOK, Disturbances
<1>2. ASSUME NEW d \in Disturbances, Spend(d)
      PROVE  d # "delete" /\ left'["delete"] = 0
  BY <1>1, <1>2 DEF Spend
<1>3. {"user", "delete", "fault", "relist", "crash"} \subseteq Disturbances
  BY DEF Disturbances
<1>4. ~\E k \in Kinds, n \in Names : DeleteDependent(k, n)
  BY <1>2, <1>3 DEF DeleteDependent, UserWrite
<1>5. left' = left \/ \E d \in Disturbances : Spend(d)
  <2>1. CASE User
    BY <2>1, <1>3 DEF User, DeleteApp, CreateApp, UpdateApp, CreateForeign, DeleteDependent, UserWrite
  <2>2. ASSUME NEW k \in Kinds, NEW n \in Names, GarbageCollect(k, n) PROVE left' = left
    BY <2>2 DEF GarbageCollect
  <2>3. ASSUME NEW kind \in Stored, List(kind) \/ \E n \in KeysOf[kind] : Deliver(kind, n)
        PROVE  left' = left \/ Spend("relist")
    BY <2>3 DEF List, Deliver
  <2>4. CASE Resync \/ Stop \/ Restart
    BY <2>4, <1>3 DEF Resync, Stop, Restart
  <2>5. ASSUME NEW a \in Apps, EnqueueApp(a) \/ AddAfterBackoff(a) PROVE left' = left
    BY <2>5 DEF EnqueueApp, AddAfterBackoff
  <2>6. ASSUME NEW w \in Workers, SyncStep(w) PROVE left' = left
    BY <2>6 DEF SyncStep, GetApp, Lookup, Check, Done, Create, CreateAlreadyExists
  <2>7. ASSUME NEW w \in Workers, CreateFails(w) PROVE Spend("fault")
    BY <2>7 DEF CreateFails
  <2>8. ASSUME NEW w \in Workers, NEW a \in Apps, Get(w, a) PROVE left' = left
    BY <2>8 DEF Get
  <2>9. CASE UNCHANGED vars
    BY <2>9 DEF vars
  <2> QED BY <1>3, <2>1, <2>2, <2>3, <2>4, <2>5, <2>6, <2>7, <2>8, <2>9 DEF Next
<1> QED BY <1>2, <1>4, <1>5

\* A write of an App: a new one has a uid of its own, an old one keeps its.
LEMMA AppStays ==
    ASSUME IInv, NEW a \in Apps, NEW obj \in AppObjects \cup {None},
           I!Write("App", a, obj), nextUid' \in Nat, nextUid' >= nextUid,
           \/ obj = None
           \/ obj.uid = nextUid
           \/ store["App"][a] # None /\ obj.uid = store["App"][a].uid
    PROVE  Stays
<1>1. /\ store'["App"] = [store["App"] EXCEPT ![a] = obj]
      /\ store["App"] \in [Apps -> AppObjects \cup {None}]
      /\ \A k \in Kinds : store'[k] = store[k]
  <2>1. IP!Written("App", a, obj)
    BY StoredFacts, WriteKeeps DEF IInv, TypeOK, CacheTrails
  <2> QED BY <2>1, StoredTypes, KindFacts DEF IP!Written, IInv, TypeOK, Stored
<1>2. ASSUME NEW u \in Nat, u < nextUid, AliveIn(store', u)
      PROVE  AliveIn(store, u)
  <2>1. PICK b \in Apps : store'["App"][b] # None /\ store'["App"][b].uid = u
    BY <1>2 DEF AliveIn
  <2>2. nextUid \in Nat
    BY DEF IInv, TypeOK, Uids
  <2>3. CASE b # a
    BY <1>1, <2>1, <2>3 DEF AliveIn
  <2>4. CASE b = a
    <3>1. obj # None /\ obj.uid = u
      BY <1>1, <2>1, <2>4
    <3>2. u # nextUid
      BY <1>2, <2>2
    <3> QED BY <3>1, <3>2 DEF AliveIn
  <2> QED BY <2>3, <2>4
<1> QED BY <1>1, <1>2, StaysIf DEF IInv

\* A write of a dependent: names that are taken by an App's object stay taken.
LEMMA DependentStays ==
    ASSUME IInv, NEW k \in Kinds, NEW n \in Names, NEW obj \in Objects \cup {None},
           I!Write(k, n, obj), nextUid' = nextUid,
           store[k][n] = None \/ ~AliveIn(store, store[k][n].owner)
    PROVE  /\ Stays
           /\ store'[k][n] = obj
           /\ \A u : AliveIn(store', u) <=> AliveIn(store, u)
<1>1. /\ store' = [store EXCEPT ![k][n] = obj]
      /\ DOMAIN store = Stored /\ k \in Stored
      /\ \A m \in Kinds : store[m] \in [Names -> Objects \cup {None}]
      /\ store'["App"] = store["App"]
  BY StoredTypes, StoredFacts DEF IInv, TypeOK, I!Write
<1>2. nextUid \in Nat /\ nextUid' \in Nat /\ nextUid' >= nextUid
  BY DEF IInv, TypeOK, Uids
<1>3. \A u : AliveIn(store', u) <=> AliveIn(store, u)
  BY <1>1 DEF AliveIn
<1>4. /\ store'[k][n] = obj
      /\ \A j \in Kinds : \A m \in Names :
           ~(j = k /\ m = n) => store'[j][m] = store[j][m]
  BY <1>1, StoredFacts
<1>5. Stays
  BY <1>2, <1>3, <1>4, StaysIf DEF IInv
<1> QED BY <1>3, <1>4, <1>5

\* A step that leaves the workers and the reports alone.
LEMMA OthersStay ==
    ASSUME IInv, Owners, Stays, left'["delete"] = 0,
           Tells',
           UNCHANGED <<local, synced>>
    PROVE  Owners'
<1>1. ASSUME NEW w \in Workers PROVE LocalTells(w)'
  BY LocalStays DEF Owners
<1>2. ASSUME NEW a \in Apps PROVE ReportTells(a)'
  BY ReportStays DEF Owners
<1> QED BY <1>1, <1>2 DEF Owners

LEMMA UserStays ==
    ASSUME IInv, Owners, User, left'["delete"] = 0,
           ~\E k \in Kinds, n \in Names : DeleteDependent(k, n)
    PROVE  Owners'
<1>1. TypeOK /\ nextUid \in Nat /\ Tells
  BY DEF IInv, TypeOK, Uids, Owners
<1>2. ASSUME NEW a \in Apps, NEW obj \in AppObjects \cup {None},
             UserWrite("user", "App", a, obj), nextUid' \in Nat, nextUid' >= nextUid,
             obj # None => obj.uid < nextUid',
             \/ obj = None
             \/ obj.uid = nextUid
             \/ store["App"][a] # None /\ obj.uid = store["App"][a].uid
      PROVE  Owners'
  <2>1. I!Write("App", a, obj) /\ UNCHANGED <<local, synced>>
    BY <1>2 DEF UserWrite, threads
  <2>2. Stays
    BY <1>1, <1>2, <2>1, AppStays
  <2>3. TellingIn(store', nextUid', "App", a, obj)
    BY <1>2 DEF TellingIn
  <2>4. Tells'
    BY <1>1, <2>1, <2>2, <2>3, StoredFacts, WrittenObjects
  <2> QED BY <2>1, <2>2, <2>4, OthersStay
<1>3. ASSUME NEW a \in Apps, DeleteApp(a) PROVE Owners'
  BY <1>1, <1>2, <1>3 DEF DeleteApp
<1>4. ASSUME NEW a \in Apps, NEW s \in Specs, CreateApp(a, s) PROVE Owners'
  <2> PICK obj : obj = [uid |-> nextUid, spec |-> s]
    OBVIOUS
  <2>1. obj \in AppObjects /\ obj.uid = nextUid
    BY <1>1 DEF AppObjects, Uids
  <2>2. UserWrite("user", "App", a, obj) /\ nextUid' = nextUid + 1
    BY <1>4 DEF CreateApp
  <2> QED BY <1>1, <1>2, <2>1, <2>2
<1>5. ASSUME NEW a \in Apps, NEW s \in Specs, UpdateApp(a, s) PROVE Owners'
  <2>1. store["App"][a] \in AppObjects /\ store["App"][a] # None
    BY <1>1, <1>5, StoredTypes DEF UpdateApp, TypeOK
  <2> PICK obj : obj = [store["App"][a] EXCEPT !.spec = s]
    OBVIOUS
  <2>2. obj \in AppObjects /\ obj.uid = store["App"][a].uid
    BY <2>1 DEF AppObjects
  <2>3. store["App"][a].uid < nextUid
    BY <1>1, <2>1, StoredFacts DEF Tells, IP!Held, TellingIn
  <2>4. UserWrite("user", "App", a, obj) /\ nextUid' = nextUid
    BY <1>5 DEF UpdateApp
  <2>5. nextUid' \in Nat /\ nextUid' >= nextUid /\ obj.uid < nextUid'
    BY <1>1, <2>2, <2>3, <2>4
  <2> QED BY <1>2, <2>1, <2>2, <2>4, <2>5
<1>6. ASSUME NEW k \in Kinds, NEW n \in Names, CreateForeign(k, n) PROVE Owners'
  <2> PICK obj : obj = [owner |-> Nobody, replicas |-> None]
    OBVIOUS
  <2>1. obj \in Objects /\ obj.owner = Nobody
    BY DEF Objects
  <2>2. /\ I!Write(k, n, obj) /\ store[k][n] = None
        /\ UNCHANGED <<local, synced, nextUid>>
    BY <1>6 DEF CreateForeign, UserWrite, threads
  <2>3. Stays
    BY <1>1, <2>1, <2>2, DependentStays
  <2>4. TellingIn(store', nextUid', k, n, obj)
    BY <2>1, KindFacts DEF TellingIn
  <2>5. Tells'
    BY <1>1, <2>1, <2>2, <2>3, <2>4, StoredFacts, WrittenObjects
  <2> QED BY <2>2, <2>3, <2>5, OthersStay
<1> QED BY <1>3, <1>4, <1>5, <1>6 DEF User

LEMMA GarbageStays ==
    ASSUME IInv, Owners, NEW k \in Kinds, NEW n \in Names, GarbageCollect(k, n),
           left'["delete"] = 0
    PROVE  Owners'
<1>1. TypeOK /\ Tells
  BY DEF IInv, Owners
<1>2. /\ I!Write(k, n, None) /\ UNCHANGED <<nextUid, local, synced>>
      /\ ~AliveIn(store, store[k][n].owner)
  BY DEF GarbageCollect, Orphan, Alive, AliveIn, threads
<1>3. Stays
  BY <1>1, <1>2, DependentStays
<1>4. TellingIn(store', nextUid', k, n, None)
  BY DEF TellingIn
<1>5. Tells'
  BY <1>1, <1>2, <1>3, <1>4, StoredFacts, WrittenObjects
<1> QED BY <1>2, <1>3, <1>5, OthersStay

LEMMA InformersStay ==
    ASSUME IInv, Owners, NEW kind \in Stored,
           List(kind) \/ \E n \in KeysOf[kind] : Deliver(kind, n),
           left'["delete"] = 0
    PROVE  Owners'
<1>1. TypeOK /\ Tells
  BY DEF IInv, Owners
<1>2. /\ I!Replace(kind) \/ \E n \in KeysOf[kind] : I!ProcessDelta(kind, n)
      /\ UNCHANGED <<nextUid, local, synced>>
  BY DEF List, Deliver, threads
<1>3. store' = store
  BY <1>2 DEF I!Replace, I!ProcessDelta
<1>4. Stays
  BY <1>1, <1>2, <1>3, StaysSame
<1>5. Tells'
  BY <1>1, <1>2, <1>4, ListedObjects, DeliveredObjects
<1> QED BY <1>2, <1>4, <1>5, OthersStay

LEMMA QuietStays ==
    ASSUME IInv, Owners, UNCHANGED <<informers, nextUid, local, synced>>,
           left'["delete"] = 0
    PROVE  Owners'
<1>1. TypeOK /\ Tells
  BY DEF IInv, Owners
<1>2. Stays
  BY <1>1, StaysSame DEF informers
<1>3. Tells'
  BY <1>1, <1>2, SameObjects
<1> QED BY <1>2, <1>3, OthersStay

\* What a worker sees of its current kind is all that changes in its locals when
\* it goes on.
LEMMA ProceedSeen ==
    ASSUME IInv, NEW w \in Workers, pc[w] \in {"lookup", "create"},
           NEW owner \in Uids \cup {Nobody}, Proceed(w, owner)
    PROVE  /\ local'[w].app = local[w].app
           /\ \A k \in Kinds :
                local'[w].seen[k] = IF k = Kind(w) THEN owner ELSE local[w].seen[k]
           /\ \A v \in Workers \ {w} : local'[v] = local[v]
<1>1. /\ local \in [Workers -> Locals] /\ local[w] \in Locals
      /\ local[w].seen \in [Kinds -> Uids \cup {Nobody, None}]
  BY DEF IInv, TypeOK, Locals
<1>2. local' = [local EXCEPT ![w] = [[local[w] EXCEPT !.seen = [@ EXCEPT ![Kind(w)] = owner]]
                                        EXCEPT !.next = @ + 1]]
  BY <1>1 DEF Proceed, Locals
<1>3. local'[w] = [[local[w] EXCEPT !.seen = [@ EXCEPT ![Kind(w)] = owner]]
                     EXCEPT !.next = @ + 1]
  BY <1>1, <1>2
<1>4. local'[w].seen = [local[w].seen EXCEPT ![Kind(w)] = owner]
  BY <1>1, <1>3 DEF Locals
<1> QED BY <1>1, <1>4, ProceedFacts

\* A worker goes on with an owner who holds on to what it is seen to own.
LEMMA GoesOnStays ==
    ASSUME IInv, Owners, Stays, NEW w \in Workers, pc[w] \in {"lookup", "create"},
           NEW owner \in Uids \cup {Nobody}, Proceed(w, owner),
           local[w].app # None,
           owner = local[w].app.uid =>
              OwnedIn(store', nextUid', Kind(w), local[w].app.spec.names[Kind(w)], owner),
           left'["delete"] = 0, Tells',
           UNCHANGED synced
    PROVE  Owners'
<1> DEFINE app == local[w].app
<1>1. /\ local'[w].app = app
      /\ \A k \in Kinds :
           local'[w].seen[k] = IF k = Kind(w) THEN owner ELSE local[w].seen[k]
      /\ \A v \in Workers \ {w} : local'[v] = local[v]
  BY ProceedSeen
<1>2. app \in AppObjects /\ LocalTells(w)
  BY CreateFacts DEF Owners
<1>3. /\ app.uid \in Nat
      /\ \A k \in Kinds : app.spec.names[k] \in Names
  BY <1>2, AppAssumption DEF AppObjects, Uids
<1>4. nextUid \in Nat /\ nextUid' \in Nat /\ nextUid' >= nextUid
  BY DEF IInv, TypeOK, Uids, Stays
<1>5. app.uid < nextUid'
  BY <1>2, <1>3, <1>4 DEF LocalTells
<1>6. ASSUME NEW k \in Kinds, local'[w].seen[k] = app.uid
      PROVE  OwnedIn(store', nextUid', k, app.spec.names[k], app.uid)
  <2>1. CASE k = Kind(w)
    BY <1>1, <1>6, <2>1
  <2>2. CASE k # Kind(w)
    <3>1. OwnedIn(store, nextUid, k, app.spec.names[k], app.uid)
      BY <1>1, <1>2, <1>6, <2>2 DEF LocalTells
    <3> QED BY <1>3, <3>1 DEF Stays
  <2> QED BY <2>1, <2>2
<1>7. LocalTells(w)'
  BY <1>1, <1>5, <1>6 DEF LocalTells
<1>8. ASSUME NEW v \in Workers PROVE LocalTells(v)'
  BY <1>1, <1>7, LocalStays DEF Owners
<1>9. ASSUME NEW a \in Apps PROVE ReportTells(a)'
  BY ReportStays DEF Owners
<1> QED BY <1>8, <1>9 DEF Owners

LEMMA GetAppStays ==
    ASSUME IInv, Owners, NEW w \in Workers, GetApp(w), left'["delete"] = 0
    PROVE  Owners'
<1>1. PICK h \in Apps : h = holding[w]
  BY Holds DEF GetApp
<1>2. pc[w] = "app" /\ local[w] = NoLocals
  BY DEF GetApp, IInv, WorkerState
<1>3. UNCHANGED <<informers, nextUid, synced>>
  BY DEF GetApp
<1>4. CASE UNCHANGED local
  BY <1>3, <1>4, QuietStays
<1>5. CASE /\ cache["App"][h] # None
           /\ local' = [local EXCEPT ![w].app = cache["App"][h]]
  <2>1. TypeOK /\ Tells
    BY DEF IInv, Owners
  <2>2. Stays
    BY <1>3, <2>1, StaysSame DEF informers
  <2>3. Tells'
    BY <1>3, <2>1, <2>2, SameObjects
  <2>4. /\ local'[w].app = cache["App"][h]
        /\ local'[w].seen = local[w].seen
        /\ \A v \in Workers \ {w} : local'[v] = local[v]
    BY <1>5, <2>1 DEF TypeOK
  <2>5. cache["App"][h] \in AppObjects
    BY <1>5, <2>1, StoredTypes DEF TypeOK
  <2>6. cache["App"][h].uid < nextUid /\ cache["App"][h].uid # None
    BY <1>5, <2>1, <2>5, StoredFacts, AppAssumption DEF Tells, IP!Held, TellingIn, AppObjects
  <2>7. \A k \in Kinds : local'[w].seen[k] = None
    BY <1>2, <2>4 DEF NoLocals
  <2>8. LocalTells(w)'
    BY <1>3, <2>4, <2>6, <2>7 DEF LocalTells
  <2>9. ASSUME NEW v \in Workers PROVE LocalTells(v)'
    BY <2>2, <2>4, <2>8, LocalStays DEF Owners
  <2>10. ASSUME NEW a \in Apps PROVE ReportTells(a)'
    BY <1>3, <2>2, ReportStays DEF Owners
  <2> QED BY <2>3, <2>9, <2>10 DEF Owners
<1> QED BY <1>1, <1>4, <1>5 DEF GetApp

LEMMA LookupStays ==
    ASSUME IInv, Owners, NEW w \in Workers, Lookup(w), left'["delete"] = 0
    PROVE  Owners'
<1> DEFINE n == local[w].app.spec.names[Kind(w)]
           obj == cache[Kind(w)][n]
<1>1. /\ pc[w] = "lookup"
      /\ UNCHANGED <<informers, nextUid, synced>>
  BY DEF Lookup
<1>2. CASE UNCHANGED local
  BY <1>1, <1>2, QuietStays
<1>3. CASE obj # None /\ Proceed(w, obj.owner)
  <2>1. TypeOK /\ Tells
    BY DEF IInv, Owners
  <2>2. Stays
    BY <1>1, <2>1, StaysSame DEF informers
  <2>3. Tells'
    BY <1>1, <2>1, <2>2, SameObjects
  <2>4. /\ Kind(w) \in Kinds /\ n \in Names
        /\ local[w].app \in AppObjects /\ local[w].app # None
    BY <1>1, CreateFacts DEF LookupName, IInv, WorkerState
  <2>5. obj \in Objects
    <3>1. cache[Kind(w)] \in [Names -> Objects \cup {None}]
      BY <2>1, <2>4, StoredTypes DEF TypeOK
    <3>2. n \in Names
      BY <2>4
    <3> HIDE DEF n
    <3> QED BY <1>3, <3>1, <3>2
  <2>6. obj.owner \in Uids \cup {Nobody}
    BY <2>5 DEF Objects
  <2>7. TellingIn(store', nextUid', Kind(w), n, obj)
    BY <1>1, <2>1, <2>4, StoredFacts DEF Tells, IP!Held, informers
  <2>8. local[w].app.uid # Nobody
    BY <2>4, AppAssumption DEF AppObjects
  <2>9. obj.owner = local[w].app.uid => OwnedIn(store', nextUid', Kind(w), n, obj.owner)
    BY <1>3, <2>4, <2>7, <2>8, KindFacts DEF TellingIn
  <2> HIDE DEF n, obj
  <2>10. PICK o \in Uids \cup {Nobody} : o = obj.owner
    BY <2>6
  <2> QED BY <1>1, <1>3, <2>2, <2>3, <2>4, <2>9, <2>10, GoesOnStays DEF n
<1> QED BY <1>2, <1>3 DEF Lookup, LookupName

\* The new object is its creator's, under the name it will be looked up under.
LEMMA CreateStays ==
    ASSUME IInv, Owners, NamesAgree, NEW w \in Workers, left'["delete"] = 0,
           pc[w] = "create", UNCHANGED <<nextUid, synced>>,
           store[Kind(w)][CreateName(local[w].app, Kind(w))] = None,
           I!Write(Kind(w), CreateName(local[w].app, Kind(w)),
                   NewObject(local[w].app, Kind(w))),
           Proceed(w, local[w].app.uid) \/ UNCHANGED local
    PROVE  Owners'
<1>1. PICK k \in Kinds : k = Kind(w)
  BY CreateFacts
<1>2. PICK app \in AppObjects : app = local[w].app /\ app # None
  BY CreateFacts DEF IInv, WorkerState
<1>3. PICK n \in Names : n = CreateName(app, k)
  BY <1>1, <1>2, CreateFacts
<1>4. PICK obj \in Objects : obj = NewObject(app, k)
  BY <1>1, <1>2, CreateFacts
<1>5. TypeOK /\ Tells /\ LocalTells(w)
  BY DEF IInv, Owners
<1>6. I!Write(k, n, obj) /\ store[k][n] = None
  BY <1>1, <1>2, <1>3, <1>4
<1>7. /\ Stays /\ store'[k][n] = obj
      /\ \A u : AliveIn(store', u) <=> AliveIn(store, u)
  BY <1>5, <1>6, DependentStays
<1>8. obj.owner = app.uid /\ obj # None
  BY <1>4, NoneIsNoObject DEF NewObject
<1>9. app.uid \in Nat /\ app.uid < nextUid'
  BY <1>2, <1>5 DEF LocalTells, AppObjects, Uids
<1>10. n = app.spec.names[k]
  BY <1>1, <1>2, <1>3 DEF CreateName, NamesAgree, AppObjects
<1>11. OwnedIn(store', nextUid', k, n, app.uid)
  BY <1>7, <1>8, <1>9 DEF OwnedIn
<1>12. TellingIn(store', nextUid', k, n, obj)
  BY <1>8, <1>11, KindFacts DEF TellingIn
<1>13. Tells'
  BY <1>5, <1>6, <1>7, <1>12, StoredFacts, WrittenObjects
<1>14. CASE UNCHANGED local
  BY <1>7, <1>13, <1>14, OthersStay
<1>15. CASE Proceed(w, app.uid)
  <2>1. app.uid \in Uids \cup {Nobody}
    BY <1>9 DEF Uids
  <2>2. OwnedIn(store', nextUid', Kind(w), local[w].app.spec.names[Kind(w)], app.uid)
    BY <1>1, <1>2, <1>10, <1>11
  <2>3. local[w].app # None
    BY <1>2
  <2> HIDE DEF NamesAgree
  <2>4. PICK u \in Uids \cup {Nobody} : u = app.uid
    BY <2>1
  <2> QED BY <1>7, <1>13, <1>15, <2>2, <2>3, <2>4, GoesOnStays
<1> QED BY <1>2, <1>14, <1>15

\* A report is about objects seen to be the App's.
LEMMA CheckStays ==
    ASSUME IInv, Owners, NEW w \in Workers, Check(w), left'["delete"] = 0
    PROVE  Owners'
<1>1. PICK h \in Apps : h = holding[w]
  BY Holds DEF Check
<1>2. /\ pc[w] = "check" /\ local[w].app # None
      /\ UNCHANGED <<informers, nextUid, local>>
  BY DEF Check, IInv, WorkerState
<1>3. CASE UNCHANGED synced
  BY <1>2, <1>3, QuietStays
<1>4. CASE ControlsAll(w) /\ synced' = [synced EXCEPT ![h] = local[w].app]
  <2>1. TypeOK /\ Tells /\ LocalTells(w)
    BY DEF IInv, Owners
  <2>2. Stays
    BY <1>2, <2>1, StaysSame DEF informers
  <2>3. Tells'
    BY <1>2, <2>1, <2>2, SameObjects
  <2>4. /\ synced'[h] = local[w].app
        /\ \A a \in Apps \ {h} : synced'[a] = synced[a]
    BY <1>4, <2>1 DEF TypeOK
  <2>5. \A k \in Kinds :
          OwnedIn(store, nextUid, k, local[w].app.spec.names[k], local[w].app.uid)
    BY <1>2, <1>4, <2>1 DEF ControlsAll, LocalTells
  <2>6. store' = store /\ nextUid' = nextUid
    BY <1>2 DEF informers
  <2>7. ReportTells(h)'
    BY <2>4, <2>5, <2>6 DEF ReportTells
  <2>8. ASSUME NEW a \in Apps PROVE ReportTells(a)'
    BY <2>2, <2>4, <2>7, ReportStays DEF Owners
  <2>9. ASSUME NEW v \in Workers PROVE LocalTells(v)'
    BY <1>2, <2>2, LocalStays DEF Owners
  <2> QED BY <2>3, <2>8, <2>9 DEF Owners
<1> QED BY <1>1, <1>3, <1>4 DEF Check

\* A worker that has finished, or was lost, has seen nothing.
LEMMA ForgottenStays ==
    ASSUME IInv, Owners, Stays, left'["delete"] = 0,
           Tells', UNCHANGED synced,
           \A w \in Workers : local'[w] \in {local[w], NoLocals}
    PROVE  Owners'
<1>1. ASSUME NEW w \in Workers PROVE LocalTells(w)'
  <2>1. CASE local'[w] = local[w]
    BY <2>1, LocalStays DEF Owners
  <2>2. CASE local'[w] = NoLocals
    BY <2>2 DEF LocalTells, NoLocals
  <2> QED BY <2>1, <2>2
<1>2. ASSUME NEW a \in Apps PROVE ReportTells(a)'
  BY ReportStays DEF Owners
<1> QED BY <1>1, <1>2 DEF Owners

LEMMA DoneStays ==
    ASSUME IInv, Owners, NEW w \in Workers, Done(w), left'["delete"] = 0
    PROVE  Owners'
<1>1. TypeOK /\ Tells
  BY DEF IInv, Owners
<1>2. UNCHANGED <<informers, nextUid, synced>>
  BY DEF Done
<1>3. Stays
  BY <1>1, <1>2, StaysSame DEF informers
<1>4. Tells'
  BY <1>1, <1>2, <1>3, SameObjects
<1>5. \A v \in Workers : local'[v] \in {local[v], NoLocals}
  BY <1>1 DEF Done, TypeOK
<1> QED BY <1>2, <1>3, <1>4, <1>5, ForgottenStays

LEMMA RestartStays ==
    ASSUME IInv, Owners, Restart, left'["delete"] = 0
    PROVE  Owners'
<1>1. TypeOK /\ Tells
  BY DEF IInv, Owners
<1>2. I!LoseInformers /\ UNCHANGED <<nextUid, synced>>
  BY DEF Restart
<1>3. Stays
  BY <1>1, <1>2, StaysSame DEF I!LoseInformers
<1>4. Tells'
  BY <1>1, <1>2, <1>3, LostObjects
<1>5. \A v \in Workers : local'[v] \in {local[v], NoLocals}
  BY DEF Restart
<1> QED BY <1>2, <1>3, <1>4, <1>5, ForgottenStays

LEMMA OwnersNext ==
    ASSUME IInv, Owners, NamesAgree, [Next]_vars
    PROVE  Owners'
<1>1. /\ left'["delete"] = 0
      /\ ~\E k \in Kinds, n \in Names : DeleteDependent(k, n)
  BY NoDeletions DEF Owners
<1>2. CASE User
  BY <1>1, <1>2, UserStays
<1>3. ASSUME NEW k \in Kinds, NEW n \in Names, GarbageCollect(k, n) PROVE Owners'
  BY <1>1, <1>3, GarbageStays
<1>4. ASSUME NEW kind \in Stored, List(kind) \/ \E n \in KeysOf[kind] : Deliver(kind, n)
      PROVE  Owners'
  BY <1>1, <1>4, InformersStay
<1>5. CASE Resync \/ Stop
  BY <1>1, <1>5, QuietStays DEF Resync, Stop, threads
<1>6. ASSUME NEW a \in Apps, EnqueueApp(a) \/ AddAfterBackoff(a) PROVE Owners'
  BY <1>1, <1>6, QuietStays DEF EnqueueApp, AddAfterBackoff, threads
<1>7. ASSUME NEW w \in Workers, SyncStep(w) PROVE Owners'
  <2>1. CASE Create(w)
    BY <1>1, <2>1, CreateStays DEF Create
  <2>2. CASE CreateAlreadyExists(w)
    BY <1>1, <2>2, QuietStays DEF CreateAlreadyExists
  <2> QED BY <1>1, <1>7, <2>1, <2>2, GetAppStays, LookupStays, CheckStays, DoneStays
          DEF SyncStep
<1>8. ASSUME NEW w \in Workers, CreateFails(w) PROVE Owners'
  <2>1. CASE UNCHANGED informers
    BY <1>1, <1>8, <2>1, QuietStays DEF CreateFails
  <2>2. CASE ~UNCHANGED informers
    BY <1>1, <1>8, <2>2, CreateStays DEF CreateFails
  <2> QED BY <2>1, <2>2
<1>9. ASSUME NEW w \in Workers, NEW a \in Apps, Get(w, a) PROVE Owners'
  BY <1>1, <1>9, QuietStays DEF Get
<1>10. CASE Restart
  BY <1>1, <1>10, RestartStays
<1>11. CASE UNCHANGED vars
  BY <1>1, <1>11, QuietStays DEF vars, threads
<1> QED BY <1>2, <1>3, <1>4, <1>5, <1>6, <1>7, <1>8, <1>9, <1>10, <1>11 DEF Next

LEMMA OwnersFirst == NobodyDeletes /\ Init => Owners
<1> SUFFICES ASSUME NobodyDeletes, Init PROVE Owners
  OBVIOUS
<1>1. \A kind \in Stored : \A n \in KeysOf[kind] :
        /\ store[kind][n] = None /\ cache[kind][n] = None
        /\ pend[kind][n] = <<>>
  BY DEF Init, I!InformersInit
<1>2. Tells
  BY <1>1, EmptySeq DEF Tells, TellingIn, IP!Held
<1>3. \A w \in Workers : LocalTells(w)
  BY DEF Init, LocalTells, NoLocals
<1>4. \A a \in Apps : ReportTells(a)
  BY DEF Init, ReportTells
<1> QED BY <1>2, <1>3, <1>4 DEF Owners, Init, NobodyDeletes

-----------------------------------------------------------------------------
(* Theorems.                                                               *)

\* IInv holds in every reachable state of the controller and its environment.
THEOREM Invariance == Safety => []IInv
BY InitHolds, NextKeeps, PTL DEF Safety

\* Every variable keeps its type: in particular syncHandler never leaves the
\* list of kinds it works through, and no nil App is dereferenced.
THEOREM TypeCorrect == Safety => []TypeOK
<1>1. IInv => TypeOK
  BY DEF IInv
<1> QED BY <1>1, Invariance, PTL

\* No version of an App is forgotten, with any number of workers, however far
\* the caches trail and whatever fails, crashes or is restarted.
THEOREM NothingForgotten == Safety => []NoAppForgotten
<1>1. ASSUME IInv PROVE NoAppForgotten
  <2> SUFFICES ASSUME NEW a \in Apps, store["App"][a] # None,
                      synced[a] # store["App"][a], "App" \in listed, ~I!News("App", a)
               PROVE  Underway(a, store["App"][a])
    BY DEF NoAppForgotten, WorkOutstanding
  <2>1. cache["App"][a] = store["App"][a]
    BY <1>1, CurrentApp DEF IInv, TypeOK, CacheTrails
  <2> QED BY <1>1, <2>1 DEF IInv, CachedAppIsServed
<1> QED BY <1>1, Invariance, PTL

\* processNextWorkItem forgets or retries every key the rate limiter counts.
THEOREM FailuresForgotten == Safety => []NoTrackedFailureLeaks
<1>1. IInv => NoTrackedFailureLeaks
  BY DEF IInv
<1> QED BY <1>1, Invariance, PTL

\* The caches trail the API server, through lost watches and restarts, up to the
\* objects whose deletion DeltaFIFO's Replace has overlooked: what exists is going
\* to be cached as it is, and what is gone is not going to be cached in any other
\* way than that.
THEOREM CachesTrail == Safety => []CacheTrails
<1>1. IInv => CacheTrails
  BY DEF IInv
<1> QED BY <1>1, Invariance, PTL

\* If nobody but the garbage collector deletes dependents, and every spec gives
\* them one name, an App whose current version was reported Synced has all of
\* them, and they are its own.  Both conditions are needed: the controller has no
\* handler for deleted dependents, and it creates under another name than it
\* looks up under (controller.go:419) where the names differ.
THEOREM SyncedOwned ==
    ASSUME NobodyDeletes, NamesAgree
    PROVE  Safety => []SyncedMeansOwned
<1>1. Init => IInv /\ OwnersStay
  BY InitHolds, OwnersFirst, OwnersBefore DEF OwnersAre
<1>2. IInv /\ OwnersStay /\ [Next]_vars => (IInv /\ OwnersStay)'
  BY NextKeeps, OwnersNext, OwnersBefore, OwnersAfter DEF OwnersAre
<1>3. IInv /\ OwnersStay => SyncedMeansOwned
  <2> SUFFICES ASSUME Owners, NEW a \in Apps, store["App"][a] # None,
                      synced[a] = store["App"][a], NEW k \in Kinds
               PROVE  LET obj == store[k][LookupName(synced[a], k)] IN
                      obj # None /\ obj.owner = synced[a].uid
    BY OwnersBefore DEF OwnersAre, SyncedMeansOwned
  <2>1. OwnedIn(store, nextUid, k, synced[a].spec.names[k], synced[a].uid)
    BY DEF Owners, ReportTells
  <2>2. AliveIn(store, synced[a].uid)
    BY DEF AliveIn
  <2> QED BY <2>1, <2>2 DEF OwnedIn, LookupName
<1> QED BY <1>1, <1>2, <1>3, PTL DEF Safety
=============================================================================
