----------------------- MODULE ServiceControllerProofs -----------------------
(***************************************************************************)
(* The safety of the Service controller, for any number of Services,       *)
(* workers, retries, disturbances and events under way: IInv is an         *)
(* inductive invariant, and no version of a Service is forgotten.          *)
(*                                                                         *)
(* The argument is that of AppControllerProofs: what is cached is served,  *)
(* because every change of the cache makes a note of the key, and every    *)
(* step passes the note on; and what is stored is cached or on its way.    *)
(* Nothing is resynced here, and updateService skips an update that        *)
(* changes nothing: what matters is that such an update leaves the cache,  *)
(* too, as it is.                                                          *)
(***************************************************************************)
EXTENDS ServiceController, SequenceTheorems, TLAPS

IP == INSTANCE InformersProofs WITH Keys <- KeysOf, Objects <- ObjectsOf

LEMMA KindFacts ==
    /\ Kinds = {"Service", "Ingress"}
    /\ KeysOf["Service"] = Services /\ KeysOf["Ingress"] = Services
    /\ ObjectsOf["Service"] = ServiceObjects
    /\ ObjectsOf["Ingress"] = IngressObjects
BY DEF Kinds, KeysOf, ObjectsOf

-----------------------------------------------------------------------------
(* The informers: what InformersProofs says, in the terms of this module.  *)

LEMMA InformersGood == I!TypeOK /\ I!CacheTrails <=> IP!Good
BY DEF IP!Good, I!TypeOK, IP!TypeOK, I!CacheTrails, IP!CacheTrails, I!Deltas,
       IP!Deltas, I!Final, IP!Final, I!Newest, IP!Newest, I!Applied, IP!Applied

LEMMA InformersGoodNext == (I!TypeOK /\ I!CacheTrails)' <=> IP!Good'
BY DEF IP!Good, I!TypeOK, IP!TypeOK, I!CacheTrails, IP!CacheTrails, I!Deltas,
       IP!Deltas, I!Final, IP!Final, I!Newest, IP!Newest, I!Applied, IP!Applied

LEMMA Distinct == IP!Distinct
BY NoneIsNoObject, KindFacts DEF IP!Distinct

LEMMA WriteKeeps ==
    ASSUME I!TypeOK, I!CacheTrails, NEW kind \in Kinds,
           NEW n \in KeysOf[kind], NEW obj \in ObjectsOf[kind] \cup {None},
           I!Write(kind, n, obj)
    PROVE  (I!TypeOK /\ I!CacheTrails)' /\ cache' = cache
<1>1. IP!Good /\ IP!Write(kind, n, obj)
  BY InformersGood DEF I!Write, IP!Write
<1>2. IP!Good'
  BY <1>1, Distinct, IP!GoodWrite
<1> QED BY <1>2, InformersGoodNext DEF I!Write

LEMMA ReplaceKeeps ==
    ASSUME I!TypeOK, I!CacheTrails, NEW kind \in Kinds, I!Replace(kind)
    PROVE  (I!TypeOK /\ I!CacheTrails)' /\ cache' = cache
<1>1. IP!Good /\ IP!Replace(kind)
  <2>1. IP!Replace(kind)
    BY Zenon
       DEF I!Replace, IP!Replace, I!Relisted, IP!Relisted, I!Bury, IP!Bury,
           I!Overlooked, IP!Overlooked, I!Newest, IP!Newest, I!Applied, IP!Applied
  <2> QED BY <2>1, InformersGood
<1>2. IP!Good'
  BY <1>1, Distinct, IP!GoodReplace
<1>3. IP!Replaced(kind)
  BY <1>1, IP!ReplaceFacts
<1> QED BY <1>2, <1>3, InformersGoodNext DEF IP!Replaced

LEMMA DeltaKeeps ==
    ASSUME I!TypeOK, I!CacheTrails, NEW kind \in Kinds, NEW n \in KeysOf[kind],
           I!ProcessDelta(kind, n)
    PROVE  (I!TypeOK /\ I!CacheTrails)' /\ IP!Applying(kind, n)
<1>1. IP!Good /\ IP!ProcessDelta(kind, n)
  BY InformersGood DEF I!ProcessDelta, IP!ProcessDelta, I!Applied, IP!Applied
<1>2. IP!Good'
  BY <1>1, IP!GoodDelta
<1>3. IP!Applying(kind, n)
  BY <1>1, IP!DeltaFacts
<1> QED BY <1>2, <1>3, InformersGoodNext

LEMMA LossKeeps ==
    ASSUME I!TypeOK, I!CacheTrails, I!LoseInformers
    PROVE  (I!TypeOK /\ I!CacheTrails)'
<1>1. IP!Good /\ IP!LoseInformers
  BY InformersGood DEF I!LoseInformers, IP!LoseInformers
<1>2. IP!Good'
  BY <1>1, IP!GoodLoss
<1> QED BY <1>2, InformersGoodNext

LEMMA StutterKeeps ==
    ASSUME I!TypeOK, I!CacheTrails, UNCHANGED informers
    PROVE  (I!TypeOK /\ I!CacheTrails)'
<1>1. IP!Good /\ UNCHANGED IP!informerVars
  BY InformersGood DEF informers, IP!informerVars
<1>2. IP!Good'
  BY <1>1, IP!GoodStutter
<1> QED BY <1>2, InformersGoodNext

\* A stored Service is cached as it is, or something is under way about it.
LEMMA CurrentService ==
    ASSUME I!TypeOK, I!CacheTrails, "Service" \in listed, NEW s \in Services,
           store["Service"][s] # None, ~I!News("Service", s)
    PROVE  cache["Service"][s] = store["Service"][s]
<1>1. IP!Good /\ ~IP!News("Service", s) /\ s \in KeysOf["Service"]
  BY InformersGood, KindFacts DEF I!News, IP!News, I!Applied, IP!Applied
<1> QED BY <1>1, KindFacts, IP!NoNewsIsCurrent

LEMMA StoredTypes ==
    ASSUME I!TypeOK
    PROVE  /\ DOMAIN store = Kinds /\ DOMAIN cache = Kinds
           /\ store["Service"] \in [Services -> ServiceObjects \cup {None}]
           /\ cache["Service"] \in [Services -> ServiceObjects \cup {None}]
           /\ store["Ingress"] \in [Services -> IngressObjects \cup {None}]
           /\ cache["Ingress"] \in [Services -> IngressObjects \cup {None}]
BY KindFacts DEF I!TypeOK

-----------------------------------------------------------------------------
(* Syncs to come.                                                          *)

LEMMA AheadKept ==
    ASSUME NEW s, Ahead(s),
           notes \cup dirty \cup waiting \subseteq notes' \cup dirty' \cup waiting'
    PROVE  Ahead(s)'
BY DEF Ahead

\* A step that leaves the workers alone, and puts what it caches ahead.
LEMMA WorkersIdle ==
    ASSUME IInv, UNCHANGED <<holding, threads, handled, givenUp>>,
           \A s \in Services : Ahead(s) => Ahead(s)',
           \A s \in Services :
               cache'["Service"][s] \in {None, cache["Service"][s]} \/ Ahead(s)'
    PROVE  WorkerState' /\ StaleSyncIsFollowed' /\ CachedServiceIsServed'
<1>1. WorkerState'
  BY DEF IInv, WorkerState, threads
<1>2. StaleSyncIsFollowed'
  <2> SUFFICES ASSUME NEW w \in Workers, pc[w] \in {"ingress", "create", "delete"},
                      cache'["Service"][holding[w]] \notin {None, local[w]}
               PROVE  Ahead(holding[w])'
    BY DEF StaleSyncIsFollowed, threads
  <2>1. holding[w] \in Services
    BY DEF IInv, TypeOK, WorkerState
  <2>2. CASE cache'["Service"][holding[w]] = cache["Service"][holding[w]]
    <3>1. Ahead(holding[w])
      BY <2>2 DEF IInv, StaleSyncIsFollowed
    <3> QED BY <2>1, <3>1
  <2> QED BY <2>1, <2>2
<1>3. CachedServiceIsServed'
  <2> SUFFICES ASSUME NEW s \in Services,
                      cache'["Service"][s] \notin {None, handled[s], givenUp[s]},
                      ~Ahead(s)'
               PROVE  \E w \in Workers :
                         /\ holding[w] = s
                         /\ \/ pc[w] = "service"
                            \/ pc[w] # "Done" /\ local[w] = cache'["Service"][s]
    BY DEF CachedServiceIsServed, Underway, threads
  <2>1. cache'["Service"][s] = cache["Service"][s] /\ ~Ahead(s)
    OBVIOUS
  <2>2. Underway(s, cache["Service"][s])
    BY <2>1 DEF IInv, CachedServiceIsServed
  <2> QED BY <2>1, <2>2 DEF Underway
<1> QED BY <1>1, <1>2, <1>3

\* A step of a worker that holds a key.  What is left to show is about that key
\* alone.
LEMMA WorkerMoves ==
    ASSUME IInv, NEW w \in Workers, NEW h \in Services, h = holding[w],
           cache' = cache, UNCHANGED <<notes, items>>, waiting \subseteq waiting',
           \A v \in Workers \ {w} : pc'[v] = pc[v] /\ local'[v] = local[v],
           \A s \in Services \ {h} :
               handled'[s] = handled[s] /\ givenUp'[s] = givenUp[s],
           pc'[w] # "Get",
           pc'[w] # "Done" => \/ cache["Service"][h] \in {None, local'[w]}
                              \/ Ahead(h),
           pc'[w] = "Done" => \/ cache["Service"][h] \in {None, handled'[h], givenUp'[h]}
                              \/ Ahead(h)'
    PROVE  WorkerState' /\ StaleSyncIsFollowed' /\ CachedServiceIsServed'
<1>1. /\ holding' = holding /\ dirty' = dirty
      /\ \A v \in Workers : holding[v] \in Services \cup {None}
      /\ h # None
  BY ServiceAssumption DEF IInv, TypeOK, items
<1>2. \A s \in Services : Ahead(s) => Ahead(s)'
  BY AheadKept DEF items
<1>3. WorkerState'
  BY <1>1 DEF IInv, WorkerState
<1>4. StaleSyncIsFollowed'
  <2> SUFFICES ASSUME NEW v \in Workers,
                      pc'[v] \in {"ingress", "create", "delete"},
                      cache["Service"][holding[v]] \notin {None, local'[v]}
               PROVE  Ahead(holding[v])'
    BY <1>1 DEF StaleSyncIsFollowed
  <2>1. CASE v = w
    BY <2>1, <1>1, <1>2 DEF Ahead
  <2>2. CASE v # w
    <3>1. Ahead(holding[v])
      BY <2>2 DEF IInv, StaleSyncIsFollowed
    <3>2. holding[v] \in Services
      BY <2>2, <1>1 DEF IInv, WorkerState
    <3> QED BY <3>1, <3>2, <1>1, <1>2 DEF Ahead
  <2> QED BY <2>1, <2>2
<1>5. CachedServiceIsServed'
  <2> SUFFICES ASSUME NEW s \in Services,
                      cache["Service"][s] \notin {None, handled'[s], givenUp'[s]},
                      ~Ahead(s)'
               PROVE  \E v \in Workers :
                         /\ holding[v] = s
                         /\ \/ pc'[v] = "service"
                            \/ pc'[v] # "Done" /\ local'[v] = cache["Service"][s]
    BY <1>1 DEF CachedServiceIsServed, Underway
  <2>1. ~Ahead(s)
    BY <1>2
  <2>2. CASE s = h
    BY <2>1, <2>2
  <2>3. CASE s # h
    <3>1. Underway(s, cache["Service"][s])
      BY <2>3 DEF IInv, CachedServiceIsServed
    <3>2. PICK v \in Workers :
            /\ holding[v] = s
            /\ \/ pc[v] = "service"
               \/ pc[v] # "Done" /\ local[v] = cache["Service"][s]
      BY <2>1, <3>1 DEF Underway
    <3> QED BY <2>3, <3>2
  <2> QED BY <2>2, <2>3
<1> QED BY <1>3, <1>4, <1>5

-----------------------------------------------------------------------------
(* The steps.                                                              *)

PCs == {"Get", "service", "ingress", "create", "delete", "Done"}

LEMMA InitHolds == Init => IInv
<1> SUFFICES ASSUME Init PROVE IInv
  OBVIOUS
<1>1. I!TypeOK /\ I!CacheTrails
  <2>1. IP!InformersInit
    BY DEF Init, I!InformersInit, IP!InformersInit
  <2> QED BY <2>1, IP!GoodInit, InformersGood
<1>2. \A s \in Services : cache["Service"][s] = None
  BY KindFacts DEF Init, I!InformersInit
<1>3. TypeOK
  <2>1. failures \in [Services -> 0 .. MaxRetry + 1]
    BY ServiceAssumption DEF Init
  <2>2. left \in [Disturbances -> Nat] /\ nextVersion \in Nat
    BY ServiceAssumption DEF Init
  <2> QED BY <1>1, <2>1, <2>2 DEF Init, TypeOK, Q!ItemInit
<1>4. WorkerState
  BY DEF Init, WorkerState, Q!ItemInit
<1>5. StaleSyncIsFollowed
  BY DEF Init, StaleSyncIsFollowed
<1>6. CachedServiceIsServed
  BY <1>2 DEF CachedServiceIsServed
<1> QED BY <1>1, <1>3, <1>4, <1>5, <1>6 DEF IInv

LEMMA SpendTypes ==
    ASSUME left \in [Disturbances -> Nat], NEW d \in Disturbances, Spend(d)
    PROVE  left' \in [Disturbances -> Nat]
BY DEF Spend

\* A write by a user changes nothing for the workers: what is cached stays.
LEMMA UserWriteKeeps ==
    ASSUME IInv, NEW d \in Disturbances, NEW kind \in Kinds, NEW s \in Services,
           NEW obj \in ObjectsOf[kind] \cup {None},
           UserWrite(d, kind, s, obj), nextVersion' \in Nat,
           gone' \subseteq Services
    PROVE  IInv'
<1>1. (I!TypeOK /\ I!CacheTrails)' /\ cache' = cache
  BY KindFacts, WriteKeeps DEF IInv, TypeOK, UserWrite
<1>2. /\ UNCHANGED <<notes, dirty, holding, shuttingDown, waiting, failures,
                     threads, handled, givenUp, panicked>>
      /\ left' \in [Disturbances -> Nat]
  BY SpendTypes DEF IInv, TypeOK, UserWrite, items, limiter
<1>3. TypeOK'
  BY <1>1, <1>2 DEF IInv, TypeOK, threads
<1>4. \A t \in Services : Ahead(t) => Ahead(t)'
  BY <1>2, AheadKept
<1>5. WorkerState' /\ StaleSyncIsFollowed' /\ CachedServiceIsServed'
  BY <1>1, <1>2, <1>4, WorkersIdle
<1> QED BY <1>1, <1>3, <1>5 DEF IInv

LEMMA UserKeeps == ASSUME IInv, NEW s \in Services, User(s) PROVE IInv'
<1> "user" \in Disturbances /\ "ingress" \in Disturbances
  BY DEF Disturbances
<1>1. ASSUME NEW annotated \in BOOLEAN, WriteService(s, annotated) PROVE IInv'
  <2>1. /\ [version |-> nextVersion, annotated |-> annotated] \in ServiceObjects
        /\ nextVersion' \in Nat /\ gone' \subseteq Services
    BY <1>1 DEF WriteService, ServiceObjects, IInv, TypeOK
  <2> QED BY <1>1, <2>1, KindFacts, UserWriteKeeps DEF WriteService
<1>2. CASE DeleteService(s)
  BY <1>2, KindFacts, UserWriteKeeps DEF DeleteService, IInv, TypeOK
<1>3. CASE CreateForeign(s)
  <2>1. [ownerKind |-> "other"] \in IngressObjects
    BY DEF IngressObjects, OwnerKinds
  <2> QED BY <1>3, <2>1, KindFacts, UserWriteKeeps DEF CreateForeign, IInv, TypeOK
<1>4. CASE DeleteForeign(s)
  BY <1>4, KindFacts, UserWriteKeeps DEF DeleteForeign, IInv, TypeOK
<1> QED BY <1>1, <1>2, <1>3, <1>4 DEF User

\* A list leaves the cache as it is.
LEMMA ListKeeps == ASSUME IInv, NEW kind \in Kinds, List(kind) PROVE IInv'
<1>1. (I!TypeOK /\ I!CacheTrails)' /\ cache' = cache
  BY ReplaceKeeps DEF IInv, TypeOK, List
<1>2. /\ UNCHANGED <<nextVersion, notes, dirty, holding, shuttingDown, waiting,
                     failures, threads, handled, givenUp, gone, panicked>>
      /\ left' \in [Disturbances -> Nat]
  BY SpendTypes DEF List, IInv, TypeOK, items, limiter, history, Disturbances
<1>3. TypeOK'
  BY <1>1, <1>2 DEF IInv, TypeOK, threads
<1>4. \A s \in Services : Ahead(s) => Ahead(s)'
  BY <1>2, AheadKept
<1>5. WorkerState' /\ StaleSyncIsFollowed' /\ CachedServiceIsServed'
  BY <1>1, <1>2, <1>4, WorkersIdle
<1> QED BY <1>1, <1>3, <1>5 DEF IInv

\* A delta that shows a Service in another way turns into a note.
LEMMA DeliverKeeps ==
    ASSUME IInv, NEW kind \in Kinds, NEW n \in Services, Deliver(kind, n)
    PROVE  IInv'
<1>1. (I!TypeOK /\ I!CacheTrails)' /\ IP!Applying(kind, n)
  BY KindFacts, DeltaKeeps DEF IInv, TypeOK, Deliver
<1>2. UNCHANGED <<nextVersion, dirty, holding, shuttingDown, waiting, failures,
                  threads, handled, givenUp, gone, panicked, left>>
  BY DEF Deliver, items, limiter, history
<1>3. notes \subseteq notes' /\ notes' \subseteq Services \cup {Tombstone}
  BY DEF Deliver, Calls, IInv, TypeOK
<1>4. TypeOK'
  BY <1>1, <1>2, <1>3 DEF IInv, TypeOK, threads
<1>5. \A s \in Services : Ahead(s) => Ahead(s)'
  BY <1>2, <1>3, AheadKept
<1>6. ASSUME NEW s \in Services,
             cache'["Service"][s] \notin {None, cache["Service"][s]}
      PROVE  Ahead(s)'
  <2>1. /\ kind = "Service" /\ n = s
        /\ cache'["Service"][s] = I!Applied(Head(pend[kind][n]))
    BY <1>1, <1>6, StoredTypes, KindFacts
       DEF IP!Applying, IP!Applied, I!Applied, IInv, TypeOK
  <2>2. ServiceHandler(s, I!Applied(Head(pend[kind][n])))
    BY <1>6, <2>1 DEF ServiceHandler
  <2>3. s \in notes'
    BY <2>1, <2>2 DEF Deliver, Calls
  <2> QED BY <2>3 DEF Ahead
<1>7. WorkerState' /\ StaleSyncIsFollowed' /\ CachedServiceIsServed'
  BY <1>2, <1>5, <1>6, WorkersIdle
<1> QED BY <1>1, <1>4, <1>7 DEF IInv

\* The process ends: nothing is cached any more.
LEMMA LossKeepsInv ==
    ASSUME IInv, LoseProcess, panicked' \in BOOLEAN, left' \in [Disturbances -> Nat]
    PROVE  IInv'
<1>1. (I!TypeOK /\ I!CacheTrails)'
  BY LossKeeps DEF IInv, TypeOK, LoseProcess
<1>2. failures' \in [Services -> 0 .. MaxRetry + 1]
  BY ServiceAssumption DEF LoseProcess
<1>3. TypeOK'
  BY <1>1, <1>2 DEF IInv, TypeOK, LoseProcess
<1>4. WorkerState' /\ StaleSyncIsFollowed'
  BY DEF LoseProcess, WorkerState, StaleSyncIsFollowed
<1>5. CachedServiceIsServed'
  <2>1. \A s \in Services : cache'["Service"][s] = None
    BY KindFacts DEF LoseProcess, I!LoseInformers
  <2> QED BY <2>1 DEF CachedServiceIsServed
<1> QED BY <1>1, <1>3, <1>4, <1>5 DEF IInv

LEMMA CrashKeeps == ASSUME IInv, Crash \/ Panic PROVE IInv'
<1>1. left' \in [Disturbances -> Nat]
  BY SpendTypes DEF Crash, Panic, IInv, TypeOK, Disturbances
<1>2. panicked' \in BOOLEAN
  BY DEF Crash, Panic, IInv, TypeOK
<1> QED BY <1>1, <1>2, LossKeepsInv DEF Crash, Panic

\* A note or the end of a back-off turns into a queue item.
LEMMA QueueStepKeeps ==
    ASSUME IInv, NEW s \in Services, Enqueue(s) \/ AddAfterBackoff(s)
    PROVE  IInv'
<1>1. (I!TypeOK /\ I!CacheTrails)'
  BY StutterKeeps DEF IInv, TypeOK, Enqueue, AddAfterBackoff
<1>2. /\ UNCHANGED <<informers, nextVersion, holding, shuttingDown, failures,
                     threads, handled, givenUp, gone, panicked, left>>
      /\ notes' \subseteq Services \cup {Tombstone} /\ dirty' \subseteq Services
      /\ waiting' \subseteq Services
      /\ notes \cup dirty \cup waiting \subseteq notes' \cup dirty' \cup waiting'
  BY DEF Enqueue, AddAfterBackoff, Q!Add, IInv, TypeOK, limiter, history
<1>3. TypeOK'
  BY <1>1, <1>2 DEF IInv, TypeOK, threads
<1>4. \A t \in Services : Ahead(t) => Ahead(t)'
  BY <1>2, AheadKept
<1>5. WorkerState' /\ StaleSyncIsFollowed' /\ CachedServiceIsServed'
  BY <1>2, <1>4, WorkersIdle DEF informers
<1> QED BY <1>1, <1>3, <1>5 DEF IInv

LEMMA IdleKeeps == ASSUME IInv, UNCHANGED vars PROVE IInv'
<1>1. UNCHANGED <<informers, nextVersion, notes, dirty, holding, shuttingDown,
                  waiting, failures, threads, handled, givenUp, gone, panicked,
                  left>>
  BY DEF vars, items, limiter, history
<1>2. (I!TypeOK /\ I!CacheTrails)'
  BY <1>1, StutterKeeps DEF IInv, TypeOK
<1>3. TypeOK'
  BY <1>1, <1>2 DEF IInv, TypeOK, threads
<1>4. \A t \in Services : Ahead(t) => Ahead(t)'
  BY <1>1, AheadKept
<1>5. WorkerState' /\ StaleSyncIsFollowed' /\ CachedServiceIsServed'
  BY <1>1, <1>4, WorkersIdle DEF informers
<1> QED BY <1>2, <1>3, <1>5 DEF IInv

\* A worker takes a key that no other worker holds: no sync that this one was to
\* follow is under way.
LEMMA GetKeeps ==
    ASSUME IInv, NEW w \in Workers, NEW s \in Services, Get(w, s) PROVE IInv'
<1>1. (I!TypeOK /\ I!CacheTrails)'
  BY StutterKeeps DEF IInv, TypeOK, Get
<1>2. /\ UNCHANGED <<informers, nextVersion, notes, shuttingDown, waiting,
                     failures, local, handled, givenUp, gone, panicked, left>>
      /\ dirty' = dirty \ {s}
      /\ holding' = [holding EXCEPT ![w] = s] /\ pc' = [pc EXCEPT ![w] = "service"]
      /\ holding[w] = None /\ s # None
      /\ \A v \in Workers : holding[v] # s
  BY ServiceAssumption DEF Get, Q!Take, Q!Held, limiter, history
<1>3. TypeOK'
  BY <1>1, <1>2 DEF IInv, TypeOK
<1>4. WorkerState'
  BY <1>2 DEF IInv, TypeOK, WorkerState
<1>5. cache' = cache
  BY <1>2 DEF informers
<1>6. \A t \in Services \ {s} : Ahead(t) => Ahead(t)'
  BY <1>2 DEF Ahead
<1>7. StaleSyncIsFollowed'
  <2> SUFFICES ASSUME NEW v \in Workers, NEW g, g = holding'[v],
                      pc'[v] \in {"ingress", "create", "delete"},
                      cache["Service"][g] \notin {None, local[v]}
               PROVE  Ahead(g)'
    BY <1>2, <1>5 DEF StaleSyncIsFollowed
  <2>1. v # w
    BY <1>2 DEF IInv, TypeOK
  <2>2. pc[v] = pc'[v] /\ holding[v] = g
    BY <2>1, <1>2 DEF IInv, TypeOK
  <2>3. g \in Services \ {s} /\ Ahead(g)
    BY <2>2, <1>2 DEF IInv, TypeOK, WorkerState, StaleSyncIsFollowed
  <2> QED BY <2>3, <1>6
<1>8. CachedServiceIsServed'
  <2> SUFFICES ASSUME NEW t \in Services,
                      cache["Service"][t] \notin {None, handled[t], givenUp[t]}
               PROVE  Underway(t, cache["Service"][t])'
    BY <1>2, <1>5 DEF CachedServiceIsServed
  <2>1. CASE t = s
    <3>1. holding'[w] = t /\ pc'[w] = "service"
      BY <2>1, <1>2 DEF IInv, TypeOK
    <3> QED BY <3>1 DEF Underway
  <2>2. CASE t # s
    <3>1. Underway(t, cache["Service"][t])
      BY DEF IInv, CachedServiceIsServed
    <3>2. CASE Ahead(t)
      BY <2>2, <3>2, <1>6 DEF Underway
    <3>3. CASE ~Ahead(t)
      <4>1. PICK v \in Workers :
              /\ holding[v] = t
              /\ \/ pc[v] = "service"
                 \/ pc[v] # "Done" /\ local[v] = cache["Service"][t]
        BY <3>1, <3>3 DEF Underway
      <4>2. v # w
        BY <4>1, <1>2, ServiceAssumption
      <4>3. holding'[v] = t /\ pc'[v] = pc[v] /\ local'[v] = local[v]
        BY <4>1, <4>2, <1>2 DEF IInv, TypeOK
      <4> QED BY <4>1, <4>3, <1>5 DEF Underway
    <3> QED BY <3>2, <3>3
  <2> QED BY <2>1, <2>2
<1> QED BY <1>1, <1>3, <1>4, <1>7, <1>8 DEF IInv

\* A worker whose step is not its Get or Done holds a key.
LEMMA Holds ==
    ASSUME IInv, NEW w \in Workers, pc[w] # "Get"
    PROVE  \E h \in Services : h = holding[w]
BY DEF IInv, TypeOK, WorkerState

\* What a step of a worker preserves: the step itself has to be shown to be right
\* about the key it is about.
LEMMA SyncKeeps ==
    ASSUME IInv, NEW w \in Workers, NEW h \in Services, h = holding[w],
           (I!TypeOK /\ I!CacheTrails)', cache' = cache,
           UNCHANGED <<nextVersion, notes, items, panicked>>,
           gone' \subseteq Services, left' \in [Disturbances -> Nat],
           NEW l \in PCs \ {"Get"}, pc' = [pc EXCEPT ![w] = l],
           NEW service \in ServiceObjects \cup {None},
           local' = [local EXCEPT ![w] = service],
           \/ UNCHANGED handled
           \/ handled' = [handled EXCEPT ![h] = service],
           \/ UNCHANGED givenUp
           \/ givenUp' = [givenUp EXCEPT ![h] = service],
           failures' \in [Services -> 0 .. MaxRetry + 1],
           waiting \subseteq waiting', waiting' \subseteq Services,
           cache["Service"][h] \in {None, service} \/ Ahead(h),
           l = "Done" => service \in {handled'[h], givenUp'[h]} \/ Ahead(h)'
    PROVE  IInv'
<1>1. /\ pc'[w] = l /\ local'[w] = service
      /\ \A v \in Workers \ {w} : pc'[v] = pc[v] /\ local'[v] = local[v]
      /\ \A s \in Services \ {h} :
           handled'[s] = handled[s] /\ givenUp'[s] = givenUp[s]
      /\ pc' \in [Workers -> PCs]
      /\ local' \in [Workers -> ServiceObjects \cup {None}]
      /\ handled' \in [Services -> ServiceObjects \cup {None}]
      /\ givenUp' \in [Services -> ServiceObjects \cup {None}]
  BY DEF IInv, TypeOK, PCs
<1>2. TypeOK'
  BY <1>1 DEF IInv, TypeOK, items, PCs
<1>3. Ahead(h) => Ahead(h)'
  BY AheadKept DEF items
<1>4. pc'[w] = "Done" => \/ cache["Service"][h] \in {None, handled'[h], givenUp'[h]}
                         \/ Ahead(h)'
  BY <1>1, <1>3
<1>5. WorkerState' /\ StaleSyncIsFollowed' /\ CachedServiceIsServed'
  BY <1>1, <1>4, WorkerMoves
<1> QED BY <1>2, <1>5 DEF IInv

\* syncService reads what is cached.
LEMMA GetServiceKeeps ==
    ASSUME IInv, NEW w \in Workers, GetService(w) PROVE IInv'
<1>1. PICK h \in Services : h = holding[w]
  BY Holds DEF GetService
<1>2. (I!TypeOK /\ I!CacheTrails)'
  BY StutterKeeps DEF IInv, TypeOK, GetService
<1>3. PICK service \in ServiceObjects \cup {None} : service = cache["Service"][h]
  BY StoredTypes DEF IInv, TypeOK
<1>4. /\ UNCHANGED <<informers, nextVersion, notes, items, gone, panicked, left,
                     limiter, givenUp>>
      /\ local' = [local EXCEPT ![w] = service]
      /\ \/ /\ pc' = [pc EXCEPT ![w] = "Done"]
            /\ handled' = [handled EXCEPT ![h] = service]
         \/ /\ pc' = [pc EXCEPT ![w] = "ingress"]
            /\ UNCHANGED handled
  BY <1>1, <1>3 DEF GetService, Succeed, Goto
<1>5. /\ failures' \in [Services -> 0 .. MaxRetry + 1] /\ waiting' = waiting
      /\ waiting \subseteq Services /\ gone' \subseteq Services
      /\ left' \in [Disturbances -> Nat] /\ handled \in [Services -> ServiceObjects \cup {None}]
      /\ cache' = cache
  BY <1>4 DEF IInv, TypeOK, limiter, informers
<1>6. CASE /\ pc' = [pc EXCEPT ![w] = "Done"]
           /\ handled' = [handled EXCEPT ![h] = service]
  <2>1. service \in {handled'[h], givenUp'[h]} /\ "Done" \in PCs \ {"Get"}
    BY <1>5, <1>6 DEF PCs
  <2>2. /\ UNCHANGED <<nextVersion, notes, items, panicked, givenUp>>
        /\ local' = [local EXCEPT ![w] = service]
        /\ cache["Service"][h] \in {None, service}
    BY <1>3, <1>4
  <2> QED BY <1>1, <1>2, <1>5, <1>6, <2>1, <2>2, SyncKeeps
<1>7. CASE pc' = [pc EXCEPT ![w] = "ingress"] /\ UNCHANGED handled
  <2>1. "ingress" \in PCs \ {"Get"} /\ "ingress" # "Done"
    BY DEF PCs
  <2>2. /\ UNCHANGED <<nextVersion, notes, items, panicked, givenUp>>
        /\ local' = [local EXCEPT ![w] = service]
        /\ cache["Service"][h] \in {None, service}
    BY <1>3, <1>4
  <2> QED BY <1>1, <1>2, <1>5, <1>7, <2>1, <2>2, SyncKeeps
<1> QED BY <1>4, <1>6, <1>7

\* A step after syncService has read the Service: it goes on, ends without an
\* error or ends with one.
LEMMA DecisionKeeps ==
    ASSUME IInv, NEW w \in Workers, pc[w] \in {"ingress", "create", "delete"},
           (I!TypeOK /\ I!CacheTrails)', cache' = cache,
           UNCHANGED <<nextVersion, notes, items, local, panicked>>,
           gone' \subseteq Services, left' \in [Disturbances -> Nat],
           \/ /\ Goto(w, "create") \/ Goto(w, "delete")
              /\ UNCHANGED <<limiter, handled, givenUp>>
           \/ Succeed(w, local[w])
           \/ Fail(w)
    PROVE  IInv'
<1>1. PICK h \in Services : h = holding[w]
  BY Holds
<1>2. PICK service \in ServiceObjects \cup {None} :
        service = local[w] /\ local' = [local EXCEPT ![w] = service]
  BY DEF IInv, TypeOK
<1>3. cache["Service"][h] \in {None, service} \/ Ahead(h)
  BY <1>1, <1>2 DEF IInv, StaleSyncIsFollowed
<1>4. /\ failures \in [Services -> 0 .. MaxRetry + 1] /\ waiting \subseteq Services
      /\ handled \in [Services -> ServiceObjects \cup {None}]
      /\ givenUp \in [Services -> ServiceObjects \cup {None}]
  BY DEF IInv, TypeOK
<1>5. ASSUME NEW l \in PCs \ {"Get", "Done"}, Goto(w, l),
             UNCHANGED <<limiter, handled, givenUp>>
      PROVE  IInv'
  <2>1. pc' = [pc EXCEPT ![w] = l] /\ UNCHANGED <<waiting, failures>>
    BY <1>5 DEF Goto, limiter
  <2> QED BY <1>1, <1>2, <1>3, <1>4, <1>5, <2>1, SyncKeeps
<1>6. CASE Succeed(w, local[w])
  <2>1. /\ pc' = [pc EXCEPT ![w] = "Done"] /\ "Done" \in PCs \ {"Get"}
        /\ handled' = [handled EXCEPT ![h] = service] /\ handled'[h] = service
        /\ UNCHANGED <<waiting, failures, givenUp>>
    BY <1>1, <1>2, <1>4, <1>6 DEF Succeed, Goto, limiter, PCs
  <2> QED BY <1>1, <1>2, <1>3, <1>4, <2>1, SyncKeeps
<1>7. CASE Fail(w)
  <2>1. /\ pc' = [pc EXCEPT ![w] = "Done"] /\ "Done" \in PCs \ {"Get"}
        /\ UNCHANGED handled
    BY <1>7 DEF Fail, Goto, PCs
  <2>2. \/ /\ failures[h] <= MaxRetry
           /\ failures' = [failures EXCEPT ![h] = @ + 1]
           /\ waiting' = waiting \cup {h} /\ UNCHANGED givenUp
        \/ /\ failures' = [failures EXCEPT ![h] = 0]
           /\ givenUp' = [givenUp EXCEPT ![h] = service] /\ UNCHANGED waiting
    BY <1>1, <1>2, <1>7 DEF Fail, MayRetry
  <2>3. CASE /\ failures[h] <= MaxRetry
             /\ failures' = [failures EXCEPT ![h] = @ + 1]
             /\ waiting' = waiting \cup {h} /\ UNCHANGED givenUp
    <3>1. failures' \in [Services -> 0 .. MaxRetry + 1]
      BY <1>4, <2>3, ServiceAssumption
    <3>2. Ahead(h)'
      BY <2>3 DEF Ahead
    <3> QED BY <1>1, <1>2, <1>3, <1>4, <2>1, <2>3, <3>1, <3>2, SyncKeeps
  <2>4. CASE /\ failures' = [failures EXCEPT ![h] = 0]
             /\ givenUp' = [givenUp EXCEPT ![h] = service] /\ UNCHANGED waiting
    <3>1. failures' \in [Services -> 0 .. MaxRetry + 1]
      BY <1>4, <2>4, ServiceAssumption
    <3>2. givenUp'[h] = service
      BY <1>4, <2>4
    <3> QED BY <1>1, <1>2, <1>3, <1>4, <2>1, <2>4, <3>1, <3>2, SyncKeeps
  <2> QED BY <2>2, <2>3, <2>4
<1> QED BY <1>5, <1>6, <1>7 DEF PCs

\* ... with the informers and the environment left alone.
LEMMA QuietDecisionKeeps ==
    ASSUME IInv, NEW w \in Workers, pc[w] \in {"ingress", "create", "delete"},
           UNCHANGED <<informers, nextVersion, notes, items, local, panicked, gone,
                       left>>,
           \/ /\ Goto(w, "create") \/ Goto(w, "delete")
              /\ UNCHANGED <<limiter, handled, givenUp>>
           \/ Succeed(w, local[w])
           \/ Fail(w)
    PROVE  IInv'
<1>1. (I!TypeOK /\ I!CacheTrails)'
  BY StutterKeeps DEF IInv, TypeOK
<1>2. gone' \subseteq Services /\ left' \in [Disturbances -> Nat]
  BY DEF IInv, TypeOK
<1> QED BY <1>1, <1>2, DecisionKeeps DEF informers

\* ... with a call that creates or deletes the Ingress.
LEMMA CallKeeps ==
    ASSUME IInv, NEW w \in Workers, pc[w] \in {"create", "delete"},
           NEW obj \in IngressObjects \cup {None},
           I!Write("Ingress", holding[w], obj),
           gone' \in {gone, gone \cup {holding[w]}},
           left' \in [Disturbances -> Nat],
           UNCHANGED <<nextVersion, notes, items, local, panicked>>,
           Succeed(w, local[w]) \/ Fail(w)
    PROVE  IInv'
<1>1. PICK h \in Services : h = holding[w]
  BY Holds
<1>2. (I!TypeOK /\ I!CacheTrails)' /\ cache' = cache
  BY <1>1, KindFacts, WriteKeeps DEF IInv, TypeOK
<1>3. gone' \subseteq Services
  BY <1>1 DEF IInv, TypeOK
<1> QED BY <1>2, <1>3, DecisionKeeps

LEMMA SyncStepKeeps ==
    ASSUME IInv, NEW w \in Workers,
           \/ GetIngress(w) \/ Create(w) \/ Delete(w) \/ Refused(w)
           \/ CallFails(w)
    PROVE  IInv'
<1>1. [ownerKind |-> "Service"] \in IngressObjects
  BY DEF IngressObjects, OwnerKinds
<1>2. CASE GetIngress(w)
  BY <1>2, QuietDecisionKeeps DEF GetIngress
<1>3. CASE Refused(w)
  BY <1>3, QuietDecisionKeeps DEF Refused
<1>4. CASE Create(w)
  BY <1>1, <1>4, CallKeeps DEF Create, IInv, TypeOK
<1>5. CASE Delete(w)
  BY <1>5, CallKeeps DEF Delete, IInv, TypeOK
<1>6. CASE CallFails(w)
  <2>1. left' \in [Disturbances -> Nat]
    BY <1>6, SpendTypes DEF CallFails, IInv, TypeOK, Disturbances
  <2>2. CASE UNCHANGED <<informers, gone>>
    <3>1. (I!TypeOK /\ I!CacheTrails)'
      BY <2>2, StutterKeeps DEF IInv, TypeOK
    <3> QED BY <1>6, <2>1, <2>2, <3>1, DecisionKeeps
            DEF CallFails, informers, IInv, TypeOK
  <2>3. CASE I!Write("Ingress", holding[w], [ownerKind |-> "Service"])
             /\ UNCHANGED gone
    BY <1>1, <1>6, <2>1, <2>3, CallKeeps DEF CallFails
  <2>4. CASE I!Write("Ingress", holding[w], None)
             /\ gone' = gone \cup {holding[w]}
    BY <1>6, <2>1, <2>4, CallKeeps DEF CallFails
  <2> QED BY <1>6, <2>2, <2>3, <2>4 DEF CallFails
<1> QED BY <1>2, <1>3, <1>4, <1>5, <1>6

\* A key that is done with is worked on by nobody, and needs not be.
LEMMA DoneKeeps == ASSUME IInv, NEW w \in Workers, Done(w) PROVE IInv'
<1>1. (I!TypeOK /\ I!CacheTrails)'
  BY StutterKeeps DEF IInv, TypeOK, Done
<1>2. /\ UNCHANGED <<informers, nextVersion, notes, dirty, shuttingDown, waiting,
                     failures, handled, givenUp, gone, panicked, left>>
      /\ holding' = [holding EXCEPT ![w] = None]
      /\ pc' = [pc EXCEPT ![w] = "Get"] /\ local' = [local EXCEPT ![w] = None]
      /\ pc[w] = "Done"
  BY DEF Done, Q!Done, Goto, limiter, history
<1>3. TypeOK'
  BY <1>1, <1>2 DEF IInv, TypeOK
<1>4. \A v \in Workers \ {w} : /\ holding'[v] = holding[v] /\ pc'[v] = pc[v]
                               /\ local'[v] = local[v]
  BY <1>2 DEF IInv, TypeOK
<1>5. holding'[w] = None /\ pc'[w] = "Get"
  BY <1>2 DEF IInv, TypeOK
<1>6. WorkerState'
  BY <1>4, <1>5 DEF IInv, WorkerState
<1>7. cache' = cache
  BY <1>2 DEF informers
<1>8. \A s \in Services : Ahead(s) => Ahead(s)'
  BY <1>2, AheadKept
<1>9. StaleSyncIsFollowed'
  <2> SUFFICES ASSUME NEW v \in Workers, NEW g, g = holding'[v],
                      pc'[v] \in {"ingress", "create", "delete"},
                      cache["Service"][g] \notin {None, local'[v]}
               PROVE  Ahead(g)'
    BY <1>7 DEF StaleSyncIsFollowed
  <2>1. pc[v] = pc'[v] /\ holding[v] = g /\ local[v] = local'[v]
    BY <1>4, <1>5
  <2>2. g \in Services /\ Ahead(g)
    BY <2>1 DEF IInv, TypeOK, WorkerState, StaleSyncIsFollowed
  <2> QED BY <2>2, <1>8
<1>10. CachedServiceIsServed'
  <2> SUFFICES ASSUME NEW s \in Services,
                      cache["Service"][s] \notin {None, handled[s], givenUp[s]}
               PROVE  Underway(s, cache["Service"][s])'
    BY <1>2, <1>7 DEF CachedServiceIsServed
  <2>1. Underway(s, cache["Service"][s])
    BY DEF IInv, CachedServiceIsServed
  <2>2. CASE Ahead(s)
    BY <2>2, <1>8 DEF Underway
  <2>3. CASE ~Ahead(s)
    <3>1. PICK v \in Workers :
            /\ holding[v] = s
            /\ \/ pc[v] = "service"
               \/ pc[v] # "Done" /\ local[v] = cache["Service"][s]
      BY <2>1, <2>3 DEF Underway
    <3>2. v # w
      BY <3>1, <1>2
    <3> QED BY <3>1, <3>2, <1>4, <1>7 DEF Underway
  <2> QED BY <2>2, <2>3
<1> QED BY <1>1, <1>3, <1>6, <1>9, <1>10 DEF IInv

LEMMA NextKeeps == IInv /\ [Next]_vars => IInv'
<1> SUFFICES ASSUME IInv, [Next]_vars PROVE IInv'
  OBVIOUS
<1>1. ASSUME NEW s \in Services, User(s) \/ Enqueue(s) \/ AddAfterBackoff(s)
      PROVE  IInv'
  BY <1>1, UserKeeps, QueueStepKeeps
<1>2. ASSUME NEW kind \in Kinds, List(kind) \/ \E n \in Services : Deliver(kind, n)
      PROVE  IInv'
  BY <1>2, ListKeeps, DeliverKeeps
<1>3. CASE Panic \/ Crash
  BY <1>3, CrashKeeps
<1>4. ASSUME NEW w \in Workers, SyncStep(w) \/ CallFails(w) PROVE IInv'
  BY <1>4, GetServiceKeeps, SyncStepKeeps, DoneKeeps DEF SyncStep
<1>5. ASSUME NEW w \in Workers, NEW s \in Services, Get(w, s) PROVE IInv'
  BY <1>5, GetKeeps
<1>6. CASE UNCHANGED vars
  BY <1>6, IdleKeeps
<1> QED BY <1>1, <1>2, <1>3, <1>4, <1>5, <1>6 DEF Next

-----------------------------------------------------------------------------
(* Theorems.                                                               *)

\* IInv holds in every reachable state of the controller and its environment.
THEOREM Invariance == Safety => []IInv
BY InitHolds, NextKeeps, PTL DEF Safety

\* Every variable keeps its type: in particular handlerError never counts more
\* than maxRetry + 1 failures of a key.
THEOREM TypeCorrect == Safety => []TypeOK
<1>1. IInv => TypeOK
  BY DEF IInv
<1> QED BY <1>1, Invariance, PTL

\* No version of a Service is dropped silently: syncService returns nil for it,
\* handlerError gives it up, or it is on its way to a worker, although nothing
\* is resynced and updateService skips what looks unchanged.
THEOREM NothingForgotten == Safety => []NoServiceForgotten
<1>1. ASSUME IInv PROVE NoServiceForgotten
  <2> SUFFICES ASSUME NEW s \in Services,
                      store["Service"][s] \notin {None, handled[s], givenUp[s]},
                      "Service" \in listed, ~I!News("Service", s)
               PROVE  Underway(s, store["Service"][s])
    BY DEF NoServiceForgotten, WorkOutstanding
  <2>1. cache["Service"][s] = store["Service"][s]
    BY <1>1, CurrentService DEF IInv, TypeOK
  <2> QED BY <1>1, <2>1 DEF IInv, CachedServiceIsServed
<1> QED BY <1>1, Invariance, PTL
=============================================================================
