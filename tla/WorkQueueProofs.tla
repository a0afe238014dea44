--------------------------- MODULE WorkQueueProofs ---------------------------
(***************************************************************************)
(* Proofs about WorkQueue for any finite set of workers, any items and any *)
(* callers of the shutdown methods: the inductive invariant IInv, the      *)
(* invariants it implies and the refinement of ItemQueue.                  *)
(***************************************************************************)
EXTENDS WorkQueue, FiniteSetTheorems, SequenceTheorems, TLAPS

-----------------------------------------------------------------------------
(* The two operations on the queue slice.                                  *)

\* Appending an item that is not queued keeps the queue free of duplicates.
LEMMA AppendItem ==
    ASSUME NEW q \in Seq(Items), NEW i \in Items,
           IsInjective(q), i \notin Range(q)
    PROVE  /\ Append(q, i) \in Seq(Items)
           /\ Len(Append(q, i)) = Len(q) + 1
           /\ Range(Append(q, i)) = Range(q) \cup {i}
           /\ IsInjective(Append(q, i))
<1> DEFINE r == Append(q, i)
<1>1. /\ r \in Seq(Items)
      /\ Len(r) = Len(q) + 1
      /\ \A k \in 1 .. Len(q) : r[k] = q[k]
      /\ r[Len(q) + 1] = i
  BY AppendProperties
<1>2. DOMAIN q = 1 .. Len(q) /\ DOMAIN r = 1 .. Len(q) + 1 /\ Len(q) \in Nat
  BY <1>1, LenProperties
<1>3. Range(r) = Range(q) \cup {i}
  <2>1. ASSUME NEW k \in DOMAIN r PROVE r[k] \in Range(q) \cup {i}
    <3>1. CASE k = Len(q) + 1
      BY <3>1, <1>1
    <3>2. CASE k # Len(q) + 1
      <4>1. k \in 1 .. Len(q)
        BY <3>2, <1>2
      <4> QED BY <4>1, <1>1, <1>2 DEF Range
    <3> QED BY <3>1, <3>2
  <2>2. ASSUME NEW k \in DOMAIN q PROVE q[k] \in Range(r)
    <3>1. k \in DOMAIN r /\ r[k] = q[k]
      BY <1>1, <1>2
    <3> QED BY <3>1 DEF Range
  <2>3. i \in Range(r)
    <3>1. Len(q) + 1 \in DOMAIN r
      BY <1>2
    <3> QED BY <3>1, <1>1 DEF Range
  <2> QED BY <2>1, <2>2, <2>3 DEF Range
<1>4. IsInjective(r)
  <2> SUFFICES ASSUME NEW j \in DOMAIN r, NEW k \in DOMAIN r, r[j] = r[k]
               PROVE  j = k
    BY DEF IsInjective
  <2>1. \A m \in 1 .. Len(q) : q[m] # i
    BY <1>2 DEF Range
  <2>2. CASE j \in 1 .. Len(q) /\ k \in 1 .. Len(q)
    BY <2>2, <1>1, <1>2 DEF IsInjective
  <2>3. CASE j = Len(q) + 1 \/ k = Len(q) + 1
    BY <2>1, <2>3, <1>1, <1>2
  <2> QED BY <2>2, <2>3, <1>2
<1> QED BY <1>1, <1>3, <1>4

\* Taking the head removes exactly that item from a duplicate-free queue.
LEMMA TakeHead ==
    ASSUME NEW q \in Seq(Items), q # <<>>, IsInjective(q)
    PROVE  /\ Head(q) \in Range(q)
           /\ Head(q) \in Items
           /\ Tail(q) \in Seq(Items)
           /\ Len(Tail(q)) = Len(q) - 1
           /\ Range(Tail(q)) = Range(q) \ {Head(q)}
           /\ IsInjective(Tail(q))
<1> DEFINE r == Tail(q)
<1>1. /\ Head(q) \in Items
      /\ r \in Seq(Items)
      /\ Len(r) = Len(q) - 1
      /\ \A k \in 1 .. Len(r) : r[k] = q[k + 1]
  BY HeadTailProperties
<1>2. /\ Len(q) \in Nat \ {0}
      /\ DOMAIN q = 1 .. Len(q)
      /\ DOMAIN r = 1 .. Len(q) - 1
  BY <1>1, LenProperties, EmptySeq
<1>3. Head(q) = q[1] /\ 1 \in DOMAIN q
  BY <1>2
<1>4. IsInjective(r)
  <2> SUFFICES ASSUME NEW j \in DOMAIN r, NEW k \in DOMAIN r, r[j] = r[k]
               PROVE  j = k
    BY DEF IsInjective
  <2>1. j + 1 \in DOMAIN q /\ k + 1 \in DOMAIN q /\ q[j + 1] = q[k + 1]
    BY <1>1, <1>2
  <2>2. j + 1 = k + 1
    BY <2>1 DEF IsInjective
  <2> QED BY <2>2, <1>2
<1>5. Range(r) = Range(q) \ {Head(q)}
  <2>1. ASSUME NEW k \in DOMAIN r PROVE r[k] \in Range(q) \ {Head(q)}
    <3>1. k + 1 \in DOMAIN q /\ r[k] = q[k + 1] /\ k + 1 # 1
      BY <1>1, <1>2
    <3> QED BY <3>1, <1>3 DEF Range, IsInjective
  <2>2. ASSUME NEW k \in DOMAIN q, q[k] # Head(q) PROVE q[k] \in Range(r)
    <3>1. k - 1 \in DOMAIN r /\ (k - 1) + 1 = k
      BY <2>2, <1>2, <1>3
    <3>2. r[k - 1] = q[k]
      BY <3>1, <1>1, <1>2
    <3> QED BY <3>1, <3>2 DEF Range
  <2> QED BY <2>1, <2>2 DEF Range
<1> QED BY <1>1, <1>3, <1>4, <1>5 DEF Range

-----------------------------------------------------------------------------
(* The condition variable.                                                 *)

\* The workers that are in Get and awake.
Getters == {w \in Workers : InGet(w)}

LEMMA GettersFinite == IsFiniteSet(Getters) /\ Cardinality(Getters) \in Nat
BY QueueAssumption, FS_Subset, FS_CardinalityType DEF Getters

\* While a worker sleeps, Signal wakes a worker and no one else, so that one
\* more worker is on its way through Get.
LEMMA SignalWakesWorker ==
    ASSUME TypeOK, Structure, SleepersDoNotMix, Signal,
           waiters \cap Workers # {}
    PROVE  \E g \in Workers : /\ g \in waiters
                              /\ g \notin Getters
                              /\ worker[g] = "Get"
                              /\ waiters' = waiters \ {g}
<1>1. PICK g \in waiters : waiters' = waiters \ {g}
  BY DEF Signal
<1>2. g \in Workers
  BY <1>1 DEF SleepersDoNotMix
<1> QED BY <1>1, <1>2 DEF Getters, InGet, Structure

\* Signal wakes at most one goroutine and puts nobody to sleep.
LEMMA SignalShrinks == Signal => waiters' \subseteq waiters
BY DEF Signal

\* NoLostWakeup survives an append accompanied by a Signal, when every worker
\* that was in Get and awake still is.
LEMMA AppendAndSignal ==
    ASSUME TypeOK, TypeOK', Structure, SleepersDoNotMix, NoLostWakeup, Signal,
           Len(queue') = Len(queue) + 1,
           \A w \in Workers : worker[w] = "Get" => worker'[w] = "Get"
    PROVE  NoLostWakeup'
<1> SUFFICES ASSUME waiters' \cap Workers # {}
             PROVE  Len(queue') <= Cardinality(Getters')
  BY DEF NoLostWakeup, Getters
<1>1. waiters \cap Workers # {}
  BY SignalShrinks
<1>2. PICK g \in Workers : /\ g \in waiters
                           /\ g \notin Getters
                           /\ worker[g] = "Get"
                           /\ waiters' = waiters \ {g}
  BY <1>1, SignalWakesWorker
<1>3. Getters \cup {g} \subseteq Getters'
  BY <1>2 DEF Getters, InGet
<1>4. IsFiniteSet(Getters') /\ Cardinality(Getters') \in Nat
  BY QueueAssumption, FS_Subset, FS_CardinalityType DEF Getters
<1>5. Cardinality(Getters \cup {g}) = Cardinality(Getters) + 1
  BY <1>2, GettersFinite, FS_AddElement
<1>6. Cardinality(Getters \cup {g}) <= Cardinality(Getters')
  BY <1>3, <1>4, FS_Subset
<1>7. Len(queue) <= Cardinality(Getters)
  BY <1>1 DEF NoLostWakeup, Getters
<1>8. Len(queue) \in Nat
  BY LenProperties DEF TypeOK
<1> QED BY <1>5, <1>6, <1>7, <1>8, <1>4, GettersFinite

\* NoLostWakeup survives a step that neither lengthens the queue, nor puts a
\* worker to sleep, nor takes a worker out of Get.
LEMMA MoreGetters ==
    ASSUME TypeOK, TypeOK', NoLostWakeup, queue' = queue,
           waiters' \cap Workers \subseteq waiters,
           \A w \in Workers : worker[w] = "Get" => worker'[w] = "Get"
    PROVE  NoLostWakeup'
<1> SUFFICES ASSUME waiters' \cap Workers # {}
             PROVE  Len(queue) <= Cardinality(Getters')
  BY DEF NoLostWakeup, Getters
<1>1. Len(queue) <= Cardinality(Getters)
  BY DEF NoLostWakeup, Getters
<1>2. Getters \subseteq Getters'
  BY DEF Getters, InGet
<1>3. IsFiniteSet(Getters') /\ Cardinality(Getters') \in Nat
  BY QueueAssumption, FS_Subset, FS_CardinalityType DEF Getters
<1>4. Cardinality(Getters) <= Cardinality(Getters')
  BY <1>2, <1>3, FS_Subset
<1>5. Len(queue) \in Nat
  BY LenProperties DEF TypeOK
<1> QED BY <1>1, <1>3, <1>4, <1>5, GettersFinite

-----------------------------------------------------------------------------
(* IInv is inductive.                                                      *)

LEMMA InitIInv == Init => IInv
<1> SUFFICES ASSUME Init PROVE IInv
  OBVIOUS
<1>1. TypeOK
  <2>1. queue \in Seq(Items)
    BY EmptySeq DEF Init
  <2> QED BY <2>1 DEF Init, TypeOK
<1>2. Structure
  BY QueueAssumption DEF Init, Structure, Closers
<1>3. QueueIsBacklog
  BY DEF Init, QueueIsBacklog, Range, IsInjective
<1>4. ExclusiveProcessing
  BY DEF Init, ExclusiveProcessing
<1>5. SleepersDoNotMix /\ NoLostWakeup
  BY DEF Init, SleepersDoNotMix, NoLostWakeup
<1>6. ExitedMeansDrained
  BY DEF Init, ExitedMeansDrained
<1> QED BY <1>1, <1>2, <1>3, <1>4, <1>5, <1>6 DEF IInv

LEMMA AddStep ==
    ASSUME IInv, NEW i \in Items, Add(i)
    PROVE  IInv'
<1> USE DEF IInv
<1>1. CASE i \in processing /\ UNCHANGED <<queue, waiters>>
  <2>1. TypeOK'
    BY <1>1 DEF Add, TypeOK
  <2>2. Structure'
    BY <1>1 DEF Add, Structure, Closers
  <2>3. QueueIsBacklog'
    BY <1>1 DEF Add, QueueIsBacklog
  <2>4. ExclusiveProcessing'
    BY <1>1 DEF Add, ExclusiveProcessing
  <2>5. SleepersDoNotMix' /\ NoLostWakeup'
    BY <1>1 DEF Add, SleepersDoNotMix, NoLostWakeup, InGet
  <2>6. ExitedMeansDrained'
    BY <1>1, QueueAssumption DEF Add, ExitedMeansDrained, Structure
  <2> QED BY <2>1, <2>2, <2>3, <2>4, <2>5, <2>6
<1>2. CASE i \notin processing /\ queue' = Append(queue, i) /\ Signal
  <2>1. /\ queue' \in Seq(Items)
        /\ Len(queue') = Len(queue) + 1
        /\ Range(queue') = Range(queue) \cup {i}
        /\ IsInjective(queue')
    BY <1>2, AppendItem DEF Add, TypeOK, QueueIsBacklog
  <2>2. waiters' \subseteq waiters
    BY <1>2, SignalShrinks
  <2>3. TypeOK'
    BY <2>1, <2>2 DEF Add, TypeOK
  <2>4. Structure'
    BY <2>2 DEF Add, Structure, Closers
  <2>5. QueueIsBacklog'
    BY <1>2, <2>1 DEF Add, QueueIsBacklog
  <2>6. ExclusiveProcessing'
    BY DEF Add, ExclusiveProcessing
  <2>7. SleepersDoNotMix'
    BY <2>2 DEF Add, SleepersDoNotMix
  <2>8. NoLostWakeup'
    BY <1>2, <2>1, <2>3, AppendAndSignal DEF Add
  <2>9. ExitedMeansDrained'
    BY QueueAssumption DEF Add, ExitedMeansDrained, Structure
  <2> QED BY <2>3, <2>4, <2>5, <2>6, <2>7, <2>8, <2>9
<1> QED BY <1>1, <1>2 DEF Add

LEMMA GetItemStep ==
    ASSUME IInv, NEW w \in Workers, GetItem(w)
    PROVE  IInv'
<1> USE DEF IInv
<1> DEFINE h == Head(queue)
<1>1. /\ h \in Range(queue)
      /\ h \in Items
      /\ queue' \in Seq(Items)
      /\ Len(queue') = Len(queue) - 1
      /\ Range(queue') = Range(queue) \ {h}
      /\ IsInjective(queue')
  BY TakeHead DEF GetItem, TypeOK, QueueIsBacklog
<1>2. h \in dirty /\ h \notin processing
  BY <1>1 DEF QueueIsBacklog
<1>3. h # NoItem
  BY <1>1, QueueAssumption
<1>4. TypeOK'
  BY <1>1 DEF GetItem, TypeOK
<1>5. Structure'
  BY <1>3 DEF GetItem, InGet, Structure, TypeOK, Closers
<1>6. QueueIsBacklog'
  BY <1>1, <1>2 DEF GetItem, QueueIsBacklog
<1>7. ExclusiveProcessing'
  <2>1. \A v \in Workers : v # w => worker'[v] = worker[v] /\ holding'[v] = holding[v]
    BY DEF GetItem, TypeOK
  <2>2. worker'[w] = "busy" /\ holding'[w] = h /\ worker[w] # "busy"
    BY DEF GetItem, InGet, TypeOK
  <2>3. processing' = {holding'[v] : v \in {u \in Workers : worker'[u] = "busy"}}
    BY <2>1, <2>2 DEF GetItem, ExclusiveProcessing
  <2>4. \A v \in Workers : worker[v] = "busy" => holding[v] # h
    BY <1>2 DEF ExclusiveProcessing
  <2>5. ASSUME NEW u \in Workers, NEW v \in Workers,
               worker'[u] = "busy", worker'[v] = "busy",
               holding'[u] = holding'[v]
        PROVE  u = v
    BY <2>1, <2>2, <2>4, <2>5 DEF ExclusiveProcessing
  <2> QED BY <2>3, <2>5 DEF ExclusiveProcessing
<1>8. SleepersDoNotMix'
  BY DEF GetItem, SleepersDoNotMix
<1>9. NoLostWakeup'
  <2> SUFFICES ASSUME waiters' \cap Workers # {}
               PROVE  Len(queue') <= Cardinality(Getters')
    BY DEF NoLostWakeup, Getters
  <2>1. Len(queue) <= Cardinality(Getters)
    BY DEF GetItem, NoLostWakeup, Getters
  <2>2. Getters' = Getters \ {w} /\ w \in Getters
    BY DEF GetItem, Getters, InGet, TypeOK
  <2>3. Cardinality(Getters') = Cardinality(Getters) - 1
    BY <2>2, GettersFinite, FS_RemoveElement
  <2>4. Len(queue) \in Nat
    BY LenProperties DEF TypeOK
  <2> QED BY <2>1, <2>3, <2>4, <1>1, GettersFinite
<1>10. ExitedMeansDrained'
  BY DEF GetItem, ExitedMeansDrained, TypeOK
<1> QED BY <1>4, <1>5, <1>6, <1>7, <1>8, <1>9, <1>10

LEMMA GetWaitStep ==
    ASSUME IInv, NEW w \in Workers, GetWait(w)
    PROVE  IInv'
<1> USE DEF IInv
<1>1. TypeOK'
  BY DEF GetWait, TypeOK
<1>2. Structure'
  BY QueueAssumption DEF GetWait, InGet, Structure, Closers
<1>3. QueueIsBacklog' /\ ExclusiveProcessing'
  BY DEF GetWait, QueueIsBacklog, ExclusiveProcessing
<1>4. SleepersDoNotMix'
  <2>1. waiters \cap Drainers = {}
    BY DEF GetWait, Structure, Closers
  <2> QED BY <2>1 DEF GetWait, SleepersDoNotMix, TypeOK
<1>5. NoLostWakeup'
  <2>1. Len(queue') = 0
    BY DEF GetWait
  <2>2. IsFiniteSet(Getters') /\ Cardinality(Getters') \in Nat
    BY QueueAssumption, FS_Subset, FS_CardinalityType DEF Getters
  <2> QED BY <2>1, <2>2 DEF NoLostWakeup, Getters
<1>6. ExitedMeansDrained'
  BY DEF GetWait, ExitedMeansDrained
<1> QED BY <1>1, <1>2, <1>3, <1>4, <1>5, <1>6

LEMMA GetShutdownStep ==
    ASSUME IInv, NEW w \in Workers, GetShutdown(w)
    PROVE  IInv'
<1> USE DEF IInv
<1>1. waiters \cap Workers = {}
  BY DEF GetShutdown, SleepersDoNotMix
<1>2. TypeOK'
  BY DEF GetShutdown, TypeOK
<1>3. Structure'
  BY DEF GetShutdown, InGet, Structure, TypeOK, Closers
<1>4. QueueIsBacklog'
  BY DEF GetShutdown, QueueIsBacklog
<1>5. ExclusiveProcessing'
  BY DEF GetShutdown, InGet, ExclusiveProcessing, TypeOK
<1>6. SleepersDoNotMix' /\ NoLostWakeup'
  BY <1>1 DEF GetShutdown, SleepersDoNotMix, NoLostWakeup
<1>7. ExitedMeansDrained'
  <2> SUFFICES ASSUME \A v \in Workers : worker'[v] = "exited"
               PROVE  dirty = {}
    BY DEF ExitedMeansDrained, GetShutdown
  <2>1. \A v \in Workers : worker[v] # "busy"
    BY DEF GetShutdown, InGet, TypeOK
  <2>2. processing = {}
    BY <2>1 DEF ExclusiveProcessing
  <2>3. Range(queue) = {}
    BY EmptySeq DEF GetShutdown, Range
  <2> QED BY <2>2, <2>3 DEF QueueIsBacklog
<1> QED BY <1>2, <1>3, <1>4, <1>5, <1>6, <1>7

LEMMA DoneStep ==
    ASSUME IInv, NEW w \in Workers, Done(w)
    PROVE  IInv'
<1> USE DEF IInv
<1> DEFINE h == holding[w]
<1>1. /\ worker[w] = "busy"
      /\ h \in processing
      /\ h \in Items
  BY DEF Done, ExclusiveProcessing, TypeOK
<1>2. processing' = processing \ {h}
  BY DEF Done
<1>3. \A v \in Workers :
        /\ worker'[v] = IF v = w THEN "Get" ELSE worker[v]
        /\ holding'[v] = IF v = w THEN NoItem ELSE holding[v]
  BY DEF Done, TypeOK
<1>4. ExclusiveProcessing'
  <2>1. processing' = {holding'[v] : v \in {u \in Workers : worker'[u] = "busy"}}
    <3>1. ASSUME NEW i \in processing'
          PROVE  \E v \in Workers : worker'[v] = "busy" /\ holding'[v] = i
      <4>1. PICK v \in Workers : worker[v] = "busy" /\ holding[v] = i
        BY <1>2, <3>1 DEF ExclusiveProcessing
      <4>2. v # w
        BY <4>1, <1>2, <3>1
      <4> QED BY <4>1, <4>2, <1>3
    <3>2. ASSUME NEW v \in Workers, worker'[v] = "busy"
          PROVE  holding'[v] \in processing'
      <4>1. v # w /\ worker[v] = "busy" /\ holding'[v] = holding[v]
        BY <3>2, <1>3
      <4>2. holding[v] \in processing /\ holding[v] # h
        BY <4>1, <1>1 DEF ExclusiveProcessing
      <4> QED BY <4>1, <4>2, <1>2
    <3> QED BY <3>1, <3>2
  <2>2. ASSUME NEW u \in Workers, NEW v \in Workers,
               worker'[u] = "busy", worker'[v] = "busy",
               holding'[u] = holding'[v]
        PROVE  u = v
    BY <2>2, <1>3 DEF ExclusiveProcessing
  <2> QED BY <2>1, <2>2 DEF ExclusiveProcessing
<1>5. worker' \in [Workers -> {"Get", "busy", "exited"}]
      /\ holding' \in [Workers -> Items \cup {NoItem}]
  BY DEF Done, TypeOK
<1>6. waiters' \subseteq waiters
  BY SignalShrinks DEF Done
<1>7. Structure'
  BY <1>3, <1>6 DEF Done, Structure, Closers
<1>8. SleepersDoNotMix'
  BY <1>6 DEF Done, SleepersDoNotMix
<1>9. ExitedMeansDrained'
  BY <1>3 DEF ExitedMeansDrained
<1>10. CASE h \in dirty /\ queue' = Append(queue, h) /\ Signal
  <2>1. h \notin Range(queue)
    BY <1>1 DEF QueueIsBacklog
  <2>2. /\ queue' \in Seq(Items)
        /\ Len(queue') = Len(queue) + 1
        /\ Range(queue') = Range(queue) \cup {h}
        /\ IsInjective(queue')
    BY <1>10, <1>1, <2>1, AppendItem DEF TypeOK, QueueIsBacklog
  <2>3. TypeOK'
    BY <1>2, <1>5, <1>6, <2>2 DEF Done, TypeOK
  <2>4. QueueIsBacklog'
    BY <1>10, <1>1, <1>2, <2>2 DEF Done, QueueIsBacklog
  <2>5. NoLostWakeup'
    BY <1>10, <1>3, <2>2, <2>3, AppendAndSignal
  <2> QED BY <1>4, <1>7, <1>8, <1>9, <2>3, <2>4, <2>5
<1>11. CASE h \notin dirty /\ queue' = queue
  <2>1. TypeOK'
    BY <1>11, <1>2, <1>5, <1>6 DEF Done, TypeOK
  <2>2. QueueIsBacklog'
    BY <1>11, <1>2 DEF Done, QueueIsBacklog
  <2>3. NoLostWakeup'
    BY <1>11, <1>3, <1>6, <2>1, MoreGetters
  <2> QED BY <1>4, <1>7, <1>8, <1>9, <2>1, <2>2, <2>3
<1> QED BY <1>10, <1>11 DEF Done

\* The steps of ShutDown and ShutDownWithDrain.
LEMMA SetDrainStep ==
    ASSUME IInv, NEW c \in Closers, SetDrain(c)
    PROVE  IInv'
<1> USE DEF IInv
<1>1. TypeOK'
  BY DEF SetDrain, CloserStep, TypeOK
<1>2. Structure'
  BY DEF SetDrain, CloserStep, Structure, TypeOK, Closers
<1>3. QueueIsBacklog' /\ ExclusiveProcessing' /\ ExitedMeansDrained'
  BY DEF SetDrain, QueueIsBacklog, ExclusiveProcessing, ExitedMeansDrained
<1>4. SleepersDoNotMix' /\ NoLostWakeup'
  BY DEF SetDrain, SleepersDoNotMix, NoLostWakeup, InGet
<1> QED BY <1>1, <1>2, <1>3, <1>4

LEMMA ShutdownStep ==
    ASSUME IInv, NEW c \in Closers, Shutdown(c)
    PROVE  IInv'
<1> USE DEF IInv
<1>1. TypeOK'
  BY DEF Shutdown, CloserStep, Broadcast, TypeOK
<1>2. Structure'
  BY QueueAssumption
     DEF Shutdown, CloserStep, Broadcast, Structure, TypeOK, Closers
<1>3. QueueIsBacklog' /\ ExclusiveProcessing' /\ ExitedMeansDrained'
  BY DEF Shutdown, QueueIsBacklog, ExclusiveProcessing, ExitedMeansDrained
<1>4. SleepersDoNotMix' /\ NoLostWakeup'
  BY DEF Shutdown, Broadcast, SleepersDoNotMix, NoLostWakeup
<1> QED BY <1>1, <1>2, <1>3, <1>4

LEMMA CheckStep ==
    ASSUME IInv, NEW c \in Closers, IsProcessing(c) \/ ShouldDrain(c)
    PROVE  IInv'
<1> USE DEF IInv
<1>0. /\ UNCHANGED <<queue, dirty, processing, shuttingDown, drain, waiters,
                     worker, holding>>
      /\ \E from \in {"isProcessing", "shouldDrain"},
            to \in {"shouldDrain", "waitForProcessing", "returned"} :
              /\ CloserStep(c, from, to)
              /\ c \in Stoppers => to = "returned"
  BY DEF IsProcessing, ShouldDrain, CloserStep, Structure
<1>1. TypeOK'
  BY <1>0 DEF CloserStep, TypeOK
<1>2. Structure'
  BY <1>0 DEF CloserStep, Structure, TypeOK, Closers
<1>3. QueueIsBacklog' /\ ExclusiveProcessing' /\ ExitedMeansDrained'
  BY <1>0 DEF QueueIsBacklog, ExclusiveProcessing, ExitedMeansDrained
<1>4. SleepersDoNotMix' /\ NoLostWakeup'
  BY <1>0 DEF SleepersDoNotMix, NoLostWakeup, InGet
<1> QED BY <1>1, <1>2, <1>3, <1>4

LEMMA WaitForProcessingStep ==
    ASSUME IInv, NEW c \in Closers, WaitForProcessing(c)
    PROVE  IInv'
<1> USE DEF IInv
<1>0. c \in Drainers
  BY DEF WaitForProcessing, CloserStep, Structure, Closers
<1>1. waiters' \subseteq waiters \cup {c} /\ c \notin Workers
  BY <1>0, QueueAssumption DEF WaitForProcessing
<1>2. shuttingDown /\ waiters \cap Workers = {}
  BY DEF WaitForProcessing, CloserStep, Structure, SleepersDoNotMix
<1>3. TypeOK'
  BY <1>0, <1>1 DEF WaitForProcessing, CloserStep, TypeOK
<1>4. Structure'
  BY <1>0, <1>1 DEF WaitForProcessing, CloserStep, Structure, TypeOK, Closers
<1>5. QueueIsBacklog' /\ ExclusiveProcessing' /\ ExitedMeansDrained'
  BY DEF WaitForProcessing, QueueIsBacklog, ExclusiveProcessing,
         ExitedMeansDrained
<1>6. SleepersDoNotMix' /\ NoLostWakeup'
  BY <1>1, <1>2 DEF SleepersDoNotMix, NoLostWakeup
<1> QED BY <1>3, <1>4, <1>5, <1>6

LEMMA NextIInv == IInv /\ [Next]_vars => IInv'
<1> SUFFICES ASSUME IInv, [Next]_vars PROVE IInv'
  OBVIOUS
<1>1. CASE UNCHANGED vars
  BY <1>1 DEF vars, IInv, TypeOK, Structure, QueueIsBacklog,
              ExclusiveProcessing, SleepersDoNotMix, NoLostWakeup, InGet,
              ExitedMeansDrained
<1>2. ASSUME NEW i \in Items, Add(i) PROVE IInv'
  BY <1>2, AddStep
<1>3. ASSUME NEW w \in Workers, Get(w) \/ Done(w) PROVE IInv'
  BY <1>3, GetItemStep, GetWaitStep, GetShutdownStep, DoneStep DEF Get
<1>4. ASSUME NEW c \in Closers, SetDrain(c) \/ Closing(c) PROVE IInv'
  BY <1>4, SetDrainStep, ShutdownStep, CheckStep, WaitForProcessingStep
     DEF Closing
<1>5. CASE Terminated
  BY <1>5, <1>1 DEF Terminated
<1> QED BY <1>1, <1>2, <1>3, <1>4, <1>5 DEF Next

-----------------------------------------------------------------------------
(* Theorems.                                                               *)

\* IInv is an invariant of the queue, whatever the items, the workers and the
\* callers of the shutdown methods.
THEOREM Invariance == Safety => []IInv
BY InitIInv, NextIInv, PTL DEF Safety

\* The variables keep their types: Add, Get, Done and the shutdown methods.
THEOREM TypeCorrect == Safety => []TypeOK
<1>1. IInv => TypeOK
  BY DEF IInv
<1> QED BY <1>1, Invariance, PTL

\* The queue slice, the dirty set and the processing set always agree.
THEOREM BacklogCorrect == Safety => []QueueIsBacklog
<1>1. IInv => QueueIsBacklog
  BY DEF IInv
<1> QED BY <1>1, Invariance, PTL

\* No two workers ever process the same item.
THEOREM MutualExclusion == Safety => []ExclusiveProcessing
<1>1. IInv => ExclusiveProcessing
  BY DEF IInv
<1> QED BY <1>1, Invariance, PTL

\* Signal is called often enough: no worker oversleeps a queued item.
THEOREM WakeupsSuffice == Safety => []NoLostWakeup
<1>1. IInv => NoLostWakeup
  BY DEF IInv
<1> QED BY <1>1, Invariance, PTL

\* The one condition variable never holds workers and drainers together.
THEOREM SleepersSeparate == Safety => []SleepersDoNotMix
<1>1. IInv => SleepersDoNotMix
  BY DEF IInv
<1> QED BY <1>1, Invariance, PTL

\* ShutDown loses no accepted item: the workers exit only after the last one.
THEOREM NothingDropped == Safety => []ExitedMeansDrained
<1>1. IInv => ExitedMeansDrained
  BY DEF IInv
<1> QED BY <1>1, Invariance, PTL

-----------------------------------------------------------------------------
(* With one caller of ShutDownWithDrain at most, a sleeping drainer is     *)
(* always owed a wakeup.  Two drainers could sleep on one Signal.          *)

OneDrainerAtMost == \A c, d \in Drainers : c = d

LEMMA DrainerStep ==
    ASSUME OneDrainerAtMost, IInv, DrainerWillBeWoken, [Next]_vars
    PROVE  DrainerWillBeWoken'
<1> SUFFICES ASSUME NEW d \in Drainers, d \in waiters'
             PROVE  processing' # {}
  BY DEF DrainerWillBeWoken
<1> USE DEF IInv
<1>1. CASE UNCHANGED vars
  BY <1>1 DEF vars, DrainerWillBeWoken
<1>2. ASSUME NEW i \in Items, Add(i) PROVE processing' # {}
  BY <1>2, SignalShrinks DEF Add, DrainerWillBeWoken
<1>3. ASSUME NEW w \in Workers, GetItem(w) PROVE processing' # {}
  BY <1>3 DEF GetItem
<1>4. ASSUME NEW w \in Workers, GetWait(w) \/ GetShutdown(w)
      PROVE  processing' # {}
  <2>1. d # w
    BY QueueAssumption
  <2> QED BY <1>4, <2>1 DEF GetWait, GetShutdown, DrainerWillBeWoken
<1>5. ASSUME NEW w \in Workers, Done(w) PROVE processing' # {}
  <2> SUFFICES ASSUME processing' = {} PROVE FALSE
    OBVIOUS
  <2>1. Signal
    BY <1>5 DEF Done
  <2>2. d \in waiters
    BY <2>1, SignalShrinks
  <2>3. waiters = {d}
    BY <2>2, QueueAssumption DEF SleepersDoNotMix, TypeOK, OneDrainerAtMost
  <2> QED BY <2>1, <2>3 DEF Signal
<1>6. ASSUME NEW c \in Closers, SetDrain(c) \/ Closing(c)
      PROVE  processing' # {}
  BY <1>6 DEF SetDrain, Closing, Shutdown, IsProcessing, ShouldDrain,
              WaitForProcessing, Broadcast, DrainerWillBeWoken
<1>7. CASE Terminated
  BY <1>7, <1>1 DEF Terminated
<1> QED BY <1>1, <1>2, <1>3, <1>4, <1>5, <1>6, <1>7 DEF Next, Get

\* A goroutine inside ShutDownWithDrain sleeps only while a Done that will
\* wake it is still to come, if it is the only one to drain the queue.
THEOREM DrainersWoken ==
    ASSUME OneDrainerAtMost
    PROVE  Safety => []DrainerWillBeWoken
<1>1. Init => DrainerWillBeWoken
  BY DEF Init, DrainerWillBeWoken
<1>2. IInv /\ DrainerWillBeWoken /\ [Next]_vars => DrainerWillBeWoken'
  BY DrainerStep
<1> QED BY <1>1, <1>2, Invariance, PTL DEF Safety

-----------------------------------------------------------------------------
(* The refinement.                                                         *)

\* What the abstract queue calls held is the processing set.
LEMMA HeldIsProcessing ==
    ASSUME TypeOK, Structure, ExclusiveProcessing
    PROVE  IQ!Held = processing
BY QueueAssumption DEF IQ!Held, TypeOK, Structure, ExclusiveProcessing

\* Every step of the queue is a step of ItemQueue or a stuttering step.
LEMMA StepSimulation ==
    ASSUME IInv, [Next]_vars
    PROVE  [IQ!ItemNext]_(IQ!itemVars)
<1> USE DEF IInv
<1>1. CASE UNCHANGED vars
  BY <1>1 DEF vars, IQ!itemVars
<1>2. ASSUME NEW i \in Items, Add(i) PROVE IQ!Add(i)
  BY <1>2 DEF Add, IQ!Add
<1>3. ASSUME NEW w \in Workers, GetItem(w)
      PROVE  \E i \in Items : IQ!Take(w, i)
  <2>1. /\ Head(queue) \in Range(queue)
        /\ Head(queue) \in Items
    BY <1>3, TakeHead DEF GetItem, TypeOK, QueueIsBacklog
  <2>2. Head(queue) \in dirty \ IQ!Held
    BY <2>1, HeldIsProcessing DEF QueueIsBacklog
  <2>3. holding[w] = NoItem
    BY <1>3 DEF GetItem, InGet, Structure
  <2>4. IQ!Take(w, Head(queue))
    BY <1>3, <2>2, <2>3 DEF GetItem, IQ!Take
  <2> QED BY <2>1, <2>4
<1>4. ASSUME NEW w \in Workers, GetWait(w) \/ GetShutdown(w)
      PROVE  UNCHANGED IQ!itemVars
  BY <1>4 DEF GetWait, GetShutdown, IQ!itemVars
<1>5. ASSUME NEW w \in Workers, Done(w) PROVE IQ!Done(w)
  BY <1>5 DEF Done, IQ!Done, Structure
<1>6. ASSUME NEW c \in Closers, Shutdown(c) PROVE IQ!ShutDown
  BY <1>6 DEF Shutdown, IQ!ShutDown
<1>7. ASSUME NEW c \in Closers,
             SetDrain(c) \/ IsProcessing(c) \/ ShouldDrain(c)
                \/ WaitForProcessing(c)
      PROVE  UNCHANGED IQ!itemVars
  BY <1>7 DEF SetDrain, IsProcessing, ShouldDrain, WaitForProcessing,
              IQ!itemVars
<1>8. CASE Terminated
  BY <1>8, <1>1 DEF Terminated
<1> QED
  BY <1>1, <1>2, <1>3, <1>4, <1>5, <1>6, <1>7, <1>8
     DEF Next, Get, Closing, IQ!ItemNext

\* The client-go queue implements the safety part of the abstract queue the
\* controller modules are composed with.
THEOREM QueueRefinesItemQueue == Safety => RefinesSafety
<1>1. Init => IQ!ItemInit
  BY DEF Init, IQ!ItemInit
<1>2. IInv /\ [Next]_vars => [IQ!ItemNext]_(IQ!itemVars)
  BY StepSimulation
<1> QED
  BY <1>1, <1>2, Invariance, PTL DEF Safety, RefinesSafety, IQ!ItemSafety
=============================================================================
