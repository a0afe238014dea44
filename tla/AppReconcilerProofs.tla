------------------------- MODULE AppReconcilerProofs -------------------------
(***************************************************************************)
(* For any Apps, disturbances and deltas under way: what is cached of an   *)
(* App and its dependents is served, or another Reconcile is coming; and   *)
(* what is stored is cached, or on its way, or among what lists overlook.  *)
(***************************************************************************)
EXTENDS AppReconciler, SequenceTheorems, TLAPS

IP == INSTANCE InformersProofs WITH Keys <- KeysOf, Objects <- ObjectsOf,
                                    Tombstone <- None

Owned == Kinds \ {"App"}

-----------------------------------------------------------------------------
(* Constants.                                                              *)

LEMMA KindFacts ==
  /\ "App" \in Kinds /\ Owned = {"Deployment", "Service", "Ingress"}
  /\ \A k \in Kinds : KeysOf[k] = Apps
  /\ ObjectsOf["App"] = AppObjects
  /\ \A k \in Owned : k \in Kinds /\ k # "App" /\ ObjectsOf[k] = DependentObjects
  /\ \A i \in 1 .. 3 : Dependents[i] \in Owned
  /\ Dependents[1] = "Deployment" /\ Dependents[2] = "Service"
  /\ Dependents[3] = "Ingress"
BY DEF Kinds, Owned, KeysOf, ObjectsOf, Dependents

LEMMA WantedValues ==
  ASSUME NEW spec
  PROVE  /\ Wanted(spec, "Deployment") = TRUE
         /\ Wanted(spec, "Service") = spec.service
         /\ Wanted(spec, "Ingress") = spec.ingress
BY Zenon DEF Wanted

LEMMA WantedIsBoolean ==
  ASSUME NEW spec \in AppSpecs, NEW k \in Owned
  PROVE  Wanted(spec, k) \in BOOLEAN
<1>1. spec.service \in BOOLEAN /\ spec.ingress \in BOOLEAN
  BY DEF AppSpecs
<1> QED
  BY <1>1, KindFacts, WantedValues

-----------------------------------------------------------------------------
(* The informers: what InformersProofs says, in the terms of AppReconciler.  *)

Trailing == I!TypeOK /\ I!CacheTrails

LEMMA InformersGood == Trailing <=> IP!Good
BY DEF Trailing, IP!Good, I!TypeOK, IP!TypeOK, I!CacheTrails, IP!CacheTrails,
       I!Deltas, IP!Deltas, I!Final, IP!Final, I!Newest, IP!Newest, I!Applied,
       IP!Applied

LEMMA InformersGoodNext == Trailing' <=> IP!Good'
BY DEF Trailing, IP!Good, I!TypeOK, IP!TypeOK, I!CacheTrails, IP!CacheTrails,
       I!Deltas, IP!Deltas, I!Final, IP!Final, I!Newest, IP!Newest, I!Applied,
       IP!Applied

LEMMA Distinct == IP!Distinct
BY NoneIsNoObject, KindFacts DEF IP!Distinct, Owned

LEMMA SameNews ==
  ASSUME NEW k, NEW a
  PROVE  (I!News(k, a) <=> IP!News(k, a)) /\ (I!News(k, a)' <=> IP!News(k, a)')
BY DEF I!News, IP!News, I!Applied, IP!Applied

LEMMA WriteKeeps ==
  ASSUME Trailing, NEW kind \in Kinds, NEW n \in Apps,
         NEW obj \in ObjectsOf[kind] \cup {None}, I!Write(kind, n, obj)
  PROVE  Trailing' /\ IP!Written(kind, n, obj) /\ IP!Write(kind, n, obj)
<1>1. IP!Good /\ IP!Write(kind, n, obj) /\ n \in KeysOf[kind]
  BY InformersGood, KindFacts DEF I!Write, IP!Write
<1>2. IP!Good'
  BY <1>1, Distinct, IP!GoodWrite
<1>3. IP!Written(kind, n, obj)
  BY <1>1, IP!WriteFacts
<1> QED
  BY <1>1, <1>2, <1>3, InformersGoodNext

LEMMA ReplaceKeeps ==
  ASSUME Trailing, NEW kind \in Kinds, I!Replace(kind)
  PROVE  Trailing' /\ IP!Replaced(kind) /\ IP!Replace(kind)
<1>1. IP!Replace(kind)
  BY Zenon
     DEF I!Replace, IP!Replace, I!Relisted, IP!Relisted, I!Bury, IP!Bury,
         I!Overlooked, IP!Overlooked, I!Newest, IP!Newest, I!Applied, IP!Applied
<1>2. IP!Good
  BY InformersGood
<1>3. IP!Good'
  BY <1>1, <1>2, Distinct, IP!GoodReplace
<1>4. IP!Replaced(kind)
  BY <1>1, <1>2, IP!ReplaceFacts
<1> QED
  BY <1>1, <1>3, <1>4, InformersGoodNext

LEMMA DeltaKeeps ==
  ASSUME Trailing, NEW kind \in Kinds, NEW n \in Apps, I!ProcessDelta(kind, n)
  PROVE  Trailing' /\ IP!Applying(kind, n) /\ IP!ProcessDelta(kind, n)
<1>1. IP!Good /\ IP!ProcessDelta(kind, n) /\ n \in KeysOf[kind]
  BY InformersGood, KindFacts DEF I!ProcessDelta, IP!ProcessDelta, I!Applied, IP!Applied
<1>2. IP!Good'
  BY <1>1, IP!GoodDelta
<1>3. IP!Applying(kind, n)
  BY <1>1, IP!DeltaFacts
<1> QED
  BY <1>1, <1>2, <1>3, InformersGoodNext

LEMMA LossKeeps ==
  ASSUME Trailing, I!LoseInformers
  PROVE  Trailing' /\ IP!LoseInformers
<1>1. IP!Good /\ IP!LoseInformers
  BY InformersGood DEF I!LoseInformers, IP!LoseInformers
<1>2. IP!Good'
  BY <1>1, IP!GoodLoss
<1> QED
  BY <1>1, <1>2, InformersGoodNext

LEMMA StutterKeeps ==
  ASSUME Trailing, UNCHANGED informers
  PROVE  Trailing' /\ UNCHANGED IP!informerVars
<1>1. IP!Good /\ UNCHANGED IP!informerVars
  BY InformersGood DEF informers, IP!informerVars
<1>2. IP!Good'
  BY <1>1, IP!GoodStutter
<1> QED
  BY <1>1, <1>2, InformersGoodNext

LEMMA Informed ==
  ASSUME Trailing
  PROVE  /\ DOMAIN store = Kinds /\ DOMAIN cache = Kinds /\ DOMAIN pend = Kinds
         /\ \A k \in Kinds :
              /\ store[k] \in [Apps -> ObjectsOf[k] \cup {None}]
              /\ cache[k] \in [Apps -> ObjectsOf[k] \cup {None}]
              /\ DOMAIN pend[k] = Apps
              /\ k \notin listed => \A a \in Apps : pend[k][a] = <<>>
BY KindFacts DEF Trailing, I!TypeOK

-----------------------------------------------------------------------------
(* Owners and ghosts.                                                      *)

\* OwnersKnown, of one App and one kind.
OwnerKnown(k, a) == \A x \in IP!Held(k, a) : x = None \/ Controlled(x)

LEMMA OwnersByHeld ==
  OwnersKnown <=> \A a \in Apps \ unnoticed, k \in Owned : OwnerKnown(k, a)
BY DEF OwnersKnown, OwnerKnown, IP!Held, Owned

LEMMA OwnersByHeldNext ==
  OwnersKnown' <=> \A a \in Apps \ unnoticed', k \in Owned : OwnerKnown(k, a)'
BY DEF OwnersKnown, OwnerKnown, IP!Held, Owned, Controlled

LEMMA OwnersKept ==
  ASSUME OwnersKnown, unnoticed \subseteq unnoticed',
         \A a \in Apps \ unnoticed', k \in Owned :
            \A x \in IP!Held(k, a)' :
               x \in IP!Held(k, a) \/ x = None \/ Controlled(x)
  PROVE  OwnersKnown'
<1>1. \A a \in Apps \ unnoticed', k \in Owned : OwnerKnown(k, a)'
  BY OwnersByHeld DEF OwnerKnown, Controlled
<1> QED
  BY <1>1, OwnersByHeldNext

LEMMA GhostsKept ==
  ASSUME GhostsAreUnnoticed, unnoticed \subseteq unnoticed',
         \A k \in Owned : ghosts'[k] \subseteq ghosts[k] \cup unnoticed'
  PROVE  GhostsAreUnnoticed'
BY DEF GhostsAreUnnoticed, Owned

-----------------------------------------------------------------------------
(* What is served.                                                         *)

LEMMA ServedNext ==
  ASSUME NEW a, NEW k, NEW spec, spec = cache'["App"][a].spec
  PROVE  Served(a, k)' <=> IF Wanted(spec, k)
                           THEN cache'[k][a] # None \/ I!News(k, a)'
                           ELSE cache'[k][a] = None \/ store'[k][a] = None
BY Zenon DEF Served, Wanted

LEMMA ServedKept ==
  ASSUME NEW a, NEW k, Served(a, k),
         cache'["App"][a] = cache["App"][a], cache'[k][a] = cache[k][a],
         cache[k][a] = None /\ I!News(k, a) => I!News(k, a)',
         \/ store[k][a] = None => store'[k][a] = None
         \/ Wanted(cache["App"][a].spec, k)
  PROVE  Served(a, k)'
<1>1. PICK spec : spec = cache["App"][a].spec
  OBVIOUS
<1>2. Served(a, k)' <=> IF Wanted(spec, k)
                        THEN cache'[k][a] # None \/ I!News(k, a)'
                        ELSE cache'[k][a] = None \/ store'[k][a] = None
  BY <1>1, ServedNext
<1>3. IF Wanted(spec, k)
      THEN cache[k][a] # None \/ I!News(k, a)
      ELSE cache[k][a] = None \/ store[k][a] = None
  BY <1>1, Zenon DEF Served
<1> QED
  BY <1>1, <1>2, <1>3, Zenon

\* A write leaves served what is served, unless it is of a dependent that is not
\* wanted.
LEMMA ServedAfterWrite ==
  ASSUME Trailing, NEW kind \in Kinds, NEW n \in Apps,
         NEW obj \in ObjectsOf[kind] \cup {None}, I!Write(kind, n, obj),
         NEW k \in Owned, NEW a \in Apps, Served(a, k),
         k # kind \/ a # n \/ obj = None \/ Wanted(cache["App"][a].spec, k)
  PROVE  Served(a, k)'
<1>1. IP!Written(kind, n, obj) /\ IP!Write(kind, n, obj) /\ IP!Good
  BY WriteKeeps, InformersGood
<1>2. cache' = cache
  BY <1>1 DEF IP!Written
<1>3. I!News(k, a) => I!News(k, a)'
  <2>1. k \in Kinds /\ a \in KeysOf[k] /\ n \in KeysOf[kind]
    BY KindFacts
  <2>2. IP!News(k, a) => IP!News(k, a)'
    BY <1>1, <2>1, Distinct, IP!WriteNews
  <2> QED
    BY <2>2, SameNews
<1>4. \/ store[k][a] = None => store'[k][a] = None
      \/ Wanted(cache["App"][a].spec, k)
  BY <1>1, Informed, KindFacts DEF IP!Written
<1> QED
  BY <1>2, <1>3, <1>4, ServedKept

\* A list drops nothing of the dependents that are not noted as unnoticed.
LEMMA NewsAfterReplace ==
  ASSUME Trailing, NEW kind \in Kinds, I!Replace(kind), NEW k \in Owned, NEW a \in Apps,
         kind = k => a \notin Dropped(kind), cache[k][a] = None, I!News(k, a)
  PROVE  I!News(k, a)'
<1>1. IP!Replaced(kind)
  BY ReplaceKeeps
<1>2. CASE kind # k
  BY <1>1, <1>2, KindFacts DEF IP!Replaced, I!News
<1>3. CASE kind = k /\ store[k][a] = None
  <2>1. pend'[k][a] = pend[k][a] /\ cache' = cache
    BY <1>1, <1>3, KindFacts DEF Dropped, IP!Replaced
  <2> QED
    BY <2>1 DEF I!News
<1>4. CASE kind = k /\ store[k][a] # None
  <2> DEFINE st == store[k][a]
  <2>0. a \in KeysOf[kind]
    BY KindFacts
  <2>1. PICK p \in Seq(IP!Deltas(kind)) : pend'[kind][a] = IP!Relisted(kind, a, p)
    BY <1>1, <2>0, Zenon DEF IP!Replaced
  <2>2. pend'[k][a] = Append(p, st) /\ p \in Seq(IP!Deltas(k))
    BY <1>4, <2>1 DEF IP!Relisted
  <2>3. st \in IP!Deltas(k)
    BY Informed, KindFacts DEF IP!Deltas
  <2> HIDE DEF st
  <2>4. /\ Len(Append(p, st)) = Len(p) + 1 /\ Len(p) \in Nat
        /\ Append(p, st)[Len(p) + 1] = st
    BY <2>2, <2>3, IP!AppendFacts
  <2>5. Len(p) + 1 \in 1 .. Len(pend'[k][a]) /\ pend'[k][a][Len(p) + 1] = st
    BY <2>2, <2>4
  <2>6. cache'[k][a] = None
    BY <1>1 DEF IP!Replaced
  <2> QED
    BY <1>4, <2>5, <2>6 DEF I!News, I!Applied, st
<1> QED
  BY <1>2, <1>3, <1>4

-----------------------------------------------------------------------------
(* Which steps keep the invariant.                                         *)

TypesBeside ==
    /\ nextUid \in Nat
    /\ notes \subseteq Apps /\ dirty \subseteq Apps /\ waiting \subseteq Apps
    /\ holding \in [{Worker} -> Apps \cup {None}]
    /\ shuttingDown = FALSE
    /\ pc \in {"Get", "app", "read", "call", "Done"}
    /\ local \in [app : AppObjects \cup {None}, next : 1 .. 3,
                  verb : {"Create", "Update", "Delete", None}]
    /\ unnoticed \subseteq Apps
    /\ left \in [Disturbances -> Nat]

LEMMA Parts ==
  IInv <=> /\ Trailing /\ TypesBeside /\ GhostsAreUnnoticed /\ OwnersKnown /\ WorkerState
           /\ \A a \in Apps \ unnoticed : ReadsAreServed(a)
BY DEF IInv, TypeOK, TypesBeside, Trailing

LEMMA PartsNext ==
  ASSUME Trailing', TypesBeside', GhostsAreUnnoticed', OwnersKnown', WorkerState',
         \A a \in Apps \ unnoticed' : ReadsAreServed(a)'
  PROVE  IInv'
BY DEF IInv, TypeOK, TypesBeside, Trailing

\* Where the worker is, when it is not moved by the step.
LEMMA WorkerStays ==
  ASSUME WorkerState, UNCHANGED <<thread, holding>>, I!Synced => I!Synced',
         \A a \in Apps : \/ cache'["App"][a] = None
                         \/ Ahead(a)'
                         \/ cache'["App"][a] = cache["App"][a] /\ ~Ahead(a)
  PROVE  WorkerState'
<1>1. pc' = pc /\ key' = key /\ local' = local /\ app' = app
  BY DEF thread, key, app
<1>2. (local.verb = "Delete" <=> ~Wanted(app.spec, kindAt))' <=>
         (local.verb = "Delete" <=> ~Wanted(app.spec, kindAt))
  BY <1>1, Zenon DEF Wanted, kindAt, Dependents, app
<1>3. /\ pc' = "Get" <=> key' = None
      /\ pc' \in {"Get", "app"} => local' = NoLocals
      /\ pc' \in {"read", "call"} => app' # None
      /\ pc' = "call" => (local.verb = "Delete" <=> ~Wanted(app.spec, kindAt))'
  BY <1>1, <1>2 DEF WorkerState, NoLocals
<1>4. ~I!Synced' => /\ pc' = "Get"
                    /\ \A a \in Apps : cache'["App"][a] # None => Ahead(a)'
  BY <1>1 DEF WorkerState
<1> QED
  BY <1>3, <1>4, Zenon DEF WorkerState, NoLocals

\* A step by which the worker does not move, or of the worker with the App that it
\* holds: what is left to show is that no other App loses what is served, unless
\* another Reconcile of it is coming.
LEMMA ReadsKept ==
  ASSUME IInv, unnoticed \subseteq unnoticed', holding' = holding,
         \A a \in Apps \ unnoticed' :
           \/ cache'["App"][a] = None
           \/ Ahead(a)'
           \/ /\ cache'["App"][a] = cache["App"][a] /\ ~Ahead(a)
              /\ \A k \in Owned : Served(a, k) => Served(a, k)'
              /\ key # a \/ UNCHANGED thread
           \/ key = a /\ ReadsAreServed(a)'
  PROVE  \A a \in Apps \ unnoticed' : ReadsAreServed(a)'
<1> SUFFICES ASSUME NEW a \in Apps \ unnoticed', ~ReadsAreServed(a)'
             PROVE  FALSE
  OBVIOUS
<1>1. cache'["App"][a] # None /\ ~Ahead(a)'
  BY DEF ReadsAreServed
<1>2. /\ cache'["App"][a] = cache["App"][a] /\ ~Ahead(a)
      /\ \A k \in Owned : Served(a, k) => Served(a, k)'
      /\ key # a \/ UNCHANGED thread
  BY <1>1
<1>3. ReadsAreServed(a)
  BY DEF IInv
<1>5. key' = key
  BY DEF key
<1>6. /\ "Deployment" \in Owned /\ "Service" \in Owned /\ "Ingress" \in Owned
      /\ \A i \in 1 .. 3 : Dependents[i] \in Owned
  BY KindFacts
<1>7. CASE key # a
  BY <1>1, <1>2, <1>3, <1>5, <1>6, <1>7 DEF ReadsAreServed
<1>8. CASE UNCHANGED thread
  <2>1. local.next \in 1 .. 3
    BY DEF IInv, TypeOK
  <2>2. \A i \in 1 .. local.next - 1 : i \in 1 .. 3
    BY <2>1
  <2>3. app' = app /\ local' = local /\ pc' = pc
    BY <1>8 DEF thread, app
  <2> QED
    BY <1>1, <1>2, <1>3, <1>5, <1>6, <2>2, <2>3 DEF ReadsAreServed
<1> QED
  BY <1>2, <1>7, <1>8

\* A step by which the worker does not move.
LEMMA EnvironmentKeeps ==
  ASSUME IInv, Trailing', TypesBeside', GhostsAreUnnoticed', OwnersKnown',
         UNCHANGED <<thread, holding>>, unnoticed \subseteq unnoticed',
         I!Synced => I!Synced',
         \A a \in Apps : \/ cache'["App"][a] = None
                         \/ Ahead(a)'
                         \/ cache'["App"][a] = cache["App"][a] /\ ~Ahead(a),
         \A a \in Apps \ unnoticed' :
           cache["App"][a] # None /\ ~Ahead(a)' =>
              \A k \in Owned : Served(a, k) => Served(a, k)'
  PROVE  IInv'
<1>1. \A a \in Apps \ unnoticed' : ReadsAreServed(a)'
  BY ReadsKept
<1>2. WorkerState'
  BY Parts, WorkerStays
<1> QED
  BY <1>1, <1>2, PartsNext

LEMMA AheadKept ==
  ASSUME NEW a,
         notes \cup dirty \cup waiting \subseteq notes' \cup dirty' \cup waiting'
  PROVE  Ahead(a) => Ahead(a)'
BY DEF Ahead

LEMMA SpendTypes ==
  ASSUME left \in [Disturbances -> Nat], NEW d \in Disturbances, Spend(d)
  PROVE  left' \in [Disturbances -> Nat]
BY DEF Spend

-----------------------------------------------------------------------------
(* Writes.                                                                 *)

\* What a write leaves of what is known of owners and ghosts.
LEMMA WriteLeaves ==
  ASSUME IInv, NEW kind \in Kinds, NEW n \in Apps,
         NEW obj \in ObjectsOf[kind] \cup {None}, I!Write(kind, n, obj),
         unnoticed \subseteq unnoticed',
         kind = "App" \/ obj = None \/ Controlled(obj) \/ n \in unnoticed'
  PROVE  /\ Trailing' /\ GhostsAreUnnoticed' /\ OwnersKnown'
         /\ cache' = cache /\ (I!Synced <=> I!Synced')
<1>1. Trailing /\ GhostsAreUnnoticed /\ OwnersKnown
  BY Parts
<1>2. Trailing' /\ IP!Written(kind, n, obj) /\ IP!Write(kind, n, obj) /\ IP!Good
  BY <1>1, WriteKeeps, InformersGood
<1>3. cache' = cache /\ listed' = listed /\ initial' = initial
  BY <1>2 DEF IP!Written
<1>4. \A k \in Owned : ghosts'[k] \subseteq ghosts[k]
  BY <1>2, KindFacts DEF IP!Written
<1>5. ASSUME NEW a \in Apps \ unnoticed', NEW k \in Owned, NEW x \in IP!Held(k, a)'
      PROVE  x \in IP!Held(k, a) \/ x = None \/ Controlled(x)
  <2>1. k \in Kinds /\ a \in KeysOf[k] /\ n \in KeysOf[kind] /\ k # "App"
    BY KindFacts
  <2>2. IP!Held(k, a)' \subseteq IP!Held(k, a) \cup (IF k = kind /\ a = n THEN {obj} ELSE {})
    BY <1>2, <2>1, Distinct, IP!HeldAfterWrite
  <2> QED
    BY <1>5, <2>1, <2>2
<1>6. GhostsAreUnnoticed'
  BY <1>1, <1>4, GhostsKept
<1>7. OwnersKnown'
  BY <1>1, <1>5, OwnersKept
<1> QED
  BY <1>2, <1>3, <1>6, <1>7 DEF I!Synced

\* A write that the worker does not make changes nothing for it: what is cached
\* stays.
LEMMA OutsideWriteKeeps ==
  ASSUME IInv, NEW kind \in Kinds, NEW n \in Apps,
         NEW obj \in ObjectsOf[kind] \cup {None}, I!Write(kind, n, obj),
         nextUid' \in Nat, left' \in [Disturbances -> Nat],
         UNCHANGED <<notes, items, waiting, thread>>,
         \/ (kind = "App" \/ obj = None) /\ unnoticed' = unnoticed
         \/ unnoticed' = unnoticed \cup {n}
  PROVE  IInv'
<1>1. /\ UNCHANGED <<notes, dirty, holding, shuttingDown, waiting, pc, local, thread>>
      /\ Trailing /\ TypesBeside
  BY Parts DEF items, thread
<1>2. /\ Trailing' /\ GhostsAreUnnoticed' /\ OwnersKnown'
      /\ cache' = cache /\ (I!Synced <=> I!Synced')
  BY WriteLeaves
<1>3. TypesBeside'
  BY <1>1 DEF TypesBeside
<1>4. \A a \in Apps : Ahead(a) => Ahead(a)'
  BY <1>1, AheadKept
<1>5. ASSUME NEW a \in Apps \ unnoticed', NEW k \in Owned, Served(a, k)
      PROVE  Served(a, k)'
  <2>1. k # kind \/ a # n \/ obj = None
    BY KindFacts
  <2> QED
    BY <1>1, <1>5, <2>1, ServedAfterWrite
<1> QED
  BY <1>1, <1>2, <1>3, <1>4, <1>5, EnvironmentKeeps

LEMMA AppWriteKeeps ==
  ASSUME IInv, NEW a \in Apps, NEW obj \in AppObjects \cup {None},
         UserWrite("user", "App", a, obj), nextUid' \in Nat, unnoticed' = unnoticed
  PROVE  IInv'
<1>1. left' \in [Disturbances -> Nat]
  BY SpendTypes DEF UserWrite, IInv, TypeOK, Disturbances
<1>2. I!Write("App", a, obj) /\ UNCHANGED <<notes, items, waiting, thread>>
  BY DEF UserWrite
<1> QED
  BY <1>1, <1>2, KindFacts, OutsideWriteKeeps

LEMMA UserKeeps ==
  ASSUME IInv, NEW a \in Apps,
         \/ \E spec \in AppSpecs : WriteApp(a, spec)
         \/ DeleteApp(a) \/ Others(a)
         \/ \E kind \in Kinds \ {"App"} : GarbageCollect(kind, a)
  PROVE  IInv'
<1>1. Trailing /\ TypesBeside
  BY Parts
<1>2. ASSUME NEW spec \in AppSpecs, WriteApp(a, spec) PROVE IInv'
  <2> DEFINE old == store["App"][a]
             uid == IF old = None THEN nextUid ELSE old.uid
             obj == [uid |-> uid, spec |-> Default(spec)]
  <2>1. old \in AppObjects \cup {None} /\ nextUid \in Nat
    BY <1>1, Informed, KindFacts DEF TypesBeside
  <2>2. uid \in Nat
    BY <2>1 DEF AppObjects
  <2>3. Default(spec) \in AppSpecs
    BY DEF Default, AppSpecs
  <2>4. obj \in AppObjects
    BY <2>2, <2>3 DEF AppObjects
  <2>5. /\ UserWrite("user", "App", a, obj) /\ unnoticed' = unnoticed
        /\ nextUid' = IF old = None THEN nextUid + 1 ELSE nextUid
    BY <1>2 DEF WriteApp
  <2>6. nextUid' \in Nat
    BY <2>1, <2>5
  <2> QED
    BY <2>4, <2>5, <2>6, AppWriteKeeps
<1>3. ASSUME DeleteApp(a) PROVE IInv'
  <2>1. UserWrite("user", "App", a, None) /\ unnoticed' = unnoticed /\ nextUid' \in Nat
    BY <1>1, <1>3 DEF DeleteApp, TypesBeside
  <2> QED
    BY <2>1, AppWriteKeeps
<1>4. ASSUME NEW k \in Owned, CreateForeign(k, a) PROVE IInv'
  <2> DEFINE obj == [owner |-> Nobody]
  <2>1. obj \in ObjectsOf[k] \cup {None} /\ k \in Kinds
    BY KindFacts DEF DependentObjects
  <2>2. /\ Spend("others") /\ I!Write(k, a, obj)
        /\ UNCHANGED <<nextUid, notes, items, waiting, thread>>
        /\ unnoticed' = unnoticed \cup {a}
    BY <1>4 DEF CreateForeign, UserWrite
  <2>3. left' \in [Disturbances -> Nat] /\ nextUid' \in Nat
    BY <1>1, <2>2, SpendTypes DEF TypesBeside, Disturbances
  <2> QED
    BY <2>1, <2>2, <2>3, OutsideWriteKeeps
<1>5. ASSUME NEW k \in Owned, DeleteDependent(k, a) PROVE IInv'
  <2>1. /\ Spend("others") /\ I!Write(k, a, None)
        /\ UNCHANGED <<nextUid, notes, items, waiting, thread, unnoticed>>
    BY <1>5 DEF DeleteDependent, UserWrite
  <2>2. left' \in [Disturbances -> Nat] /\ nextUid' \in Nat
    BY <1>1, <2>1, SpendTypes DEF TypesBeside, Disturbances
  <2> QED
    BY <2>1, <2>2, KindFacts, OutsideWriteKeeps
<1>6. ASSUME NEW k \in Owned, GarbageCollect(k, a) PROVE IInv'
  <2>1. /\ I!Write(k, a, None)
        /\ UNCHANGED <<nextUid, notes, items, waiting, thread, unnoticed, left>>
    BY <1>6 DEF GarbageCollect
  <2>2. left' \in [Disturbances -> Nat] /\ nextUid' \in Nat
    BY <1>1, <2>1 DEF TypesBeside
  <2> QED
    BY <2>1, <2>2, KindFacts, OutsideWriteKeeps
<1> QED
  BY <1>2, <1>3, <1>4, <1>5, <1>6 DEF Others, Owned

-----------------------------------------------------------------------------
(* Informers and the queue.                                                *)

\* A delta that shows an App, or a dependent, in another way puts the App on its
\* way.
LEMMA DeliverKeeps ==
  ASSUME IInv, NEW kind \in Kinds, NEW n \in Apps, Deliver(kind, n)
  PROVE  IInv'
<1> DEFINE e == Head(pend[kind][n])
<1>1. /\ Trailing /\ TypesBeside /\ GhostsAreUnnoticed /\ OwnersKnown
      /\ I!ProcessDelta(kind, n)
      /\ Enqueued(kind, n, e) => notes' = notes \cup {n}
      /\ notes \subseteq notes' /\ notes' \subseteq notes \cup {n}
      /\ UNCHANGED <<nextUid, dirty, holding, shuttingDown, waiting, pc, local, thread,
                     unnoticed, left>>
  BY Parts DEF Deliver, items, thread
<1>2. /\ Trailing' /\ IP!Applying(kind, n) /\ IP!ProcessDelta(kind, n) /\ IP!Good
  BY <1>1, DeltaKeeps, InformersGood
<1>3. /\ store' = store /\ listed' = listed /\ ghosts' = ghosts
      /\ \A k \in Kinds : initial'[k] \subseteq initial[k]
      /\ \A k \in Kinds, a \in Apps :
            cache'[k][a] # cache[k][a] => k = kind /\ a = n /\ cache'[k][a] = e
  <2>1. cache'[kind] = [cache[kind] EXCEPT ![n] = e]
    BY <1>2 DEF IP!Applying, IP!Applied
  <2>2. /\ store' = store /\ listed' = listed /\ ghosts' = ghosts
        /\ initial'[kind] \in {initial[kind], initial[kind] \ {n}}
        /\ \A k \in Kinds \ {kind} : cache'[k] = cache[k] /\ initial'[k] = initial[k]
    BY <1>2 DEF IP!Applying
  <2>3. DOMAIN cache[kind] = Apps
    BY <1>1, Informed
  <2> HIDE DEF e
  <2>4. \A k \in Kinds, a \in Apps :
            cache'[k][a] # cache[k][a] => k = kind /\ a = n /\ cache'[k][a] = e
    BY <2>1, <2>2, <2>3
  <2> QED
    BY <2>2, <2>4
<1> HIDE DEF e
<1>4. TypesBeside'
  BY <1>1 DEF TypesBeside
<1>5. GhostsAreUnnoticed'
  BY <1>1, <1>3, GhostsKept
<1>6. OwnersKnown'
  <2>1. ASSUME NEW a \in Apps, NEW k \in Owned
        PROVE  IP!Held(k, a)' \subseteq IP!Held(k, a)
    <3>1. k \in Kinds /\ a \in KeysOf[k] /\ n \in KeysOf[kind]
      BY KindFacts
    <3> QED
      BY <1>2, <3>1, IP!HeldAfterDelta
  <2> QED
    BY <1>1, <2>1, OwnersKept
<1>7. I!Synced => I!Synced'
  BY <1>3 DEF I!Synced
<1>8. \A a \in Apps : Ahead(a) => Ahead(a)'
  BY <1>1, AheadKept
<1>9. ASSUME NEW a \in Apps, cache'["App"][a] # cache["App"][a]
      PROVE  Ahead(a)'
  <2>1. kind = "App" /\ a = n /\ e # cache["App"][a]
    BY <1>3, <1>9, KindFacts
  <2>2. a \in notes'
    BY <1>1, <2>1 DEF Enqueued
  <2> QED
    BY <2>2 DEF Ahead
<1>10. ASSUME NEW a \in Apps \ unnoticed, cache'["App"][a] = cache["App"][a], ~Ahead(a)',
              NEW k \in Owned, Served(a, k)
       PROVE  Served(a, k)'
  <2>1. cache'[k][a] = cache[k][a]
    <3> SUFFICES ASSUME cache'[k][a] # cache[k][a] PROVE FALSE
      OBVIOUS
    <3>1. k = kind /\ a = n /\ cache'[k][a] = e
      BY <1>3, KindFacts
    <3>2. OwnerKnown(k, a) /\ OwnerKnown(k, a)'
      BY <1>1, <1>6, OwnersByHeld, OwnersByHeldNext
    <3>3. /\ cache[k][a] = None \/ Controlled(cache[k][a])
          /\ e = None \/ Controlled(e)
      BY <3>1, <3>2 DEF OwnerKnown, IP!Held, Controlled
    <3>4. Enqueued(kind, n, e)
      BY <3>1, <3>3 DEF Enqueued
    <3> QED
      BY <1>1, <1>10, <3>1, <3>4 DEF Ahead
  <2>2. I!News(k, a) => I!News(k, a)'
    <3>1. k \in Kinds /\ a \in KeysOf[k] /\ n \in KeysOf[kind]
      BY KindFacts
    <3>2. IP!News(k, a) => IP!News(k, a)'
      BY <1>2, <2>1, <3>1, IP!DeltaNews
    <3> QED
      BY <3>2, SameNews
  <2> QED
    BY <1>3, <1>10, <2>1, <2>2, ServedKept
<1> QED
  BY <1>1, <1>2, <1>4, <1>5, <1>6, <1>7, <1>8, <1>9, <1>10, EnvironmentKeeps

\* A list leaves the cache as it is; what it drops without showing anything of it
\* is noted as unnoticed, and so is what it overlooks.
LEMMA ListKeeps ==
  ASSUME IInv, NEW kind \in Kinds, List(kind)
  PROVE  IInv'
<1>1. /\ Trailing /\ TypesBeside /\ GhostsAreUnnoticed /\ OwnersKnown /\ I!Replace(kind)
      /\ unnoticed' = unnoticed \cup Dropped(kind)
      /\ UNCHANGED <<nextUid, notes, dirty, holding, shuttingDown, waiting, pc, local, thread>>
      /\ left' = left \/ Spend("relist")
  BY Parts DEF List, items, thread
<1>2. Trailing' /\ IP!Replaced(kind) /\ IP!Replace(kind) /\ IP!Good
  BY <1>1, ReplaceKeeps, InformersGood
<1>3. /\ store' = store /\ cache' = cache /\ listed' = listed \cup {kind}
      /\ kind \in listed => \A k \in Kinds : initial'[k] = initial[k]
      /\ \A k \in Kinds \ {kind} : ghosts'[k] = ghosts[k]
  BY <1>2 DEF IP!Replaced
<1>4. TypesBeside'
  <2>1. left' \in [Disturbances -> Nat]
    BY <1>1, SpendTypes DEF TypesBeside, Disturbances
  <2>2. Dropped(kind) \subseteq Apps
    BY DEF Dropped
  <2> QED
    BY <1>1, <2>1, <2>2 DEF TypesBeside
<1>5. GhostsAreUnnoticed'
  <2>1. ASSUME kind \in Owned, NEW a \in ghosts'[kind], a \notin Dropped(kind)
        PROVE  a \in ghosts[kind]
    <3>1. a \in Apps /\ a \in KeysOf[kind]
      BY <1>2, <2>1, KindFacts DEF IP!Replaced
    <3>2. PICK p \in Seq(IP!Deltas(kind)) : /\ pend'[kind][a] = IP!Relisted(kind, a, p)
                                            /\ IP!Overlooked(kind, a, p)
      BY <1>2, <3>1, Zenon DEF IP!Replaced
    <3>3. /\ store[kind][a] = None /\ cache[kind][a] = None
          /\ p # <<>> /\ IP!Applied(IP!Newest(p)) # None /\ pend'[kind][a] = p
      BY <3>2 DEF IP!Overlooked, IP!Relisted
    <3>4. pend[kind][a] = p
      BY <2>1, <3>1, <3>3, KindFacts DEF Dropped
    <3>5. kind \in listed
      BY <1>1, <3>1, <3>3, <3>4, Informed
    <3>6. IP!Final(kind, a) # store[kind][a]
      BY <3>3, <3>4 DEF IP!Final
    <3> QED
      BY <1>2, <3>1, <3>5, <3>6 DEF IP!Good, IP!CacheTrails
  <2>2. \A k \in Owned : ghosts'[k] \subseteq ghosts[k] \cup unnoticed'
    BY <1>1, <1>3, <2>1, KindFacts
  <2> QED
    BY <1>1, <2>2, GhostsKept
<1>6. OwnersKnown'
  <2>1. ASSUME NEW a \in Apps, NEW k \in Owned
        PROVE  IP!Held(k, a)' \subseteq IP!Held(k, a)
    <3>1. k \in Kinds /\ a \in KeysOf[k]
      BY KindFacts
    <3> QED
      BY <1>2, <3>1, IP!HeldAfterReplace
  <2> QED
    BY <1>1, <2>1, OwnersKept
<1>7. I!Synced => I!Synced'
  BY <1>3 DEF I!Synced
<1>8. \A a \in Apps : Ahead(a) => Ahead(a)'
  BY <1>1, AheadKept
<1>9. ASSUME NEW a \in Apps \ unnoticed', NEW k \in Owned, Served(a, k)
      PROVE  Served(a, k)'
  <2>1. cache[k][a] = None /\ I!News(k, a) => I!News(k, a)'
    BY <1>1, <1>9, NewsAfterReplace
  <2> QED
    BY <1>3, <1>9, <2>1, ServedKept
<1> QED
  BY <1>1, <1>2, <1>3, <1>4, <1>5, <1>6, <1>7, <1>8, <1>9, EnvironmentKeeps

\* What a step leaves that leaves the informers alone.
LEMMA InformersLeft ==
  ASSUME IInv, UNCHANGED informers, unnoticed \subseteq unnoticed'
  PROVE  /\ Trailing' /\ GhostsAreUnnoticed' /\ OwnersKnown'
         /\ store' = store /\ cache' = cache /\ (I!Synced <=> I!Synced')
         /\ \A a, k : Served(a, k) => Served(a, k)'
<1>1. Trailing /\ GhostsAreUnnoticed /\ OwnersKnown
  BY Parts
<1>2. Trailing' /\ UNCHANGED IP!informerVars
  BY <1>1, StutterKeeps
<1>3. UNCHANGED <<store, listed, initial, cache, pend, queued, ghosts>>
  BY DEF informers
<1>4. GhostsAreUnnoticed'
  BY <1>1, <1>3, GhostsKept
<1>5. OwnersKnown'
  <2>1. ASSUME NEW a \in Apps, NEW k \in Owned
        PROVE  IP!Held(k, a)' = IP!Held(k, a)
    BY <1>3 DEF IP!Held
  <2> QED
    BY <1>1, <2>1, OwnersKept
<1>6. ASSUME NEW a, NEW k, Served(a, k) PROVE Served(a, k)'
  <2>1. I!News(k, a) => I!News(k, a)'
    BY <1>3 DEF I!News
  <2> QED
    BY <1>3, <1>6, <2>1, ServedKept
<1> QED
  BY <1>2, <1>3, <1>4, <1>5, <1>6 DEF I!Synced

\* A resync, a handler's note, the end of a back-off.
LEMMA QueueKeeps ==
  ASSUME IInv, Resync \/ \E a \in Apps : Enqueue(a) \/ AddAfterBackoff(a)
  PROVE  IInv'
<1>1. /\ UNCHANGED <<informers, nextUid, holding, shuttingDown, thread, pc, local,
                     unnoticed, left>>
      /\ notes' \subseteq Apps /\ dirty' \subseteq Apps /\ waiting' \subseteq Apps
      /\ notes \cup dirty \cup waiting \subseteq notes' \cup dirty' \cup waiting'
  BY DEF IInv, TypeOK, Resync, Enqueue, AddAfterBackoff, Q!Add, items, thread
<1>2. /\ Trailing' /\ GhostsAreUnnoticed' /\ OwnersKnown'
      /\ store' = store /\ cache' = cache /\ (I!Synced <=> I!Synced')
      /\ \A a, k : Served(a, k) => Served(a, k)'
  BY <1>1, InformersLeft
<1>3. TypesBeside'
  BY <1>1, Parts DEF TypesBeside
<1>4. \A a \in Apps : Ahead(a) => Ahead(a)'
  BY <1>1, AheadKept
<1> QED
  BY <1>1, <1>2, <1>3, <1>4, EnvironmentKeeps

-----------------------------------------------------------------------------
(* Reconcile.                                                              *)

Locals == [app : AppObjects \cup {None}, next : 1 .. 3,
           verb : {"Create", "Update", "Delete", None}]

\* Where the worker is after a step of Reconcile.
LEMMA WorkerMoves ==
  ASSUME WorkerState, pc # "Get", holding' = holding, I!Synced <=> I!Synced',
         pc' \in {"read", "call", "Done"},
         pc' \in {"read", "call"} => local'.app # None,
         NEW spec, spec = local'.app.spec, NEW k, k = Dependents[local'.next],
         pc' = "call" => (local'.verb = "Delete" <=> ~Wanted(spec, k))
  PROVE  WorkerState'
<1>1. I!Synced' /\ key # None /\ key' = key /\ app' = local'.app
  BY DEF WorkerState, key, app
<1>2. pc' = "call" => (local.verb = "Delete" <=> ~Wanted(app.spec, kindAt))'
  <2>1. Wanted(app.spec, kindAt)' <=> Wanted(spec, k)
    BY Zenon DEF Wanted, kindAt, Dependents, app
  <2> QED
    BY <2>1
<1>3. /\ pc' = "Get" <=> key' = None
      /\ pc' \in {"Get", "app"} => local' = NoLocals
      /\ pc' \in {"read", "call"} => app' # None
  BY <1>1
<1> QED
  BY <1>1, <1>2, <1>3, Zenon DEF WorkerState, NoLocals

\* A step of the worker that leaves the informers alone, and what is left to show
\* of it.
LEMMA WorkerKeeps ==
  ASSUME IInv, UNCHANGED <<informers, nextUid, notes, items>>,
         waiting \subseteq waiting', waiting' \subseteq Apps,
         unnoticed \subseteq unnoticed', unnoticed' \subseteq Apps,
         left' \in [Disturbances -> Nat],
         pc # "Get", pc' \in {"read", "call", "Done"}, local' \in Locals,
         pc' \in {"read", "call"} => local'.app # None,
         NEW spec, spec = local'.app.spec, NEW k, k = Dependents[local'.next],
         pc' = "call" => (local'.verb = "Delete" <=> ~Wanted(spec, k)),
         NEW a, a = key,
         a \in Apps \ unnoticed' /\ cache["App"][a] # None /\ ~Ahead(a)' =>
            ReadsAreServed(a)'
  PROVE  IInv'
<1>1. /\ dirty' = dirty /\ holding' = holding /\ shuttingDown' = shuttingDown
      /\ TypesBeside /\ WorkerState
  BY Parts DEF items
<1>2. /\ Trailing' /\ GhostsAreUnnoticed' /\ OwnersKnown'
      /\ store' = store /\ cache' = cache /\ (I!Synced <=> I!Synced')
      /\ \A b, j : Served(b, j) => Served(b, j)'
  BY InformersLeft
<1>3. TypesBeside'
  BY <1>1 DEF TypesBeside, Locals
<1>4. \A b \in Apps : Ahead(b) => Ahead(b)'
  BY <1>1, AheadKept
<1>5. \A b \in Apps \ unnoticed' : ReadsAreServed(b)'
  BY <1>1, <1>2, <1>4, ReadsKept
<1>6. WorkerState'
  BY <1>1, <1>2, WorkerMoves
<1> QED
  BY <1>2, <1>3, <1>5, <1>6, PartsNext

\* Where a worker is that reads or calls.
LEMMA Reading ==
  ASSUME IInv, pc # "Get", NEW a, a = key
  PROVE  /\ listed = Kinds /\ a \in Apps /\ TypesBeside
         /\ pc \in {"read", "call"} =>
               app \in AppObjects /\ app.spec \in AppSpecs /\ app # None
         /\ local.next \in 1 .. 3 /\ kindAt = Dependents[local.next] /\ kindAt \in Owned
<1>1. TypesBeside /\ WorkerState /\ holding[Worker] \in Apps \cup {None}
  BY Parts DEF TypesBeside
<1>2. local.next \in 1 .. 3 /\ app \in AppObjects \cup {None}
  BY <1>1 DEF TypesBeside, app
<1>3. I!Synced
  BY <1>1 DEF WorkerState
<1> QED
  BY <1>1, <1>2, <1>3, KindFacts DEF WorkerState, I!Synced, key, kindAt, AppObjects, AppSpecs

\* The dependent is done with: Reconcile goes on, or has seen them all.
LEMMA ProceedFacts ==
  ASSUME TypesBeside, app # None, pc = "read" \/ pc = "call", Proceed
  PROVE  /\ pc' \in {"read", "Done"} /\ waiting' = waiting
         /\ local' \in Locals
         /\ app' = app /\ local'.app = app
         /\ \/ /\ local.next = 1 /\ pc' = "read" /\ local'.next = 2
            \/ /\ local.next = 2 /\ pc' = "read" /\ local'.next = 3
            \/ /\ local.next = 2 /\ pc' = "Done" /\ ~app.spec.service
            \/ /\ local.next = 3 /\ pc' = "Done"
<1>1. local \in Locals
  BY DEF TypesBeside, Locals
<1>2. local' = [local EXCEPT !.next = IF @ = 3 THEN 3 ELSE @ + 1, !.verb = None]
  BY DEF Proceed
<1>3. /\ local' \in Locals
      /\ local'.app = local.app
      /\ local'.next = IF local.next = 3 THEN 3 ELSE local.next + 1
  <2> DEFINE n == IF local.next = 3 THEN 3 ELSE local.next + 1
  <2>1. n \in 1 .. 3
    BY <1>1 DEF Locals
  <2>2. local' = [local EXCEPT !.next = n, !.verb = None]
    BY <1>2
  <2> HIDE DEF n
  <2>3. local' \in Locals /\ local'.app = local.app /\ local'.next = n
    BY <1>1, <2>1, <2>2 DEF Locals
  <2> QED
    BY <2>3 DEF n
<1>4. /\ local.next = 1 => kindAt = "Deployment"
      /\ local.next = 2 => kindAt = "Service"
      /\ local.next = 3 => kindAt = "Ingress"
  BY KindFacts DEF kindAt
<1>5. local.next \in {1, 2, 3}
  BY <1>1 DEF Locals
<1>6. IF kindAt = "Ingress" \/ (kindAt = "Service" /\ ~app.spec.service)
      THEN pc' = "Done" /\ waiting' = waiting
      ELSE pc' = "read" /\ waiting' = waiting
  BY DEF Proceed, Succeed
<1> QED
  BY <1>3, <1>4, <1>5, <1>6 DEF app

\* Reconcile decides on a call: nothing has changed yet.
LEMMA CallFacts ==
  ASSUME TypesBeside, NEW verb \in {"Create", "Update", "Delete"}, Call(verb)
  PROVE  /\ pc' = "call" /\ waiting' = waiting /\ local' \in Locals
         /\ app' = app /\ local'.app = app /\ local'.next = local.next
         /\ local'.verb = verb
BY DEF TypesBeside, Call, app, Locals

LEMMA GetKeeps ==
  ASSUME IInv, NEW h \in Apps, Get(h)
  PROVE  IInv'
<1>1. /\ UNCHANGED <<informers, nextUid, notes, shuttingDown, waiting, local, unnoticed, left>>
      /\ I!Synced /\ pc' = "app" /\ dirty' = dirty \ {h}
      /\ holding' = [holding EXCEPT ![Worker] = h] /\ holding[Worker] = None
      /\ TypesBeside /\ WorkerState
  BY Parts DEF Get, Q!Take
<1>2. /\ Trailing' /\ GhostsAreUnnoticed' /\ OwnersKnown'
      /\ store' = store /\ cache' = cache /\ (I!Synced <=> I!Synced')
      /\ \A b, j : Served(b, j) => Served(b, j)'
  BY <1>1, InformersLeft
<1>3. key = None /\ key' = h
  BY <1>1 DEF key, TypesBeside
<1>4. TypesBeside'
  BY <1>1 DEF TypesBeside
<1>5. WorkerState'
  BY <1>1, <1>2, <1>3, ReconcilerAssumption DEF WorkerState, NoLocals
<1>6. ASSUME NEW a \in Apps \ unnoticed', a # h
      PROVE  ReadsAreServed(a)'
  <2>1. ReadsAreServed(a)
    BY <1>1 DEF IInv
  <2>2. Ahead(a)' <=> Ahead(a)
    BY <1>1, <1>6 DEF Ahead
  <2>3. key # a
    BY <1>3, ReconcilerAssumption
  <2> QED
    BY <1>2, <1>3, <1>6, <2>1, <2>2, <2>3 DEF ReadsAreServed
<1>7. ReadsAreServed(h)'
  BY <1>1, <1>3 DEF ReadsAreServed
<1> QED
  BY <1>2, <1>4, <1>5, <1>6, <1>7, PartsNext

\* An error puts the App back.
LEMMA FailComes ==
  ASSUME NEW a, a = key, Fail
  PROVE  Ahead(a)' /\ pc' = "Done" /\ waiting' = waiting \cup {a}
BY DEF Fail, Ahead

\* The App is read as it is cached.
LEMMA GetAppKeeps ==
  ASSUME IInv, GetApp
  PROVE  IInv'
<1>0. PICK a : a = key
  OBVIOUS
<1>1. /\ UNCHANGED <<informers, nextUid, notes, items, waiting, unnoticed, left>>
      /\ pc = "app" /\ local' = [local EXCEPT !.app = cache["App"][a]]
      /\ \/ cache["App"][a] = None /\ pc' = "Done"
         \/ cache["App"][a] # None /\ pc' = "read"
      /\ Trailing /\ TypesBeside /\ WorkerState
  BY <1>0, Parts DEF GetApp, Succeed
<1>2. a \in Apps
  BY <1>0, <1>1, Reading
<1>3. cache' = cache /\ key' = a
  BY <1>0, <1>1 DEF informers, items, key
<1>4. cache["App"][a] \in AppObjects \cup {None}
  BY <1>1, <1>2, Informed, KindFacts
<1>5. local = NoLocals
  BY <1>1 DEF WorkerState
<1>6. local' \in Locals /\ local'.app = cache["App"][a] /\ local'.next = 1
  BY <1>1, <1>4, <1>5 DEF NoLocals, Locals
<1>7. ASSUME cache["App"][a] # None PROVE ReadsAreServed(a)'
  <2>1. pc' = "read" /\ app' = cache["App"][a]
    BY <1>1, <1>6, <1>7 DEF app
  <2>2. \A i \in 1 .. local'.next - 1 : Served(a, Dependents[i])'
    BY <1>6
  <2> QED
    BY <1>3, <2>1, <2>2 DEF ReadsAreServed
<1>8. waiting' \subseteq Apps /\ unnoticed' \subseteq Apps /\ left' \in [Disturbances -> Nat]
  BY <1>1 DEF TypesBeside
<1>9. PICK spec, k : spec = local'.app.spec /\ k = Dependents[local'.next]
  OBVIOUS
<1> QED
  BY <1>0, <1>1, <1>6, <1>7, <1>8, <1>9, WorkerKeeps

\* A step by which Reconcile gives up.
LEMMA FailKeeps ==
  ASSUME IInv, pc \notin {"Get", "Done"}, Fail, left' = left \/ Spend("fault"),
         UNCHANGED <<informers, nextUid, notes, items, local, unnoticed>>
  PROVE  IInv'
<1>0. PICK a, spec, k : /\ a = key /\ spec = local'.app.spec
                        /\ k = Dependents[local'.next]
  OBVIOUS
<1>1. a \in Apps /\ TypesBeside
  BY <1>0, Reading
<1>2. Ahead(a)' /\ pc' = "Done" /\ waiting' = waiting \cup {a}
  BY <1>0, FailComes
<1>3. /\ waiting' \subseteq Apps /\ unnoticed' \subseteq Apps
      /\ left' \in [Disturbances -> Nat] /\ local' \in Locals
  BY <1>1, <1>2, SpendTypes DEF TypesBeside, Locals, Disturbances
<1> QED
  BY <1>0, <1>1, <1>2, <1>3, WorkerKeeps

LEMMA GetAppFailsKeeps == ASSUME IInv, GetAppFails PROVE IInv'
BY FailKeeps DEF GetAppFails

\* What Reconcile has left served so far, after one more dependent.
LEMMA OneMore ==
  ASSUME TypesBeside, NEW a \in Apps, a = key, pc = "read" \/ pc = "call",
         app # None, app = cache'["App"][a], key' = a, Proceed,
         \A i \in 1 .. local.next : Served(a, Dependents[i])'
  PROVE  ReadsAreServed(a)'
<1>1. /\ pc' \in {"read", "Done"} /\ app' = app
      /\ \/ /\ local.next = 1 /\ pc' = "read" /\ local'.next = 2
         \/ /\ local.next = 2 /\ pc' = "read" /\ local'.next = 3
         \/ /\ local.next = 2 /\ pc' = "Done" /\ ~app.spec.service
         \/ /\ local.next = 3 /\ pc' = "Done"
  BY ProceedFacts
<1>2. CASE pc' = "read"
  <2>1. \A i \in 1 .. local'.next - 1 : i \in 1 .. local.next
    BY <1>1, <1>2
  <2>2. \A i \in 1 .. local'.next - 1 : Served(a, Dependents[i])'
    BY <2>1
  <2> QED
    BY <1>1, <1>2, <2>2 DEF ReadsAreServed
<1>3. CASE pc' = "Done"
  <2>1. Served(a, "Deployment")' /\ Served(a, "Service")'
    BY <1>1, <1>3, KindFacts
  <2>2. cache'["App"][a].spec.service => Served(a, "Ingress")'
    BY <1>1, <1>3, KindFacts
  <2> QED
    BY <1>3, <2>1, <2>2 DEF ReadsAreServed
<1> QED
  BY <1>1, <1>2, <1>3

\* What the invariant says of the App that is being treated.
LEMMA Treated ==
  ASSUME IInv, NEW a \in Apps \ unnoticed, a = key, pc \in {"read", "call"},
         cache["App"][a] # None, ~Ahead(a)
  PROVE  /\ app = cache["App"][a]
         /\ \A i \in 1 .. local.next - 1 : Served(a, Dependents[i])
BY DEF IInv, ReadsAreServed

LEMMA CallDecided ==
  ASSUME IInv, NEW a \in Apps \ unnoticed, a = key, pc = "read",
         cache["App"][a] # None, ~Ahead(a),
         NEW verb \in {"Create", "Update", "Delete"}, Call(verb),
         UNCHANGED <<informers, items, unnoticed>>
  PROVE  ReadsAreServed(a)'
<1>1. app # None /\ TypesBeside
  BY Reading
<1>2. pc' = "call" /\ app' = app /\ local'.next = local.next /\ key' = a
  BY <1>1, CallFacts DEF items, key
<1>3. cache' = cache /\ \A k : Served(a, k) => Served(a, k)'
  BY InformersLeft
<1>4. app = cache["App"][a] /\ \A i \in 1 .. local.next - 1 : Served(a, Dependents[i])
  BY Treated
<1> QED
  BY <1>2, <1>3, <1>4 DEF ReadsAreServed

LEMMA ReadKeeps ==
  ASSUME IInv, Read
  PROVE  IInv'
<1>0. PICK a, spec, k : /\ a = key /\ spec = local'.app.spec
                        /\ k = Dependents[local'.next]
  OBVIOUS
<1>1. /\ pc = "read" /\ UNCHANGED <<informers, nextUid, notes, items, unnoticed, left>>
      /\ TypesBeside
  BY Parts DEF Read
<1>2. /\ a \in Apps /\ app \in AppObjects /\ app.spec \in AppSpecs /\ app # None
      /\ local.next \in 1 .. 3 /\ kindAt = Dependents[local.next] /\ kindAt \in Owned
  BY <1>0, <1>1, Reading
<1>3. \/ Proceed /\ (cache[kindAt][a] # None) = Wanted(app.spec, kindAt)
      \/ Call("Create") /\ Wanted(app.spec, kindAt)
      \/ Call("Delete") /\ ~Wanted(app.spec, kindAt)
  BY <1>0, Zenon DEF Read
<1>4. waiting \subseteq Apps /\ unnoticed \subseteq Apps /\ left \in [Disturbances -> Nat]
  BY <1>1 DEF TypesBeside
<1>5. \A verb \in {"Create", "Delete"} : Call(verb) =>
         /\ pc' = "call" /\ waiting' = waiting /\ local' \in Locals
         /\ local'.app = app /\ local'.next = local.next /\ local'.verb = verb
  BY <1>1, CallFacts
<1>6. ASSUME NEW verb \in {"Create", "Delete"}, Call(verb),
             verb = "Delete" <=> ~Wanted(app.spec, kindAt)
      PROVE  IInv'
  <2>1. /\ pc' = "call" /\ waiting' = waiting /\ local' \in Locals
        /\ local'.app = app /\ spec = app.spec /\ k = kindAt /\ local'.verb = verb
    BY <1>0, <1>2, <1>5, <1>6
  <2>2. a \in Apps \ unnoticed' /\ cache["App"][a] # None /\ ~Ahead(a)' =>
           ReadsAreServed(a)'
    <3>1. Ahead(a) => Ahead(a)'
      BY <1>1, <2>1, AheadKept DEF items
    <3> QED
      BY <1>0, <1>1, <1>6, <3>1, CallDecided
  <2>3. local'.verb = "Delete" <=> ~Wanted(spec, k)
    BY <1>6, <2>1
  <2> QED
    BY <1>0, <1>1, <1>2, <1>4, <2>1, <2>2, <2>3, WorkerKeeps
<1>7. CASE Proceed /\ (cache[kindAt][a] # None) = Wanted(app.spec, kindAt)
  <2>1. /\ pc' \in {"read", "Done"} /\ waiting' = waiting
        /\ local' \in Locals /\ local'.app = app
    BY <1>1, <1>2, <1>7, ProceedFacts
  <2>2. ASSUME a \in Apps \ unnoticed, cache["App"][a] # None, ~Ahead(a)
        PROVE  ReadsAreServed(a)'
    <3>1. app = cache["App"][a] /\ \A i \in 1 .. local.next - 1 : Served(a, Dependents[i])
      BY <1>0, <1>1, <2>2, Treated
    <3>2. Wanted(app.spec, kindAt) \in BOOLEAN
      BY <1>2, WantedIsBoolean
    <3>3. Served(a, kindAt)
      BY <1>7, <3>1, <3>2, Zenon DEF Served
    <3>4. /\ cache' = cache /\ key' = a
          /\ \A j : Served(a, j) => Served(a, j)'
      BY <1>0, <1>1, InformersLeft DEF items, key
    <3>5. \A i \in 1 .. local.next : Served(a, Dependents[i])'
      <4> SUFFICES ASSUME NEW i \in 1 .. local.next
                   PROVE  Served(a, Dependents[i])
        BY <3>4
      <4>1. CASE i = local.next
        BY <1>2, <3>3, <4>1
      <4>2. CASE i # local.next
        BY <1>2, <3>1, <4>2
      <4> QED
        BY <4>1, <4>2
    <3> QED
      BY <1>0, <1>1, <1>2, <1>7, <3>1, <3>4, <3>5, OneMore
  <2>3. a \in Apps \ unnoticed' /\ cache["App"][a] # None /\ ~Ahead(a)' =>
           ReadsAreServed(a)'
    <3>1. Ahead(a) => Ahead(a)'
      BY <1>1, <2>1, AheadKept DEF items
    <3> QED
      BY <1>1, <2>2, <3>1
  <2> QED
    BY <1>0, <1>1, <1>2, <1>4, <2>1, <2>3, WorkerKeeps
<1> QED
  BY <1>3, <1>6, <1>7

LEMMA ReadFailsKeeps ==
  ASSUME IInv, ReadFails
  PROVE  IInv'
<1>0. PICK a, spec, k : /\ a = key /\ spec = local'.app.spec
                        /\ k = Dependents[local'.next]
  OBVIOUS
<1>1. /\ pc = "read" /\ UNCHANGED <<informers, nextUid, notes, items>>
      /\ Spend("fault") /\ TypesBeside
  BY Parts DEF ReadFails
<1>2. /\ a \in Apps /\ app # None
      /\ local.next \in 1 .. 3 /\ kindAt = Dependents[local.next]
  BY <1>0, <1>1, Reading
<1>3. \/ Call("Update") /\ kindAt = "Deployment" /\ UNCHANGED unnoticed
      \/ Fail /\ UNCHANGED <<local, unnoticed>>
      \/ Proceed /\ unnoticed' = unnoticed \cup {a}
  BY <1>0, Zenon DEF ReadFails
<1>4. /\ waiting \subseteq Apps /\ unnoticed \subseteq Apps
      /\ left' \in [Disturbances -> Nat]
  BY <1>1, SpendTypes DEF TypesBeside, Disturbances
<1>5. CASE Call("Update") /\ kindAt = "Deployment" /\ UNCHANGED unnoticed
  <2>1. /\ pc' = "call" /\ waiting' = waiting /\ local' \in Locals
        /\ local'.app = app /\ local'.next = local.next /\ local'.verb = "Update"
    BY <1>1, <1>5, CallFacts
  <2>2. a \in Apps \ unnoticed' /\ cache["App"][a] # None /\ ~Ahead(a)' =>
           ReadsAreServed(a)'
    <3>1. Ahead(a) => Ahead(a)'
      BY <1>1, <2>1, AheadKept DEF items
    <3> QED
      BY <1>0, <1>1, <1>5, <3>1, CallDecided
  <2>3. local'.verb = "Delete" <=> ~Wanted(spec, k)
    BY <1>0, <1>2, <1>5, <2>1, WantedValues
  <2> QED
    BY <1>0, <1>1, <1>2, <1>4, <1>5, <2>1, <2>2, <2>3, WorkerKeeps
<1>6. CASE Fail /\ UNCHANGED <<local, unnoticed>>
  BY <1>1, <1>6, FailKeeps
<1>7. CASE Proceed /\ unnoticed' = unnoticed \cup {a}
  <2>1. /\ pc' \in {"read", "Done"} /\ waiting' = waiting
        /\ local' \in Locals /\ local'.app # None
    BY <1>1, <1>2, <1>7, ProceedFacts
  <2> QED
    BY <1>0, <1>1, <1>2, <1>4, <1>7, <2>1, WorkerKeeps
<1> QED
  BY <1>3, <1>5, <1>6, <1>7

\* A call that is carried out: what it wrote is served, for its change is on its
\* way, or there is nothing left to serve.
LEMMA ServedByCall ==
  ASSUME Trailing, NEW k \in Owned, k \in listed, NEW a \in Apps,
         NEW obj \in DependentObjects \cup {None}, I!Write(k, a, obj),
         obj = None <=> ~Wanted(cache["App"][a].spec, k)
  PROVE  Served(a, k)'
<1>1. PICK spec : spec = cache["App"][a].spec
  OBVIOUS
<1>2. k \in Kinds /\ a \in KeysOf[k] /\ obj \in ObjectsOf[k] \cup {None}
  BY KindFacts
<1>3. IP!Written(k, a, obj) /\ IP!Write(k, a, obj) /\ IP!Good
  BY <1>2, WriteKeeps, InformersGood
<1>4. cache' = cache /\ store'[k][a] = obj
  BY <1>2, <1>3, Informed DEF IP!Written
<1>5. Served(a, k)' <=> IF Wanted(spec, k)
                        THEN cache'[k][a] # None \/ I!News(k, a)'
                        ELSE cache'[k][a] = None \/ store'[k][a] = None
  BY <1>1, <1>4, ServedNext
<1>6. obj # cache[k][a] => I!News(k, a)'
  <2>1. obj # cache[k][a] => IP!News(k, a)'
    BY <1>2, <1>3, Distinct, IP!WriteNews
  <2> QED
    BY <2>1, SameNews
<1> QED
  BY <1>1, <1>4, <1>5, <1>6

LEMMA CallKeeps ==
  ASSUME IInv, pc = "call", Accepted, I!Write(kindAt, key, Written),
         Proceed \/ (Fail /\ UNCHANGED local),
         left' = left \/ Spend("fault"),
         UNCHANGED <<nextUid, notes, items, unnoticed>>
  PROVE  IInv'
<1>0. PICK a, k, obj, spec, j : /\ a = key /\ k = kindAt /\ obj = Written
                                /\ spec = local'.app.spec
                                /\ j = Dependents[local'.next]
  OBVIOUS
<1>1. /\ Trailing /\ TypesBeside /\ WorkerState
      /\ UNCHANGED <<nextUid, notes, dirty, holding, shuttingDown, unnoticed>>
  BY Parts DEF items
<1>2. /\ listed = Kinds /\ a \in Apps /\ app \in AppObjects /\ k \in Owned /\ app # None
      /\ k = Dependents[local.next] /\ local.next \in 1 .. 3
      /\ k \in Kinds /\ ObjectsOf[k] = DependentObjects
  BY <1>0, <1>1, Reading, KindFacts
<1>3. /\ obj = None <=> ~Wanted(app.spec, k)
      /\ obj = None \/ Controlled(obj)
      /\ obj \in DependentObjects \cup {None}
  <2>1. [owner |-> app.uid] \in DependentObjects /\ app.uid # Nobody
    BY <1>2, ReconcilerAssumption DEF AppObjects, DependentObjects
  <2>2. local.verb = "Delete" <=> ~Wanted(app.spec, k)
    BY <1>0, <1>1 DEF WorkerState
  <2> QED
    BY <1>0, <2>1, <2>2, NoneIsNoObject DEF Written, Controlled
<1>4. /\ pc' \in {"read", "Done"} /\ waiting \subseteq waiting' /\ waiting' \subseteq Apps
      /\ local' \in Locals /\ local'.app # None
  <2>1. CASE Proceed
    BY <1>1, <1>2, <2>1, ProceedFacts DEF TypesBeside
  <2>2. CASE Fail /\ UNCHANGED local
    BY <1>0, <1>1, <1>2, <2>2, FailComes DEF TypesBeside, Locals, app
  <2> QED
    BY <2>1, <2>2
<1>5. I!Write(k, a, obj)
  BY <1>0
<1>6. /\ Trailing' /\ GhostsAreUnnoticed' /\ OwnersKnown'
      /\ cache' = cache /\ (I!Synced <=> I!Synced')
  BY <1>1, <1>2, <1>3, <1>5, WriteLeaves
<1>7. TypesBeside'
  <2>1. left' \in [Disturbances -> Nat]
    BY <1>1, SpendTypes DEF TypesBeside, Disturbances
  <2> QED
    BY <1>1, <1>4, <2>1 DEF TypesBeside, Locals
<1>8. WorkerState'
  BY <1>0, <1>1, <1>4, <1>6, WorkerMoves
<1>9. \A b \in Apps : Ahead(b) => Ahead(b)'
  BY <1>1, <1>4, AheadKept
<1>10. ASSUME NEW b \in Apps, NEW i \in Owned, b # a \/ app = cache["App"][b], Served(b, i)
       PROVE  Served(b, i)'
  <2>1. i # k \/ b # a \/ obj = None \/ Wanted(cache["App"][b].spec, i)
    BY <1>3, <1>10
  <2> QED
    BY <1>1, <1>2, <1>3, <1>5, <1>10, <2>1, ServedAfterWrite
<1>11. ASSUME a \in Apps \ unnoticed, cache["App"][a] # None, ~Ahead(a)'
       PROVE  ReadsAreServed(a)'
  <2>1. app = cache["App"][a] /\ \A i \in 1 .. local.next - 1 : Served(a, Dependents[i])
    BY <1>0, <1>9, <1>11, Treated
  <2>2. Proceed
    BY <1>0, <1>11, FailComes
  <2>3. Served(a, k)'
    BY <1>1, <1>2, <1>3, <1>5, <2>1, ServedByCall
  <2>4. \A i \in 1 .. local.next : Served(a, Dependents[i])'
    <3> SUFFICES ASSUME NEW i \in 1 .. local.next
                 PROVE  Served(a, Dependents[i])'
      OBVIOUS
    <3>1. CASE i = local.next
      <4>1. Dependents[i] = k
        BY <1>2, <3>1
      <4> QED
        BY <2>3, <4>1
    <3>2. CASE i # local.next
      <4>1. Served(a, Dependents[i]) /\ Dependents[i] \in Owned
        BY <1>2, <2>1, <3>2, KindFacts
      <4>2. PICK m \in Owned : m = Dependents[i]
        BY <4>1
      <4>3. Served(a, m)'
        BY <1>2, <1>10, <2>1, <4>1, <4>2
      <4> QED
        BY <4>2, <4>3
    <3> QED
      BY <3>1, <3>2
  <2>5. key' = a
    BY <1>0, <1>1 DEF key
  <2> QED
    BY <1>0, <1>1, <1>2, <1>6, <2>1, <2>2, <2>4, <2>5, OneMore
<1>12. \A b \in Apps \ unnoticed' : ReadsAreServed(b)'
  BY <1>0, <1>1, <1>6, <1>9, <1>10, <1>11, ReadsKept
<1> QED
  BY <1>6, <1>7, <1>8, <1>12, PartsNext

LEMMA RefusedKeeps ==
  ASSUME IInv, CallRefused \/ CallFails
  PROVE  IInv'
<1>1. /\ pc = "call" /\ UNCHANGED <<nextUid, notes, items, local, unnoticed>> /\ Fail
      /\ UNCHANGED informers \/ (Accepted /\ I!Write(kindAt, key, Written))
      /\ left' = left \/ Spend("fault")
  BY DEF CallRefused, CallFails
<1>2. CASE UNCHANGED informers
  BY <1>1, <1>2, FailKeeps
<1>3. CASE Accepted /\ I!Write(kindAt, key, Written)
  BY <1>1, <1>3, CallKeeps
<1> QED
  BY <1>1, <1>2, <1>3

\* Reconcile is over: what it has left served is all there is to serve, or another
\* one is coming.
LEMMA DoneKeeps ==
  ASSUME IInv, Done
  PROVE  IInv'
<1>1. /\ UNCHANGED <<informers, nextUid, notes, dirty, shuttingDown, waiting, unnoticed, left>>
      /\ pc = "Done" /\ pc' = "Get" /\ local' = NoLocals
      /\ holding' = [holding EXCEPT ![Worker] = None]
      /\ TypesBeside /\ WorkerState
  BY Parts DEF Done, Q!Done
<1>2. /\ Trailing' /\ GhostsAreUnnoticed' /\ OwnersKnown'
      /\ store' = store /\ cache' = cache /\ (I!Synced <=> I!Synced')
      /\ \A b, j : Served(b, j) => Served(b, j)'
  BY <1>1, InformersLeft
<1>3. key' = None /\ I!Synced'
  BY <1>1, <1>2 DEF key, TypesBeside, WorkerState
<1>4. TypesBeside'
  <2>1. holding' \in [{Worker} -> Apps \cup {None}]
    BY <1>1 DEF TypesBeside
  <2>2. local' \in Locals
    BY <1>1 DEF NoLocals, Locals
  <2> QED
    BY <1>1, <2>1, <2>2 DEF TypesBeside, Locals
<1>5. WorkerState'
  BY <1>1, <1>3 DEF WorkerState, NoLocals
<1>6. ASSUME NEW a \in Apps \ unnoticed'
      PROVE  ReadsAreServed(a)'
  <2>1. ReadsAreServed(a)
    BY <1>1 DEF IInv
  <2>2. Ahead(a)' <=> Ahead(a)
    BY <1>1 DEF Ahead
  <2> QED
    BY <1>1, <1>2, <2>1, <2>2 DEF ReadsAreServed
<1> QED
  BY <1>2, <1>4, <1>5, <1>6, PartsNext

\* After a restart the caches are empty.
LEMMA RestartKeeps ==
  ASSUME IInv, Restart
  PROVE  IInv'
<1>1. /\ I!LoseInformers /\ Spend("crash") /\ UNCHANGED <<nextUid, shuttingDown, unnoticed>>
      /\ notes' = {} /\ dirty' = {} /\ waiting' = {}
      /\ holding' = [w \in {Worker} |-> None] /\ pc' = "Get" /\ local' = NoLocals
      /\ Trailing /\ TypesBeside /\ GhostsAreUnnoticed /\ OwnersKnown
  BY Parts DEF Restart
<1>2. Trailing' /\ IP!LoseInformers
  BY <1>1, LossKeeps
<1>3. /\ \A a \in Apps : cache'["App"][a] = None
      /\ \A k \in Kinds : ghosts'[k] = {}
  BY <1>1, KindFacts DEF I!LoseInformers
<1>4. key' = None
  BY <1>1 DEF key
<1>5. TypesBeside'
  <2>1. holding' \in [{Worker} -> Apps \cup {None}]
    BY <1>1
  <2>2. local' \in Locals
    BY <1>1 DEF NoLocals, Locals
  <2>3. left' \in [Disturbances -> Nat]
    BY <1>1, SpendTypes DEF TypesBeside, Disturbances
  <2> QED
    BY <1>1, <2>1, <2>2, <2>3 DEF TypesBeside, Locals
<1>6. GhostsAreUnnoticed'
  BY <1>1, <1>3, GhostsKept DEF Owned
<1>7. OwnersKnown'
  <2>1. ASSUME NEW a \in Apps, NEW k \in Owned
        PROVE  IP!Held(k, a)' \subseteq IP!Held(k, a)
    <3>1. k \in Kinds /\ a \in KeysOf[k]
      BY KindFacts
    <3> QED
      BY <1>2, <3>1, IP!HeldAfterLoss
  <2> QED
    BY <1>1, <2>1, OwnersKept
<1>8. WorkerState'
  BY <1>1, <1>3, <1>4 DEF WorkerState, NoLocals
<1>9. \A a \in Apps : ReadsAreServed(a)'
  BY <1>3 DEF ReadsAreServed
<1> QED
  BY <1>2, <1>5, <1>6, <1>7, <1>8, <1>9, PartsNext

-----------------------------------------------------------------------------
(* The theorems.                                                           *)

LEMMA Initially == Init => IInv
<1> SUFFICES ASSUME Init PROVE IInv
  OBVIOUS
<1>1. Trailing
  <2>1. IP!InformersInit
    BY DEF Init, I!InformersInit, IP!InformersInit
  <2> QED
    BY <2>1, IP!GoodInit, InformersGood
<1>2. /\ \A k \in Kinds, a \in Apps : /\ store[k][a] = None /\ cache[k][a] = None
                                      /\ pend[k][a] = <<>>
      /\ \A k \in Kinds : ghosts[k] = {}
  BY KindFacts DEF Init, I!InformersInit
<1>3. TypesBeside
  <2>1. local \in Locals
    BY DEF Init, NoLocals, Locals
  <2>2. holding \in [{Worker} -> Apps \cup {None}]
    BY DEF Init, Q!ItemInit
  <2> QED
    BY <2>1, <2>2, ReconcilerAssumption DEF Init, Q!ItemInit, TypesBeside, Locals
<1>4. OwnersKnown
  <2>1. \A k \in Kinds, a \in Apps : Len(pend[k][a]) = 0
    BY <1>2, EmptySeq
  <2> QED
    BY <1>2, <2>1 DEF OwnersKnown
<1>5. GhostsAreUnnoticed
  BY <1>2 DEF GhostsAreUnnoticed
<1>6. WorkerState
  BY <1>2, KindFacts DEF Init, Q!ItemInit, WorkerState, key
<1>7. \A a \in Apps : ReadsAreServed(a)
  BY <1>2, KindFacts DEF ReadsAreServed
<1> QED
  BY <1>1, <1>3, <1>4, <1>5, <1>6, <1>7, Parts

LEMMA StutterStep == ASSUME IInv, UNCHANGED vars PROVE IInv'
<1>1. /\ UNCHANGED <<informers, nextUid, notes, dirty, holding, shuttingDown, waiting,
                     thread, pc, local, unnoticed, left>>
  BY DEF vars, items, thread
<1>2. /\ Trailing' /\ GhostsAreUnnoticed' /\ OwnersKnown'
      /\ store' = store /\ cache' = cache /\ (I!Synced <=> I!Synced')
      /\ \A a, k : Served(a, k) => Served(a, k)'
  BY <1>1, InformersLeft
<1>3. TypesBeside'
  BY <1>1, Parts DEF TypesBeside
<1>4. \A a \in Apps : Ahead(a) => Ahead(a)'
  BY <1>1, AheadKept
<1> QED
  BY <1>1, <1>2, <1>3, <1>4, EnvironmentKeeps

LEMMA Step == IInv /\ [Next]_vars => IInv'
<1> SUFFICES ASSUME IInv, [Next]_vars PROVE IInv'
  OBVIOUS
<1>1. CASE UNCHANGED vars
  BY <1>1, StutterStep
<1>2. CASE \E a \in Apps :
             \/ \E spec \in AppSpecs : WriteApp(a, spec)
             \/ DeleteApp(a) \/ Others(a)
             \/ \E kind \in Kinds \ {"App"} : GarbageCollect(kind, a)
  BY <1>2, UserKeeps
<1>3. CASE \E a \in Apps : Get(a)
  BY <1>3, GetKeeps
<1>4. CASE Resync \/ \E a \in Apps : Enqueue(a) \/ AddAfterBackoff(a)
  BY <1>4, QueueKeeps
<1>5. CASE \E kind \in Kinds : List(kind) \/ \E a \in Apps : Deliver(kind, a)
  BY <1>5, DeliverKeeps, ListKeeps
<1>6. CASE CallSucceeds
  BY <1>6, CallKeeps DEF CallSucceeds
<1>7. CASE \/ GetApp \/ GetAppFails \/ Read \/ ReadFails \/ CallRefused \/ CallFails
           \/ Done \/ Restart
  BY <1>7, GetAppKeeps, GetAppFailsKeeps, ReadKeeps, ReadFailsKeeps, RefusedKeeps,
     DoneKeeps, RestartKeeps
<1> QED
  BY <1>1, <1>2, <1>3, <1>4, <1>5, <1>6, <1>7 DEF Next, ReconcileStep

\* The inductive invariant of the reconciler.
THEOREM Invariance == Safety => []IInv
BY Initially, Step, PTL DEF Safety

\* Every variable of the reconciler, its queue and its informers keeps its type.
THEOREM TypeCorrect == Safety => []TypeOK
<1>1. IInv => TypeOK
  BY DEF IInv
<1> QED
  BY <1>1, Invariance, PTL

\* The manager's cache trails the API server through lost watches and restarts, but
\* for objects that are gone and whose deletion a list has overlooked.
THEOREM CachesTrail == Safety => []I!CacheTrails
<1>1. IInv => I!CacheTrails
  BY DEF IInv
<1> QED
  BY <1>1, Invariance, PTL

\* When nothing is under way for an App its dependents are what it asks for: no
\* change of an App or its dependents needs a resync to be noticed.
THEOREM QuietIsSettled == Safety => []QuietMeansSettled
<1>1. IInv => QuietMeansSettled
  <2> SUFFICES ASSUME IInv, NEW a \in Apps, store["App"][a] # None, Quiet(a), a \notin unnoticed
               PROVE  Settled(a)
    BY DEF QuietMeansSettled
  <2>1. Trailing /\ OwnersKnown /\ GhostsAreUnnoticed /\ ReadsAreServed(a) /\ IP!Good
    BY Parts, InformersGood
  <2>2. /\ ~Ahead(a) /\ key # a /\ listed = Kinds
        /\ \A k \in Kinds : pend[k][a] = <<>>
    BY DEF Quiet, Ahead, I!Synced, I!Pending
  <2>3. \A k \in Kinds : ~I!News(k, a)
    BY <2>2, EmptySeq DEF I!News
  <2>4. ASSUME NEW k \in Kinds, k = "App" \/ k \in Owned
        PROVE  cache[k][a] = store[k][a]
    <3>1. a \in KeysOf[k] /\ k \in listed /\ ~IP!News(k, a)
      BY <2>2, <2>3, KindFacts, SameNews
    <3>2. store[k][a] # None \/ a \notin ghosts[k]
      BY <2>1, <2>4 DEF GhostsAreUnnoticed, Owned
    <3> QED
      BY <2>1, <3>1, <3>2, IP!NoNewsIsCurrent
  <2>5. cache["App"][a] = store["App"][a]
    BY <2>4, KindFacts
  <2>6. /\ Served(a, "Deployment") /\ Served(a, "Service")
        /\ store["App"][a].spec.service => Served(a, "Ingress")
    BY <2>1, <2>2, <2>5 DEF ReadsAreServed
  <2>7. ASSUME NEW k \in Owned, Served(a, k)
        PROVE  Conforms(a, k)
    <3>1. store[k][a] # None => store[k][a].owner = store["App"][a].uid
      <4>1. store[k][a] # None => store[k][a].owner # Nobody
        BY <2>1 DEF OwnersKnown, Controlled, Owned
      <4> QED
        BY <4>1 DEF Quiet, Orphan, Alive, Owned
    <3>2. cache[k][a] = store[k][a] /\ ~I!News(k, a)
      BY <2>3, <2>4, KindFacts
    <3>3. store[k][a] # None <=> Wanted(store["App"][a].spec, k)
      BY <2>5, <2>7, <3>2, Zenon DEF Served
    <3> QED
      BY <3>1, <3>3, Zenon DEF Conforms
  <2> QED
    BY <2>6, <2>7, KindFacts DEF Settled
<1> QED
  BY <1>1, Invariance, PTL
=============================================================================
