---------------------------- MODULE AppController ----------------------------
(***************************************************************************)
(* The App controller (app-controller/controller.go): workers that take an *)
(* App's key from the work queue and run syncHandler, which looks the      *)
(* App's Deployment, Service and Ingress up in the informer caches and     *)
(* creates those it does not find.                                         *)
(*                                                                         *)
(* Around the controller the module models what its correctness depends    *)
(* on: the API server with its users and its garbage collector, one watch  *)
(* stream and cache per kind, each trailing the server by an arbitrary     *)
(* number of events, the notifications and periodic resyncs of the App     *)
(* informer, API calls that fail with or without effect, lost watches, and *)
(* crashes of the process, and an orderly stop.  The work queue is the     *)
(* abstract ItemQueue, which WorkQueue implements.                         *)
(***************************************************************************)
EXTENDS Naturals, Sequences

CONSTANTS Apps,     \* names of Apps
          Names,    \* names of Deployments, Services and Ingresses
          Specs,    \* App specs: [names : [Kinds -> Names], replicas : ...]
          KindOrder,\* the kinds in syncHandler's order: in the code
                    \* <<"Deployment", "Service", "Ingress">>
          Workers,
          Nobody,   \* owner of an object no App owns
          None,     \* no object, no owner, no item
          Bounds,   \* how often each kind of disturbance may happen, together
          MaxLag    \* bound: the deltas under way about an object

\* The kinds of dependents.
Kinds == {KindOrder[i] : i \in 1 .. Len(KindOrder)}
Stored == Kinds \cup {"App"}

\* What the environment does a bounded number of times: users changing Apps and
\* creating objects, users deleting objects, failing API calls, lost watches,
\* crashes and stops of the process.
Disturbances == {"user", "delete", "fault", "relist", "crash"}

Replicas == {s.replicas : s \in Specs}
Uids == Nat

ASSUME AppAssumption ==
    /\ Workers # {}
    /\ KindOrder \in Seq(STRING)
    /\ Len(KindOrder) > 0
    /\ KindOrder[1] = "Deployment"
    /\ \A i, j \in 1 .. Len(KindOrder) : KindOrder[i] = KindOrder[j] => i = j
    /\ "App" \notin Kinds
    /\ None \notin Apps \cup Uids \cup {Nobody} \cup Replicas
    /\ Nobody \notin Uids
    /\ \A s \in Specs : s.names \in [Kinds -> Names]
    /\ Specs \subseteq [names : [Kinds -> Names], replicas : Replicas]
    /\ Bounds \subseteq [Disturbances -> Nat]
    /\ MaxLag \in Nat \ {0}

AppObjects == [uid : Uids, spec : Specs]
Objects == [owner : Uids \cup {Nobody}, replicas : Replicas \cup {None}]

ASSUME NoneIsNoObject == None \notin AppObjects \cup Objects

VARIABLES
    \* API server and informers
    store, listed, initial, cache, pend, queued, ghosts,
    nextUid,    \* the uid of the next App
    notes,      \* App keys whose handler calls are still to come
    \* work queue
    dirty, holding, shuttingDown,
    waiting,    \* keys whose back-off (AddRateLimited) is running
    tracked,    \* keys the rate limiter counts failures of
    \* workers: program counter and local variables of syncHandler
    pc, local,
    \* history: the App version of the last Synced event
    synced,
    \* disturbances left
    left

informers == <<store, listed, initial, cache, pend, queued, ghosts>>
items == <<dirty, holding, shuttingDown>>
limiter == <<waiting, tracked>>
threads == <<pc, local>>
vars == <<informers, nextUid, notes, items, limiter, threads, synced, left>>

Q == INSTANCE ItemQueue WITH Items <- Apps, NoItem <- None

KeysOf == [kind \in Stored |-> IF kind = "App" THEN Apps ELSE Names]

ObjectsOf == [kind \in Stored |-> IF kind = "App" THEN AppObjects ELSE Objects]

\* No handler tells a deletion that a list has shown from another.
I == INSTANCE Informers WITH Kinds <- Stored, Keys <- KeysOf,
                             Objects <- ObjectsOf, Tombstone <- None

\* Values of the locals of syncHandler outside of it.
NoLocals == [app |-> None, next |-> 1, seen |-> [k \in Kinds |-> None]]

Init ==
    /\ I!InformersInit
    /\ nextUid = 0
    /\ notes = {}
    /\ Q!ItemInit
    /\ waiting = {}
    /\ tracked = {}
    /\ pc = [w \in Workers |-> "Get"]
    /\ local = [w \in Workers |-> NoLocals]
    /\ synced = [a \in Apps |-> None]
    /\ left \in Bounds

Spend(d) ==
    /\ left[d] > 0
    /\ left' = [left EXCEPT ![d] = @ - 1]

-----------------------------------------------------------------------------
(* Definitions marked "Fault" are plausible mistakes in the definition that *)
(* follows them; nothing uses them but the experiments that show that the  *)
(* properties can fail (listed in the README).                             *)

(* The API server.                                                         *)

UserWrite(d, kind, n, obj) ==
    /\ Spend(d)
    /\ I!Write(kind, n, obj)
    /\ UNCHANGED <<notes, items, limiter, threads, synced>>

CreateApp(a, s) ==
    /\ store["App"][a] = None
    /\ UserWrite("user", "App", a, [uid |-> nextUid, spec |-> s])
    /\ nextUid' = nextUid + 1

UpdateApp(a, s) ==
    /\ store["App"][a] # None
    /\ store["App"][a].spec # s
    /\ UserWrite("user", "App", a, [store["App"][a] EXCEPT !.spec = s])
    /\ UNCHANGED nextUid

DeleteApp(a) ==
    /\ store["App"][a] # None
    /\ UserWrite("user", "App", a, None)
    /\ UNCHANGED nextUid

\* Somebody else creates, or deletes, an object of a name an App may use.
CreateForeign(k, n) ==
    /\ store[k][n] = None
    /\ UserWrite("user", k, n, [owner |-> Nobody, replicas |-> None])
    /\ UNCHANGED nextUid

DeleteDependent(k, n) ==
    /\ store[k][n] # None
    /\ UserWrite("delete", k, n, None)
    /\ UNCHANGED nextUid

\* The App an owner reference names still exists.
Alive(u) == \E a \in Apps : store["App"][a] # None /\ store["App"][a].uid = u

\* Kubernetes deletes an object once its controller is gone.
Orphan(k, n) ==
    /\ store[k][n] # None
    /\ store[k][n].owner # Nobody
    /\ ~Alive(store[k][n].owner)

GarbageCollect(k, n) ==
    /\ Orphan(k, n)
    /\ I!Write(k, n, None)
    /\ UNCHANGED <<nextUid, notes, items, limiter, threads, synced, left>>

-----------------------------------------------------------------------------
(* The informers.  NewController registers AddFunc and UpdateFunc with the *)
(* App informer only: there is no handler for deletions, and none for the  *)
(* three kinds of dependents.  The pending calls are a set of keys: two for*)
(* one key count as one, which a resync can repeat at any time.            *)

\* The reflector lists a kind, at start and again when a watch was lost.
List(kind) ==
    /\ \/ kind \notin listed /\ UNCHANGED left
       \/ kind \in listed /\ Spend("relist")
    /\ I!Replace(kind)
    /\ UNCHANGED <<nextUid, notes, items, limiter, threads, synced>>

\* The informer has put an App into the cache that is new or has changed.
Notified(kind, n) ==
    kind = "App" /\ cache'["App"][n] \notin {None, cache["App"][n]}

\* Fault: deletions of Apps do not reach the cache.
DeliverNoDeletion(kind, n) ==
    /\ pend[kind][n] # <<>>
    /\ IF kind = "App" /\ Head(pend[kind][n]) = None
       THEN /\ pend' = [pend EXCEPT ![kind][n] = Tail(@)]
            /\ queued' = [queued EXCEPT ![kind][n] = 0]
            /\ UNCHANGED <<store, listed, initial, cache, ghosts>>
       ELSE I!ProcessDelta(kind, n)
    /\ notes' = IF Notified(kind, n) THEN notes \cup {n} ELSE notes
    /\ UNCHANGED <<nextUid, items, limiter, threads, synced, left>>

\* The informer applies a delta; then it notifies the handlers, unless a list
\* has shown what is cached already: that is left to the resyncs.
Deliver(kind, n) ==
    /\ I!ProcessDelta(kind, n)
    /\ notes' = IF Notified(kind, n) THEN notes \cup {n} ELSE notes
    /\ UNCHANGED <<nextUid, items, limiter, threads, synced, left>>

\* Fault: the informer factories are made without a resync period.
NoResync == FALSE /\ UNCHANGED vars

\* Every 30 s UpdateFunc is called for all cached Apps.
Resync ==
    /\ notes' = notes \cup {a \in Apps : cache["App"][a] # None}
    /\ notes' # notes
    /\ UNCHANGED <<informers, nextUid, items, limiter, threads, synced, left>>

\* The handlers call enqueueApp; Add does nothing on a queue shutting down.
EnqueueApp(a) ==
    /\ a \in notes
    /\ \/ Q!Add(a)
       \/ shuttingDown /\ UNCHANGED items
    /\ notes' = notes \ {a}
    /\ UNCHANGED <<informers, nextUid, limiter, threads, synced, left>>

\* A back-off ends: the delaying queue adds the key to the work queue.
AddAfterBackoff(a) ==
    /\ a \in waiting
    /\ waiting' = waiting \ {a}
    /\ Q!Add(a)
    /\ UNCHANGED <<informers, nextUid, notes, tracked, threads, synced, left>>

-----------------------------------------------------------------------------
(* The workers.                                                            *)

\* Workers start after WaitForCacheSync.
Get(w, a) ==
    /\ I!Synced
    /\ pc[w] = "Get"
    /\ Q!Take(w, a)
    /\ pc' = [pc EXCEPT ![w] = "app"]
    /\ UNCHANGED <<informers, nextUid, notes, limiter, local, synced, left>>

Goto(w, l) == pc' = [pc EXCEPT ![w] = l]

\* syncHandler returns nil and processNextWorkItem calls Forget ...
Succeed(w) ==
    /\ Goto(w, "Done")
    /\ tracked' = tracked \ {holding[w]}
    /\ UNCHANGED waiting

\* Fault: the failed key is counted but not put back.
FailUnqueued(w) ==
    /\ Goto(w, "Done")
    /\ tracked' = tracked \cup {holding[w]}
    /\ UNCHANGED waiting

\* ... or it returns an error and processNextWorkItem calls AddRateLimited: the
\* failure is counted and, unless the queue shuts down, the back-off starts.
Fail(w) ==
    /\ Goto(w, "Done")
    /\ tracked' = tracked \cup {holding[w]}
    /\ waiting' = IF shuttingDown THEN waiting ELSE waiting \cup {holding[w]}

\* syncHandler reads the App from its lister.
GetApp(w) ==
    /\ pc[w] = "app"
    /\ LET app == cache["App"][holding[w]] IN
       \/ /\ app = None
          /\ Succeed(w)
          /\ UNCHANGED local
       \/ /\ app # None
          /\ Goto(w, "lookup")
          /\ local' = [local EXCEPT ![w].app = app]
          /\ UNCHANGED limiter
    /\ UNCHANGED <<informers, nextUid, notes, items, synced, left>>

\* The kind w has come to.
Kind(w) == KindOrder[local[w].next]

\* Fault: it goes back to the kind before.
ProceedBackwards(w, owner) ==
    /\ local' = [local EXCEPT ![w].seen[Kind(w)] = owner, ![w].next = @ - 1]
    /\ Goto(w, IF local[w].next = Len(KindOrder) THEN "check" ELSE "lookup")

\* w has an object of its current kind, owned by owner, and goes on.
Proceed(w, owner) ==
    /\ local' = [local EXCEPT ![w].seen[Kind(w)] = owner, ![w].next = @ + 1]
    /\ Goto(w, IF local[w].next = Len(KindOrder) THEN "check" ELSE "lookup")

\* The name under which syncHandler looks an object up ...
LookupName(app, k) == app.spec.names[k]

\* ... and the object newDeployment, newService or newIngress makes: each is
\* named app.Spec.Deployment.Name.
CreateName(app, k) == app.spec.names["Deployment"]

NewObject(app, k) ==
    [owner |-> app.uid,
     replicas |-> IF k = "Deployment" THEN app.spec.replicas ELSE None]

Lookup(w) ==
    /\ pc[w] = "lookup"
    /\ LET k == Kind(w)
           obj == cache[k][LookupName(local[w].app, k)] IN
       \/ /\ obj # None
          /\ Proceed(w, obj.owner)
       \/ /\ obj = None
          /\ Goto(w, "create")
          /\ UNCHANGED local
    /\ UNCHANGED <<informers, nextUid, notes, items, limiter, synced, left>>

\* The Create call succeeds, ...
Create(w) ==
    /\ pc[w] = "create"
    /\ LET k == Kind(w)
           app == local[w].app
           n == CreateName(app, k) IN
       /\ store[k][n] = None
       /\ I!Write(k, n, NewObject(app, k))
       /\ Proceed(w, app.uid)
    /\ UNCHANGED <<nextUid, notes, items, limiter, synced, left>>

\* ... is refused because the name is taken, ...
CreateAlreadyExists(w) ==
    /\ pc[w] = "create"
    /\ store[Kind(w)][CreateName(local[w].app, Kind(w))] # None
    /\ Fail(w)
    /\ UNCHANGED <<informers, nextUid, notes, items, local, synced, left>>

\* ... or reports another error, having created the object or not.
CreateFails(w) ==
    /\ pc[w] = "create"
    /\ Spend("fault")
    /\ LET k == Kind(w)
           app == local[w].app
           n == CreateName(app, k) IN
       \/ UNCHANGED informers
       \/ store[k][n] = None /\ I!Write(k, n, NewObject(app, k))
    /\ Fail(w)
    /\ UNCHANGED <<nextUid, notes, items, local, synced>>

\* Fault: only the Deployment's owner is compared.
ControlsDeployment(w) == local[w].seen["Deployment"] = local[w].app.uid

\* metav1.IsControlledBy of the three objects and the App.
ControlsAll(w) == \A k \in Kinds : local[w].seen[k] = local[w].app.uid

\* Is every object the App's own?  Then the Synced event is recorded.
Check(w) ==
    /\ pc[w] = "check"
    /\ \/ /\ ControlsAll(w)
          /\ synced' = [synced EXCEPT ![holding[w]] = local[w].app]
          /\ Succeed(w)
       \/ /\ ~ControlsAll(w)
          /\ UNCHANGED synced
          /\ Fail(w)
    /\ UNCHANGED <<informers, nextUid, notes, items, local, left>>

\* The deferred Done.
Done(w) ==
    /\ pc[w] = "Done"
    /\ Q!Done(w)
    /\ Goto(w, "Get")
    /\ local' = [local EXCEPT ![w] = NoLocals]
    /\ UNCHANGED <<informers, nextUid, notes, limiter, synced, left>>

\* The stop channel closes: Run shuts the queue down and returns, and main with
\* it.  Run waits for nobody.
Stop ==
    /\ Spend("crash")
    /\ ~shuttingDown
    /\ Q!ShutDown
    /\ UNCHANGED <<informers, nextUid, notes, limiter, threads, synced>>

\* The process ends, after a stop or by a crash, and is started again: only
\* the API server remembers.
Restart ==
    /\ \/ shuttingDown /\ UNCHANGED left
       \/ ~shuttingDown /\ Spend("crash")
    /\ I!LoseInformers
    /\ notes' = {}
    /\ dirty' = {}
    /\ holding' = [w \in Workers |-> None]
    /\ shuttingDown' = FALSE
    /\ waiting' = {}
    /\ tracked' = {}
    /\ pc' = [w \in Workers |-> "Get"]
    /\ local' = [w \in Workers |-> NoLocals]
    /\ UNCHANGED <<nextUid, synced>>

-----------------------------------------------------------------------------
SyncStep(w) ==
    \/ GetApp(w) \/ Lookup(w) \/ Check(w) \/ Done(w)
    \/ Create(w) \/ CreateAlreadyExists(w)

User ==
    \/ \E a \in Apps : DeleteApp(a)
    \/ \E a \in Apps, s \in Specs : CreateApp(a, s) \/ UpdateApp(a, s)
    \/ \E k \in Kinds, n \in Names :
         CreateForeign(k, n) \/ DeleteDependent(k, n)

Next ==
    \/ User
    \/ \E k \in Kinds, n \in Names : GarbageCollect(k, n)
    \/ \E kind \in Stored : List(kind) \/ \E n \in KeysOf[kind] : Deliver(kind, n)
    \/ Resync
    \/ \E a \in Apps : EnqueueApp(a) \/ AddAfterBackoff(a)
    \/ \E w \in Workers :
         SyncStep(w) \/ CreateFails(w) \/ \E a \in Apps : Get(w, a)
    \/ Stop
    \/ Restart

Safety == Init /\ [][Next]_vars

\* The queue serves every key (ItemQueue's fairness, which WorkQueue is checked
\* to provide), workers and informers run, back-offs end (at most 1000 s), the
\* resync timer fires, and the garbage collector does its work.  Users, faults
\* and crashes are free to happen or not.
Fairness ==
    /\ \A a \in Apps :
         /\ SF_vars(\E w \in Workers : Get(w, a))
         /\ WF_vars(EnqueueApp(a)) /\ WF_vars(AddAfterBackoff(a))
    /\ \A w \in Workers : WF_vars(SyncStep(w))
    /\ \A kind \in Stored :
         /\ WF_vars(kind \notin listed /\ List(kind))
         /\ \A n \in KeysOf[kind] : WF_vars(Deliver(kind, n))
    /\ WF_vars(Resync)
    /\ \A k \in Kinds, n \in Names : WF_vars(GarbageCollect(k, n))

Spec == Safety /\ Fairness
-----------------------------------------------------------------------------
(* Properties.                                                             *)

TypeOK ==
    /\ I!TypeOK
    /\ nextUid \in Uids
    /\ notes \subseteq Apps
    /\ dirty \subseteq Apps
    /\ shuttingDown \in BOOLEAN
    /\ holding \in [Workers -> Apps \cup {None}]
    /\ waiting \subseteq Apps
    /\ tracked \subseteq Apps
    /\ pc \in [Workers -> {"Get", "app", "lookup", "create", "check", "Done"}]
    /\ local \in [Workers -> [app : AppObjects \cup {None},
                              next : 1 .. Len(KindOrder) + 1,
                              seen : [Kinds -> Uids \cup {Nobody, None}]]]
    /\ synced \in [Apps -> AppObjects \cup {None}]
    /\ left \in [Disturbances -> Nat]

\* A sync of a that will read what is cached by then is still to begin.
Ahead(a) == shuttingDown \/ a \in notes \cup dirty \cup waiting

\* Such a sync is still to begin, or one of app itself is under way.
Underway(a, app) ==
    \/ Ahead(a)
    \/ \E w \in Workers :
         /\ holding[w] = a
         /\ \/ pc[w] = "app"
            \/ pc[w] \notin {"app", "Done"} /\ local[w].app = app

\* Something is still going to make a worker sync the current version of a.
WorkOutstanding(a) ==
    \/ "App" \notin listed
    \/ I!News("App", a)
    \/ Underway(a, store["App"][a])

\* No version of an App is forgotten: until the Synced event of its current
\* version is recorded, the App is on its way through the watch, the handlers,
\* the queue, the back-off or a worker that has read that very version.
NoAppForgotten ==
    \A a \in Apps :
        store["App"][a] # None /\ synced[a] # store["App"][a]
            => WorkOutstanding(a)

\* The rate limiter's failure counts do not leak (rate_limiting_queue.go:36,
\* "you may end up tracking failures forever"): a key is counted only as long
\* as it will be synced again, which counts it again or forgets it, or the
\* process is about to end.
NoTrackedFailureLeaks ==
    \A a \in tracked : \/ a \in dirty \cup waiting
                       \/ \E w \in Workers : holding[w] = a /\ pc[w] # "Done"
                       \/ shuttingDown

\* As long as nobody deletes dependents, an App whose current version was
\* reported Synced has a Deployment, a Service and an Ingress, under the names
\* in its spec and owned by it.  No two Apps are Synced with the same object.
SyncedMeansOwned ==
    \A a \in Apps :
        store["App"][a] # None /\ synced[a] = store["App"][a] =>
            \A k \in Kinds :
                LET obj == store[k][LookupName(synced[a], k)] IN
                obj # None /\ obj.owner = synced[a].uid

\* What the informers' caches hold catches up with the API server, through lost
\* watches too: every object that exists is going to be cached as it is, and of
\* those that are gone none remains but the ones DeltaFIFO's Replace overlooks.
CacheTrails == I!CacheTrails

\* How a worker's program counter, its item and its locals fit together.
WorkerState ==
    \A w \in Workers :
        /\ pc[w] = "Get" <=> holding[w] = None
        /\ pc[w] \in {"Get", "app"} => local[w] = NoLocals
        /\ pc[w] \in {"lookup", "create", "check"} => local[w].app # None
        /\ pc[w] \in {"lookup", "create"} => local[w].next <= Len(KindOrder)

\* A sync of a version of an App that is not the cached one any more will be
\* followed by another one, ...
StaleSyncIsFollowed ==
    \A w \in Workers :
        /\ pc[w] \in {"lookup", "create", "check"}
        /\ cache["App"][holding[w]] \notin {None, local[w].app}
        => Ahead(holding[w])

\* ... and an App that is cached is Synced as it is, or about to be synced.
CachedAppIsServed ==
    \A a \in Apps :
        cache["App"][a] \notin {None, synced[a]} => Underway(a, cache["App"][a])

\* The inductive invariant behind the theorems of AppControllerProofs: what is
\* cached is served, and what is stored is cached or on its way to the cache, so
\* that no App is forgotten.
IInv ==
    /\ TypeOK
    /\ WorkerState
    /\ CacheTrails
    /\ StaleSyncIsFollowed
    /\ CachedAppIsServed
    /\ NoTrackedFailureLeaks

\* SyncedMeansOwned takes more: that nobody but the garbage collector deletes
\* dependents, ...
NobodyDeletes == \A b \in Bounds : b["delete"] = 0

\* ... and that a spec has one name for all of them, as newService and newIngress
\* take it.
NamesAgree == \A s \in Specs, k \in Kinds : s.names[k] = s.names["Deployment"]

\* u is the uid of an App that was made, and if it still exists, n of kind k is its.
Owned(k, n, u) ==
    /\ u < nextUid
    /\ Alive(u) => store[k][n] # None /\ store[k][n].owner = u

\* An object of a kind under a name, read at any time, tells of an owner that holds
\* on to it, and an App of a uid that was given.
Telling(kind, n, obj) ==
    \/ obj = None
    \/ kind = "App" /\ obj.uid < nextUid
    \/ kind # "App" /\ (obj.owner = Nobody \/ Owned(kind, n, obj.owner))

\* What the server stores, the caches hold and the watches carry tells so, ...
ObjectsTell ==
    \A kind \in Stored :
        \A n \in KeysOf[kind] :
            /\ Telling(kind, n, store[kind][n])
            /\ Telling(kind, n, cache[kind][n])
            /\ \A i \in 1 .. Len(pend[kind][n]) : Telling(kind, n, pend[kind][n][i])

\* ... so does what a worker has seen since it began, ...
LocalsTell ==
    \A w \in Workers :
        local[w].app # None =>
            /\ local[w].app.uid < nextUid
            /\ \A k \in Kinds :
                 local[w].seen[k] = local[w].app.uid =>
                     Owned(k, LookupName(local[w].app, k), local[w].app.uid)

\* ... and what it has reported.
SyncedTells ==
    \A a \in Apps :
        synced[a] # None =>
            \A k \in Kinds : Owned(k, LookupName(synced[a], k), synced[a].uid)

\* The inductive invariant behind SyncedMeansOwned, on top of IInv.
OwnersStay == left["delete"] = 0 /\ ObjectsTell /\ LocalsTell /\ SyncedTells

\* Some dependent of a is in the hands of someone else who will not go away.
Blocked(a) ==
    \E k \in Kinds :
        LET app == store["App"][a]
            obj == store[k][LookupName(app, k)] IN
        /\ obj # None
        /\ obj.owner # app.uid
        /\ obj.owner = Nobody \/ Alive(obj.owner)

\* The caches show a dependent of a that is gone, and will not notice.
Misled(a) ==
    \E k \in Kinds : LookupName(store["App"][a], k) \in ghosts[k]

\* Whatever was created, deleted, lost or restarted before: when the users and
\* the faults have calmed down, every App owns all its dependents, unless
\* someone else holds one of them, a list has overlooked that one is gone or the
\* controller stays stopped.
Converge ==
    <>[](\A a \in Apps :
            store["App"][a] # None /\ ~Blocked(a) /\ ~Misled(a) /\ ~shuttingDown =>
                \A k \in Kinds :
                    LET app == store["App"][a]
                        obj == store[k][LookupName(app, k)] IN
                    obj # None /\ obj.owner = app.uid)

\* A list has overlooked that the App of uid u is gone.
GhostOwner(u) == \E a \in ghosts["App"] : I!Final("App", a).uid = u

\* Objects of Apps that are gone disappear for good: a worker that syncs a
\* deleted App from a stale cache may create them again, but not for ever, unless
\* a list has overlooked the deletion.
OrphansVanish ==
    <>[](\A k \in Kinds, n \in Names :
            Orphan(k, n) => GhostOwner(store[k][n].owner))
=============================================================================
