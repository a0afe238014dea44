---------------------------- MODULE AppReconciler ----------------------------
(***************************************************************************)
(* kubebuilder-demo: the admission webhook that changes and validates Apps *)
(* (api/v1beta1/app_webhook.go) and the reconciler that keeps a Deployment *)
(* and, as the App's switches say, a Service and an Ingress for each of    *)
(* them (controllers/app_controller.go).                                   *)
(*                                                                         *)
(* The manager runs one worker, which reads through the manager's cache    *)
(* and writes to the API server.  Dependents carry the App's namespace and *)
(* name, so that one set of keys serves all kinds.  Changes of Apps, and   *)
(* of dependents that have an App as controller, put the App on the queue. *)
(* What else the templates put into a dependent (image, replicas) is left  *)
(* out: Reconcile never compares it.                                       *)
(***************************************************************************)
EXTENDS Naturals, Sequences

CONSTANTS Apps,    \* keys namespace/name
          None,    \* no object, no item
          Nobody,  \* the owner of a dependent that no App controls
          Bounds,  \* how often each kind of disturbance may happen: alternatives
          MaxLag   \* bound: the deltas under way about an object

\* What the environment does a bounded number of times: users changing Apps,
\* others creating and deleting dependents, failing reads and API calls, lost
\* watches, crashes.
Disturbances == {"user", "others", "fault", "relist", "crash"}

ASSUME ReconcilerAssumption ==
    /\ None \notin Apps
    /\ Nobody \notin Nat
    /\ Bounds \subseteq [Disturbances -> Nat]
    /\ MaxLag \in Nat \ {0}

\* The order in which Reconcile treats the dependents.
Dependents == <<"Deployment", "Service", "Ingress">>

Kinds == {"App", "Deployment", "Service", "Ingress"}

AppSpecs == [service : BOOLEAN, ingress : BOOLEAN]
AppObjects == [uid : Nat, spec : AppSpecs]
DependentObjects == [owner : Nat \cup {Nobody}]

ASSUME NoneIsNoObject == None \notin AppObjects \cup DependentObjects

VARIABLES
    \* API server and the manager's cache
    store, listed, initial, cache, pend, queued, ghosts,
    nextUid,  \* the uid of the next App
    notes,    \* Apps the event handlers have yet to put on the queue
    \* work queue of the one worker, and the back-offs that are running
    dirty, holding, shuttingDown, waiting,
    \* Reconcile: program counter and locals
    pc, local,
    \* history: Apps of whose dependents something happened unnoticed
    unnoticed,
    left      \* disturbances left

informers == <<store, listed, initial, cache, pend, queued, ghosts>>
items == <<dirty, holding, shuttingDown>>
thread == <<pc, local>>
vars == <<informers, nextUid, notes, items, waiting, thread, unnoticed, left>>

\* MaxConcurrentReconciles is 1.
Worker == "worker"

Q == INSTANCE ItemQueue WITH Items <- Apps, Workers <- {Worker}, NoItem <- None

KeysOf == [kind \in Kinds |-> Apps]
ObjectsOf == [kind \in Kinds |-> IF kind = "App" THEN AppObjects
                                                 ELSE DependentObjects]

\* The handlers take a deletion that a list has shown for any other.
I == INSTANCE Informers WITH Keys <- KeysOf, Objects <- ObjectsOf,
                             Tombstone <- None

NoLocals == [app |-> None, next |-> 1, verb |-> None]

Init ==
    /\ I!InformersInit
    /\ nextUid = 0
    /\ notes = {}
    /\ Q!ItemInit
    /\ waiting = {}
    /\ pc = "Get"
    /\ local = NoLocals
    /\ unnoticed = {}
    /\ left \in Bounds

Spend(d) ==
    /\ left[d] > 0
    /\ left' = [left EXCEPT ![d] = @ - 1]

-----------------------------------------------------------------------------
(* Definitions marked "Fault" are plausible mistakes in the definition that *)
(* follows them; nothing uses them but the experiments that show that the  *)
(* properties can fail (listed in the README).                             *)

(* The API server: webhook, users, garbage collector.                      *)

\* The mutating webhook, on every create and update.
Default(spec) == [spec EXCEPT !.ingress = ~@]

\* The validating webhook, which sees what the mutating one has made of it.
Valid(spec) == ~(~spec.service /\ spec.ingress)

UserWrite(d, kind, a, obj) ==
    /\ Spend(d)
    /\ I!Write(kind, a, obj)
    /\ UNCHANGED <<notes, items, waiting, thread>>

\* A user creates or changes an App; the webhook may refuse it.
WriteApp(a, spec) ==
    /\ Valid(Default(spec))
    /\ LET app == store["App"][a]
           uid == IF app = None THEN nextUid ELSE app.uid IN
       /\ UserWrite("user", "App", a, [uid |-> uid, spec |-> Default(spec)])
       /\ nextUid' = IF app = None THEN nextUid + 1 ELSE nextUid
    /\ UNCHANGED unnoticed

\* ValidateDelete allows everything.
DeleteApp(a) ==
    /\ store["App"][a] # None
    /\ UserWrite("user", "App", a, None)
    /\ UNCHANGED <<nextUid, unnoticed>>

\* Somebody else creates an object under the App's name: what becomes of it
\* makes no event for the App.
CreateForeign(kind, a) ==
    /\ store[kind][a] = None
    /\ UserWrite("others", kind, a, [owner |-> Nobody])
    /\ unnoticed' = unnoticed \cup {a}
    /\ UNCHANGED nextUid

DeleteDependent(kind, a) ==
    /\ store[kind][a] # None
    /\ UserWrite("others", kind, a, None)
    /\ UNCHANGED <<nextUid, unnoticed>>

Alive(uid, a) == store["App"][a] # None /\ store["App"][a].uid = uid

\* The controller of the object is an App that is gone.
Orphan(kind, a) ==
    /\ store[kind][a] # None
    /\ store[kind][a].owner # Nobody
    /\ ~Alive(store[kind][a].owner, a)

GarbageCollect(kind, a) ==
    /\ Orphan(kind, a)
    /\ I!Write(kind, a, None)
    /\ UNCHANGED <<nextUid, notes, items, waiting, thread, unnoticed, left>>

-----------------------------------------------------------------------------
(* The manager's informers and what SetupWithManager makes them enqueue.   *)

Controlled(obj) == obj # None /\ obj.owner # Nobody

\* Fault: the owner is looked for in the new state of an object only.
EnqueuedByNew(kind, a, obj) ==
    /\ cache[kind][a] # obj
    /\ kind = "App" \/ Controlled(obj)

\* For(App): every change of an App.  Owns(...): changes of dependents whose old
\* or new state has an App as controller, deletions that were missed included.
Enqueued(kind, a, obj) ==
    /\ cache[kind][a] # obj
    /\ kind = "App" \/ Controlled(cache[kind][a]) \/ Controlled(obj)

\* A delta that leaves the cached state as it is, in all that is modelled: an
\* update of something else, or a list's, about which no handler is called.
Unchanged(kind, a, obj) == obj # None /\ cache[kind][a] = obj

\* Fault: deletions of Apps do not reach the cache.
DeliverNoDeletion(kind, a) ==
    /\ pend[kind][a] # <<>>
    /\ IF kind = "App" /\ Head(pend[kind][a]) = None
       THEN /\ pend' = [pend EXCEPT ![kind][a] = Tail(@)]
            /\ queued' = [queued EXCEPT ![kind][a] = 0]
            /\ UNCHANGED <<store, listed, initial, cache, ghosts>>
       ELSE I!ProcessDelta(kind, a)
    /\ notes' = IF Enqueued(kind, a, Head(pend[kind][a])) THEN notes \cup {a}
                                                         ELSE notes
    /\ UNCHANGED <<nextUid, items, waiting, thread, unnoticed, left>>

\* A delta is applied to the cache and then announced.
Deliver(kind, a) ==
    /\ I!ProcessDelta(kind, a)
    /\ LET obj == Head(pend[kind][a]) IN
       \/ notes' = IF Enqueued(kind, a, obj) THEN notes \cup {a} ELSE notes
       \/ Unchanged(kind, a, obj) /\ notes' = notes \cup {a}
    /\ UNCHANGED <<nextUid, items, waiting, thread, unnoticed, left>>

\* Dependents of which the list drops events, without showing anything of them:
\* they came, and perhaps went, while the watch was lost.
Dropped(kind) ==
    {a \in Apps : /\ kind # "App"
                  /\ cache[kind][a] = None /\ store[kind][a] = None
                  /\ pend'[kind][a] # pend[kind][a]}

\* At the start, and again when a watch was lost.
List(kind) ==
    /\ \/ kind \notin listed /\ UNCHANGED left
       \/ kind \in listed /\ Spend("relist")
    /\ I!Replace(kind)
    /\ unnoticed' = unnoticed \cup Dropped(kind)
    /\ UNCHANGED <<nextUid, notes, items, waiting, thread>>

\* The manager's resync: every 10 h, as main sets no SyncPeriod.
Resync ==
    /\ notes' = notes \cup {a \in Apps : cache["App"][a] # None}
    /\ notes' # notes
    /\ UNCHANGED <<informers, nextUid, items, waiting, thread, unnoticed, left>>

Enqueue(a) ==
    /\ a \in notes
    /\ Q!Add(a)
    /\ notes' = notes \ {a}
    /\ UNCHANGED <<informers, nextUid, waiting, thread, unnoticed, left>>

AddAfterBackoff(a) ==
    /\ a \in waiting
    /\ waiting' = waiting \ {a}
    /\ Q!Add(a)
    /\ UNCHANGED <<informers, nextUid, notes, thread, unnoticed, left>>

-----------------------------------------------------------------------------
(* Reconcile.                                                              *)

\* The manager starts the worker when its caches have synced.
Get(a) ==
    /\ I!Synced
    /\ Q!Take(Worker, a)
    /\ pc' = "app"
    /\ UNCHANGED <<informers, nextUid, notes, waiting, local, unnoticed, left>>

app == local.app
key == holding[Worker]
kindAt == Dependents[local.next]

\* Reconcile returns nil.
Succeed ==
    /\ pc' = "Done"
    /\ UNCHANGED waiting

\* Reconcile returns an error: the key is put back after a back-off.
Fail ==
    /\ pc' = "Done"
    /\ waiting' = waiting \cup {key}

\* The App is read; one that is not found is no error.
GetApp ==
    /\ pc = "app"
    /\ local' = [local EXCEPT !.app = cache["App"][key]]
    /\ \/ cache["App"][key] = None /\ Succeed
       \/ cache["App"][key] # None /\ pc' = "read" /\ UNCHANGED waiting
    /\ UNCHANGED <<informers, nextUid, notes, items, unnoticed, left>>

\* The read fails in another way: the error is returned.
GetAppFails ==
    /\ pc = "app"
    /\ Spend("fault")
    /\ Fail
    /\ UNCHANGED <<informers, nextUid, notes, items, local, unnoticed>>

\* The App's switch for a kind of dependent; there is none for Deployments.
Wanted(spec, kind) ==
    CASE kind = "Deployment" -> TRUE
      [] kind = "Service" -> spec.service
      [] kind = "Ingress" -> spec.ingress

\* Fault: it goes on after the last one.
ProceedPastEnd ==
    /\ local' = [local EXCEPT !.next = @ + 1, !.verb = None]
    /\ IF kindAt = "Ingress" \/ (kindAt = "Service" /\ ~app.spec.service)
       THEN Succeed
       ELSE pc' = "read" /\ UNCHANGED waiting

\* The dependent is done with: Reconcile goes on to the next one, but returns
\* after the Service if that is switched off.
Proceed ==
    /\ local' = [local EXCEPT !.next = IF @ = 3 THEN 3 ELSE @ + 1, !.verb = None]
    /\ IF kindAt = "Ingress" \/ (kindAt = "Service" /\ ~app.spec.service)
       THEN Succeed
       ELSE pc' = "read" /\ UNCHANGED waiting

Call(verb) ==
    /\ pc' = "call"
    /\ local' = [local EXCEPT !.verb = verb]
    /\ UNCHANGED waiting

\* Fault: a dependent that is not wanted stays.
ReadKeepsAll ==
    /\ pc = "read"
    /\ IF cache[kindAt][key] = None /\ Wanted(app.spec, kindAt)
       THEN Call("Create") ELSE Proceed
    /\ UNCHANGED <<informers, nextUid, notes, items, unnoticed, left>>

\* The dependent is looked up: one that is missing is created if it is wanted,
\* one that is there, whoever made it, is deleted if it is not wanted.
Read ==
    /\ pc = "read"
    /\ LET found == cache[kindAt][key] # None
           wanted == Wanted(app.spec, kindAt) IN
       \/ ~found /\ wanted /\ Call("Create")
       \/ found /\ ~wanted /\ Call("Delete")
       \/ found = wanted /\ Proceed
    /\ UNCHANGED <<informers, nextUid, notes, items, unnoticed, left>>

\* The look-up fails: a Deployment is updated at a venture; for the others it is
\* an error, but only if they are wanted.
ReadFails ==
    /\ pc = "read"
    /\ Spend("fault")
    /\ \/ kindAt = "Deployment" /\ Call("Update") /\ UNCHANGED unnoticed
       \/ /\ kindAt # "Deployment" /\ Wanted(app.spec, kindAt)
          /\ Fail
          /\ UNCHANGED <<local, unnoticed>>
       \/ /\ kindAt # "Deployment" /\ ~Wanted(app.spec, kindAt)
          /\ Proceed
          /\ unnoticed' = unnoticed \cup {key}
    /\ UNCHANGED <<informers, nextUid, notes, items>>

\* What the call writes: SetControllerReference names the App that was read.
Written == IF local.verb = "Delete" THEN None ELSE [owner |-> app.uid]

\* The API server accepts the call, ...
Accepted == (store[kindAt][key] = None) <=> (local.verb = "Create")

CallSucceeds ==
    /\ pc = "call"
    /\ Accepted
    /\ I!Write(kindAt, key, Written)
    /\ Proceed
    /\ UNCHANGED <<nextUid, notes, items, unnoticed, left>>

\* ... refuses it (AlreadyExists, NotFound), ...
CallRefused ==
    /\ pc = "call"
    /\ ~Accepted
    /\ Fail
    /\ UNCHANGED <<informers, nextUid, notes, items, local, unnoticed, left>>

\* ... or reports another error, having done it or not.
CallFails ==
    /\ pc = "call"
    /\ Spend("fault")
    /\ \/ UNCHANGED informers
       \/ Accepted /\ I!Write(kindAt, key, Written)
    /\ Fail
    /\ UNCHANGED <<nextUid, notes, items, local, unnoticed>>

Done ==
    /\ pc = "Done"
    /\ Q!Done(Worker)
    /\ pc' = "Get"
    /\ local' = NoLocals
    /\ UNCHANGED <<informers, nextUid, notes, waiting, unnoticed, left>>

\* The process ends, stopped or not, and is started again.
Restart ==
    /\ Spend("crash")
    /\ I!LoseInformers
    /\ notes' = {}
    /\ dirty' = {}
    /\ holding' = [w \in {Worker} |-> None]
    /\ waiting' = {}
    /\ pc' = "Get"
    /\ local' = NoLocals
    /\ UNCHANGED <<nextUid, shuttingDown, unnoticed>>

-----------------------------------------------------------------------------
ReconcileStep ==
    GetApp \/ Read \/ CallSucceeds \/ CallRefused \/ Done

Others(a) ==
    \E kind \in Kinds \ {"App"} : CreateForeign(kind, a) \/ DeleteDependent(kind, a)

Next ==
    \/ \E a \in Apps :
         \/ \E spec \in AppSpecs : WriteApp(a, spec)
         \/ DeleteApp(a) \/ Others(a)
         \/ \E kind \in Kinds \ {"App"} : GarbageCollect(kind, a)
         \/ Enqueue(a) \/ AddAfterBackoff(a) \/ Get(a)
    \/ \E kind \in Kinds : List(kind) \/ \E a \in Apps : Deliver(kind, a)
    \/ Resync \/ ReconcileStep \/ Restart
    \/ GetAppFails \/ ReadFails \/ CallFails

Safety == Init /\ [][Next]_vars

\* As in AppController.
Fairness ==
    /\ \A a \in Apps :
         /\ SF_vars(Get(a))
         /\ WF_vars(Enqueue(a)) /\ WF_vars(AddAfterBackoff(a))
         /\ \A kind \in Kinds \ {"App"} : WF_vars(GarbageCollect(kind, a))
    /\ \A kind \in Kinds :
         /\ WF_vars(kind \notin listed /\ List(kind))
         /\ \A a \in Apps : WF_vars(Deliver(kind, a))
    /\ WF_vars(Resync) /\ WF_vars(ReconcileStep)

Spec == Safety /\ Fairness

-----------------------------------------------------------------------------
(* Properties.                                                             *)

TypeOK ==
    /\ I!TypeOK
    /\ nextUid \in Nat
    /\ notes \subseteq Apps /\ dirty \subseteq Apps /\ waiting \subseteq Apps
    /\ holding \in [{Worker} -> Apps \cup {None}]
    /\ shuttingDown = FALSE
    /\ pc \in {"Get", "app", "read", "call", "Done"}
    /\ local \in [app : AppObjects \cup {None}, next : 1 .. 3,
                  verb : {"Create", "Update", "Delete", None}]
    /\ unnoticed \subseteq Apps
    /\ left \in [Disturbances -> Nat]

\* The dependents are what the App asks for.  Of the Ingress nothing is said
\* when the Service is off: Reconcile does not look at it then.
Conforms(a, kind) ==
    LET obj == store[kind][a] IN
    /\ obj # None <=> Wanted(store["App"][a].spec, kind)
    /\ obj # None => obj.owner \in {store["App"][a].uid, Nobody}

Settled(a) ==
    /\ Conforms(a, "Deployment")
    /\ Conforms(a, "Service")
    /\ store["App"][a].spec.service => Conforms(a, "Ingress")

\* Nothing is under way for a: no delta, no key, no call, no orphan.
Quiet(a) ==
    /\ I!Synced
    /\ \A kind \in Kinds : ~I!Pending(kind, a)
    /\ a \notin notes \cup dirty \cup waiting
    /\ key # a
    /\ \A kind \in Kinds \ {"App"} : ~Orphan(kind, a)

\* The handlers that SetupWithManager asks for and the retries suffice: when
\* nothing is under way for an App its dependents are what it asks for, without
\* a resync, through stale reads, failed calls, lost watches and restarts.  Left
\* aside are Apps under whose name others created an object or whose dependents
\* came and went during a lost watch, neither of which makes an event, and Apps
\* for which a failed read was passed over.
QuietMeansSettled ==
    \A a \in Apps :
        store["App"][a] # None /\ Quiet(a) /\ a \notin unnoticed => Settled(a)

\* A Reconcile of a that will read what is cached by then is still to begin.
Ahead(a) == a \in notes \cup dirty \cup waiting

\* Apps one of whose dependents is gone and will be cached for ever are among
\* those left aside.
GhostsAreUnnoticed == \A kind \in Kinds \ {"App"} : ghosts[kind] \subseteq unnoticed

\* Objects of Apps that are not left aside have an owner, here and on their way.
OwnersKnown ==
    \A a \in Apps \ unnoticed, kind \in Kinds \ {"App"} :
        /\ store[kind][a] = None \/ Controlled(store[kind][a])
        /\ cache[kind][a] = None \/ Controlled(cache[kind][a])
        /\ \A i \in 1 .. Len(pend[kind][a]) :
             pend[kind][a][i] = None \/ Controlled(pend[kind][a][i])

\* Where the worker is, and what it knows there.  It starts informed: the Apps
\* that are cached have all been put on its queue.
WorkerState ==
    /\ pc = "Get" <=> key = None
    /\ pc \in {"Get", "app"} => local = NoLocals
    /\ pc \in {"read", "call"} => app # None
    /\ pc = "call" => (local.verb = "Delete" <=> ~Wanted(app.spec, kindAt))
    /\ ~I!Synced =>
         /\ pc = "Get"
         /\ \A a \in Apps : cache["App"][a] # None => Ahead(a)

\* A dependent that the cached App asks for is cached, or a change of it will be;
\* of one that it does not ask for what is cached is gone.
Served(a, kind) ==
    IF Wanted(cache["App"][a].spec, kind)
    THEN cache[kind][a] # None \/ I!News(kind, a)
    ELSE cache[kind][a] = None \/ store[kind][a] = None

\* While no other Reconcile of an App is to begin, the one that is under way is
\* of the App as it is cached, and it leaves the dependents behind it served.
ReadsAreServed(a) ==
    cache["App"][a] # None /\ ~Ahead(a) =>
        /\ key # a \/ pc = "Done" =>
             /\ Served(a, "Deployment") /\ Served(a, "Service")
             /\ cache["App"][a].spec.service => Served(a, "Ingress")
        /\ key = a /\ pc \in {"read", "call"} =>
             /\ app = cache["App"][a]
             /\ \A i \in 1 .. local.next - 1 : Served(a, Dependents[i])

\* The inductive invariant behind the theorems of AppReconcilerProofs.
IInv ==
    /\ TypeOK
    /\ I!CacheTrails
    /\ GhostsAreUnnoticed
    /\ OwnersKnown
    /\ WorkerState
    /\ \A a \in Apps \ unnoticed : ReadsAreServed(a)

\* The cache shows a dependent of a that is gone, and will not notice.
Misled(a) == \E kind \in Kinds \ {"App"} : a \in ghosts[kind]

\* With resyncs every App settles once its users and others have calmed down,
\* unless a list has overlooked that a dependent is gone.
Settles ==
    <>[](\A a \in Apps : store["App"][a] # None /\ ~Misled(a) => Settled(a))

\* What belonged to a deleted App goes away for good, though a worker that has
\* the App from a stale cache may still create it, unless a list has overlooked
\* the deletion.
OrphansVanish ==
    <>[](\A a \in Apps, kind \in Kinds \ {"App"} :
            Orphan(kind, a) =>
                a \in ghosts["App"] /\ I!Final("App", a).uid = store[kind][a].owner)
=============================================================================
