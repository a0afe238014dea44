-------------------------- MODULE ServiceController --------------------------
(***************************************************************************)
(* The service controller (serviceController/pkg/controller.go): for every *)
(* Service annotated ingress/http: "true" it creates an Ingress of the     *)
(* same name, and it deletes the Ingress of a Service without annotation.  *)
(*                                                                         *)
(* As in AppController, users, failing API calls, lost watches and crashes *)
(* surround the workers.  What differs: the informers never resync, there  *)
(* are handlers for Service additions and updates and for Ingress          *)
(* deletions, failed keys are retried a bounded number of times, and the   *)
(* work queue is never shut down (main closes stopCh nowhere).             *)
(*                                                                         *)
(* The garbage collector does not appear: createIngress makes an owner     *)
(* reference to the kind Service of networking.k8s.io/v1, and there is no  *)
(* such kind whose objects it could find gone.                             *)
(***************************************************************************)
EXTENDS Naturals, Sequences

CONSTANTS Services,  \* keys namespace/name, of Services and of Ingresses
          Workers,
          MaxRetry,  \* the constant maxRetry: 10 in the code
          None,      \* no object, no item
          Tombstone, \* a deletion that only a list has shown
          Bounds,    \* how often each kind of disturbance may happen: alternatives
          MaxLag     \* bound: the deltas under way about an object

Kinds == {"Service", "Ingress"}

\* What the environment does a bounded number of times: users changing
\* Services, users creating and deleting Ingresses, failing API calls, lost
\* watches, crashes.
Disturbances == {"user", "ingress", "fault", "relist", "crash"}

ASSUME ServiceAssumption ==
    /\ Workers # {}
    /\ {None, Tombstone} \cap Services = {}
    /\ Tombstone # None
    /\ MaxRetry \in Nat
    /\ Bounds \subseteq [Disturbances -> Nat]
    /\ MaxLag \in Nat \ {0}

\* The kinds that owner references name: the one createIngress writes, the one
\* deleteIngress looks for, and one of some other controller.
OwnerKinds == {"Service", "service", "other"}

ServiceObjects == [version : Nat, annotated : BOOLEAN]
IngressObjects == [ownerKind : OwnerKinds]

ASSUME NoneIsNoObject == {None, Tombstone} \cap (ServiceObjects \cup IngressObjects) = {}

VARIABLES
    \* API server and informers
    store, listed, initial, cache, pend, queued, ghosts,
    nextVersion,  \* resourceVersion of the next Service write
    notes,        \* handler calls to come: keys they put on the queue, or
                  \* Tombstone, which deleteIngress is given
    \* work queue and rate limiter
    dirty, holding, shuttingDown,
    waiting,      \* keys whose back-off (AddRateLimited) is running
    failures,     \* failures[key]: what NumRequeues returns
    \* workers: program counter and the service read by syncService
    pc, local,
    \* history: the Service version last handled, and last given up
    handled, givenUp,
    gone,         \* keys of which an Ingress was deleted
    panicked,     \* an event handler has panicked
    left          \* disturbances left

informers == <<store, listed, initial, cache, pend, queued, ghosts>>
items == <<dirty, holding, shuttingDown>>
limiter == <<waiting, failures>>
threads == <<pc, local>>
history == <<handled, givenUp, gone, panicked>>
vars ==
    <<informers, nextVersion, notes, items, limiter, threads, history, left>>

Q == INSTANCE ItemQueue WITH Items <- Services, NoItem <- None

KeysOf == [kind \in Kinds |-> Services]
ObjectsOf == [Service |-> ServiceObjects, Ingress |-> IngressObjects]

I == INSTANCE Informers WITH Keys <- KeysOf, Objects <- ObjectsOf

Init ==
    /\ I!InformersInit
    /\ nextVersion = 1
    /\ notes = {}
    /\ Q!ItemInit
    /\ waiting = {}
    /\ failures = [s \in Services |-> 0]
    /\ pc = [w \in Workers |-> "Get"]
    /\ local = [w \in Workers |-> None]
    /\ handled = [s \in Services |-> None]
    /\ givenUp = [s \in Services |-> None]
    /\ gone = {}
    /\ panicked = FALSE
    /\ left \in Bounds

Spend(d) ==
    /\ left[d] > 0
    /\ left' = [left EXCEPT ![d] = @ - 1]

-----------------------------------------------------------------------------
(* Definitions marked "Fault" are plausible mistakes in the definition that *)
(* follows them; nothing uses them but the experiments that show that the  *)
(* properties can fail (listed in the README).                             *)

(* Users.                                                                  *)

UserWrite(d, kind, s, obj) ==
    /\ Spend(d)
    /\ I!Write(kind, s, obj)
    /\ UNCHANGED <<notes, items, limiter, threads, handled, givenUp, panicked>>

\* A Service is created, or changed: its annotation and perhaps other fields.
WriteService(s, annotated) ==
    /\ UserWrite("user", "Service", s,
                 [version |-> nextVersion, annotated |-> annotated])
    /\ nextVersion' = nextVersion + 1
    /\ UNCHANGED gone

DeleteService(s) ==
    /\ store["Service"][s] # None
    /\ UserWrite("user", "Service", s, None)
    /\ UNCHANGED <<nextVersion, gone>>

\* Somebody else creates, or deletes, an Ingress.
CreateForeign(s) ==
    /\ store["Ingress"][s] = None
    /\ UserWrite("ingress", "Ingress", s, [ownerKind |-> "other"])
    /\ UNCHANGED gone
    /\ UNCHANGED nextVersion

DeleteForeign(s) ==
    /\ store["Ingress"][s] # None
    /\ UserWrite("ingress", "Ingress", s, None)
    /\ gone' = gone \cup {s}
    /\ UNCHANGED nextVersion

-----------------------------------------------------------------------------
(* The informers and the event handlers.                                   *)

\* Fault: only AddFunc is registered.
AdditionsOnly(s, obj) == obj # None /\ cache["Service"][s] = None

\* addService and updateService, which returns when old and new are equal,
\* put the key on the queue; there is no handler for deletions.
ServiceHandler(s, obj) == obj # None /\ cache["Service"][s] # obj

\* deleteIngress puts the key on the queue if the controller of the Ingress is
\* of the kind "service".
IngressHandler(s, obj) ==
    /\ obj = None
    /\ cache["Ingress"][s] # None
    /\ cache["Ingress"][s].ownerKind = "service"

\* The handler calls that a delta brings: deleteIngress asserts that it is given
\* an Ingress, and is not prepared for the tombstone of a deletion whose event
\* was lost.
Calls(kind, s, delta) ==
    {call \in {s, Tombstone} :
        \/ call = s /\ kind = "Service" /\ ServiceHandler(s, I!Applied(delta))
        \/ call = s /\ kind = "Ingress" /\ IngressHandler(s, delta)
        \/ call = Tombstone /\ kind = "Ingress" /\ delta = Tombstone}

\* The informer applies a delta; then it notifies the handler.
Deliver(kind, s) ==
    /\ I!ProcessDelta(kind, s)
    /\ notes' = notes \cup Calls(kind, s, Head(pend[kind][s]))
    /\ UNCHANGED <<nextVersion, items, limiter, threads, history, left>>

\* The reflector lists a kind, at start and again when a watch was lost.
List(kind) ==
    /\ \/ kind \notin listed /\ UNCHANGED left
       \/ kind \in listed /\ Spend("relist")
    /\ I!Replace(kind)
    /\ UNCHANGED <<nextVersion, notes, items, limiter, threads, history>>

\* What a process loses when it ends.
LoseProcess ==
    /\ I!LoseInformers
    /\ notes' = {}
    /\ dirty' = {}
    /\ holding' = [w \in Workers |-> None]
    /\ shuttingDown' = FALSE
    /\ waiting' = {}
    /\ failures' = [s \in Services |-> 0]
    /\ pc' = [w \in Workers |-> "Get"]
    /\ local' = [w \in Workers |-> None]
    /\ UNCHANGED <<nextVersion, handled, givenUp, gone>>

\* The panic of deleteIngress ends the process; it is started again.
Panic ==
    /\ Tombstone \in notes
    /\ LoseProcess
    /\ panicked' = TRUE
    /\ UNCHANGED left

\* The process ends in another way and is started again.
Crash ==
    /\ Spend("crash")
    /\ LoseProcess
    /\ UNCHANGED panicked

\* The handlers call enqueue, or queue.Add.
Enqueue(s) ==
    /\ s \in notes
    /\ Q!Add(s)
    /\ notes' = notes \ {s}
    /\ UNCHANGED <<informers, nextVersion, limiter, threads, history, left>>

\* A back-off ends: the delaying queue adds the key to the work queue.
AddAfterBackoff(s) ==
    /\ s \in waiting
    /\ waiting' = waiting \ {s}
    /\ Q!Add(s)
    /\ UNCHANGED <<informers, nextVersion, notes, failures, threads, history,
                   left>>

-----------------------------------------------------------------------------
(* The workers.                                                            *)

\* Workers start after WaitForCacheSync.
Get(w, s) ==
    /\ I!Synced
    /\ pc[w] = "Get"
    /\ Q!Take(w, s)
    /\ pc' = [pc EXCEPT ![w] = "service"]
    /\ UNCHANGED <<informers, nextVersion, notes, limiter, local, history,
                   left>>

Goto(w, l) == pc' = [pc EXCEPT ![w] = l]

\* syncService returns nil: the work queue is not told (no Forget).
Succeed(w, service) ==
    /\ Goto(w, "Done")
    /\ handled' = [handled EXCEPT ![holding[w]] = service]
    /\ UNCHANGED <<limiter, givenUp>>

\* Fault: one retry too many.
MayRetryTooOften(w) == failures[holding[w]] <= MaxRetry + 1

\* handlerError compares NumRequeues with maxRetry.
MayRetry(w) == failures[holding[w]] <= MaxRetry

\* syncService returns an error: handlerError puts the key into the rate
\* limiter, or gives it up once it has been put there too often.
Fail(w) ==
    /\ Goto(w, "Done")
    /\ \/ /\ MayRetry(w)
          /\ failures' = [failures EXCEPT ![holding[w]] = @ + 1]
          /\ waiting' = waiting \cup {holding[w]}
          /\ UNCHANGED givenUp
       \/ /\ ~MayRetry(w)
          /\ failures' = [failures EXCEPT ![holding[w]] = 0]
          /\ givenUp' = [givenUp EXCEPT ![holding[w]] = local[w]]
          /\ UNCHANGED waiting
    /\ UNCHANGED handled

\* syncService reads the Service from its lister.
GetService(w) ==
    /\ pc[w] = "service"
    /\ LET service == cache["Service"][holding[w]] IN
       /\ local' = [local EXCEPT ![w] = service]
       /\ \/ service = None /\ Succeed(w, None)
          \/ /\ service # None
             /\ Goto(w, "ingress")
             /\ UNCHANGED <<limiter, handled, givenUp>>
    /\ UNCHANGED <<informers, nextVersion, notes, items, gone, panicked, left>>

\* Fault: the conditions of creation and deletion are swapped.
GetIngressSwapped(w) ==
    /\ pc[w] = "ingress"
    /\ LET exists == cache["Ingress"][holding[w]] # None IN
       IF local[w].annotated = exists
       THEN /\ Goto(w, IF exists THEN "delete" ELSE "create")
            /\ UNCHANGED <<limiter, handled, givenUp>>
       ELSE Succeed(w, local[w])
    /\ UNCHANGED <<informers, nextVersion, notes, items, local, gone, panicked,
                   left>>

\* It reads the Ingress from its lister and decides what to do.
GetIngress(w) ==
    /\ pc[w] = "ingress"
    /\ LET exists == cache["Ingress"][holding[w]] # None IN
       \/ /\ local[w].annotated /\ ~exists
          /\ Goto(w, "create")
          /\ UNCHANGED <<limiter, handled, givenUp>>
       \/ /\ ~local[w].annotated /\ exists
          /\ Goto(w, "delete")
          /\ UNCHANGED <<limiter, handled, givenUp>>
       \/ /\ local[w].annotated = exists
          /\ Succeed(w, local[w])
    /\ UNCHANGED <<informers, nextVersion, notes, items, local, gone, panicked,
                   left>>

\* Create and Delete succeed, ...
Create(w) ==
    /\ pc[w] = "create"
    /\ store["Ingress"][holding[w]] = None
    /\ I!Write("Ingress", holding[w], [ownerKind |-> "Service"])
    /\ Succeed(w, local[w])
    /\ UNCHANGED <<nextVersion, notes, items, local, gone, panicked, left>>

Delete(w) ==
    /\ pc[w] = "delete"
    /\ store["Ingress"][holding[w]] # None
    /\ I!Write("Ingress", holding[w], None)
    /\ Succeed(w, local[w])
    /\ gone' = gone \cup {holding[w]}
    /\ UNCHANGED <<nextVersion, notes, items, local, panicked, left>>

\* ... are refused, because the Ingress exists or is gone, ...
Refused(w) ==
    /\ \/ pc[w] = "create" /\ store["Ingress"][holding[w]] # None
       \/ pc[w] = "delete" /\ store["Ingress"][holding[w]] = None
    /\ Fail(w)
    /\ UNCHANGED <<informers, nextVersion, notes, items, local, gone, panicked,
                   left>>

\* ... or report another error, having done their work or not.
CallFails(w) ==
    /\ pc[w] \in {"create", "delete"}
    /\ Spend("fault")
    /\ \/ UNCHANGED <<informers, gone>>
       \/ /\ pc[w] = "create"
          /\ store["Ingress"][holding[w]] = None
          /\ I!Write("Ingress", holding[w], [ownerKind |-> "Service"])
          /\ UNCHANGED gone
       \/ /\ pc[w] = "delete"
          /\ store["Ingress"][holding[w]] # None
          /\ I!Write("Ingress", holding[w], None)
          /\ gone' = gone \cup {holding[w]}
    /\ Fail(w)
    /\ UNCHANGED <<nextVersion, notes, items, local, panicked>>

\* The deferred Done.
Done(w) ==
    /\ pc[w] = "Done"
    /\ Q!Done(w)
    /\ Goto(w, "Get")
    /\ local' = [local EXCEPT ![w] = None]
    /\ UNCHANGED <<informers, nextVersion, notes, limiter, history, left>>

-----------------------------------------------------------------------------
SyncStep(w) ==
    \/ GetService(w) \/ GetIngress(w) \/ Done(w)
    \/ Create(w) \/ Delete(w) \/ Refused(w)

User(s) ==
    \/ \E annotated \in BOOLEAN : WriteService(s, annotated)
    \/ DeleteService(s) \/ CreateForeign(s) \/ DeleteForeign(s)

Next ==
    \/ \E s \in Services : User(s) \/ Enqueue(s) \/ AddAfterBackoff(s)
    \/ \E kind \in Kinds : List(kind) \/ \E s \in Services : Deliver(kind, s)
    \/ Panic \/ Crash
    \/ \E w \in Workers :
         SyncStep(w) \/ CallFails(w) \/ \E s \in Services : Get(w, s)

Safety == Init /\ [][Next]_vars

\* As in AppController, but for resyncs and the garbage collector.
Fairness ==
    /\ \A s \in Services :
         /\ SF_vars(\E w \in Workers : Get(w, s))
         /\ WF_vars(Enqueue(s)) /\ WF_vars(AddAfterBackoff(s))
    /\ \A w \in Workers : WF_vars(SyncStep(w))
    /\ \A kind \in Kinds :
         /\ WF_vars(kind \notin listed /\ List(kind))
         /\ \A s \in Services : WF_vars(Deliver(kind, s))
    /\ WF_vars(Panic)

Spec == Safety /\ Fairness

-----------------------------------------------------------------------------
(* Properties.                                                             *)

TypeOK ==
    /\ I!TypeOK
    /\ nextVersion \in Nat
    /\ notes \subseteq Services \cup {Tombstone}
    /\ dirty \subseteq Services
    /\ holding \in [Workers -> Services \cup {None}]
    /\ shuttingDown = FALSE
    /\ waiting \subseteq Services
    /\ failures \in [Services -> 0 .. MaxRetry + 1]
    /\ pc \in [Workers ->
                 {"Get", "service", "ingress", "create", "delete", "Done"}]
    /\ local \in [Workers -> ServiceObjects \cup {None}]
    /\ handled \in [Services -> ServiceObjects \cup {None}]
    /\ givenUp \in [Services -> ServiceObjects \cup {None}]
    /\ gone \subseteq Services
    /\ panicked \in BOOLEAN
    /\ left \in [Disturbances -> Nat]

\* A sync of s that will read what is cached by then is still to begin.
Ahead(s) == s \in notes \cup dirty \cup waiting

\* Such a sync is still to begin, or one of that very version is under way.
Underway(s, service) ==
    \/ Ahead(s)
    \/ \E w \in Workers :
         /\ holding[w] = s
         /\ \/ pc[w] = "service"
            \/ pc[w] # "Done" /\ local[w] = service

\* Something is still going to make a worker sync the current version of s.
WorkOutstanding(s) ==
    \/ "Service" \notin listed
    \/ I!News("Service", s)
    \/ Underway(s, store["Service"][s])

\* No version of a Service is forgotten: unless syncService has returned nil
\* for it, or handlerError has given it up, it is on its way to a worker,
\* through lost watches too.  There is no resync to make up for a version that
\* is dropped.
NoServiceForgotten ==
    \A s \in Services :
        LET service == store["Service"][s] IN
        service # None /\ handled[s] # service /\ givenUp[s] # service
            => WorkOutstanding(s)

\* Who holds a key is working on it.
WorkerState == \A w \in Workers : pc[w] = "Get" <=> holding[w] = None

\* A sync of a version of a Service that is not the cached one any more will be
\* followed by another one, ...
StaleSyncIsFollowed ==
    \A w \in Workers :
        /\ pc[w] \in {"ingress", "create", "delete"}
        /\ cache["Service"][holding[w]] \notin {None, local[w]}
        => Ahead(holding[w])

\* ... and a Service that is cached was handled or given up as it is, or is about
\* to be.
CachedServiceIsServed ==
    \A s \in Services :
        LET service == cache["Service"][s] IN
        service \notin {None, handled[s], givenUp[s]} => Underway(s, service)

\* The inductive invariant behind the theorems of ServiceControllerProofs.
IInv ==
    /\ TypeOK
    /\ WorkerState
    /\ I!CacheTrails
    /\ StaleSyncIsFollowed
    /\ CachedServiceIsServed

Wanted(s) == store["Service"][s] # None /\ store["Service"][s].annotated

\* Readme.md, rules 1 and 3, as far as the code keeps them: a Service created
\* with the annotation, or given it later, gets its Ingress, through faults,
\* lost watches and crashes, unless it was given up or an Ingress of that name
\* was deleted before.
IngressCreated ==
    <>[](\A s \in Services :
            Wanted(s) /\ s \notin gone /\ givenUp[s] # store["Service"][s]
                => store["Ingress"][s] # None)

\* Readme.md, rule 3, as it stands: when a Service with the annotation is
\* updated and there is no Ingress, one is created.
IngressConverges ==
    <>[](\A s \in Services :
            Wanted(s) /\ givenUp[s] # store["Service"][s]
                => store["Ingress"][s] # None)

\* Deletion handlers are prepared for DeletedFinalStateUnknown, as
\* ResourceEventHandler asks (tools/cache/controller.go).
NoPanic == ~panicked
=============================================================================
