----------------------------- MODULE AppInformer -----------------------------
(***************************************************************************)
(* The generated client of Apps (pkg/generated/clientset) and the informer *)
(* and lister built on it (pkg/generated/informers, listers) with the      *)
(* parts of client-go behind them: Reflector, DeltaFIFO, processDeltas.    *)
(*                                                                         *)
(* The API server is a log of writes; a resource version is a position in  *)
(* it.  An App is a counter n, which every change increments, and its      *)
(* resource version.  Calls that are refused and leave everything as it is *)
(* have no action.                                                         *)
(***************************************************************************)
EXTENDS Naturals, Sequences, FiniteSets, SequencesExt

CONSTANTS Keys,      \* namespace/name
          None,
          Bounds     \* how often each kind of disturbance may happen: alternatives

\* Writes, answers from an API server that is behind, lost watches, crashes.
Disturbances == {"write", "stale", "lost", "crash"}

ASSUME InformerAssumption ==
    /\ IsFiniteSet(Keys)
    /\ Bounds \subseteq [Disturbances -> Nat]

VARIABLES
    log,                    \* the API server: a sequence of [key, obj]
    held,                   \* the client's App: its key and what it has read
    \* Reflector
    watching, lastSync, unavailable,
    \* DeltaFIFO
    items, queue, populated, initial,
    cache,                  \* the indexer
    \* history: changes the server has accepted since a key was created, what
    \* the cache of a key takes into account, the position of the first list,
    \* and keys whose deletion no list can show
    changes, moment, firstList, ghosts,
    left                    \* disturbances left

reflector == <<watching, lastSync, unavailable>>
fifo == <<items, queue, populated, initial>>
history == <<changes, moment, firstList, ghosts>>
informer == <<reflector, fifo, cache, moment, firstList, ghosts>>
vars == <<log, held, reflector, fifo, cache, history, left>>

Apps == [n : Nat, rv : Nat \ {0}]

\* None stands for an object that is not there, and for an empty hand.
ASSUME NoneIsNoApp == None \notin Apps \cup [key : Keys, obj : Apps]

\* A write leaves an object, or None: it was deleted.
Writes == [key : Keys, obj : Apps \cup {None}]

\* A delta carries the object, None for a deletion, and for the history the
\* position at which the server showed it.
Deltas == [obj : Apps \cup {None}, at : Nat]

R == INSTANCE Replica WITH copy <- cache

Stored(k) == R!StoredAt(k, Len(log))

Init ==
    /\ log = <<>>
    /\ held = None
    /\ watching = FALSE /\ lastSync = 0 /\ unavailable = FALSE
    /\ items = [k \in Keys |-> <<>>]
    /\ queue = <<>>
    /\ populated = FALSE /\ initial = 0
    /\ cache = [k \in Keys |-> None]
    /\ changes = [k \in Keys |-> 0]
    /\ moment = [k \in Keys |-> 0]
    /\ firstList = 0
    /\ ghosts = {}
    /\ left \in Bounds

Spend(d, n) ==
    /\ left[d] >= n
    /\ left' = [left EXCEPT ![d] = @ - n]

-----------------------------------------------------------------------------
(* Definitions marked "Fault" are plausible mistakes in the definition that *)
(* follows them; nothing uses them but the experiments that show that the  *)
(* properties can fail (listed in the README).                             *)

(* The typed client.                                                       *)

\* The server accepts a write to k that leaves it with the counter n.
Put(k, n) ==
    /\ Spend("write", 1)
    /\ LET obj == [n |-> n, rv |-> Len(log) + 1] IN
       /\ log' = Append(log, [key |-> k, obj |-> obj])
       /\ held' = [key |-> k, obj |-> obj]
    /\ UNCHANGED informer

Count(k) == changes' = [changes EXCEPT ![k] = @ + 1]

Create(k) ==
    /\ Stored(k) = None
    /\ Put(k, 0)
    /\ changes' = [changes EXCEPT ![k] = 0]

Read(k, obj) ==
    /\ obj # None
    /\ held' = [key |-> k, obj |-> obj]
    /\ UNCHANGED <<log, informer, changes, left>>

Get(k) == Read(k, Stored(k))

\* List answers, like Get, with what is stored.
ListApps == \E k \in Keys : Get(k)

Refused ==
    /\ held' = None
    /\ UNCHANGED <<log, informer, changes, left>>

\* Fault: the App is sent without its resource version.
UpdateUnversioned ==
    /\ held # None
    /\ IF Stored(held.key) # None
       THEN Put(held.key, held.obj.n + 1) /\ Count(held.key)
       ELSE Refused

\* The whole App is sent, with the resource version it was read at: the server
\* refuses it if the App is gone or has another resource version.
Update ==
    /\ held # None
    /\ IF Stored(held.key) # None /\ Stored(held.key).rv = held.obj.rv
       THEN Put(held.key, held.obj.n + 1) /\ Count(held.key)
       ELSE Refused

\* The CRD has no status subresource: NotFound.
UpdateStatus == held # None /\ Refused

\* The server applies a patch to whatever is stored.
Patch(k) ==
    /\ Stored(k) # None
    /\ Put(k, Stored(k).n + 1)
    /\ Count(k)

Erase(gone) ==
    /\ gone # {}
    /\ \A k \in gone : Stored(k) # None
    /\ LET keys == SetToSeq(gone) IN
       log' = log \o [i \in DOMAIN keys |-> [key |-> keys[i], obj |-> None]]
    /\ Spend("write", Cardinality(gone))
    /\ UNCHANGED <<held, informer, changes>>

Delete(k) == Erase({k})

DeleteCollection == Erase({k \in Keys : Stored(k) # None})

-----------------------------------------------------------------------------
(* DeltaFIFO.                                                              *)

\* Fault: deltas are never combined.
DedupNothing(deltas) == deltas

\* dedupDeltas: of two deletions in a row one is kept.
Dedup(deltas) ==
    LET n == Len(deltas) IN
    IF n >= 2 /\ deltas[n].obj = None /\ deltas[n - 1].obj = None
    THEN Append(SubSeq(deltas, 1, n - 2), deltas[n])
    ELSE deltas

\* queueActionLocked for every key that has a delta in new, in any fixed order.
Queue(new) ==
    LET fresh == SetToSeq({k \in DOMAIN new : items[k] = <<>>}) IN
    /\ items' = [k \in Keys |-> IF k \in DOMAIN new
                                THEN Dedup(Append(items[k], new[k]))
                                ELSE items[k]]
    /\ queue' = queue \o fresh

\* Fault: a deletion counts only if the object is in the cache already.
IgnoredUncached(k, obj) == obj = None /\ cache[k] = None

\* Delete ignores an object that is neither in the cache nor on its way.
Ignored(k, obj) == obj = None /\ cache[k] = None /\ items[k] = <<>>

\* Fault: the first list is not counted.
PopulateUncounted(n) ==
    /\ populated' = TRUE
    /\ firstList' = IF populated THEN firstList ELSE lastSync'
    /\ UNCHANGED initial

\* Replace remembers how many keys the first list has queued.
Populate(n) ==
    /\ populated' = TRUE
    /\ initial' = IF populated THEN initial ELSE n
    /\ firstList' = IF populated THEN firstList ELSE lastSync'

\* The objects that go with a list: those that the cache has and the list has
\* not.  What is only queued is not looked at.
DeletedBy(listed) == {k \in Keys \ listed : cache[k] # None}

\* Not listed, not cached, but about to be added to the cache.
Overlooked(listed) ==
    {k \in Keys \ listed : /\ cache[k] = None
                           /\ items[k] # <<>> /\ Last(items[k]).obj # None}

HasSynced == populated /\ initial = 0

-----------------------------------------------------------------------------
(* Reflector.                                                              *)

\* List and syncWith: the server shows the state at v.
SyncWith(v) ==
    LET listed == {k \in Keys : R!StoredAt(k, v) # None}
        gone == DeletedBy(listed) IN
    /\ lastSync' = v
    /\ watching' = TRUE
    /\ unavailable' = FALSE
    /\ Queue([k \in listed \cup gone |-> [obj |-> R!StoredAt(k, v), at |-> v]])
    /\ Populate(Cardinality(listed \cup gone))
    /\ ghosts' = (ghosts \ (listed \cup gone)) \cup Overlooked(listed)
    /\ UNCHANGED <<log, held, cache, changes, moment>>

List == ~watching /\ SyncWith(Len(log)) /\ UNCHANGED left

\* Fault: every list asks for resource version 0.
ListBehindAny(v) ==
    /\ ~watching
    /\ ~unavailable
    /\ Spend("stale", 1)
    /\ SyncWith(v)

\* An API server that is behind answers: with what it has, if that is not older
\* than what the reflector has seen, ...
ListBehind(v) ==
    /\ ~watching
    /\ ~unavailable
    /\ v >= lastSync
    /\ Spend("stale", 1)
    /\ SyncWith(v)

\* ... otherwise with an error, after which the reflector insists on the latest.
ListTooLarge ==
    /\ ~watching
    /\ ~unavailable
    /\ lastSync > 0
    /\ Spend("stale", 1)
    /\ unavailable' = TRUE
    /\ UNCHANGED <<log, held, watching, lastSync, fifo, cache, history>>

\* The next event of the watch, Added, Modified or Deleted.
WatchEvent ==
    /\ watching
    /\ lastSync < Len(log)
    /\ lastSync' = lastSync + 1
    /\ LET e == log[lastSync'] IN
       /\ IF Ignored(e.key, e.obj) THEN UNCHANGED <<items, queue>>
          ELSE Queue([k \in {e.key} |-> [obj |-> e.obj, at |-> lastSync']])
       /\ ghosts' = ghosts \ {e.key}
    /\ populated' = TRUE
    /\ UNCHANGED <<log, held, watching, unavailable, initial, cache, changes,
                   moment, firstList, left>>

\* The watch ends with an error (410 Gone, a lost connection): list again.
WatchEnds ==
    /\ watching
    /\ Spend("lost", 1)
    /\ watching' = FALSE
    /\ UNCHANGED <<log, held, lastSync, unavailable, fifo, cache, history>>

\* What Resync queues for k.
AsCached(k) == [obj |-> cache[k], at |-> moment[k]]

\* Fault: also what has a newer version on its way is queued.
ResyncAll ==
    /\ watching
    /\ Queue([k \in {k \in Keys : cache[k] # None} |-> AsCached(k)])
    /\ UNCHANGED <<log, held, reflector, populated, initial, cache, history, left>>

\* Every 30 s: what is cached is queued, unless something newer is on its way.
Resync ==
    /\ watching
    /\ Queue([k \in {k \in Keys : cache[k] # None /\ items[k] = <<>>} |->
                AsCached(k)])
    /\ UNCHANGED <<log, held, reflector, populated, initial, cache, history, left>>

-----------------------------------------------------------------------------
(* The informer.                                                           *)

\* Fault: the first list is counted beyond its end.
CountDownOn == initial' = initial + 1

CountDown == initial' = IF initial > 0 THEN initial - 1 ELSE 0

\* Pop: HandleDeltas applies all deltas of the first key to the cache, under the
\* lock, and tells the handlers (AddFunc and UpdateFunc enqueue the App).
Pop ==
    /\ queue # <<>>
    /\ LET k == Head(queue) IN
       /\ cache' = [cache EXCEPT ![k] = Last(items[k]).obj]
       /\ moment' = [moment EXCEPT ![k] = Last(items[k]).at]
       /\ items' = [items EXCEPT ![k] = <<>>]
    /\ queue' = Tail(queue)
    /\ CountDown
    /\ UNCHANGED <<log, held, reflector, populated, changes, firstList, ghosts, left>>

\* Get and List of the lister, in a process whose caches have synced.
ListerGet(k) == HasSynced /\ Read(k, cache[k])

Restart ==
    /\ Spend("crash", 1)
    /\ held' = None
    /\ watching' = FALSE /\ lastSync' = 0 /\ unavailable' = FALSE
    /\ items' = [k \in Keys |-> <<>>]
    /\ queue' = <<>>
    /\ populated' = FALSE /\ initial' = 0
    /\ cache' = [k \in Keys |-> None]
    /\ moment' = [k \in Keys |-> 0]
    /\ firstList' = 0
    /\ ghosts' = {}
    /\ UNCHANGED <<log, changes>>

-----------------------------------------------------------------------------
Client ==
    \/ \E k \in Keys : Create(k) \/ Patch(k) \/ Delete(k) \/ ListerGet(k)
    \/ ListApps \/ Update \/ UpdateStatus \/ DeleteCollection

Next ==
    \/ Client
    \/ List \/ ListTooLarge
    \/ \E v \in 0 .. Len(log) : ListBehind(v)
    \/ WatchEvent \/ WatchEnds \/ Resync \/ Pop \/ Restart

Safety == Init /\ [][Next]_vars

\* The reflector's and the informer's goroutines run, and the server answers.
Fairness == WF_vars(List) /\ WF_vars(WatchEvent) /\ WF_vars(Pop)

Spec == Safety /\ Fairness

-----------------------------------------------------------------------------
(* Properties.                                                             *)

TypeOK ==
    /\ log \in Seq(Writes)
    /\ held \in [key : Keys, obj : Apps] \cup {None}
    /\ watching \in BOOLEAN /\ unavailable \in BOOLEAN /\ populated \in BOOLEAN
    /\ lastSync \in 0 .. Len(log)
    /\ items \in [Keys -> Seq(Deltas)]
    /\ queue \in Seq(Keys)
    /\ \A k \in Keys : items[k] # <<>> <=> k \in ToSet(queue)
    /\ IsInjective(queue)
    /\ initial \in 0 .. Len(queue)
    /\ cache \in [Keys -> Apps \cup {None}]
    /\ changes \in [Keys -> Nat] /\ moment \in [Keys -> Nat]
    /\ firstList \in Nat
    /\ ghosts \subseteq Keys
    /\ left \in [Disturbances -> Nat]

\* A resource version names one write, and what a client holds was read there.
VersionsIdentify ==
    /\ \A i \in 1 .. Len(log) : log[i].obj # None => log[i].obj.rv = i
    /\ held # None =>
         held.obj.rv \in 1 .. Len(log) /\ log[held.obj.rv] = held

\* The cache shows of each key a moment that the reflector has seen, and the last
\* delta queued for a key shows a later one, or the same.
CacheIsPast ==
    \A k \in Keys :
        /\ moment[k] <= lastSync
        /\ cache[k] = R!StoredAt(k, moment[k])
        /\ items[k] # <<>> =>
             /\ Last(items[k]).at \in moment[k] .. lastSync
             /\ Last(items[k]).obj = R!StoredAt(k, Last(items[k]).at)

\* What the first list showed is cached or among the keys still to be counted.
ListUnderWay ==
    /\ ~populated => queue = <<>> /\ ~watching /\ initial = 0
    /\ firstList <= lastSync
    /\ populated =>
         /\ \A i \in 1 .. initial : Last(items[queue[i]]).at >= firstList
         /\ \A k \in Keys :
              \/ moment[k] >= firstList
              \/ R!StoredAt(k, firstList) = None
              \/ \E i \in 1 .. initial : queue[i] = k

\* What the cache will show of k when everything queued is applied.
Latest(k) == IF items[k] = <<>> THEN cache[k] ELSE Last(items[k]).obj

\* Cache and queued deltas together are the server's state at the reflector's
\* resource version, so that a watch may go on from there: across lists that
\* come late, lost watches and resyncs no change falls between the two.  Left
\* aside are keys that came and went while a watch was lost and their addition
\* was queued: DeltaFIFO's Replace looks for deletions in the cache only.
FifoTracksLog ==
    \A k \in Keys \ ghosts : Latest(k) = R!StoredAt(k, lastSync)

\* A handler is told of a deletion only if it was told of the object: two lost
\* watches before a Pop do not delete twice, nor what was never cached.
DeletionsArePaired ==
    \A k \in Keys : \A i \in 1 .. Len(items[k]) :
        items[k][i].obj = None =>
            IF i = 1 THEN cache[k] # None ELSE items[k][i - 1].obj # None

\* When HasSynced lets the workers start, the cache has taken in the whole first
\* list, not only the keys that came first.
SyncedMeansListed ==
    HasSynced => \A k \in Keys :
        moment[k] >= firstList \/ R!StoredAt(k, firstList) = None

\* No update is lost: the App counts every change the server has accepted, though
\* clients change what they have read from a cache that trails, or a deleted
\* App's successor is there under its name.
NoLostUpdate ==
    \A k \in Keys : Stored(k) # None => Stored(k).n = changes[k]

\* The inductive invariant behind the theorems of AppInformerProofs.
IInv ==
    /\ TypeOK
    /\ VersionsIdentify
    /\ CacheIsPast
    /\ ListUnderWay
    /\ FifoTracksLog
    /\ DeletionsArePaired
    /\ NoLostUpdate

\* The cache is a replica: within a process no key goes back in time.
RefinesReplica == R!ReplicaSpec

\* In the end the cache shows what is stored, without a resync and after lists
\* that came late and lost watches, but for keys that a list has overlooked.
CatchesUp == <>[](\A k \in Keys \ ghosts : cache[k] = Stored(k))

\* SharedInformer's comment makes no exception (shared_informer.go:82-86): "if
\* the local cache ever holds a non-absent state for some object ID and the object
\* is eventually removed from the authoritative state then eventually the object
\* is removed from the local cache".
EventuallyRemoved == \A k \in Keys : []<>(Stored(k) # None \/ cache[k] = None)
=============================================================================
