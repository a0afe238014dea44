------------------------------ MODULE Informers ------------------------------
(***************************************************************************)
(* What the controllers see of the API server: for each kind of object a   *)
(* store at the server and an informer (client-go tools/cache) with a      *)
(* cache that trails the store by the deltas still under way.  The         *)
(* reflector lists a kind when the informer starts and again when a watch  *)
(* was lost; in between it receives the events of the watch.               *)
(*                                                                         *)
(* DeltaFIFO is popped key by key, and there is "no promise about ordering *)
(* between states seen for different objects" (shared_informer.go:71), so  *)
(* that each name has a sequence of its own.  It starts with the deltas    *)
(* that DeltaFIFO holds and goes on with the events the reflector has not  *)
(* received; where the one ends and the other begins is decided when a     *)
(* watch turns out to be lost, which is all that it matters for.           *)
(*                                                                         *)
(* The module offers these steps as operators; the controller modules make *)
(* them part of their actions and say which event handlers they notify.    *)
(*                                                                         *)
(* The definition marked "Fault" is a plausible mistake in the one that    *)
(* follows it; nothing uses it but an experiment (see the README).         *)
(***************************************************************************)
EXTENDS Naturals, Sequences

CONSTANTS Kinds,     \* kinds of objects
          Keys,      \* Keys[kind]: their names
          Objects,   \* Objects[kind]: the objects that may be stored
          None,      \* no object; as a delta, a deletion the watch has shown
          Tombstone, \* as a delta, a deletion that only a list has shown
                     \* (DeletedFinalStateUnknown); None where nobody asks
          MaxLag     \* bound: the deltas under way about a name, at a write
                     \* or a list

VARIABLES store,   \* store[kind][name]: the stored object, or None
          listed,  \* kinds whose reflector has listed
          initial, \* initial[kind]: names its first list has queued, not popped
          cache,   \* cache[kind][name]: the indexer, read through listers
          pend,    \* pend[kind][name]: deltas and events not yet applied to it
          queued,  \* queued[kind][name]: how many of them DeltaFIFO is known
                   \* to hold
          ghosts   \* history: names whose deletion no list can show

informerVars == <<store, listed, initial, cache, pend, queued, ghosts>>

Deltas(kind) == Objects[kind] \cup {None, Tombstone}

\* processDeltas: what a delta leaves in the indexer.
Applied(delta) == IF delta = Tombstone THEN None ELSE delta

Newest(deltas) == deltas[Len(deltas)]

InformersInit ==
    /\ store = [kind \in Kinds |-> [n \in Keys[kind] |-> None]]
    /\ listed = {}
    /\ initial = [kind \in Kinds |-> {}]
    /\ cache = [kind \in Kinds |-> [n \in Keys[kind] |-> None]]
    /\ pend = [kind \in Kinds |-> [n \in Keys[kind] |-> <<>>]]
    /\ queued = [kind \in Kinds |-> [n \in Keys[kind] |-> 0]]
    /\ ghosts = [kind \in Kinds |-> {}]

\* The server stores obj, or deletes the object if obj is None, and sends an
\* event.
Write(kind, n, obj) ==
    /\ Len(pend[kind][n]) < MaxLag
    /\ store' = [store EXCEPT ![kind][n] = obj]
    /\ pend' = IF kind \in listed
               THEN [pend EXCEPT ![kind][n] = Append(@, obj)] ELSE pend
    /\ ghosts' = [ghosts EXCEPT ![kind] = @ \ {n}]
    /\ UNCHANGED <<listed, initial, cache, queued>>

\* dedupDeltas: a deletion after another adds nothing.
Bury(deltas) ==
    IF deltas # <<>> /\ Applied(Newest(deltas)) = None THEN deltas
    ELSE Append(deltas, Tombstone)

\* Fault: Replace does not look for deletions.
RelistedWithoutDeletions(kind, n, deltas) ==
    IF store[kind][n] # None THEN Append(deltas, store[kind][n]) ELSE deltas

\* What Replace makes of the deltas of a name: it queues the object that was
\* listed, or a deletion of one that was not, if the indexer has it.
Relisted(kind, n, deltas) ==
    IF store[kind][n] # None THEN Append(deltas, store[kind][n])
    ELSE IF cache[kind][n] # None THEN Bury(deltas)
    ELSE deltas

\* Of an object that is only queued Replace does not see that it is gone: it is
\* going to be cached, and stay there.
Overlooked(kind, n, deltas) ==
    /\ store[kind][n] = None
    /\ cache[kind][n] = None
    /\ deltas # <<>>
    /\ Applied(Newest(deltas)) # None

\* The reflector lists the kind.  Of each name's events it has received the
\* first few, which are queued; the list takes the place of the others.
Replace(kind) ==
    \E received \in [Keys[kind] -> 0 .. MaxLag] :
        LET kept == [n \in Keys[kind] |-> SubSeq(pend[kind][n], 1, received[n])]
            deltas == [n \in Keys[kind] |-> Relisted(kind, n, kept[n])] IN
        /\ \A n \in Keys[kind] :
             /\ Len(pend[kind][n]) <= MaxLag
             /\ received[n] \in queued[kind][n] .. Len(pend[kind][n])
        /\ pend' = [pend EXCEPT ![kind] = deltas]
        /\ queued' = [queued EXCEPT ![kind] =
                         [n \in Keys[kind] |-> Len(deltas[n])]]
        /\ ghosts' = [ghosts EXCEPT ![kind] =
                         {n \in Keys[kind] : Overlooked(kind, n, kept[n])}]
        /\ listed' = listed \cup {kind}
        /\ initial' = IF kind \in listed THEN initial
                      ELSE [initial EXCEPT ![kind] =
                               {n \in Keys[kind] : store[kind][n] # None}]
        /\ UNCHANGED <<store, cache>>

\* The informer applies the next delta of a name to the cache, before it
\* notifies any handler.  A name is popped with all that is queued of it.
ProcessDelta(kind, n) ==
    /\ pend[kind][n] # <<>>
    /\ cache' = [cache EXCEPT ![kind][n] = Applied(Head(pend[kind][n]))]
    /\ pend' = [pend EXCEPT ![kind][n] = Tail(@)]
    /\ queued' = [queued EXCEPT ![kind][n] = IF @ = 0 THEN 0 ELSE @ - 1]
    /\ initial' = IF queued[kind][n] > 1 THEN initial
                  ELSE [initial EXCEPT ![kind] = @ \ {n}]
    /\ UNCHANGED <<store, listed, ghosts>>

\* WaitForCacheSync: all informers have listed and popped what the list brought.
Synced == listed = Kinds /\ \A kind \in Kinds : initial[kind] = {}

\* The process ends: the server keeps its objects, the caches are lost.
LoseInformers ==
    /\ listed' = {}
    /\ initial' = [kind \in Kinds |-> {}]
    /\ cache' = [kind \in Kinds |-> [n \in Keys[kind] |-> None]]
    /\ pend' = [kind \in Kinds |-> [n \in Keys[kind] |-> <<>>]]
    /\ queued' = [kind \in Kinds |-> [n \in Keys[kind] |-> 0]]
    /\ ghosts' = [kind \in Kinds |-> {}]
    /\ UNCHANGED store

-----------------------------------------------------------------------------
TypeOK ==
    /\ listed \subseteq Kinds
    /\ DOMAIN store = Kinds /\ DOMAIN initial = Kinds /\ DOMAIN cache = Kinds
    /\ DOMAIN pend = Kinds /\ DOMAIN queued = Kinds /\ DOMAIN ghosts = Kinds
    /\ \A kind \in Kinds :
         /\ store[kind] \in [Keys[kind] -> Objects[kind] \cup {None}]
         /\ initial[kind] \subseteq Keys[kind]
         /\ cache[kind] \in [Keys[kind] -> Objects[kind] \cup {None}]
         /\ pend[kind] \in [Keys[kind] -> Seq(Deltas(kind))]
         /\ queued[kind] \in [Keys[kind] -> Nat]
         /\ ghosts[kind] \subseteq Keys[kind]
         /\ kind \notin listed => \A n \in Keys[kind] : pend[kind][n] = <<>>

\* What the cache will hold of n when all that is under way is applied.
Final(kind, n) ==
    IF pend[kind][n] = <<>> THEN cache[kind][n]
                            ELSE Applied(Newest(pend[kind][n]))

\* The cache trails the store: when all that is under way is applied, it holds
\* what is stored.  Only of objects that are gone some may remain: those whose
\* deletion a list could not show.
CacheTrails ==
    \A kind \in listed : \A n \in Keys[kind] :
        \/ Final(kind, n) = store[kind][n]
        \/ n \in ghosts[kind] /\ store[kind][n] = None

\* A delta under way about n will change what is cached.
News(kind, n) ==
    \E i \in 1 .. Len(pend[kind][n]) : Applied(pend[kind][n][i]) # cache[kind][n]

\* Something is under way about n.
Pending(kind, n) == pend[kind][n] # <<>>
=============================================================================
