----------------------------- MODULE FakeClient -----------------------------
(***************************************************************************)
(* The fake client of operator-crd's Foos (pkg/client/clientset/versioned/ *)
(* fake) with the object tracker behind it, an informer and a lister that  *)
(* work on it, and the generated deep copies on which all of them rely to  *)
(* keep their objects apart.                                               *)
(*                                                                         *)
(* Memory is modelled where it can be shared.  A Foo is its Spec.Replicas, *)
(* a pointer to a cell of the heap or nil; it stands for whatever a plain  *)
(* assignment of the struct would share.  The remaining fields, and the    *)
(* actions that the fake records, are left out.                            *)
(***************************************************************************)
EXTENDS Naturals, Sequences, FiniteSets, SequencesExt

CONSTANTS Keys,      \* namespace/name
          Cells,     \* bound: the addresses there are
          Values,    \* numbers of replicas
          Nil,       \* the pointer to nothing, and what is read there
          None,      \* no object
          MaxWrites  \* bound: the writes the tracker accepts

ASSUME FakeAssumption ==
    /\ None \notin Cells \cup Values \cup {Nil}
    /\ Nil \notin Cells \cup Values
    /\ Cells \subseteq Nat /\ IsFiniteSet(Cells) /\ IsFiniteSet(Keys)
    /\ MaxWrites \in Nat

VARIABLES
    heap,      \* the cells in use and what they hold
    tracker,   \* the tracker's objects
    phase,     \* the reflector: to list, to watch, watching
    events,    \* the fake watcher's channel
    cache,     \* the indexer
    mine,      \* a Foo the client owns and changes
    borrowed,  \* a Foo that the client only reads
    \* history: the values written, what the cache takes into account, and keys
    \* written between the list and the watch
    log, moment, missed

vars == <<heap, tracker, phase, events, cache, mine, borrowed, log, moment, missed>>

Foos == Cells \cup {Nil}

\* What the program can still reach.
Live ==
    (({tracker[k] : k \in Keys} \cup {cache[k] : k \in Keys}
      \cup {events[i].foo : i \in DOMAIN events} \cup {mine, borrowed})
     \ {None, Nil})

\* The heap with the cells of h that stay in use.
Keep(h) == heap' = [c \in Live' |-> h[c]]

\* The value of a Foo.
Value(foo) == IF foo \in {None, Nil} THEN foo ELSE heap[foo]

\* There are n cells for a step that may need them.
Room(n) == Cardinality(Cells \ Live) >= n

\* The i-th of the cells not in use; a step that makes n Foos takes the first n.
Fresh(i) ==
    LET free == Cells \ Live IN
    CHOOSE c \in free : Cardinality({d \in free : d <= c}) = i

\* The heap after the first cells not in use have got the values of vs.
Allocate(vs) ==
    [c \in Live \cup {Fresh(i) : i \in DOMAIN vs} |->
        IF c \in Live THEN heap[c]
        ELSE vs[CHOOSE i \in DOMAIN vs : Fresh(i) = c]]

\* Fault: *out = *in, and no more.
ShallowCopy(foo, i) == foo

\* Fault: the pointer is followed without a look whether it is nil.
DeepCopyOfNil(foo, i) == IF foo = None THEN foo ELSE Fresh(i)

\* DeepCopy puts the copy into the i-th fresh cell; nil stays nil.
DeepCopy(foo, i) == IF foo \in {None, Nil} THEN foo ELSE Fresh(i)

\* FooList's DeepCopy copies each item; at is where a key's copy goes.
ListCopy(foos, at) == [k \in DOMAIN foos |-> DeepCopy(foos[k], at[k])]

Init ==
    /\ heap = <<>>
    /\ tracker = [k \in Keys |-> None]
    /\ phase = "list"
    /\ events = <<>>
    /\ cache = [k \in Keys |-> None]
    /\ mine = None /\ borrowed = None
    /\ log = <<>>
    /\ moment = [k \in Keys |-> 0]
    /\ missed = {}

-----------------------------------------------------------------------------
(* Definitions marked "Fault" are plausible mistakes in the definition that *)
(* follows them; nothing uses them but the experiments that show that the  *)
(* properties can fail (listed in the README).                             *)

(* The tracker.                                                            *)

\* Fault: objects that are new are not announced.
AnnounceKnown(k, foo) ==
    /\ events' = IF phase = "watching" /\ tracker[k] # None
                 THEN Append(events, [key |-> k, foo |-> foo, at |-> Len(log) + 1])
                 ELSE events
    /\ missed' = CASE phase = "watch" -> missed \cup {k}
                   [] phase = "watching" -> missed \ {k}
                   [] OTHER -> missed

\* The write is announced to the watchers there are; there is no history, so that
\* one that comes later never hears of it.
Announce(k, foo) ==
    /\ events' = IF phase = "watching"
                 THEN Append(events, [key |-> k, foo |-> foo, at |-> Len(log) + 1])
                 ELSE events
    /\ missed' = CASE phase = "watch" -> missed \cup {k}
                   [] phase = "watching" -> missed \ {k}
                   [] OTHER -> missed

Record(k, value) ==
    /\ Len(log) < MaxWrites
    /\ log' = Append(log, [key |-> k, obj |-> value])
    /\ UNCHANGED <<phase, cache, borrowed, moment>>

\* Fault: what is stored is the caller's object.
StoreUncopied(k, foo) ==
    /\ tracker' = [tracker EXCEPT ![k] = foo]
    /\ Announce(k, DeepCopy(foo, 2))
    /\ mine' \in {mine, DeepCopy(foo, 3)}

\* Fault: the watcher is handed the stored object itself.
StoreAnnounced(k, foo) ==
    /\ tracker' = [tracker EXCEPT ![k] = DeepCopy(foo, 1)]
    /\ Announce(k, DeepCopy(foo, 1))
    /\ mine' \in {mine, DeepCopy(foo, 3)}

\* add stores a copy, hands each watcher one, and the fake answers with one that
\* Get makes; the client goes on with that or with its own.
Store(k, foo) ==
    /\ tracker' = [tracker EXCEPT ![k] = DeepCopy(foo, 1)]
    /\ Announce(k, DeepCopy(foo, 2))
    /\ mine' \in {mine, DeepCopy(foo, 3)}

Thrice(v) == Allocate(<<v, v, v>>)

-----------------------------------------------------------------------------
(* The fake's calls.  Those it refuses (AlreadyExists, NotFound) change     *)
(* nothing, nor does DeleteCollection: no reaction handles it, and it       *)
(* reports success.                                                        *)

Write(k, foo) ==
    /\ Room(3)
    /\ Record(k, Value(foo))
    /\ Store(k, foo)
    /\ Keep(Thrice(Value(foo)))

Create(k) == mine # None /\ tracker[k] = None /\ Write(k, mine)

\* Update and UpdateStatus.  Neither the resource version nor the subresource is
\* looked at: the last one to write wins, and replaces the whole object.
Update(k) == mine # None /\ tracker[k] # None /\ Write(k, mine)

\* What a step that makes Foos of v puts in the place of the i-th.
Made(v, i) == IF v = Nil THEN Nil ELSE Fresh(i)

\* The patch is applied to a copy, which is stored as an update is.  It sets the
\* number of replicas, clears it, or leaves it for other fields.
Patch(k, v) ==
    /\ tracker[k] # None /\ Room(3)
    /\ Record(k, v)
    /\ tracker' = [tracker EXCEPT ![k] = Made(v, 1)]
    /\ Announce(k, Made(v, 2))
    /\ mine' = Made(v, 3)
    /\ Keep(Thrice(v))

\* Watchers get a copy of what was deleted; its key is all that is used.
Delete(k) ==
    /\ tracker[k] # None
    /\ Record(k, None)
    /\ tracker' = [tracker EXCEPT ![k] = None]
    /\ Announce(k, None)
    /\ UNCHANGED mine
    /\ Keep(heap)

\* The client reads, to look at the object or to change it.
Hold(foo, v) ==
    /\ Room(1)
    /\ \/ mine' = foo /\ UNCHANGED borrowed
       \/ borrowed' = foo /\ UNCHANGED mine
    /\ UNCHANGED <<tracker, phase, events, cache, log, moment, missed>>
    /\ Keep(Allocate(<<v>>))

Get(k) == tracker[k] # None /\ Hold(DeepCopy(tracker[k], 1), Value(tracker[k]))

-----------------------------------------------------------------------------
(* The client's own objects.                                               *)

MakeFoo(v) ==
    /\ Room(1)
    /\ mine' = Made(v, 1)
    /\ UNCHANGED <<tracker, phase, events, cache, borrowed, log, moment, missed>>
    /\ Keep(Allocate(<<v>>))

\* *mine.Spec.Replicas = v
Change(v) ==
    /\ mine \in Cells
    /\ UNCHANGED <<tracker, phase, events, cache, mine, borrowed, log, moment, missed>>
    /\ heap' = [heap EXCEPT ![mine] = v]

\* newObj := foo.DeepCopy(), to be changed afterwards.
CopyBorrowed ==
    /\ borrowed # None /\ Room(1)
    /\ mine' = DeepCopy(borrowed, 1)
    /\ UNCHANGED <<tracker, phase, events, cache, borrowed, log, moment, missed>>
    /\ Keep(Allocate(<<Value(borrowed)>>))

\* The lister's Get, and List of which the client looks at one object, return the
\* cache's own objects, to be read only.
ListerGet(k) ==
    /\ cache[k] # None
    /\ borrowed' = cache[k]
    /\ UNCHANGED <<tracker, phase, events, cache, mine, log, moment, missed>>
    /\ Keep(heap)

-----------------------------------------------------------------------------
(* The informer.                                                           *)

\* ListFunc: the list is a copy and goes into the cache.
List ==
    /\ phase = "list" /\ Room(Cardinality(Keys))
    /\ phase' = "watch"
    /\ moment' = [k \in Keys |-> Len(log)]
    /\ UNCHANGED <<tracker, events, mine, borrowed, log, missed>>
    /\ LET keys == SetToSeq(Keys) IN
       /\ cache' = ListCopy(tracker, [k \in Keys |-> CHOOSE i \in DOMAIN keys : keys[i] = k])
       /\ Keep(Allocate([i \in DOMAIN keys |-> Value(tracker[keys[i]])]))

\* WatchFunc: the resource version is ignored.
Watch ==
    /\ phase = "watch"
    /\ phase' = "watching"
    /\ UNCHANGED <<heap, tracker, events, cache, mine, borrowed, log, moment, missed>>

\* An event's object becomes the cache's.
Deliver ==
    /\ events # <<>>
    /\ LET e == Head(events) IN
       /\ cache' = [cache EXCEPT ![e.key] = e.foo]
       /\ moment' = [moment EXCEPT ![e.key] = e.at]
    /\ events' = Tail(events)
    /\ UNCHANGED <<tracker, phase, mine, borrowed, log, missed>>
    /\ Keep(heap)

-----------------------------------------------------------------------------
Next ==
    \/ \E k \in Keys :
         \/ Create(k) \/ Update(k) \/ Delete(k)
         \/ Get(k) \/ ListerGet(k)
         \/ \E v \in Values \cup {Nil} : Patch(k, v)
    \/ \E v \in Values \cup {Nil} : MakeFoo(v)
    \/ \E v \in Values : Change(v)
    \/ CopyBorrowed
    \/ List \/ Watch \/ Deliver

Safety == Init /\ [][Next]_vars

\* The informer's goroutines run.
Spec == Safety /\ WF_vars(List) /\ WF_vars(Watch) /\ WF_vars(Deliver)

-----------------------------------------------------------------------------
(* Properties.                                                             *)

TypeOK ==
    /\ heap \in [Live -> Values]
    /\ tracker \in [Keys -> Foos \cup {None}]
    /\ cache \in [Keys -> Foos \cup {None}]
    /\ phase \in {"list", "watch", "watching"}
    /\ events \in Seq([key : Keys, foo : Foos \cup {None}, at : 1 .. Len(log)])
    /\ mine \in Foos \cup {None} /\ borrowed \in Foos \cup {None}
    /\ moment \in [Keys -> 0 .. Len(log)]
    /\ missed \subseteq Keys
    /\ log \in Seq([key : Keys, obj : Values \cup {Nil, None}])

\* Who may change what is in a cell.
Owners(c) ==
    {<<"tracker", k>> : k \in {k \in Keys : tracker[k] = c}}
    \cup {<<"event", i>> : i \in {i \in DOMAIN events : events[i].foo = c}}
    \cup {<<"cache", k>> : k \in {k \in Keys : cache[k] = c}}
    \cup {<<"mine", o>> : o \in {mine} \cap {c}}

\* No memory is shared: a cell belongs to the tracker, to one event under way, to
\* the cache or to the client, never to two of them, and what the client only
\* reads is not what it changes.
Unshared ==
    /\ \A c \in Live : Cardinality(Owners(c)) <= 1
    /\ mine \in Cells => mine # borrowed

\* The informer's cache, read through the lister, is a replica of the tracker: its
\* values are values written and go forward, and no client's change of a copy
\* shows in it.
R == INSTANCE Replica WITH copy <- [k \in Keys |-> Value(cache[k])]
RefinesReplica == R!ReplicaSpec

\* The tracker holds what was written, whatever clients do afterwards with the
\* objects they passed or were given.
TrackerKeepsWrites == \A k \in Keys : Value(tracker[k]) = R!StoredAt(k, Len(log))

\* No two of the things that own a Foo own the same cell.
Apart ==
    /\ \A k, l \in Keys :
         /\ tracker[k] \in Cells /\ tracker[k] = tracker[l] => k = l
         /\ cache[k] \in Cells /\ cache[k] = cache[l] => k = l
         /\ tracker[k] \in Cells => tracker[k] # cache[l]
    /\ \A i, j \in DOMAIN events :
         events[i].foo \in Cells /\ events[i].foo = events[j].foo => i = j
    /\ \A k \in Keys, i \in DOMAIN events :
         events[i].foo \in Cells => events[i].foo \notin {tracker[k], cache[k]}
    /\ mine \in Cells =>
         /\ mine # borrowed
         /\ \A k \in Keys : mine \notin {tracker[k], cache[k]}
         /\ \A i \in DOMAIN events : mine # events[i].foo

\* What the cache and the events show is what was stored at their moments.
ShowsThePast ==
    /\ \A k \in Keys : Value(cache[k]) = R!StoredAt(k, moment[k])
    /\ \A i \in DOMAIN events :
         Value(events[i].foo) = R!StoredAt(events[i].key, events[i].at)

\* Events come in the order of the writes, later than all that the cache knows.
EventsAhead ==
    /\ phase = "list" => moment = [k \in Keys |-> 0]
    /\ phase # "watching" => events = <<>>
    /\ \A i, j \in DOMAIN events : i < j => events[i].at < events[j].at
    /\ \A k \in Keys, i \in DOMAIN events : moment[k] < events[i].at

\* The inductive invariant.
IInv == TypeOK /\ Apart /\ TrackerKeepsWrites /\ ShowsThePast /\ EventsAhead

\* In the end the cache agrees with the tracker, but for keys written between the
\* list and the watch.
CatchesUp ==
    <>[](\A k \in Keys \ missed : Value(cache[k]) = Value(tracker[k]))
=============================================================================
