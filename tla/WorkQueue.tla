------------------------------ MODULE WorkQueue ------------------------------
(***************************************************************************)
(* The work queue of client-go (vendor/k8s.io/client-go/util/workqueue/    *)
(* queue.go): the queue slice, the dirty and processing sets, the one      *)
(* mutex with its condition variable, and shutdown with or without drain.  *)
(*                                                                         *)
(* Every method body runs under the mutex, so a method is one action; it   *)
(* is split where cond.Wait releases the mutex (Get, waitForProcessing)    *)
(* and where a method takes the mutex several times (ShutDown,             *)
(* ShutDownWithDrain).  The goroutines are the workers, which loop over    *)
(* Get and Done as processNextWorkItem does, any number of producers       *)
(* calling Add, and the callers of the two shutdown methods.               *)
(***************************************************************************)
EXTENDS Naturals, Sequences, FiniteSets, Functions

CONSTANTS Items,     \* the keys put on the queue
          Workers,   \* goroutines looping over Get and Done
          Stoppers,  \* goroutines that may call ShutDown
          Drainers,  \* goroutines that may call ShutDownWithDrain
          NoItem     \* not an item

ASSUME QueueAssumption ==
    /\ NoItem \notin Items
    /\ IsFiniteSet(Workers)
    /\ Workers # {}
    /\ Workers \cap Stoppers = {}
    /\ Workers \cap Drainers = {}
    /\ Stoppers \cap Drainers = {}

VARIABLES queue,         \* the order in which items will be taken
          dirty,         \* items that need to be processed
          processing,    \* items being processed
          shuttingDown,
          drain,
          waiters,       \* goroutines inside cond.Wait
          worker,        \* worker[w]: "Get", "busy" or "exited"
          holding,       \* the item w works on while it is busy
          closer         \* program counter of the shutdown callers

vars == <<queue, dirty, processing, shuttingDown, drain, waiters,
          worker, holding, closer>>

Closers == Stoppers \cup Drainers

-----------------------------------------------------------------------------
(* The condition variable.                                                 *)

(* Definitions marked "Fault" are plausible mistakes in the definition that *)
(* follows them; nothing uses them but the experiments that show that the  *)
(* properties can fail (listed in the README).                             *)

\* Fault: the call of Signal is missing.
NoSignal == UNCHANGED waiters

\* Signal wakes some waiting goroutine, if there is one.
Signal ==
    \/ waiters = {} /\ UNCHANGED waiters
    \/ \E g \in waiters : waiters' = waiters \ {g}

\* Fault: Signal is called where Broadcast is needed.
SignalOnly == Signal

Broadcast == waiters' = {}

-----------------------------------------------------------------------------
Init ==
    /\ queue = <<>>
    /\ dirty = {}
    /\ processing = {}
    /\ shuttingDown = FALSE
    /\ drain = FALSE
    /\ waiters = {}
    /\ worker = [w \in Workers |-> "Get"]
    /\ holding = [w \in Workers |-> NoItem]
    /\ closer = [c \in Closers |-> "idle"]

\* Fault: Add queues an item although it is processed.
AddRegardless(i) ==
    /\ ~shuttingDown
    /\ i \notin dirty
    /\ dirty' = dirty \cup {i}
    /\ queue' = Append(queue, i)
    /\ Signal
    /\ UNCHANGED <<processing, shuttingDown, drain, worker, holding, closer>>

\* Add returns at once when shutting down or when the item is dirty already;
\* an item in processing is only marked, Done will queue it.
Add(i) ==
    /\ ~shuttingDown
    /\ i \notin dirty
    /\ dirty' = dirty \cup {i}
    /\ \/ /\ i \in processing
          /\ UNCHANGED <<queue, waiters>>
       \/ /\ i \notin processing
          /\ queue' = Append(queue, i)
          /\ Signal
    /\ UNCHANGED <<processing, shuttingDown, drain, worker, holding, closer>>

\* w is inside Get and may take the mutex.
InGet(w) == worker[w] = "Get" /\ w \notin waiters

\* Get returns the head of the queue, also while shutting down.
GetItem(w) ==
    /\ InGet(w)
    /\ queue # <<>>
    /\ queue' = Tail(queue)
    /\ processing' = processing \cup {Head(queue)}
    /\ dirty' = dirty \ {Head(queue)}
    /\ worker' = [worker EXCEPT ![w] = "busy"]
    /\ holding' = [holding EXCEPT ![w] = Head(queue)]
    /\ UNCHANGED <<shuttingDown, drain, waiters, closer>>

\* Get blocks in cond.Wait; once signalled it tests the loop condition again.
GetWait(w) ==
    /\ InGet(w)
    /\ queue = <<>>
    /\ ~shuttingDown
    /\ waiters' = waiters \cup {w}
    /\ UNCHANGED <<queue, dirty, processing, shuttingDown, drain, worker,
                   holding, closer>>

\* Fault: Get reports shutdown although items are queued.
GetShutdownEarly(w) ==
    /\ InGet(w)
    /\ shuttingDown
    /\ worker' = [worker EXCEPT ![w] = "exited"]
    /\ UNCHANGED <<queue, dirty, processing, shuttingDown, drain, waiters,
                   holding, closer>>

\* Get reports shutdown and the worker goroutine ends.
GetShutdown(w) ==
    /\ InGet(w)
    /\ queue = <<>>
    /\ shuttingDown
    /\ worker' = [worker EXCEPT ![w] = "exited"]
    /\ UNCHANGED <<queue, dirty, processing, shuttingDown, drain, waiters,
                   holding, closer>>

\* Done queues the item again when it became dirty meanwhile; otherwise it
\* wakes a drainer once nothing is processed any more.
Done(w) ==
    /\ worker[w] = "busy"
    /\ processing' = processing \ {holding[w]}
    /\ \/ /\ holding[w] \in dirty
          /\ queue' = Append(queue, holding[w])
          /\ Signal
       \/ /\ holding[w] \notin dirty
          /\ processing' = {}
          /\ Signal
          /\ UNCHANGED queue
       \/ /\ holding[w] \notin dirty
          /\ processing' # {}
          /\ UNCHANGED <<queue, waiters>>
    /\ worker' = [worker EXCEPT ![w] = "Get"]
    /\ holding' = [holding EXCEPT ![w] = NoItem]
    /\ UNCHANGED <<dirty, shuttingDown, drain, closer>>

-----------------------------------------------------------------------------
(* Shutdown.  setDrain and shutdown are critical sections of their own.    *)

CloserStep(c, from, to) ==
    /\ closer[c] = from
    /\ c \notin waiters
    /\ closer' = [closer EXCEPT ![c] = to]

SetDrain(c) ==
    /\ CloserStep(c, "idle", "shutdown")
    /\ drain' = (c \in Drainers)
    /\ UNCHANGED <<queue, dirty, processing, shuttingDown, waiters, worker,
                   holding>>

\* Fault: ShutDown drains as ShutDownWithDrain does.
ShutdownDrains(c) ==
    /\ CloserStep(c, "shutdown", "isProcessing")
    /\ shuttingDown' = TRUE
    /\ Broadcast
    /\ UNCHANGED <<queue, dirty, processing, drain, worker, holding>>

Shutdown(c) ==
    /\ CloserStep(c, "shutdown",
                  IF c \in Drainers THEN "isProcessing" ELSE "returned")
    /\ shuttingDown' = TRUE
    /\ Broadcast
    /\ UNCHANGED <<queue, dirty, processing, drain, worker, holding>>

IsProcessing(c) ==
    /\ CloserStep(c, "isProcessing",
                  IF processing # {} THEN "shouldDrain" ELSE "returned")
    /\ UNCHANGED <<queue, dirty, processing, shuttingDown, drain, waiters,
                   worker, holding>>

ShouldDrain(c) ==
    /\ CloserStep(c, "shouldDrain",
                  IF drain THEN "waitForProcessing" ELSE "returned")
    /\ UNCHANGED <<queue, dirty, processing, shuttingDown, drain, waiters,
                   worker, holding>>

\* Fault: sleeps without looking at processing again under the mutex.
WaitUnchecked(c) ==
    /\ CloserStep(c, "waitForProcessing", "isProcessing")
    /\ waiters' = waiters \cup {c}
    /\ UNCHANGED <<queue, dirty, processing, shuttingDown, drain, worker,
                   holding>>

\* Sleeps unless nothing is processed; either way the loop of
\* ShutDownWithDrain starts over.
WaitForProcessing(c) ==
    /\ CloserStep(c, "waitForProcessing", "isProcessing")
    /\ waiters' = IF processing = {} THEN waiters ELSE waiters \cup {c}
    /\ UNCHANGED <<queue, dirty, processing, shuttingDown, drain, worker,
                   holding>>

-----------------------------------------------------------------------------
Get(w) == GetItem(w) \/ GetWait(w) \/ GetShutdown(w)

Closing(c) ==
    Shutdown(c) \/ IsProcessing(c) \/ ShouldDrain(c) \/ WaitForProcessing(c)

\* Everyone has returned: the workers have exited and no shutdown is under way.
Terminated ==
    /\ \A w \in Workers : worker[w] = "exited"
    /\ \A c \in Closers : closer[c] = "returned"
    /\ UNCHANGED vars

Next ==
    \/ \E i \in Items : Add(i)
    \/ \E w \in Workers : Get(w) \/ Done(w)
    \/ \E c \in Closers : SetDrain(c) \/ Closing(c)
    \/ Terminated

Safety == Init /\ [][Next]_vars

\* The Go scheduler runs every runnable goroutine and the handler a worker
\* calls between Get and Done returns; nobody is obliged to call Add or to
\* shut the queue down.
Fairness ==
    /\ \A w \in Workers : WF_vars(Get(w)) /\ WF_vars(Done(w))
    /\ \A c \in Closers : WF_vars(Closing(c))

Spec == Safety /\ Fairness
-----------------------------------------------------------------------------
(* Properties.                                                             *)

TypeOK ==
    /\ queue \in Seq(Items)
    /\ dirty \subseteq Items
    /\ processing \subseteq Items
    /\ shuttingDown \in BOOLEAN
    /\ drain \in BOOLEAN
    /\ waiters \subseteq Workers \cup Drainers
    /\ worker \in [Workers -> {"Get", "busy", "exited"}]
    /\ holding \in [Workers -> Items \cup {NoItem}]
    /\ closer \in [Closers -> {"idle", "shutdown", "isProcessing",
                               "shouldDrain", "waitForProcessing", "returned"}]

\* The queue slice, the dirty set and the processing set, updated by four
\* methods, agree: the queue lists, each once, exactly the dirty items that
\* nobody processes.  "Every element of queue should be in the dirty set and
\* not in the processing set" (queue.go:73-75) is one half; the other half is
\* that a dirty item is either queued or will be queued by a Done.
QueueIsBacklog ==
    /\ Range(queue) = dirty \ processing
    /\ IsInjective(queue)

\* No item is handed to two workers at a time, although it may be added, and
\* even queued again, while it is processed; the processing set is exactly
\* what the busy workers hold.
ExclusiveProcessing ==
    /\ processing = {holding[w] : w \in {v \in Workers : worker[v] = "busy"}}
    /\ \A v, w \in Workers :
         worker[v] = "busy" /\ worker[w] = "busy" /\ holding[v] = holding[w]
            => v = w

\* No wakeup is lost: while some worker sleeps, there are at least as many
\* workers on their way through Get as there are queued items.
NoLostWakeup ==
    waiters \cap Workers # {} =>
        Len(queue) <= Cardinality({w \in Workers : InGet(w)})

\* A worker and a drainer never sleep on the condition variable together, so
\* that the single Signal of Add or Done cannot wake the wrong one.
SleepersDoNotMix ==
    waiters \cap Workers # {} => ~shuttingDown /\ waiters \subseteq Workers

\* A drainer sleeps only while some worker still owes a Done to wake it.
\* This needs that one goroutine at most calls ShutDownWithDrain.
DrainerWillBeWoken ==
    waiters \cap Drainers # {} => processing # {}

\* Nothing accepted is dropped by a shutdown: once all workers have exited,
\* no item is left dirty, not even one added while it was processed.
ExitedMeansDrained ==
    (\A w \in Workers : worker[w] = "exited") => dirty = {}

\* A caller of ShutDownWithDrain returns, provided the workers call Done.
DrainReturns ==
    \A d \in Drainers : closer[d] = "shutdown" ~> closer[d] = "returned"

\* How the goroutines' program counters relate to the shared state.
Structure ==
    /\ \A w \in Workers : worker[w] = "busy" <=> holding[w] # NoItem
    /\ \A w \in Workers \cap waiters : worker[w] = "Get"
    /\ \A w \in Workers : worker[w] = "exited" => shuttingDown
    /\ \A c \in Closers \cap waiters : closer[c] = "isProcessing"
    /\ \A s \in Stoppers : closer[s] \in {"idle", "shutdown", "returned"}
    /\ \A c \in Closers : closer[c] \notin {"idle", "shutdown"} => shuttingDown

\* The inductive invariant behind the theorems of WorkQueueProofs.
IInv ==
    /\ TypeOK
    /\ Structure
    /\ QueueIsBacklog
    /\ ExclusiveProcessing
    /\ SleepersDoNotMix
    /\ NoLostWakeup
    /\ ExitedMeansDrained

-----------------------------------------------------------------------------
(* The queue keeps the promise of ItemQueue.                               *)

IQ == INSTANCE ItemQueue

\* Every step of the queue is a step ItemQueue allows, or changes nothing there.
RefinesSafety == IQ!ItemSafety

\* With fair workers no item starves.
RefinesItemQueue == IQ!ItemSpec
=============================================================================
