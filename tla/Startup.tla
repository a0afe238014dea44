------------------------------- MODULE Startup -------------------------------
(***************************************************************************)
(* The programs from main to exit: app-controller/main.go with             *)
(* pkg/signals and Run, serviceController/main.go, kubebuilder-demo/main.go, *)
(* operator-crd/main.go and create-crd-template/main.go.  Main runs a script of steps while signals    *)
(* arrive and the API server comes and goes; the informer factories        *)
(* (pkg/generated/informers/externalversions) run the informers that were  *)
(* asked for before their Start.                                           *)
(*                                                                         *)
(* Exit codes: 255 for klog.Fatalf, 2 for a panic, 1 for os.Exit(1) and    *)
(* log.Fatalln, and 143 for a signal that nobody handles.                  *)
(***************************************************************************)
EXTENDS Naturals, Sequences

CONSTANTS Workers,    \* goroutines that process keys
          MaxSignals, \* bound: how often SIGTERM or SIGINT is sent
          None        \* the process is running

ASSUME StartupAssumption ==
    /\ Workers # {}
    /\ MaxSignals \in Nat
    /\ None \notin Nat

KubeInformers == {"Deployment", "Service", "Ingress"}
Informers == KubeInformers \cup {"App"}

Controllers == {"app-controller", "serviceController", "kubebuilder-demo"}
Programs == Controllers \cup {"operator-crd", "create-crd-template"}

VARIABLES
    program,
    script,     \* the steps main has yet to take
    \* signals: the handler's goroutine, the channel it reads, the stop channel
    handler, signalled, stop,
    \* informer factories, and which informers' first list has arrived
    requested, started, synced,
    worker,     \* the workers' goroutines
    exit,       \* the exit code
    apiUp,
    asked       \* history: signals sent

signals == <<handler, signalled, stop>>
factories == <<requested, started>>
vars == <<program, script, signals, factories, synced, worker, exit, apiUp,
          asked>>

-----------------------------------------------------------------------------
(* What the programs do, in which order.                                   *)

\* Fault: the factory is started before anybody has asked it for informers.
ScriptRequestsLate(p) ==
    CASE p = "app-controller" ->
           <<"Signals", "Config", "StartKube", "StartApps", "NewController",
             "Wait", "StartWorkers", "Serve">>
      [] p = "serviceController" ->
           <<"Config", "StartKube", "NewController", "WaitStarted",
             "StartWorkers", "Serve">>
      [] p = "kubebuilder-demo" ->
           <<"Config", "NewController", "Signals", "StartKube", "StartApps",
             "Wait", "StartWorkers", "Serve">>
      [] OTHER -> <<"Config", "Request">>

\* In kubebuilder-demo the steps after Signals are the manager's Start.
Script(p) ==
    CASE p = "app-controller" ->
           <<"Signals", "Config", "NewController", "StartKube", "StartApps",
             "Wait", "StartWorkers", "Serve">>
      [] p = "serviceController" ->
           <<"Config", "NewController", "StartKube", "WaitStarted",
             "StartWorkers", "Serve">>
      [] p = "kubebuilder-demo" ->
           <<"Config", "NewController", "Signals", "StartKube", "StartApps",
             "Wait", "StartWorkers", "Serve">>
      [] OTHER -> <<"Config", "Request">>

\* The caches a program's controller reads.
CachesRead(p) ==
    CASE p = "serviceController" -> {"Service", "Ingress"}
      [] p \in {"app-controller", "kubebuilder-demo"} -> Informers
      [] OTHER -> {}

\* Fault: Run forgets one of the HasSynced functions.
AwaitedButOne(p) == CachesRead(p) \ {"Ingress"}

\* The HasSynced functions that are polled.
Awaited(p) == CachesRead(p)

\* The exit code of an error before the workers run.
FailureCode(p) ==
    CASE p = "app-controller" -> 255
      [] p = "serviceController" -> 2
      [] OTHER -> 1

Init ==
    /\ program \in Programs
    /\ script = Script(program)
    /\ handler = "none" /\ signalled = 0 /\ stop = FALSE
    /\ requested = {} /\ started = {} /\ synced = {}
    /\ worker = [w \in Workers |-> "none"]
    /\ exit = None
    /\ apiUp \in BOOLEAN
    /\ asked = 0

-----------------------------------------------------------------------------
(* Signals.                                                                *)

Running == exit = None

Busy == {w \in Workers : worker[w] = "busy"}

\* Fault: the channel has room for one signal only.
BufferedOne(n) == IF n < 1 THEN n + 1 ELSE n

\* Fault: a channel without a limit.
BufferedAll(n) == n + 1

\* signal.Notify drops what does not fit into the channel.
Buffered(n) == IF n < 2 THEN n + 1 ELSE n

\* Without a handler the signal ends the process.
Signal ==
    /\ Running
    /\ asked < MaxSignals
    /\ asked' = asked + 1
    /\ IF handler = "none"
       THEN exit' = 143 /\ UNCHANGED signalled
       ELSE signalled' = Buffered(signalled) /\ UNCHANGED exit
    /\ UNCHANGED <<program, script, handler, stop, factories, synced, worker,
                   apiUp>>

\* The handler's goroutine: the first signal closes the stop channel ...
HandleFirst ==
    /\ Running
    /\ handler = "first"
    /\ signalled > 0
    /\ signalled' = signalled - 1
    /\ stop' = TRUE
    /\ handler' = "second"
    /\ UNCHANGED <<program, script, factories, synced, worker, exit,
                   apiUp, asked>>

\* ... and the second one ends the process.
HandleSecond ==
    /\ Running
    /\ handler = "second"
    /\ signalled > 0
    /\ signalled' = signalled - 1
    /\ exit' = 1
    /\ UNCHANGED <<program, script, handler, stop, factories, synced, worker, apiUp, asked>>

-----------------------------------------------------------------------------
(* Main.                                                                   *)

At(step) == Running /\ script # <<>> /\ Head(script) = step

Advance == script' = Tail(script)

Fail == exit' = FailureCode(program) /\ UNCHANGED script

\* SetupSignalHandler.
SetupSignals ==
    /\ At("Signals")
    /\ handler' = "first"
    /\ Advance
    /\ UNCHANGED <<program, signalled, stop, factories, synced, worker,
                   exit, apiUp, asked>>

\* Configuration and clients; the manager's needs the API server.
Configure ==
    /\ At("Config")
    /\ \/ Advance /\ UNCHANGED exit
       \/ Fail
    /\ UNCHANGED <<program, signals, factories, synced, worker, apiUp,
                   asked>>

\* The controller asks the factory for the informers whose Informer() or
\* Lister() it uses: InformerFor makes each of them once.  The manager's set-up
\* may fail.
NewController ==
    /\ At("NewController")
    /\ \/ /\ requested' = requested \cup CachesRead(program)
          /\ Advance
          /\ UNCHANGED exit
       \/ /\ program = "kubebuilder-demo"
          /\ Fail
          /\ UNCHANGED requested
    /\ UNCHANGED <<program, signals, started, synced, worker, apiUp, asked>>

\* A factory's Start runs what was asked of it and does not run yet.
Start(step, ofFactory) ==
    /\ At(step)
    /\ started' = started \cup (requested \cap ofFactory)
    /\ Advance
    /\ UNCHANGED <<program, signals, requested, synced, worker, exit,
                   apiUp, asked>>

StartFactory ==
    Start("StartKube", KubeInformers) \/ Start("StartApps", {"App"})

\* Fault: the result of the wait is ignored.
WaitIgnored ==
    /\ At("Wait")
    /\ Awaited(program) \subseteq synced \/ stop
    /\ Advance
    /\ UNCHANGED <<program, signals, factories, synced, worker, exit, apiUp,
                   asked>>

\* Run polls until the caches are synced, or the stop comes: between two polls
\* the stop wins, even if the caches have synced since the last one.  When the
\* manager gives up, and how, is its own affair.
Wait ==
    /\ At("Wait")
    /\ \/ Awaited(program) \subseteq synced /\ Advance /\ UNCHANGED exit
       \/ stop /\ Fail
       \/ /\ program = "kubebuilder-demo" /\ stop
          /\ exit' = 0
          /\ UNCHANGED script
    /\ UNCHANGED <<program, signals, factories, synced, worker, apiUp,
                   asked>>

\* The factory's WaitForCacheSync: the informers it has started.
WaitStarted ==
    /\ At("WaitStarted")
    /\ started \subseteq synced \/ stop
    /\ Advance
    /\ UNCHANGED <<program, signals, factories, synced, worker, exit,
                   apiUp, asked>>

StartWorkers ==
    /\ At("StartWorkers")
    /\ worker' = [w \in Workers |-> "started"]
    /\ Advance
    /\ UNCHANGED <<program, signals, factories, synced, exit, apiUp, asked>>

\* Run blocks until the stop channel is closed and main returns.  app-controller
\* does not wait for its workers, whatever Run's comment says; the manager does.
Serve ==
    /\ At("Serve")
    /\ stop
    /\ program = "kubebuilder-demo" => Busy = {}
    /\ exit' = 0
    /\ UNCHANGED <<program, script, signals, factories, synced, worker,
                   apiUp, asked>>

\* operator-crd lists the Foos; create-crd-template gets one, which may not exist.
Request ==
    /\ At("Request")
    /\ \/ apiUp /\ exit' = 0
       \/ ~apiUp /\ exit' = FailureCode(program)
       \/ program = "create-crd-template" /\ exit' = FailureCode(program)
    /\ UNCHANGED <<program, script, signals, factories, synced, worker,
                   apiUp, asked>>

-----------------------------------------------------------------------------
(* Informers, workers and the API server.                                  *)

\* An informer that runs lists, until it succeeds.
Sync(i) ==
    /\ Running
    /\ i \in started \ synced
    /\ apiUp
    /\ ~stop
    /\ synced' = synced \cup {i}
    /\ UNCHANGED <<program, script, signals, factories, worker, exit,
                   apiUp, asked>>

Work(w, from, to) ==
    /\ Running
    /\ worker[w] = from
    /\ worker' = [worker EXCEPT ![w] = to]
    /\ UNCHANGED <<program, script, signals, factories, synced, exit, apiUp, asked>>

\* wait.Until looks at the stop channel before it runs a worker, ...
Enter(w) == Work(w, "started", IF stop THEN "ended" ELSE "looping")

\* ... which takes keys, once the first list has brought some, until the queue
\* is shut down.
Take(w) == synced # {} /\ Work(w, "looping", "busy")

Done(w) == Work(w, "busy", "looping")

ApiChanges ==
    /\ Running
    /\ apiUp' = ~apiUp
    /\ UNCHANGED <<program, script, signals, factories, synced, worker,
                   exit, asked>>

Ended == ~Running /\ UNCHANGED vars

-----------------------------------------------------------------------------
Setup == SetupSignals \/ Configure \/ NewController

\* What main does for itself, and what it leaves to the manager.
Main == Setup \/ StartFactory \/ Wait \/ WaitStarted \/ StartWorkers \/ Serve
        \/ Request

Next ==
    \/ Signal \/ HandleFirst \/ HandleSecond
    \/ Main
    \/ \E i \in Informers : Sync(i)
    \/ \E w \in Workers : Enter(w) \/ Take(w) \/ Done(w)
    \/ ApiChanges
    \/ Ended

Safety == Init /\ [][Next]_vars

\* Goroutines run; informers retry for ever, and need an API server that stays
\* up only at the end.  Nothing is asked of the workers, which may hang in a
\* call, nor of the API server.  The manager reacts to a stop when it likes.
Fairness ==
    /\ WF_vars(HandleFirst) /\ WF_vars(HandleSecond)
    /\ WF_vars(Setup) /\ WF_vars(StartFactory) /\ WF_vars(StartWorkers)
    /\ WF_vars(WaitStarted) /\ WF_vars(Request)
    /\ WF_vars(Wait /\ script' # script)
    /\ WF_vars(program # "kubebuilder-demo" /\ (Wait \/ Serve))
    /\ \A i \in Informers : WF_vars(Sync(i))
    /\ \A w \in Workers : WF_vars(Enter(w))

Spec == Safety /\ Fairness

-----------------------------------------------------------------------------
(* Properties.                                                             *)

TypeOK ==
    /\ program \in Programs
    /\ \E n \in 0 .. Len(Script(program)) :
         script = SubSeq(Script(program), n + 1, Len(Script(program)))
    /\ handler \in {"none", "first", "second"}
    /\ signalled \in 0 .. 2
    /\ stop \in BOOLEAN
    /\ synced \subseteq started /\ started \subseteq requested
    /\ requested \subseteq Informers
    /\ worker \in [Workers -> {"none", "started", "looping", "busy", "ended"}]
    /\ exit \in {None, 0, 1, 2, 143, 255}
    /\ apiUp \in BOOLEAN
    /\ asked \in 0 .. MaxSignals

\* No key is processed before every cache that the controller reads has been
\* filled, in whatever order the lists arrive, though keys come with the first
\* of them: a worker that took an empty cache for an empty cluster would create
\* what exists.  The caches come from two factories, of which WaitForCacheSync
\* knows only the informers that were started.
NoBlindWorker == Busy # {} => CachesRead(program) \subseteq synced

\* An app-controller that reports success had been asked to stop and had got its
\* caches: one that never came that far ends with an error, also when it is
\* stopped, so that whoever supervises it sees the difference.
SuccessMeansSynced ==
    exit = 0 /\ program = "app-controller" =>
        stop /\ CachesRead(program) \subseteq synced

Ahead(step) == \E i \in 1 .. Len(script) : script[i] = step

\* What the steps that main has behind it leave for the later ones to rely on: a
\* factory's Start finds the informers that NewController asked for, the wait of
\* serviceController those that Start started.
StepsBuildOn ==
    /\ program \in Controllers /\ ~Ahead("NewController") =>
         CachesRead(program) \subseteq requested
    /\ program = "serviceController" /\ ~Ahead("StartKube") =>
         CachesRead(program) \subseteq started
    /\ ~Ahead("Wait") /\ ~Ahead("WaitStarted") =>
         CachesRead(program) \subseteq synced \/ stop
    /\ program = "app-controller" /\ ~Ahead("Wait") =>
         CachesRead(program) \subseteq synced

\* A worker that has entered its loop had its caches; one that is still to enter
\* it has them, or will see the stop.
WorkersWaited ==
    \A w \in Workers :
        /\ worker[w] # "none" => ~Ahead("StartWorkers")
        /\ worker[w] = "started" => CachesRead(program) \subseteq synced \/ stop
        /\ worker[w] \in {"looping", "busy"} => CachesRead(program) \subseteq synced

\* The inductive invariant behind the theorems of StartupProofs.
IInv ==
    /\ TypeOK
    /\ StepsBuildOn
    /\ WorkersWaited
    /\ SuccessMeansSynced

\* One signal ends the process, also while the API server cannot be reached or
\* workers hang; the manager, of which nothing is assumed, may need a second
\* one, and the two may come at once.
EndsWhenAsked ==
    /\ (asked > 0 /\ program # "kubebuilder-demo") ~> ~Running
    /\ (asked > 1) ~> ~Running

\* The workers start in the end, if the API server stays up and the process
\* goes on undisturbed: no program waits for a cache nobody fills.
ServesInTheEnd ==
    (<>[]apiUp /\ [](Running /\ asked = 0) /\ program \in Controllers)
        => <>(\A w \in Workers : worker[w] \in {"looping", "busy"})
=============================================================================
