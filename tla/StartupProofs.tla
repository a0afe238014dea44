---------------------------- MODULE StartupProofs ----------------------------
(***************************************************************************)
(* For any number of workers and signals: no worker takes a key before the *)
(* caches are there, and no app-controller reports a success it had not.   *)
(***************************************************************************)
EXTENDS Startup, SequenceTheorems, TLAPS

-----------------------------------------------------------------------------
(* Scripts.                                                                *)

Steps == {"Signals", "Config", "NewController", "StartKube", "StartApps", "Wait",
          "WaitStarted", "StartWorkers", "Serve", "Request"}

\* A script has each step once.
LEMMA Scripts ==
  ASSUME NEW p \in Programs
  PROVE  /\ Script(p) \in Seq(Steps) /\ Len(Script(p)) \in Nat
         /\ \A i, j \in 1 .. Len(Script(p)) : Script(p)[i] = Script(p)[j] => i = j
<1>1. CASE p = "app-controller"
  <2>1. Script(p) = <<"Signals", "Config", "NewController", "StartKube", "StartApps",
                    "Wait", "StartWorkers", "Serve">>
    BY <1>1, Zenon DEF Script
  <2> QED
    BY <2>1 DEF Steps
<1>2. CASE p = "serviceController"
  <2>1. Script(p) = <<"Config", "NewController", "StartKube", "WaitStarted",
                    "StartWorkers", "Serve">>
    BY <1>2, Zenon DEF Script
  <2> QED
    BY <2>1 DEF Steps
<1>3. CASE p = "kubebuilder-demo"
  <2>1. Script(p) = <<"Config", "NewController", "Signals", "StartKube", "StartApps",
                    "Wait", "StartWorkers", "Serve">>
    BY <1>3, Zenon DEF Script
  <2> QED
    BY <2>1 DEF Steps
<1>4. CASE p \in {"operator-crd", "create-crd-template"}
  <2>1. Script(p) = <<"Config", "Request">>
    BY <1>4, Zenon DEF Script
  <2> QED
    BY <2>1 DEF Steps
<1> QED
  BY <1>1, <1>2, <1>3, <1>4 DEF Programs, Controllers

\* Where main is when it is about to take a step.
ScriptRest(n) == script = SubSeq(Script(program), n + 1, Len(Script(program)))

LEMMA Rest ==
  ASSUME program \in Programs, NEW n \in 0 .. Len(Script(program)), ScriptRest(n)
  PROVE  /\ \A s : Ahead(s) <=>
                \E i \in n + 1 .. Len(Script(program)) : Script(program)[i] = s
         /\ script # <<>> =>
              /\ n + 1 \in 1 .. Len(Script(program))
              /\ Head(script) = Script(program)[n + 1]
              /\ Tail(script) = SubSeq(Script(program), (n + 1) + 1, Len(Script(program)))
<1> DEFINE S == Script(program)
           m == Len(S)
<1>1. S \in Seq(Steps) /\ m \in Nat /\ n \in 0 .. m
  BY Scripts
<1> HIDE DEF S
<1>2. /\ script = SubSeq(S, n + 1, m) /\ Len(script) = m - n
      /\ \A i \in 1 .. m - n : script[i] = S[n + i]
  BY <1>1 DEF ScriptRest, S
<1>3. ASSUME NEW s
      PROVE  Ahead(s) <=> \E i \in n + 1 .. m : S[i] = s
  <2>1. ASSUME NEW i \in 1 .. m - n
        PROVE  n + i \in n + 1 .. m /\ script[i] = S[n + i]
    BY <1>1, <1>2
  <2>2. ASSUME NEW i \in n + 1 .. m
        PROVE  i - n \in 1 .. m - n /\ script[i - n] = S[i]
    BY <1>1, <1>2
  <2>3. ASSUME Ahead(s) PROVE \E i \in n + 1 .. m : S[i] = s
    <3>1. PICK i \in 1 .. m - n : script[i] = s
      BY <1>2, <2>3 DEF Ahead
    <3> QED
      BY <2>1, <3>1
  <2>4. ASSUME NEW i \in n + 1 .. m, S[i] = s PROVE Ahead(s)
    BY <1>2, <2>2, <2>4 DEF Ahead
  <2> QED
    BY <2>3, <2>4
<1>4. ASSUME script # <<>>
      PROVE  /\ n + 1 \in 1 .. m
             /\ Head(script) = S[n + 1]
             /\ Tail(script) = SubSeq(S, (n + 1) + 1, m)
  <2>1. n # m
    BY <1>1, <1>2, <1>4, SubSeqEmpty
  <2>2. n + 1 \in 1 .. m /\ m \in n + 1 .. m
    BY <1>1, <2>1
  <2> QED
    BY <1>1, <1>2, <2>2, HeadTailOfSubSeq
<1> QED
  BY <1>3, <1>4 DEF S

\* A step that main takes is behind it afterwards, and the others where they were.
LEMMA StepTaken ==
  ASSUME TypeOK, NEW step, At(step), Advance, UNCHANGED program
  PROVE  /\ \E n \in 0 .. Len(Script(program)') : ScriptRest(n)'
         /\ \A s : Ahead(s)' <=> Ahead(s) /\ s # step
<1> DEFINE S == Script(program)
           m == Len(S)
<1>1. program \in Programs /\ m \in Nat
      /\ \A i, j \in 1 .. m : S[i] = S[j] => i = j
  BY Scripts DEF TypeOK
<1>2. PICK n \in 0 .. m : ScriptRest(n)
  BY DEF TypeOK, ScriptRest
<1>3. /\ \A s : Ahead(s) <=> \E i \in n + 1 .. m : S[i] = s
      /\ n + 1 \in 1 .. m /\ S[n + 1] = step
      /\ script' = SubSeq(S, (n + 1) + 1, m)
  BY <1>1, <1>2, Rest DEF At, Advance
<1>4. ScriptRest(n + 1)' /\ n + 1 \in 0 .. Len(Script(program)')
  BY <1>1, <1>3 DEF ScriptRest
<1>5. \A s : Ahead(s)' <=> \E i \in (n + 1) + 1 .. m : S[i] = s
  <2>1. n + 1 \in 0 .. m /\ m \in Nat
    BY <1>1, <1>3
  <2>2. script' = SubSeq(S, (n + 1) + 1, m) /\ n + 1 \in 0 .. m
    BY <1>1, <1>3
  <2>3. Len(script') = m - (n + 1) /\ \A i \in 1 .. m - (n + 1) : script'[i] = S[n + 1 + i]
    BY <1>1, <2>2, Scripts, SubSeqProperties
  <2>4. ASSUME NEW i \in (n + 1) + 1 .. m
        PROVE  /\ i - (n + 1) \in 1 .. m - (n + 1)
               /\ script'[i - (n + 1)] = S[i]
    BY <2>1, <2>3
  <2> QED
    BY <2>1, <2>3, <2>4 DEF Ahead
<1> QED
  BY <1>1, <1>3, <1>4, <1>5

\* The order of the scripts.
LEMMA Order ==
  ASSUME TypeOK, NEW step, At(step)
  PROVE  /\ program \in Programs
         /\ step = "StartKube" => ~Ahead("NewController")
         /\ step = "Wait" => program \in {"app-controller", "kubebuilder-demo"}
         /\ step = "WaitStarted" =>
              program = "serviceController" /\ ~Ahead("StartKube")
         /\ step = "StartWorkers" => ~Ahead("Wait") /\ ~Ahead("WaitStarted")
         /\ step = "Serve" =>
              ~Ahead("Wait") /\ ~Ahead("WaitStarted") /\ ~Ahead("StartWorkers")
         /\ step = "Request" => program \notin Controllers
<1> DEFINE S == Script(program)
           m == Len(S)
<1>1. program \in Programs /\ m \in Nat
  BY Scripts DEF TypeOK
<1>2. PICK n \in 0 .. m : ScriptRest(n)
  BY DEF TypeOK, ScriptRest
<1>3. /\ \A s : Ahead(s) <=> \E i \in n + 1 .. m : S[i] = s
      /\ n + 1 \in 1 .. m /\ S[n + 1] = step
  BY <1>1, <1>2, Rest DEF At
<1>4. CASE program = "app-controller"
  <2>1. S = <<"Signals", "Config", "NewController", "StartKube", "StartApps",
              "Wait", "StartWorkers", "Serve">>
    BY <1>4, Zenon DEF Script
  <2>2. /\ m = 8
        /\ \A i \in 1 .. 8 : /\ S[i] = "NewController" <=> i = 3
                             /\ S[i] = "StartKube" <=> i = 4
                             /\ S[i] = "Wait" <=> i = 6
                             /\ S[i] = "StartWorkers" <=> i = 7
                             /\ S[i] = "Serve" <=> i = 8
                             /\ S[i] \notin {"WaitStarted", "Request"}
    BY <2>1
  <2> HIDE DEF S
  <2> QED
    BY <1>1, <1>3, <1>4, <2>2
<1>5. CASE program = "serviceController"
  <2>1. S = <<"Config", "NewController", "StartKube", "WaitStarted",
              "StartWorkers", "Serve">>
    BY <1>5, Zenon DEF Script
  <2>2. /\ m = 6
        /\ \A i \in 1 .. 6 : /\ S[i] = "NewController" <=> i = 2
                             /\ S[i] = "StartKube" <=> i = 3
                             /\ S[i] = "WaitStarted" <=> i = 4
                             /\ S[i] = "StartWorkers" <=> i = 5
                             /\ S[i] = "Serve" <=> i = 6
                             /\ S[i] \notin {"Wait", "Request"}
    BY <2>1
  <2> HIDE DEF S
  <2> QED
    BY <1>1, <1>3, <1>5, <2>2
<1>6. CASE program = "kubebuilder-demo"
  <2>1. S = <<"Config", "NewController", "Signals", "StartKube", "StartApps",
              "Wait", "StartWorkers", "Serve">>
    BY <1>6, Zenon DEF Script
  <2>2. /\ m = 8
        /\ \A i \in 1 .. 8 : /\ S[i] = "NewController" <=> i = 2
                             /\ S[i] = "StartKube" <=> i = 4
                             /\ S[i] = "Wait" <=> i = 6
                             /\ S[i] = "StartWorkers" <=> i = 7
                             /\ S[i] = "Serve" <=> i = 8
                             /\ S[i] \notin {"WaitStarted", "Request"}
    BY <2>1
  <2> HIDE DEF S
  <2> QED
    BY <1>1, <1>3, <1>6, <2>2
<1>7. CASE program \in {"operator-crd", "create-crd-template"}
  <2>1. S = <<"Config", "Request">>
    BY <1>7, Zenon DEF Script
  <2> QED
    BY <1>1, <1>3, <1>7, <2>1 DEF Controllers
<1> QED
  BY <1>1, <1>4, <1>5, <1>6, <1>7 DEF Programs, Controllers

\* Of the definitions by cases the proofs need this much.
LEMMA Read ==
  /\ \A p \in Programs : CachesRead(p) \subseteq Informers
  /\ CachesRead("serviceController") \subseteq KubeInformers
  /\ \A p \in Programs \ Controllers : CachesRead(p) = {}
  /\ \A p \in Programs : FailureCode(p) \in {1, 2, 255}
<1>1. /\ CachesRead("app-controller") = Informers
      /\ CachesRead("serviceController") = {"Service", "Ingress"}
      /\ CachesRead("kubebuilder-demo") = Informers
      /\ CachesRead("operator-crd") = {} /\ CachesRead("create-crd-template") = {}
  BY Zenon DEF CachesRead
<1>2. /\ FailureCode("app-controller") = 255 /\ FailureCode("serviceController") = 2
      /\ FailureCode("kubebuilder-demo") = 1 /\ FailureCode("operator-crd") = 1
      /\ FailureCode("create-crd-template") = 1
  BY Zenon DEF FailureCode
<1> QED
  BY <1>1, <1>2 DEF Programs, Controllers, Informers, KubeInformers

-----------------------------------------------------------------------------
(* The steps.                                                              *)

TypesBesideScript ==
    /\ handler \in {"none", "first", "second"}
    /\ signalled \in 0 .. 2
    /\ stop \in BOOLEAN
    /\ synced \subseteq started /\ started \subseteq requested
    /\ requested \subseteq Informers
    /\ worker \in [Workers -> {"none", "started", "looping", "busy", "ended"}]
    /\ exit \in {None, 0, 1, 2, 143, 255}
    /\ apiUp \in BOOLEAN
    /\ asked \in 0 .. MaxSignals

\* A step that leaves main where it is.
LEMMA Elsewhere ==
  ASSUME IInv, UNCHANGED <<program, script>>
  PROVE  /\ TypesBesideScript
         /\ program \in Programs
         /\ TypesBesideScript' => TypeOK'
         /\ \A s : Ahead(s)' <=> Ahead(s)
BY DEF IInv, TypeOK, TypesBesideScript, Ahead

\* A step of main.
LEMMA Onward ==
  ASSUME IInv, NEW step, At(step), Advance, UNCHANGED program
  PROVE  /\ TypesBesideScript
         /\ program \in Programs
         /\ TypesBesideScript' => TypeOK'
         /\ \A s : Ahead(s)' <=> Ahead(s) /\ s # step
         /\ exit = None
<1>1. TypeOK
  BY DEF IInv
<1>2. /\ \E n \in 0 .. Len(Script(program)') : ScriptRest(n)'
      /\ \A s : Ahead(s)' <=> Ahead(s) /\ s # step
  BY <1>1, StepTaken
<1> QED
  BY <1>1, <1>2 DEF TypeOK, TypesBesideScript, ScriptRest, At, Running

\* What main relies on, and what the others may do to it.
LEMMA Kept ==
  ASSUME IInv, UNCHANGED <<program, script, requested, started, stop>>,
         synced \subseteq synced',
         worker' = worker,
         exit' \in {None, 1, 2, 143, 255} \/ exit' = exit,
         TypesBesideScript'
  PROVE  IInv'
<1>1. TypeOK' /\ \A s : Ahead(s)' <=> Ahead(s)
  BY Elsewhere
<1>2. StepsBuildOn'
  BY <1>1 DEF IInv, StepsBuildOn
<1>3. WorkersWaited'
  BY <1>1 DEF IInv, WorkersWaited
<1>4. SuccessMeansSynced'
  BY StartupAssumption DEF IInv, SuccessMeansSynced
<1> QED
  BY <1>1, <1>2, <1>3, <1>4 DEF IInv

LEMMA SignalStep ==
  ASSUME IInv, Signal \/ HandleSecond \/ ApiChanges \/ \E i \in Informers : Sync(i)
  PROVE  IInv'
<1>1. TypesBesideScript /\ UNCHANGED <<program, script>>
  BY Elsewhere DEF IInv, TypeOK, TypesBesideScript, Signal, HandleSecond, ApiChanges, Sync
<1>2. CASE Signal
  BY <1>1, <1>2, Kept, StartupAssumption DEF Signal, Buffered, factories, TypesBesideScript
<1>3. CASE HandleSecond
  BY <1>1, <1>3, Kept DEF HandleSecond, factories, TypesBesideScript
<1>4. CASE ApiChanges
  BY <1>1, <1>4, Kept DEF ApiChanges, signals, factories, TypesBesideScript
<1>5. ASSUME NEW i \in Informers, Sync(i)
      PROVE  IInv'
  BY <1>1, <1>5, Kept DEF Sync, signals, factories, TypesBesideScript
<1> QED
  BY <1>2, <1>3, <1>4, <1>5

LEMMA StopStep ==
  ASSUME IInv, HandleFirst
  PROVE  IInv'
<1>1. /\ UNCHANGED <<program, script, requested, started, synced, worker, exit, apiUp, asked>>
      /\ signalled' = signalled - 1 /\ signalled > 0 /\ stop' = TRUE
      /\ handler' = "second"
  BY DEF HandleFirst, factories
<1>2. TypeOK' /\ \A s : Ahead(s)' <=> Ahead(s)
  BY <1>1, Elsewhere DEF TypesBesideScript
<1>3. StepsBuildOn'
  BY <1>1, <1>2 DEF IInv, StepsBuildOn
<1>4. WorkersWaited'
  BY <1>1, <1>2 DEF IInv, WorkersWaited
<1>5. SuccessMeansSynced'
  BY <1>1 DEF IInv, SuccessMeansSynced
<1> QED
  BY <1>2, <1>3, <1>4, <1>5 DEF IInv

\* A step of main that does not move ends it, with an error.
LEMMA FailStep ==
  ASSUME IInv, exit' = FailureCode(program) \/ (exit' = 0 /\ program # "app-controller"),
         UNCHANGED <<program, script, handler, signalled, stop, requested, started, synced,
                     worker, apiUp, asked>>
  PROVE  IInv'
<1>1. FailureCode(program) \in {1, 2, 255}
  BY Read DEF IInv, TypeOK
<1>2. UNCHANGED <<program, script, handler, signalled, stop, requested, started, synced,
                  worker, apiUp, asked>>
  OBVIOUS
<1>3. TypesBesideScript'
  BY <1>1, <1>2 DEF IInv, TypeOK, TypesBesideScript
<1>4. TypeOK' /\ \A s : Ahead(s)' <=> Ahead(s)
  BY <1>2, <1>3, Elsewhere
<1>5. StepsBuildOn'
  BY <1>2, <1>4 DEF IInv, StepsBuildOn
<1>6. WorkersWaited'
  BY <1>2, <1>4 DEF IInv, WorkersWaited
<1>7. SuccessMeansSynced'
  BY <1>1, <1>2 DEF IInv, SuccessMeansSynced
<1> QED
  BY <1>4, <1>5, <1>6, <1>7 DEF IInv

LEMMA SetupStep ==
  ASSUME IInv, Setup
  PROVE  IInv'
<1>1. CASE SetupSignals
  <2>1. /\ At("Signals") /\ Advance /\ handler' = "first"
        /\ UNCHANGED <<program, signalled, stop, requested, started, synced, worker,
                       exit, apiUp, asked>>
    BY <1>1 DEF SetupSignals, factories
  <2>2. TypeOK' /\ \A s : Ahead(s)' <=> Ahead(s) /\ s # "Signals"
    BY <2>1, Onward DEF TypesBesideScript
  <2> QED
    BY <2>1, <2>2 DEF IInv, StepsBuildOn, WorkersWaited, SuccessMeansSynced
<1>2. CASE Configure
  <2>1. CASE Fail
    <3>1. exit' = FailureCode(program) /\ UNCHANGED script
      BY <2>1 DEF Fail
    <3>2. UNCHANGED <<program, script, handler, signalled, stop, requested, started,
                      synced, worker, apiUp, asked>>
      BY <1>2, <3>1 DEF Configure, signals, factories
    <3> QED
      BY <3>1, <3>2, FailStep
  <2>2. CASE Advance /\ UNCHANGED exit
    <3>1. /\ At("Config") /\ Advance
          /\ UNCHANGED <<program, handler, signalled, stop, requested, started, synced,
                         worker, exit, apiUp, asked>>
      BY <1>2, <2>2 DEF Configure, signals, factories
    <3>2. TypeOK' /\ \A s : Ahead(s)' <=> Ahead(s) /\ s # "Config"
      BY <3>1, Onward DEF TypesBesideScript
    <3> QED
      BY <3>1, <3>2 DEF IInv, StepsBuildOn, WorkersWaited, SuccessMeansSynced
  <2> QED
    BY <1>2, <2>1, <2>2 DEF Configure
<1>3. CASE NewController
  <2>1. CASE Fail /\ UNCHANGED requested
    <3>1. exit' = FailureCode(program) /\ UNCHANGED script
      BY <2>1 DEF Fail
    <3>2. UNCHANGED <<program, script, handler, signalled, stop, requested, started,
                      synced, worker, apiUp, asked>>
      BY <1>3, <2>1, <3>1 DEF NewController, factories, signals
    <3> QED
      BY <3>1, <3>2, FailStep
  <2>2. CASE requested' = requested \cup CachesRead(program) /\ Advance /\ UNCHANGED exit
    <3>1. /\ At("NewController") /\ Advance
          /\ UNCHANGED <<program, handler, signalled, stop, started, synced,
                         worker, exit, apiUp, asked>>
      BY <1>3, <2>2 DEF NewController, signals
    <3>2. CachesRead(program) \subseteq Informers
      BY Read DEF IInv, TypeOK
    <3>3. TypesBesideScript'
      BY <2>2, <3>1, <3>2 DEF IInv, TypeOK, TypesBesideScript
    <3>4. TypeOK' /\ \A s : Ahead(s)' <=> Ahead(s) /\ s # "NewController"
      BY <3>1, <3>3, Onward
    <3> QED
      BY <2>2, <3>1, <3>4 DEF IInv, StepsBuildOn, WorkersWaited, SuccessMeansSynced
  <2> QED
    BY <1>3, <2>1, <2>2 DEF NewController
<1> QED
  BY <1>1, <1>2, <1>3 DEF Setup

LEMMA StartStep ==
  ASSUME IInv, StartFactory
  PROVE  IInv'
<1>1. PICK step, ofFactory :
        /\ Start(step, ofFactory)
        /\ (step = "StartKube" /\ ofFactory = KubeInformers) \/ step = "StartApps"
  BY DEF StartFactory
<1>2. /\ At(step) /\ Advance
      /\ started' = started \cup (requested \cap ofFactory)
      /\ UNCHANGED <<program, handler, signalled, stop, requested, synced, worker, exit,
                     apiUp, asked>>
  BY <1>1 DEF Start, signals
<1>3. TypesBesideScript'
  BY <1>2 DEF IInv, TypeOK, TypesBesideScript
<1>4. TypeOK' /\ \A s : Ahead(s)' <=> Ahead(s) /\ s # step
  BY <1>2, <1>3, Onward
<1>5. StepsBuildOn'
  <2>1. ASSUME program = "serviceController", ~Ahead("StartKube")'
        PROVE  CachesRead(program) \subseteq started'
    <3>1. CASE Ahead("StartKube")
      <4>1. step = "StartKube"
        BY <1>4, <2>1, <3>1
      <4>2. CachesRead(program) \subseteq requested
        <5>1. ~Ahead("NewController")
          BY <1>2, <4>1, Order DEF IInv
        <5> QED
          BY <2>1, <5>1 DEF IInv, StepsBuildOn, Controllers
      <4> QED
        BY <1>1, <1>2, <2>1, <4>1, <4>2, Read
    <3>2. CASE ~Ahead("StartKube")
      BY <1>2, <2>1, <3>2 DEF IInv, StepsBuildOn
    <3> QED
      BY <3>1, <3>2
  <2> QED
    BY <1>1, <1>2, <1>4, <2>1 DEF IInv, StepsBuildOn
<1>6. WorkersWaited' /\ SuccessMeansSynced'
  BY <1>1, <1>2, <1>4 DEF IInv, WorkersWaited, SuccessMeansSynced
<1> QED
  BY <1>4, <1>5, <1>6 DEF IInv

\* The two waits.
LEMMA WaitStep ==
  ASSUME IInv, Wait \/ WaitStarted
  PROVE  IInv'
<1>1. CASE Wait
  <2>1. At("Wait") /\ program \in {"app-controller", "kubebuilder-demo"}
    BY <1>1, Order DEF IInv, Wait
  <2>2. CASE CachesRead(program) \subseteq synced /\ Advance /\ UNCHANGED exit
    <3>1. UNCHANGED <<program, handler, signalled, stop, requested, started, synced,
                      worker, exit, apiUp, asked>>
      BY <1>1, <2>2 DEF Wait, signals, factories
    <3>2. TypeOK' /\ \A s : Ahead(s)' <=> Ahead(s) /\ s # "Wait"
      BY <2>1, <2>2, <3>1, Onward DEF TypesBesideScript
    <3> QED
      BY <2>2, <3>1, <3>2 DEF IInv, StepsBuildOn, WorkersWaited, SuccessMeansSynced
  <2>3. CASE Fail \/ (program = "kubebuilder-demo" /\ exit' = 0 /\ UNCHANGED script)
    <3>1. /\ UNCHANGED script
          /\ exit' = FailureCode(program) \/ (exit' = 0 /\ program # "app-controller")
      BY <2>3 DEF Fail
    <3>2. UNCHANGED <<program, script, handler, signalled, stop, requested, started,
                      synced, worker, apiUp, asked>>
      BY <1>1, <3>1 DEF Wait, signals, factories
    <3> QED
      BY <3>1, <3>2, FailStep
  <2>4. \/ Awaited(program) \subseteq synced /\ Advance /\ UNCHANGED exit
        \/ Fail
        \/ program = "kubebuilder-demo" /\ exit' = 0 /\ UNCHANGED script
    BY <1>1, Zenon DEF Wait
  <2> QED
    BY <2>2, <2>3, <2>4 DEF Awaited
<1>2. CASE WaitStarted
  <2>1. /\ At("WaitStarted") /\ Advance /\ (started \subseteq synced \/ stop)
        /\ UNCHANGED <<program, handler, signalled, stop, requested, started, synced,
                       worker, exit, apiUp, asked>>
    BY <1>2 DEF WaitStarted, signals, factories
  <2>2. program = "serviceController" /\ ~Ahead("StartKube")
    BY <2>1, Order DEF IInv
  <2>3. CachesRead(program) \subseteq synced \/ stop
    BY <2>1, <2>2 DEF IInv, StepsBuildOn
  <2>4. TypeOK' /\ \A s : Ahead(s)' <=> Ahead(s) /\ s # "WaitStarted"
    BY <2>1, Onward DEF TypesBesideScript
  <2> QED
    BY <2>1, <2>2, <2>3, <2>4 DEF IInv, StepsBuildOn, WorkersWaited, SuccessMeansSynced
<1> QED
  BY <1>1, <1>2

LEMMA ServeStep ==
  ASSUME IInv, StartWorkers \/ Serve \/ Request
  PROVE  IInv'
<1>1. CASE StartWorkers
  <2>1. /\ At("StartWorkers") /\ Advance /\ worker' = [w \in Workers |-> "started"]
        /\ UNCHANGED <<program, handler, signalled, stop, requested, started, synced,
                       exit, apiUp, asked>>
    BY <1>1 DEF StartWorkers, signals, factories
  <2>2. TypeOK' /\ \A s : Ahead(s)' <=> Ahead(s) /\ s # "StartWorkers"
    BY <2>1, Onward DEF TypesBesideScript
  <2>3. CachesRead(program) \subseteq synced \/ stop
    BY <2>1, Order DEF IInv, StepsBuildOn
  <2>4. WorkersWaited'
    BY <2>1, <2>2, <2>3 DEF WorkersWaited
  <2> QED
    BY <2>1, <2>2, <2>4 DEF IInv, StepsBuildOn, SuccessMeansSynced
<1>2. CASE Serve
  <2>1. /\ At("Serve") /\ stop /\ exit' = 0
        /\ UNCHANGED <<program, script, handler, signalled, stop, requested, started,
                       synced, worker, apiUp, asked>>
    BY <1>2 DEF Serve, signals, factories
  <2>2. TypeOK' /\ \A s : Ahead(s)' <=> Ahead(s)
    BY <2>1, Elsewhere DEF TypesBesideScript
  <2>3. program = "app-controller" => CachesRead(program) \subseteq synced
    BY <2>1, Order DEF IInv, StepsBuildOn
  <2>4. SuccessMeansSynced'
    BY <2>1, <2>3 DEF SuccessMeansSynced
  <2> QED
    BY <2>1, <2>2, <2>4 DEF IInv, StepsBuildOn, WorkersWaited
<1>3. CASE Request
  <2>1. program # "app-controller"
    BY <1>3, Order DEF IInv, Request, Controllers
  <2>2. /\ exit' = FailureCode(program) \/ exit' = 0
        /\ UNCHANGED <<program, script, handler, signalled, stop, requested, started,
                       synced, worker, apiUp, asked>>
    BY <1>3 DEF Request, signals, factories
  <2> QED
    BY <2>1, <2>2, FailStep
<1> QED
  BY <1>1, <1>2, <1>3

LEMMA WorkerStep ==
  ASSUME IInv, NEW w \in Workers, Enter(w) \/ Take(w) \/ Done(w)
  PROVE  IInv'
<1>1. /\ UNCHANGED <<program, script, handler, signalled, stop, requested, started,
                     synced, exit, apiUp, asked>>
      /\ \E to \in {"ended", "looping", "busy"} : worker' = [worker EXCEPT ![w] = to]
      /\ worker'[w] = "looping" =>
           (worker[w] = "started" /\ ~stop) \/ worker[w] = "busy"
      /\ worker'[w] = "busy" => worker[w] = "looping"
      /\ worker[w] # "none"
  BY DEF IInv, TypeOK, Enter, Take, Done, Work, signals, factories
<1>2. /\ worker \in [Workers -> {"none", "started", "looping", "busy", "ended"}]
      /\ worker' \in [Workers -> {"none", "started", "looping", "busy", "ended"}]
      /\ worker'[w] \in {"ended", "looping", "busy"}
      /\ \A v \in Workers \ {w} : worker'[v] = worker[v]
  BY <1>1 DEF IInv, TypeOK
<1>3. TypeOK' /\ \A s : Ahead(s)' <=> Ahead(s)
  BY <1>1, <1>2, Elsewhere DEF TypesBesideScript
<1>4. WorkersWaited'
  <2> SUFFICES ASSUME NEW v \in Workers
               PROVE  /\ worker'[v] # "none" => ~Ahead("StartWorkers")
                      /\ worker'[v] = "started" => CachesRead(program) \subseteq synced \/ stop
                      /\ worker'[v] \in {"looping", "busy"} =>
                           CachesRead(program) \subseteq synced
    BY <1>1, <1>3 DEF WorkersWaited
  <2>1. CASE v = w
    BY <1>1, <1>2, <2>1 DEF IInv, WorkersWaited
  <2>2. CASE v # w
    BY <1>2, <2>2 DEF IInv, WorkersWaited
  <2> QED
    BY <2>1, <2>2
<1> QED
  BY <1>1, <1>3, <1>4 DEF IInv, StepsBuildOn, SuccessMeansSynced

LEMMA Initially == Init => IInv
<1> SUFFICES ASSUME Init PROVE IInv
  OBVIOUS
<1> DEFINE S == Script(program)
<1>1. /\ program \in Programs /\ script = S
      /\ S \in Seq(Steps) /\ Len(S) \in Nat
  BY Scripts DEF Init
<1>2. script = SubSeq(S, 0 + 1, Len(S)) /\ 0 \in 0 .. Len(S)
  BY <1>1, SubSeqFull
<1>3. TypeOK
  <2>1. \E n \in 0 .. Len(S) : script = SubSeq(S, n + 1, Len(S))
    BY <1>2, Zenon
  <2>2. worker \in [Workers -> {"none", "started", "looping", "busy", "ended"}]
    BY DEF Init
  <2>3. 0 \in 0 .. MaxSignals
    BY StartupAssumption
  <2> QED
    <3>1. TypesBesideScript
      <4>1. 0 \in 0 .. 2 /\ apiUp \in BOOLEAN /\ stop = FALSE
        BY DEF Init
      <4> QED
        BY <2>2, <2>3, <4>1, Zenon DEF Init, TypesBesideScript
    <3> QED
      BY <1>1, <2>1, <3>1, Zenon DEF TypesBesideScript, TypeOK
<1>4. WorkersWaited /\ SuccessMeansSynced
  BY StartupAssumption DEF Init, WorkersWaited, SuccessMeansSynced
<1>5. \A s : Ahead(s) <=> \E i \in 1 .. Len(S) : S[i] = s
  BY <1>1 DEF Ahead
<1>6. StepsBuildOn
  <2>1. CASE program = "app-controller"
    <3>1. S = <<"Signals", "Config", "NewController", "StartKube", "StartApps",
                "Wait", "StartWorkers", "Serve">>
      BY <2>1, Zenon DEF Script
    <3>2. S[3] = "NewController" /\ S[6] = "Wait" /\ 3 \in 1 .. Len(S) /\ 6 \in 1 .. Len(S)
      BY <3>1
    <3> QED
      BY <1>5, <2>1, <3>2 DEF StepsBuildOn
  <2>2. CASE program = "serviceController"
    <3>1. S = <<"Config", "NewController", "StartKube", "WaitStarted",
                "StartWorkers", "Serve">>
      BY <2>2, Zenon DEF Script
    <3>2. /\ S[2] = "NewController" /\ S[3] = "StartKube" /\ S[4] = "WaitStarted"
          /\ 2 \in 1 .. Len(S) /\ 3 \in 1 .. Len(S) /\ 4 \in 1 .. Len(S)
      BY <3>1
    <3> QED
      BY <1>5, <2>2, <3>2 DEF StepsBuildOn
  <2>3. CASE program = "kubebuilder-demo"
    <3>1. S = <<"Config", "NewController", "Signals", "StartKube", "StartApps",
                "Wait", "StartWorkers", "Serve">>
      BY <2>3, Zenon DEF Script
    <3>2. S[2] = "NewController" /\ S[6] = "Wait" /\ 2 \in 1 .. Len(S) /\ 6 \in 1 .. Len(S)
      BY <3>1
    <3> QED
      BY <1>5, <2>3, <3>2 DEF StepsBuildOn
  <2>4. CASE program \notin Controllers
    BY <1>1, <2>4, Read DEF StepsBuildOn, Controllers
  <2> QED
    BY <2>1, <2>2, <2>3, <2>4 DEF Controllers
<1> QED
  BY <1>3, <1>4, <1>6 DEF IInv

LEMMA Step == IInv /\ [Next]_vars => IInv'
<1> SUFFICES ASSUME IInv, [Next]_vars PROVE IInv'
  OBVIOUS
<1>1. CASE UNCHANGED vars
  <2>1. UNCHANGED <<program, script, handler, signalled, stop, requested, started,
                    synced, worker, exit, apiUp, asked>>
    BY <1>1 DEF vars, signals, factories
  <2> QED
    BY <2>1, Kept DEF IInv, TypeOK, TypesBesideScript
<1>2. CASE Main
  BY <1>2, SetupStep, StartStep, WaitStep, ServeStep DEF Main
<1> QED
  BY <1>1, <1>2, SignalStep, StopStep, WorkerStep DEF Next, Ended

-----------------------------------------------------------------------------
(* The theorems.                                                           *)

\* The inductive invariant: what each step of main leaves to those after it.
THEOREM Invariance == Safety => []IInv
BY Initially, Step, PTL DEF Safety

\* The variables keep their types: main is somewhere in its script, informers
\* that have synced were started, and the signal channel holds two at most.
THEOREM TypeCorrect == Safety => []TypeOK
<1>1. IInv => TypeOK
  BY DEF IInv
<1> QED
  BY <1>1, Invariance, PTL

\* No worker processes a key before all caches are there, in any of the programs,
\* with any number of workers, however signals and lists interleave.
THEOREM NobodyBlind == Safety => []NoBlindWorker
<1>1. IInv => NoBlindWorker
  BY DEF IInv, WorkersWaited, NoBlindWorker, Busy
<1> QED
  BY <1>1, Invariance, PTL

\* An app-controller that was stopped before its caches came does not report
\* success.
THEOREM SuccessIsReal == Safety => []SuccessMeansSynced
<1>1. IInv => SuccessMeansSynced
  BY DEF IInv
<1> QED
  BY <1>1, Invariance, PTL
=============================================================================
