--------------------------- MODULE SensingProofs ----------------------------
(***************************************************************************)
(* For every set of expressions and any number of loops and commands: a    *)
(* condition never calls the algorithm of a loop that is gone, the exporter *)
(* it may save from was handed this iteration's picture and keeps none of   *)
(* an earlier one, and an iteration uses the camera only while its sensor   *)
(* is there.                                                                *)
(***************************************************************************)
EXTENDS Sensing, TLAPS

(* The hash a new Invoke starts with is that of no condition. *)
LEMMA HashFacts ==
  \A c \in Actions \cup {NoAction} : HashOf(c) \in Nat /\ HashOf(c) # NewHash
  BY HashAssumption DEF HashOf, EmptyHash, NewHash

(* Loops are numbered from 1, and led is bound to none of them. *)
LEMMA LoopFacts ==
  /\ MaxLoops \in Nat
  /\ \A l : l \in Loops <=> l \in Nat /\ 1 <= l /\ l <= MaxLoops
  /\ Led \in Nat /\ Led > MaxLoops
  BY BoundAssumption DEF Loops, Led

LEMMA InitIInv == Init => IInv
<1> SUFFICES ASSUME Init PROVE IInv
  OBVIOUS
<1> USE BoundAssumption DEF None, Loops, Led
<1>1. LoopTypes
  <2>1. loops \in 0..MaxLoops /\ latest \in 0..loops /\ queued \subseteq 1..loops
    BY DEF Init
  <2>2. /\ cond \in Actions \cup {NoAction}
        /\ sensorId \in BOOLEAN /\ enable \in BOOLEAN /\ handed \in BOOLEAN
    BY Zenon DEF Init
  <2>3. /\ kind \in [Loops -> {"invoke", "sample"}] /\ seen \in [Loops -> Nat]
        /\ export \in [Loops -> BOOLEAN] /\ resultsOnly \in [Loops -> BOOLEAN]
        /\ bound \in [Functions -> Nat] /\ exporter \in [Loops -> ExporterStates]
    BY Zenon DEF Init, NewHash, ExporterStates
  <2> QED
    BY <2>1, <2>2, <2>3 DEF LoopTypes
<1>2. Turn /\ LatestReady /\ Exports
  BY DEF Init, Turn, InLoop, AfterInject, LatestReady, Exports, Functions
<1>3. Bindings
  BY DEF Init, Bindings, Functions
<1> QED
  BY <1>1, <1>2, <1>3 DEF IInv

-----------------------------------------------------------------------------
(* The commands. *)

(* SENSOR and BREAK leave no loop that may go on. *)
LEMMA SensorStep ==
  IInv /\ (Sensor \/ SensorDeinit \/ SensorInit \/ Break) => IInv'
<1> SUFFICES ASSUME IInv, Sensor \/ SensorDeinit \/ SensorInit \/ Break PROVE IInv'
  OBVIOUS
<1> USE LoopFacts DEF IInv, None
<1>1. latest' = None /\ at' \notin InLoop /\ at' \in {"idle", "deinit", "init"}
  BY DEF Sensor, SensorDeinit, SensorInit, Break, SensorError, Supersede, Take, Idle,
         Turn, InLoop, AfterInject, loopVars
<1>2. UNCHANGED <<loops, queued, kind, resultsOnly, seen, export, actionVars, it, exportVars>>
  BY DEF Sensor, SensorDeinit, SensorInit, Break, loopVars
<1>3. sensorId' \in BOOLEAN /\ enable' \in BOOLEAN
  BY DEF Sensor, SensorDeinit, SensorInit, Break, SensorError, sensorVars, LoopTypes, Take
<1>4. LoopTypes'
  BY <1>1, <1>2, <1>3 DEF LoopTypes, actionVars, exportVars
<1>5. Turn' /\ LatestReady'
  BY <1>1 DEF Turn, LatestReady, InLoop, AfterInject
<1>6. Bindings' /\ Exports'
  BY <1>1, <1>2 DEF Bindings, Exports, actionVars, exportVars, InLoop, AfterInject
<1> QED
  BY <1>4, <1>5, <1>6

(* ACTION unbinds what it replaces; no iteration is under way. *)
LEMMA ActionStep == IInv /\ Action => IInv'
<1> SUFFICES ASSUME IInv, Action PROVE IInv'
  OBVIOUS
<1> USE LoopFacts DEF IInv, None
<1>1. at = "idle" /\ UNCHANGED <<sensorVars, loopVars, at, it, exportVars, enable>>
  BY DEF Action, Take, Idle
<1>2. CASE UNCHANGED actionVars
  BY <1>1, <1>2 DEF LoopTypes, Turn, LatestReady, Bindings, Exports, actionVars, loopVars,
     sensorVars, exportVars, SensorReady, InLoop, AfterInject
<1>3. ASSUME NEW c \in Actions \cup {NoAction}, cond' = c,
             bound' = [f \in Functions |->
                         IF c # NoAction /\ f \in Calls[c] /\ f = "led" THEN Led ELSE None]
      PROVE  IInv'
  <2>1. LoopTypes'
    BY <1>1, <1>3 DEF LoopTypes, loopVars, sensorVars, exportVars
  <2>2. Turn' /\ LatestReady'
    BY <1>1 DEF Turn, LatestReady, InLoop, AfterInject, SensorReady, loopVars, sensorVars
  <2>3. Bindings'
    BY <1>1, <1>3 DEF Bindings, Functions, loopVars
  <2>4. Exports'
    BY <1>1, <1>3 DEF Exports, Functions, loopVars, exportVars
  <2> QED
    BY <2>1, <2>2, <2>3, <2>4
<1> QED
  BY <1>2, <1>3 DEF Action

(* A new loop has seen no condition, so it owns no binding yet. *)
LEMMA CreateStep == IInv /\ Create => IInv'
<1> SUFFICES ASSUME IInv, Create PROVE IInv'
  OBVIOUS
<1> USE LoopFacts, HashFacts DEF IInv, None
<1>1. /\ at = "idle" /\ loops < MaxLoops
      /\ loops' = loops + 1 /\ latest' = loops + 1
      /\ UNCHANGED <<sensorVars, seen, export, actionVars, at, it, exportVars, enable>>
  BY DEF Create, Idle
<1>2. PICK k \in {"invoke", "sample"}, ro \in BOOLEAN, accepted \in BOOLEAN :
        /\ kind' = [kind EXCEPT ![loops + 1] = k]
        /\ resultsOnly' = [resultsOnly EXCEPT ![loops + 1] = ro]
        /\ queued' = IF SensorReady /\ accepted THEN queued \cup {loops + 1} ELSE queued
  BY DEF Create
<1>3. LoopTypes'
  BY <1>1, <1>2 DEF LoopTypes, sensorVars, actionVars, exportVars
<1>4. Turn'
  BY <1>1 DEF Turn, InLoop, AfterInject
<1>5. LatestReady'
  BY <1>1, <1>2 DEF LoopTypes, LatestReady, SensorReady, sensorVars, InLoop, AfterInject
<1>6. Bindings'
  BY <1>1 DEF LoopTypes, Bindings, actionVars
<1>7. Exports'
  BY <1>1 DEF Exports, actionVars, exportVars
<1> QED
  BY <1>3, <1>4, <1>5, <1>6, <1>7

-----------------------------------------------------------------------------
(* The iteration. *)

LEMMA QueueStep == IInv /\ (Drop \/ Begin) => IInv'
<1> SUFFICES ASSUME IInv, Drop \/ Begin PROVE IInv'
  OBVIOUS
<1> USE LoopFacts DEF IInv, None
<1>1. CASE Drop
  BY <1>1 DEF Drop, Idle, LoopTypes, Turn, LatestReady, Bindings, Exports, actionVars,
     sensorVars, exportVars, SensorReady, InLoop, AfterInject
<1>2. CASE Begin
  <2>1. /\ at = "idle" /\ latest \in queued /\ it' = latest /\ handed' = FALSE
        /\ exporter' = [exporter EXCEPT ![latest] = IF @ = "current" THEN "earlier" ELSE @]
        /\ queued' = queued \ {latest}
        /\ at' = IF kind[latest] = "invoke" THEN "inject" ELSE "start"
        /\ UNCHANGED <<sensorVars, latest, loops, kind, resultsOnly, seen, export,
                       actionVars, enable>>
    BY <1>2 DEF Begin, Idle
  <2>2. LoopTypes'
    BY <2>1 DEF LoopTypes, ExporterStates, sensorVars, actionVars
  <2>3. latest # None
    BY <2>1 DEF LoopTypes
  <2>4. Turn'
    BY <2>1, <2>3 DEF Turn, LoopTypes, InLoop, AfterInject
  <2>5. LatestReady'
    BY <2>1, <2>3 DEF LatestReady, SensorReady, sensorVars
  <2>6. Bindings' /\ Exports'
    BY <2>1 DEF Bindings, Exports, actionVars
  <2> QED
    BY <2>2, <2>4, <2>5, <2>6
<1> QED
  BY <1>1, <1>2

(* Injection gives the running loop every binding of the condition. *)
LEMMA InjectStep == IInv /\ Inject => IInv'
<1> SUFFICES ASSUME IInv, Inject PROVE IInv'
  OBVIOUS
<1> USE LoopFacts, HashFacts DEF IInv, None
<1> DEFINE called == IF cond = NoAction THEN {} ELSE Calls[cond]
<1>1. /\ at = "inject" /\ at' = "start" /\ it = latest /\ it \in Loops /\ it <= loops
      /\ UNCHANGED <<sensorVars, latest, loops, queued, kind, resultsOnly, cond, it,
                     exportVars, enable>>
  BY DEF Inject, Turn, LoopTypes, InLoop, AfterInject
<1>2. CASE seen[it] = HashOf(cond)
  <2>1. UNCHANGED <<seen, export, bound>>
    BY <1>1, <1>2 DEF Inject, NeedsInjection
  <2> QED
    BY <1>1, <1>2, <2>1 DEF LoopTypes, Turn, LatestReady, Bindings, Exports, sensorVars,
       exportVars, SensorReady, InLoop, AfterInject
<1>3. CASE seen[it] # HashOf(cond)
  <2>1. /\ seen' = [seen EXCEPT ![it] = HashOf(cond)]
        /\ export' = [export EXCEPT ![it] = "save_jpeg" \in called]
        /\ bound' = [f \in Functions |-> IF f \in called \ {"led"} THEN it ELSE bound[f]]
    BY <1>1, <1>3 DEF Inject, NeedsInjection
  <2>2. HashOf(cond) \in Nat
    BY DEF LoopTypes
  <2>3. LoopTypes'
    BY <1>1, <2>1, <2>2 DEF LoopTypes, sensorVars, exportVars
  <2>4. Turn' /\ LatestReady'
    BY <1>1, <2>1 DEF LoopTypes, Turn, LatestReady, SensorReady, sensorVars, InLoop,
       AfterInject
  <2>5. \A f \in Functions : f \notin called => bound[f] = None
    BY DEF Bindings
  <2>6. Bindings'
    BY <1>1, <2>1, <2>5 DEF LoopTypes, Bindings, Functions
  <2>7. Exports'
    <3>1. "save_jpeg" \in called => export'[it]
      BY <1>1, <2>1 DEF LoopTypes
    <3>2. bound'["save_jpeg"] = IF "save_jpeg" \in called THEN it ELSE None
      BY <2>1, <2>5 DEF Functions
    <3>3. \A l \in Loops : bound'["save_jpeg"] = l => export'[l]
      BY <1>1, <3>1, <3>2
    <3> QED
      BY <1>1, <3>3 DEF Exports, exportVars
  <2> QED
    BY <2>3, <2>4, <2>6, <2>7
<1> QED
  BY <1>2, <1>3

(* cache and commit leave the exporter something it can hold, and after      *)
(* cache it holds no earlier picture.                                        *)
LEMMA ExporterFacts ==
  ASSUME LoopTypes
  PROVE  /\ \A e \in ExporterStates :
              CacheOutcomes(e) \subseteq ExporterStates \ {"earlier"}
         /\ \A l \in Loops :
              Commit(l) => /\ exporter' = [exporter EXCEPT ![l] = exporter'[l]]
                           /\ exporter'[l] \in {"freed", "empty"}
                           /\ handed' = handed
<1>1. \A e \in ExporterStates : CacheOutcomes(e) \subseteq ExporterStates \ {"earlier"}
  BY DEF CacheOutcomes, ExporterStates
<1>2. \A l \in Loops :
         Commit(l) => /\ exporter' = [exporter EXCEPT ![l] = exporter'[l]]
                      /\ exporter'[l] \in {"freed", "empty"}
                      /\ handed' = handed
  BY DEF Commit, LoopTypes
<1> QED
  BY <1>1, <1>2

(* Between injection and the end of the iteration nothing changes but what  *)
(* the exporters hold.                                                      *)
LEMMA CallStep ==
  IInv /\ (Start \/ Frame \/ Jpeg \/ Run \/ Evaluate) => IInv'
<1> SUFFICES ASSUME IInv, Start \/ Frame \/ Jpeg \/ Run \/ Evaluate PROVE IInv'
  OBVIOUS
<1> USE LoopFacts DEF IInv, None
<1>1. at \in {"start", "frame", "jpeg", "run", "evaluate"} /\ it = latest /\ it # None
  BY DEF Start, Frame, Jpeg, Run, Evaluate, Turn, InLoop, AfterInject
<1>2. UNCHANGED <<sensorVars, loopVars, actionVars, it, enable>>
  BY DEF Start, Frame, Jpeg, Run, Evaluate, Step
<1>3. /\ exporter' \in [Loops -> ExporterStates] /\ handed' \in BOOLEAN
      /\ (at' \in {"run", "evaluate"} /\ export[it])
         => handed' /\ exporter'[it] # "earlier"
  <2>1. CASE Start \/ Frame \/ Run
    BY <1>1, <2>1 DEF Start, Frame, Run, Step, OK, NeedsJpeg, LoopTypes, Exports, exportVars
  <2>2. CASE Jpeg
    <3>1. CASE UNCHANGED exportVars /\ (at' = "run" => ~export[it])
      BY <1>1, <2>2, <3>1 DEF Jpeg, Step, OK, LoopTypes, exportVars
    <3>2. ASSUME NEW e \in CacheOutcomes(exporter[it]), handed' = TRUE,
                 exporter' = [exporter EXCEPT ![it] = e]
          PROVE  /\ exporter' \in [Loops -> ExporterStates] /\ handed' \in BOOLEAN
                 /\ handed' /\ exporter'[it] # "earlier"
      <4>1. it \in Loops /\ exporter \in [Loops -> ExporterStates]
        BY <1>1 DEF LoopTypes
      <4>2. e \in ExporterStates /\ e # "earlier"
        BY <3>2, <4>1, ExporterFacts
      <4> QED
        BY <3>2, <4>1, <4>2
    <3> QED
      BY <2>2, <3>1, <3>2 DEF Jpeg, Step, OK
  <2>3. CASE Evaluate
    <3>1. at' = "stop"
      BY <2>3 DEF Evaluate, Step, OK
    <3>2. CASE UNCHANGED exportVars
      BY <3>1, <3>2 DEF LoopTypes, exportVars
    <3>3. CASE bound["save_jpeg"] \in Loops /\ Commit(bound["save_jpeg"])
      BY <3>1, <3>3, ExporterFacts DEF LoopTypes, ExporterStates
    <3> QED
      BY <2>3, <3>2, <3>3 DEF Evaluate
  <2> QED
    BY <2>1, <2>2, <2>3
<1>4. /\ at' \in {"idle", "frame", "jpeg", "run", "evaluate", "stop"}
      /\ (at' \in {"jpeg", "run", "evaluate"}) => kind[it] = "invoke"
  BY <1>1 DEF Start, Frame, Jpeg, Run, Evaluate, Step, OK, Turn, LoopTypes
<1>5. LoopTypes'
  BY <1>2, <1>3 DEF LoopTypes, sensorVars, loopVars, actionVars
<1>6. Turn'
  BY <1>1, <1>2, <1>4 DEF Turn, InLoop, AfterInject, loopVars, actionVars
<1>7. LatestReady' /\ Bindings'
  BY <1>1, <1>2 DEF LatestReady, Bindings, SensorReady, InLoop, AfterInject, sensorVars,
     loopVars, actionVars
<1>8. Exports'
  BY <1>2, <1>3 DEF Exports, loopVars, actionVars
<1> QED
  BY <1>5, <1>6, <1>7, <1>8

LEMMA StopStep == IInv /\ Stop => IInv'
<1> SUFFICES ASSUME IInv, Stop PROVE IInv'
  OBVIOUS
<1> USE LoopFacts DEF IInv, None
<1>1. /\ at = "stop" /\ at' = "idle" /\ it = latest /\ it \in 1..loops
      /\ queued' \subseteq queued \cup {it}
      /\ UNCHANGED <<sensorVars, latest, loops, kind, resultsOnly, seen, export,
                     actionVars, it, exportVars, enable>>
  BY DEF Stop, Turn, LoopTypes, InLoop, AfterInject
<1>2. LoopTypes'
  BY <1>1 DEF LoopTypes, sensorVars, actionVars, exportVars
<1>3. Turn' /\ LatestReady'
  BY <1>1 DEF Turn, LatestReady, SensorReady, sensorVars, InLoop, AfterInject
<1>4. Bindings' /\ Exports'
  BY <1>1 DEF Bindings, Exports, actionVars, exportVars
<1> QED
  BY <1>2, <1>3, <1>4

-----------------------------------------------------------------------------
(* The latest loop, and only it, owns the bindings of a condition it has    *)
(* seen, and the camera while it may go on.                                 *)
THEOREM Inductive == Spec => []IInv
<1>1. IInv /\ [Next]_vars => IInv'
  <2> SUFFICES ASSUME IInv, [Next]_vars PROVE IInv'
    OBVIOUS
  <2>1. CASE Next
    BY <2>1, SensorStep, ActionStep, CreateStep, QueueStep, InjectStep, CallStep, StopStep
       DEF Next, Commands, Iteration
  <2>2. CASE UNCHANGED vars
    BY <2>2 DEF vars, IInv, LoopTypes, Turn, LatestReady, Bindings, Exports, sensorVars,
       loopVars, actionVars, exportVars, SensorReady
  <2> QED
    BY <2>1, <2>2
<1> QED
  BY InitIInv, <1>1, PTL DEF Spec

(* What the condition calls belongs to the loop that evaluates it: the raw  *)
(* pointers of action_injection never outlive their use.                    *)
THEOREM BindingsLive == Spec => []NoDanglingBinding
<1>1. IInv => NoDanglingBinding
  BY DEF IInv, NoDanglingBinding, Turn, Bindings, InLoop, AfterInject
<1> QED
  BY Inductive, <1>1, PTL

(* When save_jpeg is called, its exporter was handed the picture of the      *)
(* iteration that calls it, and holds none of an earlier one, whatever save, *)
(* allocation or encoding failed before.                                     *)
THEOREM ExportsRight == Spec => []ExportsThisFrame
<1>1. IInv => ExportsThisFrame
  BY LoopFacts DEF IInv, ExportsThisFrame, Turn, LoopTypes, Exports, InLoop, AfterInject, None
<1> QED
  BY Inductive, <1>1, PTL

(* An iteration calls the camera only while its sensor is current and       *)
(* available.                                                               *)
THEOREM SensorThere == Spec => []StartsAvailableSensor
<1>1. IInv => StartsAvailableSensor
  BY DEF IInv, StartsAvailableSensor, Turn, LatestReady, InLoop, AfterInject
<1> QED
  BY Inductive, <1>1, PTL

-----------------------------------------------------------------------------
(* A loop sees by its hash that the condition changed: two changes may look *)
(* like none, one cannot.                                                   *)
LEMMA InjectedStep == IInv /\ Injected /\ [Next]_vars => Injected'
<1> SUFFICES ASSUME IInv, Injected, [Next]_vars PROVE Injected'
  OBVIOUS
<1> USE LoopFacts, HashFacts DEF None
<1>0. /\ cond \in Actions \cup {NoAction} /\ latest \in 0..loops /\ loops \in 0..MaxLoops
      /\ seen \in [Loops -> Nat] /\ bound \in [Functions -> Nat]
  BY DEF IInv, LoopTypes
<1>1. CASE Action
  <2>1. UNCHANGED loopVars
    BY <1>1 DEF Action
  <2>2. PICK c \in Actions \cup {NoAction} :
          IF HashOf(c) = HashOf(cond) THEN UNCHANGED actionVars
          ELSE /\ cond' = c
               /\ bound' = [f \in Functions |->
                              IF c # NoAction /\ f \in Calls[c] /\ f = "led" THEN Led ELSE None]
               /\ changes' = changes + 1
    BY <1>1 DEF Action
  <2>3. CASE HashOf(c) = HashOf(cond)
    BY <2>1, <2>2, <2>3 DEF Injected, loopVars, actionVars
  <2>4. CASE HashOf(c) # HashOf(cond)
    <3>1. /\ cond' = c /\ changes' = changes + 1 /\ changes \in Nat
          /\ bound' = [f \in Functions |->
                          IF c # NoAction /\ f \in Calls[c] /\ f = "led" THEN Led ELSE None]
      BY <2>2, <2>4 DEF Injected
    <3>2. changes' = 1 => changes = 0
      BY <3>1
    <3>3. (c # NoAction /\ "led" \in Calls[c]) => bound'["led"] = Led
      BY <3>1 DEF Functions
    <3>4. HashOf(cond)' = HashOf(c)
      BY <3>1 DEF HashOf
    <3>5. changes' # 0 /\ changes' \in Nat
      BY <3>1
    <3>6. QED
      BY <2>1, <2>4, <3>1, <3>2, <3>3, <3>4, <3>5 DEF Injected, loopVars
  <2>5. QED
    BY <2>3, <2>4
<1>2. CASE Create
  <2>1. /\ latest' = loops + 1 /\ loops < MaxLoops /\ UNCHANGED <<seen, cond, bound, changes>>
    BY <1>2 DEF Create, actionVars
  <2>2. seen[loops + 1] = NewHash
    BY <1>0, <2>1 DEF IInv, Bindings
  <2>3. QED
    BY <2>1, <2>2 DEF Injected
<1>3. CASE Inject
  <2>1. /\ it = latest /\ it # None /\ it \in Loops /\ UNCHANGED <<latest, cond>>
    BY <1>0, <1>3 DEF Inject, IInv, Turn, InLoop, AfterInject
  <2>2. CASE seen[it] = HashOf(cond)
    <3>1. UNCHANGED <<seen, bound, changes>>
      BY <1>3, <2>2 DEF Inject, NeedsInjection
    <3>2. QED
      BY <2>1, <3>1 DEF Injected
  <2>3. CASE seen[it] # HashOf(cond)
    <3> DEFINE called == IF cond = NoAction THEN {} ELSE Calls[cond]
    <3>1. /\ seen' = [seen EXCEPT ![it] = HashOf(cond)]
          /\ bound' = [f \in Functions |-> IF f \in called \ {"led"} THEN it ELSE bound[f]]
          /\ changes' = 0
      BY <1>3, <2>3 DEF Inject, NeedsInjection
    <3>2. cond # NoAction => called = Calls[cond] /\ Calls[cond] \subseteq Functions
      BY <1>0, HashAssumption
    <3>3. seen'[latest] = HashOf(cond) /\ 0 \in Nat /\ "led" \in Functions
      BY <1>0, <2>1, <3>1 DEF Functions
    <3>4. (cond # NoAction /\ "led" \in Calls[cond]) => bound'["led"] = Led
      BY <3>1, <3>3 DEF Injected
    <3>5. cond # NoAction => \A f \in Calls[cond] : bound'[f] # None
      BY <2>1, <3>1, <3>2, <3>4
    <3>6. QED
      BY <2>1, <3>1, <3>3, <3>4, <3>5 DEF Injected
  <2>4. QED
    BY <2>2, <2>3
<1>4. CASE Sensor \/ SensorDeinit \/ SensorInit \/ Break
  <2>1. (latest' = None \/ latest' = latest) /\ UNCHANGED <<seen, actionVars>>
    BY <1>4 DEF Sensor, SensorDeinit, SensorInit, Break, Supersede, loopVars
  <2>2. QED
    BY <2>1 DEF Injected, actionVars
<1>5. CASE Drop \/ Begin \/ Start \/ Frame \/ Jpeg \/ Run \/ Evaluate \/ Stop \/ UNCHANGED vars
  <2>1. UNCHANGED <<latest, seen, actionVars>>
    BY <1>5 DEF Drop, Begin, Start, Frame, Jpeg, Run, Evaluate, Stop, Step, vars, loopVars
  <2>2. QED
    BY <2>1 DEF Injected, actionVars
<1>6. QED
  BY <1>1, <1>2, <1>3, <1>4, <1>5 DEF Next, Commands, Iteration

(* A function of the condition is unbound when it is called only if the     *)
(* condition changed twice since the last injection.                        *)
THEOREM UnboundRight == Spec => []UnboundOnlyAfterReturn
<1>1. Init => Injected
  BY DEF Init, Injected, None
<1>2. IInv /\ Injected => UnboundOnlyAfterReturn
  <2> SUFFICES ASSUME IInv, Injected, at = "evaluate", cond # NoAction,
                      NEW f \in Calls[cond], bound[f] = None
               PROVE  changes >= 2
    BY DEF UnboundOnlyAfterReturn
  <2>1. it = latest /\ it # None /\ seen[it] = HashOf(cond)
    BY DEF IInv, Turn, InLoop, AfterInject
  <2>2. seen[latest] # NewHash
    BY <2>1, HashFacts DEF IInv, LoopTypes
  <2>3. changes \in Nat /\ changes # 0 /\ changes # 1
    BY <2>1, <2>2 DEF Injected
  <2>4. QED
    BY <2>3
<1>3. QED
  BY Inductive, <1>1, InjectedStep, <1>2, PTL DEF Spec

-----------------------------------------------------------------------------
(* The camera keeps its stream and its frame buffer only by an error.       *)

(* What the calls of either driver do to the stream and to the buffer.      *)
LEMMA CallFacts ==
  ASSUME Streams, NEW r
  PROVE  /\ StartStream(r) => /\ CameraOK' /\ port' = port /\ present' = present
                              /\ r # OK => streaming' = streaming /\ lent' = lent
                              /\ (r = OK /\ port = "esp") => fb' /\ lent' = 1 /\ present
                              /\ port = "we2" => lent' = 0
         /\ GetFrame(r) => /\ CameraOK' /\ UNCHANGED <<port, present, fb, lent>>
         /\ (StopStream(r) /\ at = "stop") =>
              /\ CameraOK' /\ port' = port /\ present' = present
              /\ port = "we2" => lent' = 0
              /\ lent' > 0 => lent > 0
              /\ r = OK => ~streaming' /\ lent' = 0
<1> USE DEF OK
<1>1. CASE port = "we2"
  <2>1. lent = 0 /\ CameraOK
    BY <1>1 DEF Streams
  <2>2. QED
    BY <1>1, <2>1 DEF StartStream, StartWE2, GetFrame, StopStream, StopWE2, CameraOK, cameraVars
<1>2. CASE port = "esp"
  <2>1. /\ lent \in {0, 1} /\ streaming \in BOOLEAN /\ fb \in BOOLEAN /\ present \in BOOLEAN
        /\ at = "stop" => fb /\ lent = 1
    BY <1>2 DEF Streams, InStream, CameraOK, FrameBuffers
  <2>2. ASSUME StartStream(r)
        PROVE  /\ CameraOK' /\ port' = port /\ present' = present
               /\ r # OK => streaming' = streaming /\ lent' = lent
               /\ r = OK => fb' /\ lent' = 1 /\ present
    BY <1>2, <2>1, <2>2 DEF StartStream, StartEsp, CameraOK, FrameBuffers
  <2>3. ASSUME GetFrame(r)
        PROVE  CameraOK' /\ UNCHANGED <<port, present, fb, lent>>
    BY <1>2, <2>1, <2>3 DEF GetFrame, CameraOK, FrameBuffers
  <2>4. ASSUME StopStream(r), at = "stop"
        PROVE  /\ CameraOK' /\ port' = port /\ present' = present
               /\ lent' > 0 => lent > 0
               /\ r = OK => ~streaming' /\ lent' = 0
    <3>1. /\ r = IF streaming THEN "ok" ELSE "ELOG"
          /\ streaming' = FALSE /\ lent' = IF streaming /\ fb THEN lent - 1 ELSE lent
          /\ port' = port /\ present' = present /\ fb' = fb
      BY <1>2, <2>4 DEF StopStream, StopEsp
    <3>2. fb /\ lent = 1 /\ lent' = (IF streaming THEN 0 ELSE 1) /\ lent' \in 0..1
      BY <2>1, <2>4, <3>1
    <3>3. QED
      <4>1. /\ port' \in {"we2", "esp"} /\ present' \in BOOLEAN /\ fb' \in BOOLEAN
            /\ lent' \in 0..FrameBuffers
        BY <1>2, <2>1, <3>1, <3>2 DEF FrameBuffers
      <4>2. streaming' \in BOOLEAN
        BY <3>1
      <4>3. r = "ok" => ~streaming' /\ lent' = 0
        BY <3>1, <3>2
      <4>4. lent' > 0 => lent > 0
        BY <3>2
      <4>5. QED
        BY <3>1, <4>1, <4>2, <4>3, <4>4 DEF CameraOK
  <2>5. QED
    BY <1>2, <2>2, <2>3, <2>4
<1>3. QED
  BY <1>1, <1>2 DEF Streams, CameraOK

(* SENSOR: deinit takes the buffer back, init finds none lent. *)
LEMMA SensorStreams ==
  IInv /\ Streams /\ (Sensor \/ SensorDeinit \/ SensorInit) => Streams'
<1> SUFFICES ASSUME IInv, Streams, Sensor \/ SensorDeinit \/ SensorInit PROVE Streams'
  OBVIOUS
<1> USE DEF OK, InStream, FrameBuffers
<1>0. /\ port \in {"we2", "esp"} /\ present \in BOOLEAN /\ streaming \in BOOLEAN
      /\ fb \in BOOLEAN /\ lent \in {0, 1}
  BY DEF Streams, CameraOK
<1>1. CASE Sensor
  <2>1. /\ at = "idle" /\ at' = (IF present THEN "deinit" ELSE "init")
        /\ UNCHANGED <<cameraVars, erred>>
    BY <1>1 DEF Sensor, Take, Idle
  <2>2. UNCHANGED <<port, present, streaming, fb, lent, erred>>
    BY <2>1 DEF cameraVars
  <2>3. QED
    BY <1>0, <2>1, <2>2 DEF Streams, CameraOK
<1>2. CASE SensorDeinit
  <2>1. PICK r \in Codes :
          /\ Deinit(r)
          /\ IF r = OK THEN at' = "init" /\ UNCHANGED <<sensorVars, erred>> ELSE SensorError
    BY <1>2 DEF SensorDeinit
  <2>2. /\ at = "deinit" /\ erred' = erred /\ at' = IF r = OK THEN "init" ELSE "idle"
    BY <1>2, <2>1 DEF SensorDeinit, SensorError
  <2>3. /\ UNCHANGED <<port, streaming, fb>>
        /\ present' = (r # OK)
        /\ lent' = IF port = "esp" /\ r = OK THEN 0 ELSE lent
    BY <1>0, <2>1 DEF Deinit, DeinitWE2, DeinitEsp
  <2>4. QED
    BY <1>0, <2>2, <2>3 DEF Streams, CameraOK
<1>3. CASE SensorInit
  <2>1. PICK r \in Codes :
          /\ IF enable THEN CamInit(r) ELSE r = OK /\ UNCHANGED cameraVars
          /\ IF r = OK
             THEN /\ at' = "idle"
                  /\ sensorState' = "available" /\ sensorId' = TRUE
                  /\ erred' = IF erred = "since" THEN "before" ELSE erred
             ELSE SensorError
    BY <1>3 DEF SensorInit
  <2>2. /\ at = "init" /\ lent = 0 /\ at' = "idle"
        /\ erred' = erred \/ erred' = "before"
        /\ erred' = "never" => erred = "never"
    BY <1>3, <2>1 DEF SensorInit, SensorError, Streams
  <2>3. /\ UNCHANGED <<port, streaming, fb, lent>> /\ present' \in BOOLEAN
    <3>1. CASE enable
      BY <1>0, <2>1, <3>1 DEF CamInit, CamInitWE2, CamInitEsp
    <3>2. CASE ~enable
      BY <1>0, <2>1, <3>2 DEF cameraVars
    <3>3. QED
      BY <3>1, <3>2
  <2>4. QED
    BY <1>0, <2>2, <2>3 DEF Streams, CameraOK
<1>4. QED
  BY <1>1, <1>2, <1>3

LEMMA IterationStreams ==
  IInv /\ Streams /\ (Start \/ Frame \/ Jpeg \/ Run \/ Evaluate \/ Stop) => Streams'
<1> SUFFICES ASSUME IInv, Streams, Start \/ Frame \/ Jpeg \/ Run \/ Evaluate \/ Stop
             PROVE  Streams'
  OBVIOUS
<1> USE DEF InStream
<1>1. CASE Start
  <2>1. PICK r \in Codes : StartStream(r) /\ Step(r, "frame")
    BY <1>1 DEF Start
  <2>2. at = "start" /\ erred' = erred /\ at' = IF r = OK THEN "frame" ELSE "idle"
    BY <1>1, <2>1 DEF Start, Step
  <2>3. /\ CameraOK' /\ port' = port /\ present' = present
        /\ r # OK => streaming' = streaming /\ lent' = lent
        /\ (r = OK /\ port = "esp") => fb' /\ lent' = 1 /\ present
        /\ port = "we2" => lent' = 0
        /\ port \in {"we2", "esp"}
    BY <2>1, CallFacts DEF Streams, CameraOK
  <2>4. CASE r = OK
    BY <2>2, <2>3, <2>4 DEF Streams
  <2>5. CASE r # OK
    BY <2>2, <2>3, <2>5 DEF Streams
  <2>6. QED
    BY <2>4, <2>5
<1>2. ASSUME at \in InStream \ {"stop"}, NEW r, NEW next \in InStream, Step(r, next),
             CameraOK', UNCHANGED <<port, present, fb, lent>>
      PROVE  Streams'
  <2>1. /\ at' = (IF r = OK THEN next ELSE "idle")
        /\ erred' = IF r # OK THEN "since" ELSE erred
    BY <1>2 DEF Step
  <2>2. QED
    BY <1>2, <2>1 DEF Streams
<1>3. CASE Frame
  <2>1. PICK r \in Codes, next \in InStream : GetFrame(r) /\ Step(r, next)
    BY <1>3 DEF Frame
  <2>2. QED
    BY <1>2, <1>3, <2>1, CallFacts DEF Frame
<1>4. CASE Jpeg
  <2>1. PICK r \in Codes :
          /\ IF port = "we2" THEN GetFrame(r) ELSE r = OK /\ UNCHANGED cameraVars
          /\ Step(r, "run")
    BY <1>4 DEF Jpeg
  <2>2. CameraOK' /\ UNCHANGED <<port, present, fb, lent>>
    BY <2>1, CallFacts DEF Streams, CameraOK, cameraVars
  <2>3. QED
    BY <1>2, <1>4, <2>1, <2>2 DEF Jpeg
<1>5. CASE Run \/ Evaluate
  <2>1. \E r : \E next \in InStream : Step(r, next)
    <3>1. "evaluate" \in InStream /\ "stop" \in InStream
      OBVIOUS
    <3>2. CASE Run
      BY <3>1, <3>2 DEF Run
    <3>3. CASE Evaluate
      BY <3>1, <3>3 DEF Evaluate
    <3>4. QED
      BY <1>5, <3>2, <3>3
  <2>2. CameraOK' /\ UNCHANGED <<port, present, fb, lent>> /\ at \in InStream \ {"stop"}
    BY <1>5 DEF Run, Evaluate, Streams, CameraOK, cameraVars
  <2>3. QED
    BY <1>2, <2>1, <2>2
<1>6. CASE Stop
  <2>1. PICK r \in Codes : StopStream(r) /\ erred' = IF r = OK THEN erred ELSE "since"
    BY <1>6 DEF Stop
  <2>2. at = "stop" /\ at' = "idle"
    BY <1>6 DEF Stop
  <2>3. QED
    BY <2>1, <2>2, CallFacts DEF Streams
<1>7. QED
  BY <1>1, <1>3, <1>4, <1>5, <1>6

(* Between two tasks the stream is off and the driver has its frame buffer  *)
(* back, unless an iteration failed since the stream was started.           *)
THEOREM StreamRight == Spec => []StreamLeftOnlyByError
<1>1. Init => Streams
  <2> SUFFICES ASSUME Init PROVE Streams
    OBVIOUS
  <2>1. /\ port \in {"we2", "esp"} /\ present = FALSE /\ streaming = FALSE /\ fb = FALSE
        /\ lent = 0 /\ at = "idle" /\ erred = "never"
    BY DEF Init, CameraInit
  <2>2. present \in BOOLEAN /\ streaming \in BOOLEAN /\ fb \in BOOLEAN /\ lent \in 0..1
    <3>1. lent \in 0..1
      BY <2>1
    <3>2. present \in BOOLEAN /\ streaming \in BOOLEAN /\ fb \in BOOLEAN
      BY <2>1, Zenon
    <3>3. QED
      BY <3>1, <3>2
  <2>3. ~streaming /\ ~(lent > 0) /\ at \notin InStream /\ at # "init"
    BY <2>1 DEF InStream
  <2>4. QED
    BY <2>1, <2>2, <2>3 DEF Streams, CameraOK, FrameBuffers
<1>2. IInv /\ Streams /\ [Next]_vars => Streams'
  <2> SUFFICES ASSUME IInv, Streams, [Next]_vars PROVE Streams'
    OBVIOUS
  <2>1. CASE Action \/ Break \/ Create \/ Drop \/ Begin \/ Inject \/ UNCHANGED vars
    <3>1. /\ UNCHANGED <<port, present, streaming, fb, lent, erred>>
          /\ at' \in InStream <=> at \in InStream
          /\ at' = "init" <=> at = "init"
      <4>1. UNCHANGED <<cameraVars, erred>>
        BY <2>1 DEF Action, Break, Create, Drop, Begin, Inject, vars
      <4>2. at' = at \/ (at' \in {"inject", "start"} /\ at \in {"idle", "inject"})
        BY <2>1 DEF Action, Break, Create, Drop, Begin, Inject, Idle, vars
      <4>3. QED
        BY <4>1, <4>2 DEF cameraVars, InStream
    <3>2. QED
      BY <2>1, <3>1 DEF Streams, CameraOK
  <2>2. QED
    BY <2>1, SensorStreams, IterationStreams DEF Next, Commands, Iteration
<1>3. Streams => StreamLeftOnlyByError
  BY DEF Streams, StreamLeftOnlyByError, Idle, InStream
<1>4. QED
  BY Inductive, <1>1, <1>2, <1>3, PTL DEF Spec
=============================================================================
