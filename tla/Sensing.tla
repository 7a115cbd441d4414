------------------------------ MODULE Sensing -------------------------------
(***************************************************************************)
(* What the executor's worker does with the camera and with the action     *)
(* condition: the iterations of INVOKE and SAMPLE (Invoke::event_loop_cam, *)
(* Sample::event_loop_cam), call by call with every error path, and the    *)
(* commands that run between two iterations: SENSOR, ACTION, BREAK and the *)
(* INVOKE or SAMPLE that replaces a running one.                           *)
(*                                                                         *)
(* The condition is one object; the functions its expression calls are     *)
(* bound by set_action (led) and by each INVOKE for its own algorithm and  *)
(* exporter (action_injection), with raw pointers.  A loop stands for its  *)
(* Invoke or Sample object and for its algorithm.  Which loop may go on,   *)
(* and the queue, are CommandTasks'; here a loop ends when it pleases.     *)
(***************************************************************************)
EXTENDS Camera, FiniteSets

CONSTANTS
  Actions,      \* action expressions that parse
  Calls,        \* the functions each one calls: subsets of Functions
  Hash,         \* the CRC-16 of each one
  NoAction,     \* no condition is set
  MaxLoops,     \* bound: INVOKE and SAMPLE commands
  MaxCommands   \* bound: SENSOR, ACTION and BREAK commands

Functions == {"count", "led", "save_jpeg"}
EmptyHash == 65535     \* _exp_hash without a condition
NewHash   == 0         \* _action_hash of a new Invoke

\* The expressions in use do not collide, and none has the hash a new Invoke
\* starts with; see the README for those that do.
ASSUME HashAssumption ==
  /\ Calls \in [Actions -> SUBSET Functions]
  /\ Hash \in [Actions -> Nat \ {NewHash, EmptyHash}]
  /\ \A a, b \in Actions : Hash[a] = Hash[b] => a = b
  /\ NoAction \notin Actions

ASSUME BoundAssumption == MaxLoops \in Nat /\ MaxCommands \in Nat

Loops == 1..MaxLoops
None  == 0              \* no loop; a function bound to nothing
Led   == MaxLoops + 1   \* the binding of led

VARIABLES
  sensorId,     \* current_sensor_id is that of the camera, not 0
  sensorState,  \* "registered", "available" or "locked"
  latest,       \* the loop current_task_id belongs to, or None
  loops,        \* the loops created
  queued,       \* loops whose next iteration is queued
  kind,         \* per loop: "invoke" or "sample"
  resultsOnly,  \* per loop: _results_only
  seen,         \* per loop: _action_hash
  export,       \* per loop: _contents_export
  at,           \* where the iteration is, or "idle"
  it,           \* the loop it belongs to
  exporter,     \* per loop: the picture its ContentsExport holds
  handed,       \* history: the exporter was handed a picture of this iteration
  cond,         \* the condition in place
  bound,        \* what each function of the condition is bound to
  changes,      \* history: conditions put in place since the last injection
  enable,       \* the argument of the SENSOR command that runs
  erred,        \* history: an iteration ended in an error after it had started the
                \* stream: "never", "since" the last SENSOR answered OK, or "before"
  commands

sensorVars == <<sensorId, sensorState>>
loopVars   == <<latest, loops, queued, kind, resultsOnly, seen, export>>
actionVars == <<cond, bound, changes>>
exportVars == <<exporter, handed>>
vars == <<cameraVars, sensorVars, loopVars, actionVars, exportVars, at, it,
          enable, erred, commands>>

Init ==
  /\ CameraInit
  /\ sensorId = TRUE /\ sensorState = "registered"
  /\ latest = None /\ loops = 0 /\ queued = {}
  /\ kind = [l \in Loops |-> "invoke"]
  /\ resultsOnly = [l \in Loops |-> FALSE]
  /\ seen = [l \in Loops |-> NewHash]
  /\ export = [l \in Loops |-> FALSE]
  /\ exporter = [l \in Loops |-> "null"] /\ handed = FALSE
  /\ at = "idle" /\ it = None
  /\ cond = NoAction /\ bound = [f \in Functions |-> None]
  /\ changes = 0
  /\ enable = FALSE /\ erred = "never" /\ commands = 0

-----------------------------------------------------------------------------
(* SENSOR: stop the camera if it is there, start it if the command says    *)
(* so.  The command moves current_task_id, whatever comes of it.           *)

Idle == at = "idle"

\* One more command runs, between two iterations.
Take == Idle /\ commands < MaxCommands /\ commands' = commands + 1

\* Mutant of Supersede: SENSOR leaves current_task_id alone.
SupersedeNot == UNCHANGED latest

Supersede == latest' = None

Sensor ==
  /\ Take
  /\ enable' \in BOOLEAN
  /\ at' = IF present THEN "deinit" ELSE "init"
  /\ Supersede
  /\ sensorState' = "locked"
  /\ UNCHANGED <<cameraVars, sensorId, loops, queued, kind, resultsOnly, seen, export,
                 actionVars, exportVars, it, erred>>

SensorError == at' = "idle" /\ sensorId' = FALSE /\ UNCHANGED <<sensorState, erred>>

SensorDeinit ==
  /\ at = "deinit"
  /\ \E r \in Codes :
       /\ Deinit(r)
       /\ IF r = OK THEN at' = "init" /\ UNCHANGED <<sensorVars, erred>> ELSE SensorError
  /\ UNCHANGED <<loopVars, actionVars, exportVars, it, enable, commands>>

SensorInit ==
  /\ at = "init"
  /\ \E r \in Codes :
       /\ IF enable THEN CamInit(r) ELSE r = OK /\ UNCHANGED cameraVars
       /\ IF r = OK
          THEN /\ at' = "idle"
               /\ sensorState' = "available" /\ sensorId' = TRUE
               /\ erred' = IF erred = "since" THEN "before" ELSE erred
          ELSE SensorError
  /\ UNCHANGED <<loopVars, actionVars, exportVars, it, enable, commands>>

-----------------------------------------------------------------------------
(* ACTION and BREAK.                                                       *)

HashOf(c) == IF c = NoAction THEN EmptyHash ELSE Hash[c]

\* set_condition and set_action: a new expression starts with its functions
\* unbound, and set_action binds led; the old one again changes nothing.
Action ==
  /\ Take
  /\ \E c \in Actions \cup {NoAction} :
       IF HashOf(c) = HashOf(cond) THEN UNCHANGED actionVars
       ELSE /\ cond' = c
            /\ bound' = [f \in Functions |->
                           IF c # NoAction /\ f \in Calls[c] /\ f = "led" THEN Led ELSE None]
            /\ changes' = changes + 1
  /\ UNCHANGED <<cameraVars, sensorVars, loopVars, at, exportVars, it, enable, erred>>

Break ==
  /\ Take
  /\ latest' = None
  /\ UNCHANGED <<cameraVars, sensorVars, loops, queued, kind, resultsOnly, seen, export,
                 actionVars, at, exportVars, it, enable, erred>>
-----------------------------------------------------------------------------
(* INVOKE and SAMPLE.                                                      *)

SensorReady == sensorId /\ sensorState = "available"

\* prepare: the loop supersedes the running one even when it is refused; an
\* INVOKE is also refused for its model or its algorithm.
Create ==
  /\ Idle /\ loops < MaxLoops
  /\ loops' = loops + 1 /\ latest' = loops + 1
  /\ \E k \in {"invoke", "sample"}, ro, accepted \in BOOLEAN :
       /\ (k = "sample") => accepted
       /\ kind' = [kind EXCEPT ![loops + 1] = k]
       /\ resultsOnly' = [resultsOnly EXCEPT ![loops + 1] = ro]
       /\ queued' = IF SensorReady /\ accepted THEN queued \cup {loops + 1} ELSE queued
  /\ UNCHANGED <<cameraVars, sensorVars, seen, export, actionVars, at, exportVars, it,
                 enable, erred, commands>>

\* A queued iteration of a superseded loop, or of one whose count is used up or
\* that sees the stop flag, does nothing, and its object is gone.
Drop ==
  /\ Idle
  /\ \E l \in queued : queued' = queued \ {l}
  /\ UNCHANGED <<cameraVars, sensorVars, latest, loops, kind, resultsOnly, seen, export,
                 actionVars, at, exportVars, it, enable, erred, commands>>

Begin ==
  /\ Idle
  /\ \E l \in queued :
       /\ l = latest
       /\ queued' = queued \ {l}
       /\ it' = l
       /\ at' = IF kind[l] = "invoke" THEN "inject" ELSE "start"
       /\ exporter' = [exporter EXCEPT ![l] = IF @ = "current" THEN "earlier" ELSE @]
  /\ handed' = FALSE
  /\ UNCHANGED <<cameraVars, sensorVars, latest, loops, kind, resultsOnly, seen, export,
                 actionVars, enable, erred, commands>>

\* Mutant of NeedsInjection: bindings are left alone while they are complete.
NeedsInjectionIfUnbound(l) ==
  cond # NoAction /\ \E f \in Calls[cond] : bound[f] = None

\* Mutant of NeedsInjection: the hash seen last is never compared.
NeedsInjectionNot(l) == FALSE

NeedsInjection(l) == seen[l] # HashOf(cond)

\* action_injection binds the loop's algorithm and exporter.
Inject ==
  /\ at = "inject"
  /\ at' = "start"
  /\ LET called == IF cond = NoAction THEN {} ELSE Calls[cond]
     IN IF NeedsInjection(it)
        THEN /\ seen' = [seen EXCEPT ![it] = HashOf(cond)]
             /\ export' = [export EXCEPT ![it] = "save_jpeg" \in called]
             /\ bound' = [f \in Functions |->
                            IF f \in called \ {"led"} THEN it ELSE bound[f]]
             /\ changes' = 0
        ELSE UNCHANGED <<seen, export, bound, changes>>
  /\ UNCHANGED <<cameraVars, sensorVars, latest, loops, queued, kind, resultsOnly, cond,
                 exportVars, it, enable, erred, commands>>

\* One call of the iteration: on OK it goes on at next, otherwise the loop ends.
Step(r, next) ==
  /\ at' = IF r = OK THEN next ELSE "idle"
  /\ erred' = IF r # OK /\ at # "start" THEN "since" ELSE erred
  /\ UNCHANGED <<sensorVars, loopVars, actionVars, it, enable, commands>>

Start ==
  /\ at = "start"
  /\ \E r \in Codes : StartStream(r) /\ Step(r, "frame")
  /\ UNCHANGED exportVars

\* Mutant of NeedsJpeg: a loop that sends results only never encodes a frame.
NeedsJpegIfSent(l) == ~resultsOnly[l]

NeedsJpeg(l) == ~resultsOnly[l] \/ export[l]

Frame ==
  /\ at = "frame"
  /\ \E r \in Codes :
       /\ GetFrame(r)
       /\ Step(r, IF kind[it] = "sample" THEN "stop" ELSE IF NeedsJpeg(it) THEN "jpeg" ELSE "run")
  /\ UNCHANGED exportVars

\* cache keeps the buffer it has, allocates its first or reallocates it, and each
\* allocation may fail.  A reallocation deletes the buffer and assigns the new one
\* to a local of the same name: the exporter is left with the deleted one for good.
\* Of a picture without bytes, as after an encoding that failed, it holds nothing.
CacheOutcomes(e) ==
  CASE e = "null"  -> {"current", "empty", "null"}
    [] e = "freed" -> {"freed"}
    [] OTHER       -> {"current", "empty", "freed"}

\* The Himax port asks the camera for the picture; the other encodes the frame, and
\* goes on whether or not that succeeds, as both do whatever cache returns.
Jpeg ==
  /\ at = "jpeg"
  /\ \E r \in Codes :
       /\ IF port = "we2" THEN GetFrame(r) ELSE r = OK /\ UNCHANGED cameraVars
       /\ Step(r, "run")
       /\ IF r = OK /\ export[it]
          THEN /\ handed' = TRUE
               /\ \E e \in CacheOutcomes(exporter[it]) :
                    exporter' = [exporter EXCEPT ![it] = e]
          ELSE UNCHANGED exportVars

Run ==
  /\ at = "run"
  /\ \E r \in {OK, "ELOG"} : Step(r, "evaluate")
  /\ UNCHANGED <<cameraVars, exportVars>>

\* commit writes what the exporter holds to a file, and forgets it.
Commit(l) ==
  /\ exporter[l] \notin {"null", "empty"}
  /\ exporter' = [exporter EXCEPT ![l] = IF @ = "freed" THEN @ ELSE "empty"]
  /\ UNCHANGED handed

\* evaluate calls the bound functions, led and save_jpeg for their effect.  The
\* expression may not come to save_jpeg, the exporter may hold nothing and the file
\* system may fail at any place: then nothing is saved, and save_jpeg returns 0.
Evaluate ==
  /\ at = "evaluate"
  /\ Step(OK, "stop")
  /\ \/ UNCHANGED exportVars
     \/ bound["save_jpeg"] \in Loops /\ Commit(bound["save_jpeg"])
  /\ UNCHANGED cameraVars

Stop ==
  /\ at = "stop"
  /\ \E r \in Codes :
       /\ StopStream(r)
       /\ at' = "idle"
       /\ queued' = IF r = OK THEN queued \cup {it} ELSE queued
       /\ erred' = IF r = OK THEN erred ELSE "since"
  /\ UNCHANGED <<sensorVars, latest, loops, kind, resultsOnly, seen, export, actionVars,
                 exportVars, it, enable, commands>>

Iteration == Inject \/ Start \/ Frame \/ Jpeg \/ Run \/ Evaluate \/ Stop
Commands  == Sensor \/ SensorDeinit \/ SensorInit \/ Action \/ Break \/ Create
Next == Commands \/ Drop \/ Begin \/ Iteration

Spec == Init /\ [][Next]_vars

-----------------------------------------------------------------------------
\* No buffer, one that holds nothing, the picture of this iteration or of one before
\* it, and one that was deleted.
ExporterStates == {"null", "empty", "current", "earlier", "freed"}

TypeOK ==
  /\ CameraOK
  /\ sensorId \in BOOLEAN /\ sensorState \in {"registered", "available", "locked"}
  /\ latest \in Loops \cup {None} /\ loops \in 0..MaxLoops /\ queued \subseteq Loops
  /\ at \in {"idle", "deinit", "init", "inject", "start", "frame", "jpeg", "run",
             "evaluate", "stop"}
  /\ it \in Loops \cup {None}
  /\ bound \in [Functions -> 0..Led]
  /\ exporter \in [Loops -> ExporterStates] /\ handed \in BOOLEAN

\* A function of the condition is bound to the algorithm or the exporter of the
\* loop that evaluates it, never to those of a loop that is gone: the binding of
\* count is a raw pointer that outlives the algorithm, the one of save_jpeg would
\* save the pictures of another INVOKE.
NoDanglingBinding ==
  (at = "evaluate") => \A f \in Functions : bound[f] \in {None, Led, it}

\* A function of the condition is unbound, and the evaluation an exception, only
\* if the expression was replaced and set again between two iterations: the hash
\* the loop compares is then the old one.
UnboundOnlyAfterReturn ==
  (at = "evaluate" /\ cond # NoAction /\ \E f \in Calls[cond] : bound[f] = None)
  => changes >= 2

\* docs/protocol/at_protocol.md on save_jpeg(): "Save current frame".  When it is called
\* the exporter was handed a picture of this iteration, whatever the expression and
\* the results-only flag, and it holds none of an earlier one: not after a save that
\* failed and left one behind, nor where this one's encoding or allocation failed.
\* It may hold nothing, or the deleted buffer a reallocation leaves, whatever is in it.
ExportsThisFrame ==
  (at = "evaluate" /\ bound["save_jpeg"] = it) => handed /\ exporter[it] # "earlier"

\* Between two tasks the stream is off and the driver has its frame buffer back,
\* unless an iteration failed: the error paths return without stop_stream.  On
\* the ESP32 port a SENSOR command answered OK puts this right, on the Himax
\* port nothing does.
StreamLeftOnlyByError ==
  Idle => /\ streaming => erred # "never"
          /\ (lent > 0) => erred = "since"

\* An iteration uses the camera only while its sensor is the current one and is
\* available: the loop checked that once, when it was prepared, and a SENSOR that
\* fails takes the sensor away, so SENSOR has to end the loops that ran before it.
StartsAvailableSensor ==
  (at \in {"start", "frame", "jpeg", "run", "stop"}) => SensorReady

(* The parts of the inductive invariant of SensingProofs. *)
LoopTypes ==
  /\ loops \in 0..MaxLoops /\ latest \in 0..loops /\ queued \subseteq 1..loops
  /\ kind \in [Loops -> {"invoke", "sample"}]
  /\ seen \in [Loops -> Nat]
  /\ export \in [Loops -> BOOLEAN] /\ resultsOnly \in [Loops -> BOOLEAN]
  /\ cond \in Actions \cup {NoAction} /\ bound \in [Functions -> Nat]
  /\ sensorId \in BOOLEAN /\ enable \in BOOLEAN
  /\ exporter \in [Loops -> ExporterStates] /\ handed \in BOOLEAN

\* Only the latest loop runs, only an INVOKE goes where results are, and it has
\* seen the condition in place.
AfterInject == {"start", "frame", "jpeg", "run", "evaluate", "stop"}
InLoop      == AfterInject \cup {"inject"}

Turn ==
  /\ at \in InLoop \cup {"idle", "deinit", "init"}
  /\ at \in InLoop => it = latest /\ it # None
  /\ at \in {"inject", "jpeg", "run", "evaluate"} => kind[it] = "invoke"
  /\ (at \in AfterInject /\ kind[it] = "invoke") => seen[it] = HashOf(cond)
  /\ at \in {"deinit", "init"} => latest = None

\* The latest loop has its sensor as long as it may go on.
LatestReady ==
  (latest # None /\ (latest \in queued \/ at \in InLoop)) => SensorReady

\* A loop that has seen the condition in place owns its bindings.
Bindings ==
  /\ \A l \in Loops : l > loops => seen[l] = NewHash
  /\ \A f \in Functions : (cond = NoAction \/ f \notin Calls[cond]) => bound[f] = None
  /\ bound["led"] \in {None, Led}
  /\ (latest # None /\ seen[latest] = HashOf(cond))
     => \A f \in Functions : bound[f] \in {None, Led, latest}

\* Whoever save_jpeg is bound to is handed its pictures, before it may save one.
Exports ==
  /\ \A l \in Loops : bound["save_jpeg"] = l => export[l]
  /\ (at \in {"run", "evaluate"} /\ export[it]) => handed /\ exporter[it] # "earlier"

IInv == LoopTypes /\ Turn /\ LatestReady /\ Bindings /\ Exports

\* The latest loop that has seen a condition has seen the last one injected; a
\* condition put in place since is another one, the second since may be it again.
Injected ==
  /\ changes \in Nat
  /\ (cond # NoAction /\ "led" \in Calls[cond]) => bound["led"] = Led
  /\ (latest # None /\ seen[latest] # NewHash) =>
       /\ changes = 0 => seen[latest] = HashOf(cond)
       /\ (changes = 0 /\ cond # NoAction) => \A f \in Calls[cond] : bound[f] # None
       /\ changes = 1 => seen[latest] # HashOf(cond)

\* The stream is on, and the frame buffer lent, for the calls between
\* start_stream and stop_stream and after an error; deinit takes the buffer back.
InStream == {"frame", "jpeg", "run", "evaluate", "stop"}

Streams ==
  /\ CameraOK /\ erred \in {"never", "since", "before"}
  /\ port = "we2" => lent = 0
  /\ lent > 0 => present
  /\ at = "init" => lent = 0
  /\ (at \in InStream /\ port = "esp") => fb /\ lent = 1
  /\ (at \notin InStream /\ streaming) => erred # "never"
  /\ (at \notin InStream /\ lent > 0) => erred = "since"
=============================================================================
