------------------------------ MODULE Settings ------------------------------
(***************************************************************************)
(* The settings of the device and the key-value flash that keeps them over *)
(* a reboot: StaticResource::init_backend reads or initialises the flash,  *)
(* the hooks of the INIT task put the loaded values in place, and the set  *)
(* commands (MODEL, SENSOR, ALGO, ACTION and WIFI, which stands for        *)
(* MQTTSERVER too) change the value in RAM and in flash.  Power may be     *)
(* lost between any two steps, and any write to the flash may fail.        *)
(*                                                                         *)
(* Commands run on the executor's worker, one after the other; INVOKE      *)
(* calls set_model from the listener thread when no model is loaded.       *)
(* Left out: the boot counter, which only STAT? reads, and the keys of     *)
(* INFO and of the algorithm thresholds, each written by one command that  *)
(* keeps no copy to compare with.                                          *)
(***************************************************************************)
EXTENDS Naturals, Sequences, FiniteSets

CONSTANTS
  Models,       \* ids of the models in flash
  Broken,       \* those the engine cannot load
  Options,      \* the camera options (resolutions) the board supports
  Algorithms,   \* the registered algorithm types
  Actions,      \* the action expressions that parse
  NoAction,     \* the empty expression, which unsets the condition
  Networks,     \* Wi-Fi configurations
  Unknown,      \* an argument no table of the device holds
  None,         \* a key that is not in flash, no engine, no camera, no job
  Old, Current, \* the storage version, and the values, of older firmware; of this one
  Pipelined,    \* TRUE: a client sends INVOKE before the last answer came
  MaxBoots,     \* bound: how often the device is powered on
  MaxCommands   \* bound: how many set commands run

ASSUME SettingsAssumption ==
  /\ Models \cup Options \cup Algorithms \subseteq Nat
  /\ Broken \subseteq Models
  /\ 0 \notin Models \cup Algorithms
  /\ Unknown \notin Models \cup Options \cup Algorithms \cup Actions \cup Networks \cup {NoAction}
  /\ Old # Current /\ None \notin {Old, Current}
  /\ {None, Old} \cap (Models \cup Options \cup Algorithms \cup {0, 1}) = {}
  /\ None \notin Actions \cup {NoAction} \cup Networks \cup {"model", "sensor"}
  /\ Pipelined \in BOOLEAN
  /\ MaxBoots \in Nat /\ MaxCommands \in Nat

Backend  == {"model", "sensor", "opt", "algo"}
Settings == Backend \cup {"action", "net"}

Undefined == 0       \* EL_ALGO_TYPE_UNDEFINED
Failed    == 0       \* the id after a model or a sensor could not be started
Camera    == 1       \* the one sensor a board registers

\* What inter_init puts in RAM before the flash is read.
Default == [s \in Settings |->
  CASE s = "model"  -> 1
    [] s = "sensor" -> Camera
    [] s = "opt"    -> 0
    [] s = "algo"   -> Undefined
    [] s = "action" -> NoAction
    [] s = "net"    -> None]

VARIABLES
  phase,     \* "off", "init" (init_backend) or "up"
  todo,      \* the keys init_backend has yet to write
  hooks,     \* the hooks of the INIT task that have yet to run
  flash,     \* the stored value of each key, and of the version
  ram,       \* current_model_id and the other settings in use
  engine,    \* the model the interpreter was made for
  camera,    \* the option the camera runs with
  job,       \* what each thread is doing
  allowed,   \* history: the values each setting may have been left with
  failed,    \* history: settings whose value in RAM is known not to be the stored
             \* one: the last write failed, or a hook changed RAM only
  erred,     \* history: settings whose last command was not answered OK
  torn,      \* history: an initialisation of the flash was not completed
  boots, commands

history == <<allowed, failed, erred>>
vars == <<phase, todo, hooks, flash, ram, engine, camera, job, history, torn,
          boots, commands>>

\* What a boot makes of key k.
Loaded(k) == IF flash[k] = None THEN Default[k] ELSE flash[k]

Threads == {"worker", "listener"}
Idle    == [cmd |-> None]

Init ==
  /\ phase = "off" /\ todo = <<>> /\ hooks = <<>>
  /\ \E v \in {None, Old} :
       flash = [k \in Settings \cup {"version"} |->
                  IF k \in {"action", "net"} THEN None ELSE v]
  /\ ram = Default /\ engine = None /\ camera = None
  /\ job = [t \in Threads |-> Idle]
  /\ allowed = [s \in Settings |-> {Loaded(s), Default[s]}]
  /\ failed = {} /\ erred = {} /\ torn = FALSE
  /\ boots = 0 /\ commands = 0

\* Mutant of VersionMatches: any version will do.
VersionAny == flash["version"] # None

\* The version in flash is the one this firmware was built with.
VersionMatches == flash["version"] = Current

-----------------------------------------------------------------------------
(* What a client may rely on: a command that runs may change its settings, *)
(* one answered OK has, unless RAM and flash are known to differ.          *)

\* A write of key k that succeeds or not; a failed one leaves the old value.
Emplace(k, v, ok) ==
  /\ flash'  = IF ok THEN [flash EXCEPT ![k] = v] ELSE flash
  /\ failed' = IF ok THEN failed \ {k} ELSE failed \cup {k}

\* The command on settings new (a function) begins.
Attempt(new) ==
  allowed' = [s \in Settings |-> IF s \in DOMAIN new THEN allowed[s] \cup {new[s]}
                                 ELSE allowed[s]]

\* It is answered OK; the settings in bad are known to differ in flash.  While
\* the version is not in flash the next boot writes the defaults again.
Done(new, bad) ==
  /\ allowed' = [s \in Settings |->
                   IF s \notin DOMAIN new THEN allowed[s]
                   ELSE IF s \in bad \/ (s \in Backend /\ ~VersionMatches)
                        THEN allowed[s] \cup {new[s]}
                   ELSE {new[s]}]
  /\ erred' = erred \ DOMAIN new

Sole(s, v) == [x \in {s} |-> v]

-----------------------------------------------------------------------------
(* Power: init_backend, post_init, loss of power.                          *)

\* init_backend: the version decides between loading and writing.
PowerOn ==
  /\ phase = "off" /\ boots < MaxBoots
  /\ phase' = "init" /\ boots' = boots + 1
  /\ IF VersionMatches
     THEN /\ ram' = [s \in Settings |-> IF s \in Backend THEN Loaded(s) ELSE Default[s]]
          /\ todo' = <<>>
     ELSE /\ ram' = Default
          /\ todo' = <<"version", "model", "sensor", "opt", "algo">>
  /\ UNCHANGED <<hooks, flash, engine, camera, job, history, torn, commands>>

InitWrite ==
  /\ phase = "init" /\ todo # <<>>
  /\ todo' = Tail(todo)
  /\ \E ok \in BOOLEAN :
       /\ Emplace(Head(todo), IF Head(todo) = "version" THEN Current ELSE ram[Head(todo)], ok)
       /\ torn' = (torn \/ ~ok)
  /\ UNCHANGED <<phase, hooks, ram, engine, camera, job, allowed, erred, boots, commands>>

\* post_init queues the INIT task; the device then accepts commands.
PostInit ==
  /\ phase = "init" /\ todo = <<>>
  /\ phase' = "up"
  /\ hooks' = <<"algo", "sensor", "action", "net">>
  /\ UNCHANGED <<todo, flash, ram, engine, camera, job, history, torn, boots, commands>>

PowerLoss ==
  /\ phase # "off"
  /\ phase' = "off" /\ todo' = <<>> /\ hooks' = <<>>
  /\ ram' = Default /\ engine' = None /\ camera' = None
  /\ job' = [t \in Threads |-> Idle]
  /\ failed' = {} /\ erred' = {}
  /\ torn' = (torn \/ todo # <<>>)
  /\ UNCHANGED <<flash, allowed, boots, commands>>

-----------------------------------------------------------------------------
(* set_model, on the worker (MODEL) or on the listener (INVOKE).           *)

Start(t, j) == job' = [job EXCEPT ![t] = j]
End(t)      == job' = [job EXCEPT ![t] = Idle]

StartModel(t, id) ==
  IF id \in Models
  THEN /\ Start(t, [cmd |-> "model", id |-> id, pc |-> "load"])
       /\ Attempt(Sole("model", id))
       /\ UNCHANGED erred
  ELSE erred' = erred \cup {"model"} /\ UNCHANGED <<job, allowed>>

\* load_model makes a new interpreter: from here on the engine is not null.
ModelLoad(t) ==
  /\ job[t].cmd = "model" /\ job[t].pc = "load"
  /\ engine' = job[t].id
  /\ Start(t, [job[t] EXCEPT !.pc = "tensors"])
  /\ UNCHANGED <<phase, todo, hooks, flash, ram, camera, history, torn, boots, commands>>

\* Mutant of ModelTensors: the id is set and stored whether the model loads or not.
ModelTensorsNoCheck(t) ==
  /\ job[t].cmd = "model" /\ job[t].pc = "tensors"
  /\ Start(t, [job[t] EXCEPT !.pc = "set"])
  /\ UNCHANGED <<phase, todo, hooks, flash, ram, engine, camera, history, torn, boots, commands>>

\* AllocateTensors, and the error path of set_model.
ModelTensors(t) ==
  /\ job[t].cmd = "model" /\ job[t].pc = "tensors"
  /\ IF job[t].id \in Broken
     THEN /\ engine' = None
          /\ ram' = [ram EXCEPT !["model"] = Failed]
          /\ erred' = erred \cup {"model"}
          /\ End(t)
     ELSE Start(t, [job[t] EXCEPT !.pc = "set"]) /\ UNCHANGED <<engine, ram, erred>>
  /\ UNCHANGED <<phase, todo, hooks, flash, camera, allowed, failed, torn, boots, commands>>

\* Mutant of ModelSet: the new id is kept in RAM only.
ModelSetNotStored(t) ==
  /\ job[t].cmd = "model" /\ job[t].pc = "set"
  /\ ram' = [ram EXCEPT !["model"] = job[t].id]
  /\ End(t)
  /\ Done(Sole("model", job[t].id), failed)
  /\ UNCHANGED <<phase, todo, hooks, flash, engine, camera, failed, torn, boots, commands>>

\* The id is compared with the one in use and set, if it differs.
ModelSet(t) ==
  /\ job[t].cmd = "model" /\ job[t].pc = "set"
  /\ IF ram["model"] = job[t].id
     THEN /\ End(t)
          /\ Done(Sole("model", job[t].id), failed)
          /\ UNCHANGED ram
     ELSE /\ ram' = [ram EXCEPT !["model"] = job[t].id]
          /\ Start(t, [job[t] EXCEPT !.pc = "store"])
          /\ UNCHANGED <<allowed, erred>>
  /\ UNCHANGED <<phase, todo, hooks, flash, engine, camera, failed, torn, boots, commands>>

\* The pair given to emplace refers to current_model_id, not to the argument.
ModelStore(t) ==
  /\ job[t].cmd = "model" /\ job[t].pc = "store"
  /\ \E ok \in BOOLEAN :
       /\ Emplace("model", ram["model"], ok)
       /\ IF ok THEN Done(Sole("model", job[t].id), {})
          ELSE erred' = erred \cup {"model"} /\ UNCHANGED allowed
  /\ End(t)
  /\ UNCHANGED <<phase, todo, hooks, ram, engine, camera, torn, boots, commands>>

\* INVOKE, on the listener: "load model if not".
ListenerInvoke ==
  /\ phase = "up" /\ commands < MaxCommands
  /\ job["listener"] = Idle /\ engine = None
  /\ Pipelined \/ (job["worker"] = Idle /\ hooks = <<>>)
  /\ commands' = commands + 1
  /\ StartModel("listener", ram["model"])
  /\ UNCHANGED <<phase, todo, hooks, flash, ram, engine, camera, failed, torn, boots>>

-----------------------------------------------------------------------------
(* set_sensor: event tells the hook from the command.                      *)

SensorError == erred \cup {"sensor", "opt"}

\* The camera's init refuses an option the board does not have.
OptionRefused(opt) == opt \notin Options

\* The camera is stopped, and started again when the command enables it.
StartSensor(id, enable, opt, event) ==
  IF id # Camera
  THEN erred' = SensorError /\ UNCHANGED <<ram, camera, job, allowed>>
  ELSE \E deinitOk, initOk \in BOOLEAN :
       /\ (camera = None) => deinitOk
       /\ (enable /\ OptionRefused(opt)) => ~initOk
       /\ LET stopped == camera = None \/ deinitOk
              started == stopped /\ (enable => initOk)
          IN /\ camera' = IF ~stopped THEN camera
                          ELSE IF enable /\ initOk THEN opt ELSE None
             /\ IF started
                THEN /\ Start("worker", [cmd |-> "sensor", id |-> id, enable |-> enable,
                                         opt |-> opt, event |-> event,
                                         pc |-> IF enable THEN "opt" ELSE "id"])
                     /\ Attempt(IF enable THEN [s \in {"sensor", "opt"} |->
                                                  IF s = "opt" THEN opt ELSE id]
                                ELSE Sole("sensor", id))
                     /\ UNCHANGED <<ram, erred>>
                ELSE /\ ram' = [ram EXCEPT !["sensor"] = Failed]
                     /\ erred' = SensorError
                     /\ UNCHANGED <<job, allowed>>

\* The option is written at once, for an event too, and the result ignored;
\* current_sensor_opt keeps the value it had at boot.
SensorOpt ==
  /\ job["worker"].cmd = "sensor" /\ job["worker"].pc = "opt"
  /\ \E ok \in BOOLEAN : Emplace("opt", job["worker"].opt, ok)
  /\ Start("worker", [job["worker"] EXCEPT !.pc = "id"])
  /\ UNCHANGED <<phase, todo, hooks, ram, engine, camera, allowed, erred, torn, boots, commands>>

SensorId ==
  /\ job["worker"].cmd = "sensor" /\ job["worker"].pc = "id"
  /\ LET j       == job["worker"]
         changed == ram["sensor"] # j.id
         new     == IF j.enable THEN [s \in {"sensor", "opt"} |-> IF s = "opt" THEN j.opt ELSE j.id]
                    ELSE Sole("sensor", j.id)
     IN /\ ram' = [ram EXCEPT !["sensor"] = j.id]
        /\ IF changed /\ ~j.event
           THEN \E ok \in BOOLEAN :
                  /\ Emplace("sensor", j.id, ok)
                  /\ IF ok THEN Done(new, failed') ELSE erred' = SensorError /\ UNCHANGED allowed
           ELSE /\ UNCHANGED <<flash, failed>>
                /\ IF j.event THEN UNCHANGED <<allowed, erred>> ELSE Done(new, failed)
  /\ End("worker")
  /\ UNCHANGED <<phase, todo, hooks, engine, camera, torn, boots, commands>>

-----------------------------------------------------------------------------
(* set_algorithm, set_action and set_wifi_network, each with one write.    *)

\* Set s to v in RAM and, for a command, in flash; the answer tells of the write.
SetAndStore(s, v, event) ==
  /\ ram' = [ram EXCEPT ![s] = v]
  /\ IF event
     THEN /\ failed' = IF flash[s] = v THEN failed ELSE failed \cup {s}
          /\ UNCHANGED <<flash, allowed, erred>>
     ELSE \E ok \in BOOLEAN :
            /\ Emplace(s, v, ok)
            /\ IF ok THEN Done(Sole(s, v), {}) ELSE Attempt(Sole(s, v)) /\ erred' = erred \cup {s}

\* The value is already in use: answered OK, nothing is written.
Unchanged(s, event) ==
  /\ IF event THEN UNCHANGED <<allowed, erred>> ELSE Done(Sole(s, ram[s]), failed)
  /\ UNCHANGED <<ram, flash, failed>>

Refuse(s) == erred' = erred \cup {s} /\ UNCHANGED <<ram, flash, allowed, failed>>

\* Mutant of SetAlgorithm: the type is stored but not put to use.
SetAlgorithmStoreOnly(type, event) ==
  LET info == IF type \in Algorithms THEN type ELSE Undefined
  IN \E ok \in BOOLEAN :
       /\ Emplace("algo", info, ok)
       /\ IF ok THEN Done(Sole("algo", info), {}) ELSE Attempt(Sole("algo", info)) /\ UNCHANGED erred
       /\ UNCHANGED ram

\* An unknown type stands for no algorithm; the error code is lost when this is a change.
SetAlgorithm(type, event) ==
  LET info == IF type \in Algorithms THEN type ELSE Undefined
  IN IF info # ram["algo"] THEN SetAndStore("algo", info, event)
     ELSE IF type = info THEN Unchanged("algo", event) ELSE Refuse("algo")

SetAction(exp, event) ==
  CASE exp = Unknown       -> Refuse("action")
    [] exp = ram["action"] -> Unchanged("action", event)
    [] OTHER               -> SetAndStore("action", exp, event)

\* Stored on every command, changed or not.
SetNetwork(config, event) == SetAndStore("net", config, event)

-----------------------------------------------------------------------------
(* The INIT task and the commands.                                         *)

Hook ==
  /\ phase = "up" /\ hooks # <<>> /\ job["worker"] = Idle
  /\ hooks' = Tail(hooks)
  /\ \/ /\ Head(hooks) = "algo"
        /\ IF ram["algo"] # Undefined THEN SetAlgorithm(ram["algo"], TRUE)
           ELSE UNCHANGED <<ram, flash, history>>
        /\ UNCHANGED <<camera, job>>
     \/ /\ Head(hooks) = "sensor"
        /\ IF ram["sensor"] # Failed THEN StartSensor(ram["sensor"], TRUE, ram["opt"], TRUE)
           ELSE UNCHANGED <<ram, camera, job, allowed, erred>>
        /\ UNCHANGED <<flash, failed>>
     \/ /\ Head(hooks) = "action"
        /\ IF flash["action"] # None THEN SetAction(flash["action"], TRUE)
           ELSE UNCHANGED <<ram, flash, history>>
        /\ UNCHANGED <<camera, job>>
     \/ /\ Head(hooks) = "net"
        /\ IF flash["net"] # None THEN SetNetwork(flash["net"], TRUE)
           ELSE UNCHANGED <<ram, flash, history>>
        /\ UNCHANGED <<camera, job>>
  /\ UNCHANGED <<phase, todo, engine, torn, boots, commands>>

\* The worker takes the next command; without pipelining the client has had
\* the answer of the last one.
Free ==
  /\ phase = "up" /\ hooks = <<>> /\ job["worker"] = Idle /\ commands < MaxCommands
  /\ Pipelined \/ job["listener"] = Idle

Model ==
  /\ Free /\ commands' = commands + 1
  /\ \E id \in Models \cup {Unknown} : StartModel("worker", id)
  /\ UNCHANGED <<phase, todo, hooks, flash, ram, engine, camera, failed, torn, boots>>

Sensor ==
  /\ Free /\ commands' = commands + 1
  /\ \E id \in {Camera, Unknown}, enable \in BOOLEAN, opt \in Options \cup {Unknown} :
       StartSensor(id, enable, opt, FALSE)
  /\ UNCHANGED <<phase, todo, hooks, flash, engine, failed, torn, boots>>

Algo ==
  /\ Free /\ commands' = commands + 1
  /\ \E type \in Algorithms \cup {Undefined, Unknown} : SetAlgorithm(type, FALSE)
  /\ UNCHANGED <<phase, todo, hooks, engine, camera, job, torn, boots>>

Action ==
  /\ Free /\ commands' = commands + 1
  /\ \E exp \in Actions \cup {NoAction, Unknown} : SetAction(exp, FALSE)
  /\ UNCHANGED <<phase, todo, hooks, engine, camera, job, torn, boots>>

Network ==
  /\ Free /\ commands' = commands + 1
  /\ \E config \in Networks : SetNetwork(config, FALSE)
  /\ UNCHANGED <<phase, todo, hooks, engine, camera, job, torn, boots>>

SetModel(t) == ModelLoad(t) \/ ModelTensors(t) \/ ModelSet(t) \/ ModelStore(t)
Command     == Model \/ Sensor \/ Algo \/ Action \/ Network
Next ==
  \/ PowerOn \/ InitWrite \/ PostInit \/ PowerLoss
  \/ Hook \/ Command \/ SensorOpt \/ SensorId \/ ListenerInvoke
  \/ \E t \in Threads : SetModel(t)

Spec == Init /\ [][Next]_vars

-----------------------------------------------------------------------------
TypeOK ==
  /\ phase \in {"off", "init", "up"}
  /\ flash["version"] \in {None, Old, Current}
  /\ DOMAIN flash = Settings \cup {"version"} /\ DOMAIN ram = Settings
  /\ engine \in Models \cup {None}
  /\ camera \in Options \cup {None}
  /\ failed \subseteq Settings \cup {"version"} /\ erred \subseteq Settings
  /\ boots \in 0..MaxBoots /\ commands \in 0..MaxCommands

\* A value that could not be put to use never reaches the flash: the id of a
\* model that did not load, a refused option or type, an expression that does
\* not parse, or the 0 that set_model and set_sensor leave in RAM when they fail.
OnlyUsableStored ==
  /\ flash["model"]  \in {None, Old, Default["model"]} \cup (Models \ Broken)
  /\ flash["sensor"] \in {None, Old, Camera}
  /\ flash["opt"]    \in {None, Old, Default["opt"]} \cup Options
  /\ flash["algo"]   \in {None, Old, Undefined} \cup Algorithms
  /\ flash["action"] \in {None, NoAction} \cup Actions

\* What a command answered OK has set is what the flash keeps, through loss of
\* power and reboots, until another command on the same setting runs.  The
\* promise is lifted while RAM and flash differ, after a write that failed:
\* set_model, set_sensor, set_algorithm and set_action compare with the value
\* in RAM and answer a repeated command OK without a write.
SettingsSurvive ==
  \A s \in Settings : Loaded(s) \in allowed[s]

\* Once the INIT task has run, the device works with what was last answered OK,
\* before the reboot or after it, unless the last command (or hook) on the
\* setting failed; the camera runs with the stored option.
SettingsInUse ==
  (phase = "up" /\ hooks = <<>> /\ \A t \in Threads : job[t] = Idle /\ ~torn)
  => /\ \A s \in Settings \ {"opt"} :
          s \in erred \/ ram[s] \in allowed[s]
     /\ (camera # None /\ "opt" \notin erred) => camera \in allowed["opt"]

\* A value that firmware of another storage version left is loaded only when an
\* initialisation of the flash was cut off: the version is the first key written.
OldLoadedOnlyIfTorn ==
  (phase # "off" /\ todo = <<>> /\ \E s \in Backend : ram[s] = Old) => torn

-----------------------------------------------------------------------------
(* Why these hold: the inductive invariant of the proofs in SettingsProofs. *)

Pending(k, list) == \E i \in 1..Len(list) : list[i] = k
Once(list)       == \A i, j \in 1..Len(list) : list[i] = list[j] => i = j

ModelJob  == [cmd : {"model"}, id : Models, pc : {"load", "tensors", "set", "store"}]
SensorJob == [cmd : {"sensor"}, id : {Camera}, enable : BOOLEAN, event : BOOLEAN,
              opt : Options \cup {Unknown, Old, 0}, pc : {"opt", "id"}]

InitKeys == <<"version", "model", "sensor", "opt", "algo">>

\* The device is used only when it is up, and its flash initialised before that.
Phases ==
  /\ todo \in Seq(Backend \cup {"version"}) /\ hooks \in Seq(Settings) /\ Once(hooks)
  /\ phase # "init" => todo = <<>>
  /\ todo # <<>> => ram = Default
  /\ todo = InitKeys \/ ~Pending("version", todo)
  /\ phase # "up" => hooks = <<>> /\ camera = None /\ \A t \in Threads : job[t] = Idle
  /\ \A s \in {"action", "net"} :
       phase = "init" \/ Pending(s, hooks) => ram[s] = Default[s]

\* One command at a time, whose values may be found after a reboot from its start.
Jobs ==
  /\ job \in [Threads -> {Idle} \cup ModelJob \cup SensorJob]
  /\ job["listener"] # Idle =>
       job["worker"] = Idle /\ hooks = <<>> /\ job["listener"] \in ModelJob
  /\ \A t \in Threads : job[t] \in ModelJob =>
       /\ job[t].id \in allowed["model"]
       /\ job[t].pc \in {"set", "store"} => job[t].id \notin Broken
       /\ job[t].pc = "store" => ram["model"] = job[t].id
  /\ job["worker"] \in SensorJob =>
       LET j == job["worker"]
       IN /\ j.id \in allowed["sensor"]
          /\ j.enable => j.opt \in Options \cap allowed["opt"] /\ camera = j.opt
          /\ ~j.enable => j.pc = "id" /\ camera = None
          /\ j.event => j.enable /\ ram["sensor"] = j.id
          /\ j.pc = "id" /\ j.enable /\ "opt" \notin failed => flash["opt"] = j.opt

\* What the flash and the RAM may hold of setting s.
Usable(s) ==
  CASE s = "model"  -> Models \ Broken
    [] s = "sensor" -> {Camera}
    [] s = "opt"    -> Options
    [] s = "algo"   -> Algorithms
    [] s = "action" -> Actions
    [] s = "net"    -> Networks

Legacy(s) == IF s \in Backend THEN {Old} ELSE {}
Zero(s)   == IF s \in {"model", "sensor"} THEN {Failed} ELSE {}

Stored(s) == {None, Default[s]} \cup Usable(s) \cup Legacy(s)
InRam(s)  == {Default[s]} \cup Usable(s) \cup Legacy(s) \cup Zero(s)

\* Set in RAM, not yet in flash.
Storing(s) == s = "model" /\ \E t \in Threads : job[t].cmd = "model" /\ job[t].pc = "store"

\* RAM and flash agree, unless they are known not to.
InStep(s) ==
  /\ s \in Backend \ {"opt"} /\ phase # "off" /\ VersionMatches /\ s \notin failed
     /\ ~Pending(s, todo) /\ ~Storing(s) => ram[s] \in {Loaded(s)} \cup Zero(s)
  /\ s \in {"action", "net"} /\ phase = "up" /\ s \notin failed /\ ~Pending(s, hooks) =>
       ram[s] = Loaded(s)

InUse(s) ==
  /\ s \in Backend \ {"opt"} /\ phase # "off" /\ ~torn => s \in erred \/ ram[s] \in allowed[s]
  /\ s \in {"action", "net"} /\ phase = "up" /\ ~Pending(s, hooks) =>
       s \in erred \/ ram[s] \in allowed[s]

SettingOK(s) ==
  /\ flash[s] \in Stored(s) /\ ram[s] \in InRam(s)
  /\ s \in Backend =>
       /\ VersionMatches /\ flash[s] = Old /\ ~torn => Pending(s, todo)
       /\ ram[s] = Old => torn
       /\ ~VersionMatches \/ Pending(s, todo) => Default[s] \in allowed[s]
  /\ Loaded(s) \in allowed[s]
  /\ InStep(s)
  /\ InUse(s)

IInv ==
  /\ TypeOK
  /\ Phases
  /\ Jobs
  /\ \A s \in Settings : SettingOK(s)
  /\ camera # None /\ "opt" \notin erred => camera \in allowed["opt"]
=============================================================================
