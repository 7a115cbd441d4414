# TLA+ models of SSCMA-Micro

SSCMA-Micro is the firmware library that turns a microcontroller with a camera into
an inference server: a client sends AT commands over a serial line, SPI, I2C or MQTT,
and the device invokes a model on camera frames and sends results back. This
directory holds TLA+ models of it, the TLC runs that check them, and theorems proved
with TLAPS. Paths below are relative to `src/`.

Contents: [the system](#the-system) · [hard behaviours](#what-is-hard) ·
[modules](#modules) · [runs](#runs) · [bounds](#bounds) · [fairness](#fairness) ·
[theorems](#theorems) · [what the models show of the code](#what-the-models-show-of-the-code) ·
[not modelled](#what-is-not-modelled) · [plan](#plan) · [how to run](#how-to-run)

## The system

Threads and interrupts share one `StaticResource`:

| Thread | Where | Does |
|---|---|---|
| listener | `wait_for_inputs`, `sscma/main_task.hpp:422` | polls the transports for lines, runs `Server::exec`, whose callbacks mostly queue a task |
| worker | `Executor::run`, `sscma/repl/executor.hpp:78` | runs the queued tasks one after the other; every command and every iteration of a loop is a task |
| supervisor | `sscma/repl/supervisor.hpp:75` | every 5 s polls the Wi-Fi interface, then the MQTT transport |
| driver tasks | IDF event tasks of the ESP32 port | change the network status, push MQTT messages |
| interrupts | Himax port | frames captured, bytes received, transfers completed, a host's accesses |

| Component | State | Operations | Correct if |
|---|---|---|---|
| Executor | task queue, stop flag | `add_task`, `try_stop_task`, the worker's loop | tasks run once, in order; a stop reaches the loop it was meant for |
| Command tasks (`main_task.hpp`, `callback/invoke.hpp`, `callback/sample.hpp`) | `current_task_id`, `is_ready`, `is_invoke`, `is_sample`; per loop `_task_id`, `_times`, registered configuration commands | INVOKE, SAMPLE, BREAK, MODEL/ALGO/SENSOR, TSCORE/TIOU, status queries | only the latest loop speaks; loops end and clean up; every command is answered |
| AT server (`repl/server.hpp`, `repl/history.hpp`) | command list, two locks, the line being edited, its history | `register_cmd`, `unregister_cmd`, `exec`, `loop` | a command found stays valid while it runs; it is executed as written; no thread waits for ever |
| Synchronizable objects (`prototypes.hpp`) | applied and pending configuration with versions | `store`, `load`, `load_last`, `synchorize`, `is_synchorized` | the latest configuration is applied; "updated" is said of an applied one |
| Wi-Fi interface, MQTT transport, supervisor | configurations, status read from the driver, subscribed topics | `poll_from_supervisor`, `set_down`, `bring_up`, `try_ensure`, event callbacks | the network follows its configuration; the supervisor never hangs |
| ESP32 network driver (`porting/espressif/el_network_esp.cpp`) | one status for Wi-Fi and MQTT, the client's handle | init, join, quit, connect, disconnect, subscribe; IDF events | the status tells the truth |
| Settings and boot (`static_resource.hpp`, `hooks.hpp`, `callback/*.hpp`) | keys in flash, the same values in RAM | init_backend, hooks of the INIT task, set commands | what was answered OK survives a reboot; nothing unusable is kept |
| Camera and sensing (`el_camera_*.cpp`, `callback/invoke.hpp`, `sensor.hpp`, `condition.hpp`) | driver flags, frame buffer, sensor state, the action condition and its bound functions | the iteration of INVOKE and SAMPLE, SENSOR, ACTION | the stream is off between tasks; a condition never calls what is gone |
| Drivers of the image sensors (`porting/himax/we2/drivers/`) | the receiver, the data path, frame counters, callbacks | init, deinit, capture, stop; the data path's interrupt | what is read is a whole frame of the size asked for |
| Ports of the Himax boards (`el_serial*_we2.cpp`, `el_sspi_we2.cpp`, `el_wire_we2.cpp`, `el_ringbuffer.hpp`) | a ring per direction, transfer flags, a pin, a timer | get_line, send_bytes, completion interrupts, a host's accesses | bytes in order, none twice; the host knows what it can read |
| MQTT input buffer (`interface/transport/mqtt.hpp`) | a ring | push_to_buffer, get_line | a line is a message |
| Models in flash (`core/data/el_data_models.cpp`) | list of models, mask of ids | the scan, `get_model_info` | what is laid out is listed |
| Algorithms, engine (`core/algorithm/`, `core/engine/`) | the tensors' shapes, scales, strides | choice, `is_model_valid`, `init`, `run`, `postprocess` | an accepted model is read inside its tensors; boxes are in the frame's scale |
| Images, non-maximum suppression (`core/utils/`) | none | conversion, rotation, drawing, `el_nms` | each pixel at its place; the best box stays |
| Action expressions (`sscma/interpreter/`) | tree, bound names | parse, evaluate | a condition means what is written |
| Results filter, picture export (`callback/extension/`) | results of the inference before | `compare_and_update`; `cache`, `commit` | a change is reported |
| Key-value storage, KV and INFO commands, device, displays, third-party code | | | |

Interactions: the listener calls the server, the server's callbacks queue tasks (a few,
INVOKE among them, change state on the listener). The worker runs tasks, which create
`Invoke`/`Sample` objects that queue their own next iteration, register commands with the
server, write settings to flash, and store network configurations. The supervisor takes
those configurations and drives the network driver; the driver's events change the
status under it; Wi-Fi's `set_down` calls MQTT's through a callback. An iteration takes a
frame from the camera, converts it into the input tensor, runs the engine, reads the
outputs, suppresses overlapping boxes, evaluates the action and sends what the filter
lets through. Interrupts fill and empty the rings under the listener and the worker.

### What is hard

- *Interleaving*: listener and worker share the stop flag, `current_task_id`, the
  command list and the ports; worker and supervisor share configurations; the supervisor
  and two IDF event tasks share one status variable; interrupts share rings and flags.
- *Ordering and object life*: a loop is a chain of tasks; its object dies with the last
  one, at a point the next loop does not choose, and its destructor acts on shared state.
- *Lock order*: two locks of the server are taken in both orders.
- *Waiting without bound*: `ensure_status_changed_from` waits for a status change.
- *Power loss*: several keys are written one by one.
- *Failure half way*: camera, sensor, model, bus and flash errors on every path.
- *Limits*: rings that fill up, lines of exactly the buffer's size.
- *Index arithmetic by hand*: twelve picture conversions with four rotations, outputs of
  eight algorithms, a scan over flash, a tokenizer.

`PROJECT.json` lists each hazard at its line with the properties that cover it.

## Modules

An indented module is used by the one above it.

| Module | Models | State and actions in the code |
|---|---|---|
| `CommandTasks` | the life of commands and loops | one action per listener callback (`Accept`, `BreakStop`, `BreakQueue`, queries) and per kind of task body; the destructor of an object runs where its last reference goes |
| &nbsp;&nbsp;`Executor` | `repl/executor.hpp` | the worker is cut at its accesses to shared state: pop, body, load of the stop flag, store, end of the loop body |
| `ServerLocks` | `repl/server.hpp` under its two locks | listener: `exec` lock by lock; worker: registration and withdrawal of an INVOKE's commands |
| `CommandLines` | how `repl/server.hpp` reads a line | `exec` in one step, with its tokenizer as recursive operators |
| `LineEditor` | how `Server::loop` and `history.hpp` edit one | a step per key; which lines find a command is a parameter |
| `SyncObject` | a synchronizable object between the worker and the supervisor's poll | each locked call is a step |
| &nbsp;&nbsp;`SynchronizableObject` | `prototypes.hpp` | pure operators: what each call does to the pair of versions |
| &nbsp;&nbsp;`LatestConfig` | the abstract specification: the supervisor takes the latest write, applies it, and the answer says whether it is applied | implemented by `SyncObject`: checked by TLC, proved |
| `Networking` | supervisor, Wi-Fi and MQTT interfaces | a step ends where the code reads the status from the driver or waits for it to change; uses `SynchronizableObject` for both configurations |
| &nbsp;&nbsp;`NetworkEsp` | the driver, and station, clients and servers as environment | calls as state changes with results, events as actions; a client's subscription goes with its session |
| `Settings` | flash, RAM, boot and set commands | a step per write to flash; `PowerLoss` between any two; every write may fail |
| `Sensing` | iterations of INVOKE and SAMPLE, SENSOR, ACTION, BREAK | a step per driver call, each with every error code it can return |
| &nbsp;&nbsp;`Camera` | `CameraWE2` and `CameraEsp`, seen from their callers | actions that take the code the call returns |
| `SensorWE2` | `CameraWE2` over the three sensor drivers | a step per stretch the data path's interrupt can fall between; registers that can fail, fail; shown to implement `Camera` |
| `SlavePort` | SPI and I2C as a slave | the host's frames and the completion interrupts against get_line and send_bytes |
| `SerialWE2` | both UARTs | the byte and the transfer interrupt against get_line and send_bytes |
| &nbsp;&nbsp;`RingBuffer` | `lwRingBuffer` | operators on a record; what copies and then moves an index is two operators |
| `MqttBuffer` | the MQTT input buffer | push and get_line each load both indices, copy, and store one |
| `Images` | `core/utils/el_cv.cpp` | a call is a step; its outcome is the set of writes: from which pixel, to which, read as which format |
| `Algorithms` | `core/algorithm/`, and their choice in `invoke.hpp` | construction, then run and postprocess for frames of two sizes; a postprocess is the highest element it may read of each output |
| `Results` | `el_nms.cpp`, `results_filter.hpp` | an inference, the comparison with the one before, the reply and the hand-over of the filter (`HandOver`); the list's stable sort is each place's rank |
| `Expressions` | `sscma/interpreter/` | set_condition with the parser as a recursive operator, then evaluate |
| `ModelScan` | `el_data_models.cpp` | a step per address looked at; what lies in the partition is a function of the address |
| `CommandTasksProofs`, `NetworkingProofs`, `SettingsProofs`, `SensingProofs`, `SensorWE2Proofs` | theorems about the module of that name | |
| `LocksProofs` | theorems about `ServerLocks` and `SyncObject` | |
| `RingsProofs` | theorems about `RingBuffer`, `SlavePort`, `SerialWE2` and `MqttBuffer` | |
| `FunctionsProofs` | theorems about `Images`, `ModelScan`, `Algorithms`, `Results` and `LineEditor` | |
| `MC*` | the instances TLC checks | `MCInterrupts` puts five components side by side that share no state, and extends them all, which is why the names of four of them begin with `Port`, `Serial`, `Mqtt` and `Server`; `MCFunctions` puts eight side by side, extends six of them and instantiates `Expressions` and `CommandLines`, which are the only ones with recursive operators; `part` says which a behaviour is of |

How state corresponds to code. Variables carry the source's names where one variable is
one member (`queue` is `_task_queue`, `currentTaskId` is `current_task_id`, `execLock` is
the holder of `_exec_lock`, `streaming` is `_is_streaming`). A program counter
(`wpc`, `lpc`, `pc`, `at`) says where a thread is; it moves at the points where another
thread, or an interrupt, can see or change something. Objects are numbered in the order
they are made: a ticket in `CommandTasks` is a command and its `Invoke`; in `Sensing` a
loop is an object, its algorithm and its exporter. Bytes in the rings are numbered or name
their message, pixels are positions, tensors are shapes, words of a command line are
symbols: what the properties tell apart. Variables that do not exist in the code are
marked as history in their comments (what has been sent, what was answered OK, which
epoch a byte is of). Operators introduced by "Mutant of" are wrong versions of the
definition that follows them, used to see that a property notices; no specification uses
them.

What composes what. `CommandTasks` is an `Executor` with the commands as tasks.
`Networking` composes the two configurations, the two interfaces and the driver.
`SensorWE2` implements `Camera` (property `CameraImplemented`), on which `Sensing` is built.
`ServerLocks` relies on a loop registering its commands when no other loop's are
registered, which is part of `RegistryFollowsLoops` of `CommandTasks`. `Sensing` leaves to
`CommandTasks` which loop may go on and when (a loop there may end at any time);
`SyncObject` leaves open whether applying succeeds, which `Networking` works out.
`CommandLines` says what a callback gets, `ServerLocks` that its entry stays, `LineEditor` which
line is executed.

## Runs

| Run | Question | Properties |
|---|---|---|
| `command_tasks` | which loop may speak, whom a stop stops, when commands and objects come and go | `OnlyLatestSpeaks StopIsScoped RegistryFollowsLoops LoopLife` |
| `command_tasks_live` | is every command answered, do loops end | `EveryCommandAnswered LoopsEnd` |
| `server_deadlock` | is every line answered (violated) | `EveryLineAnswered` |
| `net_calm` | with a network that works, and MQTT reconfigured at any moment, also from server to server: one client, where it is, what is said of it, configurations applied | `OneClientAtServer UpdatedMeansAtServer SupervisorPolls MqttApplied` |
| `net_servers` | is the old server left when another is configured (violated) | `OldServerLeft` |
| `net_faults` | with lost signal, refusing servers and timeouts: what still holds of what is reported | `ReportedMeansDone` |
| `net_off` | does the supervisor go on polling when Wi-Fi is reconfigured (violated) | `SupervisorPolls` |
| `interrupts` | the camera's drivers, the slave ports, the serial ports and the MQTT buffer against their interrupts; the command list under its two locks: does an entry stay while its callback runs, does registration end | `HeldPicture NoVainWait CameraImplemented OneLine HostServed InOrder AllSent LineIsMessage IteratorValid NeverReplaces RegistrationEnds` |
| `functions` | configuration hand-over, pictures, models under their algorithms, expressions, partitions, results, command lines | `UpdatedMeansApplied LatestSpec EveryWriteApplied PixelsRight ResultsOfFrame ParsedAsWritten ModelsListed ResultsReported ExecutedAsWritten` |
| `filter_differed` | is a reply of DIFFERED sent only if something changed (violated) | `DifferedOnly` |
| `settings` | what survives power loss and failed writes | `OnlyUsableStored SettingsSurvive SettingsInUse OldLoadedOnlyIfTorn` |
| `sensing` | which algorithm a condition calls, what a failed iteration leaves | `NoDanglingBinding UnboundOnlyAfterReturn ExportsThisFrame StreamLeftOnlyByError StartsAvailableSensor` |

Four runs are expected to be violated: each shows the code doing what a document of the
repository says it does not; see below. Every property of the other runs has a mutant
of a definition that breaks it (`PROJECT.json`). What each property says, and which cases it
excuses, is in the comment above it; the excuses are explained below.

### Bounds

- `command_tasks`: three tickets and one query. Three are needed for the interesting
  case, a command that supersedes a loop that superseded another; counts are -1 and 1,
  thresholds two values, flash may hold none, and every write of one may fail. The proofs remove
  this bound for all four properties.
- `command_tasks_live`: three tickets and no queries: a query's task starts no loop. One threshold,
  in flash from the start.
- `interrupts`, the command list: the four commands of an algorithm with two thresholds, three
  loops: a loop, its end, and the next one's registration under a line in progress.
  `server_deadlock` needs one loop. The proofs remove both bounds.
- `net_*`: two servers; two clients alive at once (`MaxClients`), which is what a
  timeout or a change of server takes; beyond it the oldest live client is forgotten, so
  nothing is claimed about a third. Two to four stores of configurations. In `net_calm`
  Wi-Fi is configured once, because configuring it again while it is joined is what
  `net_off` shows to hang, and MQTT four times, each time off or one of the two servers:
  a change of server before, during and after the session, and back. `net_servers` takes two
  stores. The proofs remove the bounds on clients and stores, for `net_faults` altogether and
  for `net_calm` with no faults and one configuration of Wi-Fi.
- `interrupts`, the others: rings of four cells, so that one or two sends fill them, wrap them and are
  cut; loads that put the few replies, writes or bytes of a behaviour on one direction or on
  both, and one host's reset. The MQTT ring has eight cells and messages of up to all of it.
  The three sensors on both boards, with every option and with failing writes. The proofs
  are for rings, lines, transfers and loads of any size.
- `functions`: configurations: two values and four stores, before, while and after one is
  applied, and a value that comes back. Pictures: sides 2, 3 and 4 in every combination (equal,
  multiples and not, up and down), drawings that begin before, in and behind the picture.
  Models: for each algorithm one it accepts, near misses, and outputs in other orders.
  Expressions: up to four operands with every bracketing, the documentation's form of action,
  and every sequence of up to four tokens. Partitions: six units, up to three headers and
  flatbuffers, the first in one of the first two units, steps of one and two units. Results: up to three boxes, empty ones and
  one with a score of 0. Command lines:
  strings of up to three symbols, of quotes, backslashes, digits and separators, up to four
  arguments; typed lines of up to three symbols and a history of two. The proofs remove the
  bounds of the hand-over, pictures, models, partitions, results and the line editor.
- `settings`: three boots (install, reboot, reboot), two set commands, three models of
  which one cannot be loaded. Two commands on one setting are what a stale comparison
  with RAM takes. The proofs remove the bounds on boots and commands.
- `sensing`: three loops and three other commands, two expressions that share one
  function and differ in the other: an expression that is replaced and set again takes
  three ACTIONs and a loop before; SENSOR and BREAK come in any mix of three. The proofs
  are for any number of loops, commands and expressions.

Deadlock is not checked where a behaviour may use up its commands or computes one result
(`CHECK_DEADLOCK FALSE`); in `interrupts` also because the code can really deadlock, which
`server_deadlock` shows by a property.

### Fairness

- Worker and listener are weakly fair in `CommandTasks`: both are FreeRTOS tasks that
  block only on the queue and the input. An endless loop does not stop: only what the
  code does ends it.
- `ServerLocks`: both threads are weakly fair, and taking a lock is strongly fair: a
  semaphore that is given goes to a waiting task, so a lock that is free again and again
  is taken. Without the second part a listener that receives line after line could be
  ahead of the worker for ever.
- `SyncObject`: the supervisor polls for ever, and applying succeeds if tried again and
  again.
- `SerialWE2`: a transfer that runs ends, and a send goes on (weak); nothing is assumed of
  what is received.
- `Networking`: the supervisor runs, the access point answers a station and a server a
  client that tries again and again (strong), a client told to stop stops and one without
  network notices (weak). These are assumptions on the environment; signal loss and
  refusals are not made fair, and `net_calm`, the run that checks liveness, has none.

## Theorems

TLAPS checks each for every value of the constants (number of commands, of configuration
commands, of loops, stores, boots, clients; sizes of rings, lines and transfers; any counts,
thresholds, values, servers and expressions; pictures, tensors, partitions, lists of boxes, lines
and histories of any size and content). TLC checked each property first on the instance of the module's run, and the
inductive invariants of all but `FunctionsProofs`, of which it checked `ScanInv`.

| Module | Theorem | Says |
|---|---|---|
| `CommandTasksProofs` | `TypeCorrect`, `Inductive` | the types; the invariant of queue, ids and flags |
| | `LatestSpeaks` | once a later command has run, no earlier loop's result is sent |
| | `StopScoped` | the stop flag is up only while a BREAK is on its way |
| | `LoopInductive`, `LivesOnce` | an object lives as long as something refers to it, loops never fork, a command is answered once |
| | `RegistryRight` | the threshold commands are registered for the loop that runs, whose threshold is in flash but for a late TSCORE and a threshold or configuration that could not be stored |
| `LocksProofs` | `ServerInductive`, `EntryStays`, `RegistersFresh` | the entry found stays until its callback returned; registration never replaces |
| | `Inductive`, `AnswersApplied` | "updated" is said only of the configuration applied |
| | `ImplementsLatest` | `SyncObject` implements `LatestConfig` |
| `NetworkingProofs` | `NetInductive`, `ReportedRight` | whatever fails, what is reported was done |
| | `CalmInductive`, `OneClientRight`, `UpdatedRight` | while nothing fails and Wi-Fi is configured once: one live client at most, at the server configured unless that was taken up directly from another; what is said of it is so |
| `SettingsProofs` | `SettingsInductive`, `OnlyUsable`, `Survive`, `InUseRight` | what flash keeps is usable, what was answered OK is in flash, and in use after boot |
| | `OldTorn` | old values are loaded only after a torn initialisation |
| `SensingProofs` | `Inductive`, `BindingsLive` | a condition is evaluated with the bindings of the loop that evaluates it |
| | `ExportsRight`, `SensorThere` | a condition is evaluated with an exporter that was handed this iteration's picture and holds none of an earlier one; an iteration uses only a current, available sensor |
| | `UnboundRight`, `StreamRight` | only the named cases leave a condition without functions, or the stream on |
| `SensorWE2Proofs` | `SensorInductive`, `PictureRight`, `WaitRight` | a frame read is whole and of the size reported; who waits for a frame waits for a capture that can complete |
| | `CameraRefined` | `SensorWE2` implements `Camera` |
| `RingsProofs` | `SerialInductive`, `SerialRight` | bytes go out in order, each once; a line is whole |
| | `PortInductive`, `PortLineRight`, `HostRight` | get_line returns one line; the host reads what was sent and is told of it |
| | `BufferInductive`, `LineRight` | a line taken from the MQTT buffer is a message |
| `FunctionsProofs` | `EveryPixelRight` | for sides up to 32767, a conversion puts the right pixel into every cell, or a neighbour where the sampling rounds; a drawing stays inside the picture |
| | `ScanInductive`, `ModelsAreListed` | a mask's id is one record's; every model laid out as the scan wants it is listed |
| | `ResultsAreOfFrame` | a model that was accepted is read inside its outputs, its results scaled to their frame |
| | `ResultsAreReported` | what suppression leaves is apart and stands for all it took away; a changed number of results is reported |
| | `TypedAsWritten` | Enter executes the line the keys have written; the history repeats no line and stays in its bounds |

Assumptions are those named in the modules: bounds and sizes are naturals, rings are not empty
(`PortSizes`, `SerialSizes` and `MqttSizes`, which TLC evaluates as `SizesAssumption` of
`MCInterrupts`), sides of pictures are 1 to 32767 (`ImageAssumption`: they are 16-bit members of `el_img_t`, and
from 32768 up `sw << 16` in `el_cv.cpp:292-293` overflows the `int` it is computed in), tensors' dimensions are naturals and those of a grid, an output of four
dimensions or more, are not 0 (`ModelAssumption`), a step of the scan is at least 1
(`ScanAssumption`), a box has the types of `el_box_t` without their widths (`ResultAssumption`), the history has
room for a line (`EditorAssumption`), counts are integers, thresholds are naturals (`StoredAssumption`: flash holds one or none), the markers (`NoTask`, `Nobody`,
`NoNext`, `NoAction`) are no ordinary value, "off" and "boot" are no servers, sensors and boards
are the ones there are (`HardwareAssumption`), and the hashes of the expressions in use are
different from each other, from 0 and from 65535 (`HashAssumption`; see below for those that are
not). Two groups of theorems have a hypothesis of their own, which is also how the run that checks
their properties is configured:

- `SettingsInductive` and what follows from it: `~Pipelined`, a client that waits for the answer
  to MODEL before it sends INVOKE. Without it `SettingsSurvive` is false (below).
- `CalmInductive`, `OneClientRight`, `UpdatedRight`: `Calm`, no fault and one configuration of
  Wi-Fi. Servers are any number, and MQTT is configured at any moment. With any one of the faults or
  with a second configuration of Wi-Fi, TLC finds at least one of the two properties violated.

### The arguments

*`LatestSpeaks`, `StopScoped`.* An iteration speaks after comparing its `_task_id` with
`current_task_id`. So one needs to know that the id has moved since any but the latest
command that ran captured it (`IdsGrow`), which holds because tickets run in the order
they were queued (`InOrder`), and that an iteration belongs to a command that has run
(`IterationsRan`). None of these is inductive alone; with `TypeOK` their conjunction `IInv`
is. `StopIsScoped` needs `InOrder` only for the BREAK in the queue. The proofs go action by
action: `InOrderTicket`, `InOrderFetch` and `InOrderExec` for the three steps that change
the queue or the set of executed tickets, one lemma per part of `IInv`.

*`LivesOnce`, `RegistryRight`.* `LInv` adds that a live object has one reference, a task in the
queue or the one the worker holds (`OneReference`), so its destructor runs once, where that goes.
Only the latest loop queues an iteration, so first iterations come in the order of their
commands (`StartsInOrder`), and before its first a command has neither answered nor registered
anything (`AnswersOnce`). Commands therefore register in order, and the registered one whose
object is still there is the last that registered (`OwnerIsLast`).

*`ServerLocks`.* `Present` says which entries are in the list at each point of the worker's
round, so a name is free when it is registered; an entry can be removed only by the holder of
`_exec_lock`, which the listener holds from the lookup to the return.

*`SyncObject`.* Versions order the applied, the taken and the pending configuration
(`Versions`), and equal versions are equal writes, so `synchorize` with an older version keeps
the newer pending one. The worker both stores and asks, so nothing is stored while it asks
(`QueryStable`).

*`ReportedRight`.* Where Wi-Fi is being disabled, a status read as uninitialized comes from a
driver that has switched the station off, and no call that switches it on follows
(`OffWhenDown`). The topics are set only while the client in hand has been asked for them
(`AskedIfSet`): `bring_up` clears them before it starts another.

*`OneClientRight`, `UpdatedRight`.* With nothing to disturb it, Wi-Fi goes up once (`WifiOnce`,
`WifiRises`), and from then on the shared status says CONNECTED exactly while the client in hand
has a session (`SessionKnown`): it changes by itself only where the supervisor waits for that,
so what the supervisor read last is still so (`MqttUnderWay`). A configuration being applied
is newer than the one applied, so while a client is stopped nothing is called applied; and
`bring_up` ends with MQTT disabled only once it is stopped (`SessionConfigured`). A server taken
up while a client lives starts no second one, because the status is CONNECTED already
(`ServerTaken`, `OneSession`); the history variable `direct` says so of the configuration
taken last, and the invariant says where the client is in every other case.

*Settings.* `SettingOK` says of each setting what flash and RAM may hold, and where the two
agree (`InStep`): everywhere but while the settings are initialised or loaded, between a model's
set and its store, and after a write that failed, which `SettingsSurvive` and `SettingsInUse`
name. What may be found after a reboot contains what flash holds, at every step, so a power loss
needs no case of its own. `Phases` says when the device is used, `Jobs` what a command under
way has already done.

*Sensing.* Only the latest loop is between two calls of an iteration (`Turn`): SENSOR, BREAK
and a new loop move `latest`, and the worker takes them between iterations. So a loop that
may go on is the one that was accepted with its sensor ready, and a SENSOR that fails later has
superseded it (`LatestReady`). A condition that is put in place has no binding but led's; the
latest loop whose hash is the condition's has therefore bound what is bound (`Bindings`). A
new loop has hash 0, the hash of no condition, and binds everything anew before its first
evaluation. `Exports` follows the exporter from there: it is
handed the loop's picture before there are results to evaluate, so it holds that picture or, after
a failed encoding, cache or allocation, none, and never that of an iteration before. For `UnboundRight`, `Injected` counts the
conditions put in place since the latest loop looked: one is another one, two may bring the
first back. For `StreamRight`, `Streams` says where in an iteration the stream is on and the
buffer lent; only an error leaves an iteration without the stop.

*`SensorWE2`.* A capture is triggered or a frame is there, never both, and either way the data
path is programmed for the frame that is reported (`Captured`); a capture that can complete has
its callback registered and its receiver on (`Streamed`), and an error outside an init is cleared
by the next (`Told`). `WindowFits` computes, sensor by sensor, that the windows lie inside the
picture and in the buffer. `CameraRefined` maps every step of a driver to one call of `Camera` with
a code it may return, or to a stutter.

*Rings.* The lemmas about `RingBuffer` say what size, the cell at an offset, put, get, find and
the moves of an index compute, with the remainder replaced by one comparison (`Wraps`) and the first
delimiter taken as the least element of a set of naturals (`LeastElement`), not by induction. On
them: a delimiter found stays where it was found, because only the reader moves the head
(`SerialLineInv`, `PortLineInv`); what went out, the transfer under way and what is in the ring are
consecutive; a slave port's reply lies behind the tail between copy and commit and has room
there, and the pin is high while there is something to read (`RepliesInv`). In `MqttBuffer` both
sides copy by a snapshot of the two indices, which the other side moves meanwhile: the writer's
tail and the reader's head are old only on the safe side (`PusherInv`, `ReaderInv`), and what lies
between the indices is always whole messages (`WholeMessages`).

*`EveryPixelRight`.* The conversions compute places in 16.16 fixed point: a step is the quotient of
the sides, and row `i` of the destination reads row `i * step / 65536` of the source. The lemmas of
`Images` say that the quotient of a product by one factor and the remainders of a place give its
row and column back, that such a row lies in the source as long as a side is below 2^15, and
that each of the four rotations maps the destination's cells one to one onto those that it
turns. A conversion is then the union of one write per cell. YUV422
is sampled in floats, and the model leaves open which way the quotient and the product round, each
by less than one part in 2^22: `FloatRounds` and `TruncatedStands` show that this moves a row by one at
most, never out of the source, and not at all where the quotient is whole. `ImageInv` is the property with the
choice of the call.

*`ModelsAreListed`.* A record found so far holds a free id when it is made, so no id has two
(`OneMore`), and `Covered` follows the scan: a packed model before the address looked at is listed, or
an earlier one has its id; the scan jumps over the models it finds, and where the layout fits none
begins inside another. The scan for plain models stops at one already listed; with a step larger
than a header that is none, because a packed model's own bytes begin between two steps. It
ends early only with every id given away (`Scanned`), and then as many models are listed
(`EnoughRecords`).

*`ResultsAreOfFrame`.* `Accepted` keeps what a constructor's check said of the model. For YOLO
Pose and YOLO World the outputs come in any order and are told apart by their shape: there are as
many anchors as outputs of a kind, so each is served by one output of its own (a pigeonhole over
the finite sets), and the assignment of `init` finds the one the check counted. The places read are
products bounded by the elements of the output; the number of elements is a product over a sequence,
a recursive function, of which three lemmas give the value for the few dimensions that the checks
ask for. `Scaled` says which frame the strides belong to, and why another frame's size reaches
them before `postprocess` does.

*`ResultsAreReported`.* A place's rank among the places of a list is a bijection, so sorting and
removing keep every box once. The rounds of suppression are a recursive function over a finite
interval: that it exists and has its equations is shown without induction over data, by taking the
least number of rounds of which it fails. The same least counterexample shows of the rounds
that what is removed was removed by a box that stays (`Cleared`): a box still there when its turn
comes is never removed later. The filter's part is `SameCounts`, which is compared before any freed object is
looked at.

*`TypedAsWritten`.* The code keeps one string and an index that counts from -1, the keys speak of
what is before and behind a cursor. `Followed` says that the two parts make up the line and meet
at the index; `SymbolInserted`, `SymbolRemoved`, `CursorRight` and `LeftOfCursor` show of inserting,
removing and moving in the string that they do to the parts what the key says. After Home or Delete
nothing is said of the parts, but `Cursor` goes on: the index stays inside the line, an empty one
after Home excepted, so a line recalled or entered puts them together again. `Recallable` is the
history: `add` removes the line wherever it was before it appends it (`HistoryAdded`), the last
line excepted, which is left where it is.

### Only model-checked

- Liveness: `EveryCommandAnswered`, `LoopsEnd`, `RegistrationEnds`, `SupervisorPolls`,
  `MqttApplied`, `EveryWriteApplied`, `AllSent`. Fairness and ENABLED are out of the prover's reach.
- `ParsedAsWritten`, and of `ExecutedAsWritten` the part `AsSent` (the other part, `AsTyped`, is
  `TypedAsWritten`): the parser and the tokenizer are RECURSIVE operators over sequences of tokens and symbols, and what they compute is an induction over that data. The prover
  has no backend for a module with such operators and cannot instantiate an induction principle.
  Both are compared with a reference definition over the bounded inputs above.

## What the models show of the code

Disagreements with a document, each with a run that is expected to be violated:

1. **Listener and worker wait for each other** (`server_deadlock`; `repl/server.hpp:265`,
   `at_protocol.md:93`). `exec` takes `_exec_lock` then `_cmd_list_lock`; `unregister_cmd`, which
   an INVOKE's destructor calls on the worker, takes them the other way round.
2. **The supervisor stops polling** (`net_off`; `el_network_esp.cpp:161`,
   `at_protocol.md:966`). Wi-Fi that is up and is then configured off (or anew) is set down by
   `quit`, which unregisters the event handlers before the disconnection they should report;
   `ensure_status_changed_from` then waits for ever.
3. **The old MQTT server is not left** (`net_servers`; `mqtt.hpp:344`, `at_protocol.md:1078`). When
   another server is configured during a session, `set_down` ends nothing, since CONNECTED is
   below the ACTIVE it shall come to, `bring_up` subscribes the client in hand again, and the new
   configuration is called applied with the client still at the old server. `OneClientAtServer`
   and `UpdatedMeansAtServer` except exactly such a direct change (`direct`): a server left for
   none is left, and one taken up afterwards is where the client goes.
4. **DIFFERED replies to equal results** (`filter_differed`; `results_filter.hpp:43`,
   `at_protocol.md:767`). `compare_result_pair` is true of boxes that are far from each other,
   and `compare_and_update` takes it for a match: the same box twice counts as different, and
   one that moved far as the same. `ResultsReported` says what the filter does report, a change
   of the number of results. Besides, the filter has no copy of its own: a copied filter's
   views point into the results of the one it was copied from (`stale`).

Found while modelling, without a run of its own. The models contain the behaviour, and the
properties except exactly these cases:

*Commands and server.*

- *INVOKE? answers 0 while a loop runs* (`callback/invoke.hpp:36`, `at_protocol.md:378`). A new
  `Invoke` raises `is_invoke` in its constructor; the object it supersedes dies later and lowers
  it. To see it, check in `CommandTasks` that some `Looping(k)` with `kind[k] = "invoke"` implies `isInvoke`.
- *Threshold answers can be stale.* TSCORE queued before an INVOKE and run after it sets the
  threshold of the algorithm its closure captured, and stores it: TSCORE? then answers a value
  of the other algorithm. And a TSCORE or TIOU whose configuration cannot be stored answers
  `EL_EIO` with the threshold already changed (`invoke.hpp:295-299`, `344-348`), as an INVOKE does
  that finds no configuration in flash and fails to store its own (`invoke.hpp:281`, the result of
  `<<` is dropped). `RegistryFollowsLoops` says that nothing else makes the stored threshold differ
  from the current algorithm's: the history variable `lastScore` tells how the last write fared.
- *Lines.* Extra arguments are ignored, text between arguments is passed over, and a number
  directly after another needs a separator. An unterminated string is accepted. A tag is
  answered in capitals, and one with `=` in it ends the name. `AsSent` is about requests
  as a client writes them, with its quotes escaped.
- *The line editor* (`Server::loop`, which nothing in `main_task.hpp` calls). Home puts the
  cursor behind the first character, and on an empty line makes the next key insert behind the
  end, where `std::string::insert` throws; Delete moves the cursor back, and does nothing at the
  start of the line. Down behind the oldest line goes to the newest, and after Up repeats the line
  shown. `AsTyped` leaves Home and Delete out. `loop` takes no execution lock.
- *WIFI? reads the configuration from the storage* (`callback/wifi.hpp:132`), MQTTSERVER? from the
  object (`callback/mqtt.hpp:117`): `SyncObject` models the second.
- *YIELD* (`main_task.hpp:116`) waits while a stop is requested, the opposite of what its name
  and `at_protocol.md:1201` say; it changes no state.

*Network.*

- *A regained session is deaf.* `_sub_topics_set` survives a session that is lost and regained
  between two polls, and the session is called active without a subscription: sessions are clean,
  and nobody subscribes again. `ReportedMeansDone` claims only that the topic was asked for.
- *Wi-Fi may not be rejoined.* A client that loses its connection reports it after the station
  reported its own loss, and sets the shared status from IDLE back to JOINED: the supervisor
  sees a joined station. `net_faults` therefore claims no liveness; `ReportedMeansDone` says that
  before any client is started the status is right about the station.
- *Disabling MQTT while its client is still trying* leaves the client running: the status was
  never CONNECTED, so `set_down` has nothing to do.
- *A join that succeeds after the 15 s of `try_ensure`* is set down again at the next poll, by
  `quit`, with the consequence of 2.

*Settings and sensing.*

- *INVOKE loads a model on the listener* (`main_task.hpp:236-240`) while the worker may be in
  `set_model`. With `Pipelined = TRUE`, a client that does not wait for MODEL's answer, TLC
  finds `SettingsSurvive` violated: MODEL 2 is answered OK and the flash keeps another id. The
  run has `Pipelined = FALSE`, which is how the protocol's request and reply are meant.
- *A repeated command after a failed write is answered OK without a write*: `set_model`,
  `set_sensor`, `set_algorithm` and `set_action` compare with the value in RAM, which was
  changed before the write. `SettingsSurvive` excepts exactly this case.
- *ALGO with an unknown type* stores "undefined" and is answered OK when an algorithm had been
  set: the error code is overwritten by the result of the write (`algorithm.hpp:41`).
- *The storage version is the first key written*: an initialisation cut off by power loss
  leaves old values that every later boot accepts (`OldLoadedOnlyIfTorn` says only then).
- *An iteration that fails keeps the stream on.* On the Himax port for good: `start_stream`
  answers EL_EBUSY from then on, and SENSOR's deinit and init do not clear `_is_streaming`. On the
  ESP32 port the only frame buffer stays lent until the next SENSOR. `StreamLeftOnlyByError`
  says that nothing else leaves it on.
- *An expression replaced and set again between two iterations* is left without its
  functions: the loop compares hashes and sees no change, every evaluation is an exception
  (`UnboundOnlyAfterReturn` says that nothing else does that).
- *The hash decides too much.* A new INVOKE starts with `_action_hash` 0, so it would not bind
  an expression whose CRC-16 is 0, and the condition would call the algorithm of an INVOKE
  that is gone; an expression with the CRC-16 of the one in place is answered OK and ignored.
  `HashAssumption` excludes both.
- *The exporter's buffer.* When a picture outgrows it, `cache` deletes the buffer and assigns the new one
  to a variable of its own (`contents_export.hpp:45-46`) that shadows the member: what is saved then
  and later is a buffer already deleted, which the next reallocation or the destructor deletes again.
  Where the encoding or an allocation fails, `save_jpeg()` finds nothing and returns 0 though the
  inference went on, and a full card leaves a cut file answered 1 (`commit` ignores how much was
  written); `at_protocol.md:894` says "returns `1` when success, otherwise `0`". `Sensing` has these as
  the states of `exporter`, and a wrong buffer is seen by checking that `at = "evaluate"` implies
  `exporter[it] # "freed"`. `ExportsThisFrame` says what the code does keep: the exporter was handed the
  picture of this iteration and holds none of an earlier one.

*Ports and drivers.*

- *Two senders.* Listener and worker may send on a slave port at once; nothing excludes them, and
  both copy to the same place (`HostServed` excepts sends that overlapped).
- *An error of the I2C bus* ends the reply and not its timer, which restarts the device.
- *A send that times out* lowers `_tx_busy` while a transfer runs; the next send starts another on
  the same buffer. A ring drained just before a send starts its transfer makes one of no bytes,
  and if the vendor's driver does not call back for it, sending stops (`zeroEnds`).
- *A full MQTT ring reads as empty*, and a line longer than the listener's buffer is never taken,
  nor what is behind it. A push that fills the ring while a line is taken can glue messages.
- *A host's reset*, or an overflow, between find and the copy lets get_line return bytes that
  were read before, or a line moved by one.
- *An image sensor's init reports success* after an error of the data path that came during it;
  failed register writes are only logged on some paths.

*Pictures, models and expressions.*

- *RGB888 to RGB565 or grey* reads the source's bytes as RGB565; a source and a destination of
  one format that is not turned are copied without resampling; in a grey picture the rows of
  a filled rectangle drift. YUV to grey narrows a value before it is clipped, and YUV to RGB565
  lets it wrap. The last group of a base64 text repeats one letter: it is read at `i` in a loop
  over `j` (`el_base64.cpp:98`).
- *`preprocess` ignores the result of the conversion*, and a dimension is called width although
  tensors have the height first (square inputs do not tell).
- *YOLO World's strides keep the scale of the constructor*, whatever the frame
  (`el_algorithm_yolo_world.cpp:249`); YOLO Pose's follow it.
- *NVIDIA's check* leaves the values per cell open, which postprocess indexes with. On the
  Himax boards assertions are off, and a type that does not fit the model goes on.
- *A score that is cut to 0 counts as suppressed.* `el_nms` marks a suppressed box by its score;
  with a threshold of 0, YOLO keeps a box of less than 1 % (`el_algorithm_yolo.cpp:161`), whose
  score is then 0: it is removed, whatever it overlaps. `ResultsReported` excepts it.
- *Partitions.* After a packed model the scan goes on one step behind its end: a model laid out
  directly behind it, or after a size that is no multiple of the step, is missed. The scan for
  plain models stops at the first one already listed; with a step of one header that is the first
  packed model. The header's bytes are not counted when its size is checked
  (`el_data_models.cpp:100`): a packed model's memory, which begins behind its header, may end one
  header behind the partition. `ModelsListed` claims no more than that.
- *Sides of 32768 and more.* `sw << 16` is computed in an `int` (`el_cv.cpp:292-293`) and overflows;
  `ImageAssumption` stops below. YUV422 is sampled in floats, which may take a neighbouring pixel
  where the sides are no multiples; `PixelsRight` allows it exactly there.
- *Expressions.* Operators have no precedence; `a&&()` has a null operand; what follows an
  unmatched `)` is ignored; a lone `&` ends the text; `a+-b` is `a-b`.

## What is not modelled

- *Values*: colours, tensors, scores and coordinates; the wording of replies. The third-party
  libraries (FlashDB, ByteTrack, JPEGENC, TensorFlow Lite Micro), CRC and base64.
- *JPEG*: `el_img_convert` to JPEG is a build without the encoder here; the encoder is a library.
- *Atomic writes of FlashDB are assumed*: a key is old or new after power loss. The storage's
  iterator, erase and the KV commands, which `main_task.hpp` does not register.
- *`_device_lock`*, which only delays publishers. That a client reports its disconnection is
  assumed of the IDF. An event is handled in the step that causes it.
- *Networking through an external host*: ports without native networking forward the network
  commands; a variable per command, read by another.
- *The file an exporter writes* and its name: the file system is the board's. Boards without it
  (`SSCMA_CFG_ENABLE_CONTENTS_EXPORT` 0; the ESP32 port has no `Extfs`) are not modelled.
- *Transports of the ESP32 and WE1 ports*: blocking reads and writes of the boards' libraries.
  Display, LEDs, flash in memory-mapped mode, board initialisation: register-level I/O.
- *INFO and status queries*: a read and its formatting.

## Plan

Done so far, in this order: tasks and locks, the network, what persists, the camera; then the
ports and sensor drivers under interrupts, the functions of the inference, and the proofs of every
safety property but the parser's and the tokenizer's. Next:

1. A violated run each for `Pipelined = TRUE`, for the stream that stays on and for the exporter's
   deleted buffer, in place of the descriptions above.
2. The transports of the ESP32 port, once the boards' libraries are described.

## How to run

    tlc -config MCCommandTasks.cfg MCCommandTasks.tla     # any MC*.cfg with its module
    tlapm CommandTasksProofs.tla

The instances range from a few thousand to about four million states; the largest
(`settings`, `sensing`, `net_faults`, `functions`) take one to three minutes with two workers;
`FunctionsProofs` takes five to ten, from nothing.
