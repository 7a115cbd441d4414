---------------------------- MODULE CommandTasks ----------------------------
(***************************************************************************)
(* The life of AT commands between the listener thread, which parses a     *)
(* request and queues a task, and the executor's worker, which runs it     *)
(* (sscma/main_task.hpp, sscma/callback/invoke.hpp, callback/sample.hpp).  *)
(*                                                                         *)
(* INVOKE and SAMPLE are loops made of tasks: every iteration queues the   *)
(* next one and hands it the shared pointer that keeps the Invoke or       *)
(* Sample object alive.  A loop ends when its count is exhausted, when a   *)
(* later command has moved current_task_id on, when the stop flag is seen, *)
(* or on an error of the camera or of the algorithm; the object dies with  *)
(* the last task that refers to it, and its destructor withdraws the       *)
(* configuration commands and the is_invoke / is_sample flag.              *)
(*                                                                         *)
(* A ticket numbers, in the order the listener accepts them, the commands  *)
(* that move current_task_id: INVOKE, SAMPLE, BREAK and MODEL/ALGO/SENSOR  *)
(* ("config").  The ticket of an INVOKE or SAMPLE also names its object.   *)
(***************************************************************************)
EXTENDS Executor, Integers, FiniteSets

CONSTANTS
  MaxTickets,       \* bound: commands with a ticket accepted in a behaviour
  MaxQueries,       \* bound: status and threshold commands accepted
  Times,            \* the N_TIMES arguments tried, -1 for an endless loop
  Score,            \* the threshold values
  DefaultScore,     \* the threshold an algorithm is built with
  FirstStored       \* what flash may hold at power-on

ASSUME TicketAssumption ==
  /\ MaxTickets \in Nat
  /\ MaxQueries \in Nat
  /\ Times \subseteq Int
  /\ Score \subseteq Nat
  /\ DefaultScore \in Score

(* What flash holds until an algorithm's configuration is stored. *)
Absent == -1

ASSUME StoredAssumption == FirstStored \subseteq Score \cup {Absent}

Ticket == 1 .. MaxTickets

Kind == {"invoke", "sample", "break", "config"}

(* What the closures in the queue do and capture: "exec" is the task of a   *)
(* command with a ticket, "start" and "loop" are the first and the later    *)
(* iterations of its object, the threshold commands capture the algorithm   *)
(* of the object that registered them.                                      *)
PlainTask == [op : {"ready", "status"}, job : {0}, val : {0}]

TicketTask == [op : {"exec", "start", "loop", "tscore?"}, job : Ticket, val : {0}]

ScoreTask == [op : {"tscore"}, job : Ticket, val : Score]

Task == PlainTask \cup TicketTask \cup ScoreTask

ASSUME NoTaskAssumption == NoTask \notin Task

MkTask(op, job, val) == [op |-> op, job |-> job, val |-> val]

VARIABLES
  lpc,              \* the listener: "idle", or "break" between stop and queueing
  accepted,         \* tickets given out
  queries,          \* status and threshold commands accepted
  kind, ntimes,     \* per ticket: the command and its N_TIMES
  isReady,          \* static_resource->is_ready
  currentTaskId,    \* static_resource->current_task_id
  executed,         \* the tickets whose command task has run
  taskId, times,    \* _task_id and _times of the object of a ticket
  alive,            \* the object exists (a shared_ptr to it does)
  registered,       \* its _config_cmds is not empty
  events, replies,  \* type 1 and type 0 messages sent for a ticket
  speaking,         \* the ticket the current task sent an event for, or 0
  isInvoke, isSample,
  owner,            \* whose algorithm the registered TSCORE/TIOU capture, or 0
  threshold,        \* the threshold of the algorithm object of a ticket
  stored,           \* the algorithm configuration in flash
  lastScore         \* history: how the last threshold to be stored fared

jobVars == <<taskId, times, alive, registered, events, replies>>
flagVars == <<isReady, currentTaskId, executed, speaking, isInvoke, isSample>>
configVars == <<owner, threshold, stored, lastScore>>
listenerVars == <<lpc, accepted, queries, kind, ntimes>>
vars == <<execVars, jobVars, flagVars, configVars, listenerVars>>

Init ==
  /\ ExecInit(<<MkTask("ready", 0, 0)>>)
  /\ lpc = "idle" /\ accepted = 0 /\ queries = 0
  /\ kind = [k \in Ticket |-> "config"]
  /\ ntimes = [k \in Ticket |-> 0]
  /\ isReady = FALSE /\ currentTaskId = 0 /\ executed = {}
  /\ taskId = [k \in Ticket |-> 0]
  /\ times = [k \in Ticket |-> 0]
  /\ alive = [k \in Ticket |-> FALSE]
  /\ registered = [k \in Ticket |-> FALSE]
  /\ events = [k \in Ticket |-> 0]
  /\ replies = [k \in Ticket |-> 0]
  /\ speaking = 0
  /\ isInvoke = FALSE /\ isSample = FALSE
  /\ owner = 0
  /\ threshold = [k \in Ticket |-> 0]
  /\ stored \in FirstStored
  /\ lastScore = "saved"

-----------------------------------------------------------------------------
(* The listener: the callbacks that register_commands installs, run one at  *)
(* a time under Server::exec.                                               *)

(* A command with a ticket other than BREAK is queued in one step. *)
Accept(c, n) ==
  /\ lpc = "idle" /\ accepted < MaxTickets
  /\ accepted' = accepted + 1
  /\ kind' = [kind EXCEPT ![accepted'] = c]
  /\ ntimes' = [ntimes EXCEPT ![accepted'] = n]
  /\ AddTask(MkTask("exec", accepted', 0))
  /\ UNCHANGED <<stopRequested, cur, wpc, lpc, queries>>
  /\ UNCHANGED <<jobVars, flagVars, configVars>>

(* BREAK first raises the stop flag, once the device is ready ... *)
BreakStop ==
  /\ lpc = "idle" /\ accepted < MaxTickets
  /\ IF isReady THEN TryStopTask ELSE UNCHANGED stopRequested
  /\ lpc' = "break"
  /\ UNCHANGED <<queue, cur, wpc, accepted, queries, kind, ntimes>>
  /\ UNCHANGED <<jobVars, flagVars, configVars>>

(* ... and then queues the task that moves current_task_id and replies. *)
BreakQueue ==
  /\ lpc = "break"
  /\ lpc' = "idle"
  /\ accepted' = accepted + 1
  /\ kind' = [kind EXCEPT ![accepted'] = "break"]
  /\ AddTask(MkTask("exec", accepted', 0))
  /\ UNCHANGED <<stopRequested, cur, wpc, queries, ntimes>>
  /\ UNCHANGED <<jobVars, flagVars, configVars>>

(* INVOKE? and SAMPLE? are always there; TSCORE, TIOU and their queries     *)
(* only while registered, and act on the algorithm they captured.           *)
Query(t) ==
  /\ lpc = "idle" /\ queries < MaxQueries
  /\ t.op # "status" => owner # 0 /\ t.job = owner
  /\ queries' = queries + 1
  /\ AddTask(t)
  /\ UNCHANGED <<stopRequested, cur, wpc, lpc, accepted, kind, ntimes>>
  /\ UNCHANGED <<jobVars, flagVars, configVars>>

QueryTask ==
  {MkTask("status", 0, 0)}
    \cup {MkTask("tscore", owner, v) : v \in Score}
    \cup {MkTask("tscore?", owner, 0)}

Listener ==
  \/ \E n \in Times : Accept("invoke", n) \/ Accept("sample", n)
  \/ Accept("config", 0)
  \/ BreakStop
  \/ BreakQueue
  \/ \E t \in QueryTask : Query(t)

-----------------------------------------------------------------------------
(* The worker: bodies of the tasks.                                         *)

(* After the body: queue the continuation, or go on to the stop check. *)
Continue(goOn) ==
  /\ wpc' = IF goOn THEN "push" ELSE "check"
  /\ UNCHANGED <<queue, stopRequested, cur>>

RunReady ==
  /\ wpc = "body" /\ cur.op = "ready"
  /\ isReady' = TRUE
  /\ speaking' = 0
  /\ Continue(FALSE)
  /\ UNCHANGED <<currentTaskId, executed, isInvoke, isSample>>
  /\ UNCHANGED <<jobVars, configVars, listenerVars>>

(* The command tasks that start no loop: count up, do the work, reply. *)
RunBreakOrConfig ==
  /\ wpc = "body" /\ cur.op = "exec" /\ kind[cur.job] \in {"break", "config"}
  /\ currentTaskId' = currentTaskId + 1
  /\ executed' = executed \cup {cur.job}
  /\ replies' = [replies EXCEPT ![cur.job] = @ + 1]
  /\ speaking' = 0
  /\ Continue(FALSE)
  /\ UNCHANGED <<taskId, times, alive, registered, events>>
  /\ UNCHANGED <<isReady, isInvoke, isSample>>
  /\ UNCHANGED <<configVars, listenerVars>>

(* The is_invoke and is_sample flags: raised by the constructor (and lowered *)
(* at once if prepare() fails), lowered by the destructor.                  *)
Raise(flag, mine, usable) == IF mine THEN usable ELSE flag

(* Mutant of Lower: the destructor leaves the flag alone. *)
LowerNot(flag, mine) == flag

Lower(flag, mine) == IF mine THEN FALSE ELSE flag

(* The INVOKE and SAMPLE tasks: create the object, which captures the new   *)
(* id and raises its flag, and prepare() it.  If the sensor, model or       *)
(* algorithm is not usable it replies, and the object dies here and now.    *)
RunCreate(usable) ==
  LET k == cur.job
      invoke == kind[k] = "invoke"
  IN
  /\ wpc = "body" /\ cur.op = "exec" /\ kind[k] \in {"invoke", "sample"}
  /\ currentTaskId' = currentTaskId + 1
  /\ executed' = executed \cup {k}
  /\ taskId' = [taskId EXCEPT ![k] = currentTaskId']
  /\ alive' = [alive EXCEPT ![k] = usable]
  /\ replies' = [replies EXCEPT ![k] = IF usable THEN @ ELSE @ + 1]
  /\ isInvoke' = Raise(isInvoke, invoke, usable)
  /\ isSample' = Raise(isSample, ~invoke, usable)
  /\ speaking' = 0
  /\ Continue(usable)
  /\ UNCHANGED <<times, registered, events, isReady, configVars, listenerVars>>

(* event_loop_cam: one iteration.  The count is compared and incremented    *)
(* first (it is only kept for loops that have one), then the id is          *)
(* compared; what the camera and the algorithm do is the outcome: a result  *)
(* reported, a result DIFFERED suppresses, or an error, which is reported   *)
(* and ends the loop.                                                       *)
Exhausted(k) == ntimes[k] >= 0 /\ times[k] >= ntimes[k]

(* Mutant of Superseded: the id is not compared. *)
SupersededNever(k) == FALSE

Superseded(k) == currentTaskId # taskId[k]

Outcome(k) == {"event", "error"} \cup IF kind[k] = "invoke" THEN {"quiet"} ELSE {}

Iterate(k, outcome) ==
  LET runs   == ~Exhausted(k) /\ ~Superseded(k)
      speaks == runs /\ outcome # "quiet"
  IN
  /\ times' = [times EXCEPT ![k] = IF ntimes[k] >= 0 THEN @ + 1 ELSE @]
  /\ events' = [events EXCEPT ![k] = IF speaks /\ ntimes[k] >= 0 THEN @ + 1 ELSE @]
  /\ speaking' = IF speaks THEN k ELSE 0
  /\ Continue(runs /\ outcome # "error")

(* The fresh algorithm of a loop takes its threshold from flash, or stores  *)
(* its own there if there is none, a write that may fail unnoticed.         *)
Configure(k, writes) ==
  IF stored = Absent
    THEN /\ threshold' = [threshold EXCEPT ![k] = DefaultScore]
         /\ stored' = IF writes THEN DefaultScore ELSE stored
         /\ lastScore' = IF writes THEN "saved" ELSE "failed"
    ELSE /\ threshold' = [threshold EXCEPT ![k] = stored]
         /\ lastScore' = "saved"
         /\ UNCHANGED stored

(* event_loop: register the configuration commands on that algorithm,       *)
(* reply, and iterate at once; an algorithm or sensor type without a loop   *)
(* only replies.                                                            *)
RunStart(supported, outcome) ==
  LET k == cur.job
      configures == supported /\ kind[k] = "invoke"
  IN
  /\ wpc = "body" /\ cur.op = "start"
  /\ outcome \in Outcome(k)
  /\ replies' = [replies EXCEPT ![k] = @ + 1]
  /\ registered' = [registered EXCEPT ![k] = configures]
  /\ owner' = IF configures THEN k ELSE owner
  /\ IF configures
       THEN \E writes \in BOOLEAN : Configure(k, writes)
       ELSE UNCHANGED <<threshold, stored, lastScore>>
  /\ IF supported
       THEN Iterate(k, outcome)
       ELSE Continue(FALSE) /\ speaking' = 0 /\ UNCHANGED <<times, events>>
  /\ UNCHANGED <<taskId, alive, isReady, currentTaskId, executed>>
  /\ UNCHANGED <<isInvoke, isSample, listenerVars>>

(* A queued iteration.  The closure of Invoke looks at the stop token       *)
(* first; the closure of Sample does not.                                   *)
Stopped(k) == kind[k] = "invoke" /\ stopRequested

RunLoop(outcome) ==
  LET k == cur.job IN
  /\ wpc = "body" /\ cur.op = "loop"
  /\ outcome \in Outcome(k)
  /\ IF Stopped(k)
       THEN Continue(FALSE) /\ speaking' = 0 /\ UNCHANGED <<times, events>>
       ELSE Iterate(k, outcome)
  /\ UNCHANGED <<taskId, alive, registered, replies>>
  /\ UNCHANGED <<isReady, currentTaskId, executed, isInvoke, isSample>>
  /\ UNCHANGED <<configVars, listenerVars>>

(* TSCORE: the captured algorithm has the new threshold, whether or not its *)
(* configuration can be stored.  History: a threshold of the owner is now   *)
(* saved or has failed to be, and one of an earlier algorithm is saved late. *)
SetScore(k, v, writes) ==
  /\ threshold' = [threshold EXCEPT ![k] = v]
  /\ stored' = IF writes THEN v ELSE stored
  /\ lastScore' = CASE k = owner /\ writes  -> "saved"
                    [] k = owner /\ ~writes -> "failed"
                    [] k # owner /\ writes  -> "late"
                    [] OTHER -> lastScore

(* TSCORE sets a threshold; one out of range, like the status and threshold *)
(* queries, changes nothing but the transport's output.                     *)
RunQuery ==
  /\ wpc = "body" /\ cur.op \in {"status", "tscore", "tscore?"}
  /\ \/ /\ cur.op = "tscore"
        /\ \E writes \in BOOLEAN : SetScore(cur.job, cur.val, writes)
     \/ UNCHANGED <<threshold, stored, lastScore>>
  /\ speaking' = 0
  /\ Continue(FALSE)
  /\ UNCHANGED <<isReady, currentTaskId, executed, isInvoke, isSample, owner>>
  /\ UNCHANGED <<jobVars, listenerVars>>

(* The continuation is queued with a reference to the object: prepare()     *)
(* queues event_loop, every iteration queues the next one.                  *)
Push ==
  /\ wpc = "push"
  /\ AddTask(MkTask(IF cur.op = "exec" THEN "start" ELSE "loop", cur.job, 0))
  /\ wpc' = "check"
  /\ UNCHANGED <<stopRequested, cur>>
  /\ UNCHANGED <<jobVars, flagVars, configVars, listenerVars>>

(* A task holds a reference to an object if it is one of its iterations. *)
Refers(t, k) == t.op \in {"start", "loop"} /\ t.job = k

(* Mutant of Queued: some closure keeps its reference for ever. *)
QueuedLeak(k) == TRUE

Queued(k) == \E i \in 1 .. Len(queue) : Refers(queue[i], k)

(* reset_config_cmds: the commands of k are unregistered by name, whoever's  *)
(* algorithm they capture by now.                                           *)
(* Mutant of ResetConfigCmds: the destructor forgets them. *)
ResetConfigCmdsNever(k) == owner

ResetConfigCmds(k) == IF registered[k] THEN 0 ELSE owner

(* The worker's task is destroyed; with the last reference the object goes: *)
(* ~Invoke withdraws the commands it registered, by name, and lowers        *)
(* is_invoke; ~Sample lowers is_sample.                                     *)
Drop ==
  LET k == cur.job
      dies == Refers(cur, k) /\ ~Queued(k)
  IN
  /\ DropTask
  /\ alive' = IF dies THEN [alive EXCEPT ![k] = FALSE] ELSE alive
  /\ owner' = IF dies THEN ResetConfigCmds(k) ELSE owner
  /\ isInvoke' = Lower(isInvoke, dies /\ kind[k] = "invoke")
  /\ isSample' = Lower(isSample, dies /\ kind[k] = "sample")
  /\ UNCHANGED <<taskId, times, registered, events, replies>>
  /\ UNCHANGED <<isReady, currentTaskId, executed, speaking>>
  /\ UNCHANGED <<threshold, stored, lastScore, listenerVars>>

WorkerStep(A) == A /\ UNCHANGED <<jobVars, flagVars, configVars, listenerVars>>

Body ==
  \/ RunReady
  \/ RunBreakOrConfig
  \/ \E usable \in BOOLEAN : RunCreate(usable)
  \/ \E supported \in BOOLEAN, o \in {"event", "quiet", "error"} :
       RunStart(supported, o)
  \/ \E o \in {"event", "quiet", "error"} : RunLoop(o)
  \/ RunQuery

Worker ==
  \/ WorkerStep(Fetch)
  \/ WorkerStep(Idle)
  \/ Body
  \/ Push
  \/ WorkerStep(CheckStop)
  \/ WorkerStep(ResetStop)
  \/ Drop

Next == Listener \/ Worker

Spec == Init /\ [][Next]_vars

(* The worker is a FreeRTOS task that never blocks for good, and a listener *)
(* inside the BREAK callback returns from it.                               *)
FairSpec == Spec /\ WF_vars(Worker) /\ WF_vars(BreakQueue)

-----------------------------------------------------------------------------
QueueTypeOK ==
  /\ queue \in Seq(Task)
  /\ stopRequested \in BOOLEAN
  /\ cur \in Task \cup {NoTask}
  /\ wpc \in WorkerPc
  /\ wpc \in {"fetch", "idle"} <=> cur = NoTask
  /\ wpc = "push" => cur.job \in Ticket

ListenerTypeOK ==
  /\ lpc \in {"idle", "break"}
  /\ accepted \in 0 .. MaxTickets
  /\ lpc = "break" => accepted < MaxTickets
  /\ queries \in Nat
  /\ kind \in [Ticket -> Kind]
  /\ ntimes \in [Ticket -> Int]

FlagTypeOK ==
  /\ isReady \in BOOLEAN
  /\ currentTaskId \in Nat
  /\ executed \subseteq Ticket
  /\ speaking \in Ticket \cup {0}
  /\ isInvoke \in BOOLEAN
  /\ isSample \in BOOLEAN

JobTypeOK ==
  /\ taskId \in [Ticket -> Nat]
  /\ times \in [Ticket -> Nat]
  /\ alive \in [Ticket -> BOOLEAN]
  /\ registered \in [Ticket -> BOOLEAN]
  /\ events \in [Ticket -> Nat]
  /\ replies \in [Ticket -> Nat]

ConfigTypeOK ==
  /\ owner \in Ticket \cup {0}
  /\ threshold \in [Ticket -> Nat]
  /\ stored \in Score \cup {Absent}
  /\ lastScore \in {"saved", "failed", "late"}

(* Every variable keeps the type of the member it models; the worker holds  *)
(* a task exactly while it is between the pop and the end of the loop body. *)
TypeOK ==
  /\ QueueTypeOK
  /\ ListenerTypeOK
  /\ FlagTypeOK
  /\ JobTypeOK
  /\ ConfigTypeOK

(* The object of k is looping: it exists and no later command has run. *)
Looping(k) == alive[k] /\ registered[k] /\ taskId[k] = currentTaskId

(* A result or error event is only ever sent for the latest command that   *)
(* has run: after the reply to BREAK, or to any later MODEL, ALGO, SENSOR, *)
(* SAMPLE or INVOKE, no earlier loop speaks again, however the stop flag   *)
(* was raised and lowered meanwhile.                                       *)
OnlyLatestSpeaks == speaking # 0 => \A k \in executed : k <= speaking

(* The stop flag is up only while a BREAK is on its way: being handled by   *)
(* the listener, queued, or run and not yet past the worker's stop check.   *)
(* So a loop requested after a BREAK is never stopped by that BREAK.        *)
BreakTask(t) == t.op = "exec" /\ kind[t.job] = "break"

StopIsScoped ==
  stopRequested =>
    \/ lpc = "break"
    \/ \E i \in 1 .. Len(queue) : BreakTask(queue[i])
    \/ wpc \in {"body", "push", "check", "reset"} /\ BreakTask(cur)

(* Why these hold: the queue keeps the tickets in order, so the commands    *)
(* that have run precede those queued, ...                                  *)
ExecTask(t) == t.op = "exec"

InOrder ==
  /\ \A k \in executed : k <= accepted
  /\ \A i \in 1 .. Len(queue) : ExecTask(queue[i]) =>
       /\ queue[i].job <= accepted
       /\ \A k \in executed : k < queue[i].job
       /\ \A j \in 1 .. Len(queue) :
            i < j /\ ExecTask(queue[j]) => queue[i].job < queue[j].job
  /\ wpc # "fetch" /\ wpc # "idle" /\ ExecTask(cur) => cur.job <= accepted
  /\ wpc = "body" /\ ExecTask(cur) =>
       /\ \A k \in executed : k < cur.job
       /\ \A i \in 1 .. Len(queue) :
            ExecTask(queue[i]) => cur.job < queue[i].job

(* ... and current_task_id has moved on since any command but the last one  *)
(* that has run captured it, ...                                            *)
IdsGrow ==
  \A j \in Ticket :
    /\ taskId[j] <= currentTaskId
    /\ \A k \in executed : j < k => taskId[j] < currentTaskId

(* ... and an iteration belongs to a command that has run.                  *)
IterationsRan ==
  /\ \A i \in 1 .. Len(queue) :
       queue[i].op \in {"start", "loop"} => queue[i].job \in executed
  /\ cur # NoTask /\ cur.op \in {"start", "loop"} => cur.job \in executed
  /\ wpc = "push" => cur.job \in executed

(* The inductive invariant of the proofs in CommandTasksProofs. *)
IInv ==
  /\ TypeOK
  /\ InOrder
  /\ IdsGrow
  /\ IterationsRan
  /\ OnlyLatestSpeaks
  /\ StopIsScoped

(* TSCORE and TIOU exist exactly as long as they should: while an INVOKE is *)
(* looping they are registered and capture its algorithm, although every    *)
(* destructor withdraws them by name; they never outlive the object that    *)
(* registered them; and a loop starts registering when no other loop's are  *)
(* registered, so that the registry never has to replace an entry (see      *)
(* ServerLocks).  And the threshold in flash, which the next INVOKE will    *)
(* have, is the one of the algorithm they capture, from its first iteration *)
(* on, with two exceptions: its last write to flash failed, which TSCORE    *)
(* answers but does not undo, or a TSCORE queued for an earlier algorithm   *)
(* was run late and stored that one's since.  A late TSCORE that cannot be  *)
(* stored, like one out of range, is no exception.                          *)
RegistryFollowsLoops ==
  /\ \A k \in Ticket : Looping(k) => owner = k
  /\ owner # 0 => alive[owner]
  /\ wpc = "body" /\ cur.op = "start" => owner = 0
  /\ owner # 0 /\ lastScore = "saved" => threshold[owner] = stored

References(k) ==
  Cardinality({i \in 1 .. Len(queue) : Refers(queue[i], k)})

(* An object is kept alive by exactly one task, the queued iteration or the *)
(* one the worker holds: a loop never forks and an object never leaks; and  *)
(* is_invoke and is_sample are not left up by loops that are gone.  (They   *)
(* may be down while a loop runs: the object it superseded lowers them.)  A  *)
(* loop with a count sends no more events than that, and no command is      *)
(* answered twice.                                                          *)
LoopLife ==
  /\ \A k \in Ticket :
       /\ ntimes[k] >= 0 => events[k] <= ntimes[k]
       /\ replies[k] <= 1
       /\ References(k) <= 1
       /\ alive[k] => \/ References(k) = 1
                      \/ wpc \in {"body", "push", "check", "reset", "drop"} /\ cur.job = k
  /\ isInvoke => \E k \in Ticket : alive[k] /\ kind[k] = "invoke"
  /\ isSample => \E k \in Ticket : alive[k] /\ kind[k] = "sample"

(* Why these hold: an object is referred to by one task only, which the     *)
(* queue holds, or the worker until it has queued the next one, ...         *)
Iteration(t) == t.op \in {"start", "loop"}

Running == wpc \notin {"fetch", "idle"}

OneReference ==
  /\ \A i, j \in 1 .. Len(queue) :
       Iteration(queue[i]) /\ Refers(queue[j], queue[i].job) => i = j
  /\ \A i \in 1 .. Len(queue) : Iteration(queue[i]) => alive[queue[i].job]
  /\ (Running /\ Iteration(cur)) \/ wpc = "push" => alive[cur.job]
  /\ (wpc = "body" /\ Iteration(cur)) \/ wpc = "push" => ~Queued(cur.job)
  /\ \A k \in Ticket : alive[k] =>
       /\ k \in executed
       /\ \/ Queued(k)
          \/ Running /\ cur.job = k /\ (Iteration(cur) \/ wpc = "push")

(* ... a loop that queues an iteration has the latest id, so that a first   *)
(* iteration is followed by first iterations of later commands only, ...    *)
StartsInOrder ==
  /\ \A i, j \in 1 .. Len(queue) :
       i < j /\ Iteration(queue[i]) /\ Iteration(queue[j]) =>
         /\ queue[i].op = "start" => queue[j].op = "start"
         /\ queue[j].op = "start" => queue[i].job < queue[j].job
  /\ Running /\ Iteration(cur) =>
       \A i \in 1 .. Len(queue) : queue[i].op = "start" => cur.job < queue[i].job
  /\ wpc = "body" /\ cur.op = "start" => \A i \in 1 .. Len(queue) : queue[i].op # "loop"
  /\ wpc = "push" =>
       (ExecTask(cur) \/ Iteration(cur)) /\ \A k \in executed : k <= cur.job

(* ... before its first iteration a command has neither been answered nor   *)
(* registered anything, ...                                                 *)
Fresh(k) == replies[k] = 0 /\ ~registered[k]

AnswersOnce ==
  /\ \A k \in Ticket \ executed : Fresh(k) /\ events[k] = 0
  /\ \A i \in 1 .. Len(queue) : queue[i].op = "start" => Fresh(queue[i].job)
  /\ wpc = "body" /\ cur.op = "start" => Fresh(cur.job)
  /\ wpc = "push" /\ cur.op = "exec" => Fresh(cur.job)
  /\ \A k \in Ticket :
       /\ replies[k] <= 1
       /\ ntimes[k] >= 0 => events[k] <= times[k] /\ events[k] <= ntimes[k]

FlagsHaveObjects ==
  /\ isInvoke => \E k \in Ticket : alive[k] /\ kind[k] = "invoke"
  /\ isSample => \E k \in Ticket : alive[k] /\ kind[k] = "sample"

(* ... and the commands that registered came in order: the one whose object *)
(* is still there is the last, and no TSCORE is for a later one.            *)
ScoreQuery(t) == t.op \in {"tscore", "tscore?"}

OwnerIsLast ==
  /\ \A k \in Ticket : owner = k <=> alive[k] /\ registered[k]
  /\ \A k \in Ticket : registered[k] =>
       /\ owner # 0 => k <= owner
       /\ \A i \in 1 .. Len(queue) : queue[i].op = "start" => k < queue[i].job
       /\ wpc = "body" /\ cur.op = "start" => k < cur.job
  /\ \A i \in 1 .. Len(queue) : ScoreQuery(queue[i]) => registered[queue[i].job]
  /\ wpc = "body" /\ ScoreQuery(cur) => registered[cur.job]
  /\ owner # 0 /\ lastScore = "saved" => threshold[owner] = stored

(* The inductive invariant of the proofs in CommandTasksProofs. *)
LInv ==
  /\ IInv
  /\ OneReference
  /\ StartsInOrder
  /\ AnswersOnce
  /\ FlagsHaveObjects
  /\ OwnerIsLast

(* Every command accepted is answered: the queue is fair to all of them,    *)
(* whatever loops are running.                                              *)
EveryCommandAnswered ==
  \A k \in Ticket : accepted >= k ~> replies[k] = 1

(* BREAK stops every loop requested before it, and a loop with a count      *)
(* comes to its end by itself: their objects are destroyed.                 *)
LoopsEnd ==
  /\ \A j, k \in Ticket :
       (j < k /\ k <= accepted /\ kind[k] = "break") ~> ~alive[j]
  /\ \A k \in Ticket : (k \in executed /\ ntimes[k] >= 0) ~> ~alive[k]
=============================================================================
