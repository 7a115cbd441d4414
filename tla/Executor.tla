------------------------------ MODULE Executor ------------------------------
(***************************************************************************)
(* The task executor of sscma/repl/executor.hpp: a FIFO of callables       *)
(* guarded by a mutex, one worker thread that runs them one after the      *)
(* other, and one stop flag that any thread may raise and that the worker  *)
(* lowers.  This module holds the executor's state and its steps; what a   *)
(* task does when it runs is up to the module that extends this one:       *)
(* CommandTasks (the AT commands).                                         *)
(*                                                                         *)
(* The worker is cut at its accesses to shared state: the locked pop, the  *)
(* body of the task, the load of the stop flag after the task, the store   *)
(* that lowers it, and the end of the loop body, where the local           *)
(* repl_task_t is destroyed.                                               *)
(***************************************************************************)
EXTENDS Naturals, Sequences

CONSTANT
  NoTask            \* the empty repl_task_t: the worker holds no task

VARIABLES
  queue,            \* _task_queue
  stopRequested,    \* _task_stop_requested
  cur,              \* the worker's local "task"
  wpc               \* where the worker is in run()

execVars == <<queue, stopRequested, cur, wpc>>

WorkerPc == {"fetch", "idle", "body", "push", "check", "reset", "drop"}

ExecInit(initial) ==
  /\ queue = initial
  /\ stopRequested = FALSE
  /\ cur = NoTask
  /\ wpc = "fetch"

(* Mutant of AddTask: the task overtakes those already queued. *)
AddTaskFront(t) == queue' = <<t>> \o queue

(* add_task: the queue lock makes the push one step. *)
AddTask(t) == queue' = Append(queue, t)

(* try_stop_task: the flag is raised whether or not a task is running. *)
TryStopTask == stopRequested' = TRUE

(* The locked pop at the head of an iteration of run(). *)
Fetch ==
  /\ wpc = "fetch"
  /\ IF queue = <<>>
       THEN wpc' = "idle" /\ UNCHANGED <<queue, cur>>
       ELSE /\ cur' = Head(queue)
            /\ queue' = Tail(queue)
            /\ wpc' = "body"
  /\ UNCHANGED stopRequested

(* No task: the flag is lowered unconditionally, then the worker yields. *)
Idle ==
  /\ wpc = "idle"
  /\ stopRequested' = FALSE
  /\ wpc' = "fetch"
  /\ UNCHANGED <<queue, cur>>

(* Mutant of CheckStop: the flag is not lowered after a task. *)
CheckStopNoReset ==
  /\ wpc = "check"
  /\ wpc' = "drop"
  /\ UNCHANGED <<queue, stopRequested, cur>>

(* A task returned: load of the flag. *)
CheckStop ==
  /\ wpc = "check"
  /\ wpc' = IF stopRequested THEN "reset" ELSE "drop"
  /\ UNCHANGED <<queue, stopRequested, cur>>

(* The flag was seen raised: it is lowered, even if it was raised again. *)
ResetStop ==
  /\ wpc = "reset"
  /\ stopRequested' = FALSE
  /\ wpc' = "drop"
  /\ UNCHANGED <<queue, cur>>

(* "continue": the local task, and what its closure owns, is destroyed. *)
DropTask ==
  /\ wpc = "drop"
  /\ cur' = NoTask
  /\ wpc' = "fetch"
  /\ UNCHANGED <<queue, stopRequested>>
=============================================================================
