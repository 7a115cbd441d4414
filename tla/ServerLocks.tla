----------------------------- MODULE ServerLocks -----------------------------
(***************************************************************************)
(* The command registry of the AT server (sscma/repl/server.hpp) under its *)
(* two locks, between the two threads that use it.  The listener executes  *)
(* a line: it holds _exec_lock from the lookup of the command to the end   *)
(* of its callback, and _cmd_list_lock for the lookup only, and keeps an   *)
(* iterator into the list in between.  The executor's worker registers the *)
(* configuration commands of an INVOKE when its loop starts and withdraws  *)
(* them, last one first, when the loop's object is destroyed               *)
(* (sscma/callback/invoke.hpp); both hold _cmd_list_lock, and what changes *)
(* or removes an entry takes _exec_lock under it.                          *)
(*                                                                         *)
(* Mutex is a binary semaphore: it is not recursive and has no timeout     *)
(* (core/synchronize/el_mutex.hpp), and a Guard releases it at the end of  *)
(* its scope on every path.                                                *)
(***************************************************************************)
EXTENDS Naturals

CONSTANTS
  NumConfig,        \* configuration commands an algorithm has
  MaxInvokes,       \* bound: INVOKE loops started
  Nobody            \* a lock that is free

ASSUME NumAssumption == NumConfig \in Nat \ {0} /\ MaxInvokes \in Nat

ASSUME NobodyAssumption == Nobody \notin {"listener", "worker"}

(* The configuration commands in the order of their registration; 0 stands  *)
(* for the commands registered at boot, then an unknown name, then a line   *)
(* that is not an AT command.                                               *)
Config == 1 .. NumConfig
NotCommand == NumConfig + 2
Name == 0 .. NotCommand

VARIABLES
  listLock,         \* the holder of _cmd_list_lock
  execLock,         \* the holder of _exec_lock
  cmds,             \* per configuration command: whose closure is in the list
  lpc, line, it,    \* the listener, the command it executes, the entry it found
  wpc, pos, inv     \* the worker, its command, the number of its INVOKE

locks == <<listLock, execLock>>
listener == <<lpc, line, it>>
worker == <<wpc, pos, inv>>
serverVars == <<locks, cmds, listener, worker>>

ServerInit ==
  /\ listLock = Nobody /\ execLock = Nobody
  /\ cmds = [n \in Config |-> 0]
  /\ lpc = "idle" /\ line = 0 /\ it = 0
  /\ wpc = "idle" /\ pos = 1 /\ inv = 0

-----------------------------------------------------------------------------
(* The listener: Server::exec and m_exec_cmd.                               *)

Receive(n) ==
  /\ lpc = "idle"
  /\ line' = n /\ lpc' = "exec"
  /\ UNCHANGED <<locks, cmds, it, worker>>

LockExec ==
  /\ lpc = "exec" /\ execLock = Nobody
  /\ execLock' = "listener" /\ lpc' = "parse"
  /\ UNCHANGED <<listLock, cmds, line, it, worker>>

(* A line without the AT+ prefix is answered before the lookup. *)
NotAT ==
  /\ lpc = "parse" /\ line = NotCommand
  /\ lpc' = "return"
  /\ UNCHANGED <<locks, cmds, line, it, worker>>

LockList ==
  /\ lpc = "parse" /\ line # NotCommand /\ listLock = Nobody
  /\ listLock' = "listener" /\ lpc' = "find"
  /\ UNCHANGED <<execLock, cmds, line, it, worker>>

Registered(n) == n = 0 \/ (n \in Config /\ cmds[n] # 0)

(* Mutant of Unknown: the early return forgets the lock. *)
UnknownKeepsLock ==
  /\ lpc = "find" /\ ~Registered(line)
  /\ lpc' = "return"
  /\ UNCHANGED <<locks, cmds, line, it, worker>>

(* An unknown command is answered under the list lock. *)
Unknown ==
  /\ lpc = "find" /\ ~Registered(line)
  /\ listLock' = Nobody /\ lpc' = "return"
  /\ UNCHANGED <<execLock, cmds, line, it, worker>>

Found ==
  /\ lpc = "find" /\ Registered(line)
  /\ it' = IF line = 0 THEN 0 ELSE cmds[line]
  /\ listLock' = Nobody /\ lpc' = "run"
  /\ UNCHANGED <<execLock, cmds, line, worker>>

(* Arguments are split as the entry says; its callback queues a task. *)
RunCallback ==
  /\ lpc = "run"
  /\ lpc' = "return"
  /\ UNCHANGED <<locks, cmds, line, it, worker>>

UnlockExec ==
  /\ lpc = "return"
  /\ execLock' = Nobody /\ lpc' = "idle"
  /\ UNCHANGED <<listLock, cmds, line, it, worker>>

Listener ==
  \/ LockExec \/ NotAT \/ LockList \/ Unknown \/ Found \/ RunCallback \/ UnlockExec

-----------------------------------------------------------------------------
(* The worker: Invoke::register_config_cmds and Invoke::reset_config_cmds.  *)

(* A loop starts after the object of the one before it is destroyed         *)
(* (RegistryFollowsLoops of CommandTasks).                                  *)
StartInvoke ==
  /\ wpc = "idle" /\ inv < MaxInvokes
  /\ inv' = inv + 1 /\ pos' = 1 /\ wpc' = "reg"
  /\ UNCHANGED <<locks, cmds, listener>>

LockToRegister ==
  /\ wpc = "reg" /\ listLock = Nobody
  /\ listLock' = "worker" /\ wpc' = "reg_find"
  /\ UNCHANGED <<execLock, cmds, pos, inv, listener>>

(* register_cmd: a new command is put at the front of the list under the    *)
(* list lock alone; a name already there would be replaced, under both.     *)
Register ==
  /\ wpc = "reg_find"
  /\ IF cmds[pos] = 0
       THEN cmds' = [cmds EXCEPT ![pos] = inv] /\ wpc' = "reg_done"
       ELSE wpc' = "reg_replace" /\ UNCHANGED cmds
  /\ UNCHANGED <<locks, pos, inv, listener>>

UnlockRegistered ==
  /\ wpc = "reg_done"
  /\ listLock' = Nobody
  /\ IF pos < NumConfig
       THEN pos' = pos + 1 /\ wpc' = "reg"
       ELSE wpc' = "loop" /\ UNCHANGED pos
  /\ UNCHANGED <<execLock, cmds, inv, listener>>

(* The last reference to the object goes: ~Invoke. *)
Destroy ==
  /\ wpc = "loop"
  /\ wpc' = "unreg"
  /\ UNCHANGED <<locks, cmds, pos, inv, listener>>

LockToWithdraw ==
  /\ wpc = "unreg" /\ listLock = Nobody
  /\ listLock' = "worker" /\ wpc' = "unreg_exec"
  /\ UNCHANGED <<execLock, cmds, pos, inv, listener>>

(* Mutants of ExecFree and Last: m_unregister_cmd without its guard, and a  *)
(* destructor that stops one command early.                                 *)
ExecFreeIgnored == TRUE

LastEarly == pos <= 2

(* m_unregister_cmd takes _exec_lock, with the list lock held. *)
ExecFree == execLock = Nobody

Last == pos = 1

Withdraw ==
  /\ wpc = "unreg_exec" /\ ExecFree
  /\ cmds' = [cmds EXCEPT ![pos] = 0]
  /\ listLock' = Nobody
  /\ IF Last
       THEN wpc' = "idle" /\ UNCHANGED pos
       ELSE wpc' = "unreg" /\ pos' = pos - 1
  /\ UNCHANGED <<execLock, inv, listener>>

Worker ==
  \/ LockToRegister \/ Register \/ UnlockRegistered \/ LockToWithdraw \/ Withdraw

ServerNext == (\E n \in Name : Receive(n)) \/ Listener \/ StartInvoke \/ Destroy \/ Worker

ServerSpec == ServerInit /\ [][ServerNext]_serverVars

(* Both threads run on; commands may stop coming and loops go on for ever.  *)
(* A semaphore that is given goes to a task waiting for it, so a lock that  *)
(* is free again and again is taken in the end.                             *)
ServerFairness ==
  /\ WF_serverVars(Listener) /\ WF_serverVars(Worker)
  /\ SF_serverVars(LockExec) /\ SF_serverVars(LockList)
  /\ SF_serverVars(LockToRegister) /\ SF_serverVars(LockToWithdraw) /\ SF_serverVars(Withdraw)

ServerFairSpec == ServerSpec /\ ServerFairness

-----------------------------------------------------------------------------
(* Types, and who holds which lock where. *)
ServerTypeOK ==
  /\ listLock \in {Nobody, "listener", "worker"}
  /\ execLock \in {Nobody, "listener"}
  /\ cmds \in [Config -> 0 .. MaxInvokes]
  /\ lpc \in {"idle", "exec", "parse", "find", "run", "return"}
  /\ line \in Name /\ it \in 0 .. MaxInvokes
  /\ wpc \in {"idle", "reg", "reg_find", "reg_replace", "reg_done", "loop",
              "unreg", "unreg_exec"}
  /\ pos \in Config /\ inv \in 0 .. MaxInvokes
  /\ execLock = "listener" <=> lpc \in {"parse", "find", "run", "return"}
  /\ listLock = "listener" <=> lpc = "find"
  /\ listLock = "worker" <=> wpc \in {"reg_find", "reg_replace", "reg_done", "unreg_exec"}

(* The entry the listener found is still in the list, and still the one it  *)
(* found, while its arguments are split and its callback runs, although the *)
(* list lock was released: the fear of the TODO in m_exec_cmd ("maybe       *)
(* unsafe if executing some cmd callback while the command got unregistered *)
(* or changed") does not come true for lines executed by exec().            *)
IteratorValid == lpc = "run" /\ line \in Config => it # 0 /\ cmds[line] = it

(* A registration never finds its name taken, so it never waits for         *)
(* _exec_lock with _cmd_list_lock held: only the destructor does.           *)
NeverReplaces == wpc # "reg_replace"

(* What the list holds at each point of the worker's round. *)
Present ==
  \A n \in Config :
    cmds[n] # 0 <=>
      \/ wpc \in {"reg", "reg_find", "reg_replace"} /\ n < pos
      \/ wpc \in {"reg_done", "unreg", "unreg_exec"} /\ n <= pos
      \/ wpc = "loop"

(* The inductive invariant of LocksProofs. *)
ServerInv ==
  /\ ServerTypeOK
  /\ IteratorValid
  /\ NeverReplaces
  /\ Present
  /\ wpc # "idle" => inv # 0
  /\ wpc = "loop" => pos = NumConfig

(* The registration of an INVOKE's commands always comes to its end. *)
RegistrationEnds == wpc = "reg" ~> wpc = "loop"

(* at_protocol.md: every operation "must have a sync/async Operation        *)
(* reply", and a wrong one a logging reply: the listener returns from every *)
(* line it executes.                                                        *)
EveryLineAnswered == lpc = "exec" ~> lpc = "idle"
=============================================================================
