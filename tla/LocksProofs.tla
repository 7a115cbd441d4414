----------------------------- MODULE LocksProofs -----------------------------
(***************************************************************************)
(* Theorems about the two components in which threads share an object      *)
(* under a mutex.  ServerLocks, for every number of configuration commands *)
(* and of INVOKE loops: the entry the listener executes stays in the list  *)
(* while it does, and a registration never waits for the execution lock.   *)
(* SyncObject, for any set of configurations and any number of stores: it  *)
(* implements LatestConfig.                                                *)
(***************************************************************************)
EXTENDS ServerLocks, SyncObject, TLAPS

-----------------------------------------------------------------------------
(* The registry of commands. *)

LEMMA InitServerInv == ServerInit => ServerInv
  BY NumAssumption, NobodyAssumption
     DEF ServerInit, ServerInv, ServerTypeOK, IteratorValid, NeverReplaces, Present, Config,
         Name, NotCommand

LEMMA NextServerInv == ServerInv /\ [ServerNext]_serverVars => ServerInv'
<1> SUFFICES ASSUME ServerInv, [ServerNext]_serverVars PROVE ServerInv'
  OBVIOUS
<1> USE NumAssumption, NobodyAssumption DEF Config, locks, listener, worker
<1> DEFINE Rest == /\ wpc # "idle" => inv # 0
                   /\ wpc = "loop" => pos = NumConfig
<1>1. ServerTypeOK /\ IteratorValid /\ NeverReplaces /\ Present /\ Rest
  BY DEF ServerInv
<1>2. ASSUME Listener \/ \E n \in Name : Receive(n)
      PROVE  ServerInv'
  <2>1. ServerTypeOK'
    BY <1>1, <1>2 DEF ServerTypeOK, Listener, Receive, LockExec, NotAT, LockList, Unknown, Found,
                      RunCallback, UnlockExec, Registered
  <2>2. UNCHANGED <<cmds, wpc, pos, inv>>
    BY <1>2 DEF Listener, Receive, LockExec, NotAT, LockList, Unknown, Found,
                RunCallback, UnlockExec
  <2>3. IteratorValid'
    BY <1>1, <1>2, <2>2 DEF IteratorValid, ServerTypeOK, Listener, Receive, LockExec, NotAT,
                            LockList, Unknown, Found, RunCallback, UnlockExec, Registered
  <2>4. NeverReplaces' /\ Present' /\ Rest'
    BY <1>1, <2>2 DEF NeverReplaces, Present
  <2>5. QED
    BY <2>1, <2>3, <2>4 DEF ServerInv
<1>3. CASE StartInvoke
  BY <1>1, <1>3 DEF StartInvoke, ServerInv, ServerTypeOK, IteratorValid, NeverReplaces, Present
<1>4. CASE LockToRegister
  BY <1>1, <1>4 DEF LockToRegister, ServerInv, ServerTypeOK, IteratorValid, NeverReplaces, Present
<1>5. CASE Register
  <2>1. cmds[pos] = 0 /\ cmds' = [cmds EXCEPT ![pos] = inv] /\ wpc' = "reg_done"
    BY <1>1, <1>5 DEF Register, Present, ServerTypeOK
  <2>2. ServerTypeOK' /\ NeverReplaces' /\ Rest'
    BY <1>1, <1>5, <2>1 DEF Register, ServerTypeOK, NeverReplaces
  <2>3. IteratorValid'
    BY <1>1, <1>5, <2>1 DEF Register, ServerTypeOK, IteratorValid
  <2>4. Present'
    BY <1>1, <1>5, <2>1 DEF Register, ServerTypeOK, Present
  <2>5. QED
    BY <2>2, <2>3, <2>4 DEF ServerInv
<1>6. CASE UnlockRegistered
  <2>1. ServerTypeOK' /\ NeverReplaces' /\ Rest' /\ IteratorValid'
    BY <1>1, <1>6 DEF UnlockRegistered, ServerTypeOK, NeverReplaces, IteratorValid
  <2>2. Present'
    BY <1>1, <1>6 DEF UnlockRegistered, ServerTypeOK, Present
  <2>3. QED
    BY <2>1, <2>2 DEF ServerInv
<1>7. CASE Destroy
  BY <1>1, <1>7 DEF Destroy, ServerInv, ServerTypeOK, IteratorValid, NeverReplaces, Present
<1>8. CASE LockToWithdraw
  BY <1>1, <1>8 DEF LockToWithdraw, ServerInv, ServerTypeOK, IteratorValid, NeverReplaces, Present
<1>9. CASE Withdraw
  <2>1. ServerTypeOK' /\ NeverReplaces' /\ Rest'
    BY <1>1, <1>9 DEF Withdraw, Last, ExecFree, ServerTypeOK, NeverReplaces
  <2>2. IteratorValid'
    BY <1>1, <1>9 DEF Withdraw, ExecFree, ServerTypeOK, IteratorValid
  <2>3. Present'
    BY <1>1, <1>9 DEF Withdraw, Last, ServerTypeOK, Present
  <2>4. QED
    BY <2>1, <2>2, <2>3 DEF ServerInv
<1>10. CASE UNCHANGED serverVars
  BY <1>1, <1>10 DEF serverVars, ServerInv, ServerTypeOK, IteratorValid, NeverReplaces, Present
<1>11. QED
  BY <1>2, <1>3, <1>4, <1>5, <1>6, <1>7, <1>8, <1>9, <1>10 DEF ServerNext, Worker

(* The locks are held where the code holds them, and the list holds what    *)
(* the worker's progress says.                                              *)
THEOREM ServerInductive == ServerSpec => []ServerInv
  BY InitServerInv, NextServerInv, PTL DEF ServerSpec

(* exec() keeps the iterator of m_exec_cmd valid: the entry it points to is *)
(* neither replaced nor removed before the callback has returned.           *)
THEOREM EntryStays == ServerSpec => []IteratorValid
<1>1. ServerInv => IteratorValid
  BY DEF ServerInv
<1>2. QED
  BY ServerInductive, <1>1, PTL

(* register_cmd never takes its replacing branch for an INVOKE's commands.  *)
THEOREM RegistersFresh == ServerSpec => []NeverReplaces
<1>1. ServerInv => NeverReplaces
  BY DEF ServerInv
<1>2. QED
  BY ServerInductive, <1>1, PTL

-----------------------------------------------------------------------------
(* A configuration between the thread that stores it and the one that       *)
(* applies it.  The inductive invariant IInv adds to the types how the      *)
(* versions of the applied, the pending and the taken configuration are     *)
(* ordered, and that equal versions are equal configurations.               *)

Object == [prev : Versioned, next : Versioned \cup {NoNext}]

(* What load() returns is a versioned configuration: the pending one if     *)
(* there is one, else the one applied.                                      *)
LEMMA LoadType ==
  ASSUME NEW o \in Object
  PROVE  /\ o.prev \in Versioned /\ Load(o) \in Versioned
         /\ Load(o).n \in Nat /\ o.prev.n \in Nat
         /\ Pending(o) => Load(o) = o.next
         /\ ~Pending(o) => Load(o) = o.prev
BY DEF Object, Load, Pending, Versioned

(* store() puts a new version behind all others and leaves the applied one. *)
LEMMA StoredIsLatest ==
  ASSUME NEW o \in Object, NEW v \in Values
  PROVE  /\ Stored(o, v) \in Object
         /\ Pending(Stored(o, v))
         /\ Stored(o, v).prev = o.prev
         /\ Load(Stored(o, v)) = [n |-> Load(o).n + 1, v |-> v]
         /\ Stored(o, v).next.n = Load(o).n + 1
<1>1. Load(o).n \in Nat
  BY LoadType
<1>2. [n |-> Load(o).n + 1, v |-> v] \in Versioned
  BY <1>1 DEF Versioned
<1>3. Stored(o, v) = [prev |-> o.prev, next |-> [n |-> Load(o).n + 1, v |-> v]]
  BY DEF Stored, Object
<1> QED
  BY <1>2, <1>3, NoNextAssumption DEF Object, Pending, Load

(* synchorize() of a configuration newer than the applied one and not newer *)
(* than the pending one makes it the applied one, and the latest one stays  *)
(* the latest.                                                              *)
LEMMA SynchorizedKeepsLatest ==
  ASSUME NEW o \in Object, NEW t \in Versioned, Pending(o),
         o.prev.n < t.n, t.n <= o.next.n, t.n = o.next.n => t = o.next
  PROVE  /\ Synchorized(o, t) \in Object
         /\ Synchorized(o, t).prev = t
         /\ Load(Synchorized(o, t)) = Load(o)
         /\ Pending(Synchorized(o, t)) =>
              Synchorized(o, t).next = o.next /\ t.n < o.next.n
<1>1. o.prev.n \in Nat /\ o.next.n \in Nat /\ t.n \in Nat
  BY DEF Object, Versioned, Pending
<1>2. PrevAfter(o, t) = t
  BY <1>1 DEF PrevAfter
<1>3. Synchorized(o, t) =
        [prev |-> t, next |-> IF o.next.n = t.n THEN NoNext ELSE o.next]
  BY <1>2 DEF Synchorized
<1> QED
  BY <1>1, <1>3 DEF Object, Pending, Load

(* Synchronized means that the latest configuration is the applied one. *)
LEMMA SynchorizedMeansApplied ==
  ASSUME NEW o \in Object, Pending(o) => o.prev.n < o.next.n
  PROVE  /\ IsSynchorized(o) \in BOOLEAN
         /\ IsSynchorized(o) <=> ~Pending(o)
         /\ IsSynchorized(o) <=> o.prev = Load(o)
<1>1. Pending(o) => o.prev.n \in Nat /\ o.next.n \in Nat
  BY DEF Object, Versioned, Pending
<1> QED
  BY <1>1 DEF IsSynchorized, Load

-----------------------------------------------------------------------------
(* The invariant holds when the object is constructed. *)
LEMMA InitIInv == Init => IInv
<1>1. [n |-> 0, v |-> Default] \in Versioned
  BY DefaultAssumption DEF Versioned
<1> QED
  BY <1>1 DEF Init, Constructed, IInv, TypeOK, Versions, UpdatedMeansApplied,
              QueryStable, Pending

(* Every step keeps it: the steps of the worker first. *)
LEMMA WorkerInv ==
  ASSUME IInv, Store \/ QueryUpdated \/ QueryConfig \/ QueryReply
  PROVE  IInv'
<1> USE DEF IInv, TypeOK, Versions, UpdatedMeansApplied, QueryStable
<1>0. obj \in Object /\ config.n \in Nat
  BY DEF Object, Versioned
<1>1. CASE Store
  <2>1. PICK v \in Values : obj' = Stored(obj, v)
    BY <1>1 DEF Store
  <2>2. /\ obj' \in Object /\ Pending(obj')
        /\ obj'.prev = obj.prev /\ obj'.next.n = Load(obj).n + 1
    BY <1>0, <2>1, StoredIsLatest
  <2>3. Load(obj).n \in Nat /\ obj.prev.n \in Nat /\ obj.prev.n <= Load(obj).n
    BY <1>0, LoadType
  <2>4. spc = "apply" => config.n < obj'.next.n
    BY <1>0, <2>2, <2>3, LoadType
  <2> QED
    BY <1>0, <1>1, <2>2, <2>3, <2>4 DEF Store, Object
<1>2. CASE QueryUpdated
  BY <1>0, <1>2, SynchorizedMeansApplied DEF QueryUpdated
<1>3. CASE QueryConfig
  BY <1>0, <1>3, LoadType DEF QueryConfig
<1>4. CASE QueryReply
  BY <1>4 DEF QueryReply
<1> QED
  BY <1>1, <1>2, <1>3, <1>4

(* Then those of the supervisor. *)
LEMMA PollInv ==
  ASSUME IInv, Poll
  PROVE  IInv'
<1> USE DEF IInv, TypeOK, Versions, UpdatedMeansApplied, QueryStable
<1>0. obj \in Object
  BY DEF Object
<1>1. CASE PollCheck
  BY <1>0, <1>1, SynchorizedMeansApplied DEF PollCheck
<1>2. CASE PollLast
  BY <1>0, <1>2, LoadType DEF PollLast
<1>3. CASE PollLoad
  <2>1. Pending(obj) /\ config' = obj.next /\ config' \in Versioned
    BY <1>0, <1>3, LoadType DEF PollLoad
  <2>2. obj.next.n \in Nat
    BY <2>1, <1>3 DEF PollLoad, Versioned
  <2> QED
    BY <1>3, <2>1, <2>2 DEF PollLoad
<1>4. CASE PollFail
  BY <1>4 DEF PollFail
<1>5. CASE PollSynchorize
  <2>1. spc = "apply" /\ Pending(obj) /\ obj' = Synchorized(obj, config)
    BY <1>5 DEF PollSynchorize
  <2>2. /\ obj' \in Object /\ obj'.prev = config
        /\ Pending(obj') => obj'.next = obj.next /\ config.n < obj.next.n
    BY <1>0, <2>1, SynchorizedKeepsLatest
  <2>3. updated => qpc = "idle"
    BY <2>1
  <2> QED
    BY <1>5, <2>2, <2>3 DEF PollSynchorize, Object
<1> QED
  BY <1>1, <1>2, <1>3, <1>4, <1>5 DEF Poll

(* IInv holds in every state: the types, and the order of the versions. *)
THEOREM Inductive == Spec => []IInv
<1>1. Init => IInv
  BY InitIInv
<1>2. IInv /\ [Next]_vars => IInv'
  <2> SUFFICES ASSUME IInv, [Next]_vars PROVE IInv'
    OBVIOUS
  <2>1. CASE Next
    BY <2>1, WorkerInv, PollInv DEF Next
  <2>2. CASE UNCHANGED vars
    BY <2>2 DEF vars, IInv, TypeOK, Versions, UpdatedMeansApplied, QueryStable, Pending
  <2> QED
    BY <2>1, <2>2
<1> QED
  BY <1>1, <1>2, PTL DEF Spec

(* A query's "updated" is never said of a configuration that was not        *)
(* applied (get_wifi_network and get_mqtt_server).                          *)
THEOREM AnswersApplied == Spec => []UpdatedMeansApplied
<1>1. IInv => UpdatedMeansApplied
  BY DEF IInv
<1> QED
  BY <1>1, Inductive, PTL

-----------------------------------------------------------------------------
(* The steps of the worker, seen by LatestConfig. *)
LEMMA WorkerRefines ==
  ASSUME IInv, Store \/ QueryUpdated \/ QueryConfig \/ QueryReply
  PROVE  [Latest!Next]_(Latest!vars)
<1> USE DEF IInv, TypeOK, Latest!vars
<1>0. obj \in Object
  BY DEF Object
<1>1. CASE Store
  <2>1. PICK v \in Values : obj' = Stored(obj, v)
    BY <1>1 DEF Store
  <2>2. Load(obj') = [n |-> Load(obj).n + 1, v |-> v] /\ obj'.prev = obj.prev
    BY <1>0, <2>1, StoredIsLatest
  <2>3. Latest!Write
    BY <1>1, <2>2 DEF Store, Latest!Write
  <2> QED
    BY <2>3 DEF Latest!Next
<1>2. CASE QueryUpdated
  <2>1. IsSynchorized(obj) \in BOOLEAN /\ (IsSynchorized(obj) <=> obj.prev = Load(obj))
    BY <1>0, SynchorizedMeansApplied DEF Versions
  <2>2. Latest!Ask
    BY <1>2, <2>1 DEF QueryUpdated, Latest!Ask
  <2> QED
    BY <2>2 DEF Latest!Next
<1>3. CASE QueryConfig
  BY <1>3 DEF QueryConfig
<1>4. CASE QueryReply
  BY <1>4 DEF QueryReply
<1> QED
  BY <1>1, <1>2, <1>3, <1>4

(* The steps of the supervisor: a configuration it synchronizes becomes the *)
(* applied one, and one stored meanwhile stays the latest.                  *)
LEMMA PollRefines ==
  ASSUME IInv, Poll
  PROVE  [Latest!Next]_(Latest!vars)
<1> USE DEF IInv, TypeOK, Latest!vars
<1>0. obj \in Object
  BY DEF Object
<1>1. CASE PollCheck
  BY <1>1 DEF PollCheck
<1>2. CASE PollLast
  <2>1. Latest!Renew
    BY <1>2 DEF PollLast, Latest!Renew
  <2> QED
    BY <2>1 DEF Latest!Next
<1>3. CASE PollLoad
  <2>1. Latest!Take
    BY <1>3 DEF PollLoad, Latest!Take
  <2> QED
    BY <2>1 DEF Latest!Next
<1>4. CASE PollFail
  <2>1. Latest!Fail
    BY <1>4 DEF PollFail, Latest!Fail
  <2> QED
    BY <2>1 DEF Latest!Next
<1>5. CASE PollSynchorize
  <2>1. Load(obj') = Load(obj) /\ obj'.prev = config
    BY <1>0, <1>5, SynchorizedKeepsLatest DEF PollSynchorize, Versions
  <2>2. Latest!Done
    BY <1>5, <2>1 DEF PollSynchorize, Latest!Done
  <2> QED
    BY <2>2 DEF Latest!Next
<1> QED
  BY <1>1, <1>2, <1>3, <1>4, <1>5 DEF Poll

(* SynchronizableObject keeps LatestConfig's promise: no write is lost to   *)
(* the supervisor's late synchorize of an older one, what counts as applied *)
(* is what was taken, and is_synchorized answers whether the latest write   *)
(* is the one applied.                                                      *)
THEOREM ImplementsLatest == Spec => LatestSpec
<1>1. Init => Latest!Init
  BY DEF Init, Latest!Init, Constructed, Load, Pending
<1>2. IInv /\ [Next]_vars => [Latest!Next]_(Latest!vars)
  <2> SUFFICES ASSUME IInv, [Next]_vars PROVE [Latest!Next]_(Latest!vars)
    OBVIOUS
  <2>1. CASE Next
    BY <2>1, WorkerRefines, PollRefines DEF Next
  <2>2. CASE UNCHANGED vars
    BY <2>2 DEF vars, Latest!vars
  <2> QED
    BY <2>1, <2>2
<1> QED
  BY <1>1, <1>2, Inductive, PTL DEF Spec, LatestSpec, Latest!Spec
=============================================================================
