------------------------- MODULE CommandTasksProofs -------------------------
(***************************************************************************)
(* Proofs about CommandTasks for every number of commands, every set of    *)
(* counts and thresholds: the types, the order of the tickets, and with    *)
(* them that only the latest command's loop speaks and that the stop flag  *)
(* is up only while a BREAK is on its way; then the life of the loops.     *)
(***************************************************************************)
EXTENDS CommandTasks, FiniteSetTheorems, TLAPS

(* What Append and Tail do to the positions of a queue. *)
LEMMA AppendFacts ==
  ASSUME NEW S, NEW q \in Seq(S), NEW t \in S
  PROVE  /\ Append(q, t) \in Seq(S)
         /\ Len(Append(q, t)) = Len(q) + 1
         /\ \A i \in 1 .. Len(q) : Append(q, t)[i] = q[i]
         /\ Append(q, t)[Len(q) + 1] = t
  OBVIOUS

LEMMA TailFacts ==
  ASSUME NEW S, NEW q \in Seq(S), q # <<>>
  PROVE  /\ Tail(q) \in Seq(S)
         /\ Len(q) \in Nat \ {0}
         /\ Len(Tail(q)) = Len(q) - 1
         /\ \A i \in 1 .. Len(Tail(q)) : Tail(q)[i] = q[i + 1]
         /\ Head(q) = q[1]
         /\ Head(q) \in S
  OBVIOUS

(* The tasks the actions build are tasks. *)
LEMMA TaskFacts ==
  /\ \A k \in Ticket : \A op \in {"exec", "start", "loop", "tscore?"} :
       MkTask(op, k, 0) \in Task
  /\ \A k \in Ticket, v \in Score : MkTask("tscore", k, v) \in Task
  /\ MkTask("ready", 0, 0) \in Task
  /\ MkTask("status", 0, 0) \in Task
  /\ \A op, k, v : /\ MkTask(op, k, v).op = op
                   /\ MkTask(op, k, v).job = k
                   /\ MkTask(op, k, v).val = v
  BY DEF Task, PlainTask, TicketTask, ScoreTask, MkTask

LEMMA TaskFields ==
  ASSUME NEW t \in Task
  PROVE  /\ t.op \in {"exec", "start", "loop", "tscore", "tscore?"} => t.job \in Ticket
         /\ t.op = "tscore" => t.val \in Score
  BY DEF Task, PlainTask, TicketTask, ScoreTask

-----------------------------------------------------------------------------
(* Types *)

LEMMA InitTypeOK == Init => TypeOK
<1> SUFFICES ASSUME Init PROVE TypeOK
  OBVIOUS
<1>1. QueueTypeOK
  <2>1. MkTask("ready", 0, 0) \in Task
    BY TaskFacts
  <2>2. queue = <<MkTask("ready", 0, 0)>> /\ stopRequested = FALSE /\ cur = NoTask /\ wpc = "fetch"
    BY DEF Init, ExecInit
  <2>3. queue \in Seq(Task)
    BY <2>1, <2>2
  <2>4. QED
    BY <2>2, <2>3 DEF QueueTypeOK, WorkerPc
<1>2. ListenerTypeOK
  BY TicketAssumption DEF Init, ListenerTypeOK, Kind
<1>3. FlagTypeOK
  BY DEF Init, FlagTypeOK
<1>4. JobTypeOK
  BY DEF Init, JobTypeOK
<1>5. ConfigTypeOK
  BY StoredAssumption DEF Init, ConfigTypeOK
<1>6. QED
  BY <1>1, <1>2, <1>3, <1>4, <1>5 DEF TypeOK

LEMMA ListenerStepTypeOK == TypeOK /\ Listener => TypeOK'
<1> SUFFICES ASSUME TypeOK, Listener PROVE TypeOK'
  OBVIOUS
<1>1. /\ QueueTypeOK /\ ListenerTypeOK /\ FlagTypeOK /\ JobTypeOK /\ ConfigTypeOK
  BY DEF TypeOK
<1>2. FlagTypeOK' /\ JobTypeOK' /\ ConfigTypeOK'
  <2>1. UNCHANGED <<jobVars, flagVars, configVars>>
    BY DEF Listener, Accept, BreakStop, BreakQueue, Query
  <2>2. QED
    BY <1>1, <2>1 DEF jobVars, flagVars, configVars, FlagTypeOK, JobTypeOK, ConfigTypeOK
<1>3. ASSUME NEW c \in Kind, NEW n \in Int, Accept(c, n)
      PROVE  QueueTypeOK' /\ ListenerTypeOK'
  <2>1. accepted' \in Ticket /\ accepted' \in 0 .. MaxTickets
    BY <1>1, <1>3, TicketAssumption DEF Accept, ListenerTypeOK, Ticket
  <2>2. queue' \in Seq(Task)
    BY <1>1, <1>3, <2>1, TaskFacts, AppendFacts DEF Accept, AddTask, QueueTypeOK
  <2>3. kind' \in [Ticket -> Kind] /\ ntimes' \in [Ticket -> Int]
    BY <1>1, <1>3 DEF Accept, ListenerTypeOK
  <2>4. QED
    BY <1>1, <1>3, <2>1, <2>2, <2>3 DEF Accept, QueueTypeOK, ListenerTypeOK
<1>4. ASSUME BreakStop
      PROVE  QueueTypeOK' /\ ListenerTypeOK'
  <2>1. stopRequested' \in BOOLEAN
    BY <1>1, <1>4 DEF BreakStop, TryStopTask, QueueTypeOK
  <2>2. QueueTypeOK'
    BY <1>1, <1>4, <2>1 DEF BreakStop, QueueTypeOK
  <2>3. ListenerTypeOK'
    BY <1>1, <1>4 DEF BreakStop, ListenerTypeOK
  <2>4. QED
    BY <2>2, <2>3
<1>5. ASSUME BreakQueue
      PROVE  QueueTypeOK' /\ ListenerTypeOK'
  <2>1. accepted' \in Ticket /\ accepted' \in 0 .. MaxTickets
    BY <1>1, <1>5, TicketAssumption DEF BreakQueue, ListenerTypeOK, Ticket
  <2>2. queue' \in Seq(Task)
    BY <1>1, <1>5, <2>1, TaskFacts, AppendFacts DEF BreakQueue, AddTask, QueueTypeOK
  <2>3. kind' \in [Ticket -> Kind]
    BY <1>1, <1>5 DEF BreakQueue, ListenerTypeOK, Kind
  <2>4. QueueTypeOK'
    BY <1>1, <1>5, <2>2 DEF BreakQueue, QueueTypeOK
  <2>5. ListenerTypeOK'
    BY <1>1, <1>5, <2>1, <2>3 DEF BreakQueue, ListenerTypeOK
  <2>6. QED
    BY <2>4, <2>5
<1>6. ASSUME NEW t \in QueryTask, Query(t)
      PROVE  QueueTypeOK' /\ ListenerTypeOK'
  <2>1. t \in Task
    <3>1. CASE t = MkTask("status", 0, 0)
      BY <3>1, TaskFacts
    <3>2. CASE t # MkTask("status", 0, 0)
      <4>1. t.op # "status"
        BY <3>2, TaskFacts DEF QueryTask
      <4>2. owner \in Ticket
        BY <1>1, <1>6, <4>1 DEF Query, ConfigTypeOK
      <4>3. QED
        BY <3>2, <4>2, TaskFacts DEF QueryTask
    <3>3. QED
      BY <3>1, <3>2
  <2>2. queue' \in Seq(Task)
    BY <1>1, <1>6, <2>1, AppendFacts DEF Query, AddTask, QueueTypeOK
  <2>3. QED
    BY <1>1, <1>6, <2>2 DEF Query, QueueTypeOK, ListenerTypeOK
<1>7. QueueTypeOK' /\ ListenerTypeOK'
  <2>1. \A n \in Times : Accept("invoke", n) \/ Accept("sample", n)
                           => QueueTypeOK' /\ ListenerTypeOK'
    BY <1>3, TicketAssumption DEF Kind
  <2>2. Accept("config", 0) => QueueTypeOK' /\ ListenerTypeOK'
    BY <1>3 DEF Kind
  <2>3. QED
    BY <1>4, <1>5, <1>6, <2>1, <2>2 DEF Listener
<1>8. QED
  BY <1>2, <1>7 DEF TypeOK

(* One iteration leaves the worker in "push" or "check". *)
LEMMA IterateTypeOK ==
  ASSUME TypeOK, NEW k \in Ticket, NEW o \in {"event", "quiet", "error"}, Iterate(k, o)
  PROVE  /\ times' \in [Ticket -> Nat]
         /\ events' \in [Ticket -> Nat]
         /\ speaking' \in Ticket \cup {0}
         /\ wpc' \in {"push", "check"}
         /\ UNCHANGED <<queue, stopRequested, cur>>
<1>1. times \in [Ticket -> Nat] /\ events \in [Ticket -> Nat]
  BY DEF TypeOK, JobTypeOK
<1>2. times' \in [Ticket -> Nat]
  BY <1>1 DEF Iterate
<1>3. events' \in [Ticket -> Nat]
  BY <1>1 DEF Iterate
<1>4. speaking' \in Ticket \cup {0}
  BY DEF Iterate
<1>5. QED
  BY <1>2, <1>3, <1>4 DEF Iterate, Continue

(* What a configuration and a threshold command write are thresholds. *)
LEMMA ConfigureTypeOK ==
  ASSUME ConfigTypeOK, owner' \in Ticket \cup {0}, NEW k \in Ticket,
         NEW w \in BOOLEAN, Configure(k, w)
  PROVE  ConfigTypeOK'
<1>1. Score \subseteq Nat /\ DefaultScore \in Score
  BY TicketAssumption
<1>2. CASE stored = Absent
  BY <1>1, <1>2 DEF Configure, ConfigTypeOK
<1>3. CASE stored # Absent
  BY <1>1, <1>3 DEF Configure, ConfigTypeOK
<1>4. QED
  BY <1>2, <1>3

LEMMA SetScoreTypeOK ==
  ASSUME ConfigTypeOK, owner' \in Ticket \cup {0}, NEW k \in Ticket,
         NEW v \in Score, NEW w \in BOOLEAN, SetScore(k, v, w)
  PROVE  ConfigTypeOK'
<1>1. v \in Nat
  BY TicketAssumption
<1>2. lastScore' \in {"saved", "failed", "late"}
  BY DEF SetScore, ConfigTypeOK
<1>3. stored' \in Score \cup {Absent}
  BY DEF SetScore, ConfigTypeOK
<1>4. threshold' \in [Ticket -> Nat]
  BY <1>1 DEF SetScore, ConfigTypeOK
<1>5. QED
  BY <1>2, <1>3, <1>4 DEF ConfigTypeOK

LEMMA BodyTypeOK == TypeOK /\ Body => TypeOK'
<1> SUFFICES ASSUME TypeOK, Body PROVE TypeOK'
  OBVIOUS
<1>1. QueueTypeOK /\ ListenerTypeOK /\ FlagTypeOK /\ JobTypeOK /\ ConfigTypeOK
  BY DEF TypeOK
<1>2. wpc = "body" /\ cur \in Task /\ UNCHANGED listenerVars
  BY <1>1 DEF Body, RunReady, RunBreakOrConfig, RunCreate, RunStart, RunLoop, RunQuery,
              QueueTypeOK
<1>3. ListenerTypeOK'
  BY <1>1, <1>2 DEF listenerVars, ListenerTypeOK
<1>4. ASSUME \/ wpc' = "check"
             \/ wpc' = "push" /\ cur.job \in Ticket,
             UNCHANGED <<queue, stopRequested, cur>>
      PROVE  QueueTypeOK'
  BY <1>1, <1>2, <1>4 DEF QueueTypeOK, WorkerPc
<1>5. CASE RunReady
  <2>1. QueueTypeOK'
    BY <1>4, <1>5 DEF RunReady, Continue
  <2>2. FlagTypeOK' /\ JobTypeOK' /\ ConfigTypeOK'
    BY <1>1, <1>5 DEF RunReady, FlagTypeOK, JobTypeOK, ConfigTypeOK, jobVars, configVars
  <2>3. QED
    BY <1>3, <2>1, <2>2 DEF TypeOK
<1>6. CASE RunBreakOrConfig
  <2>1. cur.job \in Ticket
    BY <1>2, <1>6, TaskFields DEF RunBreakOrConfig
  <2>2. QueueTypeOK'
    BY <1>4, <1>6 DEF RunBreakOrConfig, Continue
  <2>3. FlagTypeOK' /\ ConfigTypeOK'
    BY <1>1, <1>6, <2>1 DEF RunBreakOrConfig, FlagTypeOK, ConfigTypeOK, configVars
  <2>4. JobTypeOK'
    BY <1>1, <1>6, <2>1 DEF RunBreakOrConfig, JobTypeOK
  <2>5. QED
    BY <1>3, <2>2, <2>3, <2>4 DEF TypeOK
<1>7. ASSUME NEW usable \in BOOLEAN, RunCreate(usable)
      PROVE  TypeOK'
  <2>1. cur.job \in Ticket
    BY <1>2, <1>7, TaskFields DEF RunCreate
  <2>2. QueueTypeOK'
    BY <1>4, <1>7, <2>1 DEF RunCreate, Continue
  <2>3. FlagTypeOK' /\ ConfigTypeOK'
    BY <1>1, <1>7, <2>1 DEF RunCreate, Raise, FlagTypeOK, ConfigTypeOK, configVars
  <2>4. JobTypeOK'
    <3>1. taskId' \in [Ticket -> Nat]
      BY <1>1, <1>7, <2>1, <2>3 DEF RunCreate, JobTypeOK, FlagTypeOK
    <3>2. replies' \in [Ticket -> Nat]
      BY <1>1, <1>7, <2>1 DEF RunCreate, JobTypeOK
    <3>3. alive' \in [Ticket -> BOOLEAN]
      BY <1>1, <1>7, <2>1 DEF RunCreate, JobTypeOK
    <3>4. QED
      BY <1>1, <1>7, <3>1, <3>2, <3>3 DEF RunCreate, JobTypeOK
  <2>5. QED
    BY <1>3, <2>2, <2>3, <2>4 DEF TypeOK
<1>8. ASSUME NEW supported \in BOOLEAN, NEW o \in {"event", "quiet", "error"},
             RunStart(supported, o)
      PROVE  TypeOK'
  <2>1. cur.job \in Ticket
    BY <1>2, <1>8, TaskFields DEF RunStart
  <2>2. /\ times' \in [Ticket -> Nat] /\ events' \in [Ticket -> Nat]
        /\ speaking' \in Ticket \cup {0}
        /\ wpc' \in {"push", "check"}
        /\ UNCHANGED <<queue, stopRequested, cur>>
    <3>1. CASE supported
      BY <1>8, <2>1, <3>1, IterateTypeOK DEF RunStart
    <3>2. CASE ~supported
      BY <1>1, <1>8, <3>2 DEF RunStart, Continue, JobTypeOK
    <3>3. QED
      BY <3>1, <3>2
  <2>3. QueueTypeOK'
    BY <1>4, <2>1, <2>2
  <2>4. FlagTypeOK'
    BY <1>1, <1>8, <2>2 DEF RunStart, FlagTypeOK
  <2>5. ConfigTypeOK'
    <3>1. owner' \in Ticket \cup {0}
      BY <1>1, <1>8, <2>1 DEF RunStart, ConfigTypeOK
    <3>2. CASE \E writes \in BOOLEAN : Configure(cur.job, writes)
      BY <1>1, <2>1, <3>1, <3>2, ConfigureTypeOK
    <3>3. CASE UNCHANGED <<threshold, stored, lastScore>>
      BY <1>1, <3>1, <3>3 DEF ConfigTypeOK
    <3>4. QED
      BY <1>8, <3>2, <3>3 DEF RunStart
  <2>6. JobTypeOK'
    <3>1. replies' \in [Ticket -> Nat] /\ registered' \in [Ticket -> BOOLEAN]
      BY <1>1, <1>8, <2>1 DEF RunStart, JobTypeOK
    <3>2. QED
      BY <1>1, <1>8, <2>2, <3>1 DEF RunStart, JobTypeOK
  <2>7. QED
    BY <1>3, <2>3, <2>4, <2>5, <2>6 DEF TypeOK
<1>9. ASSUME NEW o \in {"event", "quiet", "error"}, RunLoop(o)
      PROVE  TypeOK'
  <2>1. cur.job \in Ticket
    BY <1>2, <1>9, TaskFields DEF RunLoop
  <2>2. /\ times' \in [Ticket -> Nat] /\ events' \in [Ticket -> Nat]
        /\ speaking' \in Ticket \cup {0}
        /\ wpc' \in {"push", "check"}
        /\ UNCHANGED <<queue, stopRequested, cur>>
    <3>1. CASE Stopped(cur.job)
      BY <1>1, <1>9, <3>1 DEF RunLoop, Continue, JobTypeOK
    <3>2. CASE ~Stopped(cur.job)
      BY <1>9, <2>1, <3>2, IterateTypeOK DEF RunLoop
    <3>3. QED
      BY <3>1, <3>2
  <2>3. QueueTypeOK'
    BY <1>4, <2>1, <2>2
  <2>4. FlagTypeOK' /\ JobTypeOK' /\ ConfigTypeOK'
    BY <1>1, <1>9, <2>2 DEF RunLoop, FlagTypeOK, JobTypeOK, ConfigTypeOK, configVars
  <2>5. QED
    BY <1>3, <2>3, <2>4 DEF TypeOK
<1>10. CASE RunQuery
  <2>1. cur.op = "tscore" => cur.job \in Ticket /\ cur.val \in Score /\ cur.val \in Nat
    BY <1>2, TaskFields, TicketAssumption
  <2>2. QueueTypeOK'
    BY <1>4, <1>10 DEF RunQuery, Continue
  <2>3. FlagTypeOK' /\ JobTypeOK'
    BY <1>1, <1>10 DEF RunQuery, FlagTypeOK, JobTypeOK, jobVars
  <2>4. ConfigTypeOK'
    <3>1. owner' = owner
      BY <1>10 DEF RunQuery
    <3>2. ASSUME cur.op = "tscore", NEW w \in BOOLEAN, SetScore(cur.job, cur.val, w)
          PROVE  ConfigTypeOK'
      <4>1. cur.job \in Ticket /\ cur.val \in Score
        BY <2>1, <3>2
      <4>2. owner' \in Ticket \cup {0}
        BY <1>1, <3>1 DEF ConfigTypeOK
      <4>3. QED
        BY <1>1, <3>2, <4>1, <4>2, SetScoreTypeOK
    <3>3. CASE UNCHANGED <<threshold, stored, lastScore>>
      BY <1>1, <3>1, <3>3 DEF ConfigTypeOK
    <3>4. QED
      BY <1>10, <3>2, <3>3 DEF RunQuery
  <2>5. QED
    BY <1>3, <2>2, <2>3, <2>4 DEF TypeOK
<1>11. QED
  BY <1>5, <1>6, <1>7, <1>8, <1>9, <1>10 DEF Body

LEMMA WorkerTypeOK == TypeOK /\ Worker => TypeOK'
<1> SUFFICES ASSUME TypeOK, Worker PROVE TypeOK'
  OBVIOUS
<1>1. QueueTypeOK /\ ListenerTypeOK /\ FlagTypeOK /\ JobTypeOK /\ ConfigTypeOK
  BY DEF TypeOK
<1>2. ASSUME UNCHANGED <<jobVars, flagVars, configVars, listenerVars>>, QueueTypeOK'
      PROVE  TypeOK'
  BY <1>1, <1>2 DEF jobVars, flagVars, configVars, listenerVars, TypeOK,
                    ListenerTypeOK, FlagTypeOK, JobTypeOK, ConfigTypeOK
<1>3. CASE WorkerStep(Fetch)
  <2>1. CASE queue = <<>>
    BY <1>1, <1>2, <1>3, <2>1 DEF WorkerStep, Fetch, QueueTypeOK, WorkerPc
  <2>2. CASE queue # <<>>
    <3>1. Tail(queue) \in Seq(Task) /\ Head(queue) \in Task
      BY <1>1, <2>2, TailFacts DEF QueueTypeOK
    <3>2. QED
      BY <1>1, <1>2, <1>3, <2>2, <3>1, NoTaskAssumption
         DEF WorkerStep, Fetch, QueueTypeOK, WorkerPc
  <2>3. QED
    BY <2>1, <2>2
<1>4. CASE WorkerStep(Idle)
  BY <1>1, <1>2, <1>4 DEF WorkerStep, Idle, QueueTypeOK, WorkerPc
<1>5. CASE Body
  BY <1>5, BodyTypeOK
<1>6. CASE Push
  <2>1. cur \in Task /\ cur # NoTask
    BY <1>1, <1>6 DEF Push, QueueTypeOK
  <2>2. MkTask(IF cur.op = "exec" THEN "start" ELSE "loop", cur.job, 0) \in Task
    BY <1>1, <1>6, TaskFacts DEF Push, QueueTypeOK
  <2>3. QED
    BY <1>1, <1>2, <1>6, <2>1, <2>2, AppendFacts
       DEF Push, AddTask, QueueTypeOK, WorkerPc
<1>7. CASE WorkerStep(CheckStop)
  BY <1>1, <1>2, <1>7 DEF WorkerStep, CheckStop, QueueTypeOK, WorkerPc
<1>8. CASE WorkerStep(ResetStop)
  BY <1>1, <1>2, <1>8 DEF WorkerStep, ResetStop, QueueTypeOK, WorkerPc
<1>9. CASE Drop
  <2>1. QueueTypeOK'
    BY <1>1, <1>9 DEF Drop, DropTask, QueueTypeOK, WorkerPc
  <2>2. ListenerTypeOK'
    BY <1>1, <1>9 DEF Drop, listenerVars, ListenerTypeOK
  <2>3. FlagTypeOK' /\ ConfigTypeOK'
    BY <1>1, <1>9 DEF Drop, Lower, ResetConfigCmds, FlagTypeOK, ConfigTypeOK
  <2>4. JobTypeOK'
    BY <1>1, <1>9 DEF Drop, JobTypeOK
  <2>5. QED
    BY <2>1, <2>2, <2>3, <2>4 DEF TypeOK
<1>10. QED
  BY <1>3, <1>4, <1>5, <1>6, <1>7, <1>8, <1>9 DEF Worker

(* The variables keep their types whatever the commands and the timing. *)
THEOREM TypeCorrect == Spec => []TypeOK
<1>1. TypeOK /\ UNCHANGED vars => TypeOK'
  BY DEF vars, execVars, jobVars, flagVars, configVars, listenerVars, TypeOK, QueueTypeOK,
         ListenerTypeOK, FlagTypeOK, JobTypeOK, ConfigTypeOK
<1>2. TypeOK /\ [Next]_vars => TypeOK'
  BY <1>1, ListenerStepTypeOK, WorkerTypeOK DEF Next
<1>3. QED
  BY InitTypeOK, <1>2, PTL DEF Spec

-----------------------------------------------------------------------------
(* The order of the tickets *)

LEMMA InOrderTicket ==
  ASSUME TypeOK, InOrder, accepted' = accepted + 1,
         AddTask(MkTask("exec", accepted', 0)), accepted' \in Ticket,
         UNCHANGED <<executed, cur, wpc>>
  PROVE  InOrder'
<1> DEFINE t == MkTask("exec", accepted', 0)
<1>1. /\ queue \in Seq(Task) /\ accepted \in Nat /\ executed \subseteq Nat
      /\ Len(queue) \in Nat
  BY TicketAssumption DEF TypeOK, QueueTypeOK, ListenerTypeOK, FlagTypeOK, Ticket
<1>2. /\ t \in Task /\ t.job = accepted + 1
  BY TaskFacts
<1>3. /\ queue' = Append(queue, t) /\ Len(queue') = Len(queue) + 1
      /\ \A i \in 1 .. Len(queue) : queue'[i] = queue[i]
      /\ queue'[Len(queue) + 1] = t
  BY <1>1, <1>2, AppendFacts DEF AddTask
<1>4. \A i \in 1 .. Len(queue) :
        ExecTask(queue[i]) => queue[i].job \in Nat /\ queue[i].job <= accepted
  BY <1>1, TaskFields, TicketAssumption DEF InOrder, ExecTask, Ticket
<1>5. cur \in Task /\ ExecTask(cur) => cur.job \in Nat
  BY TaskFields DEF ExecTask, Ticket
<1>6. wpc = "body" => cur \in Task
  BY DEF TypeOK, QueueTypeOK
<1>7. \A i \in 1 .. Len(queue') : ExecTask(queue'[i]) =>
        /\ queue'[i].job <= accepted'
        /\ \A k \in executed' : k < queue'[i].job
        /\ \A j \in 1 .. Len(queue') :
             i < j /\ ExecTask(queue'[j]) => queue'[i].job < queue'[j].job
  <2> SUFFICES ASSUME NEW i \in 1 .. Len(queue'), ExecTask(queue'[i])
               PROVE  /\ queue'[i].job <= accepted'
                      /\ \A k \in executed' : k < queue'[i].job
                      /\ \A j \in 1 .. Len(queue') :
                           i < j /\ ExecTask(queue'[j]) => queue'[i].job < queue'[j].job
    OBVIOUS
  <2>1. CASE i \in 1 .. Len(queue)
    <3>1. queue'[i] = queue[i] /\ queue[i].job \in Nat /\ queue[i].job <= accepted
      BY <1>3, <1>4, <2>1
    <3>2. \A k \in executed' : k < queue'[i].job
      BY <2>1, <3>1 DEF InOrder
    <3>3. ASSUME NEW j \in 1 .. Len(queue'), i < j, ExecTask(queue'[j])
          PROVE  queue'[i].job < queue'[j].job
      <4>1. CASE j \in 1 .. Len(queue)
        BY <1>3, <2>1, <3>1, <3>3, <4>1 DEF InOrder
      <4>2. CASE j = Len(queue) + 1
        BY <1>1, <1>2, <1>3, <3>1, <4>2
      <4>3. QED
        BY <1>1, <1>3, <4>1, <4>2
    <3>4. QED
      BY <1>1, <3>1, <3>2, <3>3
  <2>2. CASE i = Len(queue) + 1
    <3>1. \A k \in executed : k \in Nat /\ k <= accepted
      BY <1>1 DEF InOrder
    <3>2. \A j \in 1 .. Len(queue') : ~(i < j)
      BY <1>1, <1>3, <2>2
    <3>3. QED
      BY <1>1, <1>2, <1>3, <2>2, <3>1, <3>2
  <2>3. QED
    BY <1>1, <1>3, <2>1, <2>2
<1>8. wpc' = "body" /\ ExecTask(cur') =>
        /\ \A k \in executed' : k < cur'.job
        /\ \A i \in 1 .. Len(queue') : ExecTask(queue'[i]) => cur'.job < queue'[i].job
  <2> SUFFICES ASSUME wpc = "body", ExecTask(cur)
               PROVE  /\ \A k \in executed' : k < cur.job
                      /\ \A i \in 1 .. Len(queue') : ExecTask(queue'[i]) => cur.job < queue'[i].job
    OBVIOUS
  <2>1. cur.job \in Nat /\ cur.job <= accepted
    BY <1>5, <1>6 DEF InOrder
  <2>2. \A i \in 1 .. Len(queue') : i \in 1 .. Len(queue) \/ i = Len(queue) + 1
    BY <1>1, <1>3
  <2>3. QED
    BY <1>1, <1>2, <1>3, <2>1, <2>2 DEF InOrder
<1>9. /\ \A k \in executed' : k <= accepted'
      /\ wpc' # "fetch" /\ wpc' # "idle" /\ ExecTask(cur') => cur'.job <= accepted'
  <2>1. wpc # "fetch" /\ wpc # "idle" => cur \in Task
    BY DEF TypeOK, QueueTypeOK
  <2>2. \A k \in executed : k \in Nat /\ k <= accepted
    BY <1>1 DEF InOrder
  <2>3. QED
    BY <1>1, <1>5, <2>1, <2>2 DEF InOrder
<1>10. QED
  BY <1>7, <1>8, <1>9 DEF InOrder

LEMMA InOrderOther ==
  ASSUME TypeOK, InOrder, NEW t \in Task, ~ExecTask(t), AddTask(t),
         UNCHANGED <<executed, accepted, cur>>,
         wpc' = wpc \/ (wpc = "push" /\ wpc' = "check")
  PROVE  InOrder'
<1>1. queue \in Seq(Task) /\ Len(queue) \in Nat
  BY DEF TypeOK, QueueTypeOK
<1>2. /\ Len(queue') = Len(queue) + 1
      /\ \A i \in 1 .. Len(queue) : queue'[i] = queue[i]
      /\ queue'[Len(queue) + 1] = t
  BY <1>1, AppendFacts DEF AddTask
<1>3. \A i \in 1 .. Len(queue') :
        ExecTask(queue'[i]) => i \in 1 .. Len(queue) /\ queue'[i] = queue[i]
  BY <1>1, <1>2
<1>4. QED
  BY <1>3 DEF InOrder

LEMMA InOrderFetch ==
  ASSUME TypeOK, InOrder, Fetch, UNCHANGED <<executed, accepted>>
  PROVE  InOrder'
<1>1. CASE queue = <<>>
  BY <1>1 DEF Fetch, InOrder
<1>2. CASE queue # <<>>
  <2>1. queue \in Seq(Task)
    BY DEF TypeOK, QueueTypeOK
  <2>2. /\ queue' = Tail(queue) /\ cur' = queue[1] /\ wpc' = "body"
        /\ Len(queue) \in Nat \ {0} /\ Len(queue') = Len(queue) - 1
        /\ \A i \in 1 .. Len(queue') : queue'[i] = queue[i + 1]
    BY <1>2, <2>1, TailFacts DEF Fetch
  <2>3. \A i \in 1 .. Len(queue') : i + 1 \in 1 .. Len(queue) /\ 1 < i + 1
    BY <2>2
  <2>4. 1 \in 1 .. Len(queue)
    BY <2>2
  <2>5. \A i \in 1 .. Len(queue') : ExecTask(queue'[i]) =>
          /\ queue'[i].job <= accepted'
          /\ \A k \in executed' : k < queue'[i].job
    BY <2>2, <2>3 DEF InOrder
  <2>6. \A i, j \in 1 .. Len(queue') :
          i < j /\ ExecTask(queue'[i]) /\ ExecTask(queue'[j]) => queue'[i].job < queue'[j].job
    <3> SUFFICES ASSUME NEW i \in 1 .. Len(queue'), NEW j \in 1 .. Len(queue'),
                        i < j, ExecTask(queue'[i]), ExecTask(queue'[j])
                 PROVE  queue'[i].job < queue'[j].job
      OBVIOUS
    <3>1. /\ i + 1 \in 1 .. Len(queue) /\ j + 1 \in 1 .. Len(queue) /\ i + 1 < j + 1
          /\ queue'[i] = queue[i + 1] /\ queue'[j] = queue[j + 1]
      BY <2>2, <2>3
    <3>2. QED
      BY <3>1 DEF InOrder
  <2>7. ExecTask(cur') =>
          /\ cur'.job <= accepted'
          /\ \A k \in executed' : k < cur'.job
          /\ \A i \in 1 .. Len(queue') : ExecTask(queue'[i]) => cur'.job < queue'[i].job
    BY <2>2, <2>3, <2>4 DEF InOrder
  <2>8. QED
    BY <2>2, <2>5, <2>6, <2>7 DEF InOrder
<1>3. QED
  BY <1>1, <1>2

(* A command task that runs joins the executed ones, all of them earlier. *)
LEMMA InOrderExec ==
  ASSUME TypeOK, InOrder, wpc = "body", ExecTask(cur),
         executed' = executed \cup {cur.job}, wpc' \in {"push", "check"},
         UNCHANGED <<queue, cur, accepted>>
  PROVE  InOrder'
<1>1. cur.job \in Nat
  BY TaskFields DEF TypeOK, QueueTypeOK, ExecTask, Ticket
<1>2. QED
  BY <1>1 DEF InOrder

LEMMA NextInOrder == TypeOK /\ InOrder /\ Next => InOrder'
<1> SUFFICES ASSUME TypeOK, InOrder, Next PROVE InOrder'
  OBVIOUS
<1> USE DEF flagVars
<1>1. ASSUME UNCHANGED <<queue, cur, accepted, executed>>, wpc' # "body",
             wpc' \notin {"fetch", "idle"} => wpc \notin {"fetch", "idle"}
      PROVE  InOrder'
  BY <1>1 DEF InOrder
<1>2. ASSUME NEW c \in Kind, NEW n \in Int, Accept(c, n)
      PROVE  InOrder'
  <2>1. accepted' \in Ticket
    BY <1>2, TicketAssumption DEF Accept, TypeOK, ListenerTypeOK, Ticket
  <2>2. QED
    BY <1>2, <2>1, InOrderTicket DEF Accept
<1>3. CASE BreakStop
  BY <1>3 DEF BreakStop, InOrder
<1>4. CASE BreakQueue
  <2>1. accepted' \in Ticket
    BY <1>4, TicketAssumption DEF BreakQueue, TypeOK, ListenerTypeOK, Ticket
  <2>2. QED
    BY <1>4, <2>1, InOrderTicket DEF BreakQueue
<1>5. ASSUME NEW t \in QueryTask, Query(t)
      PROVE  InOrder'
  <2>1. t \in Task /\ ~ExecTask(t)
    <3>1. t.op \in {"status", "tscore", "tscore?"}
      BY TaskFacts DEF QueryTask
    <3>2. CASE t = MkTask("status", 0, 0)
      BY <3>1, <3>2, TaskFacts DEF ExecTask
    <3>3. CASE t # MkTask("status", 0, 0)
      <4>1. t.op # "status"
        BY <3>3, TaskFacts DEF QueryTask
      <4>2. owner \in Ticket
        BY <1>5, <4>1 DEF Query, TypeOK, ConfigTypeOK
      <4>3. QED
        BY <3>1, <3>3, <4>2, TaskFacts DEF QueryTask, ExecTask
    <3>4. QED
      BY <3>2, <3>3
  <2>2. AddTask(t) /\ UNCHANGED <<executed, accepted, cur>> /\ wpc' = wpc
    BY <1>5 DEF Query
  <2>3. QED
    BY <2>1, <2>2, InOrderOther
<1>6. CASE WorkerStep(Fetch)
  BY <1>6, InOrderFetch DEF WorkerStep, listenerVars
<1>7. CASE WorkerStep(Idle)
  BY <1>7 DEF WorkerStep, Idle, listenerVars, InOrder
<1>8. CASE Body
  <2>1. wpc = "body" /\ wpc' \in {"push", "check"} /\ UNCHANGED <<queue, cur, accepted>>
    BY <1>8 DEF Body, RunReady, RunBreakOrConfig, RunCreate, RunStart, RunLoop, RunQuery,
                Iterate, Continue, listenerVars
  <2>2. \/ UNCHANGED executed
        \/ ExecTask(cur) /\ executed' = executed \cup {cur.job}
    BY <1>8 DEF Body, RunReady, RunBreakOrConfig, RunCreate, RunStart, RunLoop, RunQuery,
                ExecTask
  <2>3. QED
    BY <1>1, <2>1, <2>2, InOrderExec
<1>9. CASE Push
  <2>1. cur.job \in Ticket
    BY <1>9 DEF Push, TypeOK, QueueTypeOK
  <2>2. QED
    BY <1>9, <2>1, TaskFacts, InOrderOther DEF Push, listenerVars, ExecTask
<1>10. CASE WorkerStep(CheckStop)
  BY <1>1, <1>10 DEF WorkerStep, CheckStop, listenerVars
<1>11. CASE WorkerStep(ResetStop)
  BY <1>1, <1>11 DEF WorkerStep, ResetStop, listenerVars
<1>12. CASE Drop
  BY <1>12 DEF Drop, DropTask, listenerVars, InOrder
<1>13. CASE Listener
  <2>1. \A n \in Times : Accept("invoke", n) \/ Accept("sample", n) => InOrder'
    BY <1>2, TicketAssumption DEF Kind
  <2>2. Accept("config", 0) => InOrder'
    BY <1>2 DEF Kind
  <2>3. QED
    BY <1>3, <1>4, <1>5, <1>13, <2>1, <2>2 DEF Listener
<1>14. QED
  BY <1>6, <1>7, <1>8, <1>9, <1>10, <1>11, <1>12, <1>13 DEF Next, Worker

-----------------------------------------------------------------------------
(* The ids *)

LEMMA InitIInv == Init => IInv
<1> SUFFICES ASSUME Init PROVE IInv
  OBVIOUS
<1>1. TypeOK
  BY InitTypeOK
<1>2. /\ queue = <<MkTask("ready", 0, 0)>> /\ cur = NoTask /\ wpc = "fetch"
      /\ executed = {} /\ currentTaskId = 0 /\ taskId = [k \in Ticket |-> 0]
      /\ speaking = 0 /\ stopRequested = FALSE
  BY DEF Init, ExecInit
<1>3. /\ Len(queue) = 1 /\ queue[1] = MkTask("ready", 0, 0)
      /\ \A i \in 1 .. Len(queue) : queue[i].op = "ready"
  BY <1>2, TaskFacts
<1>4. InOrder
  BY <1>2, <1>3 DEF InOrder, ExecTask
<1>5. IdsGrow
  BY <1>2 DEF IdsGrow
<1>6. IterationsRan
  BY <1>2, <1>3 DEF IterationsRan
<1>7. OnlyLatestSpeaks /\ StopIsScoped
  BY <1>2 DEF OnlyLatestSpeaks, StopIsScoped
<1>8. QED
  BY <1>1, <1>4, <1>5, <1>6, <1>7 DEF IInv

(* What the steps of Next do to the ids and the commands that have run. *)
LEMMA IdSteps ==
  ASSUME TypeOK, Next
  PROVE  \/ UNCHANGED <<taskId, currentTaskId, executed>>
         \/ /\ wpc = "body" /\ ExecTask(cur) /\ cur.job \in Ticket
            /\ currentTaskId' = currentTaskId + 1
            /\ executed' = executed \cup {cur.job}
            /\ taskId' \in {taskId, [taskId EXCEPT ![cur.job] = currentTaskId + 1]}
            /\ speaking' = 0
<1> USE DEF jobVars, flagVars
<1>1. CASE Listener
  BY <1>1 DEF Listener, Accept, BreakStop, BreakQueue, Query
<1>2. CASE Worker /\ ~Body
  BY <1>2 DEF Worker, WorkerStep, Push, Drop
<1>3. CASE Body
  <2>1. CASE RunReady \/ RunQuery
    BY <2>1 DEF RunReady, RunQuery
  <2>2. wpc = "body" /\ ExecTask(cur) => cur.job \in Ticket
    BY TaskFields DEF TypeOK, QueueTypeOK, ExecTask
  <2>3. CASE RunBreakOrConfig
    BY <2>2, <2>3 DEF RunBreakOrConfig, ExecTask
  <2>4. ASSUME NEW usable \in BOOLEAN, RunCreate(usable)
        PROVE  /\ wpc = "body" /\ ExecTask(cur) /\ cur.job \in Ticket
               /\ currentTaskId' = currentTaskId + 1
               /\ executed' = executed \cup {cur.job}
               /\ taskId' = [taskId EXCEPT ![cur.job] = currentTaskId + 1]
               /\ speaking' = 0
    BY <2>2, <2>4 DEF RunCreate, ExecTask
  <2>5. ASSUME NEW supported \in BOOLEAN, NEW o, RunStart(supported, o)
        PROVE  UNCHANGED <<taskId, currentTaskId, executed>>
    BY <2>5 DEF RunStart
  <2>6. ASSUME NEW o, RunLoop(o)
        PROVE  UNCHANGED <<taskId, currentTaskId, executed>>
    BY <2>6 DEF RunLoop
  <2>7. QED
    BY <1>3, <2>1, <2>3, <2>4, <2>5, <2>6 DEF Body
<1>4. QED
  BY <1>1, <1>2, <1>3 DEF Next

LEMMA NextIdsGrow == TypeOK /\ InOrder /\ IdsGrow /\ Next => IdsGrow'
<1> SUFFICES ASSUME TypeOK, InOrder, IdsGrow, Next PROVE IdsGrow'
  OBVIOUS
<1>1. /\ taskId \in [Ticket -> Nat] /\ currentTaskId \in Nat
      /\ executed \subseteq Nat /\ Ticket \subseteq Nat
  BY TicketAssumption DEF TypeOK, JobTypeOK, FlagTypeOK, Ticket
<1>2. CASE UNCHANGED <<taskId, currentTaskId, executed>>
  BY <1>2 DEF IdsGrow
<1>3. CASE /\ wpc = "body" /\ ExecTask(cur) /\ cur.job \in Ticket
           /\ currentTaskId' = currentTaskId + 1
           /\ executed' = executed \cup {cur.job}
           /\ taskId' \in {taskId, [taskId EXCEPT ![cur.job] = currentTaskId + 1]}
  <2> SUFFICES ASSUME NEW j \in Ticket
               PROVE  /\ taskId'[j] <= currentTaskId'
                      /\ \A k \in executed' : j < k => taskId'[j] < currentTaskId'
    BY DEF IdsGrow
  <2>1. taskId[j] \in Nat /\ taskId[j] <= currentTaskId
    BY <1>1 DEF IdsGrow
  <2>2. CASE taskId'[j] = taskId[j]
    BY <1>1, <1>3, <2>1, <2>2
  <2>3. CASE taskId'[j] # taskId[j]
    <3>1. j = cur.job /\ taskId'[j] = currentTaskId + 1
      BY <1>1, <1>3, <2>3
    <3>2. \A k \in executed' : ~(j < k)
      BY <1>1, <1>3, <3>1 DEF InOrder
    <3>3. QED
      BY <1>1, <1>3, <3>1, <3>2
  <2>4. QED
    BY <2>2, <2>3
<1>4. QED
  BY <1>2, <1>3, IdSteps

-----------------------------------------------------------------------------
(* Iterations and what they send *)

LEMMA PushedRan ==
  ASSUME TypeOK, IterationsRan, NEW t \in Task, AddTask(t),
         t.op \in {"start", "loop"} => t.job \in executed,
         UNCHANGED <<executed, cur>>, wpc' = "push" => wpc = "push"
  PROVE  IterationsRan'
<1>1. queue \in Seq(Task) /\ Len(queue) \in Nat
  BY DEF TypeOK, QueueTypeOK
<1>2. /\ Len(queue') = Len(queue) + 1
      /\ \A i \in 1 .. Len(queue) : queue'[i] = queue[i]
      /\ queue'[Len(queue) + 1] = t
  BY <1>1, AppendFacts DEF AddTask
<1>3. \A i \in 1 .. Len(queue') : i \in 1 .. Len(queue) \/ i = Len(queue) + 1
  BY <1>1, <1>2
<1>4. QED
  BY <1>2, <1>3 DEF IterationsRan

LEMMA NextIterationsRan == TypeOK /\ IterationsRan /\ Next => IterationsRan'
<1> SUFFICES ASSUME TypeOK, IterationsRan, Next PROVE IterationsRan'
  OBVIOUS
<1> USE DEF flagVars
<1>1. queue \in Seq(Task) /\ Len(queue) \in Nat
  BY DEF TypeOK, QueueTypeOK
<1>2. ASSUME NEW c, NEW n, Accept(c, n)
      PROVE  IterationsRan'
  <2>1. accepted' \in Ticket
    BY <1>2, TicketAssumption DEF Accept, TypeOK, ListenerTypeOK, Ticket
  <2>2. /\ AddTask(MkTask("exec", accepted', 0))
        /\ UNCHANGED <<executed, cur>> /\ wpc' = wpc
    BY <1>2 DEF Accept
  <2>3. QED
    BY <2>1, <2>2, TaskFacts, PushedRan
<1>3. CASE BreakStop
  BY <1>3 DEF BreakStop, IterationsRan
<1>4. CASE BreakQueue
  <2>1. accepted' \in Ticket
    BY <1>4, TicketAssumption DEF BreakQueue, TypeOK, ListenerTypeOK, Ticket
  <2>2. /\ AddTask(MkTask("exec", accepted', 0))
        /\ UNCHANGED <<executed, cur>> /\ wpc' = wpc
    BY <1>4 DEF BreakQueue
  <2>3. QED
    BY <2>1, <2>2, TaskFacts, PushedRan
<1>5. ASSUME NEW t \in QueryTask, Query(t)
      PROVE  IterationsRan'
  <2>1. t \in Task /\ t.op \notin {"start", "loop"}
    <3>1. CASE t = MkTask("status", 0, 0)
      BY <3>1, TaskFacts
    <3>2. CASE t # MkTask("status", 0, 0)
      <4>1. t.op # "status"
        BY <3>2, TaskFacts DEF QueryTask
      <4>2. owner \in Ticket
        BY <1>5, <4>1 DEF Query, TypeOK, ConfigTypeOK
      <4>3. QED
        BY <3>2, <4>2, TaskFacts DEF QueryTask
    <3>3. QED
      BY <3>1, <3>2
  <2>2. AddTask(t) /\ UNCHANGED <<executed, cur>> /\ wpc' = wpc
    BY <1>5 DEF Query
  <2>3. QED
    BY <2>1, <2>2, PushedRan
<1>6. CASE WorkerStep(Fetch)
  <2>1. CASE queue = <<>>
    BY <1>6, <2>1 DEF WorkerStep, Fetch, IterationsRan
  <2>2. CASE queue # <<>>
    <3>1. /\ queue' = Tail(queue) /\ cur' = queue[1] /\ wpc' = "body" /\ executed' = executed
          /\ Len(queue) \in Nat \ {0} /\ Len(queue') = Len(queue) - 1
          /\ \A i \in 1 .. Len(queue') : queue'[i] = queue[i + 1]
      BY <1>1, <1>6, <2>2, TailFacts DEF WorkerStep, Fetch
    <3>2. 1 \in 1 .. Len(queue) /\ \A i \in 1 .. Len(queue') : i + 1 \in 1 .. Len(queue)
      BY <3>1
    <3>3. QED
      BY <3>1, <3>2 DEF IterationsRan
  <2>3. QED
    BY <2>1, <2>2
<1>7. CASE WorkerStep(Idle)
  BY <1>7 DEF WorkerStep, Idle, IterationsRan
<1>8. CASE Body
  <2>1. UNCHANGED <<queue, cur>> /\ cur # NoTask
    BY <1>8 DEF Body, RunReady, RunBreakOrConfig, RunCreate, RunStart, RunLoop, RunQuery,
                Iterate, Continue, TypeOK, QueueTypeOK
  <2>2. executed \subseteq executed'
    BY IdSteps
  <2>3. wpc' = "push" => cur.job \in executed'
    <3>1. CASE \/ RunReady \/ RunBreakOrConfig \/ RunQuery
               \/ \E usable \in BOOLEAN : RunCreate(usable)
      BY <3>1 DEF RunReady, RunBreakOrConfig, RunCreate, RunQuery, Continue
    <3>2. CASE cur.op \in {"start", "loop"}
      BY <2>1, <2>2, <3>2 DEF IterationsRan
    <3>3. QED
      BY <1>8, <3>1, <3>2 DEF Body, RunStart, RunLoop
  <2>4. QED
    BY <2>1, <2>2, <2>3 DEF IterationsRan
<1>9. CASE Push
  <2>1. cur.job \in Ticket /\ cur.job \in executed
    BY <1>9 DEF Push, TypeOK, QueueTypeOK, IterationsRan
  <2>2. /\ AddTask(MkTask(IF cur.op = "exec" THEN "start" ELSE "loop", cur.job, 0))
        /\ UNCHANGED <<executed, cur>> /\ wpc' = "check"
    BY <1>9 DEF Push
  <2>3. QED
    BY <2>1, <2>2, TaskFacts, PushedRan
<1>10. CASE WorkerStep(CheckStop) \/ WorkerStep(ResetStop)
  BY <1>10 DEF WorkerStep, CheckStop, ResetStop, IterationsRan
<1>11. CASE Drop
  BY <1>11 DEF Drop, DropTask, IterationsRan
<1>12. CASE Listener
  BY <1>2, <1>3, <1>4, <1>5, <1>12 DEF Listener
<1>13. QED
  BY <1>6, <1>7, <1>8, <1>9, <1>10, <1>11, <1>12 DEF Next, Worker

(* An event is sent by a step that has just compared the ids. *)
LEMMA NextOnlyLatestSpeaks ==
  TypeOK /\ IdsGrow /\ OnlyLatestSpeaks /\ Next => OnlyLatestSpeaks'
<1> SUFFICES ASSUME TypeOK, IdsGrow, OnlyLatestSpeaks, Next PROVE OnlyLatestSpeaks'
  OBVIOUS
<1> USE DEF flagVars
<1>1. executed \subseteq Nat /\ Ticket \subseteq Nat
  BY TicketAssumption DEF TypeOK, FlagTypeOK, Ticket
<1>2. ASSUME NEW k \in Ticket, NEW o, Iterate(k, o), UNCHANGED executed
      PROVE  OnlyLatestSpeaks'
  <2>1. CASE speaking' = 0
    BY <2>1 DEF OnlyLatestSpeaks
  <2>2. CASE speaking' # 0
    <3>1. speaking' = k /\ currentTaskId = taskId[k]
      BY <1>2, <2>2 DEF Iterate, Superseded
    <3>2. currentTaskId \in Nat
      BY DEF TypeOK, FlagTypeOK
    <3>3. \A j \in executed : ~(k < j)
      BY <3>1, <3>2 DEF IdsGrow
    <3>4. QED
      BY <1>1, <1>2, <3>1, <3>3 DEF OnlyLatestSpeaks
  <2>3. QED
    BY <2>1, <2>2
<1>3. cur.op \in {"start", "loop"} /\ wpc = "body" => cur.job \in Ticket
  BY TaskFields DEF TypeOK, QueueTypeOK
<1>4. CASE UNCHANGED <<executed, speaking>>
  BY <1>4 DEF OnlyLatestSpeaks
<1>5. ASSUME NEW s \in BOOLEAN, NEW o, RunStart(s, o)
      PROVE  OnlyLatestSpeaks'
  <2>1. speaking' = 0 \/ (Iterate(cur.job, o) /\ UNCHANGED executed)
    BY <1>5 DEF RunStart
  <2>2. QED
    BY <1>2, <1>3, <1>5, <2>1 DEF OnlyLatestSpeaks, RunStart
<1>6. ASSUME NEW o, RunLoop(o)
      PROVE  OnlyLatestSpeaks'
  <2>1. speaking' = 0 \/ (Iterate(cur.job, o) /\ UNCHANGED executed)
    BY <1>6 DEF RunLoop
  <2>2. QED
    BY <1>2, <1>3, <1>6, <2>1 DEF OnlyLatestSpeaks, RunLoop
<1>7. CASE Listener
  BY <1>4, <1>7 DEF Listener, Accept, BreakStop, BreakQueue, Query
<1>8. CASE Worker /\ ~Body
  BY <1>4, <1>8 DEF Worker, WorkerStep, Push, Drop
<1>9. CASE \/ RunReady \/ RunBreakOrConfig \/ RunQuery
           \/ \E usable \in BOOLEAN : RunCreate(usable)
  BY <1>9 DEF RunReady, RunBreakOrConfig, RunCreate, RunQuery, OnlyLatestSpeaks
<1>10. QED
  BY <1>5, <1>6, <1>7, <1>8, <1>9 DEF Next, Body

-----------------------------------------------------------------------------
(* The stop flag *)

(* A step that only adds to the queue leaves the BREAK it was raised for. *)
LEMMA ScopeKept ==
  ASSUME TypeOK, StopIsScoped, NEW t \in Task, AddTask(t),
         UNCHANGED <<stopRequested, cur>>,
         wpc' = wpc \/ (wpc = "push" /\ wpc' = "check"),
         lpc' = lpc \/ (ExecTask(t) /\ kind'[t.job] = "break"),
         \A i \in 1 .. Len(queue) : BreakTask(queue[i]) => kind'[queue[i].job] = "break",
         BreakTask(cur) /\ wpc \notin {"fetch", "idle"} => kind'[cur.job] = "break"
  PROVE  StopIsScoped'
<1>1. queue \in Seq(Task) /\ Len(queue) \in Nat
  BY DEF TypeOK, QueueTypeOK
<1>2. /\ Len(queue') = Len(queue) + 1
      /\ \A i \in 1 .. Len(queue) : queue'[i] = queue[i] /\ i \in 1 .. Len(queue')
      /\ queue'[Len(queue) + 1] = t /\ Len(queue) + 1 \in 1 .. Len(queue')
  BY <1>1, AppendFacts DEF AddTask
<1>3. QED
  BY <1>2 DEF StopIsScoped, BreakTask, ExecTask

(* Giving out a ticket changes no task that is already there. *)
LEMMA KindKept ==
  ASSUME TypeOK, InOrder, NEW c, accepted' = accepted + 1,
         kind' = [kind EXCEPT ![accepted'] = c]
  PROVE  /\ \A i \in 1 .. Len(queue) :
              BreakTask(queue[i]) => kind'[queue[i].job] = "break"
         /\ BreakTask(cur) /\ wpc \notin {"fetch", "idle"} => kind'[cur.job] = "break"
<1>1. /\ accepted \in Nat /\ kind \in [Ticket -> Kind] /\ queue \in Seq(Task)
      /\ Ticket \subseteq Nat
  BY TicketAssumption DEF TypeOK, ListenerTypeOK, QueueTypeOK, Ticket
<1>2. \A j \in Ticket : j <= accepted => kind'[j] = kind[j]
  BY <1>1
<1>3. ASSUME NEW i \in 1 .. Len(queue), BreakTask(queue[i])
      PROVE  kind'[queue[i].job] = "break"
  <2>1. queue[i] \in Task /\ queue[i].job <= accepted
    BY <1>1, <1>3 DEF InOrder, ExecTask, BreakTask
  <2>2. queue[i].job \in Ticket
    BY <1>3, <2>1, TaskFields DEF BreakTask
  <2>3. QED
    BY <1>2, <1>3, <2>1, <2>2 DEF BreakTask
<1>4. ASSUME BreakTask(cur), wpc \notin {"fetch", "idle"}
      PROVE  kind'[cur.job] = "break"
  <2>1. cur \in Task /\ cur.job <= accepted
    BY <1>4 DEF InOrder, ExecTask, BreakTask, TypeOK, QueueTypeOK
  <2>2. cur.job \in Ticket
    BY <1>4, <2>1, TaskFields DEF BreakTask
  <2>3. QED
    BY <1>2, <1>4, <2>1, <2>2 DEF BreakTask
<1>5. QED
  BY <1>3, <1>4 DEF BreakTask

LEMMA NextStopIsScoped == TypeOK /\ InOrder /\ StopIsScoped /\ Next => StopIsScoped'
<1> SUFFICES ASSUME TypeOK, InOrder, StopIsScoped, Next PROVE StopIsScoped'
  OBVIOUS
<1> USE DEF listenerVars
<1>1. queue \in Seq(Task) /\ Len(queue) \in Nat
  BY DEF TypeOK, QueueTypeOK
<1>3. ASSUME NEW c, NEW n, Accept(c, n)
      PROVE  StopIsScoped'
  <2>1. accepted' \in Ticket
    BY <1>3, TicketAssumption DEF Accept, TypeOK, ListenerTypeOK, Ticket
  <2>2. /\ accepted' = accepted + 1 /\ kind' = [kind EXCEPT ![accepted'] = c]
        /\ AddTask(MkTask("exec", accepted', 0))
        /\ UNCHANGED <<stopRequested, cur>> /\ wpc' = wpc /\ lpc' = lpc
    BY <1>3 DEF Accept
  <2>3. QED
    BY <2>1, <2>2, TaskFacts, KindKept, ScopeKept
<1>4. CASE BreakStop
  BY <1>4 DEF BreakStop, StopIsScoped
<1>5. CASE BreakQueue
  <2>1. accepted' \in Ticket
    BY <1>5, TicketAssumption DEF BreakQueue, TypeOK, ListenerTypeOK, Ticket
  <2>2. /\ accepted' = accepted + 1 /\ kind' = [kind EXCEPT ![accepted'] = "break"]
        /\ AddTask(MkTask("exec", accepted', 0))
        /\ UNCHANGED <<stopRequested, cur>> /\ wpc' = wpc
    BY <1>5 DEF BreakQueue
  <2>3. MkTask("exec", accepted', 0).job = accepted' /\ ExecTask(MkTask("exec", accepted', 0))
    BY TaskFacts DEF ExecTask
  <2>4. kind'[accepted'] = "break"
    BY <2>1, <2>2 DEF TypeOK, ListenerTypeOK
  <2>5. QED
    BY <2>1, <2>2, <2>3, <2>4, TaskFacts, KindKept, ScopeKept
<1>6. ASSUME NEW t \in QueryTask, Query(t)
      PROVE  StopIsScoped'
  <2>1. t \in Task
    <3>1. CASE t = MkTask("status", 0, 0)
      BY <3>1, TaskFacts
    <3>2. CASE t # MkTask("status", 0, 0)
      <4>1. t.op # "status"
        BY <3>2, TaskFacts DEF QueryTask
      <4>2. owner \in Ticket
        BY <1>6, <4>1 DEF Query, TypeOK, ConfigTypeOK
      <4>3. QED
        BY <3>2, <4>2, TaskFacts DEF QueryTask
    <3>3. QED
      BY <3>1, <3>2
  <2>2. /\ AddTask(t) /\ UNCHANGED <<stopRequested, cur>>
        /\ wpc' = wpc /\ lpc' = lpc /\ kind' = kind
    BY <1>6 DEF Query
  <2>3. QED
    BY <2>1, <2>2, ScopeKept DEF BreakTask
<1>7. CASE WorkerStep(Fetch)
  <2>1. CASE queue = <<>>
    <3>1. Len(queue) = 0 /\ wpc = "fetch"
      BY <1>7, <2>1 DEF WorkerStep, Fetch
    <3>2. QED
      BY <1>7, <3>1 DEF WorkerStep, Fetch, StopIsScoped
  <2>2. CASE queue # <<>>
    <3>1. /\ queue' = Tail(queue) /\ cur' = queue[1] /\ wpc' = "body" /\ wpc = "fetch"
          /\ UNCHANGED <<stopRequested, kind, lpc>>
          /\ Len(queue) \in Nat \ {0} /\ Len(queue') = Len(queue) - 1
          /\ \A i \in 1 .. Len(queue') : queue'[i] = queue[i + 1]
      BY <1>1, <1>7, <2>2, TailFacts DEF WorkerStep, Fetch
    <3>2. ASSUME NEW i \in 1 .. Len(queue), BreakTask(queue[i])
          PROVE  StopIsScoped'
      <4>1. CASE i = 1
        BY <3>1, <3>2, <4>1 DEF StopIsScoped, BreakTask
      <4>2. CASE i # 1
        <5>1. i - 1 \in 1 .. Len(queue') /\ queue'[i - 1] = queue[i]
          BY <3>1, <4>2
        <5>2. QED
          BY <3>1, <3>2, <5>1 DEF StopIsScoped, BreakTask
      <4>3. QED
        BY <4>1, <4>2
    <3>3. QED
      BY <3>1, <3>2 DEF StopIsScoped
  <2>3. QED
    BY <2>1, <2>2
<1>8. CASE WorkerStep(Idle) \/ WorkerStep(ResetStop)
  BY <1>8 DEF WorkerStep, Idle, ResetStop, StopIsScoped
<1>9. CASE Body
  <2>1. /\ wpc = "body" /\ wpc' \in {"push", "check"}
        /\ UNCHANGED <<queue, stopRequested, cur, lpc, kind>>
    BY <1>9 DEF Body, RunReady, RunBreakOrConfig, RunCreate, RunStart, RunLoop, RunQuery,
                Iterate, Continue
  <2>2. QED
    BY <2>1 DEF StopIsScoped, BreakTask
<1>10. CASE Push
  <2>1. cur.job \in Ticket
    BY <1>10 DEF Push, TypeOK, QueueTypeOK
  <2>2. /\ AddTask(MkTask(IF cur.op = "exec" THEN "start" ELSE "loop", cur.job, 0))
        /\ UNCHANGED <<stopRequested, cur>> /\ wpc = "push" /\ wpc' = "check"
        /\ lpc' = lpc /\ kind' = kind
    BY <1>10 DEF Push
  <2>3. QED
    BY <2>1, <2>2, TaskFacts, ScopeKept DEF BreakTask
<1>11. CASE WorkerStep(CheckStop)
  BY <1>11 DEF WorkerStep, CheckStop, StopIsScoped, BreakTask
<1>12. CASE Drop
  BY <1>12 DEF Drop, DropTask, StopIsScoped, BreakTask
<1>13. CASE Listener
  BY <1>3, <1>4, <1>5, <1>6, <1>13 DEF Listener
<1>14. QED
  BY <1>7, <1>8, <1>9, <1>10, <1>11, <1>12, <1>13 DEF Next, Worker

-----------------------------------------------------------------------------
(* The inductive invariant: the order of the tickets in the queue, the ids *)
(* the objects have captured, and what follows from them, hold for every   *)
(* number of commands, every count and every interleaving of the listener  *)
(* with the worker.                                                        *)
THEOREM Inductive == Spec => []IInv
<1>1. IInv /\ Next => IInv'
  BY ListenerStepTypeOK, WorkerTypeOK, NextInOrder, NextIdsGrow, NextIterationsRan,
     NextOnlyLatestSpeaks, NextStopIsScoped DEF IInv, Next
<1>2. IInv /\ UNCHANGED vars => IInv'
  <2> SUFFICES ASSUME IInv, UNCHANGED vars PROVE IInv'
    OBVIOUS
  <2> USE DEF vars, execVars, jobVars, flagVars, configVars, listenerVars
  <2>1. TypeOK'
    <3>1. QueueTypeOK' /\ ListenerTypeOK'
      BY DEF IInv, TypeOK, QueueTypeOK, ListenerTypeOK
    <3>2. FlagTypeOK' /\ JobTypeOK'
      BY DEF IInv, TypeOK, FlagTypeOK, JobTypeOK
    <3>3. ConfigTypeOK'
      BY DEF IInv, TypeOK, ConfigTypeOK
    <3>4. QED
      BY <3>1, <3>2, <3>3 DEF TypeOK
  <2>2. InOrder'
    BY DEF IInv, InOrder, ExecTask
  <2>3. IdsGrow' /\ IterationsRan' /\ OnlyLatestSpeaks'
    BY DEF IInv, IdsGrow, IterationsRan, OnlyLatestSpeaks
  <2>4. StopIsScoped'
    BY DEF IInv, StopIsScoped, BreakTask
  <2>5. QED
    BY <2>1, <2>2, <2>3, <2>4 DEF IInv
<1>3. IInv /\ [Next]_vars => IInv'
  BY <1>1, <1>2
<1>4. QED
  BY InitIInv, <1>3, PTL DEF Spec

(* event_loop_cam compares the id of its object with current_task_id before *)
(* it speaks, and that is enough: once BREAK, MODEL, ALGO, SENSOR, SAMPLE   *)
(* or INVOKE has run, no result of an earlier loop follows its reply.       *)
THEOREM LatestSpeaks == Spec => []OnlyLatestSpeaks
<1>1. IInv => OnlyLatestSpeaks
  BY DEF IInv
<1>2. QED
  BY Inductive, <1>1, PTL

(* The worker lowers the stop flag after every task and whenever it is      *)
(* idle, and that is enough: the flag a BREAK raised never outlives the     *)
(* BREAK's own task, so it stops no loop requested after it.                *)
THEOREM StopScoped == Spec => []StopIsScoped
<1>1. IInv => StopIsScoped
  BY DEF IInv
<1>2. QED
  BY Inductive, <1>1, PTL

-----------------------------------------------------------------------------
(* The objects of the loops: each INVOKE or SAMPLE object has exactly one   *)
(* reference, loops never fork, no command is answered twice, and TSCORE    *)
(* and TIOU are registered exactly for the object that loops.               *)


(* A step that leaves the objects and the worker's task alone and adds at   *)
(* most tasks that are no iterations: those of the listener, and of the     *)
(* worker between two tasks.                                                *)
Quiet ==
  /\ UNCHANGED <<cur, jobVars, flagVars, configVars>>
  /\ \/ wpc' = wpc
     \/ wpc \notin {"body", "push"} /\ wpc' \notin {"body", "push"} /\ (Running' <=> Running)
  /\ \A k \in executed : kind'[k] = kind[k] /\ ntimes'[k] = ntimes[k]
  /\ ntimes' \in [Ticket -> Int]
  /\ \A i \in 1 .. Len(queue) : i \in 1 .. Len(queue') /\ queue'[i] = queue[i]
  /\ \A i \in 1 .. Len(queue') : \/ i \in 1 .. Len(queue)
                                 \/ /\ ~Iteration(queue'[i])
                                    /\ ScoreQuery(queue'[i]) => registered[queue'[i].job]

(* The worker takes the first task of the queue. *)
Taken ==
  /\ wpc = "fetch" /\ wpc' = "body" /\ cur' = queue[1] /\ cur' \in Task
  /\ UNCHANGED <<jobVars, flagVars, configVars, listenerVars>>
  /\ 1 \in 1 .. Len(queue)
  /\ \A i \in 1 .. Len(queue') :
       /\ i + 1 \in 1 .. Len(queue) /\ 1 < i + 1 /\ i # 0
       /\ queue'[i] = queue[i + 1]
  /\ \A i \in 1 .. Len(queue) : i # 1 =>
       \E j \in 1 .. Len(queue') : queue'[j] = queue[i]
  /\ \A i, j \in 1 .. Len(queue') : (i < j => i + 1 < j + 1) /\ (i + 1 = j + 1 => i = j)

(* The position of a task that is appended. *)
LEMMA QueueGrows ==
  ASSUME TypeOK, NEW t \in Task, AddTask(t)
  PROVE  /\ Len(queue) \in Nat /\ Len(queue') = Len(queue) + 1
         /\ \A i \in 1 .. Len(queue) : i \in 1 .. Len(queue') /\ queue'[i] = queue[i]
         /\ \A i \in 1 .. Len(queue') : i \in 1 .. Len(queue) \/ i = Len(queue) + 1
         /\ Len(queue) + 1 \in 1 .. Len(queue') /\ Len(queue) + 1 \notin 1 .. Len(queue)
         /\ queue'[Len(queue) + 1] = t
         /\ \A i \in 1 .. Len(queue) : i < Len(queue) + 1
         /\ \A i \in 1 .. Len(queue') : ~(Len(queue) + 1 < i)
<1>1. queue \in Seq(Task) /\ Len(queue) \in Nat
  BY DEF TypeOK, QueueTypeOK
<1>2. /\ Len(queue') = Len(queue) + 1
      /\ \A i \in 1 .. Len(queue) : queue'[i] = queue[i]
      /\ queue'[Len(queue) + 1] = t
  BY <1>1, AppendFacts DEF AddTask
<1>3. QED
  BY <1>1, <1>2

LEMMA FetchTakes ==
  ASSUME TypeOK, WorkerStep(Fetch), queue # <<>>
  PROVE  Taken
<1>1. queue \in Seq(Task)
  BY DEF TypeOK, QueueTypeOK
<1>2. /\ wpc = "fetch" /\ queue' = Tail(queue) /\ cur' = queue[1] /\ wpc' = "body"
      /\ cur' \in Task
      /\ Len(queue) \in Nat \ {0} /\ Len(queue') = Len(queue) - 1
      /\ \A i \in 1 .. Len(queue') : queue'[i] = queue[i + 1]
      /\ UNCHANGED <<jobVars, flagVars, configVars, listenerVars>>
  BY <1>1, TailFacts DEF WorkerStep, Fetch
<1>3. /\ 1 \in 1 .. Len(queue)
      /\ \A i \in 1 .. Len(queue') : i + 1 \in 1 .. Len(queue) /\ 1 < i + 1 /\ i # 0
      /\ \A i, j \in 1 .. Len(queue') : (i < j => i + 1 < j + 1) /\ (i + 1 = j + 1 => i = j)
  BY <1>2
<1>4. ASSUME NEW i \in 1 .. Len(queue), i # 1
      PROVE  \E j \in 1 .. Len(queue') : queue'[j] = queue[i]
  <2>1. i - 1 \in 1 .. Len(queue') /\ (i - 1) + 1 = i
    BY <1>2, <1>4
  <2>2. queue'[i - 1] = queue[i]
    BY <1>2, <2>1
  <2>3. QED
    BY <2>1, <2>2
<1>5. QED
  BY <1>2, <1>3, <1>4 DEF Taken

(* The listener's steps and the worker's between two tasks are quiet. *)
LEMMA AcceptQuiet ==
  ASSUME TypeOK, InOrder, NEW t \in Task, AddTask(t), ExecTask(t), NEW c \in Kind,
         NEW n \in Int, accepted' = accepted + 1, accepted' \in Ticket,
         kind' = [kind EXCEPT ![accepted'] = c],
         ntimes' = [ntimes EXCEPT ![accepted'] = n] \/ ntimes' = ntimes,
         UNCHANGED <<cur, wpc, jobVars, flagVars, configVars>>
  PROVE  Quiet
<1>1. /\ accepted \in Nat /\ executed \subseteq Ticket /\ Ticket \subseteq Nat
      /\ kind \in [Ticket -> Kind] /\ ntimes \in [Ticket -> Int]
  BY TicketAssumption DEF TypeOK, ListenerTypeOK, FlagTypeOK, Ticket
<1>2. \A k \in executed : k \in Ticket /\ k # accepted'
  BY <1>1 DEF InOrder
<1>3. \A k \in executed : kind'[k] = kind[k] /\ ntimes'[k] = ntimes[k]
  BY <1>1, <1>2
<1>4. ntimes' \in [Ticket -> Int]
  BY <1>1
<1>5. ~Iteration(t) /\ ~ScoreQuery(t)
  BY DEF ExecTask, Iteration, ScoreQuery
<1>6. QED
  BY <1>3, <1>4, <1>5, QueueGrows DEF Quiet

LEMMA QueryQuiet ==
  ASSUME TypeOK, OwnerIsLast, NEW t \in QueryTask, Query(t)
  PROVE  Quiet
<1>1. t \in Task /\ ~Iteration(t) /\ (ScoreQuery(t) => registered[t.job])
  <2>1. CASE t = MkTask("status", 0, 0)
    BY <2>1, TaskFacts DEF Iteration, ScoreQuery
  <2>2. CASE t # MkTask("status", 0, 0)
    <3>1. t.op # "status"
      BY <2>2, TaskFacts DEF QueryTask
    <3>2. owner \in Ticket /\ t.job = owner
      BY <3>1 DEF Query, TypeOK, ConfigTypeOK
    <3>3. t \in Task /\ t.op \in {"tscore", "tscore?"}
      BY <2>2, <3>2, TaskFacts DEF QueryTask
    <3>4. registered[owner]
      BY <3>2 DEF OwnerIsLast
    <3>5. QED
      BY <3>2, <3>3, <3>4 DEF Iteration, ScoreQuery
  <2>3. QED
    BY <2>1, <2>2
<1>2. AddTask(t) /\ UNCHANGED <<cur, wpc, kind, ntimes, jobVars, flagVars, configVars>>
  BY DEF Query
<1>3. ntimes' \in [Ticket -> Int]
  BY <1>2 DEF TypeOK, ListenerTypeOK
<1>4. /\ \A i \in 1 .. Len(queue) : i \in 1 .. Len(queue') /\ queue'[i] = queue[i]
      /\ \A i \in 1 .. Len(queue') : i \in 1 .. Len(queue) \/ queue'[i] = t
  BY <1>1, <1>2, QueueGrows
<1>5. QED
  BY <1>1, <1>2, <1>3, <1>4 DEF Quiet

LEMMA QuietSteps ==
  ASSUME TypeOK, InOrder, OwnerIsLast,
         \/ Listener
         \/ WorkerStep(Fetch) /\ queue = <<>>
         \/ WorkerStep(Idle) \/ WorkerStep(CheckStop) \/ WorkerStep(ResetStop)
  PROVE  Quiet
<1>1. ntimes \in [Ticket -> Int] /\ Ticket \subseteq Nat /\ accepted \in Nat
  BY TicketAssumption DEF TypeOK, ListenerTypeOK, Ticket
<1>2. ASSUME UNCHANGED <<queue, cur, jobVars, flagVars, configVars, kind, ntimes>>,
             \/ wpc' = wpc
             \/ /\ wpc \notin {"body", "push"} /\ wpc' \notin {"body", "push"}
                /\ Running' <=> Running
      PROVE  Quiet
  BY <1>1, <1>2 DEF Quiet
<1>3. ASSUME NEW c \in Kind, NEW n \in Int, Accept(c, n)
      PROVE  Quiet
  <2>1. accepted' = accepted + 1 /\ accepted' \in Ticket
    BY <1>3, TicketAssumption DEF Accept, TypeOK, ListenerTypeOK, Ticket
  <2>2. MkTask("exec", accepted', 0) \in Task /\ ExecTask(MkTask("exec", accepted', 0))
    BY <2>1, TaskFacts DEF ExecTask
  <2>3. QED
    BY <1>3, <2>1, <2>2, AcceptQuiet DEF Accept
<1>4. CASE BreakStop
  BY <1>2, <1>4 DEF BreakStop
<1>5. CASE BreakQueue
  <2>1. accepted' = accepted + 1 /\ accepted' \in Ticket
    BY <1>5, TicketAssumption DEF BreakQueue, TypeOK, ListenerTypeOK, Ticket
  <2>2. MkTask("exec", accepted', 0) \in Task /\ ExecTask(MkTask("exec", accepted', 0))
    BY <2>1, TaskFacts DEF ExecTask
  <2>3. "break" \in Kind /\ 0 \in Int
    BY DEF Kind
  <2>4. QED
    BY <1>5, <2>1, <2>2, <2>3, AcceptQuiet DEF BreakQueue
<1>6. CASE \E t \in QueryTask : Query(t)
  BY <1>6, QueryQuiet
<1>7. CASE Listener
  <2>1. {"invoke", "sample", "config"} \subseteq Kind /\ Times \subseteq Int /\ 0 \in Int
    BY TicketAssumption DEF Kind
  <2>2. QED
    BY <1>3, <1>4, <1>5, <1>6, <1>7, <2>1 DEF Listener
<1>8. CASE WorkerStep(Fetch) /\ queue = <<>>
  BY <1>2, <1>8 DEF WorkerStep, Fetch, listenerVars, Running
<1>9. CASE WorkerStep(Idle) \/ WorkerStep(CheckStop) \/ WorkerStep(ResetStop)
  BY <1>2, <1>9 DEF WorkerStep, Idle, CheckStop, ResetStop, listenerVars, Running
<1>10. QED
  BY <1>7, <1>8, <1>9

-----------------------------------------------------------------------------
(* One reference to every object *)

LEMMA QuietOneReference ==
  ASSUME TypeOK, OneReference, Quiet
  PROVE  OneReference'
<1> USE DEF jobVars, flagVars
<1>1. /\ UNCHANGED <<alive, executed, cur>>
      /\ wpc' = wpc \/ (wpc' \notin {"body", "push"} /\ wpc # "push" /\ Running' = Running)
      /\ wpc' = wpc => Running' = Running
  BY DEF Quiet, Running
<1>2. \A i \in 1 .. Len(queue') :
        Iteration(queue'[i]) => i \in 1 .. Len(queue) /\ queue'[i] = queue[i]
  BY DEF Quiet
<1>3. \A k \in Ticket : Queued(k) => Queued(k)'
  BY DEF Quiet, Queued, Refers
<1>4. \A k : Queued(k)' => Queued(k)
  BY <1>2 DEF Queued, Refers, Iteration
<1>5. \A i, j \in 1 .. Len(queue') :
        Iteration(queue'[i]) /\ Refers(queue'[j], queue'[i].job) => i = j
  BY <1>2 DEF OneReference, Refers, Iteration
<1>6. \A i \in 1 .. Len(queue') : Iteration(queue'[i]) => alive'[queue'[i].job]
  BY <1>1, <1>2 DEF OneReference
<1>7. QED
  BY <1>1, <1>3, <1>4, <1>5, <1>6 DEF OneReference

LEMMA FetchOneReference ==
  ASSUME TypeOK, OneReference, Taken
  PROVE  OneReference'
<1> USE DEF jobVars, flagVars, Taken
<1>1. \A i, j \in 1 .. Len(queue') :
        Iteration(queue'[i]) /\ Refers(queue'[j], queue'[i].job) => i = j
  BY DEF OneReference
<1>2. \A i \in 1 .. Len(queue') : Iteration(queue'[i]) => alive'[queue'[i].job]
  BY DEF OneReference
<1>3. Iteration(cur') => alive'[cur'.job] /\ ~Queued(cur.job)'
  <2> SUFFICES ASSUME Iteration(cur')
               PROVE  alive'[cur'.job] /\ ~Queued(cur.job)'
    OBVIOUS
  <2>1. \A i \in 1 .. Len(queue') : ~Refers(queue'[i], cur'.job)
    BY DEF OneReference
  <2>2. QED
    BY <2>1 DEF OneReference, Queued
<1>4. ASSUME NEW k \in Ticket, alive'[k]
      PROVE  k \in executed' /\ (Queued(k)' \/ (cur'.job = k /\ Iteration(cur')))
  <2>1. k \in executed /\ Queued(k)
    BY <1>4 DEF OneReference, Running
  <2>2. PICK i \in 1 .. Len(queue) : Refers(queue[i], k)
    BY <2>1 DEF Queued
  <2>3. CASE i = 1
    BY <2>1, <2>2, <2>3 DEF Refers, Iteration
  <2>4. CASE i # 1
    BY <2>1, <2>2, <2>4 DEF Queued
  <2>5. QED
    BY <2>3, <2>4
<1>5. QED
  BY <1>1, <1>2, <1>3, <1>4 DEF OneReference, Running

(* What the bodies do to the objects: RunCreate makes one or not, no other  *)
(* body does, and only an iteration or a creation goes on to queue another. *)
LEMMA BodyFrame ==
  ASSUME TypeOK, Body
  PROVE  /\ wpc = "body" /\ wpc' \in {"push", "check"}
         /\ UNCHANGED <<queue, stopRequested, cur, kind, ntimes, listenerVars>>
         /\ cur \in Task
         /\ \/ UNCHANGED <<alive, executed>> /\ (wpc' = "push" => Iteration(cur))
            \/ /\ ExecTask(cur) /\ executed' = executed \cup {cur.job}
               /\ \/ alive' = alive /\ wpc' = "check"
                  \/ alive' = [alive EXCEPT ![cur.job] = (wpc' = "push")]
<1> USE DEF Continue, Iterate, ExecTask, Iteration, listenerVars, jobVars
<1>1. cur \in Task
  BY DEF Body, RunReady, RunBreakOrConfig, RunCreate, RunStart, RunLoop, RunQuery,
         TypeOK, QueueTypeOK
<1>2. CASE RunReady \/ RunBreakOrConfig \/ RunQuery
  BY <1>1, <1>2 DEF RunReady, RunBreakOrConfig, RunQuery
<1>3. ASSUME NEW usable \in BOOLEAN, RunCreate(usable)
      PROVE  /\ wpc = "body" /\ wpc' \in {"push", "check"}
             /\ UNCHANGED <<queue, stopRequested, cur, kind, ntimes, listenerVars>>
             /\ ExecTask(cur) /\ executed' = executed \cup {cur.job}
             /\ alive' = [alive EXCEPT ![cur.job] = (wpc' = "push")]
  <2>1. usable = (wpc' = "push")
    BY <1>3 DEF RunCreate
  <2>2. QED
    BY <1>3, <2>1 DEF RunCreate
<1>4. ASSUME NEW s \in BOOLEAN, NEW o, RunStart(s, o)
      PROVE  /\ wpc = "body" /\ wpc' \in {"push", "check"}
             /\ UNCHANGED <<queue, stopRequested, cur, kind, ntimes, listenerVars>>
             /\ UNCHANGED <<alive, executed>> /\ Iteration(cur)
  BY <1>4 DEF RunStart
<1>5. ASSUME NEW o, RunLoop(o)
      PROVE  /\ wpc = "body" /\ wpc' \in {"push", "check"}
             /\ UNCHANGED <<queue, stopRequested, cur, kind, ntimes, listenerVars>>
             /\ UNCHANGED <<alive, executed>> /\ Iteration(cur)
  BY <1>5 DEF RunLoop
<1>6. QED
  BY <1>1, <1>2, <1>3, <1>4, <1>5 DEF Body

LEMMA BodyOneReference ==
  ASSUME TypeOK, InOrder, OneReference, Body
  PROVE  OneReference'
<1>1. /\ wpc = "body" /\ wpc' \in {"push", "check"} /\ UNCHANGED <<queue, cur>> /\ cur \in Task
      /\ Running /\ Running'
      /\ \A k : Queued(k)' = Queued(k)
  BY BodyFrame DEF Running, Queued
<1>2. CASE UNCHANGED <<alive, executed>> /\ (wpc' = "push" => Iteration(cur))
  BY <1>1, <1>2 DEF OneReference
<1>3. CASE /\ ExecTask(cur) /\ executed' = executed \cup {cur.job}
           /\ \/ alive' = alive /\ wpc' = "check"
              \/ alive' = [alive EXCEPT ![cur.job] = (wpc' = "push")]
  <2>1. /\ cur.job \in Ticket /\ cur.job \notin executed /\ ~Iteration(cur)
        /\ alive \in [Ticket -> BOOLEAN]
    BY <1>1, <1>3, TaskFields, TicketAssumption
       DEF ExecTask, InOrder, Iteration, Ticket, TypeOK, JobTypeOK, FlagTypeOK
  <2>2. /\ ~alive[cur.job]
        /\ \A k \in Ticket : k # cur.job => alive'[k] = alive[k]
        /\ alive'[cur.job] <=> wpc' = "push"
    BY <1>1, <1>3, <2>1 DEF OneReference
  <2>3. /\ \A i \in 1 .. Len(queue) : Iteration(queue[i]) => queue[i].job # cur.job
        /\ ~Queued(cur.job)
    BY <2>2 DEF OneReference, Queued, Refers, Iteration
  <2>4. \A i \in 1 .. Len(queue) : Iteration(queue[i]) => queue[i].job \in Ticket
    BY TaskFields DEF TypeOK, QueueTypeOK, Iteration
  <2>5. ASSUME NEW k \in Ticket, alive'[k]
        PROVE  k \in executed' /\ (Queued(k) \/ (cur.job = k /\ wpc' = "push"))
    <3>1. CASE k = cur.job
      BY <1>3, <2>2, <2>5, <3>1
    <3>2. CASE k # cur.job
      <4>1. alive[k] /\ k \in executed'
        BY <1>3, <2>2, <2>5, <3>2 DEF OneReference
      <4>2. Queued(k)
        BY <3>2, <4>1 DEF OneReference
      <4>3. QED
        BY <4>1, <4>2
    <3>3. QED
      BY <3>1, <3>2
  <2>6. \A i \in 1 .. Len(queue) : Iteration(queue[i]) => alive'[queue[i].job]
    BY <2>2, <2>3, <2>4 DEF OneReference
  <2>7. QED
    BY <1>1, <2>1, <2>2, <2>3, <2>5, <2>6 DEF OneReference
<1>4. QED
  BY <1>2, <1>3, BodyFrame

(* The reference moves from the worker into the queue ... *)
LEMMA PushTask ==
  ASSUME TypeOK, Push
  PROVE  LET t == MkTask(IF cur.op = "exec" THEN "start" ELSE "loop", cur.job, 0)
         IN  /\ AddTask(t) /\ t \in Task /\ Iteration(t)
             /\ t.job = cur.job /\ cur.job \in Ticket /\ cur \in Task
             /\ t.op = "start" <=> cur.op = "exec"
             /\ t.op = "loop" <=> cur.op # "exec"
<1>1. cur.job \in Ticket /\ cur \in Task
  BY DEF Push, TypeOK, QueueTypeOK
<1>2. QED
  BY <1>1, TaskFacts DEF Push, Iteration

LEMMA PushOneReference ==
  ASSUME TypeOK, OneReference, Push
  PROVE  OneReference'
<1> DEFINE t == MkTask(IF cur.op = "exec" THEN "start" ELSE "loop", cur.job, 0)
<1>1. t \in Task /\ AddTask(t) /\ Iteration(t) /\ t.job = cur.job /\ cur.job \in Ticket
  BY PushTask
<1> HIDE DEF t
<1>2. /\ wpc = "push" /\ wpc' = "check" /\ Running /\ Running'
      /\ UNCHANGED <<cur, alive, executed>>
  BY DEF Push, Running, jobVars, flagVars
<1>3. /\ \A i \in 1 .. Len(queue) : i \in 1 .. Len(queue') /\ queue'[i] = queue[i]
      /\ \A i \in 1 .. Len(queue') : i \in 1 .. Len(queue) \/ i = Len(queue) + 1
      /\ Len(queue) + 1 \in 1 .. Len(queue')
      /\ queue'[Len(queue) + 1] = t
  BY <1>1, QueueGrows
<1>4. alive[cur.job] /\ \A i \in 1 .. Len(queue) : ~Refers(queue[i], cur.job)
  BY <1>2 DEF OneReference, Queued
<1>5. \A i, j \in 1 .. Len(queue') :
        Iteration(queue'[i]) /\ Refers(queue'[j], queue'[i].job) => i = j
  BY <1>1, <1>3, <1>4 DEF OneReference, Refers, Iteration
<1>6. \A i \in 1 .. Len(queue') : Iteration(queue'[i]) => alive'[queue'[i].job]
  BY <1>1, <1>2, <1>3, <1>4 DEF OneReference
<1>7. \A k \in Ticket : Queued(k) => Queued(k)'
  BY <1>3 DEF Queued, Refers
<1>8. Queued(cur.job)'
  BY <1>1, <1>2, <1>3 DEF Queued, Refers, Iteration
<1>9. \A k \in Ticket : alive'[k] => k \in executed' /\ Queued(k)'
  BY <1>2, <1>7, <1>8 DEF OneReference
<1>10. QED
  BY <1>2, <1>4, <1>5, <1>6, <1>9 DEF OneReference

(* ... and with the last one the object dies. *)
LEMMA DropFrame ==
  ASSUME TypeOK, Drop
  PROVE  /\ wpc = "drop" /\ wpc' = "fetch" /\ Running /\ ~Running' /\ cur \in Task
         /\ UNCHANGED <<queue, registered, executed, events, replies, times, threshold, stored, lastScore>>
         /\ UNCHANGED listenerVars
         /\ \A k : Queued(k)' = Queued(k)
         /\ \A k \in Ticket : alive'[k] <=> alive[k] /\ ~(Refers(cur, k) /\ ~Queued(k))
         /\ alive' \in [Ticket -> BOOLEAN]
<1>1. /\ wpc = "drop" /\ wpc' = "fetch" /\ cur \in Task
      /\ alive \in [Ticket -> BOOLEAN]
      /\ UNCHANGED <<queue, registered, executed, events, replies, times, threshold, stored, lastScore>>
      /\ UNCHANGED listenerVars
  BY DEF Drop, DropTask, TypeOK, QueueTypeOK, JobTypeOK
<1>2. alive' = IF Refers(cur, cur.job) /\ ~Queued(cur.job)
                 THEN [alive EXCEPT ![cur.job] = FALSE] ELSE alive
  BY DEF Drop
<1>3. Refers(cur, cur.job) => cur.job \in Ticket
  BY <1>1, TaskFields DEF Refers
<1>4. \A k \in Ticket : Refers(cur, k) <=> Refers(cur, cur.job) /\ k = cur.job
  BY DEF Refers
<1>5. \A k \in Ticket : alive'[k] <=> alive[k] /\ ~(Refers(cur, k) /\ ~Queued(k))
  BY <1>1, <1>2, <1>3, <1>4
<1>6. alive' \in [Ticket -> BOOLEAN]
  BY <1>1, <1>2
<1>7. QED
  BY <1>1, <1>5, <1>6 DEF Running, Queued

LEMMA DropOneReference ==
  ASSUME TypeOK, OneReference, Drop
  PROVE  OneReference'
<1>1. /\ wpc = "drop" /\ wpc' = "fetch" /\ ~Running' /\ Running
      /\ UNCHANGED <<queue, executed>>
      /\ \A k : Queued(k)' = Queued(k)
      /\ \A k \in Ticket : alive'[k] <=> alive[k] /\ ~(Refers(cur, k) /\ ~Queued(k))
  BY DropFrame
<1>2. \A k \in Ticket : alive'[k] => k \in executed' /\ Queued(k)'
  BY <1>1 DEF OneReference, Refers, Iteration
<1>3. \A i \in 1 .. Len(queue') : Iteration(queue'[i]) => alive'[queue'[i].job]
  <2> SUFFICES ASSUME NEW i \in 1 .. Len(queue), Iteration(queue[i])
               PROVE  alive'[queue[i].job]
    BY <1>1
  <2>1. queue[i].job \in Ticket /\ alive[queue[i].job]
    BY TaskFields DEF TypeOK, QueueTypeOK, Iteration, OneReference
  <2>2. Queued(queue[i].job)
    BY DEF Queued, Refers, Iteration
  <2>3. QED
    BY <1>1, <2>1, <2>2
<1>4. QED
  BY <1>1, <1>2, <1>3 DEF OneReference

LEMMA NextOneReference ==
  TypeOK /\ InOrder /\ OwnerIsLast /\ OneReference /\ Next => OneReference'
<1> SUFFICES ASSUME TypeOK, InOrder, OwnerIsLast, OneReference, Next PROVE OneReference'
  OBVIOUS
<1>1. CASE WorkerStep(Fetch) /\ queue # <<>>
  BY <1>1, FetchTakes, FetchOneReference
<1>2. CASE Body
  BY <1>2, BodyOneReference
<1>3. CASE Push
  BY <1>3, PushOneReference
<1>4. CASE Drop
  BY <1>4, DropOneReference
<1>5. QED
  BY <1>1, <1>2, <1>3, <1>4, QuietSteps, QuietOneReference DEF Next, Worker

-----------------------------------------------------------------------------
(* The order of the iterations *)

LEMMA QuietStartsInOrder ==
  ASSUME StartsInOrder, Quiet
  PROVE  StartsInOrder'
<1> USE DEF jobVars, flagVars
<1>1. /\ UNCHANGED <<executed, cur>>
      /\ wpc' \in {"body", "push"} => wpc' = wpc
      /\ Running' <=> Running
  BY DEF Quiet, Running
<1>2. \A i \in 1 .. Len(queue') :
        Iteration(queue'[i]) => i \in 1 .. Len(queue) /\ queue'[i] = queue[i]
  BY DEF Quiet
<1>3. \A i \in 1 .. Len(queue') :
        queue'[i].op \in {"start", "loop"} => i \in 1 .. Len(queue) /\ queue'[i] = queue[i]
  BY <1>2 DEF Iteration
<1>4. \A i, j \in 1 .. Len(queue') :
        i < j /\ Iteration(queue'[i]) /\ Iteration(queue'[j]) =>
          /\ queue'[i].op = "start" => queue'[j].op = "start"
          /\ queue'[j].op = "start" => queue'[i].job < queue'[j].job
  BY <1>2 DEF StartsInOrder
<1>5. QED
  BY <1>1, <1>3, <1>4 DEF StartsInOrder, ExecTask, Iteration

LEMMA FetchStartsInOrder ==
  ASSUME StartsInOrder, Taken
  PROVE  StartsInOrder'
<1>1. wpc' = "body" /\ cur' = queue[1] /\ 1 \in 1 .. Len(queue)
  BY DEF Taken
<1>2. \A i \in 1 .. Len(queue') :
        1 < i + 1 /\ i + 1 \in 1 .. Len(queue) /\ queue'[i] = queue[i + 1]
  BY DEF Taken
<1>3. \A i, j \in 1 .. Len(queue) :
        i < j /\ Iteration(queue[i]) /\ Iteration(queue[j]) =>
          /\ queue[i].op = "start" => queue[j].op = "start"
          /\ queue[j].op = "start" => queue[i].job < queue[j].job
  BY DEF StartsInOrder
<1>4. ASSUME NEW i \in 1 .. Len(queue'), NEW j \in 1 .. Len(queue'),
             i < j, Iteration(queue'[i]), Iteration(queue'[j])
      PROVE  /\ queue'[i].op = "start" => queue'[j].op = "start"
             /\ queue'[j].op = "start" => queue'[i].job < queue'[j].job
  <2>1. i + 1 < j + 1
    BY <1>4 DEF Taken
  <2>2. QED
    BY <1>2, <1>3, <1>4, <2>1
<1>5. ASSUME NEW i \in 1 .. Len(queue'), Iteration(cur'), Iteration(queue'[i])
      PROVE  /\ queue'[i].op = "start" => cur'.job < queue'[i].job
             /\ cur'.op = "start" => queue'[i].op = "start"
  BY <1>1, <1>2, <1>3, <1>5
<1>6. \A i \in 1 .. Len(queue') :
        queue'[i].op = "start" \/ queue'[i].op = "loop" => Iteration(queue'[i])
  BY DEF Iteration
<1>7. cur'.op = "start" => Iteration(cur')
  BY DEF Iteration
<1>8. QED
  BY <1>1, <1>4, <1>5, <1>6, <1>7 DEF StartsInOrder

(* Only the latest command's loop goes on, and a creation is the latest. *)
LEMMA PushIsLatest ==
  ASSUME TypeOK, InOrder, IdsGrow, Body, wpc' = "push"
  PROVE  (ExecTask(cur) \/ Iteration(cur)) /\ \A k \in executed' : k <= cur.job
<1>1. /\ currentTaskId \in Nat /\ executed \subseteq Ticket /\ Ticket \subseteq Nat
      /\ wpc = "body" /\ cur \in Task
  BY BodyFrame, TicketAssumption DEF TypeOK, FlagTypeOK, Ticket
<1>2. cur.op \in {"exec", "start", "loop"} => cur.job \in Nat /\ cur.job \in Ticket
  BY <1>1, TaskFields
<1>3. ASSUME ExecTask(cur), executed' = executed \cup {cur.job}
      PROVE  \A k \in executed' : k <= cur.job
  BY <1>1, <1>2, <1>3 DEF InOrder, ExecTask
<1>4. ASSUME Iteration(cur), NEW o, Iterate(cur.job, o), executed' = executed
      PROVE  \A k \in executed' : k <= cur.job
  <2>1. currentTaskId = taskId[cur.job]
    BY <1>4 DEF Iterate, Continue, Superseded
  <2>2. \A k \in executed : ~(cur.job < k)
    BY <1>1, <1>2, <1>4, <2>1 DEF IdsGrow, Iteration
  <2>3. QED
    BY <1>1, <1>2, <1>4, <2>2 DEF Iteration
<1>5. CASE \E u \in BOOLEAN : RunCreate(u)
  BY <1>3, <1>5 DEF RunCreate, ExecTask
<1>6. CASE \E s \in BOOLEAN, o \in {"event", "quiet", "error"} : RunStart(s, o)
  BY <1>4, <1>6 DEF RunStart, Iteration, Continue
<1>7. CASE \E o \in {"event", "quiet", "error"} : RunLoop(o)
  BY <1>4, <1>7 DEF RunLoop, Iteration, Continue, flagVars
<1>8. CASE RunReady \/ RunBreakOrConfig \/ RunQuery
  BY <1>8 DEF RunReady, RunBreakOrConfig, RunQuery, Continue
<1>9. QED
  BY <1>5, <1>6, <1>7, <1>8 DEF Body

LEMMA BodyStartsInOrder ==
  ASSUME TypeOK, InOrder, IdsGrow, StartsInOrder, Body
  PROVE  StartsInOrder'
<1>1. wpc = "body" /\ wpc' \in {"push", "check"} /\ UNCHANGED <<queue, cur>> /\ Running
  BY BodyFrame DEF Running
<1>2. wpc' = "push" =>
        (ExecTask(cur) \/ Iteration(cur)) /\ \A k \in executed' : k <= cur.job
  BY PushIsLatest
<1>3. QED
  BY <1>1, <1>2 DEF StartsInOrder

LEMMA PushStartsInOrder ==
  ASSUME TypeOK, IterationsRan, OneReference, StartsInOrder, Push
  PROVE  StartsInOrder'
<1> DEFINE t == MkTask(IF cur.op = "exec" THEN "start" ELSE "loop", cur.job, 0)
<1>1. /\ t \in Task /\ AddTask(t) /\ Iteration(t) /\ t.job = cur.job /\ cur.job \in Ticket
      /\ t.op = "start" <=> cur.op = "exec"
      /\ t.op = "loop" <=> cur.op # "exec"
  BY PushTask
<1> HIDE DEF t
<1>2. /\ wpc = "push" /\ wpc' = "check" /\ Running /\ Running' /\ UNCHANGED cur
      /\ executed \subseteq Ticket /\ Ticket \subseteq Nat
  BY TicketAssumption DEF Push, Running, TypeOK, FlagTypeOK, Ticket
<1>3. /\ \A i \in 1 .. Len(queue) : i \in 1 .. Len(queue') /\ queue'[i] = queue[i]
      /\ \A i \in 1 .. Len(queue') : i \in 1 .. Len(queue) \/ i = Len(queue) + 1
      /\ queue'[Len(queue) + 1] = t
      /\ \A i \in 1 .. Len(queue') : ~(Len(queue) + 1 < i)
  BY <1>1, QueueGrows
<1>4. ASSUME NEW i \in 1 .. Len(queue), Iteration(queue[i])
      PROVE  /\ queue[i].job < cur.job
             /\ queue[i].op = "start" => ExecTask(cur)
  <2>1. queue[i].job \in executed /\ queue[i].job \in Nat /\ cur.job \in Nat
    BY <1>1, <1>2, <1>4 DEF IterationsRan, Iteration
  <2>2. queue[i].job # cur.job
    BY <1>2, <1>4 DEF OneReference, Queued, Refers, Iteration
  <2>3. queue[i].job < cur.job
    BY <1>2, <2>1, <2>2 DEF StartsInOrder
  <2>4. queue[i].op = "start" /\ Iteration(cur) => cur.job < queue[i].job
    BY <1>2 DEF StartsInOrder
  <2>5. QED
    BY <1>2, <2>1, <2>3, <2>4 DEF StartsInOrder
<1>5. ASSUME NEW i \in 1 .. Len(queue'), NEW j \in 1 .. Len(queue'),
             i < j, Iteration(queue'[i]), Iteration(queue'[j])
      PROVE  /\ queue'[i].op = "start" => queue'[j].op = "start"
             /\ queue'[j].op = "start" => queue'[i].job < queue'[j].job
  <2>1. i \in 1 .. Len(queue) /\ queue'[i] = queue[i]
    BY <1>3, <1>5
  <2>2. CASE j \in 1 .. Len(queue)
    BY <1>3, <1>5, <2>1, <2>2 DEF StartsInOrder
  <2>3. CASE j = Len(queue) + 1
    BY <1>1, <1>3, <1>4, <1>5, <2>1, <2>3 DEF ExecTask
  <2>4. QED
    BY <1>3, <2>2, <2>3
<1>6. Iteration(cur) =>
        \A i \in 1 .. Len(queue') : queue'[i].op = "start" => cur.job < queue'[i].job
  BY <1>1, <1>2, <1>3 DEF StartsInOrder, Iteration
<1>7. QED
  BY <1>2, <1>5, <1>6 DEF StartsInOrder

LEMMA NextStartsInOrder ==
  LInv /\ Next => StartsInOrder'
<1> SUFFICES ASSUME LInv, Next PROVE StartsInOrder'
  OBVIOUS
<1> USE DEF LInv, IInv
<1>1. CASE WorkerStep(Fetch) /\ queue # <<>>
  BY <1>1, FetchTakes, FetchStartsInOrder
<1>2. CASE Body
  BY <1>2, BodyStartsInOrder
<1>3. CASE Push
  BY <1>3, PushStartsInOrder
<1>4. CASE Drop
  <2>1. /\ wpc' = "fetch" /\ ~Running' /\ UNCHANGED queue
    BY <1>4, DropFrame
  <2>2. QED
    BY <2>1 DEF StartsInOrder
<1>5. QED
  BY <1>1, <1>2, <1>3, <1>4, QuietSteps, QuietStartsInOrder DEF Next, Worker

-----------------------------------------------------------------------------
(* Answers and events *)

Counts ==
  \A k \in Ticket :
    /\ replies[k] <= 1
    /\ ntimes[k] >= 0 => events[k] <= times[k] /\ events[k] <= ntimes[k]

LEMMA QuietAnswersOnce ==
  ASSUME TypeOK, AnswersOnce, Quiet
  PROVE  AnswersOnce'
<1> USE DEF jobVars, flagVars
<1>1. /\ UNCHANGED <<executed, cur, registered, replies, events, times>>
      /\ wpc' \in {"body", "push"} => wpc' = wpc
      /\ \A k : Fresh(k)' <=> Fresh(k)
  BY DEF Quiet, Fresh
<1>2. \A i \in 1 .. Len(queue') :
        queue'[i].op = "start" => i \in 1 .. Len(queue) /\ queue'[i] = queue[i]
  BY DEF Quiet, Iteration
<1>3. Counts'
  <2> SUFFICES ASSUME NEW k \in Ticket
               PROVE  /\ replies'[k] <= 1
                      /\ ntimes'[k] >= 0 => events'[k] <= times'[k] /\ events'[k] <= ntimes'[k]
    BY DEF Counts
  <2>1. replies[k] <= 1 /\ (ntimes[k] >= 0 => events[k] <= times[k] /\ events[k] <= ntimes[k])
    BY DEF AnswersOnce
  <2>2. CASE k \in executed
    BY <1>1, <2>1, <2>2 DEF Quiet
  <2>3. CASE k \notin executed
    <3>1. events[k] = 0 /\ times[k] \in Nat /\ ntimes'[k] \in Int
      BY <2>3 DEF AnswersOnce, Quiet, TypeOK, JobTypeOK
    <3>2. QED
      BY <1>1, <2>1, <3>1
  <2>4. QED
    BY <2>2, <2>3
<1>4. QED
  BY <1>1, <1>2, <1>3 DEF AnswersOnce, Counts

LEMMA FetchAnswersOnce ==
  ASSUME AnswersOnce, Taken
  PROVE  AnswersOnce'
<1>1. /\ wpc' = "body" /\ cur' = queue[1] /\ 1 \in 1 .. Len(queue)
      /\ UNCHANGED <<executed, registered, replies, events, times, ntimes>>
      /\ \A k : Fresh(k)' <=> Fresh(k)
  BY DEF Taken, jobVars, flagVars, listenerVars, Fresh
<1>2. \A i \in 1 .. Len(queue') : i + 1 \in 1 .. Len(queue) /\ queue'[i] = queue[i + 1]
  BY DEF Taken
<1>3. QED
  BY <1>1, <1>2 DEF AnswersOnce

(* An iteration counts before it speaks, and speaks only below the count. *)
LEMMA IterateCounts ==
  ASSUME TypeOK, Counts, NEW j \in Ticket, NEW o, Iterate(j, o), ntimes' = ntimes
  PROVE  \A k \in Ticket :
           ntimes'[k] >= 0 => events'[k] <= times'[k] /\ events'[k] <= ntimes'[k]
<1> SUFFICES ASSUME NEW k \in Ticket, ntimes[k] >= 0
             PROVE  events'[k] <= times'[k] /\ events'[k] <= ntimes[k]
  OBVIOUS
<1>1. /\ times \in [Ticket -> Nat] /\ events \in [Ticket -> Nat] /\ ntimes[k] \in Int
      /\ times[k] \in Nat /\ events[k] \in Nat
  BY DEF TypeOK, JobTypeOK, ListenerTypeOK
<1>2. events[k] <= times[k] /\ events[k] <= ntimes[k]
  BY DEF Counts
<1>3. CASE k # j
  <2>1. times'[k] = times[k] /\ events'[k] = events[k]
    BY <1>1, <1>3 DEF Iterate
  <2>2. QED
    BY <1>2, <2>1
<1>4. CASE k = j
  <2>1. times'[k] = times[k] + 1
    BY <1>1, <1>4 DEF Iterate
  <2>2. \/ events'[k] = events[k]
        \/ events'[k] = events[k] + 1 /\ ~Exhausted(k)
    BY <1>1, <1>4 DEF Iterate
  <2>3. ~Exhausted(k) => times[k] < ntimes[k]
    BY <1>1 DEF Exhausted
  <2>4. QED
    BY <1>1, <1>2, <2>1, <2>2, <2>3
<1>5. QED
  BY <1>3, <1>4

(* What a body does to the counters of other tickets than its own. *)
LEMMA BodyOthers ==
  ASSUME TypeOK, Body
  PROVE  /\ \A k \in Ticket : k # cur.job =>
              /\ replies'[k] = replies[k] /\ registered'[k] = registered[k]
              /\ events'[k] = events[k] /\ times'[k] = times[k]
         /\ cur.job \notin Ticket => UNCHANGED <<replies, registered, events, times>>
<1> USE DEF jobVars
<1>1. /\ replies \in [Ticket -> Nat] /\ registered \in [Ticket -> BOOLEAN]
      /\ events \in [Ticket -> Nat] /\ times \in [Ticket -> Nat]
  BY DEF TypeOK, JobTypeOK
<1>2. CASE RunReady \/ RunQuery
  BY <1>2 DEF RunReady, RunQuery
<1>3. CASE RunBreakOrConfig
  BY <1>1, <1>3 DEF RunBreakOrConfig
<1>4. CASE \E u \in BOOLEAN : RunCreate(u)
  BY <1>1, <1>4 DEF RunCreate
<1>5. ASSUME NEW s \in BOOLEAN, NEW o, RunStart(s, o)
      PROVE  /\ \A k \in Ticket : k # cur.job =>
                  /\ replies'[k] = replies[k] /\ registered'[k] = registered[k]
                  /\ events'[k] = events[k] /\ times'[k] = times[k]
             /\ cur.job \notin Ticket => UNCHANGED <<replies, registered, events, times>>
  <2>1. \/ UNCHANGED <<times, events>>
        \/ Iterate(cur.job, o)
    BY <1>5 DEF RunStart
  <2>2. /\ \A k \in Ticket : k # cur.job => events'[k] = events[k] /\ times'[k] = times[k]
        /\ cur.job \notin Ticket => UNCHANGED <<events, times>>
    BY <1>1, <2>1 DEF Iterate
  <2>3. QED
    BY <1>1, <1>5, <2>2 DEF RunStart
<1>6. ASSUME NEW o, RunLoop(o)
      PROVE  /\ \A k \in Ticket : k # cur.job =>
                  /\ replies'[k] = replies[k] /\ registered'[k] = registered[k]
                  /\ events'[k] = events[k] /\ times'[k] = times[k]
             /\ cur.job \notin Ticket => UNCHANGED <<replies, registered, events, times>>
  <2>1. UNCHANGED <<replies, registered>>
    BY <1>6 DEF RunLoop
  <2>2. \/ UNCHANGED <<times, events>>
        \/ Iterate(cur.job, o)
    BY <1>6 DEF RunLoop
  <2>3. QED
    BY <1>1, <2>1, <2>2 DEF Iterate
<1>7. QED
  BY <1>2, <1>3, <1>4, <1>5, <1>6 DEF Body

(* What a body does to the counters of its own ticket. *)
LEMMA BodyOwn ==
  ASSUME TypeOK, IterationsRan, InOrder, AnswersOnce, Body, NEW k \in Ticket, k = cur.job
  PROVE  /\ replies'[k] <= 1
         /\ ntimes[k] >= 0 => events'[k] <= times'[k] /\ events'[k] <= ntimes[k]
         /\ k \in executed' \/ (Fresh(k)' /\ events'[k] = 0)
         /\ wpc' = "push" /\ cur.op = "exec" => Fresh(k)'
<1> USE DEF jobVars
<1>1. /\ replies \in [Ticket -> Nat] /\ registered \in [Ticket -> BOOLEAN]
      /\ events \in [Ticket -> Nat] /\ times \in [Ticket -> Nat]
      /\ wpc = "body"
  BY BodyFrame DEF TypeOK, JobTypeOK
<1>2. /\ replies[k] <= 1
      /\ ntimes[k] >= 0 => events[k] <= times[k] /\ events[k] <= ntimes[k]
      /\ Counts
  BY DEF AnswersOnce, Counts
<1>3. executed \subseteq Nat
  BY TicketAssumption DEF TypeOK, FlagTypeOK, Ticket
<1>4. ExecTask(cur) => Fresh(k) /\ events[k] = 0
  <2>1. ExecTask(cur) => \A j \in executed : j < k
    BY <1>1 DEF InOrder
  <2>2. ExecTask(cur) => k \notin executed
    <3>1. k \in Nat /\ ~(k < k)
      BY TicketAssumption DEF Ticket
    <3>2. QED
      BY <2>1, <3>1
  <2>3. QED
    BY <2>2 DEF AnswersOnce
<1>5. cur.op = "start" => Fresh(k)
  BY <1>1 DEF AnswersOnce
<1>6. Iteration(cur) => k \in executed
  BY <1>1 DEF IterationsRan, TypeOK, QueueTypeOK, Iteration
<1>7. CASE RunReady \/ RunQuery
  <2>1. UNCHANGED <<executed, replies, registered, events, times>> /\ wpc' # "push"
    BY <1>7 DEF RunReady, RunQuery, Continue
  <2>2. QED
    BY <1>2, <2>1 DEF AnswersOnce, Fresh
<1>8. CASE RunBreakOrConfig
  <2>1. /\ ExecTask(cur) /\ replies'[k] = replies[k] + 1 /\ k \in executed' /\ wpc' # "push"
        /\ UNCHANGED <<events, times>>
    BY <1>1, <1>8 DEF RunBreakOrConfig, Continue, ExecTask
  <2>2. QED
    BY <1>2, <1>4, <2>1 DEF Fresh
<1>9. ASSUME NEW u \in BOOLEAN, RunCreate(u)
      PROVE  /\ replies'[k] <= 1 /\ UNCHANGED <<events, times>> /\ k \in executed'
             /\ wpc' = "push" /\ cur.op = "exec" => Fresh(k)'
  <2>1. /\ ExecTask(cur) /\ k \in executed' /\ UNCHANGED <<events, times, registered>>
        /\ replies'[k] = IF u THEN replies[k] ELSE replies[k] + 1
        /\ wpc' = IF u THEN "push" ELSE "check"
    BY <1>1, <1>9 DEF RunCreate, Continue, ExecTask
  <2>2. QED
    BY <1>2, <1>4, <2>1 DEF Fresh
<1>10. ASSUME NEW s \in BOOLEAN, NEW o, RunStart(s, o)
       PROVE  /\ replies'[k] <= 1 /\ k \in executed' /\ cur.op = "start"
              /\ ntimes[k] >= 0 => events'[k] <= times'[k] /\ events'[k] <= ntimes[k]
  <2>1. cur.op = "start" /\ replies'[k] = replies[k] + 1 /\ executed' = executed /\ ntimes' = ntimes
    BY <1>1, <1>10 DEF RunStart, listenerVars
  <2>2. k \in executed'
    BY <1>6, <2>1 DEF Iteration
  <2>3. Iterate(k, o) \/ UNCHANGED <<times, events>>
    BY <1>10 DEF RunStart
  <2>4. ntimes[k] >= 0 => events'[k] <= times'[k] /\ events'[k] <= ntimes[k]
    BY <1>2, <2>1, <2>3, IterateCounts
  <2>5. QED
    BY <1>5, <2>1, <2>2, <2>4 DEF Fresh
<1>11. ASSUME NEW o, RunLoop(o)
       PROVE  /\ replies'[k] <= 1 /\ k \in executed' /\ cur.op = "loop"
              /\ ntimes[k] >= 0 => events'[k] <= times'[k] /\ events'[k] <= ntimes[k]
  <2>1. cur.op = "loop" /\ replies' = replies /\ executed' = executed /\ ntimes' = ntimes
    BY <1>11 DEF RunLoop, listenerVars
  <2>2. k \in executed'
    BY <1>6, <2>1 DEF Iteration
  <2>3. Iterate(k, o) \/ UNCHANGED <<times, events>>
    BY <1>11 DEF RunLoop
  <2>4. ntimes[k] >= 0 => events'[k] <= times'[k] /\ events'[k] <= ntimes[k]
    BY <1>2, <2>1, <2>3, IterateCounts
  <2>5. QED
    BY <1>2, <2>1, <2>2, <2>4
<1>12. CASE \E u \in BOOLEAN : RunCreate(u)
  BY <1>2, <1>9, <1>12
<1>13. CASE \E s \in BOOLEAN, o \in {"event", "quiet", "error"} : RunStart(s, o)
  BY <1>10, <1>13
<1>14. CASE \E o \in {"event", "quiet", "error"} : RunLoop(o)
  BY <1>11, <1>14
<1>15. QED
  BY <1>7, <1>8, <1>12, <1>13, <1>14 DEF Body

LEMMA BodyAnswersOnce ==
  ASSUME TypeOK, IterationsRan, InOrder, OneReference, AnswersOnce, Body
  PROVE  AnswersOnce'
<1>1. /\ wpc = "body" /\ wpc' \in {"push", "check"} /\ UNCHANGED <<queue, cur, ntimes>>
      /\ executed \subseteq executed' /\ cur \in Task
      /\ executed \subseteq Nat
  BY BodyFrame, TicketAssumption DEF TypeOK, FlagTypeOK, Ticket
<1>2. /\ \A k \in Ticket : k # cur.job =>
           /\ replies'[k] = replies[k] /\ registered'[k] = registered[k]
           /\ events'[k] = events[k] /\ times'[k] = times[k]
      /\ cur.job \notin Ticket => UNCHANGED <<replies, registered, events, times>>
  BY BodyOthers
<1>3. \A k \in Ticket : k # cur.job => (Fresh(k)' <=> Fresh(k))
  BY <1>2 DEF Fresh
<1>4. \A k \in Ticket \ executed' : Fresh(k)' /\ events'[k] = 0
  <2> SUFFICES ASSUME NEW k \in Ticket \ executed'
               PROVE  Fresh(k)' /\ events'[k] = 0
    OBVIOUS
  <2>1. CASE k = cur.job
    BY <2>1, BodyOwn
  <2>2. CASE k # cur.job
    BY <1>1, <1>2, <1>3, <2>2 DEF AnswersOnce
  <2>3. QED
    BY <2>1, <2>2
<1>5. ASSUME NEW i \in 1 .. Len(queue), queue[i].op = "start", NEW k, k = queue[i].job
      PROVE  Fresh(k)'
  <2>1. k \in Ticket /\ k \in executed /\ Fresh(k)
    BY <1>5, TaskFields DEF TypeOK, QueueTypeOK, IterationsRan, AnswersOnce
  <2>2. CASE k # cur.job
    BY <1>3, <2>1, <2>2
  <2>3. CASE k = cur.job
    <3>1. ~Iteration(cur)
      BY <1>1, <1>5, <2>3 DEF OneReference, Queued, Refers
    <3>2. ExecTask(cur) => \A j \in executed : j < k
      BY <1>1, <2>3 DEF InOrder
    <3>3. ~ExecTask(cur)
      BY <1>1, <2>1, <3>2
    <3>4. RunReady \/ RunQuery
      BY <3>1, <3>3 DEF Body, RunBreakOrConfig, RunCreate, RunStart, RunLoop, ExecTask, Iteration
    <3>5. UNCHANGED <<replies, registered>>
      BY <3>4 DEF RunReady, RunQuery, jobVars
    <3>6. QED
      BY <2>1, <3>5 DEF Fresh
  <2>4. QED
    BY <2>2, <2>3
<1>6. \A k \in Ticket :
        /\ replies'[k] <= 1
        /\ ntimes'[k] >= 0 => events'[k] <= times'[k] /\ events'[k] <= ntimes'[k]
  <2> SUFFICES ASSUME NEW k \in Ticket
               PROVE  /\ replies'[k] <= 1
                      /\ ntimes[k] >= 0 => events'[k] <= times'[k] /\ events'[k] <= ntimes[k]
    BY <1>1
  <2>1. CASE k = cur.job
    BY <2>1, BodyOwn
  <2>2. CASE k # cur.job
    BY <1>2, <2>2 DEF AnswersOnce
  <2>3. QED
    BY <2>1, <2>2
<1>7. wpc' = "push" /\ cur.op = "exec" => Fresh(cur.job)'
  <2> SUFFICES ASSUME wpc' = "push", cur.op = "exec", NEW k, k = cur.job
               PROVE  Fresh(k)'
    BY <1>1
  <2>1. k \in Ticket
    BY <1>1, TaskFields
  <2>2. QED
    BY <2>1, BodyOwn
<1>8. QED
  BY <1>1, <1>4, <1>5, <1>6, <1>7 DEF AnswersOnce

LEMMA PushAnswersOnce ==
  ASSUME TypeOK, AnswersOnce, Push
  PROVE  AnswersOnce'
<1> DEFINE t == MkTask(IF cur.op = "exec" THEN "start" ELSE "loop", cur.job, 0)
<1>1. /\ t \in Task /\ AddTask(t) /\ t.job = cur.job
      /\ t.op = "start" <=> cur.op = "exec"
  BY PushTask
<1> HIDE DEF t
<1>2. /\ wpc = "push" /\ wpc' = "check"
      /\ UNCHANGED <<cur, executed, replies, registered, events, times, ntimes>>
      /\ \A k : Fresh(k)' <=> Fresh(k)
  BY DEF Push, jobVars, flagVars, listenerVars, Fresh
<1>3. /\ \A i \in 1 .. Len(queue) : queue'[i] = queue[i]
      /\ \A i \in 1 .. Len(queue') : i \in 1 .. Len(queue) \/ i = Len(queue) + 1
      /\ queue'[Len(queue) + 1] = t
  BY <1>1, QueueGrows
<1>4. \A i \in 1 .. Len(queue') : queue'[i].op = "start" => Fresh(queue'[i].job)
  BY <1>1, <1>2, <1>3 DEF AnswersOnce
<1>5. QED
  BY <1>2, <1>4 DEF AnswersOnce

LEMMA NextAnswersOnce ==
  LInv /\ Next => AnswersOnce'
<1> SUFFICES ASSUME LInv, Next PROVE AnswersOnce'
  OBVIOUS
<1> USE DEF LInv, IInv
<1>1. CASE WorkerStep(Fetch) /\ queue # <<>>
  BY <1>1, FetchTakes, FetchAnswersOnce
<1>2. CASE Body
  BY <1>2, BodyAnswersOnce
<1>3. CASE Push
  BY <1>3, PushAnswersOnce
<1>4. CASE Drop
  <2>1. /\ wpc' = "fetch"
        /\ UNCHANGED <<queue, registered, executed, events, replies, times, ntimes>>
    BY <1>4, DropFrame DEF listenerVars
  <2>2. QED
    BY <2>1 DEF AnswersOnce, Fresh
<1>5. QED
  BY <1>1, <1>2, <1>3, <1>4, QuietSteps, QuietAnswersOnce DEF Next, Worker

-----------------------------------------------------------------------------
(* The flags *)

LEMMA NextFlagsHaveObjects ==
  LInv /\ Next => FlagsHaveObjects'
<1> SUFFICES ASSUME LInv, Next PROVE FlagsHaveObjects'
  OBVIOUS
<1> USE DEF LInv, IInv
<1>1. \A k \in Ticket : alive[k] => k \in executed
  BY DEF OneReference
<1>2. ASSUME UNCHANGED <<alive, isInvoke, isSample>>,
             \A k \in executed : kind'[k] = kind[k]
      PROVE  FlagsHaveObjects'
  BY <1>1, <1>2 DEF FlagsHaveObjects
<1>3. CASE Quiet
  BY <1>2, <1>3 DEF Quiet, jobVars, flagVars
<1>4. CASE WorkerStep(Fetch) /\ queue # <<>>
  BY <1>2, <1>4 DEF WorkerStep, jobVars, flagVars, listenerVars
<1>5. ASSUME NEW u \in BOOLEAN, RunCreate(u)
      PROVE  FlagsHaveObjects'
  <2>1. /\ wpc = "body" /\ ExecTask(cur) /\ kind' = kind /\ kind[cur.job] \in {"invoke", "sample"}
        /\ alive' = [alive EXCEPT ![cur.job] = u]
        /\ isInvoke' = IF kind[cur.job] = "invoke" THEN u ELSE isInvoke
        /\ isSample' = IF kind[cur.job] = "sample" THEN u ELSE isSample
    BY <1>5 DEF RunCreate, Raise, listenerVars, ExecTask
  <2>2. cur.job \in Ticket /\ alive \in [Ticket -> BOOLEAN] /\ executed \subseteq Nat
    BY <2>1, TaskFields, TicketAssumption
       DEF ExecTask, TypeOK, QueueTypeOK, JobTypeOK, FlagTypeOK, Ticket
  <2>3. \A j \in executed : j < cur.job
    BY <2>1 DEF InOrder
  <2>4. cur.job \notin executed
    <3>1. cur.job \in Nat /\ ~(cur.job < cur.job)
      BY <2>2, TicketAssumption DEF Ticket
    <3>2. QED
      BY <2>3, <3>1
  <2>5. /\ ~alive[cur.job] /\ alive'[cur.job] = u
        /\ \A k \in Ticket : alive[k] => alive'[k]
    BY <1>1, <2>1, <2>2, <2>4
  <2>6. QED
    BY <2>1, <2>2, <2>5 DEF FlagsHaveObjects
<1>6. CASE \/ RunReady \/ RunBreakOrConfig \/ RunQuery
           \/ \E s \in BOOLEAN, o \in {"event", "quiet", "error"} : RunStart(s, o)
           \/ \E o \in {"event", "quiet", "error"} : RunLoop(o)
  <2>1. UNCHANGED <<alive, isInvoke, isSample, kind>>
    BY <1>6 DEF RunReady, RunBreakOrConfig, RunQuery, RunStart, RunLoop, jobVars, listenerVars
  <2>2. QED
    BY <1>2, <2>1
<1>7. CASE Push
  BY <1>2, <1>7 DEF Push, jobVars, flagVars, listenerVars
<1>8. CASE Drop
  <2>1. \A k \in Ticket : alive'[k] <=> alive[k] /\ ~(Refers(cur, k) /\ ~Queued(k))
    BY <1>8, DropFrame
  <2>2. LET dies == Refers(cur, cur.job) /\ ~Queued(cur.job)
        IN  /\ isInvoke' = IF dies /\ kind[cur.job] = "invoke" THEN FALSE ELSE isInvoke
            /\ isSample' = IF dies /\ kind[cur.job] = "sample" THEN FALSE ELSE isSample
            /\ kind' = kind
    BY <1>8 DEF Drop, Lower, listenerVars
  <2>3. \A k \in Ticket : Refers(cur, k) => k = cur.job
    BY DEF Refers
  <2>4. QED
    BY <2>1, <2>2, <2>3 DEF FlagsHaveObjects
<1>9. QED
  BY <1>3, <1>4, <1>5, <1>6, <1>7, <1>8, QuietSteps DEF Next, Worker, Body

-----------------------------------------------------------------------------
(* The registry *)

LEMMA QuietOwnerIsLast ==
  ASSUME OwnerIsLast, Quiet
  PROVE  OwnerIsLast'
<1> USE DEF jobVars, configVars
<1>1. /\ UNCHANGED <<cur, alive, registered, owner, threshold, stored, lastScore>>
      /\ wpc' = "body" => wpc = "body"
  BY DEF Quiet
<1>2. \A i \in 1 .. Len(queue') :
        queue'[i].op = "start" => i \in 1 .. Len(queue) /\ queue'[i] = queue[i]
  BY DEF Quiet, Iteration
<1>3. \A i \in 1 .. Len(queue') : ScoreQuery(queue'[i]) => registered[queue'[i].job]
  BY DEF Quiet, OwnerIsLast
<1>4. QED
  BY <1>1, <1>2, <1>3 DEF OwnerIsLast

LEMMA FetchOwnerIsLast ==
  ASSUME OwnerIsLast, Taken
  PROVE  OwnerIsLast'
<1>1. /\ cur' = queue[1] /\ 1 \in 1 .. Len(queue)
      /\ UNCHANGED <<alive, registered, owner, threshold, stored, lastScore>>
  BY DEF Taken, jobVars, configVars
<1>2. \A i \in 1 .. Len(queue') : i + 1 \in 1 .. Len(queue) /\ queue'[i] = queue[i + 1]
  BY DEF Taken
<1>3. QED
  BY <1>1, <1>2 DEF OwnerIsLast

LEMMA PushOwnerIsLast ==
  ASSUME TypeOK, AnswersOnce, StartsInOrder, OwnerIsLast, Push
  PROVE  OwnerIsLast'
<1> DEFINE t == MkTask(IF cur.op = "exec" THEN "start" ELSE "loop", cur.job, 0)
<1>1. /\ t \in Task /\ AddTask(t) /\ t.job = cur.job /\ cur.job \in Ticket /\ Iteration(t)
      /\ t.op = "start" <=> cur.op = "exec"
  BY PushTask
<1> HIDE DEF t
<1>2. /\ wpc = "push" /\ wpc' = "check"
      /\ UNCHANGED <<alive, registered, owner, threshold, stored, lastScore>>
  BY DEF Push, jobVars, configVars
<1>3. /\ \A i \in 1 .. Len(queue) : queue'[i] = queue[i]
      /\ \A i \in 1 .. Len(queue') : i \in 1 .. Len(queue) \/ i = Len(queue) + 1
      /\ queue'[Len(queue) + 1] = t
  BY <1>1, QueueGrows
<1>4. ASSUME NEW k \in Ticket, registered[k], cur.op = "exec"
      PROVE  k < cur.job
  <2>1. k \in executed /\ k # cur.job
    BY <1>2, <1>4 DEF AnswersOnce, Fresh
  <2>2. k <= cur.job
    BY <1>2, <2>1 DEF StartsInOrder
  <2>3. k \in Nat /\ cur.job \in Nat
    BY <1>1, TicketAssumption DEF Ticket
  <2>4. QED
    BY <2>1, <2>2, <2>3
<1>5. ASSUME NEW k \in Ticket, registered[k], NEW i \in 1 .. Len(queue'), queue'[i].op = "start"
      PROVE  k < queue'[i].job
  BY <1>1, <1>3, <1>4, <1>5 DEF OwnerIsLast
<1>6. \A i \in 1 .. Len(queue') : ScoreQuery(queue'[i]) => registered[queue'[i].job]
  BY <1>1, <1>3 DEF OwnerIsLast, ScoreQuery, Iteration
<1>7. QED
  BY <1>2, <1>5, <1>6 DEF OwnerIsLast

LEMMA DropOwnerIsLast ==
  ASSUME TypeOK, OneReference, OwnerIsLast, Drop
  PROVE  OwnerIsLast'
<1>1. /\ wpc' = "fetch" /\ UNCHANGED <<queue, registered, threshold, stored, lastScore>>
      /\ cur \in Task
      /\ \A k \in Ticket : alive'[k] <=> alive[k] /\ ~(Refers(cur, k) /\ ~Queued(k))
      /\ wpc = "drop" /\ Running
  BY DropFrame
<1>2. owner' = IF Refers(cur, cur.job) /\ ~Queued(cur.job)
                 THEN IF registered[cur.job] THEN 0 ELSE owner ELSE owner
  BY DEF Drop, ResetConfigCmds
<1>3. 0 \notin Ticket /\ owner \in Ticket \cup {0}
  BY TicketAssumption DEF Ticket, TypeOK, ConfigTypeOK
<1>4. Refers(cur, cur.job) => cur.job \in Ticket /\ alive[cur.job]
  BY <1>1, TaskFields DEF Refers, OneReference, Iteration
<1>5. \A k \in Ticket : owner' = k <=> alive'[k] /\ registered[k]
  BY <1>1, <1>2, <1>3, <1>4 DEF OwnerIsLast, Refers
<1>6. owner' = 0 \/ owner' = owner
  BY <1>2
<1>7. QED
  BY <1>1, <1>5, <1>6 DEF OwnerIsLast

(* When a loop starts, no object that has registered is left: it would have *)
(* an iteration queued behind the start, and only starts are.               *)
LEMMA StartFindsNone ==
  ASSUME TypeOK, OneReference, StartsInOrder, AnswersOnce, OwnerIsLast,
         wpc = "body", cur.op = "start"
  PROVE  /\ owner = 0
         /\ \A k \in Ticket : ~(alive[k] /\ registered[k])
<1>1. ASSUME NEW k \in Ticket, alive[k], registered[k]
      PROVE  FALSE
  <2>1. cur.job # k
    BY <1>1 DEF AnswersOnce, Fresh
  <2>2. Queued(k)
    BY <1>1, <2>1 DEF OneReference
  <2>3. PICK i \in 1 .. Len(queue) : Refers(queue[i], k)
    BY <2>2 DEF Queued
  <2>4. queue[i].op = "start"
    BY <2>3 DEF StartsInOrder, Refers
  <2>5. QED
    BY <1>1, <2>3, <2>4 DEF AnswersOnce, Fresh, Refers
<1>2. owner \in Ticket \cup {0}
  BY DEF TypeOK, ConfigTypeOK
<1>3. QED
  BY <1>1, <1>2 DEF OwnerIsLast

LEMMA StartOwnerIsLast ==
  ASSUME LInv, NEW s \in BOOLEAN, NEW o, RunStart(s, o)
  PROVE  OwnerIsLast'
<1> USE DEF LInv, IInv
<1> DEFINE configures == s /\ kind[cur.job] = "invoke"
<1>1. /\ wpc = "body" /\ cur.op = "start" /\ wpc' \in {"push", "check"} /\ cur \in Task
      /\ Iteration(cur)
      /\ UNCHANGED <<queue, cur, alive>>
      /\ registered' = [registered EXCEPT ![cur.job] = configures]
      /\ owner' = IF configures THEN cur.job ELSE owner
      /\ configures => \E writes \in BOOLEAN : Configure(cur.job, writes)
  BY DEF RunStart, Iterate, Continue, TypeOK, QueueTypeOK, Iteration
<1>2. cur.job \in Ticket
  BY <1>1, TaskFields
<1>3. /\ registered \in [Ticket -> BOOLEAN] /\ threshold \in [Ticket -> Nat]
      /\ Ticket \subseteq Nat /\ 0 \notin Ticket
  BY TicketAssumption DEF TypeOK, JobTypeOK, ConfigTypeOK, Ticket
<1>4. /\ owner = 0
      /\ \A k \in Ticket : ~(alive[k] /\ registered[k])
  BY <1>1, StartFindsNone
<1>5. ~registered[cur.job] /\ alive[cur.job]
  BY <1>1 DEF AnswersOnce, Fresh, OneReference, Running
<1>6. \A k \in Ticket : registered'[k] <=> registered[k] \/ (k = cur.job /\ configures)
  BY <1>1, <1>2, <1>3, <1>5
<1>7. \A k \in Ticket : registered[k] => k < cur.job
  BY <1>1 DEF OwnerIsLast
<1>8. \A k \in Ticket : owner' = k <=> alive'[k] /\ registered'[k]
  BY <1>1, <1>3, <1>4, <1>5, <1>6
<1>9. ASSUME NEW k \in Ticket, registered'[k]
      PROVE  /\ owner' # 0 => k <= owner'
             /\ \A i \in 1 .. Len(queue') : queue'[i].op = "start" => k < queue'[i].job
  <2>1. k \in Nat /\ cur.job \in Nat
    BY <1>2, <1>3
  <2>2. k <= cur.job
    BY <1>6, <1>7, <1>9, <2>1
  <2>3. owner' # 0 => owner' = cur.job
    BY <1>1, <1>4
  <2>4. \A i \in 1 .. Len(queue) : queue[i].op = "start" => k < queue[i].job
    BY <1>1, <1>6, <1>9 DEF OwnerIsLast, StartsInOrder, Running
  <2>5. QED
    BY <1>1, <2>2, <2>3, <2>4
<1>10. \A i \in 1 .. Len(queue') : ScoreQuery(queue'[i]) => registered'[queue'[i].job]
  <2>1. \A i \in 1 .. Len(queue) : ScoreQuery(queue[i]) => queue[i].job \in Ticket
    BY TaskFields DEF TypeOK, QueueTypeOK, ScoreQuery
  <2>2. QED
    BY <1>1, <1>6, <2>1 DEF OwnerIsLast
<1>11. owner' # 0 /\ lastScore' = "saved" => threshold'[owner'] = stored'
  <2>1. configures /\ lastScore' = "saved" => threshold'[cur.job] = stored'
    BY <1>1, <1>2, <1>3 DEF Configure
  <2>2. QED
    BY <1>1, <1>4, <2>1
<1>12. QED
  BY <1>1, <1>8, <1>9, <1>10, <1>11 DEF OwnerIsLast

LEMMA CreateOwnerIsLast ==
  ASSUME LInv, NEW u \in BOOLEAN, RunCreate(u)
  PROVE  OwnerIsLast'
<1> USE DEF LInv, IInv
<1>1. /\ wpc = "body" /\ ExecTask(cur) /\ wpc' \in {"push", "check"} /\ cur \in Task
      /\ UNCHANGED <<queue, cur, stored, registered, owner, threshold, lastScore>>
      /\ alive' = [alive EXCEPT ![cur.job] = u]
  BY DEF RunCreate, Continue, TypeOK, QueueTypeOK, ExecTask, configVars
<1>2. cur.job \in Ticket /\ ~(cur.job < cur.job)
  BY <1>1, TaskFields, TicketAssumption DEF ExecTask, Ticket
<1>3. cur.job \notin executed
  <2>1. \A j \in executed : j < cur.job
    BY <1>1 DEF InOrder
  <2>2. QED
    BY <1>2, <2>1
<1>4. ~registered[cur.job]
  BY <1>2, <1>3 DEF AnswersOnce, Fresh
<1>5. \A k \in Ticket : alive'[k] /\ registered[k] <=> alive[k] /\ registered[k]
  BY <1>1, <1>2, <1>4 DEF TypeOK, JobTypeOK
<1>6. QED
  BY <1>1, <1>5 DEF OwnerIsLast

(* A TSCORE of the owner that can be stored stores what it sets; a late one *)
(* leaves the owner's threshold alone and says so if it is stored.          *)
LEMMA QueryOwnerIsLast ==
  ASSUME LInv, RunQuery
  PROVE  OwnerIsLast'
<1> USE DEF LInv, IInv
<1>1. /\ wpc = "body" /\ wpc' = "check" /\ cur \in Task
      /\ UNCHANGED <<queue, cur, alive, registered, owner>>
      /\ \/ /\ cur.op = "tscore"
            /\ \E writes \in BOOLEAN : SetScore(cur.job, cur.val, writes)
         \/ UNCHANGED <<threshold, stored, lastScore>>
  BY DEF RunQuery, Continue, TypeOK, QueueTypeOK, jobVars
<1>2. ASSUME owner # 0, lastScore' = "saved"
      PROVE  threshold'[owner] = stored'
  <2>1. CASE UNCHANGED <<threshold, stored, lastScore>>
    BY <1>2, <2>1 DEF OwnerIsLast
  <2>2. ASSUME cur.op = "tscore", NEW w \in BOOLEAN, SetScore(cur.job, cur.val, w)
        PROVE  threshold'[owner] = stored'
    <3>1. cur.job \in Ticket /\ owner \in Ticket /\ threshold \in [Ticket -> Nat]
      BY <1>1, <1>2, <2>2, TaskFields DEF TypeOK, ConfigTypeOK
    <3>2. CASE cur.job = owner
      BY <1>2, <2>2, <3>1, <3>2 DEF SetScore
    <3>3. CASE cur.job # owner
      <4>1. ~w /\ lastScore = "saved"
        BY <1>2, <2>2, <3>3 DEF SetScore
      <4>2. QED
        BY <1>2, <2>2, <3>1, <3>3, <4>1 DEF SetScore, OwnerIsLast
    <3>4. QED
      BY <3>2, <3>3
  <2>3. QED
    BY <1>1, <2>1, <2>2
<1>3. QED
  BY <1>1, <1>2 DEF OwnerIsLast

LEMMA NextOwnerIsLast ==
  LInv /\ Next => OwnerIsLast'
<1> SUFFICES ASSUME LInv, Next PROVE OwnerIsLast'
  OBVIOUS
<1>1. TypeOK /\ InOrder /\ OneReference /\ StartsInOrder /\ AnswersOnce /\ OwnerIsLast
  BY DEF LInv, IInv
<1>2. CASE WorkerStep(Fetch) /\ queue # <<>>
  BY <1>1, <1>2, FetchTakes, FetchOwnerIsLast
<1>3. CASE \E u \in BOOLEAN : RunCreate(u)
  BY <1>3, CreateOwnerIsLast
<1>4. CASE \E s \in BOOLEAN, o \in {"event", "quiet", "error"} : RunStart(s, o)
  BY <1>4, StartOwnerIsLast
<1>5. CASE RunQuery
  BY <1>5, QueryOwnerIsLast
<1>6. CASE \/ RunReady \/ RunBreakOrConfig
           \/ \E o \in {"event", "quiet", "error"} : RunLoop(o)
  <2>1. /\ wpc' # "body" /\ UNCHANGED <<queue, alive, registered, owner, threshold, stored, lastScore>>
    BY <1>6 DEF RunReady, RunBreakOrConfig, RunLoop, Iterate, Continue, jobVars, configVars
  <2>2. QED
    BY <1>1, <2>1 DEF OwnerIsLast
<1>7. CASE Push
  BY <1>1, <1>7, PushOwnerIsLast
<1>8. CASE Drop
  BY <1>1, <1>8, DropOwnerIsLast
<1>9. QED
  BY <1>1, <1>2, <1>3, <1>4, <1>5, <1>6, <1>7, <1>8, QuietSteps, QuietOwnerIsLast
     DEF Next, Worker, Body

-----------------------------------------------------------------------------
LEMMA InitLInv == Init => LInv
<1> SUFFICES ASSUME Init PROVE LInv
  OBVIOUS
<1>1. IInv
  BY InitIInv
<1>2. /\ queue = <<MkTask("ready", 0, 0)>> /\ Len(queue) = 1
      /\ wpc = "fetch" /\ ~Running
      /\ \A i \in 1 .. Len(queue) : queue[i].op = "ready" /\ ~Iteration(queue[i])
  BY TaskFacts DEF Init, ExecInit, Running, Iteration
<1>3. /\ executed = {} /\ owner = 0 /\ 0 \notin Ticket
      /\ \A k \in Ticket : /\ ~alive[k] /\ ~registered[k]
                           /\ events[k] = 0 /\ replies[k] = 0 /\ ntimes[k] = 0 /\ times[k] = 0
      /\ ~isInvoke /\ ~isSample
  BY TicketAssumption DEF Init, Ticket
<1>4. OneReference /\ StartsInOrder
  BY <1>2, <1>3 DEF OneReference, StartsInOrder
<1>5. AnswersOnce /\ FlagsHaveObjects
  BY <1>2, <1>3 DEF AnswersOnce, Fresh, FlagsHaveObjects
<1>6. OwnerIsLast
  BY <1>2, <1>3 DEF OwnerIsLast, ScoreQuery
<1>7. QED
  BY <1>1, <1>4, <1>5, <1>6 DEF LInv

(* The inductive invariant of the objects: their references, the order of   *)
(* their first iterations, the answers given and the registry, whatever the *)
(* number of commands and however the listener and the worker interleave.   *)
THEOREM LoopInductive == Spec => []LInv
<1>1. ASSUME [Next]_vars, IInv, IInv', LInv
      PROVE  LInv'
  <2>1. CASE Next
    BY <1>1, <2>1, NextOneReference, NextStartsInOrder, NextAnswersOnce,
       NextFlagsHaveObjects, NextOwnerIsLast DEF LInv, IInv
  <2>2. CASE UNCHANGED vars
    <3> USE <1>1, <2>2
        DEF LInv, vars, execVars, jobVars, flagVars, configVars, listenerVars
    <3>1. OneReference'
      BY DEF OneReference, Queued, Refers, Iteration, Running
    <3>2. StartsInOrder'
      BY DEF StartsInOrder, Iteration, Running, ExecTask
    <3>3. AnswersOnce' /\ FlagsHaveObjects'
      BY DEF AnswersOnce, Fresh, FlagsHaveObjects
    <3>4. OwnerIsLast'
      BY DEF OwnerIsLast, ScoreQuery
    <3>5. QED
      BY <3>1, <3>2, <3>3, <3>4
  <2>3. QED
    BY <1>1, <2>1, <2>2
<1>2. QED
  BY InitLInv, <1>1, Inductive, PTL DEF Spec

(* reset_config_cmds withdraws by name, and that is enough: when event_loop *)
(* registers TSCORE and TIOU no other object's are there, since the loop it *)
(* supersedes ends in the iteration queued before it; while a loop runs the *)
(* commands are its own.  And the threshold in flash is that of the object  *)
(* they capture, unless its last write failed, or since then a late TSCORE  *)
(* stored that of an earlier one.                                           *)
THEOREM RegistryRight == Spec => []RegistryFollowsLoops
<1>1. LInv => RegistryFollowsLoops
  <2> SUFFICES ASSUME LInv PROVE RegistryFollowsLoops
    OBVIOUS
  <2>1. TypeOK /\ OneReference /\ StartsInOrder /\ AnswersOnce /\ OwnerIsLast
    BY DEF LInv, IInv
  <2>2. \A k \in Ticket : Looping(k) => owner = k
    BY <2>1 DEF OwnerIsLast, Looping
  <2>3. owner # 0 => alive[owner]
    BY <2>1 DEF OwnerIsLast, TypeOK, ConfigTypeOK
  <2>4. wpc = "body" /\ cur.op = "start" => owner = 0
    BY <2>1, StartFindsNone
  <2>5. QED
    BY <2>1, <2>2, <2>3, <2>4 DEF RegistryFollowsLoops, OwnerIsLast
<1>2. QED
  BY LoopInductive, <1>1, PTL

(* A set without two different elements has at most one. *)
LEMMA AtMostOne ==
  ASSUME NEW S, \A x, y \in S : x = y
  PROVE  Cardinality(S) <= 1 /\ (S # {} => Cardinality(S) = 1)
<1>1. CASE S = {}
  BY <1>1, FS_EmptySet
<1>2. CASE S # {}
  <2>1. PICK x \in S : S = {x}
    BY <1>2
  <2>2. QED
    BY <2>1, FS_Singleton
<1>3. QED
  BY <1>1, <1>2

(* Every iteration hands its object's only reference to the next one, and   *)
(* that is enough: a loop never forks, its object dies with its last task,  *)
(* is_invoke and is_sample are up only for objects that are there, a loop   *)
(* with a count keeps to it, and no command is answered twice.              *)
THEOREM LivesOnce == Spec => []LoopLife
<1>1. LInv => LoopLife
  <2> SUFFICES ASSUME LInv PROVE LoopLife
    OBVIOUS
  <2>1. TypeOK /\ OneReference /\ StartsInOrder /\ AnswersOnce /\ FlagsHaveObjects
    BY DEF LInv, IInv
  <2>2. ASSUME NEW k \in Ticket
        PROVE  /\ References(k) <= 1
               /\ Queued(k) => References(k) = 1
    <3> DEFINE S == {i \in 1 .. Len(queue) : Refers(queue[i], k)}
    <3>1. \A i, j \in S : i = j
      BY <2>1 DEF OneReference, Refers, Iteration
    <3>2. Queued(k) => S # {}
      BY DEF Queued
    <3>3. QED
      BY <3>1, <3>2, AtMostOne DEF References
  <2>3. Running => wpc \in {"body", "push", "check", "reset", "drop"}
    BY <2>1 DEF Running, TypeOK, QueueTypeOK, WorkerPc
  <2>4. \A k \in Ticket : alive[k] =>
          \/ References(k) = 1
          \/ wpc \in {"body", "push", "check", "reset", "drop"} /\ cur.job = k
    BY <2>1, <2>2, <2>3 DEF OneReference
  <2>5. QED
    BY <2>1, <2>2, <2>4 DEF LoopLife, AnswersOnce, FlagsHaveObjects
<1>2. QED
  BY LoopInductive, <1>1, PTL
=============================================================================
