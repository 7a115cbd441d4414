---------------------------- MODULE SettingsProofs ----------------------------
(***************************************************************************)
(* Proofs about Settings, for every set of models, options, algorithms,    *)
(* expressions and networks, any number of boots and of commands: what the *)
(* flash may hold, and that a setting answered OK is what the device works *)
(* with after any loss of power.  The client waits for an answer before it *)
(* sends the next command (Pipelined is FALSE), as in the run.             *)
(***************************************************************************)
EXTENDS Settings, TLAPS

LEMMA SettingNames ==
  /\ Settings = {"model", "sensor", "opt", "algo", "action", "net"}
  /\ Backend = {"model", "sensor", "opt", "algo"}
  BY DEF Settings, Backend

LEMMA DefaultFacts ==
  /\ DOMAIN Default = Settings
  /\ Default["model"] = 1 /\ Default["sensor"] = 1 /\ Default["opt"] = 0
  /\ Default["algo"] = 0 /\ Default["action"] = NoAction /\ Default["net"] = None
  BY DEF Default, Settings, Backend, Camera, Undefined

LEMMA Distinct ==
  /\ Old # Current /\ None # Old /\ None # Current
  /\ Old \notin Models \cup Options \cup Algorithms /\ Old # 0 /\ Old # 1
  /\ None \notin Models \cup Options \cup Algorithms /\ None # 0 /\ None # 1
  /\ None \notin Actions \cup Networks /\ None # NoAction
  /\ None # "model" /\ None # "sensor"
  /\ 0 \notin Models /\ 0 \notin Algorithms
  /\ Models \subseteq Nat /\ Broken \subseteq Models
  /\ Unknown \notin Models \cup Options \cup Algorithms \cup Actions \cup Networks \cup {NoAction}
  BY SettingsAssumption

(* What is stored is never the mark of an empty key, and what is in RAM is  *)
(* of an older version only for the settings of init_backend.               *)
LEMMA Values ==
  ASSUME NEW s \in Settings
  PROVE  /\ None \notin Usable(s)
         /\ Old \notin Usable(s) \/ s \notin Backend
         /\ s \in Backend => Default[s] # Old /\ Default[s] # None
         /\ Default[s] \in Stored(s) /\ Default[s] \in InRam(s)
         /\ Usable(s) \subseteq Stored(s) /\ Usable(s) \subseteq InRam(s)
<1>1. /\ s = "model"  => Usable(s) = Models \ Broken
      /\ s = "sensor" => Usable(s) = {1}
      /\ s = "opt"    => Usable(s) = Options
      /\ s = "algo"   => Usable(s) = Algorithms
      /\ s = "action" => Usable(s) = Actions
      /\ s = "net"    => Usable(s) = Networks
  BY DEF Usable, Camera
<1>2. None \notin Usable(s) /\ (Old \notin Usable(s) \/ s \notin Backend)
  BY <1>1, Distinct, SettingNames
<1>3. s \in Backend => Default[s] # Old /\ Default[s] # None
  BY DefaultFacts, Distinct, SettingNames
<1>4. QED
  BY <1>2, <1>3 DEF Stored, InRam

(* The list of keys or hooks still to do. *)
LEMMA PendingFacts ==
  ASSUME NEW S, NEW l \in Seq(S), l # <<>>
  PROVE  /\ Tail(l) \in Seq(S) /\ Head(l) \in S
         /\ \A k : Pending(k, l) <=> k = Head(l) \/ Pending(k, Tail(l))
<1>1. /\ Tail(l) \in Seq(S) /\ Head(l) \in S /\ Head(l) = l[1] /\ Len(l) \in Nat \ {0}
      /\ Len(Tail(l)) = Len(l) - 1
      /\ \A i \in 1 .. Len(Tail(l)) : Tail(l)[i] = l[i + 1]
  OBVIOUS
<1>2. ASSUME NEW k, Pending(k, l)
      PROVE  k = Head(l) \/ Pending(k, Tail(l))
  <2>1. PICK i \in 1 .. Len(l) : l[i] = k
    BY <1>2 DEF Pending
  <2>2. CASE i = 1
    BY <1>1, <2>1, <2>2
  <2>3. CASE i # 1
    <3>1. i - 1 \in 1 .. Len(Tail(l)) /\ (i - 1) + 1 = i
      BY <1>1, <2>3
    <3>2. Tail(l)[i - 1] = k
      BY <1>1, <2>1, <3>1
    <3>3. QED
      BY <3>1, <3>2 DEF Pending
  <2>4. QED
    BY <2>2, <2>3
<1>3. ASSUME NEW k, k = Head(l) \/ Pending(k, Tail(l))
      PROVE  Pending(k, l)
  <2>1. CASE k = Head(l)
    <3>1. 1 \in 1 .. Len(l)
      BY <1>1
    <3>2. QED
      BY <1>1, <2>1, <3>1 DEF Pending
  <2>2. CASE Pending(k, Tail(l))
    <3>1. PICK i \in 1 .. Len(Tail(l)) : Tail(l)[i] = k
      BY <2>2 DEF Pending
    <3>2. i + 1 \in 1 .. Len(l) /\ l[i + 1] = k
      BY <1>1, <3>1
    <3>3. QED
      BY <3>2 DEF Pending
  <2>3. QED
    BY <1>3, <2>1, <2>2
<1>4. QED
  BY <1>1, <1>2, <1>3

LEMMA PendingNone == (\A k : ~Pending(k, <<>>)) /\ Once(<<>>)
  BY DEF Pending, Once

LEMMA OnceFacts ==
  ASSUME NEW S, NEW l \in Seq(S), l # <<>>, Once(l)
  PROVE  Once(Tail(l)) /\ ~Pending(Head(l), Tail(l))
<1>1. /\ Head(l) = l[1] /\ Len(l) \in Nat \ {0} /\ Len(Tail(l)) = Len(l) - 1
      /\ \A i \in 1 .. Len(Tail(l)) : Tail(l)[i] = l[i + 1]
  OBVIOUS
<1>2. \A i \in 1 .. Len(Tail(l)) : i + 1 \in 1 .. Len(l) /\ i + 1 # 1
  BY <1>1
<1>3. Once(Tail(l))
  BY <1>1, <1>2 DEF Once
<1>4. 1 \in 1 .. Len(l)
  BY <1>1
<1>5. QED
  BY <1>1, <1>2, <1>3, <1>4 DEF Once, Pending

LEMMA InitKeysFacts ==
  /\ InitKeys \in Seq(Backend \cup {"version"}) /\ InitKeys # <<>>
  /\ Head(InitKeys) = "version"
  /\ Tail(InitKeys) \in Seq(Backend \cup {"version"})
  /\ \A s \in Backend : Pending(s, InitKeys) /\ Pending(s, Tail(InitKeys))
  /\ Pending("version", InitKeys) /\ ~Pending("version", Tail(InitKeys))
<1>1. /\ InitKeys \in Seq(Backend \cup {"version"}) /\ InitKeys # <<>>
      /\ Head(InitKeys) = "version" /\ Tail(InitKeys) = <<"model", "sensor", "opt", "algo">>
      /\ Len(InitKeys) = 5
      /\ InitKeys[1] = "version"
  BY SettingNames DEF InitKeys
<1> DEFINE t == <<"model", "sensor", "opt", "algo">>
<1>2. /\ Len(t) = 4 /\ t[1] = "model" /\ t[2] = "sensor" /\ t[3] = "opt" /\ t[4] = "algo"
  OBVIOUS
<1>3. \A s \in Backend : \E i \in 1 .. 4 : t[i] = s
  <2>1. 1 \in 1 .. 4 /\ 2 \in 1 .. 4 /\ 3 \in 1 .. 4 /\ 4 \in 1 .. 4
    OBVIOUS
  <2>2. QED
    BY <1>2, <2>1, SettingNames
<1>4. \A i \in 1 .. 4 : t[i] # "version"
  <2>1. \A i \in 1 .. 4 : i = 1 \/ i = 2 \/ i = 3 \/ i = 4
    OBVIOUS
  <2>2. QED
    BY <1>2, <2>1
<1>5. t = Tail(InitKeys)
  BY <1>1
<1> HIDE DEF t
<1>6. (\A s \in Backend : Pending(s, t)) /\ ~Pending("version", t)
  BY <1>2, <1>3, <1>4 DEF Pending
<1>7. QED
  BY <1>1, <1>5, <1>6, PendingFacts

-----------------------------------------------------------------------------
(* A step changes neither copy of setting r, and only adds to what a client *)
(* must expect of it.                                                       *)
Untouched(r) ==
  /\ flash'[r] = flash[r] /\ ram'[r] = ram[r] /\ allowed[r] \subseteq allowed'[r]
  /\ r \in failed => r \in failed'
  /\ r \in erred => r \in erred'

LEMMA Frame ==
  ASSUME NEW r \in Settings, SettingOK(r), Untouched(r), UNCHANGED <<phase, todo, torn>>,
         flash'["version"] = flash["version"],
         r \notin Backend => (Pending(r, hooks') <=> Pending(r, hooks)),
         Storing(r) => Storing(r)'
  PROVE  SettingOK(r)'
<1>1. Loaded(r)' = Loaded(r) /\ (VersionMatches' <=> VersionMatches)
  BY DEF Loaded, VersionMatches, Untouched
<1>2. (Pending(r, todo)' <=> Pending(r, todo)) /\ (Pending(r, hooks)' <=> Pending(r, hooks'))
  BY DEF Pending
<1>3. InStep(r)'
  BY <1>1, <1>2, SettingNames DEF SettingOK, InStep, Untouched
<1>4. InUse(r)'
  BY <1>1, <1>2, SettingNames DEF SettingOK, InUse, Untouched
<1>5. QED
  BY <1>1, <1>2, <1>3, <1>4 DEF SettingOK, Untouched

(* What a write to the flash changes. *)
LEMMA EmplaceFacts ==
  ASSUME TypeOK, NEW k \in Settings \cup {"version"}, NEW v, NEW ok \in BOOLEAN, Emplace(k, v, ok)
  PROVE  /\ \A r \in Settings \cup {"version"} : r # k =>
              flash'[r] = flash[r] /\ (r \in failed' <=> r \in failed)
         /\ DOMAIN flash' = Settings \cup {"version"}
         /\ failed' \subseteq Settings \cup {"version"}
         /\ ok => flash'[k] = v /\ k \notin failed'
         /\ ~ok => flash' = flash /\ k \in failed'
  BY DEF Emplace, TypeOK

(* What the promise to the client becomes. *)
LEMMA AttemptFacts ==
  ASSUME NEW new, DOMAIN new \subseteq Settings, Attempt(new)
  PROVE  /\ \A r \in Settings : allowed[r] \subseteq allowed'[r]
         /\ \A r \in Settings \ DOMAIN new : allowed'[r] = allowed[r]
         /\ \A r \in DOMAIN new : new[r] \in allowed'[r]
  BY DEF Attempt

LEMMA DoneFacts ==
  ASSUME NEW new, DOMAIN new \subseteq Settings, NEW bad, Done(new, bad)
  PROVE  /\ \A r \in Settings \ DOMAIN new :
              allowed'[r] = allowed[r] /\ (r \in erred' <=> r \in erred)
         /\ \A r \in DOMAIN new :
              /\ new[r] \in allowed'[r]
              /\ r \in bad \/ (r \in Backend /\ ~VersionMatches) =>
                   allowed[r] \subseteq allowed'[r]
         /\ erred' \subseteq erred
  BY DEF Done

LEMMA SoleFacts == \A s, v : DOMAIN Sole(s, v) = {s} /\ Sole(s, v)[s] = v
  BY DEF Sole

LEMMA AttemptSole ==
  ASSUME NEW s \in Settings, NEW v, Attempt(Sole(s, v))
  PROVE  /\ \A r \in Settings : allowed[r] \subseteq allowed'[r]
         /\ \A r \in Settings : r # s => allowed'[r] = allowed[r]
         /\ v \in allowed'[s]
<1>1. DOMAIN Sole(s, v) = {s} /\ Sole(s, v)[s] = v /\ {s} \subseteq Settings
  BY SoleFacts
<1>2. QED
  BY <1>1, AttemptFacts

LEMMA DoneSole ==
  ASSUME NEW s \in Settings, NEW v, NEW bad, Done(Sole(s, v), bad)
  PROVE  /\ \A r \in Settings : r # s => allowed'[r] = allowed[r] /\ (r \in erred' <=> r \in erred)
         /\ v \in allowed'[s]
         /\ s \in bad \/ (s \in Backend /\ ~VersionMatches) => allowed[s] \subseteq allowed'[s]
         /\ erred' \subseteq erred
<1>1. DOMAIN Sole(s, v) = {s} /\ Sole(s, v)[s] = v /\ {s} \subseteq Settings
  BY SoleFacts
<1>2. QED
  BY <1>1, DoneFacts

-----------------------------------------------------------------------------
(* Power *)

LEMMA InitIInv == Init => IInv
<1> SUFFICES ASSUME Init PROVE IInv
  OBVIOUS
<1>1. PICK v \in {None, Old} :
        flash = [k \in Settings \cup {"version"} |->
                   IF k \in {"action", "net"} THEN None ELSE v]
  BY DEF Init
<1>2. /\ phase = "off" /\ todo = <<>> /\ hooks = <<>> /\ ram = Default
      /\ engine = None /\ camera = None /\ failed = {} /\ erred = {} /\ torn = FALSE
      /\ job = [t \in Threads |-> Idle]
      /\ allowed = [s \in Settings |-> {Loaded(s), Default[s]}]
      /\ boots = 0 /\ commands = 0
  BY DEF Init
<1>3. ~VersionMatches
  BY <1>1, Distinct, SettingNames DEF VersionMatches
<1>4. TypeOK
  <2>1. flash["version"] = v /\ DOMAIN flash = Settings \cup {"version"}
    BY <1>1
  <2>2. 0 \in 0..MaxBoots /\ 0 \in 0..MaxCommands
    BY SettingsAssumption
  <2>3. QED
    BY <1>2, <2>1, <2>2, DefaultFacts DEF TypeOK
<1>5. Phases
  BY <1>2, PendingNone, SettingNames DEF Phases, Threads
<1>6. Jobs
  <2>1. \A t \in Threads : job[t] = Idle
    BY <1>2
  <2>2. Idle \notin ModelJob /\ Idle \notin SensorJob
    <3>1. \A j \in ModelJob \cup SensorJob : j.cmd # None
      BY Distinct DEF ModelJob, SensorJob
    <3>2. Idle.cmd = None
      BY DEF Idle
    <3>3. QED
      BY <3>1, <3>2
  <2>3. QED
    BY <1>2, <2>1, <2>2 DEF Jobs, Threads
<1>7. ASSUME NEW s \in Settings
      PROVE  SettingOK(s)
  <2>1. flash[s] \in Stored(s)
    BY <1>1, SettingNames DEF Stored, Legacy
  <2>2. ram[s] \in InRam(s) /\ ram[s] = Default[s]
    BY <1>2, Values
  <2>3. s \in Backend => ram[s] # Old
    BY <2>2, Values
  <2>4. Loaded(s) \in allowed[s] /\ Default[s] \in allowed[s]
    BY <1>2
  <2>5. InStep(s) /\ InUse(s)
    BY <1>2 DEF InStep, InUse
  <2>6. QED
    BY <1>3, <2>1, <2>2, <2>3, <2>4, <2>5 DEF SettingOK
<1>8. QED
  BY <1>2, <1>4, <1>5, <1>6, <1>7 DEF IInv

LEMMA IdleIsNoJob == Idle \notin ModelJob /\ Idle \notin SensorJob /\ ModelJob \cap SensorJob = {}
<1>1. /\ \A j \in ModelJob : j.cmd = "model"
      /\ \A j \in SensorJob : j.cmd = "sensor"
  BY DEF ModelJob, SensorJob
<1>2. Idle.cmd = None
  BY DEF Idle
<1>3. QED
  BY <1>1, <1>2, Distinct

LEMMA PowerOnIInv == ASSUME IInv, PowerOn PROVE IInv'
<1>1. /\ phase = "off" /\ boots < MaxBoots /\ phase' = "init" /\ boots' = boots + 1
      /\ UNCHANGED <<hooks, flash, engine, camera, job, allowed, failed, erred, torn, commands>>
      /\ IF VersionMatches
          THEN /\ ram' = [s \in Settings |-> IF s \in Backend THEN Loaded(s) ELSE Default[s]]
               /\ todo' = <<>>
          ELSE ram' = Default /\ todo' = InitKeys
  BY DEF PowerOn, history, InitKeys
<1>2. /\ TypeOK /\ Phases /\ Jobs /\ \A s \in Settings : SettingOK(s)
  BY DEF IInv
<1>3. TypeOK'
  BY <1>1, <1>2, DefaultFacts, SettingsAssumption DEF TypeOK
<1>4. /\ hooks = <<>> /\ camera = None /\ todo = <<>> /\ \A t \in Threads : job[t] = Idle
  BY <1>1, <1>2 DEF Phases
<1>5. Phases'
  <2>1. ram'["action"] = Default["action"] /\ ram'["net"] = Default["net"]
    BY <1>1, SettingNames
  <2>2. todo' \in Seq(Backend \cup {"version"})
    <3>1. \A S : <<>> \in Seq(S)
      OBVIOUS
    <3>2. QED
      BY <1>1, <3>1, InitKeysFacts
  <2>3. todo' # <<>> => ram' = Default /\ todo' = InitKeys
    BY <1>1
  <2>4. hooks' \in Seq(Settings)
    BY <1>1, <1>2 DEF Phases
  <2>5. QED
    BY <1>1, <1>4, <2>1, <2>2, <2>3, <2>4, PendingNone DEF Phases
<1>6. Jobs'
  <2>1. job' \in [Threads -> {Idle} \cup ModelJob \cup SensorJob] /\ \A t \in Threads : job'[t] = Idle
    BY <1>1, <1>2, <1>4 DEF Jobs
  <2>2. QED
    BY <2>1, IdleIsNoJob DEF Jobs, Threads
<1>7. ASSUME NEW s \in Settings
      PROVE  SettingOK(s)'
  <2>1. /\ VersionMatches' <=> VersionMatches
        /\ Loaded(s)' = Loaded(s) /\ SettingOK(s)
    BY <1>1, <1>2 DEF VersionMatches, Loaded
  <2>2. s \in Backend => (Pending(s, todo') <=> ~VersionMatches)
    <3>1. CASE VersionMatches
      BY <1>1, <3>1, PendingNone
    <3>2. CASE ~VersionMatches
      BY <1>1, <3>2, InitKeysFacts
    <3>3. QED
      BY <3>1, <3>2
  <2>3. ram'[s] = IF VersionMatches /\ s \in Backend THEN Loaded(s) ELSE Default[s]
    BY <1>1
  <2>4. Loaded(s) \in InRam(s) /\ (s \in Backend /\ Loaded(s) = Old => flash[s] = Old)
    BY <2>1, Values DEF Loaded, SettingOK, Stored, InRam
  <2>5. ram'[s] \in InRam(s)
    BY <2>3, <2>4, Values
  <2>6. s \in Backend /\ ram'[s] = Old => torn
    <3>1. ~Pending(s, todo)
      BY <1>4, PendingNone
    <3>2. QED
      BY <2>1, <2>3, <2>4, <3>1, Values DEF SettingOK
  <2>7. s \in Backend /\ VersionMatches => ram'[s] = Loaded(s) /\ Loaded(s) \in allowed[s]
    BY <2>1, <2>3 DEF SettingOK
  <2>8. s \in Backend /\ ~VersionMatches => ram'[s] = Default[s] /\ Default[s] \in allowed[s]
    BY <2>1, <2>3 DEF SettingOK
  <2>9. InStep(s)'
    BY <1>1, <2>1, <2>7 DEF InStep
  <2>10. InUse(s)'
    BY <1>1, <2>7, <2>8, SettingNames DEF InUse
  <2>11. s \in Backend =>
           /\ VersionMatches' /\ flash'[s] = Old /\ ~torn' => Pending(s, todo')
           /\ ~VersionMatches' \/ Pending(s, todo') => Default[s] \in allowed'[s]
    BY <1>1, <1>4, <2>1, <2>2, PendingNone DEF SettingOK
  <2>12. QED
    BY <1>1, <2>1, <2>5, <2>6, <2>9, <2>10, <2>11 DEF SettingOK
<1>8. QED
  BY <1>1, <1>3, <1>4, <1>5, <1>6, <1>7 DEF IInv

(* The version goes first, so that a key of an older version that is still  *)
(* to be overwritten is pending, unless the initialisation is torn.         *)
LEMMA InitWriteIInv == ASSUME IInv, InitWrite PROVE IInv'
<1> DEFINE k == Head(todo)
<1>1. PICK ok \in BOOLEAN :
        /\ Emplace(k, IF k = "version" THEN Current ELSE ram[k], ok)
        /\ torn' = (torn \/ ~ok)
  BY DEF InitWrite
<1>2. /\ phase = "init" /\ todo # <<>> /\ todo' = Tail(todo)
      /\ UNCHANGED <<phase, hooks, ram, engine, camera, job, allowed, erred, boots, commands>>
  BY DEF InitWrite
<1>3. /\ TypeOK /\ Phases /\ Jobs /\ \A s \in Settings : SettingOK(s)
  BY DEF IInv
<1>4. /\ todo' \in Seq(Backend \cup {"version"}) /\ k \in Backend \cup {"version"}
      /\ \A s : Pending(s, todo) <=> s = k \/ Pending(s, todo')
  BY <1>2, <1>3, PendingFacts DEF Phases
<1>5. /\ ram = Default /\ camera = None /\ hooks = <<>> /\ \A t \in Threads : job[t] = Idle
      /\ k = "version" => todo = InitKeys /\ \A s \in Backend : Pending(s, todo')
      /\ ~Pending("version", todo')
  <2>1. /\ ram = Default /\ camera = None /\ hooks = <<>> /\ \A t \in Threads : job[t] = Idle
        /\ todo = InitKeys \/ ~Pending("version", todo)
    BY <1>2, <1>3 DEF Phases
  <2>2. QED
    BY <1>2, <1>4, <2>1, InitKeysFacts
<1> HIDE DEF k
<1>6. /\ \A s \in Settings \cup {"version"} : s # k =>
           flash'[s] = flash[s] /\ (s \in failed' <=> s \in failed)
      /\ DOMAIN flash' = Settings \cup {"version"}
      /\ failed' \subseteq Settings \cup {"version"}
      /\ ok => flash'[k] = (IF k = "version" THEN Current ELSE Default[k]) /\ k \notin failed'
      /\ ~ok => flash' = flash /\ k \in failed'
  BY <1>1, <1>3, <1>4, <1>5, EmplaceFacts, SettingNames
<1>7. TypeOK'
  <2>1. flash'["version"] \in {None, Old, Current}
    BY <1>3, <1>6 DEF TypeOK
  <2>2. QED
    BY <1>2, <1>3, <1>6, <2>1 DEF TypeOK
<1>8. Phases'
  BY <1>2, <1>3, <1>4, <1>5 DEF Phases
<1>9. Jobs'
  BY <1>2, <1>3, <1>5, IdleIsNoJob DEF Jobs, Threads
<1>10. ASSUME NEW s \in Settings
       PROVE  SettingOK(s)'
  <2>1. SettingOK(s) /\ ram[s] = Default[s] /\ s # "version" /\ (Pending(s, todo)' <=> Pending(s, todo'))
    BY <1>3, <1>5, SettingNames DEF Pending
  <2>2. s \notin Backend => s # k
    BY <1>4, SettingNames
  <2>3. flash'[s] \in Stored(s) /\ ram'[s] \in InRam(s)
    BY <1>2, <1>6, <2>1, Values DEF SettingOK
  <2>4. s \in Backend =>
          /\ VersionMatches' /\ flash'[s] = Old /\ ~torn' => Pending(s, todo')
          /\ ram'[s] = Old => torn'
    <3>1. CASE k = "version"
      BY <1>1, <1>2, <1>5, <2>1, <3>1, Values
    <3>2. CASE k # "version" /\ s # k
      BY <1>1, <1>2, <1>4, <1>6, <2>1, <3>2 DEF SettingOK, VersionMatches
    <3>3. CASE s = k
      BY <1>1, <1>2, <1>6, <2>1, <3>3, Values
    <3>4. QED
      BY <3>1, <3>2, <3>3
  <2>5. s \in Backend /\ (~VersionMatches' \/ Pending(s, todo')) => Default[s] \in allowed'[s]
    <3>1. CASE k = "version"
      BY <1>2, <1>4, <1>5, <2>1, <3>1 DEF SettingOK
    <3>2. CASE k # "version"
      BY <1>2, <1>4, <1>6, <2>1, <3>2 DEF SettingOK, VersionMatches
    <3>3. QED
      BY <3>1, <3>2
  <2>6. Loaded(s)' \in allowed'[s] /\ (s = k /\ ok => Loaded(s)' = Default[s])
    <3>1. CASE s = k /\ ok
      <4>1. Loaded(s)' = Default[s]
        BY <1>6, <2>1, <3>1 DEF Loaded
      <4>2. s \in Backend /\ Pending(s, todo)
        BY <1>4, <2>2, <3>1
      <4>3. QED
        BY <1>2, <2>1, <4>1, <4>2 DEF SettingOK
    <3>2. CASE ~(s = k /\ ok)
      BY <1>2, <1>6, <2>1, <3>2 DEF Loaded, SettingOK
    <3>3. QED
      BY <3>1, <3>2
  <2>7. InStep(s)'
    <3> SUFFICES ASSUME s \in Backend \ {"opt"}, VersionMatches', s \notin failed', ~Pending(s, todo')
                 PROVE  ram'[s] = Loaded(s)' \/ (ram'[s] \in {Loaded(s)} \cup Zero(s) /\ Loaded(s)' = Loaded(s))
      BY <1>2, <2>1 DEF InStep
    <3>1. k # "version"
      BY <1>5
    <3>2. CASE s = k
      BY <1>2, <1>6, <2>1, <2>6, <3>2
    <3>3. CASE s # k
      <4>1. /\ VersionMatches /\ s \notin failed /\ ~Pending(s, todo) /\ ~Storing(s)
            /\ Loaded(s)' = Loaded(s)
        BY <1>4, <1>5, <1>6, <3>1, <3>3, Distinct DEF VersionMatches, Loaded, Storing, Idle
      <4>2. QED
        BY <1>2, <2>1, <4>1 DEF SettingOK, InStep
    <3>4. QED
      BY <3>2, <3>3
  <2>8. InUse(s)'
    BY <1>1, <1>2, <2>1 DEF SettingOK, InUse
  <2>9. QED
    BY <1>2, <2>1, <2>3, <2>4, <2>5, <2>6, <2>7, <2>8 DEF SettingOK
<1>11. QED
  BY <1>2, <1>5, <1>7, <1>8, <1>9, <1>10 DEF IInv

LEMMA PostInitIInv == ASSUME IInv, PostInit PROVE IInv'
<1>1. /\ phase = "init" /\ todo = <<>> /\ phase' = "up"
      /\ hooks' = <<"algo", "sensor", "action", "net">>
      /\ UNCHANGED <<todo, flash, ram, engine, camera, job, allowed, failed, erred, torn, boots, commands>>
  BY DEF PostInit, history
<1>2. /\ TypeOK /\ Phases /\ Jobs /\ \A s \in Settings : SettingOK(s)
  BY DEF IInv
<1>3. /\ hooks' \in Seq(Settings) /\ Once(hooks)'
      /\ Pending("action", hooks') /\ Pending("net", hooks')
  <2>1. hooks' \in Seq(Settings)
    BY <1>1, SettingNames
  <2>2. 3 \in 1 .. Len(hooks') /\ hooks'[3] = "action" /\ 4 \in 1 .. Len(hooks') /\ hooks'[4] = "net"
    BY <1>1
  <2>3. Once(hooks)'
    <3>1. Len(hooks') = 4 /\ hooks'[1] = "algo" /\ hooks'[2] = "sensor"
      BY <1>1
    <3>2. \A i \in 1 .. 4 : i = 1 \/ i = 2 \/ i = 3 \/ i = 4
      OBVIOUS
    <3>3. QED
      BY <2>2, <3>1, <3>2 DEF Once
  <2>4. QED
    BY <2>1, <2>2, <2>3 DEF Pending
<1>4. TypeOK'
  BY <1>1, <1>2 DEF TypeOK
<1>5. Phases'
  BY <1>1, <1>2, <1>3 DEF Phases
<1>6. camera = None /\ \A t \in Threads : job[t] = Idle
  BY <1>1, <1>2 DEF Phases
<1>7. Jobs'
  BY <1>1, <1>2, <1>6, IdleIsNoJob DEF Jobs, Threads
<1>8. ASSUME NEW s \in Settings
      PROVE  SettingOK(s)'
  <2>1. SettingOK(s) /\ Loaded(s)' = Loaded(s) /\ (VersionMatches' <=> VersionMatches)
        /\ (Pending(s, todo)' <=> Pending(s, todo)) /\ (Pending(s, hooks)' <=> Pending(s, hooks'))
        /\ (Storing(s)' <=> Storing(s))
    BY <1>1, <1>2 DEF Loaded, VersionMatches, Pending, Storing
  <2>2. InStep(s)'
    BY <1>1, <1>3, <2>1 DEF SettingOK, InStep
  <2>3. InUse(s)'
    BY <1>1, <1>3, <2>1 DEF SettingOK, InUse
  <2>4. QED
    BY <1>1, <2>1, <2>2, <2>3 DEF SettingOK
<1>9. QED
  BY <1>1, <1>4, <1>5, <1>6, <1>7, <1>8 DEF IInv

LEMMA PowerLossIInv == ASSUME IInv, PowerLoss PROVE IInv'
<1>1. /\ phase' = "off" /\ todo' = <<>> /\ hooks' = <<>> /\ ram' = Default
      /\ engine' = None /\ camera' = None /\ job' = [t \in Threads |-> Idle]
      /\ failed' = {} /\ erred' = {} /\ torn' = (torn \/ todo # <<>>)
      /\ UNCHANGED <<flash, allowed, boots, commands>>
  BY DEF PowerLoss
<1>2. /\ TypeOK /\ Phases /\ Jobs /\ \A s \in Settings : SettingOK(s)
  BY DEF IInv
<1>3. TypeOK'
  BY <1>1, <1>2, DefaultFacts DEF TypeOK
<1>4. Phases'
  <2>1. \A S : <<>> \in Seq(S)
    OBVIOUS
  <2>2. QED
    BY <1>1, <2>1, PendingNone, SettingNames DEF Phases
<1>5. Jobs'
  BY <1>1, IdleIsNoJob DEF Jobs, Threads
<1>6. ASSUME NEW s \in Settings
      PROVE  SettingOK(s)'
  <2>1. SettingOK(s) /\ Loaded(s)' = Loaded(s) /\ (VersionMatches' <=> VersionMatches)
        /\ ~Pending(s, todo') /\ (todo = <<>> => ~Pending(s, todo))
        /\ (Pending(s, todo)' <=> Pending(s, todo'))
    BY <1>1, <1>2, PendingNone DEF Loaded, VersionMatches, Pending
  <2>2. ram'[s] \in InRam(s) /\ (s \in Backend => ram'[s] # Old)
    BY <1>1, Values
  <2>3. InStep(s)' /\ InUse(s)'
    BY <1>1 DEF InStep, InUse
  <2>4. QED
    BY <1>1, <2>1, <2>2, <2>3 DEF SettingOK
<1>7. QED
  BY <1>1, <1>3, <1>4, <1>5, <1>6 DEF IInv

-----------------------------------------------------------------------------
(* What the end of a command makes of its setting. *)

(* The new value is in RAM and in flash. *)
LEMMA WrittenOK ==
  ASSUME NEW s \in Settings, SettingOK(s), NEW v \in {Default[s]} \cup Usable(s),
         v # None, flash'[s] = v, ram'[s] = v, v \in allowed'[s],
         UNCHANGED <<phase, todo, torn>>, todo = <<>>, flash'["version"] = flash["version"],
         ~VersionMatches => allowed[s] \subseteq allowed'[s]
  PROVE  SettingOK(s)'
<1>1. /\ Loaded(s)' = v /\ (VersionMatches' <=> VersionMatches)
      /\ ~Pending(s, todo) /\ ~Pending(s, todo)'
  BY PendingNone DEF Loaded, VersionMatches, Pending
<1>2. /\ v \in Stored(s) /\ v \in InRam(s) /\ (s \in Backend => v # Old)
  BY Values
<1>3. InStep(s)' /\ InUse(s)'
  BY <1>1 DEF InStep, InUse
<1>4. QED
  BY <1>1, <1>2, <1>3 DEF SettingOK

(* RAM and flash are known to differ. *)
LEMMA DifferentOK ==
  ASSUME NEW s \in Settings, SettingOK(s), ram'[s] \in InRam(s), s \in Backend => ram'[s] # Old,
         flash'[s] = flash[s], allowed[s] \subseteq allowed'[s],
         ram'[s] \in {Loaded(s)} \cup Zero(s) \/ s \in failed',
         torn \/ s \in erred' \/ ram'[s] \in allowed'[s],
         s \notin Backend => s \in erred' \/ ram'[s] \in allowed'[s],
         s \notin Backend => Zero(s) = {},
         UNCHANGED <<phase, todo, torn>>, todo = <<>>, flash'["version"] = flash["version"]
  PROVE  SettingOK(s)'
<1>1. /\ Loaded(s)' = Loaded(s) /\ (VersionMatches' <=> VersionMatches)
      /\ ~Pending(s, todo) /\ ~Pending(s, todo)'
  BY PendingNone DEF Loaded, VersionMatches, Pending
<1>2. InStep(s)' /\ InUse(s)'
  BY <1>1, SettingNames DEF InStep, InUse
<1>3. QED
  BY <1>1, <1>2 DEF SettingOK

(* The value was in use already. *)
LEMMA KeptOK ==
  ASSUME NEW s \in Settings \ {"opt"}, SettingOK(s), Done(Sole(s, ram[s]), failed),
         ram[s] \notin Zero(s), ~Storing(s), phase = "up", todo = <<>>, s \in Backend \/ hooks = <<>>,
         flash'[s] = flash[s], ram'[s] = ram[s], failed' = failed,
         UNCHANGED <<phase, todo, hooks, torn>>, flash'["version"] = flash["version"]
  PROVE  SettingOK(s)'
<1>1. /\ Loaded(s)' = Loaded(s) /\ (VersionMatches' <=> VersionMatches)
      /\ ~Pending(s, todo) /\ ~Pending(s, todo)' /\ (s \in Backend \/ ~Pending(s, hooks))
  BY PendingNone DEF Loaded, VersionMatches, Pending
<1>2. /\ ram[s] \in allowed'[s]
      /\ s \in failed \/ (s \in Backend /\ ~VersionMatches) => allowed[s] \subseteq allowed'[s]
  BY DoneSole
<1>3. /\ s \in Backend /\ VersionMatches /\ s \notin failed => ram[s] = Loaded(s)
      /\ s \notin Backend /\ s \notin failed => ram[s] = Loaded(s)
  BY <1>1, SettingNames DEF SettingOK, InStep
<1>4. Loaded(s)' \in allowed'[s]
  BY <1>1, <1>2, <1>3 DEF SettingOK
<1>5. InStep(s)'
  BY <1>1, <1>3, SettingNames DEF InStep
<1>6. InUse(s)'
  BY <1>2 DEF InUse
<1>7. QED
  BY <1>1, <1>2, <1>4, <1>5, <1>6 DEF SettingOK

-----------------------------------------------------------------------------
(* set_model *)

(* While one thread works on a command the other does not, and the device   *)
(* is up.                                                                   *)
LEMMA OneJob ==
  ASSUME Phases, Jobs, NEW t \in Threads, job[t] # Idle
  PROVE  /\ \A u \in Threads : u # t => job[u] = Idle
         /\ phase = "up" /\ todo = <<>> /\ \A s : ~Pending(s, todo)
         /\ t = "listener" => hooks = <<>>
<1>1. phase = "up" /\ todo = <<>>
  BY DEF Phases
<1>2. QED
  BY <1>1, PendingNone DEF Jobs, Threads

(* The steps of set_model keep one job, whose id a reboot may bring back. *)
LEMMA ModelJobNext ==
  ASSUME Jobs, NEW t \in Threads, NEW j,
         \A u \in Threads : u # t => job[u] = Idle,
         job' = [job EXCEPT ![t] = j], hooks' = hooks,
         t = "listener" => hooks = <<>>,
         \/ j = Idle
         \/ /\ j \in ModelJob /\ j.id \in allowed'["model"]
            /\ j.pc \in {"set", "store"} => j.id \notin Broken
            /\ j.pc = "store" => ram'["model"] = j.id
  PROVE  Jobs'
<1>1. job'[t] = j /\ \A u \in Threads : u # t => job'[u] = Idle
  BY DEF Jobs
<1>2. job' \in [Threads -> {Idle} \cup ModelJob \cup SensorJob]
  BY DEF Jobs
<1>3. j \notin SensorJob /\ Idle \notin ModelJob /\ Idle \notin SensorJob
  BY IdleIsNoJob
<1>4. job'["worker"] \notin SensorJob
  BY <1>1, <1>3 DEF Threads
<1>5. QED
  BY <1>1, <1>2, <1>3, <1>4 DEF Jobs, Threads

(* MODEL, and an INVOKE that finds no engine. *)
LEMMA StartModelIInv ==
  ASSUME IInv, NEW t \in Threads, NEW id, StartModel(t, id),
         phase = "up", hooks = <<>>, \A u \in Threads : job[u] = Idle,
         UNCHANGED <<phase, todo, hooks, flash, ram, engine, camera, failed, torn, boots>>,
         commands' \in 0..MaxCommands
  PROVE  IInv'
<1>1. /\ TypeOK /\ Phases /\ Jobs /\ \A s \in Settings : SettingOK(s)
      /\ camera # None /\ "opt" \notin erred => camera \in allowed["opt"]
  BY DEF IInv
<1>2. /\ \A s \in Settings : allowed[s] \subseteq allowed'[s]
      /\ allowed'["opt"] = allowed["opt"]
      /\ erred \subseteq erred' /\ erred' \subseteq Settings
      /\ "opt" \notin erred' => "opt" \notin erred
  <2>1. CASE id \in Models
    <3>1. Attempt(Sole("model", id)) /\ erred' = erred
      BY <2>1 DEF StartModel
    <3>2. QED
      BY <1>1, <3>1, AttemptSole, SettingNames DEF TypeOK
  <2>2. CASE id \notin Models
    BY <1>1, <2>2, SettingNames DEF StartModel, TypeOK
  <2>3. QED
    BY <2>1, <2>2
<1>3. TypeOK' /\ Phases'
  BY <1>1, <1>2 DEF TypeOK, Phases, Pending
<1>4. Jobs'
  <2>1. CASE id \in Models
    <3> DEFINE j == [cmd |-> "model", id |-> id, pc |-> "load"]
    <3>1. job' = [job EXCEPT ![t] = j] /\ id \in allowed'["model"]
      <4>1. Attempt(Sole("model", id)) /\ job' = [job EXCEPT ![t] = j]
        BY <2>1 DEF StartModel, Start
      <4>2. QED
        BY <4>1, AttemptSole, SettingNames
    <3>2. j \in ModelJob /\ j.id = id /\ j.pc = "load"
      BY <2>1 DEF ModelJob
    <3> HIDE DEF j
    <3>3. QED
      BY <1>1, <3>1, <3>2, ModelJobNext
  <2>2. CASE id \notin Models
    BY <1>1, <2>2, IdleIsNoJob DEF StartModel, Jobs, Threads
  <2>3. QED
    BY <2>1, <2>2
<1>5. ASSUME NEW s \in Settings
      PROVE  SettingOK(s)'
  <2>1. Untouched(s)
    BY <1>2 DEF Untouched
  <2>2. ~Storing(s)
    BY Distinct DEF Storing, Idle
  <2>3. QED
    BY <1>1, <2>1, <2>2, Frame
<1>6. QED
  BY <1>1, <1>2, <1>3, <1>4, <1>5 DEF IInv

(* What a step of set_model starts from. *)
LEMMA ModelStep ==
  ASSUME IInv, NEW t \in Threads, job[t].cmd = "model"
  PROVE  /\ TypeOK /\ Phases /\ Jobs /\ \A s \in Settings : SettingOK(s)
         /\ camera # None /\ "opt" \notin erred => camera \in allowed["opt"]
         /\ job[t] \in ModelJob /\ job[t].id \in Models /\ job[t].id \in allowed["model"]
         /\ \A u \in Threads : u # t => job[u] = Idle
         /\ phase = "up" /\ todo = <<>> /\ \A s : ~Pending(s, todo)
         /\ t = "listener" => hooks = <<>>
         /\ \A s : Storing(s) <=> s = "model" /\ job[t].pc = "store"
<1>1. /\ TypeOK /\ Phases /\ Jobs /\ \A s \in Settings : SettingOK(s)
      /\ camera # None /\ "opt" \notin erred => camera \in allowed["opt"]
  BY DEF IInv
<1>2. job[t] \in ModelJob
  <2>1. job[t] \in {Idle} \cup ModelJob \cup SensorJob
    BY <1>1 DEF Jobs
  <2>2. Idle.cmd # "model" /\ \A j \in SensorJob : j.cmd # "model"
    BY Distinct DEF Idle, SensorJob
  <2>3. QED
    BY <2>1, <2>2
<1>3. job[t].id \in Models /\ job[t].id \in allowed["model"] /\ job[t] # Idle
  BY <1>1, <1>2, IdleIsNoJob DEF ModelJob, Jobs
<1>4. \A u \in Threads : u # t => job[u] = Idle
  BY <1>1, <1>3, OneJob
<1>5. \A s : Storing(s) <=> s = "model" /\ job[t].pc = "store"
  BY <1>4, Distinct DEF Storing, Idle
<1>6. QED
  BY <1>1, <1>2, <1>3, <1>4, <1>5, OneJob

LEMMA ModelLoadIInv == ASSUME IInv, NEW t \in Threads, ModelLoad(t) PROVE IInv'
<1> DEFINE j == [job[t] EXCEPT !.pc = "tensors"]
<1>1. /\ job[t].cmd = "model" /\ job[t].pc = "load" /\ engine' = job[t].id
      /\ job' = [job EXCEPT ![t] = j]
      /\ UNCHANGED <<phase, todo, hooks, flash, ram, camera, allowed, failed, erred, torn, boots, commands>>
  BY DEF ModelLoad, Start, history
<1>2. /\ TypeOK /\ Phases /\ Jobs /\ \A s \in Settings : SettingOK(s)
      /\ camera # None /\ "opt" \notin erred => camera \in allowed["opt"]
      /\ job[t] \in ModelJob /\ job[t].id \in Models /\ job[t].id \in allowed["model"]
      /\ \A u \in Threads : u # t => job[u] = Idle
      /\ phase = "up" /\ t = "listener" => hooks = <<>>
      /\ \A s : ~Storing(s)
  BY <1>1, ModelStep
<1>3. j \in ModelJob /\ j.id = job[t].id /\ j.pc = "tensors"
  BY <1>2 DEF ModelJob
<1> HIDE DEF j
<1>4. TypeOK'
  BY <1>1, <1>2 DEF TypeOK
<1>5. Phases'
  <2>1. phase = "up"
    BY <1>1, ModelStep
  <2>2. QED
    BY <1>1, <1>2, <2>1 DEF Phases, Pending
<1>6. Jobs'
  <2>1. t = "listener" => hooks = <<>>
    BY <1>1, ModelStep
  <2>2. QED
    BY <1>1, <1>2, <1>3, <2>1, ModelJobNext
<1>7. ASSUME NEW s \in Settings
      PROVE  SettingOK(s)'
  BY <1>1, <1>2, Frame DEF Untouched
<1>8. QED
  BY <1>1, <1>2, <1>4, <1>5, <1>6, <1>7 DEF IInv

LEMMA ModelTensorsIInv == ASSUME IInv, NEW t \in Threads, ModelTensors(t) PROVE IInv'
<1>1. /\ job[t].cmd = "model" /\ job[t].pc = "tensors"
      /\ UNCHANGED <<phase, todo, hooks, flash, camera, allowed, failed, torn, boots, commands>>
  BY DEF ModelTensors
<1>2. /\ TypeOK /\ Phases /\ Jobs /\ \A s \in Settings : SettingOK(s)
      /\ camera # None /\ "opt" \notin erred => camera \in allowed["opt"]
      /\ job[t] \in ModelJob /\ job[t].id \in Models /\ job[t].id \in allowed["model"]
      /\ \A u \in Threads : u # t => job[u] = Idle
      /\ t = "listener" => hooks = <<>>
      /\ \A s : ~Storing(s)
  BY <1>1, ModelStep
<1>3. phase = "up" /\ todo = <<>>
  BY <1>1, ModelStep
<1>4. CASE job[t].id \in Broken
  <2>1. /\ engine' = None /\ ram' = [ram EXCEPT !["model"] = Failed]
        /\ erred' = erred \cup {"model"} /\ job' = [job EXCEPT ![t] = Idle]
    BY <1>4 DEF ModelTensors, End
  <2>2. TypeOK'
    BY <1>1, <1>2, <2>1, SettingNames DEF TypeOK
  <2>3. Phases'
    BY <1>1, <1>2, <1>3, <2>1, SettingNames DEF Phases, Pending
  <2>4. Jobs'
    BY <1>1, <1>2, <2>1, ModelJobNext
  <2>5. ASSUME NEW s \in Settings
        PROVE  SettingOK(s)'
    <3>1. CASE s = "model"
      <4>1. ram'[s] = 0 /\ Zero(s) = {0} /\ s \in erred' /\ s \in Backend /\ 0 \in InRam(s) /\ 0 # Old
        BY <1>2, <2>1, <3>1, Distinct, SettingNames DEF TypeOK, Zero, Failed, InRam
      <4>2. QED
        BY <1>1, <1>2, <1>3, <4>1, DifferentOK
    <3>2. CASE s # "model"
      BY <1>1, <1>2, <2>1, <3>2, Frame DEF Untouched, TypeOK
    <3>3. QED
      BY <3>1, <3>2
  <2>6. QED
    BY <1>1, <1>2, <2>1, <2>2, <2>3, <2>4, <2>5 DEF IInv
<1>5. CASE job[t].id \notin Broken
  <2> DEFINE j == [job[t] EXCEPT !.pc = "set"]
  <2>1. job' = [job EXCEPT ![t] = j] /\ UNCHANGED <<engine, ram, erred>>
    BY <1>5 DEF ModelTensors, Start
  <2>2. j \in ModelJob /\ j.id = job[t].id /\ j.pc = "set"
    BY <1>2 DEF ModelJob
  <2> HIDE DEF j
  <2>3. TypeOK' /\ Phases'
    BY <1>1, <1>2, <1>3, <2>1 DEF TypeOK, Phases, Pending
  <2>4. Jobs'
    BY <1>1, <1>2, <1>5, <2>1, <2>2, ModelJobNext
  <2>5. ASSUME NEW s \in Settings
        PROVE  SettingOK(s)'
    BY <1>1, <1>2, <2>1, Frame DEF Untouched
  <2>6. QED
    BY <1>1, <1>2, <2>1, <2>3, <2>4, <2>5 DEF IInv
<1>6. QED
  BY <1>4, <1>5

LEMMA ModelSetIInv == ASSUME IInv, NEW t \in Threads, ModelSet(t) PROVE IInv'
<1> DEFINE id == job[t].id
<1>1. /\ job[t].cmd = "model" /\ job[t].pc = "set"
      /\ UNCHANGED <<phase, todo, hooks, flash, engine, camera, failed, torn, boots, commands>>
  BY DEF ModelSet
<1>2. /\ TypeOK /\ Phases /\ Jobs /\ \A s \in Settings : SettingOK(s)
      /\ camera # None /\ "opt" \notin erred => camera \in allowed["opt"]
      /\ job[t] \in ModelJob /\ id \in Models /\ id \in allowed["model"]
      /\ \A u \in Threads : u # t => job[u] = Idle
      /\ t = "listener" => hooks = <<>>
      /\ \A s : ~Storing(s)
  BY <1>1, ModelStep
<1>3. phase = "up" /\ todo = <<>> /\ id \notin Broken
  BY <1>1, <1>2, ModelStep DEF Jobs
<1>4. id # 0 /\ id # Old /\ Zero("model") = {0} /\ "model" \in Settings /\ "model" \in Backend
  BY <1>2, Distinct, SettingNames DEF Zero, Failed
<1>5. CASE ram["model"] = id
  <2>1. /\ job' = [job EXCEPT ![t] = Idle] /\ ram' = ram /\ Done(Sole("model", ram["model"]), failed)
    BY <1>5 DEF ModelSet, End
  <2>2. /\ \A r \in Settings : r # "model" => allowed'[r] = allowed[r] /\ (r \in erred' <=> r \in erred)
        /\ erred' \subseteq erred
    BY <1>4, <2>1, DoneSole
  <2>3. TypeOK' /\ Phases'
    BY <1>1, <1>2, <2>1, <2>2 DEF TypeOK, Phases, Pending
  <2>4. Jobs'
    BY <1>1, <1>2, <2>1, ModelJobNext
  <2>5. ASSUME NEW s \in Settings
        PROVE  SettingOK(s)'
    <3>1. CASE s = "model"
      BY <1>1, <1>2, <1>3, <1>4, <1>5, <2>1, <3>1, KeptOK, SettingNames
    <3>2. CASE s # "model"
      BY <1>1, <1>2, <2>1, <2>2, <3>2, Frame DEF Untouched
    <3>3. QED
      BY <3>1, <3>2
  <2>6. QED
    BY <1>1, <1>2, <2>1, <2>2, <2>3, <2>4, <2>5, SettingNames DEF IInv
<1>6. CASE ram["model"] # id
  <2> DEFINE j == [job[t] EXCEPT !.pc = "store"]
  <2>1. /\ job' = [job EXCEPT ![t] = j] /\ ram' = [ram EXCEPT !["model"] = id]
        /\ UNCHANGED <<allowed, erred>>
    BY <1>6 DEF ModelSet, Start
  <2>2. j \in ModelJob /\ j.id = id /\ j.pc = "store" /\ ram'["model"] = id /\ j.cmd = "model"
    BY <1>1, <1>2, <1>4, <2>1 DEF ModelJob, TypeOK
  <2> HIDE DEF j
  <2>3. TypeOK'
    BY <1>1, <1>2, <2>1 DEF TypeOK
  <2>4. Phases'
    BY <1>1, <1>2, <1>3, <2>1, SettingNames DEF Phases, Pending
  <2>5. Jobs'
    BY <1>1, <1>2, <1>3, <2>1, <2>2, ModelJobNext
  <2>6. ASSUME NEW s \in Settings
        PROVE  SettingOK(s)'
    <3>1. CASE s = "model"
      <4>1. job'[t] = j
        BY <1>2, <2>1 DEF Jobs
      <4>2. Storing(s)'
        BY <2>2, <3>1, <4>1 DEF Storing
      <4>3. Loaded(s)' = Loaded(s) /\ (VersionMatches' <=> VersionMatches) /\ (Pending(s, todo)' <=> Pending(s, todo))
        BY <1>1 DEF Loaded, VersionMatches, Pending
      <4>4. InStep(s)' /\ InUse(s)'
        BY <1>1, <1>2, <2>1, <2>2, <3>1, <4>2 DEF InStep, InUse
      <4>5. ram'[s] \in InRam(s)
        BY <1>2, <1>3, <2>2, <3>1 DEF InRam, Usable
      <4>6. QED
        BY <1>1, <1>2, <1>4, <2>1, <2>2, <3>1, <4>3, <4>4, <4>5 DEF SettingOK
    <3>2. CASE s # "model"
      BY <1>1, <1>2, <2>1, <3>2, Frame DEF Untouched, TypeOK
    <3>3. QED
      BY <3>1, <3>2
  <2>7. QED
    BY <1>1, <1>2, <2>1, <2>3, <2>4, <2>5, <2>6 DEF IInv
<1>7. QED
  BY <1>5, <1>6

LEMMA ModelStoreIInv == ASSUME IInv, NEW t \in Threads, ModelStore(t) PROVE IInv'
<1> DEFINE id == job[t].id
<1>1. /\ job[t].cmd = "model" /\ job[t].pc = "store" /\ job' = [job EXCEPT ![t] = Idle]
      /\ UNCHANGED <<phase, todo, hooks, ram, engine, camera, torn, boots, commands>>
  BY DEF ModelStore, End
<1>2. PICK ok \in BOOLEAN :
        /\ Emplace("model", ram["model"], ok)
        /\ IF ok THEN Done(Sole("model", id), {})
           ELSE erred' = erred \cup {"model"} /\ UNCHANGED allowed
  BY DEF ModelStore
<1>3. /\ TypeOK /\ Phases /\ Jobs /\ \A s \in Settings : SettingOK(s)
      /\ camera # None /\ "opt" \notin erred => camera \in allowed["opt"]
      /\ job[t] \in ModelJob /\ id \in Models /\ id \in allowed["model"]
      /\ \A u \in Threads : u # t => job[u] = Idle
      /\ t = "listener" => hooks = <<>>
      /\ \A s : Storing(s) => s = "model"
  BY <1>1, ModelStep
<1>4. phase = "up" /\ todo = <<>> /\ id \notin Broken /\ ram["model"] = id
  BY <1>1, <1>3, ModelStep DEF Jobs
<1>5. id # None /\ id # Old /\ "model" \in Settings /\ "model" \in Backend /\ "model" # "version" /\ "model" # "opt"
  BY <1>3, Distinct, SettingNames
<1>6. /\ \A r \in Settings \cup {"version"} : r # "model" =>
           flash'[r] = flash[r] /\ (r \in failed' <=> r \in failed)
      /\ DOMAIN flash' = Settings \cup {"version"} /\ failed' \subseteq Settings \cup {"version"}
      /\ ok => flash'["model"] = id
      /\ ~ok => flash' = flash /\ "model" \in failed'
  BY <1>2, <1>3, <1>4, <1>5, EmplaceFacts
<1>7. /\ \A r \in Settings : r # "model" => allowed'[r] = allowed[r] /\ (r \in erred' <=> r \in erred)
      /\ erred' \subseteq Settings
      /\ ok => id \in allowed'["model"] /\ (~VersionMatches => allowed["model"] \subseteq allowed'["model"])
  <2>1. CASE ok
    <3>1. Done(Sole("model", id), {})
      BY <1>2, <2>1
    <3>2. QED
      BY <1>3, <1>5, <3>1, DoneSole DEF TypeOK
  <2>2. CASE ~ok
    BY <1>2, <1>3, <1>5, <2>2 DEF TypeOK
  <2>3. QED
    BY <2>1, <2>2
<1>8. TypeOK'
  BY <1>1, <1>3, <1>5, <1>6, <1>7 DEF TypeOK
<1>9. Phases'
  BY <1>1, <1>3, <1>4 DEF Phases, Pending
<1>10. Jobs'
  BY <1>1, <1>3, ModelJobNext
<1>11. ASSUME NEW s \in Settings
       PROVE  SettingOK(s)'
  <2>0. flash'["version"] = flash["version"]
    BY <1>5, <1>6
  <2>1. CASE s = "model" /\ ok
    <3>1. id \in Usable(s)
      BY <1>3, <1>4, <2>1 DEF Usable
    <3>2. QED
      BY <1>1, <1>3, <1>4, <1>5, <1>6, <1>7, <2>0, <2>1, <3>1, WrittenOK
  <2>2. CASE s = "model" /\ ~ok
    <3>1. /\ ram'[s] \in InRam(s) /\ ram'[s] # Old /\ flash'[s] = flash[s]
          /\ s \in failed' /\ s \in erred' /\ allowed' = allowed
      BY <1>1, <1>2, <1>3, <1>4, <1>5, <1>6, <2>2 DEF SettingOK
    <3>2. QED
      BY <1>1, <1>3, <1>4, <1>5, <2>0, <2>2, <3>1, DifferentOK
  <2>3. CASE s # "model"
    BY <1>1, <1>3, <1>6, <1>7, <2>0, <2>3, Frame DEF Untouched
  <2>4. QED
    BY <2>1, <2>2, <2>3
<1>12. QED
  BY <1>1, <1>3, <1>5, <1>7, <1>8, <1>9, <1>10, <1>11, SettingNames DEF IInv

-----------------------------------------------------------------------------
(* set_sensor *)

(* The work of set_sensor as a job of the worker. *)
LEMMA SensorJobNext ==
  ASSUME Jobs, NEW j \in SensorJob, job["listener"] = Idle,
         job' = [job EXCEPT !["worker"] = j],
         j.id \in allowed'["sensor"],
         j.enable => j.opt \in Options \cap allowed'["opt"] /\ camera' = j.opt,
         ~j.enable => j.pc = "id" /\ camera' = None,
         j.event => j.enable /\ ram'["sensor"] = j.id,
         j.pc = "id" /\ j.enable /\ "opt" \notin failed' => flash'["opt"] = j.opt
  PROVE  Jobs'
<1>1. /\ job' \in [Threads -> {Idle} \cup ModelJob \cup SensorJob]
      /\ job'["worker"] = j /\ job'["listener"] = Idle
  BY DEF Jobs, Threads
<1>2. j \notin ModelJob /\ Idle \notin ModelJob
  BY IdleIsNoJob
<1>3. QED
  BY <1>1, <1>2 DEF Jobs, Threads

(* The start of set_sensor leaves the flash alone, and the listener idle. *)
LEMMA StartSensorIInv ==
  ASSUME IInv, NEW id, NEW enable \in BOOLEAN, NEW opt \in Options \cup {Unknown, Old, 0},
         NEW event \in BOOLEAN, StartSensor(id, enable, opt, event),
         event => enable /\ ram["sensor"] = id,
         phase = "up", \A u \in Threads : job[u] = Idle,
         hooks' \in Seq(Settings), Once(hooks'),
         \A s \in {"action", "net"} : Pending(s, hooks') <=> Pending(s, hooks),
         UNCHANGED <<phase, todo, flash, engine, failed, torn, boots>>,
         commands' \in 0..MaxCommands
  PROVE  IInv'
<1>1. /\ TypeOK /\ Phases /\ Jobs /\ \A s \in Settings : SettingOK(s)
      /\ camera # None /\ "opt" \notin erred => camera \in allowed["opt"]
      /\ todo = <<>> /\ \A s : ~Storing(s)
  BY Distinct DEF IInv, Phases, Storing, Idle
<1>2. Pending("action", hooks)' = Pending("action", hooks') /\ Pending("net", hooks)' = Pending("net", hooks')
  BY DEF Pending
<1>3. \A s \in Settings : s \notin Backend => (Pending(s, hooks') <=> Pending(s, hooks))
  BY SettingNames
<1>4. /\ SensorError \subseteq Settings /\ erred \subseteq SensorError
      /\ "opt" \in SensorError /\ "sensor" \in SensorError
  BY <1>1, SettingNames DEF TypeOK, SensorError
<1>5. "action" # "sensor" /\ "net" # "sensor" /\ "sensor" \in Settings /\ "opt" \in Settings /\ "sensor" \in Backend
  BY SettingNames
<1>6. CASE id # Camera
  <2>1. erred' = SensorError /\ UNCHANGED <<ram, camera, job, allowed>>
    BY <1>6 DEF StartSensor
  <2>2. TypeOK' /\ Phases' /\ Jobs'
    <3>1. TypeOK'
      BY <1>1, <1>4, <2>1 DEF TypeOK
    <3>2. Phases'
      BY <1>1, <1>2, <2>1 DEF Phases, Once
    <3>3. Jobs'
      BY <1>1, <2>1, IdleIsNoJob DEF Jobs, Threads
    <3>4. QED
      BY <3>1, <3>2, <3>3
  <2>3. ASSUME NEW s \in Settings
        PROVE  SettingOK(s)'
    BY <1>1, <1>3, <1>4, <2>1, Frame DEF Untouched
  <2>4. QED
    BY <1>4, <2>1, <2>2, <2>3 DEF IInv
<1>7. CASE id = Camera
  <2> DEFINE stopped(d) == camera = None \/ d
             j == [cmd |-> "sensor", id |-> id, enable |-> enable, opt |-> opt, event |-> event,
                   pc |-> IF enable THEN "opt" ELSE "id"]
             new == IF enable THEN [s \in {"sensor", "opt"} |-> IF s = "opt" THEN opt ELSE id]
                    ELSE Sole("sensor", id)
  <2>1. PICK d, i \in BOOLEAN :
          /\ camera = None => d
          /\ enable /\ OptionRefused(opt) => ~i
          /\ camera' = IF ~stopped(d) THEN camera ELSE IF enable /\ i THEN opt ELSE None
          /\ IF stopped(d) /\ (enable => i)
             THEN /\ job' = [job EXCEPT !["worker"] = j] /\ Attempt(new)
                  /\ UNCHANGED <<ram, erred>>
             ELSE /\ ram' = [ram EXCEPT !["sensor"] = Failed]
                  /\ erred' = SensorError
                  /\ UNCHANGED <<job, allowed>>
    BY <1>7, Zenon DEF StartSensor, Start
  <2>2. camera' \in Options \cup {None}
    BY <1>1, <2>1 DEF TypeOK, OptionRefused
  <2>3. CASE stopped(d) /\ (enable => i)
    <3>1. /\ job' = [job EXCEPT !["worker"] = j] /\ Attempt(new) /\ UNCHANGED <<ram, erred>>
          /\ camera' = IF enable THEN opt ELSE None
          /\ enable => opt \in Options
      BY <2>1, <2>3 DEF OptionRefused
    <3>2. /\ \A s \in Settings : allowed[s] \subseteq allowed'[s]
          /\ id \in allowed'["sensor"] /\ (enable => opt \in allowed'["opt"])
      <4>1. /\ DOMAIN new \subseteq Settings /\ "sensor" \in DOMAIN new /\ new["sensor"] = id
            /\ enable => "opt" \in DOMAIN new /\ new["opt"] = opt
        BY <1>5, SoleFacts
      <4> HIDE DEF new
      <4>2. QED
        BY <3>1, <4>1, AttemptFacts
    <3>3. /\ j \in SensorJob /\ j.id = id /\ j.enable = enable /\ j.opt = opt /\ j.event = event
          /\ j.pc = IF enable THEN "opt" ELSE "id"
      BY <1>7 DEF SensorJob
    <3> HIDE DEF j, new
    <3>4. TypeOK'
      BY <1>1, <2>2, <3>1 DEF TypeOK
    <3>5. Phases'
      BY <1>1, <1>2, <3>1 DEF Phases, Once
    <3>6. Jobs'
      <4>1. job["listener"] = Idle /\ enable \in BOOLEAN /\ event \in BOOLEAN
        BY DEF Threads
      <4>2. j.pc = "id" => ~j.enable
        BY <3>3
      <4>3. QED
        BY <1>1, <3>1, <3>2, <3>3, <4>1, <4>2, SensorJobNext
    <3>7. ASSUME NEW s \in Settings
          PROVE  SettingOK(s)'
      BY <1>1, <1>3, <3>1, <3>2, Frame DEF Untouched
    <3>8. camera' # None /\ "opt" \notin erred' => camera' \in allowed'["opt"]
      BY <3>1, <3>2
    <3>9. QED
      BY <3>4, <3>5, <3>6, <3>7, <3>8 DEF IInv
  <2>4. CASE ~(stopped(d) /\ (enable => i))
    <3>1. /\ ram' = [ram EXCEPT !["sensor"] = Failed] /\ erred' = SensorError
          /\ UNCHANGED <<job, allowed>>
      BY <2>1, <2>4
    <3>2. TypeOK'
      BY <1>1, <1>4, <2>2, <3>1 DEF TypeOK
    <3>3. Phases'
      BY <1>1, <1>2, <1>5, <3>1 DEF Phases, Once
    <3>4. Jobs'
      BY <1>1, <3>1, IdleIsNoJob DEF Jobs, Threads
    <3>5. ASSUME NEW s \in Settings
          PROVE  SettingOK(s)'
      <4>1. CASE s = "sensor"
        <5>1. ram'[s] = 0 /\ Zero(s) = {0} /\ s \in erred' /\ s \in Backend /\ 0 \in InRam(s) /\ 0 # Old
          BY <1>1, <1>4, <1>5, <3>1, <4>1, Distinct DEF TypeOK, Zero, Failed, InRam
        <5>2. QED
          BY <1>1, <3>1, <5>1, DifferentOK
      <4>2. CASE s # "sensor"
        BY <1>1, <1>3, <1>4, <3>1, <4>2, Frame DEF Untouched, TypeOK
      <4>3. QED
        BY <4>1, <4>2
    <3>6. QED
      BY <1>4, <3>1, <3>2, <3>3, <3>4, <3>5 DEF IInv
  <2>5. QED
    BY <2>3, <2>4
<1>8. QED
  BY <1>6, <1>7

(* What the second and the third step of set_sensor start from. *)
LEMMA SensorStep ==
  ASSUME IInv, job["worker"].cmd = "sensor"
  PROVE  /\ TypeOK /\ Phases /\ Jobs /\ \A s \in Settings : SettingOK(s)
         /\ camera # None /\ "opt" \notin erred => camera \in allowed["opt"]
         /\ job["worker"] \in SensorJob /\ job["worker"].id = Camera
         /\ job["worker"].enable \in BOOLEAN /\ job["worker"].event \in BOOLEAN
         /\ job["listener"] = Idle /\ phase = "up" /\ todo = <<>>
         /\ \A s : ~Storing(s)
<1>1. /\ TypeOK /\ Phases /\ Jobs /\ \A s \in Settings : SettingOK(s)
      /\ camera # None /\ "opt" \notin erred => camera \in allowed["opt"]
  BY DEF IInv
<1>2. job["worker"] \in SensorJob
  <2>1. job["worker"] \in {Idle} \cup ModelJob \cup SensorJob
    BY <1>1 DEF Jobs, Threads
  <2>2. Idle.cmd # "sensor" /\ \A j \in ModelJob : j.cmd # "sensor"
    BY Distinct DEF Idle, ModelJob
  <2>3. QED
    BY <2>1, <2>2
<1>3. job["worker"].id = Camera /\ job["worker"].enable \in BOOLEAN /\ job["worker"].event \in BOOLEAN
  BY <1>2 DEF SensorJob
<1>4. job["listener"] = Idle /\ phase = "up" /\ todo = <<>>
  BY <1>1, <1>2, IdleIsNoJob DEF Jobs, Phases, Threads
<1>5. \A s : ~Storing(s)
  BY <1>4, Distinct DEF Storing, Idle, Threads
<1>6. QED
  BY <1>1, <1>2, <1>3, <1>4, <1>5

LEMMA SensorOptIInv == ASSUME IInv, SensorOpt PROVE IInv'
<1> DEFINE o == job["worker"]
           j == [job["worker"] EXCEPT !.pc = "id"]
<1>1. /\ o.cmd = "sensor" /\ o.pc = "opt" /\ job' = [job EXCEPT !["worker"] = j]
      /\ UNCHANGED <<phase, todo, hooks, ram, engine, camera, allowed, erred, torn, boots, commands>>
  BY DEF SensorOpt, Start
<1>2. PICK ok \in BOOLEAN : Emplace("opt", o.opt, ok)
  BY DEF SensorOpt
<1>3. /\ TypeOK /\ Phases /\ Jobs /\ \A s \in Settings : SettingOK(s)
      /\ camera # None /\ "opt" \notin erred => camera \in allowed["opt"]
      /\ o \in SensorJob /\ job["listener"] = Idle /\ phase = "up" /\ todo = <<>>
      /\ \A s : ~Storing(s)
  BY <1>1, SensorStep
<1>4. /\ o.id \in allowed["sensor"] /\ o.enable /\ o.opt \in Options \cap allowed["opt"]
      /\ camera = o.opt /\ (o.event => ram["sensor"] = o.id)
  BY <1>1, <1>3 DEF Jobs
<1>5. /\ j \in SensorJob /\ j.id = o.id /\ j.enable = o.enable /\ j.opt = o.opt /\ j.event = o.event
      /\ j.pc = "id"
  BY <1>3 DEF SensorJob
<1> HIDE DEF j
<1>6. "opt" \in Settings /\ "opt" # "version" /\ o.opt # Old /\ o.opt # None
  BY <1>4, Distinct, SettingNames
<1>7. /\ \A r \in Settings \cup {"version"} : r # "opt" =>
           flash'[r] = flash[r] /\ (r \in failed' <=> r \in failed)
      /\ DOMAIN flash' = Settings \cup {"version"} /\ failed' \subseteq Settings \cup {"version"}
      /\ ok => flash'["opt"] = o.opt
      /\ ~ok => flash' = flash /\ "opt" \in failed'
  BY <1>2, <1>3, <1>6, EmplaceFacts
<1>8. TypeOK' /\ Phases'
  <2>1. TypeOK'
    BY <1>1, <1>3, <1>6, <1>7 DEF TypeOK
  <2>2. Phases'
    BY <1>1, <1>3 DEF Phases, Pending
  <2>3. QED
    BY <2>1, <2>2
<1>9. Jobs'
  BY <1>1, <1>3, <1>4, <1>5, <1>7, SensorJobNext
<1>10. ASSUME NEW s \in Settings
       PROVE  SettingOK(s)'
  <2>0. flash'["version"] = flash["version"]
    BY <1>6, <1>7
  <2>1. CASE s = "opt"
    <3>1. VersionMatches' = VersionMatches /\ (Pending(s, todo)' <=> Pending(s, todo)) /\ ~Pending(s, todo)
      BY <1>1, <1>3, <2>0, PendingNone DEF VersionMatches, Pending
    <3>2. flash'[s] \in Stored(s) /\ (flash'[s] = Old => flash[s] = Old)
      BY <1>3, <1>4, <1>6, <1>7, <2>1 DEF SettingOK, Stored, Usable
    <3>3. Loaded(s)' \in allowed'[s]
      BY <1>1, <1>3, <1>4, <1>6, <1>7, <2>1 DEF Loaded, SettingOK
    <3>4. InStep(s)' /\ InUse(s)'
      BY <2>1 DEF InStep, InUse
    <3>5. QED
      BY <1>1, <1>3, <3>1, <3>2, <3>3, <3>4 DEF SettingOK
  <2>2. CASE s # "opt"
    BY <1>1, <1>3, <1>7, <2>0, <2>2, Frame DEF Untouched
  <2>3. QED
    BY <2>1, <2>2
<1>11. QED
  BY <1>1, <1>3, <1>8, <1>9, <1>10 DEF IInv

(* The promise at the end of a SENSOR command: that of the camera, and of   *)
(* the option when the camera was started.                                  *)
LEMMA DoneSensor ==
  ASSUME NEW enable \in BOOLEAN, NEW opt, NEW id, NEW bad,
         Done(IF enable THEN [s \in {"sensor", "opt"} |-> IF s = "opt" THEN opt ELSE id]
              ELSE Sole("sensor", id), bad)
  PROVE  /\ \A r \in Settings : r \notin {"sensor", "opt"} =>
              allowed'[r] = allowed[r] /\ (r \in erred' <=> r \in erred)
         /\ erred' \subseteq erred
         /\ id \in allowed'["sensor"]
         /\ "sensor" \in bad \/ ~VersionMatches => allowed["sensor"] \subseteq allowed'["sensor"]
         /\ "opt" \in bad \/ ~VersionMatches => allowed["opt"] \subseteq allowed'["opt"]
         /\ IF enable THEN opt \in allowed'["opt"]
            ELSE allowed'["opt"] = allowed["opt"] /\ ("opt" \in erred' <=> "opt" \in erred)
<1> DEFINE new == IF enable THEN [s \in {"sensor", "opt"} |-> IF s = "opt" THEN opt ELSE id]
                  ELSE Sole("sensor", id)
<1>1. /\ DOMAIN new = IF enable THEN {"sensor", "opt"} ELSE {"sensor"}
      /\ new["sensor"] = id /\ (enable => new["opt"] = opt)
  BY SoleFacts
<1>2. Done(new, bad)
  OBVIOUS
<1>3. {"sensor", "opt"} \subseteq Backend /\ {"sensor", "opt"} \subseteq Settings
  BY SettingNames
<1> HIDE DEF new
<1>4. DOMAIN new \subseteq Settings
  BY <1>1, <1>3
<1>5. /\ \A r \in Settings \ DOMAIN new :
           allowed'[r] = allowed[r] /\ (r \in erred' <=> r \in erred)
      /\ \A r \in DOMAIN new :
           /\ new[r] \in allowed'[r]
           /\ r \in bad \/ (r \in Backend /\ ~VersionMatches) => allowed[r] \subseteq allowed'[r]
      /\ erred' \subseteq erred
  BY <1>2, <1>4, DoneFacts
<1>6. QED
  BY <1>1, <1>3, <1>5

LEMMA SensorIdIInv == ASSUME IInv, SensorId PROVE IInv'
<1> DEFINE o == job["worker"]
           changed == ram["sensor"] # o.id
           new == IF o.enable THEN [s \in {"sensor", "opt"} |-> IF s = "opt" THEN o.opt ELSE o.id]
                  ELSE Sole("sensor", o.id)
<1>1. /\ o.cmd = "sensor" /\ o.pc = "id" /\ job' = [job EXCEPT !["worker"] = Idle]
      /\ ram' = [ram EXCEPT !["sensor"] = o.id]
      /\ UNCHANGED <<phase, todo, hooks, engine, camera, torn, boots, commands>>
  BY DEF SensorId, End
<1>2. IF changed /\ ~o.event
      THEN \E ok \in BOOLEAN :
             /\ Emplace("sensor", o.id, ok)
             /\ IF ok THEN Done(new, failed') ELSE erred' = SensorError /\ UNCHANGED allowed
      ELSE /\ UNCHANGED <<flash, failed>>
           /\ IF o.event THEN UNCHANGED <<allowed, erred>> ELSE Done(new, failed)
  BY DEF SensorId
<1>3. /\ TypeOK /\ Phases /\ Jobs /\ \A s \in Settings : SettingOK(s)
      /\ camera # None /\ "opt" \notin erred => camera \in allowed["opt"]
      /\ o \in SensorJob /\ o.id = Camera /\ o.enable \in BOOLEAN /\ o.event \in BOOLEAN
      /\ job["listener"] = Idle /\ phase = "up" /\ todo = <<>>
      /\ \A s : ~Storing(s)
  BY <1>1, SensorStep
<1>4. /\ o.id \in allowed["sensor"]
      /\ o.enable => o.opt \in Options \cap allowed["opt"] /\ camera = o.opt
      /\ ~o.enable => camera = None
      /\ o.event => o.enable /\ ram["sensor"] = o.id
      /\ o.enable /\ "opt" \notin failed => flash["opt"] = o.opt
  BY <1>1, <1>3 DEF Jobs
<1>5. /\ "sensor" \in Settings /\ "opt" \in Settings /\ "sensor" # "opt" /\ "sensor" # "version"
      /\ "sensor" \in Backend /\ o.id = 1 /\ o.id # None /\ o.id # Old /\ o.id \in Usable("sensor")
      /\ "opt" \in Backend /\ "opt" # "version" /\ SensorError = erred \cup {"sensor", "opt"}
      /\ Zero("sensor") = {0}
  BY <1>3, Distinct, SettingNames DEF Camera, Usable, SensorError, Zero, Failed
<1>6. o.enable => (o.opt # None /\ ("opt" \notin failed => Loaded("opt") = o.opt))
  BY <1>4, Distinct DEF Loaded
<1>7. ram'["sensor"] = o.id /\ \A s \in Settings : s # "sensor" => ram'[s] = ram[s]
  BY <1>1, <1>3, <1>5 DEF TypeOK
<1>8. \E bad :
        /\ \/ /\ Done(new, bad)
              /\ \/ UNCHANGED <<flash, failed>> /\ ~changed /\ bad = failed
                 \/ Emplace("sensor", o.id, TRUE) /\ bad = failed'
           \/ UNCHANGED <<flash, failed, allowed, erred>> /\ ~changed
           \/ Emplace("sensor", o.id, FALSE) /\ erred' = SensorError /\ UNCHANGED allowed
  <2>1. CASE changed /\ ~o.event
    <3>1. PICK ok \in BOOLEAN :
             /\ Emplace("sensor", o.id, ok)
             /\ IF ok THEN Done(new, failed') ELSE erred' = SensorError /\ UNCHANGED allowed
      BY <1>2, <2>1
    <3>2. CASE ok
      BY <3>1, <3>2
    <3>3. CASE ~ok
      BY <3>1, <3>3
    <3>4. QED
      BY <3>2, <3>3
  <2>2. CASE ~(changed /\ ~o.event)
    BY <1>2, <1>4, <2>2
  <2>3. QED
    BY <2>1, <2>2
<1>9. /\ \A r \in Settings \cup {"version"} : r # "sensor" =>
           flash'[r] = flash[r] /\ (r \in failed' <=> r \in failed)
      /\ DOMAIN flash' = Settings \cup {"version"} /\ failed' \subseteq Settings \cup {"version"}
  BY <1>3, <1>5, <1>8, EmplaceFacts DEF TypeOK
<1>10. /\ \A r \in Settings : r \notin {"sensor", "opt"} =>
            allowed'[r] = allowed[r] /\ (r \in erred' <=> r \in erred)
       /\ erred' \subseteq Settings
       /\ IF o.enable THEN "opt" \in erred' \/ o.opt \in allowed'["opt"]
          ELSE "opt" \in erred => "opt" \in erred'
       /\ Loaded("opt") \in allowed'["opt"]
       /\ ~VersionMatches => allowed["opt"] \subseteq allowed'["opt"]
  <2>1. erred \subseteq Settings /\ Loaded("opt") \in allowed["opt"]
    BY <1>3, <1>5 DEF TypeOK, SettingOK
  <2>2. CASE \E bad : Done(new, bad) /\ ("opt" \in bad <=> "opt" \in failed)
    <3>1. PICK bad : Done(new, bad) /\ ("opt" \in bad <=> "opt" \in failed)
      BY <2>2
    <3>2. /\ \A r \in Settings : r \notin {"sensor", "opt"} =>
               allowed'[r] = allowed[r] /\ (r \in erred' <=> r \in erred)
          /\ erred' \subseteq erred
          /\ "opt" \in bad \/ ~VersionMatches => allowed["opt"] \subseteq allowed'["opt"]
          /\ IF o.enable THEN o.opt \in allowed'["opt"]
             ELSE allowed'["opt"] = allowed["opt"] /\ ("opt" \in erred' <=> "opt" \in erred)
      BY <1>3, <3>1, DoneSensor
    <3>3. QED
      BY <1>6, <2>1, <3>1, <3>2
  <2>3. CASE UNCHANGED allowed /\ (erred' = erred \/ erred' = SensorError)
    BY <1>4, <1>5, <2>1, <2>3
  <2>4. QED
    BY <1>5, <1>8, <1>9, <2>2, <2>3
<1>11. TypeOK' /\ Phases'
  <2>1. TypeOK'
    BY <1>1, <1>3, <1>5, <1>9, <1>10 DEF TypeOK
  <2>2. Phases'
    BY <1>1, <1>3, <1>5, <1>7, SettingNames DEF Phases, Pending
  <2>3. QED
    BY <2>1, <2>2
<1>12. Jobs'
  BY <1>1, <1>3, IdleIsNoJob DEF Jobs, Threads
<1>13. SettingOK("sensor")'
  <2>1. SettingOK("sensor") /\ flash'["version"] = flash["version"] /\ (VersionMatches <=> VersionMatches')
    BY <1>3, <1>5, <1>9 DEF VersionMatches
  <2>2. CASE Emplace("sensor", o.id, TRUE) /\ Done(new, failed')
    <3>1. flash'["sensor"] = o.id
      BY <1>3, <1>5, <2>2, EmplaceFacts
    <3>2. o.id \in allowed'["sensor"] /\ (~VersionMatches => allowed["sensor"] \subseteq allowed'["sensor"])
      BY <1>3, <2>2, DoneSensor
    <3>3. QED
      BY <1>1, <1>3, <1>5, <1>7, <2>1, <3>1, <3>2, WrittenOK
  <2>3. CASE UNCHANGED <<flash, failed>> /\ ~changed /\ Done(new, failed)
    <3>1. /\ o.id \in allowed'["sensor"]
          /\ "sensor" \in failed \/ ~VersionMatches => allowed["sensor"] \subseteq allowed'["sensor"]
      BY <1>3, <2>3, DoneSensor
    <3>2. /\ Loaded("sensor")' = Loaded("sensor") /\ ~Pending("sensor", todo) /\ ~Pending("sensor", todo)'
      BY <1>1, <1>3, <2>3, PendingNone DEF Loaded, Pending
    <3>3. VersionMatches /\ "sensor" \notin failed => Loaded("sensor") = o.id
      BY <1>3, <1>5, <2>1, <2>3, <3>2 DEF SettingOK, InStep
    <3>4. InStep("sensor")' /\ InUse("sensor")'
      BY <1>5, <1>7, <2>1, <2>3, <3>1, <3>2, <3>3 DEF InStep, InUse
    <3>5. QED
      BY <1>1, <1>5, <1>7, <2>1, <2>3, <3>1, <3>2, <3>3, <3>4 DEF SettingOK
  <2>4. CASE UNCHANGED <<flash, failed, allowed, erred>> /\ ~changed
    BY <1>1, <1>3, <1>5, <1>7, <2>1, <2>4, Frame DEF Untouched
  <2>5. CASE Emplace("sensor", o.id, FALSE) /\ erred' = SensorError /\ UNCHANGED allowed
    <3>1. flash' = flash /\ "sensor" \in failed' /\ "sensor" \in erred'
      BY <1>3, <1>5, <2>5, EmplaceFacts
    <3>2. ram'["sensor"] \in InRam("sensor") /\ ram'["sensor"] # Old
      BY <1>5, <1>7 DEF InRam
    <3>3. QED
      BY <1>1, <1>3, <1>5, <2>1, <2>5, <3>1, <3>2, DifferentOK
  <2>6. QED
    BY <1>8, <2>2, <2>3, <2>4, <2>5
<1>14. SettingOK("opt")'
  <2>1. /\ SettingOK("opt") /\ flash'["opt"] = flash["opt"] /\ ram'["opt"] = ram["opt"]
        /\ (VersionMatches <=> VersionMatches') /\ Loaded("opt")' = Loaded("opt")
        /\ ~Pending("opt", todo) /\ ~Pending("opt", todo)'
    BY <1>1, <1>3, <1>5, <1>7, <1>9, PendingNone DEF VersionMatches, Loaded, Pending
  <2>2. InStep("opt")' /\ InUse("opt")'
    BY DEF InStep, InUse
  <2>3. QED
    BY <1>1, <1>5, <1>10, <2>1, <2>2 DEF SettingOK
<1>15. ASSUME NEW s \in Settings
       PROVE  SettingOK(s)'
  <2>1. CASE s \notin {"sensor", "opt"}
    BY <1>1, <1>3, <1>5, <1>7, <1>9, <1>10, <2>1, Frame DEF Untouched
  <2>2. QED
    BY <1>13, <1>14, <2>1
<1>16. camera' # None /\ "opt" \notin erred' => camera' \in allowed'["opt"]
  BY <1>1, <1>4, <1>10
<1>17. QED
  BY <1>11, <1>12, <1>15, <1>16 DEF IInv

-----------------------------------------------------------------------------
(* ALGO, ACTION and WIFI, and the hooks of the INIT task. *)

(* A step of the worker that has no job, before it or after it, carries the *)
(* invariant as soon as the settings do.                                    *)
LEMMA NoJobStep ==
  ASSUME IInv, phase = "up", job["worker"] = Idle,
         UNCHANGED <<phase, todo, engine, camera, job, torn, boots>>,
         commands' \in 0..MaxCommands,
         DOMAIN flash' = Settings \cup {"version"}, flash'["version"] = flash["version"],
         DOMAIN ram' = Settings, failed' \subseteq Settings \cup {"version"}, erred' \subseteq Settings,
         hooks' \in Seq(Settings), Once(hooks'), hooks = <<>> => hooks' = <<>>,
         \A s \in {"action", "net"} : Pending(s, hooks') => Pending(s, hooks) /\ ram'[s] = ram[s],
         ram'["model"] = ram["model"], allowed'["model"] = allowed["model"],
         allowed["opt"] \subseteq allowed'["opt"], "opt" \in erred => "opt" \in erred',
         \A s \in Settings : SettingOK(s)'
  PROVE  IInv'
<1>1. /\ TypeOK /\ Phases /\ Jobs /\ todo = <<>>
      /\ camera # None /\ "opt" \notin erred => camera \in allowed["opt"]
  BY DEF IInv, Phases
<1>2. TypeOK'
  BY <1>1 DEF TypeOK
<1>3. Phases'
  BY <1>1 DEF Phases, Pending, Once
<1>4. Jobs'
  BY <1>1, IdleIsNoJob DEF Jobs, Threads
<1>5. QED
  BY <1>1, <1>2, <1>3, <1>4 DEF IInv

(* The three ways in which a command on one setting s ends. *)
LEMMA SetAndStoreOK ==
  ASSUME TypeOK, NEW s \in Settings, SettingOK(s), NEW v \in {Default[s]} \cup Usable(s), v # None,
         SetAndStore(s, v, FALSE),
         UNCHANGED <<phase, todo, torn>>, todo = <<>>, Zero(s) = {}
  PROVE  /\ SettingOK(s)'
         /\ DOMAIN flash' = Settings \cup {"version"} /\ flash'["version"] = flash["version"]
         /\ DOMAIN ram' = Settings
         /\ failed' \subseteq Settings \cup {"version"} /\ erred' \subseteq Settings
         /\ \A r \in Settings : r # s =>
              /\ flash'[r] = flash[r] /\ ram'[r] = ram[r] /\ allowed'[r] = allowed[r]
              /\ (r \in failed' <=> r \in failed) /\ (r \in erred' <=> r \in erred)
<1>1. PICK ok \in BOOLEAN :
        /\ Emplace(s, v, ok)
        /\ IF ok THEN Done(Sole(s, v), {}) ELSE Attempt(Sole(s, v)) /\ erred' = erred \cup {s}
  BY DEF SetAndStore
<1>2. ram' = [ram EXCEPT ![s] = v]
  BY DEF SetAndStore
<1>3. /\ ram'[s] = v /\ DOMAIN ram' = Settings /\ \A r \in Settings : r # s => ram'[r] = ram[r]
      /\ s # "version" /\ erred \subseteq Settings
  BY <1>2, SettingNames DEF TypeOK
<1>4. /\ \A r \in Settings \cup {"version"} : r # s =>
           flash'[r] = flash[r] /\ (r \in failed' <=> r \in failed)
      /\ DOMAIN flash' = Settings \cup {"version"} /\ failed' \subseteq Settings \cup {"version"}
      /\ ok => flash'[s] = v
      /\ ~ok => flash' = flash /\ s \in failed'
  <2>1. Emplace(s, v, ok) /\ s \in Settings \cup {"version"}
    BY <1>1
  <2>2. QED
    BY <2>1, EmplaceFacts
<1>5. v \in InRam(s) /\ (s \in Backend => v # Old)
  BY Values
<1>6. CASE ok
  <2>1. Done(Sole(s, v), {})
    BY <1>1, <1>6
  <2>2. /\ \A r \in Settings : r # s => allowed'[r] = allowed[r] /\ (r \in erred' <=> r \in erred)
        /\ v \in allowed'[s]
        /\ s \in Backend /\ ~VersionMatches => allowed[s] \subseteq allowed'[s]
        /\ erred' \subseteq erred
    BY <2>1, DoneSole
  <2>3. SettingOK(s)'
    <3>1. CASE s \in Backend
      BY <1>3, <1>4, <1>6, <2>2, <3>1, WrittenOK
    <3>2. CASE s \notin Backend
      <4>1. Loaded(s)' = v
        BY <1>4, <1>6 DEF Loaded
      <4>2. InStep(s)' /\ InUse(s)'
        BY <1>3, <2>2, <3>2, <4>1, SettingNames DEF InStep, InUse
      <4>3. v \in Stored(s)
        BY Values
      <4>4. QED
        BY <1>3, <1>4, <1>5, <1>6, <2>2, <3>2, <4>1, <4>2, <4>3 DEF SettingOK
    <3>3. QED
      BY <3>1, <3>2
  <2>4. QED
    BY <1>3, <1>4, <2>2, <2>3
<1>7. CASE ~ok
  <2>1. Attempt(Sole(s, v)) /\ erred' = erred \cup {s}
    BY <1>1, <1>7
  <2>2. /\ \A r \in Settings : allowed[r] \subseteq allowed'[r]
        /\ \A r \in Settings : r # s => allowed'[r] = allowed[r]
    BY <2>1, AttemptSole
  <2>3. SettingOK(s)'
    BY <1>3, <1>4, <1>5, <1>7, <2>1, <2>2, DifferentOK
  <2>4. QED
    BY <1>3, <1>4, <2>1, <2>2, <2>3
<1>8. QED
  BY <1>6, <1>7

LEMMA UnchangedOK ==
  ASSUME TypeOK, NEW s \in Settings \ {"opt"}, SettingOK(s), Unchanged(s, FALSE), Zero(s) = {},
         s # "model", UNCHANGED <<phase, todo, hooks, torn>>, phase = "up", todo = <<>>, hooks = <<>>
  PROVE  /\ SettingOK(s)' /\ UNCHANGED <<flash, ram, failed>> /\ erred' \subseteq Settings
         /\ \A r \in Settings : r # s => allowed'[r] = allowed[r] /\ (r \in erred' <=> r \in erred)
<1>1. Done(Sole(s, ram[s]), failed) /\ UNCHANGED <<flash, ram, failed>>
  BY DEF Unchanged
<1>2. /\ \A r \in Settings : r # s => allowed'[r] = allowed[r] /\ (r \in erred' <=> r \in erred)
      /\ erred' \subseteq erred
  BY <1>1, DoneSole
<1>3. ~Storing(s)
  BY DEF Storing
<1>4. SettingOK(s)'
  BY <1>1, <1>3, KeptOK
<1>5. QED
  BY <1>1, <1>2, <1>4 DEF TypeOK

LEMMA RefuseOK ==
  ASSUME TypeOK, NEW s \in Settings, SettingOK(s), Refuse(s),
         s # "model", UNCHANGED <<phase, todo, hooks, torn>>
  PROVE  /\ SettingOK(s)' /\ UNCHANGED <<flash, ram, failed, allowed>> /\ erred' \subseteq Settings
         /\ \A r \in Settings : r # s => (r \in erred' <=> r \in erred)
<1>1. /\ erred' = erred \cup {s} /\ UNCHANGED <<ram, flash, allowed, failed>>
      /\ ~Storing(s)
  BY DEF Refuse, Storing
<1>2. SettingOK(s)'
  BY <1>1, Frame DEF Untouched
<1>3. QED
  BY <1>1, <1>2 DEF TypeOK

(* What a command on setting s, from the free worker, has to show. *)
LEMMA CommandIInv ==
  ASSUME IInv, NEW s \in {"algo", "action", "net"},
         phase = "up", hooks = <<>>, \A t \in Threads : job[t] = Idle,
         UNCHANGED <<phase, todo, hooks, engine, camera, job, torn, boots>>,
         commands' \in 0..MaxCommands,
         \/ \E v \in {Default[s]} \cup Usable(s) : v # None /\ SetAndStore(s, v, FALSE)
         \/ Unchanged(s, FALSE)
         \/ Refuse(s)
  PROVE  IInv'
<1>1. /\ TypeOK /\ Phases /\ \A r \in Settings : SettingOK(r)
      /\ todo = <<>> /\ hooks = <<>> /\ \A r : ~Storing(r)
  BY Distinct DEF IInv, Phases, Storing, Idle
<1>2. /\ s \in Settings \ {"opt"} /\ s # "model" /\ Zero(s) = {} /\ {"model", "opt", "version"} \cap {s} = {}
      /\ "model" \in Settings /\ "opt" \in Settings /\ "action" \in Settings /\ "net" \in Settings
  BY SettingNames DEF Zero
<1>3. /\ SettingOK(s)'
      /\ DOMAIN flash' = Settings \cup {"version"} /\ flash'["version"] = flash["version"]
      /\ DOMAIN ram' = Settings
      /\ failed' \subseteq Settings \cup {"version"} /\ erred' \subseteq Settings
      /\ \A r \in Settings : r # s =>
           /\ flash'[r] = flash[r] /\ ram'[r] = ram[r] /\ allowed'[r] = allowed[r]
           /\ (r \in failed' <=> r \in failed) /\ (r \in erred' <=> r \in erred)
  <2>1. CASE \E v \in {Default[s]} \cup Usable(s) : v # None /\ SetAndStore(s, v, FALSE)
    BY <1>1, <1>2, <2>1, SetAndStoreOK
  <2>2. CASE Unchanged(s, FALSE)
    BY <1>1, <1>2, <2>2, UnchangedOK DEF TypeOK
  <2>3. CASE Refuse(s)
    BY <1>1, <1>2, <2>3, RefuseOK DEF TypeOK
  <2>4. QED
    BY <2>1, <2>2, <2>3
<1>4. ASSUME NEW r \in Settings
      PROVE  SettingOK(r)'
  <2>1. CASE r # s
    BY <1>1, <1>3, <2>1, Frame DEF Untouched
  <2>2. QED
    BY <1>3, <2>1
<1>5. hooks' \in Seq(Settings) /\ Once(hooks') /\ \A r : ~Pending(r, hooks')
  BY <1>1, PendingNone DEF Phases
<1>6. job["worker"] = Idle
  BY DEF Threads
<1>7. QED
  BY <1>1, <1>2, <1>3, <1>4, <1>5, <1>6, NoJobStep

LEMMA AlgoIInv == ASSUME IInv, ~Pipelined, Algo PROVE IInv'
<1>1. PICK type \in Algorithms \cup {Undefined, Unknown} : SetAlgorithm(type, FALSE)
  BY DEF Algo
<1>2. /\ phase = "up" /\ hooks = <<>> /\ \A t \in Threads : job[t] = Idle
      /\ UNCHANGED <<phase, todo, hooks, engine, camera, job, torn, boots>>
      /\ commands' = commands + 1 /\ commands < MaxCommands
  BY DEF Algo, Free, Threads
<1>3. commands' \in 0..MaxCommands
  BY <1>2, SettingsAssumption DEF IInv, TypeOK
<1> DEFINE info == IF type \in Algorithms THEN type ELSE Undefined
<1>4. info \in {Default["algo"]} \cup Usable("algo") /\ info # None
  BY DefaultFacts, Distinct DEF Usable, Undefined
<1>5. \/ SetAndStore("algo", info, FALSE)
      \/ Unchanged("algo", FALSE)
      \/ Refuse("algo")
  BY <1>1 DEF SetAlgorithm
<1> HIDE DEF info
<1>6. QED
  BY <1>2, <1>3, <1>4, <1>5, CommandIInv

LEMMA ActionIInv == ASSUME IInv, ~Pipelined, Action PROVE IInv'
<1>1. PICK exp \in Actions \cup {NoAction, Unknown} : SetAction(exp, FALSE)
  BY DEF Action
<1>2. /\ phase = "up" /\ hooks = <<>> /\ \A t \in Threads : job[t] = Idle
      /\ UNCHANGED <<phase, todo, hooks, engine, camera, job, torn, boots>>
      /\ commands' = commands + 1 /\ commands < MaxCommands
  BY DEF Action, Free, Threads
<1>3. commands' \in 0..MaxCommands
  BY <1>2, SettingsAssumption DEF IInv, TypeOK
<1>4. exp # Unknown => exp \in {Default["action"]} \cup Usable("action") /\ exp # None
  BY DefaultFacts, Distinct DEF Usable
<1>5. \/ exp # Unknown /\ SetAndStore("action", exp, FALSE)
      \/ Unchanged("action", FALSE)
      \/ Refuse("action")
  BY <1>1 DEF SetAction
<1>6. QED
  BY <1>2, <1>3, <1>4, <1>5, CommandIInv

LEMMA NetworkIInv == ASSUME IInv, ~Pipelined, Network PROVE IInv'
<1>1. PICK config \in Networks : SetNetwork(config, FALSE)
  BY DEF Network
<1>2. /\ phase = "up" /\ hooks = <<>> /\ \A t \in Threads : job[t] = Idle
      /\ UNCHANGED <<phase, todo, hooks, engine, camera, job, torn, boots>>
      /\ commands' = commands + 1 /\ commands < MaxCommands
  BY DEF Network, Free, Threads
<1>3. commands' \in 0..MaxCommands
  BY <1>2, SettingsAssumption DEF IInv, TypeOK
<1>4. config \in {Default["net"]} \cup Usable("net") /\ config # None
  BY Distinct DEF Usable
<1>5. SetAndStore("net", config, FALSE)
  BY <1>1 DEF SetNetwork
<1>6. QED
  BY <1>2, <1>3, <1>4, <1>5, CommandIInv

LEMMA ModelIInv == ASSUME IInv, ~Pipelined, Model PROVE IInv'
<1>1. PICK id \in Models \cup {Unknown} : StartModel("worker", id)
  BY DEF Model
<1>2. /\ phase = "up" /\ hooks = <<>> /\ \A t \in Threads : job[t] = Idle
      /\ UNCHANGED <<phase, todo, hooks, flash, ram, engine, camera, failed, torn, boots>>
      /\ commands' = commands + 1 /\ commands < MaxCommands
  BY DEF Model, Free, Threads
<1>3. commands' \in 0..MaxCommands /\ "worker" \in Threads
  BY <1>2, SettingsAssumption DEF IInv, TypeOK, Threads
<1>4. QED
  BY <1>1, <1>2, <1>3, StartModelIInv

LEMMA ListenerInvokeIInv == ASSUME IInv, ~Pipelined, ListenerInvoke PROVE IInv'
<1>1. /\ phase = "up" /\ hooks = <<>> /\ \A t \in Threads : job[t] = Idle
      /\ UNCHANGED <<phase, todo, hooks, flash, ram, engine, camera, failed, torn, boots>>
      /\ commands' = commands + 1 /\ commands < MaxCommands
      /\ StartModel("listener", ram["model"])
  BY DEF ListenerInvoke, Threads
<1>2. commands' \in 0..MaxCommands /\ "listener" \in Threads
  BY <1>1, SettingsAssumption DEF IInv, TypeOK, Threads
<1>3. PICK id : id = ram["model"]
  OBVIOUS
<1>4. QED
  BY <1>1, <1>2, <1>3, StartModelIInv

LEMMA SensorIInv == ASSUME IInv, ~Pipelined, Sensor PROVE IInv'
<1>1. PICK id \in {Camera, Unknown}, enable \in BOOLEAN, opt \in Options \cup {Unknown} :
        StartSensor(id, enable, opt, FALSE)
  BY DEF Sensor
<1>2. /\ phase = "up" /\ hooks = <<>> /\ \A t \in Threads : job[t] = Idle
      /\ UNCHANGED <<phase, todo, hooks, flash, engine, failed, torn, boots>>
      /\ commands' = commands + 1 /\ commands < MaxCommands
  BY DEF Sensor, Free, Threads
<1>3. commands' \in 0..MaxCommands /\ hooks' \in Seq(Settings) /\ Once(hooks')
  BY <1>2, SettingsAssumption DEF IInv, TypeOK, Phases
<1>4. \A s : Pending(s, hooks') <=> Pending(s, hooks)
  BY <1>2
<1>5. opt \in Options \cup {Unknown, Old, 0} /\ FALSE \in BOOLEAN
  OBVIOUS
<1>6. QED
  BY <1>1, <1>2, <1>3, <1>4, <1>5, StartSensorIInv

(* A hook of a setting the backend does not load puts its stored value in   *)
(* place; the hook is not pending any more.                                 *)
LEMMA LoadedOK ==
  ASSUME NEW s \in Settings \ Backend, SettingOK(s), ram'[s] = Loaded(s),
         flash'[s] = flash[s], allowed'[s] = allowed[s],
         UNCHANGED <<phase, todo, torn>>
  PROVE  SettingOK(s)'
<1>1. Loaded(s)' = Loaded(s)
  BY DEF Loaded
<1>2. Loaded(s) \in InRam(s)
  BY Values DEF Loaded, SettingOK, Stored, InRam
<1>3. InStep(s)' /\ InUse(s)'
  BY <1>1, SettingNames DEF InStep, InUse, SettingOK
<1>4. QED
  BY <1>1, <1>2, <1>3 DEF SettingOK

LEMMA HookIInv == ASSUME IInv, Hook PROVE IInv'
<1>0. PICK h : h = Head(hooks)
  OBVIOUS
<1>1. /\ phase = "up" /\ hooks # <<>> /\ job["worker"] = Idle /\ hooks' = Tail(hooks)
      /\ UNCHANGED <<phase, todo, engine, torn, boots, commands>>
  BY DEF Hook
<1>2. /\ TypeOK /\ Phases /\ Jobs /\ \A s \in Settings : SettingOK(s)
  BY DEF IInv
<1>3. todo = <<>> /\ job["listener"] = Idle /\ (\A t \in Threads : job[t] = Idle)
  BY <1>1, <1>2 DEF Phases, Jobs, Threads
<1>4. /\ hooks' \in Seq(Settings) /\ Once(hooks') /\ h \in Settings /\ ~Pending(h, hooks')
      /\ \A k : Pending(k, hooks) <=> k = h \/ Pending(k, hooks')
  BY <1>0, <1>1, <1>2, PendingFacts, OnceFacts DEF Phases
<1>5. \A s : ~Storing(s)
  BY <1>3, Distinct DEF Storing, Idle
<1>6. /\ \A s \in {"action", "net"} : Pending(s, hooks) => ram[s] = Default[s]
  BY <1>2 DEF Phases
<1>7. /\ "algo" \in Settings /\ "action" \in Settings \ Backend /\ "net" \in Settings \ Backend
      /\ "algo" \in Backend /\ "version" \notin Settings /\ "model" \in Settings /\ "opt" \in Settings
      /\ commands \in 0..MaxCommands
      /\ "algo" # "model" /\ "action" # "model" /\ "net" # "model"
  BY <1>2, SettingNames DEF TypeOK
<1>8. ASSUME h # "sensor", UNCHANGED <<camera, job, flash, allowed, erred>>,
             DOMAIN ram' = Settings, failed \subseteq failed', failed' \subseteq Settings \cup {"version"},
             \A r \in Settings : r # h => ram'[r] = ram[r],
             h # "model" \/ ram' = ram, SettingOK(h)'
      PROVE  IInv'
  <2>1. ASSUME NEW r \in Settings
        PROVE  SettingOK(r)'
    <3>1. CASE r = h
      BY <1>8, <3>1
    <3>2. CASE r # h
      <4>1. Untouched(r) /\ (Pending(r, hooks') <=> Pending(r, hooks))
        BY <1>4, <1>8, <3>2 DEF Untouched
      <4>2. QED
        BY <1>1, <1>2, <1>5, <1>8, <4>1, Frame
    <3>3. QED
      BY <3>1, <3>2
  <2>2. \A s \in {"action", "net"} : Pending(s, hooks') => Pending(s, hooks) /\ ram'[s] = ram[s]
    BY <1>4, <1>7, <1>8
  <2>3. ram'["model"] = ram["model"]
    BY <1>7, <1>8
  <2>4. DOMAIN flash' = Settings \cup {"version"} /\ erred' \subseteq Settings
    BY <1>2, <1>8 DEF TypeOK
  <2>5. QED
    BY <1>1, <1>4, <1>7, <1>8, <2>1, <2>2, <2>3, <2>4, NoJobStep
<1>9. CASE h = "algo"
  <2>1. /\ IF ram["algo"] # Undefined THEN SetAlgorithm(ram["algo"], TRUE)
           ELSE UNCHANGED <<ram, flash, history>>
        /\ UNCHANGED <<camera, job>>
    BY <1>0, <1>9 DEF Hook
  <2>2. CASE UNCHANGED <<ram, flash, history>>
    <3>1. SettingOK(h)'
      BY <1>1, <1>2, <1>5, <1>7, <1>9, <2>2, Frame DEF Untouched, history
    <3>2. QED
      BY <1>2, <1>8, <1>9, <2>1, <2>2, <3>1 DEF history, TypeOK
  <2>3. CASE ram["algo"] # Undefined /\ SetAlgorithm(ram["algo"], TRUE)
    <3>1. CASE ram["algo"] \in Algorithms
      <4>1. UNCHANGED <<ram, flash, history>>
        BY <2>3, <3>1 DEF SetAlgorithm, Unchanged, history
      <4>2. QED
        BY <2>2, <4>1
    <3>2. CASE ram["algo"] \notin Algorithms
      <4>1. ram["algo"] = Old /\ torn
        BY <1>2, <1>7, <2>3, <3>2, DefaultFacts DEF SettingOK, InRam, Usable, Legacy, Zero, Undefined
      <4>2. SetAndStore("algo", Undefined, TRUE)
        BY <2>3, <3>2 DEF SetAlgorithm
      <4>3. /\ ram' = [ram EXCEPT !["algo"] = Undefined] /\ UNCHANGED <<flash, allowed, erred>>
            /\ failed' = IF flash["algo"] = Undefined THEN failed ELSE failed \cup {"algo"}
        BY <4>2 DEF SetAndStore
      <4>4. /\ DOMAIN ram' = Settings /\ ram'["algo"] = Undefined
            /\ \A r \in Settings : r # h => ram'[r] = ram[r]
            /\ failed \subseteq failed' /\ failed' \subseteq Settings \cup {"version"}
        BY <1>2, <1>7, <1>9, <4>3 DEF TypeOK
      <4>5. Undefined \in InRam("algo") /\ Undefined # Old
        BY DefaultFacts, Distinct DEF InRam, Undefined
      <4>6. ram'["algo"] = Loaded("algo") \/ "algo" \in failed'
        BY <4>3, <4>4, Distinct DEF Loaded, Undefined
      <4>7. flash'["version"] = flash["version"]
        BY <4>3
      <4>8. SettingOK("algo")'
        BY <1>1, <1>2, <1>3, <1>7, <4>1, <4>3, <4>4, <4>5, <4>6, <4>7, DifferentOK
      <4>9. QED
        BY <1>7, <1>8, <1>9, <2>1, <4>3, <4>4, <4>8
    <3>3. QED
      BY <3>1, <3>2
  <2>4. QED
    BY <2>1, <2>2, <2>3
<1>10. ASSUME h \in {"action", "net"}, UNCHANGED <<camera, job, flash, allowed, erred, failed>>,
              DOMAIN ram' = Settings, ram'[h] = Loaded(h),
              \A r \in Settings : r # h => ram'[r] = ram[r]
       PROVE  IInv'
  <2>2. h \in Settings \ Backend /\ h # "model" /\ h # "sensor"
    BY <1>7, <1>10
  <2>3. SettingOK(h)'
    BY <1>1, <1>2, <1>10, <2>2, LoadedOK
  <2>4. QED
    BY <1>2, <1>8, <1>10, <2>2, <2>3 DEF TypeOK
<1>11. CASE h = "action"
  <2>1. /\ IF flash["action"] # None THEN SetAction(flash["action"], TRUE)
           ELSE UNCHANGED <<ram, flash, history>>
        /\ UNCHANGED <<camera, job>>
    BY <1>0, <1>11, SettingNames DEF Hook
  <2>2. ram["action"] = Default["action"] /\ (flash["action"] # None => flash["action"] # Unknown)
    <3>1. flash["action"] \in {None, NoAction} \cup Actions
      BY <1>2, <1>7, DefaultFacts DEF SettingOK, Stored, Usable, Legacy
    <3>2. QED
      BY <1>4, <1>6, <1>11, <2>1, <3>1, SettingsAssumption
  <2>3. /\ DOMAIN ram' = Settings /\ ram'["action"] = Loaded("action")
        /\ \A r \in Settings : r # "action" => ram'[r] = ram[r]
        /\ UNCHANGED <<flash, allowed, erred, failed>>
    <3>1. CASE flash["action"] = None \/ flash["action"] = ram["action"]
      <4>1. UNCHANGED <<ram, flash, allowed, erred, failed>>
        BY <2>1, <2>2, <3>1 DEF SetAction, Unchanged, history
      <4>2. Loaded("action") = ram["action"]
        BY <2>2, <3>1 DEF Loaded
      <4>3. QED
        BY <1>2, <4>1, <4>2 DEF TypeOK
    <3>2. CASE flash["action"] # None /\ flash["action"] # ram["action"]
      <4>1. SetAndStore("action", flash["action"], TRUE)
        BY <2>1, <2>2, <3>2 DEF SetAction
      <4>2. QED
        BY <1>2, <1>7, <3>2, <4>1 DEF SetAndStore, Loaded, TypeOK
    <3>3. QED
      BY <3>1, <3>2
  <2>4. QED
    BY <1>10, <1>11, <2>1, <2>3
<1>12. CASE h = "net"
  <2>1. /\ IF flash["net"] # None THEN SetNetwork(flash["net"], TRUE)
           ELSE UNCHANGED <<ram, flash, history>>
        /\ UNCHANGED <<camera, job>>
    BY <1>0, <1>12, SettingNames DEF Hook
  <2>2. /\ DOMAIN ram' = Settings /\ ram'["net"] = Loaded("net")
        /\ \A r \in Settings : r # "net" => ram'[r] = ram[r]
        /\ UNCHANGED <<flash, allowed, erred, failed>>
    <3>1. CASE flash["net"] = None
      <4>1. UNCHANGED <<ram, flash, allowed, erred, failed>> /\ Loaded("net") = ram["net"]
        BY <1>4, <1>6, <1>12, <2>1, <3>1 DEF Loaded, history
      <4>2. QED
        BY <1>2, <4>1 DEF TypeOK
    <3>2. CASE flash["net"] # None
      BY <1>2, <1>7, <2>1, <3>2 DEF SetNetwork, SetAndStore, Loaded, TypeOK
    <3>3. QED
      BY <3>1, <3>2
  <2>3. QED
    BY <1>10, <1>12, <2>1, <2>2
<1>13. CASE h = "sensor"
  <2>1. /\ IF ram["sensor"] # Failed THEN StartSensor(ram["sensor"], TRUE, ram["opt"], TRUE)
           ELSE UNCHANGED <<ram, camera, job, allowed, erred>>
        /\ UNCHANGED <<flash, failed>>
    BY <1>0, <1>13 DEF Hook
  <2>2. \A s \in {"action", "net"} : Pending(s, hooks') <=> Pending(s, hooks)
    BY <1>4, <1>13
  <2>3. CASE UNCHANGED <<ram, camera, job, allowed, erred>>
    <3>1. ASSUME NEW r \in Settings
          PROVE  SettingOK(r)'
      <4>1. Untouched(r) /\ (r \notin Backend => (Pending(r, hooks') <=> Pending(r, hooks)))
        BY <2>1, <2>2, <2>3, SettingNames DEF Untouched
      <4>2. QED
        BY <1>1, <1>2, <1>5, <2>1, <4>1, Frame
    <3>2. DOMAIN flash' = Settings \cup {"version"} /\ DOMAIN ram' = Settings
          /\ failed' \subseteq Settings \cup {"version"} /\ erred' \subseteq Settings
      BY <1>2, <2>1, <2>3 DEF TypeOK
    <3>3. QED
      BY <1>1, <1>4, <1>7, <2>1, <2>2, <2>3, <3>1, <3>2, NoJobStep
  <2>4. CASE StartSensor(ram["sensor"], TRUE, ram["opt"], TRUE)
    <3>1. ram["opt"] \in Options \cup {Unknown, Old, 0}
      BY <1>2, <1>7, DefaultFacts DEF SettingOK, InRam, Usable, Legacy, Zero
    <3>2. PICK id, opt : id = ram["sensor"] /\ opt = ram["opt"]
      OBVIOUS
    <3>3. QED
      BY <1>1, <1>3, <1>4, <1>7, <2>1, <2>2, <2>4, <3>1, <3>2, StartSensorIInv
  <2>5. QED
    BY <2>1, <2>3, <2>4
<1>14. QED
  BY <1>0, <1>9, <1>11, <1>12, <1>13 DEF Hook

-----------------------------------------------------------------------------
(* The theorems *)

LEMMA StutterIInv == ASSUME IInv, UNCHANGED vars PROVE IInv'
<1>1. UNCHANGED <<phase, todo, hooks, flash, ram, engine, camera, job, allowed, failed, erred,
                  torn, boots, commands>>
  BY DEF vars, history
<1>2. TypeOK' /\ Phases' /\ Jobs'
  BY <1>1 DEF IInv, TypeOK, Phases, Jobs, Pending, Once
<1>3. ASSUME NEW s \in Settings
      PROVE  SettingOK(s)'
  BY <1>1, Frame DEF IInv, Untouched, Storing
<1>4. QED
  BY <1>1, <1>2, <1>3 DEF IInv

LEMMA NextIInv == ASSUME ~Pipelined PROVE IInv /\ [Next]_vars => IInv'
<1> SUFFICES ASSUME IInv, [Next]_vars PROVE IInv'
  OBVIOUS
<1>1. CASE PowerOn
  BY <1>1, PowerOnIInv
<1>2. CASE InitWrite
  BY <1>2, InitWriteIInv
<1>3. CASE PostInit
  BY <1>3, PostInitIInv
<1>4. CASE PowerLoss
  BY <1>4, PowerLossIInv
<1>5. CASE Hook
  BY <1>5, HookIInv
<1>6. CASE Command
  BY <1>6, ModelIInv, SensorIInv, AlgoIInv, ActionIInv, NetworkIInv DEF Command
<1>7. CASE SensorOpt
  BY <1>7, SensorOptIInv
<1>8. CASE SensorId
  BY <1>8, SensorIdIInv
<1>9. CASE ListenerInvoke
  BY <1>9, ListenerInvokeIInv
<1>10. CASE \E t \in Threads : SetModel(t)
  BY <1>10, ModelLoadIInv, ModelTensorsIInv, ModelSetIInv, ModelStoreIInv DEF SetModel
<1>11. CASE UNCHANGED vars
  BY <1>11, StutterIInv
<1>12. QED
  BY <1>1, <1>2, <1>3, <1>4, <1>5, <1>6, <1>7, <1>8, <1>9, <1>10, <1>11 DEF Next

(* The invariant the rest follows from: through every boot, lost power,     *)
(* failed write, hook and command, what RAM and flash hold of each setting  *)
(* is usable, is one of the values the client may expect, and agrees unless *)
(* it is known not to.                                                      *)
THEOREM SettingsInductive == ASSUME ~Pipelined PROVE Spec => []IInv
<1>1. Init => IInv
  BY InitIInv
<1>2. IInv /\ [Next]_vars => IInv'
  BY NextIInv
<1>3. QED
  BY <1>1, <1>2, PTL DEF Spec

(* A value that could not be put to use never reaches the flash: neither the *)
(* 0 a failed set_model or set_sensor leaves in RAM, nor what was refused.   *)
THEOREM OnlyUsable == ASSUME ~Pipelined PROVE Spec => []OnlyUsableStored
<1>1. IInv => OnlyUsableStored
  <2> SUFFICES ASSUME IInv PROVE OnlyUsableStored
    OBVIOUS
  <2>1. \A s \in Settings : flash[s] \in {None, Default[s]} \cup Usable(s) \cup Legacy(s)
    BY DEF IInv, SettingOK, Stored
  <2>2. /\ Usable("model") = Models \ Broken /\ Usable("sensor") = {Camera}
        /\ Usable("opt") = Options /\ Usable("algo") = Algorithms /\ Usable("action") = Actions
    BY DEF Usable
  <2>3. Legacy("action") = {} /\ \A s \in Backend : Legacy(s) = {Old}
    BY SettingNames DEF Legacy
  <2>4. QED
    BY <2>1, <2>2, <2>3, DefaultFacts, SettingNames DEF OnlyUsableStored, Camera, Undefined
<1>2. QED
  BY <1>1, SettingsInductive, PTL

(* What a command answered OK has set is what a boot loads, however often   *)
(* the power is lost, until another command on the setting runs.            *)
THEOREM Survive == ASSUME ~Pipelined PROVE Spec => []SettingsSurvive
<1>1. IInv => SettingsSurvive
  BY DEF IInv, SettingOK, SettingsSurvive
<1>2. QED
  BY <1>1, SettingsInductive, PTL

(* Once the INIT task has run, the device works with what was last answered *)
(* OK, and the camera with the stored option.                               *)
THEOREM InUseRight == ASSUME ~Pipelined PROVE Spec => []SettingsInUse
<1>1. IInv => SettingsInUse
  <2> SUFFICES ASSUME IInv, phase = "up", hooks = <<>>, ~torn
               PROVE  /\ \A s \in Settings \ {"opt"} : s \in erred \/ ram[s] \in allowed[s]
                      /\ camera # None /\ "opt" \notin erred => camera \in allowed["opt"]
    BY DEF SettingsInUse, Threads
  <2>1. ASSUME NEW s \in Settings \ {"opt"}
        PROVE  s \in erred \/ ram[s] \in allowed[s]
    <3>1. InUse(s) /\ ~Pending(s, hooks)
      BY PendingNone DEF IInv, SettingOK
    <3>2. QED
      BY <3>1, SettingNames DEF InUse
  <2>2. QED
    BY <2>1 DEF IInv
<1>2. QED
  BY <1>1, SettingsInductive, PTL

(* The version is the first key init_backend writes, so a value of an older *)
(* firmware is loaded only after an initialisation that was cut off.        *)
THEOREM OldTorn == ASSUME ~Pipelined PROVE Spec => []OldLoadedOnlyIfTorn
<1>1. IInv => OldLoadedOnlyIfTorn
  BY SettingNames DEF IInv, SettingOK, OldLoadedOnlyIfTorn
<1>2. QED
  BY <1>1, SettingsInductive, PTL
=============================================================================
