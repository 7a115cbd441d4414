--------------------------- MODULE SensorWE2Proofs ---------------------------
(***************************************************************************)
(* Proofs about SensorWE2, for every set of sensors and boards.            *)
(***************************************************************************)
EXTENDS SensorWE2, TLAPS

\* Every option fits the buffer.
LEMMA OptionFacts ==
  ASSUME NEW b \in Boards, NEW o \in Options(b)
  PROVE  /\ o \in {Dims(240, 240), Dims(416, 416), Dims(480, 480), Dims(640, 480)}
         /\ o.w > 0
         /\ (o.w * o.h * 3) \div 2 <= YUV422_BASE_SIZE
<1>1. o \in {Dims(240, 240), Dims(416, 416), Dims(480, 480), Dims(640, 480)}
  BY HardwareAssumption DEF Options
<1>2. \A w, h \in {240, 416, 480, 640} :
        w * h <= 640 * 480 \/ (w = 640 /\ h = 640) => (w * h * 3) \div 2 <= (640 * 480 * 3) \div 2
        \/ (w = 640 /\ h = 640)
  OBVIOUS
<1> QED
  BY <1>1 DEF Dims, YUV422_BASE_SIZE

\* What Highest returns: a factor of the set, no more than the bound.
LEMMA HighestFacts ==
  ASSUME NEW factors \in SUBSET (1..16), 1 \in factors, NEW bound \in Nat \ {0}
  PROVE  Highest(factors, bound) \in factors /\ Highest(factors, bound) <= bound
<1> DEFINE fit == {d \in factors : d <= bound}
           Top(d) == d \in fit /\ \A e \in fit : e <= d
<1>1. \E d \in fit : \A e \in fit : e <= d
  <2> DEFINE Upto(n) == \A e \in fit : e <= n
  <2>1. Upto(16) /\ 1 \in fit
    OBVIOUS
  <2>2. \E n \in 1..16 : Upto(n) /\ n \in fit
    BY <2>1, SMTT(60)
  <2> QED
    BY <2>2
<1> QED
  BY <1>1 DEF Highest

\* The window of an option lies inside the divided picture, whichever the sensor: the
\* division is no more than the smaller of the two factors.
LEMMA WindowFits ==
  ASSUME NEW s \in {"ov5647", "imx219", "imx708"}, NEW b \in Boards, NEW o \in Options(b)
  PROVE  LET p == Window(s, o)
         IN p.w = o.w /\ p.h = o.h /\ p.x + p.w <= p.resW /\ p.y + p.h <= p.resH
<1> DEFINE f == Factor(s, o)
           d == Bin(s, f)
           width == Full(s).w
           height == Full(s).h
<1>0. o \in {Dims(240, 240), Dims(416, 416), Dims(480, 480), Dims(640, 480)}
  BY OptionFacts
<1>1. f \in Nat \ {0}
  BY <1>0 DEF Factor, Full, Dims
<1>2. d \in {1, 2, 4, 5, 8, 16} /\ d <= f
  <2>1. CASE s = "ov5647" \/ s = "imx708"
    <3>1. d = Highest({1, 2, 4, 8}, f)
      BY <2>1 DEF Bin, Ov5647Bin, Imx708Bin
    <3> HIDE DEF d, f
    <3> QED
      BY <1>1, <3>1, HighestFacts
  <2>2. CASE s = "imx219"
    <3>1. d = Highest({1, 4, 5, 8, 16}, f)
      BY <2>2 DEF Bin, Imx219Bin
    <3> HIDE DEF d, f
    <3> QED
      BY <1>1, <3>1, HighestFacts
  <2> QED
    BY <2>1, <2>2
<1>3. width \div d >= o.w /\ height \div d >= o.h /\ width \div d < 65536 /\ height \div d < 65536
      /\ width \div d \in Nat /\ height \div d \in Nat
  <2> DEFINE Fits(W, H) ==
        \A e \in {1, 2, 4, 5, 8, 16} : e <= f =>
          /\ W \div e >= o.w /\ H \div e >= o.h /\ W \div e < 65536 /\ H \div e < 65536
          /\ W \div e \in Nat /\ H \div e \in Nat
  <2>1. ASSUME s = "ov5647" PROVE width = 1296 /\ height = 972 /\ Fits(1296, 972)
    <3>0. width = 1296 /\ height = 972
      BY <2>1 DEF Full
    <3>1. CASE o = Dims(240, 240)
      <4>1. f = 4 /\ o.w = 240 /\ o.h = 240
        BY <2>1, <3>1 DEF Factor, Full, Dims
      <4> QED
        BY <3>0, <4>1
    <3>2. CASE o = Dims(416, 416)
      <4>1. f = 2 /\ o.w = 416 /\ o.h = 416
        BY <2>1, <3>2 DEF Factor, Full, Dims
      <4> QED
        BY <3>0, <4>1
    <3>3. CASE o = Dims(480, 480)
      <4>1. f = 2 /\ o.w = 480 /\ o.h = 480
        BY <2>1, <3>3 DEF Factor, Full, Dims
      <4> QED
        BY <3>0, <4>1
    <3>4. CASE o = Dims(640, 480)
      <4>1. f = 2 /\ o.w = 640 /\ o.h = 480
        BY <2>1, <3>4 DEF Factor, Full, Dims
      <4> QED
        BY <3>0, <4>1
    <3> QED
      BY <1>0, <3>1, <3>2, <3>3, <3>4
  <2>2. ASSUME s = "imx219" PROVE width = 3280 /\ height = 2464 /\ Fits(3280, 2464)
    <3>0. width = 3280 /\ height = 2464
      BY <2>2 DEF Full
    <3>1. CASE o = Dims(240, 240)
      <4>1. f = 10 /\ o.w = 240 /\ o.h = 240
        BY <2>2, <3>1 DEF Factor, Full, Dims
      <4> QED
        BY <3>0, <4>1
    <3>2. CASE o = Dims(416, 416)
      <4>1. f = 5 /\ o.w = 416 /\ o.h = 416
        BY <2>2, <3>2 DEF Factor, Full, Dims
      <4> QED
        BY <3>0, <4>1
    <3>3. CASE o = Dims(480, 480)
      <4>1. f = 5 /\ o.w = 480 /\ o.h = 480
        BY <2>2, <3>3 DEF Factor, Full, Dims
      <4> QED
        BY <3>0, <4>1
    <3>4. CASE o = Dims(640, 480)
      <4>1. f = 5 /\ o.w = 640 /\ o.h = 480
        BY <2>2, <3>4 DEF Factor, Full, Dims
      <4> QED
        BY <3>0, <4>1
    <3> QED
      BY <1>0, <3>1, <3>2, <3>3, <3>4
  <2>3. ASSUME s = "imx708" PROVE width = 2304 /\ height = 1296 /\ Fits(2304, 1296)
    <3>0. width = 2304 /\ height = 1296
      BY <2>3 DEF Full
    <3>1. CASE o = Dims(240, 240)
      <4>1. f = 5 /\ o.w = 240 /\ o.h = 240
        BY <2>3, <3>1 DEF Factor, Full, Dims
      <4> QED
        BY <3>0, <4>1
    <3>2. CASE o = Dims(416, 416)
      <4>1. f = 3 /\ o.w = 416 /\ o.h = 416
        BY <2>3, <3>2 DEF Factor, Full, Dims
      <4> QED
        BY <3>0, <4>1
    <3>3. CASE o = Dims(480, 480)
      <4>1. f = 2 /\ o.w = 480 /\ o.h = 480
        BY <2>3, <3>3 DEF Factor, Full, Dims
      <4> QED
        BY <3>0, <4>1
    <3>4. CASE o = Dims(640, 480)
      <4>1. f = 2 /\ o.w = 640 /\ o.h = 480
        BY <2>3, <3>4 DEF Factor, Full, Dims
      <4> QED
        BY <3>0, <4>1
    <3> QED
      BY <1>0, <3>1, <3>2, <3>3, <3>4
  <2>4. (width = 1296 /\ height = 972 /\ Fits(1296, 972))
        \/ (width = 3280 /\ height = 2464 /\ Fits(3280, 2464))
        \/ (width = 2304 /\ height = 1296 /\ Fits(2304, 1296))
    BY <2>1, <2>2, <2>3
  <2> HIDE DEF d, f, width, height
  <2> QED
    BY <1>2, <2>4
<1> QED
  <2> DEFINE Start(res, len) == ((res - len) \div 2) % 65536
  <2>1. \A res, len \in Nat : res >= len /\ res < 65536 => Start(res, len) + len <= res
    OBVIOUS
  <2>2. o.w \in Nat /\ o.h \in Nat
    BY <1>0 DEF Dims
  <2>3. Window(s, o) = [w |-> o.w, h |-> o.h, resW |-> width \div d, resH |-> height \div d,
                        x |-> Start(width \div d, o.w), y |-> Start(height \div d, o.h)]
    BY DEF Window
  <2> HIDE DEF d, f, width, height, Start
  <2> QED
    BY <1>3, <2>1, <2>2, <2>3

-----------------------------------------------------------------------------
(* SensorInv is inductive. *)

\* The driver that was chosen is one of the three.
LEMMA ChosenDriver ==
  ASSUME TypeOK, drv # None PROVE drv \in {"ov5647", "imx219", "imx708"}
BY HardwareAssumption DEF TypeOK, None

\* What the MIPI calls of any driver leave enabled.
LEMMA CsiFacts ==
  ASSUME TypeOK, drv # None
  PROVE  /\ CsiEnable => csi' \subseteq {"rx", "tx"} /\ "rx" \in csi'
         /\ CsiDisable => csi' \subseteq {"rx", "tx"}
<1>1. drv \in {"ov5647", "imx219", "imx708"}
  BY ChosenDriver
<1>2. csi \subseteq {"rx", "tx"}
  BY DEF TypeOK
<1> QED
  BY <1>1, <1>2 DEF CsiEnable, CsiDisable, Ov5647CsiEnable, Imx219CsiEnable, Imx708CsiEnable,
       Ov5647CsiDisable, Imx219CsiDisable, Imx708CsiDisable

\* Once the stream is restored, it is on or given up.
LEMMA RestoreFacts ==
  ASSUME TypeOK, drv # None, RestoreStream
  PROVE  /\ csi' \subseteq {"rx", "tx"} /\ sensorOn' \in BOOLEAN /\ hopeless' \in BOOLEAN
         /\ callbacks => "rx" \in csi' /\ (hopeless' \/ sensorOn')
         /\ ~callbacks => UNCHANGED <<sensorOn, csi, hopeless>>
<1>1. CASE callbacks
  BY <1>1, CsiFacts, Zenon DEF RestoreStream, OnStopCapture, TypeOK
<1>2. CASE ~callbacks
  BY <1>2 DEF RestoreStream, streamVars, TypeOK
<1> QED
  BY <1>1, <1>2

\* The initial states satisfy it.
LEMMA InitInv == Init => SensorInv
<1> SUFFICES ASSUME Init PROVE SensorInv
  OBVIOUS
<1> USE DEF Init
<1>1. TypeOK
  BY DEF TypeOK
<1>2. OneCall /\ Captured /\ Streamed /\ Told
  BY DEF OneCall, Captured, Streamed, Told, Capturing, InInit
<1> QED
  BY <1>1, <1>2 DEF SensorInv

\* A frame arrives only for a capture that was triggered, so none while one is read.
LEMMA FrameStep == SensorInv /\ FrameEvent => SensorInv'
<1> SUFFICES ASSUME SensorInv, FrameEvent PROVE SensorInv'
  OBVIOUS
<1> USE DEF FrameEvent, SensorInv
<1>1. drv # None
  BY DEF OneCall, Captured, Capturing, InInit
<1>2. /\ csi' \subseteq {"rx", "tx"} /\ sensorOn' \in BOOLEAN
      /\ ~callbacks => UNCHANGED <<sensorOn, csi>>
  BY <1>1, CsiFacts DEF OnFrameReady, StreamOff, streamVars, TypeOK
<1>3. frameReady' \in BOOLEAN /\ armed' = ~frameReady' /\ frameCount' \in Nat
  <2> DEFINE ready == frameCount' > SKIP_FRAME_COUNT
  <2>1. frameCount' \in Nat
    BY DEF TypeOK, Bump
  <2>2. ready \in BOOLEAN
    OBVIOUS
  <2>4. frameReady' = ready /\ armed' = ~ready
    BY Zenon
  <2> HIDE DEF ready
  <2>3. frameReady' \in BOOLEAN /\ armed' = ~frameReady'
    BY <2>2, <2>4
  <2> QED
    BY <2>1, <2>3
<1>4. hopeless' \in BOOLEAN /\ (callbacks /\ ~frameReady' => hopeless') /\ (hopeless => hopeless')
  BY DEF TypeOK
<1>5. TypeOK'
  BY <1>2, <1>3, <1>4 DEF TypeOK, hardware, cameraVars, thread
<1>6. OneCall'
  BY <1>1, <1>3 DEF OneCall, Captured, InInit, Capturing, hardware, cameraVars, thread
<1>7. Captured'
  BY <1>1, <1>3 DEF OneCall, Captured, InInit, Capturing, hardware, cameraVars, thread, pathVars
<1>8. Streamed'
  BY <1>1, <1>2, <1>3, <1>4 DEF OneCall, Captured, Streamed, InInit, Capturing, hardware,
       cameraVars, thread
<1>9. Told'
  BY DEF Told
<1> QED
  BY <1>5, <1>6, <1>7, <1>8, <1>9

\* An error of the data path.
LEMMA ErrorStep == SensorInv /\ ErrorEvent => SensorInv'
<1> SUFFICES ASSUME SensorInv, ErrorEvent PROVE SensorInv'
  OBVIOUS
<1> USE DEF ErrorEvent, SensorInv, hardware, cameraVars, thread, captureVars, pathVars, streamVars
<1>1. TypeOK'
  <2>1. UNCHANGED <<sensor, chipC, board, drv, present, streaming, reading, at, callbacks, registered, frameReady, armed, sensorOn, forgotten, hopeless, frameCount, csi>>
    OBVIOUS
  <2>2. initiated' \in BOOLEAN /\ wedged' \in BOOLEAN
    BY Zenon
  <2> HIDE DEF ErrorEvent
  <2> QED
    BY <2>1, <2>2 DEF TypeOK
<1>2. OneCall'
  BY DEF OneCall, InInit
<1>3. Captured'
  BY DEF Captured, Capturing
<1>4. Streamed'
  BY DEF Streamed, Capturing
<1>5. Told'
  BY DEF Told
<1> QED
  BY <1>1, <1>2, <1>3, <1>4, <1>5

\* The register tables, whatever the driver and whichever write fails.
LEMMA BringUpStep ==
  ASSUME SensorInv, at = "bring", BringUpLeaves,
         TablesWritten \/ TablesFailed("err") \/ TablesFailed("idle")
  PROVE  SensorInv'
<1> USE DEF SensorInv, BringUpLeaves, hardware, cameraVars, captureVars, pathVars
<1>1. /\ at' \in {"path", "err", "idle"} /\ sensorOn' \in BOOLEAN /\ want' = want
      /\ csi' \subseteq {"rx", "tx"} /\ (at' = "path" => "rx" \in csi')
  <2>1. CASE TablesWritten
    <3>1. sensorOn' \in BOOLEAN
      BY <2>1, Zenon DEF TablesWritten
    <3> QED
      BY <2>1, <3>1, CsiFacts DEF TablesWritten, OneCall, InInit
  <2>2. CASE TablesFailed("err")
    BY <2>2 DEF TablesFailed, TypeOK
  <2>3. CASE TablesFailed("idle")
    BY <2>3 DEF TablesFailed, TypeOK
  <2> QED
    BY <2>1, <2>2, <2>3
<1>2. ~present /\ ~initiated /\ ~armed /\ ~reading /\ drv # None
  BY DEF OneCall, Captured, InInit, Capturing
<1>3. TypeOK'
  BY <1>1 DEF TypeOK
<1>4. OneCall'
  BY <1>1, <1>2 DEF OneCall, InInit
<1>5. Captured' /\ Streamed' /\ Told'
  BY <1>1, <1>2 DEF Captured, Streamed, Told, Capturing
<1> QED
  BY <1>3, <1>4, <1>5

\* The data path: a window for the size asked for, and the stream on unless it is.
LEMMA PathStep ==
  ASSUME SensorInv, at = "path", ProgramPath, StreamOn, PathLeaves
  PROVE  SensorInv'
<1> USE DEF SensorInv, PathLeaves, hardware, cameraVars, ProgramPath
<1>1. ~present /\ ~reading /\ ~armed /\ drv # None /\ want \in Options(board)
  BY DEF OneCall, Captured, InInit, Capturing
<1>2. /\ at' \in {"arm", "idle"} /\ sensorOn' \in BOOLEAN /\ csi' \subseteq {"rx", "tx"}
      /\ registered' \in BOOLEAN /\ wedged' \in BOOLEAN /\ forgotten' \in BOOLEAN
      /\ hopeless' \in BOOLEAN
      /\ initiated => at' = "arm"
      /\ at' = "arm" => registered' /\ (hopeless' \/ (sensorOn' /\ "rx" \in csi'))
      /\ at' = "arm" /\ ~callbacks => sensorOn' /\ "rx" \in csi'
      /\ initiated => (wedged' <=> wedged) /\ (forgotten' <=> forgotten)
      /\ ~initiated => ~wedged'
  <2>1. CASE initiated
    <3>1. ~callbacks => registered /\ sensorOn /\ "rx" \in csi
      BY <2>1 DEF Streamed
    <3>2. registered /\ at' = "arm" /\ RestoreStream /\ UNCHANGED <<registered, wedged, forgotten>>
      BY <2>1 DEF StreamOn, Streamed
    <3> QED
      BY <1>1, <2>1, <3>1, <3>2, RestoreFacts DEF TypeOK
  <2>2. CASE ~initiated
    <3>1. ~callbacks => "rx" \in csi
      BY DEF Streamed
    <3>2. registered' = TRUE /\ wedged' = FALSE /\ forgotten' = FALSE
      BY <2>2 DEF StreamOn
    <3>3. registered' \in BOOLEAN /\ wedged' \in BOOLEAN /\ forgotten' \in BOOLEAN
      BY <3>2, Zenon
    <3>4. CASE /\ at' = "arm" /\ sensorOn' = TRUE /\ hopeless' = FALSE
               /\ IF callbacks THEN CsiEnable ELSE UNCHANGED csi
      <4>1. sensorOn' \in BOOLEAN /\ hopeless' \in BOOLEAN
        BY <3>4, Zenon
      <4>2. csi' \subseteq {"rx", "tx"} /\ "rx" \in csi'
        BY <1>1, <3>1, <3>4, CsiFacts DEF TypeOK
      <4> QED
        BY <2>2, <3>2, <3>3, <3>4, <4>1, <4>2
    <3>5. CASE at' = "idle" /\ UNCHANGED <<streamVars, hopeless>>
      BY <2>2, <3>2, <3>3, <3>5 DEF streamVars, TypeOK
    <3> QED
      BY <2>2, <3>4, <3>5 DEF StreamOn
  <2> QED
    BY <2>1, <2>2
<1>3. TypeOK'
  BY <1>2 DEF TypeOK
<1>4. OneCall'
  BY <1>1, <1>2 DEF OneCall, InInit
<1>5. Captured'
  BY <1>1, <1>2 DEF Captured, Capturing
<1>6. Streamed'
  BY <1>1, <1>2 DEF Streamed, Capturing
<1>7. Told'
  <2>1. CASE initiated
    BY <1>2, <2>1 DEF Told
  <2>2. CASE ~initiated
    BY <1>2, <2>2 DEF Told
  <2> QED
    BY <2>1, <2>2
<1> QED
  BY <1>3, <1>4, <1>5, <1>6, <1>7

\* The first trigger: from here a frame that is ready is one of this init.
LEMMA ArmStep ==
  ASSUME SensorInv, at = "arm", ArmLeaves,
         \E n \in Nat : Trigger(n), at' = "finish" \/ (at' = "wait" /\ callbacks)
  PROVE  SensorInv'
<1> USE DEF SensorInv, ArmLeaves, hardware, cameraVars, pathVars, streamVars
<1>1. frameReady' \in BOOLEAN /\ armed' \in BOOLEAN
  BY Zenon DEF Trigger
<1>2. ~frameReady' /\ armed' /\ frameCount' \in Nat
  BY DEF Trigger
<1>3. ~present /\ ~reading /\ drv # None
  BY DEF OneCall, InInit
<1>4. TypeOK'
  BY <1>1, <1>2 DEF TypeOK
<1>5. OneCall'
  BY <1>3 DEF OneCall, InInit
<1>6. Captured'
  BY <1>1, <1>2, <1>3 DEF Captured, Capturing
<1>7. Streamed' /\ Told'
  BY <1>2, <1>3 DEF Streamed, Told, Capturing
<1> QED
  BY <1>4, <1>5, <1>6, <1>7

\* Waiting for the first frame.
LEMMA WaitStep ==
  ASSUME SensorInv, at = "wait", WaitForFrame, WaitLeaves PROVE SensorInv'
<1> USE DEF SensorInv, WaitLeaves, hardware, cameraVars, captureVars, pathVars
<1>1. ~present /\ ~reading /\ drv # None
  BY DEF OneCall, InInit
<1>2. CASE frameReady /\ RestoreStream /\ at' = "finish"
  <2>1. TypeOK'
    BY <1>1, <1>2, RestoreFacts DEF TypeOK
  <2>2. OneCall' /\ Captured' /\ Told'
    BY <1>1, <1>2 DEF OneCall, InInit, Captured, Capturing, Told
  <2>3. Streamed'
    BY <1>1, <1>2, RestoreFacts DEF Streamed, Capturing
  <2> QED
    BY <2>1, <2>2, <2>3
<1>3. CASE ~frameReady /\ at' = "err" /\ UNCHANGED <<streamVars, hopeless>>
  <2>1. TypeOK'
    BY <1>3 DEF TypeOK, streamVars
  <2>2. OneCall' /\ Captured' /\ Told' /\ Streamed'
    BY <1>1, <1>3 DEF OneCall, InInit, Captured, Capturing, Told, Streamed, streamVars
  <2> QED
    BY <2>1, <2>2
<1> QED
  BY <1>2, <1>3 DEF WaitForFrame

\* The label err.
LEMMA CleanUpStep ==
  ASSUME SensorInv, CleanUp PROVE SensorInv'
<1> USE DEF SensorInv, CleanUp, hardware, cameraVars, pathVars
<1>1. initiated' \in BOOLEAN /\ armed' \in BOOLEAN
  BY Zenon
<1>2. ~present /\ ~reading /\ drv # None /\ ~initiated' /\ ~armed'
  BY DEF OneCall, InInit
<1>3. sensorOn' \in BOOLEAN /\ csi' \subseteq {"rx", "tx"}
  BY <1>2, CsiFacts DEF StreamOff, TypeOK
<1>4. TypeOK'
  BY <1>1, <1>3 DEF TypeOK
<1>5. OneCall' /\ Captured' /\ Told' /\ Streamed'
  BY <1>2 DEF OneCall, InInit, Captured, Capturing, Told, Streamed
<1> QED
  BY <1>4, <1>5

\* A probe finds the sensor there is or none, and keeps what was found before.
LEMMA ProbeFacts ==
  ASSUME TypeOK, NEW found \in BOOLEAN, Probe(found)
  PROVE  drv' \in {None, sensor} /\ (drv # None => drv' = drv)
BY DEF Probe, Ov5647Probe, Imx219Probe, Imx708Probe, TypeOK

\* An init that is refused.
LEMMA RefusedStep == SensorInv /\ InitRefused => SensorInv'
<1> SUFFICES ASSUME SensorInv, InitRefused PROVE SensorInv'
  OBVIOUS
<1> USE DEF SensorInv, InitRefused, Idle, hardware, thread, captureVars, pathVars, streamVars
<1>1. drv' \in {None, sensor} /\ (drv # None => drv' = drv)
  BY ProbeFacts
<1>2. callbacks => drv # None
  BY DEF Streamed, None
<1>3. TypeOK'
  BY <1>1 DEF TypeOK
<1>4. OneCall' /\ Captured' /\ Told' /\ Streamed'
  BY <1>1, <1>2 DEF OneCall, InInit, Captured, Capturing, Told, Streamed
<1> QED
  BY <1>3, <1>4

\* An init that begins: a chip that needs the callbacks starts from scratch.
LEMMA BeginStep == SensorInv /\ InitBegin => SensorInv'
<1> SUFFICES ASSUME SensorInv, InitBegin PROVE SensorInv'
  OBVIOUS
<1> USE DEF SensorInv, InitBegin, Idle, hardware, captureVars, pathVars, streamVars
<1>1. drv' \in {None, sensor} /\ drv' # None /\ (drv # None => drv' = drv)
  BY ProbeFacts
<1>2. drv' \in {"ov5647", "imx219", "imx708"}
  BY <1>1, HardwareAssumption DEF TypeOK, None
<1>3. /\ callbacks' \in BOOLEAN /\ initiated' \in BOOLEAN
      /\ callbacks' => chipC /\ drv' \in {"imx219", "imx708"} /\ ~initiated'
      /\ initiated' => initiated
      /\ initiated' /\ ~callbacks' => ~callbacks
  <2>1. CASE drv' = "ov5647"
    <3>1. callbacks' = FALSE /\ UNCHANGED initiated
      BY <2>1 DEF Ov5647Enter
    <3>2. callbacks' \in BOOLEAN
      BY <3>1, Zenon
    <3>3. ~callbacks
      <4>1. CASE drv = None
        BY <4>1 DEF Streamed, None
      <4>2. CASE drv = drv'
        BY <2>1, <4>2 DEF Streamed
      <4> QED
        BY <1>1, <4>1, <4>2
    <3> QED
      BY <3>1, <3>2, <3>3 DEF TypeOK
  <2>2. CASE drv' \in {"imx219", "imx708"}
    <3>1. callbacks' = chipC /\ initiated' = (initiated /\ ~chipC)
      BY <2>2 DEF Imx219Enter, Imx708Enter
    <3>2. initiated' \in BOOLEAN
      BY <3>1, Zenon
    <3>3. ~chipC => ~callbacks
      BY DEF Streamed
    <3> QED
      BY <2>2, <3>1, <3>2, <3>3 DEF TypeOK
  <2> QED
    BY <1>2, <2>1, <2>2
<1>4. at' \in {"path", "bring"} /\ (at' = "bring" <=> ~initiated') /\ ~present /\ ~reading
  OBVIOUS
<1>5. TypeOK'
  BY <1>1, <1>3, <1>4 DEF TypeOK
<1>6. OneCall'
  BY <1>1, <1>4 DEF OneCall, InInit
<1>7. Captured'
  BY <1>4 DEF Captured, Capturing
<1>8. Streamed'
  BY <1>3, <1>4 DEF Streamed, Capturing
<1>9. Told'
  BY <1>3 DEF Told
<1> QED
  BY <1>5, <1>6, <1>7, <1>8, <1>9

\* An init that ends claims success.
LEMMA EndStep == SensorInv /\ InitEnd => SensorInv'
<1> SUFFICES ASSUME SensorInv, InitEnd PROVE SensorInv'
  OBVIOUS
<1> USE DEF SensorInv, InitEnd, hardware, captureVars, pathVars, streamVars
<1>1. initiated' \in BOOLEAN /\ present' \in BOOLEAN
  BY Zenon
<1>2. initiated' /\ present' /\ at' = "idle"
  OBVIOUS
<1>3. forgotten' \in BOOLEAN /\ (forgotten' <=> wedged)
  BY DEF TypeOK
<1>4. TypeOK'
  BY <1>1, <1>3 DEF TypeOK
<1>5. OneCall' /\ Captured' /\ Told' /\ Streamed'
  BY <1>2, <1>3 DEF OneCall, InInit, Captured, Capturing, Told, Streamed
<1> QED
  BY <1>4, <1>5

\* deinit, of whichever driver.
LEMMA DeinitStep == ASSUME NEW d, SensorInv, Deinit(d) PROVE SensorInv'
<1> USE DEF SensorInv, Deinit, Idle, hardware, thread, pathVars, streamVars
<1>1. armed' \in BOOLEAN /\ present' \in BOOLEAN
  BY Zenon
<1>2. ~armed' /\ ~present'
  OBVIOUS
<1>3. TypeOK'
  BY <1>1 DEF TypeOK
<1>4. OneCall' /\ Captured' /\ Told' /\ Streamed'
  BY <1>2 DEF OneCall, InInit, Captured, Capturing, Told, Streamed
<1> QED
  BY <1>3, <1>4

\* start_stream, as far as the wait for a frame.
LEMMA StartStep == SensorInv /\ StartBegin => SensorInv'
<1> SUFFICES ASSUME SensorInv, StartBegin PROVE SensorInv'
  OBVIOUS
<1> USE DEF SensorInv, StartBegin, Idle, hardware, cameraVars, captureVars, pathVars, streamVars
<1>1. TypeOK'
  BY DEF TypeOK
<1>2. OneCall' /\ Captured' /\ Told' /\ Streamed'
  BY DEF OneCall, InInit, Captured, Capturing, Told, Streamed
<1> QED
  BY <1>1, <1>2

\* The rest of start_stream: a frame to read, or a time-out.
LEMMA CaptureStep == SensorInv /\ Capture => SensorInv'
<1> SUFFICES ASSUME SensorInv, Capture PROVE SensorInv'
  OBVIOUS
<1> USE DEF SensorInv, Capture, hardware, captureVars, pathVars, streamVars
<1>1. /\ streaming' \in BOOLEAN /\ reading' \in BOOLEAN /\ initiated' \in BOOLEAN
      /\ initiated' => initiated
      /\ reading' => frameReady
  <2>1. CASE frameReady /\ streaming' = TRUE /\ reading' = TRUE /\ UNCHANGED initiated
    <3>1. streaming' \in BOOLEAN /\ reading' \in BOOLEAN
      BY <2>1, Zenon
    <3> QED
      BY <2>1, <3>1 DEF TypeOK
  <2>2. CASE ~frameReady /\ initiated' = FALSE /\ UNCHANGED <<streaming, reading>>
    <3>1. initiated' \in BOOLEAN /\ ~initiated'
      BY <2>2, Zenon
    <3>2. ~reading
      BY DEF OneCall
    <3> QED
      BY <2>2, <3>1, <3>2 DEF TypeOK
  <2> QED
    BY <2>1, <2>2
<1>2. TypeOK'
  BY <1>1 DEF TypeOK
<1>3. OneCall' /\ Captured' /\ Told' /\ Streamed'
  BY <1>1 DEF OneCall, InInit, Captured, Capturing, Told, Streamed
<1> QED
  BY <1>2, <1>3

\* stop_stream triggers the next capture and turns the stream on again.
LEMMA StopStep == SensorInv /\ CaptureStop => SensorInv'
<1> SUFFICES ASSUME SensorInv, CaptureStop PROVE SensorInv'
  OBVIOUS
<1> USE DEF SensorInv, CaptureStop, hardware, thread, pathVars
<1>1. /\ frameReady' \in BOOLEAN /\ armed' \in BOOLEAN /\ streaming' \in BOOLEAN
      /\ reading' \in BOOLEAN
  BY Zenon
<1>2. ~frameReady' /\ armed' /\ ~streaming' /\ ~reading'
  OBVIOUS
<1>3. present /\ drv # None
  BY DEF OneCall
<1>4. TypeOK'
  BY <1>1, <1>3, RestoreFacts DEF TypeOK
<1>5. OneCall' /\ Captured' /\ Told'
  BY <1>2, <1>3 DEF OneCall, InInit, Captured, Capturing, Told
<1>6. Streamed'
  BY <1>2, <1>3, RestoreFacts DEF Streamed, Capturing
<1> QED
  BY <1>4, <1>5, <1>6

\* An iteration that fails leaves the stream.
LEMMA AbandonStep == SensorInv /\ Abandon => SensorInv'
<1> SUFFICES ASSUME SensorInv, Abandon PROVE SensorInv'
  OBVIOUS
<1> USE DEF SensorInv, Abandon, hardware, cameraVars, thread, captureVars, pathVars, streamVars
<1>1. reading' \in BOOLEAN /\ ~reading'
  BY Zenon
<1>2. TypeOK'
  BY <1>1 DEF TypeOK
<1>3. OneCall' /\ Captured' /\ Told' /\ Streamed'
  BY <1>1 DEF OneCall, InInit, Captured, Capturing, Told, Streamed
<1> QED
  BY <1>2, <1>3

\* Every step of the drivers' init, whichever the driver.
LEMMA DriverStep == SensorInv /\ DriverInit => SensorInv'
<1> SUFFICES ASSUME SensorInv, DriverInit PROVE SensorInv'
  OBVIOUS
<1>1. CASE Ov5647BringUp \/ Imx219BringUp \/ Imx708BringUp
  BY <1>1, BringUpStep DEF Ov5647BringUp, Imx219BringUp, Imx708BringUp
<1>2. CASE Ov5647Path \/ Imx219Path \/ Imx708Path
  BY <1>2, PathStep DEF Ov5647Path, Imx219Path, Imx708Path
<1>3. CASE Ov5647Arm \/ Imx219Arm \/ Imx708Arm
  <2>1. Bump(frameCount) \in Nat
    BY DEF SensorInv, TypeOK, Bump, SKIP_FRAME_COUNT
  <2>2. at = "arm" /\ ArmLeaves /\ (at' = "finish" \/ (at' = "wait" /\ callbacks))
    BY <1>3 DEF Ov5647Arm, Imx219Arm, Imx708Arm
  <2>3. Trigger(0) \/ Trigger(Bump(frameCount))
    BY <1>3 DEF Ov5647Arm, Imx219Arm, Imx708Arm
  <2> QED
    BY <2>1, <2>2, <2>3, ArmStep
<1>4. CASE Imx219Wait \/ Imx708Wait
  BY <1>4, WaitStep DEF Imx219Wait, Imx708Wait
<1>5. CASE Ov5647CleanUp \/ Imx219CleanUp \/ Imx708CleanUp
  BY <1>5, CleanUpStep DEF Ov5647CleanUp, Imx219CleanUp, Imx708CleanUp
<1> QED
  BY <1>1, <1>2, <1>3, <1>4, <1>5 DEF DriverInit

\* Every step.
LEMMA NextInv == SensorInv /\ [Next]_vars => SensorInv'
<1> SUFFICES ASSUME SensorInv, [Next]_vars PROVE SensorInv'
  OBVIOUS
<1>1. CASE Interrupt
  BY <1>1, FrameStep, ErrorStep DEF Interrupt
<1>2. CASE DriverInit
  BY <1>2, DriverStep
<1>3. CASE Calls
  <2>1. CASE Ov5647Deinit \/ Imx219Deinit \/ Imx708Deinit
    BY <2>1, DeinitStep DEF Ov5647Deinit, Imx219Deinit, Imx708Deinit
  <2> QED
    BY <1>3, <2>1, RefusedStep, BeginStep, EndStep, StartStep, CaptureStep, StopStep, AbandonStep
    DEF Calls
<1>4. CASE UNCHANGED vars
  BY <1>4 DEF vars, hardware, cameraVars, thread, captureVars, pathVars, streamVars, SensorInv,
       TypeOK, OneCall, Captured, Streamed, Told, InInit, Capturing
<1> QED
  BY <1>1, <1>2, <1>3, <1>4 DEF Next

-----------------------------------------------------------------------------
(* The theorems. *)

\* SensorInv holds for every sensor on every board, whatever fails and whenever the
\* interrupt comes.
THEOREM SensorInductive == Spec => []SensorInv
BY InitInv, NextInv, PTL DEF Spec

\* While a frame is read from the buffer (start_stream to stop_stream) nothing is captured
\* into it, and what is there has the size get_frame reports and lies inside the sensor's
\* picture and inside the buffer.
THEOREM PictureRight == Spec => []HeldPicture
<1>1. SensorInv => HeldPicture
  <2> SUFFICES ASSUME SensorInv, reading PROVE HeldPicture
    BY DEF HeldPicture
  <2>1. /\ present /\ frameReady /\ ~armed /\ drv # None
        /\ picture = Window(drv, frame) /\ frame \in Options(board)
    BY DEF SensorInv, OneCall, Captured, Capturing
  <2>2. drv \in {"ov5647", "imx219", "imx708"} /\ board \in Boards
    BY <2>1, ChosenDriver DEF SensorInv, TypeOK
  <2> QED
    BY <2>1, <2>2, OptionFacts, WindowFits DEF HeldPicture
<1> QED
  BY <1>1, SensorInductive, PTL

\* Whoever waits for a frame waits for a capture that can complete, or one of the named
\* excuses holds; and an error reported outside an init makes the next one start afresh.
THEOREM WaitRight == Spec => []NoVainWait
<1>1. SensorInv => NoVainWait
  BY DEF SensorInv, OneCall, Captured, Streamed, Told, Capturing, NoVainWait
<1> QED
  BY <1>1, SensorInductive, PTL

\* CameraWE2 and its drivers implement module Camera as the Himax port: what the
\* iterations of INVOKE and SAMPLE rely on.  Every step is one of its calls, with a code
\* it may return, or leaves the two flags alone.
THEOREM CameraRefined == Spec => CameraImplemented
<1> DEFINE Step == \E r \in Port!Codes :
             Port!CamInit(r) \/ Port!Deinit(r) \/ Port!StartStream(r) \/ Port!StopStream(r)
<1>1. SensorInv /\ [Next]_vars => [Step]_<<present, streaming>>
  <2> SUFFICES ASSUME SensorInv, [Next]_vars, ~UNCHANGED <<present, streaming>> PROVE Step
    OBVIOUS
  <2>1. InitEnd \/ (\E d \in {"ov5647", "imx219", "imx708"} : Deinit(d)) \/ Capture \/ CaptureStop
    <3>1. ~UNCHANGED vars /\ ~Interrupt /\ ~DriverInit
      BY DEF vars, cameraVars, Interrupt, FrameEvent, ErrorEvent, DriverInit,
           Ov5647BringUp, Imx219BringUp, Imx708BringUp, BringUpLeaves,
           Ov5647Path, Imx219Path, Imx708Path, PathLeaves,
           Ov5647Arm, Imx219Arm, Imx708Arm, ArmLeaves,
           Imx219Wait, Imx708Wait, WaitLeaves,
           Ov5647CleanUp, Imx219CleanUp, Imx708CleanUp, CleanUp
    <3>2. ~InitRefused /\ ~InitBegin /\ ~StartBegin /\ ~Abandon
      BY DEF InitRefused, InitBegin, StartBegin, Abandon, cameraVars
    <3> QED
      BY <3>1, <3>2 DEF Next, Calls, Ov5647Deinit, Imx219Deinit, Imx708Deinit
  <2> USE DEF Port!Codes, Port!OK
  <2>2. CASE InitEnd
    <3>1. present' = TRUE /\ UNCHANGED streaming
      BY <2>2 DEF InitEnd
    <3>2. Port!CamInit("ok")
      BY <3>1 DEF Port!CamInit, Port!CamInitWE2
    <3> QED
      BY <3>2
  <2>3. CASE \E d \in {"ov5647", "imx219", "imx708"} : Deinit(d)
    <3>1. present /\ present' = FALSE /\ UNCHANGED streaming
      BY <2>3 DEF Deinit
    <3>2. Port!Deinit("ok")
      BY <3>1 DEF Port!Deinit, Port!DeinitWE2
    <3> QED
      BY <3>2
  <2>4. CASE Capture
    <3>1. streaming' = TRUE /\ present /\ ~streaming /\ UNCHANGED present
      BY <2>4 DEF Capture, SensorInv, OneCall
    <3>2. Port!StartStream("ok")
      BY <3>1 DEF Port!StartStream, Port!StartWE2
    <3> QED
      BY <3>2
  <2>5. CASE CaptureStop
    <3>1. streaming' = FALSE /\ UNCHANGED present
      BY <2>5 DEF CaptureStop
    <3>2. Port!StopStream("ok")
      BY <3>1 DEF Port!StopStream, Port!StopWE2
    <3> QED
      BY <3>2
  <2> QED
    BY <2>1, <2>2, <2>3, <2>4, <2>5
<1> QED
  BY <1>1, SensorInductive, PTL DEF Spec, CameraImplemented
=============================================================================
