------------------------------ MODULE SensorWE2 ------------------------------
(***************************************************************************)
(* CameraWE2 with the sensor drivers below it (drivers/drv_*.c): the one   *)
(* thread that calls the camera, and the interrupt of the data path that   *)
(* calls _drv_dp_event_cb between any two of its steps.  The image sensor  *)
(* sends frames while its stream is on and the MIPI receiver is up; the    *)
(* data path captures one frame for every retrigger.  Registers, clocks    *)
(* and pixels are left out.                                                *)
(***************************************************************************)
EXTENDS Integers

CONSTANTS
  Sensors,   \* the sensors a board may have
  Boards     \* "watcher" or "grove": which table of sizes the build has

ASSUME HardwareAssumption ==
  /\ Sensors \subseteq {"ov5647", "imx219", "imx708"}
  /\ Boards \subseteq {"watcher", "grove"}

VARIABLES
  sensor, chipC, board,   \* the hardware: never changes
  drv,         \* _drv_cam_init: the driver the first successful probe chose
  present, streaming,     \* of CameraWE2
  at,          \* where the calling thread is
  code,        \* ret, on the way to the label err
  want,        \* the size init was asked for
  initiated,   \* _initiated_before
  frameReady,  \* _frame_ready
  frameCount,  \* _frame_count, up to one past SKIP_FRAME_COUNT
  callbacks,   \* the two function pointers version C of the chip needs are set
  frame,       \* _frame: width and height of what get_frame hands out
  sensorOn,    \* the sensor's stream register
  csi,         \* the MIPI blocks that are enabled
  path,        \* what the data path is programmed to cut out of a frame
  armed,       \* a capture has been triggered and is not complete
  registered,  \* the data path has our callback
  wedged,      \* it reported an error and was not brought up since
  picture,     \* what is in the buffer: the path it was captured with
  reading,     \* the caller is between start_stream and stop_stream
  forgotten,   \* an error was reported while an init was under way
  hopeless     \* the stream was not restored: a write failed, or version C
               \* turned it off for a frame that is skipped

hardware   == <<sensor, chipC, board>>
thread     == <<at, code, want>>
cameraVars == <<drv, present, streaming>>
streamVars == <<sensorOn, csi>>
pathVars   == <<frame, path>>
captureVars == <<frameReady, frameCount, armed, picture>>
vars == <<hardware, cameraVars, thread, initiated, captureVars, callbacks, pathVars,
          streamVars, registered, wedged, reading, forgotten, hopeless>>

None == "none"
SKIP_FRAME_COUNT == 2

\* Width and height of the whole picture of a sensor, and by what the data path
\* can divide it.
Full(s) == CASE s = "ov5647" -> [w |-> 1296, h |-> 972]
             [] s = "imx219" -> [w |-> 3280, h |-> 2464]
             [] s = "imx708" -> [w |-> 2304, h |-> 1296]

\* The highest division whose result still covers the frame.
Highest(factors, f) ==
  LET fit == {d \in factors : d <= f} IN CHOOSE d \in fit : \A e \in fit : e <= d

Ov5647Bin(f) == Highest({1, 2, 4, 8}, f)
Imx219Bin(f) == Highest({1, 4, 5, 8, 16}, f)
Imx708Bin(f) == Highest({1, 2, 4, 8}, f)

Bin(s, f) == CASE s = "ov5647" -> Ov5647Bin(f)
               [] s = "imx219" -> Imx219Bin(f)
               [] s = "imx708" -> Imx708Bin(f)

\* Mutant of Factor: the larger of the two factors.
FactorOfOneSide(s, o) ==
  LET fw == Full(s).w \div o.w  fh == Full(s).h \div o.h IN IF fw > fh THEN fw ELSE fh

Factor(s, o) ==
  LET fw == Full(s).w \div o.w  fh == Full(s).h \div o.h IN IF fw < fh THEN fw ELSE fh

\* The window of the frame in the divided picture; start_x and start_y are 16 bits.
Window(s, o) ==
  LET d == Bin(s, Factor(s, o))
      Start(res, len) == ((res - len) \div 2) % 65536
  IN [w |-> o.w, h |-> o.h,
      resW |-> Full(s).w \div d, resH |-> Full(s).h \div d,
      x |-> Start(Full(s).w \div d, o.w), y |-> Start(Full(s).h \div d, o.h)]

NoPath == [w |-> 0, h |-> 0, resW |-> 0, resH |-> 0, x |-> 0, y |-> 0]

\* The sizes an option may name.
Dims(w, h) == [w |-> w, h |-> h]
Options(b) ==
  IF b = "watcher" THEN {Dims(240, 240), Dims(416, 416), Dims(480, 480), Dims(640, 480)}
                   ELSE {Dims(240, 240), Dims(480, 480), Dims(640, 480)}

\* FRAME_WIDTH_MAX by FRAME_HEIGHT_MAX, three bytes for two pixels.
YUV422_BASE_SIZE == (640 * 480 * 3) \div 2

Init ==
  /\ sensor \in Sensors \cup {None} /\ chipC \in BOOLEAN /\ board \in Boards
  /\ drv = None /\ present = FALSE /\ streaming = FALSE
  /\ at = "idle" /\ code = "ok" /\ want = Dims(0, 0)
  /\ initiated = FALSE /\ frameReady = FALSE /\ frameCount = 0 /\ callbacks = FALSE
  /\ frame = Dims(0, 0) /\ sensorOn = FALSE /\ csi = {} /\ path = NoPath
  /\ armed = FALSE /\ registered = FALSE /\ wedged = FALSE /\ picture = NoPath
  /\ reading = FALSE /\ forgotten = FALSE /\ hopeless = FALSE

Bump(n) == IF n > SKIP_FRAME_COUNT THEN n ELSE n + 1

-----------------------------------------------------------------------------
(* The MIPI blocks and the stream register.  Writes go over I2C and may fail. *)

Ov5647CsiEnable == csi' = csi \cup {"rx"}
Imx219CsiEnable == csi' = csi \cup {"rx", "tx"}
Imx708CsiEnable == csi' = csi \cup {"rx", "tx"}

CsiEnable == CASE drv = "ov5647" -> Ov5647CsiEnable
               [] drv = "imx219" -> Imx219CsiEnable
               [] drv = "imx708" -> Imx708CsiEnable

\* The transmitter of the IMX drivers stays on.
Ov5647CsiDisable == csi' = csi \ {"rx"}
Imx219CsiDisable == csi' = csi \ {"rx"}
Imx708CsiDisable == csi' = csi \ {"rx"}

CsiDisable == CASE drv = "ov5647" -> Ov5647CsiDisable
                [] drv = "imx219" -> Imx219CsiDisable
                [] drv = "imx708" -> Imx708CsiDisable

StreamOff(written) == sensorOn' = (sensorOn /\ ~written)

\* Mutant of OnStopCapture: the receiver comes back, the sensor stays off.
OnStopCaptureHalf(written) ==
  /\ CsiEnable
  /\ UNCHANGED <<sensorOn, hopeless>>

\* _on_stop_capture_cb; a write that fails is only logged.
OnStopCapture(written) ==
  /\ CsiEnable
  /\ sensorOn' = (sensorOn \/ written)
  /\ hopeless' = ~sensorOn'

\* _on_frame_ready_cb
OnFrameReady(written) ==
  /\ StreamOff(written)
  /\ CsiDisable

RestoreStream == IF callbacks THEN \E written \in BOOLEAN : OnStopCapture(written)
                              ELSE UNCHANGED <<streamVars, hopeless>>

-----------------------------------------------------------------------------
(* The interrupt: _drv_dp_event_cb. *)

\* A frame.  The first ones after power-up are not shown but captured again.
FrameEvent ==
  /\ armed /\ registered /\ sensorOn /\ "rx" \in csi /\ ~wedged
  /\ frameCount' = Bump(frameCount)
  /\ LET ready == frameCount' > SKIP_FRAME_COUNT
     IN /\ frameReady' = ready
        /\ armed' = ~ready
        /\ hopeless' = (hopeless \/ (callbacks /\ ~ready))
  /\ picture' = path
  /\ IF callbacks THEN \E written \in BOOLEAN : OnFrameReady(written)
                  ELSE UNCHANGED streamVars
  /\ UNCHANGED <<hardware, cameraVars, thread, initiated, callbacks, pathVars,
                 registered, wedged, reading, forgotten>>

\* Any other event: the next init has to bring everything up again.
ErrorEvent ==
  /\ armed /\ registered /\ ~wedged
  /\ wedged' = TRUE
  /\ initiated' = FALSE
  /\ UNCHANGED <<hardware, cameraVars, thread, captureVars, callbacks, pathVars,
                 streamVars, registered, reading, forgotten, hopeless>>

-----------------------------------------------------------------------------
(* CameraWE2::init and drv_*_init.  The thread goes bring -> path -> arm ->  *)
(* (wait) -> finish, or to err.                                              *)

Idle == at = "idle" /\ ~reading

\* A driver is chosen when it finds its sensor on the bus.
Ov5647Probe(found) == found /\ sensor = "ov5647"
Imx219Probe(found) == found /\ sensor = "imx219"
Imx708Probe(found) == found /\ sensor = "imx708"

Probe(found) ==
  drv' = IF drv # None THEN drv
         ELSE IF Ov5647Probe(found) THEN "ov5647"
         ELSE IF Imx219Probe(found) THEN "imx219"
         ELSE IF Imx708Probe(found) THEN "imx708" ELSE None

\* Version C of the chip always starts from scratch, and needs the callbacks.
Ov5647Enter == callbacks' = FALSE /\ UNCHANGED initiated
Imx219Enter == callbacks' = chipC /\ initiated' = (initiated /\ ~chipC)
Imx708Enter == callbacks' = chipC /\ initiated' = (initiated /\ ~chipC)

\* No sensor answers, or the option names no rotation or size: nothing is touched.
InitRefused ==
  /\ Idle /\ ~present
  /\ \E found \in BOOLEAN : Probe(found)
  /\ UNCHANGED <<hardware, present, streaming, thread, initiated, captureVars, callbacks,
                 pathVars, streamVars, registered, wedged, reading, forgotten, hopeless>>

InitBegin ==
  /\ Idle /\ ~present
  /\ Probe(TRUE) /\ drv' # None
  /\ want' \in Options(board)
  /\ CASE drv' = "ov5647" -> Ov5647Enter
       [] drv' = "imx219" -> Imx219Enter
       [] drv' = "imx708" -> Imx708Enter
  /\ at' = IF initiated' THEN "path" ELSE "bring"
  /\ UNCHANGED <<hardware, present, streaming, code, captureVars, pathVars, streamVars,
                 registered, wedged, reading, forgotten, hopeless>>

\* The register tables, the stream off first: every write but the last may be
\* the one that fails.
TablesWritten ==
  /\ at' = "path" /\ sensorOn' = FALSE /\ CsiEnable
  /\ UNCHANGED <<code, want>>
TablesFailed(next) ==
  /\ at' = next /\ code' = "EIO" /\ sensorOn' \in {sensorOn, FALSE}
  /\ UNCHANGED <<want, csi>>

BringUpLeaves == UNCHANGED <<hardware, cameraVars, initiated, captureVars, callbacks,
                             pathVars, registered, wedged, reading, forgotten, hopeless>>

Ov5647BringUp ==
  /\ at = "bring" /\ drv = "ov5647" /\ BringUpLeaves
  /\ TablesWritten \/ TablesFailed("err")

Imx219BringUp ==
  /\ at = "bring" /\ drv = "imx219" /\ BringUpLeaves
  /\ TablesWritten \/ TablesFailed("err")

\* Only the first two tables and the mirror setting count; a mirror setting that
\* fails returns at once, past the clean-up.
Imx708BringUp ==
  /\ at = "bring" /\ drv = "imx708" /\ BringUpLeaves
  /\ TablesWritten \/ TablesFailed("err") \/ TablesFailed("idle")

\* The data path: the window, the frame that describes it, buffers of zeros; and
\* from scratch also the callback and the sensor's stream, whose failure returns
\* past the clean-up.
ProgramPath ==
  /\ frame' = want
  /\ path' = Window(drv, want)
  /\ picture' = NoPath

StreamOn ==
  IF initiated
  THEN /\ at' = "arm"
       /\ RestoreStream
       /\ UNCHANGED <<code, registered, wedged, forgotten>>
  ELSE /\ registered' = TRUE /\ wedged' = FALSE /\ forgotten' = FALSE
       /\ \/ at' = "arm" /\ sensorOn' = TRUE /\ hopeless' = FALSE /\ UNCHANGED code
             /\ IF callbacks THEN CsiEnable ELSE UNCHANGED csi
          \/ at' = "idle" /\ code' = "EIO" /\ UNCHANGED <<streamVars, hopeless>>

PathLeaves == UNCHANGED <<hardware, cameraVars, want, initiated, frameReady, frameCount,
                          armed, callbacks, reading>>

Ov5647Path == at = "path" /\ drv = "ov5647" /\ ProgramPath /\ StreamOn /\ PathLeaves
Imx219Path == at = "path" /\ drv = "imx219" /\ ProgramPath /\ StreamOn /\ PathLeaves
Imx708Path == at = "path" /\ drv = "imx708" /\ ProgramPath /\ StreamOn /\ PathLeaves

\* Mutant of Trigger: the frame of the option before still counts as ready.
TriggerStale(count) ==
  /\ frameCount' = count /\ armed' = TRUE
  /\ UNCHANGED frameReady

\* The first capture.  The OV driver skips frames again, the others count on.
Trigger(count) ==
  /\ frameReady' = FALSE /\ frameCount' = count /\ armed' = TRUE

ArmLeaves == UNCHANGED <<hardware, cameraVars, code, want, initiated, picture, callbacks,
                         pathVars, streamVars, registered, wedged, reading, forgotten,
                         hopeless>>

Ov5647Arm ==
  /\ at = "arm" /\ drv = "ov5647"
  /\ Trigger(0) /\ at' = "finish" /\ ArmLeaves
Imx219Arm ==
  /\ at = "arm" /\ drv = "imx219"
  /\ Trigger(Bump(frameCount)) /\ at' = (IF callbacks THEN "wait" ELSE "finish") /\ ArmLeaves
Imx708Arm ==
  /\ at = "arm" /\ drv = "imx708"
  /\ Trigger(Bump(frameCount)) /\ at' = (IF callbacks THEN "wait" ELSE "finish") /\ ArmLeaves

WaitLeaves == UNCHANGED <<hardware, cameraVars, want, initiated, captureVars, callbacks,
                          pathVars, registered, wedged, reading, forgotten>>

\* One second for a frame, on version C; then its callback is undone.
WaitForFrame ==
  \/ /\ frameReady /\ RestoreStream
     /\ at' = "finish" /\ UNCHANGED code
  \/ /\ ~frameReady
     /\ at' = "err" /\ code' = "ETIMOUT" /\ UNCHANGED <<streamVars, hopeless>>

Imx219Wait == at = "wait" /\ drv = "imx219" /\ WaitForFrame /\ WaitLeaves
Imx708Wait == at = "wait" /\ drv = "imx708" /\ WaitForFrame /\ WaitLeaves

\* An error reported since the capture was triggered is overwritten here.
InitEnd ==
  /\ at = "finish"
  /\ initiated' = TRUE /\ present' = TRUE /\ at' = "idle"
  /\ forgotten' = wedged
  /\ UNCHANGED <<hardware, drv, streaming, code, want, captureVars, callbacks, pathVars,
                 streamVars, registered, wedged, reading, hopeless>>

\* The label err: capture and stream off, all of it to be done again.
CleanUp ==
  /\ at = "err" /\ at' = "idle"
  /\ initiated' = FALSE /\ armed' = FALSE
  /\ \E written \in BOOLEAN : StreamOff(written)
  /\ CsiDisable
  /\ UNCHANGED <<hardware, cameraVars, code, want, frameReady, frameCount, picture,
                 callbacks, pathVars, registered, wedged, reading, forgotten, hopeless>>

Ov5647CleanUp == drv = "ov5647" /\ CleanUp
Imx219CleanUp == drv = "imx219" /\ CleanUp
Imx708CleanUp == drv = "imx708" /\ CleanUp

-----------------------------------------------------------------------------
(* deinit, start_stream, stop_stream *)

\* The data path stops; with the fast switch the sensor goes on sending.
Deinit(d) ==
  /\ drv = d /\ Idle /\ present
  /\ armed' = FALSE /\ present' = FALSE
  /\ UNCHANGED <<hardware, drv, streaming, thread, initiated, frameReady, frameCount,
                 picture, callbacks, pathVars, streamVars, registered, wedged, reading,
                 forgotten, hopeless>>

Ov5647Deinit == Deinit("ov5647")
Imx219Deinit == Deinit("imx219")
Imx708Deinit == Deinit("imx708")

\* Mutant of StartBegin: a sensor that was taken away is waited for.
StartBeginAbsent ==
  /\ Idle /\ ~streaming /\ at' = "start"
  /\ UNCHANGED <<hardware, cameraVars, code, want, initiated, captureVars, callbacks,
                 pathVars, streamVars, registered, wedged, reading, forgotten, hopeless>>

\* EL_EBUSY while streaming and EL_EPERM without a sensor change nothing.
StartBegin ==
  /\ Idle /\ ~streaming /\ present /\ at' = "start"
  /\ UNCHANGED <<hardware, cameraVars, code, want, initiated, captureVars, callbacks,
                 pathVars, streamVars, registered, wedged, reading, forgotten, hopeless>>

\* _drv_capture: two seconds for a frame; without one the next init starts from
\* scratch, and the capture stays triggered.
Capture ==
  /\ at = "start" /\ at' = "idle"
  /\ \/ frameReady /\ streaming' = TRUE /\ reading' = TRUE /\ UNCHANGED initiated
     \/ ~frameReady /\ initiated' = FALSE /\ UNCHANGED <<streaming, reading>>
  /\ UNCHANGED <<hardware, drv, present, code, want, captureVars, callbacks, pathVars,
                 streamVars, registered, wedged, forgotten, hopeless>>

\* _drv_capture_stop: the next capture is triggered at once.
CaptureStop ==
  /\ at = "idle" /\ reading
  /\ frameReady' = FALSE /\ armed' = TRUE
  /\ RestoreStream
  /\ streaming' = FALSE /\ reading' = FALSE
  /\ UNCHANGED <<hardware, drv, present, thread, initiated, frameCount, picture, callbacks,
                 pathVars, registered, wedged, forgotten>>

\* An iteration that fails returns without stop_stream.
Abandon ==
  /\ at = "idle" /\ reading /\ reading' = FALSE
  /\ UNCHANGED <<hardware, cameraVars, thread, initiated, captureVars, callbacks, pathVars,
                 streamVars, registered, wedged, forgotten, hopeless>>

Interrupt == FrameEvent \/ ErrorEvent
DriverInit ==
  \/ Ov5647BringUp \/ Ov5647Path \/ Ov5647Arm \/ Ov5647CleanUp
  \/ Imx219BringUp \/ Imx219Path \/ Imx219Arm \/ Imx219Wait \/ Imx219CleanUp
  \/ Imx708BringUp \/ Imx708Path \/ Imx708Arm \/ Imx708Wait \/ Imx708CleanUp
Calls ==
  \/ InitRefused \/ InitBegin \/ InitEnd \/ StartBegin \/ Capture \/ CaptureStop \/ Abandon
  \/ Ov5647Deinit \/ Imx219Deinit \/ Imx708Deinit
Next == Interrupt \/ DriverInit \/ Calls

Spec == Init /\ [][Next]_vars

-----------------------------------------------------------------------------
TypeOK ==
  /\ sensor \in Sensors \cup {None} /\ chipC \in BOOLEAN /\ board \in Boards
  /\ drv \in {None, sensor}
  /\ present \in BOOLEAN /\ streaming \in BOOLEAN /\ reading \in BOOLEAN
  /\ at \in {"idle", "bring", "path", "arm", "wait", "finish", "err", "start"}
  /\ initiated \in BOOLEAN /\ callbacks \in BOOLEAN /\ registered \in BOOLEAN
  /\ frameReady \in BOOLEAN /\ armed \in BOOLEAN /\ sensorOn \in BOOLEAN
  /\ wedged \in BOOLEAN /\ forgotten \in BOOLEAN /\ hopeless \in BOOLEAN
  /\ frameCount \in Nat
  /\ csi \subseteq {"rx", "tx"}

\* Between start_stream and stop_stream nothing is captured into the buffer, and
\* what is there is a frame of the size get_frame reports, cut out of the picture
\* the sensor sends and no larger than the buffer: not one of the option before,
\* whatever failed, timed out or came late in between.
HeldPicture ==
  reading =>
    /\ ~armed
    /\ picture.w = frame.w /\ picture.h = frame.h /\ picture.w > 0
    /\ picture.x + picture.w <= picture.resW /\ picture.y + picture.h <= picture.resH
    /\ (frame.w * frame.h * 3) \div 2 <= YUV422_BASE_SIZE

\* Who waits for a frame waits for a capture that can complete: it is triggered,
\* and the sensor and the receiver are on.  What excuses it is an error of the
\* data path, a write that failed and was only logged, and on version C a frame
\* that was skipped.  And an error makes the next init start from scratch, unless it was
\* reported while an init was under way, which ends by claiming success.
NoVainWait ==
  /\ at \in {"wait", "start"} /\ ~frameReady =>
       wedged \/ hopeless \/ (armed /\ registered /\ sensorOn /\ "rx" \in csi)
  /\ at = "idle" /\ wedged /\ initiated => forgotten

-----------------------------------------------------------------------------
(* Why the last two hold. *)

InInit == at \in {"bring", "path", "arm", "wait", "finish", "err"}

\* From the first trigger of an init on, until deinit.
Capturing == present \/ at \in {"wait", "finish"}

\* One call at a time: a sensor being brought up is not there yet, and one that is
\* read from stays.  What was brought up is never brought up again as it is.
OneCall ==
  /\ InInit => drv # None /\ ~present /\ ~reading /\ want \in Options(board)
  /\ present => drv # None
  /\ at = "start" => present /\ ~streaming /\ ~reading
  /\ reading => present /\ at = "idle" /\ frameReady
  /\ at = "bring" => ~initiated

\* A capture is triggered or a frame is there, one or the other, and then the frame
\* was cut as the data path is programmed: for the frame that is reported.
Captured ==
  /\ Capturing => armed = ~frameReady /\ (frameReady => picture = path)
  /\ armed => Capturing \/ at = "err"
  /\ Capturing \/ at = "arm" => frame \in Options(board) /\ path = Window(drv, frame)

\* The callback stays registered.  A chip that needs no callbacks never switches off
\* what one init switched on; with them the stream is off for a frame that is ready.
Streamed ==
  /\ initiated \/ Capturing \/ at = "arm" => registered
  /\ ~callbacks /\ (initiated \/ Capturing \/ at = "arm") => sensorOn
  /\ ~callbacks /\ (initiated \/ Capturing \/ at \in {"path", "arm"}) => "rx" \in csi
  /\ at = "arm" \/ (Capturing /\ ~frameReady) => hopeless \/ (sensorOn /\ "rx" \in csi)
  /\ callbacks => chipC /\ drv \in {"imx219", "imx708"}

Told == wedged /\ initiated => forgotten

SensorInv == TypeOK /\ OneCall /\ Captured /\ Streamed /\ Told

\* What the iterations rely on: seen from its flags, the drivers do what module
\* Camera says of the Himax port.
Port == INSTANCE Camera WITH port <- "we2", fb <- FALSE, lent <- 0

CameraImplemented ==
  [][\E r \in Port!Codes :
       Port!CamInit(r) \/ Port!Deinit(r) \/ Port!StartStream(r) \/ Port!StopStream(r)
    ]_<<present, streaming>>
=============================================================================
