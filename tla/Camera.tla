------------------------------- MODULE Camera -------------------------------
(***************************************************************************)
(* The camera driver behind porting/el_camera.h, as the two ports that     *)
(* matter implement it: CameraWE2 (Himax), which keeps a flag, and         *)
(* CameraEsp, which takes the one frame buffer of the esp32-camera driver  *)
(* and gives it back.  An action takes the code the call returns; which    *)
(* codes are possible is part of the action.  All calls are made by the    *)
(* executor's worker.                                                      *)
(***************************************************************************)
EXTENDS Naturals

VARIABLES
  port,        \* "we2" or "esp": which driver the build has
  present,     \* _is_present
  streaming,   \* _is_streaming
  fb,          \* CameraEsp::fb is a frame, not null
  lent         \* frame buffers the esp32-camera driver has not got back

cameraVars == <<port, present, streaming, fb, lent>>

OK == "ok"
Codes == {OK, "EIO", "EBUSY", "EPERM", "EAGAIN", "ELOG"}
FrameBuffers == 1      \* config.fb_count

CameraInit ==
  /\ port \in {"we2", "esp"}
  /\ present = FALSE /\ streaming = FALSE /\ fb = FALSE /\ lent = 0

CamInitWE2(r) ==
  /\ r \in IF present THEN {OK} ELSE {OK, "EIO"}
  /\ present' = (r = OK)
  /\ UNCHANGED <<port, streaming, fb, lent>>

CamInitEsp(r) ==
  /\ r \in {OK, "EIO"}
  /\ present' = (present \/ r = OK)
  /\ UNCHANGED <<port, streaming, fb, lent>>

CamInit(r) == IF port = "we2" THEN CamInitWE2(r) ELSE CamInitEsp(r)

DeinitWE2(r) ==
  /\ r \in IF present THEN {OK, "EIO"} ELSE {OK}
  /\ present' = (r # OK)
  /\ UNCHANGED <<port, streaming, fb, lent>>

\* esp_camera_deinit frees the buffers, those it lent too.
DeinitEsp(r) ==
  /\ r \in {OK, "EAGAIN"}
  /\ present' = (r # OK)
  /\ lent' = IF r = OK THEN 0 ELSE lent
  /\ UNCHANGED <<port, streaming, fb>>

Deinit(r) == IF port = "we2" THEN DeinitWE2(r) ELSE DeinitEsp(r)

StartWE2(r) ==
  /\ r \in IF streaming THEN {"EBUSY"} ELSE IF ~present THEN {"EPERM"} ELSE {OK, "EIO"}
  /\ streaming' = (streaming \/ r = OK)
  /\ UNCHANGED <<port, present, fb, lent>>

StartEsp(r) ==
  /\ r \in IF present /\ lent < FrameBuffers THEN {OK, "EIO"} ELSE {"EIO"}
  /\ fb' = (r = OK)
  /\ lent' = IF r = OK THEN lent + 1 ELSE lent
  /\ streaming' = (streaming \/ r = OK)
  /\ UNCHANGED <<port, present>>

StartStream(r) == IF port = "we2" THEN StartWE2(r) ELSE StartEsp(r)

\* Mutant of StopWE2: the flag stays up.
StopWE2KeepsFlag(r) ==
  /\ r \in IF streaming THEN {OK, "EIO"} ELSE {OK}
  /\ UNCHANGED cameraVars

StopWE2(r) ==
  /\ r \in IF streaming THEN {OK, "EIO"} ELSE {OK}
  /\ streaming' = (streaming /\ r # OK)
  /\ UNCHANGED <<port, present, fb, lent>>

StopEsp(r) ==
  /\ r = IF streaming THEN OK ELSE "ELOG"
  /\ streaming' = FALSE
  /\ lent' = IF streaming /\ fb THEN lent - 1 ELSE lent
  /\ UNCHANGED <<port, present, fb>>

StopStream(r) == IF port = "we2" THEN StopWE2(r) ELSE StopEsp(r)

\* get_frame, and get_processed_frame where the port has it.
GetFrame(r) ==
  IF port = "we2"
  THEN r = (IF streaming THEN OK ELSE "EPERM") /\ UNCHANGED cameraVars
  ELSE /\ r = IF streaming /\ fb THEN OK ELSE "EIO"
       /\ streaming' = (streaming /\ fb)
       /\ UNCHANGED <<port, present, fb, lent>>

CameraOK ==
  /\ port \in {"we2", "esp"}
  /\ present \in BOOLEAN /\ streaming \in BOOLEAN /\ fb \in BOOLEAN
  /\ lent \in 0..FrameBuffers
=============================================================================
