----------------------------- MODULE Algorithms -----------------------------
(***************************************************************************)
(* The algorithms of core/algorithm/ under AT+INVOKE: which one is taken   *)
(* for the model in use, what its constructor demands of the model, and    *)
(* then, for each frame, the rescaling, the input tensor, the engine's run *)
(* and the reading of the output tensors.  Values and scores are left out: *)
(* what is kept of a postprocess is the highest element it may read of     *)
(* each output and the scale it applies to coordinates.                    *)
(***************************************************************************)
EXTENDS Integers, Sequences, FiniteSetsExt

CONSTANTS
  Models,           \* [input : dims, outputs : sequence of dims]
  Frames            \* the cameras' pictures

(* A grid (four dimensions or more) has no dimension of zero; "one" and "none" *)
(* stand for no frame.                                                         *)
ASSUME ModelAssumption ==
  \A m \in Models :
    /\ m \in [input : Seq(Nat), outputs : Seq(Seq(Nat))]
    /\ \A i \in DOMAIN m.outputs :
         Len(m.outputs[i]) >= 4 => \A d \in DOMAIN m.outputs[i] : m.outputs[i][d] > 0

ASSUME FrameAssumption == {"one", "none"} \cap Frames = {}

VARIABLES
  asserts,          \* EL_ASSERT stops the program (CONFIG_EL_DEBUG >= 1)
  himax,            \* CONFIG_EL_TARGET_HIMAX: no PFLD in event_loop
  model,            \* of the engine
  header, wanted,   \* the type of the model's header, and of AT+ALGO
  type, stage,      \* the algorithm, and how far it is
  frame,            \* given to run
  scale, strides,   \* the frame _w_scale and _scaled_strides are of ("one": 1)
  lastInput,        \* _last_input_width, _last_input_height
  written,          \* bytes written to the input tensor
  read, shown       \* of the last postprocess: elements and the scale applied

algorithmVars == <<asserts, himax, model, header, wanted, type, stage, frame, scale, strides,
          lastInput, written, read, shown>>

Undefined == "UNDEFINED"
Types == {"YOLO_POSE", "YOLO_WORLD", "YOLO_V8", "NVIDIA_DET", "YOLO", "FOMO", "IMCLS", "PFLD"}

-----------------------------------------------------------------------------
(* The engine (core/engine/el_engine_tflite.cpp): a missing output has no   *)
(* dimensions.  dims[i] of the code is Dim(shape, i).                       *)

get_input_shape(m) == m.input
get_output_shape(m, i) == IF i < Len(m.outputs) THEN m.outputs[i + 1] ELSE <<>>

Dim(shape, i) == shape[i + 1]
Elements(shape) == LET p[i \in 0 .. Len(shape)] == IF i = 0 THEN 1 ELSE p[i - 1] * shape[i]
                   IN  p[Len(shape)]

Batch(shape, size) == Len(shape) = size /\ Dim(shape, 0) = 1

(* What every algorithm asks of the input: one picture, grey or RGB. *)
PictureInput(in, side) ==
  Batch(in, 4) /\ Dim(in, 1) >= side /\ Dim(in, 2) >= side /\ Dim(in, 3) \in {1, 3}
SquareInput(in, multiple) ==
  PictureInput(in, 32) /\ Dim(in, 1) = Dim(in, 2) /\ Dim(in, 1) % multiple = 0

(* generate_anchor_strides: the splits of the input and what precedes them. *)
Strides == <<8, 16, 32>>
Split(in, k) == Min({Dim(in, 1), Dim(in, 2)}) \div Strides[k]
Anchors(in, k) == Split(in, k) * Split(in, k)
Start(in, k) == LET s[i \in 1 .. k] == IF i = 1 THEN 0 ELSE s[i - 1] + Anchors(in, i - 1)
                IN  s[k]
AllAnchors(in) == Start(in, 3) + Anchors(in, 3)

-----------------------------------------------------------------------------
(* is_model_valid *)

YoloValid(m) ==
  LET in == get_input_shape(m)   out == get_output_shape(m, 0)
  IN  /\ SquareInput(in, 32)
      /\ Batch(out, 3) /\ Dim(out, 1) = AllAnchors(in) * Dim(in, 3) /\ Dim(out, 2) \in 6 .. 85

YoloV8Valid(m) ==
  LET in == get_input_shape(m)   out == get_output_shape(m, 0)
  IN  /\ SquareInput(in, 32)
      /\ Batch(out, 3) /\ Dim(out, 2) = AllAnchors(in) /\ Dim(out, 1) \in 5 .. 84

NvidiaDetValid(m) ==
  LET in == get_input_shape(m)
  IN  /\ SquareInput(in, 16)
      /\ \A i \in 0 .. 1 :
           LET out == get_output_shape(m, i)
           IN  /\ Len(out) >= 4
               /\ Dim(in, 1) \div 16 = Dim(out, 1) /\ Dim(in, 2) \div 16 = Dim(out, 2)

FomoValid(m) ==
  LET in == get_input_shape(m)   out == get_output_shape(m, 0)
  IN  /\ PictureInput(in, 16)
      /\ Batch(out, 4) /\ Dim(out, 1) \in 2 .. Dim(in, 1) /\ Dim(out, 2) \in 2 .. Dim(in, 2)
      /\ Dim(out, 3) >= 2

ImclsValid(m) ==
  PictureInput(m.input, 16) /\ LET out == get_output_shape(m, 0) IN Batch(out, 2) /\ Dim(out, 1) >= 2

PfldValid(m) ==
  PictureInput(m.input, 32) /\ LET out == get_output_shape(m, 0) IN Batch(out, 2) /\ Dim(out, 1) % 2 = 0

(* Each stride has one output of scores and one of boxes, 64 values each: as *)
(* many outputs as that, and every stride served.                            *)
Served(m, outputs, k) == \E i \in outputs : Dim(get_output_shape(m, i), 1) = Anchors(m.input, k)

YoloPoseValid(m) ==
  /\ SquareInput(get_input_shape(m), 32)
  /\ \A i \in 0 .. 6 : Batch(get_output_shape(m, i), 3)
  /\ LET wide(i) == Dim(get_output_shape(m, i), 2)
         scores == {i \in 0 .. 6 : wide(i) = 1}   boxes == {i \in 0 .. 6 : wide(i) = 64}
         others == 0 .. 6 \ (scores \cup boxes)
     IN  /\ Cardinality(scores) = 3 /\ Cardinality(boxes) = 3
         /\ \A k \in 1 .. 3 : Served(m, scores, k) /\ Served(m, boxes, k)
         /\ \A i \in others :
              wide(i) % 3 = 0 /\ Dim(get_output_shape(m, i), 1) = AllAnchors(m.input)

YoloWorldValid(m) ==
  /\ SquareInput(get_input_shape(m), 32)
  /\ \A i \in 0 .. 5 : Batch(get_output_shape(m, i), 3)
  /\ LET boxes == {i \in 0 .. 5 : Dim(get_output_shape(m, i), 2) = 64}
     IN  /\ Cardinality(boxes) = 3
         /\ \A k \in 1 .. 3 : Served(m, boxes, k) /\ Served(m, 0 .. 5 \ boxes, k)

Valid(t, m) ==
  CASE t = "YOLO_POSE" -> YoloPoseValid(m)     [] t = "YOLO_WORLD" -> YoloWorldValid(m)
    [] t = "YOLO_V8" -> YoloV8Valid(m)         [] t = "NVIDIA_DET" -> NvidiaDetValid(m)
    [] t = "YOLO" -> YoloValid(m)              [] t = "FOMO" -> FomoValid(m)
    [] t = "IMCLS" -> ImclsValid(m)            [] t = "PFLD" -> PfldValid(m)

-----------------------------------------------------------------------------
(* The choice: the first that accepts the model, unless a type is given. *)

Order == <<"YOLO_POSE", "YOLO_WORLD", "YOLO_V8", "NVIDIA_DET", "YOLO", "FOMO", "IMCLS", "PFLD">>

el_algorithm_type_from_engine(m) ==
  LET accepting == {i \in 1 .. Len(Order) : Valid(Order[i], m)}
  IN  IF accepting = {} THEN Undefined ELSE Order[Min(accepting)]

(* An unregistered type gives an empty record. *)
get_algorithm_info(t) == IF t \in Types THEN t ELSE Undefined

(* prepare_algorithm_info, check_algorithm_info *)
Prepare ==
  /\ stage = "prepare"
  /\ type' = CASE wanted # Undefined -> get_algorithm_info(wanted)
               [] wanted = Undefined /\ header # Undefined -> get_algorithm_info(header)
               [] OTHER -> get_algorithm_info(el_algorithm_type_from_engine(model))
  /\ stage' = IF type' = Undefined THEN "refused" ELSE "construct"
  /\ UNCHANGED <<asserts, himax, model, header, wanted, frame, scale, strides, lastInput,
                 written, read, shown>>

(* event_loop: the types it has no case for. *)
NotSupported ==
  /\ stage = "construct" /\ type = "PFLD" /\ himax
  /\ stage' = "refused"
  /\ UNCHANGED <<asserts, himax, model, header, wanted, type, frame, scale, strides, lastInput,
                 written, read, shown>>

-----------------------------------------------------------------------------
(* init.  A failed assertion never returns; where assertions are compiled   *)
(* out, what an algorithm does with a model it does not fit is undefined.   *)

Construct(t, valid) ==
  /\ stage = "construct" /\ type = t
  /\ stage' = CASE valid -> "ready" [] ~valid /\ asserts -> "halted" [] OTHER -> "undefined"
  /\ UNCHANGED <<asserts, himax, model, header, wanted, type, frame, scale, lastInput, written,
                 read, shown>>

YoloInit      == Construct("YOLO", YoloValid(model)) /\ UNCHANGED strides
YoloV8Init    == Construct("YOLO_V8", YoloV8Valid(model)) /\ UNCHANGED strides
NvidiaDetInit == Construct("NVIDIA_DET", NvidiaDetValid(model)) /\ UNCHANGED strides
FomoInit      == Construct("FOMO", FomoValid(model)) /\ UNCHANGED strides
ImclsInit     == Construct("IMCLS", ImclsValid(model)) /\ UNCHANGED strides
PfldInit      == ~himax /\ Construct("PFLD", PfldValid(model)) /\ UNCHANGED strides

(* The strides are scaled by the scale of the constructor. *)
YoloPoseInit  == Construct("YOLO_POSE", YoloPoseValid(model)) /\ strides' = scale
YoloWorldInit == Construct("YOLO_WORLD", YoloWorldValid(model)) /\ strides' = scale

-----------------------------------------------------------------------------
(* run up to the engine: the scale, then preprocess, which converts the     *)
(* frame into the input tensor and shifts each byte written.                *)

InputBytes == Dim(model.input, 1) * Dim(model.input, 2) * Dim(model.input, 3)

Run(t, f) ==
  /\ stage = "ready" /\ type = t
  /\ frame' = f /\ written' = InputBytes /\ stage' = "run"
  /\ UNCHANGED <<asserts, himax, model, header, wanted, type, read, shown>>

YoloRun(f)      == Run("YOLO", f) /\ scale' = f /\ UNCHANGED <<strides, lastInput>>
YoloV8Run(f)    == Run("YOLO_V8", f) /\ scale' = f /\ UNCHANGED <<strides, lastInput>>
NvidiaDetRun(f) == Run("NVIDIA_DET", f) /\ scale' = f /\ UNCHANGED <<strides, lastInput>>
FomoRun(f)      == Run("FOMO", f) /\ scale' = f /\ UNCHANGED <<strides, lastInput>>
PfldRun(f)      == Run("PFLD", f) /\ scale' = f /\ UNCHANGED <<strides, lastInput>>
ImclsRun(f)     == Run("IMCLS", f) /\ UNCHANGED <<scale, strides, lastInput>>
YoloWorldRun(f) == Run("YOLO_WORLD", f) /\ scale' = f /\ UNCHANGED <<strides, lastInput>>

(* Mutant of YoloPoseRun: only the first frame sets the scales. *)
YoloPoseRunOnce(f) ==
  /\ Run("YOLO_POSE", f)
  /\ IF lastInput # "none" THEN UNCHANGED <<scale, strides, lastInput>>
                           ELSE scale' = f /\ strides' = f /\ lastInput' = f

(* Only a frame of another size changes the scales. *)
YoloPoseRun(f) ==
  /\ Run("YOLO_POSE", f)
  /\ IF lastInput = f THEN UNCHANGED <<scale, strides, lastInput>>
                      ELSE scale' = f /\ strides' = f /\ lastInput' = f

(* underlying_run: the engine may fail, and the loop of the command ends.   *)
Infer ==
  /\ stage = "run"
  /\ stage' \in {"postprocess", "failed"}
  /\ UNCHANGED <<asserts, himax, model, header, wanted, type, frame, scale, strides, lastInput,
                 written, read, shown>>

-----------------------------------------------------------------------------
(* postprocess.  highest gives the last element that may be read of each    *)
(* output (0, 1, ...); at is the scale of the coordinates.                  *)

Postprocess(t, highest, at) ==
  /\ stage = "postprocess" /\ type = t
  /\ read' = highest /\ shown' = [frame |-> frame, at |-> at]
  /\ stage' = "ready"
  /\ UNCHANGED <<asserts, himax, model, header, wanted, type, frame, scale, strides, lastInput,
                 written>>

Output(i) == get_output_shape(model, i)
Only(n) == <<n>>                \* of output 0

(* num_class is the number of elements without the box's five, in 8 bits. *)
YoloPostprocess ==
  LET records == Dim(Output(0), 1)   elements == Dim(Output(0), 2)
      classes == (elements - 5) % 256
  IN  Postprocess("YOLO", Only((records - 1) * elements + 5 + classes - 1), scale)

YoloV8Postprocess ==
  LET records == Dim(Output(0), 2)   elements == Dim(Output(0), 1)
      classes == (elements - 4) % 256
  IN  Postprocess("YOLO_V8", Only(records - 1 + (4 + classes - 1) * records), scale)

(* The output with more values per cell holds the boxes, the second if they *)
(* are alike; a cell has four values for each of the other's.               *)
NvidiaBoxes == IF Dim(Output(0), 3) > Dim(Output(1), 3) THEN 0 ELSE 1
NvidiaDetPostprocess ==
  LET conf == Output(1 - NvidiaBoxes)
      h == Dim(conf, 1)   w == Dim(conf, 2)   count == Dim(conf, 3)   c == count * 4
      confRead == (h - 1) * (w * count) + (w - 1) * count + count - 1
      boxRead == (h - 1) * (w * c) + (w - 1) * c + (count - 1) * 4 + 3
  IN  Postprocess("NVIDIA_DET", IF NvidiaBoxes = 0 THEN <<boxRead, confRead>>
                                                   ELSE <<confRead, boxRead>>, scale)

FomoPostprocess ==
  LET w == Dim(Output(0), 2)   h == Dim(Output(0), 1)   t == Dim(Output(0), 3)
  IN  Postprocess("FOMO", Only((h - 1) * w * t + (w - 1) * t + t - 1), scale)

(* A class has no coordinates. *)
ImclsPostprocess == Postprocess("IMCLS", Only(Dim(Output(0), 1) - 1), "none")

(* Two at a time. *)
PfldPostprocess ==
  LET values == Dim(Output(0), 1)
  IN  Postprocess("PFLD", Only(IF values = 0 THEN -1 ELSE ((values - 1) \div 2) * 2 + 1), scale)

(* init finds the outputs of stride k by their sizes: the last that fits. *)
ScoresId(k, n) == Max({i \in 0 .. n : Dim(Output(i), 1) = Anchors(model.input, k)
                                       /\ (n = 6 => Dim(Output(i), 2) = 1)
                                       /\ Dim(Output(i), 2) # 64})
BoxesId(k, n)  == Max({i \in 0 .. n : Dim(Output(i), 1) = Anchors(model.input, k)
                                       /\ Dim(Output(i), 2) = 64})
KeypointsId == Max({i \in 0 .. 6 : Dim(Output(i), 2) \notin {1, 64}
                                    /\ Dim(Output(i), 2) % 3 = 0})

(* Four distances of sixteen values each. *)
BoxRead(k, id) == (Anchors(model.input, k) - 1) * Dim(Output(id), 2) + 3 * 16 + 15

YoloPosePostprocess ==
  LET points == Dim(Output(KeypointsId), 2)
      highest(i) ==
        CASE i = KeypointsId ->
               (Start(model.input, 3) + Anchors(model.input, 3) - 1) * points + (points \div 3) * 3 - 1
          [] \E k \in 1 .. 3 : i = ScoresId(k, 6) ->
               Anchors(model.input, CHOOSE k \in 1 .. 3 : i = ScoresId(k, 6)) - 1
          [] OTHER -> LET k == CHOOSE k \in 1 .. 3 : i = BoxesId(k, 6) IN BoxRead(k, i)
  IN  Postprocess("YOLO_POSE", [i \in 1 .. 7 |-> highest(i - 1)], strides)

YoloWorldPostprocess ==
  LET highest(i) ==
        IF \E k \in 1 .. 3 : i = ScoresId(k, 5)
          THEN LET k == CHOOSE k \in 1 .. 3 : i = ScoresId(k, 5)
               IN  (Anchors(model.input, k) - 1) * Dim(Output(i), 2) + Dim(Output(i), 2) - 1
          ELSE LET k == CHOOSE k \in 1 .. 3 : i = BoxesId(k, 5) IN BoxRead(k, i)
  IN  Postprocess("YOLO_WORLD", [i \in 1 .. 6 |-> highest(i - 1)], strides)

-----------------------------------------------------------------------------
AlgorithmInit ==
  /\ asserts \in BOOLEAN /\ himax \in BOOLEAN /\ (~asserts => himax)
  /\ model \in Models /\ header \in {Undefined, "unknown", "YOLO", "IMCLS"}
  /\ wanted \in {Undefined} \cup Types
  /\ type = Undefined /\ stage = "prepare"
  /\ frame = "none" /\ scale = "one" /\ strides = "none" /\ lastInput = "none"
  /\ written = 0 /\ read = <<>> /\ shown = [frame |-> "none", at |-> "none"]

AlgorithmNext ==
  \/ Prepare \/ NotSupported \/ Infer
  \/ YoloInit \/ YoloV8Init \/ NvidiaDetInit \/ FomoInit \/ ImclsInit \/ PfldInit
  \/ YoloPoseInit \/ YoloWorldInit
  \/ \E f \in Frames :
       \/ YoloRun(f) \/ YoloV8Run(f) \/ NvidiaDetRun(f) \/ FomoRun(f) \/ ImclsRun(f)
       \/ PfldRun(f) \/ YoloPoseRun(f) \/ YoloWorldRun(f)
  \/ YoloPostprocess \/ YoloV8Postprocess \/ NvidiaDetPostprocess \/ FomoPostprocess
  \/ ImclsPostprocess \/ PfldPostprocess \/ YoloPosePostprocess \/ YoloWorldPostprocess

AlgorithmSpec == AlgorithmInit /\ [][AlgorithmNext]_algorithmVars

-----------------------------------------------------------------------------
(* Properties. *)

(* is_model_valid of NvidiaDet does not look at the values per cell. *)
Unchecked == type = "NVIDIA_DET"
               /\ Dim(Output(NvidiaBoxes), 3) < 4 * Dim(Output(1 - NvidiaBoxes), 3)

\* What is_model_valid checks is what init and postprocess need: an algorithm whose
\* constructor went on fills exactly the input tensor and reads every output inside its
\* bounds, whichever outputs come in whichever order (a model whose box and confidence
\* outputs do not belong together is left out, NvidiaDet takes it); and the coordinates it
\* shows are scaled to the frame they are of, also when frames change their size between
\* two runs (YOLO World is left out: its strides keep the scale of the constructor).
ResultsOfFrame ==
  /\ stage \in {"run", "postprocess"} => written = Elements(model.input)
  /\ read # <<>> /\ ~Unchecked =>
       \A i \in 1 .. Len(read) : read[i] < Elements(Output(i - 1))
  /\ shown.at \in Frames => shown.at = shown.frame
  /\ shown.at = "one" => type = "YOLO_WORLD"

=============================================================================
