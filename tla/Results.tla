------------------------------ MODULE Results ------------------------------
(***************************************************************************)
(* The boxes of AT+INVOKE behind the model: non-maximum suppression        *)
(* (core/utils/el_nms.cpp) and the filter that keeps a reply back while    *)
(* the results do not change (sscma/callback/extension/                    *)
(* results_filter.hpp).  Boxes differ in one direction here: y and h are   *)
(* alike and h is 1.                                                       *)
(***************************************************************************)
EXTENDS Integers, FiniteSets, SequencesExt

CONSTANTS
  Detections,       \* what a postprocess finds: sequences of boxes
  Threshold         \* _iou_threshold, in percent

(* A score may be 0: the score threshold may be, and a fraction above it is cut. *)
Detected == [x : Int, w : Nat, score : Nat, target : Int]

ASSUME ResultAssumption == Detections \subseteq Seq(Detected)

VARIABLES
  undefinedIoU,     \* what 0/0 becomes as an integer
  intact,           \* whether freed objects keep their contents
  resultStep,       \* run, compare, reply
  found,            \* by the postprocess under way
  results,          \* get_results
  last,             \* what _last was made of
  stale,            \* _last_cls_view points to objects that are freed
  before, reply     \* the comparison of this run: with what, and its answer

resultVars == <<undefinedIoU, intact, resultStep, found, results, last, stale, before, reply>>

Larger(a, b)  == IF a > b THEN a ELSE b
Smaller(a, b) == IF a < b THEN a ELSE b
Distance(a, b) == Larger(a, b) - Smaller(a, b)

-----------------------------------------------------------------------------
(* el_nms, with multi_target and without soft_nms as every caller has it. *)

compute_iou(a, b) ==
  LET inter == Larger(0, Smaller(a.x + a.w, b.x + b.w) - Larger(a.x, b.x))
      union == a.w + b.w - inter
  IN  IF union = 0 THEN undefinedIoU ELSE (200 * inter + union) \div (2 * union)

Overlap(a, b) == a.target = b.target /\ compute_iou(a, b) > Threshold

(* Mutant of Suppressed: a box already removed removes others. *)
SuppressedByAny(s, left, i) == {j \in left : j > i => ~Overlap(s[i], s[j])}

(* The loop over it2 for one it: the places left, those of a score not 0. *)
Suppressed(s, left, i) ==
  IF i \in left THEN {j \in left : j > i => ~Overlap(s[i], s[j])} ELSE left

Unsuppressed(s) ==
  LET f[i \in 0 .. Len(s)] == IF i = 0 THEN {j \in DOMAIN s : s[j].score # 0}
                                       ELSE Suppressed(s, f[i - 1], i)
  IN  f[Len(s)]

(* What is at some places of a list, in the order of a key: sort is stable, *)
(* and remove_if keeps the order.                                           *)
Precedes(key, i, j) == key[i] < key[j] \/ (key[i] = key[j] /\ i < j)
Rank(key, places, i) == Cardinality({j \in places : Precedes(key, j, i)}) + 1
Arranged(s, places, key) ==
  [k \in 1 .. Cardinality(places) |-> s[CHOOSE i \in places : Rank(key, places, i) = k]]

el_nms(boxes) ==
  LET s == Arranged(boxes, DOMAIN boxes, [i \in DOMAIN boxes |-> -boxes[i].score])
  IN  Arranged(s, Unsuppressed(s), [i \in DOMAIN s |-> 0])

(* The end of a postprocess: the boxes above the score threshold, then nms,  *)
(* then by x.                                                               *)
Postprocessed ==
  /\ resultStep = "run"
  /\ found' \in Detections
  /\ LET left == el_nms(found')
     IN  results' = Arranged(left, DOMAIN left, [i \in DOMAIN left |-> left[i].x])
  /\ resultStep' = "compare"
  /\ UNCHANGED <<undefinedIoU, intact, last, stale, before, reply>>

-----------------------------------------------------------------------------
(* ResultsFilter. *)

(* get_cls_view_from_results: the boxes of one target, the last one first. *)
Targets(s) == {s[i].target : i \in DOMAIN s}
View(s, t) == Reverse(SelectSeq(s, LAMBDA b : b.target = t))

(* True of boxes that are far from one another. *)
compare_result_pair(l, r) ==
  Distance(l.x, r.x) + Distance(l.w, r.w) + Distance(l.score, r.score) \div 4 > 5

(* Each box takes the first one left that the comparison is true of: f[k] is *)
(* what the first k boxes leave, and nothing if one of them finds none.      *)
First(left, obj) ==
  {j \in DOMAIN left : /\ compare_result_pair(left[j], obj)
                       /\ \A i \in 1 .. j - 1 : ~compare_result_pair(left[i], obj)}
Paired(objs, left) ==
  LET f[k \in 0 .. Len(objs)] ==
        IF k = 0 THEN {left}
        ELSE UNION {{RemoveAt(l, j) : j \in First(l, objs[k])} : l \in f[k - 1]}
  IN  f[Len(objs)] # {}

SameCounts(old, new) ==
  /\ Len(old) = Len(new)
  /\ Cardinality(Targets(old)) = Cardinality(Targets(new))
  /\ \A t \in Targets(old) : t \in Targets(new) /\ Len(View(old, t)) = Len(View(new, t))

(* compare_and_update.  The view it compares with may point to freed objects. *)
CompareAndUpdate ==
  /\ resultStep = "compare"
  /\ \E paired \in BOOLEAN :
       /\ ~stale \/ intact => paired = \A t \in Targets(last) : Paired(View(last, t), View(results, t))
       /\ reply' = ~(SameCounts(last, results) /\ paired)
  /\ before' = last /\ last' = results /\ stale' = FALSE
  /\ found' = <<>> /\ resultStep' = "reply"
  /\ UNCHANGED <<undefinedIoU, intact, results>>

(* The rest of event_loop_cam: the reply is sent or not (DIFFERED), and the  *)
(* filter handed to the next iteration.  The class has no move constructor:  *)
(* that copies it, and the copy's view points into the original, which is    *)
(* freed when event_loop_cam returns.                                        *)
HandOver ==
  /\ resultStep = "reply"
  /\ stale' = (results # <<>>)
  /\ before' = <<>> /\ reply' = FALSE
  /\ resultStep' = "run"
  /\ UNCHANGED <<undefinedIoU, intact, found, results, last>>

(* The filter is constructed before the first run and handed over once      *)
(* while what it was copied from still lives.                               *)
ResultInit ==
  /\ undefinedIoU \in {0, 100} /\ intact \in BOOLEAN
  /\ resultStep = "run"
  /\ found = <<>> /\ results = <<>> /\ last = <<>> /\ stale = FALSE
  /\ before = <<>> /\ reply = FALSE

ResultNext == Postprocessed \/ CompareAndUpdate \/ HandOver

ResultSpec == ResultInit /\ [][ResultNext]_resultVars

-----------------------------------------------------------------------------
(* Properties. *)

Boxes(s) == {s[i] : i \in DOMAIN s}

\* What nms leaves does not overlap within a target, and what it takes away has a score
\* of 0 or overlaps with a box it leaves whose score is not lower: never only with one that
\* was itself taken away. And the filter, whatever freed memory holds, reports every change of the number
\* of results or of the results of one target.
ResultsReported ==
  /\ \A i, j \in DOMAIN results : i # j => ~Overlap(results[i], results[j])
  /\ \A b \in Boxes(found) \ Boxes(results) :
       b.score # 0 => \E k \in Boxes(results) : Overlap(k, b) /\ k.score >= b.score
  /\ resultStep = "reply" =>
       \A t \in Targets(before) \cup Targets(last) :
         Len(View(before, t)) # Len(View(last, t)) => reply

\* What the protocol says of DIFFERED: the reply is sent only if the results differ from
\* the previous ones. Memory that was freed is taken to keep its contents.
DifferedOnly == intact /\ resultStep = "reply" /\ reply => before # last

=============================================================================
