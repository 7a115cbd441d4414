----------------------------- MODULE ModelScan -----------------------------
(***************************************************************************)
(* The scan of the model partition at start-up (core/data/                 *)
(* el_data_models.cpp): first the packed models, a header and the model    *)
(* behind it, then the plain ones, known by their magic only.  Addresses   *)
(* count units of one header (8 bytes); sizes are in units too.            *)
(***************************************************************************)
EXTENDS Integers, FiniteSets

CONSTANTS
  Size,             \* of the partition
  Steps,            \* CONFIG_EL_MODEL_SEEK_STEP_BYTES: the default is 1 unit
  Partitions,       \* contents: from addresses to what begins there
  LastId            \* highest id a mask has room for: 15

(* What may begin at an address: a header, a flatbuffer, anything else. *)
Blank == [kind |-> "blank", id |-> 0, type |-> 0, size |-> 0]
Plain == [kind |-> "plain", id |-> 0, type |-> 0, size |-> 0]
Header(id, type, size) == [kind |-> "header", id |-> id, type |-> type, size |-> size]

Contents == [kind : {"blank", "plain", "header"}, id : Nat, type : Nat, size : Nat]

ASSUME ScanAssumption ==
  /\ Size \in Nat /\ LastId \in Nat /\ Steps \subseteq Nat \ {0}
  /\ Partitions \subseteq [0 .. Size - 1 -> Contents]

VARIABLES
  flash, seekStep, format,  \* the partition, the port's step, the format asked for
  phase, it,                \* which scan is under way, and where it is
  model_id_mask, model_info, \* as the class keeps them; the mask as a set
  model_id                  \* of m_seek_plain_models_from_flash

scanVars == <<flash, seekStep, format, phase, it, model_id_mask, model_info, model_id>>

UndefinedType == 0      \* EL_ALGO_TYPE_UNDEFINED

-----------------------------------------------------------------------------
Scanning(phases) == phase \in phases /\ it < Size

(* init: a partition that cannot be mapped leaves no model. *)
MmapFails ==
  /\ phase = "init"
  /\ phase' = "failed"
  /\ UNCHANGED <<flash, seekStep, format, it, model_id_mask, model_info, model_id>>

(* seek_models_from_flash *)
Seek ==
  /\ phase = "init"
  /\ model_id_mask' = {} /\ model_info' = {}
  /\ phase' = CASE format \in {"packed", "both"} -> "packed"
                [] format = "plain" -> "plain"
                [] OTHER -> "done"
  /\ UNCHANGED <<flash, seekStep, format, it, model_id>>

(* m_seek_packed_models_from_flash.  What is no header, or not a usable one, *)
(* is passed over.                                                          *)
Usable(h, at) ==
  h.kind = "header" /\ h.id # 0 /\ h.type # 0 /\ h.size # 0 /\ h.size <= Size - at

PackedPassed ==
  /\ Scanning({"packed"})
  /\ ~Usable(flash[it], it)
  /\ it' = it + seekStep
  /\ UNCHANGED <<flash, seekStep, format, phase, model_id_mask, model_info, model_id>>

PackedModel(h, at) == [id |-> h.id, type |-> h.type, flash |-> at, size |-> h.size,
                       memory |-> at + 1]

(* Mutant of PackedFound: a second model of an id is listed too. *)
PackedFoundAgain ==
  /\ Scanning({"packed"})
  /\ Usable(flash[it], it)
  /\ model_info' = model_info \cup {PackedModel(flash[it], it)}
  /\ model_id_mask' = model_id_mask \cup {flash[it].id}
  /\ it' = it + flash[it].size + seekStep
  /\ UNCHANGED <<flash, seekStep, format, phase, model_id>>

(* The size is added, and then the loop adds its step. *)
PackedFound ==
  /\ Scanning({"packed"})
  /\ Usable(flash[it], it)
  /\ IF flash[it].id \in model_id_mask THEN UNCHANGED <<model_id_mask, model_info>>
     ELSE /\ model_info' = model_info \cup {PackedModel(flash[it], it)}
          /\ model_id_mask' = model_id_mask \cup {flash[it].id}
  /\ it' = it + flash[it].size + seekStep
  /\ UNCHANGED <<flash, seekStep, format, phase, model_id>>

PackedEnd ==
  /\ phase = "packed" /\ it >= Size
  /\ it' = 0
  /\ phase' = IF format = "both" THEN "plain" ELSE "done"
  /\ UNCHANGED <<flash, seekStep, format, model_id_mask, model_info, model_id>>

(* m_seek_plain_models_from_flash.  A packed model has the magic as well,    *)
(* one unit behind its header.                                              *)
HasMagic(at) ==
  \/ flash[at].kind = "plain"
  \/ at > 0 /\ flash[at - 1].kind = "header" /\ flash[at].kind = "blank"

PlainPassed ==
  /\ Scanning({"plain"})
  /\ ~HasMagic(it)
  /\ it' = it + seekStep
  /\ UNCHANGED <<flash, seekStep, format, phase, model_id_mask, model_info, model_id>>

Listed(at) == \E m \in model_info : m.memory = at
Free == {i \in model_id .. LastId : i \notin model_id_mask}

(* The scan breaks off at a model already listed, and when ids run out. *)
PlainBreak ==
  /\ Scanning({"plain"})
  /\ HasMagic(it) /\ (Listed(it) \/ Free = {})
  /\ phase' = "done"
  /\ UNCHANGED <<flash, seekStep, format, it, model_id_mask, model_info, model_id>>

PlainFound ==
  /\ Scanning({"plain"})
  /\ HasMagic(it) /\ ~Listed(it)
  /\ \E i \in Free :
       /\ \A j \in Free : i <= j
       /\ model_id' = i
       /\ model_id_mask' = model_id_mask \cup {i}
       /\ model_info' = model_info \cup
            {[id |-> i, type |-> UndefinedType, flash |-> it, size |-> 0, memory |-> it]}
  /\ it' = it + seekStep
  /\ UNCHANGED <<flash, seekStep, format, phase>>

PlainEnd ==
  /\ phase = "plain" /\ it >= Size
  /\ phase' = "done"
  /\ UNCHANGED <<flash, seekStep, format, it, model_id_mask, model_info, model_id>>

(* has_model; get and get_model_info: the record of an id, or none. *)
has_model(id) == id \in model_id_mask
get_model_info(id) == {m \in model_info : m.id = id}

ScanInit ==
  /\ flash \in Partitions /\ seekStep \in Steps
  /\ format \in {"packed", "plain", "both", "undefined"}
  /\ phase = "init" /\ it = 0
  /\ model_id_mask = {} /\ model_info = {} /\ model_id = 1

ScanNext ==
  \/ MmapFails \/ Seek
  \/ PackedPassed \/ PackedFound \/ PackedEnd
  \/ PlainPassed \/ PlainBreak \/ PlainFound \/ PlainEnd

ScanSpec == ScanInit /\ [][ScanNext]_scanVars

-----------------------------------------------------------------------------
(* Properties. *)

(* The addresses the port's image tool writes models to. *)
Aligned(at) == at % seekStep = 0
Packed == {a \in 0 .. Size - 1 : Aligned(a) /\ Usable(flash[a], a)}

\* Whatever is in the partition, an id the mask has is that of one record and the other
\* way round.  A plain record's model begins inside the partition.  A packed record agrees
\* with a header inside it; its model begins behind that header and ends inside, or one
\* header behind the end, as the scan compares the model's size with what is left from
\* the header on.  When both formats were asked for and the partition is laid out as the
\* scan wants it (the size of every packed model is a multiple of the step, and no packed
\* model begins inside another) each packed model is listed or an earlier one has its id,
\* and with a step greater than a header every plain model is listed too, as long as
\* there are ids.
ModelsListed ==
  /\ \A id \in 0 .. LastId : has_model(id) <=> Cardinality(get_model_info(id)) = 1
  /\ \A m \in model_info :
       /\ m.flash \in 0 .. Size - 1
       /\ m.size = 0 => m.memory = m.flash
       /\ m.size > 0 => /\ flash[m.flash] = Header(m.id, m.type, m.size)
                        /\ m.memory = m.flash + 1 /\ m.memory + m.size <= Size + 1
  /\ phase = "done" /\ format = "both" =>
       LET fits == \A a \in Packed :
                     /\ flash[a].size % seekStep = 0
                     /\ \A b \in Packed : b > a => b > a + flash[a].size
       IN  fits =>
             /\ \A a \in Packed :
                  \E m \in model_info : m.id = flash[a].id /\ m.flash <= a /\ m.size > 0
             /\ seekStep > 1 /\ Cardinality(model_info) < LastId =>
                  \A a \in 0 .. Size - 1 :
                    Aligned(a) /\ flash[a] = Plain => \E m \in model_info : m.flash = a

=============================================================================
