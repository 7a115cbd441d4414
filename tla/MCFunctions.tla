---------------------------- MODULE MCFunctions ----------------------------
(***************************************************************************)
(* Eight components that share no state: a behaviour is one of one of them *)
(* (part says of which) and the others stay as they were at first.  Six    *)
(* compute a result from what they are given; LineEditor takes keys, and   *)
(* SyncObject has two threads.                                             *)
(***************************************************************************)
EXTENDS SyncObject, Images, ModelScan, Algorithms, Results, LineEditor, TLC

CONSTANT Unbound

VARIABLES
  part,
  text, tree, actionStep, node, mutables, bound, outcome,
  request, lineOutcome

actionState == <<text, tree, actionStep, node, mutables, bound, outcome>>
commandState == <<request, lineOutcome>>

-----------------------------------------------------------------------------
(* Pictures: equal sides, sides that divide one another and sides that do not, *)
(* up and down; drawing that begins before, in and behind the picture.         *)
MCSides == {2, 3, 4}
MCOffsets == {-1, 1, 5}

(* Models: for each algorithm one that it accepts, and near misses; outputs in *)
(* more than one order; grey and RGB; high and wide.                           *)
Colour == <<1, 32, 32, 3>>
Grey   == <<1, 32, 32, 1>>
PoseOutputs == <<<<1, 16, 1>>, <<1, 4, 64>>, <<1, 1, 1>>, <<1, 21, 6>>, <<1, 1, 64>>,
                 <<1, 4, 1>>, <<1, 16, 64>>>>
WorldOutputs == <<<<1, 4, 64>>, <<1, 4, 2>>, <<1, 16, 64>>, <<1, 1, 2>>, <<1, 1, 64>>,
                  <<1, 16, 2>>>>
Given(input, outputs) == [input |-> input, outputs |-> outputs]
MCModels ==
  {Given(Colour, outputs) : outputs \in {
     <<>>, PoseOutputs, WorldOutputs, [WorldOutputs EXCEPT ![3] = <<1, 16, 2>>],
     <<<<1, 63, 6>>>>, <<<<1, 6, 21>>>>, <<<<1, 0>>>>, <<<<1, 4>>>>,
     <<<<1, 2, 2, 1>>, <<1, 2, 2, 4>>>>, <<<<1, 2, 2, 8>>, <<1, 2, 2, 2>>>>,
     <<<<1, 2, 2, 2>>, <<1, 2, 2, 2>>>>}} \cup
  {Given(Grey, outputs) : outputs \in {<<<<1, 21, 7>>>>, <<<<1, 6, 21>>>>}} \cup
  {Given(<<1, 16, 24, 1>>, outputs) : outputs \in {<<<<1, 2, 3, 2>>>>, <<<<1, 17, 3, 2>>>>}} \cup
  {Given(<<1, 16, 24, 3>>, <<<<1, 2>>>>), Given(<<1, 32, 32, 2>>, <<<<1, 4>>>>),
   Given(<<1, 40>>, <<<<1, 4>>>>)}
MCFrames == {"small", "large"}

(* Texts: what up to four operands give with and without brackets, and the     *)
(* actions of the documentation; Garbage: all short sequences of tokens.       *)
Token(t, value) == [type |-> t, value |-> value]
Names == {Token("IDENTIFIER", "x"), Token("FUNCTION", "f")}
Op(o) == Token("OPERATOR", o)
Open  == Token("LPARN", "(")
Close == Token("RPARN", ")")
One(token) == [tokens |-> <<token>>, tree |-> [leaf |-> token.type, value |-> token.value]]
Joined(ls, ops, rs) ==
  {[tokens |-> p[1].tokens \o <<Op(p[2])>> \o p[3].tokens,
    tree |-> [op |-> p[2], left |-> p[1].tree, right |-> p[3].tree]] : p \in ls \X ops \X rs}
Bracketed(ts) == {[t EXCEPT !.tokens = <<Open>> \o @ \o <<Close>>] : t \in ts}

Some   == {"&&", "||", "-"}
Single == {One(t) : t \in Names \cup {Token("CONSTANT", "2")}}
Double == Joined(Single, Some, Single)
Operand == Single \cup Bracketed(Single \cup Double)
Condition == Joined({One(Token("IDENTIFIER", "x")), One(Token("CONSTANT", "0"))},
                    {">=", "/", "-", "||"},
                    {One(Token("IDENTIFIER", "y")), One(Token("CONSTANT", "1"))})
Action == Joined(Bracketed(Joined(Bracketed(Condition), {"&&"}, {One(Token("FUNCTION", "f"))})),
                 {"||"}, {One(Token("FUNCTION", "g"))})

Expression == INSTANCE Expressions WITH
  Texts <- Operand \cup Joined(Operand \cup Double, Some, Operand) \cup Action,
  Garbage <- UNION {[1 .. n -> Names \cup {Op("&&"), Open, Close, Token("LONE", "&")}] :
                      n \in 1 .. 4},
  Values <- {0, 1}, step <- actionStep

(* Partitions of three steps (or six), with up to three things in them from    *)
(* the first or the second unit on.                                            *)
Vacant == [kind |-> "blank", id |-> 0, type |-> 0, size |-> 0]
Held == {[Vacant EXCEPT !.kind = "plain"]} \cup
        {[kind |-> "header", id |-> h[1], type |-> h[2], size |-> h[3]] :
           h \in {<<1, 1, 2>>, <<1, 2, 1>>, <<2, 1, 3>>, <<2, 0, 2>>, <<3, 1, 5>>}}
Layouts == UNION {{[a \in 0 .. 5 |-> IF a \in s THEN h[a] ELSE Vacant] : h \in [s -> Held]} :
                  s \in {t \in SUBSET (0 .. 5) : Cardinality(t) <= 3}}
MCPartitions == {p \in Layouts : \E a \in 0 .. 1 : p[a] # Vacant}
MCSteps == {1, 2}

(* Up to three boxes of one target, two of two; empty ones, a score of 0, which *)
(* come alone, behind another box or with each other.                          *)
Box(x, w, score, target) == [x |-> x, w |-> w, score |-> score, target |-> target]
Plenty == {Box(x, 6, s, 0) : x \in {0, 2, 4}, s \in {60, 90}}
Few == Plenty \cup {Box(0, 6, 60, 1), Box(0, 0, 60, 0), Box(0, 0, 90, 0), Box(2, 6, 0, 0)}
MCDetections ==
  {<<>>} \cup {<<b>> : b \in Few} \cup (Plenty \X Few) \cup
  ((Few \ Plenty) \X (Few \ Plenty)) \cup
  {s \in Plenty \X Plenty \X Plenty : Cardinality({s[i].x : i \in 1 .. 3}) = 3}

(* Lines: strings with quotes, backslashes, commas and digits inside, in either *)
(* quotes; too few and too many arguments, text between them; tags, small       *)
(* letters and names that do not exist.                                         *)
Strings(n, symbols) ==
  {[number |-> FALSE, is |-> s] : s \in UNION {[1 .. k -> symbols] : k \in 0 .. n}}
Numbers == {[number |-> TRUE, is |-> s] : s \in {<<"5">>, <<"-", "5", "5">>}}
Short == {[number |-> FALSE, is |-> <<"x">>], [number |-> TRUE, is |-> <<"5">>]}
Quotes == {"'", "\""}
Request(h, tag, name, values, quote, separator) ==
  [header |-> h, tag |-> tag, name |-> name, values |-> values, quote |-> quote,
   separator |-> separator]
Sent ==
  {Request("AT+", <<>>, <<"INFO">>, <<s>>, q, <<>>) :
     s \in Strings(3, Quotes \cup {"x", "\\", "5", ",", "BEL"}), q \in Quotes} \cup
  {Request("AT+", <<>>, <<"WIFI">>, <<s, n, u>>, q, <<",">>) :
     s \in Strings(2, Quotes \cup {"\\"}), n \in Numbers, u \in Strings(2, Quotes \cup {"\\"}),
     q \in Quotes} \cup
  {Request(h, tag, name, values, "'", separator) :
     h \in {"AT+", "at+", "AT"}, tag \in {<<>>, <<"tag", "@">>, <<"5", "@", "x", "@">>},
     name \in {<<"wifi">>, <<"ID?">>, <<"INFO">>, <<"OTHER">>},
     values \in UNION {[1 .. k -> Short] : k \in 0 .. 4}, separator \in {<<",">>, <<" ", "x">>}}

Commands == INSTANCE CommandLines WITH
  Argc <- <<"WIFI">> :> 3 @@ <<"INFO">> :> 1 @@
          <<"ID?">> :> 0 @@ <<"RST">> :> 0 @@ <<"STAT?">> :> 0,
  Requests <- Sent, Unprintable <- {"BEL"}, Digits <- {"5"},
  Upper <- "at+" :> "AT+" @@ "wifi" :> "WIFI" @@ "tag" :> "TAG" @@ "x" :> "X",
  outcome <- lineOutcome

(* Keys: lines of up to three symbols, of which three are commands, and two     *)
(* places in the history.                                                       *)
MCTyped == {"AT+", "ID?", "RST", "STAT?"}
MCCalled(s) == Commands!m_exec_cmd(s).how = "called"

-----------------------------------------------------------------------------
Parts == {"sync", "image", "algorithm", "action", "scan", "result", "command", "editor"}

PartsInit ==
  /\ part \in Parts
  /\ Init
  /\ IF part = "image" THEN ImageInit
     ELSE /\ call = "none" /\ src = None /\ dst = None /\ box = NoBox
          /\ code = "none" /\ pixels = {}
  /\ IF part = "algorithm" THEN AlgorithmInit
     ELSE /\ asserts = FALSE /\ himax = TRUE /\ model = Given(<<>>, <<>>) /\ stage = "off"
          /\ header = "none" /\ wanted = "none" /\ type = "none" /\ frame = "none"
          /\ scale = "none" /\ strides = "none" /\ lastInput = "none"
          /\ written = 0 /\ read = <<>> /\ shown = [frame |-> "none", at |-> "none"]
  /\ IF part = "action" THEN Expression!Init
     ELSE /\ text = <<>> /\ tree = Expression!Hole /\ node = Expression!Hole
          /\ actionStep = "done" /\ mutables = {} /\ bound = <<>>
          /\ outcome = Expression!Result(0, "none", <<>>)
  /\ IF part = "scan" THEN ScanInit
     ELSE /\ flash = <<>> /\ seekStep = 1 /\ format = "undefined" /\ phase = "off"
          /\ it = 0 /\ model_id_mask = {} /\ model_info = {} /\ model_id = 1
  /\ IF part = "result" THEN ResultInit
     ELSE /\ undefinedIoU = 0 /\ intact = FALSE /\ resultStep = "off" /\ stale = FALSE
          /\ reply = FALSE
          /\ found = <<>> /\ results = <<>> /\ last = <<>> /\ before = <<>>
  /\ IF part = "command" THEN Commands!Init
     ELSE request = Commands!Nothing /\ lineOutcome = Commands!None
  /\ IF part = "editor" THEN EditorInit
     ELSE /\ line = <<>> /\ lineIndex = -1 /\ history = <<>> /\ historyIndex = -1
          /\ thrown = FALSE /\ astray = FALSE /\ typed = [left |-> <<>>, right |-> <<>>]

PartsNext ==
  \/ /\ part = "sync" /\ Next
     /\ UNCHANGED <<part, imageVars, algorithmVars, actionState, scanVars, resultVars, commandState, editor>>
  \/ /\ part = "image" /\ ImageNext
     /\ UNCHANGED <<part, vars, algorithmVars, actionState, scanVars, resultVars, commandState, editor>>
  \/ /\ part = "algorithm" /\ AlgorithmNext
     /\ UNCHANGED <<part, vars, imageVars, actionState, scanVars, resultVars, commandState, editor>>
  \/ /\ part = "action" /\ Expression!Next
     /\ UNCHANGED <<part, vars, imageVars, algorithmVars, scanVars, resultVars, commandState, editor>>
  \/ /\ part = "scan" /\ ScanNext
     /\ UNCHANGED <<part, vars, imageVars, algorithmVars, actionState, resultVars, commandState, editor>>
  \/ /\ part = "result" /\ ResultNext
     /\ UNCHANGED <<part, vars, imageVars, algorithmVars, actionState, scanVars, commandState, editor>>
  \/ /\ part = "command" /\ Commands!exec
     /\ UNCHANGED <<part, vars, imageVars, algorithmVars, actionState, scanVars, resultVars, editor>>
  \/ /\ part = "editor" /\ loop
     /\ UNCHANGED <<part, vars, imageVars, algorithmVars, actionState, scanVars, resultVars, commandState>>

allVars == <<part, vars, imageVars, algorithmVars, actionState, scanVars, resultVars, commandState,
             editor>>

\* The fairness of SyncObject, of the behaviours that are its own.
PartsSpec ==
  /\ PartsInit /\ [][PartsNext]_allVars
  /\ WF_vars(part = "sync" /\ Poll) /\ SF_vars(part = "sync" /\ PollSynchorize)

-----------------------------------------------------------------------------
\* Expressions: an action is parsed, its names bound and its functions called as written.
ParsedAsWritten == Expression!ParsedAsWritten

\* CommandLines and LineEditor: a command is executed as it was sent or typed.
ExecutedAsWritten == Commands!AsSent /\ AsTyped
=============================================================================
