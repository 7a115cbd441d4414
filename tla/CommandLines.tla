---------------------------- MODULE CommandLines ----------------------------
(***************************************************************************)
(* How the AT server reads a line (sscma/repl/server.hpp), whole as it     *)
(* comes from a transport (exec) or typed in LineEditor.  A character is a *)
(* symbol; a word that only names something, as AT+, is one symbol too.    *)
(* ServerLocks has the locks of exec and of the list of commands.          *)
(***************************************************************************)
EXTENDS Integers, Sequences, SequencesExt

CONSTANTS
  Argc,             \* the commands, sequences of symbols, with their numbers of arguments
  Requests,         \* what clients send: see Line
  Upper,            \* toupper, of the small letters
  Unprintable, Digits             \* sets of symbols

VARIABLES
  request,          \* the one executed last, or Nothing
  outcome           \* of m_exec_cmd

vars == <<request, outcome>>

Nothing == [header |-> "none"]
Answer(how, argv) == [how |-> how, argv |-> argv]
None == Answer("none", <<>>)

-----------------------------------------------------------------------------
(* m_exec_cmd: header, tag, name and arguments of a line.                  *)

ToUpper(s) == [i \in DOMAIN s |-> IF s[i] \in DOMAIN Upper THEN Upper[s[i]] ELSE s[i]]

(* cmd_name and cmd_args: up to the first =, and behind it. *)
Equals(cmd) == SelectInSeq(cmd \o <<"=">>, LAMBDA c : c = "=")
CmdName(cmd) == ToUpper(SubSeq(cmd, 1, Equals(cmd) - 1))
CmdArgs(cmd) == SubSeq(cmd, Equals(cmd) + 1, Len(cmd))

(* Behind the last @. *)
TargetCmd(name) ==
  SubSeq(name, SelectLastInSeq(name, LAMBDA c : c = "@") + 1, Len(name))

(* Mutant of Closes: a quote of either kind. *)
ClosesAny(c, quote) == c \in {"'", "\""}

(* The stack never holds more than the one quote that was opened. *)
Closes(c, quote) == c = quote

(* A string, from behind its quote: a backslash takes the next character as *)
(* it is, and the end of the line closes it too.                            *)
RECURSIVE Quoted(_, _, _)
Quoted(s, quote, arg) ==
  CASE s = <<>> -> [arg |-> arg, left |-> <<>>]
    [] s # <<>> /\ Closes(Head(s), quote) -> [arg |-> arg, left |-> Tail(s)]
    [] s # <<>> /\ ~Closes(Head(s), quote) /\ Head(s) # "\\" ->
         Quoted(Tail(s), quote, Append(arg, Head(s)))
    [] s # <<>> /\ ~Closes(Head(s), quote) /\ Head(s) = "\\" ->
         Quoted(SubSeq(s, 3, Len(s)), quote, arg \o SubSeq(s, 2, Min({2, Len(s)})))

NumberLength(s) ==
  SelectInSeq(Tail(s) \o <<"end">>, LAMBDA c : c \notin Digits)

(* The first n arguments: what is neither string nor number is passed over. *)
RECURSIVE Arguments(_, _)
Arguments(s, n) ==
  CASE s = <<>> \/ n = 0 -> <<>>
    [] s # <<>> /\ n > 0 /\ Head(s) \in {"'", "\""} ->
         LET string == Quoted(Tail(s), Head(s), <<>>)
         IN  <<string.arg>> \o Arguments(string.left, n - 1)
    [] s # <<>> /\ n > 0 /\ Head(s) \in Digits \cup {"-"} ->
         LET k == NumberLength(s)
         IN  <<SubSeq(s, 1, k)>> \o Arguments(SubSeq(s, k + 1, Len(s)), n - 1)
    [] OTHER -> Arguments(Tail(s), n)

m_exec_cmd(cmd) ==
  LET name == CmdName(cmd)
      body == Tail(name)
      argv == <<body>> \o Arguments(CmdArgs(cmd), Argc[TargetCmd(body)])
  IN  IF \/ name = <<>> \/ Head(name) # "AT+"
         \/ TargetCmd(body) \notin DOMAIN Argc
      THEN Answer("unknown", <<>>)
      ELSE IF Len(argv) # Argc[TargetCmd(body)] + 1
      THEN Answer("wrong", <<>>)
      ELSE Answer("called", argv)

-----------------------------------------------------------------------------
(* A request on its way.  The client writes numbers as they are and strings *)
(* between quotes, with a backslash before quotes and backslashes inside.   *)
Escaped(s, quote) ==
  FlattenSeq([i \in DOMAIN s |-> IF s[i] \in {quote, "\\"} THEN <<"\\", s[i]>> ELSE <<s[i]>>])
Written(value, quote) ==
  IF value.number THEN value.is ELSE <<quote>> \o Escaped(value.is, quote) \o <<quote>>
Line(r) ==
  <<r.header>> \o r.tag \o r.name \o (IF r.values = <<>> THEN <<>> ELSE <<"=">>)
  \o FlattenSeq([i \in DOMAIN r.values |-> Written(r.values[i], r.quote) \o r.separator])

Printable(s) == SelectSeq(s, LAMBDA c : c \notin Unprintable)

exec ==
  /\ request = Nothing
  /\ \E r \in Requests :
       /\ request' = r
       /\ outcome' = m_exec_cmd(Printable(Line(r)))

Init == request = Nothing /\ outcome = None

Spec == Init /\ [][exec]_vars

-----------------------------------------------------------------------------
(* Properties. *)

\* What a callback gets is what the client sent: the name with its tag, in
\* capitals, and the arguments in order, numbers and strings of any printable
\* characters; it is called exactly if the command exists and is given at least
\* as many arguments as it has (more are ignored).
AsSent ==
  request # Nothing =>
    LET name == ToUpper(request.name)
        values == [i \in DOMAIN request.values |-> Printable(request.values[i].is)]
    IN  outcome =
          IF ToUpper(<<request.header>>) # <<"AT+">> \/ name \notin DOMAIN Argc
          THEN Answer("unknown", <<>>)
          ELSE IF Len(values) < Argc[name]
          THEN Answer("wrong", <<>>)
          ELSE Answer("called", <<ToUpper(request.tag) \o name>> \o SubSeq(values, 1, Argc[name]))

=============================================================================
