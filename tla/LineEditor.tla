----------------------------- MODULE LineEditor -----------------------------
(***************************************************************************)
(* Server::loop (sscma/repl/server.hpp) edits a line, key by key, until    *)
(* Enter executes it; History (sscma/repl/history.hpp) recalls lines that  *)
(* were executed.  A character is a symbol, or the word that only names    *)
(* something, as AT+, and a control sequence is one key.                   *)
(***************************************************************************)
EXTENDS Integers, SequencesExt

CONSTANTS
  Called(_),        \* m_exec_cmd finds a command in a line and calls it
  Typed,            \* the symbols typed
  MaxLine,          \* bound: of a line typed
  MaxSize           \* SSCMA_REPL_HISTORY_MAX

ASSUME EditorAssumption == MaxSize \in Nat \ {0}

VARIABLES
  line, lineIndex, history, historyIndex,
  thrown,           \* insert was called with a place behind the line
  typed,            \* history: the line of an editor that does as its keys say
  astray            \* history: Home or Delete was used since

editor == <<line, lineIndex, history, historyIndex, thrown, typed, astray>>

-----------------------------------------------------------------------------
(* History: what is recalled, and what add leaves. *)

Added(s) ==
  LET others == RemoveFirst(history, s)
      kept == IF Len(others) < MaxSize THEN others
              ELSE SubSeq(others, Len(others) - MaxSize + 2, Len(others))
  IN  IF history # <<>> /\ Last(history) = s THEN history ELSE Append(kept, s)

Tip == Len(history) - 1

(* prev returns a line and moves on from it: the first Up after reset gives *)
(* the last line, and index -1 is behind the oldest.                        *)
Prev ==
  IF history # <<>> /\ historyIndex >= 0
  THEN line' = history[historyIndex + 1] /\ historyIndex' = historyIndex - 1
  ELSE UNCHANGED <<line, historyIndex>>

HistoryNext ==
  IF history # <<>>
  THEN /\ historyIndex' = CASE historyIndex < 0             -> Tip
                            [] historyIndex \in 0 .. Tip - 1 -> historyIndex + 1
                            [] OTHER                         -> historyIndex
       /\ line' = history[historyIndex' + 1]
  ELSE UNCHANGED <<line, historyIndex>>

-----------------------------------------------------------------------------
(* loop, key by key.  lineIndex is the place of the character before the    *)
(* cursor, -1 at the start of the line.                                     *)

(* What insert throws, nothing catches. *)
Editing == ~thrown
AtEnd == lineIndex >= Len(line) - 1

Typing(left, right) == typed' = IF astray THEN typed ELSE [left |-> left, right |-> right]

Insert ==
  /\ Editing /\ Len(line) < MaxLine
  /\ \E c \in Typed :
       /\ thrown' = (lineIndex + 1 > Len(line))
       /\ line' = IF thrown' THEN line ELSE InsertAt(line, lineIndex + 2, c)
       /\ lineIndex' = lineIndex + 1
       /\ Typing(Append(typed.left, c), typed.right)
  /\ UNCHANGED <<history, historyIndex, astray>>

Backspace ==
  /\ Editing
  /\ IF line # <<>> /\ lineIndex >= 0
     THEN /\ line' = RemoveAt(line, lineIndex + 1)
          /\ lineIndex' = lineIndex - 1
          /\ Typing(Front(typed.left), typed.right)
     ELSE UNCHANGED <<line, lineIndex, typed>>
  /\ UNCHANGED <<history, historyIndex, thrown, astray>>

Recalled ==
  /\ lineIndex' = Len(line') - 1
  /\ typed' = [left |-> line', right |-> <<>>] /\ astray' = FALSE
  /\ UNCHANGED <<history, thrown>>
Up   == Editing /\ Prev /\ Recalled
Down == Editing /\ HistoryNext /\ Recalled

Right ==
  /\ Editing /\ ~AtEnd
  /\ lineIndex' = lineIndex + 1
  /\ Typing(Append(typed.left, Head(typed.right)), Tail(typed.right))
  /\ UNCHANGED <<line, history, historyIndex, thrown, astray>>

Left ==
  /\ Editing /\ lineIndex >= 0
  /\ lineIndex' = lineIndex - 1
  /\ Typing(Front(typed.left), <<Last(typed.left)>> \o typed.right)
  /\ UNCHANGED <<line, history, historyIndex, thrown, astray>>

End ==
  /\ Editing
  /\ lineIndex' = Len(line) - 1
  /\ Typing(typed.left \o typed.right, <<>>)
  /\ UNCHANGED <<line, history, historyIndex, thrown, astray>>

(* Behind the first character, also of an empty line. *)
Home ==
  /\ Editing
  /\ lineIndex' = 0
  /\ astray' = TRUE /\ typed' = [left |-> <<>>, right |-> <<>>]
  /\ UNCHANGED <<line, history, historyIndex, thrown>>

(* The character behind the cursor, but not at the start of the line, and   *)
(* the cursor goes back.                                                    *)
Delete ==
  /\ Editing /\ ~AtEnd
  /\ IF lineIndex >= 0
     THEN line' = RemoveAt(line, lineIndex + 2) /\ lineIndex' = lineIndex - 1
     ELSE UNCHANGED <<line, lineIndex>>
  /\ astray' = TRUE /\ typed' = [left |-> <<>>, right |-> <<>>]
  /\ UNCHANGED <<history, historyIndex, thrown>>

(* A callback may refuse: only what it accepted is remembered. *)
Enter ==
  /\ Editing
  /\ IF line # <<>>
     THEN /\ \/ Called(line) /\ history' = Added(line)
             \/ UNCHANGED history
          /\ line' = <<>> /\ lineIndex' = -1
          /\ typed' = [left |-> <<>>, right |-> <<>>] /\ astray' = FALSE
     ELSE UNCHANGED <<history, line, lineIndex, typed, astray>>
  /\ historyIndex' = Len(history') - 1
  /\ UNCHANGED thrown

loop == Insert \/ Backspace \/ Up \/ Down \/ Right \/ Left \/ End \/ Home \/ Delete \/ Enter

-----------------------------------------------------------------------------
(* _history_index has no initial value; nothing reads it before reset or    *)
(* add has written it.                                                      *)
EditorInit ==
  /\ line = <<>> /\ lineIndex = -1 /\ history = <<>> /\ historyIndex \in -1 .. 1
  /\ thrown = FALSE /\ astray = FALSE /\ typed = [left |-> <<>>, right |-> <<>>]

EditorSpec == EditorInit /\ [][loop]_editor

-----------------------------------------------------------------------------
(* Properties. *)

\* In the terminal too: the line that Enter executes is the one that the keys,
\* each doing what it says, have written, with the cursor where they have put it
\* (Home and Delete do not: they are left out); nothing is typed behind its end;
\* and history holds no line twice, at most MaxSize of them, and stays inside.
AsTyped ==
  /\ ~astray => ~thrown /\ line = typed.left \o typed.right /\ Len(typed.left) = lineIndex + 1
  /\ Len(history) <= MaxSize /\ IsInjective(history)
  /\ history # <<>> => historyIndex \in -1 .. Tip

=============================================================================
