---------------------------- MODULE Expressions ----------------------------
(***************************************************************************)
(* The expression of AT+ACTION (sscma/interpreter/): a text becomes a tree *)
(* (Parser) and its names the mutables, and later the tree is evaluated    *)
(* with what the names are bound to.  Of the lexer only the result is      *)
(* kept: a text is the sequence of its tokens, one of which is LONE, a     *)
(* single & or |.                                                          *)
(***************************************************************************)
EXTENDS Integers, Sequences

CONSTANTS
  Texts,            \* texts written to the grammar: [tokens, tree]
  Garbage,          \* other sequences of tokens
  Values,           \* of identifiers and functions
  Unbound           \* a name without a callback

VARIABLES
  text,             \* the tokens
  tree,             \* what they were written for (Hole for Garbage)
  step,             \* parse, evaluate, done
  node, mutables,   \* of the condition
  bound,            \* mutable_map: from names to values
  outcome           \* of evaluate

vars == <<text, tree, step, node, mutables, bound, outcome>>

Hole == [leaf |-> "hole"]           \* a null pointer
Term == [type |-> "TERM", value |-> ""]

Leaf(token) == [leaf |-> token.type, value |-> token.value]
Operator(token, left, right) == [op |-> token.value, left |-> left, right |-> right]
IsLeaf(n) == "leaf" \in DOMAIN n

-----------------------------------------------------------------------------
(* Lexer: the next token, TERM for ever at the end, and once for LONE: what  *)
(* is behind that is left to whoever asks again.                            *)
get_next_token(tokens) ==
  IF tokens = <<>> \/ Head(tokens).type = "LONE" THEN Term ELSE Head(tokens)
Behind(tokens) == IF tokens = <<>> THEN <<>> ELSE Tail(tokens)

(* Parser.  A parser in progress: the node stack, the tokens left, and the  *)
(* names met so far.  ok is what parse_expression returns.                  *)
RECURSIVE parse_expression(_, _), Expressions(_, _), parse(_, _)

Push(p, n) == [p EXCEPT !.stack = Append(@, n)]

(* Mutant of Reduced: the operands in the order they are popped. *)
ReducedSwapped(token, p) ==
  LET n == Len(p.stack)
  IN  IF n # 2 THEN [p EXCEPT !.ok = FALSE]
      ELSE [p EXCEPT !.stack = <<Operator(token, p.stack[2], p.stack[1])>>, !.ok = TRUE]

Reduced(token, p) ==
  LET n == Len(p.stack)
  IN  IF n # 2 THEN [p EXCEPT !.ok = FALSE]
      ELSE [p EXCEPT !.stack = <<Operator(token, p.stack[1], p.stack[2])>>, !.ok = TRUE]

parse_expression(token, p) ==
  CASE token.type \in {"IDENTIFIER", "FUNCTION"} ->
         [Push(p, Leaf(token)) EXCEPT !.names = @ \cup {token.value}, !.ok = TRUE]
    [] token.type = "CONSTANT" -> [Push(p, Leaf(token)) EXCEPT !.ok = TRUE]
    [] token.type = "OPERATOR" /\ Len(p.stack) = 1 ->
         LET next == get_next_token(p.left)
             operand == parse_expression(next, [p EXCEPT !.left = Behind(@)])
         IN  IF operand.ok THEN Reduced(token, operand) ELSE operand
    [] token.type = "OPERATOR" /\ Len(p.stack) # 1 -> Reduced(token, p)
    [] token.type = "LPARN" ->
         LET inner == parse(p.left, p.names)
         IN  [Push(p, inner.node) EXCEPT !.left = inner.left, !.names = inner.names, !.ok = TRUE]
    [] OTHER -> [p EXCEPT !.ok = FALSE]

(* The loop of parse: token is _current_token. *)
Expressions(token, p) ==
  IF token.type = "TERM" \/ Len(p.stack) >= 3 THEN p
  ELSE LET e == parse_expression(token, p)
       IN  IF e.ok THEN Expressions(get_next_token(e.left), [e EXCEPT !.left = Behind(@)]) ELSE e

parse(tokens, names) ==
  LET p == Expressions(get_next_token(tokens),
                       [stack |-> <<>>, left |-> Behind(tokens), names |-> names, ok |-> TRUE])
  IN  [node |-> IF Len(p.stack) = 1 THEN p.stack[1] ELSE Hole, left |-> p.left, names |-> p.names]

(* set_condition: a text that gives no tree changes nothing; otherwise each *)
(* name becomes a mutable, not yet bound.                                   *)
SetCondition ==
  /\ step = "parse"
  /\ LET p == parse(text, {})
     IN  /\ node' = p.node
         /\ mutables' = IF p.node = Hole THEN {} ELSE p.names
  /\ step' = IF node' = Hole THEN "done" ELSE "evaluate"
  /\ UNCHANGED <<text, tree, bound, outcome>>

-----------------------------------------------------------------------------
(* evaluate of the nodes: value, whether some operand evaluated failed      *)
(* (status), and the function calls made, in order.                         *)

Result(value, status, calls) == [value |-> value, status |-> status, calls |-> calls]
Both(a, b) == IF a = "OK" THEN b ELSE a
Truth(b) == IF b THEN 1 ELSE 0
Magnitude(a) == IF a < 0 THEN -a ELSE a
Quotient(a, b) ==
  LET q == Magnitude(a) \div Magnitude(b) IN IF (a < 0) = (b < 0) THEN q ELSE -q

atoi == [d \in {"0", "1", "2"} |-> CASE d = "0" -> 0 [] d = "1" -> 1 [] d = "2" -> 2]

(* The callback of Condition::evalute. *)
Lookup(n, map) ==
  IF n.value \notin DOMAIN map \/ map[n.value] = Unbound THEN Result(0, "EXCEPTION", <<>>)
  ELSE Result(map[n.value], "OK", IF n.leaf = "FUNCTION" THEN <<n.value>> ELSE <<>>)

RECURSIVE evaluate(_, _)
evaluate(n, map) ==
  IF IsLeaf(n)
  THEN CASE n.leaf = "CONSTANT" -> Result(atoi[n.value], "OK", <<>>)
         [] n.leaf = "hole" -> Result(0, "UNDEFINED", <<>>)
         [] OTHER -> Lookup(n, map)
  ELSE LET first == evaluate(IF n.op = "/" THEN n.right ELSE n.left, map)
           stop == \/ n.op = "&&" /\ first.value = 0
                   \/ n.op = "||" /\ first.value # 0
                   \/ n.op = "/" /\ first.value = 0
           second == evaluate(IF n.op = "/" THEN n.left ELSE n.right, map)
           a == first.value   b == second.value
       IN  IF stop
           THEN Result(IF n.op = "||" THEN 1 ELSE 0,
                       IF n.op = "/" THEN Both(first.status, "EXCEPTION") ELSE first.status,
                       first.calls)
           ELSE Result(CASE n.op \in {"&&", "||"} -> Truth(b # 0)
                         [] n.op = "-" -> a - b
                         [] n.op = ">=" -> Truth(a >= b)
                         [] n.op = "/" -> Quotient(b, a),
                       Both(first.status, second.status), first.calls \o second.calls)

(* evalute, after names have been bound (action_injection): any may be left *)
(* unbound, as an unknown function is.                                      *)
Evaluate ==
  /\ step = "evaluate"
  /\ bound' \in [mutables -> Values \cup {Unbound}]
  /\ outcome' = evaluate(node, bound')
  /\ step' = "done"
  /\ UNCHANGED <<text, tree, node, mutables>>

Init ==
  /\ \/ \E t \in Texts : text = t.tokens /\ tree = t.tree
     \/ text \in Garbage /\ tree = Hole
  /\ step = "parse" /\ node = Hole /\ mutables = {} /\ bound = <<>>
  /\ outcome = Result(0, "none", <<>>)

Next == SetCondition \/ Evaluate

Spec == Init /\ [][Next]_vars

-----------------------------------------------------------------------------
(* Properties. *)

RECURSIVE Leaves(_)
Leaves(n) == IF IsLeaf(n) THEN {n} ELSE Leaves(n.left) \cup Leaves(n.right)
Named(n) == {l.value : l \in {m \in Leaves(n) : m.leaf \in {"IDENTIFIER", "FUNCTION"}}}

(* (condition && then) || otherwise, as the documentation writes actions. *)
IsAction(n) ==
  /\ ~IsLeaf(n) /\ n.op = "||"
  /\ IsLeaf(n.right) /\ n.right.leaf = "FUNCTION"
  /\ ~IsLeaf(n.left) /\ n.left.op = "&&"
  /\ IsLeaf(n.left.right) /\ n.left.right.leaf = "FUNCTION"

Performed(f) == \E i \in DOMAIN outcome.calls : outcome.calls[i] = f

\* A text written as operands with operators between them, from the left, and brackets
\* around any operand is parsed to that tree; whatever the text, no name of a condition in
\* force is missing from its mutables; and of an action (c && f) || g the evaluation calls
\* f exactly if c holds (an operand that fails counts as 0) and g exactly if c does not
\* hold or f gives 0 or fails, and reports a failure exactly if something evaluated failed.
ParsedAsWritten ==
  /\ step # "parse" /\ tree # Hole => node = tree
  /\ node # Hole => Named(node) \subseteq mutables
  /\ step = "done" /\ tree # Hole /\ IsAction(node) =>
       LET c == evaluate(node.left.left, bound)
           f == node.left.right.value   g == node.right.value
           first == c.value # 0
           second == first => bound[f] = Unbound \/ bound[f] = 0
       IN  f # g /\ c.calls = <<>> =>
             /\ Performed(f) <=> first /\ bound[f] # Unbound
             /\ Performed(g) <=> second /\ bound[g] # Unbound
             /\ outcome.status = "OK" <=>
                  /\ c.status = "OK"
                  /\ first => bound[f] # Unbound
                  /\ second => bound[g] # Unbound

=============================================================================
