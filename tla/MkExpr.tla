------------------------------- MODULE MkExpr -------------------------------
(***************************************************************************)
(* How a statement that is an expression is compiled (compile.c):          *)
(* do_compile_expr_root, which takes an expression and the conditions that *)
(* may follow it ("x if y"); do_compile_expr, which arranges operators by  *)
(* their priority; do_compile_symbol, which takes one operand with its     *)
(* indices and its dotted parts; and the lists of arguments.  They call    *)
(* each other; "calls" holds the do_compile_expr that are active.          *)
(*                                                                         *)
(* Tokens come from the lexer, any one after any other.  Operands without  *)
(* tokens of their own inside (names, strings, this ...) are all "name"; a *)
(* name and the "(" behind it, which the lexer sees ahead, are one "call". *)
(* Left out: parameters of blocks, "block ... end" and the @ of members.   *)
(***************************************************************************)
EXTENDS Integers, Sequences

CONSTANTS Operators,   \* the marks that have a method name: "+", "=", ...
          Signs,       \* of these, the ones a number may begin with
          Rank,        \* operators to their priorities (mk.h)
          MaxTokens    \* bound: tokens of a statement, its end not counted

(* Marks that open something have a priority, too: the highest.            *)
Opening == {"(", "{"}
Closing == {")", "]", "}"}
Ends    == {"eol", "eof"}
Tokens  == Operators \cup Opening \cup Closing \cup Ends
           \cup {"[", ".", ",", "name", "number", "call", "if"}

Priority(t) == IF t \in Operators THEN Rank[t] ELSE IF t \in Opening THEN 15 ELSE 0

ASSUME MkExprAssumption ==
  /\ Operators \cap ({"[", ".", ",", "name", "number", "call", "if"}
                     \cup Opening \cup Closing \cup Ends) = {}
  /\ Signs \subseteq Operators
  /\ Rank \in [Operators -> 1 .. 15]
  /\ MaxTokens \in Nat \ {0}

VARIABLES read,       \* the tokens so far; the last one is lexer->value
          nodes,      \* the nodes made so far
          calls,      \* the active calls of do_compile_expr, the last on top
          result,     \* what the last one returned, or 0
          statement,  \* what do_compile_expr_root has, or 0
          failed,     \* some expression could not be compiled
          verdict
vars == <<read, nodes, calls, result, statement, failed, verdict>>

(* A node: the position of its token, the call that made it (the position  *)
(* it began at) and the nodes below it, left and right of its token.       *)
Ids   == 0 .. Len(nodes)
Nodes == [kind : {"operand", "call", "array", "block", "index", "dotted", "operation", "if"},
          at : 1 .. Len(read), by : 0 .. Len(read), before : Seq(Ids \ {0}), after : Seq(Ids \ {0})]

States == {"root", "inner", "argument", "array", "index", "noname"}
Steps  == {"symbol", "signed", "inner", "block", "list", "index", "postfix", "operator"}

(* ops is the stack of operators that wait for their right side, current   *)
(* the operand in hand, dot the first "." of the operand and parts what    *)
(* was before it; open is the mark of what is being compiled inside, list  *)
(* the arguments so far; bad the error that is acted on only later.        *)
Calls == [state : States, from : 1 .. Len(read), step : Steps,
          ops : Seq(Ids \ {0}), current : Ids, dot : 0 .. Len(read), parts : Seq(Ids \ {0}),
          open : 0 .. Len(read), list : Seq(Ids \ {0}), neg : BOOLEAN, bad : BOOLEAN]

TypeOK ==
  /\ read \in Seq(Tokens) /\ read # <<>>
  /\ nodes \in Seq(Nodes)
  /\ calls \in Seq(Calls)
  /\ result \in Ids /\ statement \in Ids
  /\ failed \in BOOLEAN
  /\ verdict \in {"compiling", "accepted", "rejected"}

-----------------------------------------------------------------------------
value == read[Len(read)]
Top   == calls[Len(calls)]
At(step) == verdict = "compiling" /\ result = 0 /\ calls # <<>> /\ Top.step = step

GetToken == \E t \in Tokens :
              /\ Len(read) < MaxTokens \/ t \in Ends   \* bound
              /\ value = "eof" => t = "eof"
              /\ read' = Append(read, t)

Call(state, from) ==
  [state |-> state, from |-> from, step |-> "symbol", ops |-> <<>>, current |-> 0, dot |-> 0,
   parts |-> <<>>, open |-> 0, list |-> <<>>, neg |-> FALSE, bad |-> FALSE]

Node(kind, at, before, after) ==
  [kind |-> kind, at |-> at, by |-> Top.from, before |-> before, after |-> after]

WithTop(c) == [calls EXCEPT ![Len(calls)] = c]
New == Len(nodes) + 1

(* Every call returns NULL to the one that called it, up to the root: the  *)
(* statement fails, unless what failed is the condition behind it.         *)
Fail ==
  /\ calls' = <<>> /\ result' = 0 /\ failed' = TRUE
  /\ verdict' = IF statement = 0 THEN "rejected" ELSE verdict
  /\ UNCHANGED <<read, nodes, statement>>

-----------------------------------------------------------------------------
(* do_compile_symbol.                                                      *)
Sign ==
  /\ At("symbol") /\ value \in Signs
  /\ calls' = WithTop([Top EXCEPT !.step = "signed", !.neg = TRUE])
  /\ GetToken
  /\ UNCHANGED <<nodes, result, statement, failed, verdict>>

Unsigned == At("symbol") /\ value \notin Signs
(* A sign stands before a number; it is still in force at the parts that   *)
(* follow a dot.                                                           *)
BadNow == Top.bad \/ (Top.neg /\ value # "number")

Operand ==
  /\ Unsigned \/ At("signed")
  /\ value = "name" \/ (value = "number" /\ Top.dot = 0)
  /\ nodes' = Append(nodes, Node("operand", Len(read), <<>>, <<>>))
  /\ calls' = WithTop([Top EXCEPT !.current = New, !.step = "postfix", !.bad = BadNow])
  /\ GetToken
  /\ UNCHANGED <<result, statement, failed, verdict>>

Opens(step) == [Top EXCEPT !.step = step, !.open = Len(read), !.list = <<>>,
                           !.bad = (value # "(" /\ BadNow) \/ Top.bad]

Inner ==          \* ( expr )
  /\ Unsigned /\ value = "("
  /\ calls' = Append(WithTop(Opens("inner")), Call("inner", Len(read) + 1))
  /\ GetToken
  /\ UNCHANGED <<nodes, result, statement, failed, verdict>>

Block ==          \* do_compile_node_with_param: { expr }
  /\ Unsigned \/ At("signed")
  /\ value = "{"
  /\ calls' = Append(WithTop(Opens("block")), Call("noname", Len(read) + 1))
  /\ GetToken
  /\ UNCHANGED <<nodes, result, statement, failed, verdict>>

List ==           \* name( ... ) or [ ... ]
  /\ Unsigned \/ At("signed")
  /\ value \in {"call", "["}
  /\ calls' = WithTop(Opens("list"))
  /\ GetToken
  /\ UNCHANGED <<nodes, result, statement, failed, verdict>>

NoOperand ==
  /\ \/ /\ Unsigned /\ value \notin {"name", "number", "call", "[", "(", "{"}
        /\ value = "eof" => Top.dot = 0
     \/ At("signed") /\ value \notin {"name", "number", "call", "[", "{"}
     \/ (Unsigned \/ At("signed")) /\ value = "number" /\ Top.dot # 0
  /\ Fail

(* do_compile_arguments: one turn of its loop, and its end.                *)
Close == IF read[Top.open] = "call" THEN ")" ELSE "]"

NextArgument ==
  /\ At("list") /\ value # Close /\ value # "eof"
  /\ calls' = Append(calls, Call(IF Close = ")" THEN "argument" ELSE "array", Len(read)))
  /\ UNCHANGED <<read, nodes, result, statement, failed, verdict>>

EndOfList ==
  /\ At("list") /\ value = Close
  /\ nodes' = Append(nodes, Node(IF Close = ")" THEN "call" ELSE "array", Top.open, <<>>, Top.list))
  /\ calls' = WithTop([Top EXCEPT !.current = New, !.step = "postfix"])
  /\ GetToken
  /\ UNCHANGED <<result, statement, failed, verdict>>

OpenList == At("list") /\ value = "eof" /\ Fail

(* Behind the operand: indices, then a dot and the next part, or the end.  *)
PartsAndCurrent == Append(Tail(Top.parts), Top.current)

Dotted == Node("dotted", Top.dot, <<Top.parts[1]>>, PartsAndCurrent)

PartsAlone == Tail(Top.parts)

Index ==
  /\ At("postfix") /\ value = "["
  /\ calls' = Append(WithTop([Top EXCEPT !.step = "index", !.open = Len(read)]),
                     Call("index", Len(read) + 1))
  /\ GetToken
  /\ UNCHANGED <<nodes, result, statement, failed, verdict>>

Dot ==
  /\ At("postfix") /\ value = "." /\ ~Top.bad
  /\ calls' = WithTop([Top EXCEPT !.dot = IF Top.dot = 0 THEN Len(read) ELSE Top.dot,
                                  !.parts = Append(Top.parts, Top.current),
                                  !.current = 0, !.step = "symbol"])
  /\ GetToken
  /\ UNCHANGED <<nodes, result, statement, failed, verdict>>

(* The loop over the parts ends at the end of the file, after a dot too.   *)
DotAtEnd ==
  /\ At("symbol") /\ Top.dot # 0 /\ value = "eof"
  /\ nodes' = Append(nodes, Node("dotted", Top.dot, <<Top.parts[1]>>, PartsAlone))
  /\ calls' = WithTop([Top EXCEPT !.current = New, !.step = "operator", !.dot = 0, !.parts = <<>>])
  /\ UNCHANGED <<read, result, statement, failed, verdict>>

EndOfSymbol ==
  /\ At("postfix") /\ value \notin {"[", "."} /\ ~Top.bad
  /\ IF Top.dot = 0
       THEN /\ calls' = WithTop([Top EXCEPT !.step = "operator"])
            /\ UNCHANGED nodes
       ELSE /\ nodes' = Append(nodes, Dotted)
            /\ calls' = WithTop([Top EXCEPT !.current = New, !.step = "operator",
                                            !.dot = 0, !.parts = <<>>])
  /\ UNCHANGED <<read, result, statement, failed, verdict>>

BadSymbol == At("postfix") /\ value # "[" /\ Top.bad /\ Fail

-----------------------------------------------------------------------------
(* do_compile_expr.                                                        *)
EndMarks(state) ==
  CASE state = "root"     -> {"eol", "eof", "if"}
    [] state = "inner"    -> {")"}
    [] state = "argument" -> {")", ","}
    [] state = "array"    -> {"]", ","}
    [] state = "index"    -> {"]"}
    [] state = "noname"   -> {"}"}

(* The operand in hand is the right side of the last operator.             *)
Linked == IF Top.ops = <<>> THEN nodes
          ELSE [nodes EXCEPT ![Top.ops[Len(Top.ops)]].after = <<Top.current>>]

LastWaiting(otherwise) == IF Top.ops = <<>> THEN otherwise ELSE Top.ops[Len(Top.ops)]

Root(otherwise) == IF Top.ops = <<>> THEN otherwise ELSE Top.ops[1]

EndOfExpr ==
  /\ At("operator") /\ value \in EndMarks(Top.state)
  /\ nodes' = Linked
  /\ result' = Root(Top.current)
  /\ calls' = SubSeq(calls, 1, Len(calls) - 1)
  /\ UNCHANGED <<read, statement, failed, verdict>>

(* A new operator goes below the last waiting one that binds less than it  *)
(* does, and takes its right side as its own left; those behind that are   *)
(* complete.  If there is none it goes on top of them all.                 *)
BindsNotMore(p, q) == p <= q

BindsLess(p, q) == p < q

Above == {i \in 1 .. Len(Top.ops) : BindsLess(Priority(read[nodes[Top.ops[i]].at]), Priority(value))}

StillWaitingAll(i) == Top.ops

StillWaiting(i) == SubSeq(Top.ops, 1, i)

Operator ==
  /\ At("operator") /\ value \notin EndMarks(Top.state) /\ Priority(value) # 0
  /\ \/ /\ Above = {}
        /\ nodes' = Append(Linked, Node("operation", Len(read), <<Root(Top.current)>>, <<>>))
        /\ calls' = WithTop([Top EXCEPT !.ops = <<New>>, !.current = 0, !.step = "symbol"])
     \/ \E i \in Above :
        /\ \A j \in Above : j <= i
        /\ nodes' = Append([Linked EXCEPT ![Top.ops[i]].after = <<New>>],
                           Node("operation", Len(read), Linked[Top.ops[i]].after, <<>>))
        /\ calls' = WithTop([Top EXCEPT !.ops = Append(StillWaiting(i), New),
                                        !.current = 0, !.step = "symbol"])
  /\ GetToken
  /\ UNCHANGED <<result, statement, failed, verdict>>

NoOperator ==
  /\ At("operator") /\ value \notin EndMarks(Top.state) /\ Priority(value) = 0
  /\ Fail

-----------------------------------------------------------------------------
(* What a caller does with the expression it got.                          *)
Waits(step) == verdict = "compiling" /\ result # 0 /\ calls # <<>> /\ Top.step = step

InnerDone ==
  /\ Waits("inner")
  /\ calls' = WithTop([Top EXCEPT !.current = result, !.step = "postfix"])
  /\ result' = 0
  /\ GetToken
  /\ UNCHANGED <<nodes, statement, failed, verdict>>

BlockDone ==
  /\ Waits("block")
  /\ nodes' = Append(nodes, Node("block", Top.open, <<>>, <<result>>))
  /\ calls' = WithTop([Top EXCEPT !.current = New, !.step = "postfix"])
  /\ result' = 0
  /\ GetToken
  /\ UNCHANGED <<statement, failed, verdict>>

ArgumentDone ==
  /\ Waits("list")
  /\ calls' = WithTop([Top EXCEPT !.list = Append(Top.list, result)])
  /\ result' = 0
  /\ IF value = "," THEN GetToken ELSE UNCHANGED read
  /\ UNCHANGED <<nodes, statement, failed, verdict>>

(* The dotted operand before the "[" is complete: the index applies to it. *)
IndexDone ==
  /\ Waits("index")
  /\ IF Top.dot = 0
       THEN nodes' = Append(nodes, Node("index", Top.open, <<Top.current>>, <<result>>))
       ELSE nodes' = nodes \o <<Dotted, Node("index", Top.open, <<New>>, <<result>>)>>
  /\ calls' = WithTop([Top EXCEPT !.current = Len(nodes'), !.step = "postfix",
                                  !.dot = 0, !.parts = <<>>])
  /\ result' = 0
  /\ GetToken
  /\ UNCHANGED <<statement, failed, verdict>>

(* do_compile_expr_root: the first expression is the statement, those that *)
(* follow are conditions of what there is so far.                          *)
ConditionReplaces ==
  /\ verdict = "compiling" /\ calls = <<>> /\ result # 0
  /\ statement' = result /\ result' = 0
  /\ UNCHANGED <<read, nodes, calls, failed, verdict>>

StatementDone ==
  /\ verdict = "compiling" /\ calls = <<>> /\ result # 0
  /\ IF statement = 0
       THEN statement' = result /\ UNCHANGED nodes
       ELSE nodes' = [nodes EXCEPT ![statement].after = <<result>>] /\ UNCHANGED statement
  /\ result' = 0
  /\ UNCHANGED <<read, calls, failed, verdict>>

InLoop == verdict = "compiling" /\ calls = <<>> /\ result = 0 /\ statement # 0

Condition ==
  /\ InLoop /\ value = "if"
  /\ nodes' = Append(nodes, [kind |-> "if", at |-> Len(read), by |-> 0,
                             before |-> <<statement>>, after |-> <<>>])
  /\ statement' = New
  /\ calls' = <<Call("root", Len(read) + 1)>>
  /\ GetToken
  /\ UNCHANGED <<result, failed, verdict>>

Accept ==
  /\ InLoop /\ value \in Ends
  /\ verdict' = "accepted"
  /\ UNCHANGED <<read, nodes, calls, result, statement, failed>>

(* The loop does nothing with any other token, and stays.                  *)
Turn == InLoop /\ value \notin Ends \cup {"if"} /\ UNCHANGED vars

-----------------------------------------------------------------------------
Init ==
  /\ \E t \in Tokens \ Ends : read = <<t>>
  /\ nodes = <<>>
  /\ calls = <<Call("root", 1)>>
  /\ result = 0 /\ statement = 0
  /\ failed = FALSE
  /\ verdict = "compiling"

Next ==
  \/ Sign \/ Operand \/ Inner \/ Block \/ List \/ NoOperand
  \/ NextArgument \/ EndOfList \/ OpenList
  \/ Index \/ Dot \/ DotAtEnd \/ EndOfSymbol \/ BadSymbol
  \/ EndOfExpr \/ Operator \/ NoOperator
  \/ InnerDone \/ BlockDone \/ ArgumentDone \/ IndexDone
  \/ StatementDone \/ Condition \/ Accept \/ Turn

Spec == Init /\ [][Next]_vars

-----------------------------------------------------------------------------
(***************************************************************************)
(* What the compiler must keep.                                            *)
(***************************************************************************)
(* The operators that wait are the right edge of one tree, each binding    *)
(* more than the one above it; only the lowest has no right side yet.  The *)
(* search from the end of the stack relies on it.                          *)
RightEdge ==
  \A c \in 1 .. Len(calls) : LET ops == calls[c].ops IN
    /\ \A i \in 1 .. Len(ops) - 1 :
         /\ nodes[ops[i]].after = <<ops[i + 1]>>
         /\ Priority(read[nodes[ops[i]].at]) < Priority(read[nodes[ops[i + 1]].at])
    /\ ops # <<>> => nodes[ops[Len(ops)]].after = <<>>

(* The nodes at and below a node.                                          *)
Below(n) == {nodes[n].before[i] : i \in DOMAIN nodes[n].before}
            \cup {nodes[n].after[i] : i \in DOMAIN nodes[n].after}
Under[n \in DOMAIN nodes] == {n} \cup UNION {Under[m] : m \in Below(n)}

Complete == verdict = "accepted" /\ ~failed

(* A statement that is accepted is a tree of all nodes that were made, in  *)
(* the order the tokens were read: no operand is dropped, taken twice or   *)
(* moved past an operator.                                                 *)
TreeInOrder ==
  Complete =>
    /\ Under[statement] = DOMAIN nodes
    /\ \A n \in DOMAIN nodes :
         LET b == nodes[n].before
             a == nodes[n].after
         IN  /\ \A i \in DOMAIN b : \A m \in Under[b[i]] : nodes[m].at < nodes[n].at
             /\ \A i \in DOMAIN a : \A m \in Under[a[i]] : nodes[n].at < nodes[m].at
             /\ \A i, j \in DOMAIN a : i < j =>
                  \A m \in Under[a[i]], k \in Under[a[j]] : nodes[m].at < nodes[k].at
             /\ nodes[n].kind \in {"operation", "index", "if"} => Len(b) = 1 /\ Len(a) = 1
    /\ \A p \in DOMAIN read : read[p] \in {"name", "number", "call"} =>
         \E n \in DOMAIN nodes : nodes[n].at = p

(* Within one expression an operator has operators of the same or a higher *)
(* priority on its left and of a higher one on its right: equal ones       *)
(* associate to the left.                                                  *)
PrecedenceKept ==
  Complete =>
    \A n \in DOMAIN nodes : nodes[n].kind = "operation" =>
      LET rank(m) == Priority(read[nodes[m].at])
          below(s) == {s[i] : i \in {j \in DOMAIN s : /\ nodes[s[j]].kind = "operation"
                                                      /\ nodes[s[j]].by = nodes[n].by}}
      IN  /\ \A m \in below(nodes[n].before) : rank(m) >= rank(n)
          /\ \A m \in below(nodes[n].after) : rank(m) > rank(n)

(* An error is never silent: a statement that is accepted although a part  *)
(* of it could not be compiled has a condition that is missing, and none   *)
(* is missing otherwise (the NULL right side do_compile_expr_root links).  *)
ErrorLeavesHole ==
  verdict = "accepted" =>
    (failed <=> \E n \in DOMAIN nodes : nodes[n].kind = "if" /\ nodes[n].after = <<>>)
=============================================================================
