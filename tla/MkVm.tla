-------------------------------- MODULE MkVm --------------------------------
(***************************************************************************)
(* The control flow of the evaluator (vm.c): a recursion of C functions    *)
(* over the syntax tree, each of which reports to its caller how it ended, *)
(* and a local stack of operands that all of them share.                   *)
(*                                                                         *)
(* "ctrl" is the C stack: a record for each active mk_execute_... call,    *)
(* the innermost last.  "code" is what the call that has just ended        *)
(* reported to the last record, or "run".  Which expression or statement   *)
(* comes next is the script's choice and left open; what the evaluator     *)
(* does with it is not.  Of the local stack only the height is kept, of a  *)
(* value only whether it is true.                                          *)
(***************************************************************************)
EXTENDS Integers, Sequences

CONSTANTS MaxDepth,   \* the nesting at which mk_execute_expr gives up
                      \* (MK_SIZEOF_MAX_STACK_SIZE); also a bound: the
                      \* nesting of statements
          MaxArgs,    \* bound: arguments, elements of an array literal,
                      \* members with an initial value
          MaxHeight,  \* bound: no statement, iteration or condition starts above
          Raised,     \* the objects a script raises
          Error,      \* an object made by mk_raise_internal_error
          Nil,        \* no exception object
          Features    \* what the script makes use of

ASSUME MkVmAssumption ==
  /\ MaxDepth \in Nat \ {0} /\ MaxArgs \in Nat /\ MaxHeight \in Nat
  /\ Nil \notin Raised \cup {Error}
  /\ Features \subseteq {"operation", "call", "on", "super", "callback", "new", "array",
                         "element", "if", "while", "try", "condition", "raise", "jump", "backif"}

VARIABLES ctrl,      \* the C stack
          code,      \* what the last call returned, or "run"
          height,    \* vm->localStack
          exception  \* vm->exceptionObject
vars == <<ctrl, code, height, exception>>

Codes == {"NEXTSTEP", "RETURN", "BREAK", "CONTINUE", "THROW"}
Ops == {"main", "method", "block", "stmt", "if", "while", "try",
        "expr", "operation", "call", "callback", "new", "array"}

TypeOK ==
  /\ \A i \in 1 .. Len(ctrl) :
       /\ ctrl[i].op \in Ops
       /\ ctrl[i].base \in Nat
       /\ ctrl[i].n \in 0 .. MaxArgs
  /\ code \in Codes \cup {"run"}
  /\ height \in Nat
  /\ exception \in Raised \cup {Error, Nil}

(* A call: which function, how far it is, what it was given, the height of *)
(* the local stack it found; n counts its arguments, elements or members.  *)
Record(op, at, kind, base) == [op |-> op, at |-> at, kind |-> kind, base |-> base, n |-> 0]

Top == ctrl[Len(ctrl)]
Below == SubSeq(ctrl, 1, Len(ctrl) - 1)
In(op, at) == ctrl # <<>> /\ Top.op = op /\ Top.at = at
Uses(f) == f \in Features

(* The innermost call returns c.                                           *)
Returns(c) == ctrl' = Below /\ code' = c
(* It goes on as r, and calls.                                             *)
CallsAs(r, callee) == ctrl' = Below \o <<r, callee>> /\ code' = "run"
Calls(at, callee) == CallsAs([Top EXCEPT !.at = at], callee)
GoesOn(at) == ctrl' = Append(Below, [Top EXCEPT !.at = at]) /\ code' = "run"

(* An expression.  A simple one (a constant, a local variable, a           *)
(* comparison of these) does not raise.                                    *)
ExprAt(h)  == Record("expr", "start", "any", h)
Expr       == ExprAt(height)
Plain(f)   == Record("expr", "start", IF Uses(f) THEN "any" ELSE "simple", height)
Block(kind, h) == Record("block", "next", kind, h)

InternalError == exception' = Error

-----------------------------------------------------------------------------
(* Expressions (mk_execute_expr and the functions it dispatches to).       *)

Simple == In("expr", "start") /\ code = "run" /\ Len(ctrl) < MaxDepth
Any    == Simple /\ Top.kind = "any"

TooDeep ==       \* the depth of the C stack is checked for each expression
  /\ In("expr", "start") /\ code = "run" /\ Len(ctrl) >= MaxDepth
  /\ InternalError
  /\ Returns("THROW")
  /\ UNCHANGED height

Leaf ==          \* a constant, a name, this, owner, a block: one operand
  /\ Simple
  /\ height' = height + 1
  /\ Returns("NEXTSTEP")
  /\ UNCHANGED exception

LeafFails ==     \* a name that is not found, a call of one; some of
  /\ Any          \* these THROW without an exception object
  /\ exception' \in {exception, Error}
  /\ Returns("THROW")
  /\ UNCHANGED height

(* left op right: both, then the operator's method.  No such method is a   *)
(* THROW without an exception object.                                      *)
BeginOperation ==
  /\ Any /\ Uses("operation")
  /\ CallsAs(Record("operation", "left", "none", height), Expr)
  /\ UNCHANGED <<height, exception>>

OperationLeft ==
  /\ In("operation", "left") /\ code = "NEXTSTEP"
  /\ Calls("right", Expr)
  /\ UNCHANGED <<height, exception>>

OperationFails ==
  \/ /\ In("operation", "left") \/ In("operation", "right")
     /\ code \notin {"run", "NEXTSTEP"}
     /\ Returns(code)
     /\ UNCHANGED <<height, exception>>
  \/ /\ In("operation", "right") /\ code = "NEXTSTEP"
     /\ Returns("THROW")
     /\ UNCHANGED <<height, exception>>

(* A native method pops its operands and pushes one result; a method of    *)
(* the script pops its receiver and its parameters into a frame and runs.  *)
NativeMethod(operands) ==
  \/ /\ height' = height - operands + 1
     /\ Returns("NEXTSTEP")
     /\ UNCHANGED exception
  \/ /\ height' = height - operands
     /\ exception' \in {exception, Error}
     /\ Returns("THROW")

(* A body is a block, or an expression in braces.                          *)
Body(kind, h) == IF kind = "expr" THEN ExprAt(h) ELSE Block(kind, h)

Kinds == {"root", "noname", "expr"}

(* What stays on the C stack is "under" the method and its body.           *)
EnterMethodPoppingTwice(under, kind, h, parameters) ==
  LET base == h - 2 * (parameters + 1) IN
  /\ height' = base
  /\ ctrl' = under \o <<Record("method", "body", kind, base), Body(kind, base)>>
  /\ code' = "run"
  /\ UNCHANGED exception

EnterMethod(under, kind, h, parameters) ==
  LET base == h - (parameters + 1) IN
  /\ height' = base
  /\ ctrl' = under \o <<Record("method", "body", kind, base), Body(kind, base)>>
  /\ code' = "run"
  /\ UNCHANGED exception

(* A method takes as many operands as it has parameters; here it has as     *)
(* many as it is given.  mk_vm_find_method picks one that does; an         *)
(* operator, node.invoke, "me" and a node called by a variable's name are  *)
(* not compared, and a script that gets these wrong is not modelled.       *)
(* Native methods of one argument that call a method themselves: to_s of   *)
(* the argument (Console.print, String), the node for each element of an   *)
(* array (Array.each).  Each call is given one argument at most.           *)
Callback(self, h) ==
  \E kind \in Kinds :
    \/ self.kind = "each" /\ EnterMethod(Append(Below, self), kind, h + 2, 1)
    \/ self.kind = "to_s" /\ EnterMethod(Append(Below, self), kind, h + 1, 0)

BeginCallback(h) ==
  /\ Uses("callback") /\ MaxArgs > 0
  /\ \E kind \in {"each", "to_s"} :
       Callback(Record("callback", "call", kind, h), h)

EachNext ==      \* the next element; the array may be of any size
  /\ In("callback", "call") /\ code = "NEXTSTEP" /\ Top.kind = "each"
  /\ height <= MaxHeight             \* bound
  /\ Callback(Top, height - 1)

(* The result of the last call is taken off and the method's own pushed;   *)
(* "each" pushes it even after a call that failed.  What to_s gives may    *)
(* not be a string.                                                        *)
CallbackEnds ==
  /\ In("callback", "call") /\ code # "run"
  /\ \/ code = "NEXTSTEP" /\ Returns("NEXTSTEP") /\ UNCHANGED height
     \/ code = "NEXTSTEP" /\ Top.kind = "to_s" /\ Returns("THROW") /\ height' = height - 1
     \/ /\ code # "NEXTSTEP"
        /\ Returns("THROW")
        /\ height' = IF Top.kind = "each" THEN height + 1 ELSE height
  /\ UNCHANGED exception

OperationRight ==
  /\ In("operation", "right") /\ code = "NEXTSTEP"
  /\ \/ NativeMethod(2)
     \/ BeginCallback(height - 2)
     \/ EnterMethod(Below, "root", height, 1)

(* A call: the receiver, the arguments, the method.  "on" has its receiver *)
(* evaluated first and takes it off the stack; every call then pushes it.  *)
BeginCall ==
  /\ Any /\ Uses("call")
  /\ \E kind \in {"method"} \cup (Features \cap {"super"}) :
       ctrl' = Append(Below, Record("call", "args", kind, height))
  /\ height' = height + 1
  /\ UNCHANGED <<code, exception>>

BeginCallOn ==
  /\ Any /\ Uses("on")
  /\ CallsAs(Record("call", "receiver", "on", height), Expr)
  /\ UNCHANGED <<height, exception>>

CallReceiver ==
  /\ In("call", "receiver")
  /\ \/ code = "NEXTSTEP" /\ GoesOn("args") /\ UNCHANGED <<height, exception>>
     \/ /\ code = "NEXTSTEP"                  \* it has no such method
        /\ height' = height - 1
        /\ InternalError
        /\ Returns("THROW")
     \/ code \notin {"run", "NEXTSTEP"} /\ Returns(code) /\ UNCHANGED <<height, exception>>

CallArgument ==
  /\ In("call", "args") /\ code \in {"run", "NEXTSTEP"}
  /\ Top.n < MaxArgs                 \* bound
  /\ CallsAs([Top EXCEPT !.n = @ + 1], Expr)
  /\ UNCHANGED <<height, exception>>

(* An argument that does not end with NEXTSTEP, or one that is missing and *)
(* has no default value.                                                   *)
CallArgumentFails ==
  /\ In("call", "args")
  /\ exception' = IF exception = Nil \/ Top.kind = "super" THEN Error ELSE exception
  /\ Returns("THROW")
  /\ UNCHANGED height

Call ==
  /\ In("call", "args") /\ code \in {"run", "NEXTSTEP"}
  /\ \/ NativeMethod(Top.n + 1)
     \/ Top.n = 1 /\ BeginCallback(height - 2)
     \/ \E kind \in Kinds : EnterMethod(Below, kind, height, Top.n)

(* A "return" ends a method with its operand; only a catch block, which is *)
(* called like a method, passes every code on.                             *)
MethodReturns ==
  /\ In("method", "body") /\ code # "run"
  /\ Returns(IF code = "RETURN" /\ Top.kind # "catch" THEN "NEXTSTEP" ELSE code)
  /\ UNCHANGED <<height, exception>>

(* Class.new(...): the class, the initial value of each member, then       *)
(* initialize with its arguments, whose result is dropped for the object.  *)
BeginNew ==
  /\ Any /\ Uses("new")
  /\ CallsAs(Record("new", "class", "none", height), Expr)
  /\ UNCHANGED <<height, exception>>

NewMember ==
  /\ In("new", "class") \/ In("new", "member")
  /\ code = "NEXTSTEP"
  /\ Top.n < MaxArgs                 \* bound
  /\ height' = height - 1
  /\ CallsAs([Top EXCEPT !.at = "member", !.n = @ + 1], ExprAt(height - 1))
  /\ UNCHANGED exception

NewFails ==
  /\ \/ In("new", "class") /\ code \notin {"run", "NEXTSTEP"} /\ UNCHANGED <<exception, height>>
     \/ /\ In("new", "class") /\ code = "NEXTSTEP"     \* not a class
        /\ height' = height - 1
        /\ exception' = IF exception = Nil THEN Error ELSE exception
     \/ /\ In("new", "member") /\ code \notin {"run", "NEXTSTEP"}
        /\ exception' = IF exception = Nil THEN Error ELSE exception
        /\ UNCHANGED height
  /\ Returns("THROW")

NewInitialize ==
  /\ In("new", "class") \/ In("new", "member")
  /\ code = "NEXTSTEP"
  /\ \/ ctrl' = Append(Below, Record("call", "args", "method", Top.base)) /\ code' = "run"
     \/ Returns("NEXTSTEP")          \* it has no such method
  /\ UNCHANGED <<height, exception>>

(* [a, b, ...]: each element leaves the stack; one that does not end with  *)
(* NEXTSTEP ends the literal, which is then NULL, and the script goes on.  *)
BeginArray ==
  /\ Any /\ Uses("array")
  /\ ctrl' = Append(Below, Record("array", "elements", "none", height))
  /\ UNCHANGED <<code, height, exception>>

ArrayElement ==
  /\ In("array", "elements") /\ code \in {"run", "NEXTSTEP"}
  /\ Top.n < MaxArgs                 \* bound
  /\ LET h == IF code = "run" THEN height ELSE height - 1 IN
       /\ height' = h
       /\ CallsAs([Top EXCEPT !.n = @ + 1], [Plain("element") EXCEPT !.base = h])
  /\ UNCHANGED exception

ArrayEnds ==
  /\ In("array", "elements")
  /\ height' = IF code = "NEXTSTEP" THEN height ELSE height + 1
  /\ Returns("NEXTSTEP")
  /\ UNCHANGED exception

-----------------------------------------------------------------------------
(* Blocks (mk_execute_block).                                              *)

Statements == {"stmt"} \cup (Features \cap {"if", "while", "try"})
IsFunction == Top.kind = "root"
IsMethodBody == Top.kind \in {"root", "noname"}

BlockStatement ==
  /\ In("block", "next") /\ code \in {"run", "NEXTSTEP"}
  /\ height <= MaxHeight             \* bound
  /\ \E op \in Statements :
       /\ op # "stmt" => Len(ctrl) < MaxDepth        \* bound
       /\ Calls("next", Record(op, "start", "none", height))
  /\ UNCHANGED <<height, exception>>

BlockEnds ==     \* a method's body returns the value of its last statement
  /\ In("block", "next") /\ code \in {"run", "NEXTSTEP"}
  /\ IF IsMethodBody THEN height' = height + 1 /\ Returns("RETURN")
                     ELSE Returns("NEXTSTEP") /\ UNCHANGED height
  /\ UNCHANGED exception

HeightAsItIs == height
HeightBelowBase == Top.base - 1

HeightAfterThrow == Top.base

BlockLeft ==
  /\ In("block", "next")
  /\ \/ /\ code \in {"BREAK", "CONTINUE"} /\ IsMethodBody
        /\ InternalError
        /\ Returns("THROW")
        /\ UNCHANGED height
     \/ /\ \/ code = "RETURN"
           \/ code \in {"BREAK", "CONTINUE"} /\ ~IsMethodBody
        /\ Returns(code)
        /\ UNCHANGED <<height, exception>>
     \/ /\ code = "THROW"
        /\ height' = HeightAfterThrow
        /\ Returns("THROW")
        /\ UNCHANGED exception

(* A statement that is an expression, with what only a statement can be:   *)
(* return, raise, break, continue, any of them with "if" behind it.        *)
Stmt ==
  /\ In("stmt", "start") /\ code = "run"
  /\ \/ \E at \in {"expr"} \cup (Features \cap {"raise", "backif"})
                  \cup (IF Uses("jump") THEN {"return"} ELSE {}) : Calls(at, Expr)
     \/ Uses("jump") /\ \E c \in {"BREAK", "CONTINUE"} : Returns(c)
  /\ UNCHANGED <<height, exception>>

StmtEnds ==
  /\ ctrl # <<>> /\ Top.op = "stmt" /\ code # "run"
  /\ \/ code # "NEXTSTEP" /\ Returns(code) /\ UNCHANGED <<height, exception>>
     \/ /\ code = "NEXTSTEP" /\ Top.at \in {"expr", "backif"}  \* "if" was false
        /\ height' = height - 1
        /\ Returns("NEXTSTEP")
        /\ UNCHANGED exception
     \/ /\ code = "NEXTSTEP" /\ Top.at = "backif"              \* it was true
        /\ height' = height - 1
        /\ GoesOn("start")
        /\ UNCHANGED exception
     \/ /\ code = "NEXTSTEP" /\ Top.at = "raise"
        /\ height' = height - 1
        /\ exception' \in Raised
        /\ Returns("THROW")
     \/ /\ code = "NEXTSTEP" /\ Top.at = "return"
        /\ Returns("RETURN")
        /\ UNCHANGED <<height, exception>>

If ==
  /\ In("if", "start") /\ code = "run"
  /\ Calls("condition", Expr)
  /\ UNCHANGED <<height, exception>>

IfCondition ==
  /\ In("if", "condition") /\ code # "run"
  /\ \/ /\ code = "NEXTSTEP"
        /\ height' = height - 1
        /\ \/ Calls("block", Block("inner", height - 1))        \* then, or else
           \/ Calls("condition", ExprAt(height - 1))            \* elseif
           \/ Returns("NEXTSTEP")
     \/ code # "NEXTSTEP" /\ Returns(code) /\ UNCHANGED height
  /\ UNCHANGED exception

IfEnds ==
  /\ In("if", "block") /\ code # "run"
  /\ Returns(code)
  /\ UNCHANGED <<height, exception>>

(* while ... end evaluates its condition before the block, do ... while    *)
(* after it; "continue" goes to the head of the loop.                      *)
While ==
  /\ In("while", "start") /\ code = "run"
  /\ \/ CallsAs([Top EXCEPT !.at = "condition", !.kind = "front"], Expr)
     \/ CallsAs([Top EXCEPT !.at = "block", !.kind = "back"], Block("inner", height))
  /\ UNCHANGED <<height, exception>>

WhileCondition ==
  /\ In("while", "condition") /\ code # "run"
  /\ \/ /\ code = "NEXTSTEP"
        /\ height' = height - 1
        /\ \/ Returns("NEXTSTEP")
           \/ height <= MaxHeight /\ Calls("block", Block("inner", height - 1))   \* bound
     \/ code # "NEXTSTEP" /\ Returns(code) /\ UNCHANGED height
  /\ UNCHANGED exception

WhileBlock ==
  /\ In("while", "block") /\ code # "run"
  /\ \/ code = "BREAK" /\ Returns("NEXTSTEP")
     \/ /\ code \in {"NEXTSTEP", "CONTINUE"}
        /\ IF code = "CONTINUE" /\ Top.kind = "back"
             THEN Calls("block", Block("inner", height))
             ELSE Calls("condition", Expr)
     \/ code \in {"RETURN", "THROW"} /\ Returns(code)
  /\ UNCHANGED <<height, exception>>

-----------------------------------------------------------------------------
(* try ... catch ... else ... finally.                                     *)

Try ==
  /\ In("try", "start") /\ code = "run"
  /\ Calls("try", Block("inner", height))
  /\ UNCHANGED <<height, exception>>

TryThrew ==
  /\ In("try", "try") /\ code = "THROW"
  /\ exception' = IF exception = Nil THEN Error ELSE exception
  /\ GoesOn("catch")
  /\ UNCHANGED height

(* The condition of a catch is called with this and the exception object.  *)
Condition ==
  /\ In("try", "catch") /\ code = "run"
  /\ height <= MaxHeight             \* bound: the catches of a try
  /\ Calls("condition", Plain("condition"))
  /\ UNCHANGED <<height, exception>>

(* One that is false or does not end with NEXTSTEP: the next catch.        *)
ConditionFails ==
  /\ In("try", "condition") /\ code # "run"
  /\ height' = IF code = "NEXTSTEP" THEN height - 1 ELSE height
  /\ GoesOn("catch")
  /\ UNCHANGED exception

ExceptionKept == exception

ExceptionInHandler == Nil

Handle ==
  /\ \/ In("try", "catch") /\ code = "run" /\ UNCHANGED height     \* no condition
     \/ In("try", "condition") /\ code = "NEXTSTEP" /\ height' = height - 1
  /\ exception' = ExceptionInHandler
  /\ ctrl' = Below \o <<[Top EXCEPT !.at = "handler"],
                        Record("method", "body", "catch", height'), Block("catch", height')>>
  /\ code' = "run"

Unhandled ==
  /\ In("try", "catch") /\ code = "run"
  /\ Returns("THROW")
  /\ UNCHANGED <<height, exception>>

(* No exception: else, then finally; a handled one: finally.  Any other    *)
(* end of the part before skips them.                                      *)
TryElse ==
  /\ In("try", "try") /\ code = "NEXTSTEP"
  /\ Calls("else", Block("catch", height))
  /\ UNCHANGED <<height, exception>>

TryFinally ==
  /\ In("try", "try") \/ In("try", "handler") \/ In("try", "else")
  /\ code = "NEXTSTEP"
  /\ Calls("finally", Block("catch", height))
  /\ UNCHANGED <<height, exception>>

TryEnds ==
  /\ \/ In("try", "handler") \/ In("try", "else") \/ In("try", "finally")
     \/ In("try", "try") /\ code # "THROW"
  /\ code # "run"
  /\ Returns(code)
  /\ UNCHANGED <<height, exception>>

-----------------------------------------------------------------------------
(* mk_vm_run calls mk_main and takes its result off the stack.             *)
Init ==
  /\ ctrl = <<Record("main", "run", "none", 0), Record("method", "body", "root", 0), Block("root", 0)>>
  /\ code = "run"
  /\ height = 0
  /\ exception = Nil

MainEnds ==
  /\ In("main", "run") /\ code # "run"
  /\ height' = IF code = "NEXTSTEP" THEN height - 1 ELSE height
  /\ Returns(code)
  /\ UNCHANGED exception

Ended == ctrl = <<>> /\ UNCHANGED vars

Evaluate ==
  \/ TooDeep \/ Leaf \/ LeafFails
  \/ BeginOperation \/ OperationLeft \/ OperationRight \/ OperationFails
  \/ BeginCall \/ BeginCallOn \/ CallReceiver \/ CallArgument \/ CallArgumentFails
  \/ Call \/ MethodReturns \/ EachNext \/ CallbackEnds
  \/ BeginNew \/ NewMember \/ NewFails \/ NewInitialize
  \/ BeginArray \/ ArrayElement \/ ArrayEnds

Execute ==
  \/ BlockStatement \/ BlockEnds \/ BlockLeft \/ Stmt \/ StmtEnds
  \/ If \/ IfCondition \/ IfEnds \/ While \/ WhileCondition \/ WhileBlock
  \/ Try \/ TryThrew \/ Condition \/ ConditionFails \/ Handle \/ Unhandled
  \/ TryElse \/ TryFinally \/ TryEnds

Next == Evaluate \/ Execute \/ MainEnds \/ Ended

Spec == Init /\ [][Next]_vars

-----------------------------------------------------------------------------
(***************************************************************************)
(* What the evaluator must keep.                                           *)
(***************************************************************************)
(* The operands of its own a call has on the stack when what it called     *)
(* comes back with NEXTSTEP.                                               *)
Operands(r) ==
  CASE r.op = "operation" -> IF r.at = "left" THEN 1 ELSE 2
    [] r.op = "call"      -> r.n + 1
    [] r.op \in {"main", "stmt", "array", "new", "callback"} -> 1
    [] r.op = "method"    -> IF r.kind = "catch" THEN 0 ELSE 1
    [] r.op \in {"if", "while", "try"} -> IF r.at = "condition" THEN 1 ELSE 0
    [] OTHER              -> 0

(* Every evaluation leaves exactly what its caller will take off the local *)
(* stack: one operand for an expression or a "return", none for a          *)
(* statement, however it ended.                                            *)
Balanced ==
  ctrl # <<>> =>
    /\ code = "NEXTSTEP" => height = Top.base + Operands(Top)
    /\ code = "RETURN" => height = Top.base + 1
    /\ code \in {"BREAK", "CONTINUE"} => height = Top.base

(* The evaluator never takes off the stack what a caller put there.        *)
NoUnderflow == \A i \in 1 .. Len(ctrl) : height >= ctrl[i].base

(* break, continue and return do not cross a call: they end a loop or a    *)
(* method body before any expression gets to see them.                     *)
JumpsStayInside ==
  ctrl # <<>> /\ code \in {"RETURN", "BREAK", "CONTINUE"} =>
    /\ Top.op \in {"block", "stmt", "if", "while", "try", "method"}
    /\ Top.op = "method" /\ code # "RETURN" => Top.kind = "catch"
    /\ Top.op \in {"if", "while", "try"} => Top.at # "condition"

(* No exception is lost: while there is an exception object, it is on its  *)
(* way up or a catch is being sought for it.                               *)
NoExceptionLost ==
  exception # Nil =>
    \/ code = "THROW"
    \/ \E i \in 1 .. Len(ctrl) : ctrl[i].op = "try" /\ ctrl[i].at \in {"catch", "condition"}
=============================================================================
