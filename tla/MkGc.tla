-------------------------------- MODULE MkGc --------------------------------
(***************************************************************************)
(* The heap of a running script and its collector (mk_gc.c).               *)
(*                                                                         *)
(* The evaluator (vm.c and the native methods it calls) creates items,     *)
(* hash tables, vectors and frames and links them; an operation here is    *)
(* what one evaluator function does to them between two points at which a  *)
(* collection can run.  A collection runs only at the start of a statement *)
(* of a block (vm.c:957), so the operands of the expressions that wait for *)
(* a call to return are on the local stack, or only in C variables of the  *)
(* evaluator: "native" is that C stack.                                    *)
(*                                                                         *)
(* The collector is a recursion of four functions; "todo" is what is left  *)
(* to do of it, the next call first.                                       *)
(*                                                                         *)
(* Object n of a kind is slot n of its managed tables (ManagedTable.tla);  *)
(* 0 stands for NULL and for a direct value, neither of which is followed. *)
(* The script has one class, whose superclass is Object, with one member,  *)
(* and one name for local variables: all are called "x".                   *)
(***************************************************************************)
EXTENDS Integers, Sequences, FiniteSets

CONSTANTS MaxItems, MaxHashes, MaxVectors, MaxFrames,  \* bounds: slots
          MaxStack,    \* bound: operands on the local stack
          MaxNative,   \* bound: nesting of the evaluator's C calls
          MaxLength,   \* bound: elements of a vector
          Features     \* the groups of operations the script uses

ASSUME MkGcAssumption ==
  /\ MaxItems \in Nat \ {0} /\ MaxHashes \in Nat \ {0, 1} /\ MaxFrames \in Nat \ {0}
  /\ MaxVectors \in Nat /\ MaxStack \in Nat /\ MaxNative \in Nat /\ MaxLength \in Nat
  /\ Features \subseteq {"value", "local", "this", "member", "memberref", "static", "assign", "node", "array",
                         "super", "call", "invoke", "localcall", "new", "raise", "conditioncall",
                         "noresult"}

Null   == 0
Absent == -1             \* a hash table has no entry for the key
KeyOrder == <<"super", "x", "Kernel">>   \* the order of an enumeration
Keys == {KeyOrder[i] : i \in 1 .. Len(KeyOrder)}

Kinds == {"item", "hash", "vector", "frame"}
Slots(k) == CASE k = "item"   -> 1 .. MaxItems
              [] k = "hash"   -> 1 .. MaxHashes
              [] k = "vector" -> 1 .. MaxVectors
              [] k = "frame"  -> 1 .. MaxFrames
Objects == UNION {{<<k, n>> : n \in Slots(k)} : k \in Kinds}
Or0(k) == Slots(k) \cup {Null}

VARIABLES item,    \* type and the pointers of that type
          hash,    \* key to item
          vector,  \* sequence of items
          frame,   \* last, this, locals, owner, previous
          bits,    \* the flags of each object
          stack,   \* vm->localStack
          cur,     \* vm->pCurrentFrame
          native,  \* the evaluator's C stack, as far as it holds pointers
          exception, \* vm->exceptionObject
          gc,      \* "off" or "scan"
          todo     \* what the scan still has to do
vars == <<item, hash, vector, frame, bits, stack, cur, native, exception, gc, todo>>
heap == <<item, hash, vector, frame, bits>>

ItemTypes == {"none", "value", "class", "array", "node", "ref", "refarray"}

TypeOK ==
  /\ item \in [Slots("item") -> [type : ItemTypes, hash : Or0("hash"), item : Or0("item"),
                                 vector : Or0("vector"), frame : Or0("frame"), at : 0 .. MaxLength]]
  /\ hash \in [Slots("hash") -> [Keys -> Or0("item") \cup {Absent}]]
  /\ vector \in [Slots("vector") -> Seq(Or0("item"))]
  /\ frame \in [Slots("frame") -> [last : Or0("item"), hasLast : BOOLEAN, this : Or0("item"),
                 locals : Or0("hash"), owner : Or0("frame"), previous : Or0("frame")]]
  /\ bits \in [Objects -> SUBSET {"USE", "GC", "CN"}]
  /\ stack \in Seq(Or0("item"))
  /\ cur \in Slots("frame")
  /\ native # <<>>
  /\ \A i \in 1 .. Len(native) :
       /\ native[i].op \in {"body", "handler", "catch", "condition", "args", "invoke", "assign", "array", "init"}
       /\ native[i].base \in 0 .. MaxStack
  /\ exception \in Or0("item")
  /\ gc \in {"off", "scan"}

-----------------------------------------------------------------------------
InUse(o) == "USE" \in bits[o]

(* The allocators give some free slot; here the lowest.                    *)
Fresh(k, n) == n \in Slots(k) /\ ~InUse(<<k, n>>) /\ \A m \in 1 .. n - 1 : InUse(<<k, m>>)

Allocated(objects) == [o \in Objects |-> IF o \in objects THEN {"USE", "CN"} ELSE bits[o]]

NoItem == [type |-> "none", hash |-> Null, item |-> Null, vector |-> Null,
           frame |-> Null, at |-> 0]
Value            == [NoItem EXCEPT !.type = "value"]
Class(h, child)  == [NoItem EXCEPT !.type = "class", !.hash = h, !.item = child]
Array(v)         == [NoItem EXCEPT !.type = "array", !.vector = v]
Node(f, owner)   == [NoItem EXCEPT !.type = "node", !.frame = f, !.item = owner]
Ref(h)           == [NoItem EXCEPT !.type = "ref", !.hash = h]
RefArray(v, i)   == [NoItem EXCEPT !.type = "refarray", !.vector = v, !.at = i]
NoEntries        == [k \in Keys |-> Absent]

Top == native[Len(native)]
Operands == Len(stack) - Top.base      \* of the expression being evaluated
Operand(i) == stack[Len(stack) - i]    \* mk_vm_get_at_stack
Popped(n) == SubSeq(stack, 1, Len(stack) - n)

Running == gc = "off"
Uses(f) == Running /\ f \in Features
(* An operand is evaluated next: the first of an expression, the argument  *)
(* of a call after its receiver, the right of "=" after the left.          *)
Awaited == Operands = (IF Top.op \in {"args", "invoke", "assign"} THEN 1 ELSE 0)
(* One has been, and an operator or a call may take it.                    *)
Evaluated == Top.op # "catch" /\ Operands = (IF Top.op \in {"args", "invoke", "assign"} THEN 2 ELSE 1)
CanPush == Awaited /\ Len(stack) < MaxStack       \* bound
CanNest == Len(native) < MaxNative     \* bound
Entered(op, base, obj) == Append(native, [op |-> op, base |-> base, obj |-> obj])
Body(base) == [op |-> "body", base |-> base, obj |-> Null]
Handler(base) == [Body(base) EXCEPT !.op = "handler"]
Catch(base) == [Body(base) EXCEPT !.op = "catch"]
Condition(base) == [Body(base) EXCEPT !.op = "condition"]
InBody == Running /\ Top.op \in {"body", "handler"}
Left == SubSeq(native, 1, Len(native) - 1)

NewItem(i, record) ==
  /\ Fresh("item", i)
  /\ item' = [item EXCEPT ![i] = record]
  /\ bits' = Allocated({<<"item", i>>})

Global == 1       \* the hash table vm->global
Static == 1       \* the item of the static instance of Kernel

-----------------------------------------------------------------------------
(* Expressions that push one operand.                                      *)

PushValue ==        \* a constant that needs an item: string, float, large int
  /\ Uses("value") /\ CanPush
  /\ \E i \in Slots("item") : NewItem(i, Value) /\ stack' = Append(stack, i)
  /\ UNCHANGED <<hash, vector, frame, cur, native, exception, gc, todo>>

PushThis ==
  /\ Uses("this") /\ CanPush
  /\ stack' = Append(stack, frame[cur].this)
  /\ UNCHANGED <<heap, cur, native, exception, gc, todo>>

IsClass(i) == i # Null /\ item[i].type = "class"

(* "super", of this or of the operand before it: the superclass part, as   *)
(* an operand and, in super(...), as the receiver of a call.               *)
SuperOf(i) == hash[item[i].hash]["super"]

PushSuper ==
  /\ Uses("super")
  /\ \/ /\ CanPush /\ IsClass(frame[cur].this) /\ SuperOf(frame[cur].this) > Null
        /\ stack' = Append(stack, SuperOf(frame[cur].this))
     \/ /\ Evaluated /\ IsClass(Operand(0)) /\ SuperOf(Operand(0)) > Null
        /\ stack' = Append(Popped(1), SuperOf(Operand(0)))
  /\ UNCHANGED <<heap, cur, native, exception, gc, todo>>

(* The local variables a name is looked up in: the frame's, else those of  *)
(* the frame the block was defined in.                                     *)
Defines(h, k) == h # Null /\ hash[h][k] # Absent
OwnerLocals == IF frame[cur].owner = Null THEN Null ELSE frame[frame[cur].owner].locals
ScopeOf(k) == IF Defines(frame[cur].locals, k) THEN frame[cur].locals
              ELSE IF Defines(OwnerLocals, k) THEN OwnerLocals
              ELSE Null

(* A name that is not found is declared in the current frame; its hash     *)
(* table is made when the first one is.                                    *)
DeclaredIn(h, k) ==
  IF frame[cur].locals # Null
    THEN h = frame[cur].locals /\ UNCHANGED frame
    ELSE Fresh("hash", h) /\ frame' = [frame EXCEPT ![cur].locals = h]

PushLocal(k) ==
  /\ Uses("local") /\ CanPush
  /\ \/ /\ ScopeOf(k) # Null
        /\ stack' = Append(stack, hash[ScopeOf(k)][k])
        /\ UNCHANGED heap
     \/ /\ ScopeOf(k) = Null
        /\ \E h \in Slots("hash") :
             /\ DeclaredIn(h, k)
             /\ hash' = [hash EXCEPT ![h][k] = Null]
             /\ bits' = IF h = frame[cur].locals THEN bits ELSE Allocated({<<"hash", h>>})
        /\ stack' = Append(stack, Null)
        /\ UNCHANGED <<item, vector>>
  /\ UNCHANGED <<cur, native, exception, gc, todo>>

(* The left of "=" is evaluated to a reference: a hash table and a name.   *)
PushLocalRef(k) ==
  /\ Uses("local") /\ Uses("assign") /\ CanPush /\ CanNest
  /\ \E i \in Slots("item") :
       /\ Fresh("item", i)
       /\ \/ /\ ScopeOf(k) # Null
             /\ NewItem(i, Ref(ScopeOf(k)))
             /\ UNCHANGED <<hash, frame>>
          \/ /\ ScopeOf(k) = Null
             /\ \E h \in Slots("hash") :
                  /\ DeclaredIn(h, k)
                  /\ hash' = [hash EXCEPT ![h][k] = Null]
                  /\ item' = [item EXCEPT ![i] = Ref(h)]
                  /\ bits' = Allocated({<<"item", i>>} \cup
                               (IF h = frame[cur].locals THEN {} ELSE {<<"hash", h>>}))
       /\ stack' = Append(stack, i)
  /\ native' = Entered("assign", Len(stack), Null)
  /\ UNCHANGED <<vector, cur, exception, gc, todo>>

(* The hash table a member is found in: the object's own, else its         *)
(* superclass part's.  @x is a member of an instance, @@x of the static    *)
(* instance.                                                               *)
MemberIn(k, h) ==
  LET this == frame[cur].this IN
  /\ IsClass(this)
  /\ \/ h = item[this].hash
     \/ /\ ~Defines(item[this].hash, k)
        /\ hash[item[this].hash]["super"] > Null
        /\ h = item[hash[item[this].hash]["super"]].hash
  /\ Defines(h, k)

PushMember(k) ==
  /\ Uses(IF frame[cur].this = Static THEN "static" ELSE "member") /\ CanPush
  /\ \E h \in Slots("hash") : MemberIn(k, h) /\ stack' = Append(stack, hash[h][k])
  /\ UNCHANGED <<heap, cur, native, exception, gc, todo>>

PushMemberRef(k) ==
  /\ Uses(IF frame[cur].this = Static THEN "static" ELSE "memberref") /\ CanPush /\ CanNest
  /\ \E h \in Slots("hash"), i \in Slots("item") :
       MemberIn(k, h) /\ NewItem(i, Ref(h)) /\ stack' = Append(stack, i)
  /\ native' = Entered("assign", Len(stack), Null)
  /\ UNCHANGED <<hash, vector, frame, cur, exception, gc, todo>>

PushNode ==         \* a block or an expression with parameters
  /\ Uses("node") /\ CanPush
  /\ \E i \in Slots("item") :
       NewItem(i, Node(cur, frame[cur].this)) /\ stack' = Append(stack, i)
  /\ UNCHANGED <<hash, vector, frame, cur, native, exception, gc, todo>>

(* target = value: the reference stays on the stack as the result.         *)
Assign ==
  /\ Running /\ Top.op = "assign" /\ Operands = 2
  /\ LET target == item[Operand(1)]  right == Operand(0) IN
       \/ /\ target.type = "ref"
          /\ hash' = [hash EXCEPT ![target.hash]["x"] = right]
          /\ UNCHANGED vector
       \/ /\ target.type = "refarray"
          /\ target.at \in DOMAIN vector[target.vector]
          /\ vector' = [vector EXCEPT ![target.vector][target.at] = right]
          /\ UNCHANGED hash
  /\ stack' = Popped(1)
  /\ native' = Left
  /\ UNCHANGED <<item, frame, bits, cur, exception, gc, todo>>

-----------------------------------------------------------------------------
(* Array literals: the vector and the elements taken off the stack are     *)
(* known to the C function only, until the item is made.                   *)

ArrayBegin ==
  /\ Uses("array") /\ CanNest /\ Awaited
  /\ \E v \in Slots("vector") :
       /\ Fresh("vector", v)
       /\ vector' = [vector EXCEPT ![v] = <<>>]
       /\ bits' = Allocated({<<"vector", v>>})
       /\ native' = Entered("array", Len(stack), v)
  /\ UNCHANGED <<item, hash, frame, stack, cur, exception, gc, todo>>

ArrayElement ==
  /\ Running /\ Top.op = "array" /\ Operands = 1
  /\ Len(vector[Top.obj]) < MaxLength          \* bound
  /\ vector' = [vector EXCEPT ![Top.obj] = Append(@, Operand(0))]
  /\ stack' = Popped(1)
  /\ UNCHANGED <<item, hash, frame, bits, cur, native, exception, gc, todo>>

ArrayEnd ==
  /\ Running /\ Top.op = "array" /\ Operands = 0 /\ CanPush
  /\ \E i \in Slots("item") : NewItem(i, Array(Top.obj)) /\ stack' = Append(stack, i)
  /\ native' = Left
  /\ UNCHANGED <<hash, vector, frame, cur, exception, gc, todo>>

(* array[i] and, on the left of "=", the reference to the element.         *)
PushElement(n) ==
  /\ Uses("array") /\ Evaluated /\ Operand(0) # Null
  /\ item[Operand(0)].type = "array"
  /\ n \in DOMAIN vector[item[Operand(0)].vector]
  /\ stack' = Append(Popped(1), vector[item[Operand(0)].vector][n])
  /\ UNCHANGED <<heap, cur, native, exception, gc, todo>>

PushElementRef(n) ==
  /\ Uses("array") /\ Uses("assign") /\ CanNest /\ Evaluated /\ Operand(0) # Null
  /\ item[Operand(0)].type = "array"
  /\ n \in DOMAIN vector[item[Operand(0)].vector]
  /\ \E i \in Slots("item") :
       /\ NewItem(i, RefArray(item[Operand(0)].vector, n))
       /\ stack' = Append(Popped(1), i)
  /\ native' = Entered("assign", Len(stack) - 1, Null)
  /\ UNCHANGED <<hash, vector, frame, cur, exception, gc, todo>>

-----------------------------------------------------------------------------
(* Calls.  The receiver is pushed, then the arguments are evaluated, then  *)
(* the frame is made.                                                      *)

BeginCall ==        \* a method of the operand: no frame is its owner frame
  /\ Uses("call") \/ (Uses("conditioncall") /\ Top.op = "condition")
  /\ CanNest /\ Evaluated
  /\ native' = Entered("args", Len(stack) - 1, Null)
  /\ UNCHANGED <<heap, stack, cur, exception, gc, todo>>

(* name(...) where the variable holds a node: its frame is read now and    *)
(* used after the arguments are evaluated.                                 *)
BeginLocalCall(k) ==
  /\ Uses("localcall") /\ CanNest /\ CanPush
  /\ ScopeOf(k) # Null
  /\ LET i == hash[ScopeOf(k)][k] IN
       /\ i # Null /\ item[i].type = "node"
       /\ stack' = Append(stack, item[i].item)
       /\ native' = Entered("args", Len(stack), item[i].frame)
  /\ UNCHANGED <<heap, cur, exception, gc, todo>>

(* The parts of a frame that mk_mk_method_call sets.  It leaves "last"     *)
(* what the slot held before; hasLast is not in the code, it tells whether *)
(* this frame has set it.                                                  *)
NewFrameWithoutPrevious(f, this, locals, owner, previous) ==
  [frame[f] EXCEPT !.hasLast = FALSE, !.this = this, !.locals = locals,
                   !.owner = owner, !.previous = Null]

NewFrame(f, this, locals, owner, previous) ==
  [frame[f] EXCEPT !.hasLast = FALSE, !.this = this, !.locals = locals,
                   !.owner = owner, !.previous = previous]

EnterFrame(f, receiver, args, owner, previous) ==
  /\ Fresh("frame", f)
  /\ \/ /\ args = <<>>
        /\ frame' = [frame EXCEPT ![f] = NewFrame(f, receiver, Null, owner, previous)]
        /\ bits' = Allocated({<<"frame", f>>})
        /\ UNCHANGED hash
     \/ /\ args # <<>>
        /\ \E h \in Slots("hash") :
             /\ Fresh("hash", h)
             /\ hash' = [hash EXCEPT ![h] = [NoEntries EXCEPT !["x"] = args[1]]]
             /\ frame' = [frame EXCEPT ![f] = NewFrame(f, receiver, h, owner, previous)]
             /\ bits' = Allocated({<<"frame", f>>, <<"hash", h>>})
  /\ cur' = f

EnterMethod ==
  /\ Running /\ Top.op = "args" /\ Operands \in {1, 2}
  /\ LET args == SubSeq(stack, Top.base + 2, Len(stack)) IN
       \E f \in Slots("frame") : EnterFrame(f, stack[Top.base + 1], args, Top.obj, cur)
  /\ stack' = SubSeq(stack, 1, Top.base)
  /\ native' = Append(Left, Body(Top.base))
  /\ UNCHANGED <<item, vector, exception, gc, todo>>

(* node.invoke(...): once the arguments are evaluated the node is taken    *)
(* off the stack; its owner (else the caller's this) becomes the receiver, *)
(* its frame the owner frame.                                              *)
BeginInvoke ==
  /\ Uses("invoke") /\ CanNest /\ Evaluated /\ Operand(0) # Null
  /\ item[Operand(0)].type = "node"
  /\ native' = Entered("invoke", Len(stack) - 1, Null)
  /\ UNCHANGED <<heap, stack, cur, exception, gc, todo>>

Invoke ==
  /\ Running /\ Top.op = "invoke" /\ Operands \in {1, 2}
  /\ LET node == item[stack[Top.base + 1]]
         args == SubSeq(stack, Top.base + 2, Len(stack))
         receiver == IF node.item = Null THEN frame[cur].this ELSE node.item IN
       \E f \in Slots("frame") : EnterFrame(f, receiver, args, node.frame, cur)
  /\ stack' = SubSeq(stack, 1, Top.base)
  /\ native' = Append(Left, Body(Top.base))
  /\ UNCHANGED <<item, vector, exception, gc, todo>>

(* The value of the statement goes to the frame's last result.             *)
Drop ==
  /\ InBody /\ Operands = 1
  /\ frame' = [frame EXCEPT ![cur].last = Operand(0), ![cur].hasLast = TRUE]
  /\ stack' = Popped(1)
  /\ UNCHANGED <<item, hash, vector, bits, cur, native, exception, gc, todo>>

(* return value, or the last statement's value at the end of the body; a   *)
(* condition is an expression and has no statements.  Of a body that is    *)
(* empty, or has nothing but if, while and try, it is the last result of   *)
(* whoever had the frame's slot before: nothing else has been written      *)
(* there.  A script makes use of that only with "noresult".                *)
Return ==
  /\ Running /\ Top.op \in {"body", "condition"} /\ Len(native) > 1
  /\ \/ Operands = 1 /\ UNCHANGED stack
     \/ /\ Top.op = "body" /\ Operands = 0 /\ CanPush
        /\ frame[cur].hasLast \/ Uses("noresult")
        /\ stack' = Append(stack, frame[cur].last)
  /\ cur' = frame[cur].previous
  /\ native' = Left
  /\ UNCHANGED <<heap, exception, gc, todo>>

(* Where such a call is a whole statement its value becomes the caller's   *)
(* last result, which the caller thereby has not set either.               *)
ReturnNothing ==
  /\ Running /\ Top.op = "body" /\ Len(native) > 1
  /\ Operands = 0 /\ ~frame[cur].hasLast
  /\ native[Len(native) - 1].op \in {"body", "handler"}
  /\ native[Len(native) - 1].base = Top.base
  /\ frame' = [frame EXCEPT ![frame[cur].previous].last = frame[cur].last,
                            ![frame[cur].previous].hasLast = FALSE]
  /\ cur' = frame[cur].previous
  /\ native' = Left
  /\ UNCHANGED <<item, hash, vector, bits, stack, exception, gc, todo>>

-----------------------------------------------------------------------------
(* Class.new: one item and one hash table for each class of the hierarchy, *)
(* the most derived first; each gets a frame in which the initial values   *)
(* of its members are evaluated.  Obj is the item of the derived class.    *)

InitFrame(f, this, previous) == NewFrame(f, this, Null, Null, previous)

NewDerived ==
  /\ Uses("new") /\ CanNest /\ Awaited
  /\ \E i \in Slots("item"), h \in Slots("hash"), f \in Slots("frame") :
       /\ Fresh("item", i) /\ Fresh("hash", h) /\ Fresh("frame", f)
       /\ item' = [item EXCEPT ![i] = Class(h, Null)]
       /\ hash' = [hash EXCEPT ![h] = [NoEntries EXCEPT !["super"] = Null]]
       /\ frame' = [frame EXCEPT ![f] = InitFrame(f, i, cur)]
       /\ bits' = Allocated({<<"item", i>>, <<"hash", h>>, <<"frame", f>>})
       /\ cur' = f
       /\ native' = Entered("init", Len(stack), i)
  /\ UNCHANGED <<vector, stack, exception, gc, todo>>

(* The initial value of the member is stored, the next class is Object: it *)
(* has no superclass and no members.  Its frame comes and goes.            *)
NewBase ==
  /\ Running /\ Top.op = "init" /\ Operands = 1
  /\ \E i \in Slots("item"), h \in Slots("hash") :
       /\ Fresh("item", i) /\ Fresh("hash", h)
       /\ item' = [item EXCEPT ![i] = Class(h, Top.obj)]
       /\ hash' = [hash EXCEPT ![item[Top.obj].hash]["x"] = Operand(0),
                               ![item[Top.obj].hash]["super"] = i,
                               ![h] = NoEntries]
       /\ \E f \in Slots("frame") :
            /\ Fresh("frame", f)
            /\ frame' = [frame EXCEPT ![f] = InitFrame(f, i, frame[cur].previous)]
            /\ bits' = Allocated({<<"item", i>>, <<"hash", h>>, <<"frame", f>>})
  /\ stack' = Append(Popped(1), Top.obj)
  /\ cur' = frame[cur].previous
  /\ native' = Left
  /\ UNCHANGED <<vector, exception, gc, todo>>

-----------------------------------------------------------------------------
(* raise and catch.  An exception leaves the calls up to that of a body    *)
(* with a try block.  A condition is called with the exception, which      *)
(* exceptionObject goes on holding; a handler is given the only copy.      *)

Raised(j, e) ==
  LET inner == {k \in j + 1 .. Len(native) : native[k].op \in {"body", "handler", "condition", "init"}}
      up[n \in 0 .. Len(native)] == IF n = 0 THEN cur ELSE frame[up[n - 1]].previous
      catcher == up[Cardinality(inner)]
      base    == native[j].base
  IN /\ native[j].op \in {"body", "handler"}
     /\ \E f \in Slots("frame") : EnterFrame(f, frame[catcher].this, <<e>>, catcher, catcher)
     /\ exception' = e
     /\ stack' = SubSeq(stack, 1, base)
     /\ native' = SubSeq(native, 1, j) \o <<Catch(base), Condition(base)>>
     /\ UNCHANGED <<item, vector, gc, todo>>

Raise ==
  /\ Uses("raise") /\ InBody /\ Operands = 1
  /\ Len(native) + 2 <= MaxNative                \* bound
  /\ \E j \in 1 .. Len(native) : Raised(j, Operand(0))

(* The next catch, of this try block or of one further out.                *)
ConditionFalse ==
  /\ Running /\ Top.op = "catch" /\ Operands = 1
  /\ \E j \in 1 .. Len(native) : Raised(j, exception)

Handle ==
  /\ Running /\ Top.op = "catch" /\ Operands = 1
  /\ \E f \in Slots("frame") : EnterFrame(f, frame[cur].this, <<exception>>, cur, cur)
  /\ exception' = Null
  /\ stack' = Popped(1)
  /\ native' = Append(Left, Handler(Top.base))
  /\ UNCHANGED <<item, vector, gc, todo>>

HandlerEnds ==
  /\ Running /\ Top.op = "handler" /\ Operands = 0
  /\ cur' = frame[cur].previous
  /\ native' = Left
  /\ UNCHANGED <<heap, stack, exception, gc, todo>>

-----------------------------------------------------------------------------
(* The collector.                                                          *)

Call(k, n, top) == [kind |-> k, n |-> n, top |-> top]
Object(c) == <<IF c.kind = "done" THEN "item" ELSE c.kind, c.n>>
Marked(c) == "GC" \in bits[Object(c)]

(* A call on NULL, a direct value or a marked object returns at once; the  *)
(* scan of a marked frame still goes on to the previous ones.              *)
Follows(c) == c.n > Null /\ (~Marked(c) \/ c.kind = "frame")

Followed(calls) ==
  LET upTo[n \in 0 .. Len(calls)] ==
        IF n = 0 THEN <<>>
        ELSE IF Follows(calls[n]) THEN Append(upTo[n - 1], calls[n])
        ELSE upTo[n - 1]
  IN upTo[Len(calls)]

(* A collection may start at each statement; the count of statements that  *)
(* decides when (GC_EXECUTE_TIME_PER_CALL) is left open.                   *)
RootsWithoutException == [i \in 1 .. Len(stack) |-> Call("item", stack[i], FALSE)]
                         \o <<Call("hash", Global, TRUE), Call("frame", cur, FALSE)>>

Roots == [i \in 1 .. Len(stack) |-> Call("item", stack[i], FALSE)]
         \o <<Call("item", exception, FALSE), Call("hash", Global, TRUE),
              Call("frame", cur, FALSE)>>

StartCollection ==
  /\ InBody /\ Operands = 0
  /\ gc' = "scan"
  /\ todo' = Followed(Roots)
  /\ UNCHANGED <<heap, stack, cur, native, exception>>

(* mk_gc_get_vm_frame_item_top: the most derived part of an object.        *)
TopOf(i) ==
  LET top[n \in Slots("item")] ==
        IF item[n].type = "class" /\ item[n].item # Null THEN top[item[n].item] ELSE n
  IN IF i > Null THEN top[i] ELSE i

ScanItemWithoutChild(i) ==
  CASE item[i].type = "class"    -> <<Call("hash", item[i].hash, FALSE)>>
    [] item[i].type = "array"    -> <<Call("vector", item[i].vector, TRUE)>>
    [] item[i].type = "node"     -> <<Call("frame", item[i].frame, FALSE),
                                      Call("item", item[i].item, FALSE)>>
    [] item[i].type = "ref"      -> <<Call("hash", item[i].hash, TRUE)>>
    [] item[i].type = "refarray" -> <<Call("vector", item[i].vector, TRUE)>>
    [] OTHER                     -> <<>>

ScanItem(i) ==
  CASE item[i].type = "class"    -> <<Call("hash", item[i].hash, FALSE),
                                      Call("item", item[i].item, FALSE)>>
    [] item[i].type = "array"    -> <<Call("vector", item[i].vector, TRUE)>>
    [] item[i].type = "node"     -> <<Call("frame", item[i].frame, FALSE),
                                      Call("item", item[i].item, FALSE)>>
    [] item[i].type = "ref"      -> <<Call("hash", item[i].hash, TRUE)>>
    [] item[i].type = "refarray" -> <<Call("vector", item[i].vector, TRUE)>>
    [] OTHER                     -> <<>>

ScanHash(h, top) ==
  [k \in 1 .. Len(KeyOrder) |->
     Call("item", IF top THEN TopOf(hash[h][KeyOrder[k]]) ELSE hash[h][KeyOrder[k]], FALSE)]

ScanVector(v) == [k \in 1 .. Len(vector[v]) |-> Call("item", TopOf(vector[v][k]), FALSE)]

ScanFrameWithoutOwner(f) ==
  <<Call("item", frame[f].last, FALSE), Call("item", frame[f].this, FALSE),
    Call("hash", frame[f].locals, TRUE)>>

ScanFrame(f) == <<Call("item", frame[f].last, FALSE), Call("item", frame[f].this, FALSE),
                  Call("hash", frame[f].locals, TRUE), Call("frame", frame[f].owner, FALSE)>>

Scanned(c) == CASE c.kind = "item"   -> ScanItem(c.n)
                [] c.kind = "hash"   -> ScanHash(c.n, c.top)
                [] c.kind = "vector" -> ScanVector(c.n)
                [] c.kind = "frame"  -> ScanFrame(c.n)
                [] c.kind = "done"   -> <<>>

(* A hash table, a vector and a frame set their bit and then scan, an item *)
(* sets it when its scan is done.  The scan of a frame goes on with the    *)
(* previous frames, marked or not.                                         *)
MarkLater(c, calls) ==
  IF c.kind = "item" /\ calls # <<>> THEN <<Call("done", c.n, FALSE)>> ELSE <<>>

AndTheSameAgain(c) == IF c.kind = "frame" THEN <<c>> ELSE <<>>

AndPrevious(c) ==
  IF c.kind = "frame" THEN Followed(<<Call("frame", frame[c.n].previous, FALSE)>>) ELSE <<>>

Scan ==
  /\ gc = "scan" /\ todo # <<>>
  /\ LET c     == Head(todo)
         calls == IF Marked(c) THEN <<>> ELSE Followed(Scanned(c))
     IN /\ todo' = calls \o MarkLater(c, calls) \o AndPrevious(c) \o Tail(todo)
        /\ bits' = [bits EXCEPT ![Object(c)] =
                      IF MarkLater(c, calls) = <<>> THEN @ \cup {"GC"} ELSE @]
  /\ UNCHANGED <<item, hash, vector, frame, stack, cur, native, exception, gc>>

GarbageButFrames == {o \in Objects : bits[o] = {"USE"} /\ o[1] # "frame"}
GarbageButVectors == {o \in Objects : bits[o] = {"USE"} /\ o[1] # "vector"}

Garbage == {o \in Objects : bits[o] = {"USE"}}

(* The flags of what is freed go to 0, with them the type of an item; hash *)
(* tables and vectors are emptied.  A frame's pointers stay in its slot.   *)
Sweep ==
  /\ gc = "scan" /\ todo = <<>>
  /\ bits' = [o \in Objects |-> IF o \in Garbage THEN {}
                                ELSE IF InUse(o) THEN {"USE"} ELSE bits[o]]
  /\ item' = [i \in Slots("item") |-> IF <<"item", i>> \in Garbage THEN NoItem ELSE item[i]]
  /\ hash' = [h \in Slots("hash") |-> IF <<"hash", h>> \in Garbage THEN NoEntries ELSE hash[h]]
  /\ vector' = [v \in Slots("vector") |-> IF <<"vector", v>> \in Garbage THEN <<>> ELSE vector[v]]
  /\ gc' = "off"
  /\ UNCHANGED <<frame, stack, cur, native, exception, todo>>

-----------------------------------------------------------------------------
(* mk_main has been called: its receiver is the static instance of Kernel, *)
(* which is registered in vm->global and has one class variable.           *)
Init ==
  /\ item = [i \in Slots("item") |-> IF i = Static THEN Class(2, Null) ELSE NoItem]
  /\ hash = [h \in Slots("hash") |->
               CASE h = Global -> [NoEntries EXCEPT !["Kernel"] = Static]
                 [] h = 2      -> [NoEntries EXCEPT !["x"] = Null]
                 [] OTHER      -> NoEntries]
  /\ vector = [v \in Slots("vector") |-> <<>>]
  /\ frame = [f \in Slots("frame") |->
                [last |-> Null, hasLast |-> FALSE, this |-> IF f = 1 THEN Static ELSE Null,
                 locals |-> Null, owner |-> Null, previous |-> Null]]
  /\ bits = [o \in Objects |->
               IF o \in {<<"item", Static>>, <<"hash", Global>>, <<"hash", 2>>, <<"frame", 1>>}
               THEN {"USE"} ELSE {}]
  /\ stack = <<>>
  /\ cur = 1
  /\ native = <<Body(0)>>
  /\ exception = Null
  /\ gc = "off"
  /\ todo = <<>>

Next ==
  \/ PushValue \/ PushThis \/ PushSuper \/ PushLocal("x") \/ PushLocalRef("x")
  \/ PushMember("x") \/ PushMemberRef("x") \/ PushNode \/ Assign
  \/ ArrayBegin \/ ArrayElement \/ ArrayEnd
  \/ \E n \in 1 .. MaxLength : PushElement(n) \/ PushElementRef(n)
  \/ BeginCall \/ BeginLocalCall("x") \/ EnterMethod
  \/ BeginInvoke \/ Invoke \/ Drop \/ Return \/ ReturnNothing
  \/ NewDerived \/ NewBase
  \/ Raise \/ ConditionFalse \/ Handle \/ HandlerEnds
  \/ StartCollection \/ Scan \/ Sweep

Spec == Init /\ [][Next]_vars

(* One thread runs all of it: a collection that has begun is carried on.   *)
FairSpec == Spec /\ WF_vars(Scan) /\ WF_vars(Sweep)

-----------------------------------------------------------------------------
(***************************************************************************)
(* What the collector must do.                                             *)
(***************************************************************************)
(* What an object points to.  "any" says whether a last result the frame   *)
(* has not set itself counts.                                              *)
PointsTo(o, any) ==
  LET n == o[2]
      refs == CASE o[1] = "item" ->
                     {<<"hash", item[n].hash>>, <<"item", item[n].item>>,
                      <<"vector", item[n].vector>>, <<"frame", item[n].frame>>}
                [] o[1] = "hash"   -> {<<"item", hash[n][k]>> : k \in Keys}
                [] o[1] = "vector" -> {<<"item", vector[n][k]>> : k \in DOMAIN vector[n]}
                [] o[1] = "frame"  ->
                     {<<"item", frame[n].this>>, <<"hash", frame[n].locals>>,
                      <<"frame", frame[n].owner>>, <<"frame", frame[n].previous>>}
                     \cup (IF any \/ frame[n].hasLast THEN {<<"item", frame[n].last>>} ELSE {})
  IN refs \cap Objects

From(roots, any) ==
  LET reach[n \in 0 .. Cardinality(Objects)] ==
        IF n = 0 THEN roots \cap Objects
        ELSE LET before == reach[n - 1]
             IN before \cup UNION {PointsTo(o, any) : o \in before}
  IN reach[Cardinality(Objects)]

StackRoots == {<<"item", stack[i]>> : i \in 1 .. Len(stack)}
VmRoots == StackRoots \cup {<<"item", exception>>, <<"hash", Global>>, <<"frame", cur>>}
NativeRoots ==
  {<<CASE native[i].op = "array" -> "vector"
       [] native[i].op = "args"  -> "frame"
       [] OTHER                  -> "item", native[i].obj>> : i \in 1 .. Len(native)}

(* No object the program can still get at is ever freed: what is on the    *)
(* stack, in the global table and in the frames, what the evaluator's C    *)
(* functions hold, and everything these lead to, is in use.                *)
ReachableInUse == Running => \A o \in From(VmRoots \cup NativeRoots, FALSE) : InUse(o)

(* A collection leaves no garbage: what remains can be reached from the    *)
(* roots, by way of last results frames have not set at worst, or has been *)
(* created since the collection before.                                    *)
GarbageFreed ==
  [][gc = "scan" /\ gc' = "off" =>
       \A o \in Objects : InUse(o)' => o \in From(VmRoots, TRUE) \/ "CN" \in bits[o]]_vars

(* The recursion ends, whatever cycles the objects form.                   *)
CollectionEnds == gc = "scan" ~> gc = "off"

(* "return last block expr" (vm.c:1007), as of every value a script uses:  *)
(* what a call leaves on the local stack is an item that is in use.        *)
OperandsInUse == Running => \A i \in 1 .. Len(stack) : stack[i] > Null => InUse(<<"item", stack[i]>>)

(* The superclass part of an object lasts as long as the object.           *)
SuperclassPartKept ==
  Running => \A o \in From(VmRoots, FALSE) :
    InUse(o) /\ o[1] = "hash" /\ hash[o[2]]["super"] > Null
      => InUse(<<"item", hash[o[2]]["super"]>>)
=============================================================================
