---------------------------- MODULE MkExprProofs ----------------------------
(***************************************************************************)
(* Proofs about MkExpr, for every set of operators and every priority.     *)
(*                                                                         *)
(* A lemma per action says what the step does to the nodes, the calls and  *)
(* the tokens (SignIs .. RestsIs); StepIs sorts all of them by what they   *)
(* do to the tree, and the invariants are proved over that: TInv (types),  *)
(* OInv (calls are nested in the order of the tokens), EInv (the operators *)
(* that wait are an edge of the tree), HInv (which conditions have a right *)
(* side) and PInv (what is below an operation binds more than it does).    *)
(***************************************************************************)
EXTENDS MkExpr, FiniteSetTheorems, TLAPS

-----------------------------------------------------------------------------
(* Sequences.                                                              *)
LEMMA ElementsAre ==
  ASSUME NEW S, NEW t \in Seq(S)
  PROVE  Len(t) \in Nat /\ DOMAIN t = 1 .. Len(t) /\ \A i \in 1 .. Len(t) : t[i] \in S
OBVIOUS

LEMMA IsSequence ==
  ASSUME NEW S, NEW n \in Nat, NEW t, t = [i \in 1 .. n |-> t[i]], \A i \in 1 .. n : t[i] \in S
  PROVE  t \in Seq(S) /\ Len(t) = n
<1>1. t \in [1 .. n -> S]
  OBVIOUS
<1> QED
  BY <1>1

LEMMA SequenceGrows ==
  ASSUME NEW S, NEW T, S \subseteq T, NEW t \in Seq(S)
  PROVE  t \in Seq(T)
OBVIOUS

LEMMA AppendIs ==
  ASSUME NEW S, NEW t \in Seq(S), NEW e \in S
  PROVE  /\ Append(t, e) \in Seq(S) /\ Len(Append(t, e)) = Len(t) + 1
         /\ Append(t, e)[Len(t) + 1] = e
         /\ \A i \in 1 .. Len(t) : Append(t, e)[i] = t[i]
OBVIOUS

LEMMA ReplaceIs ==
  ASSUME NEW S, NEW t \in Seq(S), NEW e \in S, NEW i \in 1 .. Len(t)
  PROVE  /\ [t EXCEPT ![i] = e] \in Seq(S) /\ Len([t EXCEPT ![i] = e]) = Len(t)
         /\ [t EXCEPT ![i] = e][i] = e
         /\ \A j \in 1 .. Len(t) : j # i => [t EXCEPT ![i] = e][j] = t[j]
OBVIOUS

-----------------------------------------------------------------------------
(* Types.  What a token, a node and a call are when r tokens have been     *)
(* read and k nodes made; more of both only allow more.                    *)
NodeSet(r, k) ==
  [kind : {"operand", "call", "array", "block", "index", "dotted", "operation", "if"},
   at : 1 .. r, by : 0 .. r, before : Seq(1 .. k), after : Seq(1 .. k)]

CallSet(r, k) ==
  [state : States, from : 1 .. r, step : Steps, ops : Seq(1 .. k), current : 0 .. k, dot : 0 .. r,
   parts : Seq(1 .. k), open : 0 .. r, list : Seq(1 .. k), neg : BOOLEAN, bad : BOOLEAN]

LEMMA SetsAre ==
  ASSUME Len(read) \in Nat, Len(nodes) \in Nat
  PROVE  Nodes = NodeSet(Len(read), Len(nodes)) /\ Calls = CallSet(Len(read), Len(nodes))
<1>1. Ids \ {0} = 1 .. Len(nodes)
  BY DEF Ids
<1> QED
  BY <1>1 DEF Nodes, Calls, NodeSet, CallSet, Ids

LEMMA NodesGrow ==
  ASSUME NEW r \in Nat, NEW r2 \in Nat, r <= r2, NEW k \in Nat, NEW k2 \in Nat, k <= k2
  PROVE  NodeSet(r, k) \subseteq NodeSet(r2, k2)
<1>1. Seq(1 .. k) \subseteq Seq(1 .. k2)
  BY SequenceGrows
<1>2. 1 .. r \subseteq 1 .. r2 /\ 0 .. r \subseteq 0 .. r2
  OBVIOUS
<1> QED
  BY <1>1, <1>2 DEF NodeSet

LEMMA CallsGrow ==
  ASSUME NEW r \in Nat, NEW r2 \in Nat, r <= r2, NEW k \in Nat, NEW k2 \in Nat, k <= k2
  PROVE  CallSet(r, k) \subseteq CallSet(r2, k2)
<1>1. Seq(1 .. k) \subseteq Seq(1 .. k2)
  BY SequenceGrows
<1>2. 1 .. r \subseteq 1 .. r2 /\ 0 .. r \subseteq 0 .. r2 /\ 0 .. k \subseteq 0 .. k2
  OBVIOUS
<1> QED
  BY <1>1, <1>2 DEF CallSet

(* What each step of a call has in hand.                                   *)
Held(c) ==
  /\ c.step \in {"inner", "block", "list", "index"} => c.open # 0
  /\ c.step \in {"postfix", "index", "operator"} <=> c.current # 0
  /\ c.dot = 0 <=> c.parts = <<>>
  /\ c.step = "operator" => c.dot = 0

HeldInv == \A d \in 1 .. Len(calls) : Held(calls[d])

TInv == TypeOK /\ HeldInv

(* The call on top, and what replacing it or adding to it leaves.          *)
TopBecomes(c) ==
  /\ Len(calls') = Len(calls) /\ calls'[Len(calls)] = c
  /\ \A d \in 1 .. Len(calls) - 1 : calls'[d] = calls[d]

Pushed(c, state, from) ==
  /\ Len(calls') = Len(calls) + 1 /\ calls'[Len(calls)] = c
  /\ calls'[Len(calls) + 1] = Call(state, from)
  /\ \A d \in 1 .. Len(calls) - 1 : calls'[d] = calls[d]

NodeMade(n) ==
  /\ Len(nodes') = Len(nodes) + 1 /\ nodes'[Len(nodes) + 1] = n
  /\ \A m \in 1 .. Len(nodes) : nodes'[m] = nodes[m]

TokenTaken ==
  /\ Len(read') = Len(read) + 1
  /\ \A p \in 1 .. Len(read) : read'[p] = read[p]

LEMMA StateIs ==
  ASSUME TypeOK
  PROVE  /\ Len(read) \in Nat \ {0} /\ Len(nodes) \in Nat /\ Len(calls) \in Nat
         /\ \A p \in 1 .. Len(read) : read[p] \in Tokens
         /\ \A m \in 1 .. Len(nodes) : nodes[m] \in NodeSet(Len(read), Len(nodes))
         /\ \A d \in 1 .. Len(calls) : calls[d] \in CallSet(Len(read), Len(nodes))
         /\ nodes \in Seq(NodeSet(Len(read), Len(nodes)))
         /\ calls \in Seq(CallSet(Len(read), Len(nodes)))
         /\ result \in 0 .. Len(nodes) /\ statement \in 0 .. Len(nodes)
<1>1. Len(read) \in Nat \ {0} /\ Len(nodes) \in Nat
  BY DEF TypeOK
<1>2. /\ nodes \in Seq(NodeSet(Len(read), Len(nodes))) /\ calls \in Seq(CallSet(Len(read), Len(nodes)))
  BY <1>1, SetsAre DEF TypeOK
<1> QED
  BY <1>1, <1>2, ElementsAre DEF TypeOK, Ids

LEMMA TypesAre ==
  ASSUME NEW r \in Nat \ {0}, NEW k \in Nat,
         read' \in Seq(Tokens), Len(read') = r, Len(nodes') = k,
         nodes' \in Seq(NodeSet(r, k)), calls' \in Seq(CallSet(r, k)),
         result' \in 0 .. k, statement' \in 0 .. k, failed' \in BOOLEAN,
         verdict' \in {"compiling", "accepted", "rejected"}
  PROVE  TypeOK'
<1>1. (1 .. k) = Ids' \ {0} /\ 0 .. k = Ids'
  BY DEF Ids
<1>2. Nodes' = NodeSet(r, k) /\ Calls' = CallSet(r, k)
  BY <1>1 DEF Nodes, Calls, NodeSet, CallSet
<1> QED
  BY <1>1, <1>2 DEF TypeOK

LEMMA TokenIs ==
  ASSUME TypeOK, GetToken
  PROVE  /\ TokenTaken /\ read' \in Seq(Tokens)
         /\ read'[Len(read) + 1] \in Tokens /\ (value = "eof" => read'[Len(read) + 1] = "eof")
<1>1. PICK t \in Tokens : (value = "eof" => t = "eof") /\ read' = Append(read, t)
  BY DEF GetToken
<1>2. read \in Seq(Tokens)
  BY DEF TypeOK
<1> QED
  BY <1>1, <1>2, AppendIs DEF TokenTaken

LEMMA TopIs ==
  ASSUME TypeOK, calls # <<>>
  PROVE  /\ Len(calls) \in Nat \ {0} /\ Top \in CallSet(Len(read), Len(nodes))
         /\ Top = calls[Len(calls)]
BY StateIs DEF Top

LEMMA WithTopIs ==
  ASSUME TypeOK, calls # <<>>, NEW r \in Nat, NEW k \in Nat, Len(read) <= r, Len(nodes) <= k,
         NEW c \in CallSet(r, k), calls' = WithTop(c)
  PROVE  TopBecomes(c) /\ calls' \in Seq(CallSet(r, k))
<1>1. calls \in Seq(CallSet(r, k)) /\ Len(calls) \in 1 .. Len(calls)
  BY StateIs, TopIs, CallsGrow, SequenceGrows
<1> QED
  BY <1>1, ReplaceIs DEF WithTop, TopBecomes

LEMMA PushIs ==
  ASSUME TypeOK, calls # <<>>, NEW r \in Nat, NEW k \in Nat, Len(read) <= r, Len(nodes) <= k,
         NEW c \in CallSet(r, k), NEW s \in States, NEW f \in 1 .. r,
         calls' = Append(WithTop(c), Call(s, f))
  PROVE  Pushed(c, s, f) /\ calls' \in Seq(CallSet(r, k))
<1>1. calls \in Seq(CallSet(r, k)) /\ Len(calls) \in 1 .. Len(calls)
  BY StateIs, TopIs, CallsGrow, SequenceGrows
<1>2. Call(s, f) \in CallSet(r, k)
  BY DEF Call, CallSet, Steps
<1>3. /\ WithTop(c) \in Seq(CallSet(r, k)) /\ Len(WithTop(c)) = Len(calls) /\ WithTop(c)[Len(calls)] = c
      /\ \A d \in 1 .. Len(calls) : d # Len(calls) => WithTop(c)[d] = calls[d]
  BY <1>1, ReplaceIs DEF WithTop
<1> QED
  BY <1>1, <1>2, <1>3, AppendIs DEF Pushed

LEMMA NodeIs ==
  ASSUME TypeOK, NEW r \in Nat, Len(read) <= r,
         NEW n \in NodeSet(r, Len(nodes) + 1), nodes' = Append(nodes, n)
  PROVE  NodeMade(n) /\ nodes' \in Seq(NodeSet(r, Len(nodes) + 1))
<1>1. nodes \in Seq(NodeSet(r, Len(nodes) + 1))
  BY StateIs, NodesGrow, SequenceGrows
<1> QED
  BY <1>1, AppendIs DEF NodeMade

LEMMA MadeIs ==
  ASSUME TypeOK, calls # <<>>, NEW kind \in {"operand", "call", "array", "block", "index", "dotted", "operation"},
         NEW at \in 1 .. Len(read), NEW k \in Nat,
         NEW b \in Seq(1 .. k), NEW a \in Seq(1 .. k)
  PROVE  /\ Node(kind, at, b, a) \in NodeSet(Len(read), k)
         /\ Node(kind, at, b, a) \in NodeSet(Len(read) + 1, k)
<1>1. Len(read) \in Nat /\ Top.from \in 1 .. Len(read)
  BY StateIs, TopIs DEF CallSet
<1>2. /\ Top.from \in 0 .. Len(read) /\ Top.from \in 0 .. Len(read) + 1
      /\ at \in 1 .. Len(read) + 1
  BY <1>1
<1> QED
  BY <1>2 DEF Node, NodeSet

ReadOn(r) == \/ GetToken /\ r = Len(read) + 1
             \/ UNCHANGED read /\ r = Len(read)

LEMMA ReadIs ==
  ASSUME TypeOK, NEW r, ReadOn(r)
  PROVE  r \in Nat \ {0} /\ Len(read) <= r /\ read' \in Seq(Tokens) /\ Len(read') = r
<1>1. CASE GetToken /\ r = Len(read) + 1
  BY <1>1, StateIs, TokenIs DEF TokenTaken
<1>2. CASE UNCHANGED read /\ r = Len(read)
  BY <1>2, StateIs DEF TypeOK
<1> QED
  BY <1>1, <1>2 DEF ReadOn

LEMMA TopTyped ==
  ASSUME TypeOK, calls # <<>>, NEW r, ReadOn(r), NEW k \in Nat, Len(nodes) <= k
  PROVE  Top \in CallSet(r, k)
BY StateIs, TopIs, CallsGrow, ReadIs

(* A turn of the call on top, without and with a node.                     *)
LEMMA TurnTyped ==
  ASSUME TypeOK, calls # <<>>, NEW r, ReadOn(r), UNCHANGED nodes,
         NEW c \in CallSet(r, Len(nodes)), calls' = WithTop(c), result' \in 0 .. Len(nodes),
         UNCHANGED <<statement, failed, verdict>>
  PROVE  TypeOK' /\ TopBecomes(c)
<1>1. /\ r \in Nat \ {0} /\ Len(nodes) \in Nat /\ Len(read) <= r
      /\ read' \in Seq(Tokens) /\ Len(read') = r /\ statement \in 0 .. Len(nodes)
  BY ReadIs, StateIs
<1>2. TopBecomes(c) /\ calls' \in Seq(CallSet(r, Len(nodes)))
  BY <1>1, WithTopIs
<1>3. nodes' \in Seq(NodeSet(r, Len(nodes)))
  BY <1>1, StateIs, NodesGrow, SequenceGrows
<1> QED
  BY <1>1, <1>2, <1>3, TypesAre DEF TypeOK

LEMMA NodeTyped ==
  ASSUME TypeOK, calls # <<>>, NEW r, ReadOn(r),
         NEW n \in NodeSet(r, Len(nodes) + 1), nodes' = Append(nodes, n),
         NEW c \in CallSet(r, Len(nodes) + 1), calls' = WithTop(c), result' \in 0 .. Len(nodes),
         UNCHANGED <<statement, failed, verdict>>
  PROVE  TypeOK' /\ TopBecomes(c) /\ NodeMade(n)
<1> DEFINE k == Len(nodes) + 1
<1>1. /\ r \in Nat \ {0} /\ Len(nodes) \in Nat /\ k \in Nat /\ Len(read) <= r /\ Len(nodes) <= k
      /\ read' \in Seq(Tokens) /\ Len(read') = r /\ statement \in 0 .. k /\ result' \in 0 .. k
  BY ReadIs, StateIs
<1>2. TopBecomes(c) /\ calls' \in Seq(CallSet(r, k))
  BY <1>1, WithTopIs
<1>3. NodeMade(n) /\ nodes' \in Seq(NodeSet(r, k))
  BY <1>1, NodeIs
<1>4. Len(nodes') = k
  BY <1>3 DEF NodeMade
<1> QED
  BY <1>1, <1>2, <1>3, <1>4, TypesAre DEF TypeOK

LEMMA PushTyped ==
  ASSUME TypeOK, calls # <<>>, NEW r, ReadOn(r), UNCHANGED nodes,
         NEW c \in CallSet(r, Len(nodes)), NEW s \in States, NEW f \in 1 .. r,
         calls' = Append(WithTop(c), Call(s, f)), UNCHANGED <<result, statement, failed, verdict>>
  PROVE  TypeOK' /\ Pushed(c, s, f)
<1>1. /\ r \in Nat \ {0} /\ Len(nodes) \in Nat /\ Len(read) <= r
      /\ read' \in Seq(Tokens) /\ Len(read') = r
      /\ statement \in 0 .. Len(nodes) /\ result \in 0 .. Len(nodes)
  BY ReadIs, StateIs
<1>2. Pushed(c, s, f) /\ calls' \in Seq(CallSet(r, Len(nodes)))
  BY <1>1, PushIs
<1>3. nodes' \in Seq(NodeSet(r, Len(nodes)))
  BY <1>1, StateIs, NodesGrow, SequenceGrows
<1> QED
  BY <1>1, <1>2, <1>3, TypesAre DEF TypeOK

(* do_compile_symbol, step by step.                                        *)
LEMMA SignIs ==
  ASSUME TInv, Sign
  PROVE  /\ TypeOK' /\ TokenTaken
         /\ TopBecomes([Top EXCEPT !.step = "signed", !.neg = TRUE])
<1> DEFINE c == [Top EXCEPT !.step = "signed", !.neg = TRUE]
           r == Len(read) + 1
<1>1. TypeOK /\ calls # <<>> /\ ReadOn(r) /\ GetToken
  BY DEF TInv, Sign, At, ReadOn
<1>2. c \in CallSet(r, Len(nodes))
  <2>1. Top \in CallSet(r, Len(nodes)) /\ "signed" \in Steps /\ TRUE \in BOOLEAN
    BY <1>1, TopTyped, StateIs DEF Steps
  <2> HIDE DEF r
  <2> QED
    BY <2>1 DEF CallSet
<1> HIDE DEF c
<1> QED
  BY <1>1, <1>2, TurnTyped, StateIs, TokenIs DEF Sign, c

LEMMA BadIs ==
  ASSUME TypeOK, calls # <<>>
  PROVE  BadNow \in BOOLEAN /\ Top.bad \in BOOLEAN
BY TopIs DEF BadNow, CallSet

LEMMA OperandIs ==
  ASSUME TInv, Operand
  PROVE  /\ TypeOK' /\ TokenTaken /\ NodeMade(Node("operand", Len(read), <<>>, <<>>))
         /\ TopBecomes([Top EXCEPT !.current = New, !.step = "postfix", !.bad = BadNow])
<1> DEFINE c == [Top EXCEPT !.current = New, !.step = "postfix", !.bad = BadNow]
           n == Node("operand", Len(read), <<>>, <<>>)
           r == Len(read) + 1
           k == Len(nodes) + 1
<1>1. TypeOK /\ calls # <<>> /\ GetToken /\ ReadOn(r)
  BY DEF TInv, Operand, Unsigned, At, ReadOn
<1>2. k \in Nat /\ Top \in CallSet(r, k) /\ New \in 0 .. k
  BY <1>1, TopTyped, StateIs DEF New
<1>3. c \in CallSet(r, k)
  BY <1>1, <1>2, BadIs DEF CallSet, Steps
<1>4. n \in NodeSet(r, k)
  <2>1. Len(read) \in 1 .. Len(read) /\ <<>> \in Seq(1 .. k)
    BY <1>1, StateIs
  <2> QED
    BY <1>1, <1>2, <2>1, MadeIs
<1> HIDE DEF c, n
<1> QED
  BY <1>1, <1>3, <1>4, NodeTyped, StateIs, TokenIs DEF Operand, c, n

OpensIn(step) == [Top EXCEPT !.step = step, !.open = Len(read), !.list = <<>>]

LEMMA OpensIs ==
  ASSUME TypeOK, calls # <<>>, NEW s \in Steps
  PROVE  /\ Opens(s) \in CallSet(Len(read) + 1, Len(nodes))
         /\ Opens(s).step = s /\ Opens(s).open = Len(read) /\ Opens(s).list = <<>>
         /\ Opens(s).from = Top.from /\ Opens(s).state = Top.state /\ Opens(s).ops = Top.ops
         /\ Opens(s).current = Top.current /\ Opens(s).dot = Top.dot /\ Opens(s).parts = Top.parts
<1> DEFINE b == (value # "(" /\ BadNow) \/ Top.bad
           r == Len(read) + 1
<1>1. Top \in CallSet(r, Len(nodes)) /\ Len(read) \in 0 .. r /\ <<>> \in Seq(1 .. Len(nodes))
  BY StateIs, TopIs, CallsGrow
<1>2. b \in BOOLEAN
  BY BadIs
<1> HIDE DEF b
<1> QED
  BY <1>1, <1>2 DEF Opens, CallSet, b

LEMMA InnerIs ==
  ASSUME TInv, Inner
  PROVE  TypeOK' /\ TokenTaken /\ Pushed(Opens("inner"), "inner", Len(read) + 1)
<1> DEFINE r == Len(read) + 1
<1>1. TypeOK /\ calls # <<>> /\ GetToken /\ ReadOn(r)
  BY DEF TInv, Inner, Unsigned, At, ReadOn
<1>2. Opens("inner") \in CallSet(r, Len(nodes)) /\ "inner" \in States /\ r \in 1 .. r
  BY <1>1, OpensIs, StateIs DEF Steps, States
<1> QED
  BY <1>1, <1>2, PushTyped, TokenIs DEF Inner

LEMMA BlockIs ==
  ASSUME TInv, Block
  PROVE  TypeOK' /\ TokenTaken /\ Pushed(Opens("block"), "noname", Len(read) + 1)
<1> DEFINE r == Len(read) + 1
<1>1. TypeOK /\ calls # <<>> /\ GetToken /\ ReadOn(r)
  BY DEF TInv, Block, Unsigned, At, ReadOn
<1>2. Opens("block") \in CallSet(r, Len(nodes)) /\ "noname" \in States /\ r \in 1 .. r
  BY <1>1, OpensIs, StateIs DEF Steps, States
<1> QED
  BY <1>1, <1>2, PushTyped, TokenIs DEF Block

LEMMA ListIs ==
  ASSUME TInv, List
  PROVE  TypeOK' /\ TokenTaken /\ TopBecomes(Opens("list"))
<1> DEFINE r == Len(read) + 1
<1>1. TypeOK /\ calls # <<>> /\ GetToken /\ ReadOn(r)
  BY DEF TInv, List, Unsigned, At, ReadOn
<1>2. Opens("list") \in CallSet(r, Len(nodes))
  BY <1>1, OpensIs, StateIs DEF Steps
<1> QED
  BY <1>1, <1>2, TurnTyped, TokenIs, StateIs DEF List

LEMMA NextArgumentIs ==
  ASSUME TInv, NextArgument
  PROVE  TypeOK' /\ \E s \in {"argument", "array"} : Pushed(Top, s, Len(read))
<1> DEFINE r == Len(read)
           s == IF Close = ")" THEN "argument" ELSE "array"
<1>1. TypeOK /\ calls # <<>> /\ ReadOn(r)
  BY DEF TInv, NextArgument, At, ReadOn
<1>2. Top \in CallSet(r, Len(nodes)) /\ s \in States /\ r \in 1 .. r
  BY <1>1, TopIs, StateIs DEF States
<1>3. calls' = Append(WithTop(Top), Call(s, r))
  <2>1. WithTop(Top) = calls
    BY <1>1, StateIs, TopIs DEF WithTop, Top
  <2> QED
    BY <2>1 DEF NextArgument
<1>4. s \in {"argument", "array"}
  OBVIOUS
<1> HIDE DEF s
<1>5. TypeOK' /\ Pushed(Top, s, Len(read))
  BY <1>1, <1>2, <1>3, PushTyped DEF NextArgument
<1> QED
  BY <1>4, <1>5

LEMMA EndOfListIs ==
  ASSUME TInv, EndOfList
  PROVE  /\ TypeOK' /\ TokenTaken
         /\ TopBecomes([Top EXCEPT !.current = New, !.step = "postfix"])
         /\ \E kind \in {"call", "array"} : NodeMade(Node(kind, Top.open, <<>>, Top.list))
<1> DEFINE c == [Top EXCEPT !.current = New, !.step = "postfix"]
           kind == IF Close = ")" THEN "call" ELSE "array"
           n == Node(kind, Top.open, <<>>, Top.list)
           r == Len(read) + 1
           k == Len(nodes) + 1
<1>1. TypeOK /\ calls # <<>> /\ GetToken /\ ReadOn(r) /\ Top.step = "list"
  BY DEF TInv, EndOfList, At, ReadOn
<1>2. k \in Nat /\ Top \in CallSet(r, k) /\ New \in 0 .. k
  BY <1>1, TopTyped, StateIs DEF New
<1>3. c \in CallSet(r, k)
  BY <1>1, <1>2 DEF CallSet, Steps
<1>4. n \in NodeSet(r, k)
  <2>1. Top.open # 0 /\ Top \in CallSet(Len(read), Len(nodes))
    BY <1>1, TopIs DEF TInv, HeldInv, Held
  <2>2. Top.open \in 1 .. Len(read) /\ <<>> \in Seq(1 .. k) /\ Top.list \in Seq(1 .. k)
    BY <2>1, <1>1, <1>2, StateIs DEF CallSet
  <2> QED
    BY <1>1, <1>2, <2>2, MadeIs
<1>5. kind \in {"call", "array"}
  OBVIOUS
<1> HIDE DEF c, kind
<1> QED
  BY <1>1, <1>3, <1>4, <1>5, NodeTyped, StateIs, TokenIs DEF EndOfList, c, kind

(* What follows the operand.                                               *)
IndexedTop == [Top EXCEPT !.step = "index", !.open = Len(read)]

LEMMA IndexIs ==
  ASSUME TInv, Index
  PROVE  TypeOK' /\ TokenTaken /\ Pushed(IndexedTop, "index", Len(read) + 1)
<1> DEFINE r == Len(read) + 1
<1>1. TypeOK /\ calls # <<>> /\ GetToken /\ ReadOn(r)
  BY DEF TInv, Index, At, ReadOn
<1>2. IndexedTop \in CallSet(r, Len(nodes)) /\ "index" \in States /\ r \in 1 .. r
  <2>1. /\ Top \in CallSet(r, Len(nodes)) /\ "index" \in Steps /\ Len(read) \in 0 .. r
        /\ "index" \in States /\ r \in 1 .. r
    BY <1>1, TopTyped, StateIs DEF Steps, States
  <2> HIDE DEF r
  <2> QED
    BY <2>1 DEF CallSet, IndexedTop
<1> QED
  BY <1>1, <1>2, PushTyped, TokenIs DEF Index, IndexedTop

DottedTop == [Top EXCEPT !.dot = IF Top.dot = 0 THEN Len(read) ELSE Top.dot,
                         !.parts = Append(Top.parts, Top.current),
                         !.current = 0, !.step = "symbol"]

LEMMA DotIs ==
  ASSUME TInv, Dot
  PROVE  TypeOK' /\ TokenTaken /\ TopBecomes(DottedTop)
<1> DEFINE r == Len(read) + 1
<1>1. TypeOK /\ calls # <<>> /\ GetToken /\ ReadOn(r) /\ Top.step = "postfix"
  BY DEF TInv, Dot, At, ReadOn
<1>2. Top \in CallSet(r, Len(nodes)) /\ Top \in CallSet(Len(read), Len(nodes)) /\ Top.current # 0
  BY <1>1, TopTyped, TopIs, StateIs DEF TInv, HeldInv, Held
<1>3. Append(Top.parts, Top.current) \in Seq(1 .. Len(nodes))
  BY <1>1, <1>2, StateIs DEF CallSet
<1>4. (IF Top.dot = 0 THEN Len(read) ELSE Top.dot) \in 0 .. r
  <2>1. Top.dot \in 0 .. Len(read) /\ Len(read) \in Nat
    BY <1>1, <1>2, StateIs DEF CallSet
  <2> QED
    BY <2>1
<1>5. DottedTop \in CallSet(r, Len(nodes))
  <2>1. 0 \in 0 .. Len(nodes) /\ "symbol" \in Steps
    BY <1>1, StateIs DEF Steps
  <2> DEFINE d == IF Top.dot = 0 THEN Len(read) ELSE Top.dot
             p == Append(Top.parts, Top.current)
  <2>2. d \in 0 .. r /\ p \in Seq(1 .. Len(nodes))
    BY <1>3, <1>4
  <2> HIDE DEF r, d, p
  <2>3. [Top EXCEPT !.dot = d, !.parts = p, !.current = 0, !.step = "symbol"] \in CallSet(r, Len(nodes))
    BY <1>2, <2>1, <2>2 DEF CallSet
  <2> QED
    BY <2>3 DEF DottedTop, d, p
<1> QED
  BY <1>1, <1>5, TurnTyped, TokenIs, StateIs DEF Dot, DottedTop

WholeTop == [Top EXCEPT !.current = New, !.step = "operator", !.dot = 0, !.parts = <<>>]

LEMMA WholeTyped ==
  ASSUME TypeOK, calls # <<>>
  PROVE  WholeTop \in CallSet(Len(read), Len(nodes) + 1)
<1>1. Top \in CallSet(Len(read), Len(nodes) + 1) /\ New \in 0 .. Len(nodes) + 1
  BY TopTyped, TopIs, StateIs, CallsGrow DEF New
<1>2. <<>> \in Seq(1 .. Len(nodes) + 1) /\ 0 \in 0 .. Len(read)
  BY StateIs
<1> QED
  BY <1>1, <1>2 DEF WholeTop, CallSet, Steps

LEMMA DottedTyped ==
  ASSUME TInv, calls # <<>>, Top.dot # 0
  PROVE  /\ Node("dotted", Top.dot, <<Top.parts[1]>>, PartsAlone) \in NodeSet(Len(read), Len(nodes) + 1)
         /\ Top.current # 0 => Dotted \in NodeSet(Len(read), Len(nodes) + 1)
<1>1. Top \in CallSet(Len(read), Len(nodes)) /\ Top.parts # <<>> /\ TypeOK
  BY TopIs DEF TInv, HeldInv, Held
<1>2. Top.dot \in 1 .. Len(read) /\ Top.parts \in Seq(1 .. Len(nodes)) /\ Top.current \in 0 .. Len(nodes)
  BY <1>1, StateIs DEF CallSet
<1> DEFINE k == Len(nodes) + 1
<1>3. Len(nodes) \in Nat /\ k \in Nat /\ Top.parts \in Seq(1 .. k)
  BY <1>1, <1>2, StateIs, SequenceGrows
<1>4. Tail(Top.parts) \in Seq(1 .. k) /\ Top.parts[1] \in 1 .. k
  <2> HIDE DEF k
  <2>1. ASSUME NEW S, NEW q \in Seq(S), q # <<>> PROVE Tail(q) \in Seq(S) /\ q[1] \in S
    BY <2>1
  <2> QED
    BY <1>1, <1>3, <2>1
<1>5. <<Top.parts[1]>> \in Seq(1 .. k)
  BY <1>4
<1>6. Top.current # 0 => Append(Tail(Top.parts), Top.current) \in Seq(1 .. k)
  <2>1. Top.current # 0 => Top.current \in 1 .. k
    BY <1>2, <1>3
  <2> HIDE DEF k
  <2> QED
    BY <2>1, <1>4, AppendIs
<1> HIDE DEF k
<1>7. Node("dotted", Top.dot, <<Top.parts[1]>>, PartsAlone) \in NodeSet(Len(read), k)
  BY <1>1, <1>2, <1>3, <1>4, <1>5, MadeIs DEF PartsAlone
<1>8. Top.current # 0 => Dotted \in NodeSet(Len(read), k)
  BY <1>1, <1>2, <1>3, <1>5, <1>6, MadeIs DEF PartsAndCurrent, Dotted
<1> QED
  BY <1>7, <1>8 DEF k

LEMMA DotAtEndIs ==
  ASSUME TInv, DotAtEnd
  PROVE  /\ TypeOK' /\ TopBecomes(WholeTop)
         /\ NodeMade(Node("dotted", Top.dot, <<Top.parts[1]>>, PartsAlone))
<1>1. TypeOK /\ calls # <<>> /\ ReadOn(Len(read)) /\ Top.dot # 0
  BY DEF TInv, DotAtEnd, At, ReadOn
<1> QED
  BY <1>1, NodeTyped, WholeTyped, DottedTyped, StateIs DEF DotAtEnd, WholeTop

PlainTop == [Top EXCEPT !.step = "operator"]

LEMMA EndOfSymbolIs ==
  ASSUME TInv, EndOfSymbol
  PROVE  /\ TypeOK'
         /\ \/ Top.dot = 0 /\ UNCHANGED nodes /\ TopBecomes(PlainTop)
            \/ Top.dot # 0 /\ NodeMade(Dotted) /\ TopBecomes(WholeTop)
<1>1. TypeOK /\ calls # <<>> /\ ReadOn(Len(read)) /\ Top.step = "postfix"
  BY DEF TInv, EndOfSymbol, At, ReadOn
<1>2. CASE Top.dot = 0
  <2>1. PlainTop \in CallSet(Len(read), Len(nodes))
    BY <1>1, TopIs DEF PlainTop, CallSet, Steps
  <2> QED
    BY <1>1, <1>2, <2>1, TurnTyped, StateIs DEF EndOfSymbol, PlainTop
<1>3. CASE Top.dot # 0
  <2>1. Top.current # 0
    BY <1>1, TopIs DEF TInv, HeldInv, Held
  <2> QED
    BY <1>1, <1>3, <2>1, NodeTyped, WholeTyped, DottedTyped, StateIs DEF EndOfSymbol, WholeTop
<1> QED
  BY <1>2, <1>3

(* do_compile_expr.  The last waiting operator gets its right side.        *)
LEMMA LinkedIs ==
  ASSUME TInv, calls # <<>>, Top.step = "operator"
  PROVE  /\ Linked \in Seq(NodeSet(Len(read), Len(nodes))) /\ Len(Linked) = Len(nodes)
         /\ Top.current \in 1 .. Len(nodes)
         /\ Top.ops \in Seq(1 .. Len(nodes)) /\ Len(Top.ops) \in Nat
         /\ \A i \in 1 .. Len(Top.ops) : Top.ops[i] \in 1 .. Len(nodes)
         /\ Top.ops # <<>> <=> Len(Top.ops) > 0
         /\ \A m \in 1 .. Len(nodes) :
              /\ Linked[m].kind = nodes[m].kind /\ Linked[m].at = nodes[m].at
              /\ Linked[m].by = nodes[m].by /\ Linked[m].before = nodes[m].before
              /\ Linked[m].after = IF Top.ops # <<>> /\ m = Top.ops[Len(Top.ops)]
                                     THEN <<Top.current>> ELSE nodes[m].after
<1> DEFINE r == Len(read)
           k == Len(nodes)
           c == Top.current
           w == Top.ops[Len(Top.ops)]
<1>1. /\ TypeOK /\ k \in Nat /\ r \in Nat \ {0} /\ nodes \in Seq(NodeSet(r, k))
      /\ Top \in CallSet(r, k) /\ c # 0
  BY StateIs, TopIs DEF TInv, HeldInv, Held
<1>2. c \in 1 .. k /\ Top.ops \in Seq(1 .. k)
  <2>1. c \in 0 .. k /\ Top.ops \in Seq(1 .. k)
    BY <1>1 DEF CallSet
  <2> QED
    BY <1>1, <2>1
<1>3. CASE Top.ops = <<>>
  BY <1>1, <1>2, <1>3 DEF Linked
<1>4. CASE Top.ops # <<>>
  <2>1. Len(Top.ops) \in Nat /\ Len(Top.ops) > 0 /\ w \in 1 .. k /\ <<c>> \in Seq(1 .. k)
        /\ \A i \in 1 .. Len(Top.ops) : Top.ops[i] \in 1 .. k
    BY <1>2, <1>4
  <2>2. nodes[w] \in NodeSet(r, k)
    BY <2>1, <1>1
  <2> DEFINE n == [nodes[w] EXCEPT !.after = <<c>>]
  <2>3. Linked = [nodes EXCEPT ![w] = n]
    BY <1>4 DEF Linked
  <2> HIDE DEF c, w, r, k
  <2>4. /\ n \in NodeSet(r, k) /\ n.kind = nodes[w].kind /\ n.at = nodes[w].at /\ n.by = nodes[w].by
        /\ n.before = nodes[w].before /\ n.after = <<c>>
    BY <2>1, <2>2 DEF NodeSet
  <2> HIDE DEF n
  <2>5. /\ Linked \in Seq(NodeSet(r, k)) /\ Len(Linked) = k /\ Linked[w] = n
        /\ \A m \in 1 .. k : m # w => Linked[m] = nodes[m]
    <3>1. nodes \in Seq(NodeSet(r, k)) /\ w \in 1 .. Len(nodes) /\ Len(nodes) = k
      BY <1>1, <2>1 DEF k
    <3> QED
      BY <2>3, <2>4, <3>1, ReplaceIs
  <2> QED
    BY <1>2, <1>4, <2>1, <2>4, <2>5 DEF c, w, r, k
<1> QED
  BY <1>3, <1>4

LEMMA PrefixIs ==
  ASSUME NEW S, NEW q \in Seq(S), NEW n \in 0 .. Len(q)
  PROVE  /\ SubSeq(q, 1, n) \in Seq(S) /\ Len(SubSeq(q, 1, n)) = n
         /\ \A d \in 1 .. n : SubSeq(q, 1, n)[d] = q[d]
OBVIOUS

LEMMA EndOfExprIs ==
  ASSUME TInv, EndOfExpr
  PROVE  /\ TypeOK' /\ result' = Root(Top.current) /\ result' # 0 /\ nodes' = Linked
         /\ Len(calls') = Len(calls) - 1 /\ \A d \in 1 .. Len(calls) - 1 : calls'[d] = calls[d]
<1>1. TypeOK /\ calls # <<>> /\ Top.step = "operator"
  BY DEF TInv, EndOfExpr, At
<1>2. /\ Linked \in Seq(NodeSet(Len(read), Len(nodes))) /\ Len(Linked) = Len(nodes)
      /\ Root(Top.current) \in 1 .. Len(nodes)
  BY <1>1, LinkedIs DEF Root
<1>3. /\ calls' \in Seq(CallSet(Len(read), Len(nodes)))
      /\ Len(calls') = Len(calls) - 1 /\ \A d \in 1 .. Len(calls) - 1 : calls'[d] = calls[d]
  <2> DEFINE n == Len(calls) - 1
             S == CallSet(Len(read), Len(nodes))
  <2>1. calls \in Seq(S) /\ n \in 0 .. Len(calls) /\ calls' = SubSeq(calls, 1, n)
    BY <1>1, StateIs, TopIs DEF EndOfExpr
  <2> HIDE DEF n, S
  <2>2. calls' \in Seq(S) /\ Len(calls') = n /\ \A d \in 1 .. n : calls'[d] = calls[d]
    BY <2>1, PrefixIs
  <2> QED
    BY <2>2 DEF n, S
<1>4. TypeOK'
  BY <1>1, <1>2, <1>3, TypesAre, StateIs DEF EndOfExpr, TypeOK
<1> QED
  BY <1>2, <1>3, <1>4 DEF EndOfExpr, At

(* What a node had, its right side left out, stays when k nodes were there. *)
SameBut(u, v, m) ==
  /\ v[m].kind = u[m].kind /\ v[m].at = u[m].at /\ v[m].by = u[m].by /\ v[m].before = u[m].before

WithAfter(t, w, a) == [t EXCEPT ![w].after = a]

LEMMA AfterIs ==
  ASSUME NEW r \in Nat, NEW k \in Nat, NEW t \in Seq(NodeSet(r, k)), NEW w \in 1 .. Len(t),
         NEW a \in Seq(1 .. k)
  PROVE  /\ WithAfter(t, w, a) \in Seq(NodeSet(r, k))
         /\ Len(WithAfter(t, w, a)) = Len(t)
         /\ SameBut(t, WithAfter(t, w, a), w)
         /\ WithAfter(t, w, a)[w].after = a
         /\ \A m \in 1 .. Len(t) : m # w => WithAfter(t, w, a)[m] = t[m]
<1> DEFINE n == [t[w] EXCEPT !.after = a]
<1>1. t[w] \in NodeSet(r, k)
  OBVIOUS
<1>2. /\ n \in NodeSet(r, k) /\ n.kind = t[w].kind /\ n.at = t[w].at /\ n.by = t[w].by
      /\ n.before = t[w].before /\ n.after = a
  BY <1>1 DEF NodeSet
<1>3. WithAfter(t, w, a) = [t EXCEPT ![w] = n]
  BY DEF WithAfter
<1> DEFINE u == WithAfter(t, w, a)
<1> HIDE DEF n
<1>4. /\ [t EXCEPT ![w] = n] \in Seq(NodeSet(r, k)) /\ Len([t EXCEPT ![w] = n]) = Len(t)
      /\ [t EXCEPT ![w] = n][w] = n
      /\ \A j \in 1 .. Len(t) : j # w => [t EXCEPT ![w] = n][j] = t[j]
  BY <1>2, ReplaceIs
<1>5. u = [t EXCEPT ![w] = n]
  BY <1>3
<1> HIDE DEF u
<1>6. u \in Seq(NodeSet(r, k)) /\ Len(u) = Len(t) /\ u[w] = n /\ \A j \in 1 .. Len(t) : j # w => u[j] = t[j]
  BY <1>4, <1>5
<1>7. SameBut(t, u, w) /\ u[w].after = a
  BY <1>2, <1>6 DEF SameBut
<1> QED
  BY <1>6, <1>7 DEF u

OnTop == [Top EXCEPT !.ops = <<New>>, !.current = 0, !.step = "symbol"]
Behind(i) == [Top EXCEPT !.ops = Append(SubSeq(Top.ops, 1, i), New), !.current = 0, !.step = "symbol"]

LEMMA OperatorIs ==
  ASSUME TInv, Operator
  PROVE  /\ TypeOK' /\ TokenTaken
         /\ Len(nodes') = Len(nodes) + 1 /\ Linked \in Seq(NodeSet(Len(read), Len(nodes)))
         /\ \/ /\ Above = {} /\ TopBecomes(OnTop)
               /\ nodes'[New] = Node("operation", Len(read), <<Root(Top.current)>>, <<>>)
               /\ \A m \in 1 .. Len(nodes) : nodes'[m] = Linked[m]
            \/ \E i \in Above :
                 /\ i \in 1 .. Len(Top.ops) /\ (\A j \in Above : j <= i) /\ TopBecomes(Behind(i))
                 /\ nodes'[New] = Node("operation", Len(read), Linked[Top.ops[i]].after, <<>>)
                 /\ SameBut(Linked, nodes', Top.ops[i]) /\ nodes'[Top.ops[i]].after = <<New>>
                 /\ \A m \in 1 .. Len(nodes) : m # Top.ops[i] => nodes'[m] = Linked[m]
<1> DEFINE r == Len(read) + 1
           k == Len(nodes) + 1
<1>1. TypeOK /\ calls # <<>> /\ GetToken /\ ReadOn(r) /\ Top.step = "operator"
  BY DEF TInv, Operator, At, ReadOn
<1>2. /\ Linked \in Seq(NodeSet(Len(read), Len(nodes))) /\ Len(Linked) = Len(nodes)
      /\ Top.current \in 1 .. Len(nodes) /\ Len(Top.ops) \in Nat
      /\ Top.ops \in Seq(1 .. Len(nodes)) /\ \A i \in 1 .. Len(Top.ops) : Top.ops[i] \in 1 .. Len(nodes)
      /\ Root(Top.current) \in 1 .. Len(nodes)
  BY <1>1, LinkedIs DEF Root
<1>3. /\ Len(nodes) \in Nat /\ k \in Nat /\ r \in Nat \ {0} /\ Top \in CallSet(r, k) /\ New = k
      /\ Len(read) \in Nat \ {0} /\ k \in 1 .. k /\ Len(read) <= r /\ Len(nodes) <= k
  BY <1>1, TopTyped, StateIs DEF New
<1>4. Linked \in Seq(NodeSet(r, k)) /\ Top.ops \in Seq(1 .. k)
  BY <1>2, <1>3, NodesGrow, SequenceGrows
<1>5. TokenTaken /\ read' \in Seq(Tokens) /\ Len(read') = r
  BY <1>1, TokenIs DEF TokenTaken
<1>6. /\ result' \in 0 .. k /\ statement' \in 0 .. k /\ failed' \in BOOLEAN
      /\ verdict' \in {"compiling", "accepted", "rejected"}
  <2>1. result \in 0 .. Len(nodes) /\ statement \in 0 .. Len(nodes)
    BY <1>1, StateIs
  <2>2. UNCHANGED <<result, statement, failed, verdict>>
    BY DEF Operator
  <2> QED
    BY <1>1, <1>3, <2>1, <2>2 DEF TypeOK
<1>7. CASE /\ Above = {}
           /\ nodes' = Append(Linked, Node("operation", Len(read), <<Root(Top.current)>>, <<>>))
           /\ calls' = WithTop(OnTop)
  <2> DEFINE n == Node("operation", Len(read), <<Root(Top.current)>>, <<>>)
  <2>1. n \in NodeSet(r, k)
    <3>1. <<Root(Top.current)>> \in Seq(1 .. k) /\ <<>> \in Seq(1 .. k) /\ Len(read) \in 1 .. Len(read)
      BY <1>2, <1>3
    <3> QED
      BY <1>1, <1>3, <3>1, MadeIs
  <2>2. OnTop \in CallSet(r, k)
    <3>1. <<New>> \in Seq(1 .. k) /\ 0 \in 0 .. k /\ "symbol" \in Steps
      BY <1>3 DEF Steps
    <3> HIDE DEF r, k
    <3> QED
      BY <1>3, <3>1 DEF OnTop, CallSet
  <2> HIDE DEF n
  <2>3. /\ nodes' \in Seq(NodeSet(r, k)) /\ Len(nodes') = k /\ nodes'[k] = n
        /\ \A m \in 1 .. Len(nodes) : nodes'[m] = Linked[m]
    <3>1. nodes' = Append(Linked, n)
      BY <1>7 DEF n
    <3> QED
      BY <3>1, <2>1, <1>4, <1>2, AppendIs
  <2>4. TopBecomes(OnTop) /\ calls' \in Seq(CallSet(r, k))
    BY <1>1, <1>3, <1>7, <2>2, WithTopIs
  <2>5. TypeOK'
    BY <1>3, <1>5, <1>6, <2>3, <2>4, TypesAre
  <2> QED
    BY <1>2, <1>3, <1>5, <1>7, <2>3, <2>4, <2>5 DEF n
<1>8. ASSUME NEW i \in Above, \A j \in Above : j <= i,
             nodes' = Append([Linked EXCEPT ![Top.ops[i]].after = <<New>>],
                             Node("operation", Len(read), Linked[Top.ops[i]].after, <<>>)),
             calls' = WithTop(Behind(i))
      PROVE  /\ TypeOK' /\ Len(nodes') = k /\ i \in 1 .. Len(Top.ops) /\ TopBecomes(Behind(i))
             /\ nodes'[k] = Node("operation", Len(read), Linked[Top.ops[i]].after, <<>>)
             /\ SameBut(Linked, nodes', Top.ops[i]) /\ nodes'[Top.ops[i]].after = <<New>>
             /\ \A m \in 1 .. Len(nodes) : m # Top.ops[i] => nodes'[m] = Linked[m]
  <2> DEFINE n == Node("operation", Len(read), Linked[Top.ops[i]].after, <<>>)
             u == [Linked EXCEPT ![Top.ops[i]].after = <<New>>]
  <2>1. i \in 1 .. Len(Top.ops) /\ Top.ops[i] \in 1 .. Len(nodes) /\ Top.ops[i] \in 1 .. Len(Linked)
    BY <1>2 DEF Above
  <2>2. n \in NodeSet(r, k)
    <3>1. Linked[Top.ops[i]] \in NodeSet(r, k)
      BY <1>4, <2>1
    <3>2. Linked[Top.ops[i]].after \in Seq(1 .. k) /\ <<>> \in Seq(1 .. k) /\ Len(read) \in 1 .. Len(read)
      BY <1>3, <3>1 DEF NodeSet
    <3> QED
      BY <1>1, <1>3, <3>2, MadeIs
  <2>3. Behind(i) \in CallSet(r, k)
    <3> DEFINE q == Append(SubSeq(Top.ops, 1, i), New)
    <3>1. SubSeq(Top.ops, 1, i) \in Seq(1 .. k) /\ 0 \in 0 .. k /\ "symbol" \in Steps
      BY <1>2, <1>3, <1>4, <2>1 DEF Steps
    <3>2. q \in Seq(1 .. k)
      BY <3>1, <1>3, AppendIs
    <3> HIDE DEF r, k, q
    <3>3. [Top EXCEPT !.ops = q, !.current = 0, !.step = "symbol"] \in CallSet(r, k)
      BY <1>3, <3>1, <3>2 DEF CallSet
    <3> QED
      BY <3>3 DEF Behind, q
  <2>4. /\ u \in Seq(NodeSet(r, k)) /\ Len(u) = Len(nodes) /\ SameBut(Linked, u, Top.ops[i])
        /\ u[Top.ops[i]].after = <<New>>
        /\ \A m \in 1 .. Len(nodes) : m # Top.ops[i] => u[m] = Linked[m]
    <3>1. <<New>> \in Seq(1 .. k)
      BY <1>3
    <3> DEFINE w == Top.ops[i]
    <3>2. /\ w \in 1 .. Len(Linked) /\ Linked \in Seq(NodeSet(r, k)) /\ r \in Nat /\ k \in Nat
          /\ Len(Linked) = Len(nodes)
      BY <1>2, <1>3, <1>4, <2>1
    <3> HIDE DEF w, r, k
    <3>3. /\ WithAfter(Linked, w, <<New>>) \in Seq(NodeSet(r, k))
          /\ Len(WithAfter(Linked, w, <<New>>)) = Len(Linked)
          /\ SameBut(Linked, WithAfter(Linked, w, <<New>>), w)
          /\ WithAfter(Linked, w, <<New>>)[w].after = <<New>>
          /\ \A m \in 1 .. Len(Linked) : m # w => WithAfter(Linked, w, <<New>>)[m] = Linked[m]
      BY <3>1, <3>2, AfterIs
    <3> QED
      BY <3>2, <3>3 DEF w, WithAfter
  <2> HIDE DEF n, u
  <2>5. /\ nodes' \in Seq(NodeSet(r, k)) /\ Len(nodes') = k /\ nodes'[k] = n
        /\ \A m \in 1 .. Len(nodes) : nodes'[m] = u[m]
    <3>1. nodes' = Append(u, n)
      BY <1>8 DEF n, u
    <3> QED
      BY <3>1, <2>2, <2>4, AppendIs
  <2>6. TopBecomes(Behind(i)) /\ calls' \in Seq(CallSet(r, k))
    BY <1>1, <1>3, <1>8, <2>3, WithTopIs
  <2>7. TypeOK'
    BY <1>3, <1>5, <1>6, <2>5, <2>6, TypesAre
  <2> QED
    BY <2>1, <2>4, <2>5, <2>6, <2>7 DEF n, SameBut
<1>9. \/ /\ Above = {}
         /\ nodes' = Append(Linked, Node("operation", Len(read), <<Root(Top.current)>>, <<>>))
         /\ calls' = WithTop(OnTop)
      \/ \E i \in Above :
         /\ \A j \in Above : j <= i
         /\ nodes' = Append([Linked EXCEPT ![Top.ops[i]].after = <<New>>],
                            Node("operation", Len(read), Linked[Top.ops[i]].after, <<>>))
         /\ calls' = WithTop(Behind(i))
  BY DEF Operator, OnTop, Behind, StillWaiting
<1> QED
  BY <1>2, <1>3, <1>5, <1>7, <1>8, <1>9

(* What a caller does with the expression it got.                          *)
InnerTop == [Top EXCEPT !.current = result, !.step = "postfix"]
ListTop  == [Top EXCEPT !.list = Append(Top.list, result)]

LEMMA InnerDoneIs ==
  ASSUME TInv, InnerDone
  PROVE  TypeOK' /\ TokenTaken /\ TopBecomes(InnerTop)
<1> DEFINE r == Len(read) + 1
<1>1. TypeOK /\ calls # <<>> /\ GetToken /\ ReadOn(r)
  BY DEF TInv, InnerDone, Waits, ReadOn
<1>2. /\ Top \in CallSet(r, Len(nodes)) /\ result \in 0 .. Len(nodes) /\ "postfix" \in Steps
      /\ 0 \in 0 .. Len(nodes)
  BY <1>1, TopTyped, StateIs DEF Steps
<1>3. InnerTop \in CallSet(r, Len(nodes))
  <2> HIDE DEF r
  <2> QED
    BY <1>2 DEF InnerTop, CallSet
<1> QED
  BY <1>1, <1>2, <1>3, TurnTyped, TokenIs DEF InnerDone, InnerTop

LEMMA ArgumentDoneIs ==
  ASSUME TInv, ArgumentDone
  PROVE  TypeOK' /\ ((value = "," /\ TokenTaken) \/ (value # "," /\ UNCHANGED read)) /\ TopBecomes(ListTop)
<1>1. TypeOK /\ calls # <<>> /\ result # 0
  BY DEF TInv, ArgumentDone, Waits
<1>2. PICK r \in {Len(read), Len(read) + 1} : ReadOn(r)
  BY DEF ArgumentDone, ReadOn
<1>3. /\ Top \in CallSet(r, Len(nodes)) /\ result \in 1 .. Len(nodes) /\ 0 \in 0 .. Len(nodes)
  BY <1>1, <1>2, TopTyped, StateIs
<1>4. ListTop \in CallSet(r, Len(nodes))
  <2>1. Append(Top.list, result) \in Seq(1 .. Len(nodes))
    BY <1>3 DEF CallSet
  <2> QED
    BY <1>3, <2>1 DEF ListTop, CallSet
<1>5. TypeOK' /\ TopBecomes(ListTop)
  BY <1>1, <1>2, <1>3, <1>4, TurnTyped DEF ArgumentDone, ListTop
<1> QED
  BY <1>1, <1>5, TokenIs DEF ArgumentDone

LEMMA BlockDoneIs ==
  ASSUME TInv, BlockDone
  PROVE  /\ TypeOK' /\ TokenTaken /\ TopBecomes([Top EXCEPT !.current = New, !.step = "postfix"])
         /\ NodeMade(Node("block", Top.open, <<>>, <<result>>))
<1> DEFINE c == [Top EXCEPT !.current = New, !.step = "postfix"]
           n == Node("block", Top.open, <<>>, <<result>>)
           r == Len(read) + 1
           k == Len(nodes) + 1
<1>1. TypeOK /\ calls # <<>> /\ GetToken /\ ReadOn(r) /\ Top.step = "block" /\ result # 0
  BY DEF TInv, BlockDone, Waits, ReadOn
<1>2. k \in Nat /\ Top \in CallSet(r, k) /\ New \in 0 .. k /\ result \in 1 .. k /\ 0 \in 0 .. Len(nodes)
  BY <1>1, TopTyped, StateIs DEF New
<1>3. c \in CallSet(r, k)
  BY <1>1, <1>2 DEF CallSet, Steps
<1>4. n \in NodeSet(r, k)
  <2>1. Top.open # 0 /\ Top \in CallSet(Len(read), Len(nodes))
    BY <1>1, TopIs DEF TInv, HeldInv, Held
  <2>2. Top.open \in 1 .. Len(read) /\ <<>> \in Seq(1 .. k) /\ <<result>> \in Seq(1 .. k)
    BY <2>1, <1>1, <1>2, StateIs DEF CallSet
  <2> QED
    BY <1>1, <1>2, <2>2, MadeIs
<1> HIDE DEF c, n
<1> QED
  BY <1>1, <1>2, <1>3, <1>4, NodeTyped, TokenIs DEF BlockDone, c, n

(* An index applies to the whole operand; a dotted one is completed first.    *)
IndexTop(n) == [Top EXCEPT !.current = n, !.step = "postfix", !.dot = 0, !.parts = <<>>]

LEMMA IndexTopTyped ==
  ASSUME TypeOK, calls # <<>>, NEW r, ReadOn(r), NEW k \in Nat, Len(nodes) <= k
  PROVE  IndexTop(k) \in CallSet(r, k)
<1>1. /\ Top \in CallSet(r, k) /\ k \in 0 .. k /\ <<>> \in Seq(1 .. k) /\ 0 \in 0 .. r /\ "postfix" \in Steps
  BY TopTyped, ReadIs DEF Steps
<1> QED
  BY <1>1 DEF IndexTop, CallSet

LEMMA IndexDoneIs ==
  ASSUME TInv, IndexDone
  PROVE  /\ TypeOK' /\ TokenTaken
         /\ \/ /\ Top.dot = 0 /\ NodeMade(Node("index", Top.open, <<Top.current>>, <<result>>))
               /\ TopBecomes(IndexTop(New))
            \/ /\ Top.dot # 0 /\ Len(nodes') = Len(nodes) + 2
               /\ nodes'[New] = Dotted /\ nodes'[New + 1] = Node("index", Top.open, <<New>>, <<result>>)
               /\ \A m \in 1 .. Len(nodes) : nodes'[m] = nodes[m]
               /\ TopBecomes(IndexTop(New + 1))
<1> DEFINE r == Len(read) + 1
<1>1. /\ TypeOK /\ calls # <<>> /\ GetToken /\ ReadOn(r) /\ Top.step = "index" /\ result # 0
      /\ calls' = WithTop(IndexTop(Len(nodes'))) /\ result' = 0
      /\ UNCHANGED <<statement, failed, verdict>>
  BY DEF TInv, IndexDone, Waits, ReadOn, IndexTop
<1>2. /\ Top.open # 0 /\ Top.current # 0 /\ Top \in CallSet(Len(read), Len(nodes))
      /\ Top.open \in 1 .. Len(read) /\ Top.current \in 1 .. Len(nodes)
      /\ result \in 1 .. Len(nodes) /\ 0 \in 0 .. Len(nodes) /\ New = Len(nodes) + 1
      /\ Len(read) \in Nat /\ Len(nodes) \in Nat
  <2>1. Top.open # 0 /\ Top.current # 0 /\ Top \in CallSet(Len(read), Len(nodes))
    BY <1>1, TopIs DEF TInv, HeldInv, Held
  <2>2. Top.open \in 0 .. Len(read) /\ Top.current \in 0 .. Len(nodes)
    BY <2>1 DEF CallSet
  <2>3. Len(read) \in Nat /\ Len(nodes) \in Nat /\ result \in 0 .. Len(nodes)
    BY <1>1, StateIs
  <2> QED
    BY <1>1, <2>1, <2>2, <2>3 DEF New
<1>3. CASE Top.dot = 0
  <2> DEFINE n == Node("index", Top.open, <<Top.current>>, <<result>>)
             k == Len(nodes) + 1
  <2>1. n \in NodeSet(r, k)
    <3>1. <<Top.current>> \in Seq(1 .. k) /\ <<result>> \in Seq(1 .. k) /\ k \in Nat
      BY <1>2
    <3> QED
      BY <1>1, <1>2, <3>1, MadeIs
  <2>2. nodes' = Append(nodes, n)
    BY <1>3 DEF IndexDone
  <2> HIDE DEF n
  <2>3. Len(nodes') = k
    BY <2>1, <2>2, <1>1, StateIs
  <2>4. IndexTop(k) \in CallSet(r, k)
    BY <1>1, <1>2, IndexTopTyped
  <2>5. TypeOK' /\ TopBecomes(IndexTop(k)) /\ NodeMade(n)
    BY <1>1, <1>2, <2>1, <2>2, <2>3, <2>4, NodeTyped
  <2> QED
    BY <1>1, <1>2, <1>3, <2>5, TokenIs DEF n
<1>4. CASE Top.dot # 0
  <2> DEFINE n == Node("index", Top.open, <<New>>, <<result>>)
             h == Len(nodes) + 1
             k == Len(nodes) + 2
  <2>1. n \in NodeSet(r, k)
    <3>1. <<New>> \in Seq(1 .. k) /\ <<result>> \in Seq(1 .. k) /\ k \in Nat
      BY <1>2
    <3> QED
      BY <1>1, <1>2, <3>1, MadeIs
  <2>2. Dotted \in NodeSet(r, k)
    <3>1. Dotted \in NodeSet(Len(read), h)
      BY <1>1, <1>2, <1>4, DottedTyped
    <3> QED
      BY <1>2, <3>1, NodesGrow
  <2>3. nodes' = nodes \o <<Dotted, n>>
    BY <1>4 DEF IndexDone
  <2> HIDE DEF n
  <2>4. nodes \in Seq(NodeSet(r, k))
    BY <1>1, <1>2, StateIs, NodesGrow, SequenceGrows
  <2>5. /\ nodes' \in Seq(NodeSet(r, k)) /\ Len(nodes') = k /\ nodes'[h] = Dotted /\ nodes'[h + 1] = n
        /\ \A m \in 1 .. Len(nodes) : nodes'[m] = nodes[m]
    <3> HIDE DEF k
    <3>1. ASSUME NEW S, NEW t \in Seq(S), NEW a \in S, NEW b \in S
          PROVE  /\ t \o <<a, b>> \in Seq(S) /\ Len(t \o <<a, b>>) = Len(t) + 2
                 /\ (t \o <<a, b>>)[Len(t) + 1] = a /\ (t \o <<a, b>>)[Len(t) + 1 + 1] = b
                 /\ \A m \in 1 .. Len(t) : (t \o <<a, b>>)[m] = t[m]
      OBVIOUS
    <3> QED
      BY <2>1, <2>2, <2>3, <2>4, <3>1 DEF k
  <2>6. IndexTop(k) \in CallSet(r, k) /\ IndexTop(Len(nodes')) = IndexTop(k)
    BY <1>1, <1>2, <2>5, IndexTopTyped
  <2>7. TopBecomes(IndexTop(k)) /\ calls' \in Seq(CallSet(r, k))
    <3>1. r \in Nat /\ k \in Nat /\ Len(read) <= r /\ Len(nodes) <= k /\ calls' = WithTop(IndexTop(k))
      BY <1>1, <1>2, <2>6
    <3> QED
      BY <1>1, <2>6, <3>1, WithTopIs
  <2>8. TypeOK'
    <3>1. /\ r \in Nat \ {0} /\ k \in Nat /\ read' \in Seq(Tokens) /\ Len(read') = r
          /\ result' \in 0 .. k /\ statement' \in 0 .. k
      BY <1>1, <1>2, ReadIs, StateIs
    <3> QED
      BY <1>1, <2>5, <2>7, <3>1, TypesAre DEF TypeOK
  <2> QED
    BY <1>1, <1>2, <1>4, <2>5, <2>7, <2>8, TokenIs DEF n
<1> QED
  BY <1>3, <1>4

(* do_compile_expr_root, and failure.                                      *)
LEMMA StatementDoneIs ==
  ASSUME TInv, StatementDone
  PROVE  /\ TypeOK' /\ Len(nodes') = Len(nodes)
         /\ \A m \in 1 .. Len(nodes) :
              /\ SameBut(nodes, nodes', m)
              /\ nodes'[m].after = IF m = statement THEN <<result>> ELSE nodes[m].after
         /\ statement' = IF statement = 0 THEN result ELSE statement
<1>1. /\ TypeOK /\ result \in 1 .. Len(nodes) /\ nodes \in Seq(NodeSet(Len(read), Len(nodes)))
      /\ statement \in 0 .. Len(nodes) /\ Len(nodes) \in Nat /\ Len(read) \in Nat \ {0}
      /\ calls \in Seq(CallSet(Len(read), Len(nodes)))
  BY StateIs DEF TInv, StatementDone
<1>2. ASSUME nodes' \in Seq(NodeSet(Len(read), Len(nodes))), Len(nodes') = Len(nodes)
      PROVE  TypeOK'
  BY <1>1, <1>2, TypesAre DEF StatementDone, TypeOK
<1>3. CASE statement = 0
  BY <1>1, <1>2, <1>3 DEF StatementDone, SameBut
<1>4. CASE statement # 0
  <2> DEFINE r == Len(read)
             k == Len(nodes)
  <2>1. /\ nodes' = WithAfter(nodes, statement, <<result>>) /\ statement \in 1 .. Len(nodes)
        /\ <<result>> \in Seq(1 .. k) /\ r \in Nat /\ k \in Nat /\ nodes \in Seq(NodeSet(r, k))
        /\ statement' = statement
    BY <1>1, <1>4 DEF StatementDone, WithAfter
  <2> HIDE DEF r, k
  <2>2. /\ nodes' \in Seq(NodeSet(r, k)) /\ Len(nodes') = Len(nodes)
        /\ SameBut(nodes, nodes', statement) /\ nodes'[statement].after = <<result>>
        /\ \A m \in 1 .. Len(nodes) : m # statement => nodes'[m] = nodes[m]
    <3> DEFINE v == WithAfter(nodes, statement, <<result>>)
           a == <<result>>
           w == statement
    <3>3. nodes \in Seq(NodeSet(r, k)) /\ a \in Seq(1 .. k) /\ w \in 1 .. Len(nodes) /\ r \in Nat /\ k \in Nat
      BY <2>1
    <3>4. v = WithAfter(nodes, w, a)
      OBVIOUS
    <3>2. nodes' = v
      BY <2>1
    <3> HIDE DEF a, w, v
    <3>5. /\ v \in Seq(NodeSet(r, k)) /\ Len(v) = Len(nodes)
          /\ SameBut(nodes, v, w) /\ v[w].after = a
          /\ \A m \in 1 .. Len(nodes) : m # w => v[m] = nodes[m]
      BY <3>3, <3>4, AfterIs
    <3>1. /\ v \in Seq(NodeSet(r, k)) /\ Len(v) = Len(nodes)
          /\ SameBut(nodes, v, statement) /\ v[statement].after = <<result>>
          /\ \A m \in 1 .. Len(nodes) : m # statement => v[m] = nodes[m]
      BY <3>5 DEF w, a
    <3> QED
      BY <3>1, <3>2 DEF SameBut
  <2>3. TypeOK'
    BY <1>2, <2>2 DEF r, k
  <2> QED
    BY <1>4, <2>1, <2>2, <2>3 DEF SameBut
<1> QED
  BY <1>3, <1>4

IfNode == [kind |-> "if", at |-> Len(read), by |-> 0, before |-> <<statement>>, after |-> <<>>]

LEMMA ConditionIs ==
  ASSUME TInv, Condition
  PROVE  /\ TypeOK' /\ TokenTaken /\ NodeMade(IfNode) /\ statement' = New
         /\ Len(calls') = 1 /\ calls'[1] = Call("root", Len(read) + 1)
<1> DEFINE r == Len(read) + 1
           k == Len(nodes) + 1
<1>1. TypeOK /\ GetToken /\ ReadOn(r) /\ statement # 0 /\ nodes' = Append(nodes, IfNode) /\ New = k
  BY DEF TInv, Condition, InLoop, ReadOn, IfNode, New
<1>2. /\ r \in Nat \ {0} /\ k \in Nat /\ Len(read) \in Nat \ {0} /\ Len(nodes) \in Nat
      /\ read' \in Seq(Tokens) /\ Len(read') = r /\ statement \in 1 .. k
  BY <1>1, StateIs, ReadIs
<1>3. IfNode \in NodeSet(r, k)
  <2>1. <<statement>> \in Seq(1 .. k) /\ <<>> \in Seq(1 .. k) /\ Len(read) \in 1 .. r /\ 0 \in 0 .. r
    BY <1>2
  <2> QED
    BY <2>1 DEF IfNode, NodeSet
<1>4. NodeMade(IfNode) /\ nodes' \in Seq(NodeSet(r, k)) /\ Len(nodes') = k
  BY <1>1, <1>2, <1>3, NodeIs DEF NodeMade
<1>5. Call("root", r) \in CallSet(r, k)
  BY <1>2 DEF Call, CallSet, States, Steps
<1>6. calls' \in Seq(CallSet(r, k)) /\ Len(calls') = 1 /\ calls'[1] = Call("root", r)
  BY <1>5 DEF Condition
<1>7. result' \in 0 .. k /\ statement' \in 0 .. k
  BY <1>1, <1>2 DEF Condition, InLoop
<1>8. TypeOK'
  BY <1>1, <1>2, <1>4, <1>6, <1>7, TypesAre DEF Condition, TypeOK
<1> QED
  BY <1>1, <1>4, <1>6, <1>8, TokenIs DEF Condition

LEMMA FailIs ==
  ASSUME TInv, Fail
  PROVE  TypeOK' /\ Len(calls') = 0
<1>1. /\ TypeOK /\ Len(nodes) \in Nat /\ Len(read) \in Nat \ {0} /\ nodes \in Seq(NodeSet(Len(read), Len(nodes)))
      /\ statement \in 0 .. Len(nodes) /\ result' \in 0 .. Len(nodes)
  BY StateIs DEF TInv, Fail
<1>2. calls' \in Seq(CallSet(Len(read), Len(nodes))) /\ Len(calls') = 0
  BY DEF Fail
<1> QED
  BY <1>1, <1>2, TypesAre DEF Fail, TypeOK

(* The actions that end a statement in an error, and those that leave the  *)
(* nodes and the calls alone.                                              *)
Fails == NoOperand \/ OpenList \/ BadSymbol \/ NoOperator

LEMMA FailsIs ==
  ASSUME TInv, Fails
  PROVE  Fail /\ calls # <<>> /\ result = 0 /\ verdict = "compiling"
BY DEF Fails, NoOperand, OpenList, BadSymbol, NoOperator, Unsigned, At

Rests == Accept \/ Turn \/ UNCHANGED vars

LEMMA RestsIs ==
  ASSUME TInv, Rests
  PROVE  /\ TypeOK' /\ UNCHANGED <<read, nodes, calls, result, statement, failed>>
         /\ verdict' = verdict \/ (verdict' = "accepted" /\ Accept)
<1>1. TypeOK /\ UNCHANGED <<read, nodes, calls, result, statement, failed>>
  BY DEF TInv, Rests, Accept, Turn, vars
<1>2. (UNCHANGED verdict \/ verdict' = "accepted") /\ (~Accept => UNCHANGED verdict)
  BY DEF Rests, Accept, Turn, vars
<1>3. TypeOK'
  BY <1>1, <1>2, StateIs, TypesAre DEF TypeOK
<1> QED
  BY <1>1, <1>2, <1>3

LEMMA ActionsAre ==
  ASSUME [Next]_vars
  PROVE  \/ Sign \/ Operand \/ Inner \/ Block \/ List \/ NextArgument \/ EndOfList
         \/ Index \/ Dot \/ DotAtEnd \/ EndOfSymbol \/ EndOfExpr \/ Operator
         \/ InnerDone \/ BlockDone \/ ArgumentDone \/ IndexDone \/ StatementDone \/ Condition
         \/ Fails \/ Rests
BY DEF Next, Fails, Rests

(* What each step of a call has in hand stays so.                          *)
LEMMA HeldKeptByTop ==
  ASSUME TInv, calls # <<>>, NEW c, Held(c), TopBecomes(c)
  PROVE  HeldInv'
<1>1. Len(calls) \in Nat
  BY StateIs DEF TInv
<1> QED
  BY <1>1 DEF TInv, HeldInv, TopBecomes

LEMMA HeldKeptByPush ==
  ASSUME TInv, calls # <<>>, NEW c, NEW s, NEW f, Held(c), Pushed(c, s, f)
  PROVE  HeldInv'
<1>1. Len(calls) \in Nat
  BY StateIs DEF TInv
<1>2. Held(Call(s, f))
  BY DEF Held, Call
<1> QED
  BY <1>1, <1>2 DEF TInv, HeldInv, Pushed

LEMMA TypesAtStart == Init => TInv
<1> SUFFICES ASSUME Init PROVE TInv
  OBVIOUS
<1>1. PICK t \in Tokens : read = <<t>>
  BY DEF Init
<1>2. read \in Seq(Tokens) /\ Len(read) = 1 /\ Len(nodes) = 0 /\ read # <<>>
  BY <1>1 DEF Init
<1>3. Call("root", 1) \in CallSet(1, 0)
  BY DEF Call, CallSet, States, Steps
<1>4. /\ calls \in Seq(CallSet(1, 0)) /\ Len(calls) = 1 /\ calls[1] = Call("root", 1)
      /\ nodes \in Seq(NodeSet(1, 0))
  BY <1>3 DEF Init
<1>5. Nodes = NodeSet(1, 0) /\ Calls = CallSet(1, 0)
  BY <1>2, SetsAre
<1>6. TypeOK
  <2>1. /\ result = 0 /\ statement = 0 /\ 0 \in Ids /\ failed = FALSE /\ verdict = "compiling"
    BY <1>2 DEF Init, Ids
  <2> QED
    BY <1>2, <1>4, <1>5, <2>1 DEF TypeOK
<1>7. Held(Call("root", 1))
  BY DEF Held, Call
<1> QED
  BY <1>4, <1>6, <1>7 DEF TInv, HeldInv

LEMMA TypesKept == TInv /\ [Next]_vars => TInv'
<1> SUFFICES ASSUME TInv, [Next]_vars PROVE TypeOK' /\ HeldInv'
  BY DEF TInv
<1> DEFINE r == Len(read)
           k == Len(nodes)
<1>1. TypeOK /\ r \in Nat \ {0} /\ k \in Nat
  BY StateIs DEF TInv
<1>2. ASSUME calls # <<>> PROVE /\ Top \in CallSet(r, k) /\ Held(Top) /\ Top.parts \in Seq(1 .. k)
  BY <1>1, <1>2, TopIs DEF TInv, HeldInv, CallSet
<1>3. CASE Sign
  <2>1. calls # <<>> /\ Top.step = "symbol"
    BY <1>3 DEF Sign, At
  <2>2. Held([Top EXCEPT !.step = "signed", !.neg = TRUE])
    BY <1>2, <2>1 DEF Held, CallSet
  <2> QED
    BY <1>3, <2>1, <2>2, SignIs, HeldKeptByTop
<1>4. CASE Operand
  <2>1. calls # <<>> /\ New # 0
    BY <1>1, <1>4 DEF Operand, Unsigned, At, New
  <2>2. Held([Top EXCEPT !.current = New, !.step = "postfix", !.bad = BadNow])
    BY <1>2, <2>1 DEF Held, CallSet
  <2> QED
    BY <1>4, <2>1, <2>2, OperandIs, HeldKeptByTop
<1>5. ASSUME calls # <<>>, Top.step \in {"symbol", "signed"},
             NEW s \in {"inner", "block", "list"}
      PROVE  Held(Opens(s))
  <2>1. s \in Steps
    BY DEF Steps
  <2> QED
    BY <1>1, <1>2, <1>5, <2>1, OpensIs DEF Held
<1>6. CASE Inner
  BY <1>5, <1>6, InnerIs, HeldKeptByPush DEF Inner, Unsigned, At
<1>7. CASE Block
  BY <1>5, <1>7, BlockIs, HeldKeptByPush DEF Block, Unsigned, At
<1>8. CASE List
  BY <1>5, <1>8, ListIs, HeldKeptByTop DEF List, Unsigned, At
<1>9. CASE NextArgument
  <2>1. calls # <<>>
    BY <1>9 DEF NextArgument, At
  <2> QED
    BY <1>2, <1>9, <2>1, NextArgumentIs, HeldKeptByPush
<1>10. ASSUME calls # <<>>, Top.step \in {"list", "block"}
       PROVE  Held([Top EXCEPT !.current = New, !.step = "postfix"])
  <2>1. New # 0
    BY <1>1 DEF New
  <2> QED
    BY <1>2, <1>10, <2>1 DEF Held, CallSet
<1>11. CASE EndOfList
  BY <1>10, <1>11, EndOfListIs, HeldKeptByTop DEF EndOfList, At
<1>12. CASE BlockDone
  BY <1>10, <1>12, BlockDoneIs, HeldKeptByTop DEF BlockDone, Waits
<1>13. CASE Index
  <2>1. calls # <<>> /\ Top.step = "postfix"
    BY <1>13 DEF Index, At
  <2>2. Held(IndexedTop)
    BY <1>1, <1>2, <2>1 DEF Held, IndexedTop, CallSet
  <2> QED
    BY <1>13, <2>1, <2>2, IndexIs, HeldKeptByPush
<1>14. CASE Dot
  <2>1. calls # <<>> /\ Top.step = "postfix"
    BY <1>14 DEF Dot, At
  <2>2. Append(Top.parts, Top.current) # <<>>
    <3>1. Len(Append(Top.parts, Top.current)) = Len(Top.parts) + 1 /\ Len(Top.parts) \in Nat
      BY <1>2, <2>1
    <3> QED
      BY <3>1
  <2> DEFINE q == Append(Top.parts, Top.current)
             d == IF Top.dot = 0 THEN Len(read) ELSE Top.dot
  <2>3. d # 0
    BY <1>1
  <2>4. DottedTop = [Top EXCEPT !.dot = d, !.parts = q, !.current = 0, !.step = "symbol"] /\ q # <<>>
    BY <2>2 DEF DottedTop
  <2> HIDE DEF q, d
  <2>5. Held(DottedTop)
    BY <1>2, <2>1, <2>3, <2>4 DEF Held, CallSet
  <2> QED
    BY <1>14, <2>1, <2>5, DotIs, HeldKeptByTop
<1>15. ASSUME calls # <<>> PROVE Held(WholeTop)
  <2>1. New # 0
    BY <1>1 DEF New
  <2> QED
    BY <1>2, <1>15, <2>1 DEF WholeTop, Held, CallSet
<1>16. CASE DotAtEnd
  BY <1>15, <1>16, DotAtEndIs, HeldKeptByTop DEF DotAtEnd, At
<1>17. CASE EndOfSymbol
  <2>1. calls # <<>> /\ Top.step = "postfix"
    BY <1>17 DEF EndOfSymbol, At
  <2>2. Top.dot = 0 => Held(PlainTop)
    BY <1>2, <2>1 DEF Held, PlainTop, CallSet
  <2> QED
    BY <1>15, <1>17, <2>1, <2>2, EndOfSymbolIs, HeldKeptByTop
<1>18. CASE EndOfExpr
  <2>1. calls # <<>>
    BY <1>18 DEF EndOfExpr, At
  <2> QED
    BY <1>1, <1>18, <2>1, EndOfExprIs, TopIs DEF TInv, HeldInv
<1>19. CASE Operator
  <2>1. calls # <<>> /\ Top.step = "operator"
    BY <1>19 DEF Operator, At
  <2>2. Held(OnTop)
    BY <1>2, <2>1 DEF OnTop, Held, CallSet
  <2>3. ASSUME NEW i PROVE Held(Behind(i))
    BY <1>2, <2>1 DEF Behind, Held, CallSet
  <2> QED
    BY <1>19, <2>1, <2>2, <2>3, OperatorIs, HeldKeptByTop
<1>20. CASE InnerDone
  <2>1. calls # <<>> /\ Top.step = "inner" /\ result # 0
    BY <1>20 DEF InnerDone, Waits
  <2>2. Held(InnerTop)
    BY <1>2, <2>1 DEF InnerTop, Held, CallSet
  <2> QED
    BY <1>20, <2>1, <2>2, InnerDoneIs, HeldKeptByTop
<1>21. CASE ArgumentDone
  <2>1. calls # <<>> /\ Top.step = "list"
    BY <1>21 DEF ArgumentDone, Waits
  <2>2. Held(ListTop)
    BY <1>2, <2>1 DEF ListTop, Held, CallSet
  <2> QED
    BY <1>21, <2>1, <2>2, ArgumentDoneIs, HeldKeptByTop
<1>22. CASE IndexDone
  <2>1. calls # <<>> /\ New # 0 /\ New + 1 # 0
    BY <1>1, <1>22 DEF IndexDone, Waits, New
  <2>2. Held(IndexTop(New)) /\ Held(IndexTop(New + 1))
    BY <1>2, <2>1 DEF IndexTop, Held, CallSet
  <2> QED
    BY <1>22, <2>1, <2>2, IndexDoneIs, HeldKeptByTop
<1>23. CASE StatementDone
  <2>1. UNCHANGED calls
    BY <1>23 DEF StatementDone
  <2> QED
    BY <1>23, <2>1, StatementDoneIs DEF TInv, HeldInv
<1>24. CASE Condition
  <2>1. Held(Call("root", Len(read) + 1))
    BY DEF Held, Call
  <2>2. TypeOK' /\ Len(calls') = 1 /\ calls'[1] = Call("root", Len(read) + 1)
    BY <1>24, ConditionIs
  <2>3. ASSUME NEW d \in 1 .. Len(calls') PROVE Held(calls'[d])
    <3>1. d = 1
      BY <2>2
    <3> QED
      BY <2>1, <2>2, <3>1
  <2> QED
    BY <2>2, <2>3 DEF HeldInv
<1>25. CASE Fails
  BY <1>25, FailsIs, FailIs DEF HeldInv
<1>26. CASE Rests
  BY <1>26, RestsIs DEF TInv, HeldInv
<1> QED
  BY ActionsAre, <1>3, <1>4, <1>6, <1>7, <1>8, <1>9, <1>11, <1>12, <1>13, <1>14, <1>16, <1>17,
     <1>18, <1>19, <1>20, <1>21, <1>22, <1>23, <1>24, <1>25, <1>26

(* The variables have their types, whatever is read: every step finds the  *)
(* token, the operand and the operators in the place it takes them from.   *)
THEOREM TypeCorrect == Spec => []TypeOK
<1>1. Spec => []TInv
  BY TypesAtStart, TypesKept, PTL DEF Spec
<1>2. TInv => TypeOK
  BY DEF TInv
<1> QED
  BY <1>1, <1>2, PTL

-----------------------------------------------------------------------------
(* The calls are nested: a call that waits for another one began before     *)
(* the mark it opened, and the other one begins behind that.               *)
Outer == {"inner", "block", "list", "index"}

Nested ==
  /\ \A d, e \in 1 .. Len(calls) : d < e => calls[d].step \in Outer /\ calls[d].open < calls[e].from
  /\ \A d \in 1 .. Len(calls) : calls[d].step \in Outer =>
       calls[d].from <= calls[d].open /\ calls[d].open < Len(read)
  /\ result # 0 /\ calls # <<>> => Top.step \in Outer

OInv == TInv /\ Nested

ReadKept == Len(read) <= Len(read') /\ \A p \in 1 .. Len(read) : read'[p] = read[p]

LEMMA TakenIsKept == TypeOK /\ (TokenTaken \/ UNCHANGED read) => ReadKept
BY StateIs DEF TokenTaken, ReadKept

LEMMA PlacesAre ==
  ASSUME TypeOK
  PROVE  /\ Len(read) \in Nat \ {0} /\ Len(calls) \in Nat /\ Len(nodes) \in Nat
         /\ \A d \in 1 .. Len(calls) : /\ calls[d].from \in 1 .. Len(read) /\ calls[d].open \in 0 .. Len(read)
                                       /\ calls[d].dot \in 0 .. Len(read) /\ calls[d].current \in 0 .. Len(nodes)
         /\ calls # <<>> => Len(calls) >= 1 /\ Top = calls[Len(calls)]
         /\ Len(calls) >= 1 => calls # <<>>
<1>1. ASSUME NEW d \in 1 .. Len(calls)
      PROVE  /\ calls[d].from \in 1 .. Len(read) /\ calls[d].open \in 0 .. Len(read)
             /\ calls[d].dot \in 0 .. Len(read) /\ calls[d].current \in 0 .. Len(nodes)
  <2>1. calls[d] \in CallSet(Len(read), Len(nodes))
    BY StateIs
  <2> QED
    BY <2>1 DEF CallSet
<1>2. calls \in Seq(CallSet(Len(read), Len(nodes)))
  BY StateIs
<1> QED
  BY <1>1, <1>2, StateIs, TopIs

LEMMA NextIs ==
  ASSUME TypeOK'
  PROVE  /\ Len(read') \in Nat \ {0} /\ Len(nodes') \in Nat /\ Len(calls') \in Nat
         /\ calls' # <<>> <=> Len(calls') >= 1
BY DEF TypeOK

LEMMA NestedKeptByTop ==
  ASSUME OInv, TypeOK', calls # <<>>, NEW c, TopBecomes(c), ReadKept, c.from = Top.from,
         c.step \in Outer => c.from <= c.open /\ c.open < Len(read'),
         result' # 0 => c.step \in Outer
  PROVE  Nested'
<1>1. /\ TypeOK /\ Nested /\ Len(calls') = Len(calls) /\ calls'[Len(calls)] = c
      /\ \A d \in 1 .. Len(calls) - 1 : calls'[d] = calls[d]
  BY DEF OInv, TInv, TopBecomes
<1>2. /\ Len(read) \in Nat /\ Len(read') \in Nat /\ Len(calls) \in Nat /\ Len(calls) >= 1 /\ Top = calls[Len(calls)]
      /\ Len(read) <= Len(read') /\ Top' = c /\ calls' # <<>>
  <2>1. Len(read') \in Nat
    BY NextIs
  <2> QED
    BY <1>1, <2>1, PlacesAre DEF ReadKept, Top
<1>3. ASSUME NEW d \in 1 .. Len(calls'), NEW e \in 1 .. Len(calls'), d < e
      PROVE  calls'[d].step \in Outer /\ calls'[d].open < calls'[e].from
  <2>1. d \in 1 .. Len(calls) - 1 /\ calls'[d] = calls[d] /\ calls'[e].from = calls[e].from
    BY <1>1, <1>2, <1>3
  <2> QED
    BY <1>1, <1>2, <1>3, <2>1 DEF Nested
<1>4. ASSUME NEW d \in 1 .. Len(calls'), calls'[d].step \in Outer
      PROVE  calls'[d].from <= calls'[d].open /\ calls'[d].open < Len(read')
  <2>1. CASE d = Len(calls)
    BY <1>1, <1>4, <2>1
  <2>2. CASE d # Len(calls)
    <3>1. d \in 1 .. Len(calls) /\ calls'[d] = calls[d]
      BY <1>1, <1>2, <2>2
    <3>2. calls[d].from <= calls[d].open /\ calls[d].open < Len(read)
      BY <1>1, <1>4, <3>1 DEF Nested
    <3>3. calls[d].open \in Int
      BY <1>1, <3>1, PlacesAre
    <3> QED
      BY <1>2, <3>1, <3>2, <3>3
  <2> QED
    BY <2>1, <2>2
<1> QED
  BY <1>2, <1>3, <1>4 DEF Nested

LEMMA NestedKeptByPush ==
  ASSUME OInv, TypeOK', calls # <<>>, NEW c, NEW s, NEW f, Pushed(c, s, f), ReadKept, c.from = Top.from,
         c.step \in Outer, c.from <= c.open, c.open < f, f <= Len(read'), c.open < Len(read'), f >= Len(read), f \in Int,
         UNCHANGED result, result = 0
  PROVE  Nested'
<1> DEFINE t == Len(calls)
<1>1. /\ TypeOK /\ Nested /\ Len(calls') = t + 1 /\ calls'[t] = c /\ calls'[t + 1] = Call(s, f)
      /\ \A d \in 1 .. t - 1 : calls'[d] = calls[d]
  BY DEF OInv, TInv, Pushed
<1>2. /\ Len(read) \in Nat /\ Len(read') \in Nat /\ t \in Nat /\ t >= 1 /\ Top = calls[t]
      /\ Len(read) <= Len(read')
  <2>1. Len(read') \in Nat
    BY NextIs
  <2> QED
    BY <1>1, <2>1, PlacesAre DEF ReadKept
<1>3. Call(s, f).from = f /\ Call(s, f).step = "symbol"
  BY DEF Call
<1>4. \A d \in 1 .. t : calls[d].open \in Int /\ calls[d].from \in Int
  BY <1>1, PlacesAre
<1> HIDE DEF t
<1>5. ASSUME NEW d \in 1 .. t, d # t
      PROVE  /\ calls'[d] = calls[d] /\ calls[d].step \in Outer /\ calls[d].open < calls[t].from
             /\ calls[d].from <= calls[d].open /\ calls[d].open < Len(read)
  BY <1>1, <1>2, <1>5 DEF Nested, t
<1>6. ASSUME NEW d \in 1 .. t + 1, NEW e \in 1 .. t + 1, d < e
      PROVE  calls'[d].step \in Outer /\ calls'[d].open < calls'[e].from
  <2>1. CASE e = t + 1 /\ d = t
    BY <1>1, <1>3, <2>1
  <2>2. CASE e = t + 1 /\ d # t
    <3>1. d \in 1 .. t /\ d # t
      BY <1>2, <1>6, <2>2
    <3> QED
      BY <1>1, <1>2, <1>3, <1>4, <1>5, <2>2, <3>1
  <2>3. CASE e # t + 1
    <3>1. d \in 1 .. t /\ d # t /\ e \in 1 .. t
      BY <1>2, <1>6, <2>3
    <3>2. calls'[e].from = calls[e].from
      BY <1>1, <1>2, <1>5, <3>1
    <3> QED
      BY <1>1, <1>5, <1>6, <3>1, <3>2 DEF Nested, t
  <2> QED
    BY <2>1, <2>2, <2>3
<1>7. ASSUME NEW d \in 1 .. t + 1, calls'[d].step \in Outer
      PROVE  calls'[d].from <= calls'[d].open /\ calls'[d].open < Len(read')
  <2>1. CASE d = t + 1
    BY <1>1, <1>3, <1>7, <2>1 DEF Outer
  <2>2. CASE d = t
    BY <1>1, <2>2
  <2>3. CASE d # t /\ d # t + 1
    <3>1. d \in 1 .. t /\ d # t
      BY <1>2, <2>3
    <3> QED
      BY <1>2, <1>4, <1>5, <3>1
  <2> QED
    BY <2>1, <2>2, <2>3
<1> QED
  BY <1>1, <1>2, <1>6, <1>7 DEF Nested

LEMMA NestedAtStart == Init => Nested
BY DEF Init, Nested, Call, Outer

LEMMA NestedKept == OInv /\ [Next]_vars => Nested'
<1> SUFFICES ASSUME OInv, [Next]_vars PROVE Nested'
  OBVIOUS
<1> DEFINE r == Len(read)
           k == Len(nodes)
<1>0. TypeOK /\ TInv /\ Nested /\ r \in Nat \ {0} /\ k \in Nat
  BY StateIs DEF OInv, TInv
<1>1. TypeOK'
  BY <1>0, TypesKept DEF TInv
<1>2. ASSUME calls # <<>>
      PROVE  /\ Top \in CallSet(r, k) /\ Top.from \in 1 .. r
             /\ Top.step \in Outer => Top.from <= Top.open /\ Top.open < r
  BY <1>0, <1>2, TopIs, PlacesAre DEF Nested
<1>3. TokenTaken => ReadKept /\ Len(read') = r + 1
  BY <1>0, TakenIsKept DEF TokenTaken
<1>4. UNCHANGED read => ReadKept
  BY <1>0, TakenIsKept
<1>5. ASSUME calls # <<>>, NEW c, TopBecomes(c), TokenTaken \/ UNCHANGED read, c.from = Top.from,
             c.step \notin Outer, result' = 0
      PROVE  Nested'
  BY <1>0, <1>1, <1>3, <1>4, <1>5, NestedKeptByTop
<1>6. CASE Sign
  <2>1. calls # <<>> /\ result' = 0
    BY <1>6 DEF Sign, At
  <2> QED
    BY <1>0, <1>2, <1>5, <1>6, <2>1, SignIs DEF Outer, CallSet
<1>7. CASE Operand
  <2>1. calls # <<>> /\ result' = 0
    BY <1>7 DEF Operand, Unsigned, At
  <2> QED
    BY <1>0, <1>2, <1>5, <1>7, <2>1, OperandIs DEF Outer, CallSet
<1>8. ASSUME calls # <<>>, NEW s \in Outer
      PROVE  Opens(s).from = Top.from /\ Opens(s).step = s /\ Opens(s).open = r /\ Top.from <= r
  BY <1>0, <1>2, <1>8, OpensIs DEF Outer, Steps
<1>9. CASE Inner
  <2>1. calls # <<>> /\ result = 0 /\ UNCHANGED result
    BY <1>9 DEF Inner, Unsigned, At
  <2> QED
    BY <1>0, <1>1, <1>3, <1>8, <1>9, <2>1, InnerIs, NestedKeptByPush DEF Outer
<1>10. CASE Block
  <2>1. calls # <<>> /\ result = 0 /\ UNCHANGED result
    BY <1>10 DEF Block, Unsigned, At
  <2> QED
    BY <1>0, <1>1, <1>3, <1>8, <1>10, <2>1, BlockIs, NestedKeptByPush DEF Outer
<1>11. CASE List
  <2>1. calls # <<>> /\ result' = 0
    BY <1>11 DEF List, Unsigned, At
  <2> QED
    BY <1>0, <1>1, <1>3, <1>8, <1>11, <2>1, ListIs, NestedKeptByTop DEF Outer
<1>12. CASE NextArgument
  <2>1. calls # <<>> /\ result = 0 /\ UNCHANGED <<result, read>> /\ Top.step = "list"
    BY <1>12 DEF NextArgument, At
  <2>2. PICK s \in {"argument", "array"} : Pushed(Top, s, r)
    BY <1>0, <1>12, NextArgumentIs
  <2>3. Top.from <= Top.open /\ Top.open < r /\ Top.step \in Outer
    BY <1>2, <2>1 DEF Outer
  <2> QED
    BY <1>0, <1>1, <1>4, <2>1, <2>2, <2>3, NestedKeptByPush
<1>13. CASE EndOfList
  <2>1. calls # <<>> /\ result' = 0
    BY <1>13 DEF EndOfList, At
  <2> QED
    BY <1>0, <1>2, <1>5, <1>13, <2>1, EndOfListIs DEF Outer, CallSet
<1>14. CASE Index
  <2>1. calls # <<>> /\ result = 0 /\ UNCHANGED result
    BY <1>14 DEF Index, At
  <2>2. IndexedTop.from = Top.from /\ IndexedTop.step = "index" /\ IndexedTop.open = r /\ Top.from <= r
    BY <1>0, <1>2, <2>1 DEF IndexedTop, CallSet
  <2> QED
    BY <1>0, <1>1, <1>3, <1>14, <2>1, <2>2, IndexIs, NestedKeptByPush DEF Outer
<1>15. CASE Dot
  <2>1. calls # <<>> /\ result' = 0
    BY <1>15 DEF Dot, At
  <2>2. DottedTop.from = Top.from /\ DottedTop.step = "symbol"
    BY <1>2, <2>1 DEF DottedTop, CallSet
  <2> QED
    BY <1>0, <1>5, <1>15, <2>1, <2>2, DotIs DEF Outer
<1>16. ASSUME calls # <<>>
       PROVE  /\ WholeTop.from = Top.from /\ WholeTop.step = "operator"
              /\ PlainTop.from = Top.from /\ PlainTop.step = "operator"
  BY <1>2, <1>16 DEF WholeTop, PlainTop, CallSet
<1>17. CASE DotAtEnd
  <2>1. calls # <<>> /\ result' = 0 /\ UNCHANGED read
    BY <1>17 DEF DotAtEnd, At
  <2> QED
    BY <1>0, <1>5, <1>16, <1>17, <2>1, DotAtEndIs DEF Outer
<1>18. CASE EndOfSymbol
  <2>1. calls # <<>> /\ result' = 0 /\ UNCHANGED read
    BY <1>18 DEF EndOfSymbol, At
  <2> QED
    BY <1>0, <1>5, <1>16, <1>18, <2>1, EndOfSymbolIs DEF Outer
<1>19. CASE EndOfExpr
  <2>1. calls # <<>> /\ UNCHANGED read
    BY <1>19 DEF EndOfExpr, At
  <2>2. Len(calls') = Len(calls) - 1 /\ \A d \in 1 .. Len(calls) - 1 : calls'[d] = calls[d]
    BY <1>0, <1>19, EndOfExprIs
  <2>3. Len(calls) \in Nat \ {0}
    BY <1>0, <2>1, TopIs
  <2>4. calls' # <<>> => Top'.step \in Outer
    <3> SUFFICES ASSUME calls' # <<>> PROVE Top'.step \in Outer
      OBVIOUS
    <3>1. Len(calls') >= 1
      BY <1>1, NextIs
    <3>2. Top' = calls[Len(calls) - 1] /\ Len(calls) - 1 \in 1 .. Len(calls) /\ Len(calls) \in 1 .. Len(calls)
      BY <2>2, <2>3, <3>1 DEF Top
    <3> QED
      BY <1>0, <2>3, <3>2 DEF Nested
  <2> QED
    BY <1>0, <2>1, <2>2, <2>3, <2>4 DEF Nested
<1>20. CASE Operator
  <2>1. calls # <<>> /\ result' = 0
    BY <1>20 DEF Operator, At
  <2>2. OnTop.from = Top.from /\ OnTop.step = "symbol"
    BY <1>2, <2>1 DEF OnTop, CallSet
  <2>3. ASSUME NEW i PROVE Behind(i).from = Top.from /\ Behind(i).step = "symbol"
    BY <1>2, <2>1 DEF Behind, CallSet
  <2> QED
    BY <1>0, <1>5, <1>20, <2>1, <2>2, <2>3, OperatorIs DEF Outer
<1>21. CASE InnerDone
  <2>1. calls # <<>> /\ result' = 0
    BY <1>21 DEF InnerDone, Waits
  <2>2. InnerTop.from = Top.from /\ InnerTop.step = "postfix"
    BY <1>2, <2>1 DEF InnerTop, CallSet
  <2> QED
    BY <1>0, <1>5, <1>21, <2>1, <2>2, InnerDoneIs DEF Outer
<1>22. CASE BlockDone
  <2>1. calls # <<>> /\ result' = 0
    BY <1>22 DEF BlockDone, Waits
  <2> QED
    BY <1>0, <1>2, <1>5, <1>22, <2>1, BlockDoneIs DEF Outer, CallSet
<1>23. CASE ArgumentDone
  <2>1. calls # <<>> /\ result' = 0 /\ Top.step = "list"
    BY <1>23 DEF ArgumentDone, Waits
  <2>2. ListTop.from = Top.from /\ ListTop.step = "list" /\ ListTop.open = Top.open
    BY <1>2, <2>1 DEF ListTop, CallSet
  <2>3. TopBecomes(ListTop) /\ ReadKept
    BY <1>0, <1>3, <1>4, <1>23, ArgumentDoneIs
  <2>4. Top.from <= Top.open /\ Top.open < Len(read')
    <3>1. Top.open < r /\ Top.open \in Int /\ Top.from <= Top.open /\ r <= Len(read') /\ Len(read') \in Int
      <4>1. Len(read') \in Int
        BY <1>1, NextIs
      <4> QED
        BY <1>0, <1>2, <2>1, <2>3, <4>1, TopIs, PlacesAre DEF Outer, ReadKept
    <3> QED
      BY <3>1, <1>0
  <2> QED
    BY <1>0, <1>1, <2>1, <2>2, <2>3, <2>4, NestedKeptByTop DEF Outer
<1>24. CASE IndexDone
  <2>1. calls # <<>> /\ result' = 0
    BY <1>24 DEF IndexDone, Waits
  <2>2. ASSUME NEW n PROVE IndexTop(n).from = Top.from /\ IndexTop(n).step = "postfix"
    BY <1>2, <2>1 DEF IndexTop, CallSet
  <2> QED
    BY <1>0, <1>5, <1>24, <2>1, <2>2, IndexDoneIs DEF Outer
<1>25. CASE StatementDone
  BY <1>0, <1>25 DEF StatementDone, Nested
<1>26. CASE Condition
  <2>1. Len(calls') = 1 /\ calls'[1] = Call("root", r + 1) /\ result' = 0
    BY <1>0, <1>26, ConditionIs DEF Condition, InLoop
  <2>2. Call("root", r + 1).step = "symbol"
    BY DEF Call
  <2>3. ASSUME NEW d \in 1 .. Len(calls') PROVE d = 1 /\ calls'[d].step \notin Outer
    BY <2>1, <2>2 DEF Outer
  <2> QED
    BY <2>1, <2>3 DEF Nested
<1>27. CASE Fails
  BY <1>0, <1>27, FailsIs, FailIs DEF Nested, Fail
<1>28. CASE Rests
  BY <1>0, <1>28, RestsIs DEF Nested, Top
<1> QED
  BY ActionsAre, <1>6, <1>7, <1>9, <1>10, <1>11, <1>12, <1>13, <1>14, <1>15, <1>17, <1>18, <1>19,
     <1>20, <1>21, <1>22, <1>23, <1>24, <1>25, <1>26, <1>27, <1>28

-----------------------------------------------------------------------------
(* Most steps keep the nodes that are there and the operators that wait,   *)
(* add operands and no operator, and turn the call on top or start one.    *)
NodesKept ==
  /\ Len(nodes) <= Len(nodes')
  /\ \A m \in 1 .. Len(nodes) : nodes'[m] = nodes[m]
  /\ \A m \in Len(nodes) + 1 .. Len(nodes') : nodes'[m].kind \notin {"operation", "if"}

Quiet == ReadKept /\ NodesKept /\ calls # <<>> /\ result' = 0 /\ UNCHANGED <<statement, failed, verdict>>

SameOps(c) == c.ops = Top.ops /\ c.from = Top.from

TurnsTop ==
  Quiet /\ \E c \in CallSet(Len(read'), Len(nodes')) :
    /\ TopBecomes(c) /\ SameOps(c)
    /\ c.current \in {0, Top.current, result} \cup (Len(nodes) + 1 .. Len(nodes'))

StartsCall ==
  Quiet /\ UNCHANGED nodes /\ result = 0
  /\ \E c \in CallSet(Len(read'), Len(nodes')), s \in States, f \in Len(read) .. Len(read') :
       Pushed(c, s, f) /\ SameOps(c) /\ c.current = Top.current

LEMMA MadeIsKept ==
  ASSUME TypeOK, NEW n, NodeMade(n), n.kind \notin {"operation", "if"}
  PROVE  NodesKept /\ Len(nodes') = New /\ New \in Len(nodes) + 1 .. Len(nodes')
<1>1. Len(nodes) \in Nat
  BY StateIs
<1>2. \A m \in Len(nodes) + 1 .. Len(nodes') : m = Len(nodes) + 1
  BY <1>1 DEF NodeMade
<1> QED
  BY <1>1, <1>2 DEF NodeMade, NodesKept, New

LEMMA KindIs ==
  ASSUME NEW kind, NEW at, NEW b, NEW a
  PROVE  /\ Node(kind, at, b, a).kind = kind /\ Node(kind, at, b, a).at = at /\ Node(kind, at, b, a).by = Top.from
         /\ Node(kind, at, b, a).before = b /\ Node(kind, at, b, a).after = a
BY DEF Node

LEMMA UnchangedIsKept == TypeOK /\ UNCHANGED nodes => NodesKept
BY StateIs DEF NodesKept

LEMMA TurnsBy ==
  ASSUME TypeOK', calls # <<>>, Quiet, NEW c, TopBecomes(c), SameOps(c), TypeOK,
         c.current \in {0, Top.current, result} \cup (Len(nodes) + 1 .. Len(nodes'))
  PROVE  TurnsTop
<1>1. calls' \in Seq(CallSet(Len(read'), Len(nodes')))
  <2>1. Ids' \ {0} = 1 .. Len(nodes') /\ Ids' = 0 .. Len(nodes')
    BY NextIs DEF Ids
  <2>2. Calls' = CallSet(Len(read'), Len(nodes'))
    BY <2>1 DEF Calls, CallSet
  <2> QED
    BY <2>2 DEF TypeOK
<1>2. Len(calls) \in 1 .. Len(calls') /\ c = calls'[Len(calls)]
  BY TopIs DEF TopBecomes
<1>3. c \in CallSet(Len(read'), Len(nodes'))
  BY <1>1, <1>2
<1> QED
  BY <1>3 DEF TurnsTop

LEMMA StartsBy ==
  ASSUME TypeOK', calls # <<>>, Quiet, UNCHANGED nodes, result = 0, TypeOK,
         NEW c, NEW s \in States, NEW f \in Len(read) .. Len(read'), Pushed(c, s, f), SameOps(c), c.current = Top.current
  PROVE  StartsCall
<1>1. calls' \in Seq(CallSet(Len(read'), Len(nodes')))
  <2>1. Ids' \ {0} = 1 .. Len(nodes') /\ Ids' = 0 .. Len(nodes')
    BY NextIs DEF Ids
  <2>2. Calls' = CallSet(Len(read'), Len(nodes'))
    BY <2>1 DEF Calls, CallSet
  <2> QED
    BY <2>2 DEF TypeOK
<1>2. Len(calls) \in 1 .. Len(calls') /\ c = calls'[Len(calls)]
  BY TopIs DEF Pushed
<1>3. c \in CallSet(Len(read'), Len(nodes'))
  BY <1>1, <1>2
<1> QED
  BY <1>3 DEF StartsCall

LEMMA StepIs ==
  ASSUME TInv, [Next]_vars
  PROVE  TurnsTop \/ StartsCall \/ EndOfExpr \/ Operator \/ StatementDone \/ Condition \/ Fails \/ Rests
<1> DEFINE r == Len(read)
           k == Len(nodes)
<1>0. TypeOK /\ TypeOK' /\ r \in Nat \ {0} /\ k \in Nat /\ New = k + 1
  BY TypesKept, StateIs DEF TInv, New
<1>1. ASSUME calls # <<>> PROVE Top \in CallSet(r, k)
  BY <1>0, <1>1, TopIs
<1>2. TokenTaken => ReadKept /\ Len(read') = r + 1
  BY <1>0, TakenIsKept DEF TokenTaken
<1>3. UNCHANGED read => ReadKept
  BY <1>0, TakenIsKept
<1>4. UNCHANGED nodes => NodesKept
  BY <1>0, UnchangedIsKept
<1>5. CASE Sign
  <2>1. /\ calls # <<>> /\ result' = 0 /\ UNCHANGED <<nodes, statement, failed, verdict>>
        /\ TokenTaken /\ TopBecomes([Top EXCEPT !.step = "signed", !.neg = TRUE])
    BY <1>5, SignIs DEF Sign, At
  <2> QED
    BY <1>0, <1>1, <1>2, <1>4, <2>1, TurnsBy DEF CallSet, SameOps, Quiet
<1>6. CASE Operand
  <2> DEFINE c == [Top EXCEPT !.current = New, !.step = "postfix", !.bad = BadNow]
  <2>1. /\ calls # <<>> /\ result' = 0 /\ UNCHANGED <<statement, failed, verdict>>
        /\ TokenTaken /\ TopBecomes(c)
        /\ NodeMade(Node("operand", Len(read), <<>>, <<>>))
    BY <1>6, OperandIs DEF Operand, Unsigned, At
  <2>2. NodesKept /\ Len(nodes') = New /\ New \in k + 1 .. Len(nodes')
    BY <1>0, <2>1, MadeIsKept, KindIs
  <2>3. SameOps(c) /\ c.current = New
    BY <1>1, <2>1 DEF CallSet, SameOps
  <2> HIDE DEF c
  <2> QED
    BY <1>0, <1>2, <2>1, <2>2, <2>3, TurnsBy DEF Quiet
<1>7. ASSUME calls # <<>>, NEW s \in {"inner", "block", "list"}
      PROVE  SameOps(Opens(s)) /\ Opens(s).current = Top.current
  BY <1>0, <1>7, OpensIs DEF Steps, SameOps
<1>8. CASE Inner
  <2>1. /\ calls # <<>> /\ result = 0 /\ result' = 0 /\ UNCHANGED <<nodes, statement, failed, verdict>>
        /\ TokenTaken /\ Pushed(Opens("inner"), "inner", r + 1)
    BY <1>8, InnerIs DEF Inner, Unsigned, At
  <2>2. "inner" \in States /\ r + 1 \in r .. Len(read')
    BY <1>0, <1>2, <2>1 DEF States
  <2> QED
    BY <1>0, <1>2, <1>4, <1>7, <2>1, <2>2, StartsBy DEF Quiet
<1>9. CASE Block
  <2>1. /\ calls # <<>> /\ result = 0 /\ result' = 0 /\ UNCHANGED <<nodes, statement, failed, verdict>>
        /\ TokenTaken /\ Pushed(Opens("block"), "noname", r + 1)
    BY <1>9, BlockIs DEF Block, Unsigned, At
  <2>2. "noname" \in States /\ r + 1 \in r .. Len(read')
    BY <1>0, <1>2, <2>1 DEF States
  <2> QED
    BY <1>0, <1>2, <1>4, <1>7, <2>1, <2>2, StartsBy DEF Quiet
<1>10. CASE List
  <2>1. /\ calls # <<>> /\ result' = 0 /\ UNCHANGED <<nodes, statement, failed, verdict>>
        /\ TokenTaken /\ TopBecomes(Opens("list"))
    BY <1>10, ListIs DEF List, Unsigned, At
  <2> QED
    BY <1>0, <1>2, <1>4, <1>7, <2>1, TurnsBy DEF Quiet
<1>11. CASE NextArgument
  <2>1. /\ calls # <<>> /\ result = 0 /\ result' = 0 /\ UNCHANGED <<read, nodes, statement, failed, verdict>>
    BY <1>11 DEF NextArgument, At
  <2>2. PICK s \in {"argument", "array"} : Pushed(Top, s, r)
    BY <1>11, NextArgumentIs
  <2>3. s \in States /\ r \in r .. Len(read')
    BY <1>0, <2>1 DEF States
  <2> QED
    BY <1>0, <1>3, <1>4, <2>1, <2>2, <2>3, StartsBy DEF Quiet, SameOps
<1>12. ASSUME calls # <<>>
       PROVE  /\ SameOps([Top EXCEPT !.current = New, !.step = "postfix"])
              /\ [Top EXCEPT !.current = New, !.step = "postfix"].current = New
  BY <1>1, <1>12 DEF CallSet, SameOps
<1> DEFINE taken == [Top EXCEPT !.current = New, !.step = "postfix"]
<1>99. calls # <<>> => SameOps(taken) /\ taken.current = New
  BY <1>12
<1>13. CASE EndOfList
  <2>1. /\ calls # <<>> /\ result' = 0 /\ UNCHANGED <<statement, failed, verdict>>
        /\ TokenTaken /\ TopBecomes(taken)
    BY <1>13, EndOfListIs DEF EndOfList, At
  <2>2. PICK kind \in {"call", "array"} : NodeMade(Node(kind, Top.open, <<>>, Top.list))
    BY <1>13, EndOfListIs
  <2>3. NodesKept /\ Len(nodes') = New /\ New \in k + 1 .. Len(nodes')
    BY <1>0, <2>2, MadeIsKept, KindIs
  <2> HIDE DEF taken
  <2> QED
    BY <1>0, <1>2, <1>99, <2>1, <2>3, TurnsBy DEF Quiet
<1>14. CASE BlockDone
  <2>1. /\ calls # <<>> /\ result' = 0 /\ UNCHANGED <<statement, failed, verdict>>
        /\ TokenTaken /\ TopBecomes(taken)
        /\ NodeMade(Node("block", Top.open, <<>>, <<result>>))
    BY <1>14, BlockDoneIs DEF BlockDone, Waits
  <2>2. NodesKept /\ Len(nodes') = New /\ New \in k + 1 .. Len(nodes')
    BY <1>0, <2>1, MadeIsKept, KindIs
  <2> HIDE DEF taken
  <2> QED
    BY <1>0, <1>2, <1>99, <2>1, <2>2, TurnsBy DEF Quiet
<1>15. CASE Index
  <2>1. /\ calls # <<>> /\ result = 0 /\ result' = 0 /\ UNCHANGED <<nodes, statement, failed, verdict>>
        /\ TokenTaken /\ Pushed(IndexedTop, "index", r + 1)
    BY <1>15, IndexIs DEF Index, At
  <2>2. SameOps(IndexedTop) /\ IndexedTop.current = Top.current
    BY <1>1, <2>1 DEF IndexedTop, CallSet, SameOps
  <2>3. "index" \in States /\ r + 1 \in r .. Len(read')
    BY <1>0, <1>2, <2>1 DEF States
  <2> QED
    BY <1>0, <1>2, <1>4, <2>1, <2>2, <2>3, StartsBy DEF Quiet
<1>16. CASE Dot
  <2>1. /\ calls # <<>> /\ result' = 0 /\ UNCHANGED <<nodes, statement, failed, verdict>>
        /\ TokenTaken /\ TopBecomes(DottedTop)
    BY <1>16, DotIs DEF Dot, At
  <2>2. SameOps(DottedTop) /\ DottedTop.current = 0
    BY <1>1, <2>1 DEF DottedTop, CallSet, SameOps
  <2> QED
    BY <1>0, <1>2, <1>4, <2>1, <2>2, TurnsBy DEF Quiet
<1>17. ASSUME calls # <<>>
       PROVE  /\ SameOps(WholeTop) /\ WholeTop.current = New
              /\ SameOps(PlainTop) /\ PlainTop.current = Top.current
  BY <1>1, <1>17 DEF WholeTop, PlainTop, CallSet, SameOps
<1>18. CASE DotAtEnd
  <2>1. /\ calls # <<>> /\ result' = 0 /\ UNCHANGED <<read, statement, failed, verdict>>
        /\ TopBecomes(WholeTop) /\ NodeMade(Node("dotted", Top.dot, <<Top.parts[1]>>, PartsAlone))
    BY <1>18, DotAtEndIs DEF DotAtEnd, At
  <2>2. NodesKept /\ Len(nodes') = New /\ New \in k + 1 .. Len(nodes')
    BY <1>0, <2>1, MadeIsKept, KindIs
  <2> QED
    BY <1>0, <1>3, <1>17, <2>1, <2>2, TurnsBy DEF Quiet
<1>19. CASE EndOfSymbol
  <2>1. /\ calls # <<>> /\ result' = 0 /\ UNCHANGED <<read, statement, failed, verdict>>
    BY <1>19 DEF EndOfSymbol, At
  <2>2. CASE UNCHANGED nodes /\ TopBecomes(PlainTop)
    BY <1>0, <1>3, <1>4, <1>17, <2>1, <2>2, TurnsBy DEF Quiet
  <2>3. CASE NodeMade(Dotted) /\ TopBecomes(WholeTop)
    <3>1. NodesKept /\ Len(nodes') = New
      BY <1>0, <2>3, MadeIsKept, KindIs DEF Dotted
    <3> QED
      BY <1>0, <1>3, <1>17, <2>1, <2>3, <3>1, TurnsBy DEF Quiet
  <2> QED
    BY <1>19, <2>2, <2>3, EndOfSymbolIs
<1>20. CASE InnerDone
  <2>1. /\ calls # <<>> /\ result' = 0 /\ UNCHANGED <<nodes, statement, failed, verdict>>
        /\ TokenTaken /\ TopBecomes(InnerTop)
    BY <1>20, InnerDoneIs DEF InnerDone, Waits
  <2>2. SameOps(InnerTop) /\ InnerTop.current = result
    BY <1>1, <2>1 DEF InnerTop, CallSet, SameOps
  <2> QED
    BY <1>0, <1>2, <1>4, <2>1, <2>2, TurnsBy DEF Quiet
<1>21. CASE ArgumentDone
  <2>1. /\ calls # <<>> /\ result' = 0 /\ UNCHANGED <<nodes, statement, failed, verdict>>
        /\ TokenTaken \/ UNCHANGED read
        /\ TopBecomes(ListTop)
    BY <1>21, ArgumentDoneIs DEF ArgumentDone, Waits
  <2>2. SameOps(ListTop) /\ ListTop.current = Top.current
    BY <1>1, <2>1 DEF ListTop, CallSet, SameOps
  <2> QED
    BY <1>0, <1>2, <1>3, <1>4, <2>1, <2>2, TurnsBy DEF Quiet
<1>22. CASE IndexDone
  <2>1. /\ calls # <<>> /\ result' = 0 /\ UNCHANGED <<statement, failed, verdict>> /\ TokenTaken
    BY <1>22, IndexDoneIs DEF IndexDone, Waits
  <2>2. ASSUME NEW n PROVE SameOps(IndexTop(n)) /\ IndexTop(n).current = n
    BY <1>1, <2>1 DEF IndexTop, CallSet, SameOps
  <2>3. CASE NodeMade(Node("index", Top.open, <<Top.current>>, <<result>>)) /\ TopBecomes(IndexTop(New))
    <3>1. NodesKept /\ Len(nodes') = New
      BY <1>0, <2>3, MadeIsKept, KindIs
    <3> QED
      BY <1>0, <1>2, <2>1, <2>2, <2>3, <3>1, TurnsBy DEF Quiet
  <2>4. CASE /\ Len(nodes') = Len(nodes) + 2
             /\ nodes'[New] = Dotted /\ nodes'[New + 1] = Node("index", Top.open, <<New>>, <<result>>)
             /\ \A m \in 1 .. Len(nodes) : nodes'[m] = nodes[m]
             /\ TopBecomes(IndexTop(New + 1))
    <3>1. Dotted.kind = "dotted" /\ Node("index", Top.open, <<New>>, <<result>>).kind = "index"
      BY KindIs DEF Dotted
    <3>2. \A m \in k + 1 .. k + 2 : m = New \/ m = New + 1
      BY <1>0
    <3>3. NodesKept
      BY <1>0, <2>4, <3>1, <3>2 DEF NodesKept
    <3> QED
      BY <1>0, <1>2, <2>1, <2>2, <2>4, <3>3, TurnsBy DEF Quiet
  <2> QED
    BY <1>22, <2>3, <2>4, IndexDoneIs
<1> QED
  BY ActionsAre, <1>5, <1>6, <1>8, <1>9, <1>10, <1>11, <1>13, <1>14, <1>15, <1>16, <1>18, <1>19,
     <1>20, <1>21, <1>22

-----------------------------------------------------------------------------
(* The operators of a call are its own: nodes it made, which no other call    *)
(* links.  An operand that is an operation was made by a call inside.      *)
RankIn(m, nd, rd) == Priority(rd[nd[m].at])

Inside(m, from, nd) == nd[m].kind = "operation" => nd[m].by > from

Edges(c, nd, rd) ==
  /\ \A i \in 1 .. Len(c.ops) : nd[c.ops[i]].kind = "operation" /\ nd[c.ops[i]].by = c.from
  /\ \A i, j \in 1 .. Len(c.ops) : i < j => c.ops[i] < c.ops[j]
  /\ \A i \in 1 .. Len(c.ops) - 1 :
       /\ nd[c.ops[i]].after = <<c.ops[i + 1]>>
       /\ RankIn(c.ops[i], nd, rd) < RankIn(c.ops[i + 1], nd, rd)
  /\ c.ops # <<>> => nd[c.ops[Len(c.ops)]].after = <<>>
  /\ c.current # 0 => Inside(c.current, c.from, nd)

Edged ==
  /\ \A d \in 1 .. Len(calls) : Edges(calls[d], nodes, read)
  /\ result # 0 /\ calls # <<>> => Inside(result, Top.from, nodes)

EInv == OInv /\ Edged

LEMMA EdgesStay ==
  ASSUME TypeOK, ReadKept, Len(nodes) <= Len(nodes'),
         NEW b \in CallSet(Len(read), Len(nodes)), Edges(b, nodes, read),
         \A m \in 1 .. Len(nodes) : SameBut(nodes, nodes', m),
         \A i \in 1 .. Len(b.ops) : nodes'[b.ops[i]].after = nodes[b.ops[i]].after,
         NEW c, c.ops = b.ops, c.from = b.from,
         c.current = 0 \/ c.current = b.current \/ Inside(c.current, c.from, nodes')
  PROVE  Edges(c, nodes', read')
<1>1. /\ Len(b.ops) \in Nat /\ \A i \in 1 .. Len(b.ops) : b.ops[i] \in 1 .. Len(nodes)
      /\ b.ops # <<>> => Len(b.ops) \in 1 .. Len(b.ops)
      /\ b.current \in 0 .. Len(nodes)
  <2>1. b.ops \in Seq(1 .. Len(nodes)) /\ b.current \in 0 .. Len(nodes)
    BY DEF CallSet
  <2> QED
    BY <2>1
<1>2. \A m \in 1 .. Len(nodes) : nodes[m].at \in 1 .. Len(read)
  BY StateIs DEF NodeSet
<1>3. \A m \in 1 .. Len(nodes) : RankIn(m, nodes', read') = RankIn(m, nodes, read)
  BY <1>2 DEF RankIn, SameBut, ReadKept
<1>4. \A i \in 1 .. Len(c.ops) : nodes'[c.ops[i]].kind = "operation" /\ nodes'[c.ops[i]].by = c.from
  <2> SUFFICES ASSUME NEW i \in 1 .. Len(b.ops)
               PROVE  nodes'[b.ops[i]].kind = "operation" /\ nodes'[b.ops[i]].by = b.from
    OBVIOUS
  <2>1. nodes[b.ops[i]].kind = "operation" /\ nodes[b.ops[i]].by = b.from
    BY DEF Edges
  <2> QED
    BY <1>1, <2>1 DEF SameBut
<1>5. \A i \in 1 .. Len(c.ops) - 1 :
        /\ nodes'[c.ops[i]].after = <<c.ops[i + 1]>>
        /\ RankIn(c.ops[i], nodes', read') < RankIn(c.ops[i + 1], nodes', read')
  <2> SUFFICES ASSUME NEW i \in 1 .. Len(c.ops) - 1
               PROVE  /\ nodes'[c.ops[i]].after = <<c.ops[i + 1]>>
                      /\ RankIn(c.ops[i], nodes', read') < RankIn(c.ops[i + 1], nodes', read')
    OBVIOUS
  <2>1. i \in 1 .. Len(b.ops) /\ i + 1 \in 1 .. Len(b.ops) /\ i \in 1 .. Len(b.ops) - 1
    BY <1>1
  <2>2. nodes[b.ops[i]].after = <<b.ops[i + 1]>> /\ RankIn(b.ops[i], nodes, read) < RankIn(b.ops[i + 1], nodes, read)
    BY <2>1 DEF Edges
  <2> QED
    BY <1>1, <1>3, <2>1, <2>2
<1>6. c.ops # <<>> => nodes'[c.ops[Len(c.ops)]].after = <<>>
  BY <1>1 DEF Edges
<1>7. c.current # 0 => Inside(c.current, c.from, nodes')
  BY <1>1 DEF Edges, Inside, SameBut
<1> QED
  BY <1>4, <1>5, <1>6, <1>7 DEF Edges

LEMMA NodesKeptSame == TypeOK /\ NodesKept => /\ Len(nodes) <= Len(nodes')
                                              /\ \A m \in 1 .. Len(nodes) : SameBut(nodes, nodes', m)
                                              /\ \A m \in 1 .. Len(nodes) : nodes'[m].after = nodes[m].after
BY DEF NodesKept, SameBut

LEMMA OpsAre ==
  ASSUME TypeOK, NEW d \in 1 .. Len(calls)
  PROVE  /\ calls[d] \in CallSet(Len(read), Len(nodes)) /\ Len(calls[d].ops) \in Nat
         /\ \A i \in 1 .. Len(calls[d].ops) : calls[d].ops[i] \in 1 .. Len(nodes)
<1>1. calls[d] \in CallSet(Len(read), Len(nodes))
  BY StateIs
<1>2. calls[d].ops \in Seq(1 .. Len(nodes))
  BY <1>1 DEF CallSet
<1> QED
  BY <1>1, <1>2

LEMMA EdgesStayAll ==
  ASSUME TypeOK, Edged, ReadKept, NodesKept, NEW d \in 1 .. Len(calls)
  PROVE  Edges(calls[d], nodes', read')
BY OpsAre, EdgesStay, NodesKeptSame DEF Edged

LEMMA EdgedAtStart == Init => Edged
<1> SUFFICES ASSUME Init PROVE Edged
  OBVIOUS
<1>1. Len(calls) = 1 /\ calls[1] = Call("root", 1) /\ result = 0
  BY DEF Init
<1>2. Call("root", 1).ops = <<>> /\ Call("root", 1).current = 0
  BY DEF Call
<1>3. Edges(Call("root", 1), nodes, read)
  BY <1>2 DEF Edges
<1>4. \A d \in 1 .. Len(calls) : d = 1
  BY <1>1
<1> QED
  BY <1>1, <1>3, <1>4 DEF Edged

LEMMA EdgedByTurn ==
  ASSUME EInv, TypeOK', TurnsTop
  PROVE  Edged'
<1>1. /\ TypeOK /\ Edged /\ Quiet /\ NodesKept /\ ReadKept /\ calls # <<>> /\ result' = 0
      /\ Len(nodes) \in Nat /\ result \in 0 .. Len(nodes)
  BY StateIs DEF EInv, OInv, TInv, TurnsTop, Quiet
<1>2. PICK c \in CallSet(Len(read'), Len(nodes')) :
        /\ TopBecomes(c) /\ SameOps(c)
        /\ c.current \in {0, Top.current, result} \cup (Len(nodes) + 1 .. Len(nodes'))
  BY DEF TurnsTop
<1>3. Len(calls) \in 1 .. Len(calls) /\ Top = calls[Len(calls)]
  BY <1>1, TopIs
<1>4. c.current = 0 \/ c.current = Top.current \/ Inside(c.current, c.from, nodes')
  <2>1. CASE c.current = result
    BY <1>1, <1>2, <2>1 DEF Edged, Inside, SameOps, NodesKept
  <2>2. CASE c.current \in Len(nodes) + 1 .. Len(nodes')
    BY <1>1, <2>2 DEF NodesKept, Inside
  <2> QED
    BY <1>2, <2>1, <2>2
<1>5. Edges(Top, nodes, read) /\ Top \in CallSet(Len(read), Len(nodes))
  BY <1>1, <1>3, TopIs DEF Edged
<1>6. \A i \in 1 .. Len(Top.ops) : nodes'[Top.ops[i]].after = nodes[Top.ops[i]].after
  BY <1>1, <1>3, OpsAre, NodesKeptSame
<1>7. Edges(c, nodes', read')
  BY <1>1, <1>2, <1>4, <1>5, <1>6, EdgesStay, NodesKeptSame DEF SameOps
<1>8. ASSUME NEW d \in 1 .. Len(calls') PROVE Edges(calls'[d], nodes', read')
  <2>1. CASE d = Len(calls)
    BY <1>2, <1>7, <2>1 DEF TopBecomes
  <2>2. CASE d # Len(calls)
    <3>1. d \in 1 .. Len(calls) /\ calls'[d] = calls[d]
      BY <1>2, <1>3, <2>2 DEF TopBecomes
    <3> QED
      BY <1>1, <3>1, EdgesStayAll
  <2> QED
    BY <2>1, <2>2
<1> QED
  BY <1>1, <1>8 DEF Edged

LEMMA EdgedByStart ==
  ASSUME EInv, TypeOK', StartsCall
  PROVE  Edged'
<1>1. /\ TypeOK /\ Edged /\ Quiet /\ NodesKept /\ ReadKept /\ calls # <<>> /\ result' = 0
  BY DEF EInv, OInv, TInv, StartsCall, Quiet
<1>2. PICK c \in CallSet(Len(read'), Len(nodes')), s \in States, f \in Len(read) .. Len(read') :
        Pushed(c, s, f) /\ SameOps(c) /\ c.current = Top.current
  BY DEF StartsCall
<1>3. Len(calls) \in 1 .. Len(calls) /\ Top = calls[Len(calls)]
  BY <1>1, TopIs
<1>4. Edges(Top, nodes, read) /\ Top \in CallSet(Len(read), Len(nodes))
  BY <1>1, <1>3, TopIs DEF Edged
<1>5. \A i \in 1 .. Len(Top.ops) : nodes'[Top.ops[i]].after = nodes[Top.ops[i]].after
  BY <1>1, <1>3, OpsAre, NodesKeptSame
<1>6. Edges(c, nodes', read')
  BY <1>1, <1>2, <1>4, <1>5, EdgesStay, NodesKeptSame DEF SameOps
<1>7. Edges(Call(s, f), nodes', read')
  BY DEF Edges, Call
<1>8. ASSUME NEW d \in 1 .. Len(calls') PROVE Edges(calls'[d], nodes', read')
  <2>1. CASE d = Len(calls)
    BY <1>2, <1>6, <2>1 DEF Pushed
  <2>2. CASE d = Len(calls) + 1
    BY <1>2, <1>7, <2>2 DEF Pushed
  <2>3. CASE d # Len(calls) /\ d # Len(calls) + 1
    <3>1. d \in 1 .. Len(calls) /\ calls'[d] = calls[d]
      BY <1>2, <1>3, <2>3 DEF Pushed
    <3> QED
      BY <1>1, <3>1, EdgesStayAll
  <2> QED
    BY <2>1, <2>2, <2>3
<1> QED
  BY <1>1, <1>8 DEF Edged

(* Operators of different calls are different nodes.                       *)
LEMMA OpsApart ==
  ASSUME EInv, calls # <<>>, NEW d \in 1 .. Len(calls) - 1,
         NEW i \in 1 .. Len(calls[d].ops), NEW j \in 1 .. Len(Top.ops)
  PROVE  calls[d].ops[i] # Top.ops[j]
<1>1. TypeOK /\ Nested /\ Edged /\ Len(calls) \in Nat /\ Top = calls[Len(calls)]
  BY TopIs DEF EInv, OInv, TInv
<1>2. d \in 1 .. Len(calls) /\ Len(calls) \in 1 .. Len(calls) /\ d < Len(calls)
  BY <1>1
<1>3. nodes[calls[d].ops[i]].by = calls[d].from /\ nodes[Top.ops[j]].by = Top.from
  BY <1>1, <1>2 DEF Edged, Edges
<1>4. calls[d].from <= calls[d].open /\ calls[d].open < Top.from
  BY <1>1, <1>2 DEF Nested
<1>5. calls[d].from \in Int /\ calls[d].open \in Int /\ Top.from \in Int
  BY <1>1, <1>2, PlacesAre
<1> QED
  BY <1>3, <1>4, <1>5

LEMMA FromsGrow ==
  ASSUME OInv, NEW d \in 1 .. Len(calls), NEW e \in 1 .. Len(calls), d < e
  PROVE  calls[d].from < calls[e].from /\ calls[d].from \in Int /\ calls[e].from \in Int
<1>1. TypeOK /\ Nested
  BY DEF OInv, TInv
<1>2. calls[d].from <= calls[d].open /\ calls[d].open < calls[e].from
  BY <1>1 DEF Nested
<1>3. calls[d].from \in Int /\ calls[d].open \in Int /\ calls[e].from \in Int
  BY <1>1, PlacesAre
<1> QED
  BY <1>2, <1>3

LEMMA EdgedByEnd ==
  ASSUME EInv, TypeOK', EndOfExpr
  PROVE  Edged'
<1>1. /\ TypeOK /\ TInv /\ OInv /\ Edged /\ calls # <<>> /\ Top.step = "operator" /\ UNCHANGED read /\ ReadKept
  BY TakenIsKept DEF EInv, OInv, TInv, EndOfExpr, At
<1>2. /\ result' = Root(Top.current) /\ nodes' = Linked
      /\ Len(calls') = Len(calls) - 1 /\ \A d \in 1 .. Len(calls) - 1 : calls'[d] = calls[d]
  BY <1>1, EndOfExprIs
<1>3. Len(calls) \in Nat /\ Len(calls) \in 1 .. Len(calls) /\ Top = calls[Len(calls)]
  BY <1>1, TopIs
<1>4. /\ Len(nodes') = Len(nodes) /\ Len(nodes) \in Nat /\ \A m \in 1 .. Len(nodes) : SameBut(nodes, nodes', m)
      /\ \A m \in 1 .. Len(nodes) : (\A j \in 1 .. Len(Top.ops) : m # Top.ops[j]) => nodes'[m].after = nodes[m].after
      /\ Top.current \in 1 .. Len(nodes) /\ Len(Top.ops) \in Nat /\ (Top.ops # <<>> => 1 \in 1 .. Len(Top.ops))
      /\ \A j \in 1 .. Len(Top.ops) : Top.ops[j] \in 1 .. Len(nodes)
  <2>1. /\ Len(nodes) \in Nat /\ Len(Linked) = Len(nodes)
        /\ \A m \in 1 .. Len(nodes) : SameBut(nodes, Linked, m)
        /\ Top.current \in 1 .. Len(nodes) /\ Len(Top.ops) \in Nat /\ (Top.ops # <<>> => Len(Top.ops) > 0)
        /\ \A j \in 1 .. Len(Top.ops) : Top.ops[j] \in 1 .. Len(nodes)
    BY <1>1, LinkedIs, StateIs DEF SameBut
  <2>2. ASSUME NEW m \in 1 .. Len(nodes), \A j \in 1 .. Len(Top.ops) : m # Top.ops[j]
        PROVE  Linked[m].after = nodes[m].after
    <3>1. ~ (Top.ops # <<>> /\ m = Top.ops[Len(Top.ops)])
      BY <2>1, <2>2
    <3> QED
      BY <1>1, <3>1, LinkedIs
  <2> QED
    BY <1>2, <2>1, <2>2
<1>5. ASSUME NEW d \in 1 .. Len(calls') PROVE Edges(calls'[d], nodes', read')
  <2>1. d \in 1 .. Len(calls) - 1 /\ d \in 1 .. Len(calls) /\ calls'[d] = calls[d]
    BY <1>2, <1>3
  <2>2. \A i \in 1 .. Len(calls[d].ops) : nodes'[calls[d].ops[i]].after = nodes[calls[d].ops[i]].after
    BY <1>1, <1>4, <2>1, OpsApart, OpsAre
  <2>3. Edges(calls[d], nodes, read) /\ calls[d] \in CallSet(Len(read), Len(nodes))
    BY <1>1, <2>1, OpsAre DEF Edged
  <2>4. PICK b : b = calls[d]
    OBVIOUS
  <2>5. /\ TypeOK /\ ReadKept /\ Len(nodes) <= Len(nodes')
        /\ \A m \in 1 .. Len(nodes) : SameBut(nodes, nodes', m)
    BY <1>1, <1>4
  <2>6. /\ b \in CallSet(Len(read), Len(nodes)) /\ Edges(b, nodes, read)
        /\ \A i \in 1 .. Len(b.ops) : nodes'[b.ops[i]].after = nodes[b.ops[i]].after
    BY <2>2, <2>3, <2>4
  <2>7. Edges(b, nodes', read')
    BY <2>5, <2>6, EdgesStay
  <2> QED
    BY <2>1, <2>4, <2>7
<1>6. ASSUME calls' # <<>> PROVE Inside(result', Top'.from, nodes')
  <2>1. Len(calls') >= 1
    BY <1>6, NextIs
  <2>2. /\ Len(calls) - 1 \in 1 .. Len(calls) /\ Len(calls) - 1 < Len(calls) /\ Top' = calls[Len(calls) - 1]
    BY <1>2, <1>3, <2>1 DEF Top
  <2>3. Top'.from < Top.from /\ Top'.from \in Int /\ Top.from \in Int
    BY <1>1, <1>3, <2>2, FromsGrow
  <2>4. Edges(Top, nodes, read)
    BY <1>1, <1>3 DEF Edged
  <2>5. CASE Top.ops = <<>>
    <3>1. result' = Top.current /\ Inside(Top.current, Top.from, nodes) /\ SameBut(nodes, nodes', Top.current)
      BY <1>2, <1>4, <2>4, <2>5 DEF Root, Edges
    <3>2. nodes[Top.current].by \in Int
      <4>1. nodes[Top.current] \in NodeSet(Len(read), Len(nodes))
        BY <1>1, <1>4, StateIs
      <4> QED
        BY <1>1, <4>1, StateIs DEF NodeSet
    <3> QED
      BY <2>3, <3>1, <3>2 DEF Inside, SameBut
  <2>6. CASE Top.ops # <<>>
    <3>1. result' = Top.ops[1] /\ nodes[Top.ops[1]].by = Top.from /\ SameBut(nodes, nodes', Top.ops[1])
      BY <1>2, <1>4, <2>4, <2>6 DEF Root, Edges
    <3> QED
      BY <2>3, <3>1 DEF Inside, SameBut
  <2> QED
    BY <2>5, <2>6
<1> QED
  BY <1>5, <1>6 DEF Edged

LEMMA PriorityIs == \A t \in Tokens : Priority(t) \in Nat
<1>1. \A t \in Operators : Rank[t] \in Nat
  <2>1. Rank \in [Operators -> 1 .. 15]
    BY MkExprAssumption
  <2> QED
    BY <2>1
<1> QED
  BY <1>1 DEF Priority

LEMMA EdgedByOperator ==
  ASSUME EInv, TypeOK', Operator
  PROVE  Edged'
<1> DEFINE r == Len(read)
           k == Len(nodes)
           t == Len(calls)
           ops == Top.ops
<1>1. /\ TypeOK /\ TInv /\ OInv /\ Edged /\ calls # <<>> /\ Top.step = "operator" /\ result' = 0
  BY DEF EInv, OInv, TInv, Operator, At
<1>2. TokenTaken /\ ReadKept /\ Len(nodes') = k + 1 /\ r \in Nat \ {0} /\ k \in Nat /\ New = k + 1
  BY <1>1, OperatorIs, TakenIsKept, StateIs DEF New
<1>3. t \in Nat /\ t \in 1 .. t /\ Top = calls[t] /\ Top \in CallSet(r, k)
  BY <1>1, TopIs
<1>4. /\ \A m \in 1 .. k : SameBut(nodes, Linked, m)
      /\ \A m \in 1 .. k : (\A j \in 1 .. Len(ops) : m # ops[j]) => Linked[m].after = nodes[m].after
      /\ Len(ops) \in Nat /\ \A j \in 1 .. Len(ops) : ops[j] \in 1 .. k
      /\ \A j \in 1 .. Len(ops) - 1 : ops[j] # ops[Len(ops)] => Linked[ops[j]].after = nodes[ops[j]].after
  <2>1. /\ Len(ops) \in Nat /\ (ops # <<>> => Len(ops) \in 1 .. Len(ops))
        /\ \A j \in 1 .. Len(ops) - 1 : j \in 1 .. Len(ops)
    BY <1>1, LinkedIs
  <2> QED
    BY <1>1, <2>1, LinkedIs DEF SameBut
<1>5. Edges(Top, nodes, read)
  BY <1>1, <1>3 DEF Edged
<1>6. PICK n \in {nodes'[New]} : /\ n.kind = "operation" /\ n.at = r /\ n.by = Top.from /\ n.after = <<>>
  BY <1>1, OperatorIs, KindIs
<1>7. \A m \in 1 .. k : SameBut(nodes, nodes', m)
  BY <1>1, <1>4, OperatorIs DEF SameBut
<1>8. ASSUME NEW m \in 1 .. k, \A j \in 1 .. Len(ops) : m # ops[j]
      PROVE  nodes'[m].after = nodes[m].after
  <2>1. Linked[m].after = nodes[m].after
    BY <1>4, <1>8
  <2> QED
    BY <1>1, <1>8, <2>1, OperatorIs
<1>9. ASSUME NEW d \in 1 .. t - 1 PROVE Edges(calls[d], nodes', read')
  <2>1. d \in 1 .. t
    BY <1>3
  <2>2. \A i \in 1 .. Len(calls[d].ops) : nodes'[calls[d].ops[i]].after = nodes[calls[d].ops[i]].after
    BY <1>1, <1>8, <2>1, OpsApart, OpsAre
  <2>3. Edges(calls[d], nodes, read) /\ calls[d] \in CallSet(Len(read), Len(nodes))
    BY <1>1, <2>1, OpsAre DEF Edged
  <2> QED
    BY <1>1, <1>2, <1>7, <2>2, <2>3, EdgesStay
<1>10. /\ RankIn(New, nodes', read') = Priority(value)
       /\ \A m \in 1 .. k : RankIn(m, nodes', read') = RankIn(m, nodes, read)
  <2>1. \A m \in 1 .. k : nodes[m].at \in 1 .. r
    BY <1>1, StateIs DEF NodeSet
  <2>2. read'[r] = value
    BY <1>2 DEF TokenTaken, value
  <2> QED
    BY <1>2, <1>6, <1>7, <2>1, <2>2 DEF RankIn, SameBut, ReadKept
<1>11. ASSUME TopBecomes(OnTop) PROVE \A d \in 1 .. Len(calls') : Edges(calls'[d], nodes', read')
  <2>1. OnTop.ops = <<New>> /\ OnTop.current = 0 /\ OnTop.from = Top.from
    BY <1>3 DEF OnTop, CallSet
  <2>2. Len(<<New>>) = 1 /\ <<New>>[1] = New /\ <<New>> # <<>>
    OBVIOUS
  <2>3. Edges(OnTop, nodes', read')
    BY <1>6, <2>1, <2>2 DEF Edges
  <2> QED
    BY <1>3, <1>9, <1>11, <2>3 DEF TopBecomes
<1>12. ASSUME NEW i \in Above, i \in 1 .. Len(ops), \A j \in Above : j <= i, TopBecomes(Behind(i)),
              SameBut(Linked, nodes', ops[i]), nodes'[ops[i]].after = <<New>>,
              \A m \in 1 .. k : m # ops[i] => nodes'[m] = Linked[m]
       PROVE  \A d \in 1 .. Len(calls') : Edges(calls'[d], nodes', read')
  <2> DEFINE q == Append(SubSeq(ops, 1, i), New)
  <2>1. Behind(i).ops = q /\ Behind(i).current = 0 /\ Behind(i).from = Top.from
    BY <1>3 DEF Behind, CallSet
  <2>2. Len(q) = i + 1 /\ q[i + 1] = New /\ (\A j \in 1 .. i : q[j] = ops[j]) /\ q # <<>>
    <3>1. ops \in Seq(1 .. k) /\ i \in 0 .. Len(ops) /\ i \in Nat
      BY <1>3, <1>4, <1>12 DEF CallSet
    <3>2. /\ SubSeq(ops, 1, i) \in Seq(1 .. k) /\ Len(SubSeq(ops, 1, i)) = i
          /\ \A d \in 1 .. i : SubSeq(ops, 1, i)[d] = ops[d]
      BY <3>1, PrefixIs
    <3>3. SubSeq(ops, 1, i) \in Seq(1 .. k + 1) /\ New \in 1 .. k + 1
      BY <1>2, <3>2, SequenceGrows
    <3> DEFINE h == SubSeq(ops, 1, i)
               S == 1 .. k + 1
    <3>4. h \in Seq(S) /\ New \in S /\ Len(h) = i /\ q = Append(h, New) /\ \A d \in 1 .. i : h[d] = ops[d]
      BY <3>2, <3>3
    <3> HIDE DEF h, S, q
    <3>5. Len(q) = i + 1 /\ q[i + 1] = New /\ \A j \in 1 .. i : q[j] = h[j]
      BY <3>4, AppendIs
    <3>6. q # <<>>
      BY <3>1, <3>5
    <3> QED
      BY <3>4, <3>5, <3>6
  <2> HIDE DEF q
  <2>3. \A j \in 1 .. i : ops[j] \in 1 .. k /\ ops[j] < New /\ ops[j] \in Int
    <3> SUFFICES ASSUME NEW j \in 1 .. i PROVE ops[j] \in 1 .. k /\ ops[j] < New /\ ops[j] \in Int
      OBVIOUS
    <3>1. j \in 1 .. Len(ops)
      BY <1>4, <1>12
    <3>2. ops[j] \in 1 .. k
      BY <1>4, <3>1
    <3> QED
      BY <1>2, <3>2
  <2>4. \A j \in 1 .. i : nodes'[ops[j]].kind = "operation" /\ nodes'[ops[j]].by = Top.from
    <3> SUFFICES ASSUME NEW j \in 1 .. i
                 PROVE  nodes'[ops[j]].kind = "operation" /\ nodes'[ops[j]].by = Top.from
      OBVIOUS
    <3>1. j \in 1 .. Len(ops)
      BY <1>4, <1>12
    <3>2. nodes[ops[j]].kind = "operation" /\ nodes[ops[j]].by = Top.from
      BY <1>5, <3>1 DEF Edges
    <3> QED
      BY <1>7, <2>3, <3>2 DEF SameBut
  <2>5. \A j \in 1 .. i - 1 : nodes'[ops[j]].after = <<ops[j + 1]>>
    <3> SUFFICES ASSUME NEW j \in 1 .. i - 1 PROVE nodes'[ops[j]].after = <<ops[j + 1]>>
      OBVIOUS
    <3>1. j \in 1 .. Len(ops) - 1 /\ j \in 1 .. Len(ops) /\ j \in 1 .. i /\ j < i /\ j < Len(ops) /\ Len(ops) \in 1 .. Len(ops)
      BY <1>4, <1>12
    <3>2. ops[j] # ops[i] /\ ops[j] # ops[Len(ops)]
      <4>1. ops[j] < ops[i] /\ ops[j] < ops[Len(ops)]
        BY <1>5, <1>12, <3>1 DEF Edges
      <4> QED
        BY <1>4, <3>1, <4>1
    <3>3. nodes'[ops[j]] = Linked[ops[j]]
      BY <1>12, <2>3, <3>1, <3>2
    <3>4. Linked[ops[j]].after = nodes[ops[j]].after
      BY <1>4, <3>1, <3>2
    <3> QED
      BY <1>5, <3>1, <3>3, <3>4 DEF Edges
  <2>6. ASSUME NEW j \in 1 .. i
        PROVE  /\ nodes'[q[j]].after = <<q[j + 1]>>
               /\ RankIn(q[j], nodes', read') < RankIn(q[j + 1], nodes', read')
    <3>1. CASE j = i
      <4>1. RankIn(ops[i], nodes, read) < Priority(value)
        BY DEF Above, BindsLess, RankIn
      <4> QED
        BY <1>2, <1>10, <1>12, <2>2, <2>3, <3>1, <4>1
    <3>2. CASE j # i
      <4>1. j \in 1 .. i - 1 /\ j + 1 \in 1 .. i /\ j \in 1 .. Len(ops) - 1 /\ j + 1 \in 1 .. Len(ops)
        BY <1>4, <1>12, <3>2
      <4>2. RankIn(ops[j], nodes, read) < RankIn(ops[j + 1], nodes, read)
        BY <1>5, <4>1 DEF Edges
      <4>3. q[j] = ops[j] /\ q[j + 1] = ops[j + 1]
        BY <2>2, <4>1
      <4> QED
        BY <1>10, <2>3, <2>5, <4>1, <4>2, <4>3
    <3> QED
      BY <3>1, <3>2
  <2>7. \A j, l \in 1 .. i + 1 : j < l => q[j] < q[l]
    <3> SUFFICES ASSUME NEW j \in 1 .. i + 1, NEW l \in 1 .. i + 1, j < l PROVE q[j] < q[l]
      OBVIOUS
    <3>1. CASE l = i + 1
      <4>1. j \in 1 .. i
        BY <1>4, <1>12, <3>1
      <4> QED
        BY <2>2, <2>3, <3>1, <4>1
    <3>2. CASE l # i + 1
      <4>1. j \in 1 .. i /\ l \in 1 .. i /\ j \in 1 .. Len(ops) /\ l \in 1 .. Len(ops)
        BY <1>4, <1>12, <3>2
      <4> QED
        BY <1>5, <2>2, <4>1 DEF Edges
    <3> QED
      BY <3>1, <3>2
  <2>8. ASSUME NEW j \in 1 .. i + 1 PROVE nodes'[q[j]].kind = "operation" /\ nodes'[q[j]].by = Top.from
    <3>1. CASE j = i + 1
      BY <1>6, <2>2, <3>1
    <3>2. CASE j # i + 1
      <4>1. j \in 1 .. i
        BY <1>4, <1>12, <3>2
      <4> QED
        BY <2>2, <2>4, <4>1
    <3> QED
      BY <3>1, <3>2
  <2>9. i + 1 - 1 = i /\ nodes'[q[i + 1]].after = <<>>
    BY <1>4, <1>6, <1>12, <2>2
  <2>10. Edges(Behind(i), nodes', read')
    <3> DEFINE b == Behind(i)
    <3>1. /\ b.ops = q /\ b.current = 0 /\ b.from = Top.from /\ Len(q) = i + 1 /\ q # <<>>
          /\ (i + 1) - 1 = i
      BY <1>4, <1>12, <2>1, <2>2
    <3> HIDE DEF b
    <3>2. Edges(b, nodes', read')
      BY <3>1, <2>6, <2>7, <2>8, <2>9 DEF Edges
    <3> QED
      BY <3>2 DEF b
  <2> QED
    BY <1>3, <1>9, <1>12, <2>10 DEF TopBecomes
<1>13. \A d \in 1 .. Len(calls') : Edges(calls'[d], nodes', read')
  BY <1>1, <1>11, <1>12, OperatorIs
<1> QED
  BY <1>1, <1>13 DEF Edged

LEMMA EdgedKept == EInv /\ [Next]_vars => Edged'
<1> SUFFICES ASSUME EInv, [Next]_vars PROVE Edged'
  OBVIOUS
<1>1. TInv /\ TypeOK' /\ Edged
  BY TypesKept DEF EInv, OInv, TInv
<1>2. CASE StatementDone
  BY <1>2 DEF StatementDone, Edged
<1>3. CASE Condition
  <2>1. Len(calls') = 1 /\ calls'[1] = Call("root", Len(read) + 1) /\ result' = 0
    BY <1>1, <1>3, ConditionIs DEF Condition, InLoop
  <2>2. Edges(Call("root", Len(read) + 1), nodes', read')
    BY DEF Edges, Call
  <2>3. \A d \in 1 .. Len(calls') : d = 1
    BY <2>1
  <2> QED
    BY <2>1, <2>2, <2>3 DEF Edged
<1>4. CASE Fails
  <2>1. Len(calls') = 0 /\ result' = 0
    BY <1>1, <1>4, FailsIs, FailIs DEF Fail
  <2> QED
    BY <2>1 DEF Edged
<1>5. CASE Rests
  BY <1>1, <1>5, RestsIs DEF Edged, Top
<1> QED
  BY <1>1, <1>2, <1>3, <1>4, <1>5, StepIs, EdgedByTurn, EdgedByStart, EdgedByEnd, EdgedByOperator

LEMMA EdgesAlways == Spec => []EInv
<1>1. Init => EInv
  BY TypesAtStart, NestedAtStart, EdgedAtStart DEF EInv, OInv
<1>2. EInv /\ [Next]_vars => EInv'
  BY TypesKept, NestedKept, EdgedKept DEF EInv, OInv
<1> QED
  BY <1>1, <1>2, PTL DEF Spec

(* The waiting operators of every call are the right edge of one tree and  *)
(* bind ever more, so that the search from the end of the stack for the    *)
(* first one that binds less than a new operator finds the place where the *)
(* new operator belongs.                                                   *)
THEOREM RightEdgeAlways == Spec => []RightEdge
<1>1. EInv => RightEdge
  BY DEF EInv, Edged, Edges, RightEdge, RankIn
<1> QED
  BY <1>1, EdgesAlways, PTL

-----------------------------------------------------------------------------
(* The condition that is being compiled has no right side yet.  No other one     *)
(* may be without, as long as nothing failed.                              *)
Hole(n, nd) == nd[n].kind = "if" /\ nd[n].after = <<>>

Busy == calls # <<>> \/ result # 0

Holes ==
  /\ verdict # "compiling" => ~Busy
  /\ statement # 0 /\ Busy => Hole(statement, nodes)
  /\ verdict # "rejected" =>
       (failed <=> \E n \in 1 .. Len(nodes) : Hole(n, nodes) /\ ~(n = statement /\ Busy))

HInv == EInv /\ Holes

LEMMA HolesKeptBy ==
  ASSUME HInv, TypeOK', Busy, Busy', verdict = "compiling", UNCHANGED <<statement, failed, verdict>>,
         Len(nodes) <= Len(nodes'),
         \A m \in 1 .. Len(nodes) : Hole(m, nodes') <=> Hole(m, nodes),
         \A m \in Len(nodes) + 1 .. Len(nodes') : nodes'[m].kind # "if"
  PROVE  Holes'
<1>1. /\ Len(nodes) \in Nat /\ Len(nodes') \in Nat /\ Holes /\ statement \in 0 .. Len(nodes)
  BY StateIs, NextIs DEF HInv, EInv, OInv, TInv
<1>2. \A m \in 1 .. Len(nodes') : Hole(m, nodes') <=> m \in 1 .. Len(nodes) /\ Hole(m, nodes)
  BY <1>1 DEF Hole
<1>3. \A m \in 1 .. Len(nodes) : m \in 1 .. Len(nodes')
  BY <1>1
<1> HIDE DEF Hole
<1>4. statement' # 0 => Hole(statement', nodes')
  BY <1>1, <1>2, <1>3 DEF Holes
<1>5. (\E n \in 1 .. Len(nodes') : Hole(n, nodes') /\ ~(n = statement'))
        <=> (\E n \in 1 .. Len(nodes) : Hole(n, nodes) /\ ~(n = statement))
  BY <1>2, <1>3
<1>6. failed <=> \E n \in 1 .. Len(nodes) : Hole(n, nodes) /\ ~(n = statement)
  BY <1>1 DEF Holes
<1> QED
  BY <1>4, <1>5, <1>6 DEF Holes

(* What an operator's step links is an operation, never a condition.       *)
LEMMA HolesLinked ==
  ASSUME EInv, calls # <<>>, Top.step = "operator"
  PROVE  /\ \A m \in 1 .. Len(nodes) : Hole(m, Linked) <=> Hole(m, nodes)
         /\ \A i \in 1 .. Len(Top.ops) : nodes[Top.ops[i]].kind = "operation"
<1>1. TInv /\ TypeOK /\ Edged /\ Len(calls) \in 1 .. Len(calls) /\ Top = calls[Len(calls)]
  BY TopIs DEF EInv, OInv, TInv
<1>2. \A i \in 1 .. Len(Top.ops) : nodes[Top.ops[i]].kind = "operation"
  BY <1>1 DEF Edged, Edges
<1>3. Len(Top.ops) \in Nat /\ (Top.ops # <<>> => Len(Top.ops) \in 1 .. Len(Top.ops))
  BY <1>1, LinkedIs
<1>4. ASSUME NEW m \in 1 .. Len(nodes) PROVE Hole(m, Linked) <=> Hole(m, nodes)
  <2>1. Linked[m].kind = nodes[m].kind
    BY <1>1, LinkedIs
  <2>2. CASE Top.ops # <<>> /\ m = Top.ops[Len(Top.ops)]
    BY <1>2, <1>3, <2>1, <2>2 DEF Hole
  <2>3. CASE ~(Top.ops # <<>> /\ m = Top.ops[Len(Top.ops)])
    BY <1>1, <2>1, <2>3, LinkedIs DEF Hole
  <2> QED
    BY <2>2, <2>3
<1> QED
  BY <1>2, <1>4

LEMMA HolesAtStart == Init => Holes
<1> SUFFICES ASSUME Init PROVE Holes
  OBVIOUS
<1>1. Len(nodes) = 0 /\ failed = FALSE /\ verdict = "compiling" /\ statement = 0
  BY DEF Init
<1> QED
  BY <1>1 DEF Holes

LEMMA CallingIs == HInv /\ calls # <<>> => verdict = "compiling" /\ Busy
BY DEF HInv, Holes, Busy

LEMMA HolesKept == HInv /\ [Next]_vars => Holes'
<1> SUFFICES ASSUME HInv, [Next]_vars PROVE Holes'
  OBVIOUS
<1> DEFINE k == Len(nodes)
<1>1. TypeOK /\ TInv /\ EInv /\ TypeOK' /\ Holes /\ k \in Nat /\ statement \in 0 .. k
  BY TypesKept, StateIs DEF HInv, EInv, OInv, TInv
<1>2. ASSUME Quiet, NodesKept, Busy' PROVE Holes'
  <2>1. Busy /\ verdict = "compiling"
    BY <1>2, CallingIs DEF Quiet
  <2>2. \A m \in 1 .. k : Hole(m, nodes') <=> Hole(m, nodes)
    BY <1>2 DEF NodesKept, Hole
  <2> QED
    BY <1>1, <1>2, <2>1, <2>2, HolesKeptBy DEF NodesKept, Quiet
<1>3. CASE TurnsTop
  <2>1. PICK c \in CallSet(Len(read'), Len(nodes')) : TopBecomes(c)
    BY <1>3 DEF TurnsTop
  <2>2. Len(calls') = Len(calls) /\ Len(calls) \in 1 .. Len(calls)
    BY <1>1, <1>3, <2>1, TopIs DEF TopBecomes, TurnsTop, Quiet
  <2>3. Busy'
    BY <1>1, <2>2, NextIs DEF Busy
  <2> QED
    BY <1>2, <1>3, <2>3 DEF TurnsTop, Quiet
<1>4. CASE StartsCall
  <2>1. PICK c \in CallSet(Len(read'), Len(nodes')), s \in States, f \in Len(read) .. Len(read') : Pushed(c, s, f)
    BY <1>4 DEF StartsCall
  <2>2. Len(calls') = Len(calls) + 1 /\ Len(calls) \in 1 .. Len(calls)
    BY <1>1, <1>4, <2>1, TopIs DEF Pushed, StartsCall, Quiet
  <2>3. Busy'
    BY <1>1, <2>2, NextIs DEF Busy
  <2> QED
    BY <1>2, <1>4, <2>3 DEF StartsCall, Quiet
<1>5. CASE EndOfExpr
  <2>1. calls # <<>> /\ Top.step = "operator" /\ UNCHANGED <<statement, failed, verdict>>
    BY <1>5 DEF EndOfExpr, At
  <2>2. result' # 0 /\ nodes' = Linked /\ Len(Linked) = k
    BY <1>1, <1>5, <2>1, EndOfExprIs, LinkedIs
  <2>3. \A m \in 1 .. k : Hole(m, nodes') <=> Hole(m, nodes)
    BY <1>1, <2>1, <2>2, HolesLinked
  <2>4. \A m \in k + 1 .. Len(nodes') : nodes'[m].kind # "if"
    BY <1>1, <2>2
  <2> QED
    BY <1>1, <2>1, <2>2, <2>3, <2>4, CallingIs, HolesKeptBy DEF Busy
<1>6. CASE Operator
  <2>1. calls # <<>> /\ Top.step = "operator" /\ UNCHANGED <<statement, failed, verdict>>
    BY <1>6 DEF Operator, At
  <2>2. Len(nodes') = k + 1 /\ nodes'[New].kind = "operation" /\ New = k + 1
    BY <1>1, <1>6, OperatorIs, KindIs DEF New
  <2>3. ASSUME NEW m \in 1 .. k PROVE Hole(m, nodes') <=> Hole(m, nodes)
    <3>1. Hole(m, Linked) <=> Hole(m, nodes)
      BY <1>1, <2>1, HolesLinked
    <3>2. CASE nodes'[m] = Linked[m]
      BY <3>1, <3>2 DEF Hole
    <3>3. CASE nodes'[m] # Linked[m]
      <4>1. PICK i \in 1 .. Len(Top.ops) : m = Top.ops[i] /\ SameBut(Linked, nodes', m)
        BY <1>1, <1>6, <3>3, OperatorIs
      <4>2. Linked[m].kind = nodes[m].kind /\ nodes[m].kind = "operation"
        BY <1>1, <2>1, <4>1, HolesLinked, LinkedIs
      <4> QED
        BY <4>1, <4>2 DEF Hole, SameBut
    <3> QED
      BY <3>2, <3>3
  <2>4. Busy'
    <3>1. TopBecomes(OnTop) \/ \E i \in Above : TopBecomes(Behind(i))
      BY <1>1, <1>6, OperatorIs
    <3>2. Len(calls') = Len(calls) /\ Len(calls) \in 1 .. Len(calls)
      BY <1>1, <2>1, <3>1, TopIs DEF TopBecomes
    <3> QED
      BY <1>1, <3>2, NextIs DEF Busy
  <2>5. \A m \in k + 1 .. Len(nodes') : nodes'[m].kind # "if"
    <3>1. \A m \in k + 1 .. k + 1 : m = New
      BY <1>1, <2>2
    <3> QED
      BY <2>2, <3>1
  <2> QED
    BY <1>1, <2>1, <2>2, <2>3, <2>4, <2>5, CallingIs, HolesKeptBy
<1>7. CASE StatementDone
  <2>1. /\ calls' = <<>> /\ result' = 0 /\ ~Busy' /\ Busy /\ verdict = "compiling" /\ result # 0
        /\ UNCHANGED <<failed, verdict>>
    BY <1>7 DEF StatementDone, Busy
  <2>2. /\ Len(nodes') = k
        /\ \A m \in 1 .. k : /\ SameBut(nodes, nodes', m)
                             /\ nodes'[m].after = IF m = statement THEN <<result>> ELSE nodes[m].after
    BY <1>1, <1>7, StatementDoneIs
  <2>3. <<result>> # <<>>
    OBVIOUS
  <2>4. \A m \in 1 .. k : Hole(m, nodes') <=> Hole(m, nodes) /\ m # statement
    BY <2>2, <2>3 DEF Hole, SameBut
  <2>5. failed <=> \E m \in 1 .. k : Hole(m, nodes) /\ m # statement
    BY <1>1, <2>1 DEF Holes
  <2>6. failed' <=> \E m \in 1 .. k : Hole(m, nodes')
    BY <2>1, <2>4, <2>5
  <2> HIDE DEF Hole
  <2> QED
    BY <2>1, <2>2, <2>6 DEF Holes
<1>8. CASE Condition
  <2>1. /\ ~Busy /\ verdict = "compiling" /\ statement # 0 /\ UNCHANGED <<failed, verdict>>
    BY <1>8 DEF Condition, InLoop, Busy
  <2>2. /\ NodeMade(IfNode) /\ statement' = New /\ Len(calls') = 1 /\ New = k + 1
    BY <1>1, <1>8, ConditionIs DEF New
  <2>3. Hole(New, nodes') /\ \A m \in 1 .. k : Hole(m, nodes') <=> Hole(m, nodes)
    BY <2>2 DEF Hole, NodeMade, IfNode
  <2>4. Busy' /\ Len(nodes') = k + 1
    BY <1>1, <2>2, NextIs DEF Busy, NodeMade
  <2>5. failed <=> \E m \in 1 .. k : Hole(m, nodes)
    BY <1>1, <2>1 DEF Holes
  <2> HIDE DEF Hole
  <2>6. (\E m \in 1 .. k + 1 : Hole(m, nodes') /\ m # New) <=> (\E m \in 1 .. k : Hole(m, nodes))
    <3>1. \A m \in 1 .. k + 1 : m # New <=> m \in 1 .. k
      BY <1>1, <2>2
    <3>2. \A m \in 1 .. k : m \in 1 .. k + 1
      BY <1>1
    <3> QED
      BY <2>3, <3>1, <3>2
  <2> QED
    BY <2>1, <2>2, <2>3, <2>4, <2>5, <2>6 DEF Holes
<1>9. CASE Fails
  <2>1. /\ calls # <<>> /\ calls' = <<>> /\ result' = 0 /\ failed' = TRUE /\ UNCHANGED <<nodes, statement>>
        /\ verdict' = IF statement = 0 THEN "rejected" ELSE verdict
    BY <1>1, <1>9, FailsIs DEF Fail
  <2>2. ~Busy'
    BY <2>1 DEF Busy
  <2>3. CASE statement = 0
    BY <2>1, <2>2, <2>3 DEF Holes
  <2>4. CASE statement # 0
    <3>1. Hole(statement, nodes) /\ statement \in 1 .. k
      BY <1>1, <2>1, <2>4 DEF Holes, Busy
    <3> HIDE DEF Hole
    <3> QED
      BY <2>1, <2>2, <3>1 DEF Holes
  <2> QED
    BY <2>3, <2>4
<1>10. CASE Rests
  <2>1. UNCHANGED <<nodes, calls, result, statement, failed>> /\ (Busy' <=> Busy)
    BY <1>1, <1>10, RestsIs DEF Busy
  <2>2. verdict' = verdict \/ (verdict' = "accepted" /\ verdict = "compiling" /\ ~Busy)
    BY <1>1, <1>10, RestsIs DEF Accept, InLoop, Busy
  <2> HIDE DEF Hole
  <2> QED
    BY <1>1, <2>1, <2>2 DEF Holes
<1> QED
  BY <1>1, <1>3, <1>4, <1>5, <1>6, <1>7, <1>8, <1>9, <1>10, StepIs

LEMMA HolesAlways == Spec => []HInv
<1>1. Init => HInv
  BY TypesAtStart, NestedAtStart, EdgedAtStart, HolesAtStart DEF HInv, EInv, OInv
<1>2. HInv /\ [Next]_vars => HInv'
  BY TypesKept, NestedKept, EdgedKept, HolesKept DEF HInv, EInv, OInv
<1> QED
  BY <1>1, <1>2, PTL DEF Spec

(* An error is never silent: a statement that is accepted has a condition  *)
(* without a right side exactly when something in it could not be compiled. *)
THEOREM ErrorLeavesHoleAlways == Spec => []ErrorLeavesHole
<1>1. HInv => ErrorLeavesHole
  <2> SUFFICES ASSUME HInv, verdict = "accepted"
               PROVE  failed <=> \E n \in DOMAIN nodes : nodes[n].kind = "if" /\ nodes[n].after = <<>>
    BY DEF ErrorLeavesHole
  <2>1. DOMAIN nodes = 1 .. Len(nodes)
    BY StateIs DEF HInv, EInv, OInv, TInv
  <2>2. failed <=> \E n \in 1 .. Len(nodes) : Hole(n, nodes)
    BY DEF HInv, Holes
  <2> QED
    BY <2>1, <2>2 DEF Hole
<1> QED
  BY <1>1, HolesAlways, PTL

-----------------------------------------------------------------------------
(* Priorities.  What is linked to an operation is an operation of the same *)
(* call only where the search put it.                                      *)
Ordered(n, nd, rd) ==
  /\ \A i \in 1 .. Len(nd[n].before) :
       LET m == nd[n].before[i]
       IN  nd[m].kind = "operation" /\ nd[m].by = nd[n].by => RankIn(m, nd, rd) >= RankIn(n, nd, rd)
  /\ \A i \in 1 .. Len(nd[n].after) :
       LET m == nd[n].after[i]
       IN  nd[m].kind = "operation" /\ nd[m].by = nd[n].by => RankIn(m, nd, rd) > RankIn(n, nd, rd)

Ranked == \A n \in 1 .. Len(nodes) : nodes[n].kind = "operation" => Ordered(n, nodes, read)

PInv == HInv /\ Ranked

LEMMA LinksAre ==
  ASSUME TypeOK, NEW n \in 1 .. Len(nodes)
  PROVE  /\ Len(nodes[n].before) \in Nat /\ \A i \in 1 .. Len(nodes[n].before) : nodes[n].before[i] \in 1 .. Len(nodes)
         /\ Len(nodes[n].after) \in Nat /\ \A i \in 1 .. Len(nodes[n].after) : nodes[n].after[i] \in 1 .. Len(nodes)
         /\ nodes[n].at \in 1 .. Len(read) /\ nodes[n].by \in 0 .. Len(read)
         /\ nodes[n].before \in Seq(1 .. Len(nodes)) /\ nodes[n].after \in Seq(1 .. Len(nodes))
<1>1. nodes[n] \in NodeSet(Len(read), Len(nodes))
  BY StateIs
<1>2. /\ nodes[n].before \in Seq(1 .. Len(nodes)) /\ nodes[n].after \in Seq(1 .. Len(nodes))
      /\ nodes[n].at \in 1 .. Len(read) /\ nodes[n].by \in 0 .. Len(read)
  BY <1>1 DEF NodeSet
<1> QED
  BY <1>2

LEMMA RankStays ==
  ASSUME TypeOK, ReadKept, \A m \in 1 .. Len(nodes) : SameBut(nodes, nodes', m), NEW m \in 1 .. Len(nodes)
  PROVE  RankIn(m, nodes', read') = RankIn(m, nodes, read) /\ RankIn(m, nodes, read) \in Nat
<1>1. nodes[m].at \in 1 .. Len(read) /\ nodes'[m].at = nodes[m].at
  BY LinksAre DEF SameBut
<1> QED
  BY <1>1, StateIs, PriorityIs DEF RankIn, ReadKept

LEMMA OrderedStays ==
  ASSUME TypeOK, ReadKept, \A m \in 1 .. Len(nodes) : SameBut(nodes, nodes', m),
         NEW n \in 1 .. Len(nodes), nodes'[n].after = nodes[n].after, Ordered(n, nodes, read)
  PROVE  Ordered(n, nodes', read')
BY LinksAre, RankStays DEF Ordered, SameBut

(* An operation that is linked to an operand of its call, or not at all.   *)
LEMMA OrderedRight ==
  ASSUME TypeOK, ReadKept, \A m \in 1 .. Len(nodes) : SameBut(nodes, nodes', m),
         NEW n \in 1 .. Len(nodes), Ordered(n, nodes, read),
         NEW c \in 1 .. Len(nodes), nodes'[n].after = <<c>>,
         nodes[c].kind = "operation" => nodes[c].by # nodes[n].by
  PROVE  Ordered(n, nodes', read')
<1>1. Len(<<c>>) = 1 /\ \A i \in 1 .. Len(<<c>>) : <<c>>[i] = c
  OBVIOUS
<1>2. \A i \in 1 .. Len(nodes'[n].after) : nodes'[n].after[i] = c
  BY <1>1
<1>3. /\ nodes'[n].before = nodes[n].before /\ nodes'[n].by = nodes[n].by
      /\ nodes'[c].kind = nodes[c].kind /\ nodes'[c].by = nodes[c].by
  BY DEF SameBut
<1>4. ASSUME NEW i \in 1 .. Len(nodes'[n].before), nodes'[nodes'[n].before[i]].kind = "operation",
             nodes'[nodes'[n].before[i]].by = nodes'[n].by
      PROVE  RankIn(nodes'[n].before[i], nodes', read') >= RankIn(n, nodes', read')
  <2>1. i \in 1 .. Len(nodes[n].before) /\ nodes[n].before[i] \in 1 .. Len(nodes)
    BY <1>3, <1>4, LinksAre
  <2>2. nodes[nodes[n].before[i]].kind = "operation" /\ nodes[nodes[n].before[i]].by = nodes[n].by
    BY <1>3, <1>4, <2>1 DEF SameBut
  <2>3. RankIn(nodes[n].before[i], nodes, read) >= RankIn(n, nodes, read)
    BY <2>1, <2>2 DEF Ordered
  <2> QED
    BY <1>3, <2>1, <2>3, RankStays
<1>5. \A i \in 1 .. Len(nodes'[n].after) :
        ~(nodes'[nodes'[n].after[i]].kind = "operation" /\ nodes'[nodes'[n].after[i]].by = nodes'[n].by)
  BY <1>2, <1>3
<1> QED
  BY <1>4, <1>5 DEF Ordered

LEMMA RankedKeptByRest ==
  ASSUME PInv, ReadKept, Len(nodes) <= Len(nodes'), TypeOK',
         \A m \in 1 .. Len(nodes) : SameBut(nodes, nodes', m),
         \A m \in 1 .. Len(nodes) : nodes[m].kind = "operation" => nodes'[m].after = nodes[m].after,
         \A m \in Len(nodes) + 1 .. Len(nodes') : nodes'[m].kind # "operation"
  PROVE  Ranked'
<1>1. TypeOK /\ Ranked /\ Len(nodes) \in Nat /\ Len(nodes') \in Nat
  BY StateIs, NextIs DEF PInv, HInv, EInv, OInv, TInv
<1>2. ASSUME NEW n \in 1 .. Len(nodes'), nodes'[n].kind = "operation" PROVE Ordered(n, nodes', read')
  <2>1. n \in 1 .. Len(nodes)
    BY <1>1, <1>2
  <2>2. nodes[n].kind = "operation"
    BY <1>2, <2>1 DEF SameBut
  <2> QED
    BY <1>1, <2>1, <2>2, OrderedStays DEF Ranked
<1> QED
  BY <1>2 DEF Ranked

(* The operand in hand, linked as the right side of the last operator.     *)
LEMMA RankedLinked ==
  ASSUME PInv, calls # <<>>, Top.step = "operator", ReadKept,
         NEW n \in 1 .. Len(nodes), nodes[n].kind = "operation",
         \A m \in 1 .. Len(nodes) : SameBut(nodes, nodes', m), nodes'[n].after = Linked[n].after
  PROVE  Ordered(n, nodes', read')
<1>1. TypeOK /\ TInv /\ Edged /\ Ranked /\ Len(calls) \in 1 .. Len(calls) /\ Top = calls[Len(calls)]
  BY TopIs DEF PInv, HInv, EInv, OInv, TInv
<1>2. Edges(Top, nodes, read) /\ Top.from \in Int
  BY <1>1, PlacesAre DEF Edged
<1>3. CASE Top.ops # <<>> /\ n = Top.ops[Len(Top.ops)]
  <2>1. Len(Top.ops) \in 1 .. Len(Top.ops) /\ Top.current \in 1 .. Len(nodes) /\ Linked[n].after = <<Top.current>>
    BY <1>1, <1>3, LinkedIs
  <2>2. nodes[n].by = Top.from
    BY <1>2, <1>3, <2>1 DEF Edges
  <2>3. nodes[Top.current].kind = "operation" => nodes[Top.current].by > Top.from
    BY <1>2, <2>1 DEF Edges, Inside
  <2>4. nodes[Top.current].by \in Int
    BY <1>1, <2>1, LinksAre, StateIs
  <2>5. nodes[Top.current].kind = "operation" => nodes[Top.current].by # nodes[n].by
    BY <1>2, <2>2, <2>3, <2>4
  <2>6. Ordered(n, nodes, read)
    BY <1>1 DEF Ranked
  <2> QED
    BY <1>1, <2>1, <2>5, <2>6, OrderedRight
<1>4. CASE ~(Top.ops # <<>> /\ n = Top.ops[Len(Top.ops)])
  <2>1. Linked[n].after = nodes[n].after
    BY <1>1, <1>4, LinkedIs
  <2> QED
    BY <1>1, <2>1, OrderedStays DEF Ranked
<1> QED
  BY <1>3, <1>4

LEMMA RankedByEnd ==
  ASSUME PInv, TypeOK', EndOfExpr
  PROVE  Ranked'
<1>1. /\ TInv /\ TypeOK /\ calls # <<>> /\ Top.step = "operator" /\ UNCHANGED read /\ ReadKept
  BY TakenIsKept DEF PInv, HInv, EInv, OInv, TInv, EndOfExpr, At
<1>2. nodes' = Linked /\ Len(nodes') = Len(nodes) /\ \A m \in 1 .. Len(nodes) : SameBut(nodes, nodes', m)
  BY <1>1, EndOfExprIs, LinkedIs DEF SameBut
<1>3. ASSUME NEW n \in 1 .. Len(nodes'), nodes'[n].kind = "operation" PROVE Ordered(n, nodes', read')
  <2>1. n \in 1 .. Len(nodes) /\ nodes[n].kind = "operation" /\ nodes'[n].after = Linked[n].after
    BY <1>2, <1>3 DEF SameBut
  <2> QED
    BY <1>1, <1>2, <2>1, RankedLinked
<1> QED
  BY <1>3 DEF Ranked

LEMMA OrderedNew ==
  ASSUME TypeOK, TokenTaken, NEW n, nodes'[New] = n, n.at = Len(read), n.by = Top.from, n.after = <<>>,
         NEW l \in 1 .. Len(nodes), n.before = <<l>>,
         \A m \in 1 .. Len(nodes) : SameBut(nodes, nodes', m),
         nodes[l].kind = "operation" /\ nodes[l].by = Top.from => RankIn(l, nodes, read) >= Priority(value)
  PROVE  Ordered(New, nodes', read') /\ RankIn(New, nodes', read') = Priority(value)
<1>1. RankIn(New, nodes', read') = Priority(value)
  BY StateIs DEF TokenTaken, RankIn, value
<1>2. Len(<<l>>) = 1 /\ <<l>>[1] = l /\ Len(<<>>) = 0
  OBVIOUS
<1>3. RankIn(l, nodes', read') = RankIn(l, nodes, read)
  BY TakenIsKept, RankStays
<1> QED
  BY <1>1, <1>2, <1>3 DEF Ordered, SameBut

LEMMA RankedByOperator ==
  ASSUME PInv, TypeOK', Operator
  PROVE  Ranked'
<1> DEFINE k == Len(nodes)
           ops == Top.ops
<1>1. /\ TInv /\ TypeOK /\ EInv /\ calls # <<>> /\ Top.step = "operator" /\ Ranked /\ Edged
      /\ TokenTaken /\ ReadKept
  BY TakenIsKept, OperatorIs DEF PInv, HInv, EInv, OInv, TInv, Operator, At
<1>2. /\ Len(nodes') = k + 1 /\ New = k + 1 /\ k \in Nat /\ Len(ops) \in Nat /\ (ops # <<>> <=> Len(ops) > 0)
      /\ Top.current \in 1 .. k /\ \A i \in 1 .. Len(ops) : ops[i] \in 1 .. k
      /\ \A m \in 1 .. k : SameBut(nodes, Linked, m)
  BY <1>1, OperatorIs, LinkedIs, StateIs DEF New, SameBut
<1>3. \A m \in 1 .. k : SameBut(nodes, nodes', m)
  BY <1>1, <1>2, OperatorIs DEF SameBut
<1>4. Edges(Top, nodes, read) /\ Top.from \in Int
  <2>1. Len(calls) \in 1 .. Len(calls) /\ Top = calls[Len(calls)]
    BY <1>1, TopIs
  <2> QED
    BY <1>1, <2>1, PlacesAre DEF Edged
<1>5. nodes[Top.current].kind = "operation" /\ nodes[Top.current].by = Top.from => FALSE
  <2>1. nodes[Top.current].by \in Int
    BY <1>1, <1>2, LinksAre, StateIs
  <2> QED
    BY <1>2, <1>4, <2>1 DEF Edges, Inside
<1>6. ASSUME NEW i \in 1 .. Len(ops), i \notin Above PROVE RankIn(ops[i], nodes, read) >= Priority(value)
  <2>1. RankIn(ops[i], nodes, read) \in Nat
    BY <1>1, <1>2, <1>3, RankStays
  <2>2. value \in Tokens
    BY <1>1, StateIs DEF value
  <2>3. ~ (RankIn(ops[i], nodes, read) < Priority(value))
    BY <1>6 DEF Above, BindsLess, RankIn
  <2> QED
    BY <2>1, <2>2, <2>3, PriorityIs
<1>7. ASSUME NEW n \in 1 .. k, nodes[n].kind = "operation", nodes'[n].after = Linked[n].after
      PROVE  Ordered(n, nodes', read')
  BY <1>1, <1>3, <1>7, RankedLinked
<1>8. CASE /\ Above = {}
           /\ nodes'[New] = Node("operation", Len(read), <<Root(Top.current)>>, <<>>)
           /\ \A m \in 1 .. k : nodes'[m] = Linked[m]
  <2> DEFINE l == Root(Top.current)
  <2>1. l \in 1 .. k
    BY <1>2 DEF Root
  <2>2. nodes[l].kind = "operation" /\ nodes[l].by = Top.from => RankIn(l, nodes, read) >= Priority(value)
    <3>1. CASE ops = <<>>
      BY <1>5, <3>1 DEF Root
    <3>2. CASE ops # <<>>
      <4>1. l = ops[1] /\ 1 \in 1 .. Len(ops) /\ 1 \notin Above
        BY <1>2, <1>8, <3>2 DEF Root
      <4> QED
        BY <1>6, <4>1
    <3> QED
      BY <3>1, <3>2
  <2>3. PICK made \in {nodes'[New]} :
        made.at = Len(read) /\ made.by = Top.from /\ made.after = <<>> /\ made.before = <<l>>
    BY <1>8, KindIs
  <2> HIDE DEF l
  <2>4. Ordered(New, nodes', read')
    BY <1>1, <1>3, <2>1, <2>2, <2>3, OrderedNew
  <2>5. ASSUME NEW n \in 1 .. Len(nodes'), nodes'[n].kind = "operation" PROVE Ordered(n, nodes', read')
    <3>1. CASE n = New
      BY <2>4, <3>1
    <3>2. CASE n # New
      <4>1. n \in 1 .. k
        BY <1>2, <3>2
      <4>2. nodes[n].kind = "operation" /\ nodes'[n].after = Linked[n].after
        BY <1>3, <1>8, <2>5, <4>1 DEF SameBut
      <4> QED
        BY <1>7, <4>1, <4>2
    <3> QED
      BY <3>1, <3>2
  <2> QED
    BY <2>5 DEF Ranked
<1>9. ASSUME NEW i \in Above, i \in 1 .. Len(ops), \A j \in Above : j <= i,
             nodes'[New] = Node("operation", Len(read), Linked[ops[i]].after, <<>>),
             nodes'[ops[i]].after = <<New>>,
             \A m \in 1 .. k : m # ops[i] => nodes'[m] = Linked[m]
      PROVE  Ranked'
  <2> DEFINE l == IF i = Len(ops) THEN Top.current ELSE ops[i + 1]
  <2>1. l \in 1 .. k /\ Linked[ops[i]].after = <<l>>
    <3>1. CASE i = Len(ops)
      BY <1>1, <1>2, <1>9, <3>1, LinkedIs
    <3>2. CASE i # Len(ops)
      <4>1. i \in 1 .. Len(ops) - 1 /\ i + 1 \in 1 .. Len(ops) /\ Len(ops) \in 1 .. Len(ops) /\ i < Len(ops)
        BY <1>2, <1>9, <3>2
      <4>2. ops[i] # ops[Len(ops)] /\ nodes[ops[i]].after = <<ops[i + 1]>>
        <5>1. ops[i] < ops[Len(ops)]
          BY <1>4, <1>9, <4>1 DEF Edges
        <5> QED
          BY <1>2, <1>4, <1>9, <4>1, <5>1 DEF Edges
      <4> QED
        BY <1>1, <1>2, <1>9, <3>2, <4>1, <4>2, LinkedIs
    <3> QED
      BY <3>1, <3>2
  <2>2. nodes[l].kind = "operation" /\ nodes[l].by = Top.from => RankIn(l, nodes, read) >= Priority(value)
    <3>1. CASE i = Len(ops)
      BY <1>5, <3>1
    <3>2. CASE i # Len(ops)
      <4>1. i + 1 \in 1 .. Len(ops) /\ i + 1 \notin Above
        BY <1>2, <1>9, <3>2
      <4> QED
        BY <1>6, <3>2, <4>1
    <3> QED
      BY <3>1, <3>2
  <2>3. PICK made \in {nodes'[New]} :
        made.at = Len(read) /\ made.by = Top.from /\ made.after = <<>> /\ made.before = <<l>>
    BY <1>9, <2>1, KindIs
  <2> HIDE DEF l
  <2>4. Ordered(New, nodes', read') /\ RankIn(New, nodes', read') = Priority(value)
    BY <1>1, <1>3, <2>1, <2>2, <2>3, OrderedNew
  <2>5. ASSUME nodes[ops[i]].kind = "operation" PROVE Ordered(ops[i], nodes', read')
    <3>1. ops[i] \in 1 .. k /\ Ordered(ops[i], nodes, read)
      BY <1>1, <1>2, <1>9, <2>5 DEF Ranked
    <3>2. RankIn(ops[i], nodes, read) < Priority(value)
      BY <1>9 DEF Above, BindsLess, RankIn
    <3>3. Len(<<New>>) = 1 /\ \A j \in 1 .. Len(<<New>>) : <<New>>[j] = New
      OBVIOUS
    <3>4. value \in Tokens /\ Priority(value) \in Nat
      BY <1>1, StateIs, PriorityIs DEF value
    <3>5. \A j \in 1 .. Len(nodes'[ops[i]].after) : nodes'[ops[i]].after[j] = New
      BY <1>9, <3>3
    <3>6. RankIn(ops[i], nodes', read') = RankIn(ops[i], nodes, read) /\ RankIn(ops[i], nodes, read) \in Nat
      BY <1>1, <1>3, <3>1, RankStays
    <3>7. \A j \in 1 .. Len(nodes'[ops[i]].after) :
            RankIn(nodes'[ops[i]].after[j], nodes', read') > RankIn(ops[i], nodes', read')
      BY <2>4, <3>2, <3>4, <3>5, <3>6
    <3>8. \A j \in 1 .. Len(nodes'[ops[i]].before) :
            LET m == nodes'[ops[i]].before[j]
            IN  nodes'[m].kind = "operation" /\ nodes'[m].by = nodes'[ops[i]].by
                  => RankIn(m, nodes', read') >= RankIn(ops[i], nodes', read')
      <4>1. nodes'[ops[i]].before = nodes[ops[i]].before /\ nodes'[ops[i]].by = nodes[ops[i]].by
        BY <1>3, <3>1 DEF SameBut
      <4>2. \A j \in 1 .. Len(nodes[ops[i]].before) : nodes[ops[i]].before[j] \in 1 .. k
        BY <1>1, <3>1, LinksAre
      <4>3. \A m \in 1 .. k : RankIn(m, nodes', read') = RankIn(m, nodes, read)
        BY <1>1, <1>3, RankStays
      <4> QED
        BY <1>3, <3>1, <4>1, <4>2, <4>3 DEF Ordered, SameBut
    <3> QED
      BY <3>7, <3>8 DEF Ordered
  <2>6. ASSUME NEW n \in 1 .. Len(nodes'), nodes'[n].kind = "operation" PROVE Ordered(n, nodes', read')
    <3>1. CASE n = New
      BY <2>4, <3>1
    <3>2. CASE n # New
      <4>1. n \in 1 .. k /\ nodes[n].kind = "operation"
        <5>1. n \in 1 .. k
          BY <1>2, <3>2
        <5> QED
          BY <1>3, <2>6, <5>1 DEF SameBut
      <4>2. CASE n = ops[i]
        BY <2>5, <4>1, <4>2
      <4>3. CASE n # ops[i]
        BY <1>7, <1>9, <4>1, <4>3
      <4> QED
        BY <4>2, <4>3
    <3> QED
      BY <3>1, <3>2
  <2> QED
    BY <2>6 DEF Ranked
<1> QED
  BY <1>1, <1>8, <1>9, OperatorIs

LEMMA RankedKept == PInv /\ [Next]_vars => Ranked'
<1> SUFFICES ASSUME PInv, [Next]_vars PROVE Ranked'
  OBVIOUS
<1>1. TypeOK /\ TInv /\ TypeOK' /\ Holes /\ Len(nodes) \in Nat
  BY TypesKept, StateIs DEF PInv, HInv, EInv, OInv, TInv
<1>2. ASSUME Quiet, NodesKept PROVE Ranked'
  BY <1>1, <1>2, NodesKeptSame, RankedKeptByRest DEF Quiet, NodesKept
<1>3. CASE TurnsTop \/ StartsCall
  BY <1>1, <1>2, <1>3, UnchangedIsKept DEF TurnsTop, StartsCall, Quiet
<1>4. CASE StatementDone
  <2>1. /\ Len(nodes') = Len(nodes) /\ ReadKept /\ Busy
        /\ \A m \in 1 .. Len(nodes) :
              /\ SameBut(nodes, nodes', m)
              /\ nodes'[m].after = IF m = statement THEN <<result>> ELSE nodes[m].after
    BY <1>1, <1>4, StatementDoneIs, TakenIsKept DEF StatementDone, Busy
  <2>2. \A m \in 1 .. Len(nodes) : nodes[m].kind = "operation" => m # statement
    BY <1>1, <2>1 DEF Holes, Hole
  <2>3. \A m \in Len(nodes) + 1 .. Len(nodes') : nodes'[m].kind # "operation"
    BY <1>1, <2>1
  <2> QED
    BY <1>1, <2>1, <2>2, <2>3, RankedKeptByRest
<1>5. CASE Condition
  <2>1. NodeMade(IfNode) /\ ReadKept
    BY <1>1, <1>5, ConditionIs, TakenIsKept
  <2>2. \A m \in Len(nodes) + 1 .. Len(nodes') : m = Len(nodes) + 1
    BY <1>1, <2>1 DEF NodeMade
  <2>3. IfNode.kind = "if"
    BY DEF IfNode
  <2>4. \A m \in 1 .. Len(nodes) : SameBut(nodes, nodes', m) /\ nodes'[m].after = nodes[m].after
    BY <2>1 DEF NodeMade, SameBut
  <2> QED
    BY <1>1, <2>1, <2>2, <2>3, <2>4, RankedKeptByRest DEF NodeMade
<1>6. CASE Fails \/ Rests
  <2>1. UNCHANGED <<read, nodes>>
    BY <1>1, <1>6, FailsIs, RestsIs DEF Fail
  <2> QED
    BY <1>1, <2>1, UnchangedIsKept, TakenIsKept, NodesKeptSame, RankedKeptByRest DEF NodesKept
<1> QED
  BY <1>1, <1>3, <1>4, <1>5, <1>6, StepIs, RankedByEnd, RankedByOperator

LEMMA RankedAlways == Spec => []PInv
<1>1. Init => PInv
  <2>1. Init => Ranked
    BY DEF Init, Ranked
  <2> QED
    BY <2>1, TypesAtStart, NestedAtStart, EdgedAtStart, HolesAtStart DEF PInv, HInv, EInv, OInv
<1>2. PInv /\ [Next]_vars => PInv'
  BY TypesKept, NestedKept, EdgedKept, HolesKept, RankedKept DEF PInv, HInv, EInv, OInv
<1> QED
  BY <1>1, <1>2, PTL DEF Spec

(* Precedence and association to the left hold at every operator of a      *)
(* statement, whatever the operators, their priorities and the nesting.    *)
THEOREM PrecedenceAlways == Spec => []PrecedenceKept
<1>1. PInv => PrecedenceKept
  <2> SUFFICES ASSUME PInv, NEW n \in DOMAIN nodes, nodes[n].kind = "operation"
               PROVE  LET rank(m) == Priority(read[nodes[m].at])
                          below(s) == {s[i] : i \in {j \in DOMAIN s : /\ nodes[s[j]].kind = "operation"
                                                                      /\ nodes[s[j]].by = nodes[n].by}}
                      IN  /\ \A m \in below(nodes[n].before) : rank(m) >= rank(n)
                          /\ \A m \in below(nodes[n].after) : rank(m) > rank(n)
    BY DEF PrecedenceKept
  <2>1. n \in 1 .. Len(nodes) /\ TypeOK
    BY StateIs DEF PInv, HInv, EInv, OInv, TInv
  <2>2. Ordered(n, nodes, read)
    BY <2>1 DEF PInv, Ranked
  <2>3. DOMAIN nodes[n].before = 1 .. Len(nodes[n].before) /\ DOMAIN nodes[n].after = 1 .. Len(nodes[n].after)
    BY <2>1, LinksAre
  <2> QED
    BY <2>2, <2>3 DEF Ordered, RankIn
<1> QED
  BY <1>1, RankedAlways, PTL
=============================================================================
