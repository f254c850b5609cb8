----------------------------- MODULE MkVmProofs -----------------------------
(***************************************************************************)
(* Proofs about MkVm: what every function of the evaluator leaves on the   *)
(* local stack, for every depth of the C stack and every script.           *)
(*                                                                         *)
(* One invariant serves both stack properties.  Wherever it compares a     *)
(* height with a base it says "at least" in general, which gives           *)
(* NoUnderflow, and "exactly" for scripts without the two things that leave *)
(* operands behind, which gives Balanced.                                  *)
(***************************************************************************)
EXTENDS MkVm, SequenceTheorems, TLAPS

(* Neither array literals nor conditions of a catch that may raise.        *)
Clean == Features \cap {"array", "element", "condition"} = {}
Meets(a, b) == a >= b /\ (Clean => a = b)

Places == {"run", "start", "left", "right", "receiver", "args", "call", "class", "member",
           "elements", "next", "body", "expr", "raise", "backif", "return", "condition",
           "block", "try", "catch", "handler", "else", "finally"}
Tags == {"none", "any", "simple", "root", "noname", "expr", "catch", "inner",
         "method", "super", "on", "each", "to_s", "front", "back"}

Records == {r \in [op : Ops, at : Places, kind : Tags, base : Nat, n : 0 .. MaxArgs] :
              r.op = "array" => Uses("array")}

(* Calls that end with a result on the stack, or throw.                    *)
IsValue(u) ==
  \/ u.op \in {"expr", "operation", "call", "callback", "new", "array"}
  \/ u.op = "method" /\ u.kind # "catch"
WantsValue(l) ==
  \/ l.op \in {"main", "operation", "call", "callback", "new", "array", "stmt"}
  \/ l.op = "method" /\ l.kind = "expr"
  \/ l.op \in {"if", "while", "try"} /\ l.at = "condition"

(* u may be called by l: the operands that l finds when u returns are those *)
(* it had when it called u and the result of u.                            *)
Fits(l, u) ==
  /\ u.op # "main"
  /\ u.base >= l.base
  /\ IF IsValue(u) THEN WantsValue(l) /\ Meets(u.base + 1, l.base + Operands(l))
                   ELSE Meets(u.base, l.base)
  /\ u.op \in {"stmt", "if", "while", "try"} => l.op = "block"
  /\ u.op = "method" /\ u.kind = "catch" => l.op = "try" /\ l.at = "handler"
  /\ u.op = "block" =>
       IF u.kind \in {"root", "noname"}
         THEN l.op = "method" /\ l.kind = u.kind
         ELSE \/ l.op \in {"if", "while", "try"} /\ l.at # "condition"
              \/ l.op = "method" /\ l.kind = "catch"
  /\ Clean /\ l.op = "try" /\ l.at = "condition" => u.op = "expr" /\ u.kind = "simple"

Good(s) ==
  /\ s \in Seq(Records)
  /\ \A i \in 1 .. Len(s) - 1 : Fits(s[i], s[i + 1])
  /\ \A i, j \in 1 .. Len(s) : i <= j => s[i].base <= s[j].base

Jump(c) == c \in {"RETURN", "BREAK", "CONTINUE"}

(* What the innermost call t finds, told c, with h operands on the stack.  *)
Finds(t, c, h) ==
  /\ h >= t.base
  /\ c = "run" => Meets(h, t.base + (IF t.op = "call" THEN t.n + 1 ELSE 0))
  /\ c = "NEXTSTEP" => Meets(h, t.base + Operands(t))
  /\ c = "RETURN" => Meets(h, t.base + 1)
  /\ c \in {"BREAK", "CONTINUE"} => Meets(h, t.base)
  /\ c = "THROW" /\ Clean /\ t.op = "try" /\ t.at \in {"try", "condition"} => h = t.base
  /\ Jump(c) =>
       /\ t.op \in {"block", "stmt", "if", "while", "try", "method"}
       /\ t.op = "method" /\ c # "RETURN" => t.kind = "catch"
       /\ t.op \in {"if", "while", "try"} => t.at # "condition"

Exceptions == Raised \cup {Error, Nil}

IInv ==
  /\ Good(ctrl)
  /\ code \in Codes \cup {"run"}
  /\ height \in Nat
  /\ exception \in Exceptions
  /\ ctrl # <<>> => Finds(Top, code, height)

-----------------------------------------------------------------------------
(* Stacks of calls.                                                        *)

LEMMA RecordIs ==
  ASSUME NEW op \in Ops, NEW at \in Places, NEW kind \in Tags, NEW base \in Nat,
         op = "array" => Uses("array")
  PROVE  /\ Record(op, at, kind, base) \in Records
         /\ Record(op, at, kind, base).op = op /\ Record(op, at, kind, base).at = at
         /\ Record(op, at, kind, base).kind = kind /\ Record(op, at, kind, base).base = base
         /\ Record(op, at, kind, base).n = 0
BY MkVmAssumption DEF Record, Records

(* What is below the innermost call.                                       *)
LEMMA FrontGood ==
  ASSUME NEW s, Good(s), s # <<>>
  PROVE  LET b == SubSeq(s, 1, Len(s) - 1) IN
         /\ s[Len(s)] \in Records /\ Len(s) \in Nat \ {0}
         /\ Good(b)
         /\ b # <<>> => Fits(b[Len(b)], s[Len(s)]) /\ b[Len(b)] \in Records
<1> DEFINE b == SubSeq(s, 1, Len(s) - 1)
<1>1. s \in Seq(Records) /\ Len(s) \in Nat \ {0} /\ s[Len(s)] \in Records
  BY DEF Good
<1>2. b \in Seq(Records) /\ Len(b) = Len(s) - 1 /\ \A i \in 1 .. Len(b) : b[i] = s[i]
  <2>1. 1 \in Int /\ Len(s) - 1 \in Int /\ \A i \in 1 .. Len(s) - 1 : s[i] \in Records
    BY <1>1
  <2>2. /\ b \in Seq(Records)
        /\ Len(b) = IF 1 <= Len(s) - 1 THEN Len(s) - 1 - 1 + 1 ELSE 0
        /\ \A i \in 1 .. Len(s) - 1 - 1 + 1 : b[i] = s[1 + i - 1]
    BY <2>1, SubSeqProperties
  <2> HIDE DEF b
  <2>3. Len(b) = Len(s) - 1
    <3>1. Len(s) \in Int /\ Len(s) >= 1
      BY <1>1
    <3>2. CASE Len(s) = 1
      BY <2>2, <3>2
    <3>3. CASE Len(s) > 1
      <4>1. 1 <= Len(s) - 1 /\ Len(s) - 1 - 1 + 1 = Len(s) - 1
        BY <3>1, <3>3
      <4> QED
        BY <2>2, <4>1
    <3> QED
      BY <3>1, <3>2, <3>3
  <2>4. \A i \in 1 .. Len(b) : i \in 1 .. Len(s) - 1 - 1 + 1 /\ 1 + i - 1 = i
    BY <1>1, <2>3
  <2> QED
    BY <2>2, <2>3, <2>4
<1> HIDE DEF b
<1>3. \A i \in 1 .. Len(b) - 1 : Fits(b[i], b[i + 1])
  BY <1>1, <1>2 DEF Good
<1>4. \A i, j \in 1 .. Len(b) : i <= j => b[i].base <= b[j].base
  BY <1>1, <1>2 DEF Good
<1>5. ASSUME b # <<>> PROVE Fits(b[Len(b)], s[Len(s)]) /\ b[Len(b)] \in Records
  <2>1. Len(b) \in 1 .. Len(s) - 1
    BY <1>1, <1>2, <1>5
  <2>2. Fits(s[Len(b)], s[Len(b) + 1])
    BY <2>1 DEF Good
  <2> QED
    BY <1>1, <1>2, <2>1, <2>2
<1> QED
  BY <1>1, <1>2, <1>3, <1>4, <1>5 DEF Good, b

(* A call by the innermost one.                                            *)
LEMMA AppendGood ==
  ASSUME NEW s, Good(s), NEW u \in Records, s # <<>> => Fits(s[Len(s)], u)
  PROVE  /\ Good(Append(s, u)) /\ Append(s, u) # <<>>
         /\ Append(s, u)[Len(Append(s, u))] = u
<1> DEFINE a == Append(s, u)
<1>1. s \in Seq(Records) /\ Len(s) \in Nat
  BY DEF Good
<1>2. /\ a \in Seq(Records) /\ Len(a) = Len(s) + 1 /\ a[Len(a)] = u
      /\ \A i \in 1 .. Len(s) : a[i] = s[i] /\ s[i] \in Records
  BY <1>1
<1>3. ASSUME NEW i \in 1 .. Len(a) - 1 PROVE Fits(a[i], a[i + 1])
  <2>1. CASE i < Len(s)
    <3>1. i \in 1 .. Len(s) - 1 /\ i + 1 \in 1 .. Len(s)
      BY <1>1, <1>2, <2>1
    <3> QED
      BY <1>2, <3>1 DEF Good
  <2>2. CASE i = Len(s)
    <3>1. s # <<>> /\ i + 1 = Len(a) /\ i \in 1 .. Len(s)
      BY <1>1, <1>2, <2>2
    <3> QED
      BY <1>2, <2>2, <3>1
  <2> QED
    BY <1>1, <1>2, <2>1, <2>2
<1>4. \A i \in 1 .. Len(s) : s[i].base <= u.base
  <2>1. SUFFICES ASSUME NEW i \in 1 .. Len(s) PROVE s[i].base <= u.base
    OBVIOUS
  <2>2. s # <<>> /\ Len(s) \in 1 .. Len(s) /\ i <= Len(s)
    BY <1>1
  <2>3. s[i].base <= s[Len(s)].base /\ s[Len(s)].base <= u.base
    BY <2>2 DEF Good, Fits
  <2>4. s[i].base \in Nat /\ s[Len(s)].base \in Nat /\ u.base \in Nat
    BY <1>1, <2>2 DEF Records
  <2> QED
    BY <2>3, <2>4
<1>5. ASSUME NEW i \in 1 .. Len(a), NEW j \in 1 .. Len(a), i <= j PROVE a[i].base <= a[j].base
  <2>1. CASE j <= Len(s)
    BY <1>1, <1>2, <1>5, <2>1 DEF Good
  <2>2. CASE j = Len(a) /\ i <= Len(s)
    BY <1>1, <1>2, <1>4, <2>2
  <2>3. CASE i = Len(a) /\ j = Len(a)
    BY <1>2, <2>3 DEF Records
  <2> QED
    BY <1>1, <1>2, <1>5, <2>1, <2>2, <2>3
<1> QED
  BY <1>1, <1>2, <1>3, <1>5 DEF Good

LEMMA Joined ==
  ASSUME NEW s \in Seq(Records), NEW a \in Records, NEW b \in Records
  PROVE  s \o <<a, b>> = Append(Append(s, a), b)
OBVIOUS

-----------------------------------------------------------------------------
LEMMA OperandsAre ==
  ASSUME NEW l \in Records
  PROVE  /\ Operands(l) \in Int
         /\ l.op = "operation" => Operands(l) = (IF l.at = "left" THEN 1 ELSE 2)
         /\ l.op = "call" => Operands(l) = l.n + 1
         /\ l.op \in {"main", "stmt", "array", "new", "callback"} => Operands(l) = 1
         /\ l.op = "method" => Operands(l) = (IF l.kind = "catch" THEN 0 ELSE 1)
         /\ l.op \in {"if", "while", "try"} => Operands(l) = (IF l.at = "condition" THEN 1 ELSE 0)
         /\ l.op \in {"block", "expr"} => Operands(l) = 0
<1>1. l.op = "operation" => Operands(l) = (IF l.at = "left" THEN 1 ELSE 2)
  BY DEF Operands
<1>2. l.op = "call" => Operands(l) = l.n + 1
  BY DEF Operands
<1>3. l.op \in {"main", "stmt", "array", "new", "callback"} => Operands(l) = 1
  BY DEF Operands
<1>4. l.op = "method" => Operands(l) = (IF l.kind = "catch" THEN 0 ELSE 1)
  BY DEF Operands
<1>5. l.op \in {"if", "while", "try"} => Operands(l) = (IF l.at = "condition" THEN 1 ELSE 0)
  BY DEF Operands
<1>6. l.op \in {"block", "expr"} => Operands(l) = 0
  BY DEF Operands
<1>7. l.op \in Ops /\ l.n \in Int
  BY MkVmAssumption DEF Records
<1> QED
  BY <1>1, <1>2, <1>3, <1>4, <1>5, <1>6, <1>7 DEF Ops

-----------------------------------------------------------------------------
(* What a call's result is to the one that waits for it.                   *)

LEMMA ValueFound ==
  ASSUME NEW l \in Records, NEW u \in Records, Fits(l, u), IsValue(u),
         NEW c \in {"NEXTSTEP", "THROW"}, NEW h \in Int, h >= u.base,
         c = "NEXTSTEP" => Meets(h, u.base + 1),
         c = "THROW" /\ u.op = "expr" /\ u.kind = "simple" => Meets(h, u.base)
  PROVE  Finds(l, c, h)
<1>1. /\ WantsValue(l) /\ Meets(u.base + 1, l.base + Operands(l)) /\ u.base >= l.base
      /\ l.base \in Nat /\ u.base \in Nat
  BY DEF Fits, Records
<1>2. h >= l.base
  BY <1>1
<1>3. ASSUME c = "NEXTSTEP" PROVE Meets(h, l.base + Operands(l))
  <2>1. Operands(l) \in Int
    BY <1>1, MkVmAssumption DEF Operands, WantsValue, Records
  <2> QED
    BY <1>1, <1>3, <2>1 DEF Meets
<1>4. ASSUME c = "THROW", Clean, l.op = "try" PROVE h = l.base
  <2>1. l.at = "condition"
    BY <1>1, <1>4 DEF WantsValue
  <2>2. Operands(l) = 1 /\ u.op = "expr" /\ u.kind = "simple"
    BY <1>4, <2>1 DEF Operands, Fits
  <2> QED
    BY <1>1, <1>4, <2>2 DEF Meets
<1> QED
  BY <1>2, <1>3, <1>4 DEF Finds, Jump

(* The end of a statement, a block or a handler.                           *)
Ends(u, c, h) ==
  /\ c \in Codes /\ h \in Int /\ h >= u.base
  /\ c = "RETURN" => Meets(h, u.base + 1)
  /\ c \in {"NEXTSTEP", "BREAK", "CONTINUE"} => Meets(h, u.base)
  /\ u.op = "block" =>
       /\ u.kind \in {"root", "noname"} => c \in {"RETURN", "THROW"}
       /\ c = "THROW" => Meets(h, u.base)

LEMMA StatementFound ==
  ASSUME NEW l \in Records, NEW u \in Records, Fits(l, u), ~IsValue(u), NEW c, NEW h, Ends(u, c, h)
  PROVE  Finds(l, c, h)
<1>1. /\ Meets(u.base, l.base) /\ l.base \in Nat /\ u.base \in Nat /\ u.op # "main"
      /\ u.op \in Ops
  BY DEF Fits, Records
<1>2. h \in Int /\ c \in Codes
  BY DEF Ends
<1>3. CASE u.op \in {"stmt", "if", "while", "try"}
  <2>1. l.op = "block" /\ Operands(l) = 0
    BY <1>3 DEF Fits, Operands
  <2> QED
    BY <1>1, <1>2, <2>1 DEF Ends, Finds, Meets, Codes, Jump
<1>4. CASE u.op = "block" /\ u.kind \in {"root", "noname"}
  <2>1. l.op = "method" /\ c \in {"RETURN", "THROW"}
    BY <1>4 DEF Fits, Ends
  <2> QED
    BY <1>1, <1>2, <2>1 DEF Ends, Finds, Meets, Codes, Jump
<1>5. CASE u.op = "block" /\ u.kind \notin {"root", "noname"}
  <2>1. \/ l.op \in {"if", "while", "try"} /\ l.at # "condition"
        \/ l.op = "method" /\ l.kind = "catch"
    BY <1>5 DEF Fits
  <2>2. Operands(l) = 0
    BY <2>1 DEF Operands
  <2> QED
    BY <1>1, <1>2, <1>5, <2>1, <2>2 DEF Ends, Finds, Meets, Codes, Jump
<1>6. CASE u.op = "method" /\ u.kind = "catch"
  <2>1. l.op = "try" /\ l.at = "handler" /\ Operands(l) = 0
    BY <1>6 DEF Fits, Operands
  <2> QED
    BY <1>1, <1>2, <2>1 DEF Ends, Finds, Meets, Codes, Jump
<1> QED
  BY <1>1, <1>3, <1>4, <1>5, <1>6 DEF IsValue, Ops

-----------------------------------------------------------------------------
(* The ways a step changes the C stack.                                    *)

LEMMA Tops ==
  ASSUME IInv, ctrl # <<>>
  PROVE  /\ Top \in Records /\ Good(Below) /\ Finds(Top, code, height)
         /\ Below # <<>> => Fits(Below[Len(Below)], Top) /\ Below[Len(Below)] \in Records
BY FrontGood DEF IInv, Top, Below

LEMMA ReturnKeeps ==
  ASSUME IInv, ctrl # <<>>, NEW c \in Codes, Returns(c), height' \in Nat, exception' \in Exceptions,
         \A l \in Records : Fits(l, Top) => Finds(l, c, height')
  PROVE  IInv'
<1>1. Good(ctrl')
  BY Tops DEF Returns
<1>2. ASSUME ctrl' # <<>> PROVE Finds(Top', code', height')
  <2>1. Top' = Below[Len(Below)] /\ Below # <<>> /\ code' = c
    BY <1>2 DEF Returns, Top
  <2> QED
    BY <2>1, Tops
<1> QED
  BY <1>1, <1>2 DEF IInv, Returns

(* r takes the place of the innermost call.                                *)
LEMMA ReplaceGood ==
  ASSUME IInv, ctrl # <<>>, NEW r \in Records, \A l \in Records : Fits(l, Top) => Fits(l, r)
  PROVE  /\ Good(Append(Below, r)) /\ Append(Below, r) # <<>>
         /\ Append(Below, r)[Len(Append(Below, r))] = r
BY Tops, AppendGood

LEMMA ReplaceKeeps ==
  ASSUME IInv, ctrl # <<>>, NEW r \in Records, \A l \in Records : Fits(l, Top) => Fits(l, r),
         ctrl' = Append(Below, r), code' \in Codes \cup {"run"}, Finds(r, code', height'),
         height' \in Nat, exception' \in Exceptions
  PROVE  IInv'
<1>1. Good(ctrl') /\ Top' = r
  BY ReplaceGood DEF Top
<1> QED
  BY <1>1 DEF IInv

LEMMA CallKeeps ==
  ASSUME IInv, ctrl # <<>>, NEW r \in Records, \A l \in Records : Fits(l, Top) => Fits(l, r),
         NEW u \in Records, Fits(r, u), CallsAs(r, u), Finds(u, "run", height'),
         height' \in Nat, exception' \in Exceptions
  PROVE  IInv'
<1>1. Below \in Seq(Records)
  BY Tops DEF Good
<1>2. ctrl' = Append(Append(Below, r), u)
  BY <1>1, Joined DEF CallsAs
<1>3. Good(ctrl') /\ Top' = u
  BY <1>2, ReplaceGood, AppendGood DEF Top
<1> QED
  BY <1>3 DEF IInv, CallsAs

(* r, a method m and its body b take the place of the innermost call.      *)
LEMMA EnterKeeps ==
  ASSUME IInv, NEW s, Good(s), NEW m \in Records, NEW b \in Records,
         s # <<>> => Fits(s[Len(s)], m), Fits(m, b),
         ctrl' = s \o <<m, b>>, code' = "run", Finds(b, "run", height'),
         height' \in Nat, exception' \in Exceptions
  PROVE  IInv'
<1>1. s \in Seq(Records)
  BY DEF Good
<1> DEFINE a == Append(s, m)
<1>2. ctrl' = Append(a, b)
  BY <1>1, Joined
<1>3. Good(a) /\ a # <<>> /\ a[Len(a)] = m
  BY AppendGood
<1>4. Good(Append(a, b)) /\ Append(a, b) # <<>> /\ Append(a, b)[Len(Append(a, b))] = b
  <2> HIDE DEF a
  <2> QED
    BY <1>3, AppendGood
<1> HIDE DEF a
<1>5. Good(ctrl') /\ Top' = b /\ ctrl' # <<>>
  BY <1>2, <1>4 DEF Top
<1> QED
  BY <1>5 DEF IInv

LEMMA ValueReturns ==
  ASSUME IInv, ctrl # <<>>, IsValue(Top), NEW c \in {"NEXTSTEP", "THROW"}, Returns(c),
         height' \in Int, height' >= Top.base, exception' \in Exceptions,
         c = "NEXTSTEP" => Meets(height', Top.base + 1),
         c = "THROW" /\ Top.op = "expr" /\ Top.kind = "simple" => Meets(height', Top.base)
  PROVE  IInv'
<1>1. Top \in Records /\ Top.base \in Nat
  BY Tops DEF Records
<1>2. \A l \in Records : Fits(l, Top) => Finds(l, c, height')
  BY <1>1, ValueFound
<1> QED
  BY <1>1, <1>2, ReturnKeeps DEF Codes

LEMMA StatementReturns ==
  ASSUME IInv, ctrl # <<>>, ~IsValue(Top), NEW c, Returns(c), Ends(Top, c, height'),
         exception' \in Exceptions
  PROVE  IInv'
<1>1. Top \in Records /\ Top.base \in Nat
  BY Tops DEF Records
<1>2. \A l \in Records : Fits(l, Top) => Finds(l, c, height')
  BY <1>1, StatementFound
<1>3. c \in Codes /\ height' \in Nat
  BY <1>1 DEF Ends
<1> QED
  BY <1>2, <1>3, ReturnKeeps

(* One value in the place of another, and a statement further on.          *)
LEMMA SameValue ==
  ASSUME NEW t \in Records, NEW r \in Records, IsValue(t), IsValue(r),
         ~(t.op = "expr" /\ t.kind = "simple"), Meets(r.base, t.base)
  PROVE  \A l \in Records : Fits(l, t) => Fits(l, r)
<1>1. SUFFICES ASSUME NEW l \in Records, Fits(l, t) PROVE Fits(l, r)
  OBVIOUS
<1>2. /\ WantsValue(l) /\ Meets(t.base + 1, l.base + Operands(l)) /\ t.base >= l.base
      /\ ~(Clean /\ l.op = "try" /\ l.at = "condition")
  BY <1>1 DEF Fits
<1>3. l.base \in Int /\ t.base \in Int /\ r.base \in Int /\ Operands(l) \in Int
  BY OperandsAre DEF Records
<1>4. r.base >= l.base /\ Meets(r.base + 1, l.base + Operands(l))
  BY <1>2, <1>3 DEF Meets
<1>5. r.op \notin {"main", "block", "stmt", "if", "while", "try"} /\ ~(r.op = "method" /\ r.kind = "catch")
  BY DEF IsValue
<1> QED
  BY <1>2, <1>4, <1>5 DEF Fits

LEMMA SameStatement ==
  ASSUME NEW t \in Records, NEW r \in Records, t.op \in {"block", "stmt", "if", "while", "try"},
         r.op = t.op, r.base = t.base, t.op = "block" => r.kind = t.kind
  PROVE  \A l \in Records : Fits(l, t) => Fits(l, r)
BY DEF Fits, IsValue

LEMMA ExprIs ==
  ASSUME NEW h \in Nat
  PROVE  /\ ExprAt(h) \in Records /\ ExprAt(h).op = "expr" /\ ExprAt(h).kind = "any"
         /\ ExprAt(h).base = h
<1>1. "expr" \in Ops /\ "start" \in Places /\ "any" \in Tags /\ "expr" # "array"
  BY DEF Ops, Places, Tags
<1> QED
  BY <1>1, RecordIs DEF ExprAt

(* A call of an expression, with h operands on the stack.                  *)
LEMMA ExprFits ==
  ASSUME NEW r \in Records, WantsValue(r), NEW u \in Records, u.op = "expr",
         Meets(u.base + 1, r.base + Operands(r)), u.base >= r.base,
         Clean /\ r.op = "try" /\ r.at = "condition" => u.kind = "simple"
  PROVE  Fits(r, u) /\ Finds(u, "run", u.base)
<1>1. u.base \in Nat
  BY DEF Records
<1> QED
  BY <1>1 DEF Fits, IsValue, Finds, Jump, Meets

LEMMA CallsExpr ==
  ASSUME IInv, ctrl # <<>>, NEW r \in Records, \A l \in Records : Fits(l, Top) => Fits(l, r),
         WantsValue(r), ~(r.op = "try" /\ r.at = "condition"), height' \in Nat,
         CallsAs(r, ExprAt(height')), Meets(height' + 1, r.base + Operands(r)),
         height' >= r.base, exception' \in Exceptions
  PROVE  IInv'
<1> DEFINE u == ExprAt(height')
<1>1. u \in Records /\ u.op = "expr" /\ u.base = height'
  BY ExprIs
<1>2. Fits(r, u) /\ Finds(u, "run", height')
  BY <1>1, ExprFits
<1> HIDE DEF u
<1> QED
  BY <1>1, <1>2, CallKeeps DEF u

-----------------------------------------------------------------------------
(* Expressions.                                                            *)

LEMMA LeafKeeps ==
  ASSUME IInv, TooDeep \/ Leaf \/ LeafFails
  PROVE  IInv'
<1>1. ctrl # <<>> /\ Top.op = "expr" /\ code = "run"
  BY DEF TooDeep, Leaf, LeafFails, Any, Simple, In
<1>2. IsValue(Top) /\ Top.base \in Nat /\ Meets(height, Top.base)
  BY <1>1, Tops DEF IsValue, Finds, Records
<1>3. height \in Nat /\ exception \in Exceptions /\ Error \in Exceptions
  BY DEF IInv, Exceptions
<1>4. CASE TooDeep
  BY <1>1, <1>2, <1>3, <1>4, ValueReturns DEF TooDeep, InternalError, Meets
<1>5. CASE Leaf
  <2>1. height' = height + 1 /\ Meets(height', Top.base + 1) /\ height' >= Top.base
    BY <1>2, <1>3, <1>5 DEF Leaf, Meets
  <2> QED
    BY <1>1, <1>2, <1>3, <1>5, <2>1, ValueReturns DEF Leaf
<1>6. CASE LeafFails
  <2>1. height' = height /\ Meets(height', Top.base) /\ height' >= Top.base
    BY <1>2, <1>6 DEF LeafFails, Meets
  <2>2. exception' \in Exceptions
    BY <1>3, <1>6 DEF LeafFails
  <2> QED
    BY <1>1, <1>2, <1>3, <1>6, <2>1, <2>2, ValueReturns DEF LeafFails
<1> QED
  BY <1>4, <1>5, <1>6

(* A method over its body.                                                 *)
LEMMA MethodIs ==
  ASSUME NEW base \in Nat, NEW kind \in Kinds,
         NEW m, m = Record("method", "body", kind, base), NEW b, b = Body(kind, base)
  PROVE  /\ m \in Records /\ m.op = "method" /\ m.kind # "catch" /\ m.base = base /\ IsValue(m)
         /\ b \in Records /\ Fits(m, b) /\ Finds(b, "run", base)
<1>1. "method" \in Ops /\ "body" \in Places /\ kind \in Tags /\ "method" # "array" /\ kind # "catch"
  BY DEF Ops, Places, Tags, Kinds
<1>2. m \in Records /\ m.op = "method" /\ m.kind = kind /\ m.base = base
  BY <1>1, RecordIs
<1>3. IsValue(m) /\ Operands(m) = 1
  BY <1>1, <1>2, OperandsAre DEF IsValue
<1>4. CASE kind = "expr"
  <2>1. b \in Records /\ b.op = "expr" /\ b.base = base
    BY <1>4, ExprIs DEF Body
  <2>2. WantsValue(m) /\ Meets(b.base + 1, m.base + Operands(m)) /\ b.base >= m.base
    BY <1>2, <1>3, <1>4, <2>1 DEF WantsValue, Meets
  <2>3. Fits(m, b) /\ Finds(b, "run", b.base)
    BY <1>2, <2>1, <2>2, ExprFits
  <2> QED
    BY <1>1, <1>2, <1>3, <2>1, <2>3
<1>5. CASE kind \in {"root", "noname"}
  <2>1. "block" \in Ops /\ "next" \in Places /\ "block" # "array"
    BY DEF Ops, Places
  <2>2. b = Record("block", "next", kind, base)
    BY <1>5 DEF Body, Block
  <2>3. b \in Records /\ b.op = "block" /\ b.kind = kind /\ b.base = base
    BY <1>1, <2>1, <2>2, RecordIs
  <2>4. Fits(m, b)
    BY <1>2, <1>5, <2>3 DEF Fits, IsValue, Meets
  <2>5. Finds(b, "run", base)
    BY <2>3 DEF Finds, Jump, Meets
  <2> QED
    BY <1>1, <1>2, <1>3, <2>3, <2>4, <2>5
<1> QED
  BY <1>4, <1>5 DEF Kinds

LEMMA EnterMethodIs ==
  ASSUME NEW s, NEW kind, NEW h \in Int, NEW p \in Nat, EnterMethod(s, kind, h, p),
         NEW base, base = h - (p + 1)
  PROVE  /\ ctrl' = s \o <<Record("method", "body", kind, base), Body(kind, base)>>
         /\ code' = "run" /\ height' = base /\ exception' = exception
BY DEF EnterMethod

(* A method takes the place of the call that called it.                    *)
LEMMA EnterMethodKeeps ==
  ASSUME IInv, ctrl # <<>>, IsValue(Top), Top.op # "expr", NEW kind \in Kinds, NEW h \in Int,
         NEW p \in Nat, Meets(h - (p + 1), Top.base), EnterMethod(Below, kind, h, p)
  PROVE  IInv'
<1> DEFINE base == h - (p + 1)
           m == Record("method", "body", kind, base)
           b == Body(kind, base)
<1>1. Top \in Records /\ Top.base \in Nat /\ Good(Below)
  BY Tops DEF Records
<1>2. base \in Nat
  BY <1>1 DEF Meets
<1>3. /\ m \in Records /\ m.base = base /\ IsValue(m)
      /\ b \in Records /\ Fits(m, b) /\ Finds(b, "run", base)
  BY <1>2, MethodIs
<1>4. ctrl' = Below \o <<m, b>> /\ code' = "run" /\ height' = base /\ exception' = exception
  BY DEF EnterMethod
<1> HIDE DEF m, b
<1>5. Below # <<>> => Fits(Below[Len(Below)], m)
  BY <1>1, <1>3, SameValue, Tops
<1> HIDE DEF base
<1> QED
  BY <1>1, <1>2, <1>3, <1>4, <1>5, EnterKeeps DEF IInv

(* A native method ends, or fails.                                         *)
LEMMA NativeKeeps ==
  ASSUME IInv, ctrl # <<>>, IsValue(Top), Top.op # "expr", NEW k \in Nat,
         Meets(height, Top.base + k), NativeMethod(k)
  PROVE  IInv'
<1>1. Top.base \in Nat /\ height \in Nat /\ exception \in Exceptions /\ Error \in Exceptions
  BY Tops DEF Records, IInv, Exceptions
<1>2. CASE height' = height - k + 1 /\ Returns("NEXTSTEP") /\ UNCHANGED exception
  <2>1. height' \in Int /\ height' >= Top.base /\ Meets(height', Top.base + 1)
    BY <1>1, <1>2 DEF Meets
  <2> QED
    BY <1>1, <1>2, <2>1, ValueReturns
<1>3. CASE height' = height - k /\ exception' \in {exception, Error} /\ Returns("THROW")
  <2>1. height' \in Int /\ height' >= Top.base
    BY <1>1, <1>3 DEF Meets
  <2> QED
    BY <1>1, <1>3, <2>1, ValueReturns
<1> QED
  BY <1>2, <1>3 DEF NativeMethod

(* "self", a native method that calls a method for each element of an array *)
(* or for a string, in the place of the innermost call.                    *)
LEMMA CallbackKeeps ==
  ASSUME IInv, ctrl # <<>>, IsValue(Top), Top.op # "expr", NEW h \in Int, Meets(h, Top.base),
         NEW self \in Records, self.op = "callback", Meets(self.base, Top.base),
         Meets(h, self.base), Callback(self, h)
  PROVE  IInv'
<1> DEFINE s == Append(Below, self)
<1>1. PICK kind \in Kinds :
        \/ self.kind = "each" /\ EnterMethod(s, kind, h + 2, 1)
        \/ self.kind = "to_s" /\ EnterMethod(s, kind, h + 1, 0)
  BY DEF Callback
<1> DEFINE m == Record("method", "body", kind, h)
           b == Body(kind, h)
<1>2. h \in Nat /\ IsValue(self) /\ Operands(self) = 1 /\ self.base \in Nat /\ Top \in Records
  BY Tops, OperandsAre DEF Records, Meets, IsValue
<1>3. ctrl' = s \o <<m, b>> /\ code' = "run" /\ height' = h /\ exception' = exception
  <2>1. CASE EnterMethod(s, kind, h + 2, 1)
    <3>1. h + 2 \in Int /\ 1 \in Nat /\ h = h + 2 - (1 + 1)
      OBVIOUS
    <3> HIDE DEF s
    <3> QED
      BY <2>1, <3>1, EnterMethodIs
  <2>2. CASE EnterMethod(s, kind, h + 1, 0)
    <3>1. h + 1 \in Int /\ 0 \in Nat /\ h = h + 1 - (0 + 1)
      OBVIOUS
    <3> HIDE DEF s
    <3> QED
      BY <2>2, <3>1, EnterMethodIs
  <2> QED
    BY <1>1, <2>1, <2>2
<1>4. /\ m \in Records /\ m.base = h /\ m.op = "method" /\ m.kind # "catch" /\ IsValue(m)
      /\ b \in Records /\ Fits(m, b) /\ Finds(b, "run", h)
  BY <1>2, MethodIs
<1> HIDE DEF m, b
<1>5. \A l \in Records : Fits(l, Top) => Fits(l, self)
  BY <1>2, SameValue
<1>6. Good(s) /\ s # <<>> /\ s[Len(s)] = self
  BY <1>5, ReplaceGood
<1>7. Fits(self, m)
  <2>1. WantsValue(self) /\ Meets(m.base + 1, self.base + Operands(self)) /\ m.base >= self.base
    BY <1>2, <1>4 DEF WantsValue, Meets
  <2> QED
    BY <1>4, <2>1 DEF Fits
<1> HIDE DEF s
<1> QED
  BY <1>2, <1>3, <1>4, <1>6, <1>7, EnterKeeps DEF IInv

LEMMA BeginCallbackKeeps ==
  ASSUME IInv, ctrl # <<>>, IsValue(Top), Top.op # "expr", height \in Int,
         Meets(height, Top.base + 2), BeginCallback(height - 2)
  PROVE  IInv'
<1> DEFINE h == height - 2
<1>1. h \in Nat /\ Top.base \in Nat /\ Meets(h, Top.base)
  BY Tops DEF Records, Meets
<1> HIDE DEF h
<1>2. PICK kind \in {"each", "to_s"} : Callback(Record("callback", "call", kind, h), h)
  BY DEF BeginCallback, h
<1> DEFINE self == Record("callback", "call", kind, h)
<1>3. "callback" \in Ops /\ "call" \in Places /\ kind \in Tags /\ "callback" # "array"
  BY DEF Ops, Places, Tags
<1>4. self \in Records /\ self.op = "callback" /\ self.base = h
  BY <1>1, <1>3, RecordIs
<1> HIDE DEF self
<1>5. Meets(self.base, Top.base) /\ Meets(h, self.base) /\ Callback(self, h)
  BY <1>1, <1>2, <1>4 DEF Meets, self
<1> QED
  BY <1>1, <1>4, <1>5, CallbackKeeps

(* A call that goes on at another place, or with one operand more.         *)
LEMMA SameLink ==
  ASSUME NEW t \in Records, NEW r \in Records, r.op = t.op, r.kind = t.kind, r.base = t.base
  PROVE  \A l \in Records : Fits(l, t) => Fits(l, r)
BY DEF Fits, IsValue

LEMMA WithAt ==
  ASSUME NEW t \in Records, NEW at \in Places, NEW r, r = [t EXCEPT !.at = at]
  PROVE  /\ r \in Records /\ r.op = t.op /\ r.kind = t.kind /\ r.base = t.base /\ r.n = t.n /\ r.at = at
         /\ \A l \in Records : Fits(l, t) => Fits(l, r)
<1>1. r \in Records /\ r.op = t.op /\ r.kind = t.kind /\ r.base = t.base /\ r.n = t.n /\ r.at = at
  BY DEF Records
<1> QED
  BY <1>1, SameLink

(* An expression that is more than a name: it is replaced by what it is.   *)
LEMMA AnyIs ==
  ASSUME IInv, Any
  PROVE  /\ ctrl # <<>> /\ Top \in Records /\ Top.op = "expr" /\ Top.kind = "any" /\ code = "run"
         /\ IsValue(Top) /\ Meets(height, Top.base) /\ height \in Nat /\ Top.base \in Nat
BY Tops DEF Any, Simple, In, IInv, Finds, IsValue, Records

LEMMA AnyBecomes ==
  ASSUME IInv, Any, NEW op \in {"operation", "call", "new", "array"}, NEW at \in Places,
         NEW kind \in Tags, op = "array" => Uses("array"),
         NEW r, r = Record(op, at, kind, height)
  PROVE  /\ r \in Records /\ r.op = op /\ r.at = at /\ r.base = height /\ r.n = 0
         /\ \A l \in Records : Fits(l, Top) => Fits(l, r)
<1>1. op \in Ops
  BY DEF Ops
<1>2. /\ r \in Records /\ r.op = op /\ r.at = at /\ r.base = height /\ r.n = 0
  BY <1>1, AnyIs, RecordIs
<1>3. IsValue(r)
  BY <1>2 DEF IsValue
<1> QED
  BY <1>2, <1>3, AnyIs, SameValue

LEMMA OperationKeeps ==
  ASSUME IInv, BeginOperation \/ OperationLeft \/ OperationFails \/ OperationRight
  PROVE  IInv'
<1>1. height \in Nat /\ exception \in Exceptions
  BY DEF IInv
<1>2. CASE BeginOperation
  <2> DEFINE r == Record("operation", "left", "none", height)
  <2>0. /\ Any /\ "left" \in Places /\ "none" \in Tags /\ "operation" # "array"
        /\ "operation" \in {"operation", "call", "new", "array"}
        /\ r = Record("operation", "left", "none", height)
    BY <1>2 DEF BeginOperation, Places, Tags
  <2>1. /\ r \in Records /\ r.op = "operation" /\ r.at = "left" /\ r.base = height
        /\ \A l \in Records : Fits(l, Top) => Fits(l, r)
    <3> HIDE DEF r
    <3> QED
      BY <2>0, AnyBecomes
  <2>2. WantsValue(r) /\ Operands(r) = 1
    BY <2>1, OperandsAre DEF WantsValue
  <2>3. /\ ctrl # <<>> /\ height' = height /\ exception' = exception
        /\ CallsAs(r, ExprAt(height'))
    BY <1>2, AnyIs DEF BeginOperation, Expr
  <2> HIDE DEF r
  <2>4. Meets(height' + 1, r.base + Operands(r)) /\ height' >= r.base
    BY <1>1, <2>1, <2>2, <2>3 DEF Meets
  <2> QED
    BY <1>1, <2>1, <2>2, <2>3, <2>4, CallsExpr
<1>3. CASE OperationLeft
  <2> DEFINE r == [Top EXCEPT !.at = "right"]
  <2>1. /\ ctrl # <<>> /\ Top.op = "operation" /\ Top.at = "left" /\ code = "NEXTSTEP"
        /\ height' = height /\ exception' = exception /\ CallsAs(r, ExprAt(height'))
    BY <1>3 DEF OperationLeft, In, Calls, Expr
  <2>2. Top \in Records /\ Meets(height, Top.base + 1) /\ Top.base \in Nat
    BY <2>1, Tops, OperandsAre DEF Finds, Records
  <2>3. /\ r \in Records /\ r.op = "operation" /\ r.base = Top.base /\ r.at = "right"
        /\ \A l \in Records : Fits(l, Top) => Fits(l, r)
    BY <2>1, <2>2, WithAt DEF Places
  <2> HIDE DEF r
  <2>4. WantsValue(r) /\ Operands(r) = 2
    BY <2>3, OperandsAre DEF WantsValue
  <2>5. Meets(height' + 1, r.base + Operands(r)) /\ height' >= r.base
    BY <1>1, <2>1, <2>2, <2>3, <2>4 DEF Meets
  <2> QED
    BY <1>1, <2>1, <2>3, <2>4, <2>5, CallsExpr
<1>4. CASE OperationFails
  <2>1. /\ ctrl # <<>> /\ Top.op = "operation" /\ code # "run"
        /\ Returns(code) \/ Returns("THROW")
        /\ (code # "NEXTSTEP" /\ Returns(code)) \/ Returns("THROW")
        /\ height' = height /\ exception' = exception
    BY <1>4 DEF OperationFails, In
  <2>2. /\ IsValue(Top) /\ height >= Top.base /\ Top.base \in Nat /\ code \in {"NEXTSTEP", "THROW"}
    BY <2>1, Tops DEF IsValue, Finds, Jump, Records, IInv, Codes
  <2>3. Returns("THROW")
    BY <2>1, <2>2
  <2> QED
    BY <1>1, <2>1, <2>2, <2>3, ValueReturns
<1>5. CASE OperationRight
  <2>1. ctrl # <<>> /\ Top.op = "operation" /\ Top.at = "right" /\ code = "NEXTSTEP"
    BY <1>5 DEF OperationRight, In
  <2>2. Top \in Records /\ Meets(height, Top.base + 2) /\ Top.base \in Nat /\ IsValue(Top)
    BY <2>1, Tops, OperandsAre DEF Finds, Records, IsValue
  <2>3. CASE NativeMethod(2)
    BY <2>1, <2>2, <2>3, NativeKeeps
  <2>4. CASE BeginCallback(height - 2)
    BY <1>1, <2>1, <2>2, <2>4, BeginCallbackKeeps
  <2>5. CASE EnterMethod(Below, "root", height, 1)
    <3>1. Meets(height - (1 + 1), Top.base) /\ "root" \in Kinds
      BY <1>1, <2>2 DEF Meets, Kinds
    <3> QED
      BY <1>1, <2>1, <2>2, <2>5, <3>1, EnterMethodKeeps
  <2> QED
    BY <1>5, <2>3, <2>4, <2>5 DEF OperationRight
<1> QED
  BY <1>2, <1>3, <1>4, <1>5

LEMMA CallbackStepKeeps ==
  ASSUME IInv, EachNext \/ CallbackEnds
  PROVE  IInv'
<1>1. height \in Nat /\ exception \in Exceptions
  BY DEF IInv
<1>2. ctrl # <<>> /\ Top.op = "callback" /\ code # "run"
  BY DEF EachNext, CallbackEnds, In
<1>3. /\ Top \in Records /\ IsValue(Top) /\ Operands(Top) = 1 /\ Top.base \in Nat
      /\ height >= Top.base
      /\ code = "NEXTSTEP" => Meets(height, Top.base + 1)
  BY <1>2, Tops, OperandsAre DEF IsValue, Finds, Records
<1>4. CASE EachNext
  <2> DEFINE h == height - 1
  <2>1. code = "NEXTSTEP" /\ Callback(Top, h)
    BY <1>4 DEF EachNext
  <2>2. Meets(h, Top.base) /\ Meets(Top.base, Top.base) /\ h \in Int
    BY <1>1, <1>3, <2>1 DEF Meets
  <2> HIDE DEF h
  <2> QED
    BY <1>2, <1>3, <2>1, <2>2, CallbackKeeps
<1>5. CASE CallbackEnds
  <2>1. exception' = exception
    BY <1>5 DEF CallbackEnds
  <2>2. CASE code = "NEXTSTEP" /\ Returns("NEXTSTEP") /\ UNCHANGED height
    BY <1>1, <1>2, <1>3, <2>1, <2>2, ValueReturns
  <2>3. CASE code = "NEXTSTEP" /\ Returns("THROW") /\ height' = height - 1
    <3>1. height' \in Int /\ height' >= Top.base
      BY <1>1, <1>3, <2>3 DEF Meets
    <3> QED
      BY <1>1, <1>2, <1>3, <2>1, <2>3, <3>1, ValueReturns
  <2>4. CASE Returns("THROW") /\ height' = IF Top.kind = "each" THEN height + 1 ELSE height
    <3>1. height' \in Int /\ height' >= Top.base
      BY <1>1, <1>3, <2>4
    <3> QED
      BY <1>1, <1>2, <1>3, <2>1, <2>4, <3>1, ValueReturns
  <2> QED
    BY <1>5, <2>2, <2>3, <2>4 DEF CallbackEnds
<1> QED
  BY <1>4, <1>5

LEMMA BeginCallKeeps ==
  ASSUME IInv, BeginCall \/ BeginCallOn
  PROVE  IInv'
<1>1. height \in Nat /\ exception \in Exceptions /\ Any
  BY DEF IInv, BeginCall, BeginCallOn
<1>2. ctrl # <<>> /\ code = "run"
  BY <1>1, AnyIs
<1>3. "call" \in {"operation", "call", "new", "array"} /\ "call" # "array"
      /\ {"args", "receiver"} \subseteq Places /\ {"method", "super", "on"} \subseteq Tags
  BY DEF Places, Tags
<1>4. CASE BeginCall
  <2>1. PICK kind \in {"method", "super"} : ctrl' = Append(Below, Record("call", "args", kind, height))
    BY <1>4 DEF BeginCall
  <2>2. height' = height + 1 /\ code' = "run" /\ exception' = exception
    BY <1>2, <1>4 DEF BeginCall
  <2> DEFINE r == Record("call", "args", kind, height)
  <2>3. r = Record("call", "args", kind, height) /\ kind \in Tags /\ "args" \in Places
    BY <1>3
  <2> HIDE DEF r
  <2>4. /\ r \in Records /\ r.op = "call" /\ r.base = height /\ r.n = 0
        /\ \A l \in Records : Fits(l, Top) => Fits(l, r)
    BY <1>1, <1>3, <2>3, AnyBecomes
  <2>5. Finds(r, "run", height')
    BY <1>1, <2>2, <2>4 DEF Finds, Jump, Meets
  <2> QED
    BY <1>1, <1>2, <2>1, <2>2, <2>3, <2>4, <2>5, ReplaceKeeps
<1>5. CASE BeginCallOn
  <2> DEFINE r == Record("call", "receiver", "on", height)
  <2>1. /\ height' = height /\ exception' = exception /\ CallsAs(r, ExprAt(height'))
    BY <1>5 DEF BeginCallOn, Expr
  <2>2. r = Record("call", "receiver", "on", height) /\ "on" \in Tags /\ "receiver" \in Places
    BY <1>3
  <2> HIDE DEF r
  <2>3. /\ r \in Records /\ r.op = "call" /\ r.base = height /\ r.n = 0
        /\ \A l \in Records : Fits(l, Top) => Fits(l, r)
    BY <1>1, <1>3, <2>2, AnyBecomes
  <2>4. WantsValue(r) /\ Operands(r) = 1
    BY <2>3, OperandsAre DEF WantsValue
  <2>5. Meets(height' + 1, r.base + Operands(r)) /\ height' >= r.base
    BY <1>1, <2>1, <2>3, <2>4 DEF Meets
  <2> QED
    BY <1>1, <1>2, <2>1, <2>3, <2>4, <2>5, CallsExpr
<1> QED
  BY <1>4, <1>5

(* A call finds the receiver and its arguments so far.                     *)
LEMMA CallIs ==
  ASSUME IInv, ctrl # <<>>, Top.op = "call"
  PROVE  /\ Top \in Records /\ IsValue(Top) /\ Top.base \in Nat /\ Top.n \in Nat
         /\ height \in Nat /\ height >= Top.base /\ exception \in Exceptions
         /\ Operands(Top) = Top.n + 1
         /\ code \in {"run", "NEXTSTEP"} => Meets(height, Top.base + (Top.n + 1))
         /\ code \in {"run", "NEXTSTEP", "THROW"}
<1>1. Top \in Records /\ Finds(Top, code, height)
  BY Tops
<1>2. Operands(Top) = Top.n + 1
  BY <1>1, OperandsAre
<1>3. code \in {"run", "NEXTSTEP", "THROW"}
  BY <1>1 DEF Finds, Jump, IInv, Codes
<1> QED
  BY <1>1, <1>2, <1>3, MkVmAssumption DEF Finds, IsValue, Records, IInv

LEMMA CallArgumentsKeep ==
  ASSUME IInv, CallReceiver \/ CallArgument \/ CallArgumentFails
  PROVE  IInv'
<1>1. ctrl # <<>> /\ Top.op = "call"
  BY DEF CallReceiver, CallArgument, CallArgumentFails, In
<1>2. Error \in Exceptions
  BY DEF Exceptions
<1>3. CASE CallReceiver
  <2>1. CASE code = "NEXTSTEP" /\ GoesOn("args") /\ UNCHANGED <<height, exception>>
    <3> DEFINE r == [Top EXCEPT !.at = "args"]
    <3>1. ctrl' = Append(Below, r) /\ code' = "run" /\ height' = height /\ exception' = exception
      BY <2>1 DEF GoesOn
    <3>2. r = [Top EXCEPT !.at = "args"] /\ "args" \in Places
      BY DEF Places
    <3> HIDE DEF r
    <3>3. /\ r \in Records /\ r.op = "call" /\ r.base = Top.base /\ r.n = Top.n
          /\ \A l \in Records : Fits(l, Top) => Fits(l, r)
      BY <1>1, <3>2, CallIs, WithAt
    <3>4. Finds(r, "run", height')
      BY <1>1, <2>1, <3>1, <3>3, CallIs DEF Finds, Jump
    <3> QED
      BY <1>1, <3>1, <3>3, <3>4, CallIs, ReplaceKeeps
  <2>2. CASE code = "NEXTSTEP" /\ height' = height - 1 /\ InternalError /\ Returns("THROW")
    <3>1. height' \in Int /\ height' >= Top.base /\ exception' \in Exceptions
      BY <1>1, <1>2, <2>2, CallIs DEF Meets, InternalError
    <3> QED
      BY <1>1, <2>2, <3>1, CallIs, ValueReturns
  <2>3. CASE code \notin {"run", "NEXTSTEP"} /\ Returns(code) /\ UNCHANGED <<height, exception>>
    <3>1. code = "THROW"
      BY <1>1, <2>3, CallIs
    <3> QED
      BY <1>1, <2>3, <3>1, CallIs, ValueReturns
  <2> QED
    BY <1>3, <2>1, <2>2, <2>3 DEF CallReceiver
<1>4. CASE CallArgument
  <2> DEFINE r == [Top EXCEPT !.n = @ + 1]
  <2>1. /\ Top.at = "args" /\ Top.n < MaxArgs /\ code \in {"run", "NEXTSTEP"}
        /\ height' = height /\ exception' = exception /\ CallsAs(r, ExprAt(height'))
    BY <1>4 DEF CallArgument, Expr, In
  <2>2. r = [Top EXCEPT !.n = Top.n + 1]
    OBVIOUS
  <2> HIDE DEF r
  <2>3. /\ r \in Records /\ r.op = "call" /\ r.base = Top.base /\ r.n = Top.n + 1
        /\ r.kind = Top.kind
    BY <1>1, <2>1, <2>2, CallIs, MkVmAssumption DEF Records
  <2>4. \A l \in Records : Fits(l, Top) => Fits(l, r)
    BY <1>1, <2>3, CallIs, SameLink
  <2>5. WantsValue(r) /\ Operands(r) = r.n + 1
    BY <2>3, OperandsAre DEF WantsValue
  <2>6. Meets(height' + 1, r.base + Operands(r)) /\ height' >= r.base /\ height' \in Nat
    BY <1>1, <2>1, <2>3, <2>5, CallIs DEF Meets
  <2> QED
    BY <1>1, <2>1, <2>3, <2>4, <2>5, <2>6, CallIs, CallsExpr
<1>5. CASE CallArgumentFails
  <2>1. Returns("THROW") /\ height' = height /\ exception' \in {exception, Error}
    BY <1>5 DEF CallArgumentFails
  <2> QED
    BY <1>1, <1>2, <2>1, CallIs, ValueReturns
<1> QED
  BY <1>3, <1>4, <1>5

LEMMA CallStepKeeps ==
  ASSUME IInv, Call
  PROVE  IInv'
<1>1. ctrl # <<>> /\ Top.op = "call" /\ code \in {"run", "NEXTSTEP"}
  BY DEF Call, In
<1>2. Meets(height, Top.base + (Top.n + 1)) /\ Top.n + 1 \in Nat
  BY <1>1, CallIs
<1>3. CASE NativeMethod(Top.n + 1)
  BY <1>1, <1>2, <1>3, CallIs, NativeKeeps
<1>4. CASE Top.n = 1 /\ BeginCallback(height - 2)
  <2>1. Meets(height, Top.base + 2)
    BY <1>1, <1>2, <1>4, CallIs
  <2> QED
    BY <1>1, <1>4, <2>1, CallIs, BeginCallbackKeeps
<1>5. ASSUME NEW kind \in Kinds, EnterMethod(Below, kind, height, Top.n) PROVE IInv'
  <2>1. Meets(height - (Top.n + 1), Top.base)
    BY <1>1, <1>2, CallIs DEF Meets
  <2> QED
    BY <1>1, <1>5, <2>1, CallIs, EnterMethodKeeps
<1> QED
  BY <1>3, <1>4, <1>5 DEF Call

LEMMA MethodReturnsKeeps ==
  ASSUME IInv, MethodReturns
  PROVE  IInv'
<1>1. /\ ctrl # <<>> /\ Top.op = "method" /\ Top.at = "body" /\ code # "run"
      /\ height' = height /\ exception' = exception
  BY DEF MethodReturns, In
<1>2. /\ Top \in Records /\ Top.base \in Nat /\ Finds(Top, code, height) /\ height \in Nat
      /\ exception \in Exceptions /\ code \in Codes
      /\ Operands(Top) = IF Top.kind = "catch" THEN 0 ELSE 1
  BY <1>1, Tops, OperandsAre DEF Records, IInv
<1>3. CASE Top.kind = "catch"
  <2>1. ~IsValue(Top) /\ Returns(code)
    BY <1>1, <1>3 DEF MethodReturns, IsValue
  <2>2. Ends(Top, code, height')
    BY <1>1, <1>2, <1>3 DEF Ends, Finds
  <2> QED
    BY <1>1, <1>2, <2>1, <2>2, StatementReturns
<1>4. CASE Top.kind # "catch"
  <2> DEFINE c == IF code = "RETURN" THEN "NEXTSTEP" ELSE code
  <2>1. Returns(c)
    BY <1>4 DEF MethodReturns
  <2>2. IsValue(Top) /\ height' >= Top.base
    BY <1>1, <1>2, <1>4 DEF IsValue, Finds
  <2>3. c \in {"NEXTSTEP", "THROW"}
    BY <1>1, <1>2, <1>4 DEF Finds, Jump, Codes
  <2>4. c = "NEXTSTEP" => Meets(height', Top.base + 1)
    BY <1>1, <1>2, <1>4 DEF Finds
  <2> HIDE DEF c
  <2> QED
    BY <1>1, <1>2, <2>1, <2>2, <2>3, <2>4, ValueReturns
<1> QED
  BY <1>3, <1>4

(* An object that is being made has one operand, once one is evaluated.    *)
LEMMA NewIs ==
  ASSUME IInv, ctrl # <<>>, Top.op = "new"
  PROVE  /\ Top \in Records /\ IsValue(Top) /\ Top.base \in Nat /\ height \in Nat
         /\ height >= Top.base /\ exception \in Exceptions /\ Error \in Exceptions
         /\ code = "NEXTSTEP" => Meets(height, Top.base + 1)
         /\ code \in {"run", "NEXTSTEP", "THROW"}
<1>1. Top \in Records /\ Finds(Top, code, height) /\ Operands(Top) = 1
  BY Tops, OperandsAre
<1>2. code \in {"run", "NEXTSTEP", "THROW"}
  BY <1>1 DEF Finds, Jump, IInv, Codes
<1> QED
  BY <1>1, <1>2 DEF Finds, IsValue, Records, IInv, Exceptions

LEMMA NewStepKeeps ==
  ASSUME IInv, BeginNew \/ NewMember \/ NewFails \/ NewInitialize
  PROVE  IInv'
<1>1. CASE BeginNew
  <2>1. Any /\ height \in Nat /\ exception \in Exceptions
    BY <1>1 DEF BeginNew, IInv
  <2> DEFINE r == Record("new", "class", "none", height)
  <2>2. /\ height' = height /\ exception' = exception /\ CallsAs(r, ExprAt(height'))
    BY <1>1 DEF BeginNew, Expr
  <2>3. /\ r = Record("new", "class", "none", height) /\ "none" \in Tags /\ "class" \in Places
        /\ "new" \in {"operation", "call", "new", "array"} /\ "new" # "array"
    BY DEF Tags, Places
  <2> HIDE DEF r
  <2>4. /\ r \in Records /\ r.op = "new" /\ r.base = height
        /\ \A l \in Records : Fits(l, Top) => Fits(l, r)
    BY <2>1, <2>3, AnyBecomes
  <2>5. WantsValue(r) /\ Operands(r) = 1
    BY <2>4, OperandsAre DEF WantsValue
  <2>6. Meets(height' + 1, r.base + Operands(r)) /\ height' >= r.base
    BY <2>1, <2>2, <2>4, <2>5 DEF Meets
  <2> QED
    BY <2>1, <2>2, <2>4, <2>5, <2>6, AnyIs, CallsExpr
<1>2. CASE NewMember
  <2> DEFINE r == [Top EXCEPT !.at = "member", !.n = @ + 1]
  <2>1. /\ ctrl # <<>> /\ Top.op = "new" /\ code = "NEXTSTEP" /\ Top.n < MaxArgs
        /\ height' = height - 1 /\ exception' = exception
        /\ CallsAs(r, ExprAt(height - 1))
    BY <1>2 DEF NewMember, In
  <2> DEFINE q == [Top EXCEPT !.at = "member"]
  <2>2. r = [q EXCEPT !.n = Top.n + 1]
    OBVIOUS
  <2>3. /\ r \in Records /\ r.op = "new" /\ r.base = Top.base
        /\ \A l \in Records : Fits(l, Top) => Fits(l, r)
    <3>1. q \in Records /\ q.op = "new" /\ q.kind = Top.kind /\ q.base = Top.base /\ q.n = Top.n
      BY <2>1, NewIs DEF Records, Places
    <3> HIDE DEF q, r
    <3>2. r \in Records /\ r.op = "new" /\ r.kind = Top.kind /\ r.base = Top.base
      BY <2>1, <2>2, <3>1, MkVmAssumption DEF Records
    <3> QED
      BY <2>1, <3>2, NewIs, SameLink
  <2> HIDE DEF r
  <2>4. WantsValue(r) /\ Operands(r) = 1
    BY <2>3, OperandsAre DEF WantsValue
  <2>5. height' \in Nat /\ Meets(height' + 1, r.base + Operands(r)) /\ height' >= r.base
    BY <2>1, <2>3, <2>4, NewIs DEF Meets
  <2>6. CallsAs(r, ExprAt(height')) /\ exception' \in Exceptions
    BY <2>1, NewIs
  <2> QED
    BY <2>1, <2>3, <2>4, <2>5, <2>6, CallsExpr
<1>3. CASE NewFails
  <2>1. ctrl # <<>> /\ Top.op = "new" /\ Returns("THROW")
    BY <1>3 DEF NewFails, In
  <2>2. \/ UNCHANGED <<exception, height>>
        \/ code = "NEXTSTEP" /\ height' = height - 1 /\ exception' \in {exception, Error}
        \/ exception' \in {exception, Error} /\ UNCHANGED height
    BY <1>3 DEF NewFails
  <2>3. height' \in Int /\ height' >= Top.base /\ exception' \in Exceptions
    BY <2>1, <2>2, NewIs DEF Meets
  <2> QED
    BY <2>1, <2>3, NewIs, ValueReturns
<1>4. CASE NewInitialize
  <2>1. /\ ctrl # <<>> /\ Top.op = "new" /\ code = "NEXTSTEP"
        /\ height' = height /\ exception' = exception
    BY <1>4 DEF NewInitialize, In
  <2>2. CASE Returns("NEXTSTEP")
    BY <2>1, <2>2, NewIs, ValueReturns
  <2>3. CASE ctrl' = Append(Below, Record("call", "args", "method", Top.base)) /\ code' = "run"
    <3> DEFINE r == Record("call", "args", "method", Top.base)
    <3>1. "call" \in Ops /\ "args" \in Places /\ "method" \in Tags /\ "call" # "array"
      BY DEF Ops, Places, Tags
    <3>2. r \in Records /\ r.op = "call" /\ r.base = Top.base /\ r.n = 0
      BY <2>1, <3>1, NewIs, RecordIs
    <3>3. ctrl' = Append(Below, r)
      BY <2>3
    <3> HIDE DEF r
    <3>4. IsValue(r) /\ Meets(r.base, Top.base)
      BY <2>1, <3>2, NewIs DEF IsValue, Meets
    <3>5. \A l \in Records : Fits(l, Top) => Fits(l, r)
      BY <2>1, <3>2, <3>4, NewIs, SameValue
    <3>6. Finds(r, "run", height')
      BY <2>1, <3>2, NewIs DEF Finds, Jump
    <3> QED
      BY <2>1, <2>3, <3>2, <3>3, <3>5, <3>6, NewIs, ReplaceKeeps
  <2> QED
    BY <1>4, <2>2, <2>3 DEF NewInitialize
<1> QED
  BY <1>1, <1>2, <1>3, <1>4

LEMMA PlainIs ==
  ASSUME NEW f, height \in Nat
  PROVE  /\ Plain(f) \in Records /\ Plain(f).op = "expr" /\ Plain(f).base = height
         /\ ~Uses(f) => Plain(f).kind = "simple"
<1>1. /\ "expr" \in Ops /\ "start" \in Places /\ {"any", "simple"} \subseteq Tags
      /\ "expr" # "array"
  BY DEF Ops, Places, Tags
<1> DEFINE kind == IF Uses(f) THEN "any" ELSE "simple"
<1>2. kind \in Tags /\ (~Uses(f) => kind = "simple")
  BY <1>1
<1>3. Plain(f) = Record("expr", "start", kind, height)
  BY DEF Plain
<1> HIDE DEF kind
<1> QED
  BY <1>1, <1>2, <1>3, RecordIs

(* Array literals.  They are no part of what is called clean.              *)
LEMMA ArrayStepKeeps ==
  ASSUME IInv, BeginArray \/ ArrayElement \/ ArrayEnds
  PROVE  IInv'
<1>1. height \in Nat /\ exception \in Exceptions
  BY DEF IInv
<1>2. CASE BeginArray
  <2>1. Any /\ Uses("array") /\ exception' = exception /\ height' = height
    BY <1>2 DEF BeginArray
  <2> DEFINE r == Record("array", "elements", "none", height)
  <2>2. ctrl' = Append(Below, r) /\ code' = "run"
    BY <1>2, AnyIs DEF BeginArray
  <2>3. /\ r = Record("array", "elements", "none", height) /\ "none" \in Tags
        /\ "elements" \in Places /\ "array" \in {"operation", "call", "new", "array"}
    BY DEF Tags, Places
  <2> HIDE DEF r
  <2>4. /\ r \in Records /\ r.op = "array" /\ r.base = height
        /\ \A l \in Records : Fits(l, Top) => Fits(l, r)
    BY <2>1, <2>3, AnyBecomes
  <2>5. Finds(r, "run", height')
    BY <1>1, <2>1, <2>4 DEF Finds, Jump, Meets
  <2> QED
    BY <1>1, <2>1, <2>2, <2>4, <2>5, AnyIs, ReplaceKeeps
<1>3. ASSUME ctrl # <<>>, Top.op = "array"
      PROVE  /\ Top \in Records /\ ~Clean /\ IsValue(Top) /\ Top.base \in Nat
             /\ height >= Top.base
             /\ code = "NEXTSTEP" => height >= Top.base + 1
  <2>1. Top \in Records /\ Finds(Top, code, height) /\ Operands(Top) = 1
    BY <1>3, Tops, OperandsAre
  <2> QED
    BY <1>3, <2>1 DEF Records, Finds, IsValue, Meets, Clean, Uses
<1>4. CASE ArrayElement
  <2> DEFINE r == [Top EXCEPT !.n = @ + 1]
             u == [Plain("element") EXCEPT !.base = height']
  <2>1. /\ ctrl # <<>> /\ Top.op = "array" /\ code \in {"run", "NEXTSTEP"} /\ Top.n < MaxArgs
        /\ height' = (IF code = "run" THEN height ELSE height - 1) /\ exception' = exception
        /\ CallsAs(r, u)
    BY <1>4 DEF ArrayElement, In
  <2>2. height' \in Nat /\ height' >= Top.base
    BY <1>1, <1>3, <2>1
  <2>3. u \in Records /\ u.op = "expr" /\ u.base = height'
    BY <1>1, <2>2, PlainIs DEF Records
  <2>4. r = [Top EXCEPT !.n = Top.n + 1]
    OBVIOUS
  <2> HIDE DEF r, u
  <2>5. r \in Records /\ r.op = "array" /\ r.base = Top.base /\ r.kind = Top.kind
    BY <1>3, <2>1, <2>4, MkVmAssumption DEF Records
  <2>6. \A l \in Records : Fits(l, Top) => Fits(l, r)
    BY <1>3, <2>1, <2>5, SameLink
  <2>7. /\ WantsValue(r) /\ Meets(u.base + 1, r.base + Operands(r)) /\ u.base >= r.base
        /\ r.op # "try"
    BY <1>3, <2>1, <2>2, <2>3, <2>5, OperandsAre DEF WantsValue, Meets
  <2>8. Fits(r, u) /\ Finds(u, "run", height')
    BY <2>3, <2>5, <2>7, ExprFits
  <2> QED
    BY <1>1, <2>1, <2>2, <2>3, <2>5, <2>6, <2>8, CallKeeps
<1>5. CASE ArrayEnds
  <2>1. /\ ctrl # <<>> /\ Top.op = "array" /\ Returns("NEXTSTEP") /\ exception' = exception
        /\ height' = IF code = "NEXTSTEP" THEN height ELSE height + 1
    BY <1>5 DEF ArrayEnds, In
  <2>2. height' \in Int /\ height' >= Top.base /\ Meets(height', Top.base + 1)
    BY <1>1, <1>3, <2>1 DEF Meets
  <2> QED
    BY <1>1, <1>3, <2>1, <2>2, ValueReturns
<1> QED
  BY <1>2, <1>4, <1>5

-----------------------------------------------------------------------------
(* Statements and blocks.                                                  *)

LEMMA StatementIs ==
  ASSUME IInv, ctrl # <<>>, Top.op \in {"stmt", "if", "while", "try", "block"}
  PROVE  /\ Top \in Records /\ ~IsValue(Top) /\ Top.base \in Nat
         /\ height \in Nat /\ height >= Top.base
         /\ exception \in Exceptions /\ Error \in Exceptions /\ Raised \subseteq Exceptions
         /\ code \in Codes \cup {"run"}
         /\ code = "run" => Meets(height, Top.base)
         /\ code = "NEXTSTEP" => Meets(height, Top.base + Operands(Top))
         /\ code = "RETURN" => Meets(height, Top.base + 1)
         /\ code \in {"BREAK", "CONTINUE"} => Meets(height, Top.base)
         /\ Jump(code) /\ Top.op \in {"if", "while", "try"} => Top.at # "condition"
<1>1. Top \in Records /\ Finds(Top, code, height)
  BY Tops
<1> QED
  BY <1>1 DEF IInv, Finds, IsValue, Records, Exceptions

(* A code other than NEXTSTEP that is passed on as it came.                *)
LEMMA PassedOn ==
  ASSUME IInv, ctrl # <<>>, Top.op \in {"stmt", "if", "while", "try"},
         code \in Codes, code = "NEXTSTEP" => Operands(Top) = 0, Returns(code),
         UNCHANGED <<height, exception>>
  PROVE  IInv'
<1>1. Ends(Top, code, height')
  BY StatementIs DEF Ends
<1> QED
  BY <1>1, StatementIs, StatementReturns

LEMMA StatementDone ==
  ASSUME IInv, ctrl # <<>>, Top.op \in {"stmt", "if", "while", "try"},
         NEW c \in {"NEXTSTEP", "BREAK", "CONTINUE"}, Meets(height', Top.base), height' \in Int,
         Returns(c), exception' \in Exceptions
  PROVE  IInv'
<1>1. Ends(Top, c, height')
  BY StatementIs DEF Ends, Meets, Codes
<1> QED
  BY <1>1, StatementIs, StatementReturns

(* It evaluates an expression that may raise.                              *)
LEMMA StatementCallsExpr ==
  ASSUME IInv, ctrl # <<>>, Top.op \in {"stmt", "if", "while"},
         NEW r \in Records, r.op = Top.op, r.base = Top.base,
         r.op \in {"if", "while"} => r.at = "condition",
         CallsAs(r, ExprAt(height')), Meets(height', Top.base), height' \in Int,
         exception' \in Exceptions
  PROVE  IInv'
<1>1. \A l \in Records : Fits(l, Top) => Fits(l, r)
  BY StatementIs, SameStatement
<1>2. WantsValue(r) /\ Operands(r) = 1
  BY OperandsAre DEF WantsValue
<1>3. height' \in Nat /\ Meets(height' + 1, r.base + Operands(r)) /\ height' >= r.base
  BY <1>2, StatementIs DEF Meets
<1> QED
  BY <1>1, <1>2, <1>3, CallsExpr

LEMMA BlockFinds ==
  ASSUME NEW b \in Records, b.op = "block", NEW h, b.base = h
  PROVE  Finds(b, "run", h)
<1>1. h \in Nat
  BY DEF Records
<1> QED
  BY <1>1 DEF Finds, Jump, Meets

(* It executes a block.                                                    *)
LEMMA StatementCallsBlock ==
  ASSUME IInv, ctrl # <<>>, Top.op \in {"if", "while", "try"},
         NEW r \in Records, r.op = Top.op, r.base = Top.base, r.at # "condition",
         NEW kind \in {"inner", "catch"}, CallsAs(r, Block(kind, height')),
         Meets(height', Top.base), height' \in Int, exception' \in Exceptions
  PROVE  IInv'
<1>1. \A l \in Records : Fits(l, Top) => Fits(l, r)
  BY StatementIs, SameStatement
<1>2. height' \in Nat /\ Top.base \in Nat
  BY StatementIs DEF Meets
<1> DEFINE b == Block(kind, height')
<1>3. /\ "block" \in Ops /\ "next" \in Places /\ kind \in Tags /\ "block" # "array"
      /\ b = Record("block", "next", kind, height')
  BY DEF Ops, Places, Tags, Block
<1> HIDE DEF b
<1>4. b \in Records /\ b.op = "block" /\ b.kind = kind /\ b.base = height'
  BY <1>2, <1>3, RecordIs
<1>5. ~IsValue(b) /\ Meets(b.base, r.base) /\ b.base >= r.base
  BY <1>2, <1>4 DEF IsValue, Meets
<1>6. r.op \in {"if", "while", "try"} /\ kind \notin {"root", "noname"}
  OBVIOUS
<1>7. Fits(r, b)
  BY <1>4, <1>5, <1>6 DEF Fits
<1>8. Finds(b, "run", height')
  BY <1>4, BlockFinds
<1> QED
  BY <1>1, <1>2, <1>4, <1>7, <1>8, CallKeeps DEF b

LEMMA BlockKeeps ==
  ASSUME IInv, BlockStatement \/ BlockEnds \/ BlockLeft
  PROVE  IInv'
<1>1. ctrl # <<>> /\ Top.op = "block"
  BY DEF BlockStatement, BlockEnds, BlockLeft, In
<1>2. Operands(Top) = 0
  BY <1>1, StatementIs, OperandsAre
<1>3. CASE BlockStatement
  <2>1. PICK op \in Statements : Calls("next", Record(op, "start", "none", height))
    BY <1>3 DEF BlockStatement
  <2> DEFINE r == [Top EXCEPT !.at = "next"]
             u == Record(op, "start", "none", height)
  <2>2. /\ CallsAs(r, u) /\ height' = height /\ exception' = exception
        /\ code \in {"run", "NEXTSTEP"}
    BY <1>3, <2>1 DEF Calls, BlockStatement
  <2>3. /\ r = [Top EXCEPT !.at = "next"] /\ u = Record(op, "start", "none", height)
        /\ {"next", "start"} \subseteq Places /\ "none" \in Tags /\ op \in Ops /\ op # "array"
        /\ op \in {"stmt", "if", "while", "try"}
    BY DEF Places, Tags, Ops, Statements
  <2> HIDE DEF r, u
  <2>4. r \in Records /\ r.op = "block" /\ r.base = Top.base /\ \A l \in Records : Fits(l, Top) => Fits(l, r)
    BY <1>1, <2>3, StatementIs, WithAt
  <2>5. u \in Records /\ u.op = op /\ u.base = height
    BY <1>1, <2>3, StatementIs, RecordIs
  <2>6. Meets(height, Top.base) /\ height \in Nat /\ Top.base \in Nat
    BY <1>1, <1>2, <2>2, StatementIs
  <2>7. Fits(r, u)
    BY <2>3, <2>4, <2>5, <2>6 DEF Fits, IsValue, Meets
  <2>8. Finds(u, "run", height')
    BY <2>2, <2>3, <2>5, <2>6 DEF Finds, Jump, Meets
  <2> QED
    BY <1>1, <2>2, <2>4, <2>5, <2>6, <2>7, <2>8, StatementIs, CallKeeps
<1>4. CASE BlockEnds
  <2>1. code \in {"run", "NEXTSTEP"} /\ Meets(height, Top.base) /\ exception' = exception
    BY <1>1, <1>2, <1>4, StatementIs DEF BlockEnds
  <2>2. CASE Top.kind \in {"root", "noname"}
    <3>1. height' = height + 1 /\ Returns("RETURN")
      BY <1>4, <2>2 DEF BlockEnds, IsMethodBody
    <3>2. Ends(Top, "RETURN", height')
      BY <1>1, <2>1, <3>1, StatementIs DEF Ends, Meets, Codes
    <3> QED
      BY <1>1, <2>1, <3>1, <3>2, StatementIs, StatementReturns
  <2>3. CASE Top.kind \notin {"root", "noname"}
    <3>1. height' = height /\ Returns("NEXTSTEP")
      BY <1>4, <2>3 DEF BlockEnds, IsMethodBody
    <3>2. Ends(Top, "NEXTSTEP", height')
      BY <1>1, <2>1, <2>3, <3>1, StatementIs DEF Ends, Meets, Codes
    <3> QED
      BY <1>1, <2>1, <3>1, <3>2, StatementIs, StatementReturns
  <2> QED
    BY <2>2, <2>3
<1>5. CASE BlockLeft
  <2>1. /\ Top.base \in Nat /\ height \in Nat /\ exception \in Exceptions /\ Error \in Exceptions
        /\ Top \in Records /\ ~IsValue(Top)
    BY <1>1, StatementIs
  <2>2. CASE code \in {"BREAK", "CONTINUE"} /\ IsMethodBody /\ InternalError /\ Returns("THROW") /\ UNCHANGED height
    <3>1. Ends(Top, "THROW", height')
      BY <1>1, <2>1, <2>2, StatementIs DEF Ends, Codes, Meets
    <3>2. exception' \in Exceptions
      BY <2>1, <2>2 DEF InternalError
    <3> QED
      BY <1>1, <2>1, <2>2, <3>1, <3>2, StatementReturns
  <2>3. CASE /\ code = "RETURN" \/ (code \in {"BREAK", "CONTINUE"} /\ ~IsMethodBody)
             /\ Returns(code) /\ UNCHANGED <<height, exception>>
    <3>1. Ends(Top, code, height')
      BY <1>1, <2>1, <2>3, StatementIs DEF Ends, Codes, IsMethodBody
    <3> QED
      BY <1>1, <2>1, <2>3, <3>1, StatementReturns
  <2>4. CASE code = "THROW" /\ height' = HeightAfterThrow /\ Returns("THROW") /\ UNCHANGED exception
    <3>1. Ends(Top, "THROW", height')
      BY <2>1, <2>4 DEF Ends, Codes, Meets, HeightAfterThrow
    <3> QED
      BY <1>1, <2>1, <2>4, <3>1, StatementReturns
  <2> QED
    BY <1>5, <2>2, <2>3, <2>4 DEF BlockLeft
<1> QED
  BY <1>3, <1>4, <1>5

LEMMA StmtKeeps ==
  ASSUME IInv, Stmt \/ StmtEnds
  PROVE  IInv'
<1>1. ctrl # <<>> /\ Top.op = "stmt" /\ Top.op \in {"stmt", "if", "while", "try"}
  BY DEF Stmt, StmtEnds, In
<1>2. /\ Operands(Top) = 1 /\ Top \in Records /\ Top.base \in Nat /\ height \in Nat
      /\ exception \in Exceptions /\ Raised \subseteq Exceptions /\ ~IsValue(Top)
  BY <1>1, StatementIs, OperandsAre
<1>3. CASE Stmt
  <2>1. /\ code = "run" /\ height' = height /\ exception' = exception
        /\ Meets(height', Top.base)
    BY <1>1, <1>3, StatementIs DEF Stmt
  <2>2. CASE \E at \in {"expr", "raise", "backif", "return"} : Calls(at, Expr)
    <3>1. PICK at \in {"expr", "raise", "backif", "return"} : Calls(at, Expr)
      BY <2>2
    <3> DEFINE r == [Top EXCEPT !.at = at]
    <3>2. CallsAs(r, ExprAt(height')) /\ r = [Top EXCEPT !.at = at] /\ at \in Places
      BY <2>1, <3>1 DEF Calls, Expr, Places
    <3> HIDE DEF r
    <3>3. /\ r \in Records /\ r.op = "stmt" /\ r.base = Top.base
          /\ Top.op \in {"stmt", "if", "while"} /\ r.op \notin {"if", "while"}
      BY <1>1, <1>2, <3>2, WithAt
    <3> QED
      <4>1. height' \in Int /\ exception' \in Exceptions
        BY <1>2, <2>1
      <4> QED
        BY <1>1, <2>1, <3>2, <3>3, <4>1, StatementCallsExpr
  <2>3. CASE \E c \in {"BREAK", "CONTINUE"} : Returns(c)
    BY <1>1, <1>2, <2>1, <2>3, StatementDone
  <2> QED
    BY <1>3, <2>2, <2>3 DEF Stmt
<1>4. CASE StmtEnds
  <2>1. code # "run" /\ code \in Codes
    BY <1>1, <1>4, StatementIs DEF StmtEnds
  <2>2. CASE code # "NEXTSTEP" /\ Returns(code) /\ UNCHANGED <<height, exception>>
    BY <1>1, <2>1, <2>2, PassedOn
  <2>3. ASSUME code = "NEXTSTEP"
        PROVE  Meets(height, Top.base + 1) /\ Meets(height - 1, Top.base)
    BY <1>1, <1>2, <2>3, StatementIs DEF Meets
  <2>4. CASE code = "NEXTSTEP" /\ height' = height - 1 /\ Returns("NEXTSTEP") /\ UNCHANGED exception
    BY <1>1, <1>2, <2>3, <2>4, StatementDone
  <2>5. CASE code = "NEXTSTEP" /\ height' = height - 1 /\ GoesOn("start") /\ UNCHANGED exception
    <3> DEFINE r == [Top EXCEPT !.at = "start"]
    <3>1. ctrl' = Append(Below, r) /\ code' = "run" /\ r = [Top EXCEPT !.at = "start"] /\ "start" \in Places
      BY <2>5 DEF GoesOn, Places
    <3> HIDE DEF r
    <3>2. /\ r \in Records /\ r.op = "stmt" /\ r.base = Top.base
          /\ \A l \in Records : Fits(l, Top) => Fits(l, r)
      BY <1>1, <1>2, <3>1, WithAt
    <3>3. height' \in Nat
      BY <1>2, <2>3, <2>5 DEF Meets
    <3>4. Finds(r, "run", height')
      BY <1>2, <2>3, <2>5, <3>2 DEF Finds, Jump, Meets
    <3> QED
      BY <1>1, <1>2, <2>5, <3>1, <3>2, <3>3, <3>4, ReplaceKeeps
  <2>6. CASE code = "NEXTSTEP" /\ height' = height - 1 /\ exception' \in Raised /\ Returns("THROW")
    <3>1. Ends(Top, "THROW", height')
      BY <1>1, <1>2, <2>3, <2>6 DEF Ends, Codes, Meets
    <3> QED
      BY <1>1, <1>2, <2>6, <3>1, StatementReturns
  <2>7. CASE code = "NEXTSTEP" /\ Returns("RETURN") /\ UNCHANGED <<height, exception>>
    <3>1. Ends(Top, "RETURN", height')
      BY <1>1, <1>2, <2>3, <2>7 DEF Ends, Codes, Meets
    <3> QED
      BY <1>1, <1>2, <2>7, <3>1, StatementReturns
  <2> QED
    BY <1>4, <2>2, <2>4, <2>5, <2>6, <2>7 DEF StmtEnds
<1> QED
  BY <1>3, <1>4

LEMMA IfKeeps ==
  ASSUME IInv, If \/ IfCondition \/ IfEnds
  PROVE  IInv'
<1>1. ctrl # <<>> /\ Top.op = "if" /\ Top.op \in {"stmt", "if", "while", "try"}
  BY DEF If, IfCondition, IfEnds, In
<1>2. /\ Top \in Records /\ Top.base \in Nat /\ height \in Nat /\ exception \in Exceptions
      /\ {"condition", "block"} \subseteq Places
      /\ Operands(Top) = IF Top.at = "condition" THEN 1 ELSE 0
  BY <1>1, StatementIs, OperandsAre DEF Places
<1> DEFINE r(at) == [Top EXCEPT !.at = at]
<1>3. ASSUME NEW at \in {"condition", "block"}
      PROVE  r(at) \in Records /\ r(at).op = "if" /\ r(at).base = Top.base /\ r(at).at = at
  BY <1>1, <1>2, WithAt
<1>4. CASE If
  <2>1. /\ height' = height /\ exception' = exception /\ CallsAs(r("condition"), ExprAt(height'))
        /\ Meets(height', Top.base)
    BY <1>1, <1>4, StatementIs DEF If, Calls, Expr
  <2> HIDE DEF r
  <2> QED
    BY <1>1, <1>2, <1>3, <2>1, StatementCallsExpr
<1>5. CASE IfCondition
  <2>1. /\ Top.at = "condition" /\ code \in Codes /\ exception' = exception
    BY <1>1, <1>5, StatementIs DEF IfCondition, In
  <2>2. CASE code = "NEXTSTEP" /\ height' = height - 1
    <3>1. Meets(height', Top.base) /\ height' \in Int
      BY <1>1, <1>2, <2>1, <2>2, StatementIs DEF Meets
    <3>2. CASE Calls("block", Block("inner", height - 1))
      <4>1. CallsAs(r("block"), Block("inner", height'))
        BY <2>2, <3>2 DEF Calls
      <4> HIDE DEF r
      <4> QED
        BY <1>1, <1>2, <1>3, <2>1, <3>1, <4>1, StatementCallsBlock
    <3>3. CASE Calls("condition", ExprAt(height - 1))
      <4>1. CallsAs(r("condition"), ExprAt(height'))
        BY <2>2, <3>3 DEF Calls
      <4> HIDE DEF r
      <4> QED
        BY <1>1, <1>2, <1>3, <2>1, <3>1, <4>1, StatementCallsExpr
    <3>4. CASE Returns("NEXTSTEP")
      BY <1>1, <1>2, <2>1, <3>1, <3>4, StatementDone
    <3> QED
      BY <1>5, <2>2, <3>2, <3>3, <3>4 DEF IfCondition
  <2>3. CASE code # "NEXTSTEP" /\ Returns(code) /\ UNCHANGED height
    BY <1>1, <2>1, <2>3, PassedOn
  <2> QED
    BY <1>5, <2>2, <2>3 DEF IfCondition
<1>6. CASE IfEnds
  <2>1. Top.at = "block" /\ code \in Codes /\ Returns(code) /\ UNCHANGED <<height, exception>>
    BY <1>1, <1>6, StatementIs DEF IfEnds, In
  <2> QED
    BY <1>1, <1>2, <2>1, PassedOn
<1> QED
  BY <1>4, <1>5, <1>6

LEMMA WhileKeeps ==
  ASSUME IInv, While \/ WhileCondition \/ WhileBlock
  PROVE  IInv'
<1>1. ctrl # <<>> /\ Top.op = "while" /\ Top.op \in {"stmt", "if", "while", "try"}
  BY DEF While, WhileCondition, WhileBlock, In
<1>2. /\ Top \in Records /\ Top.base \in Nat /\ height \in Nat /\ exception \in Exceptions
      /\ {"condition", "block"} \subseteq Places
      /\ Operands(Top) = IF Top.at = "condition" THEN 1 ELSE 0
  BY <1>1, StatementIs, OperandsAre DEF Places
<1> DEFINE r(at) == [Top EXCEPT !.at = at]
<1>3. ASSUME NEW at \in {"condition", "block"}
      PROVE  r(at) \in Records /\ r(at).op = "while" /\ r(at).base = Top.base /\ r(at).at = at
  BY <1>1, <1>2, WithAt
<1>4. CASE While
  <2>1. height' = height /\ exception' = exception /\ Meets(height', Top.base)
    BY <1>1, <1>4, StatementIs DEF While
  <2>2. ASSUME NEW at \in {"condition", "block"}, NEW kind \in {"front", "back"},
               NEW w, w = [Top EXCEPT !.at = at, !.kind = kind]
        PROVE  w \in Records /\ w.op = "while" /\ w.base = Top.base /\ w.at = at
    <3> DEFINE q == r(at)
    <3>1. w = [q EXCEPT !.kind = kind] /\ kind \in Tags
      BY <2>2 DEF Tags
    <3>2. q \in Records /\ q.op = "while" /\ q.base = Top.base /\ q.at = at
      BY <1>3
    <3> HIDE DEF q
    <3> QED
      BY <3>1, <3>2 DEF Records
  <2>3. CASE CallsAs([Top EXCEPT !.at = "condition", !.kind = "front"], Expr)
    <3> DEFINE w == [Top EXCEPT !.at = "condition", !.kind = "front"]
    <3>1. w \in Records /\ w.op = "while" /\ w.base = Top.base /\ w.at = "condition"
      BY <2>2
    <3>2. CallsAs(w, ExprAt(height'))
      BY <2>1, <2>3 DEF Expr
    <3> HIDE DEF w
    <3> QED
      BY <1>1, <1>2, <2>1, <3>1, <3>2, StatementCallsExpr
  <2>4. CASE CallsAs([Top EXCEPT !.at = "block", !.kind = "back"], Block("inner", height))
    <3> DEFINE w == [Top EXCEPT !.at = "block", !.kind = "back"]
    <3>1. w \in Records /\ w.op = "while" /\ w.base = Top.base /\ w.at = "block"
      BY <2>2
    <3>2. CallsAs(w, Block("inner", height'))
      BY <2>1, <2>4
    <3> HIDE DEF w
    <3> QED
      BY <1>1, <1>2, <2>1, <3>1, <3>2, StatementCallsBlock
  <2> QED
    BY <1>4, <2>3, <2>4 DEF While
<1>5. CASE WhileCondition
  <2>1. Top.at = "condition" /\ code \in Codes /\ exception' = exception
    BY <1>1, <1>5, StatementIs DEF WhileCondition, In
  <2>2. CASE code = "NEXTSTEP" /\ height' = height - 1
    <3>1. Meets(height', Top.base) /\ height' \in Int
      BY <1>1, <1>2, <2>1, <2>2, StatementIs DEF Meets
    <3>2. CASE Calls("block", Block("inner", height - 1))
      <4>1. CallsAs(r("block"), Block("inner", height'))
        BY <2>2, <3>2 DEF Calls
      <4> HIDE DEF r
      <4> QED
        BY <1>1, <1>2, <1>3, <2>1, <3>1, <4>1, StatementCallsBlock
    <3>3. CASE Returns("NEXTSTEP")
      BY <1>1, <1>2, <2>1, <3>1, <3>3, StatementDone
    <3> QED
      BY <1>5, <2>2, <3>2, <3>3 DEF WhileCondition
  <2>3. CASE code # "NEXTSTEP" /\ Returns(code) /\ UNCHANGED height
    BY <1>1, <2>1, <2>3, PassedOn
  <2> QED
    BY <1>5, <2>2, <2>3 DEF WhileCondition
<1>6. CASE WhileBlock
  <2>1. /\ Top.at = "block" /\ code \in Codes /\ height' = height /\ exception' = exception
        /\ Operands(Top) = 0
    BY <1>1, <1>2, <1>6, StatementIs DEF WhileBlock, In
  <2>2. code \in {"NEXTSTEP", "BREAK", "CONTINUE"} => Meets(height', Top.base)
    BY <1>1, <1>2, <2>1, StatementIs
  <2>3. CASE code = "BREAK" /\ Returns("NEXTSTEP")
    BY <1>1, <1>2, <2>1, <2>2, <2>3, StatementDone
  <2>4. CASE code \in {"NEXTSTEP", "CONTINUE"} /\ Calls("block", Block("inner", height))
    <3>1. CallsAs(r("block"), Block("inner", height'))
      BY <2>1, <2>4 DEF Calls
    <3> HIDE DEF r
    <3> QED
      BY <1>1, <1>2, <1>3, <2>1, <2>2, <2>4, <3>1, StatementCallsBlock
  <2>5. CASE code \in {"NEXTSTEP", "CONTINUE"} /\ Calls("condition", Expr)
    <3>1. CallsAs(r("condition"), ExprAt(height'))
      BY <2>1, <2>5 DEF Calls, Expr
    <3> HIDE DEF r
    <3> QED
      BY <1>1, <1>2, <1>3, <2>1, <2>2, <2>5, <3>1, StatementCallsExpr
  <2>6. CASE code \in {"RETURN", "THROW"} /\ Returns(code)
    BY <1>1, <2>1, <2>6, PassedOn
  <2> QED
    BY <1>6, <2>3, <2>4, <2>5, <2>6 DEF WhileBlock
<1> QED
  BY <1>4, <1>5, <1>6

LEMMA TryKeeps ==
  ASSUME IInv, Try \/ TryThrew \/ ConditionFails \/ Unhandled \/ TryElse \/ TryFinally \/ TryEnds
  PROVE  IInv'
<1>1. ctrl # <<>> /\ Top.op = "try" /\ Top.op \in {"stmt", "if", "while", "try"}
  BY DEF Try, TryThrew, ConditionFails, Unhandled, TryElse, TryFinally, TryEnds, In
<1>2. /\ Top \in Records /\ Top.base \in Nat /\ height \in Nat /\ height >= Top.base
      /\ exception \in Exceptions /\ Error \in Exceptions
      /\ {"try", "catch", "else", "finally"} \subseteq Places
      /\ Operands(Top) = IF Top.at = "condition" THEN 1 ELSE 0
      /\ code = "THROW" /\ Clean /\ Top.at \in {"try", "condition"} => height = Top.base
  BY <1>1, StatementIs, OperandsAre, Tops DEF Places, Finds
<1> DEFINE r(at) == [Top EXCEPT !.at = at]
<1>3. ASSUME NEW at \in {"try", "catch", "else", "finally"}
      PROVE  /\ r(at) \in Records /\ r(at).op = "try" /\ r(at).base = Top.base /\ r(at).at = at
             /\ r(at).at # "condition"
             /\ \A l \in Records : Fits(l, Top) => Fits(l, r(at))
  BY <1>1, <1>2, WithAt
<1>4. CASE Try
  <2>1. CallsAs(r("try"), Block("inner", height')) /\ height' = height /\ exception' = exception
        /\ Meets(height', Top.base)
    BY <1>1, <1>4, StatementIs DEF Try, Calls
  <2> HIDE DEF r
  <2> QED
    BY <1>1, <1>2, <1>3, <2>1, StatementCallsBlock
<1>5. ASSUME GoesOn("catch"), Meets(height', Top.base), height' \in Int, exception' \in Exceptions
      PROVE  IInv'
  <2>1. ctrl' = Append(Below, r("catch")) /\ code' = "run"
    BY <1>5 DEF GoesOn
  <2> HIDE DEF r
  <2>2. Finds(r("catch"), "run", height')
    BY <1>2, <1>3, <1>5 DEF Finds, Jump, Meets
  <2>3. height' \in Nat
    BY <1>2, <1>5 DEF Meets
  <2> QED
    BY <1>1, <1>3, <1>5, <2>1, <2>2, <2>3, ReplaceKeeps
<1>6. CASE TryThrew
  <2>1. height' = height /\ exception' \in {exception, Error} /\ GoesOn("catch")
        /\ code = "THROW" /\ Top.at = "try"
    BY <1>6 DEF TryThrew, In
  <2>2. Meets(height', Top.base)
    BY <1>2, <2>1 DEF Meets
  <2> QED
    BY <1>2, <1>5, <2>1, <2>2
<1>7. CASE ConditionFails
  <2>1. /\ Top.at = "condition" /\ code # "run" /\ GoesOn("catch") /\ exception' = exception
        /\ height' = IF code = "NEXTSTEP" THEN height - 1 ELSE height
    BY <1>7 DEF ConditionFails, In
  <2>2. code \in {"NEXTSTEP", "THROW"}
    BY <1>1, <2>1, StatementIs DEF Codes, Jump
  <2>3. Meets(height', Top.base) /\ height' \in Int
    <3>1. CASE code = "NEXTSTEP"
      BY <1>1, <1>2, <2>1, <3>1, StatementIs DEF Meets
    <3>2. CASE code = "THROW"
      BY <1>2, <2>1, <3>2 DEF Meets
    <3> QED
      BY <2>2, <3>1, <3>2
  <2> QED
    BY <1>2, <1>5, <2>1, <2>3
<1>8. CASE Unhandled
  <2>1. Returns("THROW") /\ height' = height /\ exception' = exception
    BY <1>8 DEF Unhandled
  <2>2. Ends(Top, "THROW", height')
    BY <1>1, <1>2, <2>1 DEF Ends, Codes
  <2> QED
    BY <1>1, <1>2, <2>1, <2>2, StatementIs, StatementReturns
<1>9. ASSUME NEW at \in {"else", "finally"}, code = "NEXTSTEP", Top.at # "condition",
             Calls(at, Block("catch", height)), UNCHANGED <<height, exception>>
      PROVE  IInv'
  <2>1. CallsAs(r(at), Block("catch", height')) /\ Meets(height', Top.base)
    BY <1>1, <1>2, <1>9, StatementIs DEF Calls
  <2> HIDE DEF r
  <2> QED
    BY <1>1, <1>2, <1>3, <1>9, <2>1, StatementCallsBlock
<1>10. CASE TryElse
  BY <1>9, <1>10 DEF TryElse, In
<1>11. CASE TryFinally
  BY <1>9, <1>11 DEF TryFinally, In
<1>12. CASE TryEnds
  <2>1. /\ Top.at # "condition" /\ code \in Codes /\ Returns(code)
        /\ UNCHANGED <<height, exception>>
    BY <1>1, <1>12, StatementIs DEF TryEnds, In
  <2> QED
    BY <1>1, <1>2, <2>1, PassedOn
<1> QED
  BY <1>4, <1>6, <1>7, <1>8, <1>10, <1>11, <1>12

LEMMA ConditionKeeps ==
  ASSUME IInv, Condition
  PROVE  IInv'
<1>1. /\ ctrl # <<>> /\ Top.op = "try" /\ code = "run" /\ height' = height
      /\ exception' = exception
  BY DEF Condition, In
<1>2. /\ Top \in Records /\ Top.base \in Nat /\ height \in Nat /\ exception \in Exceptions
      /\ Meets(height, Top.base)
  BY <1>1, StatementIs
<1> DEFINE r == [Top EXCEPT !.at = "condition"]
           u == Plain("condition")
<1>3. CallsAs(r, u) /\ r = [Top EXCEPT !.at = "condition"] /\ "condition" \in Places
  BY DEF Condition, Calls, Places
<1>4. /\ u \in Records /\ u.op = "expr" /\ u.base = height
      /\ Clean => u.kind = "simple"
  BY <1>2, PlainIs DEF Clean, Uses
<1> HIDE DEF r, u
<1>5. /\ r \in Records /\ r.op = "try" /\ r.base = Top.base /\ r.at = "condition"
      /\ \A l \in Records : Fits(l, Top) => Fits(l, r)
  BY <1>1, <1>2, <1>3, WithAt
<1>6. WantsValue(r) /\ Meets(u.base + 1, r.base + Operands(r)) /\ u.base >= r.base
  BY <1>2, <1>4, <1>5, OperandsAre DEF WantsValue, Meets
<1>7. Fits(r, u) /\ Finds(u, "run", height')
  BY <1>1, <1>4, <1>5, <1>6, ExprFits
<1> QED
  BY <1>1, <1>2, <1>3, <1>4, <1>5, <1>7, CallKeeps

(* A handler runs like a method, over the try.                             *)
LEMMA HandleKeeps ==
  ASSUME IInv, Handle
  PROVE  IInv'
<1> DEFINE r == [Top EXCEPT !.at = "handler"]
           s == Append(Below, r)
           m == Record("method", "body", "catch", height')
           b == Block("catch", height')
<1>1. /\ ctrl # <<>> /\ Top.op = "try" /\ exception' = Nil /\ code' = "run"
      /\ \/ Top.at = "catch" /\ code = "run" /\ height' = height
         \/ Top.at = "condition" /\ code = "NEXTSTEP" /\ height' = height - 1
  BY DEF Handle, In, ExceptionInHandler
<1>2. /\ Top \in Records /\ Top.base \in Nat /\ height \in Nat /\ Nil \in Exceptions
      /\ Below \in Seq(Records)
      /\ Operands(Top) = IF Top.at = "condition" THEN 1 ELSE 0
  BY <1>1, StatementIs, OperandsAre, Tops DEF Exceptions, Good
<1>3. height' \in Nat /\ Meets(height', Top.base)
  BY <1>1, <1>2, StatementIs DEF Meets
<1>4. r = [Top EXCEPT !.at = "handler"] /\ "handler" \in Places
  BY DEF Places
<1>5. /\ {"method", "block"} \subseteq Ops /\ {"body", "next"} \subseteq Places /\ "catch" \in Tags
      /\ "method" # "array" /\ "block" # "array"
  BY DEF Ops, Places, Tags
<1>6. m \in Records /\ m.op = "method" /\ m.kind = "catch" /\ m.base = height'
  BY <1>3, <1>5, RecordIs
<1>7. b \in Records /\ b.op = "block" /\ b.kind = "catch" /\ b.base = height'
  BY <1>3, <1>5, RecordIs DEF Block
<1>8. ctrl' = Below \o <<r, m, b>>
  BY DEF Handle
<1> HIDE DEF r, m, b
<1>9. /\ r \in Records /\ r.op = "try" /\ r.base = Top.base /\ r.at = "handler"
      /\ \A l \in Records : Fits(l, Top) => Fits(l, r)
  BY <1>1, <1>2, <1>4, WithAt
<1>10. Good(s) /\ s # <<>> /\ s[Len(s)] = r
  BY <1>1, <1>9, ReplaceGood
<1>11. ctrl' = s \o <<m, b>>
  BY <1>2, <1>6, <1>7, <1>8, <1>9
<1>12. Fits(r, m)
  <2>1. ~IsValue(m) /\ Meets(m.base, r.base) /\ m.base >= r.base
    BY <1>2, <1>3, <1>6, <1>9 DEF IsValue, Meets
  <2> QED
    BY <1>6, <1>9, <2>1 DEF Fits
<1>13. Fits(m, b)
  <2>1. ~IsValue(b) /\ Meets(b.base, m.base) /\ b.base >= m.base
    BY <1>3, <1>6, <1>7 DEF IsValue, Meets
  <2> QED
    BY <1>6, <1>7, <2>1 DEF Fits
<1>14. Finds(b, "run", height')
  BY <1>7, BlockFinds
<1> HIDE DEF s
<1> QED
  BY <1>1, <1>2, <1>3, <1>6, <1>7, <1>10, <1>11, <1>12, <1>13, <1>14, EnterKeeps

(* Below mk_main there is nothing.                                         *)
LEMMA MainKeeps ==
  ASSUME IInv, MainEnds
  PROVE  IInv'
<1>1. /\ ctrl # <<>> /\ Top.op = "main" /\ code # "run" /\ Returns(code) /\ exception' = exception
      /\ height' = IF code = "NEXTSTEP" THEN height - 1 ELSE height
  BY DEF MainEnds, In
<1>2. Top \in Records /\ Finds(Top, code, height) /\ Operands(Top) = 1 /\ Top.base \in Nat
  BY <1>1, Tops, OperandsAre DEF Records
<1>3. height \in Nat /\ exception \in Exceptions /\ code \in Codes
  BY <1>1 DEF IInv
<1>4. height' \in Nat
  BY <1>1, <1>2, <1>3 DEF Finds, Meets
<1>5. \A l \in Records : ~Fits(l, Top)
  BY <1>1 DEF Fits
<1> QED
  BY <1>1, <1>3, <1>4, <1>5, ReturnKeeps

-----------------------------------------------------------------------------
(* The invariant, from the first step on.                                  *)

LEMMA InitHolds == Init => IInv
<1> SUFFICES ASSUME Init PROVE IInv
  OBVIOUS
<1> DEFINE a == Record("main", "run", "none", 0)
           m == Record("method", "body", "root", 0)
           b == Block("root", 0)
           s == Append(<<>>, a)
<1>1. /\ {"main", "method", "block"} \subseteq Ops /\ {"run", "body", "next"} \subseteq Places
      /\ {"none", "root"} \subseteq Tags
  BY DEF Ops, Places, Tags
<1>2. /\ a \in Records /\ a.op = "main" /\ a.base = 0
      /\ m \in Records /\ m.op = "method" /\ m.kind = "root" /\ m.base = 0
      /\ b \in Records /\ b.op = "block" /\ b.kind = "root" /\ b.base = 0
  BY <1>1, RecordIs DEF Block
<1>3. ctrl = <<a, m, b>> /\ code = "run" /\ height = 0 /\ exception = Nil
  BY DEF Init
<1> HIDE DEF a, m, b
<1>4. Good(<<>>)
  BY DEF Good
<1>5. Good(s) /\ s # <<>> /\ s[Len(s)] = a
  BY <1>2, <1>4, AppendGood
<1>6. ctrl = Append(Append(s, m), b)
  BY <1>2, <1>3
<1>7. Fits(a, m)
  <2>1. IsValue(m) /\ WantsValue(a) /\ Operands(a) = 1
    BY <1>2, OperandsAre DEF IsValue, WantsValue
  <2>2. Meets(m.base + 1, a.base + Operands(a)) /\ m.base >= a.base
    BY <1>2, <2>1 DEF Meets
  <2> QED
    BY <1>2, <2>1, <2>2 DEF Fits
<1>8. Fits(m, b)
  <2>1. ~IsValue(b) /\ Meets(b.base, m.base) /\ b.base >= m.base
    BY <1>2 DEF IsValue, Meets
  <2> QED
    BY <1>2, <2>1 DEF Fits
<1> HIDE DEF s
<1> DEFINE q == Append(s, m)
<1>9. Good(q) /\ q # <<>> /\ q[Len(q)] = m
  BY <1>2, <1>5, <1>7, AppendGood
<1>10. ctrl = Append(q, b)
  BY <1>6
<1> HIDE DEF q
<1>11. Good(ctrl) /\ ctrl # <<>> /\ Top = b
  BY <1>2, <1>8, <1>9, <1>10, AppendGood DEF Top
<1>12. Finds(Top, code, height)
  BY <1>2, <1>3, <1>11, BlockFinds
<1> QED
  BY <1>3, <1>11, <1>12 DEF IInv, Exceptions

LEMMA StepKeeps == IInv /\ [Next]_vars => IInv'
<1> SUFFICES ASSUME IInv, [Next]_vars PROVE IInv'
  OBVIOUS
<1>1. CASE Evaluate
  BY <1>1, LeafKeeps, OperationKeeps, BeginCallKeeps, CallArgumentsKeep, CallStepKeeps,
     MethodReturnsKeeps, CallbackStepKeeps, NewStepKeeps, ArrayStepKeeps DEF Evaluate
<1>2. CASE Execute
  BY <1>2, BlockKeeps, StmtKeeps, IfKeeps, WhileKeeps, TryKeeps, ConditionKeeps, HandleKeeps
     DEF Execute
<1>3. CASE MainEnds
  BY <1>3, MainKeeps
<1>4. CASE UNCHANGED vars
  BY <1>4 DEF vars, IInv, Good, Top, Finds
<1> QED
  BY <1>1, <1>2, <1>3, <1>4 DEF Next, Ended

LEMMA Inductive == Spec => []IInv
<1> QED
  BY InitHolds, StepKeeps, PTL DEF Spec

(* Every call on the C stack is one the evaluator makes, from a place in   *)
(* it where it is made, and the stack of operands and the exception object *)
(* hold what they can hold (vm.c).                                         *)
THEOREM TypeCorrect == Spec => []TypeOK
<1>1. IInv => TypeOK
  BY DEF IInv, Good, Records, TypeOK, Exceptions
<1> QED
  BY <1>1, Inductive, PTL

(* The evaluator never takes an operand that a caller has put on the local *)
(* stack (vm->localStack), however deep the calls and whatever the script  *)
(* does: also not after the array literals and conditions that leave some. *)
THEOREM NoUnderflowAlways == Spec => []NoUnderflow
<1>1. IInv => NoUnderflow
  <2> SUFFICES ASSUME IInv, NEW i \in 1 .. Len(ctrl) PROVE height >= ctrl[i].base
    BY DEF NoUnderflow
  <2>1. ctrl \in Seq(Records) /\ ctrl # <<>> /\ Len(ctrl) \in 1 .. Len(ctrl) /\ i <= Len(ctrl)
    BY DEF IInv, Good
  <2>2. ctrl[i].base <= Top.base /\ height >= Top.base
    BY <2>1 DEF IInv, Good, Finds, Top
  <2>3. ctrl[i].base \in Nat /\ Top.base \in Nat /\ height \in Nat
    BY <2>1 DEF Records, Top, IInv
  <2> QED
    BY <2>2, <2>3
<1> QED
  BY <1>1, Inductive, PTL

(* break, continue and return never reach an expression that waits for an  *)
(* operand: a loop or the body of a method ends them (vm.c).               *)
THEOREM JumpsAlways == Spec => []JumpsStayInside
<1>1. IInv => JumpsStayInside
  BY DEF IInv, Finds, Jump, JumpsStayInside
<1> QED
  BY <1>1, Inductive, PTL

(* A script without array literals and without a condition behind "catch"  *)
(* that may raise leaves exactly what each caller takes off the local      *)
(* stack, at every depth and for any number of arguments.                  *)
THEOREM BalancedAlways == Clean => (Spec => []Balanced)
<1>1. SUFFICES ASSUME Clean PROVE Spec => []Balanced
  OBVIOUS
<1>2. IInv => Balanced
  BY <1>1 DEF IInv, Finds, Meets, Balanced
<1> QED
  BY <1>2, Inductive, PTL

-----------------------------------------------------------------------------
(* Exceptions.  While there is an exception object, either the last call   *)
(* threw, or some try is looking for its catch: no step but the try's own  *)
(* touches that one, and a step after a throw throws on.                   *)

Seeks(r) == r.op = "try" /\ r.at \in {"catch", "condition"}

(* The calls below the innermost one are still there.                      *)
Extends == \A i \in 1 .. Len(ctrl) - 1 : i \in 1 .. Len(ctrl') /\ ctrl'[i] = ctrl[i]

(* The step throws on, or drops the exception for its handler, or follows  *)
(* no throw and leaves the tries that seek alone.                          *)
Minds ==
  /\ ctrl # <<>>
  /\ \/ code' = "THROW" \/ exception' = Nil
     \/ Extends /\ exception' = exception /\ code # "THROW" /\ ~Seeks(Top)

LEMMA BelowIs ==
  ASSUME IInv, ctrl # <<>>
  PROVE  /\ Below \in Seq(Records) /\ Len(ctrl) \in Nat /\ Len(Below) = Len(ctrl) - 1
         /\ \A i \in 1 .. Len(ctrl) - 1 : i \in 1 .. Len(Below) /\ Below[i] = ctrl[i]
<1>1. ctrl \in Seq(Records) /\ Len(ctrl) \in Nat \ {0}
  BY DEF IInv, Good
<1>2. 1 \in Int /\ Len(ctrl) - 1 \in Int /\ \A i \in 1 .. Len(ctrl) - 1 : ctrl[i] \in Records
  BY <1>1
<1>3. /\ Below \in Seq(Records)
      /\ Len(Below) = IF 1 <= Len(ctrl) - 1 THEN Len(ctrl) - 1 - 1 + 1 ELSE 0
      /\ \A i \in 1 .. Len(ctrl) - 1 - 1 + 1 : Below[i] = ctrl[1 + i - 1]
  BY <1>2, SubSeqProperties DEF Below
<1>4. Len(Below) = Len(ctrl) - 1
  <2>1. Len(ctrl) \in Int /\ Len(ctrl) >= 1
    BY <1>1
  <2>2. CASE Len(ctrl) = 1
    BY <1>3, <2>2
  <2>3. CASE Len(ctrl) > 1
    <3>1. 1 <= Len(ctrl) - 1 /\ Len(ctrl) - 1 - 1 + 1 = Len(ctrl) - 1
      BY <2>1, <2>3
    <3> QED
      BY <1>3, <3>1
  <2>4. Len(ctrl) = 1 \/ Len(ctrl) > 1
    BY <2>1
  <2> QED
    BY <2>2, <2>3, <2>4
<1>5. \A i \in 1 .. Len(ctrl) - 1 : i \in 1 .. Len(ctrl) - 1 - 1 + 1 /\ 1 + i - 1 = i
  BY <1>1
<1> QED
  BY <1>1, <1>3, <1>4, <1>5

LEMMA JoinedExtends ==
  ASSUME IInv, ctrl # <<>>, NEW R, Records \subseteq R, NEW t \in Seq(R), ctrl' = Below \o t
  PROVE  /\ Extends
         /\ t # <<>> => Len(Below) + 1 \in 1 .. Len(ctrl') /\ ctrl'[Len(Below) + 1] = t[1]
<1>1. Below \in Seq(R) /\ Len(Below) \in Nat /\ Len(t) \in Nat
  BY BelowIs
<1>2. /\ Len(ctrl') = Len(Below) + Len(t)
      /\ \A i \in 1 .. Len(Below) + Len(t) :
           ctrl'[i] = IF i <= Len(Below) THEN Below[i] ELSE t[i - Len(Below)]
  BY <1>1, ConcatProperties
<1>3. ASSUME NEW i \in 1 .. Len(ctrl) - 1 PROVE i \in 1 .. Len(ctrl') /\ ctrl'[i] = ctrl[i]
  <2>1. i \in 1 .. Len(Below) /\ Below[i] = ctrl[i]
    BY BelowIs
  <2>2. i \in 1 .. Len(Below) + Len(t) /\ i <= Len(Below)
    BY <1>1, <2>1
  <2> QED
    BY <1>2, <2>1, <2>2
<1>4. ASSUME t # <<>>
      PROVE  Len(Below) + 1 \in 1 .. Len(ctrl') /\ ctrl'[Len(Below) + 1] = t[1]
  <2>1. Len(t) >= 1
    BY <1>1, <1>4
  <2>2. /\ Len(Below) + 1 \in 1 .. Len(Below) + Len(t) /\ ~(Len(Below) + 1 <= Len(Below))
        /\ Len(Below) + 1 - Len(Below) = 1
    BY <1>1, <2>1
  <2> QED
    BY <1>2, <2>2
<1> QED
  BY <1>3, <1>4 DEF Extends

LEMMA ReturnExtends ==
  ASSUME IInv, ctrl # <<>>, ctrl' = Below
  PROVE  Extends
BY BelowIs DEF Extends

LEMMA AppendExtends ==
  ASSUME IInv, ctrl # <<>>, NEW r, ctrl' = Append(Below, r)
  PROVE  /\ Extends
         /\ Len(Below) + 1 \in 1 .. Len(ctrl') /\ ctrl'[Len(Below) + 1] = r
<1> DEFINE R == Records \cup {r}
           t == <<r>>
<1>1. t \in Seq(R) /\ Records \subseteq R /\ t # <<>> /\ t[1] = r /\ Below \in Seq(R)
  BY BelowIs
<1>2. ctrl' = Below \o t
  BY <1>1
<1> HIDE DEF R, t
<1> QED
  BY <1>1, <1>2, JoinedExtends

LEMMA CallExtends ==
  ASSUME IInv, ctrl # <<>>, NEW r, NEW u, CallsAs(r, u)
  PROVE  /\ Extends
         /\ Len(Below) + 1 \in 1 .. Len(ctrl') /\ ctrl'[Len(Below) + 1] = r
<1> DEFINE R == Records \cup {r, u}
           t == <<r, u>>
<1>1. t \in Seq(R) /\ Records \subseteq R /\ t # <<>> /\ t[1] = r
  OBVIOUS
<1>2. ctrl' = Below \o t
  BY DEF CallsAs
<1> HIDE DEF R, t
<1> QED
  BY <1>1, <1>2, JoinedExtends

LEMMA EnterExtends ==
  ASSUME IInv, ctrl # <<>>, NEW kind, NEW h, NEW p, EnterMethod(Below, kind, h, p)
  PROVE  Extends
<1>1. \E m, b : CallsAs(m, b)
  BY DEF EnterMethod, CallsAs
<1> QED
  BY <1>1, CallExtends

LEMMA CallbackExtends ==
  ASSUME IInv, ctrl # <<>>, NEW self, NEW h, Callback(self, h)
  PROVE  Extends /\ exception' = exception
<1>1. PICK m, b : ctrl' = Append(Below, self) \o <<m, b>>
  BY DEF Callback, EnterMethod
<1> DEFINE R == Records \cup {self, m, b}
           t == <<self, m, b>>
<1>2. t \in Seq(R) /\ Records \subseteq R /\ Below \in Seq(R)
  BY BelowIs
<1>3. ctrl' = Below \o t
  BY <1>1, <1>2
<1> HIDE DEF R, t
<1> QED
  BY <1>2, <1>3, JoinedExtends DEF Callback, EnterMethod

LEMMA NativeMinds ==
  ASSUME IInv, ctrl # <<>>, NEW k, NativeMethod(k), code # "THROW", ~Seeks(Top)
  PROVE  Minds
BY ReturnExtends DEF NativeMethod, Returns, Minds

LEMMA EvaluateMinds ==
  ASSUME IInv, ~Uses("array"), Evaluate
  PROVE  Minds
<1>1. ctrl # <<>> /\ Top.op \in {"expr", "operation", "call", "callback", "method", "new"} /\ ~Seeks(Top)
  <2>1. /\ ctrl # <<>>
        /\ Top.op \in {"expr", "operation", "call", "callback", "method", "new", "array"}
    BY DEF Evaluate, TooDeep, Leaf, LeafFails, BeginOperation, OperationLeft, OperationRight,
       OperationFails, BeginCall, BeginCallOn, CallReceiver, CallArgument, CallArgumentFails,
       Call, MethodReturns, EachNext, CallbackEnds, BeginNew, NewMember, NewFails, NewInitialize,
       BeginArray, ArrayElement, ArrayEnds, Any, Simple, In
  <2>2. Top.op # "array"
    BY <2>1, Tops DEF Records
  <2> QED
    BY <2>1, <2>2 DEF Seeks
<1>2. ASSUME NEW c, Returns(c), c = "THROW" \/ (exception' = exception /\ code # "THROW")
      PROVE  Minds
  BY <1>1, <1>2, ReturnExtends DEF Returns, Minds
<1>3. ASSUME NEW r, NEW u, CallsAs(r, u), exception' = exception, code # "THROW"
      PROVE  Minds
  BY <1>1, <1>3, CallExtends DEF Minds
<1>4. ASSUME NEW r, ctrl' = Append(Below, r), exception' = exception, code # "THROW"
      PROVE  Minds
  BY <1>1, <1>4, AppendExtends DEF Minds
<1>5. CASE TooDeep \/ Leaf \/ LeafFails
  BY <1>2, <1>5 DEF TooDeep, Leaf, LeafFails, Any, Simple
<1>6. CASE BeginOperation \/ BeginCallOn \/ BeginNew
  BY <1>3, <1>6 DEF BeginOperation, BeginCallOn, BeginNew, Any, Simple
<1>7. CASE OperationLeft \/ CallArgument \/ NewMember
  BY <1>3, <1>7 DEF OperationLeft, CallArgument, NewMember, Calls
<1>8. CASE OperationFails \/ CallArgumentFails \/ NewFails
  BY <1>2, <1>8 DEF OperationFails, CallArgumentFails, NewFails
<1>9. ASSUME NEW h, BeginCallback(h), code # "THROW" PROVE Minds
  BY <1>1, <1>9, CallbackExtends DEF BeginCallback, Minds
<1>10. CASE OperationRight
  BY <1>1, <1>9, <1>10, NativeMinds, EnterExtends DEF OperationRight, EnterMethod, Minds
<1>11. CASE Call
  BY <1>1, <1>9, <1>11, NativeMinds, EnterExtends DEF Call, EnterMethod, Minds
<1>12. CASE BeginCall
  BY <1>4, <1>12 DEF BeginCall, Any, Simple
<1>13. CASE CallReceiver
  BY <1>2, <1>4, <1>13 DEF CallReceiver, GoesOn
<1>14. CASE MethodReturns
  BY <1>2, <1>14 DEF MethodReturns
<1>15. CASE EachNext
  BY <1>1, <1>15, CallbackExtends DEF EachNext, Minds
<1>16. CASE CallbackEnds
  BY <1>2, <1>16 DEF CallbackEnds
<1>17. CASE NewInitialize
  BY <1>2, <1>4, <1>17 DEF NewInitialize
<1>18. CASE BeginArray \/ ArrayElement \/ ArrayEnds
  BY <1>1, <1>18 DEF BeginArray, ArrayElement, ArrayEnds, In
<1> QED
  BY <1>5, <1>6, <1>7, <1>8, <1>10, <1>11, <1>12, <1>13, <1>14, <1>15, <1>16, <1>17, <1>18
     DEF Evaluate

LEMMA ExecuteMinds ==
  ASSUME IInv, Execute \/ MainEnds, ~(TryThrew \/ Condition \/ ConditionFails)
  PROVE  Minds
<1>1. ctrl # <<>>
  BY DEF Execute, BlockStatement, BlockEnds, BlockLeft, Stmt, StmtEnds, If, IfCondition, IfEnds,
     While, WhileCondition, WhileBlock, Try, TryThrew, Condition, ConditionFails, Handle,
     Unhandled, TryElse, TryFinally, TryEnds, MainEnds, In
<1>2. ASSUME ~Seeks(Top), NEW c, Returns(c), c = "THROW" \/ (exception' = exception /\ code # "THROW")
      PROVE  Minds
  BY <1>1, <1>2, ReturnExtends DEF Returns, Minds
<1>3. ASSUME ~Seeks(Top), NEW r, NEW u, CallsAs(r, u), exception' = exception, code # "THROW"
      PROVE  Minds
  BY <1>1, <1>3, CallExtends DEF Minds
<1>4. CASE BlockStatement \/ Stmt \/ If \/ While
  <2>1. ~Seeks(Top) /\ code # "THROW" /\ exception' = exception
    BY <1>4 DEF BlockStatement, Stmt, If, While, In, Seeks
  <2> QED
    BY <1>2, <1>3, <1>4, <2>1 DEF BlockStatement, Stmt, If, While, Calls
<1>5. CASE BlockEnds \/ BlockLeft \/ IfEnds \/ MainEnds
  <2>1. ~Seeks(Top)
    BY <1>5 DEF BlockEnds, BlockLeft, IfEnds, MainEnds, In, Seeks
  <2> QED
    BY <1>2, <1>5, <2>1 DEF BlockEnds, BlockLeft, IfEnds, MainEnds
<1>6. CASE StmtEnds
  <2>1. ~Seeks(Top)
    BY <1>6 DEF StmtEnds, Seeks
  <2>2. ASSUME GoesOn("start"), exception' = exception, code = "NEXTSTEP" PROVE Minds
    BY <1>1, <2>1, <2>2, AppendExtends DEF GoesOn, Minds
  <2> QED
    BY <1>2, <1>6, <2>1, <2>2 DEF StmtEnds
<1>7. CASE IfCondition
  <2>1. ~Seeks(Top) /\ exception' = exception
    BY <1>7 DEF IfCondition, In, Seeks
  <2> QED
    BY <1>2, <1>3, <1>7, <2>1 DEF IfCondition, Calls
<1>8. CASE WhileCondition
  <2>1. ~Seeks(Top) /\ exception' = exception
    BY <1>8 DEF WhileCondition, In, Seeks
  <2> QED
    BY <1>2, <1>3, <1>8, <2>1 DEF WhileCondition, Calls
<1>9. CASE WhileBlock
  <2>1. ~Seeks(Top) /\ exception' = exception
    BY <1>9 DEF WhileBlock, In, Seeks
  <2> QED
    BY <1>2, <1>3, <1>9, <2>1 DEF WhileBlock, Calls
<1>10. CASE Try \/ TryElse \/ TryFinally
  <2>1. ~Seeks(Top) /\ exception' = exception /\ code # "THROW"
    BY <1>10 DEF Try, TryElse, TryFinally, In, Seeks
  <2> QED
    BY <1>3, <1>10, <2>1 DEF Try, TryElse, TryFinally, Calls
<1>11. CASE Handle \/ Unhandled
  BY <1>1, <1>11 DEF Handle, Unhandled, ExceptionInHandler, Returns, Minds
<1>12. CASE TryEnds
  <2>1. ~Seeks(Top) /\ exception' = exception
    BY <1>12 DEF TryEnds, In, Seeks
  <2> QED
    BY <1>2, <1>12, <2>1 DEF TryEnds
<1> QED
  BY <1>4, <1>5, <1>6, <1>7, <1>8, <1>9, <1>10, <1>11, <1>12 DEF Execute

LEMMA MindsKeeps ==
  ASSUME IInv, NoExceptionLost, Minds
  PROVE  NoExceptionLost'
<1>1. SUFFICES ASSUME exception' # Nil, code' # "THROW" PROVE NoExceptionLost'
  BY DEF NoExceptionLost
<1>2. Extends /\ exception' = exception /\ code # "THROW" /\ ~Seeks(Top) /\ ctrl # <<>>
  BY <1>1 DEF Minds
<1>3. PICK i \in 1 .. Len(ctrl) : Seeks(ctrl[i])
  BY <1>1, <1>2 DEF NoExceptionLost, Seeks
<1>4. i # Len(ctrl) /\ Len(ctrl) \in Nat
  BY <1>2, <1>3, BelowIs DEF Top
<1>5. i \in 1 .. Len(ctrl) - 1
  BY <1>4
<1>6. i \in 1 .. Len(ctrl') /\ Seeks(ctrl'[i])
  BY <1>2, <1>3, <1>5 DEF Extends
<1> QED
  BY <1>6 DEF NoExceptionLost, Seeks

LEMMA SeekingKeeps ==
  ASSUME IInv, TryThrew \/ Condition \/ ConditionFails
  PROVE  NoExceptionLost'
<1>1. ctrl # <<>> /\ Top.op = "try" /\ Top \in Records
  BY Tops DEF TryThrew, Condition, ConditionFails, In
<1>2. ASSUME NEW at \in {"catch", "condition"}, NEW r, r = [Top EXCEPT !.at = at]
      PROVE  Seeks(r)
  <2>1. at \in Places
    BY DEF Places
  <2> QED
    BY <1>1, <1>2, <2>1, WithAt DEF Seeks
<1>3. \E i \in 1 .. Len(ctrl') : Seeks(ctrl'[i])
  <2>1. CASE Condition
    <3> DEFINE r == [Top EXCEPT !.at = "condition"]
    <3>1. Seeks(r) /\ \E u : CallsAs(r, u)
      BY <1>2, <2>1 DEF Condition, Calls
    <3> HIDE DEF r
    <3> QED
      BY <1>1, <3>1, CallExtends
  <2>2. CASE GoesOn("catch")
    <3> DEFINE r == [Top EXCEPT !.at = "catch"]
    <3>1. Seeks(r) /\ ctrl' = Append(Below, r)
      BY <1>2, <2>2 DEF GoesOn
    <3> HIDE DEF r
    <3> QED
      BY <1>1, <3>1, AppendExtends
  <2> QED
    BY <2>1, <2>2 DEF TryThrew, ConditionFails
<1> QED
  BY <1>3 DEF NoExceptionLost, Seeks

(* In a script without array literals no exception is lost: while there is *)
(* an exception object (vm->exceptionObject) it is on its way up, or a try *)
(* is looking for the catch that takes it.                                 *)
THEOREM NoExceptionLostAlways == ~Uses("array") => (Spec => []NoExceptionLost)
<1>1. SUFFICES ASSUME ~Uses("array") PROVE Spec => []NoExceptionLost
  OBVIOUS
<1>2. Init => NoExceptionLost
  BY DEF Init, NoExceptionLost
<1>3. IInv /\ NoExceptionLost /\ [Next]_vars => NoExceptionLost'
  <2> SUFFICES ASSUME IInv, NoExceptionLost, [Next]_vars PROVE NoExceptionLost'
    OBVIOUS
  <2>1. CASE Evaluate
    BY <1>1, <2>1, EvaluateMinds, MindsKeeps
  <2>2. CASE Execute \/ MainEnds
    BY <2>2, ExecuteMinds, MindsKeeps, SeekingKeeps
  <2>3. CASE UNCHANGED vars
    BY <2>3 DEF vars, NoExceptionLost
  <2> QED
    BY <2>1, <2>2, <2>3 DEF Next, Ended
<1> QED
  BY <1>2, <1>3, Inductive, PTL DEF Spec
=============================================================================
