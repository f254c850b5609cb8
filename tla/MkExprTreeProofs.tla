-------------------------- MODULE MkExprTreeProofs --------------------------
(***************************************************************************)
(* Proof that the tree of an accepted statement has all nodes and all      *)
(* tokens in their order (TreeInOrder of MkExpr), for every set of         *)
(* operators and statements of every length.                               *)
(*                                                                         *)
(* While it is compiled a statement is a forest: every node lies from      *)
(* token lo[n] to token hi[n], what is below it lies inside of that, and   *)
(* what a call has in hand lies side by side.  An operator that waits may  *)
(* still grow to the right and has no hi.  In the end one tree is left.    *)
(***************************************************************************)
EXTENDS MkExprProofs, WellFoundedInduction

(* The operators that wait for their right side, and the condition that is *)
(* being compiled.                                                         *)
Waiting == {m \in 1 .. Len(nodes) :
              \/ Busy /\ m = statement
              \/ \E d \in 1 .. Len(calls) : \E i \in 1 .. Len(calls[d].ops) : calls[d].ops[i] = m}

(* Node n and what is linked to it, when w wait and r tokens were read.    *)
Spans(n, nd, lo, hi, w, r) ==
  LET b == nd[n].before
      a == nd[n].after
  IN  /\ 1 <= lo[n] /\ lo[n] <= nd[n].at /\ nd[n].at < r
      /\ \A i \in 1 .. Len(b) : b[i] \notin w /\ lo[n] <= lo[b[i]] /\ hi[b[i]] < nd[n].at
      /\ \A i \in 1 .. Len(a) : nd[n].at < lo[a[i]]
      /\ n \notin w =>
           /\ nd[n].at <= hi[n] /\ hi[n] < r
           /\ \A i \in 1 .. Len(a) : a[i] \notin w /\ hi[a[i]] <= hi[n]
           /\ \A i, j \in 1 .. Len(a) : i < j => hi[a[i]] < lo[a[j]]

(* An operand lies behind the operators of its call and before limit.      *)
Lies(x, c, nd, lo, hi, w, limit) ==
  /\ x \notin w /\ c.from <= lo[x] /\ hi[x] < limit
  /\ \A i \in 1 .. Len(c.ops) : nd[c.ops[i]].at < lo[x]

Opened == {"inner", "block", "list"}

InHand(c, nd, lo, hi, w, limit) ==
  /\ c.ops # <<>> => c.from <= lo[c.ops[1]]
  /\ \A i \in 1 .. Len(c.ops) : nd[c.ops[i]].at < limit
  /\ c.dot < limit
  /\ \A i \in 1 .. Len(c.parts) :
       /\ Lies(c.parts[i], c, nd, lo, hi, w, limit)
       /\ IF i = 1 THEN hi[c.parts[i]] < c.dot ELSE c.dot < lo[c.parts[i]]
       /\ c.current # 0 => hi[c.parts[i]] < lo[c.current]
       /\ c.step \in Opened => hi[c.parts[i]] < c.open
  /\ \A i, j \in 1 .. Len(c.parts) : i < j => hi[c.parts[i]] < lo[c.parts[j]]
  /\ c.current # 0 => Lies(c.current, c, nd, lo, hi, w, limit) /\ c.dot < lo[c.current]
  /\ c.step \in Outer => c.open < limit /\ \A i \in 1 .. Len(c.ops) : nd[c.ops[i]].at < c.open
  /\ c.step \in Opened => c.dot < c.open
  /\ c.step = "index" => hi[c.current] < c.open
  /\ c.step = "list" =>
       /\ \A i \in 1 .. Len(c.list) : c.list[i] \notin w /\ c.open < lo[c.list[i]] /\ hi[c.list[i]] < limit
       /\ \A i, j \in 1 .. Len(c.list) : i < j => hi[c.list[i]] < lo[c.list[j]]

(* Where what is to come will begin, seen from call d.                     *)
Limit(d, lo) ==
  IF d < Len(calls) THEN calls[d + 1].from ELSE IF result = 0 THEN Len(read) ELSE lo[result]

Laid(lo, hi) ==
  /\ lo \in [1 .. Len(nodes) -> Nat] /\ hi \in [1 .. Len(nodes) -> Nat]
  /\ \A n \in 1 .. Len(nodes) : Spans(n, nodes, lo, hi, Waiting, Len(read))
  /\ \A d \in 1 .. Len(calls) : InHand(calls[d], nodes, lo, hi, Waiting, Limit(d, lo))
  /\ result # 0 => result \notin Waiting
  /\ statement # 0 => nodes[statement].at < Limit(0, lo)

(* Nothing is dropped: each node is linked to another or in somebody's     *)
(* hands.                                                                  *)
HangsOn(n, nd) ==
  \E m \in 1 .. Len(nd) : \/ \E i \in 1 .. Len(nd[m].before) : nd[m].before[i] = n
                          \/ \E i \in 1 .. Len(nd[m].after) : nd[m].after[i] = n

RootOf(c, n) ==
  \/ c.ops # <<>> /\ c.ops[1] = n
  \/ c.current = n
  \/ \E i \in 1 .. Len(c.parts) : c.parts[i] = n
  \/ c.step = "list" /\ \E i \in 1 .. Len(c.list) : c.list[i] = n

Attached ==
  \A n \in 1 .. Len(nodes) : \/ n = result \/ n = statement \/ HangsOn(n, nodes)
                             \/ \E d \in 1 .. Len(calls) : RootOf(calls[d], n)

(* How many nodes are linked to one.                                       *)
Sided(n, nd, w) ==
  /\ nd[n].kind \in {"operation", "index", "if"} => Len(nd[n].before) = 1
  /\ nd[n].kind = "index" => Len(nd[n].after) = 1
  /\ nd[n].kind = "if" => Len(nd[n].after) = 1 \/ nd[n].after = <<>>
  /\ nd[n].kind = "operation" => Len(nd[n].after) = 1 \/ n \in w

OwnNode == {"name", "number", "call"}

(* A token that makes a node has made it, but for the name of a call whose *)
(* arguments are being compiled.                                           *)
Made ==
  /\ \A p \in 1 .. Len(read) - 1 : read[p] \in OwnNode =>
       \/ \E n \in 1 .. Len(nodes) : nodes[n].at = p
       \/ \E d \in 1 .. Len(calls) : calls[d].step = "list" /\ calls[d].open = p
  /\ result # 0 \/ verdict = "accepted" => value \notin OwnNode

Forest ==
  /\ \E lo, hi : Laid(lo, hi)
  /\ Attached
  /\ \A n \in 1 .. Len(nodes) : Sided(n, nodes, Waiting)
  /\ Made

GInv == HInv /\ (~failed => Forest)

-----------------------------------------------------------------------------
(* Types of what the invariant looks at.                                   *)
LEMMA ListIs2 ==
  ASSUME NEW k \in Nat, NEW q \in Seq(1 .. k)
  PROVE  /\ Len(q) \in Nat /\ DOMAIN q = 1 .. Len(q) /\ \A i \in 1 .. Len(q) : q[i] \in 1 .. k
         /\ q # <<>> <=> Len(q) >= 1
OBVIOUS

LEMMA CallIs ==
  ASSUME NEW r \in Nat, NEW k \in Nat, NEW c \in CallSet(r, k)
  PROVE  /\ Len(c.ops) \in Nat /\ (\A i \in 1 .. Len(c.ops) : c.ops[i] \in 1 .. k)
         /\ c.ops # <<>> <=> Len(c.ops) >= 1
         /\ Len(c.parts) \in Nat /\ (\A i \in 1 .. Len(c.parts) : c.parts[i] \in 1 .. k)
         /\ c.parts # <<>> <=> Len(c.parts) >= 1
         /\ Len(c.list) \in Nat /\ (\A i \in 1 .. Len(c.list) : c.list[i] \in 1 .. k)
         /\ c.from \in 1 .. r /\ c.open \in 0 .. r /\ c.dot \in 0 .. r /\ c.current \in 0 .. k
<1>1. /\ c.ops \in Seq(1 .. k) /\ c.parts \in Seq(1 .. k) /\ c.list \in Seq(1 .. k)
      /\ c.from \in 1 .. r /\ c.open \in 0 .. r /\ c.dot \in 0 .. r /\ c.current \in 0 .. k
  BY DEF CallSet
<1> QED
  BY <1>1, ListIs2

LEMMA LinksOf ==
  ASSUME NEW r \in Nat, NEW k \in Nat, NEW e \in NodeSet(r, k)
  PROVE  /\ Len(e.before) \in Nat /\ (\A i \in 1 .. Len(e.before) : e.before[i] \in 1 .. k)
         /\ Len(e.after) \in Nat /\ (\A i \in 1 .. Len(e.after) : e.after[i] \in 1 .. k)
         /\ e.at \in 1 .. r
<1>1. e.before \in Seq(1 .. k) /\ e.after \in Seq(1 .. k) /\ e.at \in 1 .. r
  BY DEF NodeSet
<1> QED
  BY <1>1, ListIs2

LEMMA PartsOf ==
  ASSUME TInv
  PROVE  /\ TypeOK /\ Len(read) \in Nat \ {0} /\ Len(nodes) \in Nat /\ Len(calls) \in Nat
         /\ \A d \in 1 .. Len(calls) : calls[d] \in CallSet(Len(read), Len(nodes)) /\ Held(calls[d])
         /\ \A m \in 1 .. Len(nodes) : nodes[m] \in NodeSet(Len(read), Len(nodes))
         /\ result \in 0 .. Len(nodes) /\ statement \in 0 .. Len(nodes)
BY StateIs DEF TInv, HeldInv

(* From a moment to the next: what is known of nodes before and after.     *)
Follows(k, nd, lo, hi, w, nd2, lo2, hi2, w2) ==
  \A m \in 1 .. k : /\ nd2[m].at = nd[m].at /\ lo2[m] = lo[m]
                    /\ m \notin w => m \notin w2 /\ hi2[m] = hi[m]

LEMMA LiesStill ==
  ASSUME NEW r \in Nat, NEW k \in Nat, NEW c \in CallSet(r, k), NEW x \in 1 .. k,
         NEW nd, NEW lo \in [1 .. k -> Nat], NEW hi \in [1 .. k -> Nat], NEW w, NEW limit \in Int,
         NEW nd2, NEW lo2, NEW hi2, NEW w2, NEW limit2 \in Int,
         limit <= limit2, Lies(x, c, nd, lo, hi, w, limit),
         Follows(k, nd, lo, hi, w, nd2, lo2, hi2, w2)
  PROVE  Lies(x, c, nd2, lo2, hi2, w2, limit2)
<1>1. \A i \in 1 .. Len(c.ops) : c.ops[i] \in 1 .. k
  BY CallIs
<1>2. /\ hi[x] \in Nat /\ lo2[x] = lo[x] /\ hi2[x] = hi[x] /\ x \notin w2
      /\ c.from <= lo[x] /\ hi[x] < limit
  BY DEF Lies, Follows
<1>3. \A i \in 1 .. Len(c.ops) : nd2[c.ops[i]].at = nd[c.ops[i]].at /\ nd[c.ops[i]].at < lo[x]
  BY <1>1 DEF Lies, Follows
<1>4. hi2[x] < limit2
  BY <1>2
<1>5. x \notin w2 /\ c.from <= lo2[x] /\ \A i \in 1 .. Len(c.ops) : nd2[c.ops[i]].at < lo2[x]
  BY <1>2, <1>3
<1> QED
  BY <1>4, <1>5 DEF Lies

LEMMA InHandStill ==
  ASSUME NEW r \in Nat, NEW k \in Nat, NEW c \in CallSet(r, k), Held(c),
         NEW nd, NEW lo \in [1 .. k -> Nat], NEW hi \in [1 .. k -> Nat], NEW w, NEW limit \in Int,
         NEW nd2, NEW lo2, NEW hi2, NEW w2, NEW limit2 \in Int,
         \A m \in 1 .. k : nd[m].at \in Int,
         limit <= limit2, InHand(c, nd, lo, hi, w, limit),
         Follows(k, nd, lo, hi, w, nd2, lo2, hi2, w2)
  PROVE  InHand(c, nd2, lo2, hi2, w2, limit2)
<1>1. /\ Len(c.ops) \in Nat /\ (\A i \in 1 .. Len(c.ops) : c.ops[i] \in 1 .. k)
      /\ c.ops # <<>> <=> Len(c.ops) >= 1
      /\ Len(c.parts) \in Nat /\ (\A i \in 1 .. Len(c.parts) : c.parts[i] \in 1 .. k)
      /\ Len(c.list) \in Nat /\ (\A i \in 1 .. Len(c.list) : c.list[i] \in 1 .. k)
      /\ c.from \in Int /\ c.open \in Int /\ c.dot \in Int /\ c.current \in 0 .. k
      /\ c.current # 0 => c.current \in 1 .. k
  <2>1. /\ Len(c.ops) \in Nat /\ (\A i \in 1 .. Len(c.ops) : c.ops[i] \in 1 .. k)
        /\ c.ops # <<>> <=> Len(c.ops) >= 1
        /\ Len(c.parts) \in Nat /\ (\A i \in 1 .. Len(c.parts) : c.parts[i] \in 1 .. k)
        /\ Len(c.list) \in Nat /\ (\A i \in 1 .. Len(c.list) : c.list[i] \in 1 .. k)
    BY CallIs
  <2>2. c.from \in 1 .. r /\ c.open \in 0 .. r /\ c.dot \in 0 .. r /\ c.current \in 0 .. k
    BY CallIs
  <2> QED
    BY <2>1, <2>2
<1>2. \A m \in 1 .. k : lo[m] \in Nat /\ hi[m] \in Nat
  OBVIOUS
<1>3. c.ops # <<>> => c.from <= lo2[c.ops[1]]
  BY <1>1, SMTT(30) DEF InHand, Follows
<1>4. \A i \in 1 .. Len(c.ops) : nd2[c.ops[i]].at < limit2
  <2> SUFFICES ASSUME NEW i \in 1 .. Len(c.ops) PROVE nd2[c.ops[i]].at < limit2
    OBVIOUS
  <2>1. nd[c.ops[i]].at < limit
    BY DEF InHand
  <2>2. c.ops[i] \in 1 .. k
    BY <1>1
  <2>3. nd2[c.ops[i]].at = nd[c.ops[i]].at /\ nd[c.ops[i]].at \in Int
    BY <2>2 DEF Follows
  <2> QED
    BY <2>1, <2>3
<1>5. c.dot < limit2
  BY <1>1 DEF InHand
<1>6. ASSUME NEW i \in 1 .. Len(c.parts)
      PROVE  /\ Lies(c.parts[i], c, nd2, lo2, hi2, w2, limit2)
             /\ IF i = 1 THEN hi2[c.parts[i]] < c.dot ELSE c.dot < lo2[c.parts[i]]
             /\ c.current # 0 => hi2[c.parts[i]] < lo2[c.current]
             /\ c.step \in Opened => hi2[c.parts[i]] < c.open
  <2>1. Lies(c.parts[i], c, nd, lo, hi, w, limit) /\ c.parts[i] \in 1 .. k
    BY <1>1 DEF InHand
  <2>2. /\ lo2[c.parts[i]] = lo[c.parts[i]] /\ hi2[c.parts[i]] = hi[c.parts[i]]
        /\ c.current # 0 => lo2[c.current] = lo[c.current]
    BY <1>1, <2>1 DEF Follows, Lies
  <2>3. Lies(c.parts[i], c, nd2, lo2, hi2, w2, limit2)
    BY <2>1, LiesStill
  <2>4. /\ IF i = 1 THEN hi[c.parts[i]] < c.dot ELSE c.dot < lo[c.parts[i]]
        /\ c.current # 0 => hi[c.parts[i]] < lo[c.current]
        /\ c.step \in Opened => hi[c.parts[i]] < c.open
    BY DEF InHand
  <2> QED
    BY <2>2, <2>3, <2>4
<1>7. \A i, j \in 1 .. Len(c.parts) : i < j => hi2[c.parts[i]] < lo2[c.parts[j]]
  BY <1>1 DEF InHand, Follows, Lies
<1>8. c.current # 0 => /\ Lies(c.current, c, nd2, lo2, hi2, w2, limit2) /\ c.dot < lo2[c.current]
                       /\ hi2[c.current] = hi[c.current]
  <2> SUFFICES ASSUME c.current # 0
               PROVE  /\ Lies(c.current, c, nd2, lo2, hi2, w2, limit2) /\ c.dot < lo2[c.current]
                      /\ hi2[c.current] = hi[c.current]
    OBVIOUS
  <2>1. Lies(c.current, c, nd, lo, hi, w, limit) /\ c.dot < lo[c.current] /\ c.current \in 1 .. k
    BY <1>1 DEF InHand
  <2>2. Lies(c.current, c, nd2, lo2, hi2, w2, limit2)
    BY <2>1, LiesStill
  <2>3. lo2[c.current] = lo[c.current] /\ hi2[c.current] = hi[c.current]
    BY <2>1 DEF Follows, Lies
  <2> QED
    BY <2>1, <2>2, <2>3
<1>9. /\ c.step \in Outer => c.open < limit2 /\ \A i \in 1 .. Len(c.ops) : nd2[c.ops[i]].at < c.open
      /\ c.step \in Opened => c.dot < c.open
  <2>1. c.step \in Opened => c.dot < c.open
    BY DEF InHand
  <2>2. c.step \in Outer => c.open < limit2
    BY <1>1 DEF InHand
  <2>3. ASSUME c.step \in Outer, NEW i \in 1 .. Len(c.ops) PROVE nd2[c.ops[i]].at < c.open
    <3>1. nd[c.ops[i]].at < c.open
      BY <2>3 DEF InHand
    <3>2. nd2[c.ops[i]].at = nd[c.ops[i]].at
      BY <1>1 DEF Follows
    <3> QED
      BY <3>1, <3>2
  <2> QED
    BY <2>1, <2>2, <2>3
<1>10. c.step = "index" => hi2[c.current] < c.open
  BY <1>8 DEF InHand, Held
<1>11. ASSUME c.step = "list"
       PROVE  /\ \A i \in 1 .. Len(c.list) : c.list[i] \notin w2 /\ c.open < lo2[c.list[i]] /\ hi2[c.list[i]] < limit2
              /\ \A i, j \in 1 .. Len(c.list) : i < j => hi2[c.list[i]] < lo2[c.list[j]]
  <2>1. ASSUME NEW i \in 1 .. Len(c.list)
        PROVE  /\ c.list[i] \notin w2 /\ c.open < lo[c.list[i]] /\ hi[c.list[i]] < limit2
               /\ lo2[c.list[i]] = lo[c.list[i]] /\ hi2[c.list[i]] = hi[c.list[i]]
    <3>1. c.list[i] \notin w /\ c.open < lo[c.list[i]] /\ hi[c.list[i]] < limit
      BY <1>11 DEF InHand
    <3>2. c.list[i] \in 1 .. k /\ hi[c.list[i]] \in Nat
      BY <1>1
    <3> QED
      BY <3>1, <3>2 DEF Follows
  <2>2. \A i, j \in 1 .. Len(c.list) : i < j => hi[c.list[i]] < lo[c.list[j]]
    BY <1>11 DEF InHand
  <2> QED
    BY <2>1, <2>2
<1> QED
  BY <1>3, <1>4, <1>5, <1>6, <1>7, <1>8, <1>9, <1>10, <1>11 DEF InHand

LEMMA SpansStill ==
  ASSUME NEW r \in Nat, NEW k \in Nat, NEW n \in 1 .. k,
         NEW nd, nd[n] \in NodeSet(r, k), NEW lo \in [1 .. k -> Nat], NEW hi \in [1 .. k -> Nat], NEW w,
         NEW nd2, NEW lo2, NEW hi2, NEW w2, NEW r2 \in Nat, r <= r2,
         nd2[n].before = nd[n].before, nd2[n].after = nd[n].after,
         n \notin w \/ n \in w2,
         Spans(n, nd, lo, hi, w, r), Follows(k, nd, lo, hi, w, nd2, lo2, hi2, w2)
  PROVE  Spans(n, nd2, lo2, hi2, w2, r2)
<1> DEFINE b == nd[n].before
           a == nd[n].after
<1>1. /\ Len(b) \in Nat /\ (\A i \in 1 .. Len(b) : b[i] \in 1 .. k)
      /\ Len(a) \in Nat /\ (\A i \in 1 .. Len(a) : a[i] \in 1 .. k) /\ nd[n].at \in 1 .. r
  BY LinksOf
<1>2. /\ 1 <= lo[n] /\ lo[n] <= nd[n].at /\ nd[n].at < r
      /\ \A i \in 1 .. Len(b) : b[i] \notin w /\ lo[n] <= lo[b[i]] /\ hi[b[i]] < nd[n].at
      /\ \A i \in 1 .. Len(a) : nd[n].at < lo[a[i]]
  BY DEF Spans
<1>3. n \notin w =>
        /\ nd[n].at <= hi[n] /\ hi[n] < r
        /\ \A i \in 1 .. Len(a) : a[i] \notin w /\ hi[a[i]] <= hi[n]
        /\ \A i, j \in 1 .. Len(a) : i < j => hi[a[i]] < lo[a[j]]
  BY DEF Spans
<1>4. nd2[n].before = b /\ nd2[n].after = a
  OBVIOUS
<1> HIDE DEF a, b
<1>5. /\ nd2[n].at = nd[n].at /\ lo2[n] = lo[n] /\ (n \notin w2 => n \notin w /\ hi2[n] = hi[n])
      /\ lo[n] \in Nat /\ hi[n] \in Nat
  BY DEF Follows
<1>6. /\ 1 <= lo2[n] /\ lo2[n] <= nd2[n].at /\ nd2[n].at < r2
  BY <1>1, <1>2, <1>5
<1>7. ASSUME NEW i \in 1 .. Len(b)
      PROVE  b[i] \notin w2 /\ lo2[n] <= lo2[b[i]] /\ hi2[b[i]] < nd2[n].at
  <2>1. b[i] \in 1 .. k
    BY <1>1
  <2>2. lo2[b[i]] = lo[b[i]] /\ b[i] \notin w2 /\ hi2[b[i]] = hi[b[i]]
    BY <1>2, <2>1 DEF Follows
  <2> QED
    BY <1>2, <1>5, <2>2
<1>8. \A i \in 1 .. Len(a) : nd2[n].at < lo2[a[i]]
  <2> SUFFICES ASSUME NEW i \in 1 .. Len(a) PROVE nd2[n].at < lo2[a[i]]
    OBVIOUS
  <2>1. a[i] \in 1 .. k
    BY <1>1
  <2> QED
    BY <1>2, <1>5, <2>1 DEF Follows
<1>9. ASSUME n \notin w2
      PROVE  /\ nd2[n].at <= hi2[n] /\ hi2[n] < r2
             /\ \A i \in 1 .. Len(a) : a[i] \notin w2 /\ hi2[a[i]] <= hi2[n]
             /\ \A i, j \in 1 .. Len(a) : i < j => hi2[a[i]] < lo2[a[j]]
  <2>1. n \notin w
    BY <1>5, <1>9
  <2>2. ASSUME NEW i \in 1 .. Len(a)
        PROVE  a[i] \notin w2 /\ hi2[a[i]] = hi[a[i]] /\ lo2[a[i]] = lo[a[i]]
    <3>1. a[i] \in 1 .. k /\ a[i] \notin w
      BY <1>1, <1>3, <2>1
    <3> QED
      BY <3>1 DEF Follows
  <2>3. /\ nd2[n].at <= hi2[n] /\ hi2[n] < r2
    BY <1>1, <1>3, <1>5, <1>9, <2>1
  <2>4. \A i \in 1 .. Len(a) : hi2[a[i]] <= hi2[n]
    BY <1>3, <1>5, <1>9, <2>1, <2>2
  <2>5. \A i, j \in 1 .. Len(a) : i < j => hi2[a[i]] < lo2[a[j]]
    BY <1>3, <2>1, <2>2
  <2> QED
    BY <2>2, <2>3, <2>4, <2>5
<1> QED
  BY <1>4, <1>6, <1>7, <1>8, <1>9 DEF Spans

-----------------------------------------------------------------------------
(* Who waits does not change when the call on top turns or starts one.     *)
LEMMA WaitingIs ==
  ASSUME TypeOK
  PROVE  /\ Waiting \subseteq 1 .. Len(nodes)
         /\ Busy /\ statement # 0 => statement \in Waiting
         /\ \A d \in 1 .. Len(calls) : \A i \in 1 .. Len(calls[d].ops) : calls[d].ops[i] \in Waiting
<1>1. \A d \in 1 .. Len(calls) : \A i \in 1 .. Len(calls[d].ops) : calls[d].ops[i] \in 1 .. Len(nodes)
  BY OpsAre
<1>2. statement # 0 => statement \in 1 .. Len(nodes)
  BY StateIs
<1> QED
  BY <1>1, <1>2 DEF Waiting

LEMMA WaitingByTurn ==
  ASSUME TypeOK, TypeOK', calls # <<>>, NEW c, TopBecomes(c), c.ops = Top.ops, statement' = statement,
         Len(nodes) <= Len(nodes')
  PROVE  Waiting' = Waiting
<1>1. /\ Len(calls) \in Nat \ {0} /\ Top = calls[Len(calls)] /\ Len(calls') = Len(calls)
      /\ \A d \in 1 .. Len(calls) : calls'[d].ops = calls[d].ops
      /\ Len(nodes) \in Nat /\ Len(nodes') \in Nat
  <2>1. Len(calls) \in Nat \ {0} /\ Top = calls[Len(calls)]
    BY TopIs
  <2>2. Len(nodes) \in Nat /\ Len(nodes') \in Nat
    BY StateIs, NextIs
  <2>3. Len(calls') = Len(calls) /\ calls'[Len(calls)] = c /\ \A d \in 1 .. Len(calls) - 1 : calls'[d] = calls[d]
    BY DEF TopBecomes
  <2>4. \A d \in 1 .. Len(calls) : calls'[d].ops = calls[d].ops
    BY <2>1, <2>3
  <2> QED
    BY <2>1, <2>2, <2>3, <2>4
<1>2. Busy /\ Busy'
  BY <1>1, NextIs DEF Busy
<1>3. ASSUME NEW m PROVE m \in Waiting' <=> m \in Waiting
  <2>1. m \in Waiting => m \in Waiting'
    <3>1. m \in Waiting => m \in 1 .. Len(nodes')
      BY <1>1, WaitingIs
    <3> QED
      BY <1>1, <1>2, <3>1 DEF Waiting
  <2>2. ASSUME m \in Waiting' PROVE m \in Waiting
    <3>1. CASE m = statement' /\ m # 0
      BY <1>2, <3>1, WaitingIs
    <3>2. CASE m # statement'
      <4>1. PICK d \in 1 .. Len(calls') : \E i \in 1 .. Len(calls'[d].ops) : calls'[d].ops[i] = m
        BY <2>2, <3>2 DEF Waiting
      <4> QED
        BY <1>1, <4>1, WaitingIs
    <3>3. m # 0
      BY <2>2 DEF Waiting
    <3> QED
      BY <3>1, <3>2, <3>3
  <2> QED
    BY <2>1, <2>2
<1> QED
  BY <1>3

LEMMA WaitingByPush ==
  ASSUME TypeOK, TypeOK', calls # <<>>, NEW c, NEW s, NEW f, Pushed(c, s, f), c.ops = Top.ops,
         statement' = statement, UNCHANGED nodes
  PROVE  Waiting' = Waiting
<1>1. /\ Len(calls) \in Nat \ {0} /\ Top = calls[Len(calls)] /\ Len(calls') = Len(calls) + 1
      /\ \A d \in 1 .. Len(calls) : calls'[d].ops = calls[d].ops
      /\ calls'[Len(calls) + 1].ops = <<>> /\ Len(<<>>) = 0
  <2>1. Len(calls) \in Nat \ {0} /\ Top = calls[Len(calls)]
    BY TopIs
  <2>2. /\ Len(calls') = Len(calls) + 1 /\ calls'[Len(calls)] = c /\ calls'[Len(calls) + 1] = Call(s, f)
        /\ \A d \in 1 .. Len(calls) - 1 : calls'[d] = calls[d]
    BY DEF Pushed
  <2>3. \A d \in 1 .. Len(calls) : calls'[d].ops = calls[d].ops
    BY <2>1, <2>2
  <2>4. Call(s, f).ops = <<>> /\ Len(<<>>) = 0
    BY DEF Call
  <2> QED
    BY <2>1, <2>2, <2>3, <2>4
<1>2. Busy /\ Busy'
  BY <1>1, NextIs DEF Busy
<1>3. ASSUME NEW m, m \in 1 .. Len(nodes)
      PROVE  (\E d \in 1 .. Len(calls') : \E i \in 1 .. Len(calls'[d].ops) : calls'[d].ops[i] = m)
               <=> (\E d \in 1 .. Len(calls) : \E i \in 1 .. Len(calls[d].ops) : calls[d].ops[i] = m)
  <2>1. \A d \in 1 .. Len(calls') : d \in 1 .. Len(calls) \/ d = Len(calls) + 1
    BY <1>1
  <2>2. \A d \in 1 .. Len(calls) : d \in 1 .. Len(calls') /\ calls'[d].ops = calls[d].ops
    BY <1>1
  <2>3. \A i \in 1 .. Len(calls'[Len(calls) + 1].ops) : FALSE
    BY <1>1
  <2>4. ASSUME NEW d \in 1 .. Len(calls), NEW i \in 1 .. Len(calls[d].ops), calls[d].ops[i] = m
        PROVE  \E e \in 1 .. Len(calls') : \E j \in 1 .. Len(calls'[e].ops) : calls'[e].ops[j] = m
    BY <2>2, <2>4
  <2>5. ASSUME NEW d \in 1 .. Len(calls'), NEW i \in 1 .. Len(calls'[d].ops), calls'[d].ops[i] = m
        PROVE  \E e \in 1 .. Len(calls) : \E j \in 1 .. Len(calls[e].ops) : calls[e].ops[j] = m
    <3>1. d \in 1 .. Len(calls)
      BY <2>1, <2>3, <2>5
    <3> QED
      BY <2>2, <2>5, <3>1
  <2> QED
    BY <2>4, <2>5
<1> QED
  BY <1>2, <1>3 DEF Waiting

-----------------------------------------------------------------------------
(* What the call on top has in hand.                                       *)
TopLimit(lo) == IF result = 0 THEN Len(read) ELSE lo[result]

LEMMA LaidIs ==
  ASSUME TInv, NEW lo, NEW hi, Laid(lo, hi)
  PROVE  /\ lo \in [1 .. Len(nodes) -> Nat] /\ hi \in [1 .. Len(nodes) -> Nat]
         /\ \A m \in 1 .. Len(nodes) : /\ lo[m] \in Nat /\ hi[m] \in Nat /\ nodes[m].at \in Nat
                                       /\ 1 <= lo[m] /\ lo[m] <= nodes[m].at /\ nodes[m].at < Len(read)
                                       /\ m \notin Waiting => nodes[m].at <= hi[m] /\ hi[m] < Len(read)
         /\ Len(read) \in Nat /\ Len(nodes) \in Nat
<1>1. \A m \in 1 .. Len(nodes) : nodes[m] \in NodeSet(Len(read), Len(nodes))
  BY PartsOf
<1>2. \A m \in 1 .. Len(nodes) : nodes[m].at \in Nat
  BY <1>1, PartsOf, LinksOf
<1> QED
  BY <1>2, PartsOf DEF Laid, Spans

LEMMA TopInHand ==
  ASSUME TInv, calls # <<>>, NEW lo, NEW hi, Laid(lo, hi)
  PROVE  /\ InHand(Top, nodes, lo, hi, Waiting, TopLimit(lo))
         /\ TopLimit(lo) \in Nat /\ TopLimit(lo) <= Len(read)
         /\ Top \in CallSet(Len(read), Len(nodes)) /\ Held(Top)
<1>1. TypeOK /\ Len(calls) \in 1 .. Len(calls) /\ Top = calls[Len(calls)]
  BY TopIs DEF TInv
<1>2. Limit(Len(calls), lo) = TopLimit(lo)
  BY <1>1, TopIs DEF Limit, TopLimit
<1>3. result # 0 => result \in 1 .. Len(nodes)
  BY PartsOf
<1>4. TopLimit(lo) \in Nat /\ TopLimit(lo) <= Len(read)
  BY <1>3, LaidIs DEF TopLimit
<1> QED
  BY <1>1, <1>2, <1>4, TopIs DEF Laid, TInv, HeldInv

-----------------------------------------------------------------------------
Extends(k, lo, hi, lo2, hi2) == \A m \in 1 .. k : lo2[m] = lo[m] /\ hi2[m] = hi[m]

(* A turn of the call on top.                                              *)
LEMMA LaidByTurn ==
  ASSUME TInv, TypeOK', Quiet, NEW lo, NEW hi, Laid(lo, hi), NEW c, TopBecomes(c), SameOps(c),
         NEW lo2, NEW hi2, lo2 \in [1 .. Len(nodes') -> Nat], hi2 \in [1 .. Len(nodes') -> Nat],
         Extends(Len(nodes), lo, hi, lo2, hi2),
         \A n \in Len(nodes) + 1 .. Len(nodes') : Spans(n, nodes', lo2, hi2, Waiting, Len(read')),
         InHand(c, nodes', lo2, hi2, Waiting, Len(read'))
  PROVE  (\E lo3, hi3 : Laid(lo3, hi3))'
<1>1. /\ TypeOK /\ calls # <<>> /\ ReadKept /\ result' = 0 /\ statement' = statement
      /\ Len(nodes) <= Len(nodes') /\ \A m \in 1 .. Len(nodes) : nodes'[m] = nodes[m]
      /\ Len(read) \in Nat /\ Len(read') \in Nat /\ Len(read) <= Len(read')
      /\ Len(nodes) \in Nat /\ Len(nodes') \in Nat
  BY StateIs, NextIs DEF TInv, Quiet, NodesKept, ReadKept
<1>2. Waiting' = Waiting
  BY <1>1, WaitingByTurn DEF SameOps
<1>3. PICK w : w = Waiting
  OBVIOUS
<1>4. Follows(Len(nodes), nodes, lo, hi, w, nodes', lo2, hi2, w)
  BY <1>1 DEF Follows, Extends
<1>5. ASSUME NEW n \in 1 .. Len(nodes') PROVE Spans(n, nodes', lo2, hi2, w, Len(read'))
  <2>1. CASE n \in 1 .. Len(nodes)
    <3>1. Spans(n, nodes, lo, hi, w, Len(read)) /\ nodes[n] \in NodeSet(Len(read), Len(nodes))
      BY <1>3, <2>1, PartsOf DEF Laid
    <3>2. n \notin w \/ n \in w
      OBVIOUS
    <3> QED
      BY <1>1, <1>4, <2>1, <3>1, <3>2, SpansStill, LaidIs
  <2>2. CASE n \in Len(nodes) + 1 .. Len(nodes')
    BY <1>3, <2>2
  <2> QED
    BY <1>1, <2>1, <2>2
<1>6. /\ Len(calls) \in Nat \ {0} /\ Len(calls') = Len(calls) /\ calls'[Len(calls)] = c
      /\ \A d \in 1 .. Len(calls) - 1 : calls'[d] = calls[d]
      /\ c.from = Top.from /\ Top = calls[Len(calls)]
  BY <1>1, TopIs DEF TopBecomes, SameOps
<1>7. \A d \in 0 .. Len(calls) - 1 : Limit(d, lo2)' = Limit(d, lo) /\ Limit(d, lo) \in Int
  <2> SUFFICES ASSUME NEW d \in 0 .. Len(calls) - 1 PROVE Limit(d, lo2)' = Limit(d, lo) /\ Limit(d, lo) \in Int
    OBVIOUS
  <2>1. calls'[d + 1].from = calls[d + 1].from /\ d + 1 \in 1 .. Len(calls) /\ d < Len(calls)
    BY <1>6
  <2> QED
    BY <1>1, <1>6, <2>1, PlacesAre DEF Limit
<1>8. Limit(Len(calls), lo2)' = Len(read')
  BY <1>1, <1>6 DEF Limit
<1>9. ASSUME NEW d \in 1 .. Len(calls') PROVE InHand(calls'[d], nodes', lo2, hi2, w, Limit(d, lo2)')
  <2>1. CASE d = Len(calls)
    BY <1>3, <1>6, <1>8, <2>1
  <2>2. CASE d # Len(calls)
    <3>1. d \in 1 .. Len(calls) - 1 /\ d \in 1 .. Len(calls) /\ calls'[d] = calls[d]
      BY <1>6, <2>2
    <3>2. InHand(calls[d], nodes, lo, hi, w, Limit(d, lo)) /\ Held(calls[d]) /\ calls[d] \in CallSet(Len(read), Len(nodes))
      BY <1>3, <3>1, PartsOf DEF Laid
    <3>3. Limit(d, lo) \in Int /\ Limit(d, lo) <= Limit(d, lo) /\ Limit(d, lo2)' = Limit(d, lo)
      BY <1>7, <3>1
    <3>4. \A m \in 1 .. Len(nodes) : nodes[m].at \in Int
      BY LaidIs
    <3>5. InHand(calls[d], nodes', lo2, hi2, w, Limit(d, lo))
      BY <1>1, <1>4, <3>2, <3>3, <3>4, InHandStill, LaidIs
    <3> QED
      BY <3>1, <3>3, <3>5
  <2> QED
    BY <2>1, <2>2
<1>10. statement' # 0 => nodes'[statement'].at < Limit(0, lo2)'
  <2>1. statement # 0 => statement \in 1 .. Len(nodes)
    BY PartsOf
  <2>2. Limit(0, lo2)' = Limit(0, lo)
    BY <1>6, <1>7
  <2> QED
    BY <1>1, <2>1, <2>2 DEF Laid
<1>11. Laid(lo2, hi2)'
  BY <1>1, <1>2, <1>3, <1>5, <1>9, <1>10 DEF Laid
<1> QED
  BY <1>11

LEMMA AttachedByTurn ==
  ASSUME TInv, TypeOK', Quiet, Attached, NEW c, TopBecomes(c),
         \A n \in Len(nodes) + 1 .. Len(nodes') : RootOf(c, n) \/ HangsOn(n, nodes'),
         \A n \in 1 .. Len(nodes) : n = result \/ RootOf(Top, n) => RootOf(c, n) \/ HangsOn(n, nodes')
  PROVE  Attached'
<1>1. /\ TypeOK /\ calls # <<>> /\ statement' = statement
      /\ Len(nodes) <= Len(nodes') /\ \A m \in 1 .. Len(nodes) : nodes'[m] = nodes[m]
      /\ Len(nodes) \in Nat /\ Len(nodes') \in Nat
  BY StateIs, NextIs DEF TInv, Quiet, NodesKept
<1>2. /\ Len(calls) \in Nat \ {0} /\ Len(calls') = Len(calls) /\ calls'[Len(calls)] = c
      /\ \A d \in 1 .. Len(calls) - 1 : calls'[d] = calls[d]
      /\ Top = calls[Len(calls)] /\ Len(calls) \in 1 .. Len(calls')
  BY <1>1, TopIs DEF TopBecomes
<1>3. \A n : HangsOn(n, nodes) => HangsOn(n, nodes')
  <2> SUFFICES ASSUME NEW n, HangsOn(n, nodes) PROVE HangsOn(n, nodes')
    OBVIOUS
  <2>1. PICK m \in 1 .. Len(nodes) : \/ \E i \in 1 .. Len(nodes[m].before) : nodes[m].before[i] = n
                                     \/ \E i \in 1 .. Len(nodes[m].after) : nodes[m].after[i] = n
    BY DEF HangsOn
  <2>2. m \in 1 .. Len(nodes') /\ nodes'[m] = nodes[m]
    BY <1>1
  <2> QED
    BY <2>1, <2>2 DEF HangsOn
<1>4. ASSUME NEW n \in 1 .. Len(nodes')
      PROVE  \/ n = statement' \/ HangsOn(n, nodes')
             \/ \E d \in 1 .. Len(calls') : RootOf(calls'[d], n)
  <2>1. CASE n \in Len(nodes) + 1 .. Len(nodes')
    BY <1>2, <2>1
  <2>2. CASE n \in 1 .. Len(nodes)
    <3>1. CASE n = result \/ RootOf(Top, n)
      BY <1>2, <2>2, <3>1
    <3>2. CASE n = statement \/ HangsOn(n, nodes)
      BY <1>1, <1>3, <3>2
    <3>3. CASE \E d \in 1 .. Len(calls) : d # Len(calls) /\ RootOf(calls[d], n)
      <4>1. PICK d \in 1 .. Len(calls) : d # Len(calls) /\ RootOf(calls[d], n)
        BY <3>3
      <4>2. d \in 1 .. Len(calls) - 1 /\ d \in 1 .. Len(calls')
        BY <1>2, <4>1
      <4> QED
        BY <1>2, <4>1, <4>2
    <3> QED
      BY <1>2, <2>2, <3>1, <3>2, <3>3 DEF Attached
  <2> QED
    BY <1>1, <2>1, <2>2
<1> QED
  BY <1>4 DEF Attached

LEMMA SidedByTurn ==
  ASSUME TypeOK, TypeOK', Len(nodes) <= Len(nodes'), \A m \in 1 .. Len(nodes) : nodes'[m] = nodes[m],
         NEW w, \A n \in 1 .. Len(nodes) : Sided(n, nodes, w),
         \A n \in Len(nodes) + 1 .. Len(nodes') : Sided(n, nodes', w)
  PROVE  \A n \in 1 .. Len(nodes') : Sided(n, nodes', w)
<1>1. Len(nodes) \in Nat /\ Len(nodes') \in Nat
  BY StateIs, NextIs
<1>2. \A n \in 1 .. Len(nodes) : Sided(n, nodes', w)
  BY DEF Sided
<1> QED
  BY <1>1, <1>2

(* The token in hand is taken without a node only if it makes none, or     *)
(* opens a list.                                                           *)
Taken(c) ==
  \/ UNCHANGED read
  \/ TokenTaken /\ \/ value \notin OwnNode
                   \/ \E n \in 1 .. Len(nodes') : nodes'[n].at = Len(read)
                   \/ c.step = "list" /\ c.open = Len(read)

LEMMA MadeBy ==
  ASSUME TypeOK, TypeOK', Quiet, Made, verdict = "compiling", NEW c, calls'[Len(calls)] = c,
         Len(calls') >= Len(calls), \A d \in 1 .. Len(calls) - 1 : calls'[d] = calls[d], Taken(c),
         Top.step = "list" => \/ c.step = "list" /\ c.open = Top.open
                              \/ \E n \in 1 .. Len(nodes') : nodes'[n].at = Top.open
  PROVE  Made'
<1>1. /\ calls # <<>> /\ result' = 0 /\ verdict' = "compiling"
      /\ Len(nodes) <= Len(nodes') /\ \A m \in 1 .. Len(nodes) : nodes'[m] = nodes[m]
      /\ Len(nodes) \in Nat /\ Len(nodes') \in Nat /\ Len(read) \in Nat /\ Len(calls') \in Nat
  BY StateIs, NextIs DEF Quiet, NodesKept
<1>2. /\ Len(calls) \in Nat \ {0} /\ Top = calls[Len(calls)] /\ Len(calls) \in 1 .. Len(calls')
  BY <1>1, TopIs
<1>3. ASSUME NEW p \in 1 .. Len(read) - 1, read[p] \in OwnNode
      PROVE  \/ \E n \in 1 .. Len(nodes') : nodes'[n].at = p
             \/ \E d \in 1 .. Len(calls') : calls'[d].step = "list" /\ calls'[d].open = p
  <2>1. CASE \E n \in 1 .. Len(nodes) : nodes[n].at = p
    <3>1. PICK n \in 1 .. Len(nodes) : nodes[n].at = p
      BY <2>1
    <3>2. n \in 1 .. Len(nodes') /\ nodes'[n] = nodes[n]
      BY <1>1
    <3> QED
      BY <3>1, <3>2
  <2>2. CASE \E d \in 1 .. Len(calls) : calls[d].step = "list" /\ calls[d].open = p
    <3>1. PICK d \in 1 .. Len(calls) : calls[d].step = "list" /\ calls[d].open = p
      BY <2>2
    <3>2. CASE d = Len(calls)
      BY <1>2, <3>1, <3>2
    <3>3. CASE d # Len(calls)
      <4>1. d \in 1 .. Len(calls) - 1 /\ d \in 1 .. Len(calls')
        BY <1>1, <1>2, <3>3
      <4> QED
        BY <3>1, <4>1
    <3> QED
      BY <3>2, <3>3
  <2> QED
    BY <1>3, <2>1, <2>2 DEF Made
<1>4. ASSUME NEW p \in 1 .. Len(read') - 1, read'[p] \in OwnNode
      PROVE  \/ \E n \in 1 .. Len(nodes') : nodes'[n].at = p
             \/ \E d \in 1 .. Len(calls') : calls'[d].step = "list" /\ calls'[d].open = p
  <2>1. CASE UNCHANGED read
    BY <1>3, <1>4, <2>1
  <2>2. CASE TokenTaken /\ p = Len(read) /\ ~UNCHANGED read
    <3>1. read'[p] = value /\ value \in OwnNode
      BY <1>1, <1>4, <2>2, StateIs DEF TokenTaken, value
    <3> QED
      BY <1>2, <2>2, <3>1 DEF Taken
  <2>3. CASE TokenTaken /\ p # Len(read)
    <3>1. p \in 1 .. Len(read) - 1 /\ read'[p] = read[p]
      BY <1>1, <2>3 DEF TokenTaken
    <3> QED
      BY <1>3, <1>4, <3>1
  <2> QED
    BY <2>1, <2>2, <2>3 DEF Taken
<1> QED
  BY <1>1, <1>4 DEF Made

(* All of it.                                                              *)
Moves(c) ==
  /\ TopBecomes(c) /\ SameOps(c) /\ Taken(c)
  /\ Top.step = "list" => \/ c.step = "list" /\ c.open = Top.open
                          \/ \E n \in 1 .. Len(nodes') : nodes'[n].at = Top.open
  /\ \A n \in Len(nodes) + 1 .. Len(nodes') : RootOf(c, n) \/ HangsOn(n, nodes')
  /\ \A n \in 1 .. Len(nodes) : n = result \/ RootOf(Top, n) => RootOf(c, n) \/ HangsOn(n, nodes')

LEMMA ForestByTurn ==
  ASSUME HInv, TypeOK', Quiet, Forest, NEW lo, NEW hi, Laid(lo, hi), NEW c, Moves(c),
         NEW lo2, NEW hi2, lo2 \in [1 .. Len(nodes') -> Nat], hi2 \in [1 .. Len(nodes') -> Nat],
         Extends(Len(nodes), lo, hi, lo2, hi2),
         \A n \in Len(nodes) + 1 .. Len(nodes') : /\ Spans(n, nodes', lo2, hi2, Waiting, Len(read'))
                                                  /\ Sided(n, nodes', Waiting),
         InHand(c, nodes', lo2, hi2, Waiting, Len(read'))
  PROVE  Forest'
<1>1. /\ TInv /\ TypeOK /\ calls # <<>> /\ verdict = "compiling" /\ TopBecomes(c) /\ SameOps(c) /\ statement' = statement
      /\ Len(nodes) <= Len(nodes') /\ \A m \in 1 .. Len(nodes) : nodes'[m] = nodes[m]
  BY CallingIs DEF HInv, EInv, OInv, TInv, Quiet, NodesKept, Moves
<1>2. (\E lo3, hi3 : Laid(lo3, hi3))'
  BY <1>1, LaidByTurn
<1>3. Attached'
  BY <1>1, AttachedByTurn DEF Moves, Forest
<1>4. Waiting' = Waiting
  BY <1>1, WaitingByTurn DEF SameOps
<1>5. \A n \in 1 .. Len(nodes') : Sided(n, nodes', Waiting)
  <2>1. PICK w : w = Waiting
    OBVIOUS
  <2> QED
    BY <1>1, <2>1, SidedByTurn DEF Forest
<1>6. Made'
  <2>1. /\ calls'[Len(calls)] = c /\ Len(calls') >= Len(calls)
        /\ \A d \in 1 .. Len(calls) - 1 : calls'[d] = calls[d]
    BY <1>1, TopIs DEF TopBecomes
  <2> QED
    BY <1>1, <2>1, MadeBy DEF Moves, Forest
<1> QED
  BY <1>2, <1>3, <1>4, <1>5, <1>6 DEF Forest

-----------------------------------------------------------------------------
(* What the call on top has in hand after a turn.                          *)
LEMMA TopInHandStill ==
  ASSUME TInv, TypeOK', Quiet, NEW lo, NEW hi, Laid(lo, hi),
         NEW lo2, NEW hi2, Extends(Len(nodes), lo, hi, lo2, hi2)
  PROVE  InHand(Top, nodes', lo2, hi2, Waiting, Len(read'))
<1>1. /\ TypeOK /\ calls # <<>> /\ \A m \in 1 .. Len(nodes) : nodes'[m] = nodes[m]
      /\ Len(read) \in Nat /\ Len(read') \in Nat /\ Len(read) <= Len(read') /\ Len(nodes) \in Nat
  BY StateIs, NextIs DEF TInv, Quiet, NodesKept, ReadKept
<1>2. PICK w : w = Waiting
  OBVIOUS
<1>3. Follows(Len(nodes), nodes, lo, hi, w, nodes', lo2, hi2, w)
  BY <1>1 DEF Follows, Extends
<1>4. PICK limit : limit = TopLimit(lo)
  OBVIOUS
<1>5. /\ InHand(Top, nodes, lo, hi, w, limit) /\ limit \in Int /\ limit <= Len(read')
      /\ Top \in CallSet(Len(read), Len(nodes)) /\ Held(Top)
  BY <1>1, <1>2, <1>4, TopInHand
<1>6. \A m \in 1 .. Len(nodes) : nodes[m].at \in Int
  BY LaidIs
<1>7. lo \in [1 .. Len(nodes) -> Nat] /\ hi \in [1 .. Len(nodes) -> Nat] /\ Len(read') \in Int
  BY <1>1, LaidIs
<1>8. PICK c : c = Top
  OBVIOUS
<1>9. InHand(c, nodes', lo2, hi2, w, Len(read'))
  BY <1>1, <1>3, <1>5, <1>6, <1>7, <1>8, InHandStill
<1> QED
  BY <1>2, <1>8, <1>9

(* c2 holds x, on its own or behind what c held before a dot.              *)
Takes(c, x, c2, lo, hi) ==
  /\ c2.ops = c.ops /\ c2.from = c.from /\ c2.step \in {"postfix", "operator"} /\ c2.current = x
  /\ \/ c2.parts = <<>> /\ c2.dot = 0
     \/ /\ c2.parts = c.parts /\ c2.dot = c.dot /\ c.dot < lo[x]
        /\ \A i \in 1 .. Len(c.parts) : hi[c.parts[i]] < lo[x]

LEMMA TakesInHand ==
  ASSUME NEW c, NEW c2, NEW nd, NEW lo, NEW hi, NEW w, NEW limit \in Nat \ {0}, NEW x,
         InHand(c, nd, lo, hi, w, limit), Lies(x, c, nd, lo, hi, w, limit),
         lo[x] \in Nat \ {0}, Takes(c, x, c2, lo, hi)
  PROVE  InHand(c2, nd, lo, hi, w, limit)
<1>1. /\ c2.step \notin Outer /\ c2.step \notin Opened /\ c2.step # "index" /\ c2.step # "list"
      /\ c2.current = x /\ c2.ops = c.ops /\ c2.from = c.from
  BY DEF Takes, Outer, Opened
<1>2. Lies(c2.current, c2, nd, lo, hi, w, limit)
  BY <1>1 DEF Lies
<1>3. CASE c2.parts = <<>> /\ c2.dot = 0
  <2>1. Len(c2.parts) = 0
    BY <1>3
  <2> QED
    BY <1>1, <1>2, <1>3, <2>1 DEF InHand
<1>4. CASE /\ c2.parts = c.parts /\ c2.dot = c.dot /\ c.dot < lo[x]
           /\ \A i \in 1 .. Len(c.parts) : hi[c.parts[i]] < lo[x]
  <2>1. \A i \in 1 .. Len(c2.parts) : Lies(c2.parts[i], c2, nd, lo, hi, w, limit)
    BY <1>1, <1>4 DEF Lies, InHand
  <2>2. /\ c2.ops # <<>> => c2.from <= lo[c2.ops[1]]
        /\ \A i \in 1 .. Len(c2.ops) : nd[c2.ops[i]].at < limit
        /\ c2.dot < limit
        /\ \A i, j \in 1 .. Len(c2.parts) : i < j => hi[c2.parts[i]] < lo[c2.parts[j]]
    BY <1>1, <1>4 DEF InHand
  <2>3. ASSUME NEW i \in 1 .. Len(c2.parts)
        PROVE  /\ IF i = 1 THEN hi[c2.parts[i]] < c2.dot ELSE c2.dot < lo[c2.parts[i]]
               /\ hi[c2.parts[i]] < lo[c2.current]
    BY <1>1, <1>4 DEF InHand
  <2>4. c2.dot < lo[c2.current]
    BY <1>1, <1>4
  <2> QED
    BY <1>1, <1>2, <2>1, <2>2, <2>3, <2>4 DEF InHand
<1> QED
  BY <1>3, <1>4 DEF Takes

(* A turn that makes one node, from token s on, of which the call has      *)
(* nothing else in hand.                                                   *)
Covers(n, s, lo, hi, w, r) ==
  /\ 1 <= s /\ s <= n.at /\ n.at < r
  /\ \A i \in 1 .. Len(n.before) : n.before[i] \notin w /\ s <= lo[n.before[i]] /\ hi[n.before[i]] < n.at
  /\ \A i \in 1 .. Len(n.after) : n.after[i] \notin w /\ n.at < lo[n.after[i]] /\ hi[n.after[i]] < r
  /\ \A i, j \in 1 .. Len(n.after) : i < j => hi[n.after[i]] < lo[n.after[j]]
  /\ n.kind = "index" => Len(n.before) = 1 /\ Len(n.after) = 1

LinkedBy(n, m) ==
  (\E i \in 1 .. Len(n.before) : n.before[i] = m) \/ (\E i \in 1 .. Len(n.after) : n.after[i] = m)

LEMMA CoversSpans ==
  ASSUME NEW k \in Nat, NEW s \in Nat, NEW w,
         NEW n, n.before \in Seq(1 .. k), n.after \in Seq(1 .. k), n.at \in Nat,
         NEW lo \in [1 .. k -> Nat], NEW hi \in [1 .. k -> Nat],
         NEW r2 \in Nat, Covers(n, s, lo, hi, w, r2),
         NEW new, NEW nd, nd[new] = n, NEW lo2, NEW hi2,
         Extends(k, lo, hi, lo2, hi2),
         lo2[new] = s, hi2[new] = r2 - 1
  PROVE  Spans(new, nd, lo2, hi2, w, r2)
<1>1. /\ Len(n.before) \in Nat /\ (\A i \in 1 .. Len(n.before) : n.before[i] \in 1 .. k)
      /\ Len(n.after) \in Nat /\ (\A i \in 1 .. Len(n.after) : n.after[i] \in 1 .. k)
  BY ListIs2
<1>2. ASSUME NEW i \in 1 .. Len(n.before)
      PROVE  n.before[i] \notin w /\ s <= lo2[n.before[i]] /\ hi2[n.before[i]] < n.at
  BY <1>1 DEF Covers, Extends
<1>3. ASSUME NEW i \in 1 .. Len(n.after)
      PROVE  n.after[i] \notin w /\ n.at < lo2[n.after[i]] /\ hi2[n.after[i]] <= r2 - 1
  <2>1. n.after[i] \in 1 .. k /\ n.after[i] \notin w /\ n.at < lo[n.after[i]] /\ hi[n.after[i]] < r2
    BY <1>1 DEF Covers
  <2>2. lo2[n.after[i]] = lo[n.after[i]] /\ hi2[n.after[i]] = hi[n.after[i]]
    BY <2>1 DEF Extends
  <2>3. \A h \in Nat : h < r2 => h <= r2 - 1
    OBVIOUS
  <2>4. hi[n.after[i]] \in Nat
    BY <2>1
  <2>5. hi[n.after[i]] <= r2 - 1
    BY <2>1, <2>3, <2>4
  <2> QED
    BY <2>1, <2>2, <2>5
<1>4. \A i, j \in 1 .. Len(n.after) : i < j => hi2[n.after[i]] < lo2[n.after[j]]
  <2> SUFFICES ASSUME NEW i \in 1 .. Len(n.after), NEW j \in 1 .. Len(n.after), i < j
               PROVE  hi2[n.after[i]] < lo2[n.after[j]]
    OBVIOUS
  <2>1. hi[n.after[i]] < lo[n.after[j]]
    BY DEF Covers
  <2>2. hi2[n.after[i]] = hi[n.after[i]] /\ lo2[n.after[j]] = lo[n.after[j]]
    BY <1>1 DEF Extends
  <2> QED
    BY <2>1, <2>2
<1>5. 1 <= s /\ s <= n.at /\ n.at < r2 /\ n.at <= r2 - 1 /\ r2 - 1 < r2
  BY <1>1 DEF Covers
<1> QED
  BY <1>2, <1>3, <1>4, <1>5 DEF Spans

Begins(c, s, nd) == c.from <= s /\ \A i \in 1 .. Len(c.ops) : nd[c.ops[i]].at < s

LEMMA ForestByNode ==
  ASSUME HInv, TypeOK', Quiet, Forest, NEW lo, NEW hi, Laid(lo, hi),
         NEW n, NodeMade(n), n.kind \notin {"operation", "if"},
         n.before \in Seq(1 .. Len(nodes)), n.after \in Seq(1 .. Len(nodes)), n.at \in Nat,
         NEW s \in Nat, Covers(n, s, lo, hi, Waiting, Len(read')), Begins(Top, s, nodes),
         NEW c, TopBecomes(c), SameOps(c), Taken(c), c.current = New, c.step \in {"postfix", "operator"},
         \/ c.parts = <<>> /\ c.dot = 0
         \/ /\ c.parts = Top.parts /\ c.dot = Top.dot /\ Top.dot < s
            /\ \A i \in 1 .. Len(Top.parts) : hi[Top.parts[i]] < s,
         Top.step = "list" => n.at = Top.open,
         \A m \in 1 .. Len(nodes) : m = result \/ RootOf(Top, m) => RootOf(c, m) \/ LinkedBy(n, m)
  PROVE  Forest'
<1>0. PICK k : k = Len(nodes)
  OBVIOUS
<1>1. /\ TInv /\ TypeOK /\ calls # <<>> /\ k \in Nat /\ New = k + 1 /\ Len(nodes') = k + 1 /\ nodes'[New] = n
      /\ \A m \in 1 .. k : nodes'[m] = nodes[m]
      /\ Len(read) \in Nat \ {0} /\ Len(read') \in Nat \ {0} /\ Len(read) <= Len(read')
      /\ \A m \in k + 1 .. Len(nodes') : m = New
  BY <1>0, StateIs, NextIs DEF HInv, EInv, OInv, TInv, Quiet, ReadKept, NodeMade, New
<1>2. PICK lo2 : lo2 = [m \in 1 .. k + 1 |-> IF m = k + 1 THEN s ELSE lo[m]]
  OBVIOUS
<1>3. PICK hi2 : hi2 = [m \in 1 .. k + 1 |-> IF m = k + 1 THEN Len(read') - 1 ELSE hi[m]]
  OBVIOUS
<1>4. /\ lo2 \in [1 .. Len(nodes') -> Nat] /\ hi2 \in [1 .. Len(nodes') -> Nat]
      /\ \A m \in 1 .. k : lo2[m] = lo[m] /\ hi2[m] = hi[m]
      /\ lo2[New] = s /\ hi2[New] = Len(read') - 1
  BY <1>0, <1>1, <1>2, <1>3, LaidIs
<1>5. PICK w : w = Waiting
  OBVIOUS
<1>10. PICK r2 : r2 = Len(read')
  OBVIOUS
<1>11. lo \in [1 .. k -> Nat] /\ hi \in [1 .. k -> Nat] /\ \A m \in 1 .. k : nodes[m].at \in Nat
  BY <1>0, <1>1, LaidIs
<1>14. /\ Extends(Len(nodes), lo, hi, lo2, hi2)
       /\ lo2 \in [1 .. Len(nodes') -> Nat] /\ hi2 \in [1 .. Len(nodes') -> Nat]
  BY <1>0, <1>4 DEF Extends
<1>6. Spans(New, nodes', lo2, hi2, w, r2)
  <2>1. Covers(n, s, lo, hi, w, r2)
    BY <1>5, <1>10
  <2>2. n.before \in Seq(1 .. k) /\ n.after \in Seq(1 .. k)
    BY <1>0
  <2>3. lo2[New] = s /\ hi2[New] = r2 - 1 /\ r2 \in Nat
    BY <1>1, <1>4, <1>10
  <2>4. PICK new, nd : new = New /\ nd = nodes'
    OBVIOUS
  <2>5. nd[new] = n /\ k \in Nat /\ lo2[new] = s /\ hi2[new] = r2 - 1
    BY <1>1, <2>3, <2>4
  <2>6. Extends(k, lo, hi, lo2, hi2)
    BY <1>4 DEF Extends
  <2>7. Spans(new, nd, lo2, hi2, w, r2)
    BY <1>11, <2>1, <2>2, <2>3, <2>5, <2>6, CoversSpans
  <2> QED
    BY <2>4, <2>7
<1>7. Sided(New, nodes', w)
  BY <1>1 DEF Sided, Covers
<1>8. InHand(c, nodes', lo2, hi2, w, r2)
  <2>1. PICK t : t = Top
    OBVIOUS
  <2>8. InHand(Top, nodes', lo2, hi2, Waiting, Len(read'))
    BY <1>1, <1>14, TopInHandStill
  <2>2. InHand(t, nodes', lo2, hi2, w, r2)
    BY <1>5, <1>10, <2>1, <2>8
  <2>3. /\ Top \in CallSet(Len(read), k) /\ \A i \in 1 .. Len(t.parts) : t.parts[i] \in 1 .. k
        /\ \A i \in 1 .. Len(t.ops) : t.ops[i] \in 1 .. k
    BY <1>0, <1>1, <2>1, TopIs, CallIs
  <2>4. Lies(New, t, nodes', lo2, hi2, w, r2)
    <3>1. New \notin w
      BY <1>0, <1>1, <1>5, WaitingIs
    <3>2. t.from <= s /\ \A i \in 1 .. Len(t.ops) : nodes'[t.ops[i]].at < s
      BY <1>1, <2>1, <2>3 DEF Begins
    <3>3. hi2[New] < r2
      BY <1>1, <1>4, <1>10
    <3> QED
      BY <1>4, <3>1, <3>2, <3>3 DEF Lies
  <2>5. Takes(t, New, c, lo2, hi2)
    <3>1. c.ops = t.ops /\ c.from = t.from
      BY <2>1 DEF SameOps
    <3>2. \/ c.parts = <<>> /\ c.dot = 0
          \/ /\ c.parts = t.parts /\ c.dot = t.dot /\ t.dot < lo2[New]
             /\ \A i \in 1 .. Len(t.parts) : hi2[t.parts[i]] < lo2[New]
      BY <1>4, <2>1, <2>3
    <3> QED
      BY <3>1, <3>2 DEF Takes
  <2>6. lo2[New] \in Nat \ {0}
    BY <1>4 DEF Covers
  <2>7. r2 \in Nat \ {0}
    BY <1>1, <1>10
  <2> QED
    BY <2>2, <2>4, <2>5, <2>6, <2>7, TakesInHand
<1>9. Moves(c)
  <2>1. New \in 1 .. Len(nodes') /\ nodes'[New].at = n.at
    BY <1>1
  <2>2. \A m : LinkedBy(n, m) => HangsOn(m, nodes')
    BY <1>1, <2>1 DEF LinkedBy, HangsOn
  <2>3. \A m \in k + 1 .. Len(nodes') : RootOf(c, m)
    BY <1>1 DEF RootOf
  <2> QED
    BY <1>0, <2>1, <2>2, <2>3 DEF Moves
<1>12. \A m \in Len(nodes) + 1 .. Len(nodes') : Spans(m, nodes', lo2, hi2, Waiting, Len(read')) /\ Sided(m, nodes', Waiting)
  BY <1>0, <1>1, <1>5, <1>6, <1>7, <1>10
<1>13. InHand(c, nodes', lo2, hi2, Waiting, Len(read'))
  BY <1>5, <1>8, <1>10
<1> QED
  BY <1>9, <1>12, <1>13, <1>14, ForestByTurn

-----------------------------------------------------------------------------
(* Where what the call on top has in hand may begin.                       *)
Clear(c, s, nd, hi) ==
  Begins(c, s, nd) /\ c.dot < s /\ \A i \in 1 .. Len(c.parts) : hi[c.parts[i]] < s

LEMMA ClearAtEnd ==
  ASSUME TInv, calls # <<>>, NEW lo, NEW hi, Laid(lo, hi), result = 0
  PROVE  Clear(Top, Len(read), nodes, hi)
<1>1. InHand(Top, nodes, lo, hi, Waiting, Len(read)) /\ Top \in CallSet(Len(read), Len(nodes))
  BY TopInHand DEF TopLimit
<1>2. Top.from <= Len(read)
  BY <1>1, PartsOf, CallIs
<1> QED
  BY <1>1, <1>2 DEF InHand, Lies, Clear, Begins

LEMMA BeginsAtOpen ==
  ASSUME OInv, calls # <<>>, NEW lo, NEW hi, Laid(lo, hi), Top.step \in Outer
  PROVE  /\ Begins(Top, Top.open, nodes) /\ Top.open \in 1 .. Len(read) - 1
         /\ result # 0 => Top.open < lo[result]
<1>1. TInv /\ TypeOK /\ Nested /\ Len(calls) \in 1 .. Len(calls) /\ Top = calls[Len(calls)] /\ Len(read) \in Nat
  BY TopIs, StateIs DEF OInv, TInv
<1>2. /\ InHand(Top, nodes, lo, hi, Waiting, TopLimit(lo)) /\ Top \in CallSet(Len(read), Len(nodes))
  BY <1>1, TopInHand
<1>3. Top.from <= Top.open /\ Top.open < Len(read)
  BY <1>1 DEF Nested
<1>4. Top.from \in 1 .. Len(read) /\ Top.open \in 0 .. Len(read)
  BY <1>1, <1>2, CallIs
<1>5. Top.open \in 1 .. Len(read) - 1
  BY <1>1, <1>3, <1>4
<1>6. (\A i \in 1 .. Len(Top.ops) : nodes[Top.ops[i]].at < Top.open) /\ Top.open < TopLimit(lo)
  BY <1>2 DEF InHand
<1> QED
  BY <1>3, <1>5, <1>6 DEF Begins, TopLimit

LEMMA ClearAtOpen ==
  ASSUME OInv, calls # <<>>, NEW lo, NEW hi, Laid(lo, hi), Top.step \in Opened
  PROVE  Clear(Top, Top.open, nodes, hi)
<1>1. TInv /\ Top.step \in Outer
  BY DEF OInv, Opened, Outer
<1>2. /\ InHand(Top, nodes, lo, hi, Waiting, TopLimit(lo)) /\ Begins(Top, Top.open, nodes)
  BY <1>1, TopInHand, BeginsAtOpen
<1> QED
  BY <1>2 DEF InHand, Clear

LEMMA ResultIs ==
  ASSUME TInv, NEW lo, NEW hi, Laid(lo, hi), result # 0
  PROVE  /\ result \in 1 .. Len(nodes) /\ result \notin Waiting /\ lo[result] \in Nat \ {0}
         /\ lo[result] <= hi[result] /\ hi[result] < Len(read) /\ hi[result] \in Nat
<1>1. result \in 1 .. Len(nodes)
  BY PartsOf
<1>2. result \notin Waiting
  BY DEF Laid
<1> QED
  BY <1>1, <1>2, LaidIs

(* The current operand and the parts before it.                            *)
LEMMA CurrentIs ==
  ASSUME TInv, calls # <<>>, NEW lo, NEW hi, Laid(lo, hi), Top.current # 0
  PROVE  /\ Top.current \in 1 .. Len(nodes) /\ Top.current \notin Waiting
         /\ lo[Top.current] \in Nat \ {0} /\ Clear(Top, lo[Top.current], nodes, hi)
         /\ hi[Top.current] < TopLimit(lo) /\ hi[Top.current] < Len(read) /\ lo[Top.current] <= hi[Top.current]
         /\ Top.step = "index" => hi[Top.current] < Top.open
<1>1. InHand(Top, nodes, lo, hi, Waiting, TopLimit(lo)) /\ Top \in CallSet(Len(read), Len(nodes))
  BY TopInHand
<1>2. Top.current \in 1 .. Len(nodes)
  BY <1>1, CallIs, PartsOf
<1>3. Lies(Top.current, Top, nodes, lo, hi, Waiting, TopLimit(lo))
  BY <1>1 DEF InHand
<1>4. Top.current \notin Waiting /\ Begins(Top, lo[Top.current], nodes) /\ hi[Top.current] < TopLimit(lo)
  BY <1>3 DEF Lies, Begins
<1>5. /\ lo[Top.current] \in Nat \ {0} /\ lo[Top.current] <= hi[Top.current] /\ hi[Top.current] < Len(read)
  BY <1>2, <1>4, LaidIs, SMTT(30)
<1>6. /\ Top.dot < lo[Top.current] /\ \A i \in 1 .. Len(Top.parts) : hi[Top.parts[i]] < lo[Top.current]
      /\ Top.step = "index" => hi[Top.current] < Top.open
  BY <1>1 DEF InHand
<1> QED
  BY <1>2, <1>4, <1>5, <1>6 DEF Clear

LEMMA PartIs ==
  ASSUME TInv, calls # <<>>, NEW lo, NEW hi, Laid(lo, hi), NEW i \in 1 .. Len(Top.parts)
  PROVE  /\ Top.parts[i] \in 1 .. Len(nodes) /\ Top.parts[i] \notin Waiting
         /\ lo[Top.parts[i]] \in Nat \ {0} /\ Begins(Top, lo[Top.parts[i]], nodes)
         /\ hi[Top.parts[i]] < Len(read) /\ hi[Top.parts[i]] \in Nat
         /\ IF i = 1 THEN hi[Top.parts[i]] < Top.dot ELSE Top.dot < lo[Top.parts[i]]
         /\ \A j \in 1 .. Len(Top.parts) : i < j => hi[Top.parts[i]] < lo[Top.parts[j]]
<1>1. InHand(Top, nodes, lo, hi, Waiting, TopLimit(lo)) /\ Top \in CallSet(Len(read), Len(nodes))
  BY TopInHand
<1>2. Top.parts[i] \in 1 .. Len(nodes)
  BY <1>1, CallIs, PartsOf
<1>3. Lies(Top.parts[i], Top, nodes, lo, hi, Waiting, TopLimit(lo))
  BY <1>1 DEF InHand
<1>4. Top.parts[i] \notin Waiting /\ Begins(Top, lo[Top.parts[i]], nodes)
  BY <1>3 DEF Lies, Begins
<1>5. /\ lo[Top.parts[i]] \in Nat \ {0} /\ hi[Top.parts[i]] < Len(read) /\ hi[Top.parts[i]] \in Nat
  BY <1>2, <1>4, LaidIs
<1>6. /\ IF i = 1 THEN hi[Top.parts[i]] < Top.dot ELSE Top.dot < lo[Top.parts[i]]
      /\ \A j \in 1 .. Len(Top.parts) : i < j => hi[Top.parts[i]] < lo[Top.parts[j]]
  BY <1>1 DEF InHand
<1> QED
  BY <1>2, <1>4, <1>5, <1>6

LEMMA QuietBy ==
  ASSUME TypeOK, calls # <<>>, result' = 0, UNCHANGED <<statement, failed, verdict>>,
         TokenTaken \/ UNCHANGED read,
         UNCHANGED nodes \/ \E n : NodeMade(n) /\ n.kind \notin {"operation", "if"}
  PROVE  Quiet
<1>1. ReadKept
  BY TakenIsKept
<1>2. NodesKept
  BY UnchangedIsKept, MadeIsKept
<1> QED
  BY <1>1, <1>2 DEF Quiet

(* A name or a number.                                                     *)
LEMMA ForestByOperand ==
  ASSUME HInv, Forest, Operand
  PROVE  Forest'
<1> DEFINE n == Node("operand", Len(read), <<>>, <<>>)
           c == [Top EXCEPT !.current = New, !.step = "postfix", !.bad = BadNow]
<1>1. OInv /\ TInv /\ TypeOK /\ calls # <<>> /\ result = 0 /\ Top.step \in {"symbol", "signed"}
  BY DEF HInv, EInv, OInv, TInv, Operand, Unsigned, At
<1>2. TypeOK' /\ TokenTaken /\ NodeMade(n) /\ TopBecomes(c) /\ Quiet
  <2>1. TypeOK' /\ TokenTaken /\ NodeMade(n) /\ TopBecomes(c)
    BY <1>1, OperandIs
  <2>2. n.kind \notin {"operation", "if"} /\ UNCHANGED <<result, statement, failed, verdict>>
    BY KindIs DEF Operand
  <2> HIDE DEF n, c
  <2> QED
    BY <1>1, <2>1, <2>2, QuietBy
<1>3. /\ n.kind = "operand" /\ n.at = Len(read) /\ n.before = <<>> /\ n.after = <<>>
      /\ Len(<<>>) = 0 /\ \A S : <<>> \in Seq(S)
  BY KindIs
<1>4. /\ c.ops = Top.ops /\ c.from = Top.from /\ c.current = New /\ c.step = "postfix"
      /\ c.parts = Top.parts /\ c.dot = Top.dot
  BY <1>1, TopIs DEF CallSet
<1> HIDE DEF n, c
<1>5. Len(read) \in Nat \ {0} /\ Len(read') = Len(read) + 1 /\ New \in 1 .. Len(nodes') /\ nodes'[New] = n
  BY <1>1, <1>2, StateIs DEF TokenTaken, NodeMade, New
<1>6. PICK lo, hi : Laid(lo, hi)
  BY DEF Forest
<1>7. Clear(Top, Len(read), nodes, hi)
  BY <1>1, <1>6, ClearAtEnd
<1>8. Covers(n, Len(read), lo, hi, Waiting, Len(read'))
  BY <1>3, <1>5 DEF Covers
<1>9. SameOps(c) /\ Taken(c)
  BY <1>2, <1>3, <1>4, <1>5 DEF SameOps, Taken
<1>10. \A m \in 1 .. Len(nodes) : m = result \/ RootOf(Top, m) => RootOf(c, m)
  <2>1. Top.current = 0
    BY <1>1, TopInHand, <1>6 DEF Held
  <2> QED
    BY <1>1, <1>4, <2>1 DEF RootOf
<1> QED
  BY <1>1, <1>2, <1>3, <1>4, <1>5, <1>6, <1>7, <1>8, <1>9, <1>10, ForestByNode DEF Clear

(* The end of a list of arguments.                                         *)
LEMMA ForestByEndOfList ==
  ASSUME HInv, Forest, EndOfList
  PROVE  Forest'
<1> DEFINE c == [Top EXCEPT !.current = New, !.step = "postfix"]
<1>1. OInv /\ TInv /\ TypeOK /\ calls # <<>> /\ result = 0 /\ Top.step = "list" /\ value = Close
  BY DEF HInv, EInv, OInv, TInv, EndOfList, At
<1>2. TypeOK' /\ TokenTaken /\ TopBecomes(c) /\ \E kind \in {"call", "array"} : NodeMade(Node(kind, Top.open, <<>>, Top.list))
  BY <1>1, EndOfListIs
<1>3. PICK n : /\ NodeMade(n) /\ n.kind \in {"call", "array"} /\ n.at = Top.open /\ n.before = <<>> /\ n.after = Top.list
  BY <1>2, KindIs
<1>4. /\ c.ops = Top.ops /\ c.from = Top.from /\ c.current = New /\ c.step = "postfix"
      /\ c.parts = Top.parts /\ c.dot = Top.dot
  BY <1>1, TopIs DEF CallSet
<1> HIDE DEF c
<1>5. Quiet
  BY <1>1, <1>2, <1>3, QuietBy DEF EndOfList
<1>6. /\ Len(read) \in Nat \ {0} /\ Len(read') = Len(read) + 1
  BY <1>1, <1>2, StateIs DEF TokenTaken
<1>7. PICK lo, hi : Laid(lo, hi)
  BY DEF Forest
<1>8. /\ Clear(Top, Top.open, nodes, hi) /\ Top.open \in 1 .. Len(read) - 1
  BY <1>1, <1>7, ClearAtOpen, BeginsAtOpen DEF Opened, Outer
<1>9. /\ InHand(Top, nodes, lo, hi, Waiting, Len(read)) /\ Top \in CallSet(Len(read), Len(nodes))
  BY <1>1, <1>7, TopInHand DEF TopLimit
<1>10. /\ Top.list \in Seq(1 .. Len(nodes)) /\ \A i \in 1 .. Len(Top.list) : Top.list[i] \in 1 .. Len(nodes)
       /\ <<>> \in Seq(1 .. Len(nodes)) /\ Len(<<>>) = 0
  BY <1>9 DEF CallSet
<1>11. Covers(n, Top.open, lo, hi, Waiting, Len(read'))
  <2>1. ASSUME NEW i \in 1 .. Len(Top.list)
        PROVE  Top.list[i] \notin Waiting /\ Top.open < lo[Top.list[i]] /\ hi[Top.list[i]] < Len(read')
    <3>1. Top.list[i] \notin Waiting /\ Top.open < lo[Top.list[i]] /\ hi[Top.list[i]] < Len(read)
      BY <1>1, <1>9 DEF InHand
    <3>2. hi[Top.list[i]] \in Nat
      BY <1>1, <1>7, <1>10, LaidIs
    <3> QED
      BY <1>6, <3>1, <3>2
  <2>2. \A i, j \in 1 .. Len(Top.list) : i < j => hi[Top.list[i]] < lo[Top.list[j]]
    BY <1>1, <1>9 DEF InHand
  <2>3. 1 <= Top.open /\ Top.open <= n.at /\ n.at < Len(read')
    BY <1>3, <1>6, <1>8
  <2> QED
    BY <1>3, <1>10, <2>1, <2>2, <2>3 DEF Covers
<1>12. SameOps(c) /\ Taken(c)
  <2>1. value \notin OwnNode
    BY <1>1 DEF Close, OwnNode
  <2> QED
    BY <1>2, <1>4, <2>1 DEF SameOps, Taken
<1>13. \A m \in 1 .. Len(nodes) : m = result \/ RootOf(Top, m) => RootOf(c, m) \/ LinkedBy(n, m)
  <2>1. Top.current = 0
    BY <1>1, TopInHand, <1>7 DEF Held
  <2> QED
    BY <1>1, <1>3, <1>4, <2>1 DEF RootOf, LinkedBy
<1>14. n.at \in Nat /\ Top.open \in Nat /\ n.kind \notin {"operation", "if"}
  BY <1>3, <1>8
<1> QED
  BY <1>2, <1>3, <1>4, <1>5, <1>7, <1>8, <1>10, <1>11, <1>12, <1>13, <1>14, ForestByNode DEF Clear

(* The end of a block.                                                     *)
LEMMA ForestByBlockDone ==
  ASSUME HInv, Forest, BlockDone
  PROVE  Forest'
<1> DEFINE c == [Top EXCEPT !.current = New, !.step = "postfix"]
           n == Node("block", Top.open, <<>>, <<result>>)
<1>1. OInv /\ TInv /\ TypeOK /\ calls # <<>> /\ result # 0 /\ result' = 0 /\ Top.step = "block"
  BY DEF HInv, EInv, OInv, TInv, BlockDone, Waits
<1>2. TypeOK' /\ TokenTaken /\ TopBecomes(c) /\ NodeMade(n)
  BY <1>1, BlockDoneIs
<1>3. /\ n.kind = "block" /\ n.at = Top.open /\ n.before = <<>> /\ n.after = <<result>>
  BY KindIs
<1>4. /\ c.ops = Top.ops /\ c.from = Top.from /\ c.current = New /\ c.step = "postfix"
      /\ c.parts = Top.parts /\ c.dot = Top.dot
  BY <1>1, TopIs DEF CallSet
<1> HIDE DEF c, n
<1>5. Quiet
  BY <1>1, <1>2, <1>3, QuietBy DEF BlockDone
<1>6. /\ Len(read) \in Nat \ {0} /\ Len(read') = Len(read) + 1
  BY <1>1, <1>2, StateIs DEF TokenTaken
<1>7. PICK lo, hi : Laid(lo, hi)
  BY DEF Forest
<1>8. /\ Clear(Top, Top.open, nodes, hi) /\ Top.open \in 1 .. Len(read) - 1 /\ Top.open < lo[result]
  BY <1>1, <1>7, ClearAtOpen, BeginsAtOpen DEF Opened, Outer
<1>9. /\ result \in 1 .. Len(nodes) /\ result \notin Waiting /\ hi[result] < Len(read) /\ hi[result] \in Nat
  BY <1>1, <1>7, ResultIs
<1>10. /\ <<result>> \in Seq(1 .. Len(nodes)) /\ <<>> \in Seq(1 .. Len(nodes)) /\ Len(<<>>) = 0
       /\ Len(<<result>>) = 1 /\ <<result>>[1] = result
  BY <1>9
<1>11. Covers(n, Top.open, lo, hi, Waiting, Len(read'))
  <2>1. hi[result] < Len(read')
    BY <1>6, <1>9
  <2>2. 1 <= Top.open /\ Top.open <= n.at /\ n.at < Len(read')
    BY <1>3, <1>6, <1>8
  <2> QED
    BY <1>3, <1>8, <1>9, <1>10, <2>1, <2>2 DEF Covers
<1>12. SameOps(c) /\ Taken(c)
  <2>1. value \notin OwnNode
    BY <1>1 DEF Forest, Made
  <2> QED
    BY <1>2, <1>4, <2>1 DEF SameOps, Taken
<1>13. \A m \in 1 .. Len(nodes) : m = result \/ RootOf(Top, m) => RootOf(c, m) \/ LinkedBy(n, m)
  <2>1. Top.current = 0
    BY <1>1, TopInHand, <1>7 DEF Held
  <2> QED
    BY <1>1, <1>3, <1>4, <1>10, <2>1 DEF RootOf, LinkedBy
<1>14. n.at \in Nat /\ Top.open \in Nat /\ n.kind \notin {"operation", "if"}
  BY <1>3, <1>8
<1> QED
  BY <1>1, <1>2, <1>3, <1>4, <1>5, <1>7, <1>8, <1>10, <1>11, <1>12, <1>13, <1>14, ForestByNode DEF Clear

(* The parts of a dotted operand.                                          *)
LEMMA TailIs ==
  ASSUME NEW S, NEW q \in Seq(S), q # <<>>
  PROVE  /\ Tail(q) \in Seq(S) /\ Len(Tail(q)) = Len(q) - 1 /\ Len(q) \in Nat \ {0}
         /\ \A i \in 1 .. Len(q) - 1 : Tail(q)[i] = q[i + 1]
OBVIOUS

(* What comes behind the dot, in the order of the tokens.                  *)
Behinds(a, lo, hi, r) ==
  /\ \A i \in 1 .. Len(a) : a[i] \notin Waiting /\ Top.dot < lo[a[i]] /\ hi[a[i]] < r
  /\ \A i, j \in 1 .. Len(a) : i < j => hi[a[i]] < lo[a[j]]

LEMMA PartsAre ==
  ASSUME TInv, calls # <<>>, NEW lo, NEW hi, Laid(lo, hi), Top.dot # 0, NEW r,
         \A i \in 1 .. Len(Top.parts) : hi[Top.parts[i]] < r
  PROVE  /\ PartsAlone \in Seq(1 .. Len(nodes)) /\ Len(PartsAlone) = Len(Top.parts) - 1
         /\ Len(Top.parts) \in Nat \ {0} /\ \A i \in 1 .. Len(Top.parts) - 1 : PartsAlone[i] = Top.parts[i + 1]
         /\ Behinds(PartsAlone, lo, hi, r)
         /\ \A i \in 1 .. Len(Top.parts) : i = 1 \/ \E j \in 1 .. Len(PartsAlone) : PartsAlone[j] = Top.parts[i]
<1>1. Top \in CallSet(Len(read), Len(nodes)) /\ Held(Top)
  BY TopInHand
<1>2. Top.parts \in Seq(1 .. Len(nodes)) /\ Top.parts # <<>>
  BY <1>1 DEF CallSet, Held
<1>3. /\ PartsAlone \in Seq(1 .. Len(nodes)) /\ Len(PartsAlone) = Len(Top.parts) - 1 /\ Len(Top.parts) \in Nat \ {0}
      /\ \A i \in 1 .. Len(Top.parts) - 1 : PartsAlone[i] = Top.parts[i + 1]
  BY <1>2, TailIs DEF PartsAlone
<1>4. PICK k : k = Len(Top.parts)
  OBVIOUS
<1>5. ASSUME NEW i \in 1 .. k - 1
      PROVE  /\ PartsAlone[i] = Top.parts[i + 1] /\ i + 1 \in 1 .. k
             /\ Top.parts[i + 1] \notin Waiting /\ Top.dot < lo[Top.parts[i + 1]] /\ hi[Top.parts[i + 1]] < r
             /\ \A j \in 1 .. k : i + 1 < j => hi[Top.parts[i + 1]] < lo[Top.parts[j]]
  <2>1. i + 1 \in 1 .. Len(Top.parts) /\ i + 1 # 1
    BY <1>3, <1>4
  <2> QED
    BY <1>3, <1>4, <2>1, PartIs
<1>6. \A i, j \in 1 .. k - 1 : i < j => hi[PartsAlone[i]] < lo[PartsAlone[j]]
  <2> SUFFICES ASSUME NEW i \in 1 .. k - 1, NEW j \in 1 .. k - 1, i < j
               PROVE  hi[PartsAlone[i]] < lo[PartsAlone[j]]
    OBVIOUS
  <2>1. i + 1 < j + 1 /\ j + 1 \in 1 .. k
    BY <1>5
  <2> QED
    BY <1>5, <2>1
<1>7. ASSUME NEW i \in 1 .. k, i # 1 PROVE \E j \in 1 .. k - 1 : PartsAlone[j] = Top.parts[i]
  <2>1. i - 1 \in 1 .. k - 1 /\ (i - 1) + 1 = i
    BY <1>3, <1>4, <1>7
  <2> QED
    BY <1>5, <2>1
<1> QED
  BY <1>3, <1>4, <1>5, <1>6, <1>7 DEF Behinds

LEMMA PartsWithCurrent ==
  ASSUME TInv, calls # <<>>, NEW lo, NEW hi, Laid(lo, hi), Top.dot # 0, Top.current # 0, NEW r \in Nat, hi[Top.current] < r
  PROVE  /\ PartsAndCurrent \in Seq(1 .. Len(nodes)) /\ Behinds(PartsAndCurrent, lo, hi, r)
         /\ \A i \in 1 .. Len(Top.parts) : i = 1 \/ \E j \in 1 .. Len(PartsAndCurrent) : PartsAndCurrent[j] = Top.parts[i]
         /\ \E j \in 1 .. Len(PartsAndCurrent) : PartsAndCurrent[j] = Top.current
<1>1. /\ Top.current \in 1 .. Len(nodes) /\ Top.current \notin Waiting /\ Clear(Top, lo[Top.current], nodes, hi)
      /\ lo[Top.current] \in Nat /\ lo[Top.current] <= hi[Top.current] /\ hi[Top.current] \in Nat
  BY CurrentIs, LaidIs
<1>2. \A i \in 1 .. Len(Top.parts) : hi[Top.parts[i]] < r
  <2> SUFFICES ASSUME NEW i \in 1 .. Len(Top.parts) PROVE hi[Top.parts[i]] < r
    OBVIOUS
  <2>1. hi[Top.parts[i]] < lo[Top.current] /\ hi[Top.parts[i]] \in Nat
    BY <1>1, PartIs DEF Clear
  <2> QED
    BY <1>1, <2>1
<1>3. PICK p : p = PartsAlone
  OBVIOUS
<1>13. /\ PartsAlone \in Seq(1 .. Len(nodes)) /\ Len(PartsAlone) = Len(Top.parts) - 1
       /\ Len(Top.parts) \in Nat \ {0} /\ \A i \in 1 .. Len(Top.parts) - 1 : PartsAlone[i] = Top.parts[i + 1]
       /\ Behinds(PartsAlone, lo, hi, r)
       /\ \A i \in 1 .. Len(Top.parts) : i = 1 \/ \E j \in 1 .. Len(PartsAlone) : PartsAlone[j] = Top.parts[i]
  BY <1>2, PartsAre
<1>4. /\ p \in Seq(1 .. Len(nodes)) /\ Len(p) = Len(Top.parts) - 1 /\ Behinds(p, lo, hi, r) /\ Len(p) \in Nat
      /\ \A i \in 1 .. Len(Top.parts) - 1 : p[i] = Top.parts[i + 1]
      /\ \A i \in 1 .. Len(Top.parts) : i = 1 \/ \E j \in 1 .. Len(p) : p[j] = Top.parts[i]
  <2>1. Len(p) = Len(Top.parts) - 1 /\ Len(Top.parts) \in Nat \ {0}
    BY <1>3, <1>13
  <2>2. Len(p) \in Nat
    BY <2>1
  <2>3. p \in Seq(1 .. Len(nodes)) /\ Behinds(p, lo, hi, r)
    BY <1>3, <1>13
  <2>4. \A i \in 1 .. Len(Top.parts) - 1 : p[i] = Top.parts[i + 1]
    BY <1>3, <1>13
  <2>5. \A i \in 1 .. Len(Top.parts) : i = 1 \/ \E j \in 1 .. Len(p) : p[j] = Top.parts[i]
    BY <1>3, <1>13
  <2> QED
    BY <2>1, <2>2, <2>3, <2>4, <2>5
<1>5. PICK a : a = PartsAndCurrent
  OBVIOUS
<1>6. /\ a \in Seq(1 .. Len(nodes)) /\ Len(a) = Len(p) + 1 /\ a[Len(p) + 1] = Top.current
      /\ \A i \in 1 .. Len(p) : a[i] = p[i]
  <2>1. a = Append(p, Top.current)
    BY <1>3, <1>5 DEF PartsAlone, PartsAndCurrent
  <2> QED
    BY <1>1, <1>4, <2>1, AppendIs
<1>7. \A i \in 1 .. Len(p) : hi[p[i]] < lo[Top.current]
  <2> SUFFICES ASSUME NEW i \in 1 .. Len(p) PROVE hi[p[i]] < lo[Top.current]
    OBVIOUS
  <2>1. i \in 1 .. Len(Top.parts) - 1 /\ i + 1 \in 1 .. Len(Top.parts)
    BY <1>4
  <2> QED
    BY <1>1, <1>4, <2>1 DEF Clear
<1>8. \A i \in 1 .. Len(a) : a[i] \notin Waiting /\ Top.dot < lo[a[i]] /\ hi[a[i]] < r
  <2> SUFFICES ASSUME NEW i \in 1 .. Len(a) PROVE a[i] \notin Waiting /\ Top.dot < lo[a[i]] /\ hi[a[i]] < r
    OBVIOUS
  <2>1. i \in 1 .. Len(p) \/ i = Len(p) + 1
    BY <1>4, <1>6
  <2> QED
    BY <1>1, <1>4, <1>6, <2>1 DEF Behinds, Clear
<1>9. \A i, j \in 1 .. Len(a) : i < j => hi[a[i]] < lo[a[j]]
  <2> SUFFICES ASSUME NEW i \in 1 .. Len(a), NEW j \in 1 .. Len(a), i < j PROVE hi[a[i]] < lo[a[j]]
    OBVIOUS
  <2>1. i \in 1 .. Len(p) /\ (j \in 1 .. Len(p) \/ j = Len(p) + 1)
    BY <1>4, <1>6, SMTT(30)
  <2> QED
    BY <1>4, <1>6, <1>7, <2>1 DEF Behinds
<1>10. \A j \in 1 .. Len(p) : j \in 1 .. Len(a)
  BY <1>4, <1>6
<1>11. Len(p) + 1 \in 1 .. Len(a)
  BY <1>4, <1>6
<1>12. \A i \in 1 .. Len(Top.parts) : i = 1 \/ \E j \in 1 .. Len(a) : a[j] = Top.parts[i]
  BY <1>4, <1>6, <1>10
<1> QED
  BY <1>5, <1>6, <1>8, <1>9, <1>11, <1>12 DEF Behinds

IsDotted(n, a) == n.kind = "dotted" /\ n.at = Top.dot /\ n.before = <<Top.parts[1]>> /\ n.after = a

LEMMA DottedCovers ==
  ASSUME TInv, calls # <<>>, NEW lo, NEW hi, Laid(lo, hi), Top.dot # 0, NEW r \in Nat, Top.dot < r,
         NEW a, Behinds(a, lo, hi, r), NEW n, IsDotted(n, a)
  PROVE  /\ Covers(n, lo[Top.parts[1]], lo, hi, Waiting, r) /\ lo[Top.parts[1]] \in Nat
         /\ Begins(Top, lo[Top.parts[1]], nodes) /\ n.before \in Seq(1 .. Len(nodes)) /\ Top.dot \in Nat
<1>1. Top \in CallSet(Len(read), Len(nodes)) /\ Held(Top)
  BY TopInHand
<1>2. Top.parts \in Seq(1 .. Len(nodes)) /\ Top.parts # <<>> /\ Top.dot \in Nat
  BY <1>1, PartsOf, CallIs DEF CallSet, Held
<1>3. 1 \in 1 .. Len(Top.parts)
  BY <1>2
<1>4. /\ Top.parts[1] \in 1 .. Len(nodes) /\ Top.parts[1] \notin Waiting
      /\ lo[Top.parts[1]] \in Nat \ {0} /\ Begins(Top, lo[Top.parts[1]], nodes)
      /\ hi[Top.parts[1]] < Top.dot /\ hi[Top.parts[1]] \in Nat /\ lo[Top.parts[1]] <= hi[Top.parts[1]]
  <2>1. /\ Top.parts[1] \in 1 .. Len(nodes) /\ Top.parts[1] \notin Waiting
        /\ lo[Top.parts[1]] \in Nat \ {0} /\ Begins(Top, lo[Top.parts[1]], nodes)
        /\ hi[Top.parts[1]] < Top.dot /\ hi[Top.parts[1]] \in Nat
    BY <1>3, PartIs
  <2>2. lo[Top.parts[1]] <= nodes[Top.parts[1]].at /\ nodes[Top.parts[1]].at <= hi[Top.parts[1]] /\ nodes[Top.parts[1]].at \in Nat
    BY <2>1, LaidIs
  <2> QED
    BY <2>1, <2>2
<1>5. Len(n.before) = 1 /\ n.before[1] = Top.parts[1] /\ n.before \in Seq(1 .. Len(nodes))
  BY <1>4 DEF IsDotted
<1>6. 1 <= lo[Top.parts[1]] /\ lo[Top.parts[1]] <= n.at /\ n.at < r
  BY <1>2, <1>4 DEF IsDotted
<1>7. \A i \in 1 .. Len(n.before) : n.before[i] \notin Waiting /\ lo[Top.parts[1]] <= lo[n.before[i]] /\ hi[n.before[i]] < n.at
  BY <1>4, <1>5 DEF IsDotted
<1> QED
  BY <1>2, <1>4, <1>5, <1>6, <1>7 DEF Covers, Behinds, IsDotted

(* A dotted operand is complete.                                           *)
LEMMA ForestByDotted ==
  ASSUME HInv, Forest, TypeOK', Quiet, UNCHANGED read, result = 0, Top.dot # 0, Top.step # "list",
         NEW a, a \in Seq(1 .. Len(nodes)), NodeMade(Node("dotted", Top.dot, <<Top.parts[1]>>, a)), TopBecomes(WholeTop),
         NEW lo, NEW hi, Laid(lo, hi), Behinds(a, lo, hi, Len(read)),
         \A i \in 1 .. Len(Top.parts) : i = 1 \/ \E j \in 1 .. Len(a) : a[j] = Top.parts[i],
         Top.current # 0 => \E j \in 1 .. Len(a) : a[j] = Top.current
  PROVE  Forest'
<1>1. TInv /\ TypeOK /\ calls # <<>>
  BY DEF HInv, EInv, OInv, TInv, Quiet
<1>2. PICK n : n = Node("dotted", Top.dot, <<Top.parts[1]>>, a)
  OBVIOUS
<1>3. /\ NodeMade(n) /\ n.kind = "dotted" /\ n.at = Top.dot /\ n.before = <<Top.parts[1]>> /\ n.after = a
  BY <1>2, KindIs
<1>4. /\ Top \in CallSet(Len(read), Len(nodes)) /\ WholeTop.ops = Top.ops /\ WholeTop.from = Top.from /\ WholeTop.current = New
      /\ WholeTop.step = "operator" /\ WholeTop.parts = <<>> /\ WholeTop.dot = 0
  BY <1>1, TopIs DEF WholeTop, CallSet
<1>5. PICK c : c = WholeTop
  OBVIOUS
<1>6. /\ SameOps(c) /\ Taken(c) /\ TopBecomes(c) /\ c.current = New /\ c.step = "operator" /\ c.parts = <<>> /\ c.dot = 0
      /\ c.ops = Top.ops
  BY <1>4, <1>5 DEF SameOps, Taken
<1>7. PICK s : s = lo[Top.parts[1]]
  OBVIOUS
<1>8. Top.dot < Len(read) /\ Len(read) \in Nat
  BY <1>1, ClearAtEnd, PartsOf DEF Clear
<1>9. /\ Covers(n, s, lo, hi, Waiting, Len(read)) /\ s \in Nat /\ Begins(Top, s, nodes)
      /\ n.before \in Seq(1 .. Len(nodes)) /\ n.at \in Nat
  <2>1. PICK r : r = Len(read)
    OBVIOUS
  <2>2. r \in Nat /\ Top.dot < r /\ Behinds(a, lo, hi, r)
    BY <1>8, <2>1
  <2>4. IsDotted(n, a)
    BY <1>3 DEF IsDotted
  <2>3. /\ Covers(n, lo[Top.parts[1]], lo, hi, Waiting, r) /\ lo[Top.parts[1]] \in Nat
        /\ Begins(Top, lo[Top.parts[1]], nodes) /\ n.before \in Seq(1 .. Len(nodes)) /\ Top.dot \in Nat
    BY <1>1, <2>2, <2>4, DottedCovers
  <2> QED
    BY <1>3, <1>7, <2>1, <2>3
<1>10. Covers(n, s, lo, hi, Waiting, Len(read'))
  BY <1>9
<1>11. \A m \in 1 .. Len(nodes) : m = result \/ RootOf(Top, m) => RootOf(c, m) \/ LinkedBy(n, m)
  <2> SUFFICES ASSUME NEW m \in 1 .. Len(nodes), RootOf(Top, m) PROVE RootOf(c, m) \/ LinkedBy(n, m)
    OBVIOUS
  <2>1. CASE Top.ops # <<>> /\ Top.ops[1] = m
    BY <1>6, <2>1 DEF RootOf
  <2>2. CASE Top.current = m
    BY <1>3, <2>2 DEF LinkedBy
  <2>3. CASE \E i \in 1 .. Len(Top.parts) : Top.parts[i] = m
    <3>1. Len(<<Top.parts[1]>>) = 1 /\ <<Top.parts[1]>>[1] = Top.parts[1]
      OBVIOUS
    <3>2. PICK i \in 1 .. Len(Top.parts) : Top.parts[i] = m
      BY <2>3
    <3>3. CASE i = 1
      BY <1>3, <3>1, <3>2, <3>3 DEF LinkedBy
    <3>4. CASE i # 1
      BY <1>3, <3>2, <3>4 DEF LinkedBy
    <3> QED
      BY <3>3, <3>4
  <2> QED
    BY <2>1, <2>2, <2>3 DEF RootOf
<1> QED
  BY <1>3, <1>6, <1>9, <1>10, <1>11, ForestByNode

LEMMA ForestByDotAtEnd ==
  ASSUME HInv, Forest, DotAtEnd
  PROVE  Forest'
<1>1. OInv /\ TInv /\ TypeOK /\ calls # <<>> /\ result = 0 /\ Top.step = "symbol" /\ Top.dot # 0
  BY DEF HInv, EInv, OInv, TInv, DotAtEnd, At
<1>2. TypeOK' /\ TopBecomes(WholeTop) /\ NodeMade(Node("dotted", Top.dot, <<Top.parts[1]>>, PartsAlone))
  BY <1>1, DotAtEndIs
<1>3. Node("dotted", Top.dot, <<Top.parts[1]>>, PartsAlone).kind = "dotted"
  BY KindIs
<1>4. Quiet /\ UNCHANGED read
  BY <1>1, <1>2, <1>3, QuietBy DEF DotAtEnd
<1>5. PICK lo, hi : Laid(lo, hi)
  BY DEF Forest
<1>6. Clear(Top, Len(read), nodes, hi) /\ Top.current = 0
  BY <1>1, <1>5, ClearAtEnd, TopInHand DEF Held
<1>7. PICK a : a = PartsAlone
  OBVIOUS
<1>8. /\ a \in Seq(1 .. Len(nodes)) /\ Behinds(a, lo, hi, Len(read))
      /\ \A i \in 1 .. Len(Top.parts) : i = 1 \/ \E j \in 1 .. Len(a) : a[j] = Top.parts[i]
  BY <1>1, <1>5, <1>6, <1>7, PartsAre DEF Clear
<1> QED
  BY <1>1, <1>2, <1>4, <1>5, <1>6, <1>7, <1>8, ForestByDotted

(* A turn that makes no node.                                              *)
LEMMA ForestByMove ==
  ASSUME HInv, TypeOK', Quiet, Forest, UNCHANGED nodes, NEW lo, NEW hi, Laid(lo, hi),
         NEW c, TopBecomes(c), SameOps(c), Taken(c),
         Top.step = "list" => c.step = "list" /\ c.open = Top.open,
         \A n \in 1 .. Len(nodes) : n = result \/ RootOf(Top, n) => RootOf(c, n),
         InHand(c, nodes, lo, hi, Waiting, Len(read'))
  PROVE  Forest'
<1>1. TInv /\ TypeOK /\ calls # <<>> /\ Len(nodes) \in Nat
  BY StateIs DEF HInv, EInv, OInv, TInv, Quiet
<1>2. lo \in [1 .. Len(nodes') -> Nat] /\ hi \in [1 .. Len(nodes') -> Nat] /\ Extends(Len(nodes), lo, hi, lo, hi)
  BY <1>1, LaidIs DEF Extends
<1>3. ~ \E n : n \in Len(nodes) + 1 .. Len(nodes')
  BY <1>1
<1>4. Moves(c)
  BY <1>3 DEF Moves
<1> QED
  BY <1>2, <1>3, <1>4, ForestByTurn

LEMMA ForestByEndOfSymbol ==
  ASSUME HInv, Forest, EndOfSymbol
  PROVE  Forest'
<1>1. OInv /\ TInv /\ TypeOK /\ calls # <<>> /\ result = 0 /\ Top.step = "postfix" /\ UNCHANGED read
  BY DEF HInv, EInv, OInv, TInv, EndOfSymbol, At
<1>2. TypeOK' /\ \/ Top.dot = 0 /\ UNCHANGED nodes /\ TopBecomes(PlainTop)
                 \/ Top.dot # 0 /\ NodeMade(Dotted) /\ TopBecomes(WholeTop)
  BY <1>1, EndOfSymbolIs
<1>3. PICK lo, hi : Laid(lo, hi)
  BY DEF Forest
<1>4. Top.current # 0 /\ Held(Top) /\ Top \in CallSet(Len(read), Len(nodes))
  BY <1>1, <1>3, TopInHand DEF Held
<1>5. hi[Top.current] < Len(read) /\ Len(read) \in Nat
  BY <1>1, <1>3, <1>4, CurrentIs, PartsOf
<1>6. CASE Top.dot = 0 /\ UNCHANGED nodes /\ TopBecomes(PlainTop)
  <2>1. /\ PlainTop.ops = Top.ops /\ PlainTop.from = Top.from /\ PlainTop.current = Top.current /\ PlainTop.step = "operator"
        /\ PlainTop.parts = Top.parts /\ PlainTop.dot = Top.dot
    BY <1>4 DEF PlainTop, CallSet
  <2>2. PICK c : c = PlainTop
    OBVIOUS
  <2>3. Quiet
    BY <1>1, <1>6, QuietBy DEF EndOfSymbol
  <2>4. InHand(Top, nodes, lo, hi, Waiting, Len(read))
    BY <1>1, <1>3, TopInHand DEF TopLimit
  <2>5. InHand(c, nodes, lo, hi, Waiting, Len(read'))
    BY <1>1, <2>1, <2>2, <2>4 DEF InHand, Lies, Outer, Opened
  <2>6. SameOps(c) /\ Taken(c) /\ TopBecomes(c) /\ Top.step # "list"
    BY <1>1, <1>6, <2>1, <2>2 DEF SameOps, Taken
  <2>7. \A n \in 1 .. Len(nodes) : n = result \/ RootOf(Top, n) => RootOf(c, n)
    BY <1>1, <2>1, <2>2 DEF RootOf
  <2> QED
    BY <1>2, <1>3, <1>6, <2>3, <2>5, <2>6, <2>7, ForestByMove
<1>7. CASE Top.dot # 0 /\ NodeMade(Dotted) /\ TopBecomes(WholeTop)
  <2>1. Dotted = Node("dotted", Top.dot, <<Top.parts[1]>>, PartsAndCurrent) /\ Dotted.kind = "dotted"
    BY KindIs DEF Dotted
  <2>2. Quiet
    BY <1>1, <1>7, <2>1, QuietBy DEF EndOfSymbol
  <2>3. PICK a : a = PartsAndCurrent
    OBVIOUS
  <2>4. /\ a \in Seq(1 .. Len(nodes)) /\ Behinds(a, lo, hi, Len(read))
        /\ \A i \in 1 .. Len(Top.parts) : i = 1 \/ \E j \in 1 .. Len(a) : a[j] = Top.parts[i]
        /\ \E j \in 1 .. Len(a) : a[j] = Top.current
    BY <1>1, <1>3, <1>4, <1>5, <1>7, <2>3, PartsWithCurrent
  <2>5. Top.step # "list" /\ NodeMade(Node("dotted", Top.dot, <<Top.parts[1]>>, a))
    BY <1>1, <1>7, <2>1, <2>3
  <2> QED
    BY <1>1, <1>2, <1>3, <1>7, <2>2, <2>4, <2>5, ForestByDotted
<1> QED
  BY <1>2, <1>6, <1>7

(* A sign, and the start of a list.                                        *)
LEMMA ForestBySign ==
  ASSUME HInv, Forest, Sign
  PROVE  Forest'
<1> DEFINE c == [Top EXCEPT !.step = "signed", !.neg = TRUE]
<1>1. OInv /\ TInv /\ TypeOK /\ calls # <<>> /\ result = 0 /\ Top.step = "symbol" /\ UNCHANGED nodes /\ value \in Signs
  BY DEF HInv, EInv, OInv, TInv, Sign, At
<1>2. TypeOK' /\ TokenTaken /\ TopBecomes(c)
  BY <1>1, SignIs
<1>3. PICK lo, hi : Laid(lo, hi)
  BY DEF Forest
<1>4. Top \in CallSet(Len(read), Len(nodes))
  BY <1>1, TopIs
<1>5. /\ c.ops = Top.ops /\ c.from = Top.from /\ c.current = Top.current /\ c.step = "signed"
      /\ c.parts = Top.parts /\ c.dot = Top.dot
  BY <1>4 DEF CallSet
<1> HIDE DEF c
<1>6. Quiet
  BY <1>1, <1>2, QuietBy DEF Sign
<1>7. InHand(Top, nodes, lo, hi, Waiting, Len(read'))
  <2>1. Extends(Len(nodes), lo, hi, lo, hi)
    BY DEF Extends
  <2>2. InHand(Top, nodes', lo, hi, Waiting, Len(read'))
    BY <1>1, <1>2, <1>3, <1>6, <2>1, TopInHandStill
  <2> QED
    BY <1>1, <2>2
<1>8. InHand(c, nodes, lo, hi, Waiting, Len(read'))
  BY <1>1, <1>5, <1>7 DEF InHand, Lies, Outer, Opened
<1>9. SameOps(c) /\ Taken(c) /\ Top.step # "list"
  <2>1. value \notin OwnNode
    BY <1>1, MkExprAssumption DEF OwnNode
  <2> QED
    BY <1>1, <1>2, <1>5, <2>1 DEF SameOps, Taken
<1>10. \A n \in 1 .. Len(nodes) : n = result \/ RootOf(Top, n) => RootOf(c, n)
  BY <1>1, <1>5 DEF RootOf
<1> QED
  BY <1>1, <1>2, <1>3, <1>6, <1>8, <1>9, <1>10, ForestByMove

LEMMA ForestByList ==
  ASSUME HInv, Forest, List
  PROVE  Forest'
<1>1. OInv /\ TInv /\ TypeOK /\ calls # <<>> /\ result = 0 /\ Top.step \in {"symbol", "signed"} /\ UNCHANGED nodes
  BY DEF HInv, EInv, OInv, TInv, List, Unsigned, At
<1>2. PICK c : c = Opens("list")
  OBVIOUS
<1>3. TypeOK' /\ TokenTaken /\ TopBecomes(c)
  BY <1>1, <1>2, ListIs
<1>4. PICK lo, hi : Laid(lo, hi)
  BY DEF Forest
<1>5. /\ c.ops = Top.ops /\ c.from = Top.from /\ c.current = Top.current /\ c.step = "list" /\ c.open = Len(read)
      /\ c.parts = Top.parts /\ c.dot = Top.dot /\ c.list = <<>> /\ Len(<<>>) = 0 /\ Top.current = 0
  BY <1>1, <1>2, <1>4, OpensIs, TopInHand DEF Steps, Held
<1>6. Quiet
  BY <1>1, <1>3, QuietBy DEF List
<1>7. InHand(Top, nodes, lo, hi, Waiting, Len(read')) /\ Len(read') = Len(read) + 1 /\ Len(read) \in Nat
  <2>1. Extends(Len(nodes), lo, hi, lo, hi)
    BY DEF Extends
  <2>2. InHand(Top, nodes', lo, hi, Waiting, Len(read'))
    BY <1>1, <1>3, <1>4, <1>6, <2>1, TopInHandStill
  <2> QED
    BY <1>1, <1>3, <2>2, PartsOf DEF TokenTaken
<1>8. Clear(Top, Len(read), nodes, hi)
  BY <1>1, <1>4, ClearAtEnd
<1>9. InHand(c, nodes, lo, hi, Waiting, Len(read'))
  <2>1. \A i \in 1 .. Len(c.parts) : Lies(c.parts[i], c, nodes, lo, hi, Waiting, Len(read'))
    BY <1>5, <1>7 DEF InHand, Lies
  <2>2. c.open < Len(read') /\ \A i \in 1 .. Len(c.ops) : nodes[c.ops[i]].at < c.open
    BY <1>5, <1>7, <1>8 DEF Clear, Begins
  <2>3. c.dot < c.open /\ \A i \in 1 .. Len(c.parts) : hi[c.parts[i]] < c.open
    BY <1>5, <1>8 DEF Clear
  <2> QED
    BY <1>5, <1>7, <2>1, <2>2, <2>3 DEF InHand
<1>10. SameOps(c) /\ Taken(c) /\ Top.step # "list"
  BY <1>1, <1>3, <1>5 DEF SameOps, Taken
<1>11. \A n \in 1 .. Len(nodes) : n = result \/ RootOf(Top, n) => RootOf(c, n)
  BY <1>1, <1>5 DEF RootOf
<1> QED
  BY <1>1, <1>3, <1>4, <1>6, <1>9, <1>10, <1>11, ForestByMove

(* A dot: what is in hand becomes a part.                                  *)
LEMMA ForestByDot ==
  ASSUME HInv, Forest, Dot
  PROVE  Forest'
<1>1. OInv /\ TInv /\ TypeOK /\ calls # <<>> /\ result = 0 /\ Top.step = "postfix" /\ UNCHANGED nodes /\ value = "."
  BY DEF HInv, EInv, OInv, TInv, Dot, At
<1>2. PICK c : c = DottedTop
  OBVIOUS
<1>3. TypeOK' /\ TokenTaken /\ TopBecomes(c)
  BY <1>1, <1>2, DotIs
<1>4. PICK lo, hi : Laid(lo, hi)
  BY DEF Forest
<1>5. /\ Top.current # 0 /\ Held(Top) /\ Top \in CallSet(Len(read), Len(nodes)) /\ InHand(Top, nodes, lo, hi, Waiting, Len(read))
      /\ Len(read') = Len(read) + 1 /\ Len(read) \in Nat \ {0}
  BY <1>1, <1>3, <1>4, TopInHand, PartsOf DEF Held, TokenTaken, TopLimit
<1>6. PICK k, p, q : k = Len(Top.parts) /\ p = Top.parts /\ q = c.parts
  OBVIOUS
<1>7. /\ c.ops = Top.ops /\ c.from = Top.from /\ c.current = 0 /\ c.step = "symbol"
      /\ c.dot = IF Top.dot = 0 THEN Len(read) ELSE Top.dot
      /\ q = Append(p, Top.current)
  BY <1>2, <1>5, <1>6 DEF DottedTop, CallSet
<1>8. /\ Top.current \in 1 .. Len(nodes) /\ Top.current \notin Waiting
      /\ lo[Top.current] \in Nat \ {0} /\ Clear(Top, lo[Top.current], nodes, hi)
      /\ hi[Top.current] < Len(read) /\ lo[Top.current] <= hi[Top.current] /\ hi[Top.current] \in Nat
  BY <1>1, <1>4, <1>5, CurrentIs, LaidIs
<1>9. /\ k \in Nat /\ Len(q) = k + 1 /\ q[k + 1] = Top.current /\ \A i \in 1 .. k : q[i] = p[i]
  <2>1. p \in Seq(1 .. Len(nodes)) /\ Len(p) = k
    BY <1>5, <1>6 DEF CallSet
  <2> QED
    BY <1>7, <1>8, <2>1, AppendIs
<1>10. \A i \in 1 .. Len(q) : i \in 1 .. k \/ i = k + 1
  BY <1>9
<1>11. Quiet
  BY <1>1, <1>3, QuietBy DEF Dot
<1>12. Top.dot \in Nat /\ Top.dot < lo[Top.current] /\ (Top.dot = 0 <=> k = 0)
  <2>1. Top.dot \in Nat /\ Len(Top.parts) \in Nat /\ (Top.parts # <<>> <=> Len(Top.parts) >= 1)
    BY <1>5, CallIs, PartsOf
  <2> QED
    BY <1>5, <1>6, <1>8, <2>1 DEF Held, Clear
<1>13. \A i \in 1 .. k : /\ p[i] \notin Waiting /\ Begins(Top, lo[p[i]], nodes) /\ hi[p[i]] < Len(read) /\ hi[p[i]] \in Nat
                         /\ IF i = 1 THEN hi[p[i]] < Top.dot ELSE Top.dot < lo[p[i]]
                         /\ hi[p[i]] < lo[Top.current]
                         /\ \A j \in 1 .. k : i < j => hi[p[i]] < lo[p[j]]
  BY <1>1, <1>4, <1>6, <1>8, PartIs DEF Clear
<1>14. ASSUME NEW i \in 1 .. Len(q)
       PROVE  /\ Lies(q[i], c, nodes, lo, hi, Waiting, Len(read'))
              /\ IF i = 1 THEN hi[q[i]] < c.dot ELSE c.dot < lo[q[i]]
  <2>1. CASE i \in 1 .. k
    <3>1. q[i] = p[i] /\ c.dot = Top.dot
      BY <1>7, <1>9, <1>12, <2>1
    <3>2. hi[p[i]] < Len(read')
      BY <1>5, <1>13, <2>1
    <3> QED
      BY <1>7, <1>13, <2>1, <3>1, <3>2 DEF Lies, Begins
  <2>2. CASE i = k + 1
    <3>1. q[i] = Top.current
      BY <1>9, <2>2
    <3>2. hi[Top.current] < Len(read')
      BY <1>5, <1>8
    <3>3. Lies(q[i], c, nodes, lo, hi, Waiting, Len(read'))
      BY <1>7, <1>8, <3>1, <3>2 DEF Lies, Clear, Begins
    <3>4. CASE Top.dot = 0
      <4>1. i = 1 /\ c.dot = Len(read)
        BY <1>7, <1>12, <2>2, <3>4
      <4> QED
        BY <1>8, <3>1, <3>3, <4>1
    <3>5. CASE Top.dot # 0
      <4>1. i # 1 /\ c.dot = Top.dot
        BY <1>7, <1>9, <1>12, <2>2, <3>5
      <4> QED
        BY <1>12, <3>1, <3>3, <4>1
    <3> QED
      BY <3>4, <3>5
  <2> QED
    BY <1>10, <2>1, <2>2
<1>15. ASSUME NEW i \in 1 .. Len(q), NEW j \in 1 .. Len(q), i < j PROVE hi[q[i]] < lo[q[j]]
  <2>1. i \in 1 .. k /\ (j \in 1 .. k \/ j = k + 1)
    BY <1>9, <1>15
  <2> QED
    BY <1>9, <1>13, <1>15, <2>1
<1>16. InHand(c, nodes, lo, hi, Waiting, Len(read'))
  <2>1. c.dot < Len(read')
    BY <1>5, <1>7, <1>8, <1>12
  <2>2. /\ c.ops # <<>> => c.from <= lo[c.ops[1]]
        /\ \A i \in 1 .. Len(c.ops) : nodes[c.ops[i]].at < Len(read')
    <3>1. \A i \in 1 .. Len(Top.ops) : nodes[Top.ops[i]].at < Len(read) /\ nodes[Top.ops[i]].at \in Nat
      <4>1. \A i \in 1 .. Len(Top.ops) : Top.ops[i] \in 1 .. Len(nodes)
        BY <1>5, CallIs, PartsOf
      <4> QED
        BY <1>1, <1>4, <1>5, <4>1, LaidIs
    <3> QED
      BY <1>5, <1>7, <3>1 DEF InHand
  <2>3. c.step \notin Outer /\ c.step \notin Opened /\ c.step # "index" /\ c.step # "list"
    BY <1>7 DEF Outer, Opened
  <2> QED
    BY <1>6, <1>7, <1>14, <1>15, <2>1, <2>2, <2>3 DEF InHand
<1>17. SameOps(c) /\ Taken(c) /\ Top.step # "list"
  BY <1>1, <1>3, <1>7 DEF SameOps, Taken, OwnNode
<1>18. ASSUME NEW m \in 1 .. Len(nodes), RootOf(Top, m) PROVE RootOf(c, m)
  <2>1. CASE Top.ops # <<>> /\ Top.ops[1] = m
    BY <1>7, <2>1 DEF RootOf
  <2>2. CASE Top.current = m
    <3>1. k + 1 \in 1 .. Len(c.parts) /\ c.parts[k + 1] = m
      BY <1>6, <1>9, <2>2
    <3> QED
      BY <3>1 DEF RootOf
  <2>3. CASE \E i \in 1 .. Len(Top.parts) : Top.parts[i] = m
    <3>1. PICK i \in 1 .. k : p[i] = m
      BY <1>6, <2>3
    <3>2. i \in 1 .. Len(c.parts) /\ c.parts[i] = m
      BY <1>6, <1>9, <3>1
    <3> QED
      BY <3>2 DEF RootOf
  <2> QED
    BY <1>1, <1>18, <2>1, <2>2, <2>3 DEF RootOf
<1>19. \A m \in 1 .. Len(nodes) : m = result \/ RootOf(Top, m) => RootOf(c, m)
  BY <1>1, <1>18
<1> QED
  BY <1>1, <1>3, <1>4, <1>11, <1>16, <1>17, <1>19, ForestByMove

(* An expression in parentheses is the operand.                            *)
LEMMA ForestByInnerDone ==
  ASSUME HInv, Forest, InnerDone
  PROVE  Forest'
<1>1. /\ OInv /\ TInv /\ TypeOK /\ calls # <<>> /\ result # 0 /\ result' = 0 /\ Top.step = "inner" /\ UNCHANGED nodes
  BY DEF HInv, EInv, OInv, TInv, InnerDone, Waits
<1>2. PICK c : c = InnerTop
  OBVIOUS
<1>3. TypeOK' /\ TokenTaken /\ TopBecomes(c)
  BY <1>1, <1>2, InnerDoneIs
<1>4. PICK lo, hi : Laid(lo, hi)
  BY DEF Forest
<1>5. Top \in CallSet(Len(read), Len(nodes)) /\ Top.current = 0
  BY <1>1, <1>4, TopInHand DEF Held
<1>6. /\ c.ops = Top.ops /\ c.from = Top.from /\ c.current = result /\ c.step = "postfix"
      /\ c.dot = Top.dot /\ c.parts = Top.parts
  BY <1>2, <1>5 DEF InnerTop, CallSet
<1>7. Quiet
  BY <1>1, <1>3, QuietBy DEF InnerDone
<1>8. Len(read') = Len(read) + 1 /\ Len(read) \in Nat
  BY <1>1, <1>3, PartsOf DEF TokenTaken
<1>9. InHand(Top, nodes, lo, hi, Waiting, Len(read'))
  <2>1. Extends(Len(nodes), lo, hi, lo, hi)
    BY DEF Extends
  <2>2. InHand(Top, nodes', lo, hi, Waiting, Len(read'))
    BY <1>1, <1>3, <1>4, <1>7, <2>1, TopInHandStill
  <2> QED
    BY <1>1, <2>2
<1>10. /\ Clear(Top, Top.open, nodes, hi) /\ Top.open \in Nat /\ Top.open < lo[result]
  BY <1>1, <1>4, ClearAtOpen, BeginsAtOpen DEF Opened, Outer
<1>11. /\ result \notin Waiting /\ lo[result] \in Nat \ {0} /\ hi[result] < Len(read) /\ hi[result] \in Nat
  BY <1>1, <1>4, ResultIs
<1>12. Clear(Top, lo[result], nodes, hi)
  <2>1. /\ Top.from \in Nat /\ Top.dot \in Nat
        /\ \A i \in 1 .. Len(Top.ops) : nodes[Top.ops[i]].at \in Nat
    <3>1. \A i \in 1 .. Len(Top.ops) : Top.ops[i] \in 1 .. Len(nodes)
      BY <1>5, CallIs, PartsOf, <1>1
    <3> QED
      BY <1>1, <1>4, <1>5, <3>1, CallIs, LaidIs, PartsOf
  <2>2. \A i \in 1 .. Len(Top.parts) : hi[Top.parts[i]] \in Nat
    BY <1>1, <1>4, PartIs
  <2>3. \A h \in Nat : h < Top.open => h < lo[result]
    BY <1>10, <1>11
  <2>4. Top.from <= lo[result]
    BY <1>10, <1>11, <2>1 DEF Clear, Begins
  <2> QED
    BY <1>10, <2>1, <2>2, <2>3, <2>4 DEF Clear, Begins
<1>13. InHand(c, nodes, lo, hi, Waiting, Len(read'))
  <2>1. hi[result] < Len(read') /\ Len(read') \in Nat \ {0}
    BY <1>8, <1>11
  <2>2. Lies(result, Top, nodes, lo, hi, Waiting, Len(read'))
    BY <1>11, <1>12, <2>1 DEF Lies, Clear, Begins
  <2>3. Takes(Top, result, c, lo, hi)
    BY <1>6, <1>12 DEF Takes, Clear
  <2>4. PICK t, x : t = Top /\ x = result
    OBVIOUS
  <2> QED
    BY <1>9, <1>11, <2>1, <2>2, <2>3, <2>4, TakesInHand
<1>14. SameOps(c) /\ Taken(c) /\ Top.step # "list"
  <2>1. value \notin OwnNode
    BY <1>1 DEF Forest, Made
  <2> QED
    BY <1>1, <1>3, <1>6, <2>1 DEF SameOps, Taken
<1>15. \A n \in 1 .. Len(nodes) : n = result \/ RootOf(Top, n) => RootOf(c, n)
  BY <1>1, <1>5, <1>6 DEF RootOf
<1> QED
  BY <1>1, <1>3, <1>4, <1>7, <1>13, <1>14, <1>15, ForestByMove

(* An argument joins those before it.                                      *)
LEMMA ForestByArgumentDone ==
  ASSUME HInv, Forest, ArgumentDone
  PROVE  Forest'
<1>1. /\ OInv /\ TInv /\ TypeOK /\ calls # <<>> /\ result # 0 /\ result' = 0 /\ Top.step = "list" /\ UNCHANGED nodes
  BY DEF HInv, EInv, OInv, TInv, ArgumentDone, Waits
<1>2. PICK c : c = ListTop
  OBVIOUS
<1>3. TypeOK' /\ ((value = "," /\ TokenTaken) \/ (value # "," /\ UNCHANGED read)) /\ TopBecomes(c)
  BY <1>1, <1>2, ArgumentDoneIs
<1>4. PICK lo, hi : Laid(lo, hi)
  BY DEF Forest
<1>5. Top \in CallSet(Len(read), Len(nodes)) /\ Top.current = 0
  BY <1>1, <1>4, TopInHand DEF Held
<1>6. PICK p, q : p = Top.list /\ q = c.list
  OBVIOUS
<1>7. /\ c.ops = Top.ops /\ c.from = Top.from /\ c.current = 0 /\ c.step = "list" /\ c.open = Top.open
      /\ c.dot = Top.dot /\ c.parts = Top.parts /\ q = Append(p, result)
  BY <1>1, <1>2, <1>5, <1>6 DEF ListTop, CallSet
<1>8. Quiet
  BY <1>1, <1>3, QuietBy DEF ArgumentDone
<1>9. Len(read') \in Nat /\ Len(read) <= Len(read') /\ Len(read) \in Nat
  BY <1>1, <1>3, <1>8, PartsOf, NextIs DEF Quiet, ReadKept
<1>10. InHand(Top, nodes, lo, hi, Waiting, Len(read'))
  <2>1. Extends(Len(nodes), lo, hi, lo, hi)
    BY DEF Extends
  <2>2. InHand(Top, nodes', lo, hi, Waiting, Len(read'))
    BY <1>1, <1>3, <1>4, <1>8, <2>1, TopInHandStill
  <2> QED
    BY <1>1, <2>2
<1>11. InHand(Top, nodes, lo, hi, Waiting, lo[result])
  BY <1>1, <1>4, TopInHand DEF TopLimit
<1>12. /\ result \in 1 .. Len(nodes) /\ result \notin Waiting /\ hi[result] < Len(read') /\ Top.open < lo[result]
  <2>1. /\ result \in 1 .. Len(nodes) /\ result \notin Waiting /\ hi[result] < Len(read) /\ hi[result] \in Nat
    BY <1>1, <1>4, ResultIs
  <2> QED
    BY <1>1, <1>4, <1>9, <2>1, BeginsAtOpen DEF Outer
<1>13. p \in Seq(1 .. Len(nodes)) /\ Len(p) \in Nat /\ Len(q) = Len(p) + 1 /\ q[Len(p) + 1] = result /\ \A i \in 1 .. Len(p) : q[i] = p[i]
  <2>1. p \in Seq(1 .. Len(nodes)) /\ Len(p) \in Nat
    BY <1>5, <1>6 DEF CallSet
  <2> QED
    BY <1>7, <1>12, <2>1, AppendIs
<1>14. \A i \in 1 .. Len(p) : p[i] \notin Waiting /\ Top.open < lo[p[i]] /\ hi[p[i]] < Len(read') /\ hi[p[i]] < lo[result]
  BY <1>1, <1>6, <1>10, <1>11 DEF InHand
<1>15. ASSUME NEW i \in 1 .. Len(q) PROVE q[i] \notin Waiting /\ Top.open < lo[q[i]] /\ hi[q[i]] < Len(read')
  <2>1. i \in 1 .. Len(p) \/ i = Len(p) + 1
    BY <1>13
  <2> QED
    BY <1>12, <1>13, <1>14, <2>1
<1>16. ASSUME NEW i \in 1 .. Len(q), NEW j \in 1 .. Len(q), i < j PROVE hi[q[i]] < lo[q[j]]
  <2>1. i \in 1 .. Len(p) /\ (j \in 1 .. Len(p) \/ j = Len(p) + 1)
    BY <1>13, <1>16
  <2>2. \A l, m \in 1 .. Len(p) : l < m => hi[p[l]] < lo[p[m]]
    BY <1>1, <1>6, <1>10 DEF InHand
  <2> QED
    BY <1>13, <1>14, <1>16, <2>1, <2>2
<1>17. InHand(c, nodes, lo, hi, Waiting, Len(read'))
  <2>1. \A i \in 1 .. Len(c.parts) : Lies(c.parts[i], c, nodes, lo, hi, Waiting, Len(read'))
    BY <1>7, <1>10 DEF InHand, Lies
  <2> QED
    BY <1>1, <1>6, <1>7, <1>10, <1>15, <1>16, <2>1 DEF InHand
<1>18. SameOps(c) /\ Taken(c) /\ c.step = "list" /\ c.open = Top.open
  BY <1>3, <1>7 DEF SameOps, Taken, OwnNode
<1>19. \A n \in 1 .. Len(nodes) : n = result \/ RootOf(Top, n) => RootOf(c, n)
  <2>1. ASSUME NEW n \in 1 .. Len(nodes), NEW i \in 1 .. Len(p), p[i] = n PROVE RootOf(c, n)
    <3>1. i \in 1 .. Len(c.list) /\ c.list[i] = n
      BY <1>6, <1>13, <2>1
    <3> QED
      BY <1>7, <3>1 DEF RootOf
  <2>2. RootOf(c, result)
    <3>1. Len(p) + 1 \in 1 .. Len(c.list) /\ c.list[Len(p) + 1] = result
      BY <1>6, <1>13
    <3> QED
      BY <1>7, <3>1 DEF RootOf
  <2> QED
    BY <1>1, <1>5, <1>6, <1>7, <2>1, <2>2 DEF RootOf
<1> QED
  BY <1>1, <1>3, <1>4, <1>8, <1>17, <1>18, <1>19, ForestByMove

(* An index applies to what is in hand, or to the whole dotted operand.    *)
LEMMA IndexTopIs ==
  ASSUME TypeOK, calls # <<>>, NEW k
  PROVE  /\ IndexTop(k).ops = Top.ops /\ IndexTop(k).from = Top.from /\ IndexTop(k).current = k /\ IndexTop(k).step = "postfix"
         /\ IndexTop(k).parts = <<>> /\ IndexTop(k).dot = 0
BY TopIs DEF IndexTop, CallSet

LEMMA ForestByIndexPlain ==
  ASSUME HInv, Forest, IndexDone, TypeOK', TokenTaken, Top.dot = 0,
         NodeMade(Node("index", Top.open, <<Top.current>>, <<result>>)), TopBecomes(IndexTop(New))
  PROVE  Forest'
<1>1. /\ OInv /\ TInv /\ TypeOK /\ calls # <<>> /\ result # 0 /\ result' = 0 /\ Top.step = "index"
  BY DEF HInv, EInv, OInv, TInv, IndexDone, Waits
<1>2. PICK n : n = Node("index", Top.open, <<Top.current>>, <<result>>)
  OBVIOUS
<1>3. NodeMade(n) /\ n.kind = "index" /\ n.at = Top.open /\ n.before = <<Top.current>> /\ n.after = <<result>>
  BY <1>2, KindIs
<1>4. PICK c : c = IndexTop(New)
  OBVIOUS
<1>5. /\ c.ops = Top.ops /\ c.from = Top.from /\ c.current = New /\ c.step = "postfix"
      /\ c.parts = <<>> /\ c.dot = 0 /\ TopBecomes(c)
  BY <1>1, <1>4, IndexTopIs
<1>6. Quiet
  BY <1>1, <1>3, QuietBy DEF IndexDone
<1>7. PICK lo, hi : Laid(lo, hi)
  BY DEF Forest
<1>8. Top.current # 0 /\ Held(Top)
  BY <1>1, <1>7, TopInHand DEF Held
<1>9. /\ Top.current \in 1 .. Len(nodes) /\ Top.current \notin Waiting
      /\ lo[Top.current] \in Nat \ {0} /\ Clear(Top, lo[Top.current], nodes, hi)
      /\ hi[Top.current] < Top.open /\ lo[Top.current] <= hi[Top.current] /\ hi[Top.current] \in Nat
  BY <1>1, <1>7, <1>8, CurrentIs, LaidIs
<1>10. /\ result \in 1 .. Len(nodes) /\ result \notin Waiting /\ hi[result] < Len(read) /\ hi[result] \in Nat
       /\ Top.open \in Nat /\ Top.open < Len(read) /\ Top.open < lo[result]
       /\ Len(read) \in Nat /\ Len(read') = Len(read) + 1
  BY <1>1, <1>7, ResultIs, BeginsAtOpen, PartsOf DEF Outer, TokenTaken
<1>11. PICK s : s = lo[Top.current]
  OBVIOUS
<1>12. /\ Len(n.before) = 1 /\ n.before[1] = Top.current /\ n.before \in Seq(1 .. Len(nodes))
       /\ Len(n.after) = 1 /\ n.after[1] = result /\ n.after \in Seq(1 .. Len(nodes))
  BY <1>3, <1>9, <1>10
<1>13. Covers(n, s, lo, hi, Waiting, Len(read'))
  <2>1. 1 <= s /\ s <= n.at /\ n.at < Len(read') /\ hi[result] < Len(read') /\ n.at < lo[result] /\ hi[Top.current] < n.at
    BY <1>3, <1>9, <1>10, <1>11
  <2> QED
    BY <1>9, <1>10, <1>11, <1>12, <2>1, SMTT(30) DEF Covers
<1>14. SameOps(c) /\ Taken(c) /\ Top.step # "list"
  <2>1. value \notin OwnNode
    BY <1>1 DEF Forest, Made
  <2> QED
    BY <1>1, <1>5, <2>1 DEF SameOps, Taken
<1>15. \A m \in 1 .. Len(nodes) : m = result \/ RootOf(Top, m) => RootOf(c, m) \/ LinkedBy(n, m)
  <2>1. Top.parts = <<>> /\ Len(<<>>) = 0
    BY <1>8 DEF Held
  <2> QED
    BY <1>1, <1>5, <1>12, <2>1 DEF RootOf, LinkedBy
<1>16. s \in Nat /\ n.at \in Nat /\ Begins(Top, s, nodes) /\ n.kind \notin {"operation", "if"}
  BY <1>3, <1>9, <1>10, <1>11 DEF Clear
<1> QED
  BY <1>3, <1>5, <1>6, <1>7, <1>12, <1>13, <1>14, <1>15, <1>16, ForestByNode

LEMMA ForestByIndexDotted ==
  ASSUME HInv, Forest, IndexDone, TypeOK', TokenTaken, Top.dot # 0, Len(nodes') = Len(nodes) + 2,
         nodes'[New] = Dotted, nodes'[New + 1] = Node("index", Top.open, <<New>>, <<result>>),
         \A m \in 1 .. Len(nodes) : nodes'[m] = nodes[m], TopBecomes(IndexTop(New + 1))
  PROVE  Forest'
<1>1. /\ OInv /\ TInv /\ TypeOK /\ calls # <<>> /\ result # 0 /\ result' = 0 /\ Top.step = "index"
      /\ UNCHANGED <<statement, failed, verdict>>
  BY DEF HInv, EInv, OInv, TInv, IndexDone, Waits
<1>2. PICK k, w, r2 : k = Len(nodes) /\ w = Waiting /\ r2 = Len(read')
  OBVIOUS
<1>3. PICK n1, n2 : n1 = Dotted /\ n2 = Node("index", Top.open, <<New>>, <<result>>)
  OBVIOUS
<1>4. /\ k \in Nat /\ New = k + 1 /\ Len(nodes') = k + 2 /\ nodes'[k + 1] = n1 /\ nodes'[k + 2] = n2
      /\ \A m \in 1 .. k : nodes'[m] = nodes[m]
      /\ \A m \in k + 1 .. Len(nodes') : m = k + 1 \/ m = k + 2
      /\ n1.kind = "dotted" /\ n1.at = Top.dot /\ n1.before = <<Top.parts[1]>> /\ n1.after = PartsAndCurrent
      /\ n2.kind = "index" /\ n2.at = Top.open /\ n2.before = <<k + 1>> /\ n2.after = <<result>>
  <2>1. k \in Nat /\ New = k + 1
    BY <1>1, <1>2, PartsOf DEF New
  <2>2. Len(nodes') = k + 2 /\ nodes'[k + 1] = n1 /\ nodes'[k + 2] = n2 /\ \A m \in 1 .. k : nodes'[m] = nodes[m]
    <3>1. New + 1 = k + 2
      BY <2>1
    <3> QED
      BY <1>2, <1>3, <2>1, <3>1
  <2>3. \A m \in k + 1 .. Len(nodes') : m = k + 1 \/ m = k + 2
    BY <2>1, <2>2
  <2>4. n1.kind = "dotted" /\ n1.at = Top.dot /\ n1.before = <<Top.parts[1]>> /\ n1.after = PartsAndCurrent
    BY <1>3, KindIs DEF Dotted
  <2>5. n2.kind = "index" /\ n2.at = Top.open /\ n2.before = <<k + 1>> /\ n2.after = <<result>>
    BY <1>3, <2>1, KindIs
  <2> QED
    BY <2>1, <2>2, <2>3, <2>4, <2>5
<1>5. PICK c : c = IndexTop(New + 1)
  OBVIOUS
<1>6. /\ c.ops = Top.ops /\ c.from = Top.from /\ c.current = k + 2 /\ c.step = "postfix"
      /\ c.parts = <<>> /\ c.dot = 0 /\ TopBecomes(c)
  BY <1>1, <1>4, <1>5, IndexTopIs
<1>7. Quiet
  <2>1. NodesKept
    BY <1>2, <1>4 DEF NodesKept
  <2> QED
    BY <1>1, <2>1, TakenIsKept DEF Quiet
<1>8. PICK lo, hi : Laid(lo, hi)
  BY DEF Forest
<1>9. Top.current # 0 /\ Held(Top) /\ Top \in CallSet(Len(read), k)
  BY <1>1, <1>2, <1>8, TopInHand DEF Held
<1>10. /\ Top.current \in 1 .. k /\ Top.current \notin w
       /\ lo[Top.current] \in Nat \ {0} /\ Clear(Top, lo[Top.current], nodes, hi)
       /\ hi[Top.current] < Top.open /\ lo[Top.current] <= hi[Top.current] /\ hi[Top.current] \in Nat
  BY <1>1, <1>2, <1>8, <1>9, CurrentIs, LaidIs
<1>11. /\ result \in 1 .. k /\ result \notin w /\ hi[result] < Len(read) /\ hi[result] \in Nat
       /\ Top.open \in Nat /\ Top.open < Len(read) /\ Top.open < lo[result]
       /\ Len(read) \in Nat /\ r2 = Len(read) + 1
  BY <1>1, <1>2, <1>8, ResultIs, BeginsAtOpen, PartsOf DEF Outer, TokenTaken
<1>12. PICK a, s, o : a = PartsAndCurrent /\ s = lo[Top.parts[1]] /\ o = Top.open
  OBVIOUS
<1>13. /\ a \in Seq(1 .. k) /\ Behinds(a, lo, hi, o)
       /\ \A i \in 1 .. Len(Top.parts) : i = 1 \/ \E j \in 1 .. Len(a) : a[j] = Top.parts[i]
       /\ \E j \in 1 .. Len(a) : a[j] = Top.current
  BY <1>1, <1>2, <1>8, <1>9, <1>10, <1>11, <1>12, PartsWithCurrent
<1>14. Top.dot < o /\ o \in Nat
  <2>1. Top.dot \in Nat /\ Top.dot < lo[Top.current]
    BY <1>1, <1>2, <1>9, <1>10, CallIs, PartsOf DEF Clear
  <2> QED
    BY <1>10, <1>11, <1>12, <2>1
<1>15. /\ Covers(n1, s, lo, hi, w, o) /\ s \in Nat /\ Begins(Top, s, nodes)
       /\ n1.before \in Seq(1 .. k) /\ Top.dot \in Nat
  <2>1. IsDotted(n1, a)
    BY <1>4, <1>12 DEF IsDotted
  <2>2. /\ Covers(n1, lo[Top.parts[1]], lo, hi, Waiting, o) /\ lo[Top.parts[1]] \in Nat
        /\ Begins(Top, lo[Top.parts[1]], nodes) /\ n1.before \in Seq(1 .. Len(nodes)) /\ Top.dot \in Nat
    BY <1>1, <1>8, <1>13, <1>14, <2>1, DottedCovers
  <2> QED
    BY <1>2, <1>12, <2>2
<1>16. PICK lo2 : lo2 = [m \in 1 .. k + 2 |-> IF m \in 1 .. k THEN lo[m] ELSE s]
  OBVIOUS
<1>17. PICK hi2 : hi2 = [m \in 1 .. k + 2 |-> IF m \in 1 .. k THEN hi[m] ELSE IF m = k + 1 THEN o - 1 ELSE r2 - 1]
  OBVIOUS
<1>18. lo \in [1 .. k -> Nat] /\ hi \in [1 .. k -> Nat]
  BY <1>1, <1>2, <1>8, LaidIs
<1>19. o - 1 \in Nat /\ r2 - 1 \in Nat /\ o - 1 < o /\ o < r2 - 1 /\ s <= o - 1 /\ 1 <= s
  <2>1. 1 <= s /\ s <= n1.at /\ n1.at < o
    BY <1>15 DEF Covers
  <2> QED
    BY <1>4, <1>11, <1>12, <1>14, <1>15, <2>1, SMTT(30)
<1>20. /\ lo2 \in [1 .. Len(nodes') -> Nat] /\ hi2 \in [1 .. Len(nodes') -> Nat]
       /\ \A m \in 1 .. k : lo2[m] = lo[m] /\ hi2[m] = hi[m]
       /\ lo2[k + 1] = s /\ hi2[k + 1] = o - 1 /\ lo2[k + 2] = s /\ hi2[k + 2] = r2 - 1
  BY <1>4, <1>15, <1>16, <1>17, <1>18, <1>19
<1>21. Extends(k, lo, hi, lo2, hi2)
  BY <1>20 DEF Extends
<1>22. k + 1 \notin w /\ k + 2 \notin w
  BY <1>1, <1>2, <1>4, WaitingIs
<1>23. Spans(k + 1, nodes', lo2, hi2, w, r2)
  <2>1. PICK new, nd : new = k + 1 /\ nd = nodes'
    OBVIOUS
  <2>2. Spans(new, nd, lo2, hi2, w, o)
    BY <1>4, <1>12, <1>13, <1>14, <1>15, <1>18, <1>20, <1>21, <2>1, CoversSpans
  <2>3. o < r2 /\ \A h \in Nat : h < o => h < r2
    BY <1>11, <1>12
  <2>4. nd[new].at < r2 /\ hi2[new] < r2
    BY <1>4, <1>14, <1>15, <1>19, <1>20, <2>1, <2>3
  <2> QED
    BY <2>1, <2>2, <2>4 DEF Spans
<1>24. Spans(k + 2, nodes', lo2, hi2, w, r2)
  <2>1. /\ Len(n2.before) = 1 /\ n2.before[1] = k + 1 /\ Len(n2.after) = 1 /\ n2.after[1] = result
    BY <1>4
  <2>2. lo2[result] = lo[result] /\ hi2[result] = hi[result] /\ hi2[result] <= r2 - 1 /\ lo[result] \in Nat
    BY <1>11, <1>18, <1>20
  <2>3. s <= o /\ o < r2 /\ o <= r2 - 1 /\ r2 - 1 < r2 /\ o < lo2[result] /\ n2.at = o
    BY <1>4, <1>11, <1>12, <1>15, <1>19, <2>2, SMTT(30)
  <2>4. PICK b, d, nd : b = n2.before /\ d = n2.after /\ nd = nodes'
    OBVIOUS
  <2>5. /\ nd[k + 2].before = b /\ nd[k + 2].after = d /\ nd[k + 2].at = o
    BY <1>4, <2>3, <2>4
  <2>12. Len(b) = 1 /\ b[1] = k + 1 /\ Len(d) = 1 /\ d[1] = result
    BY <2>1, <2>4
  <2>13. \A i \in 1 .. 1 : i = 1
    OBVIOUS
  <2>6. \A i \in 1 .. Len(b) : b[i] = k + 1 /\ i = 1
    BY <2>12, <2>13
  <2>7. \A i \in 1 .. Len(d) : d[i] = result /\ i = 1
    BY <2>12, <2>13
  <2>8. /\ 1 <= lo2[k + 2] /\ lo2[k + 2] <= o /\ o < r2
        /\ \A i \in 1 .. Len(b) : b[i] \notin w /\ lo2[k + 2] <= lo2[b[i]] /\ hi2[b[i]] < o
    BY <1>15, <1>19, <1>20, <1>22, <2>3, <2>6
  <2>9. /\ \A i \in 1 .. Len(d) : o < lo2[d[i]]
        /\ o <= hi2[k + 2] /\ hi2[k + 2] < r2
        /\ \A i \in 1 .. Len(d) : d[i] \notin w /\ hi2[d[i]] <= hi2[k + 2]
    BY <1>11, <1>20, <2>2, <2>3, <2>7
  <2>10. \A i, j \in 1 .. Len(d) : i < j => hi2[d[i]] < lo2[d[j]]
    BY <2>7
  <2>11. Spans(k + 2, nd, lo2, hi2, w, r2)
    BY <2>5, <2>8, <2>9, <2>10 DEF Spans
  <2> QED
    BY <2>4, <2>11
<1>25. Sided(k + 1, nodes', w) /\ Sided(k + 2, nodes', w)
  <2>1. Len(n2.before) = 1 /\ Len(n2.after) = 1
    BY <1>4
  <2> QED
    BY <1>4, <2>1 DEF Sided
<1>26. InHand(c, nodes', lo2, hi2, w, r2)
  <2>1. PICK t, x : t = Top /\ x = k + 2
    OBVIOUS
  <2>2. InHand(Top, nodes', lo2, hi2, Waiting, Len(read'))
    BY <1>1, <1>2, <1>7, <1>8, <1>21, TopInHandStill
  <2>3. InHand(t, nodes', lo2, hi2, w, r2)
    BY <1>2, <2>1, <2>2
  <2>4. \A i \in 1 .. Len(Top.ops) : Top.ops[i] \in 1 .. k
    BY <1>1, <1>2, <1>9, CallIs, PartsOf
  <2>5. Lies(x, t, nodes', lo2, hi2, w, r2)
    <3>1. t.from <= s /\ \A i \in 1 .. Len(t.ops) : nodes'[t.ops[i]].at < s
      BY <1>4, <1>15, <2>1, <2>4 DEF Begins
    <3>2. lo2[x] = s /\ hi2[x] < r2 /\ x \notin w
      BY <1>11, <1>20, <1>22, <2>1
    <3> QED
      BY <3>1, <3>2 DEF Lies
  <2>6. Takes(t, x, c, lo2, hi2)
    BY <1>6, <2>1 DEF Takes
  <2>7. lo2[x] \in Nat \ {0} /\ r2 \in Nat \ {0}
    BY <1>11, <1>15, <1>19, <1>20, <2>1
  <2> QED
    BY <2>3, <2>5, <2>6, <2>7, TakesInHand
<1>27. Moves(c)
  <2>1. SameOps(c) /\ Taken(c) /\ Top.step # "list"
    <3>1. value \notin OwnNode
      BY <1>1 DEF Forest, Made
    <3> QED
      BY <1>1, <1>6, <3>1 DEF SameOps, Taken
  <2>2. k + 1 \in 1 .. Len(nodes') /\ k + 2 \in 1 .. Len(nodes')
    BY <1>4
  <2>3. HangsOn(k + 1, nodes') /\ HangsOn(result, nodes')
    <3>1. Len(n2.before) = 1 /\ n2.before[1] = k + 1 /\ Len(n2.after) = 1 /\ n2.after[1] = result
      BY <1>4
    <3>2. 1 \in 1 .. Len(n2.before) /\ 1 \in 1 .. Len(n2.after)
      BY <3>1
    <3>3. HangsOn(k + 1, nodes')
      BY <1>4, <2>2, <3>1, <3>2 DEF HangsOn
    <3>4. HangsOn(result, nodes')
      BY <1>4, <2>2, <3>1, <3>2 DEF HangsOn
    <3> QED
      BY <3>3, <3>4
  <2>4. RootOf(c, k + 2)
    BY <1>6 DEF RootOf
  <2>5. \A j \in 1 .. Len(a) : HangsOn(a[j], nodes')
    BY <1>4, <1>12, <2>2 DEF HangsOn
  <2>6. HangsOn(Top.parts[1], nodes')
    <3>1. Len(n1.before) = 1 /\ n1.before[1] = Top.parts[1]
      BY <1>4
    <3> QED
      BY <1>4, <2>2, <3>1 DEF HangsOn
  <2>7. ASSUME NEW m \in 1 .. k, m = result \/ RootOf(Top, m) PROVE RootOf(c, m) \/ HangsOn(m, nodes')
    <3>1. CASE Top.ops # <<>> /\ Top.ops[1] = m
      BY <1>6, <3>1 DEF RootOf
    <3>2. CASE Top.current = m \/ m = result
      BY <1>13, <2>3, <2>5, <3>2
    <3>3. CASE \E i \in 1 .. Len(Top.parts) : Top.parts[i] = m
      BY <1>13, <2>5, <2>6, <3>3
    <3> QED
      BY <1>1, <2>7, <3>1, <3>2, <3>3 DEF RootOf
  <2> QED
    BY <1>2, <1>4, <1>6, <2>1, <2>3, <2>4, <2>7 DEF Moves
<1>28. /\ Extends(Len(nodes), lo, hi, lo2, hi2) /\ InHand(c, nodes', lo2, hi2, Waiting, Len(read'))
       /\ \A m \in Len(nodes) + 1 .. Len(nodes') : Spans(m, nodes', lo2, hi2, Waiting, Len(read')) /\ Sided(m, nodes', Waiting)
  BY <1>2, <1>4, <1>21, <1>23, <1>24, <1>25, <1>26
<1> QED
  BY <1>7, <1>8, <1>20, <1>27, <1>28, ForestByTurn

LEMMA ForestByIndexDone ==
  ASSUME HInv, Forest, IndexDone
  PROVE  Forest'
<1>1. TInv
  BY DEF HInv, EInv, OInv
<1> QED
  BY <1>1, IndexDoneIs, ForestByIndexPlain, ForestByIndexDotted

-----------------------------------------------------------------------------
(* A call that is started has nothing in hand; what its caller has lies    *)
(* before it.                                                              *)
LEMMA LaidByPush ==
  ASSUME TInv, TypeOK', Quiet, UNCHANGED nodes, result = 0, NEW lo, NEW hi, Laid(lo, hi),
         NEW c, NEW s, NEW f \in Nat, Pushed(c, s, f), SameOps(c), InHand(c, nodes, lo, hi, Waiting, f)
  PROVE  Laid(lo, hi)'
<1>1. /\ TypeOK /\ calls # <<>> /\ ReadKept /\ result' = 0 /\ statement' = statement
      /\ Len(read) \in Nat /\ Len(read') \in Nat \ {0} /\ Len(read) <= Len(read') /\ Len(nodes) \in Nat
  BY StateIs, NextIs DEF TInv, Quiet, ReadKept
<1>2. Waiting' = Waiting
  BY <1>1, WaitingByPush DEF SameOps
<1>3. PICK w : w = Waiting
  OBVIOUS
<1>4. Follows(Len(nodes), nodes, lo, hi, w, nodes, lo, hi, w)
  BY DEF Follows
<1>5. ASSUME NEW n \in 1 .. Len(nodes) PROVE Spans(n, nodes, lo, hi, w, Len(read'))
  <2>1. Spans(n, nodes, lo, hi, w, Len(read)) /\ nodes[n] \in NodeSet(Len(read), Len(nodes))
    BY <1>3, PartsOf DEF Laid
  <2>2. n \notin w \/ n \in w
    OBVIOUS
  <2> QED
    BY <1>1, <1>4, <2>1, <2>2, SpansStill, LaidIs
<1>6. /\ Len(calls) \in Nat \ {0} /\ Len(calls') = Len(calls) + 1 /\ calls'[Len(calls)] = c
      /\ \A d \in 1 .. Len(calls) - 1 : calls'[d] = calls[d]
      /\ calls'[Len(calls) + 1] = Call(s, f) /\ c.from = Top.from /\ Top = calls[Len(calls)]
  BY <1>1, TopIs DEF Pushed, SameOps
<1>7. \A d \in 0 .. Len(calls) - 1 : Limit(d, lo)' = Limit(d, lo)
  <2> SUFFICES ASSUME NEW d \in 0 .. Len(calls) - 1 PROVE Limit(d, lo)' = Limit(d, lo)
    OBVIOUS
  <2>1. calls'[d + 1].from = calls[d + 1].from /\ d + 1 \in 1 .. Len(calls) /\ d < Len(calls) /\ d < Len(calls')
    BY <1>6
  <2> QED
    BY <2>1 DEF Limit
<1>12. PICK k, j : k = Len(calls) /\ j = k + 1
  OBVIOUS
<1>8. Limit(k, lo)' = f /\ Limit(j, lo)' = Len(read')
  <2>1. Call(s, f).from = f
    BY DEF Call
  <2>2. k < Len(calls') /\ ~(j < Len(calls')) /\ calls'[k + 1] = Call(s, f)
    BY <1>6, <1>12
  <2> QED
    BY <1>1, <2>1, <2>2 DEF Limit
<1>9. ASSUME NEW d \in 1 .. Len(calls') PROVE InHand(calls'[d], nodes, lo, hi, w, Limit(d, lo)')
  <2>1. CASE d = Len(calls)
    <3>1. d = k
      BY <1>12, <2>1
    <3>2. Limit(d, lo)' = f
      BY <1>8, <3>1
    <3> QED
      BY <1>3, <1>6, <2>1, <3>2
  <2>2. CASE d = Len(calls) + 1
    <3>1. PICK e : e = Call(s, f)
      OBVIOUS
    <3>2. /\ e.ops = <<>> /\ e.dot = 0 /\ e.parts = <<>> /\ e.current = 0 /\ e.step = "symbol" /\ Len(<<>>) = 0
      BY <3>1 DEF Call
    <3>3. InHand(e, nodes, lo, hi, w, Len(read'))
      BY <1>1, <3>2 DEF InHand, Outer, Opened
    <3>4. d = j
      BY <1>12, <2>2
    <3>5. Limit(d, lo)' = Len(read')
      BY <1>8, <3>4
    <3> QED
      BY <1>6, <2>2, <3>1, <3>3, <3>5
  <2>3. CASE d # Len(calls) /\ d # Len(calls) + 1
    <3>1. d \in 1 .. Len(calls) - 1 /\ d \in 1 .. Len(calls) /\ d \in 0 .. Len(calls) - 1 /\ calls'[d] = calls[d]
      BY <1>6, <2>3
    <3> QED
      BY <1>3, <1>7, <3>1 DEF Laid
  <2> QED
    BY <2>1, <2>2, <2>3
<1>10. statement' # 0 => nodes[statement'].at < Limit(0, lo)'
  BY <1>1, <1>6, <1>7 DEF Laid
<1>11. lo \in [1 .. Len(nodes) -> Nat] /\ hi \in [1 .. Len(nodes) -> Nat]
  BY LaidIs
<1> QED
  BY <1>1, <1>2, <1>3, <1>5, <1>9, <1>10, <1>11 DEF Laid

LEMMA ForestByPush ==
  ASSUME HInv, Forest, TypeOK', Quiet, UNCHANGED nodes, result = 0, NEW lo, NEW hi, Laid(lo, hi),
         NEW c, NEW s, NEW f \in Nat, Pushed(c, s, f), SameOps(c), InHand(c, nodes, lo, hi, Waiting, f), Taken(c),
         Top.step = "list" => c.step = "list" /\ c.open = Top.open,
         \A n \in 1 .. Len(nodes) : RootOf(Top, n) => RootOf(c, n)
  PROVE  Forest'
<1>1. /\ TInv /\ TypeOK /\ calls # <<>> /\ verdict = "compiling" /\ statement' = statement
  BY CallingIs DEF HInv, EInv, OInv, TInv, Quiet
<1>2. /\ Len(calls) \in Nat \ {0} /\ Len(calls') = Len(calls) + 1 /\ calls'[Len(calls)] = c
      /\ \A d \in 1 .. Len(calls) - 1 : calls'[d] = calls[d]
      /\ Top = calls[Len(calls)]
  BY <1>1, TopIs DEF Pushed
<1>3. (\E lo3, hi3 : Laid(lo3, hi3))'
  <2>1. Laid(lo, hi)'
    BY <1>1, LaidByPush
  <2> QED
    BY <2>1
<1>4. Attached'
  <2>1. ASSUME NEW n \in 1 .. Len(nodes), NEW d \in 1 .. Len(calls), RootOf(calls[d], n)
        PROVE  \E e \in 1 .. Len(calls') : RootOf(calls'[e], n)
    <3>1. CASE d = Len(calls)
      <4>1. RootOf(calls'[Len(calls)], n) /\ Len(calls) \in 1 .. Len(calls')
        BY <1>2, <2>1, <3>1
      <4> QED
        BY <4>1
    <3>2. CASE d # Len(calls)
      <4>1. d \in 1 .. Len(calls) - 1 /\ d \in 1 .. Len(calls')
        BY <1>2, <3>2
      <4> QED
        BY <1>2, <2>1, <4>1
    <3> QED
      BY <3>1, <3>2
  <2> QED
    BY <1>1, <2>1 DEF Attached, Forest
<1>5. Waiting' = Waiting
  BY <1>1, WaitingByPush DEF SameOps
<1>6. Made'
  <2>1. Len(calls') >= Len(calls)
    BY <1>2
  <2> QED
    BY <1>1, <1>2, <2>1, MadeBy DEF Forest
<1> QED
  BY <1>3, <1>4, <1>5, <1>6 DEF Forest

(* Marks that open something make no node of their own.                    *)
LEMMA OpensInHand ==
  ASSUME TInv, calls # <<>>, result = 0, NEW lo, NEW hi, Laid(lo, hi), Top.current = 0,
         NEW c, c.ops = Top.ops, c.from = Top.from, c.parts = Top.parts, c.dot = Top.dot, c.current = 0,
         c.step \in {"inner", "block"}, c.open = Len(read)
  PROVE  InHand(c, nodes, lo, hi, Waiting, Len(read) + 1)
<1>1. InHand(Top, nodes, lo, hi, Waiting, Len(read)) /\ Len(read) \in Nat /\ Top \in CallSet(Len(read), Len(nodes))
  BY TopInHand, PartsOf DEF TopLimit
<1>2. Clear(Top, Len(read), nodes, hi)
  BY ClearAtEnd
<1>3. PICK r, w : r = Len(read) /\ w = Waiting
  OBVIOUS
<1>4. \A i \in 1 .. Len(Top.parts) : hi[Top.parts[i]] < r + 1
  <2> SUFFICES ASSUME NEW i \in 1 .. Len(Top.parts) PROVE hi[Top.parts[i]] < r + 1
    OBVIOUS
  <2>1. hi[Top.parts[i]] < Len(read) /\ hi[Top.parts[i]] \in Nat
    BY PartIs
  <2> QED
    BY <1>1, <1>3, <2>1
<1>5. \A i \in 1 .. Len(c.parts) : Lies(c.parts[i], c, nodes, lo, hi, w, r + 1)
  BY <1>1, <1>3, <1>4 DEF InHand, Lies
<1>6. \A i \in 1 .. Len(c.ops) : nodes[c.ops[i]].at < r /\ nodes[c.ops[i]].at < r + 1
  <2>1. \A i \in 1 .. Len(Top.ops) : Top.ops[i] \in 1 .. Len(nodes)
    BY <1>1, CallIs, PartsOf
  <2>2. \A i \in 1 .. Len(Top.ops) : nodes[Top.ops[i]].at \in Nat
    BY <2>1, LaidIs
  <2> QED
    BY <1>1, <1>2, <1>3, <2>2 DEF Clear, Begins
<1>7. c.dot < r /\ c.dot < r + 1 /\ \A i \in 1 .. Len(c.parts) : hi[c.parts[i]] < r
  <2>1. Top.dot \in Nat
    BY <1>1, CallIs, PartsOf
  <2> QED
    BY <1>1, <1>2, <1>3, <2>1 DEF Clear
<1>8. r < r + 1
  BY <1>1, <1>3
<1>9. InHand(c, nodes, lo, hi, w, r + 1)
  BY <1>1, <1>3, <1>5, <1>6, <1>7, <1>8 DEF InHand, Outer, Opened
<1> QED
  BY <1>3, <1>9

LEMMA ForestByOpening ==
  ASSUME HInv, Forest, TypeOK', TokenTaken, Unsigned \/ At("signed"), UNCHANGED <<nodes, result, statement, failed, verdict>>,
         NEW t \in {"inner", "block"}, NEW s, value \notin OwnNode, Pushed(Opens(t), s, Len(read) + 1)
  PROVE  Forest'
<1>1. OInv /\ TInv /\ TypeOK /\ calls # <<>> /\ result = 0 /\ Top.step \in {"symbol", "signed"} /\ result' = 0
  BY DEF HInv, EInv, OInv, TInv, Unsigned, At
<1>2. PICK c, f : c = Opens(t) /\ f = Len(read) + 1
  OBVIOUS
<1>3. PICK lo, hi : Laid(lo, hi)
  BY DEF Forest
<1>4. Quiet /\ f \in Nat
  BY <1>1, <1>2, QuietBy, PartsOf
<1>5. Top.current = 0
  BY <1>1, <1>3, TopInHand DEF Held
<1>6. /\ c.ops = Top.ops /\ c.from = Top.from /\ c.current = 0 /\ c.step = t /\ c.open = Len(read)
      /\ c.parts = Top.parts /\ c.dot = Top.dot
  BY <1>1, <1>2, <1>5, OpensIs DEF Steps
<1>7. InHand(c, nodes, lo, hi, Waiting, f)
  <2>1. InHand(c, nodes, lo, hi, Waiting, Len(read) + 1)
    BY <1>1, <1>3, <1>5, <1>6, OpensInHand
  <2> QED
    BY <1>2, <2>1
<1>8. SameOps(c) /\ Taken(c) /\ Top.step # "list" /\ Pushed(c, s, f)
  BY <1>1, <1>2, <1>6 DEF SameOps, Taken
<1>9. \A n \in 1 .. Len(nodes) : RootOf(Top, n) => RootOf(c, n)
  BY <1>1, <1>5, <1>6 DEF RootOf
<1> QED
  BY <1>1, <1>3, <1>4, <1>7, <1>8, <1>9, ForestByPush

LEMMA ForestByInner ==
  ASSUME HInv, Forest, Inner
  PROVE  Forest'
<1>1. TInv /\ value \notin OwnNode /\ Unsigned
  BY DEF HInv, EInv, OInv, Inner, OwnNode
<1> QED
  BY <1>1, InnerIs, ForestByOpening DEF Inner

LEMMA ForestByBlock ==
  ASSUME HInv, Forest, Block
  PROVE  Forest'
<1>1. TInv /\ value \notin OwnNode /\ (Unsigned \/ At("signed"))
  BY DEF HInv, EInv, OInv, Block, OwnNode
<1> QED
  BY <1>1, BlockIs, ForestByOpening DEF Block

LEMMA ForestByNextArgument ==
  ASSUME HInv, Forest, NextArgument
  PROVE  Forest'
<1>1. OInv /\ TInv /\ TypeOK /\ calls # <<>> /\ result = 0 /\ Top.step = "list" /\ result' = 0 /\ UNCHANGED <<nodes, read>>
  BY DEF HInv, EInv, OInv, TInv, NextArgument, At
<1>2. TypeOK' /\ \E s \in {"argument", "array"} : Pushed(Top, s, Len(read))
  BY <1>1, NextArgumentIs
<1>3. PICK s : Pushed(Top, s, Len(read))
  BY <1>2
<1>4. PICK c, f : c = Top /\ f = Len(read)
  OBVIOUS
<1>5. PICK lo, hi : Laid(lo, hi)
  BY DEF Forest
<1>6. Quiet /\ f \in Nat
  BY <1>1, <1>4, QuietBy, PartsOf DEF NextArgument
<1>7. InHand(c, nodes, lo, hi, Waiting, f)
  BY <1>1, <1>4, <1>5, TopInHand DEF TopLimit
<1>8. SameOps(c) /\ Taken(c) /\ c.step = "list" /\ c.open = Top.open /\ Pushed(c, s, f)
  BY <1>1, <1>3, <1>4 DEF SameOps, Taken
<1>9. \A n \in 1 .. Len(nodes) : RootOf(Top, n) => RootOf(c, n)
  BY <1>4
<1> QED
  BY <1>1, <1>2, <1>5, <1>6, <1>7, <1>8, <1>9, ForestByPush

LEMMA ForestByIndex ==
  ASSUME HInv, Forest, Index
  PROVE  Forest'
<1>1. OInv /\ TInv /\ TypeOK /\ calls # <<>> /\ result = 0 /\ Top.step = "postfix" /\ result' = 0 /\ UNCHANGED nodes /\ value = "["
  BY DEF HInv, EInv, OInv, TInv, Index, At
<1>2. PICK c, f, r, w : c = IndexedTop /\ f = Len(read) + 1 /\ r = Len(read) /\ w = Waiting
  OBVIOUS
<1>3. TypeOK' /\ TokenTaken /\ Pushed(c, "index", f)
  BY <1>1, <1>2, IndexIs
<1>4. PICK lo, hi : Laid(lo, hi)
  BY DEF Forest
<1>5. Quiet /\ f \in Nat /\ r \in Nat /\ f = r + 1
  BY <1>1, <1>2, <1>3, QuietBy, PartsOf DEF Index
<1>6. /\ InHand(Top, nodes, lo, hi, w, r) /\ Top \in CallSet(Len(read), Len(nodes)) /\ Top.current # 0
  BY <1>1, <1>2, <1>4, TopInHand DEF TopLimit, Held
<1>7. /\ c.ops = Top.ops /\ c.from = Top.from /\ c.current = Top.current /\ c.step = "index" /\ c.open = r
      /\ c.parts = Top.parts /\ c.dot = Top.dot
  BY <1>2, <1>6 DEF IndexedTop, CallSet
<1>8. InHand(c, nodes, lo, hi, w, f)
  <2>1. Follows(Len(nodes), nodes, lo, hi, w, nodes, lo, hi, w) /\ \A m \in 1 .. Len(nodes) : nodes[m].at \in Int
    BY <1>1, <1>4, LaidIs DEF Follows
  <2>2. PICK t : t = Top
    OBVIOUS
  <2>3. t \in CallSet(Len(read), Len(nodes)) /\ Held(t) /\ InHand(t, nodes, lo, hi, w, r) /\ r <= f /\ r \in Int /\ f \in Int
    BY <1>1, <1>4, <1>5, <1>6, <2>2, TopInHand
  <2>4. lo \in [1 .. Len(nodes) -> Nat] /\ hi \in [1 .. Len(nodes) -> Nat] /\ Len(read) \in Nat /\ Len(nodes) \in Nat
    BY <1>1, <1>4, LaidIs
  <2>5. InHand(t, nodes, lo, hi, w, f)
    BY <2>1, <2>3, <2>4, InHandStill
  <2>6. hi[Top.current] < r
    BY <1>1, <1>2, <1>4, <1>6, CurrentIs
  <2>7. Clear(Top, r, nodes, hi)
    BY <1>1, <1>2, <1>4, ClearAtEnd
  <2>8. c.open < f /\ (\A i \in 1 .. Len(c.ops) : nodes[c.ops[i]].at < c.open)
    BY <1>5, <1>7, <2>7 DEF Clear, Begins
  <2>9. /\ \A i \in 1 .. Len(c.parts) : Lies(c.parts[i], c, nodes, lo, hi, w, f)
        /\ Lies(c.current, c, nodes, lo, hi, w, f)
    BY <1>6, <1>7, <2>2, <2>5 DEF InHand, Lies
  <2>10. c.step \notin Opened /\ c.step # "list" /\ hi[c.current] < c.open
    BY <1>7, <2>6 DEF Opened
  <2> QED
    BY <1>6, <1>7, <2>2, <2>5, <2>8, <2>9, <2>10 DEF InHand
<1>9. SameOps(c) /\ Taken(c) /\ Top.step # "list"
  BY <1>1, <1>3, <1>7 DEF SameOps, Taken, OwnNode
<1>10. \A n \in 1 .. Len(nodes) : RootOf(Top, n) => RootOf(c, n)
  BY <1>1, <1>7 DEF RootOf
<1>11. InHand(c, nodes, lo, hi, Waiting, f)
  BY <1>2, <1>8
<1> QED
  BY <1>1, <1>3, <1>4, <1>5, <1>9, <1>10, <1>11, ForestByPush

-----------------------------------------------------------------------------
(* The operators of the call on top.  Nobody else waits for them.          *)
Mine(m) == \E j \in 1 .. Len(Top.ops) : Top.ops[j] = m

LEMMA MineIs ==
  ASSUME HInv, calls # <<>>
  PROVE  /\ \A d \in 1 .. Len(calls) - 1 : \A i \in 1 .. Len(calls[d].ops) : ~Mine(calls[d].ops[i])
         /\ statement # 0 => ~Mine(statement)
         /\ \A m : Mine(m) => /\ m \in Waiting /\ m \in 1 .. Len(nodes) /\ nodes[m].kind = "operation"
                              /\ nodes[m].by = Top.from
<1>1. /\ EInv /\ Edged /\ TypeOK /\ Holes /\ Len(calls) \in 1 .. Len(calls) /\ Top = calls[Len(calls)] /\ Busy
  BY TopIs DEF HInv, EInv, OInv, TInv, Busy
<1>2. Edges(Top, nodes, read)
  BY <1>1 DEF Edged
<1>3. \A m : Mine(m) => /\ m \in Waiting /\ m \in 1 .. Len(nodes) /\ nodes[m].kind = "operation"
                        /\ nodes[m].by = Top.from
  BY <1>1, <1>2, WaitingIs, OpsAre DEF Edges, Mine
<1>4. statement # 0 => nodes[statement].kind = "if"
  BY <1>1 DEF Holes, Hole
<1> QED
  BY <1>1, <1>3, <1>4, OpsApart DEF Mine

LEMMA WaitingByEnd ==
  ASSUME HInv, TypeOK', EndOfExpr
  PROVE  \A m : m \in Waiting' <=> m \in Waiting /\ ~Mine(m)
<1>1. /\ TInv /\ TypeOK /\ calls # <<>> /\ Busy /\ statement' = statement
  BY CallingIs DEF HInv, EInv, OInv, TInv, EndOfExpr, At
<1>2. /\ result' # 0 /\ nodes' = Linked /\ Len(Linked) = Len(nodes)
      /\ Len(calls') = Len(calls) - 1 /\ \A d \in 1 .. Len(calls) - 1 : calls'[d] = calls[d]
  BY <1>1, EndOfExprIs, LinkedIs DEF EndOfExpr, At
<1>3. Len(calls) \in Nat \ {0} /\ Top = calls[Len(calls)] /\ Busy'
  BY <1>1, <1>2, TopIs DEF Busy
<1>4. ASSUME NEW m \in Waiting, ~Mine(m) PROVE m \in Waiting'
  <2>1. m \in 1 .. Len(nodes')
    BY <1>1, <1>2, WaitingIs
  <2>2. CASE m = statement
    BY <1>1, <1>3, <2>1, <2>2 DEF Waiting
  <2>3. CASE m # statement
    <3>1. PICK d \in 1 .. Len(calls) : \E i \in 1 .. Len(calls[d].ops) : calls[d].ops[i] = m
      BY <2>3 DEF Waiting
    <3>2. d # Len(calls)
      BY <1>3, <1>4, <3>1 DEF Mine
    <3>3. d \in 1 .. Len(calls') /\ calls'[d] = calls[d]
      BY <1>2, <1>3, <3>1, <3>2
    <3> QED
      BY <2>1, <3>1, <3>3 DEF Waiting
  <2> QED
    BY <2>2, <2>3
<1>5. ASSUME NEW m \in Waiting' PROVE m \in Waiting /\ ~Mine(m)
  <2>1. m \in 1 .. Len(nodes)
    BY <1>2, <1>5 DEF Waiting
  <2>2. CASE m = statement
    BY <1>1, <2>1, <2>2, MineIs, WaitingIs
  <2>3. CASE m # statement
    <3>1. PICK d \in 1 .. Len(calls') : \E i \in 1 .. Len(calls'[d].ops) : calls'[d].ops[i] = m
      BY <1>1, <1>5, <2>3 DEF Waiting
    <3>2. d \in 1 .. Len(calls) - 1 /\ d \in 1 .. Len(calls) /\ calls'[d] = calls[d]
      BY <1>2, <1>3, <3>1
    <3> QED
      BY <1>1, <3>1, <3>2, MineIs, WaitingIs
  <2> QED
    BY <2>2, <2>3
<1> QED
  BY <1>4, <1>5

(* What comes behind an operator of the call, once the operand in hand is  *)
(* linked: the next operator or this operand.                              *)
NextTo(i) == IF i = Len(Top.ops) THEN Top.current ELSE Top.ops[i + 1]

LEMMA ChainIs ==
  ASSUME EInv, calls # <<>>, Top.step = "operator", result = 0, NEW lo, NEW hi, Laid(lo, hi),
         NEW i \in 1 .. Len(Top.ops)
  PROVE  /\ Top.ops[i] \in 1 .. Len(nodes) /\ Linked[Top.ops[i]].after = <<NextTo(i)>>
         /\ NextTo(i) \in 1 .. Len(nodes) /\ nodes[Top.ops[i]].at < lo[NextTo(i)]
         /\ i < Len(Top.ops) => NextTo(i) = Top.ops[i + 1] /\ i + 1 \in 1 .. Len(Top.ops)
         /\ i = Len(Top.ops) => /\ NextTo(i) = Top.current /\ nodes[Top.ops[i]].after = <<>>
                                /\ Top.current \notin Waiting /\ hi[Top.current] < Len(read)
<1>1. /\ TInv /\ TypeOK /\ Edged /\ Len(calls) \in 1 .. Len(calls) /\ Top = calls[Len(calls)]
  BY TopIs DEF EInv, OInv, TInv
<1>2. /\ Len(Top.ops) \in Nat /\ (\A j \in 1 .. Len(Top.ops) : Top.ops[j] \in 1 .. Len(nodes))
      /\ Top.current \in 1 .. Len(nodes) /\ Top.ops # <<>>
      /\ \A m \in 1 .. Len(nodes) :
           Linked[m].after = IF m = Top.ops[Len(Top.ops)] THEN <<Top.current>> ELSE nodes[m].after
  <2>1. /\ Len(Top.ops) \in Nat /\ (\A j \in 1 .. Len(Top.ops) : Top.ops[j] \in 1 .. Len(nodes))
        /\ Top.current \in 1 .. Len(nodes) /\ (Top.ops # <<>> <=> Len(Top.ops) > 0)
    BY <1>1, LinkedIs
  <2>2. Top.ops # <<>>
    BY <2>1
  <2> QED
    BY <1>1, <2>1, <2>2, LinkedIs
<1>3. Edges(Top, nodes, read)
  BY <1>1 DEF Edged
<1>4. CASE i = Len(Top.ops)
  <2>1. NextTo(i) = Top.current /\ nodes[Top.ops[i]].after = <<>> /\ Linked[Top.ops[i]].after = <<NextTo(i)>>
    BY <1>2, <1>3, <1>4 DEF NextTo, Edges
  <2>2. Top.current # 0
    BY <1>2
  <2>3. Top.current \notin Waiting /\ hi[Top.current] < Len(read) /\ Begins(Top, lo[Top.current], nodes)
    BY <1>1, <2>2, CurrentIs DEF Clear
  <2> QED
    BY <1>2, <1>4, <2>1, <2>3 DEF Begins
<1>5. CASE i # Len(Top.ops)
  <2>1. i < Len(Top.ops) /\ i \in 1 .. Len(Top.ops) - 1 /\ i + 1 \in 1 .. Len(Top.ops) /\ Len(Top.ops) \in 1 .. Len(Top.ops)
    BY <1>2, <1>5
  <2>2. Top.ops[i] # Top.ops[Len(Top.ops)]
    <3>1. Top.ops[i] < Top.ops[Len(Top.ops)]
      BY <1>3, <2>1 DEF Edges
    <3> QED
      BY <1>2, <2>1, <3>1
  <2>3. nodes[Top.ops[i]].after = <<Top.ops[i + 1]>>
    BY <1>3, <2>1 DEF Edges
  <2>4. Linked[Top.ops[i]].after = <<NextTo(i)>> /\ NextTo(i) = Top.ops[i + 1] /\ NextTo(i) \in 1 .. Len(nodes)
    BY <1>2, <1>5, <2>1, <2>2, <2>3 DEF NextTo
  <2>5. nodes[Top.ops[i]].at < lo[NextTo(i)]
    <3>1. Spans(Top.ops[i], nodes, lo, hi, Waiting, Len(read))
      BY <1>2 DEF Laid
    <3>2. PICK a : a = <<NextTo(i)>>
      OBVIOUS
    <3>3. Len(a) = 1 /\ a[1] = NextTo(i) /\ nodes[Top.ops[i]].after = a /\ 1 \in 1 .. Len(a)
      BY <2>3, <2>4, <3>2
    <3>4. nodes[Top.ops[i]].at < lo[a[1]]
      BY <3>1, <3>3 DEF Spans
    <3> QED
      BY <3>3, <3>4
  <2> QED
    BY <1>2, <1>5, <2>1, <2>4, <2>5
<1> QED
  BY <1>4, <1>5

(* An operator that has its right side and waits no more.                  *)
LEMMA CompleteSpans ==
  ASSUME NEW r \in Nat \ {0}, NEW k \in Nat, NEW n \in 1 .. k, NEW nd, nd[n] \in NodeSet(r, k),
         NEW lo \in [1 .. k -> Nat], NEW hi \in [1 .. k -> Nat], NEW w, Spans(n, nd, lo, hi, w, r),
         NEW nd2, NEW hi2, NEW lo2, NEW w2, NEW r2 \in Nat, r <= r2, Follows(k, nd, lo, hi, w, nd2, lo2, hi2, w2),
         nd2[n].before = nd[n].before, NEW x, nd2[n].after = <<x>>, nd[n].at < lo2[x],
         n \in w2 \/ (x \notin w2 /\ hi2[n] = r - 1 /\ hi2[x] <= r - 1)
  PROVE  Spans(n, nd2, lo2, hi2, w2, r2)
<1> DEFINE b == nd[n].before
<1>1. /\ Len(b) \in Nat /\ (\A i \in 1 .. Len(b) : b[i] \in 1 .. k) /\ nd[n].at \in 1 .. r
  BY LinksOf
<1>2. /\ 1 <= lo[n] /\ lo[n] <= nd[n].at /\ nd[n].at < r
      /\ \A i \in 1 .. Len(b) : b[i] \notin w /\ lo[n] <= lo[b[i]] /\ hi[b[i]] < nd[n].at
  BY DEF Spans
<1>3. nd2[n].before = b
  OBVIOUS
<1>8. PICK a : a = <<x>>
  OBVIOUS
<1>4. nd2[n].after = a /\ Len(a) = 1 /\ a[1] = x /\ nd2[n].at = nd[n].at /\ lo2[n] = lo[n] /\ lo[n] \in Nat
  BY <1>8 DEF Follows
<1> HIDE DEF b
<1>5. ASSUME NEW i \in 1 .. Len(b)
      PROVE  b[i] \notin w2 /\ lo2[n] <= lo2[b[i]] /\ hi2[b[i]] < nd2[n].at
  <2>1. b[i] \in 1 .. k /\ b[i] \notin w
    BY <1>1, <1>2
  <2>2. lo2[b[i]] = lo[b[i]] /\ b[i] \notin w2 /\ hi2[b[i]] = hi[b[i]]
    BY <2>1 DEF Follows
  <2> QED
    BY <1>2, <1>4, <2>2
<1>6. 1 <= lo2[n] /\ lo2[n] <= nd2[n].at /\ nd2[n].at < r2
  BY <1>1, <1>2, <1>4
<1>7. ASSUME n \notin w2
      PROVE  nd2[n].at <= hi2[n] /\ hi2[n] < r2 /\ x \notin w2 /\ hi2[x] <= hi2[n]
  BY <1>1, <1>2, <1>4, <1>7
<1>9. /\ \A i \in 1 .. Len(a) : i = 1
      /\ \A i, j \in 1 .. Len(a) : ~(i < j)
  BY <1>4
<1> QED
  BY <1>3, <1>4, <1>5, <1>6, <1>7, <1>9 DEF Spans

(* The end of an expression: its operators wait no more, and the first of  *)
(* them, or the operand, is what the caller gets.                          *)
Finished(hi, r) == [m \in 1 .. Len(nodes) |-> IF Mine(m) THEN r - 1 ELSE hi[m]]

LEMMA FinishedIs ==
  ASSUME HInv, calls # <<>>, Top.step = "operator", NEW lo, NEW hi, Laid(lo, hi)
  PROVE  /\ Finished(hi, Len(read)) \in [1 .. Len(nodes) -> Nat]
         /\ \A m \in 1 .. Len(nodes) : /\ Mine(m) => Finished(hi, Len(read))[m] = Len(read) - 1
                                       /\ ~Mine(m) => Finished(hi, Len(read))[m] = hi[m]
<1>1. TInv /\ Len(read) \in Nat \ {0}
  BY PartsOf DEF HInv, EInv, OInv
<1>2. hi \in [1 .. Len(nodes) -> Nat] /\ Len(read) - 1 \in Nat
  BY <1>1, LaidIs
<1> QED
  BY <1>2 DEF Finished

(* What the call returns begins where the call began, or later.            *)
LEMMA RootIs ==
  ASSUME HInv, calls # <<>>, Top.step = "operator", result = 0, NEW lo, NEW hi, Laid(lo, hi)
  PROVE  /\ Root(Top.current) \in 1 .. Len(nodes) /\ Top.from <= lo[Root(Top.current)]
         /\ Mine(Root(Top.current)) \/ (Root(Top.current) = Top.current /\ Top.current \notin Waiting)
<1>1. EInv /\ OInv /\ TInv
  BY DEF HInv, EInv, OInv
<1>2. /\ Len(Top.ops) \in Nat /\ (\A j \in 1 .. Len(Top.ops) : Top.ops[j] \in 1 .. Len(nodes))
      /\ Top.current \in 1 .. Len(nodes) /\ (Top.ops # <<>> <=> Len(Top.ops) > 0) /\ Top.current # 0
  BY <1>1, LinkedIs
<1>3. InHand(Top, nodes, lo, hi, Waiting, TopLimit(lo))
  BY <1>1, TopInHand
<1>4. CASE Top.ops = <<>>
  <2>1. Root(Top.current) = Top.current
    BY <1>4 DEF Root
  <2> QED
    BY <1>1, <1>2, <2>1, CurrentIs DEF Clear, Begins
<1>5. CASE Top.ops # <<>>
  <2>1. Root(Top.current) = Top.ops[1] /\ 1 \in 1 .. Len(Top.ops)
    BY <1>2, <1>5 DEF Root
  <2>2. Top.from <= lo[Top.ops[1]]
    BY <1>3, <1>5 DEF InHand
  <2>3. Mine(Top.ops[1])
    BY <2>1 DEF Mine
  <2> QED
    BY <1>2, <2>1, <2>2, <2>3
<1> QED
  BY <1>4, <1>5

LEMMA FollowsByEnd ==
  ASSUME HInv, TypeOK', EndOfExpr, NEW lo, NEW hi, Laid(lo, hi), NEW w2, w2 = Waiting'
  PROVE  /\ Follows(Len(nodes), nodes, lo, hi, Waiting, nodes', lo, Finished(hi, Len(read)), w2)
         /\ \A n \in 1 .. Len(nodes) : Spans(n, nodes', lo, Finished(hi, Len(read)), w2, Len(read))
         /\ \A n \in 1 .. Len(nodes) : Sided(n, nodes, Waiting) => Sided(n, nodes', w2)
<1>1. /\ EInv /\ TInv /\ TypeOK /\ calls # <<>> /\ Top.step = "operator" /\ result = 0
      /\ nodes' = Linked /\ Len(Linked) = Len(nodes)
  BY LinkedIs DEF HInv, EInv, OInv, TInv, EndOfExpr, At
<1>2. PICK w, k, r, hi2 : w = Waiting /\ k = Len(nodes) /\ r = Len(read) /\ hi2 = Finished(hi, r)
  OBVIOUS
<1>3. /\ r \in Nat \ {0} /\ k \in Nat /\ lo \in [1 .. k -> Nat] /\ hi \in [1 .. k -> Nat]
      /\ \A m \in 1 .. k : nodes[m] \in NodeSet(r, k)
  BY <1>1, <1>2, PartsOf, LaidIs
<1>4. /\ hi2 \in [1 .. k -> Nat]
      /\ \A m \in 1 .. k : (Mine(m) => hi2[m] = r - 1) /\ (~Mine(m) => hi2[m] = hi[m])
  BY <1>1, <1>2, FinishedIs
<1>5. \A m : m \in w2 <=> m \in w /\ ~Mine(m)
  BY <1>2, WaitingByEnd
<1>6. \A m : Mine(m) => m \in w
  BY <1>1, <1>2, MineIs
<1>7. \A m \in 1 .. k : /\ nodes'[m].kind = nodes[m].kind /\ nodes'[m].at = nodes[m].at
                        /\ nodes'[m].before = nodes[m].before
                        /\ ~Mine(m) => nodes'[m].after = nodes[m].after
  <2> SUFFICES ASSUME NEW m \in 1 .. k
               PROVE  /\ nodes'[m].kind = nodes[m].kind /\ nodes'[m].at = nodes[m].at
                      /\ nodes'[m].before = nodes[m].before
                      /\ ~Mine(m) => nodes'[m].after = nodes[m].after
    OBVIOUS
  <2>1. Len(Top.ops) \in Nat /\ (Top.ops # <<>> => Len(Top.ops) \in 1 .. Len(Top.ops))
    BY <1>1, LinkedIs
  <2>2. ~Mine(m) => ~(Top.ops # <<>> /\ m = Top.ops[Len(Top.ops)])
    BY <2>1 DEF Mine
  <2> QED
    BY <1>1, <1>2, <2>2, LinkedIs
<1>8. Follows(k, nodes, lo, hi, w, nodes', lo, hi2, w2)
  BY <1>4, <1>5, <1>6, <1>7 DEF Follows
<1>9. ASSUME NEW n \in 1 .. k
      PROVE  Spans(n, nodes', lo, hi2, w2, r) /\ (Sided(n, nodes, w) => Sided(n, nodes', w2))
  <2>1. /\ Spans(n, nodes, lo, hi, w, r) /\ nodes[n] \in NodeSet(r, k) /\ r <= r
        /\ nodes'[n].before = nodes[n].before /\ r \in Nat
    BY <1>2, <1>3, <1>7 DEF Laid
  <2>2. CASE ~Mine(n)
    <3>1. n \notin w \/ n \in w2
      BY <1>5, <2>2
    <3>2. Spans(n, nodes', lo, hi2, w2, r)
      <4>1. nodes'[n].after = nodes[n].after
        BY <1>7, <2>2
      <4> QED
        BY <1>3, <1>8, <2>1, <3>1, <4>1, SpansStill
    <3> QED
      BY <1>7, <2>2, <3>1, <3>2 DEF Sided
  <2>3. CASE Mine(n)
    <3>1. PICK i \in 1 .. Len(Top.ops) : Top.ops[i] = n
      BY <2>3 DEF Mine
    <3>2. PICK x : x = NextTo(i)
      OBVIOUS
    <3>3. /\ nodes'[n].after = <<x>> /\ x \in 1 .. k /\ nodes[n].at < lo[x]
          /\ i < Len(Top.ops) => x = Top.ops[i + 1] /\ i + 1 \in 1 .. Len(Top.ops)
          /\ i = Len(Top.ops) => x \notin w /\ hi[x] < r
      BY <1>1, <1>2, <3>1, <3>2, ChainIs
    <3>4. x \notin w2 /\ hi2[x] <= r - 1
      <4>1. CASE i < Len(Top.ops)
        <5>1. Mine(x)
          BY <3>3, <4>1 DEF Mine
        <5>2. hi2[x] = r - 1
          BY <1>4, <3>3, <5>1
        <5> QED
          BY <1>3, <1>5, <5>1, <5>2
      <4>2. CASE i = Len(Top.ops)
        <5>1. x \notin w /\ ~Mine(x) /\ hi[x] < r /\ hi[x] \in Nat /\ hi2[x] = hi[x]
          BY <1>3, <1>4, <1>6, <3>3, <4>2
        <5> QED
          BY <1>3, <1>5, <5>1
      <4>3. Len(Top.ops) \in Nat
        BY <1>1, LinkedIs
      <4> QED
        BY <3>1, <4>1, <4>2, <4>3
    <3>5. hi2[n] = r - 1 /\ n \notin w2 /\ nodes[n].kind = "operation"
      BY <1>1, <1>4, <1>5, <2>3, MineIs
    <3>6. Spans(n, nodes', lo, hi2, w2, r)
      <4>1. n \in w2 \/ (x \notin w2 /\ hi2[n] = r - 1 /\ hi2[x] <= r - 1)
        BY <3>4, <3>5
      <4> QED
        BY <1>3, <1>8, <2>1, <3>3, <4>1, CompleteSpans
    <3>7. PICK a : a = <<x>>
      OBVIOUS
    <3>8. Len(a) = 1 /\ nodes'[n].after = a
      BY <3>3, <3>7
    <3> QED
      BY <1>7, <3>5, <3>6, <3>8 DEF Sided
  <2> QED
    BY <2>2, <2>3
<1> QED
  BY <1>2, <1>8, <1>9

LEMMA LaidByEnd ==
  ASSUME HInv, TypeOK', EndOfExpr, NEW lo, NEW hi, Laid(lo, hi)
  PROVE  (\E lo3, hi3 : Laid(lo3, hi3))'
<1>1. /\ EInv /\ OInv /\ TInv /\ TypeOK /\ calls # <<>> /\ Top.step = "operator" /\ result = 0
      /\ read' = read /\ statement' = statement
  BY DEF HInv, EInv, OInv, TInv, EndOfExpr, At
<1>2. /\ result' = Root(Top.current) /\ result' # 0 /\ nodes' = Linked /\ Len(nodes') = Len(nodes)
      /\ Len(calls') = Len(calls) - 1 /\ \A d \in 1 .. Len(calls) - 1 : calls'[d] = calls[d]
  BY <1>1, EndOfExprIs, LinkedIs
<1>3. PICK w, w2, k, r, hi2 : w = Waiting /\ w2 = Waiting' /\ k = Len(nodes) /\ r = Len(read) /\ hi2 = Finished(hi, r)
  OBVIOUS
<1>4. /\ Follows(k, nodes, lo, hi, w, nodes', lo, hi2, w2)
      /\ \A n \in 1 .. k : Spans(n, nodes', lo, hi2, w2, r)
      /\ hi2 \in [1 .. k -> Nat] /\ lo \in [1 .. k -> Nat] /\ hi \in [1 .. k -> Nat]
      /\ \A m \in 1 .. k : nodes[m].at \in Int
  BY <1>1, <1>3, FollowsByEnd, FinishedIs, LaidIs
<1>5. Len(calls) \in Nat \ {0} /\ Top = calls[Len(calls)]
  BY <1>1, TopIs
<1>6. /\ Root(Top.current) \in 1 .. k /\ Top.from <= lo[Root(Top.current)]
      /\ Mine(Root(Top.current)) \/ (Root(Top.current) = Top.current /\ Top.current \notin w)
  BY <1>1, <1>3, RootIs
<1>7. \A d \in 0 .. Len(calls) - 1 : /\ Limit(d, lo)' \in Int /\ Limit(d, lo) \in Int
                                     /\ Limit(d, lo) <= Limit(d, lo)'
  <2> SUFFICES ASSUME NEW d \in 0 .. Len(calls) - 1
               PROVE  /\ Limit(d, lo)' \in Int /\ Limit(d, lo) \in Int /\ Limit(d, lo) <= Limit(d, lo)'
    OBVIOUS
  <2>1. d + 1 \in 1 .. Len(calls) /\ d < Len(calls) /\ Limit(d, lo) = calls[d + 1].from /\ calls[d + 1].from \in Int
    BY <1>1, <1>5, PlacesAre DEF Limit
  <2>2. CASE d = Len(calls) - 1
    <3>1. Limit(d, lo)' = lo[result'] /\ Limit(d, lo) = Top.from
      BY <1>2, <1>5, <2>1, <2>2 DEF Limit
    <3>2. lo[result'] \in Int
      BY <1>2, <1>4, <1>6
    <3> QED
      BY <1>2, <1>6, <2>1, <3>1, <3>2
  <2>3. CASE d # Len(calls) - 1
    <3>1. d < Len(calls') /\ d + 1 \in 1 .. Len(calls) - 1
      BY <1>2, <1>5, <2>3
    <3>2. Limit(d, lo)' = calls[d + 1].from
      BY <1>2, <3>1 DEF Limit
    <3> QED
      BY <2>1, <3>2
  <2> QED
    BY <2>2, <2>3
<1>8. ASSUME NEW d \in 1 .. Len(calls') PROVE InHand(calls'[d], nodes', lo, hi2, w2, Limit(d, lo)')
  <2>1. d \in 1 .. Len(calls) - 1 /\ d \in 1 .. Len(calls) /\ d \in 0 .. Len(calls) - 1 /\ calls'[d] = calls[d]
    BY <1>2, <1>5
  <2>2. PICK c, limit, limit2 : c = calls[d] /\ limit = Limit(d, lo) /\ limit2 = Limit(d, lo)'
    OBVIOUS
  <2>3. InHand(c, nodes, lo, hi, w, limit) /\ Held(c) /\ c \in CallSet(r, k) /\ r \in Nat /\ k \in Nat
    BY <1>1, <1>3, <2>1, <2>2, PartsOf DEF Laid
  <2>4. limit \in Int /\ limit2 \in Int /\ limit <= limit2
    BY <1>7, <2>1, <2>2
  <2>5. InHand(c, nodes', lo, hi2, w2, limit2)
    BY <1>4, <2>3, <2>4, InHandStill
  <2> QED
    BY <2>1, <2>2, <2>5
<1>9. statement' # 0 => nodes'[statement'].at < Limit(0, lo)'
  <2> SUFFICES ASSUME statement # 0 PROVE nodes'[statement].at < Limit(0, lo)'
    BY <1>1
  <2>1. statement \in 1 .. k /\ nodes[statement].at < Limit(0, lo) /\ 0 \in 0 .. Len(calls) - 1
    BY <1>1, <1>3, <1>5, PartsOf DEF Laid
  <2>2. nodes'[statement].at = nodes[statement].at /\ nodes[statement].at \in Int
    BY <1>4, <2>1 DEF Follows
  <2> QED
    BY <1>7, <2>1, <2>2
<1>10. result' \notin w2
  <2>1. \A m : m \in w2 <=> m \in w /\ ~Mine(m)
    BY <1>3, WaitingByEnd
  <2> QED
    BY <1>2, <1>6, <2>1
<1>11. Laid(lo, hi2)'
  BY <1>1, <1>2, <1>3, <1>4, <1>8, <1>9, <1>10 DEF Laid
<1> QED
  BY <1>11

LEMMA EndMarksAre == \A s \in States : \A t \in EndMarks(s) : t \notin OwnNode
BY DEF States, EndMarks, OwnNode

LEMMA AttachedByEnd ==
  ASSUME HInv, TypeOK', EndOfExpr, Attached
  PROVE  Attached'
<1>1. /\ EInv /\ Edged /\ TInv /\ TypeOK /\ calls # <<>> /\ Top.step = "operator" /\ result = 0
      /\ statement' = statement
  BY DEF HInv, EInv, OInv, TInv, EndOfExpr, At
<1>2. /\ result' = Root(Top.current) /\ nodes' = Linked /\ Len(nodes') = Len(nodes)
      /\ Len(calls') = Len(calls) - 1 /\ \A d \in 1 .. Len(calls) - 1 : calls'[d] = calls[d]
  BY <1>1, EndOfExprIs, LinkedIs
<1>3. Len(calls) \in Nat \ {0} /\ Top = calls[Len(calls)] /\ Held(Top) /\ Len(calls) \in 1 .. Len(calls)
  BY <1>1, TopIs DEF TInv, HeldInv
<1>4. /\ Len(Top.ops) \in Nat /\ (Top.ops # <<>> => Len(Top.ops) \in 1 .. Len(Top.ops))
      /\ \A j \in 1 .. Len(Top.ops) : Top.ops[j] \in 1 .. Len(nodes)
  BY <1>1, LinkedIs
<1>5. Top.ops # <<>> => Len(nodes[Top.ops[Len(Top.ops)]].after) = 0
  BY <1>1, <1>3 DEF Edged, Edges
<1>6. ASSUME NEW n, HangsOn(n, nodes) PROVE HangsOn(n, nodes')
  <2>1. PICK m \in 1 .. Len(nodes) : \/ \E i \in 1 .. Len(nodes[m].before) : nodes[m].before[i] = n
                                     \/ \E i \in 1 .. Len(nodes[m].after) : nodes[m].after[i] = n
    BY <1>6 DEF HangsOn
  <2>2. nodes'[m].before = nodes[m].before
    BY <1>1, <1>2, LinkedIs
  <2>3. CASE Top.ops # <<>> /\ m = Top.ops[Len(Top.ops)]
    <3>1. \E i \in 1 .. Len(nodes[m].before) : nodes[m].before[i] = n
      BY <1>5, <2>1, <2>3
    <3> QED
      BY <1>2, <2>2, <3>1 DEF HangsOn
  <2>4. CASE ~(Top.ops # <<>> /\ m = Top.ops[Len(Top.ops)])
    <3>1. nodes'[m].after = nodes[m].after
      BY <1>1, <1>2, <2>4, LinkedIs
    <3> QED
      BY <1>2, <2>1, <2>2, <3>1 DEF HangsOn
  <2> QED
    BY <2>3, <2>4
<1>7. ASSUME NEW n \in 1 .. Len(nodes), RootOf(Top, n) PROVE n = result' \/ HangsOn(n, nodes')
  <2>1. Len(Top.parts) = 0 /\ Top.step # "list"
    BY <1>1, <1>3 DEF Held
  <2>2. CASE Top.ops # <<>> /\ Top.ops[1] = n
    BY <1>2, <2>2 DEF Root
  <2>3. CASE Top.current = n
    <3>1. CASE Top.ops = <<>>
      BY <1>2, <2>3, <3>1 DEF Root
    <3>2. CASE Top.ops # <<>>
      <4>1. PICK m, a : m = Top.ops[Len(Top.ops)] /\ a = <<Top.current>>
        OBVIOUS
      <4>2. nodes'[m].after = a /\ m \in 1 .. Len(nodes')
        BY <1>1, <1>2, <1>4, <3>2, <4>1, LinkedIs
      <4>3. 1 \in 1 .. Len(a) /\ a[1] = n
        BY <2>3, <4>1
      <4> QED
        BY <4>2, <4>3 DEF HangsOn
    <3> QED
      BY <3>1, <3>2
  <2> QED
    BY <1>7, <2>1, <2>2, <2>3 DEF RootOf
<1>8. ASSUME NEW n \in 1 .. Len(nodes')
      PROVE  \/ n = result' \/ n = statement' \/ HangsOn(n, nodes')
             \/ \E d \in 1 .. Len(calls') : RootOf(calls'[d], n)
  <2>1. n \in 1 .. Len(nodes) /\ n # result
    BY <1>1, <1>2
  <2>2. CASE n = statement \/ HangsOn(n, nodes)
    BY <1>1, <1>6, <2>2
  <2>3. CASE \E d \in 1 .. Len(calls) : RootOf(calls[d], n)
    <3>1. PICK d \in 1 .. Len(calls) : RootOf(calls[d], n)
      BY <2>3
    <3>2. CASE d = Len(calls)
      BY <1>3, <1>7, <2>1, <3>1, <3>2
    <3>3. CASE d # Len(calls)
      <4>1. d \in 1 .. Len(calls') /\ calls'[d] = calls[d]
        BY <1>2, <1>3, <3>3
      <4> QED
        BY <3>1, <4>1
    <3> QED
      BY <3>2, <3>3
  <2> QED
    BY <2>1, <2>2, <2>3 DEF Attached
<1> QED
  BY <1>8 DEF Attached

LEMMA ForestByEnd ==
  ASSUME HInv, TypeOK', Forest, EndOfExpr
  PROVE  Forest'
<1>1. /\ TInv /\ TypeOK /\ calls # <<>> /\ Top.step = "operator" /\ read' = read /\ value \in EndMarks(Top.state)
      /\ verdict' = "compiling"
  BY DEF HInv, EInv, OInv, TInv, EndOfExpr, At
<1>2. /\ nodes' = Linked /\ Len(nodes') = Len(nodes)
      /\ Len(calls') = Len(calls) - 1 /\ \A d \in 1 .. Len(calls) - 1 : calls'[d] = calls[d]
      /\ \A m \in 1 .. Len(nodes) : nodes'[m].at = nodes[m].at
  BY <1>1, EndOfExprIs, LinkedIs
<1>3. Len(calls) \in Nat \ {0} /\ Top = calls[Len(calls)] /\ Top.state \in States
  BY <1>1, TopIs DEF CallSet
<1>4. (\E lo3, hi3 : Laid(lo3, hi3))'
  BY LaidByEnd DEF Forest
<1>5. Attached'
  BY AttachedByEnd DEF Forest
<1>6. \A n \in 1 .. Len(nodes') : Sided(n, nodes', Waiting')
  <2>1. PICK lo, hi : Laid(lo, hi)
    BY DEF Forest
  <2>2. PICK w2 : w2 = Waiting'
    OBVIOUS
  <2> QED
    BY <1>2, <2>1, <2>2, FollowsByEnd DEF Forest
<1>7. Made'
  <2>1. value' = value /\ value \notin OwnNode
    BY <1>1, <1>3, EndMarksAre DEF value
  <2>2. ASSUME NEW p \in 1 .. Len(read) - 1, read[p] \in OwnNode
        PROVE  \/ \E n \in 1 .. Len(nodes') : nodes'[n].at = p
               \/ \E d \in 1 .. Len(calls') : calls'[d].step = "list" /\ calls'[d].open = p
    <3>1. CASE \E d \in 1 .. Len(calls) : calls[d].step = "list" /\ calls[d].open = p
      <4>1. PICK d \in 1 .. Len(calls) : calls[d].step = "list" /\ calls[d].open = p
        BY <3>1
      <4>2. d # Len(calls)
        BY <1>1, <1>3, <4>1
      <4>3. d \in 1 .. Len(calls') /\ calls'[d] = calls[d]
        BY <1>2, <1>3, <4>2
      <4> QED
        BY <4>1, <4>3
    <3> QED
      BY <1>2, <2>2, <3>1 DEF Forest, Made
  <2> QED
    BY <1>1, <2>1, <2>2 DEF Made
<1> QED
  BY <1>4, <1>5, <1>6, <1>7 DEF Forest

-----------------------------------------------------------------------------
(* A new operator: the operators of the call up to place i stay and wait,  *)
(* and what came next to that place becomes its left side.                 *)
OperatorAt(i, c) ==
  /\ TopBecomes(c) /\ c.from = Top.from /\ c.current = 0 /\ c.step = "symbol"
  /\ c.dot = Top.dot /\ c.parts = Top.parts
  /\ Len(c.ops) = i + 1 /\ c.ops[i + 1] = New /\ \A j \in 1 .. i : c.ops[j] = Top.ops[j]
  /\ Len(nodes') = New /\ nodes'[New] = Node("operation", Len(read), <<NextTo(i)>>, <<>>)
  /\ \A m \in 1 .. Len(nodes) : /\ nodes'[m].kind = nodes[m].kind /\ nodes'[m].at = nodes[m].at
                                /\ nodes'[m].before = nodes[m].before
                                /\ ~Mine(m) => nodes'[m].after = nodes[m].after
  /\ \A j \in 1 .. Len(Top.ops) : nodes'[Top.ops[j]].after = IF j = i THEN <<New>> ELSE <<NextTo(j)>>

LEMMA OperatorLinks ==
  ASSUME HInv, Operator, NEW lo, NEW hi, Laid(lo, hi)
  PROVE  \E i \in 0 .. Len(Top.ops) : \E c : OperatorAt(i, c)
<1>1. /\ EInv /\ TInv /\ TypeOK /\ Edged /\ calls # <<>> /\ Top.step = "operator" /\ result = 0
      /\ Top = calls[Len(calls)] /\ Len(calls) \in 1 .. Len(calls)
  <2>1. EInv /\ TInv /\ TypeOK /\ Edged /\ calls # <<>> /\ Top.step = "operator" /\ result = 0
    BY DEF HInv, EInv, OInv, TInv, Operator, At
  <2> QED
    BY <2>1, TopIs
<1>2. /\ Len(Top.ops) \in Nat /\ Top.ops \in Seq(1 .. Len(nodes)) /\ (Top.ops # <<>> <=> Len(Top.ops) > 0)
      /\ \A j \in 1 .. Len(Top.ops) : Top.ops[j] \in 1 .. Len(nodes)
  BY <1>1, LinkedIs
<1>3. Len(nodes) \in Nat /\ New = Len(nodes) + 1 /\ Len(nodes') = New
  BY <1>1, OperatorIs, StateIs DEF New
<1>4. \A j \in 1 .. Len(Top.ops) : Linked[Top.ops[j]].after = <<NextTo(j)>>
  BY <1>1, ChainIs
<1>5. \A m \in 1 .. Len(nodes) : /\ Linked[m].kind = nodes[m].kind /\ Linked[m].at = nodes[m].at
                                 /\ Linked[m].before = nodes[m].before
                                 /\ ~Mine(m) => Linked[m].after = nodes[m].after
  <2> SUFFICES ASSUME NEW m \in 1 .. Len(nodes)
               PROVE  /\ Linked[m].kind = nodes[m].kind /\ Linked[m].at = nodes[m].at
                      /\ Linked[m].before = nodes[m].before
                      /\ ~Mine(m) => Linked[m].after = nodes[m].after
    OBVIOUS
  <2>1. Top.ops # <<>> => Len(Top.ops) \in 1 .. Len(Top.ops)
    BY <1>2
  <2>2. ~Mine(m) => ~(Top.ops # <<>> /\ m = Top.ops[Len(Top.ops)])
    BY <2>1 DEF Mine
  <2> QED
    BY <1>1, <2>2, LinkedIs
<1>6. ASSUME TopBecomes(OnTop), nodes'[New] = Node("operation", Len(read), <<Root(Top.current)>>, <<>>),
             \A m \in 1 .. Len(nodes) : nodes'[m] = Linked[m]
      PROVE  OperatorAt(0, OnTop)
  <2>1. /\ OnTop.from = Top.from /\ OnTop.current = 0 /\ OnTop.step = "symbol" /\ OnTop.dot = Top.dot
        /\ OnTop.parts = Top.parts /\ OnTop.ops = <<New>>
    BY <1>1, TopIs DEF OnTop, CallSet
  <2>2. PICK q : q = <<New>>
    OBVIOUS
  <2>3. Len(q) = 0 + 1 /\ q[0 + 1] = New
    BY <2>2
  <2>4. Root(Top.current) = NextTo(0)
    BY <1>2 DEF Root, NextTo
  <2>5. ASSUME NEW j \in 1 .. Len(Top.ops)
        PROVE  nodes'[Top.ops[j]].after = IF j = 0 THEN <<New>> ELSE <<NextTo(j)>>
    <3>1. nodes'[Top.ops[j]] = Linked[Top.ops[j]]
      BY <1>2, <1>6
    <3>2. nodes'[Top.ops[j]].after = <<NextTo(j)>>
      BY <1>4, <3>1
    <3>3. j # 0
      BY <1>2
    <3> QED
      BY <3>2, <3>3
  <2>6. nodes'[New] = Node("operation", Len(read), <<NextTo(0)>>, <<>>)
    BY <1>6, <2>4
  <2>7. PICK c : c = OnTop
    OBVIOUS
  <2>8. \A m \in 1 .. Len(nodes) : /\ nodes'[m].kind = nodes[m].kind /\ nodes'[m].at = nodes[m].at
                                   /\ nodes'[m].before = nodes[m].before
                                   /\ ~Mine(m) => nodes'[m].after = nodes[m].after
    BY <1>5, <1>6
  <2>9. Len(c.ops) = 0 + 1 /\ c.ops[0 + 1] = New /\ \A j \in 1 .. 0 : c.ops[j] = Top.ops[j]
    BY <2>1, <2>2, <2>3, <2>7
  <2>10. /\ TopBecomes(c) /\ c.from = Top.from /\ c.current = 0 /\ c.step = "symbol"
         /\ c.dot = Top.dot /\ c.parts = Top.parts
    BY <1>6, <2>1, <2>7
  <2>11. OperatorAt(0, c)
    BY <1>3, <2>5, <2>6, <2>8, <2>9, <2>10 DEF OperatorAt
  <2> QED
    BY <2>7, <2>11
<1>7. ASSUME NEW i \in 1 .. Len(Top.ops), TopBecomes(Behind(i)),
             nodes'[New] = Node("operation", Len(read), Linked[Top.ops[i]].after, <<>>),
             SameBut(Linked, nodes', Top.ops[i]), nodes'[Top.ops[i]].after = <<New>>,
             \A m \in 1 .. Len(nodes) : m # Top.ops[i] => nodes'[m] = Linked[m]
      PROVE  OperatorAt(i, Behind(i))
  <2>1. PICK q : q = Append(SubSeq(Top.ops, 1, i), New)
    OBVIOUS
  <2>2. /\ Behind(i).from = Top.from /\ Behind(i).current = 0 /\ Behind(i).step = "symbol"
        /\ Behind(i).dot = Top.dot /\ Behind(i).parts = Top.parts /\ Behind(i).ops = q
    BY <1>1, <2>1, TopIs DEF Behind, CallSet
  <2>3. /\ Len(q) = i + 1 /\ q[i + 1] = New /\ \A j \in 1 .. i : q[j] = Top.ops[j]
    <3>1. PICK s : s = SubSeq(Top.ops, 1, i)
      OBVIOUS
    <3>2. s \in Seq(1 .. New) /\ Len(s) = i /\ \A j \in 1 .. i : s[j] = Top.ops[j]
      <4>1. Top.ops \in Seq(1 .. New) /\ i \in 0 .. Len(Top.ops)
        BY <1>2, <1>3, SequenceGrows
      <4> QED
        BY <3>1, <4>1, PrefixIs
    <3>3. New \in 1 .. New
      BY <1>3
    <3> QED
      BY <2>1, <3>1, <3>2, <3>3, AppendIs
  <2>4. nodes'[New] = Node("operation", Len(read), <<NextTo(i)>>, <<>>)
    BY <1>4, <1>7
  <2>5. \A m \in 1 .. Len(nodes) : /\ nodes'[m].kind = nodes[m].kind /\ nodes'[m].at = nodes[m].at
                                   /\ nodes'[m].before = nodes[m].before
                                   /\ ~Mine(m) => nodes'[m].after = nodes[m].after
    <3> SUFFICES ASSUME NEW m \in 1 .. Len(nodes)
                 PROVE  /\ nodes'[m].kind = nodes[m].kind /\ nodes'[m].at = nodes[m].at
                        /\ nodes'[m].before = nodes[m].before
                        /\ ~Mine(m) => nodes'[m].after = nodes[m].after
      OBVIOUS
    <3>1. CASE m = Top.ops[i]
      <4>1. Mine(m)
        BY <3>1 DEF Mine
      <4> QED
        BY <1>5, <1>7, <3>1, <4>1 DEF SameBut
    <3>2. CASE m # Top.ops[i]
      BY <1>5, <1>7, <3>2
    <3> QED
      BY <3>1, <3>2
  <2>6. ASSUME NEW j \in 1 .. Len(Top.ops), j # i PROVE nodes'[Top.ops[j]].after = <<NextTo(j)>>
    <3>1. Edges(Top, nodes, read)
      BY <1>1 DEF Edged
    <3>2. Top.ops[j] # Top.ops[i]
      <4>1. j < i \/ i < j
        BY <1>2, <2>6
      <4>2. Top.ops[j] < Top.ops[i] \/ Top.ops[i] < Top.ops[j]
        BY <3>1, <4>1 DEF Edges
      <4>3. Top.ops[j] \in Int /\ Top.ops[i] \in Int
        BY <1>2
      <4> QED
        BY <4>2, <4>3
    <3> QED
      BY <1>2, <1>4, <1>7, <3>2
  <2> QED
    BY <1>3, <1>7, <2>2, <2>3, <2>4, <2>5, <2>6 DEF OperatorAt
<1>8. \/ /\ TopBecomes(OnTop)
         /\ nodes'[New] = Node("operation", Len(read), <<Root(Top.current)>>, <<>>)
         /\ \A m \in 1 .. Len(nodes) : nodes'[m] = Linked[m]
      \/ \E i \in Above :
           /\ i \in 1 .. Len(Top.ops) /\ TopBecomes(Behind(i))
           /\ nodes'[New] = Node("operation", Len(read), Linked[Top.ops[i]].after, <<>>)
           /\ SameBut(Linked, nodes', Top.ops[i]) /\ nodes'[Top.ops[i]].after = <<New>>
           /\ \A m \in 1 .. Len(nodes) : m # Top.ops[i] => nodes'[m] = Linked[m]
  BY <1>1, OperatorIs
<1>9. \A i \in 1 .. Len(Top.ops) : i \in 0 .. Len(Top.ops)
  OBVIOUS
<1>10. 0 \in 0 .. Len(Top.ops)
  BY <1>2
<1> HIDE DEF OperatorAt
<1> QED
  BY <1>6, <1>7, <1>8, <1>9, <1>10

(* The operators behind place i wait no more.                              *)
Late(i, m) == \E j \in i + 1 .. Len(Top.ops) : Top.ops[j] = m

LEMMA LateIs ==
  ASSUME HInv, calls # <<>>, Top.step = "operator", NEW i \in 0 .. Len(Top.ops)
  PROVE  /\ \A m : Late(i, m) => Mine(m)
         /\ \A j \in 1 .. Len(Top.ops) : Late(i, Top.ops[j]) <=> i < j
<1>1. EInv /\ TypeOK /\ TInv /\ Edged /\ Len(calls) \in 1 .. Len(calls) /\ Top = calls[Len(calls)]
  BY TopIs DEF HInv, EInv, OInv, TInv
<1>2. Len(Top.ops) \in Nat /\ \A j \in 1 .. Len(Top.ops) : Top.ops[j] \in 1 .. Len(nodes)
  BY <1>1, LinkedIs
<1>3. Edges(Top, nodes, read)
  BY <1>1 DEF Edged
<1>4. ASSUME NEW j \in 1 .. Len(Top.ops), Late(i, Top.ops[j]) PROVE i < j
  <2>1. PICK g \in i + 1 .. Len(Top.ops) : Top.ops[g] = Top.ops[j]
    BY <1>4 DEF Late
  <2>2. ~(j < g)
    <3>1. g \in 1 .. Len(Top.ops)
      BY <1>2
    <3>2. j < g => Top.ops[j] < Top.ops[g]
      BY <1>3, <3>1 DEF Edges
    <3> QED
      BY <1>2, <2>1, <3>2
  <2> QED
    BY <1>2, <2>2
<1>5. ASSUME NEW j \in 1 .. Len(Top.ops), i < j PROVE Late(i, Top.ops[j])
  <2>1. j \in i + 1 .. Len(Top.ops)
    BY <1>2, <1>5
  <2> QED
    BY <2>1 DEF Late
<1>6. \A m : Late(i, m) => Mine(m)
  <2>1. \A j \in i + 1 .. Len(Top.ops) : j \in 1 .. Len(Top.ops)
    BY <1>2
  <2> QED
    BY <2>1 DEF Late, Mine
<1> QED
  BY <1>4, <1>5, <1>6

LEMMA WaitingByOperator ==
  ASSUME HInv, TypeOK', Operator, NEW i \in 0 .. Len(Top.ops), NEW c, OperatorAt(i, c)
  PROVE  /\ \A m \in 1 .. Len(nodes) : m \in Waiting' <=> m \in Waiting /\ ~Late(i, m)
         /\ New \in Waiting'
<1>1. /\ TInv /\ TypeOK /\ calls # <<>> /\ Top.step = "operator" /\ Busy /\ statement' = statement
  BY CallingIs DEF HInv, EInv, OInv, TInv, Operator, At
<1>2. /\ Len(nodes') = New /\ New = Len(nodes) + 1 /\ Len(nodes) \in Nat
      /\ Len(calls') = Len(calls) /\ calls'[Len(calls)] = c /\ \A d \in 1 .. Len(calls) - 1 : calls'[d] = calls[d]
      /\ Len(c.ops) = i + 1 /\ c.ops[i + 1] = New /\ \A j \in 1 .. i : c.ops[j] = Top.ops[j]
  BY <1>1, StateIs DEF OperatorAt, TopBecomes, New
<1>3. Len(calls) \in Nat \ {0} /\ Top = calls[Len(calls)] /\ Len(calls) \in 1 .. Len(calls) /\ Busy'
  BY <1>1, <1>2, TopIs, NextIs DEF Busy
<1>4. /\ Len(Top.ops) \in Nat /\ \A j \in 1 .. Len(Top.ops) : Top.ops[j] \in 1 .. Len(nodes)
  BY <1>1, LinkedIs
<1>5. /\ \A m : Late(i, m) => Mine(m)
      /\ \A j \in 1 .. Len(Top.ops) : Late(i, Top.ops[j]) <=> i < j
  BY <1>1, LateIs
<1>6. ASSUME NEW m \in 1 .. Len(nodes), m \in Waiting, ~Late(i, m) PROVE m \in Waiting'
  <2>1. m \in 1 .. Len(nodes')
    BY <1>2
  <2>2. CASE m = statement
    BY <1>1, <1>3, <2>1, <2>2 DEF Waiting
  <2>3. CASE m # statement
    <3>1. PICK d \in 1 .. Len(calls) : \E j \in 1 .. Len(calls[d].ops) : calls[d].ops[j] = m
      BY <1>6, <2>3 DEF Waiting
    <3>2. CASE d = Len(calls)
      <4>1. PICK j \in 1 .. Len(Top.ops) : Top.ops[j] = m
        BY <1>3, <3>1, <3>2
      <4>2. j \in 1 .. i
        BY <1>4, <1>5, <1>6, <4>1
      <4>3. j \in 1 .. Len(calls'[Len(calls)].ops) /\ calls'[Len(calls)].ops[j] = m
        BY <1>2, <4>1, <4>2
      <4> QED
        BY <1>2, <1>3, <2>1, <4>3 DEF Waiting
    <3>3. CASE d # Len(calls)
      <4>1. d \in 1 .. Len(calls') /\ calls'[d] = calls[d]
        BY <1>2, <1>3, <3>1, <3>3
      <4> QED
        BY <2>1, <3>1, <4>1 DEF Waiting
    <3> QED
      BY <3>2, <3>3
  <2> QED
    BY <2>2, <2>3
<1>7. ASSUME NEW m \in 1 .. Len(nodes), m \in Waiting' PROVE m \in Waiting /\ ~Late(i, m)
  <2>1. CASE m = statement
    BY <1>1, <1>5, <2>1, MineIs, WaitingIs
  <2>2. CASE m # statement
    <3>1. PICK d \in 1 .. Len(calls') : \E j \in 1 .. Len(calls'[d].ops) : calls'[d].ops[j] = m
      BY <1>1, <1>7, <2>2 DEF Waiting
    <3>2. CASE d = Len(calls)
      <4>1. PICK j \in 1 .. i + 1 : c.ops[j] = m
        BY <1>2, <3>1, <3>2
      <4>2. j \in 1 .. i /\ j \in 1 .. Len(Top.ops) /\ Top.ops[j] = m /\ ~(i < j)
        BY <1>2, <1>4, <4>1
      <4> QED
        BY <1>1, <1>3, <1>5, <4>2, WaitingIs
    <3>3. CASE d # Len(calls)
      <4>1. d \in 1 .. Len(calls)
        BY <1>2, <3>1
      <4>2. d \in 1 .. Len(calls) - 1
        BY <1>3, <3>3, <4>1
      <4>3. calls'[d] = calls[d]
        BY <1>2, <4>2
      <4>4. PICK j \in 1 .. Len(calls[d].ops) : calls[d].ops[j] = m
        BY <3>1, <4>3
      <4>5. ~Mine(m)
        <5>1. HInv /\ calls # <<>>
          BY <1>1
        <5>2. \A e \in 1 .. Len(calls) - 1 : \A k \in 1 .. Len(calls[e].ops) : ~Mine(calls[e].ops[k])
          BY <5>1, MineIs
        <5> QED
          BY <4>2, <4>4, <5>2
      <4>6. m \in Waiting
        <5>1. \A e \in 1 .. Len(calls) : \A k \in 1 .. Len(calls[e].ops) : calls[e].ops[k] \in Waiting
          BY <1>1, WaitingIs
        <5> QED
          BY <4>1, <4>4, <5>1
      <4> QED
        BY <1>5, <4>5, <4>6
    <3> QED
      BY <3>2, <3>3
  <2> QED
    BY <2>1, <2>2
<1>8. New \in Waiting'
  <2>1. New \in 1 .. Len(nodes') /\ i + 1 \in 1 .. Len(calls'[Len(calls)].ops) /\ calls'[Len(calls)].ops[i + 1] = New
    BY <1>2
  <2> QED
    BY <1>2, <1>3, <2>1 DEF Waiting
<1> QED
  BY <1>6, <1>7, <1>8

(* Where the nodes lie then: the new one begins where its left side does.  *)
Begun(lo, i) == [m \in 1 .. New |-> IF m = New THEN lo[NextTo(i)] ELSE lo[m]]
Closed(hi, i, r) == [m \in 1 .. New |-> IF m = New THEN 0 ELSE IF Late(i, m) THEN r - 1 ELSE hi[m]]

LEMMA BegunIs ==
  ASSUME HInv, calls # <<>>, Top.step = "operator", result = 0, NEW lo, NEW hi, Laid(lo, hi),
         NEW i \in 0 .. Len(Top.ops)
  PROVE  /\ NextTo(i) \in 1 .. Len(nodes)
         /\ Begun(lo, i) \in [1 .. New -> Nat] /\ Begun(lo, i)[New] = lo[NextTo(i)]
         /\ \A m \in 1 .. Len(nodes) : Begun(lo, i)[m] = lo[m]
         /\ Closed(hi, i, Len(read)) \in [1 .. New -> Nat]
         /\ \A m \in 1 .. Len(nodes) : /\ Late(i, m) => Closed(hi, i, Len(read))[m] = Len(read) - 1
                                       /\ ~Late(i, m) => Closed(hi, i, Len(read))[m] = hi[m]
<1>1. EInv /\ TInv /\ TypeOK
  BY DEF HInv, EInv, OInv, TInv
<1>2. /\ Len(Top.ops) \in Nat /\ (\A j \in 1 .. Len(Top.ops) : Top.ops[j] \in 1 .. Len(nodes))
      /\ Top.current \in 1 .. Len(nodes)
  BY <1>1, LinkedIs
<1>3. NextTo(i) \in 1 .. Len(nodes)
  <2>1. CASE i = Len(Top.ops)
    BY <1>2, <2>1 DEF NextTo
  <2>2. CASE i # Len(Top.ops)
    <3>1. i + 1 \in 1 .. Len(Top.ops)
      BY <1>2, <2>2
    <3> QED
      BY <1>2, <2>2, <3>1 DEF NextTo
  <2> QED
    BY <2>1, <2>2
<1>4. /\ lo \in [1 .. Len(nodes) -> Nat] /\ hi \in [1 .. Len(nodes) -> Nat]
      /\ Len(nodes) \in Nat /\ Len(read) \in Nat \ {0} /\ Len(read) - 1 \in Nat /\ New = Len(nodes) + 1
  BY <1>1, LaidIs, PartsOf DEF New
<1>5. PICK r, k : r = Len(read) - 1 /\ k = Len(nodes)
  OBVIOUS
<1>6. New = k + 1 /\ k \in Nat /\ r \in Nat /\ lo \in [1 .. k -> Nat] /\ hi \in [1 .. k -> Nat] /\ NextTo(i) \in 1 .. k
  BY <1>3, <1>4, <1>5
<1>7. /\ Begun(lo, i) \in [1 .. New -> Nat] /\ Begun(lo, i)[New] = lo[NextTo(i)]
      /\ \A m \in 1 .. k : Begun(lo, i)[m] = lo[m]
  BY <1>6 DEF Begun
<1>8. /\ Closed(hi, i, Len(read)) \in [1 .. New -> Nat]
      /\ \A m \in 1 .. k : /\ Late(i, m) => Closed(hi, i, Len(read))[m] = r
                           /\ ~Late(i, m) => Closed(hi, i, Len(read))[m] = hi[m]
  BY <1>5, <1>6 DEF Closed
<1> QED
  BY <1>3, <1>5, <1>7, <1>8

(* What comes next to place i or behind it is complete now.                *)
LEMMA NextToIs ==
  ASSUME HInv, TypeOK', Operator, NEW lo, NEW hi, Laid(lo, hi),
         NEW i \in 0 .. Len(Top.ops), NEW c, OperatorAt(i, c), NEW j \in i .. Len(Top.ops)
  PROVE  /\ NextTo(j) \in 1 .. Len(nodes) /\ NextTo(j) \notin Waiting'
         /\ Closed(hi, i, Len(read))[NextTo(j)] <= Len(read) - 1
<1>1. /\ EInv /\ TInv /\ TypeOK /\ calls # <<>> /\ Top.step = "operator" /\ result = 0
  BY DEF HInv, EInv, OInv, TInv, Operator, At
<1>2. /\ Len(Top.ops) \in Nat /\ Top.current \in 1 .. Len(nodes)
      /\ \A g \in 1 .. Len(Top.ops) : Top.ops[g] \in 1 .. Len(nodes)
  BY <1>1, LinkedIs
<1>3. PICK hi2, r : hi2 = Closed(hi, i, Len(read)) /\ r = Len(read)
  OBVIOUS
<1>4. /\ \A m \in 1 .. Len(nodes) : (Late(i, m) => hi2[m] = r - 1) /\ (~Late(i, m) => hi2[m] = hi[m])
      /\ \A m \in 1 .. Len(nodes) : m \in Waiting' <=> m \in Waiting /\ ~Late(i, m)
      /\ r \in Nat /\ \A m \in 1 .. Len(nodes) : hi[m] \in Nat
  BY <1>1, <1>3, BegunIs, WaitingByOperator, LaidIs
<1>5. CASE j = Len(Top.ops)
  <2>1. NextTo(j) = Top.current /\ Top.current # 0
    BY <1>2, <1>5 DEF NextTo
  <2>2. Top.current \notin Waiting /\ hi[Top.current] < r
    BY <1>1, <1>3, <2>1, CurrentIs
  <2>3. ~Late(i, Top.current)
    BY <1>1, <2>2, LateIs, MineIs
  <2>4. hi2[Top.current] <= r - 1
    BY <1>2, <1>4, <2>2, <2>3
  <2> QED
    BY <1>2, <1>3, <1>4, <2>1, <2>2, <2>4
<1>6. CASE j # Len(Top.ops)
  <2>1. NextTo(j) = Top.ops[j + 1] /\ j + 1 \in 1 .. Len(Top.ops) /\ i < j + 1
    BY <1>2, <1>6 DEF NextTo
  <2>2. Late(i, NextTo(j)) /\ NextTo(j) \in 1 .. Len(nodes)
    BY <1>1, <1>2, <2>1, LateIs
  <2>3. hi2[NextTo(j)] <= r - 1
    BY <1>4, <2>2
  <2> QED
    BY <1>3, <1>4, <2>2, <2>3
<1> QED
  BY <1>5, <1>6

LEMMA FollowsByOperator ==
  ASSUME HInv, TypeOK', Operator, NEW lo, NEW hi, Laid(lo, hi),
         NEW i \in 0 .. Len(Top.ops), NEW c, OperatorAt(i, c), NEW w2, w2 = Waiting',
         NEW lo2, NEW hi2, lo2 = Begun(lo, i), hi2 = Closed(hi, i, Len(read))
  PROVE  /\ Follows(Len(nodes), nodes, lo, hi, Waiting, nodes', lo2, hi2, w2)
         /\ \A n \in 1 .. New : Spans(n, nodes', lo2, hi2, w2, Len(read) + 1)
         /\ (\A n \in 1 .. Len(nodes) : Sided(n, nodes, Waiting)) => \A n \in 1 .. New : Sided(n, nodes', w2)
<1>1. /\ EInv /\ TInv /\ TypeOK /\ calls # <<>> /\ Top.step = "operator" /\ result = 0
  BY DEF HInv, EInv, OInv, TInv, Operator, At
<1>2. PICK w, k, r, r2 : w = Waiting /\ k = Len(nodes) /\ r = Len(read) /\ r2 = r + 1
  OBVIOUS
<1>3. /\ r \in Nat \ {0} /\ r2 \in Nat /\ r <= r2 /\ k \in Nat /\ lo \in [1 .. k -> Nat] /\ hi \in [1 .. k -> Nat]
      /\ \A m \in 1 .. k : nodes[m] \in NodeSet(r, k)
      /\ New = k + 1 /\ Len(Top.ops) \in Nat
  BY <1>1, <1>2, PartsOf, LaidIs, LinkedIs DEF New
<1>4. /\ NextTo(i) \in 1 .. k /\ lo2[New] = lo[NextTo(i)] /\ \A m \in 1 .. k : lo2[m] = lo[m]
      /\ \A m \in 1 .. k : (Late(i, m) => hi2[m] = r - 1) /\ (~Late(i, m) => hi2[m] = hi[m])
  BY <1>1, <1>2, BegunIs
<1>5. /\ \A m \in 1 .. k : m \in w2 <=> m \in w /\ ~Late(i, m)
      /\ New \in w2
  BY <1>2, WaitingByOperator
<1>6. /\ \A m : Mine(m) => m \in w /\ m \in 1 .. k /\ nodes[m].kind = "operation"
      /\ \A m : Late(i, m) => Mine(m)
      /\ \A j \in 1 .. Len(Top.ops) : Late(i, Top.ops[j]) <=> i < j
  BY <1>1, <1>2, MineIs, LateIs
<1>7. /\ \A m \in 1 .. k : /\ nodes'[m].kind = nodes[m].kind /\ nodes'[m].at = nodes[m].at
                           /\ nodes'[m].before = nodes[m].before
                           /\ ~Mine(m) => nodes'[m].after = nodes[m].after
      /\ \A j \in 1 .. Len(Top.ops) : nodes'[Top.ops[j]].after = IF j = i THEN <<New>> ELSE <<NextTo(j)>>
      /\ nodes'[New] = Node("operation", r, <<NextTo(i)>>, <<>>)
  BY <1>2 DEF OperatorAt
<1>8. Follows(k, nodes, lo, hi, w, nodes', lo2, hi2, w2)
  BY <1>4, <1>5, <1>6, <1>7 DEF Follows
<1>9. ASSUME NEW n \in 1 .. k
      PROVE  Spans(n, nodes', lo2, hi2, w2, r2) /\ (Sided(n, nodes, w) => Sided(n, nodes', w2))
  <2>1. /\ Spans(n, nodes, lo, hi, w, r) /\ nodes[n] \in NodeSet(r, k) /\ nodes'[n].before = nodes[n].before
    BY <1>2, <1>3, <1>7 DEF Laid
  <2>2. CASE ~Mine(n)
    <3>1. (n \notin w \/ n \in w2) /\ nodes'[n].after = nodes[n].after
      BY <1>5, <1>6, <1>7, <2>2
    <3>3. PICK nd, nd2 : nd = nodes /\ nd2 = nodes'
      OBVIOUS
    <3>4. /\ nd[n] \in NodeSet(r, k) /\ nd2[n].before = nd[n].before /\ nd2[n].after = nd[n].after
          /\ Spans(n, nd, lo, hi, w, r) /\ Follows(k, nd, lo, hi, w, nd2, lo2, hi2, w2)
      BY <1>8, <2>1, <3>1, <3>3
    <3>5. r \in Nat /\ k \in Nat /\ r2 \in Nat /\ r <= r2 /\ lo \in [1 .. k -> Nat] /\ hi \in [1 .. k -> Nat]
      BY <1>3
    <3>6. n \notin w \/ n \in w2
      BY <3>1
    <3>7. Spans(n, nd2, lo2, hi2, w2, r2)
      BY <3>4, <3>5, <3>6, SpansStill
    <3>2. Spans(n, nodes', lo2, hi2, w2, r2)
      BY <3>3, <3>7
    <3> QED
      BY <1>5, <1>6, <1>7, <2>2, <3>1, <3>2 DEF Sided
  <2>3. CASE Mine(n)
    <3>1. PICK j \in 1 .. Len(Top.ops) : Top.ops[j] = n
      BY <2>3 DEF Mine
    <3>2. PICK x : x = IF j = i THEN New ELSE NextTo(j)
      OBVIOUS
    <3>3. nodes'[n].after = <<x>>
      BY <1>7, <3>1, <3>2
    <3>4. nodes[n].at < lo[NextTo(j)] /\ NextTo(j) \in 1 .. k
      BY <1>1, <1>2, <3>1, ChainIs
    <3>5. nodes[n].at < lo2[x]
      BY <1>4, <3>2, <3>4
    <3>6. n \in w2 \/ (x \notin w2 /\ hi2[n] = r - 1 /\ hi2[x] <= r - 1)
      <4>1. CASE j <= i
        <5>1. ~Late(i, n)
          BY <1>3, <1>6, <3>1, <4>1
        <5> QED
          BY <1>5, <1>6, <2>3, <5>1
      <4>2. CASE ~(j <= i)
        <5>1. i < j /\ j \in i .. Len(Top.ops) /\ x = NextTo(j)
          BY <1>3, <3>2, <4>2
        <5>2. Late(i, n)
          BY <1>6, <3>1, <5>1
        <5> QED
          BY <1>1, <1>2, <1>4, <5>1, <5>2, NextToIs
      <4> QED
        BY <4>1, <4>2
    <3>7. Spans(n, nodes', lo2, hi2, w2, r2)
      BY <1>3, <1>8, <2>1, <3>3, <3>5, <3>6, CompleteSpans
    <3>8. PICK a : a = <<x>>
      OBVIOUS
    <3>9. Len(a) = 1 /\ nodes'[n].after = a
      BY <3>3, <3>8
    <3> QED
      BY <1>6, <1>7, <2>3, <3>7, <3>9 DEF Sided
  <2> QED
    BY <2>2, <2>3
<1>10. PICK b, e : b = <<NextTo(i)>> /\ e = <<>>
  OBVIOUS
<1>11. /\ Len(b) = 1 /\ b[1] = NextTo(i) /\ Len(e) = 0
       /\ nodes'[New].before = b /\ nodes'[New].after = e /\ nodes'[New].at = r /\ nodes'[New].kind = "operation"
  BY <1>7, <1>10, KindIs
<1>12. Sided(New, nodes', w2)
  BY <1>5, <1>11 DEF Sided
<1>13. Spans(New, nodes', lo2, hi2, w2, r2)
  <2>1. i \in i .. Len(Top.ops)
    BY <1>3
  <2>2. NextTo(i) \notin w2 /\ hi2[NextTo(i)] <= r - 1
    BY <1>1, <1>2, <2>1, NextToIs
  <2>3. hi2[NextTo(i)] \in Nat
    BY <1>3, <1>4
  <2>4. 1 <= lo[NextTo(i)] /\ lo[NextTo(i)] <= r /\ lo[NextTo(i)] \in Nat
    <3>1. /\ 1 <= lo[NextTo(i)] /\ lo[NextTo(i)] <= nodes[NextTo(i)].at /\ nodes[NextTo(i)].at < r
          /\ lo[NextTo(i)] \in Nat /\ nodes[NextTo(i)].at \in Nat
      BY <1>1, <1>2, <1>4, LaidIs
    <3> QED
      BY <1>3, <3>1
  <2>5. hi2[NextTo(i)] < r
    BY <1>3, <2>2, <2>3
  <2>6. lo2[New] = lo[NextTo(i)] /\ lo2[NextTo(i)] = lo[NextTo(i)] /\ lo[NextTo(i)] <= lo[NextTo(i)]
    BY <1>4, <2>4
  <2>7. r < r2
    BY <1>2, <1>3
  <2>8. PICK x, n, nd : x = NextTo(i) /\ n = New /\ nd = nodes'
    OBVIOUS
  <2>9. /\ nd[n].before = b /\ nd[n].after = e /\ nd[n].at = r /\ n \in w2
        /\ lo2[n] = lo[x] /\ lo2[x] = lo[x] /\ 1 <= lo[x] /\ lo[x] <= r /\ lo[x] <= lo[x]
        /\ x \notin w2 /\ hi2[x] < r /\ b[1] = x
    BY <1>5, <1>11, <2>2, <2>4, <2>5, <2>6, <2>8
  <2>10. ASSUME NEW g \in 1 .. Len(b) PROVE b[g] \notin w2 /\ lo2[n] <= lo2[b[g]] /\ hi2[b[g]] < r
    <3>1. g = 1
      BY <1>11
    <3> QED
      BY <2>9, <3>1
  <2>11. \A g \in 1 .. Len(e) : FALSE
    BY <1>11
  <2>12. Spans(n, nd, lo2, hi2, w2, r2)
    BY <2>7, <2>9, <2>10, <2>11 DEF Spans
  <2> QED
    BY <2>8, <2>12
<1>14. \A n \in 1 .. New : n \in 1 .. k \/ n = New
  BY <1>3
<1> QED
  BY <1>2, <1>8, <1>9, <1>12, <1>13, <1>14

LEMMA OperatorInHand ==
  ASSUME HInv, TypeOK', Operator, NEW lo, NEW hi, Laid(lo, hi),
         NEW i \in 0 .. Len(Top.ops), NEW c, OperatorAt(i, c), NEW w2, w2 = Waiting',
         NEW lo2, NEW hi2, lo2 = Begun(lo, i), hi2 = Closed(hi, i, Len(read))
  PROVE  InHand(c, nodes', lo2, hi2, w2, Len(read) + 1)
<1>1. /\ EInv /\ TInv /\ TypeOK /\ calls # <<>> /\ Top.step = "operator" /\ result = 0
  BY DEF HInv, EInv, OInv, TInv, Operator, At
<1>2. PICK k, r : k = Len(nodes) /\ r = Len(read)
  OBVIOUS
<1>3. /\ r \in Nat \ {0} /\ k \in Nat /\ New = k + 1 /\ Len(Top.ops) \in Nat
      /\ \A j \in 1 .. Len(Top.ops) : Top.ops[j] \in 1 .. k
      /\ Top.ops # <<>> <=> Len(Top.ops) > 0
  BY <1>1, <1>2, PartsOf, LinkedIs DEF New
<1>4. /\ lo2[New] = lo[NextTo(i)] /\ \A m \in 1 .. k : lo2[m] = lo[m]
  BY <1>1, <1>2, BegunIs
<1>5. /\ c.from = Top.from /\ c.current = 0 /\ c.step = "symbol" /\ c.dot = Top.dot /\ c.parts = Top.parts
      /\ Len(c.ops) = i + 1 /\ c.ops[i + 1] = New /\ (\A j \in 1 .. i : c.ops[j] = Top.ops[j])
      /\ \A m \in 1 .. k : nodes'[m].at = nodes[m].at
      /\ nodes'[New] = Node("operation", r, <<NextTo(i)>>, <<>>)
  BY <1>2 DEF OperatorAt
<1>6. nodes'[New].at = r
  BY <1>5, KindIs
<1>7. c.parts = <<>> /\ c.dot = 0 /\ Len(<<>>) = 0
  BY <1>1, <1>5, TopInHand DEF Held
<1>8. c.from <= lo2[c.ops[1]]
  <2>1. CASE i = 0
    <3>1. Root(Top.current) = NextTo(0)
      BY <1>3 DEF Root, NextTo
    <3>2. Top.from <= lo[NextTo(0)]
      BY <1>1, <3>1, RootIs
    <3> QED
      BY <1>4, <1>5, <2>1, <3>2
  <2>2. CASE i # 0
    <3>1. 1 \in 1 .. i /\ 1 \in 1 .. Len(Top.ops) /\ Top.ops # <<>>
      BY <1>3, <2>2
    <3>2. Top.from <= lo[Top.ops[1]]
      BY <1>1, <3>1, TopInHand DEF InHand
    <3> QED
      BY <1>3, <1>4, <1>5, <3>1, <3>2
  <2> QED
    BY <2>1, <2>2
<1>9. ASSUME NEW j \in 1 .. Len(c.ops) PROVE nodes'[c.ops[j]].at < r + 1
  <2>1. CASE j = i + 1
    BY <1>3, <1>5, <1>6, <2>1
  <2>2. CASE j # i + 1
    <3>1. j \in 1 .. i /\ j \in 1 .. Len(Top.ops)
      BY <1>3, <1>5, <2>2
    <3>2. c.ops[j] \in 1 .. k
      BY <1>3, <1>5, <3>1
    <3>3. nodes[c.ops[j]].at < r /\ nodes[c.ops[j]].at \in Nat
      BY <1>1, <1>2, <3>2, LaidIs
    <3> QED
      BY <1>3, <1>5, <3>2, <3>3, SMTT(30)
  <2> QED
    BY <2>1, <2>2
<1>10. c.step \notin Outer /\ c.step \notin Opened /\ c.step # "index" /\ c.step # "list"
  BY <1>5 DEF Outer, Opened
<1>11. c.dot < r + 1
  BY <1>3, <1>7
<1> QED
  BY <1>2, <1>5, <1>7, <1>8, <1>9, <1>10, <1>11 DEF InHand

LEMMA LaidByOperator ==
  ASSUME HInv, TypeOK', Operator, NEW lo, NEW hi, Laid(lo, hi),
         NEW i \in 0 .. Len(Top.ops), NEW c, OperatorAt(i, c)
  PROVE  (\E lo3, hi3 : Laid(lo3, hi3))'
<1>1. /\ TInv /\ TypeOK /\ calls # <<>> /\ Top.step = "operator" /\ result = 0 /\ result' = 0
      /\ statement' = statement /\ Len(read') = Len(read) + 1
  BY OperatorIs DEF HInv, EInv, OInv, TInv, Operator, At, TokenTaken
<1>2. PICK w, w2, k, r : w = Waiting /\ w2 = Waiting' /\ k = Len(nodes) /\ r = Len(read)
  OBVIOUS
<1>3. PICK lo2, hi2 : lo2 = Begun(lo, i) /\ hi2 = Closed(hi, i, Len(read))
  OBVIOUS
<1>4. /\ Follows(k, nodes, lo, hi, w, nodes', lo2, hi2, w2)
      /\ \A n \in 1 .. New : Spans(n, nodes', lo2, hi2, w2, r + 1)
  BY <1>2, <1>3, FollowsByOperator
<1>5. /\ InHand(c, nodes', lo2, hi2, w2, r + 1)
      /\ lo2 \in [1 .. New -> Nat] /\ hi2 \in [1 .. New -> Nat]
      /\ lo \in [1 .. k -> Nat] /\ hi \in [1 .. k -> Nat] /\ \A m \in 1 .. k : nodes[m].at \in Int
      /\ r \in Nat /\ k \in Nat
  BY <1>1, <1>2, <1>3, OperatorInHand, BegunIs, LaidIs
<1>6. /\ Len(calls) \in Nat \ {0} /\ Len(calls') = Len(calls) /\ calls'[Len(calls)] = c
      /\ \A d \in 1 .. Len(calls) - 1 : calls'[d] = calls[d]
      /\ c.from = Top.from /\ Top = calls[Len(calls)] /\ Len(nodes') = New
  BY <1>1, TopIs DEF OperatorAt, TopBecomes
<1>7. \A d \in 0 .. Len(calls) - 1 : Limit(d, lo2)' = Limit(d, lo) /\ Limit(d, lo) \in Int
  <2> SUFFICES ASSUME NEW d \in 0 .. Len(calls) - 1 PROVE Limit(d, lo2)' = Limit(d, lo) /\ Limit(d, lo) \in Int
    OBVIOUS
  <2>1. calls'[d + 1].from = calls[d + 1].from /\ d + 1 \in 1 .. Len(calls) /\ d < Len(calls)
    BY <1>6
  <2> QED
    BY <1>1, <1>6, <2>1, PlacesAre DEF Limit
<1>8. Limit(Len(calls), lo2)' = Len(read')
  BY <1>1, <1>6 DEF Limit
<1>9. ASSUME NEW d \in 1 .. Len(calls') PROVE InHand(calls'[d], nodes', lo2, hi2, w2, Limit(d, lo2)')
  <2>1. CASE d = Len(calls)
    <3>1. Limit(d, lo2)' = r + 1
      BY <1>1, <1>2, <1>6, <1>8, <2>1
    <3> QED
      BY <1>5, <1>6, <2>1, <3>1
  <2>2. CASE d # Len(calls)
    <3>1. d \in 1 .. Len(calls) - 1 /\ d \in 1 .. Len(calls)
      BY <1>6, <2>2
    <3>2. PICK e, limit : e = calls[d] /\ limit = Limit(d, lo)
      OBVIOUS
    <3>3. InHand(e, nodes, lo, hi, w, limit) /\ Held(e) /\ e \in CallSet(r, k)
      BY <1>1, <1>2, <3>1, <3>2, PartsOf DEF Laid
    <3>4. limit \in Int /\ limit <= limit /\ Limit(d, lo2)' = limit
      BY <1>7, <3>1, <3>2
    <3>5. InHand(e, nodes', lo2, hi2, w2, limit)
      BY <1>4, <1>5, <3>3, <3>4, InHandStill
    <3> QED
      BY <1>6, <3>1, <3>2, <3>4, <3>5
  <2> QED
    BY <2>1, <2>2
<1>10. statement' # 0 => nodes'[statement'].at < Limit(0, lo2)'
  <2> SUFFICES ASSUME statement # 0 PROVE nodes'[statement].at < Limit(0, lo2)'
    BY <1>1
  <2>1. statement \in 1 .. k /\ nodes[statement].at < Limit(0, lo) /\ 0 \in 0 .. Len(calls) - 1
    BY <1>1, <1>2, <1>6, PartsOf DEF Laid
  <2>2. nodes'[statement].at = nodes[statement].at
    BY <1>4, <2>1 DEF Follows
  <2> QED
    BY <1>7, <2>1, <2>2
<1>11. Laid(lo2, hi2)'
  BY <1>1, <1>2, <1>4, <1>5, <1>6, <1>9, <1>10 DEF Laid
<1> QED
  BY <1>11

LEMMA AttachedByOperator ==
  ASSUME HInv, TypeOK', Operator, Attached, NEW lo, NEW hi, Laid(lo, hi),
         NEW i \in 0 .. Len(Top.ops), NEW c, OperatorAt(i, c)
  PROVE  Attached'
<1>1. /\ EInv /\ Edged /\ TInv /\ TypeOK /\ calls # <<>> /\ Top.step = "operator" /\ result = 0
      /\ statement' = statement
  BY DEF HInv, EInv, OInv, TInv, Operator, At
<1>2. /\ Len(calls) \in Nat \ {0} /\ Len(calls') = Len(calls) /\ calls'[Len(calls)] = c
      /\ (\A d \in 1 .. Len(calls) - 1 : calls'[d] = calls[d])
      /\ Top = calls[Len(calls)] /\ Held(Top) /\ Len(calls) \in 1 .. Len(calls) /\ Len(nodes') = New
  BY <1>1, TopIs DEF OperatorAt, TopBecomes, TInv, HeldInv
<1>3. /\ Len(Top.ops) \in Nat /\ (Top.ops # <<>> <=> Len(Top.ops) > 0)
      /\ (\A j \in 1 .. Len(Top.ops) : Top.ops[j] \in 1 .. Len(nodes))
      /\ New = Len(nodes) + 1 /\ Len(nodes) \in Nat
  BY <1>1, LinkedIs, PartsOf DEF New
<1>4. PICK b, a : b = <<NextTo(i)>> /\ a = <<New>>
  OBVIOUS
<1>5. /\ Len(b) = 1 /\ b[1] = NextTo(i) /\ Len(a) = 1 /\ a[1] = New
      /\ nodes'[New].before = b
  BY <1>4, KindIs DEF OperatorAt
<1>6. ASSUME NEW j \in 0 .. Len(Top.ops), j = i \/ j # 0 PROVE HangsOn(NextTo(j), nodes')
  <2>1. CASE j = i
    <3>1. New \in 1 .. Len(nodes') /\ 1 \in 1 .. Len(b)
      BY <1>2, <1>3, <1>5
    <3> QED
      BY <1>5, <2>1, <3>1 DEF HangsOn
  <2>2. CASE j # i
    <3>1. j \in 1 .. Len(Top.ops) /\ Top.ops[j] \in 1 .. Len(nodes')
      BY <1>2, <1>3, <1>6, <2>2
    <3>2. PICK e, m : e = <<NextTo(j)>> /\ m = Top.ops[j]
      OBVIOUS
    <3>3. nodes'[m].after = e /\ 1 \in 1 .. Len(e) /\ e[1] = NextTo(j)
      BY <2>2, <3>1, <3>2 DEF OperatorAt
    <3> QED
      BY <3>1, <3>2, <3>3 DEF HangsOn
  <2> QED
    BY <2>1, <2>2
<1>7. ASSUME NEW n, HangsOn(n, nodes) PROVE HangsOn(n, nodes')
  <2>1. PICK m \in 1 .. Len(nodes) : \/ \E g \in 1 .. Len(nodes[m].before) : nodes[m].before[g] = n
                                     \/ \E g \in 1 .. Len(nodes[m].after) : nodes[m].after[g] = n
    BY <1>7 DEF HangsOn
  <2>2. nodes'[m].before = nodes[m].before /\ m \in 1 .. Len(nodes') /\ (~Mine(m) => nodes'[m].after = nodes[m].after)
    BY <1>2, <1>3 DEF OperatorAt
  <2>3. CASE ~Mine(m) \/ \E g \in 1 .. Len(nodes[m].before) : nodes[m].before[g] = n
    BY <2>1, <2>2, <2>3 DEF HangsOn
  <2>4. CASE Mine(m) /\ \E g \in 1 .. Len(nodes[m].after) : nodes[m].after[g] = n
    <3>1. PICK j \in 1 .. Len(Top.ops) : Top.ops[j] = m
      BY <2>4 DEF Mine
    <3>2. Edges(Top, nodes, read)
      BY <1>1, <1>2 DEF Edged
    <3>3. CASE j = Len(Top.ops)
      <4>1. Len(nodes[m].after) = 0
        BY <1>3, <3>1, <3>2, <3>3 DEF Edges
      <4> QED
        BY <2>4, <4>1
    <3>4. CASE j # Len(Top.ops)
      <4>1. nodes[m].after = <<Top.ops[j + 1]>> /\ NextTo(j) = Top.ops[j + 1]
        BY <1>3, <3>1, <3>2, <3>4, SMTT(30) DEF Edges, NextTo
      <4>2. n = NextTo(j)
        BY <2>4, <4>1
      <4>3. j \in 0 .. Len(Top.ops) /\ j # 0
        BY <1>3
      <4> QED
        BY <1>6, <4>2, <4>3
    <3> QED
      BY <3>3, <3>4
  <2> QED
    BY <2>1, <2>3, <2>4
<1>8. ASSUME NEW n \in 1 .. Len(nodes), RootOf(Top, n) PROVE RootOf(c, n) \/ HangsOn(n, nodes')
  <2>1. Len(Top.parts) = 0 /\ Top.step # "list"
    BY <1>1, <1>2 DEF Held
  <2>2. CASE Top.ops # <<>> /\ Top.ops[1] = n
    <3>1. CASE i = 0
      <4>1. NextTo(0) = n /\ 0 \in 0 .. Len(Top.ops)
        BY <1>3, <2>2 DEF NextTo
      <4> QED
        BY <1>6, <3>1, <4>1
    <3>2. CASE i # 0
      <4>1. 1 \in 1 .. i /\ Len(c.ops) = i + 1 /\ c.ops[1] = Top.ops[1]
        BY <1>3, <3>2 DEF OperatorAt
      <4>2. c.ops # <<>>
        BY <1>3, <4>1
      <4> QED
        BY <2>2, <4>1, <4>2 DEF RootOf
    <3> QED
      BY <3>1, <3>2
  <2>3. CASE Top.current = n
    <3>1. Len(Top.ops) \in 0 .. Len(Top.ops) /\ NextTo(Len(Top.ops)) = n /\ (Len(Top.ops) = i \/ Len(Top.ops) # 0)
      BY <1>3, <2>3 DEF NextTo
    <3> QED
      BY <1>6, <3>1
  <2> QED
    BY <1>8, <2>1, <2>2, <2>3 DEF RootOf
<1>9. RootOf(c, New) \/ HangsOn(New, nodes')
  <2>1. CASE i = 0
    <3>1. Len(c.ops) = 1 /\ c.ops[1] = New
      BY <2>1 DEF OperatorAt
    <3>2. c.ops # <<>>
      BY <3>1
    <3> QED
      BY <3>1, <3>2 DEF RootOf
  <2>2. CASE i # 0
    <3>1. i \in 1 .. Len(Top.ops) /\ Top.ops[i] \in 1 .. Len(nodes')
      BY <1>2, <1>3, <2>2
    <3>2. nodes'[Top.ops[i]].after = a /\ 1 \in 1 .. Len(a)
      BY <1>4, <1>5, <3>1 DEF OperatorAt
    <3> QED
      BY <1>5, <3>1, <3>2 DEF HangsOn
  <2> QED
    BY <2>1, <2>2
<1>10. ASSUME NEW n \in 1 .. Len(nodes')
       PROVE  \/ n = statement' \/ HangsOn(n, nodes')
              \/ \E d \in 1 .. Len(calls') : RootOf(calls'[d], n)
  <2>1. CASE n = New
    BY <1>2, <1>9, <2>1
  <2>2. CASE n # New
    <3>1. n \in 1 .. Len(nodes) /\ n # result
      BY <1>1, <1>2, <1>3, <2>2
    <3>2. CASE n = statement \/ HangsOn(n, nodes)
      BY <1>1, <1>7, <3>2
    <3>3. CASE \E d \in 1 .. Len(calls) : RootOf(calls[d], n)
      <4>1. PICK d \in 1 .. Len(calls) : RootOf(calls[d], n)
        BY <3>3
      <4>2. CASE d = Len(calls)
        BY <1>2, <1>8, <3>1, <4>1, <4>2
      <4>3. CASE d # Len(calls)
        <5>1. d \in 1 .. Len(calls') /\ calls'[d] = calls[d]
          BY <1>2, <4>3
        <5> QED
          BY <4>1, <5>1
      <4> QED
        BY <4>2, <4>3
    <3> QED
      BY <3>1, <3>2, <3>3 DEF Attached
  <2> QED
    BY <2>1, <2>2
<1> QED
  BY <1>10 DEF Attached

LEMMA PriorityOfOperators == \A t \in Tokens : Priority(t) # 0 => t \notin OwnNode
BY MkExprAssumption DEF Priority, OwnNode, Opening

LEMMA ForestByOperator ==
  ASSUME HInv, TypeOK', Forest, Operator
  PROVE  Forest'
<1>1. /\ TInv /\ TypeOK /\ calls # <<>> /\ Top.step = "operator" /\ Priority(value) # 0
      /\ verdict' = "compiling" /\ result' = 0
  BY DEF HInv, EInv, OInv, TInv, Operator, At
<1>2. PICK lo, hi : Laid(lo, hi)
  BY DEF Forest
<1>3. PICK i \in 0 .. Len(Top.ops) : \E c : OperatorAt(i, c)
  BY <1>2, OperatorLinks
<1>8. PICK c : OperatorAt(i, c)
  BY <1>3
<1>4. (\E lo3, hi3 : Laid(lo3, hi3))'
  BY <1>2, <1>8, LaidByOperator
<1>5. Attached'
  BY <1>2, <1>8, AttachedByOperator DEF Forest
<1>6. \A n \in 1 .. Len(nodes') : Sided(n, nodes', Waiting')
  <2>1. PICK w2 : w2 = Waiting'
    OBVIOUS
  <2>2. PICK lo2, hi2 : lo2 = Begun(lo, i) /\ hi2 = Closed(hi, i, Len(read))
    OBVIOUS
  <2>3. \A n \in 1 .. New : Sided(n, nodes', w2)
    BY <1>2, <1>8, <2>1, <2>2, FollowsByOperator DEF Forest
  <2>4. Len(nodes') = New
    BY <1>8 DEF OperatorAt
  <2> QED
    BY <2>1, <2>3, <2>4
<1>7. Made'
  <2>1. value \notin OwnNode
    BY <1>1, StateIs, PriorityOfOperators DEF value
  <2>2. /\ TokenTaken /\ Len(nodes') = Len(nodes) + 1 /\ Len(nodes) \in Nat /\ Len(read) \in Nat \ {0}
        /\ \A m \in 1 .. Len(nodes) : nodes'[m].at = nodes[m].at
    BY <1>1, <1>8, StateIs, OperatorIs DEF OperatorAt
  <2>3. /\ Len(calls) \in Nat \ {0} /\ Top = calls[Len(calls)] /\ Len(calls') = Len(calls)
        /\ \A d \in 1 .. Len(calls) - 1 : calls'[d] = calls[d]
    BY <1>1, <1>8, TopIs DEF OperatorAt, TopBecomes
  <2>4. ASSUME NEW p \in 1 .. Len(read') - 1, read'[p] \in OwnNode
        PROVE  \/ \E n \in 1 .. Len(nodes') : nodes'[n].at = p
               \/ \E d \in 1 .. Len(calls') : calls'[d].step = "list" /\ calls'[d].open = p
    <3>1. p \in 1 .. Len(read) - 1 /\ read[p] \in OwnNode
      <4>1. p \in 1 .. Len(read) /\ read'[p] = read[p]
        BY <2>2 DEF TokenTaken
      <4>2. p # Len(read)
        BY <2>1, <2>4, <4>1 DEF value
      <4> QED
        BY <2>2, <2>4, <4>1, <4>2
    <3>2. CASE \E n \in 1 .. Len(nodes) : nodes[n].at = p
      <4>1. PICK n \in 1 .. Len(nodes) : nodes[n].at = p
        BY <3>2
      <4>2. n \in 1 .. Len(nodes') /\ nodes'[n].at = p
        BY <2>2, <4>1
      <4> QED
        BY <4>2
    <3>3. CASE \E d \in 1 .. Len(calls) : calls[d].step = "list" /\ calls[d].open = p
      <4>1. PICK d \in 1 .. Len(calls) : calls[d].step = "list" /\ calls[d].open = p
        BY <3>3
      <4>2. d # Len(calls)
        BY <1>1, <2>3, <4>1
      <4>3. d \in 1 .. Len(calls') /\ calls'[d] = calls[d]
        BY <2>3, <4>2
      <4> QED
        BY <4>1, <4>3
    <3> QED
      BY <3>1, <3>2, <3>3 DEF Forest, Made
  <2> QED
    BY <1>1, <2>4 DEF Made
<1> QED
  BY <1>4, <1>5, <1>6, <1>7 DEF Forest

-----------------------------------------------------------------------------
(* do_compile_expr_root.  Between two expressions nobody waits; while one  *)
(* is compiled behind an if, only this does.                               *)
LEMMA WaitingAlone ==
  ASSUME TypeOK, calls = <<>>
  PROVE  \A m : m \in Waiting <=> result # 0 /\ m = statement /\ m # 0
<1>1. Len(calls) = 0 /\ (Busy <=> result # 0) /\ statement \in 0 .. Len(nodes) /\ Len(nodes) \in Nat
  BY StateIs DEF Busy
<1>2. \A d \in 1 .. Len(calls) : FALSE
  BY <1>1
<1> QED
  BY <1>1, <1>2 DEF Waiting

LEMMA LaidByStatementDone ==
  ASSUME HInv, TypeOK', StatementDone, NEW lo, NEW hi, Laid(lo, hi)
  PROVE  /\ (\E lo3, hi3 : Laid(lo3, hi3))'
         /\ \A n \in 1 .. Len(nodes) : Sided(n, nodes, Waiting) => Sided(n, nodes', Waiting')
<1>1. /\ TInv /\ TypeOK /\ Holes /\ calls = <<>> /\ calls' = <<>> /\ result # 0 /\ result' = 0 /\ read' = read
      /\ Busy
  BY DEF HInv, EInv, OInv, TInv, StatementDone, Busy
<1>2. /\ Len(nodes') = Len(nodes) /\ statement' = IF statement = 0 THEN result ELSE statement
      /\ \A m \in 1 .. Len(nodes) :
           /\ SameBut(nodes, nodes', m)
           /\ nodes'[m].after = IF m = statement THEN <<result>> ELSE nodes[m].after
  BY <1>1, StatementDoneIs
<1>3. PICK w, k, r, st, rs : w = Waiting /\ k = Len(nodes) /\ r = Len(read) /\ st = statement /\ rs = result
  OBVIOUS
<1>4. /\ r \in Nat \ {0} /\ k \in Nat /\ lo \in [1 .. k -> Nat] /\ hi \in [1 .. k -> Nat]
      /\ (\A m \in 1 .. k : nodes[m] \in NodeSet(r, k) /\ nodes[m].at \in Nat /\ nodes[m].at < r)
      /\ rs \in 1 .. k /\ st \in 0 .. k /\ hi[rs] < r /\ hi[rs] \in Nat /\ rs \notin w
  BY <1>1, <1>3, PartsOf, LaidIs, ResultIs
<1>5. \A m : m \in w <=> m = st /\ m # 0
  BY <1>1, <1>3, WaitingAlone
<1>6. PICK w2 : w2 = Waiting'
  OBVIOUS
<1>7. \A m : m \notin w2
  <2>1. Len(calls') = 0 /\ ~Busy'
    BY <1>1 DEF Busy
  <2>2. \A d \in 1 .. Len(calls') : FALSE
    BY <2>1
  <2> QED
    BY <1>6, <2>1, <2>2 DEF Waiting
<1>8. PICK hi2 : hi2 = [m \in 1 .. k |-> IF m = st THEN r - 1 ELSE hi[m]]
  OBVIOUS
<1>9. hi2 \in [1 .. k -> Nat] /\ \A m \in 1 .. k : hi2[m] = IF m = st THEN r - 1 ELSE hi[m]
  BY <1>4, <1>8
<1>10. Follows(k, nodes, lo, hi, w, nodes', lo, hi2, w2)
  BY <1>2, <1>3, <1>5, <1>7, <1>9 DEF Follows, SameBut
<1>11. ASSUME NEW n \in 1 .. k
       PROVE  Spans(n, nodes', lo, hi2, w2, r) /\ (Sided(n, nodes, w) => Sided(n, nodes', w2))
  <2>1. /\ Spans(n, nodes, lo, hi, w, r) /\ nodes[n] \in NodeSet(r, k) /\ r <= r /\ r \in Nat
        /\ nodes'[n].before = nodes[n].before /\ nodes'[n].kind = nodes[n].kind
    BY <1>2, <1>3, <1>4 DEF Laid, SameBut
  <2>2. CASE n # st
    <3>1. (n \notin w \/ n \in w2) /\ nodes'[n].after = nodes[n].after
      BY <1>2, <1>3, <1>5, <2>2
    <3>2. Spans(n, nodes', lo, hi2, w2, r)
      BY <1>4, <1>10, <2>1, <3>1, SpansStill
    <3> QED
      BY <1>5, <2>1, <2>2, <3>1, <3>2 DEF Sided
  <2>3. CASE n = st
    <3>1. nodes'[n].after = <<rs>>
      BY <1>2, <1>3, <2>3
    <3>2. st # 0 /\ nodes[n].at < lo[rs]
      <4>1. st # 0 /\ Len(calls) = 0
        BY <1>1, <1>4, <2>3
      <4>2. Limit(0, lo) = lo[rs]
        BY <1>1, <1>3, <4>1 DEF Limit
      <4> QED
        BY <1>3, <2>3, <4>1, <4>2 DEF Laid
    <3>3. rs \notin w2 /\ hi2[n] = r - 1 /\ hi2[rs] <= r - 1
      <4>1. rs # st
        BY <1>4, <1>5, <3>2
      <4> QED
        BY <1>4, <1>7, <1>9, <2>3, <4>1
    <3>4. Spans(n, nodes', lo, hi2, w2, r)
      BY <1>4, <1>10, <2>1, <3>1, <3>2, <3>3, CompleteSpans
    <3>5. nodes[n].kind = "if"
      BY <1>1, <1>3, <2>3, <3>2 DEF Holes, Hole
    <3>6. PICK a : a = <<rs>>
      OBVIOUS
    <3>7. Len(a) = 1 /\ nodes'[n].after = a
      BY <3>1, <3>6
    <3> QED
      BY <2>1, <3>4, <3>5, <3>7 DEF Sided
  <2> QED
    BY <2>2, <2>3
<1>12. statement' # 0 => nodes'[statement'].at < Limit(0, lo)'
  <2>1. Limit(0, lo)' = r
    BY <1>1, <1>3 DEF Limit
  <2>2. statement' \in 1 .. k
    BY <1>2, <1>3, <1>4
  <2>3. nodes'[statement'].at = nodes[statement'].at
    BY <1>2, <1>3, <2>2 DEF SameBut
  <2> QED
    BY <1>4, <2>1, <2>2, <2>3
<1>13. \A d \in 1 .. Len(calls') : FALSE
  BY <1>1
<1>14. Laid(lo, hi2)'
  BY <1>1, <1>2, <1>3, <1>4, <1>6, <1>9, <1>11, <1>12, <1>13 DEF Laid
<1> QED
  BY <1>3, <1>6, <1>11, <1>14

LEMMA ForestByStatementDone ==
  ASSUME HInv, TypeOK', Forest, StatementDone
  PROVE  Forest'
<1>1. /\ TInv /\ TypeOK /\ Holes /\ calls = <<>> /\ calls' = <<>> /\ result # 0 /\ result' = 0 /\ read' = read
      /\ Busy /\ verdict' = "compiling"
  BY DEF HInv, EInv, OInv, TInv, StatementDone, Busy
<1>2. /\ Len(nodes') = Len(nodes) /\ statement' = IF statement = 0 THEN result ELSE statement
      /\ \A m \in 1 .. Len(nodes) :
           /\ SameBut(nodes, nodes', m)
           /\ nodes'[m].after = IF m = statement THEN <<result>> ELSE nodes[m].after
  BY <1>1, StatementDoneIs
<1>3. (\E lo3, hi3 : Laid(lo3, hi3))' /\ \A n \in 1 .. Len(nodes') : Sided(n, nodes', Waiting')
  <2>1. PICK lo, hi : Laid(lo, hi)
    BY DEF Forest
  <2> QED
    BY <1>2, <2>1, LaidByStatementDone DEF Forest
<1>4. \A d \in 1 .. Len(calls) : FALSE
  BY <1>1
<1>5. Attached'
  <2>1. ASSUME NEW n, HangsOn(n, nodes) PROVE HangsOn(n, nodes')
    <3>1. PICK m \in 1 .. Len(nodes) : \/ \E i \in 1 .. Len(nodes[m].before) : nodes[m].before[i] = n
                                       \/ \E i \in 1 .. Len(nodes[m].after) : nodes[m].after[i] = n
      BY <2>1 DEF HangsOn
    <3>2. nodes'[m].before = nodes[m].before /\ m \in 1 .. Len(nodes')
      BY <1>2 DEF SameBut
    <3>3. CASE m = statement
      <4>1. statement # 0
        BY <1>1, <3>3, StateIs
      <4>2. Len(nodes[m].after) = 0
        BY <1>1, <3>3, <4>1 DEF Holes, Hole
      <4> QED
        BY <3>1, <3>2, <4>2 DEF HangsOn
    <3>4. CASE m # statement
      <4>1. nodes'[m].after = nodes[m].after
        BY <1>2, <3>4
      <4> QED
        BY <3>1, <3>2, <4>1 DEF HangsOn
    <3> QED
      BY <3>3, <3>4
  <2>2. statement # 0 => HangsOn(result, nodes')
    <3> SUFFICES ASSUME statement # 0 PROVE HangsOn(result, nodes')
      OBVIOUS
    <3>1. statement \in 1 .. Len(nodes)
      BY <1>1, PartsOf
    <3>2. PICK a : a = <<result>>
      OBVIOUS
    <3>3. nodes'[statement].after = a /\ Len(a) = 1 /\ a[1] = result /\ statement \in 1 .. Len(nodes') /\ 1 \in 1 .. Len(a)
      BY <1>2, <3>1, <3>2
    <3> QED
      BY <3>3 DEF HangsOn
  <2>3. ASSUME NEW n \in 1 .. Len(nodes') PROVE n = statement' \/ HangsOn(n, nodes')
    <3>1. n \in 1 .. Len(nodes)
      BY <1>2
    <3>2. n = result \/ n = statement \/ HangsOn(n, nodes)
      BY <1>4, <3>1 DEF Forest, Attached
    <3>3. n # 0
      BY <3>1
    <3> QED
      BY <1>2, <2>1, <2>2, <3>2, <3>3
  <2> QED
    BY <2>3 DEF Attached
<1>6. Made'
  <2>1. \A m \in 1 .. Len(nodes) : nodes'[m].at = nodes[m].at
    BY <1>2 DEF SameBut
  <2> QED
    BY <1>1, <1>2, <1>4, <2>1 DEF Forest, Made
<1> QED
  BY <1>3, <1>5, <1>6 DEF Forest

LEMMA LaidByCondition ==
  ASSUME HInv, TypeOK', Condition, NEW lo, NEW hi, Laid(lo, hi)
  PROVE  /\ (\E lo3, hi3 : Laid(lo3, hi3))'
         /\ (\A n \in 1 .. Len(nodes) : Sided(n, nodes, Waiting)) => \A n \in 1 .. Len(nodes') : Sided(n, nodes', Waiting')
<1>1. /\ TInv /\ TypeOK /\ calls = <<>> /\ result = 0 /\ result' = 0 /\ statement # 0
  BY DEF HInv, EInv, OInv, TInv, Condition, InLoop
<1>2. /\ TokenTaken /\ NodeMade(IfNode) /\ statement' = New
      /\ Len(calls') = 1 /\ calls'[1] = Call("root", Len(read) + 1)
  BY <1>1, ConditionIs
<1>3. PICK w, w2, k, r, st, new : /\ w = Waiting /\ w2 = Waiting' /\ k = Len(nodes) /\ r = Len(read)
                                  /\ st = statement /\ new = New
  OBVIOUS
<1>4. /\ r \in Nat \ {0} /\ k \in Nat /\ lo \in [1 .. k -> Nat] /\ hi \in [1 .. k -> Nat]
      /\ (\A m \in 1 .. k : nodes[m] \in NodeSet(r, k))
      /\ st \in 1 .. k /\ new = k + 1
  BY <1>1, <1>3, PartsOf, LaidIs DEF New
<1>5. \A m : m \notin w
  BY <1>1, <1>3, WaitingAlone
<1>6. /\ Len(nodes') = new /\ nodes'[new] = IfNode /\ \A m \in 1 .. k : nodes'[m] = nodes[m]
      /\ Len(read') = r + 1
  BY <1>2, <1>3, <1>4 DEF NodeMade, TokenTaken
<1>7. PICK c : c = Call("root", r + 1)
  OBVIOUS
<1>8. /\ c.ops = <<>> /\ c.dot = 0 /\ c.parts = <<>> /\ c.current = 0 /\ c.step = "symbol" /\ c.from = r + 1
      /\ Len(<<>>) = 0 /\ calls'[1] = c /\ \A d \in 1 .. Len(calls') : d = 1
  BY <1>2, <1>3, <1>7 DEF Call
<1>9. \A m : m \in w2 <=> m = new
  <2>1. Busy' /\ new \in 1 .. Len(nodes')
    BY <1>2, <1>4, <1>6, NextIs DEF Busy
  <2>2. \A d \in 1 .. Len(calls') : Len(calls'[d].ops) = 0
    BY <1>8
  <2> QED
    BY <1>2, <1>3, <2>1, <2>2 DEF Waiting
<1>10. PICK lo2, hi2 : /\ lo2 = [m \in 1 .. k + 1 |-> IF m = k + 1 THEN lo[st] ELSE lo[m]]
                       /\ hi2 = [m \in 1 .. k + 1 |-> IF m = k + 1 THEN 0 ELSE hi[m]]
  OBVIOUS
<1>11. /\ lo2 \in [1 .. new -> Nat] /\ hi2 \in [1 .. new -> Nat] /\ lo2[new] = lo[st]
       /\ \A m \in 1 .. k : lo2[m] = lo[m] /\ hi2[m] = hi[m]
  BY <1>4, <1>10
<1>12. Follows(k, nodes, lo, hi, w, nodes', lo2, hi2, w2)
  BY <1>4, <1>6, <1>9, <1>11 DEF Follows
<1>24. PICK r2 : r2 = r + 1
  OBVIOUS
<1>25. r2 \in Nat /\ r \in Nat /\ r <= r2
  BY <1>4, <1>24
<1>13. ASSUME NEW n \in 1 .. k PROVE Spans(n, nodes', lo2, hi2, w2, r + 1)
  <2>1. Spans(n, nodes, lo, hi, w, r)
    BY <1>3, <1>4 DEF Laid
  <2>2. /\ nodes[n] \in NodeSet(r, k) /\ (n \notin w \/ n \in w2)
        /\ nodes'[n].before = nodes[n].before /\ nodes'[n].after = nodes[n].after
    BY <1>4, <1>5, <1>6
  <2>3. lo \in [1 .. k -> Nat] /\ hi \in [1 .. k -> Nat] /\ k \in Nat
    BY <1>4
  <2>4. PICK nd1, nd2 : nd1 = nodes /\ nd2 = nodes'
    OBVIOUS
  <2>5. Spans(n, nd1, lo, hi, w, r) /\ Follows(k, nd1, lo, hi, w, nd2, lo2, hi2, w2)
    BY <1>12, <2>1, <2>4
  <2>6. nd1[n] \in NodeSet(r, k) /\ nd2[n].before = nd1[n].before /\ nd2[n].after = nd1[n].after
    BY <2>2, <2>4
  <2>7. Spans(n, nd2, lo2, hi2, w2, r2)
    BY <1>25, <2>2, <2>3, <2>5, <2>6, SpansStill
  <2> QED
    BY <1>24, <2>4, <2>7
<1>14. PICK b, e, nd : b = <<st>> /\ e = <<>> /\ nd = nodes'
  OBVIOUS
<1>15. /\ nd[new].kind = "if" /\ nd[new].at = r /\ nd[new].before = b /\ nd[new].after = e
       /\ Len(b) = 1 /\ b[1] = st /\ Len(e) = 0
  BY <1>3, <1>6, <1>14 DEF IfNode
<1>16. Spans(new, nd, lo2, hi2, w2, r + 1)
  <2>1. /\ 1 <= lo[st] /\ lo[st] <= nodes[st].at /\ nodes[st].at < r /\ hi[st] < r
        /\ lo[st] \in Nat /\ nodes[st].at \in Nat
    BY <1>1, <1>3, <1>4, <1>5, LaidIs
  <2>5. lo2[new] = lo[st] /\ lo2[st] = lo[st] /\ hi2[st] = hi[st]
    BY <1>4, <1>11
  <2>6. st # new
    BY <1>4
  <2>7. st \notin w2 /\ new \in w2
    BY <1>9, <2>6
  <2>8. r \in Int /\ r < r + 1 /\ lo[st] <= r
    BY <1>4, <2>1
  <2>2. /\ 1 <= lo2[new] /\ lo2[new] <= r /\ r < r + 1 /\ lo2[new] <= lo2[st] /\ hi2[st] < r
        /\ st \notin w2 /\ new \in w2
    BY <2>1, <2>5, <2>7, <2>8
  <2>3. ASSUME NEW i \in 1 .. Len(b) PROVE b[i] \notin w2 /\ lo2[new] <= lo2[b[i]] /\ hi2[b[i]] < r
    <3>1. i = 1
      BY <1>15
    <3> QED
      BY <1>15, <2>2, <3>1
  <2>4. \A i \in 1 .. Len(e) : FALSE
    BY <1>15
  <2> QED
    BY <1>15, <2>2, <2>3, <2>4 DEF Spans
<1>17. InHand(c, nodes', lo2, hi2, w2, r + 1)
  BY <1>4, <1>8 DEF InHand, Outer, Opened
<1>18. Limit(1, lo2)' = r + 1 /\ Limit(0, lo2)' = r + 1
  BY <1>1, <1>2, <1>6, <1>8 DEF Limit
<1>19. statement' # 0 => nodes'[statement'].at < Limit(0, lo2)'
  BY <1>2, <1>3, <1>4, <1>14, <1>15, <1>18
<1>20. \A n \in 1 .. new : Spans(n, nodes', lo2, hi2, w2, r + 1)
  <2>1. \A n \in 1 .. new : n \in 1 .. k \/ n = new
    BY <1>4
  <2> QED
    BY <1>13, <1>14, <1>16, <2>1
<1>21. \A d \in 1 .. Len(calls') : InHand(calls'[d], nodes', lo2, hi2, w2, Limit(d, lo2)')
  <2> SUFFICES ASSUME NEW d \in 1 .. Len(calls') PROVE InHand(calls'[d], nodes', lo2, hi2, w2, Limit(d, lo2)')
    OBVIOUS
  <2>1. d = 1
    BY <1>8
  <2>2. Limit(d, lo2)' = r + 1
    BY <1>18, <2>1
  <2> QED
    BY <1>8, <1>17, <2>1, <2>2
<1>22. Laid(lo2, hi2)'
  BY <1>1, <1>3, <1>6, <1>11, <1>19, <1>20, <1>21 DEF Laid
<1>23. ASSUME \A n \in 1 .. Len(nodes) : Sided(n, nodes, Waiting), NEW n \in 1 .. Len(nodes') PROVE Sided(n, nodes', w2)
  <2>1. CASE n = new
    BY <1>14, <1>15, <2>1 DEF Sided
  <2>2. CASE n # new
    <3>1. n \in 1 .. k
      BY <1>4, <1>6, <2>2
    <3>2. Sided(n, nodes, w)
      BY <1>3, <1>23, <3>1
    <3> QED
      BY <1>5, <1>6, <3>1, <3>2 DEF Sided
  <2> QED
    BY <2>1, <2>2
<1> QED
  BY <1>3, <1>22, <1>23

LEMMA ForestByCondition ==
  ASSUME HInv, TypeOK', Forest, Condition
  PROVE  Forest'
<1>1. /\ TInv /\ TypeOK /\ calls = <<>> /\ result = 0 /\ result' = 0 /\ statement # 0 /\ value = "if"
      /\ verdict' = "compiling"
  BY DEF HInv, EInv, OInv, TInv, Condition, InLoop
<1>2. /\ TokenTaken /\ NodeMade(IfNode) /\ statement' = New /\ New = Len(nodes) + 1
      /\ Len(nodes) \in Nat /\ Len(read) \in Nat \ {0}
  BY <1>1, ConditionIs, StateIs DEF New
<1>3. (\E lo3, hi3 : Laid(lo3, hi3))' /\ \A n \in 1 .. Len(nodes') : Sided(n, nodes', Waiting')
  <2>1. PICK lo, hi : Laid(lo, hi)
    BY DEF Forest
  <2> QED
    BY <2>1, LaidByCondition DEF Forest
<1>4. \A d \in 1 .. Len(calls) : FALSE
  BY <1>1
<1>5. Attached'
  <2>1. ASSUME NEW n, HangsOn(n, nodes) PROVE HangsOn(n, nodes')
    <3>1. PICK m \in 1 .. Len(nodes) : \/ \E i \in 1 .. Len(nodes[m].before) : nodes[m].before[i] = n
                                       \/ \E i \in 1 .. Len(nodes[m].after) : nodes[m].after[i] = n
      BY <2>1 DEF HangsOn
    <3>2. m \in 1 .. Len(nodes') /\ nodes'[m] = nodes[m]
      BY <1>2 DEF NodeMade
    <3> QED
      BY <3>1, <3>2 DEF HangsOn
  <2>2. HangsOn(statement, nodes')
    <3>1. PICK b : b = <<statement>>
      OBVIOUS
    <3>2. nodes'[New].before = b /\ 1 \in 1 .. Len(b) /\ b[1] = statement /\ New \in 1 .. Len(nodes')
      BY <1>2, <3>1 DEF NodeMade, IfNode
    <3> QED
      BY <3>2 DEF HangsOn
  <2>3. ASSUME NEW n \in 1 .. Len(nodes') PROVE n = statement' \/ HangsOn(n, nodes')
    <3>1. CASE n = New
      BY <1>2, <3>1
    <3>2. CASE n # New
      <4>1. n \in 1 .. Len(nodes) /\ n # 0
        BY <1>2, <3>2 DEF NodeMade
      <4>2. n = statement \/ HangsOn(n, nodes)
        BY <1>1, <1>4, <4>1 DEF Forest, Attached
      <4> QED
        BY <2>1, <2>2, <4>2
    <3> QED
      BY <3>1, <3>2
  <2> QED
    BY <2>3 DEF Attached
<1>6. Made'
  <2>1. value \notin OwnNode
    BY <1>1 DEF OwnNode
  <2>2. ASSUME NEW p \in 1 .. Len(read') - 1, read'[p] \in OwnNode
        PROVE  \E n \in 1 .. Len(nodes') : nodes'[n].at = p
    <3>1. p \in 1 .. Len(read) - 1 /\ read[p] \in OwnNode
      <4>1. p \in 1 .. Len(read) /\ read'[p] = read[p]
        BY <1>2 DEF TokenTaken
      <4>2. p # Len(read)
        BY <2>1, <2>2, <4>1 DEF value
      <4> QED
        BY <1>2, <2>2, <4>1, <4>2
    <3>2. PICK n \in 1 .. Len(nodes) : nodes[n].at = p
      BY <1>4, <3>1 DEF Forest, Made
    <3>3. n \in 1 .. Len(nodes') /\ nodes'[n] = nodes[n]
      BY <1>2 DEF NodeMade
    <3> QED
      BY <3>2, <3>3
  <2> QED
    BY <1>1, <2>2 DEF Made
<1> QED
  BY <1>3, <1>5, <1>6 DEF Forest

LEMMA ForestByRests ==
  ASSUME HInv, TypeOK', Forest, Rests
  PROVE  Forest'
<1>1. /\ TypeOK /\ UNCHANGED <<read, nodes, calls, result, statement, failed>>
      /\ verdict' = verdict \/ (verdict' = "accepted" /\ Accept)
  BY RestsIs DEF HInv, EInv, OInv, TInv
<1>2. (Busy' <=> Busy) /\ value' = value
  BY <1>1 DEF Busy, value
<1>3. Waiting' = Waiting
  BY <1>1, <1>2 DEF Waiting
<1>4. PICK lo, hi : Laid(lo, hi)
  BY DEF Forest
<1>5. \A d : Limit(d, lo)' = Limit(d, lo)
  BY <1>1 DEF Limit
<1>6. Laid(lo, hi)'
  BY <1>1, <1>3, <1>4, <1>5 DEF Laid
<1>7. Attached'
  BY <1>1 DEF Forest, Attached
<1>8. \A n \in 1 .. Len(nodes') : Sided(n, nodes', Waiting')
  BY <1>1, <1>3 DEF Forest
<1>9. Accept => value \notin OwnNode
  BY DEF Accept, Ends, OwnNode
<1>10. Made'
  BY <1>1, <1>2, <1>9 DEF Forest, Made
<1> QED
  BY <1>6, <1>7, <1>8, <1>10 DEF Forest

LEMMA ForestAtStart == Init => Forest
<1> SUFFICES ASSUME Init PROVE Forest
  OBVIOUS
<1>1. /\ nodes = <<>> /\ Len(nodes) = 0 /\ calls = <<Call("root", 1)>> /\ result = 0 /\ statement = 0
      /\ verdict = "compiling" /\ Len(read) = 1
  BY DEF Init
<1>2. (\A n \in 1 .. Len(nodes) : FALSE) /\ \A p \in 1 .. Len(read) - 1 : FALSE
  BY <1>1
<1>3. PICK c : c = Call("root", 1)
  OBVIOUS
<1>4. /\ Len(calls) = 1 /\ calls[1] = c /\ \A d \in 1 .. Len(calls) : d = 1
      /\ c.ops = <<>> /\ c.dot = 0 /\ c.parts = <<>> /\ c.current = 0 /\ c.step = "symbol"
      /\ Len(<<>>) = 0
  BY <1>1, <1>3 DEF Call
<1>5. PICK f : f = [m \in 1 .. Len(nodes) |-> 0]
  OBVIOUS
<1>6. f \in [1 .. Len(nodes) -> Nat]
  BY <1>5
<1>7. InHand(c, nodes, f, f, Waiting, 1)
  BY <1>4 DEF InHand, Outer, Opened
<1>8. Limit(1, f) = 1
  BY <1>1, <1>4 DEF Limit
<1>9. Laid(f, f)
  BY <1>1, <1>2, <1>4, <1>6, <1>7, <1>8 DEF Laid
<1>10. Attached /\ Made
  BY <1>1, <1>2 DEF Attached, Made
<1> QED
  BY <1>2, <1>9, <1>10 DEF Forest

LEMMA ForestKept == GInv /\ [Next]_vars => GInv'
<1> SUFFICES ASSUME GInv, [Next]_vars PROVE GInv'
  OBVIOUS
<1>1. HInv /\ HInv' /\ TInv /\ TypeOK'
  <2>1. HInv
    BY DEF GInv
  <2>2. TInv' /\ Nested' /\ Edged' /\ Holes'
    BY <2>1, TypesKept, NestedKept, EdgedKept, HolesKept DEF HInv, EInv, OInv
  <2> QED
    BY <2>1, <2>2 DEF HInv, EInv, OInv, TInv
<1>2. CASE Fails
  <2>1. failed' = TRUE
    BY <1>1, <1>2, FailsIs DEF Fail
  <2> QED
    BY <1>1, <2>1 DEF GInv
<1>3. CASE ~Fails
  <2> SUFFICES ASSUME ~failed' PROVE Forest'
    BY <1>1 DEF GInv
  <2>1. failed' = failed
    BY <1>1, <1>3, ActionsAre, RestsIs
       DEF Sign, Operand, Inner, Block, List, NextArgument, EndOfList, Index, Dot, DotAtEnd, EndOfSymbol,
           EndOfExpr, Operator, InnerDone, BlockDone, ArgumentDone, IndexDone, StatementDone, Condition
  <2>2. Forest
    BY <2>1 DEF GInv
  <2>3. CASE Sign \/ Operand \/ Inner \/ Block \/ List \/ NextArgument \/ EndOfList
    BY <1>1, <2>2, <2>3, ForestBySign, ForestByOperand, ForestByInner, ForestByBlock, ForestByList,
       ForestByNextArgument, ForestByEndOfList
  <2>4. CASE Index \/ Dot \/ DotAtEnd \/ EndOfSymbol \/ EndOfExpr \/ Operator
    BY <1>1, <2>2, <2>4, ForestByIndex, ForestByDot, ForestByDotAtEnd, ForestByEndOfSymbol, ForestByEnd,
       ForestByOperator
  <2>5. CASE InnerDone \/ BlockDone \/ ArgumentDone \/ IndexDone \/ StatementDone \/ Condition \/ Rests
    BY <1>1, <2>2, <2>5, ForestByInnerDone, ForestByBlockDone, ForestByArgumentDone, ForestByIndexDone,
       ForestByStatementDone, ForestByCondition, ForestByRests
  <2> QED
    BY <1>3, <2>3, <2>4, <2>5, ActionsAre
<1> QED
  BY <1>2, <1>3

(* The invariant holds: see the head of the module.                        *)
LEMMA ForestAlways == Spec => []GInv
<1>1. Init => GInv
  BY TypesAtStart, NestedAtStart, EdgedAtStart, HolesAtStart, ForestAtStart DEF GInv, HInv, EInv, OInv
<1> QED
  BY <1>1, ForestKept, PTL DEF Spec

-----------------------------------------------------------------------------
(* What is under a node, where D are the nodes and B[n] those linked to n: *)
(* every set with n that has with a node those linked to it has them all.  *)
ClosedUnder(T, B) == \A x \in T : B[x] \subseteq T

FromOn(n, D, B) == {m \in D : \A T \in SUBSET D : n \in T /\ ClosedUnder(T, B) => m \in T}

Unfolds(f, D, B) == \A n \in D : f[n] = {n} \cup UNION {f[m] : m \in B[n]}

LEMMA FromOnIs ==
  ASSUME NEW D, NEW B \in [D -> SUBSET D], NEW n \in D
  PROVE  FromOn(n, D, B) = {n} \cup UNION {FromOn(m, D, B) : m \in B[n]}
<1> DEFINE U == {n} \cup UNION {FromOn(m, D, B) : m \in B[n]}
<1>1. \A x \in D : x \in FromOn(x, D, B)
  BY DEF FromOn
<1>2. ASSUME NEW x \in D, NEW y \in FromOn(x, D, B) PROVE B[y] \subseteq FromOn(x, D, B)
  <2>1. y \in D /\ B[y] \subseteq D
    BY <1>2 DEF FromOn
  <2>2. ASSUME NEW z \in B[y], NEW T \in SUBSET D, x \in T, ClosedUnder(T, B) PROVE z \in T
    <3>1. y \in T
      BY <1>2, <2>2 DEF FromOn
    <3> QED
      BY <2>2, <3>1 DEF ClosedUnder
  <2> QED
    BY <2>1, <2>2 DEF FromOn
<1>3. U \in SUBSET D /\ n \in U
  BY DEF FromOn
<1>4. ClosedUnder(U, B)
  <2> SUFFICES ASSUME NEW x \in U, NEW y \in B[x] PROVE y \in U
    BY DEF ClosedUnder
  <2>1. CASE x = n
    <3>1. y \in D /\ y \in FromOn(y, D, B)
      BY <1>1, <2>1
    <3> QED
      BY <2>1, <3>1
  <2>2. CASE x # n
    <3>1. PICK m \in B[n] : x \in FromOn(m, D, B)
      BY <2>2
    <3>2. y \in FromOn(m, D, B)
      BY <1>2, <3>1
    <3> QED
      BY <3>2
  <2> QED
    BY <2>1, <2>2
<1>5. FromOn(n, D, B) \subseteq U
  BY <1>3, <1>4 DEF FromOn
<1>6. U \subseteq FromOn(n, D, B)
  <2> SUFFICES ASSUME NEW m \in B[n], NEW x \in FromOn(m, D, B) PROVE x \in FromOn(n, D, B)
    BY <1>1
  <2>1. x \in D
    BY DEF FromOn
  <2>2. ASSUME NEW T \in SUBSET D, n \in T, ClosedUnder(T, B) PROVE x \in T
    <3>1. m \in T
      BY <2>2 DEF ClosedUnder
    <3> QED
      BY <2>2, <3>1 DEF FromOn
  <2> QED
    BY <2>1, <2>2 DEF FromOn
<1> QED
  BY <1>5, <1>6

LEMMA UnderExists ==
  ASSUME NEW D, NEW B \in [D -> SUBSET D]
  PROVE  \E f : f = [n \in D |-> {n} \cup UNION {f[m] : m \in B[n]}]
<1> DEFINE f == [n \in D |-> FromOn(n, D, B)]
<1>1. ASSUME NEW n \in D PROVE f[n] = {n} \cup UNION {f[m] : m \in B[n]}
  <2>1. B[n] \subseteq D
    OBVIOUS
  <2>2. {f[m] : m \in B[n]} = {FromOn(m, D, B) : m \in B[n]}
    BY <2>1
  <2> QED
    BY <2>2, FromOnIs
<1> HIDE DEF f
<1>2. [n \in D |-> {n} \cup UNION {f[m] : m \in B[n]}] = [n \in D |-> f[n]]
  BY <1>1
<1>3. f = [n \in D |-> f[n]]
  BY DEF f
<1> QED
  BY <1>2, <1>3

-----------------------------------------------------------------------------
(* A set of nodes has one of the least size, and one of the greatest.      *)
LEMMA LeastNatural ==
  ASSUME NEW T, T \subseteq Nat, T # {}
  PROVE  \E m \in T : \A k \in T : m <= k
<1>1. PICK R : R = OpToRel(<, Nat)
  OBVIOUS
<1>2. IsWellFoundedOn(R, Nat)
  BY <1>1, NatLessThanWellFounded
<1>3. PICK m \in T : \A k \in T : ~ (<<k, m>> \in R)
  BY <1>2, WFMin
<1>4. ASSUME NEW k \in T, k < m PROVE <<k, m>> \in R
  BY <1>1, <1>4 DEF OpToRel
<1>5. \A k \in T : m <= k
  <2> SUFFICES ASSUME NEW k \in T PROVE m <= k
    OBVIOUS
  <2>1. ~ (k < m)
    BY <1>3, <1>4
  <2>2. m \in Nat /\ k \in Nat
    OBVIOUS
  <2> QED
    BY <2>1, <2>2
<1> QED
  BY <1>5

LEMMA Smallest ==
  ASSUME NEW D, NEW size \in [D -> Nat], NEW S \in SUBSET D, S # {}
  PROVE  \E n \in S : \A m \in S : size[n] <= size[m]
<1>1. PICK T : T = {size[n] : n \in S}
  OBVIOUS
<1>2. T \subseteq Nat /\ T # {}
  BY <1>1
<1>3. PICK t \in T : \A k \in T : t <= k
  BY <1>2, LeastNatural
<1>4. PICK n \in S : size[n] = t
  BY <1>1
<1> QED
  BY <1>1, <1>3, <1>4

LEMMA Greatest ==
  ASSUME NEW D, NEW N \in Nat, NEW size \in [D -> 0 .. N], NEW S \in SUBSET D, S # {}
  PROVE  \E n \in S : \A m \in S : size[m] <= size[n]
<1>1. PICK rest : rest = [n \in D |-> N - size[n]]
  OBVIOUS
<1>2. ASSUME NEW n \in D PROVE size[n] \in 0 .. N /\ rest[n] = N - size[n] /\ N - size[n] \in Nat
  <2>1. size[n] \in 0 .. N /\ rest[n] = N - size[n]
    BY <1>1
  <2> QED
    BY <2>1
<1>3. rest \in [D -> Nat]
  BY <1>1, <1>2
<1>4. PICK n \in S : \A m \in S : rest[n] <= rest[m]
  BY <1>3, Smallest
<1>5. ASSUME NEW m \in S PROVE size[m] <= size[n]
  <2>1. /\ rest[n] <= rest[m] /\ rest[n] = N - size[n] /\ rest[m] = N - size[m]
        /\ size[n] \in 0 .. N /\ size[m] \in 0 .. N
    BY <1>2, <1>4
  <2> QED
    BY <2>1
<1> QED
  BY <1>5

-----------------------------------------------------------------------------
(* Nodes that lie from lo to hi, those linked to a node within it, are a   *)
(* forest: what is under a node lies within it.                            *)
Within(D, B, lo, hi) ==
  \A n \in D : \A m \in B[n] : lo[n] <= lo[m] /\ hi[m] <= hi[n] /\ (lo[n] < lo[m] \/ hi[m] < hi[n])

LEMMA SizesShrink ==
  ASSUME NEW D, NEW B \in [D -> SUBSET D], NEW lo \in [D -> Nat], NEW hi \in [D -> Nat],
         \A n \in D : lo[n] <= hi[n], Within(D, B, lo, hi)
  PROVE  \E size \in [D -> Nat] : /\ \A n \in D : \A m \in B[n] : size[m] < size[n]
                                  /\ \A n \in D : size[n] <= hi[n]
<1>1. PICK size : size = [n \in D |-> hi[n] - lo[n]]
  OBVIOUS
<1>2. ASSUME NEW n \in D PROVE size[n] = hi[n] - lo[n] /\ size[n] \in Nat /\ size[n] <= hi[n] /\ lo[n] \in Nat /\ hi[n] \in Nat
  <2>1. lo[n] \in Nat /\ hi[n] \in Nat /\ lo[n] <= hi[n] /\ size[n] = hi[n] - lo[n]
    BY <1>1
  <2> QED
    BY <2>1
<1>3. ASSUME NEW n \in D, NEW m \in B[n] PROVE size[m] < size[n]
  <2>1. m \in D
    OBVIOUS
  <2>2. lo[n] <= lo[m] /\ hi[m] <= hi[n] /\ (lo[n] < lo[m] \/ hi[m] < hi[n])
    BY DEF Within
  <2> QED
    BY <1>2, <2>1, <2>2
<1>4. size \in [D -> Nat]
  BY <1>1, <1>2
<1> QED
  BY <1>2, <1>3, <1>4

LEMMA UnderLiesWithin ==
  ASSUME NEW D, NEW B \in [D -> SUBSET D], NEW lo \in [D -> Nat], NEW hi \in [D -> Nat],
         \A n \in D : lo[n] <= hi[n], Within(D, B, lo, hi), NEW f, Unfolds(f, D, B)
  PROVE  \A n \in D : \A m \in f[n] : m \in D /\ lo[n] <= lo[m] /\ hi[m] <= hi[n]
<1>1. PICK size \in [D -> Nat] : \A n \in D : \A m \in B[n] : size[m] < size[n]
  BY SizesShrink
<1>2. PICK S : S = {n \in D : \E m \in f[n] : ~(m \in D /\ lo[n] <= lo[m] /\ hi[m] <= hi[n])}
  OBVIOUS
<1>3. ASSUME S # {} PROVE FALSE
  <2>1. S \in SUBSET D
    BY <1>2
  <2>2. PICK n \in S : \A m \in S : size[n] <= size[m]
    BY <1>3, <2>1, Smallest
  <2>3. n \in D
    BY <2>1
  <2>4. PICK m \in f[n] : ~(m \in D /\ lo[n] <= lo[m] /\ hi[m] <= hi[n])
    BY <1>2, <2>2
  <2>5. m # n
    <3>1. lo[n] \in Nat /\ hi[n] \in Nat
      BY <2>3
    <3> QED
      BY <2>3, <2>4, <3>1
  <2>6. PICK b \in B[n] : m \in f[b]
    BY <2>3, <2>4, <2>5 DEF Unfolds
  <2>7. b \in D /\ size[b] < size[n] /\ size[b] \in Nat /\ size[n] \in Nat
    BY <1>1, <2>3, <2>6
  <2>8. b \notin S
    <3>1. ~ (size[n] <= size[b])
      BY <2>7
    <3> QED
      BY <2>2, <3>1
  <2>9. m \in D /\ lo[b] <= lo[m] /\ hi[m] <= hi[b]
    BY <1>2, <2>6, <2>7, <2>8
  <2>10. lo[n] <= lo[b] /\ hi[b] <= hi[n]
    BY <2>3, <2>6 DEF Within
  <2>11. /\ lo[n] \in Nat /\ lo[b] \in Nat /\ lo[m] \in Nat
         /\ hi[n] \in Nat /\ hi[b] \in Nat /\ hi[m] \in Nat
    BY <2>3, <2>7, <2>9
  <2>12. lo[n] <= lo[m] /\ hi[m] <= hi[n]
    BY <2>9, <2>10, <2>11
  <2> QED
    BY <2>4, <2>9, <2>12
<1> QED
  BY <1>2, <1>3

LEMMA UnderIsClosed ==
  ASSUME NEW D, NEW B \in [D -> SUBSET D], NEW lo \in [D -> Nat], NEW hi \in [D -> Nat],
         \A n \in D : lo[n] <= hi[n], Within(D, B, lo, hi), NEW f, Unfolds(f, D, B)
  PROVE  \A n \in D : \A m \in f[n] : B[m] \subseteq f[n]
<1>1. PICK size \in [D -> Nat] : \A n \in D : \A m \in B[n] : size[m] < size[n]
  BY SizesShrink
<1>2. PICK S : S = {n \in D : \E m \in f[n] : ~(B[m] \subseteq f[n])}
  OBVIOUS
<1>3. ASSUME S # {} PROVE FALSE
  <2>1. S \in SUBSET D
    BY <1>2
  <2>2. PICK n \in S : \A m \in S : size[n] <= size[m]
    BY <1>3, <2>1, Smallest
  <2>3. n \in D
    BY <2>1
  <2>4. PICK m \in f[n] : ~(B[m] \subseteq f[n])
    BY <1>2, <2>2
  <2>5. \A b \in B[n] : b \in D /\ b \in f[b] /\ f[b] \subseteq f[n]
    BY <2>3 DEF Unfolds
  <2>6. m # n
    BY <2>4, <2>5
  <2>7. PICK b \in B[n] : m \in f[b]
    BY <2>3, <2>4, <2>6 DEF Unfolds
  <2>8. b \in D /\ size[b] < size[n] /\ size[b] \in Nat /\ size[n] \in Nat
    BY <1>1, <2>3, <2>7
  <2>9. b \notin S
    <3>1. ~ (size[n] <= size[b])
      BY <2>8
    <3> QED
      BY <2>2, <3>1
  <2>10. B[m] \subseteq f[b]
    BY <1>2, <2>7, <2>8, <2>9
  <2> QED
    BY <2>4, <2>5, <2>7, <2>10
<1> QED
  BY <1>2, <1>3

(* If all but s are linked to another one, all of them are under s.        *)
LEMMA AllUnderOne ==
  ASSUME NEW D, NEW B \in [D -> SUBSET D], NEW N \in Nat, NEW lo \in [D -> Nat], NEW hi \in [D -> Nat],
         \A n \in D : lo[n] <= hi[n] /\ hi[n] <= N, Within(D, B, lo, hi), NEW f, Unfolds(f, D, B),
         NEW s \in D, \A n \in D : n = s \/ \E m \in D : n \in B[m]
  PROVE  f[s] = D
<1>1. PICK size \in [D -> Nat] : /\ \A n \in D : \A m \in B[n] : size[m] < size[n]
                                 /\ \A n \in D : size[n] <= hi[n]
  BY SizesShrink
<1>2. size \in [D -> 0 .. N]
  <2>1. ASSUME NEW n \in D PROVE size[n] \in 0 .. N
    <3>1. size[n] \in Nat /\ size[n] <= hi[n] /\ hi[n] <= N /\ hi[n] \in Nat
      BY <1>1
    <3> QED
      BY <3>1
  <2> QED
    BY <2>1
<1>3. PICK S : S = D \ f[s]
  OBVIOUS
<1>4. ASSUME S # {} PROVE FALSE
  <2>1. S \in SUBSET D
    BY <1>3
  <2>2. PICK n \in S : \A m \in S : size[m] <= size[n]
    BY <1>2, <1>4, <2>1, Greatest
  <2>3. n \in D /\ n \notin f[s]
    BY <1>3
  <2>4. s \in f[s]
    BY DEF Unfolds
  <2>5. PICK m \in D : n \in B[m]
    BY <2>3, <2>4
  <2>6. size[n] < size[m] /\ size[n] \in Nat /\ size[m] \in Nat
    BY <1>1, <2>3, <2>5
  <2>7. m \notin S
    <3>1. ~ (size[m] <= size[n])
      BY <2>6
    <3> QED
      BY <2>2, <3>1
  <2>8. m \in f[s]
    BY <1>3, <2>5, <2>7
  <2> QED
    BY <2>3, <2>5, <2>8, UnderIsClosed
<1>5. f[s] \subseteq D
  BY UnderLiesWithin
<1> QED
  BY <1>3, <1>4, <1>5

-----------------------------------------------------------------------------
(* There is a statement when one is accepted.                              *)
Stated == verdict = "accepted" => statement # 0

LEMMA StatedKept == HInv /\ Stated /\ [Next]_vars => Stated'
<1> SUFFICES ASSUME HInv, Stated, [Next]_vars PROVE Stated'
  OBVIOUS
<1>1. CASE Fails
  <2>1. statement' = statement /\ (verdict' = verdict \/ verdict' = "rejected")
    BY <1>1, FailsIs DEF Fail, HInv, EInv, OInv, TInv
  <2> QED
    BY <2>1 DEF Stated
<1>2. CASE Rests
  <2>1. statement' = statement /\ (verdict' = verdict \/ Accept)
    BY <1>2, RestsIs DEF HInv, EInv, OInv, TInv
  <2> QED
    BY <2>1 DEF Stated, Accept, InLoop
<1>3. CASE ~Fails /\ ~Rests
  <2>1. verdict = "compiling" /\ verdict' = verdict
    BY <1>3, ActionsAre
       DEF Sign, Operand, Inner, Block, List, NextArgument, EndOfList, Index, Dot, DotAtEnd, EndOfSymbol,
           EndOfExpr, Operator, InnerDone, BlockDone, ArgumentDone, IndexDone, StatementDone, Condition,
           Unsigned, At, Waits, InLoop
  <2> QED
    BY <2>1 DEF Stated
<1> QED
  BY <1>1, <1>2, <1>3

-----------------------------------------------------------------------------
(* Links that D and B stand for.                                           *)
LEMMA BelowIs ==
  ASSUME TInv, NEW n \in 1 .. Len(nodes)
  PROVE  /\ DOMAIN nodes[n].before = 1 .. Len(nodes[n].before)
         /\ DOMAIN nodes[n].after = 1 .. Len(nodes[n].after)
         /\ Below(n) \subseteq 1 .. Len(nodes)
<1>1. nodes[n] \in NodeSet(Len(read), Len(nodes))
  BY PartsOf
<1>2. PICK b, a, k : b = nodes[n].before /\ a = nodes[n].after /\ k = Len(nodes)
  OBVIOUS
<1>3. b \in Seq(1 .. k) /\ a \in Seq(1 .. k)
  BY <1>1, <1>2 DEF NodeSet
<1>5. k \in Nat
  BY <1>2, PartsOf
<1>6. DOMAIN b = 1 .. Len(b) /\ \A i \in 1 .. Len(b) : b[i] \in 1 .. k
  BY <1>3, <1>5, ListIs2
<1>7. DOMAIN a = 1 .. Len(a) /\ \A i \in 1 .. Len(a) : a[i] \in 1 .. k
  BY <1>3, <1>5, ListIs2
<1>4. /\ DOMAIN b = 1 .. Len(b) /\ DOMAIN a = 1 .. Len(a)
      /\ (\A i \in DOMAIN b : b[i] \in 1 .. k) /\ \A i \in DOMAIN a : a[i] \in 1 .. k
  BY <1>6, <1>7
<1> QED
  BY <1>2, <1>4 DEF Below

LEMMA UnderUnfolds ==
  ASSUME TInv, NEW B, B = [n \in DOMAIN nodes |-> Below(n)]
  PROVE  Unfolds(Under, DOMAIN nodes, B)
<1>1. PICK D : D = DOMAIN nodes
  OBVIOUS
<1>2. D = 1 .. Len(nodes)
  BY <1>1, StateIs DEF TInv
<1>3. B \in [D -> SUBSET D] /\ \A n \in D : B[n] = Below(n)
  BY <1>1, <1>2, BelowIs
<1>4. PICK f : f = [n \in D |-> {n} \cup UNION {f[m] : m \in B[n]}]
  BY <1>3, UnderExists
<1>5. \A g : [n \in D |-> {n} \cup UNION {g[m] : m \in B[n]}] = [n \in D |-> {n} \cup UNION {g[m] : m \in Below(n)}]
  BY <1>3
<1>6. f = [n \in DOMAIN nodes |-> {n} \cup UNION {f[m] : m \in Below(n)}]
  BY <1>1, <1>4, <1>5
<1>7. Under = [n \in DOMAIN nodes |-> {n} \cup UNION {Under[m] : m \in Below(n)}]
  BY <1>6 DEF Under
<1>10. \A n \in DOMAIN nodes : Under[n] = {n} \cup UNION {Under[m] : m \in Below(n)}
  BY <1>7
<1>11. \A n \in D : Under[n] = {n} \cup UNION {Under[m] : m \in B[n]}
  BY <1>1, <1>3, <1>10
<1> QED
  BY <1>1, <1>11 DEF Unfolds

(* What an accepted statement has of the invariant.                        *)
LEMMA AcceptedIs ==
  ASSUME GInv, Stated, Complete
  PROVE  /\ TInv /\ Forest /\ calls = <<>> /\ result = 0 /\ Waiting = {} /\ value \notin OwnNode
         /\ statement \in 1 .. Len(nodes)
         /\ \A n \in 1 .. Len(nodes) : ~Hole(n, nodes)
<1>1. TInv /\ Forest /\ HInv /\ verdict = "accepted" /\ ~failed
  BY DEF GInv, Complete, HInv, EInv, OInv
<1>2. ~Busy /\ \A n \in 1 .. Len(nodes) : ~Hole(n, nodes)
  BY <1>1 DEF HInv, Holes
<1>3. calls = <<>> /\ result = 0
  BY <1>2 DEF Busy
<1>4. Waiting = {}
  <2>1. TypeOK
    BY <1>1 DEF TInv
  <2>2. \A m : m \notin Waiting
    BY <1>3, <2>1, WaitingAlone
  <2> QED
    BY <2>2
<1>5. value \notin OwnNode
  BY <1>1 DEF Forest, Made
<1>6. statement \in 0 .. Len(nodes) /\ Len(nodes) \in Nat
  BY <1>1, PartsOf
<1>7. statement # 0
  BY <1>1 DEF Stated
<1>8. statement \in 1 .. Len(nodes)
  BY <1>6, <1>7
<1> QED
  BY <1>1, <1>2, <1>3, <1>4, <1>5, <1>8

(* The spans of an accepted statement, in the terms of the lemmas above.   *)
LEMMA AcceptedSpans ==
  ASSUME GInv, Stated, Complete, NEW B, B = [n \in DOMAIN nodes |-> Below(n)],
         NEW lo, NEW hi, Laid(lo, hi)
  PROVE  /\ DOMAIN nodes = 1 .. Len(nodes)
         /\ B \in [DOMAIN nodes -> SUBSET (DOMAIN nodes)]
         /\ lo \in [DOMAIN nodes -> Nat] /\ hi \in [DOMAIN nodes -> Nat]
         /\ \A n \in DOMAIN nodes : lo[n] <= nodes[n].at /\ nodes[n].at <= hi[n] /\ hi[n] <= Len(read)
                                    /\ lo[n] <= hi[n] /\ nodes[n].at \in Nat
         /\ Within(DOMAIN nodes, B, lo, hi)
<1>1. PICK D, k, r, w : D = DOMAIN nodes /\ k = Len(nodes) /\ r = Len(read) /\ w = Waiting
  OBVIOUS
<1>2. TInv /\ \A n : n \notin w
  BY <1>1, AcceptedIs
<1>3. D = 1 .. k /\ r \in Nat /\ k \in Nat
  BY <1>1, <1>2, PartsOf, StateIs DEF TInv
<1>4. \A n \in D : B[n] = Below(n) /\ Below(n) \subseteq D
  BY <1>1, <1>2, <1>3, BelowIs
<1>5. B \in [D -> SUBSET D]
  BY <1>1, <1>4
<1>6. lo \in [D -> Nat] /\ hi \in [D -> Nat]
  BY <1>1, <1>3 DEF Laid
<1>7. ASSUME NEW n \in D PROVE nodes[n].at \in Nat /\ lo[n] \in Nat /\ hi[n] \in Nat
  <2>1. nodes[n] \in NodeSet(r, k)
    BY <1>1, <1>2, <1>3, PartsOf
  <2>2. nodes[n].at \in 1 .. r
    BY <1>3, <2>1, LinksOf
  <2> QED
    BY <1>3, <1>6, <2>2
<1>8. ASSUME NEW n \in D PROVE Spans(n, nodes, lo, hi, w, r)
  BY <1>1, <1>3 DEF Laid
<1>9. ASSUME NEW n \in D PROVE lo[n] <= nodes[n].at /\ nodes[n].at <= hi[n] /\ hi[n] < r
  BY <1>2, <1>8 DEF Spans
<1>10. ASSUME NEW n \in D
       PROVE  /\ lo[n] <= nodes[n].at /\ nodes[n].at <= hi[n] /\ hi[n] <= r
              /\ lo[n] <= hi[n] /\ nodes[n].at \in Nat
  <2>1. lo[n] <= nodes[n].at /\ nodes[n].at <= hi[n] /\ hi[n] < r
    BY <1>9
  <2>2. nodes[n].at \in Nat /\ lo[n] \in Nat /\ hi[n] \in Nat
    BY <1>7
  <2> QED
    BY <1>3, <2>1, <2>2
<1>11. ASSUME NEW n \in D, NEW m \in B[n]
       PROVE  lo[n] <= lo[m] /\ hi[m] <= hi[n] /\ (lo[n] < lo[m] \/ hi[m] < hi[n])
  <2>1. PICK b, a : b = nodes[n].before /\ a = nodes[n].after
    OBVIOUS
  <2>2. m \in Below(n) /\ m \in D
    BY <1>4
  <2>3. DOMAIN b = 1 .. Len(b) /\ DOMAIN a = 1 .. Len(a)
    BY <1>1, <1>2, <1>3, <2>1, BelowIs
  <2>4. /\ \A i \in 1 .. Len(b) : lo[n] <= lo[b[i]] /\ hi[b[i]] < nodes[n].at
        /\ \A i \in 1 .. Len(a) : nodes[n].at < lo[a[i]] /\ hi[a[i]] <= hi[n]
    BY <1>2, <1>8, <2>1 DEF Spans
  <2>5. /\ nodes[n].at \in Nat /\ lo[n] \in Nat /\ hi[n] \in Nat /\ lo[m] \in Nat /\ hi[m] \in Nat
        /\ lo[n] <= nodes[n].at /\ nodes[n].at <= hi[n]
    BY <1>7, <1>9, <2>2
  <2>6. CASE \E i \in 1 .. Len(b) : m = b[i]
    <3>1. lo[n] <= lo[m] /\ hi[m] < nodes[n].at
      BY <2>4, <2>6
    <3> QED
      BY <2>5, <3>1
  <2>7. CASE \E i \in 1 .. Len(a) : m = a[i]
    <3>1. nodes[n].at < lo[m] /\ hi[m] <= hi[n]
      BY <2>4, <2>7
    <3> QED
      BY <2>5, <3>1
  <2> QED
    BY <2>1, <2>2, <2>3, <2>6, <2>7 DEF Below
<1>12. Within(D, B, lo, hi)
  BY <1>11 DEF Within
<1> QED
  BY <1>1, <1>3, <1>5, <1>6, <1>10, <1>12

(* The tree of an accepted statement.                                      *)
LEMMA TreeOfAccepted ==
  ASSUME GInv, Stated, Complete
  PROVE  /\ Under[statement] = DOMAIN nodes
         /\ \E lo, hi :
              /\ Laid(lo, hi)
              /\ \A n \in 1 .. Len(nodes) : \A m \in Under[n] :
                   /\ m \in 1 .. Len(nodes) /\ nodes[m].at \in Nat /\ lo[n] \in Nat /\ hi[n] \in Nat
                   /\ lo[n] <= nodes[m].at /\ nodes[m].at <= hi[n]
<1>1. /\ TInv /\ Forest /\ calls = <<>> /\ result = 0 /\ Waiting = {} /\ statement \in 1 .. Len(nodes)
  BY AcceptedIs
<1>2. PICK lo, hi : Laid(lo, hi)
  BY <1>1 DEF Forest
<1>3. PICK D, B, r : D = DOMAIN nodes /\ B = [n \in DOMAIN nodes |-> Below(n)] /\ r = Len(read)
  OBVIOUS
<1>4. /\ D = 1 .. Len(nodes) /\ B \in [D -> SUBSET D] /\ lo \in [D -> Nat] /\ hi \in [D -> Nat]
      /\ \A n \in D : lo[n] <= nodes[n].at /\ nodes[n].at <= hi[n] /\ hi[n] <= r
                      /\ lo[n] <= hi[n] /\ nodes[n].at \in Nat
      /\ Within(D, B, lo, hi)
  BY <1>2, <1>3, AcceptedSpans
<1>5. PICK f : f = Under
  OBVIOUS
<1>6. Unfolds(f, D, B)
  BY <1>1, <1>3, <1>5, UnderUnfolds
<1>7. r \in Nat /\ statement \in D /\ (\A n \in D : lo[n] <= hi[n] /\ hi[n] <= r) /\ \A n \in D : lo[n] <= hi[n]
  BY <1>1, <1>3, <1>4, PartsOf
<1>8. \A n \in D : n = statement \/ \E m \in D : n \in B[m]
  <2> SUFFICES ASSUME NEW n \in D, n # statement PROVE \E m \in D : n \in B[m]
    OBVIOUS
  <2>1. Len(calls) = 0 /\ n \in 1 .. Len(nodes) /\ n # 0
    BY <1>1, <1>4
  <2>2. HangsOn(n, nodes)
    <3>1. \A d \in 1 .. Len(calls) : FALSE
      BY <2>1
    <3>2. Attached
      BY <1>1 DEF Forest
    <3> QED
      BY <1>1, <2>1, <3>1, <3>2 DEF Attached
  <2>3. PICK m \in 1 .. Len(nodes) : \/ \E i \in 1 .. Len(nodes[m].before) : nodes[m].before[i] = n
                                     \/ \E i \in 1 .. Len(nodes[m].after) : nodes[m].after[i] = n
    BY <2>2 DEF HangsOn
  <2>4. n \in Below(m)
    BY <1>1, <2>3, BelowIs DEF Below
  <2> QED
    BY <1>3, <1>4, <2>3, <2>4
<1>13. B \in [D -> SUBSET D] /\ lo \in [D -> Nat] /\ hi \in [D -> Nat]
  BY <1>4
<1>14. Within(D, B, lo, hi)
  BY <1>4
<1>15. \A n \in D : lo[n] <= hi[n] /\ hi[n] <= r
  BY <1>7
<1>16. \A n \in D : lo[n] <= hi[n]
  BY <1>7
<1>17. r \in Nat /\ statement \in D
  BY <1>7
<1>18. PICK s : s = statement
  OBVIOUS
<1>19. s \in D /\ \A n \in D : n = s \/ \E m \in D : n \in B[m]
  BY <1>8, <1>17, <1>18
<1>9. f[statement] = D
  <2>1. f[s] = D
    BY <1>6, <1>13, <1>14, <1>15, <1>17, <1>19, AllUnderOne
  <2> QED
    BY <1>18, <2>1
<1>10. \A n \in D : \A m \in f[n] : m \in D /\ lo[n] <= lo[m] /\ hi[m] <= hi[n]
  BY <1>6, <1>13, <1>14, <1>16, UnderLiesWithin
<1>11. ASSUME NEW n \in 1 .. Len(nodes), NEW m \in Under[n]
       PROVE  /\ m \in 1 .. Len(nodes) /\ nodes[m].at \in Nat /\ lo[n] \in Nat /\ hi[n] \in Nat
              /\ lo[n] <= nodes[m].at /\ nodes[m].at <= hi[n]
  <2>1. n \in D /\ m \in D /\ lo[n] <= lo[m] /\ hi[m] <= hi[n]
    BY <1>4, <1>5, <1>10, <1>11
  <2>2. /\ lo[n] \in Nat /\ lo[m] \in Nat /\ hi[n] \in Nat /\ hi[m] \in Nat /\ nodes[m].at \in Nat
        /\ lo[m] <= nodes[m].at /\ nodes[m].at <= hi[m]
    BY <1>4, <2>1
  <2>3. lo[n] <= nodes[m].at /\ nodes[m].at <= hi[n]
    BY <2>1, <2>2
  <2> QED
    BY <1>4, <2>1, <2>2, <2>3
<1>12. Under[statement] = DOMAIN nodes
  BY <1>3, <1>5, <1>9
<1> QED
  BY <1>2, <1>11, <1>12

(* A statement that is accepted although nothing was rejected on the way   *)
(* is one tree of every node that was made.  At each node what is on its   *)
(* left was read before it and what is on its right behind it, in order;   *)
(* an operator, an index and a condition have both sides; and every name,  *)
(* number and call that was read is a node.  This is for any operators and *)
(* priorities, any nesting and statements of every length.                 *)
THEOREM TreeAlways == Spec => []TreeInOrder
<1>1. Spec => [](GInv /\ Stated)
  <2>1. Init => Stated
    BY DEF Init, Stated
  <2>2. GInv /\ Stated /\ [Next]_vars => Stated'
    BY StatedKept DEF GInv
  <2> QED
    BY <2>1, <2>2, ForestAlways, PTL DEF Spec
<1>2. GInv /\ Stated => TreeInOrder
  <2> SUFFICES ASSUME GInv, Stated, Complete
               PROVE  /\ Under[statement] = DOMAIN nodes
                      /\ \A n \in DOMAIN nodes :
                           LET b == nodes[n].before
                               a == nodes[n].after
                           IN  /\ \A i \in DOMAIN b : \A m \in Under[b[i]] : nodes[m].at < nodes[n].at
                               /\ \A i \in DOMAIN a : \A m \in Under[a[i]] : nodes[n].at < nodes[m].at
                               /\ \A i, j \in DOMAIN a : i < j =>
                                    \A m \in Under[a[i]], k \in Under[a[j]] : nodes[m].at < nodes[k].at
                               /\ nodes[n].kind \in {"operation", "index", "if"} => Len(b) = 1 /\ Len(a) = 1
                      /\ \A p \in DOMAIN read : read[p] \in {"name", "number", "call"} =>
                           \E n \in DOMAIN nodes : nodes[n].at = p
    BY DEF TreeInOrder
  <2>1. /\ TInv /\ Forest /\ calls = <<>> /\ result = 0 /\ Waiting = {} /\ value \notin OwnNode
        /\ \A n \in 1 .. Len(nodes) : ~Hole(n, nodes)
    BY AcceptedIs
  <2>2. DOMAIN nodes = 1 .. Len(nodes) /\ DOMAIN read = 1 .. Len(read) /\ Len(read) \in Nat \ {0}
    BY <2>1, PartsOf, StateIs DEF TInv, TypeOK
  <2>3. PICK lo, hi :
          /\ Laid(lo, hi)
          /\ \A n \in 1 .. Len(nodes) : \A m \in Under[n] :
               /\ m \in 1 .. Len(nodes) /\ nodes[m].at \in Nat /\ lo[n] \in Nat /\ hi[n] \in Nat
               /\ lo[n] <= nodes[m].at /\ nodes[m].at <= hi[n]
    BY TreeOfAccepted
  <2>4. ASSUME NEW n \in DOMAIN nodes, NEW b, NEW a, b = nodes[n].before, a = nodes[n].after
        PROVE  /\ \A i \in DOMAIN b : \A m \in Under[b[i]] : nodes[m].at < nodes[n].at
               /\ \A i \in DOMAIN a : \A m \in Under[a[i]] : nodes[n].at < nodes[m].at
               /\ \A i, j \in DOMAIN a : i < j =>
                    \A m \in Under[a[i]], k \in Under[a[j]] : nodes[m].at < nodes[k].at
               /\ nodes[n].kind \in {"operation", "index", "if"} => Len(b) = 1 /\ Len(a) = 1
    <3>1. n \in 1 .. Len(nodes) /\ nodes[n] \in NodeSet(Len(read), Len(nodes)) /\ Len(nodes) \in Nat
      BY <2>1, <2>2, PartsOf
    <3>2. /\ nodes[n].at \in 1 .. Len(read)
          /\ (\A i \in 1 .. Len(b) : b[i] \in 1 .. Len(nodes)) /\ \A i \in 1 .. Len(a) : a[i] \in 1 .. Len(nodes)
      BY <2>2, <2>4, <3>1, LinksOf
    <3>3. DOMAIN b = 1 .. Len(b) /\ DOMAIN a = 1 .. Len(a)
      BY <2>1, <2>4, <3>1, BelowIs
    <3>4. Spans(n, nodes, lo, hi, Waiting, Len(read)) /\ n \notin Waiting
      BY <2>1, <2>3, <3>1 DEF Laid
    <3>5. /\ \A i \in 1 .. Len(b) : hi[b[i]] < nodes[n].at
          /\ \A i \in 1 .. Len(a) : nodes[n].at < lo[a[i]]
          /\ \A i, j \in 1 .. Len(a) : i < j => hi[a[i]] < lo[a[j]]
      BY <2>4, <3>4 DEF Spans
    <3>6. nodes[n].at \in Nat
      BY <2>2, <3>2
    <3>7. ASSUME NEW i \in DOMAIN b, NEW m \in Under[b[i]] PROVE nodes[m].at < nodes[n].at
      <4>1. /\ nodes[m].at \in Nat /\ hi[b[i]] \in Nat /\ nodes[m].at <= hi[b[i]] /\ hi[b[i]] < nodes[n].at
        BY <2>3, <3>2, <3>3, <3>5
      <4> QED
        BY <3>6, <4>1
    <3>8. ASSUME NEW i \in DOMAIN a, NEW m \in Under[a[i]] PROVE nodes[n].at < nodes[m].at
      <4>1. /\ nodes[m].at \in Nat /\ lo[a[i]] \in Nat /\ lo[a[i]] <= nodes[m].at /\ nodes[n].at < lo[a[i]]
        BY <2>3, <3>2, <3>3, <3>5
      <4> QED
        BY <3>6, <4>1
    <3>9. ASSUME NEW i \in DOMAIN a, NEW j \in DOMAIN a, i < j, NEW m \in Under[a[i]], NEW k \in Under[a[j]]
          PROVE  nodes[m].at < nodes[k].at
      <4>1. nodes[m].at \in Nat /\ hi[a[i]] \in Nat /\ nodes[m].at <= hi[a[i]]
        BY <2>3, <3>2, <3>3
      <4>2. nodes[k].at \in Nat /\ lo[a[j]] \in Nat /\ lo[a[j]] <= nodes[k].at
        BY <2>3, <3>2, <3>3
      <4>3. hi[a[i]] < lo[a[j]]
        BY <3>3, <3>5, <3>9
      <4> QED
        BY <4>1, <4>2, <4>3
    <3>10. nodes[n].kind \in {"operation", "index", "if"} => Len(b) = 1 /\ Len(a) = 1
      BY <2>1, <2>4, <3>1, <3>4 DEF Forest, Sided, Hole
    <3> QED
      BY <3>7, <3>8, <3>9, <3>10
  <2>5. ASSUME NEW p \in DOMAIN read, read[p] \in {"name", "number", "call"}
        PROVE  \E n \in DOMAIN nodes : nodes[n].at = p
    <3>1. read[p] \in OwnNode
      BY <2>5 DEF OwnNode
    <3>2. p # Len(read)
      BY <2>1, <3>1 DEF value
    <3>3. p \in 1 .. Len(read) - 1
      BY <2>2, <3>2
    <3>4. \A d \in 1 .. Len(calls) : FALSE
      BY <2>1
    <3> QED
      BY <2>1, <2>2, <3>1, <3>3, <3>4 DEF Forest, Made
  <2>6. Under[statement] = DOMAIN nodes
    BY TreeOfAccepted
  <2> QED
    BY <2>4, <2>5, <2>6
<1> QED
  BY <1>1, <1>2, PTL
=============================================================================
