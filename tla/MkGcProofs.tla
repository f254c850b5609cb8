----------------------------- MODULE MkGcProofs -----------------------------
(***************************************************************************)
(* Proofs about the heap and its collector (MkGc.tla): types, what is      *)
(* reachable is in use, an object keeps its superclass part, a collection  *)
(* leaves no garbage and gets shorter at each step.                        *)
(*                                                                         *)
(* The invariant is GInv.  It says that there are sets I, H, V and F of    *)
(* items, hash tables, vectors and frames that have the roots, are closed  *)
(* under what their members point to and are in use: the statements after  *)
(* a call, and the evaluator's C functions under it, use nothing else.     *)
(* Between collections nothing in them is marked; during one each mark     *)
(* promises that what the object leads to is marked or still to be         *)
(* scanned, so that at the sweep all four sets are marked.                 *)
(*                                                                         *)
(* The parts of the module: the invariant; the functions the model defines *)
(* by recursion; how the sets grow with an allocation and stay with a      *)
(* store; one lemma per action of the evaluator; the collector's start,    *)
(* its steps and the sweep; the theorems; what gets shorter.               *)
(***************************************************************************)
EXTENDS MkGc, FiniteSetTheorems, WellFoundedInduction, TLAPS

-----------------------------------------------------------------------------
(* What the theorems ask of a script.                                      *)
(*                                                                         *)
(* That it takes no value from a call whose body leaves no result: such a  *)
(* frame's last result is that of the frame that had its slot before       *)
(* (run gc_noresult).                                                      *)
(*                                                                         *)
(* That nothing it uses is held by a C variable of the evaluator alone     *)
(* while a statement runs: an array literal holds its vector so while an   *)
(* element calls a method (vm.c:1897), a call by a variable's name the     *)
(* frame of the block while an argument assigns the variable (vm.c:2029).  *)
(*                                                                         *)
(* And that a hash table of an object is never scanned as a scope's, by    *)
(* the tops of what is in it.  A reference to a member makes the scan do   *)
(* so (run gc_memberref).  A reference to a local variable does, when it   *)
(* is garbage, a new object has taken the hash table, and a frame's stale  *)
(* "last" leads to it.  A block may, by way of the pointers its freed      *)
(* frame keeps; that this does no harm is not shown here.                  *)
HeldElsewhere ==
  /\ "noresult" \notin Features
  /\ "array" \in Features => Features \cap {"call", "invoke", "localcall"} = {}
  /\ "localcall" \in Features => "assign" \notin Features
  /\ "new" \in Features => Features \cap {"assign", "memberref", "node"} = {}

-----------------------------------------------------------------------------
(* The shape of an item: which pointers its type has.                      *)
Shape(r) ==
  /\ r.hash # Null <=> r.type \in {"class", "ref"}
  /\ r.vector # Null <=> r.type \in {"array", "refarray"}
  /\ r.frame # Null <=> r.type = "node"
  /\ r.item # Null => r.type \in {"class", "node"}

Framed == {"body", "handler", "condition", "init"}
Needs(op) == IF op \in {"args", "invoke", "assign"} THEN 1 ELSE 0

(* An entry of the C stack, and what it holds.                             *)
Holds(r) ==
  CASE r.op = "array" -> r.obj \in Slots("vector")
    [] r.op = "args"  -> r.obj \in Or0("frame")
    [] r.op = "init"  -> r.obj \in Slots("item")
    [] OTHER          -> r.obj = Null

Calls == {c \in [kind : {"item", "hash", "vector", "frame", "done"}, n : Nat, top : BOOLEAN] :
            Object(c) \in Objects}

Types ==
  /\ TypeOK
  /\ \A i \in Slots("item") : Shape(item[i])
  /\ native \in Seq([op : {"body", "handler", "catch", "condition", "args", "invoke", "assign",
                           "array", "init"},
                     base : 0 .. MaxStack, obj : Nat])
  /\ \A k \in 1 .. Len(native) : Holds(native[k])
  /\ todo \in Seq(Calls)
  /\ gc = "off" => todo = <<>>

(* The types of item a script makes; a free hash table has no entries.     *)
Makes ==
  /\ \A h \in Slots("hash") : ~InUse(<<"hash", h>>) => hash[h] = NoEntries
  /\ "new" \notin Features =>
       /\ \A i \in Slots("item") : item[i].type = "class" => i = Static
       /\ \A h \in Slots("hash") : hash[h]["super"] <= Null
  /\ "new" \in Features =>
       \A i \in Slots("item") : item[i].type # "node" /\ (item[i].type = "ref" => item[i].hash = 2)

-----------------------------------------------------------------------------
(* I, H, V and F are sets of items, hash tables, vectors and frames that   *)
(* hold all the script can get at.  They are in use and closed.            *)
ItemIn(r, I, H, V, F) ==
  /\ r.hash # Null => r.hash \in H
  /\ r.item # Null => r.item \in I
  /\ r.vector # Null => r.vector \in V
  /\ r.frame # Null => r.frame \in F

FrameIn(r, I, H, F) ==
  /\ r.this # Null => r.this \in I
  /\ r.locals # Null => r.locals \in H
  /\ r.owner # Null => r.owner \in F
  /\ r.previous # Null => r.previous \in F
  /\ r.hasLast /\ r.last # Null => r.last \in I

ItemsIn(t, I, H, V, F) == \A i \in I : ItemIn(t[i], I, H, V, F)
HashesIn(t, I, H) == \A h \in H : \A k \in Keys : t[h][k] > Null => t[h][k] \in I
VectorsIn(t, I, V) == \A v \in V : \A n \in 1 .. Len(t[v]) : t[v][n] # Null => t[v][n] \in I
FramesIn(t, I, H, F) == \A f \in F : FrameIn(t[f], I, H, F)

Used(b, I, H, V, F) ==
  /\ \A i \in I : "USE" \in b[<<"item", i>>]
  /\ \A h \in H : "USE" \in b[<<"hash", h>>]
  /\ \A v \in V : "USE" \in b[<<"vector", v>>]
  /\ \A f \in F : "USE" \in b[<<"frame", f>>]

(* An object is one item, or two that point at each other; its hash tables *)
(* are no scope's.                                                         *)
Parts(it, ht, I) ==
  \A i \in I : it[i].type = "class" /\ it[i].item # Null =>
    LET d == it[i].item
    IN  it[d].type = "class" /\ it[d].item = Null /\ ht[it[d].hash]["super"] = i

Apart(it, fr, I, F) ==
  /\ \A i, j \in I : it[i].type = "class" /\ it[j].type = "class" /\ it[i].hash = it[j].hash => i = j
  /\ \A i \in I : it[i].type = "class" /\ i # Static => it[i].hash \notin {Global, 2}
  /\ \A i \in I, f \in F : it[i].type = "class" => it[i].hash # fr[f].locals
  /\ \A i \in I, f \in F : it[i].type = "ref" /\ "localcall" \in Features => it[i].hash # fr[f].locals
  /\ \A f \in F : fr[f].locals \notin {Global, 2}

Scopes(ht, fr, F) ==
  /\ ht[Global]["super"] <= Null /\ ht[2]["super"] <= Null
  /\ \A f \in F : fr[f].locals # Null => ht[fr[f].locals]["super"] <= Null

Named(it, ht) == it[Static] = Class(2, Null) /\ ht[Global]["Kernel"] = Static

Heap(I, H, V, F) ==
  /\ I \subseteq Slots("item") /\ H \subseteq Slots("hash")
  /\ V \subseteq Slots("vector") /\ F \subseteq Slots("frame")
  /\ Used(bits, I, H, V, F)
  /\ ItemsIn(item, I, H, V, F) /\ HashesIn(hash, I, H)
  /\ VectorsIn(vector, I, V) /\ FramesIn(frame, I, H, F)
  /\ Parts(item, hash, I) /\ Apart(item, frame, I, F)
  /\ Scopes(hash, frame, F) /\ Named(item, hash)

(* The roots the collector knows.                                          *)
RootsIn(I, H, F) ==
  /\ \A n \in 1 .. Len(stack) : stack[n] # Null => stack[n] \in I
  /\ exception # Null => exception \in I
  /\ Global \in H /\ Static \in I
  /\ cur \in F

-----------------------------------------------------------------------------
(* fr[k] is the frame that is the current one while the k-th call of the C *)
(* stack is the innermost.                                                 *)
Chained(fr, F) ==
  /\ fr \in [1 .. Len(native) -> F]
  /\ native[1].op = "body"
  /\ fr[Len(native)] = cur
  /\ \A k \in 2 .. Len(native) :
       IF native[k].op \in Framed THEN frame[fr[k]].previous = fr[k - 1] ELSE fr[k] = fr[k - 1]

(* The operands each call waits with lie above those of the one that       *)
(* called it; those it will use are what it takes them for.                *)
Stacked ==
  /\ Len(stack) <= MaxStack
  /\ \A k \in 1 .. Len(native) : native[k].base + Needs(native[k].op) <= Len(stack)
  /\ \A k, m \in 1 .. Len(native) : k < m => native[k].base + Needs(native[k].op) <= native[m].base

Expected(k) ==
  LET first == stack[native[k].base + 1]
  IN  /\ native[k].op = "assign" => first # Null /\ item[first].type \in {"ref", "refarray"}
      /\ native[k].op = "invoke" => first # Null /\ item[first].type = "node"

(* The frame of a block that is called by a variable's name: the variable  *)
(* still has the block.                                                    *)
ByName(f, obj) ==
  \E h \in Slots("hash") :
    /\ h = frame[f].locals \/ (frame[f].owner # Null /\ h = frame[frame[f].owner].locals)
    /\ hash[h]["x"] > Null
    /\ item[hash[h]["x"]].type = "node" /\ item[hash[h]["x"]].frame = obj

(* What a C function holds is held elsewhere, too; but for the vector of a *)
(* literal, above which nothing runs statements.                           *)
Kept(fr, k) ==
  LET r == native[k]
  IN  /\ r.op = "args" /\ r.obj # Null => "localcall" \in Features /\ ByName(fr[k], r.obj)
      /\ r.op = "init" =>
           /\ "new" \in Features /\ r.obj # Static /\ frame[fr[k]].this = r.obj
           /\ item[r.obj].type = "class" /\ item[r.obj].item = Null
           /\ hash[item[r.obj].hash]["super"] = Null
      /\ r.op = "array" =>
           /\ "array" \in Features
           /\ \A m \in k + 1 .. Len(native) : native[m].op \in {"assign", "array", "init"}

InC(fr, V) ==
  /\ \A k \in 1 .. Len(native) : Expected(k) /\ Kept(fr, k)
  /\ \A k \in 1 .. Len(native) : native[k].op = "array" => native[k].obj \in V
  /\ \A k, m \in 1 .. Len(native) :
       native[k].op = "init" /\ native[m].op = "init" /\ native[k].obj = native[m].obj => k = m

-----------------------------------------------------------------------------
(* The collection.  An object is covered when it is marked or the scan     *)
(* will still come to it.                                                  *)
Covered(k, n) == "GC" \in bits[<<k, n>>] \/ \E t \in 1 .. Len(todo) : Object(todo[t]) = <<k, n>>

Begun(i) == "GC" \in bits[<<"item", i>>] \/ \E t \in 1 .. Len(todo) : todo[t].kind = "done" /\ todo[t].n = i

(* What a mark on an object promises.                                      *)
ItemPromise(i) ==
  /\ item[i].hash # Null => Covered("hash", item[i].hash)
  /\ item[i].item # Null => Covered("item", item[i].item)
  /\ item[i].vector # Null => Covered("vector", item[i].vector)
  /\ item[i].frame # Null => Covered("frame", item[i].frame)

ByTop(i) == Covered("item", i) \/ Covered("item", TopOf(i))

HashPromise(h) ==
  /\ \A k \in Keys : hash[h][k] > Null => ByTop(hash[h][k])
  /\ hash[h]["super"] > Null => Covered("item", hash[h]["super"])

VectorPromise(v) == \A n \in 1 .. Len(vector[v]) : vector[v][n] # Null => ByTop(vector[v][n])

FramePromise(f) ==
  /\ frame[f].this # Null => Covered("item", frame[f].this)
  /\ frame[f].locals # Null => Covered("hash", frame[f].locals)
  /\ frame[f].owner # Null => Covered("frame", frame[f].owner)
  /\ frame[f].previous # Null => Covered("frame", frame[f].previous)
  /\ frame[f].hasLast /\ frame[f].last # Null => Covered("item", frame[f].last)

RootsCovered ==
  /\ \A n \in 1 .. Len(stack) : stack[n] # Null => Covered("item", stack[n])
  /\ exception # Null => Covered("item", exception)
  /\ Covered("hash", Global) /\ Covered("frame", cur)

Promises(I, H, V, F) ==
  /\ \A i \in I : Begun(i) => ItemPromise(i)
  /\ \A h \in H : "GC" \in bits[<<"hash", h>>] => HashPromise(h)
  /\ \A v \in V : "GC" \in bits[<<"vector", v>>] => VectorPromise(v)
  /\ \A f \in F : "GC" \in bits[<<"frame", f>>] => FramePromise(f)

(* A hash table is scanned by the tops of what is in it only if it is that *)
(* of a scope; among objects no frame is scanned but those of F.           *)
StraightCall(c, F) ==
  /\ c.kind = "hash" /\ c.top => hash[c.n]["super"] <= Null
  /\ c.kind = "frame" /\ "new" \in Features => c.n \in F

Straight(F) == \A t \in 1 .. Len(todo) : StraightCall(todo[t], F)

Unmarked(b, I, H, V, F) ==
  /\ \A i \in I : "GC" \notin b[<<"item", i>>]
  /\ \A h \in H : "GC" \notin b[<<"hash", h>>]
  /\ \A v \in V : "GC" \notin b[<<"vector", v>>]
  /\ \A f \in F : "GC" \notin b[<<"frame", f>>]

Marking(I, H, V, F) ==
  /\ gc = "off" => Unmarked(bits, I, H, V, F)
  /\ gc = "scan" => /\ Top.op \in {"body", "handler"}
                    /\ RootsCovered /\ Promises(I, H, V, F) /\ Straight(F)

Safe(I, H, V, F, fr) ==
  /\ Heap(I, H, V, F) /\ RootsIn(I, H, F)
  /\ Chained(fr, F) /\ Stacked /\ InC(fr, V)
  /\ Marking(I, H, V, F)

(* The walk from a part of an object to its most derived one ends, among    *)
(* garbage, too.                                                           *)
Walks ==
  \E rank \in [Slots("item") -> Nat] :
    \A n \in Slots("item") :
      item[n].type = "class" /\ item[n].item # Null => rank[item[n].item] < rank[n]

SafeSomehow ==
  \E I \in SUBSET Slots("item"), H \in SUBSET Slots("hash"), V \in SUBSET Slots("vector"),
     F \in SUBSET Slots("frame"), fr \in [1 .. Len(native) -> Slots("frame")] : Safe(I, H, V, F, fr)

GInv == Types /\ Makes /\ Walks /\ SafeSomehow

-----------------------------------------------------------------------------
(* Induction: the least number of a set.                                   *)
LEMMA LeastNatural ==
  ASSUME NEW T, T \subseteq Nat, T # {}
  PROVE  \E m \in T : \A k \in T : m <= k
<1> DEFINE R == OpToRel(<, Nat)
<1>1. IsWellFoundedOn(R, Nat)
  BY NatLessThanWellFounded
<1> HIDE DEF R
<1>2. \E m \in T : \A k \in T : ~ (<<k, m>> \in R)
  BY <1>1, WFMin
<1>3. PICK m \in T : \A k \in T : ~ (<<k, m>> \in R)
  BY <1>2
<1>4. ASSUME NEW k \in T PROVE m <= k
  <2>1. m \in Nat /\ k \in Nat
    OBVIOUS
  <2>2. CASE k < m
    <3>1. <<k, m>> \in R
      BY <2>1, <2>2 DEF R, OpToRel
    <3> QED
      BY <3>1, <1>3
  <2> QED
    BY <2>1, <2>2
<1> QED
  BY <1>4

(* What begins at 0 and goes from each number to the next holds up to N.   *)
LEMMA UpTo ==
  ASSUME NEW N \in Nat, NEW S, 0 \in S, \A n \in 0 .. N - 1 : n \in S => n + 1 \in S
  PROVE  \A n \in 0 .. N : n \in S
<1> DEFINE T == {n \in 0 .. N : n \notin S}
<1>1. SUFFICES T = {}
  OBVIOUS
<1>2. SUFFICES ASSUME T # {} PROVE FALSE
  OBVIOUS
<1>3. PICK m \in T : \A k \in T : m <= k
  <2>1. T \subseteq Nat /\ T # {}
    BY <1>2
  <2> HIDE DEF T
  <2> QED
    BY <2>1, LeastNatural
<1>4. m \in 0 .. N /\ m # 0 /\ m \notin S
  OBVIOUS
<1>5. m - 1 \in 0 .. N - 1 /\ m - 1 \notin T
  BY <1>3, <1>4
<1>6. m - 1 \in S
  BY <1>5
<1> QED
  BY <1>4, <1>5, <1>6

(* A recursive function goes on for one more argument.                     *)
Extends(f, g, n, x) ==
  /\ f = [m \in 0 .. n + 1 |-> f[m]]
  /\ \A m \in 0 .. n + 1 : \/ m = 0 /\ m \in 0 .. n /\ f[m] = g[m]
                           \/ m \in 1 .. n /\ m \in 0 .. n /\ f[m] = g[m] /\ f[m - 1] = g[m - 1]
                           \/ m = n + 1 /\ m # 0 /\ f[m] = x /\ f[m - 1] = g[n]

LEMMA OneMore ==
  ASSUME NEW n \in Nat, NEW g, NEW x
  PROVE  \E f : Extends(f, g, n, x)
<1>1. PICK f : f = [m \in 0 .. n + 1 |-> IF m <= n THEN g[m] ELSE x]
  OBVIOUS
<1> QED
  BY <1>1 DEF Extends

-----------------------------------------------------------------------------
(* Kinds and slots.                                                        *)
LEMMA SlotsAre ==
  /\ Slots("item") = 1 .. MaxItems /\ Slots("hash") = 1 .. MaxHashes
  /\ Slots("vector") = 1 .. MaxVectors /\ Slots("frame") = 1 .. MaxFrames
  /\ Static \in Slots("item") /\ Global \in Slots("hash") /\ 2 \in Slots("hash") /\ 1 \in Slots("frame")
  /\ MaxItems \in Nat /\ MaxHashes \in Nat /\ MaxVectors \in Nat /\ MaxFrames \in Nat
BY MkGcAssumption DEF Slots, Static, Global

LEMMA ObjectsAre ==
  ASSUME NEW k \in Kinds, NEW n
  PROVE  <<k, n>> \in Objects <=> n \in Slots(k)
BY DEF Objects

LEMMA ObjectIs ==
  ASSUME NEW o \in Objects
  PROVE  o[1] \in Kinds /\ o[2] \in Slots(o[1]) /\ o = <<o[1], o[2]>>
BY DEF Objects

LEMMA KeysAre == Keys = {"super", "x", "Kernel"}
<1>1. Len(KeyOrder) = 3 /\ KeyOrder[1] = "super" /\ KeyOrder[2] = "x" /\ KeyOrder[3] = "Kernel"
  BY DEF KeyOrder
<1>2. 1 .. 3 = {1, 2, 3}
  OBVIOUS
<1> QED
  BY <1>1, <1>2 DEF Keys

LEMMA ObjectsFinite == IsFiniteSet(Objects)
<1> DEFINE M == MaxItems + MaxHashes + MaxVectors + MaxFrames
<1>1. IsFiniteSet(1 .. M)
  BY SlotsAre, FS_Interval
<1>2. IsFiniteSet({"item", "hash", "vector", "frame"})
  <2>1. IsFiniteSet({} \cup {"item"})
    BY FS_EmptySet, FS_AddElement
  <2>2. IsFiniteSet(({} \cup {"item"}) \cup {"hash"})
    BY <2>1, FS_AddElement
  <2>3. IsFiniteSet((({} \cup {"item"}) \cup {"hash"}) \cup {"vector"})
    BY <2>2, FS_AddElement
  <2>4. IsFiniteSet(((({} \cup {"item"}) \cup {"hash"}) \cup {"vector"}) \cup {"frame"})
    BY <2>3, FS_AddElement
  <2>5. {"item", "hash", "vector", "frame"} = ((({} \cup {"item"}) \cup {"hash"}) \cup {"vector"}) \cup {"frame"}
    OBVIOUS
  <2> QED
    BY <2>4, <2>5
<1>3. IsFiniteSet(Kinds \X (1 .. M))
  BY <1>1, <1>2, FS_Product DEF Kinds
<1>4. ASSUME NEW o \in Objects PROVE o \in Kinds \X (1 .. M)
  BY ObjectIs, SlotsAre DEF Kinds
<1>5. Objects \in SUBSET (Kinds \X (1 .. M))
  BY <1>4
<1> HIDE DEF M
<1> QED
  BY <1>3, <1>5, FS_Subset

-----------------------------------------------------------------------------
(* The functions the model defines by recursion.                           *)
Layer(before, any) == before \cup UNION {PointsTo(o, any) : o \in before}

Layers(g, N, roots, any) == g = [n \in 0 .. N |-> IF n = 0 THEN roots \cap Objects ELSE Layer(g[n - 1], any)]

LEMMA LayersAre ==
  ASSUME NEW roots, NEW any, NEW N \in Nat
  PROVE  \E g : Layers(g, N, roots, any)
<1> DEFINE S == {n \in Nat : \E g : Layers(g, n, roots, any)}
<1>1. 0 \in S
  <2>1. Layers([n \in 0 .. 0 |-> roots \cap Objects], 0, roots, any)
    BY DEF Layers
  <2> QED
    BY <2>1
<1>2. ASSUME NEW n \in 0 .. N - 1, n \in S PROVE n + 1 \in S
  <2>1. PICK g : Layers(g, n, roots, any)
    BY <1>2
  <2>2. PICK f : Extends(f, g, n, Layer(g[n], any))
    BY OneMore
  <2>3. Layers(f, n + 1, roots, any)
    <3>1. \A m \in 0 .. n + 1 : f[m] = IF m = 0 THEN roots \cap Objects ELSE Layer(f[m - 1], any)
      BY <2>1, <2>2 DEF Layers, Extends
    <3> QED
      BY <2>2, <3>1 DEF Layers, Extends
  <2> QED
    BY <2>3
<1> HIDE DEF S
<1>3. N \in S
  BY <1>1, <1>2, UpTo
<1> QED
  BY <1>3 DEF S

(* A set that has the roots and all that its objects point to has all that *)
(* can be reached.                                                         *)
LEMMA ReachedIn ==
  ASSUME NEW C, NEW roots, roots \cap Objects \subseteq C, \A o \in C : PointsTo(o, FALSE) \subseteq C
  PROVE  From(roots, FALSE) \subseteq C
<1> DEFINE N     == Cardinality(Objects)
           reach == CHOOSE g : Layers(g, N, roots, FALSE)
           S     == {n \in 0 .. N : reach[n] \subseteq C}
<1>1. N \in Nat
  BY ObjectsFinite, FS_CardinalityType
<1>2. Layers(reach, N, roots, FALSE)
  BY <1>1, LayersAre
<1>3. From(roots, FALSE) = reach[N]
  BY DEF From, Layers, Layer
<1> HIDE DEF N, reach
<1>4. 0 \in S
  BY <1>1, <1>2 DEF Layers
<1>5. ASSUME NEW n \in 0 .. N - 1, n \in S PROVE n + 1 \in S
  <2>1. n + 1 \in 0 .. N /\ n + 1 # 0 /\ (n + 1) - 1 = n /\ reach[n] \subseteq C
    BY <1>1, <1>5
  <2>2. reach[n + 1] = Layer(reach[n], FALSE)
    BY <1>2, <2>1 DEF Layers
  <2> QED
    BY <2>1, <2>2 DEF Layer
<1> HIDE DEF S
<1>6. N \in S
  BY <1>1, <1>4, <1>5, UpTo
<1> QED
  BY <1>3, <1>6 DEF S

(* The walk to the most derived part, although parts of garbage may point  *)
(* at each other.                                                          *)
Goes(n) == item[n].type = "class" /\ item[n].item # Null

ClosedUp(X) == \A x \in X : Goes(x) => item[x].item \in X

Ends(n) == {m \in Slots("item") : ~Goes(m) /\ \A X \in SUBSET Slots("item") : n \in X /\ ClosedUp(X) => m \in X}

Some(X) == IF X # {} THEN CHOOSE m : m \in X ELSE Static

End(n) == Some(Ends(n))

Tops(t) == t = [n \in Slots("item") |-> IF Goes(n) THEN t[item[n].item] ELSE n]

LEMMA ItemIsTyped ==
  ASSUME TypeOK, NEW i \in Slots("item")
  PROVE  /\ item[i].type \in ItemTypes /\ item[i].hash \in Or0("hash") /\ item[i].item \in Or0("item")
         /\ item[i].vector \in Or0("vector") /\ item[i].frame \in Or0("frame") /\ item[i].at \in 0 .. MaxLength
<1>1. item[i] \in [type : ItemTypes, hash : Or0("hash"), item : Or0("item"),
                   vector : Or0("vector"), frame : Or0("frame"), at : 0 .. MaxLength]
  BY DEF TypeOK
<1> QED
  BY <1>1

LEMMA TopsAre ==
  ASSUME TypeOK
  PROVE  \E t : Tops(t)
<1> DEFINE t == [n \in Slots("item") |-> End(n)]
<1>1. ASSUME NEW n \in Slots("item"), Goes(n)
      PROVE  item[n].item \in Slots("item") /\ Ends(n) = Ends(item[n].item)
  <2>1. item[n].item \in Slots("item")
    BY <1>1, ItemIsTyped DEF Goes, Or0
  <2>2. ASSUME NEW m \in Ends(n) PROVE m \in Ends(item[n].item)
    <3>1. m \in Slots("item") /\ ~Goes(m) /\ m # n
      BY <1>1, <2>2 DEF Ends
    <3>2. ASSUME NEW X \in SUBSET Slots("item"), item[n].item \in X, ClosedUp(X) PROVE m \in X
      <4>1. X \cup {n} \in SUBSET Slots("item") /\ n \in X \cup {n} /\ ClosedUp(X \cup {n})
        BY <3>2 DEF ClosedUp
      <4>2. m \in X \cup {n}
        BY <2>2, <4>1 DEF Ends
      <4> QED
        BY <3>1, <4>2
    <3> QED
      BY <3>1, <3>2 DEF Ends
  <2>3. ASSUME NEW m \in Ends(item[n].item) PROVE m \in Ends(n)
    <3>1. m \in Slots("item") /\ ~Goes(m)
      BY <2>3 DEF Ends
    <3>2. ASSUME NEW X \in SUBSET Slots("item"), n \in X, ClosedUp(X) PROVE m \in X
      <4>1. item[n].item \in X
        BY <1>1, <3>2 DEF ClosedUp
      <4> QED
        BY <2>3, <3>2, <4>1 DEF Ends
    <3> QED
      BY <3>1, <3>2 DEF Ends
  <2> QED
    BY <2>1, <2>2, <2>3
<1>2. ASSUME NEW n \in Slots("item"), ~Goes(n) PROVE Ends(n) = {n}
  <2>1. {n} \in SUBSET Slots("item") /\ ClosedUp({n})
    BY <1>2 DEF ClosedUp
  <2>2. \A m \in Ends(n) : m \in {n}
    BY <2>1 DEF Ends
  <2>3. n \in Ends(n)
    BY <1>2 DEF Ends
  <2> QED
    BY <2>2, <2>3
<1>3. ASSUME NEW n \in Slots("item") PROVE End(n) = IF Goes(n) THEN End(item[n].item) ELSE n
  <2>1. CASE Goes(n)
    BY <1>1, <2>1 DEF End
  <2>2. CASE ~Goes(n)
    <3>1. Ends(n) = {n}
      BY <1>2, <2>2
    <3>2. (CHOOSE m : m \in {n}) = n /\ {n} # {}
      OBVIOUS
    <3>3. End(n) = CHOOSE m : m \in {n}
      BY <3>1, <3>2 DEF End, Some
    <3> QED
      BY <2>2, <3>2, <3>3
  <2> QED
    BY <2>1, <2>2
<1>4. ASSUME NEW n \in Slots("item") PROVE t[n] = IF Goes(n) THEN t[item[n].item] ELSE n
  BY <1>1, <1>3
<1>5. t = [n \in Slots("item") |-> IF Goes(n) THEN t[item[n].item] ELSE n]
  <2> DEFINE f == [n \in Slots("item") |-> IF Goes(n) THEN t[item[n].item] ELSE n]
  <2>1. \A n \in Slots("item") : t[n] = f[n]
    BY <1>4
  <2> QED
    BY <2>1
<1>6. Tops(t)
  BY <1>5 DEF Tops
<1> HIDE DEF t
<1> QED
  BY <1>6

(* The walk ends: each step goes down some order.                          *)
Down(rank) ==
  /\ rank \in [Slots("item") -> Nat]
  /\ \A n \in Slots("item") : Goes(n) => rank[item[n].item] < rank[n]

LEMMA TopIs ==
  ASSUME TypeOK, NEW rank, Down(rank), NEW i \in Slots("item")
  PROVE  /\ TopOf(i) \in Slots("item")
         /\ ~Goes(i) => TopOf(i) = i
         /\ Goes(i) /\ ~Goes(item[i].item) => TopOf(i) = item[i].item
<1> DEFINE t == CHOOSE t : Tops(t)
<1>1. i > Null
  BY SlotsAre DEF Null
<1>2. TopOf(i) = t[i]
  BY <1>1 DEF TopOf, Tops, Goes
<1>3. Tops(t)
  BY TopsAre
<1> HIDE DEF t
<1>4. \A n \in Slots("item") : Goes(n) => item[n].item \in Slots("item")
  BY ItemIsTyped DEF Goes, Or0
<1>5. \A n \in Slots("item") : t[n] = IF Goes(n) THEN t[item[n].item] ELSE n
  BY <1>3 DEF Tops
<1>6. t[i] \in Slots("item")
  <2> DEFINE T == {rank[n] : n \in {m \in Slots("item") : t[m] \notin Slots("item")}}
  <2>1. SUFFICES ASSUME t[i] \notin Slots("item") PROVE FALSE
    OBVIOUS
  <2>2. T \subseteq Nat /\ T # {}
    BY <2>1 DEF Down
  <2> HIDE DEF T
  <2>3. PICK k \in T : \A m \in T : k <= m
    BY <2>2, LeastNatural
  <2>4. PICK n \in Slots("item") : t[n] \notin Slots("item") /\ rank[n] = k
    BY <2>3 DEF T
  <2>5. Goes(n) /\ item[n].item \in Slots("item") /\ t[n] = t[item[n].item]
    BY <1>4, <1>5, <2>4
  <2>6. rank[item[n].item] \in T
    BY <2>4, <2>5 DEF T
  <2>7. rank[item[n].item] < k /\ rank[item[n].item] \in Nat /\ k \in Nat
    BY <2>4, <2>5 DEF Down
  <2> QED
    BY <2>3, <2>6, <2>7
<1> QED
  BY <1>2, <1>4, <1>5, <1>6

-----------------------------------------------------------------------------
(* The calls that are followed are those that pass the test.               *)
WithCall(before, c) == IF Follows(c) THEN Append(before, c) ELSE before

Filtered(g, N, calls) == g = [n \in 0 .. N |-> IF n = 0 THEN <<>> ELSE WithCall(g[n - 1], calls[n])]

LEMMA FilteredAre ==
  ASSUME NEW calls, NEW N \in Nat
  PROVE  \E g : Filtered(g, N, calls)
<1> DEFINE S == {n \in Nat : \E g : Filtered(g, n, calls)}
<1>1. 0 \in S
  <2>1. Filtered([n \in 0 .. 0 |-> <<>>], 0, calls)
    BY DEF Filtered
  <2> QED
    BY <2>1
<1>2. ASSUME NEW n \in 0 .. N - 1, n \in S PROVE n + 1 \in S
  <2>1. PICK g : Filtered(g, n, calls)
    BY <1>2
  <2>2. PICK f : Extends(f, g, n, WithCall(g[n], calls[n + 1]))
    BY OneMore
  <2>3. Filtered(f, n + 1, calls)
    <3>1. \A m \in 0 .. n + 1 : f[m] = IF m = 0 THEN <<>> ELSE WithCall(f[m - 1], calls[m])
      BY <2>1, <2>2 DEF Filtered, Extends
    <3> QED
      BY <2>2, <3>1 DEF Filtered, Extends
  <2> QED
    BY <2>3
<1> HIDE DEF S
<1>3. N \in S
  BY <1>1, <1>2, UpTo
<1> QED
  BY <1>3 DEF S

Among(c, s) == \E t \in 1 .. Len(s) : s[t] = c

FilteredTo(s, n, calls) ==
  /\ s \in Seq(Calls)
  /\ \A t \in 1 .. n : Follows(calls[t]) => Among(calls[t], s)
  /\ \A t \in 1 .. Len(s) : Follows(s[t]) /\ Among(s[t], calls)

AnyCalls == [kind : {"item", "hash", "vector", "frame", "done"}, n : Int, top : BOOLEAN]

LEMMA FollowedAre ==
  ASSUME NEW calls \in Seq(AnyCalls), \A t \in 1 .. Len(calls) : calls[t].n > Null => calls[t] \in Calls
  PROVE  /\ Followed(calls) \in Seq(Calls)
         /\ \A t \in 1 .. Len(calls) : Follows(calls[t]) => Among(calls[t], Followed(calls))
         /\ \A t \in 1 .. Len(Followed(calls)) : Follows(Followed(calls)[t]) /\ Among(Followed(calls)[t], calls)
<1> DEFINE N == Len(calls)
           g == CHOOSE g : Filtered(g, N, calls)
           S == {n \in 0 .. N : FilteredTo(g[n], n, calls)}
<1>1. N \in Nat /\ Filtered(g, N, calls)
  <2>1. N \in Nat
    OBVIOUS
  <2> HIDE DEF N
  <2> QED
    BY <2>1, FilteredAre
<1>2. Followed(calls) = g[N] /\ N \in Nat /\ \A n \in 1 .. N : Follows(calls[n]) => calls[n] \in Calls
  BY DEF Followed, Filtered, WithCall, Follows
<1> HIDE DEF g, N
<1>3. g[0] = <<>> /\ \A n \in 0 .. N - 1 :
        g[n + 1] = IF Follows(calls[n + 1]) THEN Append(g[n], calls[n + 1]) ELSE g[n]
  <2>1. ASSUME NEW n \in 0 .. N - 1
        PROVE  g[n + 1] = IF Follows(calls[n + 1]) THEN Append(g[n], calls[n + 1]) ELSE g[n]
    <3>1. n + 1 \in 0 .. N /\ n + 1 # 0 /\ (n + 1) - 1 = n
      BY <1>2
    <3> QED
      BY <1>1, <3>1 DEF Filtered, WithCall
  <2>2. g[0] = <<>>
    <3>1. 0 \in 0 .. N
      BY <1>2
    <3> QED
      BY <1>1, <3>1 DEF Filtered
  <2> QED
    BY <2>1, <2>2
<1>4. 0 \in S
  <2>1. FilteredTo(<<>>, 0, calls)
    BY DEF FilteredTo
  <2> QED
    BY <1>2, <1>3, <2>1
<1>5. ASSUME NEW n \in 0 .. N - 1, n \in S PROVE n + 1 \in S
  <2> DEFINE a == g[n]
             c == calls[n + 1]
             b == g[n + 1]
  <2>1. FilteredTo(g[n], n, calls) /\ n + 1 \in 1 .. N /\ (Follows(c) => c \in Calls) /\ n + 1 \in 0 .. N
    BY <1>2, <1>5
  <2>2. Among(c, calls)
    BY <2>1 DEF Among, N
  <2>3. a \in Seq(Calls) /\ b = IF Follows(c) THEN Append(a, c) ELSE a
    BY <1>3, <2>1 DEF FilteredTo
  <2>4. (\A t \in 1 .. n : Follows(calls[t]) => Among(calls[t], a))
        /\ \A t \in 1 .. Len(a) : Follows(a[t]) /\ Among(a[t], calls)
    BY <2>1 DEF FilteredTo
  <2> HIDE DEF a, b, c
  <2>5. CASE Follows(c)
    <3>1. b \in Seq(Calls) /\ Len(b) = Len(a) + 1 /\ b[Len(a) + 1] = c /\ Len(a) \in Nat
          /\ \A t \in 1 .. Len(a) : b[t] = a[t]
      BY <2>1, <2>3, <2>5
    <3>2. \A t \in 1 .. Len(b) : Follows(b[t]) /\ Among(b[t], calls)
      <4>1. \A t \in 1 .. Len(b) : t \in 1 .. Len(a) \/ t = Len(a) + 1
        BY <3>1
      <4> QED
        BY <2>2, <2>4, <2>5, <3>1, <4>1
    <3>3. \A d : Among(d, a) => Among(d, b)
      BY <3>1 DEF Among
    <3>4. Among(c, b)
      BY <3>1 DEF Among
    <3>5. \A t \in 1 .. n + 1 : Follows(calls[t]) => Among(calls[t], b)
      <4>1. \A t \in 1 .. n + 1 : t \in 1 .. n \/ t = n + 1
        BY <2>1
      <4> QED
        BY <2>4, <3>3, <3>4, <4>1 DEF c
    <3> QED
      BY <2>1, <3>1, <3>2, <3>5 DEF b, FilteredTo
  <2>6. CASE ~Follows(c)
    <3>1. b = a
      BY <2>3, <2>6
    <3>2. \A t \in 1 .. n + 1 : Follows(calls[t]) => Among(calls[t], b)
      <4>1. \A t \in 1 .. n + 1 : t \in 1 .. n \/ t = n + 1
        BY <2>1
      <4> QED
        BY <2>4, <2>6, <3>1, <4>1 DEF c
    <3> QED
      BY <2>1, <2>3, <2>4, <3>1, <3>2 DEF b, FilteredTo
  <2> QED
    BY <2>5, <2>6
<1> HIDE DEF S
<1>6. N \in S
  <2>1. N \in Nat /\ 0 \in S /\ \A n \in 0 .. N - 1 : n \in S => n + 1 \in S
    BY <1>1, <1>4, <1>5
  <2>2. \A n \in 0 .. N : n \in S
    BY <2>1, UpTo
  <2> QED
    BY <2>1, <2>2
<1>7. FilteredTo(g[N], N, calls)
  BY <1>6 DEF S
<1> QED
  BY <1>2, <1>7 DEF N, FilteredTo

-----------------------------------------------------------------------------
(* Of the frames of the calls above the j-th, the last "previous" is that  *)
(* of the j-th.                                                            *)
Above(k) == {m \in k + 1 .. Len(native) : native[m].op \in Framed}

Upwards(g, N) == g = [n \in 0 .. N |-> IF n = 0 THEN cur ELSE frame[g[n - 1]].previous]

LEMMA UpwardsAre ==
  ASSUME NEW N \in Nat
  PROVE  \E g : Upwards(g, N)
<1> DEFINE S == {n \in Nat : \E g : Upwards(g, n)}
<1>1. 0 \in S
  <2>1. Upwards([n \in 0 .. 0 |-> cur], 0)
    BY DEF Upwards
  <2> QED
    BY <2>1
<1>2. ASSUME NEW n \in 0 .. N - 1, n \in S PROVE n + 1 \in S
  <2>1. PICK g : Upwards(g, n)
    BY <1>2
  <2>2. PICK f : Extends(f, g, n, frame[g[n]].previous)
    BY OneMore
  <2>3. Upwards(f, n + 1)
    <3>1. g[0] = cur /\ \A m \in 1 .. n : g[m] = frame[g[m - 1]].previous
      BY <2>1 DEF Upwards
    <3>2. \A m \in 0 .. n + 1 : f[m] = IF m = 0 THEN cur ELSE frame[f[m - 1]].previous
      BY <2>2, <3>1 DEF Extends
    <3> QED
      BY <2>2, <3>2 DEF Upwards, Extends
  <2> QED
    BY <2>3
<1> HIDE DEF S
<1>3. N \in S
  BY <1>1, <1>2, UpTo
<1> QED
  BY <1>3 DEF S

CatcherOf(j) ==
  LET inner == {k \in j + 1 .. Len(native) : native[k].op \in {"body", "handler", "condition", "init"}}
      up[n \in 0 .. Len(native)] == IF n = 0 THEN cur ELSE frame[up[n - 1]].previous
  IN up[Cardinality(inner)]

LEMMA CatcherIs ==
  ASSUME Len(native) \in Nat, NEW fr, NEW F, Chained(fr, F), NEW j \in 1 .. Len(native)
  PROVE  CatcherOf(j) = fr[j]
<1> DEFINE N == Len(native)
           g == CHOOSE g : Upwards(g, N)
           S == {d \in 0 .. N - j : g[Cardinality(Above(N - d))] = fr[N - d]}
<1>1. N \in Nat /\ j \in 1 .. N
  OBVIOUS
<1>2. CatcherOf(j) = g[Cardinality(Above(j))]
  BY DEF CatcherOf, Upwards, Above, Framed
<1> HIDE DEF g
<1>3. Upwards(g, N)
  BY <1>1, UpwardsAre DEF g
<1>4. g[0] = cur /\ \A n \in 1 .. N : g[n] = frame[g[n - 1]].previous
  BY <1>1, <1>3 DEF Upwards
<1>5. ASSUME NEW k \in 1 .. N
      PROVE  IsFiniteSet(Above(k)) /\ Cardinality(Above(k)) \in 0 .. N
  <2>1. IsFiniteSet(1 .. N) /\ Cardinality(1 .. N) = N
    <3> HIDE DEF N
    <3>1. 1 \in Int /\ N \in Int /\ ~ (1 > N) /\ N - 1 + 1 = N
      BY <1>1
    <3> QED
      BY <3>1, FS_Interval
  <2>2. Above(k) \in SUBSET (1 .. N)
    BY <1>1 DEF Above
  <2>3. IsFiniteSet(Above(k)) /\ Cardinality(Above(k)) <= N
    BY <2>1, <2>2, FS_Subset
  <2>4. Cardinality(Above(k)) \in Nat
    BY <2>3, FS_CardinalityType
  <2> QED
    BY <1>1, <2>3, <2>4
<1>6. 0 \in S
  <2>1. Above(N) = {}
    BY <1>1 DEF Above
  <2>2. Cardinality(Above(N)) = 0
    BY <2>1, FS_EmptySet
  <2>3. fr[N] = cur
    BY DEF Chained
  <2> QED
    BY <1>1, <1>4, <2>2, <2>3
<1>7. ASSUME NEW d \in 0 .. (N - j) - 1, d \in S PROVE d + 1 \in S
  <2> DEFINE k == N - d
  <2>1. k \in 2 .. N /\ k \in 1 .. N /\ k - 1 \in 1 .. N /\ N - (d + 1) = k - 1 /\ d + 1 \in 0 .. N - j
    BY <1>1
  <2>2. g[Cardinality(Above(k))] = fr[k]
    BY <1>7
  <2> HIDE DEF k, N
  <2>3. IF native[k].op \in Framed THEN frame[fr[k]].previous = fr[k - 1] ELSE fr[k] = fr[k - 1]
    BY <2>1 DEF Chained, N
  <2>4. g[Cardinality(Above(k - 1))] = fr[k - 1]
    <3>1. CASE native[k].op \in Framed
      <4>1. Above(k - 1) = Above(k) \cup {k} /\ k \notin Above(k)
        BY <1>1, <2>1, <3>1 DEF Above, N
      <4>2. Cardinality(Above(k - 1)) = Cardinality(Above(k)) + 1
        BY <1>5, <2>1, <4>1, FS_AddElement
      <4>3. Cardinality(Above(k - 1)) \in 1 .. N /\ Cardinality(Above(k - 1)) - 1 = Cardinality(Above(k))
        BY <1>1, <1>5, <2>1, <4>2
      <4> QED
        BY <1>4, <2>2, <2>3, <3>1, <4>3
    <3>2. CASE native[k].op \notin Framed
      <4>1. Above(k - 1) = Above(k)
        BY <1>1, <2>1, <3>2 DEF Above, N
      <4> QED
        BY <2>2, <2>3, <3>2, <4>1
    <3> QED
      BY <3>1, <3>2
  <2> QED
    BY <2>1, <2>4
<1> HIDE DEF S, N
<1>8. N - j \in Nat /\ \A d \in 0 .. N - j : d \in S
  <2>1. N - j \in Nat
    BY <1>1
  <2>2. 0 \in S /\ \A d \in 0 .. (N - j) - 1 : d \in S => d + 1 \in S
    BY <1>6, <1>7
  <2> QED
    BY <2>1, <2>2, UpTo
<1>9. N - j \in S /\ N - (N - j) = j
  BY <1>1, <1>8
<1> QED
  BY <1>2, <1>9 DEF S

-----------------------------------------------------------------------------
(* Types.                                                                  *)
ItemSet == [type : ItemTypes, hash : Or0("hash"), item : Or0("item"),
            vector : Or0("vector"), frame : Or0("frame"), at : 0 .. MaxLength]

FrameSet == [last : Or0("item"), hasLast : BOOLEAN, this : Or0("item"),
             locals : Or0("hash"), owner : Or0("frame"), previous : Or0("frame")]

EntrySet == [op : {"body", "handler", "catch", "condition", "args", "invoke", "assign", "array", "init"},
             base : 0 .. MaxStack, obj : Nat]

Typed ==
  /\ item \in [Slots("item") -> ItemSet]
  /\ hash \in [Slots("hash") -> [Keys -> Or0("item") \cup {Absent}]]
  /\ vector \in [Slots("vector") -> Seq(Or0("item"))]
  /\ frame \in [Slots("frame") -> FrameSet]
  /\ bits \in [Objects -> SUBSET {"USE", "GC", "CN"}]
  /\ stack \in Seq(Or0("item"))
  /\ cur \in Slots("frame")
  /\ native \in Seq(EntrySet) /\ native # <<>>
  /\ exception \in Or0("item")
  /\ gc \in {"off", "scan"}
  /\ \A i \in Slots("item") : Shape(item[i])
  /\ \A k \in 1 .. Len(native) : Holds(native[k])
  /\ todo \in Seq(Calls)
  /\ gc = "off" => todo = <<>>

LEMMA EntriesAre ==
  ASSUME NEW s \in Seq(EntrySet)
  PROVE  /\ Len(s) \in Nat
         /\ \A k \in 1 .. Len(s) : /\ s[k] \in EntrySet /\ s[k].base \in 0 .. MaxStack /\ s[k].obj \in Nat
                                   /\ s[k].op \in {"body", "handler", "catch", "condition", "args", "invoke",
                                                   "assign", "array", "init"}
<1>1. \A k \in 1 .. Len(s) : s[k] \in EntrySet
  OBVIOUS
<1> QED
  BY <1>1 DEF EntrySet

LEMMA TypedIs == Types <=> Typed
<1>1. native \in Seq(EntrySet) => \A k \in 1 .. Len(native) : native[k].base \in 0 .. MaxStack
        /\ native[k].op \in {"body", "handler", "catch", "condition", "args", "invoke", "assign", "array", "init"}
  BY EntriesAre
<1> QED
  BY <1>1 DEF Types, Typed, TypeOK, ItemSet, FrameSet, EntrySet

LEMMA RecordsAre ==
  ASSUME Typed
  PROVE  /\ \A i \in Slots("item") :
              /\ item[i] \in ItemSet /\ Shape(item[i])
              /\ item[i].type \in ItemTypes /\ item[i].hash \in Or0("hash") /\ item[i].item \in Or0("item")
              /\ item[i].vector \in Or0("vector") /\ item[i].frame \in Or0("frame")
         /\ \A h \in Slots("hash") : \A k \in Keys : hash[h][k] \in Or0("item") \cup {Absent}
         /\ \A v \in Slots("vector") :
              vector[v] \in Seq(Or0("item")) /\ Len(vector[v]) \in Nat
              /\ \A n \in 1 .. Len(vector[v]) : vector[v][n] \in Or0("item")
         /\ \A f \in Slots("frame") :
              /\ frame[f] \in FrameSet /\ frame[f].last \in Or0("item") /\ frame[f].hasLast \in BOOLEAN
              /\ frame[f].this \in Or0("item") /\ frame[f].locals \in Or0("hash")
              /\ frame[f].owner \in Or0("frame") /\ frame[f].previous \in Or0("frame")
         /\ Len(stack) \in Nat /\ \A n \in 1 .. Len(stack) : stack[n] \in Or0("item")
         /\ Len(native) \in Nat \ {0} /\ Len(native) \in 1 .. Len(native)
         /\ Top = native[Len(native)] /\ Top \in EntrySet
         /\ Top.op \in {"body", "handler", "catch", "condition", "args", "invoke", "assign", "array", "init"}
         /\ Top.base \in 0 .. MaxStack /\ Top.obj \in Nat /\ Holds(Top)
         /\ Operands = Len(stack) - Top.base
<1>1. \A i \in Slots("item") : item[i] \in ItemSet
  BY DEF Typed
<1>2. \A f \in Slots("frame") : frame[f] \in FrameSet
  BY DEF Typed
<1>3. \A v \in Slots("vector") : vector[v] \in Seq(Or0("item"))
  BY DEF Typed
<1>4. Len(native) \in Nat \ {0} /\ Len(native) \in 1 .. Len(native)
  BY DEF Typed
<1>5. Top = native[Len(native)] /\ Top \in EntrySet /\ Holds(Top)
  BY <1>4 DEF Typed, Top
<1>6. /\ Top.base \in 0 .. MaxStack /\ Top.obj \in Nat
      /\ Top.op \in {"body", "handler", "catch", "condition", "args", "invoke", "assign", "array", "init"}
  BY <1>5 DEF EntrySet
<1>7. \A i \in Slots("item") :
              /\ item[i].type \in ItemTypes /\ item[i].hash \in Or0("hash") /\ item[i].item \in Or0("item")
              /\ item[i].vector \in Or0("vector") /\ item[i].frame \in Or0("frame")
  BY <1>1 DEF ItemSet
<1>8. \A f \in Slots("frame") :
              /\ frame[f].last \in Or0("item") /\ frame[f].hasLast \in BOOLEAN
              /\ frame[f].this \in Or0("item") /\ frame[f].locals \in Or0("hash")
              /\ frame[f].owner \in Or0("frame") /\ frame[f].previous \in Or0("frame")
  BY <1>2 DEF FrameSet
<1>9. \A v \in Slots("vector") :
              Len(vector[v]) \in Nat /\ \A n \in 1 .. Len(vector[v]) : vector[v][n] \in Or0("item")
  BY <1>3
<1>10. Len(stack) \in Nat /\ \A n \in 1 .. Len(stack) : stack[n] \in Or0("item")
  BY DEF Typed
<1>11. \A h \in Slots("hash") : \A k \in Keys : hash[h][k] \in Or0("item") \cup {Absent}
  BY DEF Typed
<1>12. \A i \in Slots("item") : Shape(item[i])
  BY DEF Typed
<1>13. Operands = Len(stack) - Top.base
  BY DEF Operands
<1> QED
  BY <1>1, <1>2, <1>3, <1>4, <1>5, <1>6, <1>7, <1>8, <1>9, <1>10, <1>11, <1>12, <1>13

(* What an allocation does to the flags.                                   *)
LEMMA AllocatedIs ==
  ASSUME Typed, NEW A, bits' = Allocated(A)
  PROVE  /\ bits' \in [Objects -> SUBSET {"USE", "GC", "CN"}]
         /\ \A o \in Objects : bits'[o] = IF o \in A THEN {"USE", "CN"} ELSE bits[o]
BY DEF Typed, Allocated

-----------------------------------------------------------------------------
(* What the script's steps do to the sets of what it can get at: I grows   *)
(* to J, H to K, V to W and F to G by what is allocated.                   *)
BitsGrow(A, B, k) ==
  \A n \in B : IF n \in A THEN bits'[<<k, n>>] = bits[<<k, n>>] ELSE bits'[<<k, n>>] = {"USE", "CN"}

Grow(I, H, V, F, J, K, W, G) ==
  /\ I \subseteq J /\ H \subseteq K /\ V \subseteq W /\ F \subseteq G
  /\ J \subseteq Slots("item") /\ K \subseteq Slots("hash")
  /\ W \subseteq Slots("vector") /\ G \subseteq Slots("frame")
  /\ BitsGrow(I, J, "item") /\ BitsGrow(H, K, "hash") /\ BitsGrow(V, W, "vector") /\ BitsGrow(F, G, "frame")
  /\ \A i \in I : item'[i] = item[i]
  /\ \A i \in J \ I : item'[i].type # "class" /\ ItemIn(item'[i], J, K, W, G)
  /\ \A i \in J \ I, f \in G : item'[i].type = "ref" /\ "localcall" \in Features => item'[i].hash # frame'[f].locals
  /\ \A h \in H : hash'[h]["super"] = hash[h]["super"] /\ hash'[h]["Kernel"] = hash[h]["Kernel"]
  /\ HashesIn(hash', J, K)
  /\ \A h \in K \ H : hash'[h]["super"] <= Null
  /\ VectorsIn(vector', J, W)
  /\ FramesIn(frame', J, K, G)
  /\ \A f \in G : \/ frame'[f].locals = Null
                  \/ frame'[f].locals \in K \ H
                  \/ f \in F /\ frame'[f].locals = frame[f].locals

LEMMA HeapGrows ==
  ASSUME Typed, NEW I, NEW H, NEW V, NEW F, NEW J, NEW K, NEW W, NEW G,
         Heap(I, H, V, F), Unmarked(bits, I, H, V, F), Global \in H, Static \in I,
         Grow(I, H, V, F, J, K, W, G)
  PROVE  Heap(J, K, W, G)' /\ Unmarked(bits', J, K, W, G)
<1>1. Used(bits', J, K, W, G) /\ Unmarked(bits', J, K, W, G)
  BY DEF Heap, Used, Unmarked, Grow, BitsGrow
<1>2. ItemsIn(item', J, K, W, G)
  BY DEF Heap, ItemsIn, ItemIn, Grow
<1>3. \A i \in J : item'[i].type = "class" => i \in I /\ item'[i] = item[i] /\ item[i].type = "class"
  BY DEF Grow
<1>4. \A i \in I : /\ item[i].item # Null => item[i].item \in I
                   /\ item[i].hash # Null => item[i].hash \in H
  BY DEF Heap, ItemsIn, ItemIn
<1>5. item[Static] = Class(2, Null) /\ hash[Global]["Kernel"] = Static
  BY DEF Heap, Named
<1>6. item[Static].hash = 2 /\ 2 \in H
  <2>1. item[Static].hash = 2
    BY <1>5 DEF Class, NoItem
  <2> QED
    BY <1>4, <2>1 DEF Null
<1>a. \A i \in I : item[i].type = "class" => item[i].hash # Null
  <2>1. \A i \in I : Shape(item[i])
    BY DEF Typed, Heap
  <2> QED
    BY <2>1 DEF Shape
<1>7. Parts(item', hash', J)
  <2> SUFFICES ASSUME NEW i \in J, item'[i].type = "class", item'[i].item # Null
               PROVE  LET d == item'[i].item
                      IN  item'[d].type = "class" /\ item'[d].item = Null /\ hash'[item'[d].hash]["super"] = i
    BY DEF Parts
  <2> DEFINE d == item[i].item
  <2>1. i \in I /\ item'[i] = item[i] /\ item[i].type = "class" /\ item[i].item # Null
    BY <1>3
  <2>2. d \in I /\ item[d].type = "class" /\ item[d].item = Null /\ hash[item[d].hash]["super"] = i
    BY <1>4, <2>1 DEF Heap, Parts
  <2>3. item'[d] = item[d]
    BY <2>2 DEF Grow
  <2>4. item[d].hash # Null
    BY <2>2, <1>a
  <2>5. item[d].hash \in H
    BY <1>4, <2>2, <2>4
  <2>6. hash'[item[d].hash]["super"] = hash[item[d].hash]["super"]
    BY <2>5 DEF Grow
  <2> HIDE DEF d
  <2>7. item'[i].item = d
    BY <2>1 DEF d
  <2> QED
    BY <2>2, <2>3, <2>6, <2>7
<1>8. \A f \in G : frame'[f].locals = Null \/ frame'[f].locals \in K \ H \/ (f \in F /\ frame'[f].locals = frame[f].locals)
  BY DEF Grow
<1>b. \A i \in I : item[i].type = "class" => item[i].hash \in H
  BY <1>a, <1>4
<1>c. Global \in H /\ 2 \in H /\ Global # Null /\ 2 # Null
  BY <1>6 DEF Global, Null
<1>9. Apart(item', frame', J, G)
  <2>1. \A i, j \in J : item'[i].type = "class" /\ item'[j].type = "class" /\ item'[i].hash = item'[j].hash => i = j
    BY <1>3 DEF Heap, Apart
  <2>2. \A i \in J : item'[i].type = "class" /\ i # Static => item'[i].hash \notin {Global, 2}
    BY <1>3 DEF Heap, Apart
  <2>3. \A i \in J, f \in G : item'[i].type = "class" => item'[i].hash # frame'[f].locals
    BY <1>3, <1>8, <1>a, <1>b DEF Heap, Apart
  <2>4. \A f \in G : frame'[f].locals \notin {Global, 2}
    BY <1>8, <1>c DEF Heap, Apart
  <2>5. ASSUME NEW i \in J, NEW f \in G, item'[i].type = "ref", "localcall" \in Features
        PROVE  item'[i].hash # frame'[f].locals
    <3>1. CASE i \in J \ I
      BY <2>5, <3>1 DEF Grow
    <3>2. CASE i \in I
      <4>1. item'[i] = item[i] /\ Shape(item[i])
        BY <3>2 DEF Grow, Typed, Heap
      <4>2. item[i].hash # Null
        BY <2>5, <4>1 DEF Shape
      <4>3. item[i].hash \in H
        BY <1>4, <3>2, <4>2
      <4> QED
        BY <1>8, <2>5, <3>2, <4>1, <4>2, <4>3 DEF Heap, Apart
    <3> QED
      BY <3>1, <3>2
  <2> QED
    BY <2>1, <2>2, <2>3, <2>4, <2>5 DEF Apart
<1>10. Scopes(hash', frame', G)
  <2>1. hash'[Global]["super"] <= Null /\ hash'[2]["super"] <= Null
    BY <1>c DEF Grow, Heap, Scopes
  <2>2. ASSUME NEW f \in G, frame'[f].locals # Null PROVE hash'[frame'[f].locals]["super"] <= Null
    <3>1. CASE frame'[f].locals \in K \ H
      BY <3>1 DEF Grow
    <3>2. CASE f \in F /\ frame'[f].locals = frame[f].locals
      <4>1. frame[f].locals \in H /\ hash[frame[f].locals]["super"] <= Null
        BY <2>2, <3>2 DEF Heap, FramesIn, FrameIn, Scopes
      <4> QED
        BY <3>2, <4>1 DEF Grow
    <3> QED
      BY <1>8, <2>2, <3>1, <3>2
  <2> QED
    BY <2>1, <2>2 DEF Scopes
<1>11. Named(item', hash')
  BY <1>5 DEF Named, Grow
<1> QED
  BY <1>1, <1>2, <1>7, <1>9, <1>10, <1>11 DEF Heap, Grow

-----------------------------------------------------------------------------
(* A step of the script, from the sets I, H, V, F to J, K, W, G.           *)
HeapTyped ==
  /\ item \in [Slots("item") -> ItemSet]
  /\ hash \in [Slots("hash") -> [Keys -> Or0("item") \cup {Absent}]]
  /\ vector \in [Slots("vector") -> Seq(Or0("item"))]
  /\ frame \in [Slots("frame") -> FrameSet]
  /\ bits \in [Objects -> SUBSET {"USE", "GC", "CN"}]
  /\ \A i \in Slots("item") : Shape(item[i])

(* What the C functions that wait rely on.                                 *)
Persists(I, H, V, F, J, K, W, G) ==
  /\ I \subseteq J /\ H \subseteq K /\ V \subseteq W /\ F \subseteq G
  /\ \A i \in I : item'[i] = item[i]
  /\ \A f \in F : /\ frame'[f].this = frame[f].this /\ frame'[f].owner = frame[f].owner
                  /\ frame'[f].previous = frame[f].previous
                  /\ frame[f].locals # Null => frame'[f].locals = frame[f].locals
  /\ "localcall" \in Features =>
       \A f \in F : frame[f].locals # Null /\ hash[frame[f].locals]["x"] > Null =>
                      hash'[frame[f].locals]["x"] = hash[frame[f].locals]["x"]

HeapMoves(I, H, V, F, J, K, W, G) ==
  /\ HeapTyped' /\ Makes' /\ Walks'
  /\ Heap(J, K, W, G)' /\ Unmarked(bits', J, K, W, G)
  /\ Persists(I, H, V, F, J, K, W, G)

(* The first q entries of the C stack stay, and the first p operands; the  *)
(* new entries are at base p.                                              *)
Stays(q, p) ==
  /\ q \in 1 .. Len(native) /\ q <= Len(native') /\ \A k \in 1 .. q : native'[k] = native[k]
  /\ p \in 0 .. Len(stack) /\ p <= Len(stack') /\ \A n \in 1 .. p : stack'[n] = stack[n]
  /\ \A k \in 1 .. q : native[k].base + Needs(native[k].op) <= p
  /\ \A k \in 1 .. q : native[k].op = "init" => hash'[item[native[k].obj].hash]["super"] = Null

Link(q, fr) ==
  /\ Len(native') = q \/ native'[Len(native')].op \notin Framed => cur' = fr[q]
  /\ \A k \in q + 1 .. Len(native') :
       native'[k].op \in Framed => k = Len(native') /\ frame'[cur'].previous = fr[q]

NewEntry(r, k, q, p, fr, I, W) ==
  /\ r \in EntrySet /\ r.base = p
  /\ p + Needs(r.op) <= Len(stack')
  /\ k # Len(native') => Needs(r.op) = 0
  /\ r.op \in {"assign", "invoke"} => stack'[p + 1] # Null
  /\ r.op = "assign" => item'[stack'[p + 1]].type \in {"ref", "refarray"}
  /\ r.op = "invoke" => item'[stack'[p + 1]].type = "node"
  /\ r.op = "array" => k = Len(native') /\ r.obj \in W /\ "array" \in Features
  /\ r.op = "args" => r.obj \in Or0("frame")
  /\ r.op = "args" /\ r.obj # Null => "localcall" \in Features /\ \E f, obj \in Slots("frame") : f = fr[q] /\ obj = r.obj /\ ByName(f, obj)'
  /\ r.op = "init" => /\ k = Len(native') /\ "new" \in Features
                      /\ r.obj \in Slots("item") \ I /\ r.obj # Static /\ frame'[cur'].this = r.obj
                      /\ item'[r.obj].type = "class" /\ item'[r.obj].item = Null
                      /\ hash'[item'[r.obj].hash]["super"] = Null
  /\ r.op \notin {"array", "args", "init"} => r.obj = Null
  /\ (\E m \in 1 .. q : native[m].op = "array") => r.op \in {"assign", "array", "init"}

Pushed(q, p, fr, I, W) ==
  \A k \in q + 1 .. Len(native') : NewEntry(native'[k], k, q, p, fr, I, W)

RootsMove(J, G) ==
  /\ stack' \in Seq(Or0("item")) /\ Len(stack') <= MaxStack
  /\ \A n \in 1 .. Len(stack') : stack'[n] # Null => stack'[n] \in J
  /\ exception' \in Or0("item") /\ (exception' # Null => exception' \in J)
  /\ cur' \in G
  /\ native' \in Seq(EntrySet)

LEMMA ByNameStays ==
  ASSUME Typed, NEW I, NEW H, NEW V, NEW F, NEW J, NEW K, NEW W, NEW G,
         Heap(I, H, V, F), Persists(I, H, V, F, J, K, W, G), "localcall" \in Features,
         NEW f \in F, NEW obj, ByName(f, obj)
  PROVE  ByName(f, obj)'
<1>1. PICK h \in Slots("hash") :
        /\ h = frame[f].locals \/ (frame[f].owner # Null /\ h = frame[frame[f].owner].locals)
        /\ hash[h]["x"] > Null
        /\ item[hash[h]["x"]].type = "node" /\ item[hash[h]["x"]].frame = obj
  BY DEF ByName
<1>2. \E g \in F : h = frame[g].locals
  BY <1>1 DEF Heap, FramesIn, FrameIn
<1>3. h # Null /\ "x" \in Keys
  BY SlotsAre, KeysAre DEF Null
<1>4. h \in H
  BY <1>2, <1>3 DEF Heap, FramesIn, FrameIn
<1>5. hash[h]["x"] \in I
  BY <1>1, <1>3, <1>4 DEF Heap, HashesIn
<1>6. hash'[h]["x"] = hash[h]["x"] /\ item'[hash[h]["x"]] = item[hash[h]["x"]]
  BY <1>1, <1>2, <1>3, <1>5 DEF Persists
<1>7. frame'[f].locals = frame[f].locals \/ frame[f].locals = Null
  BY DEF Persists
<1>8. frame'[f].owner = frame[f].owner
  BY DEF Persists
<1>9. frame[f].owner # Null => frame[f].owner \in F
  BY DEF Heap, FramesIn, FrameIn
<1>10. h = frame'[f].locals \/ (frame'[f].owner # Null /\ h = frame'[frame'[f].owner].locals)
  <2>1. CASE h = frame[f].locals
    BY <1>3, <1>7, <2>1
  <2>2. CASE frame[f].owner # Null /\ h = frame[frame[f].owner].locals
    <3>1. frame'[frame[f].owner].locals = h
      BY <1>3, <1>9, <2>2 DEF Persists
    <3> QED
      BY <1>8, <2>2, <3>1
  <2> QED
    BY <1>1, <2>1, <2>2
<1> QED
  BY <1>1, <1>6, <1>10 DEF ByName

LEMMA Steps ==
  ASSUME Typed, gc = "off", UNCHANGED <<gc, todo>>,
         NEW I, NEW H, NEW V, NEW F, NEW fr, Safe(I, H, V, F, fr),
         NEW J, NEW K, NEW W, NEW G, HeapMoves(I, H, V, F, J, K, W, G),
         NEW q, NEW p, Stays(q, p), Link(q, fr), RootsMove(J, G), Pushed(q, p, fr, I, W)
  PROVE  GInv'
<1> DEFINE N == Len(native)
           L == Len(native')
<1>0. PICK fs : fs = [k \in 1 .. L |-> IF k <= q THEN fr[k] ELSE IF native'[k].op \in Framed THEN cur' ELSE fr[q]]
  OBVIOUS
<1>1. /\ N \in Nat /\ L \in Nat /\ q \in 1 .. N /\ q <= L /\ q \in Nat /\ p \in Nat /\ q \in 1 .. q /\ L \in 1 .. L
      /\ Len(stack) \in Nat /\ Len(stack') \in Nat
      /\ \A k \in 1 .. q : k \in 1 .. N /\ k \in 1 .. L
      /\ \A k \in q + 1 .. L : k \in 1 .. L
  BY DEF Typed, RootsMove, Stays
<1>2. Heap(I, H, V, F) /\ RootsIn(I, H, F) /\ Chained(fr, F) /\ Stacked /\ InC(fr, V)
  BY DEF Safe
<1>3. fr \in [1 .. N -> F] /\ native[1].op = "body"
  BY <1>2 DEF Chained
<1>4. \A k \in 1 .. q : native'[k] = native[k] /\ fs[k] = fr[k] /\ fr[k] \in F
  <2>1. \A k \in 1 .. q : fs[k] = fr[k]
    BY <1>0, <1>1
  <2>2. \A k \in 1 .. q : fr[k] \in F
    BY <1>1, <1>3
  <2> QED
    BY <2>1, <2>2 DEF Stays
<1>5. \A k \in q + 1 .. L : fs[k] = IF native'[k].op \in Framed THEN cur' ELSE fr[q]
  BY <1>0, <1>1
<1>6. F \subseteq G /\ I \subseteq J /\ cur' \in G /\ fr[q] \in F
  <2>1. fr[q] \in F
    BY <1>1, <1>4
  <2> QED
    BY <2>1 DEF HeapMoves, Persists, RootsMove
<1>7. fs \in [1 .. L -> G]
  <2>1. \A k \in 1 .. q : fr[k] \in G
    BY <1>4, <1>6
  <2>2. fr[q] \in G /\ cur' \in G
    BY <1>6
  <2>3. ASSUME NEW k \in 1 .. L
        PROVE  (IF k <= q THEN fr[k] ELSE IF native'[k].op \in Framed THEN cur' ELSE fr[q]) \in G
    BY <1>1, <2>1, <2>2
  <2> QED
    BY <1>0, <2>3
<1>8. fs[L] = cur'
  <2>1. CASE L = q
    BY <1>1, <1>4, <2>1 DEF Link
  <2>2. CASE L # q
    <3>1. L \in q + 1 .. L
      BY <1>1, <2>2
    <3> QED
      BY <1>5, <3>1 DEF Link
  <2> QED
    BY <2>1, <2>2
<1> HIDE DEF N, L
<1>9. ASSUME NEW k \in 2 .. L
      PROVE  IF native'[k].op \in Framed THEN frame'[fs[k]].previous = fs[k - 1] ELSE fs[k] = fs[k - 1]
  <2>1. CASE k <= q
    <3>1. k \in 2 .. N /\ k \in 1 .. q /\ k - 1 \in 1 .. q
      BY <1>1, <2>1
    <3>2. IF native[k].op \in Framed THEN frame[fr[k]].previous = fr[k - 1] ELSE fr[k] = fr[k - 1]
      BY <1>2, <3>1 DEF Chained, N
    <3>3. frame'[fr[k]].previous = frame[fr[k]].previous
      BY <1>4, <3>1 DEF HeapMoves, Persists
    <3> QED
      BY <1>4, <3>1, <3>2, <3>3
  <2>2. CASE k > q
    <3>1. k \in q + 1 .. L
      BY <1>1, <2>2
    <3>2. fs[k - 1] = fr[q]
      <4>1. CASE k - 1 = q
        BY <1>1, <1>4, <4>1
      <4>2. CASE k - 1 # q
        <5>1. k - 1 \in q + 1 .. L /\ k - 1 # L
          BY <1>1, <3>1, <4>2
        <5> QED
          BY <1>5, <5>1 DEF Link, L
      <4> QED
        BY <4>1, <4>2
    <3> QED
      <4>1. CASE native'[k].op \in Framed
        BY <1>5, <3>1, <3>2, <4>1 DEF Link, L
      <4>2. CASE native'[k].op \notin Framed
        BY <1>5, <3>1, <3>2, <4>2
      <4> QED
        BY <4>1, <4>2
  <2> QED
    BY <1>1, <2>1, <2>2
<1>10. Chained(fs, G)'
  <2>1. native'[1].op = "body"
    <3>1. 1 \in 1 .. q
      BY <1>1
    <3> QED
      BY <1>3, <1>4, <3>1
  <2> QED
    BY <1>7, <1>8, <1>9, <2>1 DEF Chained, L
<1>11. ASSUME NEW k \in q + 1 .. L
       PROVE  NewEntry(native'[k], k, q, p, fr, I, W)
  BY <1>11 DEF Pushed, L
<1>12. \A k \in 1 .. q : native[k].base + Needs(native[k].op) <= p /\ native[k].base \in Nat
  <2>1. \A k \in 1 .. q : native[k].base \in Nat
    BY <1>1, EntriesAre DEF Typed, N
  <2> QED
    BY <2>1 DEF Stays
<1>13. ASSUME NEW k \in 1 .. L
       PROVE  Needs(native'[k].op) \in {0, 1} /\ native'[k].base \in Nat
  <2>1. native'[k].base \in Nat
    BY EntriesAre DEF RootsMove, L
  <2> QED
    BY <2>1 DEF Needs
<1>14. p <= Len(stack')
  BY DEF Stays
<1>15. ASSUME NEW k \in 1 .. L PROVE native'[k].base + Needs(native'[k].op) <= Len(stack')
  <2>1. CASE k <= q
    BY <1>1, <1>4, <1>12, <1>13, <1>14, <2>1
  <2>2. CASE k > q
    BY <1>1, <1>11, <2>2 DEF NewEntry
  <2> QED
    BY <1>1, <2>1, <2>2
<1>16. ASSUME NEW k \in 1 .. L, NEW m \in 1 .. L, k < m
       PROVE  native'[k].base + Needs(native'[k].op) <= native'[m].base
  <2>1. CASE m <= q
    <3>1. k \in 1 .. q /\ m \in 1 .. q /\ k \in 1 .. N /\ m \in 1 .. N
      BY <1>1, <1>16, <2>1
    <3> QED
      BY <1>2, <1>4, <1>16, <3>1 DEF Stacked, N
  <2>2. CASE m > q
    <3>1. native'[m].base = p
      BY <1>1, <1>11, <2>2 DEF NewEntry
    <3>2. CASE k <= q
      BY <1>1, <1>4, <1>12, <3>1, <3>2
    <3>3. CASE k > q
      <4>1. k \in q + 1 .. L /\ k # L
        BY <1>1, <1>16, <3>3
      <4>2. native'[k].base = p /\ Needs(native'[k].op) = 0
        BY <1>11, <4>1 DEF NewEntry, L
      <4> QED
        BY <1>1, <3>1, <4>2
    <3> QED
      BY <1>1, <3>2, <3>3
  <2> QED
    BY <1>1, <2>1, <2>2
<1>17. Stacked'
  BY <1>15, <1>16 DEF Stacked, L, RootsMove
<1>18. \A k \in 1 .. q : Expected(k) /\ Kept(fr, k) /\ Holds(native[k])
  BY <1>1, <1>2 DEF InC, N, Typed
<1>19. Heap(J, K, W, G)' /\ Persists(I, H, V, F, J, K, W, G)
  BY DEF HeapMoves
<1>20. ASSUME NEW k \in 1 .. L PROVE Expected(k)'
  <2>1. CASE k <= q
    <3>1. k \in 1 .. q /\ native'[k] = native[k]
      BY <1>1, <1>4, <2>1
    <3>2. native[k].base \in Nat /\ native[k].base + Needs(native[k].op) <= p
      BY <1>12, <3>1
    <3>3. ASSUME native[k].op \in {"assign", "invoke"}
          PROVE  stack'[native[k].base + 1] = stack[native[k].base + 1] /\ native[k].base + 1 \in 1 .. Len(stack)
      <4>1. native[k].base + 1 \in 1 .. p /\ p <= Len(stack)
        BY <1>1, <3>2, <3>3 DEF Needs, Stays
      <4> QED
        BY <1>1, <4>1 DEF Stays
    <3>4. ASSUME native[k].op \in {"assign", "invoke"}
          PROVE  item'[stack[native[k].base + 1]] = item[stack[native[k].base + 1]]
      <4>1. stack[native[k].base + 1] # Null
        BY <1>18, <3>1, <3>4 DEF Expected
      <4>2. stack[native[k].base + 1] \in I
        BY <1>2, <3>3, <3>4, <4>1 DEF RootsIn
      <4> QED
        BY <1>19, <4>2 DEF Persists
    <3> QED
      BY <1>18, <3>1, <3>3, <3>4 DEF Expected
  <2>2. CASE k > q
    <3>1. NewEntry(native'[k], k, q, p, fr, I, W)
      BY <1>1, <1>11, <2>2
    <3> QED
      BY <3>1 DEF NewEntry, Expected
  <2> QED
    BY <1>1, <2>1, <2>2
<1>21. ASSUME NEW k \in q + 1 .. L PROVE NewEntry(native'[k], k, q, p, fr, I, W) /\ k \in 1 .. L /\ ~ (k <= q)
  BY <1>1, <1>11
<1>22. \A k \in 1 .. L : native'[k] \in EntrySet /\ Holds(native'[k])
  <2>1. SUFFICES ASSUME NEW k \in 1 .. L PROVE native'[k] \in EntrySet /\ Holds(native'[k])
    OBVIOUS
  <2>2. native'[k] \in EntrySet
    BY DEF RootsMove, L
  <2>3. CASE k <= q
    BY <1>1, <1>4, <1>18, <2>2, <2>3
  <2>4. CASE k > q
    <3>1. V \subseteq W /\ W \subseteq Slots("vector")
      BY <1>19 DEF Heap, Persists
    <3>2. NewEntry(native'[k], k, q, p, fr, I, W)
      BY <1>1, <1>11, <2>4
    <3> QED
      BY <2>2, <3>1, <3>2 DEF NewEntry, Holds
  <2> QED
    BY <1>1, <2>3, <2>4
<1>23. ASSUME NEW k \in 1 .. L, native'[k].op = "init"
       PROVE  IF k <= q THEN native[k].op = "init" /\ native'[k].obj = native[k].obj /\ native[k].obj \in I
                             /\ fs[k] = fr[k] /\ fr[k] \in F
                        ELSE native'[k].obj \notin I /\ k = L /\ fs[k] = cur'
  <2>1. CASE k <= q
    <3>1. k \in 1 .. q /\ native[k].op = "init" /\ native'[k] = native[k] /\ fr[k] \in F /\ fs[k] = fr[k]
      BY <1>1, <1>4, <1>23, <2>1
    <3>2. frame[fr[k]].this = native[k].obj /\ native[k].obj \in Slots("item")
      BY <1>18, <3>1 DEF Kept, Holds
    <3>3. native[k].obj # Null
      BY <3>2, SlotsAre DEF Null
    <3>4. native[k].obj \in I
      BY <1>2, <3>1, <3>2, <3>3 DEF Heap, FramesIn, FrameIn
    <3> QED
      BY <2>1, <3>1, <3>4
  <2>2. CASE k > q
    <3>1. NewEntry(native'[k], k, q, p, fr, I, W) /\ ~ (k <= q)
      BY <1>1, <1>11, <2>2
    <3>2. k = L /\ native'[k].obj \notin I
      BY <1>23, <3>1 DEF NewEntry, L
    <3> QED
      BY <1>8, <3>1, <3>2
  <2> QED
    BY <1>1, <2>1, <2>2
<1>24. ASSUME NEW k \in 1 .. L, NEW m \in 1 .. L, native'[k].op = "init", native'[m].op = "init",
              native'[k].obj = native'[m].obj
       PROVE  k = m
  <2>1. CASE k <= q /\ m <= q
    <3>1. k \in 1 .. N /\ m \in 1 .. N
      BY <1>1, <2>1
    <3> QED
      BY <1>2, <1>23, <1>24, <2>1, <3>1 DEF InC, N
  <2>2. CASE k > q \/ m > q
    BY <1>1, <1>23, <1>24, <2>2
  <2> QED
    BY <1>1, <2>1, <2>2
<1>25. ASSUME NEW k \in 1 .. L PROVE Kept(fs, k)'
  <2>1. ASSUME NEW obj, obj = native'[k].obj, native'[k].op = "args", obj # Null
        PROVE  "localcall" \in Features /\ ByName(fs[k], obj)'
    <3>1. CASE k <= q
      <4>1. k \in 1 .. q /\ native[k].op = "args" /\ native[k].obj = obj /\ fs[k] = fr[k] /\ fr[k] \in F
        BY <1>1, <1>4, <2>1, <3>1
      <4>2. "localcall" \in Features /\ ByName(fr[k], obj)
        BY <1>18, <2>1, <4>1 DEF Kept
      <4>3. PICK f \in F : f = fr[k]
        BY <4>1
      <4>4. ByName(f, obj)
        BY <4>2, <4>3
      <4>5. ByName(f, obj)'
        BY <1>2, <1>19, <4>2, <4>4, ByNameStays
      <4>6. f = fs[k]
        BY <4>1, <4>3
      <4> QED
        BY <4>2, <4>5, <4>6
    <3>2. CASE k > q
      <4>1. NewEntry(native'[k], k, q, p, fr, I, W) /\ k \in q + 1 .. L
        BY <1>1, <1>11, <3>2
      <4>2. PICK f \in Slots("frame") : f = fr[q] /\ ByName(f, obj)'
        BY <2>1, <4>1 DEF NewEntry
      <4>3. f = fs[k]
        BY <1>5, <2>1, <4>1, <4>2 DEF Framed
      <4> QED
        BY <2>1, <4>1, <4>2, <4>3 DEF NewEntry
    <3> QED
      BY <1>1, <3>1, <3>2
  <2>2. ASSUME native'[k].op = "init"
        PROVE  /\ "new" \in Features /\ native'[k].obj # Static /\ frame'[fs[k]].this = native'[k].obj
               /\ item'[native'[k].obj].type = "class" /\ item'[native'[k].obj].item = Null
               /\ hash'[item'[native'[k].obj].hash]["super"] = Null
    <3>1. CASE k <= q
      <4>1. k \in 1 .. q /\ native[k].op = "init" /\ native'[k] = native[k]
        BY <1>1, <1>4, <2>2, <3>1
      <4>2. native[k].obj \in I /\ fs[k] = fr[k] /\ fr[k] \in F
        BY <1>23, <2>2, <3>1
      <4>3. item'[native[k].obj] = item[native[k].obj] /\ frame'[fr[k]].this = frame[fr[k]].this
        BY <1>19, <4>2 DEF Persists
      <4>4. hash'[item[native[k].obj].hash]["super"] = Null
        BY <4>1 DEF Stays
      <4> QED
        BY <1>18, <4>1, <4>2, <4>3, <4>4 DEF Kept
    <3>2. CASE k > q
      <4>1. NewEntry(native'[k], k, q, p, fr, I, W)
        BY <1>1, <1>11, <3>2
      <4>2. fs[k] = cur'
        BY <1>1, <1>23, <2>2, <3>2
      <4> QED
        BY <2>2, <4>1, <4>2 DEF NewEntry
    <3> QED
      BY <1>1, <3>1, <3>2
  <2>3. ASSUME native'[k].op = "array"
        PROVE  /\ "array" \in Features
               /\ \A m \in k + 1 .. L : native'[m].op \in {"assign", "array", "init"}
    <3>1. CASE k <= q
      <4>1. k \in 1 .. q /\ native[k].op = "array"
        BY <1>1, <1>4, <2>3, <3>1
      <4>2. "array" \in Features /\ \A m \in k + 1 .. N : native[m].op \in {"assign", "array", "init"}
        BY <1>18, <4>1 DEF Kept, N
      <4>3. ASSUME NEW m \in k + 1 .. L PROVE native'[m].op \in {"assign", "array", "init"}
        <5>1. CASE m <= q
          <6>1. m \in 1 .. q /\ m \in k + 1 .. N
            BY <1>1, <4>1, <5>1
          <6> QED
            BY <1>4, <4>2, <6>1
        <5>2. CASE m > q
          <6>1. NewEntry(native'[m], m, q, p, fr, I, W)
            BY <1>1, <1>11, <5>2
          <6> QED
            BY <4>1, <6>1 DEF NewEntry
        <5> QED
          BY <1>1, <4>1, <5>1, <5>2
      <4> QED
        BY <4>2, <4>3
    <3>2. CASE k > q
      <4>1. k \in q + 1 .. L
        BY <1>1, <3>2
      <4>2. NewEntry(native'[k], k, q, p, fr, I, W)
        BY <1>11, <4>1
      <4>3. ASSUME NEW m \in k + 1 .. L PROVE FALSE
        <5>1. m \in q + 1 .. L /\ k # L
          BY <1>1, <4>1
        <5> QED
          BY <2>3, <4>2, <5>1 DEF NewEntry, L
      <4> QED
        BY <2>3, <4>2, <4>3 DEF NewEntry
    <3> QED
      BY <1>1, <3>1, <3>2
  <2> QED
    BY <2>1, <2>2, <2>3 DEF Kept, ByName, L
<1>26. InC(fs, W)'
  <2>1. ASSUME NEW k \in 1 .. L, native'[k].op = "array" PROVE native'[k].obj \in W
    <3>1. CASE k <= q
      <4>1. k \in 1 .. N /\ native[k].op = "array" /\ native'[k].obj = native[k].obj
        BY <1>1, <1>4, <2>1, <3>1
      <4> QED
        BY <1>2, <1>19, <4>1 DEF InC, N, Persists
    <3>2. CASE k > q
      <4>1. NewEntry(native'[k], k, q, p, fr, I, W)
        BY <1>1, <1>11, <3>2
      <4> QED
        BY <2>1, <4>1 DEF NewEntry
    <3> QED
      BY <1>1, <3>1, <3>2
  <2> QED
    BY <1>20, <1>24, <1>25, <2>1 DEF InC, L
<1>27. RootsIn(J, K, G)'
  BY <1>2, <1>19 DEF RootsMove, RootsIn, Persists
<1>28. Marking(J, K, W, G)'
  BY DEF Marking, HeapMoves
<1>29. Typed'
  <2>1. HeapTyped'
    BY DEF HeapMoves
  <2>2. /\ stack' \in Seq(Or0("item")) /\ exception' \in Or0("item") /\ cur' \in Slots("frame")
        /\ native' \in Seq(EntrySet) /\ native' # <<>>
    BY <1>1, <1>19 DEF RootsMove, Heap, L
  <2>3. gc' \in {"off", "scan"} /\ todo' \in Seq(Calls) /\ (gc' = "off" => todo' = <<>>)
    BY DEF Typed
  <2>4. \A k \in 1 .. Len(native') : Holds(native'[k])
    BY <1>22 DEF L
  <2> QED
    BY <2>1, <2>2, <2>3, <2>4 DEF Typed, HeapTyped, Holds
<1>30. SafeSomehow'
  <2>1. J \in SUBSET Slots("item") /\ K \in SUBSET Slots("hash") /\ W \in SUBSET Slots("vector")
        /\ G \in SUBSET Slots("frame")
    BY <1>19 DEF Heap
  <2>2. fs \in [1 .. L -> Slots("frame")]
    BY <1>7, <2>1
  <2>3. Safe(J, K, W, G, fs)'
    BY <1>10, <1>17, <1>19, <1>26, <1>27, <1>28 DEF Safe
  <2> QED
    BY <2>1, <2>2, <2>3 DEF SafeSomehow, L
<1>31. Types'
  BY <1>29, TypedIs, PTL
<1> QED
  BY <1>30, <1>31 DEF HeapMoves, GInv

-----------------------------------------------------------------------------
(* What allocates nothing but a few objects, or only changes what is there.*)
Runs(I, H, V, F, fr) == Typed /\ Makes /\ Walks /\ gc = "off" /\ Safe(I, H, V, F, fr)

Made(r) ==
  /\ r.type = "class" => "new" \in Features
  /\ "new" \in Features => r.type # "node" /\ (r.type = "ref" => r.hash = 2)

LEMMA MakesStay ==
  ASSUME Makes,
         \A i \in Slots("item") : item'[i] = item[i] \/ Made(item'[i]),
         \A h \in Slots("hash") : "USE" \in bits'[<<"hash", h>>] \/ (hash'[h] = hash[h] /\ ~InUse(<<"hash", h>>)),
         \A h \in Slots("hash") : hash'[h]["super"] <= Null \/ hash'[h]["super"] = hash[h]["super"] \/ "new" \in Features
  PROVE  Makes'
BY DEF Makes, Made, InUse

LEMMA WalksStay ==
  ASSUME Walks, \A i \in Slots("item") : item'[i] = item[i] \/ item'[i].type # "class" \/ item'[i].item = Null
  PROVE  Walks'
<1>1. PICK rank \in [Slots("item") -> Nat] :
        \A n \in Slots("item") : item[n].type = "class" /\ item[n].item # Null => rank[item[n].item] < rank[n]
  BY DEF Walks
<1>2. \A n \in Slots("item") : item'[n].type = "class" /\ item'[n].item # Null => rank[item'[n].item] < rank[n]
  BY <1>1
<1> QED
  BY <1>2 DEF Walks

HeapGrown(I, H, V, F, J, K, W, G) ==
  /\ HeapMoves(I, H, V, F, J, K, W, G)
  /\ \A h \in H : hash'[h]["super"] = hash[h]["super"]

LEMMA Grows ==
  ASSUME NEW I, NEW H, NEW V, NEW F, NEW fr, Runs(I, H, V, F, fr),
         NEW J, NEW K, NEW W, NEW G, HeapTyped', Makes', Walks', Grow(I, H, V, F, J, K, W, G),
         \A f \in F : /\ frame'[f].this = frame[f].this /\ frame'[f].owner = frame[f].owner
                      /\ frame'[f].previous = frame[f].previous
                      /\ frame[f].locals # Null => frame'[f].locals = frame[f].locals,
         \/ "localcall" \notin Features
         \/ \A f \in F : frame[f].locals # Null /\ hash[frame[f].locals]["x"] > Null =>
                            hash'[frame[f].locals]["x"] = hash[frame[f].locals]["x"]
  PROVE  HeapGrown(I, H, V, F, J, K, W, G)
<1>1. Heap(I, H, V, F) /\ RootsIn(I, H, F) /\ Unmarked(bits, I, H, V, F)
  BY DEF Runs, Safe, Marking
<1>2. Heap(J, K, W, G)' /\ Unmarked(bits', J, K, W, G)
  BY <1>1, HeapGrows DEF Runs, RootsIn
<1>4. Persists(I, H, V, F, J, K, W, G)
  BY DEF Persists, Grow
<1> QED
  BY <1>2, <1>4 DEF HeapMoves, HeapGrown, Grow

LEMMA BitsUnchanged ==
  ASSUME bits' = bits, NEW A, NEW k
  PROVE  BitsGrow(A, A, k)
BY DEF BitsGrow

LEMMA HeapStays ==
  ASSUME NEW I, NEW H, NEW V, NEW F, NEW fr, Runs(I, H, V, F, fr), UNCHANGED heap
  PROVE  HeapGrown(I, H, V, F, I, H, V, F)
<1>1. item' = item /\ hash' = hash /\ vector' = vector /\ frame' = frame /\ bits' = bits
  BY DEF heap
<1>2. HeapTyped'
  BY <1>1 DEF HeapTyped, Runs, Typed
<1>3. Makes' /\ Walks'
  <2>1. \A h \in Slots("hash") : "USE" \in bits'[<<"hash", h>>] \/ (hash'[h] = hash[h] /\ ~InUse(<<"hash", h>>))
    BY <1>1 DEF InUse
  <2> QED
    BY <1>1, <2>1, MakesStay, WalksStay DEF Runs
<1>4. Grow(I, H, V, F, I, H, V, F)
  BY <1>1, BitsUnchanged DEF Grow, Runs, Safe, Heap, ItemsIn
<1> QED
  BY <1>1, <1>2, <1>3, <1>4, Grows

(* A free slot is in none of the sets.                                     *)
LEMMA FreshIsOut ==
  ASSUME NEW I, NEW H, NEW V, NEW F, Heap(I, H, V, F)
  PROVE  /\ \A i : Fresh("item", i) => i \in Slots("item") \ I
         /\ \A h : Fresh("hash", h) => h \in Slots("hash") \ H
         /\ \A v : Fresh("vector", v) => v \in Slots("vector") \ V
         /\ \A f : Fresh("frame", f) => f \in Slots("frame") \ F
BY DEF Heap, Used, Fresh, InUse

(* What an allocation of one slot of each of some kinds does to the flags. *)
LEMMA BitsGrown ==
  ASSUME Typed, NEW A, bits' = Allocated(A), NEW k \in Kinds, NEW X, X \subseteq Slots(k),
         NEW Y, Y \subseteq Slots(k), \A n \in Y : <<k, n>> \in A <=> n \notin X
  PROVE  BitsGrow(X, Y, k)
BY AllocatedIs, ObjectsAre DEF BitsGrow

LEMMA ItemMade ==
  ASSUME NEW I, NEW H, NEW V, NEW F, NEW fr, Runs(I, H, V, F, fr),
         NEW i, NEW r, NewItem(i, r), UNCHANGED <<hash, vector, frame>>,
         r \in ItemSet, Shape(r), Made(r), r.type # "class", ItemIn(r, I, H, V, F),
         r.type = "ref" /\ "localcall" \in Features => \A f \in F : r.hash # frame[f].locals
  PROVE  HeapGrown(I, H, V, F, I \cup {i}, H, V, F)
<1>1. Typed /\ Heap(I, H, V, F)
  BY DEF Runs, Safe
<1>2. i \in Slots("item") \ I /\ item' = [item EXCEPT ![i] = r] /\ bits' = Allocated({<<"item", i>>})
  BY <1>1, FreshIsOut DEF NewItem
<1>3. \A n \in Slots("item") : item'[n] = IF n = i THEN r ELSE item[n]
  BY <1>1, <1>2 DEF Typed
<1>4. bits' \in [Objects -> SUBSET {"USE", "GC", "CN"}]
  BY <1>1, <1>2, AllocatedIs
<1>5. item' \in [Slots("item") -> ItemSet]
  BY <1>1, <1>2 DEF Typed
<1>6. HeapTyped'
  BY <1>1, <1>3, <1>4, <1>5 DEF HeapTyped, Typed
<1>7. Makes' /\ Walks'
  <2>1. \A h \in Slots("hash") : bits'[<<"hash", h>>] = bits[<<"hash", h>>]
    <3>1. \A h \in Slots("hash") : <<"hash", h>> \in Objects
      BY ObjectsAre DEF Kinds
    <3>2. \A o \in Objects : bits'[o] = IF o \in {<<"item", i>>} THEN {"USE", "CN"} ELSE bits[o]
      BY <1>1, <1>2, AllocatedIs
    <3> QED
      BY <3>1, <3>2
  <2>2. \A h \in Slots("hash") : "USE" \in bits'[<<"hash", h>>] \/ (hash'[h] = hash[h] /\ ~InUse(<<"hash", h>>))
    BY <2>1 DEF InUse
  <2> QED
    BY <1>3, <2>2, MakesStay, WalksStay DEF Runs
<1>8. /\ BitsGrow(I, I \cup {i}, "item") /\ BitsGrow(H, H, "hash")
      /\ BitsGrow(V, V, "vector") /\ BitsGrow(F, F, "frame")
  <2>1. "item" \in Kinds /\ "hash" \in Kinds /\ "vector" \in Kinds /\ "frame" \in Kinds
    BY DEF Kinds
  <2>2. /\ I \subseteq Slots("item") /\ H \subseteq Slots("hash")
        /\ V \subseteq Slots("vector") /\ F \subseteq Slots("frame")
    BY <1>1 DEF Heap
  <2> QED
    BY <1>1, <1>2, <2>1, <2>2, BitsGrown
<1>9. Grow(I, H, V, F, I \cup {i}, H, V, F)
  BY <1>1, <1>2, <1>3, <1>8 DEF Grow, Heap, ItemIn, HashesIn, VectorsIn, FramesIn, FrameIn
<1> QED
  BY <1>6, <1>7, <1>9, Grows

-----------------------------------------------------------------------------
(* What a step does to the stacks.                                         *)
StackIn(p, J) ==
  /\ stack' \in Seq(Or0("item")) /\ Len(stack') <= MaxStack /\ p \in 0 .. Len(stack) /\ p <= Len(stack')
  /\ \A n \in 1 .. p : stack'[n] = stack[n]
  /\ \A n \in p + 1 .. Len(stack') : stack'[n] # Null => stack'[n] \in J

LEMMA StackStays ==
  ASSUME NEW I, NEW H, NEW V, NEW F, NEW fr, Runs(I, H, V, F, fr), stack' = stack,
         NEW J, I \subseteq J, NEW p \in 0 .. Len(stack)
  PROVE  StackIn(p, J)
<1>1. \A n \in 1 .. Len(stack) : stack[n] # Null => stack[n] \in I
  BY DEF Runs, Safe, RootsIn
<1>2. stack \in Seq(Or0("item")) /\ Len(stack) \in Nat /\ Len(stack) <= MaxStack
  BY DEF Runs, Typed, Safe, Stacked
<1> QED
  BY <1>1, <1>2 DEF StackIn

LEMMA StackPuts ==
  ASSUME Typed, NEW x \in Or0("item"), NEW J, x # Null => x \in J, Len(stack) < MaxStack, stack' = Append(stack, x)
  PROVE  StackIn(Len(stack), J) /\ Len(stack') = Len(stack) + 1 /\ stack'[Len(stack) + 1] = x
<1>1. stack \in Seq(Or0("item")) /\ Len(stack) \in Nat
  BY DEF Typed
<1>2. stack' \in Seq(Or0("item")) /\ Len(stack') = Len(stack) + 1
      /\ \A n \in 1 .. Len(stack) : stack'[n] = stack[n]
  BY <1>1
<1>3. stack'[Len(stack) + 1] = x
  BY <1>1
<1>4. \A n \in Len(stack) + 1 .. Len(stack') : stack'[n] = x
  BY <1>1, <1>2, <1>3
<1> QED
  BY <1>1, <1>2, <1>3, <1>4, MkGcAssumption DEF StackIn

LEMMA StackCuts ==
  ASSUME Typed, Len(stack) <= MaxStack, NEW p \in 0 .. Len(stack), stack' = SubSeq(stack, 1, p), NEW J
  PROVE  StackIn(p, J) /\ Len(stack') = p
<1>1. stack \in Seq(Or0("item")) /\ Len(stack) \in Nat
  BY DEF Typed
<1>2. stack' \in Seq(Or0("item")) /\ Len(stack') = p /\ \A n \in 1 .. p : stack'[n] = stack[n]
  BY <1>1
<1> QED
  BY <1>1, <1>2, MkGcAssumption DEF StackIn

LEMMA AppendIs ==
  ASSUME NEW S, NEW s \in Seq(S), NEW x \in S
  PROVE  /\ Append(s, x) \in Seq(S) /\ Len(Append(s, x)) = Len(s) + 1
         /\ \A n \in 1 .. Len(s) : Append(s, x)[n] = s[n]
         /\ Append(s, x)[Len(s) + 1] = x
OBVIOUS

LEMMA StackSwaps ==
  ASSUME Typed, Len(stack) >= 1, Len(stack) <= MaxStack, NEW x \in Or0("item"), NEW J, x # Null => x \in J,
         stack' = Append(Popped(1), x)
  PROVE  StackIn(Len(stack) - 1, J) /\ Len(stack') = Len(stack) /\ stack'[Len(stack)] = x
<1> DEFINE p == Len(stack) - 1
           s == Popped(1)
<1>1. stack \in Seq(Or0("item")) /\ Len(stack) \in Nat /\ p \in Nat /\ p + 1 = Len(stack)
  BY DEF Typed
<1>2. s \in Seq(Or0("item")) /\ Len(s) = p /\ \A n \in 1 .. p : s[n] = stack[n]
  BY <1>1 DEF Popped
<1> HIDE DEF s, p
<1>3. stack' = Append(s, x)
  BY DEF s
<1>4. stack' \in Seq(Or0("item")) /\ Len(stack') = p + 1 /\ \A n \in 1 .. p : stack'[n] = s[n]
  <2>1. /\ Append(s, x) \in Seq(Or0("item")) /\ Len(Append(s, x)) = Len(s) + 1
        /\ \A n \in 1 .. Len(s) : Append(s, x)[n] = s[n]
        /\ Append(s, x)[Len(s) + 1] = x
    BY <1>2, AppendIs
  <2> QED
    BY <1>2, <1>3, <2>1
<1>5. stack'[p + 1] = x
  <2>1. Append(s, x)[Len(s) + 1] = x
    BY <1>2, AppendIs
  <2> QED
    BY <1>2, <1>3, <2>1
<1>6. \A n \in p + 1 .. Len(stack') : stack'[n] = x
  BY <1>1, <1>4, <1>5
<1>7. p <= Len(stack) /\ p <= Len(stack')
  BY <1>1, <1>4
<1>a. Len(stack') <= MaxStack
  BY <1>1, <1>4
<1>8. StackIn(p, J)
  BY <1>1, <1>2, <1>4, <1>6, <1>7, <1>a DEF StackIn
<1>9. p = Len(stack) - 1
  BY DEF p
<1> QED
  BY <1>1, <1>4, <1>5, <1>8, <1>9

LEMMA StacksAre ==
  ASSUME NEW I, NEW H, NEW V, NEW F, NEW fr, Runs(I, H, V, F, fr)
  PROVE  /\ Len(native) \in Nat \ {0} /\ Len(stack) \in Nat /\ Len(stack) <= MaxStack /\ fr[Len(native)] = cur
         /\ native[1].op = "body"
         /\ \A k \in 1 .. Len(native) : native[k].base \in Nat /\ Needs(native[k].op) \in {0, 1}
         /\ Top.base \in 0 .. MaxStack /\ Top.base + Needs(Top.op) <= Len(stack) /\ Top = native[Len(native)]
         /\ \A k \in 1 .. Len(native) : native[k].base + Needs(native[k].op) <= Top.base + Needs(Top.op)
         /\ \A k \in 1 .. Len(native) - 1 : native[k].base + Needs(native[k].op) <= Top.base
         /\ Len(native) > 1 =>
              IF Top.op \in Framed THEN frame[cur].previous = fr[Len(native) - 1] ELSE fr[Len(native) - 1] = cur
         /\ Top.op \notin {"assign", "array", "init"} =>
              \A k \in 1 .. Len(native) - 1 : native[k].op # "array"
<1>1. Typed /\ Chained(fr, F) /\ Stacked /\ InC(fr, V)
  BY DEF Runs, Safe
<1>2. /\ Len(native) \in Nat \ {0} /\ Len(stack) \in Nat /\ Top = native[Len(native)] /\ Top.base \in 0 .. MaxStack
      /\ Len(native) \in 1 .. Len(native)
  BY <1>1, RecordsAre
<1>3. \A k \in 1 .. Len(native) : native[k].base \in Nat /\ Needs(native[k].op) \in {0, 1}
  BY <1>1, EntriesAre DEF Typed, Needs
<1>4. fr[Len(native)] = cur /\ native[1].op = "body"
  BY <1>1 DEF Chained
<1>5. Top.base + Needs(Top.op) <= Len(stack) /\ Len(stack) <= MaxStack
  BY <1>1, <1>2 DEF Stacked
<1>6. \A k \in 1 .. Len(native) - 1 : native[k].base + Needs(native[k].op) <= Top.base
  <2>1. ASSUME NEW k \in 1 .. Len(native) - 1 PROVE native[k].base + Needs(native[k].op) <= Top.base
    <3>1. k \in 1 .. Len(native) /\ k < Len(native)
      BY <1>2
    <3> QED
      BY <1>1, <1>2, <3>1 DEF Stacked
  <2> QED
    BY <2>1
<1>7. ASSUME NEW k \in 1 .. Len(native) PROVE native[k].base + Needs(native[k].op) <= Top.base + Needs(Top.op)
  <2>1. CASE k = Len(native)
    BY <1>2, <1>3, <2>1
  <2>2. CASE k # Len(native)
    <3>1. k \in 1 .. Len(native) - 1 /\ Needs(Top.op) \in {0, 1}
      BY <1>2, <1>3, <2>2
    <3>2. native[k].base \in Nat /\ Needs(native[k].op) \in {0, 1} /\ Top.base \in Nat
      BY <1>2, <1>3
    <3> QED
      BY <1>6, <3>1, <3>2
  <2> QED
    BY <2>1, <2>2
<1>8. Len(native) > 1 =>
        IF Top.op \in Framed THEN frame[cur].previous = fr[Len(native) - 1] ELSE fr[Len(native) - 1] = cur
  <2>1. Len(native) > 1 => Len(native) \in 2 .. Len(native)
    BY <1>2
  <2> QED
    BY <1>1, <1>2, <1>4, <2>1 DEF Chained
<1>9. ASSUME Top.op \notin {"assign", "array", "init"}, NEW k \in 1 .. Len(native) - 1, native[k].op = "array"
      PROVE  FALSE
  <2>1. k \in 1 .. Len(native) /\ Len(native) \in k + 1 .. Len(native)
    BY <1>2
  <2> QED
    BY <1>1, <1>2, <1>9, <2>1 DEF InC, Kept
<1> QED
  BY <1>2, <1>3, <1>4, <1>5, <1>6, <1>7, <1>8, <1>9

LEMMA InitsStay ==
  ASSUME NEW I, NEW H, NEW V, NEW F, NEW fr, Runs(I, H, V, F, fr),
         \A h \in H : hash'[h]["super"] = hash[h]["super"],
         NEW k \in 1 .. Len(native), native[k].op = "init"
  PROVE  hash'[item[native[k].obj].hash]["super"] = Null
<1>1. Typed /\ Heap(I, H, V, F) /\ Chained(fr, F) /\ InC(fr, V)
  BY DEF Runs, Safe
<1>2. /\ frame[fr[k]].this = native[k].obj /\ item[native[k].obj].type = "class"
      /\ hash[item[native[k].obj].hash]["super"] = Null
  BY <1>1 DEF InC, Kept
<1>3. native[k].obj \in Slots("item")
  BY <1>1 DEF Typed, Holds
<1>4. native[k].obj # Null /\ fr[k] \in F
  <2>1. native[k].obj # Null
    BY <1>3, SlotsAre DEF Null
  <2>2. fr \in [1 .. Len(native) -> F]
    BY <1>1 DEF Chained
  <2> QED
    BY <2>1, <2>2
<1>5. native[k].obj \in I
  BY <1>1, <1>2, <1>4 DEF Heap, FramesIn, FrameIn
<1>6. item[native[k].obj].hash # Null
  BY <1>1, <1>2, <1>3 DEF Typed, Shape
<1>7. item[native[k].obj].hash \in H
  BY <1>1, <1>5, <1>6 DEF Heap, ItemsIn, ItemIn
<1> QED
  BY <1>2, <1>7

LEMMA RootsAreIn ==
  ASSUME NEW I, NEW H, NEW V, NEW F, NEW fr, Runs(I, H, V, F, fr), NEW J, I \subseteq J, NEW p, StackIn(p, J)
  PROVE  \A n \in 1 .. Len(stack') : stack'[n] # Null => stack'[n] \in J
<1>1. \A n \in 1 .. Len(stack) : stack[n] # Null => stack[n] \in I
  BY DEF Runs, Safe, RootsIn
<1>2. Len(stack) \in Nat
  BY DEF Runs, Typed
<1>3. ASSUME NEW n \in 1 .. Len(stack'), stack'[n] # Null PROVE stack'[n] \in J
  <2>1. CASE n <= p
    <3>1. n \in 1 .. p /\ n \in 1 .. Len(stack)
      BY <1>2, <2>1 DEF StackIn
    <3> QED
      BY <1>1, <1>3, <3>1 DEF StackIn
  <2>2. CASE n > p
    <3>1. n \in p + 1 .. Len(stack')
      BY <1>2, <2>2 DEF StackIn
    <3> QED
      BY <1>3, <3>1 DEF StackIn
  <2> QED
    BY <1>2, <2>1, <2>2 DEF StackIn
<1> QED
  BY <1>3

LEMMA BasesAreBelow ==
  ASSUME NEW I, NEW H, NEW V, NEW F, NEW fr, Runs(I, H, V, F, fr),
         NEW p \in Nat, Top.base + Needs(Top.op) <= p
  PROVE  \A k \in 1 .. Len(native) : native[k].base + Needs(native[k].op) <= p
<1>1. SUFFICES ASSUME NEW k \in 1 .. Len(native) PROVE native[k].base + Needs(native[k].op) <= p
  OBVIOUS
<1>2. native[k].base \in Nat /\ Needs(native[k].op) \in {0, 1}
  BY StacksAre
<1>3. native[k].base + Needs(native[k].op) <= Top.base + Needs(Top.op)
  BY StacksAre
<1>4. Top.base \in Nat /\ Needs(Top.op) \in {0, 1}
  BY StacksAre DEF Needs
<1> QED
  BY <1>2, <1>3, <1>4

(* The calls of the evaluator stay as they are.                            *)
LEMMA CallsStay ==
  ASSUME NEW I, NEW H, NEW V, NEW F, NEW fr, Runs(I, H, V, F, fr),
         NEW J, NEW K, NEW W, NEW G, HeapGrown(I, H, V, F, J, K, W, G),
         NEW p, StackIn(p, J), Top.base + Needs(Top.op) <= p,
         UNCHANGED <<native, cur, exception, gc, todo>>
  PROVE  GInv'
<1> DEFINE q == Len(native)
<1>1. HeapMoves(I, H, V, F, J, K, W, G) /\ Typed /\ gc = "off" /\ Safe(I, H, V, F, fr)
  BY DEF HeapGrown, Runs
<1>2. q \in Nat \ {0} /\ Len(native') = q /\ p \in Nat /\ Len(stack) \in Nat /\ native' = native
  BY StacksAre DEF StackIn
<1>3. I \subseteq J /\ F \subseteq G
  BY <1>1 DEF HeapMoves, Persists
<1>4. Stays(q, p)
  <2>1. \A k \in 1 .. q : native[k].base + Needs(native[k].op) <= p
    BY <1>2, BasesAreBelow
  <2>2. \A k \in 1 .. q : native[k].op = "init" => hash'[item[native[k].obj].hash]["super"] = Null
    BY InitsStay DEF HeapGrown
  <2> HIDE DEF q
  <2> QED
    BY <1>2, <2>1, <2>2 DEF Stays, StackIn
<1>5. Link(q, fr)
  BY <1>2, StacksAre DEF Link
<1>6. RootsMove(J, G)
  BY <1>1, <1>3, RootsAreIn DEF RootsMove, StackIn, Safe, RootsIn, Typed
<1>7. Pushed(q, p, fr, I, W)
  BY <1>2 DEF Pushed
<1> HIDE DEF q
<1> QED
  BY <1>1, <1>4, <1>5, <1>6, <1>7, Steps

(* The innermost returns.                                                  *)
LEMMA CallEnds ==
  ASSUME NEW I, NEW H, NEW V, NEW F, NEW fr, Runs(I, H, V, F, fr),
         NEW J, NEW K, NEW W, NEW G, HeapGrown(I, H, V, F, J, K, W, G),
         NEW p, StackIn(p, J), Top.base <= p, Len(native) > 1, native' = Left,
         cur' = IF Top.op \in Framed THEN frame[cur].previous ELSE cur,
         UNCHANGED <<exception, gc, todo>>
  PROVE  GInv'
<1> DEFINE q == Len(native) - 1
<1>1. HeapMoves(I, H, V, F, J, K, W, G) /\ Typed /\ gc = "off" /\ Safe(I, H, V, F, fr)
  BY DEF HeapGrown, Runs
<1>2. /\ q \in Nat \ {0} /\ p \in Nat /\ Len(stack) \in Nat
      /\ native' \in Seq(EntrySet) /\ Len(native') = q /\ \A k \in 1 .. q : native'[k] = native[k]
  BY <1>1, StacksAre DEF StackIn, Typed, Left
<1>3. I \subseteq J /\ F \subseteq G
  BY <1>1 DEF HeapMoves, Persists
<1>4. Stays(q, p)
  <2>1. \A k \in 1 .. q : native[k].base + Needs(native[k].op) <= p
    <3>1. SUFFICES ASSUME NEW k \in 1 .. q PROVE native[k].base + Needs(native[k].op) <= p
      OBVIOUS
    <3>2. k \in 1 .. Len(native) /\ k \in 1 .. Len(native) - 1
      BY <1>2
    <3>3. native[k].base \in Nat /\ Needs(native[k].op) \in {0, 1}
      BY <3>2, StacksAre
    <3>4. native[k].base + Needs(native[k].op) <= Top.base
      BY <3>2, StacksAre
    <3>5. Top.base \in Nat /\ p \in Nat /\ Top.base <= p
      BY <1>2, StacksAre
    <3> QED
      BY <3>3, <3>4, <3>5
  <2>2. \A k \in 1 .. q : native[k].op = "init" => hash'[item[native[k].obj].hash]["super"] = Null
    BY <1>2, InitsStay DEF HeapGrown
  <2>3. q \in 1 .. Len(native)
    BY <1>2
  <2> HIDE DEF q
  <2> QED
    BY <1>2, <2>1, <2>2, <2>3 DEF Stays, StackIn
<1>5. cur' = fr[q]
  BY StacksAre
<1>6. Link(q, fr)
  BY <1>2, <1>5 DEF Link
<1>7. cur' \in G
  <2>1. fr[q] \in F
    BY <1>1, <1>2 DEF Safe, Chained
  <2> QED
    BY <1>3, <1>5, <2>1
<1>8. RootsMove(J, G)
  BY <1>1, <1>2, <1>3, <1>7, RootsAreIn DEF RootsMove, StackIn, Safe, RootsIn, Typed
<1>9. Pushed(q, p, fr, I, W)
  BY <1>2 DEF Pushed
<1> HIDE DEF q
<1> QED
  BY <1>1, <1>4, <1>6, <1>8, <1>9, Steps

(* One more begins, in the same frame.                                     *)
LEMMA CallBegins ==
  ASSUME NEW I, NEW H, NEW V, NEW F, NEW fr, Runs(I, H, V, F, fr),
         NEW J, NEW K, NEW W, NEW G, HeapGrown(I, H, V, F, J, K, W, G),
         NEW p, StackIn(p, J), Top.base + Needs(Top.op) <= p,
         NEW r, native' = Append(native, r), r.op \notin Framed,
         NewEntry(r, Len(native) + 1, Len(native), p, fr, I, W),
         UNCHANGED <<cur, exception, gc, todo>>
  PROVE  GInv'
<1> DEFINE q == Len(native)
<1>1. HeapMoves(I, H, V, F, J, K, W, G) /\ Typed /\ gc = "off" /\ Safe(I, H, V, F, fr)
  BY DEF HeapGrown, Runs
<1>2. q \in Nat \ {0} /\ p \in Nat /\ Len(stack) \in Nat /\ r \in EntrySet
  BY StacksAre DEF StackIn, NewEntry
<1>3. /\ native' \in Seq(EntrySet) /\ Len(native') = q + 1 /\ \A k \in 1 .. q : native'[k] = native[k]
      /\ native'[q + 1] = r
  BY <1>1, <1>2 DEF Typed
<1>4. I \subseteq J /\ F \subseteq G
  BY <1>1 DEF HeapMoves, Persists
<1>5. Stays(q, p)
  <2>1. \A k \in 1 .. q : native[k].base + Needs(native[k].op) <= p
    BY <1>2, BasesAreBelow
  <2>2. \A k \in 1 .. q : native[k].op = "init" => hash'[item[native[k].obj].hash]["super"] = Null
    BY InitsStay DEF HeapGrown
  <2> HIDE DEF q
  <2> QED
    BY <1>2, <1>3, <2>1, <2>2 DEF Stays, StackIn
<1>6. \A k \in q + 1 .. Len(native') : k = q + 1
  BY <1>2, <1>3
<1>7. Link(q, fr)
  BY <1>3, <1>6, StacksAre DEF Link
<1>8. RootsMove(J, G)
  BY <1>1, <1>3, <1>4, RootsAreIn DEF RootsMove, StackIn, Safe, RootsIn, Typed
<1>9. Pushed(q, p, fr, I, W)
  BY <1>3, <1>6 DEF Pushed
<1> HIDE DEF q
<1> QED
  BY <1>1, <1>5, <1>7, <1>8, <1>9, Steps

(* The innermost becomes that of a body, in a frame of its own.            *)
LEMMA CallTurns ==
  ASSUME NEW I, NEW H, NEW V, NEW F, NEW fr, Runs(I, H, V, F, fr),
         NEW J, NEW K, NEW W, NEW G, HeapGrown(I, H, V, F, J, K, W, G),
         NEW p, StackIn(p, J), Top.base = p, Top.op \in {"args", "invoke", "catch"},
         NEW r, native' = Append(Left, r), r \in {Body(p), Handler(p)},
         cur' \in G, frame'[cur'].previous = cur,
         exception' = exception \/ exception' = Null,
         UNCHANGED <<gc, todo>>
  PROVE  GInv'
<1> DEFINE q == Len(native) - 1
           s == Left
<1>1. HeapMoves(I, H, V, F, J, K, W, G) /\ Typed /\ gc = "off" /\ Safe(I, H, V, F, fr)
  BY DEF HeapGrown, Runs
<1>2. /\ r.op \in {"body", "handler"} /\ r.base = p /\ r.obj = Null
      /\ r = [op |-> r.op, base |-> p, obj |-> Null]
  BY DEF Body, Handler
<1>3. r \in EntrySet
  <2>1. p \in 0 .. MaxStack
    BY StacksAre
  <2> QED
    BY <1>2, <2>1 DEF EntrySet, Null
<1>4. Len(native) # 1 /\ q \in Nat \ {0} /\ p \in Nat /\ Len(stack) \in Nat /\ Len(native) = q + 1
  <2>1. Len(native) # 1
    BY StacksAre
  <2> QED
    BY <2>1, StacksAre DEF StackIn
<1>5. s \in Seq(EntrySet) /\ Len(s) = q /\ \A k \in 1 .. q : s[k] = native[k]
  BY <1>1, <1>4 DEF Typed, Left
<1> HIDE DEF s, q
<1>6. /\ native' \in Seq(EntrySet) /\ Len(native') = q + 1 /\ \A k \in 1 .. q : native'[k] = native[k]
      /\ native'[q + 1] = r
  <2>1. native' = Append(s, r)
    BY DEF s
  <2>2. native' \in Seq(EntrySet) /\ Len(native') = q + 1
    BY <1>3, <1>5, <2>1
  <2>3. ASSUME NEW k \in 1 .. q PROVE native'[k] = native[k]
    BY <1>4, <1>5, <2>1
  <2>4. native'[q + 1] = r
    BY <1>4, <1>5, <2>1
  <2> QED
    BY <2>2, <2>3, <2>4
<1>7. I \subseteq J /\ F \subseteq G
  BY <1>1 DEF HeapMoves, Persists
<1>8. Stays(q, p)
  <2>1. \A k \in 1 .. q : native[k].base + Needs(native[k].op) <= p
    BY StacksAre DEF q
  <2>2. \A k \in 1 .. q : native[k].op = "init" => hash'[item[native[k].obj].hash]["super"] = Null
    BY <1>4, InitsStay DEF HeapGrown
  <2>3. q \in 1 .. Len(native)
    BY <1>4
  <2> QED
    BY <1>4, <1>6, <2>1, <2>2, <2>3 DEF Stays, StackIn
<1>9. \A k \in q + 1 .. Len(native') : k = q + 1
  BY <1>4, <1>6
<1>10. fr[q] = cur
  <2>1. Len(native) > 1 /\ Top.op \notin Framed
    BY <1>4 DEF Framed
  <2> QED
    BY <2>1, StacksAre DEF q
<1>11. Link(q, fr)
  BY <1>2, <1>4, <1>6, <1>9, <1>10 DEF Link, Framed
<1>12. RootsMove(J, G)
  <2>1. exception' \in Or0("item") /\ (exception' # Null => exception' \in J)
    BY <1>1, <1>7 DEF Safe, RootsIn, Typed, Or0
  <2> QED
    BY <1>6, <2>1, RootsAreIn, <1>7 DEF RootsMove, StackIn
<1>13. NewEntry(r, q + 1, q, p, fr, I, W)
  <2>1. \A m \in 1 .. q : native[m].op # "array"
    BY StacksAre DEF q
  <2>2. p + Needs(r.op) <= Len(stack') /\ Needs(r.op) = 0
    BY <1>2, <1>4 DEF StackIn, Needs
  <2> QED
    BY <1>2, <1>3, <2>1, <2>2 DEF NewEntry
<1>14. Pushed(q, p, fr, I, W)
  BY <1>6, <1>9, <1>13 DEF Pushed
<1> QED
  BY <1>1, <1>8, <1>11, <1>12, <1>14, Steps

-----------------------------------------------------------------------------
(* Operands, scopes and members.                                           *)
LEMMA OperandsAre ==
  ASSUME NEW I, NEW H, NEW V, NEW F, NEW fr, Runs(I, H, V, F, fr)
  PROVE  /\ \A n \in 1 .. Len(stack) : stack[n] \in Or0("item") /\ (stack[n] # Null => stack[n] \in I)
         /\ Operand(0) = stack[Len(stack)] /\ Operand(1) = stack[Len(stack) - 1]
         /\ Operands = Len(stack) - Top.base
         /\ Evaluated => Len(stack) \in 1 .. Len(stack) /\ Top.base + Needs(Top.op) <= Len(stack) - 1 /\ Top.op # "catch"
         /\ Awaited => Top.base + Needs(Top.op) = Len(stack)
<1>1. \A n \in 1 .. Len(stack) : stack[n] # Null => stack[n] \in I
  BY DEF Runs, Safe, RootsIn
<1>2. \A n \in 1 .. Len(stack) : stack[n] \in Or0("item")
  BY DEF Runs, Typed
<1>3. Len(stack) \in Nat /\ Top.base \in Nat
  BY StacksAre
<1>4. Operand(0) = stack[Len(stack)] /\ Operand(1) = stack[Len(stack) - 1]
  BY <1>3 DEF Operand
<1>5. Evaluated => Len(stack) \in 1 .. Len(stack) /\ Top.base + Needs(Top.op) <= Len(stack) - 1 /\ Top.op # "catch"
  BY <1>3 DEF Evaluated, Operands, Needs
<1>6. Awaited => Top.base + Needs(Top.op) = Len(stack)
  BY <1>3 DEF Awaited, Operands, Needs
<1> QED
  BY <1>1, <1>2, <1>4, <1>5, <1>6 DEF Operands

LEMMA ItemsLead ==
  ASSUME NEW I, NEW H, NEW V, NEW F, NEW fr, Runs(I, H, V, F, fr), NEW i \in I
  PROVE  /\ i \in Slots("item") /\ i # Null
         /\ item[i].type \in {"class", "ref"} => item[i].hash \in H
         /\ item[i].type \in {"array", "refarray"} => item[i].vector \in V
         /\ item[i].type = "node" => item[i].frame \in F
         /\ item[i].item \in Or0("item") /\ (item[i].item # Null => item[i].item \in I)
<1>1. Typed /\ Heap(I, H, V, F)
  BY DEF Runs, Safe
<1>2. i \in Slots("item") /\ i # Null
  BY <1>1, SlotsAre DEF Heap, Null
<1>3. Shape(item[i]) /\ item[i].item \in Or0("item")
  BY <1>1, <1>2, RecordsAre
<1> QED
  BY <1>1, <1>2, <1>3 DEF Shape, Heap, ItemsIn, ItemIn

LEMMA HashesLead ==
  ASSUME NEW I, NEW H, NEW V, NEW F, NEW fr, Runs(I, H, V, F, fr), NEW h \in H, NEW k \in Keys
  PROVE  /\ h \in Slots("hash") /\ h # Null /\ hash[h][k] \in Or0("item") \cup {Absent}
         /\ hash[h][k] > Null => hash[h][k] \in I
         /\ hash[h][k] # Absent => hash[h][k] \in Or0("item") /\ (hash[h][k] # Null => hash[h][k] \in I)
<1>1. Typed /\ Heap(I, H, V, F)
  BY DEF Runs, Safe
<1>2. h \in Slots("hash") /\ h # Null
  BY <1>1, SlotsAre DEF Heap, Null
<1>3. hash[h][k] \in Or0("item") \cup {Absent}
  BY <1>1, <1>2, RecordsAre
<1>4. hash[h][k] > Null => hash[h][k] \in I
  BY <1>1 DEF Heap, HashesIn
<1>5. hash[h][k] \in Or0("item") /\ hash[h][k] # Null => hash[h][k] > Null
  BY SlotsAre DEF Or0, Null
<1> QED
  BY <1>2, <1>3, <1>4, <1>5

LEMMA FramesLead ==
  ASSUME NEW I, NEW H, NEW V, NEW F, NEW fr, Runs(I, H, V, F, fr), NEW f \in F
  PROVE  /\ f \in Slots("frame") /\ f # Null
         /\ frame[f].this \in Or0("item") /\ (frame[f].this # Null => frame[f].this \in I)
         /\ frame[f].locals \in Or0("hash") /\ (frame[f].locals # Null => frame[f].locals \in H)
         /\ frame[f].owner \in Or0("frame") /\ (frame[f].owner # Null => frame[f].owner \in F)
         /\ frame[f].previous \in Or0("frame") /\ (frame[f].previous # Null => frame[f].previous \in F)
         /\ frame[f].last \in Or0("item") /\ (frame[f].hasLast /\ frame[f].last # Null => frame[f].last \in I)
<1>1. Typed /\ Heap(I, H, V, F)
  BY DEF Runs, Safe
<1>2. f \in Slots("frame") /\ f # Null
  BY <1>1, SlotsAre DEF Heap, Null
<1> QED
  BY <1>1, <1>2, RecordsAre DEF Heap, FramesIn, FrameIn

LEMMA RootsAre ==
  ASSUME NEW I, NEW H, NEW V, NEW F, NEW fr, Runs(I, H, V, F, fr)
  PROVE  /\ Typed /\ Heap(I, H, V, F) /\ RootsIn(I, H, F) /\ gc = "off"
         /\ cur \in F /\ Static \in I /\ Global \in H
         /\ "super" \in Keys /\ "x" \in Keys /\ "Kernel" \in Keys
         /\ exception \in Or0("item") /\ (exception # Null => exception \in I)
BY KeysAre DEF Runs, Safe, RootsIn, Typed

LEMMA ScopeIs ==
  ASSUME NEW I, NEW H, NEW V, NEW F, NEW fr, Runs(I, H, V, F, fr), NEW k \in Keys
  PROVE  /\ ScopeOf(k) # Null => /\ ScopeOf(k) \in H /\ hash[ScopeOf(k)][k] # Absent
                                 /\ \/ ScopeOf(k) = frame[cur].locals
                                    \/ /\ frame[cur].owner # Null
                                       /\ ScopeOf(k) = frame[frame[cur].owner].locals
         /\ ScopeOf(k) = Null => frame[cur].locals = Null \/ hash[frame[cur].locals][k] = Absent
<1>1. cur \in F
  BY RootsAre
<1>2. frame[cur].locals # Null => frame[cur].locals \in H
  BY <1>1, FramesLead
<1>3. frame[cur].owner # Null => frame[cur].owner \in F
  BY <1>1, FramesLead
<1>4. OwnerLocals # Null => /\ OwnerLocals \in H /\ frame[cur].owner # Null
                            /\ OwnerLocals = frame[frame[cur].owner].locals
  BY <1>3, FramesLead DEF OwnerLocals
<1> QED
  BY <1>2, <1>4 DEF ScopeOf, Defines

LEMMA MemberIs ==
  ASSUME NEW I, NEW H, NEW V, NEW F, NEW fr, Runs(I, H, V, F, fr), NEW k \in Keys,
         NEW h \in Slots("hash"), MemberIn(k, h)
  PROVE  /\ h \in H /\ hash[h][k] # Absent
         /\ frame[cur].this \in I /\ item[frame[cur].this].type = "class"
         /\ h = item[frame[cur].this].hash \/ hash[item[frame[cur].this].hash]["super"] > Null
<1> DEFINE this == frame[cur].this
           up == hash[item[this].hash]["super"]
<1>1. IsClass(this) /\ (h = item[this].hash \/ (up > Null /\ h = item[up].hash)) /\ Defines(h, k)
  BY DEF MemberIn
<1>2. this \in I /\ item[this].type = "class"
  BY <1>1, RootsAre, FramesLead DEF IsClass
<1>3. item[this].hash \in H
  BY <1>2, ItemsLead
<1>4. up > Null => up \in I
  BY <1>3, HashesLead, RootsAre
<1>5. Heap(I, H, V, F)
  BY RootsAre
<1> HIDE DEF up, this
<1>6. up \in I /\ item[up].hash # Null => item[up].hash \in H
  BY <1>5 DEF Heap, ItemsIn, ItemIn
<1>7. h # Null
  BY SlotsAre DEF Null
<1> QED
  BY <1>1, <1>2, <1>3, <1>4, <1>6, <1>7 DEF Defines, up, this

LEMMA SuperIs ==
  ASSUME NEW I, NEW H, NEW V, NEW F, NEW fr, Runs(I, H, V, F, fr), NEW i, i # Null => i \in I,
         IsClass(i), SuperOf(i) > Null
  PROVE  SuperOf(i) \in I /\ SuperOf(i) \in Or0("item")
<1>1. i \in I /\ item[i].type = "class"
  BY DEF IsClass
<1>2. item[i].hash \in H
  BY <1>1, ItemsLead
<1>3. SuperOf(i) \in I
  BY <1>2, HashesLead, RootsAre DEF SuperOf
<1> QED
  BY <1>3, ItemsLead DEF Or0

-----------------------------------------------------------------------------
(* The steps that leave the heap as it is.                                 *)
LEMMA PushesOne ==
  ASSUME NEW I, NEW H, NEW V, NEW F, NEW fr, Runs(I, H, V, F, fr),
         NEW J, NEW K, NEW W, NEW G, HeapGrown(I, H, V, F, J, K, W, G),
         NEW x \in Or0("item"), x # Null => x \in J,
         \/ CanPush /\ stack' = Append(stack, x)
         \/ Evaluated /\ stack' = Append(Popped(1), x),
         UNCHANGED <<native, cur, exception, gc, todo>>
  PROVE  GInv'
<1>1. Typed
  BY DEF Runs
<1>2. CASE CanPush /\ stack' = Append(stack, x)
  <2>1. StackIn(Len(stack), J)
    BY <1>1, <1>2, StackPuts DEF CanPush
  <2>2. Top.base + Needs(Top.op) <= Len(stack)
    BY StacksAre
  <2> QED
    BY <2>1, <2>2, CallsStay
<1>3. CASE Evaluated /\ stack' = Append(Popped(1), x)
  <2>1. Len(stack) \in 1 .. Len(stack) /\ Top.base + Needs(Top.op) <= Len(stack) - 1
    BY <1>3, OperandsAre
  <2>2. Len(stack) >= 1 /\ Len(stack) <= MaxStack
    BY <2>1, StacksAre
  <2>3. StackIn(Len(stack) - 1, J)
    BY <1>1, <1>3, <2>2, StackSwaps
  <2> QED
    BY <2>1, <2>3, CallsStay
<1> QED
  BY <1>2, <1>3

LEMMA PushThisKeeps ==
  ASSUME NEW I, NEW H, NEW V, NEW F, NEW fr, Runs(I, H, V, F, fr), PushThis
  PROVE  GInv'
<1> DEFINE x == frame[cur].this
<1>1. x \in Or0("item") /\ (x # Null => x \in I)
  BY RootsAre, FramesLead
<1>2. CanPush /\ stack' = Append(stack, x) /\ UNCHANGED heap /\ UNCHANGED <<native, cur, exception, gc, todo>>
  BY DEF PushThis
<1>3. HeapGrown(I, H, V, F, I, H, V, F)
  BY <1>2, HeapStays
<1> HIDE DEF x
<1> QED
  BY <1>1, <1>2, <1>3, PushesOne

LEMMA PushSuperKeeps ==
  ASSUME NEW I, NEW H, NEW V, NEW F, NEW fr, Runs(I, H, V, F, fr), PushSuper
  PROVE  GInv'
<1>1. HeapGrown(I, H, V, F, I, H, V, F)
  BY HeapStays DEF PushSuper
<1>2. UNCHANGED <<native, cur, exception, gc, todo>>
  BY DEF PushSuper
<1>3. CASE /\ CanPush /\ IsClass(frame[cur].this) /\ SuperOf(frame[cur].this) > Null
           /\ stack' = Append(stack, SuperOf(frame[cur].this))
  <2> DEFINE x == SuperOf(frame[cur].this)
  <2>1. frame[cur].this # Null => frame[cur].this \in I
    BY RootsAre, FramesLead
  <2>2. x \in I /\ x \in Or0("item")
    BY <1>3, <2>1, SuperIs
  <2>3. CanPush /\ stack' = Append(stack, x)
    BY <1>3
  <2> HIDE DEF x
  <2> QED
    BY <1>1, <1>2, <2>2, <2>3, PushesOne
<1>4. CASE /\ Evaluated /\ IsClass(Operand(0)) /\ SuperOf(Operand(0)) > Null
           /\ stack' = Append(Popped(1), SuperOf(Operand(0)))
  <2> DEFINE x == SuperOf(Operand(0))
  <2>1. Operand(0) # Null => Operand(0) \in I
    BY <1>4, OperandsAre
  <2>2. x \in I /\ x \in Or0("item")
    BY <1>4, <2>1, SuperIs
  <2>3. Evaluated /\ stack' = Append(Popped(1), x)
    BY <1>4
  <2> HIDE DEF x
  <2> QED
    BY <1>1, <1>2, <2>2, <2>3, PushesOne
<1> QED
  BY <1>3, <1>4 DEF PushSuper

LEMMA PushMemberKeeps ==
  ASSUME NEW I, NEW H, NEW V, NEW F, NEW fr, Runs(I, H, V, F, fr), PushMember("x")
  PROVE  GInv'
<1>1. HeapGrown(I, H, V, F, I, H, V, F)
  BY HeapStays DEF PushMember
<1>2. UNCHANGED <<native, cur, exception, gc, todo>> /\ CanPush
  BY DEF PushMember
<1>3. PICK h \in Slots("hash") : MemberIn("x", h) /\ stack' = Append(stack, hash[h]["x"])
  BY DEF PushMember
<1>4. "x" \in Keys
  BY RootsAre
<1>5. h \in H /\ hash[h]["x"] # Absent
  BY <1>3, <1>4, MemberIs
<1>6. hash[h]["x"] \in Or0("item") /\ (hash[h]["x"] # Null => hash[h]["x"] \in I)
  BY <1>4, <1>5, HashesLead
<1> QED
  BY <1>1, <1>2, <1>3, <1>6, PushesOne

LEMMA PushElementKeeps ==
  ASSUME NEW I, NEW H, NEW V, NEW F, NEW fr, Runs(I, H, V, F, fr), NEW n, PushElement(n)
  PROVE  GInv'
<1>1. HeapGrown(I, H, V, F, I, H, V, F)
  BY HeapStays DEF PushElement
<1>2. UNCHANGED <<native, cur, exception, gc, todo>> /\ Evaluated
  BY DEF PushElement
<1> DEFINE i == Operand(0)
           v == item[i].vector
<1>3. i \in I /\ item[i].type = "array"
  BY <1>2, OperandsAre DEF PushElement
<1>4. n \in DOMAIN vector[v] /\ stack' = Append(Popped(1), vector[v][n])
  BY DEF PushElement
<1>5. v \in V
  BY <1>3, ItemsLead
<1> HIDE DEF v
<1>6. vector[v] \in Seq(Or0("item")) /\ VectorsIn(vector, I, V)
  BY <1>5, RootsAre DEF Typed, Heap
<1>7. n \in 1 .. Len(vector[v])
  BY <1>4, <1>6
<1>8. vector[v][n] \in Or0("item") /\ (vector[v][n] # Null => vector[v][n] \in I)
  BY <1>5, <1>6, <1>7 DEF VectorsIn
<1> QED
  BY <1>1, <1>2, <1>4, <1>8, PushesOne

LEMMA NoArrays ==
  ASSUME HeldElsewhere, Features \cap {"call", "invoke", "localcall"} # {},
         NEW I, NEW H, NEW V, NEW F, NEW fr, Runs(I, H, V, F, fr)
  PROVE  \A m \in 1 .. Len(native) : native[m].op # "array"
BY DEF HeldElsewhere, Runs, Safe, InC, Kept

LEMMA BeginCallKeeps ==
  ASSUME HeldElsewhere, NEW I, NEW H, NEW V, NEW F, NEW fr, Runs(I, H, V, F, fr), BeginCall \/ BeginInvoke
  PROVE  GInv'
<1>1. HeapGrown(I, H, V, F, I, H, V, F)
  BY HeapStays DEF BeginCall, BeginInvoke
<1>2. Evaluated /\ UNCHANGED <<stack, cur, exception, gc, todo>> /\ UNCHANGED heap
  BY DEF BeginCall, BeginInvoke
<1> DEFINE p == Len(stack) - 1
<1>3. p \in Nat /\ p + 1 = Len(stack) /\ p \in 0 .. Len(stack) /\ Len(stack) \in 1 .. Len(stack)
      /\ Top.base + Needs(Top.op) <= p
  BY <1>2, OperandsAre, StacksAre
<1>4. PICK r : r \in {[op |-> "args", base |-> p, obj |-> Null], [op |-> "invoke", base |-> p, obj |-> Null]}
               /\ native' = Append(native, r)
               /\ (r.op = "invoke" => Operand(0) # Null /\ item[Operand(0)].type = "node")
  BY DEF BeginCall, BeginInvoke, Entered
<1>5. StackIn(p, I)
  BY <1>2, <1>3, StackStays
<1>6. p \in 0 .. MaxStack
  BY <1>3, StacksAre, MkGcAssumption
<1> HIDE DEF p
<1>7. r.op \in {"args", "invoke"} /\ r.base = p /\ r.obj = Null /\ r \in EntrySet
  BY <1>4, <1>6 DEF EntrySet, Null
<1>8. \A m \in 1 .. Len(native) : native[m].op # "array"
  <2>1. CASE Top.op = "condition"
    BY <2>1, StacksAre
  <2>2. CASE Top.op # "condition"
    <3>1. Features \cap {"call", "invoke", "localcall"} # {}
      BY <2>2 DEF BeginCall, BeginInvoke, Uses
    <3> QED
      BY <3>1, NoArrays
  <2> QED
    BY <2>1, <2>2
<1>9. stack'[p + 1] = Operand(0) /\ item' = item
  BY <1>2, <1>3, OperandsAre DEF heap
<1>10. p + Needs(r.op) <= Len(stack')
  BY <1>2, <1>3, <1>7 DEF Needs
<1>11. NewEntry(r, Len(native) + 1, Len(native), p, fr, I, V)
  BY <1>4, <1>7, <1>8, <1>9, <1>10 DEF NewEntry, Or0, Null, Needs
<1> QED
  BY <1>1, <1>2, <1>3, <1>4, <1>5, <1>7, <1>11, CallBegins DEF Framed

LEMMA BeginLocalCallKeeps ==
  ASSUME HeldElsewhere, NEW I, NEW H, NEW V, NEW F, NEW fr, Runs(I, H, V, F, fr), BeginLocalCall("x")
  PROVE  GInv'
<1> DEFINE h == ScopeOf("x")
           i == hash[h]["x"]
           p == Len(stack)
<1>1. HeapGrown(I, H, V, F, I, H, V, F) /\ item' = item /\ hash' = hash /\ frame' = frame
  BY HeapStays DEF BeginLocalCall, heap
<1>2. CanPush /\ "localcall" \in Features /\ UNCHANGED <<cur, exception, gc, todo>> /\ h # Null
  BY DEF BeginLocalCall, Uses
<1>3. h \in H /\ i # Absent /\ (h = frame[cur].locals \/ (frame[cur].owner # Null /\ h = frame[frame[cur].owner].locals))
  BY <1>2, RootsAre, ScopeIs
<1>4. i \in I /\ item[i].type = "node"
  BY <1>3, RootsAre, HashesLead DEF BeginLocalCall
<1> DEFINE x == item[i].item
           g == item[i].frame
<1>5. x \in Or0("item") /\ (x # Null => x \in I) /\ g \in F
  BY <1>4, ItemsLead
<1>6. h \in Slots("hash") /\ hash[h]["x"] > Null
  <2>1. h \in Slots("hash") /\ i \in Slots("item")
    BY <1>3, <1>4, RootsAre, HashesLead, ItemsLead
  <2> QED
    BY <2>1, SlotsAre DEF Null
<1>7. stack' = Append(stack, x) /\ native' = Append(native, [op |-> "args", base |-> p, obj |-> g])
  BY DEF BeginLocalCall, Entered
<1>8. ByName(cur, g)
  BY <1>3, <1>4, <1>6 DEF ByName
<1>9. Typed /\ cur \in F /\ p \in Nat /\ p <= MaxStack /\ fr[Len(native)] = cur /\ F \subseteq Slots("frame")
  BY RootsAre, StacksAre DEF Heap
<1>10. PICK r : r = [op |-> "args", base |-> p, obj |-> g]
  OBVIOUS
<1>11. PICK f \in F : f = cur
  BY <1>9
<1>12. PICK obj \in F : obj = g
  BY <1>5
<1>13. ByName(f, obj)'
  BY <1>1, <1>2, <1>8, <1>11, <1>12 DEF ByName
<1> HIDE DEF x, g, h, i
<1>14. StackIn(p, I) /\ Len(stack') = p + 1
  BY <1>2, <1>5, <1>7, <1>9, StackPuts DEF CanPush
<1>15. Top.base + Needs(Top.op) <= p
  BY StacksAre
<1>16. \A m \in 1 .. Len(native) : native[m].op # "array"
  BY <1>2, NoArrays
<1>17. r \in EntrySet
  <2>1. g \in Nat /\ p \in 0 .. MaxStack
    BY <1>5, <1>9, SlotsAre, MkGcAssumption
  <2> QED
    BY <1>10, <2>1 DEF EntrySet
<1> HIDE DEF p
<1>18. NewEntry(r, Len(native) + 1, Len(native), p, fr, I, V)
  <2>1. r.op = "args" /\ r.base = p /\ r.obj = g /\ g \in Or0("frame")
    BY <1>5, <1>9, <1>10 DEF Or0
  <2>2. p + Needs(r.op) <= Len(stack')
    BY <1>9, <1>14, <2>1 DEF Needs
  <2>3. Len(native') = Len(native) + 1
    BY <1>7, <1>9 DEF Typed
  <2>4. \E ff, oo \in Slots("frame") : ff = fr[Len(native)] /\ oo = r.obj /\ ByName(ff, oo)'
    BY <1>9, <1>11, <1>12, <1>13, <2>1
  <2> QED
    BY <1>2, <1>16, <1>17, <2>1, <2>2, <2>3, <2>4 DEF NewEntry
<1>19. r.op \notin Framed /\ native' = Append(native, r)
  BY <1>7, <1>10 DEF Framed
<1> QED
  BY <1>1, <1>2, <1>14, <1>15, <1>18, <1>19, CallBegins

LEMMA ReturnKeeps ==
  ASSUME NEW I, NEW H, NEW V, NEW F, NEW fr, Runs(I, H, V, F, fr), Return, HeldElsewhere
  PROVE  GInv'
<1>1. HeapGrown(I, H, V, F, I, H, V, F)
  BY HeapStays DEF Return
<1>2. /\ Top.op \in Framed /\ Len(native) > 1 /\ native' = Left /\ cur' = frame[cur].previous
      /\ UNCHANGED <<exception, gc, todo>>
  BY DEF Return, Framed
<1>3. Typed /\ cur \in F /\ Top.base \in Nat /\ Len(stack) \in Nat /\ Len(stack) <= MaxStack
  BY RootsAre, StacksAre
<1>4. CASE Operands = 1 /\ UNCHANGED stack
  <2>1. StackIn(Len(stack), I)
    BY <1>3, <1>4, StackStays
  <2>2. Top.base <= Len(stack)
    BY <1>3, <1>4, OperandsAre
  <2> QED
    BY <1>1, <1>2, <2>1, <2>2, CallEnds
<1>5. CASE Operands = 0 /\ CanPush /\ frame[cur].hasLast /\ stack' = Append(stack, frame[cur].last)
  <2> DEFINE x == frame[cur].last
  <2>1. x \in Or0("item") /\ (x # Null => x \in I)
    BY <1>3, <1>5, FramesLead
  <2>2. stack' = Append(stack, x) /\ Len(stack) < MaxStack
    BY <1>5 DEF CanPush
  <2> HIDE DEF x
  <2>3. StackIn(Len(stack), I)
    BY <1>3, <2>1, <2>2, StackPuts
  <2>4. Top.base <= Len(stack)
    BY <1>3, <1>5, OperandsAre
  <2> QED
    BY <1>1, <1>2, <2>3, <2>4, CallEnds
<1> QED
  BY <1>4, <1>5 DEF Return, Uses, HeldElsewhere

LEMMA HandlerEndsKeeps ==
  ASSUME NEW I, NEW H, NEW V, NEW F, NEW fr, Runs(I, H, V, F, fr), HandlerEnds
  PROVE  GInv'
<1>1. HeapGrown(I, H, V, F, I, H, V, F)
  BY HeapStays DEF HandlerEnds
<1>2. /\ Top.op = "handler" /\ native' = Left /\ cur' = frame[cur].previous
      /\ UNCHANGED <<stack, exception, gc, todo>> /\ Operands = 0
  BY DEF HandlerEnds
<1>3. Typed /\ Top.base \in Nat /\ Len(stack) \in Nat /\ Len(native) \in Nat \ {0} /\ native[1].op = "body"
      /\ Top = native[Len(native)] /\ Operands = Len(stack) - Top.base
  BY RootsAre, StacksAre, OperandsAre
<1>4. Len(native) > 1
  BY <1>2, <1>3
<1>5. StackIn(Len(stack), I) /\ Top.base <= Len(stack)
  BY <1>2, <1>3, StackStays
<1> QED
  BY <1>1, <1>2, <1>4, <1>5, CallEnds DEF Framed

-----------------------------------------------------------------------------
(* The steps that make one item.                                           *)
LEMMA ItemEdited ==
  ASSUME NEW r \in ItemSet
  PROVE  /\ \A t \in ItemTypes : [r EXCEPT !.type = t] \in ItemSet
         /\ \A h \in Or0("hash") : [r EXCEPT !.hash = h] \in ItemSet
         /\ \A i \in Or0("item") : [r EXCEPT !.item = i] \in ItemSet
         /\ \A v \in Or0("vector") : [r EXCEPT !.vector = v] \in ItemSet
         /\ \A f \in Or0("frame") : [r EXCEPT !.frame = f] \in ItemSet
         /\ \A n \in 0 .. MaxLength : [r EXCEPT !.at = n] \in ItemSet
BY DEF ItemSet

LEMMA EditedItems ==
  /\ \A f \in Or0("frame"), i \in Or0("item") : Node(f, i) \in ItemSet
  /\ \A h \in Or0("hash") : Ref(h) \in ItemSet
  /\ \A v \in Or0("vector") : Array(v) \in ItemSet
  /\ \A v \in Or0("vector"), n \in 0 .. MaxLength : RefArray(v, n) \in ItemSet
  /\ \A h \in Or0("hash"), i \in Or0("item") : Class(h, i) \in ItemSet
<1>1. NoItem \in ItemSet
  BY MkGcAssumption DEF NoItem, ItemSet, ItemTypes, Null, Or0
<1> DEFINE typed(t) == [NoItem EXCEPT !.type = t]
<1>2. \A t \in ItemTypes : typed(t) \in ItemSet
  BY <1>1, ItemEdited
<1>3. "class" \in ItemTypes /\ "ref" \in ItemTypes /\ "array" \in ItemTypes /\ "refarray" \in ItemTypes /\ "node" \in ItemTypes
  BY DEF ItemTypes
<1>4. ASSUME NEW f \in Or0("frame"), NEW i \in Or0("item") PROVE Node(f, i) \in ItemSet
  <2>1. PICK a : a = typed("node")
    OBVIOUS
  <2>2. a \in ItemSet
    BY <1>2, <1>3, <2>1
  <2>3. PICK b : b = [a EXCEPT !.frame = f]
    OBVIOUS
  <2>4. b \in ItemSet
    BY <2>2, <2>3, ItemEdited
  <2>5. Node(f, i) = [b EXCEPT !.item = i]
    BY <2>1, <2>3 DEF Node
  <2> QED
    BY <2>4, <2>5, ItemEdited
<1>5. ASSUME NEW h \in Or0("hash") PROVE Ref(h) \in ItemSet
  <2>1. PICK a : a = typed("ref")
    OBVIOUS
  <2>2. Ref(h) = [a EXCEPT !.hash = h]
    BY <2>1 DEF Ref
  <2>3. a \in ItemSet
    BY <1>2, <1>3, <2>1
  <2> QED
    BY <2>2, <2>3, ItemEdited
<1>6. ASSUME NEW v \in Or0("vector") PROVE Array(v) \in ItemSet
  <2>1. PICK a : a = typed("array")
    OBVIOUS
  <2>2. Array(v) = [a EXCEPT !.vector = v]
    BY <2>1 DEF Array
  <2>3. a \in ItemSet
    BY <1>2, <1>3, <2>1
  <2> QED
    BY <2>2, <2>3, ItemEdited
<1>7. ASSUME NEW v \in Or0("vector"), NEW n \in 0 .. MaxLength PROVE RefArray(v, n) \in ItemSet
  <2>1. PICK a : a = typed("refarray")
    OBVIOUS
  <2>2. PICK b : b = [a EXCEPT !.vector = v]
    OBVIOUS
  <2>3. b \in ItemSet
    BY <1>2, <1>3, <2>1, <2>2, ItemEdited
  <2>4. RefArray(v, n) = [b EXCEPT !.at = n]
    BY <2>1, <2>2 DEF RefArray
  <2> QED
    BY <2>3, <2>4, ItemEdited
<1>8. ASSUME NEW h \in Or0("hash"), NEW i \in Or0("item") PROVE Class(h, i) \in ItemSet
  <2>1. PICK a : a = typed("class")
    OBVIOUS
  <2>2. PICK b : b = [a EXCEPT !.hash = h]
    OBVIOUS
  <2>3. b \in ItemSet
    BY <1>2, <1>3, <2>1, <2>2, ItemEdited
  <2>4. Class(h, i) = [b EXCEPT !.item = i]
    BY <2>1, <2>2 DEF Class
  <2> QED
    BY <2>3, <2>4, ItemEdited
<1> QED
  BY <1>4, <1>5, <1>6, <1>7, <1>8

LEMMA RefBegins ==
  ASSUME NEW I, NEW H, NEW V, NEW F, NEW fr, Runs(I, H, V, F, fr),
         NEW J, NEW K, NEW W, NEW G, HeapGrown(I, H, V, F, J, K, W, G),
         NEW i \in Slots("item"), i \in J, item'[i].type \in {"ref", "refarray"},
         \/ CanPush /\ stack' = Append(stack, i) /\ native' = Entered("assign", Len(stack), Null)
         \/ Evaluated /\ stack' = Append(Popped(1), i) /\ native' = Entered("assign", Len(stack) - 1, Null),
         UNCHANGED <<cur, exception, gc, todo>>
  PROVE  GInv'
<1>1. Typed /\ i \in Or0("item") /\ i # Null /\ Len(stack) \in Nat /\ Len(stack) <= MaxStack
  BY RootsAre, StacksAre, SlotsAre DEF Or0, Null
<1>2. \E p \in Nat : /\ StackIn(p, J) /\ Top.base + Needs(Top.op) <= p /\ p + 1 = Len(stack') /\ stack'[p + 1] = i
                     /\ p <= MaxStack /\ native' = Append(native, [op |-> "assign", base |-> p, obj |-> Null])
  <2>1. CASE CanPush /\ stack' = Append(stack, i) /\ native' = Entered("assign", Len(stack), Null)
    <3>1. StackIn(Len(stack), J) /\ Len(stack') = Len(stack) + 1 /\ stack'[Len(stack) + 1] = i
      BY <1>1, <2>1, StackPuts DEF CanPush
    <3>2. Top.base + Needs(Top.op) <= Len(stack)
      BY StacksAre
    <3>3. native' = Append(native, [op |-> "assign", base |-> Len(stack), obj |-> Null])
      BY <2>1 DEF Entered
    <3> QED
      BY <1>1, <3>1, <3>2, <3>3
  <2>2. CASE Evaluated /\ stack' = Append(Popped(1), i) /\ native' = Entered("assign", Len(stack) - 1, Null)
    <3>1. Len(stack) >= 1 /\ Top.base + Needs(Top.op) <= Len(stack) - 1
      BY <1>1, <2>2, OperandsAre
    <3>2. StackIn(Len(stack) - 1, J) /\ Len(stack') = Len(stack) /\ stack'[Len(stack)] = i
      BY <1>1, <2>2, <3>1, StackSwaps
    <3>3. native' = Append(native, [op |-> "assign", base |-> Len(stack) - 1, obj |-> Null])
      BY <2>2 DEF Entered
    <3>4. Len(stack) - 1 \in Nat /\ (Len(stack) - 1) + 1 = Len(stack) /\ Len(stack) - 1 <= MaxStack
      BY <1>1, <3>1, MkGcAssumption
    <3> QED
      BY <3>1, <3>2, <3>3, <3>4
  <2> QED
    BY <2>1, <2>2
<1>3. PICK p \in Nat : /\ StackIn(p, J) /\ Top.base + Needs(Top.op) <= p /\ p + 1 = Len(stack') /\ stack'[p + 1] = i
                       /\ p <= MaxStack /\ native' = Append(native, [op |-> "assign", base |-> p, obj |-> Null])
  BY <1>2
<1>4. PICK r : r = [op |-> "assign", base |-> p, obj |-> Null]
  OBVIOUS
<1>5. r.op = "assign" /\ r.base = p /\ r.obj = Null /\ r \in EntrySet
  BY <1>3, <1>4, MkGcAssumption DEF EntrySet, Null
<1>6. Len(native') = Len(native) + 1
  BY <1>1, <1>3 DEF Typed
<1>7. NewEntry(r, Len(native) + 1, Len(native), p, fr, I, W)
  BY <1>1, <1>3, <1>5, <1>6 DEF NewEntry, Needs
<1>8. r.op \notin Framed /\ native' = Append(native, r)
  BY <1>3, <1>4, <1>5 DEF Framed
<1> QED
  BY <1>3, <1>7, <1>8, CallBegins

LEMMA PushValueKeeps ==
  ASSUME NEW I, NEW H, NEW V, NEW F, NEW fr, Runs(I, H, V, F, fr), PushValue
  PROVE  GInv'
<1>1. PICK i \in Slots("item") : NewItem(i, Value) /\ stack' = Append(stack, i)
  BY DEF PushValue
<1>2. CanPush /\ UNCHANGED <<native, cur, exception, gc, todo>> /\ UNCHANGED <<hash, vector, frame>>
  BY DEF PushValue
<1>3. Value \in ItemSet /\ Shape(Value) /\ Made(Value) /\ Value.type \notin {"class", "ref"} /\ ItemIn(Value, I, H, V, F)
  BY MkGcAssumption DEF Value, NoItem, ItemSet, ItemTypes, Shape, Made, ItemIn, Null, Or0
<1>4. HeapGrown(I, H, V, F, I \cup {i}, H, V, F)
  BY <1>1, <1>2, <1>3, ItemMade
<1> QED
  BY <1>1, <1>2, <1>4, PushesOne DEF Or0

LEMMA PushNodeKeeps ==
  ASSUME HeldElsewhere, NEW I, NEW H, NEW V, NEW F, NEW fr, Runs(I, H, V, F, fr), PushNode
  PROVE  GInv'
<1> DEFINE r == Node(cur, frame[cur].this)
<1>1. PICK i \in Slots("item") : NewItem(i, r) /\ stack' = Append(stack, i)
  BY DEF PushNode
<1>2. CanPush /\ "node" \in Features /\ UNCHANGED <<native, cur, exception, gc, todo>> /\ UNCHANGED <<hash, vector, frame>>
  BY DEF PushNode, Uses
<1>3. /\ cur \in F /\ cur \in Slots("frame") /\ cur # Null
      /\ frame[cur].this \in Or0("item") /\ (frame[cur].this # Null => frame[cur].this \in I)
  BY RootsAre, FramesLead
<1>4. /\ r.type = "node" /\ r.hash = Null /\ r.vector = Null /\ r.frame = cur /\ r.item = frame[cur].this
  BY DEF Node, NoItem
<1>5. r \in ItemSet
  BY <1>3, EditedItems DEF Or0
<1> HIDE DEF r
<1>6. Shape(r) /\ Made(r) /\ r.type \notin {"class", "ref"} /\ ItemIn(r, I, H, V, F)
  BY <1>2, <1>3, <1>4 DEF Shape, Made, ItemIn, HeldElsewhere
<1>7. HeapGrown(I, H, V, F, I \cup {i}, H, V, F)
  BY <1>1, <1>2, <1>5, <1>6, ItemMade
<1> QED
  BY <1>1, <1>2, <1>7, PushesOne DEF Or0

LEMMA RefIs ==
  ASSUME NEW I, NEW H, NEW V, NEW F, NEW h \in H, H \subseteq Slots("hash"), "new" \in Features => h = 2
  PROVE  /\ Ref(h) \in ItemSet /\ Shape(Ref(h)) /\ Made(Ref(h)) /\ Ref(h).type = "ref"
         /\ ItemIn(Ref(h), I, H, V, F)
<1> DEFINE r == Ref(h)
<1>1. h # Null /\ h \in Slots("hash")
  BY SlotsAre DEF Null
<1>2. /\ r.type = "ref" /\ r.hash = h /\ r.vector = Null /\ r.frame = Null /\ r.item = Null
  BY DEF Ref, NoItem
<1>3. r \in ItemSet
  BY <1>1, EditedItems DEF Or0
<1> HIDE DEF r
<1>4. Shape(r) /\ Made(r) /\ r.type = "ref" /\ ItemIn(r, I, H, V, F)
  BY <1>1, <1>2 DEF Shape, Made, ItemIn, Null
<1> QED
  BY <1>3, <1>4 DEF r

LEMMA PushMemberRefKeeps ==
  ASSUME HeldElsewhere, NEW I, NEW H, NEW V, NEW F, NEW fr, Runs(I, H, V, F, fr), PushMemberRef("x")
  PROVE  GInv'
<1>1. PICK h \in Slots("hash"), i \in Slots("item") : MemberIn("x", h) /\ NewItem(i, Ref(h)) /\ stack' = Append(stack, i)
  BY DEF PushMemberRef
<1>2. /\ CanPush /\ UNCHANGED <<hash, vector, frame>> /\ UNCHANGED <<cur, exception, gc, todo>>
      /\ native' = Entered("assign", Len(stack), Null)
      /\ (IF frame[cur].this = Static THEN "static" ELSE "memberref") \in Features
  BY DEF PushMemberRef, Uses
<1>3. Typed /\ Heap(I, H, V, F) /\ "x" \in Keys
  BY RootsAre
<1>4. /\ h \in H /\ frame[cur].this \in I /\ item[frame[cur].this].type = "class"
      /\ h = item[frame[cur].this].hash \/ hash[item[frame[cur].this].hash]["super"] > Null
  BY <1>1, <1>3, MemberIs
<1>5. "new" \in Features => h = 2
  <2> SUFFICES ASSUME "new" \in Features PROVE h = 2
    OBVIOUS
  <2>1. frame[cur].this = Static
    BY <1>2 DEF HeldElsewhere
  <2>2. item[Static].hash = 2 /\ hash[2]["super"] <= Null
    BY <1>3 DEF Heap, Named, Scopes, Class, NoItem
  <2>3. ~ (hash[2]["super"] > Null)
    <3>1. hash[2]["super"] \in Or0("item") \cup {Absent}
      BY <1>3, SlotsAre, KeysAre DEF Typed
    <3> QED
      BY <2>2, <3>1, SlotsAre DEF Or0, Null, Absent
  <2> QED
    BY <1>1, <2>1, <2>2, <2>3 DEF MemberIn
<1>6. Ref(h) \in ItemSet /\ Shape(Ref(h)) /\ Made(Ref(h)) /\ Ref(h).type = "ref" /\ ItemIn(Ref(h), I, H, V, F)
  BY <1>3, <1>4, <1>5, RefIs DEF Heap
<1>7. HeapGrown(I, H, V, F, I \cup {i}, H, V, F)
  <2>1. Ref(h).hash = h
    BY DEF Ref, NoItem
  <2>2. ASSUME NEW f \in F, "localcall" \in Features PROVE h # frame[f].locals
    <3>1. CASE "new" \in Features
      BY <1>3, <1>5, <3>1 DEF Heap, Apart
    <3>2. CASE "new" \notin Features
      <4>1. item[frame[cur].this].hash \in H
        BY <1>4, ItemsLead
      <4>2. hash[item[frame[cur].this].hash]["super"] <= Null
        BY <1>3, <3>2, <4>1 DEF Heap, Runs, Makes
      <4>3. hash[item[frame[cur].this].hash]["super"] \in Or0("item") \cup {Absent}
        BY <4>1, HashesLead, RootsAre
      <4>4. ~ (hash[item[frame[cur].this].hash]["super"] > Null)
        <5>1. PICK s : s = hash[item[frame[cur].this].hash]["super"]
          OBVIOUS
        <5>2. s \in Or0("item") \cup {Absent} /\ s <= Null
          BY <4>2, <4>3, <5>1
        <5>3. ~ (s > Null)
          BY <5>2, SlotsAre DEF Or0, Null, Absent
        <5> QED
          BY <5>1, <5>3
      <4>5. h = item[frame[cur].this].hash
        BY <1>4, <4>4
      <4> QED
        BY <1>3, <1>4, <4>5 DEF Heap, Apart
    <3> QED
      BY <3>1, <3>2
  <2> QED
    BY <1>1, <1>2, <1>6, <2>1, <2>2, ItemMade
<1>8. item'[i].type = "ref"
  BY <1>1, <1>3, <1>6 DEF NewItem, Typed
<1> QED
  BY <1>1, <1>2, <1>7, <1>8, RefBegins

-----------------------------------------------------------------------------
(* A name is declared: in the frame's hash table or in a new one; X has    *)
(* the item of the reference, if one is made.                              *)
DeclareBits(X, h) ==
  {<<"item", i>> : i \in X} \cup (IF h = frame[cur].locals THEN {} ELSE {<<"hash", h>>})

MadeRef(X, h) ==
  \/ X = {} /\ item' = item
  \/ \E i \in Slots("item") : X = {i} /\ Fresh("item", i) /\ item' = [item EXCEPT ![i] = Ref(h)]

LEMMA EntryEdited ==
  ASSUME hash \in [Slots("hash") -> [Keys -> Or0("item") \cup {Absent}]],
         NEW h \in Slots("hash"), NEW x \in Or0("item"), hash' = [hash EXCEPT ![h]["x"] = x]
  PROVE  /\ hash' \in [Slots("hash") -> [Keys -> Or0("item") \cup {Absent}]]
         /\ \A g \in Slots("hash"), k \in Keys : hash'[g][k] = IF g = h /\ k = "x" THEN x ELSE hash[g][k]
         /\ \A g \in Slots("hash") : g # h => hash'[g] = hash[g]
<1>1. "x" \in Keys
  BY KeysAre
<1>2. hash[h] \in [Keys -> Or0("item") \cup {Absent}]
  OBVIOUS
<1>3. PICK e : e = [hash[h] EXCEPT !["x"] = x]
  OBVIOUS
<1>4. e \in [Keys -> Or0("item") \cup {Absent}] /\ \A k \in Keys : e[k] = IF k = "x" THEN x ELSE hash[h][k]
  BY <1>1, <1>2, <1>3
<1>5. hash' = [hash EXCEPT ![h] = e]
  BY <1>3
<1> QED
  BY <1>4, <1>5

LEMMA Declares ==
  ASSUME HeldElsewhere, NEW I, NEW H, NEW V, NEW F, NEW fr, Runs(I, H, V, F, fr),
         NEW h \in Slots("hash"), NEW X, DeclaredIn(h, "x"), ScopeOf("x") = Null,
         hash' = [hash EXCEPT ![h]["x"] = Null], UNCHANGED vector,
         MadeRef(X, h), X # {} => "assign" \in Features, bits' = Allocated(DeclareBits(X, h))
  PROVE  \E K : HeapGrown(I, H, V, F, I \cup X, K, V, F)
<1> DEFINE A == DeclareBits(X, h)
           new == frame[cur].locals = Null
<1>1. Typed /\ Heap(I, H, V, F) /\ cur \in F /\ "x" \in Keys /\ "super" \in Keys /\ "Kernel" \in Keys
  BY RootsAre
<1>2. frame[cur].locals # Null => h \in H /\ h = frame[cur].locals /\ frame' = frame
  BY <1>1, FramesLead DEF DeclaredIn
<1>3. new => /\ h \notin H /\ h # frame[cur].locals /\ hash[h] = NoEntries
             /\ frame' = [frame EXCEPT ![cur].locals = h]
  <2> SUFFICES ASSUME new PROVE /\ h \notin H /\ h # frame[cur].locals /\ hash[h] = NoEntries
                                /\ frame' = [frame EXCEPT ![cur].locals = h]
    OBVIOUS
  <2>1. Fresh("hash", h) /\ frame' = [frame EXCEPT ![cur].locals = h]
    BY DEF DeclaredIn
  <2>2. h \notin H
    BY <1>1, <2>1, FreshIsOut
  <2>3. hash[h] = NoEntries
    BY <2>1 DEF Fresh, Runs, Makes
  <2>4. h # Null
    BY SlotsAre DEF Null
  <2> QED
    BY <2>1, <2>2, <2>3, <2>4
<1>4. PICK K : K = IF new THEN H \cup {h} ELSE H
  OBVIOUS
<1> DEFINE J == I \cup X
<1>5. h \in K /\ H \subseteq K /\ K \subseteq Slots("hash") /\ h # Null
  BY <1>1, <1>2, <1>4, SlotsAre DEF Heap, Null
<1>6. X \subseteq Slots("item") /\ \A i \in X : i \notin I
  BY <1>1, FreshIsOut DEF MadeRef
<1>7. item' \in [Slots("item") -> ItemSet] /\ \A i \in Slots("item") : item'[i] = IF i \in X THEN Ref(h) ELSE item[i]
  <2>1. Ref(h) \in ItemSet
    BY EditedItems DEF Or0
  <2>2. CASE X = {} /\ item' = item
    BY <1>1, <2>2 DEF Typed
  <2>3. CASE \E i \in Slots("item") : X = {i} /\ item' = [item EXCEPT ![i] = Ref(h)]
    BY <1>1, <2>1, <2>3 DEF Typed
  <2> QED
    BY <2>2, <2>3 DEF MadeRef
<1>8. X # {} => "new" \notin Features
  BY DEF HeldElsewhere
<1>9. Ref(h).type = "ref" /\ Ref(h).hash = h /\ Shape(Ref(h)) /\ ItemIn(Ref(h), J, K, V, F) /\ (X # {} => Made(Ref(h)))
  <2>1. Ref(h).type = "ref" /\ Ref(h).hash = h /\ Ref(h).item = Null /\ Ref(h).vector = Null /\ Ref(h).frame = Null
    BY DEF Ref, NoItem
  <2>2. h # Null /\ h \in K
    BY <1>5
  <2> HIDE DEF J, new
  <2> QED
    BY <1>8, <2>1, <2>2 DEF Shape, ItemIn, Made
<1>10. /\ hash' \in [Slots("hash") -> [Keys -> Or0("item") \cup {Absent}]]
       /\ \A g \in Slots("hash"), k \in Keys : hash'[g][k] = IF g = h /\ k = "x" THEN Null ELSE hash[g][k]
       /\ \A g \in Slots("hash") : g # h => hash'[g] = hash[g]
  <2>1. Null \in Or0("item")
    BY DEF Or0
  <2> QED
    BY <1>1, <2>1, EntryEdited DEF Typed
<1>11. frame' \in [Slots("frame") -> FrameSet]
  <2>1. CASE new
    <3>1. frame[cur] \in FrameSet /\ h \in Or0("hash") /\ cur \in Slots("frame")
      BY <1>1, RecordsAre DEF Heap, Or0
    <3>2. [frame[cur] EXCEPT !.locals = h] \in FrameSet
      BY <3>1 DEF FrameSet
    <3>3. frame \in [Slots("frame") -> FrameSet]
      BY <1>1 DEF Typed
    <3> QED
      BY <1>3, <2>1, <3>1, <3>2, <3>3
  <2>2. CASE ~new
    BY <1>1, <1>2, <2>2 DEF Typed
  <2> QED
    BY <2>1, <2>2
<1>12. \A f \in Slots("frame") :
         /\ frame'[f].this = frame[f].this /\ frame'[f].owner = frame[f].owner /\ frame'[f].previous = frame[f].previous
         /\ frame'[f].last = frame[f].last /\ frame'[f].hasLast = frame[f].hasLast
         /\ frame'[f].locals = IF f = cur /\ new THEN h ELSE frame[f].locals
  <2>1. CASE new
    <3>1. frame' = [frame EXCEPT ![cur].locals = h] /\ frame \in [Slots("frame") -> FrameSet]
      BY <1>1, <1>3, <2>1 DEF Typed
    <3>2. \A f \in Slots("frame") : frame[f] \in FrameSet
      BY <3>1
    <3> QED
      BY <2>1, <3>1, <3>2 DEF FrameSet
  <2>2. CASE ~new
    BY <1>2, <2>2
  <2> QED
    BY <2>1, <2>2
<1>13. \A o \in Objects : bits'[o] = IF o \in A THEN {"USE", "CN"} ELSE bits[o]
  BY <1>1, AllocatedIs
<1>14. bits' \in [Objects -> SUBSET {"USE", "GC", "CN"}]
  BY <1>1, AllocatedIs
<1>15. HeapTyped'
  <2>1. \A i \in Slots("item") : Shape(item'[i])
    BY <1>1, <1>7, <1>9 DEF Typed
  <2>2. vector' \in [Slots("vector") -> Seq(Or0("item"))]
    BY <1>1 DEF Typed
  <2> QED
    BY <1>7, <1>10, <1>11, <1>14, <2>1, <2>2 DEF HeapTyped
<1>16. Makes' /\ Walks'
  <2>1. \A i \in Slots("item") : item'[i] = item[i] \/ (Made(item'[i]) /\ item'[i].type # "class")
    BY <1>7, <1>9
  <2>2. \A g \in Slots("hash") : hash'[g]["super"] = hash[g]["super"]
    BY <1>1, <1>10
  <2>3. \A g \in Slots("hash") : "USE" \in bits'[<<"hash", g>>] \/ (hash'[g] = hash[g] /\ ~InUse(<<"hash", g>>))
    <3> SUFFICES ASSUME NEW g \in Slots("hash")
                 PROVE  "USE" \in bits'[<<"hash", g>>] \/ (hash'[g] = hash[g] /\ ~InUse(<<"hash", g>>))
      OBVIOUS
    <3>1. <<"hash", g>> \in Objects
      BY ObjectsAre DEF Kinds
    <3>2. InUse(<<"hash", g>>) => "USE" \in bits'[<<"hash", g>>]
      BY <1>13, <3>1 DEF InUse
    <3>3. CASE g # h
      BY <1>10, <3>2, <3>3
    <3>4. CASE g = h
      <4>1. CASE new
        BY <1>3, <1>13, <3>1, <3>4, <4>1 DEF DeclareBits
      <4>2. CASE ~new
        <5>1. InUse(<<"hash", g>>)
          BY <1>1, <1>2, <3>4, <4>2 DEF Heap, Used, InUse
        <5> QED
          BY <3>2, <5>1
      <4> QED
        BY <4>1, <4>2
    <3> QED
      BY <3>3, <3>4
  <2> QED
    BY <2>1, <2>2, <2>3, MakesStay, WalksStay DEF Runs
<1>17. BitsGrow(I, J, "item") /\ BitsGrow(H, K, "hash") /\ BitsGrow(V, V, "vector") /\ BitsGrow(F, F, "frame")
  <2>1. "item" \in Kinds /\ "hash" \in Kinds /\ "vector" \in Kinds /\ "frame" \in Kinds
    BY DEF Kinds
  <2>2. /\ I \subseteq Slots("item") /\ H \subseteq Slots("hash")
        /\ V \subseteq Slots("vector") /\ F \subseteq Slots("frame") /\ J \subseteq Slots("item") /\ K \subseteq Slots("hash")
    BY <1>1, <1>5, <1>6 DEF Heap
  <2>3. \A n \in J : <<"item", n>> \in A <=> n \notin I
    BY <1>6 DEF DeclareBits
  <2>4. \A n \in K : <<"hash", n>> \in A <=> n \notin H
    BY <1>2, <1>3, <1>4 DEF DeclareBits
  <2>5. (\A n \in V : <<"vector", n>> \notin A) /\ (\A n \in F : <<"frame", n>> \notin A)
    BY DEF DeclareBits
  <2> HIDE DEF A, J
  <2>6. BitsGrow(I, J, "item")
    BY <1>1, <2>1, <2>2, <2>3, BitsGrown DEF A
  <2>7. BitsGrow(H, K, "hash")
    BY <1>1, <2>1, <2>2, <2>4, BitsGrown DEF A
  <2>8. BitsGrow(V, V, "vector") /\ BitsGrow(F, F, "frame")
    BY <1>1, <2>1, <2>2, <2>5, BitsGrown DEF A
  <2> QED
    BY <2>6, <2>7, <2>8
<1>18. HashesIn(hash', J, K)
  <2> SUFFICES ASSUME NEW g \in K, NEW k \in Keys, hash'[g][k] > Null PROVE hash'[g][k] \in I
    BY DEF HashesIn
  <2>1. g \in Slots("hash")
    BY <1>5
  <2>2. ~ (g = h /\ k = "x") /\ hash'[g][k] = hash[g][k]
    BY <1>10, <2>1 DEF Null
  <2>3. CASE g \in H
    BY <1>1, <2>2, <2>3 DEF Heap, HashesIn
  <2>4. CASE g \notin H
    BY <1>3, <1>4, <2>2, <2>4 DEF NoEntries, Absent, Null
  <2> QED
    BY <2>3, <2>4
<1>19. FramesIn(frame', J, K, F)
  <2>1. F \subseteq Slots("frame")
    BY <1>1 DEF Heap
  <2>2. \A f \in F : FrameIn(frame[f], I, H, F)
    BY <1>1 DEF Heap, FramesIn
  <2> HIDE DEF J, new
  <2>3. I \subseteq J
    BY DEF J
  <2> QED
    BY <1>5, <1>12, <2>1, <2>2, <2>3 DEF FramesIn, FrameIn
<1>20. \A f \in F : \/ frame'[f].locals = Null
                    \/ frame'[f].locals \in K \ H
                    \/ frame'[f].locals = frame[f].locals
  BY <1>1, <1>3, <1>4, <1>12 DEF Heap
<1>21. \A g \in H : hash'[g]["super"] = hash[g]["super"] /\ hash'[g]["Kernel"] = hash[g]["Kernel"]
  BY <1>1, <1>10 DEF Heap
<1>22. \A g \in K \ H : hash'[g]["super"] <= Null
  <2>1. \A g \in K \ H : g \in Slots("hash") /\ hash'[g]["super"] = Absent
    BY <1>1, <1>3, <1>4, <1>10 DEF NoEntries
  <2> QED
    BY <2>1 DEF Absent, Null
<1>23. VectorsIn(vector', J, V)
  BY <1>1 DEF VectorsIn, Heap
<1>24. (\A i \in I : item'[i] = item[i]) /\ (\A i \in J \ I : item'[i].type # "class" /\ ItemIn(item'[i], J, K, V, F))
  <2>1. I \subseteq Slots("item")
    BY <1>1 DEF Heap
  <2> QED
    BY <1>6, <1>7, <1>9, <2>1
<1>a. \A i \in J \ I, f \in F : item'[i].type = "ref" /\ "localcall" \in Features => item'[i].hash # frame'[f].locals
  <2>1. \A i \in J \ I : X # {}
    OBVIOUS
  <2> QED
    BY <2>1 DEF HeldElsewhere
<1>25. Grow(I, H, V, F, J, K, V, F)
  <2>1. I \subseteq J /\ J \subseteq Slots("item") /\ V \subseteq Slots("vector") /\ F \subseteq Slots("frame")
    BY <1>1, <1>6 DEF Heap
  <2> HIDE DEF J
  <2> QED
    BY <1>5, <1>17, <1>18, <1>19, <1>20, <1>21, <1>22, <1>23, <1>24, <1>a, <2>1 DEF Grow
<1>26. \A g \in H : hash[g]["x"] > Null => hash'[g]["x"] = hash[g]["x"]
  <2> SUFFICES ASSUME NEW g \in H, hash[g]["x"] > Null PROVE hash'[g]["x"] = hash[g]["x"]
    OBVIOUS
  <2>1. g # h
    <3>1. ~new /\ g = h => hash[g]["x"] = Absent
      BY <1>1, <1>2, ScopeIs
    <3> QED
      BY <1>3, <3>1 DEF Absent, Null
  <2> QED
    BY <1>1, <1>10, <2>1 DEF Heap
<1>27. \A f \in F : /\ frame'[f].this = frame[f].this /\ frame'[f].owner = frame[f].owner
                    /\ frame'[f].previous = frame[f].previous
                    /\ frame[f].locals # Null => frame'[f].locals = frame[f].locals
  BY <1>1, <1>12 DEF Heap
<1> HIDE DEF J, A, new
<1>28. HeapGrown(I, H, V, F, J, K, V, F)
  <2>1. \/ "localcall" \notin Features
        \/ \A f \in F : frame[f].locals # Null /\ hash[frame[f].locals]["x"] > Null =>
                           hash'[frame[f].locals]["x"] = hash[frame[f].locals]["x"]
    BY <1>1, <1>26 DEF Heap, FramesIn, FrameIn
  <2> QED
    BY <1>15, <1>16, <1>25, <1>27, <2>1, Grows
<1> QED
  BY <1>28 DEF J

LEMMA PushLocalKeeps ==
  ASSUME HeldElsewhere, NEW I, NEW H, NEW V, NEW F, NEW fr, Runs(I, H, V, F, fr), PushLocal("x")
  PROVE  GInv'
<1>1. CanPush /\ UNCHANGED <<native, cur, exception, gc, todo>> /\ "x" \in Keys /\ Typed
  BY RootsAre DEF PushLocal
<1>2. CASE ScopeOf("x") # Null /\ stack' = Append(stack, hash[ScopeOf("x")]["x"]) /\ UNCHANGED heap
  <2> DEFINE x == hash[ScopeOf("x")]["x"]
  <2>1. x \in Or0("item") /\ (x # Null => x \in I)
    BY <1>1, <1>2, ScopeIs, HashesLead
  <2>2. HeapGrown(I, H, V, F, I, H, V, F) /\ stack' = Append(stack, x)
    BY <1>2, HeapStays
  <2> HIDE DEF x
  <2> QED
    BY <1>1, <2>1, <2>2, PushesOne
<1>3. CASE /\ ScopeOf("x") = Null
           /\ \E h \in Slots("hash") :
                /\ DeclaredIn(h, "x")
                /\ hash' = [hash EXCEPT ![h]["x"] = Null]
                /\ bits' = IF h = frame[cur].locals THEN bits ELSE Allocated({<<"hash", h>>})
           /\ stack' = Append(stack, Null) /\ UNCHANGED <<item, vector>>
  <2>1. PICK h \in Slots("hash") :
                /\ DeclaredIn(h, "x")
                /\ hash' = [hash EXCEPT ![h]["x"] = Null]
                /\ bits' = IF h = frame[cur].locals THEN bits ELSE Allocated({<<"hash", h>>})
    BY <1>3
  <2>2. bits' = Allocated(DeclareBits({}, h))
    <3>1. CASE h = frame[cur].locals
      BY <1>1, <2>1, <3>1 DEF DeclareBits, Allocated, Typed
    <3>2. CASE h # frame[cur].locals
      <4>1. DeclareBits({}, h) = {<<"hash", h>>}
        BY <3>2 DEF DeclareBits
      <4> QED
        BY <2>1, <3>2, <4>1
    <3> QED
      BY <3>1, <3>2
  <2>3. MadeRef({}, h) /\ UNCHANGED vector
    BY <1>3 DEF MadeRef
  <2>4. PICK X : X = {}
    OBVIOUS
  <2>5. \E K : HeapGrown(I, H, V, F, I \cup X, K, V, F)
    BY <1>3, <2>1, <2>2, <2>3, <2>4, Declares
  <2>6. PICK K : HeapGrown(I, H, V, F, I \cup X, K, V, F)
    BY <2>5
  <2> QED
    BY <1>1, <1>3, <2>6, PushesOne DEF Or0
<1> QED
  BY <1>2, <1>3 DEF PushLocal

LEMMA PushLocalRefKeeps ==
  ASSUME HeldElsewhere, NEW I, NEW H, NEW V, NEW F, NEW fr, Runs(I, H, V, F, fr), PushLocalRef("x")
  PROVE  GInv'
<1>1. /\ CanPush /\ UNCHANGED <<cur, exception, gc, todo>> /\ "x" \in Keys /\ Typed /\ Heap(I, H, V, F)
      /\ native' = Entered("assign", Len(stack), Null) /\ "assign" \in Features /\ UNCHANGED vector
  BY RootsAre DEF PushLocalRef, Uses
<1>2. "new" \notin Features
  BY <1>1 DEF HeldElsewhere
<1>3. PICK i \in Slots("item") :
       /\ Fresh("item", i)
       /\ \/ /\ ScopeOf("x") # Null
             /\ NewItem(i, Ref(ScopeOf("x")))
             /\ UNCHANGED <<hash, frame>>
          \/ /\ ScopeOf("x") = Null
             /\ \E h \in Slots("hash") :
                  /\ DeclaredIn(h, "x")
                  /\ hash' = [hash EXCEPT ![h]["x"] = Null]
                  /\ item' = [item EXCEPT ![i] = Ref(h)]
                  /\ bits' = Allocated({<<"item", i>>} \cup
                               (IF h = frame[cur].locals THEN {} ELSE {<<"hash", h>>}))
       /\ stack' = Append(stack, i)
  BY DEF PushLocalRef
<1>4. PICK J : J = I \cup {i}
  OBVIOUS
<1>5. (\E K : HeapGrown(I, H, V, F, J, K, V, F)) /\ item'[i].type = "ref"
  <2>1. CASE ScopeOf("x") # Null /\ NewItem(i, Ref(ScopeOf("x"))) /\ UNCHANGED <<hash, frame>>
    <3>1. ScopeOf("x") \in H
      BY <1>1, <2>1, ScopeIs
    <3>2. PICK h \in H : h = ScopeOf("x")
      BY <3>1
    <3>3. Ref(h) \in ItemSet /\ Shape(Ref(h)) /\ Made(Ref(h)) /\ Ref(h).type = "ref" /\ ItemIn(Ref(h), I, H, V, F)
      BY <1>1, <1>2, RefIs DEF Heap
    <3>4. NewItem(i, Ref(h)) /\ UNCHANGED <<hash, vector, frame>>
      BY <1>1, <2>1, <3>2
    <3>5. HeapGrown(I, H, V, F, I \cup {i}, H, V, F)
      BY <1>1, <3>3, <3>4, ItemMade DEF HeldElsewhere
    <3>6. item'[i].type = "ref"
      BY <1>1, <3>3, <3>4 DEF NewItem, Typed
    <3> QED
      BY <1>4, <3>5, <3>6
  <2>2. CASE /\ ScopeOf("x") = Null
             /\ \E h \in Slots("hash") :
                  /\ DeclaredIn(h, "x")
                  /\ hash' = [hash EXCEPT ![h]["x"] = Null]
                  /\ item' = [item EXCEPT ![i] = Ref(h)]
                  /\ bits' = Allocated({<<"item", i>>} \cup
                               (IF h = frame[cur].locals THEN {} ELSE {<<"hash", h>>}))
    <3>1. PICK h \in Slots("hash") :
                  /\ DeclaredIn(h, "x")
                  /\ hash' = [hash EXCEPT ![h]["x"] = Null]
                  /\ item' = [item EXCEPT ![i] = Ref(h)]
                  /\ bits' = Allocated({<<"item", i>>} \cup
                               (IF h = frame[cur].locals THEN {} ELSE {<<"hash", h>>}))
      BY <2>2
    <3>2. PICK X : X = {i}
      OBVIOUS
    <3>3. {<<"item", n>> : n \in X} = {<<"item", i>>}
      BY <3>2
    <3>4. bits' = Allocated(DeclareBits(X, h))
      BY <3>1, <3>3 DEF DeclareBits
    <3>5. MadeRef(X, h)
      BY <1>3, <3>1, <3>2 DEF MadeRef
    <3>6. \E K : HeapGrown(I, H, V, F, I \cup X, K, V, F)
      BY <1>1, <2>2, <3>1, <3>4, <3>5, Declares
    <3>7. item'[i].type = "ref"
      BY <1>1, <3>1 DEF Typed, Ref, NoItem
    <3> QED
      BY <1>4, <3>2, <3>6, <3>7
  <2> QED
    BY <1>3, <2>1, <2>2
<1>6. PICK K : HeapGrown(I, H, V, F, J, K, V, F)
  BY <1>5
<1> QED
  BY <1>1, <1>3, <1>4, <1>5, <1>6, RefBegins

-----------------------------------------------------------------------------
(* What is there is changed, but for what items are and what frames point  *)
(* at.                                                                     *)
LEMMA HeapEdited ==
  ASSUME NEW I, NEW H, NEW V, NEW F, NEW fr, Runs(I, H, V, F, fr), UNCHANGED <<item, bits>>,
         hash' \in [Slots("hash") -> [Keys -> Or0("item") \cup {Absent}]],
         vector' \in [Slots("vector") -> Seq(Or0("item"))],
         frame' \in [Slots("frame") -> FrameSet],
         \A h \in Slots("hash") : hash'[h] = hash[h] \/ h \in H,
         \A h \in Slots("hash") : hash'[h]["super"] = hash[h]["super"] /\ hash'[h]["Kernel"] = hash[h]["Kernel"],
         HashesIn(hash', I, H), VectorsIn(vector', I, V), FramesIn(frame', I, H, F),
         \A f \in Slots("frame") : /\ frame'[f].this = frame[f].this /\ frame'[f].owner = frame[f].owner
                                   /\ frame'[f].previous = frame[f].previous /\ frame'[f].locals = frame[f].locals,
         \/ "localcall" \notin Features
         \/ \A f \in F : frame[f].locals # Null /\ hash[frame[f].locals]["x"] > Null =>
                            hash'[frame[f].locals]["x"] = hash[frame[f].locals]["x"]
  PROVE  HeapGrown(I, H, V, F, I, H, V, F)
<1>1. Typed /\ Heap(I, H, V, F)
  BY DEF Runs, Safe
<1>2. /\ I \subseteq Slots("item") /\ H \subseteq Slots("hash")
      /\ V \subseteq Slots("vector") /\ F \subseteq Slots("frame") /\ ItemsIn(item, I, H, V, F)
  BY <1>1 DEF Heap
<1>3. HeapTyped'
  BY <1>1 DEF HeapTyped, Typed
<1>4. Makes' /\ Walks'
  <2>1. \A h \in Slots("hash") : "USE" \in bits'[<<"hash", h>>] \/ (hash'[h] = hash[h] /\ ~InUse(<<"hash", h>>))
    BY <1>1 DEF Heap, Used, InUse
  <2> QED
    BY <2>1, MakesStay, WalksStay DEF Runs
<1>5. Grow(I, H, V, F, I, H, V, F)
  BY <1>2, BitsUnchanged DEF Grow
<1>6. \A f \in F : /\ frame'[f].this = frame[f].this /\ frame'[f].owner = frame[f].owner
                   /\ frame'[f].previous = frame[f].previous
                   /\ frame[f].locals # Null => frame'[f].locals = frame[f].locals
  BY <1>2
<1> QED
  BY <1>3, <1>4, <1>5, <1>6, Grows

LEMMA DropKeeps ==
  ASSUME NEW I, NEW H, NEW V, NEW F, NEW fr, Runs(I, H, V, F, fr), Drop
  PROVE  GInv'
<1> DEFINE x == Operand(0)
<1>1. /\ Top.op \in {"body", "handler"} /\ Operands = 1 /\ stack' = Popped(1)
      /\ frame' = [frame EXCEPT ![cur].last = x, ![cur].hasLast = TRUE]
      /\ UNCHANGED <<item, hash, vector, bits, native, cur, exception, gc, todo>>
  BY DEF Drop, InBody
<1>2. Typed /\ Heap(I, H, V, F) /\ cur \in F /\ cur \in Slots("frame") /\ F \subseteq Slots("frame")
  BY RootsAre DEF Heap
<1>3. /\ Len(stack) \in Nat /\ Top.base \in Nat /\ Operands = Len(stack) - Top.base
      /\ x = stack[Len(stack)] /\ Len(stack) <= MaxStack
  BY StacksAre, OperandsAre
<1>4. Len(stack) \in 1 .. Len(stack) /\ Len(stack) - 1 \in 0 .. Len(stack) /\ Len(stack) - 1 = Top.base
  BY <1>1, <1>3
<1>5. x \in Or0("item") /\ (x # Null => x \in I)
  BY <1>3, <1>4, OperandsAre
<1> HIDE DEF x
<1>6. frame \in [Slots("frame") -> FrameSet] /\ frame[cur] \in FrameSet
  BY <1>2 DEF Typed
<1>7. PICK a : a = [frame[cur] EXCEPT !.last = x]
  OBVIOUS
<1>8. PICK b : b = [a EXCEPT !.hasLast = TRUE]
  OBVIOUS
<1>9. /\ a \in FrameSet /\ a.last = x /\ a.this = frame[cur].this /\ a.locals = frame[cur].locals
      /\ a.owner = frame[cur].owner /\ a.previous = frame[cur].previous
  BY <1>5, <1>6, <1>7 DEF FrameSet
<1>10. /\ b \in FrameSet /\ b.last = x /\ b.this = frame[cur].this /\ b.locals = frame[cur].locals
       /\ b.owner = frame[cur].owner /\ b.previous = frame[cur].previous
  BY <1>8, <1>9 DEF FrameSet
<1>11. frame' = [frame EXCEPT ![cur] = b]
  BY <1>1, <1>2, <1>6, <1>7, <1>8
<1>12. \A f \in Slots("frame") : frame'[f] = IF f = cur THEN b ELSE frame[f]
  BY <1>6, <1>11
<1>13. frame' \in [Slots("frame") -> FrameSet]
  BY <1>6, <1>10, <1>11
<1>14. FramesIn(frame', I, H, F)
  BY <1>2, <1>5, <1>10, <1>12 DEF Heap, FramesIn, FrameIn
<1>15. HashesIn(hash', I, H) /\ VectorsIn(vector', I, V)
  BY <1>1, <1>2 DEF Heap, HashesIn, VectorsIn
<1>16. hash' \in [Slots("hash") -> [Keys -> Or0("item") \cup {Absent}]] /\ vector' \in [Slots("vector") -> Seq(Or0("item"))]
  BY <1>1, <1>2 DEF Typed
<1>17. \A f \in Slots("frame") : /\ frame'[f].this = frame[f].this /\ frame'[f].owner = frame[f].owner
                                 /\ frame'[f].previous = frame[f].previous /\ frame'[f].locals = frame[f].locals
  BY <1>10, <1>12
<1>18. HeapGrown(I, H, V, F, I, H, V, F)
  BY <1>1, <1>13, <1>14, <1>15, <1>16, <1>17, HeapEdited
<1>19. StackIn(Len(stack) - 1, I)
  BY <1>1, <1>2, <1>3, <1>4, StackCuts DEF Popped
<1>20. Top.base + Needs(Top.op) <= Len(stack) - 1
  <2>1. Needs(Top.op) = 0
    BY <1>1 DEF Needs
  <2> QED
    BY <1>3, <1>4, <2>1
<1> QED
  BY <1>1, <1>18, <1>19, <1>20, CallsStay

(* The last result of a method without one goes from its frame to its      *)
(* caller's.                                                               *)
LEMMA ReturnNothingKeeps ==
  ASSUME NEW I, NEW H, NEW V, NEW F, NEW fr, Runs(I, H, V, F, fr), ReturnNothing
  PROVE  GInv'
<1>1. PICK p, x : p = frame[cur].previous /\ x = frame[cur].last
  OBVIOUS
<1>2. /\ Top.op \in Framed /\ Len(native) > 1 /\ Operands = 0 /\ native' = Left
      /\ cur' = IF Top.op \in Framed THEN frame[cur].previous ELSE cur
      /\ UNCHANGED <<item, hash, vector, bits, stack, exception, gc, todo>>
      /\ frame' = [frame EXCEPT ![p].last = x, ![p].hasLast = FALSE]
  BY <1>1 DEF ReturnNothing, Framed
<1>3. Typed /\ Heap(I, H, V, F) /\ cur \in F /\ F \subseteq Slots("frame") /\ Chained(fr, F)
  BY RootsAre DEF Heap, Runs, Safe
<1>4. p \in F /\ p \in Slots("frame")
  <2>1. Len(native) - 1 \in 1 .. Len(native) /\ p = fr[Len(native) - 1]
    BY <1>1, <1>2, StacksAre
  <2> QED
    BY <1>3, <2>1 DEF Chained
<1>5. x \in Or0("item")
  BY <1>1, <1>3, FramesLead
<1>6. frame \in [Slots("frame") -> FrameSet] /\ frame[p] \in FrameSet
  BY <1>3, <1>4 DEF Typed
<1>7. PICK a : a = [frame[p] EXCEPT !.last = x]
  OBVIOUS
<1>8. PICK b : b = [a EXCEPT !.hasLast = FALSE]
  OBVIOUS
<1>9. /\ a \in FrameSet /\ a.last = x /\ a.this = frame[p].this /\ a.locals = frame[p].locals
      /\ a.owner = frame[p].owner /\ a.previous = frame[p].previous
  BY <1>5, <1>6, <1>7 DEF FrameSet
<1>10. /\ b \in FrameSet /\ ~b.hasLast /\ b.this = frame[p].this /\ b.locals = frame[p].locals
       /\ b.owner = frame[p].owner /\ b.previous = frame[p].previous
  BY <1>8, <1>9 DEF FrameSet
<1>11. frame' = [frame EXCEPT ![p] = b]
  BY <1>2, <1>4, <1>6, <1>7, <1>8
<1>12. \A f \in Slots("frame") : frame'[f] = IF f = p THEN b ELSE frame[f]
  BY <1>6, <1>11
<1>13. frame' \in [Slots("frame") -> FrameSet]
  BY <1>6, <1>10, <1>11
<1>14. FramesIn(frame', I, H, F)
  BY <1>3, <1>10, <1>12 DEF Heap, FramesIn, FrameIn
<1>15. HashesIn(hash', I, H) /\ VectorsIn(vector', I, V)
  BY <1>2, <1>3 DEF Heap, HashesIn, VectorsIn
<1>16. hash' \in [Slots("hash") -> [Keys -> Or0("item") \cup {Absent}]] /\ vector' \in [Slots("vector") -> Seq(Or0("item"))]
  BY <1>2, <1>3 DEF Typed
<1>17. \A f \in Slots("frame") : /\ frame'[f].this = frame[f].this /\ frame'[f].owner = frame[f].owner
                                 /\ frame'[f].previous = frame[f].previous /\ frame'[f].locals = frame[f].locals
  BY <1>10, <1>12
<1>18. HeapGrown(I, H, V, F, I, H, V, F)
  BY <1>2, <1>13, <1>14, <1>15, <1>16, <1>17, HeapEdited
<1>19. /\ Len(stack) \in Nat /\ Top.base \in Nat /\ Len(stack) <= MaxStack
       /\ Operands = Len(stack) - Top.base
  BY StacksAre, OperandsAre
<1>20. StackIn(Len(stack), I) /\ Top.base <= Len(stack)
  BY <1>2, <1>19, StackStays
<1>21. UNCHANGED <<exception, gc, todo>>
  BY <1>2
<1> QED
  BY <1>2, <1>18, <1>20, <1>21, CallEnds

LEMMA ArrayElementKeeps ==
  ASSUME NEW I, NEW H, NEW V, NEW F, NEW fr, Runs(I, H, V, F, fr), ArrayElement
  PROVE  GInv'
<1> DEFINE x == Operand(0)
           v == Top.obj
<1>1. /\ Top.op = "array" /\ Operands = 1 /\ stack' = Popped(1)
      /\ vector' = [vector EXCEPT ![v] = Append(@, x)]
      /\ UNCHANGED <<item, hash, frame, bits, native, cur, exception, gc, todo>>
  BY DEF ArrayElement
<1>2. Typed /\ Heap(I, H, V, F) /\ InC(fr, V) /\ V \subseteq Slots("vector")
  BY RootsAre DEF Heap, Runs, Safe
<1>3. /\ Len(stack) \in Nat /\ Top.base \in Nat /\ Operands = Len(stack) - Top.base
      /\ x = stack[Len(stack)] /\ Len(stack) <= MaxStack
      /\ Top = native[Len(native)] /\ Len(native) \in 1 .. Len(native)
  BY StacksAre, OperandsAre
<1>4. Len(stack) \in 1 .. Len(stack) /\ Len(stack) - 1 \in 0 .. Len(stack) /\ Len(stack) - 1 = Top.base
  BY <1>1, <1>3
<1>5. x \in Or0("item") /\ (x # Null => x \in I)
  BY <1>3, <1>4, OperandsAre
<1>6. v \in V
  BY <1>1, <1>2, <1>3 DEF InC
<1> HIDE DEF x, v
<1>7. vector \in [Slots("vector") -> Seq(Or0("item"))] /\ vector[v] \in Seq(Or0("item"))
  BY <1>2, <1>6 DEF Typed
<1>8. PICK s : s = Append(vector[v], x)
  OBVIOUS
<1>9. s \in Seq(Or0("item")) /\ Len(s) = Len(vector[v]) + 1 /\ Len(vector[v]) \in Nat
      /\ (\A n \in 1 .. Len(vector[v]) : s[n] = vector[v][n]) /\ s[Len(vector[v]) + 1] = x
  BY <1>5, <1>7, <1>8, AppendIs
<1>10. vector' = [vector EXCEPT ![v] = s]
  BY <1>1, <1>8
<1>11. \A u \in Slots("vector") : vector'[u] = IF u = v THEN s ELSE vector[u]
  BY <1>7, <1>10
<1>12. vector' \in [Slots("vector") -> Seq(Or0("item"))]
  BY <1>7, <1>9, <1>10
<1>13. VectorsIn(vector', I, V)
  <2> SUFFICES ASSUME NEW u \in V, NEW n \in 1 .. Len(vector'[u]), vector'[u][n] # Null PROVE vector'[u][n] \in I
    BY DEF VectorsIn
  <2>1. CASE u # v
    BY <1>2, <1>11, <2>1 DEF Heap, VectorsIn
  <2>2. CASE u = v
    <3>1. vector'[u] = s
      BY <1>2, <1>11, <2>2
    <3>2. n \in 1 .. Len(vector[v]) \/ n = Len(vector[v]) + 1
      BY <1>9, <3>1
    <3>3. \A m \in 1 .. Len(vector[v]) : vector[v][m] # Null => vector[v][m] \in I
      BY <1>2, <1>6 DEF Heap, VectorsIn
    <3> QED
      BY <1>5, <1>9, <3>1, <3>2, <3>3
  <2> QED
    BY <2>1, <2>2
<1>14. HashesIn(hash', I, H) /\ FramesIn(frame', I, H, F)
  BY <1>1, <1>2 DEF Heap, HashesIn, FramesIn, FrameIn
<1>15. hash' \in [Slots("hash") -> [Keys -> Or0("item") \cup {Absent}]] /\ frame' \in [Slots("frame") -> FrameSet]
  BY <1>1, <1>2 DEF Typed
<1>16. HeapGrown(I, H, V, F, I, H, V, F)
  BY <1>1, <1>12, <1>13, <1>14, <1>15, HeapEdited
<1>17. StackIn(Len(stack) - 1, I)
  BY <1>1, <1>2, <1>3, <1>4, StackCuts DEF Popped
<1>18. Top.base + Needs(Top.op) <= Len(stack) - 1
  <2>1. Needs(Top.op) = 0
    BY <1>1 DEF Needs
  <2> QED
    BY <1>3, <1>4, <2>1
<1> QED
  BY <1>1, <1>16, <1>17, <1>18, CallsStay

LEMMA AssignKeeps ==
  ASSUME NEW I, NEW H, NEW V, NEW F, NEW fr, Runs(I, H, V, F, fr), Assign
  PROVE  GInv'
<1> DEFINE x == Operand(0)
           i == Operand(1)
<1>1. /\ Top.op = "assign" /\ Operands = 2 /\ stack' = Popped(1) /\ native' = Left
      /\ UNCHANGED <<item, frame, bits, cur, exception, gc, todo>>
  BY DEF Assign
<1>2. Typed /\ Heap(I, H, V, F) /\ InC(fr, V) /\ H \subseteq Slots("hash") /\ V \subseteq Slots("vector")
  BY RootsAre DEF Heap, Runs, Safe
<1>3. /\ Len(stack) \in Nat /\ Top.base \in Nat /\ Operands = Len(stack) - Top.base
      /\ x = stack[Len(stack)] /\ i = stack[Len(stack) - 1] /\ Len(stack) <= MaxStack
      /\ Top = native[Len(native)] /\ Len(native) \in 1 .. Len(native) /\ Len(native) \in Nat /\ native[1].op = "body"
  BY StacksAre, OperandsAre
<1>4. /\ Len(stack) \in 1 .. Len(stack) /\ Len(stack) - 1 \in 0 .. Len(stack) /\ Len(stack) - 1 = Top.base + 1
      /\ Len(stack) - 1 \in 1 .. Len(stack)
  BY <1>1, <1>3
<1>5. x \in Or0("item") /\ (x # Null => x \in I)
  BY <1>3, <1>4, OperandsAre
<1>6. i # Null /\ item[i].type \in {"ref", "refarray"}
  BY <1>1, <1>2, <1>3, <1>4 DEF InC, Expected
<1>7. i \in I
  BY <1>3, <1>4, <1>6, OperandsAre
<1>8. FramesIn(frame', I, H, F) /\ frame' \in [Slots("frame") -> FrameSet]
  BY <1>1, <1>2 DEF Heap, FramesIn, FrameIn, Typed
<1>9. HeapGrown(I, H, V, F, I, H, V, F)
  <2>1. CASE item[i].type = "ref" /\ hash' = [hash EXCEPT ![item[i].hash]["x"] = x] /\ UNCHANGED vector
    <3>1. item[i].hash \in H
      BY <1>7, <2>1, ItemsLead
    <3>2. PICK h \in H : h = item[i].hash
      BY <3>1
    <3> HIDE DEF x, i
    <3>3. h \in Slots("hash") /\ hash' = [hash EXCEPT ![h]["x"] = x]
      BY <1>2, <2>1, <3>2
    <3>4. /\ hash' \in [Slots("hash") -> [Keys -> Or0("item") \cup {Absent}]]
          /\ \A g \in Slots("hash"), k \in Keys : hash'[g][k] = IF g = h /\ k = "x" THEN x ELSE hash[g][k]
          /\ \A g \in Slots("hash") : g # h => hash'[g] = hash[g]
      BY <1>2, <1>5, <3>3, EntryEdited DEF Typed
    <3>5. HashesIn(hash', I, H)
      <4> SUFFICES ASSUME NEW g \in H, NEW k \in Keys, hash'[g][k] > Null PROVE hash'[g][k] \in I
        BY DEF HashesIn
      <4>1. hash'[g][k] = IF g = h /\ k = "x" THEN x ELSE hash[g][k]
        BY <1>2, <3>4
      <4>2. x # Null \/ ~ (x > Null)
        BY DEF Null
      <4> QED
        BY <1>2, <1>5, <4>1, <4>2 DEF Heap, HashesIn
    <3>6. \A g \in Slots("hash") : hash'[g]["super"] = hash[g]["super"] /\ hash'[g]["Kernel"] = hash[g]["Kernel"]
      BY <3>4, RootsAre
    <3>7. \/ "localcall" \notin Features
          \/ \A f \in F : frame[f].locals # Null /\ hash[frame[f].locals]["x"] > Null =>
                             hash'[frame[f].locals]["x"] = hash[frame[f].locals]["x"]
      <4> SUFFICES ASSUME "localcall" \in Features, NEW f \in F, frame[f].locals # Null
                   PROVE  hash'[frame[f].locals]["x"] = hash[frame[f].locals]["x"]
        OBVIOUS
      <4>1. frame[f].locals # h
        BY <1>2, <1>7, <2>1, <3>2 DEF Heap, Apart
      <4>2. frame[f].locals \in Slots("hash")
        BY <1>2, FramesLead
      <4> QED
        BY <3>4, <4>1, <4>2
    <3>8. \A g \in Slots("hash") : hash'[g] = hash[g] \/ g \in H
      BY <3>4
    <3>9. VectorsIn(vector', I, V) /\ vector' \in [Slots("vector") -> Seq(Or0("item"))]
      BY <1>2, <2>1 DEF Heap, VectorsIn, Typed
    <3> QED
      BY <1>1, <1>8, <3>4, <3>5, <3>6, <3>7, <3>8, <3>9, HeapEdited
  <2>2. CASE /\ item[i].type = "refarray"
             /\ item[i].at \in DOMAIN vector[item[i].vector]
             /\ vector' = [vector EXCEPT ![item[i].vector][item[i].at] = x]
             /\ UNCHANGED hash
    <3>1. item[i].vector \in V
      BY <1>7, <2>2, ItemsLead
    <3>2. PICK v \in V : v = item[i].vector
      BY <3>1
    <3>3. PICK n : n = item[i].at
      OBVIOUS
    <3> HIDE DEF x, i
    <3>4. vector \in [Slots("vector") -> Seq(Or0("item"))] /\ vector[v] \in Seq(Or0("item")) /\ v \in Slots("vector")
      BY <1>2 DEF Typed
    <3>5. n \in 1 .. Len(vector[v])
      BY <2>2, <3>2, <3>3, <3>4
    <3>6. PICK s : s = [vector[v] EXCEPT ![n] = x]
      OBVIOUS
    <3>7. s \in Seq(Or0("item")) /\ Len(s) = Len(vector[v])
          /\ \A m \in 1 .. Len(vector[v]) : s[m] = IF m = n THEN x ELSE vector[v][m]
      BY <1>5, <3>4, <3>5, <3>6
    <3>8. vector' = [vector EXCEPT ![v] = s]
      BY <2>2, <3>2, <3>3, <3>6
    <3>9. \A u \in Slots("vector") : vector'[u] = IF u = v THEN s ELSE vector[u]
      BY <3>4, <3>8
    <3>10. vector' \in [Slots("vector") -> Seq(Or0("item"))]
      BY <3>4, <3>7, <3>8
    <3>11. VectorsIn(vector', I, V)
      <4> SUFFICES ASSUME NEW u \in V, NEW m \in 1 .. Len(vector'[u]), vector'[u][m] # Null PROVE vector'[u][m] \in I
        BY DEF VectorsIn
      <4>1. CASE u # v
        BY <1>2, <3>9, <4>1 DEF Heap, VectorsIn
      <4>2. CASE u = v
        <5>1. vector'[u] = s /\ m \in 1 .. Len(vector[v])
          BY <3>4, <3>7, <3>9, <4>2
        <5>2. vector[v][m] # Null => vector[v][m] \in I
          BY <1>2, <5>1 DEF Heap, VectorsIn
        <5> QED
          BY <1>5, <3>7, <5>1, <5>2
      <4> QED
        BY <4>1, <4>2
    <3>12. HashesIn(hash', I, H) /\ hash' \in [Slots("hash") -> [Keys -> Or0("item") \cup {Absent}]]
      BY <1>2, <2>2 DEF Heap, HashesIn, Typed
    <3> QED
      BY <1>1, <1>8, <2>2, <3>10, <3>11, <3>12, HeapEdited
  <2> QED
    BY <2>1, <2>2 DEF Assign
<1>10. StackIn(Len(stack) - 1, I)
  BY <1>1, <1>2, <1>3, <1>4, StackCuts DEF Popped
<1>11. Len(native) > 1 /\ Top.op \notin Framed /\ Top.base <= Len(stack) - 1
  BY <1>1, <1>3, <1>4 DEF Framed
<1> QED
  BY <1>1, <1>9, <1>10, <1>11, CallEnds

LEMMA ArrayBeginKeeps ==
  ASSUME NEW I, NEW H, NEW V, NEW F, NEW fr, Runs(I, H, V, F, fr), ArrayBegin
  PROVE  GInv'
<1>1. PICK v \in Slots("vector") :
        /\ Fresh("vector", v) /\ vector' = [vector EXCEPT ![v] = <<>>]
        /\ bits' = Allocated({<<"vector", v>>}) /\ native' = Entered("array", Len(stack), v)
  BY DEF ArrayBegin
<1>2. "array" \in Features /\ Awaited /\ UNCHANGED <<item, hash, frame, stack, cur, exception, gc, todo>>
  BY DEF ArrayBegin, Uses
<1>3. Typed /\ Heap(I, H, V, F)
  BY RootsAre
<1>4. PICK W : W = V \cup {v}
  OBVIOUS
<1>5. v \notin V /\ W \subseteq Slots("vector")
  BY <1>1, <1>3, <1>4, FreshIsOut DEF Heap
<1>6. \A u \in Slots("vector") : vector'[u] = IF u = v THEN <<>> ELSE vector[u]
  BY <1>1, <1>3 DEF Typed
<1>7. vector' \in [Slots("vector") -> Seq(Or0("item"))]
  BY <1>1, <1>3 DEF Typed
<1>8. bits' \in [Objects -> SUBSET {"USE", "GC", "CN"}]
      /\ \A o \in Objects : bits'[o] = IF o \in {<<"vector", v>>} THEN {"USE", "CN"} ELSE bits[o]
  BY <1>1, <1>3, AllocatedIs
<1>9. HeapTyped'
  BY <1>2, <1>3, <1>7, <1>8 DEF HeapTyped, Typed
<1>10. Makes' /\ Walks'
  <2>1. \A h \in Slots("hash") : <<"hash", h>> \in Objects
    BY ObjectsAre DEF Kinds
  <2>2. \A h \in Slots("hash") : "USE" \in bits'[<<"hash", h>>] \/ (hash'[h] = hash[h] /\ ~InUse(<<"hash", h>>))
    BY <1>2, <1>8, <2>1 DEF InUse
  <2> QED
    BY <1>2, <2>2, MakesStay, WalksStay DEF Runs
<1>11. BitsGrow(I, I, "item") /\ BitsGrow(H, H, "hash") /\ BitsGrow(V, W, "vector") /\ BitsGrow(F, F, "frame")
  <2>1. "item" \in Kinds /\ "hash" \in Kinds /\ "vector" \in Kinds /\ "frame" \in Kinds
    BY DEF Kinds
  <2>2. /\ I \subseteq Slots("item") /\ H \subseteq Slots("hash")
        /\ V \subseteq Slots("vector") /\ F \subseteq Slots("frame")
    BY <1>3 DEF Heap
  <2> QED
    BY <1>1, <1>3, <1>4, <1>5, <2>1, <2>2, BitsGrown
<1>12. VectorsIn(vector', I, W)
  BY <1>3, <1>4, <1>5, <1>6 DEF Heap, VectorsIn
<1>13. Grow(I, H, V, F, I, H, W, F)
  BY <1>2, <1>3, <1>4, <1>5, <1>11, <1>12 DEF Grow, Heap, HashesIn, FramesIn, FrameIn
<1>14. HeapGrown(I, H, V, F, I, H, W, F)
  BY <1>2, <1>9, <1>10, <1>13, Grows
<1>15. PICK p : p = Len(stack)
  OBVIOUS
<1>16. p \in 0 .. Len(stack) /\ p \in Nat /\ p <= MaxStack /\ Top.base + Needs(Top.op) <= p
  BY <1>15, StacksAre
<1>17. StackIn(p, I)
  BY <1>2, <1>16, StackStays
<1>18. PICK r : r = [op |-> "array", base |-> p, obj |-> v]
  OBVIOUS
<1>19. r.op = "array" /\ r.base = p /\ r.obj = v /\ r.op \notin Framed /\ Needs(r.op) = 0
  BY <1>18 DEF Framed, Needs
<1>20. r \in EntrySet
  <2>1. v \in Nat
    BY SlotsAre
  <2> QED
    BY <1>16, <1>18, <2>1, MkGcAssumption DEF EntrySet
<1>21. native' = Append(native, r)
  BY <1>1, <1>15, <1>18 DEF Entered
<1>22. Len(native') = Len(native) + 1 /\ stack' = stack
  BY <1>2, <1>3, <1>20, <1>21 DEF Typed
<1>23. NewEntry(r, Len(native) + 1, Len(native), p, fr, I, W)
  BY <1>2, <1>4, <1>15, <1>16, <1>19, <1>20, <1>22 DEF NewEntry
<1> QED
  BY <1>2, <1>14, <1>16, <1>17, <1>19, <1>21, <1>23, CallBegins

LEMMA ArrayEndKeeps ==
  ASSUME NEW I, NEW H, NEW V, NEW F, NEW fr, Runs(I, H, V, F, fr), ArrayEnd
  PROVE  GInv'
<1>1. PICK i \in Slots("item") : NewItem(i, Array(Top.obj)) /\ stack' = Append(stack, i)
  BY DEF ArrayEnd
<1>2. /\ Top.op = "array" /\ Operands = 0 /\ CanPush /\ native' = Left
      /\ UNCHANGED <<hash, vector, frame>> /\ UNCHANGED <<cur, exception, gc, todo>>
  BY DEF ArrayEnd
<1>3. Typed /\ Heap(I, H, V, F) /\ InC(fr, V) /\ V \subseteq Slots("vector")
  BY RootsAre DEF Heap, Runs, Safe
<1>4. /\ Len(stack) \in Nat /\ Top.base \in Nat /\ Operands = Len(stack) - Top.base
      /\ Top = native[Len(native)] /\ Len(native) \in 1 .. Len(native) /\ Len(native) \in Nat /\ native[1].op = "body"
  BY StacksAre, OperandsAre
<1>5. Top.obj \in V
  BY <1>2, <1>3, <1>4 DEF InC
<1>6. PICK v \in V : v = Top.obj
  BY <1>5
<1>7. PICK r : r = Array(v)
  OBVIOUS
<1>8. r \in ItemSet
  BY <1>3, <1>7, EditedItems DEF Or0
<1>9. r.type = "array" /\ r.vector = v /\ r.hash = Null /\ r.frame = Null /\ r.item = Null /\ v # Null
  <2>1. v # Null
    BY <1>3, SlotsAre DEF Null
  <2> QED
    BY <1>7, <2>1 DEF Array, NoItem
<1>10. Shape(r) /\ Made(r) /\ r.type \notin {"class", "ref"} /\ ItemIn(r, I, H, V, F)
  BY <1>9 DEF Shape, Made, ItemIn
<1>11. HeapGrown(I, H, V, F, I \cup {i}, H, V, F)
  BY <1>1, <1>2, <1>6, <1>7, <1>8, <1>10, ItemMade
<1>12. PICK J : J = I \cup {i}
  OBVIOUS
<1>13. StackIn(Len(stack), J)
  BY <1>1, <1>2, <1>3, <1>12, StackPuts DEF CanPush, Or0
<1>14. Len(native) > 1 /\ Top.base <= Len(stack) /\ Top.op \notin Framed
  BY <1>2, <1>4 DEF Framed
<1> QED
  BY <1>2, <1>11, <1>12, <1>13, <1>14, CallEnds

LEMMA PushElementRefKeeps ==
  ASSUME HeldElsewhere, NEW I, NEW H, NEW V, NEW F, NEW fr, Runs(I, H, V, F, fr),
         NEW n \in 1 .. MaxLength, PushElementRef(n)
  PROVE  GInv'
<1>1. PICK i \in Slots("item") : NewItem(i, RefArray(item[Operand(0)].vector, n)) /\ stack' = Append(Popped(1), i)
  BY DEF PushElementRef
<1>2. /\ Evaluated /\ native' = Entered("assign", Len(stack) - 1, Null) /\ Operand(0) # Null
      /\ item[Operand(0)].type = "array"
      /\ UNCHANGED <<hash, vector, frame>> /\ UNCHANGED <<cur, exception, gc, todo>>
  BY DEF PushElementRef
<1>3. Typed /\ Heap(I, H, V, F) /\ V \subseteq Slots("vector")
  BY RootsAre DEF Heap
<1>4. Operand(0) \in I
  BY <1>2, OperandsAre
<1>5. item[Operand(0)].vector \in V
  BY <1>2, <1>4, ItemsLead
<1>6. PICK v \in V : v = item[Operand(0)].vector
  BY <1>5
<1>7. PICK r : r = RefArray(v, n)
  OBVIOUS
<1>8. r \in ItemSet
  <2>1. n \in 0 .. MaxLength
    BY MkGcAssumption
  <2>2. v \in Or0("vector")
    BY <1>3 DEF Or0
  <2> QED
    BY <1>7, <2>1, <2>2, EditedItems
<1>9. r.type = "refarray" /\ r.vector = v /\ r.hash = Null /\ r.frame = Null /\ r.item = Null /\ v # Null
  <2>1. v # Null
    BY <1>3, SlotsAre DEF Null
  <2> QED
    BY <1>7, <2>1 DEF RefArray, NoItem
<1>10. Shape(r) /\ Made(r) /\ r.type \notin {"class", "ref"} /\ ItemIn(r, I, H, V, F)
  BY <1>9 DEF Shape, Made, ItemIn
<1>11. HeapGrown(I, H, V, F, I \cup {i}, H, V, F)
  BY <1>1, <1>2, <1>6, <1>7, <1>8, <1>10, ItemMade
<1>12. item'[i].type = "refarray"
  BY <1>1, <1>3, <1>6, <1>7, <1>9 DEF NewItem, Typed
<1> QED
  BY <1>1, <1>2, <1>11, <1>12, RefBegins

-----------------------------------------------------------------------------
(* A frame is entered: X has the hash table of its parameter, if it has    *)
(* one.                                                                    *)
Entries(x) == [NoEntries EXCEPT !["x"] = x]

MadeScope(X, l, x) ==
  \/ X = {} /\ l = Null /\ hash' = hash
  \/ X = {l} /\ Fresh("hash", l) /\ hash' = [hash EXCEPT ![l] = Entries(x)]

LEMMA EntriesIs ==
  ASSUME NEW x \in Or0("item")
  PROVE  /\ Entries(x) \in [Keys -> Or0("item") \cup {Absent}]
         /\ \A k \in Keys : Entries(x)[k] = IF k = "x" THEN x ELSE Absent
<1>1. "x" \in Keys
  BY KeysAre
<1> QED
  BY <1>1 DEF Entries, NoEntries

LEMMA NewFrameIs ==
  ASSUME Typed, NEW f \in Slots("frame"), NEW this \in Or0("item"), NEW l \in Or0("hash"),
         NEW owner \in Or0("frame"), NEW previous \in Or0("frame"),
         NEW r, r = NewFrame(f, this, l, owner, previous)
  PROVE  /\ r \in FrameSet /\ ~r.hasLast /\ r.this = this /\ r.locals = l
         /\ r.owner = owner /\ r.previous = previous
<1>1. frame[f] \in FrameSet
  BY RecordsAre
<1>2. PICK a : a = [frame[f] EXCEPT !.hasLast = FALSE]
  OBVIOUS
<1>3. PICK b : b = [a EXCEPT !.this = this]
  OBVIOUS
<1>4. PICK c : c = [b EXCEPT !.locals = l]
  OBVIOUS
<1>5. PICK d : d = [c EXCEPT !.owner = owner]
  OBVIOUS
<1>6. PICK e : e = [d EXCEPT !.previous = previous]
  OBVIOUS
<1>7. a \in FrameSet /\ ~a.hasLast
  BY <1>1, <1>2 DEF FrameSet
<1>8. b \in FrameSet /\ ~b.hasLast /\ b.this = this
  BY <1>3, <1>7 DEF FrameSet
<1>9. c \in FrameSet /\ ~c.hasLast /\ c.this = this /\ c.locals = l
  BY <1>4, <1>8 DEF FrameSet
<1>10. d \in FrameSet /\ ~d.hasLast /\ d.this = this /\ d.locals = l /\ d.owner = owner
  BY <1>5, <1>9 DEF FrameSet
<1>11. e \in FrameSet /\ ~e.hasLast /\ e.this = this /\ e.locals = l /\ e.owner = owner /\ e.previous = previous
  BY <1>6, <1>10 DEF FrameSet
<1>12. e = r
  BY <1>2, <1>3, <1>4, <1>5, <1>6 DEF NewFrame
<1> QED
  BY <1>11, <1>12

LEMMA FrameMade ==
  ASSUME NEW I, NEW H, NEW V, NEW F, NEW fr, Runs(I, H, V, F, fr), UNCHANGED <<item, vector>>,
         NEW f \in Slots("frame"), Fresh("frame", f),
         NEW this \in Or0("item"), this # Null => this \in I,
         NEW owner \in Or0("frame"), owner # Null => owner \in F, NEW previous \in F,
         NEW X, NEW l \in Or0("hash"), NEW x \in Or0("item"), x # Null => x \in I, MadeScope(X, l, x),
         frame' = [frame EXCEPT ![f] = NewFrame(f, this, l, owner, previous)],
         bits' = Allocated({<<"frame", f>>} \cup {<<"hash", h>> : h \in X})
  PROVE  HeapGrown(I, H, V, F, I, H \cup X, V, F \cup {f})
<1> DEFINE A == {<<"frame", f>>} \cup {<<"hash", h>> : h \in X}
           K == H \cup X
           G == F \cup {f}
<1>1. Typed /\ Heap(I, H, V, F) /\ "x" \in Keys /\ "super" \in Keys /\ "Kernel" \in Keys
  BY RootsAre
<1>2. /\ I \subseteq Slots("item") /\ H \subseteq Slots("hash")
      /\ V \subseteq Slots("vector") /\ F \subseteq Slots("frame")
  BY <1>1 DEF Heap
<1>3. f \notin F /\ X \subseteq Slots("hash") /\ \A h \in X : h \notin H /\ ~InUse(<<"hash", h>>)
  <2>1. f \notin F
    BY <1>1, FreshIsOut
  <2>2. \A h : Fresh("hash", h) => h \in Slots("hash") /\ h \notin H /\ ~InUse(<<"hash", h>>)
    BY <1>1, FreshIsOut DEF Fresh
  <2>3. X = {} \/ (X = {l} /\ Fresh("hash", l))
    BY DEF MadeScope
  <2> QED
    BY <2>1, <2>2, <2>3
<1>r. PICK r : r = NewFrame(f, this, l, owner, previous)
  OBVIOUS
<1>4. previous \in Or0("frame")
  BY <1>2 DEF Or0
<1>5. /\ r \in FrameSet /\ ~r.hasLast /\ r.this = this /\ r.locals = l
      /\ r.owner = owner /\ r.previous = previous
  BY <1>1, <1>4, <1>r, NewFrameIs
<1>6. frame' \in [Slots("frame") -> FrameSet] /\ \A g \in Slots("frame") : frame'[g] = IF g = f THEN r ELSE frame[g]
  BY <1>1, <1>5, <1>r DEF Typed
<1>7. /\ hash' \in [Slots("hash") -> [Keys -> Or0("item") \cup {Absent}]]
      /\ \A h \in Slots("hash") : h \notin X => hash'[h] = hash[h]
      /\ \A h \in X : hash'[h] = Entries(x)
  <2>1. hash \in [Slots("hash") -> [Keys -> Or0("item") \cup {Absent}]] /\ Entries(x) \in [Keys -> Or0("item") \cup {Absent}]
    BY <1>1, EntriesIs DEF Typed
  <2> QED
    BY <1>3, <2>1 DEF MadeScope
<1>8. \A h \in X, k \in Keys : hash'[h][k] = IF k = "x" THEN x ELSE Absent
  BY <1>7, EntriesIs
<1>9. l = Null \/ l \in X
  BY DEF MadeScope
<1>10. \A o \in Objects : bits'[o] = IF o \in A THEN {"USE", "CN"} ELSE bits[o]
  BY <1>1, AllocatedIs
<1>11. HeapTyped'
  <2>1. bits' \in [Objects -> SUBSET {"USE", "GC", "CN"}]
    BY <1>1, AllocatedIs
  <2> QED
    BY <1>1, <1>6, <1>7, <2>1 DEF HeapTyped, Typed
<1>12. \A h \in Slots("hash") : <<"hash", h>> \in Objects /\ (<<"hash", h>> \in A <=> h \in X)
  BY ObjectsAre DEF Kinds
<1>13. Makes' /\ Walks'
  <2>1. \A h \in Slots("hash") : "USE" \in bits'[<<"hash", h>>] \/ (hash'[h] = hash[h] /\ ~InUse(<<"hash", h>>))
    BY <1>7, <1>10, <1>12 DEF InUse
  <2>2. \A h \in Slots("hash") : hash'[h]["super"] <= Null \/ hash'[h]["super"] = hash[h]["super"]
    BY <1>1, <1>7, <1>8 DEF Absent, Null
  <2> QED
    BY <2>1, <2>2, MakesStay, WalksStay DEF Runs
<1>14. BitsGrow(I, I, "item") /\ BitsGrow(H, K, "hash") /\ BitsGrow(V, V, "vector") /\ BitsGrow(F, G, "frame")
  <2>1. "item" \in Kinds /\ "hash" \in Kinds /\ "vector" \in Kinds /\ "frame" \in Kinds
    BY DEF Kinds
  <2>2. K \subseteq Slots("hash") /\ G \subseteq Slots("frame")
    BY <1>2, <1>3
  <2>3. \A n \in K : <<"hash", n>> \in A <=> n \notin H
    BY <1>3
  <2>4. (\A n \in V : <<"vector", n>> \notin A) /\ (\A n \in I : <<"item", n>> \notin A)
    OBVIOUS
  <2>5. \A n \in G : <<"frame", n>> \in A <=> n \notin F
    BY <1>3
  <2> HIDE DEF A, K, G
  <2>6. BitsGrow(I, I, "item") /\ BitsGrow(V, V, "vector")
    BY <1>1, <1>2, <2>1, <2>4, BitsGrown DEF A
  <2>7. BitsGrow(H, K, "hash")
    BY <1>1, <1>2, <2>1, <2>2, <2>3, BitsGrown DEF A
  <2>8. BitsGrow(F, G, "frame")
    BY <1>1, <1>2, <2>1, <2>2, <2>5, BitsGrown DEF A
  <2> QED
    BY <2>6, <2>7, <2>8
<1>15. HashesIn(hash', I, K)
  <2> SUFFICES ASSUME NEW h \in K, NEW k \in Keys, hash'[h][k] > Null PROVE hash'[h][k] \in I
    BY DEF HashesIn
  <2>1. CASE h \in X
    BY <1>8, <2>1 DEF Absent, Null
  <2>2. CASE h \notin X
    BY <1>1, <1>2, <1>7, <2>2 DEF Heap, HashesIn
  <2> QED
    BY <2>1, <2>2
<1>16. FramesIn(frame', I, K, G)
  <2>1. \A g \in F : FrameIn(frame[g], I, H, F)
    BY <1>1 DEF Heap, FramesIn
  <2>2. \A g \in F : FrameIn(frame[g], I, K, G)
    BY <2>1 DEF FrameIn
  <2>3. FrameIn(r, I, K, G)
    BY <1>5, <1>9 DEF FrameIn
  <2> QED
    BY <1>2, <1>6, <2>2, <2>3 DEF FramesIn
<1>17. \A g \in G : \/ frame'[g].locals = Null
                    \/ frame'[g].locals \in K \ H
                    \/ g \in F /\ frame'[g].locals = frame[g].locals
  <2>1. \A g \in F : frame'[g].locals = frame[g].locals
    BY <1>2, <1>3, <1>6
  <2>2. frame'[f].locals = l
    BY <1>5, <1>6
  <2> QED
    BY <1>3, <1>9, <2>1, <2>2
<1>18. Grow(I, H, V, F, I, K, V, G)
  <2>1. (\A h \in H : hash'[h] = hash[h]) /\ (\A h \in K \ H : hash'[h]["super"] = Absent)
    BY <1>1, <1>2, <1>3, <1>7, <1>8
  <2>2. (\A h \in H : hash'[h]["super"] = hash[h]["super"] /\ hash'[h]["Kernel"] = hash[h]["Kernel"])
        /\ \A h \in K \ H : hash'[h]["super"] <= Null
    BY <2>1 DEF Absent, Null
  <2>3. K \subseteq Slots("hash") /\ G \subseteq Slots("frame") /\ H \subseteq K /\ F \subseteq G
    BY <1>2, <1>3
  <2>4. VectorsIn(vector', I, V) /\ \A i \in I : item'[i] = item[i]
    BY <1>1 DEF Heap, VectorsIn
  <2> HIDE DEF K, G, A
  <2> QED
    BY <1>2, <1>14, <1>15, <1>16, <1>17, <2>2, <2>3, <2>4 DEF Grow
<1>19. \A g \in F : frame'[g] = frame[g]
  BY <1>2, <1>3, <1>6
<1>20. \A h \in H : hash'[h] = hash[h]
  BY <1>2, <1>3, <1>7
<1> HIDE DEF K, G, A
<1>21. \A g \in F : frame[g].locals # Null /\ hash[frame[g].locals]["x"] > Null =>
                            hash'[frame[g].locals]["x"] = hash[frame[g].locals]["x"]
  BY <1>1, <1>20 DEF Heap, FramesIn, FrameIn
<1>22. HeapGrown(I, H, V, F, I, K, V, G)
  BY <1>11, <1>13, <1>18, <1>19, <1>21, Grows
<1> QED
  BY <1>22 DEF K, G

LEMMA FrameEnters ==
  ASSUME NEW I, NEW H, NEW V, NEW F, NEW fr, Runs(I, H, V, F, fr), UNCHANGED <<item, vector>>,
         NEW f \in Slots("frame"),
         NEW this \in Or0("item"), this # Null => this \in I,
         NEW owner \in Or0("frame"), owner # Null => owner \in F, NEW previous \in F,
         NEW args, args # <<>> => args[1] \in Or0("item") /\ (args[1] # Null => args[1] \in I),
         EnterFrame(f, this, args, owner, previous)
  PROVE  \E K, G : HeapGrown(I, H, V, F, I, K, V, G) /\ cur' \in G /\ frame'[cur'].previous = previous
<1>1. Typed /\ F \subseteq Slots("frame")
  BY RootsAre DEF Heap
<1>2. Fresh("frame", f) /\ cur' = f
  BY DEF EnterFrame
<1>3. ASSUME NEW X, NEW l \in Or0("hash"), frame' = [frame EXCEPT ![f] = NewFrame(f, this, l, owner, previous)],
             HeapGrown(I, H, V, F, I, H \cup X, V, F \cup {f})
      PROVE  \E K, G : HeapGrown(I, H, V, F, I, K, V, G) /\ cur' \in G /\ frame'[cur'].previous = previous
  <2>1. PICK r : r = NewFrame(f, this, l, owner, previous)
    OBVIOUS
  <2>2. previous \in Or0("frame")
    BY <1>1 DEF Or0
  <2>3. r.previous = previous
    BY <1>1, <2>1, <2>2, NewFrameIs
  <2>4. frame'[f] = r
    BY <1>1, <1>3, <2>1 DEF Typed
  <2> QED
    BY <1>2, <1>3, <2>3, <2>4
<1>4. CASE args = <<>>
  <2>1. frame' = [frame EXCEPT ![f] = NewFrame(f, this, Null, owner, previous)]
        /\ bits' = Allocated({<<"frame", f>>}) /\ hash' = hash
    BY <1>4 DEF EnterFrame
  <2>2. MadeScope({}, Null, Null) /\ Null \in Or0("hash") /\ Null \in Or0("item")
    BY <2>1 DEF MadeScope, Or0
  <2>3. {<<"frame", f>>} = {<<"frame", f>>} \cup {<<"hash", h>> : h \in {}}
    OBVIOUS
  <2>4. HeapGrown(I, H, V, F, I, H \cup {}, V, F \cup {f})
    BY <1>2, <2>1, <2>2, <2>3, FrameMade
  <2> QED
    BY <1>3, <2>1, <2>2, <2>4
<1>5. CASE args # <<>>
  <2>1. PICK h \in Slots("hash") :
          /\ Fresh("hash", h)
          /\ hash' = [hash EXCEPT ![h] = [NoEntries EXCEPT !["x"] = args[1]]]
          /\ frame' = [frame EXCEPT ![f] = NewFrame(f, this, h, owner, previous)]
          /\ bits' = Allocated({<<"frame", f>>, <<"hash", h>>})
    BY <1>5 DEF EnterFrame
  <2>2. MadeScope({h}, h, args[1]) /\ h \in Or0("hash") /\ args[1] \in Or0("item") /\ (args[1] # Null => args[1] \in I)
    BY <1>5, <2>1 DEF MadeScope, Or0, Entries
  <2>3. {<<"frame", f>>, <<"hash", h>>} = {<<"frame", f>>} \cup {<<"hash", g>> : g \in {h}}
    OBVIOUS
  <2>4. HeapGrown(I, H, V, F, I, H \cup {h}, V, F \cup {f})
    BY <1>2, <2>1, <2>2, <2>3, FrameMade
  <2> QED
    BY <1>3, <2>1, <2>2, <2>4
<1> QED
  BY <1>4, <1>5

-----------------------------------------------------------------------------
(* The steps that call a body.                                             *)
LEMMA ByNameIn ==
  ASSUME NEW I, NEW H, NEW V, NEW F, NEW fr, Runs(I, H, V, F, fr), NEW f \in F, NEW obj, ByName(f, obj)
  PROVE  obj \in F
<1>1. PICK h \in Slots("hash") :
        /\ h = frame[f].locals \/ (frame[f].owner # Null /\ h = frame[frame[f].owner].locals)
        /\ hash[h]["x"] > Null
        /\ item[hash[h]["x"]].type = "node" /\ item[hash[h]["x"]].frame = obj
  BY DEF ByName
<1>2. h # Null /\ "x" \in Keys
  BY SlotsAre, KeysAre DEF Null
<1>3. \E g \in F : h = frame[g].locals
  BY <1>1, FramesLead
<1>4. h \in H
  BY <1>2, <1>3, FramesLead
<1>5. hash[h]["x"] \in I
  BY <1>1, <1>2, <1>4, HashesLead
<1> QED
  BY <1>1, <1>5, ItemsLead

LEMMA SubSeqOfOne ==
  ASSUME NEW S, NEW s \in Seq(S), NEW m \in 1 .. Len(s)
  PROVE  SubSeq(s, m, m)[1] = s[m]
<1>1. SubSeq(s, m, m) = [n \in 1 .. (m - m) + 1 |-> s[(n + m) - 1]]
  OBVIOUS
<1>2. 1 \in 1 .. (m - m) + 1 /\ (1 + m) - 1 = m
  OBVIOUS
<1> QED
  BY <1>1, <1>2

LEMMA ArgumentsAre ==
  ASSUME NEW I, NEW H, NEW V, NEW F, NEW fr, Runs(I, H, V, F, fr),
         Top.op \in {"args", "invoke"}, Operands \in {1, 2},
         NEW args, args = SubSeq(stack, Top.base + 2, Len(stack)), NEW first, first = stack[Top.base + 1]
  PROVE  /\ first \in Or0("item") /\ (first # Null => first \in I)
         /\ args # <<>> => args[1] \in Or0("item") /\ (args[1] # Null => args[1] \in I)
         /\ Top.base \in 0 .. Len(stack)
<1>1. Len(stack) \in Nat /\ Top.base \in Nat /\ Operands = Len(stack) - Top.base /\ stack \in Seq(Or0("item"))
  BY StacksAre, OperandsAre, RootsAre DEF Typed
<1>2. Top.base + 1 \in 1 .. Len(stack)
  BY <1>1
<1>3. first \in Or0("item") /\ (first # Null => first \in I)
  BY <1>2, OperandsAre
<1>4. CASE Operands = 1
  <2>1. args = <<>>
    BY <1>1, <1>4
  <2> QED
    BY <1>1, <1>2, <1>3, <2>1
<1>5. CASE Operands = 2
  <2>1. Top.base + 2 \in 1 .. Len(stack)
    BY <1>1, <1>5
  <2>2. PICK m \in Nat : m = Top.base + 2 /\ m = Len(stack)
    BY <1>1, <1>5
  <2>3. args = SubSeq(stack, m, m) /\ m \in 1 .. Len(stack)
    BY <2>1, <2>2
  <2>4. args[1] = stack[m]
    BY <1>1, <2>3, SubSeqOfOne
  <2>5. args[1] \in Or0("item") /\ (args[1] # Null => args[1] \in I)
    BY <2>3, <2>4, OperandsAre
  <2> QED
    BY <1>1, <1>2, <1>3, <2>5
<1> QED
  BY <1>4, <1>5

LEMMA EnterMethodKeeps ==
  ASSUME NEW I, NEW H, NEW V, NEW F, NEW fr, Runs(I, H, V, F, fr), EnterMethod
  PROVE  GInv'
<1> DEFINE p == Top.base
           N == Len(native)
<1>1. /\ Top.op = "args" /\ Operands \in {1, 2} /\ stack' = SubSeq(stack, 1, p) /\ native' = Append(Left, Body(p))
      /\ UNCHANGED <<item, vector, exception, gc, todo>>
  BY DEF EnterMethod
<1>2. PICK args : args = SubSeq(stack, Top.base + 2, Len(stack))
  OBVIOUS
<1>3. PICK first : first = stack[Top.base + 1]
  OBVIOUS
<1>4. PICK f \in Slots("frame") : EnterFrame(f, first, args, Top.obj, cur)
  BY <1>2, <1>3 DEF EnterMethod
<1>5. /\ first \in Or0("item") /\ (first # Null => first \in I)
      /\ args # <<>> => args[1] \in Or0("item") /\ (args[1] # Null => args[1] \in I)
      /\ p \in 0 .. Len(stack)
  BY <1>1, <1>2, <1>3, ArgumentsAre
<1>6. Typed /\ cur \in F /\ Len(stack) <= MaxStack
  BY RootsAre, StacksAre
<1>7. Top.obj \in Or0("frame") /\ (Top.obj # Null => Top.obj \in F)
  <2>1. Holds(Top) /\ Top = native[N] /\ N \in 1 .. N /\ fr[N] = cur
    BY <1>6, RecordsAre, StacksAre
  <2>2. Kept(fr, N)
    BY <2>1 DEF Runs, Safe, InC
  <2>3. Top.obj # Null => ByName(cur, Top.obj)
    BY <1>1, <2>1, <2>2 DEF Kept
  <2> QED
    BY <1>1, <1>6, <2>1, <2>3, ByNameIn DEF Holds
<1>8. PICK K, G : HeapGrown(I, H, V, F, I, K, V, G) /\ cur' \in G /\ frame'[cur'].previous = cur
  BY <1>1, <1>4, <1>5, <1>6, <1>7, FrameEnters
<1>9. StackIn(p, I)
  BY <1>1, <1>5, <1>6, StackCuts
<1> HIDE DEF N
<1> QED
  BY <1>1, <1>8, <1>9, CallTurns

LEMMA InvokeKeeps ==
  ASSUME NEW I, NEW H, NEW V, NEW F, NEW fr, Runs(I, H, V, F, fr), Invoke
  PROVE  GInv'
<1> DEFINE p == Top.base
           N == Len(native)
<1>1. /\ Top.op = "invoke" /\ Operands \in {1, 2} /\ stack' = SubSeq(stack, 1, p) /\ native' = Append(Left, Body(p))
      /\ UNCHANGED <<item, vector, exception, gc, todo>>
  BY DEF Invoke
<1>2. PICK args : args = SubSeq(stack, Top.base + 2, Len(stack))
  OBVIOUS
<1>3. PICK first : first = stack[Top.base + 1]
  OBVIOUS
<1>4. PICK receiver : receiver = IF item[first].item = Null THEN frame[cur].this ELSE item[first].item
  OBVIOUS
<1>5. PICK f \in Slots("frame") : EnterFrame(f, receiver, args, item[first].frame, cur)
  BY <1>2, <1>3, <1>4 DEF Invoke
<1>6. /\ first \in Or0("item") /\ (first # Null => first \in I)
      /\ args # <<>> => args[1] \in Or0("item") /\ (args[1] # Null => args[1] \in I)
      /\ p \in 0 .. Len(stack)
  BY <1>1, <1>2, <1>3, ArgumentsAre
<1>7. Typed /\ cur \in F /\ Len(stack) <= MaxStack
  BY RootsAre, StacksAre
<1>8. first \in I /\ item[first].type = "node"
  <2>1. Top = native[N] /\ N \in 1 .. N
    BY <1>7, RecordsAre
  <2>2. Expected(N)
    BY <2>1 DEF Runs, Safe, InC
  <2> QED
    BY <1>1, <1>3, <1>6, <2>1, <2>2 DEF Expected
<1>9. item[first].frame \in F /\ item[first].frame \in Or0("frame")
  BY <1>8, ItemsLead, FramesLead DEF Or0
<1>10. receiver \in Or0("item") /\ (receiver # Null => receiver \in I)
  BY <1>4, <1>7, <1>8, ItemsLead, FramesLead
<1>11. PICK K, G : HeapGrown(I, H, V, F, I, K, V, G) /\ cur' \in G /\ frame'[cur'].previous = cur
  <2>1. PICK owner : owner = item[first].frame
    OBVIOUS
  <2> QED
    BY <1>1, <1>5, <1>6, <1>7, <1>9, <1>10, <2>1, FrameEnters
<1>12. StackIn(p, I)
  BY <1>1, <1>6, <1>7, StackCuts
<1> HIDE DEF N
<1> QED
  BY <1>1, <1>11, <1>12, CallTurns

LEMMA HandleKeeps ==
  ASSUME NEW I, NEW H, NEW V, NEW F, NEW fr, Runs(I, H, V, F, fr), Handle
  PROVE  GInv'
<1> DEFINE p == Top.base
<1>1. /\ Top.op = "catch" /\ Operands = 1 /\ stack' = Popped(1) /\ native' = Append(Left, Handler(p))
      /\ exception' = Null /\ UNCHANGED <<item, vector, gc, todo>>
  BY DEF Handle
<1>2. PICK args : args = <<exception>>
  OBVIOUS
<1>3. PICK f \in Slots("frame") : EnterFrame(f, frame[cur].this, args, cur, cur)
  BY <1>2 DEF Handle
<1>4. Typed /\ cur \in F /\ Len(stack) <= MaxStack /\ cur # Null
  <2>1. Typed /\ cur \in F /\ Len(stack) <= MaxStack
    BY RootsAre, StacksAre
  <2> QED
    BY <2>1, FramesLead
<1>5. /\ exception \in Or0("item") /\ (exception # Null => exception \in I) /\ args[1] = exception
  BY <1>2, RootsAre
<1>6. cur \in Or0("frame") /\ frame[cur].this \in Or0("item") /\ (frame[cur].this # Null => frame[cur].this \in I)
  BY <1>4, FramesLead DEF Or0
<1>7. PICK K, G : HeapGrown(I, H, V, F, I, K, V, G) /\ cur' \in G /\ frame'[cur'].previous = cur
  BY <1>1, <1>3, <1>4, <1>5, <1>6, FrameEnters
<1>8. Len(stack) \in Nat /\ p \in Nat /\ p = Len(stack) - 1
  BY <1>1, StacksAre, OperandsAre
<1>9. StackIn(p, I)
  <2>1. p \in 0 .. Len(stack) /\ stack' = SubSeq(stack, 1, p)
    BY <1>1, <1>8 DEF Popped
  <2> QED
    BY <1>4, <2>1, StackCuts
<1> QED
  BY <1>1, <1>7, <1>8, <1>9, CallTurns

-----------------------------------------------------------------------------
(* An exception leaves the calls above that of the body which catches it.  *)
LEMMA ConcatIs ==
  ASSUME NEW S, NEW s \in Seq(S), NEW t \in Seq(S)
  PROVE  /\ s \o t \in Seq(S) /\ Len(s \o t) = Len(s) + Len(t)
         /\ \A k \in 1 .. Len(s) : (s \o t)[k] = s[k]
         /\ \A k \in 1 .. Len(t) : (s \o t)[Len(s) + k] = t[k]
OBVIOUS

LEMMA RaisedKeeps ==
  ASSUME NEW I, NEW H, NEW V, NEW F, NEW fr, Runs(I, H, V, F, fr),
         NEW j \in 1 .. Len(native), NEW e \in Or0("item"), e # Null => e \in I, Raised(j, e)
  PROVE  GInv'
<1> DEFINE base == native[j].base
           L    == Len(native')
<1>1. PICK c : c = CatcherOf(j)
  OBVIOUS
<1>2. /\ native[j].op \in {"body", "handler"}
      /\ \E f \in Slots("frame") : EnterFrame(f, frame[c].this, <<e>>, c, c)
      /\ exception' = e /\ stack' = SubSeq(stack, 1, base)
      /\ native' = SubSeq(native, 1, j) \o <<Catch(base), Condition(base)>>
      /\ UNCHANGED <<item, vector, gc, todo>>
  BY <1>1 DEF Raised, CatcherOf
<1>3. Typed /\ Safe(I, H, V, F, fr) /\ gc = "off" /\ Chained(fr, F) /\ Stacked /\ InC(fr, V)
  BY DEF Runs, Safe
<1>4. /\ Len(native) \in Nat /\ Len(stack) \in Nat /\ Len(stack) <= MaxStack /\ j \in Nat /\ j \in 1 .. j
      /\ native \in Seq(EntrySet) /\ \A k \in 1 .. j : k \in 1 .. Len(native)
  BY <1>3, StacksAre DEF Typed
<1>5. c = fr[j] /\ c \in F
  <2>1. c = fr[j]
    BY <1>1, <1>3, <1>4, CatcherIs
  <2> QED
    BY <1>3, <2>1 DEF Chained
<1>6. \A k \in 1 .. Len(native) : native[k].base \in Nat /\ Needs(native[k].op) \in {0, 1}
  BY StacksAre
<1>7. base \in 0 .. MaxStack /\ base \in 0 .. Len(stack) /\ base \in Nat
  <2>1. base \in 0 .. MaxStack
    BY <1>4, EntriesAre
  <2>2. base + Needs(native[j].op) <= Len(stack)
    BY <1>3 DEF Stacked
  <2> QED
    BY <1>4, <1>6, <2>1, <2>2
<1>8. Catch(base) \in EntrySet /\ Condition(base) \in EntrySet
      /\ Catch(base).op = "catch" /\ Catch(base).base = base /\ Catch(base).obj = Null
      /\ Condition(base).op = "condition" /\ Condition(base).base = base /\ Condition(base).obj = Null
  <2>1. PICK d : d = Catch(base)
    OBVIOUS
  <2>2. PICK n : n = Condition(base)
    OBVIOUS
  <2>3. d = [op |-> "catch", base |-> base, obj |-> Null] /\ n = [op |-> "condition", base |-> base, obj |-> Null]
    BY <2>1, <2>2 DEF Catch, Condition, Body
  <2>4. 0 \in Nat /\ Null = 0
    BY DEF Null
  <2> HIDE DEF base
  <2> QED
    BY <1>7, <2>1, <2>2, <2>3, <2>4 DEF EntrySet
<1>9. /\ native' \in Seq(EntrySet) /\ L = j + 2 /\ (\A k \in 1 .. j : native'[k] = native[k])
      /\ native'[j + 1] = Catch(base) /\ native'[j + 2] = Condition(base)
  <2>1. PICK s : s = SubSeq(native, 1, j)
    OBVIOUS
  <2>2. s \in Seq(EntrySet) /\ Len(s) = j /\ \A k \in 1 .. j : s[k] = native[k]
    BY <1>4, <2>1
  <2>3. PICK t : t = <<Catch(base), Condition(base)>>
    OBVIOUS
  <2>4. t \in Seq(EntrySet) /\ Len(t) = 2 /\ t[1] = Catch(base) /\ t[2] = Condition(base)
    BY <1>8, <2>3
  <2>5. native' = s \o t
    BY <1>2, <2>1, <2>3
  <2> HIDE DEF base
  <2>6. /\ s \o t \in Seq(EntrySet) /\ Len(s \o t) = Len(s) + Len(t)
        /\ \A k \in 1 .. Len(s) : (s \o t)[k] = s[k]
        /\ \A k \in 1 .. Len(t) : (s \o t)[Len(s) + k] = t[k]
    <3>1. s \in Seq(EntrySet) /\ t \in Seq(EntrySet)
      BY <2>2, <2>4
    <3> QED
      BY <3>1, ConcatIs
  <2>7. 1 \in 1 .. Len(t) /\ 2 \in 1 .. Len(t)
    BY <2>4
  <2>8. native'[j + 1] = t[1] /\ native'[j + 2] = t[2]
    BY <2>2, <2>5, <2>6, <2>7
  <2> QED
    BY <2>2, <2>4, <2>5, <2>6, <2>8
<1>10. c \in Or0("frame") /\ c # Null /\ frame[c].this \in Or0("item") /\ (frame[c].this # Null => frame[c].this \in I)
  BY <1>5, FramesLead DEF Or0
<1>11. PICK K, G : HeapGrown(I, H, V, F, I, K, V, G) /\ cur' \in G /\ frame'[cur'].previous = c
  <2>1. PICK args : args = <<e>>
    OBVIOUS
  <2>2. args[1] = e
    BY <2>1
  <2>3. PICK self : self = frame[c].this
    OBVIOUS
  <2>4. PICK f \in Slots("frame") : EnterFrame(f, self, args, c, c)
    BY <1>2, <2>1, <2>3
  <2>5. item' = item /\ vector' = vector /\ self \in Or0("item") /\ (self # Null => self \in I)
    BY <1>2, <1>10, <2>3
  <2> QED
    BY <1>5, <1>10, <2>2, <2>4, <2>5, FrameEnters
<1>12. HeapMoves(I, H, V, F, I, K, V, G)
  BY <1>11 DEF HeapGrown
<1>13. StackIn(base, I) /\ Len(stack') = base
  BY <1>2, <1>3, <1>4, <1>7, StackCuts
<1>14. \A k \in 1 .. j : native[k].base + Needs(native[k].op) <= base
  <2> SUFFICES ASSUME NEW k \in 1 .. j PROVE native[k].base + Needs(native[k].op) <= base
    OBVIOUS
  <2>1. CASE k = j
    <3>1. Needs(native[j].op) = 0
      BY <1>2 DEF Needs
    <3> QED
      BY <1>7, <2>1, <3>1
  <2>2. CASE k # j
    BY <1>3, <1>4, <2>2 DEF Stacked
  <2> QED
    BY <2>1, <2>2
<1>15. Stays(j, base)
  <2>1. \A k \in 1 .. j : native[k].op = "init" => hash'[item[native[k].obj].hash]["super"] = Null
    BY <1>4, <1>11, InitsStay DEF HeapGrown
  <2>2. base <= Len(stack') /\ \A n \in 1 .. base : stack'[n] = stack[n]
    BY <1>13 DEF StackIn
  <2> HIDE DEF base
  <2> QED
    BY <1>4, <1>7, <1>9, <1>14, <2>1, <2>2 DEF Stays
<1>16. \A k \in j + 1 .. L : k = j + 1 \/ k = j + 2
  BY <1>4, <1>9
<1>17. Link(j, fr)
  <2>1. L # j /\ native'[L].op = "condition" /\ L = j + 2
    BY <1>4, <1>8, <1>9
  <2>2. ASSUME NEW k \in j + 1 .. L, native'[k].op \in Framed
        PROVE  k = L /\ frame'[cur'].previous = fr[j]
    <3>1. k = j + 1 \/ k = j + 2
      BY <1>16
    <3>2. k # j + 1
      BY <1>8, <1>9, <2>2 DEF Framed
    <3> QED
      BY <1>5, <1>9, <1>11, <3>1, <3>2
  <2> QED
    BY <2>1, <2>2 DEF Link, Framed
<1>18. RootsMove(I, G)
  <2>1. \A n \in 1 .. Len(stack') : stack'[n] # Null => stack'[n] \in I
    BY <1>13, RootsAreIn
  <2> QED
    BY <1>2, <1>9, <1>11, <1>13, <2>1 DEF RootsMove, StackIn
<1>19. Pushed(j, base, fr, I, V)
  <2>1. ASSUME NEW m \in 1 .. j, native[m].op = "array" PROVE FALSE
    <3>1. m # j /\ m \in 1 .. Len(native) /\ j \in m + 1 .. Len(native)
      BY <1>2, <1>4, <2>1
    <3> QED
      BY <1>2, <1>3, <2>1, <3>1 DEF InC, Kept
  <2>2. ASSUME NEW k \in j + 1 .. L PROVE NewEntry(native'[k], k, j, base, fr, I, V)
    <3>1. PICK r : r = native'[k]
      OBVIOUS
    <3>2. r \in EntrySet /\ r.op \in {"catch", "condition"} /\ r.base = base /\ r.obj = Null
      BY <1>8, <1>9, <1>16, <3>1
    <3>3. Needs(r.op) = 0
      BY <3>2 DEF Needs
    <3>4. base + Needs(r.op) <= Len(stack')
      BY <1>7, <1>13, <3>3
    <3> HIDE DEF base, L
    <3> QED
      BY <2>1, <3>1, <3>2, <3>3, <3>4 DEF NewEntry
  <2> QED
    BY <2>2 DEF Pushed
<1>20. UNCHANGED <<gc, todo>>
  BY <1>2
<1> HIDE DEF base, L
<1> QED
  BY <1>3, <1>12, <1>15, <1>17, <1>18, <1>19, <1>20, Steps

LEMMA RaiseKeeps ==
  ASSUME NEW I, NEW H, NEW V, NEW F, NEW fr, Runs(I, H, V, F, fr), Raise
  PROVE  GInv'
<1>1. PICK j \in 1 .. Len(native) : Raised(j, Operand(0))
  BY DEF Raise
<1>2. Top.op \in {"body", "handler"} /\ Operands = 1
  BY DEF Raise, InBody
<1>3. Len(stack) \in 1 .. Len(stack)
  BY <1>2, StacksAre, OperandsAre
<1>4. PICK e : e = Operand(0)
  OBVIOUS
<1>5. e \in Or0("item") /\ (e # Null => e \in I)
  BY <1>3, <1>4, OperandsAre
<1> QED
  BY <1>1, <1>4, <1>5, RaisedKeeps

LEMMA ConditionFalseKeeps ==
  ASSUME NEW I, NEW H, NEW V, NEW F, NEW fr, Runs(I, H, V, F, fr), ConditionFalse
  PROVE  GInv'
<1>1. PICK j \in 1 .. Len(native) : Raised(j, exception)
  BY DEF ConditionFalse
<1>2. exception \in Or0("item") /\ (exception # Null => exception \in I)
  BY RootsAre
<1> QED
  BY <1>1, <1>2, RaisedKeeps

-----------------------------------------------------------------------------
(* A part of an object is made: item i with the hash table h, of which     *)
(* child, if there is one, is the more derived part, with the hash table   *)
(* c; and the frame f in which its members are initialised.                *)
LEMMA ClassIs ==
  ASSUME NEW h \in Slots("hash"), NEW child \in Or0("item")
  PROVE  /\ Class(h, child) \in ItemSet /\ Shape(Class(h, child))
         /\ Class(h, child).type = "class" /\ Class(h, child).hash = h /\ Class(h, child).item = child
         /\ Class(h, child).vector = Null /\ Class(h, child).frame = Null
<1>1. PICK a : a = [NoItem EXCEPT !.type = "class"]
  OBVIOUS
<1>2. PICK b : b = [a EXCEPT !.hash = h]
  OBVIOUS
<1>3. PICK d : d = [b EXCEPT !.item = child]
  OBVIOUS
<1>4. 0 \in 0 .. MaxLength /\ Null \in Or0("hash") /\ Null \in Or0("vector") /\ Null \in Or0("frame") /\ h \in Or0("hash")
      /\ Null \in Or0("item") /\ h # Null
  BY MkGcAssumption, SlotsAre DEF Or0, Null
<1>5. NoItem \in ItemSet
  BY <1>4 DEF ItemSet, ItemTypes, NoItem
<1>6. NoItem.vector = Null /\ NoItem.frame = Null
  BY DEF NoItem
<1>7. a \in ItemSet /\ a.type = "class" /\ a.vector = Null /\ a.frame = Null
  BY <1>1, <1>5, <1>6 DEF ItemSet, ItemTypes
<1>8. b \in ItemSet /\ b.type = "class" /\ b.hash = h /\ b.vector = Null /\ b.frame = Null
  BY <1>2, <1>4, <1>7 DEF ItemSet
<1>9. d \in ItemSet /\ d.type = "class" /\ d.hash = h /\ d.item = child /\ d.vector = Null /\ d.frame = Null
  BY <1>3, <1>8 DEF ItemSet
<1>10. d = Class(h, child)
  BY <1>1, <1>2, <1>3 DEF Class
<1> QED
  BY <1>4, <1>9, <1>10 DEF Shape

LEMMA BitsAre ==
  ASSUME NEW I, NEW H, NEW V, NEW F, NEW J, NEW K, NEW W, NEW G,
         Used(bits, I, H, V, F), Unmarked(bits, I, H, V, F),
         BitsGrow(I, J, "item"), BitsGrow(H, K, "hash"), BitsGrow(V, W, "vector"), BitsGrow(F, G, "frame")
  PROVE  Used(bits', J, K, W, G) /\ Unmarked(bits', J, K, W, G)
BY DEF Used, Unmarked, BitsGrow

PartStep(I, F, i, h, f, child, c, previous) ==
  /\ "new" \in Features /\ vector' = vector
  /\ Fresh("item", i) /\ Fresh("hash", h) /\ Fresh("frame", f)
  /\ child \in Or0("item") /\ item' = [item EXCEPT ![i] = Class(h, child)]
  /\ hash' \in [Slots("hash") -> [Keys -> Or0("item") \cup {Absent}]]
  /\ c \in Slots("hash") /\ \A k \in Keys : hash'[h][k] <= Null
  /\ \A g \in Slots("hash") : g \notin {h, c} => hash'[g] = hash[g]
  /\ child = Null => c = h
  /\ child # Null => /\ child \in I /\ child # Static /\ c = item[child].hash
                     /\ item[child].type = "class" /\ item[child].item = Null
                     /\ hash[c]["super"] = Null /\ hash'[c]["super"] = i
                     /\ \A k \in Keys : k # "super" /\ hash'[c][k] > Null => hash'[c][k] \in I
  /\ previous \in F /\ frame' = [frame EXCEPT ![f] = InitFrame(f, i, previous)]
  /\ bits' = Allocated({<<"item", i>>, <<"hash", h>>, <<"frame", f>>})

LEMMA PartMade ==
  ASSUME NEW I, NEW H, NEW V, NEW F, NEW fr, Runs(I, H, V, F, fr),
         NEW i, NEW h, NEW f, NEW child, NEW c, NEW previous, PartStep(I, F, i, h, f, child, c, previous)
  PROVE  /\ HeapMoves(I, H, V, F, I \cup {i}, H \cup {h}, V, F \cup {f})
         /\ i \in Slots("item") \ I /\ f \notin F
         /\ item'[i] = Class(h, child)
         /\ frame'[f].this = i /\ frame'[f].previous = previous
<1> DEFINE A == {<<"item", i>>, <<"hash", h>>, <<"frame", f>>}
           J == I \cup {i}
           K == H \cup {h}
           G == F \cup {f}
<1> USE DEF PartStep
<1>1. Typed /\ Heap(I, H, V, F) /\ Static \in I /\ Global \in H /\ "super" \in Keys /\ "x" \in Keys /\ "Kernel" \in Keys
  BY RootsAre
<1>2. /\ I \subseteq Slots("item") /\ H \subseteq Slots("hash")
      /\ V \subseteq Slots("vector") /\ F \subseteq Slots("frame")
  BY <1>1 DEF Heap
<1>3. i \in Slots("item") \ I /\ h \in Slots("hash") \ H /\ f \in Slots("frame") \ F /\ h # Null /\ i # Null
  BY <1>1, FreshIsOut, SlotsAre DEF Null
<1>4. PICK r : r = Class(h, child)
  OBVIOUS
<1>5. /\ r \in ItemSet /\ Shape(r) /\ r.type = "class" /\ r.hash = h /\ r.item = child
      /\ r.vector = Null /\ r.frame = Null
  BY <1>3, <1>4, ClassIs
<1>6. item' \in [Slots("item") -> ItemSet] /\ \A n \in Slots("item") : item'[n] = IF n = i THEN r ELSE item[n]
  BY <1>1, <1>3, <1>4, <1>5 DEF Typed
<1>7. PICK s : s = InitFrame(f, i, previous)
  OBVIOUS
<1>8. /\ s \in FrameSet /\ ~s.hasLast /\ s.this = i /\ s.locals = Null /\ s.owner = Null /\ s.previous = previous
  <2>1. s = NewFrame(f, i, Null, Null, previous)
    BY <1>7 DEF InitFrame
  <2>2. i \in Or0("item") /\ Null \in Or0("hash") /\ Null \in Or0("frame") /\ previous \in Or0("frame")
    BY <1>2, <1>3 DEF Or0
  <2> QED
    BY <1>1, <1>3, <2>1, <2>2, NewFrameIs
<1>9. frame' \in [Slots("frame") -> FrameSet] /\ \A g \in Slots("frame") : frame'[g] = IF g = f THEN s ELSE frame[g]
  BY <1>1, <1>3, <1>7, <1>8 DEF Typed
<1>10. \A o \in Objects : bits'[o] = IF o \in A THEN {"USE", "CN"} ELSE bits[o]
  BY <1>1, AllocatedIs
<1>11. HeapTyped'
  <2>1. bits' \in [Objects -> SUBSET {"USE", "GC", "CN"}]
    BY <1>1, AllocatedIs
  <2>2. \A n \in Slots("item") : Shape(item'[n])
    BY <1>1, <1>5, <1>6 DEF Typed
  <2> QED
    BY <1>1, <1>6, <1>9, <2>1, <2>2 DEF HeapTyped, Typed
<1>12. /\ \A n \in I : item[n].type = "class" => item[n].hash \in H /\ item[n].hash # Null
       /\ \A n \in I : item[n].type = "ref" => item[n].hash # Null
       /\ \A n \in I : item[n].item # Null => item[n].item \in I
  <2>1. \A n \in I : Shape(item[n])
    BY <1>1, <1>2 DEF Typed
  <2> QED
    BY <1>1, <2>1, ItemsLead DEF Shape
<1>13. child # Null => c \in H /\ c # h /\ c \notin {Global, 2} /\ \A g \in F : frame[g].locals # c
  <2> SUFFICES ASSUME child # Null
               PROVE  c \in H /\ c # h /\ c \notin {Global, 2} /\ \A g \in F : frame[g].locals # c
    OBVIOUS
  <2>1. c \in H
    BY <1>12
  <2>2. c \notin {Global, 2} /\ \A g \in F : frame[g].locals # c
    BY <1>1 DEF Heap, Apart
  <2> QED
    BY <1>3, <2>1, <2>2
<1>14. /\ \A g \in H : g # c => hash'[g] = hash[g]
       /\ child = Null => c \notin H
  BY <1>2, <1>3
<1>15. item[Static] = Class(2, Null) /\ item[Static].type = "class" /\ item[Static].hash = 2 /\ 2 \in H
       /\ hash[Global]["Kernel"] = Static
  <2>1. item[Static] = Class(2, Null) /\ hash[Global]["Kernel"] = Static
    BY <1>1 DEF Heap, Named
  <2>2. item[Static].type = "class" /\ item[Static].hash = 2
    <3>1. Null \in Or0("item") /\ 2 \in Slots("hash")
      BY SlotsAre DEF Or0
    <3> QED
      BY <2>1, <3>1, ClassIs
  <2> QED
    BY <1>1, <1>12, <2>1, <2>2
<1>16. \A g \in {Global, 2} : g \in H /\ g # c /\ g # h /\ hash'[g] = hash[g]
  BY <1>1, <1>3, <1>13, <1>14, <1>15
<1>17. \A n \in Slots("hash") : <<"hash", n>> \in Objects /\ (<<"hash", n>> \in A <=> n = h)
  BY ObjectsAre DEF Kinds
<1>18. Makes'
  <2>1. ASSUME NEW n \in Slots("hash")
        PROVE  "USE" \in bits'[<<"hash", n>>] \/ (hash'[n] = hash[n] /\ ~InUse(<<"hash", n>>))
    <3>1. CASE n = h
      BY <1>10, <1>17, <3>1
    <3>2. CASE n # h
      <4>1. bits'[<<"hash", n>>] = bits[<<"hash", n>>]
        BY <1>10, <1>17, <3>2
      <4>2. n = c => InUse(<<"hash", n>>)
        BY <1>1, <1>13, <3>2 DEF Heap, Used, InUse
      <4> QED
        BY <3>2, <4>1, <4>2 DEF InUse
    <3> QED
      BY <3>1, <3>2
  <2>2. \A n \in Slots("item") : item'[n] = item[n] \/ Made(item'[n])
    BY <1>5, <1>6 DEF Made
  <2> QED
    BY <2>1, <2>2, MakesStay DEF Runs
<1>19. Walks'
  <2>1. PICK rank \in [Slots("item") -> Nat] :
          \A n \in Slots("item") : item[n].type = "class" /\ item[n].item # Null => rank[item[n].item] < rank[n]
    BY DEF Runs, Walks
  <2>2. PICK next : next = [n \in Slots("item") |-> IF n = child THEN 0 ELSE rank[n] + 1]
    OBVIOUS
  <2>3. next \in [Slots("item") -> Nat]
    BY <2>1, <2>2
  <2>4. \A n \in Slots("item") : item[n].item \in Or0("item")
    BY <1>1, RecordsAre
  <2>5. ASSUME NEW n \in Slots("item"), item'[n].type = "class", item'[n].item # Null
        PROVE  next[item'[n].item] < next[n]
    <3>1. CASE n = i
      <4>1. child \in Slots("item") /\ item'[n].item = child /\ n # child
        BY <1>3, <1>5, <1>6, <2>5, <3>1 DEF Or0
      <4>2. next[child] = 0 /\ next[n] = rank[n] + 1 /\ rank[n] \in Nat
        BY <2>1, <2>2, <4>1
      <4> QED
        BY <4>1, <4>2
    <3>2. CASE n # i
      <4>1. item'[n] = item[n] /\ item[n].item \in Slots("item")
        BY <1>6, <2>4, <2>5, <3>2 DEF Or0
      <4>2. rank[item[n].item] < rank[n] /\ rank[item[n].item] \in Nat /\ rank[n] \in Nat
        BY <2>1, <2>5, <4>1
      <4>3. n # child
        <5>1. child = n => child # Null
          BY SlotsAre DEF Null
        <5> QED
          BY <2>5, <4>1, <5>1
      <4>4. next[n] = rank[n] + 1 /\ next[item[n].item] \in {0, rank[item[n].item] + 1}
        BY <2>2, <4>1, <4>3
      <4> QED
        BY <4>1, <4>2, <4>4
    <3> QED
      BY <3>1, <3>2
  <2> QED
    BY <2>3, <2>5 DEF Walks
<1>20. BitsGrow(I, J, "item") /\ BitsGrow(H, K, "hash") /\ BitsGrow(V, V, "vector") /\ BitsGrow(F, G, "frame")
  <2>1. "item" \in Kinds /\ "hash" \in Kinds /\ "vector" \in Kinds /\ "frame" \in Kinds
    BY DEF Kinds
  <2>2. J \subseteq Slots("item") /\ K \subseteq Slots("hash") /\ G \subseteq Slots("frame")
    BY <1>2, <1>3
  <2>3. \A n \in J : <<"item", n>> \in A <=> n \notin I
    BY <1>3
  <2>4. \A n \in K : <<"hash", n>> \in A <=> n \notin H
    BY <1>3
  <2>5. \A n \in G : <<"frame", n>> \in A <=> n \notin F
    BY <1>3
  <2>6. \A n \in V : <<"vector", n>> \notin A
    OBVIOUS
  <2> HIDE DEF A, J, K, G
  <2>7. BitsGrow(I, J, "item")
    BY <1>1, <1>2, <2>1, <2>2, <2>3, BitsGrown DEF A
  <2>8. BitsGrow(H, K, "hash")
    BY <1>1, <1>2, <2>1, <2>2, <2>4, BitsGrown DEF A
  <2>9. BitsGrow(F, G, "frame")
    BY <1>1, <1>2, <2>1, <2>2, <2>5, BitsGrown DEF A
  <2>10. BitsGrow(V, V, "vector")
    BY <1>1, <1>2, <2>1, <2>6, BitsGrown DEF A
  <2> QED
    BY <2>7, <2>8, <2>9, <2>10
<1>21. Used(bits', J, K, V, G) /\ Unmarked(bits', J, K, V, G)
  <2>1. Unmarked(bits, I, H, V, F)
    BY DEF Runs, Safe, Marking
  <2>2. Used(bits, I, H, V, F)
    BY <1>1 DEF Heap
  <2> HIDE DEF J, K, G, A
  <2> QED
    BY <1>20, <2>1, <2>2, BitsAre
<1>22. \A n \in I : item'[n] = item[n]
  BY <1>2, <1>3, <1>6
<1>23. \A g \in F : frame'[g] = frame[g]
  BY <1>2, <1>3, <1>9
<1>24. item'[i] = r /\ frame'[f] = s
  BY <1>3, <1>6, <1>9
<1>25. ItemsIn(item', J, K, V, G)
  <2>1. \A n \in I : ItemIn(item[n], J, K, V, G)
    BY <1>1 DEF Heap, ItemsIn, ItemIn
  <2>2. ItemIn(r, J, K, V, G)
    BY <1>5 DEF ItemIn
  <2> QED
    BY <1>22, <1>24, <2>1, <2>2 DEF ItemsIn
<1>26. HashesIn(hash', J, K)
  <2> SUFFICES ASSUME NEW g \in K, NEW k \in Keys, hash'[g][k] > Null PROVE hash'[g][k] \in J
    BY DEF HashesIn
  <2>0. hash'[g][k] \in Or0("item") \cup {Absent} /\ g \in Slots("hash")
    BY <1>2, <1>3
  <2>1. CASE g = h
    <3>1. ~ (hash'[g][k] > Null)
      BY <2>0, <2>1, SlotsAre DEF Or0, Null, Absent
    <3> QED
      BY <3>1
  <2>2. CASE g # h /\ g = c
    BY <1>13, <2>2
  <2>3. CASE g # h /\ g # c
    BY <1>1, <1>14, <2>3 DEF Heap, HashesIn
  <2> QED
    BY <2>1, <2>2, <2>3
<1>27. VectorsIn(vector', J, V)
  BY <1>1 DEF Heap, VectorsIn
<1>28. FramesIn(frame', J, K, G)
  <2>1. \A g \in F : FrameIn(frame[g], J, K, G)
    BY <1>1 DEF Heap, FramesIn, FrameIn
  <2>2. FrameIn(s, J, K, G)
    BY <1>8 DEF FrameIn
  <2> QED
    BY <1>23, <1>24, <2>1, <2>2 DEF FramesIn
<1>29. Parts(item', hash', J)
  <2> SUFFICES ASSUME NEW n \in J, item'[n].type = "class", item'[n].item # Null
               PROVE  LET d == item'[n].item
                      IN  item'[d].type = "class" /\ item'[d].item = Null /\ hash'[item'[d].hash]["super"] = n
    BY DEF Parts
  <2>1. PICK d : d = item'[n].item
    OBVIOUS
  <2>2. CASE n = i
    <3>1. d = child /\ child # Null /\ item'[child] = item[child]
      BY <1>5, <1>22, <1>24, <2>1, <2>2
    <3> QED
      BY <2>1, <2>2, <3>1
  <2>3. CASE n # i
    <3>1. n \in I /\ item'[n] = item[n]
      BY <1>22, <2>3
    <3>2. d \in I /\ item[d].type = "class" /\ item[d].item = Null /\ hash[item[d].hash]["super"] = n
      BY <1>1, <1>12, <2>1, <3>1 DEF Heap, Parts
    <3>3. n # Null
      BY <1>2, <3>1, SlotsAre DEF Null
    <3>4. item[d].hash # c
      BY <1>12, <1>14, <3>2, <3>3
    <3>5. hash'[item[d].hash] = hash[item[d].hash]
      BY <1>12, <1>14, <3>2, <3>4
    <3> QED
      BY <1>22, <2>1, <3>1, <3>2, <3>5
  <2> QED
    BY <2>2, <2>3
<1>30. Apart(item', frame', J, G)
  <2>1. ASSUME NEW m \in J, NEW n \in J, item'[m].type = "class", item'[n].type = "class", item'[m].hash = item'[n].hash
        PROVE  m = n
    <3>1. \A a \in I : item'[a] = item[a] /\ (item[a].type = "class" => item[a].hash # h)
      BY <1>3, <1>12, <1>22
    <3>2. item'[i].hash = h
      BY <1>5, <1>24
    <3>3. CASE m \in I /\ n \in I
      BY <1>1, <2>1, <3>1, <3>3 DEF Heap, Apart
    <3>4. CASE m = i \/ n = i
      BY <2>1, <3>1, <3>2, <3>4
    <3> QED
      BY <3>3, <3>4
  <2>2. ASSUME NEW n \in J, item'[n].type = "class", n # Static PROVE item'[n].hash \notin {Global, 2}
    <3>1. CASE n = i
      BY <1>5, <1>16, <1>24, <3>1
    <3>2. CASE n \in I
      BY <1>1, <1>22, <2>2, <3>2 DEF Heap, Apart
    <3> QED
      BY <3>1, <3>2
  <2>3. ASSUME NEW n \in J, NEW g \in G, item'[n].type = "class" PROVE item'[n].hash # frame'[g].locals
    <3>1. CASE g = f
      BY <1>3, <1>5, <1>8, <1>12, <1>22, <1>24, <2>3, <3>1
    <3>2. CASE g \in F /\ n = i
      <4>1. frame[g].locals = Null \/ frame[g].locals \in H
        BY <3>2, FramesLead
      <4> QED
        BY <1>3, <1>5, <1>23, <1>24, <3>2, <4>1
    <3>3. CASE g \in F /\ n \in I
      BY <1>1, <1>22, <1>23, <2>3, <3>3 DEF Heap, Apart
    <3> QED
      BY <3>1, <3>2, <3>3
  <2>4. ASSUME NEW n \in J, NEW g \in G, item'[n].type = "ref", "localcall" \in Features
        PROVE  item'[n].hash # frame'[g].locals
    <3>1. n \in I /\ item'[n] = item[n]
      BY <1>5, <1>22, <1>24, <2>4
    <3>2. CASE g = f
      BY <1>8, <1>12, <1>24, <2>4, <3>1, <3>2
    <3>3. CASE g \in F
      BY <1>1, <1>23, <2>4, <3>1, <3>3 DEF Heap, Apart
    <3> QED
      BY <3>2, <3>3
  <2>5. \A g \in G : frame'[g].locals \notin {Global, 2}
    <3>1. \A g \in F : frame[g].locals \notin {Global, 2}
      BY <1>1 DEF Heap, Apart
    <3>2. Null \notin {Global, 2}
      BY DEF Null, Global
    <3> QED
      BY <1>8, <1>23, <1>24, <3>1, <3>2
  <2> QED
    BY <2>1, <2>2, <2>3, <2>4, <2>5 DEF Apart
<1>31. Scopes(hash', frame', G)
  <2>1. hash'[Global]["super"] <= Null /\ hash'[2]["super"] <= Null
    BY <1>1, <1>16 DEF Heap, Scopes
  <2>2. ASSUME NEW g \in G, frame'[g].locals # Null PROVE hash'[frame'[g].locals]["super"] <= Null
    <3>1. g \in F /\ frame'[g] = frame[g]
      BY <1>8, <1>23, <1>24, <2>2
    <3>2. frame[g].locals \in H /\ hash[frame[g].locals]["super"] <= Null
      BY <1>1, <2>2, <3>1, FramesLead DEF Heap, Scopes
    <3>3. frame[g].locals # c
      BY <1>13, <1>14, <3>1, <3>2
    <3> QED
      BY <1>14, <3>1, <3>2, <3>3
  <2> QED
    BY <2>1, <2>2 DEF Scopes
<1>32. Named(item', hash')
  BY <1>1, <1>15, <1>16, <1>22 DEF Named
<1>33. J \subseteq Slots("item") /\ K \subseteq Slots("hash") /\ G \subseteq Slots("frame")
  BY <1>2, <1>3
<1>34. Persists(I, H, V, F, J, K, V, G)
  <2>1. ASSUME NEW g \in F, frame[g].locals # Null PROVE hash'[frame[g].locals] = hash[frame[g].locals]
    <3>1. frame[g].locals \in H
      BY <2>1, FramesLead
    <3> QED
      BY <1>13, <1>14, <3>1
  <2>2. I \subseteq J /\ H \subseteq K /\ F \subseteq G
    OBVIOUS
  <2> HIDE DEF J, K, G, A
  <2> QED
    BY <1>22, <1>23, <2>1, <2>2 DEF Persists
<1> HIDE DEF J, K, G, A
<1>35. Heap(J, K, V, G)'
  BY <1>2, <1>21, <1>25, <1>26, <1>27, <1>28, <1>29, <1>30, <1>31, <1>32, <1>33 DEF Heap
<1>36. HeapMoves(I, H, V, F, J, K, V, G)
  BY <1>11, <1>18, <1>19, <1>21, <1>34, <1>35 DEF HeapMoves
<1> QED
  BY <1>3, <1>4, <1>8, <1>24, <1>36 DEF J, K, G

LEMMA NewDerivedKeeps ==
  ASSUME NEW I, NEW H, NEW V, NEW F, NEW fr, Runs(I, H, V, F, fr), NewDerived
  PROVE  GInv'
<1> DEFINE q == Len(native)
           p == Len(stack)
<1>1. PICK i \in Slots("item"), h \in Slots("hash"), f \in Slots("frame") :
       /\ Fresh("item", i) /\ Fresh("hash", h) /\ Fresh("frame", f)
       /\ item' = [item EXCEPT ![i] = Class(h, Null)]
       /\ hash' = [hash EXCEPT ![h] = [NoEntries EXCEPT !["super"] = Null]]
       /\ frame' = [frame EXCEPT ![f] = InitFrame(f, i, cur)]
       /\ bits' = Allocated({<<"item", i>>, <<"hash", h>>, <<"frame", f>>})
       /\ cur' = f
       /\ native' = Entered("init", p, i)
  BY DEF NewDerived
<1>2. "new" \in Features /\ UNCHANGED <<vector, stack, exception, gc, todo>>
  BY DEF NewDerived, Uses
<1>3. Typed /\ Safe(I, H, V, F, fr) /\ gc = "off" /\ cur \in F /\ Static \in I /\ "super" \in Keys /\ H \subseteq Slots("hash")
      /\ (exception # Null => exception \in I)
  BY RootsAre DEF Runs, Heap
<1>4. PICK e : e = [NoEntries EXCEPT !["super"] = Null]
  OBVIOUS
<1>5. e \in [Keys -> Or0("item") \cup {Absent}] /\ \A k \in Keys : e[k] = IF k = "super" THEN Null ELSE Absent
  BY <1>3, <1>4 DEF NoEntries, Or0
<1>6. /\ hash' \in [Slots("hash") -> [Keys -> Or0("item") \cup {Absent}]]
      /\ \A g \in Slots("hash") : hash'[g] = IF g = h THEN e ELSE hash[g]
  BY <1>1, <1>3, <1>4, <1>5 DEF Typed
<1>7. \A k \in Keys : hash'[h][k] <= Null
  BY <1>5, <1>6 DEF Absent, Null
<1>8. \A g \in Slots("hash") : g \notin {h, h} => hash'[g] = hash[g]
  BY <1>6
<1>9. Null \in Or0("item")
  BY DEF Or0
<1>10. /\ HeapMoves(I, H, V, F, I \cup {i}, H \cup {h}, V, F \cup {f})
       /\ i \in Slots("item") \ I /\ f \notin F
       /\ item'[i] = Class(h, Null)
       /\ frame'[f].this = i /\ frame'[f].previous = cur
  <2>1. PartStep(I, F, i, h, f, Null, h, cur)
    BY <1>1, <1>2, <1>3, <1>6, <1>7, <1>8, <1>9 DEF PartStep
  <2> QED
    BY <2>1, PartMade
<1>11. /\ item'[i].type = "class" /\ item'[i].item = Null /\ item'[i].hash = h
  BY <1>9, <1>10, ClassIs
<1>12. hash'[h]["super"] = Null
  BY <1>3, <1>5, <1>6
<1>13. q \in Nat \ {0} /\ p \in Nat /\ p \in 0 .. MaxStack /\ p <= MaxStack /\ fr[q] = cur /\ native \in Seq(EntrySet)
       /\ Top.base + Needs(Top.op) <= p
  BY <1>3, StacksAre, MkGcAssumption DEF Typed
<1>14. PICK r : r = [op |-> "init", base |-> p, obj |-> i]
  OBVIOUS
<1>15. r \in EntrySet /\ r.op = "init" /\ r.base = p /\ r.obj = i
  <2>1. i \in Nat
    BY <1>10, SlotsAre
  <2> HIDE DEF p
  <2> QED
    BY <1>13, <1>14, <2>1 DEF EntrySet
<1>16. /\ native' \in Seq(EntrySet) /\ Len(native') = q + 1
       /\ (\A k \in 1 .. q : native'[k] = native[k]) /\ native'[q + 1] = r
  <2>1. native' = Append(native, r)
    BY <1>1, <1>14 DEF Entered
  <2> QED
    BY <1>13, <1>15, <2>1, AppendIs
<1>17. \A g \in H : hash'[g] = hash[g]
  <2>1. h \notin H
    BY <1>1, RootsAre, FreshIsOut
  <2> QED
    BY <1>3, <1>6, <2>1
<1>18. Stays(q, p)
  <2>1. \A k \in 1 .. q : native[k].base + Needs(native[k].op) <= p
    BY <1>13, BasesAreBelow
  <2>2. \A k \in 1 .. q : native[k].op = "init" => hash'[item[native[k].obj].hash]["super"] = Null
    BY <1>17, InitsStay
  <2>3. p = Len(stack) /\ stack' = stack /\ q = Len(native)
    BY <1>2
  <2> HIDE DEF q, p
  <2> QED
    BY <1>13, <1>16, <2>1, <2>2, <2>3 DEF Stays
<1>19. \A k \in q + 1 .. Len(native') : k = q + 1
  BY <1>13, <1>16
<1>20. Link(q, fr)
  <2>1. frame'[cur'].previous = fr[q]
    BY <1>1, <1>10, <1>13
  <2>2. Len(native') # q /\ native'[Len(native')].op = "init"
    BY <1>13, <1>15, <1>16
  <2> HIDE DEF q, p
  <2> QED
    BY <1>16, <1>19, <2>1, <2>2 DEF Link, Framed
<1>21. RootsMove(I \cup {i}, F \cup {f})
  <2>1. stack \in Seq(Or0("item")) /\ \A n \in 1 .. Len(stack) : stack[n] # Null => stack[n] \in I
    BY <1>3, OperandsAre DEF Typed
  <2>2. exception' \in Or0("item") /\ (exception' # Null => exception' \in I \cup {i})
    BY <1>2, <1>3 DEF Typed
  <2> QED
    BY <1>1, <1>2, <1>13, <1>16, <2>1, <2>2 DEF RootsMove
<1>22. NewEntry(r, q + 1, q, p, fr, I, V)
  <2>1. Needs(r.op) = 0 /\ p + Needs(r.op) <= Len(stack')
    BY <1>2, <1>13, <1>15 DEF Needs
  <2>2. i # Static /\ frame'[cur'].this = i /\ q + 1 = Len(native') /\ i \in Slots("item") \ I
    BY <1>1, <1>3, <1>10, <1>16
  <2> HIDE DEF q, p
  <2> QED
    BY <1>2, <1>11, <1>12, <1>15, <2>1, <2>2 DEF NewEntry
<1>23. Pushed(q, p, fr, I, V)
  BY <1>16, <1>19, <1>22 DEF Pushed
<1>24. UNCHANGED <<gc, todo>>
  BY <1>2
<1> HIDE DEF q, p
<1> QED
  BY <1>3, <1>10, <1>18, <1>20, <1>21, <1>23, <1>24, Steps

LEMMA NewBaseKeeps ==
  ASSUME NEW I, NEW H, NEW V, NEW F, NEW fr, Runs(I, H, V, F, fr), NewBase
  PROVE  GInv'
<1> DEFINE q == Len(native) - 1
           p == Top.base
           N == Len(native)
<1>1. PICK child : child = Top.obj
  OBVIOUS
<1>2. PICK c : c = item[child].hash
  OBVIOUS
<1>3. PICK i \in Slots("item"), h \in Slots("hash"), f \in Slots("frame") :
       /\ Fresh("item", i) /\ Fresh("hash", h) /\ Fresh("frame", f)
       /\ item' = [item EXCEPT ![i] = Class(h, child)]
       /\ hash' = [hash EXCEPT ![c]["x"] = Operand(0), ![c]["super"] = i, ![h] = NoEntries]
       /\ frame' = [frame EXCEPT ![f] = InitFrame(f, i, frame[cur].previous)]
       /\ bits' = Allocated({<<"item", i>>, <<"hash", h>>, <<"frame", f>>})
  BY <1>1, <1>2 DEF NewBase
<1>4. /\ Top.op = "init" /\ Operands = 1 /\ stack' = Append(Popped(1), child)
      /\ cur' = frame[cur].previous /\ native' = Left /\ UNCHANGED <<vector, exception, gc, todo>>
  BY <1>1 DEF NewBase
<1>5. /\ Typed /\ Safe(I, H, V, F, fr) /\ gc = "off" /\ cur \in F /\ Static \in I /\ "super" \in Keys /\ "x" \in Keys
      /\ H \subseteq Slots("hash") /\ Heap(I, H, V, F) /\ (exception # Null => exception \in I)
      /\ Chained(fr, F) /\ InC(fr, V)
  BY RootsAre DEF Runs, Heap, Safe
<1>6. /\ Top = native[N] /\ N \in 1 .. N /\ Holds(Top)
  BY <1>5, RecordsAre
<1>7. /\ "new" \in Features /\ child # Static /\ child \in Slots("item") /\ item[child].type = "class" /\ item[child].item = Null
      /\ hash[c]["super"] = Null /\ frame[cur].this = child
  <2>1. Kept(fr, N) /\ fr[N] = cur
    BY <1>5, <1>6 DEF InC, Chained
  <2> QED
    BY <1>1, <1>2, <1>4, <1>6, <2>1 DEF Kept, Holds
<1>8. child \in Or0("item") /\ child # Null /\ child \in I
  <2>1. child # Null
    BY <1>7, SlotsAre DEF Null
  <2> QED
    BY <1>5, <1>7, <2>1, FramesLead
<1>9. c \in H /\ c \in Slots("hash")
  BY <1>2, <1>5, <1>7, <1>8, ItemsLead
<1>10. q \in Nat \ {0} /\ p \in Nat /\ Len(stack) = p + 1 /\ Len(stack) <= MaxStack /\ N = q + 1
  <2>1. N # 1
    BY <1>4, <1>6, StacksAre
  <2> QED
    BY <1>4, <2>1, StacksAre, OperandsAre
<1>11. PICK x : x = Operand(0)
  OBVIOUS
<1>12. x \in Or0("item") /\ (x # Null => x \in I)
  <2>1. Len(stack) \in 1 .. Len(stack)
    BY <1>10
  <2> QED
    BY <1>11, <2>1, OperandsAre
<1>13. cur' = fr[q] /\ fr[q] \in F /\ frame[cur].previous = fr[q]
  <2>1. fr[q] \in F
    BY <1>5, <1>10 DEF Chained
  <2> QED
    BY <1>4, <1>10, <2>1, StacksAre DEF Framed
<1>14. h \notin H /\ i \notin I /\ h # c
  BY <1>3, <1>5, <1>9, FreshIsOut
<1>15. /\ hash' \in [Slots("hash") -> [Keys -> Or0("item") \cup {Absent}]]
       /\ \A g \in Slots("hash"), k \in Keys :
            hash'[g][k] = IF g = h THEN Absent
                          ELSE IF g = c /\ k = "x" THEN x
                          ELSE IF g = c /\ k = "super" THEN i
                          ELSE hash[g][k]
       /\ \A g \in Slots("hash") : g \notin {h, c} => hash'[g] = hash[g]
  <2>1. hash \in [Slots("hash") -> [Keys -> Or0("item") \cup {Absent}]]
    BY <1>5 DEF Typed
  <2>2. PICK a : a = [hash[c] EXCEPT !["x"] = x]
    OBVIOUS
  <2>3. PICK b : b = [a EXCEPT !["super"] = i]
    OBVIOUS
  <2>4. hash[c] \in [Keys -> Or0("item") \cup {Absent}]
    BY <1>9, <2>1
  <2>5. a \in [Keys -> Or0("item") \cup {Absent}] /\ \A k \in Keys : a[k] = IF k = "x" THEN x ELSE hash[c][k]
    BY <1>12, <2>2, <2>4
  <2>6. b \in [Keys -> Or0("item") \cup {Absent}] /\ \A k \in Keys : b[k] = IF k = "super" THEN i ELSE a[k]
    <3>1. i \in Or0("item")
      BY DEF Or0
    <3> QED
      BY <2>3, <2>5, <3>1
  <2>7. PICK t : t = [hash EXCEPT ![c] = b]
    OBVIOUS
  <2>8. t \in [Slots("hash") -> [Keys -> Or0("item") \cup {Absent}]]
        /\ \A g \in Slots("hash") : t[g] = IF g = c THEN b ELSE hash[g]
    BY <1>9, <2>1, <2>6, <2>7
  <2>9. hash' = [t EXCEPT ![h] = NoEntries]
    BY <1>3, <1>9, <1>11, <2>1, <2>2, <2>3, <2>7
  <2>10. NoEntries \in [Keys -> Or0("item") \cup {Absent}] /\ \A k \in Keys : NoEntries[k] = Absent
    BY DEF NoEntries
  <2>11. hash' \in [Slots("hash") -> [Keys -> Or0("item") \cup {Absent}]]
         /\ \A g \in Slots("hash") : hash'[g] = IF g = h THEN NoEntries ELSE t[g]
    BY <2>8, <2>9, <2>10
  <2> QED
    BY <2>5, <2>6, <2>8, <2>10, <2>11
<1>16. \A k \in Keys : hash'[h][k] <= Null
  BY <1>15 DEF Absent, Null
<1>17. hash'[c]["super"] = i /\ \A k \in Keys : k # "super" /\ hash'[c][k] > Null => hash'[c][k] \in I
  <2>1. hash'[c]["super"] = i
    BY <1>5, <1>9, <1>14, <1>15
  <2>2. ASSUME NEW k \in Keys, k # "super", hash'[c][k] > Null PROVE hash'[c][k] \in I
    <3>1. CASE k = "x"
      <4>1. hash'[c][k] = x
        BY <1>9, <1>14, <1>15, <3>1
      <4> QED
        BY <1>12, <2>2, <4>1 DEF Null
    <3>2. CASE k # "x"
      <4>1. hash'[c][k] = hash[c][k]
        BY <1>9, <1>14, <1>15, <2>2, <3>2
      <4> QED
        BY <1>9, <2>2, <4>1, HashesLead
    <3> QED
      BY <3>1, <3>2
  <2> QED
    BY <2>1, <2>2
<1>18. PICK previous \in F : previous = frame[cur].previous
  BY <1>13
<1>19. /\ HeapMoves(I, H, V, F, I \cup {i}, H \cup {h}, V, F \cup {f})
       /\ i \in Slots("item") \ I /\ f \notin F
       /\ item'[i] = Class(h, child)
       /\ frame'[f].this = i /\ frame'[f].previous = previous
  <2>1. PartStep(I, F, i, h, f, child, c, previous)
    BY <1>2, <1>3, <1>4, <1>7, <1>8, <1>9, <1>15, <1>16, <1>17, <1>18 DEF PartStep
  <2> QED
    BY <2>1, PartMade
<1>20. /\ native' \in Seq(EntrySet) /\ Len(native') = q /\ \A k \in 1 .. q : native'[k] = native[k]
  BY <1>4, <1>5, <1>10 DEF Typed, Left
<1>21. StackIn(Len(stack) - 1, I)
  BY <1>4, <1>5, <1>8, <1>10, StackSwaps
<1>22. StackIn(p, I) /\ p <= Len(stack')
  <2>1. Len(stack) - 1 = p
    BY <1>10
  <2> HIDE DEF p
  <2>2. StackIn(p, I)
    BY <1>21, <2>1
  <2> QED
    BY <2>2 DEF StackIn
<1>23. ASSUME NEW k \in 1 .. q, native[k].op = "init"
       PROVE  hash'[item[native[k].obj].hash]["super"] = Null
  <2>1. PICK n : n = native[k].obj
    OBVIOUS
  <2>2. k \in 1 .. N /\ k # N /\ N \in 1 .. N
    BY <1>6, <1>10
  <2>3. n # child
    BY <1>1, <1>4, <1>5, <1>6, <1>23, <2>1, <2>2 DEF InC
  <2>4. frame[fr[k]].this = n /\ item[n].type = "class" /\ hash[item[n].hash]["super"] = Null /\ n \in Slots("item") /\ fr[k] \in F
    BY <1>5, <1>23, <2>1, <2>2 DEF InC, Kept, Typed, Holds, Chained
  <2>5. n # Null
    BY <2>4, SlotsAre DEF Null
  <2>6. n \in I
    BY <2>4, <2>5, FramesLead
  <2>7. item[n].hash # c /\ item[n].hash \in H
    BY <1>2, <1>5, <1>7, <1>8, <2>3, <2>4, <2>6, ItemsLead DEF Heap, Apart
  <2>8. hash'[item[n].hash] = hash[item[n].hash]
    BY <1>5, <1>14, <1>15, <2>7
  <2> QED
    BY <2>1, <2>4, <2>8
<1>24. Stays(q, p)
  <2>1. \A k \in 1 .. q : native[k].base + Needs(native[k].op) <= p
    BY StacksAre
  <2>2. q \in 1 .. Len(native) /\ p \in 0 .. Len(stack) /\ \A n \in 1 .. p : stack'[n] = stack[n]
    BY <1>10, <1>22 DEF StackIn
  <2> HIDE DEF q, p
  <2> QED
    BY <1>10, <1>20, <1>22, <1>23, <2>1, <2>2 DEF Stays
<1>25. Link(q, fr)
  <2>1. \A k \in q + 1 .. Len(native') : FALSE
    BY <1>10, <1>20
  <2> QED
    BY <1>13, <1>20, <2>1 DEF Link
<1>26. RootsMove(I \cup {i}, F \cup {f})
  <2>1. \A n \in 1 .. Len(stack') : stack'[n] # Null => stack'[n] \in I
    BY <1>22, RootsAreIn
  <2>2. exception' \in Or0("item") /\ (exception' # Null => exception' \in I \cup {i})
    BY <1>4, <1>5 DEF Typed
  <2>3. stack' \in Seq(Or0("item")) /\ Len(stack') <= MaxStack
    BY <1>22 DEF StackIn
  <2> QED
    BY <1>13, <1>20, <2>1, <2>2, <2>3 DEF RootsMove
<1>27. Pushed(q, p, fr, I, V)
  BY <1>10, <1>20 DEF Pushed
<1>28. UNCHANGED <<gc, todo>>
  BY <1>4
<1> HIDE DEF q, p, N
<1> QED
  BY <1>5, <1>19, <1>24, <1>25, <1>26, <1>27, <1>28, Steps

-----------------------------------------------------------------------------
(* What a scan calls, it covers.                                           *)
LEMMA CallIs ==
  ASSUME NEW k \in {"item", "hash", "vector", "frame", "done"}, NEW n \in Int, NEW top \in BOOLEAN
  PROVE  /\ Call(k, n, top) \in AnyCalls
         /\ Call(k, n, top).kind = k /\ Call(k, n, top).n = n /\ (Call(k, n, top).top <=> top)
         /\ Object(Call(k, n, top)) = <<IF k = "done" THEN "item" ELSE k, n>>
         /\ k \in Kinds /\ n \in Slots(k) => Call(k, n, top) \in Calls
         /\ k = "done" /\ n \in Slots("item") => Call(k, n, top) \in Calls
<1>1. PICK c : c = Call(k, n, top)
  OBVIOUS
<1>2. c = [kind |-> k, n |-> n, top |-> top]
  BY <1>1 DEF Call
<1>3. c \in AnyCalls /\ c.kind = k /\ c.n = n /\ (c.top <=> top)
  BY <1>2 DEF AnyCalls
<1>4. Object(c) = <<IF k = "done" THEN "item" ELSE k, n>>
  BY <1>3 DEF Object
<1>5. ASSUME k \in Kinds, n \in Slots(k) PROVE c \in Calls
  <2>1. n \in Nat /\ <<k, n>> \in Objects /\ k # "done"
    BY <1>5, ObjectsAre, SlotsAre DEF Kinds
  <2> QED
    BY <1>2, <1>4, <2>1 DEF Calls
<1>6. ASSUME k = "done", n \in Slots("item") PROVE c \in Calls
  <2>1. n \in Nat /\ <<"item", n>> \in Objects
    BY <1>6, ObjectsAre, SlotsAre DEF Kinds
  <2> QED
    BY <1>2, <1>4, <1>6, <2>1 DEF Calls
<1> QED
  BY <1>1, <1>3, <1>4, <1>5, <1>6

LEMMA CallsAre ==
  ASSUME NEW c \in Calls
  PROVE  /\ c.kind \in {"item", "hash", "vector", "frame", "done"} /\ c.n \in Nat /\ c.top \in BOOLEAN
         /\ c.kind \in Kinds => c.n \in Slots(c.kind) /\ Object(c) = <<c.kind, c.n>>
         /\ c.kind = "done" => c.n \in Slots("item") /\ Object(c) = <<"item", c.n>>
         /\ Object(c) \in Objects
<1>1. c.kind \in {"item", "hash", "vector", "frame", "done"} /\ c.n \in Nat /\ c.top \in BOOLEAN /\ Object(c) \in Objects
  BY DEF Calls
<1>2. c.kind \in Kinds => Object(c) = <<c.kind, c.n>>
  BY DEF Object, Kinds
<1>3. c.kind = "done" => Object(c) = <<"item", c.n>> /\ "item" \in Kinds
  BY DEF Object, Kinds
<1> QED
  BY <1>1, <1>2, <1>3, ObjectsAre

(* A list of calls that are all on objects, or on nothing.                 *)
Sound(s) == s \in Seq(AnyCalls) /\ \A t \in 1 .. Len(s) : s[t].kind # "done" /\ (s[t].n > Null => s[t] \in Calls)

Leads(s, k, n) == \E t \in 1 .. Len(s) : s[t].kind = k /\ s[t].n = n

LEMMA FollowedCovers ==
  ASSUME NEW s, Sound(s), NEW k \in Kinds, NEW n \in Slots(k), Leads(s, k, n),
         \A t \in 1 .. Len(Followed(s)) : Among(Followed(s)[t], todo'),
         \A o \in Objects : "GC" \in bits[o] => "GC" \in bits'[o]
  PROVE  Covered(k, n)'
<1>1. PICK t \in 1 .. Len(s) : s[t].kind = k /\ s[t].n = n
  BY DEF Leads
<1>2. PICK c : c = s[t]
  OBVIOUS
<1>3. n > Null /\ n \in Nat /\ k # "done"
  BY SlotsAre DEF Null, Kinds
<1>4. c \in Calls /\ c.kind = k /\ c.n = n /\ Object(c) = <<k, n>> /\ <<k, n>> \in Objects
  <2>1. c \in Calls /\ c.kind = k /\ c.n = n
    BY <1>1, <1>2, <1>3 DEF Sound
  <2> QED
    BY <2>1, CallsAre
<1>5. CASE Marked(c)
  BY <1>4, <1>5 DEF Marked, Covered
<1>6. CASE ~Marked(c)
  <2>1. Follows(c)
    BY <1>3, <1>4, <1>6 DEF Follows
  <2>2. Among(c, Followed(s))
    BY <1>1, <1>2, <2>1, FollowedAre DEF Sound
  <2>3. PICK u \in 1 .. Len(Followed(s)) : Followed(s)[u] = c
    BY <2>2 DEF Among
  <2>4. Among(c, todo')
    BY <2>3
  <2> QED
    BY <1>4, <2>4 DEF Among, Covered, Object
<1> QED
  BY <1>5, <1>6

(* A step of the collector itself leaves alone all but the flags and its   *)
(* calls.                                                                  *)
LEMMA CollectorKeeps ==
  ASSUME Typed, Makes, Walks, NEW I, NEW H, NEW V, NEW F, NEW fr, Safe(I, H, V, F, fr),
         UNCHANGED <<item, hash, vector, frame, stack, cur, native, exception>>,
         bits' \in [Objects -> SUBSET {"USE", "GC", "CN"}],
         \A o \in Objects : "USE" \in bits'[o] <=> "USE" \in bits[o],
         todo' \in Seq(Calls), gc' = "scan", Marking(I, H, V, F)'
  PROVE  GInv'
<1>1. Typed'
  BY DEF Typed, Holds
<1>2. Types'
  BY <1>1, TypedIs, PTL
<1>3. Makes'
  <2>1. \A h \in Slots("hash") : <<"hash", h>> \in Objects
    BY ObjectsAre DEF Kinds
  <2> QED
    BY <2>1 DEF Makes, InUse
<1>4. Walks'
  BY DEF Walks
<1>5. Heap(I, H, V, F) /\ RootsIn(I, H, F) /\ Chained(fr, F) /\ Stacked /\ InC(fr, V)
  BY DEF Safe
<1>6. Used(bits', I, H, V, F)
  <2>1. /\ \A n \in I : <<"item", n>> \in Objects
        /\ \A n \in H : <<"hash", n>> \in Objects
        /\ \A n \in V : <<"vector", n>> \in Objects
        /\ \A n \in F : <<"frame", n>> \in Objects
    BY <1>5, ObjectsAre DEF Heap, Kinds
  <2> QED
    BY <1>5, <2>1 DEF Heap, Used
<1>7. Heap(I, H, V, F)'
  BY <1>5, <1>6 DEF Heap, ItemsIn, HashesIn, VectorsIn, FramesIn, Parts, Apart, Scopes, Named
<1>8. RootsIn(I, H, F)'
  BY <1>5 DEF RootsIn
<1>9. Chained(fr, F)'
  BY <1>5 DEF Chained
<1>10. Stacked'
  BY <1>5 DEF Stacked
<1>11. InC(fr, V)'
  BY <1>5 DEF InC, Expected, Kept, ByName
<1>12. Safe(I, H, V, F, fr)'
  BY <1>7, <1>8, <1>9, <1>10, <1>11 DEF Safe
<1>13. SafeSomehow'
  <2>1. I \in SUBSET Slots("item") /\ H \in SUBSET Slots("hash") /\ V \in SUBSET Slots("vector") /\ F \in SUBSET Slots("frame")
    BY <1>5 DEF Heap
  <2>2. fr \in [1 .. Len(native) -> Slots("frame")] /\ native' = native
    BY <1>5, <2>1 DEF Chained
  <2> QED
    BY <1>12, <2>1, <2>2 DEF SafeSomehow
<1> QED
  BY <1>2, <1>3, <1>4, <1>13 DEF GInv

-----------------------------------------------------------------------------
(* A list of calls, from its parts.                                        *)
Good(c) == c \in AnyCalls /\ c.kind # "done" /\ (c.n > Null => c \in Calls)

LEMMA GoodCall ==
  ASSUME NEW k \in Kinds, NEW n \in Or0(k) \cup {Absent}, NEW top \in BOOLEAN
  PROVE  /\ Good(Call(k, n, top))
         /\ Call(k, n, top).kind = k /\ Call(k, n, top).n = n /\ (Call(k, n, top).top <=> top)
<1>1. k \in {"item", "hash", "vector", "frame", "done"} /\ k # "done"
  BY DEF Kinds
<1>2. n \in Int /\ (n > Null => n \in Slots(k))
  BY SlotsAre DEF Or0, Kinds, Null, Absent
<1>3. PICK c : c = Call(k, n, top)
  OBVIOUS
<1>4. c \in AnyCalls /\ c.kind = k /\ c.n = n /\ (c.top <=> top) /\ (n \in Slots(k) => c \in Calls)
  BY <1>1, <1>2, <1>3, CallIs
<1> QED
  BY <1>1, <1>2, <1>3, <1>4 DEF Good

LEMMA GoodItem ==
  ASSUME NEW n \in Or0("item") \cup {Absent}, NEW c, c = Call("item", n, FALSE)
  PROVE  Good(c) /\ c.kind = "item" /\ c.n = n
<1>1. "item" \in Kinds /\ FALSE \in BOOLEAN
  BY DEF Kinds
<1> QED
  BY <1>1, GoodCall

LEMMA GoodHash ==
  ASSUME NEW n \in Or0("hash") \cup {Absent}, NEW c, c = Call("hash", n, FALSE)
  PROVE  Good(c) /\ c.kind = "hash" /\ c.n = n /\ ~c.top
<1>1. "hash" \in Kinds /\ FALSE \in BOOLEAN
  BY DEF Kinds
<1> QED
  BY <1>1, GoodCall

LEMMA GoodScope ==
  ASSUME NEW n \in Or0("hash") \cup {Absent}, NEW c, c = Call("hash", n, TRUE)
  PROVE  Good(c) /\ c.kind = "hash" /\ c.n = n
<1>1. "hash" \in Kinds /\ TRUE \in BOOLEAN
  BY DEF Kinds
<1> QED
  BY <1>1, GoodCall

LEMMA GoodVector ==
  ASSUME NEW n \in Or0("vector") \cup {Absent}, NEW c, c = Call("vector", n, TRUE)
  PROVE  Good(c) /\ c.kind = "vector" /\ c.n = n
<1>1. "vector" \in Kinds /\ TRUE \in BOOLEAN
  BY DEF Kinds
<1> QED
  BY <1>1, GoodCall

LEMMA GoodFrame ==
  ASSUME NEW n \in Or0("frame") \cup {Absent}, NEW c, c = Call("frame", n, FALSE)
  PROVE  Good(c) /\ c.kind = "frame" /\ c.n = n
<1>1. "frame" \in Kinds /\ FALSE \in BOOLEAN
  BY DEF Kinds
<1> QED
  BY <1>1, GoodCall

LEMMA SoundSeqs ==
  ASSUME NEW N \in Nat, NEW s \in [1 .. N -> AnyCalls], \A t \in 1 .. N : Good(s[t])
  PROVE  Sound(s) /\ Len(s) = N
<1>1. s \in Seq(AnyCalls) /\ Len(s) = N
  OBVIOUS
<1> QED
  BY <1>1 DEF Sound, Good

LEMMA SoundLists ==
  ASSUME NEW a, NEW b, NEW c, NEW d, Good(a), Good(b), Good(c), Good(d)
  PROVE  /\ Sound(<<>>) /\ Sound(<<a>>) /\ Sound(<<a, b>>) /\ Sound(<<a, b, c>>) /\ Sound(<<a, b, c, d>>)
<1>1. a \in AnyCalls /\ b \in AnyCalls /\ c \in AnyCalls /\ d \in AnyCalls
  BY DEF Good
<1>2. Sound(<<>>) /\ Sound(<<a>>)
  BY <1>1 DEF Sound, Good
<1>3. Sound(<<a, b>>)
  BY <1>1 DEF Sound, Good
<1>4. Sound(<<a, b, c>>)
  BY <1>1 DEF Sound, Good
<1>5. Sound(<<a, b, c, d>>)
  BY <1>1 DEF Sound, Good
<1> QED
  BY <1>2, <1>3, <1>4, <1>5

LEMMA AmongOne ==
  ASSUME NEW x, NEW a
  PROVE  Among(x, <<a>>) <=> x = a
BY DEF Among

LEMMA AmongTwo ==
  ASSUME NEW x, NEW a, NEW b
  PROVE  Among(x, <<a, b>>) <=> x \in {a, b}
BY DEF Among

LEMMA AmongThree ==
  ASSUME NEW x, NEW a, NEW b, NEW c
  PROVE  Among(x, <<a, b, c>>) <=> x \in {a, b, c}
BY DEF Among

LEMMA AmongFour ==
  ASSUME NEW x, NEW a, NEW b, NEW c, NEW d
  PROVE  Among(x, <<a, b, c, d>>) <=> x \in {a, b, c, d}
BY DEF Among

LEMMA NoneAmong == \A x : ~Among(x, <<>>)
BY DEF Among

LEMMA AmongJoined ==
  ASSUME NEW S, NEW s \in Seq(S), NEW t \in Seq(S), NEW x
  PROVE  /\ s \o t \in Seq(S)
         /\ Among(x, s \o t) <=> Among(x, s) \/ Among(x, t)
<1>1. /\ s \o t \in Seq(S) /\ Len(s \o t) = Len(s) + Len(t)
      /\ \A k \in 1 .. Len(s) : (s \o t)[k] = s[k]
      /\ \A k \in 1 .. Len(t) : (s \o t)[Len(s) + k] = t[k]
  BY ConcatIs
<1>2. Len(s) \in Nat /\ Len(t) \in Nat
  OBVIOUS
<1>3. ASSUME Among(x, s \o t) PROVE Among(x, s) \/ Among(x, t)
  <2>1. PICK k \in 1 .. Len(s) + Len(t) : (s \o t)[k] = x
    BY <1>1, <1>3 DEF Among
  <2>2. CASE k \in 1 .. Len(s)
    BY <1>1, <2>1, <2>2 DEF Among
  <2>3. CASE k > Len(s)
    <3>1. PICK m \in 1 .. Len(t) : k = Len(s) + m
      <4>1. k - Len(s) \in 1 .. Len(t) /\ k = Len(s) + (k - Len(s))
        BY <1>2, <2>1, <2>3
      <4> QED
        BY <4>1
    <3> QED
      BY <1>1, <2>1, <3>1 DEF Among
  <2> QED
    BY <1>2, <2>1, <2>2, <2>3
<1>4. ASSUME Among(x, s) PROVE Among(x, s \o t)
  <2>1. PICK k \in 1 .. Len(s) : s[k] = x
    BY <1>4 DEF Among
  <2> QED
    BY <1>1, <1>2, <2>1 DEF Among
<1>5. ASSUME Among(x, t) PROVE Among(x, s \o t)
  <2>1. PICK k \in 1 .. Len(t) : t[k] = x
    BY <1>5 DEF Among
  <2>2. Len(s) + k \in 1 .. Len(s \o t)
    BY <1>1, <1>2
  <2> QED
    BY <1>1, <2>1, <2>2 DEF Among
<1> QED
  BY <1>1, <1>3, <1>4, <1>5

LEMMA SoundJoined ==
  ASSUME NEW s, Sound(s), NEW t, Sound(t)
  PROVE  Sound(s \o t)
<1>1. /\ s \o t \in Seq(AnyCalls) /\ Len(s \o t) = Len(s) + Len(t)
      /\ \A x : Among(x, s \o t) => Among(x, s) \/ Among(x, t)
  BY AmongJoined, ConcatIs DEF Sound
<1>2. ASSUME NEW k \in 1 .. Len(s \o t)
      PROVE  (s \o t)[k].kind # "done" /\ ((s \o t)[k].n > Null => (s \o t)[k] \in Calls)
  <2>1. PICK x : x = (s \o t)[k]
    OBVIOUS
  <2>2. Among(x, s) \/ Among(x, t)
    BY <1>1, <2>1 DEF Among
  <2>3. x.kind # "done" /\ (x.n > Null => x \in Calls)
    BY <2>2 DEF Among, Sound
  <2> QED
    BY <2>1, <2>3
<1> QED
  BY <1>1, <1>2 DEF Sound

(* The frames of F lead to no others, nor to an object's hash table.       *)
Plain(F) ==
  /\ Scopes(hash, frame, F)
  /\ \A f \in F : /\ frame[f].owner # Null => frame[f].owner \in F
                  /\ frame[f].previous # Null => frame[f].previous \in F

LEMMA HeapPlain ==
  ASSUME NEW I, NEW H, NEW V, NEW F, Heap(I, H, V, F)
  PROVE  Plain(F)
BY DEF Heap, Plain, FramesIn, FrameIn

LEMMA FollowedIs ==
  ASSUME NEW F, NEW s, Sound(s), \A x : Among(x, s) /\ x.n > Null => StraightCall(x, F)
  PROVE  /\ Followed(s) \in Seq(Calls)
         /\ \A x : Among(x, Followed(s)) => Among(x, s) /\ x.kind # "done" /\ StraightCall(x, F)
<1>1. /\ Followed(s) \in Seq(Calls)
      /\ \A t \in 1 .. Len(Followed(s)) : Follows(Followed(s)[t]) /\ Among(Followed(s)[t], s)
  BY FollowedAre DEF Sound
<1>2. ASSUME NEW x, Among(x, Followed(s)) PROVE Among(x, s) /\ x.kind # "done" /\ StraightCall(x, F)
  <2>1. Follows(x) /\ Among(x, s)
    BY <1>1, <1>2 DEF Among
  <2>2. x.n > Null /\ x.kind # "done"
    BY <2>1 DEF Follows, Among, Sound
  <2> QED
    BY <2>1, <2>2
<1> QED
  BY <1>1, <1>2

LEMMA StraightIs ==
  ASSUME NEW F
  PROVE  Straight(F) <=> \A x : Among(x, todo) => StraightCall(x, F)
BY DEF Straight, Among

-----------------------------------------------------------------------------
(* The collection begins with the roots.                                   *)
LEMMA RootCalls ==
  ASSUME Typed
  PROVE  /\ Sound(Roots)
         /\ \A x : Among(x, Roots) <=>
              \/ \E n \in 1 .. Len(stack) : x = Call("item", stack[n], FALSE)
              \/ x \in {Call("item", exception, FALSE), Call("hash", Global, TRUE), Call("frame", cur, FALSE)}
<1> DEFINE p == [n \in 1 .. Len(stack) |-> Call("item", stack[n], FALSE)]
           a == Call("item", exception, FALSE)
           b == Call("hash", Global, TRUE)
           c == Call("frame", cur, FALSE)
<1>1. Good(a) /\ Good(b) /\ Good(c) /\ a.kind = "item" /\ a.n = exception
      /\ b.kind = "hash" /\ b.n = Global /\ c.kind = "frame" /\ c.n = cur
  <2>1. /\ exception \in Or0("item") \cup {Absent} /\ cur \in Or0("frame") \cup {Absent}
        /\ Global \in Or0("hash") \cup {Absent}
    BY SlotsAre DEF Typed, Or0
  <2>2. "item" \in Kinds /\ "hash" \in Kinds /\ "frame" \in Kinds
    BY DEF Kinds
  <2>3. Good(a) /\ a.kind = "item" /\ a.n = exception
    BY <2>1, <2>2, GoodCall
  <2>4. Good(b) /\ b.kind = "hash" /\ b.n = Global
    BY <2>1, <2>2, GoodCall
  <2>5. Good(c) /\ c.kind = "frame" /\ c.n = cur
    BY <2>1, <2>2, GoodCall
  <2> QED
    BY <2>3, <2>4, <2>5
<1>2. Len(stack) \in Nat /\ \A n \in 1 .. Len(stack) : stack[n] \in Or0("item")
  BY RecordsAre
<1>3. \A n \in 1 .. Len(stack) : Good(p[n]) /\ p[n].kind = "item" /\ p[n].n = stack[n]
  <2> SUFFICES ASSUME NEW n \in 1 .. Len(stack)
               PROVE  Good(p[n]) /\ p[n].kind = "item" /\ p[n].n = stack[n]
    OBVIOUS
  <2>1. "item" \in Kinds /\ stack[n] \in Or0("item") \cup {Absent}
    BY <1>2 DEF Kinds
  <2>2. PICK m : m = stack[n]
    OBVIOUS
  <2>3. p[n] = Call("item", m, FALSE)
    BY <2>2
  <2>4. Good(Call("item", m, FALSE)) /\ Call("item", m, FALSE).kind = "item" /\ Call("item", m, FALSE).n = m
    BY <2>1, <2>2, GoodCall
  <2> HIDE DEF p
  <2> QED
    BY <2>2, <2>3, <2>4
<1>4. p \in [1 .. Len(stack) -> AnyCalls]
  <2>1. \A n \in 1 .. Len(stack) : p[n] \in AnyCalls
    BY <1>3 DEF Good
  <2> QED
    BY <2>1
<1>5. Roots = p \o <<a, b, c>>
  BY DEF Roots
<1>6. ASSUME NEW x PROVE Among(x, p) <=> \E n \in 1 .. Len(stack) : x = Call("item", stack[n], FALSE)
  <2>1. Len(p) = Len(stack) /\ \A n \in 1 .. Len(stack) : p[n] = Call("item", stack[n], FALSE)
    BY <1>2
  <2> HIDE DEF p
  <2> QED
    BY <2>1 DEF Among
<1> HIDE DEF p, a, b, c
<1>7. Sound(p) /\ Len(p) = Len(stack)
  BY <1>2, <1>3, <1>4, SoundSeqs
<1>8. Sound(<<a, b, c>>)
  BY <1>1, SoundLists
<1>9. Sound(Roots)
  BY <1>5, <1>7, <1>8, SoundJoined
<1>10. ASSUME NEW x PROVE Among(x, Roots) <=> Among(x, p) \/ x \in {a, b, c}
  <2>1. p \in Seq(AnyCalls) /\ <<a, b, c>> \in Seq(AnyCalls)
    BY <1>7, <1>8 DEF Sound
  <2>2. Among(x, Roots) <=> Among(x, p) \/ Among(x, <<a, b, c>>)
    BY <1>5, <2>1, AmongJoined
  <2> QED
    BY <2>2, AmongThree
<1> QED
  BY <1>9, <1>10, <1>6 DEF a, b, c

LEMMA StartCollectionKeeps ==
  ASSUME NEW I, NEW H, NEW V, NEW F, NEW fr, Runs(I, H, V, F, fr), StartCollection
  PROVE  GInv'
<1> DEFINE a == Call("item", exception, FALSE)
           b == Call("hash", Global, TRUE)
           c == Call("frame", cur, FALSE)
<1>1. /\ Typed /\ Heap(I, H, V, F) /\ RootsIn(I, H, F) /\ cur \in F
      /\ Makes /\ Walks /\ Safe(I, H, V, F, fr) /\ gc = "off"
      /\ Unmarked(bits, I, H, V, F) /\ Scopes(hash, frame, F)
  BY RootsAre DEF Runs, Safe, Marking, Heap
<1>2. /\ gc' = "scan" /\ todo' = Followed(Roots) /\ Top.op \in {"body", "handler"}
      /\ item' = item /\ hash' = hash /\ vector' = vector /\ frame' = frame /\ bits' = bits
      /\ stack' = stack /\ cur' = cur /\ native' = native /\ exception' = exception
  BY DEF StartCollection, InBody, heap
<1>3. a.kind = "item" /\ a.n = exception /\ b.kind = "hash" /\ b.n = Global /\ c.kind = "frame" /\ c.n = cur
  BY DEF Call
<1>4. Len(stack) \in Nat /\ \A n \in 1 .. Len(stack) : stack[n] \in Or0("item")
  BY <1>1, RecordsAre
<1>5. \A n \in 1 .. Len(stack) : Call("item", stack[n], FALSE).kind = "item" /\ Call("item", stack[n], FALSE).n = stack[n]
  BY DEF Call
<1>6. /\ Sound(Roots)
      /\ \A x : Among(x, Roots) <=>
           (\E n \in 1 .. Len(stack) : x = Call("item", stack[n], FALSE)) \/ x \in {a, b, c}
  BY <1>1, RootCalls
<1> HIDE DEF a, b, c
<1>7. ASSUME NEW x, Among(x, Roots), x.n > Null PROVE StraightCall(x, F)
  <2>1. CASE \E n \in 1 .. Len(stack) : x = Call("item", stack[n], FALSE)
    BY <1>5, <2>1 DEF StraightCall
  <2>2. CASE x = a
    BY <1>3, <2>2 DEF StraightCall
  <2>3. CASE x = b
    BY <1>1, <1>3, <2>3 DEF StraightCall, Scopes
  <2>4. CASE x = c
    BY <1>1, <1>3, <2>4 DEF StraightCall
  <2> QED
    BY <1>6, <1>7, <2>1, <2>2, <2>3, <2>4
<1>8. /\ todo' \in Seq(Calls)
       /\ \A x : Among(x, todo') => Among(x, Roots) /\ x.kind # "done" /\ StraightCall(x, F)
  BY <1>2, <1>6, <1>7, FollowedIs
<1>9. ASSUME NEW k \in Kinds, NEW n \in Slots(k), Leads(Roots, k, n) PROVE Covered(k, n)'
  <2>1. PICK s : s = Roots
    OBVIOUS
  <2>2. \A t \in 1 .. Len(Followed(s)) : Among(Followed(s)[t], todo')
    BY <1>2, <2>1 DEF Among
  <2>3. \A o \in Objects : "GC" \in bits[o] => "GC" \in bits'[o]
    BY <1>2
  <2>4. Sound(s) /\ Leads(s, k, n)
    BY <1>6, <1>9, <2>1
  <2> QED
    BY <2>2, <2>3, <2>4, FollowedCovers
<1>10. \A x : Among(x, Roots) => Leads(Roots, x.kind, x.n)
  BY DEF Among, Leads
<1>11. RootsCovered'
  <2>0. "item" \in Kinds /\ "hash" \in Kinds /\ "frame" \in Kinds
    BY DEF Kinds
  <2>1. ASSUME NEW n \in 1 .. Len(stack), stack[n] # Null PROVE Covered("item", stack[n])'
    <3>1. Among(Call("item", stack[n], FALSE), Roots)
      BY <1>6, <2>1
    <3>2. Leads(Roots, "item", stack[n])
      BY <1>5, <1>10, <2>1, <3>1
    <3>3. stack[n] \in Slots("item")
      BY <1>4, <2>1 DEF Or0
    <3>4. PICK m : m = stack[n]
      OBVIOUS
    <3>5. Covered("item", m)'
      BY <1>9, <2>0, <3>2, <3>3, <3>4
    <3> QED
      BY <1>2, <3>4, <3>5
  <2>2. ASSUME exception # Null PROVE Covered("item", exception)'
    <3>1. Leads(Roots, "item", exception)
      BY <1>3, <1>6, <1>10
    <3>2. exception \in Slots("item")
      BY <1>1, <2>2 DEF Typed, Or0
    <3>3. PICK m : m = exception
      OBVIOUS
    <3>4. Covered("item", m)'
      BY <1>9, <2>0, <3>1, <3>2, <3>3
    <3> QED
      BY <1>2, <3>3, <3>4
  <2>3. Covered("hash", Global)'
    <3>1. Leads(Roots, "hash", Global)
      BY <1>3, <1>6, <1>10
    <3> QED
      BY <1>9, <2>0, <3>1, SlotsAre
  <2>4. Covered("frame", cur)'
    <3>1. Leads(Roots, "frame", cur)
      BY <1>3, <1>6, <1>10
    <3>2. cur \in Slots("frame")
      BY <1>1 DEF Typed
    <3>3. PICK m : m = cur
      OBVIOUS
    <3>4. Covered("frame", m)'
      BY <1>9, <2>0, <3>1, <3>2, <3>3
    <3> QED
      BY <1>2, <3>3, <3>4
  <2>5. \A n \in 1 .. Len(stack') : stack'[n] # Null => Covered("item", stack[n])'
    BY <1>2, <2>1
  <2>6. exception' # Null => Covered("item", exception)'
    BY <1>2, <2>2
  <2> QED
    BY <2>3, <2>4, <2>5, <2>6 DEF RootsCovered
<1>12. Promises(I, H, V, F)'
  <2>1. /\ \A n \in I : "GC" \notin bits'[<<"item", n>>] /\ ~Begun(n)'
        /\ \A n \in H : "GC" \notin bits'[<<"hash", n>>]
        /\ \A n \in V : "GC" \notin bits'[<<"vector", n>>]
        /\ \A n \in F : "GC" \notin bits'[<<"frame", n>>]
    <3>1. \A t \in 1 .. Len(todo') : todo'[t].kind # "done"
      BY <1>8 DEF Among
    <3> QED
      BY <1>1, <1>2, <3>1 DEF Unmarked, Begun
  <2> QED
    BY <2>1 DEF Promises
<1>13. Straight(F)'
  <2>1. \A t \in 1 .. Len(todo') : StraightCall(todo'[t], F)
    BY <1>8 DEF Among
  <2> QED
    BY <1>2, <2>1 DEF Straight, StraightCall
<1>14. Marking(I, H, V, F)'
  BY <1>2, <1>11, <1>12, <1>13 DEF Marking, Top
<1>15. bits' \in [Objects -> SUBSET {"USE", "GC", "CN"}] /\ \A o \in Objects : "USE" \in bits'[o] <=> "USE" \in bits[o]
  BY <1>1, <1>2 DEF Typed
<1> QED
  BY <1>1, <1>2, <1>8, <1>14, <1>15, CollectorKeeps

-----------------------------------------------------------------------------
(* What the scan of an object of each kind calls.                          *)
LEMMA AmongLeads ==
  ASSUME NEW s, NEW x, Among(x, s)
  PROVE  Leads(s, x.kind, x.n)
BY DEF Among, Leads

LEMMA ScanItemIs ==
  ASSUME Typed, Makes, NEW F, Plain(F), NEW i \in Slots("item")
  PROVE  /\ Sound(ScanItem(i))
         /\ \A x : Among(x, ScanItem(i)) /\ x.n > Null => StraightCall(x, F)
         /\ item[i].hash # Null => Leads(ScanItem(i), "hash", item[i].hash)
         /\ item[i].item # Null => Leads(ScanItem(i), "item", item[i].item)
         /\ item[i].vector # Null => Leads(ScanItem(i), "vector", item[i].vector)
         /\ item[i].frame # Null => Leads(ScanItem(i), "frame", item[i].frame)
<1>1. PICK s : s = ScanItem(i)
  OBVIOUS
<1>2. PICK a, b, c, d, e :
        /\ a = Call("hash", item[i].hash, FALSE) /\ b = Call("hash", item[i].hash, TRUE)
        /\ c = Call("item", item[i].item, FALSE) /\ d = Call("vector", item[i].vector, TRUE)
        /\ e = Call("frame", item[i].frame, FALSE)
  OBVIOUS
<1>3. /\ Shape(item[i]) /\ item[i].type \in ItemTypes
      /\ item[i].hash \in Or0("hash") \cup {Absent} /\ item[i].item \in Or0("item") \cup {Absent}
      /\ item[i].vector \in Or0("vector") \cup {Absent} /\ item[i].frame \in Or0("frame") \cup {Absent}
  BY RecordsAre
<1>4. "item" \in Kinds /\ "hash" \in Kinds /\ "frame" \in Kinds /\ "vector" \in Kinds
  BY DEF Kinds
<1>5. Good(a) /\ a.kind = "hash" /\ a.n = item[i].hash /\ ~a.top
  BY <1>2, <1>3, GoodHash
<1>6. Good(b) /\ b.kind = "hash" /\ b.n = item[i].hash
  BY <1>2, <1>3, GoodScope
<1>7. Good(c) /\ c.kind = "item" /\ c.n = item[i].item
  BY <1>2, <1>3, GoodItem
<1>8. Good(d) /\ d.kind = "vector" /\ d.n = item[i].vector
  BY <1>2, <1>3, GoodVector
<1>9. Good(e) /\ e.kind = "frame" /\ e.n = item[i].frame
  BY <1>2, <1>3, GoodFrame
<1>10. StraightCall(a, F) /\ StraightCall(c, F) /\ StraightCall(d, F)
  BY <1>5, <1>7, <1>8 DEF StraightCall
<1>11. ASSUME item[i].type = "ref", b.n > Null PROVE StraightCall(b, F)
  <2>1. item[i].hash \in Slots("hash")
    BY <1>3, <1>6, <1>11 DEF Or0, Null, Absent
  <2>2. CASE "new" \in Features
    <3>1. item[i].hash = 2
      BY <1>11, <2>2 DEF Makes
    <3> QED
      BY <1>6, <3>1 DEF StraightCall, Plain, Scopes
  <2>3. CASE "new" \notin Features
    BY <1>6, <2>1, <2>3 DEF StraightCall, Makes
  <2> QED
    BY <2>2, <2>3
<1>12. item[i].type = "node" => StraightCall(e, F)
  BY <1>9 DEF StraightCall, Makes
<1>13. CASE item[i].type = "class"
  <2>1. s = <<a, c>>
    BY <1>1, <1>2, <1>13 DEF ScanItem
  <2>2. Sound(s)
    BY <1>5, <1>7, <2>1, SoundLists
  <2>3. \A x : Among(x, s) <=> x \in {a, c}
    BY <2>1, AmongTwo
  <2>4. Leads(s, "hash", item[i].hash) /\ Leads(s, "item", item[i].item)
    BY <1>5, <1>7, <2>3, AmongLeads
  <2>5. item[i].vector = Null /\ item[i].frame = Null
    BY <1>3, <1>13 DEF Shape
  <2> QED
    BY <1>1, <1>10, <2>2, <2>3, <2>4, <2>5
<1>14. CASE item[i].type \in {"array", "refarray"}
  <2>1. s = <<d>>
    BY <1>1, <1>2, <1>14 DEF ScanItem
  <2>2. Sound(s)
    BY <1>8, <2>1, SoundLists
  <2>3. \A x : Among(x, s) <=> x = d
    BY <2>1, AmongOne
  <2>4. Leads(s, "vector", item[i].vector)
    BY <1>8, <2>3, AmongLeads
  <2>5. item[i].hash = Null /\ item[i].frame = Null /\ item[i].item = Null
    BY <1>3, <1>14 DEF Shape
  <2> QED
    BY <1>1, <1>10, <2>2, <2>3, <2>4, <2>5
<1>15. CASE item[i].type = "node"
  <2>1. s = <<e, c>>
    BY <1>1, <1>2, <1>15 DEF ScanItem
  <2>2. Sound(s)
    BY <1>9, <1>7, <2>1, SoundLists
  <2>3. \A x : Among(x, s) <=> x \in {e, c}
    BY <2>1, AmongTwo
  <2>4. Leads(s, "frame", item[i].frame) /\ Leads(s, "item", item[i].item)
    BY <1>9, <1>7, <2>3, AmongLeads
  <2>5. item[i].vector = Null /\ item[i].hash = Null
    BY <1>3, <1>15 DEF Shape
  <2> QED
    BY <1>1, <1>10, <1>12, <1>15, <2>2, <2>3, <2>4, <2>5
<1>16. CASE item[i].type = "ref"
  <2>1. s = <<b>>
    BY <1>1, <1>2, <1>16 DEF ScanItem
  <2>2. Sound(s)
    BY <1>6, <2>1, SoundLists
  <2>3. \A x : Among(x, s) <=> x = b
    BY <2>1, AmongOne
  <2>4. Leads(s, "hash", item[i].hash)
    BY <1>6, <2>3, AmongLeads
  <2>5. item[i].vector = Null /\ item[i].frame = Null /\ item[i].item = Null
    BY <1>3, <1>16 DEF Shape
  <2> QED
    BY <1>1, <1>11, <1>16, <2>2, <2>3, <2>4, <2>5
<1>17. CASE item[i].type \in {"none", "value"}
  <2>1. s = <<>>
    BY <1>1, <1>17 DEF ScanItem
  <2>2. Sound(s)
    BY <1>5, <2>1, SoundLists
  <2>3. \A x : ~Among(x, s)
    BY <2>1, NoneAmong
  <2>5. item[i].hash = Null /\ item[i].vector = Null /\ item[i].frame = Null /\ item[i].item = Null
    BY <1>3, <1>17 DEF Shape
  <2> QED
    BY <1>1, <2>2, <2>3, <2>5
<1> QED
  BY <1>3, <1>13, <1>14, <1>15, <1>16, <1>17 DEF ItemTypes

LEMMA TopStays ==
  ASSUME item' = item
  PROVE  \A x : TopOf(x)' = TopOf(x)
BY DEF TopOf

LEMMA TopOfIs ==
  ASSUME Typed, Walks, NEW x \in Or0("item") \cup {Absent}
  PROVE  /\ TopOf(x) \in Or0("item") \cup {Absent}
         /\ x > Null => TopOf(x) \in Slots("item")
<1>1. PICK rank : Down(rank)
  BY DEF Walks, Down, Goes
<1>2. TypeOK
  BY TypedIs DEF Types
<1>3. CASE x \in Slots("item")
  BY <1>1, <1>2, <1>3, TopIs DEF Or0
<1>4. CASE x \in {Null, Absent}
  <2>1. ~(x > Null) /\ TopOf(x) = x
    BY <1>4 DEF TopOf, Null, Absent
  <2> QED
    BY <2>1
<1> QED
  BY <1>3, <1>4 DEF Or0

LEMMA ScanHashIs ==
  ASSUME Typed, Walks, NEW F, NEW h \in Slots("hash"), NEW top \in BOOLEAN
  PROVE  /\ Sound(ScanHash(h, top))
         /\ \A x : Among(x, ScanHash(h, top)) => StraightCall(x, F)
         /\ \A k \in Keys : IF top THEN Leads(ScanHash(h, top), "item", TopOf(hash[h][k]))
                                   ELSE Leads(ScanHash(h, top), "item", hash[h][k])
<1>1. PICK s : s = ScanHash(h, top)
  OBVIOUS
<1>2. Len(KeyOrder) = 3 /\ KeyOrder[1] = "super" /\ KeyOrder[2] = "x" /\ KeyOrder[3] = "Kernel"
  BY DEF KeyOrder
<1>3. \A k \in 1 .. 3 : KeyOrder[k] \in Keys
  BY <1>2, KeysAre
<1>4. s = [k \in 1 .. 3 |->
             Call("item", IF top THEN TopOf(hash[h][KeyOrder[k]]) ELSE hash[h][KeyOrder[k]], FALSE)]
  BY <1>1, <1>2 DEF ScanHash
<1>5. ASSUME NEW k \in 1 .. 3
      PROVE  /\ Good(s[k]) /\ s[k].kind = "item"
             /\ s[k].n = IF top THEN TopOf(hash[h][KeyOrder[k]]) ELSE hash[h][KeyOrder[k]]
  <2>1. PICK x : x = IF top THEN TopOf(hash[h][KeyOrder[k]]) ELSE hash[h][KeyOrder[k]]
    OBVIOUS
  <2>2. hash[h][KeyOrder[k]] \in Or0("item") \cup {Absent}
    BY <1>3, RecordsAre
  <2>3. x \in Or0("item") \cup {Absent}
    BY <2>1, <2>2, TopOfIs
  <2>4. s[k] = Call("item", x, FALSE) /\ "item" \in Kinds
    BY <1>4, <2>1 DEF Kinds
  <2> QED
    BY <2>1, <2>3, <2>4, GoodItem
<1>6. Sound(s) /\ Len(s) = 3
  <2>1. \A k \in 1 .. 3 : s[k] \in AnyCalls
    BY <1>5 DEF Good
  <2>2. s \in [1 .. 3 -> AnyCalls] /\ 3 \in Nat
    BY <1>4, <2>1
  <2> QED
    BY <1>5, <2>2, SoundSeqs
<1>7. \A x : Among(x, s) => StraightCall(x, F)
  BY <1>5, <1>6 DEF Among, StraightCall
<1>8. ASSUME NEW k \in Keys
      PROVE  IF top THEN Leads(s, "item", TopOf(hash[h][k])) ELSE Leads(s, "item", hash[h][k])
  <2>1. PICK m \in 1 .. 3 : KeyOrder[m] = k
    BY <1>2, KeysAre
  <2> QED
    BY <1>5, <1>6, <2>1 DEF Leads
<1> QED
  BY <1>1, <1>6, <1>7, <1>8

LEMMA ScanVectorIs ==
  ASSUME Typed, Walks, NEW F, NEW v \in Slots("vector")
  PROVE  /\ Sound(ScanVector(v))
         /\ \A x : Among(x, ScanVector(v)) => StraightCall(x, F)
         /\ \A k \in 1 .. Len(vector[v]) : Leads(ScanVector(v), "item", TopOf(vector[v][k]))
<1>1. PICK s : s = ScanVector(v)
  OBVIOUS
<1>2. PICK N : N = Len(vector[v])
  OBVIOUS
<1>3. N \in Nat /\ \A k \in 1 .. N : vector[v][k] \in Or0("item")
  BY <1>2, RecordsAre
<1>4. s = [k \in 1 .. N |-> Call("item", TopOf(vector[v][k]), FALSE)]
  BY <1>1, <1>2 DEF ScanVector
<1>5. ASSUME NEW k \in 1 .. N PROVE Good(s[k]) /\ s[k].kind = "item" /\ s[k].n = TopOf(vector[v][k])
  <2>1. PICK x : x = TopOf(vector[v][k])
    OBVIOUS
  <2>2. vector[v][k] \in Or0("item") \cup {Absent}
    BY <1>3
  <2>3. x \in Or0("item") \cup {Absent}
    BY <2>1, <2>2, TopOfIs
  <2>4. s[k] = Call("item", x, FALSE) /\ "item" \in Kinds
    BY <1>4, <2>1 DEF Kinds
  <2> QED
    BY <2>1, <2>3, <2>4, GoodItem
<1>6. Sound(s) /\ Len(s) = N
  <2>1. \A k \in 1 .. N : s[k] \in AnyCalls
    BY <1>5 DEF Good
  <2>2. s \in [1 .. N -> AnyCalls]
    BY <1>4, <2>1
  <2> QED
    BY <1>3, <1>5, <2>2, SoundSeqs
<1>7. \A x : Among(x, s) => StraightCall(x, F)
  BY <1>5, <1>6 DEF Among, StraightCall
<1>8. \A k \in 1 .. N : Leads(s, "item", TopOf(vector[v][k]))
  BY <1>5, <1>6 DEF Leads
<1> QED
  BY <1>1, <1>2, <1>6, <1>7, <1>8

LEMMA ScanFrameIs ==
  ASSUME Typed, Makes, NEW F, Plain(F), NEW f \in Slots("frame"), "new" \in Features => f \in F
  PROVE  /\ Sound(ScanFrame(f)) /\ Sound(<<Call("frame", frame[f].previous, FALSE)>>)
         /\ \A x : Among(x, ScanFrame(f)) /\ x.n > Null => StraightCall(x, F)
         /\ \A x : Among(x, <<Call("frame", frame[f].previous, FALSE)>>) /\ x.n > Null => StraightCall(x, F)
         /\ Leads(ScanFrame(f), "item", frame[f].last) /\ Leads(ScanFrame(f), "item", frame[f].this)
         /\ Leads(ScanFrame(f), "hash", frame[f].locals) /\ Leads(ScanFrame(f), "frame", frame[f].owner)
         /\ Leads(<<Call("frame", frame[f].previous, FALSE)>>, "frame", frame[f].previous)
<1>1. PICK s : s = ScanFrame(f)
  OBVIOUS
<1>2. PICK a, b, c, d, e :
        /\ a = Call("item", frame[f].last, FALSE) /\ b = Call("item", frame[f].this, FALSE)
        /\ c = Call("hash", frame[f].locals, TRUE) /\ d = Call("frame", frame[f].owner, FALSE)
        /\ e = Call("frame", frame[f].previous, FALSE)
  OBVIOUS
<1>3. /\ frame[f].last \in Or0("item") \cup {Absent} /\ frame[f].this \in Or0("item") \cup {Absent}
      /\ frame[f].locals \in Or0("hash") \cup {Absent} /\ frame[f].owner \in Or0("frame") \cup {Absent}
      /\ frame[f].previous \in Or0("frame") \cup {Absent}
  BY RecordsAre
<1>4. "item" \in Kinds /\ "hash" \in Kinds /\ "frame" \in Kinds
  BY DEF Kinds
<1>5. Good(a) /\ a.kind = "item" /\ a.n = frame[f].last
  BY <1>2, <1>3, GoodItem
<1>6. Good(b) /\ b.kind = "item" /\ b.n = frame[f].this
  BY <1>2, <1>3, GoodItem
<1>7. Good(c) /\ c.kind = "hash" /\ c.n = frame[f].locals
  BY <1>2, <1>3, GoodScope
<1>8. Good(d) /\ d.kind = "frame" /\ d.n = frame[f].owner
  BY <1>2, <1>3, GoodFrame
<1>9. Good(e) /\ e.kind = "frame" /\ e.n = frame[f].previous
  BY <1>2, <1>3, GoodFrame
<1>10. StraightCall(a, F) /\ StraightCall(b, F)
  BY <1>5, <1>6 DEF StraightCall
<1>11. ASSUME c.n > Null PROVE StraightCall(c, F)
  <2>1. frame[f].locals \in Slots("hash") /\ frame[f].locals # Null
    BY <1>3, <1>7, <1>11 DEF Or0, Null, Absent
  <2>2. hash[frame[f].locals]["super"] <= Null
    BY <2>1 DEF Makes, Plain, Scopes
  <2> QED
    BY <1>7, <2>2 DEF StraightCall
<1>12. d.n > Null => StraightCall(d, F)
  BY <1>8 DEF StraightCall, Plain, Null
<1>13. e.n > Null => StraightCall(e, F)
  BY <1>9 DEF StraightCall, Plain, Null
<1>14. s = <<a, b, c, d>>
  BY <1>1, <1>2 DEF ScanFrame
<1>15. Sound(s) /\ Sound(<<e>>)
  BY <1>5, <1>6, <1>7, <1>8, <1>9, <1>14, SoundLists
<1>16. (\A x : Among(x, s) <=> x \in {a, b, c, d}) /\ (\A x : Among(x, <<e>>) <=> x = e)
  BY <1>14, AmongFour, AmongOne
<1>17. /\ Leads(s, "item", frame[f].last) /\ Leads(s, "item", frame[f].this)
       /\ Leads(s, "hash", frame[f].locals) /\ Leads(s, "frame", frame[f].owner)
  BY <1>5, <1>6, <1>7, <1>8, <1>16, AmongLeads
<1>18. Leads(<<e>>, "frame", frame[f].previous)
  BY <1>9, <1>16, AmongLeads
<1>19. \A x : Among(x, s) /\ x.n > Null => StraightCall(x, F)
  BY <1>10, <1>11, <1>12, <1>16
<1>20. \A x : Among(x, <<e>>) /\ x.n > Null => StraightCall(x, F)
  BY <1>13, <1>16
<1> QED
  BY <1>1, <1>2, <1>15, <1>17, <1>18, <1>19, <1>20

-----------------------------------------------------------------------------
(* A step of the scan: what was covered stays so, and what the scan of an  *)
(* object calls is covered from then on.                                   *)
Carries == \A k \in Kinds : \A n \in Slots(k) : Covered(k, n) => Covered(k, n)'

Hears(s) == \A k \in Kinds : \A n \in Slots(k) : Leads(s, k, n) => Covered(k, n)'

LEMMA CarriesIf ==
  ASSUME NEW c \in Calls,
         \A o \in Objects : "GC" \in bits[o] => "GC" \in bits'[o],
         "GC" \in bits'[Object(c)] \/ \E x : Among(x, todo') /\ Object(x) = Object(c),
         \A t \in 1 .. Len(todo) : todo[t] = c \/ Among(todo[t], todo')
  PROVE  Carries
<1> SUFFICES ASSUME NEW k \in Kinds, NEW n \in Slots(k), Covered(k, n) PROVE Covered(k, n)'
  BY DEF Carries
<1>1. CASE "GC" \in bits[<<k, n>>]
  BY <1>1, ObjectsAre DEF Covered
<1>2. CASE \E t \in 1 .. Len(todo) : Object(todo[t]) = <<k, n>>
  <2>1. PICK t \in 1 .. Len(todo) : Object(todo[t]) = <<k, n>>
    BY <1>2
  <2>2. CASE Among(todo[t], todo')
    <3>1. PICK x : x = todo[t]
      OBVIOUS
    <3>2. Object(x) = <<k, n>> /\ Among(x, todo')
      BY <2>1, <2>2, <3>1
    <3> QED
      BY <3>2 DEF Among, Covered, Object
  <2>3. CASE todo[t] = c
    <3>1. Object(c) = <<k, n>>
      BY <2>1, <2>3
    <3>2. CASE "GC" \in bits'[Object(c)]
      BY <3>1, <3>2 DEF Covered
    <3>3. CASE \E x : Among(x, todo') /\ Object(x) = Object(c)
      BY <3>1, <3>3 DEF Among, Covered, Object
    <3> QED
      BY <3>2, <3>3
  <2> QED
    BY <2>1, <2>2, <2>3
<1> QED
  BY <1>1, <1>2 DEF Covered

LEMMA CarriedTo ==
  ASSUME Carries, NEW k \in Kinds, NEW n \in Or0(k), n # Null, Covered(k, n)
  PROVE  Covered(k, n)'
BY DEF Carries, Or0

LEMMA ItemPromiseStays ==
  ASSUME Typed, Carries, item' = item, NEW i \in Slots("item"), ItemPromise(i)
  PROVE  ItemPromise(i)'
<1>1. PICK a, b, c, d : a = item[i].hash /\ b = item[i].item /\ c = item[i].vector /\ d = item[i].frame
  OBVIOUS
<1>2. a \in Or0("hash") /\ b \in Or0("item") /\ c \in Or0("vector") /\ d \in Or0("frame")
  BY <1>1, RecordsAre
<1>3. "item" \in Kinds /\ "hash" \in Kinds /\ "frame" \in Kinds /\ "vector" \in Kinds
  BY DEF Kinds
<1>4. a # Null => Covered("hash", a)'
  BY <1>1, <1>2, <1>3, CarriedTo DEF ItemPromise
<1>5. b # Null => Covered("item", b)'
  BY <1>1, <1>2, <1>3, CarriedTo DEF ItemPromise
<1>6. c # Null => Covered("vector", c)'
  BY <1>1, <1>2, <1>3, CarriedTo DEF ItemPromise
<1>7. d # Null => Covered("frame", d)'
  BY <1>1, <1>2, <1>3, CarriedTo DEF ItemPromise
<1> QED
  BY <1>1, <1>4, <1>5, <1>6, <1>7 DEF ItemPromise

LEMMA ByTopStays ==
  ASSUME Typed, Walks, Carries, item' = item, NEW i \in Or0("item") \cup {Absent}, i > Null, ByTop(i)
  PROVE  ByTop(i)'
<1>1. PICK t : t = TopOf(i)
  OBVIOUS
<1>2. i \in Slots("item") /\ t \in Slots("item") /\ "item" \in Kinds
  BY <1>1, TopOfIs DEF Kinds, Or0, Null, Absent
<1>3. t = TopOf(i)'
  BY <1>1, TopStays
<1>4. Covered("item", i)' \/ Covered("item", t)'
  BY <1>1, <1>2 DEF ByTop, Carries
<1> QED
  BY <1>3, <1>4 DEF ByTop

LEMMA HashPromiseStays ==
  ASSUME Typed, Walks, Carries, item' = item, hash' = hash, NEW h \in Slots("hash"), HashPromise(h)
  PROVE  HashPromise(h)'
<1>1. ASSUME NEW k \in Keys, hash[h][k] > Null PROVE ByTop(hash[h][k])'
  <2>1. PICK x : x = hash[h][k]
    OBVIOUS
  <2>2. x \in Or0("item") \cup {Absent} /\ x > Null /\ ByTop(x)
    BY <1>1, <2>1, RecordsAre DEF HashPromise
  <2>3. ByTop(x)'
    BY <2>2, ByTopStays
  <2> QED
    BY <2>1, <2>3
<1>2. ASSUME hash[h]["super"] > Null PROVE Covered("item", hash[h]["super"])'
  <2>1. PICK x : x = hash[h]["super"]
    OBVIOUS
  <2>2. x \in Or0("item") \cup {Absent} /\ x > Null /\ Covered("item", x) /\ "item" \in Kinds
    BY <1>2, <2>1, RecordsAre, KeysAre DEF HashPromise, Kinds
  <2>3. Covered("item", x)'
    BY <2>2 DEF Carries, Or0, Null, Absent
  <2> QED
    BY <2>1, <2>3
<1> QED
  BY <1>1, <1>2 DEF HashPromise

LEMMA VectorPromiseStays ==
  ASSUME Typed, Walks, Carries, item' = item, vector' = vector, NEW v \in Slots("vector"), VectorPromise(v)
  PROVE  VectorPromise(v)'
<1>1. ASSUME NEW n \in 1 .. Len(vector[v]), vector[v][n] # Null PROVE ByTop(vector[v][n])'
  <2>1. PICK x : x = vector[v][n]
    OBVIOUS
  <2>2. x \in Or0("item") /\ ByTop(x)
    BY <1>1, <2>1, RecordsAre DEF VectorPromise
  <2>3. x \in Or0("item") \cup {Absent} /\ x > Null
    BY <1>1, <2>1, <2>2, SlotsAre DEF Or0, Null
  <2>4. ByTop(x)'
    BY <2>2, <2>3, ByTopStays
  <2> QED
    BY <2>1, <2>4
<1> QED
  BY <1>1 DEF VectorPromise

LEMMA FramePromiseStays ==
  ASSUME Typed, Carries, frame' = frame, NEW f \in Slots("frame"), FramePromise(f)
  PROVE  FramePromise(f)'
<1>1. PICK a, b, c, d, e : /\ a = frame[f].last /\ b = frame[f].this /\ c = frame[f].locals
                           /\ d = frame[f].owner /\ e = frame[f].previous
  OBVIOUS
<1>2. a \in Or0("item") /\ b \in Or0("item") /\ c \in Or0("hash") /\ d \in Or0("frame") /\ e \in Or0("frame")
  BY <1>1, RecordsAre
<1>3. "item" \in Kinds /\ "hash" \in Kinds /\ "frame" \in Kinds
  BY DEF Kinds
<1>4. frame[f].hasLast /\ a # Null => Covered("item", a)'
  BY <1>1, <1>2, <1>3, CarriedTo DEF FramePromise
<1>5. b # Null => Covered("item", b)'
  BY <1>1, <1>2, <1>3, CarriedTo DEF FramePromise
<1>6. c # Null => Covered("hash", c)'
  BY <1>1, <1>2, <1>3, CarriedTo DEF FramePromise
<1>7. d # Null => Covered("frame", d)'
  BY <1>1, <1>2, <1>3, CarriedTo DEF FramePromise
<1>8. e # Null => Covered("frame", e)'
  BY <1>1, <1>2, <1>3, CarriedTo DEF FramePromise
<1> QED
  BY <1>1, <1>4, <1>5, <1>6, <1>7, <1>8 DEF FramePromise

(* The scan of an object keeps what its mark promises.                     *)
LEMMA ItemPromised ==
  ASSUME Typed, Makes, NEW F, Plain(F), item' = item, NEW i \in Slots("item"),
         NEW s, s = ScanItem(i), Hears(s)
  PROVE  ItemPromise(i)'
<1>1. PICK a, b, c, d : a = item[i].hash /\ b = item[i].item /\ c = item[i].vector /\ d = item[i].frame
  OBVIOUS
<1>2. a \in Or0("hash") /\ b \in Or0("item") /\ c \in Or0("vector") /\ d \in Or0("frame")
  BY <1>1, RecordsAre
<1>3. "item" \in Kinds /\ "hash" \in Kinds /\ "frame" \in Kinds /\ "vector" \in Kinds
  BY DEF Kinds
<1>4. /\ a # Null => Leads(s, "hash", a)
      /\ b # Null => Leads(s, "item", b)
      /\ c # Null => Leads(s, "vector", c)
      /\ d # Null => Leads(s, "frame", d)
  BY <1>1, ScanItemIs
<1>5. /\ a # Null => Covered("hash", a)'
      /\ b # Null => Covered("item", b)'
      /\ c # Null => Covered("vector", c)'
      /\ d # Null => Covered("frame", d)'
  BY <1>2, <1>3, <1>4 DEF Hears, Or0
<1> QED
  BY <1>1, <1>5 DEF ItemPromise

LEMMA HashPromised ==
  ASSUME Typed, Walks, item' = item, hash' = hash, NEW h \in Slots("hash"), NEW top \in BOOLEAN,
         NEW s, s = ScanHash(h, top), Hears(s), top => hash[h]["super"] <= Null
  PROVE  HashPromise(h)'
<1>1. ASSUME NEW k \in Keys, NEW x, x = hash[h][k], x > Null
      PROVE  ByTop(x)' /\ (~top => Covered("item", x)')
  <2>1. PICK t : t = TopOf(x)
    OBVIOUS
  <2>2. x \in Or0("item") \cup {Absent}
    BY <1>1, RecordsAre
  <2>3. x \in Slots("item") /\ t \in Slots("item") /\ "item" \in Kinds
    BY <1>1, <2>1, <2>2, TopOfIs DEF Kinds, Or0, Null, Absent
  <2>4. t = TopOf(x)'
    BY <2>1, TopStays
  <2>5. IF top THEN Leads(s, "item", t) ELSE Leads(s, "item", x)
    BY <1>1, <2>1, ScanHashIs
  <2>6. IF top THEN Covered("item", t)' ELSE Covered("item", x)'
    BY <2>3, <2>5 DEF Hears
  <2> QED
    BY <2>4, <2>6 DEF ByTop
<1>2. ASSUME NEW k \in Keys, hash[h][k] > Null PROVE ByTop(hash[h][k])'
  <2>1. PICK x : x = hash[h][k]
    OBVIOUS
  <2>2. ByTop(x)'
    BY <1>1, <1>2, <2>1
  <2> QED
    BY <2>1, <2>2
<1>3. ASSUME hash[h]["super"] > Null PROVE Covered("item", hash[h]["super"])'
  <2>1. PICK x : x = hash[h]["super"]
    OBVIOUS
  <2>2. "super" \in Keys /\ x \in Or0("item") \cup {Absent}
    BY <2>1, RecordsAre, KeysAre
  <2>3. ~top
    BY <1>3, <2>1, <2>2, SlotsAre DEF Or0, Null, Absent
  <2>4. Covered("item", x)'
    BY <1>1, <1>3, <2>1, <2>2, <2>3
  <2> QED
    BY <2>1, <2>4
<1> QED
  BY <1>2, <1>3 DEF HashPromise

LEMMA VectorPromised ==
  ASSUME Typed, Walks, item' = item, vector' = vector, NEW v \in Slots("vector"), NEW s, s = ScanVector(v), Hears(s)
  PROVE  VectorPromise(v)'
<1>1. ASSUME NEW n \in 1 .. Len(vector[v]), vector[v][n] # Null PROVE ByTop(vector[v][n])'
  <2>1. PICK x : x = vector[v][n]
    OBVIOUS
  <2>2. PICK t : t = TopOf(x)
    OBVIOUS
  <2>3. x \in Or0("item") \cup {Absent} /\ x > Null
    <3>1. x \in Or0("item") /\ x # Null
      BY <1>1, <2>1, RecordsAre
    <3> QED
      BY <3>1, SlotsAre DEF Or0, Null
  <2>4. t \in Slots("item") /\ "item" \in Kinds
    BY <2>2, <2>3, TopOfIs DEF Kinds
  <2>5. t = TopOf(x)'
    BY <2>2, TopStays
  <2>6. Leads(s, "item", t)
    BY <2>1, <2>2, ScanVectorIs
  <2>7. Covered("item", t)'
    BY <2>4, <2>6 DEF Hears
  <2>8. ByTop(x)'
    BY <2>5, <2>7 DEF ByTop
  <2> QED
    BY <2>1, <2>8
<1> QED
  BY <1>1 DEF VectorPromise

LEMMA FramePromised ==
  ASSUME Typed, Makes, NEW F, Plain(F), frame' = frame, NEW f \in F, f \in Slots("frame"),
         NEW s, s = ScanFrame(f), Hears(s),
         NEW p, p = <<Call("frame", frame[f].previous, FALSE)>>, Hears(p)
  PROVE  FramePromise(f)'
<1>1. PICK a, b, c, d, e : /\ a = frame[f].last /\ b = frame[f].this /\ c = frame[f].locals
                           /\ d = frame[f].owner /\ e = frame[f].previous
  OBVIOUS
<1>2. a \in Or0("item") /\ b \in Or0("item") /\ c \in Or0("hash") /\ d \in Or0("frame") /\ e \in Or0("frame")
  BY <1>1, RecordsAre
<1>3. "item" \in Kinds /\ "hash" \in Kinds /\ "frame" \in Kinds
  BY DEF Kinds
<1>4. /\ Leads(s, "item", a) /\ Leads(s, "item", b) /\ Leads(s, "hash", c) /\ Leads(s, "frame", d)
      /\ Leads(p, "frame", e)
  BY <1>1, ScanFrameIs
<1>5. /\ a # Null => Covered("item", a)'
      /\ b # Null => Covered("item", b)'
      /\ c # Null => Covered("hash", c)'
      /\ d # Null => Covered("frame", d)'
      /\ e # Null => Covered("frame", e)'
  BY <1>2, <1>3, <1>4 DEF Hears, Or0
<1> QED
  BY <1>1, <1>5 DEF FramePromise

(* A step of the scan.                                                     *)
LEMMA ScannedIs ==
  ASSUME Typed, Makes, Walks, NEW F, Plain(F), NEW c \in Calls, StraightCall(c, F)
  PROVE  /\ Sound(Scanned(c))
         /\ \A x : Among(x, Scanned(c)) /\ x.n > Null => StraightCall(x, F)
<1>1. /\ c.kind \in {"item", "hash", "vector", "frame", "done"} /\ c.top \in BOOLEAN
      /\ c.kind \in Kinds => c.n \in Slots(c.kind)
  BY CallsAre
<1>2. CASE c.kind = "item"
  <2>1. Scanned(c) = ScanItem(c.n) /\ c.n \in Slots("item")
    BY <1>1, <1>2 DEF Scanned, Kinds
  <2> QED
    BY <2>1, ScanItemIs
<1>3. CASE c.kind = "hash"
  <2>1. Scanned(c) = ScanHash(c.n, c.top) /\ c.n \in Slots("hash")
    BY <1>1, <1>3 DEF Scanned, Kinds
  <2> QED
    BY <1>1, <2>1, ScanHashIs
<1>4. CASE c.kind = "vector"
  <2>1. Scanned(c) = ScanVector(c.n) /\ c.n \in Slots("vector")
    BY <1>1, <1>4 DEF Scanned, Kinds
  <2> QED
    BY <2>1, ScanVectorIs
<1>5. CASE c.kind = "frame"
  <2>1. Scanned(c) = ScanFrame(c.n) /\ c.n \in Slots("frame")
    BY <1>1, <1>5 DEF Scanned, Kinds
  <2>2. "new" \in Features => c.n \in F
    BY <1>5 DEF StraightCall
  <2> QED
    BY <2>1, <2>2, ScanFrameIs
<1>6. CASE c.kind = "done"
  <2>1. Scanned(c) = <<>>
    BY <1>6 DEF Scanned
  <2>2. \A x : ~Among(x, <<>>)
    BY NoneAmong
  <2>3. Sound(<<>>)
    BY DEF Sound
  <2> QED
    BY <2>1, <2>2, <2>3
<1> QED
  BY <1>1, <1>2, <1>3, <1>4, <1>5, <1>6

LEMMA AndPreviousIs ==
  ASSUME Typed, Makes, NEW F, Plain(F), NEW c \in Calls, StraightCall(c, F)
  PROVE  /\ AndPrevious(c) \in Seq(Calls)
         /\ \A x : Among(x, AndPrevious(c)) => x.kind = "frame" /\ StraightCall(x, F)
<1>1. CASE c.kind = "frame"
  <2>1. c.n \in Slots("frame") /\ ("new" \in Features => c.n \in F)
    BY <1>1, CallsAre DEF Kinds, StraightCall
  <2>2. PICK e : e = Call("frame", frame[c.n].previous, FALSE)
    OBVIOUS
  <2>3. PICK p : p = <<e>>
    OBVIOUS
  <2>4. Sound(p) /\ \A x : Among(x, p) /\ x.n > Null => StraightCall(x, F)
    BY <2>1, <2>2, <2>3, ScanFrameIs
  <2>5. AndPrevious(c) = Followed(p)
    BY <1>1, <2>2, <2>3 DEF AndPrevious
  <2>6. /\ Followed(p) \in Seq(Calls)
        /\ \A x : Among(x, Followed(p)) => Among(x, p) /\ StraightCall(x, F)
    BY <2>4, FollowedIs
  <2>7. e.kind = "frame"
    BY <2>2 DEF Call
  <2>8. \A x : Among(x, p) <=> x = e
    BY <2>3, AmongOne
  <2> QED
    BY <2>5, <2>6, <2>7, <2>8
<1>2. CASE c.kind # "frame"
  <2>1. AndPrevious(c) = <<>>
    BY <1>2 DEF AndPrevious
  <2> QED
    BY <2>1, NoneAmong
<1> QED
  BY <1>1, <1>2

LEMMA MarkLaterIs ==
  ASSUME NEW c \in Calls, NEW calls
  PROVE  /\ MarkLater(c, calls) \in Seq(Calls)
         /\ \A x : Among(x, MarkLater(c, calls)) => c.kind = "item" /\ x.kind = "done" /\ x.n = c.n
         /\ MarkLater(c, calls) # <<>> => /\ c.kind = "item" /\ calls # <<>>
                                          /\ \E x : Among(x, MarkLater(c, calls)) /\ Object(x) = Object(c)
<1>1. CASE c.kind = "item" /\ calls # <<>>
  <2>1. PICK d : d = Call("done", c.n, FALSE)
    OBVIOUS
  <2>2. c.n \in Slots("item") /\ c.n \in Int /\ Object(c) = <<"item", c.n>>
    BY <1>1, CallsAre DEF Kinds
  <2>3. d \in Calls /\ d.kind = "done" /\ d.n = c.n /\ Object(d) = <<"item", c.n>>
    <3>1. PICK m : m = c.n
      OBVIOUS
    <3>2. m \in Slots("item") /\ m \in Int /\ d = Call("done", m, FALSE)
      BY <2>1, <2>2, <3>1
    <3>3. d \in Calls /\ d.kind = "done" /\ d.n = m
      BY <3>2, CallIs
    <3>4. Object(d) = <<"item", m>>
      BY <3>3 DEF Object
    <3> QED
      BY <3>1, <3>3, <3>4
  <2>4. MarkLater(c, calls) = <<d>>
    BY <1>1, <2>1 DEF MarkLater
  <2>5. \A x : Among(x, <<d>>) <=> x = d
    BY AmongOne
  <2> QED
    BY <1>1, <2>2, <2>3, <2>4, <2>5
<1>2. CASE ~(c.kind = "item" /\ calls # <<>>)
  <2>1. MarkLater(c, calls) = <<>>
    BY <1>2 DEF MarkLater
  <2> QED
    BY <2>1, NoneAmong
<1> QED
  BY <1>1, <1>2

LEMMA TodoIs ==
  ASSUME Typed, todo # <<>>
  PROVE  /\ Head(todo) \in Calls /\ Among(Head(todo), todo)
         /\ Tail(todo) \in Seq(Calls)
         /\ \A x : Among(x, Tail(todo)) => Among(x, todo)
         /\ \A t \in 1 .. Len(todo) : todo[t] = Head(todo) \/ Among(todo[t], Tail(todo))
<1>1. todo \in Seq(Calls) /\ Len(todo) \in Nat \ {0}
  BY DEF Typed
<1>2. Head(todo) = todo[1] /\ Tail(todo) \in Seq(Calls) /\ Len(Tail(todo)) = Len(todo) - 1
  BY <1>1
<1>3. \A t \in 1 .. Len(Tail(todo)) : Tail(todo)[t] = todo[t + 1]
  BY <1>1
<1>4. Head(todo) \in Calls /\ Among(Head(todo), todo)
  BY <1>1, <1>2 DEF Among
<1>5. \A x : Among(x, Tail(todo)) => Among(x, todo)
  <2> SUFFICES ASSUME NEW t \in 1 .. Len(Tail(todo)) PROVE Among(Tail(todo)[t], todo)
    BY DEF Among
  <2>1. t + 1 \in 1 .. Len(todo) /\ Tail(todo)[t] = todo[t + 1]
    BY <1>1, <1>2, <1>3
  <2> QED
    BY <2>1 DEF Among
<1>6. ASSUME NEW t \in 1 .. Len(todo), t # 1 PROVE Among(todo[t], Tail(todo))
  <2>1. t - 1 \in 1 .. Len(Tail(todo)) /\ (t - 1) + 1 = t
    BY <1>1, <1>2, <1>6
  <2>2. Tail(todo)[t - 1] = todo[t]
    BY <1>3, <2>1
  <2> QED
    BY <2>1, <2>2 DEF Among
<1> QED
  BY <1>2, <1>4, <1>5, <1>6

(* What one step does to the list and to the flags.                        *)
ScanStep(c, calls, later, F) ==
  /\ c \in Calls /\ Among(c, todo) /\ StraightCall(c, F)
  /\ calls = IF Marked(c) THEN <<>> ELSE Followed(Scanned(c))
  /\ later = MarkLater(c, calls)
  /\ bits' = [bits EXCEPT ![Object(c)] = IF later = <<>> THEN @ \cup {"GC"} ELSE @]
  /\ todo' \in Seq(Calls)
  /\ \A x : Among(x, todo') => StraightCall(x, F)
  /\ \A x : Among(x, todo') /\ x.kind = "done" => Among(x, todo) \/ (~Marked(c) /\ c.kind = "item" /\ x.n = c.n)
  /\ \A x : Among(x, calls) \/ Among(x, later) \/ Among(x, AndPrevious(c)) => Among(x, todo')
  /\ \A x : Among(x, todo') => Among(x, calls) \/ Among(x, later) \/ Among(x, AndPrevious(c)) \/ Among(x, todo)
  /\ \A t \in 1 .. Len(todo) : todo[t] = c \/ Among(todo[t], todo')

LEMMA ScanSteps ==
  ASSUME NEW I, NEW H, NEW V, NEW F, NEW fr, Typed, Makes, Walks, Safe(I, H, V, F, fr), Scan
  PROVE  \E c, calls, later : ScanStep(c, calls, later, F)
<1>1. Plain(F) /\ Straight(F)
  BY HeapPlain DEF Safe, Marking, Scan
<1>2. PICK c, tail : c = Head(todo) /\ tail = Tail(todo)
  OBVIOUS
<1>3. /\ c \in Calls /\ Among(c, todo) /\ tail \in Seq(Calls)
      /\ \A x : Among(x, tail) => Among(x, todo)
      /\ \A t \in 1 .. Len(todo) : todo[t] = c \/ Among(todo[t], tail)
  BY <1>2, TodoIs DEF Scan
<1>4. \A x : Among(x, todo) => StraightCall(x, F)
  BY <1>1, StraightIs
<1>5. PICK calls, later, previous :
        /\ calls = IF Marked(c) THEN <<>> ELSE Followed(Scanned(c))
        /\ later = MarkLater(c, calls) /\ previous = AndPrevious(c)
  OBVIOUS
<1>6. /\ todo' = calls \o later \o previous \o tail
      /\ bits' = [bits EXCEPT ![Object(c)] = IF later = <<>> THEN @ \cup {"GC"} ELSE @]
  BY <1>2, <1>5 DEF Scan
<1>7. calls \in Seq(Calls) /\ \A x : Among(x, calls) => x.kind # "done" /\ StraightCall(x, F)
  <2>1. CASE Marked(c)
    BY <1>5, <2>1, NoneAmong
  <2>2. CASE ~Marked(c)
    <3>1. PICK s : s = Scanned(c)
      OBVIOUS
    <3>2. Sound(s) /\ \A x : Among(x, s) /\ x.n > Null => StraightCall(x, F)
      BY <1>1, <1>3, <1>4, <3>1, ScannedIs
    <3>3. calls = Followed(s)
      BY <1>5, <2>2, <3>1
    <3> QED
      BY <3>2, <3>3, FollowedIs
  <2> QED
    BY <2>1, <2>2
<1>8. later \in Seq(Calls) /\ \A x : Among(x, later) => c.kind = "item" /\ x.kind = "done" /\ x.n = c.n
  BY <1>3, <1>5, MarkLaterIs
<1>9. Marked(c) => \A x : ~Among(x, later)
  <2>1. later # <<>> => calls # <<>>
    BY <1>3, <1>5, MarkLaterIs
  <2> QED
    BY <1>5, <2>1, NoneAmong
<1>10. previous \in Seq(Calls) /\ \A x : Among(x, previous) => x.kind = "frame" /\ StraightCall(x, F)
  BY <1>1, <1>3, <1>4, <1>5, AndPreviousIs
<1>11. /\ todo' \in Seq(Calls)
       /\ \A x : Among(x, todo') <=> Among(x, calls) \/ Among(x, later) \/ Among(x, previous) \/ Among(x, tail)
  <2>1. PICK a, b : a = calls \o later /\ b = a \o previous
    OBVIOUS
  <2>2. a \in Seq(Calls) /\ \A x : Among(x, a) <=> Among(x, calls) \/ Among(x, later)
    <3>1. calls \in Seq(Calls) /\ later \in Seq(Calls) /\ a = calls \o later
      BY <1>7, <1>8, <2>1
    <3>2. a \in Seq(Calls)
      BY <3>1, ConcatIs
    <3>3. ASSUME NEW x PROVE Among(x, a) <=> Among(x, calls) \/ Among(x, later)
      BY <3>1, AmongJoined
    <3> QED
      BY <3>2, <3>3
  <2>3. b \in Seq(Calls) /\ \A x : Among(x, b) <=> Among(x, a) \/ Among(x, previous)
    <3>1. a \in Seq(Calls) /\ previous \in Seq(Calls) /\ b = a \o previous
      BY <1>10, <2>1, <2>2
    <3>2. b \in Seq(Calls)
      BY <3>1, ConcatIs
    <3>3. ASSUME NEW x PROVE Among(x, b) <=> Among(x, a) \/ Among(x, previous)
      BY <3>1, AmongJoined
    <3> QED
      BY <3>2, <3>3
  <2>4. todo' \in Seq(Calls) /\ \A x : Among(x, todo') <=> Among(x, b) \/ Among(x, tail)
    <3>1. b \in Seq(Calls) /\ tail \in Seq(Calls) /\ todo' = b \o tail
      BY <1>3, <1>6, <2>1, <2>3
    <3>2. todo' \in Seq(Calls)
      BY <3>1, ConcatIs
    <3>3. ASSUME NEW x PROVE Among(x, todo') <=> Among(x, b) \/ Among(x, tail)
      BY <3>1, AmongJoined
    <3> QED
      BY <3>2, <3>3
  <2> QED
    BY <2>2, <2>3, <2>4
<1>12. \A x : Among(x, later) => StraightCall(x, F)
  BY <1>8 DEF StraightCall
<1>13. \A x : Among(x, todo') => StraightCall(x, F)
  BY <1>3, <1>4, <1>7, <1>10, <1>11, <1>12
<1>14. \A x : Among(x, todo') /\ x.kind = "done" => Among(x, todo) \/ (~Marked(c) /\ c.kind = "item" /\ x.n = c.n)
  BY <1>3, <1>7, <1>8, <1>9, <1>10, <1>11
<1>15. \A t \in 1 .. Len(todo) : todo[t] = c \/ Among(todo[t], todo')
  BY <1>3, <1>11
<1>16. \A x : Among(x, todo') => Among(x, calls) \/ Among(x, later) \/ Among(x, AndPrevious(c)) \/ Among(x, todo)
  BY <1>3, <1>5, <1>11
<1>17. ScanStep(c, calls, later, F)
  BY <1>3, <1>4, <1>5, <1>6, <1>11, <1>13, <1>14, <1>15, <1>16 DEF ScanStep
<1> QED
  BY <1>17

LEMMA HearsIf ==
  ASSUME NEW s, Sound(s), \A x : Among(x, Followed(s)) => Among(x, todo'),
         \A o \in Objects : "GC" \in bits[o] => "GC" \in bits'[o]
  PROVE  Hears(s)
<1>1. \A t \in 1 .. Len(Followed(s)) : Among(Followed(s)[t], todo')
  BY DEF Among
<1> QED
  BY <1>1, FollowedCovers DEF Hears

LEMMA ScanMarks ==
  ASSUME Typed, NEW F, NEW c, NEW calls, NEW later, ScanStep(c, calls, later, F)
  PROVE  /\ bits' \in [Objects -> SUBSET {"USE", "GC", "CN"}]
         /\ \A o \in Objects : "USE" \in bits'[o] <=> "USE" \in bits[o]
         /\ \A o \in Objects : "GC" \in bits[o] => "GC" \in bits'[o]
         /\ \A o \in Objects : "GC" \in bits'[o] => "GC" \in bits[o] \/ (o = Object(c) /\ ~Marked(c))
         /\ Carries
<1>1. c \in Calls /\ Object(c) \in Objects
  BY CallsAre DEF ScanStep
<1>2. bits' = [bits EXCEPT ![Object(c)] = IF later = <<>> THEN @ \cup {"GC"} ELSE @]
  BY DEF ScanStep
<1>3. bits \in [Objects -> SUBSET {"USE", "GC", "CN"}]
  BY DEF Typed
<1>4. /\ \A o \in Objects : o # Object(c) => bits'[o] = bits[o]
      /\ bits'[Object(c)] = IF later = <<>> THEN bits[Object(c)] \cup {"GC"} ELSE bits[Object(c)]
  BY <1>1, <1>2, <1>3
<1>5. bits' \in [Objects -> SUBSET {"USE", "GC", "CN"}]
  BY <1>2, <1>3
<1>6. \A o \in Objects : ("USE" \in bits'[o] <=> "USE" \in bits[o]) /\ ("GC" \in bits[o] => "GC" \in bits'[o])
  BY <1>4
<1>7. \A o \in Objects : "GC" \in bits'[o] => "GC" \in bits[o] \/ (o = Object(c) /\ ~Marked(c))
  BY <1>4 DEF Marked
<1>8. "GC" \in bits'[Object(c)] \/ \E x : Among(x, todo') /\ Object(x) = Object(c)
  <2>1. CASE later = <<>>
    BY <1>4, <2>1
  <2>2. CASE later # <<>>
    <3>1. PICK x : Among(x, later) /\ Object(x) = Object(c)
      BY <1>1, <2>2, MarkLaterIs DEF ScanStep
    <3> QED
      BY <3>1 DEF ScanStep
  <2> QED
    BY <2>1, <2>2
<1>9. Carries
  BY <1>1, <1>6, <1>8, CarriesIf DEF ScanStep
<1> QED
  BY <1>5, <1>6, <1>7, <1>9

LEMMA ScanHears ==
  ASSUME NEW I, NEW H, NEW V, NEW F, NEW fr, Typed, Makes, Walks, Safe(I, H, V, F, fr),
         NEW c, NEW calls, NEW later, ScanStep(c, calls, later, F)
  PROVE  /\ ~Marked(c) => Hears(Scanned(c))
         /\ c.kind = "frame" => Hears(<<Call("frame", frame[c.n].previous, FALSE)>>)
<1>1. Plain(F) /\ c \in Calls /\ StraightCall(c, F)
  BY HeapPlain DEF Safe, ScanStep
<1>2. \A o \in Objects : "GC" \in bits[o] => "GC" \in bits'[o]
  BY ScanMarks
<1>3. ASSUME ~Marked(c) PROVE Hears(Scanned(c))
  <2>1. PICK s : s = Scanned(c)
    OBVIOUS
  <2>2. Sound(s)
    BY <1>1, <2>1, ScannedIs
  <2>3. \A x : Among(x, Followed(s)) => Among(x, todo')
    BY <1>3, <2>1 DEF ScanStep
  <2> QED
    BY <1>2, <2>1, <2>2, <2>3, HearsIf
<1>4. ASSUME c.kind = "frame" PROVE Hears(<<Call("frame", frame[c.n].previous, FALSE)>>)
  <2>1. PICK s : s = <<Call("frame", frame[c.n].previous, FALSE)>>
    OBVIOUS
  <2>2. c.n \in Slots("frame") /\ ("new" \in Features => c.n \in F)
    BY <1>1, <1>4, CallsAre DEF Kinds, StraightCall
  <2>3. Sound(s)
    BY <1>1, <2>1, <2>2, ScanFrameIs
  <2>4. AndPrevious(c) = Followed(s)
    BY <1>4, <2>1 DEF AndPrevious
  <2>5. \A x : Among(x, Followed(s)) => Among(x, todo')
    BY <2>4 DEF ScanStep
  <2>6. Hears(s)
    BY <1>2, <2>3, <2>5, HearsIf
  <2> QED
    BY <2>1, <2>6
<1> QED
  BY <1>3, <1>4

LEMMA ScanKeeps ==
  ASSUME NEW I, NEW H, NEW V, NEW F, NEW fr, Typed, Makes, Walks, Safe(I, H, V, F, fr), Scan
  PROVE  GInv'
<1>1. PICK c, calls, later : ScanStep(c, calls, later, F)
  BY ScanSteps
<1>2. /\ gc = "scan" /\ gc' = "scan"
      /\ item' = item /\ hash' = hash /\ vector' = vector /\ frame' = frame
      /\ stack' = stack /\ cur' = cur /\ native' = native /\ exception' = exception
  BY DEF Scan
<1>3. /\ Heap(I, H, V, F) /\ RootsIn(I, H, F) /\ RootsCovered /\ Promises(I, H, V, F) /\ Top.op \in {"body", "handler"}
  BY <1>2 DEF Safe, Marking
<1>4. /\ I \subseteq Slots("item") /\ H \subseteq Slots("hash") /\ V \subseteq Slots("vector") /\ F \subseteq Slots("frame")
      /\ Plain(F)
  BY <1>3, HeapPlain DEF Heap
<1>5. /\ bits' \in [Objects -> SUBSET {"USE", "GC", "CN"}]
      /\ \A o \in Objects : "USE" \in bits'[o] <=> "USE" \in bits[o]
      /\ \A o \in Objects : "GC" \in bits'[o] => "GC" \in bits[o] \/ (o = Object(c) /\ ~Marked(c))
      /\ Carries
  BY <1>1, ScanMarks
<1>6. /\ ~Marked(c) => Hears(Scanned(c))
      /\ c.kind = "frame" => Hears(<<Call("frame", frame[c.n].previous, FALSE)>>)
  BY <1>1, ScanHears
<1>7. /\ c \in Calls /\ Among(c, todo) /\ StraightCall(c, F) /\ todo' \in Seq(Calls)
      /\ \A x : Among(x, todo') => StraightCall(x, F)
      /\ \A x : Among(x, todo') /\ x.kind = "done" => Among(x, todo) \/ (~Marked(c) /\ c.kind = "item" /\ x.n = c.n)
  BY <1>1 DEF ScanStep
<1>8. /\ c.kind \in {"item", "hash", "vector", "frame", "done"} /\ c.top \in BOOLEAN
      /\ c.kind \in Kinds => c.n \in Slots(c.kind) /\ Object(c) = <<c.kind, c.n>>
      /\ c.kind = "done" => Object(c) = <<"item", c.n>>
  BY <1>7, CallsAre
<1>9. "item" \in Kinds /\ "hash" \in Kinds /\ "frame" \in Kinds /\ "vector" \in Kinds
  BY DEF Kinds
<1>10. ASSUME NEW i \in I, Begun(i)' PROVE ItemPromise(i)'
  <2>0. i \in Slots("item") /\ <<"item", i>> \in Objects
    BY <1>4, <1>9, ObjectsAre
  <2>1. ASSUME Begun(i) PROVE ItemPromise(i)'
    <3>1. ItemPromise(i)
      BY <1>3, <2>1 DEF Promises
    <3> QED
      BY <1>2, <1>5, <2>0, <3>1, ItemPromiseStays
  <2>2. ASSUME ~Marked(c), c.kind = "item", c.n = i PROVE ItemPromise(i)'
    <3>1. PICK s : s = ScanItem(i)
      OBVIOUS
    <3>2. Scanned(c) = s
      BY <2>2, <3>1 DEF Scanned
    <3>3. Hears(s)
      BY <1>6, <2>2, <3>2
    <3> QED
      BY <1>2, <1>4, <2>0, <3>1, <3>3, ItemPromised
  <2>3. CASE "GC" \in bits'[<<"item", i>>]
    <3>1. CASE "GC" \in bits[<<"item", i>>]
      BY <2>1, <3>1 DEF Begun
    <3>2. CASE <<"item", i>> = Object(c) /\ ~Marked(c)
      <4>1. c.kind \in {"item", "done"} /\ c.n = i
        BY <1>8, <3>2 DEF Kinds
      <4>2. CASE c.kind = "item"
        BY <2>2, <3>2, <4>1, <4>2
      <4>3. CASE c.kind = "done"
        <5>1. Begun(i)
          BY <1>7, <4>1, <4>3 DEF Begun, Among
        <5> QED
          BY <2>1, <5>1
      <4> QED
        BY <4>1, <4>2, <4>3
    <3> QED
      BY <1>5, <2>0, <2>3, <3>1, <3>2
  <2>4. CASE \E t \in 1 .. Len(todo') : todo'[t].kind = "done" /\ todo'[t].n = i
    <3>1. PICK t \in 1 .. Len(todo') : todo'[t].kind = "done" /\ todo'[t].n = i
      BY <2>4
    <3>2. PICK x : x = todo'[t]
      OBVIOUS
    <3>3. Among(x, todo') /\ x.kind = "done" /\ x.n = i
      BY <3>1, <3>2 DEF Among
    <3>4. CASE Among(x, todo)
      <4>1. Begun(i)
        BY <3>3, <3>4 DEF Begun, Among
      <4> QED
        BY <2>1, <4>1
    <3>5. CASE ~Marked(c) /\ c.kind = "item" /\ x.n = c.n
      BY <2>2, <3>3, <3>5
    <3> QED
      BY <1>7, <3>3, <3>4, <3>5
  <2> QED
    BY <1>10, <2>3, <2>4 DEF Begun
<1>11. ASSUME NEW h \in H, "GC" \in bits'[<<"hash", h>>] PROVE HashPromise(h)'
  <2>0. h \in Slots("hash") /\ <<"hash", h>> \in Objects
    BY <1>4, <1>9, ObjectsAre
  <2>1. CASE "GC" \in bits[<<"hash", h>>]
    <3>1. HashPromise(h)
      BY <1>3, <2>1 DEF Promises
    <3> QED
      BY <1>2, <1>5, <2>0, <3>1, HashPromiseStays
  <2>2. CASE <<"hash", h>> = Object(c) /\ ~Marked(c)
    <3>1. c.kind = "hash" /\ c.n = h
      BY <1>8, <2>2 DEF Kinds
    <3>2. PICK s : s = ScanHash(h, c.top)
      OBVIOUS
    <3>3. Scanned(c) = s
      BY <3>1, <3>2 DEF Scanned
    <3>4. Hears(s)
      BY <1>6, <2>2, <3>3
    <3>5. c.top => hash[h]["super"] <= Null
      BY <1>7, <3>1 DEF StraightCall
    <3> QED
      BY <1>2, <1>8, <2>0, <3>2, <3>4, <3>5, HashPromised
  <2> QED
    BY <1>5, <1>11, <2>0, <2>1, <2>2
<1>12. ASSUME NEW v \in V, "GC" \in bits'[<<"vector", v>>] PROVE VectorPromise(v)'
  <2>0. v \in Slots("vector") /\ <<"vector", v>> \in Objects
    BY <1>4, <1>9, ObjectsAre
  <2>1. CASE "GC" \in bits[<<"vector", v>>]
    <3>1. VectorPromise(v)
      BY <1>3, <2>1 DEF Promises
    <3> QED
      BY <1>2, <1>5, <2>0, <3>1, VectorPromiseStays
  <2>2. CASE <<"vector", v>> = Object(c) /\ ~Marked(c)
    <3>1. c.kind = "vector" /\ c.n = v
      BY <1>8, <2>2 DEF Kinds
    <3>2. PICK s : s = ScanVector(v)
      OBVIOUS
    <3>3. Scanned(c) = s
      BY <3>1, <3>2 DEF Scanned
    <3>4. Hears(s)
      BY <1>6, <2>2, <3>3
    <3> QED
      BY <1>2, <2>0, <3>2, <3>4, VectorPromised
  <2> QED
    BY <1>5, <1>12, <2>0, <2>1, <2>2
<1>13. ASSUME NEW f \in F, "GC" \in bits'[<<"frame", f>>] PROVE FramePromise(f)'
  <2>0. f \in Slots("frame") /\ <<"frame", f>> \in Objects
    BY <1>4, <1>9, ObjectsAre
  <2>1. CASE "GC" \in bits[<<"frame", f>>]
    <3>1. FramePromise(f)
      BY <1>3, <2>1 DEF Promises
    <3> QED
      BY <1>2, <1>5, <2>0, <3>1, FramePromiseStays
  <2>2. CASE <<"frame", f>> = Object(c) /\ ~Marked(c)
    <3>1. c.kind = "frame" /\ c.n = f
      BY <1>8, <2>2 DEF Kinds
    <3>2. PICK s, p : s = ScanFrame(f) /\ p = <<Call("frame", frame[f].previous, FALSE)>>
      OBVIOUS
    <3>3. Scanned(c) = s
      BY <3>1, <3>2 DEF Scanned
    <3>4. Hears(s) /\ Hears(p)
      BY <1>6, <2>2, <3>1, <3>2, <3>3
    <3> QED
      BY <1>2, <1>4, <2>0, <3>2, <3>4, FramePromised
  <2> QED
    BY <1>5, <1>13, <2>0, <2>1, <2>2
<1>14. Promises(I, H, V, F)'
  BY <1>10, <1>11, <1>12, <1>13 DEF Promises
<1>15. Straight(F)'
  <2>1. \A t \in 1 .. Len(todo') : StraightCall(todo'[t], F)
    BY <1>7 DEF Among
  <2> QED
    BY <1>2, <2>1 DEF Straight, StraightCall
<1>16. RootsCovered'
  <2>1. ASSUME NEW n \in 1 .. Len(stack), stack[n] # Null PROVE Covered("item", stack[n])'
    <3>1. PICK m : m = stack[n]
      OBVIOUS
    <3>2. m \in Or0("item") /\ m # Null /\ Covered("item", m)
      BY <1>3, <2>1, <3>1, RecordsAre DEF RootsCovered
    <3>3. Covered("item", m)'
      BY <1>5, <1>9, <3>2, CarriedTo
    <3> QED
      BY <1>2, <3>1, <3>3
  <2>2. ASSUME exception # Null PROVE Covered("item", exception)'
    <3>1. PICK m : m = exception
      OBVIOUS
    <3>2. m \in Or0("item") /\ m # Null /\ Covered("item", m)
      BY <1>3, <2>2, <3>1 DEF RootsCovered, Typed
    <3>3. Covered("item", m)'
      BY <1>5, <1>9, <3>2, CarriedTo
    <3> QED
      BY <1>2, <3>1, <3>3
  <2>3. Covered("hash", Global)'
    BY <1>3, <1>5, <1>9, SlotsAre DEF RootsCovered, Carries
  <2>4. Covered("frame", cur)'
    <3>1. PICK m : m = cur
      OBVIOUS
    <3>2. m \in Slots("frame") /\ Covered("frame", m)
      BY <1>3, <3>1 DEF RootsCovered, Typed
    <3>3. Covered("frame", m)'
      BY <1>5, <1>9, <3>2 DEF Carries
    <3> QED
      BY <1>2, <3>1, <3>3
  <2>5. \A n \in 1 .. Len(stack') : stack'[n] # Null => Covered("item", stack[n])'
    BY <1>2, <2>1
  <2>6. exception' # Null => Covered("item", exception)'
    BY <1>2, <2>2
  <2> QED
    BY <2>3, <2>4, <2>5, <2>6 DEF RootsCovered
<1>17. Marking(I, H, V, F)'
  BY <1>2, <1>3, <1>14, <1>15, <1>16 DEF Marking, Top
<1> QED
  BY <1>2, <1>5, <1>7, <1>17, CollectorKeeps

-----------------------------------------------------------------------------
(* The sweep.  When nothing is left to do, what is covered is marked: the  *)
(* marked objects among those the script can get at are all of those it    *)
(* can get at.                                                             *)
HasMark(k, n) == "GC" \in bits[<<k, n>>]

LEMMA CoveredIs ==
  ASSUME todo = <<>>
  PROVE  \A k, n : Covered(k, n) <=> HasMark(k, n)
BY DEF Covered, HasMark

LEMMA NothingIs ==
  /\ NoItem \in ItemSet /\ Shape(NoItem) /\ NoItem.type = "none" /\ NoItem.item = Null
  /\ NoEntries \in [Keys -> Or0("item") \cup {Absent}] /\ NoEntries["super"] = Absent
<1>1. 0 \in 0 .. MaxLength /\ Null \in Or0("hash") /\ Null \in Or0("vector") /\ Null \in Or0("frame") /\ Null \in Or0("item")
  BY MkGcAssumption DEF Or0
<1>2. /\ NoItem.type = "none" /\ NoItem.hash = Null /\ NoItem.item = Null /\ NoItem.vector = Null /\ NoItem.frame = Null
      /\ NoItem.at = 0
  BY DEF NoItem
<1>3. NoItem \in ItemSet
  BY <1>1 DEF NoItem, ItemSet, ItemTypes
<1>4. Shape(NoItem)
  BY <1>2 DEF Shape
<1>5. NoEntries \in [Keys -> Or0("item") \cup {Absent}] /\ NoEntries["super"] = Absent
  BY KeysAre DEF NoEntries
<1> QED
  BY <1>2, <1>3, <1>4, <1>5

LEMMA SweptIs ==
  ASSUME Typed, Sweep
  PROVE  /\ \A i \in Slots("item") : item'[i] = item[i] \/ item'[i] = NoItem
         /\ \A i \in Slots("item") : HasMark("item", i) => item'[i] = item[i]
         /\ \A h \in Slots("hash") : hash'[h] = hash[h] \/ hash'[h] = NoEntries
         /\ \A h \in Slots("hash") : HasMark("hash", h) => hash'[h] = hash[h]
         /\ \A v \in Slots("vector") : HasMark("vector", v) => vector'[v] = vector[v]
         /\ frame' = frame
         /\ \A o \in Objects : InUse(o) /\ "GC" \in bits[o] => bits'[o] = {"USE"}
         /\ \A h \in Slots("hash") : "USE" \notin bits'[<<"hash", h>>] => hash'[h] = NoEntries \/ ~InUse(<<"hash", h>>)
         /\ Typed'
<1>1. "item" \in Kinds /\ "hash" \in Kinds /\ "frame" \in Kinds /\ "vector" \in Kinds
  BY DEF Kinds
<1>2. \A o \in Objects : "GC" \in bits[o] => o \notin Garbage
  BY DEF Garbage
<1>3. /\ bits' = [o \in Objects |-> IF o \in Garbage THEN {} ELSE IF InUse(o) THEN {"USE"} ELSE bits[o]]
      /\ item' = [i \in Slots("item") |-> IF <<"item", i>> \in Garbage THEN NoItem ELSE item[i]]
      /\ hash' = [h \in Slots("hash") |-> IF <<"hash", h>> \in Garbage THEN NoEntries ELSE hash[h]]
      /\ vector' = [v \in Slots("vector") |-> IF <<"vector", v>> \in Garbage THEN <<>> ELSE vector[v]]
      /\ frame' = frame /\ gc' = "off" /\ todo = <<>> /\ stack' = stack /\ cur' = cur /\ native' = native
      /\ exception' = exception /\ todo' = todo
  BY DEF Sweep
<1>4. /\ \A i \in Slots("item") : <<"item", i>> \in Objects
      /\ \A h \in Slots("hash") : <<"hash", h>> \in Objects
      /\ \A v \in Slots("vector") : <<"vector", v>> \in Objects
      /\ \A f \in Slots("frame") : <<"frame", f>> \in Objects
  BY <1>1, ObjectsAre
<1>5. \A i \in Slots("item") : /\ item'[i] = item[i] \/ item'[i] = NoItem
                               /\ HasMark("item", i) => item'[i] = item[i]
  BY <1>2, <1>3, <1>4 DEF HasMark
<1>6. \A h \in Slots("hash") : /\ hash'[h] = hash[h] \/ hash'[h] = NoEntries
                               /\ HasMark("hash", h) => hash'[h] = hash[h]
  BY <1>2, <1>3, <1>4 DEF HasMark
<1>7. \A v \in Slots("vector") : HasMark("vector", v) => vector'[v] = vector[v]
  BY <1>2, <1>3, <1>4 DEF HasMark
<1>8. frame' = frame
  BY <1>3
<1>9. \A o \in Objects : InUse(o) /\ "GC" \in bits[o] => bits'[o] = {"USE"}
  BY <1>2, <1>3
<1>10. \A h \in Slots("hash") : "USE" \notin bits'[<<"hash", h>>] => hash'[h] = NoEntries \/ ~InUse(<<"hash", h>>)
  <2> SUFFICES ASSUME NEW h \in Slots("hash"), "USE" \notin bits'[<<"hash", h>>]
               PROVE  hash'[h] = NoEntries \/ ~InUse(<<"hash", h>>)
    OBVIOUS
  <2>1. PICK o : o = <<"hash", h>>
    OBVIOUS
  <2>2. o \in Objects
    BY <1>4, <2>1
  <2>3. CASE o \in Garbage
    BY <1>3, <2>1, <2>3
  <2>4. CASE o \notin Garbage
    <3>1. bits'[o] = IF InUse(o) THEN {"USE"} ELSE bits[o]
      BY <1>3, <2>2, <2>4
    <3> QED
      BY <2>1, <3>1
  <2> QED
    BY <2>3, <2>4
<1>11. item' \in [Slots("item") -> ItemSet]
  BY <1>3, NothingIs DEF Typed
<1>12. \A i \in Slots("item") : Shape(item[i])'
  <2> SUFFICES ASSUME NEW i \in Slots("item") PROVE Shape(item'[i])
    BY DEF Shape
  <2>1. Shape(item[i]) /\ (item'[i] = item[i] \/ item'[i] = NoItem)
    BY <1>5, RecordsAre
  <2>2. PICK r : r = item'[i]
    OBVIOUS
  <2>3. Shape(r)
    BY <2>1, <2>2, NothingIs
  <2> QED
    BY <2>2, <2>3
<1>13. hash' \in [Slots("hash") -> [Keys -> Or0("item") \cup {Absent}]]
  BY <1>3, NothingIs DEF Typed
<1>14. vector' \in [Slots("vector") -> Seq(Or0("item"))]
  <2>1. <<>> \in Seq(Or0("item"))
    OBVIOUS
  <2> QED
    BY <1>3, <2>1 DEF Typed
<1>15. frame' \in [Slots("frame") -> FrameSet]
  BY <1>8 DEF Typed
<1>16. bits' \in [Objects -> SUBSET {"USE", "GC", "CN"}]
  BY <1>3 DEF Typed
<1>17. \A k \in 1 .. Len(native') : Holds(native[k])'
  BY <1>3 DEF Typed, Holds
<1>18. Typed'
  BY <1>3, <1>11, <1>12, <1>13, <1>14, <1>15, <1>16, <1>17 DEF Typed
<1> QED
  BY <1>5, <1>6, <1>7, <1>8, <1>9, <1>10, <1>18

(* A part whose most derived part is marked is so itself: the most derived *)
(* one's hash table has it.                                                *)
LEMMA ByTopMarked ==
  ASSUME Typed, Walks, todo = <<>>, NEW I, NEW H, NEW V, NEW F, Heap(I, H, V, F), Promises(I, H, V, F),
         NEW x \in I, ByTop(x)
  PROVE  HasMark("item", x)
<1>1. /\ I \subseteq Slots("item") /\ ItemsIn(item, I, H, V, F) /\ Parts(item, hash, I)
  BY DEF Heap
<1>2. \A k, n : Covered(k, n) <=> HasMark(k, n)
  BY CoveredIs
<1>3. PICK rank : Down(rank)
  BY DEF Walks, Down, Goes
<1>4. TypeOK /\ x \in Slots("item")
  BY <1>1, TypedIs DEF Types
<1>5. PICK t : t = TopOf(x)
  OBVIOUS
<1>6. HasMark("item", x) \/ HasMark("item", t)
  BY <1>2, <1>5 DEF ByTop
<1>7. CASE ~Goes(x)
  BY <1>3, <1>4, <1>5, <1>6, <1>7, TopIs
<1>8. CASE Goes(x)
  <2>1. PICK d : d = item[x].item
    OBVIOUS
  <2>2. d \in I /\ item[d].type = "class" /\ item[d].item = Null /\ hash[item[d].hash]["super"] = x /\ d \in Slots("item")
    BY <1>1, <1>8, <2>1 DEF Goes, ItemsIn, ItemIn, Parts
  <2>3. t = d
    <3>1. ~Goes(d)
      BY <2>2 DEF Goes
    <3> QED
      BY <1>3, <1>4, <1>5, <1>8, <2>1, <3>1, TopIs
  <2>4. CASE HasMark("item", d)
    <3>1. PICK h : h = item[d].hash
      OBVIOUS
    <3>2. h # Null /\ h \in H
      BY <1>1, <2>2, <3>1, RecordsAre DEF Shape, ItemsIn, ItemIn
    <3>3. ItemPromise(d)
      BY <2>2, <2>4 DEF Promises, Begun, HasMark
    <3>4. HasMark("hash", h)
      BY <1>2, <3>1, <3>2, <3>3 DEF ItemPromise
    <3>5. HashPromise(h)
      BY <3>2, <3>4 DEF Promises, HasMark
    <3>6. x > Null
      BY <1>4, SlotsAre DEF Null
    <3> QED
      BY <1>2, <2>2, <3>1, <3>5, <3>6 DEF HashPromise
  <2> QED
    BY <1>6, <2>3, <2>4
<1> QED
  BY <1>7, <1>8

(* The marked objects are closed, and have all the roots.                  *)
Ended(I, H, V, F, J, K, W, G) ==
  /\ J = {n \in I : HasMark("item", n)} /\ K = {n \in H : HasMark("hash", n)}
  /\ W = {n \in V : HasMark("vector", n)} /\ G = {n \in F : HasMark("frame", n)}

LEMMA MarkedClosed ==
  ASSUME Typed, Walks, todo = <<>>, gc = "scan", NEW I, NEW H, NEW V, NEW F, NEW fr, Safe(I, H, V, F, fr),
         NEW J, NEW K, NEW W, NEW G, Ended(I, H, V, F, J, K, W, G)
  PROVE  /\ ItemsIn(item, J, K, W, G) /\ HashesIn(hash, J, K) /\ VectorsIn(vector, J, W) /\ FramesIn(frame, J, K, G)
         /\ RootsIn(J, K, G) /\ 2 \in K /\ fr \in [1 .. Len(native) -> G]
<1>1. /\ Heap(I, H, V, F) /\ RootsIn(I, H, F) /\ RootsCovered /\ Promises(I, H, V, F) /\ Chained(fr, F)
  BY DEF Safe, Marking
<1>2. /\ I \subseteq Slots("item") /\ H \subseteq Slots("hash") /\ V \subseteq Slots("vector") /\ F \subseteq Slots("frame")
      /\ ItemsIn(item, I, H, V, F) /\ HashesIn(hash, I, H) /\ VectorsIn(vector, I, V) /\ FramesIn(frame, I, H, F)
  BY <1>1 DEF Heap
<1>3. \A k, n : Covered(k, n) <=> HasMark(k, n)
  BY CoveredIs
<1>4. ASSUME NEW x \in I, ByTop(x) PROVE x \in J
  BY <1>1, <1>4, ByTopMarked DEF Ended
<1>5. ItemsIn(item, J, K, W, G)
  <2> SUFFICES ASSUME NEW i \in J PROVE ItemIn(item[i], J, K, W, G)
    BY DEF ItemsIn
  <2>1. i \in I /\ HasMark("item", i)
    BY DEF Ended
  <2>2. ItemPromise(i)
    BY <1>1, <2>1 DEF Promises, Begun, HasMark
  <2>3. ItemIn(item[i], I, H, V, F)
    BY <1>2, <2>1 DEF ItemsIn
  <2>4. item[i].hash # Null => item[i].hash \in K
    BY <1>3, <2>2, <2>3 DEF ItemPromise, ItemIn, Ended
  <2>5. item[i].item # Null => item[i].item \in J
    BY <1>3, <2>2, <2>3 DEF ItemPromise, ItemIn, Ended
  <2>6. item[i].vector # Null => item[i].vector \in W
    BY <1>3, <2>2, <2>3 DEF ItemPromise, ItemIn, Ended
  <2>7. item[i].frame # Null => item[i].frame \in G
    BY <1>3, <2>2, <2>3 DEF ItemPromise, ItemIn, Ended
  <2> QED
    BY <2>4, <2>5, <2>6, <2>7 DEF ItemIn
<1>6. HashesIn(hash, J, K)
  <2> SUFFICES ASSUME NEW h \in K, NEW k \in Keys, hash[h][k] > Null PROVE hash[h][k] \in J
    BY DEF HashesIn
  <2>1. h \in H /\ HasMark("hash", h)
    BY DEF Ended
  <2>2. HashPromise(h) /\ hash[h][k] \in I
    BY <1>1, <1>2, <2>1 DEF Promises, HasMark, HashesIn
  <2> QED
    BY <1>4, <2>2 DEF HashPromise
<1>7. VectorsIn(vector, J, W)
  <2> SUFFICES ASSUME NEW v \in W, NEW n \in 1 .. Len(vector[v]), vector[v][n] # Null PROVE vector[v][n] \in J
    BY DEF VectorsIn
  <2>1. v \in V /\ HasMark("vector", v)
    BY DEF Ended
  <2>2. VectorPromise(v) /\ vector[v][n] \in I
    BY <1>1, <1>2, <2>1 DEF Promises, HasMark, VectorsIn
  <2> QED
    BY <1>4, <2>2 DEF VectorPromise
<1>8. FramesIn(frame, J, K, G)
  <2> SUFFICES ASSUME NEW f \in G PROVE FrameIn(frame[f], J, K, G)
    BY DEF FramesIn
  <2>1. f \in F /\ HasMark("frame", f)
    BY DEF Ended
  <2>2. FramePromise(f)
    BY <1>1, <2>1 DEF Promises, HasMark
  <2>3. FrameIn(frame[f], I, H, F)
    BY <1>2, <2>1 DEF FramesIn
  <2>4. frame[f].this # Null => frame[f].this \in J
    BY <1>3, <2>2, <2>3 DEF FramePromise, FrameIn, Ended
  <2>5. frame[f].locals # Null => frame[f].locals \in K
    BY <1>3, <2>2, <2>3 DEF FramePromise, FrameIn, Ended
  <2>6. frame[f].owner # Null => frame[f].owner \in G
    BY <1>3, <2>2, <2>3 DEF FramePromise, FrameIn, Ended
  <2>7. frame[f].previous # Null => frame[f].previous \in G
    BY <1>3, <2>2, <2>3 DEF FramePromise, FrameIn, Ended
  <2>8. frame[f].hasLast /\ frame[f].last # Null => frame[f].last \in J
    BY <1>3, <2>2, <2>3 DEF FramePromise, FrameIn, Ended
  <2> QED
    BY <2>4, <2>5, <2>6, <2>7, <2>8 DEF FrameIn
<1>9. Global \in K
  BY <1>1, <1>3 DEF RootsIn, RootsCovered, Ended
<1>10. Named(item, hash) /\ Static > Null /\ "Kernel" \in Keys
  BY <1>1, KeysAre DEF Heap, Static, Null
<1>11. Static \in J
  BY <1>6, <1>9, <1>10 DEF HashesIn, Named
<1>12. 2 \in K
  <2>1. item[Static].hash = 2
    <3>1. 2 \in Slots("hash") /\ Null \in Or0("item")
      BY SlotsAre DEF Or0
    <3> QED
      BY <1>10, <3>1, ClassIs DEF Named
  <2> QED
    BY <1>5, <1>11, <2>1 DEF ItemsIn, ItemIn, Null
<1>13. RootsIn(J, K, G)
  <2>1. \A n \in 1 .. Len(stack) : stack[n] # Null => stack[n] \in J
    BY <1>1, <1>3 DEF RootsIn, RootsCovered, Ended
  <2>2. exception # Null => exception \in J
    BY <1>1, <1>3 DEF RootsIn, RootsCovered, Ended
  <2>3. cur \in G
    BY <1>1, <1>3 DEF RootsIn, RootsCovered, Ended
  <2> QED
    BY <1>9, <1>11, <2>1, <2>2, <2>3 DEF RootsIn
<1>14. fr \in [1 .. Len(native) -> G]
  <2> DEFINE N == Len(native)
             S == {d \in 0 .. N - 1 : fr[N - d] \in G}
  <2>1. N \in Nat \ {0}
    BY DEF Typed
  <2>2. fr \in [1 .. N -> F] /\ fr[N] = cur
        /\ \A k \in 2 .. N : IF native[k].op \in Framed THEN frame[fr[k]].previous = fr[k - 1] ELSE fr[k] = fr[k - 1]
    BY <1>1 DEF Chained
  <2> HIDE DEF N
  <2>3. 0 \in S
    <3>1. N - 0 = N /\ 0 \in 0 .. N - 1
      BY <2>1
    <3> QED
      BY <2>2, <3>1, <1>13 DEF RootsIn
  <2>4. ASSUME NEW d \in 0 .. (N - 1) - 1, d \in S PROVE d + 1 \in S
    <3>1. PICK k : k = N - d
      OBVIOUS
    <3>2. k \in 2 .. N /\ k - 1 \in 1 .. N /\ k - 1 = N - (d + 1) /\ d + 1 \in 0 .. N - 1
      BY <2>1, <3>1
    <3>3. fr[k] \in G /\ fr[k - 1] \in F
      BY <2>2, <2>4, <3>1, <3>2
    <3>4. fr[k - 1] \in G
      <4>1. CASE native[k].op \in Framed
        <5>1. frame[fr[k]].previous = fr[k - 1]
          BY <2>2, <3>2, <4>1
        <5>2. fr[k - 1] # Null
          BY <1>2, <3>3, SlotsAre DEF Null
        <5> QED
          BY <1>8, <3>3, <5>1, <5>2 DEF FramesIn, FrameIn
      <4>2. CASE native[k].op \notin Framed
        BY <2>2, <3>2, <3>3, <4>2
      <4> QED
        BY <4>1, <4>2
    <3> QED
      BY <3>2, <3>4
  <2>5. \A d \in 0 .. N - 1 : d \in S
    <3> HIDE DEF S
    <3>1. N - 1 \in Nat
      BY <2>1
    <3> QED
      BY <2>3, <2>4, <3>1, UpTo
  <2>6. ASSUME NEW k \in 1 .. N PROVE fr[k] \in G
    <3>1. N - k \in 0 .. N - 1 /\ N - (N - k) = k
      BY <2>1
    <3>2. N - k \in S
      BY <2>5, <3>1
    <3> QED
      BY <3>1, <3>2
  <2>7. fr \in [1 .. N -> G]
    BY <2>2, <2>6
  <2> QED
    BY <2>7 DEF N
<1> QED
  BY <1>5, <1>6, <1>7, <1>8, <1>12, <1>13, <1>14

LEMMA SweepKeeps ==
  ASSUME NEW I, NEW H, NEW V, NEW F, NEW fr, Typed, Makes, Walks, Safe(I, H, V, F, fr), Sweep
  PROVE  GInv'
<1>1. PICK J, K, W, G : Ended(I, H, V, F, J, K, W, G)
  BY DEF Ended
<1>2. /\ gc = "scan" /\ gc' = "off" /\ todo = <<>> /\ todo' = <<>>
      /\ stack' = stack /\ cur' = cur /\ native' = native /\ exception' = exception
  BY DEF Sweep
<1>3. /\ Heap(I, H, V, F) /\ RootsIn(I, H, F) /\ Chained(fr, F) /\ Stacked /\ InC(fr, V) /\ Top.op \in {"body", "handler"}
  BY <1>2 DEF Safe, Marking
<1>4. /\ ItemsIn(item, J, K, W, G) /\ HashesIn(hash, J, K) /\ VectorsIn(vector, J, W) /\ FramesIn(frame, J, K, G)
      /\ RootsIn(J, K, G) /\ 2 \in K /\ fr \in [1 .. Len(native) -> G]
  BY <1>1, <1>2, MarkedClosed
<1>5. /\ J \subseteq I /\ K \subseteq H /\ W \subseteq V /\ G \subseteq F
      /\ \A n \in J : HasMark("item", n)
      /\ \A n \in K : HasMark("hash", n)
      /\ \A n \in W : HasMark("vector", n)
      /\ \A n \in G : HasMark("frame", n)
  BY <1>1 DEF Ended
<1>6. J \subseteq Slots("item") /\ K \subseteq Slots("hash") /\ W \subseteq Slots("vector") /\ G \subseteq Slots("frame")
  BY <1>3, <1>5 DEF Heap
<1>7. /\ \A i \in Slots("item") : item'[i] = item[i] \/ item'[i] = NoItem
      /\ \A h \in Slots("hash") : hash'[h] = hash[h] \/ hash'[h] = NoEntries
      /\ \A h \in Slots("hash") : "USE" \notin bits'[<<"hash", h>>] => hash'[h] = NoEntries \/ ~InUse(<<"hash", h>>)
      /\ \A o \in Objects : InUse(o) /\ "GC" \in bits[o] => bits'[o] = {"USE"}
      /\ Typed'
  BY SweptIs
<1>8. /\ \A i \in J : item'[i] = item[i]
      /\ \A h \in K : hash'[h] = hash[h]
      /\ \A v \in W : vector'[v] = vector[v]
      /\ \A f \in G : frame'[f] = frame[f]
  BY <1>5, <1>6, SweptIs
<1>9. Types'
  BY <1>7, TypedIs, PTL
<1>10. Makes'
  <2>1. \A h \in Slots("hash") : ~InUse(<<"hash", h>>)' => hash'[h] = NoEntries
    BY <1>7 DEF InUse, Makes
  <2>2. ASSUME "new" \notin Features
        PROVE  /\ \A i \in Slots("item") : item'[i].type = "class" => i = Static
               /\ \A h \in Slots("hash") : hash'[h]["super"] <= Null
    <3>1. Absent <= Null
      BY DEF Absent, Null
    <3> QED
      BY <1>7, <2>2, <3>1, NothingIs DEF Makes
  <2>3. ASSUME "new" \in Features, NEW i \in Slots("item")
        PROVE  item'[i].type # "node" /\ (item'[i].type = "ref" => item'[i].hash = 2)
    BY <1>7, <2>3, NothingIs DEF Makes
  <2> QED
    BY <2>1, <2>2, <2>3 DEF Makes
<1>11. Walks'
  BY <1>7, NothingIs, WalksStay
<1>12. Used(bits', J, K, W, G) /\ Unmarked(bits', J, K, W, G)
  <2>0. "item" \in Kinds /\ "hash" \in Kinds /\ "frame" \in Kinds /\ "vector" \in Kinds
    BY DEF Kinds
  <2>1. /\ \A n \in J : <<"item", n>> \in Objects
        /\ \A n \in K : <<"hash", n>> \in Objects
        /\ \A n \in W : <<"vector", n>> \in Objects
        /\ \A n \in G : <<"frame", n>> \in Objects
    BY <1>6, <2>0, ObjectsAre
  <2>2. /\ \A n \in J : InUse(<<"item", n>>)
        /\ \A n \in K : InUse(<<"hash", n>>)
        /\ \A n \in W : InUse(<<"vector", n>>)
        /\ \A n \in G : InUse(<<"frame", n>>)
    BY <1>3, <1>5 DEF Heap, Used, InUse
  <2>3. /\ \A n \in J : bits'[<<"item", n>>] = {"USE"}
        /\ \A n \in K : bits'[<<"hash", n>>] = {"USE"}
        /\ \A n \in W : bits'[<<"vector", n>>] = {"USE"}
        /\ \A n \in G : bits'[<<"frame", n>>] = {"USE"}
    BY <1>5, <1>7, <2>1, <2>2 DEF HasMark
  <2> QED
    BY <2>3 DEF Used, Unmarked
<1>13. ItemsIn(item', J, K, W, G) /\ HashesIn(hash', J, K) /\ VectorsIn(vector', J, W) /\ FramesIn(frame', J, K, G)
  <2>1. ItemsIn(item', J, K, W, G)
    BY <1>4, <1>8 DEF ItemsIn, ItemIn
  <2>2. HashesIn(hash', J, K)
    BY <1>4, <1>8 DEF HashesIn
  <2>3. VectorsIn(vector', J, W)
    BY <1>4, <1>8 DEF VectorsIn
  <2>4. FramesIn(frame', J, K, G)
    BY <1>4, <1>8 DEF FramesIn, FrameIn
  <2> QED
    BY <2>1, <2>2, <2>3, <2>4
<1>14. \A i \in J : item[i].type = "class" => item[i].hash \in K
  BY <1>4, <1>6, RecordsAre DEF Shape, ItemsIn, ItemIn
<1>15. Parts(item', hash', J)
  <2>1. \A i \in J : item[i].item # Null => item[i].item \in J
    BY <1>4 DEF ItemsIn, ItemIn
  <2>2. \A i \in J : item[i].type = "class" /\ item[i].item # Null =>
           /\ item[item[i].item].type = "class" /\ item[item[i].item].item = Null
           /\ hash[item[item[i].item].hash]["super"] = i
    BY <1>3, <1>5 DEF Heap, Parts
  <2> QED
    BY <1>8, <1>14, <2>1, <2>2 DEF Parts
<1>16. Apart(item', frame', J, G)
  <2>1. Apart(item, frame, I, F)
    BY <1>3 DEF Heap
  <2> QED
    BY <1>5, <1>8, <2>1 DEF Apart
<1>17. Scopes(hash', frame', G)
  <2>1. Scopes(hash, frame, F) /\ Global \in K
    BY <1>3, <1>4 DEF Heap, RootsIn
  <2>2. \A f \in G : frame[f].locals # Null => frame[f].locals \in K
    BY <1>4 DEF FramesIn, FrameIn
  <2> QED
    BY <1>4, <1>5, <1>8, <2>1, <2>2 DEF Scopes
<1>18. Named(item', hash')
  BY <1>3, <1>4, <1>8 DEF Heap, RootsIn, Named
<1>19. Heap(J, K, W, G)'
  BY <1>6, <1>12, <1>13, <1>15, <1>16, <1>17, <1>18 DEF Heap
<1>20. RootsIn(J, K, G)'
  BY <1>2, <1>4 DEF RootsIn
<1>21. Len(native) \in Nat \ {0} /\ \A k \in 1 .. Len(native) : Holds(native[k])
  BY DEF Typed
<1>22. Chained(fr, G)'
  <2>1. \A k \in 2 .. Len(native) : k \in 1 .. Len(native) /\ frame'[fr[k]] = frame[fr[k]]
    BY <1>4, <1>8
  <2> QED
    BY <1>2, <1>3, <1>4, <2>1 DEF Chained
<1>23. Stacked'
  BY <1>2, <1>3 DEF Stacked
<1>24. ASSUME NEW k \in 1 .. Len(native) PROVE Expected(k)'
  <2>1. Expected(k)
    BY <1>3 DEF InC
  <2>2. PICK first : first = stack[native[k].base + 1]
    OBVIOUS
  <2>3. native[k].op \in {"assign", "invoke"} => native[k].base + 1 \in 1 .. Len(stack)
    <3>1. native[k].base \in Nat /\ native[k].base + Needs(native[k].op) <= Len(stack)
      BY <1>3, EntriesAre DEF Typed, Stacked
    <3> QED
      BY <3>1, RecordsAre DEF Needs
  <2>4. native[k].op \in {"assign", "invoke"} => first \in J
    BY <1>4, <2>1, <2>2, <2>3 DEF Expected, RootsIn
  <2> QED
    BY <1>2, <1>8, <2>1, <2>2, <2>4 DEF Expected
<1>25. ASSUME NEW k \in 1 .. Len(native) PROVE native[k].op # "array"
  <2>1. SUFFICES ASSUME native[k].op = "array" PROVE FALSE
    OBVIOUS
  <2>2. \A m \in k + 1 .. Len(native) : native[m].op \in {"assign", "array", "init"}
    BY <1>3, <2>1 DEF InC, Kept
  <2>3. Len(native) = k \/ Len(native) \in k + 1 .. Len(native)
    BY <1>21
  <2> QED
    BY <1>3, <2>1, <2>2, <2>3 DEF Top
<1>26. ASSUME NEW k \in 1 .. Len(native) PROVE Kept(fr, k)'
  <2>1. Kept(fr, k) /\ fr[k] \in G
    BY <1>3, <1>4 DEF InC
  <2>2. PICK r, f : r = native[k] /\ f = fr[k]
    OBVIOUS
  <2>3. f \in G /\ frame'[f] = frame[f]
    BY <1>8, <2>1, <2>2
  <2>4. ASSUME r.op = "args", r.obj # Null PROVE "localcall" \in Features /\ ByName(f, r.obj)'
    <3>1. "localcall" \in Features /\ ByName(f, r.obj)
      BY <2>1, <2>2, <2>4 DEF Kept
    <3>2. PICK h \in Slots("hash") :
            /\ h = frame[f].locals \/ (frame[f].owner # Null /\ h = frame[frame[f].owner].locals)
            /\ hash[h]["x"] > Null
            /\ item[hash[h]["x"]].type = "node" /\ item[hash[h]["x"]].frame = r.obj
      BY <3>1 DEF ByName
    <3>3. h # Null /\ "x" \in Keys
      BY SlotsAre, KeysAre DEF Null
    <3>4. frame[f].owner # Null => frame[f].owner \in G
      BY <1>4, <2>3 DEF FramesIn, FrameIn
    <3>5. h \in K /\ (h = frame'[f].locals \/ (frame'[f].owner # Null /\ h = frame'[frame'[f].owner].locals))
      BY <1>4, <1>8, <2>3, <3>2, <3>3, <3>4 DEF FramesIn, FrameIn
    <3>6. hash'[h] = hash[h] /\ hash[h]["x"] \in J
      BY <1>4, <1>8, <3>2, <3>3, <3>5 DEF HashesIn
    <3>7. item'[hash[h]["x"]] = item[hash[h]["x"]]
      BY <1>8, <3>6
    <3> QED
      BY <3>1, <3>2, <3>5, <3>6, <3>7 DEF ByName
  <2>5. ASSUME r.op = "init"
        PROVE  /\ "new" \in Features /\ r.obj # Static /\ frame'[f].this = r.obj
               /\ item'[r.obj].type = "class" /\ item'[r.obj].item = Null
               /\ hash'[item'[r.obj].hash]["super"] = Null
    <3>1. /\ "new" \in Features /\ r.obj # Static /\ frame[f].this = r.obj
          /\ item[r.obj].type = "class" /\ item[r.obj].item = Null
          /\ hash[item[r.obj].hash]["super"] = Null
      BY <2>1, <2>2, <2>5 DEF Kept
    <3>2. r.obj \in Slots("item") /\ r.obj # Null
      BY <1>21, <2>2, <2>5, SlotsAre DEF Holds, Null
    <3>3. r.obj \in J
      BY <1>4, <2>3, <3>1, <3>2 DEF FramesIn, FrameIn
    <3>4. item[r.obj].hash \in K
      BY <1>14, <3>1, <3>3
    <3> QED
      BY <1>8, <2>3, <3>1, <3>3, <3>4
  <2>6. r.op # "array"
    BY <1>25, <2>2
  <2>7. native'[k] = r /\ fr[k] = f
    BY <1>2, <2>2
  <2> QED
    BY <2>4, <2>5, <2>6, <2>7 DEF Kept
<1>27. InC(fr, W)'
  <2>1. \A k, m \in 1 .. Len(native) :
       native[k].op = "init" /\ native[m].op = "init" /\ native[k].obj = native[m].obj => k = m
    BY <1>3 DEF InC
  <2> QED
    BY <1>2, <1>24, <1>25, <1>26, <2>1 DEF InC
<1>28. Marking(J, K, W, G)'
  BY <1>2, <1>12 DEF Marking
<1>29. Safe(J, K, W, G, fr)'
  BY <1>19, <1>20, <1>22, <1>23, <1>27, <1>28 DEF Safe
<1>30. SafeSomehow'
  <2>1. J \in SUBSET Slots("item") /\ K \in SUBSET Slots("hash") /\ W \in SUBSET Slots("vector") /\ G \in SUBSET Slots("frame")
    BY <1>6
  <2>2. fr \in [1 .. Len(native) -> Slots("frame")] /\ native' = native
    BY <1>2, <1>4, <1>6
  <2> QED
    BY <1>29, <2>1, <2>2 DEF SafeSomehow
<1> QED
  BY <1>9, <1>10, <1>11, <1>30 DEF GInv

-----------------------------------------------------------------------------
(* At first the script can get at the static instance of Kernel, its hash  *)
(* table, the global one and the first frame.                              *)
LEMMA InitTyped ==
  ASSUME Init
  PROVE  /\ Typed
         /\ item[Static] = Class(2, Null) /\ \A i \in Slots("item") : i # Static => item[i] = NoItem
         /\ hash[Global] = [NoEntries EXCEPT !["Kernel"] = Static] /\ hash[2] = [NoEntries EXCEPT !["x"] = Null]
         /\ \A h \in Slots("hash") : h \notin {Global, 2} => hash[h] = NoEntries
         /\ \A f \in Slots("frame") : /\ frame[f].hasLast = FALSE /\ frame[f].locals = Null
                                      /\ frame[f].owner = Null /\ frame[f].previous = Null
         /\ frame[1].this = Static
         /\ bits = [o \in Objects |->
               IF o \in {<<"item", Static>>, <<"hash", Global>>, <<"hash", 2>>, <<"frame", 1>>} THEN {"USE"} ELSE {}]
         /\ stack = <<>> /\ cur = 1 /\ Len(native) = 1 /\ native[1] = Body(0) /\ exception = Null /\ gc = "off"
<1>1. /\ Static \in Slots("item") /\ Global \in Slots("hash") /\ 2 \in Slots("hash") /\ 1 \in Slots("frame")
      /\ Static = 1 /\ Global = 1 /\ Null = 0
  BY SlotsAre DEF Static, Global, Null
<1>2. /\ Null \in Or0("item") /\ Static \in Or0("item") /\ Null \in Or0("hash") /\ Null \in Or0("frame")
  BY <1>1 DEF Or0
<1>3. item = [i \in Slots("item") |-> IF i = Static THEN Class(2, Null) ELSE NoItem]
  BY DEF Init
<1>4. item[Static] = Class(2, Null) /\ \A i \in Slots("item") : i # Static => item[i] = NoItem
  BY <1>1, <1>3
<1>5. Class(2, Null) \in ItemSet /\ Shape(Class(2, Null)) /\ NoItem \in ItemSet /\ Shape(NoItem)
  BY <1>1, <1>2, ClassIs, NothingIs
<1>6. item \in [Slots("item") -> ItemSet] /\ \A i \in Slots("item") : Shape(item[i])
  <2>1. ASSUME NEW i \in Slots("item") PROVE item[i] \in ItemSet /\ Shape(item[i])
    <3>1. PICK r : r = item[i]
      OBVIOUS
    <3>2. r = Class(2, Null) \/ r = NoItem
      BY <1>4, <3>1
    <3>3. r \in ItemSet /\ Shape(r)
      BY <1>5, <3>2
    <3> QED
      BY <3>1, <3>3
  <2> QED
    BY <1>3, <2>1
<1>7. hash = [h \in Slots("hash") |->
               CASE h = Global -> [NoEntries EXCEPT !["Kernel"] = Static]
                 [] h = 2      -> [NoEntries EXCEPT !["x"] = Null]
                 [] OTHER      -> NoEntries]
  BY DEF Init
<1>8. /\ hash[Global] = [NoEntries EXCEPT !["Kernel"] = Static] /\ hash[2] = [NoEntries EXCEPT !["x"] = Null]
      /\ \A h \in Slots("hash") : h \notin {Global, 2} => hash[h] = NoEntries
  BY <1>1, <1>7
<1>9. hash \in [Slots("hash") -> [Keys -> Or0("item") \cup {Absent}]]
  <2>1. NoEntries \in [Keys -> Or0("item") \cup {Absent}]
    BY NothingIs
  <2>2. /\ [NoEntries EXCEPT !["Kernel"] = Static] \in [Keys -> Or0("item") \cup {Absent}]
        /\ [NoEntries EXCEPT !["x"] = Null] \in [Keys -> Or0("item") \cup {Absent}]
    BY <1>2, <2>1
  <2>3. \A h \in Slots("hash") : hash[h] \in [Keys -> Or0("item") \cup {Absent}]
    BY <1>8, <2>1, <2>2
  <2> QED
    BY <1>7, <2>3
<1>10. vector \in [Slots("vector") -> Seq(Or0("item"))]
  <2>1. <<>> \in Seq(Or0("item"))
    OBVIOUS
  <2> QED
    BY <2>1 DEF Init
<1>11. frame = [f \in Slots("frame") |->
                [last |-> Null, hasLast |-> FALSE, this |-> IF f = 1 THEN Static ELSE Null,
                 locals |-> Null, owner |-> Null, previous |-> Null]]
  BY DEF Init
<1>12. /\ \A f \in Slots("frame") : /\ frame[f] \in FrameSet /\ frame[f].hasLast = FALSE /\ frame[f].locals = Null
                                    /\ frame[f].owner = Null /\ frame[f].previous = Null
       /\ frame[1].this = Static
  BY <1>1, <1>2, <1>11 DEF FrameSet
<1>13. frame \in [Slots("frame") -> FrameSet]
  BY <1>11, <1>12
<1>14. bits = [o \in Objects |->
               IF o \in {<<"item", Static>>, <<"hash", Global>>, <<"hash", 2>>, <<"frame", 1>>} THEN {"USE"} ELSE {}]
  BY DEF Init
<1>15. bits \in [Objects -> SUBSET {"USE", "GC", "CN"}]
  BY <1>14
<1>16. /\ stack = <<>> /\ cur = 1 /\ native = <<Body(0)>> /\ exception = Null /\ gc = "off" /\ todo = <<>>
  BY DEF Init
<1>17. Body(0) \in EntrySet /\ Body(0).op = "body" /\ Body(0).obj = Null
  BY <1>1, MkGcAssumption DEF Body, EntrySet
<1>18. native \in Seq(EntrySet) /\ Len(native) = 1 /\ native[1] = Body(0) /\ native # <<>>
  BY <1>16, <1>17
<1>19. \A k \in 1 .. Len(native) : Holds(native[k])
  <2>1. Holds(native[1])
    BY <1>17, <1>18 DEF Holds
  <2> QED
    BY <1>18, <2>1
<1>20. Typed
  BY <1>1, <1>2, <1>6, <1>9, <1>10, <1>13, <1>15, <1>16, <1>18, <1>19 DEF Typed
<1> QED
  BY <1>4, <1>8, <1>12, <1>14, <1>16, <1>18, <1>20

LEMMA InitSafe ==
  ASSUME Init
  PROVE  GInv
<1> DEFINE I  == {Static}
           H  == {Global, 2}
           F  == {1}
           fr == [k \in 1 .. 1 |-> 1]
<1>1. /\ Typed
      /\ item[Static] = Class(2, Null) /\ \A i \in Slots("item") : i # Static => item[i] = NoItem
      /\ hash[Global] = [NoEntries EXCEPT !["Kernel"] = Static] /\ hash[2] = [NoEntries EXCEPT !["x"] = Null]
      /\ \A h \in Slots("hash") : h \notin {Global, 2} => hash[h] = NoEntries
      /\ \A f \in Slots("frame") : /\ frame[f].hasLast = FALSE /\ frame[f].locals = Null
                                   /\ frame[f].owner = Null /\ frame[f].previous = Null
      /\ frame[1].this = Static
      /\ bits = [o \in Objects |->
            IF o \in {<<"item", Static>>, <<"hash", Global>>, <<"hash", 2>>, <<"frame", 1>>} THEN {"USE"} ELSE {}]
      /\ stack = <<>> /\ cur = 1 /\ Len(native) = 1 /\ native[1] = Body(0) /\ exception = Null /\ gc = "off"
  BY InitTyped
<1>2. /\ Static \in Slots("item") /\ Global \in Slots("hash") /\ 2 \in Slots("hash") /\ 1 \in Slots("frame")
      /\ Static = 1 /\ Global = 1 /\ Null = 0 /\ Absent = -1
  BY SlotsAre DEF Static, Global, Null, Absent
<1>3. /\ item[Static].type = "class" /\ item[Static].hash = 2 /\ item[Static].item = Null
      /\ item[Static].vector = Null /\ item[Static].frame = Null
  <2>1. Null \in Or0("item")
    BY DEF Or0
  <2> QED
    BY <1>1, <1>2, <2>1, ClassIs
<1>4. /\ \A i \in Slots("item") : i # Static => item[i].type = "none" /\ item[i].item = Null
      /\ \A k \in Keys : NoEntries[k] = Absent
  BY <1>1, NothingIs DEF NoEntries
<1>5. /\ hash[Global]["Kernel"] = Static /\ hash[Global]["super"] = Absent /\ hash[Global]["x"] = Absent
      /\ hash[2]["Kernel"] = Absent /\ hash[2]["super"] = Absent /\ hash[2]["x"] = Null
      /\ \A h \in Slots("hash") : h \notin {Global, 2} => \A k \in Keys : hash[h][k] = Absent
  <2>1. NoEntries \in [Keys -> Or0("item") \cup {Absent}] /\ "Kernel" \in Keys /\ "super" \in Keys /\ "x" \in Keys
    BY NothingIs, KeysAre
  <2> QED
    BY <1>1, <1>4, <2>1
<1>6. \A k \in Keys : k \in {"super", "x", "Kernel"}
  BY KeysAre
<1>7. /\ <<"item", Static>> \in Objects /\ <<"hash", Global>> \in Objects /\ <<"hash", 2>> \in Objects
      /\ <<"frame", 1>> \in Objects
      /\ \A h \in Slots("hash") : <<"hash", h>> \in Objects
  BY <1>2, ObjectsAre DEF Kinds
<1>8. /\ bits[<<"item", Static>>] = {"USE"} /\ bits[<<"hash", Global>>] = {"USE"} /\ bits[<<"hash", 2>>] = {"USE"}
      /\ bits[<<"frame", 1>>] = {"USE"}
  BY <1>1, <1>7
<1>9. native[1].op = "body" /\ native[1].base = 0
  BY <1>1 DEF Body
<1>10. Types
  BY <1>1, TypedIs
<1>11. Makes
  <2>1. \A h \in Slots("hash") : ~InUse(<<"hash", h>>) => hash[h] = NoEntries
    <3>1. \A h \in {Global, 2} : InUse(<<"hash", h>>)
      BY <1>8 DEF InUse
    <3> QED
      BY <1>1, <3>1
  <2>2. \A h \in Slots("hash") : hash[h]["super"] <= Null
    BY <1>2, <1>5, KeysAre
  <2>3. \A i \in Slots("item") : item[i].type # "node" /\ item[i].type # "ref"
    BY <1>3, <1>4
  <2> QED
    BY <1>3, <1>4, <2>1, <2>2, <2>3 DEF Makes
<1>12. Walks
  <2>1. [n \in Slots("item") |-> 0] \in [Slots("item") -> Nat]
    OBVIOUS
  <2>2. \A n \in Slots("item") : ~(item[n].type = "class" /\ item[n].item # Null)
    BY <1>3, <1>4
  <2> QED
    BY <2>1, <2>2 DEF Walks
<1>13. Heap(I, H, {}, F)
  <2>1. I \subseteq Slots("item") /\ H \subseteq Slots("hash") /\ {} \subseteq Slots("vector") /\ F \subseteq Slots("frame")
    BY <1>2
  <2>2. Used(bits, I, H, {}, F)
    BY <1>8 DEF Used
  <2>3. ItemsIn(item, I, H, {}, F)
    BY <1>3 DEF ItemsIn, ItemIn
  <2>4. HashesIn(hash, I, H)
    BY <1>2, <1>5, <1>6 DEF HashesIn
  <2>5. VectorsIn(vector, I, {})
    BY DEF VectorsIn
  <2>6. FramesIn(frame, I, H, F)
    BY <1>1, <1>2 DEF FramesIn, FrameIn
  <2>7. Parts(item, hash, I)
    BY <1>3 DEF Parts
  <2>8. Apart(item, frame, I, F)
    BY <1>1, <1>2, <1>3 DEF Apart
  <2>9. Scopes(hash, frame, F)
    BY <1>1, <1>2, <1>5 DEF Scopes
  <2>10. Named(item, hash)
    BY <1>1, <1>5 DEF Named
  <2> QED
    BY <2>1, <2>2, <2>3, <2>4, <2>5, <2>6, <2>7, <2>8, <2>9, <2>10 DEF Heap
<1>14. RootsIn(I, H, F)
  BY <1>1 DEF RootsIn
<1>15. Chained(fr, F)
  BY <1>1, <1>9 DEF Chained
<1>16. Stacked
  BY <1>1, <1>9, MkGcAssumption DEF Stacked, Needs
<1>17. InC(fr, {})
  <2>1. Expected(1)
    BY <1>9 DEF Expected
  <2>2. Kept(fr, 1)
    BY <1>9 DEF Kept
  <2>3. \A k \in 1 .. Len(native) : k = 1
    BY <1>1
  <2> QED
    BY <1>9, <2>1, <2>2, <2>3 DEF InC
<1>18. Marking(I, H, {}, F)
  BY <1>1, <1>8 DEF Marking, Unmarked
<1>19. Safe(I, H, {}, F, fr)
  BY <1>13, <1>14, <1>15, <1>16, <1>17, <1>18 DEF Safe
<1>20. SafeSomehow
  <2>1. I \in SUBSET Slots("item") /\ H \in SUBSET Slots("hash") /\ {} \in SUBSET Slots("vector") /\ F \in SUBSET Slots("frame")
    BY <1>2
  <2>2. fr \in [1 .. Len(native) -> Slots("frame")]
    BY <1>1, <1>2
  <2> QED
    BY <1>19, <2>1, <2>2 DEF SafeSomehow
<1> QED
  BY <1>10, <1>11, <1>12, <1>20 DEF GInv

-----------------------------------------------------------------------------
(* Every step keeps it.                                                    *)
LEMMA StepKeeps ==
  ASSUME HeldElsewhere, GInv, Next
  PROVE  GInv'
<1>1. Typed /\ Makes /\ Walks
  BY TypedIs DEF GInv
<1>2. PICK I \in SUBSET Slots("item"), H \in SUBSET Slots("hash"), V \in SUBSET Slots("vector"),
           F \in SUBSET Slots("frame"), fr \in [1 .. Len(native) -> Slots("frame")] : Safe(I, H, V, F, fr)
  BY DEF GInv, SafeSomehow
<1>3. ASSUME gc = "off" PROVE Runs(I, H, V, F, fr)
  BY <1>1, <1>2, <1>3 DEF Runs
<1>4. CASE PushValue
  <2>1. Runs(I, H, V, F, fr)
    BY <1>3, <1>4 DEF PushValue, Uses, Running
  <2> QED
    BY <1>4, <2>1, PushValueKeeps
<1>5. CASE PushThis
  <2>1. Runs(I, H, V, F, fr)
    BY <1>3, <1>5 DEF PushThis, Uses, Running
  <2> QED
    BY <1>5, <2>1, PushThisKeeps
<1>6. CASE PushSuper
  <2>1. Runs(I, H, V, F, fr)
    BY <1>3, <1>6 DEF PushSuper, Uses, Running
  <2> QED
    BY <1>6, <2>1, PushSuperKeeps
<1>7. CASE PushLocal("x")
  <2>1. Runs(I, H, V, F, fr)
    BY <1>3, <1>7 DEF PushLocal, Uses, Running
  <2> QED
    BY <1>7, <2>1, PushLocalKeeps
<1>8. CASE PushLocalRef("x")
  <2>1. Runs(I, H, V, F, fr)
    BY <1>3, <1>8 DEF PushLocalRef, Uses, Running
  <2> QED
    BY <1>8, <2>1, PushLocalRefKeeps
<1>9. CASE PushMember("x")
  <2>1. Runs(I, H, V, F, fr)
    BY <1>3, <1>9 DEF PushMember, Uses, Running
  <2> QED
    BY <1>9, <2>1, PushMemberKeeps
<1>10. CASE PushMemberRef("x")
  <2>1. Runs(I, H, V, F, fr)
    BY <1>3, <1>10 DEF PushMemberRef, Uses, Running
  <2> QED
    BY <1>10, <2>1, PushMemberRefKeeps
<1>11. CASE PushNode
  <2>1. Runs(I, H, V, F, fr)
    BY <1>3, <1>11 DEF PushNode, Uses, Running
  <2> QED
    BY <1>11, <2>1, PushNodeKeeps
<1>12. CASE Assign
  <2>1. Runs(I, H, V, F, fr)
    BY <1>3, <1>12 DEF Assign, Running
  <2> QED
    BY <1>12, <2>1, AssignKeeps
<1>13. CASE ArrayBegin
  <2>1. Runs(I, H, V, F, fr)
    BY <1>3, <1>13 DEF ArrayBegin, Uses, Running
  <2> QED
    BY <1>13, <2>1, ArrayBeginKeeps
<1>14. CASE ArrayElement
  <2>1. Runs(I, H, V, F, fr)
    BY <1>3, <1>14 DEF ArrayElement, Running
  <2> QED
    BY <1>14, <2>1, ArrayElementKeeps
<1>15. CASE ArrayEnd
  <2>1. Runs(I, H, V, F, fr)
    BY <1>3, <1>15 DEF ArrayEnd, Running
  <2> QED
    BY <1>15, <2>1, ArrayEndKeeps
<1>16. CASE \E n \in 1 .. MaxLength : PushElement(n)
  <2>1. Runs(I, H, V, F, fr)
    BY <1>3, <1>16 DEF PushElement, Uses, Running
  <2> QED
    BY <1>16, <2>1, PushElementKeeps
<1>17. CASE \E n \in 1 .. MaxLength : PushElementRef(n)
  <2>1. Runs(I, H, V, F, fr)
    BY <1>3, <1>17 DEF PushElementRef, Uses, Running
  <2> QED
    BY <1>17, <2>1, PushElementRefKeeps
<1>18. CASE BeginCall
  <2>1. Runs(I, H, V, F, fr)
    BY <1>3, <1>18 DEF BeginCall, Uses, Running
  <2> QED
    BY <1>18, <2>1, BeginCallKeeps
<1>19. CASE BeginLocalCall("x")
  <2>1. Runs(I, H, V, F, fr)
    BY <1>3, <1>19 DEF BeginLocalCall, Uses, Running
  <2> QED
    BY <1>19, <2>1, BeginLocalCallKeeps
<1>20. CASE EnterMethod
  <2>1. Runs(I, H, V, F, fr)
    BY <1>3, <1>20 DEF EnterMethod, Running
  <2> QED
    BY <1>20, <2>1, EnterMethodKeeps
<1>21. CASE BeginInvoke
  <2>1. Runs(I, H, V, F, fr)
    BY <1>3, <1>21 DEF BeginInvoke, Uses, Running
  <2> QED
    BY <1>21, <2>1, BeginCallKeeps
<1>22. CASE Invoke
  <2>1. Runs(I, H, V, F, fr)
    BY <1>3, <1>22 DEF Invoke, Running
  <2> QED
    BY <1>22, <2>1, InvokeKeeps
<1>23. CASE Drop
  <2>1. Runs(I, H, V, F, fr)
    BY <1>3, <1>23 DEF Drop, InBody, Running
  <2> QED
    BY <1>23, <2>1, DropKeeps
<1>24. CASE Return
  <2>1. Runs(I, H, V, F, fr)
    BY <1>3, <1>24 DEF Return, Running
  <2> QED
    BY <1>24, <2>1, ReturnKeeps
<1>25. CASE NewDerived
  <2>1. Runs(I, H, V, F, fr)
    BY <1>3, <1>25 DEF NewDerived, Uses, Running
  <2> QED
    BY <1>25, <2>1, NewDerivedKeeps
<1>26. CASE NewBase
  <2>1. Runs(I, H, V, F, fr)
    BY <1>3, <1>26 DEF NewBase, Running
  <2> QED
    BY <1>26, <2>1, NewBaseKeeps
<1>27. CASE Raise
  <2>1. Runs(I, H, V, F, fr)
    BY <1>3, <1>27 DEF Raise, Uses, Running
  <2> QED
    BY <1>27, <2>1, RaiseKeeps
<1>28. CASE ConditionFalse
  <2>1. Runs(I, H, V, F, fr)
    BY <1>3, <1>28 DEF ConditionFalse, Running
  <2> QED
    BY <1>28, <2>1, ConditionFalseKeeps
<1>29. CASE Handle
  <2>1. Runs(I, H, V, F, fr)
    BY <1>3, <1>29 DEF Handle, Running
  <2> QED
    BY <1>29, <2>1, HandleKeeps
<1>30. CASE HandlerEnds
  <2>1. Runs(I, H, V, F, fr)
    BY <1>3, <1>30 DEF HandlerEnds, Running
  <2> QED
    BY <1>30, <2>1, HandlerEndsKeeps
<1>31. CASE StartCollection
  <2>1. Runs(I, H, V, F, fr)
    BY <1>3, <1>31 DEF StartCollection, InBody, Running
  <2> QED
    BY <1>31, <2>1, StartCollectionKeeps
<1>32. CASE Scan
  BY <1>1, <1>2, <1>32, ScanKeeps
<1>33. CASE Sweep
  BY <1>1, <1>2, <1>33, SweepKeeps
<1>34. CASE ReturnNothing
  <2>1. Runs(I, H, V, F, fr)
    BY <1>3, <1>34 DEF ReturnNothing, Running
  <2> QED
    BY <1>34, <2>1, ReturnNothingKeeps
<1> QED
  BY <1>4, <1>5, <1>6, <1>7, <1>8, <1>9, <1>10, <1>11, <1>12, <1>13, <1>14, <1>15, <1>16,
     <1>17, <1>18, <1>19, <1>20, <1>21, <1>22, <1>23, <1>24, <1>25, <1>26, <1>27, <1>28,
     <1>29, <1>30, <1>31, <1>32, <1>33, <1>34 DEF Next

LEMMA StutterKeeps ==
  ASSUME GInv, UNCHANGED vars
  PROVE  GInv'
<1>1. Typed /\ Makes /\ Walks
  BY TypedIs DEF GInv
<1>2. PICK I \in SUBSET Slots("item"), H \in SUBSET Slots("hash"), V \in SUBSET Slots("vector"),
           F \in SUBSET Slots("frame"), fr \in [1 .. Len(native) -> Slots("frame")] : Safe(I, H, V, F, fr)
  BY DEF GInv, SafeSomehow
<1>3. /\ item' = item /\ hash' = hash /\ vector' = vector /\ frame' = frame /\ bits' = bits
      /\ stack' = stack /\ cur' = cur /\ native' = native /\ exception' = exception /\ gc' = gc /\ todo' = todo
  BY DEF vars
<1>4. Typed'
  BY <1>1, <1>3 DEF Typed, Holds, Shape
<1>5. Types'
  BY <1>4, TypedIs, PTL
<1>6. Makes' /\ Walks'
  BY <1>1, <1>3 DEF Makes, InUse, Walks
<1>7. Heap(I, H, V, F)' /\ RootsIn(I, H, F)'
  BY <1>2, <1>3 DEF Safe, Heap, RootsIn, ItemsIn, HashesIn, VectorsIn, FramesIn, Parts, Apart, Scopes, Named, Used
<1>8. Chained(fr, F)' /\ Stacked' /\ InC(fr, V)'
  BY <1>2, <1>3 DEF Safe, Chained, Stacked, InC, Expected, Kept, ByName
<1>9. \A x : TopOf(x)' = TopOf(x)
  BY <1>3, TopStays
<1>10. Marking(I, H, V, F)'
  <2>1. Marking(I, H, V, F)
    BY <1>2 DEF Safe
  <2>2. Unmarked(bits, I, H, V, F) => Unmarked(bits', I, H, V, F)
    BY <1>3 DEF Unmarked
  <2>3. RootsCovered => RootsCovered'
    BY <1>3 DEF RootsCovered, Covered
  <2>4. Promises(I, H, V, F) => Promises(I, H, V, F)'
    BY <1>3, <1>9 DEF Promises, Begun, ItemPromise, HashPromise, VectorPromise, FramePromise, ByTop, Covered
  <2>5. Straight(F) => Straight(F)'
    BY <1>3 DEF Straight, StraightCall
  <2> QED
    BY <1>3, <2>1, <2>2, <2>3, <2>4, <2>5 DEF Marking, Top
<1>11. Safe(I, H, V, F, fr)'
  BY <1>7, <1>8, <1>10 DEF Safe
<1>12. SafeSomehow'
  BY <1>3, <1>11 DEF SafeSomehow
<1> QED
  BY <1>5, <1>6, <1>12 DEF GInv

(* The inductive invariant: at every step of a script, of a call, of an    *)
(* exception and of a collection (vm.c, mk_gc.c) there are the four sets.  *)
THEOREM SafeAlways == HeldElsewhere => (Spec => []GInv)
<1> SUFFICES ASSUME HeldElsewhere PROVE Spec => []GInv
  OBVIOUS
<1>1. Init => GInv
  BY InitSafe
<1>2. GInv /\ [Next]_vars => GInv'
  BY StepKeeps, StutterKeeps
<1> QED
  BY <1>1, <1>2, PTL DEF Spec

-----------------------------------------------------------------------------
(* What the script can get at is among the four sets.                      *)
Held(I, H, V, F) == {o \in Objects : \/ o[1] = "item" /\ o[2] \in I
                                     \/ o[1] = "hash" /\ o[2] \in H
                                     \/ o[1] = "vector" /\ o[2] \in V
                                     \/ o[1] = "frame" /\ o[2] \in F}

LEMMA HeldClosed ==
  ASSUME Typed, NEW I, NEW H, NEW V, NEW F, Heap(I, H, V, F), NEW o \in Held(I, H, V, F)
  PROVE  PointsTo(o, FALSE) \subseteq Held(I, H, V, F)
<1>1. ItemsIn(item, I, H, V, F) /\ HashesIn(hash, I, H) /\ VectorsIn(vector, I, V) /\ FramesIn(frame, I, H, F)
  BY DEF Heap
<1>2. PICK n : n = o[2]
  OBVIOUS
<1>3. o \in Objects /\ o[1] \in Kinds
  BY ObjectIs DEF Held
<1>4. ASSUME NEW p \in Objects, NEW k, NEW m, p = <<k, m>>,
             \/ k = "item" /\ (m > Null => m \in I)
             \/ k = "hash" /\ (m > Null => m \in H)
             \/ k = "vector" /\ (m > Null => m \in V)
             \/ k = "frame" /\ (m > Null => m \in F)
      PROVE  p \in Held(I, H, V, F)
  <2>1. p[1] = k /\ p[2] = m /\ m \in Slots(k) /\ k \in Kinds
    BY <1>4, ObjectIs
  <2>2. m > Null
    BY <2>1, SlotsAre DEF Kinds, Null
  <2> QED
    BY <1>4, <2>1, <2>2 DEF Held
<1>5. CASE o[1] = "item"
  <2>1. n \in I /\ ItemIn(item[n], I, H, V, F)
    BY <1>1, <1>2, <1>5 DEF Held, ItemsIn
  <2>2. PointsTo(o, FALSE) = {<<"hash", item[n].hash>>, <<"item", item[n].item>>,
                              <<"vector", item[n].vector>>, <<"frame", item[n].frame>>} \cap Objects
    BY <1>2, <1>5 DEF PointsTo
  <2>3. ~(Null > Null)
    BY DEF Null
  <2>4. ASSUME NEW p \in PointsTo(o, FALSE) PROVE p \in Held(I, H, V, F)
    BY <1>4, <2>1, <2>2, <2>3, <2>4 DEF ItemIn
  <2> QED
    BY <2>4
<1>6. CASE o[1] = "hash"
  <2>1. n \in H
    BY <1>2, <1>6 DEF Held
  <2>2. PointsTo(o, FALSE) = {<<"item", hash[n][k]>> : k \in Keys} \cap Objects
    BY <1>2, <1>6 DEF PointsTo
  <2>3. ASSUME NEW p \in PointsTo(o, FALSE) PROVE p \in Held(I, H, V, F)
    BY <1>1, <1>4, <2>1, <2>2, <2>3 DEF HashesIn
  <2> QED
    BY <2>3
<1>7. CASE o[1] = "vector"
  <2>1. n \in V /\ n \in Slots("vector")
    BY <1>2, <1>7 DEF Held, Heap
  <2>2. PointsTo(o, FALSE) = {<<"item", vector[n][k]>> : k \in DOMAIN vector[n]} \cap Objects
    BY <1>2, <1>7 DEF PointsTo
  <2>3. DOMAIN vector[n] = 1 .. Len(vector[n])
    BY <2>1 DEF Typed
  <2>4. ~(Null > Null)
    BY DEF Null
  <2>5. ASSUME NEW p \in PointsTo(o, FALSE) PROVE p \in Held(I, H, V, F)
    BY <1>1, <1>4, <2>1, <2>2, <2>3, <2>4, <2>5 DEF VectorsIn
  <2> QED
    BY <2>5
<1>8. CASE o[1] = "frame"
  <2>1. n \in F /\ FrameIn(frame[n], I, H, F)
    BY <1>1, <1>2, <1>8 DEF Held, FramesIn
  <2>2. PointsTo(o, FALSE) = ({<<"item", frame[n].this>>, <<"hash", frame[n].locals>>,
                      <<"frame", frame[n].owner>>, <<"frame", frame[n].previous>>}
                     \cup (IF frame[n].hasLast THEN {<<"item", frame[n].last>>} ELSE {})) \cap Objects
    BY <1>2, <1>8 DEF PointsTo
  <2>3. ~(Null > Null)
    BY DEF Null
  <2>4. ASSUME NEW p \in PointsTo(o, FALSE) PROVE p \in Held(I, H, V, F)
    BY <1>4, <2>1, <2>2, <2>3, <2>4 DEF FrameIn
  <2> QED
    BY <2>4
<1> QED
  BY <1>3, <1>5, <1>6, <1>7, <1>8 DEF Kinds

LEMMA RootsHeld ==
  ASSUME NEW I, NEW H, NEW V, NEW F, NEW fr, Runs(I, H, V, F, fr)
  PROVE  (VmRoots \cup NativeRoots) \cap Objects \subseteq Held(I, H, V, F)
<1>1. /\ Typed /\ RootsIn(I, H, F) /\ Chained(fr, F) /\ InC(fr, V)
  BY DEF Runs, Safe
<1>2. "item" \in Kinds /\ "hash" \in Kinds /\ "frame" \in Kinds /\ "vector" \in Kinds
  BY DEF Kinds
<1>3. \A k \in Kinds : Null \notin Slots(k)
  BY SlotsAre DEF Kinds, Null
<1>4. ASSUME NEW p \in StackRoots \cap Objects PROVE p \in Held(I, H, V, F)
  <2>1. PICK n \in 1 .. Len(stack) : p = <<"item", stack[n]>>
    BY DEF StackRoots
  <2>2. stack[n] # Null
    BY <1>2, <1>3, <2>1, ObjectsAre
  <2> QED
    BY <1>1, <2>1, <2>2 DEF RootsIn, Held
<1>5. ASSUME NEW p \in {<<"item", exception>>, <<"hash", Global>>, <<"frame", cur>>} \cap Objects
      PROVE  p \in Held(I, H, V, F)
  <2>1. CASE p = <<"item", exception>>
    <3>1. exception # Null
      BY <1>2, <1>3, <2>1, ObjectsAre
    <3> QED
      BY <1>1, <2>1, <3>1 DEF RootsIn, Held
  <2>2. CASE p = <<"hash", Global>>
    BY <1>1, <2>2 DEF RootsIn, Held
  <2>3. CASE p = <<"frame", cur>>
    BY <1>1, <2>3 DEF RootsIn, Held
  <2> QED
    BY <2>1, <2>2, <2>3
<1>6. ASSUME NEW p \in NativeRoots \cap Objects PROVE p \in Held(I, H, V, F)
  <2>1. PICK k \in 1 .. Len(native) :
          p = <<CASE native[k].op = "array" -> "vector"
                  [] native[k].op = "args"  -> "frame"
                  [] OTHER                  -> "item", native[k].obj>>
    BY DEF NativeRoots
  <2>2. PICK r, f : r = native[k] /\ f = fr[k]
    OBVIOUS
  <2>3. Holds(r) /\ Kept(fr, k) /\ f \in F /\ (r.op = "array" => r.obj \in V)
    BY <1>1, <2>2 DEF Typed, InC, Chained
  <2>4. CASE r.op = "array"
    BY <2>1, <2>2, <2>3, <2>4 DEF Held
  <2>5. CASE r.op = "args"
    <3>1. p = <<"frame", r.obj>>
      BY <2>1, <2>2, <2>5
    <3>2. r.obj # Null
      BY <1>2, <1>3, <3>1, ObjectsAre
    <3>3. ByName(f, r.obj)
      BY <2>2, <2>3, <2>5, <3>2 DEF Kept
    <3>4. r.obj \in F
      BY <2>3, <3>3, ByNameIn
    <3> QED
      BY <3>1, <3>4 DEF Held
  <2>6. CASE r.op \notin {"array", "args"}
    <3>1. p = <<"item", r.obj>>
      BY <2>1, <2>2, <2>6
    <3>2. r.obj # Null
      BY <1>2, <1>3, <3>1, ObjectsAre
    <3>3. r.op = "init"
      BY <2>3, <2>6, <3>2 DEF Holds
    <3>4. frame[f].this = r.obj
      BY <2>2, <2>3, <3>3 DEF Kept
    <3>5. r.obj \in I
      BY <2>3, <3>2, <3>4, FramesLead
    <3> QED
      BY <3>1, <3>5 DEF Held
  <2> QED
    BY <2>4, <2>5, <2>6
<1> QED
  BY <1>4, <1>5, <1>6 DEF VmRoots

LEMMA HeldInUse ==
  ASSUME NEW I, NEW H, NEW V, NEW F, Heap(I, H, V, F), NEW o \in Held(I, H, V, F)
  PROVE  InUse(o)
<1>1. o[1] \in Kinds /\ o = <<o[1], o[2]>>
  BY ObjectIs DEF Held
<1>2. Used(bits, I, H, V, F)
  BY DEF Heap
<1>3. CASE o[1] = "item"
  BY <1>1, <1>2, <1>3 DEF Held, Used, InUse
<1>4. CASE o[1] = "hash"
  BY <1>1, <1>2, <1>4 DEF Held, Used, InUse
<1>5. CASE o[1] = "vector"
  BY <1>1, <1>2, <1>5 DEF Held, Used, InUse
<1>6. CASE o[1] = "frame"
  BY <1>1, <1>2, <1>6 DEF Held, Used, InUse
<1> QED
  BY <1>1, <1>3, <1>4, <1>5, <1>6 DEF Kinds

LEMMA GInvRuns ==
  ASSUME GInv, Running
  PROVE  \E I, H, V, F, fr : Runs(I, H, V, F, fr)
<1>1. Typed /\ Makes /\ Walks
  BY TypedIs DEF GInv
<1> QED
  BY <1>1 DEF GInv, SafeSomehow, Runs, Running

LEMMA GInvReachable == GInv => ReachableInUse
<1> SUFFICES ASSUME GInv, Running, NEW o \in From(VmRoots \cup NativeRoots, FALSE) PROVE InUse(o)
  BY DEF ReachableInUse
<1>1. PICK I, H, V, F, fr : Runs(I, H, V, F, fr)
  BY GInvRuns
<1>2. Typed /\ Heap(I, H, V, F)
  BY <1>1, RootsAre
<1>3. PICK C, roots : C = Held(I, H, V, F) /\ roots = VmRoots \cup NativeRoots
  OBVIOUS
<1>4. roots \cap Objects \subseteq C
  BY <1>1, <1>3, RootsHeld
<1>5. \A p \in C : PointsTo(p, FALSE) \subseteq C
  BY <1>2, <1>3, HeldClosed
<1>6. From(roots, FALSE) \subseteq C
  BY <1>4, <1>5, ReachedIn
<1> QED
  BY <1>2, <1>3, <1>6, HeldInUse

LEMMA GInvSuperclassPart == GInv => SuperclassPartKept
<1> SUFFICES ASSUME GInv, Running, NEW o \in From(VmRoots, FALSE), o[1] = "hash", hash[o[2]]["super"] > Null
             PROVE  InUse(<<"item", hash[o[2]]["super"]>>)
  BY DEF SuperclassPartKept
<1>1. PICK I, H, V, F, fr : Runs(I, H, V, F, fr)
  BY GInvRuns
<1>2. Typed /\ Heap(I, H, V, F) /\ "super" \in Keys
  BY <1>1, RootsAre
<1>3. PICK C : C = Held(I, H, V, F)
  OBVIOUS
<1>4. VmRoots \cap Objects \subseteq C
  BY <1>1, <1>3, RootsHeld
<1>5. \A p \in C : PointsTo(p, FALSE) \subseteq C
  BY <1>2, <1>3, HeldClosed
<1>6. o \in C
  BY <1>4, <1>5, ReachedIn
<1>7. o[2] \in H
  BY <1>3, <1>6 DEF Held
<1> QED
  BY <1>2, <1>7 DEF Heap, HashesIn, Used, InUse

-----------------------------------------------------------------------------
(* The records of the heap, the stacks and the lists keep their types, for *)
(* any number of slots and any limit on the nesting: the evaluator (vm.c)  *)
(* finds a reference where it assigns and a node where it invokes.         *)
THEOREM TypeCorrect == HeldElsewhere => (Spec => []TypeOK)
<1> SUFFICES ASSUME HeldElsewhere PROVE Spec => []TypeOK
  OBVIOUS
<1>1. GInv => TypeOK
  BY DEF GInv, Types
<1> QED
  BY <1>1, SafeAlways, PTL

(* No object the program can still get at is ever freed by a sweep         *)
(* (mk_gc.c), with any number of objects, any nesting of calls and a       *)
(* collection at any statement.                                            *)
THEOREM ReachableAlways == HeldElsewhere => (Spec => []ReachableInUse)
<1> SUFFICES ASSUME HeldElsewhere PROVE Spec => []ReachableInUse
  OBVIOUS
<1>1. GInv => ReachableInUse
  BY GInvReachable
<1> QED
  BY <1>1, SafeAlways, PTL

(* An object's superclass part is not freed before the object, where no    *)
(* script refers to a member (run gc_memberref shows what that does), nor  *)
(* assigns or makes blocks beside objects (HeldElsewhere).                 *)
THEOREM SuperclassPartAlways == HeldElsewhere => (Spec => []SuperclassPartKept)
<1> SUFFICES ASSUME HeldElsewhere PROVE Spec => []SuperclassPartKept
  OBVIOUS
<1>1. GInv => SuperclassPartKept
  BY GInvSuperclassPart
<1> QED
  BY <1>1, SafeAlways, PTL

-----------------------------------------------------------------------------
(* Reachability is closed: as long as a round adds something there is one  *)
(* object more, and there are as many rounds as objects.                   *)
LEMMA LayersGrow ==
  ASSUME NEW roots, NEW any, NEW N \in Nat, NEW g, Layers(g, N, roots, any)
  PROVE  \A n \in 0 .. N : /\ g[n] \subseteq Objects
                           /\ \/ \A p \in g[n] : PointsTo(p, any) \subseteq g[n]
                              \/ Cardinality(g[n]) >= n
<1> DEFINE Closed(X) == \A p \in X : PointsTo(p, any) \subseteq X
           S == {n \in 0 .. N : g[n] \subseteq Objects /\ (Closed(g[n]) \/ Cardinality(g[n]) >= n)}
<1>1. g[0] = roots \cap Objects /\ \A n \in 1 .. N : g[n] = Layer(g[n - 1], any)
  <2>1. g = [n \in 0 .. N |-> IF n = 0 THEN roots \cap Objects ELSE Layer(g[n - 1], any)]
    BY DEF Layers
  <2>2. 0 \in 0 .. N /\ \A n \in 1 .. N : n \in 0 .. N /\ n # 0
    OBVIOUS
  <2>3. \A n \in 0 .. N : g[n] = IF n = 0 THEN roots \cap Objects ELSE Layer(g[n - 1], any)
    BY <2>1
  <2> QED
    BY <2>2, <2>3
<1>2. \A X : X \subseteq Objects => IsFiniteSet(X) /\ Cardinality(X) \in Nat
  BY ObjectsFinite, FS_Subset, FS_CardinalityType
<1>3. 0 \in S
  <2>1. g[0] \subseteq Objects
    BY <1>1
  <2>2. Cardinality(g[0]) \in Nat
    BY <1>2, <2>1
  <2> QED
    BY <2>1, <2>2
<1>4. ASSUME NEW n \in 0 .. N - 1, n \in S PROVE n + 1 \in S
  <2>1. n + 1 \in 0 .. N /\ n + 1 \in 1 .. N /\ (n + 1) - 1 = n
    OBVIOUS
  <2>2. PICK X, Y : X = g[n] /\ Y = g[n + 1]
    OBVIOUS
  <2>3. Y = X \cup UNION {PointsTo(p, any) : p \in X}
    BY <1>1, <2>1, <2>2 DEF Layer
  <2>4. X \subseteq Objects /\ X \subseteq Y
    BY <1>4, <2>2, <2>3
  <2>5. Y \subseteq Objects
    BY <2>3, <2>4 DEF PointsTo
  <2>6. CASE Closed(X)
    <3>1. Y = X
      BY <2>3, <2>6
    <3> QED
      BY <2>1, <2>2, <2>5, <2>6, <3>1
  <2>7. CASE ~Closed(X)
    <3>1. Cardinality(X) >= n
      BY <1>4, <2>2, <2>7
    <3>2. Y # X
      BY <2>3, <2>7
    <3>3. IsFiniteSet(Y) /\ Cardinality(Y) \in Nat /\ Cardinality(X) \in Nat
      BY <1>2, <2>4, <2>5
    <3>4. Cardinality(X) <= Cardinality(Y) /\ Cardinality(X) # Cardinality(Y)
      BY <2>4, <3>2, <3>3, FS_Subset
    <3>5. Cardinality(Y) >= n + 1
      BY <3>1, <3>3, <3>4
    <3> QED
      BY <2>1, <2>2, <2>5, <3>5
  <2> QED
    BY <2>6, <2>7
<1> HIDE DEF S
<1>5. \A n \in 0 .. N : n \in S
  BY <1>3, <1>4, UpTo
<1> QED
  BY <1>5 DEF S

LEMMA FromClosed ==
  ASSUME NEW roots, NEW any
  PROVE  /\ From(roots, any) \subseteq Objects /\ roots \cap Objects \subseteq From(roots, any)
         /\ \A p \in From(roots, any) : PointsTo(p, any) \subseteq From(roots, any)
<1> DEFINE N     == Cardinality(Objects)
           reach == CHOOSE g : Layers(g, N, roots, any)
           S     == {n \in 0 .. N : roots \cap Objects \subseteq reach[n]}
<1>1. N \in Nat
  BY ObjectsFinite, FS_CardinalityType
<1>2. Layers(reach, N, roots, any)
  BY <1>1, LayersAre
<1>3. From(roots, any) = reach[N]
  BY DEF From, Layers, Layer
<1> HIDE DEF reach
<1>4. /\ reach[N] \subseteq Objects
      /\ (\A p \in reach[N] : PointsTo(p, any) \subseteq reach[N]) \/ Cardinality(reach[N]) >= N
  <2>1. N \in 0 .. N
    BY <1>1
  <2> HIDE DEF N
  <2> QED
    BY <1>1, <1>2, <2>1, LayersGrow
<1>5. \A p \in reach[N] : PointsTo(p, any) \subseteq reach[N]
  <2>1. CASE Cardinality(reach[N]) >= N
    <3>1. Cardinality(reach[N]) <= N /\ Cardinality(reach[N]) \in Nat
      BY <1>4, ObjectsFinite, FS_Subset, FS_CardinalityType
    <3>2. Cardinality(reach[N]) = Cardinality(Objects)
      BY <1>1, <2>1, <3>1
    <3>3. reach[N] = Objects
      BY <1>4, <3>2, ObjectsFinite, FS_Subset
    <3> QED
      BY <3>3 DEF PointsTo
  <2> QED
    BY <1>4, <2>1
<1>6. roots \cap Objects \subseteq reach[N]
  <2> HIDE DEF N
  <2>1. 0 \in S
    BY <1>1, <1>2 DEF Layers
  <2>2. ASSUME NEW n \in 0 .. N - 1, n \in S PROVE n + 1 \in S
    <3>1. n + 1 \in 0 .. N /\ n + 1 # 0 /\ (n + 1) - 1 = n
      BY <1>1, <2>2
    <3>2. reach[n + 1] = Layer(reach[n], any)
      BY <1>2, <3>1 DEF Layers
    <3> QED
      BY <2>2, <3>1, <3>2 DEF Layer
  <2> HIDE DEF S
  <2>3. N \in S
    BY <1>1, <2>1, <2>2, UpTo
  <2> QED
    BY <2>3 DEF S
<1> QED
  BY <1>3, <1>4, <1>5, <1>6

-----------------------------------------------------------------------------
(* What the roots lead to, by way of stale last results at worst: what is  *)
(* in every set that has the roots and all that its objects point to.      *)
LeadsOn(C) == VmRoots \cap Objects \subseteq C /\ \A p \in C : PointsTo(p, TRUE) \subseteq C

Found(o) == \A C \in SUBSET Objects : LeadsOn(C) => o \in C

(* Nothing in use is marked between collections; during one only what the  *)
(* roots lead to is, and nothing else is called on.                        *)
MarksFound ==
  /\ gc = "off" => \A o \in Objects : InUse(o) => "GC" \notin bits[o]
  /\ gc = "scan" => /\ \A o \in Objects : InUse(o) /\ "GC" \in bits[o] => Found(o)
                    /\ \A x : Among(x, todo) => Found(Object(x))

LEMMA FoundPoints ==
  ASSUME NEW o, Found(o), NEW p \in PointsTo(o, TRUE)
  PROVE  Found(p)
BY DEF Found, LeadsOn

LEMMA TopSteps ==
  ASSUME TypeOK, NEW i \in Slots("item"), Goes(i)
  PROVE  item[i].item \in Slots("item") /\ TopOf(i) = TopOf(item[i].item)
<1> DEFINE t == CHOOSE t : Tops(t)
<1>1. PICK d : d = item[i].item
  OBVIOUS
<1>2. d \in Slots("item")
  BY <1>1, ItemIsTyped DEF Goes, Or0
<1>3. i > Null /\ d > Null
  BY <1>2, SlotsAre DEF Null
<1>4. TopOf(i) = t[i] /\ TopOf(d) = t[d]
  BY <1>3 DEF TopOf, Tops, Goes
<1>5. Tops(t)
  BY TopsAre
<1> HIDE DEF t
<1>6. t[i] = t[d]
  BY <1>1, <1>5 DEF Tops
<1> QED
  BY <1>1, <1>2, <1>4, <1>6

LEMMA FoundTop ==
  ASSUME Typed, Walks, NEW i \in Slots("item"), Found(<<"item", i>>)
  PROVE  Found(<<"item", TopOf(i)>>)
<1> DEFINE Bad(n) == Found(<<"item", n>>) /\ ~Found(<<"item", TopOf(n)>>)
<1>1. PICK rank : Down(rank)
  BY DEF Walks, Down, Goes
<1>2. TypeOK
  BY TypedIs DEF Types
<1>3. PICK T : T = {rank[n] : n \in {m \in Slots("item") : Bad(m)}}
  OBVIOUS
<1>4. SUFFICES ASSUME Bad(i) PROVE FALSE
  OBVIOUS
<1>5. T \subseteq Nat /\ T # {}
  BY <1>1, <1>3, <1>4 DEF Down
<1>6. PICK k \in T : \A m \in T : k <= m
  BY <1>5, LeastNatural
<1>7. PICK n \in Slots("item") : Bad(n) /\ rank[n] = k
  BY <1>3, <1>6
<1>8. Goes(n)
  <2>1. TopOf(n) # n
    BY <1>7
  <2> QED
    BY <1>1, <1>2, <2>1, TopIs
<1>9. PICK d : d = item[n].item
  OBVIOUS
<1>10. d \in Slots("item") /\ TopOf(n) = TopOf(d) /\ rank[d] < rank[n]
  BY <1>1, <1>2, <1>8, <1>9, TopSteps DEF Down
<1>11. Found(<<"item", d>>)
  <2>1. <<"item", d>> \in Objects
    BY <1>10, ObjectsAre DEF Kinds
  <2>2. <<"item", d>> \in PointsTo(<<"item", n>>, TRUE)
    BY <1>9, <2>1 DEF PointsTo
  <2> QED
    BY <1>7, <2>2, FoundPoints
<1>12. Bad(d)
  BY <1>7, <1>10, <1>11
<1>13. rank[d] \in T /\ rank[d] \in Nat /\ k \in Nat
  BY <1>1, <1>3, <1>5, <1>6, <1>10, <1>12 DEF Down
<1> QED
  BY <1>6, <1>7, <1>10, <1>13

(* What is called on by the scan of an object that the roots lead to.      *)
LEMMA ScanItemFinds ==
  ASSUME NEW i \in Slots("item"), Found(<<"item", i>>),
         NEW x \in Calls, Among(x, ScanItem(i))
  PROVE  Found(Object(x))
<1>1. PICK a, b, c, d, e :
        /\ a = Call("hash", item[i].hash, FALSE) /\ b = Call("hash", item[i].hash, TRUE)
        /\ c = Call("item", item[i].item, FALSE) /\ d = Call("vector", item[i].vector, TRUE)
        /\ e = Call("frame", item[i].frame, FALSE)
  OBVIOUS
<1>2. ScanItem(i) \in {<<a, c>>, <<d>>, <<e, c>>, <<b>>, <<>>}
  BY <1>1 DEF ScanItem
<1>3. x \in {a, b, c, d, e}
  <2>1. /\ Among(x, <<a, c>>) => x \in {a, c}
        /\ Among(x, <<e, c>>) => x \in {e, c}
    BY AmongTwo
  <2>2. /\ Among(x, <<d>>) => x = d
        /\ Among(x, <<b>>) => x = b
        /\ ~Among(x, <<>>)
    BY AmongOne, NoneAmong
  <2>3. PICK s : s = ScanItem(i)
    OBVIOUS
  <2>4. Among(x, s) /\ s \in {<<a, c>>, <<d>>, <<e, c>>, <<b>>, <<>>}
    BY <1>2, <2>3
  <2> QED
    BY <2>1, <2>2, <2>4
<1>4. Object(x) \in {<<"hash", item[i].hash>>, <<"item", item[i].item>>,
                     <<"vector", item[i].vector>>, <<"frame", item[i].frame>>}
  BY <1>1, <1>3 DEF Object, Call
<1>5. Object(x) \in Objects
  BY CallsAre
<1>6. Object(x) \in PointsTo(<<"item", i>>, TRUE)
  BY <1>4, <1>5 DEF PointsTo
<1> QED
  BY <1>6, FoundPoints

LEMMA ItemFinds ==
  ASSUME Typed, Walks, NEW o, Found(o), NEW n \in Or0("item") \cup {Absent},
         n \in Slots("item") => <<"item", n>> \in PointsTo(o, TRUE),
         NEW x \in Calls, x.kind = "item", x.n \in {n, TopOf(n)}
  PROVE  Found(Object(x))
<1>1. x.n \in Slots("item") /\ Object(x) = <<"item", x.n>>
  BY CallsAre DEF Kinds
<1>2. n \in Slots("item")
  <2>1. CASE n > Null
    BY <2>1 DEF Or0, Null, Absent
  <2>2. CASE ~(n > Null)
    <3>1. TopOf(n) = n
      BY <2>2 DEF TopOf
    <3> QED
      BY <1>1, <3>1
  <2> QED
    BY <2>1, <2>2
<1>3. Found(<<"item", n>>)
  BY <1>2, FoundPoints
<1> QED
  BY <1>1, <1>2, <1>3, FoundTop

LEMMA ScanHashFinds ==
  ASSUME Typed, Walks, NEW h \in Slots("hash"), NEW top \in BOOLEAN, Found(<<"hash", h>>),
         NEW x \in Calls, Among(x, ScanHash(h, top))
  PROVE  Found(Object(x))
<1>1. Len(KeyOrder) = 3 /\ KeyOrder[1] = "super" /\ KeyOrder[2] = "x" /\ KeyOrder[3] = "Kernel"
  BY DEF KeyOrder
<1>2. \A k \in 1 .. 3 : KeyOrder[k] \in Keys
  BY <1>1, KeysAre
<1>3. PICK k \in 1 .. 3 :
        x = Call("item", IF top THEN TopOf(hash[h][KeyOrder[k]]) ELSE hash[h][KeyOrder[k]], FALSE)
  <2>1. PICK s : s = ScanHash(h, top)
    OBVIOUS
  <2>2. s = [k \in 1 .. 3 |->
               Call("item", IF top THEN TopOf(hash[h][KeyOrder[k]]) ELSE hash[h][KeyOrder[k]], FALSE)]
    BY <1>1, <2>1 DEF ScanHash
  <2>3. Len(s) = 3
    BY <2>2
  <2>4. PICK k \in 1 .. 3 : x = s[k]
    BY <2>1, <2>3 DEF Among
  <2> QED
    BY <2>2, <2>4
<1>4. PICK n : n = hash[h][KeyOrder[k]]
  OBVIOUS
<1>5. n \in Or0("item") \cup {Absent}
  BY <1>2, <1>4, RecordsAre
<1>6. x.kind = "item" /\ x.n \in {n, TopOf(n)}
  BY <1>3, <1>4 DEF Call
<1>7. ASSUME n \in Slots("item") PROVE <<"item", n>> \in PointsTo(<<"hash", h>>, TRUE)
  <2>1. <<"item", n>> \in Objects
    BY <1>7, ObjectsAre DEF Kinds
  <2>2. <<"item", n>> \in {<<"item", hash[h][key]>> : key \in Keys}
    BY <1>2, <1>4
  <2> QED
    BY <2>1, <2>2 DEF PointsTo
<1> QED
  BY <1>5, <1>6, <1>7, ItemFinds

LEMMA ScanVectorFinds ==
  ASSUME Typed, Walks, NEW v \in Slots("vector"), Found(<<"vector", v>>),
         NEW x \in Calls, Among(x, ScanVector(v))
  PROVE  Found(Object(x))
<1>1. vector[v] \in Seq(Or0("item")) /\ Len(vector[v]) \in Nat /\ DOMAIN vector[v] = 1 .. Len(vector[v])
  BY DEF Typed
<1>2. PICK k \in 1 .. Len(vector[v]) : x = Call("item", TopOf(vector[v][k]), FALSE)
  <2>1. Len(ScanVector(v)) = Len(vector[v])
    BY <1>1 DEF ScanVector
  <2>2. \A k \in 1 .. Len(vector[v]) : ScanVector(v)[k] = Call("item", TopOf(vector[v][k]), FALSE)
    BY DEF ScanVector
  <2> QED
    BY <2>1, <2>2 DEF Among
<1>3. PICK n : n = vector[v][k]
  OBVIOUS
<1>4. n \in Or0("item") \cup {Absent}
  BY <1>1, <1>2, <1>3
<1>5. x.kind = "item" /\ x.n \in {n, TopOf(n)}
  BY <1>2, <1>3 DEF Call
<1>6. ASSUME n \in Slots("item") PROVE <<"item", n>> \in PointsTo(<<"vector", v>>, TRUE)
  <2>1. <<"item", n>> \in Objects
    BY <1>6, ObjectsAre DEF Kinds
  <2>2. <<"item", n>> \in {<<"item", vector[v][m]>> : m \in DOMAIN vector[v]}
    BY <1>1, <1>2, <1>3
  <2> QED
    BY <2>1, <2>2 DEF PointsTo
<1> QED
  BY <1>4, <1>5, <1>6, ItemFinds

LEMMA ScanFrameFinds ==
  ASSUME NEW f \in Slots("frame"), Found(<<"frame", f>>), NEW x \in Calls,
         Among(x, ScanFrame(f)) \/ Among(x, <<Call("frame", frame[f].previous, FALSE)>>)
  PROVE  Found(Object(x))
<1>1. PICK a, b, c, d, e :
        /\ a = Call("item", frame[f].last, FALSE) /\ b = Call("item", frame[f].this, FALSE)
        /\ c = Call("hash", frame[f].locals, TRUE) /\ d = Call("frame", frame[f].owner, FALSE)
        /\ e = Call("frame", frame[f].previous, FALSE)
  OBVIOUS
<1>2. Among(x, <<a, b, c, d>>) \/ Among(x, <<e>>)
  BY <1>1 DEF ScanFrame
<1>3. x \in {a, b, c, d, e}
  <2>1. (Among(x, <<a, b, c, d>>) <=> x \in {a, b, c, d}) /\ (Among(x, <<e>>) <=> x = e)
    BY AmongFour, AmongOne
  <2>2. (Among(x, <<a, b, c, d>>) => x \in {a, b, c, d}) /\ (Among(x, <<e>>) => x = e)
    BY <2>1
  <2> QED
    BY <1>2, <2>1, <2>2
<1>4. Object(x) \in {<<"item", frame[f].last>>, <<"item", frame[f].this>>, <<"hash", frame[f].locals>>,
                     <<"frame", frame[f].owner>>, <<"frame", frame[f].previous>>}
  BY <1>1, <1>3 DEF Object, Call
<1>5. Object(x) \in Objects
  BY CallsAre
<1>6. Object(x) \in PointsTo(<<"frame", f>>, TRUE)
  BY <1>4, <1>5 DEF PointsTo
<1> QED
  BY <1>6, FoundPoints

LEMMA ScannedFinds ==
  ASSUME Typed, Walks, NEW c \in Calls, Found(Object(c)), NEW x \in Calls, Among(x, Scanned(c))
  PROVE  Found(Object(x))
<1>1. /\ c.kind \in {"item", "hash", "vector", "frame", "done"} /\ c.top \in BOOLEAN
      /\ c.kind \in Kinds => c.n \in Slots(c.kind) /\ Object(c) = <<c.kind, c.n>>
  BY CallsAre
<1>2. CASE c.kind = "item"
  <2>1. Scanned(c) = ScanItem(c.n) /\ c.n \in Slots("item") /\ Found(<<"item", c.n>>)
    BY <1>1, <1>2 DEF Scanned, Kinds
  <2> QED
    BY <2>1, ScanItemFinds
<1>3. CASE c.kind = "hash"
  <2>1. Scanned(c) = ScanHash(c.n, c.top) /\ c.n \in Slots("hash") /\ Found(<<"hash", c.n>>)
    BY <1>1, <1>3 DEF Scanned, Kinds
  <2> QED
    BY <1>1, <2>1, ScanHashFinds
<1>4. CASE c.kind = "vector"
  <2>1. Scanned(c) = ScanVector(c.n) /\ c.n \in Slots("vector") /\ Found(<<"vector", c.n>>)
    BY <1>1, <1>4 DEF Scanned, Kinds
  <2> QED
    BY <2>1, ScanVectorFinds
<1>5. CASE c.kind = "frame"
  <2>1. Scanned(c) = ScanFrame(c.n) /\ c.n \in Slots("frame") /\ Found(<<"frame", c.n>>)
    BY <1>1, <1>5 DEF Scanned, Kinds
  <2> QED
    BY <2>1, ScanFrameFinds
<1>6. CASE c.kind = "done"
  <2>1. Scanned(c) = <<>>
    BY <1>6 DEF Scanned
  <2> QED
    BY <2>1, NoneAmong
<1> QED
  BY <1>1, <1>2, <1>3, <1>4, <1>5, <1>6

-----------------------------------------------------------------------------
(* The steps of the collector.                                             *)
LEMMA FoundStays ==
  ASSUME UNCHANGED <<item, hash, vector, frame, stack, cur, exception>>
  PROVE  \A o : Found(o) => Found(o)'
<1>1. \A p : PointsTo(p, TRUE)' = PointsTo(p, TRUE)
  BY DEF PointsTo
<1>2. VmRoots' = VmRoots
  BY DEF VmRoots, StackRoots
<1>3. \A C : LeadsOn(C)' => LeadsOn(C)
  BY <1>1, <1>2 DEF LeadsOn
<1> QED
  BY <1>3 DEF Found

LEMMA RootsFound ==
  ASSUME Typed, NEW x \in Calls, Among(x, Roots)
  PROVE  Found(Object(x))
<1>1. \/ \E n \in 1 .. Len(stack) : x = Call("item", stack[n], FALSE)
      \/ x \in {Call("item", exception, FALSE), Call("hash", Global, TRUE), Call("frame", cur, FALSE)}
  BY RootCalls
<1>2. Object(x) \in VmRoots
  <2>1. CASE \E n \in 1 .. Len(stack) : x = Call("item", stack[n], FALSE)
    <3>1. PICK n \in 1 .. Len(stack) : x = Call("item", stack[n], FALSE)
      BY <2>1
    <3>2. Object(x) = <<"item", stack[n]>>
      BY <3>1 DEF Object, Call
    <3> QED
      BY <3>2 DEF VmRoots, StackRoots
  <2>2. CASE x \in {Call("item", exception, FALSE), Call("hash", Global, TRUE), Call("frame", cur, FALSE)}
    <3>1. Object(x) \in {<<"item", exception>>, <<"hash", Global>>, <<"frame", cur>>}
      BY <2>2 DEF Object, Call
    <3> QED
      BY <3>1 DEF VmRoots
  <2> QED
    BY <1>1, <2>1, <2>2
<1>3. Object(x) \in Objects
  BY CallsAre
<1> QED
  BY <1>2, <1>3 DEF Found, LeadsOn

LEMMA StartCollectionFinds ==
  ASSUME Typed, MarksFound, StartCollection
  PROVE  MarksFound'
<1>1. /\ gc = "off" /\ gc' = "scan" /\ todo' = Followed(Roots) /\ bits' = bits
      /\ UNCHANGED <<item, hash, vector, frame, stack, cur, exception>>
  BY DEF StartCollection, InBody, Running, heap
<1>2. \A o \in Objects : InUse(o)' => "GC" \notin bits'[o]
  BY <1>1 DEF MarksFound, InUse
<1>3. \A o : Found(o) => Found(o)'
  BY <1>1, FoundStays
<1>4. ASSUME NEW x, Among(x, todo') PROVE Found(Object(x))'
  <2>1. /\ Followed(Roots) \in Seq(Calls)
        /\ \A t \in 1 .. Len(Followed(Roots)) : Among(Followed(Roots)[t], Roots)
    BY RootCalls, FollowedAre DEF Sound
  <2>2. x \in Calls /\ Among(x, Roots)
    BY <1>1, <1>4, <2>1 DEF Among
  <2>3. PICK o : o = Object(x)
    OBVIOUS
  <2>4. Found(o)
    BY <2>2, <2>3, RootsFound
  <2>5. Found(o)'
    BY <1>3, <2>4
  <2> QED
    BY <2>3, <2>5
<1> QED
  BY <1>1, <1>2, <1>4 DEF MarksFound

LEMMA ScanCallsFound ==
  ASSUME NEW I, NEW H, NEW V, NEW F, NEW fr, Typed, Makes, Walks, Safe(I, H, V, F, fr),
         \A x : Among(x, todo) => Found(Object(x)),
         NEW c, NEW calls, NEW later, ScanStep(c, calls, later, F), NEW x, Among(x, todo')
  PROVE  Found(Object(x))
<1>1. Plain(F) /\ c \in Calls /\ StraightCall(c, F) /\ Found(Object(c))
  BY HeapPlain DEF Safe, ScanStep
<1>2. Among(x, calls) \/ Among(x, later) \/ Among(x, AndPrevious(c)) \/ Among(x, todo)
  BY DEF ScanStep
<1>3. CASE Among(x, todo)
  BY <1>3
<1>4. CASE Among(x, later)
  <2>1. c.kind = "item" /\ x.kind = "done" /\ x.n = c.n
    BY <1>1, <1>4, MarkLaterIs DEF ScanStep
  <2>2. Object(x) = Object(c)
    BY <2>1 DEF Object
  <2> QED
    BY <1>1, <2>2
<1>5. CASE Among(x, calls)
  <2>1. calls = Followed(Scanned(c))
    BY <1>5, NoneAmong DEF ScanStep
  <2>2. PICK s : s = Scanned(c)
    OBVIOUS
  <2>3. Sound(s)
    BY <1>1, <2>2, ScannedIs
  <2>4. Followed(s) \in Seq(Calls) /\ \A t \in 1 .. Len(Followed(s)) : Among(Followed(s)[t], s)
    BY <2>3, FollowedAre DEF Sound
  <2>5. x \in Calls /\ Among(x, s)
    BY <1>5, <2>1, <2>2, <2>4 DEF Among
  <2> QED
    BY <1>1, <2>2, <2>5, ScannedFinds
<1>6. CASE Among(x, AndPrevious(c))
  <2>1. c.kind = "frame"
    BY <1>6, NoneAmong DEF AndPrevious
  <2>2. c.n \in Slots("frame") /\ Object(c) = <<"frame", c.n>> /\ ("new" \in Features => c.n \in F)
    BY <1>1, <2>1, CallsAre DEF Kinds, StraightCall
  <2>3. PICK s : s = <<Call("frame", frame[c.n].previous, FALSE)>>
    OBVIOUS
  <2>4. Sound(s)
    BY <1>1, <2>2, <2>3, ScanFrameIs
  <2>5. Followed(s) \in Seq(Calls) /\ \A t \in 1 .. Len(Followed(s)) : Among(Followed(s)[t], s)
    BY <2>4, FollowedAre DEF Sound
  <2>6. Among(x, Followed(s))
    BY <1>6, <2>1, <2>3 DEF AndPrevious
  <2>7. x \in Calls /\ Among(x, s)
    BY <2>5, <2>6 DEF Among
  <2> QED
    BY <1>1, <2>2, <2>3, <2>7, ScanFrameFinds
<1> QED
  BY <1>2, <1>3, <1>4, <1>5, <1>6

LEMMA ScanFinds ==
  ASSUME NEW I, NEW H, NEW V, NEW F, NEW fr, Typed, Makes, Walks, Safe(I, H, V, F, fr), MarksFound, Scan
  PROVE  MarksFound'
<1>1. /\ gc = "scan" /\ gc' = "scan"
      /\ UNCHANGED <<item, hash, vector, frame, stack, cur, exception>>
  BY DEF Scan
<1>2. PICK c, calls, later : ScanStep(c, calls, later, F)
  BY ScanSteps
<1>3. /\ \A o \in Objects : "USE" \in bits'[o] <=> "USE" \in bits[o]
      /\ \A o \in Objects : "GC" \in bits'[o] => "GC" \in bits[o] \/ o = Object(c)
  BY <1>2, ScanMarks
<1>4. /\ c \in Calls /\ Found(Object(c))
  BY <1>1, <1>2 DEF ScanStep, MarksFound
<1>5. \A o : Found(o) => Found(o)'
  BY <1>1, FoundStays
<1>6. ASSUME NEW o \in Objects, InUse(o)', "GC" \in bits'[o] PROVE Found(o)'
  <2>1. InUse(o) /\ ("GC" \in bits[o] \/ o = Object(c))
    BY <1>3, <1>6 DEF InUse
  <2>2. Found(o)
    BY <1>1, <1>4, <2>1 DEF MarksFound
  <2> QED
    BY <1>5, <2>2
<1>7. ASSUME NEW x, Among(x, todo') PROVE Found(Object(x))'
  <2>1. PICK o : o = Object(x)
    OBVIOUS
  <2>2. \A y : Among(y, todo) => Found(Object(y))
    BY <1>1 DEF MarksFound
  <2>3. Found(Object(x))
    BY <1>2, <1>7, <2>2, ScanCallsFound
  <2>4. Found(o)
    BY <2>1, <2>3
  <2>5. Found(o)'
    BY <1>5, <2>4
  <2> QED
    BY <2>1, <2>5
<1>8. gc' = "scan" /\ gc' # "off"
  BY <1>1
<1>9. \A o \in Objects : InUse(o)' /\ "GC" \in bits'[o] => Found(o)'
  BY <1>6
<1>10. \A x : Among(x, todo') => Found(Object(x))'
  BY <1>7
<1> QED
  BY <1>8, <1>9, <1>10 DEF MarksFound

(* The others mark nothing.                                                *)
MarksNothing == gc = "off" /\ gc' = "off" /\ (bits' = bits \/ \E A : bits' = Allocated(A))

LEMMA NothingFound ==
  ASSUME MarksFound, MarksNothing
  PROVE  MarksFound'
<1>1. gc = "off" /\ gc' = "off" /\ \A o \in Objects : InUse(o) => "GC" \notin bits[o]
  BY DEF MarksFound, MarksNothing
<1>2. CASE bits' = bits
  BY <1>1, <1>2 DEF MarksFound, InUse
<1>3. CASE \E A : bits' = Allocated(A)
  <2>1. PICK A : bits' = Allocated(A)
    BY <1>3
  <2>2. \A o \in Objects : bits'[o] = {"USE", "CN"} \/ bits'[o] = bits[o]
    BY <2>1 DEF Allocated
  <2>3. \A o \in Objects : InUse(o)' => "GC" \notin bits'[o]
    BY <1>1, <2>2 DEF InUse
  <2> QED
    BY <1>1, <2>3 DEF MarksFound
<1> QED
  BY <1>2, <1>3 DEF MarksNothing

LEMMA EvaluatorMarksNothing ==
  ASSUME Next, ~StartCollection, ~Scan, ~Sweep
  PROVE  MarksNothing
<1>1. CASE PushValue \/ PushNode
  BY <1>1 DEF PushValue, PushNode, Uses, Running, NewItem, MarksNothing
<1>2. CASE PushThis \/ PushSuper \/ PushMember("x") \/ \E n \in 1 .. MaxLength : PushElement(n)
  BY <1>2 DEF PushThis, PushSuper, PushMember, PushElement, Uses, Running, heap, MarksNothing
<1>3. CASE PushLocal("x")
  BY <1>3 DEF PushLocal, Uses, Running, heap, MarksNothing
<1>4. CASE PushLocalRef("x")
  BY <1>4 DEF PushLocalRef, Uses, Running, NewItem, MarksNothing
<1>5. CASE PushMemberRef("x")
  BY <1>5 DEF PushMemberRef, Uses, Running, NewItem, MarksNothing
<1>6. CASE \E n \in 1 .. MaxLength : PushElementRef(n)
  BY <1>6 DEF PushElementRef, Uses, Running, NewItem, MarksNothing
<1>7. CASE Assign \/ ArrayElement \/ Drop \/ ReturnNothing
  BY <1>7 DEF Assign, ArrayElement, Drop, ReturnNothing, InBody, Running, MarksNothing
<1>8. CASE ArrayBegin \/ ArrayEnd
  BY <1>8 DEF ArrayBegin, ArrayEnd, Uses, Running, NewItem, MarksNothing
<1>9. CASE BeginCall \/ BeginLocalCall("x") \/ BeginInvoke \/ Return \/ HandlerEnds
  BY <1>9 DEF BeginCall, BeginLocalCall, BeginInvoke, Return, HandlerEnds, Uses, Running, heap, MarksNothing
<1>10. ASSUME NEW f, NEW receiver, NEW args, NEW owner, NEW previous,
              EnterFrame(f, receiver, args, owner, previous), gc = "off", gc' = gc
       PROVE  MarksNothing
  BY <1>10 DEF EnterFrame, MarksNothing
<1>11. CASE EnterMethod
  BY <1>10, <1>11 DEF EnterMethod, Running
<1>12. CASE Invoke
  BY <1>10, <1>12 DEF Invoke, Running
<1>13. CASE Handle
  BY <1>10, <1>13 DEF Handle, Running
<1>14. ASSUME NEW j, NEW e, Raised(j, e), gc = "off" PROVE MarksNothing
  BY <1>10, <1>14 DEF Raised
<1>15. CASE Raise
  BY <1>14, <1>15 DEF Raise, Uses, Running
<1>16. CASE ConditionFalse
  BY <1>14, <1>16 DEF ConditionFalse, Running
<1>17. CASE NewDerived \/ NewBase
  BY <1>17 DEF NewDerived, NewBase, Uses, Running, MarksNothing
<1> QED
  BY <1>1, <1>2, <1>3, <1>4, <1>5, <1>6, <1>7, <1>8, <1>9, <1>11, <1>12, <1>13, <1>15, <1>16, <1>17 DEF Next

(* What the sweep leaves in use was marked, or created since the last one. *)
LEMMA Sweeps ==
  ASSUME Typed, Sweep, NEW o \in Objects, InUse(o)'
  PROVE  /\ InUse(o) /\ bits'[o] = {"USE"}
         /\ "GC" \in bits[o] \/ "CN" \in bits[o]
<1>1. bits'[o] = IF o \in Garbage THEN {} ELSE IF InUse(o) THEN {"USE"} ELSE bits[o]
  BY DEF Sweep
<1>2. "USE" \in bits'[o]
  BY DEF InUse
<1>3. o \notin Garbage /\ InUse(o) /\ bits'[o] = {"USE"}
  BY <1>1, <1>2 DEF InUse
<1>4. bits[o] # {"USE"} /\ bits[o] \in SUBSET {"USE", "GC", "CN"} /\ "USE" \in bits[o]
  BY <1>3 DEF Garbage, InUse, Typed
<1> QED
  BY <1>3, <1>4

LEMMA StepFinds ==
  ASSUME GInv, MarksFound, [Next]_vars
  PROVE  MarksFound'
<1>1. Typed /\ Makes /\ Walks
  BY TypedIs DEF GInv
<1>2. PICK I \in SUBSET Slots("item"), H \in SUBSET Slots("hash"), V \in SUBSET Slots("vector"),
           F \in SUBSET Slots("frame"), fr \in [1 .. Len(native) -> Slots("frame")] : Safe(I, H, V, F, fr)
  BY DEF GInv, SafeSomehow
<1>3. CASE UNCHANGED vars
  <2>1. /\ UNCHANGED <<item, hash, vector, frame, stack, cur, exception>>
        /\ gc' = gc /\ bits' = bits /\ todo' = todo
    BY <1>3 DEF vars
  <2>2. \A o : Found(o) => Found(o)'
    BY <2>1, FoundStays
  <2>3. ASSUME NEW x, gc = "scan", Among(x, todo) PROVE Found(Object(x))'
    <3>1. PICK o : o = Object(x)
      OBVIOUS
    <3>2. Found(o)
      BY <2>3, <3>1 DEF MarksFound
    <3>3. Found(o)'
      BY <2>2, <3>2
    <3> QED
      BY <3>1, <3>3
  <2>4. gc' = "off" => \A o \in Objects : InUse(o)' => "GC" \notin bits'[o]
    BY <2>1 DEF MarksFound, InUse
  <2>5. gc' = "scan" => \A o \in Objects : InUse(o)' /\ "GC" \in bits'[o] => Found(o)'
    BY <2>1, <2>2 DEF MarksFound, InUse
  <2>6. gc' = "scan" => \A x : Among(x, todo') => Found(Object(x))'
    BY <2>1, <2>3
  <2> QED
    BY <2>4, <2>5, <2>6 DEF MarksFound
<1>4. CASE Next /\ ~StartCollection /\ ~Scan /\ ~Sweep
  BY <1>4, EvaluatorMarksNothing, NothingFound
<1>5. CASE StartCollection
  BY <1>1, <1>5, StartCollectionFinds
<1>6. CASE Scan
  BY <1>1, <1>2, <1>6, ScanFinds
<1>7. CASE Sweep
  <2>1. gc' = "off"
    BY <1>7 DEF Sweep
  <2>2. \A o \in Objects : InUse(o)' => "GC" \notin bits'[o]
    BY <1>1, <1>7, Sweeps
  <2> QED
    BY <2>1, <2>2 DEF MarksFound
<1> QED
  BY <1>3, <1>4, <1>5, <1>6, <1>7

LEMMA FoundIsReached ==
  ASSUME NEW o, Found(o)
  PROVE  o \in From(VmRoots, TRUE)
<1>1. PICK C, roots : C = From(roots, TRUE) /\ roots = VmRoots
  OBVIOUS
<1>2. C \subseteq Objects /\ roots \cap Objects \subseteq C /\ \A p \in C : PointsTo(p, TRUE) \subseteq C
  BY <1>1, FromClosed
<1>3. LeadsOn(C)
  BY <1>1, <1>2 DEF LeadsOn
<1> QED
  BY <1>1, <1>2, <1>3 DEF Found

LEMMA StepFrees ==
  ASSUME GInv, MarksFound, [Next]_vars, gc = "scan", gc' = "off", NEW o \in Objects, InUse(o)'
  PROVE  o \in From(VmRoots, TRUE) \/ "CN" \in bits[o]
<1>1. Typed
  BY TypedIs DEF GInv
<1>2. Sweep
  <2>1. ~UNCHANGED vars
    BY DEF vars
  <2>2. ~Scan /\ ~StartCollection
    BY DEF Scan, StartCollection
  <2>3. ~MarksNothing
    BY DEF MarksNothing
  <2> QED
    BY <2>1, <2>2, <2>3, EvaluatorMarksNothing
<1>3. InUse(o) /\ ("GC" \in bits[o] \/ "CN" \in bits[o])
  BY <1>1, <1>2, Sweeps
<1> QED
  BY <1>3, FoundIsReached DEF MarksFound

(* A collection frees all that neither the roots lead to, by way of stale  *)
(* last results at worst, nor has been created since the one before, with  *)
(* any number of objects and whatever cycles they form.                    *)
THEOREM GarbageAlwaysFreed == HeldElsewhere => (Spec => GarbageFreed)
<1> SUFFICES ASSUME HeldElsewhere PROVE Spec => GarbageFreed
  OBVIOUS
<1>1. Init => MarksFound
  <2> SUFFICES ASSUME Init PROVE MarksFound
    OBVIOUS
  <2>1. gc = "off" /\ \A o \in Objects : bits[o] \in {{"USE"}, {}}
    BY DEF Init
  <2> QED
    BY <2>1 DEF MarksFound
<1>2. GInv /\ MarksFound /\ [Next]_vars => MarksFound'
  BY StepFinds
<1>3. GInv /\ MarksFound /\ [Next]_vars =>
        [gc = "scan" /\ gc' = "off" =>
           \A o \in Objects : InUse(o)' => o \in From(VmRoots, TRUE) \/ "CN" \in bits[o]]_vars
  BY StepFrees
<1> QED
  BY <1>1, <1>2, <1>3, SafeAlways, PTL DEF Spec, GarbageFreed
-----------------------------------------------------------------------------
(* A collection gets shorter at each step.  An item is marked only when    *)
(* its scan is done and a marked frame is gone through again for its       *)
(* previous ones, so that it does for two further reasons than marks: the  *)
(* ways from item to item and from frame to previous frame end, among      *)
(* garbage and stale pointers, too (Ordered).                              *)
Falls(S, next) ==
  \E b \in Nat : \E r \in [S -> 0 .. b] : \A n \in S : next[n] \in S => r[next[n]] < r[n]

NextItem  == [i \in Slots("item") |-> item[i].item]
NextFrame == [f \in Slots("frame") |-> frame[f].previous]

Ordered == Falls(Slots("item"), NextItem) /\ Falls(Slots("frame"), NextFrame)

(* What leads to members of J, which lead only to members of J, closes no  *)
(* circle.                                                                 *)
LEMMA FallsOn ==
  ASSUME NEW S, NEW before, NEW next, Falls(S, before), NEW J, \A n \in J : n \in S /\ (before[n] \in S => before[n] \in J),
         NEW i, i \notin J,
         \A n \in S : next[n] = before[n] \/ next[n] \notin S \/ (n = i /\ next[n] \in J)
  PROVE  Falls(S, next)
<1>0. PICK b \in Nat : \E r \in [S -> 0 .. b] : \A n \in S : before[n] \in S => r[before[n]] < r[n]
  BY DEF Falls
<1>1. PICK r \in [S -> 0 .. b] : \A n \in S : before[n] \in S => r[before[n]] < r[n]
  BY <1>0
<1>2. CASE i \in S /\ next[i] \in J
  <2>1. PICK t : t = r[next[i]]
    OBVIOUS
  <2>2. t \in 0 .. b
    BY <1>1, <1>2, <2>1
  <2>3. PICK q : q = [n \in S |-> IF n \in J THEN r[n] ELSE IF n = i THEN t + 1 ELSE r[n] + t + 1]
    OBVIOUS
  <2>4. b + t + 1 \in Nat /\ q \in [S -> 0 .. b + t + 1]
    <3>1. ASSUME NEW n \in S
          PROVE  (IF n \in J THEN r[n] ELSE IF n = i THEN t + 1 ELSE r[n] + t + 1) \in 0 .. b + t + 1
      <4>1. r[n] \in 0 .. b
        BY <1>1
      <4> QED
        BY <2>2, <4>1
    <3>2. b + t + 1 \in Nat
      BY <2>2
    <3> QED
      BY <2>3, <3>1, <3>2
  <2>5. ASSUME NEW n \in S, next[n] \in S PROVE q[next[n]] < q[n]
    <3>1. PICK m : m = next[n]
      OBVIOUS
    <3>2. m \in S /\ r[n] \in Nat /\ r[m] \in Nat /\ r[i] \in Nat
      BY <1>1, <1>2, <2>5, <3>1
    <3>3. /\ q[n] = IF n \in J THEN r[n] ELSE IF n = i THEN t + 1 ELSE r[n] + t + 1
          /\ q[m] = IF m \in J THEN r[m] ELSE IF m = i THEN t + 1 ELSE r[m] + t + 1
      BY <2>3, <2>5, <3>2
    <3>4. CASE n = i
      <4>1. m \in J /\ r[m] = t /\ n \notin J
        BY <1>2, <2>1, <3>1, <3>4
      <4>2. q[m] = t /\ q[n] = t + 1
        BY <3>3, <3>4, <4>1
      <4> QED
        BY <2>2, <3>1, <4>2
    <3>5. CASE n # i
      <4>1. m = before[n]
        BY <2>5, <3>1, <3>5
      <4>2. r[m] < r[n] /\ (n \in J => m \in J)
        BY <1>1, <2>5, <3>2, <4>1
      <4>3. CASE n \in J
        <5>1. q[n] = r[n] /\ q[m] = r[m]
          BY <3>3, <4>2, <4>3
        <5> QED
          BY <3>1, <4>2, <5>1
      <4>4. CASE n \notin J
        <5>1. q[n] = r[n] + t + 1
          BY <3>3, <3>5, <4>4
        <5>2. q[m] \in {r[m], t + 1, r[m] + t + 1}
          BY <3>3
        <5>3. r[m] < r[n] /\ r[m] >= 0 /\ t \in Nat
          BY <2>2, <3>2, <4>2
        <5>4. q[m] < q[n]
          BY <3>2, <5>1, <5>2, <5>3
        <5> QED
          BY <3>1, <5>4
      <4> QED
        BY <4>3, <4>4
    <3> QED
      BY <3>1, <3>4, <3>5
  <2> QED
    BY <2>4, <2>5 DEF Falls
<1>3. CASE ~(i \in S /\ next[i] \in J)
  <2>1. \A n \in S : next[n] \in S => next[n] = before[n]
    BY <1>3
  <2>2. \A n \in S : next[n] \in S => r[next[n]] < r[n]
    BY <1>1, <2>1
  <2> QED
    BY <2>2 DEF Falls
<1> QED
  BY <1>2, <1>3

(* No item but i is made to point to another, and i only to one of I.      *)
Relinked(i, I) ==
  \A n \in Slots("item") : item'[n].item = item[n].item \/ item'[n].item = Null \/ (n = i /\ item'[n].item \in I)

LEMMA OrderedStays ==
  ASSUME Ordered, NEW I \in SUBSET Slots("item"), NEW F \in SUBSET Slots("frame"),
         \A n \in I : item[n].item # Null => item[n].item \in I,
         \A n \in F : frame[n].previous # Null => frame[n].previous \in F,
         NEW i, i \notin I, NEW f, f \notin F,
         Relinked(i, I),
         \A n \in Slots("frame") : \/ frame'[n].previous = frame[n].previous \/ frame'[n].previous = Null
                                   \/ n = f /\ frame'[n].previous \in F
  PROVE  Ordered'
<1>1. Null \notin Slots("item") /\ Null \notin Slots("frame")
  BY SlotsAre DEF Null
<1>2. Falls(Slots("item"), NextItem')
  <2>1. PICK before, next : before = NextItem /\ next = NextItem'
    OBVIOUS
  <2>2. \A n \in Slots("item") : before[n] = item[n].item /\ next[n] = item'[n].item
    BY <2>1 DEF NextItem
  <2>3. Falls(Slots("item"), before)
    BY <2>1 DEF Ordered
  <2> QED
    BY <1>1, <2>1, <2>2, <2>3, FallsOn DEF Relinked
<1>3. Falls(Slots("frame"), NextFrame')
  <2>1. PICK before, next : before = NextFrame /\ next = NextFrame'
    OBVIOUS
  <2>2. \A n \in Slots("frame") : before[n] = frame[n].previous /\ next[n] = frame'[n].previous
    BY <2>1 DEF NextFrame
  <2>3. Falls(Slots("frame"), before)
    BY <2>1 DEF Ordered
  <2> QED
    BY <1>1, <2>1, <2>2, <2>3, FallsOn
<1> QED
  BY <1>2, <1>3 DEF Ordered

LEMMA SameOrdered ==
  ASSUME Ordered,
         \A n \in Slots("item") : item'[n].item = item[n].item \/ item'[n].item = Null,
         \A n \in Slots("frame") : frame'[n].previous = frame[n].previous \/ frame'[n].previous = Null
  PROVE  Ordered'
<1>1. PICK I, F : I = {} /\ F = {}
  OBVIOUS
<1>2. Null \notin I /\ Null \notin F /\ I \in SUBSET Slots("item") /\ F \in SUBSET Slots("frame")
  BY <1>1
<1>3. /\ \A n \in I : item[n].item # Null => item[n].item \in I
      /\ \A n \in F : frame[n].previous # Null => frame[n].previous \in F
  BY <1>1
<1> QED
  BY <1>2, <1>3, OrderedStays DEF Relinked

LEMMA RunOrdered ==
  ASSUME NEW I, NEW H, NEW V, NEW F, NEW fr, Runs(I, H, V, F, fr), Ordered, NEW i, i \notin I, NEW f, f \notin F,
         Relinked(i, I),
         \A n \in Slots("frame") : \/ frame'[n].previous = frame[n].previous \/ frame'[n].previous = Null
                                   \/ n = f /\ frame'[n].previous \in F
  PROVE  Ordered'
<1>1. I \in SUBSET Slots("item") /\ F \in SUBSET Slots("frame")
  BY RootsAre DEF Heap
<1>2. \A n \in I : item[n].item # Null => item[n].item \in I
  BY ItemsLead
<1>3. \A n \in F : frame[n].previous # Null => frame[n].previous \in F
  BY FramesLead
<1> QED
  BY <1>1, <1>2, <1>3, OrderedStays

LEMMA NullIsOut ==
  ASSUME NEW I, NEW H, NEW V, NEW F, Heap(I, H, V, F)
  PROVE  Null \notin I /\ Null \notin F
BY SlotsAre DEF Heap, Null

(* A new item and a new frame: they lead to what the script can get at.    *)
LEMMA ItemOrdered ==
  ASSUME NEW I, NEW H, NEW V, NEW F, NEW fr, Runs(I, H, V, F, fr), Ordered, NEW i, NEW r, Fresh("item", i),
         item' = [item EXCEPT ![i] = r], r.item = Null \/ r.item \in I,
         \A n \in Slots("frame") : frame'[n].previous = frame[n].previous
  PROVE  Ordered'
<1>1. Typed /\ Heap(I, H, V, F)
  BY RootsAre
<1>2. i \notin I
  BY <1>1, FreshIsOut
<1>3. \A n \in Slots("item") : item'[n] = IF n = i THEN r ELSE item[n]
  BY <1>1 DEF Typed
<1>4. PICK f : f = Null /\ f \notin F
  BY <1>1, NullIsOut
<1> QED
  BY <1>2, <1>3, <1>4, RunOrdered DEF Relinked

LEMMA FrameOrdered ==
  ASSUME NEW I, NEW H, NEW V, NEW F, NEW fr, Runs(I, H, V, F, fr), Ordered,
         NEW f, NEW this, NEW locals, NEW owner, NEW p, Fresh("frame", f), p = Null \/ p \in F,
         frame' = [frame EXCEPT ![f] = NewFrame(f, this, locals, owner, p)], NEW i, i \notin I,
         Relinked(i, I)
  PROVE  Ordered'
<1>1. Typed /\ Heap(I, H, V, F) /\ f \in Slots("frame")
  BY RootsAre DEF Fresh
<1>2. PICK r : r = NewFrame(f, this, locals, owner, p)
  OBVIOUS
<1>3. r.previous = p
  <2>1. frame[f] \in FrameSet
    BY <1>1 DEF Typed
  <2> QED
    BY <1>2, <2>1 DEF NewFrame, FrameSet
<1>4. \A n \in Slots("frame") : frame'[n] = IF n = f THEN r ELSE frame[n]
  <2>1. frame' = [frame EXCEPT ![f] = r]
    BY <1>2
  <2> QED
    BY <1>1, <2>1 DEF Typed
<1>5. \A n \in Slots("frame") : \/ frame'[n].previous = frame[n].previous \/ frame'[n].previous = Null
                                \/ n = f /\ frame'[n].previous \in F
  BY <1>3, <1>4
<1>6. f \notin F
  BY <1>1, FreshIsOut
<1> QED
  BY <1>5, <1>6, RunOrdered

LEMMA EnterOrdered ==
  ASSUME NEW I, NEW H, NEW V, NEW F, NEW fr, Runs(I, H, V, F, fr), Ordered, item' = item,
         NEW f, NEW this, NEW args, NEW owner, NEW previous \in F, EnterFrame(f, this, args, owner, previous)
  PROVE  Ordered'
<1>1. PICK h : Fresh("frame", f) /\ frame' = [frame EXCEPT ![f] = NewFrame(f, this, h, owner, previous)]
  BY DEF EnterFrame
<1>2. PICK i : i = Null /\ i \notin I
  BY RootsAre, NullIsOut
<1>3. Relinked(i, I)
  BY DEF Relinked
<1> QED
  BY <1>1, <1>2, <1>3, FrameOrdered

LEMMA NewDerivedOrdered ==
  ASSUME NEW I, NEW H, NEW V, NEW F, NEW fr, Runs(I, H, V, F, fr), Ordered, NewDerived
  PROVE  Ordered'
<1>1. Typed /\ Heap(I, H, V, F) /\ cur \in F
  BY RootsAre
<1>2. PICK i \in Slots("item"), h \in Slots("hash"), f \in Slots("frame") :
        /\ Fresh("item", i) /\ Fresh("frame", f)
        /\ item' = [item EXCEPT ![i] = Class(h, Null)]
        /\ frame' = [frame EXCEPT ![f] = NewFrame(f, i, Null, Null, cur)]
  BY DEF NewDerived, InitFrame
<1>3. i \notin I
  BY <1>1, <1>2, FreshIsOut
<1>4. Relinked(i, I)
  BY <1>1, <1>2 DEF Relinked, Typed, Class, NoItem
<1> QED
  BY <1>1, <1>2, <1>3, <1>4, FrameOrdered

LEMMA NewBaseOrdered ==
  ASSUME NEW I, NEW H, NEW V, NEW F, NEW fr, Runs(I, H, V, F, fr), Ordered, NewBase
  PROVE  Ordered'
<1> DEFINE N == Len(native)
<1>1. /\ Typed /\ Heap(I, H, V, F) /\ Safe(I, H, V, F, fr) /\ cur \in F
      /\ Chained(fr, F) /\ InC(fr, V)
  BY RootsAre DEF Runs, Safe
<1>2. PICK c, p : c = Top.obj /\ p = frame[cur].previous
  OBVIOUS
<1>3. PICK i \in Slots("item"), h \in Slots("hash"), f \in Slots("frame") :
        /\ Fresh("item", i) /\ Fresh("frame", f)
        /\ item' = [item EXCEPT ![i] = Class(h, c)]
        /\ frame' = [frame EXCEPT ![f] = NewFrame(f, i, Null, Null, p)]
  BY <1>2 DEF NewBase, InitFrame
<1>4. Top = native[N] /\ N \in 1 .. N /\ Holds(Top) /\ Top.op = "init"
  BY <1>1, RecordsAre DEF NewBase
<1>5. c \in Slots("item") /\ frame[cur].this = c
  <2>1. Kept(fr, N) /\ fr[N] = cur
    BY <1>1, <1>4 DEF InC, Chained
  <2> QED
    BY <1>2, <1>4, <2>1 DEF Kept, Holds
<1>6. c \in I /\ (p = Null \/ p \in F)
  <2>1. c # Null
    BY <1>5, SlotsAre DEF Null
  <2> QED
    BY <1>1, <1>2, <1>5, <2>1, FramesLead
<1>7. i \notin I
  BY <1>1, <1>3, FreshIsOut
<1>8. Relinked(i, I)
  BY <1>1, <1>3, <1>6 DEF Relinked, Typed, Class, NoItem
<1> QED
  BY <1>3, <1>6, <1>7, <1>8, FrameOrdered

LEMMA RaisedOrdered ==
  ASSUME NEW I, NEW H, NEW V, NEW F, NEW fr, Runs(I, H, V, F, fr), Ordered,
         NEW j \in 1 .. Len(native), NEW e, Raised(j, e)
  PROVE  Ordered'
<1>1. Typed /\ Chained(fr, F) /\ Len(native) \in Nat
  BY RecordsAre DEF Runs, Safe
<1>2. CatcherOf(j) = fr[j] /\ fr[j] \in F
  BY <1>1, CatcherIs DEF Chained
<1>3. PICK a : a = fr[j]
  OBVIOUS
<1>4. PICK f : EnterFrame(f, frame[a].this, <<e>>, a, a)
  BY <1>2, <1>3 DEF Raised, CatcherOf
<1>5. item' = item /\ a \in F
  BY <1>2, <1>3 DEF Raised
<1> QED
  BY <1>4, <1>5, EnterOrdered

LEMMA SweepOrdered ==
  ASSUME Typed, Ordered, Sweep
  PROVE  Ordered'
<1>1. /\ \A n \in Slots("item") : item'[n] = IF <<"item", n>> \in Garbage THEN NoItem ELSE item[n]
      /\ frame' = frame
  BY DEF Sweep
<1>2. ASSUME NEW n \in Slots("item") PROVE item'[n].item = item[n].item \/ item'[n].item = Null
  <2>1. item'[n] = NoItem \/ item'[n] = item[n]
    BY <1>1
  <2>2. NoItem.item = Null
    BY DEF NoItem
  <2> QED
    BY <2>1, <2>2
<1> QED
  BY <1>1, <1>2, SameOrdered

LEMMA InitOrdered == Init => Ordered
<1> SUFFICES ASSUME Init PROVE Ordered
  OBVIOUS
<1>1. Null \notin Slots("item") /\ Null \notin Slots("frame")
  BY SlotsAre DEF Null
<1>2. \A n \in Slots("item") : NextItem[n] = Null
  BY DEF Init, NextItem, Class, NoItem
<1>3. \A n \in Slots("frame") : NextFrame[n] = Null
  BY DEF Init, NextFrame
<1>4. ASSUME NEW S, NEW next, \A n \in S : next[n] = Null, Null \notin S PROVE Falls(S, next)
  <2>1. [n \in S |-> 0] \in [S -> 0 .. 0] /\ 0 \in Nat
    OBVIOUS
  <2> QED
    BY <1>4, <2>1 DEF Falls
<1> QED
  BY <1>1, <1>2, <1>3, <1>4 DEF Ordered

LEMMA StepOrdered ==
  ASSUME GInv, Ordered, [Next]_vars
  PROVE  Ordered'
<1>1. Typed /\ Makes /\ Walks
  BY TypedIs DEF GInv
<1>2. PICK I \in SUBSET Slots("item"), H \in SUBSET Slots("hash"), V \in SUBSET Slots("vector"),
           F \in SUBSET Slots("frame"), fr \in [1 .. Len(native) -> Slots("frame")] : Safe(I, H, V, F, fr)
  BY DEF GInv, SafeSomehow
<1>3. ASSUME gc = "off" PROVE Runs(I, H, V, F, fr)
  BY <1>1, <1>2, <1>3 DEF Runs
<1>4. CASE item' = item /\ frame' = frame
  BY <1>4, SameOrdered
<1>5. CASE UNCHANGED vars
  BY <1>4, <1>5 DEF vars
<1>6. CASE PushThis \/ PushSuper \/ PushMember("x") \/ (\E n \in 1 .. MaxLength : PushElement(n))
           \/ BeginCall \/ BeginLocalCall("x") \/ BeginInvoke \/ Return \/ HandlerEnds
  BY <1>4, <1>6 DEF PushThis, PushSuper, PushMember, PushElement, BeginCall, BeginLocalCall, BeginInvoke, Return,
                    HandlerEnds, heap
<1>7. CASE ArrayBegin \/ ArrayElement \/ Assign \/ StartCollection \/ Scan
  BY <1>4, <1>7 DEF ArrayBegin, ArrayElement, Assign, StartCollection, Scan, heap
<1>8. CASE PushValue \/ PushMemberRef("x") \/ PushNode \/ ArrayEnd \/ (\E n \in 1 .. MaxLength : PushElementRef(n))
  <2>1. gc = "off" /\ frame' = frame
    BY <1>8 DEF PushValue, PushMemberRef, PushNode, ArrayEnd, PushElementRef, Uses, Running
  <2>2. Runs(I, H, V, F, fr) /\ cur \in F
    BY <1>3, <2>1, RootsAre
  <2>3. PICK p : p = frame[cur].this /\ (p = Null \/ p \in I)
    BY <2>2, FramesLead
  <2>4. /\ Value.item = Null /\ Node(cur, p).item = p
        /\ \A x, n : Ref(x).item = Null /\ Array(x).item = Null /\ RefArray(x, n).item = Null
    BY DEF Value, Node, Ref, Array, RefArray, NoItem
  <2>5. \E i, r : NewItem(i, r) /\ (r.item = Null \/ r.item = p)
    BY <1>8, <2>3, <2>4 DEF PushValue, PushMemberRef, PushNode, ArrayEnd, PushElementRef
  <2>6. PICK i, r : Fresh("item", i) /\ item' = [item EXCEPT ![i] = r] /\ (r.item = Null \/ r.item = p)
    BY <2>5 DEF NewItem
  <2> QED
    BY <2>1, <2>2, <2>3, <2>6, ItemOrdered
<1>9. \A f \in Slots("frame") : frame[f] \in FrameSet
  BY <1>1 DEF Typed
<1>10. CASE Drop \/ ReturnNothing
  <2>1. \E p, x, y : frame' = [frame EXCEPT ![p].last = x, ![p].hasLast = y]
    <3>1. CASE Drop
      BY <3>1 DEF Drop
    <3>2. CASE ReturnNothing
      <4>1. PICK p, x : p = frame[cur].previous /\ x = frame[cur].last
        OBVIOUS
      <4> QED
        BY <3>2, <4>1 DEF ReturnNothing
    <3> QED
      BY <1>10, <3>1, <3>2
  <2>2. \A f \in Slots("frame") : frame'[f].previous = frame[f].previous
    <3>1. PICK p, x, y : frame' = [frame EXCEPT ![p].last = x, ![p].hasLast = y]
      BY <2>1
    <3> QED
      BY <1>1, <1>9, <3>1 DEF FrameSet, Typed
  <2>3. item' = item
    BY <1>10 DEF Drop, ReturnNothing
  <2> QED
    BY <2>2, <2>3, SameOrdered
<1>11. ASSUME NEW h, DeclaredIn(h, "x")
       PROVE  \A f \in Slots("frame") : frame'[f].previous = frame[f].previous
  <2>1. frame' = frame \/ frame' = [frame EXCEPT ![cur].locals = h]
    BY <1>11 DEF DeclaredIn
  <2> QED
    BY <1>1, <1>9, <2>1 DEF FrameSet, Typed
<1>12. CASE PushLocal("x")
  <2>1. item' = item /\ (frame' = frame \/ \E h : DeclaredIn(h, "x"))
    BY <1>12 DEF PushLocal, heap
  <2> QED
    BY <1>11, <2>1, SameOrdered
<1>13. CASE PushLocalRef("x")
  <2>1. gc = "off" /\ (frame' = frame \/ \E h : DeclaredIn(h, "x"))
    BY <1>13 DEF PushLocalRef, Uses, Running
  <2>2. PICK i, h : Fresh("item", i) /\ item' = [item EXCEPT ![i] = Ref(h)]
    BY <1>13 DEF PushLocalRef, NewItem
  <2>3. Ref(h).item = Null
    BY DEF Ref, NoItem
  <2>4. \A f \in Slots("frame") : frame'[f].previous = frame[f].previous
    BY <1>11, <2>1
  <2>5. PICK r : r = Ref(h)
    OBVIOUS
  <2>6. Runs(I, H, V, F, fr) /\ item' = [item EXCEPT ![i] = r] /\ r.item = Null
    BY <1>3, <2>1, <2>2, <2>3, <2>5
  <2> QED
    BY <2>2, <2>4, <2>6, ItemOrdered
<1>14. CASE EnterMethod \/ Invoke \/ Handle
  <2>1. gc = "off" /\ item' = item
    BY <1>14 DEF EnterMethod, Invoke, Handle, Running
  <2>2. PICK f, this, args, owner : EnterFrame(f, this, args, owner, cur)
    BY <1>14 DEF EnterMethod, Invoke, Handle
  <2>3. Runs(I, H, V, F, fr) /\ cur \in F
    BY <1>3, <2>1, RootsAre
  <2> QED
    BY <2>1, <2>2, <2>3, EnterOrdered
<1>15. CASE NewDerived
  BY <1>3, <1>15, NewDerivedOrdered DEF NewDerived, Uses, Running
<1>16. CASE NewBase
  BY <1>3, <1>16, NewBaseOrdered DEF NewBase, Running
<1>17. CASE Raise \/ ConditionFalse
  <2>1. gc = "off" /\ \E j \in 1 .. Len(native) : \E e : Raised(j, e)
    BY <1>17 DEF Raise, ConditionFalse, Uses, Running
  <2> QED
    BY <1>3, <2>1, RaisedOrdered
<1>18. CASE Sweep
  BY <1>1, <1>18, SweepOrdered
<1> QED
  BY <1>5, <1>6, <1>7, <1>8, <1>10, <1>12, <1>13, <1>14, <1>15, <1>16, <1>17, <1>18
     DEF Next

(* v[1] + ... + v[N]                                                       *)
Sums(g, v, N) == g = [n \in 0 .. N |-> IF n = 0 THEN 0 ELSE g[n - 1] + v[n]]
SumOf(v, N)   == (CHOOSE g : Sums(g, v, N))[N]

LEMMA SumsAre ==
  ASSUME NEW v, NEW N \in Nat
  PROVE  \E g : Sums(g, v, N)
<1> DEFINE S == {n \in Nat : \E g : Sums(g, v, n)}
<1>1. 0 \in S
  <2>1. Sums([n \in 0 .. 0 |-> 0], v, 0)
    BY DEF Sums
  <2> QED
    BY <2>1
<1>2. ASSUME NEW n \in 0 .. N - 1, n \in S PROVE n + 1 \in S
  <2>1. PICK g : Sums(g, v, n)
    BY <1>2
  <2>2. PICK f : Extends(f, g, n, g[n] + v[n + 1])
    BY OneMore
  <2>3. Sums(f, v, n + 1)
    <3>1. \A m \in 0 .. n + 1 : f[m] = IF m = 0 THEN 0 ELSE f[m - 1] + v[m]
      BY <2>1, <2>2 DEF Sums, Extends
    <3> QED
      BY <2>2, <3>1 DEF Sums, Extends
  <2> QED
    BY <2>3
<1> HIDE DEF S
<1>3. N \in S
  BY <1>1, <1>2, UpTo
<1> QED
  BY <1>3 DEF S

LEMMA SumGrows ==
  ASSUME NEW N \in Nat, NEW u, NEW v, \A n \in 1 .. N : u[n] \in Nat /\ v[n] = u[n]
  PROVE  SumOf(u, N) \in Nat /\ SumOf(v, N + 1) = SumOf(u, N) + v[N + 1]
<1>1. PICK g, h : g = (CHOOSE x : Sums(x, u, N)) /\ h = (CHOOSE x : Sums(x, v, N + 1))
  OBVIOUS
<1>2. Sums(g, u, N) /\ Sums(h, v, N + 1) /\ SumOf(u, N) = g[N] /\ SumOf(v, N + 1) = h[N + 1]
  BY <1>1, SumsAre DEF SumOf
<1>3. g[0] = 0 /\ h[0] = 0 /\ \A n \in 1 .. N : g[n] = g[n - 1] + u[n] /\ h[n] = h[n - 1] + v[n]
  BY <1>2 DEF Sums
<1>4. h[N + 1] = h[N] + v[N + 1]
  BY <1>2 DEF Sums
<1> DEFINE S == {n \in 0 .. N : g[n] \in Nat /\ h[n] = g[n]}
<1>5. 0 \in S
  BY <1>3
<1>6. ASSUME NEW n \in 0 .. N - 1, n \in S PROVE n + 1 \in S
  <2>1. n + 1 \in 1 .. N /\ (n + 1) - 1 = n
    OBVIOUS
  <2>2. g[n + 1] = g[n] + u[n + 1] /\ h[n + 1] = h[n] + v[n + 1]
    BY <1>3, <2>1
  <2> QED
    BY <1>6, <2>1, <2>2
<1> HIDE DEF S
<1>7. \A n \in 0 .. N : n \in S
  BY <1>5, <1>6, UpTo
<1>8. N \in 0 .. N
  OBVIOUS
<1> QED
  BY <1>2, <1>4, <1>7, <1>8 DEF S

(* The weight of a list of calls, added from the last one on.              *)
Weigh(w, s) == SumOf([n \in 1 .. Len(s) |-> w[s[Len(s) - n + 1]]], Len(s))

LEMMA WeighIs ==
  ASSUME NEW w \in [Calls -> Nat], NEW s \in Seq(Calls)
  PROVE  /\ Weigh(w, s) \in Nat
         /\ \A c \in Calls : <<c>> \o s \in Seq(Calls) /\ Weigh(w, <<c>> \o s) = Weigh(w, s) + w[c]
<1>1. PICK N, u : N = Len(s) /\ u = [n \in 1 .. N |-> w[s[N - n + 1]]]
  OBVIOUS
<1>2. N \in Nat /\ Weigh(w, s) = SumOf(u, N)
  BY <1>1 DEF Weigh
<1>3. \A n \in 1 .. N : u[n] \in Nat /\ u[n] = w[s[N - n + 1]]
  BY <1>1
<1>4. ASSUME NEW c \in Calls
      PROVE  <<c>> \o s \in Seq(Calls) /\ Weigh(w, <<c>> \o s) = Weigh(w, s) + w[c]
  <2>1. PICK t, v : t = <<c>> \o s /\ v = [n \in 1 .. N + 1 |-> w[t[(N + 1) - n + 1]]]
    OBVIOUS
  <2>2. t \in Seq(Calls) /\ Len(t) = N + 1 /\ t[1] = c
    BY <1>1, <2>1
  <2>3. \A n \in 1 .. N : t[(N + 1) - n + 1] = s[N - n + 1]
    BY <1>1, <2>1
  <2>4. ASSUME NEW n \in 1 .. N PROVE v[n] = u[n]
    <3>1. n \in 1 .. N + 1
      BY <1>2
    <3> QED
      BY <1>3, <2>1, <2>3, <3>1
  <2>5. v[N + 1] = w[c]
    BY <1>2, <2>1, <2>2
  <2>6. Weigh(w, t) = SumOf(v, N + 1)
    BY <2>1, <2>2 DEF Weigh
  <2>7. SumOf(v, N + 1) = SumOf(u, N) + v[N + 1]
    BY <1>2, <1>3, <2>4, SumGrows
  <2> QED
    BY <1>2, <2>1, <2>2, <2>5, <2>6, <2>7
<1>5. SumOf(u, N) \in Nat
  BY <1>2, <1>3, SumGrows
<1> QED
  BY <1>2, <1>4, <1>5

(* A frame weighs more than its previous frame, an item more than all that *)
(* its scan puts in its place.                                             *)
Heights(S, next) ==
  CHOOSE r : \E b \in Nat : r \in [S -> 0 .. b] /\ \A n \in S : next[n] \in S => r[next[n]] < r[n]
ItemHeight  == Heights(Slots("item"), NextItem)
FrameHeight == Heights(Slots("frame"), NextFrame)
Highest     == CHOOSE b \in Nat : FrameHeight \in [Slots("frame") -> 0 .. b]

Weights ==
  [c \in Calls |-> CASE c.kind = "item"  -> (ItemHeight[c.n] + 1) * (Highest + 3)
                     [] c.kind = "frame" -> FrameHeight[c.n] + 1
                     [] OTHER            -> 1]

Work   == Weigh(Weights, todo)
ToScan == Cardinality({o \in Objects : o[1] # "item" /\ "GC" \notin bits[o]})

LEMMA Multiples ==
  ASSUME NEW k \in Nat, NEW m \in Nat, NEW n \in Nat
  PROVE  (n + 1) * k \in Nat /\ (n + 1) * k >= k /\ (m < n => (m + 1) * k + k <= (n + 1) * k)
OBVIOUS

LEMMA WeightsAre ==
  ASSUME Ordered, NEW w, w = Weights
  PROVE  /\ w \in [Calls -> Nat] /\ \A c \in Calls : w[c] > 0
         /\ \A c, d \in Calls : c.kind = "frame" /\ d.kind = "frame" /\ d.n = frame[c.n].previous => w[d] < w[c]
         /\ \A c, e \in Calls : c.kind = "item" /\ e.kind # "item" => w[e] + 1 < w[c]
         /\ \A c, d, e \in Calls : c.kind = "item" /\ e.kind # "item" /\ d.kind = "item" /\ d.n = item[c.n].item
              => w[d] + w[e] + 1 < w[c]
<1>1. ASSUME NEW S, NEW next, Falls(S, next)
      PROVE  /\ \E b \in Nat : Heights(S, next) \in [S -> 0 .. b]
             /\ \A n \in S : next[n] \in S => Heights(S, next)[next[n]] < Heights(S, next)[n]
  BY <1>1 DEF Falls, Heights
<1>2. PICK ri, rf, b : ri = ItemHeight /\ rf = FrameHeight /\ b = Highest
  OBVIOUS
<1>3. /\ \A n \in Slots("item") : ri[n] \in Nat
      /\ \A n \in Slots("item") : item[n].item \in Slots("item") => ri[item[n].item] < ri[n]
  <2>1. \A n \in Slots("item") : NextItem[n] = item[n].item
    BY DEF NextItem
  <2>2. Falls(Slots("item"), NextItem)
    BY DEF Ordered
  <2>3. /\ \E m \in Nat : ri \in [Slots("item") -> 0 .. m]
        /\ \A n \in Slots("item") : NextItem[n] \in Slots("item") => ri[NextItem[n]] < ri[n]
    BY <1>1, <1>2, <2>2 DEF ItemHeight
  <2> QED
    BY <2>1, <2>3
<1>4. /\ b \in Nat /\ \A n \in Slots("frame") : rf[n] \in 0 .. b
      /\ \A n \in Slots("frame") : frame[n].previous \in Slots("frame") => rf[frame[n].previous] < rf[n]
  <2>1. \A n \in Slots("frame") : NextFrame[n] = frame[n].previous
    BY DEF NextFrame
  <2>2. Falls(Slots("frame"), NextFrame)
    BY DEF Ordered
  <2>3. /\ \E m \in Nat : rf \in [Slots("frame") -> 0 .. m]
        /\ \A n \in Slots("frame") : NextFrame[n] \in Slots("frame") => rf[NextFrame[n]] < rf[n]
    BY <1>1, <1>2, <2>2 DEF FrameHeight
  <2>4. b \in Nat /\ rf \in [Slots("frame") -> 0 .. b]
    BY <1>2, <2>3 DEF Highest
  <2> QED
    BY <2>1, <2>3, <2>4
<1>5. \A c \in Calls : /\ c.kind = "item" => c.n \in Slots("item")
                       /\ c.kind = "frame" => c.n \in Slots("frame")
  BY CallsAre DEF Kinds
<1>6. w = [c \in Calls |-> CASE c.kind = "item"  -> (ri[c.n] + 1) * (b + 3)
                             [] c.kind = "frame" -> rf[c.n] + 1
                             [] OTHER            -> 1]
  BY <1>2 DEF Weights
<1>7. ASSUME NEW c \in Calls
      PROVE  /\ c.kind = "item" => w[c] = (ri[c.n] + 1) * (b + 3) /\ ri[c.n] \in Nat
             /\ c.kind = "frame" => w[c] = rf[c.n] + 1
             /\ c.kind # "item" => w[c] \in 1 .. b + 1
  <2>1. c.kind = "item" => w[c] = (ri[c.n] + 1) * (b + 3)
    BY <1>6
  <2>2. c.kind = "frame" => w[c] = rf[c.n] + 1
    BY <1>6
  <2>3. c.kind \notin {"item", "frame"} => w[c] = 1
    BY <1>6
  <2> QED
    BY <1>3, <1>4, <1>5, <2>1, <2>2, <2>3
<1>8. ASSUME NEW m \in Nat, NEW n \in Nat
      PROVE  (n + 1) * (b + 3) \in Nat /\ (n + 1) * (b + 3) >= b + 3
             /\ (m < n => (m + 1) * (b + 3) + (b + 3) <= (n + 1) * (b + 3))
  <2>1. b + 3 \in Nat
    BY <1>4
  <2> QED
    BY <2>1, Multiples
<1>9. ASSUME NEW c \in Calls PROVE w[c] \in Nat /\ w[c] > 0
  BY <1>4, <1>7, <1>8
<1>10. ASSUME NEW c \in Calls, NEW d \in Calls, c.kind = "frame", d.kind = "frame", d.n = frame[c.n].previous
       PROVE  w[d] < w[c]
  <2>1. c.n \in Slots("frame") /\ d.n \in Slots("frame")
    BY <1>5, <1>10
  <2>2. rf[d.n] < rf[c.n] /\ rf[d.n] \in Nat /\ rf[c.n] \in Nat
    BY <1>4, <1>10, <2>1
  <2> QED
    BY <1>7, <1>10, <2>2
<1>11. ASSUME NEW c \in Calls, NEW e \in Calls, c.kind = "item", e.kind # "item" PROVE w[e] + 1 < w[c]
  <2>1. w[c] >= b + 3 /\ w[c] \in Nat /\ w[e] \in 1 .. b + 1
    BY <1>7, <1>8, <1>11
  <2> QED
    BY <1>4, <2>1
<1>12. ASSUME NEW c \in Calls, NEW d \in Calls, NEW e \in Calls, c.kind = "item", e.kind # "item", d.kind = "item",
              d.n = item[c.n].item
       PROVE  w[d] + w[e] + 1 < w[c]
  <2>1. c.n \in Slots("item") /\ d.n \in Slots("item")
    BY <1>5, <1>12
  <2>2. ri[d.n] < ri[c.n] /\ ri[d.n] \in Nat /\ ri[c.n] \in Nat
    BY <1>3, <1>12, <2>1
  <2>3. w[d] + (b + 3) <= w[c]
    BY <1>7, <1>8, <1>12, <2>2
  <2>4. w[d] \in Nat /\ w[c] \in Nat /\ w[e] \in 1 .. b + 1
    BY <1>7, <1>9, <1>12
  <2> QED
    BY <1>4, <2>3, <2>4
<1>13. w \in [Calls -> Nat]
  BY <1>6, <1>9
<1> QED
  BY <1>9, <1>10, <1>11, <1>12, <1>13

(* The calls that an item's scan leaves to do: one not on an item, one on  *)
(* the item it points to, both or none.                                    *)
LEMMA FollowedFew ==
  ASSUME NEW a, NEW b
  PROVE  /\ Followed(<<>>) = <<>> /\ Followed(<<a>>) \in {<<>>, <<a>>}
         /\ Followed(<<a, b>>) \in {<<>>, <<a>>, <<b>>, Append(<<a>>, b)}
<1>1. ASSUME NEW s, NEW N \in Nat, Len(s) = N
      PROVE  \E g : /\ Followed(s) = g[N] /\ g[0] = <<>>
                    /\ \A n \in 0 .. N - 1 : g[n + 1] = g[n] \/ g[n + 1] = Append(g[n], s[n + 1])
  <2>1. PICK g : g = (CHOOSE x : Filtered(x, Len(s), s))
    OBVIOUS
  <2>2. Filtered(g, N, s)
    BY <1>1, <2>1, FilteredAre
  <2>3. Followed(s) = g[N]
    BY <1>1, <2>1 DEF Followed, Filtered, WithCall
  <2>4. g[0] = <<>>
    BY <2>2 DEF Filtered
  <2>5. ASSUME NEW n \in 0 .. N - 1 PROVE g[n + 1] = g[n] \/ g[n + 1] = Append(g[n], s[n + 1])
    <3>1. n + 1 \in 0 .. N /\ n + 1 # 0 /\ (n + 1) - 1 = n
      OBVIOUS
    <3> QED
      BY <2>2, <3>1 DEF Filtered, WithCall
  <2> QED
    BY <2>3, <2>4, <2>5
<1>2. PICK e, s, t : e = <<>> /\ s = <<a>> /\ t = <<a, b>>
  OBVIOUS
<1>3. /\ Len(e) = 0 /\ Append(e, a) = s /\ Append(e, b) = <<b>>
      /\ Len(s) = 1 /\ s[1] = a /\ Len(t) = 2 /\ t[1] = a /\ t[2] = b
  BY <1>2
<1>4. Followed(e) = e
  BY <1>1, <1>2, <1>3
<1>5. Followed(s) = e \/ Followed(s) = s
  <2>1. PICK N \in Nat : N = 1 /\ Len(s) = N
    BY <1>3
  <2>2. PICK g : /\ Followed(s) = g[N] /\ g[0] = <<>>
                 /\ \A n \in 0 .. N - 1 : g[n + 1] = g[n] \/ g[n + 1] = Append(g[n], s[n + 1])
    BY <1>1, <2>1
  <2>3. g[1] = g[0] \/ g[1] = Append(g[0], s[1])
    BY <2>1, <2>2
  <2> QED
    BY <1>2, <1>3, <2>1, <2>2, <2>3
<1>6. Followed(t) = e \/ Followed(t) = s \/ Followed(t) = <<b>> \/ Followed(t) = Append(s, b)
  <2>1. PICK N \in Nat : N = 2 /\ Len(t) = N
    BY <1>3
  <2>2. PICK g : /\ Followed(t) = g[N] /\ g[0] = <<>>
                 /\ \A n \in 0 .. N - 1 : g[n + 1] = g[n] \/ g[n + 1] = Append(g[n], t[n + 1])
    BY <1>1, <2>1
  <2>3. /\ g[1] = g[0] \/ g[1] = Append(g[0], t[1])
        /\ g[2] = g[1] \/ g[2] = Append(g[1], t[2])
    BY <2>1, <2>2
  <2> QED
    BY <1>2, <1>3, <2>1, <2>2, <2>3
<1> QED
  BY <1>2, <1>4, <1>5, <1>6

LEMMA ScanItemHas ==
  ASSUME Typed, NEW i \in Slots("item")
  PROVE  \E a, b : /\ a.kind # "item" /\ b.kind = "item" /\ b.n = item[i].item
                   /\ ScanItem(i) \in {<<>>, <<a>>, <<a, b>>}
<1>1. PICK b : b = Call("item", item[i].item, FALSE)
  OBVIOUS
<1>2. PICK h, v, f, h2, v2 :
        /\ h = Call("hash", item[i].hash, FALSE) /\ v = Call("vector", item[i].vector, TRUE)
        /\ f = Call("frame", item[i].frame, FALSE) /\ h2 = Call("hash", item[i].hash, TRUE)
  OBVIOUS
<1>3. b.kind = "item" /\ b.n = item[i].item
  BY <1>1 DEF Call
<1>4. h.kind # "item" /\ v.kind # "item" /\ f.kind # "item" /\ h2.kind # "item"
  BY <1>2 DEF Call
<1>5. ScanItem(i) \in {<<>>, <<h, b>>, <<v>>, <<f, b>>, <<h2>>}
  BY <1>1, <1>2 DEF ScanItem
<1> QED
  BY <1>3, <1>4, <1>5

(* What takes the place of a call is lighter, unless the step marks a hash *)
(* table, a vector or a frame.                                             *)
LEMMA ScanLighter ==
  ASSUME Typed, Makes, NEW F, Plain(F), Ordered, NEW w, w = Weights, Scan,
         NEW c, c = Head(todo), NEW tail, tail = Tail(todo), StraightCall(c, F),
         Marked(c) \/ c.kind \in {"item", "done"}
  PROVE  Weigh(w, todo') < Weigh(w, todo)
<1>1. PICK calls, later, previous :
        /\ calls = IF Marked(c) THEN <<>> ELSE Followed(Scanned(c))
        /\ later = MarkLater(c, calls) /\ previous = AndPrevious(c)
  OBVIOUS
<1>2. todo' = calls \o later \o previous \o tail /\ todo # <<>>
  BY <1>1 DEF Scan
<1>3. c \in Calls /\ tail \in Seq(Calls) /\ todo = <<c>> \o tail
  <2>1. todo \in Seq(Calls)
    BY DEF Typed
  <2> QED
    BY <1>2, <2>1, TodoIs
<1>4. /\ w \in [Calls -> Nat]
      /\ \A s \in Seq(Calls) :
           /\ Weigh(w, s) \in Nat
           /\ \A x \in Calls : <<x>> \o s \in Seq(Calls) /\ Weigh(w, <<x>> \o s) = Weigh(w, s) + w[x]
  BY WeightsAre, WeighIs
<1>5. PICK W : W = Weigh(w, tail)
  OBVIOUS
<1>6. W \in Nat /\ Weigh(w, todo) = W + w[c] /\ w[c] \in Nat /\ w[c] > 0
  <2>1. w[c] > 0
    BY <1>3, WeightsAre
  <2> QED
    BY <1>3, <1>4, <1>5, <2>1
<1>7. CASE c.kind = "frame"
  <2>1. calls = <<>> /\ later = <<>>
    BY <1>1, <1>7 DEF MarkLater
  <2>2. PICK d : d = Call("frame", frame[c.n].previous, FALSE)
    OBVIOUS
  <2>3. previous \in {<<>>, <<d>>} /\ previous \in Seq(Calls)
    <3>1. previous = Followed(<<d>>)
      BY <1>1, <1>7, <2>2 DEF AndPrevious
    <3> QED
      BY <1>1, <1>3, <3>1, FollowedFew, AndPreviousIs
  <2>4. CASE previous = <<>>
    <3>1. todo' = tail
      BY <1>2, <1>3, <2>1, <2>4
    <3> QED
      BY <1>5, <1>6, <3>1
  <2>5. CASE previous = <<d>>
    <3>1. d \in Calls /\ d.kind = "frame" /\ d.n = frame[c.n].previous
      BY <2>2, <2>3, <2>5 DEF Call
    <3>2. w[d] < w[c] /\ w[d] \in Nat
      BY <1>3, <1>4, <1>7, <3>1, WeightsAre
    <3>3. todo' = <<d>> \o tail
      BY <1>2, <1>3, <2>1, <2>5, <3>1
    <3>4. Weigh(w, todo') = W + w[d]
      BY <1>3, <1>4, <1>5, <3>1, <3>3
    <3> QED
      BY <1>6, <3>2, <3>4
  <2> QED
    BY <2>3, <2>4, <2>5
<1>8. CASE c.kind # "frame"
  <2>1. previous = <<>>
    BY <1>1, <1>8 DEF AndPrevious
  <2>2. CASE calls = <<>>
    <3>1. later = <<>>
      BY <1>1, <2>2 DEF MarkLater
    <3>2. todo' = tail
      BY <1>2, <1>3, <2>1, <2>2, <3>1
    <3> QED
      BY <1>5, <1>6, <3>2
  <2>3. CASE calls # <<>>
    <3>1. ~Marked(c) /\ calls = Followed(Scanned(c)) /\ c.kind = "item"
      BY <1>1, <1>8, <2>3, FollowedFew DEF Scanned
    <3>2. PICK e : e = Call("done", c.n, FALSE)
      OBVIOUS
    <3>3. c.n \in Slots("item") /\ e.kind = "done" /\ later = <<e>> /\ later \in Seq(Calls)
      BY <1>1, <1>3, <2>3, <3>1, <3>2, CallsAre, MarkLaterIs DEF MarkLater, Call, Kinds
    <3>4. PICK a, b : a.kind # "item" /\ b.kind = "item" /\ b.n = item[c.n].item
                      /\ Scanned(c) \in {<<>>, <<a>>, <<a, b>>}
      BY <3>1, <3>3, ScanItemHas DEF Scanned
    <3>5. calls \in {<<a>>, <<b>>, Append(<<a>>, b)}
      BY <2>3, <3>1, <3>4, FollowedFew
    <3>6. calls \in Seq(Calls)
      <4>1. Sound(Scanned(c)) /\ \A x : Among(x, Scanned(c)) /\ x.n > Null => StraightCall(x, F)
        BY <3>1, <3>3, ScanItemIs DEF Scanned
      <4> QED
        BY <3>1, <4>1, FollowedIs
    <3>7. e \in Calls /\ w[e] = 1
      BY <3>2, <3>3 DEF Weights, Call
    <3>8. PICK t : t = <<e>> \o tail
      OBVIOUS
    <3>9. t \in Seq(Calls) /\ Weigh(w, t) = W + 1
      BY <1>3, <1>4, <1>5, <3>7, <3>8
    <3>10. CASE calls \in {<<a>>, <<b>>}
      <4>1. PICK x : x \in {a, b} /\ calls = <<x>>
        BY <3>10
      <4>2. x \in Calls
        BY <3>6, <4>1
      <4>3. todo' = <<x>> \o t
        BY <1>2, <1>3, <2>1, <3>3, <3>7, <3>8, <4>1, <4>2
      <4>4. Weigh(w, todo') = W + 1 + w[x] /\ w[x] \in Nat
        BY <1>4, <3>9, <4>2, <4>3
      <4>5. w[x] + 1 < w[c]
        <5>1. CASE x = a
          BY <1>3, <3>1, <3>4, <4>2, <5>1, WeightsAre
        <5>2. CASE x = b
          <6>1. w[b] + w[e] + 1 < w[c] /\ e.kind # "item"
            BY <1>3, <3>1, <3>3, <3>4, <3>7, <4>2, <5>2, WeightsAre
          <6> QED
            BY <1>4, <1>6, <3>7, <4>2, <5>2, <6>1
        <5> QED
          BY <4>1, <5>1, <5>2
      <4> QED
        BY <1>6, <4>4, <4>5
    <3>11. CASE calls = Append(<<a>>, b)
      <4>1. a \in Calls /\ b \in Calls
        BY <3>6, <3>11
      <4>2. todo' = <<a>> \o (<<b>> \o t)
        <5>1. calls = <<a>> \o <<b>>
          BY <3>11, <4>1
        <5>2. todo' = <<a>> \o <<b>> \o <<e>> \o <<>> \o tail
          BY <1>2, <2>1, <3>3, <5>1
        <5> QED
          BY <1>3, <3>7, <3>8, <4>1, <5>2
      <4>3. <<b>> \o t \in Seq(Calls) /\ Weigh(w, <<b>> \o t) = W + 1 + w[b]
        BY <1>4, <3>9, <4>1
      <4>4. Weigh(w, todo') = W + 1 + w[b] + w[a] /\ w[a] \in Nat /\ w[b] \in Nat
        BY <1>4, <4>1, <4>2, <4>3
      <4>5. w[b] + w[a] + 1 < w[c]
        BY <1>3, <3>1, <3>4, <4>1, WeightsAre
      <4> QED
        BY <1>6, <4>4, <4>5
    <3> QED
      BY <3>5, <3>10, <3>11
  <2> QED
    BY <2>2, <2>3
<1> QED
  BY <1>7, <1>8

LEMMA ScanFalls ==
  ASSUME GInv, Ordered, Scan
  PROVE  ToScan' < ToScan \/ (ToScan' = ToScan /\ Work' < Work)
<1>1. PICK F : Typed /\ Makes /\ Plain(F) /\ Straight(F)
  <2>1. PICK I \in SUBSET Slots("item"), H \in SUBSET Slots("hash"), V \in SUBSET Slots("vector"),
             F \in SUBSET Slots("frame"), fr \in [1 .. Len(native) -> Slots("frame")] : Safe(I, H, V, F, fr)
    BY DEF GInv, SafeSomehow
  <2>2. Plain(F) /\ Straight(F)
    BY <2>1, HeapPlain DEF Safe, Marking, Scan
  <2> QED
    BY <2>2, TypedIs DEF GInv
<1>2. PICK c, w, tail : c = Head(todo) /\ w = Weights /\ tail = Tail(todo)
  OBVIOUS
<1>3. c \in Calls /\ Object(c) \in Objects /\ todo # <<>> /\ StraightCall(c, F)
  <2>1. todo # <<>> /\ todo \in Seq(Calls)
    BY <1>1 DEF Scan, Typed
  <2>2. c \in Calls /\ 1 \in 1 .. Len(todo) /\ c = todo[1]
    BY <1>2, <2>1
  <2> QED
    BY <1>1, <2>1, <2>2, CallsAre DEF Straight
<1>4. PICK later : bits' = [bits EXCEPT ![Object(c)] = IF later = <<>> THEN @ \cup {"GC"} ELSE @]
                   /\ (c.kind # "item" => later = <<>>)
  BY <1>2 DEF Scan, MarkLater
<1>5. PICK x, S, T : /\ x = Object(c) /\ S = {o \in Objects : o[1] # "item" /\ "GC" \notin bits[o]}
                     /\ T = {o \in Objects : o[1] # "item" /\ "GC" \notin bits'[o]}
  OBVIOUS
<1>6. ToScan = Cardinality(S) /\ ToScan' = Cardinality(T)
  BY <1>5 DEF ToScan
<1>7. \A o \in Objects : bits'[o] = IF o = x /\ later = <<>> THEN bits[o] \cup {"GC"} ELSE bits[o]
  BY <1>1, <1>3, <1>4, <1>5 DEF Typed
<1>8. CASE Marked(c) \/ c.kind \in {"item", "done"}
  <2>1. x[1] = "item" \/ "GC" \in bits[x]
    BY <1>5, <1>8 DEF Marked, Object
  <2>2. S = T
    BY <1>5, <1>7, <2>1
  <2>3. NextItem' = NextItem /\ NextFrame' = NextFrame
    BY DEF Scan, NextItem, NextFrame
  <2>4. ItemHeight' = ItemHeight /\ FrameHeight' = FrameHeight
    BY <2>3 DEF ItemHeight, FrameHeight
  <2>5. Weights' = Weights
    BY <2>4 DEF Weights, Highest
  <2>6. Weigh(w, todo') < Weigh(w, todo)
    BY <1>1, <1>2, <1>3, <1>8, ScanLighter
  <2> QED
    BY <1>2, <1>6, <2>2, <2>5, <2>6 DEF Work
<1>9. CASE ~(Marked(c) \/ c.kind \in {"item", "done"})
  <2>1. later = <<>> /\ "GC" \notin bits[x] /\ x[1] # "item"
    BY <1>4, <1>5, <1>9 DEF Marked, Object
  <2>2. x \in S /\ T = S \ {x}
    BY <1>3, <1>5, <1>7, <2>1
  <2>3. IsFiniteSet(S)
    BY <1>5, ObjectsFinite, FS_Subset
  <2>4. Cardinality(T) = Cardinality(S) - 1 /\ Cardinality(S) \in Nat
    BY <2>2, <2>3, FS_RemoveElement, FS_CardinalityType
  <2> QED
    BY <1>6, <2>4
<1> QED
  BY <1>8, <1>9

(* Each step of a collection that does not end it marks a hash table, a    *)
(* vector or a frame, or marks none and leaves less work: two numbers, the *)
(* second less important, that cannot fall for ever (CollectionEnds).  It  *)
(* may follow any pointer, those that freed frames keep (mk_gc.c:322) too. *)
THEOREM ScanShortens ==
  HeldElsewhere => (Spec => /\ [](ToScan \in Nat /\ Work \in Nat)
                            /\ [][gc = "scan" => \/ gc' = "off" \/ ToScan' < ToScan
                                                 \/ ToScan' = ToScan /\ Work' < Work]_vars)
<1>1. GInv /\ Ordered /\ [Next]_vars => Ordered'
  BY StepOrdered
<1>2. GInv /\ Ordered => ToScan \in Nat /\ Work \in Nat
  <2> SUFFICES ASSUME GInv, Ordered PROVE ToScan \in Nat /\ Work \in Nat
    OBVIOUS
  <2>1. IsFiniteSet({o \in Objects : o[1] # "item" /\ "GC" \notin bits[o]})
    BY ObjectsFinite, FS_Subset
  <2>2. todo \in Seq(Calls) /\ Weights \in [Calls -> Nat]
    BY TypedIs, WeightsAre DEF GInv, Typed
  <2> QED
    BY <2>1, <2>2, FS_CardinalityType, WeighIs DEF ToScan, Work
<1>3. GInv /\ Ordered /\ [Next]_vars =>
        [gc = "scan" => gc' = "off" \/ ToScan' < ToScan \/ (ToScan' = ToScan /\ Work' < Work)]_vars
  <2> SUFFICES ASSUME GInv, Ordered, Next, gc = "scan", gc' # "off"
               PROVE  ToScan' < ToScan \/ (ToScan' = ToScan /\ Work' < Work)
    OBVIOUS
  <2>1. Scan
    BY EvaluatorMarksNothing DEF MarksNothing, StartCollection, InBody, Running, Sweep
  <2> QED
    BY <2>1, ScanFalls
<1> QED
  BY <1>1, <1>2, <1>3, SafeAlways, InitOrdered, PTL DEF Spec
=============================================================================
