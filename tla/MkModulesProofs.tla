-------------------------- MODULE MkModulesProofs --------------------------
(***************************************************************************)
(* Proofs about MkModules, for every set of modules, names and             *)
(* declarations and any number of usings: tables stay sorted, aliases stay *)
(* those of the right entries and show what the module has, and methods    *)
(* are not replaced.                                                       *)
(***************************************************************************)
EXTENDS MkModules, FiniteSetTheorems, TLAPS

-----------------------------------------------------------------------------
(* Tables.                                                                 *)
LEMMA NamesAre ==
  /\ \A k \in Names : k \in Int
  /\ Super \in Names /\ Owner \in Names /\ Super # Owner /\ None \notin Names
  /\ \A k \in MemberNames : k \in Names /\ k \notin ImportNames /\ k # Super /\ k # Owner
  /\ \A k \in ImportNames : k \in Names /\ k \notin MemberNames /\ k # Super /\ k # Owner
BY MkModulesAssumption DEF Names

LEMMA EntriesAre ==
  \A e \in Entries : e.key \in Names /\ e.key \in Int /\ e.value \in Contents /\ e.constraint \in Constraints
BY NamesAre DEF Entries

LEMMA ElementsAre ==
  ASSUME NEW S, NEW t \in Seq(S)
  PROVE  Len(t) \in Nat /\ DOMAIN t = 1 .. Len(t) /\ \A i \in 1 .. Len(t) : t[i] \in S
OBVIOUS

LEMMA IsSequence ==
  ASSUME NEW S, NEW n \in Nat, NEW t, t = [i \in 1 .. n |-> t[i]], \A i \in 1 .. n : t[i] \in S
  PROVE  t \in Seq(S) /\ Len(t) = n
<1>1. t \in [1 .. n -> S]
  OBVIOUS
<1> QED
  BY <1>1

LEMMA ConcatIs ==
  ASSUME NEW S, NEW s \in Seq(S), NEW t \in Seq(S)
  PROVE  /\ s \o t \in Seq(S) /\ Len(s \o t) = Len(s) + Len(t)
         /\ \A j \in 1 .. Len(s) + Len(t) : (s \o t)[j] = IF j <= Len(s) THEN s[j] ELSE t[j - Len(s)]
OBVIOUS

LEMMA InsertIs ==
  ASSUME NEW S, NEW t \in Seq(S), NEW i \in 1 .. Len(t) + 1, NEW e \in S
  PROVE  /\ InsertAt(t, i, e) \in Seq(S) /\ Len(InsertAt(t, i, e)) = Len(t) + 1
         /\ \A j \in 1 .. Len(t) + 1 :
              InsertAt(t, i, e)[j] = IF j < i THEN t[j] ELSE IF j = i THEN e ELSE t[j - 1]
<1> DEFINE a == SubSeq(t, 1, i - 1)
           b == SubSeq(t, i, Len(t))
<1>1. /\ a \in Seq(S) /\ Len(a) = i - 1 /\ \A j \in 1 .. i - 1 : a[j] = t[j]
      /\ b \in Seq(S) /\ Len(b) = Len(t) - i + 1 /\ \A j \in 1 .. Len(t) - i + 1 : b[j] = t[i + j - 1]
  OBVIOUS
<1>2. <<e>> \in Seq(S) /\ Len(<<e>>) = 1 /\ <<e>>[1] = e
  OBVIOUS
<1> HIDE DEF a, b
<1>3. /\ a \o <<e>> \in Seq(S) /\ Len(a \o <<e>>) = i
      /\ \A j \in 1 .. i : (a \o <<e>>)[j] = IF j < i THEN t[j] ELSE e
  BY <1>1, <1>2
<1>4. /\ (a \o <<e>>) \o b \in Seq(S) /\ Len((a \o <<e>>) \o b) = Len(t) + 1
      /\ \A j \in 1 .. Len(t) + 1 :
           ((a \o <<e>>) \o b)[j] = IF j <= i THEN (a \o <<e>>)[j] ELSE b[j - i]
  <2> DEFINE h == a \o <<e>>
  <2>1. h \in Seq(S) /\ Len(h) = i
    BY <1>3
  <2> HIDE DEF h
  <2>2. /\ h \o b \in Seq(S) /\ Len(h \o b) = Len(h) + Len(b)
        /\ \A j \in 1 .. Len(h) + Len(b) : (h \o b)[j] = IF j <= Len(h) THEN h[j] ELSE b[j - Len(h)]
    BY <2>1, <1>1, ConcatIs
  <2>3. Len(h) + Len(b) = Len(t) + 1
    BY <2>1, <1>1
  <2>4. /\ h \o b \in Seq(S) /\ Len(h \o b) = Len(t) + 1
        /\ \A j \in 1 .. Len(t) + 1 : (h \o b)[j] = IF j <= i THEN h[j] ELSE b[j - i]
    BY <2>1, <2>2, <2>3
  <2> QED
    BY <2>4 DEF h
<1>5. \A j \in 1 .. Len(t) + 1 : j > i => b[j - i] = t[j - 1]
  BY <1>1
<1>6. InsertAt(t, i, e) = (a \o <<e>>) \o b
  BY DEF InsertAt, a, b
<1> QED
  BY <1>1, <1>3, <1>4, <1>5, <1>6

(* The place of a key: all keys before it are smaller, none from it on.    *)
LEMMA PlaceIs ==
  ASSUME NEW t, IsTable(t), NEW k \in Names
  PROVE  /\ Place(t, k) \in 1 .. Len(t) + 1
         /\ \A i \in 1 .. Len(t) : t[i].key < k <=> i < Place(t, k)
<1> DEFINE s == {i \in DOMAIN t : t[i].key < k}
           c == Cardinality(s)
<1>1. t \in Seq(Entries) /\ Len(t) \in Nat /\ DOMAIN t = 1 .. Len(t)
  BY DEF IsTable
<1>2. \A i \in 1 .. Len(t) : t[i].key \in Int
  BY <1>1, ElementsAre, EntriesAre
<1>3. /\ IsFiniteSet(1 .. Len(t)) /\ Cardinality(1 .. Len(t)) = Len(t)
  BY <1>1, FS_Interval
<1>4. s \in SUBSET (1 .. Len(t))
  BY <1>1
<1>5. IsFiniteSet(s) /\ c \in Nat /\ c <= Len(t)
  BY <1>3, <1>4, FS_Subset, FS_CardinalityType
<1>6. ASSUME NEW j \in s PROVE j <= c
  <2>1. j \in 1 .. Len(t) /\ t[j].key < k
    BY <1>1
  <2>2. \A i \in 1 .. j : i \in s
    BY <2>1, <1>1, <1>2, NamesAre DEF IsTable, Ascending
  <2>3. (1 .. j) \in SUBSET s
    BY <2>2
  <2>4. Cardinality(1 .. j) = j
    BY <2>1, <1>1, FS_Interval
  <2> QED
    BY <2>3, <2>4, <1>5, FS_Subset
<1>7. IsFiniteSet(1 .. c) /\ Cardinality(1 .. c) = c
  BY <1>5, FS_Interval
<1>8. s \in SUBSET (1 .. c)
  BY <1>4, <1>5, <1>6, <1>1
<1>9. s = 1 .. c
  BY <1>7, <1>8, FS_Subset
<1>10. Place(t, k) = c + 1
  BY DEF Place
<1> HIDE DEF c
<1>11. \A i \in 1 .. Len(t) : t[i].key < k <=> i \in s
  BY <1>1
<1> QED
  BY <1>1, <1>5, <1>9, <1>10, <1>11

(* A key is in a table once.                                               *)
LEMMA KeysOnce ==
  ASSUME NEW t, IsTable(t)
  PROVE  /\ t \in Seq(Entries) /\ Len(t) \in Nat /\ DOMAIN t = 1 .. Len(t)
         /\ \A i \in DOMAIN t : t[i] \in Entries /\ t[i].key \in Int
         /\ \A i, j \in DOMAIN t : t[i].key = t[j].key => i = j
         /\ \A k : Has(t, k) => At(t, k) \in DOMAIN t /\ t[At(t, k)].key = k
         /\ \A i \in DOMAIN t : Has(t, t[i].key) /\ At(t, t[i].key) = i
<1>1. t \in Seq(Entries) /\ Len(t) \in Nat /\ DOMAIN t = 1 .. Len(t)
  BY DEF IsTable
<1>2. \A i \in DOMAIN t : t[i] \in Entries /\ t[i].key \in Int
  BY <1>1, ElementsAre, EntriesAre
<1>3. \A i, j \in DOMAIN t : t[i].key = t[j].key => i = j
  <2> SUFFICES ASSUME NEW i \in DOMAIN t, NEW j \in DOMAIN t, t[i].key = t[j].key
               PROVE  i = j
    OBVIOUS
  <2>1. ~(i < j) /\ ~(j < i)
    BY <1>1, <1>2 DEF IsTable, Ascending
  <2> QED
    BY <2>1, <1>1
<1>4. \A k : Has(t, k) => At(t, k) \in DOMAIN t /\ t[At(t, k)].key = k
  BY DEF Has, At
<1>5. \A i \in DOMAIN t : Has(t, t[i].key) /\ At(t, t[i].key) = i
  BY <1>3, <1>4 DEF Has
<1> QED
  BY <1>1, <1>2, <1>3, <1>4, <1>5

(* mk_insert_item_hashtable: k is there with its value, every other entry  *)
(* is there as before, and nothing else.                                   *)
LEMMA InsertedIs ==
  ASSUME NEW t, IsTable(t), NEW k \in Names, NEW v \in Contents, NEW c \in Constraints
  PROVE  LET u == Inserted(t, k, v, c) IN
         /\ IsTable(u)
         /\ \E i \in DOMAIN u : u[i].key = k
         /\ \A i \in DOMAIN u : u[i].key = k => u[i].value = v
         /\ \A i \in DOMAIN u : u[i].key # k => \E j \in DOMAIN t : u[i] = t[j]
         /\ \A j \in DOMAIN t : t[j].key # k => \E i \in DOMAIN u : u[i] = t[j]
         /\ Has(t, k) => /\ DOMAIN u = DOMAIN t
                         /\ \A i \in DOMAIN t :
                              /\ u[i].key = t[i].key /\ u[i].constraint = t[i].constraint
                              /\ t[i].key # k => u[i] = t[i]
<1> DEFINE u == Inserted(t, k, v, c)
<1>1. /\ t \in Seq(Entries) /\ Len(t) \in Nat /\ DOMAIN t = 1 .. Len(t)
      /\ \A i \in DOMAIN t : t[i] \in Entries /\ t[i].key \in Int
      /\ \A i, j \in DOMAIN t : t[i].key = t[j].key => i = j
  BY KeysOnce
<1>2. CASE Has(t, k)
  <2> DEFINE a == At(t, k)
  <2>1. a \in DOMAIN t /\ t[a].key = k /\ \A i \in DOMAIN t : t[i].key = k => i = a
    BY <1>1, <1>2, KeysOnce
  <2>2. u = [t EXCEPT ![a].value = v]
    BY <1>2 DEF Inserted
  <2> HIDE DEF a, u
  <2>3. DOMAIN u = DOMAIN t /\ Len(u) = Len(t)
    BY <2>2, <1>1
  <2>4. u[a] = [t[a] EXCEPT !.value = v] /\ t[a] \in Entries
    BY <2>1, <2>2, <1>1
  <2>5. u[a].key = k /\ u[a].value = v /\ u[a].constraint = t[a].constraint /\ u[a] \in Entries
    BY <2>1, <2>4 DEF Entries
  <2>6. \A i \in DOMAIN t : i # a => u[i] = t[i]
    BY <2>2, <1>1
  <2>7. \A i \in DOMAIN t : u[i] \in Entries /\ u[i].key = t[i].key /\ u[i].constraint = t[i].constraint
    BY <2>1, <2>5, <2>6, <1>1
  <2>8. u \in Seq(Entries)
    <3>1. u = [i \in 1 .. Len(t) |-> u[i]]
      BY <2>2, <1>1
    <3> QED
      BY <3>1, <2>7, <1>1, IsSequence
  <2>9. Ascending(u)
    BY <2>3, <2>7 DEF Ascending, IsTable
  <2>10. \A i \in DOMAIN t : t[i].key # k => u[i] = t[i]
    BY <2>1, <2>6
  <2>11. \A i \in DOMAIN u : u[i].key = k => u[i].value = v
    BY <2>1, <2>3, <2>5, <2>7
  <2> QED
    BY <2>1, <2>3, <2>5, <2>7, <2>8, <2>9, <2>10, <2>11 DEF IsTable, u
<1>3. CASE ~Has(t, k)
  <2> DEFINE p == Place(t, k)
             d == IF p \in DOMAIN t THEN t[p].constraint ELSE c
             e == Entry(k, v, d)
  <2>1. p \in 1 .. Len(t) + 1 /\ \A i \in 1 .. Len(t) : t[i].key < k <=> i < p
    BY PlaceIs
  <2>2. \A i \in DOMAIN t : t[i].key # k
    BY <1>3 DEF Has
  <2>3. u = InsertAt(t, p, e)
    BY <1>3 DEF Inserted
  <2> HIDE DEF p, u
  <2>4. d \in Constraints
    BY <1>1 DEF Entries
  <2> HIDE DEF d
  <2>5. e \in Entries /\ e.key = k /\ e.value = v
    BY <2>4 DEF Entry, Entries
  <2> HIDE DEF e
  <2>6. /\ u \in Seq(Entries) /\ Len(u) = Len(t) + 1 /\ DOMAIN u = 1 .. Len(t) + 1
        /\ \A j \in 1 .. Len(t) + 1 : u[j] = IF j < p THEN t[j] ELSE IF j = p THEN e ELSE t[j - 1]
    <3>1. /\ InsertAt(t, p, e) \in Seq(Entries) /\ Len(InsertAt(t, p, e)) = Len(t) + 1
          /\ \A j \in 1 .. Len(t) + 1 :
               InsertAt(t, p, e)[j] = IF j < p THEN t[j] ELSE IF j = p THEN e ELSE t[j - 1]
      BY <2>1, <2>5, <1>1, InsertIs
    <3> QED
      BY <3>1, <2>3, ElementsAre
  <2>7. k \in Int /\ p \in Int
    BY NamesAre, <2>1, <1>1
  <2>8. \A j \in 1 .. Len(t) + 1 : /\ j < p => j \in DOMAIN t /\ u[j] = t[j]
                                   /\ j > p => j - 1 \in DOMAIN t /\ u[j] = t[j - 1]
                                   /\ j = p => u[j] = e
    BY <2>1, <2>6, <2>7, <1>1
  <2>9. \A i \in DOMAIN t : (i < p => t[i].key < k) /\ (i >= p => t[i].key > k)
    BY <2>1, <2>2, <2>7, <1>1
  <2>10. Ascending(u)
    <3> SUFFICES ASSUME NEW i \in 1 .. Len(t) + 1, NEW j \in 1 .. Len(t) + 1, i < j
                 PROVE  u[i].key < u[j].key
      BY <2>6 DEF Ascending
    <3>1. \A x, y \in DOMAIN t : x < y => t[x].key < t[y].key
      BY DEF IsTable, Ascending
    <3>2. CASE j < p
      BY <3>1, <3>2, <2>7, <2>8, <1>1
    <3>3. CASE j = p
      BY <3>3, <2>5, <2>7, <2>8, <2>9, <1>1
    <3>4. CASE j > p /\ i < p
      <4>1. u[i] = t[i] /\ u[j] = t[j - 1] /\ t[i].key < k /\ k < t[j - 1].key
        BY <3>4, <2>7, <2>8, <2>9, <1>1
      <4>2. i \in DOMAIN t /\ j - 1 \in DOMAIN t
        BY <3>4, <2>7, <2>8, <1>1
      <4> QED
        BY <4>1, <4>2, <2>7, <1>1
    <3>5. CASE i = p
      BY <3>5, <2>5, <2>7, <2>8, <2>9, <1>1
    <3>6. CASE i > p
      <4>1. i - 1 \in DOMAIN t /\ j - 1 \in DOMAIN t /\ u[i] = t[i - 1] /\ u[j] = t[j - 1]
        BY <3>6, <2>7, <2>8
      <4>2. i - 1 < j - 1
        BY <1>1
      <4> QED
        BY <4>1, <4>2, <3>1
    <3> QED
      BY <3>2, <3>3, <3>4, <3>5, <3>6, <2>7
  <2>11. \E i \in DOMAIN u : u[i].key = k
    BY <2>1, <2>5, <2>6, <2>8
  <2>12. \A i \in DOMAIN u : u[i].key = k => u[i].value = v
    BY <2>2, <2>5, <2>6, <2>7, <2>8
  <2>13. \A i \in DOMAIN u : u[i].key # k => \E j \in DOMAIN t : u[i] = t[j]
    BY <2>5, <2>6, <2>7, <2>8
  <2>14. ASSUME NEW j \in DOMAIN t PROVE \E i \in DOMAIN u : u[i] = t[j]
    <3>1. CASE j < p
      BY <3>1, <2>6, <2>8, <1>1
    <3>2. CASE j >= p
      <4>1. j + 1 \in 1 .. Len(t) + 1 /\ j + 1 > p /\ (j + 1) - 1 = j
        BY <3>2, <2>7, <1>1
      <4> QED
        BY <4>1, <2>6, <2>8
    <3> QED
      BY <3>1, <3>2, <2>7, <1>1
  <2> QED
    BY <1>3, <2>6, <2>10, <2>11, <2>12, <2>13, <2>14 DEF IsTable, u
<1> QED
  BY <1>2, <1>3

(* With mk_set_extend_value_hashtable: k has its value and its constraint. *)
LEMMA StoredIs ==
  ASSUME NEW t, IsTable(t), NEW k \in Names, NEW v \in Contents, NEW c \in Constraints
  PROVE  LET u == Stored(t, k, v, c) IN
         /\ IsTable(u)
         /\ \A i \in DOMAIN u : u[i] = Entry(k, v, c) \/ (u[i].key # k /\ \E j \in DOMAIN t : u[i] = t[j])
         /\ \A j \in DOMAIN t : t[j].key # k => \E i \in DOMAIN u : u[i] = t[j]
<1> DEFINE w == Inserted(t, k, v, c)
           u == Stored(t, k, v, c)
           a == At(w, k)
<1>1. /\ IsTable(w)
      /\ \E i \in DOMAIN w : w[i].key = k
      /\ \A i \in DOMAIN w : w[i].key = k => w[i].value = v
      /\ \A i \in DOMAIN w : w[i].key # k => \E j \in DOMAIN t : w[i] = t[j]
      /\ \A j \in DOMAIN t : t[j].key # k => \E i \in DOMAIN w : w[i] = t[j]
  BY InsertedIs
<1>2. u = [w EXCEPT ![a].constraint = c]
  BY DEF Stored
<1> HIDE DEF w, u
<1>3. /\ w \in Seq(Entries) /\ Len(w) \in Nat /\ DOMAIN w = 1 .. Len(w)
      /\ \A i \in DOMAIN w : w[i] \in Entries /\ w[i].key \in Int
      /\ \A i, j \in DOMAIN w : w[i].key = w[j].key => i = j
  BY <1>1, KeysOnce
<1>4. a \in DOMAIN w /\ w[a].key = k /\ w[a].value = v
  BY <1>1 DEF Has, At
<1> HIDE DEF a
<1>5. DOMAIN u = DOMAIN w /\ Len(u) = Len(w) /\ u[a] = [w[a] EXCEPT !.constraint = c]
  BY <1>2, <1>3, <1>4
<1>6. u[a] = Entry(k, v, c) /\ u[a] \in Entries /\ u[a].key = k
  BY <1>3, <1>4, <1>5 DEF Entry, Entries
<1>7. \A i \in DOMAIN w : i # a => u[i] = w[i] /\ w[i].key # k
  BY <1>2, <1>3, <1>4
<1>8. \A i \in DOMAIN w : u[i] \in Entries /\ u[i].key = w[i].key
  BY <1>3, <1>4, <1>6, <1>7
<1>9. u \in Seq(Entries)
  <2>1. u = [i \in 1 .. Len(w) |-> u[i]]
    BY <1>2, <1>3
  <2> QED
    BY <2>1, <1>8, <1>3, IsSequence
<1>10. Ascending(u)
  BY <1>1, <1>5, <1>8 DEF Ascending, IsTable
<1>11. \A i \in DOMAIN u : u[i] = Entry(k, v, c) \/ (u[i].key # k /\ \E j \in DOMAIN t : u[i] = t[j])
  BY <1>1, <1>5, <1>6, <1>7
<1>12. \A j \in DOMAIN t : t[j].key # k => \E i \in DOMAIN u : u[i] = t[j]
  BY <1>1, <1>4, <1>5, <1>7
<1> QED
  BY <1>9, <1>10, <1>11, <1>12 DEF IsTable, u

-----------------------------------------------------------------------------
(* Types, and how far the construction of the object has come.  A module's *)
(* instance has an entry at least ("owner") and no aliases.                *)
ModuleTable(t) ==
  /\ IsTable(t) /\ Len(t) >= 1
  /\ \A i \in DOMAIN t : t[i].value.kind # "alias" /\ t[i].key \in MemberNames \cup {Owner}

Progress ==
  /\ \A m \in DOMAIN inner : ModuleTable(inner[m])
  /\ \A i \in 1 .. Len(usings) : usings[i] \in DOMAIN members
  /\ phase # "failed" => DOMAIN inner = done \cap ImportNames
  /\ phase \in {"using", "run"} => done = DOMAIN members
  /\ phase = "using" => /\ next[1] \in 1 .. Len(usings) + 1
                        /\ next[1] <= Len(usings) => next[2] \in 1 .. Len(inner[usings[next[1]]])
  /\ phase # "run" => assigned = {}

TInv == TypeOK /\ Progress

Final(t) ==
  \A i \in DOMAIN t : t[i].value.kind \in {"method", "module", "object"} => t[i].constraint.final

LEMMA ConstraintsAre ==
  /\ FinalOnly \in Constraints /\ FinalOnly.final
  /\ \A d \in Declarations : ConstraintOf(d) \in Constraints /\ AccessOnly(d) \in Constraints
BY MkModulesAssumption DEF FinalOnly, ConstraintOf, AccessOnly, Constraints, Accesses

LEMMA FirstValueIs ==
  ASSUME NEW d \in Declarations, NEW v \in FirstValue(d)
  PROVE  /\ v \in Contents /\ v.kind \notin {"alias", "module", "object"}
         /\ v.kind = "method" => ConstraintOf(d).final
<1>1. CASE d.init = "none"
  BY <1>1 DEF FirstValue, Contents, Null
<1>2. CASE d.init = "method"
  <2>1. v = Method
    BY <1>2 DEF FirstValue
  <2>2. ConstraintOf(d).final = TRUE
    BY <1>2, Zenon DEF ConstraintOf
  <2> QED
    BY <2>1, <2>2 DEF Contents, Method
<1>3. CASE d.init \notin {"none", "method"}
  <2>1. PICK w \in Values : v = Item(w)
    BY <1>3 DEF FirstValue
  <2> QED
    BY <2>1 DEF Contents, Item
<1> QED
  BY <1>1, <1>2, <1>3

LEMMA ModuleTablesAre ==
  ASSUME NEW n \in DOMAIN Modules, NEW t \in ModuleTables(Modules[n])
  PROVE  ModuleTable(t) /\ Final(t)
<1> DEFINE m == Modules[n]
           l == Cardinality(DOMAIN m) + 1
           es == {Entry(Owner, Object, FinalOnly)} \cup
                   UNION {{Entry(k, v, ConstraintOf(m[k])) : v \in FirstValue(m[k])} : k \in DOMAIN m}
           Good(e) == /\ e \in Entries /\ e.value.kind # "alias" /\ e.key \in MemberNames \cup {Owner}
                      /\ e.value.kind \in {"method", "module", "object"} => e.constraint.final
<1>1. t \in [1 .. l -> es] /\ Ascending(t)
  BY DEF ModuleTables
<1>2. /\ DOMAIN m \subseteq MemberNames /\ IsFiniteSet(DOMAIN m)
      /\ \A k \in DOMAIN m : m[k] \in Declarations
  BY MkModulesAssumption
<1>3. l \in Nat /\ l >= 1
  BY <1>2, FS_CardinalityType
<1>4. ASSUME NEW e \in es PROVE Good(e)
  <2>1. CASE e = Entry(Owner, Object, FinalOnly)
    <3>1. e \in Entries
      BY <2>1, NamesAre, ConstraintsAre DEF Entry, Entries, Contents
    <3> QED
      BY <2>1, <3>1, ConstraintsAre DEF Entry, Object
  <2>2. CASE \E k \in DOMAIN m : \E v \in FirstValue(m[k]) : e = Entry(k, v, ConstraintOf(m[k]))
    <3> PICK k \in DOMAIN m : \E v \in FirstValue(m[k]) : e = Entry(k, v, ConstraintOf(m[k]))
      BY <2>2
    <3>1. PICK v \in FirstValue(m[k]) : e = Entry(k, v, ConstraintOf(m[k]))
      OBVIOUS
    <3>2. /\ k \in MemberNames /\ k \in Names /\ m[k] \in Declarations
          /\ ConstraintOf(m[k]) \in Constraints
      BY <1>2, NamesAre, ConstraintsAre
    <3>3. /\ v \in Contents /\ v.kind \notin {"alias", "module", "object"}
          /\ v.kind = "method" => ConstraintOf(m[k]).final
      BY <3>2, FirstValueIs
    <3>4. e.key = k /\ e.value = v /\ e.constraint = ConstraintOf(m[k])
      BY <3>1 DEF Entry
    <3>5. e \in Entries
      BY <3>1, <3>2, <3>3 DEF Entry, Entries
    <3> QED
      BY <3>2, <3>3, <3>4, <3>5
  <2> QED
    BY <2>1, <2>2
<1> HIDE DEF l, es, m
<1>5. /\ t \in Seq(Entries) /\ Len(t) = l /\ DOMAIN t = 1 .. l
      /\ \A i \in DOMAIN t : Good(t[i])
  <2>1. t = [i \in 1 .. l |-> t[i]] /\ \A i \in 1 .. l : t[i] \in es
    BY <1>1
  <2>2. \A i \in 1 .. l : t[i] \in Entries
    BY <2>1, <1>4
  <2>3. t \in Seq(Entries) /\ Len(t) = l
    BY <2>1, <2>2, <1>3, IsSequence
  <2> QED
    BY <2>1, <2>3, <1>4, <1>1
<1> QED
  BY <1>1, <1>3, <1>5 DEF ModuleTable, IsTable, Final

(* An object's module that is used is there.                               *)
LEMMA UsedAreThere ==
  ASSUME TInv, phase \in {"using", "run"}
         \/ (phase = "members" /\ DOMAIN members = done)
  PROVE  \A i \in 1 .. Len(usings) : usings[i] \in DOMAIN inner /\ ModuleTable(inner[usings[i]])
BY ElementsAre DEF TInv, TypeOK, Progress

LEMMA TypesAtStart == Init => TInv
<1> SUFFICES ASSUME Init PROVE TInv
  OBVIOUS
<1>1. IsTable(<< >>)
  BY DEF IsTable, Ascending
<1> QED
  BY <1>1 DEF Init, TInv, TypeOK, Progress

LEMMA AssignIs ==
  ASSUME TInv, Assign
  PROVE  \E x \in Objects, k \in MemberNames \cup ImportNames, v \in Values :
           LET t == Inserted(TableOf(x), k, Item(v), FinalOnly) IN
           /\ phase = "run" /\ Has(TableOf(x), k) /\ ~EntryOf(x, k).constraint.final
           /\ IsTable(TableOf(x)) /\ k \in Names /\ Item(v) \in Contents /\ FinalOnly \in Constraints
           /\ IF x = None
              THEN own' = t /\ assigned' = assigned \cup {k} /\ UNCHANGED inner
              ELSE /\ x \in DOMAIN inner
                   /\ inner' = [inner EXCEPT ![x] = t] /\ UNCHANGED <<own, assigned>>
           /\ UNCHANGED <<phase, members, usings, done, next>>
<1>1. PICK x \in Objects, k \in MemberNames \cup ImportNames, v \in Values :
        \E y \in FindReference(x, k) :
         LET t == Inserted(TableOf(y), k, Item(v), FinalOnly) IN
         /\ ~EntryOf(y, k).constraint.final
         /\ IF y = None
            THEN own' = t /\ assigned' = assigned \cup {k} /\ UNCHANGED inner
            ELSE inner' = [inner EXCEPT ![y] = t] /\ UNCHANGED <<own, assigned>>
  BY DEF Assign
<1>2. PICK y \in FindReference(x, k) :
         LET t == Inserted(TableOf(y), k, Item(v), FinalOnly) IN
         /\ ~EntryOf(y, k).constraint.final
         /\ IF y = None
            THEN own' = t /\ assigned' = assigned \cup {k} /\ UNCHANGED inner
            ELSE inner' = [inner EXCEPT ![y] = t] /\ UNCHANGED <<own, assigned>>
  BY <1>1
<1>3. y \in Objects /\ Has(TableOf(y), k)
  BY DEF FindReference, Objects, TableOf
<1>4. IsTable(TableOf(y)) /\ (y # None => y \in DOMAIN inner)
  BY <1>3 DEF TInv, TypeOK, TableOf, Objects
<1>5. k \in Names /\ Item(v) \in Contents /\ FinalOnly \in Constraints
  BY NamesAre, ConstraintsAre DEF Contents
<1>6. phase = "run" /\ UNCHANGED <<phase, members, usings, done, next>>
  BY DEF Assign
<1> QED
  BY <1>2, <1>3, <1>4, <1>5, <1>6

(* An assignment to a module's instance changes no keys.                   *)
LEMMA AssignedIs ==
  ASSUME NEW t, ModuleTable(t), NEW k \in Names, NEW v \in Values, Has(t, k)
  PROVE  LET u == Inserted(t, k, Item(v), FinalOnly) IN
         /\ ModuleTable(u) /\ Len(u) = Len(t) /\ DOMAIN u = DOMAIN t
         /\ \A i \in DOMAIN t : u[i].key = t[i].key
<1> DEFINE u == Inserted(t, k, Item(v), FinalOnly)
<1>1. Item(v) \in Contents /\ Item(v).kind # "alias" /\ FinalOnly \in Constraints
  BY ConstraintsAre DEF Contents, Item
<1>2. /\ IsTable(u) /\ DOMAIN u = DOMAIN t
      /\ \A i \in DOMAIN u : u[i].key = k => u[i].value = Item(v)
      /\ \A i \in DOMAIN t : u[i].key = t[i].key /\ (t[i].key # k => u[i] = t[i])
  BY <1>1, InsertedIs DEF ModuleTable
<1> HIDE DEF u
<1>3. Len(u) = Len(t)
  BY <1>2, KeysOnce DEF ModuleTable
<1>4. \A i \in DOMAIN u : u[i].value.kind # "alias" /\ u[i].key \in MemberNames \cup {Owner}
  BY <1>1, <1>2 DEF ModuleTable
<1> QED
  BY <1>2, <1>3, <1>4 DEF ModuleTable, u

Declared(k) == IF k \in MemberNames THEN Declarations ELSE [module : DOMAIN Modules]

LEMMA TypesKeptByClass == TInv /\ (Member \/ Import \/ Using \/ New) => TInv'
<1> SUFFICES ASSUME TInv, Member \/ Import \/ Using \/ New PROVE TInv'
  OBVIOUS
<1> USE DEF TInv
<1>1. CASE Member \/ Import
  <2>1. PICK k \in MemberNames \cup ImportNames, d \in Declarations \cup [module : DOMAIN Modules] :
          members' = Registered(k, d) /\ d \in Declared(k)
    <3>1. CASE Member
      BY <3>1 DEF Member, Declared
    <3>2. CASE Import
      <4>1. PICK k \in ImportNames, m \in DOMAIN Modules : members' = Registered(k, [module |-> m])
        BY <3>2 DEF Import
      <4>2. [module |-> m] \in Declared(k)
        BY NamesAre DEF Declared
      <4> QED
        BY <4>1, <4>2
    <3> QED
      BY <1>1, <3>1, <3>2
  <2>2. phase = "class" /\ UNCHANGED <<phase, usings, own, inner, done, next, assigned>>
    BY <1>1 DEF Member, Import, Builds
  <2>3. /\ DOMAIN members' = DOMAIN members \cup {k}
        /\ \A j \in DOMAIN members' : members'[j] \in Declared(j)
    <3>1. \A j \in DOMAIN members : members[j] \in Declared(j)
      BY DEF TypeOK, Declared
    <3>2. /\ DOMAIN members' = DOMAIN members \cup {k}
          /\ \A j \in DOMAIN members' : members'[j] = IF j \in DOMAIN members THEN members[j] ELSE d
      BY <2>1 DEF Registered
    <3>3. \A j \in DOMAIN members' : members'[j] \in Declared(j)
      BY <2>1, <3>1, <3>2
    <3> QED
      BY <3>2, <3>3
  <2>4. TypeOK'
    BY <2>2, <2>3 DEF TypeOK, Declared
  <2>5. Progress'
    BY <2>2, <2>3 DEF Progress
  <2> QED
    BY <2>4, <2>5
<1>2. CASE Using
  <2>1. PICK k \in ImportNames \cap DOMAIN members : usings' = Append(usings, k)
    BY <1>2 DEF Using
  <2>2. phase = "class" /\ UNCHANGED <<phase, members, own, inner, done, next, assigned>>
    BY <1>2 DEF Using, Builds
  <2>3. usings \in Seq(ImportNames)
    BY DEF TypeOK
  <2>4. /\ usings' \in Seq(ImportNames) /\ Len(usings') = Len(usings) + 1
        /\ \A i \in 1 .. Len(usings) + 1 : usings'[i] = IF i = Len(usings) + 1 THEN k ELSE usings[i]
    BY <2>1, <2>3
  <2>5. \A i \in 1 .. Len(usings') : usings'[i] \in DOMAIN members
    BY <2>1, <2>3, <2>4 DEF Progress
  <2>6. TypeOK'
    BY <2>2, <2>4 DEF TypeOK
  <2>7. Progress'
    BY <2>2, <2>5 DEF Progress
  <2> QED
    BY <2>6, <2>7
<1>3. CASE New
  <2>1. PICK left \in Left : own' = <<Entry(Super, Null, left)>>
    BY <1>3 DEF New
  <2>2. /\ phase = "class" /\ phase' = "members"
        /\ UNCHANGED <<members, usings, inner, done, next, assigned>>
    BY <1>3 DEF New
  <2>3. Entry(Super, Null, left) \in Entries
    BY MkModulesAssumption, NamesAre DEF Entry, Entries, Contents
  <2>4. IsTable(own')
    BY <2>1, <2>3 DEF IsTable, Ascending
  <2>5. TypeOK'
    BY <2>2, <2>4 DEF TypeOK
  <2>6. Progress'
    BY <2>2 DEF Progress
  <2> QED
    BY <2>5, <2>6
<1> QED
  BY <1>1, <1>2, <1>3

(* An initial value that raises leaves the tables as they are.             *)
LEMMA MemberIs ==
  ASSUME TInv, AppendVariable
  PROVE  /\ phase = "members" /\ UNCHANGED <<members, usings, inner, next, assigned>>
         /\ \E k \in MemberNames :
              /\ k \in DOMAIN members /\ done' = done \cup {k}
              /\ \/ phase' = "failed" /\ UNCHANGED own
                 \/ \E v \in FirstValue(members[k]) :
                      /\ UNCHANGED phase
                      /\ own' = Stored(own, k, v, ConstraintOf(members[k]))
                      /\ members[k] \in Declarations /\ ConstraintOf(members[k]) \in Constraints
                      /\ v \in Contents /\ v.kind \notin {"alias", "module", "object"}
                      /\ v.kind = "method" => ConstraintOf(members[k]).final
<1>1. PICK k \in MemberNames :
       /\ NextMember(k)
       /\ IF members[k].init = "raises" THEN Raises
          ELSE /\ \E v \in FirstValue(members[k]) :
                    own' = Stored(own, k, v, ConstraintOf(members[k]))
               /\ UNCHANGED <<phase, inner>>
  BY DEF AppendVariable
<1>2. /\ phase = "members" /\ k \in DOMAIN members /\ done' = done \cup {k}
      /\ UNCHANGED <<members, usings, next, assigned>>
  BY <1>1 DEF NextMember, AppendVariable
<1>3. members[k] \in Declarations
  BY <1>2 DEF TInv, TypeOK
<1>4. CASE members[k].init = "raises"
  BY <1>1, <1>2, <1>4 DEF Raises
<1>5. CASE members[k].init # "raises"
  <2>1. PICK v \in FirstValue(members[k]) : own' = Stored(own, k, v, ConstraintOf(members[k]))
    BY <1>1, <1>5
  <2>2. UNCHANGED <<phase, inner>>
    BY <1>1, <1>5
  <2>3. /\ v \in Contents /\ v.kind \notin {"alias", "module", "object"}
        /\ v.kind = "method" => ConstraintOf(members[k]).final
    BY <1>3, FirstValueIs
  <2> QED
    BY <1>2, <1>3, <2>1, <2>2, <2>3, ConstraintsAre
<1> QED
  BY <1>4, <1>5

LEMMA ModuleIs ==
  ASSUME TInv, AppendModule
  PROVE  /\ phase = "members" /\ UNCHANGED <<members, usings, next, assigned>>
         /\ \E k \in ImportNames :
              /\ k \in DOMAIN members \ done /\ done' = done \cup {k}
              /\ \/ phase' = "failed" /\ UNCHANGED <<own, inner>>
                 \/ /\ UNCHANGED phase
                    /\ own' = Stored(own, k, Instance(k), FinalOnly)
                    /\ Instance(k) \in Contents /\ FinalOnly \in Constraints
                    /\ \E t : /\ ModuleTable(t) /\ Final(t)
                             /\ inner' = [j \in DOMAIN inner \cup {k} |-> IF j = k THEN t ELSE inner[j]]
<1>1. PICK k \in ImportNames :
       /\ NextMember(k)
       /\ LET m == Modules[members[k].module] IN
          IF \E j \in DOMAIN m : m[j].init = "raises" THEN Raises
          ELSE /\ \E t \in ModuleTables(m) :
                    inner' = [j \in DOMAIN inner \cup {k} |-> IF j = k THEN t ELSE inner[j]]
               /\ own' = Stored(own, k, Instance(k), FinalOnly)
               /\ UNCHANGED phase
  BY DEF AppendModule
<1>2. /\ phase = "members" /\ k \in DOMAIN members \ done /\ done' = done \cup {k}
      /\ UNCHANGED <<members, usings, next, assigned>>
  BY <1>1 DEF NextMember, AppendModule
<1>3. members[k].module \in DOMAIN Modules
  <2>1. members[k] \in [module : DOMAIN Modules]
    BY <1>2, NamesAre DEF TInv, TypeOK
  <2> QED
    BY <2>1
<1> DEFINE m == Modules[members[k].module]
<1>4. CASE \E j \in DOMAIN m : m[j].init = "raises"
  BY <1>1, <1>2, <1>4 DEF Raises
<1>5. CASE ~\E j \in DOMAIN m : m[j].init = "raises"
  <2>1. PICK t \in ModuleTables(m) :
          inner' = [j \in DOMAIN inner \cup {k} |-> IF j = k THEN t ELSE inner[j]]
    BY <1>1, <1>5
  <2>2. own' = Stored(own, k, Instance(k), FinalOnly) /\ UNCHANGED phase
    BY <1>1, <1>5
  <2>3. ModuleTable(t) /\ Final(t)
    BY <1>3, ModuleTablesAre
  <2>4. Instance(k) \in Contents
    BY DEF Contents
  <2> QED
    BY <1>2, <2>1, <2>2, <2>3, <2>4, ConstraintsAre
<1> QED
  BY <1>4, <1>5

LEMMA TypesKeptByMembers == TInv /\ (AppendVariable \/ AppendModule) => TInv'
<1> SUFFICES ASSUME TInv, AppendVariable \/ AppendModule PROVE TInv'
  OBVIOUS
<1>1. CASE AppendVariable
  <2>1. phase = "members" /\ UNCHANGED <<members, usings, inner, next, assigned>>
    BY <1>1, MemberIs
  <2>2. PICK k \in MemberNames :
              /\ k \in DOMAIN members /\ done' = done \cup {k}
              /\ \/ phase' = "failed" /\ UNCHANGED own
                 \/ \E v \in FirstValue(members[k]) :
                      /\ UNCHANGED phase
                      /\ own' = Stored(own, k, v, ConstraintOf(members[k]))
                      /\ ConstraintOf(members[k]) \in Constraints /\ v \in Contents
    BY <1>1, MemberIs
  <2>3. IsTable(own')
    BY <2>2, StoredIs, NamesAre DEF TInv, TypeOK
  <2>4. phase' \in {"failed", "members"} /\ k \notin ImportNames
    BY <2>1, <2>2, NamesAre
  <2>5. TypeOK'
    BY <2>1, <2>2, <2>3, <2>4 DEF TInv, TypeOK
  <2>6. Progress'
    BY <2>1, <2>2, <2>4 DEF TInv, Progress
  <2> QED
    BY <2>5, <2>6 DEF TInv
<1>2. CASE AppendModule
  <2>1. phase = "members" /\ UNCHANGED <<members, usings, next, assigned>>
    BY <1>2, ModuleIs
  <2>2. PICK k \in ImportNames :
              /\ k \in DOMAIN members /\ done' = done \cup {k}
              /\ \/ phase' = "failed" /\ UNCHANGED <<own, inner>>
                 \/ /\ UNCHANGED phase
                    /\ own' = Stored(own, k, Instance(k), FinalOnly)
                    /\ Instance(k) \in Contents /\ FinalOnly \in Constraints
                    /\ \E t : /\ ModuleTable(t)
                             /\ inner' = [j \in DOMAIN inner \cup {k} |-> IF j = k THEN t ELSE inner[j]]
    BY <1>2, ModuleIs
  <2>3. IsTable(own')
    BY <2>2, StoredIs, NamesAre DEF TInv, TypeOK
  <2>4. /\ phase' \in {"failed", "members"} /\ DOMAIN inner \subseteq DOMAIN inner'
        /\ DOMAIN inner' \subseteq DOMAIN inner \cup {k}
        /\ phase' # "failed" => k \in DOMAIN inner'
        /\ \A m \in DOMAIN inner' : ModuleTable(inner'[m])
    BY <2>1, <2>2 DEF TInv, Progress
  <2>5. \A m \in DOMAIN inner' : IsTable(inner'[m])
    BY <2>4 DEF ModuleTable
  <2>6. TypeOK'
    BY <2>1, <2>2, <2>3, <2>4, <2>5 DEF TInv, TypeOK
  <2>7. Progress'
    BY <2>1, <2>2, <2>4 DEF TInv, Progress
  <2> QED
    BY <2>6, <2>7 DEF TInv
<1> QED
  BY <1>1, <1>2

LEMMA UseIs ==
  ASSUME TInv, Use
  PROVE  /\ phase = "using" /\ UNCHANGED <<phase, members, usings, inner, done, assigned>>
         /\ next[1] \in 1 .. Len(usings) /\ usings[next[1]] \in DOMAIN inner
         /\ LET m == usings[next[1]]
                i == next[2]
                k == inner[m][i].key
            IN /\ i \in DOMAIN inner[m] /\ DOMAIN inner[m] = 1 .. Len(inner[m]) /\ k \in Names
               /\ next' = IF i < Len(inner[m]) THEN <<next[1], i + 1>> ELSE <<next[1] + 1, 1>>
               /\ \/ k = Owner /\ UNCHANGED own
                  \/ /\ k # Owner /\ Alias(m, i) \in Contents
                     /\ \E left \in Constraints : own' = Inserted(own, k, Alias(m, i), left)
<1> DEFINE m == usings[next[1]]
           i == next[2]
           k == inner[m][i].key
<1>1. /\ phase = "using" /\ next[1] <= Len(usings)
      /\ IF k = Owner THEN UNCHANGED own
           ELSE \E left \in Left : own' = Inserted(own, k, AddressOf(m, i), left)
      /\ next' = IF i < Len(inner[m]) THEN <<next[1], i + 1>> ELSE <<next[1] + 1, 1>>
      /\ UNCHANGED <<phase, members, usings, inner, done, assigned>>
  BY DEF Use
<1>2. next[1] \in 1 .. Len(usings)
  <2>1. next[1] \in 1 .. Len(usings) + 1 /\ Len(usings) \in Nat
    BY <1>1, ElementsAre DEF TInv, Progress, TypeOK
  <2> QED
    BY <2>1, <1>1
<1>3. m \in DOMAIN inner /\ ModuleTable(inner[m]) /\ m \in ImportNames
  <2>1. m \in DOMAIN inner /\ ModuleTable(inner[m])
    BY <1>1, <1>2, UsedAreThere
  <2> QED
    BY <2>1, <1>2, ElementsAre DEF TInv, TypeOK
<1>4. i \in 1 .. Len(inner[m]) /\ DOMAIN inner[m] = 1 .. Len(inner[m]) /\ i \in Nat
  <2>1. i \in 1 .. Len(inner[m])
    BY <1>1 DEF TInv, Progress
  <2> QED
    BY <2>1, <1>3, KeysOnce DEF ModuleTable
<1>5. k \in Names
  BY <1>3, <1>4, NamesAre DEF ModuleTable
<1>6. Alias(m, i) \in Contents /\ AddressOf(m, i) = Alias(m, i)
  <2>1. Alias(m, i) \in [kind : {"alias"}, of : ImportNames, at : Nat]
    BY <1>3, <1>4 DEF Alias
  <2> QED
    BY <2>1 DEF Contents, AddressOf
<1>7. Left \subseteq Constraints
  BY MkModulesAssumption
<1> QED
  BY <1>1, <1>2, <1>3, <1>4, <1>5, <1>6, <1>7

LEMMA TypesKeptByUsing == TInv /\ (BeginUsing \/ Use \/ EndUsing) => TInv'
<1> SUFFICES ASSUME TInv, BeginUsing \/ Use \/ EndUsing PROVE TInv'
  OBVIOUS
<1>0. usings \in Seq(ImportNames) /\ Len(usings) \in Nat /\ IsTable(own) /\ next \in Nat \X Nat
  BY ElementsAre DEF TInv, TypeOK
<1>1. CASE BeginUsing
  <2>1. /\ phase = "members" /\ DOMAIN members = done
        /\ phase' = "using" /\ next' = <<1, 1>>
        /\ UNCHANGED <<members, usings, own, inner, done, assigned>>
    BY <1>1 DEF BeginUsing
  <2>2. TypeOK'
    BY <2>1 DEF TInv, TypeOK
  <2>3. 1 <= Len(usings) => 1 \in 1 .. Len(inner[usings[1]])
    <3> SUFFICES ASSUME 1 <= Len(usings) PROVE 1 \in 1 .. Len(inner[usings[1]])
      OBVIOUS
    <3>1. 1 \in 1 .. Len(usings)
      BY <1>0
    <3>2. ModuleTable(inner[usings[1]])
      BY <3>1, <2>1, UsedAreThere
    <3> QED
      BY <3>2, KeysOnce DEF ModuleTable
  <2>4. Progress'
    BY <2>1, <2>3, <1>0 DEF TInv, Progress
  <2> QED
    BY <2>2, <2>4 DEF TInv
<1>2. CASE Use
  <2> DEFINE m == usings[next[1]]
             i == next[2]
             k == inner[m][i].key
  <2>1. /\ phase = "using" /\ UNCHANGED <<phase, members, usings, inner, done, assigned>>
        /\ next[1] \in 1 .. Len(usings) /\ usings[next[1]] \in DOMAIN inner
    BY <1>2, UseIs
  <2>2. /\ i \in DOMAIN inner[m] /\ DOMAIN inner[m] = 1 .. Len(inner[m]) /\ k \in Names
        /\ next' = IF i < Len(inner[m]) THEN <<next[1], i + 1>> ELSE <<next[1] + 1, 1>>
        /\ \/ k = Owner /\ UNCHANGED own
           \/ /\ k # Owner /\ Alias(m, i) \in Contents
              /\ \E left \in Constraints : own' = Inserted(own, k, Alias(m, i), left)
    BY <1>2, UseIs
  <2>3. IsTable(own')
    BY <2>2, <1>0, InsertedIs
  <2>4. next[1] \in Nat /\ i \in Nat /\ Len(inner[m]) \in Nat
    <3>1. IsTable(inner[m])
      BY <2>1 DEF TInv, TypeOK
    <3> QED
      BY <3>1, <1>0, KeysOnce
  <2>5. TypeOK'
    <3>1. next' \in Nat \X Nat
      BY <2>2, <2>4
    <3> QED
      BY <3>1, <2>1, <2>3 DEF TInv, TypeOK
  <2>6. /\ next'[1] \in 1 .. Len(usings) + 1
        /\ next'[1] <= Len(usings) => next'[2] \in 1 .. Len(inner[usings[next'[1]]])
    <3>1. CASE i < Len(inner[m])
      <4>1. next'[1] = next[1] /\ next'[2] = i + 1
        BY <3>1, <2>2
      <4> QED
        BY <4>1, <3>1, <2>1, <2>4, <1>0
    <3>2. CASE ~(i < Len(inner[m]))
      <4>1. next'[1] = next[1] + 1 /\ next'[2] = 1
        BY <3>2, <2>2
      <4>2. next[1] + 1 <= Len(usings) => ModuleTable(inner[usings[next[1] + 1]])
        BY <2>1, <2>4, <1>0, UsedAreThere
      <4>3. next[1] + 1 <= Len(usings) => 1 \in 1 .. Len(inner[usings[next[1] + 1]])
        BY <4>2, KeysOnce DEF ModuleTable
      <4>4. next[1] + 1 \in 1 .. Len(usings) + 1
        BY <2>1, <1>0
      <4> QED
        BY <4>1, <4>3, <4>4
    <3> QED
      BY <3>1, <3>2
  <2>7. Progress'
    BY <2>1, <2>6 DEF TInv, Progress
  <2> QED
    BY <2>5, <2>7 DEF TInv
<1>3. CASE EndUsing
  <2>1. /\ phase = "using" /\ phase' = "run"
        /\ own' = Stored(own, Super, Object, FinalOnly)
        /\ UNCHANGED <<members, usings, inner, done, next, assigned>>
    BY <1>3 DEF EndUsing
  <2>2. Object \in Contents
    BY DEF Contents
  <2>3. IsTable(own')
    BY <2>1, <2>2, <1>0, StoredIs, NamesAre, ConstraintsAre
  <2>4. TypeOK'
    BY <2>1, <2>3 DEF TInv, TypeOK
  <2>5. Progress'
    BY <2>1 DEF TInv, Progress
  <2> QED
    BY <2>4, <2>5 DEF TInv
<1> QED
  BY <1>1, <1>2, <1>3

LEMMA TypesKeptByAssign == TInv /\ Assign => TInv'
<1> SUFFICES ASSUME TInv, Assign PROVE TInv'
  OBVIOUS
<1>1. PICK x \in Objects, k \in MemberNames \cup ImportNames, v \in Values :
           LET t == Inserted(TableOf(x), k, Item(v), FinalOnly) IN
           /\ phase = "run" /\ Has(TableOf(x), k)
           /\ IsTable(TableOf(x)) /\ k \in Names /\ Item(v) \in Contents /\ FinalOnly \in Constraints
           /\ IF x = None
              THEN own' = t /\ assigned' = assigned \cup {k} /\ UNCHANGED inner
              ELSE /\ x \in DOMAIN inner
                   /\ inner' = [inner EXCEPT ![x] = t] /\ UNCHANGED <<own, assigned>>
           /\ UNCHANGED <<phase, members, usings, done, next>>
  BY AssignIs
<1>2. CASE x = None
  <2>1. own' = Inserted(own, k, Item(v), FinalOnly) /\ assigned' = assigned \cup {k} /\ UNCHANGED inner
    BY <1>1, <1>2 DEF TableOf
  <2>2. IsTable(own')
    BY <2>1, <1>1, <1>2, InsertedIs DEF TableOf
  <2>3. TypeOK'
    BY <1>1, <2>1, <2>2 DEF TInv, TypeOK
  <2>4. Progress'
    BY <1>1, <2>1 DEF TInv, Progress
  <2> QED
    BY <2>3, <2>4 DEF TInv
<1>3. CASE x # None
  <2> DEFINE t == Inserted(inner[x], k, Item(v), FinalOnly)
  <2>1. x \in DOMAIN inner /\ inner' = [inner EXCEPT ![x] = t] /\ UNCHANGED <<own, assigned>>
    BY <1>1, <1>3 DEF TableOf
  <2>2. ModuleTable(inner[x]) /\ Has(inner[x], k)
    BY <1>1, <1>3, <2>1 DEF TInv, Progress, TableOf
  <2>3. ModuleTable(t)
    BY <2>2, <1>1, AssignedIs
  <2> HIDE DEF t
  <2>4. /\ DOMAIN inner' = DOMAIN inner
        /\ \A m \in DOMAIN inner' : ModuleTable(inner'[m])
    BY <2>1, <2>3 DEF TInv, Progress
  <2>5. TypeOK'
    BY <1>1, <2>1, <2>4 DEF TInv, TypeOK, ModuleTable
  <2>6. Progress'
    BY <1>1, <2>1, <2>4 DEF TInv, Progress
  <2> QED
    BY <2>5, <2>6 DEF TInv
<1> QED
  BY <1>2, <1>3

LEMMA TypesKept == TInv /\ [Next]_vars => TInv'
<1> SUFFICES ASSUME TInv, [Next]_vars PROVE TInv'
  OBVIOUS
<1>1. CASE Member \/ Import \/ Using \/ New
  BY <1>1, TypesKeptByClass
<1>2. CASE AppendVariable \/ AppendModule
  BY <1>2, TypesKeptByMembers
<1>3. CASE BeginUsing \/ Use \/ EndUsing
  BY <1>3, TypesKeptByUsing
<1>4. CASE Assign
  BY <1>4, TypesKeptByAssign
<1>5. CASE UNCHANGED vars
  BY <1>5 DEF vars, TInv, TypeOK, Progress
<1> QED
  BY <1>1, <1>2, <1>3, <1>4, <1>5 DEF Next

(* Tables are sorted by the addresses of the names whatever is entered and *)
(* in which order, so that the search of hash.c finds what is there.       *)
THEOREM TypeCorrect == Spec => []TypeOK
<1>1. Init => TInv
  BY TypesAtStart
<1>2. TInv /\ [Next]_vars => TInv'
  BY TypesKept
<1>3. TInv => TypeOK
  BY DEF TInv
<1> QED
  BY <1>1, <1>2, <1>3, PTL DEF Spec

-----------------------------------------------------------------------------
(* Aliases.  There are none before "using", and a module's table has all   *)
(* its entries by then.                                                    *)
RightAlias(e) ==
  e.value.kind = "alias" =>
    LET v == e.value IN
    /\ v.of \in DOMAIN inner /\ v.at \in DOMAIN inner[v.of]
    /\ inner[v.of][v.at].key = e.key /\ e.key # Owner
    /\ inner[v.of][v.at].value.kind # "alias"

NoAlias(t) == \A i \in DOMAIN t : t[i].value.kind # "alias"

AInv == /\ \A i \in DOMAIN own : RightAlias(own[i])
        /\ phase \in {"class", "members", "failed"} => NoAlias(own)

LEMMA NoAliasKept ==
  ASSUME TInv, AInv, Member \/ Import \/ Using \/ New \/ AppendVariable \/ AppendModule \/ BeginUsing
  PROVE  NoAlias(own')
<1>0. IsTable(own)
  BY DEF TInv, TypeOK
<1>1. CASE Member \/ Import \/ Using \/ BeginUsing
  BY <1>1 DEF Member, Import, Using, BeginUsing, Builds, AInv
<1>2. CASE New
  <2>1. PICK left \in Left : own' = <<Entry(Super, Null, left)>>
    BY <1>2 DEF New
  <2> QED
    BY <2>1 DEF NoAlias, Entry, Null
<1>3. CASE AppendVariable
  <2>1. phase = "members" /\ NoAlias(own)
    BY <1>3, MemberIs DEF AInv
  <2>2. PICK k \in MemberNames :
              \/ UNCHANGED own
              \/ \E v \in FirstValue(members[k]) :
                   /\ own' = Stored(own, k, v, ConstraintOf(members[k]))
                   /\ ConstraintOf(members[k]) \in Constraints
                   /\ v \in Contents /\ v.kind # "alias"
    BY <1>3, MemberIs
  <2>3. CASE UNCHANGED own
    BY <2>1, <2>3
  <2>4. CASE ~UNCHANGED own
    <3>1. PICK v \in FirstValue(members[k]) :
                   /\ own' = Stored(own, k, v, ConstraintOf(members[k]))
                   /\ ConstraintOf(members[k]) \in Constraints
                   /\ v \in Contents /\ v.kind # "alias"
      BY <2>2, <2>4
    <3>2. \A i \in DOMAIN own' : \/ own'[i] = Entry(k, v, ConstraintOf(members[k]))
                                 \/ \E j \in DOMAIN own : own'[i] = own[j]
      BY <3>1, <1>0, StoredIs, NamesAre
    <3> QED
      BY <3>1, <3>2, <2>1 DEF NoAlias, Entry
  <2> QED
    BY <2>3, <2>4
<1>4. CASE AppendModule
  <2>1. phase = "members" /\ NoAlias(own)
    BY <1>4, ModuleIs DEF AInv
  <2>2. PICK k \in ImportNames :
              \/ UNCHANGED own
              \/ own' = Stored(own, k, Instance(k), FinalOnly) /\ Instance(k) \in Contents /\ FinalOnly \in Constraints
    BY <1>4, ModuleIs
  <2>3. CASE UNCHANGED own
    BY <2>1, <2>3
  <2>4. CASE ~UNCHANGED own
    <3>1. own' = Stored(own, k, Instance(k), FinalOnly) /\ Instance(k) \in Contents /\ FinalOnly \in Constraints
      BY <2>2, <2>4
    <3>2. \A i \in DOMAIN own' : \/ own'[i] = Entry(k, Instance(k), FinalOnly)
                                 \/ \E j \in DOMAIN own : own'[i] = own[j]
      BY <3>1, <1>0, StoredIs, NamesAre
    <3> QED
      BY <3>2, <2>1 DEF NoAlias, Entry, Instance
  <2> QED
    BY <2>3, <2>4
<1> QED
  BY <1>1, <1>2, <1>3, <1>4

LEMMA AliasesKept == TInv /\ AInv /\ [Next]_vars => AInv'
<1> SUFFICES ASSUME TInv, AInv, [Next]_vars PROVE AInv'
  OBVIOUS
<1>0. IsTable(own)
  BY DEF TInv, TypeOK
<1>1. CASE Member \/ Import \/ Using \/ New \/ AppendVariable \/ AppendModule \/ BeginUsing
  <2>1. NoAlias(own')
    BY <1>1, NoAliasKept
  <2> QED
    BY <2>1 DEF AInv, NoAlias, RightAlias
<1>2. CASE Use
  <2> DEFINE m == usings[next[1]]
             i == next[2]
             k == inner[m][i].key
  <2>1. /\ phase = "using" /\ phase' = "using" /\ UNCHANGED inner
        /\ next[1] \in 1 .. Len(usings) /\ m \in DOMAIN inner
        /\ i \in DOMAIN inner[m] /\ k \in Names
    BY <1>2, UseIs
  <2>2. CASE UNCHANGED own
    BY <2>1, <2>2 DEF AInv, RightAlias
  <2>3. CASE ~UNCHANGED own
    <3>1. k # Owner /\ Alias(m, i) \in Contents
      BY <2>3, <1>2, UseIs
    <3>2. PICK left \in Constraints : own' = Inserted(own, k, Alias(m, i), left)
      BY <2>3, <1>2, UseIs
    <3>3. inner[m][i].value.kind # "alias"
      BY <2>1 DEF TInv, Progress, ModuleTable
    <3>4. \A h \in DOMAIN own' : \/ own'[h].key = k /\ own'[h].value = Alias(m, i)
                                 \/ \E j \in DOMAIN own : own'[h] = own[j]
      BY <3>1, <3>2, <2>1, <1>0, InsertedIs
    <3>5. Alias(m, i).of = m /\ Alias(m, i).at = i
      BY DEF Alias
    <3> HIDE DEF m, i, k
    <3>6. ASSUME NEW h \in DOMAIN own', own'[h].key = k, own'[h].value = Alias(m, i)
          PROVE  RightAlias(own'[h])
      BY <3>1, <3>3, <3>5, <3>6, <2>1 DEF RightAlias, k
    <3>7. \A h \in DOMAIN own' : RightAlias(own'[h])
      BY <3>4, <3>6 DEF AInv
    <3>8. UNCHANGED inner
      BY <2>1
    <3>9. (\A h \in DOMAIN own : RightAlias(own[h]))'
      BY <3>7, <3>8 DEF RightAlias
    <3> QED
      BY <3>9, <2>1 DEF AInv
  <2> QED
    BY <2>2, <2>3
<1>3. CASE EndUsing
  <2>1. /\ phase' = "run" /\ UNCHANGED inner
        /\ own' = Stored(own, Super, Object, FinalOnly)
    BY <1>3 DEF EndUsing
  <2>2. \A h \in DOMAIN own' : \/ own'[h] = Entry(Super, Object, FinalOnly)
                               \/ \E j \in DOMAIN own : own'[h] = own[j]
    BY <2>1, <1>0, StoredIs, NamesAre, ConstraintsAre DEF Contents
  <2>3. RightAlias(Entry(Super, Object, FinalOnly))
    BY DEF RightAlias, Entry, Object
  <2>4. \A h \in DOMAIN own' : RightAlias(own'[h])
    BY <2>2, <2>3 DEF AInv
  <2> QED
    BY <2>1, <2>4 DEF AInv, RightAlias
<1>4. CASE Assign
  <2>1. PICK x \in Objects, k \in MemberNames \cup ImportNames, v \in Values :
           LET t == Inserted(TableOf(x), k, Item(v), FinalOnly) IN
           /\ phase = "run" /\ Has(TableOf(x), k)
           /\ k \in Names /\ Item(v) \in Contents /\ FinalOnly \in Constraints
           /\ IF x = None
              THEN own' = t /\ UNCHANGED inner
              ELSE x \in DOMAIN inner /\ inner' = [inner EXCEPT ![x] = t] /\ UNCHANGED own
           /\ UNCHANGED phase
    BY <1>4, AssignIs
  <2>2. CASE x = None
    <3>1. own' = Inserted(own, k, Item(v), FinalOnly) /\ UNCHANGED inner
      BY <2>1, <2>2 DEF TableOf
    <3>2. \A h \in DOMAIN own' : \/ own'[h].value = Item(v)
                                 \/ \E j \in DOMAIN own : own'[h] = own[j]
      BY <3>1, <2>1, <1>0, InsertedIs
    <3>3. \A h \in DOMAIN own' : RightAlias(own'[h])
      BY <3>2 DEF AInv, RightAlias, Item
    <3> QED
      BY <2>1, <3>1, <3>3 DEF AInv, RightAlias
  <2>3. CASE x # None
    <3> DEFINE t == Inserted(inner[x], k, Item(v), FinalOnly)
    <3>1. x \in DOMAIN inner /\ inner' = [inner EXCEPT ![x] = t] /\ UNCHANGED own
      BY <2>1, <2>3 DEF TableOf
    <3>2. ModuleTable(inner[x]) /\ Has(inner[x], k)
      BY <2>1, <2>3, <3>1 DEF TInv, Progress, TableOf
    <3>3. /\ ModuleTable(t) /\ DOMAIN t = DOMAIN inner[x]
          /\ \A i \in DOMAIN t : t[i].key = inner[x][i].key
      BY <3>2, <2>1, AssignedIs
    <3> HIDE DEF t
    <3>4. /\ DOMAIN inner' = DOMAIN inner
          /\ \A m \in DOMAIN inner :
               /\ DOMAIN inner'[m] = DOMAIN inner[m]
               /\ \A i \in DOMAIN inner[m] : /\ inner'[m][i].key = inner[m][i].key
                                             /\ inner'[m][i].value.kind # "alias"
      BY <3>1, <3>3 DEF TInv, Progress, ModuleTable
    <3>5. (\A h \in DOMAIN own : RightAlias(own[h]))'
      BY <3>1, <3>4 DEF AInv, RightAlias
    <3> QED
      BY <3>5, <2>1 DEF AInv
  <2> QED
    BY <2>2, <2>3
<1>5. CASE UNCHANGED vars
  BY <1>5 DEF vars, AInv, RightAlias, NoAlias
<1> QED
  BY <1>1, <1>2, <1>3, <1>4, <1>5 DEF Next

(* The addresses that "using" keeps in an object are, for the life of the  *)
(* object, those of entries of the same name in its modules' tables.       *)
THEOREM AliasIntactAlways == Spec => []AliasIntact
<1>1. Init => TInv
  BY TypesAtStart
<1>2. Init => AInv
  BY DEF Init, AInv, NoAlias
<1>3. TInv /\ [Next]_vars => TInv'
  BY TypesKept
<1>4. TInv /\ AInv /\ [Next]_vars => AInv'
  BY AliasesKept
<1>5. AInv => AliasIntact
  BY DEF AInv, RightAlias, AliasIntact
<1> QED
  BY <1>1, <1>2, <1>3, <1>4, <1>5, PTL DEF Spec

-----------------------------------------------------------------------------
(* Constraints.  What is not to be replaced is FINAL, and stays it when    *)
(* its entry moves.                                                        *)
FInv == Final(own) /\ \A m \in DOMAIN inner : Final(inner[m])

Kept(e) == e.value.kind \in {"method", "module", "object"} => e.constraint.final

LEMMA FinalAfterInserted ==
  ASSUME NEW t, IsTable(t), Final(t), NEW k \in Names, NEW v \in Contents, NEW c \in Constraints,
         v.kind \notin {"method", "module", "object"}
  PROVE  Final(Inserted(t, k, v, c))
<1> DEFINE u == Inserted(t, k, v, c)
<1>1. \A i \in DOMAIN u : u[i].value = v \/ \E j \in DOMAIN t : u[i] = t[j]
  BY InsertedIs
<1> QED
  BY <1>1 DEF Final

LEMMA FinalAfterStored ==
  ASSUME NEW t, IsTable(t), Final(t), NEW k \in Names, NEW v \in Contents, NEW c \in Constraints,
         Kept(Entry(k, v, c))
  PROVE  Final(Stored(t, k, v, c))
<1> DEFINE u == Stored(t, k, v, c)
<1>1. \A i \in DOMAIN u : u[i] = Entry(k, v, c) \/ \E j \in DOMAIN t : u[i] = t[j]
  BY StoredIs
<1> QED
  BY <1>1 DEF Final, Kept

LEMMA FinalKept == TInv /\ FInv /\ [Next]_vars => FInv'
<1> SUFFICES ASSUME TInv, FInv, [Next]_vars PROVE FInv'
  OBVIOUS
<1>0. IsTable(own)
  BY DEF TInv, TypeOK
<1>1. CASE Member \/ Import \/ Using \/ BeginUsing
  BY <1>1 DEF Member, Import, Using, BeginUsing, Builds, FInv, Final
<1>2. CASE New
  <2>1. PICK left \in Left : own' = <<Entry(Super, Null, left)>>
    BY <1>2 DEF New
  <2>2. Final(own')
    BY <2>1 DEF Final, Entry, Null
  <2>3. UNCHANGED inner
    BY <1>2 DEF New
  <2> QED
    BY <2>2, <2>3 DEF FInv, Final
<1>3. CASE AppendVariable
  <2>1. UNCHANGED inner
    BY <1>3, MemberIs
  <2>2. PICK k \in MemberNames :
              \/ UNCHANGED own
              \/ \E v \in FirstValue(members[k]) :
                   /\ own' = Stored(own, k, v, ConstraintOf(members[k]))
                   /\ ConstraintOf(members[k]) \in Constraints
                   /\ v \in Contents /\ v.kind \notin {"alias", "module", "object"}
                   /\ v.kind = "method" => ConstraintOf(members[k]).final
    BY <1>3, MemberIs
  <2>3. Final(own')
    <3>1. CASE UNCHANGED own
      BY <3>1 DEF FInv, Final
    <3>2. CASE ~UNCHANGED own
      <4>1. PICK v \in FirstValue(members[k]) :
                   /\ own' = Stored(own, k, v, ConstraintOf(members[k]))
                   /\ ConstraintOf(members[k]) \in Constraints
                   /\ v \in Contents /\ v.kind \notin {"alias", "module", "object"}
                   /\ v.kind = "method" => ConstraintOf(members[k]).final
        BY <2>2, <3>2
      <4>2. Kept(Entry(k, v, ConstraintOf(members[k])))
        BY <4>1 DEF Kept, Entry
      <4> QED
        BY <4>1, <4>2, <1>0, FinalAfterStored, NamesAre DEF FInv
    <3> QED
      BY <3>1, <3>2
  <2> QED
    BY <2>1, <2>3 DEF FInv
<1>4. CASE AppendModule
  <2>1. PICK k \in ImportNames :
              \/ UNCHANGED <<own, inner>>
              \/ /\ own' = Stored(own, k, Instance(k), FinalOnly)
                 /\ Instance(k) \in Contents /\ FinalOnly \in Constraints
                 /\ \E t : /\ Final(t)
                          /\ inner' = [j \in DOMAIN inner \cup {k} |-> IF j = k THEN t ELSE inner[j]]
    BY <1>4, ModuleIs
  <2>2. CASE UNCHANGED <<own, inner>>
    BY <2>2 DEF FInv, Final
  <2>3. CASE ~UNCHANGED <<own, inner>>
    <3>1. Kept(Entry(k, Instance(k), FinalOnly))
      BY ConstraintsAre DEF Kept, Entry
    <3>2. Final(own')
      BY <2>1, <2>3, <3>1, <1>0, FinalAfterStored, NamesAre DEF FInv
    <3>3. \A m \in DOMAIN inner' : Final(inner'[m])
      BY <2>1, <2>3 DEF FInv
    <3> QED
      BY <3>2, <3>3 DEF FInv
  <2> QED
    BY <2>2, <2>3
<1>5. CASE Use
  <2> DEFINE m == usings[next[1]]
             i == next[2]
             k == inner[m][i].key
  <2>1. UNCHANGED inner /\ k \in Names
    BY <1>5, UseIs
  <2>2. \/ UNCHANGED own
        \/ /\ Alias(m, i) \in Contents
           /\ \E left \in Constraints : own' = Inserted(own, k, Alias(m, i), left)
    BY <1>5, UseIs
  <2>3. Alias(m, i).kind = "alias"
    BY DEF Alias
  <2> HIDE DEF m, i, k
  <2>4. Final(own')
    BY <2>1, <2>2, <2>3, <1>0, FinalAfterInserted DEF FInv
  <2> QED
    BY <2>1, <2>4 DEF FInv
<1>6. CASE EndUsing
  <2>1. UNCHANGED inner /\ own' = Stored(own, Super, Object, FinalOnly)
    BY <1>6 DEF EndUsing
  <2>2. Kept(Entry(Super, Object, FinalOnly))
    BY ConstraintsAre DEF Kept, Entry
  <2>3. Final(own')
    BY <2>1, <2>2, <1>0, FinalAfterStored, NamesAre, ConstraintsAre DEF FInv, Contents
  <2> QED
    BY <2>1, <2>3 DEF FInv
<1>7. CASE Assign
  <2>1. PICK x \in Objects, k \in MemberNames \cup ImportNames, v \in Values :
           LET t == Inserted(TableOf(x), k, Item(v), FinalOnly) IN
           /\ IsTable(TableOf(x))
           /\ k \in Names /\ Item(v) \in Contents /\ FinalOnly \in Constraints
           /\ IF x = None
              THEN own' = t /\ UNCHANGED inner
              ELSE x \in DOMAIN inner /\ inner' = [inner EXCEPT ![x] = t] /\ UNCHANGED own
    BY <1>7, AssignIs
  <2>2. Final(TableOf(x))
    BY DEF TableOf, Objects, FInv
  <2>3. Final(Inserted(TableOf(x), k, Item(v), FinalOnly))
    <3>1. Item(v).kind \notin {"method", "module", "object"}
      BY DEF Item
    <3> QED
      BY <3>1, <2>1, <2>2, FinalAfterInserted
  <2> QED
    BY <2>1, <2>3 DEF FInv
<1>8. CASE UNCHANGED vars
  BY <1>8 DEF vars, FInv
<1> QED
  BY <1>1, <1>2, <1>3, <1>4, <1>5, <1>6, <1>7, <1>8 DEF Next

LEMMA AssignKeeps ==
  ASSUME TInv, Assign, NEW y \in Objects, NEW h \in Names,
         Has(TableOf(y), h), EntryOf(y, h).constraint.final
  PROVE  EntryOf(y, h)' = EntryOf(y, h)
<1>1. PICK x \in Objects, k \in MemberNames \cup ImportNames, v \in Values :
           LET t == Inserted(TableOf(x), k, Item(v), FinalOnly) IN
           /\ Has(TableOf(x), k) /\ ~EntryOf(x, k).constraint.final
           /\ IsTable(TableOf(x)) /\ k \in Names /\ Item(v) \in Contents /\ FinalOnly \in Constraints
           /\ IF x = None
              THEN own' = t /\ UNCHANGED inner
              ELSE x \in DOMAIN inner /\ inner' = [inner EXCEPT ![x] = t] /\ UNCHANGED own
  BY AssignIs
<1> DEFINE t == TableOf(y)
           u == TableOf(y)'
<1>2. IsTable(t)
  BY DEF TableOf, Objects, TInv, TypeOK
<1>3. CASE x = y
  <2>1. u = Inserted(t, k, Item(v), FinalOnly)
    BY <1>1, <1>3 DEF TableOf
  <2>2. h # k
    BY <1>1, <1>3
  <2>3. /\ IsTable(u) /\ DOMAIN u = DOMAIN t
        /\ \A i \in DOMAIN t : u[i].key = t[i].key /\ (t[i].key # k => u[i] = t[i])
    BY <2>1, <1>1, <1>2, <1>3, InsertedIs
  <2> DEFINE i == At(t, h)
  <2>4. i \in DOMAIN t /\ t[i].key = h
    BY <1>2, KeysOnce
  <2>5. u[i] = t[i] /\ i \in DOMAIN u /\ u[i].key = h
    BY <2>2, <2>3, <2>4
  <2>6. At(u, h) = i
    BY <2>3, <2>5, KeysOnce
  <2>7. EntryOf(y, h)' = u[At(u, h)]
    BY DEF EntryOf, At
  <2> QED
    BY <2>5, <2>6, <2>7 DEF EntryOf
<1>4. CASE x # y
  <2>1. TableOf(y)' = TableOf(y)
    BY <1>1, <1>4 DEF TableOf, Objects
  <2> QED
    BY <2>1 DEF EntryOf, At
<1> QED
  BY <1>3, <1>4

LEMMA MethodsKeptByNext ==
  ASSUME TInv, FInv, [Next]_vars
  PROVE  [phase = "run" =>
           \A x \in Objects, k \in Names :
             Has(TableOf(x), k) /\ EntryOf(x, k).value.kind \in {"method", "module", "object"} =>
               EntryOf(x, k)' = EntryOf(x, k)]_vars
<1> SUFFICES ASSUME phase = "run", ~UNCHANGED vars, NEW x \in Objects, NEW k \in Names,
                    Has(TableOf(x), k), EntryOf(x, k).value.kind \in {"method", "module", "object"}
             PROVE  EntryOf(x, k)' = EntryOf(x, k)
  OBVIOUS
<1>1. Assign
  BY DEF Next, Member, Import, Using, New, AppendVariable, AppendModule, NextMember, BeginUsing, Use, EndUsing
<1>2. IsTable(TableOf(x)) /\ Final(TableOf(x))
  BY DEF TableOf, Objects, TInv, TypeOK, FInv
<1>3. EntryOf(x, k).constraint.final
  BY <1>2, KeysOnce DEF EntryOf, Final
<1> QED
  BY <1>1, <1>3, AssignKeeps

(* Methods, the instances of modules, "owner" and "super" of an object are *)
(* there for its life, in the entries of the first assignment and all that *)
(* follow.                                                                 *)
THEOREM MethodsKeptAlways == Spec => MethodsKept
<1>1. Init => TInv
  BY TypesAtStart
<1>2. Init => FInv
  BY DEF Init, FInv, Final
<1>3. TInv /\ [Next]_vars => TInv'
  BY TypesKept
<1>4. TInv /\ FInv /\ [Next]_vars => FInv'
  BY FinalKept
<1>5. TInv /\ FInv /\ [Next]_vars =>
        [phase = "run" =>
           \A x \in Objects, k \in Names :
             Has(TableOf(x), k) /\ EntryOf(x, k).value.kind \in {"method", "module", "object"} =>
               EntryOf(x, k)' = EntryOf(x, k)]_vars
  BY MethodsKeptByNext
<1> QED
  BY <1>1, <1>2, <1>3, <1>4, <1>5, PTL DEF Spec, MethodsKept

-----------------------------------------------------------------------------
(* What "using" has entered.  The b-th entry of the a-th module that is    *)
(* used has been passed; if no entry of the same name has been since and   *)
(* the name was not assigned to, it has an alias of that entry.            *)
Passed(a, b) ==
  \/ phase = "run"
  \/ phase = "using" /\ (a < next[1] \/ (a = next[1] /\ b < next[2]))

Used == 1 .. Len(usings)
Key(a, b) == inner[usings[a]][b].key

Entered ==
  \A a \in Used : \A b \in DOMAIN inner[usings[a]] :
    /\ Passed(a, b) /\ Key(a, b) # Owner /\ Key(a, b) \notin assigned
    /\ \A j \in Used : \A c \in DOMAIN inner[usings[j]] :
         j > a /\ Key(j, c) = Key(a, b) => ~Passed(j, c)
    => \E h \in DOMAIN own : own[h].key = Key(a, b) /\ own[h].value = Alias(usings[a], b)

LEMMA EnteredByUse ==
  ASSUME TInv, Entered, Use
  PROVE  Entered'
<1> DEFINE m == usings[next[1]]
           i == next[2]
           k == inner[m][i].key
<1>1. /\ phase = "using" /\ UNCHANGED <<phase, members, usings, inner, done, assigned>>
      /\ next[1] \in 1 .. Len(usings) /\ m \in DOMAIN inner
      /\ i \in DOMAIN inner[m] /\ DOMAIN inner[m] = 1 .. Len(inner[m]) /\ k \in Names
      /\ next' = IF i < Len(inner[m]) THEN <<next[1], i + 1>> ELSE <<next[1] + 1, 1>>
      /\ \/ k = Owner /\ UNCHANGED own
         \/ /\ k # Owner /\ Alias(m, i) \in Contents
            /\ \E left \in Constraints : own' = Inserted(own, k, Alias(m, i), left)
  BY UseIs
<1>2. IsTable(own) /\ IsTable(inner[m]) /\ Len(usings) \in Nat /\ next \in Nat \X Nat
  BY <1>1, ElementsAre DEF TInv, TypeOK
<1>3. i \in Nat /\ next[1] \in Nat /\ Len(inner[m]) \in Nat /\ i >= 1 /\ i <= Len(inner[m])
  BY <1>1, <1>2, KeysOnce
<1>4. ASSUME NEW a \in Used, NEW b \in DOMAIN inner[usings[a]]
      PROVE  Passed(a, b)' <=> Passed(a, b) \/ (a = next[1] /\ b = i)
  <2>1. a \in Nat /\ b \in Nat /\ (a = next[1] => b <= Len(inner[m]))
    <3>1. usings[a] \in DOMAIN inner
      BY <1>1, UsedAreThere DEF Used
    <3>2. IsTable(inner[usings[a]])
      BY <3>1 DEF TInv, TypeOK
    <3>3. b \in 1 .. Len(inner[usings[a]]) /\ Len(inner[usings[a]]) \in Nat
      BY <3>2, KeysOnce
    <3> QED
      BY <3>3, <1>2 DEF Used
  <2>2. Passed(a, b) <=> a < next[1] \/ (a = next[1] /\ b < i)
    BY <1>1 DEF Passed
  <2>3. Passed(a, b)' <=> a < next'[1] \/ (a = next'[1] /\ b < next'[2])
    BY <1>1 DEF Passed
  <2>4. CASE i < Len(inner[m])
    <3>1. next'[1] = next[1] /\ next'[2] = i + 1
      BY <2>4, <1>1
    <3> QED
      BY <2>1, <2>2, <2>3, <3>1, <1>3
  <2>5. CASE ~(i < Len(inner[m]))
    <3>1. next'[1] = next[1] + 1 /\ next'[2] = 1
      BY <2>5, <1>1
    <3>2. a < next[1] + 1 <=> a < next[1] \/ a = next[1]
      BY <2>1, <1>3
    <3>3. ~(b < 1)
      <4>1. IsTable(inner[usings[a]])
        BY <1>1, UsedAreThere DEF Used, ModuleTable
      <4> QED
        BY <4>1, KeysOnce
    <3>4. a = next[1] => b < i \/ b = i
      BY <2>1, <2>5, <1>3
    <3> QED
      BY <2>1, <2>2, <2>3, <3>1, <3>2, <3>3, <3>4
  <2> QED
    BY <2>4, <2>5
<1>5. next[1] \in Used /\ Key(next[1], i) = k
  BY <1>1 DEF Used, Key
<1>6. /\ Used' = Used /\ UNCHANGED <<usings, inner, assigned>>
      /\ \A a, b : Key(a, b)' = Key(a, b)
  BY <1>1 DEF Used, Key
<1> SUFFICES ASSUME NEW a \in Used, NEW b \in DOMAIN inner[usings[a]],
                    Passed(a, b)', Key(a, b) # Owner, Key(a, b) \notin assigned,
                    \A j \in Used : \A c \in DOMAIN inner[usings[j]] :
                      j > a /\ Key(j, c) = Key(a, b) => ~Passed(j, c)'
             PROVE  \E h \in DOMAIN own' : own'[h].key = Key(a, b) /\ own'[h].value = Alias(usings[a], b)
  BY <1>6 DEF Entered
<1>7. CASE a = next[1] /\ b = i
  <2>1. k # Owner
    BY <1>5, <1>7
  <2>2. PICK left \in Constraints : own' = Inserted(own, k, Alias(m, i), left)
    BY <2>1, <1>1
  <2>3. Alias(m, i) \in Contents
    BY <2>1, <1>1
  <2>4. \E h \in DOMAIN own' : own'[h].key = k /\ own'[h].value = Alias(m, i)
    BY <2>2, <2>3, <1>1, <1>2, InsertedIs
  <2> QED
    BY <2>4, <1>5, <1>7
<1>8. CASE ~(a = next[1] /\ b = i)
  <2>1. Passed(a, b)
    BY <1>4, <1>8
  <2>2. ASSUME NEW j \in Used, NEW c \in DOMAIN inner[usings[j]], j > a, Key(j, c) = Key(a, b)
        PROVE  ~Passed(j, c)
    <3>1. ~Passed(j, c)'
      BY <2>2
    <3> QED
      BY <3>1, <1>4
  <2>3. PICK h \in DOMAIN own : own[h].key = Key(a, b) /\ own[h].value = Alias(usings[a], b)
    BY <2>1, <2>2 DEF Entered
  <2>4. k = Key(a, b) => FALSE
    <3> SUFFICES ASSUME k = Key(a, b) PROVE FALSE
      OBVIOUS
    <3>1. a < next[1] \/ (a = next[1] /\ b < i)
      BY <2>1, <1>1 DEF Passed
    <3>2. CASE a < next[1]
      <4> PICK j \in Used : j = next[1]
        BY <1>5
      <4>1. PICK c \in DOMAIN inner[usings[j]] : c = i
        BY <1>1
      <4>2. Passed(j, c)'
        BY <4>1, <1>4
      <4>3. j > a /\ Key(j, c) = Key(a, b)
        BY <4>1, <3>2, <1>2, <1>3, <1>5 DEF Used
      <4> QED
        BY <4>2, <4>3
    <3>3. CASE a = next[1] /\ b < i
      <4>1. b \in DOMAIN inner[m] /\ inner[m][b].key = inner[m][i].key
        BY <3>3, <1>5 DEF Key
      <4>2. b = i
        BY <4>1, <1>1, <1>2, KeysOnce
      <4> QED
        BY <4>2, <1>8, <3>3
    <3> QED
      BY <3>1, <3>2, <3>3
  <2>5. CASE UNCHANGED own
    BY <2>3, <2>5
  <2>6. CASE ~UNCHANGED own
    <3>1. PICK left \in Constraints : own' = Inserted(own, k, Alias(m, i), left)
      BY <2>6, <1>1
    <3>2. Alias(m, i) \in Contents
      BY <2>6, <1>1
    <3>3. \E g \in DOMAIN own' : own'[g] = own[h]
      BY <3>1, <3>2, <2>3, <2>4, <1>1, <1>2, InsertedIs
    <3> QED
      BY <3>3, <2>3
  <2> QED
    BY <2>5, <2>6
<1> QED
  BY <1>7, <1>8

LEMMA EnteredByEnd ==
  ASSUME TInv, Entered, EndUsing
  PROVE  Entered'
<1>1. /\ phase = "using" /\ phase' = "run" /\ next[1] > Len(usings)
      /\ own' = Stored(own, Super, Object, FinalOnly)
      /\ UNCHANGED <<members, usings, inner, done, next, assigned>>
  BY DEF EndUsing
<1>2. IsTable(own) /\ Len(usings) \in Nat /\ next[1] \in Nat
  BY ElementsAre DEF TInv, TypeOK
<1>3. /\ Used' = Used /\ UNCHANGED <<usings, inner, assigned>>
      /\ \A a, b : Key(a, b)' = Key(a, b)
  BY <1>1 DEF Used, Key
<1>4. \A a \in Used : \A b : Passed(a, b) /\ Passed(a, b)'
  BY <1>1, <1>2 DEF Used, Passed
<1> SUFFICES ASSUME NEW a \in Used, NEW b \in DOMAIN inner[usings[a]],
                    Key(a, b) # Owner, Key(a, b) \notin assigned,
                    \A j \in Used : \A c \in DOMAIN inner[usings[j]] :
                      j > a /\ Key(j, c) = Key(a, b) => ~Passed(j, c)'
             PROVE  \E h \in DOMAIN own' : own'[h].key = Key(a, b) /\ own'[h].value = Alias(usings[a], b)
  BY <1>3 DEF Entered
<1>5. \A j \in Used : \A c \in DOMAIN inner[usings[j]] :
        j > a /\ Key(j, c) = Key(a, b) => ~Passed(j, c)
  BY <1>4
<1>6. PICK h \in DOMAIN own : own[h].key = Key(a, b) /\ own[h].value = Alias(usings[a], b)
  BY <1>4, <1>5 DEF Entered
<1>7. Key(a, b) # Super
  BY <1>1, UsedAreThere, NamesAre DEF Used, Key, ModuleTable
<1>8. \E g \in DOMAIN own' : own'[g] = own[h]
  <2>1. Super \in Names /\ Object \in Contents /\ FinalOnly \in Constraints
    BY NamesAre, ConstraintsAre DEF Contents
  <2>2. \A j \in DOMAIN own : own[j].key # Super =>
          \E g \in DOMAIN Stored(own, Super, Object, FinalOnly) : Stored(own, Super, Object, FinalOnly)[g] = own[j]
    BY <2>1, <1>2, StoredIs
  <2>3. own[h].key # Super
    BY <1>6, <1>7
  <2> QED
    BY <2>2, <2>3, <1>1
<1> QED
  BY <1>6, <1>8

LEMMA EnteredByAssign ==
  ASSUME TInv, Entered, Assign
  PROVE  Entered'
<1>1. PICK x \in Objects, k \in MemberNames \cup ImportNames, v \in Values :
           LET t == Inserted(TableOf(x), k, Item(v), FinalOnly) IN
           /\ phase = "run" /\ Has(TableOf(x), k)
           /\ k \in Names /\ Item(v) \in Contents /\ FinalOnly \in Constraints
           /\ IF x = None
              THEN own' = t /\ assigned' = assigned \cup {k} /\ UNCHANGED inner
              ELSE /\ x \in DOMAIN inner
                   /\ inner' = [inner EXCEPT ![x] = t] /\ UNCHANGED <<own, assigned>>
           /\ UNCHANGED <<phase, usings>>
  BY AssignIs
<1>2. /\ DOMAIN inner' = DOMAIN inner
      /\ \A m \in DOMAIN inner : /\ DOMAIN inner'[m] = DOMAIN inner[m]
                               /\ \A b \in DOMAIN inner[m] : inner'[m][b].key = inner[m][b].key
  <2>1. CASE x = None
    BY <2>1, <1>1
  <2>2. CASE x # None
    <3> DEFINE t == Inserted(inner[x], k, Item(v), FinalOnly)
    <3>1. x \in DOMAIN inner /\ inner' = [inner EXCEPT ![x] = t]
      BY <1>1, <2>2 DEF TableOf
    <3>2. ModuleTable(inner[x]) /\ Has(inner[x], k)
      BY <1>1, <2>2, <3>1 DEF TInv, Progress, TableOf
    <3>3. DOMAIN t = DOMAIN inner[x] /\ \A b \in DOMAIN inner[x] : t[b].key = inner[x][b].key
      BY <3>2, <1>1, AssignedIs
    <3> HIDE DEF t
    <3> QED
      BY <3>1, <3>3
  <2> QED
    BY <2>1, <2>2
<1>3. /\ Used' = Used /\ UNCHANGED usings /\ assigned \subseteq assigned'
      /\ \A a \in Used : usings[a] \in DOMAIN inner
      /\ \A a \in Used : \A b : Passed(a, b) /\ Passed(a, b)'
  BY <1>1, UsedAreThere DEF Used, Passed
<1>4. \A a \in Used : \A b \in DOMAIN inner[usings[a]] : Key(a, b)' = Key(a, b)
  BY <1>2, <1>3 DEF Key
<1> SUFFICES ASSUME NEW a \in Used, NEW b \in DOMAIN inner[usings[a]],
                    Key(a, b) # Owner, Key(a, b) \notin assigned',
                    \A j \in Used : \A c \in DOMAIN inner[usings[j]] : ~(j > a /\ Key(j, c) = Key(a, b))
             PROVE  \E h \in DOMAIN own' : own'[h].key = Key(a, b) /\ own'[h].value = Alias(usings[a], b)
  BY <1>2, <1>3, <1>4 DEF Entered
<1>5. PICK h \in DOMAIN own : own[h].key = Key(a, b) /\ own[h].value = Alias(usings[a], b)
  BY <1>3 DEF Entered
<1>6. CASE x = None
  <2>1. own' = Inserted(own, k, Item(v), FinalOnly) /\ k # Key(a, b)
    BY <1>1, <1>6 DEF TableOf
  <2>2. \E g \in DOMAIN own' : own'[g] = own[h]
    BY <2>1, <1>1, <1>5, InsertedIs DEF TInv, TypeOK
  <2> QED
    BY <2>2, <1>5
<1>7. CASE x # None
  BY <1>1, <1>5, <1>7
<1> QED
  BY <1>6, <1>7

LEMMA EnteredKept == TInv /\ Entered /\ [Next]_vars => Entered'
<1> SUFFICES ASSUME TInv, Entered, [Next]_vars PROVE Entered'
  OBVIOUS
<1>1. CASE Member \/ Import \/ Using \/ New \/ AppendVariable \/ AppendModule
  <2>1. phase' \notin {"using", "run"}
    <3>1. CASE AppendVariable
      BY <3>1, MemberIs
    <3>2. CASE AppendModule
      BY <3>2, ModuleIs
    <3> QED
      BY <1>1, <3>1, <3>2 DEF Member, Import, Using, New
  <2>2. \A a, b : ~Passed(a, b)'
    BY <2>1 DEF Passed
  <2> QED
    BY <2>2 DEF Entered
<1>2. CASE BeginUsing
  <2>1. TInv' /\ phase' = "using" /\ next' = <<1, 1>> /\ UNCHANGED <<usings, inner>>
    BY <1>2, TypesKept DEF BeginUsing
  <2>2. ASSUME NEW a \in Used, NEW b \in DOMAIN inner[usings[a]] PROVE ~Passed(a, b)'
    <3>1. IsTable(inner[usings[a]])
      BY <1>2, UsedAreThere DEF Used, BeginUsing, ModuleTable
    <3>2. b \in Nat /\ b >= 1
      BY <3>1, KeysOnce
    <3>3. a \in Nat /\ a >= 1
      BY DEF Used
    <3> QED
      BY <2>1, <3>2, <3>3 DEF Passed
  <2> QED
    BY <2>1, <2>2 DEF Entered, Used
<1>3. CASE Use
  BY <1>3, EnteredByUse
<1>4. CASE EndUsing
  BY <1>4, EnteredByEnd
<1>5. CASE Assign
  BY <1>5, EnteredByAssign
<1>6. CASE UNCHANGED vars
  BY <1>6 DEF vars, Entered, Used, Key, Passed
<1> QED
  BY <1>1, <1>2, <1>3, <1>4, <1>5, <1>6 DEF Next

BroughtLast(i, k) ==
  /\ phase = "run" /\ i \in DOMAIN usings
  /\ Has(inner[usings[i]], k) /\ \A j \in i + 1 .. Len(usings) : ~Has(inner[usings[j]], k)

(* A name that several used modules bring, or a module and the class, is    *)
(* the variable of the module used last, until the object's own entry is    *)
(* assigned to: vm.c:469 enters each alias over the one before and never    *)
(* asks, where module.txt:74 and :89 want an error.                         *)
LastModuleWins ==
  \A i \in DOMAIN usings, k \in MemberNames \ assigned :
    BroughtLast(i, k) => FindVariable(None, k, None) = EntryOf(usings[i], k).value

LEMMA SharedIs == TInv /\ Entered => LastModuleWins
<1> SUFFICES ASSUME TInv, Entered, NEW a \in DOMAIN usings, NEW k \in MemberNames \ assigned,
                    BroughtLast(a, k)
             PROVE  FindVariable(None, k, None) = EntryOf(usings[a], k).value
  BY DEF LastModuleWins
<1> DEFINE m == usings[a]
           b == At(inner[m], k)
<1>1. phase = "run" /\ Has(inner[m], k)
      /\ \A j \in a + 1 .. Len(usings) : ~Has(inner[usings[j]], k)
  BY DEF BroughtLast
<1>2. a \in Used /\ m \in DOMAIN inner /\ m # None /\ Len(usings) \in Nat
  <2>1. usings \in Seq(ImportNames)
    BY DEF TInv, TypeOK
  <2>2. a \in 1 .. Len(usings) /\ m \in ImportNames
    BY <2>1, ElementsAre
  <2> QED
    BY <2>1, <2>2, <1>1, ElementsAre, UsedAreThere, NamesAre DEF Used
<1>3. IsTable(inner[m]) /\ IsTable(own) /\ ModuleTable(inner[m])
  BY <1>2 DEF TInv, TypeOK, Progress
<1>4. b \in DOMAIN inner[m] /\ inner[m][b].key = k /\ inner[m][b].value.kind # "alias"
  BY <1>1, <1>3, KeysOnce DEF ModuleTable
<1>5. Key(a, b) = k /\ k # Owner /\ k \notin assigned
  BY <1>4, NamesAre DEF Key
<1>6. ASSUME NEW j \in Used, NEW c \in DOMAIN inner[usings[j]], j > a, Key(j, c) = k
      PROVE  FALSE
  <2>1. j \in a + 1 .. Len(usings)
    BY <1>2, <1>6 DEF Used
  <2> QED
    BY <2>1, <1>1, <1>6 DEF Key, Has
<1>7. Passed(a, b)
  BY <1>1 DEF Passed
<1>8. PICK h \in DOMAIN own : own[h].key = k /\ own[h].value = Alias(m, b)
  BY <1>2, <1>4, <1>5, <1>6, <1>7 DEF Entered
<1>9. Has(own, k) /\ At(own, k) = h
  BY <1>3, <1>8, KeysOnce
<1>10. TableOf(None) = own /\ TableOf(m) = inner[m]
  BY <1>2 DEF TableOf
<1>11. EntryOf(None, k) = own[h] /\ EntryOf(m, k) = inner[m][b]
  BY <1>9, <1>10 DEF EntryOf
<1>12. /\ Alias(m, b) # Null /\ Alias(m, b).kind = "alias"
       /\ Alias(m, b).of = m /\ Alias(m, b).at = b
  BY DEF Alias, Null
<1>13. own[h].constraint.read \in Accesses
  BY <1>3, <1>8, KeysOnce DEF Entries, Constraints
<1>14. MayRead(None, None, own[h].constraint.read)
  BY <1>13 DEF MayRead, IsInstance, Accesses
<1> HIDE DEF b, m
<1>15. FindVariable(None, k, None) = inner[m][b].value
  BY <1>8, <1>9, <1>10, <1>11, <1>12, <1>14 DEF FindVariable
<1> QED
  BY <1>11, <1>15 DEF m

(* What mk_append_using_variable (vm.c:438-482) does of names in conflict:  *)
(* read by its bare name, an instance variable is the one of the module     *)
(* used last, whichever modules bring it and whatever the class declares.   *)
(* It ends with the first assignment by that name, which replaces the alias *)
(* (classReference.c:74) where module.txt:63-72 wants the module's variable *)
(* to change: this says what the code does and not what the page asks.      *)
THEOREM LastModuleWinsAlways == Spec => []LastModuleWins
<1>1. Init => TInv
  BY TypesAtStart
<1>2. Init => Entered
  BY DEF Init, Entered, Passed
<1>3. TInv /\ [Next]_vars => TInv'
  BY TypesKept
<1>4. TInv /\ Entered /\ [Next]_vars => Entered'
  BY EnteredKept
<1>5. TInv /\ Entered => LastModuleWins
  BY SharedIs
<1> QED
  BY <1>1, <1>2, <1>3, <1>4, <1>5, PTL DEF Spec

-----------------------------------------------------------------------------
(* Access.  A member that has been made has an entry, and its entry says   *)
(* of the access what the class says.                                      *)
Says(t, k, r) == \E i \in DOMAIN t : t[i].key = k /\ t[i].constraint.read = r

RInv ==
  /\ phase = "class" => done = {}
  /\ phase # "failed" => \A k \in done \cap MemberNames : Says(own, k, members[k].read)

LEMMA SaysAfterInserted ==
  ASSUME NEW t, IsTable(t), NEW k \in Names, NEW v \in Contents, NEW c \in Constraints,
         NEW j, NEW r, Says(t, j, r)
  PROVE  Says(Inserted(t, k, v, c), j, r)
<1> DEFINE u == Inserted(t, k, v, c)
<1>1. PICK i \in DOMAIN t : t[i].key = j /\ t[i].constraint.read = r
  BY DEF Says
<1>2. CASE j = k
  <2>1. Has(t, k)
    BY <1>1, <1>2 DEF Has
  <2>2. i \in DOMAIN u /\ u[i].key = t[i].key /\ u[i].constraint = t[i].constraint
    BY <2>1, InsertedIs
  <2> QED
    BY <2>2, <1>1 DEF Says
<1>3. CASE j # k
  <2>1. \E h \in DOMAIN u : u[h] = t[i]
    BY <1>1, <1>3, InsertedIs
  <2> QED
    BY <2>1, <1>1 DEF Says
<1> QED
  BY <1>2, <1>3

LEMMA SaysAfterStored ==
  ASSUME NEW t, IsTable(t), NEW k \in Names, NEW v \in Contents, NEW c \in Constraints
  PROVE  /\ Says(Stored(t, k, v, c), k, c.read)
         /\ \A j, r : j # k /\ Says(t, j, r) => Says(Stored(t, k, v, c), j, r)
<1> DEFINE w == Inserted(t, k, v, c)
           u == Stored(t, k, v, c)
           a == At(w, k)
<1>1. IsTable(w) /\ \E i \in DOMAIN w : w[i].key = k
  BY InsertedIs
<1>2. /\ w \in Seq(Entries) /\ DOMAIN w = 1 .. Len(w)
      /\ a \in DOMAIN w /\ w[a].key = k /\ w[a] \in Entries
  BY <1>1, KeysOnce DEF Has
<1>3. u = [w EXCEPT ![a].constraint = c]
  BY DEF Stored
<1>4. \A i \in DOMAIN u : u[i] = Entry(k, v, c) \/ u[i].key # k
  BY StoredIs
<1>5. \A i \in DOMAIN t : t[i].key # k => \E h \in DOMAIN u : u[h] = t[i]
  BY StoredIs
<1> HIDE DEF w, a
<1>6. a \in DOMAIN u /\ u[a] = [w[a] EXCEPT !.constraint = c]
  BY <1>2, <1>3
<1>7. u[a].key = k /\ u[a].constraint = c
  BY <1>2, <1>6 DEF Entries
<1>8. Says(u, k, c.read)
  BY <1>6, <1>7 DEF Says
<1>9. \A j, r : j # k /\ Says(t, j, r) => Says(u, j, r)
  BY <1>5 DEF Says
<1> QED
  BY <1>8, <1>9

LEMMA ReadsKept == TInv /\ RInv /\ [Next]_vars => RInv'
<1> SUFFICES ASSUME TInv, RInv, [Next]_vars PROVE RInv'
  OBVIOUS
<1>0. IsTable(own) /\ done \subseteq DOMAIN members
  BY DEF TInv, TypeOK
<1>1. CASE Member \/ Import \/ Using \/ New
  <2>1. phase = "class" /\ done = {} /\ UNCHANGED done
    BY <1>1 DEF Member, Import, Using, New, Builds, RInv
  <2> QED
    BY <2>1 DEF RInv
<1>2. CASE AppendVariable
  <2>1. phase = "members" /\ UNCHANGED members
    BY <1>2, MemberIs
  <2>2. PICK k \in MemberNames :
              /\ done' = done \cup {k}
              /\ \/ phase' = "failed" /\ UNCHANGED own
                 \/ \E v \in FirstValue(members[k]) :
                      /\ UNCHANGED phase
                      /\ own' = Stored(own, k, v, ConstraintOf(members[k]))
                      /\ ConstraintOf(members[k]) \in Constraints /\ v \in Contents
    BY <1>2, MemberIs
  <2>3. CASE phase' = "failed"
    BY <2>3 DEF RInv
  <2>4. CASE phase' # "failed"
    <3>1. PICK v \in FirstValue(members[k]) :
                      /\ UNCHANGED phase
                      /\ own' = Stored(own, k, v, ConstraintOf(members[k]))
                      /\ ConstraintOf(members[k]) \in Constraints /\ v \in Contents
      BY <2>2, <2>4
    <3>2. ConstraintOf(members[k]).read = members[k].read
      BY DEF ConstraintOf
    <3>3. /\ Says(own', k, members[k].read)
          /\ \A j, r : j # k /\ Says(own, j, r) => Says(own', j, r)
      BY <3>1, <3>2, <1>0, SaysAfterStored, NamesAre
    <3>4. \A j \in done' \cap MemberNames : Says(own', j, members'[j].read)
      BY <3>3, <2>1, <2>2 DEF RInv
    <3> QED
      BY <3>1, <3>4, <2>1 DEF RInv, Says
  <2> QED
    BY <2>3, <2>4
<1>3. CASE AppendModule
  <2>1. phase = "members" /\ UNCHANGED members
    BY <1>3, ModuleIs
  <2>2. PICK k \in ImportNames :
              /\ done' = done \cup {k}
              /\ \/ phase' = "failed"
                 \/ /\ UNCHANGED phase
                    /\ own' = Stored(own, k, Instance(k), FinalOnly)
                    /\ Instance(k) \in Contents /\ FinalOnly \in Constraints
    BY <1>3, ModuleIs
  <2>3. CASE phase' = "failed"
    BY <2>3 DEF RInv
  <2>4. CASE phase' # "failed"
    <3>1. \A j, r : j # k /\ Says(own, j, r) => Says(own', j, r)
      BY <2>2, <2>4, <1>0, SaysAfterStored, NamesAre
    <3>2. \A j \in done' \cap MemberNames : Says(own', j, members'[j].read)
      BY <3>1, <2>1, <2>2, NamesAre DEF RInv
    <3> QED
      BY <3>2, <2>1, <2>2, <2>4 DEF RInv, Says
  <2> QED
    BY <2>3, <2>4
<1>4. CASE BeginUsing
  BY <1>4 DEF BeginUsing, RInv, Says
<1>5. CASE Use
  <2> DEFINE m == usings[next[1]]
             i == next[2]
             k == inner[m][i].key
  <2>1. phase = "using" /\ UNCHANGED <<phase, members, done>> /\ k \in Names
    BY <1>5, UseIs
  <2>2. \/ UNCHANGED own
        \/ /\ Alias(m, i) \in Contents
           /\ \E left \in Constraints : own' = Inserted(own, k, Alias(m, i), left)
    BY <1>5, UseIs
  <2> HIDE DEF m, i, k
  <2>3. \A j, r : Says(own, j, r) => Says(own', j, r)
    BY <2>1, <2>2, <1>0, SaysAfterInserted
  <2>4. \A j \in done' \cap MemberNames : Says(own', j, members'[j].read)
    BY <2>1, <2>3 DEF RInv
  <2> QED
    BY <2>1, <2>4 DEF RInv, Says
<1>6. CASE EndUsing
  <2>1. /\ phase = "using" /\ phase' = "run" /\ UNCHANGED <<members, done>>
        /\ own' = Stored(own, Super, Object, FinalOnly)
    BY <1>6 DEF EndUsing
  <2>2. \A j, r : j # Super /\ Says(own, j, r) => Says(own', j, r)
    BY <2>1, <1>0, SaysAfterStored, NamesAre, ConstraintsAre DEF Contents
  <2>3. \A j \in done' \cap MemberNames : Says(own', j, members'[j].read)
    BY <2>1, <2>2, NamesAre DEF RInv
  <2> QED
    BY <2>1, <2>3 DEF RInv, Says
<1>7. CASE Assign
  <2>1. PICK x \in Objects, k \in MemberNames \cup ImportNames, v \in Values :
           LET t == Inserted(TableOf(x), k, Item(v), FinalOnly) IN
           /\ phase = "run"
           /\ k \in Names /\ Item(v) \in Contents /\ FinalOnly \in Constraints
           /\ IF x = None THEN own' = t ELSE UNCHANGED own
           /\ UNCHANGED <<phase, members, done>>
    BY <1>7, AssignIs
  <2>2. \A j, r : Says(own, j, r) => Says(own', j, r)
    <3>1. CASE x = None
      BY <3>1, <2>1, <1>0, SaysAfterInserted DEF TableOf
    <3>2. CASE x # None
      BY <3>2, <2>1
    <3> QED
      BY <3>1, <3>2
  <2>3. \A j \in done' \cap MemberNames : Says(own', j, members'[j].read)
    BY <2>1, <2>2 DEF RInv
  <2> QED
    BY <2>1, <2>3 DEF RInv, Says
<1>8. CASE UNCHANGED vars
  BY <1>8 DEF vars, RInv, Says
<1> QED
  BY <1>1, <1>2, <1>3, <1>4, <1>5, <1>6, <1>7, <1>8 DEF Next

(* Whose methods read a member of the object: the name of the class        *)
(* decides, and a module has the class as its owner.                       *)
LEMMA WhoReads ==
  ASSUME TInv, phase = "run", NEW r \in Accesses
  PROVE  /\ MayRead(None, None, r)
         /\ MayRead(Outside, None, r) <=> r = "public"
         /\ \A m \in DOMAIN inner : MayRead(m, None, r) <=> r # "private"
<1>1. /\ DOMAIN inner \subseteq ImportNames /\ None \notin DOMAIN inner
      /\ Outside \notin DOMAIN inner /\ Outside # None
  <2>1. \A m \in DOMAIN inner : m \in ImportNames
    BY DEF TInv, Progress
  <2> QED
    BY <2>1, MkModulesAssumption, NamesAre DEF Names
<1>2. ClassOf(None) = None /\ ClassOf(Outside) = Outside
  BY DEF ClassOf
<1>3. \A m \in DOMAIN inner : ClassOf(m) # None
  <2> SUFFICES ASSUME NEW m \in DOMAIN inner PROVE ClassOf(m) # None
    OBVIOUS
  <2>1. members[m] \in [module : DOMAIN Modules]
    BY <1>1, NamesAre DEF TInv, TypeOK
  <2>2. ClassOf(m) = members[m].module
    BY <1>1 DEF ClassOf
  <2> QED
    BY <2>1, <2>2, MkModulesAssumption
<1> QED
  BY <1>1, <1>2, <1>3 DEF MayRead, IsInstance, Accesses

LEMMA AccessIs == TInv /\ RInv => DeclaredAccess
<1> SUFFICES ASSUME TInv, RInv, phase = "run", NEW k \in MemberNames \cap DOMAIN members
             PROVE  LET value == FindVariable(None, k, None)
                        read  == members[k].read
                    IN /\ FindVariable(None, k, Outside) = IF read = "public" THEN value ELSE Null
                       /\ \A m \in DOMAIN inner :
                            ~Has(inner[m], k) => FindVariable(m, k, m) = IF read = "private" THEN Null ELSE value
  BY DEF DeclaredAccess
<1> DEFINE read == members[k].read
           e == EntryOf(None, k)
           c == IF e.value.kind = "alias" THEN inner[e.value.of][e.value.at].value ELSE e.value
<1>1. IsTable(own) /\ k \in done /\ None \notin DOMAIN inner
  <2>1. DOMAIN inner \subseteq ImportNames
    BY DEF TInv, TypeOK, Progress
  <2> QED
    BY <2>1, NamesAre DEF TInv, TypeOK, Progress
<1>2. PICK i \in DOMAIN own : own[i].key = k /\ own[i].constraint.read = read
  BY <1>1 DEF RInv, Says
<1>3. TableOf(None) = own /\ \A m \in DOMAIN inner : TableOf(m) = inner[m]
  BY <1>1 DEF TableOf
<1>4. Has(own, k) /\ e = own[i]
  BY <1>1, <1>2, <1>3, KeysOnce DEF EntryOf
<1>5. e.constraint.read = read /\ read \in Accesses
  BY <1>1, <1>2, <1>4, KeysOnce DEF Entries, Constraints
<1> HIDE DEF read, e
<1>6. \A this : FindVariable(None, k, this) =
        IF e.value # Null /\ MayRead(this, None, read) THEN c ELSE Null
  BY <1>3, <1>4, <1>5 DEF FindVariable, e
<1>7. \A m \in DOMAIN inner : ~Has(inner[m], k) => \A this :
        FindVariable(m, k, this) = IF e.value # Null /\ MayRead(this, None, read) THEN c ELSE Null
  BY <1>3, <1>4, <1>5 DEF FindVariable, e
<1> HIDE DEF c
<1>8. /\ MayRead(None, None, read)
      /\ MayRead(Outside, None, read) <=> read = "public"
      /\ \A m \in DOMAIN inner : MayRead(m, None, read) <=> read # "private"
  BY <1>5, WhoReads
<1>9. FindVariable(None, k, Outside) = IF read = "public" THEN FindVariable(None, k, None) ELSE Null
  BY <1>6, <1>8
<1>10. ASSUME NEW m \in DOMAIN inner, ~Has(inner[m], k)
       PROVE  FindVariable(m, k, m) = IF read = "private" THEN Null ELSE FindVariable(None, k, None)
  <2>1. FindVariable(m, k, m) = IF e.value # Null /\ MayRead(m, None, read) THEN c ELSE Null
    BY <1>7, <1>10
  <2>2. FindVariable(None, k, None) = IF e.value # Null THEN c ELSE Null
    BY <1>6, <1>8
  <2> QED
    BY <2>1, <2>2, <1>8
<1> QED
  BY <1>9, <1>10 DEF read

(* The declared access of a member is the one that holds for its readers,  *)
(* whatever is entered before and after it.                                *)
THEOREM DeclaredAlways == Spec => []DeclaredAccess
<1>1. Init => TInv
  BY TypesAtStart
<1>2. Init => RInv
  BY DEF Init, RInv
<1>3. TInv /\ [Next]_vars => TInv'
  BY TypesKept
<1>4. TInv /\ RInv /\ [Next]_vars => RInv'
  BY ReadsKept
<1>5. TInv /\ RInv => DeclaredAccess
  BY AccessIs
<1> QED
  BY <1>1, <1>2, <1>3, <1>4, <1>5, PTL DEF Spec
=============================================================================
