-------------------------- MODULE MkHashTableProofs --------------------------
(***************************************************************************)
(* Proofs about MkHashTable, for every set of names and values, every size *)
(* the array begins with and every amount it grows by: the table is a      *)
(* dictionary, a declared variable keeps its constraint, and a final one   *)
(* its value, but for "using".                                             *)
(***************************************************************************)
EXTENDS MkHashTable, TLAPS

(* The entries in use hold names.                                          *)
Defined == \A i \in 0 .. used - 1 : elems[i].key \in Keys

(* A table that serves nothing is empty; no search is on without a caller. *)
Idle == /\ life = "free" => request = None /\ used = 0
        /\ request = None => low = 0 /\ high = -1

(* What the halving has left out lies on the right side of the key.        *)
Searched ==
  request # None =>
    /\ low <= high + 1
    /\ \A i \in 0 .. low - 1 : elems[i].key < request.key
    /\ \A i \in high + 1 .. used - 1 : elems[i].key > request.key

IInv == TypeOK /\ Sorted /\ Defined /\ Idle /\ Searched

-----------------------------------------------------------------------------
LEMMA Plain ==
  /\ Keys \subseteq Int /\ \A k \in Keys : AsInt(k) = k
  /\ DefaultSize \in Nat \ {0} /\ Extend \in Nat \ {0}
  /\ Fresh \subseteq Constraints /\ Absent \notin Values /\ Absent \notin Keys
  /\ Super \in Keys
BY MkHashTableAssumption

LEMMA RequestIs ==
  ASSUME NEW r \in Requests
  PROVE  /\ r # None /\ r.key \in Keys /\ r.constraint \in Constraints
         /\ r.op \in {"declare", "parameter", "reserve", "alias", "assign", "find", "refer"}
         /\ r.op \in Writes => r.value \in Values
         /\ r.op \in Writes \/ r.op \in {"find", "refer"}
BY NoneAssumption DEF Requests, Writes, Bare, Constraints

(* The entry a search looks at.                                            *)
LEMMA MidIs ==
  ASSUME IInv, Searching
  PROVE  /\ request \in Requests /\ Mid \in low .. high /\ Mid \in 0 .. used - 1
         /\ Mid \in 0 .. size - 1 /\ elems[Mid] \in Entries
         /\ elems[Mid].key \in Keys /\ AsInt(elems[Mid].key) = elems[Mid].key
<1>1. /\ request \in Requests /\ low \in 0 .. used /\ high \in -1 .. used - 1 /\ low <= high
      /\ used \in 0 .. size /\ size \in Nat
  BY DEF Searching, IInv, TypeOK
<1>2. Mid \in low .. high
  BY <1>1 DEF Mid
<1>3. Mid \in 0 .. used - 1 /\ Mid \in 0 .. size - 1
  BY <1>1, <1>2
<1> QED
  BY <1>1, <1>2, <1>3, Plain DEF IInv, TypeOK, Defined

(* A search that is over has passed every entry.                           *)
LEMMA MissIs ==
  ASSUME IInv, Miss
  PROVE  /\ request \in Requests /\ low \in 0 .. used
         /\ \A i \in 0 .. low - 1 : elems[i].key < request.key
         /\ \A i \in low .. used - 1 : elems[i].key > request.key
         /\ ~Has(request.key)
<1>1. /\ request \in Requests /\ low \in 0 .. used /\ high \in -1 .. used - 1 /\ low > high
      /\ used \in Nat
  BY DEF Miss, IInv, TypeOK
<1>2. low = high + 1
  BY <1>1 DEF Miss, IInv, Searched
<1>3. /\ \A i \in 0 .. low - 1 : elems[i].key < request.key
      /\ \A i \in low .. used - 1 : elems[i].key > request.key
  BY <1>1, <1>2 DEF Miss, IInv, Searched
<1>4. ASSUME NEW i \in 0 .. used - 1 PROVE elems[i].key # request.key
  <2>1. elems[i].key \in Int /\ request.key \in Int
    BY <1>1, Plain, RequestIs DEF IInv, Defined
  <2>2. i \in 0 .. low - 1 \/ i \in low .. used - 1
    BY <1>1
  <2> QED
    BY <1>3, <2>1, <2>2
<1> QED
  BY <1>1, <1>3, <1>4 DEF Has

(* The value of a name is that of the one entry with the name.             *)
LEMMA ValueIs ==
  IInv => \A k : /\ \A i \in 0 .. used - 1 :
                      elems[i].key = k => Has(k) /\ ValueOf(k) = elems[i].value
                 /\ ~Has(k) => ValueOf(k) = Absent
<1> SUFFICES ASSUME IInv, NEW k
             PROVE  /\ \A i \in 0 .. used - 1 :
                         elems[i].key = k => Has(k) /\ ValueOf(k) = elems[i].value
                    /\ ~Has(k) => ValueOf(k) = Absent
  OBVIOUS
<1>1. ASSUME NEW i \in 0 .. used - 1, elems[i].key = k
      PROVE  Has(k) /\ ValueOf(k) = elems[i].value
  <2> DEFINE j == CHOOSE j \in 0 .. used - 1 : elems[j].key = k
  <2>1. Has(k)
    BY <1>1 DEF Has
  <2>2. j \in 0 .. used - 1 /\ elems[j].key = k
    BY <1>1
  <2>3. ValueOf(k) = elems[j].value
    BY <2>1 DEF ValueOf
  <2> HIDE DEF j
  <2>4. k \in Int
    BY <1>1, Plain DEF IInv, Defined
  <2>5. ~(i < j) /\ ~(j < i)
    BY <1>1, <2>2, <2>4 DEF IInv, Sorted
  <2>6. i = j
    BY <2>2, <2>5
  <2> QED
    BY <2>1, <2>3, <2>6
<1> QED
  BY <1>1 DEF ValueOf

-----------------------------------------------------------------------------
(* What an insertion does to the array.                                    *)

(* Writing puts the key, the value and what was declared of the variable   *)
(* at the place, whatever was there.                                       *)
LEMMA WrittenIs ==
  ASSUME NEW n \in Nat, NEW m \in [0 .. n - 1 -> Entries], NEW at \in 0 .. n - 1,
         NEW r \in Requests, r.op \in Writes
  PROVE  LET w == Written(m, at, r) IN
         /\ w \in [0 .. n - 1 -> Entries]
         /\ w[at].key = r.key /\ w[at].value = r.value
         /\ w[at].constraint = ConstraintOf(r, m[at])
         /\ \A i \in 0 .. n - 1 : i # at => w[i] = m[i]
<1> DEFINE w == Written(m, at, r)
           f == [key |-> r.key, value |-> r.value, constraint |-> ConstraintOf(r, m[at])]
<1>1. f \in Entries
  <2>1. m[at] \in Entries
    OBVIOUS
  <2>2. ConstraintOf(r, m[at]) \in Constraints
    BY <2>1, RequestIs DEF ConstraintOf, Entries
  <2> QED
    BY <2>2, RequestIs DEF Entries
<1>2. w = [m EXCEPT ![at] = f]
  BY DEF Written
<1>3. f.key = r.key /\ f.value = r.value /\ f.constraint = ConstraintOf(r, m[at])
  OBVIOUS
<1> HIDE DEF f, w
<1> QED
  BY <1>1, <1>2, <1>3 DEF w

LEMMA MovedIs ==
  ASSUME NEW n \in Nat, NEW e \in [0 .. n - 1 -> Entries], NEW at \in 0 .. used, used \in Nat,
         used < n, NEW r \in Requests, r.op \in Writes
  PROVE  LET w == Written(MovedUp(e, at), at, r) IN
         /\ w \in [0 .. n - 1 -> Entries]
         /\ w[at].key = r.key /\ w[at].value = r.value
         /\ r.op = "declare" => w[at].constraint = r.constraint
         /\ \A i \in 0 .. at - 1 : w[i] = e[i]
         /\ \A i \in at + 1 .. used : w[i] = e[i - 1]
<1> DEFINE w == Written(MovedUp(e, at), at, r)
           m == MovedUp(e, at)
<1>1. at \in 0 .. n - 1 /\ at \in Int /\ n \in Int /\ DOMAIN e = 0 .. n - 1
  OBVIOUS
<1>2. \A i \in 0 .. n - 1 : m[i] = IF at < i /\ at < used THEN e[i - 1] ELSE e[i]
  BY <1>1 DEF MovedUp
<1>3. m \in [0 .. n - 1 -> Entries]
  <2>1. ASSUME NEW i \in 0 .. n - 1 PROVE m[i] \in Entries
    <3>1. CASE at < i /\ at < used
      <4>1. i - 1 \in 0 .. n - 1
        BY <1>1, <3>1
      <4> QED
        BY <1>2, <3>1, <4>1
    <3>2. CASE ~(at < i /\ at < used)
      BY <1>2, <3>2
    <3> QED
      BY <3>1, <3>2
  <2>2. m = [i \in 0 .. n - 1 |-> m[i]]
    BY <1>1 DEF MovedUp
  <2> HIDE DEF m
  <2> QED
    BY <2>1, <2>2
<1> HIDE DEF m
<1>7. /\ w \in [0 .. n - 1 -> Entries]
      /\ w[at].key = r.key /\ w[at].value = r.value /\ w[at].constraint = ConstraintOf(r, m[at])
      /\ \A i \in 0 .. n - 1 : i # at => w[i] = m[i]
  <2>1. w = Written(m, at, r)
    BY DEF w, m
  <2> HIDE DEF w
  <2> QED
    BY <1>1, <1>3, <2>1, WrittenIs
<1>6. r.op = "declare" => w[at].constraint = r.constraint
  BY <1>7 DEF ConstraintOf
<1> HIDE DEF w
<1>8. ASSUME NEW i \in 0 .. at - 1 PROVE w[i] = e[i]
  <2>1. i \in 0 .. n - 1 /\ i # at /\ ~(at < i)
    BY <1>1
  <2> QED
    BY <1>2, <1>7, <2>1
<1>9. ASSUME NEW i \in at + 1 .. used PROVE w[i] = e[i - 1]
  <2>1. i \in 0 .. n - 1 /\ i # at /\ at < i /\ at < used
    BY <1>1
  <2> QED
    BY <1>2, <1>7, <2>1
<1> QED
  BY <1>6, <1>7, <1>8, <1>9 DEF w

LEMMA InsertIs ==
  ASSUME IInv, Insert
  PROVE  /\ size' \in Nat /\ used' = used + 1 /\ used' \in 0 .. size'
         /\ elems' \in [0 .. size' - 1 -> Entries]
         /\ elems'[low].key = request.key /\ elems'[low].value = request.value
         /\ request.op = "declare" => elems'[low].constraint = request.constraint
         /\ \A i \in 0 .. low - 1 : elems'[i] = elems[i]
         /\ \A i \in low + 1 .. used : elems'[i] = elems[i - 1]
<1>1. /\ size \in Nat /\ used \in 0 .. size /\ elems \in [0 .. size - 1 -> Entries]
      /\ request \in Requests /\ request.op \in Writes /\ low \in 0 .. used /\ used' = used + 1
      /\ used \in Nat
  BY MissIs DEF Insert, Stored, IInv, TypeOK
<1>2. \E n, e : /\ n \in Nat /\ n = size' /\ used < n /\ e \in [0 .. n - 1 -> Entries]
                /\ \A i \in 0 .. used - 1 : e[i] = elems[i]
                /\ elems' = Written(MovedUp(e, low), low, request)
  <2>1. CASE used = size
    <3>1. size' = size + Extend
      BY <2>1 DEF Insert
    <3>2. PICK c \in [size .. size + Extend - 1 -> Fresh] :
            elems' = Written(MovedUp(Grown(c), low), low, request)
      BY <2>1 DEF Insert
    <3> DEFINE e == Grown(c)
    <3>3. size' \in Nat /\ used < size'
      BY <1>1, <2>1, <3>1, Plain
    <3>4. ASSUME NEW i \in 0 .. size + Extend - 1
          PROVE  (IF i < size THEN elems[i] ELSE Uninitialised(c[i])) \in Entries
      <4>1. CASE i < size
        BY <1>1, <4>1
      <4>2. CASE i >= size
        <5>1. c[i] \in Constraints
          BY <1>1, <3>2, <4>2, Plain
        <5> QED
          BY <1>1, <4>2, <5>1 DEF Uninitialised, Entries
      <4> QED
        BY <1>1, <4>1, <4>2, Plain
    <3>5. e \in [0 .. (size + Extend) - 1 -> Entries]
      <4>1. e \in [0 .. size + Extend - 1 -> Entries]
        BY <3>4 DEF Grown
      <4>2. size + Extend - 1 = (size + Extend) - 1
        BY <1>1, Plain
      <4> HIDE DEF e
      <4> QED
        BY <4>1, <4>2
    <3>6. \A i \in 0 .. used - 1 : e[i] = elems[i]
      BY <1>1, <2>1, Plain DEF Grown
    <3> HIDE DEF e
    <3>7. elems' = Written(MovedUp(e, low), low, request)
      BY <3>2 DEF e
    <3> DEFINE n == size + Extend
    <3>8. n = size'
      BY <3>1
    <3>9. e \in [0 .. n - 1 -> Entries]
      BY <3>5
    <3> HIDE DEF n
    <3> QED
      BY <3>3, <3>6, <3>7, <3>8, <3>9
  <2>2. CASE used # size
    <3>1. size' = size /\ elems' = Written(MovedUp(elems, low), low, request)
      BY <2>2 DEF Insert
    <3> QED
      BY <1>1, <2>2, <3>1
  <2> QED
    BY <2>1, <2>2
<1>3. PICK n, e : /\ n \in Nat /\ n = size' /\ used < n /\ e \in [0 .. n - 1 -> Entries]
                  /\ \A i \in 0 .. used - 1 : e[i] = elems[i]
                  /\ elems' = Written(MovedUp(e, low), low, request)
  BY <1>2
<1> DEFINE w == Written(MovedUp(e, low), low, request)
<1>4. /\ w \in [0 .. n - 1 -> Entries]
      /\ w[low].key = request.key /\ w[low].value = request.value
      /\ request.op = "declare" => w[low].constraint = request.constraint
      /\ \A i \in 0 .. low - 1 : w[i] = e[i]
      /\ \A i \in low + 1 .. used : w[i] = e[i - 1]
  <2>1. n \in Nat /\ used < n
    BY <1>3
  <2>2. e \in [0 .. n - 1 -> Entries]
    BY <1>3
  <2> HIDE <1>3
  <2> QED
    BY <1>1, <2>1, <2>2, MovedIs
<1>w. elems' = w
  BY <1>3
<1> HIDE DEF w
<1>5. \A i \in 0 .. low - 1 : w[i] = elems[i]
  <2>1. \A i \in 0 .. low - 1 : i \in 0 .. used - 1
    BY <1>1
  <2> QED
    BY <1>3, <1>4, <2>1
<1>6. \A i \in low + 1 .. used : w[i] = elems[i - 1]
  <2>1. \A i \in low + 1 .. used : i - 1 \in 0 .. used - 1
    BY <1>1
  <2> QED
    BY <1>3, <1>4, <2>1
<1>7. used + 1 \in 0 .. n
  BY <1>1, <1>3
<1> QED
  BY <1>1, <1>3, <1>4, <1>5, <1>6, <1>7, <1>w

-----------------------------------------------------------------------------
(* The invariant is inductive.                                             *)

LEMMA InitIs == Init => IInv
BY Plain DEF Init, IInv, TypeOK, Sorted, Defined, Idle, Searched, Lives, Uninitialised

LEMMA AllocateKeeps == ASSUME IInv, Allocate PROVE IInv'
<1>1. /\ request = None /\ request' = None /\ used' = 0 /\ low' = 0 /\ high' = -1
      /\ life' \in Lives /\ life' # "free" /\ UNCHANGED <<answer, reference, declared>>
  BY DEF IInv, Idle, Allocate, Lives
<1>2. size' \in Nat /\ elems' \in [0 .. size' - 1 -> Entries]
  <2>1. CASE size = DefaultSize
    <3>1. size' = size /\ elems' = elems
      BY <2>1 DEF Allocate
    <3> QED
      BY <3>1 DEF IInv, TypeOK
  <2>2. CASE size # DefaultSize
    <3>1. size' = DefaultSize
      BY <2>2 DEF Allocate
    <3>2. PICK c \in [0 .. DefaultSize - 1 -> Fresh] :
            elems' = [i \in 0 .. DefaultSize - 1 |-> Uninitialised(c[i])]
      BY <2>2 DEF Allocate
    <3>3. \A i \in 0 .. DefaultSize - 1 : Uninitialised(c[i]) \in Entries
      BY <3>2, Plain DEF Uninitialised, Entries
    <3> QED
      BY <3>1, <3>2, <3>3, Plain
  <2> QED
    BY <2>1, <2>2
<1>3. used' \in 0 .. size' /\ low' \in 0 .. used' /\ high' \in -1 .. used' - 1
  BY <1>1, <1>2
<1>4. TypeOK'
  BY <1>1, <1>2, <1>3 DEF IInv, TypeOK
<1> QED
  BY <1>1, <1>4 DEF IInv, Sorted, Defined, Idle, Searched

LEMMA SweepKeeps == ASSUME IInv, Sweep PROVE IInv'
<1>1. /\ request' = None /\ used' = 0 /\ low' = 0 /\ high' = -1 /\ life' = "free"
      /\ size' = size /\ elems' = elems /\ declared' = [k \in Keys |-> "no"]
      /\ UNCHANGED <<answer, reference>>
  BY DEF Sweep
<1>2. TypeOK'
  BY <1>1 DEF IInv, TypeOK, Lives
<1> QED
  BY <1>1, <1>2 DEF IInv, Sorted, Defined, Idle, Searched

LEMMA AskKeeps == ASSUME IInv, NEW r \in Requests, Ask(r) PROVE IInv'
<1>1. /\ request' = r /\ r # None /\ low' = 0 /\ high' = used - 1
      /\ life' \in Lives /\ life' # "free"
      /\ UNCHANGED <<size, used, elems, answer, reference, declared>>
  BY RequestIs DEF Ask, LifeAfter, Searches, IInv, TypeOK, Lives
<1>2. TypeOK'
  BY <1>1 DEF IInv, TypeOK
<1>3. Sorted' /\ Defined' /\ Idle'
  BY <1>1 DEF IInv, Sorted, Defined, Idle
<1>4. Searched'
  <2>1. used \in Nat
    BY DEF IInv, TypeOK
  <2> QED
    BY <1>1, <2>1 DEF Searched
<1> QED
  BY <1>2, <1>3, <1>4 DEF IInv

LEMMA RefusedKeeps == ASSUME IInv, Refused PROVE IInv'
BY DEF Refused, IInv, TypeOK, Sorted, Defined, Idle, Searched

LEMMA CompareKeeps == ASSUME IInv, Compare PROVE IInv'
<1> DEFINE m == Mid
           k == elems[m].key
<1>1. /\ request \in Requests /\ m \in low .. high /\ m \in 0 .. used - 1 /\ k \in Keys
      /\ AsInt(k) = k /\ k # request.key /\ used \in Nat
      /\ low \in 0 .. used /\ high \in -1 .. used - 1
  BY MidIs DEF Compare, IInv, TypeOK
<1>2. k \in Int /\ request.key \in Int /\ request # None
  BY <1>1, Plain, RequestIs
<1>3. IF k < request.key THEN low' = m + 1 /\ high' = high ELSE low' = low /\ high' = m - 1
  BY <1>1 DEF Compare, Bounds
<1>4. UNCHANGED <<life, size, used, elems, request, answer, reference, declared>>
  BY DEF Compare
<1>5. \A i \in 0 .. used - 1 : /\ elems[i].key \in Int
                               /\ i < m => elems[i].key < k
                               /\ m < i => k < elems[i].key
  BY <1>1, Plain DEF IInv, Defined, Sorted
<1> HIDE DEF m, k
<1>6. TypeOK'
  <2>1. low' \in 0 .. used /\ high' \in -1 .. used - 1
    BY <1>1, <1>3
  <2> QED
    BY <1>4, <2>1 DEF IInv, TypeOK
<1>7. Sorted' /\ Defined' /\ Idle'
  BY <1>2, <1>4 DEF IInv, Sorted, Defined, Idle
<1>8. Searched'
  <2>1. /\ \A i \in 0 .. low - 1 : elems[i].key < request.key
        /\ \A i \in high + 1 .. used - 1 : elems[i].key > request.key
    BY <1>2 DEF IInv, Searched
  <2>2. CASE k < request.key
    <3>1. low' = m + 1 /\ high' = high
      BY <1>3, <2>2
    <3>2. ASSUME NEW i \in 0 .. m PROVE elems[i].key < request.key
      <4>1. i \in 0 .. used - 1 /\ (i < m \/ i = m)
        BY <1>1
      <4> QED
        BY <1>2, <1>5, <2>2, <4>1 DEF k
    <3>3. m <= high /\ 0 .. (m + 1) - 1 = 0 .. m /\ m + 1 <= high + 1
      BY <1>1
    <3> QED
      BY <1>4, <2>1, <3>1, <3>2, <3>3 DEF Searched
  <2>3. CASE ~(k < request.key)
    <3>1. low' = low /\ high' = m - 1 /\ k > request.key
      BY <1>1, <1>2, <1>3, <2>3
    <3>2. ASSUME NEW i \in m .. used - 1 PROVE elems[i].key > request.key
      <4>1. i \in 0 .. used - 1 /\ (m < i \/ i = m)
        BY <1>1
      <4> QED
        BY <1>2, <1>5, <3>1, <4>1 DEF k
    <3>3. low <= (m - 1) + 1 /\ (m - 1) + 1 .. used - 1 = m .. used - 1
      BY <1>1
    <3> QED
      BY <1>4, <2>1, <3>1, <3>2, <3>3 DEF Searched
  <2> QED
    BY <2>2, <2>3
<1> QED
  BY <1>6, <1>7, <1>8 DEF IInv

(* A replacement changes the entry with the key, nothing else; and what    *)
(* the entry says of constraints only if the caller declares.              *)
LEMMA ReplaceIs ==
  ASSUME IInv, Replace
  PROVE  /\ request \in Requests /\ request.op \in Writes /\ Mid \in 0 .. used - 1
         /\ elems[Mid].key = request.key /\ elems'[Mid].value = request.value
         /\ elems'[Mid].constraint = ConstraintOf(request, elems[Mid])
         /\ UNCHANGED <<life, size, used, answer>>
         /\ elems' \in [0 .. size - 1 -> Entries]
         /\ \A i \in 0 .. used - 1 : /\ elems'[i].key = elems[i].key
                                     /\ i # Mid => elems'[i] = elems[i]
<1> DEFINE m == Mid
<1>1. /\ request \in Requests /\ request.op \in Writes /\ m \in 0 .. used - 1 /\ m \in 0 .. size - 1
      /\ elems[m].key = request.key
  BY MidIs DEF Replace, Stored, Hit
<1>2. elems \in [0 .. size - 1 -> Entries] /\ used \in 0 .. size /\ size \in Nat
  BY DEF IInv, TypeOK
<1>3. elems' = Written(elems, m, request) /\ UNCHANGED <<life, size, used, answer>>
  BY DEF Replace, Stored
<1> HIDE DEF m
<1>4. \A i \in 0 .. used - 1 : i \in 0 .. size - 1
  BY <1>2
<1> QED
  BY <1>1, <1>2, <1>3, <1>4, WrittenIs DEF m

(* What the end of a search leaves.                                        *)
LEMMA EndsIs ==
  ASSUME IInv, Ends, request \in Requests, life' = life, used' \in Nat
  PROVE  /\ request' = None /\ low' \in 0 .. used' /\ high' \in -1 .. used' - 1
         /\ Idle' /\ Searched'
<1>1. life # "free"
  BY RequestIs DEF IInv, Idle
<1> QED
  BY <1>1 DEF Ends, Idle, Searched

LEMMA DeclaredIs ==
  ASSUME IInv, Stored, request \in Requests
  PROVE  declared' \in [Keys -> Constraints \cup {"no"}]
<1>1. request.key \in Keys /\ request.constraint \in Constraints
  BY RequestIs
<1> QED
  BY <1>1 DEF Stored, IInv, TypeOK

LEMMA ReplaceKeeps == ASSUME IInv, Replace PROVE IInv'
<1>1. Ends /\ used \in Nat /\ reference' \in {reference, None}
  BY DEF Replace, Stored, IInv, TypeOK
<1>2. /\ request' = None /\ low' \in 0 .. used' /\ high' \in -1 .. used' - 1
      /\ Idle' /\ Searched'
  BY <1>1, ReplaceIs, EndsIs
<1>3. TypeOK'
  BY <1>1, <1>2, ReplaceIs, DeclaredIs DEF Replace, IInv, TypeOK
<1>4. Sorted' /\ Defined'
  BY ReplaceIs DEF IInv, Sorted, Defined
<1> QED
  BY <1>2, <1>3, <1>4 DEF IInv

LEMMA InsertKeeps == ASSUME IInv, Insert PROVE IInv'
<1>1. Ends /\ used \in Nat /\ life' = life /\ answer' = answer /\ reference' \in {reference, None}
  BY DEF Insert, Stored, IInv, TypeOK
<1>2. request \in Requests /\ low \in 0 .. used /\ used' = used + 1 /\ request.key \in Keys
  BY MissIs, InsertIs, RequestIs DEF Insert
<1>3. /\ request' = None /\ low' \in 0 .. used' /\ high' \in -1 .. used' - 1
      /\ Idle' /\ Searched'
  BY <1>1, <1>2, EndsIs
<1>4. TypeOK'
  <2>1. declared' \in [Keys -> Constraints \cup {"no"}]
    BY <1>2, DeclaredIs DEF Insert
  <2> QED
    BY <1>1, <1>3, <2>1, InsertIs DEF IInv, TypeOK
<1> DEFINE w == elems'
<1>5. /\ w[low].key = request.key
      /\ \A i \in 0 .. low - 1 : w[i] = elems[i]
      /\ \A i \in low + 1 .. used : w[i] = elems[i - 1]
  BY InsertIs
<1>6. /\ \A i \in 0 .. low - 1 : elems[i].key < request.key
      /\ \A i \in low .. used - 1 : elems[i].key > request.key
  BY MissIs DEF Insert
<1>7. \A i \in 0 .. used - 1 : elems[i].key \in Keys /\ elems[i].key \in Int
  BY Plain DEF IInv, Defined
<1>8. \A i, j \in 0 .. used - 1 : i < j => elems[i].key < elems[j].key
  BY DEF IInv, Sorted
<1> HIDE DEF w
<1>9. ASSUME NEW i \in 0 .. used
      PROVE  /\ i < low => i \in 0 .. used - 1 /\ w[i] = elems[i] /\ w[i].key < request.key
             /\ i = low => w[i].key = request.key
             /\ i > low => i - 1 \in 0 .. used - 1 /\ w[i] = elems[i - 1] /\ request.key < w[i].key
  <2>1. CASE i < low
    <3>1. i \in 0 .. low - 1 /\ i \in 0 .. used - 1
      BY <1>1, <1>2, <2>1
    <3> QED
      BY <1>2, <1>5, <1>6, <2>1, <3>1
  <2>2. CASE i = low
    BY <1>2, <1>5, <2>2
  <2>3. CASE i > low
    <3>1. i \in low + 1 .. used /\ i - 1 \in 0 .. used - 1 /\ i - 1 \in low .. used - 1
      BY <1>1, <1>2, <2>3
    <3>2. w[i] = elems[i - 1] /\ elems[i - 1].key > request.key
      BY <1>5, <1>6, <3>1
    <3> QED
      BY <1>2, <1>7, <2>3, <3>1, <3>2, Plain
  <2> QED
    BY <1>1, <1>2, <2>1, <2>2, <2>3
<1>10. \A i \in 0 .. used : w[i].key \in Keys
  <2>1. ASSUME NEW i \in 0 .. used PROVE w[i].key \in Keys
    <3>1. i < low \/ i = low \/ i > low
      BY <1>1, <1>2
    <3> QED
      BY <1>2, <1>7, <1>9, <3>1
  <2> QED
    BY <2>1
<1>11. \A i, j \in 0 .. used : i < j => w[i].key < w[j].key
  <2>1. ASSUME NEW i \in 0 .. used, NEW j \in 0 .. used, i < j PROVE w[i].key < w[j].key
    <3> i \in Int /\ j \in Int /\ low \in Int
      BY <1>1, <1>2
    <3> request.key \in Int /\ w[i].key \in Int /\ w[j].key \in Int
      <4>1. request.key \in Keys /\ w[i].key \in Keys /\ w[j].key \in Keys
        BY <1>2, <1>10
      <4> QED
        BY <4>1, Plain
    <3>1. CASE i <= low /\ low <= j
      BY <1>9, <2>1, <3>1
    <3>2. CASE j < low
      <4>1. i < low
        BY <2>1, <3>2
      <4> QED
        BY <1>8, <1>9, <2>1, <3>2, <4>1
    <3>3. CASE low < i
      <4>1. low < j /\ i - 1 < j - 1
        BY <2>1, <3>3
      <4> QED
        BY <1>8, <1>9, <2>1, <3>3, <4>1
    <3> QED
      BY <2>1, <3>1, <3>2, <3>3
  <2> QED
    BY <2>1
<1>12. Sorted' /\ Defined'
  <2>1. 0 .. used' - 1 = 0 .. used
    BY <1>1, <1>2
  <2> QED
    BY <1>10, <1>11, <2>1 DEF Sorted, Defined, w
<1> QED
  BY <1>3, <1>4, <1>12 DEF IInv

LEMMA FindKeeps == ASSUME IInv, Find \/ FindFails PROVE IInv'
<1>1. /\ Ends /\ request \in Requests /\ used \in Nat
      /\ UNCHANGED <<life, size, used, elems, declared>>
  BY MidIs, MissIs DEF Find, FindFails, Hit, IInv, TypeOK
<1>2. /\ request' = None /\ low' \in 0 .. used' /\ high' \in -1 .. used' - 1
      /\ Idle' /\ Searched'
  BY <1>1, EndsIs
<1>3. answer' \in Values \cup {Absent}
  BY MidIs DEF Find, FindFails, Hit, Entries
<1>4. reference' \in [key : Keys, final : BOOLEAN] \cup {None}
  <2>1. CASE reference' = reference
    BY <2>1 DEF IInv, TypeOK
  <2>2. CASE reference' = [key |-> request.key, final |-> elems[Mid].constraint = "final"]
    BY <1>1, <2>2, RequestIs
  <2> QED
    BY <2>1, <2>2 DEF Find, FindFails
<1>5. TypeOK'
  BY <1>1, <1>2, <1>3, <1>4 DEF IInv, TypeOK
<1> QED
  BY <1>1, <1>2, <1>5 DEF IInv, Sorted, Defined

LEMMA Inductive == IInv /\ [Next]_vars => IInv'
<1> SUFFICES ASSUME IInv, [Next]_vars PROVE IInv'
  OBVIOUS
<1>1. CASE UNCHANGED vars
  BY <1>1 DEF vars, IInv, TypeOK, Sorted, Defined, Idle, Searched
<1> QED
  BY <1>1, AllocateKeeps, SweepKeeps, AskKeeps, RefusedKeeps, CompareKeeps, ReplaceKeeps,
     InsertKeeps, FindKeeps DEF Next

LEMMA Invariant == Spec => []IInv
BY InitIs, Inductive, PTL DEF Spec

(* The entries stay in strictly ascending order: no name is there twice.   *)
THEOREM SortedAlways == Spec => []Sorted
<1>1. IInv => Sorted
  BY DEF IInv
<1> QED
  BY <1>1, Invariant, PTL

(* The variables keep their types: no search leaves the entries in use.    *)
THEOREM TypeCorrect == Spec => []TypeOK
<1>1. IInv => TypeOK
  BY DEF IInv
<1> QED
  BY <1>1, Invariant, PTL

-----------------------------------------------------------------------------
(* The table is a dictionary.                                              *)

LEMMA ValueIsNext ==
  (IInv => \A k : /\ \A i \in 0 .. used - 1 :
                       elems[i].key = k => Has(k) /\ ValueOf(k) = elems[i].value
                  /\ ~Has(k) => ValueOf(k) = Absent)'
BY ValueIs, PTL

(* An entry with another key is still there after a write.                 *)
LEMMA EntryStays ==
  ASSUME IInv, Replace \/ Insert, NEW i \in 0 .. used - 1, elems[i].key # request.key
  PROVE  \E j \in 0 .. used' - 1 : elems'[j] = elems[i]
<1>1. used \in Nat
  BY DEF IInv, TypeOK
<1>2. CASE Replace
  <2>1. used' = used /\ i # Mid
    BY <1>2, ReplaceIs
  <2> QED
    BY <1>2, <2>1, ReplaceIs
<1>3. CASE Insert
  <2>1. low \in 0 .. used /\ used' = used + 1
    BY <1>3, InsertIs, MissIs DEF Insert
  <2>2. CASE i < low
    <3>1. i \in 0 .. low - 1 /\ i \in 0 .. used' - 1
      BY <1>1, <2>1, <2>2
    <3> QED
      BY <1>3, <3>1, InsertIs
  <2>3. CASE i >= low
    <3>1. i + 1 \in low + 1 .. used /\ i + 1 \in 0 .. used' - 1 /\ (i + 1) - 1 = i
      BY <1>1, <2>1, <2>3
    <3> QED
      BY <1>3, <3>1, InsertIs
  <2> QED
    BY <1>1, <2>1, <2>2, <2>3
<1> QED
  BY <1>2, <1>3

(* Storing changes the value of the key, and of no other name.             *)
LEMMA StoreIs ==
  ASSUME IInv, IInv', Replace \/ Insert, NEW k
  PROVE  /\ Has(k)' <=> Has(k) \/ k = request.key
         /\ ValueOf(k)' = IF k = request.key THEN request.value ELSE ValueOf(k)
<1> DEFINE w == elems'
           n == used'
<1>1. used \in Nat
  BY DEF IInv, TypeOK
<1>2. \E i \in 0 .. n - 1 : w[i].key = request.key /\ w[i].value = request.value
  <2>1. CASE Replace
    BY <1>1, <2>1, ReplaceIs
  <2>2. CASE Insert
    <3>1. low \in 0 .. used /\ n = used + 1
      BY <2>2, InsertIs, MissIs DEF Insert
    <3>2. low \in 0 .. n - 1
      BY <1>1, <3>1
    <3> QED
      BY <2>2, <3>2, InsertIs
  <2> QED
    BY <2>1, <2>2
<1>3. \A i \in 0 .. used - 1 : elems[i].key # request.key => \E j \in 0 .. n - 1 : w[j] = elems[i]
  BY EntryStays
<1>4. ASSUME NEW j \in 0 .. n - 1
      PROVE  w[j].key = request.key \/ \E i \in 0 .. used - 1 : w[j].key = elems[i].key
  <2>1. CASE Replace
    BY <2>1, ReplaceIs
  <2>2. CASE Insert
    <3>1. low \in 0 .. used /\ n = used + 1
      BY <2>2, InsertIs, MissIs DEF Insert
    <3>2. CASE j < low
      <4>1. j \in 0 .. low - 1 /\ j \in 0 .. used - 1
        BY <1>1, <3>1, <3>2
      <4> QED
        BY <2>2, <4>1, InsertIs
    <3>3. CASE j = low
      BY <2>2, <3>3, InsertIs
    <3>4. CASE j > low
      <4>1. j \in low + 1 .. used /\ j - 1 \in 0 .. used - 1
        BY <1>1, <3>1, <3>4
      <4> QED
        BY <2>2, <4>1, InsertIs
    <3> QED
      BY <1>1, <3>1, <3>2, <3>3, <3>4
  <2> QED
    BY <2>1, <2>2
<1>5. /\ \A i \in 0 .. n - 1 : w[i].key = k => Has(k)' /\ ValueOf(k)' = w[i].value
      /\ ~Has(k)' => ValueOf(k)' = Absent
  BY ValueIsNext
<1>6. Has(k)' <=> \E i \in 0 .. n - 1 : w[i].key = k
  BY DEF Has
<1> HIDE DEF w, n
<1>7. CASE k = request.key
  BY <1>2, <1>5, <1>7
<1>8. CASE k # request.key /\ Has(k)
  <2>1. PICK i \in 0 .. used - 1 : elems[i].key = k
    BY <1>8 DEF Has
  <2>2. ValueOf(k) = elems[i].value
    BY <2>1, ValueIs
  <2>3. PICK j \in 0 .. n - 1 : w[j] = elems[i]
    BY <1>3, <1>8, <2>1
  <2> QED
    BY <1>5, <1>8, <2>1, <2>2, <2>3
<1>9. CASE k # request.key /\ ~Has(k)
  <2>1. ~Has(k)'
    BY <1>4, <1>6, <1>9 DEF Has
  <2> QED
    BY <1>5, <1>9, <2>1, ValueIs
<1> QED
  BY <1>7, <1>8, <1>9

(* A search that looks something up answers with the value of its key.     *)
LEMMA AnswerIs ==
  ASSUME IInv, Find \/ FindFails
  PROVE  answer' = ValueOf(request.key)
<1>1. CASE Find
  <2>1. Mid \in 0 .. used - 1 /\ elems[Mid].key = request.key /\ answer' = elems[Mid].value
    BY <1>1, MidIs DEF Find, Hit
  <2> QED
    BY <2>1, ValueIs
<1>2. CASE FindFails
  BY <1>2, MissIs, ValueIs DEF FindFails
<1> QED
  BY <1>1, <1>2

LEMMA StepImplements ==
  ASSUME IInv, IInv', [Next]_vars
  PROVE  [Dict!Next]_(Dict!vars)
<1> DEFINE m == [k \in Keys |-> ValueOf(k)]
<1>1. CASE UNCHANGED <<used, elems, request, answer>>
  BY <1>1 DEF Dict!vars, ValueOf, Has
<1>2. CASE Allocate
  <2>1. used = 0 /\ used' = 0 /\ UNCHANGED <<request, answer>>
    BY <1>2 DEF Allocate, IInv, Idle
  <2>2. \A k : ~Has(k) /\ ~Has(k)'
    BY <2>1 DEF Has
  <2>3. m' = m
    BY <2>2 DEF ValueOf
  <2> QED
    BY <2>1, <2>3 DEF Dict!vars
<1>3. CASE Sweep
  <2>1. used' = 0 /\ UNCHANGED <<request, answer>>
    BY <1>3 DEF Sweep
  <2>2. \A k : ~Has(k)'
    BY <2>1 DEF Has
  <2>3. m' = [k \in Keys |-> Absent]
    BY <2>2 DEF ValueOf
  <2> QED
    BY <2>1, <2>3 DEF Dict!Next, Dict!Clear
<1>4. ASSUME NEW r \in Requests, Ask(r) PROVE Dict!Next
  <2>1. request = None /\ request' = r /\ UNCHANGED <<used, elems, answer>>
    BY <1>4 DEF Ask, Searches
  <2>2. m' = m
    BY <2>1 DEF ValueOf, Has
  <2> QED
    BY <2>1, <2>2 DEF Dict!Next, Dict!Ask
<1>5. CASE Replace \/ Insert
  <2>1. /\ request \in Requests /\ request # None /\ request.op \in Writes /\ request.key \in Keys
        /\ request' = None /\ answer' = answer
    BY <1>5, ReplaceIs, MissIs, RequestIs DEF Replace, Insert, Stored, Ends
  <2>2. \A k \in Keys : ValueOf(k)' = IF k = request.key THEN request.value ELSE ValueOf(k)
    BY <1>5, StoreIs
  <2>3. m' = [m EXCEPT ![request.key] = request.value]
    BY <2>1, <2>2
  <2> QED
    BY <2>1, <2>3 DEF Dict!Next, Dict!Store
<1>6. CASE Find \/ FindFails
  <2>1. /\ request \in Requests /\ request # None /\ request.op \notin Writes /\ request.key \in Keys
        /\ request' = None /\ UNCHANGED <<used, elems>>
    BY <1>6, MidIs, MissIs, RequestIs DEF Find, FindFails, Hit, Ends, Writes, Bare
  <2>2. m' = m /\ answer' = m[request.key]
    BY <1>6, <2>1, AnswerIs DEF ValueOf, Has
  <2> QED
    BY <2>1, <2>2 DEF Dict!Next, Dict!LookUp
<1>7. CASE Refused \/ Compare \/ UNCHANGED vars
  BY <1>1, <1>7 DEF Refused, Compare, vars
<1> QED
  BY <1>2, <1>3, <1>4, <1>5, <1>6, <1>7 DEF Next

(* The array and its searches implement a dictionary: a search finds the   *)
(* value last stored under its key, or nothing if none was.                *)
THEOREM Implementation == Spec => ImplementsDictionary
<1>1. Init => Dict!Init
  BY DEF Init, Dict!Init, ValueOf, Has
<1>2. IInv /\ IInv' /\ [Next]_vars => [Dict!Next]_(Dict!vars)
  BY StepImplements
<1> QED
  BY <1>1, <1>2, Invariant, PTL DEF Spec, ImplementsDictionary, Dict!Spec

-----------------------------------------------------------------------------
(* What was declared of a variable stays, and a final one keeps its value. *)

IsDeclared(k) == \E i \in 0 .. used - 1 : elems[i].key = k /\ elems[i].constraint = declared[k]

(* What is stored is new, not declared final, assigned by a reference that *)
(* is not final, or an alias.  A declaration of what is there is that of   *)
(* "super", while no reference waits.                                      *)
Unseen == request # None =>
            /\ request.op \in {"declare", "parameter", "reserve"} => declared[request.key] # "final"
            /\ request.op \in {"parameter", "reserve"} => ~Has(request.key)
            /\ request.op = "declare" => ~Has(request.key) \/ reference = None

Reserved == life = "part" =>
              /\ declared[Super] # "final"
              /\ request # None /\ request.op = "declare" => request.key # Super

Refers == reference # None =>
            /\ Has(reference.key)
            /\ ~reference.final => declared[reference.key] # "final"

Assigns == request # None /\ request.op = "assign" =>
             reference # None /\ request.key = reference.key /\ ~reference.final

FInv == DeclaredKept /\ Unseen /\ Reserved /\ Refers /\ Assigns

LEMMA FinalInit == Init => FInv
BY DEF Init, FInv, DeclaredKept, Unseen, Reserved, Refers, Assigns

LEMMA ReferenceIs ==
  ASSUME NEW k \in Keys, NEW b \in BOOLEAN
  PROVE  [key |-> k, final |-> b] # None
BY NoneAssumption

(* A name nobody has stored anything under is not declared.                *)
LEMMA NewIs ==
  ASSUME FInv, NEW k \in Keys, ~Has(k)
  PROVE  declared[k] = "no"
BY DEF FInv, DeclaredKept, Has

(* The key of a request to write is not final, but for an alias.           *)
LEMMA WritesNoFinal ==
  ASSUME IInv, FInv, Replace \/ Insert
  PROVE  declared[request.key] = "final" => request.op = "alias"
<1>1. request \in Requests /\ request # None /\ request.op \in Writes
  BY ReplaceIs, MissIs, RequestIs DEF Insert, Stored
<1>2. CASE request.op = "assign"
  BY <1>1, <1>2 DEF FInv, Refers, Assigns
<1>3. CASE request.op \in {"declare", "parameter", "reserve"}
  BY <1>1, <1>3 DEF FInv, Unseen
<1> QED
  BY <1>1, <1>2, <1>3 DEF Writes, Bare

(* An entry that is written says what it was declared with, if it was.     *)
LEMMA WrittenDeclared ==
  ASSUME IInv, FInv, Replace \/ Insert, declared'[request.key] # "no"
  PROVE  \E j \in 0 .. used' - 1 :
           elems'[j].key = request.key /\ elems'[j].constraint = declared'[request.key]
<1>1. /\ request \in Requests /\ request.op \in Writes /\ request.key \in Keys
      /\ used \in Nat /\ declared \in [Keys -> Constraints \cup {"no"}] /\ Stored
  BY ReplaceIs, MissIs, RequestIs DEF Replace, Insert, Stored, IInv, TypeOK
<1>2. declared'[request.key] = IF request.op = "declare" THEN request.constraint
                               ELSE declared[request.key]
  BY <1>1 DEF Stored
<1>3. CASE Replace
  <2>1. /\ Mid \in 0 .. used' - 1 /\ Mid \in 0 .. used - 1 /\ elems'[Mid].key = request.key
        /\ elems[Mid].key = request.key
        /\ elems'[Mid].constraint = ConstraintOf(request, elems[Mid])
    BY <1>3, ReplaceIs
  <2>2. CASE request.op = "declare"
    BY <1>2, <2>1, <2>2 DEF ConstraintOf
  <2>3. CASE request.op # "declare"
    <3>1. declared[request.key] # "no" /\ declared'[request.key] = declared[request.key]
      BY <1>2, <2>3
    <3>2. PICK i \in 0 .. used - 1 : /\ elems[i].key = request.key
                                     /\ elems[i].constraint = declared[request.key]
      BY <1>1, <3>1 DEF FInv, DeclaredKept
    <3>3. elems[Mid].constraint = declared[request.key]
      <4>1. request.key \in Int
        BY <1>1, Plain
      <4>2. ~(i < Mid) /\ ~(Mid < i)
        BY <2>1, <3>2, <4>1 DEF IInv, Sorted
      <4> HIDE DEF Mid
      <4>3. i = Mid
        BY <2>1, <3>2, <4>2
      <4> QED
        BY <3>2, <4>3
    <3> QED
      BY <2>1, <2>3, <3>1, <3>3 DEF ConstraintOf
  <2> QED
    BY <2>2, <2>3
<1>4. CASE Insert
  <2>1. low \in 0 .. used /\ used' = used + 1 /\ elems'[low].key = request.key
    BY <1>4, InsertIs, MissIs DEF Insert
  <2>2. ~Has(request.key)
    BY <1>4, MissIs DEF Insert
  <2>3. declared[request.key] = "no"
    BY <1>1, <2>2, NewIs
  <2>4. request.op = "declare"
    BY <1>2, <2>3
  <2>5. elems'[low].constraint = request.constraint
    BY <1>4, <2>4, InsertIs
  <2>6. low \in 0 .. used' - 1
    BY <1>1, <2>1
  <2> QED
    BY <1>2, <2>1, <2>4, <2>5, <2>6
<1> QED
  BY <1>3, <1>4

LEMMA WriteKeepsDeclared ==
  ASSUME IInv, IInv', FInv, Replace \/ Insert
  PROVE  DeclaredKept'
<1> SUFFICES ASSUME NEW k \in Keys, declared'[k] # "no"
             PROVE  \E j \in 0 .. used' - 1 : elems'[j].key = k /\ elems'[j].constraint = declared'[k]
  BY DEF DeclaredKept
<1>1. CASE k = request.key
  BY <1>1, WrittenDeclared
<1>2. CASE k # request.key
  <2>1. declared'[k] = declared[k]
    BY <1>2 DEF Replace, Insert, Stored, IInv, TypeOK
  <2>2. PICK i \in 0 .. used - 1 : elems[i].key = k /\ elems[i].constraint = declared[k]
    BY <2>1 DEF FInv, DeclaredKept
  <2> QED
    BY <1>2, <2>1, <2>2, EntryStays
<1> QED
  BY <1>1, <1>2

LEMMA WriteKeepsFinal ==
  ASSUME IInv, IInv', FInv, Replace \/ Insert
  PROVE  FInv'
<1>1. /\ request \in Requests /\ request # None /\ request.op \in Writes /\ request' = None
      /\ reference' = (IF request.op = "assign" THEN None ELSE reference)
      /\ life' = life /\ request.key \in Keys /\ Stored
  BY ReplaceIs, MissIs, RequestIs DEF Replace, Insert, Stored, Ends
<1>2. \A k \in Keys : declared'[k] # declared[k] => k = request.key /\ request.op = "declare"
  BY <1>1 DEF Stored, IInv, TypeOK
<1>3. Reserved'
  BY <1>1, <1>2, Plain DEF FInv, Reserved
<1>4. Refers'
  <2> SUFFICES ASSUME reference' # None
               PROVE  (Has(reference.key) /\ (~reference.final => declared[reference.key] # "final"))'
    BY DEF Refers
  <2>1. reference' = reference /\ reference # None /\ reference.key \in Keys
    BY <1>1 DEF IInv, TypeOK
  <2>2. Has(reference.key) /\ (~reference.final => declared[reference.key] # "final")
    BY <2>1 DEF FInv, Refers
  <2>3. Has(reference.key)'
    <3>1. \A k : Has(k) => Has(k)'
      BY StoreIs
    <3>2. \E i \in 0 .. used' - 1 : elems'[i].key = reference.key
      BY <2>2, <3>1 DEF Has
    <3> QED
      BY <2>1, <3>2 DEF Has
  <2>4. declared'[reference.key] = declared[reference.key]
    <3>1. request.op = "declare" => ~Has(request.key)
      BY <1>1, <2>1 DEF FInv, Unseen
    <3> QED
      BY <1>2, <2>1, <2>2, <3>1
  <2> QED
    BY <2>1, <2>2, <2>3, <2>4
<1> QED
  BY <1>1, <1>3, <1>4, WriteKeepsDeclared DEF FInv, Unseen, Assigns

LEMMA AskKeepsFinal ==
  ASSUME IInv, FInv, NEW r \in Requests, Ask(r)
  PROVE  FInv'
<1>1. /\ request = None /\ request' = r /\ UNCHANGED <<used, elems, reference, declared>>
      /\ life' = LifeAfter(r) /\ r.key \in Keys
  BY RequestIs DEF Ask, Searches
<1>2. Unseen'
  <2>1. CASE r.op \in {"parameter", "reserve"}
    <3>1. ~Has(r.key)
      BY <2>1 DEF Ask, Parameter, Reserve, Has, IInv, TypeOK
    <3>2. declared[r.key] = "no"
      BY <1>1, <3>1, NewIs
    <3> QED
      BY <1>1, <2>1, <3>1, <3>2 DEF Unseen, Has
  <2>2. CASE r.op = "declare"
    <3>1. CASE Has(r.key)
      <4>1. life = "part" /\ r.key = Super /\ reference = None
        BY <2>2, <3>1 DEF Ask, Declare, CompletesSuper
      <4>2. declared[Super] # "final"
        BY <4>1 DEF FInv, Reserved
      <4> QED
        BY <1>1, <2>2, <4>1, <4>2 DEF Unseen
    <3>2. CASE ~Has(r.key)
      <4>1. declared[r.key] = "no"
        BY <1>1, <3>2, NewIs
      <4> QED
        BY <1>1, <2>2, <3>2, <4>1 DEF Unseen, Has
    <3> QED
      BY <3>1, <3>2
  <2>3. CASE r.op \notin {"declare", "parameter", "reserve"}
    BY <1>1, <2>3 DEF Unseen
  <2> QED
    BY <2>1, <2>2, <2>3
<1>3. Reserved'
  <2> SUFFICES ASSUME life' = "part"
               PROVE  declared[Super] # "final" /\ (r.op = "declare" => r.key # Super)
    BY <1>1 DEF Reserved
  <2>1. CASE r.op = "reserve"
    <3>1. ~Has(Super)
      BY <2>1 DEF Ask, Reserve, Has, IInv, TypeOK
    <3> QED
      BY <2>1, <3>1, NewIs, Plain
  <2>2. CASE r.op # "reserve"
    <3>1. life = "part" /\ ~CompletesSuper(r)
      BY <1>1, <2>2 DEF LifeAfter
    <3> QED
      BY <3>1 DEF CompletesSuper, FInv, Reserved
  <2> QED
    BY <2>1, <2>2
<1>4. Assigns'
  BY <1>1 DEF Ask, Assign, Assigns
<1>5. DeclaredKept' /\ Refers'
  BY <1>1 DEF FInv, DeclaredKept, Refers, Has
<1> QED
  BY <1>2, <1>3, <1>4, <1>5 DEF FInv

LEMMA FinalInductive == IInv /\ IInv' /\ FInv /\ [Next]_vars => FInv'
<1> SUFFICES ASSUME IInv, IInv', FInv, [Next]_vars PROVE FInv'
  OBVIOUS
<1>1. CASE UNCHANGED <<life, used, elems, request, reference, declared>>
  BY <1>1 DEF FInv, DeclaredKept, Unseen, Reserved, Refers, Assigns, Has
<1>2. CASE Allocate
  <2>1. /\ used = 0 /\ used' = 0 /\ request = None /\ life' # "part"
        /\ UNCHANGED <<request, reference, declared>>
    BY <1>2 DEF Allocate, IInv, Idle
  <2>2. \A k : ~Has(k)
    BY <2>1 DEF Has
  <2>3. \A k \in Keys : declared[k] = "no"
    BY <2>2, NewIs
  <2>4. DeclaredKept'
    BY <2>1, <2>3 DEF DeclaredKept
  <2>5. Refers'
    BY <2>1, <2>2 DEF FInv, Refers
  <2> QED
    BY <2>1, <2>4, <2>5 DEF FInv, Unseen, Reserved, Assigns
<1>3. CASE Sweep
  BY <1>3 DEF Sweep, FInv, DeclaredKept, Unseen, Reserved, Refers, Assigns
<1>4. ASSUME NEW r \in Requests, Ask(r) PROVE FInv'
  BY <1>4, AskKeepsFinal
<1>5. CASE Refused
  BY <1>5 DEF Refused, FInv, DeclaredKept, Unseen, Reserved, Refers, Assigns
<1>6. CASE Replace \/ Insert
  BY <1>6, WriteKeepsFinal
<1>7. CASE Find \/ FindFails
  <2>1. request' = None /\ UNCHANGED <<life, used, elems, declared>>
    BY <1>7 DEF Find, FindFails, Ends
  <2>2. Refers'
    <3>1. CASE reference' = reference
      BY <2>1, <3>1 DEF FInv, Refers, Has
    <3>2. CASE Hit /\ reference' = [key |-> request.key, final |-> elems[Mid].constraint = "final"]
      <4>1. Mid \in 0 .. used - 1 /\ elems[Mid].key = request.key
        BY <3>2, MidIs DEF Hit
      <4>2. Has(request.key)
        BY <4>1 DEF Has
      <4>3. elems[Mid].constraint # "final" => declared[request.key] # "final"
        <5>1. ASSUME NEW i \in 0 .. used - 1, elems[i].key = request.key PROVE i = Mid
          <6>1. request.key \in Int
            BY <3>2, MidIs, Plain DEF Hit
          <6>2. ~(i < Mid) /\ ~(Mid < i)
            BY <4>1, <5>1, <6>1 DEF IInv, Sorted
          <6> HIDE DEF Mid
          <6> QED
            BY <4>1, <6>2
        <5>2. request.key \in Keys
          BY <3>2, MidIs DEF Hit
        <5> QED
          BY <5>1, <5>2 DEF FInv, DeclaredKept
      <4> QED
        BY <2>1, <3>2, <4>2, <4>3 DEF Refers, Has
    <3> QED
      BY <1>7, <3>1, <3>2 DEF Find, FindFails
  <2> QED
    BY <2>1, <2>2 DEF FInv, DeclaredKept, Unseen, Reserved, Assigns
<1> QED
  BY <1>1, <1>2, <1>3, <1>4, <1>5, <1>6, <1>7 DEF Next, Compare, vars

LEMMA FinalInvariant == Spec => []FInv
<1>1. IInv /\ IInv' /\ FInv /\ [Next]_vars => FInv'
  BY FinalInductive
<1> QED
  BY <1>1, Invariant, FinalInit, PTL DEF Spec

(* What was declared of a variable is what its entry says for as long as   *)
(* the table lives: insertions of other names move the entry, growth       *)
(* copies it, and who stores over it without declaring leaves it.          *)
THEOREM DeclaredKeptAlways == Spec => []DeclaredKept
<1>1. FInv => DeclaredKept
  BY DEF FInv
<1> QED
  BY <1>1, FinalInvariant, PTL

(* A variable declared final has its value replaced by nothing but the     *)
(* alias of a module that is used: an assignment that has been let through *)
(* is to another variable, and what is declared later is new, or "super",  *)
(* which is declared once.                                                 *)
THEOREM FinalKeptAlways == Spec => FinalKept
<1>1. IInv /\ IInv' /\ FInv /\ [Next]_vars =>
        [\A k \in Keys : declared[k] = "final" /\ declared'[k] = "final" /\ ValueOf(k)' # ValueOf(k)
                         => request.op = "alias"]_vars
  <2> SUFFICES ASSUME IInv, IInv', FInv, [Next]_vars, NEW k \in Keys,
                      declared[k] = "final", declared'[k] = "final", ValueOf(k)' # ValueOf(k)
               PROVE  UNCHANGED vars \/ request.op = "alias"
    OBVIOUS
  <2>1. CASE Replace \/ Insert
    <3>1. k = request.key
      BY <2>1, StoreIs
    <3> QED
      BY <2>1, <3>1, WritesNoFinal
  <2>2. CASE UNCHANGED <<used, elems>>
    BY <2>2 DEF ValueOf, Has
  <2>3. CASE Allocate
    <3>1. ~Has(k)
      BY <2>3 DEF Allocate, IInv, Idle, Has
    <3> QED
      BY <3>1, NewIs
  <2>4. CASE Sweep
    BY <2>4 DEF Sweep
  <2> QED
    BY <2>1, <2>2, <2>3, <2>4 DEF Next, Ask, Refused, Compare, Find, FindFails, vars
<1> QED
  BY <1>1, Invariant, FinalInvariant, PTL DEF Spec, FinalKept

-----------------------------------------------------------------------------
(* The halving.  That a search is carried on is fairness; that it cannot   *)
(* be carried on for ever is a fact about its steps.                       *)
Remaining == high + 1 - low

LEMMA CompareHalves ==
  ASSUME IInv, Compare
  PROVE  request' = request /\ 0 <= Remaining' /\ Remaining' < Remaining /\ 2 * Remaining' <= Remaining
<1>1. /\ low \in Int /\ high \in Int /\ low <= high /\ Mid \in low .. high
      /\ 2 * Mid <= low + high /\ low + high <= 2 * Mid + 1
  <2>1. low \in Int /\ high \in Int /\ low <= high /\ Mid \in low .. high
    BY MidIs DEF Compare, Searching, IInv, TypeOK
  <2> QED
    BY <2>1 DEF Mid
<1>2. \/ low' = Mid + 1 /\ high' = high
      \/ low' = low /\ high' = Mid - 1
  BY DEF Compare, Bounds
<1>3. request' = request
  BY DEF Compare
<1> HIDE DEF Mid
<1>4. CASE low' = Mid + 1 /\ high' = high
  BY <1>1, <1>3, <1>4 DEF Remaining
<1>5. CASE low' = low /\ high' = Mid - 1
  BY <1>1, <1>3, <1>5 DEF Remaining
<1> QED
  BY <1>2, <1>4, <1>5

(* Whatever the table is searched for and however often it has grown, each *)
(* turn of the loop (hash.c: low, high, mid) leaves at most half of the    *)
(* entries, and nothing else happens to the table until the search is over:*)
(* a search of n entries compares no more than log2(n) + 1 times.          *)
THEOREM SearchHalves ==
  Spec => [][request # None =>
               \/ request' = None
               \/ /\ 0 <= Remaining' /\ Remaining' < Remaining /\ 2 * Remaining' <= Remaining
                  /\ UNCHANGED <<life, size, used, elems, request, answer, reference, declared>>]_vars
<1>1. IInv /\ [Next]_vars =>
        [request # None =>
           \/ request' = None
           \/ /\ 0 <= Remaining' /\ Remaining' < Remaining /\ 2 * Remaining' <= Remaining
              /\ UNCHANGED <<life, size, used, elems, request, answer, reference, declared>>]_vars
  <2> SUFFICES ASSUME IInv, [Next]_vars, request # None, ~UNCHANGED vars, request' # None
               PROVE  /\ 0 <= Remaining' /\ Remaining' < Remaining /\ 2 * Remaining' <= Remaining
                      /\ UNCHANGED <<life, size, used, elems, request, answer, reference, declared>>
    OBVIOUS
  <2>1. life # "free"
    BY DEF IInv, Idle
  <2>2. Compare
    BY <2>1 DEF Next, Allocate, Sweep, Ask, Refused, Replace, Insert, Stored, Find, FindFails, Ends
  <2>3. UNCHANGED <<life, size, used, elems, request, answer, reference, declared>>
    BY <2>2 DEF Compare
  <2> QED
    BY <2>2, <2>3, CompareHalves
<1> QED
  BY <1>1, Invariant, PTL DEF Spec
=============================================================================
