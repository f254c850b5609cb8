------------------------- MODULE ManagedTableProofs -------------------------
(***************************************************************************)
(* Proofs about ManagedTable, for every number of tables and slots.        *)
(***************************************************************************)
EXTENDS ManagedTable, FiniteSetTheorems, TLAPS

(* A table not yet in the chain counts all its slots as free.              *)
NewTablesEmpty ==
  \A t \in Tables : t > Len(chain) => freeSpace[t] = SlotsPerTable

IInv == TypeOK /\ ChainIntact /\ NewTablesEmpty

-----------------------------------------------------------------------------
(* The slots of a table are finitely many, and so are its garbage slots.   *)
LEMMA SlotsFinite ==
  /\ IsFiniteSet(Slots)
  /\ \A S \in SUBSET Slots : IsFiniteSet(S) /\ Cardinality(S) \in Nat
<1>1. IsFiniteSet(Slots)
  BY FS_Interval, ManagedTableAssumption DEF Slots
<1> QED
  BY <1>1, FS_Subset, FS_CardinalityType

(* Where a search stops is a slot of the table; while the table has a free *)
(* slot, it is one of those.                                               *)
LEMMA SearchFindsFree ==
  ASSUME NEW t, NEW s \in Slots, StopsAt(t, s), FreeSlots(t) # {}
  PROVE  s \in FreeSlots(t)
BY DEF StopsAt

(* The entries of an intact chain are the tables created so far.           *)
LEMMA ChainEntries ==
  ASSUME TypeOK, ChainIntact
  PROVE  /\ Len(chain) \in Nat /\ Len(chain) <= MaxTables
         /\ \A i \in 1 .. Len(chain) : chain[i] \in Tables /\ chain[i] \in 1 .. Len(chain)
<1>1. Len(chain) \in Nat /\ \A i \in 1 .. Len(chain) : chain[i] \in Tables
  BY DEF TypeOK
<1>2. \A i \in 1 .. Len(chain) : chain[i] \in 1 .. Len(chain)
  <2> SUFFICES ASSUME NEW i \in 1 .. Len(chain) PROVE chain[i] \in 1 .. Len(chain)
    OBVIOUS
  <2>1. chain[i] \in 1 .. MaxTables
    BY <1>1 DEF Tables
  <2>2. chain[i] <= Len(chain)
    BY DEF ChainIntact
  <2> QED
    BY <1>1, <2>1, <2>2
<1> QED
  BY <1>1, <1>2 DEF TypeOK

(* Moving a table to the front keeps the chain a sequence of the same      *)
(* length, with the same tables, each of them once.                        *)
LEMMA MoveToFrontKeeps ==
  ASSUME TypeOK, ChainIntact, NEW k \in 1 .. Len(chain)
  PROVE  /\ MoveToFront(k) \in Seq(Tables)
         /\ Len(MoveToFront(k)) = Len(chain)
         /\ \A i \in 1 .. Len(chain) : MoveToFront(k)[i] <= Len(chain)
         /\ \A i, j \in 1 .. Len(chain) :
              MoveToFront(k)[i] = MoveToFront(k)[j] => i = j
         /\ \A t \in 1 .. Len(chain) :
              \E i \in 1 .. Len(chain) : MoveToFront(k)[i] = t
<1> DEFINE n == Len(chain)
           m == MoveToFront(k)
<1>1. n \in Nat /\ \A i \in 1 .. n : chain[i] \in Tables
  BY DEF TypeOK
<1>2. \A i \in 1 .. n : m[i] = IF i = 1 THEN chain[k]
                               ELSE IF i <= k THEN chain[i - 1] ELSE chain[i]
  BY DEF MoveToFront
<1>3. m \in [1 .. n -> Tables]
  BY <1>1 DEF MoveToFront
<1>4. m \in Seq(Tables) /\ Len(m) = n
  BY <1>1, <1>3
<1>5. \A i \in 1 .. n : m[i] <= n
  <2> SUFFICES ASSUME NEW i \in 1 .. n PROVE m[i] <= n
    OBVIOUS
  <2>1. \A j \in 1 .. n : chain[j] \in 1 .. n
    BY ChainEntries
  <2>2. PICK j \in 1 .. n : m[i] = chain[j]
    <3>1. CASE i = 1
      BY <3>1, <1>2
    <3>2. CASE i # 1 /\ i <= k
      <4>1. i - 1 \in 1 .. n /\ m[i] = chain[i - 1]
        BY <3>2, <1>1, <1>2
      <4> QED
        BY <4>1
    <3>3. CASE i > k
      BY <3>3, <1>1, <1>2
    <3> QED
      BY <3>1, <3>2, <3>3, <1>1
  <2> QED
    BY <1>1, <2>1, <2>2
<1>6. ASSUME NEW i \in 1 .. n, NEW j \in 1 .. n, m[i] = m[j]
      PROVE  i = j
  <2>1. \A p, q \in 1 .. n : chain[p] = chain[q] => p = q
    BY DEF ChainIntact
  <2> DEFINE at(x) == IF x = 1 THEN k ELSE IF x <= k THEN x - 1 ELSE x
  <2>2. \A x \in 1 .. n : at(x) \in 1 .. n /\ m[x] = chain[at(x)]
    BY <1>1, <1>2
  <2>3. at(i) = at(j)
    BY <1>6, <2>1, <2>2
  <2> QED
    BY <2>3, <1>1
<1>7. ASSUME NEW t \in 1 .. n
      PROVE  \E i \in 1 .. n : m[i] = t
  <2>1. PICK p \in 1 .. n : chain[p] = t
    BY DEF ChainIntact
  <2> DEFINE i == IF p = k THEN 1 ELSE IF p < k THEN p + 1 ELSE p
  <2>2. i \in 1 .. n /\ m[i] = chain[p]
    BY <1>1, <1>2
  <2> QED
    BY <2>1, <2>2
<1> QED
  BY <1>4, <1>5, <1>6, <1>7

(* Using a table of the chain keeps the chain intact, whichever of the two *)
(* orders the allocator leaves it in.                                      *)
LEMMA ChainAfterUseKeeps ==
  ASSUME TypeOK, ChainIntact, NEW k \in 1 .. Len(chain), chain' = ChainAfterUse(k)
  PROVE  chain' \in Seq(Tables) /\ Len(chain') = Len(chain) /\ ChainIntact'
<1>1. CASE Kind \in {"item", "hash"}
  <2>1. chain' = MoveToFront(k)
    BY <1>1 DEF ChainAfterUse
  <2>2. Len(chain') = Len(chain) /\ chain' \in Seq(Tables)
    BY <2>1, MoveToFrontKeeps
  <2>3. /\ \A i \in 1 .. Len(chain) : chain'[i] <= Len(chain)
        /\ \A i, j \in 1 .. Len(chain) : chain'[i] = chain'[j] => i = j
        /\ \A t \in 1 .. Len(chain) : \E i \in 1 .. Len(chain) : chain'[i] = t
    BY <2>1, MoveToFrontKeeps
  <2> QED
    BY <2>2, <2>3 DEF ChainIntact
<1>2. CASE Kind \notin {"item", "hash"}
  BY <1>2 DEF ChainAfterUse, TypeOK, ChainIntact
<1> QED
  BY <1>1, <1>2

(* Handing out a slot of a table that counts a free one keeps the types.   *)
LEMMA HandOutType ==
  ASSUME TypeOK, NEW t \in Tables, NEW h \in Holders, HasSpace(t), HandOut(t, h)
  PROVE  /\ flags' \in [Tables -> [Slots -> SUBSET Bits]]
         /\ holder' \in [Tables -> [Slots -> Holders \cup {Nil}]]
         /\ freeSpace' \in [Tables -> Nat]
         /\ nextIndex' \in [Tables -> 0 .. SlotsPerTable]
         /\ \A u \in Tables \ {t} : freeSpace'[u] = freeSpace[u]
<1>1. PICK s \in Slots :
        /\ flags' = [flags EXCEPT ![t][s] = {"USE", "CN"}]
        /\ holder' = [holder EXCEPT ![t][s] = h]
        /\ freeSpace' = [freeSpace EXCEPT ![t] = FreeSpaceAfterUse(t)]
        /\ nextIndex' = [nextIndex EXCEPT ![t] = NextIndexAfterUse(t, s)]
  BY DEF HandOut
<1>2. freeSpace[t] \in Nat /\ FreeSpaceAfterUse(t) \in Nat
  BY DEF TypeOK, HasSpace, FreeSpaceAfterUse
<1>3. NextIndexAfterUse(t, s) \in 0 .. SlotsPerTable
  BY ManagedTableAssumption DEF NextIndexAfterUse, Slots, TypeOK
<1>4. {"USE", "CN"} \in SUBSET Bits
  BY DEF Bits
<1>5. flags' \in [Tables -> [Slots -> SUBSET Bits]]
  BY <1>1, <1>4 DEF TypeOK
<1>6. holder' \in [Tables -> [Slots -> Holders \cup {Nil}]]
  BY <1>1 DEF TypeOK
<1> QED
  BY <1>1, <1>2, <1>3, <1>5, <1>6 DEF TypeOK

-----------------------------------------------------------------------------
(* The invariant holds at the start and through every step, for all four   *)
(* allocators.                                                             *)
LEMMA InitIInv == Init => IInv
<1> SUFFICES ASSUME Init PROVE IInv
  OBVIOUS
<1> USE ManagedTableAssumption DEF Init
<1>1. TypeOK
  BY DEF TypeOK, Bits
<1>2. ChainIntact
  BY DEF ChainIntact
<1>3. NewTablesEmpty
  BY DEF NewTablesEmpty
<1> QED
  BY <1>1, <1>2, <1>3 DEF IInv

(* Every step keeps the invariant: an allocation, the start of a            *)
(* collection, a mark, the sweep of one table.                             *)
LEMMA NextIInv == IInv /\ [Next]_vars => IInv'
<1> SUFFICES ASSUME IInv, [Next]_vars PROVE IInv'
  OBVIOUS
<1> USE DEF IInv
<1>1. ASSUME NEW h \in Holders, AllocFromChain(h) PROVE IInv'
  <2>1. PICK k \in 1 .. Len(chain) :
          HasSpace(chain[k]) /\ chain' = ChainAfterUse(k) /\ HandOut(chain[k], h)
    BY <1>1 DEF AllocFromChain
  <2>2. chain[k] \in Tables /\ chain[k] <= Len(chain) /\ Len(chain) \in Nat
    BY <2>1, ChainEntries
  <2>3. chain' \in Seq(Tables) /\ Len(chain') = Len(chain) /\ ChainIntact'
    BY <2>1, ChainAfterUseKeeps
  <2>4. TypeOK'
    BY <1>1, <2>1, <2>2, <2>3, HandOutType DEF TypeOK, AllocFromChain
  <2>5. NewTablesEmpty'
    <3> SUFFICES ASSUME NEW u \in Tables, u > Len(chain)
                 PROVE  freeSpace'[u] = SlotsPerTable
      BY <2>3 DEF NewTablesEmpty
    <3>1. u # chain[k]
      BY <2>2 DEF Tables
    <3> QED
      BY <2>1, <2>2, <3>1, HandOutType DEF NewTablesEmpty
  <2> QED
    BY <2>3, <2>4, <2>5
<1>2. ASSUME NEW h \in Holders, AllocFromNewTable(h) PROVE IInv'
  <2> DEFINE n == Len(chain)
  <2>1. /\ n \in Nat /\ n < MaxTables
        /\ chain' = <<n + 1>> \o chain
        /\ HandOut(n + 1, h) /\ sweepAt' = sweepAt
    BY <1>2 DEF AllocFromNewTable, TypeOK
  <2>2. n + 1 \in Tables /\ HasSpace(n + 1)
    BY <2>1, ManagedTableAssumption DEF Tables, NewTablesEmpty, HasSpace
  <2>3. /\ chain' \in Seq(Tables) /\ Len(chain') = n + 1
        /\ chain'[1] = n + 1
        /\ \A i \in 2 .. n + 1 : chain'[i] = chain[i - 1]
    BY <2>1, <2>2 DEF TypeOK
  <2>4. TypeOK'
    <3>1. /\ flags' \in [Tables -> [Slots -> SUBSET Bits]]
          /\ holder' \in [Tables -> [Slots -> Holders \cup {Nil}]]
          /\ freeSpace' \in [Tables -> Nat]
          /\ nextIndex' \in [Tables -> 0 .. SlotsPerTable]
      BY <2>1, <2>2, HandOutType
    <3>2. Len(chain') <= MaxTables /\ sweepAt' \in 0 .. MaxTables
      BY <2>1, <2>3, ManagedTableAssumption DEF TypeOK
    <3> QED
      BY <2>3, <3>1, <3>2 DEF TypeOK
  <2>5. ChainIntact'
    <3>1. \A i \in 1 .. n : chain[i] \in 1 .. n
      BY ChainEntries
    <3>2. ASSUME NEW i \in 1 .. n + 1
          PROVE  \/ chain'[i] = n + 1 /\ i = 1
                 \/ i - 1 \in 1 .. n /\ chain'[i] = chain[i - 1]
      <4>1. CASE i = 1
        BY <2>3, <4>1
      <4>2. CASE i \in 2 .. n + 1
        BY <2>1, <2>3, <4>2
      <4> QED
        BY <2>1, <4>1, <4>2
    <3>3. ASSUME NEW i \in 1 .. n + 1 PROVE chain'[i] <= n + 1
      BY <2>1, <3>1, <3>2
    <3>4. ASSUME NEW i \in 1 .. n + 1, NEW j \in 1 .. n + 1, chain'[i] = chain'[j]
          PROVE  i = j
      <4>1. CASE i = 1 \/ j = 1
        BY <2>1, <3>1, <3>2, <3>4, <4>1
      <4>2. CASE i # 1 /\ j # 1
        <5>1. i - 1 \in 1 .. n /\ j - 1 \in 1 .. n /\ chain[i - 1] = chain[j - 1]
          BY <2>1, <3>2, <3>4, <4>2
        <5>2. i - 1 = j - 1
          BY <5>1 DEF ChainIntact
        <5> QED
          BY <2>1, <5>2
      <4> QED
        BY <4>1, <4>2
    <3>5. ASSUME NEW t \in 1 .. n + 1
          PROVE  \E i \in 1 .. n + 1 : chain'[i] = t
      <4>1. CASE t = n + 1
        BY <4>1, <2>1, <2>3
      <4>2. CASE t \in 1 .. n
        <5>1. PICK p \in 1 .. n : chain[p] = t
          BY <4>2 DEF ChainIntact
        <5>2. p + 1 \in 2 .. n + 1 /\ chain'[p + 1] = t
          BY <5>1, <2>1, <2>3
        <5> QED
          BY <5>2, <2>1
      <4> QED
        BY <4>1, <4>2, <2>1
    <3> QED
      BY <2>3, <3>3, <3>4, <3>5 DEF ChainIntact
  <2>6. NewTablesEmpty'
    <3> SUFFICES ASSUME NEW u \in Tables, u > n + 1
                 PROVE  freeSpace'[u] = SlotsPerTable
      BY <2>3 DEF NewTablesEmpty
    <3>1. u # n + 1 /\ u > n
      BY <2>1 DEF Tables
    <3>2. freeSpace'[u] = freeSpace[u]
      BY <2>1, <2>2, <3>1, HandOutType
    <3> QED
      BY <3>1, <3>2 DEF NewTablesEmpty
  <2> QED
    BY <2>4, <2>5, <2>6
<1>3. CASE StartCollection
  <2>1. TypeOK'
    BY <1>3, ManagedTableAssumption DEF StartCollection, TypeOK
  <2> QED
    BY <1>3, <2>1 DEF StartCollection, ChainIntact, NewTablesEmpty
<1>4. ASSUME NEW t \in Tables, NEW s \in Slots, Mark(t, s) PROVE IInv'
  <2>1. flags[t][s] \cup {"GC"} \in SUBSET Bits
    BY DEF TypeOK, Bits
  <2>2. flags' \in [Tables -> [Slots -> SUBSET Bits]]
    BY <1>4, <2>1 DEF Mark, TypeOK
  <2>3. TypeOK'
    BY <1>4, <2>2 DEF Mark, TypeOK
  <2> QED
    BY <1>4, <2>3 DEF Mark, ChainIntact, NewTablesEmpty
<1>5. CASE SweepTable
  <2> DEFINE t == chain[sweepAt]
             g == Cardinality(Garbage(t))
  <2>1. t \in Tables /\ t <= Len(chain) /\ Len(chain) \in Nat
    BY <1>5 DEF SweepTable, TypeOK, ChainIntact
  <2>2. g \in Nat
    BY SlotsFinite DEF Garbage
  <2>3. freeSpace' = [freeSpace EXCEPT ![t] = @ + g]
    BY <1>5 DEF SweepTable
  <2>4. flags' \in [Tables -> [Slots -> SUBSET Bits]]
    BY <1>5, <2>1 DEF SweepTable, TypeOK, Bits
  <2>5. holder' \in [Tables -> [Slots -> Holders \cup {Nil}]]
    BY <1>5, <2>1 DEF SweepTable, TypeOK
  <2>6. sweepAt' \in 0 .. MaxTables
    <3>1. sweepAt \in 1 .. Len(chain) /\ Len(chain) \in Nat /\ Len(chain) <= MaxTables
      BY <1>5, ChainEntries DEF SweepTable
    <3>2. sweepAt' = IF sweepAt = Len(chain) THEN 0 ELSE sweepAt + 1
      BY <1>5 DEF SweepTable
    <3> QED
      BY <3>1, <3>2, ManagedTableAssumption
  <2>7. TypeOK'
    BY <1>5, <2>1, <2>2, <2>3, <2>4, <2>5, <2>6 DEF SweepTable, TypeOK
  <2>8. NewTablesEmpty'
    BY <1>5, <2>1, <2>3 DEF SweepTable, NewTablesEmpty, TypeOK, Tables
  <2>9. ChainIntact'
    BY <1>5 DEF SweepTable, ChainIntact
  <2> QED
    BY <2>7, <2>8, <2>9
<1>6. CASE UNCHANGED vars
  BY <1>6 DEF vars, TypeOK, ChainIntact, NewTablesEmpty
<1> QED
  BY <1>1, <1>2, <1>3, <1>4, <1>5, <1>6 DEF Next

(* So it holds always.                                                     *)
LEMMA IInvCorrect == Spec => []IInv
BY InitIInv, NextIInv, PTL DEF Spec

(* Every variable keeps its type, for all four allocators.                 *)
THEOREM TypeCorrect == Spec => []TypeOK
<1>1. IInv => TypeOK
  BY DEF IInv
<1> QED
  BY <1>1, IInvCorrect, PTL

(* The chain of tables loses no table and links none twice, whatever order *)
(* the allocations leave it in.                                            *)
THEOREM ChainCorrect == Spec => []ChainIntact
<1>1. IInv => ChainIntact
  BY DEF IInv
<1> QED
  BY <1>1, IInvCorrect, PTL

-----------------------------------------------------------------------------
(* The rest is about items, hash tables and frames: the vector allocator   *)
(* does not count the slots it takes.                                      *)
ExactInv == IInv /\ FreeSpaceExact

(* Two finite sets with no element in common count as much as their union. *)
LEMMA DisjointCardinality ==
  ASSUME NEW A, NEW B, IsFiniteSet(A), IsFiniteSet(B), A \cap B = {}
  PROVE  Cardinality(A \cup B) = Cardinality(A) + Cardinality(B)
<1>1. Cardinality(A) \in Nat /\ Cardinality(B) \in Nat /\ Cardinality(A \cap B) = 0
  BY FS_CardinalityType, FS_EmptySet
<1>2. Cardinality(A \cup B) = Cardinality(A) + Cardinality(B) - Cardinality(A \cap B)
  BY FS_Union
<1> QED
  BY <1>1, <1>2

(* The table an allocation takes from has a slot the search can stop at.   *)
LEMMA SpaceMeansFree ==
  ASSUME TypeOK, FreeSpaceExact, NEW t \in Tables, HasSpace(t)
  PROVE  FreeSlots(t) # {}
<1>1. freeSpace[t] = Cardinality(FreeSlots(t)) /\ freeSpace[t] > 0
  BY DEF FreeSpaceExact, HasSpace
<1>2. Cardinality({}) = 0
  BY FS_EmptySet
<1> QED
  BY <1>1, <1>2

(* Handing out a slot takes one slot from the free ones of that table, and *)
(* one from the count.                                                     *)
LEMMA HandOutExact ==
  ASSUME Kind # "vector", TypeOK, FreeSpaceExact,
         NEW t \in Tables, NEW h \in Holders, HasSpace(t), HandOut(t, h)
  PROVE  FreeSpaceExact'
<1>1. PICK s \in Slots :
        /\ StopsAt(t, s)
        /\ flags' = [flags EXCEPT ![t][s] = {"USE", "CN"}]
        /\ freeSpace' = [freeSpace EXCEPT ![t] = FreeSpaceAfterUse(t)]
  BY DEF HandOut
<1>2. s \in FreeSlots(t)
  BY <1>1, SpaceMeansFree, SearchFindsFree
<1>3. /\ \A u \in Tables \ {t} : flags'[u] = flags[u]
      /\ \A r \in Slots : flags'[t][r] = IF r = s THEN {"USE", "CN"} ELSE flags[t][r]
  BY <1>1 DEF TypeOK
<1>4. FreeSlots(t)' = FreeSlots(t) \ {s}
  BY <1>3 DEF FreeSlots, InUse
<1>5. Cardinality(FreeSlots(t)') = Cardinality(FreeSlots(t)) - 1
  <2>1. IsFiniteSet(FreeSlots(t))
    BY SlotsFinite DEF FreeSlots
  <2> QED
    BY <1>2, <1>4, <2>1, FS_RemoveElement
<1>6. freeSpace'[t] = freeSpace[t] - 1 /\ \A u \in Tables \ {t} : freeSpace'[u] = freeSpace[u]
  BY <1>1 DEF FreeSpaceAfterUse, TypeOK
<1>7. \A u \in Tables \ {t} : FreeSlots(u)' = FreeSlots(u)
  BY <1>3 DEF FreeSlots, InUse
<1> QED
  BY <1>5, <1>6, <1>7 DEF FreeSpaceExact

(* Sweeping a table adds its garbage to the free slots and to the count.   *)
LEMMA SweepExact ==
  ASSUME TypeOK, ChainIntact, FreeSpaceExact, SweepTable
  PROVE  FreeSpaceExact'
<1>1. PICK t \in Tables : t = chain[sweepAt]
  BY ChainEntries DEF SweepTable
<1> DEFINE g == Garbage(t)
<1>2. /\ \A u \in Tables \ {t} : flags'[u] = flags[u] /\ freeSpace'[u] = freeSpace[u]
      /\ \A r \in Slots : flags'[t][r] = IF r \in g THEN {}
                                         ELSE IF InUse(t, r) THEN {"USE"}
                                         ELSE flags[t][r]
      /\ freeSpace'[t] = freeSpace[t] + Cardinality(g)
  BY <1>1 DEF SweepTable, TypeOK
<1>3. FreeSlots(t)' = FreeSlots(t) \cup g
  <2>1. \A r \in g : InUse(t, r)
    BY DEF Garbage
  <2>2. ASSUME NEW r \in Slots
        PROVE  "USE" \in flags'[t][r] <=> "USE" \in flags[t][r] /\ r \notin g
    BY <1>2, <2>1 DEF InUse
  <2>3. g \in SUBSET Slots
    BY DEF Garbage
  <2> QED
    BY <2>2, <2>3, <1>1, <1>2 DEF FreeSlots, InUse
<1>4. Cardinality(FreeSlots(t) \cup g) = Cardinality(FreeSlots(t)) + Cardinality(g)
  <2>1. IsFiniteSet(FreeSlots(t)) /\ IsFiniteSet(g)
    BY SlotsFinite DEF FreeSlots, Garbage
  <2>2. FreeSlots(t) \cap g = {}
    BY DEF FreeSlots, Garbage
  <2> QED
    BY <2>1, <2>2, DisjointCardinality
<1>5. \A u \in Tables \ {t} : FreeSlots(u)' = FreeSlots(u)
  BY <1>2 DEF FreeSlots, InUse
<1>6. freeSpace'[t] = Cardinality(FreeSlots(t)')
  BY <1>2, <1>3, <1>4 DEF FreeSpaceExact
<1>7. \A u \in Tables \ {t} : freeSpace'[u] = Cardinality(FreeSlots(u)')
  BY <1>2, <1>5 DEF FreeSpaceExact
<1> QED
  BY <1>6, <1>7 DEF FreeSpaceExact

(* With no table yet, every count is that of a table of free slots.        *)
LEMMA InitExact == Init => FreeSpaceExact
<1> SUFFICES ASSUME Init, NEW t \in Tables
             PROVE  freeSpace[t] = Cardinality(FreeSlots(t))
  BY DEF FreeSpaceExact
<1>1. FreeSlots(t) = Slots
  BY DEF Init, FreeSlots, InUse
<1>2. Cardinality(Slots) = SlotsPerTable
  BY FS_Interval, ManagedTableAssumption DEF Slots
<1> QED
  BY <1>1, <1>2 DEF Init

(* Every step of a counting allocator, and of the collector, keeps the     *)
(* counts exact.                                                           *)
LEMMA NextExact ==
  ASSUME Kind # "vector"
  PROVE  ExactInv /\ [Next]_vars => ExactInv'
<1> SUFFICES ASSUME ExactInv, [Next]_vars PROVE FreeSpaceExact'
  BY NextIInv DEF ExactInv
<1> USE DEF ExactInv, IInv
<1>1. ASSUME NEW h \in Holders, AllocFromChain(h) PROVE FreeSpaceExact'
  <2>1. PICK k \in 1 .. Len(chain) : HasSpace(chain[k]) /\ HandOut(chain[k], h)
    BY <1>1 DEF AllocFromChain
  <2>2. chain[k] \in Tables
    BY <2>1, ChainEntries
  <2> QED
    BY <2>1, <2>2, HandOutExact
<1>2. ASSUME NEW h \in Holders, AllocFromNewTable(h) PROVE FreeSpaceExact'
  <2>1. Len(chain) \in Nat /\ Len(chain) < MaxTables /\ HandOut(Len(chain) + 1, h)
    BY <1>2, ChainEntries DEF AllocFromNewTable
  <2>2. Len(chain) + 1 \in Tables /\ HasSpace(Len(chain) + 1)
    BY <2>1, ManagedTableAssumption DEF Tables, NewTablesEmpty, HasSpace
  <2> QED
    BY <2>1, <2>2, HandOutExact
<1>3. CASE StartCollection
  BY <1>3 DEF StartCollection, FreeSpaceExact, FreeSlots, InUse
<1>4. ASSUME NEW t \in Tables, NEW s \in Slots, Mark(t, s) PROVE FreeSpaceExact'
  <2>1. flags' = [flags EXCEPT ![t][s] = @ \cup {"GC"}] /\ freeSpace' = freeSpace
    BY <1>4 DEF Mark
  <2>2. \A u \in Tables, r \in Slots : InUse(u, r)' <=> InUse(u, r)
    BY <2>1 DEF InUse, TypeOK
  <2>3. \A u \in Tables : FreeSlots(u)' = FreeSlots(u)
    BY <2>2 DEF FreeSlots
  <2> QED
    BY <2>1, <2>3 DEF FreeSpaceExact
<1>5. CASE SweepTable
  BY <1>5, SweepExact
<1>6. CASE UNCHANGED vars
  BY <1>6 DEF vars, FreeSpaceExact, FreeSlots, InUse
<1> QED
  BY <1>1, <1>2, <1>3, <1>4, <1>5, <1>6 DEF Next

(* So, with the types and the chain, they are exact always.                *)
LEMMA ExactInvCorrect == ASSUME Kind # "vector" PROVE Spec => []ExactInv
<1>1. Init => ExactInv
  BY InitIInv, InitExact DEF ExactInv
<1>2. ExactInv /\ [Next]_vars => ExactInv'
  BY NextExact
<1> QED
  BY <1>1, <1>2, PTL DEF Spec

(* The count the allocators trust is the number of free slots, always.     *)
THEOREM FreeSpaceCorrect ==
  ASSUME Kind # "vector"
  PROVE  Spec => []FreeSpaceExact
<1>1. ExactInv => FreeSpaceExact
  BY DEF ExactInv
<1> QED
  BY <1>1, ExactInvCorrect, PTL

-----------------------------------------------------------------------------
(* How the objects of the pool look in the tables.                         *)
LEMMA PoolView ==
  /\ \A t \in Tables, s \in Slots :
       /\ <<t, s>> \in Objects
       /\ <<t, s>> \in Live <=> "USE" \in flags[t][s]
       /\ <<t, s>> \in Pinned <=> "USE" \in flags[t][s] /\ flags[t][s] # {"USE"}
       /\ Content[<<t, s>>] = holder[t][s]
  /\ Live \subseteq Objects /\ Pinned \subseteq Live
  /\ Content = [o \in Objects |-> Content[o]]
  /\ \A o \in Objects : \E t \in Tables, s \in Slots : o = <<t, s>>
BY DEF Objects, Live, Pinned, Content, InUse

(* And how they look after a step.                                         *)
LEMMA PoolViewNext ==
  /\ \A t \in Tables, s \in Slots :
       /\ <<t, s>> \in Live' <=> "USE" \in flags'[t][s]
       /\ <<t, s>> \in Pinned' <=> "USE" \in flags'[t][s] /\ flags'[t][s] # {"USE"}
       /\ Content'[<<t, s>>] = holder'[t][s]
  /\ Live' \subseteq Objects /\ Pinned' \subseteq Live'
  /\ Content' = [o \in Objects |-> Content'[o]]
BY DEF Objects, Live, Pinned, Content, InUse

(* A search that ends at a free slot hands out an object of the pool.      *)
LEMMA HandOutImplements ==
  ASSUME TypeOK, FreeSpaceExact,
         NEW t \in Tables, NEW h \in Holders, HasSpace(t), HandOut(t, h)
  PROVE  \E o \in Objects : Pool!HandOut(o, h)
<1>1. PICK s \in Slots :
        /\ StopsAt(t, s)
        /\ flags' = [flags EXCEPT ![t][s] = {"USE", "CN"}]
        /\ holder' = [holder EXCEPT ![t][s] = h]
  BY DEF HandOut
<1>2. "USE" \notin flags[t][s]
  BY <1>1, SpaceMeansFree, SearchFindsFree DEF FreeSlots, InUse
<1> DEFINE o == <<t, s>>
<1>3. \A u \in Tables, r \in Slots :
        /\ flags'[u][r] = IF u = t /\ r = s THEN {"USE", "CN"} ELSE flags[u][r]
        /\ holder'[u][r] = IF u = t /\ r = s THEN h ELSE holder[u][r]
  BY <1>1 DEF TypeOK
<1>4. o \in Objects \ Live
  BY <1>2, PoolView
<1>5. Live' = Live \cup {o}
  <2>1. ASSUME NEW u \in Tables, NEW r \in Slots
        PROVE  <<u, r>> \in Live' <=> <<u, r>> \in Live \/ <<u, r>> = o
    <3>1. <<u, r>> \in Live' <=> "USE" \in flags'[u][r]
      BY PoolViewNext
    <3>2. <<u, r>> \in Live <=> "USE" \in flags[u][r]
      BY PoolView
    <3>3. <<u, r>> = o <=> u = t /\ r = s
      OBVIOUS
    <3> HIDE DEF o
    <3> QED
      BY <1>3, <3>1, <3>2, <3>3
  <2> QED
    BY <2>1, <1>4, PoolView, PoolViewNext
<1>6. Pinned' = Pinned \cup {o}
  <2>1. {"USE", "CN"} # {"USE"}
    OBVIOUS
  <2>2. ASSUME NEW u \in Tables, NEW r \in Slots
        PROVE  <<u, r>> \in Pinned' <=> <<u, r>> \in Pinned \/ <<u, r>> = o
    <3>1. <<u, r>> \in Pinned' <=> "USE" \in flags'[u][r] /\ flags'[u][r] # {"USE"}
      BY PoolViewNext
    <3>2. <<u, r>> \in Pinned <=> "USE" \in flags[u][r] /\ flags[u][r] # {"USE"}
      BY PoolView
    <3>3. <<u, r>> = o <=> u = t /\ r = s
      OBVIOUS
    <3> HIDE DEF o
    <3> QED
      BY <1>3, <2>1, <3>1, <3>2, <3>3
  <2> QED
    BY <2>2, <1>4, PoolView, PoolViewNext
<1>7. Content' = [Content EXCEPT ![o] = h]
  <2>1. ASSUME NEW u \in Tables, NEW r \in Slots
        PROVE  Content'[<<u, r>>] = IF <<u, r>> = o THEN h ELSE Content[<<u, r>>]
    <3>1. Content'[<<u, r>>] = holder'[u][r] /\ Content[<<u, r>>] = holder[u][r]
      BY PoolView, PoolViewNext
    <3>2. <<u, r>> = o <=> u = t /\ r = s
      OBVIOUS
    <3> HIDE DEF o
    <3> QED
      BY <1>3, <3>1, <3>2
  <2>2. \A x \in Objects : Content'[x] = IF x = o THEN h ELSE Content[x]
    BY <2>1, PoolView
  <2> QED
    BY <2>2, <1>4, PoolView, PoolViewNext
<1> QED
  BY <1>4, <1>5, <1>6, <1>7 DEF Pool!HandOut

(* Sweeping a table reclaims that region of the pool.                      *)
LEMMA SweepImplements ==
  ASSUME TypeOK, ChainIntact, SweepTable
  PROVE  \E region \in SUBSET Objects : Pool!Reclaim(region)
<1>1. PICK t \in Tables : t = chain[sweepAt]
  BY ChainEntries DEF SweepTable
<1> DEFINE region == {o \in Objects : o[1] = t}
<1>2. \A u \in Tables, r \in Slots : <<u, r>> \in region <=> u = t
  BY PoolView
<1>3. \A u \in Tables, r \in Slots :
        flags'[u][r] = IF u = t /\ r \in Garbage(t) THEN {}
                       ELSE IF u = t /\ InUse(u, r) THEN {"USE"}
                       ELSE flags[u][r]
  BY <1>1 DEF SweepTable, TypeOK
<1>4. holder' \in [Tables -> [Slots -> Holders \cup {Nil}]]
  BY <1>1 DEF SweepTable, TypeOK
<1>5. \A u \in Tables, r \in Slots :
        holder'[u][r] # holder[u][r] => u = t /\ r \in Garbage(t)
  BY <1>1 DEF SweepTable, TypeOK, Emptied
<1>6. \A r \in Slots : r \in Garbage(t) <=> <<t, r>> \in Live \ Pinned
  <2> SUFFICES ASSUME NEW r \in Slots
               PROVE  r \in Garbage(t) <=> <<t, r>> \in Live \ Pinned
    OBVIOUS
  <2>1. flags[t][r] \subseteq {"USE", "GC", "CN"}
    BY DEF TypeOK, Bits
  <2>2. "USE" \in flags[t][r] =>
          (flags[t][r] \cap {"GC", "CN"} = {} <=> flags[t][r] = {"USE"})
    BY <2>1
  <2> QED
    BY <2>2, PoolView DEF Garbage, InUse
<1>7. ASSUME NEW u \in Tables, NEW r \in Slots
      PROVE  <<u, r>> \in Live' <=> <<u, r>> \in Live \ (region \ Pinned)
  <2>1. <<u, r>> \in Live' <=> "USE" \in flags'[u][r]
    BY PoolViewNext
  <2>2. <<u, r>> \in Live <=> InUse(u, r)
    BY PoolView DEF InUse
  <2>3. "USE" \in flags'[u][r] <=> InUse(u, r) /\ ~ (u = t /\ r \in Garbage(t))
    BY <1>3 DEF InUse
  <2>4. u = t /\ r \in Garbage(t) <=> <<u, r>> \in (Live \ Pinned) \cap region
    BY <1>2, <1>6
  <2> HIDE DEF region
  <2> QED
    BY <2>1, <2>2, <2>3, <2>4
<1>8. Live' = Live \ (region \ Pinned)
  BY <1>7, PoolView, PoolViewNext
<1>9. ASSUME NEW u \in Tables, NEW r \in Slots
      PROVE  <<u, r>> \in Pinned' <=> <<u, r>> \in Pinned \ region
  <2>1. <<u, r>> \in Pinned' <=> "USE" \in flags'[u][r] /\ flags'[u][r] # {"USE"}
    BY PoolViewNext
  <2>2. <<u, r>> \in Pinned <=> "USE" \in flags[u][r] /\ flags[u][r] # {"USE"}
    BY PoolView
  <2>3. CASE u = t
    <3>1. ~ ("USE" \in flags'[u][r] /\ flags'[u][r] # {"USE"})
      BY <1>3, <2>3 DEF InUse
    <3> QED
      BY <1>2, <2>1, <2>3, <3>1
  <2>4. CASE u # t
    <3>1. flags'[u][r] = flags[u][r]
      BY <1>3, <2>4
    <3> QED
      BY <1>2, <2>1, <2>2, <2>4, <3>1
  <2> QED
    BY <2>3, <2>4
<1>10. Pinned' = Pinned \ region
  BY <1>9, PoolView, PoolViewNext
<1>11. Content' \in [Objects -> Holders \cup {Nil}]
  BY <1>4, PoolView, PoolViewNext
<1>12. ASSUME NEW o \in Live' PROVE Content'[o] = Content[o]
  <2>1. PICK u \in Tables, r \in Slots : o = <<u, r>>
    BY PoolView, PoolViewNext
  <2>2. <<u, r>> \notin region \ Pinned /\ <<u, r>> \in Live
    BY <1>7, <2>1
  <2>3. ~ (u = t /\ r \in Garbage(t))
    BY <1>2, <1>6, <2>2
  <2> QED
    BY <1>5, <2>1, <2>3, PoolView, PoolViewNext
<1>13. region \in SUBSET Objects
  OBVIOUS
<1> QED
  BY <1>8, <1>10, <1>11, <1>12, <1>13 DEF Pool!Reclaim

(* The first state is a first state of the pool.                           *)
LEMMA InitImplements == Init => Pool!Init
<1> SUFFICES ASSUME Init PROVE Pool!Init
  OBVIOUS
<1>1. \A t \in Tables, s \in Slots : flags[t][s] = {} /\ holder[t][s] = Nil
  BY DEF Init
<1>2. Live = {} /\ Pinned = {}
  BY <1>1, PoolView
<1>3. Content \in [Objects -> Holders \cup {Nil}]
  BY <1>1, PoolView
<1> QED
  BY <1>2, <1>3 DEF Pool!Init

(* Every step of the tables is a step of the pool, or leaves it as it was. *)
LEMMA NextImplements ==
  ASSUME Kind # "vector"
  PROVE  ExactInv /\ [Next]_vars => [Pool!Next]_(Pool!vars)
<1> SUFFICES ASSUME ExactInv, [Next]_vars PROVE [Pool!Next]_(Pool!vars)
  OBVIOUS
<1> USE DEF ExactInv, IInv
<1>1. ASSUME NEW h \in Holders, AllocFromChain(h) PROVE Pool!Next
  <2>1. PICK k \in 1 .. Len(chain) : HasSpace(chain[k]) /\ HandOut(chain[k], h)
    BY <1>1 DEF AllocFromChain
  <2>2. chain[k] \in Tables
    BY <2>1, ChainEntries
  <2> QED
    BY <2>1, <2>2, HandOutImplements DEF Pool!Next
<1>2. ASSUME NEW h \in Holders, AllocFromNewTable(h) PROVE Pool!Next
  <2>1. Len(chain) \in Nat /\ Len(chain) < MaxTables /\ HandOut(Len(chain) + 1, h)
    BY <1>2, ChainEntries DEF AllocFromNewTable
  <2>2. Len(chain) + 1 \in Tables /\ HasSpace(Len(chain) + 1)
    BY <2>1, ManagedTableAssumption DEF Tables, NewTablesEmpty, HasSpace
  <2> QED
    BY <2>1, <2>2, HandOutImplements DEF Pool!Next
<1>3. ASSUME flags' = flags, holder' = holder
      PROVE  UNCHANGED Pool!vars
  BY <1>3 DEF Pool!vars, Live, Pinned, Content, InUse
<1>4. ASSUME NEW t \in Tables, NEW s \in Slots, Mark(t, s)
      PROVE  Pool!Next \/ UNCHANGED Pool!vars
  <2> DEFINE o == <<t, s>>
  <2>1. holder' = holder /\ flags' = [flags EXCEPT ![t][s] = @ \cup {"GC"}]
    BY <1>4 DEF Mark
  <2>2. \A u \in Tables, r \in Slots :
          flags'[u][r] = IF u = t /\ r = s THEN flags[t][s] \cup {"GC"} ELSE flags[u][r]
    BY <2>1 DEF TypeOK
  <2>3. Content' = Content
    BY <2>1 DEF Content
  <2>4. Live' = Live
    <3>1. ASSUME NEW u \in Tables, NEW r \in Slots
          PROVE  <<u, r>> \in Live' <=> <<u, r>> \in Live
      <4>1. "USE" \in flags'[u][r] <=> "USE" \in flags[u][r]
        BY <2>2
      <4> QED
        BY <4>1, PoolView, PoolViewNext
    <3>2. ASSUME NEW x \in Objects PROVE x \in Live' <=> x \in Live
      <4>1. PICK u \in Tables, r \in Slots : x = <<u, r>>
        BY PoolView
      <4> QED
        BY <3>1, <4>1
    <3>3. Live \subseteq Objects /\ Live' \subseteq Objects
      BY PoolView, PoolViewNext
    <3> QED
      BY <3>2, <3>3
  <2>5. ASSUME NEW u \in Tables, NEW r \in Slots, ~ (u = t /\ r = s)
        PROVE  <<u, r>> \in Pinned' <=> <<u, r>> \in Pinned
    <3>1. flags'[u][r] = flags[u][r]
      BY <2>2, <2>5
    <3>2. <<u, r>> \in Pinned <=> "USE" \in flags[u][r] /\ flags[u][r] # {"USE"}
      BY PoolView
    <3>3. <<u, r>> \in Pinned' <=> "USE" \in flags'[u][r] /\ flags'[u][r] # {"USE"}
      BY PoolViewNext
    <3> QED
      BY <3>1, <3>2, <3>3
  <2>6. CASE "USE" \in flags[t][s]
    <3>1. o \in Live /\ o \in Objects
      BY <2>6, PoolView
    <3>2. o \in Pinned'
      <4>1. "USE" \in flags'[t][s] /\ "GC" \in flags'[t][s]
        BY <2>2, <2>6
      <4>2. flags'[t][s] # {"USE"}
        BY <4>1
      <4> QED
        BY <4>1, <4>2, PoolViewNext
    <3>3. ASSUME NEW x \in Objects
          PROVE  x \in Pinned' <=> x \in Pinned \/ x = o
      BY <2>5, <3>2, PoolView
    <3>4. Pinned' = Pinned \cup {o}
      BY <3>1, <3>3, PoolView, PoolViewNext
    <3> QED
      BY <2>3, <2>4, <3>1, <3>4 DEF Pool!Next, Pool!Pin
  <2>7. CASE "USE" \notin flags[t][s]
    <3>1. <<t, s>> \notin Live
      BY <2>7, PoolView
    <3>2. <<t, s>> \notin Pinned /\ <<t, s>> \notin Pinned'
      BY <2>4, <3>1, PoolView, PoolViewNext
    <3>3. ASSUME NEW x \in Objects PROVE x \in Pinned' <=> x \in Pinned
      BY <2>5, <3>2, PoolView
    <3>4. Pinned' = Pinned
      BY <3>3, PoolView, PoolViewNext
    <3> QED
      BY <2>3, <2>4, <3>4 DEF Pool!vars
  <2> QED
    BY <2>6, <2>7
<1>5. CASE SweepTable
  BY <1>5, SweepImplements DEF Pool!Next
<1>6. CASE StartCollection \/ UNCHANGED vars
  BY <1>3, <1>6 DEF StartCollection, vars
<1> QED
  BY <1>1, <1>2, <1>4, <1>5, <1>6 DEF Next

(* Items, hash tables and frames: whatever the chain does, a slot has one  *)
(* holder at a time, keeps its content, and is reclaimed exactly when no   *)
(* mark and no new-object bit pins it.                                     *)
THEOREM Implementation ==
  ASSUME Kind # "vector"
  PROVE  Spec => ImplementsPool
<1>1. Init => Pool!Init
  BY InitImplements
<1>2. ExactInv /\ [Next]_vars => [Pool!Next]_(Pool!vars)
  BY NextImplements
<1> QED
  BY <1>1, <1>2, ExactInvCorrect, PTL DEF Spec, Pool!Spec, ImplementsPool

(* The chain of tables gets longer only when all its slots are taken.      *)
THEOREM GrowthCorrect ==
  ASSUME Kind # "vector"
  PROVE  Spec => GrowsOnlyWhenFull
<1>1. ASSUME ExactInv, [Next]_vars, Len(chain') > Len(chain),
             NEW i \in 1 .. Len(chain)
      PROVE  FreeSlots(chain[i]) = {}
  <2> USE <1>1 DEF ExactInv, IInv
  <2>1. chain[i] \in Tables /\ Len(chain) \in Nat
    BY ChainEntries
  <2>2. CASE \E h \in Holders : AllocFromChain(h)
    <3>1. PICK k \in 1 .. Len(chain) : chain' = ChainAfterUse(k)
      BY <2>2 DEF AllocFromChain
    <3>2. Len(chain') = Len(chain)
      BY <3>1, ChainAfterUseKeeps
    <3> QED
      BY <2>1, <3>2
  <2>3. CASE \E h \in Holders : AllocFromNewTable(h)
    <3>1. ~ HasSpace(chain[i])
      BY <2>3 DEF AllocFromNewTable
    <3>2. freeSpace[chain[i]] \in Nat /\ freeSpace[chain[i]] = Cardinality(FreeSlots(chain[i]))
      BY <2>1 DEF FreeSpaceExact, TypeOK
    <3>3. Cardinality(FreeSlots(chain[i])) = 0
      BY <3>1, <3>2 DEF HasSpace
    <3>4. IsFiniteSet(FreeSlots(chain[i]))
      BY SlotsFinite DEF FreeSlots
    <3> QED
      BY <3>3, <3>4, FS_EmptySet
  <2>4. CASE chain' = chain
    BY <2>1, <2>4
  <2> QED
    BY <2>2, <2>3, <2>4 DEF Next, vars, StartCollection, Mark, SweepTable
<1>2. ExactInv /\ [Next]_vars =>
        [Len(chain') > Len(chain) =>
           \A i \in 1 .. Len(chain) : FreeSlots(chain[i]) = {}]_vars
  BY <1>1
<1> QED
  BY <1>2, ExactInvCorrect, PTL DEF Spec, GrowsOnlyWhenFull

(* The slot an allocation stores in was free.                              *)
LEMMA HandOutOverwritesNothing ==
  ASSUME TypeOK, NEW t \in Tables, NEW h \in Holders, HandOut(t, h),
         NEW u \in Tables, NEW r \in Slots, Overwrites(u, r)
  PROVE  u = t /\ FreeSlots(t) = {}
<1>1. PICK s \in Slots :
        StopsAt(t, s) /\ holder' = [holder EXCEPT ![t][s] = h]
  BY DEF HandOut
<1>2. u = t /\ r = s
  BY <1>1 DEF Overwrites, TypeOK
<1>3. s \notin FreeSlots(t)
  BY <1>2 DEF Overwrites, FreeSlots
<1> QED
  BY <1>1, <1>2, <1>3, SearchFindsFree

(* Whatever the step and the allocator, an object that stays allocated is  *)
(* overwritten only in a table with no slot left.                          *)
LEMMA OverwriteMeansFull ==
  ASSUME IInv, [Next]_vars, NEW u \in Tables, NEW r \in Slots, Overwrites(u, r)
  PROVE  /\ FreeSlots(u) = {}
         /\ \E h \in Holders :
              HasSpace(u) /\ (AllocFromChain(h) \/ AllocFromNewTable(h))
<1> USE DEF IInv
<1>1. ASSUME NEW h \in Holders, AllocFromChain(h)
      PROVE  FreeSlots(u) = {} /\ HasSpace(u)
  <2>1. PICK k \in 1 .. Len(chain) : HasSpace(chain[k]) /\ HandOut(chain[k], h)
    BY <1>1 DEF AllocFromChain
  <2>2. chain[k] \in Tables
    BY <2>1, ChainEntries
  <2> QED
    BY <2>1, <2>2, HandOutOverwritesNothing
<1>2. ASSUME NEW h \in Holders, AllocFromNewTable(h)
      PROVE  FreeSlots(u) = {} /\ HasSpace(u)
  <2>1. Len(chain) \in Nat /\ Len(chain) < MaxTables /\ HandOut(Len(chain) + 1, h)
    BY <1>2, ChainEntries DEF AllocFromNewTable
  <2>2. Len(chain) + 1 \in Tables /\ HasSpace(Len(chain) + 1)
    BY <2>1, ManagedTableAssumption DEF Tables, NewTablesEmpty, HasSpace
  <2> QED
    BY <2>1, <2>2, HandOutOverwritesNothing
<1>3. ~ UNCHANGED holder
  BY DEF Overwrites
<1>4. ~ SweepTable
  <2> SUFFICES ASSUME SweepTable PROVE FALSE
    OBVIOUS
  <2>1. PICK t \in Tables : t = chain[sweepAt]
    BY ChainEntries DEF SweepTable
  <2>2. u = t /\ r \in Garbage(t)
    BY <2>1 DEF SweepTable, TypeOK, Overwrites, Emptied
  <2>3. flags'[t][r] = {}
    BY <2>1, <2>2 DEF SweepTable, TypeOK
  <2> QED
    BY <2>2, <2>3 DEF Overwrites, InUse
<1> QED
  BY <1>1, <1>2, <1>3, <1>4 DEF Next, vars, StartCollection, Mark

(* Items, hash tables and frames: nobody is handed a slot another holder   *)
(* still has.                                                              *)
THEOREM NeverSharedCorrect ==
  ASSUME Kind # "vector"
  PROVE  Spec => NeverShared
<1>1. ASSUME ExactInv, [Next]_vars, NEW t \in Tables, NEW s \in Slots
      PROVE  ~ Overwrites(t, s)
  <2> SUFFICES ASSUME Overwrites(t, s) PROVE FALSE
    OBVIOUS
  <2>1. FreeSlots(t) = {} /\ HasSpace(t)
    BY <1>1, OverwriteMeansFull DEF ExactInv
  <2> QED
    BY <1>1, <2>1, SpaceMeansFree DEF ExactInv, IInv
<1>2. ExactInv /\ [Next]_vars =>
        [\A t \in Tables, s \in Slots : ~ Overwrites(t, s)]_vars
  BY <1>1
<1> QED
  BY <1>2, ExactInvCorrect, PTL DEF Spec, NeverShared

(* Vectors too are overwritten only when all slots are taken.              *)
THEOREM SharedOnlyWhenFullCorrect == Spec => SharedOnlyWhenFull
<1>1. IInv /\ [Next]_vars =>
        [\A t \in Tables, s \in Slots : Overwrites(t, s) => FreeSlots(t) = {}]_vars
  BY OverwriteMeansFull
<1> QED
  BY <1>1, IInvCorrect, PTL DEF Spec, SharedOnlyWhenFull

(* There is never a second vector table: the count that would call for one *)
(* does not go down.                                                       *)
THEOREM VectorTableCorrect ==
  ASSUME Kind = "vector"
  PROVE  Spec => []VectorTableNeverGrows
<1> DEFINE VInv == IInv /\ VectorTableNeverGrows
<1>1. Init => VInv
  <2>1. Init => VectorTableNeverGrows
    BY ManagedTableAssumption DEF Init, VectorTableNeverGrows
  <2> QED
    BY <2>1, InitIInv
<1>2. VInv /\ [Next]_vars => VInv'
  <2> SUFFICES ASSUME VInv, [Next]_vars PROVE VectorTableNeverGrows'
    BY NextIInv
  <2> USE DEF IInv
  <2>1. \A t \in Tables : freeSpace[t] \in Nat /\ freeSpace[t] >= SlotsPerTable /\ HasSpace(t)
    BY ManagedTableAssumption DEF VectorTableNeverGrows, HasSpace, TypeOK
  <2>2. ASSUME NEW t \in Tables, NEW h \in Holders, HandOut(t, h)
        PROVE  freeSpace' = freeSpace
    BY <2>2 DEF HandOut, FreeSpaceAfterUse, TypeOK
  <2>3. ASSUME NEW h \in Holders, AllocFromChain(h) PROVE VectorTableNeverGrows'
    <3>1. PICK k \in 1 .. Len(chain) : HandOut(chain[k], h)
      BY <2>3 DEF AllocFromChain
    <3>2. freeSpace' = freeSpace
      BY <2>2, <3>1, ChainEntries
    <3>3. chain' = chain
      BY <2>3 DEF AllocFromChain, ChainAfterUse
    <3> QED
      BY <3>2, <3>3 DEF VectorTableNeverGrows
  <2>4. ASSUME NEW h \in Holders, AllocFromNewTable(h) PROVE VectorTableNeverGrows'
    <3>1. /\ Len(chain) \in Nat /\ Len(chain) < MaxTables
          /\ HandOut(Len(chain) + 1, h)
          /\ chain' = <<Len(chain) + 1>> \o chain
          /\ \A i \in 1 .. Len(chain) : ~ HasSpace(chain[i])
      BY <2>4, ChainEntries DEF AllocFromNewTable
    <3>2. Len(chain) + 1 \in Tables
      BY <3>1, ManagedTableAssumption DEF Tables
    <3>3. freeSpace' = freeSpace
      BY <2>2, <3>1, <3>2
    <3>4. Len(chain) = 0
      BY <2>1, <3>1, ChainEntries
    <3>5. Len(chain') = 1
      BY <3>1, <3>4 DEF TypeOK
    <3> QED
      BY <3>3, <3>5 DEF VectorTableNeverGrows
  <2>5. CASE SweepTable
    <3>1. PICK t \in Tables : t = chain[sweepAt]
      BY <2>5, ChainEntries DEF SweepTable
    <3>2. Cardinality(Garbage(t)) \in Nat
      BY SlotsFinite DEF Garbage
    <3>3. freeSpace' = [freeSpace EXCEPT ![t] = @ + Cardinality(Garbage(t))]
      BY <2>5, <3>1 DEF SweepTable
    <3>4. \A u \in Tables : freeSpace'[u] >= SlotsPerTable
      BY <2>1, <3>2, <3>3, ManagedTableAssumption DEF TypeOK
    <3> QED
      BY <2>5, <3>4 DEF SweepTable, VectorTableNeverGrows
  <2>6. CASE UNCHANGED <<chain, freeSpace>>
    BY <2>6 DEF VectorTableNeverGrows
  <2> QED
    BY <2>3, <2>4, <2>5, <2>6 DEF Next, vars, StartCollection, Mark
<1>3. VInv => VectorTableNeverGrows
  OBVIOUS
<1> QED
  BY <1>1, <1>2, <1>3, PTL DEF Spec
=============================================================================
