---------------------------- MODULE ManagedTable ----------------------------
(***************************************************************************)
(* The interpreter takes every frame item, hash table, vector and frame    *)
(* from a chain of fixed-size tables.  A table has a slot per object, a    *)
(* count of free slots and the index at which the next search starts.  The *)
(* chain grows at its head; it never shrinks.  mk_gc.c marks slots and     *)
(* sweeps the chain table by table; nothing is allocated meanwhile.        *)
(*                                                                         *)
(* The four allocators are the same walk with differences that matter:     *)
(*   item, hash  move the table they use to the head of the chain;         *)
(*   frame       leaves the chain alone and restarts at the slot it gave;  *)
(*   vector      neither counts a slot as taken nor moves its start.       *)
(***************************************************************************)
EXTENDS Integers, Sequences, FiniteSets

CONSTANTS Kind,           \* which of the four allocators
          SlotsPerTable,  \* MK_SIZEOF_MANAGED_TABLE (512 in mk_config.h)
          MaxTables,      \* bound: tables the chain may come to have
          MaxFreeSpace,   \* bound: no collection starts above this count
          Holders,        \* what a caller stores in the slot it is given
          Nil             \* what a zeroed slot holds

ASSUME ManagedTableAssumption ==
  /\ Kind \in {"item", "hash", "frame", "vector"}
  /\ SlotsPerTable \in Nat \ {0}
  /\ MaxTables \in Nat \ {0}
  /\ MaxFreeSpace \in Nat /\ MaxFreeSpace >= SlotsPerTable
  /\ Nil \notin Holders

Tables == 1 .. MaxTables          \* numbered in the order they are created
Slots  == 0 .. SlotsPerTable - 1
Bits   == {"USE", "GC", "CN"}     \* MK_GC_OBJECT_USE, _GC_BIT, _CREATE_NEW_BIT

VARIABLES chain,      \* the tables linked by "previous", head first
          flags,      \* the bits of each slot
          holder,     \* what was last stored in each slot
          freeSpace,  \* per table
          nextIndex,  \* per table
          sweepAt     \* 0: the program runs; else mk_gc_run is at work, the
                      \* tables before this place of the chain are swept
vars == <<chain, flags, holder, freeSpace, nextIndex, sweepAt>>

TypeOK ==
  /\ chain \in Seq(Tables)
  /\ Len(chain) <= MaxTables
  /\ flags \in [Tables -> [Slots -> SUBSET Bits]]
  /\ holder \in [Tables -> [Slots -> Holders \cup {Nil}]]
  /\ freeSpace \in [Tables -> Nat]
  /\ nextIndex \in [Tables -> 0 .. SlotsPerTable]
  /\ sweepAt \in 0 .. MaxTables

-----------------------------------------------------------------------------
InUse(t, s) == "USE" \in flags[t][s]

FreeSlots(t) == {s \in Slots : ~InUse(t, s)}

HasMoreThanOne(t) == freeSpace[t] > 1

HasSpace(t) == freeSpace[t] > 0

StopsAtNextIndex(t, s) == s = nextIndex[t] % SlotsPerTable

(* The slot the search of a table stops at: the first free one from        *)
(* nextIndex on, else the first free one before it, else nextIndex itself. *)
StopsAt(t, s) ==
  LET from == nextIndex[t] IN
  \/ /\ s \in FreeSlots(t)
     /\ IF s >= from THEN \A r \in FreeSlots(t) : r < from \/ r >= s
                     ELSE \A r \in FreeSlots(t) : r < from /\ r >= s
  \/ /\ FreeSlots(t) = {}
     /\ s = from

MoveWithoutUnlinking(k) == [i \in 1 .. Len(chain) |-> IF i = 1 THEN chain[k] ELSE chain[i]]

(* mk_create_vm_frame_item_object and mk_allocate_vm_managed_hashtable     *)
(* unlink the table they found and put it in front.                        *)
MoveToFront(k) ==
  [i \in 1 .. Len(chain) |-> IF i = 1 THEN chain[k]
                             ELSE IF i <= k THEN chain[i - 1]
                             ELSE chain[i]]

ChainAfterUse(k) == IF Kind \in {"item", "hash"} THEN MoveToFront(k) ELSE chain

FreeSpaceNotCounted(t) == freeSpace[t]
FreeSpaceCountedAlways(t) == freeSpace[t] - 1

FreeSpaceAfterUse(t) == IF Kind = "vector" THEN freeSpace[t] ELSE freeSpace[t] - 1

NextIndexPastNext(t, s) == s + 2

NextIndexAfterUse(t, s) ==
  CASE Kind = "vector" -> nextIndex[t]
    [] Kind = "frame"  -> s
    [] OTHER           -> s + 1

HandOut(t, h) ==
  \E s \in Slots :
    /\ StopsAt(t, s)
    /\ flags' = [flags EXCEPT ![t][s] = {"USE", "CN"}]
    /\ holder' = [holder EXCEPT ![t][s] = h]
    /\ freeSpace' = [freeSpace EXCEPT ![t] = FreeSpaceAfterUse(t)]
    /\ nextIndex' = [nextIndex EXCEPT ![t] = NextIndexAfterUse(t, s)]

(* The first table of the chain that counts a free slot serves the caller. *)
AllocFromChain(h) ==
  /\ sweepAt = 0
  /\ \E k \in 1 .. Len(chain) :
       /\ HasSpace(chain[k])
       /\ \A i \in 1 .. k - 1 : ~HasSpace(chain[i])
       /\ chain' = ChainAfterUse(k)
       /\ HandOut(chain[k], h)
  /\ UNCHANGED sweepAt

(* No table counts one: a new table becomes the head.                      *)
AllocFromNewTable(h) ==
  /\ sweepAt = 0
  /\ \A i \in 1 .. Len(chain) : ~HasSpace(chain[i])
  /\ Len(chain) < MaxTables       \* bound
  /\ chain' = <<Len(chain) + 1>> \o chain
  /\ HandOut(Len(chain) + 1, h)
  /\ UNCHANGED sweepAt

StartCollection ==
  /\ sweepAt = 0
  /\ chain # <<>>
  /\ \A t \in Tables : freeSpace[t] <= MaxFreeSpace       \* bound
  /\ sweepAt' = 1
  /\ UNCHANGED <<chain, flags, holder, freeSpace, nextIndex>>

(* The scan reaches a slot.  It does not look at the USE bit: a pointer    *)
(* left over from before a sweep makes it mark a free slot.                *)
Mark(t, s) ==
  /\ sweepAt = 1
  /\ \E i \in 1 .. Len(chain) : chain[i] = t
  /\ "GC" \notin flags[t][s]
  /\ flags' = [flags EXCEPT ![t][s] = @ \cup {"GC"}]
  /\ UNCHANGED <<chain, holder, freeSpace, nextIndex, sweepAt>>

GarbageAndNew(t) == {s \in Slots : InUse(t, s) /\ "GC" \notin flags[t][s]}

Garbage(t) == {s \in Slots : InUse(t, s) /\ flags[t][s] \cap {"GC", "CN"} = {}}

(* The hash table sweep drops the USE bit, the others clear the flags: the *)
(* same set, for a slot with neither of the other two bits.  Hash tables   *)
(* and vectors are emptied as they are freed; the fields of items and      *)
(* frames stay what they were.                                             *)
Emptied(t, s) == s \in Garbage(t) /\ Kind \in {"hash", "vector"}

SweepTable ==
  /\ sweepAt \in 1 .. Len(chain)
  /\ LET t == chain[sweepAt] IN
       /\ flags' = [flags EXCEPT ![t] =
            [s \in Slots |-> IF s \in Garbage(t) THEN {}
                             ELSE IF InUse(t, s) THEN {"USE"}
                             ELSE flags[t][s]]]
       /\ holder' = [holder EXCEPT ![t] =
            [s \in Slots |-> IF Emptied(t, s) THEN Nil ELSE holder[t][s]]]
       /\ freeSpace' = [freeSpace EXCEPT ![t] = @ + Cardinality(Garbage(t))]
  /\ sweepAt' = IF sweepAt = Len(chain) THEN 0 ELSE sweepAt + 1
  /\ UNCHANGED <<chain, nextIndex>>

Init ==
  /\ chain = <<>>
  /\ flags = [t \in Tables |-> [s \in Slots |-> {}]]
  /\ holder = [t \in Tables |-> [s \in Slots |-> Nil]]
  /\ freeSpace = [t \in Tables |-> SlotsPerTable]
  /\ nextIndex = [t \in Tables |-> 0]
  /\ sweepAt = 0

Next ==
  \/ \E h \in Holders : AllocFromChain(h) \/ AllocFromNewTable(h)
  \/ StartCollection
  \/ \E t \in Tables, s \in Slots : Mark(t, s)
  \/ SweepTable

Spec == Init /\ [][Next]_vars

-----------------------------------------------------------------------------
(***************************************************************************)
(* What the tables must keep.                                              *)
(***************************************************************************)
(* Reordering the chain loses no table and links none twice: every table   *)
(* ever created is still reached through "previous".                       *)
ChainIntact ==
  /\ \A i \in 1 .. Len(chain) : chain[i] <= Len(chain)
  /\ \A i, j \in 1 .. Len(chain) : chain[i] = chain[j] => i = j
  /\ \A t \in 1 .. Len(chain) : \E i \in 1 .. Len(chain) : chain[i] = t

(* The allocators trust freeSpace instead of looking at the slots.  Through *)
(* any mix of allocations and collections it is the number of free slots.  *)
(* (mk_allocate_vm_managed_vector does not keep this.)                     *)
FreeSpaceExact == \A t \in Tables : freeSpace[t] = Cardinality(FreeSlots(t))

(* Memory grows only when it must: a table is added to the chain only when *)
(* no table of it has a slot left.                                         *)
GrowsOnlyWhenFull ==
  [][Len(chain') > Len(chain) =>
       \A i \in 1 .. Len(chain) : FreeSlots(chain[i]) = {}]_vars

(* An object that stays allocated keeps what its holder put in it: nobody  *)
(* is handed a slot somebody else still has.                               *)
Overwrites(t, s) == InUse(t, s) /\ InUse(t, s)' /\ holder'[t][s] # holder[t][s]

NeverShared == [][\A t \in Tables, s \in Slots : ~Overwrites(t, s)]_vars

(* The chain of tables and its search are an implementation of SlotPool.   *)
Objects == Tables \X Slots
Live    == {o \in Objects : InUse(o[1], o[2])}
Pinned  == {o \in Live : flags[o[1]][o[2]] # {"USE"}}
Content == [o \in Objects |-> holder[o[1]][o[2]]]

Pool == INSTANCE SlotPool WITH
  Slots <- Objects, Contents <- Holders \cup {Nil},
  live  <- Live, pinned <- Pinned, content <- Content

ImplementsPool == Pool!Spec

(***************************************************************************)
(* Vectors: the count of free slots never goes down, so a second table is  *)
(* never made and, once all slots are taken, a slot in use is handed out   *)
(* again.  That is the only time it happens.                               *)
(***************************************************************************)
(* There is one vector table however many vectors are alive, and it always *)
(* claims to have room.                                                    *)
VectorTableNeverGrows ==
  /\ Len(chain) <= 1
  /\ \A t \in Tables : freeSpace[t] >= SlotsPerTable

(* A vector somebody still has is overwritten only when the table is full. *)
SharedOnlyWhenFull ==
  [][\A t \in Tables, s \in Slots : Overwrites(t, s) => FreeSlots(t) = {}]_vars
=============================================================================
