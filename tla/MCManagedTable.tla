--------------------------- MODULE MCManagedTable ---------------------------
(* A small chain of small tables of items and one of vectors, side by      *)
(* side; a behaviour uses one of them.                                     *)
EXTENDS ManagedTable, TLC

CONSTANTS h1, h2, nil,
          VectorSlots, VectorFreeSpace   \* what bounds the chain of vectors

HolderSymmetry == Permutations({h1, h2})

VARIABLES vchain, vflags, vholder, vfreeSpace, vnextIndex, vsweepAt,
          allocator   \* whose steps are taken
vectors == <<vchain, vflags, vholder, vfreeSpace, vnextIndex, vsweepAt>>

V == INSTANCE ManagedTable WITH
       Kind <- "vector", SlotsPerTable <- VectorSlots, MaxFreeSpace <- VectorFreeSpace,
       chain <- vchain, flags <- vflags, holder <- vholder,
       freeSpace <- vfreeSpace, nextIndex <- vnextIndex, sweepAt <- vsweepAt

MCInit == Init /\ V!Init /\ allocator \in {Kind, "vector"}

MCNext ==
  \/ allocator = Kind /\ Next /\ UNCHANGED <<vectors, allocator>>
  \/ allocator = "vector" /\ V!Next /\ UNCHANGED <<vars, allocator>>

MCSpec == MCInit /\ [][MCNext]_<<vars, vectors, allocator>>

(* Of vectors: one somebody still has is overwritten only when the table   *)
(* is full (vector.c:109).                                                 *)
VectorsSharedOnlyWhenFull == V!SharedOnlyWhenFull
=============================================================================
