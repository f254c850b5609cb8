------------------------------ MODULE SlotPool ------------------------------
(***************************************************************************)
(* What a managed table of the interpreter promises, whatever chain of     *)
(* tables it keeps: a slot is handed out to one holder at a time, what the *)
(* holder put there stays until the slot is reclaimed, and a reclaim takes *)
(* exactly the slots that nothing pins: not the ones the collector marked, *)
(* and not the ones handed out since the last collection.                  *)
(***************************************************************************)
CONSTANTS Slots,    \* the places objects can be put in
          Contents  \* what a holder can put in one

VARIABLES live,     \* the slots handed out and not reclaimed
          pinned,   \* those of them the next reclaim must spare
          content   \* what is in each slot

vars == <<live, pinned, content>>

TypeOK == /\ live \in SUBSET Slots
          /\ pinned \in SUBSET live
          /\ content \in [Slots -> Contents]

Init == /\ live = {}
        /\ pinned = {}
        /\ content \in [Slots -> Contents]

HandOut(o, c) == /\ o \in Slots \ live
                 /\ live' = live \cup {o}
                 /\ pinned' = pinned \cup {o}
                 /\ content' = [content EXCEPT ![o] = c]

Pin(o) == /\ o \in live
          /\ pinned' = pinned \cup {o}
          /\ UNCHANGED <<live, content>>

\* Reclaiming goes region by region (the code: table by table).
Reclaim(region) == /\ live' = live \ (region \ pinned)
                   /\ pinned' = pinned \ region
                   /\ content' \in [Slots -> Contents]
                   /\ \A o \in live' : content'[o] = content[o]

Next == \/ \E o \in Slots : Pin(o) \/ \E c \in Contents : HandOut(o, c)
        \/ \E region \in SUBSET Slots : Reclaim(region)

Spec == Init /\ [][Next]_vars
=============================================================================
