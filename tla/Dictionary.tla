----------------------------- MODULE Dictionary -----------------------------
(***************************************************************************)
(* What a table of variables promises: each name has at most one value,    *)
(* the last one stored under it.  A caller asks, and is answered later.    *)
(***************************************************************************)
CONSTANTS Keys, Values, Absent,
          Requests,   \* records with an op, a key and a value
          Writes,     \* the ops that store the value; the others look it up
          None

VARIABLES map, request, answer
vars == <<map, request, answer>>

Ask ==
  /\ request = None
  /\ request' \in Requests
  /\ UNCHANGED <<map, answer>>

Store ==
  /\ request # None /\ request.op \in Writes
  /\ map' = [map EXCEPT ![request.key] = request.value]
  /\ request' = None
  /\ UNCHANGED answer

LookUp ==
  /\ request # None /\ request.op \notin Writes
  /\ answer' = map[request.key]
  /\ request' = None
  /\ UNCHANGED map

Clear ==
  /\ map' = [k \in Keys |-> Absent]
  /\ UNCHANGED <<request, answer>>

Init == map = [k \in Keys |-> Absent] /\ request = None /\ answer = Absent

Next == Ask \/ Store \/ LookUp \/ Clear

Spec == Init /\ [][Next]_vars
=============================================================================
