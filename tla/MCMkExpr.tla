------------------------------ MODULE MCMkExpr ------------------------------
(* Three operators of three priorities, as in mk.h.                        *)
EXTENDS MkExpr

MCRank == [o \in Operators |-> CASE o = "==" -> 5 [] o = "=" -> 8 [] OTHER -> 13]
=============================================================================
