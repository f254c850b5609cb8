----------------------------- MODULE MCMkClasses -----------------------------
(* Three internal classes, one of them a class of values, and a script     *)
(* with two names for classes and two for members.                         *)
EXTENDS MkClasses

MCInternals == <<[name |-> "Object", super |-> None], [name |-> "Kernel", super |-> "Object"],
                 [name |-> "Integer", super |-> "Object"]>>

MCDeclarations ==
  {[static |-> TRUE,  init |-> "A",      access |-> "public"],
   [static |-> TRUE,  init |-> "none",   access |-> "public"],
   [static |-> FALSE, init |-> "value",  access |-> "private"],
   [static |-> FALSE, init |-> "method", access |-> "protected"]}
==============================================================================
