---------------------------- MODULE MCMkModules ----------------------------
(* Two names for members and two for imports, "super" and "owner" between *)
(* them.  Both modules that can be made have the second name.             *)
EXTENDS MkModules, TLC

Public(i)  == [init |-> i, read |-> "public"]
Private(i) == [init |-> i, read |-> "private"]

MCDeclarations == {Public("method"), Public("raises"), Private("value"), Private("none"),
                   [init |-> "value", read |-> "protected"]}

MCModules ==
  "Counter" :> (1 :> Public("method") @@ 4 :> Private("value"))
    @@ "Name" :> (4 :> Private("none"))
    @@ "Broken" :> (1 :> Public("raises"))

MCLeft == {[final |-> TRUE, read |-> "public"], [final |-> FALSE, read |-> "private"]}
=============================================================================
