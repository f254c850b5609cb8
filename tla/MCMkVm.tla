------------------------------- MODULE MCMkVm -------------------------------
(* The evaluator with one object to raise, and few nested calls; and, side *)
(* by side with it, the evaluator of a script that leaves operands on the  *)
(* local stack (a condition that fails, the elements of an array).  A      *)
(* behaviour is that of one of them.                                       *)
EXTENDS MkVm

CONSTANTS e1, err, nil,
          LeavesFeatures, LeavesHeight   \* what the other script makes use of, its bound

VARIABLES lctrl, lcode, lheight, lexception,
          script   \* whose steps are taken
leaves == <<lctrl, lcode, lheight, lexception>>

L == INSTANCE MkVm WITH
       Features <- LeavesFeatures, MaxHeight <- LeavesHeight,
       ctrl <- lctrl, code <- lcode, height <- lheight, exception <- lexception

MCInit == Init /\ L!Init /\ script \in {"plain", "leaves"}

MCNext ==
  \/ script = "plain" /\ Next /\ UNCHANGED <<leaves, script>>
  \/ script = "leaves" /\ L!Next /\ UNCHANGED <<vars, script>>

MCSpec == MCInit /\ [][MCNext]_<<vars, leaves, script>>

(* Whatever is left on the stack, the evaluator never takes off it what a  *)
(* caller put there (the pops of vm.c).                                    *)
NoUnderflowWithLeftovers == L!NoUnderflow
=============================================================================
