-------------------------- MODULE MCDurableInvoke --------------------------
(***************************************************************************)
(* Small instances of DurableInvoke for TLC.                               *)
(***************************************************************************)
EXTENDS DurableInvoke, TLC

Iterations == [a \in Agent |-> 2]

Symmetry == Permutations(Proc) \cup Permutations(Fiber) \cup Permutations(Id)
=============================================================================
