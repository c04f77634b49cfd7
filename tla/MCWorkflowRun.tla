--------------------------- MODULE MCWorkflowRun ---------------------------
(***************************************************************************)
(* Small instances of WorkflowRun for TLC.                                 *)
(***************************************************************************)
EXTENDS WorkflowRun, TLC

Steps == << "work", "approval", "work" >>

Symmetry == Permutations(Fiber) \cup Permutations(RunId)
=============================================================================
