--------------------------- MODULE MCRunLifecycle ---------------------------
(* Small instances of RunLifecycle for TLC. *)
EXTENDS RunLifecycle, TLC

(* Operation ids are interchangeable labels. *)
OperationSymmetry == Permutations(OperationId)
=============================================================================
