------------------------- MODULE MCRepairPublication -------------------------
(* Small instance of RepairPublication for TLC. *)
EXTENDS RepairPublication, TLC

PublisherSymmetry == Permutations(Publisher)

TheProposal == <<"SC01", 1>>
=============================================================================
