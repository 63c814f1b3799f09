-------------------------- MODULE MCRentalInventory --------------------------
(* The model of RentalInventory: three Units, which are interchangeable. *)
EXTENDS RentalInventory, TLC

UnitSymmetry == Permutations(Units)
==============================================================================
