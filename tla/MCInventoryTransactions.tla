----------------------- MODULE MCInventoryTransactions -----------------------
(* The models of InventoryTransactions: Units and requests are interchangeable. *)
EXTENDS InventoryTransactions, TLC

UnitAndRequestSymmetry == Permutations(Units) \union Permutations(Requests)
==============================================================================
