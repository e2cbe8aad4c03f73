--------------------------- MODULE MCTenantRelations ---------------------------
(* Instances of TenantRelations small enough for TLC.                      *)
EXTENDS TenantRelations, TLC

RequestSymmetry == Permutations(Requests)
=============================================================================
