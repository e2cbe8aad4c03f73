----------------------------- MODULE MCSigningKeys -----------------------------
(* Instances of SigningKeys small enough for TLC.                          *)
EXTENDS SigningKeys, TLC

Alike == Permutations(Servers) \cup Permutations(Requests)
=============================================================================
