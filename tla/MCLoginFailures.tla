---------------------------- MODULE MCLoginFailures ----------------------------
(* Instances of LoginFailures small enough for TLC.                        *)
EXTENDS LoginFailures, TLC

RequestSymmetry == Permutations(Requests)
=============================================================================
