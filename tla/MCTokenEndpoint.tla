---------------------------- MODULE MCTokenEndpoint ----------------------------
(* Small instances of TokenEndpoint for TLC.                               *)
EXTENDS TokenEndpoint, TLC

Alike == Permutations(Requests) \cup Permutations(Tokens)

=============================================================================
