----------------------- MODULE MCAuthenticationSession -----------------------
(* Small instances of AuthenticationSession for TLC.                       *)
EXTENDS AuthenticationSession, TLC

Alike == Permutations(Requests)

=============================================================================
