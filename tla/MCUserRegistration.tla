--------------------------- MODULE MCUserRegistration ---------------------------
(* Instances of UserRegistration small enough for TLC.                     *)
EXTENDS UserRegistration, TLC

CONSTANTS s1, s2

(* One person comes from an application, another from a device.            *)
KindsByTurns == (s1 :> {"application"}) @@ (s2 :> {"device"})

RequestSymmetry == Permutations(Requests)
=============================================================================
