---------------------------- MODULE MCDeletionJobs ----------------------------
(* Small instances of DeletionJobs for TLC.                                *)
EXTENDS DeletionJobs, TLC

Alike == Permutations(Workers)

=============================================================================
