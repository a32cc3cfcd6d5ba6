---------------------------- MODULE MCEnrollment ----------------------------
(***************************************************************************)
(* Enrollment on small sets for TLC.  Starts, and hosts, do the same.      *)
(***************************************************************************)
EXTENDS Enrollment, TLC

Symmetry == Permutations(Starts) \cup Permutations(Hosts)

=============================================================================
