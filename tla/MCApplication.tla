---------------------------- MODULE MCApplication ----------------------------
(***************************************************************************)
(* Application on small sets for TLC.  The calls, and the requests, do the *)
(* same, so they can be permuted where no liveness is checked.             *)
(***************************************************************************)
EXTENDS Application, TLC

Symmetry == Permutations(Calls) \cup Permutations(Requests)

=============================================================================
