-------------------------- MODULE MCStreamUpdates --------------------------
(***************************************************************************)
(* StreamUpdates on small sets for TLC.  The streams, and the machines, do *)
(* the same, so they can be permuted where no liveness is checked.         *)
(***************************************************************************)
EXTENDS StreamUpdates, TLC

Symmetry == Permutations(Streams) \cup Permutations(Machines)

=============================================================================
