------------------------------ MODULE MCStack ------------------------------
(***************************************************************************)
(* Stack with few agents for TLC.  Agents do the same.                     *)
(***************************************************************************)
EXTENDS Stack, TLC

Symmetry == Permutations(Agents)

=============================================================================
