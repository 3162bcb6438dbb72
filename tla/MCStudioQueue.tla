--------------------------- MODULE MCStudioQueue ---------------------------
(* Instances of StudioQueue for TLC. *)
EXTENDS StudioQueue, TLC

\* Gateways and jobs are interchangeable.
Symmetry == Permutations(Gateways) \union Permutations(Jobs)
=============================================================================
