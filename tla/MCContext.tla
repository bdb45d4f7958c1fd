------------------------------ MODULE MCContext ------------------------------
(* Context on a small instance. *)
EXTENDS Context, TLC

Symmetry == Permutations(Proc)

=============================================================================
