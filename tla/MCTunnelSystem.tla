--------------------------- MODULE MCTunnelSystem ---------------------------
(* Instances of TunnelSystem for TLC. *)
EXTENDS TunnelSystem, TLC

\* No action tells the sessions apart.
Symmetry == Permutations(Sessions)

=============================================================================
