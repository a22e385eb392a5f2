----------------------- MODULE MCTCPConnectionManager -----------------------
(* Small instances of TCPConnectionManager: more ids and accepts than         *)
(* descriptors, so that both are reused; symmetric in the descriptors.        *)
EXTENDS TCPConnectionManager, TLC

Symmetry == Permutations(Fds)

=============================================================================
