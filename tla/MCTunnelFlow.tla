---------------------------- MODULE MCTunnelFlow ----------------------------
(* Instances of TunnelFlow for TLC. *)
EXTENDS TunnelFlow

CONSTANT Wide

\* One connection carries three items to its outside peer, whose socket holds no
\* more than one and a half. The outside peers send an item each.
MCItems ==
  [side \in Sides |-> [c \in Conns |-> IF side = "server" THEN 1
                                       ELSE IF c = Wide THEN 3 ELSE 0]]

=============================================================================
