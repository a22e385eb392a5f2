--------------------------- MODULE MCTunnelFraming ---------------------------
(* Small instances of TunnelFraming: messages with and without payload, whose *)
(* payload bytes look like the fields of a header when read out of place.     *)
EXTENDS TunnelFraming

MCMessages ==
  {[conn_id |-> 0, type |-> UDP_PACKET, payload |-> <<2>>],
   [conn_id |-> 1, type |-> TCP_OPEN,   payload |-> <<>>],
   [conn_id |-> 258, type |-> TCP_DATA, payload |-> <<0, 3, 1>>]}

=============================================================================
