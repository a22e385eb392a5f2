--------------------------- MODULE MessageChannel ---------------------------
(***************************************************************************)
(* What one direction of the tunnel promises its users: the messages the   *)
(* sender hands to sendTunnelMessage are handled by the other side whole,  *)
(* in order and at most once, and losing the tunnel connection loses a     *)
(* suffix of them. The promise ends (torn) when a connection is lost in    *)
(* the middle of a message: the reconstructor keeps the partial message    *)
(* and reads the next connection's bytes as its continuation.              *)
(***************************************************************************)
EXTENDS Naturals, Sequences

CONSTANT Messages

VARIABLES
  sent,     \* the messages sent on the current tunnel connection
  handled,  \* the messages handled on the current tunnel connection
  torn      \* a connection was lost inside a message

vars == <<sent, handled, torn>>

Init == sent = <<>> /\ handled = <<>> /\ torn = FALSE

Send(m) == sent' = Append(sent, m) /\ UNCHANGED <<handled, torn>>

Deliver ==
  /\ Len(handled) < Len(sent)
  /\ handled' = Append(handled, sent[Len(handled) + 1])
  /\ UNCHANGED <<sent, torn>>

\* A new connection: what was under way is lost.
Break == sent' = <<>> /\ handled' = <<>> /\ (torn => torn')

\* Once torn, nothing is promised.
Garbled == torn /\ torn'

Next == (\E m \in Messages : Send(m)) \/ Deliver \/ Break \/ Garbled

Spec == Init /\ [][Next]_vars

=============================================================================
