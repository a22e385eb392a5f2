---------------------------- MODULE RelayService ----------------------------
(***************************************************************************)
(* What the two programs together promise the peers of a TCP connection:   *)
(* a session joins an outside peer with a connection to the destination,   *)
(* and each side receives what the other sends, in order, never twice and  *)
(* never from another session. Items may be missing, unless Lossless. The  *)
(* promise ends (misread) when a part of a message of a lost tunnel is     *)
(* joined to the bytes of the next: it too is kept unless Lossless.        *)
(***************************************************************************)
EXTENDS Naturals, Sequences

CONSTANTS
  Sessions,  \* outside connections
  Lossless   \* nothing is missing between two items that arrive

VARIABLES
  peer,      \* what the peer of each side did, for each session
  sent,      \* items it has sent
  got,       \* items it has received, with the session they come from
  misread    \* the promise has ended

vars == <<peer, sent, got, misread>>

Sides == {"outside", "dest"}
Other(side) == CHOOSE o \in Sides : o # side
EndStates == {"fin", "rst", "half"}
Reads(p) == p \in {"up", "half"}

Init ==
  /\ peer = [side \in Sides |-> [s \in Sessions |-> "idle"]]
  /\ sent = [side \in Sides |-> [s \in Sessions |-> 0]]
  /\ got = [side \in Sides |-> [s \in Sessions |-> <<>>]]
  /\ misread = FALSE

\* An outside peer connects; the destination is connected to once for each.
Connect(side, s) ==
  /\ peer[side][s] = "idle"
  /\ side = "dest" => peer["outside"][s] # "idle"
  /\ peer' = [peer EXCEPT ![side][s] = "up"]
  /\ UNCHANGED <<sent, got, misread>>

Send(side, s) ==
  /\ peer[side][s] = "up"
  /\ sent' = [sent EXCEPT ![side][s] = @ + 1]
  /\ UNCHANGED <<peer, got, misread>>

End(side, s) ==
  /\ Reads(peer[side][s])
  /\ \E how \in EndStates : peer' = [peer EXCEPT ![side][s] = how]
  /\ UNCHANGED <<sent, got, misread>>

LastOf(q) == IF q = <<>> THEN 0 ELSE q[Len(q)][2]

Deliver(side, s) ==
  /\ Reads(peer[side][s])
  /\ \E n \in LastOf(got[side][s]) + 1 .. sent[Other(side)][s] :
       /\ Lossless => n = LastOf(got[side][s]) + 1
       /\ got' = [got EXCEPT ![side][s] = Append(@, <<s, n>>)]
  /\ UNCHANGED <<peer, sent, misread>>

\* A message that was lost in part with one tunnel is read on from the next. From then
\* on nothing is promised.
Misread == ~Lossless /\ misread' /\ UNCHANGED <<peer, sent, got>>
Garbled == misread /\ misread'

Next ==
  \/ Misread \/ Garbled
  \/ \E side \in Sides, s \in Sessions :
       Connect(side, s) \/ Send(side, s) \/ End(side, s) \/ Deliver(side, s)

Spec == Init /\ [][Next]_vars

=============================================================================
