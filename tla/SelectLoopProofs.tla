-------------------------- MODULE SelectLoopProofs --------------------------
(***************************************************************************)
(* For any number of descriptors: select is asked about exactly the open   *)
(* descriptors, each has one owner, and the thread never waits in a read   *)
(* or accept.                                                              *)
(***************************************************************************)
EXTENDS SelectLoop, TLAPS

\* The sections that belong to the program.
RoleSections ==
  /\ role = "client" => pc \notin {"accept_tunnel", "accept_outside"}
  /\ role = "server" => pc # "connect"

\* main has opened the first of its sockets, under the lowest numbers.
StartOpen ==
  pc = "start" =>
    /\ tunnel = 0 /\ table = {}
    /\ \E n \in 0 .. Len(Fixed) - 1 : Open = 1 .. n

\* What the program lists is what is open and no connection; there is no tunnel
\* while the client connects.
Listed ==
  /\ listed = {f \in FDs : owner[f] \notin {"free", "conn"}}
  /\ pc = "connect" => tunnel = 0

\* Connections do not block, nor does the client's UDP socket; the tunnel does.
Nonblocking ==
  /\ table \subseteq nonblocking
  /\ \A f \in nonblocking : owner[f] # "tunnel"
  /\ role = "client" => \A f \in FDs : owner[f] = "udp" => f \in nonblocking

\* The kernel discards datagrams only, and only connections are left to be read.
Kinded ==
  /\ \A f \in FDs : ready[f] = "bad" => owner[f] = "udp"
  /\ todo \subseteq table
  /\ pc # "conns" => todo = {}

\* Up to the section that may open a descriptor the bits are those of open ones.
FreshBits == pc \in {"stdin", "accept_tunnel"} => bits \subseteq Open

\* As long as a listener or the tunnel is still to be read, its bit is true.
BeforeTunnel ==
  IF role = "server"
  THEN {"stdin", "accept_tunnel", "accept_outside", "udp", "conns", "tunnel"}
  ELSE {"stdin", "tunnel"}
TrueBits ==
  \A f \in bits :
    /\ owner[f] = "tunnel_listener" /\ pc \in {"stdin", "accept_tunnel"} =>
         ready[f] \notin {"no", "bad"}
    /\ owner[f] = "outside_listener" /\ pc \in {"stdin", "accept_tunnel", "accept_outside"} =>
         ready[f] \notin {"no", "bad"}
    /\ owner[f] = "tunnel" /\ pc \in BeforeTunnel => ready[f] \notin {"no", "bad"}

\* The read that waits is the server's for a datagram.
Waiting ==
  blocked # 0 => pc = "udp" /\ role = "server" /\ owner[blocked] = "udp"

IInv ==
  /\ TypeOK /\ OwnedOnce /\ RoleSections /\ StartOpen /\ Listed /\ Nonblocking
  /\ Kinded /\ FreshBits /\ TrueBits /\ Waiting

-----------------------------------------------------------------------------
LEMMA AfterServer ==
  ASSUME role = "server"
  PROVE  /\ After["stdin"] = "accept_tunnel"
         /\ After["accept_tunnel"] = "accept_outside"
         /\ After["accept_outside"] = "udp"
         /\ After["udp"] = "conns"
         /\ After["conns"] = "tunnel"
         /\ After["tunnel"] = "end"
         /\ After["batch"] = "end"
BY SMT DEF After

LEMMA AfterClient ==
  ASSUME role = "client"
  PROVE  /\ After["stdin"] = "tunnel"
         /\ After["tunnel"] = "udp"
         /\ After["batch"] = "udp"
         /\ After["udp"] = "conns"
         /\ After["conns"] = "end"
BY SMT DEF After

LEMMA KindOfSection ==
  /\ KindOf["accept_tunnel"] = "tunnel_listener"
  /\ KindOf["accept_outside"] = "outside_listener"
  /\ KindOf["udp"] = "udp"
  /\ DOMAIN KindOf = {"accept_tunnel", "accept_outside", "udp"}
BY SMT DEF KindOf

LEMMA FreeFDs == Free \subseteq FDs /\ Free \cap Open = {} /\ 0 \notin FDs
BY LimitAssumption DEF Free, Open, FDs

LEMMA InitInv == Init => IInv
<1> SUFFICES ASSUME Init PROVE IInv
  OBVIOUS
<1>1. Open = {}
  BY DEF Init, Open
<1>2. Len(Fixed) \in {1, 3}
  BY DEF Init, Fixed
<1>3. TypeOK
  BY <1>1, FreeFDs DEF Init, TypeOK, Readiness
<1>4. StartOpen
  <2>1. 0 \in 0 .. Len(Fixed) - 1 /\ Open = 1 .. 0
    BY <1>1, <1>2
  <2> QED BY <2>1 DEF Init, StartOpen
<1>5. OwnedOnce /\ RoleSections /\ Listed /\ Nonblocking /\ Kinded /\ FreshBits
       /\ TrueBits /\ Waiting
  BY FreeFDs DEF Init, OwnedOnce, RoleSections, Listed, Nonblocking, Kinded, FreshBits,
         TrueBits, Waiting, Readiness
<1> QED BY <1>3, <1>4, <1>5 DEF IInv

LEMMA OpenFixedInv == IInv /\ OpenFixed => IInv'
<1> SUFFICES ASSUME IInv, OpenFixed PROVE IInv'
  OBVIOUS
<1>1. PICK f \in Free : /\ Lowest(f)
                        /\ Kernel({}, {}, {f}, Fixed[f])
                        /\ nonblocking' = IF role = "client" THEN {f} ELSE {}
                        /\ listed' = listed \cup {f}
                        /\ pc' = IF f < Len(Fixed) THEN "start"
                                 ELSE IF role = "server" THEN "select" ELSE "connect"
  BY DEF OpenFixed
<1>2. PICK n \in 0 .. Len(Fixed) - 1 : Open = 1 .. n
  BY DEF OpenFixed, IInv, StartOpen
<1>3. Len(Fixed) \in {1, 3} /\ (role = "client" => Len(Fixed) = 1)
  BY DEF Fixed
<1>4. f = n + 1
  BY <1>1, <1>2, <1>3, LimitAssumption DEF Lowest, Free
<1>5. f \in FDs /\ owner[f] = "free" /\ f # 0 /\ f \notin Open
  BY <1>1, FreeFDs DEF Open
<1>6. /\ owner' = [owner EXCEPT ![f] = Fixed[f]] /\ ready' = [ready EXCEPT ![f] = "no"]
  BY <1>1, <1>5 DEF Kernel, IInv, TypeOK
<1>7. Fixed[f] \in {"tunnel_listener", "udp", "outside_listener"}
  BY <1>2, <1>3, <1>4 DEF Fixed
<1>8. Open' = Open \cup {f}
  BY <1>5, <1>6, <1>7 DEF Open, IInv, TypeOK
<1>9. StartOpen'
  <2>1. SUFFICES ASSUME pc' = "start"
                 PROVE  n + 1 \in 0 .. Len(Fixed) - 1 /\ Open' = 1 .. n + 1
    BY DEF StartOpen, OpenFixed, IInv, Fixed
  <2> QED BY <1>1, <1>2, <1>3, <1>4, <1>8, <2>1
<1>10. role = "client" => Open = {}
  <2>1. SUFFICES ASSUME role = "client" PROVE Open = {}
    OBVIOUS
  <2>2. n \in 0 .. 0
    <3>1. Len(Fixed) = 1
      BY <1>3, <2>1
    <3> QED BY <3>1
  <2>3. \A g \in 1 .. n : FALSE
    BY <2>2
  <2> QED BY <1>2, <2>3, Zenon
<1> USE FreeFDs, <1>1, <1>5, <1>6, <1>7, <1>8 DEF OpenFixed, IInv
<1>11. TypeOK'
  BY DEF TypeOK, Sections, Kinds, Readiness
<1>12. OwnedOnce' /\ Listed'
  BY DEF TypeOK, OwnedOnce, Listed, StartOpen
<1>13. RoleSections' /\ FreshBits'
  BY DEF RoleSections, FreshBits
<1>14. Nonblocking' /\ Kinded'
  <2>1. role = "client" => \A g \in FDs : owner[g] # "udp"
    BY <1>10 DEF Open
  <2> QED BY <2>1 DEF Nonblocking, Kinded, TypeOK, StartOpen
<1>15. TrueBits' /\ Waiting'
  BY DEF TrueBits, Waiting, BeforeTunnel
<1> QED BY <1>9, <1>11, <1>12, <1>13, <1>14, <1>15

LEMMA ConnectInv == IInv /\ Connect => IInv'
<1> SUFFICES ASSUME IInv, Connect PROVE IInv'
  OBVIOUS
<1>1. PICK f \in Free : /\ Lowest(f)
                        /\ Kernel({}, {}, {f}, "tunnel")
                        /\ tunnel' = f
                        /\ listed' = listed \cup {f}
  BY DEF Connect
<1>2. f \in FDs /\ owner[f] = "free" /\ f # 0
  BY <1>1, FreeFDs DEF Open
<1>3. /\ owner' = [owner EXCEPT ![f] = "tunnel"] /\ ready' = [ready EXCEPT ![f] = "no"]
  BY <1>1, <1>2 DEF Kernel, IInv, TypeOK
<1> USE FreeFDs, <1>1, <1>2, <1>3 DEF Connect, IInv
<1>4. TypeOK'
  BY DEF TypeOK, Sections, Kinds, Readiness, Open, FDs
<1>5. OwnedOnce'
  BY DEF TypeOK, OwnedOnce, Listed
<1>6. Listed'
  BY DEF TypeOK, Listed
<1>7. RoleSections' /\ StartOpen' /\ FreshBits'
  BY DEF RoleSections, StartOpen, FreshBits
<1>8. Nonblocking' /\ Kinded'
  BY DEF Nonblocking, Kinded, TypeOK, OwnedOnce, Readiness
<1>9. TrueBits' /\ Waiting'
  BY DEF TrueBits, Waiting, BeforeTunnel
<1> QED BY <1>4, <1>5, <1>6, <1>7, <1>8, <1>9

LEMMA ExitInv ==
  ASSUME IInv, Exit, pc \in {"start", "connect", "end"} PROVE IInv'
<1>1. owner' = [g \in FDs |-> "free"] /\ ready' = [g \in FDs |-> "no"] /\ nonblocking' = {}
  BY DEF Exit, Close, Kernel, IInv, TypeOK, Open
<1> USE <1>1, FreeFDs DEF Exit, IInv
<1>2. TypeOK'
  BY DEF TypeOK, Kinds, Readiness, Open
<1>3. OwnedOnce' /\ Listed'
  BY DEF OwnedOnce, Listed
<1>4. RoleSections' /\ StartOpen' /\ FreshBits' /\ Nonblocking' /\ Kinded'
  BY DEF RoleSections, StartOpen, FreshBits, Nonblocking, Kinded
<1>5. TrueBits' /\ Waiting'
  BY DEF TrueBits, Waiting
<1> QED BY <1>2, <1>3, <1>4, <1>5

LEMMA EndIterationInv == IInv /\ EndIteration => IInv'
<1> SUFFICES ASSUME IInv, EndIteration PROVE IInv'
  OBVIOUS
<1>1. CASE leaving = "no"
  <2> USE <1>1 DEF EndIteration, IInv, kernelVars, ownVars
  <2>1. TypeOK'
    BY DEF TypeOK, Open, Sections
  <2>2. OwnedOnce' /\ Listed' /\ RoleSections' /\ StartOpen' /\ FreshBits'
    BY DEF OwnedOnce, Listed, RoleSections, StartOpen, FreshBits
  <2>3. Nonblocking' /\ Kinded' /\ TrueBits' /\ Waiting'
    BY DEF Nonblocking, Kinded, TrueBits, Waiting, BeforeTunnel
  <2> QED BY <2>1, <2>2, <2>3
<1>2. CASE leaving # "no" /\ (role = "server" \/ leaving = "quit")
  BY <1>2, ExitInv DEF EndIteration
<1>3. CASE leaving # "no" /\ ~(role = "server" \/ leaving = "quit")
  <2> USE <1>3, FreeFDs DEF EndIteration, IInv
  <2>1. owner' = [g \in FDs |-> IF g = tunnel THEN "free" ELSE owner[g]]
    BY DEF Close, Kernel
  <2>2. /\ ready' = [g \in FDs |-> IF g = tunnel THEN "no" ELSE ready[g]]
        /\ nonblocking' = nonblocking \ {tunnel}
    BY DEF Close, Kernel
  <2>3. TypeOK'
    BY <2>1, <2>2 DEF TypeOK, Open, Sections, Kinds, Readiness
  <2>4. OwnedOnce' /\ Listed'
    BY <2>1 DEF OwnedOnce, Listed, TypeOK
  <2>5. RoleSections' /\ StartOpen' /\ FreshBits'
    BY DEF RoleSections, StartOpen, FreshBits, TypeOK
  <2>6. Nonblocking' /\ Kinded'
    BY <2>1, <2>2 DEF Nonblocking, Kinded, OwnedOnce, TypeOK, Open
  <2>7. TrueBits' /\ Waiting'
    BY DEF TrueBits, Waiting, BeforeTunnel
  <2> QED BY <2>3, <2>4, <2>5, <2>6, <2>7
<1> QED BY <1>1, <1>2, <1>3

LEMMA SelectInv == IInv /\ Select => IInv'
<1> SUFFICES ASSUME IInv, Select PROVE IInv'
  OBVIOUS
<1> USE FreeFDs DEF Select, IInv, kernelVars, ownVars
<1>1. Asked = Open
  BY DEF Asked, Listed, OwnedOnce, Open
<1>2. TypeOK'
  BY <1>1 DEF TypeOK, Open, Sections, Kinded
<1>3. OwnedOnce' /\ Listed'
  BY DEF OwnedOnce, Listed
<1>5. RoleSections' /\ StartOpen'
  BY DEF RoleSections, StartOpen
<1>6. FreshBits'
  <2>1. Open' = Open
    BY DEF Open
  <2>2. bits' \subseteq Asked
    OBVIOUS
  <2> QED BY <1>1, <2>1, <2>2 DEF FreshBits
<1>4. Nonblocking' /\ Kinded' /\ Waiting'
  BY DEF Nonblocking, Kinded, Waiting
<1>7. TrueBits'
  <2>1. \A f \in bits' : f \in FDs /\ ready[f] # "no"
    BY <1>1 DEF Open
  <2> QED BY <2>1 DEF TrueBits, Kinded
<1> QED BY <1>2, <1>3, <1>4, <1>5, <1>6, <1>7

-----------------------------------------------------------------------------
Middle == {"stdin", "accept_tunnel", "accept_outside", "udp", "conns", "tunnel", "batch"}

LEMMA AdvanceTo ==
  ASSUME IInv, Advance, pc \in Middle
  PROVE  /\ role = "server" =>
              \/ pc = "stdin" /\ pc' = "accept_tunnel"
              \/ pc = "accept_tunnel" /\ pc' = "accept_outside"
              \/ pc = "accept_outside" /\ pc' = "udp"
              \/ pc = "udp" /\ pc' = "conns"
              \/ pc = "conns" /\ pc' = "tunnel"
              \/ pc \in {"tunnel", "batch"} /\ pc' = "end"
         /\ role = "client" =>
              \/ pc = "stdin" /\ pc' = "tunnel"
              \/ pc \in {"tunnel", "batch"} /\ pc' = "udp"
              \/ pc = "udp" /\ pc' = "conns"
              \/ pc = "conns" /\ pc' = "end"
         /\ bits' \subseteq bits \ Targets
<1>1. CASE role = "server"
  BY <1>1, AfterServer DEF IInv, RoleSections, Advance, Middle
<1>2. CASE role = "client"
  BY <1>2, AfterClient DEF IInv, RoleSections, Advance, Middle
<1> QED BY <1>1, <1>2 DEF IInv, TypeOK

\* What the next section may rely on, when this one left alone the listeners and
\* the tunnel that are still to be read.
LEMMA AdvanceInv ==
  ASSUME IInv, Advance, pc \in Middle, role' = role,
         table' \subseteq FDs, pc = "udp" => table' = table,
         pc = "stdin" => Open' = Open,
         \A f \in bits' :
           owner'[f] \in {"tunnel_listener", "outside_listener", "tunnel"} =>
             owner'[f] = owner[f] /\ ready'[f] = ready[f]
  PROVE  /\ pc' \in Sections /\ bits' \subseteq FDs /\ todo' \subseteq bits'
         /\ todo' \subseteq table' /\ (pc' # "conns" => todo' = {}) /\ pc' # "connect"
         /\ RoleSections' /\ StartOpen' /\ FreshBits' /\ TrueBits'
<1> USE AdvanceTo
<1>1. role \in {"server", "client"} /\ bits \subseteq FDs
  BY DEF IInv, TypeOK
<1>2. pc' \in Sections /\ pc' # "connect" /\ bits' \subseteq FDs
  BY <1>1 DEF Sections
<1>3. todo' \subseteq table' /\ (pc' # "conns" => todo' = {})
  BY DEF Advance
<1>4. todo' \subseteq bits'
  <2>1. CASE pc' = "conns"
    <3>1. pc = "udp" /\ bits' = bits \ Targets /\ todo' = table \cap bits
      BY <1>1, <2>1 DEF Advance
    <3>2. Targets = {f \in bits : owner[f] = "udp"}
      BY <3>1, KindOfSection DEF Targets
    <3>3. \A f \in table : owner[f] = "conn"
      BY DEF IInv, OwnedOnce
    <3> QED BY <3>1, <3>2, <3>3
  <2> QED BY <1>3, <2>1
<1>5. RoleSections' /\ StartOpen'
  BY <1>1 DEF RoleSections, StartOpen
<1>6. FreshBits'
  BY <1>1 DEF FreshBits, IInv
<1>7. TrueBits'
  <2>1. SUFFICES ASSUME NEW f \in bits'
        PROVE  /\ owner'[f] = "tunnel_listener" /\ pc' \in {"stdin", "accept_tunnel"} =>
                    ready'[f] \notin {"no", "bad"}
               /\ owner'[f] = "outside_listener"
                    /\ pc' \in {"stdin", "accept_tunnel", "accept_outside"} =>
                    ready'[f] \notin {"no", "bad"}
               /\ owner'[f] = "tunnel" /\ pc' \in BeforeTunnel' => ready'[f] \notin {"no", "bad"}
    BY DEF TrueBits
  <2>2. f \in bits
    OBVIOUS
  <2>3. pc' \in {"stdin", "accept_tunnel"} => pc \in {"stdin", "accept_tunnel"}
    BY <1>1
  <2>4. pc' \in {"stdin", "accept_tunnel", "accept_outside"}
          => pc \in {"stdin", "accept_tunnel", "accept_outside"}
    BY <1>1
  <2>5. pc' \in BeforeTunnel' => pc \in BeforeTunnel
    BY <1>1 DEF BeforeTunnel
  <2> QED BY <2>2, <2>3, <2>4, <2>5 DEF IInv, TrueBits
<1> QED BY <1>2, <1>3, <1>4, <1>5, <1>6, <1>7

\* A section that changes no descriptor.
LEMMA AdvanceIdle ==
  ASSUME IInv, Advance, pc \in Middle, UNCHANGED <<role, kernelVars, ownVars, blocked>>,
         blocked = 0, leaving' \in {"no", "lost", "quit"}
  PROVE  IInv'
<1> USE DEF IInv, kernelVars, ownVars
<1>1. Open' = Open
  BY DEF Open
<1>2. /\ pc' \in Sections /\ bits' \subseteq FDs /\ todo' \subseteq bits'
      /\ todo' \subseteq table' /\ (pc' # "conns" => todo' = {}) /\ pc' # "connect"
      /\ RoleSections' /\ StartOpen' /\ FreshBits' /\ TrueBits'
  BY <1>1, AdvanceInv DEF TypeOK
<1>3. TypeOK'
  BY <1>1, <1>2 DEF TypeOK
<1>4. OwnedOnce' /\ Listed'
  BY <1>2 DEF OwnedOnce, Listed
<1>5. Nonblocking' /\ Kinded' /\ Waiting'
  BY <1>2 DEF Nonblocking, Kinded, Waiting
<1> QED BY <1>2, <1>3, <1>4, <1>5

LEMMA SkipInv == IInv /\ Skip => IInv'
BY AdvanceIdle DEF Skip, Middle, IInv, TypeOK

LEMMA StdinInv == ASSUME NEW typed \in {"nothing", "q"} PROVE IInv /\ Stdin(typed) => IInv'
BY AdvanceIdle DEF Stdin, Middle, IInv, TypeOK, Waiting

LEMMA EndBatchInv == IInv /\ EndBatch => IInv'
BY AdvanceIdle DEF EndBatch, Middle, IInv, TypeOK, Waiting

-----------------------------------------------------------------------------
\* What closing descriptors does.
LEMMA CloseFacts ==
  ASSUME IInv, NEW read, NEW drop, Close(read, drop)
  PROVE  /\ owner' = [g \in FDs |-> IF g \in drop THEN "free" ELSE owner[g]]
         /\ ready' = [g \in FDs |-> IF g \in read \cup drop THEN "no" ELSE ready[g]]
         /\ nonblocking' = nonblocking \ drop /\ Open' = Open \ drop
         /\ owner' \in [FDs -> Kinds \cup {"free"}] /\ ready' \in [FDs -> Readiness]
         /\ nonblocking' \subseteq Open' /\ \A g \in FDs \ Open' : ready'[g] = "no"
         /\ \A g \in FDs : ready'[g] = "bad" => owner'[g] = "udp"
<1>1. /\ owner' = [g \in FDs |-> IF g \in drop THEN "free" ELSE owner[g]]
      /\ ready' = [g \in FDs |-> IF g \in read \cup drop THEN "no" ELSE ready[g]]
      /\ nonblocking' = nonblocking \ drop
  BY DEF Close, Kernel
<1>2. Open' = Open \ drop
  BY <1>1 DEF Open
<1>3. /\ owner' \in [FDs -> Kinds \cup {"free"}] /\ ready' \in [FDs -> Readiness]
      /\ nonblocking' \subseteq Open' /\ \A g \in FDs \ Open' : ready'[g] = "no"
  BY <1>1, <1>2 DEF IInv, TypeOK, Readiness
<1>4. \A g \in FDs : ready'[g] = "bad" => owner'[g] = "udp"
  BY <1>1 DEF IInv, Kinded
<1> QED BY <1>1, <1>2, <1>3, <1>4

\* What opening one does.
LEMMA OpenFacts ==
  ASSUME IInv, NEW read, NEW drop, NEW f \in Free, NEW kind \in Kinds,
         Kernel(read, drop, {f}, kind)
  PROVE  /\ owner' = [g \in FDs |-> IF g = f THEN kind
                                    ELSE IF g \in drop THEN "free" ELSE owner[g]]
         /\ ready' = [g \in FDs |-> IF g \in read \cup drop \cup {f} THEN "no" ELSE ready[g]]
         /\ Open' = (Open \ drop) \cup {f} /\ f \in FDs /\ f \notin Open /\ f # 0
         /\ owner' \in [FDs -> Kinds \cup {"free"}] /\ ready' \in [FDs -> Readiness]
         /\ \A g \in FDs \ Open' : ready'[g] = "no"
         /\ \A g \in FDs : ready'[g] = "bad" => owner'[g] = "udp"
<1>1. /\ owner' = [g \in FDs |-> IF g = f THEN kind
                                 ELSE IF g \in drop THEN "free" ELSE owner[g]]
      /\ ready' = [g \in FDs |-> IF g \in read \cup drop \cup {f} THEN "no" ELSE ready[g]]
  BY DEF Kernel
<1>2. f \in FDs /\ f \notin Open /\ f # 0
  BY FreeFDs
<1>3. Open' = (Open \ drop) \cup {f}
  BY <1>1, <1>2 DEF Open, Kinds
<1>4. owner' \in [FDs -> Kinds \cup {"free"}] /\ ready' \in [FDs -> Readiness]
  BY <1>1, <1>2 DEF IInv, TypeOK, Readiness
<1>5. \A g \in FDs \ Open' : ready'[g] = "no"
  BY <1>1, <1>2, <1>3 DEF IInv, TypeOK
<1>6. \A g \in FDs : ready'[g] = "bad" => owner'[g] = "udp"
  BY <1>1, <1>2 DEF IInv, Kinded
<1> QED BY <1>1, <1>2, <1>3, <1>4, <1>5, <1>6

\* A read that finds nothing is one of a connection or of the UDP socket.
LEMMA NothingThere ==
  ASSUME IInv, NEW f \in Targets, ready[f] \in {"no", "bad"}
  PROVE  \/ pc = "conns" /\ f \in table
         \/ pc = "udp" /\ owner[f] = "udp" /\ f \in FDs
<1>1. CASE pc = "conns"
  BY <1>1 DEF Targets, IInv, Kinded
<1>2. CASE pc = "tunnel"
  <2>1. f = tunnel /\ f \in bits /\ f \in FDs
    BY <1>2 DEF Targets, IInv, TypeOK
  <2>2. owner[f] = "tunnel"
    BY <2>1, FreeFDs DEF IInv, OwnedOnce
  <2>3. pc \in BeforeTunnel
    BY <1>2 DEF BeforeTunnel
  <2> QED BY <2>1, <2>2, <2>3 DEF IInv, TrueBits
<1>3. CASE pc \in {"accept_tunnel", "accept_outside"}
  <2>1. f \in bits /\ owner[f] = KindOf[pc]
    BY <1>3, KindOfSection DEF Targets
  <2> QED BY <1>3, <2>1, KindOfSection DEF IInv, TrueBits
<1>4. CASE pc = "udp"
  BY <1>4, KindOfSection DEF Targets, IInv, TypeOK
<1> QED BY <1>1, <1>2, <1>3, <1>4, KindOfSection DEF Targets

LEMMA ReadNothingInv == ASSUME NEW f \in FDs PROVE IInv /\ ReadNothing(f) => IInv'
<1> SUFFICES ASSUME IInv, ReadNothing(f) PROVE IInv'
  OBVIOUS
<1>1. /\ f \in Targets /\ ready[f] \in {"no", "bad"} /\ blocked = 0 /\ Close({f}, {})
      /\ UNCHANGED <<role, ownVars, leaving>>
  BY DEF ReadNothing
<1>2. \/ pc = "conns" /\ f \in table
      \/ pc = "udp" /\ owner[f] = "udp"
  BY <1>1, NothingThere
<1>3. /\ owner' = [g \in FDs |-> IF g \in {} THEN "free" ELSE owner[g]]
      /\ ready' = [g \in FDs |-> IF g \in {f} \cup {} THEN "no" ELSE ready[g]]
      /\ nonblocking' = nonblocking \ {} /\ Open' = Open \ {}
      /\ owner' \in [FDs -> Kinds \cup {"free"}] /\ ready' \in [FDs -> Readiness]
      /\ nonblocking' \subseteq Open' /\ \A g \in FDs \ Open' : ready'[g] = "no"
      /\ \A g \in FDs : ready'[g] = "bad" => owner'[g] = "udp"
  BY <1>1, CloseFacts
<1>4. owner' = owner /\ nonblocking' = nonblocking /\ Open' = Open
  BY <1>3 DEF IInv, TypeOK
<1>5. owner[f] \in {"conn", "udp"} /\ pc \in {"conns", "udp"}
  BY <1>2 DEF IInv, OwnedOnce
<1>6. CASE f \notin nonblocking \/ pc = "conns"
  <2>1. /\ UNCHANGED <<pc, bits>> /\ todo' \subseteq todo
        /\ blocked' # 0 => blocked' = f /\ pc = "udp" /\ role = "server"
    <3>1. f \notin nonblocking => pc = "udp" /\ role = "server" /\ UNCHANGED <<pc, bits, todo>>
                                    /\ blocked' = f
      BY <1>2 DEF ReadNothing, IInv, Nonblocking, TypeOK
    <3>2. f \in nonblocking => pc = "conns"
      BY <1>6
    <3>3. f \in nonblocking => UNCHANGED <<pc, bits, blocked>> /\ todo' = todo \ {f}
      BY <3>2 DEF ReadNothing
    <3> QED BY <1>1, <3>1, <3>2, <3>3
  <2>2. TypeOK'
    BY <1>1, <1>3, <2>1 DEF IInv, TypeOK, ownVars
  <2>3. OwnedOnce' /\ Listed' /\ RoleSections'
    BY <1>1, <1>4, <2>1 DEF IInv, OwnedOnce, Listed, RoleSections, ownVars
  <2>4. StartOpen' /\ FreshBits'
    BY <1>5, <2>1 DEF StartOpen, FreshBits
  <2>5. Nonblocking' /\ Kinded'
    BY <1>1, <1>3, <1>4, <2>1 DEF IInv, Nonblocking, Kinded, ownVars
  <2>6. TrueBits'
    BY <1>1, <1>3, <1>4, <1>5, <2>1 DEF IInv, TypeOK, TrueBits, BeforeTunnel
  <2>7. Waiting'
    BY <1>1, <1>2, <1>4, <2>1 DEF Waiting
  <2> QED BY <2>2, <2>3, <2>4, <2>5, <2>6, <2>7 DEF IInv
<1>7. CASE f \in nonblocking /\ pc = "udp"
  <2>1. Advance /\ blocked' = 0
    BY <1>1, <1>7 DEF ReadNothing
  <2>2. \A g \in bits' :
          owner'[g] \in {"tunnel_listener", "outside_listener", "tunnel"} =>
            owner'[g] = owner[g] /\ ready'[g] = ready[g]
    BY <1>3, <1>4, <1>5, <2>1, AdvanceTo, <1>7 DEF Middle, IInv, TypeOK
  <2>3. /\ pc' \in Sections /\ bits' \subseteq FDs /\ todo' \subseteq bits'
        /\ todo' \subseteq table' /\ (pc' # "conns" => todo' = {}) /\ pc' # "connect"
        /\ RoleSections' /\ StartOpen' /\ FreshBits' /\ TrueBits'
    BY <1>1, <1>4, <1>7, <2>1, <2>2, AdvanceInv DEF IInv, TypeOK, Middle, ownVars
  <2>4. TypeOK'
    BY <1>1, <1>3, <2>1, <2>3 DEF IInv, TypeOK, ownVars
  <2>5. OwnedOnce' /\ Listed'
    BY <1>1, <1>4, <2>3 DEF IInv, OwnedOnce, Listed, ownVars
  <2>6. Nonblocking' /\ Kinded' /\ Waiting'
    BY <1>1, <1>3, <1>4, <2>1, <2>3 DEF IInv, Nonblocking, Kinded, Waiting, ownVars
  <2> QED BY <2>3, <2>4, <2>5, <2>6 DEF IInv
<1> QED BY <1>5, <1>6, <1>7

LEMMA WakeInv == IInv /\ Wake => IInv'
<1> SUFFICES ASSUME IInv, Wake PROVE IInv'
  OBVIOUS
<1> USE DEF Wake, kernelVars, ownVars, IInv
<1>1. TypeOK'
  BY DEF TypeOK, Open
<1>2. OwnedOnce' /\ Listed' /\ RoleSections' /\ FreshBits' /\ StartOpen'
  BY DEF OwnedOnce, Listed, RoleSections, FreshBits, StartOpen, Open, Waiting
<1>3. Nonblocking' /\ Kinded' /\ TrueBits' /\ Waiting'
  BY DEF Nonblocking, Kinded, TrueBits, Waiting, BeforeTunnel
<1> QED BY <1>1, <1>2, <1>3

LEMMA ArriveInv ==
  ASSUME NEW f \in FDs, NEW what \in Readiness \ {"no"} PROVE IInv /\ Arrive(f, what) => IInv'
<1> SUFFICES ASSUME IInv, Arrive(f, what) PROVE IInv'
  OBVIOUS
<1> USE DEF Arrive, ownVars, IInv
<1>1. Open' = Open
  BY DEF Open
<1>2. TypeOK'
  BY <1>1 DEF TypeOK
<1>3. OwnedOnce' /\ Listed' /\ RoleSections'
  BY DEF OwnedOnce, Listed, RoleSections
<1>4. StartOpen' /\ FreshBits'
  BY <1>1 DEF StartOpen, FreshBits, Fixed
<1>5. Nonblocking' /\ Kinded' /\ Waiting'
  BY DEF Nonblocking, Kinded, Waiting, TypeOK
<1>6. TrueBits'
  BY DEF TrueBits, BeforeTunnel, TypeOK
<1> QED BY <1>2, <1>3, <1>4, <1>5, <1>6

LEMMA ReadTunnelInv == ASSUME NEW f \in FDs PROVE IInv /\ ReadTunnel(f) => IInv'
<1> SUFFICES ASSUME IInv, ReadTunnel(f) PROVE IInv'
  OBVIOUS
<1>1. Close({f}, {}) /\ pc = "tunnel" /\ pc' = "batch" /\ blocked = 0
  BY DEF ReadTunnel
<1>2. /\ owner' = [g \in FDs |-> IF g \in {} THEN "free" ELSE owner[g]]
      /\ ready' = [g \in FDs |-> IF g \in {f} \cup {} THEN "no" ELSE ready[g]]
      /\ nonblocking' = nonblocking \ {} /\ Open' = Open \ {}
      /\ owner' \in [FDs -> Kinds \cup {"free"}] /\ ready' \in [FDs -> Readiness]
      /\ nonblocking' \subseteq Open' /\ \A g \in FDs \ Open' : ready'[g] = "no"
      /\ \A g \in FDs : ready'[g] = "bad" => owner'[g] = "udp"
  BY <1>1, CloseFacts
<1>3. owner' = owner /\ nonblocking' = nonblocking /\ Open' = Open
  BY <1>2 DEF IInv, TypeOK
<1> USE <1>1, <1>3 DEF ReadTunnel, ownVars, IInv
<1>4. TypeOK'
  BY <1>2 DEF TypeOK, Sections
<1>5. OwnedOnce' /\ Listed' /\ RoleSections' /\ StartOpen' /\ FreshBits'
  BY DEF OwnedOnce, Listed, RoleSections, StartOpen, FreshBits
<1>6. Nonblocking' /\ Kinded'
  BY <1>2 DEF Nonblocking, Kinded
<1>7. TrueBits' /\ Waiting'
  BY DEF TrueBits, Waiting, BeforeTunnel
<1> QED BY <1>4, <1>5, <1>6, <1>7

LEMMA TunnelOwned ==
  ASSUME IInv
  PROVE  /\ tunnel \notin nonblocking
         /\ \A g \in FDs : owner[g] = "tunnel" <=> g = tunnel
<1>1. \A g \in FDs : owner[g] = "tunnel" <=> g = tunnel
  BY FreeFDs DEF IInv, TypeOK, OwnedOnce
<1>2. nonblocking \subseteq FDs
  BY DEF IInv, TypeOK, Open
<1> QED BY <1>1, <1>2 DEF IInv, Nonblocking

LEMMA AcceptTunnelInv ==
  ASSUME NEW l \in FDs, NEW f \in FDs PROVE IInv /\ AcceptTunnel(l, f) => IInv'
<1> SUFFICES ASSUME IInv, AcceptTunnel(l, f) PROVE IInv'
  OBVIOUS
<1>1. /\ pc = "accept_tunnel" /\ f \in Free /\ l \in Targets /\ blocked = 0
      /\ Kernel({l}, {tunnel}, {f}, "tunnel")
      /\ UNCHANGED <<nonblocking, role, table, leaving, blocked>>
      /\ tunnel' = f /\ listed' = (listed \ {tunnel}) \cup {f} /\ Advance
  BY DEF AcceptTunnel, Accepting, Lowest
<1>2. /\ owner' = [g \in FDs |-> IF g = f THEN "tunnel"
                                 ELSE IF g \in {tunnel} THEN "free" ELSE owner[g]]
      /\ ready' = [g \in FDs |-> IF g \in {l} \cup {tunnel} \cup {f} THEN "no" ELSE ready[g]]
      /\ Open' = (Open \ {tunnel}) \cup {f} /\ f \in FDs /\ f \notin Open /\ f # 0
      /\ owner' \in [FDs -> Kinds \cup {"free"}] /\ ready' \in [FDs -> Readiness]
      /\ \A g \in FDs \ Open' : ready'[g] = "no"
      /\ \A g \in FDs : ready'[g] = "bad" => owner'[g] = "udp"
  <2>1. "tunnel" \in Kinds
    BY DEF Kinds
  <2> QED BY <1>1, <2>1, OpenFacts
<1>3. bits' \subseteq bits \ {l} /\ f \notin bits
  BY <1>1, <1>2, AdvanceTo DEF Middle, IInv, FreshBits
<1>4. \A g \in bits' :
        owner'[g] \in {"tunnel_listener", "outside_listener", "tunnel"} =>
          owner'[g] = owner[g] /\ ready'[g] = ready[g]
  BY <1>2, <1>3 DEF IInv, TypeOK
<1>5. /\ pc' \in Sections /\ bits' \subseteq FDs /\ todo' \subseteq bits'
      /\ todo' \subseteq table' /\ (pc' # "conns" => todo' = {}) /\ pc' # "connect"
      /\ RoleSections' /\ StartOpen' /\ FreshBits' /\ TrueBits'
  BY <1>1, <1>4, AdvanceInv DEF IInv, TypeOK, Middle
<1>6. TypeOK'
  BY <1>1, <1>2, <1>5, TunnelOwned DEF IInv, TypeOK
<1>7. OwnedOnce'
  BY <1>1, <1>2, TunnelOwned DEF IInv, OwnedOnce, TypeOK, Open
<1>8. Listed'
  BY <1>1, <1>2, <1>5 DEF IInv, Listed, OwnedOnce, TypeOK
<1>9. Nonblocking'
  BY <1>1, <1>2, TunnelOwned DEF IInv, Nonblocking, OwnedOnce, TypeOK, Open
<1>10. Kinded' /\ Waiting'
  BY <1>1, <1>2, <1>5 DEF Kinded, Waiting
<1> QED BY <1>5, <1>6, <1>7, <1>8, <1>9, <1>10 DEF IInv

LEMMA AcceptOutsideInv ==
  ASSUME NEW l \in FDs, NEW f \in FDs, NEW kept \in BOOLEAN
  PROVE  IInv /\ AcceptOutside(l, f, kept) => IInv'
<1> SUFFICES ASSUME IInv, AcceptOutside(l, f, kept) PROVE IInv'
  OBVIOUS
<1>1. /\ pc = "accept_outside" /\ f \in Free /\ l \in Targets /\ blocked = 0
      /\ UNCHANGED <<role, listed, tunnel, leaving, blocked>> /\ Advance
  BY DEF AcceptOutside, Accepting, Lowest
<1>2. bits' \subseteq bits \ {l}
  BY <1>1, AdvanceTo DEF Middle
<1>3. CASE kept
  <2>1. /\ Kernel({l}, {}, {f}, "conn") /\ table' = table \cup {f}
        /\ nonblocking' = nonblocking \cup {f}
    BY <1>3 DEF AcceptOutside
  <2>2. /\ owner' = [g \in FDs |-> IF g = f THEN "conn"
                                   ELSE IF g \in {} THEN "free" ELSE owner[g]]
        /\ ready' = [g \in FDs |-> IF g \in {l} \cup {} \cup {f} THEN "no" ELSE ready[g]]
        /\ Open' = (Open \ {}) \cup {f} /\ f \in FDs /\ f \notin Open /\ f # 0
        /\ owner' \in [FDs -> Kinds \cup {"free"}] /\ ready' \in [FDs -> Readiness]
        /\ \A g \in FDs \ Open' : ready'[g] = "no"
        /\ \A g \in FDs : ready'[g] = "bad" => owner'[g] = "udp"
    <3>1. "conn" \in Kinds
      BY DEF Kinds
    <3> QED BY <1>1, <2>1, <3>1, OpenFacts
  <2>3. \A g \in bits' :
          owner'[g] \in {"tunnel_listener", "outside_listener", "tunnel"} =>
            owner'[g] = owner[g] /\ ready'[g] = ready[g]
    BY <1>2, <2>2 DEF IInv, TypeOK
  <2>4. /\ pc' \in Sections /\ bits' \subseteq FDs /\ todo' \subseteq bits'
        /\ todo' \subseteq table' /\ (pc' # "conns" => todo' = {}) /\ pc' # "connect"
        /\ RoleSections' /\ StartOpen' /\ FreshBits' /\ TrueBits'
    BY <1>1, <2>1, <2>3, AdvanceInv DEF IInv, TypeOK, Middle
  <2>5. TypeOK'
    BY <1>1, <2>1, <2>2, <2>4 DEF IInv, TypeOK
  <2>6. OwnedOnce' /\ Listed'
    BY <1>1, <2>1, <2>2, <2>4 DEF IInv, OwnedOnce, Listed, TypeOK, Open
  <2>7. Nonblocking' /\ Kinded' /\ Waiting'
    BY <1>1, <2>1, <2>2, <2>4 DEF IInv, Nonblocking, Kinded, Waiting, TypeOK, Open
  <2> QED BY <2>4, <2>5, <2>6, <2>7 DEF IInv
<1>4. CASE ~kept
  <2>1. Close({l}, {}) /\ UNCHANGED table
    BY <1>4 DEF AcceptOutside
  <2>2. /\ owner' = [g \in FDs |-> IF g \in {} THEN "free" ELSE owner[g]]
        /\ ready' = [g \in FDs |-> IF g \in {l} \cup {} THEN "no" ELSE ready[g]]
        /\ nonblocking' = nonblocking \ {} /\ Open' = Open \ {}
        /\ owner' \in [FDs -> Kinds \cup {"free"}] /\ ready' \in [FDs -> Readiness]
        /\ nonblocking' \subseteq Open' /\ \A g \in FDs \ Open' : ready'[g] = "no"
        /\ \A g \in FDs : ready'[g] = "bad" => owner'[g] = "udp"
    BY <2>1, CloseFacts
  <2>3. owner' = owner /\ nonblocking' = nonblocking
    BY <2>2 DEF IInv, TypeOK
  <2>4. \A g \in bits' :
          owner'[g] \in {"tunnel_listener", "outside_listener", "tunnel"} =>
            owner'[g] = owner[g] /\ ready'[g] = ready[g]
    BY <1>2, <2>2 DEF IInv, TypeOK
  <2>5. /\ pc' \in Sections /\ bits' \subseteq FDs /\ todo' \subseteq bits'
        /\ todo' \subseteq table' /\ (pc' # "conns" => todo' = {}) /\ pc' # "connect"
        /\ RoleSections' /\ StartOpen' /\ FreshBits' /\ TrueBits'
    BY <1>1, <2>1, <2>4, AdvanceInv DEF IInv, TypeOK, Middle
  <2>6. TypeOK'
    BY <1>1, <2>1, <2>2, <2>5 DEF IInv, TypeOK
  <2>7. OwnedOnce' /\ Listed'
    BY <1>1, <2>1, <2>3, <2>5 DEF IInv, OwnedOnce, Listed
  <2>8. Nonblocking' /\ Kinded' /\ Waiting'
    BY <1>1, <2>1, <2>2, <2>3, <2>5 DEF IInv, Nonblocking, Kinded, Waiting
  <2> QED BY <2>5, <2>6, <2>7, <2>8 DEF IInv
<1> QED BY <1>3, <1>4

\* A section that reads f, closes the tunnel or not, and ends.
LEMMA AdvanceClosing ==
  ASSUME IInv, Advance, pc \in {"udp", "tunnel"}, blocked = 0,
         NEW f \in Targets, NEW drop \in {{}, {tunnel}}, Close({f}, drop),
         listed' = listed \ drop, tunnel' = IF drop = {} THEN tunnel ELSE 0,
         leaving' \in {"no", "lost", "quit"}, UNCHANGED <<role, table, blocked>>
  PROVE  IInv'
<1>1. /\ owner' = [g \in FDs |-> IF g \in drop THEN "free" ELSE owner[g]]
      /\ ready' = [g \in FDs |-> IF g \in {f} \cup drop THEN "no" ELSE ready[g]]
      /\ nonblocking' = nonblocking \ drop /\ Open' = Open \ drop
      /\ owner' \in [FDs -> Kinds \cup {"free"}] /\ ready' \in [FDs -> Readiness]
      /\ nonblocking' \subseteq Open' /\ \A g \in FDs \ Open' : ready'[g] = "no"
      /\ \A g \in FDs : ready'[g] = "bad" => owner'[g] = "udp"
  BY CloseFacts
<1>2. bits' \subseteq bits \ {f}
  BY AdvanceTo DEF Middle
<1>3. \A g \in bits' :
        owner'[g] \in {"tunnel_listener", "outside_listener", "tunnel"} =>
          owner'[g] = owner[g] /\ ready'[g] = ready[g]
  BY <1>1, <1>2 DEF IInv, TypeOK
<1>4. /\ pc' \in Sections /\ bits' \subseteq FDs /\ todo' \subseteq bits'
      /\ todo' \subseteq table' /\ (pc' # "conns" => todo' = {}) /\ pc' # "connect"
      /\ RoleSections' /\ StartOpen' /\ FreshBits' /\ TrueBits'
  BY <1>3, AdvanceInv DEF IInv, TypeOK, Middle
<1>5. TypeOK'
  BY <1>1, <1>4 DEF IInv, TypeOK
<1>6. OwnedOnce'
  BY <1>1, TunnelOwned DEF IInv, OwnedOnce, TypeOK
<1>7. Listed'
  BY <1>1, <1>4, TunnelOwned DEF IInv, Listed, TypeOK
<1>8. Nonblocking'
  BY <1>1, TunnelOwned DEF IInv, Nonblocking, TypeOK, Open
<1>9. Kinded' /\ Waiting'
  BY <1>1, <1>4 DEF Kinded, Waiting
<1> QED BY <1>4, <1>5, <1>6, <1>7, <1>8, <1>9 DEF IInv

LEMMA ReadUdpInv ==
  ASSUME NEW f \in FDs, NEW sent \in BOOLEAN PROVE IInv /\ ReadUdp(f, sent) => IInv'
<1> SUFFICES ASSUME IInv, ReadUdp(f, sent) PROVE IInv'
  OBVIOUS
<1> DEFINE drop == IF sent \/ role = "client" THEN {} ELSE {tunnel}
<1>1. /\ Advance /\ pc = "udp" /\ blocked = 0 /\ f \in Targets
      /\ Close({f}, drop) /\ UNCHANGED <<role, table, blocked>>
  BY DEF ReadUdp
<1>2. drop \in {{}, {tunnel}}
  OBVIOUS
<1>3. listed' = listed \ drop /\ tunnel' = IF drop = {} THEN tunnel ELSE 0
  BY DEF ReadUdp
<1>4. leaving' \in {"no", "lost", "quit"}
  BY DEF ReadUdp, Lost, IInv, TypeOK
<1> HIDE DEF drop
<1> QED BY <1>1, <1>2, <1>3, <1>4, AdvanceClosing

LEMMA ReadTunnelEndInv ==
  ASSUME NEW f \in FDs PROVE IInv /\ ReadTunnelEnd(f) => IInv'
<1> SUFFICES ASSUME IInv, ReadTunnelEnd(f) PROVE IInv'
  OBVIOUS
<1>1. /\ Advance /\ pc = "tunnel" /\ blocked = 0 /\ f \in Targets
      /\ UNCHANGED <<role, table, blocked>>
  BY DEF ReadTunnelEnd
<1>2. f = tunnel
  BY <1>1 DEF Targets
<1>3. leaving' \in {"no", "lost", "quit"}
  BY DEF ReadTunnelEnd, Lost, IInv, TypeOK
<1>4. CASE role = "server"
  <2>1. Close({}, {f}) /\ listed' = listed \ {tunnel} /\ tunnel' = 0
    BY <1>2, <1>4 DEF ReadTunnelEnd
  <2>2. Close({f}, {tunnel})
    BY <1>2, <2>1 DEF Close, Kernel
  <2>3. {tunnel} # {}
    OBVIOUS
  <2> QED BY <1>1, <1>3, <2>1, <2>2, <2>3, AdvanceClosing
<1>5. CASE role # "server"
  <2>1. Close({f}, {}) /\ listed' = listed \ {} /\ tunnel' = tunnel
    BY <1>5 DEF ReadTunnelEnd
  <2> QED BY <1>1, <1>3, <2>1, AdvanceClosing
<1> QED BY <1>4, <1>5

\* A connection is closed and leaves the table, in the middle of a section.
LEMMA RemoveInv ==
  ASSUME IInv, pc \in {"conns", "batch"}, NEW f \in table, Close({}, {f}),
         table' = table \ {f}, todo' = todo \ {f}, leaving' \in {"no", "lost", "quit"},
         UNCHANGED <<role, pc, listed, tunnel, bits, blocked>>
  PROVE  IInv'
<1>1. /\ owner' = [g \in FDs |-> IF g \in {f} THEN "free" ELSE owner[g]]
      /\ ready' = [g \in FDs |-> IF g \in {} \cup {f} THEN "no" ELSE ready[g]]
      /\ nonblocking' = nonblocking \ {f} /\ Open' = Open \ {f}
      /\ owner' \in [FDs -> Kinds \cup {"free"}] /\ ready' \in [FDs -> Readiness]
      /\ nonblocking' \subseteq Open' /\ \A g \in FDs \ Open' : ready'[g] = "no"
      /\ \A g \in FDs : ready'[g] = "bad" => owner'[g] = "udp"
  BY CloseFacts
<1>2. owner[f] = "conn" /\ f \in FDs
  BY DEF IInv, OwnedOnce
<1>3. TypeOK'
  BY <1>1 DEF IInv, TypeOK
<1>4. OwnedOnce' /\ Listed'
  BY <1>1, <1>2 DEF IInv, OwnedOnce, Listed, TypeOK
<1>5. RoleSections' /\ StartOpen' /\ FreshBits'
  BY DEF IInv, RoleSections, StartOpen, FreshBits
<1>6. Nonblocking' /\ Kinded'
  BY <1>1 DEF IInv, Nonblocking, Kinded, TypeOK, Open
<1>7. TrueBits'
  BY <1>1, <1>2 DEF IInv, TrueBits, BeforeTunnel, TypeOK
<1>8. Waiting'
  BY DEF IInv, Waiting
<1> QED BY <1>3, <1>4, <1>5, <1>6, <1>7, <1>8 DEF IInv

LEMMA RemoveConnInv ==
  ASSUME NEW f \in FDs PROVE IInv /\ RemoveConn(f) => IInv'
BY RemoveInv DEF RemoveConn, IInv, Kinded, TypeOK

LEMMA ReadConnInv ==
  ASSUME NEW f \in FDs, NEW sent \in BOOLEAN PROVE IInv /\ ReadConn(f, sent) => IInv'
<1> SUFFICES ASSUME IInv, ReadConn(f, sent) PROVE IInv'
  OBVIOUS
<1>1. /\ pc = "conns" /\ blocked = 0 /\ f \in Targets
      /\ UNCHANGED <<role, listed, tunnel, blocked>>
      /\ leaving' \in {"no", "lost", "quit"}
  BY DEF ReadConn, Lost, IInv, TypeOK
<1>2. f \in todo /\ f \in table /\ owner[f] = "conn"
  BY <1>1 DEF Targets, IInv, Kinded, OwnedOnce
<1>3. CASE ready[f] = "end" \/ (~sent /\ role = "server")
  <2>1. Close({}, {f}) /\ table' = table \ {f}
    BY <1>3 DEF ReadConn
  <2>2. sent \/ role = "server"
    BY <1>3 DEF ReadConn
  <2>3. todo' = todo \ {f} /\ UNCHANGED <<pc, bits>>
    BY <2>2 DEF ReadConn
  <2> QED BY <1>1, <1>2, <2>1, <2>3, RemoveInv
<1>4. CASE ~(ready[f] = "end" \/ (~sent /\ role = "server"))
  <2>1. Close({f}, {}) /\ UNCHANGED table
    BY <1>4 DEF ReadConn
  <2>2. /\ owner' = [g \in FDs |-> IF g \in {} THEN "free" ELSE owner[g]]
        /\ ready' = [g \in FDs |-> IF g \in {f} \cup {} THEN "no" ELSE ready[g]]
        /\ nonblocking' = nonblocking \ {} /\ Open' = Open \ {}
        /\ owner' \in [FDs -> Kinds \cup {"free"}] /\ ready' \in [FDs -> Readiness]
        /\ nonblocking' \subseteq Open' /\ \A g \in FDs \ Open' : ready'[g] = "no"
        /\ \A g \in FDs : ready'[g] = "bad" => owner'[g] = "udp"
    BY <2>1, CloseFacts
  <2>3. owner' = owner /\ nonblocking' = nonblocking /\ Open' = Open
    BY <2>2 DEF IInv, TypeOK
  <2>4. CASE sent \/ role = "server"
    <3>1. todo' = todo \ {f} /\ UNCHANGED <<pc, bits>>
      BY <2>4 DEF ReadConn
    <3>2. TypeOK'
      BY <1>1, <2>1, <2>2, <3>1 DEF IInv, TypeOK
    <3>3. OwnedOnce' /\ Listed'
      BY <1>1, <2>1, <2>3, <3>1 DEF IInv, OwnedOnce, Listed
    <3>4. RoleSections' /\ StartOpen' /\ FreshBits'
      BY <1>1, <3>1 DEF IInv, RoleSections, StartOpen, FreshBits
    <3>5. Nonblocking' /\ Kinded' /\ Waiting'
      BY <1>1, <2>1, <2>2, <2>3, <3>1 DEF IInv, Nonblocking, Kinded, Waiting
    <3>6. TrueBits'
      BY <1>1, <1>2, <2>2, <2>3, <3>1 DEF IInv, TrueBits, BeforeTunnel, TypeOK
    <3> QED BY <3>2, <3>3, <3>4, <3>5, <3>6 DEF IInv
  <2>5. CASE ~(sent \/ role = "server")
    <3>1. Advance
      BY <2>5 DEF ReadConn
    <3>2. \A g \in bits' :
          owner'[g] \in {"tunnel_listener", "outside_listener", "tunnel"} =>
            owner'[g] = owner[g] /\ ready'[g] = ready[g]
      BY <1>1, <1>2, <2>2, <2>3, <3>1, AdvanceTo DEF IInv, TypeOK, Middle
    <3>3. /\ pc' \in Sections /\ bits' \subseteq FDs /\ todo' \subseteq bits'
          /\ todo' \subseteq table' /\ (pc' # "conns" => todo' = {}) /\ pc' # "connect"
          /\ RoleSections' /\ StartOpen' /\ FreshBits' /\ TrueBits'
      BY <1>1, <2>1, <3>1, <3>2, AdvanceInv DEF IInv, TypeOK, Middle
    <3>4. TypeOK'
      BY <1>1, <2>1, <2>2, <3>3 DEF IInv, TypeOK
    <3>5. OwnedOnce' /\ Listed'
      BY <1>1, <2>1, <2>3, <3>3 DEF IInv, OwnedOnce, Listed
    <3>6. Nonblocking' /\ Kinded' /\ Waiting'
      BY <1>1, <2>1, <2>2, <2>3, <3>3 DEF IInv, Nonblocking, Kinded, Waiting
    <3> QED BY <3>3, <3>4, <3>5, <3>6 DEF IInv
  <2> QED BY <2>4, <2>5
<1> QED BY <1>3, <1>4

LEMMA OpenDestInv ==
  ASSUME NEW f \in FDs PROVE IInv /\ OpenDest(f) => IInv'
<1> SUFFICES ASSUME IInv, OpenDest(f) PROVE IInv'
  OBVIOUS
<1>1. /\ pc = "batch" /\ f \in Free /\ Kernel({}, {}, {f}, "conn")
      /\ nonblocking' = nonblocking \cup {f} /\ table' = table \cup {f}
      /\ UNCHANGED <<role, pc, listed, tunnel, bits, todo, leaving, blocked>>
  BY DEF OpenDest, Lowest
<1>2. /\ owner' = [g \in FDs |-> IF g = f THEN "conn"
                                 ELSE IF g \in {} THEN "free" ELSE owner[g]]
      /\ ready' = [g \in FDs |-> IF g \in {} \cup {} \cup {f} THEN "no" ELSE ready[g]]
      /\ Open' = (Open \ {}) \cup {f} /\ f \in FDs /\ f \notin Open /\ f # 0
      /\ owner' \in [FDs -> Kinds \cup {"free"}] /\ ready' \in [FDs -> Readiness]
      /\ \A g \in FDs \ Open' : ready'[g] = "no"
      /\ \A g \in FDs : ready'[g] = "bad" => owner'[g] = "udp"
  <2>1. "conn" \in Kinds
    BY DEF Kinds
  <2> QED BY <1>1, <2>1, OpenFacts
<1>3. TypeOK'
  BY <1>1, <1>2 DEF IInv, TypeOK
<1>4. OwnedOnce' /\ Listed'
  BY <1>1, <1>2 DEF IInv, OwnedOnce, Listed, TypeOK, Open
<1>5. RoleSections' /\ StartOpen' /\ FreshBits'
  BY <1>1 DEF IInv, RoleSections, StartOpen, FreshBits
<1>6. Nonblocking' /\ Kinded'
  BY <1>1, <1>2 DEF IInv, Nonblocking, Kinded, TypeOK, Open
<1>7. TrueBits' /\ Waiting'
  BY <1>1 DEF IInv, TrueBits, BeforeTunnel, Waiting
<1> QED BY <1>3, <1>4, <1>5, <1>6, <1>7 DEF IInv

-----------------------------------------------------------------------------
LEMMA ProgramInv == IInv /\ Program => IInv'
<1> SUFFICES ASSUME IInv, Program PROVE IInv'
  OBVIOUS
<1>1. CASE GiveUp
  BY <1>1, ExitInv DEF GiveUp
<1>2. CASE Connect \/ EndIteration \/ Select \/ Skip \/ Wake \/ EndBatch \/ OpenFixed
  BY <1>2, ConnectInv, EndIterationInv, SelectInv, SkipInv, WakeInv, EndBatchInv, OpenFixedInv
<1>3. CASE \E typed \in {"nothing", "q"} : Stdin(typed)
  BY <1>3, StdinInv
<1>4. CASE \E f \in FDs : ReadNothing(f) \/ ReadTunnel(f) \/ ReadTunnelEnd(f)
  BY <1>4, ReadNothingInv, ReadTunnelInv, ReadTunnelEndInv
<1>5. CASE \E f \in FDs : RemoveConn(f) \/ OpenDest(f)
  BY <1>5, RemoveConnInv, OpenDestInv
<1>6. CASE \E f, l \in FDs : AcceptTunnel(l, f) \/ \E kept \in BOOLEAN : AcceptOutside(l, f, kept)
  BY <1>6, AcceptTunnelInv, AcceptOutsideInv
<1>7. CASE \E f \in FDs, sent \in BOOLEAN : ReadUdp(f, sent) \/ ReadConn(f, sent)
  BY <1>7, ReadUdpInv, ReadConnInv
<1> QED BY <1>1, <1>2, <1>3, <1>4, <1>5, <1>6, <1>7 DEF Program

LEMMA StepInv == IInv /\ [Next]_vars => IInv'
<1> SUFFICES ASSUME IInv, [Next]_vars PROVE IInv'
  OBVIOUS
<1>1. CASE Program
  BY <1>1, ProgramInv
<1>2. CASE World
  BY <1>2, ArriveInv DEF World
<1>3. CASE UNCHANGED vars
  BY <1>3 DEF vars, kernelVars, ownVars, IInv, TypeOK, OwnedOnce, RoleSections, StartOpen,
     Listed, Nonblocking, Kinded, FreshBits, TrueBits, Waiting, BeforeTunnel, Open, Fixed
<1> QED BY <1>1, <1>2, <1>3 DEF Next

THEOREM Invariant == Spec => []IInv
<1>1. Init => IInv
  BY InitInv
<1>2. IInv /\ [Next]_vars => IInv'
  BY StepInv
<1> QED BY <1>1, <1>2, PTL DEF Spec

\* The variables have their types; a descriptor that is closed is never ready or
\* non-blocking, and only connections with a true bit are left to be read.
THEOREM TypeCorrect == Spec => []TypeOK
<1>1. IInv => TypeOK
  BY DEF IInv
<1> QED BY <1>1, Invariant, PTL

\* select is asked about exactly the open descriptors: never about one that was closed
\* (EBADF would end the loop), and about all (none is forgotten).
THEOREM SelectSetCorrect == Spec => []SelectSetExact
<1>1. IInv => SelectSetExact
  BY DEF IInv, SelectSetExact, Asked, Listed, OwnedOnce, Open
<1> QED BY <1>1, Invariant, PTL

\* No descriptor is owned by two objects, and none by an object that is gone.
THEOREM Ownership == Spec => []OwnedOnce
<1>1. IInv => OwnedOnce
  BY DEF IInv
<1> QED BY <1>1, Invariant, PTL

\* However descriptors are closed and their numbers reused while the bits of one
\* select are in use, no read or accept makes the thread wait, but the
\* server's recvfrom.
THEOREM NoHang == Spec => []NeverHangs
<1>1. IInv => NeverHangs
  BY DEF IInv, Waiting, NeverHangs
<1> QED BY <1>1, Invariant, PTL

=============================================================================
