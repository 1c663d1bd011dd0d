----------------------------- MODULE UdpProofs -----------------------------
(***************************************************************************)
(* What holds of ProcMsgUdp for every set of objects, ports and            *)
(* descriptors, and any number of sockets and datagrams.                   *)
(***************************************************************************)
EXTENDS ProcMsgUdp, FiniteSetTheorems, TLAPS

\* What is parsed has been sent.
Parsing == \A o \in Obj, k \in Thread : th[o][k].at = "parse" => th[o][k].got \in net

\* The number of an object that is open stands for its socket, and a handler of
\* an object that is not moved is in that socket.
Own ==
  odd = {} =>
    /\ \A o \in Obj : opened[o] # None =>
         sd[o] # Failed /\ table[sd[o]] = opened[o] /\ sock[opened[o]].obj = o
    /\ \A o \in Obj, k \in Thread : o \notin moved /\ th[o][k].at # "none" =>
         opened[o] # None /\ (th[o][k].at = "recv" => th[o][k].sock = opened[o])

\* recvfrom fills in the address that the type of the object asks for.
Filling ==
  \A o \in Obj, k \in Thread : o \notin moved /\ th[o][k].at = "recv" =>
    th[o][k].fills = IF type[o] = "server" THEN "client_isa" ELSE "server_isa"

\* While its one handler parses, an object sends to whoever is to be answered.
Answering ==
  \A o \in Obj : o \notin moved /\ OneHandler(o) /\ th[o][1].at = "parse" =>
    Dests(o) = {th[o][1].got.src}

IInv ==
  TypeOK /\ Parsing /\ Own /\ Filling /\ Answering /\ AnswersReachAsker /\ ClientKeepsServer

USE UdpAssumption
-----------------------------------------------------------------------------
\* Min is one of the descriptors it is taken of.
LEMMA MinIsIn ==
  ASSUME NEW S, S \subseteq Nat, S # {}
  PROVE  Min(S) \in S
<1>1. IsWellFoundedOn(OpToRel(<, Nat), Nat)
  BY NatLessThanWellFounded
<1>2. PICK x \in S : \A y \in S : ~ (<<y, x>> \in OpToRel(<, Nat))
  BY <1>1, WFMin
<1>3. \A y \in S : ~ (y < x)
  BY <1>2 DEF OpToRel
<1>4. \A y \in S : x <= y
  BY <1>3
<1> QED
  BY <1>4 DEF Min

LEMMA NoneIsNoAddress == None \notin Address
  BY DEF None, Address

\* The address of a socket is an address, and stays the same.
LEMMA AddrFacts ==
  ASSUME TypeOK, NEW s \in 1 .. Len(sock)
  PROVE  Addr(s) \in Address /\ Addr(s) # None
<1>1. sock[s] \in BoundSocket /\ s \in 1 .. MaxSockets
  BY DEF TypeOK
<1>2. CASE sock[s].port # None
  BY <1>1, <1>2 DEF Addr, Address, BoundSocket
<1>3. CASE sock[s].port = None
  BY <1>1, <1>3 DEF Addr, Address, None
<1> QED
  BY <1>2, <1>3

\* What handlers can be in grows with the sockets and the datagrams.
LEMMA HandlersKeep ==
  ASSUME TypeOK, net \subseteq net', Len(sock)' \in Nat, Len(sock) <= Len(sock)', th' = th
  PROVE  th' \in [Obj -> [Thread -> HandlerState']]
<1>1. Len(sock) \in Nat /\ 0 .. Len(sock) \subseteq 0 .. Len(sock)'
  BY DEF TypeOK
<1>2. \A h \in HandlerState : h \in HandlerState'
  BY <1>1 DEF HandlerState
<1> QED
  BY <1>2 DEF TypeOK

LEMMA InitInv == Init => IInv
<1> SUFFICES ASSUME Init PROVE IInv
  OBVIOUS
<1>1. TypeOK
  <2>1. sock = <<>> /\ Len(sock) = 0
    BY DEF Init
  <2>2. th \in [Obj -> [Thread -> HandlerState]]
    <3>1. Idle \in HandlerState /\ Idle.at # "recv" /\ Idle.sock = None
      BY <2>1 DEF HandlerState, Idle, None
    <3> QED
      BY <3>1 DEF Init
  <2>3. net \subseteq Datagram /\ IsFiniteSet(net) /\ Cardinality(net) <= MaxSends
    <3>1. net = {}
      BY DEF Init
    <3> QED
      BY <3>1, FS_EmptySet
  <2>4. table \in [Fd \cup {0} -> {Stdin, None} \cup 1 .. Len(sock)]
    BY DEF Init
  <2>5. /\ sock \in Seq(BoundSocket) /\ Len(sock) <= MaxSockets
        /\ opened \in [Obj -> 0 .. Len(sock)]
    BY <2>1 DEF Init, None
  <2> QED
    BY <2>2, <2>3, <2>4, <2>5 DEF Init, TypeOK
<1>2. \A o \in Obj, k \in Thread : th[o][k] = Idle
  BY DEF Init
<1>3. net = {} /\ \A o \in Obj : opened[o] = None
  BY DEF Init
<1>4. Parsing /\ Own /\ Filling /\ Answering
  BY <1>2, <1>3 DEF Parsing, Own, Filling, Answering, Idle, Thread
<1>5. AnswersReachAsker /\ ClientKeepsServer
  BY <1>2, <1>3 DEF AnswersReachAsker, ClientKeepsServer, Idle, Thread
<1> QED
  BY <1>1, <1>4, <1>5 DEF IInv

\* pm_connect_udp and pm_create_udp, when a descriptor is free.
LEMMA SocketInv ==
  ASSUME IInv, Len(sock) < MaxSockets, NEW o \in Obj, NEW p \in Port,
         NEW kind \in {"server", "client"}, NEW bound \in Port \cup {None},
         Socket(o, kind, bound, p)
  PROVE  IInv'
<1> DEFINE f == Min(Free)
<1> USE DEF IInv
<1>1. CASE Free = {}
  <2>1. TypeOK'
    <3>1. UNCHANGED <<table, sock, server_isa, client_isa, buf, th, joinable, net, port, odd>>
      BY <1>1 DEF Socket
    <3>2. type' \in [Obj -> {"none", "server", "client"}] /\ sd' \in [Obj -> Fd \cup {0, Failed}]
      BY <1>1 DEF TypeOK, Socket, Set
    <3>3. opened' \in [Obj -> 0 .. Len(sock)]
      <4>1. opened' = Set(opened, o, None) /\ None \in 0 .. Len(sock)
        BY <1>1 DEF Socket, TypeOK, None
      <4> QED
        BY <4>1 DEF TypeOK, Set
    <3>4. moved' \subseteq Obj
      BY DEF TypeOK, Socket
    <3>5. HandlerState' = HandlerState
      BY <3>1 DEF HandlerState
    <3> QED
      BY <3>1, <3>2, <3>3, <3>4, <3>5 DEF TypeOK
  <2>2. Parsing'
    BY <1>1 DEF Parsing, Socket
  <2>3. Own'
    BY <1>1 DEF TypeOK, Own, Socket, Set, Running
  <2>4. Filling'
    BY <1>1 DEF TypeOK, Filling, Socket, Set, Running
  <2>5. Answering'
    BY <1>1 DEF TypeOK, Answering, Socket, Set, Running, OneHandler, Peer, Dests, Thread
  <2>6. AnswersReachAsker'
    BY <1>1 DEF TypeOK, AnswersReachAsker, Socket, OneHandler
  <2>7. ClientKeepsServer'
    <3>1. \A s : Addr(s)' = Addr(s)
      BY <1>1 DEF Socket, Addr
    <3>2. ASSUME NEW q \in Obj, opened'[q] # None
          PROVE  /\ q # o /\ type'[q] = type[q] /\ opened'[q] = opened[q]
                 /\ UNCHANGED <<server_isa, port, net, odd>> /\ (q \notin moved' => q \notin moved)
      BY <1>1, <3>2 DEF TypeOK, Socket, Set
    <3> QED
      BY <3>1, <3>2 DEF ClientKeepsServer
  <2> QED
    BY <2>1, <2>2, <2>3, <2>4, <2>5, <2>6, <2>7
<1>2. CASE Free # {}
  <2>1. f \in Fd \cup {0} /\ table[f] = None
    <3>1. DOMAIN table = Fd \cup {0} /\ Fd \cup {0} \subseteq Nat
      BY DEF TypeOK
    <3>2. Free \subseteq Nat
      BY <3>1 DEF Free
    <3> QED
      BY <1>2, <3>1, <3>2, MinIsIn DEF Free
  <2>2. sock' = Append(sock, [port |-> bound, obj |-> o]) /\ Len(sock') = Len(sock) + 1
        /\ \A s \in 1 .. Len(sock) : sock'[s] = sock[s]
        /\ sock'[Len(sock')] = [port |-> bound, obj |-> o]
    <3>1. sock' = Append(sock, [port |-> bound, obj |-> o])
      BY <1>2 DEF Socket
    <3>2. sock \in Seq(BoundSocket) /\ [port |-> bound, obj |-> o] \in BoundSocket
      BY DEF TypeOK, BoundSocket
    <3> QED
      BY <3>1, <3>2
  <2>3. \A s \in 1 .. Len(sock) : Addr(s)' = Addr(s)
    BY <2>2 DEF Addr
  <2>4. TypeOK'
    <3>1. Len(sock) \in Nat /\ 1 .. Len(sock) \subseteq 1 .. Len(sock)' /\ Len(sock)' \in Nat
          /\ Len(sock)' # None
      BY <2>2 DEF TypeOK, None
    <3>2. sock' \in Seq(BoundSocket) /\ Len(sock') <= MaxSockets
      <4>1. [port |-> bound, obj |-> o] \in BoundSocket
        BY DEF BoundSocket
      <4> QED
        BY <2>2, <4>1 DEF TypeOK
    <3>3. table' \in [Fd \cup {0} -> {Stdin, None} \cup 1 .. Len(sock)']
      <4>1. table' = Set(table, f, Len(sock)')
        BY <1>2 DEF Socket
      <4>2. Len(sock)' \in {Stdin, None} \cup 1 .. Len(sock')
        BY <2>2, <3>1
      <4>3. table \in [Fd \cup {0} -> {Stdin, None} \cup 1 .. Len(sock')]
        BY <2>2, <3>1 DEF TypeOK
      <4> QED
        BY <4>1, <4>2, <4>3 DEF Set
    <3>4. type' \in [Obj -> {"none", "server", "client"}] /\ sd' \in [Obj -> Fd \cup {0, Failed}]
      <4>1. type' = Set(type, o, kind) /\ sd' = Set(sd, o, f)
        BY <1>2 DEF Socket
      <4>2. kind \in {"none", "server", "client"} /\ f \in Fd \cup {0, Failed}
        BY <2>1
      <4> QED
        BY <4>1, <4>2 DEF TypeOK, Set
    <3>5. opened' \in [Obj -> 0 .. Len(sock)']
      BY <1>2, <3>1 DEF TypeOK, Socket, Set
    <3>6. server_isa' \in [Obj -> Address \cup {None}] /\ port' \in [Obj -> Port \cup {None}]
      <4>1. server_isa' = Set(server_isa, o, p) /\ port' = Set(port, o, p) /\ p \in Address
        BY <1>2 DEF Socket, Aimed, Address
      <4> QED
        BY <4>1 DEF TypeOK, Set
    <3>7. moved' \subseteq Obj /\ odd' \subseteq Obj
      BY DEF TypeOK, Socket
    <3>8. UNCHANGED <<client_isa, buf, th, joinable, net>>
      BY DEF Socket
    <3>9. th' \in [Obj -> [Thread -> HandlerState']]
      BY <2>2, <3>1, <3>8, HandlersKeep
    <3> QED
      BY <3>2, <3>3, <3>4, <3>5, <3>6, <3>7, <3>8, <3>9 DEF TypeOK
  <2>5. Parsing'
    BY DEF Parsing, Socket
  <2>6. Own'
    <3> SUFFICES ASSUME odd' = {} PROVE Own'
      BY DEF Own
    <3>1. odd = {} /\ Len(sock) \in Nat /\ Len(sock)' # None /\ f # Failed
      BY <2>1, <2>2 DEF Socket, TypeOK, None, Failed
    <3>2. table' = Set(table, f, Len(sock)') /\ sd' = Set(sd, o, f)
          /\ opened' = Set(opened, o, Len(sock)')
      BY <1>2 DEF Socket
    <3>3. ASSUME NEW q \in Obj, opened'[q] # None
          PROVE  sd'[q] # Failed /\ table'[sd'[q]] = opened'[q] /\ sock'[opened'[q]].obj = q
      <4>1. CASE q = o
        BY <2>1, <2>2, <3>1, <3>2, <4>1 DEF TypeOK, Set
      <4>2. CASE q # o
        <5>1. opened'[q] = opened[q] /\ sd'[q] = sd[q] /\ opened[q] \in 1 .. Len(sock)
          BY <3>2, <3>3, <4>2 DEF TypeOK, Set, None
        <5>2. sd[q] # Failed /\ table[sd[q]] = opened[q] /\ sock[opened[q]].obj = q
          BY <3>1, <3>3, <5>1 DEF Own
        <5>3. sd[q] # f /\ sd[q] \in Fd \cup {0}
          BY <2>1, <3>3, <5>1, <5>2 DEF TypeOK
        <5> QED
          BY <2>2, <3>2, <5>1, <5>2, <5>3 DEF TypeOK, Set
      <4> QED
        BY <4>1, <4>2
    <3>4. ASSUME NEW q \in Obj, NEW k \in Thread, q \notin moved', th'[q][k].at # "none"
          PROVE  opened'[q] # None /\ (th'[q][k].at = "recv" => th'[q][k].sock = opened'[q])
      BY <3>1, <3>2, <3>4 DEF TypeOK, Own, Socket, Set, Running
    <3> QED
      BY <3>3, <3>4 DEF Own
  <2>7. Filling'
    BY <1>2 DEF TypeOK, Filling, Socket, Set, Running
  <2>8. Answering'
    <3> SUFFICES ASSUME NEW q \in Obj, q \notin moved', OneHandler(q)', th'[q][1].at = "parse"
                 PROVE  Dests(q)' = {th'[q][1].got.src}
      BY DEF Answering
    <3>1. q # o /\ th' = th /\ q \notin moved
      BY DEF Socket, Running, TypeOK, Thread
    <3>2. Dests(q)' = Dests(q)
      BY <1>2, <3>1 DEF Socket, Aimed, Set, TypeOK, Peer, Dests
    <3> QED
      BY <3>1, <3>2 DEF Answering, OneHandler
  <2>9. AnswersReachAsker'
    BY <1>2 DEF TypeOK, AnswersReachAsker, Socket, OneHandler
  <2>10. ClientKeepsServer'
    <3> SUFFICES ASSUME odd' = {}, NEW q \in Obj, type'[q] = "client", opened'[q] # None,
                        q \notin moved'
                 PROVE  \/ server_isa'[q] = port'[q]
                        \/ \E d \in net' : d.src = server_isa'[q] /\ d.dst = Addr(opened[q])'
      BY DEF ClientKeepsServer
    <3>1. CASE q = o
      BY <1>2, <3>1 DEF TypeOK, Socket, Aimed, Set
    <3>2. CASE q # o
      <4>1. /\ type'[q] = type[q] /\ opened'[q] = opened[q] /\ opened[q] \in 1 .. Len(sock)
            /\ server_isa'[q] = server_isa[q] /\ port'[q] = port[q] /\ net' = net
            /\ odd = {} /\ q \notin moved
        BY <1>2, <3>2 DEF TypeOK, Socket, Aimed, Set, None
      <4>2. Addr(opened[q])' = Addr(opened[q])
        BY <2>2, <4>1 DEF Addr
      <4> QED
        BY <4>1, <4>2 DEF ClientKeepsServer
    <3> QED
      BY <3>1, <3>2
  <2> QED
    BY <2>4, <2>5, <2>6, <2>7, <2>8, <2>9, <2>10
<1> QED
  BY <1>1, <1>2

LEMMA CloseInv ==
  ASSUME IInv, NEW o \in Obj, Close(o)
  PROVE  IInv'
<1> USE DEF IInv
<1>1. TypeOK'
  BY HandlersKeep DEF TypeOK, Close, Number, Set, None, addrs
<1>2. Parsing'
  BY DEF Parsing, Close
<1>3. Own'
  <2> SUFFICES ASSUME odd' = {} PROVE Own'
    BY DEF Own
  <2>1. odd = {} /\ opened[o] # None /\ sd[o] # Failed /\ table[sd[o]] = opened[o]
    BY DEF Close, TypeOK, Own
  <2>2. \A q \in Obj \ {o} : opened[q] # None => sd[q] # sd[o]
    BY <2>1 DEF Own
  <2>3. ASSUME NEW q \in Obj, opened'[q] # None
        PROVE  sd'[q] # Failed /\ table'[sd'[q]] = opened'[q] /\ sock'[opened'[q]].obj = q
    BY <2>1, <2>2, <2>3 DEF Close, TypeOK, Own, Number, Set, None
  <2>4. ASSUME NEW q \in Obj, NEW k \in Thread, q \notin moved', th'[q][k].at # "none"
        PROVE  opened'[q] # None /\ (th'[q][k].at = "recv" => th'[q][k].sock = opened'[q])
    BY <2>1, <2>4 DEF Close, TypeOK, Own, Set, Running
  <2> QED
    BY <2>3, <2>4 DEF Own
<1>4. Filling'
  BY DEF TypeOK, Filling, Close, Set
<1>5. Answering'
  BY DEF TypeOK, Answering, Close, OneHandler, Peer, Dests, addrs
<1>6. AnswersReachAsker'
  BY DEF TypeOK, AnswersReachAsker, Close, OneHandler
<1>7. ClientKeepsServer'
  BY DEF TypeOK, ClientKeepsServer, Close, Set, Addr, addrs
<1> QED
  BY <1>1, <1>2, <1>3, <1>4, <1>5, <1>6, <1>7
-----------------------------------------------------------------------------
\* What sendto adds.
LEMMA SendFacts ==
  ASSUME TypeOK, NEW o \in Obj, NEW asker \in Address \cup {None}, SendTo(o, asker)
  PROVE  /\ net' \subseteq Datagram /\ IsFiniteSet(net') /\ Cardinality(net') <= MaxSends
         /\ \E d : net' = net \cup {d} /\ d.by = o /\ d.asker = asker /\ d.dst \in Dests(o)
<1>1. Cardinality(net) < MaxSends /\ Behind(o) # None
  BY DEF SendTo
<1>2. PICK dst \in Dests(o) :
        net' = net \cup {[id |-> Cardinality(net) + 1, src |-> Addr(Behind(o)), dst |-> dst,
                         by |-> o, asker |-> asker]}
  BY DEF SendTo
<1> DEFINE d == [id |-> Cardinality(net) + 1, src |-> Addr(Behind(o)), dst |-> dst,
                 by |-> o, asker |-> asker]
<1>3. net' = net \cup {d}
  BY <1>2
<1>4. Cardinality(net) \in Nat /\ IsFiniteSet(net) /\ net \subseteq Datagram
  BY FS_CardinalityType DEF TypeOK
<1>5. Behind(o) \in 1 .. Len(sock)
  BY <1>1 DEF TypeOK, Behind
<1>6. dst \in Address
  BY DEF TypeOK, Peer, Dests, Address
<1>7. d \in Datagram
  <2>1. Cardinality(net) + 1 \in 1 .. MaxSends
    BY <1>1, <1>4
  <2> QED
    BY <1>5, <1>6, <2>1, AddrFacts DEF Datagram
<1>8. IsFiniteSet(net') /\ Cardinality(net') <= Cardinality(net) + 1
  <2> HIDE DEF d
  <2>1. /\ IsFiniteSet(net \cup {d})
        /\ Cardinality(net \cup {d}) = IF d \in net THEN Cardinality(net) ELSE Cardinality(net) + 1
    BY <1>4, FS_AddElement
  <2> QED
    BY <1>3, <1>4, <2>1
<1>9. Cardinality(net') <= MaxSends
  <2>1. Cardinality(net') \in Nat
    BY <1>8, FS_CardinalityType
  <2> QED
    BY <1>1, <1>4, <1>8, <2>1
<1> QED
  BY <1>2, <1>3, <1>4, <1>7, <1>8, <1>9

\* One handler gets from one state to another.
LEMMA HandlerMoves ==
  ASSUME TypeOK, NEW o \in Obj, NEW k \in Thread, NEW h \in HandlerState',
         th' = [th EXCEPT ![o][k] = h],
         net \subseteq net', sock' = sock
  PROVE  th' \in [Obj -> [Thread -> HandlerState']]
<1>1. \A g \in HandlerState : g \in HandlerState'
  BY DEF HandlerState
<1> QED
  BY <1>1 DEF TypeOK

LEMMA SendInv ==
  ASSUME IInv, NEW o \in Obj, Send(o)
  PROVE  IInv'
<1> USE DEF IInv
<1>1. SendTo(o, None) /\ UNCHANGED <<sockets, addrs, buf, th, joinable>>
  BY DEF Send
<1>2. UNCHANGED <<table, sock, sd, type, opened, port, odd, moved, server_isa, client_isa>>
  BY <1>1 DEF sockets, addrs
<1>3. PICK d : net' = net \cup {d} /\ d.asker = None
  BY <1>1, SendFacts
<1>4. TypeOK'
  <2>1. net' \subseteq Datagram /\ IsFiniteSet(net') /\ Cardinality(net') <= MaxSends
    BY <1>1, SendFacts
  <2>2. th' \in [Obj -> [Thread -> HandlerState']]
    BY <1>1, <1>2, <1>3, HandlersKeep DEF TypeOK
  <2>3. buf' \in [Obj -> net' \cup {NoDatagram}]
    BY <1>1, <1>3 DEF TypeOK
  <2> QED
    BY <1>1, <1>2, <2>1, <2>2, <2>3 DEF TypeOK
<1>5. Parsing' /\ Own' /\ Filling' /\ Answering'
  BY <1>1, <1>2, <1>3 DEF Parsing, Own, Filling, Answering, OneHandler, Peer, Dests
<1>6. AnswersReachAsker'
  BY <1>1, <1>2, <1>3 DEF AnswersReachAsker, OneHandler
<1>7. ClientKeepsServer'
  BY <1>2, <1>3 DEF ClientKeepsServer, Addr
<1> QED
  BY <1>4, <1>5, <1>6, <1>7
-----------------------------------------------------------------------------
LEMMA RecvCallInv ==
  ASSUME IInv, NEW o \in Obj, NEW k \in Thread, RecvCall(o, k)
  PROVE  IInv'
<1> USE DEF IInv
<1> DEFINE h == [at |-> "recv", sock |-> Behind(o), got |-> NoDatagram,
                 fills |-> IF type[o] = "server" THEN "client_isa" ELSE "server_isa"]
<1>1. /\ th[o][k].at = "call" /\ Behind(o) # None /\ th' = [th EXCEPT ![o][k] = h]
      /\ UNCHANGED <<table, sock, sd, type, opened, port, odd, moved, server_isa, client_isa>>
      /\ UNCHANGED <<buf, joinable, net>>
  BY DEF RecvCall, sockets, addrs
<1>2. Behind(o) \in 1 .. Len(sock) /\ h.sock = Behind(o)
  BY <1>1 DEF TypeOK, Behind
<1>3. h \in HandlerState'
  BY <1>1, <1>2 DEF HandlerState
<1> HIDE DEF h
<1>4. /\ th' \in [Obj -> [Thread -> HandlerState']]
      /\ \A q \in Obj, l \in Thread : th'[q][l] = IF q = o /\ l = k THEN h ELSE th[q][l]
  <2>1. TypeOK /\ net \subseteq net' /\ sock' = sock /\ th' = [th EXCEPT ![o][k] = h]
    BY <1>1
  <2>2. h \in HandlerState'
    BY <1>3
  <2>3. th' \in [Obj -> [Thread -> HandlerState']]
    BY <2>1, <2>2, HandlerMoves
  <2>4. \A q \in Obj, l \in Thread : th'[q][l] = IF q = o /\ l = k THEN h ELSE th[q][l]
    BY <2>1 DEF TypeOK
  <2> QED
    BY <2>3, <2>4
<1>5. h.at = "recv" /\ h.fills = IF type[o] = "server" THEN "client_isa" ELSE "server_isa"
  BY DEF h
<1>6. TypeOK'
  BY <1>1, <1>4 DEF TypeOK
<1>7. Parsing'
  BY <1>1, <1>4, <1>5 DEF Parsing
<1>8. Own'
  BY <1>1, <1>2, <1>4, <1>5 DEF Own, Behind
<1>9. Filling'
  BY <1>1, <1>4, <1>5 DEF Filling
<1>10. \A q \in Obj : OneHandler(q)' => OneHandler(q)
  BY <1>1, <1>4, <1>5 DEF OneHandler, Thread
<1>11. Answering'
  BY <1>1, <1>4, <1>5, <1>10 DEF Answering, Peer, Dests, Thread
<1>12. AnswersReachAsker'
  BY <1>1, <1>4, <1>5, <1>10 DEF AnswersReachAsker, TypeOK, Datagram, Thread
<1>13. ClientKeepsServer'
  BY <1>1 DEF ClientKeepsServer, Addr
<1> QED
  BY <1>6, <1>7, <1>8, <1>9, <1>11, <1>12, <1>13

LEMMA RecvInv ==
  ASSUME IInv, NEW o \in Obj, NEW k \in Thread, Recv(o, k)
  PROVE  IInv'
<1> USE DEF IInv
<1>1. PICK d \in net :
        /\ d.dst = Addr(th[o][k].sock)
        /\ buf' = Set(buf, o, d)
        /\ th' = [th EXCEPT ![o][k] = [at |-> "parse", sock |-> None, fills |-> "none", got |-> d]]
        /\ IF th[o][k].fills = "client_isa"
             THEN client_isa' = Set(client_isa, o, d.src) /\ UNCHANGED server_isa
             ELSE server_isa' = Set(server_isa, o, d.src) /\ UNCHANGED client_isa
  BY DEF Recv
<1>2. th[o][k].at = "recv" /\ UNCHANGED <<table, sock, sd, type, opened, port, odd, moved, joinable, net>>
  BY DEF Recv, sockets
<1> DEFINE h == [at |-> "parse", sock |-> None, fills |-> "none", got |-> d]
<1>3. h \in HandlerState'
  BY <1>2 DEF HandlerState, TypeOK, None
<1>4. h.at = "parse" /\ h.got = d /\ d.src \in Address
  BY DEF TypeOK, Datagram
<1>5. th' = [th EXCEPT ![o][k] = h]
  BY <1>1
<1> HIDE DEF h
<1>6. /\ th' \in [Obj -> [Thread -> HandlerState']]
      /\ \A q \in Obj, l \in Thread : th'[q][l] = IF q = o /\ l = k THEN h ELSE th[q][l]
  <2>1. TypeOK /\ net \subseteq net' /\ sock' = sock /\ th' = [th EXCEPT ![o][k] = h]
    BY <1>2, <1>5
  <2>2. h \in HandlerState'
    BY <1>3
  <2>3. th' \in [Obj -> [Thread -> HandlerState']]
    BY <2>1, <2>2, HandlerMoves
  <2>4. \A q \in Obj, l \in Thread : th'[q][l] = IF q = o /\ l = k THEN h ELSE th[q][l]
    BY <2>1 DEF TypeOK
  <2> QED
    BY <2>3, <2>4
<1>7. \A q \in Obj : /\ buf'[q] = IF q = o THEN d ELSE buf[q]
                     /\ q # o => server_isa'[q] = server_isa[q] /\ client_isa'[q] = client_isa[q]
  BY <1>1 DEF TypeOK, Set
<1>8. IF th[o][k].fills = "client_isa"
        THEN client_isa'[o] = d.src /\ server_isa' = server_isa
        ELSE server_isa'[o] = d.src /\ client_isa' = client_isa
  BY <1>1 DEF TypeOK, Set
<1>9. TypeOK'
  <2>1. buf' \in [Obj -> net' \cup {NoDatagram}]
    BY <1>1, <1>2 DEF TypeOK, Set
  <2>2. server_isa' \in [Obj -> Address \cup {None}] /\ client_isa' \in [Obj -> Address \cup {None}]
    BY <1>1, <1>4 DEF TypeOK, Set
  <2> QED
    BY <1>2, <1>6, <2>1, <2>2 DEF TypeOK
<1>10. Parsing'
  BY <1>2, <1>4, <1>6 DEF Parsing
<1>11. Own'
  BY <1>2, <1>4, <1>6 DEF Own
<1>12. Filling'
  BY <1>2, <1>4, <1>6 DEF Filling
<1>13. \A q \in Obj : OneHandler(q)' => OneHandler(q) /\ (q = o => k = 1)
  BY <1>4, <1>6 DEF OneHandler, Thread
<1>14. Answering'
  <2> SUFFICES ASSUME NEW q \in Obj, q \notin moved', OneHandler(q)', th'[q][1].at = "parse"
               PROVE  Dests(q)' = {th'[q][1].got.src}
    BY DEF Answering
  <2>1. CASE q = o
    <3>1. th[o][1].fills = IF type[o] = "server" THEN "client_isa" ELSE "server_isa"
      BY <1>2, <1>13, <2>1 DEF Filling, Thread
    <3>2. Peer(o)' = d.src /\ d.src # None
      BY <1>2, <1>4, <1>8, <1>13, <2>1, <3>1, NoneIsNoAddress DEF Peer
    <3>3. th'[o][1] = h
      BY <1>6, <1>13, <2>1 DEF Thread
    <3> QED
      BY <1>4, <2>1, <3>2, <3>3 DEF Dests
  <2>2. CASE q # o
    <3>1. Dests(q)' = Dests(q)
      BY <1>2, <1>7, <2>2 DEF Peer, Dests
    <3>2. th'[q][1] = th[q][1] /\ OneHandler(q)
      BY <1>6, <1>13, <2>2 DEF Thread
    <3> QED
      BY <1>2, <3>1, <3>2 DEF Answering
  <2> QED
    BY <2>1, <2>2
<1>15. AnswersReachAsker'
  <2>1. \A e \in net' : e.asker # None /\ OneHandler(e.by)' /\ e.by \notin moved' => e.dst = e.asker
    BY <1>2, <1>13 DEF AnswersReachAsker, TypeOK, Datagram
  <2>2. \A q \in Obj : OneHandler(q)' /\ th'[q][1].at = "parse" => buf'[q] = th'[q][1].got
    BY <1>4, <1>6, <1>7, <1>13 DEF AnswersReachAsker, Thread
  <2> QED
    BY <2>1, <2>2 DEF AnswersReachAsker
<1>16. ClientKeepsServer'
  <2> SUFFICES ASSUME odd' = {}, NEW q \in Obj, type'[q] = "client", opened'[q] # None,
                      q \notin moved'
               PROVE  \/ server_isa'[q] = port'[q]
                      \/ \E e \in net' : e.src = server_isa'[q] /\ e.dst = Addr(opened[q])'
    BY DEF ClientKeepsServer
  <2>1. \A s : Addr(s)' = Addr(s)
    BY <1>2 DEF Addr
  <2>2. CASE q = o
    <3>1. th[o][k].sock = opened[o] /\ th[o][k].fills = "server_isa"
      BY <1>2, <2>2 DEF Own, Filling
    <3> QED
      BY <1>1, <1>2, <1>8, <2>1, <2>2, <3>1
  <2>3. CASE q # o
    BY <1>2, <1>7, <2>1, <2>3 DEF ClientKeepsServer
  <2> QED
    BY <2>2, <2>3
<1> QED
  BY <1>9, <1>10, <1>11, <1>12, <1>14, <1>15, <1>16
-----------------------------------------------------------------------------
LEMMA IdleFacts ==
  /\ [Idle EXCEPT !.at = "call"] \in HandlerState
  /\ [Idle EXCEPT !.at = "call"].at = "call" /\ [Idle EXCEPT !.at = "call"].sock = None
  BY DEF Idle, HandlerState, None

\* The handler parses, and may answer.
LEMMA ParseInv ==
  ASSUME IInv, NEW o \in Obj, NEW k \in Thread, Parse(o, k)
  PROVE  IInv'
<1> USE DEF IInv
<1> DEFINE h == [Idle EXCEPT !.at = "call"]
<1>1. /\ th[o][k].at = "parse" /\ th' = [th EXCEPT ![o][k] = h]
      /\ UNCHANGED <<table, sock, sd, type, opened, port, odd, moved, server_isa, client_isa>>
      /\ UNCHANGED <<buf, joinable>>
      /\ SendTo(o, th[o][k].got.src) \/ net' = net
  BY DEF Parse, Call, sockets, addrs
<1>2. th[o][k].got.src \in Address
  BY <1>1 DEF Parsing, TypeOK, Datagram
<1>3. net \subseteq net' /\ net' \subseteq Datagram /\ IsFiniteSet(net') /\ Cardinality(net') <= MaxSends
  BY <1>1, <1>2, SendFacts DEF TypeOK
<1>4. \A d \in net' \ net : d.by = o /\ d.asker = th[o][k].got.src /\ d.dst \in Dests(o)
  BY <1>1, <1>2, SendFacts
<1>5. h \in HandlerState' /\ h.at = "call" /\ h.sock = None
  BY IdleFacts, <1>1, <1>3 DEF HandlerState
<1> HIDE DEF h
<1>6. /\ th' \in [Obj -> [Thread -> HandlerState']]
      /\ \A q \in Obj, l \in Thread : th'[q][l] = IF q = o /\ l = k THEN h ELSE th[q][l]
  <2>1. TypeOK /\ net \subseteq net' /\ sock' = sock /\ th' = [th EXCEPT ![o][k] = h]
    BY <1>1, <1>3
  <2>2. h \in HandlerState'
    BY <1>5
  <2>3. th' \in [Obj -> [Thread -> HandlerState']]
    BY <2>1, <2>2, HandlerMoves
  <2>4. \A q \in Obj, l \in Thread : th'[q][l] = IF q = o /\ l = k THEN h ELSE th[q][l]
    BY <2>1 DEF TypeOK
  <2> QED
    BY <2>3, <2>4
<1>7. TypeOK'
  BY <1>1, <1>3, <1>6 DEF TypeOK
<1>8. Parsing'
  BY <1>3, <1>5, <1>6 DEF Parsing
<1>9. Own'
  BY <1>1, <1>5, <1>6 DEF Own
<1>10. Filling'
  BY <1>1, <1>5, <1>6 DEF Filling
<1>11. \A q \in Obj : OneHandler(q)' => OneHandler(q) /\ (q = o => k = 1)
  BY <1>5, <1>6 DEF OneHandler, Thread
<1>12. Answering'
  BY <1>1, <1>5, <1>6, <1>11 DEF Answering, Peer, Dests, Thread
<1>13. AnswersReachAsker'
  <2>1. ASSUME NEW d \in net', d.asker # None, OneHandler(d.by)', d.by \notin moved'
        PROVE  d.dst = d.asker
    <3>1. CASE d \in net
      BY <1>1, <1>3, <1>11, <2>1, <3>1 DEF AnswersReachAsker, Datagram
    <3>2. CASE d \notin net
      BY <1>1, <1>4, <1>11, <2>1, <3>2 DEF Answering
    <3> QED
      BY <3>1, <3>2
  <2>2. \A q \in Obj : OneHandler(q)' /\ th'[q][1].at = "parse" => buf'[q] = th'[q][1].got
    BY <1>1, <1>5, <1>6, <1>11 DEF AnswersReachAsker, Thread
  <2> QED
    BY <2>1, <2>2 DEF AnswersReachAsker
<1>14. ClientKeepsServer'
  BY <1>1, <1>3 DEF ClientKeepsServer, Addr
<1> QED
  BY <1>7, <1>8, <1>9, <1>10, <1>12, <1>13, <1>14

LEMMA HandlerStartInv ==
  ASSUME IInv, NEW o \in Obj, HandlerStart(o)
  PROVE  IInv'
<1> USE DEF IInv
<1> DEFINE h == [Idle EXCEPT !.at = "call"]
<1>1. PICK k \in Thread :
        /\ th[o][k].at = "none" /\ th' = [th EXCEPT ![o][k] = h]
        /\ joinable' = Set(joinable, o, k)
  BY DEF HandlerStart, Call
<1>2. /\ UNCHANGED <<table, sock, sd, type, opened, port, odd, server_isa, client_isa, buf, net>>
      /\ moved' = IF opened[o] = None THEN moved \cup {o} ELSE moved
  BY DEF HandlerStart, addrs
<1>3. h \in HandlerState' /\ h.at = "call" /\ h.sock = None
  BY IdleFacts, <1>2 DEF HandlerState
<1> HIDE DEF h
<1>4. /\ th' \in [Obj -> [Thread -> HandlerState']]
      /\ \A q \in Obj, l \in Thread : th'[q][l] = IF q = o /\ l = k THEN h ELSE th[q][l]
  <2>1. TypeOK /\ net \subseteq net' /\ sock' = sock /\ th' = [th EXCEPT ![o][k] = h]
    BY <1>1, <1>2
  <2>2. h \in HandlerState'
    BY <1>3
  <2>3. th' \in [Obj -> [Thread -> HandlerState']]
    BY <2>1, <2>2, HandlerMoves
  <2>4. \A q \in Obj, l \in Thread : th'[q][l] = IF q = o /\ l = k THEN h ELSE th[q][l]
    BY <2>1 DEF TypeOK
  <2> QED
    BY <2>3, <2>4
<1>5. joinable' \in [Obj -> Thread \cup {0}] /\ moved' \subseteq Obj /\ moved \subseteq moved'
  BY <1>1, <1>2 DEF TypeOK, Set
<1>6. TypeOK'
  BY <1>2, <1>4, <1>5 DEF TypeOK
<1>7. Parsing'
  BY <1>2, <1>3, <1>4 DEF Parsing
<1>8. Own'
  BY <1>2, <1>3, <1>4, <1>5 DEF Own
<1>9. Filling'
  BY <1>2, <1>3, <1>4, <1>5 DEF Filling
<1>10. \A q \in Obj : OneHandler(q)' => OneHandler(q)
  BY <1>1, <1>3, <1>4 DEF OneHandler, Thread
<1>11. Answering'
  BY <1>2, <1>3, <1>4, <1>5, <1>10 DEF Answering, Peer, Dests, Thread
<1>12. AnswersReachAsker'
  <2>1. \A d \in net' : d.asker # None /\ OneHandler(d.by)' /\ d.by \notin moved' => d.dst = d.asker
    BY <1>2, <1>5, <1>10 DEF AnswersReachAsker, TypeOK, Datagram
  <2>2. \A q \in Obj : OneHandler(q)' /\ th'[q][1].at = "parse" => buf'[q] = th'[q][1].got
    BY <1>2, <1>3, <1>4, <1>10 DEF AnswersReachAsker, Thread
  <2> QED
    BY <2>1, <2>2 DEF AnswersReachAsker
<1>13. ClientKeepsServer'
  BY <1>2, <1>5 DEF ClientKeepsServer, Addr
<1> QED
  BY <1>6, <1>7, <1>8, <1>9, <1>11, <1>12, <1>13

\* What is said of handlers and addresses is not about the thread to join.
LEMMA HandlerStopInv ==
  ASSUME IInv, NEW o \in Obj, HandlerStop(o)
  PROVE  IInv'
<1> USE DEF IInv
<1>1. joinable' = Set(joinable, o, 0) /\ UNCHANGED <<table, sock, sd, type, opened, port, odd, moved>>
      /\ UNCHANGED <<server_isa, client_isa, buf, th, net>>
  BY DEF HandlerStop, sockets, addrs
<1>2. TypeOK'
  <2>1. HandlerState' = HandlerState
    BY <1>1 DEF HandlerState
  <2>2. joinable' \in [Obj -> Thread \cup {0}]
    BY <1>1 DEF TypeOK, Set
  <2> QED
    BY <1>1, <2>1, <2>2 DEF TypeOK
<1>3. Parsing' /\ Own' /\ Filling' /\ Answering'
  BY <1>1 DEF Parsing, Own, Filling, Answering, OneHandler, Peer, Dests
<1>4. AnswersReachAsker' /\ ClientKeepsServer'
  BY <1>1 DEF AnswersReachAsker, ClientKeepsServer, OneHandler, Addr
<1> QED
  BY <1>2, <1>3, <1>4
-----------------------------------------------------------------------------
\* One step per action.
LEMMA NextInv == IInv /\ [Next]_vars => IInv'
<1> SUFFICES ASSUME IInv, [Next]_vars PROVE IInv'
  OBVIOUS
<1>1. CASE UNCHANGED vars
  <2>1. UNCHANGED <<table, sock, sd, type, opened, port, odd, moved, joinable>>
        /\ UNCHANGED <<server_isa, client_isa, buf, th, net>>
    BY <1>1 DEF vars
  <2>2. TypeOK'
    <3>1. HandlerState' = HandlerState
      BY <2>1 DEF HandlerState
    <3> QED
      BY <2>1, <3>1 DEF IInv, TypeOK
  <2>3. Parsing' /\ Own' /\ Filling' /\ Answering'
    BY <2>1 DEF IInv, Parsing, Own, Filling, Answering, OneHandler, Peer, Dests
  <2>4. AnswersReachAsker' /\ ClientKeepsServer'
    BY <2>1 DEF IInv, AnswersReachAsker, ClientKeepsServer, OneHandler, Addr
  <2> QED
    BY <2>2, <2>3, <2>4 DEF IInv
<1>2. ASSUME NEW o \in Obj, Connect(o) PROVE IInv'
  BY <1>2, SocketInv DEF Connect
<1>3. ASSUME NEW o \in Obj, Create(o) PROVE IInv'
  <2>1. PICK p \in Port, bound \in Port \cup {None} : Socket(o, "server", bound, p)
    BY <1>3 DEF Create
  <2> QED
    BY <1>3, <2>1, SocketInv DEF Create
<1>4. ASSUME NEW o \in Obj, Close(o) PROVE IInv'
  BY <1>4, CloseInv
<1>5. ASSUME NEW o \in Obj, Send(o) PROVE IInv'
  BY <1>5, SendInv
<1>6. ASSUME NEW o \in Obj, NEW k \in Thread, RecvCall(o, k) PROVE IInv'
  BY <1>6, RecvCallInv
<1>7. ASSUME NEW o \in Obj, NEW k \in Thread, Recv(o, k) PROVE IInv'
  BY <1>7, RecvInv
<1>8. ASSUME NEW o \in Obj, NEW k \in Thread, Parse(o, k) PROVE IInv'
  BY <1>8, ParseInv
<1>9. ASSUME NEW o \in Obj, HandlerStart(o) PROVE IInv'
  BY <1>9, HandlerStartInv
<1>10. ASSUME NEW o \in Obj, HandlerStop(o) PROVE IInv'
  BY <1>10, HandlerStopInv
<1> QED
  BY <1>1, <1>2, <1>3, <1>4, <1>5, <1>6, <1>7, <1>8, <1>9, <1>10 DEF Next, Open, Handler

\* The invariant holds in every state.
THEOREM Invariance == Spec => []IInv
  BY InitInv, NextInv, PTL DEF Spec

\* Every variable has its type, whatever is sent and however often.
THEOREM TypeCorrect == Spec => []TypeOK
<1>1. IInv => TypeOK
  BY DEF IInv
<1> QED
  BY <1>1, Invariance, PTL

\* What the parser of pm_handler sends goes to whoever sent what it parses.
THEOREM AnswersArrive == Spec => []AnswersReachAsker
<1>1. IInv => AnswersReachAsker
  BY DEF IInv
<1> QED
  BY <1>1, Invariance, PTL

\* pm_recv_udp turns a client only to ports that have written to its socket.
THEOREM ClientsKeep == Spec => []ClientKeepsServer
<1>1. IInv => ClientKeepsServer
  BY DEF IInv
<1> QED
  BY <1>1, Invariance, PTL

\* The number in sd stands for the socket the object opened, and its handler is in
\* a socket of the object.
THEOREM SocketsAreOwn == Spec => []OwnSocket
<1>1. IInv => OwnSocket
  <2> SUFFICES ASSUME IInv, odd = {} PROVE OwnSocket
    BY DEF OwnSocket
  <2>1. \A o \in Obj : opened[o] # None => table[sd[o]] = opened[o] /\ sock[opened[o]].obj = o
    BY DEF IInv, Own
  <2>2. ASSUME moved = {}, NEW o \in Obj, NEW k \in Thread, th[o][k].at = "recv"
        PROVE  sock[th[o][k].sock].obj = o
    BY <2>1, <2>2 DEF IInv, Own
  <2> QED
    BY <2>1, <2>2 DEF OwnSocket
<1> QED
  BY <1>1, Invariance, PTL
=============================================================================
