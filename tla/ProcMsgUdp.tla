----------------------------- MODULE ProcMsgUdp -----------------------------
(***************************************************************************)
(* proc_msg_udp.cpp and the handler of proc_msg.cpp: the pm objects of a   *)
(* process, each with the number of a descriptor, and the datagrams they   *)
(* exchange.  A server answers whoever client_isa names, a client writes   *)
(* to server_isa, and every recvfrom overwrites one of them.               *)
(*                                                                         *)
(* Objects of several processes differ from those of one in that they do   *)
(* not share descriptors, so that one process shows everything.  Addresses *)
(* are well-formed; pm_handler_start on a running handler, and             *)
(* pm_handler_stop without one, end the process: see ProcMsgQueue.  The    *)
(* filter given to pm_handler_start is not used.  A handler whose recvfrom *)
(* fails calls the parser without data and goes on, which changes nothing. *)
(***************************************************************************)
EXTENDS Integers, Sequences, FiniteSets, FiniteSetsExt

CONSTANTS
  Obj,                   \* pm objects
  Port,                  \* ports that they are created on and connected to
  Fd,                    \* descriptors that are free at first
  Garbage,               \* addresses that memory may hold that is not written yet
  MaxSockets, MaxSends   \* bounds

ASSUME UdpAssumption ==
  /\ Port \subseteq Nat \ {0} /\ Fd \subseteq Nat \ {0} /\ IsFiniteSet(Fd)
  /\ Garbage \subseteq Port
  /\ MaxSockets \in Nat /\ MaxSends \in Nat

Thread == 1 .. 2    \* handlers that one object ever has: a bound

None   == 0         \* no socket, no address yet
Stdin  == -1        \* what descriptor 0 is at first
Failed == -1        \* what socket returns when no descriptor is free

VARIABLES
  table,        \* what each descriptor stands for
  sock,         \* sockets made so far: the port they are bound to, their object
  sd, type,     \* of each object
  server_isa, client_isa,
  buf,          \* pmsg: the datagram it holds
  th,           \* the handler threads of each object
  joinable,     \* the thread that thread_handler stands for, 0 if none
  net,          \* datagrams sent: each may arrive late, often or never
  opened,       \* history: the socket an object opened and has not closed
  port,         \* history: the port it was last connected to or created on
  odd,          \* history: objects that were closed when they were not open
  moved         \* history: objects opened or closed with a handler running, or
                \* given a handler when they were not open

vars == <<table, sock, sd, type, server_isa, client_isa, buf, th, joinable, net,
          opened, port, odd, moved>>

sockets == <<table, sock, sd, type, opened, port, odd, moved>>
addrs   == <<server_isa, client_isa>>

\* The address of a socket: its port, or a number that the kernel gives it.
Addr(s) == IF sock[s].port # None THEN sock[s].port ELSE -s
Address == Port \cup {-s : s \in 1 .. MaxSockets}

Datagram == [id : 1 .. MaxSends, src : Address, dst : Address,
             by : Obj, asker : Address \cup {None}]
NoDatagram == [id |-> 0]

\* A thread inside recvfrom is in a socket, and will fill in one address.
Idle == [at |-> "none", sock |-> None, fills |-> "none", got |-> NoDatagram]

BoundSocket == [port : Port \cup {None}, obj : Obj]

\* What a handler can be in: it knows the sockets made and the datagrams sent so far.
HandlerState ==
  {h \in [at : {"none", "call", "recv", "parse"}, sock : 0 .. Len(sock),
          fills : {"none", "server_isa", "client_isa"}, got : net \cup {NoDatagram}] :
     h.at = "recv" <=> h.sock # None}

TypeOK ==
  /\ table \in [Fd \cup {0} -> {Stdin, None} \cup 1 .. Len(sock)]
  /\ sock \in Seq(BoundSocket) /\ Len(sock) <= MaxSockets
  /\ sd \in [Obj -> Fd \cup {0, Failed}] /\ type \in [Obj -> {"none", "server", "client"}]
  /\ server_isa \in [Obj -> Address \cup {None}]
  /\ client_isa \in [Obj -> Address \cup {None}]
  /\ buf \in [Obj -> net \cup {NoDatagram}]
  /\ th \in [Obj -> [Thread -> HandlerState]]
  /\ joinable \in [Obj -> Thread \cup {0}]
  /\ net \subseteq Datagram /\ IsFiniteSet(net) /\ Cardinality(net) <= MaxSends
  /\ opened \in [Obj -> 0 .. Len(sock)] /\ port \in [Obj -> Port \cup {None}]
  /\ odd \subseteq Obj /\ moved \subseteq Obj

Init ==
  /\ table = [f \in Fd \cup {0} |-> IF f = 0 THEN Stdin ELSE None]
  /\ sock = <<>>
  /\ sd = [o \in Obj |-> 0] /\ type = [o \in Obj |-> "none"]
  /\ server_isa = [o \in Obj |-> None] /\ client_isa = [o \in Obj |-> None]
  /\ buf = [o \in Obj |-> NoDatagram]
  /\ th = [o \in Obj |-> [k \in Thread |-> Idle]]
  /\ joinable = [o \in Obj |-> 0]
  /\ net = {}
  /\ opened = [o \in Obj |-> None] /\ port = [o \in Obj |-> None]
  /\ odd = {} /\ moved = {}

Set(f, a, v) == [f EXCEPT ![a] = v]

Running(o) == \E k \in Thread : th[o][k].at # "none"

\* A socket lives as long as a descriptor stands for it, or a thread is in it.
Alive(s) ==
  \/ \E f \in DOMAIN table : table[f] = s
  \/ \E o \in Obj, k \in Thread : th[o][k].at = "recv" /\ th[o][k].sock = s
-----------------------------------------------------------------------------
(* pm_connect_udp, pm_create_udp, pm_close_udp *)

Free == {f \in DOMAIN table : table[f] = None}

\* Variant: server_isa is left as it is.
AimedBefore(o, p) == server_isa

Aimed(o, p) == Set(server_isa, o, p)

\* socket: the type is set before, and stays if there is no descriptor.  An
\* object that is open forgets the socket it had.
Socket(o, kind, bound, p) ==
  /\ type' = Set(type, o, kind)
  /\ moved' = IF Running(o) THEN moved \cup {o} ELSE moved
  /\ IF Free = {}
       THEN /\ sd' = Set(sd, o, Failed)
            /\ opened' = Set(opened, o, None)
            /\ UNCHANGED <<table, sock, server_isa, port>>
       ELSE /\ sd' = Set(sd, o, Min(Free))
            /\ sock' = Append(sock, [port |-> bound, obj |-> o])
            /\ table' = Set(table, Min(Free), Len(sock'))
            /\ opened' = Set(opened, o, Len(sock'))
            /\ port' = Set(port, o, p)
            /\ server_isa' = Aimed(o, p)
  /\ UNCHANGED <<client_isa, buf, th, joinable, net, odd>>

Connect(o) ==
  /\ Len(sock) < MaxSockets
  /\ \E p \in Port : Socket(o, "client", None, p)

\* bind fails if the port is taken, be it by a socket that has been closed with
\* a thread in it: the object is a server then, with a socket that has no port.
Create(o) ==
  /\ Len(sock) < MaxSockets
  /\ \E p \in Port :
       LET taken == \E s \in 1 .. Len(sock) : Alive(s) /\ sock[s].port = p
       IN  Socket(o, "server", IF taken THEN None ELSE p, p)

\* Variant: the number is that of the socket made last.
LastNumber(o) == Max({f \in DOMAIN table : table[f] = Max({table[g] : g \in DOMAIN table})})

Number(o) == sd[o]

\* The object keeps the number, which the next socket may get; an object that
\* was never opened closes descriptor 0.
Close(o) ==
  /\ table' = IF sd[o] = Failed THEN table ELSE Set(table, Number(o), None)
  /\ opened' = Set(opened, o, None)
  /\ odd' = IF opened[o] = None THEN odd \cup {o} ELSE odd
  /\ moved' = IF Running(o) THEN moved \cup {o} ELSE moved
  /\ UNCHANGED <<sock, sd, type, addrs, buf, th, joinable, net, port>>
-----------------------------------------------------------------------------
(* pm_send_udp *)

\* The socket behind the number of an object, if there is one.
Behind(o) == IF sd[o] = Failed \/ table[sd[o]] = Stdin THEN None ELSE table[sd[o]]

\* Variant: both kinds of objects write to server_isa.
PeerServer(o) == server_isa[o]

Peer(o) == IF type[o] = "server" THEN client_isa[o] ELSE server_isa[o]

\* An address that nothing has been written to is what the memory holds.
Dests(o) == IF Peer(o) = None THEN Garbage ELSE {Peer(o)}

\* A send that has no socket, or an address that is none, changes nothing.
SendTo(o, asker) ==
  /\ Behind(o) # None
  /\ Cardinality(net) < MaxSends
  /\ \E dst \in Dests(o) :
       net' = net \cup {[id |-> Cardinality(net) + 1, src |-> Addr(Behind(o)),
                        dst |-> dst, by |-> o, asker |-> asker]}

\* Any thread but the handler's.
Send(o) ==
  /\ SendTo(o, None)
  /\ UNCHANGED <<sockets, addrs, buf, th, joinable>>
-----------------------------------------------------------------------------
(* pm_handler *)

Call(o, k) == th' = [th EXCEPT ![o][k] = [Idle EXCEPT !.at = "call"]]

\* recvfrom is called: what it is to fill in is settled, and the socket stays
\* the same whatever becomes of the descriptor.
RecvCall(o, k) ==
  /\ th[o][k].at = "call"
  /\ Behind(o) # None
  /\ th' = [th EXCEPT ![o][k] =
              [at |-> "recv", sock |-> Behind(o), got |-> NoDatagram,
               fills |-> IF type[o] = "server" THEN "client_isa" ELSE "server_isa"]]
  /\ UNCHANGED <<sockets, addrs, buf, joinable, net>>

\* A datagram for the socket arrives.
Recv(o, k) ==
  /\ th[o][k].at = "recv"
  /\ \E d \in net :
       /\ d.dst = Addr(th[o][k].sock)
       /\ buf' = Set(buf, o, d)
       /\ th' = [th EXCEPT ![o][k] = [at |-> "parse", sock |-> None, fills |-> "none", got |-> d]]
       /\ IF th[o][k].fills = "client_isa"
            THEN client_isa' = Set(client_isa, o, d.src) /\ UNCHANGED server_isa
            ELSE server_isa' = Set(server_isa, o, d.src) /\ UNCHANGED client_isa
  /\ UNCHANGED <<sockets, joinable, net>>

\* pm_handler_parser, which may answer.
Parse(o, k) ==
  /\ th[o][k].at = "parse"
  /\ Call(o, k)
  /\ SendTo(o, th[o][k].got.src) \/ UNCHANGED net
  /\ UNCHANGED <<sockets, addrs, buf, joinable>>

HandlerStart(o) ==
  /\ joinable[o] = 0
  /\ \E k \in Thread :
       /\ th[o][k].at = "none" /\ \A l \in 1 .. k - 1 : th[o][l].at # "none"
       /\ Call(o, k)
       /\ joinable' = Set(joinable, o, k)
  /\ moved' = IF opened[o] = None THEN moved \cup {o} ELSE moved
  /\ UNCHANGED <<table, sock, sd, type, opened, port, odd, addrs, buf, net>>

\* The thread is detached and runs on.
HandlerStop(o) ==
  /\ joinable[o] # 0
  /\ joinable' = Set(joinable, o, 0)
  /\ UNCHANGED <<sockets, addrs, buf, th, net>>
-----------------------------------------------------------------------------
Handler(o) == \E k \in Thread : RecvCall(o, k) \/ Recv(o, k) \/ Parse(o, k)
Open(o) == Connect(o) \/ Create(o) \/ Close(o)

Next == \E o \in Obj :
          Open(o) \/ Send(o) \/ Handler(o) \/ HandlerStart(o) \/ HandlerStop(o)

Spec == Init /\ [][Next]_vars
-----------------------------------------------------------------------------
OneHandler(o) == th[o][2].at = "none"

\* An answer sent from inside the parser goes to whoever sent the message that
\* is parsed, and the parser reads that message, as long as the object has one
\* handler and is not opened as something else under it.
AnswersReachAsker ==
  /\ \A d \in net : d.asker # None /\ OneHandler(d.by) /\ d.by \notin moved =>
       d.dst = d.asker
  /\ \A o \in Obj : OneHandler(o) /\ th[o][1].at = "parse" => buf[o] = th[o][1].got

\* A client writes to the port it was connected to, or to one that has written to
\* the socket it has now, unless it was connected anew with a handler running:
\* that handler is still in the old socket, and what comes there counts.  So it
\* is as long as only open objects are closed.
ClientKeepsServer ==
  odd = {} => \A o \in Obj : type[o] = "client" /\ opened[o] # None /\ o \notin moved =>
    \/ server_isa[o] = port[o]
    \/ \E d \in net : d.src = server_isa[o] /\ d.dst = Addr(opened[o])

\* An object that is open has the socket it opened, as long as only open objects
\* are closed; and its handler reads from a socket of its own, as long as no
\* object is opened or closed with a handler running.
OwnSocket ==
  odd = {} =>
    /\ \A o \in Obj : opened[o] # None => table[sd[o]] = opened[o]
    /\ moved = {} => \A o \in Obj, k \in Thread :
         th[o][k].at = "recv" => sock[th[o][k].sock].obj = o
=============================================================================
