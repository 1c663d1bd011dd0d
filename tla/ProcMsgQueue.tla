---------------------------- MODULE ProcMsgQueue ----------------------------
(***************************************************************************)
(* proc_msg.cpp and proc_msg_queue.cpp: processes with a pm object each    *)
(* that exchange messages over one System V queue, found through a file.   *)
(* A handler thread receives into the one buffer of its object, pmsg, and  *)
(* hands it to pm_handler_parser.                                          *)
(*                                                                         *)
(* A message is its number: what its text says is left out.                *)
(*                                                                         *)
(* A handler that finds its queue removed, or a message too old, calls the *)
(* parser without data and goes on: such a call changes nothing here.      *)
(***************************************************************************)
EXTENDS Integers, Sequences, SequencesExt

CONSTANTS
  Proc,
  Types,        \* types of messages
  Filters,      \* arguments of pm_handler_start; 0 takes every type
  Calls,        \* what processes also do: "close", "start", "stop", "wait"
  Inodes,       \* what a key file may be made on: ftok makes the key of it
  Capacity,     \* messages that fit the queue
  MaxSends, MaxQueues, MaxClock   \* bounds

ASSUME QueueAssumption ==
  /\ Types \subseteq Nat \ {0} /\ Filters \subseteq Types \cup {0}
  /\ Calls \subseteq {"close", "start", "stop", "wait"}
  /\ 0 \notin Inodes
  /\ Capacity \in Nat \ {0} /\ MaxSends \in Nat /\ MaxQueues \in Nat /\ MaxClock \in Nat

Thread == 1 .. 2    \* handlers that one object ever has: a bound

VARIABLES
  file,         \* the key file: its inode; 0 if absent
  queue,        \* queues made so far: key and messages
  present,      \* those not removed
  now,          \* time(), in seconds
  mq,           \* mq_id of each object, 0 if it has none
  ipckey,       \* what ftok returned, until msgget has used it; else 0
  server,       \* objects of type PM_TYPE_SERVER
  pc,           \* the caller of each object
  out,          \* the message it is sending
  filter,       \* msgtype_get
  buf,          \* pmsg: the message it holds
  th,           \* the threads of each object
  joinable,     \* the thread that thread_handler stands for, 0 if none
  stopped,      \* history: threads that pm_handler_stop was called for
  sent,         \* history: the senders of the messages stamped so far
  put,          \* history: messages that msgsnd put in a queue
  parsed,       \* history: what each object handed to pm_handler_parser
  old,          \* history: messages dropped because of their age
  crossed       \* history: servers have opened or closed across each other

vars == <<file, queue, present, now, mq, ipckey, server, pc, out, filter, buf, th, joinable,
          stopped, sent, put, parsed, old, crossed>>

kernel  == <<file, queue, present>>
objects == <<mq, ipckey, server>>
calls   == <<pc, out>>
threads == <<filter, th, joinable, stopped>>
history == <<sent, put, parsed, old, crossed>>

Message == [id : 1 .. MaxSends, type : Types, time : 0 .. MaxClock]
NoMessage == [id |-> 0]
Queue == [key : Inodes, msgs : Seq(Message)]

TypeOK ==
  /\ file \in Inodes \cup {0}
  /\ queue \in Seq(Queue) /\ Len(queue) <= MaxQueues
  /\ \A q \in 1 .. Len(queue) : Len(queue[q].msgs) <= Capacity
  /\ present \subseteq 1 .. Len(queue)
  /\ \A q, r \in present : queue[q].key = queue[r].key => q = r
  /\ now \in 0 .. MaxClock
  /\ mq \in [Proc -> 0 .. Len(queue)]
  /\ ipckey \in [Proc -> Inodes \cup {0}]
  /\ server \subseteq Proc
  /\ pc \in [Proc -> {"idle", "key", "get", "unlink", "sending", "waiting", "terminated"}]
  /\ out \in [Proc -> Message \cup {NoMessage}]
  /\ filter \in [Proc -> Types \cup {0}]
  /\ buf \in [Proc -> {0} \cup put]
  /\ th \in [Proc -> [Thread -> {"none", "recv", "parse"}]]
  /\ joinable \in [Proc -> {0} \cup Thread]
  /\ stopped \subseteq Proc \X Thread
  /\ sent \in Seq(Proc) /\ Len(sent) <= MaxSends
  /\ put \subseteq 1 .. Len(sent) /\ old \subseteq put
  /\ parsed \in [Proc -> Seq(put)]
  /\ crossed \in BOOLEAN

Init ==
  /\ file = 0 /\ queue = <<>> /\ present = {} /\ now = 0
  /\ mq = [p \in Proc |-> 0] /\ ipckey = [p \in Proc |-> 0] /\ server = {}
  /\ pc = [p \in Proc |-> "idle"]
  /\ out = [p \in Proc |-> NoMessage]
  /\ filter = [p \in Proc |-> 0]
  /\ buf = [p \in Proc |-> 0]
  /\ th = [p \in Proc |-> [k \in Thread |-> "none"]]
  /\ joinable = [p \in Proc |-> 0]
  /\ stopped = {}
  /\ sent = <<>> /\ put = {} /\ old = {}
  /\ parsed = [p \in Proc |-> <<>>] /\ crossed = FALSE

Set(f, a, v) == [f EXCEPT ![a] = v]
Idle(p) == pc[p] = "idle"

\* The queue that msgget finds under a key.
Under(key) == {q \in present : queue[q].key = key}

\* An object without a queue, or with one that somebody removed.
Unopened(p) == Idle(p) /\ mq[p] \notin present
-----------------------------------------------------------------------------
(* pm_create_queue, pm_connect_queue, pm_close_queue *)

\* A server inside pm_create or pm_close.
Busy(p) == p \in server /\ pc[p] \in {"key", "get", "unlink"}

Across(p) == \E q \in Proc \ {p} : Busy(q)

\* open: the file is made if it is absent, on an inode that may have been used before.
Create(p) ==
  /\ Unopened(p)
  /\ IF file = 0 THEN file' \in Inodes ELSE UNCHANGED file
  /\ server' = server \cup {p}
  /\ pc' = Set(pc, p, "key")
  /\ crossed' = (crossed \/ Across(p))
  /\ UNCHANGED <<queue, present, now, mq, ipckey, out, buf, threads, sent, put, parsed, old>>

\* open fails: the file is made without permissions, so that only root opens it again.
CreateFails(p) ==
  /\ Unopened(p)
  /\ server' = server \cup {p}
  /\ UNCHANGED <<kernel, now, mq, ipckey, calls, buf, threads, history>>

Connect(p) ==
  /\ Unopened(p)
  /\ server' = server \ {p}
  /\ pc' = Set(pc, p, "key")
  /\ UNCHANGED <<kernel, now, mq, ipckey, out, buf, threads, history>>

\* ftok, which needs the file: without it mq_id stays what it was.
Key(p) ==
  /\ pc[p] = "key"
  /\ ipckey' = Set(ipckey, p, file)
  /\ pc' = Set(pc, p, IF file # 0 THEN "get" ELSE "idle")
  /\ UNCHANGED <<kernel, now, mq, server, out, buf, threads, history>>

\* Variant: a client asks for a queue to be made as well.
MadeByAny(p) == Under(ipckey[p]) = {} /\ Len(queue) < MaxQueues

\* Variant: a queue is made although there is one under the key.
MadeAnew(p) == p \in server /\ Len(queue) < MaxQueues

\* msgget makes a queue only for a server, if there is none under the key.
Made(p) == p \in server /\ Under(ipckey[p]) = {} /\ Len(queue) < MaxQueues

Get(p) ==
  /\ pc[p] = "get"
  /\ \/ /\ Made(p)
        /\ queue' = Append(queue, [key |-> ipckey[p], msgs |-> <<>>])
        /\ present' = present \cup {Len(queue')}
        /\ mq' = Set(mq, p, Len(queue'))
     \/ /\ \E q \in Under(ipckey[p]) : mq' = Set(mq, p, q)
        /\ UNCHANGED <<queue, present>>
     \/ /\ Under(ipckey[p]) = {}
        /\ mq' = Set(mq, p, 0)
        /\ UNCHANGED <<queue, present>>
  /\ pc' = Set(pc, p, "idle") /\ ipckey' = Set(ipckey, p, 0)
  /\ UNCHANGED <<file, now, server, out, buf, threads, history>>

\* msgctl: whoever closes removes the queue for all.
Close(p) ==
  /\ "close" \in Calls
  /\ Idle(p) /\ mq[p] # 0
  /\ present' = present \ {mq[p]}
  /\ pc' = Set(pc, p, IF p \in server THEN "unlink" ELSE "idle")
  /\ crossed' = (crossed \/ (p \in server /\ (Across(p) \/ present' # {})))
  /\ UNCHANGED <<file, queue, now, objects, out, buf, threads, sent, put, parsed, old>>

\* A server removes the file, also when another server has made it anew.
Unlink(p) ==
  /\ pc[p] = "unlink"
  /\ file' = 0
  /\ pc' = Set(pc, p, "idle")
  /\ UNCHANGED <<queue, present, now, objects, out, buf, threads, history>>
-----------------------------------------------------------------------------
(* pm_send_queue *)

\* The time is taken before msgsnd, which may block.
Send(p) ==
  /\ Idle(p) /\ mq[p] # 0 /\ Len(sent) < MaxSends
  /\ sent' = Append(sent, p)
  /\ \E t \in Types :
       out' = Set(out, p, [id |-> Len(sent'), type |-> t, time |-> now])
  /\ pc' = Set(pc, p, "sending")
  /\ UNCHANGED <<kernel, now, objects, buf, threads, put, parsed, old, crossed>>


Room(p) == Len(queue[mq[p]].msgs) < Capacity

MsgSnd(p) ==
  /\ pc[p] = "sending" /\ mq[p] \in present
  /\ Room(p)
  /\ queue' = [queue EXCEPT ![mq[p]].msgs = Append(@, out[p])]
  /\ put' = put \cup {out[p].id}
  /\ pc' = Set(pc, p, "idle") /\ out' = Set(out, p, NoMessage)
  /\ UNCHANGED <<file, present, now, objects, buf, threads, sent, parsed, old, crossed>>

\* The queue is gone, or goes while the caller is blocked.
MsgSndFails(p) ==
  /\ pc[p] = "sending" /\ mq[p] \notin present
  /\ pc' = Set(pc, p, "idle") /\ out' = Set(out, p, NoMessage)
  /\ UNCHANGED <<kernel, now, objects, buf, threads, history>>
-----------------------------------------------------------------------------
(* pm_handler *)

Wants(p, m) == filter[p] \in {0, m.type}

\* The positions of the queue that msgrcv may take: it takes the first.
Wanted(p) == {j \in 1 .. Len(queue[mq[p]].msgs) : Wants(p, queue[mq[p]].msgs[j])}

\* Variant: a mutex of the object is held in msgsnd, and msgrcv needs it.
WaitingLocked(p, k) == th[p][k] = "recv" /\ mq[p] \in present /\ pc[p] # "sending"

Waiting(p, k) == th[p][k] = "recv" /\ mq[p] \in present

\* Variant: the message is copied, and stays for others.
Keeping(msgs, j) == msgs

Without(msgs, j) == RemoveAt(msgs, j)

\* What becomes of a message that has left the queue: into pmsg, and
\* dropped if it is more than a second old.
Receive(p, k, j) ==
  LET m == queue[mq[p]].msgs[j] IN
  /\ queue' = [queue EXCEPT ![mq[p]].msgs = Without(@, j)]
  /\ buf' = Set(buf, p, m.id)
  /\ IF now - m.time > 1
       THEN old' = old \cup {m.id} /\ UNCHANGED th
       ELSE th' = [th EXCEPT ![p][k] = "parse"] /\ UNCHANGED old
  /\ UNCHANGED <<file, present, now, objects, calls, filter, joinable, stopped, sent, put, parsed, crossed>>

\* Variant: the first of any type is taken, and dropped if it is not of the type
\* wanted.
MsgRcvAny(p, k) ==
  /\ Waiting(p, k) /\ queue[mq[p]].msgs # <<>>
  /\ IF 1 \in Wanted(p)
       THEN Receive(p, k, 1)
       ELSE /\ queue' = [queue EXCEPT ![mq[p]].msgs = Tail(@)]
            /\ UNCHANGED <<file, present, now, objects, calls, buf, threads, history>>

MsgRcv(p, k) ==
  /\ Waiting(p, k) /\ Wanted(p) # {}
  /\ Receive(p, k, CHOOSE i \in Wanted(p) : \A j \in Wanted(p) : i <= j)

\* The parser is given a pointer to the buffer of the object.
Parse(p, k) ==
  /\ th[p][k] = "parse"
  /\ parsed' = Set(parsed, p, Append(parsed[p], buf[p]))
  /\ th' = [th EXCEPT ![p][k] = "recv"]
  /\ UNCHANGED <<kernel, now, objects, calls, filter, buf, joinable, stopped, sent, put, old, crossed>>
-----------------------------------------------------------------------------
(* pm_handler_start, pm_handler_stop, pm_handler_wait *)

Terminate(p) == pc' = Set(pc, p, "terminated") /\ th' = Set(th, p, [k \in Thread |-> "none"])

\* To assign to a std::thread that stands for a running one ends the process.
HandlerStart(p) ==
  /\ "start" \in Calls
  /\ Idle(p) /\ mq[p] # 0
  /\ \E f \in Filters : filter' = Set(filter, p, f)
  /\ \/ joinable[p] # 0 /\ Terminate(p) /\ UNCHANGED joinable
     \/ /\ joinable[p] = 0
        /\ \E k \in Thread :
             /\ th[p][k] = "none" /\ \A l \in 1 .. k - 1 : th[p][l] # "none"
             /\ th' = [th EXCEPT ![p][k] = "recv"]
             /\ joinable' = Set(joinable, p, k)
        /\ UNCHANGED pc
  /\ UNCHANGED <<kernel, now, objects, out, buf, stopped, history>>

\* detach, which throws if there is no thread; the thread runs on.
HandlerStop(p) ==
  /\ "stop" \in Calls
  /\ Idle(p)
  /\ \/ joinable[p] = 0 /\ Terminate(p) /\ UNCHANGED <<joinable, stopped>>
     \/ /\ joinable[p] # 0
        /\ joinable' = Set(joinable, p, 0)
        /\ stopped' = stopped \cup {<<p, joinable[p]>>}
        /\ UNCHANGED <<pc, th>>
  /\ UNCHANGED <<kernel, now, objects, out, filter, buf, history>>

\* join, which throws likewise, of a thread that never returns.
HandlerWait(p) ==
  /\ "wait" \in Calls
  /\ Idle(p)
  /\ \/ joinable[p] = 0 /\ Terminate(p)
     \/ joinable[p] # 0 /\ pc' = Set(pc, p, "waiting") /\ UNCHANGED th
  /\ UNCHANGED <<kernel, now, objects, out, filter, buf, joinable, stopped, history>>
-----------------------------------------------------------------------------
Tick ==
  /\ now < MaxClock
  /\ now' = now + 1
  /\ UNCHANGED <<kernel, objects, calls, buf, threads, history>>

Open(p) == Create(p) \/ CreateFails(p) \/ Connect(p) \/ Key(p) \/ Get(p) \/ Close(p) \/ Unlink(p)
Handler(p) == \E k \in Thread : MsgRcv(p, k) \/ Parse(p, k)
Control(p) == HandlerStart(p) \/ HandlerStop(p) \/ HandlerWait(p)

Next == Tick \/ \E p \in Proc :
          Open(p) \/ Send(p) \/ MsgSnd(p) \/ MsgSndFails(p) \/ Handler(p) \/ Control(p)

Spec == Init /\ [][Next]_vars

\* Threads run. The kernel lets blocked senders in one after another.
FairSpec == Spec /\ \A p \in Proc :
              WF_vars(MsgSndFails(p)) /\ SF_vars(MsgSnd(p)) /\ WF_vars(Handler(p))
-----------------------------------------------------------------------------
\* No object has ever had a second handler thread.
OneHandler == \A p \in Proc : joinable[p] # 2 /\ <<p, 2>> \notin stopped

Parsed(p) == {parsed[p][j] : j \in 1 .. Len(parsed[p])}

\* With one handler per object, it parses the messages of one sender in the order
\* of sending, none of them twice, whatever else is in the queue; and no two
\* objects parse the same message, however many share the queue.
OnceInOrder ==
  OneHandler =>
    /\ \A p \in Proc : \A i, j \in 1 .. Len(parsed[p]) :
         i < j /\ sent[parsed[p][i]] = sent[parsed[p][j]] => parsed[p][i] < parsed[p][j]
    /\ \A p, q \in Proc : p # q => Parsed(p) \cap Parsed(q) = {}

\* With one handler per object, nothing that msgsnd accepted vanishes: it
\* is in the queue, about to be parsed, parsed, dropped for its age, in a queue
\* that somebody closed, or went with the process that received it last.
NothingVanishes ==
  OneHandler =>
    \A id \in put :
      \/ \E q \in 1 .. Len(queue) : \E j \in 1 .. Len(queue[q].msgs) : queue[q].msgs[j].id = id
      \/ \E p \in Proc : th[p][1] = "parse" /\ buf[p] = id
      \/ \E p \in Proc : id \in Parsed(p)
      \/ id \in old
      \/ \E p \in Proc : pc[p] = "terminated" /\ buf[p] = id

\* There is one queue at a time, the one that the file leads to, however clients
\* connect and close meanwhile, as long as no two servers are in pm_create or
\* pm_close at once and no server closes while there is a queue that is not its
\* own: such servers make queues under a key that is no more, or remove the file
\* of others.
OneQueue == ~crossed => \A q \in present : file = queue[q].key

\* A process that has a handler, started and not stopped.
Handles(p) == pc[p] # "terminated" /\ joinable[p] # 0

\* A message in the queue of p that no handler of that queue wants.
Blocked(p) ==
  mq[p] \in present /\ \E j \in 1 .. Len(queue[mq[p]].msgs) :
    \A q \in Proc : mq[q] = mq[p] => ~Handles(q) \/ ~Wants(q, queue[mq[p]].msgs[j])

\* A process that sends returns, unless the queue holds a message that no
\* handler wants: such messages fill the queue, and then no message passes,
\* not even one that a handler is waiting for.
SendReturns == \A p \in Proc : pc[p] = "sending" ~> (pc[p] # "sending" \/ Blocked(p))
=============================================================================
