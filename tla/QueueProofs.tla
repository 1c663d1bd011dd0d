------------------------------ MODULE QueueProofs ------------------------------
(***************************************************************************)
(* What ProcMsgQueue promises, for any number of processes, messages and   *)
(* queues, any types and filters and any capacity.                         *)
(***************************************************************************)
EXTENDS ProcMsgQueue, SequenceTheorems, FiniteSetTheorems, TLAPS

\* The messages of a queue, and the number of one of them.
Msgs(q) == queue[q].msgs
Id(q, j) == Msgs(q)[j].id

\* What an object has handed to the parser or is about to.
Taken(p) == Parsed(p) \cup (IF th[p][1] = "parse" THEN {buf[p]} ELSE {})

\* A sender has one message under way, later than all it has put in a queue.
SendingInv ==
  \A p \in Proc : pc[p] = "sending" =>
    /\ out[p] \in Message /\ out[p].id \in 1 .. Len(sent) /\ sent[out[p].id] = p
    /\ \A id \in put : sent[id] = p => id < out[p].id

\* The messages of a queue were put there, by objects that still have that queue,
\* and are in the order of sending for each sender.
InOrder(q, j) ==
  /\ Id(q, j) \in put /\ mq[sent[Id(q, j)]] = q
  /\ \A i \in 1 .. j - 1 : sent[Id(q, i)] = sent[Id(q, j)] => Id(q, i) < Id(q, j)

QueueInv == \A q \in present : \A j \in 1 .. Len(Msgs(q)) : InOrder(q, j)

\* The second thread of an object is started after the first, and shows; an object
\* without a thread has parsed nothing; a process that has ended has no thread; a
\* thread at the parser has received something.
ThreadsOf(p) ==
  /\ th[p][2] # "none" => joinable[p] = 2 \/ <<p, 2>> \in stopped
  /\ pc[p] = "terminated" => \A k \in Thread : th[p][k] = "none"
  /\ pc[p] # "terminated" /\ th[p][1] = "none" => th[p][2] = "none" /\ parsed[p] = <<>>
  /\ \A k \in Thread : th[p][k] = "parse" => buf[p] # 0

ThreadInv == \A p \in Proc : ThreadsOf(p)

\* With one handler per object: what an object has taken was put in a queue, is in
\* none any more, and no other object has taken it; of the messages in the queues,
\* those it may still take are later than those it has taken of the same sender;
\* and so it parses them in order.
TakenOnce(p) ==
  /\ Taken(p) \subseteq put
  /\ \A q \in present : \A j \in 1 .. Len(Msgs(q)) : Id(q, j) \notin Taken(p)
  /\ \A r \in Proc : r # p => Taken(p) \cap Taken(r) = {}

TakenFirst(p) ==
  th[p][1] # "none" =>
    \A q \in present : \A j \in 1 .. Len(Msgs(q)) : \A id \in Taken(p) :
      Wants(p, Msgs(q)[j]) /\ sent[id] = sent[Id(q, j)] => id < Id(q, j)

ParsedInOrder(p) ==
  /\ \A i, j \in 1 .. Len(parsed[p]) :
       i < j /\ sent[parsed[p][i]] = sent[parsed[p][j]] => parsed[p][i] < parsed[p][j]
  /\ th[p][1] = "parse" => \A i \in 1 .. Len(parsed[p]) :
       sent[parsed[p][i]] = sent[buf[p]] => parsed[p][i] < buf[p]

TakenInv ==
  OneHandler => \A p \in Proc : TakenOnce(p) /\ TakenFirst(p) /\ ParsedInOrder(p)

\* An object that is being opened has no queue that is present; msgget has a key; and
\* only a server comes to unlink.
Opens(p) ==
  /\ pc[p] \in {"key", "get"} => mq[p] \notin present
  /\ pc[p] = "get" => ipckey[p] # 0
  /\ pc[p] = "unlink" => p \in server

OpeningInv == \A p \in Proc : Opens(p)

IInv == TypeOK /\ SendingInv /\ QueueInv /\ ThreadInv /\ OpeningInv
-----------------------------------------------------------------------------
(* Sequences and queues *)

\* Taking an element out moves those behind it one place up.
LEMMA WithoutElement ==
  ASSUME NEW S, NEW s \in Seq(S), NEW j \in 1 .. Len(s)
  PROVE  /\ Without(s, j) \in Seq(S)
         /\ Len(Without(s, j)) = Len(s) - 1
         /\ \A i \in 1 .. Len(s) - 1 :
              Without(s, j)[i] = IF i < j THEN s[i] ELSE s[i + 1]
<1>1. /\ SubSeq(s, 1, j - 1) \in Seq(S) /\ Len(SubSeq(s, 1, j - 1)) = j - 1
      /\ \A i \in 1 .. j - 1 : SubSeq(s, 1, j - 1)[i] = s[i]
  BY SubSeqProperties
<1>2. /\ SubSeq(s, j + 1, Len(s)) \in Seq(S) /\ Len(SubSeq(s, j + 1, Len(s))) = Len(s) - j
      /\ \A i \in 1 .. Len(s) - j : SubSeq(s, j + 1, Len(s))[i] = s[j + i]
  BY SubSeqProperties
<1>3. Without(s, j) = SubSeq(s, 1, j - 1) \o SubSeq(s, j + 1, Len(s))
  BY DEF Without, RemoveAt
<1> DEFINE a == SubSeq(s, 1, j - 1)
           b == SubSeq(s, j + 1, Len(s))
<1>4. /\ a \in Seq(S) /\ Len(a) = j - 1 /\ b \in Seq(S) /\ Len(b) = Len(s) - j
      /\ \A i \in 1 .. j - 1 : a[i] = s[i]
      /\ \A i \in 1 .. Len(s) - j : b[i] = s[j + i]
      /\ Without(s, j) = a \o b
  BY <1>1, <1>2, <1>3
<1> HIDE DEF a, b
<1>5. /\ a \o b \in Seq(S) /\ Len(a \o b) = Len(s) - 1
      /\ \A i \in 1 .. Len(s) - 1 : (a \o b)[i] = IF i <= j - 1 THEN a[i] ELSE b[i - (j - 1)]
  <2>1. /\ a \o b \in Seq(S) /\ Len(a \o b) = Len(a) + Len(b)
        /\ \A i \in 1 .. Len(a) + Len(b) :
             (a \o b)[i] = IF i <= Len(a) THEN a[i] ELSE b[i - Len(a)]
    BY <1>4, ConcatProperties
  <2>2. Len(s) \in Nat /\ Len(a) + Len(b) = Len(s) - 1
    BY <1>4
  <2> QED BY <1>4, <2>1, <2>2
<1> QED BY <1>4, <1>5

\* A queue record has a key and messages, and either can be given.
LEMMA QueueRecord ==
  /\ \A q \in Queue : q.key \in Inodes /\ q.msgs \in Seq(Message)
  /\ \A k \in Inodes, s \in Seq(Message) : [key |-> k, msgs |-> s] \in Queue
  /\ \A q \in Queue, s \in Seq(Message) :
       /\ [q EXCEPT !.msgs = s] \in Queue
       /\ [q EXCEPT !.msgs = s].msgs = s /\ [q EXCEPT !.msgs = s].key = q.key
BY DEF Queue

\* The queues f when queue q holds the messages s.
Holding(f, q, s) == [f EXCEPT ![q].msgs = s]

\* Giving one queue other messages leaves its key and the other queues alone.
LEMMA OtherMessages ==
  ASSUME NEW f \in Seq(Queue), NEW q \in 1 .. Len(f), NEW s \in Seq(Message)
  PROVE  /\ Holding(f, q, s) \in Seq(Queue) /\ Len(Holding(f, q, s)) = Len(f)
         /\ Holding(f, q, s)[q].msgs = s /\ Holding(f, q, s)[q].key = f[q].key
         /\ \A r \in 1 .. Len(f) : r # q => Holding(f, q, s)[r] = f[r]
<1>1. f[q] \in Queue
  BY ElementOfSeq
<1>2. Holding(f, q, s) = [f EXCEPT ![q] = [f[q] EXCEPT !.msgs = s]]
  BY DEF Holding
<1>3. [f[q] EXCEPT !.msgs = s] \in Queue /\ [f[q] EXCEPT !.msgs = s].msgs = s
      /\ [f[q] EXCEPT !.msgs = s].key = f[q].key
  BY <1>1, QueueRecord
<1> DEFINE n == [f[q] EXCEPT !.msgs = s]
<1>4. n \in Queue /\ n.msgs = s /\ n.key = f[q].key
      /\ Holding(f, q, s) = [f EXCEPT ![q] = n]
  BY <1>2, <1>3
<1> HIDE DEF n
<1>5. /\ [f EXCEPT ![q] = n] \in Seq(Queue) /\ Len([f EXCEPT ![q] = n]) = Len(f)
      /\ \A r \in 1 .. Len(f) : [f EXCEPT ![q] = n][r] = IF r = q THEN n ELSE f[r]
  <2> n \in Queue
    BY <1>4
  <2> QED BY ONLY f \in Seq(Queue), q \in 1 .. Len(f), n \in Queue, ExceptSeq
<1> QED BY <1>4, <1>5
-----------------------------------------------------------------------------
(* The first message wanted *)

\* A set of numbers that has an element has a least one.
LEMMA LeastExists ==
  ASSUME NEW S, S \subseteq Nat, S # {}
  PROVE  \E i \in S : \A j \in S : i <= j
<1>1. IsWellFoundedOn(OpToRel(<, Nat), Nat)
  BY NatLessThanWellFounded
<1>2. PICK i \in S : \A j \in S : ~ (<<j, i>> \in OpToRel(<, Nat))
  BY <1>1, WFMin
<1>3. \A j \in S : ~ (j < i)
  BY <1>2 DEF OpToRel
<1>4. \A j \in S : i <= j
  BY <1>3
<1> QED BY <1>4

\* What a handler receives is the first message of its queue that it wants.
LEMMA FirstWanted ==
  ASSUME TypeOK, NEW p \in Proc, NEW k \in Thread, MsgRcv(p, k)
  PROVE  \E j \in 1 .. Len(Msgs(mq[p])) :
           /\ Wants(p, Msgs(mq[p])[j]) /\ \A i \in 1 .. j - 1 : ~Wants(p, Msgs(mq[p])[i])
           /\ Receive(p, k, j)
<1> DEFINE W == Wanted(p)
           Least(i) == \A j \in W : i <= j
           j == CHOOSE i \in W : Least(i)
<1>1. W \subseteq Nat /\ W # {}
  BY DEF MsgRcv, Wanted
<1>2. \E i \in W : Least(i)
  BY <1>1, LeastExists
<1>3. j \in W /\ Least(j)
  BY <1>2
<1>4. Receive(p, k, j)
  BY DEF MsgRcv
<1> HIDE DEF j
<1>5. j \in 1 .. Len(Msgs(mq[p])) /\ Wants(p, Msgs(mq[p])[j])
  BY <1>3 DEF Wanted, Msgs
<1>6. ASSUME NEW i \in 1 .. j - 1 PROVE ~Wants(p, Msgs(mq[p])[i])
  <2>1. i \notin W
    BY <1>3, <1>5
  <2>2. mq[p] \in 1 .. Len(queue)
    BY DEF MsgRcv, Waiting, TypeOK
  <2>3. queue[mq[p]] \in Queue
    BY <2>2, ElementOfSeq DEF TypeOK
  <2>4. Len(Msgs(mq[p])) \in Nat
    BY <2>3, QueueRecord, LenProperties DEF Msgs
  <2>5. i \in 1 .. Len(Msgs(mq[p]))
    BY <1>5, <2>4
  <2> QED BY <2>1, <2>5 DEF Wanted, Msgs
<1> QED BY <1>4, <1>5, <1>6

\* What a queue and its messages are, and what the queues are when the messages of
\* one change.
LEMMA QueueTypes ==
  ASSUME TypeOK, NEW q \in 1 .. Len(queue)
  PROVE  /\ queue[q] \in Queue /\ queue[q].key \in Inodes /\ Msgs(q) \in Seq(Message)
         /\ Len(Msgs(q)) \in Nat /\ \A j \in 1 .. Len(Msgs(q)) : Msgs(q)[j] \in Message
<1>1. queue[q] \in Queue
  BY ElementOfSeq DEF TypeOK
<1>2. queue[q].key \in Inodes /\ Msgs(q) \in Seq(Message)
  BY <1>1, QueueRecord DEF Msgs
<1> QED BY <1>1, <1>2, LenProperties, ElementOfSeq

LEMMA MessageTypes ==
  ASSUME NEW m \in Message
  PROVE  m.id \in 1 .. MaxSends /\ m.type \in Types /\ m.time \in 0 .. MaxClock
BY DEF Message

\* What msgsnd does to the queues.
LEMMA SndFacts ==
  ASSUME TypeOK, SendingInv, NEW p \in Proc, MsgSnd(p)
  PROVE  /\ mq[p] \in 1 .. Len(queue) /\ mq[p] \in present
         /\ out[p] \in Message
         /\ queue' \in Seq(Queue) /\ Len(queue') = Len(queue)
         /\ Msgs(mq[p])' = Append(Msgs(mq[p]), out[p])
         /\ Len(Msgs(mq[p])') = Len(Msgs(mq[p])) + 1
         /\ \A j \in 1 .. Len(Msgs(mq[p])) : Msgs(mq[p])'[j] = Msgs(mq[p])[j]
         /\ Msgs(mq[p])'[Len(Msgs(mq[p])) + 1] = out[p]
         /\ \A q \in 1 .. Len(queue) : queue'[q].key = queue[q].key
         /\ \A q \in 1 .. Len(queue) : q # mq[p] => Msgs(q)' = Msgs(q)
<1> DEFINE q == mq[p]
           s == Append(Msgs(q), out[p])
<1>1. q \in present /\ q \in 1 .. Len(queue) /\ out[p] \in Message
      /\ mq' = mq
  BY DEF MsgSnd, TypeOK, SendingInv, objects
<1>2. Msgs(q) \in Seq(Message)
  BY <1>1, QueueTypes
<1>3. /\ s \in Seq(Message) /\ Len(s) = Len(Msgs(q)) + 1
      /\ \A j \in 1 .. Len(Msgs(q)) : s[j] = Msgs(q)[j]
      /\ s[Len(Msgs(q)) + 1] = out[p]
  BY <1>1, <1>2, AppendProperties
<1>4. queue' = Holding(queue, q, s)
  BY DEF MsgSnd, Msgs, Holding
<1>5. queue \in Seq(Queue)
  BY DEF TypeOK
<1> HIDE DEF s
<1>6. /\ queue' \in Seq(Queue) /\ Len(queue') = Len(queue)
      /\ queue'[q].msgs = s /\ queue'[q].key = queue[q].key
      /\ \A r \in 1 .. Len(queue) : r # q => queue'[r] = queue[r]
  <2>1. q \in 1 .. Len(queue) /\ s \in Seq(Message)
    BY <1>1, <1>3
  <2> HIDE DEF q
  <2> QED BY <1>4, <1>5, <2>1, OtherMessages
<1> QED BY <1>1, <1>3, <1>6 DEF Msgs, s

\* What msgrcv does to the queues.
LEMMA RcvFacts ==
  ASSUME TypeOK, NEW p \in Proc, mq[p] \in present, NEW k \in Thread,
         NEW j \in 1 .. Len(Msgs(mq[p])), Receive(p, k, j)
  PROVE  /\ mq[p] \in 1 .. Len(queue) /\ Msgs(mq[p])[j] \in Message
         /\ queue' \in Seq(Queue) /\ Len(queue') = Len(queue)
         /\ Len(Msgs(mq[p])') = Len(Msgs(mq[p])) - 1
         /\ \A i \in 1 .. Len(Msgs(mq[p])) - 1 :
              Msgs(mq[p])'[i] = IF i < j THEN Msgs(mq[p])[i] ELSE Msgs(mq[p])[i + 1]
         /\ \A q \in 1 .. Len(queue) : queue'[q].key = queue[q].key
         /\ \A q \in 1 .. Len(queue) : q # mq[p] => Msgs(q)' = Msgs(q)
<1> DEFINE q == mq[p]
           s == Without(Msgs(q), j)
<1>1. q \in 1 .. Len(queue) /\ mq' = mq
  BY DEF TypeOK, Receive, objects
<1>2. Msgs(q) \in Seq(Message) /\ Msgs(q)[j] \in Message
  BY <1>1, QueueTypes
<1>3. /\ s \in Seq(Message) /\ Len(s) = Len(Msgs(q)) - 1
      /\ \A i \in 1 .. Len(Msgs(q)) - 1 : s[i] = IF i < j THEN Msgs(q)[i] ELSE Msgs(q)[i + 1]
  BY <1>2, WithoutElement
<1>4. queue' = Holding(queue, q, s)
  BY DEF Receive, Msgs, Holding
<1>5. queue \in Seq(Queue)
  BY DEF TypeOK
<1> HIDE DEF s
<1>6. /\ queue' \in Seq(Queue) /\ Len(queue') = Len(queue)
      /\ queue'[q].msgs = s /\ queue'[q].key = queue[q].key
      /\ \A r \in 1 .. Len(queue) : r # q => queue'[r] = queue[r]
  BY <1>1, <1>3, <1>4, <1>5, OtherMessages
<1> QED BY <1>1, <1>2, <1>3, <1>6 DEF Msgs

\* What the steps of pm_create, pm_connect and pm_close leave alone, msgget apart.
LEMMA OpeningFacts ==
  ASSUME TypeOK, NEW p \in Proc, Open(p), ~Get(p)
  PROVE  /\ UNCHANGED <<queue, now, mq, out, buf, filter, th, joinable, stopped, sent, put, parsed, old>>
         /\ present' \subseteq present
         /\ pc[p] \in {"idle", "key", "unlink"}
         /\ \E s \in {"idle", "key", "get", "unlink"} : pc' = Set(pc, p, s)
<1>1. UNCHANGED <<queue, now, mq, out, buf, filter, th, joinable, stopped, sent, put, parsed, old>>
      /\ present' \subseteq present
  BY DEF Open, Create, CreateFails, Connect, Key, Close, Unlink, kernel, objects, calls, threads, history
<1>2. CASE CreateFails(p)
  <2>1. pc[p] = "idle" /\ pc' = pc
    BY <1>2 DEF CreateFails, Unopened, Idle, calls
  <2>2. pc' = Set(pc, p, "idle")
    BY <2>1 DEF Set, TypeOK
  <2> QED BY <1>1, <2>1, <2>2
<1>3. CASE Create(p) \/ Connect(p) \/ Key(p) \/ Close(p) \/ Unlink(p)
  BY <1>1, <1>3 DEF Create, Connect, Key, Close, Unlink, Unopened, Idle
<1> QED BY <1>2, <1>3 DEF Open

\* What msgget does: it makes an empty queue, or leaves the queues alone.
LEMMA GetFacts ==
  ASSUME TypeOK, OpeningInv, NEW p \in Proc, Get(p)
  PROVE  /\ UNCHANGED <<file, now, server, out, buf, filter, th, joinable, stopped, sent, put, parsed,
                        old, crossed>>
         /\ pc[p] = "get" /\ pc' = Set(pc, p, "idle") /\ ipckey' = Set(ipckey, p, 0)
         /\ mq[p] \notin present /\ \E q \in 0 .. Len(queue') : mq' = Set(mq, p, q)
         /\ \/ UNCHANGED <<queue, present>>
            \/ /\ p \in server /\ Under(ipckey[p]) = {} /\ Len(queue) < MaxQueues
               /\ queue' \in Seq(Queue) /\ Len(queue) \in Nat /\ Len(queue') = Len(queue) + 1
               /\ present' = present \cup {Len(queue')}
               /\ \A q \in 1 .. Len(queue) : queue'[q] = queue[q]
               /\ queue'[Len(queue')].key = ipckey[p] /\ queue'[Len(queue')].msgs = <<>>
<1>1. /\ UNCHANGED <<file, now, server, out, buf, filter, th, joinable, stopped, sent, put, parsed,
                     old, crossed>>
      /\ pc[p] = "get" /\ pc' = Set(pc, p, "idle") /\ ipckey' = Set(ipckey, p, 0)
  BY DEF Get, threads, history
<1>2. mq[p] \notin present /\ ipckey[p] \in Inodes
  BY <1>1 DEF OpeningInv, Opens, TypeOK
<1>3. Len(queue) \in Nat
  BY LenProperties DEF TypeOK
<1>4. CASE UNCHANGED <<queue, present>> /\ \E q \in Under(ipckey[p]) \cup {0} : mq' = Set(mq, p, q)
  <2>1. PICK q \in Under(ipckey[p]) \cup {0} : mq' = Set(mq, p, q)
    BY <1>4
  <2>2. q \in present \/ q = 0
    BY <2>1 DEF Under
  <2>3. present \subseteq 1 .. Len(queue)
    BY DEF TypeOK
  <2>4. q \in 1 .. Len(queue) \/ q = 0
    BY <2>2, <2>3
  <2>5. q \in 0 .. Len(queue)
    BY <1>3, <2>4
  <2>6. q \in 0 .. Len(queue')
    BY <1>4, <2>5
  <2> QED BY <1>1, <1>2, <1>4, <2>1, <2>6
<1>5. CASE /\ Made(p)
           /\ queue' = Append(queue, [key |-> ipckey[p], msgs |-> <<>>])
           /\ present' = present \cup {Len(queue')}
           /\ mq' = Set(mq, p, Len(queue'))
  <2> DEFINE new == [key |-> ipckey[p], msgs |-> <<>>]
  <2>1. new \in Queue /\ new.key = ipckey[p] /\ new.msgs = <<>>
    BY <1>2, QueueRecord, EmptySeq
  <2>2. queue' = Append(queue, new)
    BY <1>5
  <2> HIDE DEF new
  <2>3. /\ queue' \in Seq(Queue) /\ Len(queue') = Len(queue) + 1
        /\ \A q \in 1 .. Len(queue) : queue'[q] = queue[q]
        /\ queue'[Len(queue) + 1] = new
    BY <2>1, <2>2, AppendProperties DEF TypeOK
  <2>4. p \in server /\ Under(ipckey[p]) = {} /\ Len(queue) < MaxQueues
    BY <1>5 DEF Made
  <2>5. Len(queue') \in 0 .. Len(queue')
    BY <1>3, <2>3
  <2> QED BY <1>1, <1>2, <1>3, <1>5, <2>1, <2>3, <2>4, <2>5
<1> QED BY <1>4, <1>5 DEF Get
-----------------------------------------------------------------------------
(* Types *)

ThreadState == {"none", "recv", "parse"}
PcState == {"idle", "key", "get", "unlink", "sending", "waiting", "terminated"}

LEMMA ThreadSetType ==
  ASSUME NEW f \in [Proc -> [Thread -> ThreadState]], NEW p \in Proc, NEW k \in Thread,
         NEW v \in ThreadState
  PROVE  /\ [f EXCEPT ![p][k] = v] \in [Proc -> [Thread -> ThreadState]]
         /\ \A q \in Proc, l \in Thread :
              [f EXCEPT ![p][k] = v][q][l] = IF q = p /\ l = k THEN v ELSE f[q][l]
OBVIOUS

\* A step leaves every variable of its type.
LEMMA TypeNext ==
  ASSUME TypeOK, SendingInv, QueueInv, ThreadInv, OpeningInv, [Next]_vars
  PROVE  TypeOK'
<1> USE QueueAssumption
<1>1. CASE Tick
  BY <1>1 DEF Tick, TypeOK, kernel, objects, calls, threads, history, Under
<1>2. ASSUME NEW p \in Proc, Get(p) PROVE TypeOK'
  <2>1. /\ UNCHANGED <<file, now, server, out, buf, filter, th, joinable, stopped, sent, put, parsed,
                       old, crossed>>
        /\ pc' = Set(pc, p, "idle") /\ ipckey' = Set(ipckey, p, 0)
        /\ \E q \in 0 .. Len(queue') : mq' = Set(mq, p, q)
    BY <1>2, GetFacts
  <2>2. pc' \in [Proc -> PcState] /\ ipckey' \in [Proc -> Inodes \cup {0}]
    BY <2>1 DEF TypeOK, Set, PcState
  <2>3. CASE UNCHANGED <<queue, present>>
    <3>1. mq' \in [Proc -> 0 .. Len(queue)]
      BY <2>1, <2>3 DEF TypeOK, Set
    <3> QED BY <2>1, <2>2, <2>3, <3>1 DEF TypeOK, PcState
  <2>4. CASE ~UNCHANGED <<queue, present>>
    <3>1. /\ Under(ipckey[p]) = {} /\ Len(queue) < MaxQueues
          /\ queue' \in Seq(Queue) /\ Len(queue) \in Nat /\ Len(queue') = Len(queue) + 1
          /\ present' = present \cup {Len(queue')}
          /\ \A q \in 1 .. Len(queue) : queue'[q] = queue[q]
          /\ queue'[Len(queue')].key = ipckey[p] /\ queue'[Len(queue')].msgs = <<>>
      BY <1>2, <2>4, GetFacts
    <3>2. \A q \in 1 .. Len(queue') : q \in 1 .. Len(queue) \/ q = Len(queue')
      BY <3>1
    <3>3. \A q \in 1 .. Len(queue') : Len(queue'[q].msgs) <= Capacity
      <4> TAKE q \in 1 .. Len(queue')
      <4>1. CASE q \in 1 .. Len(queue)
        BY <3>1, <4>1 DEF TypeOK
      <4>2. CASE q = Len(queue')
        <5>1. Len(<<>>) = 0
          BY EmptySeq
        <5> QED BY <3>1, <4>2, <5>1
      <4> QED BY <3>2, <4>1, <4>2
    <3>4. present \subseteq 1 .. Len(queue)
      BY DEF TypeOK
    <3>5. present' \subseteq 1 .. Len(queue')
      <4>1. 1 .. Len(queue) \subseteq 1 .. Len(queue') /\ Len(queue') \in 1 .. Len(queue')
        BY <3>1
      <4> QED BY <3>1, <3>4, <4>1
    <3>6. \A q \in present : queue'[q].key = queue[q].key /\ queue[q].key # ipckey[p]
      BY <3>1, <3>4 DEF Under
    <3>7. \A q, r \in present' : queue'[q].key = queue'[r].key => q = r
      <4> TAKE q, r \in present'
      <4>1. CASE q \in present /\ r \in present
        BY <3>6, <4>1 DEF TypeOK
      <4>2. CASE q = Len(queue') \/ r = Len(queue')
        BY <3>1, <3>6, <4>2
      <4> QED BY <3>1, <4>1, <4>2
    <3>8. mq' \in [Proc -> 0 .. Len(queue')]
      <4>1. mq \in [Proc -> 0 .. Len(queue')]
        BY <3>1 DEF TypeOK
      <4> QED BY <2>1, <4>1 DEF Set
    <3>9. Len(queue') <= MaxQueues
      BY <3>1
    <3> QED BY <2>1, <2>2, <3>1, <3>3, <3>5, <3>7, <3>8, <3>9 DEF TypeOK, PcState
  <2> QED BY <2>3, <2>4
<1>3. ASSUME NEW p \in Proc, Open(p), ~Get(p) PROVE TypeOK'
  <2>1. /\ UNCHANGED <<queue, now, mq, out, buf, filter, th, joinable, stopped, sent, put, parsed, old>>
        /\ present' \subseteq present
        /\ \E s \in {"idle", "key", "get", "unlink"} : pc' = Set(pc, p, s)
    BY <1>3, OpeningFacts
  <2>2. pc' \in [Proc -> PcState]
    BY <2>1 DEF TypeOK, Set, PcState
  <2>3. server' \subseteq Proc /\ file' \in Inodes \cup {0}
    BY <1>3 DEF Open, Create, CreateFails, Connect, Key, Close, Unlink, kernel, objects, TypeOK
  <2>4. ipckey' \in [Proc -> Inodes \cup {0}]
    <3>1. ipckey' = ipckey \/ ipckey' = Set(ipckey, p, file)
      BY <1>3 DEF Open, Create, CreateFails, Connect, Key, Close, Unlink, objects
    <3> QED BY <3>1 DEF TypeOK, Set
  <2>5. crossed' \in BOOLEAN
    BY <1>3 DEF Open, Create, CreateFails, Connect, Key, Close, Unlink, history, TypeOK
  <2>6. present' \subseteq 1 .. Len(queue') /\ \A q, r \in present' : queue'[q].key = queue'[r].key => q = r
    BY <2>1 DEF TypeOK
  <2> QED BY <2>1, <2>2, <2>3, <2>4, <2>5, <2>6 DEF TypeOK, PcState
<1>5. ASSUME NEW p \in Proc, Send(p) PROVE TypeOK'
  <2>1. UNCHANGED <<file, queue, present, now, mq, ipckey, server, buf, filter, th, joinable, stopped, put,
                    parsed, old, crossed>>
    BY <1>5 DEF Send, kernel, objects, threads
  <2>2. sent' \in Seq(Proc) /\ Len(sent') = Len(sent) + 1 /\ Len(sent) \in Nat /\ Len(sent') <= MaxSends
    BY <1>5, AppendProperties DEF Send, TypeOK
  <2>3. pc' \in [Proc -> PcState]
    BY <1>5 DEF Send, TypeOK, Set, PcState
  <2>4. PICK y \in Types : out' = Set(out, p, [id |-> Len(sent'), type |-> y, time |-> now])
    BY <1>5 DEF Send
  <2>5. [id |-> Len(sent'), type |-> y, time |-> now] \in Message
    BY <2>2 DEF Message, TypeOK
  <2>6. out' \in [Proc -> Message \cup {NoMessage}]
    BY <2>4, <2>5 DEF TypeOK, Set
  <2>7. put \subseteq 1 .. Len(sent')
    BY <2>2 DEF TypeOK
  <2> QED BY <2>1, <2>2, <2>3, <2>6, <2>7 DEF TypeOK, PcState
<1>6. ASSUME NEW p \in Proc, MsgSnd(p) PROVE TypeOK'
  <2>1. /\ UNCHANGED <<file, present, now, mq, ipckey, server, buf, filter, th, joinable, stopped, sent, parsed,
                       old, crossed>>
        /\ put' = put \cup {out[p].id} /\ pc' = Set(pc, p, "idle") /\ out' = Set(out, p, NoMessage)
        /\ Len(Msgs(mq[p])) < Capacity
    BY <1>6 DEF MsgSnd, objects, threads, Room, Msgs
  <2>2. pc' \in [Proc -> PcState]
    BY <2>1 DEF TypeOK, Set, PcState
  <2>3. out' \in [Proc -> Message \cup {NoMessage}]
    BY <2>1 DEF TypeOK, Set
  <2>4. /\ mq[p] \in 1 .. Len(queue)
        /\ queue' \in Seq(Queue) /\ Len(queue') = Len(queue)
        /\ Len(Msgs(mq[p])') = Len(Msgs(mq[p])) + 1
        /\ \A q \in 1 .. Len(queue) : queue'[q].key = queue[q].key
        /\ \A q \in 1 .. Len(queue) : q # mq[p] => Msgs(q)' = Msgs(q)
        /\ Len(Msgs(mq[p])) \in Nat
    BY <1>6, SndFacts, QueueTypes
  <2>5. \A q \in 1 .. Len(queue') : Len(Msgs(q)') <= Capacity
    <3>1. \A q \in 1 .. Len(queue) : Len(Msgs(q)) <= Capacity
      BY DEF TypeOK, Msgs
    <3>2. mq' = mq
      BY <2>1
    <3> HIDE DEF Msgs
    <3> QED BY <2>1, <2>4, <3>1, <3>2
  <2>6. out[p].id \in 1 .. Len(sent)
    BY <1>6 DEF MsgSnd, SendingInv
  <2>7. parsed \in [Proc -> Seq(put')]
    <3>1. put \subseteq put'
      BY <2>1
    <3> QED BY <3>1, SeqMonotonic DEF TypeOK
  <2>8. put' \subseteq 1 .. Len(sent) /\ old \subseteq put' /\ buf \in [Proc -> {0} \cup put']
    BY <2>1, <2>6 DEF TypeOK
  <2>9. \A q, r \in present : queue'[q].key = queue'[r].key => q = r
    BY <2>4 DEF TypeOK
  <2> QED BY <2>1, <2>2, <2>3, <2>4, <2>5, <2>7, <2>8, <2>9 DEF TypeOK, Msgs, PcState
<1>7. ASSUME NEW p \in Proc, MsgSndFails(p) PROVE TypeOK'
  BY <1>7 DEF MsgSndFails, TypeOK, kernel, objects, threads, history, Set
<1>8. ASSUME NEW p \in Proc, NEW k \in Thread, MsgRcv(p, k) PROVE TypeOK'
  <2>1. PICK j \in 1 .. Len(Msgs(mq[p])) : Receive(p, k, j)
    BY <1>8, FirstWanted
  <2>2. mq[p] \in present
    BY <1>8 DEF MsgRcv, Waiting
  <2>3. /\ UNCHANGED <<file, present, now, mq, ipckey, server, pc, out, filter, joinable, stopped, sent, put,
                       parsed, crossed>>
        /\ buf' = Set(buf, p, Id(mq[p], j))
        /\ old' = old \/ old' = old \cup {Id(mq[p], j)}
        /\ th' = th \/ th' = [th EXCEPT ![p][k] = "parse"]
    BY <2>1 DEF Receive, objects, calls, Msgs, Id
  <2>4. Id(mq[p], j) \in put
    BY <2>2 DEF QueueInv, InOrder
  <2>5. buf' \in [Proc -> {0} \cup put] /\ old' \subseteq put
    BY <2>3, <2>4 DEF TypeOK, Set
  <2>6. th' \in [Proc -> [Thread -> ThreadState]]
    <3>1. th \in [Proc -> [Thread -> ThreadState]] /\ "parse" \in ThreadState
      BY DEF TypeOK, ThreadState
    <3> QED BY <2>3, <3>1
  <2>7. /\ mq[p] \in 1 .. Len(queue)
        /\ queue' \in Seq(Queue) /\ Len(queue') = Len(queue)
        /\ Len(Msgs(mq[p])') = Len(Msgs(mq[p])) - 1
        /\ \A q \in 1 .. Len(queue) : queue'[q].key = queue[q].key
        /\ \A q \in 1 .. Len(queue) : q # mq[p] => Msgs(q)' = Msgs(q)
        /\ Len(Msgs(mq[p])) \in Nat
    BY <2>1, <2>2, RcvFacts, QueueTypes
  <2>8. \A q \in 1 .. Len(queue') : Len(Msgs(q)') <= Capacity
    <3>1. \A q \in 1 .. Len(queue) : Len(Msgs(q)) <= Capacity
      BY DEF TypeOK, Msgs
    <3>2. mq' = mq
      BY <2>3
    <3> HIDE DEF Msgs
    <3> QED BY <2>7, <3>1, <3>2
  <2>9. \A q, r \in present : queue'[q].key = queue'[r].key => q = r
    BY <2>7 DEF TypeOK
  <2> QED BY <2>3, <2>5, <2>6, <2>7, <2>8, <2>9 DEF TypeOK, Msgs, ThreadState
<1>9. ASSUME NEW p \in Proc, NEW k \in Thread, Parse(p, k) PROVE TypeOK'
  <2>1. UNCHANGED <<file, queue, present, now, mq, ipckey, server, pc, out, filter, buf, joinable, stopped,
                    sent, put, old, crossed>>
        /\ th' = [th EXCEPT ![p][k] = "recv"]
    BY <1>9 DEF Parse, kernel, objects, calls
  <2>2. buf[p] \in put
    BY <1>9 DEF Parse, ThreadInv, ThreadsOf, TypeOK
  <2>3. Append(parsed[p], buf[p]) \in Seq(put) /\ parsed' = Set(parsed, p, Append(parsed[p], buf[p]))
    BY <1>9, <2>2, AppendProperties DEF Parse, TypeOK
  <2>4. parsed' \in [Proc -> Seq(put)]
    BY <2>3 DEF TypeOK, Set
  <2>5. th' \in [Proc -> [Thread -> {"none", "recv", "parse"}]]
    BY <2>1, ThreadSetType DEF TypeOK, ThreadState
  <2> QED BY <2>1, <2>4, <2>5 DEF TypeOK
<1>10. ASSUME NEW p \in Proc, HandlerStart(p) \/ HandlerStop(p) \/ HandlerWait(p) PROVE TypeOK'
  <2>1. UNCHANGED <<file, queue, present, now, mq, ipckey, server, out, buf, sent, put, parsed, old, crossed>>
    BY <1>10 DEF HandlerStart, HandlerStop, HandlerWait, kernel, objects, history
  <2>2. pc' = pc \/ \E s \in {"waiting", "terminated"} : pc' = Set(pc, p, s)
    BY <1>10 DEF HandlerStart, HandlerStop, HandlerWait, Terminate
  <2>3. pc' \in [Proc -> PcState]
    BY <2>2 DEF TypeOK, Set, PcState
  <2>4. filter' = filter \/ \E f \in Filters : filter' = Set(filter, p, f)
    BY <1>10 DEF HandlerStart, HandlerStop, HandlerWait
  <2>5. filter' \in [Proc -> Types \cup {0}]
    BY <2>4 DEF TypeOK, Set
  <2>6. joinable' = joinable \/ \E k \in {0} \cup Thread : joinable' = Set(joinable, p, k)
    BY <1>10 DEF HandlerStart, HandlerStop, HandlerWait
  <2>7. joinable' \in [Proc -> {0} \cup Thread]
    BY <2>6 DEF TypeOK, Set
  <2>8. stopped' \subseteq Proc \X Thread
    <3>1. joinable[p] # 0 => joinable[p] \in Thread
      BY DEF TypeOK
    <3> QED BY <1>10, <3>1 DEF HandlerStart, HandlerStop, HandlerWait, TypeOK
  <2>9. \/ th' = th \/ th' = Set(th, p, [k \in Thread |-> "none"])
        \/ \E k \in Thread : th' = [th EXCEPT ![p][k] = "recv"]
    BY <1>10 DEF HandlerStart, HandlerStop, HandlerWait, Terminate
  <2>10. th' \in [Proc -> [Thread -> ThreadState]]
    <3>1. th \in [Proc -> [Thread -> ThreadState]] /\ [k \in Thread |-> "none"] \in [Thread -> ThreadState]
      BY DEF TypeOK, ThreadState
    <3>2. "recv" \in ThreadState
      BY DEF ThreadState
    <3>3. \A f \in [Thread -> ThreadState] : Set(th, p, f) \in [Proc -> [Thread -> ThreadState]]
      BY <3>1 DEF Set
    <3>4. \A k \in Thread : [th EXCEPT ![p][k] = "recv"] \in [Proc -> [Thread -> ThreadState]]
      BY <3>1, <3>2, ThreadSetType
    <3> QED BY <2>9, <3>1, <3>3, <3>4
  <2> QED BY <2>1, <2>3, <2>5, <2>7, <2>8, <2>10 DEF TypeOK, ThreadState, PcState
<1>11. CASE UNCHANGED vars
  BY <1>11 DEF TypeOK, vars
<1> QED
  BY <1>1, <1>2, <1>3, <1>5, <1>6, <1>7, <1>8, <1>9, <1>10, <1>11
     DEF Next, Handler, Control
-----------------------------------------------------------------------------
(* The invariants that types rest on *)

\* A step leaves a sender with one message, its latest.
LEMMA SendingNext ==
  ASSUME TypeOK, SendingInv, OpeningInv, [Next]_vars
  PROVE  SendingInv'
<1> USE QueueAssumption
<1> SUFFICES ASSUME NEW r \in Proc, pc'[r] = "sending"
             PROVE  /\ out'[r] \in Message /\ out'[r].id \in 1 .. Len(sent') /\ sent'[out'[r].id] = r
                    /\ \A id \in put' : sent'[id] = r => id < out'[r].id
  BY DEF SendingInv
<1>1. CASE pc[r] = "sending" /\ out'[r] = out[r] /\ sent' = sent /\ put' = put
  BY <1>1 DEF SendingInv
<1>2. ASSUME NEW p \in Proc, Send(p)
      PROVE  /\ out'[r] \in Message /\ out'[r].id \in 1 .. Len(sent') /\ sent'[out'[r].id] = r
             /\ \A id \in put' : sent'[id] = r => id < out'[r].id
  <2>1. /\ sent \in Seq(Proc) /\ Len(sent) \in Nat /\ put' = put /\ put \subseteq 1 .. Len(sent)
        /\ sent' = Append(sent, p) /\ pc' = Set(pc, p, "sending") /\ Len(sent) < MaxSends
    BY <1>2 DEF Send, TypeOK
  <2>2. /\ Len(sent') = Len(sent) + 1 /\ sent'[Len(sent) + 1] = p
        /\ \A id \in 1 .. Len(sent) : sent'[id] = sent[id]
    BY <2>1, AppendProperties
  <2>3. PICK y \in Types : out' = Set(out, p, [id |-> Len(sent'), type |-> y, time |-> now])
    BY <1>2 DEF Send
  <2>4. CASE r = p
    <3>1. out'[r] = [id |-> Len(sent'), type |-> y, time |-> now]
      BY <2>3, <2>4 DEF TypeOK, Set
    <3>2. out'[r] \in Message /\ out'[r].id = Len(sent) + 1
      BY <2>1, <2>2, <3>1 DEF Message, TypeOK
    <3> QED BY <2>1, <2>2, <2>4, <3>2
  <2>5. CASE r # p
    <3>1. pc[r] = "sending" /\ out'[r] = out[r]
      BY <2>1, <2>3, <2>5 DEF TypeOK, Set
    <3>2. /\ out[r] \in Message /\ out[r].id \in 1 .. Len(sent) /\ sent[out[r].id] = r
          /\ \A id \in put : sent[id] = r => id < out[r].id
      BY <3>1 DEF SendingInv
    <3> QED BY <2>1, <2>2, <3>1, <3>2
  <2> QED BY <2>4, <2>5
<1>3. ASSUME NEW p \in Proc, MsgSnd(p)
      PROVE  /\ out'[r] \in Message /\ out'[r].id \in 1 .. Len(sent') /\ sent'[out'[r].id] = r
             /\ \A id \in put' : sent'[id] = r => id < out'[r].id
  <2>1. /\ sent' = sent /\ put' = put \cup {out[p].id} /\ pc[p] = "sending"
        /\ pc' = Set(pc, p, "idle") /\ out' = Set(out, p, NoMessage)
    BY <1>3 DEF MsgSnd
  <2>2. r # p /\ pc[r] = "sending" /\ out'[r] = out[r]
    BY <2>1 DEF TypeOK, Set
  <2>3. sent[out[p].id] = p
    BY <2>1 DEF SendingInv
  <2> QED BY <2>1, <2>2, <2>3 DEF SendingInv
<1>4. ASSUME NEW p \in Proc, MsgSndFails(p)
      PROVE  pc[r] = "sending" /\ out'[r] = out[r] /\ sent' = sent /\ put' = put
  BY <1>4 DEF MsgSndFails, TypeOK, Set, history
<1>5. ASSUME NEW p \in Proc, Control(p)
      PROVE  pc[r] = "sending" /\ out'[r] = out[r] /\ sent' = sent /\ put' = put
  BY <1>5 DEF Control, HandlerStart, HandlerStop, HandlerWait, Terminate, TypeOK, Set, history
<1>6. ASSUME NEW p \in Proc, Open(p)
      PROVE  pc[r] = "sending" /\ out'[r] = out[r] /\ sent' = sent /\ put' = put
  <2>1. UNCHANGED <<out, sent, put>> /\ \E v \in {"idle", "key", "get", "unlink"} : pc' = Set(pc, p, v)
    BY <1>6, OpeningFacts, GetFacts
  <2> QED BY <2>1 DEF TypeOK, Set
<1>7. ASSUME NEW p \in Proc, Handler(p)
      PROVE  pc[r] = "sending" /\ out'[r] = out[r] /\ sent' = sent /\ put' = put
  BY <1>7 DEF Handler, MsgRcv, Receive, Parse, calls
<1>8. CASE Tick \/ UNCHANGED vars
  <2>1. pc[r] = "sending" /\ out'[r] = out[r] /\ sent' = sent /\ put' = put
    BY <1>8 DEF Tick, vars, calls, history
  <2> QED BY <1>1, <2>1
<1> QED
  BY <1>1, <1>2, <1>3, <1>4, <1>5, <1>6, <1>7, <1>8 DEF Next

\* A step leaves the threads of every object accounted for.
LEMMA ThreadNext ==
  ASSUME TypeOK, QueueInv, ThreadInv, OpeningInv, [Next]_vars
  PROVE  ThreadInv'
<1> USE QueueAssumption
<1> SUFFICES ASSUME NEW r \in Proc PROVE ThreadsOf(r)'
  BY DEF ThreadInv
<1>a. ThreadsOf(r) /\ th \in [Proc -> [Thread -> {"none", "recv", "parse"}]]
  BY DEF ThreadInv, TypeOK
<1>b. 1 \in Thread /\ 2 \in Thread /\ \A k \in Thread : k = 1 \/ k = 2
  BY DEF Thread
<1>1. ASSUME NEW p \in Proc, NEW k \in Thread, MsgRcv(p, k) PROVE ThreadsOf(r)'
  <2>1. PICK j \in 1 .. Len(Msgs(mq[p])) : Receive(p, k, j)
    BY <1>1, FirstWanted
  <2>2. mq[p] \in present /\ th[p][k] = "recv"
    BY <1>1 DEF MsgRcv, Waiting
  <2>3. /\ UNCHANGED <<pc, joinable, stopped, parsed>>
        /\ buf' = Set(buf, p, Id(mq[p], j))
        /\ th' = th \/ th' = [th EXCEPT ![p][k] = "parse"]
    BY <2>1 DEF Receive, calls, Msgs, Id
  <2>4. Id(mq[p], j) # 0
    BY <2>2 DEF QueueInv, InOrder, TypeOK
  <2>5. CASE r = p
    <3>1. buf'[r] # 0
      BY <2>3, <2>4, <2>5 DEF TypeOK, Set
    <3>2. \A l \in Thread : th'[r][l] = "none" <=> th[r][l] = "none"
      BY <1>a, <2>2, <2>3, <2>5
    <3> QED BY <1>a, <1>b, <2>3, <3>1, <3>2 DEF ThreadsOf
  <2>6. CASE r # p
    <3>1. buf'[r] = buf[r] /\ th'[r] = th[r]
      BY <1>a, <2>3, <2>6 DEF TypeOK, Set
    <3> QED BY <1>a, <2>3, <3>1 DEF ThreadsOf
  <2> QED BY <2>5, <2>6
<1>2. ASSUME NEW p \in Proc, NEW k \in Thread, Parse(p, k) PROVE ThreadsOf(r)'
  <2>1. /\ UNCHANGED <<pc, joinable, stopped, buf>> /\ th[p][k] = "parse"
        /\ th' = [th EXCEPT ![p][k] = "recv"]
        /\ parsed' = Set(parsed, p, Append(parsed[p], buf[p]))
    BY <1>2 DEF Parse, calls
  <2>2. CASE r = p
    <3>1. \A l \in Thread : /\ th'[r][l] = "none" <=> th[r][l] = "none"
                            /\ th'[r][l] = "parse" => th[r][l] = "parse"
      BY <1>a, <2>1, <2>2
    <3>2. th[r][1] # "none"
      BY <1>a, <1>b, <2>1, <2>2 DEF ThreadsOf
    <3> QED BY <1>a, <1>b, <2>1, <3>1, <3>2 DEF ThreadsOf
  <2>3. CASE r # p
    <3>1. parsed'[r] = parsed[r] /\ th'[r] = th[r]
      BY <1>a, <2>1, <2>3 DEF TypeOK, Set
    <3> QED BY <1>a, <2>1, <3>1 DEF ThreadsOf
  <2> QED BY <2>2, <2>3
<1>3. ASSUME NEW p \in Proc, Control(p), Terminate(p) PROVE ThreadsOf(r)'
  <2>1. /\ pc' = Set(pc, p, "terminated") /\ th' = Set(th, p, [k \in Thread |-> "none"])
        /\ UNCHANGED <<parsed, buf>> /\ stopped \subseteq stopped'
        /\ \A q \in Proc : q # p => joinable'[q] = joinable[q]
    BY <1>3 DEF Set, TypeOK, Terminate, Control, HandlerStart, HandlerStop, HandlerWait, Idle, history
  <2>2. IF r = p THEN pc'[r] = "terminated" /\ \A k \in Thread : th'[r][k] = "none"
                 ELSE pc'[r] = pc[r] /\ th'[r] = th[r]
    BY <1>a, <2>1 DEF TypeOK, Set
  <2> QED BY <1>a, <1>b, <2>1, <2>2 DEF ThreadsOf
<1>4. ASSUME NEW p \in Proc, HandlerStart(p), ~Terminate(p) PROVE ThreadsOf(r)'
  <2>1. PICK k \in Thread :
          /\ th[p][k] = "none" /\ \A l \in 1 .. k - 1 : th[p][l] # "none"
          /\ th' = [th EXCEPT ![p][k] = "recv"]
          /\ joinable' = Set(joinable, p, k)
    BY <1>4 DEF HandlerStart
  <2>2. UNCHANGED <<pc, stopped, parsed, buf>> /\ joinable[p] = 0 /\ pc[p] # "terminated"
    BY <1>4 DEF HandlerStart, history, Idle
  <2>3. CASE r = p
    <3>1. joinable'[r] = k /\ \A l \in Thread : th'[r][l] = IF l = k THEN "recv" ELSE th[r][l]
      BY <1>a, <2>1, <2>3 DEF TypeOK, Set
    <3>2. CASE k = 1
      <4>1. th[r][2] = "none"
        BY <1>a, <2>1, <2>2, <2>3, <3>2 DEF ThreadsOf
      <4> QED BY <1>a, <1>b, <2>2, <2>3, <3>1, <3>2, <4>1 DEF ThreadsOf
    <3>3. CASE k = 2
      <4>1. th[r][1] # "none"
        BY <2>1, <2>3, <3>3
      <4> QED BY <1>a, <1>b, <2>2, <2>3, <3>1, <3>3, <4>1 DEF ThreadsOf
    <3> QED BY <1>b, <3>2, <3>3
  <2>4. CASE r # p
    <3>1. joinable'[r] = joinable[r] /\ th'[r] = th[r]
      BY <1>a, <2>1, <2>4 DEF TypeOK, Set
    <3> QED BY <1>a, <2>2, <3>1 DEF ThreadsOf
  <2> QED BY <2>3, <2>4
<1>5. ASSUME NEW p \in Proc, HandlerStop(p), ~Terminate(p) PROVE ThreadsOf(r)'
  <2>1. /\ UNCHANGED <<pc, th, parsed, buf>>
        /\ joinable' = Set(joinable, p, 0) /\ stopped' = stopped \cup {<<p, joinable[p]>>}
    BY <1>5 DEF HandlerStop, history
  <2>2. IF r = p THEN joinable[r] = 2 => <<r, 2>> \in stopped' ELSE joinable'[r] = joinable[r]
    BY <2>1 DEF TypeOK, Set
  <2> QED BY <1>a, <2>1, <2>2 DEF ThreadsOf
<1>6. ASSUME NEW p \in Proc, Send(p) \/ MsgSnd(p) \/ MsgSndFails(p) \/ (HandlerWait(p) /\ ~Terminate(p))
      PROVE  ThreadsOf(r)'
  <2>1. UNCHANGED <<th, joinable, stopped, parsed, buf>>
        /\ \E s \in {"idle", "sending", "waiting"} : pc[p] # "terminated" /\ pc' = Set(pc, p, s)
    BY <1>6 DEF Send, MsgSnd, MsgSndFails, HandlerWait, threads, history, Idle
  <2>2. pc'[r] = "terminated" <=> pc[r] = "terminated"
    BY <2>1 DEF TypeOK, Set
  <2> QED BY <1>a, <2>1, <2>2 DEF ThreadsOf
<1>7. CASE Tick \/ UNCHANGED vars
  <2>1. UNCHANGED <<pc, th, joinable, stopped, parsed, buf>>
    BY <1>7 DEF Tick, vars, calls, threads, history
  <2> QED BY <1>a, <2>1 DEF ThreadsOf
<1>8. ASSUME NEW p \in Proc, Open(p) PROVE ThreadsOf(r)'
  <2>1. UNCHANGED <<th, joinable, stopped, parsed, buf>> /\ pc[p] # "terminated"
        /\ \E v \in {"idle", "key", "get", "unlink"} : pc' = Set(pc, p, v)
    BY <1>8, OpeningFacts, GetFacts
  <2>2. pc'[r] = "terminated" <=> pc[r] = "terminated"
    BY <2>1 DEF TypeOK, Set
  <2> QED BY <1>a, <2>1, <2>2 DEF ThreadsOf
<1> QED
  BY <1>1, <1>2, <1>3, <1>4, <1>5, <1>6, <1>7, <1>8 DEF Next, Handler, Control

\* What becomes of mq when p opens a queue: that of others stays.
LEMMA MqOfOthers ==
  ASSUME TypeOK, OpeningInv, NEW p \in Proc, Open(p), NEW r \in Proc, r # p
  PROVE  mq'[r] = mq[r] /\ pc'[r] = pc[r]
<1>1. \E v : pc' = Set(pc, p, v)
  BY OpeningFacts, GetFacts
<1>2. mq' = mq \/ \E q : mq' = Set(mq, p, q)
  BY OpeningFacts, GetFacts
<1> QED BY <1>1, <1>2 DEF TypeOK, Set

\* A step leaves those that open a queue without one, and with a key.
LEMMA OpeningNext ==
  ASSUME TypeOK, OpeningInv, [Next]_vars
  PROVE  OpeningInv'
<1> USE QueueAssumption
<1> SUFFICES ASSUME NEW r \in Proc PROVE Opens(r)'
  BY DEF OpeningInv
<1>1. Opens(r) /\ mq[r] \in 0 .. Len(queue)
  BY DEF OpeningInv, TypeOK
<1>2. CASE /\ UNCHANGED <<mq, present, ipckey, server>>
           /\ pc'[r] = pc[r] \/ pc'[r] \notin {"key", "get", "unlink"}
  BY <1>1, <1>2 DEF Opens
<1>3. CASE Tick \/ UNCHANGED vars
  BY <1>2, <1>3 DEF Tick, vars, kernel, objects, calls
<1>4. ASSUME NEW p \in Proc, Send(p) \/ MsgSnd(p) \/ MsgSndFails(p) PROVE Opens(r)'
  <2>1. UNCHANGED <<mq, present, ipckey, server>> /\ \E v \in {"idle", "sending"} : pc' = Set(pc, p, v)
    BY <1>4 DEF Send, MsgSnd, MsgSndFails, kernel, objects
  <2> QED BY <1>2, <2>1 DEF TypeOK, Set
<1>5. ASSUME NEW p \in Proc, Handler(p) PROVE Opens(r)'
  BY <1>2, <1>5 DEF Handler, MsgRcv, Receive, Parse, kernel, objects, calls
<1>6. ASSUME NEW p \in Proc, Control(p) PROVE Opens(r)'
  <2>1. UNCHANGED <<mq, present, ipckey, server>>
    BY <1>6 DEF Control, HandlerStart, HandlerStop, HandlerWait, kernel, objects
  <2>2. pc' = pc \/ \E v \in {"waiting", "terminated"} : pc' = Set(pc, p, v)
    BY <1>6 DEF Control, HandlerStart, HandlerStop, HandlerWait, Terminate
  <2>3. pc'[r] = pc[r] \/ pc'[r] \notin {"key", "get", "unlink"}
    BY <2>2 DEF TypeOK, Set
  <2> QED BY <1>2, <2>1, <2>3
<1>7. ASSUME NEW p \in Proc, Get(p) PROVE Opens(r)'
  <2>1. /\ pc' = Set(pc, p, "idle") /\ ipckey' = Set(ipckey, p, 0) /\ server' = server
        /\ \/ UNCHANGED <<queue, present>>
           \/ /\ present' = present \cup {Len(queue')}
              /\ Len(queue) \in Nat /\ Len(queue') = Len(queue) + 1
    BY <1>7, GetFacts
  <2>2. CASE r = p
    <3>1. pc'[r] = "idle"
      BY <2>1, <2>2 DEF TypeOK, Set
    <3> QED BY <3>1 DEF Opens
  <2>3. CASE r # p
    <3>1. mq'[r] = mq[r] /\ pc'[r] = pc[r]
      BY <1>7, <2>3, MqOfOthers DEF Open
    <3>2. ipckey'[r] = ipckey[r]
      BY <2>1, <2>3 DEF TypeOK, Set
    <3>3. mq[r] \notin present => mq[r] \notin present'
      BY <1>1, <2>1
    <3> QED BY <1>1, <2>1, <3>1, <3>2, <3>3 DEF Opens
  <2> QED BY <2>2, <2>3
<1>8. ASSUME NEW p \in Proc, Open(p), ~Get(p) PROVE Opens(r)'
  <2>1. mq' = mq /\ present' \subseteq present
    BY <1>8, OpeningFacts
  <2>2. CASE r # p
    <3>1. pc'[r] = pc[r]
      BY <1>8, <2>2, MqOfOthers
    <3>2. ipckey' = ipckey \/ \E v : ipckey' = Set(ipckey, p, v)
      BY <1>8 DEF Open, Create, CreateFails, Connect, Key, Close, Unlink, objects
    <3>3. ipckey'[r] = ipckey[r]
      BY <2>2, <3>2 DEF TypeOK, Set
    <3>4. server' \in {server, server \cup {p}, server \ {p}}
      BY <1>8 DEF Open, Create, CreateFails, Connect, Key, Close, Unlink, objects
    <3> QED BY <1>1, <2>1, <2>2, <3>1, <3>3, <3>4 DEF Opens
  <2>3. CASE r = p /\ (Create(p) \/ Connect(p))
    <3>1. mq[p] \notin present /\ pc'[p] = "key"
      BY <2>3 DEF Create, Connect, Unopened, TypeOK, Set
    <3> QED BY <2>1, <2>3, <3>1 DEF Opens
  <2>4. CASE r = p /\ Key(p)
    <3>1. /\ pc[p] = "key" /\ ipckey' = Set(ipckey, p, file)
          /\ pc' = Set(pc, p, IF file # 0 THEN "get" ELSE "idle")
      BY <2>4 DEF Key
    <3>2. pc'[p] = (IF file # 0 THEN "get" ELSE "idle") /\ ipckey'[p] = file
      BY <3>1 DEF TypeOK, Set
    <3>3. mq[p] \notin present
      BY <1>1, <2>4, <3>1 DEF Opens
    <3> QED BY <2>1, <2>4, <3>2, <3>3 DEF Opens
  <2>5. CASE r = p /\ (CreateFails(p) \/ Close(p) \/ Unlink(p))
    <3>1. pc'[p] \notin {"key", "get"} /\ (pc'[p] = "unlink" => p \in server')
      BY <2>5 DEF CreateFails, Close, Unlink, Unopened, Idle, objects, calls, TypeOK, Set
    <3> QED BY <2>5, <3>1 DEF Opens
  <2> QED BY <1>8, <2>2, <2>3, <2>4, <2>5 DEF Open
<1> QED
  BY <1>3, <1>4, <1>5, <1>6, <1>7, <1>8 DEF Next, Open

\* A step leaves the queues in order.
LEMMA QueueNext ==
  ASSUME TypeOK, SendingInv, QueueInv, OpeningInv, [Next]_vars
  PROVE  QueueInv'
<1> USE QueueAssumption
<1> SUFFICES ASSUME NEW q \in present', NEW j \in 1 .. Len(Msgs(q)') PROVE InOrder(q, j)'
  BY DEF QueueInv
<1>a. /\ put \subseteq 1 .. Len(sent) /\ Len(sent) \in Nat
      /\ \A id \in put : id \in Nat /\ sent[id] \in Proc
      /\ mq \in [Proc -> 0 .. Len(queue)] /\ present \subseteq 1 .. Len(queue)
  BY DEF TypeOK
<1>b. \A r \in present : Len(Msgs(r)) \in Nat
  BY QueueTypes DEF TypeOK
<1>1. ASSUME NEW p \in Proc, Get(p) PROVE InOrder(q, j)'
  <2>1. /\ UNCHANGED <<sent, put>> /\ mq[p] \notin present
        /\ \A r \in Proc : r # p => mq'[r] = mq[r]
    BY <1>1, GetFacts, MqOfOthers DEF Open
  <2>2. CASE q \in present /\ Msgs(q)' = Msgs(q)
    <3>1. InOrder(q, j)
      BY <2>2 DEF QueueInv
    <3>2. \A i \in 1 .. j : Id(q, i)' = Id(q, i)
      BY <2>2 DEF Id
    <3>3. \A i \in 1 .. j : Id(q, i)' = Id(q, i) /\ j \in 1 .. j /\ i \in 1 .. j
      BY <3>2
    <3>4. Id(q, j) \in put /\ mq[sent[Id(q, j)]] = q /\ sent[Id(q, j)] \in Proc
      BY <1>a, <3>1 DEF InOrder
    <3>5. mq'[sent[Id(q, j)]] = q
      BY <1>a, <2>1, <2>2, <3>4
    <3>6. \A i \in 1 .. j - 1 : i \in 1 .. j /\ j \in 1 .. j
      OBVIOUS
    <3> QED BY <2>1, <3>1, <3>3, <3>4, <3>5, <3>6 DEF InOrder
  <2>3. CASE ~(q \in present /\ Msgs(q)' = Msgs(q))
    <3>1. ~UNCHANGED <<queue, present>>
      BY <2>3 DEF Msgs
    <3>2. /\ present' = present \cup {Len(queue')} /\ queue'[Len(queue')].msgs = <<>>
          /\ \A r \in 1 .. Len(queue) : queue'[r] = queue[r]
      BY <1>1, <3>1, GetFacts
    <3>3. q = Len(queue')
      BY <1>a, <2>3, <3>2 DEF Msgs
    <3>4. Msgs(q)' = <<>>
      BY <3>2, <3>3 DEF Msgs
    <3> QED BY <3>4, EmptySeq
  <2> QED BY <2>2, <2>3
<1>2. ASSUME NEW p \in Proc, Open(p), ~Get(p) PROVE InOrder(q, j)'
  <2>1. UNCHANGED <<queue, mq, sent, put>> /\ q \in present
    BY <1>2, OpeningFacts
  <2> QED BY <2>1 DEF QueueInv, InOrder, Msgs, Id
<1>3. ASSUME NEW p \in Proc, Send(p) PROVE InOrder(q, j)'
  <2>1. UNCHANGED <<queue, present, mq, put>> /\ sent' = Append(sent, p) /\ sent \in Seq(Proc)
    BY <1>3 DEF Send, kernel, objects, TypeOK
  <2>2. \A id \in put : sent'[id] = sent[id]
    BY <1>a, <2>1, AppendProperties
  <2>3. \A i \in 1 .. j : InOrder(q, i) /\ Id(q, i)' = Id(q, i)
    BY <1>b, <2>1 DEF QueueInv, Msgs, Id
  <2>4. \A i \in 1 .. j : Id(q, i) \in put
    BY <2>3 DEF InOrder
  <2>5. \A i \in 1 .. j : sent'[Id(q, i)'] = sent[Id(q, i)]
    BY <2>2, <2>3, <2>4
  <2>6. j \in 1 .. j /\ \A i \in 1 .. j - 1 : i \in 1 .. j
    OBVIOUS
  <2> QED BY <2>1, <2>3, <2>5, <2>6 DEF InOrder
<1>4. ASSUME NEW p \in Proc, MsgSnd(p) PROVE InOrder(q, j)'
  <2>1. /\ UNCHANGED <<present, mq, sent>> /\ put' = put \cup {out[p].id}
        /\ mq[p] \in present /\ pc[p] = "sending"
    BY <1>4 DEF MsgSnd, objects
  <2>2. /\ out[p].id \in Nat /\ sent[out[p].id] = p
        /\ \A id \in put : sent[id] = p => id < out[p].id
    BY <2>1 DEF SendingInv
  <2>3. /\ Len(Msgs(mq[p])') = Len(Msgs(mq[p])) + 1
        /\ \A i \in 1 .. Len(Msgs(mq[p])) : Msgs(mq[p])'[i] = Msgs(mq[p])[i]
        /\ Msgs(mq[p])'[Len(Msgs(mq[p])) + 1] = out[p]
        /\ \A r \in 1 .. Len(queue) : r # mq[p] => Msgs(r)' = Msgs(r)
    BY <1>4, SndFacts
  <2>4. CASE q # mq[p] \/ j <= Len(Msgs(q))
    <3>1. j \in 1 .. Len(Msgs(q)) /\ \A i \in 1 .. j : Id(q, i)' = Id(q, i)
      BY <1>a, <1>b, <2>1, <2>3, <2>4 DEF Id
    <3>2. InOrder(q, j)
      BY <2>1, <3>1 DEF QueueInv
    <3> QED BY <2>1, <3>1, <3>2 DEF InOrder
  <2>5. CASE q = mq[p] /\ ~(j <= Len(Msgs(q)))
    <3>1. Len(Msgs(q)) \in Nat /\ Len(Msgs(q)') = Len(Msgs(q)) + 1
      BY <1>b, <2>1, <2>3, <2>5
    <3>2. j = Len(Msgs(q)) + 1
      BY <2>5, <3>1
    <3>3. Id(q, j)' = out[p].id /\ \A i \in 1 .. j - 1 : Id(q, i)' = Id(q, i)
      BY <2>1, <2>3, <2>5, <3>1, <3>2 DEF Id
    <3>4. \A i \in 1 .. j - 1 : Id(q, i) \in put
      BY <2>1, <2>5, <3>1, <3>2 DEF QueueInv, InOrder
    <3> QED BY <2>1, <2>2, <2>5, <3>3, <3>4 DEF InOrder
  <2> QED BY <2>4, <2>5
<1>5. ASSUME NEW p \in Proc, NEW k \in Thread, MsgRcv(p, k) PROVE InOrder(q, j)'
  <2>1. PICK f \in 1 .. Len(Msgs(mq[p])) : Receive(p, k, f)
    BY <1>5, FirstWanted
  <2>2. UNCHANGED <<present, mq, sent, put>> /\ mq[p] \in present
    BY <1>5, <2>1 DEF Receive, objects, MsgRcv, Waiting
  <2>3. /\ Len(Msgs(mq[p])') = Len(Msgs(mq[p])) - 1
        /\ \A i \in 1 .. Len(Msgs(mq[p])) - 1 :
             Msgs(mq[p])'[i] = IF i < f THEN Msgs(mq[p])[i] ELSE Msgs(mq[p])[i + 1]
        /\ \A r \in 1 .. Len(queue) : r # mq[p] => Msgs(r)' = Msgs(r)
    BY <2>1, <2>2, RcvFacts
  <2>4. CASE q # mq[p]
    <3>1. j \in 1 .. Len(Msgs(q)) /\ \A i \in 1 .. j : Id(q, i)' = Id(q, i)
      BY <1>a, <2>2, <2>3, <2>4 DEF Id
    <3>2. InOrder(q, j)
      BY <2>2, <3>1 DEF QueueInv
    <3> QED BY <2>2, <3>1, <3>2 DEF InOrder
  <2>5. CASE q = mq[p]
    <3> DEFINE Was(i) == IF i < f THEN i ELSE i + 1
    <3>1. Len(Msgs(q)) \in Nat /\ j \in 1 .. Len(Msgs(q)) - 1
      BY <1>b, <2>2, <2>3, <2>5
    <3>2. /\ Was(j) \in 1 .. Len(Msgs(q)) /\ \A i \in 1 .. j - 1 : Was(i) \in 1 .. Was(j) - 1
      BY <3>1
    <3>3. \A i \in 1 .. j : Id(q, i)' = Id(q, Was(i))
      BY <2>2, <2>3, <2>5, <3>1 DEF Id
    <3> HIDE DEF Was
    <3>4. InOrder(q, Was(j))
      BY <2>2, <2>5, <3>2 DEF QueueInv
    <3> QED BY <2>2, <3>1, <3>2, <3>3, <3>4 DEF InOrder
  <2> QED BY <2>4, <2>5
<1>6. CASE \/ Tick \/ UNCHANGED vars
           \/ \E p \in Proc : MsgSndFails(p) \/ Control(p) \/ \E k \in Thread : Parse(p, k)
  <2>1. UNCHANGED <<queue, present, mq, sent, put>>
    BY <1>6 DEF Tick, vars, MsgSndFails, Control, HandlerStart, HandlerStop, HandlerWait, Parse, kernel,
                objects, history
  <2> QED BY <2>1 DEF QueueInv, InOrder, Msgs, Id
<1> QED
  BY <1>1, <1>2, <1>3, <1>4, <1>5, <1>6 DEF Next, Handler
-----------------------------------------------------------------------------
(* Types, and one queue at a time *)

LEMMA Start == Init => IInv
<1> SUFFICES ASSUME Init PROVE IInv
  OBVIOUS
<1> USE QueueAssumption
<1>1. /\ queue \in Seq(Queue) /\ Len(queue) = 0 /\ sent \in Seq(Proc) /\ Len(sent) = 0
      /\ \A S : <<>> \in Seq(S)
  BY EmptySeq DEF Init
<1>2. TypeOK
  <2>1. /\ queue \in Seq(Queue) /\ Len(queue) <= MaxQueues /\ sent \in Seq(Proc) /\ Len(sent) <= MaxSends
        /\ \A q \in 1 .. Len(queue) : Len(queue[q].msgs) <= Capacity
    BY <1>1
  <2>2. /\ parsed \in [Proc -> Seq(put)] /\ out \in [Proc -> Message \cup {NoMessage}]
        /\ buf \in [Proc -> {0} \cup put] /\ mq \in [Proc -> 0 .. Len(queue)]
    <3>1. <<>> \in Seq(put) /\ 0 \in 0 .. Len(queue)
      BY <1>1, EmptySeq
    <3> QED BY <3>1 DEF Init
  <2>3. /\ file \in Inodes \cup {0} /\ ipckey \in [Proc -> Inodes \cup {0}]
        /\ now \in 0 .. MaxClock /\ server \subseteq Proc
        /\ filter \in [Proc -> Types \cup {0}] /\ joinable \in [Proc -> {0} \cup Thread]
        /\ pc \in [Proc -> PcState]
        /\ th \in [Proc -> [Thread -> {"none", "recv", "parse"}]]
    BY DEF Init, PcState
  <2>4. /\ present = {} /\ stopped = {} /\ put = {} /\ old = {} /\ crossed \in BOOLEAN
    BY DEF Init
  <2> QED BY <2>1, <2>2, <2>3, <2>4 DEF TypeOK, PcState
<1>3. SendingInv /\ QueueInv /\ OpeningInv
  BY DEF Init, SendingInv, QueueInv, OpeningInv, Opens
<1>4. ThreadInv
  BY DEF Init, ThreadInv, ThreadsOf, Thread
<1> QED BY <1>2, <1>3, <1>4 DEF IInv

\* The invariant that everything below rests on.
THEOREM Inductive == Spec => []IInv
<1>1. IInv /\ [Next]_vars => IInv'
  BY TypeNext, SendingNext, ThreadNext, QueueNext, OpeningNext DEF IInv
<1> QED BY Start, <1>1, PTL DEF Spec

\* Every variable keeps its type: no key is used by two queues at a time, no queue
\* holds more than it has room for, and the parser is only given what was put.
THEOREM TypeCorrect == Spec => []TypeOK
<1>1. IInv => TypeOK
  BY DEF IInv
<1> QED BY Inductive, <1>1, PTL

\* As long as no two servers have opened or closed across each other: one of them at
\* most is inside pm_create or pm_close; there it has the file, then the key of the
\* file, and removes the file when there is no queue; and a queue that is present is
\* the one of the file.
Alone == \A p, r \in Proc : Busy(p) /\ Busy(r) => p = r

Leads(p) ==
  Busy(p) =>
    /\ pc[p] = "key" => file # 0
    /\ pc[p] = "get" => file # 0 /\ ipckey[p] = file
    /\ pc[p] = "unlink" => present = {}

FileInv == ~crossed => /\ Alone
                       /\ \A p \in Proc : Leads(p)
                       /\ \A q \in present : file = queue[q].key

\* Steps that open and close nothing.
LEMMA FileElsewhere ==
  ASSUME IInv, FileInv, [Next]_vars, \A p \in Proc : ~Open(p)
  PROVE  FileInv'
<1> USE QueueAssumption
<1> TypeOK /\ SendingInv
  BY DEF IInv
<1> SUFFICES ASSUME ~crossed'
             PROVE  Alone' /\ (\A p \in Proc : Leads(p)') /\ \A q \in present' : file' = queue'[q].key
  BY DEF FileInv
<1>1. UNCHANGED <<file, present, ipckey, server, crossed>>
  BY DEF Next, vars, Tick, Send, MsgSnd, MsgSndFails, Handler, MsgRcv, Receive, Parse, Control,
         HandlerStart, HandlerStop, HandlerWait, kernel, objects, history
<1>2. \A r \in Proc : pc'[r] = pc[r] \/ pc'[r] \notin {"key", "get", "unlink"}
  <2>1. \/ pc' = pc
        \/ \E p \in Proc, v \in {"idle", "sending", "waiting", "terminated"} : pc' = Set(pc, p, v)
    BY DEF Next, vars, Tick, Send, MsgSnd, MsgSndFails, Handler, MsgRcv, Receive, Parse, Control,
           HandlerStart, HandlerStop, HandlerWait, Terminate, calls
  <2> QED BY <2>1 DEF TypeOK, Set
<1>3. \A r \in Proc : Busy(r)' => Busy(r) /\ pc'[r] = pc[r]
  BY <1>1, <1>2 DEF Busy
<1>4. \A q \in 1 .. Len(queue) : queue'[q].key = queue[q].key
  <2>1. ASSUME NEW p \in Proc, NEW k \in Thread, MsgRcv(p, k)
        PROVE  \A q \in 1 .. Len(queue) : queue'[q].key = queue[q].key
    <3>1. PICK j \in 1 .. Len(Msgs(mq[p])) : Receive(p, k, j)
      BY <2>1, FirstWanted
    <3>2. mq[p] \in present
      BY <2>1 DEF MsgRcv, Waiting
    <3> QED BY <3>1, <3>2, RcvFacts
  <2>2. ASSUME NEW p \in Proc, MsgSnd(p)
        PROVE  \A q \in 1 .. Len(queue) : queue'[q].key = queue[q].key
    BY <2>2, SndFacts
  <2>3. CASE \A p \in Proc : ~MsgSnd(p) /\ \A k \in Thread : ~MsgRcv(p, k)
    <3>1. queue' = queue
      BY <2>3 DEF Next, vars, Tick, Send, MsgSndFails, Handler, Parse, Control, HandlerStart,
                  HandlerStop, HandlerWait, kernel
    <3> QED BY <3>1
  <2> QED BY <2>1, <2>2, <2>3
<1>5. Alone /\ (\A p \in Proc : Leads(p)) /\ \A q \in present : file = queue[q].key
  BY <1>1 DEF FileInv
<1>6. Alone'
  BY <1>3, <1>5 DEF Alone
<1>7. \A p \in Proc : Leads(p)'
  BY <1>1, <1>3, <1>5 DEF Leads
<1>8. \A q \in present' : file' = queue'[q].key
  BY <1>1, <1>4, <1>5 DEF TypeOK
<1> QED BY <1>6, <1>7, <1>8

\* When p opens or closes, the other servers are where they were.
LEMMA OthersBusy ==
  ASSUME TypeOK, OpeningInv, NEW p \in Proc, Open(p), NEW r \in Proc, r # p
  PROVE  /\ Busy(r)' <=> Busy(r)
         /\ pc'[r] = pc[r] /\ ipckey'[r] = ipckey[r]
<1>1. pc'[r] = pc[r]
  BY MqOfOthers
<1>2. server' \in {server, server \cup {p}, server \ {p}}
  BY DEF Open, Create, CreateFails, Connect, Key, Get, Close, Unlink, objects
<1>3. ipckey' = ipckey \/ \E v : ipckey' = Set(ipckey, p, v)
  BY DEF Open, Create, CreateFails, Connect, Key, Get, Close, Unlink, objects
<1>4. ipckey'[r] = ipckey[r]
  BY <1>3 DEF TypeOK, Set
<1> QED BY <1>1, <1>2, <1>4 DEF Busy

LEMMA FileNext ==
  ASSUME IInv, FileInv, [Next]_vars
  PROVE  FileInv'
<1> USE QueueAssumption
<1> TypeOK /\ OpeningInv
  BY DEF IInv
<1>1. ASSUME NEW p \in Proc, Open(p), ~crossed'
      PROVE  Alone' /\ (\A r \in Proc : Leads(r)') /\ \A q \in present' : file' = queue'[q].key
  <2>1. /\ ~crossed /\ Alone /\ \A r \in Proc : Leads(r)
        /\ \A q \in present : file = queue[q].key
    <3>1. ~crossed
      BY <1>1 DEF Open, Create, CreateFails, Connect, Key, Get, Close, Unlink, history
    <3> QED BY <3>1 DEF FileInv
  <2>2. \A r \in Proc : r # p => (Busy(r)' <=> Busy(r)) /\ pc'[r] = pc[r] /\ ipckey'[r] = ipckey[r]
    BY <1>1, OthersBusy
  <2>3. present \subseteq 1 .. Len(queue)
    BY DEF TypeOK
  <2>10. \A q \in present : queue[q].key # 0
    BY <2>3, QueueTypes
  <2>4. CASE Create(p)
    <3>1. /\ \A r \in Proc : r # p => ~Busy(r)
          /\ UNCHANGED <<queue, present>> /\ pc' = Set(pc, p, "key")
          /\ file' # 0 /\ (file # 0 => file' = file)
      BY <1>1, <2>4 DEF Create, Across, Set, TypeOK
    <3>2. pc'[p] = "key"
      BY <3>1 DEF TypeOK, Set
    <3>3. \A r \in Proc : Busy(r)' => r = p
      BY <2>2, <3>1
    <3>4. \A q \in present' : file' = queue'[q].key
      BY <2>1, <2>10, <3>1
    <3> QED BY <3>1, <3>2, <3>3, <3>4 DEF Alone, Leads
  <2>5. CASE CreateFails(p) \/ Connect(p)
    <3>1. UNCHANGED <<file, queue, present>>
      BY <2>5 DEF CreateFails, Connect, kernel
    <3>2. ~Busy(p)'
      BY <2>5 DEF CreateFails, Connect, Unopened, Idle, Busy, calls
    <3>3. \A r \in Proc : Busy(r)' => r # p /\ Busy(r)
      BY <2>2, <3>2
    <3> QED BY <2>1, <2>2, <3>1, <3>3 DEF Alone, Leads
  <2>6. CASE Key(p)
    <3>1. /\ UNCHANGED <<file, queue, present, server>> /\ pc[p] = "key"
          /\ ipckey' = Set(ipckey, p, file)
          /\ pc' = Set(pc, p, IF file # 0 THEN "get" ELSE "idle")
      BY <2>6 DEF Key, kernel
    <3>2. pc'[p] = (IF file # 0 THEN "get" ELSE "idle") /\ ipckey'[p] = file
      BY <3>1 DEF TypeOK, Set
    <3>3. \A r \in Proc : Busy(r)' => Busy(r)
      BY <2>2, <3>1 DEF Busy
    <3>4. Leads(p)'
      BY <3>1, <3>2 DEF Leads
    <3>5. \A r \in Proc : r # p => Leads(r)'
      BY <2>1, <2>2, <3>1 DEF Leads
    <3>6. Alone'
      BY <2>1, <3>3 DEF Alone
    <3> QED BY <2>1, <3>1, <3>4, <3>5, <3>6
  <2>7. CASE Get(p)
    <3>1. /\ UNCHANGED <<file, server>> /\ pc[p] = "get" /\ pc' = Set(pc, p, "idle")
          /\ \/ UNCHANGED <<queue, present>>
             \/ /\ p \in server /\ Under(ipckey[p]) = {}
                /\ present' = present \cup {Len(queue')}
                /\ \A q \in 1 .. Len(queue) : queue'[q] = queue[q]
                /\ queue'[Len(queue')].key = ipckey[p]
      BY <2>7, GetFacts
    <3>2. ~Busy(p)'
      BY <3>1 DEF Busy, TypeOK, Set
    <3>3. \A r \in Proc : Busy(r)' => r # p /\ Busy(r)
      BY <2>2, <3>2
    <3>4. CASE UNCHANGED <<queue, present>>
      BY <2>1, <2>2, <3>1, <3>3, <3>4 DEF Alone, Leads
    <3>5. CASE ~UNCHANGED <<queue, present>>
      <4>1. Busy(p)
        BY <3>1, <3>5 DEF Busy
      <4>2. \A r \in Proc : ~Busy(r)'
        BY <2>1, <3>3, <4>1 DEF Alone
      <4>3. ipckey[p] = file
        BY <2>1, <3>1, <4>1 DEF Leads
      <4>4. \A q \in present' : file' = queue'[q].key
        BY <2>1, <2>3, <3>1, <3>5, <4>3
      <4> QED BY <4>2, <4>4 DEF Alone, Leads
    <3> QED BY <3>4, <3>5
  <2>8. CASE Close(p)
    <3>1. /\ UNCHANGED <<file, queue, server>> /\ present' = present \ {mq[p]}
          /\ pc[p] = "idle" /\ pc' = Set(pc, p, IF p \in server THEN "unlink" ELSE "idle")
          /\ p \in server => ~Across(p) /\ present' = {}
      BY <1>1, <2>8 DEF Close, objects, Idle
    <3>2. pc'[p] = (IF p \in server THEN "unlink" ELSE "idle")
      BY <3>1 DEF TypeOK, Set
    <3>3. \A q \in present' : file' = queue'[q].key
      BY <2>1, <3>1
    <3>4. CASE p \in server
      <4>1. \A r \in Proc : Busy(r)' => r = p
        BY <2>2, <3>1, <3>4 DEF Across
      <4> QED BY <3>1, <3>2, <3>3, <3>4, <4>1 DEF Alone, Leads
    <3>5. CASE p \notin server
      <4>1. \A r \in Proc : Busy(r)' => r # p /\ Busy(r)
        BY <2>2, <3>1, <3>5 DEF Busy
      <4>2. present' \subseteq present
        BY <3>1
      <4> QED BY <2>1, <2>2, <3>1, <3>3, <4>1, <4>2 DEF Alone, Leads
    <3> QED BY <3>4, <3>5
  <2>9. CASE Unlink(p)
    <3>1. /\ pc[p] = "unlink" /\ pc' = Set(pc, p, "idle") /\ UNCHANGED <<queue, present, server>>
      BY <2>9 DEF Unlink, objects
    <3>2. ~Busy(p)'
      BY <3>1 DEF Busy, TypeOK, Set
    <3>3. CASE p \in server
      <4>1. Busy(p) /\ present = {}
        BY <2>1, <3>1, <3>3 DEF Busy, Leads
      <4>2. \A r \in Proc : ~Busy(r)'
        BY <2>1, <2>2, <3>2, <4>1 DEF Alone
      <4> QED BY <3>1, <4>1, <4>2 DEF Alone, Leads
    <3>4. p \in server
      BY <3>1 DEF OpeningInv, Opens
    <3> QED BY <3>3, <3>4
  <2> QED BY <1>1, <2>4, <2>5, <2>6, <2>7, <2>8, <2>9 DEF Open
<1> QED BY <1>1, FileElsewhere DEF FileInv

\* There is one queue at a time, the one that the file leads to, as long as servers
\* do not open and close across each other.
THEOREM OneQueueAtATime == Spec => []OneQueue
<1>1. Init => FileInv
  BY DEF Init, FileInv, Alone, Leads, Busy
<1>2. IInv /\ FileInv /\ [Next]_vars => FileInv'
  BY FileNext
<1>3. FileInv => OneQueue
  BY DEF FileInv, OneQueue
<1> QED BY Inductive, <1>1, <1>2, <1>3, PTL DEF Spec
-----------------------------------------------------------------------------
(* Once, and in order *)

\* An object that has had a second handler thread has had it.
LEMMA OneHandlerBefore ==
  ASSUME TypeOK, [Next]_vars, OneHandler'
  PROVE  OneHandler
<1> SUFFICES ASSUME NEW r \in Proc PROVE joinable[r] # 2 /\ <<r, 2>> \notin stopped
  BY DEF OneHandler
<1>1. joinable'[r] # 2 /\ <<r, 2>> \notin stopped'
  BY DEF OneHandler
<1>2. CASE UNCHANGED <<joinable, stopped>>
  BY <1>1, <1>2
<1>3. ASSUME NEW p \in Proc, Control(p) PROVE joinable[r] # 2 /\ <<r, 2>> \notin stopped
  <2>1. CASE HandlerStart(p)
    BY <1>1, <2>1 DEF HandlerStart, TypeOK, Set
  <2>2. CASE HandlerStop(p)
    BY <1>1, <2>2 DEF HandlerStop, TypeOK, Set
  <2>3. CASE HandlerWait(p)
    BY <1>1, <2>3 DEF HandlerWait
  <2> QED BY <1>3, <2>1, <2>2, <2>3 DEF Control
<1>4. CASE Tick \/ UNCHANGED vars
  BY <1>2, <1>4 DEF Tick, vars, threads
<1>5. ASSUME NEW p \in Proc, Open(p) PROVE joinable[r] # 2 /\ <<r, 2>> \notin stopped
  BY <1>2, <1>5 DEF Open, Create, CreateFails, Connect, Key, Get, Close, Unlink, threads
<1>6. ASSUME NEW p \in Proc, Send(p) \/ MsgSnd(p) \/ MsgSndFails(p)
      PROVE  joinable[r] # 2 /\ <<r, 2>> \notin stopped
  BY <1>2, <1>6 DEF Send, MsgSnd, MsgSndFails, threads
<1>7. ASSUME NEW p \in Proc, Handler(p) PROVE joinable[r] # 2 /\ <<r, 2>> \notin stopped
  BY <1>2, <1>7 DEF Handler, MsgRcv, Receive, Parse
<1> QED BY <1>3, <1>4, <1>5, <1>6, <1>7 DEF Next

LEMMA PutNumbers ==
  ASSUME TypeOK
  PROVE  \A id \in put : id \in Nat
<1>1. put \subseteq 1 .. Len(sent) /\ Len(sent) \in Nat
  BY DEF TypeOK
<1> QED BY <1>1

\* A message that was put in a queue keeps its sender, and stays put.
LEMMA PutStays ==
  ASSUME IInv, [Next]_vars
  PROVE  put \subseteq put' /\ \A id \in put : sent'[id] = sent[id]
<1>1. CASE UNCHANGED <<sent, put>>
  BY <1>1
<1>2. ASSUME NEW p \in Proc, Send(p) PROVE put \subseteq put' /\ \A id \in put : sent'[id] = sent[id]
  <2>1. sent' = Append(sent, p) /\ put' = put /\ sent \in Seq(Proc) /\ put \subseteq 1 .. Len(sent)
    BY <1>2 DEF Send, IInv, TypeOK
  <2> QED BY <2>1, AppendProperties
<1>3. ASSUME NEW p \in Proc, MsgSnd(p) PROVE put \subseteq put' /\ \A id \in put : sent'[id] = sent[id]
  BY <1>3 DEF MsgSnd
<1>4. CASE Tick \/ UNCHANGED vars
  BY <1>1, <1>4 DEF Tick, vars, history
<1>5. ASSUME NEW p \in Proc, Open(p) \/ MsgSndFails(p) PROVE UNCHANGED <<sent, put>>
  BY <1>5 DEF Open, Create, CreateFails, Connect, Key, Get, Close, Unlink, MsgSndFails, history
<1>6. ASSUME NEW p \in Proc, Handler(p) PROVE UNCHANGED <<sent, put>>
  BY <1>6 DEF Handler, MsgRcv, Receive, Parse
<1>7. ASSUME NEW p \in Proc, Control(p) PROVE UNCHANGED <<sent, put>>
  BY <1>7 DEF Control, HandlerStart, HandlerStop, HandlerWait, history
<1> QED BY <1>1, <1>2, <1>3, <1>4, <1>5, <1>6, <1>7 DEF Next

\* What a receipt leaves in the queues was there before.
LEMMA RcvLeaves ==
  ASSUME TypeOK, NEW p \in Proc, NEW k \in Thread, MsgRcv(p, k),
         NEW q \in present', NEW j \in 1 .. Len(Msgs(q)')
  PROVE  q \in present /\ \E i \in 1 .. Len(Msgs(q)) : Msgs(q)'[j] = Msgs(q)[i]
<1>a. /\ mq \in [Proc -> 0 .. Len(queue)] /\ present \subseteq 1 .. Len(queue)
      /\ \A r \in present : Len(Msgs(r)) \in Nat
  BY QueueTypes DEF TypeOK
<1>1. PICK f \in 1 .. Len(Msgs(mq[p])) : Receive(p, k, f)
  BY FirstWanted
<1>2. UNCHANGED <<present, mq>> /\ mq[p] \in present
  BY <1>1 DEF Receive, objects, MsgRcv, Waiting
<1>3. /\ Len(Msgs(mq[p])') = Len(Msgs(mq[p])) - 1
      /\ \A i \in 1 .. Len(Msgs(mq[p])) - 1 :
           Msgs(mq[p])'[i] = IF i < f THEN Msgs(mq[p])[i] ELSE Msgs(mq[p])[i + 1]
      /\ \A r \in 1 .. Len(queue) : r # mq[p] => Msgs(r)' = Msgs(r)
  BY <1>1, <1>2, RcvFacts
<1>4. CASE q # mq[p]
  BY <1>a, <1>2, <1>3, <1>4
<1>5. CASE q = mq[p]
  <2>1. Len(Msgs(q)) \in Nat /\ j \in 1 .. Len(Msgs(q)) - 1
    BY <1>a, <1>2, <1>3, <1>5
  <2>2. j \in 1 .. Len(Msgs(q)) /\ j + 1 \in 1 .. Len(Msgs(q))
    BY <2>1
  <2>3. Msgs(q)'[j] = Msgs(q)[j] \/ Msgs(q)'[j] = Msgs(q)[j + 1]
    BY <1>2, <1>3, <1>5, <2>1
  <2> QED BY <1>2, <1>5, <2>2, <2>3
<1> QED BY <1>4, <1>5

\* A message in a queue after a step was in that queue before it, or is later than
\* all that its sender had put in a queue.
Fresh(q, j) == \A id \in put : sent[id] = sent'[Id(q, j)'] => id < Id(q, j)'

LEMMA QueuedBefore ==
  ASSUME IInv, [Next]_vars, NEW q \in present', NEW j \in 1 .. Len(Msgs(q)')
  PROVE  \/ q \in present /\ \E i \in 1 .. Len(Msgs(q)) : Msgs(q)'[j] = Msgs(q)[i]
         \/ Fresh(q, j)
<1> TypeOK /\ SendingInv
  BY DEF IInv
<1>a. /\ mq \in [Proc -> 0 .. Len(queue)] /\ present \subseteq 1 .. Len(queue)
      /\ \A r \in present : Len(Msgs(r)) \in Nat
  BY QueueTypes DEF TypeOK
<1>1. CASE q \in present /\ Msgs(q)' = Msgs(q)
  BY <1>1
<1>2. ASSUME NEW p \in Proc, Get(p), ~(q \in present /\ Msgs(q)' = Msgs(q)) PROVE FALSE
  <2>1. ~UNCHANGED <<queue, present>>
    BY <1>2 DEF Msgs
  <2>2. /\ present' = present \cup {Len(queue')} /\ queue'[Len(queue')].msgs = <<>>
        /\ \A r \in 1 .. Len(queue) : queue'[r] = queue[r]
    BY <1>2, <2>1, GetFacts DEF IInv
  <2>3. q = Len(queue')
    BY <1>a, <1>2, <2>2 DEF Msgs
  <2>4. Msgs(q)' = <<>>
    BY <2>2, <2>3 DEF Msgs
  <2> QED BY <2>4, EmptySeq
<1>3. ASSUME NEW p \in Proc, MsgSnd(p)
      PROVE  \/ q \in present /\ \E i \in 1 .. Len(Msgs(q)) : Msgs(q)'[j] = Msgs(q)[i]
             \/ Fresh(q, j)
  <2>1. UNCHANGED <<present, mq, sent>> /\ mq[p] \in present /\ pc[p] = "sending"
    BY <1>3 DEF MsgSnd, objects
  <2>2. sent[out[p].id] = p /\ \A id \in put : sent[id] = p => id < out[p].id
    BY <2>1 DEF SendingInv
  <2>3. /\ Len(Msgs(mq[p])') = Len(Msgs(mq[p])) + 1
        /\ \A i \in 1 .. Len(Msgs(mq[p])) : Msgs(mq[p])'[i] = Msgs(mq[p])[i]
        /\ Msgs(mq[p])'[Len(Msgs(mq[p])) + 1] = out[p]
        /\ \A r \in 1 .. Len(queue) : r # mq[p] => Msgs(r)' = Msgs(r)
    BY <1>3, SndFacts
  <2>4. CASE q # mq[p] \/ j <= Len(Msgs(q))
    BY <1>a, <2>1, <2>3, <2>4
  <2>5. CASE q = mq[p] /\ ~(j <= Len(Msgs(q)))
    <3>1. Msgs(q)'[j] = out[p]
      BY <1>a, <2>1, <2>3, <2>5
    <3> QED BY <2>1, <2>2, <3>1 DEF Fresh, Id
  <2> QED BY <2>4, <2>5
<1>4. ASSUME NEW p \in Proc, NEW k \in Thread, MsgRcv(p, k)
      PROVE  q \in present /\ \E i \in 1 .. Len(Msgs(q)) : Msgs(q)'[j] = Msgs(q)[i]
  BY <1>4, RcvLeaves
<1>5. CASE \/ Tick \/ UNCHANGED vars
           \/ \E p \in Proc : \/ (Open(p) /\ ~Get(p)) \/ Send(p) \/ MsgSndFails(p) \/ Control(p)
                             \/ \E k \in Thread : Parse(p, k)
  <2>1. queue' = queue /\ present' \subseteq present
    BY <1>5, OpeningFacts DEF Tick, vars, Send, MsgSndFails, Control, HandlerStart, HandlerStop,
                HandlerWait, Parse, kernel
  <2> QED BY <1>1, <2>1 DEF Msgs
<1> QED
  BY <1>1, <1>2, <1>3, <1>4, <1>5 DEF Next, Handler

\* What a parser is given joins what has been parsed.
LEMMA ParseFacts ==
  ASSUME IInv, NEW p \in Proc, NEW k \in Thread, Parse(p, k)
  PROVE  /\ Len(parsed[p]) \in Nat /\ Len(parsed'[p]) = Len(parsed[p]) + 1
         /\ \A i \in 1 .. Len(parsed[p]) : parsed'[p][i] = parsed[p][i]
         /\ parsed'[p][Len(parsed[p]) + 1] = buf[p]
         /\ Parsed(p)' = Parsed(p) \cup {buf[p]}
         /\ \A r \in Proc : r # p => parsed'[r] = parsed[r]
<1>1. buf[p] \in put /\ parsed[p] \in Seq(put)
  BY DEF Parse, IInv, ThreadInv, ThreadsOf, TypeOK
<1>2. parsed'[p] = Append(parsed[p], buf[p]) /\ \A r \in Proc : r # p => parsed'[r] = parsed[r]
  BY DEF Parse, Set, IInv, TypeOK
<1>3. /\ Len(parsed[p]) \in Nat /\ Len(parsed'[p]) = Len(parsed[p]) + 1
      /\ \A i \in 1 .. Len(parsed[p]) : parsed'[p][i] = parsed[p][i]
      /\ parsed'[p][Len(parsed[p]) + 1] = buf[p]
  BY <1>1, <1>2, AppendProperties
<1>4. Parsed(p)' = Parsed(p) \cup {buf[p]}
  <2>1. \A i \in 1 .. Len(parsed'[p]) : i \in 1 .. Len(parsed[p]) \/ i = Len(parsed[p]) + 1
    BY <1>3
  <2>2. \A i \in 1 .. Len(parsed[p]) : i \in 1 .. Len(parsed'[p])
    BY <1>3
  <2>3. Len(parsed[p]) + 1 \in 1 .. Len(parsed'[p])
    BY <1>3
  <2> QED BY <1>3, <2>1, <2>2, <2>3 DEF Parsed
<1> QED BY <1>2, <1>3, <1>4

\* Only thread 1 of an object runs as long as it has one handler.
LEMMA FirstThread ==
  ASSUME IInv, OneHandler, NEW p \in Proc, NEW k \in Thread, th[p][k] # "none"
  PROVE  k = 1
<1>1. ThreadsOf(p) /\ joinable[p] # 2 /\ <<p, 2>> \notin stopped
  BY DEF IInv, ThreadInv, OneHandler
<1>2. th[p][2] = "none"
  BY <1>1 DEF ThreadsOf
<1>3. k = 1 \/ k = 2
  BY DEF Thread
<1> QED BY <1>2, <1>3

\* What a step other than that of a handler does to what objects have taken, and
\* may take: nothing, or the object starts to take, or ends.
Taking(r) == <<parsed[r], th[r][1], buf[r], filter[r]>>

LEMMA OtherSteps ==
  ASSUME IInv, OneHandler', [Next]_vars, NEW r \in Proc,
         \A p \in Proc : ~Handler(p)
  PROVE  \/ Taking(r)' = Taking(r)
         \/ parsed'[r] = parsed[r] /\ th'[r][1] = "none"
         \/ Taken(r) = {} /\ Taken(r)' = {} /\ parsed'[r] = <<>> /\ th'[r][1] # "parse"
<1> TypeOK
  BY DEF IInv
<1>1. CASE UNCHANGED <<parsed, th, buf, filter>>
  BY <1>1 DEF Taking
<1>2. ASSUME NEW p \in Proc, Control(p)
      PROVE  \/ Taking(r)' = Taking(r)
             \/ parsed'[r] = parsed[r] /\ th'[r][1] = "none"
             \/ Taken(r) = {} /\ Taken(r)' = {} /\ parsed'[r] = <<>> /\ th'[r][1] # "parse"
  <2>1. UNCHANGED <<parsed, buf>>
    BY <1>2 DEF Control, HandlerStart, HandlerStop, HandlerWait, history
  <2>2. CASE r # p
    BY <1>2, <2>1, <2>2 DEF Taking, Control, HandlerStart, HandlerStop, HandlerWait, Terminate,
                            Set, TypeOK
  <2>3. CASE r = p /\ Terminate(p)
    BY <2>1, <2>3 DEF Terminate, Set, TypeOK, Thread
  <2>4. CASE r = p /\ HandlerStart(p) /\ ~Terminate(p)
    <3>1. PICK k \in Thread :
            /\ th[p][k] = "none" /\ \A l \in 1 .. k - 1 : th[p][l] # "none"
            /\ th' = [th EXCEPT ![p][k] = "recv"]
            /\ joinable' = Set(joinable, p, k)
      BY <2>4 DEF HandlerStart
    <3>2. k = 1
      <4>1. joinable'[p] = k /\ joinable'[p] # 2
        BY <3>1 DEF OneHandler, Set, TypeOK
      <4> QED BY <4>1 DEF Thread
    <3>3. th[r][1] = "none" /\ th'[r][1] = "recv"
      BY <2>4, <3>1, <3>2 DEF TypeOK, Thread
    <3>4. parsed[r] = <<>>
      BY <2>4, <3>3 DEF IInv, ThreadInv, ThreadsOf, HandlerStart, Idle
    <3>5. Len(<<>>) = 0
      BY EmptySeq
    <3> QED BY <2>1, <3>3, <3>4, <3>5 DEF Taken, Parsed
  <2>5. CASE r = p /\ (HandlerStop(p) \/ HandlerWait(p)) /\ ~Terminate(p)
    BY <2>1, <2>5 DEF HandlerStop, HandlerWait, Taking
  <2> QED BY <1>2, <2>2, <2>3, <2>4, <2>5 DEF Control
<1>3. CASE \/ Tick \/ UNCHANGED vars
           \/ \E p \in Proc : Open(p) \/ Send(p) \/ MsgSnd(p) \/ MsgSndFails(p)
  <2>1. ASSUME NEW p \in Proc, Open(p) PROVE UNCHANGED <<parsed, th, buf, filter>>
    BY <2>1, OpeningFacts, GetFacts DEF IInv
  <2> QED BY <1>1, <1>3, <2>1 DEF Tick, vars, Send, MsgSnd, MsgSndFails, threads, history
<1> QED BY <1>2, <1>3 DEF Next

\* A step that takes nothing new from a queue keeps what has been taken apart and
\* in order.
LEMMA NothingTaken ==
  ASSUME IInv, TakenInv, OneHandler, [Next]_vars, NEW r \in Proc,
         \A s \in Proc : Taken(s)' \subseteq Taken(s),
         \/ Taken(r)' = {} \/ th'[r][1] = "none"
         \/ th[r][1] # "none" /\ filter'[r] = filter[r]
  PROVE  TakenOnce(r)' /\ TakenFirst(r)'
<1>1. TakenOnce(r) /\ TakenFirst(r)
  BY DEF TakenInv
<1>2. put \subseteq put' /\ \A id \in put : sent'[id] = sent[id]
  BY PutStays
<1>3. \A id \in Taken(r)' : id \in Taken(r) /\ id \in put /\ id \in put' /\ sent'[id] = sent[id]
  BY <1>1, <1>2 DEF TakenOnce
<1>4. \A q \in present : \A j \in 1 .. Len(Msgs(q)) : Id(q, j) \in put
  BY DEF IInv, QueueInv, InOrder
<1>5. ASSUME NEW q \in present', NEW j \in 1 .. Len(Msgs(q)'), NEW id \in Taken(r)'
      PROVE  /\ Id(q, j)' # id
             /\ th'[r][1] # "none" /\ Wants(r, Msgs(q)[j])' /\ sent'[id] = sent'[Id(q, j)'] => id < Id(q, j)'
  <2>1. CASE Fresh(q, j)
    <3>1. Id(q, j)' # id
      <4>1. id \in Nat
        BY <1>3, PutNumbers DEF IInv
      <4> QED BY <1>3, <2>1, <4>1 DEF Fresh
    <3> QED BY <1>3, <2>1, <3>1 DEF Fresh
  <2>2. CASE q \in present /\ \E i \in 1 .. Len(Msgs(q)) : Msgs(q)'[j] = Msgs(q)[i]
    <3>1. PICK i \in 1 .. Len(Msgs(q)) : Msgs(q)'[j] = Msgs(q)[i]
      BY <2>2
    <3>2. Id(q, j)' = Id(q, i) /\ Id(q, i) \in put
      BY <1>4, <2>2, <3>1 DEF Id
    <3>3. Id(q, i) # id
      BY <1>1, <1>3, <2>2 DEF TakenOnce
    <3>4. ASSUME th'[r][1] # "none", Wants(r, Msgs(q)[j])', sent'[id] = sent'[Id(q, j)']
          PROVE  id < Id(q, j)'
      <4>1. th[r][1] # "none" /\ filter'[r] = filter[r]
        BY <3>4
      <4>2. Wants(r, Msgs(q)[i])
        BY <3>1, <3>4, <4>1 DEF Wants
      <4>3. sent[id] = sent[Id(q, i)]
        BY <1>2, <1>3, <3>2, <3>4
      <4> QED BY <1>1, <1>3, <2>2, <3>2, <4>1, <4>2, <4>3 DEF TakenFirst
    <3> QED BY <3>2, <3>3, <3>4
  <2> QED BY <2>1, <2>2, QueuedBefore
<1>6. TakenOnce(r)'
  <2>1. \A s \in Proc : s # r => Taken(r)' \cap Taken(s)' = {}
    BY <1>1 DEF TakenOnce
  <2>2. Taken(r)' \subseteq put'
    BY <1>3
  <2> QED BY <1>5, <2>1, <2>2 DEF TakenOnce
<1> QED BY <1>5, <1>6 DEF TakenFirst

\* What a handler receives: nothing that was taken, and the next of its sender.
LEMMA RcvTakes ==
  ASSUME IInv, TakenInv, OneHandler, NEW p \in Proc, NEW k \in Thread, MsgRcv(p, k)
  PROVE  \E j \in 1 .. Len(Msgs(mq[p])) :
           /\ Receive(p, k, j) /\ mq[p] \in present /\ k = 1 /\ th[p][1] = "recv"
           /\ Taken(p) = Parsed(p) /\ Id(mq[p], j) \in put
           /\ \A id \in Taken(p) : sent[id] = sent[Id(mq[p], j)] => id < Id(mq[p], j)
           /\ \A r \in Proc : Id(mq[p], j) \notin Taken(r)
           /\ \A q \in present' : \A i \in 1 .. Len(Msgs(q)') :
                /\ Id(q, i)' # Id(mq[p], j)
                /\ Wants(p, Msgs(q)'[i]) /\ sent[Id(q, i)'] = sent[Id(mq[p], j)]
                     => Id(mq[p], j) < Id(q, i)'
<1> TypeOK /\ QueueInv
  BY DEF IInv
<1> DEFINE m == mq[p]
<1>1. PICK j \in 1 .. Len(Msgs(mq[p])) :
        /\ Wants(p, Msgs(mq[p])[j]) /\ \A i \in 1 .. j - 1 : ~Wants(p, Msgs(mq[p])[i])
        /\ Receive(p, k, j)
  BY FirstWanted
<1>2. m \in present /\ th[p][k] = "recv"
  BY DEF MsgRcv, Waiting
<1>3. k = 1
  BY <1>2, FirstThread
<1>4. Taken(p) = Parsed(p)
  BY <1>2, <1>3 DEF Taken
<1>5. Id(m, j) \in put /\ mq[sent[Id(m, j)]] = m
  BY <1>2 DEF QueueInv, InOrder
<1>6. \A r \in Proc : Id(m, j) \notin Taken(r)
  BY <1>2 DEF TakenInv, TakenOnce
<1>7. \A id \in Taken(p) : sent[id] = sent[Id(m, j)] => id < Id(m, j)
  BY <1>1, <1>2, <1>3 DEF TakenInv, TakenFirst
<1>8. UNCHANGED <<present, mq, sent, put>>
  BY <1>1 DEF Receive, objects
<1>9. /\ Len(Msgs(m)') = Len(Msgs(m)) - 1
      /\ \A i \in 1 .. Len(Msgs(m)) - 1 : Msgs(m)'[i] = IF i < j THEN Msgs(m)[i] ELSE Msgs(m)[i + 1]
      /\ \A r \in 1 .. Len(queue) : r # m => Msgs(r)' = Msgs(r)
  BY <1>1, <1>2, <1>8, RcvFacts
<1>10. present \subseteq 1 .. Len(queue) /\ Len(Msgs(m)) \in Nat /\ Id(m, j) \in Nat
  <2>1. present \subseteq 1 .. Len(queue)
    BY DEF TypeOK
  <2> QED BY <1>2, <1>5, <2>1, QueueTypes, PutNumbers
<1>11. ASSUME NEW q \in present', NEW i \in 1 .. Len(Msgs(q)')
       PROVE  /\ Id(q, i)' # Id(m, j)
              /\ Wants(p, Msgs(q)'[i]) /\ sent[Id(q, i)'] = sent[Id(m, j)] => Id(m, j) < Id(q, i)'
  <2>1. CASE q # m
    <3>1. q \in present /\ Msgs(q)' = Msgs(q) /\ Id(q, i)' = Id(q, i)
      BY <1>8, <1>9, <1>10, <2>1 DEF Id
    <3>2. mq[sent[Id(q, i)]] = q
      BY <3>1 DEF QueueInv, InOrder
    <3> QED BY <1>5, <2>1, <3>1, <3>2
  <2>2. CASE q = m
    <3> DEFINE w == IF i < j THEN i ELSE i + 1
    <3>1. i \in 1 .. Len(Msgs(m)) - 1
      BY <1>8, <1>9, <1>10, <2>2
    <3>2. w \in 1 .. Len(Msgs(m)) /\ w # j /\ (w \in 1 .. j - 1 \/ j \in 1 .. w - 1)
      BY <1>10, <3>1
    <3>3. Msgs(q)'[i] = Msgs(m)[w] /\ Id(q, i)' = Id(m, w)
      BY <1>8, <1>9, <2>2, <3>1 DEF Id
    <3> HIDE DEF w
    <3>4. InOrder(m, w) /\ InOrder(m, j) /\ Id(m, w) \in Nat
      <4>1. InOrder(m, w) /\ InOrder(m, j)
        BY <1>2, <3>2 DEF QueueInv
      <4> QED BY <4>1, PutNumbers DEF InOrder
    <3>5. CASE w \in 1 .. j - 1
      <4>1. ~Wants(p, Msgs(m)[w])
        BY <1>1, <3>5
      <4>2. Id(m, w) # Id(m, j)
        BY <1>10, <3>4, <3>5 DEF InOrder
      <4> QED BY <3>3, <4>1, <4>2
    <3>6. CASE j \in 1 .. w - 1
      <4>1. sent[Id(m, j)] = sent[Id(m, w)] => Id(m, j) < Id(m, w)
        BY <3>4, <3>6 DEF InOrder
      <4> QED BY <1>10, <3>3, <3>4, <4>1
    <3> QED BY <3>2, <3>5, <3>6
  <2> QED BY <2>1, <2>2
<1> QED BY <1>1, <1>2, <1>3, <1>4, <1>5, <1>6, <1>7, <1>11

\* What has been parsed are messages put in a queue.
LEMMA ParsedPut ==
  ASSUME IInv, NEW r \in Proc
  PROVE  /\ Len(parsed[r]) \in Nat
         /\ \A i \in 1 .. Len(parsed[r]) : parsed[r][i] \in put /\ parsed[r][i] \in Parsed(r)
<1>1. parsed[r] \in Seq(put)
  BY DEF IInv, TypeOK
<1> QED BY <1>1, ElementOfSeq, LenProperties DEF Parsed

LEMMA TakenOtherSteps ==
  ASSUME IInv, TakenInv, [Next]_vars, OneHandler', \A p \in Proc : ~Handler(p), NEW r \in Proc
  PROVE  TakenOnce(r)' /\ TakenFirst(r)' /\ ParsedInOrder(r)'
<1>1. OneHandler
  BY OneHandlerBefore DEF IInv
<1>2. ASSUME NEW s \in Proc PROVE Taken(s)' \subseteq Taken(s)
  BY OtherSteps DEF Taking, Taken, Parsed
<1>3. \/ Taken(r)' = {} \/ th'[r][1] = "none"
      \/ th[r][1] # "none" /\ filter'[r] = filter[r]
  BY OtherSteps DEF Taking
<1>4. TakenOnce(r)' /\ TakenFirst(r)'
  BY <1>1, <1>2, <1>3, NothingTaken
<1>5. ParsedInOrder(r)'
  <2>1. ParsedInOrder(r) /\ TakenOnce(r)
    BY <1>1 DEF TakenInv
  <2>2. \A id \in put : sent'[id] = sent[id]
    BY PutStays
  <2>3. \A i \in 1 .. Len(parsed[r]) : parsed[r][i] \in put
    BY ParsedPut
  <2>4. CASE parsed'[r] = <<>>
    <3>1. Len(parsed'[r]) = 0
      BY <2>4, EmptySeq
    <3> QED BY <3>1 DEF ParsedInOrder
  <2>5. CASE parsed'[r] = parsed[r] /\ th'[r][1] # "parse"
    BY <2>1, <2>2, <2>3, <2>5 DEF ParsedInOrder
  <2>6. CASE parsed'[r] = parsed[r] /\ th'[r][1] = "parse" /\ th[r][1] = "parse" /\ buf'[r] = buf[r]
    <3>1. buf[r] \in put
      BY <2>1, <2>6 DEF TakenOnce, Taken
    <3> QED BY <2>1, <2>2, <2>3, <2>6, <3>1 DEF ParsedInOrder
  <2> QED BY <2>4, <2>5, <2>6, OtherSteps DEF Taking
<1> QED BY <1>4, <1>5

LEMMA TakenParse ==
  ASSUME IInv, TakenInv, [Next]_vars, OneHandler', NEW r \in Proc,
         NEW p \in Proc, NEW k \in Thread, Parse(p, k)
  PROVE  TakenOnce(r)' /\ TakenFirst(r)' /\ ParsedInOrder(r)'
<1>1. OneHandler
  BY OneHandlerBefore DEF IInv
<1>2. /\ UNCHANGED <<buf, filter, sent, put>> /\ th[p][k] = "parse" /\ th' = [th EXCEPT ![p][k] = "recv"]
  BY DEF Parse
<1>3. k = 1
  BY <1>1, <1>2, FirstThread
<1>4. /\ th'[p][1] = "recv" /\ \A s \in Proc : s # p => th'[s] = th[s]
  BY <1>2, <1>3 DEF IInv, TypeOK, Thread
<1>5. \A s \in Proc : Taken(s)' = Taken(s)
  <2>1. Taken(p)' = Taken(p)
    BY <1>2, <1>3, <1>4, ParseFacts DEF Taken
  <2>2. ASSUME NEW s \in Proc, s # p PROVE Taken(s)' = Taken(s)
    BY <1>2, <1>4, <2>2, ParseFacts DEF Taken, Parsed
  <2> QED BY <2>1, <2>2
<1>6. th[r][1] # "none" \/ th'[r][1] = "none"
  BY <1>2, <1>3, <1>4
<1>7. TakenOnce(r)' /\ TakenFirst(r)'
  BY <1>1, <1>2, <1>5, <1>6, NothingTaken
<1>8. ParsedInOrder(r)'
  <2>1. ParsedInOrder(r)
    BY <1>1 DEF TakenInv
  <2>2. CASE r # p
    BY <1>2, <1>4, <2>1, <2>2, ParseFacts DEF ParsedInOrder
  <2>3. CASE r = p
    <3> DEFINE n == Len(parsed[r])
    <3>1. /\ n \in Nat /\ Len(parsed'[r]) = n + 1
          /\ \A i \in 1 .. n : parsed'[r][i] = parsed[r][i]
          /\ parsed'[r][n + 1] = buf[r]
      BY <2>3, ParseFacts
    <3>2. \A i \in 1 .. n : sent[parsed[r][i]] = sent[buf[r]] => parsed[r][i] < buf[r]
      BY <1>2, <1>3, <2>1, <2>3 DEF ParsedInOrder
    <3>3. ASSUME NEW i \in 1 .. n + 1, NEW j \in 1 .. n + 1, i < j,
                 sent[parsed'[r][i]] = sent[parsed'[r][j]]
          PROVE  parsed'[r][i] < parsed'[r][j]
      <4>1. i \in 1 .. n
        BY <3>1, <3>3
      <4>2. CASE j \in 1 .. n
        BY <2>1, <3>1, <3>3, <4>1, <4>2 DEF ParsedInOrder
      <4>3. CASE j = n + 1
        BY <3>1, <3>2, <3>3, <4>1, <4>3
      <4> QED BY <3>1, <4>2, <4>3
    <3> QED BY <1>2, <1>4, <2>3, <3>1, <3>3 DEF ParsedInOrder
  <2> QED BY <2>2, <2>3
<1> QED BY <1>7, <1>8

LEMMA TakenRcv ==
  ASSUME IInv, TakenInv, [Next]_vars, OneHandler', NEW r \in Proc,
         NEW p \in Proc, NEW k \in Thread, MsgRcv(p, k)
  PROVE  TakenOnce(r)' /\ TakenFirst(r)' /\ ParsedInOrder(r)'
<1>1. OneHandler
  BY OneHandlerBefore DEF IInv
<1>2. PICK j \in 1 .. Len(Msgs(mq[p])) :
        /\ Receive(p, k, j) /\ mq[p] \in present /\ k = 1 /\ th[p][1] = "recv"
        /\ Taken(p) = Parsed(p) /\ Id(mq[p], j) \in put
        /\ \A id \in Taken(p) : sent[id] = sent[Id(mq[p], j)] => id < Id(mq[p], j)
        /\ \A s \in Proc : Id(mq[p], j) \notin Taken(s)
        /\ \A q \in present' : \A i \in 1 .. Len(Msgs(q)') :
             /\ Id(q, i)' # Id(mq[p], j)
             /\ Wants(p, Msgs(q)'[i]) /\ sent[Id(q, i)'] = sent[Id(mq[p], j)]
                  => Id(mq[p], j) < Id(q, i)'
  BY <1>1, RcvTakes
<1> DEFINE new == Id(mq[p], j)
<1>3. /\ UNCHANGED <<mq, present, filter, sent, put, parsed>> /\ buf' = Set(buf, p, new)
      /\ th' = th \/ th' = [th EXCEPT ![p][k] = "parse"]
  BY <1>2 DEF Receive, objects, Id, Msgs
<1>4. /\ buf'[p] = new /\ \A s \in Proc : s # p => buf'[s] = buf[s] /\ th'[s] = th[s]
      /\ th'[p][1] \in {"recv", "parse"} /\ th[p][1] = "recv"
  BY <1>2, <1>3 DEF IInv, TypeOK, Set, Thread
<1> HIDE DEF new
<1>5. \A s \in Proc : s # p => Taken(s)' = Taken(s)
  BY <1>3, <1>4 DEF Taken, Parsed
<1>6. Taken(p)' = Taken(p) \/ (Taken(p)' = Taken(p) \cup {new} /\ th'[p][1] = "parse")
  <2>1. Taken(p) = Parsed(p) /\ Parsed(p)' = Parsed(p)
    BY <1>2, <1>3 DEF Parsed
  <2> QED BY <1>4, <2>1 DEF Taken
<1>7. TakenOnce(r) /\ TakenFirst(r) /\ ParsedInOrder(r) /\ TakenOnce(p) /\ TakenFirst(p)
  BY <1>1 DEF TakenInv
<1>8. \A q \in present' : \A i \in 1 .. Len(Msgs(q)') :
        q \in present /\ \E l \in 1 .. Len(Msgs(q)) : Msgs(q)'[i] = Msgs(q)[l]
  BY RcvLeaves DEF IInv
<1>9. TakenOnce(r)'
  <2>1. Taken(r)' \subseteq put'
    BY <1>2, <1>3, <1>5, <1>6, <1>7 DEF TakenOnce, new
  <2>2. \A s \in Proc : s # r => Taken(r)' \cap Taken(s)' = {}
    <3>1. \A s \in Proc : new \notin Taken(s)
      BY <1>2 DEF new
    <3>2. \A s \in Proc : s # p => Taken(p) \cap Taken(s) = {}
      BY <1>7 DEF TakenOnce
    <3>3. \A s \in Proc : s # r => Taken(r) \cap Taken(s) = {}
      BY <1>7 DEF TakenOnce
    <3> QED BY <1>5, <1>6, <3>1, <3>2, <3>3
  <2>3. ASSUME NEW q \in present', NEW i \in 1 .. Len(Msgs(q)') PROVE Id(q, i)' \notin Taken(r)'
    <3>1. Id(q, i)' \notin Taken(r)
      BY <1>7, <1>8 DEF TakenOnce, Id
    <3>2. Id(q, i)' # new
      BY <1>2 DEF new
    <3> QED BY <1>5, <1>6, <3>1, <3>2
  <2> QED BY <2>1, <2>2, <2>3 DEF TakenOnce
<1>10. TakenFirst(r)'
  <2> SUFFICES ASSUME th'[r][1] # "none", NEW q \in present', NEW i \in 1 .. Len(Msgs(q)'),
                      NEW id \in Taken(r)', Wants(r, Msgs(q)[i])', sent'[id] = sent'[Id(q, i)']
               PROVE  id < Id(q, i)'
    BY DEF TakenFirst
  <2>1. th[r][1] # "none" /\ Wants(r, Msgs(q)'[i]) /\ sent[id] = sent[Id(q, i)']
    BY <1>3, <1>4 DEF Wants
  <2>2. CASE id \in Taken(r)
    <3>1. PICK l \in 1 .. Len(Msgs(q)) : Msgs(q)'[i] = Msgs(q)[l] /\ q \in present
      BY <1>8
    <3>2. Id(q, i)' = Id(q, l)
      BY <3>1 DEF Id
    <3> QED BY <1>7, <2>1, <2>2, <3>1, <3>2 DEF TakenFirst
  <2>3. CASE r = p /\ id = new
    BY <1>2, <2>1, <2>3 DEF new
  <2> QED BY <1>5, <1>6, <2>2, <2>3
<1>11. ParsedInOrder(r)'
  <2>1. parsed'[r] = parsed[r] /\ sent' = sent
    BY <1>3
  <2>2. CASE r # p \/ th'[r][1] # "parse"
    BY <1>4, <1>7, <2>1, <2>2 DEF ParsedInOrder
  <2>3. CASE r = p /\ th'[r][1] = "parse"
    <3>1. \A i \in 1 .. Len(parsed[r]) : sent[parsed[r][i]] = sent[new] => parsed[r][i] < new
      BY <1>2, <2>3, ParsedPut DEF new
    <3> QED BY <1>4, <1>7, <2>1, <2>3, <3>1 DEF ParsedInOrder
  <2> QED BY <2>2, <2>3
<1> QED BY <1>9, <1>10, <1>11

LEMMA TakenNext ==
  ASSUME IInv, TakenInv, [Next]_vars
  PROVE  TakenInv'
<1> SUFFICES ASSUME OneHandler', NEW r \in Proc
             PROVE  TakenOnce(r)' /\ TakenFirst(r)' /\ ParsedInOrder(r)'
  BY DEF TakenInv
<1>1. CASE \A p \in Proc : ~Handler(p)
  BY <1>1, TakenOtherSteps
<1>2. ASSUME NEW p \in Proc, Handler(p)
      PROVE  TakenOnce(r)' /\ TakenFirst(r)' /\ ParsedInOrder(r)'
  BY <1>2, TakenParse, TakenRcv DEF Handler
<1> QED BY <1>1, <1>2

LEMMA TakenStart == Init => TakenInv
<1> SUFFICES ASSUME Init, NEW p \in Proc PROVE TakenOnce(p) /\ TakenFirst(p) /\ ParsedInOrder(p)
  BY DEF TakenInv
<1>1. parsed[p] = <<>> /\ th[p][1] = "none" /\ Len(<<>>) = 0 /\ present = {}
  BY EmptySeq DEF Init, Thread
<1>2. Taken(p) = {}
  BY <1>1 DEF Taken, Parsed
<1> QED BY <1>1, <1>2 DEF TakenOnce, TakenFirst, ParsedInOrder

\* With one handler per object, it parses the messages of one sender in the order
\* of sending, none of them twice, and no two objects parse the same message.
THEOREM ParsedOnceInOrder == Spec => []OnceInOrder
<1>1. TakenInv => OnceInOrder
  BY DEF TakenInv, TakenOnce, ParsedInOrder, Taken, OnceInOrder
<1>2. IInv /\ TakenInv /\ [Next]_vars => TakenInv'
  BY TakenNext
<1> QED BY Inductive, TakenStart, <1>1, <1>2, PTL DEF Spec
-----------------------------------------------------------------------------
(* Nothing vanishes *)

HeldBy(p, id) ==
  \/ th[p][1] = "parse" /\ buf[p] = id
  \/ id \in Parsed(p)
  \/ pc[p] = "terminated" /\ buf[p] = id

Found(id) ==
  \/ \E q \in 1 .. Len(queue) : \E j \in 1 .. Len(Msgs(q)) : Id(q, j) = id
  \/ \E p \in Proc : HeldBy(p, id)
  \/ id \in old

\* A message in a queue stays in it, unless a handler receives it.
LEMMA QueuedAfter ==
  ASSUME IInv, [Next]_vars, \A p \in Proc, k \in Thread : ~MsgRcv(p, k),
         NEW q \in 1 .. Len(queue), NEW j \in 1 .. Len(Msgs(q))
  PROVE  q \in 1 .. Len(queue') /\ j \in 1 .. Len(Msgs(q)') /\ Id(q, j)' = Id(q, j)
<1> TypeOK /\ SendingInv
  BY DEF IInv
<1>1. CASE queue' = queue
  BY <1>1 DEF Msgs, Id
<1>2. ASSUME NEW p \in Proc, Get(p), queue' # queue
      PROVE  q \in 1 .. Len(queue') /\ j \in 1 .. Len(Msgs(q)') /\ Id(q, j)' = Id(q, j)
  <2>1. Len(queue') = Len(queue) + 1 /\ queue'[q] = queue[q] /\ Len(queue) \in Nat
    BY <1>2, GetFacts DEF IInv
  <2> QED BY <2>1 DEF Msgs, Id
<1>3. ASSUME NEW p \in Proc, MsgSnd(p)
      PROVE  q \in 1 .. Len(queue') /\ j \in 1 .. Len(Msgs(q)') /\ Id(q, j)' = Id(q, j)
  <2>1. mq' = mq
    BY <1>3 DEF MsgSnd, objects
  <2>2. /\ Len(queue') = Len(queue) /\ Len(Msgs(mq[p])) \in Nat
        /\ Len(Msgs(mq[p])') = Len(Msgs(mq[p])) + 1
        /\ \A i \in 1 .. Len(Msgs(mq[p])) : Msgs(mq[p])'[i] = Msgs(mq[p])[i]
        /\ \A r \in 1 .. Len(queue) : r # mq[p] => Msgs(r)' = Msgs(r)
    BY <1>3, SndFacts, QueueTypes
  <2>3. CASE q = mq[p]
    BY <2>1, <2>2, <2>3 DEF Id
  <2>4. CASE q # mq[p]
    BY <2>2, <2>4 DEF Id
  <2> QED BY <2>3, <2>4
<1>4. CASE \/ Tick \/ UNCHANGED vars
           \/ \E p \in Proc : \/ (Open(p) /\ ~Get(p)) \/ Send(p) \/ MsgSndFails(p) \/ Control(p)
                             \/ \E k \in Thread : Parse(p, k)
  BY <1>1, <1>4, OpeningFacts DEF Tick, vars, Send, MsgSndFails, Control, HandlerStart, HandlerStop,
                    HandlerWait, Parse, kernel
<1> QED
  BY <1>1, <1>2, <1>3, <1>4 DEF Next, Open, Handler

LEMMA VanishNext ==
  ASSUME IInv, OneHandler => \A id \in put : Found(id), [Next]_vars
  PROVE  OneHandler' => \A id \in put' : Found(id)'
<1> SUFFICES ASSUME OneHandler', NEW id \in put' PROVE Found(id)'
  OBVIOUS
<1> TypeOK /\ ThreadInv
  BY DEF IInv
<1>1. OneHandler /\ (id \in put => Found(id))
  BY OneHandlerBefore
<1>2. ASSUME NEW p \in Proc, NEW k \in Thread, MsgRcv(p, k) PROVE Found(id)'
  <2>1. PICK f \in 1 .. Len(Msgs(mq[p])) : Receive(p, k, f)
    BY <1>2, FirstWanted
  <2>2. mq[p] \in present /\ th[p][k] = "recv"
    BY <1>2 DEF MsgRcv, Waiting
  <2>3. k = 1
    BY <1>1, <2>2, FirstThread
  <2>4. pc[p] # "terminated"
    BY <2>2 DEF ThreadInv, ThreadsOf
  <2>5. /\ UNCHANGED <<mq, pc, put, parsed>> /\ buf' = Set(buf, p, Id(mq[p], f))
        /\ \/ old' = old \cup {Id(mq[p], f)} /\ th' = th
           \/ th' = [th EXCEPT ![p][k] = "parse"] /\ old' = old
    BY <2>1 DEF Receive, objects, calls, Id, Msgs
  <2>6. /\ buf'[p] = Id(mq[p], f) /\ \A s \in Proc : s # p => buf'[s] = buf[s] /\ th'[s] = th[s]
        /\ Id(mq[p], f) \in old' \/ th'[p][1] = "parse"
    BY <2>3, <2>5 DEF TypeOK, Set, Thread
  <2>7. Found(id)
    BY <1>1, <2>5
  <2>8. CASE id = Id(mq[p], f)
    BY <2>6, <2>8 DEF Found, HeldBy
  <2>9. CASE id # Id(mq[p], f) /\ \E q \in 1 .. Len(queue) : \E j \in 1 .. Len(Msgs(q)) : Id(q, j) = id
    <3>0. PICK q \in 1 .. Len(queue) : \E j \in 1 .. Len(Msgs(q)) : Id(q, j) = id
      BY <2>9
    <3>1. PICK j \in 1 .. Len(Msgs(q)) : Id(q, j) = id
      BY <3>0
    <3>2. /\ Len(queue') = Len(queue) /\ Len(Msgs(mq[p])) \in Nat
          /\ Len(Msgs(mq[p])') = Len(Msgs(mq[p])) - 1
          /\ \A i \in 1 .. Len(Msgs(mq[p])) - 1 :
               Msgs(mq[p])'[i] = IF i < f THEN Msgs(mq[p])[i] ELSE Msgs(mq[p])[i + 1]
          /\ \A r \in 1 .. Len(queue) : r # mq[p] => Msgs(r)' = Msgs(r)
      BY <2>1, <2>2, RcvFacts, QueueTypes
    <3>3. \E i \in 1 .. Len(Msgs(q)') : Id(q, i)' = id
      <4>1. CASE q # mq[p]
        BY <3>1, <3>2, <4>1 DEF Id
      <4>2. CASE q = mq[p]
        <5> DEFINE w == IF j < f THEN j ELSE j - 1
        <5>1. j # f
          BY <2>9, <3>1, <4>2
        <5>2. w \in 1 .. Len(Msgs(mq[p])) - 1 /\ j = IF w < f THEN w ELSE w + 1
          BY <3>2, <4>2, <5>1
        <5> HIDE DEF w
        <5>3. Msgs(q)'[w] = Msgs(q)[j] /\ w \in 1 .. Len(Msgs(q)')
          BY <2>5, <3>2, <4>2, <5>2
        <5> QED BY <3>1, <5>3 DEF Id
      <4> QED BY <4>1, <4>2
    <3> QED BY <3>2, <3>3 DEF Found
  <2>10. CASE \E s \in Proc : HeldBy(s, id)
    <3>1. PICK s \in Proc : HeldBy(s, id)
      BY <2>10
    <3>2. HeldBy(s, id)'
      BY <2>2, <2>3, <2>4, <2>5, <2>6, <3>1 DEF HeldBy, Parsed
    <3> QED BY <3>2 DEF Found
  <2>11. CASE id \in old
    BY <2>5, <2>11 DEF Found
  <2> QED BY <2>7, <2>8, <2>9, <2>10, <2>11 DEF Found
<1>3. ASSUME \A p \in Proc, k \in Thread : ~MsgRcv(p, k), id \in put PROVE Found(id)'
  <2>1. CASE \E q \in 1 .. Len(queue) : \E j \in 1 .. Len(Msgs(q)) : Id(q, j) = id
    BY <1>3, <2>1, QueuedAfter DEF Found
  <2>2. old' = old /\ buf' = buf
    <3>1. ASSUME NEW p \in Proc, Open(p) PROVE old' = old /\ buf' = buf
      BY <3>1, OpeningFacts, GetFacts DEF IInv
    <3>2. ASSUME NEW p \in Proc, NEW k \in Thread, Parse(p, k) PROVE old' = old /\ buf' = buf
      BY <3>2 DEF Parse
    <3>3. ASSUME NEW p \in Proc, Control(p) PROVE old' = old /\ buf' = buf
      BY <3>3 DEF Control, HandlerStart, HandlerStop, HandlerWait, history
    <3>4. CASE Tick \/ UNCHANGED vars \/ \E p \in Proc : Send(p) \/ MsgSnd(p) \/ MsgSndFails(p)
      BY <3>4 DEF vars, Tick, Send, MsgSnd, MsgSndFails, history
    <3> QED BY <1>3, <3>1, <3>2, <3>3, <3>4 DEF Next, Handler
  <2>3. CASE id \in old
    BY <2>2, <2>3 DEF Found
  <2>4. ASSUME NEW s \in Proc, HeldBy(s, id) PROVE Found(id)'
    <3>1. CASE UNCHANGED <<parsed, th>> /\ (pc[s] = "terminated" => pc'[s] = "terminated")
      BY <2>2, <2>4, <3>1 DEF Found, HeldBy, Parsed
    <3>2. ASSUME NEW p \in Proc, NEW k \in Thread, Parse(p, k) PROVE Found(id)'
      <4>1. /\ pc' = pc /\ th[p][k] = "parse" /\ \A r \in Proc : r # p => th'[r] = th[r]
        BY <3>2 DEF Parse, calls, TypeOK
      <4>2. Parsed(p)' = Parsed(p) \cup {buf[p]} /\ \A r \in Proc : r # p => parsed'[r] = parsed[r]
        BY <3>2, ParseFacts
      <4>3. \A r \in Proc : r # p => Parsed(r)' = Parsed(r)
        BY <4>2 DEF Parsed
      <4>4. th[s][1] = "parse" /\ buf[s] = id => id \in Parsed(p)' \/ th'[s][1] = "parse"
        BY <4>1, <4>2
      <4> QED BY <2>2, <2>4, <4>1, <4>2, <4>3, <4>4 DEF Found, HeldBy
    <3>3. ASSUME NEW p \in Proc, Control(p) PROVE Found(id)'
      <4>1. parsed' = parsed
        BY <3>3 DEF Control, HandlerStart, HandlerStop, HandlerWait, history
      <4>2. CASE s # p
        <5>1. th'[s] = th[s] /\ pc'[s] = pc[s]
          BY <3>3, <4>2 DEF Control, HandlerStart, HandlerStop, HandlerWait, Terminate, Set, TypeOK
        <5> QED BY <2>2, <2>4, <4>1, <5>1 DEF Found, HeldBy, Parsed
      <4>3. CASE s = p
        <5>1. pc[s] = "idle"
          BY <3>3, <4>3 DEF Control, HandlerStart, HandlerStop, HandlerWait, Idle
        <5>2. th[s][1] = "parse" => th'[s][1] = "parse" \/ pc'[s] = "terminated"
          BY <3>3, <4>3 DEF Control, HandlerStart, HandlerStop, HandlerWait, Terminate, Set,
                            TypeOK, Thread
        <5> QED BY <2>2, <2>4, <4>1, <5>1, <5>2 DEF Found, HeldBy, Parsed
      <4> QED BY <4>2, <4>3
    <3>4. CASE \/ Tick \/ UNCHANGED vars
               \/ \E p \in Proc : Open(p) \/ Send(p) \/ MsgSnd(p) \/ MsgSndFails(p)
      <4>1. UNCHANGED <<parsed, th>>
        <5>1. ASSUME NEW p \in Proc, Open(p) PROVE UNCHANGED <<parsed, th>>
          BY <5>1, OpeningFacts, GetFacts DEF IInv
        <5> QED BY <3>4, <5>1 DEF Tick, vars, Send, MsgSnd, MsgSndFails, threads, history
      <4>2. \/ pc' = pc
            \/ \E p \in Proc : pc[p] # "terminated" /\ \E v : pc' = Set(pc, p, v)
        <5>1. ASSUME NEW p \in Proc, Open(p)
              PROVE  pc[p] # "terminated" /\ \E v : pc' = Set(pc, p, v)
          BY <5>1, OpeningFacts, GetFacts DEF IInv
        <5> QED BY <3>4, <5>1 DEF Tick, vars, Send, MsgSnd, MsgSndFails, calls, Idle
      <4>3. pc[s] = "terminated" => pc'[s] = "terminated"
        BY <4>2 DEF TypeOK, Set
      <4> QED BY <3>1, <4>1, <4>3
    <3> QED BY <1>3, <3>2, <3>3, <3>4 DEF Next, Handler
  <2> QED BY <1>1, <1>3, <2>1, <2>3, <2>4 DEF Found
<1>4. ASSUME NEW p \in Proc, MsgSnd(p), id \notin put PROVE Found(id)'
  <2>1. id = out[p].id /\ mq' = mq
    BY <1>4 DEF MsgSnd, objects
  <2>2. /\ mq[p] \in 1 .. Len(queue) /\ Len(queue') = Len(queue) /\ Len(Msgs(mq[p])) \in Nat
        /\ Len(Msgs(mq[p])') = Len(Msgs(mq[p])) + 1
        /\ Msgs(mq[p])'[Len(Msgs(mq[p])) + 1] = out[p]
    BY <1>4, SndFacts, QueueTypes DEF IInv
  <2>3. PICK q \in 1 .. Len(queue'), n \in Nat : q = mq[p] /\ n = Len(Msgs(q)) + 1
    BY <2>2
  <2>4. n \in 1 .. Len(Msgs(q)') /\ Id(q, n)' = id
    BY <2>1, <2>2, <2>3 DEF Id
  <2> QED BY <2>3, <2>4 DEF Found
<1>5. (\A p \in Proc : ~MsgSnd(p)) => put' = put
  <2>1. ASSUME NEW p \in Proc, Open(p) PROVE put' = put
    BY <2>1, OpeningFacts, GetFacts DEF IInv
  <2>2. ASSUME NEW p \in Proc, Handler(p) PROVE put' = put
    BY <2>2 DEF Handler, MsgRcv, Receive, Parse
  <2>3. ASSUME NEW p \in Proc, Control(p) PROVE put' = put
    BY <2>3 DEF Control, HandlerStart, HandlerStop, HandlerWait, history
  <2>4. CASE Tick \/ UNCHANGED vars \/ \E p \in Proc : Send(p) \/ MsgSndFails(p)
    BY <2>4 DEF vars, Tick, Send, MsgSndFails, history
  <2> QED BY <2>1, <2>2, <2>3, <2>4 DEF Next
<1> QED BY <1>2, <1>3, <1>4, <1>5

\* With one handler per object, nothing that msgsnd accepted vanishes.
THEOREM NothingIsLost == Spec => []NothingVanishes
<1> DEFINE V == OneHandler => \A id \in put : Found(id)
<1>1. Init => V
  BY DEF Init
<1>2. IInv /\ V /\ [Next]_vars => V'
  BY VanishNext
<1>3. V => NothingVanishes
  BY DEF NothingVanishes, Found, HeldBy, Msgs, Id
<1> QED BY Inductive, <1>1, <1>2, <1>3, PTL DEF Spec
=============================================================================
