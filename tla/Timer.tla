------------------------------- MODULE Timer -------------------------------
(***************************************************************************)
(* timer.c: timers are nodes of a list, each with a timerfd.  The loop, a  *)
(* thread of its own, collects the descriptors of the list, polls them,    *)
(* reads those that are due and calls the callback of the node it then     *)
(* finds under the descriptor.  The list has no lock.  The main thread     *)
(* starts and stops timers and shuts the module down; callbacks, on the    *)
(* loop's thread, start and stop timers too.                               *)
(*                                                                         *)
(* A step reads or writes one shared location: the head of the list, a     *)
(* node, a descriptor.  A read of a descriptor blocks on the timer that    *)
(* has it when the read begins, and stays there when another thread closes *)
(* the descriptor.  A thread that reads a node that has been freed stops   *)
(* there: nothing is known of the process any more.                        *)
(***************************************************************************)
EXTENDS Integers, Sequences, FiniteSets, SequencesExt

CONSTANTS
  Node, NoNode,     \* addresses of nodes; NULL
  Fd, NoFd,         \* descriptors; that of a node that is not set up yet
  MainMoves,        \* what main does once the loop runs: "start", "stop", "finalize"
  CallbackMoves,    \* what callbacks do: "start", "stop"
  StartAs,          \* "armed", and "disarmed" for an interval of 0
  MaxTimers,        \* MAX_TIMER_COUNT
  MaxStarts         \* bound: calls of timer_start

ASSUME TimerAssumption ==
  /\ NoNode \notin Node /\ NoFd \notin Fd
  /\ MainMoves \subseteq {"start", "stop", "finalize"}
  /\ CallbackMoves \subseteq {"start", "stop"}
  /\ StartAs \subseteq {"armed", "disarmed"}
  /\ MaxTimers \in Nat /\ MaxStarts \in Nat
  /\ IsFiniteSet(Node) /\ Cardinality(Node) <= MaxTimers

Actor == {"main", "loop"}

VARIABLES
  pc,         \* where each thread is
  node, tmp,  \* its locals
  head,       \* g_head
  next, fd,   \* the fields of nodes
  heap,       \* nodes allocated
  timer,      \* each descriptor: closed, or the state of its timer
  repeats,    \* the descriptors whose timer has an interval
  orphan,     \* the timer that the loop's read has kept though its descriptor
              \* was closed: none so far, its state, closed when the read is over
  ufds, i,    \* the loop's array of descriptors, and its index
  ready,      \* the descriptors poll found readable
  final,      \* timer_finalize has been called
  cancel,     \* pthread_cancel has been called
  live,       \* history: timers started and not yet stopped
  due,        \* history: timers that have expired and not been read since
  hit,        \* history: the timer whose expiry the loop has read, to call it
  starts,     \* history: calls of timer_start
  late,       \* history: a timer entered the list after timer_finalize was called
  raced,      \* history: two threads were in the list, one of them to write
  wild        \* history: the callback of a timer that was not due was called

vars == <<pc, node, tmp, head, next, fd, heap, timer, repeats, orphan, ufds, i, ready,
          final, cancel, live, due, hit, starts, late, raced, wild>>

list   == <<head, next, fd, heap>>
files  == <<timer, repeats, orphan>>
locals == <<ufds, i, ready>>
ends   == <<final, cancel>>

Writing == {"link", "publish", "close", "test", "unhead", "walk", "unlink", "free"}
Reading == {"collect", "seek", "lookup", "call"}

Open == {"armed", "expired", "disarmed"}

TypeOK ==
  /\ pc \in [Actor -> {"idle", "finalize", "join", "done", "unborn", "head", "poll",
                       "scan", "read", "callback", "gone", "stale"} \cup Writing \cup Reading]
  /\ node \in [Actor -> Node \cup {NoNode}] /\ tmp \in [Actor -> Node \cup {NoNode}]
  /\ head \in Node \cup {NoNode}
  /\ next \in [Node -> Node \cup {NoNode}] /\ fd \in [Node -> Fd \cup {NoFd}]
  /\ heap \subseteq Node
  /\ timer \in [Fd -> Open \cup {"closed"}]
  /\ repeats \subseteq Fd
  /\ orphan \in Open \cup {"none", "closed"}
  /\ ufds \in Seq(Fd) /\ Len(ufds) <= MaxTimers
  /\ i \in 1 .. MaxTimers + 1
  /\ ready \subseteq Fd
  /\ final \in BOOLEAN /\ cancel \in BOOLEAN
  /\ live \subseteq Node /\ due \subseteq Node /\ hit \subseteq Node
  /\ starts \in 0 .. MaxStarts /\ late \in BOOLEAN
  /\ raced \in BOOLEAN /\ wild \in BOOLEAN

Init ==
  /\ pc = [main |-> "idle", loop |-> "unborn"]
  /\ node = [a \in Actor |-> NoNode] /\ tmp = [a \in Actor |-> NoNode]
  /\ head = NoNode
  /\ next = [n \in Node |-> NoNode]
  /\ fd = [n \in Node |-> NoFd]
  /\ heap = {}
  /\ timer = [f \in Fd |-> "closed"] /\ repeats = {} /\ orphan = "none"
  /\ ufds = <<>> /\ i = 1 /\ ready = {}
  /\ final = FALSE /\ cancel = FALSE
  /\ live = {} /\ due = {} /\ hit = {} /\ starts = 0 /\ late = FALSE
  /\ raced = FALSE /\ wild = FALSE

\* Both threads in the list, one of them to write.
Racing(at) == at["main"] \in Writing /\ at["loop"] \in Writing \cup Reading

Move(a, l) ==
  /\ pc' = [pc EXCEPT ![a] = l]
  /\ raced' = (raced \/ Racing(pc'))

\* A step of the thread a other than a call of timer_start or of a callback.
Goto(a, l) == Move(a, l) /\ UNCHANGED <<starts, late, wild>>

Set(f, a, v) == [f EXCEPT ![a] = v]

\* Where a call returns to.
Back(a) == IF a = "loop" THEN "callback" ELSE IF final THEN "finalize" ELSE "idle"

\* Before timer_initialize the main thread is alone and does as it likes.
May(a, move) ==
  IF a = "main"
    THEN pc["main"] = "idle" /\ (pc["loop"] = "unborn" \/ move \in MainMoves)
    ELSE pc["loop"] = "callback" /\ move \in CallbackMoves
-----------------------------------------------------------------------------
(* timer_start: when malloc or timerfd_create fails, nothing has changed.   *)

StartTimer(a) ==
  /\ May(a, "start") /\ starts < MaxStarts
  /\ \E n \in Node \ heap, f \in Fd, r \in BOOLEAN, s \in StartAs :
       /\ timer[f] = "closed"
       /\ node' = Set(node, a, n)
       /\ heap' = heap \cup {n}
       /\ fd' = Set(fd, n, f)
       /\ timer' = Set(timer, f, s)
       /\ repeats' = IF r /\ s = "armed" THEN repeats \cup {f} ELSE repeats \ {f}
  /\ starts' = starts + 1
  /\ Move(a, "link")
  /\ UNCHANGED <<tmp, head, next, orphan, locals, ends, live, due, hit, late, wild>>

\* Variant: the rest of the list is dropped.
StartLinkNot(a) ==
  /\ pc[a] = "link"
  /\ Goto(a, "publish")
  /\ UNCHANGED <<node, tmp, head, next, fd, heap, files, locals, ends, live, due, hit>>

\* new_node->next = g_head
StartLink(a) ==
  /\ pc[a] = "link"
  /\ next' = Set(next, node[a], head)
  /\ Goto(a, "publish")
  /\ UNCHANGED <<node, tmp, head, fd, heap, files, locals, ends, live, due, hit>>

\* g_head = new_node
StartPublish(a) ==
  /\ pc[a] = "publish"
  /\ head' = node[a]
  /\ live' = live \cup {node[a]}
  /\ late' = (late \/ final)
  /\ Move(a, Back(a))
  /\ UNCHANGED <<node, tmp, next, fd, heap, files, locals, ends, due, hit, starts, wild>>
-----------------------------------------------------------------------------
(* timer_stop, of a timer that has not been stopped *)

Stop(a) ==
  /\ May(a, "stop")
  /\ \E n \in live : node' = Set(node, a, n) /\ live' = live \ {n}
  /\ Goto(a, "close")
  /\ UNCHANGED <<tmp, list, files, locals, ends, due, hit>>

\* Variant: the descriptor stays open.
StopCloseNot(a) ==
  /\ pc[a] = "close" /\ node[a] \in heap
  /\ due' = due \ {node[a]}
  /\ Goto(a, "test")
  /\ UNCHANGED <<node, tmp, list, files, locals, ends, live, hit>>

\* A read that has begun goes on with the timer that is closed.
StopClose(a) ==
  /\ pc[a] = "close" /\ node[a] \in heap
  /\ timer' = Set(timer, fd[node[a]], "closed")
  /\ orphan' = IF pc["loop"] = "read" /\ orphan \notin Open /\ ufds[i] = fd[node[a]]
                 THEN timer[fd[node[a]]] ELSE orphan
  /\ due' = due \ {node[a]}
  /\ Goto(a, "test")
  /\ UNCHANGED <<node, tmp, list, repeats, locals, ends, live, hit>>

\* node == g_head, or tmp = g_head
StopTest(a) ==
  /\ pc[a] = "test"
  /\ tmp' = Set(tmp, a, head)
  /\ Goto(a, IF node[a] = head THEN "unhead" ELSE "walk")
  /\ UNCHANGED <<node, list, files, locals, ends, live, due, hit>>

\* g_head = g_head->next
StopUnhead(a) ==
  /\ pc[a] = "unhead" /\ head \in heap
  /\ head' = next[head]
  /\ Goto(a, "free")
  /\ UNCHANGED <<node, tmp, next, fd, heap, files, locals, ends, live, due, hit>>

\* while (tmp && tmp->next != node) tmp = tmp->next
StopWalk(a) ==
  /\ pc[a] = "walk"
  /\ \/ /\ tmp[a] = NoNode
        /\ Goto(a, "free") /\ UNCHANGED tmp
     \/ /\ tmp[a] \in heap /\ next[tmp[a]] = node[a]
        /\ Goto(a, "unlink") /\ UNCHANGED tmp
     \/ /\ tmp[a] \in heap /\ next[tmp[a]] # node[a]
        /\ tmp' = Set(tmp, a, next[tmp[a]])
        /\ Goto(a, "walk")
  /\ UNCHANGED <<node, list, files, locals, ends, live, due, hit>>

\* Variant: the node before is found and left as it is.
StopUnlinkNot(a) ==
  /\ pc[a] = "unlink"
  /\ Goto(a, "free")
  /\ UNCHANGED <<node, tmp, list, files, locals, ends, live, due, hit>>

\* tmp->next = tmp->next->next
StopUnlink(a) ==
  /\ pc[a] = "unlink" /\ tmp[a] \in heap /\ next[tmp[a]] \in heap
  /\ next' = Set(next, tmp[a], next[next[tmp[a]]])
  /\ Goto(a, "free")
  /\ UNCHANGED <<node, tmp, head, fd, heap, files, locals, ends, live, due, hit>>

StopFree(a) ==
  /\ pc[a] = "free" /\ node[a] \in heap
  /\ heap' = heap \ {node[a]}
  /\ Goto(a, Back(a))
  /\ UNCHANGED <<node, tmp, head, next, fd, files, locals, ends, live, due, hit>>
-----------------------------------------------------------------------------
(* timer_initialize and timer_finalize *)

Initialize ==
  /\ pc["main"] = "idle" /\ pc["loop"] = "unborn"
  /\ Goto("loop", "head")
  /\ UNCHANGED <<node, tmp, list, files, locals, ends, live, due, hit>>

Finalize ==
  /\ pc["main"] = "idle" /\ pc["loop"] # "unborn" /\ "finalize" \in MainMoves
  /\ final' = TRUE
  /\ Goto("main", "finalize")
  /\ UNCHANGED <<node, tmp, list, files, locals, cancel, live, due, hit>>

\* while (g_head) timer_stop(g_head)
FinalizeStop ==
  /\ pc["main"] = "finalize" /\ head # NoNode
  /\ node' = Set(node, "main", head)
  /\ live' = live \ {head}
  /\ Goto("main", "close")
  /\ UNCHANGED <<tmp, list, files, locals, ends, due, hit>>

\* Variant: the loop is joined and not cancelled.
FinalizeCancelNot ==
  /\ pc["main"] = "finalize" /\ head = NoNode
  /\ Goto("main", "join")
  /\ UNCHANGED <<node, tmp, list, files, locals, ends, live, due, hit>>

FinalizeCancel ==
  /\ pc["main"] = "finalize" /\ head = NoNode
  /\ cancel' = TRUE
  /\ Goto("main", "join")
  /\ UNCHANGED <<node, tmp, list, files, locals, final, live, due, hit>>

FinalizeJoin ==
  /\ pc["main"] = "join" /\ pc["loop"] = "gone"
  /\ Goto("main", "done")
  /\ UNCHANGED <<node, tmp, list, files, locals, ends, live, due, hit>>
-----------------------------------------------------------------------------
(* _timer_thread *)

\* Cancellation takes effect in pthread_testcancel only.  tmp = g_head.
LoopHead ==
  /\ pc["loop"] = "head"
  /\ IF cancel
       THEN Goto("loop", "gone") /\ UNCHANGED <<tmp, ufds>>
       ELSE /\ tmp' = Set(tmp, "loop", head)
            /\ ufds' = <<>>
            /\ Goto("loop", "collect")
  /\ UNCHANGED <<node, list, files, i, ready, ends, live, due, hit>>

Collect ==
  /\ pc["loop"] = "collect"
  /\ \/ /\ tmp["loop"] = NoNode
        /\ Goto("loop", "poll") /\ UNCHANGED <<tmp, ufds>>
     \/ /\ tmp["loop"] \in heap /\ Len(ufds) < MaxTimers
        /\ ufds' = Append(ufds, fd[tmp["loop"]])
        /\ tmp' = Set(tmp, "loop", next[tmp["loop"]])
        /\ Goto("loop", "collect")
  /\ UNCHANGED <<node, list, files, i, ready, ends, live, due, hit>>

Readable == {f \in ToSet(ufds) : timer[f] = "expired"}

\* Variant: one descriptor is not enough.
AtMostOneReady == Cardinality(Readable) <= 1

NoneReady == Readable = {}

\* Variant: the scan begins one early.
PlaceBefore == 0

FirstPlace == 1

\* poll returns what is readable, or nothing after 100 ms.
Poll ==
  /\ pc["loop"] = "poll"
  /\ IF NoneReady
       THEN Goto("loop", "head") /\ UNCHANGED <<ready, i>>
       ELSE /\ ready' = Readable
            /\ i' = FirstPlace
            /\ Goto("loop", "scan")
  /\ UNCHANGED <<node, tmp, list, files, ufds, ends, live, due, hit>>

\* The next descriptor: not readable at the time of poll, or closed since.
ScanSkip ==
  /\ pc["loop"] = "scan"
  /\ IF i > Len(ufds) THEN Goto("loop", "head") /\ UNCHANGED i
     ELSE /\ ufds[i] \notin ready \/ timer[ufds[i]] = "closed"
          /\ i' = i + 1
          /\ Goto("loop", "scan")
  /\ UNCHANGED <<node, tmp, list, files, ufds, ready, ends, live, due, hit>>

\* The call of read, of a descriptor that is open: its timer need not be the
\* one that poll found.
ScanRead ==
  /\ pc["loop"] = "scan" /\ i <= Len(ufds)
  /\ ufds[i] \in ready /\ timer[ufds[i]] # "closed"
  /\ Goto("loop", "read")
  /\ UNCHANGED <<node, tmp, list, files, locals, ends, live, due, hit>>

\* read returns when the timer it was called for has expired.
ReadReturns ==
  /\ pc["loop"] = "read"
  /\ \/ /\ orphan \notin Open /\ timer[ufds[i]] = "expired"
        /\ timer' = Set(timer, ufds[i], IF ufds[i] \in repeats THEN "armed" ELSE "disarmed")
        /\ hit' = {n \in due : fd[n] = ufds[i]}
        /\ due' = due \ hit'
        /\ UNCHANGED orphan
     \/ /\ orphan = "expired"
        /\ orphan' = "closed"
        /\ hit' = {}
        /\ UNCHANGED <<timer, due>>
  /\ Goto("loop", "seek")
  /\ UNCHANGED <<node, tmp, list, repeats, locals, ends, live>>

\* tmp = g_head
Seek ==
  /\ pc["loop"] = "seek"
  /\ tmp' = Set(tmp, "loop", head)
  /\ Goto("loop", "lookup")
  /\ UNCHANGED <<node, list, files, locals, ends, live, due, hit>>

\* Variant: any node will do.
MatchesAny(n) == n \in heap

Matches(n) == fd[n] = ufds[i]

\* while (tmp) if (tmp->fd == fd) return tmp; else tmp = tmp->next
Lookup ==
  /\ pc["loop"] = "lookup"
  /\ \/ /\ tmp["loop"] = NoNode
        /\ i' = i + 1
        /\ hit' = {}
        /\ Goto("loop", "scan") /\ UNCHANGED tmp
     \/ /\ tmp["loop"] \in heap /\ ~Matches(tmp["loop"])
        /\ tmp' = Set(tmp, "loop", next[tmp["loop"]])
        /\ Goto("loop", "lookup") /\ UNCHANGED <<i, hit>>
     \/ /\ tmp["loop"] \in heap /\ Matches(tmp["loop"])
        /\ Goto("loop", "call") /\ UNCHANGED <<tmp, i, hit>>
  /\ UNCHANGED <<node, list, files, ufds, ready, ends, live, due>>

\* tmp->callback, tmp->user_data, and the call.
CallCallback ==
  /\ pc["loop"] = "call" /\ tmp["loop"] \in heap
  /\ wild' = (wild \/ tmp["loop"] \notin hit)
  /\ hit' = {}
  /\ Move("loop", "callback")
  /\ UNCHANGED <<node, tmp, list, files, locals, ends, live, due, starts, late>>

CallbackReturns ==
  /\ pc["loop"] = "callback"
  /\ i' = i + 1
  /\ Goto("loop", "scan")
  /\ UNCHANGED <<node, tmp, list, files, ufds, ready, ends, live, due, hit>>
-----------------------------------------------------------------------------
\* A timer expires.
Expire(f) ==
  /\ timer[f] = "armed"
  /\ timer' = Set(timer, f, "expired")
  /\ due' = due \cup {n \in heap : fd[n] = f}
  /\ UNCHANGED <<pc, node, tmp, list, repeats, orphan, locals, ends, live, hit, starts, late,
                 raced, wild>>

ExpireOrphan ==
  /\ orphan = "armed"
  /\ orphan' = "expired"
  /\ UNCHANGED <<pc, node, tmp, list, timer, repeats, locals, ends, live, due, hit, starts, late,
                 raced, wild>>

\* The node that the next step of a reads or frees.  When the array of
\* descriptors is full, and the list goes on, there is none: only a list that
\* is a circle gets there.
Target(a) ==
  CASE pc[a] \in {"close", "free"} -> {node[a]}
    [] pc[a] = "unhead" -> {head}
    [] pc[a] = "collect" /\ tmp[a] # NoNode /\ Len(ufds) = MaxTimers -> {NoNode}
    [] pc[a] \in {"walk", "collect", "lookup", "call"} -> {tmp[a]} \ {NoNode}
    [] pc[a] = "unlink" -> {tmp[a]} \cup (IF tmp[a] \in heap THEN {next[tmp[a]]} ELSE {})
    [] OTHER -> {}

\* A thread reads a node that has been freed, or frees it again.
Stale(a) ==
  /\ \E n \in Target(a) : n \notin heap
  /\ Goto(a, "stale")
  /\ UNCHANGED <<node, tmp, list, files, locals, ends, live, due, hit>>

Known == \A a \in Actor : pc[a] # "stale"

Call(a) == \/ StartTimer(a) \/ StartLink(a) \/ StartPublish(a)
           \/ Stop(a) \/ StopClose(a) \/ StopTest(a) \/ StopUnhead(a) \/ StopWalk(a)
           \/ StopUnlink(a) \/ StopFree(a)

Ending == FinalizeStop \/ FinalizeCancel \/ FinalizeJoin

Loop == LoopHead \/ Collect \/ Poll \/ ScanSkip \/ ScanRead \/ ReadReturns \/ Seek
        \/ Lookup \/ CallCallback \/ CallbackReturns

Next ==
  \/ Initialize \/ Finalize \/ Ending \/ Loop
  \/ \E a \in Actor : Call(a) \/ Stale(a)
  \/ \E f \in Fd : Expire(f)
  \/ ExpireOrphan

Spec == Init /\ [][Next]_vars

\* A thread inside a call goes on; callbacks return; timers with an interval
\* expire.  Nobody has to call anything.
Inside(a) == pc[a] \in Writing \cup {"finalize", "join"}

Fairness ==
  /\ WF_vars(Inside("main") /\ (Ending \/ Call("main")))
  /\ WF_vars(Loop \/ (Inside("loop") /\ Call("loop")))
  /\ \A f \in Fd : WF_vars(Expire(f))
  /\ WF_vars(ExpireOrphan)

FairSpec == Spec /\ Fairness
-----------------------------------------------------------------------------
\* As long as no two threads are in the list at once, one of them to change it,
\* nobody touches a node that has been freed.  Between the lookup and the call of
\* the callback the loop counts as in the list: it reads the node once more.
FreedOnlyRacing == Known \/ raced

\* A callback is called for the timer whose expiry has just been read, though it
\* is found by a descriptor, which may have changed hands: if nobody has raced,
\* and the main thread has never stopped a timer while the loop was reading it.
\* Such a read goes on, and the timer that has the descriptor next is called.
CallbackDue == ~wild \/ raced \/ orphan # "none"

\* If nobody has raced, no freed node is touched; and while nobody is changing
\* it, the list holds the timers that have been started and not stopped, once
\* each, each with a descriptor of its own that is open, and nothing else is
\* allocated.
ListExact ==
  ~raced /\ (\A a \in Actor : pc[a] \notin Writing) =>
    /\ Known
    /\ heap = live
    /\ head \in live \cup {NoNode}
    /\ \A n \in live :
         /\ next[n] \in live \cup {NoNode}
         /\ Cardinality({m \in live : next[m] = n}) = (IF head = n THEN 0 ELSE 1)
         /\ timer[fd[n]] # "closed"
         /\ \A m \in live : fd[m] = fd[n] => m = n

\* timer_finalize leaves no node and no descriptor behind, if it has not raced
\* with the loop and no callback has added a timer meanwhile.
NothingLeft ==
  pc["main"] = "done" /\ ~raced /\ ~late =>
    heap = {} /\ \A f \in Fd : timer[f] = "closed"

\* The loop reads a timer with an interval of 0, which never expires: it has got
\* the descriptor of one that had.
Stuck ==
  /\ pc["loop"] = "read"
  /\ orphan = "disarmed" \/ (orphan \notin Open /\ timer[ufds[i]] = "disarmed")

\* A timer that expires is called or stopped in the end, if nobody has raced and
\* it was not added while the loop ends.  A callback that gives the descriptor of
\* a timer to another may delay the others until that one expires; if it has an
\* interval of 0 they wait for ever.
DueCalled ==
  \A n \in Node :
    pc["loop"] # "unborn" /\ n \in due ~>
      (pc["loop"] = "callback" /\ tmp["loop"] = n) \/ n \notin live \/ raced \/ late \/ Stuck

\* timer_finalize returns, though callbacks start timers meanwhile (MaxStarts of
\* them at most), unless it has raced with the loop, or the loop, which cannot be
\* cancelled there, reads a timer that never expires.
FinalizeReturns == pc["main"] = "finalize" ~> pc["main"] = "done" \/ raced \/ Stuck
=============================================================================
