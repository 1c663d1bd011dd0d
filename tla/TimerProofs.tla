---------------------------- MODULE TimerProofs -----------------------------
(***************************************************************************)
(* Proofs about timer.c: what is true of its list, its descriptors and its *)
(* callbacks as long as two threads have not been in the list at once, one *)
(* of them to change it, for any number of nodes, descriptors and calls.   *)
(***************************************************************************)
EXTENDS Timer, FiniteSetTheorems, SequenceTheorems, WellFoundedInduction, TLAPS

\* The nodes of the threads that are in one of these places.
Of(places) == {node[a] : a \in {b \in Actor : pc[b] \in places}}

Outside == {"link", "publish", "free"}
Closed == {"test", "unhead", "walk", "unlink", "free"}

InList == heap \ Of(Outside)

MainPlace == {"idle", "finalize", "join", "done", "stale"} \cup Writing
LoopPlace == {"unborn", "head", "poll", "scan", "read", "callback", "gone", "stale"} \cup Writing \cup Reading

\* Where the loop has the index of a descriptor, where it has read that one, and
\* where its tmp is a node of the list.
Scanning == {"read", "seek", "lookup", "call", "callback"}
Pending == {"seek", "lookup", "call"}
Following == {"collect", "lookup", "call"}

\* What holds of every state, whoever has raced.
PlaceInv ==
  /\ pc["main"] \in MainPlace /\ pc["loop"] \in LoopPlace
  /\ Racing(pc) => raced
  /\ \A a \in Actor : pc[a] \in Writing => node[a] \in Node
  /\ pc["loop"] \in Scanning \cup Writing => i <= Len(ufds)
  /\ \A n \in heap : fd[n] \in Fd
  /\ pc["main"] \in {"finalize", "join", "done"} => final
  /\ pc["main"] = "done" => pc["loop"] = "gone"

\* From h on, nx goes through the nodes of S, each once, by falling rank.
Ordered(S, h, nx, r) ==
  /\ \A m, n \in S : r[m] = r[n] => m = n
  /\ S = {} => h = NoNode
  /\ S # {} => h \in S /\ \A n \in S : r[n] <= r[h]
  /\ \A n \in S :
       /\ nx[n] \in S \cup {NoNode}
       /\ nx[n] \in S => r[nx[n]] < r[n]
       /\ \A m \in S : r[m] < r[n] => nx[n] \in S /\ r[m] <= r[nx[n]]

\* The node that a thread looks for is still ahead of it.
Walking(r) == \A a \in Actor : pc[a] = "walk" => tmp[a] \in InList /\ r[node[a]] < r[tmp[a]]

\* The loop has collected no more descriptors than there are nodes behind it.
Counting(r) ==
  pc["loop"] = "collect" /\ tmp["loop"] # NoNode =>
    Len(ufds) <= Cardinality({n \in InList : r[n] > r[tmp["loop"]]})

Order == \E r \in [Node -> Nat] : Ordered(InList, head, next, r) /\ Walking(r) /\ Counting(r)

Places ==
  /\ Known
  /\ Of(Writing) \subseteq heap /\ live = heap \ Of(Writing)
  /\ \A a \in Actor :
       /\ pc[a] = "publish" => next[node[a]] = head
       /\ pc[a] = "unhead" => node[a] = head
       /\ pc[a] = "unlink" => tmp[a] \in InList /\ next[tmp[a]] = node[a]
       /\ pc[a] \in Following => tmp[a] \in InList \cup {NoNode}

Fds ==
  /\ \A m, n \in heap : fd[m] = fd[n] => m = n
  /\ \A n \in heap : timer[fd[n]] = "closed" <=> n \in Of(Closed)
  /\ \A f \in Fd : timer[f] # "closed" => \E n \in heap : fd[n] = f

Dues == \A n \in heap : timer[fd[n]] = "expired" => n \in due

\* As long as no timer was stopped while the loop was reading it, the node that
\* the loop will find is that of the timer it has read.
Hits ==
  orphan = "none" =>
    /\ ~wild
    /\ pc["loop"] \in Pending => \A n \in heap : fd[n] = ufds[i] => n \in hit

Found == pc["loop"] = "call" => tmp["loop"] \in InList /\ fd[tmp["loop"]] = ufds[i]

Ends == pc["main"] \in {"join", "done"} /\ ~late => InList = {}

\* What holds as long as nobody has raced.
Good == Order /\ Places /\ Fds /\ Dues /\ Hits /\ Found /\ Ends

IInv == TypeOK /\ PlaceInv /\ (~raced => Good)
-----------------------------------------------------------------------------
(* Lists *)

\* A list depends on the links of its own nodes only.
LEMMA SameLinks ==
  ASSUME NEW S, NEW h, NEW nx, NEW ny, NEW r, Ordered(S, h, nx, r), \A n \in S : ny[n] = nx[n]
  PROVE  Ordered(S, h, ny, r)
BY DEF Ordered

\* A node in front of a list makes a list of it.
LEMMA Push ==
  ASSUME NEW S \in SUBSET Node, NEW h, NEW nx, NEW r \in [Node -> Nat], NEW n \in Node \ S,
         Ordered(S, h, nx, r), nx[n] = h
  PROVE  \E q \in [Node -> Nat] : Ordered(S \cup {n}, n, nx, q)
<1>1. CASE S = {}
  <2>1. Ordered(S \cup {n}, n, nx, r)
    BY <1>1, TimerAssumption DEF Ordered
  <2> QED BY <2>1
<1>2. CASE S # {}
  <2> DEFINE q == [r EXCEPT ![n] = r[h] + 1]
  <2>1. h \in S /\ r[h] \in Nat /\ h \in Node
    BY <1>2 DEF Ordered
  <2>2. q \in [Node -> Nat] /\ q[n] = r[h] + 1 /\ \A m \in S : q[m] = r[m] /\ r[m] \in Nat /\ m # n
    BY <2>1
  <2> HIDE DEF q
  <2>3. \A m \in S : r[m] <= r[h] /\ nx[m] # n
    BY <1>2, TimerAssumption DEF Ordered
  <2>4. \A m \in S : q[m] < q[n]
    BY <2>1, <2>2, <2>3
  <2>5. \A m, l \in S \cup {n} : q[m] = q[l] => m = l
    <3> SUFFICES ASSUME NEW m \in S \cup {n}, NEW l \in S \cup {n}, q[m] = q[l] PROVE m = l
      OBVIOUS
    <3>1. CASE m \in S /\ l \in S
      BY <2>2, <3>1 DEF Ordered
    <3>2. CASE m = n \/ l = n
      BY <2>1, <2>2, <2>4, <3>2
    <3> QED BY <3>1, <3>2
  <2>6. \A m \in S \cup {n} : q[m] <= q[n]
    BY <2>1, <2>2, <2>4
  <2>7. ASSUME NEW m \in S \cup {n}
        PROVE  /\ nx[m] \in S \cup {n, NoNode}
               /\ nx[m] \in S \cup {n} => q[nx[m]] < q[m]
               /\ \A l \in S \cup {n} : q[l] < q[m] => nx[m] \in S \cup {n} /\ q[l] <= q[nx[m]]
    <3>1. CASE m = n
      <4>1. \A l \in S \cup {n} : q[l] < q[m] => l \in S
        BY <2>1, <2>2, <3>1
      <4> QED BY <2>1, <2>2, <2>3, <2>4, <3>1, <4>1
    <3>2. CASE m \in S
      <4>1. \A l \in S \cup {n} : q[l] < q[m] => l \in S
        BY <2>1, <2>2, <2>4, <3>2
      <4>2. nx[m] \in S \cup {NoNode} /\ nx[m] # n
        BY <2>3, <3>2 DEF Ordered
      <4>3. nx[m] \in S => q[nx[m]] < q[m]
        BY <2>2, <3>2 DEF Ordered
      <4>4. \A l \in S : q[l] < q[m] => nx[m] \in S /\ q[l] <= q[nx[m]]
        BY <2>2, <3>2 DEF Ordered
      <4> QED BY <4>1, <4>2, <4>3, <4>4
    <3> QED BY <3>1, <3>2
  <2>8. Ordered(S \cup {n}, n, nx, q)
    BY <2>5, <2>6, <2>7 DEF Ordered
  <2> QED BY <2>2, <2>8
<1> QED BY <1>1, <1>2

\* Without its first node, a list begins at the second.
LEMMA Unhead ==
  ASSUME NEW S \in SUBSET Node, NEW h \in S, NEW nx, NEW r \in [Node -> Nat], Ordered(S, h, nx, r)
  PROVE  Ordered(S \ {h}, nx[h], nx, r)
<1>1. \A n \in S : r[n] \in Nat
  OBVIOUS
<1>2. \A n \in S \ {h} : r[n] < r[h]
  BY <1>1 DEF Ordered
<1>3. nx[h] \in (S \ {h}) \cup {NoNode} /\ \A n \in S \ {h} : nx[h] \in S /\ r[n] <= r[nx[h]]
  BY <1>1, <1>2 DEF Ordered
<1>4. \A n \in S \ {h} : nx[n] # h
  BY <1>1, <1>2 DEF Ordered
<1>5. h \in Node /\ h # NoNode
  BY TimerAssumption
<1>6. \A m, n \in S \ {h} : r[m] = r[n] => m = n
  BY DEF Ordered
<1>7. ASSUME NEW n \in S \ {h}
      PROVE  /\ nx[n] \in (S \ {h}) \cup {NoNode}
             /\ nx[n] \in S \ {h} => r[nx[n]] < r[n]
             /\ \A m \in S \ {h} : r[m] < r[n] => nx[n] \in S \ {h} /\ r[m] <= r[nx[n]]
  BY <1>4 DEF Ordered
<1> HIDE DEF Ordered
<1> QED BY <1>3, <1>5, <1>6, <1>7 DEF Ordered

\* The node after p can be taken out by a link from p to the node after it.
LEMMA Unlink ==
  ASSUME NEW S \in SUBSET Node, NEW h, NEW nx, NEW r \in [Node -> Nat], Ordered(S, h, nx, r),
         NEW p \in S, NEW x \in S, nx[p] = x,
         NEW ny, ny[p] = nx[x], \A n \in S : n # p => ny[n] = nx[n]
  PROVE  Ordered(S \ {x}, h, ny, r)
<1>1. \A n \in S : r[n] \in Nat
  OBVIOUS
<1>2. r[x] < r[p] /\ h \in S /\ x # p /\ r[p] <= r[h]
  BY <1>1 DEF Ordered
<1>3. x # h
  BY <1>1, <1>2
<1>4. ASSUME NEW n \in S, n # p PROVE nx[n] # x
  <2>1. r[n] < r[p] \/ r[p] < r[n]
    BY <1>1, <1>4 DEF Ordered
  <2>2. CASE r[n] < r[p]
    BY <1>1, <2>2 DEF Ordered
  <2>3. CASE r[p] < r[n]
    BY <1>1, <1>2, <2>3 DEF Ordered
  <2> QED BY <2>1, <2>2, <2>3
<1>5. /\ nx[x] \in S \cup {NoNode} /\ nx[x] # x
      /\ nx[x] \in S => r[nx[x]] < r[p]
      /\ \A m \in S \ {x} : r[m] < r[p] => nx[x] \in S /\ r[m] <= r[nx[x]]
  <2>1. nx[x] \in S \cup {NoNode} /\ x # NoNode
    BY TimerAssumption DEF Ordered
  <2>2. nx[x] \in S => r[nx[x]] < r[x]
    BY DEF Ordered
  <2>3. \A m \in S : r[m] < r[p] => r[m] <= r[x]
    BY DEF Ordered
  <2>4. \A m \in S \ {x} : r[m] <= r[x] => r[m] < r[x]
    BY <1>1 DEF Ordered
  <2>5. \A m \in S : r[m] < r[x] => nx[x] \in S /\ r[m] <= r[nx[x]]
    BY DEF Ordered
  <2> QED BY <1>1, <1>2, <2>1, <2>2, <2>3, <2>4, <2>5
<1>6. ASSUME NEW n \in S \ {x}
      PROVE  /\ ny[n] \in (S \ {x}) \cup {NoNode}
             /\ ny[n] \in S \ {x} => r[ny[n]] < r[n]
             /\ \A m \in S \ {x} : r[m] < r[n] => ny[n] \in S \ {x} /\ r[m] <= r[ny[n]]
  <2>1. CASE n = p
    BY <1>5, <2>1
  <2>2. CASE n # p
    <3>1. ny[n] = nx[n] /\ nx[n] # x
      BY <1>4, <2>2
    <3> QED BY <3>1 DEF Ordered
  <2> QED BY <2>1, <2>2
<1>7. (\A m, n \in S \ {x} : r[m] = r[n] => m = n) /\ \A n \in S : r[n] <= r[h]
  BY DEF Ordered
<1> QED BY <1>2, <1>3, <1>6, <1>7 DEF Ordered
-----------------------------------------------------------------------------
(* Types, and the places of the threads *)

AnyPlace == {"idle", "finalize", "join", "done", "unborn", "head", "poll",
            "scan", "read", "callback", "gone", "stale"} \cup Writing \cup Reading

LEMMA MoveTypes ==
  ASSUME TypeOK, NEW a \in Actor, NEW l \in AnyPlace, Move(a, l)
  PROVE  /\ pc' \in [Actor -> AnyPlace] /\ raced' \in BOOLEAN
         /\ pc'[a] = l /\ \A b \in Actor : b # a => pc'[b] = pc[b]
         /\ raced' = (raced \/ Racing(pc'))
BY DEF Move, TypeOK, AnyPlace, Racing

LEMMA TypeInit == Init => TypeOK /\ PlaceInv
<1> SUFFICES ASSUME Init PROVE TypeOK /\ PlaceInv
  OBVIOUS
<1> USE TimerAssumption
<1>1. <<>> \in Seq(Fd) /\ Len(<<>>) = 0
  BY EmptySeq
<1>2. pc \in [Actor -> AnyPlace] /\ pc["main"] = "idle" /\ pc["loop"] = "unborn"
  BY DEF Init, Actor, AnyPlace
<1>3. TypeOK
  <2>1. /\ node \in [Actor -> Node \cup {NoNode}] /\ tmp \in [Actor -> Node \cup {NoNode}]
        /\ head \in Node \cup {NoNode}
        /\ next \in [Node -> Node \cup {NoNode}] /\ fd \in [Node -> Fd \cup {NoFd}] /\ heap \subseteq Node
    BY DEF Init
  <2>2. timer \in [Fd -> Open \cup {"closed"}] /\ repeats \subseteq Fd /\ ready \subseteq Fd
        /\ orphan \in Open \cup {"none", "closed"}
    BY DEF Init
  <2>3. ufds \in Seq(Fd) /\ Len(ufds) <= MaxTimers /\ i \in 1 .. MaxTimers + 1
    BY <1>1 DEF Init
  <2>4. /\ final \in BOOLEAN /\ cancel \in BOOLEAN /\ late \in BOOLEAN /\ raced \in BOOLEAN /\ wild \in BOOLEAN
        /\ live \subseteq Node /\ due \subseteq Node /\ hit \subseteq Node
    BY DEF Init
  <2>5. starts \in 0 .. MaxStarts
    BY DEF Init
  <2> QED BY <1>2, <2>1, <2>2, <2>3, <2>4, <2>5 DEF TypeOK, AnyPlace
<1>4. PlaceInv
  BY <1>2 DEF Init, PlaceInv, MainPlace, LoopPlace, Racing, Writing, Reading, Scanning, Actor
<1> QED BY <1>3, <1>4

LEMMA TypeNext ==
  ASSUME TypeOK, PlaceInv, [Next]_vars
  PROVE  TypeOK'
<1> USE TimerAssumption
<1>0. "main" \in Actor /\ "loop" \in Actor /\ \A a \in Actor : Back(a) \in AnyPlace
  BY DEF Back, AnyPlace, Actor
<1>1. ASSUME NEW a \in Actor, StartTimer(a) PROVE TypeOK'
  <2>1. Move(a, "link") /\ "link" \in AnyPlace
    BY <1>1 DEF StartTimer, AnyPlace, Writing
  <2>2. UNCHANGED <<tmp, head, next, orphan, ufds, i, ready, final, cancel, live, due, hit, late, wild>>
    BY <1>1 DEF StartTimer, locals, ends, files
  <2>3. starts' \in 0 .. MaxStarts
    BY <1>1 DEF StartTimer, TypeOK
  <2>4. node' \in [Actor -> Node \cup {NoNode}] /\ heap' \subseteq Node /\ fd' \in [Node -> Fd \cup {NoFd}]
        /\ timer' \in [Fd -> Open \cup {"closed"}] /\ repeats' \subseteq Fd
    BY <1>1 DEF StartTimer, TypeOK, Set, Open
  <2>5. pc' \in [Actor -> AnyPlace] /\ raced' \in BOOLEAN
    BY <2>1, MoveTypes
  <2> QED BY <2>2, <2>3, <2>4, <2>5 DEF TypeOK, AnyPlace
<1>2. ASSUME NEW a \in Actor, StartLink(a) \/ StartPublish(a) PROVE TypeOK'
  <2>1. \E l \in AnyPlace : Move(a, l)
    BY <1>0, <1>2 DEF StartLink, StartPublish, Goto, AnyPlace, Writing
  <2>2. UNCHANGED <<node, tmp, fd, heap, timer, repeats, orphan, ufds, i, ready, final, cancel, due, hit,
                    starts, wild>>
    BY <1>2 DEF StartLink, StartPublish, Goto, locals, ends, files
  <2>3. head' \in Node \cup {NoNode} /\ live' \subseteq Node /\ late' \in BOOLEAN
    BY <1>2 DEF StartLink, StartPublish, Goto, PlaceInv, Writing, TypeOK
  <2>4. next' \in [Node -> Node \cup {NoNode}]
    BY <1>2 DEF StartLink, StartPublish, TypeOK, Set
  <2>5. pc' \in [Actor -> AnyPlace] /\ raced' \in BOOLEAN
    BY <2>1, MoveTypes
  <2> QED BY <2>2, <2>3, <2>4, <2>5 DEF TypeOK, AnyPlace
<1>3. ASSUME NEW a \in Actor, \/ Stop(a) \/ StopClose(a) \/ StopTest(a) \/ StopUnhead(a) \/ StopWalk(a)
                              \/ StopUnlink(a) \/ StopFree(a)
      PROVE  TypeOK'
  <2>1. \E l \in AnyPlace : Move(a, l)
    BY <1>0, <1>3 DEF Stop, StopClose, StopTest, StopUnhead, StopWalk, StopUnlink, StopFree, Goto,
                      AnyPlace, Writing
  <2>2. UNCHANGED <<fd, repeats, ufds, i, ready, final, cancel, hit, starts, late, wild>>
    BY <1>3 DEF Stop, StopClose, StopTest, StopUnhead, StopWalk, StopUnlink, StopFree, Goto,
                list, locals, ends, files
  <2>3. node' \in [Actor -> Node \cup {NoNode}] /\ live' \subseteq Node
    BY <1>3 DEF Stop, StopClose, StopTest, StopUnhead, StopWalk, StopUnlink, StopFree, TypeOK, Set
  <2>4. tmp' \in [Actor -> Node \cup {NoNode}]
    BY <1>3 DEF Stop, StopClose, StopTest, StopUnhead, StopWalk, StopUnlink, StopFree, TypeOK, Set
  <2>5. head' \in Node \cup {NoNode} /\ heap' \subseteq Node /\ due' \subseteq Node
    BY <1>3 DEF Stop, StopClose, StopTest, StopUnhead, StopWalk, StopUnlink, StopFree, TypeOK,
                list, files
  <2>6. next' \in [Node -> Node \cup {NoNode}]
    BY <1>3 DEF Stop, StopClose, StopTest, StopUnhead, StopWalk, StopUnlink, StopFree, TypeOK,
                list, Set, files
  <2>7. timer' \in [Fd -> Open \cup {"closed"}] /\ orphan' \in Open \cup {"none", "closed"}
    <3>1. CASE StopClose(a)
      <4>1. fd[node[a]] \in Fd
        BY <3>1 DEF StopClose, PlaceInv
      <4> QED BY <3>1, <4>1 DEF StopClose, TypeOK, Set
    <3>2. CASE UNCHANGED <<timer, orphan>>
      BY <3>2 DEF TypeOK
    <3> QED BY <1>3, <3>1, <3>2 DEF Stop, StopTest, StopUnhead, StopWalk, StopUnlink, StopFree,
                                    files
  <2>8. pc' \in [Actor -> AnyPlace] /\ raced' \in BOOLEAN
    BY <2>1, MoveTypes
  <2> QED BY <2>2, <2>3, <2>4, <2>5, <2>6, <2>7, <2>8 DEF TypeOK, AnyPlace
<1>4. CASE Initialize \/ Finalize \/ Ending \/ \E a \in Actor : Stale(a)
  <2>1. \E a \in Actor : \E l \in AnyPlace : Move(a, l)
    <3>1. CASE \E a \in Actor : Stale(a)
      BY <3>1 DEF Stale, Goto, AnyPlace
    <3>2. CASE Initialize \/ Finalize \/ Ending
      <4>1. Move("loop", "head") \/ \E l \in {"finalize", "close", "join", "done"} : Move("main", l)
        BY <3>2 DEF Initialize, Finalize, Ending, FinalizeStop, FinalizeCancel, FinalizeJoin, Goto
      <4> QED BY <1>0, <4>1 DEF AnyPlace, Writing
    <3> QED BY <1>4, <3>1, <3>2
  <2>2. UNCHANGED <<tmp, head, next, fd, heap, timer, repeats, orphan, ufds, i, ready, due, hit, starts, late, wild>>
    BY <1>4 DEF Initialize, Finalize, Ending, FinalizeStop, FinalizeCancel, FinalizeJoin, Stale,
                Goto, list, locals, ends, files
  <2>3. node' \in [Actor -> Node \cup {NoNode}] /\ live' \subseteq Node /\ final' \in BOOLEAN /\ cancel' \in BOOLEAN
    <3>1. CASE FinalizeStop
      BY <3>1 DEF FinalizeStop, TypeOK, Set, ends, files
    <3>2. CASE Initialize \/ Finalize \/ FinalizeCancel \/ FinalizeJoin \/ \E a \in Actor : Stale(a)
      BY <3>2 DEF Initialize, Finalize, FinalizeCancel, FinalizeJoin, Stale, TypeOK, ends, files
    <3> QED BY <1>4, <3>1, <3>2 DEF Ending
  <2>4. pc' \in [Actor -> AnyPlace] /\ raced' \in BOOLEAN
    BY <2>1, MoveTypes
  <2> QED BY <2>2, <2>3, <2>4 DEF TypeOK, AnyPlace
<1>5. CASE LoopHead \/ Collect
  <2>1. \E l \in AnyPlace : Move("loop", l)
    BY <1>5 DEF LoopHead, Collect, Goto, AnyPlace, Reading
  <2>2. UNCHANGED <<node, head, next, fd, heap, timer, repeats, orphan, i, ready, final, cancel, live, due, hit,
                    starts, late, wild>>
    BY <1>5 DEF LoopHead, Collect, Goto, list, ends, files
  <2>3. tmp' \in [Actor -> Node \cup {NoNode}]
    BY <1>5 DEF LoopHead, Collect, TypeOK, Set
  <2>4. ufds' \in Seq(Fd) /\ Len(ufds') <= MaxTimers
    <3>1. CASE ufds' = ufds
      BY <3>1 DEF TypeOK
    <3>2. CASE ufds' = <<>>
      BY <3>2, EmptySeq
    <3>3. CASE tmp["loop"] \in heap /\ Len(ufds) < MaxTimers /\ ufds' = Append(ufds, fd[tmp["loop"]])
      <4>1. fd[tmp["loop"]] \in Fd
        BY <3>3 DEF PlaceInv
      <4>2. ufds \in Seq(Fd) /\ Len(ufds) \in Nat
        BY LenProperties DEF TypeOK
      <4> QED BY <3>3, <4>1, <4>2, AppendProperties
    <3> QED BY <1>5, <3>1, <3>2, <3>3 DEF LoopHead, Collect
  <2>5. pc' \in [Actor -> AnyPlace] /\ raced' \in BOOLEAN
    <3>1. PICK l \in AnyPlace : Move("loop", l)
      BY <2>1
    <3> QED BY <1>0, <3>1, MoveTypes
  <2> QED BY <2>2, <2>3, <2>4, <2>5 DEF TypeOK, AnyPlace
<1>6. CASE Poll \/ ScanSkip \/ ScanRead \/ ReadReturns \/ Seek \/ Lookup \/ CallCallback \/ CallbackReturns
  <2>0. ufds \in Seq(Fd) /\ Len(ufds) \in Nat /\ \A k \in 1 .. Len(ufds) : ufds[k] \in Fd
    BY LenProperties, ElementOfSeq DEF TypeOK
  <2>1. \E l \in AnyPlace : Move("loop", l)
    BY <1>6 DEF Poll, ScanSkip, ScanRead, ReadReturns, Seek, Lookup, CallCallback, CallbackReturns,
                Goto, AnyPlace, Reading
  <2>2. UNCHANGED <<node, head, next, fd, heap, repeats, ufds, final, cancel, live, starts, late>>
    BY <1>6 DEF Poll, ScanSkip, ScanRead, ReadReturns, Seek, Lookup, CallCallback, CallbackReturns,
                Goto, list, locals, ends, files
  <2>3. tmp' \in [Actor -> Node \cup {NoNode}]
    BY <1>6 DEF Poll, ScanSkip, ScanRead, ReadReturns, Seek, Lookup, CallCallback, CallbackReturns,
                TypeOK, Set
  <2>4. timer' \in [Fd -> Open \cup {"closed"}] /\ orphan' \in Open \cup {"none", "closed"}
    <3>1. CASE ReadReturns
      BY <3>1 DEF ReadReturns, TypeOK, Set, Open
    <3>2. CASE UNCHANGED <<timer, orphan>>
      BY <3>2 DEF TypeOK
    <3> QED BY <1>6, <3>1, <3>2 DEF Poll, ScanSkip, ScanRead, Seek, Lookup, CallCallback,
                                    CallbackReturns, files
  <2>5. due' \subseteq Node /\ hit' \subseteq Node
    BY <1>6 DEF Poll, ScanSkip, ScanRead, ReadReturns, Seek, Lookup, CallCallback, CallbackReturns,
                TypeOK
  <2>6. wild' \in BOOLEAN
    BY <1>6 DEF Poll, ScanSkip, ScanRead, ReadReturns, Seek, Lookup, CallCallback, CallbackReturns,
                TypeOK, Goto
  <2>7. ready' \subseteq Fd
    <3>1. Readable \subseteq Fd
      BY DEF Readable, ToSet, TypeOK
    <3> QED BY <1>6, <3>1 DEF Poll, ScanSkip, ScanRead, ReadReturns, Seek, Lookup, CallCallback,
                              CallbackReturns, TypeOK, locals, files
  <2>8. i' \in 1 .. MaxTimers + 1
    <3>1. i' = i \/ i' = 1 \/ (i' = i + 1 /\ i <= Len(ufds))
      <4>1. CASE Lookup \/ CallbackReturns
        BY <2>0, <4>1 DEF Lookup, CallbackReturns, PlaceInv, Scanning
      <4>2. CASE ScanSkip
        BY <2>0, <4>2 DEF ScanSkip, TypeOK
      <4>3. CASE Poll
        BY <4>3 DEF Poll, FirstPlace
      <4>4. CASE ScanRead \/ ReadReturns \/ Seek \/ CallCallback
        BY <4>4 DEF ScanRead, ReadReturns, Seek, CallCallback, locals
      <4> QED BY <1>6, <4>1, <4>2, <4>3, <4>4
    <3> QED BY <2>0, <3>1 DEF TypeOK
  <2>9. pc' \in [Actor -> AnyPlace] /\ raced' \in BOOLEAN
    <3>1. PICK l \in AnyPlace : Move("loop", l)
      BY <2>1
    <3> QED BY <1>0, <3>1, MoveTypes
  <2> QED BY <2>0, <2>2, <2>3, <2>4, <2>5, <2>6, <2>7, <2>8, <2>9 DEF TypeOK, AnyPlace
<1>7. ASSUME NEW f \in Fd, Expire(f) PROVE TypeOK'
  <2>1. UNCHANGED <<pc, node, tmp, head, next, fd, heap, repeats, orphan, ufds, i, ready, final, cancel, live,
                    hit, starts, late, raced, wild>>
    BY <1>7 DEF Expire, ExpireOrphan, list, locals, ends, files
  <2>2. timer' \in [Fd -> Open \cup {"closed"}] /\ due' \subseteq Node
    BY <1>7 DEF Expire, TypeOK, Set, Open
  <2> QED BY <2>1, <2>2 DEF TypeOK
<1>8. CASE ExpireOrphan
  BY <1>8 DEF ExpireOrphan, TypeOK, Open, list, locals, ends
<1>9. CASE UNCHANGED vars
  BY <1>9 DEF TypeOK, vars
<1> QED BY <1>1, <1>2, <1>3, <1>4, <1>5, <1>6, <1>7, <1>8, <1>9 DEF Next, Call, Loop

\* A step moves one thread, or none.
LEMMA StepMoves ==
  ASSUME [Next]_vars
  PROVE  UNCHANGED <<pc, raced>> \/ \E a \in Actor : \E l \in AnyPlace : Move(a, l)
<1>0. "main" \in Actor /\ "loop" \in Actor /\ \A a \in Actor : Back(a) \in AnyPlace
  BY DEF Back, AnyPlace, Actor
<1>1. CASE Initialize \/ Finalize \/ Ending
  <2>1. Move("loop", "head") \/ \E l \in {"finalize", "close", "join", "done"} : Move("main", l)
    BY <1>1 DEF Initialize, Finalize, Ending, FinalizeStop, FinalizeCancel, FinalizeJoin, Goto
  <2> QED BY <1>0, <2>1 DEF AnyPlace, Writing
<1>2. CASE Loop
  <2>1. \E l \in {"gone", "collect", "poll", "head", "scan", "read", "seek", "lookup", "call", "callback"} : Move("loop", l)
    BY <1>2 DEF Loop, LoopHead, Collect, Poll, ScanSkip, ScanRead, ReadReturns, Seek, Lookup,
                CallCallback, CallbackReturns, Goto
  <2> QED BY <1>0, <2>1 DEF AnyPlace, Reading
<1>3. ASSUME NEW a \in Actor, Call(a) \/ Stale(a) PROVE \E l \in AnyPlace : Move(a, l)
  <2>1. \E l \in Writing \cup {Back(a), "stale"} : Move(a, l)
    BY <1>3 DEF Call, Stale, StartTimer, StartLink, StartPublish, Stop, StopClose, StopTest,
                StopUnhead,
                StopWalk, StopUnlink, StopFree, Goto, Writing
  <2> QED BY <1>0, <2>1 DEF AnyPlace
<1>4. CASE UNCHANGED vars \/ ExpireOrphan \/ \E f \in Fd : Expire(f)
  BY <1>4 DEF vars, Expire, ExpireOrphan
<1> QED BY <1>1, <1>2, <1>3, <1>4 DEF Next

\* A call has its node from the beginning on.
LEMMA BusyNodes ==
  ASSUME TypeOK, PlaceInv, [Next]_vars
  PROVE  \A a \in Actor : pc'[a] \in Writing => node'[a] \in Node
<1> USE TimerAssumption
<1>0. "main" \in Actor /\ "loop" \in Actor
  BY DEF Actor
<1>1. ASSUME NEW a \in Actor, NEW n \in Node, node' = Set(node, a, n), \E l : Move(a, l)
      PROVE  \A b \in Actor : pc'[b] \in Writing => node'[b] \in Node
  BY <1>1 DEF Set, Move, TypeOK, PlaceInv
<1>2. CASE node' = node /\ \A b \in Actor : pc'[b] \in Writing => pc[b] \in Writing
  BY <1>2 DEF PlaceInv
<1>3. ASSUME NEW a \in Actor, StartTimer(a) \/ Stop(a)
      PROVE  \E n \in Node : node' = Set(node, a, n) /\ \E l : Move(a, l)
  BY <1>3 DEF StartTimer, Stop, Goto, TypeOK
<1>4. CASE FinalizeStop
  <2>1. head \in Node /\ node' = Set(node, "main", head) /\ Move("main", "close")
    BY <1>4 DEF FinalizeStop, Goto, TypeOK
  <2> QED BY <1>0, <1>1, <2>1
<1>5. ASSUME NEW a \in Actor, NEW l, Move(a, l), l \notin Writing
      PROVE  \A b \in Actor : pc'[b] \in Writing => pc[b] \in Writing
  BY <1>5 DEF Move, TypeOK
<1>6. CASE Initialize \/ Finalize \/ FinalizeCancel \/ FinalizeJoin
  <2>1. node' = node /\ (Move("loop", "head") \/ \E l \in {"finalize", "join", "done"} : Move("main", l))
    BY <1>6 DEF Initialize, Finalize, FinalizeCancel, FinalizeJoin, Goto
  <2> QED BY <1>0, <1>2, <1>5, <2>1 DEF Writing
<1>7. CASE Loop
  <2>1. node' = node /\ \E l \in {"gone", "collect", "poll", "head", "scan", "read", "seek", "lookup", "call", "callback"} : Move("loop", l)
    BY <1>7 DEF Loop, LoopHead, Collect, Poll, ScanSkip, ScanRead, ReadReturns, Seek, Lookup,
                CallCallback, CallbackReturns, Goto
  <2> QED BY <1>0, <1>2, <1>5, <2>1 DEF Writing
<1>8. ASSUME NEW a \in Actor, Stale(a) PROVE node' = node /\ \A b \in Actor : pc'[b] \in Writing => pc[b] \in Writing
  BY <1>5, <1>8 DEF Stale, Goto, Writing
<1>9. ASSUME NEW a \in Actor, \/ StartLink(a) \/ StartPublish(a) \/ StopClose(a) \/ StopTest(a)
                              \/ StopUnhead(a) \/ StopWalk(a) \/ StopUnlink(a) \/ StopFree(a)
      PROVE  node' = node /\ \A b \in Actor : pc'[b] \in Writing => pc[b] \in Writing
  <2>1. node' = node /\ pc[a] \in Writing /\ \E l : Move(a, l)
    BY <1>9 DEF StartLink, StartPublish, StopClose, StopTest, StopUnhead, StopWalk, StopUnlink,
                StopFree,
                Goto, Writing
  <2> QED BY <2>1 DEF Move, TypeOK
<1>10. CASE UNCHANGED vars \/ ExpireOrphan \/ \E f \in Fd : Expire(f)
  BY <1>2, <1>10 DEF vars, Expire, ExpireOrphan
<1> QED BY <1>1, <1>2, <1>3, <1>4, <1>6, <1>7, <1>8, <1>9, <1>10 DEF Next, Ending, Call

\* Only timer_start allocates.
LEMMA HeapShrinks ==
  ASSUME [Next]_vars
  PROVE  (heap' \subseteq heap /\ fd' = fd) \/ \E a \in Actor : StartTimer(a)
<1>1. CASE Initialize \/ Finalize \/ Ending \/ Loop \/ UNCHANGED vars \/ ExpireOrphan \/ \E f \in Fd : Expire(f)
  BY <1>1 DEF Initialize, Finalize, Ending, FinalizeStop, FinalizeCancel, FinalizeJoin, Expire,
              ExpireOrphan, vars,
              Loop, LoopHead, Collect, Poll, ScanSkip, ScanRead, ReadReturns, Seek, Lookup, CallCallback, CallbackReturns, list, files
<1>2. ASSUME NEW a \in Actor, Call(a) \/ Stale(a)
      PROVE  (heap' \subseteq heap /\ fd' = fd) \/ StartTimer(a)
  BY <1>2 DEF Call, Stale, StartLink, StartPublish, Stop, StopClose, StopTest, StopUnhead,
              StopWalk, StopUnlink, StopFree, list, files
<1> QED BY <1>1, <1>2 DEF Next

LEMMA PlaceNext ==
  ASSUME TypeOK, PlaceInv, [Next]_vars
  PROVE  PlaceInv'
<1> USE TimerAssumption
<1>0. /\ "main" \in Actor /\ "loop" \in Actor /\ \A a \in Actor : a = "main" \/ a = "loop"
      /\ pc["main"] \in MainPlace /\ pc["loop"] \in LoopPlace
  BY DEF Actor, PlaceInv
<1>1. pc'["main"] \in MainPlace /\ pc'["loop"] \in LoopPlace
  <2>1. CASE pc' = pc
    BY <1>0, <2>1
  <2>2. ASSUME NEW a \in Actor, NEW l \in IF a = "main" THEN MainPlace ELSE LoopPlace, Move(a, l)
        PROVE  pc'["main"] \in MainPlace /\ pc'["loop"] \in LoopPlace
    BY <1>0, <2>2 DEF Move, TypeOK
  <2>3. CASE Initialize \/ Finalize \/ Ending
    <3>1. Move("loop", "head") \/ \E l \in MainPlace : Move("main", l)
      BY <2>3 DEF Initialize, Finalize, Ending, FinalizeStop, FinalizeCancel, FinalizeJoin, Goto,
                  MainPlace, Writing
    <3> QED BY <1>0, <2>2, <3>1 DEF LoopPlace
  <2>4. CASE Loop
    <3>1. \E l \in LoopPlace : Move("loop", l)
      BY <2>4 DEF Loop, LoopHead, Collect, Poll, ScanSkip, ScanRead, ReadReturns, Seek, Lookup,
                  CallCallback, CallbackReturns, Goto,
                  LoopPlace, Reading
    <3> QED BY <1>0, <2>2, <3>1
  <2>5. ASSUME NEW a \in Actor, Call(a) \/ Stale(a)
        PROVE  pc'["main"] \in MainPlace /\ pc'["loop"] \in LoopPlace
    <3>1. /\ \A l \in Writing : l \in MainPlace /\ l \in LoopPlace
          /\ Back("main") \in MainPlace /\ Back("loop") \in LoopPlace
          /\ "stale" \in MainPlace /\ "stale" \in LoopPlace
      BY DEF MainPlace, LoopPlace, Back
    <3>2. \E l \in Writing \cup {Back(a), "stale"} : Move(a, l)
      BY <2>5 DEF Call, Stale, StartTimer, StartLink, StartPublish, Stop, StopClose, StopTest,
                  StopUnhead,
                  StopWalk, StopUnlink, StopFree, Goto, Writing
    <3> QED BY <1>0, <2>2, <3>1, <3>2
  <2>6. CASE UNCHANGED vars \/ ExpireOrphan \/ \E f \in Fd : Expire(f)
    BY <2>1, <2>6 DEF vars, Expire, ExpireOrphan
  <2> QED BY <2>3, <2>4, <2>5, <2>6 DEF Next
<1>2. Racing(pc)' => raced'
  <2>1. ASSUME NEW a \in Actor, NEW l, Move(a, l) PROVE Racing(pc)' => raced'
    BY <2>1 DEF Move, Racing
  <2>2. CASE UNCHANGED <<pc, raced>>
    BY <2>2 DEF Racing, PlaceInv
  <2> QED BY <1>0, <2>1, <2>2, StepMoves
<1>3. \A a \in Actor : pc'[a] \in Writing => node'[a] \in Node
  BY BusyNodes
<1>4. pc'["loop"] \in Scanning \cup Writing => i' <= Len(ufds')
  <2>1. CASE pc'["loop"] = pc["loop"] /\ UNCHANGED <<i, ufds>>
    BY <2>1 DEF PlaceInv
  <2>2. CASE pc'["loop"] \notin Scanning \cup Writing
    BY <2>2
  <2>3. CASE Initialize \/ Finalize \/ Ending \/ (\E f \in Fd : Expire(f)) \/ ExpireOrphan \/ UNCHANGED vars
    <3>1. UNCHANGED <<i, ufds>> /\ (pc'["loop"] = pc["loop"] \/ pc'["loop"] = "head")
      BY <1>0, <2>3 DEF Initialize, Finalize, Ending, FinalizeStop, FinalizeCancel, FinalizeJoin,
                        Goto, Move,
                        Expire, ExpireOrphan, vars, locals, TypeOK, files
    <3> QED BY <2>1, <2>2, <3>1 DEF Writing, Scanning
  <2>4. CASE LoopHead \/ Collect \/ Poll \/ ScanSkip \/ CallbackReturns
    <3>1. pc'["loop"] \in {"gone", "collect", "poll", "head", "scan"}
      BY <1>0, <2>4 DEF LoopHead, Collect, Poll, ScanSkip, CallbackReturns, Goto, Move, TypeOK
    <3> QED BY <2>2, <3>1 DEF Writing, Scanning
  <2>5. CASE ScanRead \/ ReadReturns \/ Seek \/ CallCallback
    BY <2>5 DEF ScanRead, ReadReturns, Seek, CallCallback, locals, PlaceInv, Scanning
  <2>6. CASE Lookup
    <3>1. pc["loop"] = "lookup" /\ ufds' = ufds /\ (i' = i \/ pc'["loop"] = "scan")
      BY <1>0, <2>6 DEF Lookup, Goto, Move, TypeOK
    <3> QED BY <2>2, <3>1 DEF PlaceInv, Writing, Scanning
  <2>7. ASSUME NEW a \in Actor, Call(a) \/ Stale(a)
        PROVE  pc'["loop"] \in Scanning \cup Writing => i' <= Len(ufds')
    <3>1. UNCHANGED <<i, ufds>>
      BY <2>7 DEF Call, Stale, StartTimer, StartLink, StartPublish, Stop, StopClose, StopTest,
                  StopUnhead,
                  StopWalk, StopUnlink, StopFree, locals, files
    <3>2. CASE a = "main"
      <4>1. \E l : Move("main", l)
        BY <2>7, <3>2 DEF Call, Stale, StartTimer, StartLink, StartPublish, Stop, StopClose,
                          StopTest,
                          StopUnhead, StopWalk, StopUnlink, StopFree, Goto
      <4>2. pc'["loop"] = pc["loop"]
        BY <1>0, <4>1 DEF Move, TypeOK
      <4> QED BY <2>1, <3>1, <4>2
    <3>3. CASE a = "loop" /\ Stale(a)
      <4>1. pc'["loop"] = "stale"
        BY <1>0, <3>3 DEF Stale, Goto, Move, TypeOK
      <4> QED BY <2>2, <4>1 DEF Writing, Scanning
    <3>4. CASE a = "loop" /\ Call(a)
      <4>1. pc["loop"] \in {"callback"} \cup Writing
        BY <3>4 DEF Call, StartTimer, StartLink, StartPublish, Stop, StopClose, StopTest,
                    StopUnhead,
                    StopWalk, StopUnlink, StopFree, May, Writing
      <4> QED BY <3>1, <4>1 DEF PlaceInv, Scanning
    <3> QED BY <1>0, <2>7, <3>2, <3>3, <3>4
  <2> QED BY <2>3, <2>4, <2>5, <2>6, <2>7 DEF Next, Loop
<1>5. \A n \in heap' : fd'[n] \in Fd
  <2>1. ASSUME NEW a \in Actor, StartTimer(a) PROVE \A n \in heap' : fd'[n] \in Fd
    BY <2>1 DEF StartTimer, Set, TypeOK, PlaceInv
  <2>2. CASE heap' \subseteq heap /\ fd' = fd
    BY <2>2 DEF PlaceInv
  <2> QED BY <2>1, <2>2, HeapShrinks
<1>6. pc'["main"] \in {"finalize", "join", "done"} => final'
  <2>1. CASE pc'["main"] = pc["main"] /\ final' = final
    BY <2>1 DEF PlaceInv
  <2>2. CASE Finalize
    BY <2>2 DEF Finalize
  <2>3. CASE Ending
    <3>1. pc["main"] \in {"finalize", "join"} /\ final' = final
      BY <2>3 DEF Ending, FinalizeStop, FinalizeCancel, FinalizeJoin, ends, files
    <3> QED BY <3>1 DEF PlaceInv
  <2>4. CASE Initialize \/ Loop \/ (\E f \in Fd : Expire(f)) \/ ExpireOrphan \/ UNCHANGED vars
    <3>1. final' = final /\ (pc' = pc \/ \E l : Move("loop", l))
      BY <2>4 DEF Initialize, Loop, LoopHead, Collect, Poll, ScanSkip, ScanRead, ReadReturns, Seek,
                  Lookup, CallCallback, CallbackReturns,
                  Expire, ExpireOrphan, vars, ends, Goto, files
    <3> QED BY <1>0, <2>1, <3>1 DEF Move, TypeOK
  <2>5. ASSUME NEW a \in Actor, Call(a) \/ Stale(a)
        PROVE  pc'["main"] \in {"finalize", "join", "done"} => final'
    <3>1. final' = final /\ \E l \in Writing \cup {Back(a), "stale"} : Move(a, l)
      BY <2>5 DEF Call, Stale, StartTimer, StartLink, StartPublish, Stop, StopClose, StopTest,
                  StopUnhead,
                  StopWalk, StopUnlink, StopFree, Goto, Writing, ends, files
    <3>2. CASE a = "loop"
      BY <1>0, <2>1, <3>1, <3>2 DEF Move, TypeOK
    <3>3. CASE a = "main"
      <4>1. pc'["main"] \in Writing \cup {Back("main"), "stale"}
        BY <1>0, <3>1, <3>3 DEF Move, TypeOK
      <4> QED BY <3>1, <4>1 DEF Writing, Back
    <3> QED BY <1>0, <3>2, <3>3
  <2> QED BY <2>2, <2>3, <2>4, <2>5 DEF Next
<1>7. pc'["main"] = "done" => pc'["loop"] = "gone"
  <2>1. CASE pc["loop"] = "gone"
    <3>1. UNCHANGED pc \/ \E l : Move("main", l)
      <4>1. CASE Initialize \/ Finalize \/ Ending \/ (\E f \in Fd : Expire(f)) \/ ExpireOrphan \/ UNCHANGED vars
        BY <2>1, <4>1 DEF Initialize, Finalize, Ending, FinalizeStop, FinalizeCancel, FinalizeJoin,
                          Goto,
                          Expire, ExpireOrphan, vars
      <4>2. CASE Loop
        BY <2>1, <4>2 DEF Loop, LoopHead, Collect, Poll, ScanSkip, ScanRead, ReadReturns, Seek,
                          Lookup, CallCallback, CallbackReturns
      <4>3. ASSUME NEW a \in Actor, Call(a) \/ Stale(a) PROVE \E l : Move("main", l)
        <5>1. \E l : Move(a, l)
          BY <4>3 DEF Call, Stale, StartTimer, StartLink, StartPublish, Stop, StopClose, StopTest,
                      StopUnhead,
                      StopWalk, StopUnlink, StopFree, Goto
        <5>2. a # "loop"
          BY <2>1, <4>3 DEF Call, Stale, Target, StartTimer, StartLink, StartPublish, Stop,
                            StopClose,
                            StopTest, StopUnhead, StopWalk, StopUnlink, StopFree, May
        <5> QED BY <1>0, <5>1, <5>2
      <4> QED BY <4>1, <4>2, <4>3 DEF Next
    <3> QED BY <1>0, <2>1, <3>1 DEF Move, TypeOK
  <2>2. CASE pc["loop"] # "gone"
    <3>1. pc["main"] # "done" /\ ~FinalizeJoin
      BY <2>2 DEF PlaceInv, FinalizeJoin
    <3>2. pc'["main"] # "done"
      <4>1. CASE Initialize \/ Finalize \/ Ending \/ (\E f \in Fd : Expire(f)) \/ ExpireOrphan \/ UNCHANGED vars \/ Loop
        <5>1. UNCHANGED pc \/ (\E l : Move("loop", l)) \/ \E l \in {"finalize", "close", "join"} : Move("main", l)
          BY <3>1, <4>1 DEF Initialize, Finalize, Ending, FinalizeStop, FinalizeCancel, Goto,
                            Expire, ExpireOrphan, vars,
                            Loop, LoopHead, Collect, Poll, ScanSkip, ScanRead, ReadReturns, Seek, Lookup, CallCallback, CallbackReturns
        <5> QED BY <1>0, <3>1, <5>1 DEF Move, TypeOK
      <4>2. ASSUME NEW a \in Actor, Call(a) \/ Stale(a) PROVE pc'["main"] # "done"
        <5>1. \E l \in Writing \cup {Back(a), "stale"} : Move(a, l)
          BY <4>2 DEF Call, Stale, StartTimer, StartLink, StartPublish, Stop, StopClose, StopTest,
                      StopUnhead,
                      StopWalk, StopUnlink, StopFree, Goto, Writing
        <5>2. "done" \notin Writing \cup {Back(a), "stale"}
          BY DEF Writing, Back
        <5> QED BY <1>0, <3>1, <5>1, <5>2 DEF Move, TypeOK
      <4> QED BY <4>1, <4>2 DEF Next
    <3> QED BY <3>2
  <2> QED BY <2>1, <2>2
<1> QED BY <1>1, <1>2, <1>3, <1>4, <1>5, <1>6, <1>7 DEF PlaceInv
-----------------------------------------------------------------------------
(* Steps of a thread that is changing the list: nobody else is in it. *)

\* The nodes of the threads in some places, when one thread only can be there.
LEMMA OfOne ==
  ASSUME NEW a \in Actor, NEW p, NEW nd, NEW S, \A b \in Actor : b # a => p[b] \notin S
  PROVE  {nd[b] : b \in {c \in Actor : p[c] \in S}} = IF p[a] \in S THEN {nd[a]} ELSE {}
OBVIOUS

LEMMA WriterStep ==
  ASSUME TypeOK, PlaceInv, NEW a \in Actor, NEW l \in AnyPlace, Move(a, l), ~raced',
         pc[a] \in Writing \/ l \in Writing
  PROVE  /\ ~raced /\ pc'[a] = l
         /\ \A b \in Actor : b # a => pc'[b] = pc[b] /\ pc[b] \notin Writing \cup Reading
         /\ \A S \in SUBSET Writing :
              /\ Of(S) = IF pc[a] \in S THEN {node[a]} ELSE {}
              /\ Of(S)' = IF l \in S THEN {node'[a]} ELSE {}
<1>1. /\ pc'[a] = l /\ \A b \in Actor : b # a => pc'[b] = pc[b]
      /\ ~raced /\ ~Racing(pc')
  BY MoveTypes
<1>2. ~Racing(pc)
  BY <1>1 DEF PlaceInv
<1>3. \A b \in Actor : b # a => pc[b] \notin Writing \cup Reading
  <2>1. pc["main"] \notin Reading
    BY DEF PlaceInv, MainPlace, Writing, Reading
  <2>2. CASE pc[a] \in Writing
    BY <1>2, <2>1, <2>2 DEF Racing, Actor
  <2>3. CASE l \in Writing
    BY <1>1, <2>1, <2>3 DEF Racing, Actor
  <2> QED BY <2>2, <2>3
<1>4. ASSUME NEW S \in SUBSET Writing
      PROVE  /\ Of(S) = IF pc[a] \in S THEN {node[a]} ELSE {}
             /\ Of(S)' = IF l \in S THEN {node'[a]} ELSE {}
  <2>1. \A b \in Actor : b # a => pc[b] \notin S /\ pc'[b] \notin S
    BY <1>1, <1>3
  <2>2. Of(S) = IF pc[a] \in S THEN {node[a]} ELSE {}
    BY <2>1, OfOne DEF Of
  <2>3. Of(S)' = IF pc'[a] \in S THEN {node'[a]} ELSE {}
    BY <2>1, OfOne DEF Of
  <2> QED BY <1>1, <2>2, <2>3
<1> QED BY <1>1, <1>3, <1>4

NoWilder == wild' = wild /\ (orphan' = "none" => orphan = "none")

\* What is left to show of a step of a thread that is changing the list: it goes
\* to l, and the list falls by r.
Leaves(a, l, r) ==
  /\ Move(a, l)
  /\ pc[a] \in Writing \/ l \in Writing
  /\ Ordered(InList', head', next', r)
  /\ l = "walk" => tmp'[a] \in InList' /\ r[node'[a]] < r[tmp'[a]]
  /\ l \in Writing => node'[a] \in heap'
  /\ live' = heap' \ IF l \in Writing THEN {node'[a]} ELSE {}
  /\ l = "publish" => next'[node'[a]] = head'
  /\ l = "unhead" => node'[a] = head'
  /\ l = "unlink" => tmp'[a] \in InList' /\ next'[tmp'[a]] = node'[a]
  /\ Fds'
  /\ Dues'
  /\ NoWilder
  /\ a = "loop" /\ pc["main"] \in {"join", "done"} /\ ~late' => ~late /\ InList' \subseteq InList

LEMMA WriterGood ==
  ASSUME TypeOK, PlaceInv, Good, ~raced', NEW a \in Actor,
         NEW l \in Writing \cup {"callback", "finalize", "idle"},
         NEW r \in [Node -> Nat], Leaves(a, l, r)
  PROVE  Good'
<1> USE DEF Leaves
<1>1. "main" \in Actor /\ "loop" \in Actor /\ l \in AnyPlace /\ l \notin Reading
  BY DEF Actor, AnyPlace, Writing, Reading
<1>2. /\ pc'[a] = l /\ \A b \in Actor : b # a => pc'[b] = pc[b] /\ pc[b] \notin Writing \cup Reading
      /\ Of(Writing)' = IF l \in Writing THEN {node'[a]} ELSE {}
  BY <1>1, WriterStep
<1>3. \A b \in Actor : pc'[b] \notin Reading /\ (b # a => pc'[b] \notin Writing)
  BY <1>1, <1>2
<1>4. Order'
  <2>1. Walking(r)'
    BY <1>2, <1>3 DEF Walking, Writing
  <2>2. Counting(r)'
    BY <1>1, <1>3 DEF Counting, Reading
  <2> QED BY <2>1, <2>2 DEF Order
<1>5. Places'
  <2>1. Known'
    BY <1>2 DEF Known, Good, Places, Writing
  <2>2. Of(Writing)' \subseteq heap' /\ live' = heap' \ Of(Writing)'
    BY <1>2
  <2>3. \A b \in Actor : pc'[b] \in {"publish", "unhead", "unlink"} => b = a
    BY <1>3 DEF Writing
  <2>4. \A b \in Actor : /\ pc'[b] = "publish" => next'[node'[b]] = head'
                         /\ pc'[b] = "unhead" => node'[b] = head'
                         /\ pc'[b] = "unlink" => tmp'[b] \in InList' /\ next'[tmp'[b]] = node'[b]
                         /\ pc'[b] \in Following => tmp'[b] \in InList' \cup {NoNode}
    BY <1>2, <1>3, <2>3 DEF Following, Reading
  <2> QED BY <2>1, <2>2, <2>4 DEF Places
<1>6. Hits' /\ Found'
  <2>1. pc'["loop"] \notin Pending
    BY <1>1, <1>3 DEF Reading, Pending
  <2>2. orphan' = "none" => ~wild'
    BY DEF Good, Hits, NoWilder
  <2> QED BY <2>1, <2>2 DEF Hits, Found, Pending
<1>7. Ends'
  <2>1. a = "main" => pc'["main"] \notin {"join", "done"}
    BY <1>2 DEF Writing
  <2>2. a = "loop" => pc'["main"] = pc["main"]
    BY <1>1, <1>2
  <2>3. a = "main" \/ a = "loop"
    BY DEF Actor
  <2> QED BY <2>1, <2>2, <2>3 DEF Ends, Good
<1> QED BY <1>4, <1>5, <1>6, <1>7 DEF Good

LEMMA Groups == Outside \in SUBSET Writing /\ Closed \in SUBSET Writing /\ Writing \in SUBSET Writing
BY DEF Outside, Closed, Writing

LEMMA InListType == TypeOK => InList \in SUBSET Node
BY DEF TypeOK, InList

\* timer_start, up to the new node.
LEMMA StartTimerGood ==
  ASSUME TypeOK, PlaceInv, Good, ~raced', NEW a \in Actor, StartTimer(a)
  PROVE  Good'
<1> USE TimerAssumption
<1>1. PICK n \in Node \ heap, f \in Fd, s \in StartAs :
        /\ timer[f] = "closed" /\ node' = Set(node, a, n) /\ heap' = heap \cup {n}
        /\ fd' = Set(fd, n, f) /\ timer' = Set(timer, f, s)
  BY DEF StartTimer
<1>2. /\ Move(a, "link") /\ pc[a] \in {"idle", "callback"}
      /\ UNCHANGED <<tmp, head, next, orphan, live, due, late, wild>>
  BY DEF StartTimer, May, Actor
<1>3. "link" \in Writing /\ "link" \in AnyPlace /\ "link" \in Outside /\ "link" \notin Closed
      /\ pc[a] \notin Writing
  BY <1>2 DEF Writing, AnyPlace, Outside, Closed
<1>4. node'[a] = n /\ fd'[n] = f /\ timer'[f] # "expired" /\ timer'[f] # "closed"
      /\ (\A m \in heap : fd'[m] = fd[m]) /\ (\A g \in Fd : g # f => timer'[g] = timer[g])
  <2>1. s # "expired" /\ s # "closed"
    OBVIOUS
  <2> QED BY <1>1, <2>1 DEF Set, TypeOK
<1>5. Of(Outside) = {} /\ Of(Closed) = {} /\ Of(Writing) = {} /\ Of(Outside)' = {n} /\ Of(Closed)' = {}
  BY <1>2, <1>3, <1>4, WriterStep, Groups
<1>6. InList = heap /\ InList' = heap /\ live = heap
  BY <1>1, <1>5 DEF InList, Good, Places
<1>7. PICK r \in [Node -> Nat] : Ordered(InList, head, next, r)
  BY DEF Good, Order
<1>8. Ordered(InList', head', next', r)
  BY <1>2, <1>6, <1>7
<1>9. \A m \in heap : fd[m] \in Fd /\ fd[m] # f
  BY <1>1, <1>5 DEF Good, Fds, PlaceInv
<1>10. Fds'
  <2>1. \A l, m \in heap' : fd'[l] = fd'[m] => l = m
    BY <1>1, <1>4, <1>9 DEF Good, Fds
  <2>2. \A m \in heap' : timer'[fd'[m]] # "closed"
    BY <1>1, <1>4, <1>5, <1>9 DEF Good, Fds
  <2>3. \A g \in Fd : timer'[g] # "closed" => \E m \in heap' : fd'[m] = g
    BY <1>1, <1>4 DEF Good, Fds
  <2> QED BY <1>5, <2>1, <2>2, <2>3 DEF Fds
<1>11. Dues'
  BY <1>1, <1>2, <1>4, <1>9 DEF Good, Dues
<1>12. live' = heap' \ {n} /\ n \in heap'
  BY <1>1, <1>2, <1>6
<1>13. Leaves(a, "link", r)
  BY <1>2, <1>3, <1>4, <1>6, <1>8, <1>10, <1>11, <1>12 DEF Leaves, NoWilder
<1> QED BY <1>3, <1>13, <1>7, WriterGood

\* A step that leaves alone nodes, descriptors and the history of expiries.
SameFds == UNCHANGED <<heap, fd, timer, orphan, due, wild>>

LEMMA FdsKept ==
  ASSUME TypeOK, Good, SameFds, Of(Closed)' = Of(Closed)
  PROVE  Fds' /\ Dues' /\ NoWilder
BY DEF SameFds, Good, Fds, Dues, NoWilder, files

LEMMA StartLinkGood ==
  ASSUME TypeOK, PlaceInv, Good, ~raced', NEW a \in Actor, StartLink(a)
  PROVE  Good'
<1>1. /\ pc[a] = "link" /\ Move(a, "publish") /\ next' = Set(next, node[a], head)
      /\ UNCHANGED <<node, tmp, head, heap, live, late>> /\ SameFds
  BY DEF StartLink, Goto, SameFds, files
<1>2. /\ "link" \in Writing /\ "link" \in Outside /\ "link" \notin Closed
      /\ "publish" \in Writing /\ "publish" \in AnyPlace /\ "publish" \in Outside /\ "publish" \notin Closed
  BY DEF Writing, AnyPlace, Outside, Closed
<1>3. Of(Outside) = {node[a]} /\ Of(Outside)' = {node[a]} /\ Of(Writing) = {node[a]}
      /\ Of(Closed) = {} /\ Of(Closed)' = {}
  BY <1>1, <1>2, WriterStep, Groups
<1>4. InList' = InList /\ InList = heap \ {node[a]} /\ node[a] \in heap /\ live = heap \ {node[a]}
  BY <1>1, <1>3 DEF InList, Good, Places
<1>5. node[a] \in Node /\ next'[node[a]] = head /\ \A n \in InList : next'[n] = next[n]
  BY <1>1, <1>4 DEF TypeOK, Set
<1>6. PICK r \in [Node -> Nat] : Ordered(InList, head, next, r)
  BY DEF Good, Order
<1>7. Ordered(InList', head', next', r)
  BY <1>1, <1>4, <1>5, <1>6, SameLinks
<1>8. Fds' /\ Dues' /\ NoWilder
  BY <1>1, <1>3, FdsKept
<1>9. Leaves(a, "publish", r)
  BY <1>1, <1>2, <1>4, <1>5, <1>7, <1>8 DEF Leaves
<1> QED BY <1>2, <1>9, <1>6, WriterGood

LEMMA StartPublishGood ==
  ASSUME TypeOK, PlaceInv, Good, ~raced', NEW a \in Actor, StartPublish(a)
  PROVE  Good'
<1>1. /\ pc[a] = "publish" /\ Move(a, Back(a)) /\ head' = node[a] /\ live' = live \cup {node[a]}
      /\ late' = (late \/ final) /\ UNCHANGED <<node, tmp, next, heap>> /\ SameFds
  BY DEF StartPublish, SameFds, files
<1>2. /\ "publish" \in Writing /\ "publish" \in Outside /\ "publish" \notin Closed
      /\ Back(a) \in {"callback", "finalize", "idle"} /\ Back(a) \in AnyPlace
      /\ \A l \in {"callback", "finalize", "idle"} : l \notin Writing
  BY DEF Writing, AnyPlace, Outside, Closed, Back
<1>3. Of(Outside) = {node[a]} /\ Of(Outside)' = {} /\ Of(Writing) = {node[a]}
      /\ Of(Closed) = {} /\ Of(Closed)' = {}
  BY <1>1, <1>2, WriterStep, Groups
<1>4. /\ InList = heap \ {node[a]} /\ InList' = InList \cup {node[a]} /\ InList' = heap
      /\ node[a] \in heap /\ live' = heap /\ next[node[a]] = head
  BY <1>1, <1>3 DEF InList, Good, Places
<1>5. node[a] \in Node \ InList /\ InList \in SUBSET Node
  BY <1>4, InListType DEF TypeOK
<1>6. PICK r \in [Node -> Nat] : Ordered(InList, head, next, r)
  BY DEF Good, Order
<1>7. PICK q \in [Node -> Nat] : Ordered(InList \cup {node[a]}, node[a], next, q)
  BY <1>4, <1>5, <1>6, Push
<1>8. Ordered(InList', head', next', q)
  BY <1>1, <1>4, <1>7
<1>9. Fds' /\ Dues' /\ NoWilder
  BY <1>1, <1>3, FdsKept
<1>10. pc["main"] \in {"join", "done"} => late'
  BY <1>1 DEF PlaceInv
<1>11. Leaves(a, Back(a), q)
  BY <1>1, <1>2, <1>4, <1>8, <1>9, <1>10 DEF Leaves
<1> QED BY <1>2, <1>11, <1>7, WriterGood

\* timer_stop begins.
LEMMA StopGood ==
  ASSUME TypeOK, PlaceInv, Good, ~raced', NEW a \in Actor, NEW n \in live, pc[a] \notin Writing,
         Move(a, "close"), node' = Set(node, a, n), live' = live \ {n},
         UNCHANGED <<tmp, head, next, late>>, SameFds
  PROVE  Good'
<1>1. /\ "close" \in Writing /\ "close" \in AnyPlace /\ "close" \notin Outside /\ "close" \notin Closed
  BY DEF Writing, AnyPlace, Outside, Closed
<1>2. node'[a] = n /\ heap' = heap /\ pc[a] \notin Outside /\ pc[a] \notin Closed
  BY Groups DEF Set, SameFds, TypeOK, files
<1>3. Of(Outside) = {} /\ Of(Outside)' = {} /\ Of(Writing) = {} /\ Of(Closed) = {} /\ Of(Closed)' = {}
  BY <1>1, <1>2, WriterStep, Groups
<1>4. InList' = InList /\ InList = heap /\ n \in heap /\ live' = heap \ {n}
  BY <1>2, <1>3 DEF InList, Good, Places
<1>5. PICK r \in [Node -> Nat] : Ordered(InList, head, next, r)
  BY DEF Good, Order
<1>6. Ordered(InList', head', next', r)
  BY <1>4, <1>5
<1>7. Fds' /\ Dues' /\ NoWilder
  BY <1>3, FdsKept
<1>8. Leaves(a, "close", r)
  BY <1>1, <1>2, <1>4, <1>6, <1>7 DEF Leaves
<1> QED BY <1>1, <1>8, <1>5, WriterGood

LEMMA StopCloseGood ==
  ASSUME TypeOK, PlaceInv, Good, ~raced', NEW a \in Actor, StopClose(a)
  PROVE  Good'
<1>1. /\ pc[a] = "close" /\ node[a] \in heap /\ Move(a, "test")
      /\ timer' = Set(timer, fd[node[a]], "closed") /\ due' = due \ {node[a]}
      /\ UNCHANGED <<node, tmp, head, next, fd, heap, live, late, wild>>
  BY DEF StopClose, Goto, list
<1>2. /\ "close" \in Writing /\ "close" \notin Outside /\ "close" \notin Closed
      /\ "test" \in Writing /\ "test" \in AnyPlace /\ "test" \notin Outside /\ "test" \in Closed
  BY DEF Writing, AnyPlace, Outside, Closed
<1>3. Of(Outside) = {} /\ Of(Outside)' = {} /\ Of(Writing) = {node[a]} /\ Of(Closed) = {} /\ Of(Closed)' = {node[a]}
  BY <1>1, <1>2, WriterStep, Groups
<1>4. InList' = InList /\ InList = heap /\ live = heap \ {node[a]}
  BY <1>1, <1>3 DEF InList, Good, Places
<1>5. PICK r \in [Node -> Nat] : Ordered(InList, head, next, r)
  BY DEF Good, Order
<1>6. Ordered(InList', head', next', r)
  BY <1>1, <1>4, <1>5
<1>7. /\ \A n \in heap : fd[n] \in Fd /\ (n # node[a] => fd[n] # fd[node[a]])
      /\ timer'[fd[node[a]]] = "closed" /\ \A f \in Fd : f # fd[node[a]] => timer'[f] = timer[f]
  BY <1>1 DEF Good, Fds, PlaceInv, Set, TypeOK
<1>8. Fds'
  <2>1. \A n \in heap' : timer'[fd'[n]] = "closed" <=> n \in Of(Closed)'
    BY <1>1, <1>3, <1>7 DEF Good, Fds
  <2>2. \A f \in Fd : timer'[f] # "closed" => \E n \in heap' : fd'[n] = f
    BY <1>1, <1>7 DEF Good, Fds
  <2> QED BY <1>1, <2>1, <2>2 DEF Good, Fds
<1>9. Dues'
  BY <1>1, <1>7 DEF Good, Dues
<1>10. NoWilder
  <2>1. orphan' = orphan \/ orphan' \in Open \cup {"closed"}
    BY <1>1 DEF StopClose, TypeOK, PlaceInv
  <2> QED BY <1>1, <2>1 DEF NoWilder, Open
<1>11. Leaves(a, "test", r)
  BY <1>1, <1>2, <1>4, <1>6, <1>8, <1>9, <1>10 DEF Leaves
<1> QED BY <1>2, <1>11, <1>5, WriterGood

LEMMA StopTestGood ==
  ASSUME TypeOK, PlaceInv, Good, ~raced', NEW a \in Actor, StopTest(a)
  PROVE  Good'
<1> DEFINE l == IF node[a] = head THEN "unhead" ELSE "walk"
<1>1. /\ pc[a] = "test" /\ Move(a, l) /\ tmp' = Set(tmp, a, head)
      /\ UNCHANGED <<node, head, next, heap, live, late>> /\ SameFds
  BY DEF StopTest, Goto, list, SameFds, files
<1>2. /\ "test" \in Writing /\ "test" \notin Outside /\ "test" \in Closed
      /\ l \in Writing /\ l \in AnyPlace /\ l \notin Outside /\ l \in Closed
      /\ l \notin {"publish", "unlink"} /\ (l = "unhead" => node[a] = head)
      /\ (l = "walk" => node[a] # head)
  BY DEF Writing, AnyPlace, Outside, Closed
<1> HIDE DEF l
<1>3. Of(Outside) = {} /\ Of(Outside)' = {} /\ Of(Writing) = {node[a]}
      /\ Of(Closed) = {node[a]} /\ Of(Closed)' = {node[a]}
  BY <1>1, <1>2, WriterStep, Groups
<1>4. InList' = InList /\ InList = heap /\ node[a] \in heap /\ live = heap \ {node[a]}
  BY <1>1, <1>3 DEF InList, Good, Places
<1>5. PICK r \in [Node -> Nat] : Ordered(InList, head, next, r)
  BY DEF Good, Order
<1>6. Ordered(InList', head', next', r)
  BY <1>1, <1>4, <1>5
<1>7. l = "walk" => tmp'[a] \in InList' /\ r[node'[a]] < r[tmp'[a]]
  <2>1. tmp'[a] = head /\ head \in InList /\ r[node[a]] <= r[head] /\ (node[a] # head => r[node[a]] # r[head])
    BY <1>1, <1>4, <1>5 DEF Set, TypeOK, Ordered
  <2>2. r[node[a]] \in Nat /\ r[head] \in Nat
    BY <1>4, <2>1 DEF TypeOK
  <2> QED BY <1>1, <1>2, <1>4, <2>1, <2>2
<1>8. Fds' /\ Dues' /\ NoWilder
  BY <1>1, <1>3, FdsKept
<1>9. Leaves(a, l, r)
  BY <1>1, <1>2, <1>4, <1>6, <1>7, <1>8 DEF Leaves
<1> QED BY <1>2, <1>9, <1>5, WriterGood

LEMMA StopUnheadGood ==
  ASSUME TypeOK, PlaceInv, Good, ~raced', NEW a \in Actor, StopUnhead(a)
  PROVE  Good'
<1>1. /\ pc[a] = "unhead" /\ Move(a, "free") /\ head' = next[head]
      /\ UNCHANGED <<node, tmp, next, heap, live, late>> /\ SameFds
  BY DEF StopUnhead, Goto, SameFds, files
<1>2. /\ "unhead" \in Writing /\ "unhead" \notin Outside /\ "unhead" \in Closed
      /\ "free" \in Writing /\ "free" \in AnyPlace /\ "free" \in Outside /\ "free" \in Closed
  BY DEF Writing, AnyPlace, Outside, Closed
<1>3. Of(Outside) = {} /\ Of(Outside)' = {node[a]} /\ Of(Writing) = {node[a]}
      /\ Of(Closed) = {node[a]} /\ Of(Closed)' = {node[a]}
  BY <1>1, <1>2, WriterStep, Groups
<1>4. InList' = InList \ {head} /\ InList = heap /\ node[a] = head /\ head \in heap /\ live = heap \ {head}
  BY <1>1, <1>3 DEF InList, Good, Places
<1>5. PICK r \in [Node -> Nat] : Ordered(InList, head, next, r)
  BY DEF Good, Order
<1>6. Ordered(InList', head', next', r)
  BY <1>1, <1>4, <1>5, Unhead, InListType
<1>7. Fds' /\ Dues' /\ NoWilder
  BY <1>1, <1>3, FdsKept
<1>8. node'[a] \in heap' /\ live' = heap' \ {node'[a]} /\ InList' \subseteq InList
  BY <1>1, <1>4 DEF SameFds, files
<1>9. Leaves(a, "free", r)
  BY <1>1, <1>2, <1>6, <1>7, <1>8 DEF Leaves
<1> QED BY <1>2, <1>9, <1>5, WriterGood

LEMMA StopWalkGood ==
  ASSUME TypeOK, PlaceInv, Good, ~raced', NEW a \in Actor, StopWalk(a)
  PROVE  Good'
<1> USE TimerAssumption
<1>1. pc[a] = "walk" /\ UNCHANGED <<node, head, next, heap, live, late>> /\ SameFds
  BY DEF StopWalk, Goto, list, SameFds, files
<1>2. PICK r \in [Node -> Nat] : Ordered(InList, head, next, r) /\ Walking(r)
  BY DEF Good, Order
<1>3. tmp[a] \in InList /\ r[node[a]] < r[tmp[a]] /\ tmp[a] # NoNode
  BY <1>1, <1>2 DEF Walking, InList, TypeOK
<1>4. /\ "walk" \in Writing /\ "walk" \notin Outside /\ "walk" \in Closed
      /\ "walk" \in AnyPlace /\ "unlink" \in Writing /\ "unlink" \in AnyPlace
      /\ "unlink" \notin Outside /\ "unlink" \in Closed
  BY DEF Writing, AnyPlace, Outside, Closed
<1>5. ASSUME NEW l \in {"walk", "unlink"}, Move(a, l)
      PROVE  /\ InList' = InList /\ InList = heap /\ node[a] \in heap /\ live = heap \ {node[a]}
             /\ Ordered(InList', head', next', r)
             /\ Fds' /\ Dues' /\ NoWilder
  <2>1. Of(Outside) = {} /\ Of(Outside)' = {} /\ Of(Writing) = {node[a]}
        /\ Of(Closed) = {node[a]} /\ Of(Closed)' = {node[a]}
    BY <1>1, <1>4, <1>5, WriterStep, Groups
  <2>2. InList' = InList /\ InList = heap /\ node[a] \in heap /\ live = heap \ {node[a]}
    BY <1>1, <2>1 DEF InList, Good, Places
  <2> QED BY <1>1, <1>2, <2>1, <2>2, FdsKept
<1>6. CASE next[tmp[a]] = node[a] /\ Move(a, "unlink") /\ UNCHANGED tmp
  <2>1. Leaves(a, "unlink", r)
    BY <1>1, <1>3, <1>4, <1>5, <1>6 DEF Leaves
  <2> QED BY <1>2, <1>4, <2>1, WriterGood
<1>7. CASE next[tmp[a]] # node[a] /\ Move(a, "walk") /\ tmp' = Set(tmp, a, next[tmp[a]])
  <2>1. /\ InList' = InList /\ InList = heap /\ node[a] \in heap /\ live = heap \ {node[a]}
        /\ Ordered(InList', head', next', r)
        /\ Fds' /\ Dues' /\ NoWilder
    BY <1>5, <1>7
  <2>2. /\ next[tmp[a]] \in InList /\ r[node[a]] <= r[next[tmp[a]]]
        /\ r[node[a]] # r[next[tmp[a]]]
    BY <1>2, <1>3, <1>7, <2>1 DEF Ordered
  <2>3. tmp'[a] = next[tmp[a]] /\ r[node[a]] \in Nat /\ r[next[tmp[a]]] \in Nat
    BY <1>7, <2>1, <2>2 DEF Set, TypeOK
  <2>4. tmp'[a] \in InList' /\ r[node'[a]] < r[tmp'[a]]
    BY <1>1, <2>1, <2>2, <2>3
  <2>5. Leaves(a, "walk", r)
    BY <1>1, <1>4, <1>7, <2>1, <2>4 DEF Leaves
  <2> QED BY <1>2, <1>4, <2>5, WriterGood
<1> QED BY <1>3, <1>6, <1>7 DEF StopWalk, Goto

LEMMA StopUnlinkGood ==
  ASSUME TypeOK, PlaceInv, Good, ~raced', NEW a \in Actor, StopUnlink(a)
  PROVE  Good'
<1>1. /\ pc[a] = "unlink" /\ Move(a, "free") /\ next' = Set(next, tmp[a], next[next[tmp[a]]])
      /\ UNCHANGED <<node, tmp, head, heap, live, late>> /\ SameFds
  BY DEF StopUnlink, Goto, SameFds, files
<1>2. /\ "unlink" \in Writing /\ "unlink" \notin Outside /\ "unlink" \in Closed
      /\ "free" \in Writing /\ "free" \in AnyPlace /\ "free" \in Outside /\ "free" \in Closed
  BY DEF Writing, AnyPlace, Outside, Closed
<1>3. Of(Outside) = {} /\ Of(Outside)' = {node[a]} /\ Of(Writing) = {node[a]}
      /\ Of(Closed) = {node[a]} /\ Of(Closed)' = {node[a]}
  BY <1>1, <1>2, WriterStep, Groups
<1>4. /\ InList' = InList \ {node[a]} /\ InList = heap /\ node[a] \in InList /\ live = heap \ {node[a]}
      /\ tmp[a] \in InList /\ next[tmp[a]] = node[a] /\ InList \in SUBSET Node
  BY <1>1, <1>3, InListType DEF InList, Good, Places
<1>5. next'[tmp[a]] = next[node[a]] /\ \A n \in InList : n # tmp[a] => next'[n] = next[n]
  BY <1>1, <1>4 DEF Set, TypeOK
<1>6. PICK r \in [Node -> Nat] : Ordered(InList, head, next, r)
  BY DEF Good, Order
<1>7. Ordered(InList \ {node[a]}, head, next', r)
  BY <1>4, <1>5, <1>6, Unlink
<1>8. Ordered(InList', head', next', r)
  BY <1>1, <1>4, <1>7
<1>9. Fds' /\ Dues' /\ NoWilder
  BY <1>1, <1>3, FdsKept
<1>10. /\ node'[a] \in heap' /\ live' = heap' \ {node'[a]} /\ late' = late
       /\ InList' \subseteq InList
  BY <1>1, <1>4
<1>11. /\ "free" # "walk" /\ "free" # "publish" /\ "free" # "unhead" /\ "free" # "unlink"
       /\ pc[a] \in Writing /\ Move(a, "free")
  BY <1>1, <1>2
<1>12. Leaves(a, "free", r)
  BY <1>2, <1>6, <1>8, <1>9, <1>10, <1>11 DEF Leaves
<1> QED BY <1>2, <1>12, <1>6, WriterGood

LEMMA StopFreeGood ==
  ASSUME TypeOK, PlaceInv, Good, ~raced', NEW a \in Actor, StopFree(a)
  PROVE  Good'
<1>1. /\ pc[a] = "free" /\ Move(a, Back(a)) /\ heap' = heap \ {node[a]}
      /\ UNCHANGED <<node, tmp, head, next, fd, timer, orphan, due, wild, live, late>>
  BY DEF StopFree, Goto, files
<1>2. /\ "free" \in Writing /\ "free" \in Outside /\ "free" \in Closed
      /\ Back(a) \in {"callback", "finalize", "idle"} /\ Back(a) \in AnyPlace
      /\ \A l \in {"callback", "finalize", "idle"} : l \notin Writing
  BY DEF Writing, AnyPlace, Outside, Closed, Back
<1>3. Of(Outside) = {node[a]} /\ Of(Outside)' = {} /\ Of(Writing) = {node[a]}
      /\ Of(Closed) = {node[a]} /\ Of(Closed)' = {}
  <2>1. Back(a) \notin Outside /\ Back(a) \notin Closed
    BY <1>2, Groups
  <2> QED BY <1>1, <1>2, <2>1, WriterStep, Groups
<1>4. InList' = InList /\ InList = heap \ {node[a]} /\ live' = heap' /\ InList' = heap'
  BY <1>1, <1>3 DEF InList, Good, Places
<1>5. PICK r \in [Node -> Nat] : Ordered(InList, head, next, r)
  BY DEF Good, Order
<1>6. Ordered(InList', head', next', r)
  BY <1>1, <1>4, <1>5
<1>7. Fds'
  <2>1. \A n \in heap' : timer'[fd'[n]] # "closed"
    BY <1>1, <1>3 DEF Good, Fds
  <2>2. \A f \in Fd : timer'[f] # "closed" => \E n \in heap' : fd'[n] = f
    BY <1>1, <1>3 DEF Good, Fds
  <2> QED BY <1>1, <1>3, <2>1, <2>2 DEF Good, Fds
<1>8. Dues' /\ NoWilder
  BY <1>1 DEF Good, Dues, NoWilder
<1>9. Leaves(a, Back(a), r)
  BY <1>1, <1>2, <1>4, <1>6, <1>7, <1>8 DEF Leaves
<1> QED BY <1>2, <1>9, <1>5, WriterGood
-----------------------------------------------------------------------------
(* Steps of a thread that is not changing the list *)

Lists == UNCHANGED <<node, head, next, fd, heap, live>>

LEMMA QuietOf ==
  ASSUME TypeOK, NEW a \in Actor, NEW l \in AnyPlace \ Writing, pc[a] \notin Writing, Move(a, l), Lists
  PROVE  /\ \A S \in SUBSET Writing : Of(S)' = Of(S)
         /\ InList' = InList
<1>1. pc'[a] = l /\ \A b \in Actor : b # a => pc'[b] = pc[b]
  BY MoveTypes
<1>2. ASSUME NEW S \in SUBSET Writing PROVE Of(S)' = Of(S)
  <2>1. {b \in Actor : pc'[b] \in S} = {b \in Actor : pc[b] \in S}
    BY <1>1
  <2> QED BY <2>1 DEF Of, Lists, files
<1> QED BY <1>2, Groups DEF InList, Lists, files

\* What is left to show of a step of a thread that is not changing the list.
LEMMA QuietGood ==
  ASSUME TypeOK, PlaceInv, Good, ~raced', NEW a \in Actor, NEW l \in AnyPlace \ Writing, pc[a] \notin Writing,
         l # "stale", Move(a, l), Lists, \A b \in Actor : b # a => tmp'[b] = tmp[b],
         l \in Following => tmp'[a] \in InList \cup {NoNode},
         \A r \in [Node -> Nat] : Ordered(InList, head, next, r) /\ Counting(r) => Counting(r)',
         \A f \in Fd : timer'[f] = "closed" <=> timer[f] = "closed",
         Dues', Hits', Found', l \in {"join", "done"} => late' \/ InList = {}, late' = late
  PROVE  Good'
<1>1. pc'[a] = l /\ \A b \in Actor : b # a => pc'[b] = pc[b]
  BY MoveTypes
<1>2. /\ \A S \in SUBSET Writing : Of(S)' = Of(S)
      /\ InList' = InList
  BY QuietOf
<1>3. Order'
  <2>1. PICK r \in [Node -> Nat] : Ordered(InList, head, next, r) /\ Walking(r) /\ Counting(r)
    BY DEF Good, Order
  <2>2. Ordered(InList', head', next', r)
    BY <1>2, <2>1 DEF Lists, files
  <2>3. \A b \in Actor : pc'[b] = "walk" => pc[b] = "walk" /\ tmp'[b] = tmp[b] /\ node'[b] = node[b]
    BY <1>1 DEF Writing, Lists, files
  <2>4. Walking(r)'
    BY <1>2, <2>1, <2>3 DEF Walking
  <2> QED BY <2>1, <2>2, <2>4 DEF Order
<1>4. Places'
  <2>1. Known'
    BY <1>1 DEF Known, Good, Places
  <2>2. Of(Writing)' \subseteq heap' /\ live' = heap' \ Of(Writing)'
    BY <1>2, Groups DEF Good, Places, Lists, files
  <2>3. \A b \in Actor : pc'[b] \in {"publish", "unhead", "unlink"} => b # a
    BY <1>1 DEF Writing
  <2>4. \A b \in Actor : /\ pc'[b] = "publish" => next'[node'[b]] = head'
                         /\ pc'[b] = "unhead" => node'[b] = head'
                         /\ pc'[b] = "unlink" => tmp'[b] \in InList' /\ next'[tmp'[b]] = node'[b]
    BY <1>1, <1>2, <2>3 DEF Good, Places, Lists, files
  <2>5. \A b \in Actor : pc'[b] \in Following => tmp'[b] \in InList' \cup {NoNode}
    BY <1>1, <1>2 DEF Good, Places
  <2> QED BY <2>1, <2>2, <2>4, <2>5 DEF Places
<1>5. Fds'
  <2>1. \A n \in heap : fd[n] \in Fd
    BY DEF PlaceInv
  <2>2. Of(Closed)' = Of(Closed)
    BY <1>2, Groups
  <2> QED BY <2>1, <2>2 DEF Good, Fds, Lists, files
<1>6. Ends'
  <2>1. CASE a = "main"
    BY <1>1, <1>2, <2>1 DEF Ends
  <2>2. CASE a = "loop"
    BY <1>1, <1>2, <2>2 DEF Ends, Good, Actor
  <2> QED BY <2>1, <2>2 DEF Actor
<1> QED BY <1>3, <1>4, <1>5, <1>6 DEF Good

\* timer_initialize, and timer_finalize but for the timers that it stops.
LEMMA EndingGood ==
  ASSUME TypeOK, PlaceInv, Good, ~raced', Initialize \/ Finalize \/ FinalizeCancel \/ FinalizeJoin
  PROVE  Good'
<1> USE TimerAssumption
<1>1. "main" \in Actor /\ "loop" \in Actor
  BY DEF Actor
<1>2. PICK a \in Actor, l \in {"head", "finalize", "join", "done"} :
        /\ Move(a, l) /\ pc[a] \notin Writing
        /\ pc'["loop"] \in {pc["loop"], "head"}
        /\ l = "join" => head = NoNode
        /\ l = "done" => pc["main"] = "join"
  <2>1. CASE Initialize
    BY <1>1, <2>1 DEF Initialize, Goto, Writing, Move, TypeOK
  <2>2. CASE Finalize \/ FinalizeCancel \/ FinalizeJoin
    BY <1>1, <2>2 DEF Finalize, FinalizeCancel, FinalizeJoin, Goto, Writing, Move, TypeOK
  <2> QED BY <2>1, <2>2
<1>3. UNCHANGED <<tmp, timer, orphan, ufds, i, due, hit, late, wild>> /\ Lists
  BY DEF Initialize, Finalize, FinalizeCancel, FinalizeJoin, Goto, list, locals, Lists, files
<1>4. l \in AnyPlace \ Writing /\ l # "stale" /\ l \notin Following
  BY DEF AnyPlace, Writing, Following
<1>5. InList' = InList
  BY <1>2, <1>3, <1>4, QuietOf
<1>6. \A r \in [Node -> Nat] : Counting(r) => Counting(r)'
  BY <1>2, <1>3, <1>5 DEF Counting
<1>7. l \in {"join", "done"} => late' \/ InList = {}
  <2>1. CASE l = "join"
    <3>1. head = NoNode /\ InList \subseteq Node
      BY <1>2, <2>1, InListType
    <3> QED BY <3>1 DEF Good, Order, Ordered
  <2>2. CASE l = "done"
    BY <1>2, <1>3, <2>2 DEF Good, Ends
  <2> QED BY <2>1, <2>2
<1>8. Dues' /\ Hits' /\ Found'
  <2>1. pc'["loop"] \in Pending => pc'["loop"] = pc["loop"]
    BY <1>2 DEF Pending
  <2>2. Dues'
    BY <1>3 DEF Good, Dues, Lists
  <2>3. Hits'
    BY <1>3, <2>1 DEF Good, Hits, Lists
  <2>4. Found'
    BY <1>3, <1>5, <2>1 DEF Good, Found, Lists, Pending
  <2> QED BY <2>2, <2>3, <2>4
<1> QED BY <1>2, <1>3, <1>4, <1>6, <1>7, <1>8, QuietGood

\* The loop, but for the steps that read a node or a descriptor.
LEMMA LoopGood ==
  ASSUME TypeOK, PlaceInv, Good, ~raced', LoopHead \/ Poll \/ ScanSkip \/ ScanRead \/ CallbackReturns
  PROVE  Good'
<1> USE TimerAssumption
<1>1. "loop" \in Actor
  BY DEF Actor
<1>2. PICK l \in {"gone", "collect", "head", "scan", "poll", "read"} :
        /\ Move("loop", l) /\ pc["loop"] \notin Writing
        /\ l = "collect" => tmp'["loop"] = head /\ ufds' = <<>>
  BY DEF LoopHead, Poll, ScanSkip, ScanRead, CallbackReturns, Goto, Writing, Set, TypeOK, Actor
<1>3. UNCHANGED <<timer, orphan, due, late, wild>> /\ Lists /\ \A b \in Actor : b # "loop" => tmp'[b] = tmp[b]
  BY DEF LoopHead, Poll, ScanSkip, ScanRead, CallbackReturns, Goto, list, Lists, Set, TypeOK, files
<1>4. l \in AnyPlace \ Writing /\ l # "stale" /\ (l \in Following => l = "collect")
      /\ pc'["loop"] = l /\ l \notin Pending /\ l \notin {"join", "done"}
  BY <1>1, <1>2, MoveTypes DEF AnyPlace, Writing, Reading, Following, Pending
<1>5. InList' = InList
  BY <1>1, <1>2, <1>3, <1>4, QuietOf
<1>6. l \in Following => tmp'["loop"] \in InList \cup {NoNode}
  BY <1>2, <1>4 DEF Good, Order, Ordered
<1>7. \A r \in [Node -> Nat] : Counting(r)'
  <2>1. ASSUME NEW r \in [Node -> Nat] PROVE Counting(r)'
    <3> DEFINE V == {n \in InList' : r[n] > r[tmp'["loop"]]}
    <3>1. V \in SUBSET Node
      BY <1>5, InListType
    <3> HIDE DEF V
    <3>2. Cardinality(V) \in Nat
      BY <3>1, FS_Subset, FS_CardinalityType
    <3>3. l = "collect" => Len(ufds') = 0
      BY <1>2, EmptySeq
    <3>4. pc'["loop"] = "collect" => Len(ufds') <= Cardinality(V)
      BY <1>4, <3>2, <3>3
    <3> QED BY <3>4 DEF Counting, V
  <2> QED BY <2>1
<1>8. Dues' /\ Hits' /\ Found'
  BY <1>3, <1>4 DEF Good, Dues, Hits, Found, Pending, Lists
<1> QED BY <1>1, <1>2, <1>3, <1>4, <1>6, <1>7, <1>8, QuietGood

\* One more node behind the loop is counted.
LEMMA Behind ==
  ASSUME TypeOK, NEW r \in [Node -> Nat], Ordered(InList, head, next, r), Counting(r),
         pc["loop"] = "collect", tmp["loop"] \in InList
  PROVE  /\ Len(ufds) < MaxTimers
         /\ next[tmp["loop"]] # NoNode =>
              Len(ufds) + 1 <= Cardinality({n \in InList : r[n] > r[next[tmp["loop"]]]})
<1> USE TimerAssumption
<1> DEFINE t == tmp["loop"]
           V == {n \in InList : r[n] > r[t]}
           W == {n \in InList : r[n] > r[next[t]]}
<1>1. InList \in SUBSET Node /\ t \in Node /\ t # NoNode
  BY InListType
<1>2. V \in SUBSET Node /\ W \in SUBSET Node /\ t \notin V /\ V \cup {t} \in SUBSET Node
  BY <1>1
<1>3. Len(ufds) <= Cardinality(V) /\ Len(ufds) \in Nat
  BY <1>1, LenProperties DEF Counting, TypeOK
<1>4. next[t] # NoNode => V \cup {t} \in SUBSET W
  <2>1. next[t] # NoNode => next[t] \in InList /\ r[next[t]] < r[t]
    BY <1>1 DEF Ordered
  <2>2. \A n \in InList : r[n] \in Nat
    BY <1>1
  <2> QED BY <1>1, <2>1, <2>2
<1>5. IsFiniteSet(V) /\ IsFiniteSet(W) /\ IsFiniteSet(V \cup {t})
  <2> HIDE DEF V, W, t
  <2> QED BY <1>2, FS_Subset
<1>6. Cardinality(V \cup {t}) = Cardinality(V) + 1 /\ Cardinality(V) \in Nat
      /\ Cardinality(W) \in Nat /\ Cardinality(Node) \in Nat
  <2> HIDE DEF V, W, t
  <2> QED BY <1>2, <1>5, FS_AddElement, FS_CardinalityType
<1>7. /\ Cardinality(V \cup {t}) <= Cardinality(Node)
      /\ V \cup {t} \in SUBSET W => Cardinality(V \cup {t}) <= Cardinality(W)
  <2> HIDE DEF V, W, t
  <2> QED BY <1>2, <1>5, FS_Subset
<1> HIDE DEF V
<1> QED BY <1>3, <1>4, <1>6, <1>7

LEMMA CollectGood ==
  ASSUME TypeOK, PlaceInv, Good, ~raced', Collect
  PROVE  Good'
<1> USE TimerAssumption
<1>1. "loop" \in Actor /\ pc["loop"] = "collect" /\ pc["loop"] \notin Writing
  BY DEF Actor, Collect, Writing
<1>2. PICK l \in {"poll", "collect"} :
        /\ Move("loop", l)
        /\ l = "collect" => /\ tmp["loop"] \in heap /\ tmp'["loop"] = next[tmp["loop"]]
                            /\ ufds' = Append(ufds, fd[tmp["loop"]])
  BY <1>1 DEF Collect, Goto, Set, TypeOK
<1>3. UNCHANGED <<timer, orphan, due, late, wild>> /\ Lists /\ \A b \in Actor : b # "loop" => tmp'[b] = tmp[b]
  BY DEF Collect, Goto, list, Lists, Set, TypeOK, files
<1>4. l \in AnyPlace \ Writing /\ l # "stale" /\ (l \in Following => l = "collect")
      /\ pc'["loop"] = l /\ l \notin Pending /\ l \notin {"join", "done"}
  BY <1>1, <1>2, MoveTypes DEF AnyPlace, Writing, Reading, Following, Pending
<1>5. InList' = InList
  BY <1>1, <1>2, <1>3, <1>4, QuietOf
<1>6. l = "collect" => tmp["loop"] \in InList
  <2>1. tmp["loop"] \in InList \cup {NoNode}
    BY <1>1 DEF Good, Places, Following
  <2>2. NoNode \notin heap
    BY DEF TypeOK
  <2> QED BY <1>2, <2>1, <2>2
<1>7. l \in Following => tmp'["loop"] \in InList \cup {NoNode}
  BY <1>2, <1>4, <1>6 DEF Good, Order, Ordered
<1>8. ASSUME NEW r \in [Node -> Nat], Ordered(InList, head, next, r), Counting(r)
      PROVE  Counting(r)'
  <2>1. CASE l = "poll"
    BY <1>4, <2>1 DEF Counting
  <2>2. CASE l = "collect"
    <3>1. fd[tmp["loop"]] \in Fd
      BY <1>2, <2>2 DEF PlaceInv
    <3>2. Len(ufds') = Len(ufds) + 1
      BY <1>2, <2>2, <3>1, AppendProperties DEF TypeOK
    <3>3. next[tmp["loop"]] # NoNode =>
            Len(ufds) + 1 <= Cardinality({n \in InList : r[n] > r[next[tmp["loop"]]]})
      BY <1>1, <1>6, <1>8, <2>2, Behind
    <3> QED BY <1>2, <1>5, <2>2, <3>2, <3>3 DEF Counting
  <2> QED BY <2>1, <2>2
<1>9. Dues' /\ Hits' /\ Found'
  BY <1>3, <1>4 DEF Good, Dues, Hits, Found, Pending, Lists
<1> QED BY <1>1, <1>2, <1>3, <1>4, <1>7, <1>8, <1>9, QuietGood

\* The loop reads an expiry: the timer it is of is the one that has the descriptor,
\* unless that was closed during the read.
LEMMA ReadGood ==
  ASSUME TypeOK, PlaceInv, Good, ~raced', ReadReturns
  PROVE  Good'
<1> USE TimerAssumption
<1>1. "loop" \in Actor /\ pc["loop"] = "read" /\ pc["loop"] \notin Writing
  BY DEF Actor, ReadReturns, Writing
<1> DEFINE f == ufds[i]
<1>2. Move("loop", "seek") /\ UNCHANGED <<tmp, ufds, i, late, wild>> /\ Lists
  BY DEF ReadReturns, Goto, list, locals, Lists
<1>3. f \in Fd
  <2>1. i \in 1 .. Len(ufds) /\ ufds \in Seq(Fd)
    BY <1>1, LenProperties DEF TypeOK, PlaceInv, Scanning
  <2> QED BY <2>1, ElementOfSeq
<1>4. "seek" \in AnyPlace \ Writing /\ "seek" # "stale" /\ "seek" \notin {"join", "done"}
      /\ "seek" \notin Following /\ pc'["loop"] = "seek"
  BY <1>1, <1>2, MoveTypes DEF AnyPlace, Writing, Reading, Following
<1>5. \A r \in [Node -> Nat] : Counting(r)'
  BY <1>4 DEF Counting
<1>6. (\A g \in Fd : timer'[g] = "closed" <=> timer[g] = "closed") /\ Dues' /\ Hits'
  <2>1. CASE /\ timer[f] = "expired" /\ UNCHANGED orphan
             /\ timer' = Set(timer, f, IF f \in repeats THEN "armed" ELSE "disarmed")
             /\ hit' = {n \in due : fd[n] = f} /\ due' = due \ hit'
    <3> HIDE DEF f
    <3>1. timer'[f] \notin {"closed", "expired"} /\ \A g \in Fd : g # f => timer'[g] = timer[g]
      BY <1>3, <2>1 DEF Set, TypeOK
    <3>2. \A n \in heap : fd[n] = f => n \in hit'
      BY <2>1 DEF Good, Dues
    <3>3. ASSUME NEW n \in heap, timer'[fd[n]] = "expired" PROVE n \in due'
      <4>1. fd[n] \in Fd /\ fd[n] # f
        BY <3>1, <3>3 DEF PlaceInv
      <4>2. n \in due
        BY <3>1, <3>3, <4>1 DEF Good, Dues
      <4> QED BY <2>1, <4>1, <4>2
    <3>4. Dues'
      BY <1>2, <3>3 DEF Dues, Lists
    <3>5. ufds'[i'] = f
      BY <1>2 DEF f
    <3>6. Hits'
      BY <1>2, <2>1, <3>2, <3>5 DEF Good, Hits, Lists
    <3> QED BY <2>1, <3>1, <3>4, <3>6
  <2>2. CASE orphan' = "closed" /\ UNCHANGED <<timer, due>>
    BY <1>2, <2>2 DEF Good, Dues, Hits, Lists
  <2> QED BY <2>1, <2>2 DEF ReadReturns
<1>7. Found'
  BY <1>4 DEF Found
<1> QED BY <1>1, <1>2, <1>4, <1>5, <1>6, <1>7, QuietGood

LEMMA SeekGood ==
  ASSUME TypeOK, PlaceInv, Good, ~raced', Seek
  PROVE  Good'
<1>1. "loop" \in Actor /\ pc["loop"] = "seek" /\ pc["loop"] \notin Writing
  BY DEF Actor, Seek, Writing
<1>2. /\ Move("loop", "lookup") /\ tmp' = Set(tmp, "loop", head)
      /\ UNCHANGED <<timer, orphan, ufds, i, due, hit, late, wild>> /\ Lists
  BY DEF Seek, Goto, list, locals, files, Lists
<1>3. "lookup" \in AnyPlace \ Writing /\ "lookup" # "stale" /\ "lookup" \notin {"join", "done"}
      /\ pc'["loop"] = "lookup"
  BY <1>1, <1>2, MoveTypes DEF AnyPlace, Writing, Reading
<1>4. tmp'["loop"] \in InList \cup {NoNode} /\ \A b \in Actor : b # "loop" => tmp'[b] = tmp[b]
  <2>1. head \in InList \cup {NoNode}
    BY DEF Good, Order, Ordered
  <2> QED BY <1>1, <1>2, <2>1 DEF Set, TypeOK
<1>5. \A r \in [Node -> Nat] : Counting(r)'
  BY <1>3 DEF Counting
<1>6. Dues' /\ Hits' /\ Found'
  BY <1>1, <1>2, <1>3 DEF Good, Dues, Hits, Found, Pending, Lists
<1> QED BY <1>1, <1>2, <1>3, <1>4, <1>5, <1>6, QuietGood

\* The node found under the descriptor is in the list.
LEMMA LookupGood ==
  ASSUME TypeOK, PlaceInv, Good, ~raced', Lookup
  PROVE  Good'
<1> USE TimerAssumption
<1>1. "loop" \in Actor /\ pc["loop"] = "lookup" /\ pc["loop"] \notin Writing
  BY DEF Actor, Lookup, Writing
<1>2. PICK l \in {"scan", "lookup", "call"} :
        /\ Move("loop", l)
        /\ l = "lookup" => UNCHANGED <<i, hit>> /\ tmp["loop"] \in heap /\ tmp'["loop"] = next[tmp["loop"]]
        /\ l = "call" => UNCHANGED <<i, tmp, hit>> /\ tmp["loop"] \in heap /\ fd[tmp["loop"]] = ufds[i]
  BY <1>1 DEF Lookup, Goto, Set, TypeOK, Matches
<1>3. UNCHANGED <<timer, orphan, ufds, due, late, wild>> /\ Lists
      /\ \A b \in Actor : b # "loop" => tmp'[b] = tmp[b]
  BY DEF Lookup, Goto, list, files, Lists, Set, TypeOK
<1>4. l \in AnyPlace \ Writing /\ l # "stale" /\ pc'["loop"] = l /\ l # "collect" /\ l \notin {"join", "done"}
      /\ (l \in Following \cup Pending => l = "lookup" \/ l = "call")
  BY <1>1, <1>2, MoveTypes DEF AnyPlace, Writing, Reading, Following, Pending
<1>5. tmp["loop"] \in InList \cup {NoNode} /\ NoNode \notin heap
  BY <1>1 DEF Good, Places, Following, TypeOK
<1>6. l \in Following => tmp'["loop"] \in InList \cup {NoNode}
  BY <1>2, <1>4, <1>5 DEF Good, Order, Ordered
<1>7. \A r \in [Node -> Nat] : Counting(r)'
  BY <1>4 DEF Counting
<1>8. InList' = InList
  BY <1>1, <1>2, <1>3, <1>4, QuietOf
<1>9. Dues' /\ Hits'
  BY <1>1, <1>2, <1>3, <1>4 DEF Good, Dues, Hits, Pending, Lists
<1>10. Found'
  BY <1>2, <1>3, <1>4, <1>5, <1>8 DEF Found, Lists
<1> QED BY <1>1, <1>2, <1>3, <1>4, <1>6, <1>7, <1>9, <1>10, QuietGood

\* The callback is that of the timer whose expiry was read.
LEMMA CallGood ==
  ASSUME TypeOK, PlaceInv, Good, ~raced', CallCallback
  PROVE  Good'
<1>1. "loop" \in Actor /\ pc["loop"] = "call" /\ pc["loop"] \notin Writing /\ "call" \in Pending
  BY DEF Actor, CallCallback, Writing, Pending
<1>2. /\ Move("loop", "callback") /\ wild' = (wild \/ tmp["loop"] \notin hit)
      /\ UNCHANGED <<tmp, timer, orphan, ufds, i, due, late>> /\ Lists
  BY DEF CallCallback, list, locals, files, Lists
<1>3. /\ "callback" \in AnyPlace \ Writing /\ "callback" # "stale" /\ "callback" \notin {"join", "done"}
      /\ "callback" \notin Following \cup Pending /\ pc'["loop"] = "callback"
  BY <1>1, <1>2, MoveTypes DEF AnyPlace, Writing, Reading, Following, Pending
<1>4. \A r \in [Node -> Nat] : Counting(r)'
  BY <1>3 DEF Counting
<1>5. tmp["loop"] \in heap /\ fd[tmp["loop"]] = ufds[i]
  BY <1>1 DEF Good, Found, InList
<1>6. orphan' = "none" => ~wild'
  BY <1>1, <1>2, <1>5 DEF Good, Hits
<1>7. Dues' /\ Hits' /\ Found'
  BY <1>2, <1>3, <1>6 DEF Good, Dues, Hits, Found, Lists
<1> QED BY <1>1, <1>2, <1>3, <1>4, <1>7, QuietGood

LEMMA ExpireGood ==
  ASSUME TypeOK, PlaceInv, Good, NEW f \in Fd, Expire(f)
  PROVE  Good'
<1>1. /\ timer[f] = "armed" /\ timer' = Set(timer, f, "expired") /\ due' = due \cup {n \in heap : fd[n] = f}
      /\ UNCHANGED <<pc, node, tmp, head, next, fd, heap, live, orphan, ufds, i, hit, late, wild>>
  BY DEF Expire, ExpireOrphan, list, locals, files
<1>2. timer'[f] = "expired" /\ \A g \in Fd : g # f => timer'[g] = timer[g]
  BY <1>1 DEF Set, TypeOK
<1>3. (\A S \in SUBSET Writing : Of(S)' = Of(S)) /\ InList' = InList
  BY <1>1 DEF Of, InList
<1>4. Order'
  BY <1>1, <1>3 DEF Good, Order, Walking, Counting
<1>5. Places'
  BY <1>1, <1>3, Groups DEF Good, Places, Known
<1>6. Fds'
  <2>1. \A n \in heap : fd[n] \in Fd
    BY DEF PlaceInv
  <2>2. \A g \in Fd : timer'[g] = "closed" <=> timer[g] = "closed"
    BY <1>1, <1>2
  <2> QED BY <1>1, <1>3, <2>1, <2>2, Groups DEF Good, Fds
<1>7. Dues' /\ Hits' /\ Found'
  <2>1. \A n \in heap : fd[n] \in Fd
    BY DEF PlaceInv
  <2>2. \A n \in heap : timer'[fd[n]] = "expired" => n \in due'
    BY <1>1, <1>2, <2>1 DEF Good, Dues
  <2> QED BY <1>1, <1>3, <2>2 DEF Good, Dues, Hits, Found
<1>8. Ends'
  BY <1>1, <1>3 DEF Good, Ends
<1> QED BY <1>4, <1>5, <1>6, <1>7, <1>8 DEF Good

\* The timer that is read without a descriptor expires, or nothing happens.
LEMMA StutterGood ==
  ASSUME TypeOK, PlaceInv, Good, ExpireOrphan \/ UNCHANGED vars
  PROVE  Good'
<1>1. UNCHANGED <<pc, node, tmp, head, next, fd, heap, live, timer, due, ufds, i, hit, late, wild>>
      /\ (orphan' = "none" => orphan = "none")
  BY DEF ExpireOrphan, list, locals, vars
<1>2. (\A S \in SUBSET Writing : Of(S)' = Of(S)) /\ InList' = InList
  BY <1>1 DEF Of, InList
<1>3. Order' /\ Places'
  BY <1>1, <1>2, Groups DEF Good, Order, Walking, Counting, Places, Known
<1>4. Fds' /\ Dues' /\ Hits' /\ Found' /\ Ends'
  BY <1>1, <1>2, Groups DEF Good, Fds, Dues, Hits, Found, Ends
<1> QED BY <1>3, <1>4 DEF Good

\* A thread reads or frees a node that is allocated.
LEMMA NothingStale ==
  ASSUME TypeOK, PlaceInv, Good, NEW a \in Actor
  PROVE  ~Stale(a)
<1> USE TimerAssumption
<1>1. SUFFICES Target(a) \subseteq heap
  BY DEF Stale
<1>2. InList \subseteq heap
  BY DEF InList
<1>3. pc[a] \in Writing => node[a] \in heap
  BY DEF Good, Places, Of
<1>4. PICK r \in [Node -> Nat] : Ordered(InList, head, next, r) /\ Walking(r) /\ Counting(r)
  BY DEF Good, Order
<1>5. CASE pc[a] \in {"close", "free", "unhead"}
  BY <1>3, <1>5 DEF Target, Writing, Good, Places
<1>6. CASE pc[a] = "walk"
  BY <1>2, <1>4, <1>6 DEF Target, Walking
<1>7. CASE pc[a] = "unlink"
  BY <1>2, <1>3, <1>7 DEF Target, Good, Places, Writing
<1>8. CASE pc[a] = "collect"
  <2>1. tmp[a] \in InList \cup {NoNode}
    BY <1>8 DEF Good, Places, Following
  <2>2. a = "loop"
    BY <1>8 DEF PlaceInv, MainPlace, Writing, Actor
  <2>3. tmp[a] # NoNode => Len(ufds) < MaxTimers
    BY <1>4, <1>8, <2>1, <2>2, Behind
  <2>4. Len(ufds) \in Nat
    BY LenProperties DEF TypeOK
  <2>5. ~(pc[a] = "collect" /\ tmp[a] # NoNode /\ Len(ufds) = MaxTimers)
    BY <2>3, <2>4
  <2> QED BY <1>2, <1>8, <2>1, <2>5 DEF Target
<1>9. CASE pc[a] \in {"lookup", "call"}
  BY <1>2, <1>9 DEF Target, Good, Places, Following
<1>10. CASE pc[a] \notin {"close", "free", "unhead", "walk", "unlink", "collect", "lookup", "call"}
  BY <1>10 DEF Target
<1> QED BY <1>5, <1>6, <1>7, <1>8, <1>9, <1>10

\* As long as nobody has raced, every step keeps what the list is good for.
LEMMA GoodNext ==
  ASSUME TypeOK, PlaceInv, Good, ~raced', [Next]_vars
  PROVE  Good'
<1>1. CASE Initialize \/ Finalize \/ FinalizeCancel \/ FinalizeJoin
  BY <1>1, EndingGood
<1>2. CASE FinalizeStop
  <2>1. /\ Move("main", "close") /\ node' = Set(node, "main", head) /\ live' = live \ {head}
        /\ UNCHANGED <<tmp, head, next, late>> /\ SameFds
        /\ pc["main"] = "finalize" /\ head # NoNode /\ "main" \in Actor
    BY <1>2 DEF FinalizeStop, Goto, list, SameFds, Actor, files
  <2>2. pc["main"] \notin Writing /\ "close" \in Writing /\ "close" \in AnyPlace
    BY <2>1 DEF Writing, AnyPlace
  <2>3. Of(Writing) = {} /\ Of(Outside) = {}
    BY <2>1, <2>2, WriterStep, Groups
  <2>4. head \in live
    BY <2>1, <2>3 DEF Good, Order, Ordered, Places, InList
  <2> QED BY <2>1, <2>2, <2>4, StopGood
<1>3. CASE Loop
  BY <1>3, LoopGood, CollectGood, ReadGood, SeekGood, LookupGood, CallGood DEF Loop
<1>4. ASSUME NEW a \in Actor, Call(a) PROVE Good'
  <2>1. CASE Stop(a)
    <3>1. PICK n \in live : node' = Set(node, a, n) /\ live' = live \ {n}
      BY <2>1 DEF Stop
    <3>2. /\ Move(a, "close") /\ UNCHANGED <<tmp, head, next, late>> /\ SameFds /\ pc[a] \notin Writing
      BY <2>1 DEF Stop, Goto, list, SameFds, May, Writing, Actor, files
    <3> QED BY <3>1, <3>2, StopGood
  <2> QED BY <1>4, <2>1, StartTimerGood, StartLinkGood, StartPublishGood, StopCloseGood,
             StopTestGood,
             StopUnheadGood, StopWalkGood, StopUnlinkGood, StopFreeGood DEF Call
<1>5. ASSUME NEW a \in Actor, Stale(a) PROVE Good'
  BY <1>5, NothingStale
<1>6. ASSUME NEW f \in Fd, Expire(f) PROVE Good'
  BY <1>6, ExpireGood
<1>7. CASE ExpireOrphan \/ UNCHANGED vars
  BY <1>7, StutterGood
<1> QED BY <1>1, <1>2, <1>3, <1>4, <1>5, <1>6, <1>7 DEF Next, Ending

LEMMA GoodInit == Init => Good
<1> SUFFICES ASSUME Init PROVE Good
  OBVIOUS
<1>1. \A a \in Actor : pc[a] \in {"idle", "unborn"}
  BY DEF Init, Actor
<1>2. (\A S \in SUBSET Writing : Of(S) = {}) /\ InList = {}
  <2>1. \A a \in Actor : pc[a] \notin Writing
    BY <1>1 DEF Writing
  <2>2. heap = {}
    BY DEF Init
  <2> QED BY <2>1, <2>2 DEF Of, InList
<1>3. Order
  <2> DEFINE r == [n \in Node |-> 0]
  <2>1. r \in [Node -> Nat]
    OBVIOUS
  <2>2. head = NoNode
    BY DEF Init
  <2>3. Ordered(InList, head, next, r)
    BY <1>2, <2>2 DEF Ordered
  <2>4. Walking(r) /\ Counting(r)
    BY <1>1 DEF Walking, Counting, Actor
  <2> HIDE DEF r
  <2> QED BY <2>1, <2>3, <2>4 DEF Order
<1>4. Places
  BY <1>1, <1>2, Groups DEF Places, Known, Init, Following
<1>5. Fds /\ Dues /\ Hits /\ Found /\ Ends
  BY <1>1, <1>2 DEF Fds, Dues, Hits, Found, Ends, Init, Pending, Actor
<1> QED BY <1>3, <1>4, <1>5 DEF Good

LEMMA IInvInit == Init => IInv
BY TypeInit, GoodInit DEF IInv

LEMMA IInvNext ==
  ASSUME IInv, [Next]_vars
  PROVE  IInv'
<1>1. TypeOK /\ PlaceInv /\ (~raced => Good)
  BY DEF IInv
<1>2. TypeOK' /\ PlaceInv'
  BY <1>1, TypeNext, PlaceNext
<1>3. ~raced' => ~raced
  <2>1. ASSUME NEW a \in Actor, NEW l, Move(a, l), ~raced' PROVE ~raced
    BY <2>1 DEF Move
  <2> QED BY <2>1, StepMoves
<1>4. ~raced' => Good'
  BY <1>1, <1>3, GoodNext
<1> QED BY <1>2, <1>4 DEF IInv
-----------------------------------------------------------------------------
(* What the runs check *)

\* timer.c keeps its types, with two threads in the list or not: its list, its
\* descriptors and the array of the loop hold nothing but what they are for.
THEOREM TypeCorrect == Spec => []TypeOK
<1>1. IInv => TypeOK
  BY DEF IInv
<1> QED BY IInvInit, IInvNext, <1>1, PTL DEF Spec

\* As long as no two threads are in the list at once, one of them to change it,
\* nobody reads or frees a node that has been freed.
THEOREM FreedNeedsRace == Spec => []FreedOnlyRacing
<1>1. IInv => FreedOnlyRacing
  BY DEF IInv, Good, Places, FreedOnlyRacing
<1> QED BY IInvInit, IInvNext, <1>1, PTL DEF Spec

\* A callback is that of the timer whose expiry the loop has just read, if nobody
\* has raced and the main thread has not stopped a timer while the loop read it.
THEOREM CallbacksAreDue == Spec => []CallbackDue
<1>1. IInv => CallbackDue
  BY DEF IInv, Good, Hits, CallbackDue
<1> QED BY IInvInit, IInvNext, <1>1, PTL DEF Spec

\* The node of the next higher rank is the one before.
LEMMA Before ==
  ASSUME NEW S \in SUBSET Node, NEW h, NEW nx, NEW r \in [Node -> Nat], Ordered(S, h, nx, r),
         NEW n \in S
  PROVE  Cardinality({m \in S : nx[m] = n}) = (IF h = n THEN 0 ELSE 1)
<1>1. \A m \in S : r[m] \in Nat
  OBVIOUS
<1>2. CASE h = n
  <2>1. \A m \in S : nx[m] # n
    BY <1>1, <1>2 DEF Ordered
  <2>2. {m \in S : nx[m] = n} = {}
    BY <2>1
  <2> QED BY <1>2, <2>2, FS_EmptySet
<1>3. CASE h # n
  <2> DEFINE A == {r[m] : m \in {l \in S : r[l] > r[n]}}
  <2>1. h \in S /\ r[h] > r[n]
    <3>1. h \in S /\ r[n] <= r[h] /\ r[n] # r[h]
      BY <1>3 DEF Ordered
    <3> QED BY <1>1, <3>1
  <2>2. A \subseteq Nat /\ A # {}
    BY <1>1, <2>1
  <2>3. PICK x \in A : \A y \in A : ~ (<<y, x>> \in OpToRel(<, Nat))
    <3> HIDE DEF A
    <3>1. IsWellFoundedOn(OpToRel(<, Nat), Nat)
      BY NatLessThanWellFounded
    <3> QED BY <2>2, <3>1, WFMin
  <2>4. \A y \in A : ~ (y < x)
    BY <2>2, <2>3 DEF OpToRel
  <2>5. PICK p \in S : r[p] = x /\ r[p] > r[n]
    OBVIOUS
  <2>6. \A m \in S : r[m] > r[n] => r[p] <= r[m]
    <3>1. \A m \in S : r[m] > r[n] => r[m] \in A
      OBVIOUS
    <3> HIDE DEF A
    <3> QED BY <1>1, <2>4, <2>5, <3>1
  <2> HIDE DEF A
  <2>7. nx[p] \in S /\ r[nx[p]] < r[p] /\ r[n] <= r[nx[p]]
    BY <1>1, <2>5 DEF Ordered
  <2>8. nx[p] = n
    <3>1. ~(r[nx[p]] > r[n])
      BY <1>1, <2>6, <2>7
    <3>2. r[nx[p]] = r[n]
      BY <1>1, <2>7, <3>1
    <3> QED BY <2>7, <3>2 DEF Ordered
  <2>9. \A m \in S : nx[m] = n => m = p
    <3>1. ASSUME NEW m \in S, nx[m] = n, r[m] < r[p] PROVE FALSE
      <4>1. r[m] <= r[nx[p]] /\ r[nx[m]] < r[m]
        BY <3>1 DEF Ordered
      <4> QED BY <1>1, <2>8, <3>1, <4>1
    <3>2. ASSUME NEW m \in S, nx[m] = n, r[p] < r[m] PROVE FALSE
      <4>1. r[p] <= r[nx[m]]
        BY <3>2 DEF Ordered
      <4> QED BY <1>1, <2>5, <3>2, <4>1
    <3>3. \A m \in S : r[m] = r[p] => m = p
      BY DEF Ordered
    <3> QED BY <1>1, <3>1, <3>2, <3>3
  <2>10. {m \in S : nx[m] = n} = {p}
    BY <2>8, <2>9
  <2> QED BY <1>3, <2>10, FS_Singleton
<1> QED BY <1>2, <1>3

\* While nobody is changing it, and nobody has raced, the list holds each timer
\* that has been started and not stopped once, with an open descriptor of its
\* own, and nothing else is allocated.
THEOREM ListsAreExact == Spec => []ListExact
<1>1. IInv => ListExact
  <2> SUFFICES ASSUME IInv, ~raced, \A a \in Actor : pc[a] \notin Writing PROVE
        /\ Known
        /\ heap = live
        /\ head \in live \cup {NoNode}
        /\ \A n \in live :
             /\ next[n] \in live \cup {NoNode}
             /\ Cardinality({m \in live : next[m] = n}) = (IF head = n THEN 0 ELSE 1)
             /\ timer[fd[n]] # "closed"
             /\ \A m \in live : fd[m] = fd[n] => m = n
    BY DEF ListExact
  <2>1. Order /\ Places /\ Fds /\ TypeOK
    BY DEF IInv, Good
  <2>2. \A S \in SUBSET Writing : Of(S) = {}
    BY DEF Of
  <2>3. Known /\ heap = live /\ InList = live
    BY <2>1, <2>2, Groups DEF Places, InList
  <2>4. PICK r \in [Node -> Nat] : Ordered(live, head, next, r)
    BY <2>1, <2>3 DEF Order
  <2>5. head \in live \cup {NoNode} /\ \A n \in live : next[n] \in live \cup {NoNode}
    BY <2>4 DEF Ordered
  <2>6. \A n \in live : timer[fd[n]] # "closed" /\ \A m \in live : fd[m] = fd[n] => m = n
    BY <2>1, <2>2, <2>3, Groups DEF Fds
  <2>7. \A n \in live : Cardinality({m \in live : next[m] = n}) = (IF head = n THEN 0 ELSE 1)
    <3>1. live \in SUBSET Node
      BY <2>1 DEF TypeOK
    <3> QED BY <2>4, <3>1, Before
  <2> QED BY <2>3, <2>5, <2>6, <2>7
<1> QED BY IInvInit, IInvNext, <1>1, PTL DEF Spec

\* timer_finalize leaves no node and no descriptor behind, if nobody has raced
\* and no callback has added a timer meanwhile.
THEOREM NothingIsLeft == Spec => []NothingLeft
<1>1. IInv => NothingLeft
  <2> SUFFICES ASSUME IInv, pc["main"] = "done", ~raced, ~late
               PROVE  heap = {} /\ \A f \in Fd : timer[f] = "closed"
    BY DEF NothingLeft
  <2>1. Ends /\ Fds /\ InList = {}
    BY DEF IInv, Good, Ends
  <2>2. \A a \in Actor : pc[a] \notin Writing
    BY DEF IInv, PlaceInv, Actor, Writing
  <2>3. Of(Outside) = {}
    BY <2>2, Groups DEF Of
  <2>4. heap = {}
    BY <2>1, <2>3 DEF InList
  <2> QED BY <2>1, <2>4 DEF Fds
<1> QED BY IInvInit, IInvNext, <1>1, PTL DEF Spec
=============================================================================
