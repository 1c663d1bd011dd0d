-------------------------------- MODULE Pool --------------------------------
(***************************************************************************)
(* The memory pool of pool.c: a list of chunks of one size that blocks are *)
(* cut from, and a list of large blocks that malloc serves one by one and  *)
(* whose list nodes are themselves cut from the chunks.                    *)
(*                                                                         *)
(* An address is a chunk and an offset into it.  A call of pool_alloc is   *)
(* one action: its walk over the chunks is what FirstFit and IsCursor say. *)
(* pool_delete is a step per free, because it frees the memory that its    *)
(* own list nodes are in.  What the blocks hold is left out, so pool_calloc*)
(* and pool_cpy are pool_alloc.                                            *)
(***************************************************************************)
EXTENDS Integers, Sequences, FiniteSets

CONSTANTS
  ChunkSize,    \* the size given to pool_new
  RmdArg,       \* the rmd given to pool_new
  Sizes,        \* sizes the client asks for
  SizeMod,      \* 2^w for the w bits of size_t
  MaxChunks,    \* bound: chunks of the pool
  MaxLarges     \* bound: large blocks of the pool

Alignment    == 8      \* sizeof(unsigned long)
Header       == 56     \* sizeof(pool_t)
NodeSize     == 16     \* sizeof(pool_large_t)
POOL_ALLOC_MAX == 4095

\* A chunk has room for a list node (pool_alloc would not return otherwise)
\* and ends on a boundary; a client does not ask for nothing.
ASSUME PoolAssumption ==
  /\ ChunkSize \in Nat /\ ChunkSize >= Header + NodeSize
  /\ ChunkSize % Alignment = 0
  /\ RmdArg \in Nat
  /\ Sizes \subseteq Nat \ {0}
  /\ SizeMod \in Nat /\ ChunkSize < SizeMod
  /\ MaxChunks \in Nat \ {0} /\ MaxLarges \in Nat

VARIABLES
  pc,       \* "none", "ready", or the loop of pool_delete that runs
  last,     \* p->last of each chunk, as an offset into it
  cur,      \* pool->cur
  larges,   \* the list of large blocks; pool->large is the last element
  size,     \* pool->size
  heap,     \* what malloc has given the pool and free has not taken back
  live,     \* blocks the client holds
  walk      \* the next element of its list that pool_delete frees

vars == <<pc, last, cur, larges, size, heap, live, walk>>

Block == [chunk : Nat, off : Nat, size : Nat]

Chunk(i) == <<"chunk", i>>
Data(k)  == <<"data", k>>

\* Blocks in use: the client's and the nodes of the list of large blocks.
Nodes == {larges[k].node : k \in 1 .. Len(larges)}
Used  == live \cup Nodes

Init ==
  /\ pc = "none"
  /\ last = <<>> /\ cur = 0
  /\ larges = <<>>
  /\ size = 0
  /\ heap = {} /\ live = {}
  /\ walk = 0
-----------------------------------------------------------------------------
Rmd == IF RmdArg < Alignment THEN Alignment ELSE RmdArg

AlignUp(x) == ((x + (Alignment - 1)) \div Alignment) * Alignment

\* Variant: p->end - p->last.
LeftUnaligned(i) == (ChunkSize + SizeMod - last[i]) % SizeMod

\* (size_t) (p->end - m)
Left(i) == (ChunkSize + SizeMod - AlignUp(last[i])) % SizeMod

\* pool_new, when malloc succeeds.
New ==
  /\ pc = "none"
  /\ pc' = "ready"
  /\ last' = <<Header>>
  /\ cur' = 1
  /\ larges' = <<>>
  /\ size' = ChunkSize
  /\ heap' = {Chunk(1)}
  /\ UNCHANGED <<live, walk>>
-----------------------------------------------------------------------------
(* pool_alloc from the chunks *)

\* The walk goes from cur and takes the first chunk with room for n bytes.
FirstFit(i, n) ==
  /\ i \in cur .. Len(last)
  /\ Left(i) >= n
  /\ \A j \in cur .. i - 1 : Left(j) < n

NoFit(n) == \A j \in cur .. Len(last) : Left(j) < n

\* pool->cur after the walk has left the chunks before i: it stands behind the
\* last of them that has less than rmd bytes left.
IsCursor(c, i) ==
  /\ \/ c = cur
     \/ \E j \in cur .. i - 1 : Left(j) < Rmd /\ c = j + 1
  /\ \A j \in cur .. i - 1 : Left(j) < Rmd => j < c

\* Where the walk over the chunks, or a new chunk behind them, puts n bytes.
Place(i, n) ==
  [chunk |-> i, size |-> n,
   off   |-> IF i \in 1 .. Len(last) THEN AlignUp(last[i]) ELSE Header]

\* n bytes are cut from chunk i, the first with room or a new one, for a call
\* that also adds the bytes of the blocks in got to the pool.
Cut(i, n, got, bytes) ==
  /\ \E c \in 1 .. i : IsCursor(c, i) /\ cur' = c
  /\ \/ /\ FirstFit(i, n)
        /\ last' = [last EXCEPT ![i] = AlignUp(last[i]) + n]
        /\ size' = size + bytes
        /\ heap' = heap \cup got
     \/ /\ NoFit(n)
        /\ i = Len(last) + 1
        /\ i <= MaxChunks
        /\ last' = Append(last, Header + n)
        /\ size' = size + ChunkSize + bytes
        /\ heap' = heap \cup got \cup {Chunk(i)}

\* malloc has no memory for one more chunk: the walk has moved cur all the
\* same, as far as the last chunk.
CutFails(n) ==
  /\ NoFit(n)
  /\ \E c \in 1 .. Len(last) : IsCursor(c, Len(last)) /\ cur' = c
  /\ UNCHANGED <<last, size, heap>>

Small(n) == n <= POOL_ALLOC_MAX /\ n <= ChunkSize - Header

AllocSmall(n) ==
  /\ pc = "ready"
  /\ Small(n)
  /\ \E i \in 1 .. Len(last) + 1 :
       /\ Cut(i, n, {}, 0)
       /\ live' = live \cup {Place(i, n)}
  /\ UNCHANGED <<pc, larges, walk>>

AllocSmallFails(n) ==
  /\ pc = "ready"
  /\ Small(n)
  /\ CutFails(n)
  /\ UNCHANGED <<pc, larges, live, walk>>
-----------------------------------------------------------------------------
(* pool_alloc from malloc *)

\* The block is malloc's, its list node is cut from the chunks.  pool->size
\* grows by the block, and by the chunk if the node needs a new one.
AllocLarge(n) ==
  /\ pc = "ready"
  /\ ~Small(n)
  /\ Len(larges) < MaxLarges
  /\ \E i \in 1 .. Len(last) + 1 :
       /\ Cut(i, NodeSize, {Data(Len(larges) + 1)}, n)
       /\ larges' = Append(larges, [node |-> Place(i, NodeSize), size |-> n])
  /\ UNCHANGED <<pc, live, walk>>

\* Variant: the block is not given back to malloc.
AllocLargeFailsKeeping(n) ==
  /\ pc = "ready"
  /\ ~Small(n)
  /\ Len(larges) < MaxLarges
  /\ NoFit(NodeSize)
  /\ \E c \in 1 .. Len(last) : IsCursor(c, Len(last)) /\ cur' = c
  /\ heap' = heap \cup {Data(Len(larges) + 1)}
  /\ UNCHANGED <<pc, last, larges, size, live, walk>>

\* There is no memory for the node: the block goes back to malloc.  (When
\* malloc refuses the block itself nothing changes.)
AllocLargeFails(n) ==
  /\ pc = "ready"
  /\ ~Small(n)
  /\ CutFails(NodeSize)
  /\ UNCHANGED <<pc, larges, live, walk>>
-----------------------------------------------------------------------------
\* Variant: last is lowered for any block of the chunk at cur.
FreeAny(b) ==
  /\ pc = "ready"
  /\ live' = live \ {b}
  /\ last' = IF b.chunk = cur THEN [last EXCEPT ![cur] = b.off] ELSE last
  /\ UNCHANGED <<pc, cur, larges, size, heap, walk>>

\* pool_free takes back the block that ends where the chunk at cur is used up
\* to; any other block, and a large one, stays until the pool is deleted.
Free(b) ==
  /\ pc = "ready"
  /\ live' = live \ {b}
  /\ last' = IF b.chunk = cur /\ last[cur] = b.off + b.size
                THEN [last EXCEPT ![cur] = b.off]
                ELSE last
  /\ UNCHANGED <<pc, cur, larges, size, heap, walk>>
-----------------------------------------------------------------------------
(* pool_delete: the client gives up every block it has. *)

Delete ==
  /\ pc = "ready"
  /\ pc' = "larges"
  /\ walk' = Len(larges)
  /\ live' = {}
  /\ UNCHANGED <<last, cur, larges, size, heap>>

\* Variant: the list node is given to free as well.
FreeLargeAndNode ==
  /\ pc = "larges"
  /\ walk > 0
  /\ heap' = heap \ {Data(walk), Chunk(larges[walk].node.chunk)}
  /\ walk' = walk - 1
  /\ UNCHANGED <<pc, last, cur, larges, size, live>>

FreeLarge ==
  /\ pc = "larges"
  /\ walk > 0
  /\ heap' = heap \ {Data(walk)}
  /\ walk' = walk - 1
  /\ UNCHANGED <<pc, last, cur, larges, size, live>>

FreeLargesEnd ==
  /\ pc = "larges"
  /\ walk = 0
  /\ pc' = "chunks"
  /\ walk' = 1
  /\ UNCHANGED <<last, cur, larges, size, heap, live>>

FreeChunk ==
  /\ pc = "chunks"
  /\ heap' = heap \ {Chunk(walk)}
  /\ IF walk < Len(last)
       THEN walk' = walk + 1 /\ UNCHANGED <<pc, last, cur, larges, size>>
       ELSE /\ pc' = "none"
            /\ last' = <<>> /\ cur' = 0
            /\ larges' = <<>> /\ size' = 0
            /\ walk' = 0
  /\ UNCHANGED live
-----------------------------------------------------------------------------
Alloc(n) ==
  AllocSmall(n) \/ AllocSmallFails(n) \/ AllocLarge(n) \/ AllocLargeFails(n)

Next ==
  \/ New
  \/ \E n \in Sizes : Alloc(n)
  \/ \E b \in live : Free(b)
  \/ Delete \/ FreeLarge \/ FreeLargesEnd \/ FreeChunk

Spec == Init /\ [][Next]_vars
-----------------------------------------------------------------------------
Large == [node : Block, size : Nat]

TypeOK ==
  /\ pc \in {"none", "ready", "larges", "chunks"}
  /\ last \in Seq(Nat) /\ cur \in Nat
  /\ larges \in Seq(Large)
  /\ size \in Nat
  /\ heap \subseteq {Chunk(i) : i \in 1 .. MaxChunks}
                     \cup {Data(k) : k \in 1 .. MaxLarges}
  /\ live \subseteq Block
  /\ walk \in Nat

\* Every block in use starts on a boundary and lies, behind the header, in the
\* part of its chunk that is used; that part lies in the chunk.
BlocksInBounds ==
  /\ \A i \in 1 .. Len(last) : last[i] \in Header .. ChunkSize
  /\ \A b \in Used :
       /\ b.chunk \in 1 .. Len(last)
       /\ b.off >= Header /\ b.off % Alignment = 0
       /\ b.off + b.size <= last[b.chunk]

Apart(a, b) ==
  a.chunk = b.chunk => a.off + a.size <= b.off \/ b.off + b.size <= a.off

\* No two blocks in use share a byte: not two of the client's, and not a
\* client's block and a node of the list pool_delete relies on.
BlocksDisjoint ==
  /\ \A a, b \in live : a # b => Apart(a, b)
  /\ \A a \in live, b \in Nodes : Apart(a, b)
  /\ \A k, l \in 1 .. Len(larges) :
       k # l => Apart(larges[k].node, larges[l].node)

\* A call that gives the client a block gives it one it does not have.
IssuedOnce == [][\A n \in Sizes : AllocSmall(n) => live' # live]_vars

\* The chunk that cur has last passed by has less than rmd bytes left.  It
\* says nothing of the chunks before it: the walk may pass those by too.
PassedIsFull == pc = "ready" /\ cur > 1 => Left(cur - 1) < Rmd

\* What pool_delete has still to read and to free, malloc still has given out.
WalkReadsHeap ==
  /\ pc = "larges" => \A k \in 1 .. walk :
       /\ Chunk(larges[k].node.chunk) \in heap
       /\ Data(k) \in heap
  /\ pc = "chunks" => \A i \in walk .. Len(last) : Chunk(i) \in heap

\* pool_delete gives everything back, whatever allocations have failed.
NothingLeaks == pc = "none" => heap = {}
=============================================================================
