----------------------------- MODULE PoolProofs -----------------------------
(***************************************************************************)
(* What holds of Pool for every chunk size that ends on a boundary, every  *)
(* rmd, and every set of sizes the client may ask for.                     *)
(***************************************************************************)
EXTENDS Pool, TLAPS

\* Nothing is there before pool_new, and the lists of a pool are in shape.
Shape ==
  /\ pc = "none" => last = <<>> /\ larges = <<>> /\ heap = {}
  /\ pc # "none" => cur \in 1 .. Len(last)
  /\ pc # "ready" => live = {}
  /\ Len(last) <= MaxChunks /\ Len(larges) <= MaxLarges
  /\ \A b \in Used : b.size > 0

\* What malloc has given out, and pool_delete has still to give back.
Owned ==
  /\ pc = "ready" =>
       heap = {Chunk(i) : i \in 1 .. Len(last)} \cup {Data(k) : k \in 1 .. Len(larges)}
  /\ pc = "larges" =>
       /\ walk \in 0 .. Len(larges)
       /\ heap = {Chunk(i) : i \in 1 .. Len(last)} \cup {Data(k) : k \in 1 .. walk}
  /\ pc = "chunks" =>
       /\ walk \in 1 .. Len(last)
       /\ heap = {Chunk(i) : i \in walk .. Len(last)}

IInv == TypeOK /\ Shape /\ Owned /\ BlocksInBounds /\ BlocksDisjoint /\ PassedIsFull

USE PoolAssumption
-----------------------------------------------------------------------------
(* align_ptr, and the room that p->end - m says is left. *)

LEMMA AlignUpFacts ==
  ASSUME NEW x \in Nat
  PROVE  /\ AlignUp(x) \in Nat /\ AlignUp(x) >= x /\ AlignUp(x) < x + 8
         /\ AlignUp(x) % 8 = 0
         /\ x % 8 = 0 => AlignUp(x) = x
  BY DEF AlignUp, Alignment

LEMMA AlignUpInChunk ==
  ASSUME NEW x \in Nat, x <= ChunkSize
  PROVE  AlignUp(x) <= ChunkSize
<1>1. ChunkSize \in Nat /\ ChunkSize % 8 = 0
  BY DEF Alignment
<1> QED
  BY <1>1, SMT DEF AlignUp, Alignment

LEMMA LeftFacts ==
  ASSUME NEW i \in 1 .. Len(last), last \in Seq(Nat), last[i] <= ChunkSize
  PROVE  /\ Left(i) = ChunkSize - AlignUp(last[i])
         /\ Left(i) \in Nat
<1>1. last[i] \in Nat
  OBVIOUS
<1>2. AlignUp(last[i]) \in Nat
  BY <1>1, AlignUpFacts
<1>3. AlignUp(last[i]) <= ChunkSize
  BY <1>1, AlignUpInChunk
<1>4. \A a \in Nat : a < SizeMod => (a + SizeMod) % SizeMod = a
  BY SMT
<1>5. DEFINE m == AlignUp(last[i])
<1> HIDE DEF m
<1>6. ChunkSize \in Nat /\ SizeMod \in Nat /\ ChunkSize < SizeMod
  OBVIOUS
<1>7. m \in Nat /\ m <= ChunkSize
  BY <1>2, <1>3 DEF m
<1>8. ChunkSize - m \in Nat /\ ChunkSize - m < SizeMod
  BY <1>6, <1>7
<1>9. ChunkSize + SizeMod - m = (ChunkSize - m) + SizeMod
  BY <1>6, <1>7
<1>10. (ChunkSize + SizeMod - m) % SizeMod = ChunkSize - m
  BY <1>4, <1>8, <1>9
<1> QED
  BY <1>8, <1>10 DEF Left, m
-----------------------------------------------------------------------------
\* What is known of a block in use.
LEMMA UsedFacts ==
  ASSUME IInv, NEW a \in Used
  PROVE  /\ a \in Block
         /\ a.chunk \in 1 .. Len(last)
         /\ a.off \in Nat /\ a.off >= Header /\ a.off % Alignment = 0
         /\ a.size \in Nat /\ a.size > 0
         /\ a.off + a.size <= last[a.chunk]
<1>1. \A k \in 1 .. Len(larges) : larges[k] \in Large
  BY DEF IInv, TypeOK
<1>2. \A k \in 1 .. Len(larges) : larges[k].node \in Block
  BY <1>1 DEF Large
<1>3. a \in Block
  BY <1>2 DEF IInv, TypeOK, Used, Nodes
<1>4. a.off \in Nat /\ a.size \in Nat
  BY <1>3 DEF Block
<1> QED
  BY <1>3, <1>4 DEF IInv, Shape, BlocksInBounds

\* What one walk over the chunks does, whoever asks for the block b.
CutResult(b, i, n, got) ==
  /\ last' \in Seq(Nat)
  /\ Len(last') >= Len(last) /\ i \in 1 .. Len(last')
  /\ Len(last') <= MaxChunks
  /\ \A j \in 1 .. Len(last') : j # i => j \in 1 .. Len(last) /\ last'[j] = last[j]
  /\ i <= Len(last) => last'[i] >= last[i]
  /\ last'[i] \in Header .. ChunkSize
  /\ b \in Block
  /\ b.chunk = i /\ b.size = n
  /\ b.off >= Header /\ b.off % Alignment = 0
  /\ b.off + n = last'[i]
  /\ \A a \in Used : Apart(a, b) /\ a # b
  /\ cur' \in 1 .. Len(last')
  /\ cur' > 1 => Left(cur' - 1) < Rmd /\ cur' - 1 # i /\ cur' - 1 \in 1 .. Len(last)
  /\ size' \in Nat
  /\ heap' = {Chunk(j) : j \in 1 .. Len(last')}
               \cup {Data(k) : k \in 1 .. Len(larges)} \cup got

LEMMA CutFacts ==
  ASSUME IInv, pc = "ready", NEW n \in Nat \ {0}, n <= ChunkSize - Header,
         NEW i \in 1 .. Len(last) + 1, NEW got, NEW bytes \in Nat,
         Cut(i, n, got, bytes)
  PROVE  CutResult(Place(i, n), i, n, got)
<1> DEFINE b == Place(i, n)
<1>1. last \in Seq(Nat) /\ Len(last) \in Nat /\ cur \in 1 .. Len(last) /\ size \in Nat
  BY DEF IInv, TypeOK, Shape
<1>2. \A j \in 1 .. Len(last) : last[j] \in Header .. ChunkSize
  BY DEF IInv, BlocksInBounds
<1>3. ChunkSize \in Nat /\ Header \in Nat
  BY DEF Header
<1>4. \A j \in 1 .. Len(last) :
        /\ AlignUp(last[j]) \in Nat /\ AlignUp(last[j]) >= last[j]
        /\ AlignUp(last[j]) % Alignment = 0
        /\ AlignUp(last[j]) <= ChunkSize
        /\ Left(j) = ChunkSize - AlignUp(last[j])
  <2>1. SUFFICES ASSUME NEW j \in 1 .. Len(last)
                 PROVE  /\ AlignUp(last[j]) \in Nat /\ AlignUp(last[j]) >= last[j]
                        /\ AlignUp(last[j]) % Alignment = 0
                        /\ AlignUp(last[j]) <= ChunkSize
                        /\ Left(j) = ChunkSize - AlignUp(last[j])
    OBVIOUS
  <2>2. last[j] \in Nat /\ last[j] <= ChunkSize
    BY <1>1, <1>2, <1>3
  <2> QED
    BY <2>2, <1>1, AlignUpFacts, AlignUpInChunk, LeftFacts DEF Alignment
<1>5. \A a \in Used : a.chunk \in 1 .. Len(last) /\ a.off + a.size <= last[a.chunk]
                     /\ a.off \in Nat /\ a.size \in Nat /\ a.size > 0
  BY UsedFacts
<1>6. PICK c \in 1 .. i : IsCursor(c, i) /\ cur' = c
  BY DEF Cut
<1>7. i \in cur .. Len(last) + 1
  BY <1>1 DEF Cut, FirstFit
<1>8. c > 1 => Left(c - 1) < Rmd /\ c - 1 # i /\ c - 1 \in 1 .. Len(last)
  BY <1>1, <1>6, <1>7 DEF IsCursor, IInv, PassedIsFull
<1>9. heap = {Chunk(j) : j \in 1 .. Len(last)} \cup {Data(k) : k \in 1 .. Len(larges)}
  BY DEF IInv, Owned
<1>10. CASE i \in 1 .. Len(last)
  <2>1. /\ FirstFit(i, n) /\ last' = [last EXCEPT ![i] = AlignUp(last[i]) + n]
        /\ size' = size + bytes /\ heap' = heap \cup got
    BY <1>1, <1>10 DEF Cut
  <2>2. b = [chunk |-> i, size |-> n, off |-> AlignUp(last[i])]
    BY <1>10 DEF Place
  <2>3. AlignUp(last[i]) + n <= ChunkSize
    BY <2>1, <1>3, <1>4, <1>10 DEF FirstFit
  <2>4. last' \in Seq(Nat) /\ Len(last') = Len(last) /\ last'[i] = AlignUp(last[i]) + n
    BY <2>1, <1>1, <1>4, <1>10
  <2>5. \A a \in Used : Apart(a, b) /\ a # b
    <3>1. SUFFICES ASSUME NEW a \in Used PROVE Apart(a, b) /\ a # b
      OBVIOUS
    <3>2. b.chunk = i /\ b.off = AlignUp(last[i])
      BY <2>2
    <3>3. /\ AlignUp(last[i]) \in Nat /\ last[i] \in Nat /\ AlignUp(last[i]) >= last[i]
      BY <1>1, <1>4, <1>10
    <3>4. /\ a.off + a.size <= last[a.chunk]
          /\ a.off \in Nat /\ a.size \in Nat /\ a.size > 0
      BY <1>5
    <3>5. a.chunk = i => a.off + a.size <= b.off /\ a.off < b.off
      BY <3>2, <3>3, <3>4
    <3> QED
      BY <3>2, <3>5, <3>3 DEF Apart
  <2>6. Len(last) <= MaxChunks
    BY DEF IInv, Shape
  <2>7. heap' = {Chunk(j) : j \in 1 .. Len(last')}
                  \cup {Data(k) : k \in 1 .. Len(larges)} \cup got
    BY <2>1, <2>4, <1>9
  <2>8. /\ b \in Block /\ b.chunk = i /\ b.size = n
        /\ b.off >= Header /\ b.off % Alignment = 0 /\ b.off + n = last'[i]
    BY <2>2, <2>4, <1>2, <1>3, <1>4, <1>10 DEF Block
  <2>9. last'[i] >= last[i] /\ last'[i] \in Header .. ChunkSize
    BY <2>3, <2>4, <1>2, <1>3, <1>4, <1>10
  <2>11. /\ size' \in Nat
         /\ \A j \in 1 .. Len(last') : j # i => last'[j] = last[j]
    BY <2>1, <2>4, <1>1, <1>10
  <2>10. cur' \in 1 .. Len(last')
    BY <2>4, <1>6, <1>10
  <2> QED
    BY <2>4, <2>5, <2>6, <2>7, <2>8, <2>9, <2>10, <2>11, <1>6, <1>8, <1>10
    DEF CutResult
<1>11. CASE i = Len(last) + 1
  <2>1. /\ last' = Append(last, Header + n) /\ i <= MaxChunks
        /\ size' = size + ChunkSize + bytes
        /\ heap' = heap \cup got \cup {Chunk(i)}
    BY <1>1, <1>11 DEF Cut, FirstFit
  <2>2. b = [chunk |-> i, size |-> n, off |-> Header]
    BY <1>1, <1>11 DEF Place
  <2>3. last' \in Seq(Nat) /\ Len(last') = i /\ last'[i] = Header + n
        /\ \A j \in 1 .. Len(last) : last'[j] = last[j]
    BY <2>1, <1>1, <1>3, <1>11
  <2>4. \A a \in Used : Apart(a, b) /\ a # b
    BY <2>2, <1>1, <1>5, <1>11 DEF Apart
  <2>5. heap' = {Chunk(j) : j \in 1 .. Len(last')}
                  \cup {Data(k) : k \in 1 .. Len(larges)} \cup got
    <3>1. 1 .. Len(last') = 1 .. Len(last) \cup {i}
      BY <2>3, <1>1, <1>11
    <3> QED
      BY <3>1, <2>1, <1>9
  <2>6. b.off % Alignment = 0
    BY <2>2 DEF Header, Alignment
  <2>7. /\ b \in Block /\ b.chunk = i /\ b.size = n
        /\ b.off >= Header /\ b.off + n = last'[i]
    BY <2>2, <2>3, <1>1, <1>3, <1>11 DEF Block
  <2>8. last'[i] \in Header .. ChunkSize
    BY <2>3, <1>1, <1>3
  <2>12. size' \in Nat
    BY <2>1, <1>1, <1>3
  <2>9. \A j \in 1 .. Len(last') : j # i => j \in 1 .. Len(last) /\ last'[j] = last[j]
    BY <2>3, <1>1, <1>11
  <2>10. cur' \in 1 .. Len(last') /\ Len(last') <= MaxChunks
         /\ Len(last') >= Len(last) /\ ~(i <= Len(last))
    BY <2>1, <2>3, <1>1, <1>6, <1>11
  <2> QED
    BY <2>3, <2>4, <2>5, <2>6, <2>7, <2>8, <2>9, <2>10, <2>12, <1>6, <1>8
    DEF CutResult
<1>12. i \in 1 .. Len(last) \/ i = Len(last) + 1
  BY <1>1
<1> QED
  BY <1>10, <1>11, <1>12, Zenon
-----------------------------------------------------------------------------
LEMMA InitInv == Init => IInv
  BY DEF Init, IInv, TypeOK, Shape, Owned, BlocksInBounds, BlocksDisjoint,
         PassedIsFull, Used, Nodes, Block, Large

LEMMA BoundsKept ==
  ASSUME IInv, NEW b, NEW i, NEW n \in Nat, NEW got, CutResult(b, i, n, got),
         Used' = Used \cup {b}
  PROVE  BlocksInBounds'
<1>1. \A j \in 1 .. Len(last') : last'[j] \in Header .. ChunkSize
  BY DEF IInv, BlocksInBounds, CutResult
<1>2. ASSUME NEW a \in Used
      PROVE  /\ a.chunk \in 1 .. Len(last')
             /\ a.off >= Header /\ a.off % Alignment = 0
             /\ a.off + a.size <= last'[a.chunk]
  <2>1. /\ a.chunk \in 1 .. Len(last)
        /\ a.off \in Nat /\ a.off >= Header /\ a.off % Alignment = 0
        /\ a.size \in Nat
        /\ a.off + a.size <= last[a.chunk]
    BY UsedFacts
  <2>2. Len(last) \in Nat /\ Len(last') \in Nat
    BY DEF IInv, TypeOK, CutResult
  <2>3. a.chunk \in 1 .. Len(last')
    BY <2>1, <2>2 DEF CutResult
  <2>4. last[a.chunk] \in Nat /\ last'[a.chunk] \in Nat
    <3>1. last \in Seq(Nat) /\ last' \in Seq(Nat)
      BY DEF IInv, TypeOK, CutResult
    <3>2. /\ \A j \in 1 .. Len(last) : last[j] \in Nat
          /\ \A j \in 1 .. Len(last') : last'[j] \in Nat
      BY <3>1
    <3> QED
      BY <2>1, <2>3, <3>2
  <2>5. last'[a.chunk] >= last[a.chunk]
    <3>1. CASE a.chunk = i
      BY <3>1, <2>1, <2>2 DEF CutResult
    <3>2. CASE a.chunk # i
      <4>1. last'[a.chunk] = last[a.chunk]
        BY <3>2, <2>3 DEF CutResult
      <4> QED
        BY <4>1, <2>4
    <3> QED
      BY <3>1, <3>2
  <2> QED
    BY <2>1, <2>3, <2>4, <2>5
<1>3. /\ b.chunk \in 1 .. Len(last')
      /\ b.off >= Header /\ b.off % Alignment = 0
      /\ b.off + b.size <= last'[b.chunk]
  BY <1>1 DEF CutResult, Header
<1> QED
  BY <1>1, <1>2, <1>3 DEF BlocksInBounds

LEMMA PassedKept ==
  ASSUME IInv, NEW b, NEW i, NEW n \in Nat, NEW got, CutResult(b, i, n, got)
  PROVE  PassedIsFull'
<1>1. SUFFICES ASSUME cur' > 1
      PROVE (ChunkSize + SizeMod - AlignUp(last'[cur' - 1])) % SizeMod < Rmd
  BY DEF PassedIsFull, Left, AlignUp, Rmd
<1>2. cur' - 1 \in 1 .. Len(last') /\ cur' - 1 # i /\ Left(cur' - 1) < Rmd
  <2>1. cur' \in 1 .. Len(last') /\ last' \in Seq(Nat)
    BY DEF CutResult
  <2>2. cur' - 1 \in 1 .. Len(last')
    <3>1. Len(last') \in Nat
      BY <2>1
    <3>2. \A c \in 1 .. Len(last') : c > 1 => c - 1 \in 1 .. Len(last')
      BY <3>1
    <3> QED
      BY <1>1, <2>1, <3>2
  <2> QED
    BY <1>1, <2>2 DEF CutResult
<1>3. last'[cur' - 1] = last[cur' - 1]
  BY <1>2 DEF CutResult
<1> QED
  BY <1>2, <1>3 DEF Left

\* A call that gives the client a block.
LEMMA AllocSmallInv ==
  ASSUME IInv, NEW n \in Sizes, AllocSmall(n)
  PROVE  IInv' /\ live' # live
<1> USE DEF IInv
<1>1. PICK i \in 1 .. Len(last) + 1 : Cut(i, n, {}, 0) /\ live' = live \cup {Place(i, n)}
  BY DEF AllocSmall
<1>2. /\ pc = "ready" /\ n <= ChunkSize - Header /\ n \in Nat \ {0}
      /\ pc' = pc /\ larges' = larges /\ walk' = walk
  BY DEF AllocSmall, Small
<1> DEFINE b == Place(i, n)
<1>3. CutResult(b, i, n, {})
  BY <1>1, <1>2, CutFacts
<1> HIDE DEF b
<1>4. Nodes' = Nodes /\ Used' = Used \cup {b}
  BY <1>1, <1>2 DEF Nodes, Used, b
<1> USE <1>3
<1>5. TypeOK'
  <2>1. cur' \in Nat /\ live' \subseteq Block
    BY <1>1 DEF TypeOK, CutResult, b
  <2>2. heap' \subseteq {Chunk(j) : j \in 1 .. MaxChunks} \cup {Data(k) : k \in 1 .. MaxLarges}
    <3>1. 1 .. Len(last') \subseteq 1 .. MaxChunks
      BY DEF CutResult
    <3>2. 1 .. Len(larges) \subseteq 1 .. MaxLarges
      BY DEF Shape
    <3> QED
      BY <3>1, <3>2 DEF CutResult
  <2> QED
    BY <1>2, <2>1, <2>2 DEF TypeOK, CutResult
<1>6. Shape'
  BY <1>2, <1>4 DEF Shape, CutResult
<1>7. Owned'
  BY <1>2 DEF Owned, CutResult
<1>8. BlocksInBounds'
  BY <1>4, BoundsKept
<1>9. BlocksDisjoint'
  BY <1>1, <1>2, <1>4 DEF BlocksDisjoint, Apart, Used, CutResult, b
<1>10. PassedIsFull'
  BY <1>2, PassedKept
<1>11. live' # live
  BY <1>1 DEF Used, CutResult, b
<1> QED
  BY <1>5, <1>6, <1>7, <1>8, <1>9, <1>10, <1>11
\* A call that malloc serves, for which a list node is cut from the chunks.
LEMMA AllocLargeInv ==
  ASSUME IInv, NEW n \in Sizes, AllocLarge(n)
  PROVE  IInv'
<1> USE DEF IInv
<1> DEFINE top == Len(larges) + 1
<1>1. PICK i \in 1 .. Len(last) + 1 :
        /\ Cut(i, NodeSize, {Data(top)}, n)
        /\ larges' = Append(larges, [node |-> Place(i, NodeSize), size |-> n])
  BY DEF AllocLarge
<1>2. /\ pc = "ready" /\ n \in Nat /\ Len(larges) < MaxLarges
      /\ pc' = pc /\ live' = live /\ walk' = walk
  BY DEF AllocLarge
<1>3. larges \in Seq(Large) /\ Len(larges) \in Nat
  BY DEF TypeOK
<1> DEFINE b == Place(i, NodeSize)
           new == [node |-> b, size |-> n]
<1>4. CutResult(b, i, NodeSize, {Data(top)})
  <2>1. NodeSize \in Nat \ {0} /\ NodeSize <= ChunkSize - Header
    BY DEF NodeSize, Header
  <2> QED
    BY <1>1, <1>2, <2>1, CutFacts
<1>5. b \in Block /\ new \in Large /\ new.node = b
  BY <1>2, <1>4 DEF CutResult, Large
<1> HIDE DEF b, new
<1>6. /\ larges' \in Seq(Large) /\ Len(larges') = top
      /\ \A k \in 1 .. Len(larges) : larges'[k] = larges[k]
      /\ larges'[top] = new
  BY <1>1, <1>3, <1>5 DEF b, new
<1>7. 1 .. Len(larges') = 1 .. Len(larges) \cup {top}
  BY <1>3, <1>6
<1>8. Nodes' = Nodes \cup {b}
  <2>1. Nodes' = {larges'[k].node : k \in 1 .. Len(larges) \cup {top}}
    BY <1>7 DEF Nodes
  <2>2. {larges'[k].node : k \in 1 .. Len(larges)} = Nodes
    BY <1>6 DEF Nodes
  <2>3. larges'[top].node = b
    BY <1>5, <1>6
  <2> QED
    BY <2>1, <2>2, <2>3
<1>9. Used' = Used \cup {b}
  BY <1>2, <1>8 DEF Used
<1>10. TypeOK'
  <2>1. 1 .. Len(last') \subseteq 1 .. MaxChunks /\ 1 .. Len(larges') \subseteq 1 .. MaxLarges
    <3>1. Len(last') <= MaxChunks /\ last' \in Seq(Nat)
      BY <1>4 DEF CutResult
    <3>2. Len(last') \in Nat
      BY <3>1
    <3>3. Len(larges') <= MaxLarges
      BY <1>2, <1>3, <1>6
    <3> QED
      BY <3>1, <3>2, <3>3, <1>3, <1>6
  <2>2. heap' \subseteq {Chunk(j) : j \in 1 .. MaxChunks} \cup {Data(k) : k \in 1 .. MaxLarges}
    BY <2>1, <1>4, <1>7 DEF CutResult
  <2>3. last' \in Seq(Nat) /\ cur' \in Nat /\ size' \in Nat
    BY <1>4 DEF CutResult
  <2> QED
    BY <1>2, <1>6, <2>2, <2>3 DEF TypeOK
<1>11. Shape'
  <2>1. Len(larges') <= MaxLarges
    BY <1>2, <1>3, <1>6
  <2>2. \A a \in Used' : a.size > 0
    <3>1. b.size = NodeSize /\ NodeSize > 0
      BY <1>4 DEF CutResult, NodeSize
    <3>2. \A a \in Used : a.size > 0
      BY <1>2 DEF Shape
    <3> QED
      BY <3>1, <3>2, <1>9
  <2> QED
    BY <1>2, <1>4, <2>1, <2>2 DEF Shape, CutResult
<1>12. Owned'
  <2>1. heap' = {Chunk(j) : j \in 1 .. Len(last')}
                  \cup {Data(k) : k \in 1 .. Len(larges)} \cup {Data(top)}
    BY <1>4 DEF CutResult
  <2>2. {Data(k) : k \in 1 .. Len(larges')}
          = {Data(k) : k \in 1 .. Len(larges)} \cup {Data(top)}
    BY <1>7
  <2> QED
    BY <1>2, <2>1, <2>2 DEF Owned
<1>13. BlocksInBounds'
  BY <1>4, <1>9, BoundsKept DEF NodeSize
<1>14. BlocksDisjoint'
  <2>1. \A a \in Used : Apart(a, b) /\ Apart(b, a)
    BY <1>4 DEF CutResult, Apart
  <2>2. \A a, c \in live' : a # c => Apart(a, c)
    BY <1>2 DEF BlocksDisjoint
  <2>3. \A a \in live', c \in Nodes' : Apart(a, c)
    BY <1>2, <1>8, <2>1 DEF BlocksDisjoint, Used
  <2>4. \A k \in 1 .. Len(larges) : larges[k].node \in Used
    BY DEF Used, Nodes
  <2>5. \A k, l \in 1 .. Len(larges') :
          k # l => Apart(larges'[k].node, larges'[l].node)
    BY <1>5, <1>6, <1>7, <2>1, <2>4 DEF BlocksDisjoint
  <2> QED
    BY <2>2, <2>3, <2>5 DEF BlocksDisjoint, Apart
<1>15. PassedIsFull'
  BY <1>4, PassedKept DEF NodeSize
<1> QED
  BY <1>10, <1>11, <1>12, <1>13, <1>14, <1>15

\* A call that fails because a chunk is refused moves cur, and nothing else.
LEMMA CutFailsInv ==
  ASSUME IInv, pc = "ready", NEW n \in Nat, CutFails(n),
         UNCHANGED <<pc, larges, live, walk>>
  PROVE  IInv'
<1> USE DEF IInv
<1>1. PICK c \in 1 .. Len(last) : IsCursor(c, Len(last)) /\ cur' = c
  BY DEF CutFails
<1>2. UNCHANGED <<pc, last, larges, size, heap, live, walk>>
  BY DEF CutFails
<1>3. last \in Seq(Nat) /\ Len(last) \in Nat /\ cur \in 1 .. Len(last)
  BY DEF TypeOK, Shape
<1>4. Used' = Used /\ Nodes' = Nodes
  BY <1>2 DEF Used, Nodes
<1>5. TypeOK' /\ Shape' /\ Owned'
  <2>1. cur' \in Nat /\ cur' \in 1 .. Len(last')
    BY <1>1, <1>2, <1>3
  <2>2. TypeOK'
    BY <1>2, <2>1 DEF TypeOK
  <2>3. Shape'
    BY <1>2, <1>4, <2>1 DEF Shape
  <2>4. Owned'
    BY <1>2 DEF Owned
  <2> QED
    BY <2>2, <2>3, <2>4
<1>6. BlocksInBounds' /\ BlocksDisjoint'
  BY <1>2, <1>4 DEF BlocksInBounds, BlocksDisjoint, Apart
<1>7. PassedIsFull'
  <2>1. c > 1 => Left(c - 1) < Rmd
    BY <1>1, <1>3 DEF IsCursor, PassedIsFull
  <2> QED
    BY <1>1, <1>2, <2>1 DEF PassedIsFull, Left
<1> QED
  BY <1>5, <1>6, <1>7
\* pool_free lowers last to the start of the block that ends there: every other
\* block of the chunk lies below it.
LEMMA FreeInv ==
  ASSUME IInv, NEW b \in live, Free(b)
  PROVE  IInv'
<1> USE DEF IInv
<1>1. /\ pc = "ready" /\ live' = live \ {b}
      /\ UNCHANGED <<pc, cur, larges, size, heap, walk>>
  BY DEF Free
<1>2. Nodes' = Nodes /\ Used' \subseteq Used /\ b \in Used
  BY <1>1 DEF Nodes, Used
<1>3. last \in Seq(Nat) /\ Len(last) \in Nat /\ cur \in 1 .. Len(last)
  BY <1>1 DEF TypeOK, Shape
<1>4. CASE UNCHANGED last
  <2>1. TypeOK' /\ Shape' /\ Owned' /\ PassedIsFull'
    BY <1>1, <1>2, <1>4 DEF TypeOK, Shape, Owned, PassedIsFull, Left
  <2>2. BlocksInBounds' /\ BlocksDisjoint'
    BY <1>1, <1>2, <1>4 DEF BlocksInBounds, BlocksDisjoint, Apart
  <2> QED
    BY <2>1, <2>2
<1>5. CASE /\ b.chunk = cur /\ last[cur] = b.off + b.size
           /\ last' = [last EXCEPT ![cur] = b.off]
  <2>1. /\ b.off \in Nat /\ b.off >= Header
        /\ b.size \in Nat /\ b.off + b.size <= last[cur]
    BY <1>2, <1>5, UsedFacts
  <2>2. /\ last' \in Seq(Nat) /\ Len(last') = Len(last) /\ last'[cur] = b.off
        /\ \A j \in 1 .. Len(last) : j # cur => last'[j] = last[j]
    BY <1>3, <1>5, <2>1
  <2>3. \A i \in 1 .. Len(last) : last[i] \in Header .. ChunkSize
    BY DEF BlocksInBounds
  <2>4. \A i \in 1 .. Len(last') : last'[i] \in Header .. ChunkSize
    <3>1. last[cur] \in Header .. ChunkSize
      BY <1>3, <2>3
    <3>2. b.off \in Header .. ChunkSize
      BY <3>1, <2>1 DEF Header
    <3> QED
      BY <1>3, <2>2, <2>3, <3>2
  <2>5. ASSUME NEW a \in Used' PROVE a \in Used /\ Apart(a, b)
    <3>1. a \in Used
      BY <1>2
    <3>2. CASE a \in live
      BY <3>2, <1>1, <2>5, <3>1 DEF BlocksDisjoint, Used, Nodes, Apart
    <3>3. CASE a \in Nodes
      BY <3>3, <3>1 DEF BlocksDisjoint, Apart
    <3> QED
      BY <3>1, <3>2, <3>3 DEF Used
  <2>6. ASSUME NEW a \in Used'
        PROVE  /\ a.chunk \in 1 .. Len(last')
               /\ a.off >= Header /\ a.off % Alignment = 0
               /\ a.off + a.size <= last'[a.chunk]
    <3>1. /\ a.chunk \in 1 .. Len(last)
          /\ a.off \in Nat /\ a.off >= Header /\ a.off % Alignment = 0
          /\ a.size \in Nat /\ a.size > 0
          /\ a.off + a.size <= last[a.chunk]
      BY <2>5, UsedFacts
    <3>2. CASE a.chunk = cur
      <4>1. a.off + a.size <= b.off \/ b.off + b.size <= a.off
        BY <3>2, <1>5, <2>5 DEF Apart
      <4>2. a.off + a.size <= b.off + b.size
        BY <3>1, <3>2, <1>5
      <4>3. a.off + a.size <= b.off
        BY <4>1, <4>2, <3>1, <2>1
      <4> QED
        BY <4>3, <3>1, <3>2, <2>2
    <3>3. CASE a.chunk # cur
      BY <3>1, <3>3, <2>2
    <3> QED
      BY <3>2, <3>3
  <2>7. BlocksInBounds'
    BY <2>4, <2>6 DEF BlocksInBounds
  <2>8. BlocksDisjoint'
    BY <1>1, <1>2 DEF BlocksDisjoint, Apart
  <2>9. PassedIsFull'
    <3>1. cur > 1 => last'[cur - 1] = last[cur - 1]
      <4>1. cur > 1 => cur - 1 \in 1 .. Len(last) /\ cur - 1 # cur
        BY <1>3
      <4> QED
        BY <4>1, <2>2, Zenon
    <3> QED
      BY <3>1, <1>1 DEF PassedIsFull, Left
  <2>10. TypeOK'
    BY <1>1, <2>2 DEF TypeOK
  <2>11. Shape' /\ Owned'
    BY <1>1, <1>2, <2>2 DEF Shape, Owned
  <2> QED
    BY <2>7, <2>8, <2>9, <2>10, <2>11
<1> QED
  BY <1>4, <1>5 DEF Free

LEMMA DeleteInv ==
  ASSUME IInv, New \/ Delete \/ FreeLarge \/ FreeLargesEnd \/ FreeChunk
  PROVE  IInv'
<1> USE DEF IInv
<1>1. CASE New
  <2>1. Nodes' = {} /\ live' = {} /\ Used' = {}
    BY <1>1 DEF New, Nodes, Used, Shape
  <2>2. ChunkSize \in Nat /\ ChunkSize >= Header
    BY DEF Header, NodeSize
  <2>3. last' \in Seq(Nat) /\ Len(last') = 1 /\ last'[1] = Header /\ Header \in Nat
    BY <1>1 DEF New, Header
  <2>4. larges' = <<>> /\ larges' \in Seq(Large) /\ Len(larges') = 0
    BY <1>1 DEF New
  <2>5. 1 \in 1 .. MaxChunks
    OBVIOUS
  <2>6. TypeOK'
    BY <1>1, <2>1, <2>2, <2>3, <2>4, <2>5 DEF New, TypeOK
  <2>7. Shape' /\ Owned'
    BY <1>1, <2>1, <2>3, <2>4, <2>5 DEF New, Shape, Owned
  <2>8. BlocksInBounds' /\ BlocksDisjoint' /\ PassedIsFull'
    BY <1>1, <2>1, <2>2, <2>3, <2>4 DEF New, BlocksInBounds, BlocksDisjoint, PassedIsFull
  <2> QED
    BY <2>6, <2>7, <2>8
<1>2. CASE Delete
  <2>1. Nodes' = Nodes /\ Used' \subseteq Used
    BY <1>2 DEF Delete, Nodes, Used
  <2>2. Len(larges) \in Nat
    BY DEF TypeOK
  <2>3. TypeOK'
    BY <1>2, <2>2 DEF Delete, TypeOK
  <2>4. Shape'
    BY <1>2, <2>1 DEF Delete, Shape
  <2>5. Owned'
    BY <1>2, <2>2 DEF Delete, Owned
  <2>6. BlocksInBounds' /\ BlocksDisjoint' /\ PassedIsFull'
    BY <1>2, <2>1 DEF Delete, BlocksInBounds, BlocksDisjoint, PassedIsFull, Apart
  <2> QED
    BY <2>3, <2>4, <2>5, <2>6
<1>3. CASE FreeLarge
  <2>1. Nodes' = Nodes /\ Used' = Used
    BY <1>3 DEF FreeLarge, Nodes, Used
  <2>2. /\ walk \in 1 .. Len(larges) /\ walk' = walk - 1
        /\ walk' \in 0 .. Len(larges)
        /\ 1 .. walk' = 1 .. walk \ {walk}
    BY <1>3 DEF FreeLarge, TypeOK, Owned
  <2>3. heap' = {Chunk(i) : i \in 1 .. Len(last)} \cup {Data(k) : k \in 1 .. walk'}
    BY <1>3, <2>2 DEF FreeLarge, Owned, Chunk, Data
  <2>4. TypeOK' /\ Shape' /\ Owned'
    <3>1. TypeOK'
      BY <1>3, <2>2 DEF FreeLarge, TypeOK
    <3>2. Shape'
      BY <1>3, <2>1 DEF FreeLarge, Shape
    <3>3. Owned'
      BY <1>3, <2>2, <2>3 DEF FreeLarge, Owned
    <3> QED
      BY <3>1, <3>2, <3>3
  <2> QED
    BY <1>3, <2>1, <2>4 DEF FreeLarge, BlocksInBounds, BlocksDisjoint, PassedIsFull, Apart
<1>4. CASE FreeLargesEnd
  <2>1. Nodes' = Nodes /\ Used' = Used
    BY <1>4 DEF FreeLargesEnd, Nodes, Used
  <2>2. heap = {Chunk(i) : i \in 1 .. Len(last)}
    BY <1>4 DEF FreeLargesEnd, Owned
  <2>3. walk' = 1 /\ 1 \in 1 .. Len(last)
    BY <1>4 DEF FreeLargesEnd, Shape, TypeOK
  <2>4. TypeOK'
    BY <1>4, <2>3 DEF FreeLargesEnd, TypeOK
  <2>5. Shape'
    BY <1>4, <2>1 DEF FreeLargesEnd, Shape
  <2>6. Owned'
    BY <1>4, <2>2, <2>3 DEF FreeLargesEnd, Owned
  <2>7. last' = last /\ larges' = larges /\ live' = live /\ pc' # "ready"
    BY <1>4 DEF FreeLargesEnd
  <2>8. BlocksInBounds'
    BY <2>1, <2>7 DEF BlocksInBounds
  <2>9. BlocksDisjoint'
    BY <2>1, <2>7 DEF BlocksDisjoint, Apart
  <2> QED
    BY <2>4, <2>5, <2>6, <2>7, <2>8, <2>9 DEF PassedIsFull
<1>5. CASE FreeChunk
  <2>1. /\ walk \in 1 .. Len(last) /\ Len(last) \in Nat /\ live' = {} /\ live = {}
        /\ heap = {Chunk(i) : i \in walk .. Len(last)}
        /\ heap' = heap \ {Chunk(walk)}
    <3>1. pc = "chunks" /\ heap' = heap \ {Chunk(walk)} /\ live' = live
      BY <1>5 DEF FreeChunk
    <3>2. Len(last) \in Nat
      BY DEF TypeOK
    <3>3. live = {}
      BY <3>1 DEF Shape
    <3>4. walk \in 1 .. Len(last) /\ heap = {Chunk(i) : i \in walk .. Len(last)}
      BY <3>1 DEF Owned
    <3> QED
      BY <3>1, <3>2, <3>3, <3>4
  <2>2. CASE walk < Len(last)
    <3>1. /\ walk' = walk + 1 /\ walk' \in 1 .. Len(last)
          /\ walk' .. Len(last) = walk .. Len(last) \ {walk}
          /\ UNCHANGED <<pc, last, cur, larges, size>>
      BY <1>5, <2>1, <2>2 DEF FreeChunk
    <3>2. heap' = {Chunk(i) : i \in walk' .. Len(last)}
      BY <2>1, <3>1 DEF Chunk
    <3>3. Nodes' = Nodes /\ Used' = Used
      BY <2>1, <3>1 DEF Nodes, Used
    <3>4. TypeOK' /\ Shape' /\ Owned'
      <4>1. TypeOK'
        <5>1. heap' \subseteq heap /\ walk' \in Nat /\ live' \subseteq Block
          BY <2>1, <3>1
        <5> QED
          BY <3>1, <5>1 DEF TypeOK
      <4>2. Shape'
        BY <1>5, <2>1, <3>1, <3>3 DEF FreeChunk, Shape
      <4>3. Owned'
        BY <1>5, <2>1, <3>1, <3>2 DEF FreeChunk, Owned
      <4> QED
        BY <4>1, <4>2, <4>3
    <3> QED
      BY <1>5, <2>1, <3>1, <3>3, <3>4
      DEF FreeChunk, BlocksInBounds, BlocksDisjoint, PassedIsFull, Apart
  <2>3. CASE ~(walk < Len(last))
    <3>1. /\ pc' = "none" /\ last' = <<>> /\ larges' = <<>> /\ walk' = 0
          /\ cur' = 0 /\ size' = 0
      BY <1>5, <2>3 DEF FreeChunk
    <3>2. heap' = {}
      <4>1. walk .. Len(last) = {walk}
        BY <2>1, <2>3
      <4> QED
        BY <2>1, <4>1
    <3>3. Nodes' = {} /\ Used' = {} /\ Len(last') = 0 /\ Len(larges') = 0
      BY <2>1, <3>1 DEF Nodes, Used
    <3> QED
      <4>1. TypeOK'
        <5>1. last' \in Seq(Nat) /\ larges' \in Seq(Large)
          BY <3>1
        <5> QED
          BY <2>1, <3>1, <3>2, <5>1 DEF TypeOK
      <4>2. Shape'
        <5>1. Len(last') <= MaxChunks /\ Len(larges') <= MaxLarges
          BY <3>3
        <5>2. \A a \in Used' : a.size > 0
          BY <3>3
        <5> QED
          BY <2>1, <3>1, <3>2, <5>1, <5>2 DEF Shape
      <4>4. Owned'
        BY <3>1 DEF Owned
      <4>3. BlocksInBounds' /\ BlocksDisjoint' /\ PassedIsFull'
        BY <2>1, <3>1, <3>3 DEF BlocksInBounds, BlocksDisjoint, PassedIsFull
      <4> QED
        BY <4>1, <4>2, <4>3, <4>4
  <2> QED
    BY <2>2, <2>3
<1> QED
  BY <1>1, <1>2, <1>3, <1>4, <1>5
LEMMA NextInv == IInv /\ [Next]_vars => IInv'
<1> SUFFICES ASSUME IInv, [Next]_vars PROVE IInv'
  OBVIOUS
<1>1. ASSUME NEW n \in Sizes, AllocSmallFails(n) PROVE IInv'
  <2>1. pc = "ready" /\ n \in Nat /\ CutFails(n) /\ UNCHANGED <<pc, larges, live, walk>>
    BY <1>1 DEF AllocSmallFails
  <2> QED
    BY <2>1, CutFailsInv
<1>2. ASSUME NEW n \in Sizes, AllocLargeFails(n) PROVE IInv'
  <2>1. /\ pc = "ready" /\ NodeSize \in Nat /\ CutFails(NodeSize)
        /\ UNCHANGED <<pc, larges, live, walk>>
    BY <1>2 DEF AllocLargeFails, NodeSize
  <2> QED
    BY <2>1, CutFailsInv
<1>3. CASE UNCHANGED vars
  <2>1. Used' = Used /\ Nodes' = Nodes
    BY <1>3 DEF vars, Used, Nodes
  <2> QED
    <3>1. TypeOK' /\ PassedIsFull'
      BY <1>3 DEF vars, IInv, TypeOK, PassedIsFull, Left
    <3>2. Shape' /\ Owned'
      BY <1>3, <2>1 DEF vars, IInv, Shape, Owned
    <3>3. BlocksInBounds' /\ BlocksDisjoint'
      BY <1>3, <2>1 DEF vars, IInv, BlocksInBounds, BlocksDisjoint, Apart
    <3> QED
      BY <3>1, <3>2, <3>3 DEF IInv
<1> QED
  BY <1>1, <1>2, <1>3, AllocSmallInv, AllocLargeInv, FreeInv, DeleteInv DEF Next, Alloc

LEMMA Invariance == Spec => []IInv
  BY InitInv, NextInv, PTL DEF Spec

\* Every variable keeps its type.
THEOREM TypeCorrect == Spec => []TypeOK
  BY Invariance, PTL DEF IInv

\* Whatever is allocated and freed, every block lies on a boundary inside the
\* used part of its chunk, and the used part inside the chunk.
THEOREM InBounds == Spec => []BlocksInBounds
  BY Invariance, PTL DEF IInv

\* Two blocks in use never share a byte, and neither do a block and a node of
\* the list of large blocks.
THEOREM Disjoint == Spec => []BlocksDisjoint
  BY Invariance, PTL DEF IInv

\* pool_alloc does not hand out a block that the client still holds.
THEOREM Issued == Spec => IssuedOnce
<1>1. IInv /\ [Next]_vars => [\A n \in Sizes : AllocSmall(n) => live' # live]_vars
  BY AllocSmallInv
<1> QED
  BY <1>1, Invariance, PTL DEF Spec, IssuedOnce

\* cur never passes by a chunk with rmd bytes left that it has just stood at.
THEOREM Passed == Spec => []PassedIsFull
  BY Invariance, PTL DEF IInv

\* pool_delete reads no list node in a chunk it has freed, and frees nothing
\* twice.
THEOREM DeleteReadsHeap == Spec => []WalkReadsHeap
<1>1. IInv => WalkReadsHeap
  <2> SUFFICES ASSUME IInv PROVE WalkReadsHeap
    OBVIOUS
  <2>1. ASSUME pc = "larges", NEW k \in 1 .. walk
        PROVE  Chunk(larges[k].node.chunk) \in heap /\ Data(k) \in heap
    <3>1. k \in 1 .. Len(larges)
      BY <2>1 DEF IInv, TypeOK, Owned
    <3>2. larges[k].node.chunk \in 1 .. Len(last)
      BY <3>1, UsedFacts DEF Used, Nodes
    <3> QED
      BY <2>1, <3>2 DEF IInv, Owned
  <2> QED
    BY <2>1 DEF IInv, Owned, WalkReadsHeap
<1> QED
  BY <1>1, Invariance, PTL

\* pool_delete leaves nothing behind.
THEOREM NoLeak == Spec => []NothingLeaks
<1>1. IInv => NothingLeaks
  BY DEF IInv, Shape, NothingLeaks
<1> QED
  BY <1>1, Invariance, PTL
=============================================================================
