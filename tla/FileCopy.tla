------------------------------ MODULE FileCopy ------------------------------
(***************************************************************************)
(* file_copy of file.c: a file is copied block by block, between threads   *)
(* that may copy to the same target.  The source does not change.          *)
(***************************************************************************)
EXTENDS Files

CONSTANT Blocks    \* of the source

ASSUME CopyAssumption == Blocks \in Nat

VARIABLE to    \* the target: its blocks; 0 for a hole

From == [i \in 1 .. Blocks |-> i]

\* While it copies, a thread has fds, the number of blocks it has read and
\* written, and two histories: whether a read has failed, and whether another
\* thread was copying at the same time.
NewCopy(fds) == [fds |-> fds, read |-> 0, written |-> 0, failed |-> FALSE, shared |-> FALSE]

CopyInit == to = <<>>

InCopy == {t \in Thread : pc[t] \in {"read", "copy_write", "copied"}}

\* open of the source; if it fails nothing has changed.
CopyOpen(t) ==
  /\ FreeFd(P(t)) # {}
  /\ Begin(t, "creat", NewCopy({LowestFd(P(t))}))
  /\ desc' = Opening(P(t), "from")
  /\ UNCHANGED <<leak, to>>

\* creat empties the target, whoever is writing to it.
Creat(t) ==
  /\ pc[t] = "creat" /\ FreeFd(P(t)) # {}
  /\ desc' = Opening(P(t), "to")
  /\ to' = <<>>
  /\ local' = [u \in Thread |->
       IF u = t THEN [local[t] EXCEPT !.fds = @ \cup {LowestFd(P(t))}, !.shared = InCopy # {}]
       ELSE IF u \in InCopy THEN [local[u] EXCEPT !.shared = TRUE] ELSE local[u]]
  /\ pc' = Set(pc, t, "read")
  /\ UNCHANGED <<born, up, calls, stdio, leak>>

\* Variant: the last block is not read.
MoreThanOne(t) == local[t].read + 1 < Blocks

More(t) == local[t].read < Blocks

\* read: a block, the end of the file, or an error, which is taken for the end.
CopyRead(t) ==
  /\ \/ Resume(t, "read", "copy_write", [local[t] EXCEPT !.read = @ + 1]) /\ More(t)
     \/ Resume(t, "read", "copied", local[t]) /\ ~More(t)
     \/ Resume(t, "read", "copied", [local[t] EXCEPT !.failed = TRUE])
  /\ UNCHANGED <<desc, leak, to>>

\* A sequence with v at place i, after holes if it was shorter.
Written(s, i, v) ==
  [j \in 1 .. Max({Len(s), i}) |-> IF j = i THEN v ELSE IF j <= Len(s) THEN s[j] ELSE 0]

\* write puts the block where the descriptor stands.
CopyWrite(t) ==
  /\ Resume(t, "copy_write", "read", [local[t] EXCEPT !.written = @ + 1])
  /\ to' = Written(to, local[t].written + 1, local[t].read)
  /\ UNCHANGED <<desc, leak>>

\* creat or write fails: back to the caller with -1, and the descriptors open.
Abandon(t) ==
  /\ \E l \in {"creat", "copy_write"} : Resume(t, l, "idle", NoCall)
  /\ leak' = leak \cup {P(t)}
  /\ UNCHANGED <<desc, to>>

\* Variant: the source stays open.
ToCloseLast(t) == {Max(local[t].fds)}

ToClose(t) == local[t].fds

\* Both are closed, and the call returns 0.
CopyClose(t) ==
  /\ Resume(t, "copied", "idle", NoCall)
  /\ desc' = Closing(P(t), ToClose(t))
  /\ UNCHANGED <<leak, to>>

Copying(t) ==
  CopyOpen(t) \/ Creat(t) \/ CopyRead(t) \/ CopyWrite(t) \/ Abandon(t) \/ CopyClose(t)
-----------------------------------------------------------------------------
\* A copy that is reported as made is the source, unless a read has failed or
\* another thread was copying to the target at the same time.
CopyWhole ==
  \A t \in Thread :
    pc[t] = "copied" /\ ~local[t].failed /\ ~local[t].shared => to = From
=============================================================================
