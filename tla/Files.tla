-------------------------------- MODULE Files --------------------------------
(***************************************************************************)
(* What logger.c, proc.c and file.c use of the kernel: processes of two    *)
(* threads each, and the descriptors that the threads of one share.  A     *)
(* descriptor stands for one of a few files: the terminal, /dev/null, the  *)
(* log, the pid file, the source and the target of a copy.                 *)
(***************************************************************************)
EXTENDS Integers, Sequences, FiniteSets, FiniteSetsExt

CONSTANTS
  Proc, NoProc,   \* process ids; nobody
  MaxFd,          \* the last descriptor that a process may have
  MaxCalls        \* bound: calls of the library

ASSUME FilesAssumption ==
  /\ NoProc \notin Proc /\ IsFiniteSet(Proc)
  /\ MaxFd \in Nat /\ MaxFd >= 2 /\ MaxCalls \in Nat

Thread  == Proc \X {"main", "worker"}
P(t)    == t[1]
Main(t) == t[2] = "main"

Fd     == 0 .. MaxFd
Stdio  == 0 .. 2
Closed == "closed"

VARIABLES
  born, up,   \* processes that have been started; those that run
  desc,       \* the descriptors of each process: the file, or Closed
  pc,         \* where each thread is; "none" if it does not exist
  local,      \* what the call a thread is in has opened (fds) and read so far
  calls,      \* calls of the library made so far
  stdio,      \* history: processes that were started with descriptors 0, 1 and 2
  leak        \* history: processes where a call has left descriptors behind

files == <<born, up, desc, pc, local, calls, stdio, leak>>

NoCall == [fds |-> {}]

\* Instances of the program are started from outside, with the standard
\* descriptors or without the first of them.
FilesInit ==
  /\ born \in SUBSET Proc \ {{}} /\ up = born
  /\ stdio \in SUBSET born
  /\ desc = [p \in Proc |-> [f \in Fd |->
               IF p \in born /\ f \in Stdio /\ (f # 0 \/ p \in stdio) THEN "tty" ELSE Closed]]
  /\ pc = [t \in Thread |-> IF P(t) \in born THEN "idle" ELSE "none"]
  /\ local = [t \in Thread |-> NoCall]
  /\ calls = 0
  /\ leak = {}

Set(f, a, v) == [f EXCEPT ![a] = v]

\* open takes the lowest descriptor.
FreeFd(p)        == {f \in Fd : desc[p][f] = Closed}
LowestFd(p)      == Min(FreeFd(p))
Opening(p, file) == [desc EXCEPT ![p][LowestFd(p)] = file]
Closing(p, S)    == [desc EXCEPT ![p] = [f \in Fd |-> IF f \in S THEN Closed ELSE desc[p][f]]]

\* A thread calls the library, or goes on with the call it is in.
Begin(t, l, c) ==
  /\ pc[t] = "idle" /\ calls < MaxCalls
  /\ calls' = calls + 1
  /\ pc' = Set(pc, t, l) /\ local' = Set(local, t, c)
  /\ UNCHANGED <<born, up, stdio>>

Resume(t, from, l, c) ==
  /\ pc[t] = from
  /\ pc' = Set(pc, t, l) /\ local' = Set(local, t, c)
  /\ UNCHANGED <<born, up, calls, stdio>>

\* Threads of the process of t other than t that are at one of the places in L.
Others(t, L) == {u \in Thread : P(u) = P(t) /\ u # t /\ pc[u] \in L}

\* The process exits or is killed.
Ends(p) ==
  /\ up' = up \ {p}
  /\ desc' = Set(desc, p, [f \in Fd |-> Closed])
  /\ pc' = [t \in Thread |-> IF P(t) = p THEN "none" ELSE pc[t]]
  /\ local' = [t \in Thread |-> IF P(t) = p THEN NoCall ELSE local[t]]
  /\ UNCHANGED <<born, calls, stdio, leak>>
=============================================================================
