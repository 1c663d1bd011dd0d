------------------------------ MODULE MCDaemon ------------------------------
(* Instances of Daemon for TLC.                                             *)
EXTENDS Daemon, TLC

CONSTANTS p1, p2

Symmetry == Permutations(Proc)

\* Nobody reads the log of a process that has ended.
View == <<files, now, raced, foreign, proc, to, [p \in up |-> log[p]]>>

\* Runs stop where a call has left descriptors behind, two threads were in one
\* log or copied to the target at once, or ids of different lengths were saved at
\* once.  Workers copy and log, main threads do everything else; the instances
\* are all started with descriptor 0, or all without; some id has one digit.
Promised ==
  /\ leak = {} /\ raced = {} /\ ~clash
  /\ \A t \in InCopy : ~local[t].shared
  /\ stdio \in {{}, born}
  /\ \E p \in Proc : digits[p] = 1
  /\ \A t \in Thread : Main(t) => pc[t] # "creat"
=============================================================================
