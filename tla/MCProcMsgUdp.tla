---------------------------- MODULE MCProcMsgUdp ----------------------------
(* Instances of ProcMsgUdp for TLC.                                         *)
EXTENDS ProcMsgUdp, TLC

Symmetry == Permutations(Obj)

\* Once an object is closed that was not open, nothing is said of descriptors any
\* more; of an object that is moved, or has two handlers, little is said.  The
\* first ends the exploration, and there is one of the others at a time.
Promised ==
  /\ odd = {}
  /\ Cardinality(moved) <= 1
  /\ moved = {} \/ \A o \in Obj : OneHandler(o)

\* A bound: only the first datagram is sent to an address nobody has written.
StrayFirst == net # {} => \A d \in net' \ net : Peer(d.by) # None
=============================================================================
