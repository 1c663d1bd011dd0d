--------------------------- MODULE MCProcMsgQueue ---------------------------
(***************************************************************************)
(* Two processes. In one run the queue is made, removed and made again,    *)
(* on two inodes in turn, and holds all that is sent, so that a handler    *)
(* picks from the middle of it; in the other it has room for one message,  *)
(* so that senders block, and the messages grow old.                       *)
(***************************************************************************)
EXTENDS ProcMsgQueue, TLC

Symmetry == Permutations(Proc) \cup Permutations(Inodes)
=============================================================================
