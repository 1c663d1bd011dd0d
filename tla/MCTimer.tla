------------------------------ MODULE MCTimer -------------------------------
(***************************************************************************)
(* Two or three timers on as few descriptors, so that a timer that is      *)
(* started gets the descriptor, and the memory, of one that was stopped.   *)
(***************************************************************************)
EXTENDS Timer

\* A race is never undone, and every property of the run with the main thread
\* excepts the states after one: they are continued only while few timers have
\* been started.
Promised == ~raced \/ starts <= 1

Symmetry == Permutations(Node) \cup Permutations(Fd)
=============================================================================
