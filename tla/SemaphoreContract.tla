------------------------- MODULE SemaphoreContract -------------------------
(***************************************************************************)
(* What semaphore.h promises to its callers, without the mutex, the        *)
(* condition variable and the file: a counter of tokens, closed (zero) at  *)
(* first, that post increments and wait decrements, a call of wait being   *)
(* outstanding until it takes a token.  The promise is made only while     *)
(* every process opens the semaphore after its creation has returned: an   *)
(* early open voids it.                                                    *)
(***************************************************************************)
EXTENDS Naturals

CONSTANT Proc

VARIABLES
  tokens,    \* posts that no wait has taken yet
  waiting,   \* processes inside a call of wait
  void       \* some process used the semaphore before it was created

vars == <<tokens, waiting, void>>

Init ==
  /\ tokens = 0
  /\ waiting = {}
  /\ void = FALSE

Post ==
  /\ tokens' = tokens + 1
  /\ UNCHANGED <<waiting, void>>

Enter(p) ==
  /\ p \notin waiting
  /\ waiting' = waiting \cup {p}
  /\ UNCHANGED <<tokens, void>>

Take(p) ==
  /\ p \in waiting
  /\ tokens > 0
  /\ tokens' = tokens - 1
  /\ waiting' = waiting \ {p}
  /\ UNCHANGED void

\* A process that is killed leaves without a token.
Leave(p) ==
  /\ p \in waiting
  /\ waiting' = waiting \ {p}
  /\ UNCHANGED <<tokens, void>>

\* From here on nothing is promised.
Break ==
  /\ void' = TRUE
  /\ tokens' = 0
  /\ waiting' = {}

Next ==
  \/ ~void /\ (Post \/ \E p \in Proc : Enter(p) \/ Take(p) \/ Leave(p))
  \/ Break

Spec == Init /\ [][Next]_vars
=============================================================================
