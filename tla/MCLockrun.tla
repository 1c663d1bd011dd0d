----------------------------- MODULE MCLockrun -----------------------------
(* Instances of Lockrun for TLC.                                            *)
EXTENDS Lockrun

CONSTANTS p1, p2

Line(w, q, r, d, l) == [wait |-> w, quiet |-> q, retries |-> r, deaf |-> d, locks |-> l]

\* lockrun --quiet; --wait; --wait --retries=1; --wait --quiet --retries=2; then
\* with SIGCHLD ignored, --wait, and on a file that cannot be locked, --quiet and
\* --wait.
Lines == {Line(FALSE, TRUE, 0, FALSE, TRUE), Line(TRUE, FALSE, 0, FALSE, TRUE),
          Line(TRUE, FALSE, 1, FALSE, TRUE), Line(TRUE, TRUE, 2, FALSE, TRUE),
          Line(TRUE, FALSE, 0, TRUE, TRUE),
          Line(FALSE, TRUE, 0, FALSE, FALSE), Line(TRUE, FALSE, 0, FALSE, FALSE)}
=============================================================================
