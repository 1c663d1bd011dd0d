---------------------------- MODULE MCSemaphore ----------------------------
(* Instances of Semaphore for TLC.                                          *)
EXTENDS Semaphore, TLC

CONSTANTS p1, p2, p3

ProcSymmetry == Permutations(Proc)
=============================================================================
