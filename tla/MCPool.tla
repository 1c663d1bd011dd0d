------------------------------- MODULE MCPool -------------------------------
(* The instance of Pool that TLC checks.                                    *)
EXTENDS Pool
=============================================================================
