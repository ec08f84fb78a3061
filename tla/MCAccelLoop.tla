---------------------------- MODULE MCAccelLoop ----------------------------
(***************************************************************************)
(* AccelLoop for TLC.                                                      *)
(***************************************************************************)
EXTENDS AccelLoop

\* What may be asked for: to brake and to accelerate.
Asked == {-300, 100}
=============================================================================
