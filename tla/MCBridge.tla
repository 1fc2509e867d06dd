------------------------------ MODULE MCBridge ------------------------------
(***************************************************************************)
(* The bridge with two workers, for TLC.  The two are interchangeable, so  *)
(* the safety runs explore one state of each orbit; the liveness run does  *)
(* not use symmetry.                                                       *)
(***************************************************************************)
EXTENDS Bridge, TLC

WorkerSymmetry == Permutations(Workers)
=============================================================================
