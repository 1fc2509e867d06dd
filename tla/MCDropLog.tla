----------------------------- MODULE MCDropLog -----------------------------
(***************************************************************************)
(* The rate limit with interchangeable callers, for TLC.                   *)
(***************************************************************************)
EXTENDS DropLog, TLC

CallerSymmetry == Permutations(Callers)
=============================================================================
