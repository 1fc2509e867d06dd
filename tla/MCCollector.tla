----------------------------- MODULE MCCollector -----------------------------
(***************************************************************************)
(* The collector for TLC: a few readings and lost connections, safety and  *)
(* liveness in one run.                                                    *)
(***************************************************************************)
EXTENDS Collector
=============================================================================
