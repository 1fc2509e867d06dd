----------------------------- MODULE MCPipeline ------------------------------
(***************************************************************************)
(* The whole platform for TLC: one reading and a lost connection, so that  *)
(* two copies of it are on their way, with retries and an end of the       *)
(* bridge, and may come to different ends.                                 *)
(***************************************************************************)
EXTENDS Pipeline

Copies == (1 .. MaxReadings) \X (1 .. MaxLosses + 1)

\* Bound: the ingestor loses its volume, or the bridge is stopped, not both.
OneProcessFails == wiped = {} \/ (exits = 0 /\ ~stopping)
=============================================================================
