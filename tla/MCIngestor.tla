----------------------------- MODULE MCIngestor -----------------------------
(***************************************************************************)
(* The ingestor with two concurrent handlers, for TLC.  Handlers are       *)
(* interchangeable, and so are devices.  Readings are stamped 0 and        *)
(* MaxSkew is 1: a handler that checks one in the clock's first second     *)
(* accepts it, and may take its receivedAt in the next; later ones are     *)
(* refused.                                                                *)
(***************************************************************************)
EXTENDS Ingestor, TLC

HandlerAndDeviceSymmetry == Permutations(Handlers) \cup Permutations(Devices)
=============================================================================
