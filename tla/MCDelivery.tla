----------------------------- MODULE MCDelivery ------------------------------
(***************************************************************************)
(* The way from the broker to the table for TLC.  Two messages with two    *)
(* attempts each compete for one worker, and a POST may be handled after   *)
(* the next one was; four messages with one attempt each are one more than *)
(* a worker, a queue of one and the handler hold.                          *)
(***************************************************************************)
EXTENDS Delivery, TLC

Symmetry == Permutations(Messages)
=============================================================================
