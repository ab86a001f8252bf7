---------------------------- MODULE MCDeliveries ----------------------------
(* Instances of Deliveries for TLC. *)
EXTENDS Deliveries
=============================================================================
