------------------------------ MODULE MCDelivery ------------------------------
(* A small instance of Delivery for TLC: it checks liveness, so without     *)
(* symmetry.                                                                *)
EXTENDS Delivery
=============================================================================
