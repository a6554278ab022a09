------------------------------- MODULE MCPickup -------------------------------
(* Pickup for TLC: one Message received, one a Work Process publishes and one replayed.                 *)
EXTENDS Pickup, TLC

CONSTANTS m1, w1, d1
===============================================================================
