------------------------------- MODULE MCFollow ------------------------------
(* Follow for TLC: one surface and the threads that call on it.             *)
EXTENDS Follow, TLC

CONSTANTS c1, c2
==============================================================================
