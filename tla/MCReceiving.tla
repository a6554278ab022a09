----------------------------- MODULE MCReceiving -----------------------------
(* Receiving for TLC: a drop directory polled in order and a listener that  *)
(* waits, each alone with all its arrivals, and the two together.           *)
EXTENDS Receiving, TLC

CONSTANTS drop, tcp, a1, a2, b1, b2

MCAt == [a \in {a1, a2} |-> drop] @@ [b \in {b1, b2} |-> tcp]

MCNodes ==
  {[serves |-> {drop}, arrives |-> {a1, a2}],
   [serves |-> {tcp}, arrives |-> {b1, b2}],
   [serves |-> {drop, tcp}, arrives |-> {b1}]}
==============================================================================
