------------------------------ MODULE MCVouching -----------------------------
(* Vouching for TLC: two browsers' callers relayed through one surface.      *)
EXTENDS Vouching, TLC

CONSTANTS s1, s2, f1, n1, web

AtOne == [f \in Surfaces |-> n1]
\* One caller may act, the other only watches.
Assigned == [s \in Sessions |-> IF s = s1 THEN Operator ELSE Observer]
Operators == [n \in Nodes |-> Operator]
AsWeb == [f \in Surfaces |-> web]
==============================================================================
