------------------------------ MODULE MCWorkStep ------------------------------
(* WorkStep for TLC: two nodes, two Messages of one key.                    *)
EXTENDS WorkStep, TLC

CONSTANTS n1, n2, m1, m2

NodeSym == Permutations(Nodes)

OneKey == [m \in Messages |-> "k"]
===============================================================================
