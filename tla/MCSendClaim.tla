----------------------------- MODULE MCSendClaim -----------------------------
(* Small instances of SendClaim for TLC.                                   *)
EXTENDS SendClaim, TLC

CONSTANTS a, b

\* Node a has two Send Locations of the Port, node b one of them.
Uneven == [n \in Nodes |-> IF n = a THEN 2 ELSE 1]
Even == [n \in Nodes |-> 1]

\* Where every node has the same Locations, nodes are interchangeable.
NodeSymmetry == Permutations(Nodes)

\* What a run explores: renewals and operators' acts, not under way at once; a
\* third claim only for an act while no node's pass is on the Message, or once a
\* scan has passed it over as one that failed, and without renewals.  Where one
\* node cannot read the Message, the other can, and nobody renews.
NoActs == \A n \in Nodes, m \in Messages : act[n][m] = NoAct
NoRenewals == \A n \in Nodes : renewing[n] = NoRenewal
AllRead == \A n \in Nodes : legible[n] = Messages
OneReads == \E n \in Nodes : legible[n] = Messages
Explored ==
  /\ AllRead \/ (OneReads /\ NoRenewals)
  /\ NoRenewals \/ (NoActs /\ \A m \in Messages : fence[m] <= 2)
  /\ \A m \in Messages :
       \/ fence[m] <= 2
       \/ \E n \in Nodes : passed[n] # {}
       \/ ~NoActs /\ \A n \in Nodes : phase[n][m] = "idle"
=============================================================================
