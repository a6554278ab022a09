------------------------------ MODULE MCSequence ------------------------------
(***************************************************************************)
(* Streams whose Messages go to one Send Port with one key.  Straight: s1  *)
(* and s2 of one Receive Location, s3 of another.  Through: s1 through a   *)
(* Work Process that publishes to that Port, as in tests/ledger/           *)
(* stream_order.rs, a batch of two where m4 is one of the Messages, as in  *)
(* tests/ledger/work_debatch.rs.                                           *)
(***************************************************************************)
EXTENDS Sequence, TLC

CONSTANTS a, b, s1, s2, s3, w1, m1, m2, m3, m4, here, there, key, enrich, out

\* m1 and m4 are s1's: received, or published by w1's turn where w1 is one of them.
MCLineOf == [s \in Streams |-> IF s = s3 THEN there ELSE here]
MCStreamOf == [m \in Messages |-> IF m = m2 THEN s2 ELSE IF m = m3 THEN s3 ELSE s1]
MCTo == [m \in Messages |-> IF m = w1 THEN enrich ELSE out]
MCKeyOf == [m \in Messages |-> IF m = w1 THEN None ELSE key]
MCParent == [m \in Messages |-> IF m \in {m1, m4} /\ w1 \in Messages THEN w1 ELSE None]
MCNth == [m \in Messages |-> IF m = m4 THEN 2 ELSE 1]

\* What a run explores.  s2 is received with s1 or with s3.  Where both nodes take
\* part, each works on one Message at a time: of one Stream, the same Message or
\* another; of two, a of the first and b of the second.  A node goes on with what
\* is no longer its own while the other takes it up where it is all there is yet.
Begun(s) == \E m \in Messages : StreamOf[m] = s /\ state[m] # "unborn"
Received == {s \in Streams : Begun(s)}
OnlyOne == Cardinality({m \in Messages : state[m] # "unborn"}) <= 1
OutOfIt(n) ==
  /\ seen[n] = {}
  /\ \A d \in Dests : cursor[n][d] = 0
  /\ \A m \in Messages : phase[n][m] = "idle" /\ claim[m] # n
WorksOn(n) == {m \in Messages : phase[n][m] # "idle"}
Second(m) == StreamOf[m] = s3 \/ (StreamOf[m] = s2 /\ ~Begun(s3))
Explored ==
  /\ ~(Begun(s1) /\ Begun(s3))
  /\ \/ OutOfIt(b)
     \/ /\ \A n \in Nodes :
             /\ Cardinality(WorksOn(n)) <= 1
             /\ OnlyOne \/ \A m \in WorksOn(n) : claim[m] = n
        /\ Cardinality(Received) > 1 =>
             /\ \A m \in WorksOn(a) : ~Second(m)
             /\ \A m \in WorksOn(b) : Second(m)
===============================================================================
