----------------------------- MODULE MCFigures -----------------------------
(***************************************************************************)
(* Figures with a Port that blocks and Messages that failed there before   *)
(* the node started, each behaviour within one of the bounds below.        *)
(***************************************************************************)
EXTENDS Figures

CONSTANTS p1, t1

Quiet == [before |-> 0, passes |-> 0, elsewhere |-> 0, unanswered |-> 0,
          refused |-> 0, imported |-> 0, listings |-> 0, stops |-> 0]

AllBounds ==
  { [Quiet EXCEPT !.passes = 2],
    [Quiet EXCEPT !.passes = 1, !.refused = 1, !.stops = 1],
    [Quiet EXCEPT !.passes = 1, !.elsewhere = 1],
    [Quiet EXCEPT !.passes = 1, !.unanswered = 1],
    [Quiet EXCEPT !.before = 1, !.elsewhere = 2, !.unanswered = 1],
    [Quiet EXCEPT !.before = 3, !.elsewhere = 1, !.listings = 1],
    [Quiet EXCEPT !.imported = 2] }
=============================================================================
