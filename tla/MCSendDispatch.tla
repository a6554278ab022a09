---------------------------- MODULE MCSendDispatch ----------------------------
(* SendDispatch for TLC: two Messages and the jobs that one Send Port meets.  *)
EXTENDS SendDispatch

CONSTANTS m1, m2

MCJobs == 1 .. 2

\* Two Messages that contend for one place, coming by moves too; and one that
\* is put off while the queue is read, which takes a second place.
Contended ==
  [most |-> 1, tries |-> 0, come |-> {m1, m2}, jobs |-> 2, moves |-> TRUE, closes |-> TRUE]
PutOff ==
  [most |-> 2, tries |-> 1, come |-> {m1}, jobs |-> 1, moves |-> FALSE, closes |-> TRUE]
MCLimits == {Contended, PutOff}

\* Where each known divergence shows.
Meeting ==
  {[most |-> 2, tries |-> 0, come |-> {m1, m2}, jobs |-> 2, moves |-> FALSE, closes |-> TRUE]}
Moving ==
  {[most |-> 2, tries |-> 0, come |-> {m1, m2}, jobs |-> 2, moves |-> TRUE, closes |-> TRUE]}
===============================================================================
