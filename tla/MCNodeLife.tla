----------------------------- MODULE MCNodeLife -----------------------------
(***************************************************************************)
(* NodeLife on a few slices: ones that start a node alone, one of several  *)
(* and one that reaches others, and one for each phase that refuses.       *)
(***************************************************************************)
EXTENDS NodeLife

CONSTANTS home, away, tcp, mqtt, unit, flow, java, broken, r1, a1, a2

Good ==
  [place |-> home, parses |-> TRUE, formed |-> TRUE, role |-> TRUE, listed |-> FALSE,
   listen |-> FALSE, presents |-> FALSE, names |-> {tcp}, modules |-> {unit}, units |-> {unit},
   receives |-> {r1}, start |-> {r1, unit, flow, java, broken}]

\* One that starts, one of several, at another place.
Several == [Good EXCEPT !.place = away, !.listed = TRUE, !.listen = TRUE, !.presents = TRUE,
                        !.modules = {}, !.units = {}]

\* One that starts with no Receive Location.
Idle == [Several EXCEPT !.start = {}]

\* One a phase each refuses.
Refused ==
  { [Good EXCEPT !.role = FALSE],                      \* no way to Xmip Storage
    [Good EXCEPT !.names = {mqtt}],                    \* a technology not built with
    [Good EXCEPT !.modules = {}],                      \* a required module not configured
    [Good EXCEPT !.modules = {unit, java}],            \* another Host Service
    [Good EXCEPT !.modules = {unit, broken}],          \* a library that does not open
    [Good EXCEPT !.modules = {unit, flow}],            \* a capability claimed twice
    [Good EXCEPT !.start = {}] }                       \* a module configured not to start

SomeTexts == {Good, Several, Idle} \cup Refused
TwoTexts == {Good, Several}
Claims == [m \in {unit, flow, java, broken} |-> IF m \in {unit, flow} THEN unit ELSE m]
TheNames == {tcp, mqtt, unit, java, broken}
=============================================================================
