----------------------------- MODULE MCArrival -----------------------------
(***************************************************************************)
(* Arrival with Streams that pass and that each gate refuses, a Send Port  *)
(* Group two Subscriptions lead to, a paused Subscription, a Port no Send  *)
(* Location here serves, and a Work Process that debatches.                *)
(***************************************************************************)
EXTENDS Arrival

CONSTANTS tls, jwt, path, ann, bob, drop, p1, p2, g, w, both, also, held, runs

Claim(mech, value, layer, good) == [mech |-> mech, value |-> value, layer |-> layer, good |-> good]

Ann   == Claim(tls, ann, "transport", TRUE)
Bob   == Claim(jwt, bob, "message", TRUE)
AnnIn == Claim(jwt, ann, "message", TRUE)

TheCircumstance == Claim(path, drop, "transport", TRUE)

Plain ==
  [claims |-> <<Ann>>, presented |-> None, inner |-> <<>>, garbled |-> "none", promotes |-> TRUE,
   chunks |-> 1, matches |-> {}, rows |-> <<>>]

Spread == [Plain EXCEPT !.matches = {both, also, held}]
Batch  == [Plain EXCEPT !.matches = {runs}, !.rows = <<"part", "part">>]
Ragged == [Plain EXCEPT !.claims = <<>>, !.matches = {runs}, !.rows = <<"part", "refused">>]

\* Claims beside the first on both layers, and the transport's own.
Many == [Plain EXCEPT !.chunks = 2,
                      !.claims = <<Ann, Claim(tls, bob, "transport", TRUE)>>,
                      !.presented = TheCircumstance,
                      !.inner = <<AnnIn, Bob, Claim(path, ann, "transport", TRUE)>>]

Refused ==
  { [Plain EXCEPT !.garbled = "claims"],
    [Plain EXCEPT !.claims = <<Claim(tls, ann, "transport", FALSE)>>],
    [Plain EXCEPT !.claims = <<Claim(tls, bob, "transport", TRUE)>>],
    [Plain EXCEPT !.inner = <<Bob>>],
    [Plain EXCEPT !.promotes = FALSE] }

AllStreams == {Spread, Batch, Ragged, Many} \cup Refused

TheParties == << {<<tls, ann>>, <<jwt, ann>>}, {<<tls, bob>>, <<jwt, bob>>}, {<<path, drop>>} >>
Subs == <<both, also, held, runs>>
LeadsTo == [u \in {both, also, held, runs} |->
              CASE u \in {both, also} -> g [] u = held -> p1 [] OTHER -> w]
GroupPorts == [x \in {g} |-> <<p1, p2>>]
Locations == [p \in {p1, p2} |-> IF p = p2 THEN {} ELSE {p}]
=============================================================================
