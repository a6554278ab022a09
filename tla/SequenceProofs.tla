---------------------------- MODULE SequenceProofs ----------------------------
(***************************************************************************)
(* Proofs about Sequence, for any Streams, Messages, sequences and nodes:  *)
(* the variables keep their types, and everything passes one at a time and *)
(* in turn wherever a sequence does not skip.                              *)
(*                                                                         *)
(* The argument.  A place is given once and to one member, so the least of *)
(* those held is held by one; a later one never comes before it.  A member *)
(* keeps its place while its Journeys are open.  So what headed its        *)
(* sequence once, on the Ledger's page or in a node's memory, heads it     *)
(* while its claim is held, and two that head are one.                     *)
(***************************************************************************)
EXTENDS Sequence, TLAPS

USE DEF ledgerVars, placeVars, nodeVars, vars

\* The steps that leave the Ledger's states and places alone.
Quiet ==
  \/ \E n \in Nodes, m \in Messages :
       \/ Takes(n, m) \/ TakesNot(n, m) \/ StreamAsked(n, m) \/ StreamBehind(n, m)
       \/ LetThrough(n, m) \/ PointBehind(n, m) \/ GivesUp(n, m) \/ Loses(n, m)
       \/ Again(n, m)
  \/ \E n \in Nodes, d \in Dests : ScanEnds(n, d)
  \/ \E m \in Messages : Lapses(m)
  \/ \E n \in Nodes : Crash(n)

\* The others under a claim.
Placing(n, m) == TakeLate(n, m) \/ TakeLateUnanswered(n, m)
Ending(n, m) == Sent(n, m) \/ Fails(n, m) \/ TurnFails(n, m) \/ TurnDone(n, m)

\* Every step is one of these.
LEMMA Steps ==
  ASSUME [Next]_vars
  PROVE  \/ UNCHANGED vars \/ Quiet
         \/ \E s \in Streams : Receive(s)
         \/ \E n \in Nodes, m \in Messages : Placing(n, m)
         \/ \E n \in Nodes, m \in Messages : Ending(n, m)
         \/ \E m \in Messages : Retry(m)
         \/ \E m \in Messages : Dismiss(m)
BY DEF Next, TakeUp, WorkOn, Quiet, Placing, Ending

\* A quiet step changes no state and no place.
LEMMA QuietFrame == Quiet => UNCHANGED <<state, placeVars>>
BY DEF Quiet, Takes, TakesNot, StreamAsked, StreamBehind, LetThrough, PointBehind, GivesUp,
       Loses, Again, ScanEnds, Lapses, Crash

----------------------------------------------------------------------------
(* Types.                                                                  *)

States == {"unborn", "waiting", "failed", "ended"}

StateOK == state \in [Messages -> States]
LineOK == line \in [Streams -> Nat]
PlacesOK ==
  /\ rank \in [Messages -> Nat]
  /\ spot \in [Messages -> Nat]
  /\ told \in [Messages -> BOOLEAN]
  /\ given \in [Lines \cup Keys \cup Dests -> Nat]

NodesOK ==
  /\ claim \in [Messages -> Nodes \cup {NoNode}]
  /\ phase \in [Nodes -> [Messages -> Phases]]
  /\ cursor \in [Nodes -> [Dests -> Nat]]
  /\ seen \in [Nodes -> SUBSET (Streams \cup Messages)]
  /\ HeadingInv

\* Where a Message comes in its write is a number, within the write's width.
LEMMA NthIs ==
  /\ Width \in Nat /\ Width > 0
  /\ \A m \in Messages : Nth[m] \in Nat /\ Nth[m] > 0 /\ Nth[m] <= Width
BY ShapeAssumption

\* Joining a queue, taking a place and letting one go keep the places numbers.
LEMMA JoinsTyped ==
  ASSUME PlacesOK, NEW born \in SUBSET Messages, NEW takes \in SUBSET Messages,
         NEW joined, NEW left, \A m \in takes : KeyOf[m] # None,
         Joins(born, takes, joined, left)
  PROVE  PlacesOK'
<1>1. \A m \in Messages : given[To[m]] + Nth[m] \in Nat
  BY ShapeAssumption, NthIs DEF PlacesOK
<1>2. \A m \in takes : given[KeyOf[m]] + Nth[m] \in Nat
  BY ShapeAssumption, NthIs DEF PlacesOK
<1>3. rank' \in [Messages -> Nat]
  BY <1>1 DEF Joins, PlacesOK
<1>4. spot' \in [Messages -> Nat]
  BY <1>2 DEF Joins, PlacesOK
<1>5. told' \in [Messages -> BOOLEAN]
  BY DEF Joins, PlacesOK
<1>6. given' \in [Lines \cup Keys \cup Dests -> Nat]
  BY NthIs DEF Joins, PlacesOK
<1> QED
  BY <1>3, <1>4, <1>5, <1>6 DEF PlacesOK

\* A write of states keeps each Stream's place, or lets it go.
LEMMA WritesTyped ==
  ASSUME StateOK, LineOK, NEW next \in [Messages -> States], Writes(next)
  PROVE  StateOK' /\ LineOK'
BY DEF Writes, Lets, StateOK, LineOK

\* One Journey's next state.
LEMMA BecomesTyped ==
  ASSUME StateOK, NEW m \in Messages, NEW to \in States
  PROVE  Becomes(m, to) \in [Messages -> States]
BY DEF Becomes, StateOK

\* Who is born of a Stream, or of a turn, and which of them have a key.
LEMMA BornTyped ==
  /\ \A s : Roots(s) \in SUBSET Messages
  /\ \A m : Children(m) \in SUBSET Messages
  /\ \A born \in SUBSET Messages :
       Keyed(born) \in SUBSET Messages /\ \A m \in Keyed(born) : KeyOf[m] # None
BY DEF Roots, Children, Keyed

\* A Publication keeps the Ledger's types.
LEMMA ReceiveTyped ==
  ASSUME StateOK, LineOK, PlacesOK, NEW s \in Streams, Receive(s)
  PROVE  StateOK' /\ LineOK' /\ PlacesOK'
<1>1. StateOK'
  BY DEF Receive, StateOK, States
<1>2. CASE LineOf[s] = None
  <2>1. Joins(Roots(s), Keyed(Roots(s)), Queues(Roots(s), Keyed(Roots(s))), {})
    BY <1>2 DEF Receive
  <2>2. LineOK'
    BY <1>2 DEF Receive, LineOK
  <2>3. PlacesOK'
    BY <2>1, JoinsTyped, BornTyped
  <2> QED
    BY <1>1, <2>2, <2>3
<1>3. CASE LineOf[s] # None
  <2>1. Joins(Roots(s), {}, Queues(Roots(s), {}) \cup {LineOf[s]}, {})
    BY <1>3 DEF Receive
  <2>2. given[LineOf[s]] + 1 \in Nat
    BY <1>3, ShapeAssumption DEF PlacesOK
  <2>3. LineOK'
    BY <1>3, <2>2 DEF Receive, LineOK
  <2>4. PlacesOK'
    BY <2>1, JoinsTyped, BornTyped
  <2> QED
    BY <1>1, <2>3, <2>4
<1> QED
  BY <1>2, <1>3

\* What a pass or a turn writes under its claim keeps the Ledger's types.
LEMMA EndingTyped ==
  ASSUME StateOK, LineOK, PlacesOK, NEW n \in Nodes, NEW m \in Messages, Ending(n, m)
  PROVE  StateOK' /\ LineOK' /\ PlacesOK'
<1>1. CASE Sent(n, m)
  <2>1. Writes(Becomes(m, "ended")) /\ Joins({}, {}, {}, {m})
    BY <1>1 DEF Sent
  <2> QED
    BY <2>1, WritesTyped, BecomesTyped, JoinsTyped DEF States
<1>2. CASE Fails(n, m)
  <2>1. PICK left : Writes(Becomes(m, "failed")) /\ Joins({}, {}, {}, left)
    BY <1>2 DEF Fails
  <2> QED
    BY <2>1, WritesTyped, BecomesTyped, JoinsTyped DEF States
<1>3. CASE TurnFails(n, m)
  <2>1. Writes(Becomes(m, "failed")) /\ UNCHANGED <<rank, spot, told, given>>
    BY <1>3 DEF TurnFails
  <2>2. PlacesOK'
    BY <2>1 DEF PlacesOK
  <2> QED
    BY <2>1, <2>2, WritesTyped, BecomesTyped DEF States
<1>4. CASE TurnDone(n, m)
  <2> DEFINE next == [o \in Messages |->
               IF o = m THEN "ended" ELSE IF o \in Children(m) THEN "waiting" ELSE state[o]]
  <2>1. next \in [Messages -> States]
    BY DEF StateOK, States
  <2>2. Writes(next)
    BY <1>4 DEF TurnDone
  <2>3. Joins(Children(m), Keyed(Children(m)), Queues(Children(m), Keyed(Children(m))), {m})
    BY <1>4 DEF TurnDone
  <2>4. StateOK' /\ LineOK'
    BY <2>1, <2>2, WritesTyped
  <2>5. PlacesOK'
    BY <2>3, JoinsTyped, BornTyped
  <2> QED
    BY <2>4, <2>5
<1> QED
  BY <1>1, <1>2, <1>3, <1>4 DEF Ending

\* An operator's act keeps the Ledger's types.
LEMMA ActTyped ==
  ASSUME StateOK, LineOK, PlacesOK, NEW m \in Messages, Retry(m) \/ Dismiss(m)
  PROVE  StateOK' /\ LineOK' /\ PlacesOK'
<1>1. CASE Retry(m)
  <2>1. Writes(Becomes(m, "waiting"))
    BY <1>1 DEF Retry
  <2>2. given[To[m]] + 1 \in Nat /\ To[m] \in Dests
    BY ShapeAssumption DEF PlacesOK
  <2>3. PlacesOK'
    BY <1>1, <2>2 DEF Retry, PlacesOK
  <2> QED
    BY <2>1, <2>3, WritesTyped, BecomesTyped DEF States
<1>2. CASE Dismiss(m)
  <2>1. Writes(Becomes(m, "ended")) /\ Joins({}, {}, {}, {m})
    BY <1>2 DEF Dismiss
  <2> QED
    BY <2>1, WritesTyped, BecomesTyped, JoinsTyped DEF States
<1> QED
  BY <1>1, <1>2

\* Every step keeps the Ledger's types.
LEMMA LedgerTyped ==
  ASSUME StateOK, LineOK, PlacesOK, HeadingInv, [Next]_vars
  PROVE  StateOK' /\ LineOK' /\ PlacesOK'
<1>1. CASE UNCHANGED vars \/ Quiet
  BY <1>1, QuietFrame DEF StateOK, LineOK, PlacesOK
<1>2. ASSUME NEW n \in Nodes, NEW m \in Messages, Placing(n, m)
      PROVE  StateOK' /\ LineOK' /\ PlacesOK'
  <2>1. Joins({}, {m}, {KeyOf[m]}, {}) /\ UNCHANGED <<state, line>> /\ phase[n][m] = "heading"
    BY <1>2 DEF Placing, TakeLate, TakeLateUnanswered, PlaceTaken
  <2>2. KeyOf[m] # None
    BY <2>1 DEF HeadingInv
  <2>3. PlacesOK'
    BY <2>1, <2>2, JoinsTyped
  <2> QED
    BY <2>1, <2>3 DEF StateOK, LineOK
<1> QED
  BY <1>1, <1>2, ReceiveTyped, EndingTyped, ActTyped, Steps

\* A node's work on one Message moves on.
LEMMA MovesTyped ==
  ASSUME NodesOK, NEW n \in Nodes, NEW m \in Messages, NEW p \in Phases,
         p = "heading" => KeyOf[m] # None, Moves(n, m, p)
  PROVE  phase' \in [Nodes -> [Messages -> Phases]] /\ HeadingInv'
<1>1. phase' \in [Nodes -> [Messages -> Phases]]
  BY DEF Moves, NodesOK
<1>2. \A k \in Nodes, o \in Messages :
        phase'[k][o] = IF k = n /\ o = m THEN p ELSE phase[k][o]
  BY DEF Moves, NodesOK
<1> QED
  BY <1>1, <1>2 DEF NodesOK, HeadingInv

\* What a node remembers are Streams and Messages.
LEMMA RememberTyped ==
  ASSUME NodesOK, NEW n \in Nodes, NEW x \in Streams \cup Messages, NEW placed,
         Remember(n, x, placed)
  PROVE  seen' \in [Nodes -> SUBSET (Streams \cup Messages)]
<1>1. CASE x \in seen[n] \/ ~placed
  BY <1>1 DEF Remember, NodesOK
<1>2. CASE ~(x \in seen[n] \/ ~placed)
  <2>1. PICK S \in {{}, seen[n]} : seen' = [seen EXCEPT ![n] = S \cup {x}]
    BY <1>2 DEF Remember, NodesOK
  <2> QED
    BY <2>1 DEF NodesOK
<1> QED
  BY <1>1, <1>2

\* A scan passes a Message, and a claim is given back or not.
LEMMA PassedTyped ==
  ASSUME NodesOK, PlacesOK, NEW n \in Nodes, NEW m \in Messages
  PROVE  /\ Passed(n, m) => cursor' \in [Nodes -> [Dests -> Nat]]
         /\ GivenBack(n, m) =>
              /\ Moves(n, m, "idle")
              /\ claim' \in [Messages -> Nodes \cup {NoNode}]
<1>1. To[m] \in Dests /\ rank[m] \in Nat
  BY ShapeAssumption DEF PlacesOK
<1>2. Passed(n, m) => cursor' \in [Nodes -> [Dests -> Nat]]
  BY <1>1 DEF Passed, NodesOK
<1>3. GivenBack(n, m) => claim' \in [Messages -> Nodes \cup {NoNode}]
  BY DEF GivenBack, NodesOK
<1> QED
  BY <1>2, <1>3 DEF GivenBack

\* Every step keeps the nodes' types.
LEMMA NodesTyped ==
  ASSUME StateOK, LineOK, PlacesOK, NodesOK, [Next]_vars
  PROVE  NodesOK'
<1> USE DEF Phases
<1>1. CASE UNCHANGED vars
  BY <1>1 DEF NodesOK, HeadingInv
<1>2. ASSUME NEW n \in Nodes, NEW m \in Messages, TakeUp(n, m) \/ WorkOn(n, m) PROVE NodesOK'
  <2>1. CASE Takes(n, m)
    <3>1. PICK p \in {"claimed", "passing"} : Moves(n, m, p)
      BY <2>1 DEF Takes
    <3>2. Passed(n, m) /\ claim' = [claim EXCEPT ![m] = n] /\ UNCHANGED seen
      BY <2>1 DEF Takes
    <3> QED
      BY <3>1, <3>2, MovesTyped, PassedTyped DEF NodesOK
  <2>2. CASE TakesNot(n, m)
    <3>1. Passed(n, m) /\ claim' \in {claim, [claim EXCEPT ![m] = n]} /\ UNCHANGED <<phase, seen>>
      BY <2>2 DEF TakesNot
    <3> QED
      BY <3>1, PassedTyped DEF NodesOK, HeadingInv
  <2>3. CASE StreamAsked(n, m)
    <3>1. PICK p \in {"heading", "streamed"} : Moves(n, m, p) /\ (p = "heading" => KeyOf[m] # None)
      BY <2>3 DEF StreamAsked, WaitsForPlaces
    <3>2. PICK placed : Remember(n, StreamOf[m], placed)
      BY <2>3 DEF StreamAsked
    <3>3. StreamOf[m] \in Streams /\ UNCHANGED <<claim, cursor>>
      BY <2>3, ShapeAssumption DEF StreamAsked
    <3> QED
      BY <3>1, <3>2, <3>3, MovesTyped, RememberTyped DEF NodesOK
  <2>4. CASE StreamBehind(n, m) \/ PointBehind(n, m) \/ GivesUp(n, m) \/ TakeLateUnanswered(n, m)
    <3>1. GivenBack(n, m) /\ UNCHANGED <<cursor, seen>>
      BY <2>4 DEF StreamBehind, PointBehind, GivesUp, TakeLateUnanswered
    <3> QED
      BY <3>1, MovesTyped, PassedTyped DEF NodesOK
  <2>5. CASE TakeLate(n, m)
    <3>1. PICK p \in {"streamed", "passing"} : Moves(n, m, p)
      BY <2>5 DEF TakeLate
    <3> QED
      BY <2>5, <3>1, MovesTyped DEF NodesOK, TakeLate
  <2>6. CASE LetThrough(n, m)
    <3>1. PICK placed : Remember(n, m, placed)
      BY <2>6 DEF LetThrough
    <3> QED
      BY <2>6, <3>1, MovesTyped, RememberTyped DEF NodesOK, LetThrough
  <2>7. CASE Loses(n, m)
    BY <2>7, MovesTyped DEF NodesOK, Loses
  <2>8. CASE WorkOn(n, m)
    <3>1. HandsOn(n, m)
      BY <2>8 DEF WorkOn, Sent, Again, Fails, TurnFails, TurnDone
    <3>2. claim' \in [Messages -> Nodes \cup {NoNode}]
      BY <3>1 DEF HandsOn, NodesOK
    <3>3. Moves(n, m, "idle") /\ UNCHANGED <<cursor, seen>>
      BY <3>1 DEF HandsOn
    <3> QED
      BY <3>2, <3>3, MovesTyped DEF NodesOK
  <2> QED
    BY <1>2, <2>1, <2>2, <2>3, <2>4, <2>5, <2>6, <2>7, <2>8 DEF TakeUp
<1>3. ASSUME NEW n \in Nodes, NEW d \in Dests, ScanEnds(n, d) PROVE NodesOK'
  BY <1>3 DEF ScanEnds, NodesOK, HeadingInv
<1>4. ASSUME NEW n \in Nodes, Crash(n) PROVE NodesOK'
  <2>1. phase' \in [Nodes -> [Messages -> Phases]] /\ cursor' \in [Nodes -> [Dests -> Nat]]
    BY <1>4 DEF Crash, NodesOK
  <2>2. \A k \in Nodes, o \in Messages : phase'[k][o] = IF k = n THEN "idle" ELSE phase[k][o]
    BY <1>4 DEF Crash, NodesOK
  <2>3. HeadingInv'
    BY <2>2 DEF HeadingInv, NodesOK
  <2> QED
    BY <1>4, <2>1, <2>3 DEF Crash, NodesOK
<1>5. ASSUME NEW m \in Messages, Lapses(m) PROVE NodesOK'
  BY <1>5 DEF Lapses, NodesOK, HeadingInv
<1>6. ASSUME NEW m \in Messages, Retry(m) \/ Dismiss(m) PROVE NodesOK'
  BY <1>6 DEF Retry, Dismiss, NodesOK, HeadingInv
<1>7. ASSUME NEW s \in Streams, Receive(s) PROVE NodesOK'
  BY <1>7 DEF Receive, NodesOK, HeadingInv
<1> QED
  BY <1>1, <1>2, <1>3, <1>4, <1>5, <1>6, <1>7 DEF Next

\* The types above are those of the model.
LEMMA TypesAre == TypeOK /\ HeadingInv <=> StateOK /\ LineOK /\ PlacesOK /\ NodesOK
BY DEF TypeOK, StateOK, LineOK, PlacesOK, NodesOK, States

\* Every variable keeps its type through every publication, scan, take, pass,
\* turn, act, lapse and crash (sequence.rs, send_step, work_step).
THEOREM TypeCorrect == Spec => []TypeOK
<1>1. Init => TypeOK /\ HeadingInv
  BY DEF Init, TypeOK, HeadingInv, Phases
<1>2. TypeOK /\ HeadingInv /\ [Next]_vars => TypeOK' /\ HeadingInv'
  <2> SUFFICES ASSUME TypeOK, HeadingInv, [Next]_vars PROVE TypeOK' /\ HeadingInv'
    OBVIOUS
  <2>1. StateOK' /\ LineOK' /\ PlacesOK' /\ NodesOK'
    BY TypesAre, LedgerTyped, NodesTyped
  <2> QED
    BY <2>1 DEF TypeOK, StateOK, LineOK, PlacesOK, NodesOK, States
<1> QED
  BY <1>1, <1>2, PTL DEF Spec

----------------------------------------------------------------------------
(* What each kind of step does, Message by Message.                        *)

Types == StateOK /\ LineOK /\ PlacesOK /\ NodesOK

\* A write of states lets go of the places of the Streams it ends, of no other's.
LEMMA WritesEach ==
  ASSUME LineOK, NEW next \in [Messages -> States], Writes(next)
  PROVE  /\ \A m \in Messages : state'[m] = next[m]
         /\ \A s \in Streams : line'[s] \in {0, line[s]}
         /\ \A m \in Messages : Open(m, next[m]) /\ StreamOf[m] \in Streams
               => line'[StreamOf[m]] = line[StreamOf[m]]
BY DEF Writes, Lets, LineOK

\* A Publication: the Stream's roots wait, at new places.
LEMMA ReceiveEach ==
  ASSUME Types, NEW s \in Streams, Receive(s)
  PROVE  /\ Roots(s) # {} /\ \A m \in Roots(s) : state[m] = "unborn"
         /\ \A m \in Messages :
              state'[m] = IF m \in Roots(s) THEN "waiting" ELSE state[m]
         /\ \A t \in Streams :
              line'[t] = IF t = s /\ LineOf[s] # None THEN given[LineOf[s]] + 1 ELSE line[t]
         /\ \A m \in Messages :
              IF m \in Roots(s) /\ KeyOf[m] # None /\ LineOf[s] = None
                THEN /\ spot'[m] = given[KeyOf[m]] + Nth[m] /\ told'[m]
                     /\ given'[KeyOf[m]] = given[KeyOf[m]] + Width
                ELSE spot'[m] = spot[m] /\ told'[m] = told[m]
         /\ \A q \in Lines \cup Keys \cup Dests : given'[q] >= given[q]
         /\ LineOf[s] # None => given'[LineOf[s]] = given[LineOf[s]] + Width
         /\ UNCHANGED <<claim, phase, seen>>
<1>1. /\ Roots(s) # {} /\ \A m \in Roots(s) : state[m] = "unborn"
      /\ \A m \in Messages : state'[m] = IF m \in Roots(s) THEN "waiting" ELSE state[m]
      /\ UNCHANGED <<claim, phase, seen>>
  BY DEF Receive
<1>2. CASE LineOf[s] = None
  <2>1. Joins(Roots(s), Keyed(Roots(s)), Queues(Roots(s), Keyed(Roots(s))), {}) /\ UNCHANGED line
    BY <1>2 DEF Receive
  <2>2. \A m \in Messages :
          /\ spot'[m] = IF m \in Keyed(Roots(s)) THEN given[KeyOf[m]] + Nth[m] ELSE spot[m]
          /\ told'[m] = (told[m] \/ m \in Keyed(Roots(s)))
    BY <2>1 DEF Joins
  <2>3. \A q \in Lines \cup Keys \cup Dests :
          given'[q] = IF q \in Queues(Roots(s), Keyed(Roots(s))) THEN given[q] + Width ELSE given[q]
    BY <2>1 DEF Joins, Types, PlacesOK
  <2>4. \A m \in Roots(s) : KeyOf[m] # None =>
          KeyOf[m] \in Queues(Roots(s), Keyed(Roots(s))) /\ KeyOf[m] \in Keys
    BY ShapeAssumption, BornTyped DEF Queues, Keyed
  <2>5. \A m \in Messages : m \in Keyed(Roots(s)) <=> m \in Roots(s) /\ KeyOf[m] # None
    BY DEF Keyed
  <2>6. told' \in [Messages -> BOOLEAN] /\ told \in [Messages -> BOOLEAN]
        /\ given \in [Lines \cup Keys \cup Dests -> Nat]
    BY ReceiveTyped DEF Types, PlacesOK
  <2>7. \A m \in Messages :
          IF m \in Roots(s) /\ KeyOf[m] # None
            THEN spot'[m] = given[KeyOf[m]] + Nth[m] /\ told'[m] /\ given'[KeyOf[m]] = given[KeyOf[m]] + Width
            ELSE spot'[m] = spot[m] /\ told'[m] = told[m]
    BY <2>2, <2>3, <2>4, <2>5, <2>6
  <2>8. \A q \in Lines \cup Keys \cup Dests : given'[q] >= given[q]
    BY NthIs, <2>3, <2>6
  <2> QED
    BY <1>1, <1>2, <2>1, <2>7, <2>8
<1>3. CASE LineOf[s] # None
  <2>1. /\ Joins(Roots(s), {}, Queues(Roots(s), {}) \cup {LineOf[s]}, {})
        /\ line' = [line EXCEPT ![s] = given[LineOf[s]] + 1]
    BY <1>3 DEF Receive
  <2>2. \A m \in Messages : spot'[m] = spot[m] /\ told'[m] = told[m]
    BY <2>1 DEF Joins, Types, PlacesOK
  <2>3. \A q \in Lines \cup Keys \cup Dests :
          given'[q] = IF q \in Queues(Roots(s), {}) \cup {LineOf[s]} THEN given[q] + Width ELSE given[q]
    BY <2>1 DEF Joins, Types, PlacesOK
  <2>4. given \in [Lines \cup Keys \cup Dests -> Nat] /\ LineOf[s] \in Lines
    BY <1>3, ShapeAssumption DEF Types, PlacesOK
  <2>5. \A t \in Streams : line'[t] = IF t = s THEN given[LineOf[s]] + 1 ELSE line[t]
    BY <2>1 DEF Types, LineOK
  <2> QED
    BY NthIs, <1>1, <1>3, <2>2, <2>3, <2>4, <2>5
<1> QED
  BY <1>2, <1>3

\* A place taken late: the Message's own, the last of its sequence.
LEMMA PlacingEach ==
  ASSUME Types, NEW n \in Nodes, NEW m \in Messages, Placing(n, m)
  PROVE  /\ phase[n][m] = "heading" /\ claim[m] = n /\ KeyOf[m] # None /\ KeyOf[m] \in Keys
         /\ UNCHANGED <<state, line, seen>>
         /\ \A o \in Messages :
              /\ spot'[o] = IF o = m THEN given[KeyOf[m]] + Nth[o] ELSE spot[o]
              /\ o # m => told'[o] = told[o]
              /\ claim'[o] \in {claim[o], NoNode}
         /\ told'[m]
         /\ \A q \in Lines \cup Keys \cup Dests :
              given'[q] = IF q = KeyOf[m] THEN given[q] + Width ELSE given[q]
         /\ phase'[n][m] \in {"streamed", "passing", "idle"}
         /\ \A k \in Nodes, o \in Messages : k # n \/ o # m => phase'[k][o] = phase[k][o]
<1>1. /\ phase[n][m] = "heading" /\ claim[m] = n
      /\ UNCHANGED <<state, line, seen>> /\ Joins({}, {m}, {KeyOf[m]}, {})
  BY DEF Placing, TakeLate, TakeLateUnanswered, PlaceTaken
<1>2. KeyOf[m] # None /\ KeyOf[m] \in Keys
  BY <1>1, ShapeAssumption DEF Types, NodesOK, HeadingInv
<1>3. \A o \in Messages :
        /\ spot'[o] = IF o = m THEN given[KeyOf[m]] + Nth[o] ELSE spot[o]
        /\ o # m => told'[o] = told[o]
        /\ o = m => told'[o]
  BY <1>1 DEF Joins, Types, PlacesOK
<1>4. \A q \in Lines \cup Keys \cup Dests :
        given'[q] = IF q = KeyOf[m] THEN given[q] + Width ELSE given[q]
  BY <1>1 DEF Joins, Types, PlacesOK
<1>5. \A o \in Messages : claim'[o] \in {claim[o], NoNode}
  BY DEF Placing, TakeLate, TakeLateUnanswered, GivenBack, Types, NodesOK
<1>6. \E p \in {"streamed", "passing", "idle"} : Moves(n, m, p)
  BY DEF Placing, TakeLate, TakeLateUnanswered, GivenBack
<1>7. /\ phase'[n][m] \in {"streamed", "passing", "idle"}
      /\ \A k \in Nodes, o \in Messages : k # n \/ o # m => phase'[k][o] = phase[k][o]
  BY <1>6 DEF Moves, Types, NodesOK
<1> QED
  BY <1>1, <1>2, <1>3, <1>4, <1>5, <1>7

\* Of a claimed Message nothing is born yet, itself least of all.
LEMMA ClaimedChildless ==
  ASSUME Types, ClaimInv, BornInv, NEW m \in Messages, claim[m] # NoNode
  PROVE  /\ state[m] = "waiting"
         /\ \A c \in Children(m) : c \in Messages /\ state[c] = "unborn" /\ Parent[c] = m
         /\ m \notin Children(m)
<1>1. state[m] = "waiting"
  BY DEF ClaimInv
<1>2. \A c \in Children(m) : c \in Messages /\ Parent[c] = m
  BY DEF Children
<1>3. m # None
  BY NamesAssumption
<1>4. \A c \in Children(m) : state[c] = "unborn"
  BY <1>1, <1>2, <1>3 DEF BornInv
<1> QED
  BY <1>1, <1>2, <1>4

\* What a pass or a turn writes: its Message fails or ends, and a turn that is
\* done has its Messages wait, at new places.
LEMMA EndingEach ==
  ASSUME Types, ClaimInv, BornInv, NEW n \in Nodes, NEW m \in Messages, Ending(n, m)
  PROVE  /\ phase[n][m] = "busy" /\ claim[m] = n /\ UNCHANGED seen
         /\ \A o \in Messages : claim'[o] = IF o = m THEN NoNode ELSE claim[o]
         /\ \A k \in Nodes, o \in Messages :
              phase'[k][o] = IF k = n /\ o = m THEN "idle" ELSE phase[k][o]
         /\ state'[m] \in {"failed", "ended"} /\ told'[m] = told[m]
         /\ spot'[m] \in {0, spot[m]}
         /\ state'[m] = "ended" => spot'[m] = 0
         /\ state'[m] = "failed" /\ KeyOf[m] \notin Skips => spot'[m] = spot[m]
         /\ \A o \in Messages : o # m =>
              \/ state'[o] = state[o] /\ spot'[o] = spot[o] /\ told'[o] = told[o]
              \/ /\ o \in Children(m) /\ state'[m] = "ended" /\ state'[o] = "waiting"
                 /\ IF KeyOf[o] = None THEN spot'[o] = spot[o] /\ told'[o] = told[o]
                    ELSE /\ spot'[o] = given[KeyOf[o]] + Nth[o] /\ told'[o]
                         /\ given'[KeyOf[o]] = given[KeyOf[o]] + Width
         /\ \A q \in Lines \cup Keys \cup Dests : given'[q] >= given[q]
         /\ \A s \in Streams : line'[s] \in {0, line[s]}
         /\ \A o \in Messages :
              Open(o, state'[o]) => line'[StreamOf[o]] = line[StreamOf[o]]
<1>1. HandsOn(n, m)
  BY DEF Ending, Sent, Fails, TurnFails, TurnDone
<1>2. /\ phase[n][m] = "busy" /\ claim[m] = n /\ UNCHANGED seen
      /\ \A o \in Messages : claim'[o] = IF o = m THEN NoNode ELSE claim[o]
      /\ \A k \in Nodes, o \in Messages :
           phase'[k][o] = IF k = n /\ o = m THEN "idle" ELSE phase[k][o]
  BY <1>1 DEF HandsOn, Moves, Types, NodesOK
<1>3. claim[m] # NoNode
  BY <1>2, NamesAssumption
<1>4. PICK next \in [Messages -> States] : Writes(next)
  <2>1. Becomes(m, "ended") \in [Messages -> States] /\ Becomes(m, "failed") \in [Messages -> States]
    BY BecomesTyped DEF Types, States
  <2>2. [o \in Messages |-> IF o = m THEN "ended" ELSE IF o \in Children(m) THEN "waiting"
                            ELSE state[o]] \in [Messages -> States]
    BY DEF Types, StateOK, States
  <2> QED
    BY <2>1, <2>2 DEF Ending, Sent, Fails, TurnFails, TurnDone
<1>5. /\ \A s \in Streams : line'[s] \in {0, line[s]}
      /\ \A o \in Messages : Open(o, state'[o]) => line'[StreamOf[o]] = line[StreamOf[o]]
  BY <1>4, WritesEach, ShapeAssumption DEF Types
<1>6. CASE Sent(n, m)
  <2>1. state' = [state EXCEPT ![m] = "ended"] /\ Joins({}, {}, {}, {m})
    BY <1>6 DEF Sent, Writes, Becomes
  <2>2. /\ \A o \in Messages : spot'[o] = (IF o = m THEN 0 ELSE spot[o]) /\ told'[o] = told[o]
        /\ \A q \in Lines \cup Keys \cup Dests : given'[q] = given[q]
    BY <2>1 DEF Joins, Types, PlacesOK
  <2> QED
    BY <1>2, <1>5, <2>1, <2>2 DEF Types, StateOK, PlacesOK
<1>7. CASE Fails(n, m)
  <2>1. PICK left \in {{}, {m}} :
          /\ state' = [state EXCEPT ![m] = "failed"] /\ Joins({}, {}, {}, left)
          /\ KeyOf[m] \notin Skips => left = {}
    BY <1>7 DEF Fails, Writes, Becomes
  <2>2. /\ \A o \in Messages : spot'[o] = (IF o \in left THEN 0 ELSE spot[o]) /\ told'[o] = told[o]
        /\ \A q \in Lines \cup Keys \cup Dests : given'[q] = given[q]
    BY <2>1 DEF Joins, Types, PlacesOK
  <2> QED
    BY <1>2, <1>5, <2>1, <2>2 DEF Types, StateOK, PlacesOK
<1>8. CASE TurnFails(n, m)
  <2>1. state' = [state EXCEPT ![m] = "failed"] /\ UNCHANGED <<spot, told, given>>
    BY <1>8 DEF TurnFails, Writes, Becomes
  <2> QED
    BY <1>2, <1>5, <2>1 DEF Types, StateOK, PlacesOK
<1>9. CASE TurnDone(n, m)
  <2> DEFINE C == Children(m)
  <2>1. /\ state' = [o \in Messages |-> IF o = m THEN "ended" ELSE IF o \in C THEN "waiting"
                                        ELSE state[o]]
        /\ Joins(C, Keyed(C), Queues(C, Keyed(C)), {m})
    BY <1>9 DEF TurnDone, Writes
  <2>2. \A o \in Messages :
          /\ spot'[o] = IF o \in Keyed(C) THEN given[KeyOf[o]] + Nth[o] ELSE IF o = m THEN 0 ELSE spot[o]
          /\ told'[o] = (told[o] \/ o \in Keyed(C))
    BY <2>1 DEF Joins
  <2>3. \A q \in Lines \cup Keys \cup Dests :
          given'[q] = IF q \in Queues(C, Keyed(C)) THEN given[q] + Width ELSE given[q]
    BY <2>1 DEF Joins, Types, PlacesOK
  <2>4. \A o \in C : KeyOf[o] # None => KeyOf[o] \in Queues(C, Keyed(C)) /\ KeyOf[o] \in Keys
    BY ShapeAssumption, BornTyped DEF Queues, Keyed
  <2>5. \A o : o \in Keyed(C) <=> o \in C /\ KeyOf[o] # None
    BY DEF Keyed
  <2>6. m \notin C
    BY <1>3, ClaimedChildless
  <2>7. told \in [Messages -> BOOLEAN] /\ given \in [Lines \cup Keys \cup Dests -> Nat]
    BY DEF Types, PlacesOK
  <2>8. state'[m] = "ended" /\ spot'[m] = 0 /\ told'[m] = told[m]
    BY <2>1, <2>2, <2>5, <2>6, <2>7
  <2>9. \A o \in Messages : o # m =>
          IF o \in C
            THEN /\ state'[o] = "waiting"
                 /\ IF KeyOf[o] = None THEN spot'[o] = spot[o] /\ told'[o] = told[o]
                    ELSE /\ spot'[o] = given[KeyOf[o]] + Nth[o] /\ told'[o]
                         /\ given'[KeyOf[o]] = given[KeyOf[o]] + Width
            ELSE state'[o] = state[o] /\ spot'[o] = spot[o] /\ told'[o] = told[o]
    <3> TAKE o \in Messages
    <3> HAVE o # m
    <3>1. o \notin Keyed(C) => told'[o] = told[o]
      BY <2>2, <2>7
    <3>2. state'[o] = IF o \in C THEN "waiting" ELSE state[o]
      BY <2>1
    <3>3. o \in Keyed(C) => /\ spot'[o] = given[KeyOf[o]] + Nth[o] /\ told'[o]
                            /\ given'[KeyOf[o]] = given[KeyOf[o]] + Width
      BY <2>2, <2>3, <2>4, <2>5
    <3>4. o \notin Keyed(C) => spot'[o] = spot[o]
      BY <2>2
    <3> HIDE DEF C
    <3> QED
      BY <3>1, <3>2, <3>3, <3>4, <2>5
  <2>10. \A q \in Lines \cup Keys \cup Dests : given'[q] >= given[q]
    BY NthIs, <2>3, <2>7
  <2> HIDE DEF C
  <2> QED
    BY <1>2, <1>5, <2>8, <2>9, <2>10 DEF C
<1> QED
  BY <1>6, <1>7, <1>8, <1>9 DEF Ending

\* What an operator's act writes: a failed Message waits again, or ends.
LEMMA ActEach ==
  ASSUME Types, NEW m \in Messages, Retry(m) \/ Dismiss(m)
  PROVE  /\ state[m] = "failed" /\ claim[m] = NoNode /\ UNCHANGED <<claim, phase, seen>>
         /\ \/ state'[m] = "waiting" /\ spot'[m] = spot[m]
            \/ state'[m] = "ended" /\ spot'[m] = 0
         /\ \A o \in Messages : told'[o] = told[o]
         /\ \A o \in Messages : o # m => state'[o] = state[o] /\ spot'[o] = spot[o]
         /\ \A q \in Lines \cup Keys \cup Dests : given'[q] >= given[q]
         /\ \A s \in Streams : line'[s] \in {0, line[s]}
         /\ \A o \in Messages :
              Open(o, state'[o]) => line'[StreamOf[o]] = line[StreamOf[o]]
<1>1. state[m] = "failed" /\ claim[m] = NoNode /\ UNCHANGED <<claim, phase, seen>>
  BY DEF Retry, Dismiss
<1>2. Becomes(m, "ended") \in [Messages -> States] /\ Becomes(m, "waiting") \in [Messages -> States]
  BY BecomesTyped DEF Types, States
<1>3. PICK next \in [Messages -> States] : Writes(next)
  BY <1>2 DEF Retry, Dismiss
<1>4. /\ \A s \in Streams : line'[s] \in {0, line[s]}
      /\ \A o \in Messages : Open(o, state'[o]) => line'[StreamOf[o]] = line[StreamOf[o]]
  BY <1>3, WritesEach, ShapeAssumption DEF Types
<1>5. CASE Retry(m)
  <2>1. state' = [state EXCEPT ![m] = "waiting"] /\ UNCHANGED <<spot, told>>
    BY <1>5 DEF Retry, Writes, Becomes
  <2>2. given' = given \/ given' = [given EXCEPT ![To[m]] = @ + 1]
    BY <1>5 DEF Retry
  <2>3. \A q \in Lines \cup Keys \cup Dests : given'[q] >= given[q]
    BY <2>2 DEF Types, PlacesOK
  <2> QED
    BY <1>1, <1>4, <2>1, <2>3 DEF Types, StateOK
<1>6. CASE Dismiss(m)
  <2>1. state' = [state EXCEPT ![m] = "ended"] /\ Joins({}, {}, {}, {m})
    BY <1>6 DEF Dismiss, Writes, Becomes
  <2>2. /\ \A o \in Messages : spot'[o] = (IF o = m THEN 0 ELSE spot[o]) /\ told'[o] = told[o]
        /\ \A q \in Lines \cup Keys \cup Dests : given'[q] = given[q]
    BY <2>1 DEF Joins, Types, PlacesOK
  <2> QED
    BY <1>1, <1>4, <2>1, <2>2 DEF Types, StateOK, PlacesOK
<1> QED
  BY <1>5, <1>6

\* How node k's work on Message o may stand after a quiet step: as before, not
\* asked yet, or past a question answered yes.
Stands(k, o) ==
  \/ phase'[k][o] = phase[k][o]
  \/ phase'[k][o] \in {"idle", "claimed", "passing"}
  \/ phase'[k][o] = "heading" /\ StreamHeads(k, o) /\ ~told[o]
  \/ phase'[k][o] = "streamed" /\ StreamHeads(k, o) /\ (told[o] \/ KeyOf[o] = None)
  \/ phase'[k][o] = "busy" /\ phase[k][o] = "streamed" /\ PointHeads(k, o)

\* Whose claim o may be after it: as before, nobody's, or taken of a Message that
\* waits, by a node that has asked nothing of it.
Claims(o) ==
  \/ claim'[o] \in {claim[o], NoNode}
  \/ state[o] = "waiting" /\ \A k \in Nodes :
       claim'[o] = k => phase'[k][o] \in {"idle", "claimed", "passing"}

\* What node k may remember after it: what it did, or what was just found first.
Knows(k) ==
  \A x \in seen'[k] :
    \/ x \in seen[k]
    \/ x \in Streams /\ line[x] # 0 /\ LineFirst(x)
    \/ x \in Messages /\ spot[x] # 0 /\ KeyFirst(x)

\* What a quiet step does.
LEMMA QuietEach ==
  ASSUME Types, Quiet
  PROVE  /\ UNCHANGED <<state, placeVars>>
         /\ \A k \in Nodes, o \in Messages : Stands(k, o)
         /\ \A o \in Messages : Claims(o)
         /\ \A k \in Nodes : Knows(k)
<1>0. UNCHANGED <<state, placeVars>>
  BY QuietFrame
<1>1. ASSUME NEW n \in Nodes, NEW m \in Messages, NEW p \in Phases, Moves(n, m, p)
      PROVE  \A k \in Nodes, o \in Messages :
               phase'[k][o] = IF k = n /\ o = m THEN p ELSE phase[k][o]
  BY <1>1 DEF Moves, Types, NodesOK
<1>2. ASSUME UNCHANGED seen PROVE \A k \in Nodes : Knows(k)
  BY <1>2 DEF Knows
<1>3. ASSUME UNCHANGED claim PROVE \A o \in Messages : Claims(o)
  BY <1>3 DEF Claims
<1>4. ASSUME NEW n \in Nodes, NEW x, NEW placed, Remember(n, x, placed)
      PROVE  \A k \in Nodes : \A y : y \in seen'[k] =>
               y \in seen[k] \/ (k = n /\ y = x /\ placed /\ x \notin seen[n])
  <2>1. CASE x \in seen[n] \/ ~placed
    BY <1>4, <2>1 DEF Remember
  <2>2. CASE ~(x \in seen[n] \/ ~placed)
    <3>1. PICK S \in {{}, seen[n]} : seen' = [seen EXCEPT ![n] = S \cup {x}]
      BY <1>4, <2>2 DEF Remember, Types, NodesOK
    <3> QED
      BY <3>1, <2>2 DEF Types, NodesOK
  <2> QED
    BY <2>1, <2>2
<1>5. ASSUME NEW n \in Nodes, NEW m \in Messages, Moves(n, m, "idle"),
             \A o \in Messages : claim'[o] \in {claim[o], NoNode}
      PROVE  /\ \A k \in Nodes, o \in Messages : Stands(k, o)
             /\ \A o \in Messages : Claims(o)
  BY <1>5, <1>1 DEF Stands, Claims, Phases
<1>6. ASSUME NEW n \in Nodes, NEW m \in Messages, Takes(n, m)
      PROVE  /\ \A k \in Nodes, o \in Messages : Stands(k, o)
             /\ \A o \in Messages : Claims(o)
             /\ \A k \in Nodes : Knows(k)
  <2>1. PICK p \in {"claimed", "passing"} : Moves(n, m, p)
    BY <1>6 DEF Takes
  <2>2. \A k \in Nodes, o \in Messages :
          phase'[k][o] = IF k = n /\ o = m THEN p ELSE phase[k][o]
    BY <1>1, <2>1 DEF Phases
  <2>3. /\ state[m] = "waiting" /\ UNCHANGED seen
        /\ \A o \in Messages : claim'[o] = IF o = m THEN n ELSE claim[o]
    BY <1>6 DEF Takes, LookedAt, Waits, Types, NodesOK
  <2> QED
    BY <2>2, <2>3, <1>2 DEF Stands, Claims
<1>7. ASSUME NEW n \in Nodes, NEW m \in Messages, TakesNot(n, m)
      PROVE  /\ \A k \in Nodes, o \in Messages : Stands(k, o)
             /\ \A o \in Messages : Claims(o)
             /\ \A k \in Nodes : Knows(k)
  <2>1. state[m] = "waiting" /\ UNCHANGED <<phase, seen>>
    BY <1>7 DEF TakesNot, LookedAt, Waits
  <2>2. UNCHANGED claim \/ (claim' = [claim EXCEPT ![m] = n] /\ phase[n][m] = "idle")
    BY <1>7 DEF TakesNot
  <2> QED
    BY <2>1, <2>2, <1>2, <1>3 DEF Stands, Claims, Types, NodesOK
<1>8. ASSUME NEW n \in Nodes, NEW m \in Messages, StreamAsked(n, m)
      PROVE  /\ \A k \in Nodes, o \in Messages : Stands(k, o)
             /\ \A o \in Messages : Claims(o)
             /\ \A k \in Nodes : Knows(k)
  <2>1. StreamHeads(n, m) /\ UNCHANGED claim
    BY <1>8 DEF StreamAsked
  <2>2. PICK p \in {"heading", "streamed"} :
          Moves(n, m, p) /\ (p = "heading" <=> ~told[m] /\ KeyOf[m] # None)
    BY <1>8 DEF StreamAsked, WaitsForPlaces
  <2>3. \A k \in Nodes, o \in Messages :
          phase'[k][o] = IF k = n /\ o = m THEN p ELSE phase[k][o]
    BY <1>1, <2>2 DEF Phases
  <2>4. \A k \in Nodes, o \in Messages : Stands(k, o)
    BY <2>1, <2>2, <2>3 DEF Stands
  <2>5. \A k \in Nodes : \A y : y \in seen'[k] =>
          \/ y \in seen[k]
          \/ k = n /\ y = StreamOf[m] /\ line[StreamOf[m]] # 0 /\ StreamOf[m] \notin seen[n]
    <3>1. PICK placed \in BOOLEAN :
            Remember(n, StreamOf[m], placed) /\ (placed => line[StreamOf[m]] # 0)
      BY <1>8 DEF StreamAsked
    <3> QED
      BY <1>4, <3>1
  <2>6. \A k \in Nodes : Knows(k)
    BY <2>1, <2>5, ShapeAssumption DEF Knows, StreamHeads
  <2> QED
    BY <2>1, <2>4, <2>6, <1>3
<1>9. ASSUME NEW n \in Nodes, NEW m \in Messages, LetThrough(n, m)
      PROVE  /\ \A k \in Nodes, o \in Messages : Stands(k, o)
             /\ \A o \in Messages : Claims(o)
             /\ \A k \in Nodes : Knows(k)
  <2>1. PointHeads(n, m) /\ phase[n][m] = "streamed" /\ UNCHANGED claim
    BY <1>9 DEF LetThrough
  <2>2. \A k \in Nodes, o \in Messages :
          phase'[k][o] = IF k = n /\ o = m THEN "busy" ELSE phase[k][o]
    BY <1>1, <1>9 DEF LetThrough, Phases
  <2>3. \A k \in Nodes, o \in Messages : Stands(k, o)
    BY <2>1, <2>2 DEF Stands
  <2>4. \A k \in Nodes : \A y : y \in seen'[k] =>
          y \in seen[k] \/ (k = n /\ y = m /\ spot[m] # 0 /\ m \notin seen[n])
    BY <1>4, <1>9 DEF LetThrough
  <2>5. \A k \in Nodes : Knows(k)
    BY <2>1, <2>4 DEF Knows, PointHeads
  <2> QED
    BY <2>1, <2>3, <2>5, <1>3
<1>10. ASSUME NEW n \in Nodes, NEW m \in Messages,
              StreamBehind(n, m) \/ PointBehind(n, m) \/ GivesUp(n, m) \/ Loses(n, m)
              \/ Again(n, m)
       PROVE  /\ \A k \in Nodes, o \in Messages : Stands(k, o)
              /\ \A o \in Messages : Claims(o)
              /\ \A k \in Nodes : Knows(k)
  <2>1. Moves(n, m, "idle") /\ UNCHANGED seen /\ \A o \in Messages : claim'[o] \in {claim[o], NoNode}
    BY <1>10 DEF StreamBehind, PointBehind, GivesUp, Loses, Again, HandsOn, GivenBack, Types, NodesOK
  <2>2. \A k \in Nodes : Knows(k)
    BY <2>1, <1>2
  <2>3. /\ \A k \in Nodes, o \in Messages : Stands(k, o)
        /\ \A o \in Messages : Claims(o)
    BY <2>1, <1>5
  <2> QED
    BY <2>2, <2>3
<1>11. ASSUME NEW n \in Nodes, NEW d \in Dests, ScanEnds(n, d)
       PROVE  /\ \A k \in Nodes, o \in Messages : Stands(k, o)
              /\ \A o \in Messages : Claims(o)
              /\ \A k \in Nodes : Knows(k)
  BY <1>11, <1>2, <1>3 DEF ScanEnds, Stands
<1>12. ASSUME NEW m \in Messages, Lapses(m)
       PROVE  /\ \A k \in Nodes, o \in Messages : Stands(k, o)
              /\ \A o \in Messages : Claims(o)
              /\ \A k \in Nodes : Knows(k)
  BY <1>12, <1>2 DEF Lapses, Stands, Claims, Types, NodesOK
<1>13. ASSUME NEW n \in Nodes, Crash(n)
       PROVE  /\ \A k \in Nodes, o \in Messages : Stands(k, o)
              /\ \A o \in Messages : Claims(o)
              /\ \A k \in Nodes : Knows(k)
  BY <1>13, <1>3 DEF Crash, Stands, Knows, Types, NodesOK
<1> QED
  BY <1>0, <1>6, <1>7, <1>8, <1>9, <1>10, <1>11, <1>12, <1>13 DEF Quiet

----------------------------------------------------------------------------
(* The invariants, one after the other.                                    *)

\* Every step keeps a claim on what waits.
LEMMA ClaimKept ==
  ASSUME Types, ClaimInv, BornInv, [Next]_vars
  PROVE  ClaimInv'
<1>1. CASE UNCHANGED vars
  BY <1>1 DEF ClaimInv
<1>2. CASE Quiet
  <2>1. UNCHANGED state /\ \A o \in Messages : Claims(o)
    BY <1>2, QuietEach
  <2> QED
    BY <2>1 DEF ClaimInv, Claims
<1>3. ASSUME NEW s \in Streams, Receive(s) PROVE ClaimInv'
  BY <1>3, ReceiveEach DEF ClaimInv
<1>4. ASSUME NEW n \in Nodes, NEW m \in Messages, Placing(n, m) PROVE ClaimInv'
  <2>1. UNCHANGED state /\ \A o \in Messages : claim'[o] \in {claim[o], NoNode}
    BY <1>4, PlacingEach
  <2> QED
    BY <2>1 DEF ClaimInv
<1>5. ASSUME NEW n \in Nodes, NEW m \in Messages, Ending(n, m) PROVE ClaimInv'
  <2>1. \A o \in Messages : o # m => state'[o] \in {state[o], "waiting"} /\ claim'[o] = claim[o]
    BY <1>5, EndingEach
  <2>2. claim'[m] = NoNode
    BY <1>5, EndingEach
  <2> QED
    BY <2>1, <2>2 DEF ClaimInv
<1>6. ASSUME NEW m \in Messages, Retry(m) \/ Dismiss(m) PROVE ClaimInv'
  BY <1>6, ActEach DEF ClaimInv
<1> QED
  BY <1>1, <1>2, <1>3, <1>4, <1>5, <1>6, Steps

\* Every step has a Stream received once and a turn publish once.
LEMMA BornKept ==
  ASSUME Types, ClaimInv, BornInv, [Next]_vars
  PROVE  BornInv'
<1>1. CASE UNCHANGED vars
  BY <1>1 DEF BornInv
<1>2. CASE Quiet
  BY <1>2, QuietFrame DEF BornInv
<1>3. ASSUME NEW s \in Streams, Receive(s) PROVE BornInv'
  <2>1. /\ \A m \in Messages : state'[m] = IF m \in Roots(s) THEN "waiting" ELSE state[m]
        /\ \A m \in Roots(s) : state[m] = "unborn"
        /\ \A m \in Messages : told'[m] = told[m] \/ m \in Roots(s)
        /\ \A t \in Streams : line'[t] = IF t = s /\ LineOf[s] # None THEN given[LineOf[s]] + 1
                                          ELSE line[t]
    BY <1>3, ReceiveEach
  <2>2. \A m \in Roots(s) : m \in Messages /\ StreamOf[m] = s /\ Parent[m] = None
    BY DEF Roots
  <2>3. \A m \in Messages : state[m] # "unborn" => state'[m] # "unborn"
    BY <2>1
  <2>4. \A t : \A r \in Roots(t) : r \in Messages
    BY BornTyped
  <2>5. \A m \in Messages :
          state'[m] # "unborn" => \A r \in Roots(StreamOf[m]) : state'[r] # "unborn"
    BY <2>1, <2>2, <2>3, <2>4 DEF BornInv
  <2>6. \A m \in Messages :
          Parent[m] # None /\ state'[m] # "unborn" => state'[Parent[m]] = "ended"
    BY <2>1, <2>2, ShapeAssumption DEF BornInv
  <2>7. \A m \in Messages : state'[m] = "unborn" => ~told'[m]
    BY <2>1 DEF BornInv
  <2>8. \A t \in Streams :
          line'[t] # 0 => LineOf[t] # None /\ \A r \in Roots(t) : state'[r] # "unborn"
    BY <2>1, <2>3, <2>4 DEF BornInv
  <2> QED
    BY <2>5, <2>6, <2>7, <2>8 DEF BornInv
<1>4. ASSUME NEW n \in Nodes, NEW m \in Messages, Placing(n, m) PROVE BornInv'
  <2>1. claim[m] # NoNode /\ UNCHANGED <<state, line>> /\ \A o \in Messages : o # m => told'[o] = told[o]
    <3>1. claim[m] = n /\ UNCHANGED <<state, line>>
      BY <1>4, PlacingEach
    <3>2. \A o \in Messages : o # m => told'[o] = told[o]
      BY <1>4, PlacingEach
    <3> QED
      BY <3>1, <3>2, NamesAssumption
  <2>2. state[m] = "waiting"
    BY <2>1 DEF ClaimInv
  <2> QED
    BY <2>1, <2>2 DEF BornInv
<1>5. ASSUME NEW n \in Nodes, NEW m \in Messages, Ending(n, m) PROVE BornInv'
  <2>1. claim[m] # NoNode
    BY <1>5, EndingEach, NamesAssumption
  <2>2. /\ state[m] = "waiting" /\ m \notin Children(m)
        /\ \A c \in Children(m) : c \in Messages /\ state[c] = "unborn" /\ Parent[c] = m
    BY <2>1, ClaimedChildless
  <2>3. /\ state'[m] \in {"failed", "ended"}
        /\ \A o \in Messages : o # m =>
             \/ state'[o] = state[o] /\ told'[o] = told[o]
             \/ o \in Children(m) /\ state'[m] = "ended" /\ state'[o] = "waiting"
        /\ \A s \in Streams : line'[s] \in {0, line[s]}
    BY <1>5, EndingEach
  <2>4. \A o \in Messages : state[o] # "unborn" => state'[o] # "unborn"
    BY <2>3
  <2>5. \A t : \A r \in Roots(t) : r \in Messages
    BY BornTyped
  <2>6. \A c \in Children(m) : StreamOf[c] = StreamOf[m]
    BY <2>2, ShapeAssumption, NamesAssumption
  <2>7. \A o \in Messages :
          state'[o] # "unborn" => \A r \in Roots(StreamOf[o]) : state[r] # "unborn"
    BY <2>2, <2>3, <2>6 DEF BornInv
  <2>8. \A o \in Messages : state[o] = "ended" => state'[o] = "ended"
    BY <2>2, <2>3
  <2>9. \A o \in Messages :
          Parent[o] # None /\ state'[o] # "unborn" => state'[Parent[o]] = "ended"
    BY <2>2, <2>3, <2>8, ShapeAssumption DEF BornInv
  <2>10. \A o \in Messages : state'[o] = "unborn" => ~told'[o]
    BY <2>3 DEF BornInv
  <2>11. \A t \in Streams :
          line'[t] # 0 => LineOf[t] # None /\ \A r \in Roots(t) : state'[r] # "unborn"
    BY <2>3, <2>4, <2>5 DEF BornInv
  <2> QED
    BY <2>4, <2>5, <2>7, <2>9, <2>10, <2>11 DEF BornInv
<1>6. ASSUME NEW m \in Messages, Retry(m) \/ Dismiss(m) PROVE BornInv'
  <2>1. /\ state[m] = "failed" /\ state'[m] \in {"waiting", "ended"}
        /\ \A o \in Messages : told'[o] = told[o]
        /\ \A o \in Messages : o # m => state'[o] = state[o]
        /\ \A s \in Streams : line'[s] \in {0, line[s]}
    BY <1>6, ActEach
  <2>2. \A o \in Messages : state[o] = "unborn" <=> state'[o] = "unborn"
    BY <2>1
  <2>3. \A t : \A r \in Roots(t) : r \in Messages
    BY BornTyped
  <2>4. \A o \in Messages :
          Parent[o] # None /\ state'[o] # "unborn" => state'[Parent[o]] = "ended"
    BY <2>1, <2>2, ShapeAssumption DEF BornInv
  <2> QED
    BY <2>1, <2>2, <2>3, <2>4 DEF BornInv
<1> QED
  BY <1>1, <1>2, <1>3, <1>4, <1>5, <1>6, Steps

\* Every Message's sequence, Stream and Stream's sequence, where it has one.
LEMMA Shapes ==
  /\ \A m \in Messages : StreamOf[m] \in Streams
  /\ \A m \in Messages : KeyOf[m] # None => KeyOf[m] \in Lines \cup Keys \cup Dests
  /\ \A s \in Streams : LineOf[s] # None => LineOf[s] \in Lines \cup Keys \cup Dests
BY ShapeAssumption

\* A step that gives no place in a line, and lets go of none that an open Journey
\* needs, keeps every Stream its own.
LEMMA LineKeptIf ==
  ASSUME Types, PlacesOK', BornInv, LineInv,
         \A q \in Lines \cup Keys \cup Dests : given'[q] >= given[q],
         \A s \in Streams : line'[s] \in {0, line[s]},
         \A m \in Messages :
           state'[m] \in {"waiting", "failed"} /\ LineOf[StreamOf[m]] \notin Skips \cup {None} =>
             /\ line'[StreamOf[m]] = line[StreamOf[m]]
             /\ \E o \in Messages : StreamOf[o] = StreamOf[m] /\ state[o] \in {"waiting", "failed"}
  PROVE  LineInv'
<1>1. \A s \in Streams : line'[s] # 0 => line'[s] <= given'[LineOf[s]]
  <2> SUFFICES ASSUME NEW s \in Streams, line'[s] # 0 PROVE line'[s] <= given'[LineOf[s]]
    OBVIOUS
  <2>1. line'[s] = line[s] /\ line[s] <= given[LineOf[s]]
    BY DEF LineInv
  <2>2. LineOf[s] \in Lines \cup Keys \cup Dests
    BY <2>1, Shapes DEF BornInv
  <2>3. given'[LineOf[s]] >= given[LineOf[s]]
    BY <2>2
  <2>4. given[LineOf[s]] \in Nat /\ given'[LineOf[s]] \in Nat /\ line[s] \in Nat
    BY <2>2 DEF Types, PlacesOK, LineOK
  <2> QED
    BY <2>1, <2>3, <2>4
<1>2. \A s, t \in Streams :
        line'[s] # 0 /\ line'[s] = line'[t] /\ LineOf[s] = LineOf[t] => s = t
  BY DEF LineInv
<1>3. \A m \in Messages :
        state'[m] \in {"waiting", "failed"} /\ LineOf[StreamOf[m]] \notin Skips \cup {None}
          => line'[StreamOf[m]] # 0
  <2> SUFFICES ASSUME NEW m \in Messages, state'[m] \in {"waiting", "failed"},
                      LineOf[StreamOf[m]] \notin Skips \cup {None}
               PROVE  line'[StreamOf[m]] # 0
    OBVIOUS
  <2>1. PICK o \in Messages : StreamOf[o] = StreamOf[m] /\ state[o] \in {"waiting", "failed"}
    OBVIOUS
  <2>2. line[StreamOf[o]] # 0
    BY <2>1 DEF LineInv
  <2> QED
    BY <2>1, <2>2
<1> QED
  BY <1>1, <1>2, <1>3 DEF LineInv

\* Every step keeps a Stream its own place.
LEMMA LineKept ==
  ASSUME Types, Types', ClaimInv, BornInv, LineInv, [Next]_vars
  PROVE  LineInv'
<1>1. CASE UNCHANGED vars
  BY <1>1 DEF LineInv
<1>2. CASE Quiet
  BY <1>2, QuietFrame DEF LineInv
<1>3. ASSUME NEW s \in Streams, Receive(s) PROVE LineInv'
  <2>1. /\ \A m \in Messages : state'[m] = IF m \in Roots(s) THEN "waiting" ELSE state[m]
        /\ \A t \in Streams : line'[t] = IF t = s /\ LineOf[s] # None THEN given[LineOf[s]] + 1
                                          ELSE line[t]
        /\ \A q \in Lines \cup Keys \cup Dests : given'[q] >= given[q]
        /\ LineOf[s] # None => given'[LineOf[s]] = given[LineOf[s]] + Width
    BY <1>3, ReceiveEach
  <2>2. \A q \in Lines \cup Keys \cup Dests : given[q] \in Nat /\ given'[q] \in Nat
    BY DEF Types, PlacesOK
  <2>3. \A t \in Streams : line[t] \in Nat
    BY DEF Types, LineOK
  <2>4. \A t \in Streams : line'[t] # 0 => line'[t] <= given'[LineOf[t]]
    <3> SUFFICES ASSUME NEW t \in Streams, line'[t] # 0 PROVE line'[t] <= given'[LineOf[t]]
      OBVIOUS
    <3>1. CASE t = s /\ LineOf[s] # None
      BY NthIs, <3>1, <2>1, <2>2, Shapes
    <3>2. CASE ~(t = s /\ LineOf[s] # None)
      <4>1. line'[t] = line[t] /\ line[t] <= given[LineOf[t]] /\ LineOf[t] # None
        BY <3>2, <2>1 DEF LineInv, BornInv
      <4> QED
        BY <4>1, <2>1, <2>2, <2>3, Shapes
    <3> QED
      BY <3>1, <3>2
  <2>5. \A t \in Streams : t # s /\ LineOf[t] = LineOf[s] /\ LineOf[s] # None => line[t] <= given[LineOf[s]]
    <3> SUFFICES ASSUME NEW t \in Streams, LineOf[t] = LineOf[s], LineOf[s] # None
                 PROVE  line[t] <= given[LineOf[s]]
      OBVIOUS
    <3>1. line[t] # 0 => line[t] <= given[LineOf[s]]
      BY DEF LineInv
    <3> QED
      BY <3>1, <2>2, <2>3, Shapes
  <2>6. \A t, u \in Streams :
          line'[t] # 0 /\ line'[t] = line'[u] /\ LineOf[t] = LineOf[u] => t = u
    <3> SUFFICES ASSUME NEW t \in Streams, NEW u \in Streams, line'[t] # 0, line'[t] = line'[u],
                        LineOf[t] = LineOf[u]
                 PROVE  t = u
      OBVIOUS
    <3>1. LineOf[s] # None => given[LineOf[s]] \in Nat
      BY <2>2, Shapes
    <3>2. CASE t = s /\ u # s /\ LineOf[s] # None
      BY <3>1, <3>2, <2>1, <2>3, <2>5
    <3>3. CASE u = s /\ t # s /\ LineOf[s] # None
      BY <3>1, <3>3, <2>1, <2>3, <2>5
    <3>4. CASE (t # s /\ u # s) \/ LineOf[s] = None
      BY <3>4, <2>1 DEF LineInv
    <3> QED
      BY <3>2, <3>3, <3>4
  <2>7. \A m \in Roots(s) : StreamOf[m] = s
    BY DEF Roots
  <2>8. LineOf[s] # None => given[LineOf[s]] + 1 # 0
    BY <2>2, Shapes
  <2>9. \A m \in Messages :
          state'[m] \in {"waiting", "failed"} /\ LineOf[StreamOf[m]] \notin Skips \cup {None}
            => line'[StreamOf[m]] # 0
    BY <2>1, <2>7, <2>8, Shapes DEF LineInv
  <2> QED
    BY <2>4, <2>6, <2>9 DEF LineInv
<1>4. ASSUME NEW n \in Nodes, NEW m \in Messages, Placing(n, m) PROVE LineInv'
  <2>1. UNCHANGED <<state, line>>
    BY <1>4, PlacingEach
  <2>2. \A q \in Lines \cup Keys \cup Dests : given'[q] \in {given[q], given[q] + Width}
    BY <1>4, PlacingEach
  <2>3. \A q \in Lines \cup Keys \cup Dests : given'[q] >= given[q]
    BY NthIs, <2>2 DEF Types, PlacesOK
  <2> QED
    BY <2>1, <2>3, LineKeptIf DEF Types
<1>5. ASSUME NEW n \in Nodes, NEW m \in Messages, Ending(n, m) PROVE LineInv'
  <2>1. claim[m] # NoNode
    BY <1>5, EndingEach, NamesAssumption
  <2>2. /\ state[m] = "waiting"
        /\ \A c \in Children(m) : c \in Messages /\ Parent[c] = m
    BY <2>1, ClaimedChildless
  <2>3. /\ \A o \in Messages : o # m => state'[o] = state[o] \/ o \in Children(m)
        /\ \A q \in Lines \cup Keys \cup Dests : given'[q] >= given[q]
        /\ \A s \in Streams : line'[s] \in {0, line[s]}
        /\ \A o \in Messages : Open(o, state'[o]) => line'[StreamOf[o]] = line[StreamOf[o]]
    BY <1>5, EndingEach
  <2>4. \A c \in Children(m) : StreamOf[c] = StreamOf[m]
    BY <2>2, ShapeAssumption, NamesAssumption
  <2>5. \A o \in Messages : state'[o] \in {"waiting", "failed"} =>
          \E u \in Messages : StreamOf[u] = StreamOf[o] /\ state[u] \in {"waiting", "failed"}
    BY <2>2, <2>3, <2>4
  <2>6. \A o \in Messages :
          state'[o] \in {"waiting", "failed"} /\ LineOf[StreamOf[o]] \notin Skips \cup {None}
            => line'[StreamOf[o]] = line[StreamOf[o]]
    BY <2>3 DEF Open
  <2> QED
    BY <2>3, <2>5, <2>6, LineKeptIf DEF Types
<1>6. ASSUME NEW m \in Messages, Retry(m) \/ Dismiss(m) PROVE LineInv'
  <2>1. /\ state[m] = "failed"
        /\ \A o \in Messages : o # m => state'[o] = state[o]
        /\ \A q \in Lines \cup Keys \cup Dests : given'[q] >= given[q]
        /\ \A s \in Streams : line'[s] \in {0, line[s]}
        /\ \A o \in Messages : Open(o, state'[o]) => line'[StreamOf[o]] = line[StreamOf[o]]
    BY <1>6, ActEach
  <2>2. \A o \in Messages :
          state'[o] \in {"waiting", "failed"} /\ LineOf[StreamOf[o]] \notin Skips \cup {None} =>
            /\ line'[StreamOf[o]] = line[StreamOf[o]]
            /\ \E u \in Messages : StreamOf[u] = StreamOf[o] /\ state[u] \in {"waiting", "failed"}
    BY <2>1 DEF Open
  <2> QED
    BY <2>1, <2>2, LineKeptIf DEF Types
<1> QED
  BY <1>1, <1>2, <1>3, <1>4, <1>5, <1>6, Steps

\* The Messages a step gives a place: each one of its own, past the last given of
\* its sequence, told of it, and waiting.
Placed(T) ==
  /\ \A m \in T :
       /\ KeyOf[m] # None /\ ~told[m] /\ told'[m]
       /\ spot'[m] = given[KeyOf[m]] + Nth[m] /\ given'[KeyOf[m]] = given[KeyOf[m]] + Width
       /\ state'[m] = "waiting"
  /\ \A m, o \in T : Nth[m] = Nth[o] => m = o

\* And what it does to every other: its place kept, or let go as its Journey ends
\* or its sequence skips.
Keeps(T) ==
  \A m \in Messages : m \notin T =>
    /\ told'[m] = told[m] /\ spot'[m] \in {0, spot[m]}
    /\ spot'[m] # 0 => state'[m] \in {"waiting", "failed"}
    /\ state'[m] \in {"waiting", "failed"} /\ told[m] =>
         /\ state[m] \in {"waiting", "failed"}
         /\ KeyOf[m] \notin Skips => spot'[m] = spot[m]

\* What each step gives and keeps of the places at destinations.
LEMMA PlacesEach ==
  ASSUME Types, Types', ClaimInv, BornInv, SpotInv, PointInv, [Next]_vars
  PROVE  /\ \E T \in SUBSET Messages : Placed(T) /\ Keeps(T)
         /\ \A q \in Lines \cup Keys \cup Dests : given'[q] >= given[q]
<1>0. \A m \in Messages : spot[m] # 0 => state[m] \in {"waiting", "failed"}
  BY DEF SpotInv
<1>n. \A q \in Lines \cup Keys \cup Dests : given[q] \in Nat
  BY DEF Types, PlacesOK
<1>1. CASE UNCHANGED vars \/ Quiet
  <2>1. UNCHANGED <<state, spot, told, given>>
    BY <1>1, QuietFrame
  <2>2. Placed({}) /\ Keeps({})
    BY <2>1, <1>0 DEF Placed, Keeps
  <2> QED
    BY <2>1, <2>2, <1>n
<1>2. ASSUME NEW s \in Streams, Receive(s)
      PROVE  /\ \E T \in SUBSET Messages : Placed(T) /\ Keeps(T)
             /\ \A q \in Lines \cup Keys \cup Dests : given'[q] >= given[q]
  <2> DEFINE T == {m \in Roots(s) : KeyOf[m] # None /\ LineOf[s] = None}
  <2>1. /\ \A m \in Roots(s) : state[m] = "unborn"
        /\ \A m \in Messages : state'[m] = IF m \in Roots(s) THEN "waiting" ELSE state[m]
        /\ \A m \in Messages :
             IF m \in Roots(s) /\ KeyOf[m] # None /\ LineOf[s] = None
               THEN /\ spot'[m] = given[KeyOf[m]] + Nth[m] /\ told'[m]
                    /\ given'[KeyOf[m]] = given[KeyOf[m]] + Width
               ELSE spot'[m] = spot[m] /\ told'[m] = told[m]
        /\ \A q \in Lines \cup Keys \cup Dests : given'[q] >= given[q]
    BY <1>2, ReceiveEach
  <2>2. \A m \in Roots(s) : m \in Messages /\ StreamOf[m] = s /\ Parent[m] = None
    BY DEF Roots
  <2>3. \A m \in Roots(s) : ~told[m] /\ spot[m] = 0
    BY <2>1, <2>2, <1>0 DEF BornInv
  <2>4. \A m, o \in T : Nth[m] = Nth[o] => m = o
    BY <2>2, ShapeAssumption
  <2>5. Placed(T)
    BY <2>1, <2>2, <2>3, <2>4 DEF Placed
  <2>6. Keeps(T)
    BY <2>1, <2>2, <2>3, <1>0 DEF Keeps
  <2> QED
    BY <2>1, <2>2, <2>5, <2>6
<1>3. ASSUME NEW n \in Nodes, NEW m \in Messages, Placing(n, m)
      PROVE  /\ \E T \in SUBSET Messages : Placed(T) /\ Keeps(T)
             /\ \A q \in Lines \cup Keys \cup Dests : given'[q] >= given[q]
  <2>1. /\ phase[n][m] = "heading" /\ claim[m] = n /\ KeyOf[m] # None /\ UNCHANGED state
        /\ \A o \in Messages : o # m => spot'[o] = spot[o] /\ told'[o] = told[o]
        /\ spot'[m] = given[KeyOf[m]] + Nth[m] /\ told'[m]
        /\ \A q \in Lines \cup Keys \cup Dests :
             given'[q] = IF q = KeyOf[m] THEN given[q] + Width ELSE given[q]
    BY <1>3, PlacingEach
  <2>2. ~told[m] /\ state[m] = "waiting"
    BY <2>1, NamesAssumption DEF PointInv, ClaimInv
  <2>3. Placed({m})
    BY <2>1, <2>2, Shapes DEF Placed
  <2>4. Keeps({m})
    BY <2>1, <1>0 DEF Keeps
  <2>5. \A q \in Lines \cup Keys \cup Dests : given'[q] >= given[q]
    BY NthIs, <2>1, <1>n
  <2> QED
    BY <2>3, <2>4, <2>5
<1>4. ASSUME NEW n \in Nodes, NEW m \in Messages, Ending(n, m)
      PROVE  /\ \E T \in SUBSET Messages : Placed(T) /\ Keeps(T)
             /\ \A q \in Lines \cup Keys \cup Dests : given'[q] >= given[q]
  <2>1. claim[m] # NoNode
    BY <1>4, EndingEach, NamesAssumption
  <2>2. /\ state[m] = "waiting" /\ m \notin Children(m)
        /\ \A c \in Children(m) : c \in Messages /\ state[c] = "unborn" /\ Parent[c] = m
    BY <2>1, ClaimedChildless
  <2>3. /\ state'[m] \in {"failed", "ended"} /\ told'[m] = told[m]
        /\ spot'[m] \in {0, spot[m]}
        /\ state'[m] = "ended" => spot'[m] = 0
        /\ state'[m] = "failed" /\ KeyOf[m] \notin Skips => spot'[m] = spot[m]
    BY <1>4, EndingEach
  <2>4. \A o \in Messages : o # m =>
          \/ state'[o] = state[o] /\ spot'[o] = spot[o] /\ told'[o] = told[o]
          \/ /\ o \in Children(m) /\ state'[o] = "waiting"
             /\ IF KeyOf[o] = None THEN spot'[o] = spot[o] /\ told'[o] = told[o]
                ELSE /\ spot'[o] = given[KeyOf[o]] + Nth[o] /\ told'[o]
                     /\ given'[KeyOf[o]] = given[KeyOf[o]] + Width
    BY <1>4, EndingEach
  <2>5. \A q \in Lines \cup Keys \cup Dests : given'[q] >= given[q]
    BY <1>4, EndingEach
  <2>6. \A c \in Children(m) : StreamOf[c] = StreamOf[m] /\ ~told[c] /\ spot[c] = 0
    BY <2>2, <1>0, ShapeAssumption, NamesAssumption DEF BornInv
  <2> DEFINE T == {c \in Children(m) : KeyOf[c] # None /\ state'[c] # "unborn"}
  <2>7. \A a, b \in T : Nth[a] = Nth[b] => a = b
    BY <2>2, <2>6, ShapeAssumption
  <2>8. Placed(T)
    BY <2>2, <2>4, <2>6, <2>7 DEF Placed
  <2>9. Keeps(T)
    <3> SUFFICES ASSUME NEW o \in Messages, o \notin T
                 PROVE  /\ told'[o] = told[o] /\ spot'[o] \in {0, spot[o]}
                        /\ spot'[o] # 0 => state'[o] \in {"waiting", "failed"}
                        /\ state'[o] \in {"waiting", "failed"} /\ told[o] =>
                             /\ state[o] \in {"waiting", "failed"}
                             /\ KeyOf[o] \notin Skips => spot'[o] = spot[o]
      BY DEF Keeps
    <3>1. CASE o = m
      BY <3>1, <2>2, <2>3
    <3>2. CASE o # m /\ o \in Children(m)
      BY <3>2, <2>2, <2>4, <2>6
    <3>3. CASE o # m /\ o \notin Children(m)
      BY <3>3, <2>4, <1>0
    <3> QED
      BY <3>1, <3>2, <3>3
  <2> QED
    BY <2>2, <2>5, <2>8, <2>9
<1>5. ASSUME NEW m \in Messages, Retry(m) \/ Dismiss(m)
      PROVE  /\ \E T \in SUBSET Messages : Placed(T) /\ Keeps(T)
             /\ \A q \in Lines \cup Keys \cup Dests : given'[q] >= given[q]
  <2>1. /\ state[m] = "failed"
        /\ \/ state'[m] = "waiting" /\ spot'[m] = spot[m]
           \/ state'[m] = "ended" /\ spot'[m] = 0
        /\ \A o \in Messages : told'[o] = told[o]
        /\ \A o \in Messages : o # m => state'[o] = state[o] /\ spot'[o] = spot[o]
        /\ \A q \in Lines \cup Keys \cup Dests : given'[q] >= given[q]
    BY <1>5, ActEach
  <2>2. Placed({}) /\ Keeps({})
    BY <2>1, <1>0 DEF Placed, Keeps
  <2> QED
    BY <2>1, <2>2
<1> QED
  BY <1>1, <1>2, <1>3, <1>4, <1>5, Steps

\* So every step keeps a Message its own place.
LEMMA SpotKept ==
  ASSUME Types, Types', SpotInv, NEW T \in SUBSET Messages, Placed(T), Keeps(T),
         \A q \in Lines \cup Keys \cup Dests : given'[q] >= given[q]
  PROVE  SpotInv'
<1>1. \A m \in Messages : KeyOf[m] # None =>
        given[KeyOf[m]] \in Nat /\ given'[KeyOf[m]] \in Nat /\ given'[KeyOf[m]] >= given[KeyOf[m]]
  BY Shapes DEF Types, PlacesOK
<1>2. \A m \in Messages : spot[m] \in Nat /\ spot'[m] \in Nat
  BY DEF Types, PlacesOK
<1>3. \A m \in Messages : spot'[m] # 0 =>
        /\ KeyOf[m] # None /\ told'[m]
        /\ spot'[m] <= given'[KeyOf[m]]
        /\ state'[m] \in {"waiting", "failed"}
  <2> SUFFICES ASSUME NEW m \in Messages, spot'[m] # 0
               PROVE  /\ KeyOf[m] # None /\ told'[m]
                      /\ spot'[m] <= given'[KeyOf[m]]
                      /\ state'[m] \in {"waiting", "failed"}
    OBVIOUS
  <2>1. CASE m \in T
    BY NthIs, <2>1, <1>1 DEF Placed
  <2>2. CASE m \notin T
    <3>1. spot'[m] = spot[m] /\ told'[m] = told[m] /\ state'[m] \in {"waiting", "failed"}
      BY <2>2 DEF Keeps
    <3>2. KeyOf[m] # None /\ told[m] /\ spot[m] <= given[KeyOf[m]]
      BY <3>1 DEF SpotInv
    <3> QED
      BY <3>1, <3>2, <1>1, <1>2
  <2> QED
    BY <2>1, <2>2
<1>4. \A m \in T, o \in Messages :
        o \notin T /\ KeyOf[m] = KeyOf[o] => spot'[m] # spot'[o]
  <2> SUFFICES ASSUME NEW m \in T, NEW o \in Messages, o \notin T, KeyOf[m] = KeyOf[o]
               PROVE  spot'[m] # spot'[o]
    OBVIOUS
  <2>1. KeyOf[m] # None /\ spot'[m] = given[KeyOf[m]] + Nth[m] /\ spot'[o] \in {0, spot[o]}
    BY DEF Placed, Keeps
  <2>2. spot[o] # 0 => spot[o] <= given[KeyOf[m]]
    BY DEF SpotInv
  <2> QED
    BY NthIs, <2>1, <2>2, <1>1, <1>2
<1>5. \A m, o \in Messages :
        spot'[m] # 0 /\ spot'[m] = spot'[o] /\ KeyOf[m] = KeyOf[o] => m = o
  <2> SUFFICES ASSUME NEW m \in Messages, NEW o \in Messages, spot'[m] # 0,
                      spot'[m] = spot'[o], KeyOf[m] = KeyOf[o]
               PROVE  m = o
    OBVIOUS
  <2>1. CASE m \in T /\ o \in T
    <3>1. given[KeyOf[m]] + Nth[m] = given[KeyOf[m]] + Nth[o] /\ KeyOf[m] # None
      BY <2>1 DEF Placed
    <3>2. Nth[m] = Nth[o]
      BY <3>1, <1>1, NthIs
    <3> QED
      BY <2>1, <3>2 DEF Placed
  <2>2. CASE m \notin T /\ o \notin T
    BY <2>2 DEF Keeps, SpotInv
  <2> QED
    BY <2>1, <2>2, <1>4
<1>6. \A m \in Messages :
        state'[m] \in {"waiting", "failed"} /\ told'[m] /\ KeyOf[m] \notin Skips \cup {None}
          => spot'[m] # 0
  <2> SUFFICES ASSUME NEW m \in Messages, state'[m] \in {"waiting", "failed"}, told'[m],
                      KeyOf[m] \notin Skips \cup {None}
               PROVE  spot'[m] # 0
    OBVIOUS
  <2>1. CASE m \in T
    BY NthIs, <2>1, <1>1 DEF Placed
  <2>2. CASE m \notin T
    BY <2>2 DEF Keeps, SpotInv
  <2> QED
    BY <2>1, <2>2
<1> QED
  BY <1>3, <1>5, <1>6 DEF SpotInv

\* A Message that has the first place has it while it holds it.
LEMMA KeyFirstKept ==
  ASSUME Types, Types', SpotInv, NEW T \in SUBSET Messages, Placed(T), Keeps(T),
         NEW m \in Messages, spot[m] # 0, spot'[m] = spot[m], KeyFirst(m)
  PROVE  KeyFirst(m)'
<1> SUFFICES ASSUME KeyOf[m] # None, NEW y \in OfKey(m), spot'[y] # 0
             PROVE  spot'[m] # 0 /\ spot'[m] <= spot'[y]
  BY DEF KeyFirst, First
<1>1. y \in Messages /\ KeyOf[y] = KeyOf[m]
  BY DEF OfKey
<1>2. spot[m] \in Nat /\ spot'[y] \in Nat /\ given[KeyOf[m]] \in Nat
  BY <1>1, Shapes DEF Types, PlacesOK
<1>3. CASE y \in T
  <2>1. spot'[y] = given[KeyOf[m]] + Nth[y]
    BY <1>1, <1>3 DEF Placed
  <2>2. spot[m] <= given[KeyOf[m]]
    BY DEF SpotInv
  <2> QED
    BY NthIs, <2>1, <2>2, <1>1, <1>2
<1>4. CASE y \notin T
  <2>1. spot'[y] = spot[y]
    BY <1>1, <1>4 DEF Keeps
  <2>2. spot[m] <= spot[y]
    BY <2>1 DEF KeyFirst, First
  <2> QED
    BY <2>1, <2>2
<1> QED
  BY <1>3, <1>4

\* Each step keeps a Stream's place, lets it go, or gives one to a Stream that is
\* received now; and nothing is unborn again.
LEMMA LinesEach ==
  ASSUME Types, ClaimInv, BornInv, [Next]_vars
  PROVE  /\ \A t \in Streams :
              \/ line'[t] \in {0, line[t]}
              \/ /\ line'[t] = given[LineOf[t]] + 1 /\ LineOf[t] # None /\ line[t] = 0
                 /\ \E r \in Roots(t) : state[r] = "unborn"
         /\ \A m \in Messages : state[m] # "unborn" => state'[m] # "unborn"
<1>1. CASE UNCHANGED vars \/ Quiet
  BY <1>1, QuietFrame
<1>2. ASSUME NEW s \in Streams, Receive(s)
      PROVE  /\ \A t \in Streams :
                  \/ line'[t] \in {0, line[t]}
                  \/ /\ line'[t] = given[LineOf[t]] + 1 /\ LineOf[t] # None /\ line[t] = 0
                     /\ \E r \in Roots(t) : state[r] = "unborn"
             /\ \A m \in Messages : state[m] # "unborn" => state'[m] # "unborn"
  <2>1. /\ Roots(s) # {} /\ \A m \in Roots(s) : state[m] = "unborn"
        /\ \A m \in Messages : state'[m] = IF m \in Roots(s) THEN "waiting" ELSE state[m]
        /\ \A t \in Streams : line'[t] = IF t = s /\ LineOf[s] # None THEN given[LineOf[s]] + 1
                                          ELSE line[t]
    BY <1>2, ReceiveEach
  <2>2. line[s] = 0
    BY <2>1 DEF BornInv
  <2> QED
    BY <2>1, <2>2
<1>3. ASSUME NEW n \in Nodes, NEW m \in Messages, Placing(n, m) PROVE UNCHANGED <<state, line>>
  BY <1>3, PlacingEach
<1>4. ASSUME NEW n \in Nodes, NEW m \in Messages, Ending(n, m)
      PROVE  /\ \A t \in Streams : line'[t] \in {0, line[t]}
             /\ \A o \in Messages : state[o] # "unborn" => state'[o] # "unborn"
  <2>1. /\ state'[m] \in {"failed", "ended"}
        /\ \A o \in Messages : o # m => state'[o] = state[o] \/ state'[o] = "waiting"
        /\ \A t \in Streams : line'[t] \in {0, line[t]}
    BY <1>4, EndingEach
  <2> QED
    BY <2>1
<1>5. ASSUME NEW m \in Messages, Retry(m) \/ Dismiss(m)
      PROVE  /\ \A t \in Streams : line'[t] \in {0, line[t]}
             /\ \A o \in Messages : state[o] # "unborn" => state'[o] # "unborn"
  <2>1. /\ state'[m] \in {"waiting", "ended"}
        /\ \A o \in Messages : o # m => state'[o] = state[o]
        /\ \A t \in Streams : line'[t] \in {0, line[t]}
    BY <1>5, ActEach
  <2> QED
    BY <2>1
<1> QED
  BY <1>1, <1>2, <1>3, <1>4, <1>5, Steps

\* A Stream that has the first place has it while it holds it.
LEMMA LineFirstKept ==
  ASSUME Types, Types', ClaimInv, BornInv, LineInv, [Next]_vars,
         NEW s \in Streams, line[s] # 0, line'[s] # 0, LineFirst(s)
  PROVE  LineFirst(s)'
<1>0. line'[s] = line[s]
  BY LinesEach
<1> SUFFICES ASSUME LineOf[s] # None, NEW t \in OfLine(s), line'[t] # 0
             PROVE  line'[s] # 0 /\ line'[s] <= line'[t]
  BY DEF LineFirst, First
<1>1. t \in Streams /\ LineOf[t] = LineOf[s]
  BY DEF OfLine
<1>2. line[s] \in Nat /\ line'[t] \in Nat /\ given[LineOf[s]] \in Nat
  BY <1>1, Shapes DEF Types, PlacesOK, LineOK
<1>3. line'[t] = line[t] \/ line'[t] = given[LineOf[s]] + 1
  BY <1>1, LinesEach
<1>4. CASE line'[t] = line[t]
  BY <1>0, <1>4 DEF LineFirst, First
<1>5. CASE line'[t] = given[LineOf[s]] + 1
  <2>1. line[s] <= given[LineOf[s]]
    BY DEF LineInv
  <2> QED
    BY <1>0, <1>2, <1>5, <2>1
<1> QED
  BY <1>3, <1>4, <1>5

\* Where a node is past the question of a Message's Stream, it was before, or it
\* has just been answered yes; and it was its claim.
Past == {"heading", "streamed", "busy"}

LEMMA PastBefore ==
  ASSUME Types, Types', ClaimInv, BornInv, [Next]_vars, NEW n \in Nodes, NEW m \in Messages,
         claim'[m] = n, phase'[n][m] \in Past
  PROVE  /\ claim[m] = n
         /\ \/ Quiet
            \/ phase'[n][m] = phase[n][m]
            \/ phase[n][m] = "heading" /\ phase'[n][m] = "streamed"
         /\ phase[n][m] \in Past \/ StreamHeads(n, m)
<1>0. n # NoNode
  BY NamesAssumption
<1>1. CASE UNCHANGED vars
  BY <1>1
<1>2. CASE Quiet
  <2>1. Stands(n, m) /\ Claims(m)
    BY <1>2, QuietEach
  <2>2. claim[m] = n
    BY <2>1, <1>0 DEF Claims, Past
  <2>3. phase[n][m] \in Past \/ StreamHeads(n, m)
    BY <2>1 DEF Stands, Past
  <2> QED
    BY <1>2, <2>2, <2>3
<1>3. ASSUME NEW s \in Streams, Receive(s) PROVE UNCHANGED <<claim, phase>>
  BY <1>3, ReceiveEach
<1>4. ASSUME NEW k \in Nodes, NEW o \in Messages, Placing(k, o)
      PROVE  /\ claim[m] = n /\ phase[n][m] \in Past
             /\ \/ phase'[n][m] = phase[n][m]
                \/ phase[n][m] = "heading" /\ phase'[n][m] = "streamed"
  <2>1. /\ phase[k][o] = "heading" /\ claim'[m] \in {claim[m], NoNode}
        /\ phase'[k][o] \in {"streamed", "passing", "idle"}
        /\ k # n \/ o # m => phase'[n][m] = phase[n][m]
    BY <1>4, PlacingEach
  <2> QED
    BY <2>1, <1>0 DEF Past
<1>5. ASSUME NEW k \in Nodes, NEW o \in Messages, Ending(k, o)
      PROVE  claim[m] = n /\ phase'[n][m] = phase[n][m]
  <2>1. /\ claim'[m] = IF m = o THEN NoNode ELSE claim[m]
        /\ phase'[n][m] = IF n = k /\ m = o THEN "idle" ELSE phase[n][m]
    BY <1>5, EndingEach
  <2> QED
    BY <2>1, <1>0
<1>6. ASSUME NEW o \in Messages, Retry(o) \/ Dismiss(o) PROVE UNCHANGED <<claim, phase>>
  BY <1>6, ActEach
<1> QED
  BY <1>1, <1>2, <1>3, <1>4, <1>5, <1>6, Steps

\* What a node remembers after a step it did before, or found first in a quiet one.
LEMMA SeenBefore ==
  ASSUME Types, ClaimInv, BornInv, [Next]_vars, NEW n \in Nodes, NEW x, x \in seen'[n]
  PROVE  \/ x \in seen[n]
         \/ /\ UNCHANGED <<state, placeVars>>
            /\ \/ x \in Streams /\ line[x] # 0 /\ LineFirst(x)
               \/ x \in Messages /\ spot[x] # 0 /\ KeyFirst(x)
<1>1. CASE UNCHANGED vars
  BY <1>1
<1>2. CASE Quiet
  <2>1. Knows(n) /\ UNCHANGED <<state, placeVars>>
    BY <1>2, QuietEach
  <2> QED
    BY <2>1 DEF Knows
<1>3. ASSUME NEW s \in Streams, Receive(s) PROVE UNCHANGED seen
  BY <1>3, ReceiveEach
<1>4. ASSUME NEW k \in Nodes, NEW o \in Messages, Placing(k, o) PROVE UNCHANGED seen
  BY <1>4, PlacingEach
<1>5. ASSUME NEW k \in Nodes, NEW o \in Messages, Ending(k, o) PROVE UNCHANGED seen
  BY <1>5, EndingEach
<1>6. ASSUME NEW o \in Messages, Retry(o) \/ Dismiss(o) PROVE UNCHANGED seen
  BY <1>6, ActEach
<1> QED
  BY <1>1, <1>2, <1>3, <1>4, <1>5, <1>6, Steps

\* A Message past the question of its Stream, under the claim it is worked on by,
\* is of a Stream that holds a place and has the first.
LEMMA PastHeads ==
  ASSUME Types, ClaimInv, LineInv, HeadInv, NEW n \in Nodes, NEW m \in Messages,
         claim[m] = n, phase[n][m] \in Past \/ StreamHeads(n, m),
         LineOf[StreamOf[m]] \notin Skips \cup {None}
  PROVE  line[StreamOf[m]] # 0 /\ LineFirst(StreamOf[m])
<1>1. state[m] = "waiting"
  BY NamesAssumption DEF ClaimInv
<1>2. line[StreamOf[m]] # 0
  BY <1>1 DEF LineInv
<1>3. StreamOf[m] \in Streams
  BY Shapes
<1>4. LineFirst(StreamOf[m])
  BY <1>2, <1>3 DEF HeadInv, StreamHeads, Past
<1> QED
  BY <1>2, <1>4

\* Who holds a place at its destination after a step is of a Stream that headed
\* before it.
LEMMA SpotHeads ==
  ASSUME Types, Types', ClaimInv, BornInv, LineInv, SpotInv, SpotInv', HeadInv, PointInv,
         [Next]_vars, NEW m \in Messages, spot'[m] # 0,
         LineOf[StreamOf[m]] \notin Skips \cup {None}
  PROVE  line[StreamOf[m]] # 0 /\ LineFirst(StreamOf[m])
<1>1. ASSUME spot[m] # 0 PROVE line[StreamOf[m]] # 0 /\ LineFirst(StreamOf[m])
  <2>1. state[m] \in {"waiting", "failed"}
    BY <1>1 DEF SpotInv
  <2> QED
    BY <1>1, <2>1 DEF LineInv, HeadInv
<1>2. CASE UNCHANGED vars \/ Quiet
  BY <1>1, <1>2, QuietFrame
<1>3. ASSUME NEW s \in Streams, Receive(s) PROVE spot[m] # 0
  <2>1. CASE m \in Roots(s)
    <3>1. StreamOf[m] = s
      BY <2>1 DEF Roots
    <3>2. spot'[m] = spot[m]
      BY <1>3, <3>1, ReceiveEach
    <3> QED
      BY <3>2
  <2>2. CASE m \notin Roots(s)
    <3>1. spot'[m] = spot[m]
      BY <1>3, <2>2, ReceiveEach
    <3> QED
      BY <3>1
  <2> QED
    BY <2>1, <2>2
<1>4. ASSUME NEW k \in Nodes, NEW o \in Messages, Placing(k, o), spot[m] = 0
      PROVE  line[StreamOf[m]] # 0 /\ LineFirst(StreamOf[m])
  <2>1. phase[k][o] = "heading" /\ claim[o] = k /\ (m # o => spot'[m] = spot[m])
    BY <1>4, PlacingEach
  <2>2. m = o
    BY <1>4, <2>1
  <2> QED
    BY <2>1, <2>2, PastHeads DEF Past
<1>5. ASSUME NEW k \in Nodes, NEW o \in Messages, Ending(k, o), spot[m] = 0
      PROVE  line[StreamOf[m]] # 0 /\ LineFirst(StreamOf[m])
  <2>1. /\ phase[k][o] = "busy" /\ claim[o] = k /\ spot'[o] \in {0, spot[o]}
        /\ m # o => spot'[m] = spot[m] \/ m \in Children(o)
    BY <1>5, EndingEach
  <2>2. m # o /\ m \in Children(o)
    BY <1>5, <2>1
  <2>3. StreamOf[m] = StreamOf[o]
    BY <2>2, ShapeAssumption, NamesAssumption DEF Children
  <2> QED
    BY <2>1, <2>3, PastHeads DEF Past
<1>6. ASSUME NEW o \in Messages, Retry(o) \/ Dismiss(o) PROVE spot[m] # 0
  <2>1. m # o => spot'[m] = spot[m]
    BY <1>6, ActEach
  <2>2. spot'[o] = spot[o] \/ spot'[o] = 0
    BY <1>6, ActEach
  <2> QED
    BY <2>1, <2>2
<1> QED
  BY <1>1, <1>2, <1>3, <1>4, <1>5, <1>6, Steps

\* Every step has what headed head still.
LEMMA HeadKept ==
  ASSUME Types, Types', ClaimInv, ClaimInv', BornInv, LineInv, LineInv', SpotInv, SpotInv',
         HeadInv, PointInv, [Next]_vars
  PROVE  HeadInv'
<1>1. ASSUME NEW n \in Nodes, NEW s \in Streams, s \in seen'[n]
      PROVE  /\ \A r \in Roots(s) : state'[r] # "unborn"
             /\ line'[s] # 0 => LineFirst(s)'
  <2>1. \A r \in Roots(s) : r \in Messages
    BY BornTyped
  <2>2. \A m \in Messages : state[m] # "unborn" => state'[m] # "unborn"
    BY LinesEach
  <2>3. CASE s \in seen[n]
    <3>1. \A r \in Roots(s) : state[r] # "unborn"
      BY <2>3 DEF HeadInv
    <3>2. line'[s] # 0 => line[s] # 0
      BY <3>1, LinesEach
    <3>3. line[s] # 0 => LineFirst(s)
      BY <2>3 DEF HeadInv
    <3> QED
      BY <2>1, <2>2, <3>1, <3>2, <3>3, LineFirstKept
  <2>4. CASE s \notin seen[n]
    <3>1. s \notin Messages
      BY NamesAssumption
    <3>2. UNCHANGED <<state, placeVars>> /\ line[s] # 0 /\ LineFirst(s)
      BY <1>1, <2>4, <3>1, SeenBefore
    <3>3. \A r \in Roots(s) : state[r] # "unborn"
      BY <3>2 DEF BornInv
    <3>4. line'[s] # 0
      BY <3>2
    <3> QED
      BY <3>2, <3>3, <3>4, LineFirstKept
  <2> QED
    BY <2>3, <2>4
<1>2. ASSUME NEW m \in Messages, NEW n \in Nodes, claim'[m] = n, phase'[n][m] \in Past,
             LineOf[StreamOf[m]] \notin Skips
      PROVE  LineFirst(StreamOf[m])'
  <2>1. CASE LineOf[StreamOf[m]] = None
    BY <2>1 DEF LineFirst
  <2>2. CASE LineOf[StreamOf[m]] # None
    <3>1. claim[m] = n /\ (phase[n][m] \in Past \/ StreamHeads(n, m))
      BY <1>2, PastBefore
    <3>2. line[StreamOf[m]] # 0 /\ LineFirst(StreamOf[m])
      BY <1>2, <2>2, <3>1, PastHeads
    <3>3. state'[m] = "waiting"
      BY <1>2, NamesAssumption DEF ClaimInv
    <3>4. line'[StreamOf[m]] # 0
      BY <1>2, <2>2, <3>3 DEF LineInv
    <3>5. StreamOf[m] \in Streams
      BY Shapes
    <3> QED
      BY <3>2, <3>4, <3>5, LineFirstKept
  <2> QED
    BY <2>1, <2>2
<1>3. ASSUME NEW m \in Messages, spot'[m] # 0, LineOf[StreamOf[m]] \notin Skips
      PROVE  LineFirst(StreamOf[m])'
  <2>1. CASE LineOf[StreamOf[m]] = None
    BY <2>1 DEF LineFirst
  <2>2. CASE LineOf[StreamOf[m]] # None
    <3>1. line[StreamOf[m]] # 0 /\ LineFirst(StreamOf[m])
      BY <1>3, <2>2, SpotHeads
    <3>2. state'[m] \in {"waiting", "failed"}
      BY <1>3 DEF SpotInv
    <3>3. line'[StreamOf[m]] # 0
      BY <1>3, <2>2, <3>2 DEF LineInv
    <3>4. StreamOf[m] \in Streams
      BY Shapes
    <3> QED
      BY <3>1, <3>3, <3>4, LineFirstKept
  <2> QED
    BY <2>1, <2>2
<1> QED
  BY <1>1, <1>2, <1>3 DEF HeadInv, Past

\* A claimed Message that is past its Stream's question and not born now is given
\* no place by any step but its own node's.
LEMMA NotPlaced ==
  ASSUME Types, Types', ClaimInv, BornInv, PointInv, [Next]_vars,
         NEW n \in Nodes, NEW m \in Messages, claim[m] = n, claim'[m] = n,
         phase[n][m] = "heading", phase'[n][m] = "heading"
  PROVE  ~told'[m]
<1>1. ~told[m] /\ state[m] = "waiting"
  BY NamesAssumption DEF PointInv, ClaimInv
<1>2. CASE UNCHANGED vars \/ Quiet
  BY <1>1, <1>2, QuietFrame
<1>3. ASSUME NEW s \in Streams, Receive(s) PROVE told'[m] = told[m]
  <2>1. m \notin Roots(s)
    BY <1>1, <1>3, ReceiveEach
  <2> QED
    BY <1>3, <2>1, ReceiveEach
<1>4. ASSUME NEW k \in Nodes, NEW o \in Messages, Placing(k, o) PROVE told'[m] = told[m]
  <2>1. /\ claim[o] = k /\ phase'[k][o] # "heading"
        /\ o # m => told'[m] = told[m]
    BY <1>4, PlacingEach
  <2> QED
    BY <2>1
<1>5. ASSUME NEW k \in Nodes, NEW o \in Messages, Ending(k, o) PROVE told'[m] = told[m]
  <2>1. claim[o] = k /\ claim'[o] = NoNode
    BY <1>5, EndingEach
  <2>2. m # o /\ claim[o] # NoNode
    BY <2>1, NamesAssumption
  <2>3. m \notin Children(o)
    BY <1>1, <2>2, ClaimedChildless
  <2> QED
    BY <1>5, <2>2, <2>3, EndingEach
<1>6. ASSUME NEW o \in Messages, Retry(o) \/ Dismiss(o) PROVE told'[m] = told[m]
  BY <1>6, ActEach
<1> QED
  BY <1>1, <1>2, <1>3, <1>4, <1>5, <1>6, Steps

\* A node lets nothing through that waits for a place.
LEMMA StreamedTold ==
  ASSUME Types, Types', ClaimInv, BornInv, PointInv, [Next]_vars,
         \A m \in Messages : told[m] => told'[m],
         NEW n \in Nodes, NEW m \in Messages, phase'[n][m] \in {"streamed", "busy"}
  PROVE  told'[m] \/ KeyOf[m] = None
<1>0. phase[n][m] \in {"streamed", "busy"} => told[m] \/ KeyOf[m] = None
  BY DEF PointInv
<1>1. CASE UNCHANGED vars
  BY <1>0, <1>1
<1>2. CASE Quiet
  <2>1. Stands(n, m)
    BY <1>2, QuietEach
  <2> QED
    BY <1>0, <2>1 DEF Stands
<1>3. ASSUME NEW s \in Streams, Receive(s) PROVE UNCHANGED phase
  BY <1>3, ReceiveEach
<1>4. ASSUME NEW k \in Nodes, NEW o \in Messages, Placing(k, o)
      PROVE  phase'[n][m] = phase[n][m] \/ told'[m]
  <2>1. told'[o] /\ (k # n \/ o # m => phase'[n][m] = phase[n][m])
    BY <1>4, PlacingEach
  <2> QED
    BY <2>1
<1>5. ASSUME NEW k \in Nodes, NEW o \in Messages, Ending(k, o)
      PROVE  phase'[n][m] = phase[n][m]
  <2>1. phase'[n][m] = IF n = k /\ m = o THEN "idle" ELSE phase[n][m]
    BY <1>5, EndingEach
  <2> QED
    BY <2>1
<1>6. ASSUME NEW o \in Messages, Retry(o) \/ Dismiss(o) PROVE UNCHANGED phase
  BY <1>6, ActEach
<1> QED
  BY <1>0, <1>1, <1>2, <1>3, <1>4, <1>5, <1>6, Steps

\* Every step has what was let through at its destination first there still.
LEMMA PointKept ==
  ASSUME Types, Types', ClaimInv, ClaimInv', BornInv, SpotInv, SpotInv', PointInv, [Next]_vars
  PROVE  PointInv'
<1>1. PICK T \in SUBSET Messages : Placed(T) /\ Keeps(T)
  BY PlacesEach
<1>2. \A m \in Messages : told[m] => m \notin T /\ told'[m]
  BY <1>1 DEF Placed, Keeps
<1>3. ASSUME NEW n \in Nodes, NEW m \in Messages, m \in seen'[n]
      PROVE  told'[m] /\ (spot'[m] # 0 => KeyFirst(m)')
  <2>1. told[m] /\ (spot[m] # 0 => KeyFirst(m))
    <3>1. m \notin Streams
      BY NamesAssumption
    <3>2. m \in seen[n] \/ (spot[m] # 0 /\ KeyFirst(m))
      BY <1>3, <3>1, SeenBefore
    <3>3. CASE m \in seen[n]
      BY <3>3 DEF PointInv
    <3>4. CASE spot[m] # 0 /\ KeyFirst(m)
      BY <3>4 DEF SpotInv
    <3> QED
      BY <3>2, <3>3, <3>4
  <2>2. m \notin T /\ told'[m]
    BY <1>2, <2>1
  <2>3. spot'[m] # 0 => spot[m] # 0 /\ spot'[m] = spot[m]
    BY <1>1, <2>2 DEF Keeps
  <2>4. ASSUME spot'[m] # 0 PROVE KeyFirst(m)'
    BY <1>1, <2>1, <2>3, <2>4, KeyFirstKept
  <2> QED
    BY <2>2, <2>4
<1>4. ASSUME NEW n \in Nodes, NEW m \in Messages, phase'[n][m] \in {"streamed", "busy"}
      PROVE  told'[m] \/ KeyOf[m] = None
  BY <1>2, <1>4, StreamedTold
<1>5. ASSUME NEW n \in Nodes, NEW m \in Messages, claim'[m] = n, phase'[n][m] = "heading"
      PROVE  ~told'[m]
  <2>1. claim[m] = n
    BY <1>5, PastBefore DEF Past
  <2>2. CASE phase[n][m] = "heading"
    BY <1>5, <2>1, <2>2, NotPlaced
  <2>3. CASE phase[n][m] # "heading"
    <3>1. Quiet
      BY <1>5, <2>3, PastBefore DEF Past
    <3>2. Stands(n, m) /\ UNCHANGED told
      BY <3>1, QuietEach
    <3> QED
      BY <1>5, <2>3, <3>2 DEF Stands
  <2> QED
    BY <2>2, <2>3
<1>6. ASSUME NEW n \in Nodes, NEW m \in Messages, claim'[m] = n, phase'[n][m] = "busy",
             KeyOf[m] \notin Skips \cup {None}
      PROVE  spot'[m] # 0 /\ KeyFirst(m)'
  <2>1. claim[m] = n
    BY <1>6, PastBefore DEF Past
  <2>2. state[m] = "waiting" /\ state'[m] = "waiting"
    BY <1>6, <2>1, NamesAssumption DEF ClaimInv
  <2>3. phase[n][m] = "busy" \/ (phase[n][m] = "streamed" /\ PointHeads(n, m))
    <3>1. CASE Quiet
      <4>1. Stands(n, m)
        BY <3>1, QuietEach
      <4> QED
        BY <1>6, <4>1 DEF Stands
    <3>2. CASE ~Quiet
      BY <1>6, <3>2, PastBefore DEF Past
    <3> QED
      BY <3>1, <3>2
  <2>4. told[m]
    BY <1>6, <2>3 DEF PointInv
  <2>5. spot[m] # 0
    BY <1>6, <2>2, <2>4 DEF SpotInv
  <2>6. KeyFirst(m)
    BY <1>6, <2>1, <2>3, <2>5 DEF PointInv, PointHeads
  <2>7. spot'[m] # 0
    BY <1>2, <1>6, <2>2, <2>4 DEF SpotInv
  <2>8. spot'[m] = spot[m]
    BY <1>1, <1>2, <2>4, <2>7 DEF Keeps
  <2> QED
    BY <1>1, <2>5, <2>6, <2>7, <2>8, KeyFirstKept
<1> QED
  BY <1>3, <1>4, <1>5, <1>6 DEF PointInv

----------------------------------------------------------------------------
(* The theorems.                                                           *)

SequenceInv ==
  /\ TypeOK /\ HeadingInv
  /\ ClaimInv /\ BornInv /\ LineInv /\ SpotInv /\ HeadInv /\ PointInv

\* The invariants hold from the start, and every step keeps them.
LEMMA SequenceHolds == Spec => []SequenceInv
<1>1. Init => SequenceInv
  <2> SUFFICES ASSUME Init PROVE SequenceInv
    OBVIOUS
  <2>1. TypeOK /\ HeadingInv
    BY DEF Init, TypeOK, HeadingInv, Phases
  <2>2. ClaimInv /\ BornInv
    BY BornTyped DEF Init, ClaimInv, BornInv
  <2>3. LineInv /\ SpotInv
    BY DEF Init, LineInv, SpotInv
  <2>4. HeadInv /\ PointInv
    BY DEF Init, HeadInv, PointInv
  <2> QED
    BY <2>1, <2>2, <2>3, <2>4 DEF SequenceInv
<1>2. SequenceInv /\ [Next]_vars => SequenceInv'
  <2> SUFFICES ASSUME SequenceInv, [Next]_vars PROVE SequenceInv'
    OBVIOUS
  <2>1. Types /\ ClaimInv /\ BornInv /\ LineInv /\ SpotInv /\ HeadInv /\ PointInv
    BY TypesAre DEF SequenceInv, Types
  <2>2. Types'
    BY <2>1, LedgerTyped, NodesTyped DEF Types, NodesOK
  <2>3. TypeOK' /\ HeadingInv'
    BY <2>2 DEF Types, TypeOK, StateOK, LineOK, PlacesOK, NodesOK, States
  <2>4. ClaimInv' /\ BornInv'
    BY <2>1, ClaimKept, BornKept
  <2>5. LineInv'
    BY <2>1, <2>2, LineKept
  <2>6. SpotInv'
    <3>1. PICK T \in SUBSET Messages : Placed(T) /\ Keeps(T)
      BY <2>1, <2>2, PlacesEach
    <3>2. \A q \in Lines \cup Keys \cup Dests : given'[q] >= given[q]
      BY <2>1, <2>2, PlacesEach
    <3> QED
      BY <2>1, <2>2, <3>1, <3>2, SpotKept
  <2>7. HeadInv'
    BY <2>1, <2>2, <2>4, <2>5, <2>6, HeadKept
  <2>8. PointInv'
    BY <2>1, <2>2, <2>4, <2>6, PointKept
  <2> QED
    BY <2>3, <2>4, <2>5, <2>6, <2>7, <2>8 DEF SequenceInv
<1> QED
  BY <1>1, <1>2, PTL DEF Spec

\* Two that hold places and have the first of one sequence are one.
LEMMA HeadsAreOne ==
  ASSUME SequenceInv
  PROVE  InTurnUnskipped
<1>0. Types /\ ClaimInv /\ LineInv /\ SpotInv /\ HeadInv /\ PointInv
  BY TypesAre DEF SequenceInv, Types
<1>1. ASSUME NEW m \in Messages, NEW o \in Messages, Worked(m), Worked(o), KeyOf[m] = KeyOf[o],
             KeyOf[m] \notin Skips \cup {None}
      PROVE  m = o
  <2>1. spot[m] # 0 /\ KeyFirst(m) /\ spot[o] # 0 /\ KeyFirst(o)
    BY <1>0, <1>1 DEF Worked, PointInv
  <2>2. spot[m] <= spot[o] /\ spot[o] <= spot[m]
    BY <1>1, <2>1 DEF KeyFirst, First, OfKey
  <2>3. spot[m] = spot[o]
    BY <1>0, <2>2 DEF Types, PlacesOK
  <2> QED
    BY <1>0, <1>1, <2>1, <2>3 DEF SpotInv
<1>2. ASSUME NEW m \in Messages, Worked(m), LineOf[StreamOf[m]] \notin Skips \cup {None}
      PROVE  line[StreamOf[m]] # 0 /\ LineFirst(StreamOf[m])
  BY <1>0, <1>2, PastHeads DEF Worked, Past
<1>3. ASSUME NEW m \in Messages, NEW o \in Messages, Worked(m), Worked(o),
             LineOf[StreamOf[m]] = LineOf[StreamOf[o]],
             LineOf[StreamOf[m]] \notin Skips \cup {None}
      PROVE  StreamOf[m] = StreamOf[o]
  <2>1. StreamOf[m] \in Streams /\ StreamOf[o] \in Streams
    BY Shapes
  <2>2. /\ line[StreamOf[m]] # 0 /\ LineFirst(StreamOf[m])
        /\ line[StreamOf[o]] # 0 /\ LineFirst(StreamOf[o])
    BY <1>2, <1>3
  <2>3. line[StreamOf[m]] <= line[StreamOf[o]] /\ line[StreamOf[o]] <= line[StreamOf[m]]
    BY <1>3, <2>1, <2>2 DEF LineFirst, First, OfLine
  <2>4. line[StreamOf[m]] = line[StreamOf[o]]
    BY <1>0, <2>1, <2>3 DEF Types, LineOK
  <2> QED
    BY <1>0, <1>3, <2>1, <2>2, <2>4 DEF LineInv
<1>4. \A m \in Messages :
        spot[m] # 0 /\ LineOf[StreamOf[m]] \notin Skips => LineFirst(StreamOf[m])
  BY <1>0 DEF HeadInv
<1> QED
  BY <1>1, <1>3, <1>4 DEF InTurnUnskipped

\* Of every sequence whose on_failure is not "skip", one Message at a time is let
\* through its point, on whichever nodes; one Stream at a time of a Receive
\* Location's; and no Message is placed before its Stream heads (sequence.rs,
\* late.rs, record.rs): whatever lapses, crashes, fails and is retried.
THEOREM UnskippedInTurn == Spec => []InTurnUnskipped
BY SequenceHolds, HeadsAreOne, PTL

\* Where no sequence skips, that is InTurn, which the runs check: it holds for
\* any Streams, Messages and nodes.
THEOREM AllInTurn == ASSUME Skips = {} PROVE Spec => []InTurn
<1>1. InTurnUnskipped => InTurn
  BY DEF InTurnUnskipped, InTurn, OneAtATime, OneStream, PlacedOfHead
<1> QED
  BY <1>1, UnskippedInTurn, PTL
=============================================================================
