------------------------------- MODULE Sequence -------------------------------
(***************************************************************************)
(* What lets work through a point one at a time per key, in the order the  *)
(* Ledger wrote it: a Stream's place in its Receive Location's sequence,   *)
(* held end to end until the last Journey born from it ends, and a         *)
(* Message's place in the sequence of the Send Port or Work Process it is  *)
(* bound for, taken only once its Stream heads its own, or in the turn that *)
(* publishes it.                                                           *)
(* (sequence.rs, sequence/late.rs; as asked by send_step/{scan,pass}.rs,   *)
(* work_step/{dispatch,turning,acts}.rs, message_act.rs, ledger/{publication,*)
(* record}.rs.)                                                            *)
(*                                                                         *)
(* A sequence is one queue in the Ledger; a place in one is a number, 0    *)
(* where none is held, and the least heads it.  Only their order counts:   *)
(* the places one write gives in a queue follow the last given there, in   *)
(* the order the write queues its Messages, as the parts of a batch (`Nth'). *)
(* A Message passes one sequence at its destination (a Send Port's and its *)
(* Send Locations' are taken in one write).  Send Port Groups are not      *)
(* modelled.                                                               *)
(*                                                                         *)
(* A claim is its holder only.  It may lapse at any time, and the node that *)
(* held it goes on until its next write, or its next look at its lease,    *)
(* finds it gone: SendClaim shows that look to be sound.                   *)
(***************************************************************************)
EXTENDS Integers, FiniteSets

CONSTANTS
  Nodes,
  NoNode,
  Streams,
  Messages,
  Lines,       \* the end-to-end sequences: a Receive Location and a key
  Keys,        \* the sequences at destinations: a point and a key
  None,        \* no sequence, no parent
  Dests,       \* the destinations, each with a queue in the Ledger
  Works,       \* those that are Work Processes
  LineOf,      \* each Stream's end-to-end sequence
  StreamOf,    \* the Stream each Message was born from
  To,          \* where each Message leads
  KeyOf,       \* its sequence there
  Parent,      \* the Message whose turn publishes it; None: received
  Width,       \* bound: the most Messages one write brings
  Nth,         \* which of them each Message is, in the order they are queued
  Skips,       \* the sequences whose on_failure is "skip"
  Remembered,  \* the most places a node remembers, REMEMBERED
  MaxRank      \* bound: a Retry takes a place of its queue only up to this

ASSUME NamesAssumption ==
  /\ NoNode \notin Nodes
  /\ None \notin Lines \cup Keys \cup Messages
  /\ Streams \cap Messages = {}
  /\ Lines \cap Keys = {} /\ Lines \cap Dests = {} /\ Keys \cap Dests = {}
ASSUME ShapeAssumption ==
  /\ Works \subseteq Dests
  /\ LineOf \in [Streams -> Lines \cup {None}]
  /\ StreamOf \in [Messages -> Streams]
  /\ To \in [Messages -> Dests]
  /\ KeyOf \in [Messages -> Keys \cup {None}]
  /\ Parent \in [Messages -> Messages \cup {None}]
  /\ \A m \in Messages :
       Parent[m] # None => StreamOf[Parent[m]] = StreamOf[m] /\ To[Parent[m]] \in Works
  /\ \A m, o \in Messages : KeyOf[m] = KeyOf[o] /\ KeyOf[m] # None => To[m] = To[o]
  /\ \A m, o \in Messages : To[m] = To[o] => (KeyOf[m] = None <=> KeyOf[o] = None)
  /\ Width \in Nat \ {0}
  /\ Nth \in [Messages -> 1 .. Width]
  /\ \A m, o \in Messages :
       StreamOf[m] = StreamOf[o] /\ Parent[m] = Parent[o] /\ Nth[m] = Nth[o] => m = o
  /\ Skips \subseteq Lines \cup Keys
ASSUME BoundsAssumption == Remembered \in Nat \ {0} /\ MaxRank \in Nat

VARIABLES
  \* The Ledger.
  state,   \* each Message's Journey
  rank,    \* its place in its destination's queue
  line,    \* each Stream's place in its end-to-end sequence
  spot,    \* each Message's place in its destination's sequence
  told,    \* its Journey was told that place: `sequences' is not empty
  given,   \* the last place given in each sequence and each queue
  claim,   \* who holds the claim on it
  \* Each node.
  phase,   \* where its work on each Message stands
  cursor,  \* the place its scan of each destination's queue has reached
  seen     \* Headed: the members it has seen head their sequence

ledgerVars == <<state, rank, line, spot, told, given, claim>>
placeVars == <<rank, line, spot, told, given>>
nodeVars == <<phase, cursor, seen>>
vars == <<ledgerVars, nodeVars>>

\* idle      not here
\* claimed   claimed and read by the dispatching, or a turn; its Stream asked
\* heading   its Stream heads; its place at its destination taken next
\* passing   on a send thread; its Stream asked
\* streamed  its Stream heads, and it waits for no place; its own asked next
\* busy      let through: being sent, or its turn worked out
Phases == {"idle", "claimed", "heading", "passing", "streamed", "busy"}

----------------------------------------------------------------------------
(* Sequences in the Ledger.                                                *)

\* What the first page of a queue with the places p of `members' says of x: x
\* has the first place, or the queue is empty.
First(p, members, x) == \A y \in members : p[y] # 0 => p[x] # 0 /\ p[x] <= p[y]

OfLine(s) == {t \in Streams : LineOf[t] = LineOf[s]}
OfKey(m) == {o \in Messages : KeyOf[o] = KeyOf[m]}

LineFirst(s) == LineOf[s] = None \/ First(line, OfLine(s), s)
KeyFirst(m) == KeyOf[m] = None \/ First(spot, OfKey(m), m)

\* heads, of the Ledger or of what node n remembers.
StreamHeads(n, m) == StreamOf[m] \in seen[n] \/ LineFirst(StreamOf[m])
PointHeads(n, m) == m \in seen[n] \/ KeyFirst(m)

\* Headed::remember: only what holds a place; at the most, all forgotten first.
Remember(n, x, placed) ==
  seen' = IF x \in seen[n] \/ ~placed THEN seen
          ELSE [seen EXCEPT ![n] = (IF Cardinality(@) >= Remembered THEN {} ELSE @) \cup {x}]

\* waits_for_places.
WaitsForPlaces(m) == ~told[m] /\ KeyOf[m] # None

\* open (record.rs): whether a Journey in a state keeps its Stream's places.
Open(m, to) == to = "waiting" \/ (to = "failed" /\ LineOf[StreamOf[m]] \notin Skips)

\* The Ledger's write of the states `next': a Stream none of whose Journeys is
\* open any longer lets its place go (Xmip Storage counts them).
Lets(next) ==
  [s \in Streams |->
    IF \E m \in Messages : StreamOf[m] = s /\ Open(m, next[m]) THEN line[s] ELSE 0]
Writes(next) == state' = next /\ line' = Lets(next)

Becomes(m, to) == [state EXCEPT ![m] = to]

\* The Messages `born' join the end of their destinations' queues, each after
\* those queued before it; those of `takes' take their places in their sequences
\* there, in the same order; the sequences and queues of `joined' have given
\* theirs; and what `left' lets go of its own.
Joins(born, takes, joined, left) ==
  /\ rank' = [m \in Messages |-> IF m \in born THEN given[To[m]] + Nth[m] ELSE rank[m]]
  /\ spot' = [m \in Messages |->
       IF m \in takes THEN given[KeyOf[m]] + Nth[m] ELSE IF m \in left THEN 0 ELSE spot[m]]
  /\ told' = [m \in Messages |-> told[m] \/ m \in takes]
  /\ given' = [q \in DOMAIN given |-> IF q \in joined THEN given[q] + Width ELSE given[q]]

Keyed(born) == {m \in born : KeyOf[m] # None}
Queues(born, takes) == {To[m] : m \in born} \cup {KeyOf[m] : m \in takes}

----------------------------------------------------------------------------
(* A Stream received: its Publication, one write.                          *)

Roots(s) == {m \in Messages : StreamOf[m] = s /\ Parent[m] = None}
Children(m) == {c \in Messages : Parent[c] = m}

\* Mutant: every Message takes its places in the Publication.
ReceiveTakes(s) ==
  /\ Roots(s) # {} /\ \A m \in Roots(s) : state[m] = "unborn"
  /\ state' = [m \in Messages |-> IF m \in Roots(s) THEN "waiting" ELSE state[m]]
  /\ line' = [line EXCEPT ![s] = given[LineOf[s]] + 1]
  /\ Joins(Roots(s), Keyed(Roots(s)),
           Queues(Roots(s), Keyed(Roots(s))) \cup {LineOf[s]}, {})
  /\ UNCHANGED <<claim, nodeVars>>

\* A Stream that holds a sequence end to end takes its place there, and its
\* Messages take none where they are bound yet; one that holds none has them
\* take theirs now.
Receive(s) ==
  /\ Roots(s) # {} /\ \A m \in Roots(s) : state[m] = "unborn"
  /\ state' = [m \in Messages |-> IF m \in Roots(s) THEN "waiting" ELSE state[m]]
  /\ IF LineOf[s] = None
       THEN /\ Joins(Roots(s), Keyed(Roots(s)), Queues(Roots(s), Keyed(Roots(s))), {})
            /\ UNCHANGED line
       ELSE /\ Joins(Roots(s), {}, Queues(Roots(s), {}) \cup {LineOf[s]}, {})
            /\ line' = [line EXCEPT ![s] = given[LineOf[s]] + 1]
  /\ UNCHANGED <<claim, nodeVars>>

----------------------------------------------------------------------------
(* A scan, and what it takes.                                              *)

Moves(n, m, p) == phase' = [phase EXCEPT ![n][m] = p]

\* A destination naming a Correlation is read in its queue's order, each of
\* its Messages claimed, and its places taken, before the next is looked at; a
\* Work Process's turn is taken there whole.
OnScan(n, d) ==
  {o \in Messages :
    /\ To[o] = d /\ KeyOf[o] # None
    /\ phase[n][o] \in {"claimed", "heading"} \/ (d \in Works /\ phase[n][o] # "idle")}

Waits(m) == state[m] = "waiting"

\* m is what n's scan of its queue looks at next.
LookedAt(n, m) ==
  /\ Waits(m)
  /\ KeyOf[m] # None =>
       /\ OnScan(n, To[m]) = {}
       /\ rank[m] > cursor[n][To[m]]
       /\ \A o \in Messages :
            To[o] = To[m] /\ Waits(o) /\ rank[o] > cursor[n][To[m]] => rank[m] <= rank[o]

Passed(n, m) ==
  cursor' = IF KeyOf[m] = None THEN cursor ELSE [cursor EXCEPT ![n][To[m]] = rank[m]]

\* Claimed, and read under the claim.
Takes(n, m) ==
  /\ phase[n][m] = "idle"
  /\ LookedAt(n, m)
  /\ claim[m] = NoNode
  /\ claim' = [claim EXCEPT ![m] = n]
  /\ Moves(n, m, IF To[m] \in Works \/ WaitsForPlaces(m) THEN "claimed" ELSE "passing")
  /\ Passed(n, m)
  /\ UNCHANGED <<state, placeVars, seen>>

\* Not taken: known here, another's claim, or Xmip Storage did not answer -
\* though it may have granted the claim.  The scan goes on.
TakesNot(n, m) ==
  /\ LookedAt(n, m)
  /\ KeyOf[m] # None
  /\ Passed(n, m)
  /\ claim' \in {claim} \cup
       (IF claim[m] = NoNode /\ phase[n][m] = "idle"
          THEN {[claim EXCEPT ![m] = n]} ELSE {})
  /\ UNCHANGED <<state, placeVars, phase, seen>>

\* The scan is over, its queue read or the pool full; the next begins anew.
ScanEnds(n, d) ==
  /\ cursor[n][d] # 0
  /\ OnScan(n, d) = {}
  /\ cursor' = [cursor EXCEPT ![n][d] = 0]
  /\ UNCHANGED <<ledgerVars, phase, seen>>

\* n works on m no longer, its claim given back, where the answer was not
\* lost on the way.
GivenBack(n, m) ==
  /\ Moves(n, m, "idle")
  /\ claim' \in {claim} \cup
       (IF claim[m] = n THEN {[claim EXCEPT ![m] = NoNode]} ELSE {})

\* Mutant: a Message's places are taken whether its Stream heads or not.
StreamAskedNot(n, m) ==
  /\ phase[n][m] \in {"claimed", "passing"}
  /\ Moves(n, m, IF WaitsForPlaces(m) THEN "heading" ELSE "streamed")
  /\ UNCHANGED <<ledgerVars, cursor, seen>>

\* stream_heads: it does.
StreamAsked(n, m) ==
  /\ phase[n][m] \in {"claimed", "passing"}
  /\ StreamHeads(n, m)
  /\ Remember(n, StreamOf[m], LineOf[StreamOf[m]] # None /\ line[StreamOf[m]] # 0)
  /\ Moves(n, m, IF WaitsForPlaces(m) THEN "heading" ELSE "streamed")
  /\ UNCHANGED <<ledgerVars, cursor>>

\* Placing::Behind, and Ended::Behind: the claim given back.
StreamBehind(n, m) ==
  /\ phase[n][m] \in {"claimed", "passing"}
  /\ ~StreamHeads(n, m)
  /\ GivenBack(n, m)
  /\ UNCHANGED <<state, placeVars, cursor, seen>>

\* take_late: its place, written under the claim, which is kept.
PlaceTaken(n, m) ==
  /\ phase[n][m] = "heading"
  /\ claim[m] = n
  /\ Joins({}, {m}, {KeyOf[m]}, {})
  /\ UNCHANGED <<state, line>>

TakeLate(n, m) ==
  /\ PlaceTaken(n, m)
  /\ Moves(n, m, IF To[m] \in Works THEN "streamed" ELSE "passing")
  /\ UNCHANGED <<claim, cursor, seen>>

\* Taken, the answer lost: passed as if it waited for it still.
TakeLateUnanswered(n, m) ==
  /\ PlaceTaken(n, m)
  /\ GivenBack(n, m)
  /\ UNCHANGED <<cursor, seen>>

\* heads, of its own place: it is let through, while it is surely this
\* node's; a turn looks at its claim only as it is written.
LetThrough(n, m) ==
  /\ phase[n][m] = "streamed"
  /\ PointHeads(n, m)
  /\ To[m] \notin Works => claim[m] = n
  /\ Remember(n, m, spot[m] # 0)
  /\ Moves(n, m, "busy")
  /\ UNCHANGED <<ledgerVars, cursor>>

PointBehind(n, m) ==
  /\ phase[n][m] = "streamed"
  /\ ~PointHeads(n, m)
  /\ GivenBack(n, m)
  /\ UNCHANGED <<state, placeVars, cursor, seen>>

\* A request was not answered, or a thread panicked, under a claim still held.
GivesUp(n, m) ==
  /\ phase[n][m] # "idle"
  /\ claim[m] = n
  /\ GivenBack(n, m)
  /\ UNCHANGED <<state, placeVars, cursor, seen>>

\* The claim is found another's, or run out: nothing tried, nothing written.
Loses(n, m) ==
  /\ phase[n][m] # "idle"
  /\ claim[m] # n
  /\ Moves(n, m, "idle")
  /\ UNCHANGED <<ledgerVars, cursor, seen>>

----------------------------------------------------------------------------
(* What the pass, or the turn, writes under the claim.                     *)

HandsOn(n, m) ==
  /\ phase[n][m] = "busy"
  /\ claim[m] = n
  /\ claim' = [claim EXCEPT ![m] = NoNode]
  /\ Moves(n, m, "idle")
  /\ UNCHANGED <<cursor, seen>>

\* Completed: out of its queue and of its sequence.
Sent(n, m) ==
  /\ To[m] \notin Works
  /\ HandsOn(n, m)
  /\ Writes(Becomes(m, "ended"))
  /\ Joins({}, {}, {}, {m})

\* Waiting for a retry, or for a timer of its Instance: every place kept.
Again(n, m) ==
  /\ HandsOn(n, m)
  /\ UNCHANGED <<state, placeVars>>

\* Mutant: a failure lets its place go whatever its sequence says.
FailsSkips(n, m) ==
  /\ HandsOn(n, m)
  /\ Writes(Becomes(m, "failed"))
  /\ Joins({}, {}, {}, {m})

\* Failed, its place let go where its sequence skips.
Fails(n, m) ==
  /\ HandsOn(n, m)
  /\ Writes(Becomes(m, "failed"))
  /\ Joins({}, {}, {}, IF KeyOf[m] \in Skips THEN {m} ELSE {})

\* Taking::fail: a turn that could not be taken; its place is kept.
TurnFails(n, m) ==
  /\ To[m] \in Works
  /\ HandsOn(n, m)
  /\ Writes(Becomes(m, "failed"))
  /\ UNCHANGED <<rank, spot, told, given>>

\* A turn written: what it published is born with its places.
TurnDone(n, m) ==
  /\ To[m] \in Works
  /\ HandsOn(n, m)
  /\ Writes([o \in Messages |->
       IF o = m THEN "ended" ELSE IF o \in Children(m) THEN "waiting" ELSE state[o]])
  /\ Joins(Children(m), Keyed(Children(m)), Queues(Children(m), Keyed(Children(m))), {m})

----------------------------------------------------------------------------
(* An operator's act (SendClaim has its steps), time and crashes.          *)

\* At the end of its queue, unless it blocks; its Journey told its places
\* still, let go of or not.
Retry(m) ==
  /\ state[m] = "failed" /\ To[m] \notin Works
  /\ claim[m] = NoNode
  /\ Writes(Becomes(m, "waiting"))
  /\ IF KeyOf[m] # None /\ KeyOf[m] \notin Skips
       THEN UNCHANGED <<rank, given>>
       ELSE /\ given[To[m]] < MaxRank
            /\ rank' = [rank EXCEPT ![m] = given[To[m]] + 1]
            /\ given' = [given EXCEPT ![To[m]] = @ + 1]
  /\ UNCHANGED <<spot, told, claim, nodeVars>>

Dismiss(m) ==
  /\ state[m] = "failed" /\ To[m] \notin Works
  /\ claim[m] = NoNode
  /\ Writes(Becomes(m, "ended"))
  /\ Joins({}, {}, {}, {m})
  /\ UNCHANGED <<claim, nodeVars>>

Lapses(m) ==
  /\ claim[m] # NoNode
  /\ claim' = [claim EXCEPT ![m] = NoNode]
  /\ UNCHANGED <<state, placeVars, nodeVars>>

Crash(n) ==
  /\ phase' = [phase EXCEPT ![n] = [m \in Messages |-> "idle"]]
  /\ cursor' = [cursor EXCEPT ![n] = [d \in Dests |-> 0]]
  /\ seen' = [seen EXCEPT ![n] = {}]
  /\ UNCHANGED ledgerVars

----------------------------------------------------------------------------
Init ==
  /\ state = [m \in Messages |-> "unborn"]
  /\ rank = [m \in Messages |-> 0]
  /\ line = [s \in Streams |-> 0]
  /\ spot = [m \in Messages |-> 0]
  /\ told = [m \in Messages |-> FALSE]
  /\ given = [q \in Lines \cup Keys \cup Dests |-> 0]
  /\ claim = [m \in Messages |-> NoNode]
  /\ phase = [n \in Nodes |-> [m \in Messages |-> "idle"]]
  /\ cursor = [n \in Nodes |-> [d \in Dests |-> 0]]
  /\ seen = [n \in Nodes |-> {}]

TakeUp(n, m) ==
  \/ Takes(n, m) \/ TakesNot(n, m)
  \/ StreamAsked(n, m) \/ StreamBehind(n, m)
  \/ TakeLate(n, m) \/ TakeLateUnanswered(n, m)
  \/ LetThrough(n, m) \/ PointBehind(n, m) \/ GivesUp(n, m) \/ Loses(n, m)

WorkOn(n, m) ==
  \/ Sent(n, m) \/ Again(n, m) \/ Fails(n, m) \/ TurnFails(n, m) \/ TurnDone(n, m)

Next ==
  \/ \E s \in Streams : Receive(s)
  \/ \E n \in Nodes, m \in Messages : TakeUp(n, m) \/ WorkOn(n, m)
  \/ \E n \in Nodes, d \in Dests : ScanEnds(n, d)
  \/ \E m \in Messages : Retry(m) \/ Dismiss(m) \/ Lapses(m)
  \/ \E n \in Nodes : Crash(n)

Spec == Init /\ [][Next]_vars

\* Scans come round, the dispatching and the threads go on, and a claim nobody
\* works under lapses.
Goes(n, m) ==
  \/ StreamAsked(n, m) \/ StreamBehind(n, m) \/ TakeLate(n, m)
  \/ LetThrough(n, m) \/ PointBehind(n, m) \/ WorkOn(n, m) \/ Loses(n, m)

Orphaned(m) == claim[m] # NoNode /\ phase[claim[m]][m] = "idle"

\* From some time on nodes stay up and Xmip Storage answers, within a lease; a
\* step that is also one of those above is none of this.
Trouble(n, m) ==
  /\ \/ Crash(n) \/ GivesUp(n, m) \/ TakeLateUnanswered(n, m)
     \/ claim[m] = n /\ ~Orphaned(m) /\ Lapses(m)
     \/ phase[n][m] = "idle" /\ claim[m] = NoNode /\ TakesNot(n, m)
  /\ ~\E o \in Messages : Goes(n, o)
  /\ ~\E d \in Dests : ScanEnds(n, d)

\* And no send and no turn is tried again and again for ever.
Unsuccessful(n, m) == Again(n, m) \/ Fails(n, m) \/ TurnFails(n, m)

Fairness ==
  /\ \A m \in Messages :
       /\ SF_vars(\E n \in Nodes : Takes(n, m))
       /\ WF_vars(\E n \in Nodes : Goes(n, m))
       /\ WF_vars(Orphaned(m) /\ Lapses(m))
  /\ \A n \in Nodes, d \in Dests : WF_vars(ScanEnds(n, d))
  /\ <>[][\A n \in Nodes, m \in Messages : ~Trouble(n, m) /\ ~Unsuccessful(n, m)]_vars

FairSpec == Spec /\ Fairness

----------------------------------------------------------------------------
(* What must hold.                                                         *)

\* Every variable keeps its type; what a node remembers of its sequences are
\* members that headed them (Headed, sequence.rs).
TypeOK ==
  /\ state \in [Messages -> {"unborn", "waiting", "failed", "ended"}]
  /\ rank \in [Messages -> Nat]
  /\ line \in [Streams -> Nat]
  /\ spot \in [Messages -> Nat]
  /\ told \in [Messages -> BOOLEAN]
  /\ given \in [Lines \cup Keys \cup Dests -> Nat]
  /\ claim \in [Messages -> Nodes \cup {NoNode}]
  /\ phase \in [Nodes -> [Messages -> Phases]]
  /\ cursor \in [Nodes -> [Dests -> Nat]]
  /\ seen \in [Nodes -> SUBSET (Streams \cup Messages)]

\* m is being sent, or its turn taken, by the node whose claim it is.
Worked(m) == \E n \in Nodes : claim[m] = n /\ phase[n][m] = "busy"

\* Two Messages of one key are never let through a point at once, on any two
\* nodes, whatever each remembers of what headed its sequence.
OneAtATime ==
  \A m, o \in Messages :
    Worked(m) /\ Worked(o) /\ KeyOf[m] = KeyOf[o] /\ KeyOf[m] # None => m = o

\* Two Streams of one Receive Location's sequence are never worked on at once:
\* the second waits until the last Journey born of the first has ended.
OneStream ==
  \A m, o \in Messages :
    Worked(m) /\ Worked(o) /\ LineOf[StreamOf[m]] = LineOf[StreamOf[o]]
      /\ LineOf[StreamOf[m]] # None => StreamOf[m] = StreamOf[o]

\* A Message that holds a place at its destination is of a Stream that heads
\* its own sequence: so no Message a Work Process publishes waits there behind
\* a Stream that waits for it (late.rs).
PlacedOfHead ==
  \A m \in Messages : spot[m] # 0 => LineFirst(StreamOf[m])

\* One at a time, and in turn: no two Messages of a key are let through a point
\* at once, no Stream is worked on beside an earlier one of its Receive Location,
\* and no Message is placed where it is bound before its Stream heads
\* (sequence.rs, late.rs, record.rs).
InTurn == OneAtATime /\ OneStream /\ PlacedOfHead

\* A Message takes its place ahead of no earlier one of its key and queue
\* whose Stream heads its own sequence (`the places a Message takes once its
\* Stream heads follow the Ledger's order', scan.rs).
InOrder ==
  [][\A m, o \in Messages :
       (/\ told'[o] /\ ~told[o] /\ rank[o] # 0
        /\ KeyOf[m] = KeyOf[o] /\ Waits(m) /\ rank[m] < rank[o])
       => told[m] \/ ~LineFirst(StreamOf[m])]_vars

\* Every Stream received ends at last, unless one of the Messages failed and
\* waits for an operator: no Stream waits for ever for one that waits for it.
Ends ==
  <>[]( \/ \E m \in Messages : state[m] = "failed"
        \/ \A m \in Messages : state[m] \in {"unborn", "ended"} )
----------------------------------------------------------------------------
(* Why it holds, wherever nothing skips: what the runs check of InTurn rests *)
(* on these, which no step breaks.                                         *)

\* A Stream is received once, and a turn publishes once, as it ends; what is
\* not born holds nothing.
BornInv ==
  /\ \A m \in Messages :
       state[m] # "unborn" => \A r \in Roots(StreamOf[m]) : state[r] # "unborn"
  /\ \A m \in Messages :
       Parent[m] # None /\ state[m] # "unborn" => state[Parent[m]] = "ended"
  /\ \A m \in Messages : state[m] = "unborn" => ~told[m]
  /\ \A s \in Streams :
       line[s] # 0 => LineOf[s] # None /\ \A r \in Roots(s) : state[r] # "unborn"

\* A claim is on a Message that waits.
ClaimInv == \A m \in Messages : claim[m] # NoNode => state[m] = "waiting"

\* A Stream holds its own place from when it is received to the end of its last
\* Journey, unless its sequence skips.
LineInv ==
  /\ \A s \in Streams : line[s] # 0 => line[s] <= given[LineOf[s]]
  /\ \A s, t \in Streams :
       line[s] # 0 /\ line[s] = line[t] /\ LineOf[s] = LineOf[t] => s = t
  /\ \A m \in Messages :
       /\ state[m] \in {"waiting", "failed"}
       /\ LineOf[StreamOf[m]] \notin Skips \cup {None}
       => line[StreamOf[m]] # 0

\* A Message holds its own place from when its Journey is told of it to its end,
\* unless its sequence skips.
SpotInv ==
  /\ \A m \in Messages :
       spot[m] # 0 =>
         /\ KeyOf[m] # None /\ told[m]
         /\ spot[m] <= given[KeyOf[m]]
         /\ state[m] \in {"waiting", "failed"}
  /\ \A m, o \in Messages :
       spot[m] # 0 /\ spot[m] = spot[o] /\ KeyOf[m] = KeyOf[o] => m = o
  /\ \A m \in Messages :
       /\ state[m] \in {"waiting", "failed"} /\ told[m]
       /\ KeyOf[m] \notin Skips \cup {None}
       => spot[m] # 0

\* What was seen to head heads while it holds its place, and what is past the
\* question, or has its place, is of a Stream that heads.
HeadInv ==
  /\ \A n \in Nodes, s \in Streams :
       s \in seen[n] =>
         /\ \A r \in Roots(s) : state[r] # "unborn"
         /\ line[s] # 0 => LineFirst(s)
  /\ \A m \in Messages, n \in Nodes :
       /\ claim[m] = n /\ phase[n][m] \in {"heading", "streamed", "busy"}
       /\ LineOf[StreamOf[m]] \notin Skips
       => LineFirst(StreamOf[m])
  /\ \A m \in Messages :
       spot[m] # 0 /\ LineOf[StreamOf[m]] \notin Skips => LineFirst(StreamOf[m])

\* Only a Message with a sequence at its destination takes a place there.
HeadingInv ==
  \A n \in Nodes, m \in Messages : phase[n][m] = "heading" => KeyOf[m] # None

\* The same of a Message at its destination.
PointInv ==
  /\ \A n \in Nodes, m \in Messages :
       m \in seen[n] => told[m] /\ (spot[m] # 0 => KeyFirst(m))
  /\ \A n \in Nodes, m \in Messages :
       phase[n][m] \in {"streamed", "busy"} => told[m] \/ KeyOf[m] = None
  /\ \A n \in Nodes, m \in Messages :
       claim[m] = n /\ phase[n][m] = "heading" => ~told[m]
  /\ \A n \in Nodes, m \in Messages :
       /\ claim[m] = n /\ phase[n][m] = "busy"
       /\ KeyOf[m] \notin Skips \cup {None}
       => spot[m] # 0 /\ KeyFirst(m)

\* InTurn, of the sequences that do not skip: what one skips says nothing of the
\* others.
InTurnUnskipped ==
  /\ \A m, o \in Messages :
       Worked(m) /\ Worked(o) /\ KeyOf[m] = KeyOf[o]
         /\ KeyOf[m] \notin Skips \cup {None} => m = o
  /\ \A m, o \in Messages :
       Worked(m) /\ Worked(o) /\ LineOf[StreamOf[m]] = LineOf[StreamOf[o]]
         /\ LineOf[StreamOf[m]] \notin Skips \cup {None} => StreamOf[m] = StreamOf[o]
  /\ \A m \in Messages :
       spot[m] # 0 /\ LineOf[StreamOf[m]] \notin Skips => LineFirst(StreamOf[m])
=============================================================================
