------------------------------ MODULE Receiving ------------------------------
(***************************************************************************)
(* The Receive Locations of one node: each asks its transport for what     *)
(* arrives and hands every arrival to its own pool of threads, which       *)
(* carries it and tells its far end, until the node stops.                 *)
(* (receiving.rs and receiving/, pool.rs, budget.rs, stopping.rs.)         *)
(*                                                                         *)
(* What runs by itself: each Location's serve loop, the threads of its     *)
(* pool, and the far ends.  They meet in the pool's queue, in the channel  *)
(* of what is told, in the turn of a receive's ordered arrivals, and in    *)
(* the node's two budgets, of places and of bytes, which all Locations     *)
(* share.  Time is a step that may come: an idle thread's wait, a rest and *)
(* the drain's bound run out whenever.                                     *)
(***************************************************************************)
EXTENDS Integers, FiniteSets, Sequences, SequencesExt

CONSTANTS
  Locations,
  Arrivals,
  At,             \* the Location each arrival comes in at
  Ordered,        \* the Locations whose transport declares its arrivals ordered
  Polled,         \* those whose receive looks and returns at once
  Nodes,          \* what a node may serve: its Locations, and what arrives there
  LetGo,          \* the arrivals their far end let go of (at most once)
  Most,           \* Limits::most of a Location's pool
  Carries,        \* NodeBudget::carries
  Bytes,          \* NodeBudget::received
  CarryBytes,     \* NodeBudget::carry
  MaxFaults       \* bound: failed receives, panics, tellings that fail, failed carries

ASSUME LocationsAssumption == IsFiniteSet(Locations) /\ IsFiniteSet(Arrivals)
ASSUME AtAssumption == At \in [Arrivals -> Locations]
ASSUME KindsAssumption ==
  Ordered \subseteq Locations /\ Polled \subseteq Locations /\ LetGo \subseteq Arrivals
ASSUME NodesAssumption == \A n \in Nodes :
  n.serves \subseteq Locations /\ \A a \in n.arrives : At[a] \in n.serves
ASSUME LimitsAssumption ==
  {Most, Carries, Bytes, CarryBytes} \subseteq Nat \ {0} /\ MaxFaults \in Nat

VARIABLES
  loop,      \* where each Location's serve loop is
  carrying,  \* its arrivals not yet settled
  places,    \* the places of the carry budget its receive holds
  handing,   \* what its receive handed over and is not queued yet
  failed,    \* those whose serve ended in an error
  drain,     \* its Drain
  told,      \* the channel of what is told, each as its telling ended
  queued,    \* its pool's queue
  free,      \* its pool's threads that carry nothing, by what they do
  finishing, \* its pool's threads that have told and hold their place still
  batch,     \* the arrivals of its last receive, in the order they came
  turn,      \* whose turn it is of them to tell its far end
  stage,     \* where each arrival is
  held,      \* the places held of the carry budget
  bytes,     \* the bytes held of the byte budget
  raised,    \* the node's stop
  before,    \* the arrivals that came before it
  faults

locationVars == <<loop, carrying, places, handing, failed, drain>>
poolVars == <<queued, free, finishing>>
tellVars == <<told, batch, turn>>
budgetVars == <<held, bytes>>
receiveVars == <<locationVars, poolVars, tellVars, budgetVars, stage, raised, before, faults>>

\* Where an arrival is: on its way, at its far end, handed over, in the pool, on
\* a thread as far as its carry is, told and gone, or kept to be sent again.
OnThread == {"taken", "carries", "accepted", "failed", "panicked"}
Pending == {"queued"} \cup OnThread
Stages == {"away", "there", "handed", "gone", "kept"} \cup Pending

----------------------------------------------------------------------------
(* The pool, under its lock.  A thread that carries nothing is awake and   *)
(* about to look at the queue, waits, or was woken or timed out of its     *)
(* wait and has not got the lock again.                                    *)

Of(l) == {a \in Arrivals : At[a] = l}
Working(l) == Cardinality({a \in Of(l) : stage[a] \in OnThread}) + finishing[l]
Waiting(l) == free[l].waits + free[l].woken + free[l].timed
Threads(l) == free[l].awake + Waiting(l) + Working(l)

\* A thread does another thing, or ends.
Shifts(f, from, to) == [f EXCEPT ![from] = @ - 1, ![to] = @ + 1]
OneLess(f, from) == [f EXCEPT ![from] = @ - 1]

NotifyOne(f) == IF f.waits > 0 THEN Shifts(f, "waits", "woken") ELSE f
NotifyAll(f) == [f EXCEPT !.woken = @ + f.waits, !.waits = 0]

\* Mutant: a thread is started only when none waits.
StartedWhenNoneWaits(l, queue) ==
  LET f == NotifyOne(free[l])
  IN  IF Waiting(l) = 0 /\ Threads(l) < Most THEN [f EXCEPT !.awake = @ + 1] ELSE f

\* run: one woken, and one started where more is queued than threads wait.
Started(l, queue) ==
  LET f == NotifyOne(free[l])
  IN  IF Len(queue) > Waiting(l) /\ Threads(l) < Most THEN [f EXCEPT !.awake = @ + 1] ELSE f

\* serve: an awake thread takes the first queued, or waits; with the pool
\* dropped and nothing queued, it ends.
TakesWork(l) ==
  /\ free[l].awake > 0 /\ queued[l] # <<>>
  /\ queued' = [queued EXCEPT ![l] = Tail(@)]
  /\ free' = [free EXCEPT ![l].awake = @ - 1]
  /\ stage' = [stage EXCEPT ![Head(queued[l])] = "taken"]
  /\ UNCHANGED <<locationVars, finishing, tellVars, held, bytes, raised, before, faults>>

Closed(l) == loop[l] = "ended"

WaitsForWork(l) ==
  /\ free[l].awake > 0 /\ queued[l] = <<>>
  /\ free' = [free EXCEPT ![l] =
       IF Closed(l) THEN OneLess(@, "awake") ELSE Shifts(@, "awake", "waits")]
  /\ UNCHANGED <<locationVars, queued, finishing, tellVars, stage, held, bytes, raised, before, faults>>

Wakes(l) ==
  /\ free[l].woken > 0
  /\ free' = [free EXCEPT ![l] = Shifts(@, "woken", "awake")]
  /\ UNCHANGED <<locationVars, queued, finishing, tellVars, stage, held, bytes, raised, before, faults>>

IdleRunsOut(l) ==
  /\ free[l].waits > 0
  /\ free' = [free EXCEPT ![l] = Shifts(@, "waits", "timed")]
  /\ UNCHANGED <<locationVars, queued, finishing, tellVars, stage, held, bytes, raised, before, faults>>

\* It ends where nothing is queued and another is left.
TimedOut(l) ==
  /\ free[l].timed > 0
  /\ free' = [free EXCEPT ![l] =
       IF queued[l] = <<>> /\ Threads(l) > 1
         THEN OneLess(@, "timed")
         ELSE Shifts(@, "timed", "awake")]
  /\ UNCHANGED <<locationVars, queued, finishing, tellVars, stage, held, bytes, raised, before, faults>>

----------------------------------------------------------------------------
(* Budget.                                                                 *)

Lesser(a, b) == IF a < b THEN a ELSE b

\* release, saturating.
Released(budget, charge) == IF charge > budget THEN 0 ELSE budget - charge

----------------------------------------------------------------------------
(* Drain.                                                                  *)

NewDrain == [letGo |-> FALSE, until |-> "none", quiet |-> FALSE]

Drains(l) == l \notin Polled /\ drain[l].letGo /\ ~drain[l].quiet

\* Mutant: a receive that finds nothing before the stop ends the drain.
ReceivedAlways(l, found) == [drain[l] EXCEPT !.quiet = @ \/ ~found]

\* received: one asked after the stop that found nothing, or failed.
Received(l, found) == [drain[l] EXCEPT !.quiet = @ \/ (drain[l].until # "none" /\ ~found)]

DrainRunsOut(l) ==
  /\ drain[l].until = "set"
  /\ drain' = [drain EXCEPT ![l].until = "past"]
  /\ UNCHANGED <<loop, carrying, places, handing, failed, poolVars, tellVars, stage, held,
                 bytes, raised, before, faults>>

----------------------------------------------------------------------------
(* serve: the loop of a Location.                                          *)

\* What it may be carrying when its transport is asked again.
Busy(l) == IF l \in Ordered THEN 0 ELSE Most - 1

\* asks: until the stop; after it, while it drains.
Asks(l) ==
  /\ loop[l] = "asks"
  /\ IF ~raised
       THEN loop' = [loop EXCEPT ![l] = "settles"] /\ UNCHANGED drain
       ELSE IF ~Drains(l)
         THEN loop' = [loop EXCEPT ![l] = "ends"] /\ UNCHANGED drain
         ELSE /\ drain' = [drain EXCEPT ![l].until = IF @ = "none" THEN "set" ELSE @]
              /\ loop' = [loop EXCEPT ![l] = IF drain[l].until = "past" THEN "ends" ELSE "settles"]
  /\ UNCHANGED <<carrying, places, handing, failed, poolVars, tellVars, stage, held, bytes,
                 raised, before, faults>>

\* settled: one told is counted out; a telling that will not mend stops it.
Settled(l) ==
  /\ told[l] # <<>>
  /\ told' = [told EXCEPT ![l] = Tail(@)]
  /\ carrying' = [carrying EXCEPT ![l] = @ - 1]
  /\ failed' = IF Head(told[l]) = "stops" THEN failed \cup {l} ELSE failed
  /\ UNCHANGED <<places, handing, drain, poolVars, batch, turn, stage, held, bytes, raised,
                 before, faults>>

\* Waited for while more are carried than may be when its transport is asked,
\* and taken where it is there by then.
Settles(l) ==
  /\ loop[l] = "settles"
  /\ Settled(l)
  /\ loop' = [loop EXCEPT ![l] = IF l \in failed' THEN "ends" ELSE "settles"]

\* hold_up_to: as many places as the pool has threads free and the node has.
Holds(l) ==
  /\ loop[l] = "settles" /\ carrying[l] <= Busy(l)
  /\ held < Carries
  /\ LET charge == Lesser(Lesser(Most - carrying[l], Carries), Carries - held)
     IN  /\ places' = [places EXCEPT ![l] = charge]
         /\ held' = held + charge
  /\ loop' = [loop EXCEPT ![l] = "receives"]
  /\ UNCHANGED <<carrying, handing, failed, drain, poolVars, tellVars, stage, bytes, raised,
                 before, faults>>

There(l) == {a \in Of(l) : stage[a] = "there"}

\* receive_up_to: no more than it has places for; the rest stay at the far end.
Finds(l, found) ==
  /\ loop[l] = "receives"
  /\ found # <<>> /\ Len(found) <= places[l]
  /\ drain' = [drain EXCEPT ![l].letGo = @ \/ \E a \in Range(found) : a \in LetGo]
  /\ carrying' = [carrying EXCEPT ![l] = @ + Len(found)]
  /\ handing' = [handing EXCEPT ![l] = found]
  /\ batch' = [batch EXCEPT ![l] = found]
  /\ turn' = [turn EXCEPT ![l] = 1]
  /\ stage' = [a \in Arrivals |-> IF a \in Range(found) THEN "handed" ELSE stage[a]]
  /\ loop' = [loop EXCEPT ![l] = "hands"]
  /\ UNCHANGED <<places, failed, poolVars, told, held, bytes, raised, before, faults>>

\* Mutant: the place split off stays counted in those the receive holds.
SplitKeeps(l) == places[l]

\* split: the arrival's place out of those the receive holds.
Split(l) == places[l] - 1

\* carry_all: each arrival queued with its place; those left over are let go of.
Hands(l) ==
  /\ loop[l] = "hands"
  /\ LET a == Head(handing[l])
         queue == Append(queued[l], a)
         last == Len(handing[l]) = 1
     IN  /\ queued' = [queued EXCEPT ![l] = queue]
         /\ free' = [free EXCEPT ![l] = Started(l, queue)]
         /\ stage' = [stage EXCEPT ![a] = "queued"]
         /\ handing' = [handing EXCEPT ![l] = Tail(@)]
         /\ places' = [places EXCEPT ![l] = IF last THEN 0 ELSE Split(l)]
         /\ held' = IF last THEN Released(held, Split(l)) ELSE held
         /\ drain' = IF last THEN [drain EXCEPT ![l] = Received(l, TRUE)] ELSE drain
         /\ loop' = [loop EXCEPT ![l] = IF last THEN "asks" ELSE "hands"]
  /\ UNCHANGED <<carrying, failed, finishing, tellVars, bytes, raised, before, faults>>

\* Nothing found, or a failure that may mend: what it holds it holds through
\* its rest.
FindsNothing(l) ==
  /\ loop[l] = "receives"
  /\ \/ There(l) = {} /\ UNCHANGED faults
     \/ faults < MaxFaults /\ faults' = faults + 1
  /\ drain' = [drain EXCEPT ![l] = Received(l, FALSE)]
  /\ loop' = [loop EXCEPT ![l] = "rests"]
  /\ UNCHANGED <<carrying, places, handing, failed, poolVars, tellVars, stage, held, bytes,
                 raised, before>>

\* Pace::rest and Stopping::rest: until its time runs out, a word comes, or the
\* stop; no time at all where its receive waits.
Rested(l) ==
  /\ loop[l] = "rests"
  /\ places' = [places EXCEPT ![l] = 0]
  /\ held' = Released(held, places[l])
  /\ loop' = [loop EXCEPT ![l] = "asks"]
  /\ UNCHANGED <<carrying, handing, failed, drain, poolVars, tellVars, stage, bytes, raised,
                 before, faults>>

\* A failure asking again will not mend stops the Location.
ReceiveStops(l) ==
  /\ loop[l] = "receives" /\ faults < MaxFaults
  /\ failed' = failed \cup {l}
  /\ places' = [places EXCEPT ![l] = 0]
  /\ held' = Released(held, places[l])
  /\ loop' = [loop EXCEPT ![l] = "ends"]
  /\ faults' = faults + 1
  /\ UNCHANGED <<carrying, handing, drain, poolVars, tellVars, stage, bytes, raised, before>>

\* What is still carried is carried to its end and told; then the pool is
\* dropped.
Ends(l) ==
  /\ loop[l] = "ends"
  /\ \/ carrying[l] > 0 /\ Settled(l) /\ UNCHANGED loop
     \/ /\ carrying[l] = 0
        /\ loop' = [loop EXCEPT ![l] = "ended"]
        /\ free' = [free EXCEPT ![l] = NotifyAll(@)]
        /\ UNCHANGED <<carrying, places, handing, failed, drain, queued, finishing, tellVars,
                       stage, held, bytes, raised, before, faults>>

----------------------------------------------------------------------------
(* carry_all's work, on a thread of the pool.                              *)

Charge == Lesser(CarryBytes, Bytes)

CarryBegins(a) ==
  /\ stage[a] = "taken"
  /\ bytes = 0 \/ bytes + Charge <= Bytes
  /\ bytes' = bytes + Charge
  /\ stage' = [stage EXCEPT ![a] = "carries"]
  /\ UNCHANGED <<locationVars, poolVars, tellVars, held, raised, before, faults>>

\* drop(bytes), before its turn to tell.
LetsGoOfBytes == Released(bytes, Charge)

\* The cycle completes or is refused (both "accepted"), fails, or panics; the bytes are let go of on either way out.
CarryEnds(a, ended) ==
  /\ stage[a] = "carries"
  /\ ended = "accepted" \/ faults < MaxFaults
  /\ faults' = IF ended = "accepted" THEN faults ELSE faults + 1
  /\ bytes' = LetsGoOfBytes
  /\ stage' = [stage EXCEPT ![a] = ended]
  /\ UNCHANGED <<locationVars, poolVars, tellVars, held, raised, before>>

Place(a) == CHOOSE i \in DOMAIN batch[At[a]] : batch[At[a]][i] = a

\* Mutant: the turn is waited for the wrong way round.
TurnNotPast(a) == At[a] \in Ordered => turn[At[a]] <= Place(a)

\* in_turn, wait: every arrival before it has told.
ItsTurn(a) == At[a] \in Ordered => turn[At[a]] = Place(a)

\* Mutant: one that panicked does not pass its turn.
PassedWhenTold(a) ==
  IF At[a] \in Ordered /\ stage[a] # "panicked"
    THEN [turn EXCEPT ![At[a]] = Place(a) + 1]
    ELSE turn

\* pass: the next one's turn, told or not.
Passed(a) == IF At[a] \in Ordered THEN [turn EXCEPT ![At[a]] = Place(a) + 1] ELSE turn

\* verdict, and what the far end does of it: one accepted, or refused for good, is
\* gone; a failed one, or one it was not told of, it sends again where it has it.
FarEnd(a, accepted) == IF accepted \/ a \in LetGo THEN "gone" ELSE "kept"

\* Telling: once, in turn, and the settling sent.  A carry that panicked tells
\* Failed on its way out; a telling that panics is settled without.
Tells(a, telling) ==
  LET l == At[a]
  IN  /\ stage[a] \in {"accepted", "failed", "panicked"}
      /\ ItsTurn(a)
      /\ telling # "tells" => faults < MaxFaults /\ a \notin LetGo
      /\ telling = "panics" => stage[a] # "panicked"
      /\ faults' = IF telling = "tells" THEN faults ELSE faults + 1
      /\ turn' = Passed(a)
      /\ told' = [told EXCEPT ![l] = Append(@, IF telling = "stops" THEN "stops" ELSE "tells")]
      /\ stage' = [stage EXCEPT ![a] = FarEnd(a, stage[a] = "accepted" /\ telling = "tells")]
      /\ finishing' = [finishing EXCEPT ![l] = @ + 1]
      /\ UNCHANGED <<locationVars, queued, free, batch, held, bytes, raised, before>>

\* drop(held): its place let go of, and the thread looks for more.
Finishes(l) ==
  /\ finishing[l] > 0
  /\ finishing' = [finishing EXCEPT ![l] = @ - 1]
  /\ held' = Released(held, 1)
  /\ free' = [free EXCEPT ![l].awake = @ + 1]
  /\ UNCHANGED <<locationVars, queued, tellVars, stage, bytes, raised, before, faults>>

----------------------------------------------------------------------------
(* The far ends, and the node's stop.                                      *)

Arrives(a) ==
  /\ stage[a] \in {"away", "kept"} /\ loop[At[a]] # "ended"
  /\ stage' = [stage EXCEPT ![a] = "there"]
  /\ UNCHANGED <<locationVars, poolVars, tellVars, held, bytes, raised, before, faults>>

Raise ==
  /\ ~raised
  /\ raised' = TRUE
  /\ before' = {a \in Arrivals : stage[a] = "there"}
  /\ UNCHANGED <<locationVars, poolVars, tellVars, stage, held, bytes, faults>>

ReceiveInit == \E node \in Nodes :
  /\ loop = [l \in Locations |-> IF l \in node.serves THEN "asks" ELSE "ended"]
  /\ carrying = [l \in Locations |-> 0]
  /\ places = [l \in Locations |-> 0]
  /\ handing = [l \in Locations |-> <<>>]
  /\ failed = {}
  /\ drain = [l \in Locations |-> NewDrain]
  /\ told = [l \in Locations |-> <<>>]
  /\ queued = [l \in Locations |-> <<>>]
  /\ free = [l \in Locations |->
       [awake |-> IF l \in node.serves THEN 1 ELSE 0, waits |-> 0, woken |-> 0, timed |-> 0]]
  /\ finishing = [l \in Locations |-> 0]
  /\ batch = [l \in Locations |-> <<>>]
  /\ turn = [l \in Locations |-> 1]
  /\ stage = [a \in Arrivals |-> IF a \in node.arrives THEN "away" ELSE "gone"]
  /\ held = 0 /\ bytes = 0
  /\ raised = FALSE /\ before = {}
  /\ faults = 0

Receives(l) ==
  \/ \E some \in SUBSET There(l) : \E found \in SetToSeqs(some) : Finds(l, found)
  \/ FindsNothing(l)
  \/ ReceiveStops(l)

Loop(l) == Asks(l) \/ Settles(l) \/ Holds(l) \/ Receives(l) \/ Hands(l)
           \/ Rested(l) \/ Ends(l)

Thread(l) == TakesWork(l) \/ WaitsForWork(l) \/ Wakes(l) \/ TimedOut(l) \/ Finishes(l)

Carry(a) ==
  \/ CarryBegins(a)
  \/ \E ended \in {"accepted", "failed", "panicked"} : CarryEnds(a, ended)
  \/ \E telling \in {"tells", "mends", "stops", "panics"} : Tells(a, telling)

ReceiveNext ==
  \/ \E l \in Locations : Loop(l) \/ Thread(l) \/ IdleRunsOut(l) \/ DrainRunsOut(l)
  \/ \E a \in Arrivals : Carry(a) \/ Arrives(a)
  \/ Raise

ReceiveSpec == ReceiveInit /\ [][ReceiveNext]_receiveVars

\* Threads run; a receive returns, its transport's own wait bounding it; a rest
\* runs out; a carry ends.  Nothing is assumed of the far ends and the stop, nor
\* of who of two waiting for a budget gets it.
ReceiveFairness ==
  /\ \A l \in Locations : WF_receiveVars(Loop(l)) /\ WF_receiveVars(Thread(l))
  /\ \A a \in Arrivals : WF_receiveVars(Carry(a))

ReceiveFairSpec == ReceiveSpec /\ ReceiveFairness

----------------------------------------------------------------------------
(* What must hold.                                                         *)

Loops == {"asks", "settles", "receives", "hands", "rests", "ends", "ended"}

\* Every variable keeps its type, no pool has more threads than its most, and
\* no more is held than the node's budgets.
ReceiveTypeOK ==
  /\ loop \in [Locations -> Loops]
  /\ carrying \in [Locations -> 0 .. Most]
  /\ places \in [Locations -> 0 .. Carries]
  /\ handing \in [Locations -> Seq(Arrivals)] /\ batch \in [Locations -> Seq(Arrivals)]
  /\ queued \in [Locations -> Seq(Arrivals)] /\ turn \in [Locations -> Nat \ {0}]
  /\ failed \subseteq Locations
  /\ drain \in [Locations -> [letGo : BOOLEAN, until : {"none", "set", "past"}, quiet : BOOLEAN]]
  /\ told \in [Locations -> Seq({"tells", "stops"})]
  /\ free \in [Locations -> [awake : Nat, waits : Nat, woken : Nat, timed : Nat]]
  /\ finishing \in [Locations -> Nat]
  /\ \A l \in Locations : Threads(l) \in 0 .. Most
  /\ stage \in [Arrivals -> Stages]
  /\ held \in 0 .. Carries /\ bytes \in 0 .. Bytes
  /\ raised \in BOOLEAN /\ before \subseteq Arrivals /\ faults \in 0 .. MaxFaults

\* What a count of each Location comes to, one by one.
Slots(count) == UNION {{l} \X (1 .. count[l]) : l \in Locations}

\* The places held of the node's budget are those its receives and its carries
\* hold, and the bytes those of its carries, never more than the budget: none
\* leaks when a receive finds less than it asked for, fails, or a carry panics.
BudgetsKept ==
  /\ held = Cardinality(Slots(places)) + Cardinality(Slots(finishing))
            + Cardinality({a \in Arrivals : stage[a] \in Pending})
  /\ bytes = Charge * Cardinality({a \in Arrivals : stage[a] = "carries"})

\* What is queued has a thread coming for it, or the pool has all its threads
\* and they work: a thread that times out or was woken for what another took
\* strands nothing (pool.rs, run and serve).
NoneStranded ==
  \A l \in Locations :
    LET coming == free[l].awake + free[l].woken + free[l].timed
    IN  Len(queued[l]) <= coming \/ (Threads(l) = Most /\ coming + Working(l) > 0)

\* What an ordered Location's arrivals are told, they are told in the order they
\* came, over all its receives, however their carries end.
InOrder ==
  [][\A a \in Arrivals :
       LET l == At[a] IN
       l \in Ordered /\ stage[a] \in Pending /\ stage'[a] \notin Pending =>
         \A b \in Of(l) \ {a} :
           stage[b] \in Pending => b \in Range(batch[l]) /\ Place(b) > Place(a)]_receiveVars

\* A Location that drains closes with nothing in its backlog that came before
\* the stop and that its far end let go of, unless its bound ran out or a
\* receive failed.
DrainTakes ==
  \A l \in Locations \ Polled :
    loop[l] \in {"ends", "ended"} /\ drain[l].letGo /\ drain[l].until # "past" /\ faults = 0 =>
      \A a \in before \cap LetGo \cap Of(l) : stage[a] # "there"

\* A node that stops comes to rest: every arrival taken is carried and told,
\* whoever panics and whatever the budgets and the turns it waits for; every
\* Location's serve ends, with no thread left.
StopEnds == raised ~> \A l \in Locations : loop[l] = "ended" /\ Threads(l) = 0

\* "With none at the node, this waits for a carry to end" (receiving.rs): a
\* Location waits for a place only while a carry has one.
WaitsForACarry ==
  \A l \in Locations :
    loop[l] = "settles" /\ carrying[l] <= Busy(l) /\ held = Carries =>
      (\E a \in Arrivals : stage[a] \in Pending) \/ (\E k \in Locations : finishing[k] > 0)

\* Nothing taken is left behind: every place and byte held is some arrival's or
\* some receive's, what is queued has a thread coming, and what a drain was to
\* take is taken (budget.rs, pool.rs, drain.rs).
NoneLeft == BudgetsKept /\ NoneStranded /\ DrainTakes
==============================================================================
