------------------------------ MODULE Arrival ------------------------------
(***************************************************************************)
(* The receive cycle end to end: a Stream that turns up, the gates it      *)
(* passes, its chunks and its Publication in the Ledger, the               *)
(* acknowledgement, and what the Publication sets going - the sends of its *)
(* Journeys and the splitting of one a Work Process debatches.             *)
(*                                                                         *)
(* arrival::arrive runs three gates over the connection, writes the Stream *)
(* in chunks, and runs the same gates over the Message.  message_path::    *)
(* carry then publishes as one write, hands what it claimed to the send    *)
(* step, and waits until the write is durable before the sender is told.   *)
(*                                                                         *)
(* The Ledger is a log of which a prefix is synced.  A crash, or a sync    *)
(* that fails, loses what follows the prefix.  A sender that is not told   *)
(* an answer, or is told its Stream failed, sends it again.                *)
(*                                                                         *)
(* A Stream is a record: the claims its connection presents in the order   *)
(* they are identified, one the transport itself presents, the claims its  *)
(* content holds, its chunks, whether its properties can be read, the      *)
(* Subscriptions it matches, and the records it splits into.               *)
(***************************************************************************)
EXTENDS Integers, FiniteSets, Sequences, SequencesExt

CONSTANTS
  Streams,        \* the Streams that may turn up
  Circumstance,   \* the claim of a Stream nothing was identified of
  Accept,         \* the mechanisms the Receive Location accepts
  Parties,        \* the Parties in their order, each a set of <<mechanism, value>>
  Permitted,      \* the Parties a policy permits, None for a sender of no Party
  Misaligned,     \* what a Location does of layers that disagree: "accept", "refuse"
  Subscriptions,  \* the Subscriptions in the order routing asks them
  Leads,          \* where each leads: a Send Port, a Send Port Group, a Work Process
  Ports, Groups, Processes,
  Members,        \* each declared Group's Ports, in the Group's order
  Correlated,     \* the Groups that name a Correlation
  LocationsOf,    \* each Port's Send Locations on this node
  Sequential,     \* the Ports whose Messages pass one at a time
  Paused,         \* the Subscriptions that are paused
  Room,           \* the places of the Send pool
  Carries,        \* the arrivals the node's budget lets it carry at once
  None,
  \* bounds: the sends of all senders, the crashes and failed syncs, the turns
  MaxSends, MaxFaults, MaxTurns

ASSUME ArrivalAssumption ==
  /\ Misaligned \in {"accept", "refuse"}
  /\ {Room, Carries} \subseteq Nat \ {0}
  /\ DOMAIN Members \subseteq Groups
  /\ \A u \in Range(Subscriptions) : Leads[u] \in Ports \cup Groups \cup Processes
  /\ \A s \in Streams : /\ s.chunks \in Nat \ {0} /\ s.matches \subseteq Range(Subscriptions)
                         /\ s.rows \in Seq({"part", "refused"})
  /\ {MaxSends, MaxFaults, MaxTurns} \subseteq Nat

VARIABLES
  log,      \* what Xmip Storage has taken, in order
  synced,   \* how much of it is durable
  arr,      \* the arrivals: each one's Stream, how far it is, its chunks and facts
  told,     \* what each Stream's sender was told last
  handed,   \* the Journeys on the Send pool
  seen,     \* the Journeys whose far end has the Message
  split,    \* the splitting under way, None where there is none
  faults, turns

vars == <<log, synced, arr, told, handed, seen, split, faults, turns>>

Durable == SubSeq(log, 1, synced)
Written(kind) == {e \in Range(log) : e.kind = kind}

-----------------------------------------------------------------------------
(* The gates.                                                              *)

\* Parties::resolve: the first Party that holds the verified value.
Resolve(c) ==
  LET holds == {i \in DOMAIN Parties : <<c.mech, c.value>> \in Parties[i]}
  IN IF holds = {} THEN None ELSE CHOOSE i \in holds : \A k \in holds : i <= k

\* authenticate: against the Location's closed set.
Authentic(c) == c.mech \in Accept /\ c.good
Identity(c) == [claim |-> c, party |-> Resolve(c)]

Facts(t, m, u) == [transport |-> Identity(t),
                   message |-> IF m = None THEN None ELSE Identity(m), unchecked |-> u]

\* authorize: a policy permits every layer's Party, and what the Location
\* does of two that disagree.
Authorized(f) ==
  /\ f.transport.party \in Permitted
  /\ f.message # None =>
       /\ f.message.party \in Permitted
       /\ f.message.party = f.transport.party \/ Misaligned = "accept"

\* The one transport claim authenticated: the first identified, the one the
\* transport presented, or the circumstance.
TransportClaim(s) ==
  CASE s.claims # <<>> -> Head(s.claims)
    [] s.claims = <<>> /\ s.presented # None -> s.presented
    [] OTHER -> Circumstance

Unchecked(s) ==
  IF s.claims = <<>> THEN <<>>
  ELSE Tail(s.claims) \o (IF s.presented = None THEN <<>> ELSE <<s.presented>>)

TransportFacts(s) == Facts(TransportClaim(s), None, Unchecked(s))

\* The transport gates' verdict: "passed", or what the sender is told.
AtTransport(s) ==
  CASE s.garbled = "claims" -> "unidentified"
    [] s.garbled # "claims" /\ ~Authentic(TransportClaim(s)) -> "unidentified"
    [] s.garbled # "claims" /\ Authentic(TransportClaim(s)) /\ ~Authorized(TransportFacts(s)) -> "forbidden"
    [] OTHER -> "passed"

OfLayer(s, l) == SelectSeq(s.inner, LAMBDA c : c.layer = l)

\* As a bug would have it: a claim beside the first is not recorded.
MessageFactsFirst(s) ==
  LET mine == OfLayer(s, "message")
  IN IF mine = <<>> THEN TransportFacts(s) ELSE Facts(TransportClaim(s), Head(mine), Unchecked(s))

\* settle_message_identity: the first message claim authenticated, the rest
\* recorded beside the transport's.
MessageFacts(s) ==
  LET mine   == OfLayer(s, "message")
      others == OfLayer(s, "transport")
  IN IF mine = <<>>
       THEN Facts(TransportClaim(s), None, Unchecked(s) \o others)
       ELSE Facts(TransportClaim(s), Head(mine), Unchecked(s) \o Tail(mine) \o others)

\* The message gates' and promotion's verdict.
AtMessage(s) ==
  LET f == MessageFacts(s)
  IN CASE s.garbled = "inner" -> "unidentified"
       [] s.garbled # "inner" /\ f.message # None /\ ~Authentic(f.message.claim) -> "unidentified"
       [] s.garbled # "inner" /\ f.message # None /\ Authentic(f.message.claim) /\ ~Authorized(f) -> "forbidden"
       [] OTHER -> IF s.promotes THEN "passed" ELSE "unacceptable"

\* promote_identity: what a Subscription may route on.
Context(f) ==
  [transport |-> f.transport.claim,
   message   |-> IF f.message = None THEN None ELSE f.message.claim,
   misaligned |-> f.message # None /\ f.message.party # f.transport.party,
   party |-> IF f.message = None THEN f.transport.party ELSE f.message.party]

-----------------------------------------------------------------------------
(* Where a Message leads.                                                  *)

\* Pickup::reaches, ConfiguredSubscription: a Journey for each Port.
Reaches(u) ==
  IF Leads[u] \in DOMAIN Members /\ Members[Leads[u]] # <<>> THEN Members[Leads[u]] ELSE <<Leads[u]>>

\* ledger::opened: a Journey for every Subscription matched and every Port it
\* reaches, in the order they were asked.
Opened(s) ==
  LET of(u) == LET ports == Reaches(u)
               IN [i \in DOMAIN ports |->
                     [sub |-> u, to |-> ports[i], group |-> IF Leads[u] \in Groups THEN Leads[u] ELSE None]]
      matched == SelectSeq(Subscriptions, LAMBDA u : u \in s.matches)
  IN FlattenSeq([i \in DOMAIN matched |-> of(matched[i])])

\* As a bug would have it: neighbours through one Group are one delivery,
\* whichever Subscription they came by.
DeliveredByGroup(o, i) ==
  {k \in DOMAIN o : \A n \in DOMAIN o :
     (n \in i..k \/ n \in k..i) => o[n].group = o[i].group}

\* sequence::group::delivered: the Journeys one Subscription opened through
\* the Group beside this one.
Delivered(o, i) ==
  {k \in DOMAIN o : \A n \in DOMAIN o :
     (n \in i..k \/ n \in k..i) => o[n].sub = o[i].sub /\ o[n].group = o[i].group}

\* Sends::serves: a Port with a Send Location here; a Group that reaches
\* here is declared by nothing.
Serves(to) == to \in Ports /\ LocationsOf[to] # {}
SentHere(to) == Serves(to) /\ to \notin Sequential

\* Pickup::holding: what a paused Subscription holds.
Held(o) == {i \in DOMAIN o : o[i].sub \in Paused}
Departing(o) == DOMAIN o \ Held(o)

\* SendStep::line_up: as many as the pool admits are claimed, in order.
Claims(o, places) ==
  LET wanted == {i \in Departing(o) : SentHere(o[i].to)}
  IN {i \in wanted : Cardinality({k \in wanted : k < i}) < places}

\* ledger::record: the delivery a Journey's record names.
GroupDelivery(o) == [i \in {i \in DOMAIN o : o[i].group \in Correlated} |-> Delivered(o, i)]

\* dead_message::entry: every decline and what the gates concluded, where
\* nothing matched.
Dead(s, o) ==
  IF o # <<>> THEN None
  ELSE [declines |-> SelectSeq(Subscriptions, LAMBDA u : u \notin s.matches), facts |-> MessageFacts(s)]

\* The audit record of a Publication: what became of the Message.
Audited(o) ==
  [disposition |-> IF o = <<>> THEN "dead-message-queue" ELSE "routed",
   subscriptions |-> [i \in DOMAIN o |-> o[i].sub]]

\* ledger::publish: the Message record, its Journeys, where each waits, the
\* members of each delivery, the Dead Message Queue's entry and the audit
\* record, as one write.
Publication(a, s, places) ==
  LET o == Opened(s)
  IN [kind |-> "publication", of |-> a, stream |-> s, facts |-> MessageFacts(s),
      context |-> Context(MessageFacts(s)),
      journeys |-> o,
      held |-> Held(o), lined |-> Departing(o), claims |-> Claims(o, places),
      delivery |-> GroupDelivery(o), dead |-> Dead(s, o), audit |-> Audited(o)]

Publications(l) == {e \in Range(l) : e.kind = "publication"}
Of(l, a) == {e \in Publications(l) : e.of = a}

-----------------------------------------------------------------------------
(* One arrival.                                                            *)

Carried == {a \in DOMAIN arr : arr[a].step # "over"}

Step(a, p) == arr' = [arr EXCEPT ![a].step = p]

Ended(r) == [stream |-> r.stream, chunks |-> 0, step |-> "over"]

\* The cycle ended: its sender is told.
Ends(a, verdict) ==
  /\ arr' = [arr EXCEPT ![a] = Ended(@)]
  /\ told' = [told EXCEPT ![arr[a].stream] = verdict]

\* Telling dropped unheard: the far end hears nothing of a lost connection.
Unheard(a) ==
  /\ arr' = [arr EXCEPT ![a] = Ended(@)]
  /\ UNCHANGED told

\* A sender sends, or sends again; the transport gates.
Arrive(s) ==
  /\ Len(arr) < MaxSends
  /\ told[s] \in {"nothing", "failed"}
  /\ Cardinality(Carried) < Carries
  /\ \A a \in Carried : arr[a].stream # s
  /\ LET v == AtTransport(s)
     IN /\ arr' = Append(arr, [stream |-> s, chunks |-> 0,
                               step |-> IF v = "passed" THEN "writing" ELSE "over"])
        /\ told' = IF v = "passed" THEN [told EXCEPT ![s] = "nothing"] ELSE [told EXCEPT ![s] = v]
  /\ UNCHANGED <<log, synced, handed, seen, split, faults, turns>>

\* ledger::write_stream: a chunk, the last with the Stream's own record.
WriteChunk(a) ==
  /\ arr[a].step = "writing"
  /\ LET n == arr[a].chunks + 1
         last == n = arr[a].stream.chunks
     IN /\ log' = Append(log, [kind |-> "chunk", of |-> a, index |-> n, ends |-> last])
        /\ arr' = [arr EXCEPT ![a] = [stream |-> @.stream, chunks |-> n,
                                      step |-> IF last THEN "written" ELSE "writing"]]
  /\ UNCHANGED <<synced, told, handed, seen, split, faults, turns>>

\* The Stream could not be read, or Xmip Storage did not take a chunk.
WriteFails(a) ==
  /\ arr[a].step = "writing"
  /\ Ends(a, "failed")
  /\ UNCHANGED <<log, synced, handed, seen, split, faults, turns>>

\* Message creation, the message gates and promotion; a gate given nothing
\* because the Ledger could not be read routes on nothing.
Settle(a) ==
  /\ arr[a].step = "written"
  /\ LET v == AtMessage(arr[a].stream)
     IN \/ v = "passed" /\ Step(a, "publishing") /\ UNCHANGED told
        \/ v # "passed" /\ Ends(a, v)
        \/ Ends(a, "failed")
  /\ UNCHANGED <<log, synced, handed, seen, split, faults, turns>>

\* The Publication's one write, answered before its sync; refused where the
\* Ledger has lost the Stream's chunks meanwhile.
WholeIn(l, a) ==
  /\ \A n \in 1..arr[a].stream.chunks : \E e \in Range(l) : e.kind = "chunk" /\ e.of = a /\ e.index = n
  /\ \E e \in Range(l) : e.kind = "chunk" /\ e.of = a /\ e.ends

Publish(a) ==
  /\ arr[a].step = "publishing"
  /\ WholeIn(log, a)
  /\ log' = Append(log, Publication(a, arr[a].stream, Room - Cardinality(handed)))
  /\ \/ Step(a, "published") /\ UNCHANGED told
     \/ Ends(a, "failed")   \* its answer lost
  /\ UNCHANGED <<synced, handed, seen, split, faults, turns>>

PublishFails(a) ==
  /\ arr[a].step = "publishing"
  /\ Ends(a, "failed")
  /\ UNCHANGED <<log, synced, handed, seen, split, faults, turns>>

\* SendStep::handed: what was claimed put on the pool, before the sync.
Hand(a) ==
  /\ arr[a].step = "published"
  /\ handed' = handed \cup UNION {{<<a, i>> : i \in p.claims} : p \in Of(log, a)}
  /\ Step(a, "syncing")
  /\ UNCHANGED <<log, synced, told, seen, split, faults, turns>>

\* As a bug would have it: the sender acknowledged once Xmip Storage answers.
AcknowledgeAnswered(a) ==
  /\ arr[a].step = "syncing"
  /\ Ends(a, "accepted")
  /\ UNCHANGED <<log, synced, handed, seen, split, faults, turns>>

\* durable.wait(), then the acknowledgement.
Acknowledge(a) ==
  /\ arr[a].step = "syncing"
  /\ \/ Of(Durable, a) # {} /\ (Ends(a, "accepted") \/ Unheard(a))
     \/ Of(log, a) = {} /\ Ends(a, "failed")
  /\ UNCHANGED <<log, synced, handed, seen, split, faults, turns>>

\* A carry that panics tells its far end Failed on the way out.
Panics(a) ==
  /\ arr[a].step # "over"
  /\ Ends(a, "failed")
  /\ UNCHANGED <<log, synced, handed, seen, split, faults, turns>>

-----------------------------------------------------------------------------
(* Xmip Storage.                                                           *)

Sync ==
  /\ synced < Len(log)
  /\ synced' = Len(log)
  /\ UNCHANGED <<log, arr, told, handed, seen, split, faults, turns>>

\* A sync that fails keeps nothing of what it was to keep.
SyncFails ==
  /\ synced < Len(log)
  /\ faults < MaxFaults
  /\ log' = Durable
  /\ faults' = faults + 1
  /\ UNCHANGED <<synced, arr, told, handed, seen, split, turns>>

\* The node's process ends and starts again.
Crash ==
  /\ faults < MaxFaults
  /\ faults' = faults + 1
  /\ log' = Durable
  /\ arr' = [a \in DOMAIN arr |-> Ended(arr[a])]
  /\ handed' = {}
  /\ split' = None
  /\ UNCHANGED <<synced, told, seen, turns>>

-----------------------------------------------------------------------------
(* The send step's part: its own module is SendDispatch.                   *)

\* As a bug would have it: let out as soon as it is handed.
DepartUnkept(j) ==
  /\ j \in handed
  /\ handed' = handed \ {j}
  /\ seen' = seen \cup {j}
  /\ UNCHANGED <<log, synced, arr, told, split, faults, turns>>

\* depart_one: the far end sees it once its Publication is durable; nothing
\* of one that was not kept.
Depart(j) ==
  /\ j \in handed
  /\ \/ /\ Of(Durable, j[1]) # {}
        /\ seen' = seen \cup {j}
     \/ /\ Of(log, j[1]) = {}
        /\ UNCHANGED seen
  /\ handed' = handed \ {j}
  /\ UNCHANGED <<log, synced, arr, told, split, faults, turns>>

\* As a bug would have it: what a Publication claimed is never taken again.
ScanUnclaimed(j) ==
  /\ \E p \in Of(log, j[1]) : j[2] \in p.lined \ p.claims /\ Serves(p.journeys[j[2]].to)
  /\ j \notin handed \cup seen
  /\ Cardinality(handed) < Room
  /\ handed' = handed \cup {j}
  /\ synced' = Len(log)
  /\ UNCHANGED <<log, arr, told, seen, split, faults, turns>>

\* A scan of a served queue: what waits there claimed, by a write that is
\* durable, and with it all that was written before.
Scan(j) ==
  /\ \E p \in Of(log, j[1]) :
       /\ j[2] \in p.lined /\ Serves(p.journeys[j[2]].to)
       /\ ~(j[2] \in p.claims /\ arr[j[1]].step = "published")
  /\ j \notin handed \cup seen
  /\ Cardinality(handed) < Room
  /\ handed' = handed \cup {j}
  /\ synced' = Len(log)
  /\ UNCHANGED <<log, arr, told, seen, split, faults, turns>>

-----------------------------------------------------------------------------
(* A Work Process's Debatch.                                               *)

\* A turn splits the Message of a Journey bound for a Work Process, claimed
\* as a scan claims.
SplitBegins(j) ==
  /\ split = None
  /\ turns < MaxTurns
  /\ \E p \in Of(log, j[1]) : j[2] \in p.lined /\ p.journeys[j[2]].to \in Processes
  /\ \A e \in Written("turn") : e.of # j
  /\ split' = [of |-> j, took |-> 0, written |-> <<>>, failed |-> {}]
  /\ turns' = turns + 1
  /\ synced' = Len(log)
  /\ UNCHANGED <<log, arr, told, handed, seen, faults>>

Rows == arr[split.of[1]].stream.rows

\* Splitting::write: a record's Stream written while none has failed.
SplitRecord ==
  /\ split # None
  /\ split.took < Len(Rows)
  /\ LET n == split.took + 1
         writes == Rows[n] = "part" /\ split.failed = {}
     IN /\ split' = [of |-> split.of, took |-> n,
                    written |-> IF writes THEN Append(split.written, n) ELSE split.written,
                    failed |-> IF Rows[n] = "part" THEN split.failed ELSE split.failed \cup {n}]
        /\ log' = IF writes THEN Append(log, [kind |-> "record", of |-> split.of, row |-> n]) ELSE log
  /\ UNCHANGED <<synced, arr, told, handed, seen, faults, turns>>

\* Xmip Storage did not take a record's Stream: the turn fails.
SplitFails ==
  /\ split # None
  /\ split' = None
  /\ UNCHANGED <<log, synced, arr, told, handed, seen, faults, turns>>

\* As a bug would have it: what was written is made, whatever failed after.
PartsWritten(written, failed) ==
  [p \in DOMAIN written |-> [row |-> written[p], position |-> p, count |-> Len(written)]]

\* split::parts: every record a Message of its own, or none.
Parts(written, failed) ==
  IF failed # {} THEN <<>>
  ELSE [p \in DOMAIN written |-> [row |-> written[p], position |-> p, count |-> Len(written)]]

\* The turn's one durable write, refused where its Journey or its records'
\* Streams are gone.
SplitEnds ==
  /\ split # None
  /\ split.took = Len(Rows)
  /\ Of(log, split.of[1]) # {}
  /\ \A p \in DOMAIN split.written :
       [kind |-> "record", of |-> split.of, row |-> split.written[p]] \in Range(log)
  /\ log' = Append(log, [kind |-> "turn", of |-> split.of, parts |-> Parts(split.written, split.failed)])
  /\ synced' = Len(log')
  /\ split' = None
  /\ UNCHANGED <<arr, told, handed, seen, faults, turns>>

-----------------------------------------------------------------------------
Init ==
  /\ log = <<>>
  /\ synced = 0
  /\ arr = <<>>
  /\ told = [s \in Streams |-> "nothing"]
  /\ handed = {}
  /\ seen = {}
  /\ split = None
  /\ faults = 0
  /\ turns = 0

Journeys == UNION {{<<p.of, i>> : i \in DOMAIN p.journeys} : p \in Publications(log)}

Arrivals ==
  \/ \E s \in Streams : Arrive(s)
  \/ \E a \in DOMAIN arr :
       WriteChunk(a) \/ WriteFails(a) \/ Settle(a) \/ Publish(a) \/ PublishFails(a)
         \/ Hand(a) \/ Acknowledge(a) \/ Panics(a)

Sends ==
  \/ \E j \in handed : Depart(j)
  \/ \E j \in Journeys : Scan(j) \/ SplitBegins(j)
  \/ SplitRecord \/ SplitFails \/ SplitEnds

Next == Arrivals \/ Sync \/ SyncFails \/ Crash \/ Sends

Spec == Init /\ [][Next]_vars

\* Xmip Storage syncs, the pool's threads run, and the served queues are read
\* again and again.
Fairness ==
  /\ WF_vars(Sync)
  /\ WF_vars(\E j \in handed : Depart(j))
  /\ WF_vars(\E j \in Journeys : Scan(j))

FairSpec == Spec /\ Fairness

-----------------------------------------------------------------------------
(* Properties.                                                             *)

Verdicts == {"unidentified", "forbidden", "unacceptable", "accepted", "failed"}

Steps == {"writing", "written", "publishing", "published", "syncing", "over"}
Records == [stream : Streams, chunks : Nat, step : Steps]

\* Every variable keeps its type, and what is synced is some of the log.
TypeOK ==
  /\ log \in Seq(Range(log)) /\ synced \in 0 .. Len(log)
  /\ arr \in Seq(Records)
  /\ \A a \in DOMAIN arr : /\ arr[a].chunks <= arr[a].stream.chunks
                           /\ arr[a].step = "writing" => arr[a].chunks < arr[a].stream.chunks
  /\ told \in [Streams -> {"nothing"} \cup Verdicts]
  /\ faults \in 0 .. MaxFaults /\ turns \in 0 .. MaxTurns

\* What is under way, and what is in the Ledger, passed the gates; and a
\* Publication is what its Stream makes, after its chunks.
ArrInv ==
  \A a \in DOMAIN arr :
    /\ arr[a].step # "over" => AtTransport(arr[a].stream) = "passed"
    /\ arr[a].step \in {"publishing", "published", "syncing"} => AtMessage(arr[a].stream) = "passed"

WholeBefore(i, a) ==
  /\ \A n \in 1 .. arr[a].stream.chunks :
       \E k \in 1 .. (i - 1) : log[k].kind = "chunk" /\ log[k].of = a /\ log[k].index = n
  /\ \E k \in 1 .. (i - 1) : log[k].kind = "chunk" /\ log[k].of = a /\ log[k].ends

ChunkInv ==
  \A i \in 1 .. Len(log) : log[i].kind = "chunk" =>
    log[i].of \in DOMAIN arr /\ AtTransport(arr[log[i].of].stream) = "passed"

\* All of a Publication its Stream decides: the claims depend on the pool's
\* room.
MadeOf(p, s) ==
  LET o == Opened(s)
  IN /\ p.stream = s /\ p.facts = MessageFacts(s) /\ p.context = Context(MessageFacts(s))
     /\ p.journeys = o /\ p.held = Held(o) /\ p.lined = Departing(o)
     /\ p.delivery = GroupDelivery(o) /\ p.dead = Dead(s, o) /\ p.audit = Audited(o)

PublicationInv ==
  \A i \in 1 .. Len(log) : log[i].kind = "publication" =>
    /\ log[i].of \in DOMAIN arr
    /\ LET s == arr[log[i].of].stream
       IN MadeOf(log[i], s) /\ AtTransport(s) = "passed" /\ AtMessage(s) = "passed"
    /\ WholeBefore(i, log[i].of)

\* A splitting has written every record it took, or met one it may not make.
SplitInv ==
  split # None =>
    /\ split.of[1] \in DOMAIN arr
    /\ split.took \in 0 .. Len(Rows)
    /\ IF split.failed = {}
         THEN /\ split.written = [n \in 1 .. split.took |-> n]
              /\ \A n \in 1 .. split.took : Rows[n] = "part"
         ELSE \E n \in 1 .. Len(Rows) : Rows[n] # "part"

\* A turn's Message is of an arrival there was.
TurnInv == \A i \in 1 .. Len(log) : log[i].kind = "turn" => log[i].of[1] \in DOMAIN arr

\* Of what a sender was told is accepted, the durable Ledger has the chunks
\* whole and the Publication the Stream makes (ledger.rs:18-24).
AcceptedDurable ==
  \A s \in Streams : told[s] = "accepted" =>
    \E p \in Publications(Durable) : MadeOf(p, s) /\ WholeIn(Durable, p.of)

\* A Publication leaves no Message without a Journey or an entry in the Dead
\* Message Queue with every decline.
Routed(p) ==
  IF p.stream.matches = {} THEN p.dead.declines = Subscriptions ELSE p.journeys # <<>>

\* A sender told its Stream is accepted has it kept: its chunks whole, its
\* Message and its Journeys or its Dead Message Queue entry are in the
\* durable Ledger, whatever crashes or fails afterwards (ledger.rs:18-24).
AcceptedKept ==
  \A s \in Streams : told[s] = "accepted" =>
    \E p \in Publications(Durable) : p.stream = s /\ WholeIn(Durable, p.of) /\ Routed(p)

\* No far end has a Message the Ledger could still lose: a send may begin
\* before the Publication's sync and is let out after it (departure.rs:305-319).
SeenKept == \A j \in seen : Of(Durable, j[1]) # {}

Admitted(c) == c.mech \in Accept /\ c.good /\ Resolve(c) \in Permitted

Checked(p) ==
  {p.facts.transport.claim}
    \cup (IF p.facts.message = None THEN {} ELSE {p.facts.message.claim})

\* Nothing of a sender the transport gates refuse is in the Ledger, and no
\* Message of one either pass refuses (arrival.rs:58-83).
OnlyAdmitted ==
  /\ \A e \in Written("chunk") : Admitted(TransportClaim(arr[e.of].stream))
  /\ \A p \in Publications(log) : \A c \in Checked(p) : Admitted(c)

\* A Publication accounts for every claim the Stream presented, checked or
\* not, each once, and its context says what the gates concluded.
Accounts(s, facts, context, checked) ==
  LET all == s.claims \o s.inner \o (IF s.presented = None THEN <<>> ELSE <<s.presented>>)
  IN /\ (\E i \in DOMAIN s.inner : s.inner[i].layer = "message") => facts.message # None
     /\ Range(facts.unchecked) \cup (checked \ {Circumstance}) = Range(all)
     /\ checked \cap Range(facts.unchecked) = {}
     /\ {context.transport, context.message} \ {None} = checked

Accounted(p) == Accounts(p.stream, p.facts, p.context, Checked(p))

\* The Ledger holds nothing a gate refused, and of what the gates concluded a
\* Publication leaves nothing out (arrival.rs:58-83, 113-127).
GatesPassed == OnlyAdmitted /\ \A p \in Publications(log) : Accounted(p)

\* One Journey for each Subscription matched and each Port it reaches, each of
\* them held or lined up and not both, and the members of a Group's delivery
\* those its one Subscription opened.
Opens(matches, o, held, lined, delivery, dead, audit) ==
  /\ \A i, k \in DOMAIN o : (o[i].sub = o[k].sub /\ o[i].to = o[k].to) => i = k
  /\ {<<o[i].sub, o[i].to>> : i \in DOMAIN o}
       = UNION {{<<u, to>> : to \in Range(Reaches(u))} : u \in matches}
  /\ held \cup lined = DOMAIN o /\ held \cap lined = {}
  /\ (o = <<>>) <=> (dead # None)
  /\ Range(audit.subscriptions) = matches
  /\ \A i \in DOMAIN delivery : delivery[i] = {k \in DOMAIN o : o[k].sub = o[i].sub}

EachOpened(p) ==
  Opens(p.stream.matches, p.journeys, p.held, p.lined, p.delivery, p.dead, p.audit)

\* Every Publication opens exactly what its Stream matched
\* (publication.rs:80-118, group.rs:40-71).
OneEach == \A p \in Publications(log) : EachOpened(p)

\* What the routing functions make of each Stream by itself, with no state:
\* the constant half of Kept, GatesPassed and Whole.
RoutesAll == \A s \in Streams : Routed(Publication(1, s, Room))
AccountsAll == \A s \in Streams : Accounted(Publication(1, s, Room))
OpensAll == \A s \in Streams : EachOpened(Publication(1, s, Room))

\* A Message's debatch is all or nothing: every record a part in its order,
\* its Stream in the Ledger before it, or no part where any was refused -
\* whatever a failed sync or a crash took of it (split.rs:6-25).
AllOrNone ==
  \A i \in DOMAIN log : log[i].kind = "turn" =>
    LET rows == arr[log[i].of[1]].stream.rows
        made == log[i].parts
    IN IF \A n \in DOMAIN rows : rows[n] = "part"
         THEN /\ Len(made) = Len(rows)
              /\ \A n \in DOMAIN rows :
                   /\ made[n] = [row |-> n, position |-> n, count |-> Len(rows)]
                   /\ \E k \in 1..(i - 1) : log[k] = [kind |-> "record", of |-> log[i].of, row |-> n]
         ELSE made = <<>>

\* An accepted Stream's Messages reach every Port served here that no paused
\* Subscription holds back, claimed in the Publication or left for a scan, a
\* crash between or not (send_step.rs:22-34).
Reached(s) ==
  \E p \in Publications(Durable) :
    p.stream = s /\ \A i \in p.lined : Serves(p.journeys[i].to) => <<p.of, i>> \in seen

AcceptedReached == []<>(\A s \in Streams : told[s] = "accepted" => Reached(s))

\* Nothing the runtime vouched for can be lost: neither what a sender was told
\* is accepted nor what a far end has (ledger.rs, departure.rs).
Kept == AcceptedKept /\ SeenKept

\* What a Stream became is whole: every Journey its matches open, and of a
\* debatch every part or none (publication.rs, split.rs).
Whole == OneEach /\ AllOrNone
=============================================================================
