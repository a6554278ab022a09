# xmip-core-runtime in TLA+

The runtime of an Xmip node receives Streams, makes Messages of them, routes
each to Send Ports and Work Processes, and sends or works them out. Everything
that must outlive a node is in the Ledger, kept by Xmip Storage: Journeys,
queues with one place per Message, claims with a lease and a fence. Several
nodes may serve the same Port. An operator watches and acts on a node through
the plane, from a tool on the machine or from a browser through a web host.
These modules say what the nodes do to the Ledger and to each other, check it on
small instances with TLC, and prove what matters most of them for every
instance with TLAPS.

## The system

| part | its state | its operations | what is hard | what makes it correct |
|---|---|---|---|---|
| send step (`send_step/`) | `owned`, `taking`, `admitted`, `starved`, `asked`, `due`, `passed`, `handed`; in the Ledger the queue, claim, Journey and attempts of each Message | line up and hand over a Publication, scan, claim and read again, pass, hand on, settle, renew, Retry and Dismiss | leases on two clocks, late and lost answers, two jobs of one node on one Message, places given back on many paths | only a true holder sends; only what waits is sent; nothing is completed undelivered; places neither leak nor double; everything is taken up in the end |
| departure (`departure.rs`) | a pass's cursor over the Locations, and its tries | try a Location, fail over, give up | a next holder with other Locations | tries go forward across nodes and restarts |
| sequence (`sequence.rs`, `sequence/`) | places in the Ledger; a process's memory of what headed | take places at reception or late, ask who heads, let go | two levels that may wait for each other, stale memory, failures that skip or block | one at a time per key, one Stream at a time, in order, no waiting for ever |
| figures (`send_step/figures.rs`, `failed.rs`, `running/publication.rs`, `outcome.rs`) | counts of each Port, a window on its failed Messages, the tally, the last publication | count, read a window, make a publication, list failed Messages | read outside the lock by many, the last to put away wins | what is shown comes to be so, a measure never falls, a listing lists each once |
| arrival (`arrival.rs`, `message_path.rs`) and the Ledger's writes (`ledger/`) | a Stream's chunks, its claims and facts, its Publication | identify, authenticate, authorize, promote, route, publish, sync, acknowledge | the hand-over before the sync; claims beside the first | nothing acknowledged is lost, nothing refused gets in, a Publication is whole |
| split (`split.rs`) | the records of a debatch so far | write each record, make the parts | a record that fails after others are written | every part or none |
| work step (`work_step/`) | Instances, keys and timers in the Ledger; `owned` and `due` in memory | scan, claim, turn, publish, write over the turn read | no renewal during a turn, Instances shared by keys | a turn happens once, a key names one open Instance |
| pickup (`pickup/`) | which Subscriptions are paused, how many Messages each holds | pause, resume, hold, release, replay, move | the count is decided before a write and adjusted after | what is held leaves oldest first, and leaves |
| receiving (`receiving/`), pool, budget, stopping | a Location's threads, rests and turn; places and bytes held; the stop | receive, hand to the pool, carry, tell, drain | several threads in one order; a stop while receiving | nothing leaks or is stranded, the order is kept, a stop ends |
| stream share (`stream_share/`) | the reads of a Stream, each one's window and readers | join, take a chunk, stall, move, leave | the slowest reader and the read wait on one another | everybody gets every chunk, nobody is held back for good |
| plane: calls and follow (`plane/`) | connections, the surface's state, the board's revision | call, follow, answer, time out, stop | deadlines racing answers, a node that hangs | a surface comes to say what the node is; every call ends |
| plane: callers (`plane/held.rs`, `vouched.rs`, `fresh.rs`, `secured.rs`) | handles, nonces, callers vouched for on a node | handshake, vouch, act, let go, revoke, stop | answers lost, restarts, a revocation while one is taken again | an act is its caller's own; a stopped listener proves no one |
| running, start, signed slices | the configuration file, its anchor, the accepted slice; the phases of a start; the threads | deliver, verify, keep, start, serve, stop, plan from a surface | a crash between two writes, the order of a stop | only a signed slice runs, a way to start is kept, a stop loses nothing |
| configuration, catalogues, certificates, directory watch, local endpoint, most of ffi | read once, or none | | sequential conversions, cryptography, operating system calls | not modelled |

A Publication hands Messages to the send step in memory as well as in the
Ledger, and to the pickup where a Subscription holds. Sequences are asked by the
scan, the pass and the turn. An operator acts through the plane on the send step
and the pickup. Serving starts all of it and closes it in order.

## The modules

A step is one holding of a lock or one request to Xmip Storage, unless said
otherwise. Xmip Storage (crate persist) is external and modelled from how it is
used; a request may be taken and its answer lost. Time is a step that may come.

**MessageLife** is what the send step promises of each Message: published once,
completed only if its far end has it, failed ones waiting for an operator, and
what ended stays so.

**SendClaim** is every node's work on a Message bound for one Send Port.
`state`, `place`, `waits`, `attempts`, `holder`, `fence` and `left` are the
Ledger's; `phase` says where a node's work stands (found by a scan, claimed,
placed by the read under the claim, in its pass, at the last look before the
first byte, sending, tried, settling), `token`, `till` and `lost` are a claim as
the node sees it (`renewal.rs`, Standing), `progress` the pass's cursor,
`passed` the entries passed over, `legible` the Messages the node can read as
ones to send, `renewing` a renewal under way and `act` an operator's. A Message
one node cannot read (its records are not whole, or its identity's mechanism is
one this node's authenticators do not declare) is claimed, read, given back and passed over like one
that no longer waits, and stays for the others; what a node can read changes
only when it starts again. Time is discrete here: `left` and `till` are what remains of a lease
on either side, Tick lowers both, and a grant's `till` may be anything up to a
lease because the request was asked earlier. A token is modelled by the fence,
fresh as it is. A node works on a Message in one place at a time. It refines
MessageLife.

**SendDispatch** is one node's send step from within: `admitted`, `owned`,
`taking` are the places of the Send pool, `asked`, `starved`, `at`, `noted` what
wakes the dispatching, `job` the threads and Publications under way, `scan`
where the dispatching is. One holding is merged with the next in one place: the
look whether an entry is known, the place admitted and the mark in `taking` are
one step, except that a full pool is marked starved in a step of its own. Due
times are not numbers: a retry's time comes in a step, and a wake-up goes off at
any time. A move of a resumed Subscription comes in as Moved, which is what
Pickup's move leaves it. The claim taken by the dispatching itself for a Port
with a Correlation is Sequence's.

**Sequence** is the two levels of order. `line` is a Stream's place in its
Receive Location's sequence, `spot` a Message's at its destination, `told`
whether its Journey says it took that place, `seen` what a node remembers as
having headed. A write may bring a destination several Messages, as a debatch
does: each has its own place, in the order they are queued (`Nth`, of `Width`).
A Message passes one sequence at its destination. Claims are reduced to their holder and
lapse at any time, since SendClaim shows that a holder's own look at its lease
is sound.

**Pickup** is one Subscription of a node. `where`, `place` and `kept` are Xmip
Storage's; `paused`, `held`, `cursor`, `taken`, `pending`, `waits` are the Entry
under the pickup's lock; `work` is each Publication or Replay between its
decision, its write and its count, and `picker` the one thread that reads the
queue, claims, moves and says what ended. `missed` records why a count or a
wake-up was missed, so that a property can say under what it holds.

**WorkStep** is the Work Process step of every node that runs one Work Process.
`st`, `placed`, `due`, `claim`, `inst`, `keyed`, `point` are Xmip Storage's,
`seen` what a scan read, `job` a turn under way. The unit that advances an
Instance (crate process) is external: it waits, sets a timer, completes or
fails. A turn gives up where its keys, its Instance, its arrival or its acts
cannot be had (GivesUp) and is then written failed, refused or not answered. An
Instance is named by the Message that started it. The write is over
the turn that was read, so a turn outrun by another's is not written.

**StreamShare** is the reads of one Stream lent to departures: the window each
read keeps, the departures on it, the lock over the reads held while one joins,
moves or leaves, and each source's own.

**Receiving** is the Receive Locations of one node: each one's serve loop, the
pool that carries its arrivals, the turn of an ordered receive's arrivals, the
drain at a stop, and the node's two budgets, of places and of bytes, that all
Locations share. The pool's growth, its waits, wake-ups and idle ends are
steps under its lock.

**Follow** is an operator surface over one node's listener: calls on one line,
the follow on another, the deadline thread that ends a call on a pipe, and the
listener that answers, hangs, stops, crashes and comes back. A read of a pipe
keeps no time, so it ends with an answer, the node's end or a cancel, and a
cancel reaches only a read under way. The surface's end is in the steps of
Remote: it is said, both lines are cancelled once and the deadline thread lets
the surface go, and later it is dropped, which cancels the follow until its read
is out. Opening a line is a connect and a handshake, which reads too.

**Vouching** is a web host that relays for its browsers' callers: the sessions
of its secure listener, the callers it holds by handles, the nonces it keeps of
each node, what a node issues, vouches for and lets go, and an act's gate. A
handshake is what it proves and the nonces it is bound to; a number drawn at
random is one never drawn before.

**NodeLife** is the node's life: a slice delivered in two files, verified
against its anchor and kept; Running::start phase by phase, each with what it
refuses; the two scopes of threads; the halt; crashes, and the service manager
that starts the node again. A surface's plan of the node (`start.rs`, through
the ffi) reads and keeps the same files from another process. A slice's text is
a record of what decides a start.

**Arrival** is the receive cycle end to end. A Stream is a record of the claims
it presents, its content's, its chunks, what it matches and splits into. The
Ledger is a log of which a prefix is synced; a crash or a failed sync loses the
rest. Publication, its Journeys, claims, Groups' deliveries, Dead Message Queue
entry and audit record are one entry.

**Figures** is what a running node says of itself: the counts of each Port, the
window on its failed Messages, the tally, the certificate's standing, the Send
Locations that stopped, the publication made of them (Running::snapshot), what a
stopped node leaves, and a surface's listing. A Port that shares its name with a
Send Location says Done where that Location stopped. When a publication is made
and where it goes is left to the program that runs the node, as
`publication.rs:1-5` does. A measure of the whole node is the hub's sum over its
records (crate observe, external).

The MC modules give TLC the instances. The proofs are in eight modules:
**SendProofs** (of SendClaim and Figures), **SendDispatchProofs**,
**SequenceProofs**, **PickupProofs**, **WorkStepProofs**, **ArrivalProofs**,
**NodeProofs** (of NodeLife, Follow and Vouching) and **FlowProofs** (of
StreamShare and Receiving). A proof module that is of several components extends
them all, so these have their specifications under names of their own (NodeSpec,
FollowSpec, VouchSpec, ShareSpec, ReceiveSpec, FiguresSpec, and so on). What makes
an invariant inductive is in the module itself or at the head of its proofs, and
was checked by TLC with the module's run before it was proved.

Each module keeps, beside its properties, the faulty forms of definitions that
its properties are known to catch. Where a property is a conjunction, each
conjunct has one that violates it alone: OpenUncounted for CountCovers
(Accounted), MovedKeeps for OneEach and PushedKeeps for HeldBounded (Shared),
StartedWhenNoneWaits for NoneStranded and ReceivedAlways for DrainTakes (NoneLeft),
DropCutsNot and LooksAnswered for the parts of AllEnd, SpentNot for
VouchedOnce and AdmittedKnown for ActsAsItself (AsItself), InnerEndsWhenTold for
NoneUnsent (EndsInOrder), DepartUnkept for SeenKept (Kept), PartsWritten for
AllOrNone (Whole), CountsTwice for CountsTrue (Measures), UnchangedCount and
HeldLate for the parts of Settled, StreamAskedNot for OneStream (InTurn).

## The runs

- `send_claim` (SendClaim): two nodes, one with two Locations of the Port and
  one with one, one Message, a lease of two, three grants, two tries, failover,
  operators on both nodes, and either node unable to read the Message until it
  starts again. `Explored` (MCSendClaim) leaves out renewals and acts under way
  at once, renewals while a node cannot read it and both nodes unable to, and
  lets a third claim be granted only for an act or once a scan has passed the
  Message over. Only a true holder finds it holds the Message (HoldsSound), only
  what waits is sent, fences rise, attempts go forward, what waits can be taken
  up by any node that can read it (Takeable), the inductive invariant ClaimInv,
  and the refinement LifeSpec.
- `send_dispatch` (SendDispatch): two Messages, pages of one, in two settings
  (MCLimits): Contended, a pool of one with moves and two jobs, where everything
  waits for one place; PutOff, a pool of two and a retry, where a Message is put
  off while the queue is read. Both with the close. Bounded, WakeKept, Drains.
- `sequence` (Sequence): the scenario of `tests/ledger/stream_order.rs` and more:
  s1 goes through a Work Process that makes a batch of two of it, m1 and m4, for
  one Port (`tests/ledger/work_debatch.rs`), s2 of the same Location straight to
  the Port, s3 of another Location to it with the same key. Two nodes work at
  once: on one Stream, each on the same Message or another of it; on two, each on
  one; or one node on all of it (`Explored`, MCSequence). s1 and s3 do not come
  in one behaviour. A node that lost its claim goes on beside the one that took
  the Message up only while that Message is all there is. A node remembers two
  places, so forgetting happens. Nothing skips.
- `pickup` (Pickup): a Message received, one a turn publishes that the Ledger
  holds nothing to send for, one replayed from the Dead Message Queue; pages of
  two; an operator pauses or resumes twice.
- `work` (WorkStep): two interchangeable nodes, two Messages of one key, two
  turns of an Instance, one lease outrun, answer lost or node ended; with and
  without a sequence.
- `stream_share` (StreamShare): three departures, two chunks, one chunk kept for
  each, one failed read: enough for one ahead, one behind and one that moves.
  HeldBounded says something while one or two have come, which may keep one
  chunk; with three they may keep the whole Stream, and a longer one is left to
  the theorem.
- `receiving` (Receiving): an ordered directory that is polled and a listener
  that waits, each alone with two arrivals and the two together (MCNodes);
  pools of two, three places, one byte; one fault of any kind.
- `follow` (Follow): one caller, one post, one hang, crash or stop, over a socket
  and over a pipe, the surface ended and dropped at any time. AllEnd says what
  always ends and what a hung node keeps (CallLeft, FollowLeft; see Known
  divergences).
- `vouching` (Vouching): two browsers, one who may act and one who watches,
  through one surface to one node; two held at once, two nonces and handles, one
  answer lost or restart.
- `node_life` (NodeLife): ten slices, one for each phase that refuses, a sole
  node, one of several, one with no Receive Location; two authorities; two
  starts, two deliveries, edits, plans or crashes, two arrivals or turns.
- `arrival` (Arrival): nine Streams, one for each gate that refuses, one with
  claims beside the first on both layers, one for a Group, a paused
  Subscription, a debatch that succeeds and one whose second record fails; a
  Send pool of one, two sends, one crash or failed sync.
- `figures` (Figures): a Port that blocks, a window of one, pages of one; each
  behaviour within one of seven bounds (AllBounds): passes, refusals with a
  Location of the Port's name that stops, acts of other nodes, unanswered reads,
  Messages failed before the start, a listing across a change, a certificate
  imported twice. Settled is WindowSettles, the window comes to be the index's,
  and SaysAsItIs, every publication made from some time on says each Port, its
  failed Messages and the certificate as they are.

Two nodes are enough for a lapse to be met by a rival, two Messages for an order
to be wrong, two grants for a stale renewal, three departures for one between
the others. The Max constants only cap how long that goes on, and each is above
what the interesting case takes: every action and every alternative of every
next-state relation fires in these runs. Deadlock is not checked where the
system may come to rest: everything sent, ended or stopped.

## Fairness

What the code's threads do is weakly fair: a thread that can go on does, since
nothing in it spins on a condition of another's. Nothing is assumed of an
operator, of an arrival, a start, a crash, a panic or a lost answer.

- SendDispatch: the dispatching and every thread go on; the scan of all queues
  comes round, as its timer does (`dispatch.rs`, `step.scan`); a retry's time
  comes; a claim nobody renews lapses; and what is asked of Xmip Storage again
  and again is answered in the end, within a lease (strong): the read of a page,
  the grant of a free claim, the hand-on. Nothing is assumed of a wake-up.
- Sequence: scans come round and take a free Message when they find it, steps in
  progress go on, a claim nobody works under lapses, and from some time on nodes
  stay up, Xmip Storage answers within a lease and a send or turn that is tried
  succeeds. Without the last, an outage that returns for ever would be a reason not
  to end that says nothing of the sequences. Ends accepts a Message that failed
  and was left.
- Pickup: the pick-up goes on, its wait after a failed read ends, what was
  written is counted; reads, claims and moves asked again and again are answered
  and a claim left by a lost answer lapses (strong).
- StreamShare: a departure that can join, take or move does; one that takes
  nothing is found stalled, as `stream_stall` runs out.
- Receiving: each Location's loop, its pool's threads and each carry go on.
- Follow: a node that is up answers, a stop ends its connections, the follow, the
  deadline thread and the callers go on, a call's patience ends, and a surface
  whose end was said is ended and, once told to be, dropped (Ends). While it is
  dropped its follow reaches the read the drop cancels: FOLLOW_ENDS is taken to be
  long enough for that. A hung node answers nothing.
- Vouching: a handshake is handed over, a vouch or a letting go asked for ends,
  an act is taken or refused, a stop goes on.
- NodeLife: threads of both scopes go on and end once told; the halt goes on.
- Arrival: a sync ends, a Message handed to the pool departs, a scan comes to
  what is in a queue.
- Figures: threads settle what they sent, a window's read ends, a publication
  begun is made; a scan that can come does (strong). Nothing is assumed of when
  one is asked for.

SendClaim and WorkStep state safety only.

## What is proved

Every theorem is for every value of the constants within the assumptions the
modules name (ASSUME), which TLC evaluates on the instances. A hypothesis beyond
them is stated in the theorem and explained here.

**SendProofs**, of SendClaim (NoNode is no node; a lease, Locations and Tries at least
one; a Port that blocks is sequential): TypeCorrect, ClaimsHold, HoldsIsSound,
SendsOnlyWaiting, FencesOnlyRise, TriesCountedOn, AlwaysTakeable, RefinesLife.

HoldsSound alone is not inductive: a renewal under way may be applied later, so
RenewInv bounds what its answer will grant; a claim may pass to a new fence, so
FenceInv says no one remembers one not yet given, which makes a new grant
differ from all; ApartInv keeps an operator's act and a pass of one node from
releasing each other's claim; LeaseInv bounds the node's count in every phase
with a claim. SendsOnlyWhatWaits needs ReadInv: what was read under a claim
holds as long as no other claim was granted, lapsed or not, because every write
is conditional on the claim; and BornInv, since a Publication writes without one.
FencesRise follows from LeaseInv and FenceInv: a send begins under a claim
held, whose fence is the last given. AttemptsForward adds CountInv: a pass's
cursor is not behind what the Ledger counts as long as the pass holds the claim.
Takeable adds PlaceInv, that a place a node passes over, or is about to, is one
the Message has left for good or cannot be read at by that node, and holds where
the Port does not block; where it does, SendBlocks below is a counterexample. RefinesLife
shows each step to be a step of MessageLife or none; it needs LifeInv: what a
pass says was sent is at its far end (SentInv), and an operator's act, which
reads before it claims, finds the Journey failed as it read it or not at all
(SeenInv), because each write is told from the one before (WrittenInv).

Of Figures (finitely many Ports and threads): FiguresTypes; ListingsHold
(EachListedOnce); MeasuresHold (Measures, its invariant and its action property).
A listing goes on from the place after the last it got, so ListInv says that
what it got is in order, before the place it reads from, and has everything that
waits throughout before that place. CountsTrue is of a publication alone, made
of two reads of what moves between them. TalliedInv ties what moves together:
no more is counted at a Port than was written there (a pass whose answer was
lost is written and not counted), and every one counted is told or a thread has
still to tell it. MakingInv then keeps
a publication in the making between what was told when it was begun and what is
counted now, and no less than the last. Sums over Ports are cardinalities of the
set they count, and a page is what has fewer than Most before it, so that no
fold or sort is reasoned about; what remains of induction, that places of an
order can be counted through, is by a least place that fails
(WellFoundedInduction's WFMin).

**SendDispatchProofs** (finitely many Messages and jobs):
TypeCorrect; RetriesWoken; PoolBound, with moves and all; PlacesCounted, that
admitted places are exactly those somebody has, under NoMarkTaken: in a setting
with moves the pool has one place. The hypothesis excludes what DispatchLeak
shows: with more, a move handed on takes a scan's mark. PoolBound rests on
PlacesHeld (no place is given back that was not admitted), PlacesCounted also on
MarksOwn (a mark is one job's). WakeKept needs WokenInv, which starts where the
job that put the Message off still has to settle: a read under way will set the
due time itself, whatever else sets it meanwhile.

**SequenceProofs**: TypeCorrect; UnskippedInTurn, that every sequence which does
not skip is in turn, whatever others do; AllInTurn, InTurn where nothing skips
(`Skips = {}`; SequenceSkip is why). Messages of one write may lead to one
destination: their places are apart because no two of them are the same of it
(ShapeAssumption, on Nth). A pass asks, then works, and the claim may
lapse and pass to another node between, so the argument is on places: LineInv
and SpotInv (each holds a place of its own from when it takes it to its end),
ClaimInv (a claim is on a Message that waits), HeadInv and PointInv (what a node
remembers as having headed, what is past the question, and what holds a place at
its destination, heads for as long as it holds its place), HeadingInv (only a
Message with a sequence there asks for a place) and BornInv.

**ArrivalProofs** (Streams have at least one chunk, match known Subscriptions and
split into records that are parts or refused):

- NoneRefused: nothing a gate refused is in the Ledger. Along ArrInv (what is
  under way passed the gates before its step), ChunkInv and PublicationInv (what
  is in the log is of an arrival that passed, and a Publication is what its
  Stream makes, after all its chunks).
- VouchedDurable: what a sender was told is accepted and what a far end has is
  durable. The durable part only grows (DurableGrows), through SyncFails and
  Crash; and since a Publication is after its chunks in the log, a durable one
  has them durable.
- DebatchWhole: AllOrNone, along SplitInv (a splitting has written every record
  it took or met one it may not make).
- VouchedKept, ClaimsAccounted, WholeAlways: the run's Kept, GatesPassed and
  Whole, from RoutesAll, AccountsAll and OpensAll. These three are of the
  functions that make a Publication of one Stream and have no state in them. They
  are written with SelectSeq and FlattenSeq, which the prover does not expand and
  which would need induction over the sequence; TLC evaluates them on the
  Streams of the run. What is proved is that no interleaving, loss or crash
  makes anything else of them. AccountsAll also excludes Streams that present
  one claim twice.

**WorkStepProofs** (finitely many nodes and Messages): StorageTyped; AllTakenOnce
(TakenOnce), KeysAlwaysHeld (KeysHeld) and KeepsSequence (InSequence). A turn
works outside any lock between its reads and its write, so two facts carry it
over: ClaimInv (what was read under a claim is in the queue while the claim is
the turn's) and OverInv (what it advanced is the Instance as it is, or the
Instance has had a turn since, which the write is refused over). The write then
takes a Message none has taken, to all that its Instance took, with keys free or
its own. InSequence adds PlaceInv (what waits to be taken is in the queue and in
the sequence, in one order) and HeadInv (what headed its key when it was read
does so until its claim ends). The run's instance has one key; the theorems have
any.

**PickupProofs** (finitely many Messages): PickupTypes; AccountedHolds
(Accounted); OldestFirstHolds (OldestFirst). The count of what is held is decided
before a write and adjusted after it, by many, and the queue is read by one
thread meanwhile. WorkInv says where the Message of each Publication under way
is, and that a place is given once; BatchInv what the pick-up has read and is
moving; OrderInv that nothing held is before it, nor before the place read from
next, but what is passed over; CountInv what the count is of, with one more
between a move and its word. Remembered and CountCovers are inductive with
these, OldestFirst follows from OrderInv.

**NodeProofs**, of NodeLife: NodeTypes; SignedOnly (RunsSigned); AWayIsKept
(KeepsAWay); PartsEndInOrder (EndsInOrder) and StopsDrained, along ScopesInv (the
inner scope is over before the steps are closed, and nothing is left once the
outer one is) and PartsInv (which parts are there in each phase).

Of Vouching (finitely many sessions): VouchTypes; HeldByNone
(RevokedHeldByNone); HandshakeOnce, along NoncesSpent (a node has spent each
nonce of a handshake it vouched for); CallersAsThemselves (AsItself), along
HandlesTell (a handle the host keeps for a caller is held for no other);
HeldWithinMost.

Of Follow: FollowTypes; AlwaysRecovered (Recovered).

**FlowProofs**, of StreamShare (finitely many departures, at least one): ShareTypes;
SharedHolds (Shared), for Streams of any length. WindowInv says that a read keeps
the chunks from its first place to its next; OnInv that a departure is a reader
of the read it is on and of no other, and that a read has a reader but for the
one being joined under the lock, so there are never more reads than departures;
HeldBounded and EveryChunk are inductive with them, the bound being what the
departures that have come so far may keep together.

Of Receiving (finitely many Locations and arrivals): ReceiveTypes; NoneLeftHolds
(NoneLeft); InOrderHolds (InOrder). The places and bytes held are exactly those of
the receives and carries that run (BudgetsKept), so giving back never takes a
count below zero, where the code saturates. LineInv (each arrival is in the line
its stage says, once), PlaceInv (a receive asks for no more than its pool has
room for) and CarryInv (what a Location counts is what it took and has not
settled) carry that. PoolInv is why work queued is never stranded: the threads
awake, woken or timed out are as many as what is queued, or the pool has all its
threads and one of them works or is about to. OrderInv: a receive of an ordered
Location begins with nothing carried, so what is carried is of the last receive
and its turn is to come; DrainInv says what each step of a drain has settled.

## Only model-checked

Every safety property of the runs, invariant or action property, is a theorem,
under the hypotheses given above for PlacesCounted, AllInTurn, AlwaysTakeable and
Arrival's three. What stays with TLC:

- Liveness (Drains, Ends, PickedUp, NoneHeldBack, StopEnds, Follows, AllEnd,
  LetGo, StopReturns, AcceptedReached, Settled), which is out of the prover's
  reach, as are fairness and ENABLED.
- RoutesAll, AccountsAll and OpensAll of Arrival, which need induction over a
  sequence.
- Two conjuncts of WorkStep's TypeOK, which StorageTyped leaves out: `seen`, the
  SelectSeq of a scan, and `due`, on which no proof depends.

## Known divergences

Where the code does other than a sentence of the repository says, the model
does as the code does, and the sentence is a property no run above includes.
Each has a configuration that ends in TLC's counterexample
(`tlc -config X.cfg MC...`). The last column is what the passing run has
instead.

| configuration, property | the sentence | what the code does | so the run has |
|---|---|---|---|
| SendBlocks (MCSendClaim), Takeable | `send_step.rs:225-229` "A Retry moves a Message to a new place, where it is read again" | `message_act.rs:103` requeues only where the Port does not block; a node that read the Message Failed (`scan.rs:271`) passes that place over | a Port that does not block |
| DispatchLeak (MCSendDispatch), PlacesExact | `admission.rs:54-57` a place is "held until the Message it was taken for is owned ([`SendStep::own`]) or the place is given back" | `own` (`admission.rs:126`) takes the mark off `taking` whoever put it there: a move handed on takes a scan's, whose place is never given back | one place where moves come |
| DispatchTwice (MCSendDispatch), HoldsOwn | `send_step.rs:56-59` "after which the claim is presumed lost, audited, and no Location is tried again from here" | `holds` (`renewal.rs:80`) asks by the Journey: after an outage longer than a lease the scan's job owns it, and the first job is told it holds | Bounded, which is of places |
| SequenceOrder (MCSequence), InOrder | `scan.rs:230-231` of Unanswered: "the rest of the queue waits for the next scan" | `take` makes the same None of a claim refused and of one not answered (`scan.rs:190`); the next Message of the key takes the earlier place | InTurn |
| SequenceSkip (MCSequence), OneAtATime | `sequence.rs:288-291` "what is remembered here is never wrong" | a Message that failed let go of its place; retried, it is let through by what the node remembers (`sequence.rs:267`), beside the one that heads | nothing that skips |
| SequenceStuck (MCSequence), Ends | `sequence/late.rs:11-12` a later Message "never waits behind a Stream that waits for it" | with a Receive Location that skips and a Port that blocks (`ledger/record.rs:69`), a retried Message and the next Stream wait for each other for ever | nothing that skips |
| PickupWoken (MCPickup), Woken | `holding.rs:95-96` of `published`: "wake the node for what an active one holds" | what is counted while the queue is read sets `pending`, and the read's end clears it (`released.rs:79-81`) | Accounted, which names what is missed |
| WorkOvertakes (MCWorkStep), NeverOvertake | `work_step.rs:8-9` "one whose key is behind an earlier one of the same key waits, so a key's Messages never overtake" | the scan asks this of nothing (`dispatch.rs:98-121`); only a Work Process that names a sequence is in order | InSequence |
| WorkFails (MCWorkStep), FailureLetsGo | `turning.rs:120-121` of the place in the sequence: "whether a failure lets it go" | `fail` (`turning.rs:382`) writes the failure and lets go of nothing, also where the point skips; no operator's act reaches a Work Process's failed Message | nothing that skips |
| ReceiveHolds (MCReceiving), WaitsForACarry | `receiving.rs:167-169` "With none at the node, this waits for a carry to end" | the places a waiting Location's receive holds before anything arrives count too: a Location may wait for a far end that sends nothing | enough places, Carries 3 |
| FollowArmed (MCFollow), Armed | `deadline.rs:1-4` "a local call waits at most a set time" | a surface has one Deadline, armed before the caller has the asking line (`deadline.rs:38`): the call before it, ending, disarms it, and the next reads its pipe with no time kept | one caller |
| NodePanics (MCNodeLife), StopAlwaysReturns | `running.rs:387` of `stop`: "Returns what became of every Stream" | a thread of the inner scope that panics unwinds past the two closes (`serving.rs:133-134`), and the outer scope waits for steps nobody closes | StopReturns, unless one panicked |
| PlanOverwrites (MCNodeLife), KeepsAWayAlways | `signed.rs:8` of a file that does not verify: "the node runs its accepted slice instead" | a surface's plan (`start.rs:83`) keeps what it read at the same place, after a delivery and a start have overtaken it | KeepsAWay, unless overtaken |
| PlanShown (MCNodeLife), ShownTrue | `start.rs:253` "true when the node validated" | a Location configured not to start is recorded Done (`start.rs:211-220`), and any Done is taken for a refusal | RunsSigned |

Others the models show or leave out, without a configuration of their own:

- Pickup. A turn asks what holds (`work_step/acts.rs:236`) and nobody counts it
  after the turn's write: a Subscription paused before a restart, or active, may
  hold what it does not count (`missed` has "work"). A Replay whose answer was
  lost says that nothing changed (`plane/remote.rs:87`), though it is written.
- WorkStep. A due timer of an Instance that has ended advances a new one
  (`turning.rs:141-147`).
- Receiving. A drain learns that a far end let go only from an arrival handed
  over already (`drain.rs:81-83`): with none, what is queued there stays.
- Follow. `deadline.rs:1-4` says "a local call waits at most a set time", and
  `Remote::end` cancels what waits. It cancels once (`remote.rs:351`), a cancel
  reaches only a read under way (`deadline.rs:158-163`), and the deadline thread
  lets an ended surface go (`deadline.rs:170-172`). On the pipe of a hung node,
  a call's read begun after the end's cancel, or begun again as the cancelled
  held line is opened anew, waits as long as the node hangs (CallLeft); so does
  the follow's read begun after it until the surface is dropped, and a handshake
  of its reconnect even then (FollowLeft). AllEnd excepts just these. Where the
  follow's thread cannot be spawned (`plane/remote.rs:290`), nothing recovers
  the node until the surface is asked to follow it again.
- Vouching. Two surfaces to one node share its pool of nonces; a Vouch asked
  again leaves the node a handle nobody lets go; and `call.rs:55-57` says that
  "a relay that holds the caller vouches for it again", which `relayed.rs` does
  not: after a node's restart the caller has to come again.
- NodeLife. `running.rs:121` "Everything that can refuse does so before anything
  serves": Xmip Storage's server serves before the later phases refuse. The
  place of the accepted slice is read from the file being checked
  (`signed.rs:175`). `delivered` writes the certificate before the slice, each
  in place (`signed.rs:96-112`); a crash between them leaves the accepted slice
  to be found under the new certificate, which does not verify it.
- Figures. `dispatch.rs:122-126` settles "and only then" tells, "so whoever is
  told reads figures that already hold it": the window on failed Messages may be
  an older answer another reader put away later. It comes right at the next scan.

## Not modelled

The encoding of records, the audit chain's hashes and the wording of answers; the
bytes of protocols, certificates and signatures (what each proves is a fact of
the model); the reading and rendering of configuration and catalogues, which
keep no state; operating system endpoints, directory notifications and service
definitions, which are calls to the system; most of the ffi, which marshals
arguments. Of modelled parts: a minimum assurance and the alignment of layers
other than by Party (Arrival), Combined Batches and the acts a unit asks for
(WorkStep), the waiting of a Group's members for each other (Sequence), a
table's Pause, the certificate's modification time and the way of a publication
to an operator's surface (Figures; `operator::publish` and `wait_change` are
there for the program that runs the node, and nothing in the source joins them
to Running::snapshot). That Xmip Storage refuses a Publication whose Stream's
chunks it has lost (WholeIn, Arrival) is an assumption on crate persist. A
departure's failures are SendClaim's; Arrival's Depart is one that succeeds. A claim that
lapsed and was taken by nobody may be honoured or not. Clocks run at one rate.

## What is left

A theorem of what Arrival's three operators compute, for which a prover with
induction over sequences is needed; the local endpoint's two processes at one
stale socket (`plane/local/unix.rs:158`), which needs a model of the operating
system's sockets; and the parts under "Not modelled". No module uses a RECURSIVE
operator.
