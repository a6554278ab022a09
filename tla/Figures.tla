------------------------------ MODULE Figures ------------------------------
(***************************************************************************)
(* What a running node says of itself: the figures its send step keeps of  *)
(* each Send Port, the window on the Messages that failed there, the       *)
(* certificate it presents, the publications made of them, what it leaves  *)
(* published once stopped, and a surface's listing of what failed.  When   *)
(* to make a publication, and where it goes, is the program's that runs    *)
(* the node.                                                               *)
(*                                                                         *)
(* The threads of the Send pool count under the step's lock and tell the   *)
(* Tally after it.  The window is read from Xmip Storage outside that lock *)
(* by whoever has cause to - a thread that settled a failure, the          *)
(* dispatching, an operator's act - and the last to put its answer away    *)
(* wins.  A publication reads figures twice and the Tally's counters       *)
(* after, with no lock held across them.                                   *)
(*                                                                         *)
(* Of a Message that failed, its place in its queue's index of failed      *)
(* Messages is kept: a Message that fails again has another.               *)
(***************************************************************************)
EXTENDS Integers, FiniteSets, Sequences, SequencesExt

CONSTANTS
  Ports, Threads,
  Dispatching, Operator,  \* the other two that read a window
  Blocking,    \* the Ports whose sequence blocks behind a failure
  Sharing,     \* the Ports that share their name with a Send Location
  Window,      \* [tuning] failed_window
  Most,        \* the failed Messages a surface asks a page of
  None,
  \* the bounds a behaviour may have, each a record: failed before the node
  \* started, passes ended, acts and failures of other nodes, reads
  \* unanswered, Streams refused, certificates imported, listings, Locations
  \* that stop
  Bounds

ASSUME FiguresAssumption ==
  /\ {Window, Most} \subseteq Nat \ {0}
  /\ \A b \in Bounds :
       {b.before, b.passes, b.elsewhere, b.unanswered, b.refused, b.imported, b.listings,
        b.stops} \subseteq Nat
  /\ Blocking \subseteq Ports /\ Sharing \subseteq Ports
  /\ {Dispatching, Operator} \cap Threads = {}
  /\ None \notin Nat \cup Ports
  /\ IsFiniteSet(Ports) /\ IsFiniteSet(Threads)

VARIABLES
  index,      \* each queue's index of failed Messages: the next place, those in it
  ended,      \* the passes written Completed and Failed at each Port
  figures,    \* what the step counts at each Port: sent, failed, unread
  failing,    \* the window of each Port, None before its first read
  tally,      \* refused, sent, notSent
  reads,      \* what each reader of a window is about
  down,       \* the Ports whose name a Location that stopped has
  making,     \* the publication being made
  published,  \* the last one made, None before it
  listing,    \* a surface's listing of the failed Messages of a Port
  file,       \* the certificate file: how often it was imported
  read,       \* what the node keeps of it: its time when read, and what it held
  running, unanswered, elsewhere,
  bound       \* the bounds of this behaviour

send    == <<index, ended, figures, failing, tally, reads>>
said    == <<making, published, read>>
bounds  == <<unanswered, elsewhere, bound>>
figuresVars == <<index, ended, figures, failing, tally, reads, down, making, published,
                 listing, file, read, running, unanswered, elsewhere, bound>>

Readers == Threads \cup {Dispatching, Operator}
Idle == [at |-> "idle"]

\* What a count of each Port counts, and how many that is at all Ports.
Each(f) == UNION {{p} \X (1 .. f[p]) : p \in Ports}
Sum(f) == Cardinality(Each(f))
Passes == Sum([p \in Ports |-> ended[p].sent + ended[p].failed])
Monus(a, b) == IF a < b THEN 0 ELSE a - b

\* A set of places, oldest first: each at the place of how many are before it.
Before(S, s) == {u \in S : u < s}
Oldest(S) == [i \in 1 .. Cardinality(S) |-> CHOOSE s \in S : Cardinality(Before(S, s)) = i - 1]

\* XmipStorage::read_failed: at most `most` from a place on, oldest first.
Page(p, from, most) ==
  LET sorted == Oldest({s \in index[p].failed : s >= from})
  IN SubSeq(sorted, 1, IF most < Len(sorted) THEN most ELSE Len(sorted))

\* Xmip Storage answers, or does not.
Answered == UNCHANGED unanswered
NotAnswered == unanswered < bound.unanswered /\ unanswered' = unanswered + 1

-----------------------------------------------------------------------------
(* A pass, and what settles it.                                            *)

\* A Message owned, and sent by a thread of the pool.
Takes(t, p) ==
  /\ running
  /\ reads[t] = Idle
  /\ Passes < bound.passes
  /\ reads' = [reads EXCEPT ![t] = [at |-> "sends", port |-> p, unconfirmed |-> FALSE]]
  /\ UNCHANGED <<index, ended, figures, failing, tally, said, listing, down, file, running, bounds>>

\* SendStep::renewed: its claim confirmed again, or not answered for.
Renewed(t) ==
  /\ reads[t].at = "sends"
  /\ \/ /\ reads[t].unconfirmed
        /\ Answered
        /\ reads' = [reads EXCEPT ![t].unconfirmed = FALSE]
     \/ /\ NotAnswered
        /\ reads' = [reads EXCEPT ![t].unconfirmed = TRUE]
  /\ UNCHANGED <<index, ended, figures, failing, tally, said, listing, down, file, running, elsewhere, bound>>

\* A pass that waits for a retry, or wrote nothing: let go of, not counted.
Uncounted(t) ==
  /\ reads[t].at = "sends"
  /\ reads' = [reads EXCEPT ![t] = Idle]
  /\ UNCHANGED <<index, ended, figures, failing, tally, said, listing, down, file, running, bounds>>

\* The pass is written before it is settled; one whose answer was lost is let go
\* of, not counted.
Ends(t, p, how) ==
  /\ reads[t].at = "sends"
  /\ reads[t].port = p
  /\ CASE how = "completed" ->
            /\ ended' = [ended EXCEPT ![p].sent = @ + 1]
            /\ UNCHANGED index
       [] how = "failed" ->
            /\ ended' = [ended EXCEPT ![p].failed = @ + 1]
            /\ index' = [index EXCEPT ![p] = [next |-> @.next + 1, failed |-> @.failed \cup {@.next}]]
  /\ \/ /\ Answered
        /\ reads' = [reads EXCEPT ![t] =
             [at |-> "count", port |-> p, how |-> how, unconfirmed |-> @.unconfirmed]]
     \/ NotAnswered /\ reads' = [reads EXCEPT ![t] = Idle]
  /\ UNCHANGED <<figures, failing, tally, said, listing, down, file, running, elsewhere, bound>>

\* SendStep::settle: counted under the lock, a failure's window then read.
SettleFigures(t) ==
  /\ reads[t].at = "count"
  /\ LET p == reads[t].port
     IN IF reads[t].how = "completed"
          THEN /\ figures' = [figures EXCEPT ![p].sent = @ + 1]
               /\ reads' = [reads EXCEPT ![t] = [at |-> "tell", port |-> p, how |-> "completed"]]
          ELSE /\ figures' = [figures EXCEPT ![p].failed = @ + 1]
               /\ reads' = [reads EXCEPT ![t] = [at |-> "places", port |-> p, afresh |-> FALSE]]
  /\ UNCHANGED <<index, ended, failing, tally, said, listing, down, file, running, bounds>>

\* What a reader goes on to once its window is read.
After(r) ==
  CASE r \in Threads -> [at |-> "tell", port |-> reads[r].port, how |-> "failed"]
    [] r = Dispatching -> [at |-> "queue", port |-> reads[r].port]
    [] OTHER -> Idle

\* Only then told: Tally::sent, Tally::not_sent.
Tell(t) ==
  /\ reads[t].at = "tell"
  /\ tally' = IF reads[t].how = "completed" THEN [tally EXCEPT !.sent = @ + 1]
                                            ELSE [tally EXCEPT !.notSent = @ + 1]
  /\ reads' = [reads EXCEPT ![t] = Idle]
  /\ UNCHANGED <<index, ended, figures, failing, said, listing, down, file, running, bounds>>

\* Tally::record of a Stream a gate refused.
Refused ==
  /\ running
  /\ tally.refused < bound.refused
  /\ tally' = [tally EXCEPT !.refused = @ + 1]
  /\ UNCHANGED <<index, ended, figures, failing, reads, said, listing, down, file, running, bounds>>

-----------------------------------------------------------------------------
(* The window: SendStep::read_failed.                                      *)

\* As a bug would have it: as many as before is taken for the same ones.
UnchangedCount(p, at) == failing[p] # None /\ failing[p].at[2] = at[2]

\* While the index's next place and count stand, nothing failed or left.
Unchanged(p, at) == failing[p] # None /\ failing[p].at = at

\* The index's places, and the window read again where they moved.
Places(r) ==
  /\ reads[r].at = "places"
  /\ LET p == reads[r].port
         at == <<index[p].next, Cardinality(index[p].failed)>>
     IN \/ /\ Answered
           /\ reads' = [reads EXCEPT ![r] =
                IF ~@.afresh /\ Unchanged(p, at) THEN After(r) ELSE [at |-> "read", port |-> p]]
        \/ NotAnswered /\ reads' = [reads EXCEPT ![r] = After(r)]
  /\ UNCHANGED <<index, ended, figures, failing, tally, said, listing, down, file, running, elsewhere, bound>>

Read(r) ==
  /\ reads[r].at = "read"
  /\ LET p == reads[r].port
     IN \/ /\ Answered
           /\ reads' = [reads EXCEPT ![r] =
                [at |-> "keep", port |-> p,
                 window |-> [at |-> <<index[p].next, Cardinality(index[p].failed)>>,
                             oldest |-> Page(p, 0, Window)]]]
        \/ NotAnswered /\ reads' = [reads EXCEPT ![r] = After(r)]
  /\ UNCHANGED <<index, ended, figures, failing, tally, said, listing, down, file, running, elsewhere, bound>>

Keep(r) ==
  /\ reads[r].at = "keep"
  /\ failing' = [failing EXCEPT ![reads[r].port] = reads[r].window]
  /\ reads' = [reads EXCEPT ![r] = After(r)]
  /\ UNCHANGED <<index, ended, figures, tally, said, listing, down, file, running, bounds>>

\* The dispatching reads a served queue, its failed Messages first.
Scans(p) ==
  /\ running
  /\ reads[Dispatching] = Idle
  /\ reads' = [reads EXCEPT ![Dispatching] = [at |-> "places", port |-> p, afresh |-> FALSE]]
  /\ UNCHANGED <<index, ended, figures, failing, tally, said, listing, down, file, running, bounds>>

\* As a bug would have it: the Port's figures begin again with the read.
QueueReadAfresh(p, unread) == [figures EXCEPT ![p] = [sent |-> 0, failed |-> 0, unread |-> unread]]

\* SendStep::queue_read.
QueueRead(p, unread) == [figures EXCEPT ![p].unread = unread]

\* Where the pool has no room the queue is not read.
Scanned ==
  /\ reads[Dispatching].at = "queue"
  /\ LET p == reads[Dispatching].port
     IN \/ Answered /\ UNCHANGED figures
        \/ Answered /\ figures' = QueueRead(p, FALSE)
        \/ NotAnswered /\ figures' = QueueRead(p, TRUE)
  /\ reads' = [reads EXCEPT ![Dispatching] = Idle]
  /\ UNCHANGED <<index, ended, failing, tally, said, listing, down, file, running, elsewhere, bound>>

\* SendStep::acted_on: a Retry or a Dismiss written, the window read afresh.
ActsOnFailed(p, s) ==
  /\ running
  /\ reads[Operator] = Idle
  /\ s \in index[p].failed
  /\ elsewhere < bound.elsewhere
  /\ elsewhere' = elsewhere + 1
  /\ index' = [index EXCEPT ![p].failed = @ \ {s}]
  /\ listing' = [listing EXCEPT !.through = IF listing.port = p THEN @ \ {s} ELSE @]
  /\ reads' = [reads EXCEPT ![Operator] = [at |-> "places", port |-> p, afresh |-> TRUE]]
  /\ UNCHANGED <<ended, figures, failing, tally, said, down, file, running, unanswered, bound>>

\* Another node's send step failed one, or an operator acted there.
FailsElsewhere(p) ==
  /\ elsewhere < bound.elsewhere
  /\ elsewhere' = elsewhere + 1
  /\ index' = [index EXCEPT ![p] = [next |-> @.next + 1, failed |-> @.failed \cup {@.next}]]
  /\ UNCHANGED <<ended, figures, failing, tally, reads, said, listing, down, file, running, unanswered, bound>>

ActedElsewhere(p, s) ==
  /\ s \in index[p].failed
  /\ elsewhere < bound.elsewhere
  /\ elsewhere' = elsewhere + 1
  /\ index' = [index EXCEPT ![p].failed = @ \ {s}]
  /\ listing' = [listing EXCEPT !.through = IF listing.port = p THEN @ \ {s} ELSE @]
  /\ UNCHANGED <<ended, figures, failing, tally, reads, said, down, file, running, unanswered, bound>>

-----------------------------------------------------------------------------
(* A publication.                                                          *)

\* A claim of the Port's is unconfirmed, until it is let go of.
Unconfirmed(p) ==
  \E t \in Threads :
    reads[t].at \in {"sends", "count"} /\ reads[t].port = p /\ reads[t].unconfirmed

\* SendStep::figures: what is counted, with the window as last read.
Figure(p) ==
  LET w == failing[p]
      n == IF w = None THEN 0 ELSE w.at[2]
  IN [sent |-> figures[p].sent, failed |-> figures[p].failed, unread |-> figures[p].unread,
      unconfirmed |-> Unconfirmed(p),
      failing |-> n, oldest |-> IF w = None THEN <<>> ELSE w.oldest,
      blocked |-> n > 0 /\ p \in Blocking]

\* stage_records: Done while any waits failed, the queue is not read or a claim
\* not confirmed.
Mood(f) ==
  CASE f.failing = 0 -> IF f.unread \/ f.unconfirmed THEN "done" ELSE "fine"
    [] f.failing > 0 /\ ~f.blocked -> "done"
    [] OTHER -> "blocked"

\* A Port's record, and how many failed wait there, published beside it.  One that
\* shares its name with a Send Location adds to that one's, which says Done where a
\* Location of that name stopped: that stands.
Record(p, f, fallen) ==
  [mood |-> IF p \in fallen THEN "done" ELSE Mood(f), failing |-> f.failing]

\* As a bug would have it: a Port's Messages counted at the stage too.
CountsTwice(out, ports) ==
  [sent |-> out.sent, failed |-> out.refused + out.notSent,
   ports |-> [p \in Ports |-> [sent |-> ports[p].sent, failed |-> ports[p].failed]]]

\* counts: the stage and the node keep only what no Send Port counted.
Counts(out, ports) ==
  [sent   |-> Monus(out.sent, Sum([p \in Ports |-> ports[p].sent])),
   failed |-> Monus(out.refused + out.notSent, Sum([p \in Ports |-> ports[p].failed])),
   ports  |-> [p \in Ports |-> [sent |-> ports[p].sent, failed |-> ports[p].failed]]]

\* A scope's measure is the sum of every count within it.
MeasureSent(c) == c.sent + Sum([p \in Ports |-> c.ports[p].sent])
MeasureFailed(c) == c.failed + Sum([p \in Ports |-> c.ports[p].failed])

\* Running::snapshot begins: the Locations that stopped, then the certificate
\* file's time.
Begins ==
  /\ running
  /\ making = Idle
  /\ making' = [at |-> "records", time |-> file, fallen |-> down,
                since |-> [sent |-> tally.sent, failed |-> tally.refused + tally.notSent]]
  /\ UNCHANGED <<send, published, listing, down, file, read, running, bounds>>

\* As a bug would have it: the file's time taken once its text is read.
HeldLate(time, now) == [time |-> now, held |-> time]

\* Held::current: what the file holds, kept under the time it had before.
Held(time, now) == [time |-> time, held |-> now]

\* Read again where its time is another.
Current(time) == IF read # None /\ read.time = time THEN read ELSE Held(time, file)

\* The records: the certificate's, and each Send Port's with what failed there.
Records ==
  /\ making.at = "records"
  /\ read' = Current(making.time)
  /\ making' = [at |-> "figures", since |-> making.since, certificate |-> read'.held,
                ports |-> [p \in Ports |-> Record(p, Figure(p), making.fallen)]]
  /\ UNCHANGED <<send, published, listing, down, file, running, bounds>>

\* Running::count: the figures again, and the Tally's counters after them.
CountsFigures ==
  /\ making.at = "figures"
  /\ making' = [at |-> "outcomes", since |-> making.since, certificate |-> making.certificate,
                ports |-> making.ports, counted |-> figures]
  /\ UNCHANGED <<send, published, listing, down, file, read, running, bounds>>

CountsOutcomes ==
  /\ making.at = "outcomes"
  /\ making' = [at |-> "made", since |-> making.since,
                what |-> [node |-> "fine", certificate |-> making.certificate,
                          ports |-> making.ports, counts |-> Counts(tally, making.counted)]]
  /\ UNCHANGED <<send, published, listing, down, file, read, running, bounds>>

\* The publication is the program's that asked for it.
Returns ==
  /\ making.at = "made"
  /\ published' = making.what
  /\ making' = Idle
  /\ UNCHANGED <<send, listing, down, file, read, running, bounds>>

\* serve: a Location of that name ended with a failure, which the Tally keeps.
LocationStops(p) ==
  /\ running
  /\ p \in Sharing \ down
  /\ Cardinality(down) < bound.stops
  /\ down' = down \cup {p}
  /\ UNCHANGED <<send, said, listing, file, running, bounds>>

\* A chain imported while the node runs: another file, with another time.
Imports ==
  /\ file < bound.imported
  /\ file' = file + 1
  /\ UNCHANGED <<send, said, listing, down, running, bounds>>

\* stopped: the last publication, with what ran Done.
Stopped(last) == [last EXCEPT !.node = "done",
                              !.ports = [p \in Ports |-> [@[p] EXCEPT !.mood = "done"]]]

\* The node's work has ended, and the program leaves what stopped makes of the
\* last publication.
Stops ==
  /\ running
  /\ making = Idle
  /\ published # None
  /\ \A r \in Readers : reads[r] = Idle
  /\ running' = FALSE
  /\ published' = Stopped(published)
  /\ UNCHANGED <<send, making, listing, down, file, read, bounds>>

-----------------------------------------------------------------------------
(* A surface.                                                              *)

\* SendStep::failed_messages, a page at a time from the first place on.
Lists(p) ==
  /\ listing.port = None
  /\ bound.listings > 0
  /\ listing' = [port |-> p, from |-> 0, got |-> <<>>, through |-> index[p].failed]
  /\ UNCHANGED <<send, said, down, file, running, bounds>>

\* As a bug would have it: the next page a count past this one.
NextPageCounted(p, from, page) ==
  IF Len(page) >= Most /\ from + Len(page) < index[p].next THEN from + Len(page) ELSE None

\* Where the next page reads from, None where the index was read to its end.
NextPage(p, from, page) ==
  IF Len(page) >= Most /\ Last(page) + 1 < index[p].next THEN Last(page) + 1 ELSE None

ListsOn ==
  /\ listing.port # None
  /\ listing.from # None
  /\ LET page == Page(listing.port, listing.from, Most)
     IN listing' = [listing EXCEPT !.from = NextPage(listing.port, @, page), !.got = @ \o page]
  /\ UNCHANGED <<send, said, down, file, running, bounds>>

-----------------------------------------------------------------------------
FiguresInit ==
  /\ ended = [p \in Ports |-> [sent |-> 0, failed |-> 0]]
  /\ figures = [p \in Ports |-> [sent |-> 0, failed |-> 0, unread |-> FALSE]]
  /\ failing = [p \in Ports |-> None]
  /\ tally = [refused |-> 0, sent |-> 0, notSent |-> 0]
  /\ reads = [r \in Readers |-> Idle]
  /\ down = {}
  /\ making = Idle
  /\ published = None
  /\ listing = [port |-> None, from |-> None, got |-> <<>>, through |-> {}]
  /\ file = 0
  /\ read = None
  /\ running = TRUE
  /\ unanswered = 0
  /\ elsewhere = 0
  /\ bound \in Bounds
  /\ index = [p \in Ports |-> [next |-> bound.before, failed |-> 0..(bound.before - 1)]]

Settles(t) == SettleFigures(t) \/ Tell(t)
Reads(r) == Places(r) \/ Read(r) \/ Keep(r)
Makes == Records \/ CountsFigures \/ CountsOutcomes \/ Returns

FiguresNext ==
  \/ \E t \in Threads, p \in Ports, how \in {"completed", "failed"} : Ends(t, p, how)
  \/ \E t \in Threads, p \in Ports : Takes(t, p)
  \/ \E t \in Threads : Settles(t) \/ Renewed(t) \/ Uncounted(t)
  \/ \E r \in Readers : Reads(r)
  \/ \E p \in Ports : Scans(p) \/ FailsElsewhere(p) \/ Lists(p) \/ LocationStops(p)
  \/ \E p \in Ports : \E s \in index[p].failed : ActsOnFailed(p, s) \/ ActedElsewhere(p, s)
  \/ Scanned \/ Refused \/ Begins \/ Makes \/ Imports \/ Stops \/ ListsOn

FiguresSpec == FiguresInit /\ [][FiguresNext]_figuresVars

\* The pool's threads and an operator's act run on, the dispatching comes to
\* every served queue again, and a publication begun is made.  Nothing is
\* assumed of when one is asked for.
FiguresFairness ==
  /\ \A t \in Threads : WF_figuresVars(Settles(t))
  /\ \A r \in Readers : WF_figuresVars(Reads(r))
  /\ \A p \in Ports : SF_figuresVars(Scans(p))
  /\ WF_figuresVars(Scanned)
  /\ WF_figuresVars(Makes)

FiguresFairSpec == FiguresSpec /\ FiguresFairness

-----------------------------------------------------------------------------
(* Properties.                                                             *)

Passed == [sent : Nat, failed : Nat]
Hows == {"completed", "failed"}
Windows == [at : Nat \X Nat, oldest : Seq(Nat)]

ReaderStates ==
  {Idle}
    \cup [at : {"sends"}, port : Ports, unconfirmed : BOOLEAN]
    \cup [at : {"count"}, port : Ports, how : Hows, unconfirmed : BOOLEAN]
    \cup [at : {"tell"}, port : Ports, how : Hows]
    \cup [at : {"places"}, port : Ports, afresh : BOOLEAN]
    \cup [at : {"read", "queue"}, port : Ports]
    \cup [at : {"keep"}, port : Ports, window : Windows]

Shown == [Ports -> [mood : {"fine", "done", "blocked"}, failing : Nat]]
Measured == [sent : Nat, failed : Nat, ports : [Ports -> Passed]]
Publications == [node : {"fine", "done"}, certificate : Nat, ports : Shown, counts : Measured]

Makings ==
  {Idle}
    \cup [at : {"records"}, time : Nat, fallen : SUBSET Ports, since : Passed]
    \cup [at : {"figures"}, since : Passed, certificate : Nat, ports : Shown]
    \cup [at : {"outcomes"}, since : Passed, certificate : Nat, ports : Shown,
          counted : [Ports -> [sent : Nat, failed : Nat, unread : BOOLEAN]]]
    \cup [at : {"made"}, since : Passed, what : Publications]

FiguresTypeOK ==
  /\ bound \in Bounds
  /\ index \in [Ports -> [next : Nat, failed : SUBSET Nat]]
  /\ \A p \in Ports : index[p].failed \subseteq 0 .. (index[p].next - 1)
  /\ ended \in [Ports -> Passed]
  /\ figures \in [Ports -> [sent : Nat, failed : Nat, unread : BOOLEAN]]
  /\ failing \in [Ports -> Windows \cup {None}]
  /\ tally \in [refused : Nat, sent : Nat, notSent : Nat]
  /\ reads \in [Readers -> ReaderStates]
  /\ making \in Makings
  /\ published \in Publications \cup {None}
  /\ running \in BOOLEAN /\ down \subseteq Ports
  /\ listing \in [port : Ports \cup {None}, from : Nat \cup {None}, got : Seq(Nat), through : SUBSET Nat]
  /\ file \in Nat
  /\ read \in [time : Nat, held : Nat] \cup {None}
  /\ unanswered \in Nat /\ elsewhere \in Nat

\* Every pass counted, or that a thread has still to count, was written; every one
\* counted is told once, or a thread has still to tell it.
Counting(p, how) ==
  {t \in Threads : reads[t].at = "count" /\ reads[t].port = p /\ reads[t].how = how}

Telling(how) ==
  {t \in Threads : \/ reads[t].at = "tell" /\ reads[t].how = how
                   \/ how = "failed" /\ reads[t].at \in {"places", "read", "keep"}}

TalliedInv ==
  /\ \A p \in Ports :
       /\ ended[p].sent >= figures[p].sent + Cardinality(Counting(p, "completed"))
       /\ ended[p].failed >= figures[p].failed + Cardinality(Counting(p, "failed"))
  /\ Sum([p \in Ports |-> figures[p].sent]) = tally.sent + Cardinality(Telling("completed"))
  /\ Sum([p \in Ports |-> figures[p].failed]) = tally.notSent + Cardinality(Telling("failed"))

\* What counts of each Port were read is not beyond what is counted there now,
\* and what was made of them not beyond them and what is told now.
CountedNow(ports) ==
  \A p \in Ports : ports[p].sent <= figures[p].sent /\ ports[p].failed <= figures[p].failed

Covered(c) ==
  /\ CountedNow(c.ports)
  /\ MeasureSent(c) <= tally.sent \/ MeasureSent(c) <= Sum([p \in Ports |-> c.ports[p].sent])
  /\ \/ MeasureFailed(c) <= tally.refused + tally.notSent
     \/ MeasureFailed(c) <= Sum([p \in Ports |-> c.ports[p].failed])

\* No measure of one is less than the other's.
NoLess(c, than) ==
  /\ MeasureSent(c) >= MeasureSent(than)
  /\ MeasureFailed(c) >= MeasureFailed(than)
  /\ \A p \in Ports : c.ports[p].sent >= than.ports[p].sent /\ c.ports[p].failed >= than.ports[p].failed

\* A publication in the making is between what was told when it began and what
\* is counted now, and no less than the last one.
MakingInv ==
  /\ published # None => Covered(published.counts)
  /\ making.at \in {"records", "figures", "outcomes"} =>
       making.since.sent <= tally.sent /\ making.since.failed <= tally.refused + tally.notSent
  /\ making.at = "outcomes" =>
       /\ CountedNow(making.counted)
       /\ published # None => \A p \in Ports :
            /\ making.counted[p].sent >= published.counts.ports[p].sent
            /\ making.counted[p].failed >= published.counts.ports[p].failed
  /\ making.at = "made" =>
       LET c == making.what.counts
       IN /\ Covered(c)
          /\ published # None => NoLess(c, published.counts)
          /\ making.since.sent <= MeasureSent(c) /\ making.since.failed <= MeasureFailed(c)

\* A listing has, oldest first, what waits throughout it before the place it
\* reads from.
ListInv ==
  listing.port # None =>
    /\ listing.through \subseteq index[listing.port].failed
    /\ \A i, k \in DOMAIN listing.got : i < k => listing.got[i] < listing.got[k]
    /\ listing.from # None => \A i \in DOMAIN listing.got : listing.got[i] < listing.from
    /\ \A s \in listing.through :
         listing.from = None \/ s < listing.from => s \in Range(listing.got)

\* A publication counts every pass and every refusal at most once: all that was
\* told before it was begun, and no more than happened, however the figures and
\* the counters moved between their reads (publication.rs:223-242, 376-388).
CountsTrue ==
  making.at = "made" =>
    LET counts == making.what.counts
    IN /\ making.since.sent <= MeasureSent(counts)
       /\ MeasureSent(counts) <= Sum([p \in Ports |-> ended[p].sent])
       /\ making.since.failed <= MeasureFailed(counts)
       /\ MeasureFailed(counts) <= tally.refused + Sum([p \in Ports |-> ended[p].failed])

\* From one publication to the next no measure falls, at any Send Port or of
\* the whole node (figures.rs:254-265, publication.rs:376-388).
NeverFalls ==
  [][published # None /\ published' # published => NoLess(published'.counts, published.counts)]_figuresVars

\* Once the index of a queue stops moving, a running node's window is the
\* index's: how many and the oldest, whoever put an older answer away last
\* (figures.rs:215-245).
WindowSettles ==
  <>[](running => \A p \in Ports :
         failing[p] # None /\ failing[p].at[2] = Cardinality(index[p].failed)
           /\ failing[p].oldest = Page(p, 0, Window))

\* Once nothing more moves, every publication made says the node as it is: each
\* Port that has failed Messages waiting, a queue unread, a claim unconfirmed or a
\* stopped Location of its name not Fine and each other Fine, how many failed, and
\* the certificate its file holds, whatever the reads it was made of met
\* (publication.rs:97-193, 251-314, certificate_standing.rs:99-121).
SaysAsItIs ==
  <>[](making.at = "made" =>
         /\ \A p \in Ports :
              /\ (making.what.ports[p].mood # "fine") <=>
                   (index[p].failed # {} \/ figures[p].unread \/ Unconfirmed(p) \/ p \in down)
              /\ making.what.ports[p].failing = Cardinality(index[p].failed)
         /\ making.what.certificate = file)

\* A listing of a Port's failed Messages, however many pages and whatever
\* fails or is acted on between them, lists each Message that waits
\* throughout it, once (failed.rs:25-53).
EachListedOnce ==
  listing.port # None =>
    /\ \A i, k \in DOMAIN listing.got : listing.got[i] = listing.got[k] => i = k
    /\ listing.from = None => listing.through \subseteq Range(listing.got)

\* The measures published can be trusted: each true, and none ever less than
\* it was (publication.rs, figures.rs).
Measures == []CountsTrue /\ NeverFalls

\* What is said of the node comes to be so: the window on what failed at each
\* Port, and every publication made (figures.rs, publication.rs).
Settled == WindowSettles /\ SaysAsItIs
=============================================================================
