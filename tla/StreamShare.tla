----------------------------- MODULE StreamShare -----------------------------
(***************************************************************************)
(* One Stream lent to the departures of a node that send it: each takes    *)
(* its chunks from a read of Xmip Storage that reaches its place, shared   *)
(* with the others on it, waits for one behind that is still taking, and   *)
(* leaves behind one that is not.                                          *)
(* (stream_share.rs, stream_share/one_read.rs.)                            *)
(*                                                                         *)
(* `reads' is locked while a departure joins, moves or leaves, and each    *)
(* read's source by itself: between the read a departure picks and the     *)
(* joining of it, others take chunks of it.  A chunk is its place in the   *)
(* Stream, and what a read keeps is the chunks its reader gave it.         *)
(***************************************************************************)
EXTENDS Integers, FiniteSets, Sequences, SequencesExt

CONSTANTS
  Departures,
  KeptPerReader,  \* KEPT_PER_READER
  Length,         \* the chunks of the Stream
  MaxFailures     \* bound: the reads Xmip Storage fails

None == 0

ASSUME DeparturesAssumption ==
  IsFiniteSet(Departures) /\ Departures # {} /\ None \notin Departures
ASSUME BoundsAssumption ==
  KeptPerReader \in Nat \ {0} /\ Length \in Nat /\ MaxFailures \in Nat

Ids == 1 .. Cardinality(Departures)

VARIABLES
  reads,     \* the reads, in the order they were opened
  source,    \* each read's source
  at,        \* what each departure does
  on,        \* the read it takes from
  place,     \* the place of the next chunk it takes
  got,       \* the chunks it took
  stalled,   \* those that took nothing for stream_stall
  joining,   \* the departure that has `reads' locked, between two locks of a source
  failures

shareVars == <<reads, source, at, on, place, got, stalled, joining, failures>>

\* OneRead::opened, from a place.
OpenedAt(p) == [window |-> <<>>, first |-> p, next |-> p, ended |-> FALSE, failed |-> FALSE,
                readers |-> {}]

----------------------------------------------------------------------------
(* Source.                                                                 *)

Larger(a, b) == IF a < b THEN b ELSE a

\* kept: the one lent, and as many again for each other departure.
Kept(readers) == Larger(1, KeptPerReader * (readers - 1))

\* reaches: a chunk it keeps, the next, or one it may read on to.
Reaches(r, p) ==
  LET s == source[r]
      ahead == p - s.first
  IN  /\ ahead >= 0 /\ ~s.failed
      /\ ahead <= Len(s.window) \/ ahead < Kept(Cardinality(s.readers) + 1)

\* Mutant: one ahead waits for the slowest, taking or not.
WaitsForAll(r) ==
  /\ Len(source[r].window) >= Kept(Cardinality(source[r].readers))
  /\ \E d \in source[r].readers : place[d] = source[r].first

\* waits: it keeps all it may, and one still taking is to take the first kept.
Waits(r) ==
  /\ Len(source[r].window) >= Kept(Cardinality(source[r].readers))
  /\ \E d \in source[r].readers \ stalled : place[d] = source[r].first

\* The place of a read in the order they were opened.
Opened(r) == CHOOSE i \in DOMAIN reads : reads[i] = r

\* best: the most departures read it, the first opened of those.
Best(r, rs) ==
  LET n(x) == Cardinality(source[x].readers)
  IN  \A o \in rs : n(r) > n(o) \/ (n(r) = n(o) /\ Opened(r) <= Opened(o))

\* leave: d gone from the read it is on.
Left(d, s) == IF on[d] = None THEN s ELSE [s EXCEPT ![on[d]].readers = @ \ {d}]

\* leave: which is let go of once none takes from it.
Listed(d, s) ==
  IF on[d] \in Range(reads) /\ s[on[d]].readers = {} THEN RemoveAt(reads, Opened(on[d]))
  ELSE reads

----------------------------------------------------------------------------
(* Shared: joined and moved, under the lock of `reads'.                    *)

Unlocked == joining = None

\* The reads that reach d, once it has left the one it fell behind on.
Reaching(d) == {r \in Range(Listed(d, Left(d, source))) : Reaches(r, place[d])}

\* The best of them.
Joined(d, r) ==
  /\ r \in Reaching(d) /\ Best(r, Reaching(d))
  /\ source' = Left(d, source)
  /\ reads' = Listed(d, Left(d, source))

\* None does: one of its own, read from its place.  Any name no read has is as good.
Opens(d, r) ==
  LET listed == Listed(d, Left(d, source))
  IN  /\ Reaching(d) = {}
      /\ r \notin Range(listed) /\ \A o \in Ids \ Range(listed) : r <= o
      /\ source' = [Left(d, source) EXCEPT ![r] = OpenedAt(place[d])]
      /\ reads' = Append(listed, r)

\* joined, up to the joining.
Picks(d) ==
  /\ Unlocked
  /\ \/ at[d] = "new"
     \/ at[d] = "behind"
  /\ \E r \in Ids :
       /\ Joined(d, r) \/ Opens(d, r)
       /\ on' = [on EXCEPT ![d] = r]
  /\ joining' = d
  /\ at' = [at EXCEPT ![d] = IF @ = "new" THEN "joins" ELSE "rejoins"]
  /\ UNCHANGED <<place, got, stalled, failures>>

Joins(d) ==
  /\ joining = d
  /\ source' = [source EXCEPT ![on[d]].readers = @ \cup {d}]
  /\ stalled' = stalled \ {d}
  /\ joining' = None
  /\ at' = [at EXCEPT ![d] = IF @ = "joins" THEN "between" ELSE "asks"]
  /\ UNCHANGED <<reads, on, place, got, failures>>

\* Mutant: the read left is kept, with nobody on it.
MovedKeeps(d, to) ==
  /\ source' = [Left(d, source) EXCEPT ![to].readers = @ \cup {d}]
  /\ reads' = reads

\* moved: it joins the one and leaves the other.
Moved(d, to) ==
  LET s == [Left(d, source) EXCEPT ![to].readers = @ \cup {d}]
  IN  source' = s /\ reads' = Listed(d, s)

\* take: before its next chunk, to a read that more take from, or as many and
\* opened before; one taking a chunk just now is passed over.
Moves(d, to) ==
  /\ Unlocked
  /\ at[d] = "between"
  /\ LET others == Cardinality(source[on[d]].readers) - 1
         readers == Cardinality(source[to].readers)
     IN  /\ readers > others \/ (readers = others /\ Opened(to) < Opened(on[d]))
         /\ Reaches(to, place[d])
  /\ Moved(d, to)
  /\ on' = [on EXCEPT ![d] = to]
  /\ stalled' = stalled \ {d}
  /\ at' = [at EXCEPT ![d] = "asks"]
  /\ UNCHANGED <<place, got, joining, failures>>

StaysOn(d) ==
  /\ Unlocked
  /\ at[d] = "between"
  /\ at' = [at EXCEPT ![d] = "asks"]
  /\ UNCHANGED <<reads, source, on, place, got, stalled, joining, failures>>

----------------------------------------------------------------------------
(* OneRead: chunk, under the source's lock.                                *)

Source(d) == source[on[d]]
Ahead(d) == place[d] - Source(d).first

Asking(d) == at[d] = "asks"

\* The chunk it keeps.
Takes(d) ==
  /\ Asking(d)
  /\ ~Source(d).failed
  /\ Ahead(d) \in 0 .. Len(Source(d).window) - 1
  /\ got' = [got EXCEPT ![d] = Append(@, Source(d).window[Ahead(d) + 1])]
  /\ place' = [place EXCEPT ![d] = @ + 1]
  /\ stalled' = stalled \ {d}
  /\ at' = [at EXCEPT ![d] = "between"]
  /\ UNCHANGED <<reads, source, on, joining, failures>>

Behind(d) ==
  /\ Asking(d)
  /\ ~Source(d).failed /\ Ahead(d) < 0
  /\ at' = [at EXCEPT ![d] = "behind"]
  /\ UNCHANGED <<reads, source, on, place, got, stalled, joining, failures>>

\* Its end, or why the read failed, said to every departure of it.
ReadEnds(d) ==
  /\ Asking(d)
  /\ \/ Source(d).failed
     \/ Source(d).ended /\ Ahead(d) >= Len(Source(d).window)
  /\ at' = [at EXCEPT ![d] = IF Source(d).failed THEN "failed" ELSE "done"]
  /\ UNCHANGED <<reads, source, on, place, got, stalled, joining, failures>>

\* Mutant: nothing is let go of.
PushedKeeps(s) == [s EXCEPT !.window = Append(@, s.next), !.next = @ + 1]

\* Mutant: the window is let go of and its first place is not moved on.
PushedInPlace(s) ==
  LET window == Append(s.window, s.next)
      most == Kept(Cardinality(s.readers))
      over == IF Len(window) > most THEN Len(window) - most ELSE 0
  IN  [s EXCEPT !.window = SubSeq(window, over + 1, Len(window)), !.next = @ + 1]

\* The next chunk kept, and those over what it may keep let go of.
Pushed(s) ==
  LET window == Append(s.window, s.next)
      most == Kept(Cardinality(s.readers))
      over == IF Len(window) > most THEN Len(window) - most ELSE 0
  IN  [s EXCEPT !.window = SubSeq(window, over + 1, Len(window)),
                !.first = @ + over, !.next = @ + 1]

\* The next chunk of the Stream, or its end.
ReadsOn(d) ==
  /\ Asking(d)
  /\ ~Source(d).failed /\ ~Source(d).ended
  /\ Ahead(d) >= Len(Source(d).window)
  /\ ~Waits(on[d])
  /\ source' = [source EXCEPT ![on[d]] =
       IF @.next < Length THEN Pushed(@) ELSE [@ EXCEPT !.ended = TRUE]]
  /\ UNCHANGED <<reads, at, on, place, got, stalled, joining, failures>>

ReadFails(d) ==
  /\ failures < MaxFailures
  /\ Asking(d)
  /\ ~Source(d).failed /\ ~Source(d).ended
  /\ Ahead(d) >= Len(Source(d).window)
  /\ ~Waits(on[d])
  /\ source' = [source EXCEPT ![on[d]].failed = TRUE]
  /\ at' = [at EXCEPT ![d] = "failed"]
  /\ failures' = failures + 1
  /\ UNCHANGED <<reads, on, place, got, stalled, joining>>

----------------------------------------------------------------------------
(* The departure's end, which may come at any chunk, and time.             *)

Drops(d) ==
  /\ Unlocked
  /\ at[d] \in {"between", "done", "failed"}
  /\ source' = Left(d, source)
  /\ reads' = Listed(d, source')
  /\ on' = [on EXCEPT ![d] = None]
  /\ at' = [at EXCEPT ![d] = "gone"]
  /\ stalled' = stalled \ {d}
  /\ UNCHANGED <<place, got, joining, failures>>

Stalls(d) ==
  /\ at[d] \in {"between", "asks", "done", "failed"} /\ d \notin stalled
  /\ stalled' = stalled \cup {d}
  /\ UNCHANGED <<reads, source, at, on, place, got, joining, failures>>

ShareInit ==
  /\ reads = <<>>
  /\ source = [r \in Ids |-> OpenedAt(0)]
  /\ at = [d \in Departures |-> "new"]
  /\ on = [d \in Departures |-> None]
  /\ place = [d \in Departures |-> 0]
  /\ got = [d \in Departures |-> <<>>]
  /\ stalled = {}
  /\ joining = None
  /\ failures = 0

Chunk(d) == Takes(d) \/ Behind(d) \/ ReadEnds(d) \/ ReadsOn(d) \/ ReadFails(d)

ShareNext == \E d \in Departures :
  \/ Picks(d) \/ Joins(d) \/ StaysOn(d) \/ Chunk(d) \/ Drops(d) \/ Stalls(d)
  \/ \E to \in Range(reads) \ {on[d]} : Moves(d, to)

ShareSpec == ShareInit /\ [][ShareNext]_shareVars

\* Who holds a lock lets go of it and who asks is answered, and a while passes.
\* What a departure does between its chunks is its far end's.
ShareFairness == \A d \in Departures :
  /\ WF_shareVars(Joins(d) \/ Chunk(d) \/ (at[d] = "behind" /\ Picks(d)))
  /\ WF_shareVars(Stalls(d))

ShareFairSpec == ShareSpec /\ ShareFairness

----------------------------------------------------------------------------
(* What must hold.                                                         *)

DepartureStages == {"new", "joins", "rejoins", "between", "asks", "behind", "done", "failed", "gone"}

Sources == [window : Seq(Nat), first : Nat, next : Nat, ended : BOOLEAN, failed : BOOLEAN,
            readers : SUBSET Departures]

\* Every variable keeps its type.
ShareTypeOK ==
  /\ reads \in Seq(Ids) /\ IsInjective(reads)
  /\ source \in [Ids -> Sources]
  /\ at \in [Departures -> DepartureStages]
  /\ on \in [Departures -> Ids \cup {None}]
  /\ place \in [Departures -> 0 .. Length]
  /\ got \in [Departures -> Seq(Nat)]
  /\ stalled \subseteq Departures
  /\ joining \in Departures \cup {None}
  /\ failures \in 0 .. MaxFailures

\* Whatever reads it takes from, moves to and falls behind on, a departure gets
\* every chunk of the Stream once, in order, and all of them before it is told
\* of the end.
EveryChunk ==
  \A d \in Departures :
    /\ got[d] = [i \in 1 .. place[d] |-> i - 1]
    /\ at[d] = "done" => place[d] = Length

\* A departure takes from one read, the one it is on, and a read is kept just
\* as long as a departure takes from it: none leaks, and none is let go of that
\* one still takes from (stream_share.rs, leave).
OneEach ==
  /\ \A d \in Departures, r \in Ids :
       d \in source[r].readers => on[d] = r /\ r \in Range(reads)
  /\ \A d \in Departures :
       at[d] \in {"between", "asks", "behind", "done", "failed"} => d \in source[on[d]].readers
  /\ Unlocked => \A r \in Range(reads) : source[r].readers # {}

\* What the departures that have come so far are allowed together.
MostKept == Kept(Cardinality({d \in Departures : at[d] # "new"}))

\* What is held is bounded for each Stream: a read keeps no more than all the
\* departures so far are allowed together, however many have left it since it
\* read (stream_share.rs, KEPT_PER_READER).
HeldBounded == \A r \in Ids : Len(source[r].window) <= MostKept

\* A departure held back for one behind it goes on: once that one takes, leaves,
\* or has taken nothing for stream_stall (one_read.rs, waits).
NoneHeldBack == \A d \in Departures : Asking(d) ~> ~Asking(d)

\* Reads shared, moved and let go of lose a departure nothing: it gets every
\* chunk, and takes from one read that is kept just as long and keeps no more
\* than it may (stream_share.rs).
Shared == EveryChunk /\ OneEach /\ HeldBounded
==============================================================================
