------------------------------- MODULE WorkStep -------------------------------
(***************************************************************************)
(* The Work Process step of every node that runs one Work Process: its     *)
(* queue read, each Message of it claimed and taken a turn of its Instance *)
(* - found by its key in a Correlation, or its own - and the turn handed   *)
(* on in one write over the turn that was read.                            *)
(* (work_step.rs, work_step/{dispatch,turning,acts,keys,running}.rs.)      *)
(*                                                                         *)
(* The unit that advances an Instance (crate process) is external: what it *)
(* waits for next, or how it ends, is any of Ends.  An Instance is named   *)
(* by the Message that started it.  A Message bound here holds one place   *)
(* at the Work Process where it names a sequence; which Stream heads is    *)
(* Sequence's.                                                             *)
(***************************************************************************)
EXTENDS Integers, FiniteSets, Sequences, SequencesExt

CONSTANTS
  Nodes, Messages,
  NoKey,       \* a Message that lacks a part of the Correlation's key
  Key,         \* [Messages -> keys]
  Skips,       \* a failure lets its place go
  MaxTurns,    \* bound: the turns of an Instance
  MaxFaults    \* bound: leases outrun, answers lost, nodes ended

None == "none"

ASSUME SetsAssumption ==
  /\ IsFiniteSet(Nodes) /\ IsFiniteSet(Messages)
  /\ None \notin Nodes /\ None \notin Messages
  /\ Skips \in BOOLEAN
ASSUME BoundsAssumption == MaxTurns \in Nat \ {0} /\ MaxFaults \in Nat

VARIABLES
  sequenced, \* whether the Work Process names a Correlation as its sequence
  \* Xmip Storage.
  st,        \* each Message's Journey: unborn, bound, waiting, completed, failed
  placed,    \* the queue's order
  due,       \* the due time of a Message kept for a timer has come
  claim,     \* the node whose claim on a Message is live
  inst,      \* each Instance as written: its turns, and what it waits for
  keyed,     \* the Instance each key correlates to
  point,     \* the places at the Work Process, in order
  \* Each node's step.
  seen,      \* what its scan read and has not come to yet
  job,       \* the turn it has under way of each Message it owns
  closed,
  faults,
  past       \* what an Instance had taken when another began under its name

storageVars == <<sequenced, st, placed, due, claim, inst, keyed, point>>
vars == <<storageVars, seen, job, closed, faults, past>>

NoInstance == [turns |-> 0, mode |-> "ended", took |-> <<>>]
\* A turn before its Instance is advanced.
Job(stage, of) ==
  [stage |-> stage, of |-> of, over |-> 0, mode |-> None, fresh |-> FALSE, before |-> <<>>]
NoJob == Job(None, None)

Keys == {Key[m] : m \in Messages} \ {NoKey}

InQueue(m) == st[m] \in {"bound", "waiting"}

----------------------------------------------------------------------------
(* A Publication, and the due time of a timer.                             *)

\* Bound for the Work Process by the Publication's one write, which takes its
\* place there; a Stream that holds sequences end to end takes it late, as
\* Sequence has it.
Bind(m) ==
  /\ st[m] = "unborn"
  /\ st' = [st EXCEPT ![m] = "bound"]
  /\ placed' = Append(placed, m)
  /\ point' = IF sequenced THEN Append(point, m) ELSE point
  /\ UNCHANGED <<sequenced, due, claim, inst, keyed, seen, job, closed, faults, past>>

DueComes(m) ==
  /\ st[m] = "waiting" /\ m \notin due
  /\ due' = due \cup {m}
  /\ UNCHANGED <<sequenced, st, placed, claim, inst, keyed, point, seen, job, closed, faults, past>>

----------------------------------------------------------------------------
(* The dispatching.                                                        *)

Owned(n) == {m \in Messages : job[n][m].stage # None}

Due(m) == st[m] = "bound" \/ (st[m] = "waiting" /\ m \in due)

\* due: the queue read to its end, oldest first, what no live claim holds.
Scan(n) ==
  /\ ~closed[n] /\ seen[n] = <<>>
  /\ LET read == SelectSeq(placed, LAMBDA m : Due(m) /\ claim[m] = None)
     IN  read # <<>> /\ seen' = [seen EXCEPT ![n] = read]
  /\ UNCHANGED <<storageVars, job, closed, faults, past>>

\* A Work Process that names a sequence takes its turns one after the other,
\* in the scan's order; another's are the pool's.
OneAtATime(n) == sequenced => Owned(n) = {}

\* disown, whatever the turn ended as.
Disowns(n, m) == job' = [job EXCEPT ![n][m] = NoJob]

Stage(n, m, to) == job' = [job EXCEPT ![n][m] = Job(to, None)]

Close(n) ==
  /\ ~closed[n]
  /\ \E o \in Nodes \ {n} : ~closed[o]
  /\ closed' = [closed EXCEPT ![n] = TRUE]
  /\ UNCHANGED <<storageVars, seen, job, faults, past>>

----------------------------------------------------------------------------
(* A turn.                                                                 *)

Faulty == faults < MaxFaults /\ faults' = faults + 1

\* The next the scan read, but for what this node has in a turn: own.
Comes(n, m) ==
  /\ seen[n] # <<>>
  /\ OneAtATime(n)
  /\ m = Head(seen[n])
  /\ seen' = [seen EXCEPT ![n] = Tail(@)]

\* Owned already, or another's claim is on it: passed over.
PassedOver(n, m) ==
  /\ Comes(n, m)
  /\ m \in Owned(n) \/ claim[m] # None
  /\ UNCHANGED <<storageVars, job, closed, faults, past>>

Claims(n, m) ==
  /\ Comes(n, m)
  /\ m \notin Owned(n) /\ claim[m] = None
  /\ claim' = [claim EXCEPT ![m] = n]
  /\ Stage(n, m, "claimed")
  /\ UNCHANGED <<sequenced, st, placed, due, inst, keyed, point, closed, faults, past>>

ClaimUnanswered(n, m) ==
  /\ Comes(n, m)
  /\ m \notin Owned(n) /\ claim[m] = None
  /\ Faulty
  /\ claim' \in {claim, [claim EXCEPT ![m] = n]}
  /\ UNCHANGED <<sequenced, st, placed, due, inst, keyed, point, job, closed, past>>

\* The claim given back, where it is still the turn's.
Releases(n, m) ==
  /\ claim' = [claim EXCEPT ![m] = IF @ = n THEN None ELSE @]
  /\ Disowns(n, m)

\* Mutant: taken in the scan's order alone.
HeadsUnasked(m) == TRUE

\* heads: of the places of its key, the first.
Heads(m) ==
  sequenced =>
    \A i, j \in DOMAIN point : point[j] = m /\ Key[point[i]] = Key[m] => j <= i

\* Read under the claim: finished since, or behind another, it waits.
Reads(n, m) ==
  /\ job[n][m].stage = "claimed"
  /\ IF InQueue(m) /\ Heads(m)
       THEN Stage(n, m, "read") /\ UNCHANGED claim
       ELSE Releases(n, m)
  /\ UNCHANGED <<sequenced, st, placed, due, inst, keyed, point, seen, closed, faults, past>>

\* instance: the one its key correlates to, else the one it started.
Correlated(m) ==
  IF Key[m] # NoKey /\ keyed[Key[m]] # None THEN keyed[Key[m]] ELSE m

FindsInstance(n, m) ==
  /\ job[n][m].stage = "read"
  /\ job' = [job EXCEPT ![n][m] = Job("found", Correlated(m))]
  /\ UNCHANGED <<storageVars, seen, closed, faults, past>>

Open(record) == record.mode # "ended"

\* What the unit makes of an event, external: what the Instance waits for
\* next, or how it ends.
Ends == {"completed", "threw", "unfit"}
GoesOn(record) ==
  IF record.turns + 1 >= MaxTurns THEN Ends ELSE {"message", "timer", "either"} \cup Ends

\* advance: Due for a Message kept for its timer, Arrived for another.  An
\* Instance that ended is advanced as a new one, which waits for no timer.
Advanced(m, record) ==
  IF st[m] = "bound"
    THEN IF Open(record) /\ record.mode = "timer" THEN {"refused"} ELSE GoesOn(record)
    ELSE IF ~Open(record) THEN {"refused", "completed", "unfit"}
         ELSE IF record.mode = "message" THEN {"refused"} ELSE GoesOn(record)

Advances(n, m) ==
  /\ job[n][m].stage = "found"
  /\ LET record == inst[job[n][m].of]
     IN  \E mode \in Advanced(m, record) :
           job' = [job EXCEPT ![n][m] =
                    [stage |-> "advanced", of |-> job[n][m].of, over |-> record.turns, mode |-> mode,
                     fresh |-> ~Open(record),
                     before |-> IF Open(record) THEN record.took ELSE <<>>]]
  /\ UNCHANGED <<storageVars, seen, closed, faults, past>>

\* No step of its Instance waits for it.
Refused(n, m) ==
  /\ job[n][m].stage = "advanced" /\ job[n][m].mode = "refused"
  /\ Releases(n, m)
  /\ UNCHANGED <<sequenced, st, placed, due, inst, keyed, point, seen, closed, faults, past>>

----------------------------------------------------------------------------
(* The one write of a turn, XmipStorage::turn.                             *)

Finished(mode) == mode \in {"completed", "threw"}

\* Mutant: written whatever turn the Instance has taken since.
UnlessMovedOnAlways(n, m) == TRUE

\* Written only over the turn it read.
UnlessMovedOn(n, m) == inst[job[n][m].of].turns = job[n][m].over

\* The keys the Instance holds: those of the Messages it took.
HeldKeys(took) == {Key[m] : m \in Range(took)} \ {NoKey}

KeysFree(n, m) ==
  Finished(job[n][m].mode) \/
    \A k \in HeldKeys(<<m>>) : keyed[k] \in {None, job[n][m].of}

Taken(n, m) == claim[m] = n /\ UnlessMovedOn(n, m) /\ KeysFree(n, m)

\* Mutant: a finished Instance keeps its keys.
KeyedKeeps(i, mode, took) ==
  [k \in Keys |-> IF k \notin HeldKeys(took) THEN keyed[k] ELSE i]

\* The keys written with an Instance that goes on, and taken out with one that
\* finished.
Keyed(i, mode, took) ==
  [k \in Keys |->
     IF k \notin HeldKeys(took) THEN keyed[k]
     ELSE IF ~Finished(mode) THEN i
     ELSE IF keyed[k] = i THEN None ELSE keyed[k]]

\* Where the Journey goes: kept for a timer, Failed, or out of the queue.
JourneyTo(mode) ==
  CASE mode = "threw" -> "failed"
    [] mode \in {"timer", "either"} -> "waiting"
    [] OTHER -> "completed"

\* The one place of a Message taken out.
Without(places, m) ==
  IF m \in Range(places)
    THEN RemoveAt(places, CHOOSE i \in DOMAIN places : places[i] = m) ELSE places

\* A place let go of.
LetGo(m, to) ==
  IF to = "completed" \/ (to = "failed" /\ Skips) THEN Without(point, m) ELSE point

\* What the Instance has taken: a Message that arrived, not a timer.
Took(n, m) ==
  IF st[m] = "bound" THEN Append(job[n][m].before, m) ELSE job[n][m].before

Writes(n, m) ==
  LET i    == job[n][m].of
      mode == job[n][m].mode
      to   == JourneyTo(mode)
      took == Took(n, m)
  IN  /\ inst' = [inst EXCEPT ![i] = [turns |-> job[n][m].over + 1,
                                      mode |-> IF Finished(mode) THEN "ended" ELSE mode,
                                      took |-> took]]
      /\ keyed' = Keyed(i, mode, took)
      /\ st' = [st EXCEPT ![m] = to]
      /\ due' = due \ {m}
      /\ placed' = IF to = "completed" THEN Without(placed, m) ELSE placed
      /\ point' = LetGo(m, to)
      /\ claim' = [claim EXCEPT ![m] = None]
      /\ past' = IF job[n][m].fresh THEN past \o inst[i].took ELSE past
      /\ UNCHANGED sequenced

InWrite(n, m) ==
  job[n][m].stage = "advanced" /\ job[n][m].mode \notin {"refused", "unfit"}

Done(n, m) ==
  /\ InWrite(n, m)
  /\ Taken(n, m)
  /\ Writes(n, m)
  /\ Disowns(n, m)
  /\ UNCHANGED <<seen, closed, faults>>

\* Its Instance moved on, another took its key, or the claim was another's.
NotTaken(n, m) ==
  /\ InWrite(n, m)
  /\ ~Taken(n, m)
  /\ Releases(n, m)
  /\ UNCHANGED <<sequenced, st, placed, due, inst, keyed, point, seen, closed, faults, past>>

\* Written and its answer lost, or not written; the claim left to lapse.
Unwritten(n, m) ==
  /\ InWrite(n, m)
  /\ Faulty
  /\ \/ Taken(n, m) /\ Writes(n, m)
     \/ UNCHANGED <<storageVars, past>>
  /\ Disowns(n, m)
  /\ UNCHANGED <<seen, closed>>

\* take gives up: its keys or its Instance not read, what arrived not made of it,
\* or the unit unfit for it.
GivesUp(n, m) ==
  \/ job[n][m].stage \in {"read", "found"}
  \/ job[n][m].stage = "advanced" /\ job[n][m].mode = "unfit"

WritesFailed(m) ==
  /\ st' = [st EXCEPT ![m] = "failed"]
  /\ due' = due \ {m}
  /\ claim' = [claim EXCEPT ![m] = None]
  /\ UNCHANGED <<sequenced, placed, inst, keyed, point>>

\* fail: written Failed under the claim, kept in its queue, its place kept.
Fails(n, m) ==
  /\ GivesUp(n, m)
  /\ IF claim[m] = n THEN WritesFailed(m) ELSE UNCHANGED storageVars
  /\ Disowns(n, m)
  /\ UNCHANGED <<seen, closed, faults, past>>

\* Written Failed and its answer lost, or not written.
FailUnanswered(n, m) ==
  /\ GivesUp(n, m)
  /\ Faulty
  /\ (claim[m] = n /\ WritesFailed(m)) \/ UNCHANGED storageVars
  /\ Disowns(n, m)
  /\ UNCHANGED <<seen, closed, past>>

----------------------------------------------------------------------------
(* A lease outrun, and a node's end and start.                             *)

\* A claim left behind lapses; the one of a turn under way does so where the
\* turn is longer than a lease.
Lapses(m) ==
  /\ claim[m] # None
  /\ IF m \in Owned(claim[m]) THEN Faulty ELSE UNCHANGED faults
  /\ claim' = [claim EXCEPT ![m] = None]
  /\ UNCHANGED <<sequenced, st, placed, due, inst, keyed, point, seen, job, closed, past>>

Restart(n) ==
  /\ Faulty
  /\ seen' = [seen EXCEPT ![n] = <<>>]
  /\ job' = [job EXCEPT ![n] = [m \in Messages |-> NoJob]]
  /\ closed' = [closed EXCEPT ![n] = FALSE]
  /\ UNCHANGED <<storageVars, past>>

Init ==
  /\ sequenced \in BOOLEAN
  /\ st = [m \in Messages |-> "unborn"]
  /\ placed = <<>> /\ due = {} /\ point = <<>> /\ past = <<>>
  /\ claim = [m \in Messages |-> None]
  /\ inst = [m \in Messages |-> NoInstance]
  /\ keyed = [k \in Keys |-> None]
  /\ seen = [n \in Nodes |-> <<>>]
  /\ job = [n \in Nodes |-> [m \in Messages |-> NoJob]]
  /\ closed = [n \in Nodes |-> FALSE]
  /\ faults = 0

Turn(n, m) ==
  \/ PassedOver(n, m) \/ Claims(n, m) \/ ClaimUnanswered(n, m) \/ Reads(n, m) \/ FindsInstance(n, m)
  \/ Advances(n, m) \/ Refused(n, m) \/ Done(n, m) \/ NotTaken(n, m)
  \/ Unwritten(n, m) \/ Fails(n, m) \/ FailUnanswered(n, m)

Next ==
  \/ \E m \in Messages : Bind(m) \/ DueComes(m) \/ Lapses(m)
  \/ \E n \in Nodes : Scan(n) \/ Close(n) \/ Restart(n)
  \/ \E n \in Nodes, m \in Messages : Turn(n, m)

Spec == Init /\ [][Next]_vars

----------------------------------------------------------------------------
(* What must hold.                                                         *)

Instances == [turns : Nat, mode : {"message", "timer", "either", "ended"},
              took : Seq(Messages)]
Modes == {None, "refused", "message", "timer", "either"} \cup Ends
JobRecords ==
  [stage : {None, "claimed", "read", "found", "advanced"}, of : Messages \cup {None},
   over : Nat, mode : Modes, fresh : BOOLEAN, before : Seq(Messages)]

StorageOK ==
  /\ st \in [Messages -> {"unborn", "bound", "waiting", "completed", "failed"}]
  /\ claim \in [Messages -> Nodes \cup {None}]
  /\ inst \in [Messages -> Instances]
  /\ keyed \in [Keys -> Messages \cup {None}]
  /\ past \in Seq(Messages)

JobsOK ==
  /\ job \in [Nodes -> [Messages -> JobRecords]]
  /\ \A n \in Nodes, m \in Messages :
       /\ job[n][m].stage \in {"found", "advanced"} => job[n][m].of \in Messages
       /\ job[n][m].stage = "advanced" => job[n][m].mode # None

PlacesOK ==
  /\ sequenced \in BOOLEAN
  /\ placed \in Seq(Messages) /\ IsInjective(placed)
  /\ point \in Seq(Messages) /\ IsInjective(point)

\* Every variable keeps its type; the queue and the sequence have a place of a
\* Message once.
TypeOK ==
  /\ StorageOK /\ JobsOK /\ PlacesOK
  /\ due \subseteq {m \in Messages : st[m] = "waiting"}
  /\ seen \in [Nodes -> Seq(Messages)]

InTook(m, i, k) == k \in DOMAIN inst[i].took /\ inst[i].took[k] = m
InPast(m, k) == k \in DOMAIN past /\ past[k] = m

\* One Instance has taken it, or one whose name another has since.
IsTaken(m) == m \in Range(past) \/ \E i \in Messages : m \in Range(inst[i].took)

\* Every Message whose arrival was written is in what one Instance took, once:
\* a turn longer than its lease, taken by two nodes or written with its answer
\* lost, never takes a Message twice, into two Instances, or over a turn that
\* another wrote meanwhile (work_step.rs, WORK_LEASE).
TakenOnce ==
  \A m \in Messages :
    /\ \A i, j \in Messages : \A k \in DOMAIN inst[i].took, l \in DOMAIN inst[j].took :
         InTook(m, i, k) /\ InTook(m, j, l) => i = j /\ k = l
    /\ \A k, l \in DOMAIN past : InPast(m, k) /\ InPast(m, l) => k = l
    /\ ~ \E i \in Messages : m \in Range(inst[i].took) \cap Range(past)
    /\ st[m] \in {"waiting", "completed"} => IsTaken(m)
    /\ st[m] \in {"unborn", "bound"} => ~IsTaken(m)

\* A key correlates to an Instance that is open and took a Message of it, and to
\* no two: Messages of one key meet in one Instance, and none joins one that
\* ended (keys.rs, ResolvedSet).
KeysHeld ==
  /\ \A k \in Keys : keyed[k] # None =>
       Open(inst[keyed[k]]) /\ k \in HeldKeys(inst[keyed[k]].took)
  /\ \A i \in Messages : Open(inst[i]) =>
       \A k \in HeldKeys(inst[i].took) : keyed[k] = i

\* Read under its own claim, a Message stays in its queue until the claim ends.
ClaimInv ==
  \A n \in Nodes, m \in Messages :
    job[n][m].stage \in {"read", "found", "advanced"} /\ claim[m] = n => InQueue(m)

\* A turn advanced its Instance as it still is, or the Instance has moved on and
\* the turn will not be written.
OverInv ==
  \A n \in Nodes, m \in Messages :
    LET j == job[n][m]
        record == inst[j.of]
    IN  j.stage = "advanced" =>
          /\ j.over <= record.turns
          /\ j.over = record.turns =>
               /\ j.fresh = ~Open(record)
               /\ j.before = IF Open(record) THEN record.took ELSE <<>>

\* A Message to take has its place in the queue and in the sequence, and those
\* in both are in one order.
PlaceInv ==
  /\ \A m \in Messages :
       /\ st[m] = "unborn" => m \notin Range(placed) \cup Range(point)
       /\ st[m] = "bound" => m \in Range(placed)
       /\ st[m] = "bound" /\ sequenced => m \in Range(point)
  /\ \A a, b \in DOMAIN placed, i, j \in DOMAIN point :
       placed[a] = point[i] /\ placed[b] = point[j] /\ a < b => i < j

\* What headed its key when it was read does so until the claim ends.
HeadInv ==
  \A n \in Nodes, m \in Messages :
    job[n][m].stage \in {"read", "found", "advanced"} /\ claim[m] = n => Heads(m)

Overtakes(m) ==
  /\ st[m] = "bound" /\ st'[m] \in {"waiting", "completed"}
  /\ \E o \in Messages \ {m} :
       /\ Key[o] = Key[m] /\ Key[m] # NoKey /\ st[o] = "bound"
       /\ \E i, j \in DOMAIN placed : placed[i] = o /\ placed[j] = m /\ i < j

\* Where the Work Process names a sequence, no Message of a key is taken while
\* an earlier one of it is not, whichever nodes scan and whatever lapses
\* (turning.rs, turn).
InSequence == [][sequenced => \A m \in Messages : ~Overtakes(m)]_vars

\* work_step.rs of the scan: `one whose key is behind an earlier one of the same
\* key waits, so a key's Messages never overtake'.
NeverOvertake == [][\A m \in Messages : ~Overtakes(m)]_vars

\* turning.rs of a turn's place: `whether a failure lets it go'.
FailureLetsGo ==
  Skips => \A m \in Messages : st[m] = "failed" => m \notin Range(point)
===============================================================================
