-------------------------------- MODULE Pickup --------------------------------
(***************************************************************************)
(* One Subscription of a node: paused and resumed by operators, holding    *)
(* what Publications and Replays match to it, and picked up again oldest   *)
(* first, each Message moved in one hand-on from the Subscription's queue  *)
(* to the queue of the Send Port it leads to.                              *)
(* (pickup.rs, pickup/{holding,released,replay,state}.rs, held_work.rs,    *)
(* and the Publication's part of it in message_path.rs.)                   *)
(*                                                                         *)
(* The queue is this node's own: its name has the node's.  What is held is *)
(* decided under the lock before the Publication is written, and counted   *)
(* under it after; the one thread that picks up reads the queue outside it.*)
(* A request to Xmip Storage may be taken and its answer lost.  After the  *)
(* move the Message is SendDispatch's (Moved).                             *)
(***************************************************************************)
EXTENDS Integers, FiniteSets

CONSTANTS
  Messages,   \* matched to the Subscription
  Dead,       \* those that matched nothing once, in the Dead Message Queue
  FromWork,   \* those a Work Process's turn publishes
  Broken,     \* those the Ledger holds nothing to send for
  Most,       \* the most of the queue read at once, MOST
  MaxActs     \* bound: how often an operator pauses or resumes

ASSUME SetsAssumption ==
  IsFiniteSet(Messages) /\ {Dead, FromWork, Broken} \subseteq SUBSET Messages
ASSUME BoundsAssumption == Most \in Nat \ {0} /\ MaxActs \in Nat

VARIABLES
  \* Xmip Storage.
  where,     \* where each Message is
  place,     \* its place in the Subscription's queue; 0 where in none
  given,     \* the last place given
  kept,      \* the standing the administration database keeps: paused
  claimed,   \* the Messages a claim of this node's is on, live or left
  \* Entry, under the pickup's lock.
  paused, held, cursor, taken, pending,
  waits,     \* not_before has not come
  \* Threads.
  work,      \* each Message's Publication or Replay
  picker,    \* the pick-up
  acts,
  missed     \* why a count or a wake-up was missed since the node started

ledgerVars == <<where, place, given, kept, claimed>>
entryVars == <<paused, held, cursor, taken, pending, waits>>
vars == <<ledgerVars, entryVars, work, picker, acts, missed>>

\* An answer lost, a Publication of a Work Process's, one counted while the
\* queue was read.
Reasons == {"answer", "work", "read"}

Idle == [stage |-> "idle", from |-> 0, batch |-> {}, stalled |-> FALSE]

----------------------------------------------------------------------------
(* A Publication: holding, the write, published.                           *)

Held == {m \in Messages : where[m] = "held"}

Works(m, to) == work' = [work EXCEPT ![m] = to]

\* held: a paused Subscription, one whose queue holds anything, or a Replay.
Holding(m) == m \in Dead \/ paused \/ held # 0

Decide(m) ==
  /\ work[m] = "none"
  /\ where[m] = IF m \in Dead THEN "dead" ELSE "unborn"
  /\ Works(m, IF Holding(m) THEN "holds" ELSE "departs")
  /\ UNCHANGED <<ledgerVars, entryVars, picker, acts, missed>>

\* The one write: at the end of the Subscription's queue, out of the Dead
\* Message Queue where it was there; or in the queue of its Send Port.
Written(m) ==
  IF work[m] = "holds"
    THEN /\ where' = [where EXCEPT ![m] = "held"]
         /\ place' = [place EXCEPT ![m] = given + 1]
         /\ given' = given + 1
    ELSE /\ where' = [where EXCEPT ![m] = "out"]
         /\ UNCHANGED <<place, given>>

\* A turn's write, which nobody counts: acts::publish asks what is held, and
\* published is not called after it.
WriteByWork(m) ==
  /\ m \in FromWork
  /\ work[m] \in {"holds", "departs"}
  /\ Written(m)
  /\ Works(m, "done")
  /\ missed' = missed \cup {r \in {"work"} : work[m] = "holds"}
  /\ UNCHANGED <<kept, claimed, entryVars, picker, acts>>

Write(m) ==
  /\ m \notin FromWork
  /\ work[m] \in {"holds", "departs"}
  /\ Written(m)
  /\ Works(m, IF work[m] = "holds" THEN "written" ELSE "done")
  /\ UNCHANGED <<kept, claimed, entryVars, picker, acts, missed>>

\* Not taken: refused where it arrived, and sent again; a Replay FAILED, and
\* asked again.
WriteNot(m) ==
  /\ work[m] \in {"holds", "departs"}
  /\ Works(m, "none")
  /\ UNCHANGED <<ledgerVars, entryVars, picker, acts, missed>>

\* Taken, the answer lost: nobody counts it, and nobody is woken.
WriteUnanswered(m) ==
  /\ work[m] \in {"holds", "departs"}
  /\ Written(m)
  /\ Works(m, "done")
  /\ missed' = missed \cup {r \in {"answer"} : work[m] = "holds"}
  /\ UNCHANGED <<kept, claimed, entryVars, picker, acts>>

\* Mutant: what an active Subscription holds wakes nobody.
CountSleeps(m) ==
  /\ work[m] = "written"
  /\ held' = held + 1
  /\ Works(m, "done")
  /\ UNCHANGED <<ledgerVars, paused, cursor, taken, pending, waits, picker, acts, missed>>

\* published: counted, and the node woken where it is active.
Count(m) ==
  /\ work[m] = "written"
  /\ held' = held + 1
  /\ pending' = (pending \/ ~paused)
  /\ Works(m, "done")
  /\ UNCHANGED <<ledgerVars, paused, cursor, taken, waits, picker, acts, missed>>

----------------------------------------------------------------------------
(* An operator's act, its standing written under the lock.                 *)

Acts == acts < MaxActs /\ acts' = acts + 1

Pause ==
  /\ Acts
  /\ ~paused
  /\ kept' = TRUE /\ paused' = TRUE
  /\ UNCHANGED <<where, place, given, claimed, held, cursor, taken, pending, waits,
                 work, picker, missed>>

Resume ==
  /\ Acts
  /\ paused
  /\ kept' = FALSE /\ paused' = FALSE
  /\ cursor' = 0 /\ pending' = TRUE
  /\ UNCHANGED <<where, place, given, claimed, held, taken, waits, work, picker, missed>>

\* FAILED: nothing changed in memory, the answer to the write lost.
ActFails ==
  /\ Acts
  /\ kept' = ~paused
  /\ UNCHANGED <<where, place, given, claimed, entryVars, work, picker, missed>>

----------------------------------------------------------------------------
(* The pick-up: released, outside the lock but for its two ends.           *)

Ready == pending /\ ~paused /\ ~waits

Asks ==
  /\ picker.stage = "idle"
  /\ Ready
  /\ picker' = [Idle EXCEPT !.stage = "asked", !.from = cursor]
  /\ UNCHANGED <<ledgerVars, entryVars, work, acts, missed>>

\* The first of the queue from a place on: all, or the oldest Most of them.
Page(from, batch) ==
  LET due == {m \in Held : place[m] >= from}
  IN  /\ batch \subseteq due /\ Cardinality(batch) <= Most
      /\ batch = due \/ Cardinality(batch) = Most
      /\ \A m \in batch, o \in due \ batch : place[m] < place[o]

Reads ==
  /\ picker.stage = "asked"
  /\ \E batch \in SUBSET Held :
       /\ Page(picker.from, batch)
       /\ picker' = [picker EXCEPT !.stage = "read", !.batch = batch]
  /\ UNCHANGED <<ledgerVars, entryVars, work, acts, missed>>

\* The lock taken again: the Subscription paused, or read from elsewhere.
Stale == paused \/ cursor # picker.from

ReadsNot ==
  /\ picker.stage = "asked"
  /\ waits' = (waits \/ ~Stale)
  /\ picker' = Idle
  /\ UNCHANGED <<ledgerVars, paused, held, cursor, taken, pending, work, acts, missed>>

Takes(m) == place[m] \notin taken

\* Counted since the queue was read, so that nothing is to say so again.
Since(batch) ==
  \E m \in Held \ batch : place[m] >= cursor /\ work[m] = "done"

\* Read from after the last of them on.
Beyond(batch) ==
  IF batch = {} THEN cursor' = cursor
  ELSE \E m \in batch : (\A o \in batch : place[o] <= place[m]) /\ cursor' = place[m] + 1

Applies ==
  /\ picker.stage = "read"
  /\ LET batch == picker.batch
         let_go == {m \in batch : Takes(m)}
     IN  IF Stale
           THEN /\ picker' = Idle
                /\ UNCHANGED <<cursor, taken, pending, waits, missed>>
           ELSE /\ waits' = FALSE
                /\ Beyond(batch)
                /\ taken' = taken \cup {place[m] : m \in let_go}
                /\ pending' = (pending /\ Cardinality(batch) = Most)
                /\ missed' = missed \cup {r \in {"read"} : ~pending' /\ Since(batch)}
                /\ picker' = IF let_go = {} THEN Idle
                             ELSE [Idle EXCEPT !.stage = "next", !.batch = let_go]
  /\ UNCHANGED <<ledgerVars, paused, held, work, acts>>

----------------------------------------------------------------------------
(* pick_up, of each it let go of, the oldest first.                        *)

First(m) == m \in picker.batch /\ \A o \in picker.batch : place[m] <= place[o]

NextOne(m, stalled) ==
  picker' = IF picker.batch = {m} THEN Idle
            ELSE [Idle EXCEPT !.stage = "next", !.batch = picker.batch \ {m},
                              !.stalled = stalled]

\* Mutant: the rest of what was let go of is picked up, not read again.
AgainGoesOn(m) ==
  /\ taken' = taken \ {place[m]}
  /\ cursor' = IF place[m] < cursor THEN place[m] ELSE cursor
  /\ pending' = TRUE /\ waits' = TRUE
  /\ NextOne(m, FALSE)
  /\ UNCHANGED <<paused, held>>

\* again: read again from its place, after a while, and all after it with it.
\* Its place is the one it was let go of at, whether it is there still or not.
Again(m) ==
  /\ taken' = taken \ {place[m]}
  /\ cursor' = IF place[m] < cursor THEN place[m] ELSE cursor
  /\ pending' = TRUE /\ waits' = TRUE
  /\ NextOne(m, TRUE)
  /\ UNCHANGED <<paused, held>>

Stalled(m) ==
  /\ picker.stage = "next" /\ First(m)
  /\ picker.stalled
  /\ Again(m)
  /\ UNCHANGED <<ledgerVars, work, acts, missed>>

ClaimGranted(m) ==
  /\ picker.stage = "next" /\ First(m) /\ ~picker.stalled
  /\ m \notin claimed
  /\ claimed' = claimed \cup {m}
  /\ picker' = [picker EXCEPT !.stage = "claimed"]
  /\ UNCHANGED <<where, place, given, kept, entryVars, work, acts, missed>>

\* Another's claim - one of this node's own left behind - or no answer, the
\* claim granted all the same or not.
ClaimNot(m) ==
  /\ picker.stage = "next" /\ First(m) /\ ~picker.stalled
  /\ claimed' \in {claimed, claimed \cup {m}}
  /\ Again(m)
  /\ UNCHANGED <<where, place, given, kept, work, acts, missed>>

\* unreadable: the claim given back, passed over, still held.
Passed(m) ==
  /\ picker.stage = "claimed" /\ First(m)
  /\ m \in Broken
  /\ claimed' = claimed \ {m}
  /\ taken' = taken \ {place[m]}
  /\ NextOne(m, FALSE)
  /\ UNCHANGED <<where, place, given, kept, paused, held, cursor, pending, waits,
                 work, acts, missed>>

\* Out of the one queue and into the other, under the claim.
HandedOn(m) ==
  /\ picker.stage = "claimed" /\ First(m)
  /\ m \in claimed \ Broken
  /\ where' = [where EXCEPT ![m] = "out"]
  /\ claimed' = claimed \ {m}
  /\ UNCHANGED <<place, given, kept>>

Moves(m) ==
  /\ HandedOn(m)
  /\ picker' = [picker EXCEPT !.stage = "moved"]
  /\ UNCHANGED <<entryVars, work, acts, missed>>

\* Moved, the answer lost: the claim given back, and its place read again,
\* where it no longer is.
MoveUnanswered(m) ==
  /\ HandedOn(m)
  /\ Again(m)
  /\ missed' = missed \cup {"answer"}
  /\ UNCHANGED <<work, acts>>

\* The Journey's read unanswered, the hand-on not taken, or the claim lapsed.
MoveNot(m) ==
  /\ picker.stage = "claimed" /\ First(m)
  /\ claimed' = claimed \ {m}
  /\ Again(m)
  /\ UNCHANGED <<where, place, given, kept, work, acts, missed>>

\* moved: the count, which stops at none.
Moved(m) ==
  /\ picker.stage = "moved" /\ First(m)
  /\ taken' = taken \ {place[m]}
  /\ held' = IF held = 0 THEN 0 ELSE held - 1
  /\ NextOne(m, FALSE)
  /\ UNCHANGED <<ledgerVars, paused, cursor, pending, waits, work, acts, missed>>

----------------------------------------------------------------------------
(* Time, and the node's end and start.                                     *)

AgainComes ==
  /\ waits
  /\ waits' = FALSE
  /\ UNCHANGED <<ledgerVars, paused, held, cursor, taken, pending, work, picker, acts, missed>>

Lapses(m) ==
  /\ m \in claimed
  /\ claimed' = claimed \ {m}
  /\ UNCHANGED <<where, place, given, kept, entryVars, work, picker, acts, missed>>

\* Mutant: a queue found holding something is not read until it is resumed.
OpenSleeps ==
  /\ paused' = kept
  /\ held' = Cardinality(Held)
  /\ cursor' = 0 /\ taken' = {} /\ waits' = FALSE
  /\ pending' = FALSE

\* Mutant: the count starts at none.
OpenUncounted ==
  /\ paused' = kept
  /\ held' = 0
  /\ cursor' = 0 /\ taken' = {} /\ waits' = FALSE
  /\ pending' = (Held # {})

\* Pickup::open: the standing and the count read back.
Open ==
  /\ paused' = kept
  /\ held' = Cardinality(Held)
  /\ cursor' = 0 /\ taken' = {} /\ waits' = FALSE
  /\ pending' = (Held # {})

\* The node ends anywhere, its threads with it, and starts again.
Restart ==
  /\ acts < MaxActs /\ acts' = acts + 1
  /\ Open
  /\ work' = [m \in Messages |-> IF work[m] \in {"written", "done"} THEN "done" ELSE "none"]
  /\ picker' = Idle
  /\ missed' = {}
  /\ UNCHANGED ledgerVars

Init ==
  /\ where = [m \in Messages |-> IF m \in Dead THEN "dead" ELSE "unborn"]
  /\ place = [m \in Messages |-> 0]
  /\ given = 0
  /\ kept \in BOOLEAN
  /\ claimed = {}
  /\ paused = kept
  /\ held = 0 /\ cursor = 0 /\ taken = {} /\ pending = FALSE /\ waits = FALSE
  /\ work = [m \in Messages |-> "none"]
  /\ picker = Idle
  /\ acts = 0
  /\ missed = {}

Publication(m) ==
  Decide(m) \/ Write(m) \/ WriteByWork(m) \/ WriteNot(m) \/ WriteUnanswered(m) \/ Count(m)

PickUpOne(m) ==
  \/ Stalled(m) \/ ClaimGranted(m) \/ ClaimNot(m)
  \/ Passed(m) \/ Moves(m) \/ MoveUnanswered(m) \/ MoveNot(m) \/ Moved(m)

PickUp ==
  \/ Asks \/ Reads \/ ReadsNot \/ Applies
  \/ \E m \in Messages : PickUpOne(m)

Next ==
  \/ \E m \in Messages : Publication(m) \/ Lapses(m)
  \/ Pause \/ Resume \/ ActFails
  \/ PickUp
  \/ AgainComes
  \/ Restart

Spec == Init /\ [][Next]_vars

\* The pick-up goes on while the node runs, a while passes, a Publication under
\* way ends, what is asked of Xmip Storage again and again is answered, and a
\* claim left behind lapses.
Fairness ==
  /\ WF_vars(PickUp) /\ WF_vars(AgainComes)
  /\ SF_vars(Reads) /\ SF_vars(\E m \in Messages : ClaimGranted(m))
  /\ SF_vars(\E m \in Messages : Moves(m) \/ Passed(m))
  /\ WF_vars(\E m \in Messages : Count(m))
  /\ SF_vars(picker.stage = "next" /\ \E m \in Messages : First(m) /\ Lapses(m))

FairSpec == Spec /\ Fairness

----------------------------------------------------------------------------
(* What must hold.                                                         *)

\* Every variable keeps its type, and a place is let go of to the pick-up only
\* where one was given.
TypeOK ==
  /\ where \in [Messages -> {"unborn", "dead", "held", "out"}]
  /\ place \in [Messages -> 0 .. given]
  /\ given \in Nat
  /\ claimed \subseteq Messages
  /\ kept \in BOOLEAN /\ paused \in BOOLEAN /\ pending \in BOOLEAN /\ waits \in BOOLEAN
  /\ missed \subseteq Reasons
  /\ held \in Nat
  /\ cursor \in 0 .. given + 1
  /\ taken \subseteq 1 .. given
  /\ work \in [Messages -> {"none", "holds", "departs", "written", "done"}]
  /\ acts \in 0 .. MaxActs
  /\ picker \in [stage : {"idle", "asked", "read", "next", "claimed", "moved"},
                 from : Nat, batch : SUBSET Messages, stalled : BOOLEAN]

\* The oldest a Subscription holds is picked up first, whatever is paused,
\* resumed, read again or lost meanwhile: none is moved over one before it that
\* the Ledger holds a Message to send for (pickup.rs, `oldest first').
OldestFirst ==
  [][\A m \in Messages :
       where[m] = "held" /\ where'[m] = "out" =>
         \A o \in Held \ Broken : place[m] <= place[o]]_vars

\* The pick-up has it, or the queue is to be read, from no later than its
\* place, or its Publication is yet to say so.
Known(m) ==
  \/ m \in picker.batch
  \/ pending /\ cursor <= place[m]
  \/ work[m] = "written"

\* What an active Subscription holds is never forgotten, however pausing,
\* resuming, reading and reading again interleave with what is published: only
\* an answer that was lost, or one counted while the queue was read, may leave
\* a Message to wait for the next act (state.rs, `pending').
Remembered ==
  ~paused /\ missed = {} => \A m \in Held \ Broken : Known(m)

\* holding.rs of published: it `wake[s] the node for what an active one holds'.
Woken ==
  ~paused /\ "answer" \notin missed => \A m \in Held \ Broken : Known(m)

\* Every Message a Subscription that is active holds is moved on at last, and is
\* not stuck behind one the Ledger holds nothing to send for.
PickedUp ==
  <>[](paused \/ missed # {} \/ Held \subseteq Broken)

\* The count is never below what the queue holds but for what Publications have
\* yet to count: with none of them under way, a Subscription taken for empty is
\* empty, and a Message it matches overtakes nothing (state.rs, `held').
CountCovers ==
  missed \cap {"answer", "work"} = {} =>
    Cardinality(Held) <= held + Cardinality({m \in Messages : work[m] = "written"})

\* What an active Subscription holds is accounted for: known to the pick-up, or
\* yet to be read, and counted, so that nothing is forgotten and nothing
\* overtakes (state.rs, `pending' and `held').
Accounted == Remembered /\ CountCovers
=============================================================================
