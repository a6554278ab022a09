----------------------------- MODULE PickupProofs -----------------------------
(***************************************************************************)
(* Proofs about Pickup, for any Messages, page and bounds.                 *)
(***************************************************************************)
EXTENDS Pickup, FiniteSetTheorems, TLAPS

USE SetsAssumption, BoundsAssumption
USE DEF vars, ledgerVars, entryVars

Picking == {"next", "claimed", "moved"}

\* What a Publication has written is where its stage says, and each place of
\* the queue is given once.
WorkInv ==
  /\ \A m \in Messages :
       /\ work[m] \in {"holds", "departs"} => where[m] \in {"unborn", "dead"}
       /\ where[m] \in {"unborn", "dead"} => place[m] = 0
       /\ where[m] = "held" => place[m] # 0 /\ work[m] \in {"written", "done"}
       /\ work[m] = "written" => where[m] \in {"held", "out"}
  /\ \A m, o \in Messages : place[m] = place[o] /\ place[m] # 0 => m = o

\* The pick-up's batch: what is held of the queue from a place on, read while
\* the queue was to be read from no later than it; taken as long as it is
\* picked up; and the one moved is moved.
BatchInv ==
  /\ picker.stage \in {"idle", "asked"} => picker.batch = {}
  /\ picker.stage \in {"asked", "read"} => pending /\ cursor <= picker.from
  /\ picker.stage = "read" => \A m \in picker.batch : place[m] >= picker.from
  /\ picker.stage # "next" => ~picker.stalled
  /\ taken = IF picker.stage \in Picking THEN {place[m] : m \in picker.batch} ELSE {}
  /\ \A m \in picker.batch :
       IF picker.stage = "moved" /\ First(m) THEN where[m] = "out" ELSE where[m] = "held"
  /\ \A m \in picker.batch : place[m] # 0

\* Nothing held is before what the pick-up has, nor before the place the queue
\* is read from next, but what it has and what is passed over.
OrderInv ==
  /\ \A o \in Held \ Broken :
       place[o] < cursor => picker.stage \in Picking /\ o \in picker.batch
  /\ picker.stage = "read" =>
       \A o \in Held \ picker.batch : place[o] >= picker.from =>
         \A m \in picker.batch : place[m] < place[o]
  /\ picker.stage \in Picking /\ ~picker.stalled =>
       \A o \in (Held \ Broken) \ picker.batch : \A m \in picker.batch : place[m] < place[o]

\* The count is of one more between the move and its word.
CountInv ==
  missed \cap {"answer", "work"} = {} =>
    Cardinality(Held) + (IF picker.stage = "moved" THEN 1 ELSE 0)
      <= held + Cardinality({m \in Messages : work[m] = "written"})

PickupInv == TypeOK /\ WorkInv /\ BatchInv /\ OrderInv /\ Remembered /\ CountInv

Stages == {"idle", "asked", "read", "next", "claimed", "moved"}

Pickers == [stage : Stages, from : Nat, batch : SUBSET Messages, stalled : BOOLEAN]

LEMMA IdleIs ==
  /\ Idle \in Pickers /\ Idle.stage = "idle" /\ Idle.from = 0 /\ Idle.batch = {}
  /\ Idle.stalled = FALSE
BY DEF Idle, Pickers, Stages

LEMMA PickerIs == ASSUME TypeOK PROVE picker \in Pickers
BY DEF TypeOK, Pickers, Stages

Uncounted == {m \in Messages : work[m] = "written"}

LEMMA HeldFinite ==
  /\ IsFiniteSet(Messages)
  /\ \A S \in SUBSET Messages : IsFiniteSet(S) /\ Cardinality(S) \in Nat
BY FS_Subset, FS_CardinalityType

----------------------------------------------------------------------------
(* Steps that leave the queue, the pick-up and what it goes by.            *)

\* Nothing of it changes but whether it is paused, what waits, and Publications
\* that have written nothing.
LEMMA OtherKeeps ==
  ASSUME PickupInv, TypeOK',
         UNCHANGED <<where, place, given, picker, cursor, taken, pending, held>>,
         missed \subseteq missed',
         paused' = paused \/ paused',
         \A m \in Messages :
           /\ work'[m] = work[m] \/ {work[m], work'[m]} \subseteq {"none", "holds", "departs"}
           /\ work'[m] \in {"holds", "departs"} => where[m] \in {"unborn", "dead"}
  PROVE  PickupInv'
<1> USE DEF PickupInv
<1>1. Held' = Held /\ \A m \in Messages : First(m)' = First(m)
  BY DEF Held, First
<1>2. WorkInv'
  BY DEF WorkInv
<1>3. BatchInv'
  BY <1>1, PickerIs DEF BatchInv, Pickers
<1>4. OrderInv'
  BY <1>1 DEF OrderInv
<1>5. Remembered'
  BY <1>1 DEF Remembered, Known, Held
<1>6. Uncounted' = Uncounted
  BY DEF Uncounted
<1>7. CountInv'
  BY <1>1, <1>6 DEF CountInv, Uncounted
<1> QED
  BY <1>2, <1>3, <1>4, <1>5, <1>7

LEMMA QuietKeeps ==
  ASSUME PickupInv,
         \/ \E m \in Messages : Decide(m) \/ WriteNot(m) \/ Lapses(m)
         \/ Pause \/ ActFails \/ AgainComes
  PROVE  PickupInv'
<1> USE DEF PickupInv
<1>1. /\ UNCHANGED <<where, place, given, picker, cursor, taken, pending, held, missed>>
      /\ paused' = paused \/ paused'
  BY DEF Decide, WriteNot, Lapses, Pause, ActFails, AgainComes
<1>2. /\ claimed' \subseteq claimed /\ acts' \in 0 .. MaxActs
      /\ kept' \in BOOLEAN /\ paused' \in BOOLEAN /\ waits' \in BOOLEAN
  <2>1. claimed' \subseteq claimed
    BY DEF Decide, WriteNot, Lapses, Pause, ActFails, AgainComes
  <2>2. acts' = acts \/ (acts < MaxActs /\ acts' = acts + 1)
    BY DEF Decide, WriteNot, Lapses, Pause, ActFails, AgainComes, Acts
  <2>3. acts' \in 0 .. MaxActs
    BY <2>2 DEF TypeOK
  <2>4. /\ kept' = kept \/ kept' = TRUE \/ kept' = ~paused
        /\ paused' = paused \/ paused' = TRUE
        /\ waits' = waits \/ waits' = FALSE
    BY DEF Decide, WriteNot, Lapses, Pause, ActFails, AgainComes
  <2>5. kept \in BOOLEAN /\ paused \in BOOLEAN /\ waits \in BOOLEAN
    BY DEF TypeOK
  <2> QED
    BY <2>1, <2>3, <2>4, <2>5
<1>3. /\ work' \in [Messages -> {"none", "holds", "departs", "written", "done"}]
      /\ \A m \in Messages :
           /\ work'[m] = work[m] \/ {work[m], work'[m]} \subseteq {"none", "holds", "departs"}
           /\ work'[m] \in {"holds", "departs"} => where[m] \in {"unborn", "dead"}
  <2>1. CASE UNCHANGED work
    BY <2>1 DEF TypeOK, WorkInv
  <2>2. ASSUME NEW m \in Messages, Decide(m) \/ WriteNot(m)
        PROVE  /\ work' \in [Messages -> {"none", "holds", "departs", "written", "done"}]
               /\ \A o \in Messages :
                    /\ work'[o] = work[o] \/ {work[o], work'[o]} \subseteq {"none", "holds", "departs"}
                    /\ work'[o] \in {"holds", "departs"} => where[o] \in {"unborn", "dead"}
    <3>1. PICK to \in {"none", "holds", "departs"} : work' = [work EXCEPT ![m] = to]
      BY <2>2 DEF Decide, WriteNot, Works
    <3>2. work[m] \in {"none", "holds", "departs"} /\ where[m] \in {"unborn", "dead"}
      BY <2>2 DEF Decide, WriteNot, WorkInv
    <3> QED
      BY <3>1, <3>2 DEF TypeOK, WorkInv
  <2> QED
    BY <2>1, <2>2 DEF Lapses, Pause, ActFails, AgainComes
<1>4. TypeOK'
  BY <1>1, <1>2, <1>3 DEF TypeOK
<1> QED
  BY <1>1, <1>3, <1>4, OtherKeeps

----------------------------------------------------------------------------
(* What Publications write.                                                *)

\* One more at the end of the queue: after all there is and all that is read.
LEMMA HoldsKeeps ==
  ASSUME PickupInv, NEW m \in Messages, work[m] = "holds", Written(m),
         NEW to \in {"written", "done"}, work' = [work EXCEPT ![m] = to],
         UNCHANGED <<kept, claimed, entryVars, picker, acts>>,
         missed' \subseteq Reasons,
         missed \subseteq missed', to = "done" => missed' \cap {"answer", "work"} # {}
  PROVE  PickupInv'
<1> USE DEF PickupInv
<1>1. /\ where' = [where EXCEPT ![m] = "held"] /\ given' = given + 1
      /\ place' = [place EXCEPT ![m] = given + 1]
  BY DEF Written
<1>2. TypeOK'
  <2>1. given \in Nat /\ given' \in Nat /\ 0 .. given \subseteq 0 .. given'
        /\ 1 .. given \subseteq 1 .. given' /\ given + 1 \in 0 .. given'
        /\ 0 .. given + 1 \subseteq 0 .. given' + 1
    BY <1>1 DEF TypeOK
  <2>2. place' \in [Messages -> 0 .. given']
    BY <1>1, <2>1 DEF TypeOK
  <2>3. cursor' \in 0 .. given' + 1 /\ taken' \subseteq 1 .. given'
    BY <2>1 DEF TypeOK
  <2>4. /\ where' \in [Messages -> {"unborn", "dead", "held", "out"}]
        /\ work' \in [Messages -> {"none", "holds", "departs", "written", "done"}]
    BY <1>1 DEF TypeOK
  <2> QED
    BY <2>1, <2>2, <2>3, <2>4 DEF TypeOK
<1>3. where[m] \in {"unborn", "dead"} /\ place[m] = 0
  BY DEF WorkInv
<1>4. /\ \A o \in Messages : place[o] \in Nat /\ place[o] <= given
      /\ given \in Nat /\ cursor \in Nat /\ cursor <= given + 1
  BY DEF TypeOK
<1>5. /\ where'[m] = "held" /\ place'[m] = given + 1 /\ work'[m] = to
      /\ \A o \in Messages \ {m} : where'[o] = where[o] /\ place'[o] = place[o] /\ work'[o] = work[o]
  BY <1>1 DEF TypeOK
<1>6. m \notin Held /\ Held' = Held \cup {m} /\ m \notin picker.batch
  <2>1. m \notin picker.batch
    BY <1>3 DEF BatchInv
  <2> QED
    BY <1>3, <1>5, <2>1 DEF Held
<1>7. WorkInv'
  <2>1. ASSUME NEW o \in Messages \ {m}, place'[o] = place'[m] PROVE FALSE
    BY <1>4, <1>5, <2>1
  <2> QED
    BY <1>4, <1>5, <2>1 DEF WorkInv
<1>8. \A o \in picker.batch : o \in Messages \ {m}
  BY <1>6, PickerIs DEF Pickers
<1>9. ASSUME NEW o \in picker.batch
      PROVE  First(o)' = First(o) /\ where'[o] = where[o] /\ place'[o] = place[o] /\ place[o] <= given
  BY <1>4, <1>5, <1>8 DEF First
<1>10. BatchInv'
  <2>1. {place'[o] : o \in picker.batch} = {place[o] : o \in picker.batch}
    BY <1>9
  <2> QED
    BY <1>9, <2>1 DEF BatchInv
<1>11. OrderInv'
  <2>1. \A o \in Held : o \in Messages \ {m} /\ place'[o] = place[o]
    BY <1>5, <1>6 DEF Held
  <2>2. \A o \in picker.batch : place[o] < place'[m]
    BY <1>4, <1>5, <1>8, <1>9
  <2>3. ~(place'[m] < cursor')
    BY <1>4, <1>5
  <2> QED
    BY <1>6, <1>9, <2>1, <2>2, <2>3 DEF OrderInv
<1>12. Remembered'
  <2> SUFFICES ASSUME ~paused', missed' = {}, NEW o \in Held' \ Broken PROVE Known(o)'
    BY DEF Remembered
  <2>1. to = "written" /\ missed = {}
    OBVIOUS
  <2>2. CASE o = m
    BY <1>5, <2>1, <2>2 DEF Known
  <2>3. CASE o # m
    BY <1>5, <1>6, <2>1, <2>3 DEF Remembered, Known, Held
  <2> QED
    BY <2>2, <2>3
<1>13. CountInv'
  <2> SUFFICES ASSUME missed' \cap {"answer", "work"} = {} PROVE CountInv'
    BY DEF CountInv
  <2>1. to = "written" /\ missed \cap {"answer", "work"} = {}
    OBVIOUS
  <2>2. Uncounted' = Uncounted \cup {m} /\ m \notin Uncounted
    BY <1>5, <2>1 DEF Uncounted
  <2>3. /\ IsFiniteSet(Held) /\ IsFiniteSet(Uncounted)
        /\ Cardinality(Held) \in Nat /\ Cardinality(Uncounted) \in Nat
    BY HeldFinite DEF Held, Uncounted
  <2>4. Cardinality(Held') = Cardinality(Held) + 1 /\ Cardinality(Uncounted') = Cardinality(Uncounted) + 1
    BY <1>6, <2>2, <2>3, FS_AddElement
  <2>5. held \in Nat /\ held' = held
    BY DEF TypeOK
  <2> QED
    BY <2>1, <2>3, <2>4, <2>5 DEF CountInv, Uncounted
<1> QED
  BY <1>2, <1>7, <1>10, <1>11, <1>12, <1>13

\* One written to its Send Port's queue is none of the Subscription's.
LEMMA DepartsKeeps ==
  ASSUME PickupInv, NEW m \in Messages, work[m] = "departs", Written(m),
         work' = [work EXCEPT ![m] = "done"],
         UNCHANGED <<kept, claimed, entryVars, picker, acts, missed>>
  PROVE  PickupInv'
<1> USE DEF PickupInv
<1>1. where' = [where EXCEPT ![m] = "out"] /\ UNCHANGED <<place, given>>
  BY DEF Written
<1>2. TypeOK'
  BY <1>1 DEF TypeOK
<1>3. where[m] \in {"unborn", "dead"} /\ place[m] = 0 /\ m \notin picker.batch
  BY DEF WorkInv, BatchInv
<1>4. /\ where'[m] = "out" /\ work'[m] = "done"
      /\ \A o \in Messages \ {m} : where'[o] = where[o] /\ work'[o] = work[o]
  BY <1>1 DEF TypeOK
<1>5. Held' = Held /\ \A o \in Messages : First(o)' = First(o)
  BY <1>1, <1>3, <1>4 DEF Held, First
<1>6. WorkInv'
  BY <1>1, <1>3, <1>4 DEF WorkInv
<1>7. \A o \in picker.batch : where'[o] = where[o] /\ o \in Messages
  BY <1>3, <1>4, PickerIs DEF Pickers
<1>8. BatchInv'
  BY <1>1, <1>5, <1>7 DEF BatchInv
<1>9. OrderInv'
  BY <1>1, <1>5 DEF OrderInv
<1>10. Remembered'
  BY <1>1, <1>3, <1>4, <1>5 DEF Remembered, Known, Held
<1>11. Uncounted' = Uncounted
  BY <1>4 DEF Uncounted
<1>12. CountInv'
  BY <1>5, <1>11 DEF CountInv, Uncounted
<1> QED
  BY <1>2, <1>6, <1>8, <1>9, <1>10, <1>12

LEMMA WriteKeeps ==
  ASSUME PickupInv, NEW m \in Messages, Write(m) \/ WriteByWork(m) \/ WriteUnanswered(m)
  PROVE  PickupInv'
<1>1. /\ work[m] \in {"holds", "departs"} /\ Written(m)
      /\ UNCHANGED <<kept, claimed, entryVars, picker, acts>>
  BY DEF Write, WriteByWork, WriteUnanswered
<1>2. CASE work[m] = "departs"
  <2>1. work' = [work EXCEPT ![m] = "done"] /\ missed' = missed
    BY <1>2 DEF Write, WriteByWork, WriteUnanswered, Works
  <2> QED
    BY <1>1, <1>2, <2>1, DepartsKeeps
<1>3. CASE work[m] = "holds"
  <2>1. /\ missed \subseteq missed' /\ missed' \subseteq missed \cup {"answer", "work"}
        /\ \/ work' = [work EXCEPT ![m] = "written"]
           \/ work' = [work EXCEPT ![m] = "done"] /\ missed' \cap {"answer", "work"} # {}
    BY <1>3 DEF Write, WriteByWork, WriteUnanswered, Works
  <2>2. missed' \subseteq Reasons
    BY <2>1 DEF PickupInv, TypeOK, Reasons
  <2>3. PICK to \in {"written", "done"} :
          /\ work' = [work EXCEPT ![m] = to]
          /\ to = "done" => missed' \cap {"answer", "work"} # {}
    BY <2>1
  <2> QED
    BY <1>1, <1>3, <2>1, <2>2, <2>3, HoldsKeeps
<1> QED
  BY <1>1, <1>2, <1>3

\* Counted, an active Subscription's queue is to be read.
LEMMA CountKeeps ==
  ASSUME PickupInv, NEW m \in Messages, Count(m)
  PROVE  PickupInv'
<1> USE DEF PickupInv
<1>1. /\ work[m] = "written" /\ held' = held + 1 /\ pending' = (pending \/ ~paused)
      /\ work' = [work EXCEPT ![m] = "done"]
      /\ UNCHANGED <<ledgerVars, paused, cursor, taken, waits, picker, acts, missed>>
  BY DEF Count, Works
<1>2. held' \in Nat /\ pending' \in BOOLEAN
  <2>1. held \in Nat
    BY DEF TypeOK
  <2>2. pending' \in BOOLEAN
    BY <1>1
  <2> QED
    BY <1>1, <2>1, <2>2
<1>3. /\ work' \in [Messages -> {"none", "holds", "departs", "written", "done"}]
      /\ work'[m] = "done" /\ \A o \in Messages \ {m} : work'[o] = work[o]
  BY <1>1 DEF TypeOK
<1>4. TypeOK'
  BY <1>1, <1>2, <1>3 DEF TypeOK
<1>5. Held' = Held /\ \A o \in Messages : First(o)' = First(o)
  BY <1>1 DEF Held, First
<1>6. WorkInv'
  BY <1>1, <1>3 DEF WorkInv
<1>7. pending => pending'
  BY <1>1
<1>8. \A o \in picker.batch : o \in Messages
  BY PickerIs DEF Pickers
<1>9. BatchInv'
  BY <1>1, <1>5, <1>7, <1>8 DEF BatchInv
<1>10. OrderInv'
  BY <1>1, <1>5 DEF OrderInv
<1>11. Remembered'
  <2> SUFFICES ASSUME ~paused', missed' = {}, NEW o \in Held' \ Broken PROVE Known(o)'
    BY DEF Remembered
  <2>1. o \in Held \ Broken /\ Known(o) /\ ~paused /\ o \in Messages
    BY <1>1, <1>5 DEF Remembered, Held
  <2>2. CASE o = m
    <3>1. pending'
      BY <1>1, <2>1
    <3>2. place[o] < cursor => o \in picker.batch
      BY <2>1 DEF OrderInv
    <3>3. cursor \in Int /\ place[o] \in Int
      BY <2>1 DEF TypeOK
    <3> QED
      BY <1>1, <3>1, <3>2, <3>3 DEF Known
  <2>3. CASE o # m
    BY <1>1, <1>3, <1>7, <2>1, <2>3 DEF Known
  <2> QED
    BY <2>2, <2>3
<1>12. CountInv'
  <2>1. m \in Uncounted /\ Uncounted' = Uncounted \ {m}
    BY <1>1, <1>3 DEF Uncounted
  <2>2. IsFiniteSet(Uncounted) /\ Cardinality(Uncounted) \in Nat /\ Cardinality(Held) \in Nat
    BY HeldFinite DEF Uncounted, Held
  <2>3. Cardinality(Uncounted') = Cardinality(Uncounted) - 1
    BY <2>1, <2>2, FS_RemoveElement
  <2>4. held \in Nat
    BY DEF TypeOK
  <2> QED
    BY <1>1, <1>5, <2>2, <2>3, <2>4 DEF CountInv, Uncounted
<1> QED
  BY <1>4, <1>6, <1>9, <1>10, <1>11, <1>12

----------------------------------------------------------------------------
(* An operator's resuming, and the node's start.                           *)

LEMMA ResumeKeeps ==
  ASSUME PickupInv, Resume
  PROVE  PickupInv'
<1> USE DEF PickupInv
<1>1. /\ acts < MaxActs /\ acts' = acts + 1
      /\ kept' = FALSE /\ paused' = FALSE /\ cursor' = 0 /\ pending' = TRUE
      /\ UNCHANGED <<where, place, given, claimed, held, taken, waits, work, picker, missed>>
  BY DEF Resume, Acts
<1>2. acts' \in 0 .. MaxActs /\ cursor' \in 0 .. given + 1
  BY <1>1 DEF TypeOK
<1>3. kept' \in BOOLEAN /\ paused' \in BOOLEAN /\ pending' \in BOOLEAN
  BY <1>1
<1>4. TypeOK'
  BY <1>1, <1>2, <1>3 DEF TypeOK
<1>5. Held' = Held /\ \A o \in Messages : First(o)' = First(o)
  BY <1>1 DEF Held, First
<1>6. \A o \in Messages : place[o] \in Nat
  BY DEF TypeOK
<1>7. \A o \in picker.batch : o \in Messages
  BY PickerIs DEF Pickers
<1>8. WorkInv'
  BY <1>1 DEF WorkInv
<1>9. picker.from \in Nat
  BY PickerIs DEF Pickers
<1>10. BatchInv'
  BY <1>1, <1>5, <1>7, <1>9 DEF BatchInv
<1>11. OrderInv'
  BY <1>1, <1>5, <1>6 DEF OrderInv, Held
<1>12. Remembered'
  BY <1>1, <1>5, <1>6 DEF Remembered, Known, Held
<1>13. CountInv'
  BY <1>1, <1>5 DEF CountInv
<1> QED
  BY <1>4, <1>8, <1>10, <1>11, <1>12, <1>13

LEMMA RestartKeeps ==
  ASSUME PickupInv, Restart
  PROVE  PickupInv'
<1> USE DEF PickupInv
<1>1. /\ acts < MaxActs /\ acts' = acts + 1
      /\ paused' = kept /\ held' = Cardinality(Held) /\ cursor' = 0 /\ taken' = {} /\ waits' = FALSE
      /\ pending' = (Held # {}) /\ picker' = Idle /\ missed' = {}
      /\ UNCHANGED <<where, place, given, kept, claimed>>
  BY DEF Restart, Open
<1>2. /\ work' \in [Messages -> {"none", "done"}]
      /\ \A m \in Messages : work'[m] = IF work[m] \in {"written", "done"} THEN "done" ELSE "none"
  BY DEF Restart
<1>3. acts' \in 0 .. MaxActs /\ cursor' \in 0 .. given + 1 /\ held' \in Nat
  <2>1. Cardinality(Held) \in Nat
    BY HeldFinite DEF Held
  <2> QED
    BY <1>1, <2>1 DEF TypeOK
<1>4. paused' \in BOOLEAN /\ waits' \in BOOLEAN /\ pending' \in BOOLEAN
  <2>1. kept \in BOOLEAN
    BY DEF TypeOK
  <2> QED
    BY <1>1, <2>1
<1>5. TypeOK'
  BY <1>1, <1>2, <1>3, <1>4, IdleIs DEF TypeOK, Pickers, Stages
<1>6. Held' = Held
  BY <1>1 DEF Held
<1>7. WorkInv'
  BY <1>1, <1>2 DEF WorkInv
<1>8. BatchInv'
  BY <1>1, IdleIs DEF BatchInv, Picking
<1>9. \A o \in Held : place[o] \in Nat
  BY DEF TypeOK, Held
<1>10. OrderInv'
  BY <1>1, <1>6, <1>9, IdleIs DEF OrderInv, Picking
<1>11. Remembered'
  <2> SUFFICES ASSUME NEW o \in Held' PROVE Known(o)'
    BY DEF Remembered
  <2>1. pending'
    BY <1>1, <1>6
  <2>2. cursor' <= place'[o]
    BY <1>1, <1>6, <1>9
  <2> QED
    BY <2>1, <2>2 DEF Known
<1>12. CountInv'
  <2>1. Uncounted' = {}
    BY <1>2 DEF Uncounted
  <2>2. Cardinality(Uncounted') = 0 /\ Cardinality(Held) \in Nat
    BY <2>1, FS_EmptySet, HeldFinite DEF Held
  <2> QED
    BY <1>1, <1>6, <2>2, IdleIs DEF CountInv, Uncounted
<1> QED
  BY <1>5, <1>7, <1>8, <1>10, <1>11, <1>12

----------------------------------------------------------------------------
(* The queue read.                                                         *)

LEMMA AsksKeeps ==
  ASSUME PickupInv, Asks
  PROVE  PickupInv'
<1> USE DEF PickupInv
<1>1. /\ picker.stage = "idle" /\ pending /\ ~paused
      /\ picker' = [Idle EXCEPT !.stage = "asked", !.from = cursor]
      /\ UNCHANGED <<ledgerVars, entryVars, work, acts, missed>>
  BY DEF Asks, Ready
<1>2. cursor \in Nat
  BY DEF TypeOK
<1>3. /\ picker' \in Pickers /\ picker'.stage = "asked" /\ picker'.from = cursor
      /\ picker'.batch = {} /\ picker'.stalled = FALSE
  BY <1>1, <1>2 DEF Idle, Pickers, Stages
<1>4. TypeOK'
  BY <1>1, <1>3 DEF TypeOK, Pickers, Stages
<1>5. Held' = Held /\ picker.batch = {}
  BY <1>1 DEF Held, BatchInv
<1>6. WorkInv'
  BY <1>1 DEF WorkInv
<1>7. BatchInv'
  BY <1>1, <1>2, <1>3, <1>5 DEF BatchInv, Picking
<1>8. OrderInv'
  BY <1>1, <1>3, <1>5 DEF OrderInv, Picking
<1>9. Remembered'
  BY <1>1, <1>3, <1>5 DEF Remembered, Known
<1>10. CountInv'
  BY <1>1, <1>3, <1>5 DEF CountInv
<1> QED
  BY <1>4, <1>6, <1>7, <1>8, <1>9, <1>10

LEMMA ReadsKeeps ==
  ASSUME PickupInv, Reads
  PROVE  PickupInv'
<1> USE DEF PickupInv
<1>1. PICK batch \in SUBSET Held :
        /\ Page(picker.from, batch)
        /\ picker' = [picker EXCEPT !.stage = "read", !.batch = batch]
  BY DEF Reads
<1>2. picker.stage = "asked" /\ UNCHANGED <<ledgerVars, entryVars, work, acts, missed>>
  BY DEF Reads
<1>3. batch \in SUBSET Messages /\ \A m \in batch : where[m] = "held" /\ m \in Messages
  BY DEF Held
<1>4. /\ picker' \in Pickers /\ picker'.stage = "read" /\ picker'.from = picker.from
      /\ picker'.batch = batch /\ picker'.stalled = picker.stalled
  BY <1>1, <1>3, PickerIs DEF Pickers, Stages
<1>5. TypeOK'
  BY <1>2, <1>4 DEF TypeOK, Pickers, Stages
<1>6. Held' = Held
  BY <1>2 DEF Held
<1>7. /\ \A m \in batch : place[m] >= picker.from
      /\ \A o \in Held \ batch : place[o] >= picker.from => \A m \in batch : place[m] < place[o]
  BY <1>1 DEF Page
<1>8. WorkInv'
  BY <1>2 DEF WorkInv
<1>9. BatchInv'
  BY <1>2, <1>3, <1>4, <1>7 DEF BatchInv, Picking, WorkInv
<1>10. OrderInv'
  BY <1>2, <1>4, <1>6, <1>7 DEF OrderInv, Picking
<1>11. Remembered'
  BY <1>2, <1>4, <1>6 DEF Remembered, Known, BatchInv
<1>12. CountInv'
  BY <1>2, <1>4, <1>6 DEF CountInv
<1> QED
  BY <1>5, <1>8, <1>9, <1>10, <1>11, <1>12

\* What was asked or read is let go of: the queue is to be read as before.
LEMMA GivenUpKeeps ==
  ASSUME PickupInv, picker.stage \in {"asked", "read"}, picker' = Idle, waits' \in BOOLEAN,
         UNCHANGED <<ledgerVars, paused, held, cursor, taken, pending, work, acts, missed>>
  PROVE  PickupInv'
<1> USE DEF PickupInv
<1>1. TypeOK'
  BY IdleIs DEF TypeOK, Pickers, Stages
<1>2. Held' = Held
  BY DEF Held
<1>3. WorkInv'
  BY DEF WorkInv
<1>4. BatchInv'
  BY IdleIs DEF BatchInv, Picking
<1>5. OrderInv'
  BY <1>2, IdleIs DEF OrderInv, Picking
<1>6. ASSUME NEW m \in picker.batch PROVE pending /\ cursor <= place[m]
  <2>1. picker.stage = "read" /\ place[m] >= picker.from /\ pending /\ cursor <= picker.from
    BY DEF BatchInv
  <2>2. cursor \in Int /\ picker.from \in Int /\ place[m] \in Int
    BY PickerIs DEF TypeOK, Pickers
  <2> QED
    BY <2>1, <2>2
<1>7. Remembered'
  BY <1>2, <1>6 DEF Remembered, Known
<1>8. CountInv'
  BY <1>2, IdleIs DEF CountInv
<1> QED
  BY <1>1, <1>3, <1>4, <1>5, <1>7, <1>8

LEMMA ReadsNotKeeps ==
  ASSUME PickupInv, ReadsNot
  PROVE  PickupInv'
<1>1. waits' \in BOOLEAN
  BY DEF ReadsNot
<1> QED
  BY <1>1, GivenUpKeeps DEF ReadsNot

LEMMA AppliesKeeps ==
  ASSUME PickupInv, Applies
  PROVE  PickupInv'
<1>1. CASE Stale
  <2>1. /\ picker' = Idle /\ picker.stage = "read"
        /\ UNCHANGED <<ledgerVars, paused, held, cursor, taken, pending, waits, work, acts, missed>>
    BY <1>1 DEF Applies
  <2>2. waits' \in BOOLEAN
    BY <2>1 DEF PickupInv, TypeOK
  <2> QED
    BY <2>1, <2>2, GivenUpKeeps
<1>2. CASE ~Stale
  <2> USE DEF PickupInv
  <2> DEFINE batch == picker.batch
  <2>1. picker.stage = "read" /\ taken = {} /\ cursor = picker.from /\ pending
    BY <1>2 DEF Applies, BatchInv, Picking, Stale
  <2>2. {m \in batch : Takes(m)} = batch
    BY <2>1 DEF Takes
  <2>3. /\ waits' = FALSE /\ Beyond(batch) /\ taken' = {place[m] : m \in batch}
        /\ pending' = (pending /\ Cardinality(batch) = Most)
        /\ missed' = missed \cup {r \in {"read"} : ~pending' /\ Since(batch)}
        /\ picker' = IF batch = {} THEN Idle
                     ELSE [Idle EXCEPT !.stage = "next", !.batch = batch]
        /\ UNCHANGED <<ledgerVars, paused, held, work, acts>>
    BY <1>2, <2>1, <2>2 DEF Applies
  <2>4. batch \in SUBSET Messages
    BY PickerIs DEF Pickers
  <2>5. /\ picker' \in Pickers /\ picker'.batch = batch /\ picker'.stalled = FALSE
        /\ picker'.stage = IF batch = {} THEN "idle" ELSE "next"
    BY <2>3, <2>4 DEF Idle, Pickers, Stages
  <2>6. \A m \in batch : m \in Messages /\ where[m] = "held" /\ place[m] # 0
    BY <2>1, <2>4 DEF BatchInv
  <2>7. /\ \A m \in Messages : place[m] \in Nat /\ place[m] <= given
        /\ given \in Nat /\ cursor \in Nat /\ cursor \in 0 .. given + 1
    BY DEF TypeOK
  <2>8. /\ cursor' \in 0 .. given + 1
        /\ batch = {} => cursor' = cursor
        /\ \A m \in batch : place[m] < cursor'
        /\ \A o \in Messages : (\A m \in batch : place[m] < place[o]) /\ cursor <= place[o] => cursor' <= place[o]
    <3>1. CASE batch = {}
      BY <2>3, <2>7, <3>1 DEF Beyond
    <3>2. CASE batch # {}
      <4>1. PICK l \in batch : (\A o \in batch : place[o] <= place[l]) /\ cursor' = place[l] + 1
        BY <2>3, <3>2 DEF Beyond
      <4> QED
        BY <2>6, <2>7, <3>2, <4>1
    <3> QED
      BY <3>1, <3>2
  <2>9. taken' \subseteq 1 .. given
    BY <2>3, <2>6, <2>7
  <2>10. missed' \subseteq Reasons /\ missed \subseteq missed'
         /\ missed' \cap {"answer", "work"} = missed \cap {"answer", "work"}
    BY <2>3 DEF TypeOK, Reasons
  <2>11. pending' \in BOOLEAN /\ waits' \in BOOLEAN
    BY <2>3
  <2>12. TypeOK'
    BY <2>3, <2>5, <2>8, <2>9, <2>10, <2>11 DEF TypeOK, Pickers, Stages
  <2>13. Held' = Held
    BY <2>3 DEF Held
  <2>14. WorkInv'
    BY <2>3 DEF WorkInv
  <2>15. BatchInv'
    <3>1. picker'.stage \in {"idle", "next"} /\ (picker'.stage = "idle" <=> batch = {})
      BY <2>5
    <3>2. taken' = IF picker'.stage \in Picking THEN {place'[m] : m \in picker'.batch} ELSE {}
      BY <2>3, <2>5 DEF Picking
    <3> QED
      BY <2>3, <2>5, <2>6, <3>1, <3>2 DEF BatchInv
  <2>16. \A o \in Held \ batch : place[o] >= cursor => \A m \in batch : place[m] < place[o]
    BY <2>1 DEF OrderInv
  <2>17. \A o \in Held \ Broken : place[o] >= cursor
    BY <2>1, <2>7 DEF OrderInv, Picking, Held
  <2>18. OrderInv'
    <3>1. ASSUME NEW o \in (Held \ Broken) \ batch PROVE cursor' <= place[o]
      BY <2>7, <2>8, <2>16, <2>17 DEF Held
    <3>2. ASSUME NEW o \in Held \ Broken, place[o] < cursor' PROVE picker'.stage \in Picking /\ o \in batch
      <4>1. o \in batch
        BY <2>7, <2>8, <3>1, <3>2 DEF Held
      <4> QED
        BY <2>5, <4>1 DEF Picking
    <3> QED
      BY <2>3, <2>5, <2>13, <2>16, <2>17, <3>2 DEF OrderInv
  <2>19. Remembered'
    <3> SUFFICES ASSUME missed' = {}, NEW o \in Held' \ Broken PROVE Known(o)'
      BY DEF Remembered
    <3>1. o \in Held \ Broken /\ o \in Messages /\ place[o] >= cursor /\ work[o] \in {"written", "done"}
      BY <2>13, <2>17 DEF Held, WorkInv
    <3>2. CASE o \in batch
      BY <2>5, <3>2 DEF Known
    <3>3. CASE work[o] = "written"
      BY <2>3, <3>3 DEF Known
    <3>4. CASE o \notin batch /\ work[o] = "done"
      <4>1. Since(batch)
        BY <3>1, <3>4 DEF Since
      <4>2. pending'
        BY <2>3, <4>1
      <4>3. cursor' <= place[o]
        BY <2>8, <2>16, <3>1, <3>4, <2>7
      <4> QED
        BY <2>3, <4>2, <4>3 DEF Known
    <3> QED
      BY <3>1, <3>2, <3>3, <3>4
  <2>20. CountInv'
    BY <2>1, <2>3, <2>5, <2>10, <2>13 DEF CountInv
  <2> QED
    BY <2>12, <2>14, <2>15, <2>18, <2>19, <2>20
<1> QED
  BY <1>1, <1>2

----------------------------------------------------------------------------
(* The pick-up of one.                                                     *)

LEMMA FirstOne ==
  ASSUME PickupInv, NEW m \in Messages, NEW o \in Messages, First(m), First(o)
  PROVE  m = o
<1>1. /\ place[m] \in Int /\ place[o] \in Int /\ place[m] <= place[o] /\ place[o] <= place[m]
      /\ place[m] # 0
  BY DEF PickupInv, TypeOK, First, BatchInv
<1>2. place[m] = place[o]
  BY <1>1
<1> QED
  BY <1>1, <1>2 DEF PickupInv, WorkInv

\* What becomes of the pick-up once it is through with one.
LEMMA NextOneIs ==
  ASSUME TypeOK, NEW m \in Messages, NEW st \in BOOLEAN, NextOne(m, st), First(m)
  PROVE  /\ picker' \in Pickers /\ picker'.batch = picker.batch \ {m}
         /\ picker'.stage = IF picker.batch = {m} THEN "idle" ELSE "next"
         /\ picker'.stalled = (st /\ picker.batch # {m})
         /\ picker'.stage = "idle" <=> picker.batch \ {m} = {}
<1> DEFINE rest == picker.batch \ {m}
<1>1. rest \in SUBSET Messages /\ m \in picker.batch
  BY PickerIs DEF Pickers, First
<1>2. picker.batch = {m} <=> rest = {}
  BY <1>1
<1>3. CASE picker.batch = {m}
  BY <1>2, <1>3, IdleIs DEF NextOne
<1>4. CASE picker.batch # {m}
  <2>1. picker' = [Idle EXCEPT !.stage = "next", !.batch = rest, !.stalled = st]
    BY <1>4 DEF NextOne
  <2> HIDE DEF rest
  <2>2. /\ picker' \in Pickers /\ picker'.batch = rest /\ picker'.stage = "next"
        /\ picker'.stalled = st
    BY <1>1, <2>1 DEF Idle, Pickers, Stages
  <2> QED
    BY <1>2, <1>4, <2>2 DEF rest
<1> QED
  BY <1>3, <1>4

\* One leaves the batch: to be read again from its place, with all after it;
\* or moved, or passed over, and the next goes on.
LEMMA LeavesKeeps ==
  ASSUME PickupInv, NEW m \in Messages, NEW st \in BOOLEAN,
         picker.stage \in Picking, First(m), NextOne(m, st),
         taken' = taken \ {place[m]}, UNCHANGED <<place, given, paused, work>>,
         where' = where \/ where' = [where EXCEPT ![m] = "out"],
         \/ /\ st /\ pending'
            /\ cursor' = IF place[m] < cursor THEN place[m] ELSE cursor
         \/ /\ ~st /\ ~picker.stalled /\ UNCHANGED <<pending, cursor>>
            /\ m \notin Held' \ Broken,
         missed \subseteq missed'
  PROVE  /\ picker' \in Pickers /\ cursor' \in 0 .. given + 1 /\ taken' \subseteq 1 .. given
         /\ where' \in [Messages -> {"unborn", "dead", "held", "out"}]
         /\ picker'.stage # "moved"
         /\ WorkInv' /\ BatchInv' /\ OrderInv' /\ Remembered'
<1> USE DEF PickupInv
<1> DEFINE rest == picker.batch \ {m}
<1>1. /\ picker' \in Pickers /\ picker'.batch = rest
      /\ picker'.stage \in {"idle", "next"}
      /\ picker'.stalled => st /\ rest # {}
      /\ picker'.stage = "idle" <=> rest = {}
  BY NextOneIs
<1>2. m \in picker.batch /\ picker.batch \in SUBSET Messages
  BY PickerIs DEF Pickers, First
<1>3. /\ \A o \in Messages : place[o] \in Nat /\ place[o] <= given
      /\ given \in Nat /\ cursor \in Nat /\ cursor \in 0 .. given + 1
  BY DEF TypeOK
<1>4. /\ cursor' \in 0 .. given + 1 /\ cursor' <= cursor /\ cursor' \in Nat
      /\ st => cursor' <= place[m]
  BY <1>3
<1>5. taken' \subseteq 1 .. given
  BY DEF TypeOK
<1>6. /\ where' \in [Messages -> {"unborn", "dead", "held", "out"}]
      /\ \A o \in Messages \ {m} : where'[o] = where[o]
      /\ where'[m] = where[m] \/ where'[m] = "out"
  BY DEF TypeOK
<1>7. where[m] \in {"held", "out"} /\ place[m] # 0
  BY <1>2 DEF BatchInv
<1>8. Held' \subseteq Held /\ Held \ {m} \subseteq Held'
  BY <1>6 DEF Held
<1>9. WorkInv'
  BY <1>6, <1>7 DEF WorkInv
<1>10. ASSUME NEW o \in rest PROVE where'[o] = "held" /\ place[o] # 0 /\ place[o] # place[m]
  <2>1. o \in Messages /\ o \in picker.batch /\ o # m
    BY <1>2
  <2>2. ~First(o)
    BY <2>1, FirstOne
  <2>3. where[o] = "held" /\ place[o] # 0
    BY <2>1, <2>2 DEF BatchInv
  <2>4. place[o] # place[m]
    BY <2>1, <2>3 DEF WorkInv
  <2> QED
    BY <1>6, <2>1, <2>3, <2>4
<1>11. taken = {place[o] : o \in picker.batch}
  BY DEF BatchInv
<1>12. taken' = {place[o] : o \in rest}
  BY <1>10, <1>11
<1>13. BatchInv'
  <2>1. taken' = IF picker'.stage \in Picking THEN {place'[o] : o \in picker'.batch} ELSE {}
    <3>1. CASE rest = {}
      BY <1>1, <1>12, <3>1 DEF Picking
    <3>2. CASE rest # {}
      BY <1>1, <1>12, <3>2 DEF Picking
    <3> QED
      BY <3>1, <3>2
  <2>2. picker'.stage # "next" => ~picker'.stalled
    BY <1>1
  <2> HIDE DEF rest
  <2> QED
    BY <1>1, <1>10, <2>1, <2>2 DEF BatchInv
<1>14. OrderInv'
  <2>1. ASSUME NEW o \in Held' \ Broken, place[o] < cursor'
        PROVE  picker'.stage \in Picking /\ o \in picker'.batch
    <3>1. o \in Messages /\ o \in Held \ Broken
      BY <1>8 DEF Held
    <3>2. place[o] < cursor
      BY <1>3, <1>4, <2>1, <3>1
    <3>3. o \in picker.batch
      BY <3>1, <3>2 DEF OrderInv
    <3>4. o # m
      BY <1>3, <1>4, <2>1, <3>1
    <3> QED
      BY <1>1, <3>3, <3>4 DEF Picking
  <2>2. ASSUME picker'.stage \in Picking, ~picker'.stalled,
               NEW o \in (Held' \ Broken) \ picker'.batch, NEW n \in picker'.batch
        PROVE  place[n] < place[o]
    <3>1. rest # {} /\ picker.batch # {m}
      BY <1>1, <1>2, <2>2
    <3>2. ~st
      BY <2>2, <3>1, NextOneIs
    <3>3. o # m /\ o \in (Held \ Broken) \ picker.batch /\ n \in picker.batch
      BY <1>1, <1>8, <2>2, <3>2
    <3> QED
      BY <3>2, <3>3 DEF OrderInv
  <2>3. picker'.stage # "read"
    BY <1>1
  <2> QED
    BY <2>1, <2>2, <2>3 DEF OrderInv
<1>15. Remembered'
  <2> SUFFICES ASSUME ~paused', missed' = {}, NEW o \in Held' \ Broken PROVE Known(o)'
    BY DEF Remembered
  <2>1. o \in Held \ Broken /\ o \in Messages /\ Known(o)
    BY <1>8 DEF Remembered, Held
  <2>2. CASE o = m
    BY <1>4, <2>2 DEF Known
  <2>3. CASE o # m /\ o \in picker.batch
    BY <1>1, <2>3 DEF Known
  <2>4. CASE pending /\ cursor <= place[o]
    <3>1. cursor' <= place[o]
      BY <1>3, <1>4, <2>1, <2>4
    <3>2. pending'
      BY <2>4
    <3> QED
      BY <3>1, <3>2 DEF Known
  <2>5. CASE work[o] = "written"
    BY <2>5 DEF Known
  <2> QED
    BY <2>1, <2>2, <2>3, <2>4, <2>5 DEF Known
<1> QED
  BY <1>1, <1>4, <1>5, <1>6, <1>9, <1>13, <1>14, <1>15

\* To be read again, whether it is there still or not.
LEMMA AgainKeeps ==
  ASSUME PickupInv, NEW m \in Messages, Stalled(m) \/ ClaimNot(m) \/ MoveNot(m)
  PROVE  PickupInv'
<1> USE DEF PickupInv
<1>1. /\ picker.stage \in {"next", "claimed"} /\ First(m)
      /\ Again(m) /\ UNCHANGED <<where, place, given, kept, work, acts, missed>>
      /\ claimed' \subseteq claimed \cup {m}
  BY DEF Stalled, ClaimNot, MoveNot
<1>2. /\ taken' = taken \ {place[m]} /\ pending' = TRUE /\ waits' = TRUE /\ NextOne(m, TRUE)
      /\ cursor' = IF place[m] < cursor THEN place[m] ELSE cursor
      /\ UNCHANGED <<paused, held>>
  BY <1>1 DEF Again
<1>3. /\ picker' \in Pickers /\ cursor' \in 0 .. given + 1 /\ taken' \subseteq 1 .. given
      /\ picker'.stage # "moved"
      /\ WorkInv' /\ BatchInv' /\ OrderInv' /\ Remembered'
  BY <1>1, <1>2, LeavesKeeps DEF Picking
<1>4. pending' \in BOOLEAN /\ waits' \in BOOLEAN
  BY <1>2
<1>5. TypeOK'
  BY <1>1, <1>2, <1>3, <1>4 DEF TypeOK, Pickers, Stages
<1>6. Held' = Held
  BY <1>1 DEF Held
<1>7. CountInv'
  BY <1>1, <1>2, <1>3, <1>6 DEF CountInv
<1> QED
  BY <1>3, <1>5, <1>7

LEMMA UnansweredKeeps ==
  ASSUME PickupInv, NEW m \in Messages, MoveUnanswered(m)
  PROVE  PickupInv'
<1> USE DEF PickupInv
<1>1. /\ picker.stage = "claimed" /\ First(m)
      /\ where' = [where EXCEPT ![m] = "out"] /\ claimed' \subseteq claimed
      /\ Again(m) /\ UNCHANGED <<place, given, kept, work, acts>>
      /\ missed' = missed \cup {"answer"}
  BY DEF MoveUnanswered, HandedOn
<1>2. /\ taken' = taken \ {place[m]} /\ pending' = TRUE /\ waits' = TRUE /\ NextOne(m, TRUE)
      /\ cursor' = IF place[m] < cursor THEN place[m] ELSE cursor
      /\ UNCHANGED <<paused, held>>
  BY <1>1 DEF Again
<1>3. /\ picker' \in Pickers /\ cursor' \in 0 .. given + 1 /\ taken' \subseteq 1 .. given
      /\ where' \in [Messages -> {"unborn", "dead", "held", "out"}]
      /\ WorkInv' /\ BatchInv' /\ OrderInv' /\ Remembered'
  BY <1>1, <1>2, LeavesKeeps DEF Picking
<1>4. pending' \in BOOLEAN /\ waits' \in BOOLEAN
  BY <1>2
<1>5. TypeOK'
  BY <1>1, <1>2, <1>3, <1>4 DEF TypeOK, Pickers, Stages, Reasons
<1>6. CountInv'
  BY <1>1 DEF CountInv
<1> QED
  BY <1>3, <1>5, <1>6

LEMMA PassedKeeps ==
  ASSUME PickupInv, NEW m \in Messages, Passed(m)
  PROVE  PickupInv'
<1> USE DEF PickupInv
<1>1. /\ picker.stage = "claimed" /\ First(m) /\ m \in Broken
      /\ claimed' \subseteq claimed /\ taken' = taken \ {place[m]} /\ NextOne(m, FALSE)
      /\ UNCHANGED <<where, place, given, kept, paused, held, cursor, pending, waits,
                     work, acts, missed>>
  BY DEF Passed
<1>2. ~picker.stalled
  BY <1>1 DEF BatchInv
<1>3. /\ picker' \in Pickers /\ cursor' \in 0 .. given + 1 /\ taken' \subseteq 1 .. given
      /\ picker'.stage # "moved"
      /\ WorkInv' /\ BatchInv' /\ OrderInv' /\ Remembered'
  BY <1>1, <1>2, LeavesKeeps DEF Picking
<1>4. TypeOK'
  BY <1>1, <1>3 DEF TypeOK, Pickers, Stages
<1>5. Held' = Held
  BY <1>1 DEF Held
<1>6. CountInv'
  BY <1>1, <1>3, <1>5 DEF CountInv
<1> QED
  BY <1>3, <1>4, <1>6

LEMMA MovedKeeps ==
  ASSUME PickupInv, NEW m \in Messages, Moved(m)
  PROVE  PickupInv'
<1> USE DEF PickupInv
<1>1. /\ picker.stage = "moved" /\ First(m)
      /\ taken' = taken \ {place[m]} /\ NextOne(m, FALSE)
      /\ held' = IF held = 0 THEN 0 ELSE held - 1
      /\ UNCHANGED <<where, place, given, kept, claimed, paused, cursor, pending, waits,
                     work, acts, missed>>
  BY DEF Moved
<1>2. ~picker.stalled /\ where[m] = "out"
  BY <1>1 DEF BatchInv, First
<1>3. m \notin Held' \ Broken
  BY <1>1, <1>2 DEF Held
<1>4. /\ picker' \in Pickers /\ cursor' \in 0 .. given + 1 /\ taken' \subseteq 1 .. given
      /\ picker'.stage # "moved"
      /\ WorkInv' /\ BatchInv' /\ OrderInv' /\ Remembered'
  BY <1>1, <1>2, <1>3, LeavesKeeps DEF Picking
<1>5. held \in Nat /\ held' \in Nat
  BY <1>1 DEF TypeOK
<1>6. TypeOK'
  BY <1>1, <1>4, <1>5 DEF TypeOK, Pickers, Stages
<1>7. Held' = Held
  BY <1>1 DEF Held
<1>8. CountInv'
  <2>1. Uncounted' = Uncounted /\ Cardinality(Held) \in Nat /\ Cardinality(Uncounted) \in Nat
    BY <1>1, HeldFinite DEF Uncounted, Held
  <2> QED
    BY <1>1, <1>4, <1>5, <1>7, <2>1 DEF CountInv, Uncounted
<1> QED
  BY <1>4, <1>6, <1>8

LEMMA ClaimGrantedKeeps ==
  ASSUME PickupInv, NEW m \in Messages, ClaimGranted(m)
  PROVE  PickupInv'
<1> USE DEF PickupInv
<1>1. /\ picker.stage = "next" /\ ~picker.stalled
      /\ claimed' = claimed \cup {m} /\ picker' = [picker EXCEPT !.stage = "claimed"]
      /\ UNCHANGED <<where, place, given, kept, entryVars, work, acts, missed>>
  BY DEF ClaimGranted
<1>2. /\ picker' \in Pickers /\ picker'.stage = "claimed" /\ picker'.from = picker.from
      /\ picker'.batch = picker.batch /\ picker'.stalled = picker.stalled
  BY <1>1, PickerIs DEF Pickers, Stages
<1>3. TypeOK'
  BY <1>1, <1>2 DEF TypeOK, Pickers, Stages
<1>4. Held' = Held
  BY <1>1 DEF Held
<1>5. WorkInv'
  BY <1>1 DEF WorkInv
<1>6. BatchInv'
  BY <1>1, <1>2 DEF BatchInv, Picking
<1>7. OrderInv'
  BY <1>1, <1>2, <1>4 DEF OrderInv, Picking
<1>8. Remembered'
  BY <1>1, <1>2, <1>4 DEF Remembered, Known
<1>9. CountInv'
  BY <1>1, <1>2, <1>4 DEF CountInv
<1> QED
  BY <1>3, <1>5, <1>6, <1>7, <1>8, <1>9

LEMMA MovesKeeps ==
  ASSUME PickupInv, NEW m \in Messages, Moves(m)
  PROVE  PickupInv'
<1> USE DEF PickupInv
<1>1. /\ picker.stage = "claimed" /\ First(m) /\ m \notin Broken
      /\ where' = [where EXCEPT ![m] = "out"] /\ claimed' \subseteq claimed
      /\ picker' = [picker EXCEPT !.stage = "moved"]
      /\ UNCHANGED <<place, given, kept, entryVars, work, acts, missed>>
  BY DEF Moves, HandedOn
<1>2. /\ picker' \in Pickers /\ picker'.stage = "moved" /\ picker'.from = picker.from
      /\ picker'.batch = picker.batch /\ picker'.stalled = picker.stalled
  BY <1>1, PickerIs DEF Pickers, Stages
<1>3. /\ where' \in [Messages -> {"unborn", "dead", "held", "out"}] /\ where'[m] = "out"
      /\ \A o \in Messages \ {m} : where'[o] = where[o]
  BY <1>1 DEF TypeOK
<1>4. TypeOK'
  BY <1>1, <1>2, <1>3 DEF TypeOK, Pickers, Stages
<1>5. where[m] = "held" /\ m \in picker.batch
  BY <1>1 DEF BatchInv, First
<1>6. Held' = Held \ {m} /\ m \in Held
  BY <1>3, <1>5 DEF Held
<1>7. WorkInv'
  BY <1>1, <1>3, <1>5 DEF WorkInv
<1>8. BatchInv'
  <2>1. ASSUME NEW o \in picker.batch
        PROVE  IF First(o)' THEN where'[o] = "out" ELSE where'[o] = "held"
    <3>1. o \in Messages /\ where[o] = "held"
      BY <1>1, PickerIs DEF BatchInv, Pickers
    <3>2. First(o)' <=> First(o)
      BY <1>1, <1>2 DEF First
    <3>3. First(o) <=> o = m
      BY <1>1, <3>1, FirstOne
    <3> QED
      BY <1>3, <3>1, <3>2, <3>3
  <2> QED
    BY <1>1, <1>2, <2>1 DEF BatchInv, Picking
<1>9. OrderInv'
  BY <1>1, <1>2, <1>6 DEF OrderInv, Picking
<1>10. Remembered'
  BY <1>1, <1>2, <1>6 DEF Remembered, Known
<1>11. CountInv'
  <2>1. /\ IsFiniteSet(Held) /\ Cardinality(Held) \in Nat /\ Cardinality(Held') = Cardinality(Held) - 1
        /\ Uncounted' = Uncounted
    <3>1. Held \in SUBSET Messages
      BY DEF Held
    <3>2. IsFiniteSet(Held) /\ Cardinality(Held) \in Nat
      BY <3>1, HeldFinite
    <3>3. Cardinality(Held \ {m}) = Cardinality(Held) - 1
      BY <1>6, <3>2, FS_RemoveElement
    <3>4. Uncounted' = Uncounted
      BY <1>1 DEF Uncounted
    <3> QED
      BY <1>6, <3>2, <3>3, <3>4
  <2>2. held \in Nat /\ held' = held /\ Cardinality(Uncounted) \in Nat
    BY <1>1, HeldFinite DEF TypeOK, Uncounted
  <2> QED
    BY <1>1, <1>2, <2>1, <2>2 DEF CountInv, Uncounted
<1> QED
  BY <1>4, <1>7, <1>8, <1>9, <1>10, <1>11

----------------------------------------------------------------------------
(* The specification.                                                      *)

LEMMA InitPickup == Init => PickupInv
<1> SUFFICES ASSUME Init PROVE PickupInv
  OBVIOUS
<1>1. TypeOK
  <2>1. kept \in BOOLEAN /\ paused \in BOOLEAN /\ pending \in BOOLEAN /\ waits \in BOOLEAN
    BY DEF Init
  <2> QED
    BY <2>1, IdleIs DEF Init, TypeOK, Pickers, Stages
<1>2. Held = {} /\ Uncounted = {}
  BY DEF Init, Held, Uncounted
<1>3. WorkInv
  BY DEF Init, WorkInv
<1>4. BatchInv /\ OrderInv /\ Remembered
  BY <1>2, IdleIs DEF Init, BatchInv, OrderInv, Remembered, Picking
<1>5. CountInv
  BY <1>2, FS_EmptySet, IdleIs DEF Init, CountInv, Uncounted
<1> QED
  BY <1>1, <1>3, <1>4, <1>5 DEF PickupInv

LEMMA NextPickup == PickupInv /\ [Next]_vars => PickupInv'
<1> SUFFICES ASSUME PickupInv, [Next]_vars PROVE PickupInv'
  OBVIOUS
<1>1. CASE UNCHANGED vars
  <2>1. TypeOK'
    BY <1>1 DEF PickupInv, TypeOK
  <2>2. \A m \in Messages : work'[m] \in {"holds", "departs"} => where[m] \in {"unborn", "dead"}
    BY <1>1 DEF PickupInv, WorkInv
  <2> QED
    BY <1>1, <2>1, <2>2, OtherKeeps
<1>2. ASSUME NEW m \in Messages, Publication(m) \/ Lapses(m) PROVE PickupInv'
  BY <1>2, QuietKeeps, WriteKeeps, CountKeeps DEF Publication
<1>3. ASSUME NEW m \in Messages, PickUpOne(m) PROVE PickupInv'
  BY <1>3, AgainKeeps, UnansweredKeeps, PassedKeeps, MovedKeeps, ClaimGrantedKeeps, MovesKeeps
     DEF PickUpOne
<1>4. CASE PickUp
  BY <1>3, <1>4, AsksKeeps, ReadsKeeps, ReadsNotKeeps, AppliesKeeps DEF PickUp
<1> QED
  BY <1>1, <1>2, <1>4, QuietKeeps, ResumeKeeps, RestartKeeps DEF Next

\* Every variable of a Subscription's pick-up keeps its type.
THEOREM PickupTypes == Spec => []TypeOK
<1>1. PickupInv => TypeOK
  BY DEF PickupInv
<1> QED
  BY <1>1, InitPickup, NextPickup, PTL DEF Spec

\* However pausing, resuming, reading and losing answers interleave with what is
\* published, what an active Subscription holds is known or yet to be read, and
\* counted.
THEOREM AccountedHolds == Spec => []Accounted
<1>1. PickupInv => Accounted
  <2> SUFFICES ASSUME PickupInv PROVE CountCovers
    BY DEF PickupInv, Accounted
  <2>1. Cardinality(Held) \in Nat /\ Cardinality(Uncounted) \in Nat /\ held \in Nat
    BY HeldFinite DEF Held, Uncounted, PickupInv, TypeOK
  <2> QED
    BY <2>1 DEF PickupInv, CountInv, CountCovers, Uncounted
<1> QED
  BY <1>1, InitPickup, NextPickup, PTL DEF Spec

\* The step a Message is moved on by is the pick-up's, of the first it has.
LEMMA MovedByFirst ==
  ASSUME PickupInv, [Next]_vars, NEW m \in Messages, where[m] = "held", where'[m] = "out"
  PROVE  picker.stage = "claimed" /\ First(m)
<1>1. where' # where
  OBVIOUS
<1>2. ASSUME NEW o \in Messages, Publication(o) \/ Lapses(o) PROVE FALSE
  <2>1. work[o] \in {"holds", "departs"} /\ Written(o)
    BY <1>1, <1>2 DEF Publication, Decide, Write, WriteByWork, WriteNot, WriteUnanswered, Count, Lapses
  <2>2. where[o] \in {"unborn", "dead"}
    BY <2>1 DEF PickupInv, WorkInv
  <2>3. where' = [where EXCEPT ![o] = "held"] \/ where' = [where EXCEPT ![o] = "out"]
    BY <2>1 DEF Written
  <2> QED
    BY <2>2, <2>3 DEF PickupInv, TypeOK
<1>3. ASSUME NEW o \in Messages, PickUpOne(o) PROVE picker.stage = "claimed" /\ First(m)
  <2>1. HandedOn(o)
    BY <1>1, <1>3 DEF PickUpOne, Stalled, ClaimGranted, ClaimNot, Passed, Moves, MoveUnanswered,
                      MoveNot, Moved
  <2>2. picker.stage = "claimed" /\ First(o) /\ where' = [where EXCEPT ![o] = "out"]
    BY <2>1 DEF HandedOn
  <2>3. o = m
    BY <2>2 DEF PickupInv, TypeOK
  <2> QED
    BY <2>2, <2>3
<1>4. ~UNCHANGED vars /\ ~Pause /\ ~Resume /\ ~ActFails /\ ~AgainComes /\ ~Restart
  BY <1>1 DEF Pause, Resume, ActFails, AgainComes, Restart
<1>5. ~Asks /\ ~Reads /\ ~ReadsNot /\ ~Applies
  BY <1>1 DEF Asks, Reads, ReadsNot, Applies
<1> QED
  BY <1>2, <1>3, <1>4, <1>5 DEF Next, PickUp

\* The oldest a Subscription holds is picked up first: none is moved over one
\* before it that the Ledger holds a Message to send for.
THEOREM OldestFirstHolds == Spec => OldestFirst
<1> DEFINE Step == \A m \in Messages :
                     where[m] = "held" /\ where'[m] = "out" =>
                       \A o \in Held \ Broken : place[m] <= place[o]
<1>1. ASSUME PickupInv, [Next]_vars PROVE Step
  <2> SUFFICES ASSUME NEW m \in Messages, where[m] = "held", where'[m] = "out",
                      NEW o \in Held \ Broken
               PROVE  place[m] <= place[o]
    OBVIOUS
  <2>1. picker.stage = "claimed" /\ First(m)
    BY <1>1, MovedByFirst
  <2>2. ~picker.stalled /\ place[m] \in Int /\ place[o] \in Int
    BY <1>1, <2>1 DEF PickupInv, BatchInv, TypeOK, Held
  <2>3. CASE o \in picker.batch
    BY <2>1, <2>3 DEF First
  <2>4. CASE o \notin picker.batch
    <3>1. place[m] < place[o]
      BY <1>1, <2>1, <2>2, <2>4 DEF PickupInv, OrderInv, Picking, First
    <3> QED
      BY <2>2, <3>1
  <2> QED
    BY <2>3, <2>4
<1>2. PickupInv /\ [Next]_vars => [Step]_vars
  BY <1>1
<1> QED
  BY <1>2, InitPickup, NextPickup, PTL DEF Spec, OldestFirst
===============================================================================
