---------------------------- MODULE WorkStepProofs ----------------------------
(***************************************************************************)
(* Proofs about WorkStep, for any nodes, Messages, keys and bounds: every  *)
(* Message is taken by one Instance once, a key names the one open         *)
(* Instance that holds it, and a sequence is kept.                         *)
(*                                                                         *)
(* The argument.  A turn read under a claim finds its Message in the queue *)
(* while the claim is its own (ClaimInv), and what it advanced is the      *)
(* Instance as it still is unless that has had a turn since (OverInv).  So *)
(* the write, under the claim and over the turn that was read, takes a     *)
(* Message none has taken and adds it to all that the Instance took; and   *)
(* with its keys free or its own it takes no other's.  In a sequence, what *)
(* headed its key when it was read does so until its claim ends (HeadInv), *)
(* and the places are in the queue's order (PlaceInv).                     *)
(***************************************************************************)
EXTENDS WorkStep, SequenceTheorems, TLAPS

USE DEF storageVars, vars

Types == StorageOK /\ JobsOK

\* The one write of a turn, its answer heard or lost.
Written(n, m) == InWrite(n, m) /\ Taken(n, m) /\ Writes(n, m) /\ Disowns(n, m)

----------------------------------------------------------------------------
(* What a step may do to each piece of state.                              *)

\* A turn moves on by a stage, or is given up.
JobMove(n, m) ==
  LET j == job[n][m]
      k == job'[n][m]
  IN  \/ k = j
      \/ k = NoJob
      \/ j.stage = None /\ k = Job("claimed", None)
      \/ /\ j.stage = "claimed" /\ InQueue(m) /\ Heads(m) /\ UNCHANGED storageVars
         /\ k = Job("read", None)
      \/ j.stage = "read" /\ k = Job("found", Correlated(m)) /\ UNCHANGED storageVars
      \/ /\ j.stage = "found" /\ UNCHANGED storageVars
         /\ \E mode \in Advanced(m, inst[j.of]) :
              k = [stage |-> "advanced", of |-> j.of, over |-> inst[j.of].turns, mode |-> mode,
                   fresh |-> ~Open(inst[j.of]),
                   before |-> IF Open(inst[j.of]) THEN inst[j.of].took ELSE <<>>]

\* A Journey moves when it is bound, or with the end of a claim on it.
StMove(m) ==
  \/ st'[m] = st[m]
  \/ st[m] = "unborn" /\ st'[m] = "bound"
  \/ claim'[m] = None /\ st'[m] \in {"waiting", "completed", "failed"}

\* A claim ends, or is taken by a node that has no turn of the Message.
ClaimMove(m) ==
  \/ claim'[m] = claim[m]
  \/ claim'[m] = None
  \/ /\ claim'[m] \in Nodes
     /\ job[claim'[m]][m].stage = None
     /\ job'[claim'[m]][m].stage \in {None, "claimed"}

\* A step that is no write of a turn.
Quiet ==
  /\ UNCHANGED <<inst, keyed, past>>
  /\ \A m \in Messages : \/ st'[m] = st[m]
                         \/ st[m] = "unborn" /\ st'[m] = "bound"
                         \/ st'[m] = "failed"

Moves ==
  /\ st' \in [Messages -> {"unborn", "bound", "waiting", "completed", "failed"}]
  /\ claim' \in [Messages -> Nodes \cup {None}]
  /\ job' \in [Nodes -> [Messages -> JobRecords]]
  /\ \A m \in Messages : StMove(m) /\ ClaimMove(m)
  /\ \A n \in Nodes, m \in Messages : JobMove(n, m)
  /\ Quiet \/ \E n \in Nodes, m \in Messages : Written(n, m)

LEMMA JobSet ==
  ASSUME NEW n \in Nodes, NEW m \in Messages, NEW r \in JobRecords,
         job \in [Nodes -> [Messages -> JobRecords]],
         job' = [job EXCEPT ![n][m] = r]
  PROVE  /\ job' \in [Nodes -> [Messages -> JobRecords]]
         /\ \A o \in Nodes, x \in Messages :
              job'[o][x] = IF o = n /\ x = m THEN r ELSE job[o][x]
OBVIOUS

LEMMA JobTyped ==
  ASSUME NEW stage \in {None, "claimed", "read", "found"}, NEW of \in Messages \cup {None}
  PROVE  Job(stage, of) \in JobRecords
BY DEF Job, JobRecords, Modes

LEMMA NoJobTyped == NoJob \in JobRecords
BY JobTyped DEF NoJob

USE DEF Types

\* The steps that change no turn under way.
LEMMA JobKept ==
  ASSUME Types, UNCHANGED job
  PROVE  /\ job' \in [Nodes -> [Messages -> JobRecords]]
         /\ \A n \in Nodes, m \in Messages : JobMove(n, m)
BY DEF JobsOK, JobMove

LEMMA BindMoves ==
  ASSUME Types, NEW m \in Messages, Bind(m) PROVE Moves
BY JobKept DEF StorageOK, Bind, Moves, StMove, ClaimMove, Quiet

LEMMA LapsesMoves ==
  ASSUME Types, NEW m \in Messages, Lapses(m) PROVE Moves
BY JobKept DEF StorageOK, Lapses, Moves, StMove, ClaimMove, Quiet

\* A due time, a scan, a node closed, a Message passed over.
LEMMA OthersMoves ==
  ASSUME Types, UNCHANGED <<st, claim, inst, keyed, past, job>> PROVE Moves
BY JobKept DEF StorageOK, Moves, StMove, ClaimMove, Quiet

\* A turn that ends, whatever becomes of its claim, writes nothing of the
\* Instance but as Written has it.
LEMMA DisownMoves ==
  ASSUME Types, NEW n \in Nodes, NEW m \in Messages, Disowns(n, m)
  PROVE  /\ job' \in [Nodes -> [Messages -> JobRecords]]
         /\ \A o \in Nodes, x \in Messages : JobMove(o, x)
BY JobSet, NoJobTyped DEF JobsOK, Disowns, JobMove

LEMMA ReleasesMoves ==
  ASSUME Types, NEW n \in Nodes, NEW m \in Messages, Releases(n, m),
         UNCHANGED <<st, inst, keyed, past>>
  PROVE  Moves
BY DisownMoves DEF StorageOK, Releases, Moves, StMove, ClaimMove, Quiet

LEMMA ClaimsMoves ==
  ASSUME Types, NEW n \in Nodes, NEW m \in Messages, Claims(n, m) PROVE Moves
<1> DEFINE r == Job("claimed", None)
<1>1. r \in JobRecords
  BY JobTyped
<1>2. job[n][m].stage = None /\ job' = [job EXCEPT ![n][m] = r]
  BY DEF Claims, Owned, Stage
<1>3. r.stage = "claimed"
  BY DEF Job
<1>4. /\ job' \in [Nodes -> [Messages -> JobRecords]]
      /\ \A o \in Nodes, x \in Messages :
           job'[o][x] = IF o = n /\ x = m THEN r ELSE job[o][x]
  <2> HIDE DEF r
  <2> QED
    BY <1>1, <1>2, JobSet DEF JobsOK
<1>5. \A o \in Nodes, x \in Messages : JobMove(o, x)
  BY <1>2, <1>4 DEF JobMove
<1>6. \A x \in Messages : ClaimMove(x)
  <2> HIDE DEF r
  <2> QED
    BY <1>2, <1>3, <1>4 DEF Claims, StorageOK, ClaimMove
<1> QED
  BY <1>4, <1>5, <1>6 DEF Claims, StorageOK, Moves, StMove, Quiet

LEMMA ClaimUnansweredMoves ==
  ASSUME Types, NEW n \in Nodes, NEW m \in Messages, ClaimUnanswered(n, m) PROVE Moves
<1>1. job[n][m].stage = None /\ UNCHANGED job
  BY DEF ClaimUnanswered, Owned
<1>2. \A x \in Messages : ClaimMove(x)
  BY <1>1 DEF ClaimUnanswered, StorageOK, ClaimMove
<1> QED
  BY <1>1, <1>2, JobKept DEF ClaimUnanswered, StorageOK, Moves, StMove, Quiet

LEMMA ReadsMoves ==
  ASSUME Types, NEW n \in Nodes, NEW m \in Messages, Reads(n, m) PROVE Moves
<1>1. CASE InQueue(m) /\ Heads(m)
  <2> DEFINE r == Job("read", None)
  <2>1. r \in JobRecords
    BY JobTyped
  <2>2. job[n][m].stage = "claimed" /\ job' = [job EXCEPT ![n][m] = r] /\ UNCHANGED storageVars
    BY <1>1 DEF Reads, Stage
  <2>3. /\ job' \in [Nodes -> [Messages -> JobRecords]]
        /\ \A o \in Nodes, x \in Messages :
             job'[o][x] = IF o = n /\ x = m THEN r ELSE job[o][x]
    <3> HIDE DEF r
    <3> QED
      BY <2>1, <2>2, JobSet DEF JobsOK
  <2>4. \A o \in Nodes, x \in Messages : JobMove(o, x)
    BY <1>1, <2>2, <2>3 DEF JobMove
  <2> QED
    BY <2>2, <2>3, <2>4 DEF Reads, StorageOK, Moves, StMove, ClaimMove, Quiet
<1>2. CASE ~(InQueue(m) /\ Heads(m))
  BY <1>2, ReleasesMoves DEF Reads
<1> QED
  BY <1>1, <1>2

LEMMA CorrelatedTyped ==
  ASSUME Types, NEW m \in Messages PROVE Correlated(m) \in Messages
BY DEF StorageOK, Correlated, Keys

LEMMA FindsMoves ==
  ASSUME Types, NEW n \in Nodes, NEW m \in Messages, FindsInstance(n, m) PROVE Moves
<1> DEFINE r == Job("found", Correlated(m))
<1>1. r \in JobRecords
  BY JobTyped, CorrelatedTyped
<1>2. job[n][m].stage = "read" /\ job' = [job EXCEPT ![n][m] = r] /\ UNCHANGED storageVars
  BY DEF FindsInstance
<1>3. /\ job' \in [Nodes -> [Messages -> JobRecords]]
      /\ \A o \in Nodes, x \in Messages :
           job'[o][x] = IF o = n /\ x = m THEN r ELSE job[o][x]
  <2> HIDE DEF r
  <2> QED
    BY <1>1, <1>2, JobSet DEF JobsOK
<1>4. \A o \in Nodes, x \in Messages : JobMove(o, x)
  BY <1>2, <1>3 DEF JobMove
<1> QED
  BY <1>2, <1>3, <1>4 DEF FindsInstance, StorageOK, Moves, StMove, ClaimMove, Quiet

LEMMA AdvancedTyped ==
  ASSUME NEW m, NEW record PROVE Advanced(m, record) \subseteq Modes \ {None}
BY DEF Advanced, GoesOn, Ends, Modes, None

LEMMA AdvancesMoves ==
  ASSUME Types, NEW n \in Nodes, NEW m \in Messages, Advances(n, m) PROVE Moves
<1> DEFINE i == job[n][m].of
           r(mode) == [stage |-> "advanced", of |-> i, over |-> inst[i].turns, mode |-> mode,
                       fresh |-> ~Open(inst[i]),
                       before |-> IF Open(inst[i]) THEN inst[i].took ELSE <<>>]
<1>1. job[n][m].stage = "found" /\ i \in Messages /\ inst[i] \in Instances
  BY DEF Advances, JobsOK, StorageOK
<1>2. PICK mode \in Advanced(m, inst[i]) : job' = [job EXCEPT ![n][m] = r(mode)]
  BY DEF Advances
<1>3. r(mode) \in JobRecords
  <2>1. inst[i].turns \in Nat /\ inst[i].took \in Seq(Messages)
    BY <1>1 DEF Instances
  <2>2. mode \in Modes
    BY <1>2, AdvancedTyped
  <2>3. (IF Open(inst[i]) THEN inst[i].took ELSE <<>>) \in Seq(Messages)
    BY <2>1
  <2>4. (~Open(inst[i])) \in BOOLEAN
    BY DEF Open
  <2> QED
    BY <1>1, <2>1, <2>2, <2>3, <2>4 DEF JobRecords
<1>4. /\ job' \in [Nodes -> [Messages -> JobRecords]]
      /\ \A o \in Nodes, x \in Messages :
           job'[o][x] = IF o = n /\ x = m THEN r(mode) ELSE job[o][x]
  <2> HIDE DEF r
  <2> QED
    BY <1>2, <1>3, JobSet DEF JobsOK
<1>5. \A o \in Nodes, x \in Messages : JobMove(o, x)
  <2>1. UNCHANGED storageVars
    BY DEF Advances
  <2>2. ASSUME NEW o \in Nodes, NEW x \in Messages, ~(o = n /\ x = m) PROVE JobMove(o, x)
    BY <1>4, <2>2 DEF JobMove
  <2>3. JobMove(n, m)
    BY <1>1, <1>2, <1>4, <2>1 DEF JobMove
  <2> QED
    BY <2>2, <2>3
<1> QED
  BY <1>4, <1>5 DEF Advances, StorageOK, Moves, StMove, ClaimMove, Quiet

LEMMA WrittenMoves ==
  ASSUME Types, NEW n \in Nodes, NEW m \in Messages, Written(n, m) PROVE Moves
<1>1. JourneyTo(job[n][m].mode) \in {"waiting", "completed", "failed"}
  BY DEF JourneyTo
<1>2. /\ st' \in [Messages -> {"unborn", "bound", "waiting", "completed", "failed"}]
      /\ claim' \in [Messages -> Nodes \cup {None}]
      /\ \A x \in Messages : StMove(x) /\ ClaimMove(x)
  BY <1>1 DEF Written, Writes, StorageOK, StMove, ClaimMove
<1> QED
  BY <1>2, DisownMoves DEF Written, Moves

LEMMA FailsMoves ==
  ASSUME Types, NEW n \in Nodes, NEW m \in Messages, Fails(n, m) \/ FailUnanswered(n, m) PROVE Moves
BY DisownMoves DEF Fails, FailUnanswered, WritesFailed, storageVars, StorageOK, Moves, StMove, ClaimMove, Quiet

LEMMA RestartMoves ==
  ASSUME Types, NEW n \in Nodes, Restart(n) PROVE Moves
<1>1. /\ job' \in [Nodes -> [Messages -> JobRecords]]
      /\ \A o \in Nodes, x \in Messages : JobMove(o, x)
  BY NoJobTyped DEF Restart, JobsOK, JobMove
<1> QED
  BY <1>1 DEF Restart, StorageOK, Moves, StMove, ClaimMove, Quiet

\* Every step moves the state so.
LEMMA StepMoves ==
  ASSUME Types, [Next]_vars PROVE Moves
<1>1. CASE UNCHANGED vars
  BY <1>1, OthersMoves
<1>2. ASSUME NEW m \in Messages, Bind(m) \/ DueComes(m) \/ Lapses(m) PROVE Moves
  BY <1>2, BindMoves, LapsesMoves, OthersMoves DEF DueComes
<1>3. ASSUME NEW n \in Nodes, Scan(n) \/ Close(n) \/ Restart(n) PROVE Moves
  BY <1>3, RestartMoves, OthersMoves DEF Scan, Close
<1>4. ASSUME NEW n \in Nodes, NEW m \in Messages, Turn(n, m) PROVE Moves
  <2>1. CASE PassedOver(n, m)
    BY <2>1, OthersMoves DEF PassedOver
  <2>2. CASE Refused(n, m) \/ NotTaken(n, m)
    BY <2>2, ReleasesMoves DEF Refused, NotTaken
  <2>3. CASE Done(n, m)
    BY <2>3, WrittenMoves DEF Done, Written
  <2>4. CASE Unwritten(n, m)
    <3>1. CASE Taken(n, m) /\ Writes(n, m)
      BY <2>4, <3>1, WrittenMoves DEF Unwritten, Written
    <3>2. CASE UNCHANGED <<storageVars, past>>
      BY <2>4, <3>2, DisownMoves DEF Unwritten, StorageOK, Moves, StMove, ClaimMove, Quiet
    <3> QED
      BY <2>4, <3>1, <3>2 DEF Unwritten
  <2> QED
    BY <1>4, <2>1, <2>2, <2>3, <2>4, ClaimsMoves, ClaimUnansweredMoves, ReadsMoves, FindsMoves,
       AdvancesMoves, FailsMoves DEF Turn
<1> QED
  BY <1>1, <1>2, <1>3, <1>4 DEF Next

----------------------------------------------------------------------------
(* What a turn's write finds and leaves.                                   *)

\* The turn is written over the Instance as it read it.
LEMMA WriteFinds ==
  ASSUME Types, ClaimInv, OverInv, NEW n \in Nodes, NEW m \in Messages, Written(n, m)
  PROVE  /\ job[n][m] \in JobRecords
         /\ job[n][m].of \in Messages
         /\ inst[job[n][m].of] \in Instances
         /\ job[n][m].mode \in {"message", "timer", "either", "completed", "threw"}
         /\ inst[job[n][m].of].turns = job[n][m].over
         /\ job[n][m].fresh = ~Open(inst[job[n][m].of])
         /\ job[n][m].before = IF Open(inst[job[n][m].of]) THEN inst[job[n][m].of].took ELSE <<>>
         /\ InQueue(m)
<1>1. job[n][m].stage = "advanced" /\ job[n][m].mode \notin {"refused", "unfit"}
  BY DEF Written, InWrite
<1>2. job[n][m] \in JobRecords /\ job[n][m].of \in Messages /\ job[n][m].mode # None
  BY <1>1 DEF JobsOK
<1>3. job[n][m].mode \in {"message", "timer", "either", "completed", "threw"}
  BY <1>1, <1>2 DEF JobRecords, Modes, Ends
<1>4. InQueue(m)
  BY <1>1 DEF Written, Taken, ClaimInv
<1>5. inst[job[n][m].of].turns = job[n][m].over
  BY DEF Written, Taken, UnlessMovedOn
<1> QED
  BY <1>1, <1>2, <1>3, <1>4, <1>5 DEF StorageOK, OverInv

LEMMA TookTyped ==
  ASSUME NEW n \in Nodes, NEW m \in Messages, job[n][m].before \in Seq(Messages)
  PROVE  /\ Took(n, m) \in Seq(Messages)
         /\ Range(Took(n, m)) =
              Range(job[n][m].before) \cup (IF st[m] = "bound" THEN {m} ELSE {})
<1>1. CASE st[m] = "bound"
  <2> DEFINE b == job[n][m].before
  <2>1. Took(n, m) = Append(b, m)
    BY <1>1 DEF Took
  <2> HIDE DEF b
  <2>2. b \in Seq(Messages)
    BY DEF b
  <2>3. /\ Append(b, m) \in Seq(Messages)
        /\ DOMAIN Append(b, m) = 1 .. Len(b) + 1
        /\ DOMAIN b = 1 .. Len(b) /\ Len(b) \in Nat
        /\ \A k \in 1 .. Len(b) : Append(b, m)[k] = b[k]
        /\ Append(b, m)[Len(b) + 1] = m
    BY <2>2
  <2>4. Range(Append(b, m)) = Range(b) \cup {m}
    BY <2>3 DEF Range
  <2> QED
    BY <1>1, <2>1, <2>3, <2>4 DEF b
<1>2. CASE st[m] # "bound"
  BY <1>2 DEF Took
<1> QED
  BY <1>1, <1>2

\* What it leaves: one turn more of one Instance, the others as they were.
LEMMA WriteLeaves ==
  ASSUME Types, ClaimInv, OverInv, NEW n \in Nodes, NEW m \in Messages, Written(n, m)
  PROVE  LET i == job[n][m].of IN
         /\ inst' \in [Messages -> Instances]
         /\ \A x \in Messages \ {i} : inst'[x] = inst[x]
         /\ inst'[i].turns = inst[i].turns + 1
         /\ inst'[i].took = Took(n, m)
         /\ Open(inst'[i]) = ~Finished(job[n][m].mode)
<1> DEFINE i == job[n][m].of
           mode == job[n][m].mode
           to == IF Finished(mode) THEN "ended" ELSE mode
           r == [turns |-> job[n][m].over + 1, mode |-> to, took |-> Took(n, m)]
<1>1. /\ i \in Messages /\ job[n][m].over \in Nat /\ job[n][m].before \in Seq(Messages)
      /\ mode \in {"message", "timer", "either", "completed", "threw"}
      /\ inst[i].turns = job[n][m].over
  BY WriteFinds DEF JobRecords
<1>2. to \in {"message", "timer", "either", "ended"} /\ (to # "ended") = ~Finished(mode)
  BY <1>1 DEF Finished
<1>3. r \in Instances
  BY <1>1, <1>2, TookTyped DEF Instances
<1>4. inst' = [inst EXCEPT ![i] = r]
  BY DEF Written, Writes
<1> HIDE DEF to
<1>5. r.turns = inst[i].turns + 1 /\ r.took = Took(n, m) /\ Open(r) = ~Finished(mode)
  BY <1>1, <1>2 DEF Open
<1> HIDE DEF i, mode, r
<1>6. inst' \in [Messages -> Instances] /\ inst'[i] = r
      /\ \A x \in Messages \ {i} : inst'[x] = inst[x]
  BY <1>1, <1>3, <1>4 DEF StorageOK
<1> QED
  BY <1>5, <1>6 DEF i, mode

----------------------------------------------------------------------------
(* Types, and the strengthening.                                           *)

LEMMA TypesStep ==
  ASSUME Types, ClaimInv, OverInv, Moves PROVE Types'
<1>1. StorageOK'
  <2>1. CASE Quiet
    BY <2>1 DEF Moves, Quiet, StorageOK
  <2>2. ASSUME NEW n \in Nodes, NEW m \in Messages, Written(n, m) PROVE StorageOK'
    <3>1. inst' \in [Messages -> Instances]
      BY <2>2, WriteLeaves
    <3>2. keyed' \in [Keys -> Messages \cup {None}]
      <4>1. job[n][m].of \in Messages
        BY <2>2, WriteFinds
      <4> QED
        BY <2>2, <4>1 DEF Written, Writes, Keyed, StorageOK
    <3>3. past' \in Seq(Messages)
      <4>1. inst[job[n][m].of].took \in Seq(Messages)
        BY <2>2, WriteFinds DEF Instances
      <4> QED
        BY <2>2, <4>1 DEF Written, Writes, StorageOK
    <3> QED
      BY <3>1, <3>2, <3>3 DEF Moves, StorageOK
  <2> QED
    BY <2>1, <2>2 DEF Moves
<1>2. ASSUME NEW n \in Nodes, NEW m \in Messages
      PROVE  /\ job'[n][m].stage \in {"found", "advanced"} => job'[n][m].of \in Messages
             /\ job'[n][m].stage = "advanced" => job'[n][m].mode # None
  <2>1. JobMove(n, m)
    BY DEF Moves
  <2>2. CASE job'[n][m] \in {NoJob, Job("claimed", None), Job("read", None)}
    BY <2>2 DEF NoJob, Job, None
  <2>3. CASE job'[n][m] = Job("found", Correlated(m))
    BY <2>3, CorrelatedTyped DEF Job
  <2>4. CASE job'[n][m] = job[n][m]
    BY <2>4 DEF JobsOK
  <2>5. ASSUME job[n][m].stage = "found",
               NEW mode \in Advanced(m, inst[job[n][m].of]),
               job'[n][m] = [stage |-> "advanced", of |-> job[n][m].of,
                             over |-> inst[job[n][m].of].turns, mode |-> mode,
                             fresh |-> ~Open(inst[job[n][m].of]),
                             before |-> IF Open(inst[job[n][m].of])
                                          THEN inst[job[n][m].of].took ELSE <<>>]
        PROVE  job'[n][m].of \in Messages /\ job'[n][m].mode # None
    <3>1. mode # None
      BY <2>5, AdvancedTyped
    <3>2. job[n][m].of \in Messages
      BY <2>5 DEF JobsOK
    <3> QED
      BY <2>5, <3>1, <3>2
  <2> QED
    BY <2>1, <2>2, <2>3, <2>4, <2>5 DEF JobMove
<1> QED
  BY <1>1, <1>2 DEF Moves, JobsOK

LEMMA ClaimStep ==
  ASSUME Types, ClaimInv, Moves PROVE ClaimInv'
<1> SUFFICES ASSUME NEW n \in Nodes, NEW m \in Messages,
                    job'[n][m].stage \in {"read", "found", "advanced"}, claim'[m] = n
             PROVE  InQueue(m)'
  BY DEF ClaimInv
<1>1. StMove(m) /\ ClaimMove(m) /\ JobMove(n, m)
  BY DEF Moves
<1>2. n # None
  BY SetsAssumption
<1>3. job'[n][m] # NoJob /\ job'[n][m] # Job("claimed", None)
  BY DEF NoJob, Job, None
<1>4. claim[m] = n
  BY <1>1, <1>2 DEF ClaimMove, None
<1>5. InQueue(m)
  BY <1>1, <1>3, <1>4 DEF JobMove, ClaimInv
<1> QED
  BY <1>1, <1>2, <1>5 DEF StMove, InQueue

LEMMA OverStep ==
  ASSUME Types, ClaimInv, OverInv, Moves PROVE OverInv'
<1> SUFFICES ASSUME NEW n \in Nodes, NEW m \in Messages, job'[n][m].stage = "advanced"
             PROVE  LET j == job'[n][m] IN
                    /\ j.over <= inst'[j.of].turns
                    /\ j.over = inst'[j.of].turns =>
                         /\ j.fresh = ~Open(inst'[j.of])
                         /\ j.before = IF Open(inst'[j.of]) THEN inst'[j.of].took ELSE <<>>
  BY DEF OverInv, Open
<1>1. JobMove(n, m)
  BY DEF Moves
<1>2. \A of : job'[n][m] \notin {NoJob, Job("claimed", of), Job("read", of), Job("found", of)}
  BY DEF NoJob, Job, None
<1>3. CASE job'[n][m] = job[n][m]
  <2> DEFINE j == job[n][m]
  <2>1. /\ j.of \in Messages /\ j.over \in Nat /\ inst[j.of].turns \in Nat
        /\ j.over <= inst[j.of].turns
        /\ j.over = inst[j.of].turns =>
             /\ j.fresh = ~Open(inst[j.of])
             /\ j.before = IF Open(inst[j.of]) THEN inst[j.of].took ELSE <<>>
    BY <1>3 DEF JobsOK, JobRecords, StorageOK, Instances, OverInv
  <2>2. CASE Quiet
    BY <1>3, <2>1, <2>2 DEF Quiet
  <2>3. ASSUME NEW o \in Nodes, NEW x \in Messages, Written(o, x)
        PROVE  inst'[j.of] = inst[j.of] \/ inst'[j.of].turns = inst[j.of].turns + 1
    BY <2>1, <2>3, WriteLeaves
  <2> HIDE DEF j
  <2>4. CASE inst'[j.of] = inst[j.of]
    BY <1>3, <2>1, <2>4 DEF j
  <2>5. CASE inst'[j.of].turns = inst[j.of].turns + 1
    <3>1. j.over <= inst'[j.of].turns /\ j.over # inst'[j.of].turns
      BY <2>1, <2>5
    <3> QED
      BY <1>3, <3>1 DEF j
  <2> QED
    BY <2>2, <2>3, <2>4, <2>5 DEF Moves, Quiet
<1>4. CASE job'[n][m] # job[n][m]
  <2>1. /\ UNCHANGED inst /\ job[n][m].stage = "found"
        /\ \E mode : job'[n][m] =
             [stage |-> "advanced", of |-> job[n][m].of, over |-> inst[job[n][m].of].turns,
              mode |-> mode, fresh |-> ~Open(inst[job[n][m].of]),
              before |-> IF Open(inst[job[n][m].of]) THEN inst[job[n][m].of].took ELSE <<>>]
    BY <1>1, <1>2, <1>4 DEF JobMove
  <2>2. inst[job[n][m].of].turns \in Nat
    BY <2>1 DEF JobsOK, StorageOK, Instances
  <2> QED
    BY <2>1, <2>2
<1> QED
  BY <1>3, <1>4

----------------------------------------------------------------------------
(* Keys.                                                                   *)

LEMMA HeldTyped ==
  ASSUME Types, NEW took \in Seq(Messages) PROVE HeldKeys(took) \subseteq Keys
<1>1. Range(took) \subseteq Messages
  BY DEF Range
<1> QED
  BY <1>1 DEF HeldKeys, Keys

LEMMA KeysStep ==
  ASSUME Types, ClaimInv, OverInv, KeysHeld, Moves PROVE KeysHeld'
<1>1. CASE Quiet
  BY <1>1 DEF Quiet, KeysHeld, Open
<1>2. ASSUME NEW n \in Nodes, NEW m \in Messages, Written(n, m) PROVE KeysHeld'
  <2> DEFINE i == job[n][m].of
             mode == job[n][m].mode
             took == Took(n, m)
             before == job[n][m].before
  <2>1. /\ i \in Messages /\ before \in Seq(Messages)
        /\ before = IF Open(inst[i]) THEN inst[i].took ELSE <<>>
    BY <1>2, WriteFinds DEF JobRecords
  <2>2. /\ \A x \in Messages \ {i} : inst'[x] = inst[x]
        /\ inst'[i].took = took
        /\ Open(inst'[i]) = ~Finished(mode)
    BY <1>2, WriteLeaves
  <2>3. \A k \in Keys : keyed'[k] =
          IF k \notin HeldKeys(took) THEN keyed[k]
          ELSE IF ~Finished(mode) THEN i
          ELSE IF keyed[k] = i THEN None ELSE keyed[k]
    BY <1>2 DEF Written, Writes, Keyed
  \* What it holds it held, or is the key of the Message it takes.
  <2>4. HeldKeys(before) \subseteq HeldKeys(took)
        /\ HeldKeys(took) \subseteq HeldKeys(before) \cup HeldKeys(<<m>>)
    <3>1. Range(took) = Range(before) \cup (IF st[m] = "bound" THEN {m} ELSE {})
      BY <2>1, TookTyped
    <3>2. Range(<<m>>) = {m}
      BY DEF Range
    <3> HIDE DEF took, before
    <3> QED
      BY <3>1, <3>2 DEF HeldKeys
  <2>5. HeldKeys(took) \subseteq Keys
    BY <2>1, TookTyped, HeldTyped
  <2>6. \A k \in HeldKeys(before) : Open(inst[i]) /\ keyed[k] = i
    <3>1. CASE Open(inst[i])
      BY <2>1, <3>1 DEF KeysHeld
    <3>2. CASE ~Open(inst[i])
      BY <2>1, <3>2 DEF HeldKeys, Range
    <3> QED
      BY <3>1, <3>2
  <2>7. Finished(mode) \/ \A k \in HeldKeys(took) : keyed[k] \in {None, i}
    BY <1>2, <2>4, <2>6 DEF Written, Taken, KeysFree
  <2>8. i # None /\ \A x \in Messages : x # None
    BY <2>1, SetsAssumption
  <2>9. keyed \in [Keys -> Messages \cup {None}]
    BY DEF StorageOK
  <2>10. Open(inst[i]) => inst[i].took = before
    BY <2>1
  <2> HIDE DEF i, mode, took, before
  <2>11. ASSUME NEW k \in Keys, keyed'[k] # None
         PROVE  Open(inst'[keyed'[k]]) /\ k \in HeldKeys(inst'[keyed'[k]].took)
    <3>1. keyed'[k] = i \/ (keyed'[k] = keyed[k] /\ keyed[k] \in Messages \ {i})
      BY <2>3, <2>9, <2>11
    <3>2. CASE keyed'[k] = keyed[k] /\ keyed[k] \in Messages \ {i}
      BY <2>2, <2>11, <3>2 DEF KeysHeld
    <3>3. CASE keyed'[k] = i
      <4>1. k \in HeldKeys(took)
        <5>1. SUFFICES ASSUME k \notin HeldKeys(took) PROVE FALSE
          OBVIOUS
        <5>2. keyed[k] = i
          BY <2>3, <3>3, <5>1
        <5>3. Open(inst[i]) /\ k \in HeldKeys(inst[i].took)
          BY <2>8, <5>2 DEF KeysHeld
        <5> QED
          BY <2>4, <2>10, <5>1, <5>3
      <4>2. ~Finished(mode)
        BY <2>3, <2>8, <3>3, <4>1
      <4> QED
        BY <2>2, <3>3, <4>1, <4>2
    <3> QED
      BY <3>1, <3>2, <3>3
  <2>12. ASSUME NEW x \in Messages, Open(inst'[x]), NEW k \in HeldKeys(inst'[x].took)
         PROVE  keyed'[k] = x
    <3>1. CASE x = i
      BY <2>2, <2>3, <2>5, <2>12, <3>1
    <3>2. CASE x # i
      <4>1. Open(inst[x]) /\ k \in HeldKeys(inst[x].took)
        BY <2>2, <2>12, <3>2
      <4>2. keyed[k] = x
        BY <4>1 DEF KeysHeld
      <4>3. k \in Keys
        <5>1. inst[x].took \in Seq(Messages)
          BY DEF StorageOK, Instances
        <5> QED
          BY <4>1, <5>1, HeldTyped
      <4> QED
        BY <2>3, <2>7, <2>8, <3>2, <4>2, <4>3
    <3> QED
      BY <3>1, <3>2
  <2>13. KeysHeld' = (/\ \A k \in Keys : keyed'[k] # None =>
                           Open(inst'[keyed'[k]]) /\ k \in HeldKeys(inst'[keyed'[k]].took)
                      /\ \A x \in Messages : Open(inst'[x]) =>
                           \A k \in HeldKeys(inst'[x].took) : keyed'[k] = x)
    BY DEF KeysHeld, Open, HeldKeys, Keys
  <2> QED
    BY <2>11, <2>12, <2>13
<1> QED
  BY <1>1, <1>2 DEF Moves

----------------------------------------------------------------------------
(* What was taken.                                                         *)

Disjoint(S, T) == S \cap T = {}

\* TakenOnce, sequence by sequence.
Apart ==
  /\ \A i \in Messages : IsInjective(inst[i].took) /\ Disjoint(Range(inst[i].took), Range(past))
  /\ \A i, j \in Messages : i # j => Disjoint(Range(inst[i].took), Range(inst[j].took))
  /\ IsInjective(past)
Journeyed ==
  \A m \in Messages :
    /\ st[m] \in {"waiting", "completed"} => IsTaken(m)
    /\ st[m] \in {"unborn", "bound"} => ~IsTaken(m)

LEMMA ApartTaken == ASSUME Types PROVE TakenOnce <=> Apart /\ Journeyed
<1>1. /\ \A i \in Messages : \A k \in DOMAIN inst[i].took : inst[i].took[k] \in Messages
      /\ \A k \in DOMAIN past : past[k] \in Messages
  BY DEF StorageOK, Instances
<1>2. ASSUME TakenOnce PROVE Apart
  <2>1. ASSUME NEW i \in Messages PROVE IsInjective(inst[i].took)
    BY <1>1, <1>2 DEF TakenOnce, InTook, IsInjective
  <2>2. ASSUME NEW i \in Messages PROVE Disjoint(Range(inst[i].took), Range(past))
    BY <1>1, <1>2 DEF TakenOnce, Range, Disjoint
  <2>3. ASSUME NEW i \in Messages, NEW j \in Messages, i # j
        PROVE  Disjoint(Range(inst[i].took), Range(inst[j].took))
    BY <1>1, <1>2, <2>3 DEF TakenOnce, InTook, Range, Disjoint
  <2>4. IsInjective(past)
    BY <1>1, <1>2 DEF TakenOnce, InPast, IsInjective
  <2> QED
    BY <2>1, <2>2, <2>3, <2>4 DEF Apart
<1>3. ASSUME Apart, Journeyed PROVE TakenOnce
  <2> USE DEF TakenOnce
  <2> TAKE m \in Messages
  <2>1. ASSUME NEW i \in Messages, NEW j \in Messages,
               NEW k \in DOMAIN inst[i].took, NEW l \in DOMAIN inst[j].took,
               InTook(m, i, k), InTook(m, j, l)
        PROVE  i = j /\ k = l
    <3>1. m \in Range(inst[i].took) /\ m \in Range(inst[j].took)
      BY <2>1 DEF InTook, Range
    <3>2. i = j
      BY <1>3, <3>1 DEF Apart, Disjoint
    <3>3. IsInjective(inst[i].took)
      BY <1>3 DEF Apart
    <3> QED
      BY <2>1, <3>2, <3>3 DEF InTook, IsInjective
  <2>2. \A k, l \in DOMAIN past : InPast(m, k) /\ InPast(m, l) => k = l
    BY <1>3 DEF Apart, IsInjective, InPast
  <2>3. ~ \E i \in Messages : m \in Range(inst[i].took) \cap Range(past)
    BY <1>3 DEF Apart, Disjoint
  <2> QED
    BY <1>3, <2>1, <2>2, <2>3 DEF Journeyed
<1> QED
  BY <1>2, <1>3 DEF TakenOnce, Journeyed

LEMMA InjectiveAppend ==
  ASSUME NEW q \in Seq(Messages), NEW m \in Messages, IsInjective(q), m \notin Range(q)
  PROVE  IsInjective(Append(q, m))
<1>1. /\ DOMAIN Append(q, m) = 1 .. Len(q) + 1
      /\ DOMAIN q = 1 .. Len(q) /\ Len(q) \in Nat
      /\ \A k \in 1 .. Len(q) : Append(q, m)[k] = q[k]
      /\ Append(q, m)[Len(q) + 1] = m
  OBVIOUS
<1> QED
  BY <1>1 DEF IsInjective, Range

LEMMA InjectiveConcat ==
  ASSUME NEW p \in Seq(Messages), NEW q \in Seq(Messages)
  PROVE  /\ Range(p \o q) = Range(p) \cup Range(q)
         /\ IsInjective(p) /\ IsInjective(q) /\ Disjoint(Range(p), Range(q)) => IsInjective(p \o q)
<1>1. /\ DOMAIN (p \o q) = 1 .. Len(p) + Len(q)
      /\ DOMAIN p = 1 .. Len(p) /\ Len(p) \in Nat
      /\ DOMAIN q = 1 .. Len(q) /\ Len(q) \in Nat
      /\ \A k \in 1 .. Len(p) : (p \o q)[k] = p[k]
      /\ \A k \in Len(p) + 1 .. Len(p) + Len(q) : (p \o q)[k] = q[k - Len(p)]
  OBVIOUS
<1> DEFINE c == p \o q
<1> HIDE DEF c
<1>2. \A k \in DOMAIN c : \/ k \in DOMAIN p /\ c[k] = p[k]
                          \/ k - Len(p) \in DOMAIN q /\ c[k] = q[k - Len(p)]
  BY <1>1 DEF c
<1>3. \A k \in DOMAIN p : k \in DOMAIN c /\ c[k] = p[k]
  BY <1>1 DEF c
<1>4. \A k \in DOMAIN q : k + Len(p) \in DOMAIN c /\ c[k + Len(p)] = q[k]
  <2> TAKE k \in DOMAIN q
  <2>1. k + Len(p) \in Len(p) + 1 .. Len(p) + Len(q) /\ (k + Len(p)) - Len(p) = k
    BY <1>1
  <2> QED
    BY <1>1, <2>1 DEF c
<1>5. Range(c) = Range(p) \cup Range(q)
  BY <1>2, <1>3, <1>4 DEF Range
<1>6. ASSUME IsInjective(p), IsInjective(q), Disjoint(Range(p), Range(q)) PROVE IsInjective(c)
  <2> SUFFICES ASSUME NEW k \in DOMAIN c, NEW l \in DOMAIN c, c[k] = c[l] PROVE k = l
    BY DEF IsInjective
  <2>1. k \in Int /\ l \in Int /\ Len(p) \in Int
    BY <1>1 DEF c
  <2>2. ~ \E x \in DOMAIN p, y \in DOMAIN q : p[x] = q[y]
    BY <1>6 DEF Disjoint, Range
  <2>3. CASE k \in DOMAIN p /\ c[k] = p[k] /\ l \in DOMAIN p /\ c[l] = p[l]
    BY <1>6, <2>3 DEF IsInjective
  <2>4. CASE /\ k - Len(p) \in DOMAIN q /\ c[k] = q[k - Len(p)]
             /\ l - Len(p) \in DOMAIN q /\ c[l] = q[l - Len(p)]
    <3>1. k - Len(p) = l - Len(p)
      BY <1>6, <2>4 DEF IsInjective
    <3> QED
      BY <2>1, <3>1
  <2> QED
    BY <1>2, <2>2, <2>3, <2>4
<1> QED
  BY <1>5, <1>6 DEF c

LEMMA InjectiveEmpty == Range(<<>>) = {} /\ IsInjective(<<>>) /\ <<>> \in Seq(Messages)
BY DEF Range, IsInjective

LEMMA TakenStep ==
  ASSUME Types, ClaimInv, OverInv, TakenOnce, Moves PROVE TakenOnce'
<1>1. CASE Quiet
  <2>1. UNCHANGED <<inst, past>>
    BY <1>1 DEF Quiet
  <2>2. \A m \in Messages : IsTaken(m)' = IsTaken(m)
    BY <2>1 DEF IsTaken
  <2>3. Journeyed'
    BY <1>1, <2>2 DEF Quiet, Journeyed, TakenOnce
  <2>4. Apart'
    BY <2>1, ApartTaken DEF Apart
  <2>5. Types'
    BY TypesStep
  <2> QED
    BY <2>3, <2>4, <2>5, ApartTaken, PTL
<1>2. ASSUME NEW n \in Nodes, NEW m \in Messages, Written(n, m) PROVE TakenOnce'
  <2> DEFINE i == job[n][m].of
             old == inst[i].took
             took == Took(n, m)
             before == job[n][m].before
  <2>1. /\ i \in Messages /\ before \in Seq(Messages) /\ old \in Seq(Messages)
        /\ before = IF Open(inst[i]) THEN old ELSE <<>>
        /\ job[n][m].fresh = ~Open(inst[i])
        /\ st[m] \in {"bound", "waiting"}
    BY <1>2, WriteFinds DEF JobRecords, Instances, InQueue
  <2>2. /\ \A x \in Messages \ {i} : inst'[x] = inst[x]
        /\ inst'[i].took = took
    BY <1>2, WriteLeaves
  <2>3. past' = IF Open(inst[i]) THEN past ELSE past \o old
    BY <1>2, <2>1 DEF Written, Writes
  <2>4. past \in Seq(Messages)
    BY DEF StorageOK
  <2>5. Apart /\ Journeyed
    BY ApartTaken
  <2>6. st[m] = "bound" => m \notin Range(past) /\ \A x \in Messages : m \notin Range(inst[x].took)
    BY <2>5 DEF Journeyed, IsTaken
  <2>7. st'[m] \in {"waiting", "completed", "failed"} /\ \A x \in Messages \ {m} : st'[x] = st[x]
    BY <1>2 DEF Written, Writes, JourneyTo, StorageOK
  <2>8. /\ took = IF st[m] = "bound" THEN Append(before, m) ELSE before
        /\ Range(took) = Range(before) \cup (IF st[m] = "bound" THEN {m} ELSE {})
    BY <2>1, TookTyped DEF Took
  <2>9. IsInjective(old) /\ IsInjective(past) /\ Disjoint(Range(old), Range(past))
    BY <2>1, <2>5 DEF Apart
  <2> HIDE DEF i, old, took, before
  <2>10. IsInjective(before) /\ Range(before) \subseteq Range(old)
    BY <2>1, <2>9, InjectiveEmpty
  \* The Message it takes was taken by none.
  <2>11. st[m] = "bound" => m \notin Range(old)
    BY <2>1, <2>6 DEF old
  <2>12. IsInjective(took)
    BY <2>1, <2>8, <2>10, <2>11, InjectiveAppend
  <2>13. /\ IsInjective(past')
         /\ Range(past') = IF Open(inst[i]) THEN Range(past) ELSE Range(past) \cup Range(old)
    BY <2>1, <2>3, <2>4, <2>9, InjectiveConcat DEF Disjoint
  <2>14. Range(took) \cup Range(past') =
           Range(old) \cup Range(past) \cup (IF st[m] = "bound" THEN {m} ELSE {})
    BY <2>1, <2>8, <2>13, InjectiveEmpty
  <2>15. Disjoint(Range(took), Range(past'))
    BY <2>1, <2>6, <2>8, <2>9, <2>11, <2>13, InjectiveEmpty DEF Disjoint
  <2>16. ASSUME NEW x \in Messages \ {i}
         PROVE  /\ Disjoint(Range(inst[x].took), Range(took))
                /\ Disjoint(Range(inst[x].took), Range(past'))
                /\ IsInjective(inst[x].took)
    <3>1. /\ IsInjective(inst[x].took) /\ Disjoint(Range(inst[x].took), Range(old))
          /\ Disjoint(Range(inst[x].took), Range(past))
      BY <2>1, <2>5 DEF Apart, old
    <3>2. Range(took) \cup Range(past') \subseteq
            Range(old) \cup Range(past) \cup (IF st[m] = "bound" THEN {m} ELSE {})
      BY <2>14
    <3>3. st[m] = "bound" => m \notin Range(inst[x].took)
      BY <2>6
    <3> QED
      BY <3>1, <3>2, <3>3 DEF Disjoint
  <2>17. Apart'
    <3>1. \A x \in Messages : /\ IsInjective(inst'[x].took)
                              /\ Disjoint(Range(inst'[x].took), Range(past'))
      BY <2>2, <2>12, <2>15, <2>16
    <3>2. ASSUME NEW x \in Messages, NEW y \in Messages, x # y
          PROVE  Disjoint(Range(inst'[x].took), Range(inst'[y].took))
      <4>1. CASE x # i /\ y # i
        BY <2>2, <2>5, <3>2, <4>1 DEF Apart
      <4>2. CASE x = i
        BY <2>2, <2>16, <3>2, <4>2 DEF Disjoint
      <4>3. CASE y = i
        BY <2>2, <2>16, <3>2, <4>3 DEF Disjoint
      <4> QED
        BY <4>1, <4>2, <4>3
    <3> QED
      BY <2>13, <3>1, <3>2 DEF Apart, IsInjective, Disjoint, Range
  <2>18. ASSUME NEW x \in Messages
         PROVE  IsTaken(x)' <=> IsTaken(x) \/ (x = m /\ st[m] = "bound")
    <3>1. IsTaken(x)' <=> x \in Range(past') \/ \E y \in Messages : x \in Range(inst'[y].took)
      BY DEF IsTaken, Range
    <3>2. (\E y \in Messages : x \in Range(inst'[y].took)) <=>
            x \in Range(took) \/ \E y \in Messages \ {i} : x \in Range(inst[y].took)
      BY <2>1, <2>2
    <3>3. IsTaken(x) <=> \/ x \in Range(past) \/ x \in Range(old)
                         \/ \E y \in Messages \ {i} : x \in Range(inst[y].took)
      BY <2>1 DEF IsTaken, old
    <3>4. x \in Range(took) \/ x \in Range(past') <=>
            x \in Range(old) \/ x \in Range(past) \/ (x = m /\ st[m] = "bound")
      BY <2>14
    <3> QED
      BY <3>1, <3>2, <3>3, <3>4
  <2>19. Journeyed'
    <3>1. ASSUME NEW x \in Messages, st'[x] \in {"waiting", "completed"} PROVE IsTaken(x)'
      BY <2>1, <2>5, <2>7, <2>18, <3>1 DEF Journeyed
    <3>2. ASSUME NEW x \in Messages, st'[x] \in {"unborn", "bound"} PROVE ~IsTaken(x)'
      BY <2>5, <2>7, <2>18, <3>2 DEF Journeyed
    <3> QED
      BY <3>1, <3>2 DEF Journeyed
  <2>20. Types'
    BY TypesStep
  <2> QED
    BY <2>17, <2>19, <2>20, ApartTaken, PTL
<1> QED
  BY <1>1, <1>2 DEF Moves

----------------------------------------------------------------------------
(* Places.                                                                 *)

\* t has of s, in its order.
Keeps(t, s) ==
  \A i, j \in DOMAIN t : \E a, b \in DOMAIN s :
    t[i] = s[a] /\ t[j] = s[b] /\ (i < j <=> a < b)

LEMMA WithoutKeeps ==
  ASSUME NEW s \in Seq(Messages), IsInjective(s), NEW m
  PROVE  /\ Without(s, m) \in Seq(Messages)
         /\ IsInjective(Without(s, m))
         /\ Range(Without(s, m)) = Range(s) \ {m}
         /\ Keeps(Without(s, m), s)
<1>1. CASE m \notin Range(s)
  <2>1. Without(s, m) = s
    BY <1>1 DEF Without
  <2> QED
    BY <1>1, <2>1 DEF Keeps
<1>2. CASE m \in Range(s)
  <2> DEFINE p == CHOOSE i \in DOMAIN s : s[i] = m
             t == RemoveAt(s, p)
  <2>1. p \in DOMAIN s /\ s[p] = m
    BY <1>2 DEF Range
  <2>2. Without(s, m) = t
    BY <1>2 DEF Without
  <2> HIDE DEF p
  <2>3. DOMAIN s = 1 .. Len(s) /\ Len(s) \in Nat /\ p \in 1 .. Len(s)
    BY <2>1
  <2>4. /\ t \in Seq(Messages) /\ DOMAIN t = 1 .. Len(s) - 1
        /\ \A i \in 1 .. Len(s) - 1 : t[i] = IF i < p THEN s[i] ELSE s[i + 1]
    <3> DEFINE l == SubSeq(s, 1, p - 1)
               r == SubSeq(s, p + 1, Len(s))
    <3>1. l \in Seq(Messages) /\ Len(l) = p - 1 /\ \A i \in 1 .. p - 1 : l[i] = s[i]
      BY <2>3
    <3>2. /\ p + 1 \in 1 .. Len(s) + 1 /\ Len(s) \in (p + 1) - 1 .. Len(s)
          /\ Len(s) - (p + 1) + 1 = Len(s) - p
          /\ \A i \in 1 .. Len(s) - p : p + 1 + i - 1 = i + p
      BY <2>3
    <3>3. /\ r \in Seq(Messages) /\ Len(r) = Len(s) - p
          /\ \A i \in 1 .. Len(s) - p : r[i] = s[i + p]
      BY <3>2, SubSeqProperties
    <3>4. t = l \o r
      BY DEF RemoveAt
    <3> HIDE DEF l, r, t
    <3>5. t \in Seq(Messages) /\ Len(t) = Len(s) - 1
      <4>1. t \in Seq(Messages) /\ Len(t) = Len(l) + Len(r)
        BY <3>1, <3>3, <3>4, ConcatProperties
      <4> QED
        BY <2>3, <3>1, <3>3, <4>1
    <3>6. ASSUME NEW i \in 1 .. Len(s) - 1, i < p PROVE t[i] = s[i]
      BY <2>3, <3>1, <3>3, <3>4, <3>6
    <3>7. ASSUME NEW i \in 1 .. Len(s) - 1, ~(i < p) PROVE t[i] = s[i + 1]
      <4>1. i - Len(l) \in 1 .. Len(s) - p /\ (i - Len(l)) + p = i + 1
        BY <2>3, <3>1, <3>7
      <4>2. t[i] = r[i - Len(l)]
        BY <2>3, <3>1, <3>3, <3>4, <3>7
      <4> QED
        BY <3>3, <4>1, <4>2
    <3> QED
      BY <2>3, <3>5, <3>6, <3>7
  <2> HIDE DEF t
  <2> DEFINE f(i) == IF i < p THEN i ELSE i + 1
  <2>5. \A i \in DOMAIN t : f(i) \in DOMAIN s /\ f(i) # p /\ t[i] = s[f(i)]
    BY <2>3, <2>4
  <2>6. \A i, j \in DOMAIN t : (i < j <=> f(i) < f(j)) /\ (f(i) = f(j) => i = j)
    BY <2>3, <2>4
  <2>7. \A a \in DOMAIN s \ {p} : \E i \in DOMAIN t : f(i) = a
    <3> TAKE a \in DOMAIN s \ {p}
    <3>1. CASE a < p
      BY <2>3, <2>4, <3>1
    <3>2. CASE a > p
      <4>1. a - 1 \in DOMAIN t /\ f(a - 1) = a
        BY <2>3, <2>4, <3>2
      <4> QED
        BY <4>1
    <3> QED
      BY <2>3, <3>1, <3>2
  <2> HIDE DEF f
  <2>8. IsInjective(t)
    BY <2>5, <2>6 DEF IsInjective
  <2>9. Range(t) = Range(s) \ {m}
    BY <2>1, <2>5, <2>7 DEF Range, IsInjective
  <2>10. Keeps(t, s)
    BY <2>5, <2>6 DEF Keeps
  <2> QED
    BY <2>2, <2>4, <2>8, <2>9, <2>10
<1> QED
  BY <1>1, <1>2

\* A Message is placed by its Publication and leaves by the write of a turn.
LEMMA StepPlaces ==
  ASSUME [Next]_vars
  PROVE  /\ UNCHANGED sequenced
         /\ \/ UNCHANGED <<placed, point>>
            \/ \E m \in Messages : Bind(m)
            \/ \E n \in Nodes, m \in Messages : Written(n, m)
<1> DEFINE Goal == /\ UNCHANGED sequenced
                   /\ \/ UNCHANGED <<placed, point>>
                      \/ \E m \in Messages : Bind(m)
                      \/ \E n \in Nodes, m \in Messages : Written(n, m)
<1>1. CASE UNCHANGED vars
  BY <1>1
<1>2. ASSUME NEW m \in Messages, Bind(m) \/ DueComes(m) \/ Lapses(m) PROVE Goal
  BY <1>2 DEF Bind, DueComes, Lapses
<1>3. ASSUME NEW n \in Nodes, Scan(n) \/ Close(n) \/ Restart(n) PROVE Goal
  BY <1>3 DEF Scan, Close, Restart
<1>4. ASSUME NEW n \in Nodes, NEW m \in Messages, Turn(n, m) PROVE Goal
  <2>1. CASE Done(n, m)
    BY <2>1 DEF Done, Written, Writes
  <2>2. CASE Unwritten(n, m)
    BY <2>2 DEF Unwritten, Written, Writes
  <2>3. CASE ~Done(n, m) /\ ~Unwritten(n, m)
    BY <1>4, <2>3 DEF Turn, PassedOver, Claims, ClaimUnanswered, Reads, FindsInstance, Advances,
                      Refused, NotTaken, Fails, FailUnanswered, WritesFailed, storageVars
  <2> QED
    BY <2>1, <2>2, <2>3
<1> QED
  BY <1>1, <1>2, <1>3, <1>4 DEF Next

\* Nothing else is bound.
LEMMA UnbornBound ==
  ASSUME Types, [Next]_vars, NEW m \in Messages, st[m] = "unborn", st'[m] = "bound"
  PROVE  \E x \in Messages : Bind(x)
<1> DEFINE Goal == \/ \E x \in Messages : Bind(x)
                   \/ st'[m] = st[m] \/ st'[m] \in {"waiting", "completed", "failed"}
<1>1. CASE UNCHANGED vars
  BY <1>1
<1>2. ASSUME NEW x \in Messages, Bind(x) \/ DueComes(x) \/ Lapses(x) PROVE Goal
  BY <1>2 DEF DueComes, Lapses
<1>3. ASSUME NEW n \in Nodes, Scan(n) \/ Close(n) \/ Restart(n) PROVE Goal
  BY <1>3 DEF Scan, Close, Restart
<1>4. ASSUME NEW n \in Nodes, NEW x \in Messages, Turn(n, x) PROVE Goal
  <2>1. CASE Done(n, x)
    BY <2>1 DEF Done, Writes, JourneyTo, StorageOK
  <2>2. CASE Unwritten(n, x)
    BY <2>2 DEF Unwritten, Writes, JourneyTo, StorageOK
  <2>3. CASE ~Done(n, x) /\ ~Unwritten(n, x)
    BY <1>4, <2>3 DEF Turn, PassedOver, Claims, ClaimUnanswered, Reads, FindsInstance, Advances,
                      Refused, NotTaken, Fails, FailUnanswered, WritesFailed, storageVars, StorageOK
  <2> QED
    BY <2>1, <2>2, <2>3
<1> QED
  BY <1>1, <1>2, <1>3, <1>4 DEF Next

\* The write of a turn takes places out, and of none but its Message.
LEMMA WrittenPlaces ==
  ASSUME PlacesOK, NEW n \in Nodes, NEW m \in Messages, Written(n, m)
  PROVE  /\ PlacesOK'
         /\ Keeps(placed', placed) /\ Range(placed) \ {m} = Range(placed') \ {m}
         /\ Keeps(point', point) /\ Range(point) \ {m} = Range(point') \ {m}
         /\ Range(placed') \subseteq Range(placed) /\ Range(point') \subseteq Range(point)
<1>1. placed' \in {placed, Without(placed, m)} /\ point' \in {point, Without(point, m)}
      /\ UNCHANGED sequenced
  BY DEF Written, Writes, LetGo
<1>2. /\ placed \in Seq(Messages) /\ IsInjective(placed)
      /\ point \in Seq(Messages) /\ IsInjective(point)
      /\ sequenced \in BOOLEAN
  BY DEF PlacesOK
<1>3. Keeps(placed, placed) /\ Keeps(point, point)
  BY DEF Keeps
<1>4. /\ placed' \in Seq(Messages) /\ IsInjective(placed') /\ Keeps(placed', placed)
      /\ Range(placed') \in {Range(placed), Range(placed) \ {m}}
  BY <1>1, <1>2, <1>3, WithoutKeeps
<1>5. /\ point' \in Seq(Messages) /\ IsInjective(point') /\ Keeps(point', point)
      /\ Range(point') \in {Range(point), Range(point) \ {m}}
  BY <1>1, <1>2, <1>3, WithoutKeeps
<1>6. PlacesOK'
  BY <1>1, <1>2, <1>4, <1>5 DEF PlacesOK, IsInjective
<1> QED
  BY <1>4, <1>5, <1>6

\* What appending one that is not in it makes of a sequence.
LEMMA AppendPlaces ==
  ASSUME NEW s \in Seq(Messages), IsInjective(s), NEW m \in Messages, m \notin Range(s)
  PROVE  /\ Append(s, m) \in Seq(Messages) /\ IsInjective(Append(s, m))
         /\ Range(Append(s, m)) = Range(s) \cup {m}
         /\ \A i \in DOMAIN Append(s, m) :
              \/ i \in DOMAIN s /\ Append(s, m)[i] = s[i]
              \/ /\ Append(s, m)[i] = m
                 /\ \A j \in DOMAIN s : j < i
         /\ DOMAIN Append(s, m) \subseteq Nat
<1> DEFINE t == Append(s, m)
<1>1. /\ t \in Seq(Messages)
      /\ DOMAIN t = 1 .. Len(s) + 1
      /\ DOMAIN s = 1 .. Len(s) /\ Len(s) \in Nat
      /\ \A k \in 1 .. Len(s) : t[k] = s[k]
      /\ t[Len(s) + 1] = m
  OBVIOUS
<1>2. IsInjective(t)
  BY InjectiveAppend
<1> HIDE DEF t
<1>3. Range(t) = Range(s) \cup {m}
  BY <1>1 DEF Range
<1>4. \A i \in DOMAIN t : \/ i \in DOMAIN s /\ t[i] = s[i]
                          \/ t[i] = m /\ \A j \in DOMAIN s : j < i
  BY <1>1
<1>5. DOMAIN t \subseteq Nat
  BY <1>1
<1> QED
  BY <1>1, <1>2, <1>3, <1>4, <1>5 DEF t

\* Places keep their order in a step that takes some out.
LEMMA OrderKept ==
  ASSUME PlacesOK, PlacesOK', Keeps(placed', placed), Keeps(point', point),
         \A a, b \in DOMAIN placed, i, j \in DOMAIN point :
           placed[a] = point[i] /\ placed[b] = point[j] /\ a < b => i < j
  PROVE  \A a, b \in DOMAIN placed', i, j \in DOMAIN point' :
           placed'[a] = point'[i] /\ placed'[b] = point'[j] /\ a < b => i < j
BY DEF Keeps

LEMMA PlacesStep ==
  ASSUME Types, ClaimInv, OverInv, PlacesOK, PlaceInv, Moves, [Next]_vars
  PROVE  PlacesOK' /\ PlaceInv'
<1> DEFINE Ordered == \A a, b \in DOMAIN placed, i, j \in DOMAIN point :
                        placed[a] = point[i] /\ placed[b] = point[j] /\ a < b => i < j
           Born(m) == /\ st[m] = "unborn" => m \notin Range(placed) \cup Range(point)
                      /\ st[m] = "bound" => m \in Range(placed)
                      /\ st[m] = "bound" /\ sequenced => m \in Range(point)
<1>1. Ordered /\ \A m \in Messages : Born(m)
  BY DEF PlaceInv
<1>2. UNCHANGED sequenced
  BY StepPlaces
<1>3. SUFFICES PlacesOK' /\ Ordered' /\ \A m \in Messages : Born(m)'
  BY DEF PlaceInv
<1>4. CASE UNCHANGED <<placed, point>> /\ ~ \E m \in Messages : Bind(m)
  <2>1. \A m \in Messages : st'[m] \in {"unborn", "bound"} => st'[m] = st[m]
    <3>1. CASE UNCHANGED vars
      BY <3>1
    <3>2. CASE ~UNCHANGED vars
      <4>1. ASSUME NEW m \in Messages PROVE ~(st[m] = "unborn" /\ st'[m] = "bound")
        BY <1>4, <3>2, UnbornBound
      <4> QED
        BY <4>1 DEF Moves, StMove
    <3> QED
      BY <3>1, <3>2
  <2>2. PlacesOK' /\ Ordered'
    BY <1>1, <1>2, <1>4 DEF PlacesOK
  <2> QED
    BY <1>1, <1>2, <1>4, <2>1, <2>2
<1>5. ASSUME NEW m \in Messages, Bind(m)
      PROVE  PlacesOK' /\ Ordered' /\ \A x \in Messages : Born(x)'
  <2>1. /\ st[m] = "unborn" /\ m \notin Range(placed) /\ m \notin Range(point)
        /\ st'[m] = "bound" /\ \A x \in Messages \ {m} : st'[x] = st[x]
        /\ placed' = Append(placed, m)
        /\ point' = IF sequenced THEN Append(point, m) ELSE point
    BY <1>1, <1>5 DEF Bind, StorageOK
  <2>2. /\ placed' \in Seq(Messages) /\ IsInjective(placed')
        /\ Range(placed') = Range(placed) \cup {m}
        /\ \A a \in DOMAIN placed' : \/ a \in DOMAIN placed /\ placed'[a] = placed[a]
                                     \/ placed'[a] = m /\ \A b \in DOMAIN placed : b < a
        /\ DOMAIN placed' \subseteq Nat
    BY <2>1, AppendPlaces DEF PlacesOK
  <2>3. CASE sequenced
    <3>1. /\ point' \in Seq(Messages) /\ IsInjective(point')
          /\ Range(point') = Range(point) \cup {m}
          /\ \A i \in DOMAIN point' : \/ i \in DOMAIN point /\ point'[i] = point[i]
                                      \/ point'[i] = m /\ \A j \in DOMAIN point : j < i
          /\ DOMAIN point' \subseteq Nat
      BY <2>1, <2>3, AppendPlaces DEF PlacesOK
    <3>2. PlacesOK'
      BY <1>2, <2>2, <3>1 DEF PlacesOK, IsInjective
    <3>3. \A x \in Messages : Born(x)'
      BY <1>1, <1>2, <2>1, <2>2, <3>1 DEF Range
    <3>4. ASSUME NEW a \in DOMAIN placed', NEW b \in DOMAIN placed',
                 NEW i \in DOMAIN point', NEW j \in DOMAIN point',
                 placed'[a] = point'[i], placed'[b] = point'[j], a < b
          PROVE  i < j
      <4>1. \A k \in DOMAIN placed : placed[k] # m
        BY <2>1 DEF Range
      <4>2. \A k \in DOMAIN point : point[k] # m
        BY <2>1 DEF Range
      <4>3. a \in DOMAIN placed /\ placed'[a] = placed[a]
        <5>1. SUFFICES ASSUME placed'[a] = m, \A k \in DOMAIN placed : k < a PROVE FALSE
          BY <2>2
        <5>2. b \notin DOMAIN placed
          BY <2>2, <3>4, <5>1
        <5>3. placed'[b] = m
          BY <2>2, <5>2
        <5>4. a = b
          BY <2>2, <5>1, <5>3 DEF IsInjective
        <5> QED
          BY <2>2, <3>4, <5>4
      <4>4. i \in DOMAIN point /\ point'[i] = point[i]
        BY <3>1, <3>4, <4>1, <4>3
      <4>5. CASE placed'[b] = m
        BY <3>1, <3>4, <4>2, <4>4, <4>5
      <4>6. CASE placed'[b] # m
        BY <1>1, <2>2, <3>1, <3>4, <4>3, <4>4, <4>6
      <4> QED
        BY <4>5, <4>6
    <3> QED
      BY <3>2, <3>3, <3>4
  <2>4. CASE ~sequenced
    <3>1. UNCHANGED point
      BY <2>1, <2>4
    <3>2. PlacesOK'
      BY <1>2, <2>2, <3>1 DEF PlacesOK, IsInjective
    <3>3. \A x \in Messages : Born(x)'
      BY <1>1, <1>2, <2>1, <2>2, <2>4, <3>1 DEF Range
    <3>4. \A k \in DOMAIN point : point[k] # m
      BY <2>1 DEF Range
    <3>5. Ordered'
      BY <1>1, <2>2, <3>1, <3>4
    <3> QED
      BY <3>2, <3>3, <3>5
  <2> QED
    BY <2>3, <2>4
<1>6. ASSUME NEW n \in Nodes, NEW m \in Messages, Written(n, m)
      PROVE  PlacesOK' /\ Ordered' /\ \A x \in Messages : Born(x)'
  <2>1. st'[m] \in {"waiting", "completed", "failed"} /\ \A x \in Messages \ {m} : st'[x] = st[x]
    BY <1>6 DEF Written, Writes, JourneyTo, StorageOK
  <2>2. /\ PlacesOK'
        /\ Keeps(placed', placed) /\ Range(placed) \ {m} = Range(placed') \ {m}
        /\ Keeps(point', point) /\ Range(point) \ {m} = Range(point') \ {m}
    BY <1>6, WrittenPlaces
  <2>3. Ordered'
    BY <1>1, <2>2, OrderKept
  <2>4. ASSUME NEW x \in Messages PROVE Born(x)'
    <3>1. CASE x = m
      BY <2>1, <3>1
    <3>2. CASE x # m
      <4>1. /\ x \in Range(placed) <=> x \in Range(placed')
            /\ x \in Range(point) <=> x \in Range(point')
        BY <2>2, <3>2
      <4> QED
        BY <1>1, <1>2, <2>1, <3>2, <4>1 DEF Range
    <3> QED
      BY <3>1, <3>2
  <2> QED
    BY <2>2, <2>3, <2>4
<1> QED
  BY <1>4, <1>5, <1>6, StepPlaces

LEMMA HeadStep ==
  ASSUME Types, ClaimInv, OverInv, PlacesOK, PlaceInv, HeadInv, Moves, [Next]_vars
  PROVE  HeadInv'
<1> SUFFICES ASSUME NEW n \in Nodes, NEW m \in Messages,
                    job'[n][m].stage \in {"read", "found", "advanced"}, claim'[m] = n
             PROVE  Heads(m)'
  BY DEF HeadInv
<1>1. ClaimMove(m) /\ JobMove(n, m)
  BY DEF Moves
<1>2. n # None
  BY SetsAssumption
<1>3. job'[n][m] # NoJob /\ job'[n][m] # Job("claimed", None)
  BY DEF NoJob, Job, None
<1>4. claim[m] = n
  BY <1>1, <1>2 DEF ClaimMove, None
<1>5. InQueue(m) /\ Heads(m)
  BY <1>1, <1>3, <1>4 DEF JobMove, ClaimInv, HeadInv
<1>6. SUFFICES ASSUME sequenced,
                      NEW i \in DOMAIN point', NEW j \in DOMAIN point',
                      point'[j] = m, Key[point'[i]] = Key[m]
               PROVE  j <= i
  BY StepPlaces DEF Heads
<1>7. \A a, b \in DOMAIN point : point[b] = m /\ Key[point[a]] = Key[m] => b <= a
  BY <1>5, <1>6 DEF Heads
<1>8. CASE UNCHANGED point
  BY <1>6, <1>7, <1>8
<1>9. ASSUME NEW x \in Messages, Bind(x) PROVE j <= i
  <2>1. x # m /\ x \notin Range(point) /\ point' = Append(point, x)
    BY <1>5, <1>6, <1>9 DEF Bind, InQueue, PlaceInv
  <2>2. /\ \A k \in DOMAIN point' : \/ k \in DOMAIN point /\ point'[k] = point[k]
                                    \/ point'[k] = x /\ \A l \in DOMAIN point : l < k
        /\ DOMAIN point' \subseteq Nat
    BY <2>1, AppendPlaces DEF PlacesOK
  <2>3. j \in DOMAIN point /\ point[j] = m
    BY <1>6, <2>1, <2>2
  <2>4. CASE i \in DOMAIN point /\ point'[i] = point[i]
    BY <1>6, <1>7, <2>3, <2>4
  <2>5. CASE \A l \in DOMAIN point : l < i
    BY <2>2, <2>3, <2>5
  <2> QED
    BY <2>2, <2>4, <2>5
<1>10. ASSUME NEW o \in Nodes, NEW x \in Messages, Written(o, x) PROVE j <= i
  <2>1. Keeps(point', point) /\ PlacesOK'
    BY <1>10, WrittenPlaces
  <2>2. PICK a \in DOMAIN point, b \in DOMAIN point :
          point'[i] = point[a] /\ point'[j] = point[b] /\ (i < j <=> a < b)
    BY <2>1 DEF Keeps
  <2>3. b <= a
    BY <1>6, <1>7, <2>2
  <2>4. a \in Nat /\ b \in Nat /\ i \in Nat /\ j \in Nat
    BY <2>1 DEF PlacesOK
  <2> QED
    BY <2>2, <2>3, <2>4
<1> QED
  BY <1>8, <1>9, <1>10, StepPlaces

LEMMA NoOvertaking ==
  ASSUME Types, ClaimInv, OverInv, PlacesOK, PlaceInv, HeadInv, Moves, sequenced,
         NEW m \in Messages
  PROVE  ~Overtakes(m)
<1> SUFFICES ASSUME Overtakes(m) PROVE FALSE
  OBVIOUS
<1>1. PICK o \in Messages \ {m} :
        /\ Key[o] = Key[m] /\ st[o] = "bound"
        /\ \E a, b \in DOMAIN placed : placed[a] = o /\ placed[b] = m /\ a < b
  BY DEF Overtakes
<1>2. st[m] = "bound" /\ st'[m] \in {"waiting", "completed"}
  BY DEF Overtakes
<1>3. PICK n \in Nodes, x \in Messages : Written(n, x)
  BY <1>2 DEF Moves, Quiet
<1>4. x = m
  BY <1>2, <1>3 DEF Written, Writes, StorageOK
<1>5. Heads(m)
  BY <1>3, <1>4 DEF Written, InWrite, Taken, HeadInv
<1>6. PICK i \in DOMAIN point, j \in DOMAIN point : point[i] = o /\ point[j] = m
  BY <1>1, <1>2 DEF PlaceInv, Range
<1>7. i < j
  BY <1>1, <1>6 DEF PlaceInv
<1>8. j <= i
  BY <1>1, <1>5, <1>6 DEF Heads
<1>9. i \in Nat /\ j \in Nat
  BY <1>6 DEF PlacesOK
<1> QED
  BY <1>7, <1>8, <1>9

----------------------------------------------------------------------------
(* The theorems.                                                           *)

Inv ==
  /\ Types /\ ClaimInv /\ OverInv /\ KeysHeld /\ TakenOnce
  /\ PlacesOK /\ PlaceInv /\ HeadInv

LEMMA Initially == Init => Inv
<1> SUFFICES ASSUME Init PROVE Inv
  OBVIOUS
<1>1. Types
  <2>1. NoInstance \in Instances
    BY DEF NoInstance, Instances
  <2>2. NoJob.stage = None
    BY DEF NoJob, Job
  <2>3. StorageOK
    BY <2>1 DEF Init, StorageOK
  <2>4. JobsOK
    BY <2>2, NoJobTyped DEF Init, JobsOK, None
  <2> QED
    BY <2>3, <2>4
<1>2. \A n \in Nodes, m \in Messages : job[n][m].stage = None
  BY DEF Init, NoJob, Job
<1>3. ClaimInv /\ OverInv
  BY <1>2 DEF ClaimInv, OverInv, None
<1>4. \A m \in Messages : ~Open(inst[m]) /\ inst[m].took = <<>>
  BY DEF Init, NoInstance, Open
<1>5. KeysHeld
  BY <1>4 DEF KeysHeld, Init
<1>6. TakenOnce
  <2>1. Apart
    BY <1>4, InjectiveEmpty DEF Apart, Init, Disjoint
  <2>2. Journeyed
    BY <1>4, InjectiveEmpty DEF Journeyed, IsTaken, Init
  <2> QED
    BY <1>1, <2>1, <2>2, ApartTaken
<1>7. PlacesOK /\ PlaceInv
  BY InjectiveEmpty DEF Init, PlacesOK, PlaceInv
<1>8. HeadInv
  BY <1>2 DEF HeadInv, None
<1> QED
  BY <1>1, <1>3, <1>5, <1>6, <1>7, <1>8 DEF Inv

LEMMA Preserved == Inv /\ [Next]_vars => Inv'
<1> SUFFICES ASSUME Inv, [Next]_vars PROVE Inv'
  OBVIOUS
<1>1. Moves
  BY StepMoves DEF Inv
<1>2. Types' /\ ClaimInv' /\ OverInv' /\ KeysHeld' /\ TakenOnce'
  BY <1>1, TypesStep, ClaimStep, OverStep, KeysStep, TakenStep DEF Inv
<1>3. PlacesOK' /\ PlaceInv' /\ HeadInv'
  BY <1>1, PlacesStep, HeadStep DEF Inv
<1> QED
  BY <1>2, <1>3 DEF Inv

LEMMA Invariance == Spec => []Inv
BY Initially, Preserved, PTL DEF Spec

\* What Xmip Storage keeps of a Work Process, and the turns its nodes have
\* under way, keep their types: a turn that was advanced is of an Instance, and
\* a Message has one place in the queue and in the sequence.
THEOREM StorageTyped == Spec => [](StorageOK /\ JobsOK /\ PlacesOK)
BY Invariance, PTL DEF Inv

\* For any nodes, Messages and bounds, every Message whose arrival was written
\* is in what one Instance took, once, however many nodes took the turn, and
\* whatever lapsed or was written with its answer lost meanwhile.
THEOREM AllTakenOnce == Spec => []TakenOnce
BY Invariance, PTL DEF Inv

\* For any keys, a key correlates to the one open Instance that holds it: the
\* write over the turn that was read, with its keys free or its own, is enough.
THEOREM KeysAlwaysHeld == Spec => []KeysHeld
BY Invariance, PTL DEF Inv

\* For any nodes, keys and bounds, a Work Process that names a sequence takes no
\* Message of a key while an earlier one of it waits to be taken, though the
\* place was asked for before the turn and the claim may lapse in it.
THEOREM KeepsSequence == Spec => InSequence
<1>1. ASSUME Inv, [Next]_vars, sequenced, NEW m \in Messages PROVE ~Overtakes(m)
  BY <1>1, StepMoves, NoOvertaking DEF Inv
<1>2. Inv /\ [Next]_vars => [sequenced => \A m \in Messages : ~Overtakes(m)]_vars
  BY <1>1
<1> QED
  BY <1>2, Invariance, PTL DEF Spec, InSequence
===============================================================================
