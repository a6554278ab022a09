-------------------------- MODULE SendDispatchProofs --------------------------
(***************************************************************************)
(* What is proved of SendDispatch, for every set of Messages, tokens and   *)
(* limits: its types, that the pool is never promised more than its        *)
(* threads, that no place leaks where no move takes a scan's mark, and     *)
(* that a Message put off for a retry keeps its wake-up.                   *)
(***************************************************************************)
EXTENDS SendDispatch, FiniteSetTheorems, TLAPS

USE JobsAssumption, MessagesAssumption, LimitsAssumption
USE DEF vars, ledgerVars, placeVars, wakeVars

----------------------------------------------------------------------------
(* Types.                                                                  *)

\* A job that starts changes alone, and the jobs keep their types.
LEMMA JobStarts ==
  ASSUME JobsOK, NEW t \in Jobs, NEW m \in Messages, NEW s \in Stages, NEW p \in BOOLEAN,
         Starts(t, m, s, p), s \in {"lined", "found"}, p => s = "lined",
         job[t] = NoJob, handed' = handed
  PROVE  /\ JobsOK'
         /\ job'[t] = [msg |-> m, stage |-> s, place |-> p]
         /\ \A u \in Jobs : u # t => job'[u] = job[u]
<1>1. /\ job'[t] = [msg |-> m, stage |-> s, place |-> p]
      /\ \A u \in Jobs : u # t => job'[u] = job[u]
  BY DEF Starts, JobsOK, JobRecords
<1>2. job' \in [Jobs -> JobRecords]
  BY DEF Starts, JobsOK, JobRecords
<1>3. t \notin handed
  BY DEF JobsOK, NoJob
<1>4. handed' \subseteq {u \in Jobs : job'[u].stage = "handed"}
  BY <1>1, <1>3 DEF JobsOK
<1>5. ASSUME NEW u \in Jobs, job'[u] # NoJob
      PROVE  /\ job'[u].msg \in Messages
             /\ job'[u].stage \in Stages
             /\ job'[u].place => job'[u].stage \in {"lined", "written"}
  <2>1. CASE u = t BY <2>1, <1>1
  <2>2. CASE u # t BY <2>2, <1>1, <1>5 DEF JobsOK
  <2> QED BY <2>1, <2>2
<1> QED BY <1>1, <1>2, <1>4, <1>5 DEF JobsOK

\* A job that goes on changes alone, and the jobs keep their types.
LEMMA JobGoes ==
  ASSUME JobsOK, NEW t \in Jobs, NEW s \in Stages, Goes(t, s),
         job[t].stage \notin {"none", "handed"},
         job[t].place /\ s = "written" => job[t].stage = "lined",
         handed' = handed \/ (s = "handed" /\ handed' = handed \cup {t})
  PROVE  /\ JobsOK'
         /\ job'[t].msg = job[t].msg /\ job'[t].msg \in Messages /\ job'[t].stage = s
         /\ job'[t].place = (job[t].place /\ s = "written")
         /\ \A u \in Jobs : u # t => job'[u] = job[u]
<1>1. /\ job'[t].msg = job[t].msg /\ job'[t].stage = s
      /\ job'[t].place = (job[t].place /\ s = "written")
      /\ \A u \in Jobs : u # t => job'[u] = job[u]
  BY DEF Goes, JobsOK, JobRecords
<1>2. job' \in [Jobs -> JobRecords]
  BY DEF Goes, JobsOK, JobRecords
<1>3. t \notin handed /\ job[t].msg \in Messages
  BY DEF JobsOK, NoJob
<1>4. handed' \subseteq {u \in Jobs : job'[u].stage = "handed"}
  BY <1>1, <1>3 DEF JobsOK
<1>5. ASSUME NEW u \in Jobs, job'[u] # NoJob
      PROVE  /\ job'[u].msg \in Messages
             /\ job'[u].stage \in Stages
             /\ job'[u].place => job'[u].stage \in {"lined", "written"}
  <2>1. CASE u = t BY <2>1, <1>1, <1>3
  <2>2. CASE u # t BY <2>2, <1>1, <1>5 DEF JobsOK
  <2> QED BY <2>1, <2>2
<1> QED BY <1>1, <1>2, <1>3, <1>4, <1>5 DEF JobsOK

\* A job that is over leaves the others as they are, and the types kept.
LEMMA JobOver ==
  ASSUME JobsOK, NEW t \in Jobs, Over(t), job[t].stage # "handed", handed' = handed
  PROVE  /\ JobsOK'
         /\ job'[t] = NoJob
         /\ \A u \in Jobs : u # t => job'[u] = job[u]
<1>1. job'[t] = NoJob /\ \A u \in Jobs : u # t => job'[u] = job[u]
  BY DEF Over, JobsOK
<1>2. job' \in [Jobs -> JobRecords]
  BY DEF Over, JobsOK, JobRecords, NoJob
<1>3. t \notin handed
  BY DEF JobsOK
<1>4. handed' \subseteq {u \in Jobs : job'[u].stage = "handed"}
  BY <1>1, <1>3 DEF JobsOK
<1>5. ASSUME NEW u \in Jobs, job'[u] # NoJob
      PROVE  /\ job'[u].msg \in Messages
             /\ job'[u].stage \in Stages
             /\ job'[u].place => job'[u].stage \in {"lined", "written"}
  <2>1. CASE u = t BY <2>1, <1>1, <1>5
  <2>2. CASE u # t BY <2>2, <1>1, <1>5 DEF JobsOK
  <2> QED BY <2>1, <2>2
<1> QED BY <1>1, <1>2, <1>4, <1>5 DEF JobsOK

\* Jobs that go to the pool's threads change their stage alone.
LEMMA JobsToPool ==
  ASSUME JobsOK, NEW gone \in SUBSET Jobs, NEW from \in {"found", "handed"},
         NEW to \in {"taking", "sending"},
         \A t \in gone : job[t].stage = from,
         job' = [t \in Jobs |-> IF t \in gone THEN [job[t] EXCEPT !.stage = to] ELSE job[t]],
         (handed' = handed /\ from = "found") \/ handed' = {}
  PROVE  /\ JobsOK'
         /\ \A t \in gone : /\ job'[t].msg = job[t].msg /\ job'[t].place = FALSE /\ job[t].place = FALSE
                            /\ job'[t].stage = to
         /\ \A u \in Jobs \ gone : job'[u] = job[u]
<1>1. /\ \A t \in gone : job'[t].msg = job[t].msg /\ job'[t].place = job[t].place /\ job'[t].stage = to
      /\ \A u \in Jobs \ gone : job'[u] = job[u]
  BY DEF JobsOK, JobRecords
<1>2. job' \in [Jobs -> JobRecords]
  BY DEF JobsOK, JobRecords, Stages
<1>3. \A t \in gone : job[t].msg \in Messages /\ job[t].place = FALSE
  BY DEF JobsOK, JobRecords, NoJob
<1>4. handed' \subseteq {u \in Jobs : job'[u].stage = "handed"}
  BY <1>1 DEF JobsOK
<1>5. ASSUME NEW u \in Jobs, job'[u] # NoJob
      PROVE  /\ job'[u].msg \in Messages
             /\ job'[u].stage \in Stages
             /\ job'[u].place => job'[u].stage \in {"lined", "written"}
  <2>1. CASE u \in gone BY <2>1, <1>1, <1>3 DEF Stages
  <2>2. CASE u \notin gone BY <2>2, <1>1, <1>5 DEF JobsOK
  <2> QED BY <2>1, <2>2
<1> QED BY <1>1, <1>2, <1>3, <1>4, <1>5 DEF JobsOK

\* What a scan found is taken by the pool's threads: nothing else of the jobs
\* changes.
LEMMA PoolType ==
  ASSUME TypeOK, ToThePool, handed' = handed
  PROVE  /\ JobsOK'
         /\ \A t \in Jobs :
              /\ job'[t].msg = job[t].msg /\ job'[t].place = job[t].place
              /\ IF job[t].stage = "found" THEN job'[t].stage = "taking"
                                          ELSE job'[t] = job[t]
<1> DEFINE gone == {t \in Jobs : job[t].stage = "found"}
<1>1. job' = [t \in Jobs |-> IF t \in gone THEN [job[t] EXCEPT !.stage = "taking"] ELSE job[t]]
  BY DEF ToThePool
<1>2. \A t \in gone : job[t].stage = "found"
  OBVIOUS
<1> HIDE DEF gone
<1>3. gone \in SUBSET Jobs /\ \A t \in Jobs : t \in gone <=> job[t].stage = "found"
  BY DEF gone
<1>4. /\ JobsOK'
      /\ \A t \in gone : /\ job'[t].msg = job[t].msg /\ job'[t].place = FALSE /\ job[t].place = FALSE
                         /\ job'[t].stage = "taking"
      /\ \A u \in Jobs \ gone : job'[u] = job[u]
  BY <1>1, <1>2, <1>3, JobsToPool DEF TypeOK
<1> QED BY <1>3, <1>4

\* The room of the pool is a count, of finite sets.
LEMMA RoomType ==
  ASSUME TypeOK
  PROVE  /\ MostPlaces \in Nat \ {0} /\ limits.most \in Nat
         /\ IsFiniteSet(OwnedNow) /\ Cardinality(OwnedNow) \in Nat
         /\ Room \in Nat /\ (Room > 0 => Cardinality(OwnedNow) + admitted < MostPlaces)
<1>1. limits.most \in Nat /\ MostPlaces \in Nat \ {0}
  BY DEF MostPlaces, TypeOK, LedgerOK
<1>2. IsFiniteSet(OwnedNow) /\ Cardinality(OwnedNow) \in Nat
  BY FS_Subset, FS_CardinalityType DEF OwnedNow
<1>3. admitted \in Nat
  BY DEF TypeOK, PlacesOK
<1> QED BY <1>1, <1>2, <1>3 DEF Room

\* Every step keeps the jobs' types.
LEMMA JobsType ==
  ASSUME TypeOK, [Next]_vars
  PROVE  JobsOK'
<1>1. ASSUME NEW m \in Messages, LineUp(m)
      PROVE  JobsOK'
  <2>1. PICK t \in Jobs : job[t] = NoJob /\ Starts(t, m, "lined", Room > 0)
    BY <1>1 DEF LineUp, Fresh, FreeJobs
  <2>2. (Room > 0) \in BOOLEAN
    BY RoomType
  <2>3. Starts(t, m, "lined", TRUE) \/ Starts(t, m, "lined", FALSE)
    BY <2>1, <2>2, Zenon
  <2>4. handed' = handed /\ job[t] = NoJob
    BY <1>1, <2>1 DEF LineUp
  <2> QED BY <2>3, <2>4, JobStarts DEF TypeOK, Stages
<1>2. ASSUME NEW m \in Messages, Unsure(m)
      PROVE  JobsOK'
  BY <1>2 DEF Unsure, TypeOK, JobsOK
<1>3. ASSUME NEW m \in Messages, Renewed(m)
      PROVE  JobsOK'
  BY <1>3 DEF Renewed, TypeOK, JobsOK
<1>4. ASSUME NEW m \in Messages, Lapses(m)
      PROVE  JobsOK'
  BY <1>4 DEF Lapses, TypeOK, JobsOK
<1>5. ASSUME NEW m \in Messages, DueComes(m)
      PROVE  JobsOK'
  BY <1>5 DEF DueComes, TypeOK, JobsOK
<1>6. ASSUME NEW t \in Jobs, PublishNot(t)
      PROVE  JobsOK'
  BY <1>6, JobOver DEF PublishNot, TypeOK, Ends
<1>7. ASSUME NEW t \in Jobs, PublishTaken(t)
      PROVE  JobsOK'
  BY <1>7, JobGoes DEF PublishTaken, TypeOK, Stages, Ends
<1>8. ASSUME NEW t \in Jobs, PublishUnanswered(t)
      PROVE  JobsOK'
  BY <1>8, JobOver DEF PublishUnanswered, TypeOK, Ends
<1>9. ASSUME NEW t \in Jobs, Published(t)
      PROVE  JobsOK'
  BY <1>9, JobGoes DEF Published, TypeOK, Stages, Ends
<1>10. ASSUME NEW t \in Jobs, Moved(t)
      PROVE  JobsOK'
  BY <1>10, JobGoes DEF Moved, TypeOK, Stages, Ends
<1>11. ASSUME NEW t \in Jobs, PublishedUnclaimed(t)
      PROVE  JobsOK'
  BY <1>11, JobOver DEF PublishedUnclaimed, TypeOK, Ends
<1>12. ASSUME NEW t \in Jobs, TakeGranted(t)
      PROVE  JobsOK'
  BY <1>12, JobGoes DEF TakeGranted, TypeOK, Stages, Ends
<1>13. ASSUME NEW t \in Jobs, TakeNotDue(t)
      PROVE  JobsOK'
  BY <1>13, JobOver DEF TakeNotDue, TypeOK, Ends
<1>14. ASSUME NEW t \in Jobs, TakeNot(t)
      PROVE  JobsOK'
  BY <1>14, JobOver DEF TakeNot, TypeOK, Ends
<1>15. ASSUME NEW t \in Jobs, TakeOwns(t)
      PROVE  JobsOK'
  BY <1>15, JobGoes DEF TakeOwns, TypeOK, Stages, Ends
<1>16. ASSUME NEW t \in Jobs, NEW how \in {"completed", "failed", "waiting"}, HandsOn(t, how)
      PROVE  JobsOK'
  BY <1>16, JobGoes DEF HandsOn, TypeOK, Stages, Ends
<1>17. ASSUME NEW t \in Jobs, HandsOnNot(t)
      PROVE  JobsOK'
  <2>1. PICK s \in {"unwritten", "lost"} : Goes(t, s)
    BY <1>17 DEF HandsOnNot
  <2> QED BY <1>17, <2>1, JobGoes DEF HandsOnNot, TypeOK, Stages, Ends
<1>18. ASSUME NEW t \in Jobs, Untried(t)
      PROVE  JobsOK'
  BY <1>18, JobGoes DEF Untried, TypeOK, Stages, Ends
<1>19. ASSUME NEW t \in Jobs, ReleaseUntried(t)
      PROVE  JobsOK'
  BY <1>19, JobGoes DEF ReleaseUntried, TypeOK, Stages, Ends
<1>20. ASSUME NEW t \in Jobs, Settle(t)
      PROVE  JobsOK'
  BY <1>20, JobOver DEF Settle, TypeOK, Ends
<1>21. ASSUME NEW goesOff \in BOOLEAN, NEW all \in BOOLEAN, Wakes(goesOff, all)
      PROVE  JobsOK'
  <2>1. handed \subseteq Jobs /\ \A t \in handed : job[t].stage = "handed"
    BY DEF TypeOK, JobsOK
  <2> QED BY <1>21, <2>1, JobsToPool DEF Wakes, TypeOK
<1>22. ASSUME LooksForRoom
      PROVE  JobsOK'
  BY <1>22 DEF LooksForRoom, TypeOK, JobsOK
<1>23. ASSUME Starves
      PROVE  JobsOK'
  BY <1>23 DEF Starves, TypeOK, JobsOK
<1>24. ASSUME ReadsPage
      PROVE  JobsOK'
  BY <1>24 DEF ReadsPage, TypeOK, JobsOK
<1>25. ASSUME ReadUnanswered
      PROVE  JobsOK'
  BY <1>25, PoolType DEF ReadUnanswered
<1>26. ASSUME NEW m \in Messages, LooksKnown(m)
      PROVE  JobsOK'
  BY <1>26 DEF LooksKnown, TypeOK, JobsOK
<1>27. ASSUME NEW m \in Messages, LooksTakes(m)
      PROVE  JobsOK'
  <2>1. PICK t \in Jobs : job[t] = NoJob /\ Starts(t, m, "found", FALSE)
    BY <1>27 DEF LooksTakes, Fresh, FreeJobs
  <2> QED BY <1>27, <2>1, JobStarts DEF LooksTakes, TypeOK, Stages
<1>28. ASSUME NEW m \in Messages, LooksFull(m)
      PROVE  JobsOK'
  BY <1>28 DEF LooksFull, TypeOK, JobsOK
<1>29. ASSUME StarvesFull
      PROVE  JobsOK'
  BY <1>29, PoolType DEF StarvesFull, Waited
<1>30. ASSUME PageDone
      PROVE  JobsOK'
  <2>1. CASE ToThePool /\ handed' = handed
    BY <2>1, PoolType
  <2> QED BY <1>30, <2>1 DEF PageDone, Waited, TypeOK, JobsOK
<1>31. ASSUME Close
      PROVE  JobsOK'
  BY <1>31 DEF Close, TypeOK, JobsOK
<1>32. CASE UNCHANGED vars
  BY <1>32 DEF TypeOK, JobsOK
<1> QED
  BY <1>1, <1>2, <1>3, <1>4, <1>5, <1>6, <1>7, <1>8, <1>9, <1>10, <1>11,
     <1>12, <1>13, <1>14, <1>15, <1>16, <1>17, <1>18, <1>19, <1>20, <1>21,
     <1>22, <1>23, <1>24, <1>25, <1>26, <1>27, <1>28, <1>29, <1>30, <1>31,
     <1>32
     DEF Next, Publication, Take, Ending, Standing, Dispatching

\* A job under way has a Message.
LEMMA JobMsg ==
  ASSUME TypeOK
  PROVE  \A t \in Jobs : job[t].stage # "none" => job[t].msg \in Messages
BY DEF TypeOK, JobsOK, NoJob

\* Every step keeps the Ledger's part typed.
LEMMA LedgerType ==
  ASSUME TypeOK, [Next]_vars
  PROVE  LedgerOK'
<1>1. ASSUME NEW m \in Messages, LineUp(m)
      PROVE  LedgerOK'
  BY <1>1 DEF LineUp, TypeOK, LedgerOK
<1>2. ASSUME NEW m \in Messages, Unsure(m)
      PROVE  LedgerOK'
  BY <1>2 DEF Unsure, TypeOK, LedgerOK
<1>3. ASSUME NEW m \in Messages, Renewed(m)
      PROVE  LedgerOK'
  BY <1>3 DEF Renewed, TypeOK, LedgerOK
<1>4. ASSUME NEW m \in Messages, Lapses(m)
      PROVE  LedgerOK'
  BY <1>4 DEF Lapses, TypeOK, LedgerOK
<1>5. ASSUME NEW m \in Messages, DueComes(m)
      PROVE  LedgerOK'
  BY <1>5 DEF DueComes, TypeOK, LedgerOK
<1>6. ASSUME NEW t \in Jobs, PublishNot(t)
      PROVE  LedgerOK'
  BY <1>6, JobMsg DEF PublishNot, Withdraw, Freed, TypeOK, LedgerOK
<1>7. ASSUME NEW t \in Jobs, PublishTaken(t)
      PROVE  LedgerOK'
  BY <1>7, JobMsg DEF PublishTaken, TypeOK, LedgerOK
<1>8. ASSUME NEW t \in Jobs, PublishUnanswered(t)
      PROVE  LedgerOK'
  BY <1>8, JobMsg DEF PublishUnanswered, Withdraw, Freed, TypeOK, LedgerOK
<1>9. ASSUME NEW t \in Jobs, Published(t)
      PROVE  LedgerOK'
  BY <1>9, JobMsg DEF Published, TypeOK, LedgerOK
<1>10. ASSUME NEW t \in Jobs, Moved(t)
      PROVE  LedgerOK'
  BY <1>10, JobMsg DEF Moved, Own, TypeOK, LedgerOK
<1>11. ASSUME NEW t \in Jobs, PublishedUnclaimed(t)
      PROVE  LedgerOK'
  BY <1>11, JobMsg DEF PublishedUnclaimed, TypeOK, LedgerOK
<1>12. ASSUME NEW t \in Jobs, TakeGranted(t)
      PROVE  LedgerOK'
  BY <1>12, JobMsg DEF TakeGranted, TypeOK, LedgerOK
<1>13. ASSUME NEW t \in Jobs, TakeNotDue(t)
      PROVE  LedgerOK'
  BY <1>13, JobMsg DEF TakeNotDue, Untake, Reading, TypeOK, LedgerOK
<1>14. ASSUME NEW t \in Jobs, TakeNot(t)
      PROVE  LedgerOK'
  BY <1>14, JobMsg DEF TakeNot, Untake, Freed, TypeOK, LedgerOK
<1>15. ASSUME NEW t \in Jobs, TakeOwns(t)
      PROVE  LedgerOK'
  BY <1>15, JobMsg DEF TakeOwns, Own, TypeOK, LedgerOK
<1>16. ASSUME NEW t \in Jobs, NEW how \in {"completed", "failed", "waiting"}, HandsOn(t, how)
      PROVE  LedgerOK'
  BY <1>16, JobMsg DEF HandsOn, TypeOK, LedgerOK
<1>17. ASSUME NEW t \in Jobs, HandsOnNot(t)
      PROVE  LedgerOK'
  BY <1>17, JobMsg DEF HandsOnNot, TypeOK, LedgerOK
<1>18. ASSUME NEW t \in Jobs, Untried(t)
      PROVE  LedgerOK'
  BY <1>18, JobMsg DEF Untried, TypeOK, LedgerOK
<1>19. ASSUME NEW t \in Jobs, ReleaseUntried(t)
      PROVE  LedgerOK'
  BY <1>19, JobMsg DEF ReleaseUntried, TypeOK, LedgerOK
<1>20. ASSUME NEW t \in Jobs, Settle(t)
      PROVE  LedgerOK'
  BY <1>20, JobMsg DEF Settle, Reading, TypeOK, LedgerOK
<1>21. ASSUME NEW goesOff \in BOOLEAN, NEW all \in BOOLEAN, Wakes(goesOff, all)
      PROVE  LedgerOK'
  BY <1>21 DEF Wakes, At, TypeOK, LedgerOK
<1>22. ASSUME LooksForRoom
      PROVE  LedgerOK'
  BY <1>22 DEF LooksForRoom, Idle, TypeOK, LedgerOK
<1>23. ASSUME Starves
      PROVE  LedgerOK'
  BY <1>23 DEF Starves, At, TypeOK, LedgerOK
<1>24. ASSUME ReadsPage
      PROVE  LedgerOK'
  BY <1>24 DEF ReadsPage, TypeOK, LedgerOK
<1>25. ASSUME ReadUnanswered
      PROVE  LedgerOK'
  BY <1>25 DEF ReadUnanswered, TypeOK, LedgerOK
<1>26. ASSUME NEW m \in Messages, LooksKnown(m)
      PROVE  LedgerOK'
  BY <1>26 DEF LooksKnown, TypeOK, LedgerOK
<1>27. ASSUME NEW m \in Messages, LooksTakes(m)
      PROVE  LedgerOK'
  BY <1>27 DEF LooksTakes, TypeOK, LedgerOK
<1>28. ASSUME NEW m \in Messages, LooksFull(m)
      PROVE  LedgerOK'
  BY <1>28 DEF LooksFull, At, TypeOK, LedgerOK
<1>29. ASSUME StarvesFull
      PROVE  LedgerOK'
  BY <1>29 DEF StarvesFull, Waited, TypeOK, LedgerOK
<1>30. ASSUME PageDone
      PROVE  LedgerOK'
  BY <1>30 DEF PageDone, Waited, At, TypeOK, LedgerOK
<1>31. ASSUME Close
      PROVE  LedgerOK'
  BY <1>31 DEF Close, TypeOK, LedgerOK
<1>32. CASE UNCHANGED vars
  BY <1>32 DEF TypeOK, LedgerOK
<1> QED
  BY <1>1, <1>2, <1>3, <1>4, <1>5, <1>6, <1>7, <1>8, <1>9, <1>10, <1>11,
     <1>12, <1>13, <1>14, <1>15, <1>16, <1>17, <1>18, <1>19, <1>20, <1>21,
     <1>22, <1>23, <1>24, <1>25, <1>26, <1>27, <1>28, <1>29, <1>30, <1>31,
     <1>32
     DEF Next, Publication, Take, Ending, Standing, Dispatching

\* Every step keeps the places and wake-ups typed.
LEMMA PlacesType ==
  ASSUME TypeOK, [Next]_vars
  PROVE  PlacesOK'
<1>1. ASSUME NEW m \in Messages, LineUp(m)
      PROVE  PlacesOK'
  BY <1>1 DEF LineUp, TypeOK, PlacesOK
<1>2. ASSUME NEW m \in Messages, Unsure(m)
      PROVE  PlacesOK'
  BY <1>2 DEF Unsure, TypeOK, PlacesOK
<1>3. ASSUME NEW m \in Messages, Renewed(m)
      PROVE  PlacesOK'
  BY <1>3 DEF Renewed, TypeOK, PlacesOK
<1>4. ASSUME NEW m \in Messages, Lapses(m)
      PROVE  PlacesOK'
  BY <1>4 DEF Lapses, TypeOK, PlacesOK
<1>5. ASSUME NEW m \in Messages, DueComes(m)
      PROVE  PlacesOK'
  BY <1>5 DEF DueComes, TypeOK, PlacesOK
<1>6. ASSUME NEW t \in Jobs, PublishNot(t)
      PROVE  PlacesOK'
  <2>1. admitted' \in Nat
    BY <1>6 DEF PublishNot, Withdraw, Minus, TypeOK, PlacesOK
  <2>2. {starved', asked', at', noted', closed', missed'} \subseteq BOOLEAN
    BY <1>6 DEF PublishNot, Withdraw, Freed, TypeOK, PlacesOK
  <2> QED BY <1>6, <2>1, <2>2 DEF PublishNot, Untake, TypeOK, PlacesOK
<1>7. ASSUME NEW t \in Jobs, PublishTaken(t)
      PROVE  PlacesOK'
  BY <1>7, JobMsg DEF PublishTaken, TypeOK, PlacesOK, Minus
<1>8. ASSUME NEW t \in Jobs, PublishUnanswered(t)
      PROVE  PlacesOK'
  <2>1. admitted' \in Nat
    BY <1>8 DEF PublishUnanswered, Withdraw, Minus, TypeOK, PlacesOK
  <2>2. {starved', asked', at', noted', closed', missed'} \subseteq BOOLEAN
    BY <1>8 DEF PublishUnanswered, Withdraw, Freed, TypeOK, PlacesOK
  <2> QED BY <1>8, <2>1, <2>2 DEF PublishUnanswered, Untake, TypeOK, PlacesOK
<1>9. ASSUME NEW t \in Jobs, Published(t)
      PROVE  PlacesOK'
  BY <1>9, JobMsg DEF Published, TypeOK, PlacesOK, Minus
<1>10. ASSUME NEW t \in Jobs, Moved(t)
      PROVE  PlacesOK'
  BY <1>10, JobMsg DEF Moved, Own, TypeOK, PlacesOK, Minus
<1>11. ASSUME NEW t \in Jobs, PublishedUnclaimed(t)
      PROVE  PlacesOK'
  BY <1>11, JobMsg DEF PublishedUnclaimed, TypeOK, PlacesOK, Minus
<1>12. ASSUME NEW t \in Jobs, TakeGranted(t)
      PROVE  PlacesOK'
  BY <1>12, JobMsg DEF TakeGranted, TypeOK, PlacesOK, Minus
<1>13. ASSUME NEW t \in Jobs, TakeNotDue(t)
      PROVE  PlacesOK'
  <2>1. admitted' \in Nat
    BY <1>13 DEF TakeNotDue, Untake, Minus, TypeOK, PlacesOK
  <2>3. noted' = Reading
    BY <1>13 DEF TakeNotDue
  <2>4. Reading \in BOOLEAN
    BY DEF Reading
  <2>0. noted' \in BOOLEAN
    BY <2>3, <2>4
  <2>2. {starved', asked', at', noted', closed', missed'} \subseteq BOOLEAN
    BY <1>13, <2>0 DEF TakeNotDue, Freed, TypeOK, PlacesOK
  <2> QED BY <1>13, <2>1, <2>2 DEF TakeNotDue, Untake, TypeOK, PlacesOK
<1>14. ASSUME NEW t \in Jobs, TakeNot(t)
      PROVE  PlacesOK'
  <2>1. admitted' \in Nat
    BY <1>14 DEF TakeNot, Untake, Minus, TypeOK, PlacesOK
  <2>2. {starved', asked', at', noted', closed', missed'} \subseteq BOOLEAN
    BY <1>14 DEF TakeNot, Freed, TypeOK, PlacesOK
  <2> QED BY <1>14, <2>1, <2>2 DEF TakeNot, Untake, TypeOK, PlacesOK
<1>15. ASSUME NEW t \in Jobs, TakeOwns(t)
      PROVE  PlacesOK'
  <2>1. PICK m \in Messages : m = job[t].msg
    BY <1>15, JobMsg DEF TakeOwns
  <2>2. PICK b \in BOOLEAN : b = (claim[m] = t)
    OBVIOUS
  <2>3. /\ owned' = [owned EXCEPT ![m] = t] /\ sure' = [sure EXCEPT ![m] = b]
        /\ admitted' = Minus(admitted, 1) /\ taking' = taking \ {m}
        /\ UNCHANGED <<starved, asked, at, noted, closed, missed>>
    BY <1>15, <2>1, <2>2 DEF TakeOwns, Own
  <2>4. owned' \in [Messages -> Jobs \cup {0}] /\ sure' \in [Messages -> BOOLEAN]
    BY <2>3 DEF TypeOK, PlacesOK
  <2>5. admitted' \in Nat /\ taking' \subseteq Messages
    BY <2>3 DEF TypeOK, PlacesOK, Minus
  <2> QED BY <2>3, <2>4, <2>5 DEF TypeOK, PlacesOK
<1>16. ASSUME NEW t \in Jobs, NEW how \in {"completed", "failed", "waiting"}, HandsOn(t, how)
      PROVE  PlacesOK'
  BY <1>16, JobMsg DEF HandsOn, TypeOK, PlacesOK, Minus
<1>17. ASSUME NEW t \in Jobs, HandsOnNot(t)
      PROVE  PlacesOK'
  BY <1>17, JobMsg DEF HandsOnNot, TypeOK, PlacesOK, Minus
<1>18. ASSUME NEW t \in Jobs, Untried(t)
      PROVE  PlacesOK'
  BY <1>18, JobMsg DEF Untried, TypeOK, PlacesOK, Minus
<1>19. ASSUME NEW t \in Jobs, ReleaseUntried(t)
      PROVE  PlacesOK'
  BY <1>19, JobMsg DEF ReleaseUntried, TypeOK, PlacesOK, Minus
<1>20. ASSUME NEW t \in Jobs, Settle(t)
      PROVE  PlacesOK'
  BY <1>20, JobMsg DEF Settle, Reading, TypeOK, PlacesOK, Minus, Ends
<1>21. ASSUME NEW goesOff \in BOOLEAN, NEW all \in BOOLEAN, Wakes(goesOff, all)
      PROVE  PlacesOK'
  BY <1>21 DEF Wakes, At, TypeOK, PlacesOK
<1>22. ASSUME LooksForRoom
      PROVE  PlacesOK'
  BY <1>22 DEF LooksForRoom, Idle, TypeOK, PlacesOK
<1>23. ASSUME Starves
      PROVE  PlacesOK'
  BY <1>23 DEF Starves, At, TypeOK, PlacesOK
<1>24. ASSUME ReadsPage
      PROVE  PlacesOK'
  BY <1>24 DEF ReadsPage, TypeOK, PlacesOK
<1>25. ASSUME ReadUnanswered
      PROVE  PlacesOK'
  BY <1>25 DEF ReadUnanswered, TypeOK, PlacesOK
<1>26. ASSUME NEW m \in Messages, LooksKnown(m)
      PROVE  PlacesOK'
  BY <1>26 DEF LooksKnown, TypeOK, PlacesOK
<1>27. ASSUME NEW m \in Messages, LooksTakes(m)
      PROVE  PlacesOK'
  BY <1>27 DEF LooksTakes, TypeOK, PlacesOK
<1>28. ASSUME NEW m \in Messages, LooksFull(m)
      PROVE  PlacesOK'
  BY <1>28 DEF LooksFull, At, TypeOK, PlacesOK
<1>29. ASSUME StarvesFull
      PROVE  PlacesOK'
  BY <1>29 DEF StarvesFull, Waited, TypeOK, PlacesOK
<1>30. ASSUME PageDone
      PROVE  PlacesOK'
  BY <1>30 DEF PageDone, Waited, At, TypeOK, PlacesOK
<1>31. ASSUME Close
      PROVE  PlacesOK'
  BY <1>31 DEF Close, TypeOK, PlacesOK
<1>32. CASE UNCHANGED vars
  BY <1>32 DEF TypeOK, PlacesOK
<1> QED
  BY <1>1, <1>2, <1>3, <1>4, <1>5, <1>6, <1>7, <1>8, <1>9, <1>10, <1>11,
     <1>12, <1>13, <1>14, <1>15, <1>16, <1>17, <1>18, <1>19, <1>20, <1>21,
     <1>22, <1>23, <1>24, <1>25, <1>26, <1>27, <1>28, <1>29, <1>30, <1>31,
     <1>32
     DEF Next, Publication, Take, Ending, Standing, Dispatching

\* Every step keeps what the dispatching is at typed.
LEMMA ScanType ==
  ASSUME TypeOK, [Next]_vars
  PROVE  ScanOK'
<1>1. ASSUME NEW m \in Messages, LineUp(m)
      PROVE  ScanOK'
  BY <1>1 DEF LineUp, TypeOK, ScanOK, ScanRecords
<1>2. ASSUME NEW m \in Messages, Unsure(m)
      PROVE  ScanOK'
  BY <1>2 DEF Unsure, TypeOK, ScanOK, ScanRecords
<1>3. ASSUME NEW m \in Messages, Renewed(m)
      PROVE  ScanOK'
  BY <1>3 DEF Renewed, TypeOK, ScanOK, ScanRecords
<1>4. ASSUME NEW m \in Messages, Lapses(m)
      PROVE  ScanOK'
  BY <1>4 DEF Lapses, TypeOK, ScanOK, ScanRecords
<1>5. ASSUME NEW m \in Messages, DueComes(m)
      PROVE  ScanOK'
  BY <1>5 DEF DueComes, TypeOK, ScanOK, ScanRecords
<1>6. ASSUME NEW t \in Jobs, PublishNot(t)
      PROVE  ScanOK'
  BY <1>6 DEF PublishNot, Withdraw, Freed, TypeOK, ScanOK, ScanRecords
<1>7. ASSUME NEW t \in Jobs, PublishTaken(t)
      PROVE  ScanOK'
  BY <1>7 DEF PublishTaken, TypeOK, ScanOK, ScanRecords
<1>8. ASSUME NEW t \in Jobs, PublishUnanswered(t)
      PROVE  ScanOK'
  BY <1>8 DEF PublishUnanswered, Withdraw, Freed, TypeOK, ScanOK, ScanRecords
<1>9. ASSUME NEW t \in Jobs, Published(t)
      PROVE  ScanOK'
  BY <1>9 DEF Published, TypeOK, ScanOK, ScanRecords
<1>10. ASSUME NEW t \in Jobs, Moved(t)
      PROVE  ScanOK'
  BY <1>10 DEF Moved, Own, TypeOK, ScanOK, ScanRecords
<1>11. ASSUME NEW t \in Jobs, PublishedUnclaimed(t)
      PROVE  ScanOK'
  BY <1>11 DEF PublishedUnclaimed, TypeOK, ScanOK, ScanRecords
<1>12. ASSUME NEW t \in Jobs, TakeGranted(t)
      PROVE  ScanOK'
  BY <1>12 DEF TakeGranted, TypeOK, ScanOK, ScanRecords
<1>13. ASSUME NEW t \in Jobs, TakeNotDue(t)
      PROVE  ScanOK'
  BY <1>13 DEF TakeNotDue, Untake, Reading, TypeOK, ScanOK, ScanRecords
<1>14. ASSUME NEW t \in Jobs, TakeNot(t)
      PROVE  ScanOK'
  BY <1>14 DEF TakeNot, Untake, Freed, TypeOK, ScanOK, ScanRecords
<1>15. ASSUME NEW t \in Jobs, TakeOwns(t)
      PROVE  ScanOK'
  BY <1>15 DEF TakeOwns, Own, TypeOK, ScanOK, ScanRecords
<1>16. ASSUME NEW t \in Jobs, NEW how \in {"completed", "failed", "waiting"}, HandsOn(t, how)
      PROVE  ScanOK'
  BY <1>16 DEF HandsOn, TypeOK, ScanOK, ScanRecords
<1>17. ASSUME NEW t \in Jobs, HandsOnNot(t)
      PROVE  ScanOK'
  BY <1>17 DEF HandsOnNot, TypeOK, ScanOK, ScanRecords
<1>18. ASSUME NEW t \in Jobs, Untried(t)
      PROVE  ScanOK'
  BY <1>18 DEF Untried, TypeOK, ScanOK, ScanRecords
<1>19. ASSUME NEW t \in Jobs, ReleaseUntried(t)
      PROVE  ScanOK'
  BY <1>19 DEF ReleaseUntried, TypeOK, ScanOK, ScanRecords
<1>20. ASSUME NEW t \in Jobs, Settle(t)
      PROVE  ScanOK'
  BY <1>20 DEF Settle, Reading, TypeOK, ScanOK, ScanRecords
<1>21. ASSUME NEW goesOff \in BOOLEAN, NEW all \in BOOLEAN, Wakes(goesOff, all)
      PROVE  ScanOK'
  BY <1>21 DEF Wakes, At, TypeOK, ScanOK, ScanRecords
<1>22. ASSUME LooksForRoom
      PROVE  ScanOK'
  BY <1>22 DEF LooksForRoom, Idle, TypeOK, ScanOK, ScanRecords
<1>23. ASSUME Starves
      PROVE  ScanOK'
  BY <1>23 DEF Starves, At, TypeOK, ScanOK, ScanRecords
<1>24. ASSUME ReadsPage
      PROVE  ScanOK'
  BY <1>24 DEF ReadsPage, TypeOK, ScanOK, ScanRecords, DueUnread
<1>25. ASSUME ReadUnanswered
      PROVE  ScanOK'
  BY <1>25 DEF ReadUnanswered, TypeOK, ScanOK, ScanRecords, Idle
<1>26. ASSUME NEW m \in Messages, LooksKnown(m)
      PROVE  ScanOK'
  BY <1>26 DEF LooksKnown, TypeOK, ScanOK, ScanRecords
<1>27. ASSUME NEW m \in Messages, LooksTakes(m)
      PROVE  ScanOK'
  BY <1>27 DEF LooksTakes, TypeOK, ScanOK, ScanRecords
<1>28. ASSUME NEW m \in Messages, LooksFull(m)
      PROVE  ScanOK'
  BY <1>28 DEF LooksFull, At, TypeOK, ScanOK, ScanRecords
<1>29. ASSUME StarvesFull
      PROVE  ScanOK'
  BY <1>29 DEF StarvesFull, Waited, TypeOK, ScanOK, ScanRecords, Idle
<1>30. ASSUME PageDone
      PROVE  ScanOK'
  <2>1. CASE scan' = Idle
    BY <2>1 DEF Idle, ScanOK, ScanRecords
  <2>2. CASE scan' = [scan EXCEPT !.stage = "read"]
    BY <2>2 DEF TypeOK, ScanOK, ScanRecords
  <2> QED BY <1>30, <2>1, <2>2 DEF PageDone, Waited, At
<1>31. ASSUME Close
      PROVE  ScanOK'
  BY <1>31 DEF Close, TypeOK, ScanOK, ScanRecords
<1>32. CASE UNCHANGED vars
  BY <1>32 DEF TypeOK, ScanOK
<1> QED
  BY <1>1, <1>2, <1>3, <1>4, <1>5, <1>6, <1>7, <1>8, <1>9, <1>10, <1>11,
     <1>12, <1>13, <1>14, <1>15, <1>16, <1>17, <1>18, <1>19, <1>20, <1>21,
     <1>22, <1>23, <1>24, <1>25, <1>26, <1>27, <1>28, <1>29, <1>30, <1>31,
     <1>32
     DEF Next, Publication, Take, Ending, Standing, Dispatching

\* Every step keeps the types.
LEMMA TypeStep ==
  ASSUME TypeOK, [Next]_vars
  PROVE  TypeOK'
BY JobsType, LedgerType, PlacesType, ScanType DEF TypeOK

\* The types hold always (SendStep.state, and the Ledger's part of it).
THEOREM TypeCorrect == Spec => []TypeOK
<1>1. Init => TypeOK
  <2> SUFFICES ASSUME Init PROVE TypeOK
    OBVIOUS
  <2>0. limits.tries \in Nat /\ 0 \in 0 .. limits.tries
    BY DEF Init
  <2>1. LedgerOK /\ PlacesOK
    BY <2>0 DEF Init, LedgerOK, PlacesOK
  <2>2. JobsOK
    BY DEF Init, JobsOK, JobRecords, NoJob
  <2>3. ScanOK
    BY DEF Init, ScanOK, ScanRecords, Idle
  <2> QED BY <2>1, <2>2, <2>3 DEF TypeOK
<1>2. TypeOK /\ [Next]_vars => TypeOK'
  BY TypeStep
<1> QED BY <1>1, <1>2, PTL DEF Spec

----------------------------------------------------------------------------
(* What each step does to the jobs.                                        *)

Alone(t) == \A u \in Jobs : u # t => job'[u] = job[u]

\* The job t goes from one stage to another, its place kept only as written.
Went(t, from, to) ==
  /\ job[t].stage = from /\ job[t].msg \in Messages
  /\ job'[t].msg = job[t].msg /\ job'[t].stage = to
  /\ job'[t].place = (job[t].place /\ to = "written")
  /\ Alone(t)

\* The job t, at one of some stages, is over.
WasOver(t, from) == job[t].stage \in from /\ job[t].msg \in Messages /\ job'[t] = NoJob /\ Alone(t)

\* A job for m begins.
Began(t, m, s, p) ==
  job[t] = NoJob /\ job'[t] = [msg |-> m, stage |-> s, place |-> p] /\ Alone(t)

\* Where a job goes, by what it does.
LEMMA GoEach ==
  ASSUME TypeOK, NEW t \in Jobs
  PROVE  /\ PublishTaken(t) => Went(t, "lined", "written")
         /\ Published(t) => Went(t, "written", "handed")
         /\ Moved(t) => Went(t, "written", "handed")
         /\ TakeGranted(t) => Went(t, "taking", "claimed")
         /\ TakeOwns(t) => Went(t, "claimed", "sending")
         /\ \A how \in {"completed", "failed", "waiting"} : HandsOn(t, how) => Went(t, "sending", how)
         /\ HandsOnNot(t) => \E how \in {"unwritten", "lost"} : Went(t, "sending", how)
         /\ Untried(t) => Went(t, "sending", "untried")
         /\ ReleaseUntried(t) => Went(t, "untried", "released")
<1>0. JobsOK
  BY DEF TypeOK
<1>1. ASSUME NEW from \in Stages \ {"handed"}, NEW to \in Stages, job[t].stage = from, Goes(t, to),
             from = "lined" \/ to # "written"
      PROVE  Went(t, from, to)
  <2>1. job'[t].msg = job[t].msg /\ job'[t].stage = to
    BY <1>0, <1>1 DEF Goes, JobsOK, JobRecords
  <2>2. job'[t].place = (job[t].place /\ to = "written") /\ Alone(t)
    BY <1>0, <1>1 DEF Goes, JobsOK, JobRecords, Alone
  <2>3. job[t].msg \in Messages
    BY <1>1, JobMsg DEF Stages, Ends
  <2> QED BY <1>1, <2>1, <2>2, <2>3 DEF Went
<1>2. PublishTaken(t) => Went(t, "lined", "written")
  BY <1>1 DEF PublishTaken, Stages
<1>3. Published(t) => Went(t, "written", "handed")
  BY <1>1 DEF Published, Stages
<1>4. Moved(t) => Went(t, "written", "handed")
  BY <1>1 DEF Moved, Stages
<1>5. TakeGranted(t) => Went(t, "taking", "claimed")
  BY <1>1 DEF TakeGranted, Stages
<1>6. TakeOwns(t) => Went(t, "claimed", "sending")
  BY <1>1 DEF TakeOwns, Stages
<1>7. ASSUME NEW how \in {"completed", "failed", "waiting"}, HandsOn(t, how)
      PROVE  Went(t, "sending", how)
  <2>1. job[t].stage = "sending" /\ Goes(t, how)
    BY <1>7 DEF HandsOn
  <2> QED BY <1>1, <2>1 DEF Stages, Ends
<1>8. HandsOnNot(t) => \E how \in {"unwritten", "lost"} : Went(t, "sending", how)
  <2> SUFFICES ASSUME HandsOnNot(t) PROVE \E how \in {"unwritten", "lost"} : Went(t, "sending", how)
    OBVIOUS
  <2>1. PICK how \in {"unwritten", "lost"} : job[t].stage = "sending" /\ Goes(t, how)
    BY DEF HandsOnNot
  <2> QED BY <1>1, <2>1 DEF Stages, Ends
<1>9. Untried(t) => Went(t, "sending", "untried")
  BY <1>1 DEF Untried, Stages, Ends
<1>10. ReleaseUntried(t) => Went(t, "untried", "released")
  BY <1>1 DEF ReleaseUntried, Stages, Ends
<1> QED BY <1>2, <1>3, <1>4, <1>5, <1>6, <1>7, <1>8, <1>9, <1>10

\* Which jobs end, by what they do.
LEMMA OverEach ==
  ASSUME TypeOK, NEW t \in Jobs
  PROVE  /\ PublishNot(t) => WasOver(t, {"lined"})
         /\ PublishUnanswered(t) => WasOver(t, {"written"})
         /\ PublishedUnclaimed(t) => WasOver(t, {"written"})
         /\ TakeNotDue(t) => WasOver(t, {"taking"})
         /\ TakeNot(t) => WasOver(t, {"taking"})
         /\ Settle(t) => WasOver(t, Ends \ {"untried"})
<1>1. ASSUME NEW from \in SUBSET Stages, job[t].stage \in from, Over(t)
      PROVE  WasOver(t, from)
  <2>1. job'[t] = NoJob /\ Alone(t)
    BY <1>1 DEF Over, TypeOK, JobsOK, Alone
  <2>2. job[t].msg \in Messages
    BY <1>1, JobMsg DEF Stages, Ends
  <2> QED BY <1>1, <2>1, <2>2 DEF WasOver
<1>2. PublishNot(t) => WasOver(t, {"lined"})
  BY <1>1 DEF PublishNot, Stages
<1>3. PublishUnanswered(t) => WasOver(t, {"written"})
  BY <1>1 DEF PublishUnanswered, Stages
<1>4. PublishedUnclaimed(t) => WasOver(t, {"written"})
  BY <1>1 DEF PublishedUnclaimed, Stages
<1>5. TakeNotDue(t) => WasOver(t, {"taking"})
  BY <1>1 DEF TakeNotDue, Stages
<1>6. TakeNot(t) => WasOver(t, {"taking"})
  BY <1>1 DEF TakeNot, Stages
<1>7. Settle(t) => WasOver(t, Ends \ {"untried"})
  BY <1>1 DEF Settle, Stages
<1> QED BY <1>2, <1>3, <1>4, <1>5, <1>6, <1>7

\* Which jobs begin, under a place where there is room.
LEMMA BeginEach ==
  ASSUME TypeOK, NEW m \in Messages
  PROVE  /\ LineUp(m) /\ Room > 0 => \E t \in Jobs : Began(t, m, "lined", TRUE)
         /\ LineUp(m) /\ Room = 0 => \E t \in Jobs : Began(t, m, "lined", FALSE)
         /\ LooksTakes(m) => \E t \in Jobs : Began(t, m, "found", FALSE)
<1>1. ASSUME NEW t \in Jobs, Fresh(t), NEW s, NEW p, Starts(t, m, s, p)
      PROVE  Began(t, m, s, p)
  BY <1>1 DEF Fresh, FreeJobs, Starts, Began, Alone, TypeOK, JobsOK
<1>2. ASSUME LineUp(m), Room > 0
      PROVE  \E t \in Jobs : Began(t, m, "lined", TRUE)
  <2>1. PICK t \in Jobs : Fresh(t) /\ Starts(t, m, "lined", Room > 0)
    BY <1>2 DEF LineUp
  <2>2. (Room > 0) \in BOOLEAN
    BY RoomType
  <2>3. Starts(t, m, "lined", TRUE)
    BY <1>2, <2>1, <2>2, Zenon
  <2> QED BY <1>1, <2>1, <2>3
<1>4. ASSUME LineUp(m), Room = 0
      PROVE  \E t \in Jobs : Began(t, m, "lined", FALSE)
  <2>1. PICK t \in Jobs : Fresh(t) /\ Starts(t, m, "lined", Room > 0)
    BY <1>4 DEF LineUp
  <2>2. (Room > 0) \in BOOLEAN /\ ~(Room > 0)
    BY <1>4, RoomType
  <2>3. Starts(t, m, "lined", FALSE)
    BY <2>1, <2>2, Zenon
  <2> QED BY <1>1, <2>1, <2>3
<1>3. LooksTakes(m) => \E t \in Jobs : Began(t, m, "found", FALSE)
  BY <1>1 DEF LooksTakes
<1> QED BY <1>2, <1>3, <1>4

\* What goes to the pool's threads keeps its Message and its place.
LEMMA PoolEach ==
  ASSUME TypeOK
  PROVE  /\ \A goesOff, all \in BOOLEAN : Wakes(goesOff, all) =>
              \A t \in Jobs : \/ job'[t] = job[t]
                              \/ /\ job[t].stage = "handed" /\ job'[t].stage = "sending"
                                 /\ job'[t].msg = job[t].msg /\ job'[t].place = job[t].place
         /\ ToThePool =>
              \A t \in Jobs : \/ job'[t] = job[t]
                              \/ /\ job[t].stage = "found" /\ job'[t].stage = "taking"
                                 /\ job'[t].msg = job[t].msg /\ job'[t].place = job[t].place
<1>1. ASSUME NEW goesOff \in BOOLEAN, NEW all \in BOOLEAN, Wakes(goesOff, all), NEW t \in Jobs,
             job'[t] # job[t]
      PROVE  /\ job[t].stage = "handed" /\ job'[t].stage = "sending"
             /\ job'[t].msg = job[t].msg /\ job'[t].place = job[t].place
  BY <1>1 DEF Wakes, TypeOK, JobsOK, JobRecords
<1>2. ASSUME ToThePool, NEW t \in Jobs, job'[t] # job[t]
      PROVE  /\ job[t].stage = "found" /\ job'[t].stage = "taking"
             /\ job'[t].msg = job[t].msg /\ job'[t].place = job[t].place
  BY <1>2 DEF ToThePool, TypeOK, JobsOK, JobRecords
<1> QED BY <1>1, <1>2

----------------------------------------------------------------------------
(* Wake-ups.                                                               *)

Woken ==
  /\ scan.stage = "idle" => asked \/ starved \/ at \/ missed
  /\ scan.stage = "read" => scan.seen = {} \/ scan.waits \/ noted
  /\ scan.stage = "look" => scan.waits \/ noted
  /\ scan.stage # "over"

OverClosed == scan.stage = "over" => closed

\* The dispatching ends only once the step is closed.
LEMMA OverStep ==
  ASSUME TypeOK, OverClosed, [Next]_vars
  PROVE  OverClosed'
<1>1. ASSUME NEW m \in Messages, LineUp(m)
      PROVE  OverClosed'
  BY <1>1 DEF LineUp, OverClosed, TypeOK, ScanOK, ScanRecords
<1>2. ASSUME NEW m \in Messages, Unsure(m)
      PROVE  OverClosed'
  BY <1>2 DEF Unsure, OverClosed, TypeOK, ScanOK, ScanRecords
<1>3. ASSUME NEW m \in Messages, Renewed(m)
      PROVE  OverClosed'
  BY <1>3 DEF Renewed, OverClosed, TypeOK, ScanOK, ScanRecords
<1>4. ASSUME NEW m \in Messages, Lapses(m)
      PROVE  OverClosed'
  BY <1>4 DEF Lapses, OverClosed, TypeOK, ScanOK, ScanRecords
<1>5. ASSUME NEW m \in Messages, DueComes(m)
      PROVE  OverClosed'
  BY <1>5 DEF DueComes, OverClosed, TypeOK, ScanOK, ScanRecords
<1>6. ASSUME NEW t \in Jobs, PublishNot(t)
      PROVE  OverClosed'
  BY <1>6 DEF PublishNot, OverClosed, TypeOK, ScanOK, ScanRecords
<1>7. ASSUME NEW t \in Jobs, PublishTaken(t)
      PROVE  OverClosed'
  BY <1>7 DEF PublishTaken, OverClosed, TypeOK, ScanOK, ScanRecords
<1>8. ASSUME NEW t \in Jobs, PublishUnanswered(t)
      PROVE  OverClosed'
  BY <1>8 DEF PublishUnanswered, OverClosed, TypeOK, ScanOK, ScanRecords
<1>9. ASSUME NEW t \in Jobs, Published(t)
      PROVE  OverClosed'
  BY <1>9 DEF Published, OverClosed, TypeOK, ScanOK, ScanRecords
<1>10. ASSUME NEW t \in Jobs, Moved(t)
      PROVE  OverClosed'
  BY <1>10 DEF Moved, OverClosed, TypeOK, ScanOK, ScanRecords
<1>11. ASSUME NEW t \in Jobs, PublishedUnclaimed(t)
      PROVE  OverClosed'
  BY <1>11 DEF PublishedUnclaimed, OverClosed, TypeOK, ScanOK, ScanRecords
<1>12. ASSUME NEW t \in Jobs, TakeGranted(t)
      PROVE  OverClosed'
  BY <1>12 DEF TakeGranted, OverClosed, TypeOK, ScanOK, ScanRecords
<1>13. ASSUME NEW t \in Jobs, TakeNotDue(t)
      PROVE  OverClosed'
  BY <1>13 DEF TakeNotDue, OverClosed, TypeOK, ScanOK, ScanRecords
<1>14. ASSUME NEW t \in Jobs, TakeNot(t)
      PROVE  OverClosed'
  BY <1>14 DEF TakeNot, OverClosed, TypeOK, ScanOK, ScanRecords
<1>15. ASSUME NEW t \in Jobs, TakeOwns(t)
      PROVE  OverClosed'
  BY <1>15 DEF TakeOwns, OverClosed, TypeOK, ScanOK, ScanRecords
<1>16. ASSUME NEW t \in Jobs, NEW how \in {"completed", "failed", "waiting"}, HandsOn(t, how)
      PROVE  OverClosed'
  BY <1>16 DEF HandsOn, OverClosed, TypeOK, ScanOK, ScanRecords
<1>17. ASSUME NEW t \in Jobs, HandsOnNot(t)
      PROVE  OverClosed'
  BY <1>17 DEF HandsOnNot, OverClosed, TypeOK, ScanOK, ScanRecords
<1>18. ASSUME NEW t \in Jobs, Untried(t)
      PROVE  OverClosed'
  BY <1>18 DEF Untried, OverClosed, TypeOK, ScanOK, ScanRecords
<1>19. ASSUME NEW t \in Jobs, ReleaseUntried(t)
      PROVE  OverClosed'
  BY <1>19 DEF ReleaseUntried, OverClosed, TypeOK, ScanOK, ScanRecords
<1>20. ASSUME NEW t \in Jobs, Settle(t)
      PROVE  OverClosed'
  BY <1>20 DEF Settle, OverClosed, TypeOK, ScanOK, ScanRecords
<1>21. ASSUME NEW goesOff \in BOOLEAN, NEW all \in BOOLEAN, Wakes(goesOff, all)
      PROVE  OverClosed'
  BY <1>21 DEF Wakes, At, OverClosed, TypeOK, ScanOK, ScanRecords
<1>22. ASSUME LooksForRoom
      PROVE  OverClosed'
  BY <1>22 DEF LooksForRoom, Idle, OverClosed, TypeOK, ScanOK, ScanRecords
<1>23. ASSUME Starves
      PROVE  OverClosed'
  BY <1>23 DEF Starves, At, OverClosed, TypeOK, ScanOK, ScanRecords
<1>24. ASSUME ReadsPage
      PROVE  OverClosed'
  BY <1>24 DEF ReadsPage, OverClosed, TypeOK, ScanOK, ScanRecords
<1>25. ASSUME ReadUnanswered
      PROVE  OverClosed'
  BY <1>25 DEF ReadUnanswered, Idle, OverClosed, TypeOK, ScanOK, ScanRecords
<1>26. ASSUME NEW m \in Messages, LooksKnown(m)
      PROVE  OverClosed'
  BY <1>26 DEF LooksKnown, OverClosed, TypeOK, ScanOK, ScanRecords
<1>27. ASSUME NEW m \in Messages, LooksTakes(m)
      PROVE  OverClosed'
  BY <1>27 DEF LooksTakes, OverClosed, TypeOK, ScanOK, ScanRecords
<1>28. ASSUME NEW m \in Messages, LooksFull(m)
      PROVE  OverClosed'
  BY <1>28 DEF LooksFull, At, OverClosed, TypeOK, ScanOK, ScanRecords
<1>29. ASSUME StarvesFull
      PROVE  OverClosed'
  BY <1>29 DEF StarvesFull, Waited, Idle, OverClosed, TypeOK, ScanOK, ScanRecords
<1>30. ASSUME PageDone
      PROVE  OverClosed'
  <2>1. scan' = Idle \/ scan' = [scan EXCEPT !.stage = "read"]
    BY <1>30 DEF PageDone, Waited, At
  <2> QED BY <2>1 DEF Idle, OverClosed, TypeOK, ScanOK, ScanRecords
<1>31. ASSUME Close
      PROVE  OverClosed'
  BY <1>31 DEF Close, OverClosed, TypeOK, ScanOK, ScanRecords
<1>32. CASE UNCHANGED vars
  BY <1>32 DEF OverClosed
<1> QED
  BY <1>1, <1>2, <1>3, <1>4, <1>5, <1>6, <1>7, <1>8, <1>9, <1>10, <1>11,
     <1>12, <1>13, <1>14, <1>15, <1>16, <1>17, <1>18, <1>19, <1>20, <1>21,
     <1>22, <1>23, <1>24, <1>25, <1>26, <1>27, <1>28, <1>29, <1>30, <1>31,
     <1>32
     DEF Next, Publication, Take, Ending, Standing, Dispatching

\* A Message left for later stays woken for.
LEMMA WokenStep ==
  ASSUME TypeOK, OverClosed, WokenInv, [Next]_vars
  PROVE  WokenInv'
<1> SUFFICES ASSUME NEW x \in Messages, LeftLater(x)'
             PROVE  Woken'
  BY DEF WokenInv, Woken
<1>1. ASSUME NEW m \in Messages, LineUp(m)
      PROVE  Woken'
  <2>3. Room > 0 \/ Room = 0
    BY RoomType
  <2>2. PICK t \in Jobs : job[t] = NoJob /\ Alone(t)
    BY <1>1, <2>3, BeginEach DEF Began
  <2>1. LeftLater(x)
    BY <1>1, <2>2 DEF LineUp, Alone, NoJob, LeftLater
  <2> QED BY <1>1, <2>1 DEF LineUp, WokenInv, Woken, TypeOK, ScanOK, ScanRecords
<1>2. ASSUME NEW m \in Messages, Unsure(m)
      PROVE  Woken'
  <2>1. LeftLater(x)
    BY <1>2 DEF Unsure, LeftLater
  <2> QED BY <1>2, <2>1 DEF Unsure, WokenInv, Woken, TypeOK, ScanOK, ScanRecords
<1>3. ASSUME NEW m \in Messages, Renewed(m)
      PROVE  Woken'
  <2>1. LeftLater(x)
    BY <1>3 DEF Renewed, LeftLater
  <2> QED BY <1>3, <2>1 DEF Renewed, WokenInv, Woken, TypeOK, ScanOK, ScanRecords
<1>4. ASSUME NEW m \in Messages, Lapses(m)
      PROVE  Woken'
  <2>1. LeftLater(x)
    BY <1>4 DEF Lapses, LeftLater
  <2> QED BY <1>4, <2>1 DEF Lapses, WokenInv, Woken, TypeOK, ScanOK, ScanRecords
<1>5. ASSUME NEW m \in Messages, DueComes(m)
      PROVE  Woken'
  <2>1. LeftLater(x)
    BY <1>5 DEF DueComes, LeftLater, TypeOK, LedgerOK
  <2> QED BY <1>5, <2>1 DEF DueComes, WokenInv, Woken
<1>6. ASSUME NEW t \in Jobs, PublishNot(t)
      PROVE  Woken'
  <2>1. LeftLater(x)
    BY <1>6, OverEach DEF PublishNot, WasOver, Alone, LeftLater, TypeOK, LedgerOK
  <2>2. (asked \/ starved => asked' \/ starved') /\ at' = at /\ noted' = noted
    <3>1. Freed \/ UNCHANGED wakeVars
      BY <1>6 DEF PublishNot, Withdraw
    <3>2. {asked, starved} \subseteq BOOLEAN
      BY DEF TypeOK, PlacesOK
    <3>3. CASE Freed
      BY <3>2, <3>3 DEF Freed
    <3> QED BY <3>1, <3>3
  <2> QED BY <1>6, <2>1, <2>2 DEF PublishNot, WokenInv, Woken
<1>7. ASSUME NEW t \in Jobs, PublishTaken(t)
      PROVE  Woken'
  <2>1. LeftLater(x)
    BY <1>7, GoEach DEF PublishTaken, Went, Alone, LeftLater, TypeOK, LedgerOK
  <2> QED BY <1>7, <2>1 DEF PublishTaken, WokenInv, Woken
<1>8. ASSUME NEW t \in Jobs, PublishUnanswered(t)
      PROVE  Woken'
  <2>1. LeftLater(x)
    BY <1>8, OverEach DEF PublishUnanswered, WasOver, Alone, LeftLater
  <2>2. (asked \/ starved => asked' \/ starved') /\ at' = at /\ noted' = noted
    <3>1. Freed \/ UNCHANGED wakeVars
      BY <1>8 DEF PublishUnanswered, Withdraw
    <3>2. {asked, starved} \subseteq BOOLEAN
      BY DEF TypeOK, PlacesOK
    <3>3. CASE Freed
      BY <3>2, <3>3 DEF Freed
    <3> QED BY <3>1, <3>3
  <2> QED BY <1>8, <2>1, <2>2 DEF PublishUnanswered, WokenInv, Woken
<1>9. ASSUME NEW t \in Jobs, Published(t)
      PROVE  Woken'
  <2>1. LeftLater(x)
    BY <1>9, GoEach DEF Published, Went, Alone, LeftLater
  <2> QED BY <1>9, <2>1 DEF Published, WokenInv, Woken
<1>10. ASSUME NEW t \in Jobs, Moved(t)
      PROVE  Woken'
  <2>1. LeftLater(x)
    BY <1>10, GoEach DEF Moved, Went, Alone, LeftLater
  <2> QED BY <1>10, <2>1 DEF Moved, WokenInv, Woken
<1>11. ASSUME NEW t \in Jobs, PublishedUnclaimed(t)
      PROVE  Woken'
  <2>1. LeftLater(x)
    BY <1>11, OverEach DEF PublishedUnclaimed, WasOver, Alone, LeftLater
  <2> QED BY <1>11, <2>1 DEF PublishedUnclaimed, WokenInv, Woken
<1>12. ASSUME NEW t \in Jobs, TakeGranted(t)
      PROVE  Woken'
  <2>1. LeftLater(x)
    BY <1>12, GoEach DEF TakeGranted, Went, Alone, LeftLater
  <2> QED BY <1>12, <2>1 DEF TakeGranted, WokenInv, Woken
<1>13. ASSUME NEW t \in Jobs, TakeNotDue(t)
      PROVE  Woken'
  <2>1. at' /\ (Reading => noted')
    BY <1>13 DEF TakeNotDue
  <2>2. scan' = scan /\ scan.stage # "over"
    BY <1>13 DEF TakeNotDue, LeftLater, OverClosed
  <2> QED BY <2>1, <2>2 DEF Woken, Reading
<1>14. ASSUME NEW t \in Jobs, TakeNot(t)
      PROVE  Woken'
  <2>1. LeftLater(x)
    BY <1>14, OverEach DEF TakeNot, WasOver, Alone, LeftLater
  <2> QED BY <1>14, <2>1 DEF TakeNot, Untake, Freed, WokenInv, Woken
<1>15. ASSUME NEW t \in Jobs, TakeOwns(t)
      PROVE  Woken'
  <2>1. LeftLater(x)
    BY <1>15, GoEach DEF TakeOwns, Went, Alone, LeftLater
  <2> QED BY <1>15, <2>1 DEF TakeOwns, WokenInv, Woken
<1>16. ASSUME NEW t \in Jobs, NEW how \in {"completed", "failed", "waiting"}, HandsOn(t, how)
      PROVE  Woken'
  <2>1. Went(t, "sending", how)
    BY <1>16, GoEach
  <2>2. x # job[t].msg
    BY <1>16, <2>1 DEF HandsOn, LeftLater, Went, TypeOK, LedgerOK
  <2>3. LeftLater(x)
    BY <1>16, <2>1, <2>2 DEF HandsOn, LeftLater, Went, Alone, TypeOK, LedgerOK
  <2> QED BY <1>16, <2>3 DEF HandsOn, WokenInv, Woken
<1>17. ASSUME NEW t \in Jobs, HandsOnNot(t)
      PROVE  Woken'
  <2>1. LeftLater(x)
    BY <1>17, GoEach DEF HandsOnNot, Went, Alone, LeftLater
  <2> QED BY <1>17, <2>1 DEF HandsOnNot, WokenInv, Woken
<1>18. ASSUME NEW t \in Jobs, Untried(t)
      PROVE  Woken'
  <2>1. LeftLater(x)
    BY <1>18, GoEach DEF Untried, Went, Alone, LeftLater
  <2> QED BY <1>18, <2>1 DEF Untried, WokenInv, Woken
<1>19. ASSUME NEW t \in Jobs, ReleaseUntried(t)
      PROVE  Woken'
  <2>1. LeftLater(x)
    BY <1>19, GoEach DEF ReleaseUntried, Went, Alone, LeftLater
  <2> QED BY <1>19, <2>1 DEF ReleaseUntried, WokenInv, Woken
<1>20. ASSUME NEW t \in Jobs, Settle(t)
      PROVE  Woken'
  <2>1. WasOver(t, Ends \ {"untried"})
    BY <1>20, OverEach
  <2>2. CASE job[t].stage = "waiting"
    <3>1. at' /\ (Reading => noted')
      BY <1>20, <2>2 DEF Settle
    <3>2. scan' = scan /\ scan.stage # "over"
      BY <1>20 DEF Settle, LeftLater, OverClosed
    <3> QED BY <3>1, <3>2 DEF Woken, Reading
  <2>3. CASE job[t].stage # "waiting"
    <3>1. LeftLater(x)
      BY <1>20, <2>1, <2>3 DEF Settle, WasOver, Alone, LeftLater
    <3> QED BY <1>20, <3>1 DEF Settle, WokenInv, Woken
  <2> QED BY <2>2, <2>3
<1>21. ASSUME NEW goesOff \in BOOLEAN, NEW all \in BOOLEAN, Wakes(goesOff, all)
      PROVE  Woken'
  <2>1. LeftLater(x)
    BY <1>21, PoolEach DEF Wakes, LeftLater
  <2>2. ~closed /\ scan.stage = "idle" /\ (asked \/ starved \/ at \/ missed)
    BY <1>21, <2>1 DEF Wakes, LeftLater, WokenInv
  <2>3. CASE asked \/ goesOff \/ all
    BY <1>21, <2>2, <2>3 DEF Wakes, At, Woken, TypeOK, ScanOK, ScanRecords
  <2>4. CASE ~(asked \/ goesOff \/ all)
    BY <1>21, <2>2, <2>4 DEF Wakes, At, Woken, TypeOK, ScanOK, ScanRecords
  <2> QED BY <2>3, <2>4
<1>22. ASSUME LooksForRoom
      PROVE  Woken'
  <2>1. LeftLater(x)
    BY <1>22 DEF LooksForRoom, LeftLater
  <2> QED BY <1>22, <2>1 DEF LooksForRoom, Idle, WokenInv, Woken, TypeOK, ScanOK, ScanRecords
<1>23. ASSUME Starves
      PROVE  Woken'
  <2>1. LeftLater(x)
    BY <1>23 DEF Starves, LeftLater
  <2> QED BY <1>23, <2>1 DEF Starves, At, WokenInv, Woken, TypeOK, ScanOK, ScanRecords
<1>24. ASSUME ReadsPage
      PROVE  Woken'
  <2>1. entry[x] = "later"
    BY <1>24 DEF ReadsPage, LeftLater
  <2>2. PICK page \in SUBSET DueUnread :
          scan' = [stage |-> "look", seen |-> scan.seen \cup page, page |-> page,
                   last |-> Cardinality(page) < Page,
                   waits |-> scan.waits \/ \E m \in Messages : entry[m] = "later"]
    BY <1>24 DEF ReadsPage
  <2>3. \E m \in Messages : entry[m] = "later"
    BY <2>1
  <2>4. scan'.stage = "look" /\ scan'.waits
    BY <2>2, <2>3
  <2> QED BY <2>4 DEF Woken
<1>25. ASSUME ReadUnanswered
      PROVE  Woken'
  <2>1. LeftLater(x)
    BY <1>25, PoolEach DEF ReadUnanswered, Idle, LeftLater
  <2> QED BY <1>25, <2>1 DEF ReadUnanswered, Idle, WokenInv, Woken
<1>26. ASSUME NEW m \in Messages, LooksKnown(m)
      PROVE  Woken'
  <2>1. LeftLater(x)
    BY <1>26 DEF LooksKnown, LeftLater
  <2> QED BY <1>26, <2>1 DEF LooksKnown, WokenInv, Woken, TypeOK, ScanOK, ScanRecords
<1>27. ASSUME NEW m \in Messages, LooksTakes(m)
      PROVE  Woken'
  <2>2. PICK t \in Jobs : job[t] = NoJob /\ Alone(t)
    BY <1>27, BeginEach DEF Began
  <2>1. LeftLater(x)
    BY <1>27, <2>2 DEF LooksTakes, Alone, NoJob, LeftLater
  <2> QED BY <1>27, <2>1 DEF LooksTakes, WokenInv, Woken, TypeOK, ScanOK, ScanRecords
<1>28. ASSUME NEW m \in Messages, LooksFull(m)
      PROVE  Woken'
  <2>1. LeftLater(x)
    BY <1>28 DEF LooksFull, LeftLater
  <2> QED BY <1>28, <2>1 DEF LooksFull, At, WokenInv, Woken, TypeOK, ScanOK, ScanRecords
<1>29. ASSUME StarvesFull
      PROVE  Woken'
  <2>1. LeftLater(x)
    BY <1>29, PoolEach DEF StarvesFull, Waited, Idle, LeftLater
  <2> QED BY <1>29, <2>1 DEF StarvesFull, Waited, Idle, WokenInv, Woken
<1>30. ASSUME PageDone
      PROVE  Woken'
  <2>1. CASE scan.last
    <3>1. LeftLater(x)
      BY <1>30, <2>1, PoolEach DEF PageDone, Waited, LeftLater
    <3>2. scan.waits \/ noted
      BY <1>30, <3>1 DEF PageDone, WokenInv
    <3>3. at' /\ scan'.stage = "idle"
      <4>1. at' = (scan.waits \/ noted) /\ scan' = Idle
        BY <1>30, <2>1 DEF PageDone, Waited
      <4> QED BY <3>2, <4>1 DEF Idle, TypeOK, PlacesOK, ScanOK, ScanRecords
    <3> QED BY <3>3 DEF Woken
  <2>2. CASE ~scan.last
    <3>1. LeftLater(x)
      BY <1>30, <2>2 DEF PageDone, LeftLater
    <3> QED BY <1>30, <2>2, <3>1 DEF PageDone, At, WokenInv, Woken, TypeOK, ScanOK, ScanRecords
  <2> QED BY <2>1, <2>2
<1>31. ASSUME Close
      PROVE  Woken'
  BY <1>31 DEF Close, LeftLater
<1>32. CASE UNCHANGED vars
  BY <1>32 DEF LeftLater, WokenInv, Woken
<1> QED
  BY <1>1, <1>2, <1>3, <1>4, <1>5, <1>6, <1>7, <1>8, <1>9, <1>10, <1>11,
     <1>12, <1>13, <1>14, <1>15, <1>16, <1>17, <1>18, <1>19, <1>20, <1>21,
     <1>22, <1>23, <1>24, <1>25, <1>26, <1>27, <1>28, <1>29, <1>30, <1>31,
     <1>32
     DEF Next, Publication, Take, Ending, Standing, Dispatching

\* A Message left for a retry is woken for, whichever reads, hand-ons and
\* settling threads interleave (due.rs: what is noted while a queue is read).
THEOREM RetriesWoken == Spec => []WakeKept
<1>1. Init => OverClosed /\ WokenInv
  BY DEF Init, OverClosed, WokenInv, LeftLater, Idle
<1>2. TypeOK /\ OverClosed /\ WokenInv /\ [Next]_vars => (OverClosed /\ WokenInv)'
  BY OverStep, WokenStep
<1>3. TypeOK /\ WokenInv => WakeKept
  BY DEF TypeOK, ScanOK, ScanRecords, WokenInv, LeftLater, WakeKept, WokenFor
<1> QED BY <1>1, <1>2, <1>3, TypeCorrect, PTL DEF Spec

----------------------------------------------------------------------------
(* Places.                                                                 *)

\* The jobs with a place are finitely many.
LEMMA PlacedFinite == IsFiniteSet(Placed) /\ Cardinality(Placed) \in Nat
BY FS_Subset, FS_CardinalityType DEF Placed

\* Only what is lined up or written carries a place of its own.
LEMMA PlaceStage ==
  ASSUME TypeOK, NEW t \in Jobs, job[t].place
  PROVE  job[t].stage \in {"lined", "written"}
BY DEF TypeOK, JobsOK, NoJob

\* What a job's step does to the jobs with a place.
LEMMA WentKeeps ==
  ASSUME TypeOK, NEW t \in Jobs, NEW from, NEW to, Went(t, from, to),
         \/ from = "lined" /\ to = "written"
         \/ from = "taking" /\ to = "claimed"
         \/ from \in {"sending", "untried"} /\ to \in Ends
  PROVE  Placed' = Placed
<1>1. job[t].place \in BOOLEAN
  BY DEF TypeOK, JobsOK, JobRecords
<1>2. t \in Placed' <=> t \in Placed
  BY <1>1, PlaceStage DEF Went, Placed, InTaking, Ends
<1> QED BY <1>2 DEF Went, Alone, Placed, InTaking

\* As above, of a job that comes to own its Message.
LEMMA WentLoses ==
  ASSUME TypeOK, NEW t \in Jobs, NEW from, NEW to \in {"handed", "sending"}, Went(t, from, to)
  PROVE  Placed' = Placed \ {t}
BY DEF Went, Alone, Placed, InTaking

\* As above, of one that is over and had a place.
LEMMA OverLoses ==
  ASSUME NEW t \in Jobs, NEW from, WasOver(t, from)
  PROVE  Placed' = Placed \ {t}
<1>1. t \notin Placed'
  BY DEF WasOver, Placed, InTaking, NoJob
<1>2. \A u \in Jobs : u # t => (u \in Placed' <=> u \in Placed)
  BY DEF WasOver, Alone, Placed, InTaking
<1> QED BY <1>1, <1>2 DEF Placed

\* As above, of one that is over and had none.
LEMMA OverKeeps ==
  ASSUME NEW t \in Jobs, NEW from, WasOver(t, from), ~job[t].place, ~InTaking(t)
  PROVE  Placed' = Placed
BY OverLoses DEF Placed

\* As above, of one that begins with one.
LEMMA BeganGains ==
  ASSUME NEW t \in Jobs, NEW m, NEW s, NEW p \in BOOLEAN, Began(t, m, s, p), p = TRUE \/ s = "found"
  PROVE  t \notin Placed /\ Placed' = Placed \cup {t}
<1>1. t \notin Placed
  BY DEF Began, Placed, InTaking, NoJob
<1>2. t \in Placed'
  BY DEF Began, Placed, InTaking
<1> QED BY <1>1, <1>2 DEF Began, Alone, Placed, InTaking

\* Nothing is owned more or less where owned is as it was.
LEMMA OwnedSame ==
  ASSUME owned' = owned
  PROVE  /\ OwnedNow' = OwnedNow /\ Cardinality(OwnedNow') <= Cardinality(OwnedNow)
         /\ Cardinality(OwnedNow') <= Cardinality(OwnedNow) + 1
<1>1. OwnedNow' = OwnedNow
  BY DEF OwnedNow
<1>2. Cardinality(OwnedNow) \in Nat
  BY FS_Subset, FS_CardinalityType DEF OwnedNow
<1> QED BY <1>1, <1>2

\* An element more is at most one more.
LEMMA OneMore ==
  ASSUME NEW S, IsFiniteSet(S), NEW x
  PROVE  Cardinality(S \cup {x}) <= Cardinality(S) + 1
<1>1. Cardinality(S) \in Nat
  BY FS_CardinalityType
<1>2. CASE x \in S
  <2>1. S \cup {x} = S
    BY <1>2
  <2> QED BY <1>1, <2>1
<1>3. CASE x \notin S
  <2>1. Cardinality(S \cup {x}) = Cardinality(S) + 1
    BY <1>3, FS_AddElement
  <2> QED BY <1>1, <2>1
<1> QED BY <1>2, <1>3

\* One more Message owned is at most one more.
LEMMA OwnedMore ==
  ASSUME TypeOK, NEW m \in Messages, NEW t \in Jobs, owned' = [owned EXCEPT ![m] = t]
  PROVE  Cardinality(OwnedNow') <= Cardinality(OwnedNow) + 1
<1>1. OwnedNow' = OwnedNow \cup {m}
  BY DEF OwnedNow, TypeOK, PlacesOK
<1>2. IsFiniteSet(OwnedNow) /\ Cardinality(OwnedNow) \in Nat
  BY RoomType
<1>3. Cardinality(OwnedNow \cup {m}) <= Cardinality(OwnedNow) + 1
  BY <1>2, OneMore
<1> QED BY <1>1, <1>3

\* One let go of is none more.
LEMMA OwnedLess ==
  ASSUME TypeOK, NEW m \in Messages, owned' = [owned EXCEPT ![m] = 0]
  PROVE  Cardinality(OwnedNow') <= Cardinality(OwnedNow)
<1>1. OwnedNow' \subseteq OwnedNow
  BY DEF OwnedNow, TypeOK, PlacesOK
<1> QED BY <1>1, RoomType, FS_Subset

\* An element less is one less, of one at least.
LEMMA OneLess ==
  ASSUME NEW S, IsFiniteSet(S), NEW x \in S
  PROVE  Cardinality(S \ {x}) = Cardinality(S) - 1 /\ Cardinality(S) >= 1
<1>1. IsFiniteSet(S \ {x}) /\ Cardinality(S \ {x}) = Cardinality(S) - 1
  BY FS_RemoveElement
<1>2. Cardinality(S \ {x}) \in Nat /\ Cardinality(S) \in Nat
  BY <1>1, FS_CardinalityType
<1> QED BY <1>1, <1>2

\* The limits are a behaviour's own, for good.
LEMMA LimitsSame ==
  ASSUME [Next]_vars
  PROVE  limits' = limits
<1>1. ASSUME NEW m \in Messages, LineUp(m)
      PROVE  limits' = limits
  BY <1>1 DEF LineUp
<1>2. ASSUME NEW m \in Messages, Unsure(m)
      PROVE  limits' = limits
  BY <1>2 DEF Unsure
<1>3. ASSUME NEW m \in Messages, Renewed(m)
      PROVE  limits' = limits
  BY <1>3 DEF Renewed
<1>4. ASSUME NEW m \in Messages, Lapses(m)
      PROVE  limits' = limits
  BY <1>4 DEF Lapses
<1>5. ASSUME NEW m \in Messages, DueComes(m)
      PROVE  limits' = limits
  BY <1>5 DEF DueComes
<1>6. ASSUME NEW t \in Jobs, PublishNot(t)
      PROVE  limits' = limits
  BY <1>6 DEF PublishNot
<1>7. ASSUME NEW t \in Jobs, PublishTaken(t)
      PROVE  limits' = limits
  BY <1>7 DEF PublishTaken
<1>8. ASSUME NEW t \in Jobs, PublishUnanswered(t)
      PROVE  limits' = limits
  BY <1>8 DEF PublishUnanswered
<1>9. ASSUME NEW t \in Jobs, Published(t)
      PROVE  limits' = limits
  BY <1>9 DEF Published
<1>10. ASSUME NEW t \in Jobs, Moved(t)
      PROVE  limits' = limits
  BY <1>10 DEF Moved
<1>11. ASSUME NEW t \in Jobs, PublishedUnclaimed(t)
      PROVE  limits' = limits
  BY <1>11 DEF PublishedUnclaimed
<1>12. ASSUME NEW t \in Jobs, TakeGranted(t)
      PROVE  limits' = limits
  BY <1>12 DEF TakeGranted
<1>13. ASSUME NEW t \in Jobs, TakeNotDue(t)
      PROVE  limits' = limits
  BY <1>13 DEF TakeNotDue
<1>14. ASSUME NEW t \in Jobs, TakeNot(t)
      PROVE  limits' = limits
  BY <1>14 DEF TakeNot
<1>15. ASSUME NEW t \in Jobs, TakeOwns(t)
      PROVE  limits' = limits
  BY <1>15 DEF TakeOwns
<1>16. ASSUME NEW t \in Jobs, NEW how \in {"completed", "failed", "waiting"}, HandsOn(t, how)
      PROVE  limits' = limits
  BY <1>16 DEF HandsOn
<1>17. ASSUME NEW t \in Jobs, HandsOnNot(t)
      PROVE  limits' = limits
  BY <1>17 DEF HandsOnNot
<1>18. ASSUME NEW t \in Jobs, Untried(t)
      PROVE  limits' = limits
  BY <1>18 DEF Untried
<1>19. ASSUME NEW t \in Jobs, ReleaseUntried(t)
      PROVE  limits' = limits
  BY <1>19 DEF ReleaseUntried
<1>20. ASSUME NEW t \in Jobs, Settle(t)
      PROVE  limits' = limits
  BY <1>20 DEF Settle
<1>21. ASSUME NEW goesOff \in BOOLEAN, NEW all \in BOOLEAN, Wakes(goesOff, all)
      PROVE  limits' = limits
  BY <1>21 DEF Wakes
<1>22. ASSUME LooksForRoom
      PROVE  limits' = limits
  BY <1>22 DEF LooksForRoom
<1>23. ASSUME Starves
      PROVE  limits' = limits
  BY <1>23 DEF Starves
<1>24. ASSUME ReadsPage
      PROVE  limits' = limits
  BY <1>24 DEF ReadsPage
<1>25. ASSUME ReadUnanswered
      PROVE  limits' = limits
  BY <1>25 DEF ReadUnanswered
<1>26. ASSUME NEW m \in Messages, LooksKnown(m)
      PROVE  limits' = limits
  BY <1>26 DEF LooksKnown
<1>27. ASSUME NEW m \in Messages, LooksTakes(m)
      PROVE  limits' = limits
  BY <1>27 DEF LooksTakes
<1>28. ASSUME NEW m \in Messages, LooksFull(m)
      PROVE  limits' = limits
  BY <1>28 DEF LooksFull
<1>29. ASSUME StarvesFull
      PROVE  limits' = limits
  BY <1>29 DEF StarvesFull
<1>30. ASSUME PageDone
      PROVE  limits' = limits
  BY <1>30 DEF PageDone
<1>31. ASSUME Close
      PROVE  limits' = limits
  BY <1>31 DEF Close
<1>32. CASE UNCHANGED vars
  BY <1>32
<1> QED
  BY <1>1, <1>2, <1>3, <1>4, <1>5, <1>6, <1>7, <1>8, <1>9, <1>10, <1>11,
     <1>12, <1>13, <1>14, <1>15, <1>16, <1>17, <1>18, <1>19, <1>20, <1>21,
     <1>22, <1>23, <1>24, <1>25, <1>26, <1>27, <1>28, <1>29, <1>30, <1>31,
     <1>32
     DEF Next, Publication, Take, Ending, Standing, Dispatching

\* At first no place is taken.
LEMMA InitPlaces ==
  ASSUME Init
  PROVE  /\ Cardinality(OwnedNow) = 0 /\ Cardinality(Placed) = 0 /\ admitted = 0
         /\ MostPlaces \in Nat
<1>1. OwnedNow = {} /\ Placed = {}
  BY DEF Init, OwnedNow, Placed, InTaking, NoJob
<1>2. MostPlaces \in Nat
  BY DEF Init, MostPlaces
<1> QED BY <1>1, <1>2, FS_EmptySet DEF Init

\* What a step may do to the places: nothing, admit one where there is room,
\* give one back, or forget the mark of one being taken.
Steady ==
  Placed' = Placed /\ admitted' = admitted /\ Cardinality(OwnedNow') <= Cardinality(OwnedNow)
Admits ==
  /\ Room > 0 /\ admitted' = admitted + 1 /\ OwnedNow' = OwnedNow
  /\ \E t \in Jobs : t \notin Placed /\ Placed' = Placed \cup {t}
GivesBack ==
  /\ admitted' = Minus(admitted, 1) /\ Cardinality(OwnedNow') <= Cardinality(OwnedNow) + 1
  /\ \E t \in Placed : Placed' = Placed \ {t}
Forgets ==
  /\ admitted' = admitted /\ OwnedNow' = OwnedNow
  /\ \E t \in Placed : /\ Placed' = Placed \ {t}
                       /\ InTaking(t) /\ job[t].msg \notin taking

\* Every step does one of these.
LEMMA PlacesStep ==
  ASSUME TypeOK, [Next]_vars
  PROVE  Steady \/ Admits \/ GivesBack \/ Forgets
<1>1. ASSUME NEW m \in Messages, LineUp(m)
      PROVE  Steady \/ Admits \/ GivesBack \/ Forgets
  <2>1. owned' = owned
    BY <1>1 DEF LineUp
  <2>2. CASE Room > 0
    <3>1. PICK t \in Jobs : Began(t, m, "lined", TRUE)
      BY <1>1, <2>2, BeginEach
    <3>2. t \notin Placed /\ Placed' = Placed \cup {t}
      BY <3>1, BeganGains
    <3>3. admitted' = admitted + 1
      BY <1>1, <2>2 DEF LineUp
    <3> QED BY <2>1, <2>2, <3>2, <3>3, OwnedSame DEF Admits
  <2>3. CASE Room = 0
    <3>1. PICK t \in Jobs : Began(t, m, "lined", FALSE)
      BY <1>1, <2>3, BeginEach
    <3>2. Placed' = Placed
      <4>1. t \notin Placed /\ t \notin Placed'
        BY <3>1 DEF Began, Placed, InTaking, NoJob
      <4>2. \A u \in Jobs : u # t => (u \in Placed' <=> u \in Placed)
        BY <3>1 DEF Began, Alone, Placed, InTaking
      <4> QED BY <4>1, <4>2 DEF Placed
    <3>3. admitted' = admitted
      BY <1>1, <2>3 DEF LineUp
    <3> QED BY <2>1, <3>2, <3>3, OwnedSame DEF Steady
  <2> QED BY <2>2, <2>3, RoomType
<1>2. ASSUME NEW m \in Messages, Unsure(m)
      PROVE  Steady \/ Admits \/ GivesBack \/ Forgets
  <2>1. Placed' = Placed /\ admitted' = admitted /\ owned' = owned
    BY <1>2 DEF Unsure, Placed, InTaking
  <2> QED BY <2>1, OwnedSame DEF Steady
<1>3. ASSUME NEW m \in Messages, Renewed(m)
      PROVE  Steady \/ Admits \/ GivesBack \/ Forgets
  <2>1. Placed' = Placed /\ admitted' = admitted /\ owned' = owned
    BY <1>3 DEF Renewed, Placed, InTaking
  <2> QED BY <2>1, OwnedSame DEF Steady
<1>4. ASSUME NEW m \in Messages, Lapses(m)
      PROVE  Steady \/ Admits \/ GivesBack \/ Forgets
  <2>1. Placed' = Placed /\ admitted' = admitted /\ owned' = owned
    BY <1>4 DEF Lapses, Placed, InTaking
  <2> QED BY <2>1, OwnedSame DEF Steady
<1>5. ASSUME NEW m \in Messages, DueComes(m)
      PROVE  Steady \/ Admits \/ GivesBack \/ Forgets
  <2>1. Placed' = Placed /\ admitted' = admitted /\ owned' = owned
    BY <1>5 DEF DueComes, Placed, InTaking
  <2> QED BY <2>1, OwnedSame DEF Steady
<1>6. ASSUME NEW t \in Jobs, PublishNot(t)
      PROVE  Steady \/ Admits \/ GivesBack \/ Forgets
  <2>1. WasOver(t, {"lined"}) /\ owned' = owned
    BY <1>6, OverEach DEF PublishNot
  <2>2. CASE job[t].place
    <3>1. t \in Placed /\ Placed' = Placed \ {t}
      BY <2>1, <2>2, OverLoses DEF Placed
    <3>2. admitted' = Minus(admitted, 1)
      BY <1>6, <2>2 DEF PublishNot, Withdraw
    <3> QED BY <2>1, <3>1, <3>2, OwnedSame DEF GivesBack
  <2>3. CASE ~job[t].place
    <3>1. Placed' = Placed
      BY <2>1, <2>3, OverKeeps DEF InTaking, WasOver
    <3>2. admitted' = admitted
      BY <1>6, <2>3 DEF PublishNot, Withdraw, Minus, TypeOK, PlacesOK
    <3> QED BY <2>1, <3>1, <3>2, OwnedSame DEF Steady
  <2> QED BY <2>2, <2>3
<1>7. ASSUME NEW t \in Jobs, PublishTaken(t)
      PROVE  Steady \/ Admits \/ GivesBack \/ Forgets
  <2>1. Went(t, "lined", "written")
    BY <1>7, GoEach
  <2>2. Placed' = Placed
    BY <2>1, WentKeeps DEF Ends
  <2>3. admitted' = admitted /\ owned' = owned
    BY <1>7 DEF PublishTaken
  <2> QED BY <2>2, <2>3, OwnedSame DEF Steady
<1>8. ASSUME NEW t \in Jobs, PublishUnanswered(t)
      PROVE  Steady \/ Admits \/ GivesBack \/ Forgets
  <2>1. WasOver(t, {"written"}) /\ owned' = owned
    BY <1>8, OverEach DEF PublishUnanswered
  <2>2. CASE job[t].place
    <3>1. t \in Placed /\ Placed' = Placed \ {t}
      BY <2>1, <2>2, OverLoses DEF Placed
    <3>2. admitted' = Minus(admitted, 1)
      BY <1>8, <2>2 DEF PublishUnanswered, Withdraw
    <3> QED BY <2>1, <3>1, <3>2, OwnedSame DEF GivesBack
  <2>3. CASE ~job[t].place
    <3>1. Placed' = Placed
      BY <2>1, <2>3, OverKeeps DEF InTaking, WasOver
    <3>2. admitted' = admitted
      BY <1>8, <2>3 DEF PublishUnanswered, Withdraw, Minus, TypeOK, PlacesOK
    <3> QED BY <2>1, <3>1, <3>2, OwnedSame DEF Steady
  <2> QED BY <2>2, <2>3
<1>9. ASSUME NEW t \in Jobs, Published(t)
      PROVE  Steady \/ Admits \/ GivesBack \/ Forgets
  <2>1. Went(t, "written", "handed") /\ t \in Placed
    BY <1>9, GoEach DEF Published, Placed, InTaking
  <2>2. Placed' = Placed \ {t}
    BY <2>1, WentLoses
  <2>3. admitted' = Minus(admitted, 1) /\ owned' = [owned EXCEPT ![job[t].msg] = t]
    BY <1>9 DEF Published
  <2>4. Cardinality(OwnedNow') <= Cardinality(OwnedNow) + 1
    BY <2>1, <2>3, OwnedMore DEF Went
  <2> QED BY <2>1, <2>2, <2>3, <2>4 DEF GivesBack
<1>10. ASSUME NEW t \in Jobs, Moved(t)
      PROVE  Steady \/ Admits \/ GivesBack \/ Forgets
  <2>1. Went(t, "written", "handed") /\ t \in Placed
    BY <1>10, GoEach DEF Moved, Placed, InTaking
  <2>2. Placed' = Placed \ {t}
    BY <2>1, WentLoses
  <2>3. admitted' = Minus(admitted, 1) /\ owned' = [owned EXCEPT ![job[t].msg] = t]
    BY <1>10 DEF Moved, Own
  <2>4. Cardinality(OwnedNow') <= Cardinality(OwnedNow) + 1
    BY <2>1, <2>3, OwnedMore DEF Went
  <2> QED BY <2>1, <2>2, <2>3, <2>4 DEF GivesBack
<1>11. ASSUME NEW t \in Jobs, PublishedUnclaimed(t)
      PROVE  Steady \/ Admits \/ GivesBack \/ Forgets
  <2>1. WasOver(t, {"written"}) /\ owned' = owned
    BY <1>11, OverEach DEF PublishedUnclaimed
  <2>2. CASE job[t].place
    <3>1. t \in Placed /\ Placed' = Placed \ {t}
      BY <2>1, <2>2, OverLoses DEF Placed
    <3>2. admitted' = Minus(admitted, 1)
      BY <1>11, <2>2 DEF PublishedUnclaimed
    <3> QED BY <2>1, <3>1, <3>2, OwnedSame DEF GivesBack
  <2>3. CASE ~job[t].place
    <3>1. Placed' = Placed
      BY <2>1, <2>3, OverKeeps DEF InTaking, WasOver
    <3>2. admitted' = admitted
      BY <1>11, <2>3 DEF PublishedUnclaimed
    <3> QED BY <2>1, <3>1, <3>2, OwnedSame DEF Steady
  <2> QED BY <2>2, <2>3
<1>12. ASSUME NEW t \in Jobs, TakeGranted(t)
      PROVE  Steady \/ Admits \/ GivesBack \/ Forgets
  <2>1. Went(t, "taking", "claimed")
    BY <1>12, GoEach
  <2>2. Placed' = Placed
    BY <2>1, WentKeeps DEF Ends
  <2>3. admitted' = admitted /\ owned' = owned
    BY <1>12 DEF TakeGranted
  <2> QED BY <2>2, <2>3, OwnedSame DEF Steady
<1>13. ASSUME NEW t \in Jobs, TakeNotDue(t)
      PROVE  Steady \/ Admits \/ GivesBack \/ Forgets
  <2>1. WasOver(t, {"taking"}) /\ owned' = owned /\ t \in Placed
    BY <1>13, OverEach DEF TakeNotDue, Untake, Placed, InTaking
  <2>2. Placed' = Placed \ {t}
    BY <2>1, OverLoses
  <2>3. CASE job[t].msg \in taking
    BY <1>13, <2>1, <2>2, <2>3, OwnedSame DEF TakeNotDue, Untake, GivesBack
  <2>4. CASE job[t].msg \notin taking
    BY <1>13, <2>1, <2>2, <2>4, OwnedSame DEF TakeNotDue, Untake, Forgets, InTaking
  <2> QED BY <2>3, <2>4
<1>14. ASSUME NEW t \in Jobs, TakeNot(t)
      PROVE  Steady \/ Admits \/ GivesBack \/ Forgets
  <2>1. WasOver(t, {"taking"}) /\ owned' = owned /\ t \in Placed
    BY <1>14, OverEach DEF TakeNot, Untake, Placed, InTaking
  <2>2. Placed' = Placed \ {t}
    BY <2>1, OverLoses
  <2>3. CASE job[t].msg \in taking
    BY <1>14, <2>1, <2>2, <2>3, OwnedSame DEF TakeNot, Untake, GivesBack
  <2>4. CASE job[t].msg \notin taking
    BY <1>14, <2>1, <2>2, <2>4, OwnedSame DEF TakeNot, Untake, Forgets, InTaking
  <2> QED BY <2>3, <2>4
<1>15. ASSUME NEW t \in Jobs, TakeOwns(t)
      PROVE  Steady \/ Admits \/ GivesBack \/ Forgets
  <2>1. Went(t, "claimed", "sending") /\ t \in Placed
    BY <1>15, GoEach DEF TakeOwns, Placed, InTaking
  <2>2. Placed' = Placed \ {t}
    BY <2>1, WentLoses
  <2>3. admitted' = Minus(admitted, 1) /\ owned' = [owned EXCEPT ![job[t].msg] = t]
    BY <1>15 DEF TakeOwns, Own
  <2>4. Cardinality(OwnedNow') <= Cardinality(OwnedNow) + 1
    BY <2>1, <2>3, OwnedMore DEF Went
  <2> QED BY <2>1, <2>2, <2>3, <2>4 DEF GivesBack
<1>16. ASSUME NEW t \in Jobs, NEW how \in {"completed", "failed", "waiting"}, HandsOn(t, how)
      PROVE  Steady \/ Admits \/ GivesBack \/ Forgets
  <2>1. Went(t, "sending", how)
    BY <1>16, GoEach
  <2>2. Placed' = Placed
    BY <2>1, WentKeeps DEF Ends
  <2>3. admitted' = admitted /\ owned' = owned
    BY <1>16 DEF HandsOn
  <2> QED BY <2>2, <2>3, OwnedSame DEF Steady
<1>17. ASSUME NEW t \in Jobs, HandsOnNot(t)
      PROVE  Steady \/ Admits \/ GivesBack \/ Forgets
  <2>1. PICK to \in {"unwritten", "lost"} : Went(t, "sending", to)
    BY <1>17, GoEach
  <2>2. Placed' = Placed
    BY <2>1, WentKeeps DEF Ends
  <2>3. admitted' = admitted /\ owned' = owned
    BY <1>17 DEF HandsOnNot
  <2> QED BY <2>2, <2>3, OwnedSame DEF Steady
<1>18. ASSUME NEW t \in Jobs, Untried(t)
      PROVE  Steady \/ Admits \/ GivesBack \/ Forgets
  <2>1. Went(t, "sending", "untried")
    BY <1>18, GoEach
  <2>2. Placed' = Placed
    BY <2>1, WentKeeps DEF Ends
  <2>3. admitted' = admitted /\ owned' = owned
    BY <1>18 DEF Untried
  <2> QED BY <2>2, <2>3, OwnedSame DEF Steady
<1>19. ASSUME NEW t \in Jobs, ReleaseUntried(t)
      PROVE  Steady \/ Admits \/ GivesBack \/ Forgets
  <2>1. Went(t, "untried", "released")
    BY <1>19, GoEach
  <2>2. Placed' = Placed
    BY <2>1, WentKeeps DEF Ends
  <2>3. admitted' = admitted /\ owned' = owned
    BY <1>19 DEF ReleaseUntried
  <2> QED BY <2>2, <2>3, OwnedSame DEF Steady
<1>20. ASSUME NEW t \in Jobs, Settle(t)
      PROVE  Steady \/ Admits \/ GivesBack \/ Forgets
  <2>1. WasOver(t, Ends \ {"untried"}) /\ admitted' = admitted
    BY <1>20, OverEach DEF Settle
  <2>2. Placed' = Placed
    BY <2>1, OverKeeps, PlaceStage DEF InTaking, WasOver, Ends
  <2>3. owned' = [owned EXCEPT ![job[t].msg] = 0]
    BY <1>20 DEF Settle
  <2>4. Cardinality(OwnedNow') <= Cardinality(OwnedNow)
    BY <2>1, <2>3, OwnedLess DEF WasOver
  <2> QED BY <2>1, <2>2, <2>4 DEF Steady
<1>21. ASSUME NEW goesOff \in BOOLEAN, NEW all \in BOOLEAN, Wakes(goesOff, all)
      PROVE  Steady \/ Admits \/ GivesBack \/ Forgets
  <2>1. Placed' = Placed
    BY <1>21, PoolEach DEF Wakes, Placed, InTaking
  <2> QED BY <1>21, <2>1, OwnedSame DEF Wakes, Steady
<1>22. ASSUME LooksForRoom
      PROVE  Steady \/ Admits \/ GivesBack \/ Forgets
  <2>1. Placed' = Placed /\ admitted' = admitted /\ owned' = owned
    BY <1>22 DEF LooksForRoom, Placed, InTaking
  <2> QED BY <2>1, OwnedSame DEF Steady
<1>23. ASSUME Starves
      PROVE  Steady \/ Admits \/ GivesBack \/ Forgets
  <2>1. Placed' = Placed /\ admitted' = admitted /\ owned' = owned
    BY <1>23 DEF Starves, Placed, InTaking
  <2> QED BY <2>1, OwnedSame DEF Steady
<1>24. ASSUME ReadsPage
      PROVE  Steady \/ Admits \/ GivesBack \/ Forgets
  <2>1. Placed' = Placed /\ admitted' = admitted /\ owned' = owned
    BY <1>24 DEF ReadsPage, Placed, InTaking
  <2> QED BY <2>1, OwnedSame DEF Steady
<1>25. ASSUME ReadUnanswered
      PROVE  Steady \/ Admits \/ GivesBack \/ Forgets
  <2>1. Placed' = Placed
    BY <1>25, PoolEach DEF ReadUnanswered, Placed, InTaking
  <2> QED BY <1>25, <2>1, OwnedSame DEF ReadUnanswered, Steady
<1>26. ASSUME NEW m \in Messages, LooksKnown(m)
      PROVE  Steady \/ Admits \/ GivesBack \/ Forgets
  <2>1. Placed' = Placed /\ admitted' = admitted /\ owned' = owned
    BY <1>26 DEF LooksKnown, Placed, InTaking
  <2> QED BY <2>1, OwnedSame DEF Steady
<1>27. ASSUME NEW m \in Messages, LooksTakes(m)
      PROVE  Steady \/ Admits \/ GivesBack \/ Forgets
  <2>1. PICK t \in Jobs : Began(t, m, "found", FALSE)
    BY <1>27, BeginEach
  <2>2. t \notin Placed /\ Placed' = Placed \cup {t}
    BY <2>1, BeganGains
  <2>3. owned' = owned /\ admitted' = admitted + 1 /\ Room > 0
    BY <1>27 DEF LooksTakes
  <2> QED BY <2>2, <2>3, OwnedSame DEF Admits
<1>28. ASSUME NEW m \in Messages, LooksFull(m)
      PROVE  Steady \/ Admits \/ GivesBack \/ Forgets
  <2>1. Placed' = Placed /\ admitted' = admitted /\ owned' = owned
    BY <1>28 DEF LooksFull, Placed, InTaking
  <2> QED BY <2>1, OwnedSame DEF Steady
<1>29. ASSUME StarvesFull
      PROVE  Steady \/ Admits \/ GivesBack \/ Forgets
  <2>1. Placed' = Placed
    BY <1>29, PoolEach DEF StarvesFull, Waited, Placed, InTaking
  <2> QED BY <1>29, <2>1, OwnedSame DEF StarvesFull, Steady
<1>30. ASSUME PageDone
      PROVE  Steady \/ Admits \/ GivesBack \/ Forgets
  <2>1. ASSUME scan.last PROVE Placed' = Placed
    BY <1>30, <2>1, PoolEach DEF PageDone, Waited, Placed, InTaking
  <2>2. Placed' = Placed
    BY <1>30, <2>1 DEF PageDone, Placed, InTaking
  <2> QED BY <1>30, <2>2, OwnedSame DEF PageDone, Steady
<1>31. ASSUME Close
      PROVE  Steady \/ Admits \/ GivesBack \/ Forgets
  <2>1. Placed' = Placed /\ admitted' = admitted /\ owned' = owned
    BY <1>31 DEF Close, Placed, InTaking
  <2> QED BY <2>1, OwnedSame DEF Steady
<1>32. CASE UNCHANGED vars
  <2>1. Placed' = Placed /\ admitted' = admitted /\ owned' = owned
    BY <1>32 DEF Placed, InTaking
  <2> QED BY <2>1, OwnedSame DEF Steady
<1> QED
  BY <1>1, <1>2, <1>3, <1>4, <1>5, <1>6, <1>7, <1>8, <1>9, <1>10, <1>11,
     <1>12, <1>13, <1>14, <1>15, <1>16, <1>17, <1>18, <1>19, <1>20, <1>21,
     <1>22, <1>23, <1>24, <1>25, <1>26, <1>27, <1>28, <1>29, <1>30, <1>31,
     <1>32
     DEF Next, Publication, Take, Ending, Standing, Dispatching

\* The pool never promises more than it has, and none is given back that was
\* not admitted: the step.
LEMMA PoolStep ==
  ASSUME TypeOK, TypeOK', WithinPool, PlacesHeld, [Next]_vars
  PROVE  WithinPool' /\ PlacesHeld'
<1>1. MostPlaces' = MostPlaces
  BY LimitsSame DEF MostPlaces
<1>2. /\ admitted \in Nat /\ MostPlaces \in Nat /\ Cardinality(OwnedNow) \in Nat
      /\ (Room > 0 => Cardinality(OwnedNow) + admitted < MostPlaces)
  BY RoomType DEF TypeOK, PlacesOK
<1>3. Cardinality(OwnedNow)' \in Nat /\ Cardinality(OwnedNow)' = Cardinality(OwnedNow')
  BY FS_Subset, FS_CardinalityType DEF OwnedNow
<1>4. IsFiniteSet(Placed) /\ Cardinality(Placed) \in Nat
  BY PlacedFinite
<1>5. CASE Steady
  BY <1>1, <1>2, <1>3, <1>4, <1>5 DEF Steady, WithinPool, PlacesHeld
<1>6. CASE Admits
  <2>1. Cardinality(Placed') = Cardinality(Placed) + 1
    BY <1>4, <1>6, FS_AddElement DEF Admits
  <2> QED BY <1>1, <1>2, <1>4, <1>6, <2>1 DEF Admits, WithinPool, PlacesHeld
<1>7. CASE GivesBack
  <2>1. Cardinality(Placed') = Cardinality(Placed) - 1 /\ Cardinality(Placed) >= 1
    BY <1>4, <1>7, OneLess DEF GivesBack
  <2>2. admitted' = admitted - 1
    BY <1>2, <1>4, <1>7, <2>1 DEF GivesBack, Minus, PlacesHeld
  <2> QED BY <1>1, <1>2, <1>3, <1>4, <1>7, <2>1, <2>2 DEF GivesBack, WithinPool, PlacesHeld
<1>8. CASE Forgets
  <2>1. Cardinality(Placed') = Cardinality(Placed) - 1 /\ Cardinality(Placed) >= 1
    BY <1>4, <1>8, OneLess DEF Forgets
  <2> QED BY <1>1, <1>2, <1>4, <1>8, <2>1 DEF Forgets, WithinPool, PlacesHeld
<1> QED BY <1>5, <1>6, <1>7, <1>8, PlacesStep

\* However Publications, moves, scans and settling threads interleave, the pool
\* is never promised more than its threads: of every set of limits, moves
\* included (admission.rs, room_in and own).
THEOREM PoolBound == Spec => []WithinPool
<1>1. Init => WithinPool /\ PlacesHeld
  BY InitPlaces DEF WithinPool, PlacesHeld
<1>2. TypeOK /\ TypeOK' /\ WithinPool /\ PlacesHeld /\ [Next]_vars => (WithinPool /\ PlacesHeld)'
  BY PoolStep
<1> QED BY <1>1, <1>2, TypeCorrect, PTL DEF Spec

\* Where no move takes a scan's mark - none comes, or the pool has the one
\* place - the marks stay each their job's.
NoMarkTaken == \A l \in Limits : l.moves => l.most <= 1

\* A job that is not being taken, before or after, leaves the marks right.
LEMMA MarksFew ==
  ASSUME MarksOwn, taking' = taking, NEW t \in Jobs, Alone(t), ~InTaking(t)'
  PROVE  MarksOwn'
BY DEF MarksOwn, Alone, InTaking

\* A job that is taken no longer takes its mark along, which was its alone.
LEMMA MarksTaken ==
  ASSUME MarksOwn, NEW t \in Jobs, Alone(t), InTaking(t), ~InTaking(t)',
         taking' = taking \ {job[t].msg}
  PROVE  MarksOwn'
<1>1. \A u \in Jobs : u # t /\ InTaking(u) => job[u].msg \in taking' /\ job[u].msg # job[t].msg
  BY DEF MarksOwn
<1>2. \A u \in Jobs : InTaking(u)' => u # t /\ job'[u] = job[u] /\ InTaking(u)
  BY DEF Alone, InTaking
<1> QED BY <1>1, <1>2 DEF MarksOwn

\* In a pool of one place, no second job has one.
LEMMA OnePlace ==
  ASSUME TypeOK, WithinPool, PlacesHeld, limits.most <= 1, NEW t \in Placed, NEW u \in Placed
  PROVE  t = u
<1>1. MostPlaces = 1
  BY RoomType DEF MostPlaces
<1>2. Cardinality(OwnedNow) \in Nat /\ admitted \in Nat /\ Cardinality(Placed) \in Nat
  BY RoomType, PlacedFinite DEF TypeOK, PlacesOK
<1>3. Cardinality(Placed) <= 1
  BY <1>1, <1>2 DEF WithinPool, PlacesHeld
<1>4. SUFFICES ASSUME t # u PROVE FALSE
  OBVIOUS
<1>5. Cardinality(Placed \ {t}) = Cardinality(Placed) - 1 /\ Cardinality(Placed) >= 1
  BY PlacedFinite, OneLess
<1>6. Cardinality(Placed \ {t}) >= 1
  BY <1>4, PlacedFinite, OneLess, FS_RemoveElement
<1> QED BY <1>2, <1>3, <1>5, <1>6

\* The marks stay right.
LEMMA MarksStep ==
  ASSUME NoMarkTaken, TypeOK, WithinPool, PlacesHeld, MarksOwn, [Next]_vars
  PROVE  MarksOwn'
<1> USE DEF NoMarkTaken
<1>1. ASSUME NEW m \in Messages, LineUp(m)
      PROVE  MarksOwn'
  <2>1. Room > 0 \/ Room = 0
    BY RoomType
  <2>2. PICK t \in Jobs, p \in BOOLEAN : Began(t, m, "lined", p)
    BY <1>1, <2>1, BeginEach
  <2>3. Alone(t) /\ ~InTaking(t)'
    BY <2>2 DEF Began, InTaking
  <2>4. taking' = taking
    BY <1>1 DEF LineUp
  <2> QED BY <2>3, <2>4, MarksFew
<1>2. ASSUME NEW m \in Messages, Unsure(m)
      PROVE  MarksOwn'
  BY <1>2 DEF Unsure, MarksOwn, InTaking
<1>3. ASSUME NEW m \in Messages, Renewed(m)
      PROVE  MarksOwn'
  BY <1>3 DEF Renewed, MarksOwn, InTaking
<1>4. ASSUME NEW m \in Messages, Lapses(m)
      PROVE  MarksOwn'
  BY <1>4 DEF Lapses, MarksOwn, InTaking
<1>5. ASSUME NEW m \in Messages, DueComes(m)
      PROVE  MarksOwn'
  BY <1>5 DEF DueComes, MarksOwn, InTaking
<1>6. ASSUME NEW t \in Jobs, PublishNot(t)
      PROVE  MarksOwn'
  <2>1. WasOver(t, {"lined"})
    BY <1>6, OverEach
  <2>2. taking' = taking
    BY <1>6 DEF PublishNot
  <2>3. Alone(t) /\ ~InTaking(t)'
    BY <2>1 DEF WasOver, InTaking, NoJob
  <2> QED BY <2>2, <2>3, MarksFew
<1>7. ASSUME NEW t \in Jobs, PublishTaken(t)
      PROVE  MarksOwn'
  <2>1. Went(t, "lined", "written")
    BY <1>7, GoEach
  <2>2. taking' = taking
    BY <1>7 DEF PublishTaken
  <2> QED BY <2>1, <2>2, MarksFew DEF Went, InTaking
<1>8. ASSUME NEW t \in Jobs, PublishUnanswered(t)
      PROVE  MarksOwn'
  <2>1. WasOver(t, {"written"})
    BY <1>8, OverEach
  <2>2. taking' = taking
    BY <1>8 DEF PublishUnanswered
  <2>3. Alone(t) /\ ~InTaking(t)'
    BY <2>1 DEF WasOver, InTaking, NoJob
  <2> QED BY <2>2, <2>3, MarksFew
<1>9. ASSUME NEW t \in Jobs, Published(t)
      PROVE  MarksOwn'
  <2>1. Went(t, "written", "handed")
    BY <1>9, GoEach
  <2>2. taking' = taking
    BY <1>9 DEF Published
  <2> QED BY <2>1, <2>2, MarksFew DEF Went, InTaking
<1>10. ASSUME NEW t \in Jobs, Moved(t)
      PROVE  MarksOwn'
  <2>1. Went(t, "written", "handed") /\ t \in Placed
    BY <1>10, GoEach DEF Moved, Placed
  <2>2. limits.most <= 1
    BY <1>10 DEF Moved, TypeOK, LedgerOK
  <2>3. \A u \in Jobs : ~InTaking(u)
    BY <2>1, <2>2, OnePlace DEF Placed, Went, InTaking
  <2> QED BY <2>1, <2>3 DEF Went, Alone, InTaking, MarksOwn
<1>11. ASSUME NEW t \in Jobs, PublishedUnclaimed(t)
      PROVE  MarksOwn'
  <2>1. WasOver(t, {"written"})
    BY <1>11, OverEach
  <2>2. taking' = taking
    BY <1>11 DEF PublishedUnclaimed
  <2>3. Alone(t) /\ ~InTaking(t)'
    BY <2>1 DEF WasOver, InTaking, NoJob
  <2> QED BY <2>2, <2>3, MarksFew
<1>12. ASSUME NEW t \in Jobs, TakeGranted(t)
      PROVE  MarksOwn'
  <2>1. Went(t, "taking", "claimed")
    BY <1>12, GoEach
  <2>2. taking' = taking
    BY <1>12 DEF TakeGranted
  <2> QED BY <2>1, <2>2 DEF Went, Alone, InTaking, MarksOwn
<1>13. ASSUME NEW t \in Jobs, TakeNotDue(t)
      PROVE  MarksOwn'
  <2>1. WasOver(t, {"taking"})
    BY <1>13, OverEach
  <2>2. taking' = taking \ {job[t].msg}
    BY <1>13 DEF TakeNotDue, Untake
  <2> QED BY <2>1, <2>2, MarksTaken DEF WasOver, InTaking, NoJob
<1>14. ASSUME NEW t \in Jobs, TakeNot(t)
      PROVE  MarksOwn'
  <2>1. WasOver(t, {"taking"})
    BY <1>14, OverEach
  <2>2. taking' = taking \ {job[t].msg}
    BY <1>14 DEF TakeNot, Untake
  <2> QED BY <2>1, <2>2, MarksTaken DEF WasOver, InTaking, NoJob
<1>15. ASSUME NEW t \in Jobs, TakeOwns(t)
      PROVE  MarksOwn'
  <2>1. Went(t, "claimed", "sending")
    BY <1>15, GoEach
  <2>2. taking' = taking \ {job[t].msg}
    BY <1>15 DEF TakeOwns, Own
  <2> QED BY <2>1, <2>2, MarksTaken DEF Went, InTaking
<1>16. ASSUME NEW t \in Jobs, NEW how \in {"completed", "failed", "waiting"}, HandsOn(t, how)
      PROVE  MarksOwn'
  <2>1. Went(t, "sending", how)
    BY <1>16, GoEach
  <2>2. taking' = taking
    BY <1>16 DEF HandsOn
  <2> QED BY <2>1, <2>2, MarksFew DEF Went, InTaking
<1>17. ASSUME NEW t \in Jobs, HandsOnNot(t)
      PROVE  MarksOwn'
  <2>1. PICK to \in {"unwritten", "lost"} : Went(t, "sending", to)
    BY <1>17, GoEach
  <2>2. taking' = taking
    BY <1>17 DEF HandsOnNot
  <2> QED BY <2>1, <2>2, MarksFew DEF Went, InTaking
<1>18. ASSUME NEW t \in Jobs, Untried(t)
      PROVE  MarksOwn'
  <2>1. Went(t, "sending", "untried")
    BY <1>18, GoEach
  <2>2. taking' = taking
    BY <1>18 DEF Untried
  <2> QED BY <2>1, <2>2, MarksFew DEF Went, InTaking
<1>19. ASSUME NEW t \in Jobs, ReleaseUntried(t)
      PROVE  MarksOwn'
  <2>1. Went(t, "untried", "released")
    BY <1>19, GoEach
  <2>2. taking' = taking
    BY <1>19 DEF ReleaseUntried
  <2> QED BY <2>1, <2>2, MarksFew DEF Went, InTaking
<1>20. ASSUME NEW t \in Jobs, Settle(t)
      PROVE  MarksOwn'
  <2>1. WasOver(t, Ends \ {"untried"})
    BY <1>20, OverEach
  <2>2. taking' = taking
    BY <1>20 DEF Settle
  <2>3. Alone(t) /\ ~InTaking(t)'
    BY <2>1 DEF WasOver, InTaking, NoJob
  <2> QED BY <2>2, <2>3, MarksFew
<1>21. ASSUME NEW goesOff \in BOOLEAN, NEW all \in BOOLEAN, Wakes(goesOff, all)
      PROVE  MarksOwn'
  BY <1>21, PoolEach DEF Wakes, MarksOwn, InTaking
<1>22. ASSUME LooksForRoom
      PROVE  MarksOwn'
  BY <1>22 DEF LooksForRoom, MarksOwn, InTaking
<1>23. ASSUME Starves
      PROVE  MarksOwn'
  BY <1>23 DEF Starves, MarksOwn, InTaking
<1>24. ASSUME ReadsPage
      PROVE  MarksOwn'
  BY <1>24 DEF ReadsPage, MarksOwn, InTaking
<1>25. ASSUME ReadUnanswered
      PROVE  MarksOwn'
  BY <1>25, PoolEach DEF ReadUnanswered, MarksOwn, InTaking
<1>26. ASSUME NEW m \in Messages, LooksKnown(m)
      PROVE  MarksOwn'
  BY <1>26 DEF LooksKnown, MarksOwn, InTaking
<1>27. ASSUME NEW m \in Messages, LooksTakes(m)
      PROVE  MarksOwn'
  <2>1. PICK t \in Jobs : Began(t, m, "found", FALSE)
    BY <1>27, BeginEach
  <2>2. m \notin taking /\ taking' = taking \cup {m}
    BY <1>27 DEF LooksTakes, Known
  <2>3. job'[t].msg = m /\ \A u \in Jobs : u # t => job'[u] = job[u]
    BY <2>1 DEF Began, Alone
  <2>4. \A u \in Jobs : InTaking(u) => job[u].msg \in taking /\ job[u].msg # m
    BY <2>2 DEF MarksOwn
  <2> QED BY <2>2, <2>3, <2>4 DEF MarksOwn, InTaking
<1>28. ASSUME NEW m \in Messages, LooksFull(m)
      PROVE  MarksOwn'
  BY <1>28 DEF LooksFull, MarksOwn, InTaking
<1>29. ASSUME StarvesFull
      PROVE  MarksOwn'
  BY <1>29, PoolEach DEF StarvesFull, Waited, MarksOwn, InTaking
<1>30. ASSUME PageDone
      PROVE  MarksOwn'
  <2>1. CASE scan.last
    BY <1>30, <2>1, PoolEach DEF PageDone, Waited, MarksOwn, InTaking
  <2>2. CASE ~scan.last
    BY <1>30, <2>2 DEF PageDone, MarksOwn, InTaking
  <2> QED BY <2>1, <2>2
<1>31. ASSUME Close
      PROVE  MarksOwn'
  BY <1>31 DEF Close, MarksOwn, InTaking
<1>32. CASE UNCHANGED vars
  BY <1>32 DEF MarksOwn, InTaking
<1> QED
  BY <1>1, <1>2, <1>3, <1>4, <1>5, <1>6, <1>7, <1>8, <1>9, <1>10, <1>11,
     <1>12, <1>13, <1>14, <1>15, <1>16, <1>17, <1>18, <1>19, <1>20, <1>21,
     <1>22, <1>23, <1>24, <1>25, <1>26, <1>27, <1>28, <1>29, <1>30, <1>31,
     <1>32
     DEF Next, Publication, Take, Ending, Standing, Dispatching

\* With the marks right, every place admitted is somebody's: the step.
LEMMA ExactStep ==
  ASSUME TypeOK, TypeOK', MarksOwn, PlacesExact, [Next]_vars
  PROVE  PlacesExact'
<1>1. admitted \in Nat /\ IsFiniteSet(Placed) /\ Cardinality(Placed) \in Nat
  BY PlacedFinite DEF TypeOK, PlacesOK
<1>2. CASE Steady
  BY <1>2 DEF Steady, PlacesExact
<1>3. CASE Admits
  <2>1. Cardinality(Placed') = Cardinality(Placed) + 1
    BY <1>1, <1>3, FS_AddElement DEF Admits
  <2> QED BY <1>1, <1>3, <2>1 DEF Admits, PlacesExact
<1>4. CASE GivesBack
  <2>1. Cardinality(Placed') = Cardinality(Placed) - 1 /\ Cardinality(Placed) >= 1
    BY <1>1, <1>4, OneLess DEF GivesBack
  <2>2. admitted' = admitted - 1
    BY <1>1, <1>4, <2>1 DEF GivesBack, Minus, PlacesExact
  <2> QED BY <1>1, <2>1, <2>2 DEF PlacesExact
<1>5. CASE Forgets
  BY <1>5 DEF Forgets, MarksOwn, Placed
<1> QED BY <1>2, <1>3, <1>4, <1>5, PlacesStep

\* Where no move takes a scan's mark, the pool's places are counted right: none
\* promised beyond it, none given back twice and none leaked (admission.rs).
THEOREM PlacesCounted ==
  ASSUME NoMarkTaken
  PROVE  Spec => []Bounded
<1> DEFINE Inv == WithinPool /\ PlacesHeld /\ MarksOwn /\ PlacesExact
<1>1. Init => Inv
  <2>1. Init => WithinPool /\ PlacesHeld /\ PlacesExact
    BY InitPlaces DEF WithinPool, PlacesHeld, PlacesExact
  <2>2. Init => MarksOwn
    BY DEF Init, MarksOwn, InTaking, NoJob
  <2> QED BY <2>1, <2>2
<1>2. TypeOK /\ TypeOK' /\ Inv /\ [Next]_vars => Inv'
  BY PoolStep, MarksStep, ExactStep
<1>3. Inv => Bounded
  BY DEF Bounded
<1> QED BY <1>1, <1>2, <1>3, TypeCorrect, PTL DEF Spec

===============================================================================
