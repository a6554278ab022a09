----------------------------- MODULE SendDispatch -----------------------------
(***************************************************************************)
(* One node's send step from the inside: the places of its Send pool, the  *)
(* dispatching that reads a Send Port's queue, the threads that claim and  *)
(* send what it found, the Publications and moves that hand it Messages,   *)
(* and what wakes the dispatching again - a place that frees, a queue that *)
(* is asked for, a retry's due time.                                       *)
(* (send_step.rs, send_step/{admission,dispatch,scan,due,reading}.rs,      *)
(* held_work.rs, serving.rs.)                                              *)
(*                                                                         *)
(* State is one Mutex, and a step here is what one holding of it does, or  *)
(* one request to Xmip Storage.  A `job' is one departure or one attempt at *)
(* taking one, named by the token of its claim.  What a job does to the    *)
(* Message in Xmip Storage, and what other nodes do, is SendClaim's.  Due  *)
(* times are not numbers here: a retry's time comes in a step of its own,  *)
(* and a wake-up that is set goes off at any time after.                   *)
(***************************************************************************)
EXTENDS Integers, FiniteSets

CONSTANTS
  Messages,   \* bound for the Send Port
  Jobs,       \* tokens 1 .. n
  Page,       \* the most entries of a queue read at once
  \* What a behaviour may have, each a record: most, the Send pool's most
  \* threads (limits.most); moves, whether Messages come by a resumed
  \* Subscription's move as well; and as bounds, how often a Message is put
  \* off for a retry, the Messages that come, how many jobs there are at
  \* once, and whether the step closes.
  Limits

ASSUME JobsAssumption == Jobs \subseteq Nat \ {0} /\ IsFiniteSet(Jobs)
ASSUME MessagesAssumption == IsFiniteSet(Messages)
ASSUME LimitsAssumption ==
  /\ Page \in Nat \ {0}
  /\ \A l \in Limits :
       /\ {l.most, l.tries, l.jobs} \subseteq Nat
       /\ {l.moves, l.closes} \subseteq BOOLEAN
       /\ l.come \subseteq Messages

VARIABLES
  \* The Ledger's part of it.
  entry,     \* where each Message is in the Send Port's queue
  claim,     \* the token of the live claim on it; 0 where there is none
  tries,     \* how often it was put off
  \* SendStep.state.
  owned,     \* the token each Message is owned under; 0 where it is not
  sure,      \* its standing: confirmed within a lease
  admitted,  \* places admitted for Messages not yet owned
  taking,    \* found by a scan, being claimed
  starved,   \* the queue holds Messages the pool had no room for
  asked,     \* the queue is to be read now
  at,        \* Due.at: a wake-up is set for a retry's due time
  noted,     \* Due.noted: one set while the queue was being read
  handed,    \* claimed and ready to send
  closed,
  limits,    \* those of this behaviour
  \* Threads.
  job,       \* what each job is at
  scan,      \* what the dispatching is at
  missed     \* a read went unanswered since the queue was last read whole

ledgerVars == <<entry, claim, tries>>
wakeVars == <<starved, asked, at, noted>>
placeVars == <<owned, sure, admitted, taking>>
vars == <<ledgerVars, placeVars, wakeVars, handed, closed, limits, job, scan, missed>>

NoJob == [msg |-> "none", stage |-> "none", place |-> FALSE]
Idle == [stage |-> "idle", seen |-> {}, page |-> {}, last |-> FALSE, waits |-> FALSE]

InQueue == {"due", "later"}

\* lined     its Publication, or its move, is lined up; `place' where admitted
\* written   Xmip Storage took it; the answer is not yet here
\* handed    owned, in `handed'
\* found     a scan found it, under a place admitted
\* taking    on a send thread, its claim asked
\* claimed   granted and read under the claim; owned next
\* sending   its pass under way
\* others    its pass ended as Ended says; settled next
Ends == {"completed", "failed", "waiting", "untried", "released", "lost", "unwritten"}
Stages == {"lined", "written", "handed", "found", "taking", "claimed", "sending"} \cup Ends

----------------------------------------------------------------------------
(* Admission.                                                              *)

MostPlaces == IF limits.most > 1 THEN limits.most ELSE 1
OwnedNow == {m \in Messages : owned[m] # 0}

\* room_in: the pool's most, less what is owned and what is admitted.
Room ==
  LET held == Cardinality(OwnedNow) + admitted
  IN  IF MostPlaces > held THEN MostPlaces - held ELSE 0

Minus(n, k) == IF n > k THEN n - k ELSE 0

\* State::freed: a starved queue is read now.
Freed == asked' = (asked \/ starved) /\ starved' = FALSE /\ UNCHANGED <<at, noted>>

\* withdraw.
Withdraw(places) ==
  /\ admitted' = Minus(admitted, places)
  /\ IF places = 0 THEN UNCHANGED wakeVars ELSE Freed

\* Mutant: only the mark goes, not the place.
UntakeKeeps(m) ==
  /\ taking' = taking \ {m}
  /\ UNCHANGED <<admitted, owned, sure>>

\* untake: the place a scan had admitted for m given back.
Untake(m) ==
  /\ taking' = taking \ {m}
  /\ admitted' = IF m \in taking THEN Minus(admitted, 1) ELSE admitted
  /\ UNCHANGED <<owned, sure>>

\* own: m, claimed under t in a place admitted for it, owned now; surely so
\* where the lease its claim was asked for has not run out.
Own(t, m) ==
  /\ admitted' = Minus(admitted, 1)
  /\ taking' = taking \ {m}
  /\ owned' = [owned EXCEPT ![m] = t]
  /\ sure' = [sure EXCEPT ![m] = claim[m] = t]

\* A read of the queue is under way.  What is noted outside one, the next
\* clears as it begins (SendStep::reading): kept only while one runs.
Reading == scan.stage \in {"read", "look", "full"}

----------------------------------------------------------------------------
(* Jobs.                                                                   *)

\* The tokens nothing remembers; the next one is the least of them.
FreeJobs ==
  {t \in Jobs : /\ t <= limits.jobs
                /\ job[t] = NoJob
                /\ \A m \in Messages : claim[m] # t /\ owned[m] # t}
Fresh(t) == t \in FreeJobs /\ \A u \in FreeJobs : t <= u

Starts(t, m, s, p) == job' = [job EXCEPT ![t] = [msg |-> m, stage |-> s, place |-> p]]
Goes(t, s) ==
  job' = [job EXCEPT ![t].stage = s, ![t].place = @ /\ s = "written"]
Over(t) == job' = [job EXCEPT ![t] = NoJob]

----------------------------------------------------------------------------
(* A Publication, or a resumed Subscription's move (held_work::pick_up).   *)

\* line_up, or the move's own admit: under a place where there is one.
LineUp(m) ==
  /\ ~closed
  /\ m \in limits.come
  /\ entry[m] = "absent"
  /\ \A t \in Jobs : job[t].msg # m
  /\ LET place == Room > 0
     IN  /\ admitted' = IF place THEN admitted + 1 ELSE admitted
         /\ \E t \in Jobs : Fresh(t) /\ Starts(t, m, "lined", place)
  /\ UNCHANGED <<ledgerVars, owned, sure, taking, wakeVars, handed, closed, limits, scan, missed>>

\* Not taken: the place given back, the Message refused where it arrived.
PublishNot(t) ==
  /\ job[t].stage = "lined"
  /\ Withdraw(IF job[t].place THEN 1 ELSE 0)
  /\ entry' = [entry EXCEPT ![job[t].msg] = "refused"]
  /\ Over(t)
  /\ UNCHANGED <<claim, tries, owned, sure, taking, handed, closed, limits, scan, missed>>

\* Taken: in its queue, where any scan reads it, claimed if it has a place.
PublishTaken(t) ==
  /\ job[t].stage = "lined"
  /\ entry' = [entry EXCEPT ![job[t].msg] = "due"]
  /\ claim' = IF job[t].place THEN [claim EXCEPT ![job[t].msg] = t] ELSE claim
  /\ Goes(t, "written")
  /\ UNCHANGED <<tries, placeVars, wakeVars, handed, closed, limits, scan, missed>>

\* confirmed and handed: a claim the answer lists is owned.
Published(t) ==
  /\ job[t].stage = "written" /\ job[t].place
  /\ LET m == job[t].msg
     IN  /\ admitted' = Minus(admitted, 1)
         /\ owned' = [owned EXCEPT ![m] = t]
         /\ sure' = [sure EXCEPT ![m] = claim[m] = t]
  /\ handed' = handed \cup {t}
  /\ Goes(t, "handed")
  /\ UNCHANGED <<ledgerVars, taking, wakeVars, closed, limits, scan, missed>>

\* The move's: hand, through own.
Moved(t) ==
  /\ limits.moves
  /\ job[t].stage = "written" /\ job[t].place
  /\ Own(t, job[t].msg)
  /\ handed' = handed \cup {t}
  /\ Goes(t, "handed")
  /\ UNCHANGED <<ledgerVars, wakeVars, closed, limits, scan, missed>>

\* Without a claim - it had no place, or the answer, asked again, no longer
\* lists it: the place given back, and its queue is read, now or as a place
\* frees.
PublishedUnclaimed(t) ==
  /\ job[t].stage = "written"
  /\ job[t].place => claim[job[t].msg] # t
  /\ admitted' = IF job[t].place THEN Minus(admitted, 1) ELSE admitted
  /\ asked' = (asked \/ owned[job[t].msg] = 0 \/ (job[t].place /\ starved))
  /\ starved' = (starved /\ ~job[t].place)
  /\ Over(t)
  /\ UNCHANGED <<ledgerVars, owned, sure, taking, at, noted, handed, closed, limits, scan, missed>>

\* Xmip Storage took it, and its answer never came: the place given back as if
\* it had not, the claim left to lapse.
PublishUnanswered(t) ==
  /\ job[t].stage = "written"
  /\ Withdraw(IF job[t].place THEN 1 ELSE 0)
  /\ Over(t)
  /\ UNCHANGED <<ledgerVars, owned, sure, taking, handed, closed, limits, scan, missed>>

----------------------------------------------------------------------------
(* The dispatching: dispatch, next, scan, scanning.                        *)

At(s) == scan' = [scan EXCEPT !.stage = s]

\* next: what is handed goes to the pool; the queue is read where it was
\* asked for, a wake-up set for it goes off, or the scan of all is due.
Wakes(goesOff, all) ==
  /\ scan.stage = "idle"
  /\ goesOff => at
  /\ closed \/ handed # {} \/ asked \/ goesOff \/ all
  /\ job' = [t \in Jobs |->
       IF t \in handed THEN [job[t] EXCEPT !.stage = "sending"] ELSE job[t]]
  /\ handed' = {}
  /\ asked' = FALSE
  /\ at' = (at /\ ~goesOff)
  /\ At(IF closed THEN "over" ELSE IF asked \/ goesOff \/ all THEN "room" ELSE "idle")
  /\ UNCHANGED <<ledgerVars, placeVars, starved, noted, closed, limits, missed>>

\* Mutant: the last place of the pool is not seen.
LooksForRoomBesides ==
  /\ scan.stage = "room"
  /\ scan' = [Idle EXCEPT !.stage = IF Room <= 1 THEN "starve" ELSE "read"]
  /\ UNCHANGED <<ledgerVars, placeVars, wakeVars, handed, closed, limits, job, missed>>

\* The look at the room; then, in a holding of the lock of its own, starve.
LooksForRoom ==
  /\ scan.stage = "room"
  /\ scan' = [Idle EXCEPT !.stage = IF Room = 0 THEN "starve" ELSE "read"]
  /\ UNCHANGED <<ledgerVars, placeVars, wakeVars, handed, closed, limits, job, missed>>

Starves ==
  /\ scan.stage = "starve"
  /\ starved' = TRUE
  /\ At("idle")
  /\ UNCHANGED <<ledgerVars, placeVars, asked, at, noted, handed, closed, limits, job, missed>>

DueUnread == {m \in Messages \ scan.seen : entry[m] = "due"}

\* Reading::page: the next of what is due; the earliest of the rest noted.
ReadsPage ==
  /\ scan.stage = "read"
  /\ \E page \in SUBSET DueUnread :
       /\ Cardinality(page) =
            IF Cardinality(DueUnread) < Page THEN Cardinality(DueUnread) ELSE Page
       /\ scan' = [stage |-> "look", seen |-> scan.seen \cup page, page |-> page,
                   last |-> Cardinality(page) < Page,
                   waits |-> scan.waits \/ \E m \in Messages : entry[m] = "later"]
  /\ UNCHANGED <<ledgerVars, placeVars, wakeVars, handed, closed, limits, job, missed>>

\* What was found goes to the pool's threads.
ToThePool ==
  job' = [t \in Jobs |->
    IF job[t].stage = "found" THEN [job[t] EXCEPT !.stage = "taking"] ELSE job[t]]

\* Mutant: what a hand-on noted while the queue was read is dropped.
WaitedForgets(whole) ==
  /\ at' = IF whole THEN scan.waits ELSE at \/ scan.waits
  /\ noted' = FALSE
  /\ missed' = (missed /\ ~whole)
  /\ scan' = Idle
  /\ ToThePool

\* waited: of a whole read, what it found and what was noted since it began.
Waited(whole) ==
  /\ at' = IF whole THEN scan.waits \/ noted ELSE at \/ scan.waits
  /\ noted' = FALSE
  /\ missed' = (missed /\ ~whole)
  /\ scan' = Idle
  /\ ToThePool

\* Xmip Storage did not answer: what waits, waits for the next scan.
ReadUnanswered ==
  /\ scan.stage = "read"
  /\ at' = (at \/ scan.waits)
  /\ noted' = FALSE
  /\ missed' = TRUE
  /\ scan' = Idle
  /\ ToThePool
  /\ UNCHANGED <<ledgerVars, placeVars, starved, asked, handed, closed, limits>>

Known(m) == owned[m] # 0 \/ m \in taking

\* An entry known already is passed by.
LooksKnown(m) ==
  /\ scan.stage = "look" /\ m \in scan.page
  /\ Known(m)
  /\ scan' = [scan EXCEPT !.page = @ \ {m}]
  /\ UNCHANGED <<ledgerVars, placeVars, wakeVars, handed, closed, limits, job, missed>>

\* One that is not is taken, under a place admitted for it.
LooksTakes(m) ==
  /\ scan.stage = "look" /\ m \in scan.page
  /\ ~Known(m)
  /\ Room > 0
  /\ admitted' = admitted + 1
  /\ taking' = taking \cup {m}
  /\ \E t \in Jobs : Fresh(t) /\ Starts(t, m, "found", FALSE)
  /\ scan' = [scan EXCEPT !.page = @ \ {m}]
  /\ UNCHANGED <<ledgerVars, owned, sure, wakeVars, handed, closed, limits, missed>>

\* The pool is full: the rest waits, the queue starved in a holding of the
\* lock of its own.
LooksFull(m) ==
  /\ scan.stage = "look" /\ m \in scan.page
  /\ ~Known(m)
  /\ Room = 0
  /\ At("full")
  /\ UNCHANGED <<ledgerVars, placeVars, wakeVars, handed, closed, limits, job, missed>>

StarvesFull ==
  /\ scan.stage = "full"
  /\ starved' = TRUE
  /\ Waited(FALSE)
  /\ UNCHANGED <<ledgerVars, placeVars, asked, handed, closed, limits>>

\* The page is done: the next, or the whole queue is read.
PageDone ==
  /\ scan.stage = "look" /\ scan.page = {}
  /\ IF scan.last
       THEN Waited(TRUE)
       ELSE At("read") /\ UNCHANGED <<at, noted, missed, job>>
  /\ UNCHANGED <<ledgerVars, placeVars, starved, asked, handed, closed, limits>>

----------------------------------------------------------------------------
(* A send thread: take, sent, settle.                                      *)

\* The claim granted, and the Message read under it where it was found.
TakeGranted(t) ==
  /\ job[t].stage = "taking"
  /\ claim[job[t].msg] = 0
  /\ entry[job[t].msg] = "due"
  /\ claim' = [claim EXCEPT ![job[t].msg] = t]
  /\ Goes(t, "claimed")
  /\ UNCHANGED <<entry, tries, placeVars, wakeVars, handed, closed, limits, scan, missed>>

\* Granted, its retry not yet due: woken for, and not taken.
TakeNotDue(t) ==
  /\ job[t].stage = "taking"
  /\ claim[job[t].msg] = 0
  /\ entry[job[t].msg] = "later"
  /\ Untake(job[t].msg)
  /\ asked' = (asked \/ starved) /\ starved' = FALSE
  /\ at' = TRUE /\ noted' = Reading
  /\ Over(t)
  /\ UNCHANGED <<ledgerVars, handed, closed, limits, scan, missed>>

\* Another's claim, no answer, no longer there, or a panic.
TakeNot(t) ==
  /\ job[t].stage = "taking"
  /\ Untake(job[t].msg)
  /\ Freed
  /\ Over(t)
  /\ UNCHANGED <<ledgerVars, handed, closed, limits, scan, missed>>

TakeOwns(t) ==
  /\ job[t].stage = "claimed"
  /\ Own(t, job[t].msg)
  /\ Goes(t, "sending")
  /\ UNCHANGED <<ledgerVars, wakeVars, handed, closed, limits, scan, missed>>

\* SendStep::holds: by the Message, whichever claim it is owned under.
Holds(m) == owned[m] # 0 /\ sure[m]

\* The pass tried a Location, and its hand-on, under its own claim, was taken.
HandsOn(t, how) ==
  /\ job[t].stage = "sending"
  /\ LET m == job[t].msg
     IN  /\ claim[m] = t
         /\ claim' = [claim EXCEPT ![m] = 0]
         /\ \/ how = "completed" /\ entry' = [entry EXCEPT ![m] = "gone"] /\ UNCHANGED tries
            \/ how = "failed" /\ entry' = [entry EXCEPT ![m] = "failed"] /\ UNCHANGED tries
            \/ /\ how = "waiting"
               /\ tries[m] < limits.tries
               /\ entry' = [entry EXCEPT ![m] = "later"]
               /\ tries' = [tries EXCEPT ![m] = @ + 1]
  /\ Goes(t, how)
  /\ UNCHANGED <<placeVars, wakeVars, handed, closed, limits, scan, missed>>

\* Its hand-on was refused, or not answered: nothing written, nothing released.
HandsOnNot(t) ==
  /\ job[t].stage = "sending"
  /\ Goes(t, IF claim[job[t].msg] = t THEN "unwritten" ELSE "lost")
  /\ UNCHANGED <<ledgerVars, placeVars, wakeVars, handed, closed, limits, scan, missed>>

\* Not surely held before a Location was tried.
Untried(t) ==
  /\ job[t].stage = "sending"
  /\ ~Holds(job[t].msg)
  /\ Goes(t, "untried")
  /\ UNCHANGED <<ledgerVars, placeVars, wakeVars, handed, closed, limits, scan, missed>>

\* Its claim given back, outside the lock.
ReleaseUntried(t) ==
  /\ job[t].stage = "untried"
  /\ claim' = IF claim[job[t].msg] = t THEN [claim EXCEPT ![job[t].msg] = 0] ELSE claim
  /\ Goes(t, "released")
  /\ UNCHANGED <<entry, tries, placeVars, wakeVars, handed, closed, limits, scan, missed>>

\* settle, and lost: a retry's due time noted, an untried one's queue asked
\* for; the Message let go of and a place freed.
Settle(t) ==
  /\ job[t].stage \in Ends \ {"untried"}
  /\ owned' = [owned EXCEPT ![job[t].msg] = 0]
  /\ sure' = [sure EXCEPT ![job[t].msg] = FALSE]
  /\ asked' = (asked \/ starved \/ job[t].stage = "released")
  /\ starved' = FALSE
  /\ at' = (at \/ job[t].stage = "waiting")
  /\ noted' = (noted \/ (job[t].stage = "waiting" /\ Reading))
  /\ Over(t)
  /\ UNCHANGED <<ledgerVars, admitted, taking, handed, closed, limits, scan, missed>>

----------------------------------------------------------------------------
(* Time, renewals, and the end.                                            *)

\* A lease from the last confirmation runs out on the node's clock.
Unsure(m) ==
  /\ owned[m] # 0 /\ sure[m]
  /\ sure' = [sure EXCEPT ![m] = FALSE]
  /\ UNCHANGED <<ledgerVars, owned, admitted, taking, wakeVars, handed, closed, limits, job, scan, missed>>

Renewed(m) ==
  /\ owned[m] # 0 /\ ~sure[m]
  /\ claim[m] = owned[m]
  /\ sure' = [sure EXCEPT ![m] = TRUE]
  /\ UNCHANGED <<ledgerVars, owned, admitted, taking, wakeVars, handed, closed, limits, job, scan, missed>>

\* A claim lapses in Xmip Storage, never before its holder is unsure of it.
Lapses(m) ==
  /\ claim[m] # 0
  /\ ~(owned[m] = claim[m] /\ sure[m])
  /\ claim' = [claim EXCEPT ![m] = 0]
  /\ UNCHANGED <<entry, tries, placeVars, wakeVars, handed, closed, limits, job, scan, missed>>

DueComes(m) ==
  /\ entry[m] = "later"
  /\ entry' = [entry EXCEPT ![m] = "due"]
  /\ UNCHANGED <<claim, tries, placeVars, wakeVars, handed, closed, limits, job, scan, missed>>

\* Every Receive Location and the pickup have ended.
Close ==
  /\ ~closed
  /\ limits.closes
  /\ \A t \in Jobs : job[t].stage \notin {"lined", "written"}
  /\ closed' = TRUE
  /\ UNCHANGED <<ledgerVars, placeVars, wakeVars, handed, limits, job, scan, missed>>

----------------------------------------------------------------------------
Init ==
  /\ entry = [m \in Messages |-> "absent"]
  /\ claim = [m \in Messages |-> 0]
  /\ tries = [m \in Messages |-> 0]
  /\ owned = [m \in Messages |-> 0]
  /\ sure = [m \in Messages |-> FALSE]
  /\ admitted = 0
  /\ taking = {}
  /\ starved = FALSE /\ asked = FALSE /\ at = FALSE /\ noted = FALSE
  /\ handed = {}
  /\ closed = FALSE
  /\ limits \in Limits
  /\ job = [t \in Jobs |-> NoJob]
  /\ scan = Idle
  /\ missed = FALSE

Publication(t) ==
  \/ PublishNot(t) \/ PublishTaken(t) \/ PublishUnanswered(t)
  \/ Published(t) \/ Moved(t) \/ PublishedUnclaimed(t)

Dispatching ==
  \/ \E goesOff, all \in BOOLEAN : Wakes(goesOff, all)
  \/ LooksForRoom \/ Starves \/ ReadsPage \/ ReadUnanswered
  \/ \E m \in Messages : LooksKnown(m) \/ LooksTakes(m) \/ LooksFull(m)
  \/ StarvesFull \/ PageDone

Take(t) == TakeGranted(t) \/ TakeNotDue(t) \/ TakeNot(t) \/ TakeOwns(t)

Ending(t) ==
  \/ \E how \in {"completed", "failed", "waiting"} : HandsOn(t, how)
  \/ HandsOnNot(t) \/ Untried(t) \/ ReleaseUntried(t) \/ Settle(t)

Standing(m) == Unsure(m) \/ Renewed(m) \/ Lapses(m)

Next ==
  \/ \E m \in Messages : LineUp(m) \/ Standing(m) \/ DueComes(m)
  \/ \E t \in Jobs : Publication(t) \/ Take(t) \/ Ending(t)
  \/ Dispatching
  \/ Close

\* The dispatching and every thread go on, the scan of all queues comes round,
\* a retry's time comes and a claim nobody renews lapses; and what is asked of
\* Xmip Storage again and again is answered in the end, within a lease: it
\* reads a page, grants a claim nobody holds, takes a hand-on under the claim.
TakeOwnsInTime(t) == job[t].stage = "claimed" /\ claim[job[t].msg] = t /\ TakeOwns(t)

Fairness ==
  /\ WF_vars(Dispatching)
  /\ SF_vars(Wakes(FALSE, TRUE))
  /\ SF_vars(ReadsPage)
  /\ \A t \in Jobs :
       /\ WF_vars(Publication(t) \/ Take(t) \/ Ending(t))
       /\ SF_vars(TakeGranted(t))
       /\ SF_vars(TakeOwnsInTime(t))
       /\ SF_vars(HandsOn(t, "completed") \/ HandsOn(t, "failed"))
  /\ \A m \in Messages : WF_vars(DueComes(m)) /\ WF_vars(Lapses(m))

Spec == Init /\ [][Next]_vars

FairSpec == Spec /\ Fairness

----------------------------------------------------------------------------
(* What must hold.                                                         *)

JobRecords ==
  [msg : Messages \cup {"none"}, stage : Stages \cup {"none"}, place : BOOLEAN]
ScanRecords ==
  [stage : {"idle", "room", "starve", "read", "look", "full", "over"},
   seen : SUBSET Messages, page : SUBSET Messages, last : BOOLEAN, waits : BOOLEAN]

\* A place is carried only by what is lined up or written, and what is handed
\* is ready to send.
JobsOK ==
  /\ job \in [Jobs -> JobRecords]
  /\ \A t \in Jobs :
       job[t] = NoJob
         \/ /\ job[t].msg \in Messages
            /\ job[t].stage \in Stages
            /\ job[t].place => job[t].stage \in {"lined", "written"}
  /\ handed \subseteq {t \in Jobs : job[t].stage = "handed"}

LedgerOK ==
  /\ entry \in [Messages -> {"absent", "refused", "due", "later", "failed", "gone"}]
  /\ claim \in [Messages -> Jobs \cup {0}]
  /\ limits \in Limits
  /\ tries \in [Messages -> 0 .. limits.tries]

PlacesOK ==
  /\ owned \in [Messages -> Jobs \cup {0}]
  /\ sure \in [Messages -> BOOLEAN]
  /\ admitted \in Nat
  /\ taking \subseteq Messages
  /\ {starved, asked, at, noted, closed, missed} \subseteq BOOLEAN

ScanOK == scan \in ScanRecords /\ scan.page \subseteq scan.seen

\* Every variable keeps its type; the places admitted never fall below none
\* (admission.rs), and a scan looks only at what it has read.
TypeOK == LedgerOK /\ PlacesOK /\ JobsOK /\ ScanOK

\* Being taken by a scan: found, its claim asked, or granted.
InTaking(t) == job[t].stage \in {"found", "taking", "claimed"}

\* The jobs a place is admitted for: a Publication lined up under one, or a
\* Message being taken.
Placed == {t \in Jobs : job[t].place \/ InTaking(t)}

\* However Publications, scans, moves and settling threads interleave, the Send
\* pool is never promised more than its threads (`What the node holds is bounded
\* by the pool's threads', admission.rs).
WithinPool == Cardinality(OwnedNow) + admitted <= MostPlaces

\* Places admitted for what is not yet owned are each somebody's: none is given
\* back twice, and none leaks, which would be for good: nothing counts them
\* again until the node restarts.
PlacesExact == admitted = Cardinality(Placed)

\* The pool's places are counted right: never more than it has, and each
\* admitted one somebody's (admission.rs).
Bounded == WithinPool /\ PlacesExact

\* What makes the counts right: no place is given back that was not admitted,
\* and the mark a scan put on a Message is its own job's, one job's at a time.
PlacesHeld == Cardinality(Placed) <= admitted
MarksOwn ==
  /\ \A t \in Jobs : InTaking(t) => job[t].msg \in taking
  /\ \A t, u \in Jobs : InTaking(t) /\ InTaking(u) /\ job[t].msg = job[u].msg => t = u

\* A Message left waiting for a retry is woken for: by its queue's due time, by
\* the queue being asked for or starved, or by the read under way, which has
\* yet to pass its place, has seen it, or had its due time noted beside it.
\* Only a read Xmip Storage did not answer may forget it (due.rs, noted).
WokenFor(m) ==
  \/ asked \/ starved \/ at \/ missed
  \/ scan.stage \in {"room", "starve", "full"}
  \/ scan.stage = "read" /\ (scan.seen = {} \/ scan.waits \/ noted)
  \/ scan.stage = "look" /\ (scan.waits \/ noted)
WakeKept ==
  \A m \in Messages :
    (/\ entry[m] = "later" /\ ~closed
     /\ \A t \in Jobs : job[t].msg # m)
    => WokenFor(m)

\* More exactly, from the settling of the job that put it off: a read under way
\* will set the due time itself, whatever else is set meanwhile, since a whole
\* read sets it anew.
LeftLater(m) ==
  /\ entry[m] = "later" /\ ~closed
  /\ \A t \in Jobs : ~(job[t].msg = m /\ job[t].stage = "waiting")
WokenInv ==
  \A m \in Messages : LeftLater(m) =>
    /\ scan.stage = "idle" => asked \/ starved \/ at \/ missed
    /\ scan.stage = "read" => scan.seen = {} \/ scan.waits \/ noted
    /\ scan.stage = "look" => scan.waits \/ noted
    /\ scan.stage # "over"

\* A send thread told that its Message is held is told so of its own claim:
\* the claim it was handed with, or took, and not another job's of the same
\* Message (`no Location is tried again from here', send_step.rs).
HoldsOwn ==
  \A t \in Jobs :
    job[t].stage = "sending" /\ Holds(job[t].msg) => owned[job[t].msg] = t

\* Every Message put in the queue is sent, or failed, at last, however often
\* places run out, claims lapse and reads go unanswered; or the step is closed,
\* and then what was handed to it is sent and every thread's job ends (close,
\* send_step.rs: `what is handed is sent, once the step's dispatching ends').
Drains ==
  <>[]( IF closed THEN handed = {} /\ \A t \in Jobs : job[t] = NoJob
        ELSE \A m \in Messages : entry[m] \notin InQueue )
=============================================================================
