------------------------------- MODULE Follow --------------------------------
(***************************************************************************)
(* An operator surface over one node's operate listener: the calls it asks *)
(* on one line, the follow that holds the node's wait on another and       *)
(* recovers a node that is lost, the deadline thread that ends a call on a *)
(* pipe, and the listener that answers, stops and is started again.        *)
(* (plane/remote.rs and remote/asking.rs, plane/follow.rs, shared.rs,      *)
(* line.rs, deadline.rs, board.rs, listener.rs, workers.rs, served.rs.)    *)
(*                                                                         *)
(* What runs by itself: the follow's thread, each caller's, the process's  *)
(* deadline thread, the node's connections and the program that posts its  *)
(* publication.  The text of a publication is its revision; why a node is  *)
(* lost is one of the reasons its followers are told apart.                *)
(***************************************************************************)
EXTENDS Integers, FiniteSets

CONSTANTS
  Threads,      \* the threads that call on the surface's asking line
  MaxPosts,     \* bound: the publications posted
  MaxOutages     \* bound: the node's stops, crashes and hangs

ASSUME CallersAssumption == IsFiniteSet(Threads)
ASSUME FollowBoundsAssumption == MaxPosts \in Nat /\ MaxOutages \in Nat

Nobody == "nobody"
ASSUME NobodyAssumption == Nobody \notin Threads

Lines == {"follow", "asking"}

VARIABLES
  pipe,      \* whether the line is a named pipe, whose reads keep no time
  node,      \* up, stopping, hung or down
  rev,       \* its Board's revision
  conn,      \* its end of each line, and the answer on the way
  state,     \* the surface's State
  ending,    \* no, said, ended, then dropped: drops, and gone once it was
  follow,    \* where the follow is
  seen,      \* the revision it waits past, and whether the node answered it
  call,      \* where each caller's call is
  holder,    \* who has the asking line
  fresh,     \* whether the line was opened for this call
  armed,     \* the Deadline: the call it was armed for last, and whether it fired
  late,      \* the callers whose call has waited as long as it may
  looks,     \* what the deadline thread waits for
  posts, outages

servedVars == <<node, rev, conn>>
surfaceVars == <<state, ending>>
followVars == <<follow, seen>>
watchVars == <<armed, late, looks>>
callVars == <<call, holder, fresh, watchVars>>
planeVars == <<pipe, servedVars, surfaceVars, followVars, callVars, posts, outages>>

NoConn == [at |-> "none", revision |-> 0]

----------------------------------------------------------------------------
(* The node: its board, and its end of a line.                             *)

Lost(x) == conn[x].at = "none"

\* Board::post.
Post ==
  /\ node = "up" /\ posts < MaxPosts
  /\ rev' = rev + 1
  /\ posts' = posts + 1
  /\ UNCHANGED <<pipe, node, conn, surfaceVars, followVars, callVars, outages>>

\* Its half of a handshake; or called and Published::wait: the revision once it is
\* past the one asked about, once the longest wait is over, or once the listener
\* stops.
NodeAnswers(x) ==
  /\ node \in {"up", "stopping"}
  /\ \/ /\ conn[x].at = "opening"
        /\ conn' = [conn EXCEPT ![x] = [NoConn EXCEPT !.at = "idle"]]
     \/ /\ conn[x].at = "asked"
        /\ conn' = [conn EXCEPT ![x] = [at |-> "answered", revision |-> rev]]
  /\ UNCHANGED <<pipe, node, rev, surfaceVars, followVars, callVars, posts, outages>>

\* calls: between two requests it looks whether the listener stops, and its read
\* of the next looks too.
Heard(x) ==
  conn' = [conn EXCEPT ![x] = IF node = "stopping" THEN NoConn
                              ELSE [NoConn EXCEPT !.at = "idle"]]

\* Mutant: only looked at once an answer is given.
LooksAnswered(x) == conn[x].at = "answered"

Looks(x) == ~Lost(x)

ConnectionEnds(x) ==
  /\ node = "stopping" /\ Looks(x)
  /\ conn' = [conn EXCEPT ![x] = NoConn]
  /\ UNCHANGED <<pipe, node, rev, surfaceVars, followVars, callVars, posts, outages>>

\* Listener::stop: nothing accepted after; down once every connection has ended.
NodeStops ==
  /\ node = "up" /\ outages < MaxOutages
  /\ node' = "stopping"
  /\ outages' = outages + 1
  /\ UNCHANGED <<pipe, rev, conn, surfaceVars, followVars, callVars, posts>>

\* Workers::stop: every thread that answered a connection joined.
AllEnded == \A x \in Lines : Lost(x)

NodeStopped ==
  /\ node = "stopping" /\ AllEnded
  /\ node' = "down"
  /\ UNCHANGED <<pipe, rev, conn, surfaceVars, followVars, callVars, posts, outages>>

Hang ==
  /\ node = "up" /\ outages < MaxOutages
  /\ node' = "hung"
  /\ outages' = outages + 1
  /\ UNCHANGED <<pipe, rev, conn, surfaceVars, followVars, callVars, posts>>

\* A node that was slow answers again, what it was asked meanwhile too.
Resume ==
  /\ node = "hung"
  /\ node' = "up"
  /\ UNCHANGED <<pipe, rev, conn, surfaceVars, followVars, callVars, posts, outages>>

NodeCrashes ==
  /\ node = "hung" \/ (node = "up" /\ outages < MaxOutages)
  /\ outages' = IF node = "up" THEN outages + 1 ELSE outages
  /\ node' = "down"
  /\ conn' = [x \in Lines |-> NoConn]
  /\ UNCHANGED <<pipe, rev, surfaceVars, followVars, callVars, posts>>

\* A node started again has a board of its own, from nothing published.
NodeStarts ==
  /\ node = "down"
  /\ node' = "up"
  /\ rev' = 0
  /\ UNCHANGED <<pipe, conn, surfaceVars, followVars, callVars, posts, outages>>

----------------------------------------------------------------------------
(* The surface: what its followers are told, each under the state's lock.   *)

\* Shared::tell.
Tell(reachable, reason, revision) ==
  state' = [reachable |-> reachable, reason |-> reason, revision |-> revision, told |-> TRUE]

Ending == ending # "no"

\* Remote::end says it, then cancels once; net::watched sees it said on a socket.
EndSays ==
  /\ ~Ending
  /\ ending' = "said"
  /\ UNCHANGED <<pipe, servedVars, state, followVars, callVars, posts, outages>>

\* A pipe's read waits for what the node has not sent.  A cancel reaches no other.
InFlight(x) == pipe /\ conn[x].at \in {"opening", "asked"}

CutFollow ==
  follow' = IF ~InFlight("follow") THEN follow
            ELSE CASE follow = "shakes" -> "refused"
                   [] follow = "reads" -> "lost"
                   [] OTHER -> follow

CutAsking ==
  call' = [c \in Threads |->
             IF InFlight("asking") /\ holder = c /\ call[c] \in {"shakes", "reads"}
               THEN "cancelled" ELSE call[c]]

\* Shared::cancel.
EndCancels ==
  /\ ending = "said"
  /\ ending' = "ended"
  /\ CutFollow /\ CutAsking
  /\ UNCHANGED <<pipe, servedVars, state, seen, holder, fresh, watchVars, posts, outages>>

\* Remote::drop, with no call in flight.
Drops ==
  /\ ending = "ended" /\ \A c \in Threads : call[c] = "idle"
  /\ ending' = "drops"
  /\ UNCHANGED <<pipe, servedVars, state, followVars, callVars, posts, outages>>

\* Mutant: left to the one cancel of the end.
DropCutsNot == FALSE

\* Cancelled again until the follow has ended.
DropCuts ==
  /\ ending = "drops" /\ follow = "reads" /\ InFlight("follow")
  /\ CutFollow
  /\ UNCHANGED <<pipe, servedVars, surfaceVars, seen, callVars, posts, outages>>

\* A follow in a connect is not waited for.
Dropped ==
  /\ ending = "drops" /\ follow \in {"none", "opens", "shakes", "ended"}
  /\ ending' = "gone"
  /\ UNCHANGED <<pipe, servedVars, state, followVars, callVars, posts, outages>>

Undropped == ending \notin {"drops", "gone"}

----------------------------------------------------------------------------
(* The follow.                                                             *)

\* accept and answered: on a thread of its own until it has ended.
NewConn == [NoConn EXCEPT !.at = "opening"]

\* Line::open: connected, the handshake asked for.
Opened(x) ==
  /\ node \in {"up", "hung"}
  /\ conn' = [conn EXCEPT ![x] = NewConn]

FollowConnects ==
  /\ follow = "connects"
  /\ follow' = IF Ending THEN "ended" ELSE "opens"
  /\ UNCHANGED <<pipe, servedVars, surfaceVars, seen, callVars, posts, outages>>

FollowOpens ==
  /\ follow = "opens"
  /\ \/ /\ Opened("follow")
        /\ follow' = "shakes"
        /\ seen' = [revision |-> 0, reached |-> FALSE]
     \/ /\ node \in {"down", "stopping"}
        /\ follow' = "refused"
        /\ UNCHANGED <<conn, seen>>
  /\ UNCHANGED <<pipe, node, rev, surfaceVars, callVars, posts, outages>>

FollowShaken ==
  /\ follow = "shakes" /\ conn["follow"].at = "idle"
  /\ follow' = "asks"
  /\ UNCHANGED <<pipe, servedVars, surfaceVars, seen, callVars, posts, outages>>

\* held: the wait asked again, unless the surface ends.
FollowAsks ==
  /\ follow = "asks"
  /\ follow' = IF Ending THEN "lost" ELSE "sends"
  /\ UNCHANGED <<pipe, servedVars, surfaceVars, seen, callVars, posts, outages>>

AskedOn(x) ==
  conn' = IF Lost(x) THEN conn ELSE [conn EXCEPT ![x] = [NoConn EXCEPT !.at = "asked"]]

FollowSends ==
  /\ follow = "sends"
  /\ AskedOn("follow")
  /\ follow' = "reads"
  /\ UNCHANGED <<pipe, node, rev, surfaceVars, seen, callVars, posts, outages>>

\* Mutant: told only where the revision moved on.
NewsWhenMoved(now) == ~seen.reached \/ now # seen.revision

\* A call that waited too long may have said the node lost: its next answer
\* says it is back.
News(now) == ~seen.reached \/ now # seen.revision \/ ~state.reachable

FollowHears ==
  /\ follow = "reads" /\ conn["follow"].at = "answered"
  /\ Heard("follow")
  /\ follow' = "asks"
  /\ LET now == conn["follow"].revision IN
       IF News(now)
         THEN /\ Tell(TRUE, "", now)
              /\ seen' = [revision |-> now, reached |-> TRUE]
         ELSE UNCHANGED <<state, seen>>
  /\ UNCHANGED <<pipe, node, rev, ending, callVars, posts, outages>>

\* The connection broke; or, on a socket, the surface ends or nothing was heard.
ReadEnds == Lost("follow") \/ (~pipe /\ (Ending \/ node = "hung"))

FollowLoses ==
  /\ follow \in {"shakes", "reads"} /\ ReadEnds
  /\ conn' = [conn EXCEPT !["follow"] = NoConn]
  /\ follow' = IF follow = "reads" THEN "lost" ELSE "refused"
  /\ UNCHANGED <<pipe, node, rev, surfaceVars, seen, callVars, posts, outages>>

\* run: told once a node is lost or a try fails anew.
FollowTells ==
  /\ follow \in {"lost", "refused"}
  /\ IF Ending
       THEN follow' = "ended" /\ UNCHANGED state
       ELSE /\ follow' = "connects"
            /\ IF ~state.told \/ state.reachable \/ state.reason # follow
                 THEN Tell(FALSE, follow, state.revision)
                 ELSE UNCHANGED state
  /\ conn' = [conn EXCEPT !["follow"] = NoConn]
  /\ UNCHANGED <<pipe, node, rev, ending, seen, callVars, posts, outages>>

----------------------------------------------------------------------------
(* A call on the asking line (Remote::asked_for, Shared::called).          *)

Unreachable == ~state.reachable /\ state.told

\* arm, before the line is its own.
Asks(c) ==
  /\ call[c] = "idle" /\ ~Unreachable /\ Undropped
  /\ call' = [call EXCEPT ![c] = "armed"]
  /\ armed' = [by |-> c, fired |-> FALSE]
  /\ UNCHANGED <<pipe, servedVars, surfaceVars, followVars, holder, fresh, late, looks, posts,
                 outages>>

\* Mutant: a deadline thread that waits for nothing is not told.
SoonerNot == looks

\* sooner: the deadline thread is told where it would look later.
Sooner == IF looks = "told" THEN "time" ELSE looks

Arms(c) ==
  /\ call[c] = "armed"
  /\ looks' = Sooner
  /\ call' = [call EXCEPT ![c] = "queues"]
  /\ UNCHANGED <<pipe, servedVars, surfaceVars, followVars, holder, fresh, armed, late, posts,
                 outages>>

LineTaken(c) == holder' = c

Locks(c) ==
  /\ call[c] = "queues" /\ holder = Nobody
  /\ LineTaken(c)
  /\ fresh' = FALSE
  /\ call' = [call EXCEPT ![c] = IF conn["asking"].at = "none" THEN "opens" ELSE "sends"]
  /\ UNCHANGED <<pipe, servedVars, surfaceVars, followVars, armed, late, looks, posts,
                 outages>>

CallOpens(c) ==
  /\ call[c] = "opens"
  /\ fresh' = TRUE
  /\ \/ Opened("asking") /\ call' = [call EXCEPT ![c] = "shakes"]
     \/ /\ node \in {"down", "stopping"}
        /\ call' = [call EXCEPT ![c] = "lost"]
        /\ UNCHANGED conn
  /\ UNCHANGED <<pipe, node, rev, surfaceVars, followVars, holder, armed, late, looks,
                 posts, outages>>

CallShaken(c) ==
  /\ call[c] = "shakes" /\ conn["asking"].at = "idle"
  /\ call' = [call EXCEPT ![c] = "sends"]
  /\ UNCHANGED <<pipe, servedVars, surfaceVars, followVars, holder, fresh, armed, late, looks,
                 posts, outages>>

Sends(c) ==
  /\ call[c] = "sends"
  /\ AskedOn("asking")
  /\ call' = [call EXCEPT ![c] = "reads"]
  /\ UNCHANGED <<pipe, node, rev, surfaceVars, followVars, holder, fresh, armed, late, looks,
                 posts, outages>>

Answered(c) ==
  /\ call[c] = "reads" /\ conn["asking"].at = "answered"
  /\ Heard("asking")
  /\ call' = [call EXCEPT ![c] = "answered"]
  /\ UNCHANGED <<pipe, node, rev, surfaceVars, followVars, holder, fresh, armed, late, looks,
                 posts, outages>>

\* Its own time is up, or the deadline thread fired for it.
Passed(c) == armed.fired \/ c \in late

\* A line lost since it last answered is opened anew, once, while the call may
\* wait, also where the surface ends meanwhile.
Fail(c) ==
  /\ conn' = [conn EXCEPT !["asking"] = NoConn]
  /\ call' = [call EXCEPT ![c] = IF fresh \/ Passed(c) THEN "lost" ELSE "opens"]
  /\ UNCHANGED <<pipe, node, rev, surfaceVars, followVars, holder, fresh, armed, late, looks,
                 posts, outages>>

\* The line broke; or, on a socket, the surface ends or nothing was heard as long
\* as the call may wait.
Fails(c) ==
  /\ call[c] \in {"shakes", "reads"}
  /\ Lost("asking") \/ (~pipe /\ (Ending \/ c \in late))
  /\ Fail(c)

Cancelled(c) ==
  /\ call[c] = "cancelled"
  /\ Fail(c)

\* The line let go of, then the deadline disarmed.
Unlocks(c) ==
  /\ call[c] \in {"answered", "lost"} /\ holder = c
  /\ holder' = Nobody
  /\ UNCHANGED <<pipe, servedVars, surfaceVars, followVars, call, fresh, armed, late, looks,
                 posts, outages>>

Disarms(c) ==
  /\ call[c] \in {"answered", "lost"} /\ holder # c
  /\ armed' = [by |-> Nobody, fired |-> FALSE]
  /\ late' = late \ {c}
  /\ call' = [call EXCEPT ![c] = IF @ = "lost" THEN "says" ELSE "idle"]
  /\ UNCHANGED <<pipe, servedVars, surfaceVars, followVars, holder, fresh, looks, posts, outages>>

\* asked_for: a node that did not answer is told to every follower, and from
\* then on recovered by the follow, which this starts.
SaysLost(c) ==
  /\ call[c] = "says"
  /\ Tell(FALSE, "unanswered", state.revision)
  /\ call' = [call EXCEPT ![c] = "starts"]
  /\ UNCHANGED <<pipe, servedVars, ending, followVars, holder, fresh, armed, late, looks,
                 posts, outages>>

\* Mutant: a lost call leaves the follow to the first wait.
FollowedNot == UNCHANGED follow

\* followed: the follow started, once.
Followed == follow' = IF follow = "none" THEN "connects" ELSE follow

StartsFollow(c) ==
  /\ call[c] = "starts"
  /\ Followed
  /\ call' = [call EXCEPT ![c] = "idle"]
  /\ UNCHANGED <<pipe, servedVars, surfaceVars, seen, holder, fresh, armed, late, looks,
                 posts, outages>>

\* Remote::wait starts it too.
WaitStarts ==
  /\ follow = "none" /\ Undropped
  /\ follow' = "connects"
  /\ UNCHANGED <<pipe, servedVars, surfaceVars, seen, callVars, posts, outages>>

----------------------------------------------------------------------------
(* The deadline thread (watch), which only a pipe needs.                   *)

PatienceEnds(c) ==
  /\ call[c] \in {"armed", "queues", "opens", "shakes", "sends", "reads"} /\ c \notin late
  /\ late' = late \cup {c}
  /\ UNCHANGED <<pipe, servedVars, surfaceVars, followVars, call, holder, fresh, armed, looks,
                 posts, outages>>

\* A cancel that comes before the read is lost, so it is made again until the call
\* has ended.  A surface that ends is let go.
Watches ==
  /\ pipe /\ looks = "time"
  /\ IF ~Ending /\ (armed.fired \/ armed.by \in late)
       THEN /\ armed' = [by |-> Nobody, fired |-> TRUE]
            /\ CutAsking
            /\ UNCHANGED looks
       ELSE /\ Ending \/ armed.by = Nobody
            /\ looks' = "told"
            /\ UNCHANGED <<armed, call>>
  /\ UNCHANGED <<pipe, servedVars, surfaceVars, followVars, holder, fresh, late, posts, outages>>

----------------------------------------------------------------------------

FollowInit ==
  /\ pipe \in BOOLEAN
  /\ node = "up" /\ rev = 0
  /\ conn = [x \in Lines |-> NoConn]
  /\ state = [reachable |-> FALSE, reason |-> "new", revision |-> 0, told |-> FALSE]
  /\ ending = "no"
  /\ follow = "none" /\ seen = [revision |-> 0, reached |-> FALSE]
  /\ call = [c \in Threads |-> "idle"]
  /\ holder = Nobody /\ fresh = FALSE
  /\ armed = [by |-> Nobody, fired |-> FALSE] /\ late = {}
  /\ looks = "told"
  /\ posts = 0 /\ outages = 0

Answers(x) == NodeAnswers(x) \/ ConnectionEnds(x)

FollowRuns ==
  \/ FollowConnects \/ FollowOpens \/ FollowShaken \/ FollowAsks \/ FollowSends \/ FollowHears
  \/ FollowLoses \/ FollowTells

Ends == EndCancels \/ DropCuts \/ Dropped

Calls(c) ==
  \/ Arms(c) \/ Locks(c) \/ CallOpens(c) \/ CallShaken(c) \/ Sends(c) \/ Answered(c)
  \/ Fails(c) \/ Cancelled(c) \/ Unlocks(c) \/ Disarms(c) \/ SaysLost(c) \/ StartsFollow(c)

FollowNext ==
  \/ Post \/ NodeStops \/ NodeStopped \/ Hang \/ Resume \/ NodeCrashes \/ NodeStarts
  \/ EndSays \/ Ends \/ Drops \/ WaitStarts
  \/ \E x \in Lines : Answers(x)
  \/ FollowRuns \/ Watches
  \/ \E c \in Threads : Asks(c) \/ Calls(c) \/ PatienceEnds(c)

FollowSpec == FollowInit /\ [][FollowNext]_planeVars

\* Threads run, a stop goes on, and time passes: a wait's longest, a deadline.
\* Nothing is assumed of who starts a node, posts, asks, ends a surface or drops it.
FollowFairness ==
  /\ \A x \in Lines : WF_planeVars(Answers(x))
  /\ WF_planeVars(NodeStopped) /\ WF_planeVars(FollowRuns)
  /\ WF_planeVars(Watches) /\ WF_planeVars(Ends)
  /\ \A c \in Threads : WF_planeVars(Calls(c)) /\ WF_planeVars(PatienceEnds(c))

FollowFairSpec == FollowSpec /\ FollowFairness

----------------------------------------------------------------------------
(* What must hold.                                                         *)

\* Every variable keeps its type, and only who holds the line calls on it.
FollowTypeOK ==
  /\ pipe \in BOOLEAN /\ ending \in {"no", "said", "ended", "drops", "gone"}
  /\ node \in {"up", "stopping", "hung", "down"}
  /\ posts \in 0 .. MaxPosts /\ outages \in 0 .. MaxOutages /\ rev \in 0 .. posts
  /\ conn \in [Lines -> [at : {"none", "opening", "idle", "asked", "answered"},
                       revision : 0 .. posts]]
  /\ state \in [reachable : BOOLEAN, told : BOOLEAN, revision : 0 .. posts,
                reason : {"", "new", "lost", "refused", "unanswered"}]
  /\ follow \in {"none", "connects", "opens", "shakes", "asks", "sends", "reads", "lost",
                 "refused", "ended"}
  /\ seen \in [revision : 0 .. posts, reached : BOOLEAN]
  /\ call \in [Threads -> {"idle", "armed", "queues", "opens", "shakes", "sends", "reads",
                           "cancelled", "answered", "lost", "says", "starts"}]
  /\ holder \in Threads \cup {Nobody} /\ fresh \in BOOLEAN
  /\ \A c \in Threads :
       call[c] \in {"opens", "shakes", "sends", "reads", "cancelled"} => holder = c
  /\ armed \in [by : Threads \cup {Nobody}, fired : BOOLEAN]
  /\ late \subseteq Threads /\ looks \in {"told", "time"}

\* A node said unreachable is being recovered: the follow runs, or the call that
\* says so is about to start it.  A read is never refused for good.
Recovered ==
  Unreachable => follow # "none" \/ \E c \in Threads : call[c] = "starts"

\* Once the node is up for good, the surface says again and again that it is
\* reached and which revision it is at, whatever was lost, hung, started again or
\* said lost by a call that waited too long.
Follows ==
  <>[](node = "up") =>
    []<>(follow = "none" \/ Ending \/ (state.reachable /\ state.revision = rev))

\* A call that waits on a hung node's pipe for a surface that ended: the end
\* cancelled before the read began, or the call opened the line anew after it, and
\* the deadline thread let the surface go.
CallLeft ==
  pipe /\ Ending /\ node = "hung" /\ \E c \in Threads : call[c] \in {"shakes", "reads"}

\* A call ends, answered or at its deadline, also on a pipe to a node that hangs,
\* whose read keeps no time and whose cancels may come too soon; only one left when
\* its surface ends waits as long as the node hangs.
CallEnds == <>[]CallLeft \/ \A c \in Threads : call[c] = "queues" ~> call[c] = "idle"

\* A follow that waits on a hung node's pipe: in a handshake, which Remote::drop
\* does not wait for, or begun after the end's one cancel and not dropped yet.
FollowLeft ==
  pipe /\ node = "hung" /\ (follow = "shakes" \/ (follow = "reads" /\ ending = "ended"))

\* A surface that ends ends its follow, and one dropped also on a pipe to a node
\* that hangs.
FollowEnds == <>[]FollowLeft \/ (Ending ~> follow \in {"none", "ended"})

\* A listener that stops comes down: no wait and no connection keeps it.
StopEnds == node = "stopping" ~> node # "stopping"

\* "A local call waits at most a set time" (deadline.rs): one that reads a pipe
\* has its deadline armed, or passed.
Armed ==
  pipe => \A c \in Threads : call[c] = "reads" => armed.by # Nobody \/ armed.fired

\* Nothing waits for ever: not a call, not the follow of a surface that ends, not a
\* listener that stops (deadline.rs, follow.rs, listener.rs), but for what an end
\* leaves on a hung node's pipe (remote.rs).
AllEnd == CallEnds /\ FollowEnds /\ StopEnds
==============================================================================
