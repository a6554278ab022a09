------------------------------ MODULE NodeLife ------------------------------
(***************************************************************************)
(* One node's life: the slice it runs, the phases that start it, the       *)
(* threads that serve, and the stop that drains them.                      *)
(*                                                                         *)
(* A node runs only a slice its cluster's authority signed (signed.rs).    *)
(* The slice is delivered as two files - the authority's certificate and   *)
(* the configuration - and one that verifies is kept as the node's         *)
(* accepted slice, which the node runs where the file does not verify.     *)
(* Running::start then holds the slice to what the program was built with, *)
(* opens what it names and spawns the serving thread (running/serving.rs): *)
(* an inner scope with every Receive Location and the pickup, inside an    *)
(* outer one with the send step and the work step, which are closed once   *)
(* the inner scope has ended.  Running::halt raises the stop, joins that   *)
(* thread and lets go of the rest.                                         *)
(*                                                                         *)
(* A slice's text is a record of what decides a start: the place its node  *)
(* and data directory name for the accepted slice, whether it parses and   *)
(* what it says of each part is well-formed, how it reaches Xmip Storage,  *)
(* the technologies it names, its modules and Receive Locations, which of  *)
(* them start, and the modules its Work Processes' units are taken from.   *)
(* A crash may come at any step.  The service manager starts the node      *)
(* again after a crash, and after a refusal only where it cannot tell one  *)
(* (launchd).                                                              *)
(***************************************************************************)
EXTENDS Integers, FiniteSets

CONSTANTS
  Texts,        \* the slices' texts that may be written (see Text)
  Rewrites,     \* those a delivery or an edit may bring
  Authorities,  \* the cluster authorities, by their certificate
  Installed,    \* the one the node was installed with
  Names,        \* the technologies, mechanisms and properties a slice may name
  Linked,       \* those this program was built with
  Modules,      \* the modules a slice may start
  InProcess,    \* those whose Host Service is this process
  Opens,        \* those whose library opens and takes its lifecycle
  Serves,       \* the capability each module claims
  Engines,      \* whether the program was built with both engines and a key store
  Receives,     \* the Receive Locations a slice may name
  Manager,      \* the service manager: "systemd" or "launchd"
  None,         \* no authority, no slice, no delivery
  Torn,         \* a file whose writing was cut short
  \* bounds: the starts, the deliveries, edits, plans and crashes together,
  \* and the arrivals, pickups and turns
  MaxStarts, MaxFaults, MaxTaken

Places == {t.place : t \in Texts}

\* A configuration file: a text, and the signature over a text by an
\* authority; unsigned where `by` is None.
Files == [text : Texts, by : Authorities \cup {None}, over : Texts]

ASSUME NodeLifeAssumption ==
  /\ Rewrites \subseteq Texts
  /\ Linked \subseteq Names
  /\ InProcess \subseteq Modules
  /\ Opens \subseteq Modules
  /\ Serves \in [Modules -> Names]
  /\ Engines \in BOOLEAN
  /\ Manager \in {"systemd", "launchd"}
  /\ None \notin Authorities
  /\ Installed \in Authorities
  /\ \A t \in Texts :
       /\ {t.parses, t.formed, t.role, t.listed, t.listen, t.presents} \subseteq BOOLEAN
       /\ t.names \subseteq Names
       /\ t.modules \cup t.units \subseteq Modules
       /\ t.receives \subseteq Receives
       /\ t.start \subseteq Modules \cup Receives

\* What a start reads (see Taken).
Reads == [file : Files, from : Files, runs : Texts, anchor : Authorities]

\* Nothing is told from whatever there may be: None is no text and no read.
ASSUME NoneAssumption == None \notin Texts /\ None \notin Reads

VARIABLES
  file,       \* the node's configuration file
  anchor,     \* the authority's certificate beside it
  kept,       \* the accepted slice kept at each place
  coming,     \* a slice being delivered: its certificate is written, its file not
  phase,      \* how far the node has come
  read,       \* the file as the start under way read it, and the text it runs
  plan,       \* a surface's plan of the node, from the same files
  parts,      \* what the node holds open
  stopping,   \* whether the stop is raised
  rx,         \* each Receive Location's thread
  carrying,   \* the arrivals each Location's pool carries
  pk,         \* the pickup's thread
  serving,    \* the serving thread
  handed,     \* Messages handed to the send step and not yet on its pool
  flying,     \* Messages on the send step's pool
  turns,      \* turns of Work Processes under way
  closed,     \* the steps closed: "send", "work"
  ended,      \* the outer scope's threads that ended
  \* what the bounds count
  starts, faults, taken

disk   == <<file, anchor, kept, coming, plan>>
scopes == <<rx, carrying, pk, serving, handed, flying, turns, closed, ended>>
counts == <<starts, faults, taken>>
lifeVars   == <<disk, phase, read, parts, stopping, scopes, counts>>

Starting == {"keeping", "read", "planned", "checked", "hosted", "loaded",
             "registered", "reached", "opened", "stepped"}
Stops    == {"joining", "joined", "unhosted", "stored"}
Phases   == {"down", "crashed", "refused", "serving"} \cup Starting \cup Stops

\* A start reads its files once, as it begins: what is written later is as
\* if written before the next start.
Writable == {"down", "crashed", "refused", "keeping"}

Outer == {"dispatch", "renewal", "work"}
Over  == {"ended", "panicked"}

-----------------------------------------------------------------------------
(* The slice a node runs.                                                  *)

\* signed::verified: signed, by the anchor's authority, over this text.
Verifies(f, a) ==
  /\ f \notin {None, Torn}
  /\ f.by # None
  /\ f.by = a
  /\ f.over = f.text

\* As a bug would have it: the accepted slice run unchecked.
AcceptedUnchecked(f, k, a) ==
  CASE Verifies(f, a) -> f
    [] ~Verifies(f, a) /\ k \notin {None, Torn} -> k
    [] OTHER -> None

\* signed::accepted: the file whose text a start runs, None where it runs none.
Accepted(f, k, a) ==
  CASE Verifies(f, a) -> f
    [] ~Verifies(f, a) /\ Verifies(k, a) -> k
    [] OTHER -> None

\* What a start would run now.
From == Accepted(file, kept[file.text.place], anchor)
Runs == IF From = None THEN None ELSE From.text

\* signed::delivered: the authority's certificate, then the file.
DeliverAnchor(t, a) ==
  /\ phase \in Writable
  /\ coming = None
  /\ faults < MaxFaults
  /\ anchor' = a
  /\ coming' = [text |-> t, by |-> a, over |-> t]
  /\ faults' = faults + 1
  /\ UNCHANGED <<plan, file, kept, phase, read, parts, stopping, scopes, starts, taken>>

DeliverFile ==
  /\ coming # None
  /\ file' = coming
  /\ coming' = None
  /\ UNCHANGED <<plan, anchor, kept, phase, read, parts, stopping, scopes, counts>>

\* The file edited by hand: its text changed, its signature left.
Edit(t) ==
  /\ phase \in Writable
  /\ faults < MaxFaults
  /\ t # file.text
  /\ file' = [file EXCEPT !.text = t]
  /\ faults' = faults + 1
  /\ UNCHANGED <<plan, anchor, kept, coming, phase, read, parts, stopping, scopes, starts, taken>>

-----------------------------------------------------------------------------
(* Starting.                                                               *)

To(p) == phase' = p

\* A phase refused the node: what it had opened is dropped.
Refuses ==
  /\ To("refused")
  /\ parts' = {}
  /\ read' = None
  /\ UNCHANGED <<disk, stopping, scopes, counts>>

\* As a bug would have it: a file kept before it is known to verify.
KeepsAny == kept[file.text.place] # file

\* What verifies is kept where it is not kept already.
Keeps == Verifies(file, anchor) /\ kept[file.text.place] # file

\* What a read took: the file it found, the text it runs and whose it is.
Taken == [file |-> file, from |-> From, runs |-> Runs, anchor |-> anchor]

\* The kept slice filled: where another process filled it meanwhile with a
\* longer one, that one's end is left behind this one's.
Filled(f) ==
  \/ kept' = [kept EXCEPT ![f.text.place] = f]
  \/ /\ kept[f.text.place] \notin {None, Torn, f}
     /\ kept' = [kept EXCEPT ![f.text.place] = Torn]

\* read_accepted: the file, the anchor and the accepted slice read, and the
\* file kept - by std::fs::write, which cuts the kept one short before it
\* fills it.
Begin ==
  /\ starts < MaxStarts
  /\ starts' = starts + 1
  /\ stopping' = FALSE
  /\ IF Runs = None
       THEN /\ To("refused")
            /\ UNCHANGED <<kept, read>>
       ELSE /\ read' = Taken
            /\ To(IF Keeps THEN "keeping" ELSE "read")
            /\ kept' = IF Keeps THEN [kept EXCEPT ![file.text.place] = Torn] ELSE kept
  /\ UNCHANGED <<plan, file, anchor, coming, parts, scopes, faults, taken>>

\* An operator, or the boot, starts the node.
Start ==
  /\ phase \in {"down", "refused"}
  /\ Begin

\* Restart=on-failure, never after REFUSED; launchd has no spelling of that.
Restart ==
  /\ phase = "crashed" \/ (phase = "refused" /\ Manager = "launchd")
  /\ Begin

Keep ==
  /\ phase = "keeping"
  /\ Filled(read.file)
  /\ To("read")
  /\ UNCHANGED <<plan, file, anchor, coming, read, parts, stopping, scopes, counts>>

\* The accepted slice cannot be kept: the start is refused.
NotKept ==
  /\ phase = "keeping"
  /\ Refuses

\* storage::plan: how the node reaches Xmip Storage; "refused" at phase 3.
Plan(t) ==
  CASE ~t.role /\ t.listed /\ t.presents -> "reaching"
    [] t.role /\ Engines /\ ~t.listen /\ ~t.listed -> "alone"
    [] t.role /\ Engines /\ t.listen /\ t.presents /\ ~t.listed -> "served"
    [] t.role /\ Engines /\ t.listen /\ t.presents /\ t.listed -> "several"
    [] OTHER -> "refused"

\* Phase 1's parse, and phase 3's Storage plan.
PlanStorage ==
  /\ phase = "read"
  /\ \/ /\ read.runs.parses /\ Plan(read.runs) # "refused"
        /\ To("planned")
        /\ UNCHANGED <<disk, read, parts, stopping, scopes, counts>>
     \/ /\ ~(read.runs.parses /\ Plan(read.runs) # "refused")
        /\ Refuses

\* validate_startup_configuration: each part well-formed, and every module a
\* Work Process requires configured - one configured not to start is warned of.
Valid(t) ==
  /\ t.formed
  /\ t.units \subseteq t.modules

\* build_execution_tree: what the slice names and says starts.
Tree(t) == [modules |-> t.modules \cap t.start, receives |-> t.receives \cap t.start]

\* startup::check: every name in use is one this program was built with.
Named(t) == t.names \subseteq Linked

\* Phases 2 and 3: the execution tree built and checked.
Check ==
  /\ phase = "planned"
  /\ \/ /\ Valid(read.runs) /\ Named(read.runs)
        /\ To("checked")
        /\ UNCHANGED <<disk, read, parts, stopping, scopes, counts>>
     \/ /\ ~(Valid(read.runs) /\ Named(read.runs))
        /\ Refuses

\* host::plan: what a module is written in decides its Host Service.
Hosted(t) == Tree(t).modules \subseteq InProcess

\* Phases 4 and 5: this process is the one Host Service it starts.
StartHostServices ==
  /\ phase = "checked"
  /\ \/ /\ Hosted(read.runs)
        /\ parts' = {"hosts"}
        /\ To("hosted")
        /\ UNCHANGED <<disk, read, stopping, scopes, counts>>
     \/ /\ ~Hosted(read.runs)
        /\ Refuses

\* Libraries::open: every library opens and takes its lifecycle.
Loads(t) == Tree(t).modules \subseteq Opens

\* Phase 6: every library opened once; one that does not lets go of the rest.
LoadModules ==
  /\ phase = "hosted"
  /\ \/ /\ Loads(read.runs)
        /\ parts' = parts \cup {"libraries"}
        /\ To("loaded")
        /\ UNCHANGED <<disk, read, stopping, scopes, counts>>
     \/ /\ ~Loads(read.runs)
        /\ Refuses

\* Phase 7: a capability is registered once, what was linked first.
Once(t) ==
  /\ \A m \in Tree(t).modules : Serves[m] \notin t.names
  /\ \A m, n \in Tree(t).modules : Serves[m] = Serves[n] => m = n

RegisterCapabilities ==
  /\ phase = "loaded"
  /\ \/ /\ Once(read.runs)
        /\ To("registered")
        /\ UNCHANGED <<disk, read, parts, stopping, scopes, counts>>
     \/ /\ ~Once(read.runs)
        /\ Refuses

\* Phase 9: Xmip Storage reached, and served to the others where it says so.
Reach ==
  /\ phase = "registered"
  /\ \/ /\ parts' = parts \cup {"storage"}
                     \cup (IF Plan(read.runs) \in {"served", "several"} THEN {"server"} ELSE {})
        /\ To("reached")
        /\ UNCHANGED <<disk, read, stopping, scopes, counts>>
     \/ Refuses   \* a database does not open, or its listener does not bind

\* Each Location's transport built, and the pickup read from Xmip Storage.
OpenLocations ==
  /\ phase = "reached"
  /\ \/ /\ parts' = parts \cup {"transports"}
        /\ To("opened")
        /\ UNCHANGED <<disk, read, stopping, scopes, counts>>
     \/ Refuses   \* a transport does not open, or Xmip Storage does not answer

\* The send step, and every Work Process's unit taken from its library.
OpenSteps ==
  /\ phase = "opened"
  /\ \/ /\ read.runs.units \subseteq Tree(read.runs).modules
        /\ To("stepped")
        /\ UNCHANGED <<disk, read, parts, stopping, scopes, counts>>
     \/ /\ ~(read.runs.units \subseteq Tree(read.runs).modules)
        /\ Refuses

-----------------------------------------------------------------------------
(* Planning: a surface asks, in a process of its own, what the node would  *)
(* start.  It reads the slice as a start does - and keeps it as one does.  *)

NoPlan == [is |-> "none"]

\* The surface begins one with none under way.
MayPlan ==
  /\ plan.is \in {"none", "shown"}
  /\ phase \in Writable
  /\ faults < MaxFaults
  /\ faults' = faults + 1

\* What the configuration does not say `true` to.
NotStarted(t) == t.receives \ t.start

\* start::start: the slice read and held to the tree built of it.
Planned(t) == t.parses /\ Valid(t)

\* start_published: valid where no record of it is Done, and what does not
\* start is recorded Done.
Shown(t) ==
  [is |-> "shown", planned |-> Planned(t), ok |-> Planned(t) /\ NotStarted(t) = {}]

Unread == [is |-> "shown", planned |-> FALSE, ok |-> FALSE]

\* start::read: none to run, one kept already, or one to keep.
PlanBegins ==
  /\ MayPlan
  /\ \/ /\ Runs = None
        /\ plan' = Unread
        /\ kept' = kept
     \/ /\ Runs # None /\ ~Keeps
        /\ plan' = Shown(Runs)
        /\ kept' = kept
     \/ /\ Keeps
        /\ plan' = [is |-> "keeping", file |-> file]
        /\ kept' = [kept EXCEPT ![file.text.place] = Torn]
  /\ UNCHANGED <<file, anchor, coming, phase, read, parts, stopping, scopes, starts, taken>>

PlanKeeps ==
  /\ plan.is = "keeping"
  /\ phase \in Writable
  /\ Filled(plan.file)
  /\ plan' = Shown(plan.file.text)
  /\ UNCHANGED <<file, anchor, coming, phase, read, parts, stopping, scopes, counts>>

\* The surface's process ends before it has filled the slice.
PlanCut ==
  /\ plan.is = "keeping"
  /\ phase \in Writable
  /\ faults < MaxFaults
  /\ faults' = faults + 1
  /\ plan' = NoPlan
  /\ UNCHANGED <<file, anchor, kept, coming, phase, read, parts, stopping, scopes, starts, taken>>

-----------------------------------------------------------------------------
(* Serving.                                                                *)

\* running::serving::serve: both scopes' threads spawned.
Serve ==
  /\ phase = "stepped"
  /\ To("serving")
  /\ rx' = [l \in Receives |-> IF l \in Tree(read.runs).receives THEN "asks" ELSE "none"]
  /\ pk' = "asks"
  /\ serving' = "inner"
  /\ closed' = {}
  /\ ended' = {}
  /\ UNCHANGED <<disk, read, parts, stopping, carrying, handed, flying, turns, counts>>

\* A receive hands over an arrival, carried on the Location's pool: also one
\* that was under way, or draining, as the stop was raised.
Take(l) ==
  /\ rx[l] = "asks"
  /\ carrying[l] = 0
  /\ taken < MaxTaken
  /\ carrying' = [carrying EXCEPT ![l] = 1]
  /\ taken' = taken + 1
  /\ UNCHANGED <<disk, phase, read, parts, stopping, rx, pk, serving, handed, flying, turns, closed, ended,
                 starts, faults>>

\* The arrival carried and told: its Message handed to the send step, or left
\* in the Ledger, refused or failed - a carry that panicked among them.
Carried(l) ==
  /\ carrying[l] = 1
  /\ carrying' = [carrying EXCEPT ![l] = 0]
  /\ \/ handed' = handed + 1
     \/ handed' = handed
  /\ UNCHANGED <<disk, phase, read, parts, stopping, rx, pk, serving, flying, turns, closed, ended, counts>>

\* Receiving::serve returns: the stop seen, or its transport failed for good,
\* and everything it carried told.
ReceiveEnds(l) ==
  /\ rx[l] = "asks"
  /\ carrying[l] = 0
  /\ rx' = [rx EXCEPT ![l] = "ended"]
  /\ UNCHANGED <<disk, phase, read, parts, stopping, carrying, pk, serving, handed, flying, turns, closed, ended,
                 counts>>

\* A transport's code panics on the Location's thread, which nothing catches.
ReceivePanics(l) ==
  /\ rx[l] = "asks"
  /\ rx' = [rx EXCEPT ![l] = "panicked"]
  /\ UNCHANGED <<disk, phase, read, parts, stopping, carrying, pk, serving, handed, flying, turns, closed, ended,
                 counts>>

\* held_work::pick_up_released: a released Message moved and handed on.
PickUp ==
  /\ pk = "asks"
  /\ taken < MaxTaken
  /\ taken' = taken + 1
  /\ handed' = handed + 1
  /\ UNCHANGED <<disk, phase, read, parts, stopping, rx, carrying, pk, serving, flying, turns, closed, ended,
                 starts, faults>>

PickupEnds ==
  /\ pk = "asks"
  /\ \/ stopping /\ pk' = "ended"
     \/ pk' = "panicked"
  /\ UNCHANGED <<disk, phase, read, parts, stopping, rx, carrying, serving, handed, flying, turns, closed, ended,
                 counts>>

\* send_step::dispatch: what was handed put on the pool; closed, it ends.
Dispatch ==
  /\ serving \in {"inner", "closing", "outer", "unwinding"}
  /\ "dispatch" \notin ended
  /\ handed > 0 \/ "send" \in closed
  /\ flying' = flying + handed
  /\ handed' = 0
  /\ ended' = IF "send" \in closed THEN ended \cup {"dispatch"} ELSE ended
  /\ UNCHANGED <<disk, phase, read, parts, stopping, rx, carrying, pk, serving, turns, closed, counts>>

\* A pass ends: sent, failed, or let go of - also where it panicked.
Sent ==
  /\ flying > 0
  /\ flying' = flying - 1
  /\ UNCHANGED <<disk, phase, read, parts, stopping, rx, carrying, pk, serving, handed, turns, closed, ended,
                 counts>>

\* The renewal ends once the step is closed and it owns nothing.
RenewalEnds ==
  /\ "renewal" \notin ended
  /\ "send" \in closed
  /\ handed + flying = 0
  /\ ended' = ended \cup {"renewal"}
  /\ UNCHANGED <<disk, phase, read, parts, stopping, rx, carrying, pk, serving, handed, flying, turns, closed,
                 counts>>

\* work_step::dispatch: a turn of a Work Process begun on its pool.
Turn ==
  /\ serving \in {"inner", "closing", "outer", "unwinding"}
  /\ "work" \notin ended \cup closed
  /\ read.runs.units # {}
  /\ turns = 0
  /\ taken < MaxTaken
  /\ taken' = taken + 1
  /\ turns' = 1
  /\ UNCHANGED <<disk, phase, read, parts, stopping, rx, carrying, pk, serving, handed, flying, closed, ended,
                 starts, faults>>

\* What a turn publishes is held in a queue in the Ledger, never handed.
Turned ==
  /\ turns = 1
  /\ turns' = 0
  /\ UNCHANGED <<disk, phase, read, parts, stopping, rx, carrying, pk, serving, handed, flying, closed, ended,
                 counts>>

\* It ends when closed, and at once where the node runs no Work Process.
WorkEnds ==
  /\ serving \in {"inner", "closing", "outer", "unwinding"}
  /\ "work" \notin ended
  /\ "work" \in closed \/ read.runs.units = {}
  /\ ended' = ended \cup {"work"}
  /\ UNCHANGED <<disk, phase, read, parts, stopping, rx, carrying, pk, serving, handed, flying, turns, closed,
                 counts>>

InnerOver ==
  /\ \A l \in Receives : rx[l] \in Over \cup {"none"} /\ carrying[l] = 0
  /\ pk \in Over

Panicked == pk = "panicked" \/ \E l \in Receives : rx[l] = "panicked"

\* As a bug would have it: the steps closed as soon as the stop is raised.
InnerEndsWhenTold ==
  /\ serving = "inner"
  /\ stopping
  /\ serving' = IF Panicked THEN "unwinding" ELSE "closing"
  /\ UNCHANGED <<disk, phase, read, parts, stopping, rx, carrying, pk, handed, flying, turns, closed, ended, counts>>

\* The inner scope ends with its last thread; where one panicked it unwinds,
\* past the two closes.
InnerEnds ==
  /\ serving = "inner"
  /\ InnerOver
  /\ serving' = IF Panicked THEN "unwinding" ELSE "closing"
  /\ UNCHANGED <<disk, phase, read, parts, stopping, rx, carrying, pk, handed, flying, turns, closed, ended, counts>>

\* As a bug would have it: the work step left open.
CloseSendOnly ==
  /\ serving = "closing"
  /\ closed' = {"send"}
  /\ serving' = "outer"
  /\ UNCHANGED <<disk, phase, read, parts, stopping, rx, carrying, pk, handed, flying, turns, ended, counts>>

\* runtime.send.close(), then runtime.work.close().
Close ==
  /\ serving = "closing"
  /\ closed' = closed \cup (IF "send" \in closed THEN {"work"} ELSE {"send"})
  /\ serving' = IF "send" \in closed THEN "outer" ELSE "closing"
  /\ UNCHANGED <<disk, phase, read, parts, stopping, rx, carrying, pk, handed, flying, turns, ended, counts>>

\* The outer scope ends once its threads and their pools have; the transports
\* it owned are let go.
OuterEnds ==
  /\ serving \in {"outer", "unwinding"}
  /\ ended = Outer
  /\ flying + turns = 0
  /\ serving' = IF serving = "outer" THEN "ended" ELSE "panicked"
  /\ parts' = parts \ {"transports"}
  /\ UNCHANGED <<disk, phase, read, stopping, rx, carrying, pk, handed, flying, turns, closed, ended, counts>>

-----------------------------------------------------------------------------
(* Stopping.                                                               *)

\* Running::halt raises the stop.
Stop ==
  /\ phase = "serving"
  /\ stopping' = TRUE
  /\ To("joining")
  /\ UNCHANGED <<disk, read, parts, scopes, counts>>

\* As a bug would have it: the stop raised and nothing waited for.
JoinUnwaited ==
  /\ phase = "joining"
  /\ To("joined")
  /\ UNCHANGED <<disk, read, parts, stopping, scopes, counts>>

\* serving.join(): the serving thread ended, or panicked, which is counted.
Join ==
  /\ phase = "joining"
  /\ serving \in Over
  /\ To("joined")
  /\ UNCHANGED <<disk, read, parts, stopping, scopes, counts>>

StopHosts ==
  /\ phase = "joined"
  /\ parts' = parts \ {"hosts"}
  /\ To("unhosted")
  /\ UNCHANGED <<disk, read, stopping, scopes, counts>>

\* Reached::stop: the standbys handed what it wrote, then no other served.
StopStorage ==
  /\ phase = "unhosted"
  /\ parts' = parts \ {"server"}
  /\ To("stored")
  /\ UNCHANGED <<disk, read, stopping, scopes, counts>>

Quiet ==
  /\ rx' = [l \in Receives |-> "none"]
  /\ carrying' = [l \in Receives |-> 0]
  /\ pk' = "none"
  /\ serving' = "none"
  /\ handed' = 0
  /\ flying' = 0
  /\ turns' = 0
  /\ closed' = {}
  /\ ended' = {}

\* The libraries let go, and the rest with the node.
LetsGo ==
  /\ phase = "stored"
  /\ parts' = {}
  /\ read' = None
  /\ To("down")
  /\ Quiet
  /\ UNCHANGED <<disk, stopping, counts>>

\* The process ends where it is: nothing is drained, what a write had cut
\* short stays so.
Crash ==
  /\ phase \in Starting \cup Stops \cup {"serving"}
  /\ faults < MaxFaults
  /\ faults' = faults + 1
  /\ To("crashed")
  /\ parts' = {}
  /\ read' = None
  /\ stopping' = FALSE
  /\ Quiet
  /\ UNCHANGED <<disk, starts, taken>>

-----------------------------------------------------------------------------
NodeInit ==
  /\ \E t \in Texts : file = [text |-> t, by |-> Installed, over |-> t]
  /\ anchor = Installed
  /\ kept = [p \in Places |-> None]
  /\ coming = None
  /\ phase = "down"
  /\ read = None
  /\ plan = NoPlan
  /\ parts = {}
  /\ stopping = FALSE
  /\ rx = [l \in Receives |-> "none"]
  /\ carrying = [l \in Receives |-> 0]
  /\ pk = "none"
  /\ serving = "none"
  /\ handed = 0 /\ flying = 0 /\ turns = 0
  /\ closed = {} /\ ended = {}
  /\ starts = 0 /\ faults = 0 /\ taken = 0

Deliveries ==
  \/ \E t \in Rewrites, a \in Authorities : DeliverAnchor(t, a)
  \/ DeliverFile
  \/ \E t \in Rewrites : Edit(t)

Begins ==
  \/ Start \/ Restart \/ Keep \/ NotKept
  \/ PlanStorage \/ Check \/ StartHostServices \/ LoadModules
  \/ RegisterCapabilities \/ Reach \/ OpenLocations \/ OpenSteps \/ Serve

Serving ==
  \/ \E l \in Receives : Take(l) \/ Carried(l) \/ ReceiveEnds(l) \/ ReceivePanics(l)
  \/ PickUp \/ PickupEnds
  \/ Dispatch \/ Sent \/ RenewalEnds
  \/ Turn \/ Turned \/ WorkEnds
  \/ InnerEnds \/ Close \/ OuterEnds

Stopped == Stop \/ Join \/ StopHosts \/ StopStorage \/ LetsGo

Plans == PlanBegins \/ PlanKeeps \/ PlanCut

NodeNext == Deliveries \/ Begins \/ Plans \/ Serving \/ Stopped \/ Crash

NodeSpec == NodeInit /\ [][NodeNext]_lifeVars

\* The threads are scheduled: a carry, a pass and a turn end, a receive
\* returns within its technology's wait, and what a thread waits for wakes
\* it.  Nothing is assumed of Start, Restart, Stop, an arrival or a panic.
NodeFairness ==
  /\ \A l \in Receives : WF_lifeVars(Carried(l)) /\ WF_lifeVars(stopping /\ ReceiveEnds(l))
  /\ WF_lifeVars(stopping /\ PickupEnds)
  /\ WF_lifeVars(Dispatch) /\ WF_lifeVars(Sent) /\ WF_lifeVars(RenewalEnds)
  /\ WF_lifeVars(Turned) /\ WF_lifeVars(WorkEnds)
  /\ WF_lifeVars(InnerEnds) /\ WF_lifeVars(Close) /\ WF_lifeVars(OuterEnds)
  /\ WF_lifeVars(Join) /\ WF_lifeVars(StopHosts) /\ WF_lifeVars(StopStorage) /\ WF_lifeVars(LetsGo)

NodeFairSpec == NodeSpec /\ NodeFairness

-----------------------------------------------------------------------------
(* Properties.                                                             *)

\* What a surface's plan may be.
PlanStates ==
  [is : {"none"}] \cup [is : {"keeping"}, file : Files]
    \cup [is : {"shown"}, planned : BOOLEAN, ok : BOOLEAN]

\* Every variable has its type, and a read is kept as long as a node runs by it.
NodeTypeOK ==
  /\ file \in Files
  /\ anchor \in Authorities
  /\ kept \in [Places -> {None, Torn} \cup Files]
  /\ coming \in {None} \cup Files
  /\ phase \in Phases
  /\ read \in IF phase \in {"down", "crashed", "refused"} THEN {None} ELSE Reads
  /\ plan \in PlanStates
  /\ parts \subseteq {"hosts", "libraries", "storage", "server", "transports"}
  /\ stopping \in BOOLEAN
  /\ rx \in [Receives -> {"none", "asks"} \cup Over]
  /\ carrying \in [Receives -> 0..1]
  /\ pk \in {"none", "asks"} \cup Over
  /\ serving \in {"none", "inner", "closing", "outer", "unwinding"} \cup Over
  /\ handed \in Nat /\ flying \in Nat /\ turns \in 0..1
  /\ closed \subseteq {"send", "work"} /\ ended \subseteq Outer

\* A node runs only a text the authority it trusted as it started signed,
\* whatever was delivered, edited, planned or cut short before: the file's
\* own, or the accepted slice's (signed.rs:1-8).
RunsSigned ==
  read # None =>
    /\ read.from \notin {None, Torn}
    /\ read.from.by = read.anchor
    /\ {read.from.text, read.from.over} = {read.runs}

\* The keeping of a slice a start would no longer take from the file: it was
\* edited, or another's delivery began, since it was read.
Overtaken ==
  \/ Keep /\ (read.file # file \/ ~Verifies(file, anchor))
  \/ PlanKeeps /\ (plan.file # file \/ ~Verifies(file, anchor))

\* What is written never takes a start's way away: a node that could start
\* from what is on its disk still can after any step of its own and of a
\* surface's plan, and after a crash at any of them, the keeping of the
\* accepted slice among them (signed.rs:173-185).  Only a delivery, an edit
\* or the keeping of an overtaken slice may end it.
KeepsAWay ==
  [][(Runs # None /\ ~Deliveries /\ ~Overtaken) => Runs' # None]_lifeVars

\* The same of every keeping.  Violated: a surface's plan and a start keep
\* their slices at one place, each what it read; a delivery between them, and
\* the later write leaves an overtaken slice, or the ends of two, where the
\* node would have found the one to run instead.
KeepsAWayAlways ==
  [][(Runs # None /\ ~Deliveries) => Runs' # None]_lifeVars

\* start_published answers "true when the node validated" (start.rs:253).
\* Violated: a Location configured not to start is recorded Done, severity
\* 0, and any Done record is taken for an invalid configuration.
ShownTrue == plan.is = "shown" => (plan.ok <=> plan.planned)

\* Whatever works for the node works on open parts: while a thread of either
\* scope is left, its transports are held, Xmip Storage is served and its
\* libraries are loaded (running.rs:390-412).
InUse ==
  (serving \notin {"none"} \cup Over) =>
     {"hosts", "libraries", "storage", "transports"} \subseteq parts
     /\ (Plan(read.runs) \in {"served", "several"} => "server" \in parts)

\* Nothing the Receive Locations and the pickup hand the send step is left
\* once its dispatching has ended (serving.rs:101-104).
NoneUnsent == "dispatch" \in ended => handed = 0

\* A stop ends: the node is down, and what it took was carried whole
\* (running.rs:381-388) - also where a carry, a pass or a turn panicked, which
\* its pool catches; not where a Receive Location's or the pickup's own
\* thread did (see StopAlwaysReturns).
StopReturns == stopping ~> (phase \in {"down", "crashed"} \/ Panicked)

\* A stop ends, whatever became of the serving thread: Running::stop "Returns
\* what became of every Stream", and halt counts a serving thread that
\* panicked (running.rs:390-401).  Violated: where a thread of the inner
\* scope panicked the scope unwinds past the two closes, and the outer scope
\* waits for steps nothing closes.
StopAlwaysReturns == stopping ~> (phase \in {"down", "crashed"})

\* The node's parts end in the order they are used in: nothing works on what is
\* closed, and nothing handed over is left unsent (serving.rs, running.rs).
EndsInOrder == InUse /\ NoneUnsent

-----------------------------------------------------------------------------
(* The strengthening that makes them inductive.                            *)

\* Nothing is left for the node to carry, to send or to turn.
Drained ==
  /\ \A l \in Receives : carrying[l] = 0
  /\ handed = 0 /\ flying = 0 /\ turns = 0

\* A stop joins nothing that works: what the node took is carried and sent, or
\* left in the Ledger, before its Host Services are stopped (running.rs:390-412).
StoppedDrained == phase \in Stops \ {"joining"} => Drained

\* The scopes end one within the other: none has begun, the inner one is over,
\* and the steps are closed only then, or the outer one is too.
ScopesInv ==
  /\ serving = "none" =>
       /\ \A l \in Receives : rx[l] = "none"
       /\ Drained
       /\ pk = "none" /\ closed = {} /\ ended = {}
  /\ serving \notin {"none", "inner"} => InnerOver
  /\ "send" \in closed => serving \notin {"none", "inner"}
  /\ "dispatch" \in ended => "send" \in closed
  /\ serving \in Over => Drained
  /\ NoneUnsent

\* Each phase holds what the ones before it opened, until the stop lets it go.
PartsInv ==
  /\ serving = "none" <=> phase \in Starting \cup {"down", "crashed", "refused"}
  /\ phase \in Stops \ {"joining"} => serving \in Over
  /\ phase \in {"hosted", "loaded", "registered", "reached", "opened", "stepped",
                "serving", "joining"} => "hosts" \in parts
  /\ phase \in {"loaded", "registered", "reached", "opened", "stepped",
                "serving", "joining"} => "libraries" \in parts
  /\ phase \in {"reached", "opened", "stepped", "serving", "joining"} =>
       /\ "storage" \in parts
       /\ Plan(read.runs) \in {"served", "several"} => "server" \in parts
  /\ phase \in {"opened", "stepped"} \/ serving \notin {"none"} \cup Over =>
       "transports" \in parts

=============================================================================
