------------------------------ MODULE NodeProofs ------------------------------
(***************************************************************************)
(* What is proved of a node and of its plane, three parts that share no    *)
(* state, for every value of their constants.                              *)
(*                                                                         *)
(*   NodeLife  A node's variables keep their types, it runs only what its  *)
(*             authority signed, what is written never takes a start's way *)
(*             away, its parts outlive what works on them, and a stop      *)
(*             joins nothing that works.                                   *)
(*   Follow    Only who holds the asking line calls on it, and a node said *)
(*             unreachable is being recovered.                             *)
(*   Vouching  A stopped listener's callers are held by none, a handshake  *)
(*             is one caller at a node, and an act is taken as the caller  *)
(*             it was asked for.                                           *)
(***************************************************************************)
EXTENDS NodeLife, Follow, Vouching, FiniteSetTheorems, TLAPS

----------------------------------------------------------------------------
(***************************************************************************)
(* NodeLife: one node, from its files to its stop.                         *)
(***************************************************************************)

(* The slice a node runs.                                                  *)

\* What a start runs is what it found, or kept, and verified.
LEMMA FromVerifies ==
  ASSUME NodeTypeOK, Runs # None
  PROVE  /\ Verifies(From, anchor)
         /\ From \in Files
         /\ Runs = From.text
<1>1. file.text.place \in Places
  BY DEF NodeTypeOK, Files, Places
<1>2. kept[file.text.place] \in {None, Torn} \cup Files
  BY <1>1 DEF NodeTypeOK
<1>3. From # None /\ Runs = From.text
  BY DEF Runs
<1>4. From \in {file, kept[file.text.place]} /\ Verifies(From, anchor)
  BY <1>3 DEF From, Accepted
<1> QED BY <1>2, <1>3, <1>4 DEF Verifies, NodeTypeOK

\* A node whose file verifies, or whose accepted slice does, has a slice to run.
LEMMA HasAWay ==
  ASSUME NodeTypeOK
  PROVE  Runs # None <=> Verifies(file, anchor) \/ Verifies(kept[file.text.place], anchor)
<1>1. file.text.place \in Places
  BY DEF NodeTypeOK, Files, Places
<1>2. kept[file.text.place] \in {None, Torn} \cup Files
  BY <1>1 DEF NodeTypeOK
<1>3. CASE Verifies(file, anchor)
  <2>1. From = file
    BY <1>3 DEF From, Accepted
  <2>2. file # None /\ file.text \in Texts
    BY <1>3 DEF Verifies, NodeTypeOK, Files
  <2> QED BY <1>3, <2>1, <2>2, NoneAssumption DEF Runs
<1>4. CASE ~Verifies(file, anchor) /\ Verifies(kept[file.text.place], anchor)
  <2> DEFINE k == kept[file.text.place]
  <2>1. From = k
    BY <1>4 DEF From, Accepted
  <2>2. k # None /\ k.text \in Texts
    BY <1>2, <1>4 DEF Verifies, Files
  <2> QED BY <1>4, <2>1, <2>2, NoneAssumption DEF Runs
<1>5. CASE ~Verifies(file, anchor) /\ ~Verifies(kept[file.text.place], anchor)
  <2>1. From = None
    BY <1>5 DEF From, Accepted
  <2> QED BY <1>5, <2>1 DEF Runs
<1> QED BY <1>3, <1>4, <1>5

\* What a start reads is a read, of a text its authority signed.
LEMMA TakenSigned ==
  ASSUME NodeTypeOK, Runs # None
  PROVE  /\ Taken \in Reads
         /\ Taken.from \notin {None, Torn}
         /\ Taken.from.by = Taken.anchor
         /\ {Taken.from.text, Taken.from.over} = {Taken.runs}
<1>1. From \in Files /\ Verifies(From, anchor) /\ Runs = From.text
  BY FromVerifies
<1>2. Runs \in Texts /\ file \in Files /\ anchor \in Authorities
  BY <1>1 DEF Files, NodeTypeOK
<1>3. /\ Taken.file = file /\ Taken.from = From /\ Taken.runs = Runs
      /\ Taken.anchor = anchor
  BY DEF Taken
<1>4. Taken \in Reads
  BY <1>1, <1>2 DEF Taken, Reads
<1> QED BY <1>1, <1>3, <1>4 DEF Verifies

----------------------------------------------------------------------------
(* Every variable has its type.                                            *)

DiskOK ==
  /\ file \in Files /\ anchor \in Authorities
  /\ kept \in [Places -> {None, Torn} \cup Files]
  /\ coming \in {None} \cup Files
  /\ plan \in PlanStates

RunOK ==
  /\ phase \in Phases
  /\ read \in IF phase \in {"down", "crashed", "refused"} THEN {None} ELSE Reads
  /\ parts \subseteq {"hosts", "libraries", "storage", "server", "transports"}
  /\ stopping \in BOOLEAN

ThreadsOK ==
  /\ rx \in [Receives -> {"none", "asks"} \cup Over]
  /\ carrying \in [Receives -> 0..1]
  /\ pk \in {"none", "asks"} \cup Over
  /\ serving \in {"none", "inner", "closing", "outer", "unwinding"} \cup Over
  /\ handed \in Nat /\ flying \in Nat /\ turns \in 0..1
  /\ closed \subseteq {"send", "work"} /\ ended \subseteq Outer

\* A slice written where one is kept leaves slices, or torn ones, everywhere.
LEMMA KeptOK ==
  ASSUME NodeTypeOK, NEW f \in Files, Filled(f)
  PROVE  kept' \in [Places -> {None, Torn} \cup Files]
<1>1. f.text.place \in Places
  BY DEF Files, Places
<1> QED BY <1>1 DEF Filled, NodeTypeOK

\* A step reads or writes the disk as a delivery, a start or a plan does.
LEMMA DiskNext ==
  ASSUME NodeTypeOK, [NodeNext]_lifeVars
  PROVE  DiskOK'
<1> USE DEF disk
<1>a. file.text.place \in Places
  BY DEF NodeTypeOK, Files, Places
<1>s. ASSUME NEW t \in Texts PROVE Shown(t) \in PlanStates
  BY DEF Shown, PlanStates, Planned
<1>0. ASSUME UNCHANGED disk PROVE DiskOK'
  BY <1>0 DEF NodeTypeOK, DiskOK
<1>1. ASSUME NEW t \in Rewrites, NEW a \in Authorities, DeliverAnchor(t, a) PROVE DiskOK'
  <2>1. t \in Texts
    BY NodeLifeAssumption
  <2> QED BY <1>1, <2>1 DEF DeliverAnchor, NodeTypeOK, DiskOK, Files
<1>2. ASSUME DeliverFile PROVE DiskOK'
  BY <1>2 DEF DeliverFile, NodeTypeOK, DiskOK
<1>3. ASSUME NEW t \in Rewrites, Edit(t) PROVE DiskOK'
  <2>1. t \in Texts
    BY NodeLifeAssumption
  <2>2. file' \in Files
    BY <1>3, <2>1 DEF Edit, NodeTypeOK, Files
  <2> QED BY <1>3, <2>2 DEF Edit, NodeTypeOK, DiskOK
<1>4. ASSUME Begin PROVE DiskOK'
  <2>1. UNCHANGED <<plan, file, anchor, coming>>
    BY <1>4 DEF Begin
  <2>2. kept' \in {kept, [kept EXCEPT ![file.text.place] = Torn]}
    BY <1>4 DEF Begin
  <2>3. kept' \in [Places -> {None, Torn} \cup Files]
    BY <1>a, <2>2 DEF NodeTypeOK
  <2> QED BY <2>1, <2>3 DEF NodeTypeOK, DiskOK
<1>5. ASSUME Keep PROVE DiskOK'
  <2>1. read.file \in Files
    BY <1>5 DEF Keep, NodeTypeOK, Reads
  <2>2. kept' \in [Places -> {None, Torn} \cup Files]
    BY <1>5, <2>1, KeptOK DEF Keep
  <2> QED BY <1>5, <2>2 DEF Keep, NodeTypeOK, DiskOK
<1>6. ASSUME PlanBegins PROVE DiskOK'
  <2>1. UNCHANGED <<file, anchor, coming>>
    BY <1>6 DEF PlanBegins
  <2>2. kept' \in {kept, [kept EXCEPT ![file.text.place] = Torn]}
    BY <1>6 DEF PlanBegins
  <2>3. kept' \in [Places -> {None, Torn} \cup Files]
    BY <1>a, <2>2 DEF NodeTypeOK
  <2>4. CASE plan' = Unread
    BY <2>1, <2>3, <2>4 DEF NodeTypeOK, DiskOK, Unread, PlanStates
  <2>5. CASE Runs # None /\ plan' = Shown(Runs)
    <3>1. Runs \in Texts
      BY <2>5, FromVerifies DEF Files
    <3> QED BY <1>s, <2>1, <2>3, <2>5, <3>1 DEF NodeTypeOK, DiskOK
  <2>6. CASE plan' = [is |-> "keeping", file |-> file]
    BY <2>1, <2>3, <2>6 DEF NodeTypeOK, DiskOK, PlanStates
  <2> QED BY <1>6, <2>4, <2>5, <2>6 DEF PlanBegins
<1>7. ASSUME PlanKeeps PROVE DiskOK'
  <2>1. plan.file \in Files
    BY <1>7 DEF PlanKeeps, NodeTypeOK, PlanStates
  <2>2. kept' \in [Places -> {None, Torn} \cup Files]
    BY <1>7, <2>1, KeptOK DEF PlanKeeps
  <2>3. plan' \in PlanStates
    BY <1>7, <1>s, <2>1 DEF PlanKeeps, Files
  <2> QED BY <1>7, <2>2, <2>3 DEF PlanKeeps, NodeTypeOK, DiskOK
<1>8. ASSUME PlanCut PROVE DiskOK'
  BY <1>8 DEF PlanCut, NodeTypeOK, DiskOK, NoPlan, PlanStates
<1>9. ASSUME Begins, ~Start, ~Restart, ~Keep PROVE UNCHANGED disk
  BY <1>9 DEF Begins, NotKept, PlanStorage, Check, StartHostServices, LoadModules,
     RegisterCapabilities, Reach, OpenLocations, OpenSteps, Serve, Refuses
<1>10. ASSUME Serving PROVE UNCHANGED disk
  BY <1>10 DEF Serving, Take, Carried, ReceiveEnds, ReceivePanics, PickUp, PickupEnds, Dispatch,
     Sent, RenewalEnds, Turn, Turned, WorkEnds, InnerEnds, Close, OuterEnds
<1>11. ASSUME Stopped \/ Crash \/ UNCHANGED lifeVars PROVE UNCHANGED disk
  BY <1>11 DEF Stopped, Stop, Join, StopHosts, StopStorage, LetsGo, Crash, lifeVars
<1> QED
  BY <1>0, <1>1, <1>2, <1>3, <1>4, <1>5, <1>6, <1>7, <1>8, <1>9, <1>10, <1>11
  DEF NodeNext, Deliveries, Plans, Begins, Start, Restart

\* A step moves the node from a phase to one, keeping what it read meanwhile.
LEMMA RunNext ==
  ASSUME NodeTypeOK, [NodeNext]_lifeVars
  PROVE  RunOK'
<1> USE DEF Phases, Starting, Stops
<1>0. ASSUME UNCHANGED <<phase, read, stopping>>, parts' \subseteq parts PROVE RunOK'
  BY <1>0 DEF NodeTypeOK, RunOK
<1>1. ASSUME Start \/ Restart PROVE RunOK'
  <2>1. Begin /\ phase \in {"down", "crashed", "refused"}
    BY <1>1 DEF Start, Restart
  <2>2. parts' = parts /\ stopping' = FALSE
    BY <2>1 DEF Begin
  <2>3. CASE Runs = None
    <3>1. phase' = "refused" /\ read' = read
      BY <2>1, <2>3 DEF Begin, To
    <3>2. read = None
      BY <2>1 DEF NodeTypeOK
    <3> QED BY <2>2, <3>1, <3>2 DEF NodeTypeOK, RunOK
  <2>4. CASE Runs # None
    <3>1. phase' \in {"keeping", "read"} /\ read' = Taken
      BY <2>1, <2>4 DEF Begin, To
    <3>2. Taken \in Reads
      BY <2>4, TakenSigned
    <3> QED BY <2>2, <3>1, <3>2 DEF NodeTypeOK, RunOK
  <2> QED BY <2>3, <2>4
<1>2. ASSUME Refuses PROVE RunOK'
  BY <1>2 DEF Refuses, To, NodeTypeOK, RunOK
\* A phase passed, with what it opened.
<1>3. ASSUME phase \notin {"down", "crashed", "refused"},
             phase' \in Phases \ {"down", "crashed", "refused"},
             UNCHANGED <<read, stopping>> \/ (read' = read /\ stopping' = TRUE),
             parts' \subseteq parts \cup {"hosts", "libraries", "storage", "server", "transports"}
      PROVE  RunOK'
  BY <1>3 DEF NodeTypeOK, RunOK
<1>4. ASSUME Begins, ~Start, ~Restart, ~Refuses PROVE RunOK'
  <2>1. CASE Keep \/ PlanStorage \/ Check \/ StartHostServices \/ LoadModules
    BY <1>3, <1>4, <2>1 DEF NotKept, To, Keep, PlanStorage, Check, StartHostServices, LoadModules
  <2>2. CASE RegisterCapabilities \/ Reach \/ OpenLocations \/ OpenSteps \/ Serve
    BY <1>3, <1>4, <2>2 DEF To, RegisterCapabilities, Reach, OpenLocations, OpenSteps, Serve
  <2> QED BY <1>4, <2>1, <2>2 DEF Begins, NotKept
<1>5. ASSUME Deliveries \/ Plans PROVE RunOK'
  BY <1>0, <1>5 DEF Deliveries, DeliverAnchor, DeliverFile, Edit, Plans, PlanBegins, PlanKeeps, PlanCut
<1>6. ASSUME Serving PROVE RunOK'
  <2>1. UNCHANGED <<phase, read, stopping>> /\ parts' \subseteq parts
    BY <1>6 DEF Serving, Take, Carried, ReceiveEnds, ReceivePanics, PickUp, PickupEnds, Dispatch,
       Sent, RenewalEnds, Turn, Turned, WorkEnds, InnerEnds, Close, OuterEnds
  <2> QED BY <1>0, <2>1
<1>7. ASSUME Stop \/ Join \/ StopHosts \/ StopStorage PROVE RunOK'
  BY <1>3, <1>7 DEF Stop, Join, StopHosts, StopStorage, To
<1>8. ASSUME LetsGo \/ Crash PROVE RunOK'
  BY <1>8 DEF LetsGo, Crash, To, NodeTypeOK, RunOK
<1>9. ASSUME UNCHANGED lifeVars PROVE RunOK'
  BY <1>0, <1>9 DEF lifeVars
<1> QED
  BY <1>1, <1>2, <1>4, <1>5, <1>6, <1>7, <1>8, <1>9 DEF NodeNext, Stopped

\* Every thread is where it may be.
LEMMA ThreadsNext ==
  ASSUME NodeTypeOK, [NodeNext]_lifeVars
  PROVE  ThreadsOK'
<1> USE DEF scopes, Over
<1>0. ASSUME UNCHANGED scopes PROVE ThreadsOK'
  BY <1>0 DEF NodeTypeOK, ThreadsOK
<1>1. ASSUME Deliveries \/ Plans \/ UNCHANGED lifeVars PROVE UNCHANGED scopes
  BY <1>1 DEF Deliveries, DeliverAnchor, DeliverFile, Edit, Plans, PlanBegins, PlanKeeps, PlanCut, lifeVars
<1>2. ASSUME Begins, ~Serve PROVE UNCHANGED scopes
  BY <1>2 DEF Begins, Start, Restart, Begin, Keep, NotKept, PlanStorage, Check, StartHostServices,
     LoadModules, RegisterCapabilities, Reach, OpenLocations, OpenSteps, Refuses
<1>3. ASSUME Serve PROVE ThreadsOK'
  BY <1>3 DEF Serve, NodeTypeOK, ThreadsOK
<1>4. ASSUME NEW l \in Receives, Take(l) \/ Carried(l) PROVE ThreadsOK'
  <2>1. carrying' \in [Receives -> 0..1] /\ handed' \in Nat
    BY <1>4 DEF Take, Carried, NodeTypeOK
  <2>2. UNCHANGED <<rx, pk, serving, flying, turns, closed, ended>>
    BY <1>4 DEF Take, Carried
  <2> QED BY <2>1, <2>2 DEF NodeTypeOK, ThreadsOK
<1>5. ASSUME NEW l \in Receives, ReceiveEnds(l) \/ ReceivePanics(l) PROVE ThreadsOK'
  BY <1>5 DEF ReceiveEnds, ReceivePanics, NodeTypeOK, ThreadsOK
<1>6. ASSUME PickUp \/ PickupEnds \/ Sent \/ Turn \/ Turned PROVE ThreadsOK'
  <2>1. handed' \in Nat /\ flying' \in Nat /\ turns' \in 0..1 /\ pk' \in {"none", "asks"} \cup Over
    BY <1>6 DEF PickUp, PickupEnds, Sent, Turn, Turned, NodeTypeOK
  <2>2. UNCHANGED <<rx, carrying, serving, closed, ended>>
    BY <1>6 DEF PickUp, PickupEnds, Sent, Turn, Turned
  <2> QED BY <2>1, <2>2 DEF NodeTypeOK, ThreadsOK
<1>7. ASSUME Dispatch \/ RenewalEnds \/ WorkEnds PROVE ThreadsOK'
  <2>1. handed' \in Nat /\ flying' \in Nat
    BY <1>7 DEF Dispatch, RenewalEnds, WorkEnds, NodeTypeOK
  <2>2. ended' \subseteq ended \cup Outer
    BY <1>7 DEF Dispatch, RenewalEnds, WorkEnds, Outer
  <2>3. UNCHANGED <<rx, carrying, pk, serving, turns, closed>>
    BY <1>7 DEF Dispatch, RenewalEnds, WorkEnds
  <2> QED BY <2>1, <2>2, <2>3 DEF NodeTypeOK, ThreadsOK
<1>8. ASSUME InnerEnds \/ Close \/ OuterEnds PROVE ThreadsOK'
  BY <1>8 DEF InnerEnds, Close, OuterEnds, NodeTypeOK, ThreadsOK
<1>9. ASSUME Stop \/ Join \/ StopHosts \/ StopStorage PROVE UNCHANGED scopes
  BY <1>9 DEF Stop, Join, StopHosts, StopStorage
<1>10. ASSUME LetsGo \/ Crash PROVE ThreadsOK'
  BY <1>10 DEF LetsGo, Crash, Quiet, NodeTypeOK, ThreadsOK
<1> QED
  BY <1>0, <1>1, <1>2, <1>3, <1>4, <1>5, <1>6, <1>7, <1>8, <1>9, <1>10
  DEF NodeNext, Serving, Stopped

\* Every variable of a node's life has its type, for every set of slices, modules
\* and Receive Locations: what is kept is a slice or a torn one, and a node past its
\* start's first read holds that read (NodeLife, TypeOK).
THEOREM NodeTypes == NodeSpec => []NodeTypeOK
<1>1. NodeInit => NodeTypeOK
  <2> SUFFICES ASSUME NodeInit PROVE NodeTypeOK
    OBVIOUS
  <2>1. file \in Files
    BY NodeLifeAssumption DEF NodeInit, Files
  <2>2. RunOK /\ anchor \in Authorities
    BY NodeLifeAssumption DEF NodeInit, RunOK, Phases
  <2>3. ThreadsOK
    BY DEF NodeInit, ThreadsOK, Over
  <2>4. plan \in PlanStates
    BY DEF NodeInit, PlanStates, NoPlan
  <2> QED BY <2>1, <2>2, <2>3, <2>4 DEF NodeInit, NodeTypeOK, RunOK, ThreadsOK
<1>2. NodeTypeOK <=> DiskOK /\ RunOK /\ ThreadsOK
  BY DEF NodeTypeOK, DiskOK, RunOK, ThreadsOK
<1>3. NodeTypeOK' <=> DiskOK' /\ RunOK' /\ ThreadsOK'
  BY DEF NodeTypeOK, DiskOK, RunOK, ThreadsOK
<1>4. NodeTypeOK /\ [NodeNext]_lifeVars => NodeTypeOK'
  BY <1>3, DiskNext, RunNext, ThreadsNext
<1> QED BY <1>1, <1>4, PTL DEF NodeSpec

----------------------------------------------------------------------------
(* It runs only what its authority signed.                                 *)

\* A node runs only a text that the authority it trusted as it started signed: what
\* a start reads verifies, and nothing changes a read but the end of the node
\* (signed.rs).
THEOREM SignedOnly == NodeSpec => []RunsSigned
<1>1. NodeInit => RunsSigned
  BY DEF NodeInit, RunsSigned
<1>2. NodeTypeOK /\ RunsSigned /\ [NodeNext]_lifeVars => RunsSigned'
  <2> SUFFICES ASSUME NodeTypeOK, RunsSigned, [NodeNext]_lifeVars PROVE RunsSigned'
    OBVIOUS
  <2>0. ASSUME read' \in {read, None} PROVE RunsSigned'
    BY <2>0 DEF RunsSigned
  <2>1. ASSUME Begin PROVE RunsSigned'
    <3>1. CASE Runs = None
      BY <2>0, <2>1, <3>1 DEF Begin
    <3>2. CASE Runs # None
      <4>1. read' = Taken
        BY <2>1, <3>2 DEF Begin
      <4> QED BY <3>2, <4>1, TakenSigned DEF RunsSigned
    <3> QED BY <3>1, <3>2
  <2>2. ASSUME Begins, ~Begin PROVE read' \in {read, None}
    BY <2>2 DEF Begins, Start, Restart, Keep, NotKept, PlanStorage, Check, StartHostServices,
       LoadModules, RegisterCapabilities, Reach, OpenLocations, OpenSteps, Serve, Refuses
  <2>3. ASSUME Deliveries \/ Plans \/ UNCHANGED lifeVars PROVE read' = read
    BY <2>3 DEF Deliveries, DeliverAnchor, DeliverFile, Edit, Plans, PlanBegins, PlanKeeps, PlanCut, lifeVars
  <2>4. ASSUME Serving PROVE read' = read
    BY <2>4 DEF Serving, Take, Carried, ReceiveEnds, ReceivePanics, PickUp, PickupEnds, Dispatch,
       Sent, RenewalEnds, Turn, Turned, WorkEnds, InnerEnds, Close, OuterEnds
  <2>5. ASSUME Stopped \/ Crash PROVE read' \in {read, None}
    BY <2>5 DEF Stopped, Stop, Join, StopHosts, StopStorage, LetsGo, Crash
  <2> QED BY <2>0, <2>1, <2>2, <2>3, <2>4, <2>5 DEF NodeNext
<1> QED BY <1>1, <1>2, NodeTypes, PTL DEF NodeSpec

----------------------------------------------------------------------------
(* What is written never takes a start's way away.                         *)

\* A node that could start from its disk still can after any step but a delivery,
\* an edit or the keeping of an overtaken slice: a slice is cut short or written
\* over only while the file itself verifies (signed.rs).
THEOREM AWayIsKept == NodeSpec => KeepsAWay
<1>1. ASSUME NodeTypeOK, NodeTypeOK', [NodeNext]_lifeVars, Runs # None, ~Deliveries, ~Overtaken
      PROVE  (Runs # None)'
  <2>1. Verifies(file, anchor) \/ Verifies(kept[file.text.place], anchor)
    BY <1>1, HasAWay
  <2>2. (Runs # None)' <=> \/ Verifies(file', anchor')
                           \/ Verifies(kept'[file'.text.place], anchor')
    <3>1. NodeTypeOK' => ((Runs # None)' <=> (Verifies(file, anchor) \/ Verifies(kept[file.text.place], anchor))')
      BY HasAWay, PTL
    <3> QED BY <1>1, <3>1
  <2>0. ASSUME UNCHANGED <<file, anchor>>, Verifies(file, anchor) \/ UNCHANGED kept
        PROVE  (Runs # None)'
    <3>1. CASE Verifies(file, anchor)
      BY <2>0, <2>2, <3>1
    <3>2. CASE UNCHANGED kept
      BY <2>0, <2>1, <2>2, <3>2
    <3> QED BY <2>0, <3>1, <3>2
  <2>3. ASSUME Begin \/ PlanBegins PROVE (Runs # None)'
    <3>1. UNCHANGED <<file, anchor>>
      BY <2>3 DEF Begin, PlanBegins
    <3>2. Verifies(file, anchor) \/ UNCHANGED kept
      BY <2>3 DEF Begin, PlanBegins, Keeps
    <3> QED BY <2>0, <3>1, <3>2
  <2>4. ASSUME Keep \/ PlanKeeps PROVE (Runs # None)'
    <3>1. UNCHANGED <<file, anchor>>
      BY <2>4 DEF Keep, PlanKeeps
    <3>2. Verifies(file, anchor)
      BY <1>1, <2>4 DEF Overtaken
    <3> QED BY <2>0, <3>1, <3>2
  <2>5. ASSUME UNCHANGED <<file, anchor, kept>> PROVE (Runs # None)'
    BY <2>0, <2>5
  <2>6. ASSUME Begins, ~Begin, ~Keep PROVE UNCHANGED <<file, anchor, kept>>
    BY <2>6 DEF disk, Begins, Start, Restart, NotKept, PlanStorage, Check, StartHostServices,
       LoadModules, RegisterCapabilities, Reach, OpenLocations, OpenSteps, Serve, Refuses
  <2>7. ASSUME Serving PROVE UNCHANGED <<file, anchor, kept>>
    BY <2>7 DEF disk, Serving, Take, Carried, ReceiveEnds, ReceivePanics, PickUp, PickupEnds, Dispatch,
       Sent, RenewalEnds, Turn, Turned, WorkEnds, InnerEnds, Close, OuterEnds
  <2>8. ASSUME PlanCut \/ Stopped \/ Crash \/ UNCHANGED lifeVars PROVE UNCHANGED <<file, anchor, kept>>
    BY <2>8 DEF disk, PlanCut, Stopped, Stop, Join, StopHosts, StopStorage, LetsGo, Crash, lifeVars
  <2> QED BY <1>1, <2>3, <2>4, <2>5, <2>6, <2>7, <2>8 DEF NodeNext, Plans
<1>2. NodeTypeOK /\ NodeTypeOK' /\ [NodeNext]_lifeVars =>
        [(Runs # None /\ ~Deliveries /\ ~Overtaken) => Runs' # None]_lifeVars
  BY <1>1
<1> QED BY <1>2, NodeTypes, PTL DEF NodeSpec, KeepsAWay

----------------------------------------------------------------------------
(* Its scopes end one within the other, and its parts outlive them.        *)

\* A step begins the scopes, ends them in their order, or works within them.
LEMMA ScopesNext ==
  ASSUME NodeTypeOK, ScopesInv, PartsInv, [NodeNext]_lifeVars
  PROVE  ScopesInv'
<1> USE DEF scopes
<1>t. /\ rx \in [Receives -> {"none", "asks", "ended", "panicked"}]
      /\ carrying \in [Receives -> 0..1] /\ handed \in Nat /\ flying \in Nat
  BY DEF NodeTypeOK, Over
<1>0. ASSUME UNCHANGED scopes PROVE ScopesInv'
  BY <1>0 DEF ScopesInv, Drained, InnerOver, NoneUnsent
<1>1. ASSUME Deliveries \/ Plans \/ UNCHANGED lifeVars PROVE UNCHANGED scopes
  BY <1>1 DEF Deliveries, DeliverAnchor, DeliverFile, Edit, Plans, PlanBegins, PlanKeeps, PlanCut, lifeVars
<1>2. ASSUME Begins, ~Serve PROVE UNCHANGED scopes
  BY <1>2 DEF Begins, Start, Restart, Begin, Keep, NotKept, PlanStorage, Check, StartHostServices,
     LoadModules, RegisterCapabilities, Reach, OpenLocations, OpenSteps, Refuses
<1>3. ASSUME Serve PROVE ScopesInv'
  <2>1. serving' = "inner" /\ closed' = {} /\ ended' = {}
    BY <1>3 DEF Serve
  <2> QED BY <2>1 DEF ScopesInv, NoneUnsent, Over
\* What works within the inner scope: it is neither unborn nor over.
<1>4. ASSUME NEW l \in Receives, Take(l) \/ Carried(l) \/ ReceiveEnds(l) \/ ReceivePanics(l)
      PROVE  ScopesInv'
  <2>1. serving = "inner"
    BY <1>4, <1>t DEF Take, Carried, ReceiveEnds, ReceivePanics, ScopesInv, Drained, InnerOver, Over
  <2>2. "send" \notin closed /\ "dispatch" \notin ended
    BY <2>1 DEF ScopesInv
  <2>3. UNCHANGED <<serving, closed, ended>>
    BY <1>4 DEF Take, Carried, ReceiveEnds, ReceivePanics
  <2> QED BY <2>1, <2>2, <2>3 DEF ScopesInv, NoneUnsent, Over
<1>5. ASSUME PickUp \/ PickupEnds PROVE ScopesInv'
  <2>1. serving = "inner"
    BY <1>5 DEF PickUp, PickupEnds, ScopesInv, InnerOver, Over
  <2>2. "send" \notin closed /\ "dispatch" \notin ended
    BY <2>1 DEF ScopesInv
  <2>3. UNCHANGED <<serving, closed, ended>>
    BY <1>5 DEF PickUp, PickupEnds
  <2> QED BY <2>1, <2>2, <2>3 DEF ScopesInv, NoneUnsent, Over
\* What works within the outer one.
<1>6. ASSUME Dispatch \/ Sent \/ RenewalEnds \/ Turn \/ Turned \/ WorkEnds PROVE ScopesInv'
  <2>1. UNCHANGED <<rx, carrying, pk, serving, closed>>
    BY <1>6 DEF Dispatch, Sent, RenewalEnds, Turn, Turned, WorkEnds
  <2>2. CASE Dispatch
    <3>1. serving \notin {"none"} \cup Over
      BY <2>2 DEF Dispatch, Over
    <3>2. handed' = 0 /\ ("dispatch" \in ended' => "dispatch" \in ended \/ "send" \in closed)
      BY <2>2 DEF Dispatch
    <3> QED BY <2>1, <3>1, <3>2 DEF ScopesInv, NoneUnsent, InnerOver
  <2>3. CASE Sent \/ Turned
    <3>1. serving \notin {"none"} \cup Over /\ UNCHANGED <<handed, ended>>
      BY <1>t, <2>3 DEF Sent, Turned, ScopesInv, Drained
    <3> QED BY <2>1, <3>1 DEF ScopesInv, NoneUnsent, InnerOver
  <2>4. CASE Turn
    <3>1. serving \notin {"none"} \cup Over /\ UNCHANGED <<handed, ended>>
      BY <2>4 DEF Turn, Over
    <3> QED BY <2>1, <3>1 DEF ScopesInv, NoneUnsent, InnerOver
  <2>5. CASE RenewalEnds \/ WorkEnds
    <3>1. serving # "none"
      BY <2>5 DEF RenewalEnds, WorkEnds, ScopesInv
    <3>2. UNCHANGED <<handed, flying, turns>> /\ ("dispatch" \in ended' <=> "dispatch" \in ended)
      BY <2>5 DEF RenewalEnds, WorkEnds
    <3> QED BY <2>1, <3>1, <3>2 DEF ScopesInv, NoneUnsent, InnerOver, Drained
  <2> QED BY <1>6, <2>2, <2>3, <2>4, <2>5
<1>7. ASSUME InnerEnds PROVE ScopesInv'
  BY <1>7 DEF InnerEnds, ScopesInv, NoneUnsent, InnerOver, Over
<1>8. ASSUME Close PROVE ScopesInv'
  BY <1>8 DEF Close, ScopesInv, NoneUnsent, InnerOver, Over
<1>9. ASSUME OuterEnds PROVE ScopesInv'
  <2>1. flying = 0 /\ turns = 0
    BY <1>9, <1>t DEF OuterEnds, NodeTypeOK
  <2>2. "dispatch" \in ended /\ handed = 0
    BY <1>9 DEF OuterEnds, Outer, ScopesInv, NoneUnsent
  <2>3. InnerOver
    BY <1>9 DEF OuterEnds, ScopesInv
  <2>4. UNCHANGED <<rx, carrying, pk, handed, flying, turns, closed, ended>> /\ serving' \in Over
    BY <1>9 DEF OuterEnds, Over
  <2>5. Drained' /\ InnerOver'
    BY <2>1, <2>2, <2>3, <2>4 DEF Drained, InnerOver
  <2>6. "send" \in closed'
    BY <2>2, <2>4 DEF ScopesInv
  <2> QED BY <2>2, <2>4, <2>5, <2>6 DEF ScopesInv, NoneUnsent, Over
<1>10. ASSUME Stop \/ Join \/ StopHosts \/ StopStorage PROVE UNCHANGED scopes
  BY <1>10 DEF Stop, Join, StopHosts, StopStorage
<1>11. ASSUME LetsGo \/ Crash PROVE ScopesInv'
  BY <1>11 DEF LetsGo, Crash, Quiet, ScopesInv, Drained, NoneUnsent, Over
<1> QED
  BY <1>0, <1>1, <1>2, <1>3, <1>4, <1>5, <1>6, <1>7, <1>8, <1>9, <1>10, <1>11
  DEF NodeNext, Serving, Stopped

\* Every phase keeps open what those before it opened, and lets go in their order.
LEMMA PartsNext ==
  ASSUME NodeTypeOK, ScopesInv, PartsInv, [NodeNext]_lifeVars
  PROVE  PartsInv'
<1> USE DEF Starting, Stops
<1>0. ASSUME UNCHANGED <<phase, read, parts, serving>> PROVE PartsInv'
  BY <1>0 DEF PartsInv
<1>1. ASSUME Deliveries \/ Plans \/ UNCHANGED lifeVars PROVE UNCHANGED <<phase, read, parts, serving>>
  BY <1>1 DEF scopes, Deliveries, DeliverAnchor, DeliverFile, Edit, Plans, PlanBegins, PlanKeeps,
     PlanCut, lifeVars
<1>2. ASSUME Start \/ Restart PROVE PartsInv'
  <2>1. serving = "none" /\ serving' = serving
    BY <1>2 DEF Start, Restart, Begin, PartsInv, scopes
  <2>2. phase' \in {"refused", "keeping", "read"}
    BY <1>2 DEF Start, Restart, Begin, To
  <2> QED BY <2>1, <2>2 DEF PartsInv
<1>3. ASSUME Refuses, phase \in Starting PROVE PartsInv'
  BY <1>3 DEF Refuses, To, scopes, PartsInv
<1>4. ASSUME Begins, ~Refuses, ~Start, ~Restart PROVE PartsInv'
  <2>1. CASE Keep \/ PlanStorage \/ Check
    BY <1>4, <2>1 DEF Keep, PlanStorage, Check, To, scopes, PartsInv
  <2>2. CASE StartHostServices \/ LoadModules \/ RegisterCapabilities
    BY <1>4, <2>2 DEF StartHostServices, LoadModules, RegisterCapabilities, To, scopes, PartsInv
  <2>3. CASE Reach \/ OpenLocations \/ OpenSteps
    BY <1>4, <2>3 DEF Reach, OpenLocations, OpenSteps, To, scopes, PartsInv
  <2>4. CASE Serve
    BY <2>4 DEF Serve, To, PartsInv
  <2> QED BY <1>4, <2>1, <2>2, <2>3, <2>4 DEF Begins, NotKept
<1>5. ASSUME Serving, ~InnerEnds, ~Close, ~OuterEnds PROVE UNCHANGED <<phase, read, parts, serving>>
  BY <1>5 DEF Serving, Take, Carried, ReceiveEnds, ReceivePanics, PickUp, PickupEnds, Dispatch,
     Sent, RenewalEnds, Turn, Turned, WorkEnds
<1>6. ASSUME InnerEnds \/ Close PROVE PartsInv'
  BY <1>6 DEF InnerEnds, Close, PartsInv, Over
<1>7. ASSUME OuterEnds PROVE PartsInv'
  BY <1>7 DEF OuterEnds, PartsInv, Over
<1>8. ASSUME Stop \/ Join \/ StopHosts \/ StopStorage PROVE PartsInv'
  BY <1>8 DEF Stop, Join, StopHosts, StopStorage, To, scopes, PartsInv, Over
<1>9. ASSUME LetsGo \/ Crash PROVE PartsInv'
  BY <1>9 DEF LetsGo, Crash, Quiet, To, PartsInv
<1>10. ASSUME Begins, ~Start, ~Restart PROVE phase \in Starting
  BY <1>10 DEF Begins, Keep, NotKept, PlanStorage, Check, StartHostServices,
     LoadModules, RegisterCapabilities, Reach, OpenLocations, OpenSteps, Serve
<1> QED
  BY <1>0, <1>1, <1>2, <1>3, <1>4, <1>5, <1>6, <1>7, <1>8, <1>9, <1>10 DEF NodeNext, Serving, Stopped

\* The scopes and the parts hold together at every step.
LEMMA OrderHolds == NodeSpec => [](ScopesInv /\ PartsInv)
<1>1. NodeInit => ScopesInv /\ PartsInv
  BY DEF NodeInit, ScopesInv, PartsInv, Drained, NoneUnsent, Over, Starting, Stops
<1>2. NodeTypeOK /\ ScopesInv /\ PartsInv /\ [NodeNext]_lifeVars => (ScopesInv /\ PartsInv)'
  BY ScopesNext, PartsNext
<1> QED BY <1>1, <1>2, NodeTypes, PTL DEF NodeSpec

\* Whatever works for a node works on open parts, and nothing a Receive Location or
\* the pickup handed to the send step is left once its dispatching has ended: the
\* inner scope is over before the steps are closed, the outer one before the stop
\* lets anything go (serving.rs, running.rs).
THEOREM PartsEndInOrder == NodeSpec => []EndsInOrder
<1>1. NodeTypeOK /\ ScopesInv /\ PartsInv => EndsInOrder
  <2> SUFFICES ASSUME NodeTypeOK, ScopesInv, PartsInv PROVE EndsInOrder
    OBVIOUS
  <2>1. ASSUME serving \notin {"none"} \cup Over PROVE phase \in {"serving", "joining"}
    BY <2>1 DEF NodeTypeOK, PartsInv, Phases, Stops
  <2>2. InUse
    BY <2>1 DEF InUse, PartsInv
  <2> QED BY <2>2 DEF EndsInOrder, ScopesInv
<1> QED BY <1>1, NodeTypes, OrderHolds, PTL

\* Once a stop has joined the serving thread nothing is carried, handed, sent or
\* turned any more (running.rs).
THEOREM StopsDrained == NodeSpec => []StoppedDrained
<1>1. ScopesInv /\ PartsInv => StoppedDrained
  BY DEF ScopesInv, PartsInv, StoppedDrained
<1> QED BY <1>1, OrderHolds, PTL

----------------------------------------------------------------------------
(***************************************************************************)
(* Follow: a surface that calls on a node and follows it.                  *)
(*                                                                         *)
(* A node is said unreachable by the follow, which then runs, or by a call *)
(* that was lost, which starts the follow next; and a follow that was      *)
(* started is never again not started.                                     *)
(***************************************************************************)

USE DEF servedVars, surfaceVars, followVars, watchVars, callVars, planeVars

----------------------------------------------------------------------------
(* Types, part by part.                                                    *)

ConnAts == {"none", "opening", "idle", "asked", "answered"}
CallAts == {"idle", "armed", "queues", "opens", "shakes", "sends", "reads", "cancelled",
            "answered", "lost", "says", "starts"}

NodeOK ==
  /\ pipe \in BOOLEAN /\ ending \in {"no", "said", "ended", "drops", "gone"}
  /\ node \in {"up", "stopping", "hung", "down"}
  /\ posts \in 0 .. MaxPosts /\ outages \in 0 .. MaxOutages /\ rev \in 0 .. posts

ConnOK == conn \in [Lines -> [at : ConnAts, revision : 0 .. posts]]

FollowOK ==
  /\ state \in [reachable : BOOLEAN, told : BOOLEAN, revision : 0 .. posts,
                reason : {"", "new", "lost", "refused", "unanswered"}]
  /\ follow \in {"none", "connects", "opens", "shakes", "asks", "sends", "reads", "lost",
                 "refused", "ended"}
  /\ seen \in [revision : 0 .. posts, reached : BOOLEAN]

CallsOK ==
  /\ call \in [Threads -> CallAts]
  /\ holder \in Threads \cup {Nobody} /\ fresh \in BOOLEAN
  /\ armed \in [by : Threads \cup {Nobody}, fired : BOOLEAN]
  /\ late \subseteq Threads /\ looks \in {"told", "time"}

\* Who is on the asking line.
OnLine == {"opens", "shakes", "sends", "reads", "cancelled"}
LineOK == \A c \in Threads : call[c] \in OnLine => holder = c

LEMMA TypesAre == FollowTypeOK <=> NodeOK /\ ConnOK /\ FollowOK /\ CallsOK /\ LineOK
BY DEF FollowTypeOK, NodeOK, ConnOK, FollowOK, CallsOK, LineOK, ConnAts, CallAts, OnLine

\* The steps of the node, of the follow and of a call.
NodeSteps ==
  \/ Post \/ NodeStops \/ NodeStopped \/ Hang \/ Resume \/ NodeCrashes \/ NodeStarts
  \/ EndSays \/ Drops \/ Dropped
  \/ \E x \in Lines : NodeAnswers(x) \/ ConnectionEnds(x)

\* Every step keeps the node's types, and its revisions grow within the posts.
LEMMA NodeTyped ==
  ASSUME NodeOK, [FollowNext]_planeVars
  PROVE  NodeOK' /\ posts' >= posts
<1> USE FollowBoundsAssumption DEF NodeOK
<1>1. CASE Post
  BY <1>1 DEF Post
<1>2. CASE NodeStops \/ Hang
  BY <1>2 DEF NodeStops, Hang
<1>3. CASE NodeStopped \/ Resume
  BY <1>3 DEF NodeStopped, Resume
<1>e. CASE EndSays \/ Drops \/ Ends
  <2>1. /\ ending' \in {"no", "said", "ended", "drops", "gone"}
        /\ UNCHANGED <<pipe, node, posts, outages, rev>>
    BY <1>e DEF EndSays, Drops, Ends, EndCancels, DropCuts, Dropped
  <2> QED
    BY <2>1
<1>4. CASE NodeCrashes
  BY <1>4 DEF NodeCrashes
<1>5. CASE NodeStarts
  BY <1>5 DEF NodeStarts
<1>6. ASSUME NEW x \in Lines, Answers(x) PROVE NodeOK' /\ posts' >= posts
  BY <1>6 DEF Answers, NodeAnswers, ConnectionEnds
<1>7. CASE FollowRuns \/ WaitStarts
  <2>1. UNCHANGED <<pipe, ending, node, posts, outages, rev>>
    BY <1>7 DEF FollowRuns, FollowConnects, FollowOpens, FollowShaken, FollowAsks, FollowSends,
                FollowHears, FollowLoses, FollowTells, WaitStarts
  <2> QED
    BY <2>1
<1>8. CASE Watches
  BY <1>8 DEF Watches
<1>9. ASSUME NEW c \in Threads, Asks(c) \/ Calls(c) \/ PatienceEnds(c)
      PROVE  NodeOK' /\ posts' >= posts
  <2>1. UNCHANGED <<pipe, ending, node, posts, outages, rev>>
    BY <1>9 DEF Asks, Calls, PatienceEnds, Arms, Locks, CallOpens, CallShaken, Sends, Answered,
                Fails, Fail, Cancelled,
                Unlocks, Disarms, SaysLost, StartsFollow
  <2> QED
    BY <2>1
<1>10. CASE UNCHANGED planeVars
  BY <1>10
<1> QED
  BY <1>1, <1>2, <1>3, <1>e, <1>4, <1>5, <1>6, <1>7, <1>8, <1>9, <1>10 DEF FollowNext

\* A line's end is given a new position, or both lose theirs.
ConnMoves ==
  \/ UNCHANGED conn
  \/ \E x \in Lines, a \in ConnAts, r \in {0, rev} :
       conn' = [conn EXCEPT ![x] = [at |-> a, revision |-> r]]
  \/ conn' = [x \in Lines |-> NoConn]

\* The end of a line that was told it is at a.
LEMMA ConnAt == \A a : [NoConn EXCEPT !.at = a] = [at |-> a, revision |-> 0]
BY DEF NoConn

\* An answer heard: the line waits for the next call, or is ended.
LEMMA HeardMoves == \A x \in Lines : Heard(x) => ConnMoves
<1> SUFFICES ASSUME NEW x \in Lines, Heard(x) PROVE ConnMoves
  OBVIOUS
<1>1. CASE node = "stopping"
  <2>1. conn' = [conn EXCEPT ![x] = [at |-> "none", revision |-> 0]]
    BY <1>1 DEF Heard, NoConn
  <2> QED
    BY <2>1 DEF ConnMoves, ConnAts
<1>2. CASE node # "stopping"
  <2>1. conn' = [conn EXCEPT ![x] = [at |-> "idle", revision |-> 0]]
    BY <1>2, ConnAt DEF Heard
  <2> QED
    BY <2>1 DEF ConnMoves, ConnAts
<1> QED
  BY <1>1, <1>2

\* Every step is one of these for the two lines.
LEMMA ConnEach ==
  ASSUME NodeOK, [FollowNext]_planeVars
  PROVE  ConnMoves
<1> USE DEF ConnMoves, NoConn, ConnAts
<1>1. CASE Post \/ NodeStops \/ NodeStopped \/ Hang \/ Resume \/ NodeStarts \/ EndSays
           \/ Drops \/ Ends \/ WaitStarts \/ Watches
  BY <1>1 DEF Post, NodeStops, NodeStopped, Hang, Resume, NodeStarts, EndSays, Drops, Ends,
              EndCancels, DropCuts, Dropped, WaitStarts, Watches
<1>2. CASE NodeCrashes
  BY <1>2 DEF NodeCrashes
<1>3. ASSUME NEW x \in Lines, Answers(x) PROVE ConnMoves
  BY <1>3 DEF Answers, NodeAnswers, ConnectionEnds
<1>s. ASSUME NEW x \in Lines, AskedOn(x) PROVE ConnMoves
  <2>1. \/ UNCHANGED conn
        \/ conn' = [conn EXCEPT ![x] = [at |-> "asked", revision |-> 0]]
    BY <1>s, ConnAt DEF AskedOn
  <2> QED
    BY <2>1
<1>4. CASE FollowRuns
  <2> USE DEF Lines
  <2>1. CASE FollowOpens
    BY <2>1 DEF FollowOpens, Opened, NewConn
  <2>2. CASE FollowSends
    BY <1>s, <2>2 DEF FollowSends
  <2>3. CASE FollowHears
    BY <2>3, HeardMoves DEF FollowHears
  <2>4. CASE FollowLoses \/ FollowTells
    BY <2>4 DEF FollowLoses, FollowTells
  <2>5. CASE FollowConnects \/ FollowShaken \/ FollowAsks
    BY <2>5 DEF FollowConnects, FollowShaken, FollowAsks
  <2> QED
    BY <1>4, <2>1, <2>2, <2>3, <2>4, <2>5 DEF FollowRuns
<1>5. ASSUME NEW c \in Threads, Asks(c) \/ Calls(c) \/ PatienceEnds(c) PROVE ConnMoves
  <2> USE DEF Lines
  <2>1. CASE CallOpens(c)
    BY <2>1 DEF CallOpens, Opened, NewConn
  <2>2. CASE Sends(c)
    BY <1>s, <2>2 DEF Sends
  <2>3. CASE Answered(c)
    BY <2>3, HeardMoves DEF Answered
  <2>4. CASE Fails(c) \/ Cancelled(c)
    BY <2>4 DEF Fails, Fail, Cancelled
  <2>5. CASE Asks(c) \/ PatienceEnds(c) \/ Arms(c) \/ Locks(c) \/ CallShaken(c) \/ Unlocks(c)
             \/ Disarms(c) \/ SaysLost(c) \/ StartsFollow(c)
    BY <2>5 DEF Asks, PatienceEnds, Arms, Locks, CallShaken, Unlocks, Disarms, SaysLost, StartsFollow
  <2> QED
    BY <1>5, <2>1, <2>2, <2>3, <2>4, <2>5 DEF Calls
<1>6. CASE UNCHANGED planeVars
  BY <1>6
<1> QED
  BY <1>1, <1>2, <1>3, <1>4, <1>5, <1>6 DEF FollowNext

\* Every step keeps the lines' types.
LEMMA ConnTyped ==
  ASSUME NodeOK, ConnOK, [FollowNext]_planeVars
  PROVE  ConnOK'
<1>1. NodeOK' /\ posts' >= posts
  BY NodeTyped
<1>2. 0 .. posts \subseteq 0 .. posts' /\ 0 \in 0 .. posts' /\ rev \in 0 .. posts'
  BY <1>1, FollowBoundsAssumption DEF NodeOK
<1>3. conn \in [Lines -> [at : ConnAts, revision : 0 .. posts']]
  BY <1>2 DEF ConnOK
<1>4. CASE UNCHANGED conn
  BY <1>3, <1>4 DEF ConnOK
<1>5. ASSUME NEW x \in Lines, NEW a \in ConnAts, NEW r \in {0, rev},
             conn' = [conn EXCEPT ![x] = [at |-> a, revision |-> r]]
      PROVE  ConnOK'
  <2>1. [at |-> a, revision |-> r] \in [at : ConnAts, revision : 0 .. posts']
    BY <1>2
  <2> QED
    BY <1>3, <1>5, <2>1 DEF ConnOK
<1>6. CASE conn' = [x \in Lines |-> NoConn]
  BY <1>2, <1>6 DEF ConnOK, NoConn, ConnAts
<1> QED
  BY <1>4, <1>5, <1>6, ConnEach DEF ConnMoves

\* Every step keeps the types of the surface's state and of the follow.
LEMMA FollowTyped ==
  ASSUME NodeOK, ConnOK, FollowOK, [FollowNext]_planeVars
  PROVE  FollowOK'
<1>1. NodeOK' /\ posts' >= posts
  BY NodeTyped
<1>2. 0 .. posts \subseteq 0 .. posts' /\ 0 \in 0 .. posts'
  BY <1>1, FollowBoundsAssumption DEF NodeOK
<1>3. /\ state \in [reachable : BOOLEAN, told : BOOLEAN, revision : 0 .. posts',
                    reason : {"", "new", "lost", "refused", "unanswered"}]
      /\ seen \in [revision : 0 .. posts', reached : BOOLEAN]
      /\ state.revision \in 0 .. posts'
  BY <1>2 DEF FollowOK
<1>4. ASSUME NEW b \in BOOLEAN, NEW r \in {"", "lost", "refused", "unanswered"},
             NEW v \in 0 .. posts', Tell(b, r, v)
      PROVE  state' \in [reachable : BOOLEAN, told : BOOLEAN, revision : 0 .. posts',
                         reason : {"", "new", "lost", "refused", "unanswered"}]
  BY <1>4 DEF Tell
<1>5. CASE UNCHANGED <<state, follow, seen>>
  BY <1>3, <1>5 DEF FollowOK
<1>6. ASSUME UNCHANGED <<state, seen>>,
             follow' \in {follow, "connects", "opens", "asks", "sends", "reads", "lost", "refused",
                          "ended"}
      PROVE  FollowOK'
  BY <1>3, <1>6 DEF FollowOK
<1>f. CASE \/ WaitStarts \/ FollowConnects \/ FollowShaken \/ FollowAsks \/ FollowSends
           \/ FollowLoses
  BY <1>6, <1>f DEF WaitStarts, FollowConnects, FollowShaken, FollowAsks, FollowSends, FollowLoses
<1>c. CASE EndCancels \/ DropCuts
  <2>1. UNCHANGED <<state, seen>> /\ CutFollow
    BY <1>c DEF EndCancels, DropCuts
  <2> QED
    BY <1>6, <2>1 DEF CutFollow
<1>7. CASE FollowOpens
  <2>1. /\ UNCHANGED state /\ follow' \in {"shakes", "refused"}
        /\ UNCHANGED seen \/ seen' = [revision |-> 0, reached |-> FALSE]
    BY <1>7 DEF FollowOpens
  <2>2. [revision |-> 0, reached |-> FALSE] \in [revision : 0 .. posts', reached : BOOLEAN]
    BY <1>2
  <2> QED
    BY <1>3, <2>1, <2>2 DEF FollowOK
<1>8. CASE FollowHears
  <2>1. conn["follow"].revision \in 0 .. posts'
    BY <1>2 DEF ConnOK, Lines
  <2>2. /\ follow' = "asks"
        /\ \/ UNCHANGED <<state, seen>>
           \/ /\ Tell(TRUE, "", conn["follow"].revision)
              /\ seen' = [revision |-> conn["follow"].revision, reached |-> TRUE]
    BY <1>8 DEF FollowHears
  <2>3. CASE UNCHANGED <<state, seen>>
    BY <1>3, <2>2, <2>3 DEF FollowOK
  <2>4. CASE /\ Tell(TRUE, "", conn["follow"].revision)
             /\ seen' = [revision |-> conn["follow"].revision, reached |-> TRUE]
    <3>1. seen' \in [revision : 0 .. posts', reached : BOOLEAN]
      BY <2>1, <2>4
    <3>2. state' \in [reachable : BOOLEAN, told : BOOLEAN, revision : 0 .. posts',
                      reason : {"", "new", "lost", "refused", "unanswered"}]
      BY <1>4, <2>1, <2>4
    <3> QED
      BY <2>2, <3>1, <3>2 DEF FollowOK
  <2> QED
    BY <2>2, <2>3, <2>4
<1>9. CASE FollowTells
  <2>1. /\ follow' \in {"ended", "connects"} /\ UNCHANGED seen /\ follow \in {"lost", "refused"}
        /\ UNCHANGED state \/ Tell(FALSE, follow, state.revision)
    BY <1>9 DEF FollowTells
  <2>2. state' \in [reachable : BOOLEAN, told : BOOLEAN, revision : 0 .. posts',
                    reason : {"", "new", "lost", "refused", "unanswered"}]
    BY <1>3, <1>4, <2>1
  <2> QED
    BY <1>3, <2>1, <2>2 DEF FollowOK
<1>10. ASSUME NEW c \in Threads, SaysLost(c) PROVE FollowOK'
  <2>1. Tell(FALSE, "unanswered", state.revision) /\ UNCHANGED <<follow, seen>>
    BY <1>10 DEF SaysLost
  <2>2. state' \in [reachable : BOOLEAN, told : BOOLEAN, revision : 0 .. posts',
                    reason : {"", "new", "lost", "refused", "unanswered"}]
    BY <1>3, <1>4, <2>1
  <2> QED
    BY <1>3, <2>1, <2>2 DEF FollowOK
<1>11. ASSUME NEW c \in Threads, StartsFollow(c) PROVE FollowOK'
  BY <1>3, <1>11 DEF FollowOK, StartsFollow, Followed
<1>12. CASE NodeSteps \/ Watches
  <2>1. UNCHANGED <<state, follow, seen>>
    BY <1>12 DEF NodeSteps, Post, NodeStops, NodeStopped, Hang, Resume, NodeCrashes, NodeStarts, EndSays,
                 Drops, Dropped, NodeAnswers, ConnectionEnds, Watches
  <2> QED
    BY <1>5, <2>1
<1>13. ASSUME NEW c \in Threads, Asks(c) \/ Calls(c) \/ PatienceEnds(c), ~SaysLost(c),
              ~StartsFollow(c)
       PROVE  FollowOK'
  <2>1. UNCHANGED <<state, follow, seen>>
    BY <1>13 DEF Asks, Calls, PatienceEnds, Arms, Locks, CallOpens, CallShaken, Sends, Answered,
                Fails, Fail, Cancelled,
                 Unlocks, Disarms
  <2> QED
    BY <1>5, <2>1
<1> QED
  BY <1>5, <1>f, <1>c, <1>7, <1>8, <1>9, <1>10, <1>11, <1>12, <1>13
     DEF FollowNext, NodeSteps, Ends, Answers, FollowRuns

\* Every step keeps the calls' types, and the asking line one caller's at a time.
LEMMA CallsTyped ==
  ASSUME CallsOK, LineOK, [FollowNext]_planeVars
  PROVE  CallsOK' /\ LineOK'
<1> USE DEF CallsOK, LineOK, OnLine, CallAts
<1>1. CASE UNCHANGED callVars
  BY <1>1
<1>2. ASSUME NEW c \in Threads, Asks(c) PROVE CallsOK' /\ LineOK'
  BY <1>2 DEF Asks
<1>3. ASSUME NEW c \in Threads, Arms(c) PROVE CallsOK' /\ LineOK'
  BY <1>3 DEF Arms, Sooner
<1>4. ASSUME NEW c \in Threads, Locks(c) PROVE CallsOK' /\ LineOK'
  <2>1. PICK p \in {"opens", "sends"} : call' = [call EXCEPT ![c] = p]
    BY <1>4 DEF Locks
  <2>2. holder = Nobody /\ holder' = c /\ fresh' = FALSE /\ UNCHANGED <<armed, late, looks>>
    BY <1>4 DEF Locks, LineTaken
  <2>3. \A d \in Threads : call[d] \notin OnLine
    BY <2>2, NobodyAssumption
  <2> QED
    BY <2>1, <2>2, <2>3
<1>5. ASSUME NEW c \in Threads,
             CallOpens(c) \/ CallShaken(c) \/ Sends(c) \/ Answered(c) \/ Fails(c) \/ Cancelled(c)
      PROVE  CallsOK' /\ LineOK'
  <2>1. PICK p \in {"opens", "shakes", "sends", "reads", "answered", "lost"} :
          call' = [call EXCEPT ![c] = p]
    <3>1. CASE CallOpens(c)
      BY <3>1 DEF CallOpens
    <3>2. CASE CallShaken(c) \/ Sends(c) \/ Answered(c)
      BY <3>2 DEF CallShaken, Sends, Answered
    <3>3. CASE Fails(c) \/ Cancelled(c)
      BY <3>3 DEF Fails, Cancelled, Fail
    <3> QED
      BY <1>5, <3>1, <3>2, <3>3
  <2>2. call[c] \in OnLine /\ fresh' \in BOOLEAN /\ UNCHANGED <<holder, armed, late, looks>>
    BY <1>5 DEF CallOpens, CallShaken, Sends, Answered, Fails, Cancelled, Fail
  <2> QED
    BY <2>1, <2>2
<1>6. ASSUME NEW c \in Threads, Unlocks(c) PROVE CallsOK' /\ LineOK'
  BY <1>6, NobodyAssumption DEF Unlocks
<1>7. ASSUME NEW c \in Threads, Disarms(c) PROVE CallsOK' /\ LineOK'
  <2>1. PICK p \in {"says", "idle"} : call' = [call EXCEPT ![c] = p]
    BY <1>7 DEF Disarms
  <2>2. /\ armed' = [by |-> Nobody, fired |-> FALSE] /\ late' = late \ {c}
        /\ UNCHANGED <<holder, fresh, looks>>
    BY <1>7 DEF Disarms
  <2> QED
    BY <2>1, <2>2
<1>8. ASSUME NEW c \in Threads, SaysLost(c) \/ StartsFollow(c) PROVE CallsOK' /\ LineOK'
  <2>1. PICK p \in {"starts", "idle"} : call' = [call EXCEPT ![c] = p]
    BY <1>8 DEF SaysLost, StartsFollow
  <2>2. UNCHANGED <<holder, fresh, armed, late, looks>>
    BY <1>8 DEF SaysLost, StartsFollow
  <2> QED
    BY <2>1, <2>2
<1>9. ASSUME NEW c \in Threads, PatienceEnds(c) PROVE CallsOK' /\ LineOK'
  BY <1>9 DEF PatienceEnds
<1>c. ASSUME CutAsking, UNCHANGED holder
      PROVE  call' \in [Threads -> CallAts] /\ LineOK'
  BY <1>c DEF CutAsking
<1>e. CASE Ends
  <2>1. CASE EndCancels
    <3>1. CutAsking /\ UNCHANGED <<holder, fresh, armed, late, looks>>
      BY <2>1 DEF EndCancels
    <3> QED
      BY <1>c, <3>1
  <2>2. CASE DropCuts \/ Dropped
    BY <1>1, <2>2 DEF DropCuts, Dropped
  <2> QED
    BY <1>e, <2>1, <2>2 DEF Ends
<1>10. CASE Watches
  <2>1. CASE ~Ending /\ (armed.fired \/ armed.by \in late)
    <3>1. /\ armed' = [by |-> Nobody, fired |-> TRUE] /\ CutAsking
          /\ UNCHANGED <<holder, fresh, late, looks>>
      BY <1>10, <2>1 DEF Watches
    <3> QED
      BY <1>c, <3>1
  <2>2. CASE ~(~Ending /\ (armed.fired \/ armed.by \in late))
    <3>1. looks' = "told" /\ UNCHANGED <<call, holder, fresh, armed, late>>
      BY <1>10, <2>2 DEF Watches
    <3> QED
      BY <3>1
  <2> QED
    BY <2>1, <2>2
<1>11. CASE NodeSteps \/ FollowRuns \/ WaitStarts
  <2>1. UNCHANGED callVars
    BY <1>11 DEF NodeSteps, Post, NodeStops, NodeStopped, Hang, Resume, NodeCrashes, NodeStarts, EndSays,
                 Drops, Dropped, NodeAnswers, ConnectionEnds, FollowRuns, FollowConnects,
                 FollowOpens, FollowShaken, FollowAsks, FollowSends, FollowHears, FollowLoses,
                 FollowTells, WaitStarts
  <2> QED
    BY <1>1, <2>1
<1> QED
  BY <1>1, <1>2, <1>3, <1>4, <1>5, <1>6, <1>7, <1>8, <1>9, <1>e, <1>10, <1>11
     DEF FollowNext, NodeSteps, Answers, Calls

\* Every variable keeps its type, and only who holds the asking line opens it,
\* sends on it, reads it or has its read cancelled (shared.rs, line.rs): whatever
\* the node, the deadline thread and the follow do meanwhile.
THEOREM FollowTypes == FollowSpec => []FollowTypeOK
<1>1. FollowInit => FollowTypeOK
  <2> SUFFICES ASSUME FollowInit PROVE FollowTypeOK
    OBVIOUS
  <2>1. posts = 0 /\ 0 .. posts = {0}
    BY DEF FollowInit
  <2>6. pipe \in BOOLEAN /\ ending = "no"
    BY Zenon DEF FollowInit
  <2>7. node = "up" /\ outages = 0 /\ rev = 0
    BY DEF FollowInit
  <2>2. NodeOK
    BY <2>1, <2>6, <2>7, FollowBoundsAssumption DEF NodeOK
  <2>3. ConnOK
    BY <2>1 DEF FollowInit, ConnOK, NoConn, ConnAts
  <2>4. FollowOK
    BY <2>1 DEF FollowInit, FollowOK
  <2>5. CallsOK /\ LineOK
    BY DEF FollowInit, CallsOK, LineOK, CallAts, OnLine
  <2> QED
    BY <2>2, <2>3, <2>4, <2>5, TypesAre
<1>2. FollowTypeOK /\ [FollowNext]_planeVars => FollowTypeOK'
  <2> SUFFICES ASSUME FollowTypeOK, [FollowNext]_planeVars PROVE FollowTypeOK'
    OBVIOUS
  <2>1. NodeOK' /\ ConnOK' /\ FollowOK' /\ CallsOK' /\ LineOK'
    BY TypesAre, NodeTyped, ConnTyped, FollowTyped, CallsTyped
  <2> QED
    BY <2>1 DEF FollowTypeOK, NodeOK, ConnOK, FollowOK, CallsOK, LineOK, ConnAts, CallAts, OnLine
<1> QED
  BY <1>1, <1>2, PTL DEF FollowSpec

----------------------------------------------------------------------------
(* Recovery.                                                               *)

\* Every step keeps a node said unreachable being recovered.
LEMMA RecoveredKept ==
  ASSUME CallsOK, FollowOK, Recovered, [FollowNext]_planeVars
  PROVE  Recovered'
<1>1. ASSUME UNCHANGED state, follow # "none" => follow' # "none",
             \A c \in Threads : call[c] = "starts" => call'[c] = "starts"
      PROVE  Recovered'
  BY <1>1 DEF Recovered, Unreachable
<1>2. ASSUME follow' # "none" PROVE Recovered'
  BY <1>2 DEF Recovered
<1>3. CASE NodeSteps \/ UNCHANGED planeVars
  <2>1. UNCHANGED <<state, follow, call>>
    BY <1>3 DEF NodeSteps, Post, NodeStops, NodeStopped, Hang, Resume, NodeCrashes, NodeStarts, EndSays,
                Drops, Dropped, NodeAnswers, ConnectionEnds
  <2> QED
    BY <1>1, <2>1
<1>4. CASE FollowRuns \/ WaitStarts
  <2>1. follow' # "none"
    BY <1>4 DEF FollowRuns, FollowConnects, FollowOpens, FollowShaken, FollowAsks, FollowSends,
                FollowHears, FollowLoses, FollowTells, WaitStarts
  <2> QED
    BY <1>2, <2>1
<1>5. CASE Watches \/ EndCancels \/ DropCuts
  <2>1. UNCHANGED state /\ (follow # "none" => follow' # "none")
    BY <1>5 DEF Watches, EndCancels, DropCuts, CutFollow
  <2>2. \A c \in Threads : call[c] = "starts" => call'[c] = "starts"
    BY <1>5 DEF Watches, EndCancels, DropCuts, CutAsking
  <2> QED
    BY <1>1, <2>1, <2>2
<1>6. ASSUME NEW c \in Threads, SaysLost(c) PROVE Recovered'
  <2>1. call'[c] = "starts"
    BY <1>6 DEF SaysLost, CallsOK
  <2> QED
    BY <2>1 DEF Recovered
<1>7. ASSUME NEW c \in Threads, StartsFollow(c) PROVE Recovered'
  <2>1. follow' # "none"
    BY <1>7 DEF StartsFollow, Followed
  <2> QED
    BY <1>2, <2>1
<1>8. ASSUME NEW c \in Threads, Asks(c) \/ Calls(c) \/ PatienceEnds(c), ~SaysLost(c),
             ~StartsFollow(c)
      PROVE  Recovered'
  <2>1. UNCHANGED <<state, follow>>
    BY <1>8 DEF Asks, Calls, PatienceEnds, Arms, Locks, CallOpens, CallShaken, Sends, Answered,
                Fails, Fail, Cancelled,
                Unlocks, Disarms
  <2>2. UNCHANGED call \/ (call[c] # "starts" /\ \E p : call' = [call EXCEPT ![c] = p])
    BY <1>8 DEF Asks, Calls, PatienceEnds, Arms, Locks, CallOpens, CallShaken, Sends, Answered,
                Fails, Fail, Cancelled,
                Unlocks, Disarms
  <2>3. \A d \in Threads : call[d] = "starts" => call'[d] = "starts"
    BY <2>2 DEF CallsOK
  <2> QED
    BY <1>1, <2>1, <2>3
<1> QED
  BY <1>3, <1>4, <1>5, <1>6, <1>7, <1>8 DEF FollowNext, NodeSteps, Ends, Answers

\* A node said unreachable, by a call or by the follow, is always being recovered:
\* no read is refused for good (remote.rs, asking.rs, follow.rs).
THEOREM AlwaysRecovered == FollowSpec => []Recovered
<1>1. FollowInit => Recovered
  BY DEF FollowInit, Recovered, Unreachable
<1>2. FollowTypeOK /\ Recovered /\ [FollowNext]_planeVars => Recovered'
  BY RecoveredKept, TypesAre
<1> QED
  BY <1>1, <1>2, FollowTypes, PTL DEF FollowSpec

HIDE DEF servedVars, surfaceVars, followVars, watchVars, callVars, planeVars

----------------------------------------------------------------------------
(***************************************************************************)
(* Vouching: callers held, vouched for and relayed.                        *)
(***************************************************************************)

USE SurfacesAssumption, RolesAssumption, VouchBoundsAssumption DEF Unset

----------------------------------------------------------------------------
(* Types.                                                                  *)

\* What the nonces, callers, holders and acts are typed by only grows with the
\* numbers drawn.
LEMMA DrawnGrow ==
  ASSUME VouchTypeOK, nonces' \in Nat, nonces <= nonces', handles' \in Nat, handles <= handles'
  PROVE  /\ Nonces \subseteq Nonces' /\ Callers \subseteq Callers'
         /\ Holders \subseteq Holders' /\ Acts \subseteq Acts'
         /\ 0 .. nonces \subseteq 0 .. nonces' /\ 1 .. nonces \subseteq 1 .. nonces'
         /\ 0 .. handles \subseteq 0 .. handles' /\ 1 .. handles \subseteq 1 .. handles'
<1>1. /\ 0 .. nonces \subseteq 0 .. nonces' /\ 1 .. nonces \subseteq 1 .. nonces'
      /\ 0 .. handles \subseteq 0 .. handles' /\ 1 .. handles \subseteq 1 .. handles'
  BY DEF VouchTypeOK
<1>2. Nonces \subseteq Nonces' /\ Callers \subseteq Callers'
  BY <1>1 DEF Nonces, Callers, Accounts
<1>3. Holders \subseteq Holders' /\ Acts \subseteq Acts'
  BY <1>1 DEF Holders, Acts
<1> QED BY <1>1, <1>2, <1>3

\* Types survive a step that only draws numbers.
LEMMA TypesGrow ==
  ASSUME VouchTypeOK, nonces' \in Nat, nonces <= nonces', handles' \in Nat, handles <= handles'
  PROVE  /\ pool \in [Surfaces -> SUBSET (1 .. nonces')]
         /\ issued \in [Nodes -> SUBSET Nonces']
         /\ vouched \in [Nodes -> SUBSET Callers']
         /\ bound \in [Sessions -> [Surfaces -> 0 .. nonces']]
         /\ own \in [Sessions -> 0 .. handles']
         /\ held \subseteq Holders'
         /\ vouches \in [Sessions -> [Surfaces -> 0 .. handles']]
         /\ act \in {NoAct} \cup Acts'
<1>1. /\ pool \in [Surfaces -> SUBSET (1 .. nonces')]
      /\ bound \in [Sessions -> [Surfaces -> 0 .. nonces']]
  BY DrawnGrow DEF VouchTypeOK
<1>2. /\ issued \in [Nodes -> SUBSET Nonces']
      /\ vouched \in [Nodes -> SUBSET Callers']
  BY DrawnGrow DEF VouchTypeOK
<1>3. /\ own \in [Sessions -> 0 .. handles']
      /\ vouches \in [Sessions -> [Surfaces -> 0 .. handles']]
  BY DrawnGrow DEF VouchTypeOK
<1>4. held \subseteq Holders' /\ act \in {NoAct} \cup Acts'
  BY DrawnGrow DEF VouchTypeOK
<1> QED BY <1>1, <1>2, <1>3, <1>4

\* One more holder keeps the host's callers and handles as they are typed, and
\* hands out the next handle or none (HeldAgain).
LEMMA HeldAgainType ==
  ASSUME VouchTypeOK, NEW s \in Sessions, HeldAgain(s)
  PROVE  /\ handles' \in Nat /\ handles' \in {handles, handles + 1}
         /\ held' \subseteq Holders'
<1> DEFINE live == {h \in held : h.of \notin expired}
           rest == IF Full(held) THEN live ELSE held
           new == [handle |-> handles + 1, of |-> s]
<1>1. held \subseteq Holders /\ handles \in Nat /\ rest \subseteq held
  BY DEF VouchTypeOK
<1>2. \/ held' \subseteq held /\ handles' = handles
      \/ held' = rest \cup {new} /\ handles' = handles + 1
  BY DEF HeldAgain
<1>3. CASE held' \subseteq held /\ handles' = handles
  BY <1>1, <1>3 DEF Holders
<1>4. CASE held' = rest \cup {new} /\ handles' = handles + 1
  <2>1. Holders \subseteq Holders'
    BY <1>1, <1>4 DEF Holders
  <2>2. new \in Holders'
    BY <1>1, <1>4 DEF Holders
  <2> HIDE DEF rest, new
  <2> QED BY <1>1, <1>4, <2>1, <2>2
<1> QED BY <1>2, <1>3, <1>4

\* The initial states are typed.
LEMMA TypeInit == VouchInit => VouchTypeOK
<1> SUFFICES ASSUME VouchInit PROVE VouchTypeOK
  OBVIOUS
<1>1. /\ bound \in [Sessions -> [Surfaces -> 0 .. nonces]]
      /\ vouches \in [Sessions -> [Surfaces -> 0 .. handles]]
      /\ asked \in [Sessions -> [Surfaces -> {"not", "lost", "done"}]]
  BY DEF VouchInit, Unbound, NotAsked
<1>2. pool \in [Surfaces -> SUBSET (1 .. nonces)]
  BY DEF VouchInit
<1>3. own \in [Sessions -> 0 .. handles]
  BY DEF VouchInit
<1> QED BY <1>1, <1>2, <1>3 DEF VouchInit, VouchTypeOK

\* Every step keeps the types.
LEMMA TypeNext == VouchTypeOK /\ [VouchNext]_vouchVars => VouchTypeOK'
<1> SUFFICES ASSUME VouchTypeOK, [VouchNext]_vouchVars PROVE VouchTypeOK'
  OBVIOUS
<1> USE DEF nodeVars, poolVars, heldVars, proofVars, actVars, bounds
<1>0. UNCHANGED <<nonces, handles>> => /\ Nonces' = Nonces /\ Callers' = Callers
                                       /\ Holders' = Holders /\ Acts' = Acts
  BY DEF Nonces, Callers, Holders, Acts, Accounts
<1>1. ASSUME NEW f \in Surfaces, Refill(f) PROVE VouchTypeOK'
  <2>0. NodeOf[f] \in Nodes /\ Through[f] \in Accounts
    BY DEF Accounts
  <2>1. CASE nonces' = nonces
    BY <1>0, <1>1, <2>1 DEF Refill, VouchTypeOK
  <2>2. CASE nonces' = nonces + 1
    <3>1. nonces' \in Nat /\ nonces <= nonces' /\ nonces + 1 \in 1 .. nonces' /\ handles' = handles
      BY <1>1, <2>2 DEF Refill, VouchTypeOK
    <3>2. handles \in Nat /\ handles <= handles
      BY DEF VouchTypeOK
    <3>3. Issue(f) \in Nonces'
      BY <2>0, <3>1 DEF Issue, Nonces, Accounts
    <3>4. /\ issued' = [issued EXCEPT ![NodeOf[f]] = @ \cup {Issue(f)}]
          /\ pool' = [pool EXCEPT ![f] = @ \cup {nonces + 1}]
          /\ UNCHANGED <<left, mishaps>>
      BY <1>1, <2>2, <3>1 DEF Refill, VouchTypeOK
    <3>5. issued' \in [Nodes -> SUBSET Nonces'] /\ pool' \in [Surfaces -> SUBSET (1 .. nonces')]
      BY <2>0, <3>1, <3>2, <3>3, <3>4, TypesGrow
    <3> QED BY <1>1, <3>1, <3>2, <3>4, <3>5, TypesGrow DEF Refill, VouchTypeOK
  <2> QED BY <1>1, <2>1, <2>2 DEF Refill
<1>2. ASSUME NEW f \in Surfaces, LeftLongEnough(f) \/ Ages(f) PROVE VouchTypeOK'
  BY <1>0, <1>2 DEF LeftLongEnough, Ages, VouchTypeOK
<1>3. ASSUME NEW n \in Nodes, Stales(n) PROVE VouchTypeOK'
  BY <1>0, <1>3 DEF Stales, VouchTypeOK
<1>4. ASSUME NEW n \in Nodes, NodeRestarts(n) PROVE VouchTypeOK'
  BY <1>0, <1>4 DEF NodeRestarts, VouchTypeOK
<1>5. ASSUME NEW s \in Sessions, Bind(s) PROVE VouchTypeOK'
  <2>1. PICK drawn \in [Surfaces -> 0 .. nonces] :
          /\ bound' = [bound EXCEPT ![s] = drawn]
          /\ pool' = [f \in Surfaces |-> pool[f] \ {drawn[f]}]
    BY <1>5 DEF Bind
  <2>2. bound' \in [Sessions -> [Surfaces -> 0 .. nonces]]
    BY <2>1 DEF VouchTypeOK
  <2>3. pool' \in [Surfaces -> SUBSET (1 .. nonces)]
    BY <2>1 DEF VouchTypeOK
  <2> QED BY <1>0, <1>5, <2>2, <2>3 DEF Bind, VouchTypeOK
<1>6. ASSUME NEW s \in Sessions, Handshake(s) PROVE VouchTypeOK'
  <2>1. CASE UNCHANGED <<held, own, handles>>
    BY <1>0, <1>6, <2>1 DEF Handshake, VouchTypeOK
  <2>2. CASE HeldAgain(s) /\ ~UNCHANGED <<held, own, handles>>
    <3>1. handles' \in Nat /\ handles' \in {handles, handles + 1} /\ held' \subseteq Holders'
      BY <2>2, HeldAgainType
    <3>2. handles <= handles' /\ nonces \in Nat /\ nonces' = nonces /\ nonces <= nonces
      BY <1>6, <3>1 DEF Handshake, VouchTypeOK
    <3>3. own' = [own EXCEPT ![s] = IF handles' > handles THEN handles' ELSE Unset]
      BY <1>6, <2>2 DEF Handshake
    <3>4. own' \in [Sessions -> 0 .. handles']
      BY <3>1, <3>2, <3>3, TypesGrow
    <3> QED BY <1>6, <3>1, <3>2, <3>4, TypesGrow DEF Handshake, VouchTypeOK
  <2> QED BY <1>6, <2>1, <2>2 DEF Handshake
<1>7. ASSUME NEW s \in Sessions, Proof(s) PROVE VouchTypeOK'
  BY <1>0, <1>7 DEF Proof, VouchTypeOK
<1>8. ASSUME NEW s \in Sessions, Vouched(s) PROVE VouchTypeOK'
  <2>1. nonces \in Nat /\ Unbound \in [Surfaces -> 0 .. nonces]
    BY DEF Unbound, VouchTypeOK
  <2>2. NotAsked \in [Surfaces -> {"not", "lost", "done"}]
    BY DEF NotAsked
  <2> QED BY <1>0, <1>8, <2>1, <2>2 DEF Vouched, VouchTypeOK
<1>9. ASSUME NEW s \in Sessions, Finds(s) \/ CertificateEnds(s) PROVE VouchTypeOK'
  BY <1>0, <1>9 DEF Finds, CertificateEnds, VouchTypeOK
<1>10. ASSUME NEW s \in Sessions, Accept(s) PROVE VouchTypeOK'
  <2>1. CASE UNCHANGED <<held, own>>
    BY <1>0, <1>10, <2>1 DEF Accept, Freed, VouchTypeOK
  <2>2. CASE Freed(s)
    BY <1>0, <1>10, <2>2 DEF Accept, Freed, VouchTypeOK
  <2> QED BY <1>10, <2>1, <2>2 DEF Accept
<1>11. ASSUME NEW s \in Sessions, Free(s) PROVE VouchTypeOK'
  BY <1>0, <1>11 DEF Free, Freed, VouchTypeOK
<1>12. CASE Again
  <2>1. again \in Sessions
    BY <1>12 DEF Again, VouchTypeOK
  <2>2. handles' \in Nat /\ handles' \in {handles, handles + 1} /\ held' \subseteq Holders'
    BY <1>12, <2>1, HeldAgainType DEF Again
  <2>3. handles <= handles' /\ nonces \in Nat /\ nonces' = nonces /\ nonces <= nonces
    BY <1>12, <2>2 DEF Again, VouchTypeOK
  <2> QED BY <1>12, <2>2, <2>3, TypesGrow DEF Again, VouchTypeOK
<1>13. CASE Release \/ Revoke \/ ListenerStops
  BY <1>0, <1>13 DEF Release, Revoke, ListenerStops, VouchTypeOK
<1>14. ASSUME NEW s \in Sessions, NEW f \in Surfaces, Vouch(s, f) PROVE VouchTypeOK'
  <2> DEFINE n == NodeOf[f]
             h == Drawn({v.handle : v \in vouched[n]})
             good == Vouchable(n, s, Through[f])
             new == [handle |-> h, of |-> s, through |-> Through[f]]
  <2>1. n \in Nodes /\ Through[f] \in Accounts /\ h = handles + 1
    BY DEF Accounts, Drawn
  <2>2. /\ issued' = [issued EXCEPT ![n] = Spent(n, s)]
        /\ IF good
             THEN /\ vouched' = [vouched EXCEPT ![n] =
                       (IF Cardinality(@) >= Most THEN {v \in @ : v.of \notin expired} ELSE @)
                       \cup {new}]
                  /\ handles' = handles + 1
             ELSE UNCHANGED <<vouched, handles>>
        /\ \/ UNCHANGED vouches
           \/ good /\ vouches' = [vouches EXCEPT ![s][f] = h]
    BY <1>14 DEF Vouch, Kept
  <2>3. /\ asked' \in [Sessions -> [Surfaces -> {"not", "lost", "done"}]]
        /\ mishaps' \in Nat
    <3>1. \/ asked' = [asked EXCEPT ![s][f] = "done"] /\ mishaps' = mishaps
          \/ /\ asked' = [asked EXCEPT ![s][f] = IF @ = "not" THEN "lost" ELSE "done"]
             /\ mishaps' = mishaps + 1
      BY <1>14 DEF Vouch
    <3>2. PICK to \in {"lost", "done"} : asked' = [asked EXCEPT ![s][f] = to]
      BY <3>1
    <3>3. asked' \in [Sessions -> [Surfaces -> {"not", "lost", "done"}]]
      BY <3>2 DEF VouchTypeOK
    <3>4. mishaps' \in Nat
      BY <3>1 DEF VouchTypeOK
    <3> QED BY <3>3, <3>4
  <2>4. /\ handles \in Nat /\ handles' \in Nat /\ handles <= handles'
        /\ good => h \in 1 .. handles' /\ h \in 0 .. handles'
        /\ nonces \in Nat /\ nonces' = nonces /\ nonces <= nonces
    BY <1>14, <2>1, <2>2 DEF Vouch, VouchTypeOK
  <2>5. issued' \in [Nodes -> SUBSET Nonces']
    <3>1. Spent(n, s) \subseteq issued[n]
      BY DEF Spent
    <3>2. issued \in [Nodes -> SUBSET Nonces']
      BY <2>4, TypesGrow
    <3> QED BY <2>1, <2>2, <3>1, <3>2
  <2>6. vouched' \in [Nodes -> SUBSET Callers']
    <3>1. vouched \in [Nodes -> SUBSET Callers']
      BY <2>4, TypesGrow
    <3>2. good => new \in Callers'
      BY <2>1, <2>4 DEF Callers, Accounts
    <3>3. CASE good
      <4> DEFINE rest == IF Cardinality(vouched[n]) >= Most
                           THEN {v \in vouched[n] : v.of \notin expired} ELSE vouched[n]
      <4>1. rest \subseteq vouched[n]
        OBVIOUS
      <4>2. vouched' = [vouched EXCEPT ![n] = rest \cup {new}]
        BY <2>2, <3>3
      <4> HIDE DEF rest, new, n
      <4> QED BY <2>1, <3>1, <3>2, <3>3, <4>1, <4>2
    <3> QED BY <2>2, <3>1, <3>3
  <2>7. vouches' \in [Sessions -> [Surfaces -> 0 .. handles']]
    <3>1. vouches \in [Sessions -> [Surfaces -> 0 .. handles']]
      BY <2>4, TypesGrow
    <3> HIDE DEF h, good
    <3>2. CASE UNCHANGED vouches
      BY <3>1, <3>2
    <3>3. CASE good /\ vouches' = [vouches EXCEPT ![s][f] = h]
      BY <2>4, <3>1, <3>3
    <3> QED BY <2>2, <3>2, <3>3
  <2> HIDE DEF h, good, n, new
  <2> QED BY <1>14, <2>3, <2>4, <2>5, <2>6, <2>7, TypesGrow DEF Vouch, VouchTypeOK
<1>15. ASSUME NEW s \in Sessions, NEW f \in Surfaces, VouchUnanswered(s, f) PROVE VouchTypeOK'
  BY <1>0, <1>15 DEF VouchUnanswered, VouchTypeOK
<1>16. ASSUME NEW s \in Sessions, NEW f \in Surfaces, Unvouch(s, f) PROVE VouchTypeOK'
  <2>1. NodeOf[f] \in Nodes
    OBVIOUS
  <2>2. Unvouched(vouched[NodeOf[f]], vouches[s][f], Through[f]) \subseteq vouched[NodeOf[f]]
    BY DEF Unvouched
  <2>3. vouched' \in [Nodes -> SUBSET Callers]
    <3> DEFINE rest == Unvouched(vouched[NodeOf[f]], vouches[s][f], Through[f])
    <3>1. vouched' = vouched \/ vouched' = [vouched EXCEPT ![NodeOf[f]] = rest]
      BY <1>16 DEF Unvouch
    <3> HIDE DEF rest
    <3>2. rest \subseteq vouched[NodeOf[f]]
      BY <2>2 DEF rest
    <3> QED BY <2>1, <3>1, <3>2 DEF VouchTypeOK
  <2>4. vouches' \in [Sessions -> [Surfaces -> 0 .. handles]] /\ mishaps' \in Nat
    BY <1>16 DEF Unvouch, VouchTypeOK
  <2> QED BY <1>0, <1>16, <2>3, <2>4 DEF Unvouch, VouchTypeOK
<1>17. CASE Gate
  <2>1. act' \in Acts
    BY <1>17 DEF Gate, VouchTypeOK, Holders, Acts
  <2> QED BY <1>0, <1>17, <2>1 DEF Gate, VouchTypeOK
<1>18. CASE Act
  <2>1. act.of \in Sessions /\ act.at \in Surfaces
    BY <1>18 DEF Act, VouchTypeOK, NoAct, Acts
  <2>2. vouches[act.of][act.at] \in 0 .. handles
    BY <2>1 DEF VouchTypeOK
  <2>3. act' \in {NoAct} \cup Acts
    BY <1>18, <2>1, <2>2 DEF Act, Request, VouchTypeOK, Acts
  <2> QED BY <1>0, <1>18, <2>3 DEF Act, VouchTypeOK
<1>19. CASE Acted
  <2>1. act.of \in Sessions /\ NodeOf[act.at] \in Nodes
    BY <1>19 DEF Acted, VouchTypeOK, NoAct, Acts
  <2>2. Proven(NodeOf[act.at], act.handle, Through[act.at]) \subseteq Sessions
    BY <2>1 DEF Proven, VouchTypeOK, Callers
  <2>3. did' \subseteq Sessions \X Sessions
    BY <1>19, <2>1, <2>2 DEF Acted, VouchTypeOK
  <2> QED BY <1>0, <1>19, <2>3 DEF Acted, VouchTypeOK
<1>20. CASE UNCHANGED vouchVars
  BY <1>0, <1>20 DEF vouchVars, VouchTypeOK
<1> QED
  BY <1>1, <1>2, <1>3, <1>4, <1>5, <1>6, <1>7, <1>8, <1>9, <1>10, <1>11, <1>12, <1>13, <1>14,
     <1>15, <1>16, <1>17, <1>18, <1>19, <1>20 DEF VouchNext, HandsOver, VouchEnds

\* Every reachable state is typed: no handle and no nonce is kept that was not
\* drawn.
THEOREM VouchTypes == VouchSpec => []VouchTypeOK
BY TypeInit, TypeNext, PTL DEF VouchSpec

----------------------------------------------------------------------------
(* A listener that stopped.                                                *)

\* A step keeps a revoked listener's callers let go: the one step that holds a
\* caller asks, under the lock, whether its prover was revoked (HeldAgain).
LEMMA RevokedNext == RevokedHeldByNone /\ [VouchNext]_vouchVars => RevokedHeldByNone'
<1> SUFFICES ASSUME RevokedHeldByNone, [VouchNext]_vouchVars, revoked', held # {} \/ held' # {}
             PROVE  held' = {}
  BY DEF RevokedHeldByNone
<1> USE DEF nodeVars, poolVars, heldVars, RevokedHeldByNone
<1>1. ASSUME NEW s, HeldAgain(s), revoked PROVE held' = held
  BY <1>1 DEF HeldAgain
<1>2. CASE \E f \in Surfaces : Refill(f) \/ LeftLongEnough(f) \/ Ages(f)
  BY <1>2 DEF Refill, LeftLongEnough, Ages
<1>3. CASE \E n \in Nodes : Stales(n) \/ NodeRestarts(n)
  BY <1>3 DEF Stales, NodeRestarts
<1>4. CASE \E s \in Sessions : Bind(s) \/ Proof(s) \/ Vouched(s) \/ Finds(s) \/ CertificateEnds(s)
  BY <1>4 DEF Bind, Proof, Vouched, Finds, CertificateEnds
<1>5. CASE \E s \in Sessions : Handshake(s)
  BY <1>1, <1>5 DEF Handshake
<1>6. CASE \E s \in Sessions : Accept(s) \/ Free(s)
  BY <1>6 DEF Accept, Free, Freed
<1>7. CASE \E s \in Sessions, f \in Surfaces : VouchEnds(s, f) \/ Unvouch(s, f)
  BY <1>7 DEF VouchEnds, Vouch, VouchUnanswered, Unvouch
<1>8. CASE Again
  BY <1>1, <1>8 DEF Again
<1>9. CASE Release \/ Revoke \/ ListenerStops \/ Gate \/ Act \/ Acted
  BY <1>9 DEF Release, Revoke, ListenerStops, Gate, Act, Acted
<1>10. CASE UNCHANGED vouchVars
  BY <1>10 DEF vouchVars
<1> QED BY <1>2, <1>3, <1>4, <1>5, <1>6, <1>7, <1>8, <1>9, <1>10 DEF VouchNext, HandsOver

\* A listener that stops proves no one after it revoked what it proved, whatever
\* handshake was being finished and whatever holder was taking one again.
THEOREM HeldByNone == VouchSpec => []RevokedHeldByNone
<1>1. VouchInit => RevokedHeldByNone
  BY DEF VouchInit, RevokedHeldByNone
<1> QED BY <1>1, RevokedNext, PTL DEF VouchSpec

----------------------------------------------------------------------------
(* One handshake, one caller.                                              *)

\* What makes a handshake good once: a node has spent every nonce of the handshakes
\* it vouched for, and the nonces of one are bound once.
NoncesSpent ==
  \A n \in Nodes : \A v \in vouched[n] :
    /\ session[v.of] # "none"
    /\ \A x \in issued[n] : x.nonce \notin Handed(v.of)

OnceInv == VouchTypeOK /\ NoncesSpent /\ VouchedOnce

\* A step that changes neither nonces nor callers but to let them go keeps both.
LEMMA OnceShrinks ==
  ASSUME OnceInv,
         \A n \in Nodes : vouched'[n] \subseteq vouched[n] /\ issued'[n] \subseteq issued[n],
         \A s \in Sessions : bound'[s] = bound[s] \/ bound'[s] = Unbound,
         \A s \in Sessions : session[s] # "none" => session'[s] # "none"
  PROVE  NoncesSpent' /\ VouchedOnce'
<1>1. \A s \in Sessions : Handed(s)' \subseteq Handed(s)
  BY DEF Handed, Unbound
<1>2. NoncesSpent'
  <2> SUFFICES ASSUME NEW n \in Nodes, NEW v \in vouched'[n]
               PROVE  /\ session'[v.of] # "none"
                      /\ \A x \in issued'[n] : x.nonce \notin Handed(v.of)'
    BY DEF NoncesSpent
  <2>1. v \in vouched[n] /\ v.of \in Sessions
    BY DEF OnceInv, VouchTypeOK, Callers
  <2> QED BY <1>1, <2>1 DEF OnceInv, NoncesSpent
<1>3. VouchedOnce'
  BY DEF OnceInv, VouchedOnce
<1> QED BY <1>2, <1>3

\* Every step keeps the nonces of whom a node vouches for spent, and vouches for
\* none of them again.
LEMMA OnceNext == OnceInv /\ [VouchNext]_vouchVars => NoncesSpent' /\ VouchedOnce'
<1> SUFFICES ASSUME OnceInv, [VouchNext]_vouchVars PROVE NoncesSpent' /\ VouchedOnce'
  OBVIOUS
<1> USE DEF nodeVars, poolVars, heldVars, proofVars, actVars, bounds
<1>0. VouchTypeOK /\ NoncesSpent /\ VouchedOnce
  BY DEF OnceInv
<1>1. ASSUME NEW f \in Surfaces, Refill(f) PROVE NoncesSpent' /\ VouchedOnce'
  <2>1. UNCHANGED <<vouched, session, bound>>
    BY <1>1 DEF Refill
  <2>2. \A s \in Sessions : Handed(s)' = Handed(s) /\ nonces + 1 \notin Handed(s)
    BY <1>0, <2>1 DEF Handed, VouchTypeOK
  <2>3. \A n \in Nodes : issued'[n] \subseteq issued[n] \cup {Issue(f)}
    BY <1>0, <1>1 DEF Refill, VouchTypeOK
  <2>4. Issue(f).nonce = nonces + 1
    BY DEF Issue
  <2>5. \A n \in Nodes : \A v \in vouched[n] : v.of \in Sessions
    BY <1>0 DEF VouchTypeOK, Callers
  <2> QED BY <1>0, <2>1, <2>2, <2>3, <2>4, <2>5 DEF NoncesSpent, VouchedOnce
<1>2. ASSUME NEW s \in Sessions, Bind(s) PROVE NoncesSpent' /\ VouchedOnce'
  <2>1. /\ session[s] = "none" /\ UNCHANGED <<vouched, issued>>
        /\ session' = [session EXCEPT ![s] = "bound"]
        /\ \A o \in Sessions \ {s} : bound'[o] = bound[o]
    BY <1>0, <1>2 DEF Bind, VouchTypeOK
  <2>2. \A o \in Sessions \ {s} : Handed(o)' = Handed(o)
    BY <2>1 DEF Handed
  <2>3. \A n \in Nodes : \A v \in vouched[n] : v.of \in Sessions \ {s}
    BY <1>0, <2>1 DEF NoncesSpent, VouchTypeOK, Callers
  <2> QED BY <1>0, <2>1, <2>2, <2>3 DEF NoncesSpent, VouchedOnce, VouchTypeOK
<1>3. ASSUME NEW s \in Sessions, NEW f \in Surfaces, Vouch(s, f)
      PROVE  NoncesSpent' /\ VouchedOnce'
  <2> DEFINE n == NodeOf[f]
             h == Drawn({v.handle : v \in vouched[n]})
             new == [handle |-> h, of |-> s, through |-> Through[f]]
  <2>1. n \in Nodes /\ UNCHANGED <<bound, session>> /\ session[s] = "vouching"
    BY <1>3 DEF Vouch
  <2>2. issued' = [issued EXCEPT ![n] = Spent(n, s)]
    BY <1>3 DEF Vouch
  <2>3. \A o \in Nodes : issued'[o] \subseteq issued[o]
    BY <1>0, <2>1, <2>2 DEF Spent, VouchTypeOK
  <2>4. CASE ~Vouchable(n, s, Through[f])
    <3>1. UNCHANGED vouched
      BY <1>3, <2>4 DEF Vouch
    <3> QED BY <2>1, <2>3, <3>1, OnceShrinks
  <2>5. CASE Vouchable(n, s, Through[f])
    <3>1. \A o \in Nodes \ {n} : vouched'[o] = vouched[o]
      BY <1>0, <1>3, <2>5 DEF Vouch, VouchTypeOK
    <3>2. vouched'[n] \subseteq vouched[n] \cup {new}
      <4> DEFINE rest == IF Cardinality(vouched[n]) >= Most
                           THEN {v \in vouched[n] : v.of \notin expired} ELSE vouched[n]
      <4>1. rest \subseteq vouched[n]
        OBVIOUS
      <4>2. vouched' = [vouched EXCEPT ![n] = rest \cup {new}]
        BY <1>3, <2>5 DEF Vouch
      <4> HIDE DEF rest, new, n
      <4> QED BY <1>0, <2>1, <4>1, <4>2 DEF VouchTypeOK
    <3>3. \A v \in vouched[n] : v.of # s
      BY <1>0, <2>1, <2>5 DEF Vouchable, NoncesSpent
    <3>4. new.of = s
      OBVIOUS
    <3>5. \A o \in Sessions : Handed(o)' = Handed(o)
      BY <2>1 DEF Handed
    <3>6. \A x \in issued'[n] : x.nonce \notin Handed(s)
      BY <1>0, <2>1, <2>2 DEF Spent, VouchTypeOK
    <3>7. \A o \in Nodes : \A v \in vouched[o] : v.of \in Sessions
      BY <1>0 DEF VouchTypeOK, Callers
    <3> HIDE DEF n, h, new
    <3>8. ASSUME NEW o \in Nodes, NEW v \in vouched'[o]
          PROVE  session'[v.of] # "none" /\ \A x \in issued'[o] : x.nonce \notin Handed(v.of)'
      <4>1. CASE v \in vouched[o]
        BY <1>0, <2>1, <2>3, <3>5, <3>7, <4>1 DEF NoncesSpent
      <4>2. CASE o = n /\ v = new
        BY <2>1, <3>4, <3>5, <3>6, <4>2
      <4> QED BY <3>1, <3>2, <3>8, <4>1, <4>2
    <3>9. NoncesSpent'
      BY <3>8 DEF NoncesSpent
    <3>10. VouchedOnce'
      BY <1>0, <3>1, <3>2, <3>3, <3>4 DEF VouchedOnce
    <3> QED BY <3>9, <3>10
  <2> QED BY <2>4, <2>5
<1>4. CASE \E f \in Surfaces : LeftLongEnough(f) \/ Ages(f)
  BY <1>4, OnceShrinks DEF LeftLongEnough, Ages
<1>5. CASE \E n \in Nodes : Stales(n) \/ NodeRestarts(n)
  <2>1. /\ UNCHANGED <<bound, session>>
        /\ \A n \in Nodes : vouched'[n] \subseteq vouched[n] /\ issued'[n] \subseteq issued[n]
    <3>1. PICK n \in Nodes :
            /\ issued' = [issued EXCEPT ![n] = {}]
            /\ vouched' \in {vouched, [vouched EXCEPT ![n] = {}]}
      BY <1>5 DEF Stales, NodeRestarts
    <3>2. UNCHANGED <<bound, session>>
      BY <1>5 DEF Stales, NodeRestarts
    <3> QED BY <1>0, <3>1, <3>2 DEF VouchTypeOK
  <2> QED BY <2>1, OnceShrinks
<1>6. ASSUME NEW s \in Sessions,
             Handshake(s) \/ Proof(s) \/ Vouched(s) \/ Accept(s) \/ Free(s) \/ Finds(s)
               \/ CertificateEnds(s)
      PROVE  NoncesSpent' /\ VouchedOnce'
  <2>1. /\ UNCHANGED <<issued, vouched>>
        /\ bound' = bound \/ bound' = [bound EXCEPT ![s] = Unbound]
    BY <1>6 DEF Handshake, Proof, Vouched, Accept, Free, Finds, CertificateEnds
  <2>2. \A o \in Sessions : session[o] # "none" => session'[o] # "none"
    BY <1>0, <1>6 DEF Handshake, Proof, Vouched, Accept, Free, Freed, Finds, CertificateEnds, VouchTypeOK
  <2> HIDE DEF nodeVars, poolVars, heldVars, proofVars, actVars, bounds
  <2>3. \A o \in Sessions : bound'[o] = bound[o] \/ bound'[o] = Unbound
    BY <1>0, <2>1 DEF VouchTypeOK
  <2> QED BY <2>1, <2>2, <2>3, OnceShrinks
<1>7. CASE \E s \in Sessions, f \in Surfaces : VouchUnanswered(s, f)
  BY <1>7, OnceShrinks DEF VouchUnanswered
<1>8. ASSUME NEW s \in Sessions, NEW f \in Surfaces, Unvouch(s, f)
      PROVE  NoncesSpent' /\ VouchedOnce'
  <2> DEFINE rest == Unvouched(vouched[NodeOf[f]], vouches[s][f], Through[f])
  <2>1. /\ UNCHANGED <<bound, session, issued>>
        /\ vouched' = vouched \/ vouched' = [vouched EXCEPT ![NodeOf[f]] = rest]
    BY <1>8 DEF Unvouch
  <2>2. rest \subseteq vouched[NodeOf[f]]
    BY DEF Unvouched
  <2> HIDE DEF rest
  <2>3. \A n \in Nodes : vouched'[n] \subseteq vouched[n]
    BY <1>0, <2>1, <2>2 DEF VouchTypeOK
  <2> QED BY <2>1, <2>3, OnceShrinks
<1>9. CASE Again \/ Release \/ Revoke \/ ListenerStops
  BY <1>9, OnceShrinks DEF Again, Release, Revoke, ListenerStops
<1>10. CASE Gate \/ Act \/ Acted
  BY <1>10, OnceShrinks DEF Gate, Act, Acted
<1>11. CASE UNCHANGED vouchVars
  BY <1>11, OnceShrinks DEF vouchVars
<1> QED
  BY <1>1, <1>2, <1>3, <1>4, <1>5, <1>6, <1>7, <1>8, <1>9, <1>10, <1>11
  DEF VouchNext, HandsOver, VouchEnds

\* A node vouches for a handshake once, however often its answer is lost and the
\* handshake handed over again, and whichever of its surfaces it is handed through.
THEOREM HandshakeOnce == VouchSpec => [](NoncesSpent /\ VouchedOnce)
<1>1. VouchInit => NoncesSpent /\ VouchedOnce
  BY DEF VouchInit, NoncesSpent, VouchedOnce
<1>2. VouchTypeOK /\ (NoncesSpent /\ VouchedOnce) /\ [VouchNext]_vouchVars => (NoncesSpent /\ VouchedOnce)'
  BY OnceNext DEF OnceInv
<1> QED BY <1>1, <1>2, VouchTypes, PTL DEF VouchSpec

----------------------------------------------------------------------------
(* Acts.                                                                   *)

\* What makes an act its caller's: a node's handle the host keeps for a caller, or
\* sends with its act, is held for no other at any node; and an act on its way is
\* of a caller that may act.
HandlesTell ==
  /\ \A n \in Nodes : \A v \in vouched[n] :
       /\ \A s \in Sessions, f \in Surfaces : v.handle = vouches[s][f] => v.of = s
       /\ act.is = "asked" /\ v.handle = act.handle => v.of = act.of
  /\ act.is # "none" => Holding[act.of] >= Operator

ActInv == VouchTypeOK /\ HandlesTell /\ ActsAsItself

\* A step that only lets callers, handles and acts go keeps acts their callers'.
LEMMA ActShrinks ==
  ASSUME ActInv,
         \A n \in Nodes : vouched'[n] \subseteq vouched[n],
         \A s \in Sessions, f \in Surfaces : vouches'[s][f] \in {vouches[s][f], Unset},
         act' = act \/ act' = NoAct, did' = did
  PROVE  HandlesTell' /\ ActsAsItself'
<1>1. \A n \in Nodes : \A v \in vouched'[n] : v.handle # Unset
  BY DEF ActInv, VouchTypeOK, Callers
<1>2. HandlesTell'
  BY <1>1 DEF ActInv, HandlesTell, NoAct
<1>3. ActsAsItself'
  BY DEF ActInv, ActsAsItself
<1> QED BY <1>2, <1>3

\* Every step keeps every handle telling its caller, and every act its caller's.
LEMMA ActNext == ActInv /\ [VouchNext]_vouchVars => HandlesTell' /\ ActsAsItself'
<1> SUFFICES ASSUME ActInv, [VouchNext]_vouchVars PROVE HandlesTell' /\ ActsAsItself'
  OBVIOUS
<1> USE DEF nodeVars, poolVars, heldVars, proofVars, actVars, bounds
<1>0. VouchTypeOK /\ HandlesTell /\ ActsAsItself
  BY DEF ActInv
<1>1. ASSUME NEW s \in Sessions, NEW f \in Surfaces, Vouch(s, f)
      PROVE  HandlesTell' /\ ActsAsItself'
  <2> DEFINE n == NodeOf[f]
             h == Drawn({v.handle : v \in vouched[n]})
             new == [handle |-> h, of |-> s, through |-> Through[f]]
  <2>1. n \in Nodes /\ h = handles + 1 /\ UNCHANGED <<act, did>>
    BY <1>1 DEF Vouch, Drawn
  <2>2. CASE ~Vouchable(n, s, Through[f])
    <3>1. UNCHANGED <<vouched, vouches>>
      BY <1>1, <2>2 DEF Vouch
    <3> QED BY <2>1, <3>1, ActShrinks
  <2>3. CASE Vouchable(n, s, Through[f])
    <3>1. \A o \in Nodes : vouched'[o] \subseteq vouched[o] \cup {new}
      <4> DEFINE rest == IF Cardinality(vouched[n]) >= Most
                           THEN {v \in vouched[n] : v.of \notin expired} ELSE vouched[n]
      <4>1. rest \subseteq vouched[n]
        OBVIOUS
      <4>2. vouched' = [vouched EXCEPT ![n] = rest \cup {new}]
        BY <1>1, <2>3 DEF Vouch
      <4> HIDE DEF rest, new, n
      <4> QED BY <1>0, <2>1, <4>1, <4>2 DEF VouchTypeOK
    <3>2. vouches' = vouches \/ vouches' = [vouches EXCEPT ![s][f] = h]
      BY <1>1 DEF Vouch, Kept
    <3>3. \A o \in Nodes : \A v \in vouched[o] : v.handle # handles + 1
      BY <1>0 DEF VouchTypeOK, Callers
    <3>4. \A t \in Sessions, g \in Surfaces : vouches[t][g] # handles + 1
      BY <1>0 DEF VouchTypeOK
    <3>5. act.is = "asked" => act.handle # handles + 1
      BY <1>0 DEF VouchTypeOK, NoAct, Acts
    <3>6. new.handle = handles + 1 /\ new.of = s
      BY <2>1
    <3> HIDE DEF n, h, new
    <3>7. \A t \in Sessions, g \in Surfaces :
            vouches'[t][g] = vouches[t][g] \/ (t = s /\ vouches'[t][g] = handles + 1)
      BY <1>0, <2>1, <3>2 DEF VouchTypeOK
    <3>8. HandlesTell'
      <4> SUFFICES ASSUME NEW o \in Nodes, NEW v \in vouched'[o]
                   PROVE  /\ \A t \in Sessions, g \in Surfaces :
                               v.handle = vouches'[t][g] => v.of = t
                          /\ act.is = "asked" /\ v.handle = act.handle => v.of = act.of
        BY <1>0, <2>1 DEF HandlesTell
      <4>1. CASE v \in vouched[o]
        BY <1>0, <3>3, <3>7, <4>1 DEF HandlesTell
      <4>2. CASE v = new
        BY <3>4, <3>5, <3>6, <3>7, <4>2
      <4> QED BY <3>1, <4>1, <4>2
    <3> QED BY <1>0, <2>1, <3>8 DEF ActsAsItself
  <2> QED BY <2>2, <2>3
<1>2. ASSUME NEW s \in Sessions, NEW f \in Surfaces, Unvouch(s, f)
      PROVE  HandlesTell' /\ ActsAsItself'
  <2> DEFINE rest == Unvouched(vouched[NodeOf[f]], vouches[s][f], Through[f])
  <2>1. /\ UNCHANGED <<act, did>>
        /\ vouches' = [vouches EXCEPT ![s][f] = Unset]
        /\ vouched' = vouched \/ vouched' = [vouched EXCEPT ![NodeOf[f]] = rest]
    BY <1>2 DEF Unvouch
  <2>2. rest \subseteq vouched[NodeOf[f]]
    BY DEF Unvouched
  <2> HIDE DEF rest
  <2>3. \A n \in Nodes : vouched'[n] \subseteq vouched[n]
    BY <1>0, <2>1, <2>2 DEF VouchTypeOK
  <2>4. \A t \in Sessions, g \in Surfaces : vouches'[t][g] \in {vouches[t][g], Unset}
    BY <1>0, <2>1 DEF VouchTypeOK
  <2> QED BY <2>1, <2>3, <2>4, ActShrinks
<1>3. CASE \E n \in Nodes : Stales(n) \/ NodeRestarts(n)
  <2>1. PICK n \in Nodes : vouched' \in {vouched, [vouched EXCEPT ![n] = {}]}
    BY <1>3 DEF Stales, NodeRestarts
  <2>2. UNCHANGED <<vouches, act, did>>
    BY <1>3 DEF Stales, NodeRestarts
  <2>3. \A o \in Nodes : vouched'[o] \subseteq vouched[o]
    BY <1>0, <2>1 DEF VouchTypeOK
  <2> QED BY <2>2, <2>3, ActShrinks
<1>4. CASE Gate
  <2>1. PICK x \in held, f \in Surfaces :
          /\ ActAdmitted(x.handle, Holding[x.of])
          /\ act' = [is |-> "gated", of |-> x.of, at |-> f, handle |-> x.handle]
    BY <1>4 DEF Gate
  <2>2. Holding[x.of] >= Operator
    BY <2>1 DEF ActAdmitted, Admitted, Rules
  <2>3. act'.is = "gated" /\ act'.of = x.of /\ UNCHANGED <<vouched, vouches, did>>
    BY <1>4, <2>1 DEF Gate
  <2> QED BY <1>0, <2>2, <2>3 DEF HandlesTell, ActsAsItself
<1>5. CASE Act
  <2>1. act.of \in Sessions /\ act.at \in Surfaces /\ act.is = "gated"
    BY <1>0, <1>5 DEF Act, VouchTypeOK, NoAct, Acts
  <2>2. UNCHANGED <<vouched, vouches, did>>
    BY <1>5 DEF Act
  <2>3. CASE act' = NoAct
    BY <2>2, <2>3, ActShrinks
  <2>4. CASE act' = Request(act.of, act.at)
    <3>1. act'.is = "asked" /\ act'.of = act.of /\ act'.handle = vouches[act.of][act.at]
      BY <2>4 DEF Request
    <3> QED BY <1>0, <2>1, <2>2, <3>1 DEF HandlesTell, ActsAsItself
  <2> QED BY <1>5, <2>3, <2>4 DEF Act
<1>6. CASE Acted
  <2> DEFINE n == NodeOf[act.at]
             who == Proven(n, act.handle, Through[act.at])
  <2>1. act.at \in Surfaces /\ act.is = "asked" /\ n \in Nodes
    BY <1>0, <1>6 DEF Acted, VouchTypeOK, NoAct, Acts
  <2>2. \A w \in who : w = act.of
    BY <1>0, <2>1 DEF Proven, HandlesTell
  <2>3. Holding[act.of] >= Operator
    BY <1>0, <2>1 DEF HandlesTell
  <2>4. did' \subseteq did \cup {<<act.of, w>> : w \in who} /\ act' = NoAct
    BY <1>6 DEF Acted
  <2> HIDE DEF n, who
  <2>5. ActsAsItself'
    BY <1>0, <2>2, <2>3, <2>4 DEF ActsAsItself
  <2>6. UNCHANGED <<vouched, vouches>>
    BY <1>6 DEF Acted
  <2> QED BY <1>0, <2>4, <2>5, <2>6 DEF HandlesTell, NoAct
<1>7. CASE UNCHANGED <<vouched, vouches, act, did>>
  BY <1>7, ActShrinks
<1>8. CASE \E f \in Surfaces : Refill(f) \/ LeftLongEnough(f) \/ Ages(f)
  BY <1>7, <1>8 DEF Refill, LeftLongEnough, Ages
<1>9. CASE \E s \in Sessions : Bind(s) \/ Handshake(s) \/ Proof(s) \/ Vouched(s) \/ Accept(s)
                                 \/ Free(s) \/ Finds(s) \/ CertificateEnds(s)
  BY <1>7, <1>9 DEF Bind, Handshake, Proof, Vouched, Accept, Free, Finds, CertificateEnds
<1>10. CASE \E s \in Sessions, f \in Surfaces : VouchUnanswered(s, f)
  BY <1>7, <1>10 DEF VouchUnanswered
<1>11. CASE Again \/ Release \/ Revoke \/ ListenerStops
  BY <1>7, <1>11 DEF Again, Release, Revoke, ListenerStops
<1>12. CASE UNCHANGED vouchVars
  BY <1>7, <1>12 DEF vouchVars
<1> QED
  BY <1>1, <1>2, <1>3, <1>4, <1>5, <1>6, <1>8, <1>9, <1>10, <1>11, <1>12
  DEF VouchNext, HandsOver, VouchEnds

\* A caller is vouched for once, and what is asked for it is done as it or refused:
\* no relay, no node started again and no handle let go meanwhile gives its act to
\* another, and none acts whose role on its host only watches.
THEOREM CallersAsThemselves == VouchSpec => []AsItself
<1>1. VouchInit => HandlesTell /\ ActsAsItself
  BY DEF VouchInit, HandlesTell, ActsAsItself, NoAct
<1>2. VouchTypeOK /\ (HandlesTell /\ ActsAsItself) /\ [VouchNext]_vouchVars => (HandlesTell /\ ActsAsItself)'
  BY ActNext DEF ActInv
<1>3. VouchSpec => [](HandlesTell /\ ActsAsItself)
  BY <1>1, <1>2, VouchTypes, PTL DEF VouchSpec
<1>4. VouchedOnce /\ ActsAsItself => AsItself
  BY DEF AsItself
<1> QED BY <1>3, <1>4, HandshakeOnce, PTL

----------------------------------------------------------------------------
(* Callers held at once.                                                   *)

CallersFinite == IsFiniteSet(held) /\ \A n \in Nodes : IsFiniteSet(vouched[n])

MostInv == VouchTypeOK /\ CallersFinite /\ WithinMost

\* Fewer callers are within what is held at most.
LEMMA MostShrinks ==
  ASSUME MostInv, held' \subseteq held, \A n \in Nodes : vouched'[n] \subseteq vouched[n]
  PROVE  CallersFinite' /\ WithinMost'
<1>1. IsFiniteSet(held') /\ Cardinality(held') <= Cardinality(held)
  BY FS_Subset DEF MostInv, CallersFinite
<1>2. \A n \in Nodes : /\ IsFiniteSet(vouched'[n])
                       /\ Cardinality(vouched'[n]) <= Cardinality(vouched[n])
  BY FS_Subset DEF MostInv, CallersFinite
<1>3. Cardinality(held) \in Nat /\ Cardinality(held') \in Nat
  BY <1>1, FS_CardinalityType DEF MostInv, CallersFinite
<1>4. \A n \in Nodes : Cardinality(vouched[n]) \in Nat /\ Cardinality(vouched'[n]) \in Nat
  BY <1>2, FS_CardinalityType DEF MostInv, CallersFinite
<1> QED BY <1>1, <1>2, <1>3, <1>4 DEF MostInv, WithinMost, CallersFinite

\* One more is within it where there was room.
LEMMA OneMore ==
  ASSUME NEW S, IsFiniteSet(S), Cardinality(S) < Most, NEW x
  PROVE  IsFiniteSet(S \cup {x}) /\ Cardinality(S \cup {x}) <= Most
<1>1. Cardinality(S) \in Nat
  BY FS_CardinalityType
<1>2. /\ IsFiniteSet(S \cup {x})
      /\ Cardinality(S \cup {x}) = IF x \in S THEN Cardinality(S) ELSE Cardinality(S) + 1
  BY FS_AddElement
<1> QED BY <1>1, <1>2

\* One more holder is drawn only where there is room (HeldAgain).
LEMMA HeldAgainMost ==
  ASSUME MostInv, NEW s \in Sessions, HeldAgain(s)
  PROVE  IsFiniteSet(held') /\ Cardinality(held') <= Most
<1> DEFINE live == {h \in held : h.of \notin expired}
           rest == IF Full(held) THEN live ELSE held
           new == [handle |-> handles + 1, of |-> s]
<1>1. IsFiniteSet(held) /\ Cardinality(held) <= Most /\ rest \subseteq held
  BY DEF MostInv, CallersFinite, WithinMost
<1>2. IsFiniteSet(rest) /\ Cardinality(rest) <= Cardinality(held)
  BY <1>1, FS_Subset
<1>3. Cardinality(rest) \in Nat /\ Cardinality(held) \in Nat
  BY <1>1, <1>2, FS_CardinalityType
<1>4. held' \in {held, rest} \/ (~Full(rest) /\ held' = rest \cup {new})
  BY DEF HeldAgain
<1> HIDE DEF rest, new
<1>5. CASE held' \in {held, rest}
  BY <1>1, <1>2, <1>3, <1>5
<1>6. CASE ~Full(rest) /\ held' = rest \cup {new}
  <2>1. Cardinality(rest) < Most
    BY <1>3, <1>6 DEF Full
  <2> QED BY <1>2, <1>6, <2>1, OneMore
<1> QED BY <1>4, <1>5, <1>6

\* Every step keeps the callers of the host and of every node within the most.
LEMMA MostNext == MostInv /\ [VouchNext]_vouchVars => CallersFinite' /\ WithinMost'
<1> SUFFICES ASSUME MostInv, [VouchNext]_vouchVars PROVE CallersFinite' /\ WithinMost'
  OBVIOUS
<1> USE DEF nodeVars, poolVars, heldVars, proofVars, actVars, bounds
<1>0. VouchTypeOK /\ CallersFinite /\ WithinMost
  BY DEF MostInv
<1>1. ASSUME NEW s \in Sessions, Handshake(s) PROVE CallersFinite' /\ WithinMost'
  <2>1. UNCHANGED vouched
    BY <1>1 DEF Handshake
  <2>2. CASE held' = held
    BY <2>1, <2>2, MostShrinks
  <2>3. CASE HeldAgain(s)
    BY <1>0, <2>1, <2>3, HeldAgainMost DEF CallersFinite, WithinMost
  <2> QED BY <1>1, <2>2, <2>3 DEF Handshake
<1>2. CASE Again
  <2>1. again \in Sessions /\ HeldAgain(again) /\ UNCHANGED vouched
    BY <1>0, <1>2 DEF Again, VouchTypeOK
  <2> QED BY <1>0, <2>1, HeldAgainMost DEF CallersFinite, WithinMost
<1>3. ASSUME NEW s \in Sessions, NEW f \in Surfaces, Vouch(s, f)
      PROVE  CallersFinite' /\ WithinMost'
  <2> DEFINE n == NodeOf[f]
             h == Drawn({v.handle : v \in vouched[n]})
             new == [handle |-> h, of |-> s, through |-> Through[f]]
             live == {v \in vouched[n] : v.of \notin expired}
             rest == IF Cardinality(vouched[n]) >= Most THEN live ELSE vouched[n]
  <2>1. n \in Nodes /\ UNCHANGED held
    BY <1>3 DEF Vouch
  <2>2. CASE ~Vouchable(n, s, Through[f])
    <3>1. UNCHANGED vouched
      BY <1>3, <2>2 DEF Vouch
    <3> QED BY <2>1, <3>1, MostShrinks
  <2>3. CASE Vouchable(n, s, Through[f])
    <3>1. vouched' = [vouched EXCEPT ![n] = rest \cup {new}]
      BY <1>3, <2>3 DEF Vouch
    <3>2. Cardinality(live) < Most
      BY <2>3 DEF Vouchable
    <3>3. IsFiniteSet(vouched[n]) /\ Cardinality(vouched[n]) \in Nat
      BY <1>0, <2>1, FS_CardinalityType DEF CallersFinite
    <3>4. IsFiniteSet(rest)
      BY <3>3, FS_Subset
    <3>5. Cardinality(rest) < Most
      BY <3>2, <3>3
    <3> HIDE DEF rest, new, n
    <3>6. IsFiniteSet(rest \cup {new}) /\ Cardinality(rest \cup {new}) <= Most
      BY <3>4, <3>5, OneMore
    <3> QED BY <1>0, <2>1, <3>1, <3>6 DEF CallersFinite, WithinMost, VouchTypeOK
  <2> QED BY <2>2, <2>3
<1>4. ASSUME NEW s \in Sessions, NEW f \in Surfaces, Unvouch(s, f)
      PROVE  CallersFinite' /\ WithinMost'
  <2> DEFINE rest == Unvouched(vouched[NodeOf[f]], vouches[s][f], Through[f])
  <2>1. /\ UNCHANGED held
        /\ vouched' = vouched \/ vouched' = [vouched EXCEPT ![NodeOf[f]] = rest]
    BY <1>4 DEF Unvouch
  <2>2. rest \subseteq vouched[NodeOf[f]]
    BY DEF Unvouched
  <2> HIDE DEF rest
  <2>3. \A n \in Nodes : vouched'[n] \subseteq vouched[n]
    BY <1>0, <2>1, <2>2 DEF VouchTypeOK
  <2> QED BY <2>1, <2>3, MostShrinks
<1>5. CASE \E n \in Nodes : Stales(n) \/ NodeRestarts(n)
  <2>1. PICK n \in Nodes : vouched' \in {vouched, [vouched EXCEPT ![n] = {}]}
    BY <1>5 DEF Stales, NodeRestarts
  <2>2. UNCHANGED held
    BY <1>5 DEF Stales, NodeRestarts
  <2>3. \A o \in Nodes : vouched'[o] \subseteq vouched[o]
    BY <1>0, <2>1 DEF VouchTypeOK
  <2> QED BY <2>2, <2>3, MostShrinks
<1>6. CASE held' \subseteq held /\ UNCHANGED vouched
  BY <1>6, MostShrinks
<1>7. CASE \E f \in Surfaces : Refill(f) \/ LeftLongEnough(f) \/ Ages(f)
  BY <1>6, <1>7 DEF Refill, LeftLongEnough, Ages
<1>8. CASE \E s \in Sessions : Bind(s) \/ Proof(s) \/ Vouched(s) \/ Accept(s)
                                 \/ Free(s) \/ Finds(s) \/ CertificateEnds(s)
  BY <1>6, <1>8 DEF Bind, Proof, Vouched, Accept, Free, Freed, Finds, CertificateEnds
<1>9. CASE \E s \in Sessions, f \in Surfaces : VouchUnanswered(s, f)
  BY <1>6, <1>9 DEF VouchUnanswered
<1>10. CASE Release \/ Revoke \/ ListenerStops \/ Gate \/ Act \/ Acted
  BY <1>6, <1>10 DEF Release, Revoke, ListenerStops, Gate, Act, Acted
<1>11. CASE UNCHANGED vouchVars
  BY <1>6, <1>11 DEF vouchVars
<1> QED
  BY <1>1, <1>2, <1>3, <1>4, <1>5, <1>7, <1>8, <1>9, <1>10, <1>11
  DEF VouchNext, HandsOver, VouchEnds

\* Neither the host nor any node ever holds more callers than it may, the expired
\* among them counted and let go only where it is full.
THEOREM HeldWithinMost == VouchSpec => []WithinMost
<1>1. VouchInit => CallersFinite /\ WithinMost
  BY FS_EmptySet DEF VouchInit, CallersFinite, WithinMost
<1>2. VouchTypeOK /\ (CallersFinite /\ WithinMost) /\ [VouchNext]_vouchVars => (CallersFinite /\ WithinMost)'
  BY MostNext DEF MostInv
<1> QED BY <1>1, <1>2, VouchTypes, PTL DEF VouchSpec
===============================================================================
