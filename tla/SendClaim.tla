------------------------------ MODULE SendClaim ------------------------------
(***************************************************************************)
(* The life of a Message bound for one Send Port, sent by every node that  *)
(* serves the Port: published in the Ledger, perhaps claimed in the same   *)
(* write; found by a scan, claimed, and read again under the claim; tried  *)
(* on the Port's Send Locations only while the claim is surely held;       *)
(* handed on in one write conditional on the claim; renewed meanwhile; and,*)
(* failed, retried or dismissed by an operator.                            *)
(* (send_step.rs, send_step/{scan,under_claim,pass,renewal,message_act}.rs,*)
(* departure.rs.)                                                          *)
(*                                                                         *)
(* Time is discrete and nobody compares two clocks: every lease is kept as *)
(* how much of it is left, on the Storage node (`left') and, counted from  *)
(* when the request was asked, on the node (`till').  Tick lets one unit   *)
(* pass on all of them, so clocks run at the same rate.  A request that is *)
(* answered was asked up to a lease or more before: what is left of the    *)
(* node's lease when Storage takes it is any of 0 .. Lease.                *)
(*                                                                         *)
(* A claim's token is modelled by the fence Xmip Storage gives it: both    *)
(* are fresh for every claim.  Xmip Storage itself (crate persist) is      *)
(* external: one request is one step; where a claim has lapsed and nobody  *)
(* took it, Storage may honour or refuse it.                               *)
(*                                                                         *)
(* A node works on a Message in one place at a time: `owned' and `taking'  *)
(* are keyed by Journey.  SendDispatch models one node's threads and shows *)
(* where two of its jobs meet on one Message all the same (HoldsOwn).      *)
(***************************************************************************)
EXTENDS Integers, FiniteSets

CONSTANTS
  Nodes,       \* the nodes that send the Port
  Messages,    \* the Messages bound for it, each its Journey's only one
  NoNode,      \* the holder of an unclaimed Message
  Lease,       \* [tuning] send_lease, in units of Tick
  MaxFence,    \* bound: how many claims a Message is granted, at most
  Locations,   \* how many Send Locations of the Port each node has
  Tries,       \* tries of one Location, port.tries()
  FailsOver,   \* failover = "next"
  Sequential,  \* the Port names a Correlation: no claim in the Publication
  Blocks       \* on_failure = "block": a Retry keeps its place

ASSUME NodesAssumption == NoNode \notin Nodes
ASSUME LeaseAssumption == Lease \in Nat \ {0}
ASSUME FenceAssumption == MaxFence \in Nat
ASSUME PortAssumption ==
  /\ Locations \in [Nodes -> Nat \ {0}]
  /\ Tries \in Nat \ {0}
  /\ FailsOver \in BOOLEAN
  /\ Sequential \in BOOLEAN
  /\ Blocks \in BOOLEAN
  /\ Blocks => Sequential

VARIABLES
  \* The Ledger, Xmip Storage's: each Message's Journey, its place in the
  \* Port's queue, and the claim on it.
  state,     \* its Journey's state; "waiting" is Active or Recovering
  place,     \* its place in the queue; 0 where it is in none
  waits,     \* its place keeps a retry's due time that has not come
  attempts,  \* <<location, tries>> its Journey keeps
  written,   \* the fence of the claim that wrote its Journey last
  holder,    \* who holds the claim on it
  fence,     \* the fence of the last claim on it
  left,      \* what is left of that claim's lease
  \* Each node's send step, by Message.
  phase,     \* where its work on the Message stands
  at,        \* the place a scan read it at
  token,     \* the fence of the claim it works under
  till,      \* how long that claim is surely its own: Standing.until
  lost,      \* a renewal found that claim another's: Standing.lost
  progress,  \* <<location, tries>> of the pass: Progress
  went,      \* what the pass came to so far
  passed,    \* State.passed: <<Message, place>> every scan passes over
  legible,   \* the Messages it can read as ones to send: their records whole,
             \* their identity's mechanism one its authenticators declare
  renewing,  \* the node's one renewal request in flight
  act,       \* the operator's act the node is taking
  \* What the far end sees.
  begun,     \* the fence the last send that began carried
  delivered  \* the Messages it has

ledgerVars == <<state, place, waits, attempts, written, holder, fence, left>>
journeyVars == <<state, place, waits, attempts, written>>
claimVars == <<holder, fence, left>>
passVars == <<at, progress, went>>
standingVars == <<phase, token, till, lost>>
nodeVars == <<standingVars, passVars, passed, legible, renewing, act>>
farVars == <<begun, delivered>>
vars == <<ledgerVars, nodeVars, farVars>>

States == {"unborn", "waiting", "failed", "completed", "dismissed"}

\* idle       nothing here; a scan may find it
\* published  Xmip Storage took its Publication, the answer not yet here
\* found      a scan read it and took a place in the pool; its claim is asked
\* claimed    granted; its place is read again next
\* placed     at its place and due; its Journey is read next
\* passing    read and not to be sent, claim released; passed over next
\* head       owned; the pass is before a Location is tried
\* edge       surely held at the loop's head; authorized, made durable
\* sending    its first byte went
\* tried      the pass ended; its hand-on is next
\* settling   handed on, or let go of; still owned until settled
Owned == {"head", "edge", "sending", "tried", "settling"}
Passing == {"head", "edge", "sending", "tried"}
Claiming == {"published", "claimed", "placed"} \cup Passing
Phases ==
  {"idle", "found", "passing"} \cup Claiming \cup Owned

Outcomes == {"none", "waiting", "sent", "given"}

NoRenewal == [stage |-> "none", flying |-> {}, held |-> {}, till |-> 0]
NoAct == [stage |-> "none", kind |-> "retry", seen |-> 0, token |-> 0]

----------------------------------------------------------------------------
(* What Xmip Storage keeps and answers (external: crate persist).          *)

\* A claim nobody holds, or whose lease has run out, can be taken.
Free(m) == holder[m] = NoNode \/ left[m] = 0

\* The claim with fence f is node n's still, lapsed or not.
IsHolder(n, m, f) == holder[m] = n /\ fence[m] = f

\* XmipStorage::claim: a fresh fence, a lease from now.
Grant(n, m) ==
  /\ Free(m)
  /\ fence[m] < MaxFence
  /\ holder' = [holder EXCEPT ![m] = n]
  /\ fence' = [fence EXCEPT ![m] = @ + 1]
  /\ left' = [left EXCEPT ![m] = Lease]

\* XmipStorage::release under fence f: its answer is dropped, so it may not
\* have been taken.
Release(n, m, f) ==
  /\ \/ /\ IsHolder(n, m, f)
        /\ holder' = [holder EXCEPT ![m] = NoNode]
        /\ left' = [left EXCEPT ![m] = 0]
     \/ UNCHANGED <<holder, left>>
  /\ UNCHANGED fence

\* XmipStorage::hand_on under fence f, taken: the Journey written in `to',
\* the claim ended.
HandOnTaken(n, m, f, to) ==
  /\ IsHolder(n, m, f)
  /\ holder' = [holder EXCEPT ![m] = NoNode]
  /\ state' = [state EXCEPT ![m] = to]
  /\ written' = [written EXCEPT ![m] = f]
  /\ left' = [left EXCEPT ![m] = 0]
  /\ UNCHANGED fence

----------------------------------------------------------------------------
(* The node's view of its claim.                                           *)

\* SendStep::holds: owned, not found another's, confirmed within a lease.
Holds(n, m) == phase[n][m] \in Owned /\ ~lost[n][m] /\ till[n][m] > 0

\* Node n's work on m moves to phase p, its standing as it was.
Move(n, m, p) ==
  /\ phase' = [phase EXCEPT ![n][m] = p]
  /\ UNCHANGED <<token, till, lost>>

\* m is neither owned nor being taken by n any longer: what n kept of it goes.
LetGo(n, m) ==
  /\ phase' = [phase EXCEPT ![n][m] = "idle"]
  /\ token' = [token EXCEPT ![n][m] = 0]
  /\ till' = [till EXCEPT ![n][m] = 0]
  /\ lost' = [lost EXCEPT ![n][m] = FALSE]
  /\ at' = [at EXCEPT ![n][m] = 0]
  /\ progress' = [progress EXCEPT ![n][m] = <<0, 0>>]
  /\ went' = [went EXCEPT ![n][m] = "none"]

\* The pass is over and settled next: its claim and standing are kept by
\* `owned' until then.
Ended(n, m) ==
  /\ Move(n, m, "settling")
  /\ at' = [at EXCEPT ![n][m] = 0]
  /\ progress' = [progress EXCEPT ![n][m] = <<0, 0>>]
  /\ went' = [went EXCEPT ![n][m] = "none"]

\* The claim Grant gives n, known to it by its fence: surely its own a lease
\* from when it was asked, of which what is left now.
Claimed(n, m, p) ==
  /\ phase' = [phase EXCEPT ![n][m] = p]
  /\ token' = [token EXCEPT ![n][m] = fence[m] + 1]
  /\ \E rest \in 0 .. Lease : till' = [till EXCEPT ![n][m] = rest]
  /\ UNCHANGED lost

----------------------------------------------------------------------------
(* Publication: line_up, the write, confirmed, handed.                     *)

\* Xmip Storage takes a Publication: the Message at the end of its queue.
Published(m) ==
  /\ state[m] = "unborn"
  /\ state' = [state EXCEPT ![m] = "waiting"]
  /\ place' = [place EXCEPT ![m] = 1]
  /\ UNCHANGED <<waits, attempts, written>>

\* line_up with a place in the pool: the claim rides in the Publication.
PublishWrite(n, m) ==
  /\ ~Sequential
  /\ Published(m)
  /\ Grant(n, m)
  /\ Claimed(n, m, "published")
  /\ UNCHANGED <<passVars, passed, legible, renewing, act, farVars>>

\* No place, a Sequential Port, or a node that does not send the Port: the
\* Message waits unclaimed.
PublishUnclaimed(m) ==
  /\ Published(m)
  /\ UNCHANGED <<claimVars, nodeVars, farVars>>

\* confirmed: the answer lists the claim - the first answer always, one asked
\* again only where it is still held - and handed owns it.
PublishAnswered(n, m) ==
  /\ phase[n][m] = "published"
  /\ Move(n, m, "head")
  /\ at' = [at EXCEPT ![n][m] = 1]
  /\ progress' = [progress EXCEPT ![n][m] = <<0, 0>>]
  /\ went' = [went EXCEPT ![n][m] = "none"]
  /\ UNCHANGED <<ledgerVars, passed, legible, renewing, act, farVars>>

\* The answer was lost and the write asked again after the claim went, so it
\* is not listed; or the Publication is given up on, whatever was written.
PublishUnconfirmed(n, m) ==
  /\ phase[n][m] = "published"
  /\ LetGo(n, m)
  /\ UNCHANGED <<ledgerVars, passed, legible, renewing, act, farVars>>

----------------------------------------------------------------------------
(* The scan, the claim, and the read under it.                             *)

\* What read_due yields: in the queue, its due time come, not failed.
InDuePart(m) == state[m] = "waiting" /\ place[m] # 0 /\ ~waits[m]

\* scanning: due, and not known - owned, being taken, or passed over.
Found(n, m) ==
  /\ InDuePart(m)
  /\ phase[n][m] = "idle"
  /\ <<m, place[m]>> \notin passed[n]
  /\ Move(n, m, "found")
  /\ at' = [at EXCEPT ![n][m] = place[m]]
  /\ UNCHANGED <<ledgerVars, progress, went, passed, legible, renewing, act, farVars>>

\* read_whole: a read to the end forgets every place passed over that is gone
\* from what is due.
ReadWhole(n) ==
  /\ passed' = [passed EXCEPT ![n] = {p \in @ : InDuePart(p[1]) /\ place[p[1]] = p[2]}]
  /\ UNCHANGED <<ledgerVars, standingVars, passVars, legible, renewing, act, farVars>>

\* claimed_first.
ClaimGranted(n, m) ==
  /\ phase[n][m] = "found"
  /\ Grant(n, m)
  /\ Claimed(n, m, "claimed")
  /\ UNCHANGED <<journeyVars, passVars, passed, legible, renewing, act, farVars>>

\* Ok(None), another holds it; or no answer, nothing granted.
ClaimRefused(n, m) ==
  /\ phase[n][m] = "found"
  /\ LetGo(n, m)
  /\ UNCHANGED <<ledgerVars, passed, legible, renewing, act, farVars>>

\* No answer, though it was granted: nobody works under the claim.
ClaimUnanswered(n, m) ==
  /\ phase[n][m] = "found"
  /\ Grant(n, m)
  /\ LetGo(n, m)
  /\ UNCHANGED <<journeyVars, passed, legible, renewing, act, farVars>>

\* Mutant: the scan's page is trusted, place and due time not read again.
UnderPlacedAsRead(n, m) ==
  /\ phase[n][m] = "claimed"
  /\ Move(n, m, "placed")
  /\ UNCHANGED <<ledgerVars, passVars, passed, legible, renewing, act, farVars>>

\* under_claim, its place: still there, still this Message's, and due.
UnderPlaced(n, m) ==
  /\ phase[n][m] = "claimed"
  /\ place[m] = at[n][m]
  /\ ~waits[m]
  /\ Move(n, m, "placed")
  /\ UNCHANGED <<ledgerVars, passVars, passed, legible, renewing, act, farVars>>

\* under_claim: moved, not due, or one of the two reads unanswered; the claim
\* is given back.
UnderNot(n, m) ==
  /\ phase[n][m] \in {"claimed", "placed"}
  /\ Release(n, m, token[n][m])
  /\ LetGo(n, m)
  /\ UNCHANGED <<journeyVars, passed, legible, renewing, act, farVars>>

\* Mutant: a pass begins at the first Location, whatever was tried before.
UnderWaitingAnew(n, m) ==
  /\ phase[n][m] = "placed"
  /\ state[m] = "waiting"
  /\ m \in legible[n]
  /\ Move(n, m, "head")
  /\ progress' = [progress EXCEPT ![n][m] = <<0, 0>>]
  /\ went' = [went EXCEPT ![n][m] = "none"]
  /\ UNCHANGED <<ledgerVars, at, passed, legible, renewing, act, farVars>>

\* under_claim, its Journey: to be sent, from where its attempts left off.
UnderWaiting(n, m) ==
  /\ phase[n][m] = "placed"
  /\ state[m] = "waiting"
  /\ m \in legible[n]
  /\ Move(n, m, "head")
  /\ progress' = [progress EXCEPT ![n][m] = attempts[m]]
  /\ went' = [went EXCEPT ![n][m] = "none"]
  /\ UNCHANGED <<ledgerVars, at, passed, legible, renewing, act, farVars>>

\* under_claim, its Journey: failed, finished, or not readable on this node as a
\* Message to send.  The claim is given back, and only then is the place passed
\* over.
UnderNotToSend(n, m) ==
  /\ phase[n][m] = "placed"
  /\ state[m] # "waiting" \/ m \notin legible[n]
  /\ Release(n, m, token[n][m])
  /\ Move(n, m, "passing")
  /\ UNCHANGED <<journeyVars, passVars, passed, legible, renewing, act, farVars>>

PassOver(n, m) ==
  /\ phase[n][m] = "passing"
  /\ passed' = [passed EXCEPT ![n] = @ \cup {<<m, at[n][m]>>}]
  /\ LetGo(n, m)
  /\ UNCHANGED <<ledgerVars, legible, renewing, act, farVars>>

----------------------------------------------------------------------------
(* One pass of the send: depart_port and depart_one.                       *)

\* The Location that comes after one that failed.
NextLocation(n, p) == FailsOver /\ p[1] + 1 < Locations[n]

\* depart_port, a Location tried and not sent: tried again after its backoff,
\* failed over at once, or given up.
NotSent(n, m, retryable) ==
  LET p == progress[n][m]
      tries == p[2] + 1
  IN  IF retryable /\ tries < Tries
        THEN /\ progress' = [progress EXCEPT ![n][m] = <<p[1], tries>>]
             /\ went' = [went EXCEPT ![n][m] = "waiting"]
             /\ Move(n, m, "tried")
      ELSE IF NextLocation(n, p)
        THEN /\ progress' = [progress EXCEPT ![n][m] = <<p[1] + 1, 0>>]
             /\ went' = [went EXCEPT ![n][m] = "waiting"]
             /\ Move(n, m, "head")
      ELSE   /\ progress' = [progress EXCEPT ![n][m] = <<p[1], tries>>]
             /\ went' = [went EXCEPT ![n][m] = "given"]
             /\ Move(n, m, "tried")

\* Its Stream, or the Message itself at a Sequential Port, does not head a
\* sequence it is in: nothing tried, the claim given back.
Behind(n, m) ==
  /\ phase[n][m] = "head" /\ went[n][m] = "none"
  /\ Release(n, m, token[n][m])
  /\ Ended(n, m)
  /\ UNCHANGED <<journeyVars, passed, legible, renewing, act, farVars>>

\* The loop's head, the Message surely this node's.
TryLocation(n, m) ==
  /\ phase[n][m] = "head"
  /\ Holds(n, m)
  /\ progress[n][m][1] < Locations[n]
  /\ Move(n, m, "edge")
  /\ UNCHANGED <<ledgerVars, passVars, passed, legible, renewing, act, farVars>>

\* The loop's head: this node has no such Location.
NoLocation(n, m) ==
  /\ phase[n][m] = "head"
  /\ Holds(n, m)
  /\ progress[n][m][1] >= Locations[n]
  /\ went' = [went EXCEPT ![n][m] = "given"]
  /\ Move(n, m, "tried")
  /\ UNCHANGED <<ledgerVars, at, progress, passed, legible, renewing, act, farVars>>

\* Not surely held, at the loop's head, at the edge, or as the first byte
\* would go: the pass stops.
Stop(n, m) ==
  /\ phase[n][m] \in {"head", "edge"}
  /\ ~Holds(n, m)
  /\ Move(n, m, "tried")
  /\ UNCHANGED <<ledgerVars, passVars, passed, legible, renewing, act, farVars>>

\* Not permitted (never again), its Publication not kept or the transport
\* failing before its first byte (retryable or not): a try, and no byte sent.
NotTaken(n, m) ==
  /\ phase[n][m] = "edge"
  /\ \E retryable \in BOOLEAN : NotSent(n, m, retryable)
  /\ UNCHANGED <<ledgerVars, at, passed, legible, renewing, act, farVars>>

\* Mutant: the claim is not asked about again as the first byte goes.
SendBeginsUnasked(n, m) ==
  /\ phase[n][m] = "edge"
  /\ begun' = [begun EXCEPT ![m] = token[n][m]]
  /\ Move(n, m, "sending")
  /\ UNCHANGED <<ledgerVars, passVars, passed, legible, renewing, act, delivered>>

\* The transport asks once more as the first byte goes.
SendBegins(n, m) ==
  /\ phase[n][m] = "edge"
  /\ Holds(n, m)
  /\ begun' = [begun EXCEPT ![m] = token[n][m]]
  /\ Move(n, m, "sending")
  /\ UNCHANGED <<ledgerVars, passVars, passed, legible, renewing, act, delivered>>

SendSucceeds(n, m) ==
  /\ phase[n][m] = "sending"
  /\ delivered' = delivered \cup {m}
  /\ progress' = [progress EXCEPT ![n][m] = <<@[1], @[2] + 1>>]
  /\ went' = [went EXCEPT ![n][m] = "sent"]
  /\ Move(n, m, "tried")
  /\ UNCHANGED <<ledgerVars, at, passed, legible, renewing, act, begun>>

\* The transport failed; the far end may have the Message all the same.
SendFails(n, m) ==
  /\ phase[n][m] = "sending"
  /\ \E retryable \in BOOLEAN : NotSent(n, m, retryable)
  /\ \E got \in SUBSET {m} : delivered' = delivered \cup got
  /\ UNCHANGED <<ledgerVars, at, passed, legible, renewing, act, begun>>

----------------------------------------------------------------------------
(* The hand-on and its settling.                                           *)

\* What the hand-on of a pass that came to `w' writes besides the state.
Completes(m) == place' = [place EXCEPT ![m] = 0] /\ UNCHANGED waits
Recovers(m) == waits' = [waits EXCEPT ![m] = TRUE] /\ UNCHANGED place
Fails == UNCHANGED <<place, waits>>

\* written(): one write, conditional on the claim.
Written(n, m, w) ==
  /\ \/ w = "sent"  /\ Completes(m) /\ HandOnTaken(n, m, token[n][m], "completed")
     \/ w = "given" /\ Fails /\ HandOnTaken(n, m, token[n][m], "failed")
     \/ w \in {"none", "waiting"} /\ Recovers(m) /\ HandOnTaken(n, m, token[n][m], "waiting")
  /\ attempts' = [attempts EXCEPT ![m] = progress[n][m]]

\* The pass has something to write: not lost, and a Location was tried.
Writes(n, m) ==
  /\ phase[n][m] = "tried"
  /\ ~lost[n][m]
  /\ went[n][m] # "none"

\* Taken; its answer may be lost, and the pass is settled either way.
HandOn(n, m) ==
  /\ Writes(n, m)
  /\ Written(n, m, went[n][m])
  /\ Ended(n, m)
  /\ UNCHANGED <<passed, legible, renewing, act, farVars>>

\* Refused, or unanswered and not taken: Lost or Unwritten, nothing released.
HandOnNot(n, m) ==
  /\ Writes(n, m)
  /\ Ended(n, m)
  /\ UNCHANGED <<ledgerVars, passed, legible, renewing, act, farVars>>

\* A renewal found the claim another's: nothing is written.
EndLost(n, m) ==
  /\ phase[n][m] = "tried"
  /\ lost[n][m]
  /\ Ended(n, m)
  /\ UNCHANGED <<ledgerVars, passed, legible, renewing, act, farVars>>

\* Nothing tried: nothing written, no try counted, the claim given back.
EndUntried(n, m) ==
  /\ phase[n][m] = "tried"
  /\ ~lost[n][m]
  /\ went[n][m] = "none"
  /\ Release(n, m, token[n][m])
  /\ Ended(n, m)
  /\ UNCHANGED <<journeyVars, passed, legible, renewing, act, farVars>>

\* abandoned: the send thread panicked, the Message written Failed, or, not
\* taken, its claim given back.
Panics(n, m) ==
  /\ phase[n][m] \in Passing
  /\ \/ Written(n, m, "given")
     \/ UNCHANGED journeyVars /\ Release(n, m, token[n][m])
  /\ Ended(n, m)
  /\ UNCHANGED <<passed, legible, renewing, act, farVars>>

Settle(n, m) ==
  /\ phase[n][m] = "settling"
  /\ LetGo(n, m)
  /\ UNCHANGED <<ledgerVars, passed, legible, renewing, act, farVars>>

----------------------------------------------------------------------------
(* Renewal, on a thread of its own: one request for every claim in flight. *)

InFlight(n) == {m \in Messages : phase[n][m] \in Owned /\ ~lost[n][m]}

RenewAsk(n) ==
  /\ renewing[n].stage = "none"
  /\ InFlight(n) # {}
  /\ renewing' = [renewing EXCEPT ![n] =
       [stage |-> "asked",
        flying |-> {<<m, token[n][m]>> : m \in InFlight(n)},
        held |-> {},
        till |-> 0]]
  /\ UNCHANGED <<ledgerVars, standingVars, passVars, passed, legible, act, farVars>>

\* Xmip Storage renews every claim that is still this node's; one lapsed and
\* not taken by another it may renew or not.
RenewTaken(n) ==
  /\ renewing[n].stage = "asked"
  /\ \E held \in SUBSET renewing[n].flying :
       /\ \A c \in renewing[n].flying :
            /\ c \in held => IsHolder(n, c[1], c[2])
            /\ IsHolder(n, c[1], c[2]) /\ left[c[1]] > 0 => c \in held
       /\ left' = [m \in Messages |->
            IF \E c \in held : c[1] = m THEN Lease ELSE left[m]]
       /\ \E rest \in 0 .. Lease :
            renewing' = [renewing EXCEPT ![n] =
              [stage |-> "answered", flying |-> renewing[n].flying,
               held |-> held, till |-> rest]]
  /\ UNCHANGED <<journeyVars, holder, fence, standingVars, passVars, passed, legible, act, farVars>>

\* Mutant: the lease is counted from the answer, not from when it was asked.
RenewedClaimFromAnswer(n, c) ==
  IF phase[n][c[1]] \in Owned /\ token[n][c[1]] = c[2] /\ c \in renewing[n].held
    THEN /\ till' = [till EXCEPT ![n][c[1]] = Lease]
         /\ UNCHANGED lost
    ELSE UNCHANGED <<till, lost>>

\* renewed(): what the answer says of one claim, if it is the one the Message
\* is still owned under; a later deadline known already is kept.
RenewedClaim(n, c) ==
  IF phase[n][c[1]] \in Owned /\ token[n][c[1]] = c[2]
    THEN IF c \in renewing[n].held
           THEN /\ till' = [till EXCEPT ![n][c[1]] =
                     IF @ < renewing[n].till THEN renewing[n].till ELSE @]
                /\ lost' = [lost EXCEPT ![n][c[1]] = FALSE]
           ELSE /\ lost' = [lost EXCEPT ![n][c[1]] = TRUE]
                /\ UNCHANGED till
    ELSE UNCHANGED <<till, lost>>

RenewAnswered(n) ==
  /\ renewing[n].stage = "answered"
  /\ \E c \in renewing[n].flying :
       /\ RenewedClaim(n, c)
       /\ renewing' = [renewing EXCEPT ![n] =
            IF renewing[n].flying = {c}
              THEN NoRenewal
              ELSE [stage |-> "answered", flying |-> renewing[n].flying \ {c},
                    held |-> renewing[n].held, till |-> renewing[n].till]]
  /\ UNCHANGED <<ledgerVars, phase, token, passVars, passed, legible, act, farVars>>

\* No answer, taken or not: every claim stands as it stood, unconfirmed.
RenewUnanswered(n) ==
  /\ renewing[n].stage # "none"
  /\ renewing' = [renewing EXCEPT ![n] = NoRenewal]
  /\ UNCHANGED <<ledgerVars, standingVars, passVars, passed, legible, act, farVars>>

----------------------------------------------------------------------------
(* An operator's Retry or Dismiss, taken by a node that sends the Port;    *)
(* bound: one act at a time on a Message at a node.                        *)

ActEnds(n, m) == act' = [act EXCEPT ![n][m] = NoAct]

\* The act goes on to stage s, under the claim with fence f.
ActAt(n, m, s, f) ==
  act' = [act EXCEPT ![n][m] =
    [stage |-> s, kind |-> act[n][m].kind, seen |-> act[n][m].seen, token |-> f]]

\* kept, taken_by: the Journey read, its Message failed.
ActReads(n, m, kind) ==
  /\ act[n][m] = NoAct
  /\ state[m] = "failed"
  /\ act' = [act EXCEPT ![n][m] =
       [stage |-> "read", kind |-> kind, seen |-> written[m], token |-> 0]]
  /\ UNCHANGED <<ledgerVars, standingVars, passVars, passed, legible, renewing, farVars>>

\* Claimed; where the answer is lost the act ends.
ActClaims(n, m) ==
  /\ act[n][m].stage = "read"
  /\ Grant(n, m)
  /\ \/ ActAt(n, m, "claimed", fence[m] + 1)
     \/ ActEnds(n, m)
  /\ UNCHANGED <<journeyVars, standingVars, passVars, passed, legible, renewing, farVars>>

\* REFUSED, claimed by another, or FAILED, Xmip Storage did not answer.
ActRefused(n, m) ==
  /\ act[n][m].stage = "read"
  /\ ActEnds(n, m)
  /\ UNCHANGED <<ledgerVars, standingVars, passVars, passed, legible, renewing, farVars>>

\* Mutant: what was read before the claim is acted on.
ActLooksNot(n, m) ==
  /\ act[n][m].stage = "claimed"
  /\ ActAt(n, m, "checked", act[n][m].token)
  /\ UNCHANGED <<ledgerVars, standingVars, passVars, passed, legible, renewing, farVars>>

\* unchanged: the Journey read again under the claim is what was seen.
ActLooks(n, m) ==
  /\ act[n][m].stage = "claimed"
  /\ written[m] = act[n][m].seen
  /\ ActAt(n, m, "checked", act[n][m].token)
  /\ UNCHANGED <<ledgerVars, standingVars, passVars, passed, legible, renewing, farVars>>

\* It is not, or was not read: refused, the claim given back.  Or the hand-on
\* was not taken: refused, or unanswered and the claim given back.
ActGivesBack(n, m) ==
  /\ act[n][m].stage \in {"claimed", "checked"}
  /\ Release(n, m, act[n][m].token)
  /\ ActEnds(n, m)
  /\ UNCHANGED <<journeyVars, standingVars, passVars, passed, legible, renewing, farVars>>

\* Mutant: a Retry never moves the Message.
RetriedInPlace(n, m) ==
  /\ HandOnTaken(n, m, act[n][m].token, "waiting")
  /\ attempts' = [attempts EXCEPT ![m] = <<0, 0>>]
  /\ UNCHANGED <<place, waits>>

\* The Retry's write: waiting again, its tries begun anew, at a new place
\* unless it blocks.
Retried(n, m) ==
  /\ HandOnTaken(n, m, act[n][m].token, "waiting")
  /\ attempts' = [attempts EXCEPT ![m] = <<0, 0>>]
  /\ place' = IF Blocks THEN place ELSE [place EXCEPT ![m] = @ + 1]
  /\ UNCHANGED waits

\* The Dismiss's write: ended, and out of the queue.
Dismissed(n, m) ==
  /\ HandOnTaken(n, m, act[n][m].token, "dismissed")
  /\ place' = [place EXCEPT ![m] = 0]
  /\ UNCHANGED <<attempts, waits>>

\* The hand-on taken; unanswered, the act ends without acted_on.
ActWrites(n, m) ==
  /\ act[n][m].stage = "checked"
  /\ \/ act[n][m].kind = "retry" /\ Retried(n, m)
     \/ act[n][m].kind = "dismiss" /\ Dismissed(n, m)
  /\ \/ ActAt(n, m, "written", act[n][m].token)
     \/ ActEnds(n, m)
  /\ UNCHANGED <<standingVars, passVars, passed, legible, renewing, farVars>>

\* acted_on: this node passes the Message over no longer.
ActedOn(n, m) ==
  /\ act[n][m].stage = "written"
  /\ passed' = [passed EXCEPT ![n] = {p \in @ : p[1] # m}]
  /\ ActEnds(n, m)
  /\ UNCHANGED <<ledgerVars, standingVars, passVars, legible, renewing, farVars>>

----------------------------------------------------------------------------
(* What happens to all of them.                                            *)

\* The node ends, whatever it was doing, and starts again knowing nothing, with
\* another configuration perhaps, which reads other mechanisms.
\* A send under way may still reach the far end.
Crash(n) ==
  /\ phase' = [phase EXCEPT ![n] = [m \in Messages |-> "idle"]]
  /\ token' = [token EXCEPT ![n] = [m \in Messages |-> 0]]
  /\ till' = [till EXCEPT ![n] = [m \in Messages |-> 0]]
  /\ lost' = [lost EXCEPT ![n] = [m \in Messages |-> FALSE]]
  /\ at' = [at EXCEPT ![n] = [m \in Messages |-> 0]]
  /\ progress' = [progress EXCEPT ![n] = [m \in Messages |-> <<0, 0>>]]
  /\ went' = [went EXCEPT ![n] = [m \in Messages |-> "none"]]
  /\ passed' = [passed EXCEPT ![n] = {}]
  /\ \E can \in SUBSET Messages : legible' = [legible EXCEPT ![n] = can]
  /\ renewing' = [renewing EXCEPT ![n] = NoRenewal]
  /\ act' = [act EXCEPT ![n] = [m \in Messages |-> NoAct]]
  /\ \E got \in SUBSET {m \in Messages : phase[n][m] = "sending"} :
       delivered' = delivered \cup got
  /\ UNCHANGED <<ledgerVars, begun>>

\* A retry's due time comes.
DueComes(m) ==
  /\ waits[m]
  /\ waits' = [waits EXCEPT ![m] = FALSE]
  /\ UNCHANGED <<state, place, attempts, written, claimVars, nodeVars, farVars>>

Less(t) == IF t > 0 THEN t - 1 ELSE 0

Tick ==
  /\ left' = [m \in Messages |-> Less(left[m])]
  /\ till' = [n \in Nodes |-> [m \in Messages |-> Less(till[n][m])]]
  /\ renewing' = [n \in Nodes |->
       [stage |-> renewing[n].stage, flying |-> renewing[n].flying,
        held |-> renewing[n].held, till |-> Less(renewing[n].till)]]
  /\ UNCHANGED <<journeyVars, holder, fence, phase, token, lost, passVars, passed, legible, act, farVars>>

----------------------------------------------------------------------------
Init ==
  /\ state = [m \in Messages |-> "unborn"]
  /\ place = [m \in Messages |-> 0]
  /\ waits = [m \in Messages |-> FALSE]
  /\ attempts = [m \in Messages |-> <<0, 0>>]
  /\ written = [m \in Messages |-> 0]
  /\ holder = [m \in Messages |-> NoNode]
  /\ fence = [m \in Messages |-> 0]
  /\ left = [m \in Messages |-> 0]
  /\ phase = [n \in Nodes |-> [m \in Messages |-> "idle"]]
  /\ at = [n \in Nodes |-> [m \in Messages |-> 0]]
  /\ token = [n \in Nodes |-> [m \in Messages |-> 0]]
  /\ till = [n \in Nodes |-> [m \in Messages |-> 0]]
  /\ lost = [n \in Nodes |-> [m \in Messages |-> FALSE]]
  /\ progress = [n \in Nodes |-> [m \in Messages |-> <<0, 0>>]]
  /\ went = [n \in Nodes |-> [m \in Messages |-> "none"]]
  /\ passed = [n \in Nodes |-> {}]
  /\ legible \in [Nodes -> SUBSET Messages]
  /\ renewing = [n \in Nodes |-> NoRenewal]
  /\ act = [n \in Nodes |-> [m \in Messages |-> NoAct]]
  /\ begun = [m \in Messages |-> 0]
  /\ delivered = {}

TakeUp(n, m) ==
  \/ PublishWrite(n, m) \/ PublishAnswered(n, m) \/ PublishUnconfirmed(n, m)
  \/ Found(n, m) \/ ClaimGranted(n, m)
  \/ ClaimRefused(n, m) \/ ClaimUnanswered(n, m)
  \/ UnderPlaced(n, m) \/ UnderNot(n, m) \/ UnderWaiting(n, m)
  \/ UnderNotToSend(n, m) \/ PassOver(n, m)

Pass(n, m) ==
  \/ Behind(n, m) \/ TryLocation(n, m) \/ NoLocation(n, m) \/ Stop(n, m)
  \/ NotTaken(n, m) \/ SendBegins(n, m) \/ SendSucceeds(n, m) \/ SendFails(n, m)
  \/ HandOn(n, m) \/ HandOnNot(n, m) \/ EndLost(n, m) \/ EndUntried(n, m)
  \/ Panics(n, m) \/ Settle(n, m)

Renew(n) == RenewAsk(n) \/ RenewTaken(n) \/ RenewAnswered(n) \/ RenewUnanswered(n)

Act(n, m) ==
  \/ \E kind \in {"retry", "dismiss"} : ActReads(n, m, kind)
  \/ ActClaims(n, m) \/ ActRefused(n, m) \/ ActLooks(n, m)
  \/ ActGivesBack(n, m) \/ ActWrites(n, m) \/ ActedOn(n, m)

Next ==
  \/ \E n \in Nodes, m \in Messages : TakeUp(n, m) \/ Pass(n, m) \/ Act(n, m)
  \/ \E n \in Nodes : ReadWhole(n) \/ Renew(n) \/ Crash(n)
  \/ \E m \in Messages : PublishUnclaimed(m) \/ DueComes(m)
  \/ Tick

Spec == Init /\ [][Next]_vars

----------------------------------------------------------------------------
(* What must hold.                                                         *)

Renewals ==
  [stage : {"none", "asked", "answered"},
   flying : SUBSET (Messages \X Nat),
   held : SUBSET (Messages \X Nat),
   till : 0 .. Lease]

Acts ==
  [stage : {"none", "read", "claimed", "checked", "written"},
   kind : {"retry", "dismiss"},
   seen : Nat,
   token : Nat]

\* Every variable has its type; no node counts on more than a lease.
TypeOK ==
  /\ state \in [Messages -> States]
  /\ place \in [Messages -> Nat]
  /\ waits \in [Messages -> BOOLEAN]
  /\ attempts \in [Messages -> Nat \X Nat]
  /\ written \in [Messages -> Nat]
  /\ holder \in [Messages -> Nodes \cup {NoNode}]
  /\ fence \in [Messages -> 0 .. MaxFence]
  /\ left \in [Messages -> 0 .. Lease]
  /\ phase \in [Nodes -> [Messages -> Phases]]
  /\ at \in [Nodes -> [Messages -> Nat]]
  /\ token \in [Nodes -> [Messages -> Nat]]
  /\ till \in [Nodes -> [Messages -> 0 .. Lease]]
  /\ lost \in [Nodes -> [Messages -> BOOLEAN]]
  /\ progress \in [Nodes -> [Messages -> Nat \X Nat]]
  /\ went \in [Nodes -> [Messages -> Outcomes]]
  /\ passed \in [Nodes -> SUBSET (Messages \X Nat)]
  /\ legible \in [Nodes -> SUBSET Messages]
  /\ renewing \in [Nodes -> Renewals]
  /\ act \in [Nodes -> [Messages -> Acts]]
  /\ begun \in [Messages -> Nat]
  /\ delivered \in SUBSET Messages

\* A Message a node believes surely its own to send - SendStep::holds on its
\* own clock, whatever renewals are late, lost or for an earlier claim - is
\* claimed by it in Xmip Storage, under that very claim, for at least as long:
\* so no two nodes ever believe it at once.
HoldsSound ==
  \A n \in Nodes, m \in Messages :
    phase[n][m] \in Passing /\ Holds(n, m) =>
      IsHolder(n, m, token[n][m]) /\ left[m] >= till[n][m]

\* What a node surely holds is still to be sent, due, and at the place it was
\* read at: another pass's or operator's write since the scan's page was read
\* is never sent over (under_claim.rs).
SendsOnlyWhatWaits ==
  \A n \in Nodes, m \in Messages :
    phase[n][m] \in Passing /\ Holds(n, m) =>
      state[m] = "waiting" /\ place[m] = at[n][m] /\ ~waits[m]

\* A send that begins later carries no lower fence: the far end can refuse
\* the holder of a lapsed claim (departure.rs, fenced).
FencesRise == [][\A m \in Messages : begun'[m] >= begun[m]]_vars

Earlier(a, b) == a[1] < b[1] \/ (a[1] = b[1] /\ a[2] < b[2])

\* Tries are counted across passes, restarts and nodes, and only an operator's
\* Retry begins them anew: no late pass writes back an earlier count.
AttemptsForward ==
  [][\A m \in Messages :
       attempts'[m] = attempts[m] \/ Earlier(attempts[m], attempts'[m])
         \/ (state[m] = "failed" /\ state'[m] = "waiting")]_vars

\* A Message to be sent is in its queue at a place passed over by no node that can
\* read it: any such node alone can take it up, whoever failed it, could not read
\* it or acted on it before.
Takeable ==
  \A m \in Messages :
    state[m] = "waiting" =>
      /\ place[m] # 0
      /\ \A n \in Nodes : m \in legible[n] => <<m, place[m]>> \notin passed[n]

----------------------------------------------------------------------------
(* The strengthening that makes them inductive.                            *)

\* Nothing works on a Message that is not published, and it waits for nothing.
BornInv ==
  /\ \A n \in Nodes, m \in Messages :
       state[m] = "unborn" => phase[n][m] = "idle" /\ act[n][m].stage = "none"
  /\ \A m \in Messages : state[m] = "unborn" => ~waits[m]

\* Every fence anyone remembers was given out.
FenceInv ==
  /\ \A n \in Nodes, m \in Messages :
       token[n][m] <= fence[m] /\ act[n][m].token <= fence[m]
  /\ \A n \in Nodes : \A c \in renewing[n].flying \cup renewing[n].held : c[2] <= fence[c[1]]
  /\ \A m \in Messages : begun[m] <= fence[m]

\* A pass and an operator's act at one node never share a claim.
ApartInv ==
  \A n \in Nodes, m \in Messages :
    phase[n][m] \in Claiming /\ act[n][m].stage \in {"claimed", "checked"} =>
      token[n][m] # act[n][m].token

\* A node's count of its lease never runs past Xmip Storage's.
LeaseInv ==
  \A n \in Nodes, m \in Messages :
    phase[n][m] \in Claiming /\ till[n][m] > 0 =>
      IsHolder(n, m, token[n][m]) /\ left[m] >= till[n][m]

\* Nor does an answer to a renewal that is still to be applied.
RenewInv ==
  \A n \in Nodes : \A c \in renewing[n].held :
    phase[n][c[1]] \in Claiming /\ token[n][c[1]] = c[2] /\ renewing[n].till > 0 =>
      IsHolder(n, c[1], c[2]) /\ left[c[1]] >= renewing[n].till

\* What was read under a claim holds as long as the claim is not another's,
\* lapsed or not.
ReadInv ==
  \A n \in Nodes, m \in Messages :
    IsHolder(n, m, token[n][m]) =>
      /\ phase[n][m] \in {"placed"} \cup Passing => place[m] = at[n][m] /\ ~waits[m]
      /\ phase[n][m] = "published" => place[m] = 1 /\ ~waits[m]
      /\ phase[n][m] \in {"published"} \cup Passing => state[m] = "waiting"

HeldInv == FenceInv /\ ApartInv /\ LeaseInv /\ RenewInv /\ ReadInv

ClaimInv == BornInv /\ HeldInv

\* What a pass says was sent is at its far end.
SentInv == \A n \in Nodes, m \in Messages : went[n][m] = "sent" => m \in delivered

\* The last write of a Journey is under a claim that ended with it, so every write
\* is told from the one before.
WrittenInv ==
  \A m \in Messages :
    /\ written[m] <= fence[m]
    /\ holder[m] # NoNode => written[m] < fence[m]

\* What an operator's act read, it acts on: while the Journey is as it was seen it
\* is failed, and looked at under the claim it stays so as long as the claim does.
SeenInv ==
  \A n \in Nodes, m \in Messages :
    /\ act[n][m].stage \in {"read", "claimed", "checked"} =>
         act[n][m].seen <= written[m] /\ (written[m] = act[n][m].seen => state[m] = "failed")
    /\ act[n][m].stage = "checked" /\ IsHolder(n, m, act[n][m].token) =>
         written[m] = act[n][m].seen

LifeInv == SentInv /\ WrittenInv /\ SeenInv

\* A pass counts on from what its Journey keeps, as long as the claim is its own.
CountInv ==
  /\ \A m \in Messages : state[m] = "unborn" => attempts[m] = <<0, 0>>
  /\ \A n \in Nodes, m \in Messages :
       IsHolder(n, m, token[n][m]) =>
         /\ phase[n][m] = "published" => attempts[m] = <<0, 0>>
         /\ phase[n][m] \in Passing =>
              progress[n][m] = attempts[m] \/ Earlier(attempts[m], progress[n][m])

HasEnded(s) == s \in {"completed", "dismissed"}

\* A place p before the one, q, of a Message in state s, or where it failed: none it
\* waits at.
Past(s, q, p) == HasEnded(s) \/ p < q \/ (p = q /\ s = "failed")

\* Where a Retry moves its Message: what a node passes over, or is about to, is a
\* place no Message it can read waits at.
PlaceInv ==
  /\ \A m \in Messages : /\ state[m] \in {"waiting", "failed"} => place[m] # 0
                         /\ state[m] = "unborn" => place[m] = 0
  /\ \A n \in Nodes, m \in Messages :
       /\ phase[n][m] \in {"found", "claimed", "placed"} => HasEnded(state[m]) \/ at[n][m] <= place[m]
       /\ phase[n][m] = "passing" => m \notin legible[n] \/ Past(state[m], place[m], at[n][m])
  /\ \A n \in Nodes : \A x \in passed[n] :
       x[1] \notin legible[n] \/ Past(state[x[1]], place[x[1]], x[2])

----------------------------------------------------------------------------
Life == INSTANCE MessageLife WITH life <- state

\* The send step of any number of nodes keeps what MessageLife promises.
LifeSpec == Life!Spec
=============================================================================
