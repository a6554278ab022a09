------------------------------ MODULE Vouching -------------------------------
(***************************************************************************)
(* A web host that relays for its browsers' callers: the sessions of its   *)
(* secure listener, the callers it holds by handles, the nonces it keeps   *)
(* of each node it follows, and what each node issues, vouches for and     *)
(* lets go.  (secured.rs, secure_listener.rs, plane/held.rs, vouched.rs,   *)
(* fresh.rs, possessed.rs, remote/fresh.rs, remote/relayed.rs, served.rs.) *)
(*                                                                         *)
(* Each session is of a browser of its own.  A handshake is what it proves *)
(* and which nonces it is bound to; a certificate is whether it has ended; *)
(* a number drawn at random is one never drawn before.  Calls to a node    *)
(* are one exchange each, whose answer may be lost.                        *)
(***************************************************************************)
EXTENDS Integers, FiniteSets

CONSTANTS
  Sessions,     \* connections of browsers to the host's secure listener
  Surfaces,     \* what the host follows its nodes through
  Nodes,
  NodeOf,       \* the node at each surface's end
  Through,      \* the account each surface's connection is proven as
  Holding,      \* the role the host says each session's caller holds
  Stated,       \* the role a node's operate listener states of its callers
  Most,         \* callers held at once, on either side
  MaxDrawn,     \* bound: the nonces issued, and the handles drawn before a holder takes one
  MaxMishaps     \* bound: answers lost and nodes started again

ASSUME SurfacesAssumption == NodeOf \in [Surfaces -> Nodes] /\ IsFiniteSet(Sessions)
\* Role: least first, each with what the one before it may.
Role == 0 .. 2
Observer == 0
Operator == 1

ASSUME RolesAssumption == Holding \in [Sessions -> Role] /\ Stated \in [Nodes -> Role]
ASSUME VouchBoundsAssumption == Most \in Nat /\ MaxDrawn \in Nat /\ MaxMishaps \in Nat

Unset == 0

VARIABLES
  pool,       \* the nonces kept of each surface's node
  left,       \* surfaces whose node is left a while: it gave none
  issued,     \* each node's nonces not spent yet, and whose
  vouched,    \* each node's callers, by its handles
  session,    \* where each session is
  bound,      \* the nonces its handshake is bound to
  own,        \* the session's own handle
  held,       \* the host's handles and the sessions' callers they hold
  vouches,    \* the node's handle kept on the caller's proof, by surface
  asked,      \* how often the node at a surface was handed the handshake
  again,      \* the session whose caller a holder is taking again
  act,        \* an act on its way
  did,        \* acts taken: by the caller of which session, as which
  revoked, stopped,
  expired,      \* sessions whose browser's certificate has ended
  nonces, handles, mishaps

nodeVars == <<issued, vouched>>
poolVars == <<pool, left>>
heldVars == <<session, own, held, again, revoked, stopped>>
proofVars == <<bound, vouches, asked>>
actVars == <<act, did>>
bounds == <<nonces, handles, mishaps>>
vouchVars == <<nodeVars, poolVars, heldVars, proofVars, actVars, expired, bounds>>

Unbound == [f \in Surfaces |-> Unset]
NotAsked == [f \in Surfaces |-> "not"]
NoAct == [is |-> "none", of |-> Unset, at |-> Unset, handle |-> Unset]

----------------------------------------------------------------------------
(* Nonces: issued by a node, kept by the host, bound into a handshake.     *)

\* Fresh::issue: to the account that asked.
Issue(f) == [nonce |-> nonces + 1, through |-> Through[f]]

\* Nonces, refill: one that is never answered is issued all the
\* same, and a node that gave none is left for a while.
Refill(f) ==
  /\ pool[f] = {} /\ f \notin left /\ nonces < MaxDrawn
  /\ \/ /\ nonces' = nonces + 1
        /\ issued' = [issued EXCEPT ![NodeOf[f]] = @ \cup {Issue(f)}]
        /\ pool' = [pool EXCEPT ![f] = @ \cup {nonces + 1}]
        /\ UNCHANGED <<left, mishaps>>
     \/ /\ mishaps < MaxMishaps /\ mishaps' = mishaps + 1
        /\ left' = left \cup {f}
        /\ UNCHANGED <<nonces, issued, pool>>
  /\ UNCHANGED <<vouched, heldVars, proofVars, actVars, expired, handles>>

LeftLongEnough(f) ==
  /\ f \in left
  /\ left' = left \ {f}
  /\ UNCHANGED <<nodeVars, pool, heldVars, proofVars, actVars, expired, bounds>>

\* A nonce no longer kept by the host, or no longer fresh at its node.
Ages(f) ==
  /\ pool[f] # {}
  /\ pool' = [pool EXCEPT ![f] = {}]
  /\ UNCHANGED <<nodeVars, left, heldVars, proofVars, actVars, expired, bounds>>

Stales(n) ==
  /\ issued[n] # {}
  /\ issued' = [issued EXCEPT ![n] = {}]
  /\ UNCHANGED <<vouched, poolVars, heldVars, proofVars, actVars, expired, bounds>>

\* accept_all and bound: a nonce of every surface that has one.
Bind(s) ==
  /\ session[s] = "none" /\ ~stopped
  /\ \E taken \in [Surfaces -> 0 .. nonces] :
       /\ \A f \in Surfaces :
            IF f \in left \/ pool[f] = {} THEN taken[f] = Unset ELSE taken[f] \in pool[f]
       /\ bound' = [bound EXCEPT ![s] = taken]
       /\ pool' = [f \in Surfaces |-> pool[f] \ {taken[f]}]
  /\ session' = [session EXCEPT ![s] = "bound"]
  /\ UNCHANGED <<nodeVars, left, own, held, again, revoked, stopped, vouches, asked, actVars,
                 expired, bounds>>

----------------------------------------------------------------------------
(* The callers the host holds.                                             *)

\* Mutant: the smallest number not taken.
DrawnSmallest(taken) == CHOOSE h \in 1 .. MaxDrawn + 1 :
  h \notin taken /\ \A k \in 1 .. h - 1 : k \in taken

\* drawn: from the operating system's random source.
Drawn(taken) == handles + 1

Full(callers) == Cardinality(callers) >= Most

\* Mutant: whether its prover was revoked is asked where the caller is looked up.
HeldAgainUnasked(s) ==
  LET live == {h \in held : h.of \notin expired}
      kept == IF Full(held) THEN live ELSE held
  IN IF s \in expired \/ Full(kept)
       THEN held' = held /\ handles' = handles
       ELSE /\ held' = kept \cup {[handle |-> handles + 1, of |-> s]}
            /\ handles' = handles + 1

\* held_again: one more holder, where its prover is not revoked and there is
\* room, which the expired make.
HeldAgain(s) ==
  LET live == {h \in held : h.of \notin expired}
      kept == IF Full(held) THEN live ELSE held
  IN IF s \in expired \/ revoked \/ Full(kept)
       THEN /\ held' = IF s \in expired \/ revoked THEN held ELSE kept
            /\ handles' = handles
       ELSE /\ held' = kept \cup {[handle |-> handles + 1, of |-> s]}
            /\ handles' = handles + 1

\* proven: the handshake finished, its certificate through the gate, its caller
\* held; a browser that presents none, or is refused, is no one.
Handshake(s) ==
  /\ session[s] = "bound"
  /\ \/ /\ session' = [session EXCEPT ![s] = "ended"]
        /\ UNCHANGED <<held, own, handles>>
     \/ /\ session' = [session EXCEPT ![s] = "finished"]
        /\ UNCHANGED <<held, own, handles>>
     \/ /\ HeldAgain(s)
        /\ own' = [own EXCEPT ![s] = IF handles' > handles THEN handles' ELSE Unset]
        /\ session' = [session EXCEPT ![s] =
             IF handles' > handles THEN "held" ELSE "finished"]
  /\ UNCHANGED <<nodeVars, poolVars, again, revoked, stopped, proofVars, actVars, expired, nonces,
                 mishaps>>

Holds(h) == \E x \in held : x.handle = h /\ x.of \notin expired

\* held::proof: looked up again, to hand it to the nodes it is bound to.
Proof(s) ==
  /\ session[s] = "held"
  /\ session' = [session EXCEPT ![s] =
       IF Holds(own[s]) /\ \E f \in Surfaces : bound[s][f] # Unset
         THEN "vouching" ELSE "finished"]
  /\ UNCHANGED <<nodeVars, poolVars, own, held, again, revoked, stopped, proofVars, actVars, expired,
                 bounds>>

\* The session's own hold on its caller let go.
Freed(s) ==
  /\ session' = [session EXCEPT ![s] = "ended"]
  /\ held' = {x \in held : x.handle # own[s]}
  /\ own' = [own EXCEPT ![s] = Unset]

\* accept; a session left in a stopped listener's queue is dropped, and one whose
\* socket fails released.
Accept(s) ==
  /\ session[s] = "finished"
  /\ \/ ~stopped /\ session' = [session EXCEPT ![s] = "served"] /\ UNCHANGED <<held, own>>
     \/ Freed(s)
  /\ UNCHANGED <<nodeVars, poolVars, again, revoked, stopped, proofVars, actVars, expired,
                 bounds>>

\* xmip_session_free_v1.
Free(s) ==
  /\ session[s] = "served"
  /\ Freed(s)
  /\ UNCHANGED <<nodeVars, poolVars, again, revoked, stopped, proofVars, actVars, expired,
                 bounds>>

\* again: the caller looked up, then held once more, two holdings of the lock.
Finds(s) ==
  /\ again = Unset /\ session[s] = "served" /\ Holds(own[s]) /\ handles < MaxDrawn
  /\ again' = s
  /\ UNCHANGED <<nodeVars, poolVars, session, own, held, revoked, stopped, proofVars, actVars,
                 expired, bounds>>

Again ==
  /\ again # Unset
  /\ HeldAgain(again)
  /\ again' = Unset
  /\ UNCHANGED <<nodeVars, poolVars, session, own, revoked, stopped, proofVars, actVars, expired,
                 nonces, mishaps>>

\* release, by a holder that took a handle of its own.
Release ==
  /\ \E x \in held : x.handle # own[x.of] /\ held' = held \ {x}
  /\ UNCHANGED <<nodeVars, poolVars, session, own, again, revoked, stopped, proofVars, actVars,
                 expired, bounds>>

\* stop: first every caller it proved is revoked, then nothing accepted.
Revoke ==
  /\ ~revoked
  /\ revoked' = TRUE
  /\ held' = {}
  /\ UNCHANGED <<nodeVars, poolVars, session, own, again, stopped, proofVars, actVars, expired,
                 bounds>>

ListenerStops ==
  /\ revoked /\ ~stopped
  /\ stopped' = TRUE
  /\ UNCHANGED <<nodeVars, poolVars, session, own, held, again, revoked, proofVars, actVars, expired,
                 bounds>>

CertificateEnds(s) ==
  /\ s \notin expired
  /\ expired' = expired \cup {s}
  /\ UNCHANGED <<nodeVars, poolVars, heldVars, proofVars, actVars, bounds>>

----------------------------------------------------------------------------
(* Vouching, and what a node does for a caller vouched for.                *)

Handed(s) == {bound[s][f] : f \in Surfaces} \ {Unset}

\* Mutant: a nonce stays fresh until its time is up.
SpentNot(n, s) == issued[n]

\* Fresh::spend: every nonce of the list is spent, used or not.
Spent(n, s) == {x \in issued[n] : x.nonce \notin Handed(s)}

\* possessed and vouch: a fresh nonce of the node's issued to this very account
\* in the handshake, a certificate that has not ended, and room.
Vouchable(n, s, t) ==
  /\ \E x \in issued[n] : x.nonce \in Handed(s) /\ x.through = t
  /\ s \notin expired
  /\ Cardinality({v \in vouched[n] : v.of \notin expired}) < Most

\* Mutant: a handle answered once the caller is no longer held is not kept.
KeptWhileHeld(s, f, h) ==
  vouches' = IF Holds(own[s]) THEN [vouches EXCEPT ![s][f] = h] ELSE vouches

\* Proof::vouched.
Kept(s, f, h) == vouches' = [vouches EXCEPT ![s][f] = h]

\* vouched_by: the handshake handed to the node at one of the surfaces it was
\* bound through; where its answer is lost with a line that was held, once more.
Vouch(s, f) ==
  /\ session[s] = "vouching" /\ bound[s][f] # Unset /\ asked[s][f] # "done"
  /\ LET n == NodeOf[f]
         h == Drawn({v.handle : v \in vouched[n]})
         good == Vouchable(n, s, Through[f])
     IN /\ issued' = [issued EXCEPT ![n] = Spent(n, s)]
        /\ IF good
             THEN /\ vouched' = [vouched EXCEPT ![n] =
                       (IF Cardinality(@) >= Most THEN {v \in @ : v.of \notin expired} ELSE @)
                       \cup {[handle |-> h, of |-> s, through |-> Through[f]]}]
                  /\ handles' = handles + 1
             ELSE UNCHANGED <<vouched, handles>>
        /\ \/ /\ asked' = [asked EXCEPT ![s][f] = "done"]
              /\ IF good THEN Kept(s, f, h) ELSE UNCHANGED vouches
              /\ UNCHANGED mishaps
           \/ /\ mishaps < MaxMishaps /\ mishaps' = mishaps + 1
              /\ asked' = [asked EXCEPT ![s][f] = IF @ = "not" THEN "lost" ELSE "done"]
              /\ UNCHANGED vouches
  /\ UNCHANGED <<poolVars, heldVars, bound, actVars, expired, nonces>>

\* A node that does not answer in time refused it, as far as the host knows.
VouchUnanswered(s, f) ==
  /\ session[s] = "vouching" /\ bound[s][f] # Unset /\ asked[s][f] # "done"
  /\ asked' = [asked EXCEPT ![s][f] = "done"]
  /\ UNCHANGED <<nodeVars, poolVars, heldVars, bound, vouches, actVars, expired, bounds>>

\* vouched_everywhere: finished once every node has answered.
Vouched(s) ==
  /\ session[s] = "vouching"
  /\ \A f \in Surfaces : bound[s][f] = Unset \/ asked[s][f] = "done"
  /\ session' = [session EXCEPT ![s] = "finished"]
  /\ bound' = [bound EXCEPT ![s] = Unbound]
  /\ asked' = [asked EXCEPT ![s] = NotAsked]
  /\ UNCHANGED <<nodeVars, poolVars, own, held, again, revoked, stopped, vouches, actVars, expired,
                 bounds>>

\* RULES: the least role each method is answered to.
Rules == [Publication |-> Observer, Wait |-> Observer, Secrets |-> Operator,
          Act |-> Operator, SetSecret |-> Operator]

\* Mutant: a caller that is someone may.
AdmittedKnown(who, role, method) == who # {}

\* role::admitted: a caller that was proven, whose role the method is answered to.
Admitted(who, role, method) == who # {} /\ role >= Rules[method]

\* act_admitted: asked by the handle alone.
ActAdmitted(h, role) ==
  Admitted({x.of : x \in {x \in held : x.handle = h /\ x.of \notin expired}}, role, "Act")

\* A screen's act, gated on the host before it is asked of a node.
Gate ==
  /\ act = NoAct
  /\ \E x \in held, f \in Surfaces :
       /\ ActAdmitted(x.handle, Holding[x.of])
       /\ act' = [is |-> "gated", of |-> x.of, at |-> f, handle |-> x.handle]
  /\ UNCHANGED <<nodeVars, poolVars, heldVars, proofVars, did, expired, bounds>>

\* The call as it crosses: the caller named by the node's own handle for it.
Request(s, f) == [is |-> "asked", of |-> s, at |-> f, handle |-> vouches[s][f]]

\* relayed: the handle looked up once more, and what the node at the surface's
\* end answered for its caller; no one is asked for no one.
Act ==
  /\ act.is = "gated"
  /\ act' = IF Holds(act.handle) /\ vouches[act.of][act.at] # Unset
              THEN Request(act.of, act.at) ELSE NoAct
  /\ UNCHANGED <<nodeVars, poolVars, heldVars, proofVars, did, expired, bounds>>

\* vouched::proven: the caller the node's handle holds, for the very account it
\* was issued to; no one otherwise.
Proven(n, h, t) ==
  {v.of : v \in {v \in vouched[n] : v.handle = h /\ v.through = t /\ v.of \notin expired}}

\* called: decided by who the node's handle proves and the role stated, before
\* the call is read; the act is the caller's, never the relay's.
Acted ==
  /\ act.is = "asked"
  /\ LET n == NodeOf[act.at]
         who == Proven(n, act.handle, Through[act.at])
     IN did' = IF Admitted(who, Stated[n], "Act")
                 THEN did \cup {<<act.of, w>> : w \in who} ELSE did
  /\ act' = NoAct
  /\ UNCHANGED <<nodeVars, poolVars, heldVars, proofVars, expired, bounds>>

\* Who still has a caller's proof: a holder, its handshake's thread, one taking it
\* again, an act on its way.
Referred(s) ==
  \/ \E x \in held : x.of = s
  \/ session[s] = "vouching" \/ again = s \/ (act.is = "asked" /\ act.of = s)

\* vouched::unvouch.
Unvouched(callers, h, t) == {v \in callers : v.handle # h \/ v.through # t}

\* Proof's drop: the last holder lets the caller go, and each node is told.
Unvouch(s, f) ==
  /\ vouches[s][f] # Unset /\ ~Referred(s)
  /\ vouches' = [vouches EXCEPT ![s][f] = Unset]
  /\ \/ /\ vouched' = [vouched EXCEPT ![NodeOf[f]] = Unvouched(@, vouches[s][f], Through[f])]
        /\ UNCHANGED mishaps
     \/ mishaps < MaxMishaps /\ mishaps' = mishaps + 1 /\ UNCHANGED vouched
  /\ UNCHANGED <<issued, poolVars, heldVars, bound, asked, actVars, expired, nonces, handles>>

\* A node started again holds nothing of before.
NodeRestarts(n) ==
  /\ mishaps < MaxMishaps /\ mishaps' = mishaps + 1
  /\ issued' = [issued EXCEPT ![n] = {}]
  /\ vouched' = [vouched EXCEPT ![n] = {}]
  /\ UNCHANGED <<poolVars, heldVars, proofVars, actVars, expired, nonces, handles>>

----------------------------------------------------------------------------

VouchInit ==
  /\ pool = [f \in Surfaces |-> {}] /\ left = {}
  /\ issued = [n \in Nodes |-> {}] /\ vouched = [n \in Nodes |-> {}]
  /\ session = [s \in Sessions |-> "none"]
  /\ own = [s \in Sessions |-> Unset] /\ held = {} /\ again = Unset
  /\ bound = [s \in Sessions |-> Unbound]
  /\ vouches = [s \in Sessions |-> Unbound]
  /\ asked = [s \in Sessions |-> NotAsked]
  /\ act = NoAct /\ did = {}
  /\ revoked = FALSE /\ stopped = FALSE /\ expired = {}
  /\ nonces = 0 /\ handles = 0 /\ mishaps = 0

HandsOver(s) == Handshake(s) \/ Proof(s) \/ Vouched(s) \/ Accept(s)

VouchEnds(s, f) == Vouch(s, f) \/ VouchUnanswered(s, f)

VouchNext ==
  \/ \E f \in Surfaces : Refill(f) \/ LeftLongEnough(f) \/ Ages(f)
  \/ \E n \in Nodes : Stales(n) \/ NodeRestarts(n)
  \/ \E s \in Sessions : Bind(s) \/ HandsOver(s) \/ Free(s) \/ Finds(s) \/ CertificateEnds(s)
  \/ \E s \in Sessions, f \in Surfaces : VouchEnds(s, f) \/ Unvouch(s, f)
  \/ Again \/ Release \/ Revoke \/ ListenerStops \/ Gate \/ Act \/ Acted

VouchSpec == VouchInit /\ [][VouchNext]_vouchVars

\* Handshakes, calls and threads end in time; a stop goes on.  Nothing is assumed
\* of browsers, holders or whoever stops the listener.
VouchFairness ==
  /\ \A s \in Sessions : WF_vouchVars(HandsOver(s))
  /\ \A s \in Sessions, f \in Surfaces : WF_vouchVars(VouchEnds(s, f)) /\ WF_vouchVars(Unvouch(s, f))
  /\ WF_vouchVars(Again) /\ WF_vouchVars(Act) /\ WF_vouchVars(Acted) /\ WF_vouchVars(ListenerStops)

VouchFairSpec == VouchSpec /\ VouchFairness

----------------------------------------------------------------------------
(* What must hold.                                                         *)

Accounts == {Through[f] : f \in Surfaces}
Nonces == [nonce : 1 .. nonces, through : Accounts]
Callers == [handle : 1 .. handles, of : Sessions, through : Accounts]
Holders == [handle : 1 .. handles, of : Sessions]
Acts == [is : {"gated", "asked"}, of : Sessions, at : Surfaces, handle : 1 .. handles]

\* Every variable keeps its type, and every number drawn is one that was.
VouchTypeOK ==
  /\ nonces \in Nat /\ handles \in Nat /\ mishaps \in Nat
  /\ pool \in [Surfaces -> SUBSET (1 .. nonces)] /\ left \subseteq Surfaces
  /\ issued \in [Nodes -> SUBSET Nonces]
  /\ vouched \in [Nodes -> SUBSET Callers]
  /\ session \in [Sessions ->
       {"none", "bound", "held", "vouching", "finished", "served", "ended"}]
  /\ bound \in [Sessions -> [Surfaces -> 0 .. nonces]]
  /\ own \in [Sessions -> 0 .. handles]
  /\ held \subseteq Holders
  /\ vouches \in [Sessions -> [Surfaces -> 0 .. handles]]
  /\ asked \in [Sessions -> [Surfaces -> {"not", "lost", "done"}]]
  /\ again \in Sessions \cup {Unset}
  /\ act \in {NoAct} \cup Acts
  /\ did \subseteq Sessions \X Sessions
  /\ revoked \in BOOLEAN /\ stopped \in BOOLEAN /\ expired \subseteq Sessions

\* Neither the host nor a node holds more callers than it may (held.rs,
\* vouched.rs, the most callers at once).
WithinMost ==
  /\ Cardinality(held) <= Most
  /\ \A n \in Nodes : Cardinality(vouched[n]) <= Most

\* A listener that stops proves no one after: no handle holds a caller of its
\* sessions, whatever handshake was being finished or holder taking one again.
RevokedHeldByNone == revoked => held = {}

\* One handshake is one caller at a node, however often it is handed over.
VouchedOnce ==
  \A n \in Nodes : \A v, w \in vouched[n] :
    v.of = w.of /\ v.through = w.through => v = w

\* An act asked for a caller is taken as that caller or refused, a node started
\* again and handles let go meanwhile included; and no caller acts whose role on
\* its host only watches.
ActsAsItself ==
  \A d \in did : d[1] = d[2] /\ Holding[d[1]] >= Operator

\* A listener that stops leaves no caller at a node, each told as its last holder
\* lets go, where no answer was lost.
LetGo == revoked ~> (mishaps > 0 \/ \A n \in Nodes : vouched[n] = {})

\* A caller is vouched for as itself, and once (relayed.rs, fresh.rs).
AsItself == VouchedOnce /\ ActsAsItself
==============================================================================
