----------------------------- MODULE MessageLife -----------------------------
(***************************************************************************)
(* What the send step promises of every Message bound for a Send Port, no  *)
(* matter how many nodes send the Port, crash or lose their claims: it is  *)
(* published once, it waits until it is completed or failed, it is said    *)
(* completed only when its far end has it, a failed one waits for an       *)
(* operator's Retry or Dismiss, and what ended stays ended.                *)
(***************************************************************************)
CONSTANT Messages

VARIABLES
  life,       \* where each Message is in its life
  delivered   \* the Messages their far end has

lifeVars == <<life, delivered>>

Lives == {"unborn", "waiting", "failed", "completed", "dismissed"}

Init ==
  /\ life = [m \in Messages |-> "unborn"]
  /\ delivered = {}

\* m goes from one place in its life to the next; the far end sees nothing.
Becomes(m, from, to) ==
  /\ life[m] = from
  /\ life' = [life EXCEPT ![m] = to]
  /\ UNCHANGED delivered

Publish(m) == Becomes(m, "unborn", "waiting")
Complete(m) == m \in delivered /\ Becomes(m, "waiting", "completed")
Fail(m) == Becomes(m, "waiting", "failed")
Retry(m) == Becomes(m, "failed", "waiting")
Dismiss(m) == Becomes(m, "failed", "dismissed")

\* The far end takes what was under way to it, all of it that a node's end left
\* there: a send cannot be called back, so it may come after another holder
\* ended the Message.
Deliver(got) ==
  /\ \A m \in got : life[m] # "unborn"
  /\ delivered' = delivered \cup got
  /\ UNCHANGED life

Next ==
  \/ \E m \in Messages : Publish(m) \/ Complete(m) \/ Fail(m) \/ Retry(m) \/ Dismiss(m)
  \/ \E got \in SUBSET Messages : Deliver(got)

Spec == Init /\ [][Next]_lifeVars
==============================================================================
