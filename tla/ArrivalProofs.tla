---------------------------- MODULE ArrivalProofs ----------------------------
(***************************************************************************)
(* What is proved of Arrival, for every set of Streams, Parties,           *)
(* Subscriptions and Ports: its types, that nothing a gate refused is in   *)
(* the Ledger, that what a sender was told is accepted and what a far end  *)
(* has stay durable, and that a debatch is all or nothing.                 *)
(***************************************************************************)
EXTENDS Arrival, TLAPS

USE DEF vars

----------------------------------------------------------------------------
(* The log.                                                                *)

\* An entry more leaves those before it.
LEMMA AppendLog ==
  ASSUME log \in Seq(Range(log)), NEW e, log' = Append(log, e)
  PROVE  /\ log' \in Seq(Range(log'))
         /\ Len(log') = Len(log) + 1 /\ log'[Len(log) + 1] = e
         /\ \A i \in 1 .. Len(log) : log'[i] = log[i]
<1>1. log \in Seq(Range(log) \cup {e})
  OBVIOUS
<1>2. /\ Len(log') = Len(log) + 1 /\ log'[Len(log) + 1] = e
      /\ \A i \in 1 .. Len(log) : log'[i] = log[i]
  BY <1>1
<1>3. log' \in Seq(Range(log) \cup {e})
  BY <1>1
<1> QED BY <1>2, <1>3 DEF Range

\* The durable part of the log is its beginning.
LEMMA PrefixLog ==
  ASSUME log \in Seq(Range(log)), synced \in 0 .. Len(log)
  PROVE  /\ Durable \in Seq(Range(Durable))
         /\ Len(Durable) = synced
         /\ \A i \in 1 .. synced : Durable[i] = log[i]
         /\ Range(Durable) = {log[i] : i \in 1 .. synced}
<1>1. /\ Len(Durable) = synced
      /\ \A i \in 1 .. synced : Durable[i] = log[i]
  BY DEF Durable
<1>2. Durable \in Seq(Range(log)) /\ DOMAIN Durable = 1 .. synced
  BY DEF Durable
<1>3. Range(Durable) = {log[i] : i \in 1 .. synced}
  BY <1>1, <1>2 DEF Range
<1>4. \A i \in 1 .. Len(Durable) : Durable[i] \in Range(Durable)
  BY <1>1, <1>2 DEF Range
<1> QED BY <1>1, <1>2, <1>3, <1>4

\* What a step adds to the log.
NewEntry(e) ==
  \/ \E a \in DOMAIN arr :
       /\ WriteChunk(a)
       /\ e = [kind |-> "chunk", of |-> a, index |-> arr[a].chunks + 1,
               ends |-> arr[a].chunks + 1 = arr[a].stream.chunks]
  \/ \E a \in DOMAIN arr :
       Publish(a) /\ e = Publication(a, arr[a].stream, Room - Cardinality(handed))
  \/ /\ SplitRecord /\ Rows[split.took + 1] = "part" /\ split.failed = {}
     /\ e = [kind |-> "record", of |-> split.of, row |-> split.took + 1]
  \/ /\ SplitEnds
     /\ e = [kind |-> "turn", of |-> split.of, parts |-> Parts(split.written, split.failed)]

\* A step leaves the log, adds an entry to it, or cuts it to what is durable.
LogLeft == log' = log /\ synced' \in {synced, Len(log)}
LogAdds == \E e : NewEntry(e) /\ log' = Append(log, e) /\ synced' \in {synced, Len(log')}
LogCut == log' = Durable /\ synced' = synced

\* Every step does one of these.
LEMMA LogEach ==
  ASSUME [Next]_vars
  PROVE  LogLeft \/ LogAdds \/ LogCut
<1>1. ASSUME NEW s \in Streams, Arrive(s)
      PROVE  LogLeft \/ LogAdds \/ LogCut
  BY <1>1 DEF Arrive, LogLeft
<1>2. ASSUME NEW a \in DOMAIN arr, WriteChunk(a)
      PROVE  LogLeft \/ LogAdds \/ LogCut
  BY <1>2 DEF WriteChunk, LogAdds, NewEntry
<1>3. ASSUME NEW a \in DOMAIN arr, WriteFails(a)
      PROVE  LogLeft \/ LogAdds \/ LogCut
  BY <1>3 DEF WriteFails, LogLeft
<1>4. ASSUME NEW a \in DOMAIN arr, Settle(a)
      PROVE  LogLeft \/ LogAdds \/ LogCut
  BY <1>4 DEF Settle, LogLeft
<1>5. ASSUME NEW a \in DOMAIN arr, Publish(a)
      PROVE  LogLeft \/ LogAdds \/ LogCut
  BY <1>5 DEF Publish, LogAdds, NewEntry
<1>6. ASSUME NEW a \in DOMAIN arr, PublishFails(a)
      PROVE  LogLeft \/ LogAdds \/ LogCut
  BY <1>6 DEF PublishFails, LogLeft
<1>7. ASSUME NEW a \in DOMAIN arr, Hand(a)
      PROVE  LogLeft \/ LogAdds \/ LogCut
  BY <1>7 DEF Hand, LogLeft
<1>8. ASSUME NEW a \in DOMAIN arr, Acknowledge(a)
      PROVE  LogLeft \/ LogAdds \/ LogCut
  BY <1>8 DEF Acknowledge, LogLeft
<1>9. ASSUME NEW a \in DOMAIN arr, Panics(a)
      PROVE  LogLeft \/ LogAdds \/ LogCut
  BY <1>9 DEF Panics, LogLeft
<1>10. ASSUME Sync
      PROVE  LogLeft \/ LogAdds \/ LogCut
  BY <1>10 DEF Sync, LogLeft
<1>11. ASSUME SyncFails
      PROVE  LogLeft \/ LogAdds \/ LogCut
  BY <1>11 DEF SyncFails, LogCut
<1>12. ASSUME Crash
      PROVE  LogLeft \/ LogAdds \/ LogCut
  BY <1>12 DEF Crash, LogCut
<1>13. ASSUME NEW j \in handed, Depart(j)
      PROVE  LogLeft \/ LogAdds \/ LogCut
  BY <1>13 DEF Depart, LogLeft
<1>14. ASSUME NEW j \in Journeys, Scan(j)
      PROVE  LogLeft \/ LogAdds \/ LogCut
  BY <1>14 DEF Scan, LogLeft
<1>15. ASSUME NEW j \in Journeys, SplitBegins(j)
      PROVE  LogLeft \/ LogAdds \/ LogCut
  BY <1>15 DEF SplitBegins, LogLeft
<1>16. ASSUME SplitRecord
      PROVE  LogLeft \/ LogAdds \/ LogCut
  <2>1. CASE Rows[split.took + 1] = "part" /\ split.failed = {}
    BY <1>16, <2>1 DEF SplitRecord, LogAdds, NewEntry
  <2>2. CASE ~(Rows[split.took + 1] = "part" /\ split.failed = {})
    BY <1>16, <2>2 DEF SplitRecord, LogLeft
  <2> QED BY <2>1, <2>2
<1>17. ASSUME SplitFails
      PROVE  LogLeft \/ LogAdds \/ LogCut
  BY <1>17 DEF SplitFails, LogLeft
<1>18. ASSUME SplitEnds
      PROVE  LogLeft \/ LogAdds \/ LogCut
  BY <1>18 DEF SplitEnds, LogAdds, NewEntry
<1>19. CASE UNCHANGED vars
  BY <1>19 DEF LogLeft
<1> QED
  BY <1>1, <1>2, <1>3, <1>4, <1>5, <1>6, <1>7, <1>8, <1>9, <1>10, <1>11,
     <1>12, <1>13, <1>14, <1>15, <1>16, <1>17, <1>18, <1>19
     DEF Next, Arrivals, Sends

\* The durable part only grows, and what is left of the log is as it was.
LEMMA LogGrows ==
  ASSUME TypeOK, [Next]_vars
  PROVE  /\ log' \in Seq(Range(log')) /\ synced' \in 0 .. Len(log') /\ synced <= synced'
         /\ Len(log') <= Len(log) + 1
         /\ \A i \in 1 .. Len(log') : i <= Len(log) => log'[i] = log[i]
         /\ Len(log') = Len(log) + 1 => NewEntry(log'[Len(log) + 1])
<1> USE DEF TypeOK
<1>1. CASE LogLeft
  BY <1>1 DEF LogLeft
<1>2. CASE LogAdds
  <2>1. PICK e : NewEntry(e) /\ log' = Append(log, e) /\ synced' \in {synced, Len(log')}
    BY <1>2 DEF LogAdds
  <2>2. /\ log' \in Seq(Range(log'))
        /\ Len(log') = Len(log) + 1 /\ log'[Len(log) + 1] = e
        /\ \A i \in 1 .. Len(log) : log'[i] = log[i]
    BY <2>1, AppendLog
  <2> QED BY <2>1, <2>2
<1>3. CASE LogCut
  BY <1>3, PrefixLog DEF LogCut
<1> QED BY <1>1, <1>2, <1>3, LogEach

----------------------------------------------------------------------------
(* The arrivals.                                                           *)

\* What the types say of an arrival, and the assumptions of its Stream.
LEMMA Arrived ==
  ASSUME TypeOK
  PROVE  /\ arr \in Seq(Records) /\ DOMAIN arr = 1 .. Len(arr) /\ Len(arr) \in Nat
         /\ \A a \in DOMAIN arr :
              /\ arr[a] \in Records /\ arr[a].stream \in Streams /\ arr[a].chunks \in Nat
              /\ arr[a].step \in Steps /\ arr[a].chunks <= arr[a].stream.chunks
              /\ arr[a].step = "writing" => arr[a].chunks < arr[a].stream.chunks
              /\ arr[a] = [stream |-> arr[a].stream, chunks |-> arr[a].chunks, step |-> arr[a].step]
         /\ \A s \in Streams : s.chunks \in Nat \ {0} /\ s.rows \in Seq({"part", "refused"})
<1>1. arr \in Seq(Records) /\ DOMAIN arr = 1 .. Len(arr) /\ Len(arr) \in Nat
  BY DEF TypeOK
<1>2. \A a \in DOMAIN arr : arr[a] \in Records
  BY <1>1
<1>3. \A a \in DOMAIN arr : /\ arr[a].chunks <= arr[a].stream.chunks
                            /\ arr[a].step = "writing" => arr[a].chunks < arr[a].stream.chunks
  BY DEF TypeOK
<1>4. \A r \in Records : /\ r.stream \in Streams /\ r.chunks \in Nat /\ r.step \in Steps
                         /\ r = [stream |-> r.stream, chunks |-> r.chunks, step |-> r.step]
  BY DEF Records
<1>5. \A s \in Streams : s.chunks \in Nat \ {0} /\ s.rows \in Seq({"part", "refused"})
  BY ArrivalAssumption
<1> QED BY <1>1, <1>2, <1>3, <1>4, <1>5

\* One more at the end of a sequence.
LEMMA OneAppended ==
  ASSUME NEW S, NEW q \in Seq(S), NEW e \in S
  PROVE  /\ Append(q, e) \in Seq(S) /\ Len(Append(q, e)) = Len(q) + 1
         /\ Append(q, e)[Len(q) + 1] = e /\ DOMAIN Append(q, e) = 1 .. Len(q) + 1
         /\ \A i \in 1 .. Len(q) : Append(q, e)[i] = q[i]
OBVIOUS

\* What every step does to the arrivals: each keeps its Stream, and they stay
\* typed.
ArrGoes ==
  /\ arr' \in Seq(Records) /\ Len(arr) <= Len(arr')
  /\ \A a \in DOMAIN arr : a \in DOMAIN arr' /\ arr'[a].stream = arr[a].stream
  /\ \A a \in DOMAIN arr' : /\ arr'[a].chunks <= arr'[a].stream.chunks
                            /\ arr'[a].step = "writing" => arr'[a].chunks < arr'[a].stream.chunks

\* One arrival that goes on changes alone.
LEMMA ArrOne ==
  ASSUME TypeOK, NEW a \in DOMAIN arr, NEW k \in Nat, NEW p \in Steps,
         arr' = [arr EXCEPT ![a] = [stream |-> arr[a].stream, chunks |-> k, step |-> p]]
  PROVE  /\ arr' \in Seq(Records) /\ Len(arr') = Len(arr) /\ DOMAIN arr' = DOMAIN arr
         /\ arr'[a].stream = arr[a].stream /\ arr'[a].chunks = k /\ arr'[a].step = p
         /\ \A b \in DOMAIN arr : b # a => arr'[b] = arr[b]
         /\ \A b \in DOMAIN arr : arr'[b].stream = arr[b].stream
<1>1. [stream |-> arr[a].stream, chunks |-> k, step |-> p] \in Records
  BY Arrived DEF Records
<1>2. PICK q \in Records : q = [stream |-> arr[a].stream, chunks |-> k, step |-> p]
  BY <1>1
<1>3. arr \in Seq(Records) /\ DOMAIN arr = 1 .. Len(arr) /\ arr' = [arr EXCEPT ![a] = q]
  BY <1>2, Arrived
<1>4. /\ arr' \in Seq(Records) /\ Len(arr') = Len(arr) /\ DOMAIN arr' = DOMAIN arr
      /\ arr'[a] = q
      /\ \A b \in DOMAIN arr : b # a => arr'[b] = arr[b]
  BY <1>3
<1> QED BY <1>2, <1>4

\* As above, of one that is at its next step.
LEMMA ArrStep ==
  ASSUME TypeOK, NEW a \in DOMAIN arr, NEW p \in Steps \ {"writing"}, Step(a, p)
  PROVE  ArrGoes /\ arr'[a].step = p /\ arr'[a].stream = arr[a].stream
         /\ Len(arr') = Len(arr) /\ \A b \in DOMAIN arr : b # a => arr'[b] = arr[b]
<1>1. arr[a] = [stream |-> arr[a].stream, chunks |-> arr[a].chunks, step |-> arr[a].step]
  BY Arrived
<1>2. [arr[a] EXCEPT !.step = p] = [stream |-> arr[a].stream, chunks |-> arr[a].chunks, step |-> p]
  BY <1>1
<1>3. arr' = [arr EXCEPT ![a] = [stream |-> arr[a].stream, chunks |-> arr[a].chunks, step |-> p]]
  BY <1>2 DEF Step
<1>4. arr[a].chunks \in Nat
  BY Arrived
<1>5. /\ arr' \in Seq(Records) /\ Len(arr') = Len(arr) /\ DOMAIN arr' = DOMAIN arr
      /\ arr'[a].stream = arr[a].stream /\ arr'[a].chunks = arr[a].chunks /\ arr'[a].step = p
      /\ \A b \in DOMAIN arr : b # a => arr'[b] = arr[b]
      /\ \A b \in DOMAIN arr : arr'[b].stream = arr[b].stream
  BY <1>3, <1>4, ArrOne
<1>6. /\ \A b \in DOMAIN arr :
           /\ arr[b].chunks <= arr[b].stream.chunks /\ arr[b].stream.chunks \in Nat
           /\ arr[b].step = "writing" => arr[b].chunks < arr[b].stream.chunks
      /\ Len(arr) \in Nat
  BY Arrived
<1> QED BY <1>5, <1>6 DEF ArrGoes

\* As above, of one that is over.
LEMMA ArrEnds ==
  ASSUME TypeOK, NEW a \in DOMAIN arr, arr' = [arr EXCEPT ![a] = Ended(@)]
  PROVE  ArrGoes /\ arr'[a].step = "over" /\ arr'[a].stream = arr[a].stream
         /\ Len(arr') = Len(arr) /\ \A b \in DOMAIN arr : b # a => arr'[b] = arr[b]
<1>3. arr' = [arr EXCEPT ![a] = [stream |-> arr[a].stream, chunks |-> 0, step |-> "over"]]
  BY DEF Ended
<1>4. "over" \in Steps /\ 0 \in Nat
  BY DEF Steps
<1>5. /\ arr' \in Seq(Records) /\ Len(arr') = Len(arr) /\ DOMAIN arr' = DOMAIN arr
      /\ arr'[a].stream = arr[a].stream /\ arr'[a].chunks = 0 /\ arr'[a].step = "over"
      /\ \A b \in DOMAIN arr : b # a => arr'[b] = arr[b]
      /\ \A b \in DOMAIN arr : arr'[b].stream = arr[b].stream
  BY <1>3, <1>4, ArrOne
<1>6. /\ \A b \in DOMAIN arr :
           /\ arr[b].chunks <= arr[b].stream.chunks /\ arr[b].stream.chunks \in Nat
           /\ arr[b].step = "writing" => arr[b].chunks < arr[b].stream.chunks
      /\ Len(arr) \in Nat
  BY Arrived
<1> QED BY <1>5, <1>6 DEF ArrGoes

\* Every step does that.
LEMMA ArrEach ==
  ASSUME TypeOK, [Next]_vars
  PROVE  ArrGoes
<1>1. ASSUME NEW s \in Streams, Arrive(s)
      PROVE  ArrGoes
  <2>1. PICK p \in {"writing", "over"} :
          arr' = Append(arr, [stream |-> s, chunks |-> 0, step |-> p])
    BY <1>1 DEF Arrive
  <2>2. PICK r \in Records :
          r.stream = s /\ r.chunks = 0 /\ r.chunks < r.stream.chunks /\ arr' = Append(arr, r)
    <3>1. [stream |-> s, chunks |-> 0, step |-> p] \in Records
      BY DEF Records, Steps
    <3>2. 0 < s.chunks
      BY Arrived
    <3> QED BY <2>1, <3>1, <3>2
  <2>8. arr' = Append(arr, r)
    BY <2>2
  <2>3. arr \in Seq(Records) /\ DOMAIN arr = 1 .. Len(arr) /\ Len(arr) \in Nat
    BY Arrived
  <2>4. arr' \in Seq(Records) /\ Len(arr') = Len(arr) + 1
    BY <2>8, <2>3, OneAppended
  <2>9. Append(arr, r)[Len(arr) + 1] = r /\ \A a \in 1 .. Len(arr) : Append(arr, r)[a] = arr[a]
    BY <2>3, OneAppended
  <2>5. arr'[Len(arr) + 1] = r /\ \A a \in 1 .. Len(arr) : arr'[a] = arr[a]
    BY <2>8, <2>9
  <2>6. DOMAIN arr' = 1 .. Len(arr) + 1
    BY <2>4
  <2>7. \A a \in DOMAIN arr :
          /\ arr[a].chunks <= arr[a].stream.chunks
          /\ arr[a].step = "writing" => arr[a].chunks < arr[a].stream.chunks
    BY Arrived
  <2>10. \A a \in DOMAIN arr' : a \in DOMAIN arr \/ a = Len(arr) + 1
    BY <2>3, <2>6
  <2>11. \A a \in DOMAIN arr : a \in DOMAIN arr' /\ arr'[a] = arr[a]
    BY <2>3, <2>5, <2>6
  <2>12. \A a \in DOMAIN arr' :
           /\ arr'[a].chunks <= arr'[a].stream.chunks
           /\ arr'[a].step = "writing" => arr'[a].chunks < arr'[a].stream.chunks
    <3>1. r.chunks < r.stream.chunks /\ r.chunks \in Nat /\ r.stream.chunks \in Nat
      <4>1. r.stream \in Streams /\ r.chunks \in Nat /\ r.chunks < r.stream.chunks
        BY <2>2 DEF Records
      <4> QED BY <4>1, Arrived
    <3>2. r.chunks <= r.stream.chunks
      BY <3>1
    <3> QED BY <3>1, <3>2, <2>5, <2>7, <2>10, <2>11
  <2> QED BY <2>3, <2>4, <2>11, <2>12 DEF ArrGoes
<1>2. ASSUME NEW a \in DOMAIN arr, WriteChunk(a)
      PROVE  ArrGoes
  <2>1. PICK p \in {"written", "writing"} :
          /\ arr' = [arr EXCEPT ![a] = [stream |-> @.stream, chunks |-> arr[a].chunks + 1, step |-> p]]
          /\ p = "writing" => arr[a].chunks + 1 # arr[a].stream.chunks
    BY <1>2 DEF WriteChunk
  <2>2. arr[a].chunks < arr[a].stream.chunks /\ arr[a].chunks + 1 \in Nat /\ p \in Steps
    BY <1>2, Arrived DEF WriteChunk, Steps
  <2>4. arr' = [arr EXCEPT ![a] =
                 [stream |-> arr[a].stream, chunks |-> arr[a].chunks + 1, step |-> p]]
    BY <2>1
  <2>5. /\ arr' \in Seq(Records) /\ Len(arr') = Len(arr) /\ DOMAIN arr' = DOMAIN arr
        /\ arr'[a].chunks = arr[a].chunks + 1 /\ arr'[a].step = p
        /\ \A b \in DOMAIN arr : b # a => arr'[b] = arr[b]
        /\ \A b \in DOMAIN arr : arr'[b].stream = arr[b].stream
    BY <2>2, <2>4, ArrOne
  <2>6. /\ \A b \in DOMAIN arr :
             /\ arr[b].chunks <= arr[b].stream.chunks
             /\ arr[b].stream.chunks \in Nat /\ arr[b].chunks \in Nat
             /\ arr[b].step = "writing" => arr[b].chunks < arr[b].stream.chunks
        /\ Len(arr) \in Nat
    BY Arrived
  <2>7. p = "writing" => arr[a].chunks + 1 < arr[a].stream.chunks
    BY <2>1, <2>2, <2>6
  <2>8. arr'[a].chunks <= arr[a].stream.chunks
    BY <2>2, <2>5, <2>6
  <2>9. \A b \in DOMAIN arr' : /\ arr'[b].chunks <= arr'[b].stream.chunks
                               /\ arr'[b].step = "writing" => arr'[b].chunks < arr'[b].stream.chunks
    <3> TAKE b \in DOMAIN arr'
    <3>1. CASE b = a
      BY <3>1, <2>5, <2>7, <2>8
    <3>2. CASE b # a
      BY <3>2, <2>5, <2>6
    <3> QED BY <3>1, <3>2
  <2>10. Len(arr) <= Len(arr')
    BY <2>5, <2>6
  <2> QED BY <2>5, <2>9, <2>10 DEF ArrGoes
<1>3. ASSUME NEW a \in DOMAIN arr, WriteFails(a)
      PROVE  ArrGoes
  BY <1>3, ArrEnds DEF WriteFails, Ends
<1>4. ASSUME NEW a \in DOMAIN arr, Settle(a)
      PROVE  ArrGoes
  BY <1>4, ArrStep, ArrEnds DEF Settle, Ends, Steps
<1>5. ASSUME NEW a \in DOMAIN arr, Publish(a)
      PROVE  ArrGoes
  BY <1>5, ArrStep, ArrEnds DEF Publish, Ends, Steps
<1>6. ASSUME NEW a \in DOMAIN arr, PublishFails(a)
      PROVE  ArrGoes
  BY <1>6, ArrEnds DEF PublishFails, Ends
<1>7. ASSUME NEW a \in DOMAIN arr, Hand(a)
      PROVE  ArrGoes
  BY <1>7, ArrStep DEF Hand, Steps
<1>8. ASSUME NEW a \in DOMAIN arr, Acknowledge(a)
      PROVE  ArrGoes
  BY <1>8, ArrEnds DEF Acknowledge, Ends, Unheard
<1>9. ASSUME NEW a \in DOMAIN arr, Panics(a)
      PROVE  ArrGoes
  BY <1>9, ArrEnds DEF Panics, Ends
<1>10. ASSUME Sync
      PROVE  ArrGoes
  BY <1>10, Arrived DEF Sync, ArrGoes
<1>11. ASSUME SyncFails
      PROVE  ArrGoes
  BY <1>11, Arrived DEF SyncFails, ArrGoes
<1>12. ASSUME Crash
      PROVE  ArrGoes
  <2>1. \A a \in DOMAIN arr : /\ Ended(arr[a]) \in Records
                               /\ Ended(arr[a]).stream = arr[a].stream /\ Ended(arr[a]).chunks = 0
                               /\ Ended(arr[a]).step = "over"
    BY Arrived DEF Records, Ended, Steps
  <2>2. /\ DOMAIN arr' = 1 .. Len(arr) /\ arr' \in [1 .. Len(arr) -> Records]
        /\ \A a \in DOMAIN arr : /\ arr'[a].stream = arr[a].stream /\ arr'[a].chunks = 0
                                /\ arr'[a].step = "over"
    BY <1>12, <2>1, Arrived DEF Crash
  <2>3. arr' \in Seq(Records) /\ Len(arr') = Len(arr)
    BY <2>2, Arrived
  <2> QED BY <2>2, <2>3, Arrived DEF ArrGoes
<1>13. ASSUME NEW j \in handed, Depart(j)
      PROVE  ArrGoes
  BY <1>13, Arrived DEF Depart, ArrGoes
<1>14. ASSUME NEW j \in Journeys, Scan(j)
      PROVE  ArrGoes
  BY <1>14, Arrived DEF Scan, ArrGoes
<1>15. ASSUME NEW j \in Journeys, SplitBegins(j)
      PROVE  ArrGoes
  BY <1>15, Arrived DEF SplitBegins, ArrGoes
<1>16. ASSUME SplitRecord
      PROVE  ArrGoes
  BY <1>16, Arrived DEF SplitRecord, ArrGoes
<1>17. ASSUME SplitFails
      PROVE  ArrGoes
  BY <1>17, Arrived DEF SplitFails, ArrGoes
<1>18. ASSUME SplitEnds
      PROVE  ArrGoes
  BY <1>18, Arrived DEF SplitEnds, ArrGoes
<1>19. CASE UNCHANGED vars
  BY <1>19, Arrived DEF ArrGoes
<1> QED
  BY <1>1, <1>2, <1>3, <1>4, <1>5, <1>6, <1>7, <1>8, <1>9, <1>10, <1>11,
     <1>12, <1>13, <1>14, <1>15, <1>16, <1>17, <1>18, <1>19
     DEF Next, Arrivals, Sends

----------------------------------------------------------------------------
(* The gates.                                                              *)

\* The transport gates answer one of three, and what passes is authenticated
\* by its one claim and permitted as that claim's Party.
LEMMA TransportPassed ==
  ASSUME NEW s
  PROVE  /\ AtTransport(s) \in {"unidentified", "forbidden", "passed"}
         /\ AtTransport(s) = "passed" => Admitted(TransportClaim(s))
<1>1. AtTransport(s) \in {"unidentified", "forbidden", "passed"}
  BY DEF AtTransport
<1>2. AtTransport(s) = "passed" => Authentic(TransportClaim(s)) /\ Authorized(TransportFacts(s))
  BY DEF AtTransport
<1>3. TransportFacts(s).transport.party = Resolve(TransportClaim(s))
  BY DEF TransportFacts, Facts, Identity
<1> QED BY <1>1, <1>2, <1>3 DEF Authentic, Authorized, Admitted

\* A Message's facts name its Stream's one transport claim, and the Party of
\* the message claim they name.
LEMMA FactsOf ==
  ASSUME NEW s
  PROVE  /\ MessageFacts(s).transport = Identity(TransportClaim(s))
         /\ MessageFacts(s).message # None =>
              \E c : MessageFacts(s).message = Identity(c)
<1>1. \E m, u : MessageFacts(s) = Facts(TransportClaim(s), m, u)
  BY Zenon DEF MessageFacts
<1>2. PICK m, u : MessageFacts(s) = Facts(TransportClaim(s), m, u)
  BY <1>1
<1>3. /\ Facts(TransportClaim(s), m, u).transport = Identity(TransportClaim(s))
      /\ Facts(TransportClaim(s), m, u).message = IF m = None THEN None ELSE Identity(m)
  BY DEF Facts
<1> QED BY <1>2, <1>3

\* The message gates answer one of four, and a message claim that passes is
\* authenticated and permitted.
LEMMA MessagePassed ==
  ASSUME NEW s
  PROVE  /\ AtMessage(s) \in {"unidentified", "forbidden", "unacceptable", "passed"}
         /\ (AtMessage(s) = "passed" /\ MessageFacts(s).message # None)
              => Admitted(MessageFacts(s).message.claim)
<1>1. AtMessage(s) \in {"unidentified", "forbidden", "unacceptable", "passed"}
  BY DEF AtMessage
<1>2. (AtMessage(s) = "passed" /\ MessageFacts(s).message # None)
        => Authentic(MessageFacts(s).message.claim) /\ Authorized(MessageFacts(s))
  BY DEF AtMessage
<1>3. \A c : Identity(c).claim = c /\ Identity(c).party = Resolve(c)
  BY DEF Identity
<1>4. MessageFacts(s).message # None =>
        MessageFacts(s).message.party = Resolve(MessageFacts(s).message.claim)
  BY <1>3, FactsOf
<1> QED BY <1>1, <1>2, <1>4 DEF Authentic, Authorized, Admitted

\* Every claim the facts of a Message that passed both passes name is admitted.
LEMMA CheckedAdmitted ==
  ASSUME NEW s, NEW p, MadeOf(p, s), AtTransport(s) = "passed", AtMessage(s) = "passed"
  PROVE  \A c \in Checked(p) : Admitted(c)
<1>1. p.facts = MessageFacts(s)
  BY DEF MadeOf
<1>2. p.facts.transport.claim = TransportClaim(s)
  <2>1. MessageFacts(s).transport = Identity(TransportClaim(s))
    BY FactsOf
  <2>2. Identity(TransportClaim(s)).claim = TransportClaim(s)
    BY DEF Identity
  <2> QED BY <1>1, <2>1, <2>2
<1> QED BY <1>1, <1>2, TransportPassed, MessagePassed DEF Checked

----------------------------------------------------------------------------
(* The types.                                                              *)

\* What a sender is told, and the counts of faults and turns.
RestTyped ==
  /\ told' \in [Streams -> {"nothing"} \cup Verdicts]
  /\ faults' \in 0 .. MaxFaults /\ turns' \in 0 .. MaxTurns

\* A sender told a verdict.
LEMMA ToldTyped ==
  ASSUME TypeOK, NEW s \in Streams, NEW v \in {"nothing"} \cup Verdicts,
         told' = [told EXCEPT ![s] = v], UNCHANGED <<faults, turns>>
  PROVE  RestTyped
BY DEF TypeOK, RestTyped

\* Every step keeps them typed.
LEMMA RestEach ==
  ASSUME TypeOK, [Next]_vars
  PROVE  RestTyped
<1>1. ASSUME NEW s \in Streams, Arrive(s)
      PROVE  RestTyped
  <2>1. AtTransport(s) # "passed" => AtTransport(s) \in Verdicts
    BY TransportPassed DEF Verdicts
  <2>2. PICK v \in {"nothing"} \cup Verdicts : told' = [told EXCEPT ![s] = v]
    BY <1>1, <2>1 DEF Arrive
  <2> QED BY <1>1, <2>2, ToldTyped DEF Arrive
<1>2. ASSUME NEW a \in DOMAIN arr, WriteChunk(a)
      PROVE  RestTyped
  BY <1>2 DEF WriteChunk, TypeOK, RestTyped
<1>3. ASSUME NEW a \in DOMAIN arr, WriteFails(a)
      PROVE  RestTyped
  BY <1>3, Arrived, ToldTyped DEF WriteFails, Ends, Verdicts
<1>4. ASSUME NEW a \in DOMAIN arr, Settle(a)
      PROVE  RestTyped
  <2>1. CASE UNCHANGED told
    BY <1>4, <2>1 DEF Settle, TypeOK, RestTyped
  <2>2. CASE \E v \in Verdicts : Ends(a, v)
    BY <1>4, <2>2, Arrived, ToldTyped DEF Settle, Ends
  <2>3. AtMessage(arr[a].stream) # "passed" => AtMessage(arr[a].stream) \in Verdicts
    BY MessagePassed DEF Verdicts
  <2>4. "failed" \in Verdicts
    BY DEF Verdicts
  <2> QED BY <1>4, <2>1, <2>2, <2>3, <2>4 DEF Settle
<1>5. ASSUME NEW a \in DOMAIN arr, Publish(a)
      PROVE  RestTyped
  <2>1. CASE UNCHANGED told
    BY <1>5, <2>1 DEF Publish, TypeOK, RestTyped
  <2>2. CASE Ends(a, "failed")
    BY <1>5, <2>2, Arrived, ToldTyped DEF Publish, Ends, Verdicts
  <2> QED BY <1>5, <2>1, <2>2 DEF Publish
<1>6. ASSUME NEW a \in DOMAIN arr, PublishFails(a)
      PROVE  RestTyped
  BY <1>6, Arrived, ToldTyped DEF PublishFails, Ends, Verdicts
<1>7. ASSUME NEW a \in DOMAIN arr, Hand(a)
      PROVE  RestTyped
  BY <1>7 DEF Hand, TypeOK, RestTyped
<1>8. ASSUME NEW a \in DOMAIN arr, Acknowledge(a)
      PROVE  RestTyped
  <2>1. CASE Unheard(a)
    BY <1>8, <2>1 DEF Acknowledge, Unheard, TypeOK, RestTyped
  <2>2. CASE \E v \in Verdicts : Ends(a, v)
    BY <1>8, <2>2, Arrived, ToldTyped DEF Acknowledge, Ends
  <2>3. {"accepted", "failed"} \subseteq Verdicts
    BY DEF Verdicts
  <2> QED BY <1>8, <2>1, <2>2, <2>3 DEF Acknowledge
<1>9. ASSUME NEW a \in DOMAIN arr, Panics(a)
      PROVE  RestTyped
  BY <1>9, Arrived, ToldTyped DEF Panics, Ends, Verdicts
<1>10. ASSUME Sync
      PROVE  RestTyped
  BY <1>10 DEF Sync, TypeOK, RestTyped
<1>11. ASSUME SyncFails
      PROVE  RestTyped
  <2>1. MaxFaults \in Nat
    BY ArrivalAssumption
  <2> QED BY <1>11, <2>1 DEF SyncFails, TypeOK, RestTyped
<1>12. ASSUME Crash
      PROVE  RestTyped
  <2>1. MaxFaults \in Nat
    BY ArrivalAssumption
  <2> QED BY <1>12, <2>1 DEF Crash, TypeOK, RestTyped
<1>13. ASSUME NEW j \in handed, Depart(j)
      PROVE  RestTyped
  BY <1>13 DEF Depart, TypeOK, RestTyped
<1>14. ASSUME NEW j \in Journeys, Scan(j)
      PROVE  RestTyped
  BY <1>14 DEF Scan, TypeOK, RestTyped
<1>15. ASSUME NEW j \in Journeys, SplitBegins(j)
      PROVE  RestTyped
  <2>1. MaxTurns \in Nat
    BY ArrivalAssumption
  <2> QED BY <1>15, <2>1 DEF SplitBegins, TypeOK, RestTyped
<1>16. ASSUME SplitRecord
      PROVE  RestTyped
  BY <1>16 DEF SplitRecord, TypeOK, RestTyped
<1>17. ASSUME SplitFails
      PROVE  RestTyped
  BY <1>17 DEF SplitFails, TypeOK, RestTyped
<1>18. ASSUME SplitEnds
      PROVE  RestTyped
  BY <1>18 DEF SplitEnds, TypeOK, RestTyped
<1>19. CASE UNCHANGED vars
  BY <1>19 DEF TypeOK, RestTyped
<1> QED
  BY <1>1, <1>2, <1>3, <1>4, <1>5, <1>6, <1>7, <1>8, <1>9, <1>10, <1>11,
     <1>12, <1>13, <1>14, <1>15, <1>16, <1>17, <1>18, <1>19
     DEF Next, Arrivals, Sends

\* Every step keeps the types.
LEMMA TypeStep ==
  ASSUME TypeOK, [Next]_vars
  PROVE  TypeOK'
<1>1. log' \in Seq(Range(log')) /\ synced' \in 0 .. Len(log')
  BY LogGrows
<1>2. /\ arr' \in Seq(Records)
      /\ \A a \in DOMAIN arr' : /\ arr'[a].chunks <= arr'[a].stream.chunks
                                /\ arr'[a].step = "writing" => arr'[a].chunks < arr'[a].stream.chunks
  BY ArrEach DEF ArrGoes
<1>3. RestTyped
  BY RestEach
<1> QED BY <1>1, <1>2, <1>3 DEF TypeOK, RestTyped

\* The types hold at the start.
LEMMA TypeInit ==
  ASSUME Init
  PROVE  TypeOK
<1>1. {MaxFaults, MaxTurns} \subseteq Nat
  BY ArrivalAssumption
<1> QED BY <1>1 DEF Init, TypeOK, Range

\* The types: the log and what of it is synced, each arrival's Stream, chunks
\* and step, and what each sender was told (arrival.rs, message_path.rs).
THEOREM TypeCorrect == Spec => []TypeOK
BY TypeInit, TypeStep, PTL DEF Spec

----------------------------------------------------------------------------
(* What is under way passed the gates before it.                           *)

\* ArrInv of one arrival.
Passed(b) ==
  /\ arr'[b].step # "over" => AtTransport(arr'[b].stream) = "passed"
  /\ arr'[b].step \in {"publishing", "published", "syncing"} => AtMessage(arr'[b].stream) = "passed"

\* One arrival changes, to a step the gates let it be at.
LEMMA PassedOne ==
  ASSUME ArrInv, NEW a \in DOMAIN arr, Passed(a), DOMAIN arr' = DOMAIN arr,
         \A b \in DOMAIN arr : b # a => arr'[b] = arr[b]
  PROVE  \A b \in DOMAIN arr' : Passed(b)
BY DEF ArrInv, Passed

\* As above, of one that is over.
LEMMA PassedEnds ==
  ASSUME TypeOK, ArrInv, NEW a \in DOMAIN arr, arr' = [arr EXCEPT ![a] = Ended(@)]
  PROVE  \A b \in DOMAIN arr' : Passed(b)
<1>1. arr'[a].step = "over" /\ Len(arr') = Len(arr) /\ arr' \in Seq(Records)
      /\ \A b \in DOMAIN arr : b # a => arr'[b] = arr[b]
  BY ArrEnds DEF ArrGoes
<1>2. DOMAIN arr' = DOMAIN arr
  BY <1>1, Arrived
<1>3. Passed(a)
  BY <1>1 DEF Passed
<1> QED BY <1>1, <1>2, <1>3, PassedOne

\* As above, of one that goes on, not past the message gates unless they let it.
LEMMA PassedStep ==
  ASSUME TypeOK, ArrInv, NEW a \in DOMAIN arr, NEW p \in Steps \ {"writing"}, Step(a, p),
         AtTransport(arr[a].stream) = "passed", AtMessage(arr[a].stream) = "passed"
  PROVE  \A b \in DOMAIN arr' : Passed(b)
<1>1. arr'[a].stream = arr[a].stream /\ Len(arr') = Len(arr) /\ arr' \in Seq(Records)
      /\ \A b \in DOMAIN arr : b # a => arr'[b] = arr[b]
  BY ArrStep DEF ArrGoes
<1>2. DOMAIN arr' = DOMAIN arr
  BY <1>1, Arrived
<1>3. Passed(a)
  BY <1>1 DEF Passed
<1> QED BY <1>1, <1>2, <1>3, PassedOne

\* Every step leaves each arrival where the gates let it be.
LEMMA PassedEach ==
  ASSUME TypeOK, ArrInv, [Next]_vars
  PROVE  \A b \in DOMAIN arr' : Passed(b)
<1>1. ASSUME NEW s \in Streams, Arrive(s)
      PROVE  \A b \in DOMAIN arr' : Passed(b)
  <2>1. PICK p \in {"writing", "over"} :
          /\ p = "writing" => AtTransport(s) = "passed"
          /\ arr' = Append(arr, [stream |-> s, chunks |-> 0, step |-> p])
    BY <1>1 DEF Arrive
  <2>2. PICK r \in Records :
          r.stream = s /\ r.step = p /\ arr' = Append(arr, r)
    <3>1. [stream |-> s, chunks |-> 0, step |-> p] \in Records
      BY DEF Records, Steps
    <3> QED BY <2>1, <3>1
  <2>3. arr \in Seq(Records) /\ DOMAIN arr = 1 .. Len(arr) /\ Len(arr) \in Nat
    BY Arrived
  <2>4. /\ Append(arr, r)[Len(arr) + 1] = r /\ DOMAIN Append(arr, r) = 1 .. Len(arr) + 1
        /\ \A i \in 1 .. Len(arr) : Append(arr, r)[i] = arr[i]
    BY <2>3, OneAppended
  <2>5. \A b \in DOMAIN arr' : (b \in DOMAIN arr /\ arr'[b] = arr[b]) \/ arr'[b] = r
    <3> TAKE b \in DOMAIN arr'
    <3>1. arr' = Append(arr, r)
      BY <2>2
    <3>2. b \in 1 .. Len(arr) + 1
      BY <2>4, <3>1
    <3>3. b \in 1 .. Len(arr) \/ b = Len(arr) + 1
      BY <2>3, <3>2
    <3> QED BY <2>3, <2>4, <3>1, <3>3
  <2> QED BY <2>1, <2>2, <2>5 DEF ArrInv, Passed
<1>2. ASSUME NEW a \in DOMAIN arr, WriteChunk(a)
      PROVE  \A b \in DOMAIN arr' : Passed(b)
  <2>1. PICK p \in {"written", "writing"} :
          arr' = [arr EXCEPT ![a] = [stream |-> arr[a].stream, chunks |-> arr[a].chunks + 1, step |-> p]]
    BY <1>2 DEF WriteChunk
  <2>2. arr[a].chunks + 1 \in Nat /\ p \in Steps
    BY Arrived DEF Steps
  <2>3. /\ DOMAIN arr' = DOMAIN arr /\ arr'[a].stream = arr[a].stream /\ arr'[a].step = p
        /\ \A b \in DOMAIN arr : b # a => arr'[b] = arr[b]
    BY <2>1, <2>2, ArrOne
  <2>4. AtTransport(arr[a].stream) = "passed"
    BY <1>2 DEF WriteChunk, ArrInv
  <2>5. Passed(a)
    BY <2>3, <2>4 DEF Passed
  <2> QED BY <2>3, <2>5, PassedOne
<1>3. ASSUME NEW a \in DOMAIN arr, WriteFails(a)
      PROVE  \A b \in DOMAIN arr' : Passed(b)
  BY <1>3, PassedEnds DEF WriteFails, Ends
<1>4. ASSUME NEW a \in DOMAIN arr, Settle(a)
      PROVE  \A b \in DOMAIN arr' : Passed(b)
  <2>1. CASE \E v : Ends(a, v)
    BY <2>1, PassedEnds DEF Ends
  <2>2. CASE AtMessage(arr[a].stream) = "passed" /\ Step(a, "publishing")
    <3>1. AtTransport(arr[a].stream) = "passed" /\ AtMessage(arr[a].stream) = "passed"
      BY <1>4, <2>2 DEF Settle, ArrInv
    <3> QED BY <2>2, <3>1, PassedStep DEF Steps
  <2> QED BY <1>4, <2>1, <2>2 DEF Settle
<1>5. ASSUME NEW a \in DOMAIN arr, Publish(a)
      PROVE  \A b \in DOMAIN arr' : Passed(b)
  <2>1. CASE \E v : Ends(a, v)
    BY <2>1, PassedEnds DEF Ends
  <2>2. CASE Step(a, "published")
    <3>1. AtTransport(arr[a].stream) = "passed" /\ AtMessage(arr[a].stream) = "passed"
      BY <1>5, <2>2 DEF Publish, ArrInv
    <3> QED BY <2>2, <3>1, PassedStep DEF Steps
  <2> QED BY <1>5, <2>1, <2>2 DEF Publish
<1>6. ASSUME NEW a \in DOMAIN arr, PublishFails(a)
      PROVE  \A b \in DOMAIN arr' : Passed(b)
  BY <1>6, PassedEnds DEF PublishFails, Ends
<1>7. ASSUME NEW a \in DOMAIN arr, Hand(a)
      PROVE  \A b \in DOMAIN arr' : Passed(b)
  <2>1. AtTransport(arr[a].stream) = "passed" /\ AtMessage(arr[a].stream) = "passed"
    BY <1>7 DEF Hand, ArrInv
  <2> QED BY <1>7, <2>1, PassedStep DEF Hand, Steps
<1>8. ASSUME NEW a \in DOMAIN arr, Acknowledge(a)
      PROVE  \A b \in DOMAIN arr' : Passed(b)
  BY <1>8, PassedEnds DEF Acknowledge, Ends, Unheard
<1>9. ASSUME NEW a \in DOMAIN arr, Panics(a)
      PROVE  \A b \in DOMAIN arr' : Passed(b)
  BY <1>9, PassedEnds DEF Panics, Ends
<1>10. ASSUME Sync
      PROVE  \A b \in DOMAIN arr' : Passed(b)
  BY <1>10 DEF Sync, ArrInv, Passed
<1>11. ASSUME SyncFails
      PROVE  \A b \in DOMAIN arr' : Passed(b)
  BY <1>11 DEF SyncFails, ArrInv, Passed
<1>12. ASSUME Crash
      PROVE  \A b \in DOMAIN arr' : Passed(b)
  BY <1>12 DEF Crash, Ended, Passed
<1>13. ASSUME NEW j \in handed, Depart(j)
      PROVE  \A b \in DOMAIN arr' : Passed(b)
  BY <1>13 DEF Depart, ArrInv, Passed
<1>14. ASSUME NEW j \in Journeys, Scan(j)
      PROVE  \A b \in DOMAIN arr' : Passed(b)
  BY <1>14 DEF Scan, ArrInv, Passed
<1>15. ASSUME NEW j \in Journeys, SplitBegins(j)
      PROVE  \A b \in DOMAIN arr' : Passed(b)
  BY <1>15 DEF SplitBegins, ArrInv, Passed
<1>16. ASSUME SplitRecord
      PROVE  \A b \in DOMAIN arr' : Passed(b)
  BY <1>16 DEF SplitRecord, ArrInv, Passed
<1>17. ASSUME SplitFails
      PROVE  \A b \in DOMAIN arr' : Passed(b)
  BY <1>17 DEF SplitFails, ArrInv, Passed
<1>18. ASSUME SplitEnds
      PROVE  \A b \in DOMAIN arr' : Passed(b)
  BY <1>18 DEF SplitEnds, ArrInv, Passed
<1>19. CASE UNCHANGED vars
  BY <1>19 DEF ArrInv, Passed
<1> QED
  BY <1>1, <1>2, <1>3, <1>4, <1>5, <1>6, <1>7, <1>8, <1>9, <1>10, <1>11,
     <1>12, <1>13, <1>14, <1>15, <1>16, <1>17, <1>18, <1>19
     DEF Next, Arrivals, Sends

\* And so of every arrival afterwards.
LEMMA ArrInvStep ==
  ASSUME TypeOK, ArrInv, [Next]_vars
  PROVE  ArrInv'
BY PassedEach DEF ArrInv, Passed

----------------------------------------------------------------------------
(* What is in the Ledger was let in.                                       *)

\* What the log holds after a step: what it held there before, or the one
\* entry the step added.
LEMMA EntryEach ==
  ASSUME TypeOK, [Next]_vars, NEW i \in 1 .. Len(log')
  PROVE  \/ i \in 1 .. Len(log) /\ \A k \in 1 .. i : log'[k] = log[k]
         \/ i = Len(log) + 1 /\ NewEntry(log'[i]) /\ \A k \in 1 .. Len(log) : log'[k] = log[k]
<1>1. Len(log) \in Nat /\ Len(log') \in Nat
  BY LogGrows DEF TypeOK
<1> QED BY <1>1, LogGrows

\* The kind of what a step adds says which step it was.
LEMMA AddedChunk ==
  ASSUME NEW e, NewEntry(e), e.kind = "chunk"
  PROVE  \E a \in DOMAIN arr : WriteChunk(a) /\ e.of = a
BY DEF NewEntry, Publication

\* As above, of a Publication.
LEMMA AddedPublication ==
  ASSUME NEW e, NewEntry(e), e.kind = "publication"
  PROVE  \E a \in DOMAIN arr :
           /\ Publish(a) /\ e.of = a /\ MadeOf(e, arr[a].stream)
<1>1. PICK a \in DOMAIN arr :
        Publish(a) /\ e = Publication(a, arr[a].stream, Room - Cardinality(handed))
  BY DEF NewEntry
<1> QED BY <1>1 DEF Publication, MadeOf

\* As above, of a turn.
LEMMA AddedTurn ==
  ASSUME NEW e, NewEntry(e), e.kind = "turn"
  PROVE  SplitEnds /\ e = [kind |-> "turn", of |-> split.of, parts |-> Parts(split.written, split.failed)]
BY DEF NewEntry, Publication

\* Every chunk stays one of an arrival the transport gates let in.
LEMMA ChunkStep ==
  ASSUME TypeOK, ArrInv, ChunkInv, [Next]_vars
  PROVE  ChunkInv'
<1> SUFFICES ASSUME NEW i \in 1 .. Len(log'), log'[i].kind = "chunk"
             PROVE  log'[i].of \in DOMAIN arr' /\ AtTransport(arr'[log'[i].of].stream) = "passed"
  BY DEF ChunkInv
<1>1. \A a \in DOMAIN arr : a \in DOMAIN arr' /\ arr'[a].stream = arr[a].stream
  BY ArrEach DEF ArrGoes
<1>2. CASE i \in 1 .. Len(log) /\ \A k \in 1 .. i : log'[k] = log[k]
  <2>1. log'[i] = log[i]
    BY <1>2
  <2> QED BY <1>1, <1>2, <2>1 DEF ChunkInv
<1>3. CASE NewEntry(log'[i])
  <2>1. PICK a \in DOMAIN arr : WriteChunk(a) /\ log'[i].of = a
    BY <1>3, AddedChunk
  <2>2. AtTransport(arr[a].stream) = "passed"
    BY <2>1 DEF WriteChunk, ArrInv
  <2> QED BY <1>1, <2>1, <2>2
<1> QED BY <1>2, <1>3, EntryEach

\* What precedes an entry that stays in the log stays before it.
LEMMA WholeStays ==
  ASSUME TypeOK, [Next]_vars, NEW i \in 1 .. Len(log), \A k \in 1 .. i : log'[k] = log[k],
         NEW a \in DOMAIN arr, WholeBefore(i, a)
  PROVE  WholeBefore(i, a)'
<1>1. arr'[a].stream = arr[a].stream
  BY ArrEach DEF ArrGoes
<1>2. \A k \in 1 .. (i - 1) : log'[k] = log[k]
  BY DEF TypeOK
<1> QED BY <1>1, <1>2 DEF WholeBefore

\* What is whole in the log precedes what the step adds.
LEMMA WholeAdded ==
  ASSUME TypeOK, [Next]_vars, \A k \in 1 .. Len(log) : log'[k] = log[k],
         NEW a \in DOMAIN arr, WholeIn(log, a), NEW i, i = Len(log) + 1
  PROVE  WholeBefore(i, a)'
<1>1. arr'[a].stream = arr[a].stream
  BY ArrEach DEF ArrGoes
<1>2. \A e \in Range(log) : \E k \in 1 .. Len(log) : e = log[k]
  BY DEF TypeOK, Range
<1>3. 1 .. (i - 1) = 1 .. Len(log)
  BY DEF TypeOK
<1>4. \A n \in 1 .. arr[a].stream.chunks :
        \E k \in 1 .. Len(log) : log[k].kind = "chunk" /\ log[k].of = a /\ log[k].index = n
  BY <1>2 DEF WholeIn
<1>5. \E k \in 1 .. Len(log) : log[k].kind = "chunk" /\ log[k].of = a /\ log[k].ends
  BY <1>2 DEF WholeIn
<1>6. \A n \in 1 .. arr[a].stream.chunks :
        \E k \in 1 .. Len(log) : log'[k].kind = "chunk" /\ log'[k].of = a /\ log'[k].index = n
  BY <1>4
<1>7. \E k \in 1 .. Len(log) : log'[k].kind = "chunk" /\ log'[k].of = a /\ log'[k].ends
  BY <1>5
<1> QED BY <1>1, <1>3, <1>6, <1>7 DEF WholeBefore

\* Every Publication stays what its Stream makes, of one both passes let in,
\* after that Stream's chunks.
LEMMA PublicationStep ==
  ASSUME TypeOK, ArrInv, PublicationInv, [Next]_vars
  PROVE  PublicationInv'
<1> SUFFICES ASSUME NEW i \in 1 .. Len(log'), log'[i].kind = "publication"
             PROVE  /\ log'[i].of \in DOMAIN arr'
                    /\ MadeOf(log'[i], arr'[log'[i].of].stream)
                    /\ AtTransport(arr'[log'[i].of].stream) = "passed"
                    /\ AtMessage(arr'[log'[i].of].stream) = "passed"
                    /\ WholeBefore(i, log[i].of)'
  BY DEF PublicationInv
<1>1. \A a \in DOMAIN arr : a \in DOMAIN arr' /\ arr'[a].stream = arr[a].stream
  BY ArrEach DEF ArrGoes
<1>2. CASE i \in 1 .. Len(log) /\ \A k \in 1 .. i : log'[k] = log[k]
  <2>1. log'[i] = log[i]
    BY <1>2
  <2>2. /\ log[i].of \in DOMAIN arr
        /\ MadeOf(log[i], arr[log[i].of].stream)
        /\ AtTransport(arr[log[i].of].stream) = "passed"
        /\ AtMessage(arr[log[i].of].stream) = "passed"
        /\ WholeBefore(i, log[i].of)
    BY <1>2, <2>1 DEF PublicationInv
  <2>3. PICK a \in DOMAIN arr : a = log[i].of
    BY <2>2
  <2>4. WholeBefore(i, a)'
    BY <1>2, <2>2, <2>3, WholeStays
  <2>5. WholeBefore(i, log[i].of)'
    BY <2>1, <2>3, <2>4 DEF WholeBefore
  <2> QED BY <1>1, <2>1, <2>2, <2>5
<1>3. CASE i = Len(log) + 1 /\ NewEntry(log'[i]) /\ \A k \in 1 .. Len(log) : log'[k] = log[k]
  <2>1. PICK a \in DOMAIN arr : Publish(a) /\ log'[i].of = a /\ MadeOf(log'[i], arr[a].stream)
    BY <1>3, AddedPublication
  <2>2. AtTransport(arr[a].stream) = "passed" /\ AtMessage(arr[a].stream) = "passed" /\ WholeIn(log, a)
    BY <2>1 DEF Publish, ArrInv
  <2>3. WholeBefore(i, a)'
    BY <1>3, <2>2, WholeAdded
  <2>4. WholeBefore(i, log[i].of)'
    BY <2>1, <2>3 DEF WholeBefore
  <2> QED BY <1>1, <2>1, <2>2, <2>4
<1> QED BY <1>2, <1>3, EntryEach

\* What the gates guard: the arrivals under way, the chunks and the
\* Publications of the log.
GatesInv == TypeOK /\ ArrInv /\ ChunkInv /\ PublicationInv

\* It holds at the start and every step keeps it.
LEMMA GatesAlways == Spec => []GatesInv
<1>1. Init => GatesInv
  BY TypeInit DEF Init, GatesInv, ArrInv, ChunkInv, PublicationInv
<1>2. GatesInv /\ [Next]_vars => GatesInv'
  <2> SUFFICES ASSUME GatesInv, [Next]_vars PROVE GatesInv'
    OBVIOUS
  <2>1. TypeOK /\ ArrInv /\ ChunkInv /\ PublicationInv
    BY DEF GatesInv
  <2>2. TypeOK' /\ ArrInv'
    BY <2>1, TypeStep, ArrInvStep
  <2>3. ChunkInv' /\ PublicationInv'
    BY <2>1, ChunkStep, PublicationStep
  <2> QED BY <2>2, <2>3 DEF GatesInv
<1> QED BY <1>1, <1>2, PTL DEF Spec

\* Nothing of a sender the transport gates refuse is in the Ledger, and every
\* claim a Message's facts name was authenticated and its Party permitted,
\* whatever is lost, retried or crashes (arrival.rs:58-83).
THEOREM NoneRefused == Spec => []OnlyAdmitted
<1>1. GatesInv => OnlyAdmitted
  <2> SUFFICES ASSUME GatesInv PROVE OnlyAdmitted
    OBVIOUS
  <2>1. \A e \in Range(log) : \E i \in 1 .. Len(log) : e = log[i]
    BY DEF GatesInv, TypeOK, Range
  <2>2. ASSUME NEW e \in Written("chunk") PROVE Admitted(TransportClaim(arr[e.of].stream))
    <3>1. PICK i \in 1 .. Len(log) : e = log[i] /\ e.kind = "chunk"
      BY <2>1, <2>2 DEF Written
    <3>2. AtTransport(arr[e.of].stream) = "passed"
      BY <3>1 DEF GatesInv, ChunkInv
    <3> QED BY <3>2, TransportPassed
  <2>3. ASSUME NEW p \in Publications(log), NEW c \in Checked(p) PROVE Admitted(c)
    <3>1. PICK i \in 1 .. Len(log) : p = log[i] /\ p.kind = "publication"
      BY <2>1, <2>3 DEF Publications
    <3>2. /\ MadeOf(p, arr[p.of].stream)
          /\ AtTransport(arr[p.of].stream) = "passed" /\ AtMessage(arr[p.of].stream) = "passed"
      BY <3>1 DEF GatesInv, PublicationInv
    <3> QED BY <2>3, <3>2, CheckedAdmitted
  <2> QED BY <2>2, <2>3 DEF OnlyAdmitted
<1> QED BY <1>1, GatesAlways, PTL

----------------------------------------------------------------------------
(* What was vouched for is durable.                                        *)

\* What the beginning of a sequence holds.
LEMMA PrefixHolds ==
  ASSUME NEW S, NEW q \in Seq(S), NEW n \in 0 .. Len(q)
  PROVE  \A e : e \in Range(SubSeq(q, 1, n)) <=> \E i \in 1 .. n : e = q[i]
<1>1. /\ Len(SubSeq(q, 1, n)) = n /\ DOMAIN SubSeq(q, 1, n) = 1 .. n
      /\ \A i \in 1 .. n : SubSeq(q, 1, n)[i] = q[i]
  OBVIOUS
<1> QED BY <1>1 DEF Range

\* What is durable is in the log, no later than it is synced.
LEMMA DurableAt ==
  ASSUME TypeOK
  PROVE  \A e : e \in Range(Durable) <=> \E i \in 1 .. synced : e = log[i]
BY PrefixHolds DEF TypeOK, Durable

\* Nothing durable is ever lost.
LEMMA DurableGrows ==
  ASSUME TypeOK, [Next]_vars
  PROVE  /\ Range(Durable) \subseteq Range(Durable')
         /\ Publications(Durable) \subseteq Publications(Durable')
         /\ \A a : Of(Durable, a) \subseteq Of(Durable', a)
<1>1. TypeOK'
  BY TypeStep
<1>2. \A e : e \in Range(Durable') <=> \E i \in 1 .. synced' : e = log'[i]
  <2>1. log' \in Seq(Range(log')) /\ synced' \in 0 .. Len(log')
    BY <1>1 DEF TypeOK
  <2> QED BY <2>1, PrefixHolds DEF Durable
<1>3. /\ synced \in Nat /\ synced <= Len(log) /\ synced' \in Nat /\ synced' <= Len(log')
      /\ Len(log) \in Nat /\ Len(log') \in Nat
  BY <1>1 DEF TypeOK
<1>4. synced <= synced' /\ \A i \in 1 .. Len(log') : i <= Len(log) => log'[i] = log[i]
  BY LogGrows
<1>5. \A i \in 1 .. synced : i \in 1 .. synced' /\ log'[i] = log[i]
  BY <1>3, <1>4
<1>6. Range(Durable) \subseteq Range(Durable')
  BY <1>2, <1>5, DurableAt
<1> QED BY <1>6 DEF Publications, Of

\* Whom a step tells of, and what a far end has after it: only of a Publication
\* that is durable.
Vouches ==
  /\ \A s \in Streams : told'[s] = "accepted" =>
       told[s] = "accepted" \/ \E a \in DOMAIN arr : arr[a].stream = s /\ Of(Durable, a) # {}
  /\ \A j \in seen' : j \in seen \/ Of(Durable, j[1]) # {}

\* A sender told another verdict.
LEMMA VouchesNot ==
  ASSUME TypeOK, UNCHANGED seen, NEW x, NEW v, v # "accepted", told' = [told EXCEPT ![x] = v]
  PROVE  Vouches
BY DEF TypeOK, Vouches

\* A step that tells no sender and lets nothing out.
LEMMA VouchesNone ==
  ASSUME UNCHANGED <<told, seen>>
  PROVE  Vouches
BY DEF Vouches

\* Every step vouches for nothing else.
LEMMA VouchesEach ==
  ASSUME TypeOK, [Next]_vars
  PROVE  Vouches
<1>1. ASSUME NEW s \in Streams, Arrive(s)
      PROVE  Vouches
  <2>1. AtTransport(s) # "accepted"
    BY TransportPassed
  <2>2. PICK v : v # "accepted" /\ told' = [told EXCEPT ![s] = v]
    BY <1>1, <2>1 DEF Arrive
  <2> QED BY <1>1, <2>2, VouchesNot DEF Arrive
<1>2. ASSUME NEW a \in DOMAIN arr, WriteChunk(a)
      PROVE  Vouches
  BY <1>2, VouchesNone DEF WriteChunk
<1>3. ASSUME NEW a \in DOMAIN arr, WriteFails(a)
      PROVE  Vouches
  BY <1>3, VouchesNot DEF WriteFails, Ends
<1>4. ASSUME NEW a \in DOMAIN arr, Settle(a)
      PROVE  Vouches
  <2>1. AtMessage(arr[a].stream) # "accepted"
    BY MessagePassed
  <2> QED BY <1>4, <2>1, VouchesNot, VouchesNone DEF Settle, Ends
<1>5. ASSUME NEW a \in DOMAIN arr, Publish(a)
      PROVE  Vouches
  BY <1>5, VouchesNot, VouchesNone DEF Publish, Ends
<1>6. ASSUME NEW a \in DOMAIN arr, PublishFails(a)
      PROVE  Vouches
  BY <1>6, VouchesNot DEF PublishFails, Ends
<1>7. ASSUME NEW a \in DOMAIN arr, Hand(a)
      PROVE  Vouches
  BY <1>7, VouchesNone DEF Hand
<1>8. ASSUME NEW a \in DOMAIN arr, Acknowledge(a)
      PROVE  Vouches
  <2>1. CASE Unheard(a)
    BY <1>8, <2>1, VouchesNone DEF Acknowledge, Unheard
  <2>2. CASE Ends(a, "failed")
    BY <1>8, <2>2, VouchesNot DEF Acknowledge, Ends
  <2>3. CASE Of(Durable, a) # {} /\ Ends(a, "accepted")
    BY <1>8, <2>3 DEF Acknowledge, Ends, TypeOK, Vouches
  <2> QED BY <1>8, <2>1, <2>2, <2>3 DEF Acknowledge
<1>9. ASSUME NEW a \in DOMAIN arr, Panics(a)
      PROVE  Vouches
  BY <1>9, VouchesNot DEF Panics, Ends
<1>10. ASSUME Sync
      PROVE  Vouches
  BY <1>10, VouchesNone DEF Sync
<1>11. ASSUME SyncFails
      PROVE  Vouches
  BY <1>11, VouchesNone DEF SyncFails
<1>12. ASSUME Crash
      PROVE  Vouches
  BY <1>12, VouchesNone DEF Crash
<1>13. ASSUME NEW j \in handed, Depart(j)
      PROVE  Vouches
  BY <1>13 DEF Depart, Vouches
<1>14. ASSUME NEW j \in Journeys, Scan(j)
      PROVE  Vouches
  BY <1>14, VouchesNone DEF Scan
<1>15. ASSUME NEW j \in Journeys, SplitBegins(j)
      PROVE  Vouches
  BY <1>15, VouchesNone DEF SplitBegins
<1>16. ASSUME SplitRecord
      PROVE  Vouches
  BY <1>16, VouchesNone DEF SplitRecord
<1>17. ASSUME SplitFails
      PROVE  Vouches
  BY <1>17, VouchesNone DEF SplitFails
<1>18. ASSUME SplitEnds
      PROVE  Vouches
  BY <1>18, VouchesNone DEF SplitEnds
<1>19. CASE UNCHANGED vars
  BY <1>19, VouchesNone
<1> QED
  BY <1>1, <1>2, <1>3, <1>4, <1>5, <1>6, <1>7, <1>8, <1>9, <1>10, <1>11,
     <1>12, <1>13, <1>14, <1>15, <1>16, <1>17, <1>18, <1>19
     DEF Next, Arrivals, Sends

\* A Publication that is durable is what its Stream makes, and so are that
\* Stream's chunks, written before it.
LEMMA DurableWhole ==
  ASSUME GatesInv, NEW p \in Publications(Durable)
  PROVE  /\ p.of \in DOMAIN arr /\ MadeOf(p, arr[p.of].stream) /\ WholeIn(Durable, p.of)
<1> USE DEF GatesInv
<1>1. PICK i \in 1 .. synced : p = log[i] /\ p.kind = "publication"
  BY DurableAt DEF Publications
<1>2. i \in 1 .. Len(log) /\ synced \in Nat
  BY DEF TypeOK
<1>3. p.of \in DOMAIN arr /\ MadeOf(p, arr[p.of].stream) /\ WholeBefore(i, p.of)
  BY <1>1, <1>2 DEF PublicationInv
<1>4. \A k \in 1 .. (i - 1) : log[k] \in Range(Durable)
  <2> TAKE k \in 1 .. (i - 1)
  <2>1. k \in 1 .. synced
    BY <1>2
  <2> QED BY <2>1, DurableAt
<1> QED BY <1>3, <1>4 DEF WholeBefore, WholeIn

\* What stays durable stays whole.
LEMMA WholeKept ==
  ASSUME TypeOK, [Next]_vars, NEW a \in DOMAIN arr, WholeIn(Durable, a)
  PROVE  WholeIn(Durable, a)'
<1>1. arr'[a].stream = arr[a].stream
  BY ArrEach DEF ArrGoes
<1>2. Range(Durable) \subseteq Range(Durable')
  BY DurableGrows
<1> QED BY <1>1, <1>2 DEF WholeIn

\* Every step keeps what was vouched for durable.
LEMMA VouchedStep ==
  ASSUME GatesInv, AcceptedDurable, SeenKept, [Next]_vars
  PROVE  AcceptedDurable' /\ SeenKept'
<1>1. TypeOK /\ Publications(Durable) \subseteq Publications(Durable')
             /\ \A a : Of(Durable, a) \subseteq Of(Durable', a)
  BY DurableGrows DEF GatesInv
<1>2. AcceptedDurable'
  <2> SUFFICES ASSUME NEW s \in Streams, told'[s] = "accepted"
               PROVE  \E p \in Publications(Durable') : MadeOf(p, s) /\ WholeIn(Durable, p.of)'
    BY DEF AcceptedDurable
  <2>1. PICK p \in Publications(Durable) : MadeOf(p, s)
    <3>1. CASE told[s] = "accepted"
      BY <3>1 DEF AcceptedDurable
    <3>2. CASE \E a \in DOMAIN arr : arr[a].stream = s /\ Of(Durable, a) # {}
      BY <3>2, DurableWhole DEF Of
    <3> QED BY <1>1, <3>1, <3>2, VouchesEach DEF Vouches
  <2>2. PICK a \in DOMAIN arr : a = p.of /\ WholeIn(Durable, a)
    BY DurableWhole
  <2>3. WholeIn(Durable, a)'
    BY <1>1, <2>2, WholeKept
  <2>4. WholeIn(Durable, p.of)'
    BY <2>2, <2>3
  <2> QED BY <1>1, <2>1, <2>4
<1>3. SeenKept'
  <2> SUFFICES ASSUME NEW j \in seen' PROVE Of(Durable', j[1]) # {}
    BY DEF SeenKept
  <2>1. Of(Durable, j[1]) # {}
    BY <1>1, VouchesEach DEF Vouches, SeenKept
  <2> QED BY <1>1, <2>1
<1> QED BY <1>2, <1>3

\* Of every Stream whose sender was told it is accepted the durable Ledger has
\* the chunks whole and the Publication the Stream makes, and it has the
\* Publication of every Message a far end has: whatever crashes, whichever sync
\* fails and whatever is sent again (ledger.rs:18-24, departure.rs:305-319).
THEOREM VouchedDurable == Spec => [](AcceptedDurable /\ SeenKept)
<1>1. Init => AcceptedDurable /\ SeenKept
  BY DEF Init, AcceptedDurable, SeenKept
<1>2. GatesInv /\ AcceptedDurable /\ SeenKept /\ [Next]_vars => AcceptedDurable' /\ SeenKept'
  BY VouchedStep
<1> QED BY <1>1, <1>2, GatesAlways, PTL DEF Spec

\* Two Publications of one Stream route it alike: what a Stream's own
\* Publication satisfies, every one in the log does.
LEMMA MadeAlike ==
  ASSUME NEW s, NEW p, MadeOf(p, s)
  PROVE  /\ Routed(Publication(1, s, Room)) => Routed(p)
         /\ Accounted(Publication(1, s, Room)) => Accounted(p)
         /\ EachOpened(Publication(1, s, Room)) => EachOpened(p)
<1> DEFINE q == Publication(1, s, Room)
<1>1. /\ q.stream = s /\ q.facts = MessageFacts(s) /\ q.context = Context(MessageFacts(s))
      /\ q.journeys = Opened(s) /\ q.held = Held(Opened(s)) /\ q.lined = Departing(Opened(s))
      /\ q.delivery = GroupDelivery(Opened(s)) /\ q.dead = Dead(s, Opened(s))
      /\ q.audit = Audited(Opened(s))
  BY DEF Publication
<1>2. /\ p.stream = q.stream /\ p.facts = q.facts /\ p.context = q.context
      /\ p.journeys = q.journeys /\ p.held = q.held /\ p.lined = q.lined
      /\ p.delivery = q.delivery /\ p.dead = q.dead /\ p.audit = q.audit
  BY <1>1 DEF MadeOf
<1> HIDE DEF q
<1>3. Routed(q) => Routed(p)
  BY <1>2 DEF Routed
<1>4. Accounted(q) => Accounted(p)
  BY <1>2 DEF Accounted, Checked
<1>5. EachOpened(q) => EachOpened(p)
  BY <1>2 DEF EachOpened
<1> QED BY <1>3, <1>4, <1>5 DEF q

\* With a routing that leaves no Stream out, nothing the runtime vouched for is
\* ever lost: an accepted Stream's Journeys or its Dead Message Queue entry are
\* durable with its chunks (ledger.rs, departure.rs).
THEOREM VouchedKept ==
  ASSUME RoutesAll
  PROVE  Spec => []Kept
<1>1. AcceptedDurable /\ SeenKept => Kept
  <2> SUFFICES ASSUME AcceptedDurable, SeenKept PROVE AcceptedKept
    BY DEF Kept
  <2> SUFFICES ASSUME NEW s \in Streams, told[s] = "accepted"
               PROVE  \E p \in Publications(Durable) :
                        p.stream = s /\ WholeIn(Durable, p.of) /\ Routed(p)
    BY DEF AcceptedKept
  <2>1. PICK p \in Publications(Durable) : MadeOf(p, s) /\ WholeIn(Durable, p.of)
    BY DEF AcceptedDurable
  <2>2. Routed(p)
    BY <2>1, MadeAlike DEF RoutesAll
  <2>3. p.stream = s
    BY <2>1 DEF MadeOf
  <2> QED BY <2>1, <2>2, <2>3
<1> QED BY <1>1, VouchedDurable, PTL

\* With facts that leave no claim out, the Ledger holds nothing a gate refused
\* and every Publication in it accounts for each claim presented, whenever it
\* was written (arrival.rs:58-83, 113-127).
THEOREM ClaimsAccounted ==
  ASSUME AccountsAll
  PROVE  Spec => []GatesPassed
<1>1. GatesInv => \A p \in Publications(log) : Accounted(p)
  <2> SUFFICES ASSUME GatesInv, NEW p \in Publications(log) PROVE Accounted(p)
    OBVIOUS
  <2>1. PICK i \in 1 .. Len(log) : p = log[i] /\ p.kind = "publication"
    BY DEF GatesInv, TypeOK, Range, Publications
  <2>2. MadeOf(p, arr[p.of].stream) /\ p.of \in DOMAIN arr
    BY <2>1 DEF GatesInv, PublicationInv
  <2>3. arr[p.of].stream \in Streams
    BY <2>2, Arrived DEF GatesInv
  <2> QED BY <2>2, <2>3, MadeAlike DEF AccountsAll
<1>2. OnlyAdmitted /\ (\A p \in Publications(log) : Accounted(p)) => GatesPassed
  BY DEF GatesPassed
<1> QED BY <1>1, <1>2, GatesAlways, NoneRefused, PTL

----------------------------------------------------------------------------
(* A debatch is all or nothing.                                            *)

\* A splitting that goes on as it was, its Message's arrival still there.
LEMMA SplitLeft ==
  ASSUME SplitInv, ArrGoes, UNCHANGED split
  PROVE  SplitInv'
<1>1. split # None => arr'[split.of[1]].stream = arr[split.of[1]].stream /\ split.of[1] \in DOMAIN arr'
  BY DEF SplitInv, ArrGoes
<1> QED BY <1>1 DEF SplitInv, Rows

\* No splitting.
LEMMA SplitNone ==
  ASSUME split' = None
  PROVE  SplitInv'
BY DEF SplitInv

\* Of an arrival there is, the rows.
LEMMA RowsTyped ==
  ASSUME TypeOK, NEW a \in DOMAIN arr
  PROVE  /\ arr[a].stream.rows \in Seq({"part", "refused"})
         /\ Len(arr[a].stream.rows) \in Nat
         /\ DOMAIN arr[a].stream.rows = 1 .. Len(arr[a].stream.rows)
<1>1. arr[a].stream.rows \in Seq({"part", "refused"})
  BY Arrived
<1> QED BY <1>1

\* The numbers up to the next are those up to this one and it.
LEMMA Counting ==
  ASSUME NEW k \in Nat
  PROVE  Append([n \in 1 .. k |-> n], k + 1) = [n \in 1 .. k + 1 |-> n]
<1> DEFINE q == [n \in 1 .. k |-> n]
<1>1. q \in Seq(Nat) /\ Len(q) = k
  OBVIOUS
<1>2. /\ DOMAIN Append(q, k + 1) = 1 .. k + 1 /\ Append(q, k + 1)[k + 1] = k + 1
      /\ \A i \in 1 .. k : Append(q, k + 1)[i] = q[i]
  BY <1>1, OneAppended
<1>3. \A i \in 1 .. k + 1 : Append(q, k + 1)[i] = i
  BY <1>2
<1>4. Append(q, k + 1) \in Seq(Nat)
  BY <1>1
<1> QED BY <1>2, <1>3, <1>4

\* Every step keeps what a splitting has taken in step with what it wrote.
LEMMA SplitStep ==
  ASSUME TypeOK, PublicationInv, SplitInv, [Next]_vars
  PROVE  SplitInv'
<1> USE ArrEach
<1>1. ASSUME NEW s \in Streams, Arrive(s)
      PROVE  SplitInv'
  BY <1>1, SplitLeft DEF Arrive
<1>2. ASSUME NEW a \in DOMAIN arr, WriteChunk(a)
      PROVE  SplitInv'
  BY <1>2, SplitLeft DEF WriteChunk
<1>3. ASSUME NEW a \in DOMAIN arr, WriteFails(a)
      PROVE  SplitInv'
  BY <1>3, SplitLeft DEF WriteFails
<1>4. ASSUME NEW a \in DOMAIN arr, Settle(a)
      PROVE  SplitInv'
  BY <1>4, SplitLeft DEF Settle
<1>5. ASSUME NEW a \in DOMAIN arr, Publish(a)
      PROVE  SplitInv'
  BY <1>5, SplitLeft DEF Publish
<1>6. ASSUME NEW a \in DOMAIN arr, PublishFails(a)
      PROVE  SplitInv'
  BY <1>6, SplitLeft DEF PublishFails
<1>7. ASSUME NEW a \in DOMAIN arr, Hand(a)
      PROVE  SplitInv'
  BY <1>7, SplitLeft DEF Hand
<1>8. ASSUME NEW a \in DOMAIN arr, Acknowledge(a)
      PROVE  SplitInv'
  BY <1>8, SplitLeft DEF Acknowledge
<1>9. ASSUME NEW a \in DOMAIN arr, Panics(a)
      PROVE  SplitInv'
  BY <1>9, SplitLeft DEF Panics
<1>10. ASSUME Sync
      PROVE  SplitInv'
  BY <1>10, SplitLeft DEF Sync
<1>11. ASSUME SyncFails
      PROVE  SplitInv'
  BY <1>11, SplitLeft DEF SyncFails
<1>12. ASSUME Crash
      PROVE  SplitInv'
  BY <1>12, SplitNone DEF Crash
<1>13. ASSUME NEW j \in handed, Depart(j)
      PROVE  SplitInv'
  BY <1>13, SplitLeft DEF Depart
<1>14. ASSUME NEW j \in Journeys, Scan(j)
      PROVE  SplitInv'
  BY <1>14, SplitLeft DEF Scan
<1>15. ASSUME NEW j \in Journeys, SplitBegins(j)
      PROVE  SplitInv'
  <2>1. PICK p \in Publications(log) : \E i : j = <<p.of, i>>
    BY DEF Journeys
  <2>2. PICK k \in 1 .. Len(log) : p = log[k] /\ p.kind = "publication"
    BY <2>1 DEF TypeOK, Range, Publications
  <2>3. j[1] \in DOMAIN arr
    BY <2>1, <2>2 DEF PublicationInv
  <2>4. split' = [of |-> j, took |-> 0, written |-> <<>>, failed |-> {}] /\ UNCHANGED arr
    BY <1>15 DEF SplitBegins
  <2>5. Len(arr[j[1]].stream.rows) \in Nat
    BY <2>3, RowsTyped
  <2>6. split'.of = j /\ split'.took = 0 /\ split'.written = <<>> /\ split'.failed = {}
    BY <2>4
  <2>7. <<>> = [n \in 1 .. 0 |-> n] /\ 1 .. 0 = {}
    OBVIOUS
  <2>8. 0 \in 0 .. Len(arr[j[1]].stream.rows)
    BY <2>5
  <2> QED BY <2>3, <2>4, <2>6, <2>7, <2>8 DEF SplitInv, Rows
<1>16. ASSUME SplitRecord
      PROVE  SplitInv'
  <2> DEFINE n == split.took + 1
             rows == arr[split.of[1]].stream.rows
  <2>1. split.of[1] \in DOMAIN arr /\ split.took \in 0 .. Len(rows) /\ split.took < Len(rows)
    BY <1>16 DEF SplitRecord, SplitInv, Rows
  <2>2. rows \in Seq({"part", "refused"}) /\ Len(rows) \in Nat
    BY <2>1, RowsTyped
  <2>3. /\ split'.of = split.of /\ split'.took = n /\ UNCHANGED arr
        /\ split'.written = IF rows[n] = "part" /\ split.failed = {}
                              THEN Append(split.written, n) ELSE split.written
        /\ split'.failed = IF rows[n] = "part" THEN split.failed ELSE split.failed \cup {n}
    BY <1>16 DEF SplitRecord, Rows
  <2>4. n \in 1 .. Len(rows) /\ n \in 0 .. Len(rows) /\ split.took \in Nat
    BY <2>1, <2>2
  <2>5. CASE split.failed = {} /\ rows[n] = "part"
    <3>1. split.written = [k \in 1 .. split.took |-> k] /\ \A k \in 1 .. split.took : rows[k] = "part"
      BY <1>16, <2>5 DEF SplitRecord, SplitInv, Rows
    <3>2. split'.written = [k \in 1 .. n |-> k] /\ split'.failed = {}
      BY <2>3, <2>4, <2>5, <3>1, Counting
    <3>3. \A k \in 1 .. n : rows[k] = "part"
      <4> TAKE k \in 1 .. n
      <4>1. k \in 1 .. split.took \/ k = n
        BY <2>4
      <4> QED BY <2>5, <3>1, <4>1
    <3> HIDE DEF n
    <3> QED BY <2>1, <2>3, <2>4, <3>2, <3>3 DEF SplitInv, Rows
  <2>6. CASE ~(split.failed = {} /\ rows[n] = "part")
    <3>1. \E k \in 1 .. Len(rows) : rows[k] # "part"
      <4>1. CASE split.failed = {}
        BY <2>4, <2>6, <4>1
      <4>2. CASE split.failed # {}
        BY <1>16, <4>2 DEF SplitRecord, SplitInv, Rows
      <4> QED BY <4>1, <4>2
    <3>2. split'.failed # {}
      BY <2>3, <2>6
    <3> HIDE DEF n
    <3> QED BY <2>1, <2>3, <2>4, <3>1, <3>2 DEF SplitInv, Rows
  <2> QED BY <2>5, <2>6
<1>17. ASSUME SplitFails
      PROVE  SplitInv'
  BY <1>17, SplitNone DEF SplitFails
<1>18. ASSUME SplitEnds
      PROVE  SplitInv'
  BY <1>18, SplitNone DEF SplitEnds
<1>19. CASE UNCHANGED vars
  BY <1>19, SplitLeft
<1> QED
  BY <1>1, <1>2, <1>3, <1>4, <1>5, <1>6, <1>7, <1>8, <1>9, <1>10, <1>11,
     <1>12, <1>13, <1>14, <1>15, <1>16, <1>17, <1>18, <1>19
     DEF Next, Arrivals, Sends

\* What one turn in the log made of its Message, at its place in the log.
TurnMade(i) ==
  LET rows == arr[log[i].of[1]].stream.rows
      made == log[i].parts
  IN IF \A n \in DOMAIN rows : rows[n] = "part"
       THEN /\ Len(made) = Len(rows)
            /\ \A n \in DOMAIN rows :
                 /\ made[n] = [row |-> n, position |-> n, count |-> Len(rows)]
                 /\ \E k \in 1..(i - 1) : log[k] = [kind |-> "record", of |-> log[i].of, row |-> n]
       ELSE made = <<>>

\* The turn a splitting ends with makes every row a part, or none.
LEMMA TurnAdded ==
  ASSUME TypeOK, SplitInv, SplitEnds, ArrGoes, NEW i, i = Len(log) + 1,
         \A k \in 1 .. Len(log) : log'[k] = log[k],
         log'[i] = [kind |-> "turn", of |-> split.of, parts |-> Parts(split.written, split.failed)]
  PROVE  log'[i].of[1] \in DOMAIN arr' /\ TurnMade(i)'
<1> DEFINE rows == arr[split.of[1]].stream.rows
           made == Parts(split.written, split.failed)
<1>1. split.of[1] \in DOMAIN arr /\ split.took = Len(rows)
  BY DEF SplitEnds, SplitInv, Rows
<1>2. rows \in Seq({"part", "refused"}) /\ Len(rows) \in Nat /\ DOMAIN rows = 1 .. Len(rows)
  BY <1>1, RowsTyped
<1>3. log'[i].of = split.of /\ log'[i].parts = made
      /\ arr'[split.of[1]].stream.rows = rows /\ split.of[1] \in DOMAIN arr'
  BY <1>1 DEF ArrGoes
<1>4. 1 .. (i - 1) = 1 .. Len(log)
  BY DEF TypeOK
<1>5. CASE split.failed = {}
  <2>1. split.written = [n \in 1 .. Len(rows) |-> n] /\ \A n \in DOMAIN rows : rows[n] = "part"
    BY <1>1, <1>2, <1>5 DEF SplitEnds, SplitInv, Rows
  <2>2. DOMAIN split.written = 1 .. Len(rows) /\ \A n \in 1 .. Len(rows) : split.written[n] = n
    BY <2>1
  <2>3. Len(split.written) = Len(rows)
    BY <2>1, <1>2
  <2>4. made = [n \in 1 .. Len(rows) |-> [row |-> n, position |-> n, count |-> Len(rows)]]
    BY <1>5, <2>2, <2>3 DEF Parts
  <2>5. Len(made) = Len(rows)
    BY <1>2, <2>4
  <2>6. \A n \in 1 .. Len(rows) : made[n] = [row |-> n, position |-> n, count |-> Len(rows)]
    BY <2>4
  <2>7. \A n \in 1 .. Len(rows) : [kind |-> "record", of |-> split.of, row |-> n] \in Range(log)
    BY <2>2 DEF SplitEnds
  <2>8. \A e \in Range(log) : \E k \in 1 .. Len(log) : log'[k] = e
    BY DEF TypeOK, Range
  <2>9. \A n \in 1 .. Len(rows) :
          \E k \in 1 .. (i - 1) : log'[k] = [kind |-> "record", of |-> split.of, row |-> n]
    BY <1>4, <2>7, <2>8
  <2> HIDE DEF rows, made
  <2>10. arr'[log'[i].of[1]].stream.rows = rows
    BY <1>3
  <2>11. \A n \in DOMAIN rows :
           /\ made[n] = [row |-> n, position |-> n, count |-> Len(rows)]
           /\ \E k \in 1 .. (i - 1) : log'[k] = [kind |-> "record", of |-> log'[i].of, row |-> n]
    BY <1>2, <1>3, <2>6, <2>9
  <2> QED BY <1>3, <2>1, <2>5, <2>10, <2>11 DEF TurnMade
<1>6. CASE split.failed # {}
  <2>1. ~ \A n \in DOMAIN rows : rows[n] = "part"
    BY <1>2, <1>6 DEF SplitEnds, SplitInv, Rows
  <2>2. made = <<>>
    BY <1>6 DEF Parts
  <2> HIDE DEF rows, made
  <2> QED BY <1>3, <2>1, <2>2 DEF TurnMade
<1> QED BY <1>5, <1>6

\* What a turn made stays, and the records before it with it.
LEMMA TurnStays ==
  ASSUME TypeOK, ArrGoes, NEW i \in 1 .. Len(log), \A k \in 1 .. i : log'[k] = log[k],
         log[i].of[1] \in DOMAIN arr, TurnMade(i)
  PROVE  log'[i].of[1] \in DOMAIN arr' /\ TurnMade(i)'
<1>1. log'[i] = log[i] /\ \A k \in 1 .. (i - 1) : log'[k] = log[k]
  BY DEF TypeOK
<1>2. arr'[log[i].of[1]].stream = arr[log[i].of[1]].stream /\ log[i].of[1] \in DOMAIN arr'
  BY DEF ArrGoes
<1> QED BY <1>1, <1>2 DEF TurnMade

\* What the log holds of debatches, and the one under way.
DebatchInv == SplitInv /\ TurnInv /\ AllOrNone

\* Every step keeps it.
LEMMA DebatchStep ==
  ASSUME GatesInv, DebatchInv, [Next]_vars
  PROVE  DebatchInv'
<1> USE DEF GatesInv, DebatchInv
<1>1. SplitInv' /\ ArrGoes
  BY SplitStep, ArrEach
<1>2. DOMAIN log = 1 .. Len(log) /\ DOMAIN log' = 1 .. Len(log')
  BY LogGrows DEF TypeOK
<1>3. ASSUME NEW i \in 1 .. Len(log'), log'[i].kind = "turn"
      PROVE  log'[i].of[1] \in DOMAIN arr' /\ TurnMade(i)'
  <2>1. CASE i \in 1 .. Len(log) /\ \A k \in 1 .. i : log'[k] = log[k]
    <3>1. log[i].kind = "turn"
      BY <1>3, <2>1
    <3>2. log[i].of[1] \in DOMAIN arr
      BY <2>1, <3>1 DEF TurnInv
    <3>3. TurnMade(i)
      BY <1>2, <2>1, <3>1 DEF AllOrNone, TurnMade
    <3> QED BY <1>1, <2>1, <3>2, <3>3, TurnStays
  <2>2. CASE i = Len(log) + 1 /\ NewEntry(log'[i]) /\ \A k \in 1 .. Len(log) : log'[k] = log[k]
    BY <1>1, <1>3, <2>2, AddedTurn, TurnAdded
  <2> QED BY <2>1, <2>2, EntryEach
<1>4. TurnInv'
  BY <1>3 DEF TurnInv
<1>5. AllOrNone'
  BY <1>2, <1>3 DEF AllOrNone, TurnMade
<1> QED BY <1>1, <1>4, <1>5

\* It holds from the start.
LEMMA DebatchAlways == Spec => []DebatchInv
<1>1. Init => DebatchInv
  BY DEF Init, DebatchInv, SplitInv, TurnInv, AllOrNone
<1>2. GatesInv /\ DebatchInv /\ [Next]_vars => DebatchInv'
  BY DebatchStep
<1> QED BY <1>1, <1>2, GatesAlways, PTL DEF Spec

\* A Message's debatch makes every record a part, in its order and with its
\* Stream in the Ledger before it, or none where any record was refused,
\* whatever a failed sync or a crash took of it (split.rs:6-25).
THEOREM DebatchWhole == Spec => []AllOrNone
BY DebatchAlways, PTL DEF DebatchInv

\* With a routing that opens each Journey once, what every Publication in the
\* log opened and every debatch made is whole (publication.rs, split.rs).
THEOREM WholeAlways ==
  ASSUME OpensAll
  PROVE  Spec => []Whole
<1>1. GatesInv => OneEach
  <2> SUFFICES ASSUME GatesInv, NEW p \in Publications(log) PROVE EachOpened(p)
    BY DEF OneEach
  <2>1. PICK i \in 1 .. Len(log) : p = log[i] /\ p.kind = "publication"
    BY DEF GatesInv, TypeOK, Range, Publications
  <2>2. MadeOf(p, arr[p.of].stream) /\ p.of \in DOMAIN arr
    BY <2>1 DEF GatesInv, PublicationInv
  <2>3. arr[p.of].stream \in Streams
    BY <2>2, Arrived DEF GatesInv
  <2> QED BY <2>2, <2>3, MadeAlike DEF OpensAll
<1>2. OneEach /\ AllOrNone => Whole
  BY DEF Whole
<1> QED BY <1>1, <1>2, GatesAlways, DebatchWhole, PTL

==============================================================================
