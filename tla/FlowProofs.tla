------------------------------ MODULE FlowProofs ------------------------------
(***************************************************************************)
(* What is proved of how a node lends what it sends and takes what         *)
(* arrives, two parts that share no state, for every value of their        *)
(* constants.                                                              *)
(*                                                                         *)
(*   StreamShare  A departure takes every chunk of its Stream, once and in *)
(*                order, off one read at a time, and what is kept for it   *)
(*                is bounded.                                              *)
(*   Receiving    The places and bytes held are those of what runs, what   *)
(*                is queued has a thread coming for it, a drain takes what *)
(*                it was to take, and an ordered Location tells in order.  *)
(***************************************************************************)
EXTENDS Receiving, StreamShare, FiniteSetTheorems, SequenceTheorems, TLAPS

----------------------------------------------------------------------------
(***************************************************************************)
(* StreamShare: one Stream lent to the departures that send it.            *)
(***************************************************************************)

USE DeparturesAssumption, BoundsAssumption
USE DEF shareVars

Taking == {"between", "asks", "behind", "done", "failed"}

\* A read keeps the chunks from its first place up to its next, each in its place.
WindowInv ==
  \A r \in Ids :
    LET s == source[r]
    IN  /\ s.first <= s.next /\ s.next <= Length
        /\ Len(s.window) = s.next - s.first
        /\ \A k \in 1 .. Len(s.window) : s.window[k] = s.first + k - 1
        /\ s.ended => s.next = Length

\* A departure is a reader of the read it is on, once it has joined it, and of
\* no other; the one read without any is the one picked under the lock.
OnInv ==
  /\ \A d \in Departures :
       /\ \A r \in Ids : d \in source[r].readers <=> on[d] = r /\ at[d] \in Taking
       /\ at[d] \in {"new", "gone"} <=> on[d] = None
       /\ on[d] # None => on[d] \in Range(reads)
       /\ at[d] \in {"joins", "rejoins"} <=> joining = d
  /\ \A r \in Range(reads) :
       source[r].readers = {} => joining # None /\ on[joining] = r

ShareInv == ShareTypeOK /\ WindowInv /\ EveryChunk /\ OnInv /\ HeldBounded

----------------------------------------------------------------------------
(* Numbers.                                                                *)

LEMMA IdsAre == Cardinality(Departures) \in Nat /\ Ids \subseteq Nat /\ None \notin Ids
BY FS_CardinalityType DEF Ids, None

\* More readers, more kept.
LEMMA KeptGrows ==
  ASSUME NEW T \in SUBSET Departures, NEW S \in SUBSET T
  PROVE  /\ Kept(Cardinality(S)) \in Nat \ {0} /\ Kept(Cardinality(T)) \in Nat \ {0}
         /\ Kept(Cardinality(S)) <= Kept(Cardinality(T))
<1>1. /\ Cardinality(S) \in Nat /\ Cardinality(T) \in Nat
      /\ Cardinality(S) <= Cardinality(T)
  <2>1. IsFiniteSet(T)
    BY FS_Subset
  <2> QED
    BY <2>1, FS_Subset, FS_CardinalityType
<1>2. ASSUME NEW a \in Int, NEW b \in Int, NEW k \in Nat, a <= b PROVE k * a <= k * b /\ k * a \in Int
  BY <1>2
<1>3. KeptPerReader * (Cardinality(S) - 1) <= KeptPerReader * (Cardinality(T) - 1)
  BY <1>1, <1>2
<1>4. KeptPerReader * (Cardinality(S) - 1) \in Int /\ KeptPerReader * (Cardinality(T) - 1) \in Int
  BY <1>1
<1> QED
  BY <1>3, <1>4 DEF Kept, Larger

\* Who has come is never again one that has not.
Come == \A e \in Departures : at[e] # "new" => at'[e] # "new"

LEMMA MostGrows ==
  ASSUME Come
  PROVE  MostKept \in Nat /\ MostKept' \in Nat /\ MostKept <= MostKept'
<1> DEFINE S == {d \in Departures : at[d] # "new"}
           T == {d \in Departures : at'[d] # "new"}
<1>1. T \in SUBSET Departures /\ S \in SUBSET T
  BY DEF Come
<1>2. MostKept = Kept(Cardinality(S)) /\ MostKept' = Kept(Cardinality(T))
  BY DEF MostKept, Kept, Larger
<1> HIDE DEF S, T
<1>3. /\ Kept(Cardinality(S)) \in Nat /\ Kept(Cardinality(T)) \in Nat
      /\ Kept(Cardinality(S)) <= Kept(Cardinality(T))
  BY <1>1, KeptGrows
<1> QED
  BY <1>2, <1>3

\* A read that keeps as many chunks as before keeps no more than it may.
LEMMA HeldKeeps ==
  ASSUME Come, HeldBounded, source \in [Ids -> Sources],
         NEW r \in Ids, source'[r].window = source[r].window
  PROVE  Len(source'[r].window) <= MostKept'
<1>1. Len(source[r].window) \in Nat /\ Len(source[r].window) <= MostKept
  BY DEF HeldBounded, Sources
<1> QED
  BY <1>1, MostGrows

----------------------------------------------------------------------------
(* The reads: one opened, one let go of.                                   *)

LEMMA OpenedIs ==
  ASSUME NEW r \in Range(reads)
  PROVE  Opened(r) \in DOMAIN reads /\ reads[Opened(r)] = r
BY DEF Opened, Range

LEMMA RangeIds == ASSUME ShareTypeOK PROVE Range(reads) \subseteq Ids
BY DEF ShareTypeOK, Range

LEMMA AppendIs ==
  ASSUME NEW q \in Seq(Ids), IsInjective(q), NEW r \in Ids, r \notin Range(q)
  PROVE  /\ Append(q, r) \in Seq(Ids) /\ IsInjective(Append(q, r))
         /\ Range(Append(q, r)) = Range(q) \cup {r}
<1> DEFINE t == Append(q, r)
<1>1. /\ t \in Seq(Ids)
      /\ DOMAIN t = 1 .. Len(q) + 1 /\ DOMAIN q = 1 .. Len(q) /\ Len(q) \in Nat
      /\ \A k \in 1 .. Len(q) : t[k] = q[k]
      /\ t[Len(q) + 1] = r
  OBVIOUS
<1> HIDE DEF t
<1>2. IsInjective(t) /\ Range(t) = Range(q) \cup {r}
  BY <1>1 DEF IsInjective, Range
<1> QED
  BY <1>1, <1>2 DEF t

\* One read taken out leaves the others, each once.
LEMMA RemovedIs ==
  ASSUME NEW q \in Seq(Ids), IsInjective(q), NEW p \in DOMAIN q
  PROVE  /\ RemoveAt(q, p) \in Seq(Ids) /\ IsInjective(RemoveAt(q, p))
         /\ Range(RemoveAt(q, p)) = Range(q) \ {q[p]}
<1> DEFINE t == RemoveAt(q, p)
           a == SubSeq(q, 1, p - 1)
           b == SubSeq(q, p + 1, Len(q))
<1>1. DOMAIN q = 1 .. Len(q) /\ Len(q) \in Nat /\ p \in 1 .. Len(q)
  OBVIOUS
<1>2. a \in Seq(Ids) /\ Len(a) = p - 1 /\ \A i \in 1 .. p - 1 : a[i] = q[i]
  BY <1>1
<1>3. /\ p + 1 \in 1 .. Len(q) + 1 /\ Len(q) \in (p + 1) - 1 .. Len(q)
      /\ Len(q) - (p + 1) + 1 = Len(q) - p
      /\ \A i \in 1 .. Len(q) - p : p + 1 + i - 1 = i + p
  BY <1>1
<1>4. /\ b \in Seq(Ids) /\ Len(b) = Len(q) - p
      /\ \A i \in 1 .. Len(q) - p : b[i] = q[i + p]
  BY <1>3, SubSeqProperties
<1>5. t = a \o b
  BY DEF RemoveAt
<1> HIDE DEF a, b, t
<1>6. t \in Seq(Ids) /\ Len(t) = Len(q) - 1
  <2>1. t \in Seq(Ids) /\ Len(t) = Len(a) + Len(b)
    BY <1>2, <1>4, <1>5, ConcatProperties
  <2> QED
    BY <1>1, <1>2, <1>4, <2>1
<1>7. ASSUME NEW i \in 1 .. Len(q) - 1, i < p PROVE t[i] = q[i]
  <2>1. i \in 1 .. p - 1
    BY <1>1, <1>7
  <2> QED
    BY <1>2, <1>4, <1>5, <2>1, ConcatProperties
<1>8. ASSUME NEW i \in 1 .. Len(q) - 1, i >= p PROVE t[i] = q[i + 1]
  <2>1. /\ i \in Len(a) + 1 .. Len(a) + Len(b) /\ i - Len(a) \in 1 .. Len(q) - p
        /\ i - Len(a) + p = i + 1
    BY <1>1, <1>2, <1>4, <1>8
  <2>2. t[i] = b[i - Len(a)]
    BY <1>1, <1>2, <1>4, <1>5, <1>8
  <2>3. b[i - Len(a)] = q[i - Len(a) + p]
    BY <1>4, <2>1
  <2> QED
    BY <2>1, <2>2, <2>3
<1>9. DOMAIN t = 1 .. Len(q) - 1
  BY <1>6
\* Where each of them was.
<1> DEFINE old(i) == IF i < p THEN i ELSE i + 1
<1>91. ASSUME NEW i \in 1 .. Len(q) - 1
       PROVE  t[i] = q[old(i)] /\ old(i) \in DOMAIN q /\ old(i) # p
  <2>1. old(i) \in DOMAIN q /\ old(i) # p
    BY <1>1
  <2>2. CASE i < p
    BY <1>7, <2>1, <2>2
  <2>3. CASE i >= p
    BY <1>1, <1>8, <2>1, <2>3
  <2> QED
    BY <1>1, <2>2, <2>3
<1>10. IsInjective(t)
  <2> SUFFICES ASSUME NEW i \in DOMAIN t, NEW j \in DOMAIN t, t[i] = t[j] PROVE i = j
    BY DEF IsInjective
  <2>1. i \in 1 .. Len(q) - 1 /\ j \in 1 .. Len(q) - 1
    BY <1>9
  <2>2. /\ t[i] = q[old(i)] /\ old(i) \in DOMAIN q
        /\ t[j] = q[old(j)] /\ old(j) \in DOMAIN q
    BY <1>91, <2>1
  <2>3. old(i) = old(j)
    <3> HIDE DEF old
    <3> QED
      BY <2>2 DEF IsInjective
  <2> QED
    BY <1>1, <2>1, <2>3
<1>11. Range(t) = Range(q) \ {q[p]}
  <2>1. ASSUME NEW i \in DOMAIN t PROVE t[i] \in Range(q) \ {q[p]}
    <3>1. i \in 1 .. Len(q) - 1
      BY <1>9
    <3>2. t[i] = q[old(i)] /\ old(i) \in DOMAIN q /\ old(i) # p
      BY <1>91, <3>1
    <3> HIDE DEF old
    <3> QED
      BY <3>2 DEF IsInjective, Range
  <2>2. ASSUME NEW i \in DOMAIN q, q[i] # q[p] PROVE \E j \in DOMAIN t : t[j] = q[i]
    <3>1. CASE i < p
      <4>1. i \in 1 .. Len(q) - 1
        BY <1>1, <3>1
      <4> QED
        BY <1>7, <1>9, <3>1, <4>1
    <3>2. CASE i > p
      <4>1. i - 1 \in 1 .. Len(q) - 1 /\ i - 1 >= p /\ (i - 1) + 1 = i
        BY <1>1, <3>2
      <4> QED
        BY <1>8, <1>9, <4>1
    <3> QED
      BY <1>1, <2>2, <3>1, <3>2
  <2> QED
    BY <2>1, <2>2 DEF Range
<1> QED
  BY <1>6, <1>10, <1>11 DEF t

LEMMA ListedIs ==
  ASSUME ShareTypeOK, NEW d \in Departures, NEW s
  PROVE  /\ Listed(d, s) \in Seq(Ids) /\ IsInjective(Listed(d, s))
         /\ Range(Listed(d, s)) =
              IF on[d] \in Range(reads) /\ s[on[d]].readers = {} THEN Range(reads) \ {on[d]}
              ELSE Range(reads)
<1>1. CASE on[d] \in Range(reads) /\ s[on[d]].readers = {}
  <2>1. Opened(on[d]) \in DOMAIN reads /\ reads[Opened(on[d])] = on[d]
    BY <1>1, OpenedIs
  <2>2. Listed(d, s) = RemoveAt(reads, Opened(on[d]))
    BY <1>1 DEF Listed
  <2> QED
    BY <1>1, <2>1, <2>2, RemovedIs DEF ShareTypeOK
<1>2. CASE ~(on[d] \in Range(reads) /\ s[on[d]].readers = {})
  BY <1>2 DEF Listed, ShareTypeOK
<1> QED
  BY <1>1, <1>2

\* A departure gone from its read leaves every other as it was.
LEMMA LeftIs ==
  ASSUME ShareTypeOK, OnInv, NEW d \in Departures
  PROVE  /\ Left(d, source) \in [Ids -> Sources]
         /\ \A r \in Ids :
              Left(d, source)[r] = [source[r] EXCEPT !.readers = @ \ {d}]
<1>1. ASSUME NEW r \in Ids PROVE source[r] \in Sources
  BY DEF ShareTypeOK
<1>2. CASE on[d] = None
  <2>1. ASSUME NEW r \in Ids PROVE source[r] = [source[r] EXCEPT !.readers = @ \ {d}]
    <3>1. source[r].readers \ {d} = source[r].readers
      BY <1>2, IdsAre DEF OnInv
    <3> QED
      BY <1>1, <3>1 DEF Sources
  <2> QED
    BY <1>2, <2>1 DEF Left, ShareTypeOK
<1>3. CASE on[d] # None
  <2>1. on[d] \in Ids
    BY <1>3 DEF ShareTypeOK
  <2>2. ASSUME NEW r \in Ids \ {on[d]} PROVE source[r] = [source[r] EXCEPT !.readers = @ \ {d}]
    <3>1. source[r].readers \ {d} = source[r].readers
      BY <1>3 DEF OnInv
    <3> QED
      BY <1>1, <3>1 DEF Sources
  <2>3. Left(d, source) \in [Ids -> Sources]
    <3>1. [source[on[d]] EXCEPT !.readers = @ \ {d}] \in Sources
      BY <1>1, <2>1 DEF Sources
    <3> QED
      BY <1>3, <2>1, <3>1 DEF Left, ShareTypeOK
  <2> QED
    BY <1>3, <2>1, <2>2, <2>3 DEF Left, ShareTypeOK
<1> QED
  BY <1>2, <1>3

\* What a departure has of a read changes none of its chunks.
Alike(s, t) == s.window = t.window /\ s.first = t.first /\ s.next = t.next /\ s.ended = t.ended

LEMMA AlikeKeeps ==
  ASSUME WindowInv, HeldBounded, Come, source \in [Ids -> Sources],
         \A r \in Ids : Alike(source[r], source'[r])
  PROVE  WindowInv' /\ HeldBounded'
<1>1. WindowInv'
  BY DEF Alike, WindowInv
<1>2. ASSUME NEW r \in Ids PROVE Len(source'[r].window) <= MostKept'
  BY HeldKeeps DEF Alike
<1> QED
  BY <1>1, <1>2 DEF HeldBounded

----------------------------------------------------------------------------
(* Steps under the lock of the reads.                                      *)

LEMMA OpenedIn ==
  ASSUME NEW p \in Nat
  PROVE  /\ OpenedAt(p) \in Sources
         /\ OpenedAt(p).window = <<>> /\ OpenedAt(p).first = p /\ OpenedAt(p).next = p
         /\ OpenedAt(p).ended = FALSE /\ OpenedAt(p).readers = {}
BY DEF OpenedAt, Sources

LEMMA PicksKeeps ==
  ASSUME ShareInv, NEW d \in Departures, Picks(d)
  PROVE  ShareInv'
<1> USE DEF ShareInv
<1> DEFINE left == Left(d, source)
           listed == Listed(d, left)
<1>1. /\ joining = None /\ joining' = d /\ at[d] \in {"new", "behind"}
      /\ at' = [at EXCEPT ![d] = IF @ = "new" THEN "joins" ELSE "rejoins"]
      /\ UNCHANGED <<place, got, stalled, failures>>
  BY DEF Picks, Unlocked
<1>2. /\ left \in [Ids -> Sources]
      /\ \A r \in Ids : left[r] = [source[r] EXCEPT !.readers = @ \ {d}]
  BY LeftIs
<1>3. /\ \A r \in Ids : left[r].readers = source[r].readers \ {d} /\ Alike(source[r], left[r])
  BY <1>2 DEF ShareTypeOK, Sources, Alike
<1>4. PICK r \in Ids : (Joined(d, r) \/ Opens(d, r)) /\ on' = [on EXCEPT ![d] = r]
  BY DEF Picks
<1>5. /\ listed \in Seq(Ids) /\ IsInjective(listed)
      /\ Range(listed) = IF on[d] \in Range(reads) /\ left[on[d]].readers = {}
                         THEN Range(reads) \ {on[d]} ELSE Range(reads)
  BY ListedIs
<1> HIDE DEF left, listed
<1>6. at' \in [Departures -> DepartureStages] /\ on' \in [Departures -> Ids \cup {None}]
  BY <1>1, <1>4 DEF ShareTypeOK, DepartureStages
<1>61. Come /\ source \in [Ids -> Sources]
  BY <1>1 DEF ShareTypeOK, Come
\* What the two ways of it have in common.
<1>7. /\ reads' \in Seq(Ids) /\ IsInjective(reads')
      /\ Range(reads') = Range(listed) \cup {r}
      /\ source' \in [Ids -> Sources]
      /\ \A o \in Ids : source'[o].readers = source[o].readers \ {d}
      /\ WindowInv' /\ HeldBounded'
  <2>1. CASE Joined(d, r)
    <3>1. source' = left /\ reads' = listed /\ r \in Range(listed)
      BY <2>1 DEF Joined, Reaching, left, listed
    <3>2. \A o \in Ids : Alike(source[o], source'[o])
      BY <1>3, <3>1
    <3> QED
      BY <1>2, <1>3, <1>5, <1>61, <3>1, <3>2, AlikeKeeps
  <2>2. CASE Opens(d, r)
    <3> DEFINE new == OpenedAt(place[d])
    <3>1. /\ r \notin Range(listed) /\ source' = [left EXCEPT ![r] = new]
          /\ reads' = Append(listed, r)
      BY <2>2 DEF Opens, left, listed
    <3>2. /\ place[d] \in 0 .. Length /\ new \in Sources
          /\ new.window = <<>> /\ new.first = place[d] /\ new.next = place[d]
          /\ new.ended = FALSE /\ new.readers = {}
      <4>1. place[d] \in 0 .. Length /\ place[d] \in Nat
        BY DEF ShareTypeOK
      <4> QED
        BY <4>1, OpenedIn
    <3> HIDE DEF new
    <3>3. /\ source' \in [Ids -> Sources] /\ source'[r] = new
          /\ \A o \in Ids \ {r} : source'[o] = left[o]
      BY <1>2, <3>1, <3>2
    <3>4. source[r].readers \ {d} = {}
      <4>1. ASSUME NEW e \in source[r].readers, e # d PROVE FALSE
        <5>1. e \in Departures /\ on[e] = r /\ at[e] \in Taking
          BY <4>1 DEF ShareTypeOK, Sources, OnInv
        <5>2. r \in Range(reads)
          BY <5>1, IdsAre DEF OnInv
        <5>3. r = on[d] /\ left[r].readers = {}
          BY <1>5, <3>1, <5>2
        <5> QED
          BY <1>3, <4>1, <5>3
      <4> QED
        BY <4>1
    <3>5. \A o \in Ids : source'[o].readers = source[o].readers \ {d}
      BY <1>3, <3>2, <3>3, <3>4
    <3>6. \A o \in Ids \ {r} : Alike(source[o], source'[o])
      BY <1>3, <3>3
    <3>7. /\ Len(new.window) = 0 /\ 0 <= MostKept'
      BY <1>61, <3>2, MostGrows
    <3>8. WindowInv'
      <4>1. ASSUME NEW o \in Ids \ {r}
            PROVE  LET q == source'[o]
                   IN  /\ q.first <= q.next /\ q.next <= Length
                       /\ Len(q.window) = q.next - q.first
                       /\ \A k \in 1 .. Len(q.window) : q.window[k] = q.first + k - 1
                       /\ q.ended => q.next = Length
        BY <3>6 DEF WindowInv, Alike
      <4> QED
        BY <3>2, <3>3, <3>7, <4>1 DEF WindowInv
    <3>9. HeldBounded'
      <4>1. ASSUME NEW o \in Ids \ {r} PROVE Len(source'[o].window) <= MostKept'
        BY <1>61, <3>6, HeldKeeps DEF Alike
      <4> QED
        BY <3>3, <3>7, <4>1 DEF HeldBounded
    <3> QED
      BY <1>5, <3>1, <3>3, <3>5, <3>8, <3>9, AppendIs
  <2> QED
    BY <1>4, <2>1, <2>2
<1>8. ShareTypeOK'
  BY <1>1, <1>6, <1>7 DEF ShareTypeOK
<1>9. EveryChunk'
  BY <1>1 DEF EveryChunk, ShareTypeOK, DepartureStages
<1>10. OnInv'
  <2>1. ASSUME NEW e \in Departures, e # d
        PROVE  /\ at'[e] = at[e] /\ on'[e] = on[e]
               /\ \A o \in Ids : e \in source'[o].readers <=> e \in source[o].readers
    BY <1>1, <1>4, <1>7, <2>1 DEF ShareTypeOK
  <2>2. at'[d] \in {"joins", "rejoins"} /\ on'[d] = r
    BY <1>1, <1>4 DEF ShareTypeOK, DepartureStages
  <2>3. ASSUME NEW e \in Departures, e # d, on[e] # None PROVE on[e] \in Range(reads')
    <3>1. on[e] \in Range(reads) /\ on[e] \in Ids
      BY <2>3 DEF OnInv, ShareTypeOK
    <3>2. CASE on[e] # on[d] \/ left[on[d]].readers # {}
      BY <1>5, <1>7, <3>1, <3>2
    <3>3. CASE on[e] = on[d] /\ left[on[d]].readers = {}
      <4>1. on[e] = on[d] /\ e \notin source[on[e]].readers
        BY <1>3, <2>3, <3>1, <3>3
      <4>2. at[e] \notin Taking
        BY <3>1, <4>1 DEF OnInv
      <4>3. at[e] \in {"joins", "rejoins", "gone"}
        BY <2>3, <4>2 DEF OnInv, ShareTypeOK, DepartureStages, Taking
      <4> QED
        BY <1>1, <2>3, <4>3 DEF OnInv
    <3> QED
      BY <3>2, <3>3
  <2>4. ASSUME NEW o \in Range(reads'), source'[o].readers = {} PROVE joining' # None /\ on'[joining'] = o
    <3>1. joining' # None /\ on'[joining'] = r
      BY <1>1, <2>2
    <3>2. ASSUME o # r PROVE FALSE
      <4>1. o \in Range(listed) /\ o \in Range(reads)
        BY <1>5, <1>7, <2>4, <3>2
      <4> o \in Ids
        BY <4>1, RangeIds
      <4>2. left[o].readers = {}
        BY <1>3, <1>7, <2>4, <4>1
      <4>3. o # on[d]
        BY <1>5, <4>1, <4>2
      <4>4. d \notin source[o].readers
        BY <4>1, <4>3 DEF OnInv
      <4>5. source[o].readers = {}
        BY <1>3, <4>1, <4>2, <4>4
      <4> QED
        BY <1>1, <4>1, <4>5 DEF OnInv
    <3> QED
      BY <3>1, <3>2
  <2>5. ASSUME NEW e \in Departures, e # d
        PROVE  /\ \A o \in Ids : e \in source'[o].readers <=> on'[e] = o /\ at'[e] \in Taking
               /\ at'[e] \in {"new", "gone"} <=> on'[e] = None
               /\ on'[e] # None => on'[e] \in Range(reads')
               /\ at'[e] \in {"joins", "rejoins"} <=> joining' = e
    BY <1>1, <2>1, <2>3, <2>5 DEF OnInv
  <2>6. /\ \A o \in Ids : d \in source'[o].readers <=> on'[d] = o /\ at'[d] \in Taking
        /\ at'[d] \notin {"new", "gone"} /\ on'[d] # None /\ on'[d] \in Range(reads')
        /\ at'[d] \in {"joins", "rejoins"} <=> joining' = d
    BY <1>1, <1>7, <2>2, IdsAre DEF Taking
  <2> QED
    BY <2>4, <2>5, <2>6 DEF OnInv
<1> QED
  BY <1>7, <1>8, <1>9, <1>10

\* A departure joined to a read it has picked or moves to.
LEMMA JoinsKeeps ==
  ASSUME ShareInv, NEW d \in Departures, Joins(d)
  PROVE  ShareInv'
<1> USE DEF ShareInv
<1> DEFINE r == on[d]
<1>1. /\ joining = d /\ joining' = None /\ UNCHANGED <<reads, on, place, got, failures>>
      /\ source' = [source EXCEPT ![r].readers = @ \cup {d}]
      /\ stalled' \subseteq stalled
      /\ at' = [at EXCEPT ![d] = IF @ = "joins" THEN "between" ELSE "asks"]
  BY DEF Joins
<1>2. at[d] \in {"joins", "rejoins"} /\ r \in Range(reads) /\ r \in Ids
  BY <1>1, RangeIds DEF OnInv
<1> HIDE DEF r
<1>3. /\ source' \in [Ids -> Sources]
      /\ source'[r].readers = source[r].readers \cup {d} /\ Alike(source[r], source'[r])
      /\ \A o \in Ids \ {r} : source'[o] = source[o]
  <2>1. source[r] \in Sources
    BY <1>2 DEF ShareTypeOK
  <2>2. [source[r] EXCEPT !.readers = @ \cup {d}] \in Sources
    BY <2>1 DEF Sources
  <2>3. source' = [source EXCEPT ![r] = [source[r] EXCEPT !.readers = @ \cup {d}]]
    BY <1>1
  <2> QED
    BY <1>2, <2>1, <2>2, <2>3 DEF ShareTypeOK, Sources, Alike
<1>31. Come
  BY <1>1 DEF ShareTypeOK, Come
<1>4. WindowInv' /\ HeldBounded'
  <2>1. \A o \in Ids : Alike(source[o], source'[o])
    BY <1>3 DEF Alike
  <2> QED
    BY <1>31, <2>1, AlikeKeeps DEF ShareTypeOK
<1>5. /\ at' \in [Departures -> DepartureStages] /\ at'[d] \in {"between", "asks"}
      /\ \A e \in Departures \ {d} : at'[e] = at[e]
  BY <1>1, <1>2 DEF ShareTypeOK, DepartureStages
<1>6. ShareTypeOK'
  BY <1>1, <1>3, <1>5 DEF ShareTypeOK
<1>7. EveryChunk'
  BY <1>1, <1>5 DEF EveryChunk
<1>8. OnInv'
  <2>1. ASSUME NEW e \in Departures \ {d}
        PROVE  /\ \A o \in Ids : e \in source'[o].readers <=> on'[e] = o /\ at'[e] \in Taking
               /\ at'[e] \in {"new", "gone"} <=> on'[e] = None
               /\ on'[e] # None => on'[e] \in Range(reads')
               /\ at'[e] \in {"joins", "rejoins"} <=> joining' = e
    BY <1>1, <1>3, <1>5 DEF OnInv
  <2>2. /\ \A o \in Ids : d \in source'[o].readers <=> on'[d] = o /\ at'[d] \in Taking
        /\ at'[d] \in {"new", "gone"} <=> on'[d] = None
        /\ on'[d] # None => on'[d] \in Range(reads')
        /\ at'[d] \in {"joins", "rejoins"} <=> joining' = d
    BY <1>1, <1>2, <1>3, <1>5, IdsAre DEF OnInv, Taking, r
  <2>3. ASSUME NEW o \in Range(reads') PROVE source'[o].readers # {}
    <3>1. o \in Range(reads) /\ o \in Ids
      BY <1>1, RangeIds
    <3>2. CASE o = r
      BY <1>3, <3>2
    <3>3. CASE o # r
      BY <1>1, <1>3, <3>1, <3>3 DEF OnInv, r
    <3> QED
      BY <3>2, <3>3
  <2> QED
    BY <2>1, <2>2, <2>3 DEF OnInv
<1> QED
  BY <1>4, <1>6, <1>7, <1>8

\* A departure out of its read, to another or gone.
Out(d, to) ==
  /\ to \in {None} \cup (Range(reads) \ {on[d]})
  /\ Unlocked /\ UNCHANGED <<place, got, joining, failures>> /\ stalled' \subseteq stalled
  /\ at[d] \in Taking /\ source' \in [Ids -> Sources]
  /\ \A r \in Ids : /\ Alike(source[r], source'[r])
                    /\ source'[r].readers = IF r = to THEN source[r].readers \cup {d}
                                            ELSE source[r].readers \ {d}
  /\ reads' = Listed(d, source')
  /\ on' = [on EXCEPT ![d] = to]
  /\ at' = [at EXCEPT ![d] = IF to = None THEN "gone" ELSE "asks"]

LEMMA OutKeeps ==
  ASSUME ShareInv, NEW d \in Departures, NEW to, Out(d, to)
  PROVE  ShareInv'
<1> USE DEF ShareInv, Out
<1>1. /\ at' \in [Departures -> DepartureStages] /\ at'[d] = IF to = None THEN "gone" ELSE "asks"
      /\ \A e \in Departures \ {d} : at'[e] = at[e]
  BY DEF ShareTypeOK, DepartureStages
<1>2. to \in Ids \cup {None}
  BY RangeIds
<1>3. /\ on' \in [Departures -> Ids \cup {None}] /\ on'[d] = to
      /\ \A e \in Departures \ {d} : on'[e] = on[e]
  BY <1>2 DEF ShareTypeOK
<1>4. on[d] \in Range(reads) /\ on[d] \in Ids /\ on[d] # to
  BY RangeIds, IdsAre DEF OnInv, Taking
<1>5. /\ reads' \in Seq(Ids) /\ IsInjective(reads')
      /\ Range(reads') = IF source'[on[d]].readers = {} THEN Range(reads) \ {on[d]}
                         ELSE Range(reads)
  BY <1>4, ListedIs
<1>51. Come
  BY <1>1 DEF Come
<1>6. WindowInv' /\ HeldBounded'
  BY <1>51, AlikeKeeps DEF ShareTypeOK
<1>7. ShareTypeOK'
  BY <1>1, <1>3, <1>5 DEF ShareTypeOK
<1>8. EveryChunk'
  BY <1>1 DEF EveryChunk
<1>9. OnInv'
  <2>1. ASSUME NEW e \in Departures \ {d}
        PROVE  /\ \A o \in Ids : e \in source'[o].readers <=> on'[e] = o /\ at'[e] \in Taking
               /\ at'[e] \in {"new", "gone"} <=> on'[e] = None
               /\ on'[e] # None => on'[e] \in Range(reads')
               /\ at'[e] \in {"joins", "rejoins"} <=> joining' = e
    <3>1. \A o \in Ids : e \in source'[o].readers <=> e \in source[o].readers
      OBVIOUS
    <3>2. ASSUME on[e] # None PROVE on[e] \in Range(reads')
      <4>1. on[e] \in Range(reads) /\ on[e] \in Ids /\ at[e] \notin {"new", "gone"}
        BY <3>2, RangeIds DEF OnInv
      <4>2. e \in source[on[e]].readers
        <5>1. at[e] \notin {"joins", "rejoins"} /\ at[e] \in DepartureStages
          BY DEF OnInv, ShareTypeOK, Unlocked
        <5>2. at[e] \in Taking
          BY <4>1, <5>1 DEF DepartureStages, Taking
        <5> QED
          BY <4>1, <5>2 DEF OnInv
      <4>3. e \in source'[on[e]].readers
        BY <3>1, <4>1, <4>2
      <4> QED
        BY <1>5, <4>1, <4>3
    <3> QED
      BY <1>1, <1>3, <3>1, <3>2 DEF OnInv
  <2>2. /\ \A o \in Ids : d \in source'[o].readers <=> on'[d] = o /\ at'[d] \in Taking
        /\ at'[d] \in {"new", "gone"} <=> on'[d] = None
        /\ on'[d] # None => on'[d] \in Range(reads')
        /\ at'[d] \in {"joins", "rejoins"} <=> joining' = d
    <3>1. d # None /\ joining' = None
      BY DEF Unlocked
    <3> \A o \in Ids : d \in source'[o].readers <=> o = to
      OBVIOUS
    <3>2. CASE to = None
      <4>1. at'[d] = "gone" /\ on'[d] = None /\ "gone" \notin Taking
        BY <1>1, <1>3, <3>2 DEF Taking
      <4>2. \A o \in Ids : o # None
        BY IdsAre
      <4> QED
        BY <3>1, <3>2, <4>1, <4>2
    <3>3. CASE to # None
      <4>1. at'[d] = "asks" /\ on'[d] = to /\ to \in Range(reads') /\ "asks" \in Taking
        BY <1>1, <1>3, <1>5, <3>3 DEF Taking
      <4> QED
        BY <3>1, <3>3, <4>1
    <3> QED
      BY <3>2, <3>3
  <2>3. ASSUME NEW o \in Range(reads') PROVE source'[o].readers # {}
    <3>1. o \in Range(reads) /\ o \in Ids
      BY <1>5, RangeIds
    <3>2. CASE o = on[d]
      BY <1>5, <3>2
    <3>3. CASE o # on[d]
      <4>1. source[o].readers # {} /\ d \notin source[o].readers
        BY <3>1, <3>3 DEF OnInv, Unlocked
      <4> QED
        BY <3>1, <4>1
    <3> QED
      BY <3>2, <3>3
  <2> QED
    BY <2>1, <2>2, <2>3 DEF OnInv
<1> QED
  BY <1>6, <1>7, <1>8, <1>9

LEMMA MovesKeeps ==
  ASSUME ShareInv, NEW d \in Departures, NEW to \in Range(reads) \ {on[d]}, Moves(d, to)
  PROVE  ShareInv'
<1> USE DEF ShareInv
<1>1. /\ Unlocked /\ at[d] \in Taking /\ UNCHANGED <<place, got, joining, failures>>
      /\ stalled' \subseteq stalled /\ on' = [on EXCEPT ![d] = to]
      /\ at' = [at EXCEPT ![d] = "asks"]
  BY DEF Moves, Taking
<1>2. /\ source' = [Left(d, source) EXCEPT ![to].readers = @ \cup {d}]
      /\ reads' = Listed(d, source')
  BY DEF Moves, Moved
<1>3. /\ Left(d, source) \in [Ids -> Sources]
      /\ \A r \in Ids : Left(d, source)[r] = [source[r] EXCEPT !.readers = @ \ {d}]
  BY LeftIs
<1>4. to \in Ids /\ to # None
  BY RangeIds, IdsAre
<1> DEFINE left == Left(d, source)
<1> HIDE DEF left
<1>5. /\ left \in [Ids -> Sources]
      /\ \A r \in Ids : left[r].readers = source[r].readers \ {d} /\ Alike(source[r], left[r])
  BY <1>3 DEF left, ShareTypeOK, Sources, Alike
<1>6. /\ source' \in [Ids -> Sources]
      /\ source'[to].readers = left[to].readers \cup {d} /\ Alike(left[to], source'[to])
      /\ \A o \in Ids \ {to} : source'[o] = left[o]
  <2>1. left[to] \in Sources
    BY <1>4, <1>5
  <2>2. [left[to] EXCEPT !.readers = @ \cup {d}] \in Sources
    BY <2>1 DEF Sources
  <2>3. source' = [left EXCEPT ![to] = [left[to] EXCEPT !.readers = @ \cup {d}]]
    BY <1>2 DEF left
  <2> QED
    BY <1>4, <1>5, <2>1, <2>2, <2>3 DEF Sources, Alike
<1>7. ASSUME NEW r \in Ids
      PROVE  /\ Alike(source[r], source'[r])
             /\ source'[r].readers =
                  IF r = to THEN source[r].readers \cup {d} ELSE source[r].readers \ {d}
  <2>1. CASE r = to
    BY <1>4, <1>5, <1>6, <2>1 DEF Alike
  <2>2. CASE r # to
    BY <1>5, <1>6, <2>2
  <2> QED
    BY <2>1, <2>2
<1> QED
  BY <1>1, <1>2, <1>4, <1>6, <1>7, OutKeeps DEF Out

LEMMA DropsKeeps ==
  ASSUME ShareInv, NEW d \in Departures, Drops(d)
  PROVE  ShareInv'
<1> USE DEF ShareInv
<1>1. /\ Unlocked /\ at[d] \in Taking /\ UNCHANGED <<place, got, joining, failures>>
      /\ stalled' \subseteq stalled /\ on' = [on EXCEPT ![d] = None]
      /\ at' = [at EXCEPT ![d] = "gone"]
      /\ source' = Left(d, source) /\ reads' = Listed(d, source')
  BY DEF Drops, Taking
<1>2. /\ source' \in [Ids -> Sources]
      /\ \A r \in Ids : source'[r] = [source[r] EXCEPT !.readers = @ \ {d}]
  BY <1>1, LeftIs
<1>3. ASSUME NEW r \in Ids
      PROVE  Alike(source[r], source'[r]) /\ source'[r].readers = source[r].readers \ {d}
  <2>1. source[r] \in Sources
    BY DEF ShareTypeOK
  <2> QED
    BY <1>2, <2>1 DEF Sources, Alike
<1>4. \A r \in Ids : r # None
  BY IdsAre
<1>5. Out(d, None)
  BY <1>1, <1>2, <1>3, <1>4 DEF Out
<1> QED
  BY <1>5, OutKeeps

----------------------------------------------------------------------------
(* Steps that leave the reads and who is on them.                          *)

\* A departure that goes on from one of the stages it takes in to another.
LEMMA TakingKeeps ==
  ASSUME ShareInv, NEW d \in Departures, NEW to \in Taking, at[d] \in Taking,
         at' = [at EXCEPT ![d] = to], UNCHANGED <<reads, on, joining>>,
         \A r \in Ids : source'[r].readers = source[r].readers
  PROVE  OnInv' /\ at' \in [Departures -> DepartureStages] /\ Come
<1>1. /\ at' \in [Departures -> DepartureStages] /\ at'[d] = to
      /\ \A e \in Departures \ {d} : at'[e] = at[e]
  BY DEF ShareInv, ShareTypeOK, DepartureStages, Taking
<1>2. at[d] \notin {"new", "gone", "joins", "rejoins"} /\ to \notin {"new", "gone", "joins", "rejoins"}
  BY DEF Taking
<1>3. \A e \in Departures : at'[e] = at[e] \/ (at[e] \in Taking /\ at'[e] \in Taking
        /\ {at[e], at'[e]} \cap {"new", "gone", "joins", "rejoins"} = {})
  BY <1>1, <1>2
<1>4. \A r \in Range(reads') : source'[r].readers = source[r].readers
  BY RangeIds DEF ShareInv
<1>5. ASSUME NEW e \in Departures
        PROVE  /\ \A o \in Ids : e \in source'[o].readers <=> on'[e] = o /\ at'[e] \in Taking
               /\ at'[e] \in {"new", "gone"} <=> on'[e] = None
               /\ on'[e] # None => on'[e] \in Range(reads')
               /\ at'[e] \in {"joins", "rejoins"} <=> joining' = e
  <2>1. /\ \A o \in Ids : e \in source[o].readers <=> on[e] = o /\ at[e] \in Taking
        /\ at[e] \in {"new", "gone"} <=> on[e] = None
        /\ on[e] # None => on[e] \in Range(reads)
        /\ at[e] \in {"joins", "rejoins"} <=> joining = e
    BY DEF ShareInv, OnInv
  <2>2. /\ at'[e] \in Taking <=> at[e] \in Taking
        /\ at'[e] \in {"new", "gone"} <=> at[e] \in {"new", "gone"}
        /\ at'[e] \in {"joins", "rejoins"} <=> at[e] \in {"joins", "rejoins"}
    BY <1>3
  <2> QED
    BY <2>1, <2>2
<1>6. Come
  BY <1>3 DEF Come
<1> QED
  BY <1>1, <1>4, <1>5, <1>6 DEF ShareInv, OnInv

LEMMA StaysOnKeeps ==
  ASSUME ShareInv, NEW d \in Departures,
         StaysOn(d) \/ Behind(d) \/ Stalls(d)
  PROVE  ShareInv'
<1> USE DEF ShareInv
<1>1. CASE Stalls(d)
  <2>1. /\ UNCHANGED <<reads, source, at, on, place, got, joining, failures>>
        /\ stalled' = stalled \cup {d}
    BY <1>1 DEF Stalls
  <2>2. ShareTypeOK'
    BY <2>1 DEF ShareTypeOK
  <2>3. WindowInv' /\ HeldBounded' /\ EveryChunk'
    BY <2>1 DEF WindowInv, HeldBounded, MostKept, EveryChunk
  <2>4. OnInv'
    BY <2>1 DEF OnInv
  <2> QED
    BY <2>2, <2>3, <2>4
<1>2. CASE StaysOn(d) \/ Behind(d)
  <2>1. PICK to \in {"asks", "behind"} : at' = [at EXCEPT ![d] = to]
    BY <1>2 DEF StaysOn, Behind
  <2>2. /\ at[d] \in Taking /\ to \in Taking
        /\ UNCHANGED <<reads, source, on, place, got, stalled, joining, failures>>
    BY <1>2 DEF StaysOn, Behind, Asking, Taking
  <2>3. OnInv' /\ at' \in [Departures -> DepartureStages] /\ Come
    BY <2>1, <2>2, TakingKeeps
  <2>4. ShareTypeOK'
    BY <2>2, <2>3 DEF ShareTypeOK
  <2>5. EveryChunk'
    BY <2>1, <2>2 DEF EveryChunk, ShareTypeOK
  <2> QED
    BY <2>2, <2>3, <2>4, <2>5, AlikeKeeps DEF Alike, ShareTypeOK
<1> QED
  BY <1>1, <1>2

LEMMA OnIs ==
  ASSUME ShareInv, NEW d \in Departures, Asking(d)
  PROVE  on[d] \in Ids /\ source[on[d]] \in Sources /\ place[d] \in 0 .. Length
<1>1. on[d] # None /\ on[d] \in Ids \cup {None}
  BY DEF ShareInv, OnInv, ShareTypeOK, Asking
<1> QED
  BY <1>1 DEF ShareInv, ShareTypeOK

\* The chunk taken is the one at the departure's place, and it is in the Stream.
LEMMA TakesKeeps ==
  ASSUME ShareInv, NEW d \in Departures, Takes(d)
  PROVE  ShareInv'
<1> USE DEF ShareInv
<1> DEFINE s == source[on[d]]
           c == s.window[place[d] - s.first + 1]
<1>1. /\ on[d] \in Ids /\ s \in Sources /\ place[d] \in 0 .. Length
      /\ at[d] \in Taking
  BY OnIs DEF Takes, Asking, Taking
<1>2. /\ place[d] - s.first \in 0 .. Len(s.window) - 1
      /\ got' = [got EXCEPT ![d] = Append(@, c)]
      /\ place' = [place EXCEPT ![d] = @ + 1]
      /\ stalled' \subseteq stalled
      /\ at' = [at EXCEPT ![d] = "between"]
      /\ UNCHANGED <<reads, source, on, joining, failures>>
  BY DEF Takes, Source, Ahead
<1>3. /\ s.first \in Nat /\ s.next \in Nat /\ Len(s.window) \in Nat
      /\ s.next <= Length /\ Len(s.window) = s.next - s.first
      /\ \A k \in 1 .. Len(s.window) : s.window[k] = s.first + k - 1
  BY <1>1 DEF WindowInv, Sources
<1> HIDE DEF s
<1>4. c = place[d] /\ place[d] + 1 \in 0 .. Length /\ c \in Nat
  <2>1. place[d] - s.first + 1 \in 1 .. Len(s.window)
    BY <1>1, <1>2, <1>3
  <2>2. c = s.first + (place[d] - s.first + 1) - 1
    BY <1>3, <2>1
  <2>3. place[d] \in Nat /\ s.first \in Nat /\ s.next \in Nat /\ s.next <= Length
    BY <1>1, <1>3
  <2>4. place[d] - s.first <= s.next - s.first - 1
    BY <1>2, <1>3, <2>3
  <2> HIDE DEF c
  <2> QED
    BY <2>2, <2>3, <2>4
<1> HIDE DEF c
<1>5. OnInv' /\ at' \in [Departures -> DepartureStages] /\ Come
  BY <1>1, <1>2, TakingKeeps DEF Taking
<1>6. ShareTypeOK'
  BY <1>2, <1>4, <1>5 DEF ShareTypeOK
<1>7. EveryChunk'
  <2>1. ASSUME NEW e \in Departures \ {d}
        PROVE  got'[e] = got[e] /\ place'[e] = place[e] /\ at'[e] = at[e]
    BY <1>2 DEF ShareTypeOK
  <2>2. at'[d] = "between" /\ place'[d] = place[d] + 1 /\ got'[d] = Append(got[d], c)
    BY <1>2 DEF ShareTypeOK
  <2>3. got[d] = [i \in 1 .. place[d] |-> i - 1] /\ got[d] \in Seq(Nat)
    BY DEF EveryChunk, ShareTypeOK
  <2>4. Append(got[d], c) = [i \in 1 .. place[d] + 1 |-> i - 1]
    <3> DEFINE p == place[d]
               q == Append(got[d], c)
    <3>1. Len(got[d]) = p /\ p \in Nat
      BY <1>1, <2>3
    <3>2. /\ q \in Seq(Nat) /\ DOMAIN q = 1 .. p + 1 /\ q[p + 1] = p
          /\ \A i \in 1 .. p : q[i] = got[d][i]
      BY <1>4, <2>3, <3>1
    <3>3. \A i \in 1 .. p : got[d][i] = i - 1
      BY <2>3
    <3> HIDE DEF q, p
    <3>4. \A i \in 1 .. p + 1 : q[i] = i - 1
      BY <3>1, <3>2, <3>3
    <3>5. q = [i \in 1 .. p + 1 |-> i - 1]
      BY <3>2, <3>4
    <3> QED
      BY <3>5 DEF q, p
  <2> QED
    BY <2>1, <2>2, <2>4 DEF EveryChunk
<1> QED
  BY <1>2, <1>5, <1>6, <1>7, AlikeKeeps DEF Alike, ShareTypeOK

\* The end is said once all the Stream was taken.
LEMMA ReadEndsKeeps ==
  ASSUME ShareInv, NEW d \in Departures, ReadEnds(d)
  PROVE  ShareInv'
<1> USE DEF ShareInv
<1> DEFINE s == source[on[d]]
           to == IF s.failed THEN "failed" ELSE "done"
<1>1. /\ on[d] \in Ids /\ s \in Sources /\ place[d] \in 0 .. Length
      /\ at[d] \in Taking
  BY OnIs DEF ReadEnds, Asking, Taking
<1>2. /\ s.failed \/ (s.ended /\ place[d] - s.first >= Len(s.window))
      /\ at' = [at EXCEPT ![d] = to]
      /\ UNCHANGED <<reads, source, on, place, got, stalled, joining, failures>>
  BY DEF ReadEnds, Source, Ahead
<1>3. to = "done" => place[d] = Length
  <2> SUFFICES ASSUME to = "done" PROVE place[d] = Length
    OBVIOUS
  <2>1. s.ended /\ place[d] - s.first >= Len(s.window)
    BY <1>2
  <2>2. /\ s.first \in Nat /\ s.next \in Nat /\ s.next = Length /\ Len(s.window) = s.next - s.first
    BY <1>1, <2>1 DEF WindowInv, Sources
  <2> HIDE DEF s
  <2> QED
    BY <1>1, <2>1, <2>2
<1>4. to \in Taking
  BY DEF Taking
<1> HIDE DEF to
<1>5. OnInv' /\ at' \in [Departures -> DepartureStages] /\ Come
  BY <1>1, <1>2, <1>4, TakingKeeps
<1>6. ShareTypeOK'
  BY <1>2, <1>5 DEF ShareTypeOK
<1>7. EveryChunk'
  BY <1>2, <1>3 DEF EveryChunk, ShareTypeOK
<1> QED
  BY <1>2, <1>5, <1>6, <1>7, AlikeKeeps DEF Alike, ShareTypeOK

\* A chunk more: the window goes on by it, and what is let go of is its first.
LEMMA PushedIs ==
  ASSUME NEW s \in Sources, s.first <= s.next, s.next < Length,
         Len(s.window) = s.next - s.first,
         \A k \in 1 .. Len(s.window) : s.window[k] = s.first + k - 1
  PROVE  LET t == Pushed(s)
         IN  /\ t \in Sources /\ t.readers = s.readers /\ t.ended = s.ended
             /\ t.first <= t.next /\ t.next <= Length
             /\ Len(t.window) = t.next - t.first
             /\ \A k \in 1 .. Len(t.window) : t.window[k] = t.first + k - 1
             /\ Len(t.window) \in Nat /\ Len(t.window) <= Kept(Cardinality(s.readers))
<1> DEFINE w == Append(s.window, s.next)
           n == Len(s.window) + 1
           most == Kept(Cardinality(s.readers))
           over == IF n > most THEN n - most ELSE 0
           v == SubSeq(w, over + 1, n)
<1>1. /\ s.window \in Seq(Nat) /\ s.first \in Nat /\ s.next \in Nat
      /\ s.readers \in SUBSET Departures /\ Len(s.window) \in Nat /\ n \in Nat
  BY DEF Sources
<1>2. most \in Nat \ {0}
  BY <1>1, KeptGrows
<1>3. w \in Seq(Nat) /\ Len(w) = n /\ \A k \in 1 .. n : w[k] = s.first + k - 1
  <2>1. w \in Seq(Nat) /\ Len(w) = n /\ w[n] = s.next
        /\ \A k \in 1 .. Len(s.window) : w[k] = s.window[k]
    BY <1>1
  <2>2. s.next = s.first + n - 1
    BY <1>1
  <2>3. n - 1 = Len(s.window) /\ n \in Nat /\ s.first \in Nat
    BY <1>1
  <2> HIDE DEF w, n
  <2>4. ASSUME NEW k \in 1 .. n PROVE w[k] = s.first + k - 1
    <3>1. CASE k = n
      BY <2>1, <2>2, <3>1
    <3>2. CASE k # n
      <4>1. k \in 1 .. Len(s.window)
        BY <2>3, <3>2
      <4> QED
        BY <2>1, <4>1
    <3> QED
      BY <3>1, <3>2
  <2> QED
    BY <2>1, <2>4
<1>4. Pushed(s) = [s EXCEPT !.window = v, !.first = @ + over, !.next = @ + 1]
  BY <1>3 DEF Pushed
<1> HIDE DEF w, most
<1>5. over \in Nat /\ over < n /\ n - over <= most
  BY <1>1, <1>2
<1> HIDE DEF over
<1>51. n \in Nat /\ n = s.next - s.first + 1
  BY <1>1
<1> HIDE DEF n
<1>6. /\ over + 1 \in 1 .. Len(w) + 1 /\ Len(w) \in (over + 1) - 1 .. Len(w)
      /\ Len(w) - (over + 1) + 1 = n - over
      /\ \A k \in 1 .. n - over : over + 1 + k - 1 = k + over
  BY <1>51, <1>3, <1>5
<1>7. v \in Seq(Nat) /\ Len(v) = n - over /\ \A k \in 1 .. n - over : v[k] = w[k + over]
  <2>1. v = SubSeq(w, over + 1, Len(w))
    BY <1>3
  <2> HIDE DEF v
  <2>2. /\ v \in Seq(Nat) /\ Len(v) = n - over
        /\ \A k \in 1 .. n - over : v[k] = w[over + 1 + k - 1]
    <3> DEFINE f == over + 1
    <3>1. f \in 1 .. Len(w) + 1 /\ Len(w) \in f - 1 .. Len(w) /\ w \in Seq(Nat)
      BY <1>3, <1>6
    <3> HIDE DEF f
    <3>2. /\ SubSeq(w, f, Len(w)) \in Seq(Nat) /\ Len(SubSeq(w, f, Len(w))) = Len(w) - f + 1
          /\ \A k \in 1 .. Len(w) - f + 1 : SubSeq(w, f, Len(w))[k] = w[f + k - 1]
      BY <3>1, SubSeqProperties
    <3> QED
      BY <1>6, <2>1, <3>2 DEF f
  <2> QED
    BY <1>6, <2>2
<1>8. \A k \in 1 .. Len(v) : v[k] = (s.first + over) + k - 1
  <2> TAKE k \in 1 .. Len(v)
  <2>1. k \in 1 .. n - over /\ k + over \in 1 .. n
    <3> HIDE DEF v
    <3>1. k \in 1 .. n - over
      BY <1>7
    <3>2. k \in Nat /\ 1 <= k /\ k <= n - over /\ over \in Nat /\ n \in Nat
      BY <1>5, <1>51, <3>1
    <3>3. k + over <= n /\ 1 <= k + over /\ k + over \in Nat
      BY <3>2
    <3> QED
      BY <3>1, <3>2, <3>3
  <2>2. v[k] = s.first + (k + over) - 1
    BY <1>3, <1>7, <2>1
  <2> HIDE DEF v
  <2> QED
    BY <1>1, <1>5, <2>1, <2>2
<1> HIDE DEF v
<1>9. /\ s.first + over \in Nat /\ s.next + 1 \in Nat /\ s.first + over <= s.next + 1
      /\ s.next + 1 <= Length /\ Len(v) = (s.next + 1) - (s.first + over)
      /\ Len(v) \in Nat /\ Len(v) <= most
  <2>1. Len(v) = n - over /\ over \in Nat /\ over < n /\ n - over <= most
    BY <1>5, <1>7
  <2>2. s.first \in Nat /\ s.next \in Nat /\ s.next < Length
    BY <1>1
  <2>4. n \in Nat /\ n = s.next - s.first + 1
    BY <1>51
  <2>5. s.first + over \in Nat /\ s.next + 1 \in Nat /\ s.next + 1 <= Length
    BY <2>1, <2>2
  <2>6. s.first + over <= s.next + 1
    BY <2>1, <2>2, <2>4
  <2>7. Len(v) = (s.next + 1) - (s.first + over)
    <3>1. \A f, x, o \in Nat : (x - f + 1) - o = (x + 1) - (f + o)
      OBVIOUS
    <3>2. Len(v) = (s.next - s.first + 1) - over
      BY <2>1, <2>4
    <3> QED
      BY <2>1, <2>2, <3>1, <3>2
  <2>8. Len(v) \in Nat /\ Len(v) <= most
    BY <2>1, <2>4
  <2> QED
    BY <2>5, <2>6, <2>7, <2>8
<1>10. /\ Pushed(s) \in Sources /\ Pushed(s).readers = s.readers /\ Pushed(s).ended = s.ended
       /\ Pushed(s).window = v /\ Pushed(s).first = s.first + over /\ Pushed(s).next = s.next + 1
  BY <1>4, <1>7, <1>9 DEF Sources
<1> QED
  BY <1>8, <1>9, <1>10 DEF most

LEMMA ReadsOnKeeps ==
  ASSUME ShareInv, NEW d \in Departures, ReadsOn(d) \/ ReadFails(d)
  PROVE  ShareInv'
<1> USE DEF ShareInv
<1> DEFINE r == on[d]
           s == source[r]
           t == source'[r]
<1>1. /\ r \in Ids /\ s \in Sources /\ place[d] \in 0 .. Length /\ at[d] \in Taking
  BY OnIs DEF ReadsOn, ReadFails, Asking, Taking
<1>2. /\ s.first <= s.next /\ s.next <= Length
      /\ Len(s.window) = s.next - s.first
      /\ \A k \in 1 .. Len(s.window) : s.window[k] = s.first + k - 1
      /\ s.first \in Nat /\ s.next \in Nat
      /\ s.ended => s.next = Length
      /\ Len(s.window) \in Nat /\ Len(s.window) <= MostKept
  <2>1. s.first \in Nat /\ s.next \in Nat /\ Len(s.window) \in Nat
    BY <1>1 DEF Sources
  <2>2. Len(s.window) <= MostKept
    BY <1>1 DEF HeldBounded
  <2>3. /\ s.first <= s.next /\ s.next <= Length
        /\ Len(s.window) = s.next - s.first
        /\ \A k \in 1 .. Len(s.window) : s.window[k] = s.first + k - 1
        /\ s.ended => s.next = Length
    BY <1>1 DEF WindowInv
  <2> QED
    BY <2>1, <2>2, <2>3
<1>3. /\ UNCHANGED <<reads, on, place, got, stalled, joining>> /\ failures' \in 0 .. MaxFailures
      /\ at' = at \/ at' = [at EXCEPT ![d] = "failed"]
  BY DEF ReadsOn, ReadFails, ShareTypeOK
<1>31. Come
  BY <1>3 DEF Come, ShareTypeOK
\* Who reads it has come.
<1>32. Kept(Cardinality(s.readers)) \in Nat /\ Kept(Cardinality(s.readers)) <= MostKept
  <2> DEFINE S == s.readers
             T == {e \in Departures : at[e] # "new"}
  <2>1. T \in SUBSET Departures /\ S \in SUBSET T
    BY <1>1 DEF Sources, OnInv, Taking
  <2> HIDE DEF S, T
  <2>2. Kept(Cardinality(S)) \in Nat /\ Kept(Cardinality(S)) <= Kept(Cardinality(T))
    BY <2>1, KeptGrows
  <2> QED
    BY <2>2 DEF MostKept, S, T
<1>4. /\ source' \in [Ids -> Sources] /\ \A o \in Ids \ {r} : source'[o] = source[o]
      /\ t.readers = s.readers
      /\ t.first <= t.next /\ t.next <= Length
      /\ Len(t.window) = t.next - t.first
      /\ \A k \in 1 .. Len(t.window) : t.window[k] = t.first + k - 1
      /\ t.ended => t.next = Length
      /\ Len(t.window) \in Nat /\ Len(t.window) <= MostKept
  <2>1. CASE ReadsOn(d) /\ s.next < Length
    <3>1. ~s.ended /\ source' = [source EXCEPT ![r] = Pushed(s)]
      BY <2>1 DEF ReadsOn, Source
    <3>2. Pushed(s) \in Sources /\ Pushed(s).ended = s.ended
      BY <1>1, <1>2, <2>1, PushedIs
    <3>3. /\ source' \in [Ids -> Sources] /\ \A o \in Ids \ {r} : source'[o] = source[o]
          /\ t = Pushed(s)
      BY <1>1, <3>1, <3>2 DEF ShareTypeOK
    <3> HIDE DEF t, s
    <3> QED
      <4>1. /\ Len(t.window) \in Nat /\ Len(t.window) <= Kept(Cardinality(s.readers))
            /\ t.readers = s.readers /\ t.first <= t.next /\ t.next <= Length
            /\ Len(t.window) = t.next - t.first
            /\ \A k \in 1 .. Len(t.window) : t.window[k] = t.first + k - 1
        BY <1>1, <1>2, <2>1, <3>3, PushedIs
      <4>2. Len(t.window) <= MostKept
        BY <1>31, <1>32, <4>1, MostGrows
      <4> QED
        BY <3>1, <3>2, <3>3, <4>1, <4>2
  <2>2. CASE ReadsOn(d) /\ ~(s.next < Length)
    <3> DEFINE e == [s EXCEPT !.ended = TRUE]
    <3>1. source' = [source EXCEPT ![r] = e] /\ s.next = Length
      BY <1>2, <2>2 DEF ReadsOn
    <3>2. /\ e \in Sources /\ Alike([e EXCEPT !.ended = s.ended], s) /\ e.readers = s.readers
          /\ e.window = s.window /\ e.first = s.first /\ e.next = s.next
      BY <1>1 DEF Sources, Alike
    <3> HIDE DEF e
    <3>3. /\ source' \in [Ids -> Sources] /\ \A o \in Ids \ {r} : source'[o] = source[o]
          /\ t = e
      BY <1>1, <3>1, <3>2 DEF ShareTypeOK
    <3> QED
      BY <1>2, <3>1, <3>2, <3>3
  <2>3. CASE ReadFails(d)
    <3> DEFINE e == [s EXCEPT !.failed = TRUE]
    <3>1. source' = [source EXCEPT ![r] = e]
      BY <2>3 DEF ReadFails
    <3>2. /\ e \in Sources /\ e.readers = s.readers
          /\ e.window = s.window /\ e.first = s.first /\ e.next = s.next /\ e.ended = s.ended
      BY <1>1 DEF Sources
    <3> HIDE DEF e
    <3>3. /\ source' \in [Ids -> Sources] /\ \A o \in Ids \ {r} : source'[o] = source[o]
          /\ t = e
      BY <1>1, <3>1, <3>2 DEF ShareTypeOK
    <3> QED
      BY <1>2, <3>1, <3>2, <3>3
  <2> QED
    BY <2>1, <2>2, <2>3
<1> HIDE DEF r, s, t
<1>5. WindowInv'
  <2>1. ASSUME NEW o \in Ids \ {r}
        PROVE  LET q == source'[o]
               IN  /\ q.first <= q.next /\ q.next <= Length
                   /\ Len(q.window) = q.next - q.first
                   /\ \A k \in 1 .. Len(q.window) : q.window[k] = q.first + k - 1
                   /\ q.ended => q.next = Length
    BY <1>4 DEF WindowInv
  <2> QED
    BY <1>4, <2>1 DEF WindowInv, t
<1>6. HeldBounded'
  <2>1. ASSUME NEW o \in Ids \ {r} PROVE Len(source'[o].window) <= MostKept'
    BY <1>31, <1>4, HeldKeeps DEF ShareTypeOK
  <2>2. Len(t.window) <= MostKept'
    BY <1>31, <1>4, MostGrows
  <2> QED
    BY <2>1, <2>2 DEF HeldBounded, t
<1>7. \A o \in Ids : source'[o].readers = source[o].readers
  BY <1>4 DEF s, t
<1>8. OnInv' /\ at' \in [Departures -> DepartureStages] /\ EveryChunk'
  <2>1. CASE at' = at
    <3>1. \A o \in Range(reads') : source'[o].readers = source[o].readers
      BY <1>3, <1>7, RangeIds
    <3>2. OnInv'
      BY <1>3, <1>7, <2>1, <3>1 DEF OnInv
    <3> QED
      BY <1>3, <2>1, <3>2 DEF ShareTypeOK, EveryChunk
  <2>2. CASE at' = [at EXCEPT ![d] = "failed"]
    <3>1. OnInv' /\ at' \in [Departures -> DepartureStages]
      BY <1>1, <1>3, <1>7, <2>2, TakingKeeps DEF Taking
    <3> QED
      BY <1>3, <2>2, <3>1 DEF ShareTypeOK, EveryChunk
  <2> QED
    BY <1>3, <2>1, <2>2
<1>9. ShareTypeOK'
  BY <1>3, <1>4, <1>8 DEF ShareTypeOK
<1> QED
  BY <1>5, <1>6, <1>8, <1>9

----------------------------------------------------------------------------
(* The specification.                                                      *)

LEMMA InitShare == ShareInit => ShareInv
<1> SUFFICES ASSUME ShareInit PROVE ShareInv
  OBVIOUS
<1>1. /\ OpenedAt(0) \in Sources
      /\ OpenedAt(0).window = <<>> /\ OpenedAt(0).first = 0 /\ OpenedAt(0).next = 0
      /\ OpenedAt(0).ended = FALSE /\ OpenedAt(0).readers = {}
  BY OpenedIn
<1>2. ShareTypeOK
  BY <1>1 DEF ShareInit, ShareTypeOK, DepartureStages, IsInjective
<1>3. \A r \in Ids : source[r] = OpenedAt(0)
  BY DEF ShareInit
<1>4. Len(<<>>) = 0 /\ 0 <= MostKept
  <2> DEFINE T == {d \in Departures : at[d] # "new"}
  <2>1. T \in SUBSET Departures /\ T \in SUBSET T
    OBVIOUS
  <2> HIDE DEF T
  <2>2. Kept(Cardinality(T)) \in Nat
    BY <2>1, KeptGrows
  <2> QED
    BY <2>2 DEF MostKept, T
<1>5. WindowInv /\ HeldBounded
  BY <1>1, <1>3, <1>4 DEF WindowInv, HeldBounded
<1>6. EveryChunk
  <2>1. <<>> = [i \in 1 .. 0 |-> i - 1]
    OBVIOUS
  <2> QED
    BY <2>1 DEF ShareInit, EveryChunk
<1>7. Range(<<>>) = {}
  BY DEF Range
<1>8. OnInv
  BY <1>1, <1>3, <1>7, IdsAre DEF ShareInit, OnInv, Taking
<1> QED
  BY <1>2, <1>5, <1>6, <1>8 DEF ShareInv

LEMMA NextShare == ShareInv /\ [ShareNext]_shareVars => ShareInv'
<1> SUFFICES ASSUME ShareInv, [ShareNext]_shareVars PROVE ShareInv'
  OBVIOUS
<1>1. CASE UNCHANGED shareVars
  <2>1. ShareTypeOK' /\ WindowInv' /\ HeldBounded'
    BY <1>1 DEF ShareInv, ShareTypeOK, WindowInv, HeldBounded, MostKept
  <2>2. EveryChunk' /\ OnInv'
    BY <1>1 DEF ShareInv, EveryChunk, OnInv
  <2> QED
    BY <2>1, <2>2 DEF ShareInv
<1>2. ASSUME NEW d \in Departures,
             \/ Picks(d) \/ Joins(d) \/ StaysOn(d) \/ Chunk(d) \/ Drops(d) \/ Stalls(d)
             \/ \E to \in Range(reads) \ {on[d]} : Moves(d, to)
      PROVE  ShareInv'
  BY <1>2, PicksKeeps, JoinsKeeps, StaysOnKeeps, TakesKeeps, ReadEndsKeeps, ReadsOnKeeps, DropsKeeps,
     MovesKeeps DEF Chunk
<1> QED
  BY <1>1, <1>2 DEF ShareNext

LEMMA ShareSound == ShareInv => ShareTypeOK /\ Shared
<1> SUFFICES ASSUME ShareInv PROVE OneEach
  BY DEF ShareInv, Shared
<1>1. ASSUME NEW d \in Departures, NEW r \in Ids, d \in source[r].readers
      PROVE  on[d] = r /\ r \in Range(reads)
  BY <1>1, IdsAre DEF ShareInv, OnInv
<1>2. ASSUME NEW d \in Departures, at[d] \in Taking PROVE d \in source[on[d]].readers
  <2>1. on[d] # None /\ on[d] \in Ids \cup {None}
    BY <1>2 DEF ShareInv, OnInv, ShareTypeOK, Taking
  <2> QED
    BY <1>2, <2>1 DEF ShareInv, OnInv
<1> QED
  BY <1>1, <1>2 DEF ShareInv, OneEach, OnInv, Taking, Unlocked

\* Every variable of a Stream's reads keeps its type.
THEOREM ShareTypes == ShareSpec => []ShareTypeOK
<1> QED
  BY InitShare, NextShare, ShareSound, PTL DEF ShareSpec

\* However departures share, leave and move between the reads of a Stream, each
\* gets every chunk once and in order, is on one read that is kept just as long,
\* and no read keeps more than it may.
THEOREM SharedHolds == ShareSpec => []Shared
<1> QED
  BY InitShare, NextShare, ShareSound, PTL DEF ShareSpec

HIDE DeparturesAssumption
HIDE BoundsAssumption
HIDE DEF shareVars

----------------------------------------------------------------------------
(***************************************************************************)
(* Receiving: the Receive Locations of one node, their pools and budgets.  *)
(***************************************************************************)

LEMMA Limits ==
  /\ Most \in Nat /\ Most > 0 /\ Carries \in Nat /\ Carries > 0 /\ Bytes \in Nat /\ Bytes > 0
  /\ CarryBytes \in Nat /\ CarryBytes > 0 /\ MaxFaults \in Nat
BY LimitsAssumption

USE LocationsAssumption, Limits
USE DEF locationVars, poolVars, tellVars, budgetVars, receiveVars

\* An arrival its Location counts: handed over, or in its pool.
InHand == {"handed"} \cup Pending

\* How many of some arrivals are at some stages.
Count(st, Y, X) == Cardinality({a \in Y : st[a] \in X})

\* Each arrival is in the line of its Location its stage says, once.
LineInv ==
  \A l \in Locations :
    /\ IsInjective(handing[l]) /\ Range(handing[l]) = {a \in Of(l) : stage[a] = "handed"}
    /\ IsInjective(queued[l]) /\ Range(queued[l]) = {a \in Of(l) : stage[a] = "queued"}
    /\ loop[l] = "hands" <=> handing[l] # <<>>

\* A receive holds places while it runs, for no more than its pool has room.
PlaceInv ==
  \A l \in Locations :
    /\ loop[l] \notin {"receives", "hands", "rests"} => places[l] = 0
    /\ loop[l] = "receives" => carrying[l] + places[l] <= Most
    /\ loop[l] = "hands" => Len(handing[l]) <= places[l]

\* A Location counts what it took and has not settled.
CarryInv ==
  \A l \in Locations : carrying[l] = Count(stage, Of(l), InHand) + Len(told[l])

\* An ordered Location's receive begins with nothing carried, and what it
\* carries is of that receive, its turn yet to come.
OrderInv ==
  \A l \in Ordered :
    /\ IsInjective(batch[l])
    /\ loop[l] = "receives" => carrying[l] = 0
    /\ \A a \in Of(l) : stage[a] \in InHand =>
         \E i \in DOMAIN batch[l] : batch[l][i] = a /\ i >= turn[l]

\* A drain ends for what was found after the stop, or for a failure.
DrainOK(l) ==
  /\ "stops" \in Range(told[l]) => faults > 0
  /\ drain[l].quiet => drain[l].until # "none"
  /\ drain[l].until # "none" => raised
  /\ loop[l] \in {"ends", "ended"} /\ drain[l].letGo /\ faults = 0 =>
       raised /\ (l \notin Polled => drain[l].quiet \/ drain[l].until = "past")
  /\ drain[l].quiet /\ faults = 0 => \A a \in before \cap LetGo \cap Of(l) : stage[a] # "there"

StopInv ==
  /\ ~raised => before = {}
  /\ \A a \in before \cap LetGo : stage[a] \notin {"away", "kept"}
  /\ failed # {} => faults > 0

DrainInv == StopInv /\ \A l \in Locations : DrainOK(l)

\* A pool with a threads awake, b that wait, c woken, d timed out and w that
\* work, n queued.
PoolOK(a, b, c, d, w, n) ==
  /\ a + b + c + d + w <= Most
  /\ n <= a + c + d \/ (a + b + c + d + w = Most /\ a + c + d + w > 0)

Pool(f, w, n) == PoolOK(f.awake, f.waits, f.woken, f.timed, w, n)
PoolInv == \A l \in Locations : Pool(free[l], Working(l), Len(queued[l]))

Frees == [awake : Nat, waits : Nat, woken : Nat, timed : Nat]
Drainings == [letGo : BOOLEAN, until : {"none", "set", "past"}, quiet : BOOLEAN]

Typed ==
  /\ loop \in [Locations -> Loops]
  /\ carrying \in [Locations -> 0 .. Most]
  /\ places \in [Locations -> 0 .. Carries]
  /\ handing \in [Locations -> Seq(Arrivals)] /\ batch \in [Locations -> Seq(Arrivals)]
  /\ queued \in [Locations -> Seq(Arrivals)] /\ turn \in [Locations -> Nat \ {0}]
  /\ failed \subseteq Locations
  /\ drain \in [Locations -> Drainings]
  /\ told \in [Locations -> Seq({"tells", "stops"})]
  /\ free \in [Locations -> Frees]
  /\ finishing \in [Locations -> Nat]
  /\ stage \in [Arrivals -> Stages]
  /\ held \in 0 .. Carries /\ bytes \in 0 .. Bytes
  /\ raised \in BOOLEAN /\ before \subseteq Arrivals /\ faults \in 0 .. MaxFaults

ReceiveInv ==
  Typed /\ PoolInv /\ LineInv /\ PlaceInv /\ CarryInv /\ BudgetsKept /\ OrderInv /\ DrainInv

----------------------------------------------------------------------------
(* Counts.                                                                 *)

LEMMA SlotsIs ==
  ASSUME NEW f \in [Locations -> Nat]
  PROVE  IsFiniteSet(Slots(f)) /\ Cardinality(Slots(f)) \in Nat
<1> DEFINE Part(l) == {l} \X (1 .. f[l])
           T == {Part(l) : l \in Locations}
           g == [l \in Locations |-> Part(l)]
<1>1. \A l \in Locations : IsFiniteSet(Part(l))
  <2> SUFFICES ASSUME NEW l \in Locations PROVE IsFiniteSet(Part(l))
    OBVIOUS
  <2>1. f[l] \in Int /\ 1 \in Int
    OBVIOUS
  <2>2. IsFiniteSet(1 .. f[l])
    BY <2>1, FS_Interval
  <2>3. IsFiniteSet({l})
    BY FS_Singleton
  <2> QED
    BY <2>2, <2>3, FS_Product
<1>2. g \in Surjection(Locations, T)
  BY DEF Surjection
<1>3. IsFiniteSet(T)
  BY <1>2, FS_Surjection
<1>4. IsFiniteSet(UNION T)
  BY <1>1, <1>3, FS_UNION
<1> QED
  BY <1>4, FS_CardinalityType DEF Slots

\* One Location's count changed, the sum changes by as much.
LEMMA SlotsChange ==
  ASSUME NEW f \in [Locations -> Nat], NEW l \in Locations, NEW n \in Nat
  PROVE  /\ Cardinality(Slots([f EXCEPT ![l] = n])) = Cardinality(Slots(f)) - f[l] + n
         /\ f[l] <= Cardinality(Slots(f))
<1> DEFINE rest == {x \in Slots(f) : x[1] # l}
           Part(k) == {l} \X (1 .. k)
<1>1. IsFiniteSet(rest) /\ Cardinality(rest) \in Nat
  BY SlotsIs, FS_Subset, FS_CardinalityType
<1>2. ASSUME NEW k \in Nat PROVE IsFiniteSet(Part(k)) /\ Cardinality(Part(k)) = k
  <2>0. 1 \in Int /\ k \in Int
    OBVIOUS
  <2>1. IsFiniteSet(1 .. k) /\ Cardinality(1 .. k) = IF 1 > k THEN 0 ELSE k - 1 + 1
    BY <2>0, FS_Interval, Zenon
  <2>2. IsFiniteSet({l}) /\ Cardinality({l}) = 1
    BY FS_Singleton
  <2>3. IsFiniteSet({l} \X (1 .. k))
        /\ Cardinality({l} \X (1 .. k)) = Cardinality({l}) * Cardinality(1 .. k)
    BY <2>1, <2>2, FS_Product, Zenon
  <2> QED
    BY <2>1, <2>2, <2>3
<1>3. ASSUME NEW k \in Nat PROVE Cardinality(rest \cup Part(k)) = Cardinality(rest) + k
  <2>1. rest \cap Part(k) = {}
    OBVIOUS
  <2>2. IsFiniteSet(Part(k)) /\ Cardinality(Part(k)) = k
    BY <1>2
  <2> HIDE DEF rest, Part
  <2>3. Cardinality(rest \cup Part(k))
          = Cardinality(rest) + Cardinality(Part(k)) - Cardinality(rest \cap Part(k))
    BY <1>1, <2>2, FS_Union
  <2>4. Cardinality(rest \cap Part(k)) = 0
    BY <2>1, FS_EmptySet, Zenon
  <2> QED
    BY <1>1, <2>2, <2>3, <2>4
<1>4. Slots(f) = rest \cup Part(f[l])
  BY DEF Slots
<1>5. Slots([f EXCEPT ![l] = n]) = rest \cup Part(n)
  BY DEF Slots
<1>6. f[l] \in Nat
  OBVIOUS
<1> HIDE DEF rest, Part
<1>7. Cardinality(Slots(f)) = Cardinality(rest) + f[l]
  BY <1>3, <1>4, <1>6
<1>8. Cardinality(Slots([f EXCEPT ![l] = n])) = Cardinality(rest) + n
  BY <1>3, <1>5
<1> QED
  BY <1>1, <1>6, <1>7, <1>8

----------------------------------------------------------------------------
(* Lines.                                                                  *)

LEMMA HeadTail ==
  ASSUME NEW S, NEW q \in Seq(S), q # <<>>, IsInjective(q)
  PROVE  /\ Head(q) \in S /\ Head(q) \in Range(q) /\ Head(q) = q[1]
         /\ Tail(q) \in Seq(S) /\ Len(Tail(q)) = Len(q) - 1 /\ Len(q) > 0
         /\ IsInjective(Tail(q)) /\ Range(Tail(q)) = Range(q) \ {Head(q)}
<1>1. Len(q) \in Nat \ {0} /\ DOMAIN q = 1 .. Len(q)
  OBVIOUS
<1>2. /\ Tail(q) \in Seq(S) /\ Len(Tail(q)) = Len(q) - 1
      /\ DOMAIN Tail(q) = 1 .. Len(q) - 1
      /\ \A i \in 1 .. Len(q) - 1 : Tail(q)[i] = q[i + 1]
  BY <1>1
<1>3. Head(q) = q[1] /\ q[1] \in S /\ 1 \in DOMAIN q
  BY <1>1
<1>4. IsInjective(Tail(q))
  BY <1>1, <1>2 DEF IsInjective
<1>5. ASSUME NEW x \in Range(Tail(q)) PROVE x \in Range(q) \ {Head(q)}
  <2>1. PICK i \in 1 .. Len(q) - 1 : x = q[i + 1]
    BY <1>2, <1>5 DEF Range
  <2>2. i + 1 \in DOMAIN q /\ i + 1 # 1
    BY <1>1
  <2> QED
    BY <1>3, <2>1, <2>2 DEF Range, IsInjective
<1>6. ASSUME NEW x \in Range(q) \ {Head(q)} PROVE x \in Range(Tail(q))
  <2>1. PICK i \in DOMAIN q : x = q[i]
    BY DEF Range
  <2>2. i # 1
    BY <1>3, <2>1
  <2>3. i - 1 \in 1 .. Len(q) - 1 /\ Tail(q)[i - 1] = x
    <3>1. i - 1 \in 1 .. Len(q) - 1 /\ (i - 1) + 1 = i
      BY <1>1, <2>2
    <3> QED
      BY <3>1, <2>1, <1>2
  <2> QED
    BY <1>2, <2>3 DEF Range
<1>7. Head(q) \in Range(q)
  BY <1>3 DEF Range
<1>8. Range(Tail(q)) = Range(q) \ {Head(q)}
  BY <1>5, <1>6
<1> QED
  BY <1>1, <1>2, <1>3, <1>4, <1>7, <1>8

LEMMA AppendLine ==
  ASSUME NEW S, NEW q \in Seq(S), NEW x \in S, IsInjective(q), x \notin Range(q)
  PROVE  /\ Append(q, x) \in Seq(S) /\ Len(Append(q, x)) = Len(q) + 1
         /\ IsInjective(Append(q, x)) /\ Range(Append(q, x)) = Range(q) \cup {x}
<1>1. /\ Append(q, x) \in Seq(S) /\ Len(Append(q, x)) = Len(q) + 1
      /\ DOMAIN Append(q, x) = 1 .. Len(q) + 1 /\ DOMAIN q = 1 .. Len(q) /\ Len(q) \in Nat
      /\ \A i \in 1 .. Len(q) : Append(q, x)[i] = q[i]
      /\ Append(q, x)[Len(q) + 1] = x
  OBVIOUS
<1>2. \A i \in 1 .. Len(q) : q[i] # x
  BY <1>1 DEF Range
<1>3. IsInjective(Append(q, x))
  <2> SUFFICES ASSUME NEW i \in 1 .. Len(q) + 1, NEW j \in 1 .. Len(q) + 1,
                      Append(q, x)[i] = Append(q, x)[j]
               PROVE  i = j
    BY <1>1 DEF IsInjective
  <2>1. i \in 1 .. Len(q) \/ i = Len(q) + 1
    BY <1>1
  <2>2. j \in 1 .. Len(q) \/ j = Len(q) + 1
    BY <1>1
  <2> QED
    BY <1>1, <1>2, <2>1, <2>2 DEF IsInjective
<1>4. Range(Append(q, x)) = Range(q) \cup {x}
  <2>1. 1 .. Len(q) + 1 = (1 .. Len(q)) \cup {Len(q) + 1}
    BY <1>1
  <2> QED
    BY <1>1, <2>1 DEF Range
<1> QED
  BY <1>1, <1>3, <1>4


----------------------------------------------------------------------------
(* The pool.                                                               *)

LEMMA OfIs == \A l \in Locations : Of(l) \subseteq Arrivals
BY DEF Of

LEMMA WorkingIs ==
  ASSUME Typed, NEW l \in Locations
  PROVE  /\ Working(l) \in Nat /\ Working(l) = Count(stage, Of(l), OnThread) + finishing[l]
         /\ Count(stage, Of(l), OnThread) \in Nat
<1>1. IsFiniteSet({a \in Of(l) : stage[a] \in OnThread})
  BY FS_Subset, OfIs
<1>2. Count(stage, Of(l), OnThread) \in Nat
  BY <1>1, FS_CardinalityType DEF Count
<1> QED
  BY <1>2 DEF Working, Count, Typed

LEMMA PoolIs ==
  ASSUME Typed, NEW l \in Locations
  PROVE  Pool(free[l], Working(l), Len(queued[l])) <=>
           /\ Threads(l) \in 0 .. Most
           /\ LET coming == free[l].awake + free[l].woken + free[l].timed
              IN  Len(queued[l]) <= coming \/ (Threads(l) = Most /\ coming + Working(l) > 0)
<1>0. ASSUME NEW a \in Nat, NEW b \in Nat, NEW c \in Nat, NEW d \in Nat, NEW w \in Nat, NEW n \in Nat
      PROVE  PoolOK(a, b, c, d, w, n) <=>
               /\ a + (b + c + d) + w \in 0 .. Most
               /\ n <= a + c + d \/ (a + (b + c + d) + w = Most /\ (a + c + d) + w > 0)
  BY DEF PoolOK
<1>1. free[l] \in Frees /\ Working(l) \in Nat /\ queued[l] \in Seq(Arrivals)
  BY WorkingIs DEF Typed
<1>2. /\ free[l].awake \in Nat /\ free[l].waits \in Nat /\ free[l].woken \in Nat
      /\ free[l].timed \in Nat /\ Len(queued[l]) \in Nat
  BY <1>1 DEF Frees
<1>3. Threads(l) = free[l].awake + (free[l].waits + free[l].woken + free[l].timed) + Working(l)
  BY DEF Threads, Waiting
<1> DEFINE a == free[l].awake
           b == free[l].waits
           c == free[l].woken
           d == free[l].timed
           w == Working(l)
           n == Len(queued[l])
<1>4. Pool(free[l], w, n) <=> PoolOK(a, b, c, d, w, n)
  BY DEF Pool
<1>5. PoolOK(a, b, c, d, w, n) <=>
        /\ a + (b + c + d) + w \in 0 .. Most
        /\ n <= a + c + d \/ (a + (b + c + d) + w = Most /\ (a + c + d) + w > 0)
  <2> HIDE DEF a, b, c, d, w, n
  <2> QED
    BY <1>0, <1>1, <1>2 DEF a, b, c, d, w, n
<1>6. Threads(l) = a + (b + c + d) + w
  BY <1>3
<1> QED
  BY <1>4, <1>5, <1>6

LEMMA TypesAre == ReceiveTypeOK <=> Typed /\ \A l \in Locations : Threads(l) \in 0 .. Most
BY DEF ReceiveTypeOK, Typed, Frees, Drainings

LEMMA PoolSound == Typed /\ PoolInv => ReceiveTypeOK /\ NoneStranded
BY PoolIs, TypesAre DEF PoolInv, NoneStranded

LEMMA FreeIs ==
  ASSUME NEW f \in Frees
  PROVE  /\ f.awake \in Nat /\ f.waits \in Nat /\ f.woken \in Nat /\ f.timed \in Nat
         /\ f = [awake |-> f.awake, waits |-> f.waits, woken |-> f.woken, timed |-> f.timed]
BY DEF Frees

\* A pool as its numbers.
LEMMA FreeOf ==
  ASSUME NEW a \in Nat, NEW b \in Nat, NEW c \in Nat, NEW d \in Nat, NEW w, NEW n,
         PoolOK(a, b, c, d, w, n)
  PROVE  /\ [awake |-> a, waits |-> b, woken |-> c, timed |-> d] \in Frees
         /\ Pool([awake |-> a, waits |-> b, woken |-> c, timed |-> d], w, n)
BY DEF Frees, Pool

\* What each thread does leaves none stranded.
LEMMA PoolMoves ==
  ASSUME NEW a \in Nat, NEW b \in Nat, NEW c \in Nat, NEW d \in Nat, NEW w \in Nat, NEW n \in Nat,
         PoolOK(a, b, c, d, w, n)
  PROVE  /\ a > 0 /\ n > 0 => a - 1 \in Nat /\ PoolOK(a - 1, b, c, d, w + 1, n - 1)
         /\ a > 0 /\ n = 0 => a - 1 \in Nat /\ PoolOK(a - 1, b, c, d, w, n)
                              /\ PoolOK(a - 1, b + 1, c, d, w, n)
         /\ c > 0 => c - 1 \in Nat /\ PoolOK(a + 1, b, c - 1, d, w, n)
         /\ b > 0 => b - 1 \in Nat /\ PoolOK(a, b - 1, c, d + 1, w, n)
         /\ d > 0 => d - 1 \in Nat /\ PoolOK(a + 1, b, c, d - 1, w, n)
         /\ d > 0 /\ n = 0 => d - 1 \in Nat /\ PoolOK(a, b, c, d - 1, w, n)
         /\ w > 0 => PoolOK(a + 1, b, c, d, w - 1, n)
         /\ PoolOK(a, 0, c + b, d, w, n)
BY DEF PoolOK

\* One more queued finds a thread waiting, one started, or all at work.
LEMMA PoolQueues ==
  ASSUME NEW a \in Nat, NEW b \in Nat, NEW c \in Nat, NEW d \in Nat, NEW w \in Nat, NEW n \in Nat,
         PoolOK(a, b, c, d, w, n)
  PROVE  IF n + 1 > b + c + d /\ a + (b + c + d) + w < Most
           THEN IF b > 0 THEN b - 1 \in Nat /\ PoolOK(a + 1, b - 1, c + 1, d, w, n + 1)
                         ELSE PoolOK(a + 1, b, c, d, w, n + 1)
           ELSE IF b > 0 THEN b - 1 \in Nat /\ PoolOK(a, b - 1, c + 1, d, w, n + 1)
                         ELSE PoolOK(a, b, c, d, w, n + 1)
BY DEF PoolOK

LEMMA PoolStarts ==
  ASSUME Typed, PoolInv, NEW l \in Locations, NEW queue, Len(queue) = Len(queued[l]) + 1
  PROVE  /\ Started(l, queue) \in Frees
         /\ Pool(Started(l, queue), Working(l), Len(queue))
<1> DEFINE f == free[l]
           w == Working(l)
           n == Len(queued[l])
           starts == n + 1 > f.waits + f.woken + f.timed
                       /\ f.awake + (f.waits + f.woken + f.timed) + w < Most
           Rec(a, b, c, d) == [awake |-> a, waits |-> b, woken |-> c, timed |-> d]
<1>1. f \in Frees /\ w \in Nat /\ n \in Nat
  <2>1. queued[l] \in Seq(Arrivals) /\ f \in Frees
    BY DEF Typed
  <2> QED
    BY <2>1, WorkingIs
<1>2. /\ f.awake \in Nat /\ f.waits \in Nat /\ f.woken \in Nat /\ f.timed \in Nat
      /\ f = Rec(f.awake, f.waits, f.woken, f.timed)
  BY <1>1, FreeIs
<1>3. PoolOK(f.awake, f.waits, f.woken, f.timed, w, n)
  BY DEF PoolInv, Pool
<1>4. Started(l, queue) = IF starts THEN [NotifyOne(f) EXCEPT !.awake = @ + 1] ELSE NotifyOne(f)
  BY DEF Started, Waiting, Threads
<1>5. NotifyOne(f) = IF f.waits > 0 THEN Rec(f.awake, f.waits - 1, f.woken + 1, f.timed)
                                    ELSE Rec(f.awake, f.waits, f.woken, f.timed)
  BY <1>2 DEF NotifyOne, Shifts
<1>6. Started(l, queue) =
        IF starts
          THEN IF f.waits > 0 THEN Rec(f.awake + 1, f.waits - 1, f.woken + 1, f.timed)
                              ELSE Rec(f.awake + 1, f.waits, f.woken, f.timed)
          ELSE IF f.waits > 0 THEN Rec(f.awake, f.waits - 1, f.woken + 1, f.timed)
                              ELSE Rec(f.awake, f.waits, f.woken, f.timed)
  <2> HIDE DEF starts, f, w, n
  <2> QED
    BY <1>4, <1>5
<1>7. IF starts
        THEN IF f.waits > 0
               THEN f.waits - 1 \in Nat /\ PoolOK(f.awake + 1, f.waits - 1, f.woken + 1, f.timed, w, n + 1)
               ELSE PoolOK(f.awake + 1, f.waits, f.woken, f.timed, w, n + 1)
        ELSE IF f.waits > 0
               THEN f.waits - 1 \in Nat /\ PoolOK(f.awake, f.waits - 1, f.woken + 1, f.timed, w, n + 1)
               ELSE PoolOK(f.awake, f.waits, f.woken, f.timed, w, n + 1)
  BY <1>1, <1>2, <1>3, PoolQueues
<1>8. f.awake + 1 \in Nat /\ f.woken + 1 \in Nat
  BY <1>2
<1>9. Len(queue) = n + 1
  OBVIOUS
<1> HIDE DEF starts, f
<1> QED
  BY <1>2, <1>6, <1>7, <1>8, <1>9, FreeOf

----------------------------------------------------------------------------
(* Threads that carry nothing.                                             *)

LEMMA RecordShifts ==
  ASSUME NEW a, NEW b, NEW c, NEW d, NEW f,
         f = [awake |-> a, waits |-> b, woken |-> c, timed |-> d]
  PROVE  /\ Shifts(f, "awake", "waits") = [awake |-> a - 1, waits |-> b + 1, woken |-> c, timed |-> d]
         /\ Shifts(f, "woken", "awake") = [awake |-> a + 1, waits |-> b, woken |-> c - 1, timed |-> d]
         /\ Shifts(f, "waits", "timed") = [awake |-> a, waits |-> b - 1, woken |-> c, timed |-> d + 1]
         /\ Shifts(f, "timed", "awake") = [awake |-> a + 1, waits |-> b, woken |-> c, timed |-> d - 1]
         /\ OneLess(f, "awake") = [awake |-> a - 1, waits |-> b, woken |-> c, timed |-> d]
         /\ OneLess(f, "timed") = [awake |-> a, waits |-> b, woken |-> c, timed |-> d - 1]
         /\ NotifyAll(f) = [awake |-> a, waits |-> 0, woken |-> c + b, timed |-> d]
         /\ [f EXCEPT !.awake = @ - 1] = [awake |-> a - 1, waits |-> b, woken |-> c, timed |-> d]
         /\ [f EXCEPT !.awake = @ + 1] = [awake |-> a + 1, waits |-> b, woken |-> c, timed |-> d]
<1>1. Shifts(f, "awake", "waits") = [awake |-> a - 1, waits |-> b + 1, woken |-> c, timed |-> d]
  BY DEF Shifts
<1>2. Shifts(f, "woken", "awake") = [awake |-> a + 1, waits |-> b, woken |-> c - 1, timed |-> d]
  BY DEF Shifts
<1>3. Shifts(f, "waits", "timed") = [awake |-> a, waits |-> b - 1, woken |-> c, timed |-> d + 1]
  BY DEF Shifts
<1>4. Shifts(f, "timed", "awake") = [awake |-> a + 1, waits |-> b, woken |-> c, timed |-> d - 1]
  BY DEF Shifts
<1>5. OneLess(f, "awake") = [awake |-> a - 1, waits |-> b, woken |-> c, timed |-> d]
  BY DEF OneLess
<1>6. OneLess(f, "timed") = [awake |-> a, waits |-> b, woken |-> c, timed |-> d - 1]
  BY DEF OneLess
<1>7. NotifyAll(f) = [awake |-> a, waits |-> 0, woken |-> c + b, timed |-> d]
  <2>1. f.waits = b /\ f.woken = c
    OBVIOUS
  <2>2. NotifyAll(f) = [f EXCEPT !.woken = c + b, !.waits = 0]
    BY <2>1, Zenon DEF NotifyAll
  <2> DEFINE g == [f EXCEPT !.woken = c + b]
  <2>3. g = [awake |-> a, waits |-> b, woken |-> c + b, timed |-> d]
    OBVIOUS
  <2>4. NotifyAll(f) = [g EXCEPT !.waits = 0]
    BY <2>2
  <2> HIDE DEF g
  <2> QED
    BY <2>3, <2>4
<1>8. [f EXCEPT !.awake = @ - 1] = [awake |-> a - 1, waits |-> b, woken |-> c, timed |-> d]
  OBVIOUS
<1>9. [f EXCEPT !.awake = @ + 1] = [awake |-> a + 1, waits |-> b, woken |-> c, timed |-> d]
  OBVIOUS
<1> QED
  BY <1>1, <1>2, <1>3, <1>4, <1>5, <1>6, <1>7, <1>8, <1>9, Zenon

LEMMA ShiftsAre ==
  ASSUME NEW f \in Frees
  PROVE  /\ Shifts(f, "awake", "waits") =
              [awake |-> f.awake - 1, waits |-> f.waits + 1, woken |-> f.woken, timed |-> f.timed]
         /\ Shifts(f, "woken", "awake") =
              [awake |-> f.awake + 1, waits |-> f.waits, woken |-> f.woken - 1, timed |-> f.timed]
         /\ Shifts(f, "waits", "timed") =
              [awake |-> f.awake, waits |-> f.waits - 1, woken |-> f.woken, timed |-> f.timed + 1]
         /\ Shifts(f, "timed", "awake") =
              [awake |-> f.awake + 1, waits |-> f.waits, woken |-> f.woken, timed |-> f.timed - 1]
         /\ OneLess(f, "awake") =
              [awake |-> f.awake - 1, waits |-> f.waits, woken |-> f.woken, timed |-> f.timed]
         /\ OneLess(f, "timed") =
              [awake |-> f.awake, waits |-> f.waits, woken |-> f.woken, timed |-> f.timed - 1]
         /\ NotifyAll(f) =
              [awake |-> f.awake, waits |-> 0, woken |-> f.woken + f.waits, timed |-> f.timed]
         /\ [f EXCEPT !.awake = @ - 1] =
              [awake |-> f.awake - 1, waits |-> f.waits, woken |-> f.woken, timed |-> f.timed]
         /\ [f EXCEPT !.awake = @ + 1] =
              [awake |-> f.awake + 1, waits |-> f.waits, woken |-> f.woken, timed |-> f.timed]
<1> DEFINE a == f.awake
           b == f.waits
           c == f.woken
           d == f.timed
<1>1. f = [awake |-> a, waits |-> b, woken |-> c, timed |-> d]
  BY FreeIs
<1> HIDE DEF a, b, c, d
<1>2. /\ Shifts(f, "awake", "waits") = [awake |-> a - 1, waits |-> b + 1, woken |-> c, timed |-> d]
      /\ Shifts(f, "woken", "awake") = [awake |-> a + 1, waits |-> b, woken |-> c - 1, timed |-> d]
      /\ Shifts(f, "waits", "timed") = [awake |-> a, waits |-> b - 1, woken |-> c, timed |-> d + 1]
      /\ Shifts(f, "timed", "awake") = [awake |-> a + 1, waits |-> b, woken |-> c, timed |-> d - 1]
      /\ OneLess(f, "awake") = [awake |-> a - 1, waits |-> b, woken |-> c, timed |-> d]
      /\ OneLess(f, "timed") = [awake |-> a, waits |-> b, woken |-> c, timed |-> d - 1]
      /\ NotifyAll(f) = [awake |-> a, waits |-> 0, woken |-> c + b, timed |-> d]
      /\ [f EXCEPT !.awake = @ - 1] = [awake |-> a - 1, waits |-> b, woken |-> c, timed |-> d]
      /\ [f EXCEPT !.awake = @ + 1] = [awake |-> a + 1, waits |-> b, woken |-> c, timed |-> d]
  BY <1>1, RecordShifts
<1> QED
  BY <1>2 DEF a, b, c, d

\* A step of a pool's threads alone.
LEMMA FreeKeeps ==
  ASSUME ReceiveInv, NEW l \in Locations, NEW g \in Frees, free' = [free EXCEPT ![l] = g],
         Pool(g, Working(l), Len(queued[l])),
         UNCHANGED <<locationVars, queued, finishing, tellVars, stage, held, bytes, raised, before,
                     faults>>
  PROVE  ReceiveInv'
<1> USE DEF ReceiveInv
<1>1. Typed'
  BY DEF Typed
<1>2. PoolInv'
  <2> SUFFICES ASSUME NEW k \in Locations
               PROVE  Pool(free'[k], Working(k)', Len(queued'[k]))
    BY DEF PoolInv
  <2>1. Working(k)' = Working(k) /\ queued'[k] = queued[k]
    BY DEF Working
  <2>2. free'[k] = IF k = l THEN g ELSE free[k]
    BY DEF Typed
  <2> QED
    BY <2>1, <2>2 DEF PoolInv
<1>3. LineInv' /\ PlaceInv' /\ CarryInv' /\ BudgetsKept'
  BY DEF LineInv, PlaceInv, CarryInv, BudgetsKept
<1>4. OrderInv' /\ DrainInv'
  BY DEF OrderInv, DrainInv, DrainOK, StopInv
<1> QED
  BY <1>1, <1>2, <1>3, <1>4

LEMMA WaitsKeeps ==
  ASSUME ReceiveInv, NEW l \in Locations,
         WaitsForWork(l) \/ Wakes(l) \/ IdleRunsOut(l) \/ TimedOut(l)
  PROVE  ReceiveInv'
<1> DEFINE f == free[l]
           w == Working(l)
           n == Len(queued[l])
<1>1. f \in Frees /\ w \in Nat /\ n \in Nat /\ (queued[l] = <<>> => n = 0)
  <2>1. queued[l] \in Seq(Arrivals) /\ f \in Frees
    BY DEF ReceiveInv, Typed
  <2> QED
    BY <2>1, WorkingIs DEF ReceiveInv
<1>2. /\ f.awake \in Nat /\ f.waits \in Nat /\ f.woken \in Nat /\ f.timed \in Nat
      /\ PoolOK(f.awake, f.waits, f.woken, f.timed, w, n)
  BY <1>1, FreeIs DEF ReceiveInv, PoolInv, Pool
<1>3. /\ f.awake + 1 \in Nat /\ f.waits + 1 \in Nat /\ f.timed + 1 \in Nat
  BY <1>2
<1>4. /\ UNCHANGED <<locationVars, queued, finishing, tellVars, stage, held, bytes, raised, before,
                     faults>>
      /\ \/ n = 0 /\ f.awake > 0 /\ free' = [free EXCEPT ![l] = OneLess(f, "awake")]
         \/ n = 0 /\ f.awake > 0 /\ free' = [free EXCEPT ![l] = Shifts(f, "awake", "waits")]
         \/ f.woken > 0 /\ free' = [free EXCEPT ![l] = Shifts(f, "woken", "awake")]
         \/ f.waits > 0 /\ free' = [free EXCEPT ![l] = Shifts(f, "waits", "timed")]
         \/ n = 0 /\ f.timed > 0 /\ free' = [free EXCEPT ![l] = OneLess(f, "timed")]
         \/ f.timed > 0 /\ free' = [free EXCEPT ![l] = Shifts(f, "timed", "awake")]
  <2>1. CASE WaitsForWork(l)
    <3>1. CASE Closed(l)
      BY <1>1, <2>1, <3>1 DEF WaitsForWork
    <3>2. CASE ~Closed(l)
      BY <1>1, <2>1, <3>2 DEF WaitsForWork
    <3> QED
      BY <3>1, <3>2
  <2>2. CASE Wakes(l)
    BY <2>2 DEF Wakes, ReceiveInv, Typed
  <2>3. CASE IdleRunsOut(l)
    BY <2>3 DEF IdleRunsOut, ReceiveInv, Typed
  <2>4. CASE TimedOut(l)
    <3>1. CASE queued[l] = <<>> /\ Threads(l) > 1
      BY <1>1, <2>4, <3>1 DEF TimedOut
    <3>2. CASE ~(queued[l] = <<>> /\ Threads(l) > 1)
      BY <1>1, <2>4, <3>2 DEF TimedOut
    <3> QED
      BY <3>1, <3>2
  <2> QED
    BY <2>1, <2>2, <2>3, <2>4
<1> HIDE DEF f, w, n
<1>5. ASSUME NEW a \in Nat, NEW b \in Nat, NEW c \in Nat, NEW d \in Nat,
             PoolOK(a, b, c, d, w, n),
             free' = [free EXCEPT ![l] = [awake |-> a, waits |-> b, woken |-> c, timed |-> d]]
      PROVE  ReceiveInv'
  BY <1>4, <1>5, FreeOf, FreeKeeps DEF w, n
<1>6. CASE n = 0 /\ f.awake > 0 /\ free' = [free EXCEPT ![l] = OneLess(f, "awake")]
  <2>1. f.awake - 1 \in Nat /\ PoolOK(f.awake - 1, f.waits, f.woken, f.timed, w, n)
    BY <1>1, <1>2, <1>6, PoolMoves
  <2> QED
    BY <1>1, <1>2, <1>5, <1>6, <2>1, ShiftsAre
<1>7. CASE n = 0 /\ f.awake > 0 /\ free' = [free EXCEPT ![l] = Shifts(f, "awake", "waits")]
  <2>1. f.awake - 1 \in Nat /\ PoolOK(f.awake - 1, f.waits + 1, f.woken, f.timed, w, n)
    BY <1>1, <1>2, <1>7, PoolMoves
  <2> QED
    BY <1>1, <1>2, <1>3, <1>5, <1>7, <2>1, ShiftsAre
<1>8. CASE f.woken > 0 /\ free' = [free EXCEPT ![l] = Shifts(f, "woken", "awake")]
  <2>1. f.woken - 1 \in Nat /\ PoolOK(f.awake + 1, f.waits, f.woken - 1, f.timed, w, n)
    BY <1>1, <1>2, <1>8, PoolMoves
  <2> QED
    BY <1>1, <1>2, <1>3, <1>5, <1>8, <2>1, ShiftsAre
<1>9. CASE f.waits > 0 /\ free' = [free EXCEPT ![l] = Shifts(f, "waits", "timed")]
  <2>1. f.waits - 1 \in Nat /\ PoolOK(f.awake, f.waits - 1, f.woken, f.timed + 1, w, n)
    BY <1>1, <1>2, <1>9, PoolMoves
  <2> QED
    BY <1>1, <1>2, <1>3, <1>5, <1>9, <2>1, ShiftsAre
<1>10. CASE n = 0 /\ f.timed > 0 /\ free' = [free EXCEPT ![l] = OneLess(f, "timed")]
  <2>1. f.timed - 1 \in Nat /\ PoolOK(f.awake, f.waits, f.woken, f.timed - 1, w, n)
    BY <1>1, <1>2, <1>10, PoolMoves
  <2> QED
    BY <1>1, <1>2, <1>5, <1>10, <2>1, ShiftsAre
<1>11. CASE f.timed > 0 /\ free' = [free EXCEPT ![l] = Shifts(f, "timed", "awake")]
  <2>1. f.timed - 1 \in Nat /\ PoolOK(f.awake + 1, f.waits, f.woken, f.timed - 1, w, n)
    BY <1>1, <1>2, <1>11, PoolMoves
  <2> QED
    BY <1>1, <1>2, <1>3, <1>5, <1>11, <2>1, ShiftsAre
<1> QED
  BY <1>4, <1>6, <1>7, <1>8, <1>9, <1>10, <1>11

----------------------------------------------------------------------------
(* What a Location's loop does with its drain.                             *)

LEMMA PoolFrame ==
  ASSUME PoolInv, UNCHANGED <<free, queued, finishing, stage>>
  PROVE  PoolInv'
<1>1. \A l \in Locations : Working(l)' = Working(l)
  BY DEF Working
<1> QED
  BY <1>1 DEF PoolInv

LEMMA BudgetsAre ==
  BudgetsKept <=>
    /\ held = Cardinality(Slots(places)) + Cardinality(Slots(finishing))
              + Count(stage, Arrivals, Pending)
    /\ bytes = Charge * Count(stage, Arrivals, {"carries"})
<1>1. {a \in Arrivals : stage[a] = "carries"} = {a \in Arrivals : stage[a] \in {"carries"}}
  OBVIOUS
<1> QED
  BY <1>1 DEF BudgetsKept, Count

LEMMA DrainRunsOutKeeps ==
  ASSUME ReceiveInv, NEW l \in Locations, DrainRunsOut(l)
  PROVE  ReceiveInv'
<1> USE DEF ReceiveInv, DrainRunsOut
<1>1. Typed'
  BY DEF Typed, Drainings
<1>2. PoolInv'
  BY PoolFrame
<1>3. LineInv' /\ PlaceInv' /\ CarryInv' /\ BudgetsKept' /\ OrderInv'
  BY DEF LineInv, PlaceInv, CarryInv, BudgetsKept, OrderInv
<1>4. \A k \in Locations :
        /\ drain'[k].letGo = drain[k].letGo /\ drain'[k].quiet = drain[k].quiet
        /\ drain'[k].until = IF k = l THEN "past" ELSE drain[k].until
  BY DEF Typed, Drainings
<1>5. DrainInv'
  BY <1>4 DEF DrainInv, DrainOK, StopInv
<1> QED
  BY <1>1, <1>2, <1>3, <1>5

\* A step of a Location's loop that takes and lets go of nothing.
LEMMA LoopKeeps ==
  ASSUME ReceiveInv, NEW l \in Locations, NEW p \in Loops \ {"receives", "hands"},
         NEW d \in Drainings,
         loop[l] # "hands", p = "rests" \/ places[l] = 0, loop' = [loop EXCEPT ![l] = p],
         drain' = [drain EXCEPT ![l] = d], faults' \in 0 .. MaxFaults, DrainInv',
         UNCHANGED <<carrying, places, handing, failed, poolVars, tellVars, stage, held, bytes,
                     raised, before>>
  PROVE  ReceiveInv'
<1> USE DEF ReceiveInv
<1>0. \A k \in Locations : loop'[k] = IF k = l THEN p ELSE loop[k]
  BY DEF Typed
<1>1. Typed'
  BY DEF Typed
<1>2. PoolInv'
  BY PoolFrame
<1>3. LineInv'
  BY <1>0 DEF LineInv
<1>4. PlaceInv'
  BY <1>0 DEF PlaceInv
<1>5. CarryInv' /\ BudgetsKept'
  BY DEF CarryInv, BudgetsKept
<1>6. OrderInv'
  BY <1>0, KindsAssumption DEF OrderInv
<1> QED
  BY <1>1, <1>2, <1>3, <1>4, <1>5, <1>6

LEMMA AsksKeeps ==
  ASSUME ReceiveInv, NEW l \in Locations, Asks(l)
  PROVE  ReceiveInv'
<1> USE DEF ReceiveInv
<1> DEFINE u == IF drain[l].until = "none" THEN "set" ELSE drain[l].until
<1>1. loop \in [Locations -> Loops] /\ drain \in [Locations -> Drainings] /\ drain[l] \in Drainings
  BY DEF Typed
<1>2. loop[l] = "asks" /\ places[l] = 0 /\ faults \in 0 .. MaxFaults
  BY DEF Asks, PlaceInv, Typed
<1>3. UNCHANGED <<carrying, places, handing, failed, poolVars, tellVars, stage, held, bytes,
                  raised, before, faults>>
  BY DEF Asks
<1>4. PICK p \in {"settles", "ends"}, d \in Drainings :
        /\ loop' = [loop EXCEPT ![l] = p] /\ drain' = [drain EXCEPT ![l] = d]
        /\ d.letGo = drain[l].letGo /\ d.quiet = drain[l].quiet
        /\ d.until # drain[l].until => raised
        /\ drain[l].until # "none" => d.until = drain[l].until
        /\ p = "ends" => raised /\ (l \in Polled \/ ~d.letGo \/ d.quiet \/ d.until = "past")
  <2>1. CASE ~raised
    <3>1. loop' = [loop EXCEPT ![l] = "settles"] /\ drain' = [drain EXCEPT ![l] = drain[l]]
      BY <1>1, <2>1 DEF Asks
    <3> QED
      BY <1>1, <3>1
  <2>2. CASE raised /\ ~Drains(l)
    <3>1. loop' = [loop EXCEPT ![l] = "ends"] /\ drain' = [drain EXCEPT ![l] = drain[l]]
      BY <1>1, <2>2 DEF Asks
    <3>2. l \in Polled \/ ~drain[l].letGo \/ drain[l].quiet
      BY <2>2 DEF Drains
    <3> QED
      BY <1>1, <2>2, <3>1, <3>2
  <2>3. CASE raised /\ Drains(l)
    <3> DEFINE d == [drain[l] EXCEPT !.until = u]
               p == IF drain[l].until = "past" THEN "ends" ELSE "settles"
    <3>1. /\ d \in Drainings /\ d.letGo = drain[l].letGo /\ d.quiet = drain[l].quiet /\ d.until = u
      BY <1>1 DEF Drainings
    <3>2. drain' = [drain EXCEPT ![l] = d] /\ loop' = [loop EXCEPT ![l] = p]
      BY <1>1, <2>3 DEF Asks
    <3>3. p \in {"settles", "ends"} /\ (p = "ends" => d.until = "past")
      BY <3>1
    <3>4. (u # drain[l].until => raised) /\ (drain[l].until # "none" => u = drain[l].until)
      BY <2>3
    <3> HIDE DEF d, p, u
    <3> QED
      BY <2>3, <3>1, <3>2, <3>3, <3>4
  <2> QED
    BY <2>1, <2>2, <2>3
<1>5. \A k \in Locations : loop'[k] = IF k = l THEN p ELSE loop[k]
  BY <1>1, <1>4
<1>6. \A k \in Locations : drain'[k] = IF k = l THEN d ELSE drain[k]
  BY <1>1, <1>4
<1>7. DrainInv'
  <2>1. StopInv'
    BY <1>3 DEF DrainInv, StopInv
  <2> SUFFICES ASSUME NEW k \in Locations PROVE DrainOK(k)'
    BY <2>1 DEF DrainInv
  <2>2. DrainOK(k)
    BY DEF DrainInv
  <2>3. CASE k = l
    BY <1>3, <1>4, <1>5, <1>6, <2>2, <2>3 DEF DrainOK
  <2>4. CASE k # l
    BY <1>3, <1>5, <1>6, <2>2, <2>4 DEF DrainOK
  <2> QED
    BY <2>3, <2>4
<1> QED
  BY <1>2, <1>3, <1>4, <1>7, LoopKeeps DEF Loops

LEMMA FindsNothingKeeps ==
  ASSUME ReceiveInv, NEW l \in Locations, FindsNothing(l)
  PROVE  ReceiveInv'
<1> USE DEF ReceiveInv
<1>1. loop \in [Locations -> Loops] /\ drain \in [Locations -> Drainings] /\ drain[l] \in Drainings
      /\ faults \in 0 .. MaxFaults
  BY DEF Typed
<1>2. /\ UNCHANGED <<carrying, places, handing, failed, poolVars, tellVars, stage, held, bytes,
                     raised, before>>
      /\ loop[l] = "receives" /\ loop' = [loop EXCEPT ![l] = "rests"]
  BY DEF FindsNothing
<1> DEFINE d == Received(l, FALSE)
<1>3. /\ d \in Drainings /\ d.letGo = drain[l].letGo /\ d.until = drain[l].until
      /\ d.quiet => drain[l].quiet \/ drain[l].until # "none"
  BY <1>1 DEF Received, Drainings
<1>4. drain' = [drain EXCEPT ![l] = d]
  BY DEF FindsNothing
<1> HIDE DEF d
<1>5. /\ faults' \in 0 .. MaxFaults /\ faults' >= faults /\ (faults > 0 => faults' > 0)
      /\ faults' = 0 => faults = 0 /\ \A a \in Of(l) : stage[a] # "there"
  BY <1>1 DEF FindsNothing, There
<1>6. \A k \in Locations : loop'[k] = IF k = l THEN "rests" ELSE loop[k]
  BY <1>1, <1>2
<1>7. \A k \in Locations : drain'[k] = IF k = l THEN d ELSE drain[k]
  BY <1>1, <1>4
<1>8. DrainInv'
  <2>1. StopInv'
    BY <1>2, <1>5 DEF DrainInv, StopInv
  <2> SUFFICES ASSUME NEW k \in Locations PROVE DrainOK(k)'
    BY <2>1 DEF DrainInv
  <2>2. DrainOK(k)
    BY DEF DrainInv
  <2>3. CASE k = l
    BY <1>2, <1>3, <1>5, <1>6, <1>7, <2>2, <2>3 DEF DrainOK
  <2>4. CASE k # l
    BY <1>2, <1>5, <1>6, <1>7, <2>2, <2>4 DEF DrainOK
  <2> QED
    BY <2>3, <2>4
<1> QED
  BY <1>2, <1>3, <1>4, <1>5, <1>8, LoopKeeps DEF Loops

----------------------------------------------------------------------------
(* What a Location's loop holds of the carry budget.                       *)

\* What a receive holds is part of what is held.
LEMMA PlacesHeld ==
  ASSUME Typed, BudgetsKept, NEW l \in Locations
  PROVE  /\ places[l] \in Nat /\ held \in Nat /\ places[l] <= held
         /\ \A n \in Nat : Cardinality(Slots([places EXCEPT ![l] = n])) =
                             Cardinality(Slots(places)) - places[l] + n
         /\ Cardinality(Slots(places)) \in Nat /\ Cardinality(Slots(finishing)) \in Nat
         /\ Count(stage, Arrivals, Pending) \in Nat
<1>1. places \in [Locations -> Nat] /\ finishing \in [Locations -> Nat] /\ held \in Nat
  BY DEF Typed
<1>2. Cardinality(Slots(places)) \in Nat /\ Cardinality(Slots(finishing)) \in Nat
  BY <1>1, SlotsIs
<1>3. Count(stage, Arrivals, Pending) \in Nat
  BY FS_Subset, FS_CardinalityType DEF Count
<1>4. /\ \A n \in Nat : Cardinality(Slots([places EXCEPT ![l] = n])) =
                          Cardinality(Slots(places)) - places[l] + n
      /\ places[l] <= Cardinality(Slots(places))
  BY <1>1, SlotsChange
<1>5. held = Cardinality(Slots(places)) + Cardinality(Slots(finishing))
             + Count(stage, Arrivals, Pending)
  BY BudgetsAre
<1>6. places[l] \in Nat
  BY <1>1
<1>7. places[l] <= held
  BY <1>2, <1>3, <1>4, <1>5, <1>6
<1> QED
  BY <1>1, <1>2, <1>3, <1>4, <1>6, <1>7

LEMMA PlacesKeep ==
  ASSUME ReceiveInv, NEW l \in Locations, NEW p \in Loops \ {"hands"}, NEW n \in 0 .. Carries,
         loop[l] # "hands", loop' = [loop EXCEPT ![l] = p], places' = [places EXCEPT ![l] = n],
         held' = held - places[l] + n, held' <= Carries,
         p \notin {"receives", "rests"} => n = 0,
         p = "receives" => carrying[l] + n <= Most /\ carrying[l] <= Busy(l),
         failed' \subseteq Locations, faults' \in 0 .. MaxFaults, DrainInv',
         UNCHANGED <<carrying, handing, drain, poolVars, tellVars, stage, bytes, raised, before>>
  PROVE  ReceiveInv'
<1> USE DEF ReceiveInv
<1>0. /\ \A k \in Locations : loop'[k] = IF k = l THEN p ELSE loop[k]
      /\ \A k \in Locations : places'[k] = IF k = l THEN n ELSE places[k]
  BY DEF Typed
<1>1. Typed'
  <2>1. places[l] \in Nat /\ held \in Nat /\ places[l] <= held
    BY PlacesHeld
  <2>2. held' \in 0 .. Carries
    BY <2>1
  <2> QED
    BY <2>2 DEF Typed
<1>2. PoolInv'
  BY PoolFrame
<1>3. LineInv'
  BY <1>0 DEF LineInv
<1>4. PlaceInv'
  BY <1>0 DEF PlaceInv
<1>5. CarryInv'
  BY DEF CarryInv
<1>6. BudgetsKept'
  <2> DEFINE F == Cardinality(Slots(finishing))
             C == Count(stage, Arrivals, Pending)
             S == Cardinality(Slots(places))
             S2 == Cardinality(Slots(places'))
  <2>0. n \in Nat
    OBVIOUS
  <2>1. S \in Nat /\ F \in Nat /\ C \in Nat /\ S2 = S - places[l] + n /\ places[l] \in Nat
    BY <2>0, PlacesHeld, Zenon
  <2>2. held = S + F + C
    BY BudgetsAre
  <2>3. held' = S2 + F + C
    <3> HIDE DEF S, F, C, S2
    <3> QED
      BY <2>1, <2>2
  <2> QED
    BY <2>3 DEF BudgetsKept, Count
<1>7. OrderInv'
  <2>1. l \in Ordered /\ p = "receives" => carrying[l] = 0
    BY DEF Busy, Typed
  <2> QED
    BY <1>0, <2>1, KindsAssumption DEF OrderInv
<1> QED
  BY <1>1, <1>2, <1>3, <1>4, <1>5, <1>6, <1>7

LEMMA HoldsKeeps ==
  ASSUME ReceiveInv, NEW l \in Locations, Holds(l)
  PROVE  ReceiveInv'
<1> USE DEF ReceiveInv
<1> DEFINE n == Lesser(Lesser(Most - carrying[l], Carries), Carries - held)
<1>1. /\ loop \in [Locations -> Loops] /\ loop[l] = "settles" /\ carrying[l] \in 0 .. Most
      /\ held \in 0 .. Carries /\ faults \in 0 .. MaxFaults /\ failed \subseteq Locations
  BY DEF Typed, Holds
<1>2. places[l] = 0
  BY <1>1 DEF PlaceInv
<1>3. /\ n \in 0 .. Carries /\ carrying[l] + n <= Most /\ held + n <= Carries
  BY <1>1 DEF Lesser
<1>4. /\ places' = [places EXCEPT ![l] = n] /\ held' = held + n /\ carrying[l] <= Busy(l)
      /\ loop' = [loop EXCEPT ![l] = "receives"]
      /\ UNCHANGED <<carrying, handing, failed, drain, poolVars, tellVars, stage, bytes, raised,
                     before, faults>>
  BY DEF Holds
<1> HIDE DEF n
<1>5. DrainInv'
  BY <1>1, <1>4 DEF DrainInv, DrainOK, StopInv
<1>6. held' = held - places[l] + n /\ held' <= Carries
  BY <1>1, <1>2, <1>3, <1>4
<1>7. "receives" \in Loops \ {"hands"}
  BY DEF Loops
<1> QED
  BY <1>1, <1>3, <1>4, <1>5, <1>6, <1>7, PlacesKeep

LEMMA RestedKeeps ==
  ASSUME ReceiveInv, NEW l \in Locations, Rested(l) \/ ReceiveStops(l)
  PROVE  ReceiveInv'
<1> USE DEF ReceiveInv
<1>1. PICK p \in {"asks", "ends"} :
        /\ loop[l] # "hands" /\ loop' = [loop EXCEPT ![l] = p]
        /\ places' = [places EXCEPT ![l] = 0] /\ held' = Released(held, places[l])
        /\ UNCHANGED <<carrying, handing, drain, poolVars, tellVars, stage, bytes, raised, before>>
        /\ faults' \in 0 .. MaxFaults /\ failed' \subseteq Locations
        /\ (p = "asks" /\ UNCHANGED <<faults, failed>>) \/ faults' = faults + 1
  <2>1. CASE Rested(l)
    <3>1. /\ loop[l] # "hands" /\ loop' = [loop EXCEPT ![l] = "asks"]
          /\ places' = [places EXCEPT ![l] = 0] /\ held' = Released(held, places[l])
          /\ UNCHANGED <<carrying, handing, drain, poolVars, tellVars, stage, bytes, raised, before>>
          /\ faults' \in 0 .. MaxFaults /\ failed' \subseteq Locations
          /\ UNCHANGED <<faults, failed>>
      BY <2>1 DEF Rested, Typed
    <3> QED
      BY <3>1
  <2>2. CASE ReceiveStops(l)
    <3>1. /\ loop[l] # "hands" /\ loop' = [loop EXCEPT ![l] = "ends"]
          /\ places' = [places EXCEPT ![l] = 0] /\ held' = Released(held, places[l])
          /\ UNCHANGED <<carrying, handing, drain, poolVars, tellVars, stage, bytes, raised, before>>
          /\ faults' \in 0 .. MaxFaults /\ failed' \subseteq Locations
          /\ faults' = faults + 1
      BY <2>2 DEF ReceiveStops, Typed
    <3> QED
      BY <3>1
  <2> QED
    BY <2>1, <2>2
<1>2. places[l] \in Nat /\ held \in Nat /\ places[l] <= held /\ held <= Carries /\ faults \in Nat
      /\ loop \in [Locations -> Loops]
  BY PlacesHeld DEF Typed
<1>3. held' = held - places[l] + 0 /\ held' <= Carries
  BY <1>1, <1>2 DEF Released
<1>4. \A k \in Locations : loop'[k] = IF k = l THEN p ELSE loop[k]
  BY <1>1, <1>2
<1>5. (faults > 0 => faults' > 0) /\ (faults' = 0 => faults = 0 /\ p = "asks" /\ UNCHANGED failed)
  BY <1>1, <1>2
<1>6. DrainInv'
  <2>1. StopInv'
    BY <1>1, <1>2, <1>5 DEF DrainInv, StopInv
  <2> SUFFICES ASSUME NEW k \in Locations PROVE DrainOK(k)'
    BY <2>1 DEF DrainInv
  <2>2. DrainOK(k)
    BY DEF DrainInv
  <2> QED
    BY <1>1, <1>2, <1>4, <1>5, <2>2 DEF DrainOK
<1>7. p \in Loops \ {"hands"} /\ 0 \in 0 .. Carries /\ p \notin {"receives", "rests"}
  BY DEF Loops
<1> QED
  BY <1>1, <1>3, <1>6, <1>7, PlacesKeep

----------------------------------------------------------------------------
(* What a Location settles.                                                *)

LEMMA TailOf ==
  ASSUME NEW S, NEW q \in Seq(S), q # <<>>
  PROVE  /\ Head(q) \in S /\ Head(q) \in Range(q) /\ Tail(q) \in Seq(S)
         /\ Len(Tail(q)) = Len(q) - 1 /\ Len(q) \in Nat /\ Len(q) > 0
         /\ Range(Tail(q)) \subseteq Range(q)
<1>1. Len(q) \in Nat \ {0} /\ DOMAIN q = 1 .. Len(q)
  OBVIOUS
<1>2. /\ Tail(q) \in Seq(S) /\ Len(Tail(q)) = Len(q) - 1
      /\ DOMAIN Tail(q) = 1 .. Len(q) - 1
      /\ \A i \in 1 .. Len(q) - 1 : Tail(q)[i] = q[i + 1]
  BY <1>1
<1>3. Head(q) = q[1] /\ q[1] \in S /\ 1 \in DOMAIN q
  BY <1>1
<1>4. ASSUME NEW x \in Range(Tail(q)) PROVE x \in Range(q)
  <2>1. PICK i \in 1 .. Len(q) - 1 : x = q[i + 1]
    BY <1>2, <1>4 DEF Range
  <2>2. i + 1 \in DOMAIN q
    BY <1>1
  <2> QED
    BY <2>1, <2>2 DEF Range
<1> QED
  BY <1>1, <1>2, <1>3, <1>4 DEF Range

LEMMA CountIs ==
  ASSUME NEW Y \in SUBSET Arrivals, NEW X
  PROVE  Count(stage, Y, X) \in Nat
BY FS_Subset, FS_CardinalityType DEF Count

LEMMA SettledKeeps ==
  ASSUME ReceiveInv, NEW l \in Locations, Settled(l), NEW p \in {"settles", "ends"},
         loop[l] \in {"settles", "ends"}, loop' = [loop EXCEPT ![l] = p],
         loop[l] = "settles" /\ p = "ends" => l \in failed'
  PROVE  ReceiveInv'
<1> USE DEF ReceiveInv
<1>1. /\ loop \in [Locations -> Loops] /\ told \in [Locations -> Seq({"tells", "stops"})]
      /\ carrying \in [Locations -> 0 .. Most] /\ failed \subseteq Locations /\ faults \in Nat
  BY DEF Typed
<1>2. /\ told[l] # <<>> /\ told' = [told EXCEPT ![l] = Tail(told[l])]
      /\ carrying' = [carrying EXCEPT ![l] = carrying[l] - 1]
      /\ failed' = IF Head(told[l]) = "stops" THEN failed \cup {l} ELSE failed
      /\ UNCHANGED <<places, handing, drain, poolVars, batch, turn, stage, held, bytes, raised,
                     before, faults>>
  BY DEF Settled
<1>3. /\ Tail(told[l]) \in Seq({"tells", "stops"}) /\ Len(Tail(told[l])) = Len(told[l]) - 1
      /\ Len(told[l]) \in Nat /\ Len(told[l]) > 0 /\ Head(told[l]) \in Range(told[l])
      /\ Range(Tail(told[l])) \subseteq Range(told[l])
  <2>1. told[l] \in Seq({"tells", "stops"}) /\ told[l] # <<>>
    BY <1>1, <1>2
  <2> HIDE DEF ReceiveInv
  <2> QED
    BY <2>1, TailOf
<1>4. carrying[l] = Count(stage, Of(l), InHand) + Len(told[l])
      /\ Count(stage, Of(l), InHand) \in Nat
  BY CountIs, OfIs DEF CarryInv
<1>5. carrying[l] - 1 \in 0 .. Most /\ carrying[l] - 1 = Count(stage, Of(l), InHand) + Len(Tail(told[l]))
  <2>1. carrying[l] \in 0 .. Most
    BY <1>1
  <2> QED
    BY <1>3, <1>4, <2>1
<1>6. /\ \A k \in Locations : loop'[k] = IF k = l THEN p ELSE loop[k]
      /\ \A k \in Locations : told'[k] = IF k = l THEN Tail(told[l]) ELSE told[k]
      /\ \A k \in Locations : carrying'[k] = IF k = l THEN carrying[l] - 1 ELSE carrying[k]
  BY <1>1, <1>2
<1>7. Typed'
  <2>1. loop' \in [Locations -> Loops] /\ told' \in [Locations -> Seq({"tells", "stops"})]
        /\ carrying' \in [Locations -> 0 .. Most] /\ failed' \subseteq Locations
    BY <1>1, <1>2, <1>3, <1>5 DEF Loops
  <2> QED
    BY <1>2, <2>1 DEF Typed
<1>8. PoolInv'
  BY <1>2, PoolFrame
<1>9. LineInv' /\ PlaceInv'
  BY <1>2, <1>6 DEF LineInv, PlaceInv
<1>10. CarryInv'
  <2> SUFFICES ASSUME NEW k \in Locations
               PROVE  carrying'[k] = Count(stage', Of(k), InHand) + Len(told'[k])
    BY DEF CarryInv
  <2>1. carrying[k] = Count(stage, Of(k), InHand) + Len(told[k]) /\ stage' = stage
    BY <1>2 DEF CarryInv
  <2>2. CASE k = l
    BY <1>5, <1>6, <2>1, <2>2
  <2>3. CASE k # l
    BY <1>6, <2>1, <2>3
  <2> QED
    BY <2>2, <2>3
<1>11. BudgetsKept'
  BY <1>2 DEF BudgetsKept
<1>12. OrderInv'
  BY <1>2, <1>6, KindsAssumption DEF OrderInv
<1>13. failed' # {} => faults > 0
  BY <1>2, <1>3 DEF DrainInv, StopInv, DrainOK
<1>14. DrainInv'
  <2>1. StopInv'
    BY <1>2, <1>13 DEF DrainInv, StopInv
  <2> SUFFICES ASSUME NEW k \in Locations PROVE DrainOK(k)'
    BY <2>1 DEF DrainInv
  <2>2. DrainOK(k)
    BY DEF DrainInv
  <2>3. Range(told'[k]) \subseteq Range(told[k])
    BY <1>3, <1>6
  <2>4. loop'[k] \in {"ends", "ended"} => loop[k] \in {"ends", "ended"} \/ faults > 0
    BY <1>6, <1>13
  <2> QED
    BY <1>1, <1>2, <2>2, <2>3, <2>4 DEF DrainOK
<1> QED
  BY <1>7, <1>8, <1>9, <1>10, <1>11, <1>12, <1>14

\* A step of one pool, and of no other.
LEMMA PoolAt ==
  ASSUME Typed, PoolInv, NEW l \in Locations, NEW g, free' = [free EXCEPT ![l] = g],
         Pool(g, Working(l)', Len(queued'[l])),
         \A k \in Locations \ {l} : Working(k)' = Working(k) /\ queued'[k] = queued[k]
  PROVE  PoolInv'
<1> SUFFICES ASSUME NEW k \in Locations PROVE Pool(free'[k], Working(k)', Len(queued'[k]))
  BY DEF PoolInv
<1>1. free'[k] = IF k = l THEN g ELSE free[k]
  BY DEF Typed
<1> QED
  BY <1>1 DEF PoolInv

LEMMA EndsKeeps ==
  ASSUME ReceiveInv, NEW l \in Locations, Ends(l)
  PROVE  ReceiveInv'
<1> USE DEF ReceiveInv
<1>0. loop \in [Locations -> Loops] /\ loop[l] = "ends"
  BY DEF Typed, Ends
<1>1. CASE Settled(l) /\ UNCHANGED loop
  <2>1. loop' = [loop EXCEPT ![l] = "ends"]
    BY <1>0, <1>1
  <2> QED
    BY <1>0, <1>1, <2>1, SettledKeeps
<1>2. CASE ~(Settled(l) /\ UNCHANGED loop)
  <2>1. /\ loop' = [loop EXCEPT ![l] = "ended"]
        /\ free' = [free EXCEPT ![l] = NotifyAll(free[l])]
        /\ UNCHANGED <<carrying, places, handing, failed, drain, queued, finishing, tellVars,
                       stage, held, bytes, raised, before, faults>>
    BY <1>2 DEF Ends
  <2> DEFINE f == free[l]
             g == [awake |-> f.awake, waits |-> 0, woken |-> f.woken + f.waits, timed |-> f.timed]
             w == Working(l)
             n == Len(queued[l])
  <2>2. f \in Frees /\ w \in Nat /\ n \in Nat
    <3>1. queued[l] \in Seq(Arrivals) /\ f \in Frees
      BY DEF Typed
    <3> QED
      BY <3>1, WorkingIs
  <2>3. /\ f.awake \in Nat /\ f.waits \in Nat /\ f.woken \in Nat /\ f.timed \in Nat
        /\ PoolOK(f.awake, f.waits, f.woken, f.timed, w, n)
    BY <2>2, FreeIs DEF PoolInv, Pool
  <2>4. NotifyAll(f) = g
    BY <2>2, ShiftsAre
  <2>5. PoolOK(f.awake, 0, f.woken + f.waits, f.timed, w, n)
    BY <2>2, <2>3, PoolMoves
  <2>6. f.woken + f.waits \in Nat /\ 0 \in Nat
    BY <2>3
  <2>7. g \in Frees /\ Pool(g, w, n)
    BY <2>3, <2>5, <2>6, FreeOf
  <2>8. \A k \in Locations : Working(k)' = Working(k) /\ queued'[k] = queued[k]
    BY <2>1 DEF Working
  <2> HIDE DEF f, g
  <2>9. PoolInv'
    BY <2>1, <2>4, <2>7, <2>8, PoolAt DEF f
  <2>10. \A k \in Locations : loop'[k] = IF k = l THEN "ended" ELSE loop[k]
    BY <1>0, <2>1
  <2>11. Typed'
    <3>1. loop' \in [Locations -> Loops] /\ free' \in [Locations -> Frees]
      BY <1>0, <2>1, <2>4, <2>7 DEF f, Loops, Typed
    <3> QED
      BY <2>1, <3>1 DEF Typed
  <2>12. LineInv' /\ PlaceInv' /\ CarryInv' /\ BudgetsKept'
    BY <1>0, <2>1, <2>10 DEF LineInv, PlaceInv, CarryInv, BudgetsKept
  <2>13. OrderInv'
    BY <2>1, <2>10, KindsAssumption DEF OrderInv
  <2>14. DrainInv'
    BY <1>0, <2>1, <2>10 DEF DrainInv, StopInv, DrainOK
  <2> QED
    BY <2>9, <2>11, <2>12, <2>13, <2>14
<1> QED
  BY <1>1, <1>2

LEMMA SettlesKeeps ==
  ASSUME ReceiveInv, NEW l \in Locations, Settles(l)
  PROVE  ReceiveInv'
<1>1. /\ Settled(l) /\ loop[l] = "settles"
      /\ loop' = [loop EXCEPT ![l] = IF l \in failed' THEN "ends" ELSE "settles"]
  BY DEF Settles
<1>2. CASE l \in failed'
  <2>1. loop' = [loop EXCEPT ![l] = "ends"]
    BY <1>1, <1>2
  <2> QED
    BY <1>1, <1>2, <2>1, SettledKeeps
<1>3. CASE l \notin failed'
  <2>1. loop' = [loop EXCEPT ![l] = "settles"]
    BY <1>1, <1>3
  <2> QED
    BY <1>1, <1>3, <2>1, SettledKeeps
<1> QED
  BY <1>2, <1>3

----------------------------------------------------------------------------
(* One arrival moves on.                                                   *)

LEMMA StageOf ==
  ASSUME Typed, NEW a \in Arrivals, NEW s, stage' = [stage EXCEPT ![a] = s]
  PROVE  \A b \in Arrivals : stage'[b] = IF b = a THEN s ELSE stage[b]
BY DEF Typed

LEMMA MovesNone ==
  ASSUME Typed, NEW a \in Arrivals, NEW s, stage' = [stage EXCEPT ![a] = s], NEW X,
         NEW Y \in SUBSET Arrivals, a \in Y => (s \in X <=> stage[a] \in X)
  PROVE  Count(stage', Y, X) = Count(stage, Y, X)
<1>1. {b \in Y : stage'[b] \in X} = {b \in Y : stage[b] \in X}
  BY StageOf
<1> QED
  BY <1>1 DEF Count

LEMMA MovesIn ==
  ASSUME Typed, NEW a \in Arrivals, NEW s, stage' = [stage EXCEPT ![a] = s], NEW X,
         NEW Y \in SUBSET Arrivals, a \in Y, s \in X, stage[a] \notin X
  PROVE  Count(stage', Y, X) = Count(stage, Y, X) + 1
<1> DEFINE S == {b \in Y : stage[b] \in X}
           T == {b \in Y : stage'[b] \in X}
<1>1. IsFiniteSet(S) /\ Cardinality(S) \in Nat /\ a \notin S
  BY FS_Subset, FS_CardinalityType
<1>2. T = S \cup {a}
  <2>1. stage'[a] = s /\ \A b \in Arrivals \ {a} : stage'[b] = stage[b]
    BY DEF Typed
  <2> QED
    BY <2>1
<1>3. Count(stage, Y, X) = Cardinality(S) /\ Count(stage', Y, X) = Cardinality(T)
  BY DEF Count
<1> HIDE DEF S, T
<1>4. Cardinality(S \cup {a}) = Cardinality(S) + 1
  BY <1>1, FS_AddElement
<1> QED
  BY <1>2, <1>3, <1>4

LEMMA MovesOut ==
  ASSUME Typed, NEW a \in Arrivals, NEW s, stage' = [stage EXCEPT ![a] = s], NEW X,
         NEW Y \in SUBSET Arrivals, a \in Y, s \notin X, stage[a] \in X
  PROVE  Count(stage', Y, X) = Count(stage, Y, X) - 1 /\ Count(stage, Y, X) > 0
<1> DEFINE S == {b \in Y : stage[b] \in X}
           T == {b \in Y : stage'[b] \in X}
<1>0. stage'[a] = s /\ \A b \in Arrivals \ {a} : stage'[b] = stage[b]
  BY DEF Typed
<1>1. IsFiniteSet(T) /\ Cardinality(T) \in Nat /\ a \notin T
  BY <1>0, FS_Subset, FS_CardinalityType
<1>2. S = T \cup {a}
  BY <1>0
<1>3. Count(stage, Y, X) = Cardinality(S) /\ Count(stage', Y, X) = Cardinality(T)
  BY DEF Count
<1> HIDE DEF S, T
<1>4. Cardinality(T \cup {a}) = Cardinality(T) + 1
  BY <1>1, FS_AddElement
<1> QED
  BY <1>1, <1>2, <1>3, <1>4

LEMMA LineFrame ==
  ASSUME Typed, LineInv, NEW a \in Arrivals, NEW s, stage' = [stage EXCEPT ![a] = s],
         stage[a] \notin {"handed", "queued"}, s \notin {"handed", "queued"},
         UNCHANGED <<loop, handing, queued>>
  PROVE  LineInv'
<1>1. \A k \in Locations :
        /\ {b \in Of(k) : stage'[b] = "handed"} = {b \in Of(k) : stage[b] = "handed"}
        /\ {b \in Of(k) : stage'[b] = "queued"} = {b \in Of(k) : stage[b] = "queued"}
  BY StageOf, OfIs
<1> QED
  BY <1>1 DEF LineInv

LEMMA OrderFrame ==
  ASSUME Typed, OrderInv, NEW a \in Arrivals, NEW s, stage' = [stage EXCEPT ![a] = s],
         s \in InHand => stage[a] \in InHand, UNCHANGED <<loop, carrying, batch, turn>>
  PROVE  OrderInv'
<1>1. \A b \in Arrivals : stage'[b] \in InHand => stage[b] \in InHand
  BY StageOf
<1>2. \A l \in Ordered : Of(l) \subseteq Arrivals
  BY OfIs, KindsAssumption
<1> QED
  BY <1>1, <1>2 DEF OrderInv

LEMMA DrainFrame ==
  ASSUME Typed, DrainInv, NEW a \in Arrivals, NEW s, stage' = [stage EXCEPT ![a] = s],
         a \in before \cap LetGo => s \notin {"away", "kept"},
         s = "there" => a \notin before \cap LetGo,
         faults' \in Nat, faults' >= faults,
         \A k \in Locations : "stops" \in Range(told'[k]) => "stops" \in Range(told[k]) \/ faults' > 0,
         UNCHANGED <<loop, drain, raised, before, failed>>
  PROVE  DrainInv'
<1>1. \A b \in Arrivals : stage'[b] = IF b = a THEN s ELSE stage[b]
  BY StageOf
<1>2. before \subseteq Arrivals /\ faults \in Nat
  BY DEF Typed
<1>3. (faults > 0 => faults' > 0) /\ (faults' = 0 => faults = 0)
  BY <1>2
<1>4. StopInv'
  BY <1>1, <1>2, <1>3 DEF DrainInv, StopInv
<1> SUFFICES ASSUME NEW k \in Locations PROVE DrainOK(k)'
  BY <1>4 DEF DrainInv
<1>5. DrainOK(k)
  BY DEF DrainInv
<1>6. "stops" \in Range(told'[k]) => faults' > 0
  BY <1>3, <1>5 DEF DrainOK
<1>7. ASSUME drain[k].quiet, faults' = 0, NEW b \in before \cap LetGo \cap Of(k)
      PROVE  stage'[b] # "there"
  BY <1>1, <1>2, <1>3, <1>5, <1>7 DEF DrainOK
<1> QED
  BY <1>3, <1>5, <1>6, <1>7 DEF DrainOK

LEMMA WorkingThen ==
  ASSUME NEW k \in Locations
  PROVE  Working(k)' = Count(stage', Of(k), OnThread) + finishing'[k]
BY DEF Working, Count

LEMMA ArrivesKeeps ==
  ASSUME ReceiveInv, NEW a \in Arrivals, Arrives(a)
  PROVE  ReceiveInv'
<1> USE DEF ReceiveInv
<1>1. /\ stage[a] \in {"away", "kept"} /\ stage' = [stage EXCEPT ![a] = "there"]
      /\ UNCHANGED <<locationVars, poolVars, tellVars, held, bytes, raised, before, faults>>
  BY DEF Arrives
<1>2. Typed'
  BY <1>1 DEF Typed, Stages
<1>3. ASSUME NEW X \in {InHand, OnThread}, NEW k \in Locations
      PROVE  Count(stage', Of(k), X) = Count(stage, Of(k), X)
  <2>1. "there" \notin X /\ stage[a] \notin X
    BY <1>1, <1>3 DEF InHand, Pending, OnThread
  <2>2. {b \in Of(k) : stage'[b] \in X} = {b \in Of(k) : stage[b] \in X}
    BY <1>1, <2>1, OfIs, StageOf
  <2> QED
    BY <2>2 DEF Count
<1>4. \A k \in Locations : Working(k)' = Working(k)
  BY <1>1, <1>3, WorkingThen, WorkingIs
<1>5. PoolInv'
  BY <1>1, <1>4 DEF PoolInv
<1>6. LineInv'
  BY <1>1, LineFrame
<1>7. PlaceInv'
  BY <1>1 DEF PlaceInv
<1>8. CarryInv'
  BY <1>1, <1>3 DEF CarryInv
<1>9. OrderInv'
  <2>1. "there" \notin InHand
    BY DEF InHand, Pending, OnThread
  <2> QED
    BY <1>1, <2>1, OrderFrame
<1>10. BudgetsKept'
  <2>1. {b \in Arrivals : stage'[b] \in Pending} = {b \in Arrivals : stage[b] \in Pending}
    BY <1>1, StageOf DEF Pending, OnThread
  <2>2. {b \in Arrivals : stage'[b] = "carries"} = {b \in Arrivals : stage[b] = "carries"}
    BY <1>1, StageOf
  <2> QED
    BY <1>1, <2>1, <2>2 DEF BudgetsKept
<1>11. DrainInv'
  <2>1. a \notin before \cap LetGo
    BY <1>1 DEF DrainInv, StopInv
  <2>2. faults' \in Nat /\ faults' >= faults
    BY <1>1 DEF Typed
  <2> QED
    BY <1>1, <2>1, <2>2, DrainFrame
<1> QED
  BY <1>2, <1>5, <1>6, <1>7, <1>8, <1>9, <1>10, <1>11

LEMMA RaiseKeeps ==
  ASSUME ReceiveInv, Raise
  PROVE  ReceiveInv'
<1> USE DEF ReceiveInv
<1>1. /\ ~raised /\ raised' = TRUE /\ before' = {a \in Arrivals : stage[a] = "there"}
      /\ UNCHANGED <<locationVars, poolVars, tellVars, stage, held, bytes, faults>>
  BY DEF Raise
<1>2. Typed'
  BY <1>1 DEF Typed
<1>3. PoolInv'
  BY <1>1, PoolFrame
<1>4. LineInv' /\ PlaceInv' /\ CarryInv' /\ BudgetsKept' /\ OrderInv'
  BY <1>1 DEF LineInv, PlaceInv, CarryInv, BudgetsKept, OrderInv
<1>5. DrainInv'
  <2>1. StopInv'
    BY <1>1 DEF DrainInv, StopInv
  <2> SUFFICES ASSUME NEW k \in Locations PROVE DrainOK(k)'
    BY <2>1 DEF DrainInv
  <2>2. DrainOK(k)
    BY DEF DrainInv
  <2> QED
    BY <1>1, <2>2 DEF DrainOK
<1> QED
  BY <1>2, <1>3, <1>4, <1>5

----------------------------------------------------------------------------
(* A carry.                                                                *)

LEMMA ChargeIs == Charge \in Nat /\ Charge <= Bytes /\ Charge > 0
BY DEF Charge, Lesser

LEMMA Times ==
  ASSUME NEW c \in Nat, NEW n \in Nat
  PROVE  /\ c * (n + 1) = c * n + c
         /\ c * n \in Nat
         /\ n > 0 => c * (n - 1) = c * n - c /\ c * n >= c
<1>1. c * (n + 1) = c * n + c /\ c * n \in Nat
  OBVIOUS
<1>2. ASSUME n > 0 PROVE c * (n - 1) = c * n - c /\ c * n >= c
  <2> DEFINE m == n - 1
  <2>1. m \in Nat /\ n = m + 1
    BY <1>2
  <2> HIDE DEF m
  <2>2. c * m \in Nat /\ c * (m + 1) = c * m + c
    BY <2>1
  <2>3. c * n = c * m + c
    BY <2>1, <2>2
  <2>4. c * m = c * n - c /\ c * n >= c
    BY <2>2, <2>3, <2>1
  <2> QED
    BY <2>4 DEF m
<1> QED
  BY <1>1, <1>2

\* A step of an arrival's carry, on its thread.
LEMMA OnThreadKeeps ==
  ASSUME ReceiveInv, NEW a \in Arrivals, NEW s \in OnThread, stage[a] \in OnThread,
         stage' = [stage EXCEPT ![a] = s], bytes' \in 0 .. Bytes, faults' \in 0 .. MaxFaults,
         faults' >= faults, bytes' = Charge * Count(stage', Arrivals, {"carries"}),
         UNCHANGED <<locationVars, poolVars, tellVars, held, raised, before>>
  PROVE  ReceiveInv'
<1> USE DEF ReceiveInv
<1>1. s \in Stages /\ s \in InHand /\ s \in Pending /\ stage[a] \in InHand /\ stage[a] \in Pending
      /\ s \notin {"handed", "queued", "there", "away", "kept"} /\ stage[a] \notin {"handed", "queued"}
  BY DEF Stages, InHand, Pending, OnThread
<1>2. Typed'
  BY <1>1 DEF Typed
<1>3. ASSUME NEW X \in {InHand, OnThread}, NEW k \in Locations
      PROVE  Count(stage', Of(k), X) = Count(stage, Of(k), X)
  <2>1. s \in X /\ stage[a] \in X
    BY <1>1, <1>3
  <2>2. {b \in Of(k) : stage'[b] \in X} = {b \in Of(k) : stage[b] \in X}
    BY <2>1, OfIs, StageOf
  <2> QED
    BY <2>2 DEF Count
<1>4. \A k \in Locations : Working(k)' = Working(k)
  BY <1>3, WorkingThen, WorkingIs
<1>5. PoolInv'
  BY <1>4 DEF PoolInv
<1>6. LineInv'
  BY <1>1, LineFrame
<1>7. PlaceInv'
  BY DEF PlaceInv
<1>8. CarryInv'
  BY <1>3 DEF CarryInv
<1>9. OrderInv'
  BY <1>1, OrderFrame
<1>10. BudgetsKept'
  <2>1. {b \in Arrivals : stage'[b] \in Pending} = {b \in Arrivals : stage[b] \in Pending}
    BY <1>1, StageOf
  <2>2. {b \in Arrivals : stage'[b] = "carries"} = {b \in Arrivals : stage'[b] \in {"carries"}}
    OBVIOUS
  <2> QED
    BY <2>1, <2>2 DEF BudgetsKept, Count
<1>11. DrainInv'
  <2>1. faults' \in Nat
    OBVIOUS
  <2> QED
    BY <1>1, <2>1, DrainFrame
<1> QED
  BY <1>2, <1>5, <1>6, <1>7, <1>8, <1>9, <1>10, <1>11

LEMMA CarryKeeps ==
  ASSUME ReceiveInv, NEW a \in Arrivals,
         CarryBegins(a) \/ \E ended \in {"accepted", "failed", "panicked"} : CarryEnds(a, ended)
  PROVE  ReceiveInv'
<1> USE DEF ReceiveInv
<1> DEFINE n == Count(stage, Arrivals, {"carries"})
<1>1. bytes = Charge * n /\ bytes \in 0 .. Bytes /\ faults \in 0 .. MaxFaults
  BY BudgetsAre DEF Typed
<1>2. CASE CarryBegins(a)
  <2>1. /\ stage[a] = "taken" /\ bytes' = bytes + Charge /\ stage' = [stage EXCEPT ![a] = "carries"]
        /\ UNCHANGED <<locationVars, poolVars, tellVars, held, raised, before, faults>>
        /\ bytes = 0 \/ bytes + Charge <= Bytes
    BY <1>2 DEF CarryBegins
  <2>2. n \in Nat /\ Count(stage', Arrivals, {"carries"}) = n + 1
    BY <2>1, CountIs, MovesIn
  <2> HIDE DEF n
  <2>3. bytes' = Charge * (n + 1)
    BY <1>1, <2>1, <2>2, ChargeIs, Times
  <2>4. bytes' \in 0 .. Bytes
    BY <1>1, <2>1, ChargeIs
  <2>5. "carries" \in OnThread /\ stage[a] \in OnThread /\ faults' \in 0 .. MaxFaults /\ faults' >= faults
    BY <1>1, <2>1 DEF OnThread
  <2> QED
    BY <1>1, <2>1, <2>2, <2>3, <2>4, <2>5, OnThreadKeeps
<1>3. ASSUME NEW ended \in {"accepted", "failed", "panicked"}, CarryEnds(a, ended) PROVE ReceiveInv'
  <2>1. /\ stage[a] = "carries" /\ bytes' = LetsGoOfBytes /\ stage' = [stage EXCEPT ![a] = ended]
        /\ UNCHANGED <<locationVars, poolVars, tellVars, held, raised, before>>
        /\ faults' \in 0 .. MaxFaults /\ faults' >= faults
    BY <1>1, <1>3 DEF CarryEnds
  <2>2. n \in Nat /\ n > 0 /\ Count(stage', Arrivals, {"carries"}) = n - 1
    BY <1>3, <2>1, CountIs, MovesOut
  <2> HIDE DEF n
  <2>3. Charge * (n - 1) = Charge * n - Charge /\ Charge * n >= Charge
    BY <2>2, ChargeIs, Times
  <2>4. bytes' = bytes - Charge /\ bytes' \in 0 .. Bytes
    BY <1>1, <2>1, <2>3, ChargeIs DEF LetsGoOfBytes, Released
  <2>5. ended \in OnThread /\ stage[a] \in OnThread
    BY <1>3, <2>1 DEF OnThread
  <2> QED
    BY <1>1, <2>1, <2>2, <2>3, <2>4, <2>5, OnThreadKeeps
<1> QED
  BY <1>2, <1>3

----------------------------------------------------------------------------
(* A thread takes an arrival, and lets go of its place.                    *)

\* One Location's pool in numbers.
LEMMA PoolNumbers ==
  ASSUME Typed, PoolInv, NEW l \in Locations
  PROVE  /\ free[l] \in Frees /\ Working(l) \in Nat /\ Len(queued[l]) \in Nat
         /\ free[l].awake \in Nat /\ free[l].waits \in Nat /\ free[l].woken \in Nat
         /\ free[l].timed \in Nat
         /\ PoolOK(free[l].awake, free[l].waits, free[l].woken, free[l].timed, Working(l), Len(queued[l]))
<1>1. queued[l] \in Seq(Arrivals) /\ free[l] \in Frees
  BY DEF Typed
<1>2. Working(l) \in Nat /\ Len(queued[l]) \in Nat
  BY <1>1, WorkingIs
<1> QED
  BY <1>1, <1>2, FreeIs DEF PoolInv, Pool

LEMMA TakesWorkKeeps ==
  ASSUME ReceiveInv, NEW l \in Locations, TakesWork(l)
  PROVE  ReceiveInv'
<1> USE DEF ReceiveInv
<1> DEFINE a == Head(queued[l])
           q == Tail(queued[l])
           f == free[l]
           g == [f EXCEPT !.awake = @ - 1]
           w == Working(l)
           n == Len(queued[l])
<1>1. /\ queued[l] \in Seq(Arrivals) /\ queued \in [Locations -> Seq(Arrivals)]
      /\ IsInjective(queued[l]) /\ Range(queued[l]) = {b \in Of(l) : stage[b] = "queued"}
      /\ queued[l] # <<>> /\ f.awake > 0 /\ free \in [Locations -> Frees]
  BY DEF TakesWork, Typed, LineInv
<1>2. /\ a \in Arrivals /\ a \in Range(queued[l]) /\ q \in Seq(Arrivals) /\ Len(q) = n - 1 /\ n > 0
      /\ IsInjective(q) /\ Range(q) = Range(queued[l]) \ {a}
  BY <1>1, HeadTail
<1>3. a \in Of(l) /\ At[a] = l /\ stage[a] = "queued"
  BY <1>1, <1>2 DEF Of
<1>4. /\ queued' = [queued EXCEPT ![l] = q] /\ stage' = [stage EXCEPT ![a] = "taken"]
      /\ free' = [free EXCEPT ![l] = g]
      /\ UNCHANGED <<locationVars, finishing, tellVars, held, bytes, raised, before, faults>>
  BY <1>1 DEF TakesWork
<1> HIDE DEF a, q, g
<1>5. \A b \in Arrivals : stage'[b] = IF b = a THEN "taken" ELSE stage[b]
  BY <1>2, <1>4, StageOf
<1>6. \A k \in Locations : queued'[k] = IF k = l THEN q ELSE queued[k]
  BY <1>1, <1>4
<1>7. g = [awake |-> f.awake - 1, waits |-> f.waits, woken |-> f.woken, timed |-> f.timed]
  BY PoolNumbers, ShiftsAre DEF g
<1>8. f.awake - 1 \in Nat /\ PoolOK(f.awake - 1, f.waits, f.woken, f.timed, w + 1, n - 1)
  <2>1. /\ w \in Nat /\ n \in Nat /\ f.awake \in Nat /\ f.waits \in Nat /\ f.woken \in Nat
        /\ f.timed \in Nat /\ PoolOK(f.awake, f.waits, f.woken, f.timed, w, n)
    BY PoolNumbers
  <2> HIDE DEF f, w, n
  <2> QED
    BY <1>1, <1>2, <2>1, PoolMoves
<1>9. g \in Frees /\ Pool(g, w + 1, n - 1)
  <2>1. f.waits \in Nat /\ f.woken \in Nat /\ f.timed \in Nat
    BY PoolNumbers
  <2> HIDE DEF f, w, n
  <2> QED
    BY <1>7, <1>8, <2>1, FreeOf
<1>10. Working(l)' = w + 1
  <2>1. Count(stage', Of(l), OnThread) = Count(stage, Of(l), OnThread) + 1
    <3>1. "taken" \in OnThread /\ stage[a] \notin OnThread /\ Of(l) \in SUBSET Arrivals /\ Typed
      BY <1>3, OfIs DEF OnThread
    <3>2. a \in Arrivals /\ a \in Of(l) /\ stage' = [stage EXCEPT ![a] = "taken"]
      BY <1>2, <1>3, <1>4
    <3> HIDE DEF f, w, n
    <3> QED
      BY <3>1, <3>2, MovesIn
  <2>2. finishing' = finishing /\ finishing[l] \in Nat
    BY <1>4 DEF Typed
  <2> QED
    BY <2>1, <2>2, WorkingThen, WorkingIs
<1>11. \A k \in Locations \ {l} : Working(k)' = Working(k) /\ queued'[k] = queued[k]
  <2> SUFFICES ASSUME NEW k \in Locations \ {l} PROVE Working(k)' = Working(k)
    BY <1>6
  <2>1. {b \in Of(k) : stage'[b] \in OnThread} = {b \in Of(k) : stage[b] \in OnThread}
    BY <1>3, <1>5 DEF Of
  <2> QED
    BY <1>4, <2>1 DEF Working
<1>12. PoolInv'
  <2>1. Len(queued'[l]) = n - 1
    BY <1>2, <1>6
  <2>2. Pool(g, Working(l)', Len(queued'[l]))
    BY <1>9, <1>10, <2>1
  <2> QED
    BY <1>4, <1>11, <2>2, PoolAt
<1>13. Typed'
  <2>1. queued' \in [Locations -> Seq(Arrivals)] /\ free' \in [Locations -> Frees]
    BY <1>1, <1>2, <1>4, <1>9
  <2>2. stage' \in [Arrivals -> Stages]
    BY <1>4 DEF Typed, Stages, Pending, OnThread
  <2> QED
    BY <1>4, <2>1, <2>2 DEF Typed
<1>14. LineInv'
  <2>1. \A k \in Locations :
          /\ {b \in Of(k) : stage'[b] = "handed"} = {b \in Of(k) : stage[b] = "handed"}
          /\ {b \in Of(k) : stage'[b] = "queued"} = {b \in Of(k) : stage[b] = "queued"} \ {a}
    BY <1>3, <1>5 DEF Of
  <2>2. \A k \in Locations \ {l} : a \notin {b \in Of(k) : stage[b] = "queued"}
    BY <1>3 DEF Of
  <2> QED
    BY <1>1, <1>2, <1>4, <1>6, <2>1, <2>2 DEF LineInv
<1>15. PlaceInv'
  BY <1>4 DEF PlaceInv
<1>16. CarryInv' /\ BudgetsKept'
  <2>1. \A k \in Locations : {b \in Of(k) : stage'[b] \in InHand} = {b \in Of(k) : stage[b] \in InHand}
    BY <1>3, <1>5, OfIs DEF InHand, Pending, OnThread
  <2>2. {b \in Arrivals : stage'[b] \in Pending} = {b \in Arrivals : stage[b] \in Pending}
    BY <1>3, <1>5 DEF Pending, OnThread
  <2>3. {b \in Arrivals : stage'[b] = "carries"} = {b \in Arrivals : stage[b] = "carries"}
    BY <1>3, <1>5
  <2> QED
    BY <1>4, <2>1, <2>2, <2>3 DEF CarryInv, BudgetsKept, Count
<1>17. OrderInv'
  <2>1. stage[a] \in InHand
    BY <1>3 DEF InHand, Pending
  <2> QED
    BY <1>2, <1>4, <2>1, OrderFrame
<1>18. DrainInv'
  <2>1. faults' \in Nat /\ faults' >= faults
    BY <1>4 DEF Typed
  <2> QED
    BY <1>2, <1>4, <2>1, DrainFrame
<1> QED
  BY <1>12, <1>13, <1>14, <1>15, <1>16, <1>17, <1>18

LEMMA FinishesKeeps ==
  ASSUME ReceiveInv, NEW l \in Locations, Finishes(l)
  PROVE  ReceiveInv'
<1> USE DEF ReceiveInv
<1> DEFINE f == free[l]
           g == [f EXCEPT !.awake = @ + 1]
           w == Working(l)
           n == Len(queued[l])
           m == finishing[l] - 1
<1>1. /\ finishing \in [Locations -> Nat] /\ finishing[l] \in Nat /\ finishing[l] > 0
      /\ free \in [Locations -> Frees] /\ held \in 0 .. Carries
  BY DEF Finishes, Typed
<1>2. /\ finishing' = [finishing EXCEPT ![l] = m] /\ free' = [free EXCEPT ![l] = g]
      /\ held' = Released(held, 1)
      /\ UNCHANGED <<locationVars, queued, tellVars, stage, bytes, raised, before, faults>>
  BY <1>1 DEF Finishes
<1>3. m \in Nat /\ m + 1 = finishing[l]
  BY <1>1
<1> HIDE DEF g, m
<1>4. g = [awake |-> f.awake + 1, waits |-> f.waits, woken |-> f.woken, timed |-> f.timed]
  BY PoolNumbers, ShiftsAre DEF g
<1>5. Working(l) > 0 /\ Working(l)' = w - 1
  <2>1. finishing'[l] = m
    BY <1>1, <1>2
  <2>2. Count(stage', Of(l), OnThread) = Count(stage, Of(l), OnThread)
    BY <1>2
  <2> QED
    BY <1>1, <1>3, <2>1, <2>2, WorkingThen, WorkingIs
<1>6. g \in Frees /\ Pool(g, w - 1, n)
  <2>1. /\ w \in Nat /\ n \in Nat /\ f.awake \in Nat /\ f.waits \in Nat /\ f.woken \in Nat
        /\ f.timed \in Nat /\ PoolOK(f.awake, f.waits, f.woken, f.timed, w, n) /\ w > 0
    BY <1>5, PoolNumbers
  <2> HIDE DEF f, w, n
  <2>2. PoolOK(f.awake + 1, f.waits, f.woken, f.timed, w - 1, n)
    BY <2>1, PoolMoves, Zenon
  <2>3. f.awake + 1 \in Nat
    BY <2>1
  <2> QED
    BY <1>4, <2>1, <2>2, <2>3, FreeOf
<1>7. \A k \in Locations \ {l} : Working(k)' = Working(k) /\ queued'[k] = queued[k]
  BY <1>1, <1>2 DEF Working
<1>8. PoolInv'
  BY <1>2, <1>5, <1>6, <1>7, PoolAt
<1>9. /\ Cardinality(Slots(finishing')) = Cardinality(Slots(finishing)) - finishing[l] + m
      /\ finishing[l] <= Cardinality(Slots(finishing)) /\ Cardinality(Slots(finishing)) \in Nat
      /\ Cardinality(Slots(places)) \in Nat /\ Count(stage, Arrivals, Pending) \in Nat
  BY <1>1, <1>2, <1>3, SlotsChange, SlotsIs, PlacesHeld
<1>10. /\ held = Cardinality(Slots(places)) + Cardinality(Slots(finishing)) + Count(stage, Arrivals, Pending)
       /\ bytes = Charge * Count(stage, Arrivals, {"carries"})
  BY BudgetsAre
<1>11. held' = held - 1 /\ held' \in 0 .. Carries
  <2>1. held >= 1
    BY <1>1, <1>3, <1>9, <1>10
  <2> QED
    BY <1>1, <1>2, <2>1 DEF Released
<1>12. Typed'
  <2>1. finishing' \in [Locations -> Nat] /\ free' \in [Locations -> Frees]
    BY <1>1, <1>2, <1>3, <1>6
  <2> QED
    BY <1>2, <1>11, <2>1 DEF Typed
<1>13. LineInv' /\ PlaceInv' /\ CarryInv'
  BY <1>2 DEF LineInv, PlaceInv, CarryInv
<1>14. BudgetsKept'
  <2>1. held' = Cardinality(Slots(places)) + Cardinality(Slots(finishing')) + Count(stage, Arrivals, Pending)
    BY <1>1, <1>3, <1>9, <1>10, <1>11
  <2>2. {a \in Arrivals : stage[a] = "carries"} = {a \in Arrivals : stage[a] \in {"carries"}}
    OBVIOUS
  <2> QED
    BY <1>2, <1>10, <2>1, <2>2 DEF BudgetsKept, Count
<1>15. OrderInv' /\ DrainInv'
  BY <1>2 DEF OrderInv, DrainInv, DrainOK, StopInv
<1> QED
  BY <1>8, <1>12, <1>13, <1>14, <1>15

----------------------------------------------------------------------------
(* An arrival tells its far end.                                           *)

\* Where an ordered arrival in hand came in its receive.
LEMMA PlaceIs ==
  ASSUME Typed, OrderInv, NEW a \in Arrivals, At[a] \in Ordered, stage[a] \in InHand
  PROVE  /\ Place(a) \in DOMAIN batch[At[a]] /\ batch[At[a]][Place(a)] = a
         /\ Place(a) \in Nat \ {0} /\ Place(a) >= turn[At[a]] /\ IsInjective(batch[At[a]])
         /\ \A i \in DOMAIN batch[At[a]] : batch[At[a]][i] = a => i = Place(a)
<1> DEFINE l == At[a]
<1>1. a \in Of(l) /\ l \in Locations
  BY KindsAssumption DEF Of
<1>2. PICK i \in DOMAIN batch[l] : batch[l][i] = a /\ i >= turn[l]
  BY <1>1 DEF OrderInv
<1>3. Place(a) \in DOMAIN batch[l] /\ batch[l][Place(a)] = a
  BY <1>2 DEF Place
<1>4. IsInjective(batch[l])
  BY <1>1 DEF OrderInv
<1>5. \A j \in DOMAIN batch[l] : batch[l][j] = a => j = Place(a)
  BY <1>3, <1>4 DEF IsInjective
<1>6. batch[l] \in Seq(Arrivals)
  BY <1>1 DEF Typed
<1>7. Place(a) \in Nat \ {0}
  BY <1>3, <1>6
<1> QED
  BY <1>2, <1>3, <1>4, <1>5, <1>7

LEMMA AppendRange ==
  ASSUME NEW S, NEW q \in Seq(S), NEW x \in S
  PROVE  /\ Append(q, x) \in Seq(S) /\ Len(Append(q, x)) = Len(q) + 1 /\ Len(q) \in Nat
         /\ Range(Append(q, x)) = Range(q) \cup {x}
<1>1. /\ Append(q, x) \in Seq(S) /\ Len(Append(q, x)) = Len(q) + 1
      /\ DOMAIN Append(q, x) = 1 .. Len(q) + 1 /\ DOMAIN q = 1 .. Len(q) /\ Len(q) \in Nat
      /\ \A i \in 1 .. Len(q) : Append(q, x)[i] = q[i]
      /\ Append(q, x)[Len(q) + 1] = x
  OBVIOUS
<1>2. 1 .. Len(q) + 1 = (1 .. Len(q)) \cup {Len(q) + 1}
  BY <1>1
<1> QED
  BY <1>1, <1>2 DEF Range

LEMMA TellsKeeps ==
  ASSUME ReceiveInv, NEW a \in Arrivals, NEW telling \in {"tells", "mends", "stops", "panics"},
         Tells(a, telling)
  PROVE  ReceiveInv'
<1> USE DEF ReceiveInv
<1> DEFINE l == At[a]
           s == FarEnd(a, stage[a] = "accepted" /\ telling = "tells")
           x == IF telling = "stops" THEN "stops" ELSE "tells"
           q == Append(told[l], x)
           m == finishing[l] + 1
<1>1. /\ l \in Locations /\ a \in Of(l) /\ told \in [Locations -> Seq({"tells", "stops"})]
      /\ finishing \in [Locations -> Nat] /\ faults \in 0 .. MaxFaults
  BY AtAssumption DEF Of, Typed
<1>2. /\ stage[a] \in {"accepted", "failed", "panicked"} /\ ItsTurn(a) /\ turn' = Passed(a)
      /\ told' = [told EXCEPT ![l] = q] /\ stage' = [stage EXCEPT ![a] = s]
      /\ finishing' = [finishing EXCEPT ![l] = m]
      /\ UNCHANGED <<locationVars, queued, free, batch, held, bytes, raised, before>>
  BY <1>1 DEF Tells
<1>3. /\ faults' \in 0 .. MaxFaults /\ faults' >= faults
      /\ x = "stops" => faults' > 0
  BY <1>1 DEF Tells
<1>4. s \in {"gone", "kept"} /\ (s = "kept" => a \notin LetGo)
  BY DEF FarEnd
<1>5. /\ q \in Seq({"tells", "stops"}) /\ Len(q) = Len(told[l]) + 1 /\ Range(q) = Range(told[l]) \cup {x}
      /\ Len(told[l]) \in Nat
  <2>1. told[l] \in Seq({"tells", "stops"}) /\ x \in {"tells", "stops"}
    BY <1>1
  <2> HIDE DEF x
  <2> QED
    BY <2>1, AppendRange
<1>6. m \in Nat /\ finishing[l] \in Nat /\ m = finishing[l] + 1
  BY <1>1
<1> HIDE DEF s, x, q, m
<1>7. \A b \in Arrivals : stage'[b] = IF b = a THEN s ELSE stage[b]
  BY <1>2, StageOf
<1>8. /\ \A k \in Locations : told'[k] = IF k = l THEN q ELSE told[k]
      /\ \A k \in Locations : finishing'[k] = IF k = l THEN m ELSE finishing[k]
  BY <1>1, <1>2
<1>9. /\ stage[a] \in OnThread /\ stage[a] \in InHand /\ stage[a] \in Pending /\ stage[a] # "carries"
      /\ s \notin OnThread /\ s \notin InHand /\ s \notin Pending /\ s # "carries"
      /\ stage[a] \notin {"handed", "queued"} /\ s \notin {"handed", "queued", "there", "away"}
      /\ s \in Stages
  BY <1>2, <1>4 DEF OnThread, InHand, Pending, Stages
<1>10. /\ Count(stage', Of(l), OnThread) = Count(stage, Of(l), OnThread) - 1
       /\ Count(stage', Of(l), InHand) = Count(stage, Of(l), InHand) - 1
       /\ Count(stage', Arrivals, Pending) = Count(stage, Arrivals, Pending) - 1
  <2>1. Of(l) \in SUBSET Arrivals /\ Typed
    BY OfIs, <1>1
  <2>2. Arrivals \in SUBSET Arrivals /\ stage' = [stage EXCEPT ![a] = s]
    BY <1>2
  <2>3. Count(stage', Of(l), OnThread) = Count(stage, Of(l), OnThread) - 1
    BY <1>1, <1>9, <2>1, <2>2, MovesOut
  <2>4. Count(stage', Of(l), InHand) = Count(stage, Of(l), InHand) - 1
    BY <1>1, <1>9, <2>1, <2>2, MovesOut
  <2>5. Count(stage', Arrivals, Pending) = Count(stage, Arrivals, Pending) - 1
    BY <1>9, <2>1, <2>2, MovesOut
  <2> QED
    BY <2>3, <2>4, <2>5
<1>11. \A k \in Locations : Working(k)' = Working(k)
  <2> SUFFICES ASSUME NEW k \in Locations PROVE Working(k)' = Working(k)
    OBVIOUS
  <2>1. CASE k = l
    <3> DEFINE c == Count(stage, Of(l), OnThread)
    <3>1. c \in Nat /\ Working(l) = c + finishing[l]
      BY <1>1, WorkingIs
    <3>2. Working(l)' = Count(stage', Of(l), OnThread) + finishing'[l]
      BY <1>1, WorkingThen
    <3>3. Count(stage', Of(l), OnThread) = c - 1 /\ finishing'[l] = finishing[l] + 1
      BY <1>1, <1>6, <1>8, <1>10
    <3> HIDE DEF c
    <3>4. Working(l)' = Working(l)
      BY <1>6, <3>1, <3>2, <3>3
    <3> QED
      BY <2>1, <3>4
  <2>2. CASE k # l
    <3>1. {b \in Of(k) : stage'[b] \in OnThread} = {b \in Of(k) : stage[b] \in OnThread}
      BY <1>7, <2>2 DEF Of
    <3> QED
      BY <1>8, <2>2, <3>1 DEF Working
  <2> QED
    BY <2>1, <2>2
<1>12. PoolInv'
  BY <1>2, <1>11 DEF PoolInv
<1>13. LineInv'
  BY <1>2, <1>9, LineFrame
<1>14. PlaceInv'
  BY <1>2 DEF PlaceInv
<1>15. CarryInv'
  <2> SUFFICES ASSUME NEW k \in Locations
               PROVE  carrying'[k] = Count(stage', Of(k), InHand) + Len(told'[k])
    BY DEF CarryInv
  <2>1. carrying'[k] = Count(stage, Of(k), InHand) + Len(told[k]) /\ Count(stage, Of(k), InHand) \in Nat
    BY <1>2, CountIs, OfIs DEF CarryInv
  <2>2. CASE k = l
    BY <1>5, <1>8, <1>10, <2>1, <2>2
  <2>3. CASE k # l
    <3>1. {b \in Of(k) : stage'[b] \in InHand} = {b \in Of(k) : stage[b] \in InHand}
      BY <1>7, <2>3 DEF Of
    <3> QED
      BY <1>8, <2>1, <2>3, <3>1 DEF Count
  <2> QED
    BY <2>2, <2>3
<1>16. BudgetsKept'
  <2>1. /\ Cardinality(Slots(finishing')) = Cardinality(Slots(finishing)) - finishing[l] + m
        /\ Cardinality(Slots(finishing)) \in Nat /\ Cardinality(Slots(places)) \in Nat
        /\ Count(stage, Arrivals, Pending) \in Nat
    BY <1>1, <1>2, <1>6, SlotsChange, SlotsIs, PlacesHeld
  <2>2. /\ held = Cardinality(Slots(places)) + Cardinality(Slots(finishing)) + Count(stage, Arrivals, Pending)
    BY BudgetsAre
  <2>3. held' = Cardinality(Slots(places')) + Cardinality(Slots(finishing')) + Count(stage', Arrivals, Pending)
    <3>1. held' = held /\ places' = places
      BY <1>2
    <3> QED
      BY <1>6, <1>10, <2>1, <2>2, <3>1
  <2>4. {b \in Arrivals : stage'[b] = "carries"} = {b \in Arrivals : stage[b] = "carries"}
    BY <1>7, <1>9
  <2> QED
    BY <1>2, <2>3, <2>4 DEF BudgetsKept, Count
<1>17. turn' \in [Locations -> Nat \ {0}] /\ (l \notin Ordered => turn' = turn)
       /\ (l \in Ordered => /\ turn[l] = Place(a)
                            /\ \A k \in Locations : turn'[k] = IF k = l THEN turn[l] + 1 ELSE turn[k])
  <2>1. turn \in [Locations -> Nat \ {0}]
    BY DEF Typed
  <2>2. CASE l \in Ordered
    <3>1. turn[l] = Place(a) /\ turn' = [turn EXCEPT ![l] = turn[l] + 1]
      BY <1>2, <2>2 DEF ItsTurn, Passed
    <3> QED
      BY <1>1, <2>1, <2>2, <3>1
  <2>3. CASE l \notin Ordered
    BY <1>2, <2>1, <2>3 DEF Passed
  <2> QED
    BY <2>2, <2>3
<1>18. Typed'
  <2>1. told' \in [Locations -> Seq({"tells", "stops"})] /\ finishing' \in [Locations -> Nat]
    BY <1>1, <1>2, <1>5, <1>6
  <2>2. stage' \in [Arrivals -> Stages]
    BY <1>2, <1>9 DEF Typed
  <2> QED
    BY <1>2, <1>3, <1>17, <2>1, <2>2 DEF Typed
<1>19. OrderInv'
  <2> SUFFICES ASSUME NEW k \in Ordered
               PROVE  /\ IsInjective(batch'[k])
                      /\ loop'[k] = "receives" => carrying'[k] = 0
                      /\ \A b \in Of(k) : stage'[b] \in InHand =>
                           \E i \in DOMAIN batch'[k] : batch'[k][i] = b /\ i >= turn'[k]
    BY DEF OrderInv
  <2>1. k \in Locations /\ Of(k) \subseteq Arrivals
    BY KindsAssumption, OfIs
  <2>2. /\ IsInjective(batch'[k])
        /\ loop'[k] = "receives" => carrying'[k] = 0
    BY <1>2 DEF OrderInv
  <2>3. ASSUME NEW b \in Of(k), stage'[b] \in InHand
        PROVE  \E i \in DOMAIN batch'[k] : batch'[k][i] = b /\ i >= turn'[k]
    <3>1. b # a /\ stage[b] \in InHand
      BY <1>7, <1>9, <2>1, <2>3
    <3>2. PICK i \in DOMAIN batch[k] : batch[k][i] = b /\ i >= turn[k]
      BY <3>1 DEF OrderInv
    <3>3. CASE k # l
      <4>1. turn'[k] = turn[k]
        BY <1>17, <2>1, <3>3
      <4> QED
        BY <1>2, <3>2, <4>1
    <3>4. CASE k = l
      <4>1. turn'[k] = turn[l] + 1 /\ turn[l] = Place(a) /\ batch[l][Place(a)] = a
        BY <1>9, <1>17, <2>1, <3>4, PlaceIs
      <4>2. i # turn[l]
        BY <3>1, <3>2, <3>4, <4>1
      <4>3. turn[l] \in Nat /\ i \in Nat
        <5>1. batch[k] \in Seq(Arrivals) /\ turn[l] \in Nat
          BY <2>1, <1>1 DEF Typed
        <5> QED
          BY <5>1
      <4>4. i >= turn'[k]
        BY <3>2, <3>4, <4>1, <4>2, <4>3
      <4> QED
        BY <1>2, <3>2, <4>4
    <3> QED
      BY <3>3, <3>4
  <2> QED
    BY <2>2, <2>3
<1>20. DrainInv'
  <2>1. \A k \in Locations : "stops" \in Range(told'[k]) => "stops" \in Range(told[k]) \/ faults' > 0
    BY <1>3, <1>5, <1>8
  <2>2. faults' \in Nat
    BY <1>3
  <2> QED
    BY <1>2, <1>3, <1>4, <1>9, <2>1, <2>2, DrainFrame
<1> QED
  BY <1>12, <1>13, <1>14, <1>15, <1>16, <1>18, <1>19, <1>20

----------------------------------------------------------------------------
(* What a receive found, and its handing over.                             *)

LEMMA HandsKeeps ==
  ASSUME ReceiveInv, NEW l \in Locations, Hands(l)
  PROVE  ReceiveInv'
<1> USE DEF ReceiveInv
<1> DEFINE a == Head(handing[l])
           h == Tail(handing[l])
           q == Append(queued[l], a)
           g == Started(l, q)
           last == Len(handing[l]) = 1
           p == IF last THEN 0 ELSE places[l] - 1
           next == IF last THEN "asks" ELSE "hands"
           d == Received(l, TRUE)
<1>1. /\ loop[l] = "hands" /\ queued' = [queued EXCEPT ![l] = q] /\ free' = [free EXCEPT ![l] = g]
      /\ stage' = [stage EXCEPT ![a] = "queued"] /\ handing' = [handing EXCEPT ![l] = h]
      /\ places' = [places EXCEPT ![l] = p] /\ loop' = [loop EXCEPT ![l] = next]
      /\ held' = IF last THEN Released(held, places[l] - 1) ELSE held
      /\ drain' = IF last THEN [drain EXCEPT ![l] = d] ELSE drain
      /\ UNCHANGED <<carrying, failed, finishing, tellVars, bytes, raised, before, faults>>
  BY DEF Hands, Split
<1>2. /\ queued \in [Locations -> Seq(Arrivals)] /\ handing \in [Locations -> Seq(Arrivals)]
      /\ loop \in [Locations -> Loops] /\ places \in [Locations -> 0 .. Carries]
      /\ places[l] \in Nat /\ drain \in [Locations -> Drainings] /\ drain[l] \in Drainings
      /\ handing[l] \in Seq(Arrivals) /\ queued[l] \in Seq(Arrivals) /\ free \in [Locations -> Frees]
  BY DEF Typed
<1>3. /\ IsInjective(handing[l]) /\ Range(handing[l]) = {b \in Of(l) : stage[b] = "handed"}
      /\ IsInjective(queued[l]) /\ Range(queued[l]) = {b \in Of(l) : stage[b] = "queued"}
      /\ handing[l] # <<>> /\ Len(handing[l]) <= places[l]
  BY <1>1 DEF LineInv, PlaceInv
<1>4. /\ a \in Arrivals /\ a \in Range(handing[l]) /\ h \in Seq(Arrivals)
      /\ Len(h) = Len(handing[l]) - 1 /\ Len(handing[l]) > 0
      /\ IsInjective(h) /\ Range(h) = Range(handing[l]) \ {a}
  BY <1>2, <1>3, HeadTail
<1>5. a \in Of(l) /\ At[a] = l /\ stage[a] = "handed" /\ a \notin Range(queued[l])
  BY <1>3, <1>4 DEF Of
<1> HIDE DEF a, h
<1>6. /\ q \in Seq(Arrivals) /\ Len(q) = Len(queued[l]) + 1
      /\ IsInjective(q) /\ Range(q) = Range(queued[l]) \cup {a}
  BY <1>2, <1>3, <1>4, <1>5, AppendLine
<1>7. Len(handing[l]) \in Nat /\ Len(h) \in Nat /\ (last <=> h = <<>>)
  <2>1. Len(handing[l]) \in Nat /\ Len(h) \in Nat /\ (h = <<>> <=> Len(h) = 0)
    <3>1. h # <<>> => Len(h) \in Nat \ {0}
      BY <1>4, EmptySeq
    <3> QED
      BY <1>2, <1>4, <3>1
  <2> QED
    BY <1>4, <2>1
<1> HIDE DEF q
<1>8. g \in Frees /\ Pool(g, Working(l), Len(q))
  BY <1>6, PoolStarts
<1>9. /\ p \in 0 .. Carries /\ (~last => Len(h) <= p /\ p = places[l] - 1) /\ (last => p = 0)
      /\ places[l] >= 1
  <2>1. places[l] <= Carries
    BY <1>2
  <2> QED
    BY <1>2, <1>3, <1>4, <1>7, <2>1
<1>10. next \in Loops /\ (next = "hands" <=> h # <<>>) /\ next \in {"asks", "hands"}
       /\ (next = "asks" <=> last)
  BY <1>7 DEF Loops
<1>11. d = drain[l]
  <2>1. d = [drain[l] EXCEPT !.quiet = drain[l].quiet \/ (drain[l].until # "none" /\ ~TRUE)]
    BY DEF Received
  <2>2. drain[l].quiet \in BOOLEAN
    BY <1>2 DEF Drainings
  <2>3. (drain[l].quiet \/ (drain[l].until # "none" /\ ~TRUE)) = drain[l].quiet
    BY <2>2
  <2> QED
    BY <1>2, <2>1, <2>3 DEF Drainings
<1>12. drain' = drain
  BY <1>1, <1>2, <1>11
<1> HIDE DEF g, next, p, d
<1>13. \A b \in Arrivals : stage'[b] = IF b = a THEN "queued" ELSE stage[b]
  BY <1>1, <1>4, StageOf
<1>14. /\ \A k \in Locations : loop'[k] = IF k = l THEN next ELSE loop[k]
       /\ \A k \in Locations : handing'[k] = IF k = l THEN h ELSE handing[k]
       /\ \A k \in Locations : queued'[k] = IF k = l THEN q ELSE queued[k]
       /\ \A k \in Locations : places'[k] = IF k = l THEN p ELSE places[k]
  BY <1>1, <1>2
<1>15. \A k \in Locations : Working(k)' = Working(k)
  <2> SUFFICES ASSUME NEW k \in Locations PROVE Working(k)' = Working(k)
    OBVIOUS
  <2>1. {b \in Of(k) : stage'[b] \in OnThread} = {b \in Of(k) : stage[b] \in OnThread}
    BY <1>5, <1>13, OfIs DEF OnThread
  <2> QED
    BY <1>1, <2>1 DEF Working
<1>16. PoolInv'
  <2>1. Pool(g, Working(l)', Len(queued'[l]))
    BY <1>8, <1>14, <1>15
  <2>2. \A k \in Locations \ {l} : Working(k)' = Working(k) /\ queued'[k] = queued[k]
    BY <1>14, <1>15
  <2> QED
    BY <1>1, <2>1, <2>2, PoolAt
<1>17. LineInv'
  <2>1. \A k \in Locations :
          /\ {b \in Of(k) : stage'[b] = "handed"} = {b \in Of(k) : stage[b] = "handed"} \ {a}
          /\ k # l => /\ {b \in Of(k) : stage'[b] = "queued"} = {b \in Of(k) : stage[b] = "queued"}
                      /\ a \notin {b \in Of(k) : stage[b] = "handed"}
    BY <1>5, <1>13 DEF Of
  <2>2. {b \in Of(l) : stage'[b] = "queued"} = {b \in Of(l) : stage[b] = "queued"} \cup {a}
    BY <1>5, <1>13, OfIs
  <2> SUFFICES ASSUME NEW k \in Locations
               PROVE  /\ IsInjective(handing'[k]) /\ Range(handing'[k]) = {b \in Of(k) : stage'[b] = "handed"}
                      /\ IsInjective(queued'[k]) /\ Range(queued'[k]) = {b \in Of(k) : stage'[b] = "queued"}
                      /\ loop'[k] = "hands" <=> handing'[k] # <<>>
    BY DEF LineInv
  <2>3. CASE k = l
    BY <1>3, <1>4, <1>6, <1>10, <1>14, <2>1, <2>2, <2>3
  <2>4. CASE k # l
    BY <1>14, <2>1, <2>4 DEF LineInv
  <2> QED
    BY <2>3, <2>4
<1>18. PlaceInv'
  <2> SUFFICES ASSUME NEW k \in Locations
               PROVE  /\ loop'[k] \notin {"receives", "hands", "rests"} => places'[k] = 0
                      /\ loop'[k] = "receives" => carrying'[k] + places'[k] <= Most
                      /\ loop'[k] = "hands" => Len(handing'[k]) <= places'[k]
    BY DEF PlaceInv
  <2>1. CASE k = l
    BY <1>9, <1>10, <1>14, <2>1
  <2>2. CASE k # l
    BY <1>1, <1>14, <2>2 DEF PlaceInv
  <2> QED
    BY <2>1, <2>2
<1>19. CarryInv'
  <2>1. \A k \in Locations : {b \in Of(k) : stage'[b] \in InHand} = {b \in Of(k) : stage[b] \in InHand}
    BY <1>5, <1>13, OfIs DEF InHand, Pending
  <2> QED
    BY <1>1, <2>1 DEF CarryInv, Count
<1>20. Count(stage', Arrivals, Pending) = Count(stage, Arrivals, Pending) + 1
  <2>1. "queued" \in Pending /\ stage[a] \notin Pending /\ Arrivals \in SUBSET Arrivals /\ Typed
    BY <1>5 DEF Pending, OnThread
  <2> QED
    BY <1>1, <1>4, <2>1, MovesIn
<1>21. BudgetsKept' /\ held' \in 0 .. Carries
  <2> DEFINE S == Cardinality(Slots(places))
             S2 == Cardinality(Slots(places'))
             F == Cardinality(Slots(finishing))
             C == Count(stage, Arrivals, Pending)
             C2 == Count(stage', Arrivals, Pending)
  <2>1. /\ S \in Nat /\ F \in Nat /\ C \in Nat /\ places[l] <= held /\ held \in 0 .. Carries
        /\ S2 = S - places[l] + p
    <3>1. p \in Nat
      BY <1>9
    <3>2. held \in 0 .. Carries
      BY DEF Typed
    <3> QED
      BY <1>1, <3>1, <3>2, PlacesHeld, Zenon
  <2>2. held = S + F + C
    BY BudgetsAre
  <2>3. C2 = C + 1
    BY <1>20
  <2> HIDE DEF S, S2, F, C, C2
  <2>4. held' = S2 + F + C2 /\ held' \in 0 .. Carries
    <3>1. CASE last
      <4>1. held' = held - (places[l] - 1)
        BY <1>1, <1>2, <1>9, <2>1, <3>1 DEF Released
      <4> QED
        BY <1>2, <1>9, <2>1, <2>2, <2>3, <3>1, <4>1
    <3>2. CASE ~last
      <4>1. held' = held
        BY <1>1, <3>2
      <4>2. p = places[l] - 1
        BY <1>9, <3>2
      <4>3. places[l] \in Nat
        BY <1>2
      <4>4. S2 = S - 1
        BY <2>1, <4>2, <4>3
      <4> QED
        BY <2>1, <2>2, <2>3, <4>1, <4>4
    <3> QED
      BY <3>1, <3>2
  <2>5. {b \in Arrivals : stage'[b] = "carries"} = {b \in Arrivals : stage[b] = "carries"}
    BY <1>5, <1>13
  <2> QED
    BY <1>1, <2>4, <2>5 DEF BudgetsKept, Count, S2, F, C2
<1>22. OrderInv'
  <2>1. \A b \in Arrivals : stage'[b] \in InHand => stage[b] \in InHand
    BY <1>5, <1>13 DEF InHand
  <2>2. \A k \in Ordered : k \in Locations /\ Of(k) \subseteq Arrivals
    BY KindsAssumption, OfIs
  <2>3. \A k \in Locations : loop'[k] = "receives" => loop[k] = "receives"
    BY <1>10, <1>14
  <2> QED
    BY <1>1, <2>1, <2>2, <2>3 DEF OrderInv
<1>23. DrainInv'
  <2>1. \A b \in Arrivals : stage'[b] \in {"away", "kept", "there"} => stage'[b] = stage[b]
    BY <1>13
  <2>2. before \subseteq Arrivals
    BY DEF Typed
  <2>3. StopInv'
    BY <1>1, <2>1, <2>2 DEF DrainInv, StopInv
  <2> SUFFICES ASSUME NEW k \in Locations PROVE DrainOK(k)'
    BY <2>3 DEF DrainInv
  <2>4. DrainOK(k)
    BY DEF DrainInv
  <2>5. loop'[k] \in {"ends", "ended"} => loop[k] \in {"ends", "ended"}
    BY <1>10, <1>14
  <2> QED
    BY <1>1, <1>12, <2>1, <2>2, <2>4, <2>5 DEF DrainOK
<1>24. Typed'
  <2>1. /\ queued' \in [Locations -> Seq(Arrivals)] /\ handing' \in [Locations -> Seq(Arrivals)]
        /\ loop' \in [Locations -> Loops] /\ places' \in [Locations -> 0 .. Carries]
        /\ free' \in [Locations -> Frees]
    BY <1>1, <1>2, <1>4, <1>6, <1>8, <1>9, <1>10
  <2>2. stage' \in [Arrivals -> Stages]
    BY <1>1 DEF Typed, Stages, Pending
  <2> QED
    BY <1>1, <1>12, <1>21, <2>1, <2>2 DEF Typed
<1> QED
  BY <1>16, <1>17, <1>18, <1>19, <1>21, <1>22, <1>23, <1>24

\* A line of some arrivals, each once.
LEMMA FoundIs ==
  ASSUME NEW some \in SUBSET Arrivals, NEW found \in SetToSeqs(some)
  PROVE  /\ found \in Seq(Arrivals) /\ IsInjective(found) /\ Range(found) \subseteq some
         /\ Len(found) \in Nat /\ IsFiniteSet(Range(found)) /\ Cardinality(Range(found)) = Len(found)
<1> DEFINE n == Cardinality(some)
           R == Range(found)
<1>1. n \in Nat
  BY FS_Subset, FS_CardinalityType
<1>2. found \in [1 .. n -> some] /\ \A i, j \in 1 .. n : i # j => found[i] # found[j]
  BY DEF SetToSeqs
<1> HIDE DEF n
<1>3. found \in Seq(Arrivals) /\ Len(found) = n /\ DOMAIN found = 1 .. n
  <2>1. found \in [1 .. n -> Arrivals]
    BY <1>2
  <2>2. found \in Seq(Arrivals)
    BY <1>1, <2>1, SeqDef
  <2> QED
    BY <1>1, <1>2, <2>2, LenProperties
<1>4. IsInjective(found) /\ R \subseteq some
  BY <1>2, <1>3 DEF IsInjective, Range
<1>5. found \in Bijection(1 .. n, R)
  BY <1>2, <1>3, <1>4 DEF Bijection, Injection, Surjection, Range
<1>6. Cardinality(R) = n
  BY <1>1, <1>5, FS_CountingElements DEF ExistsBijection
<1>7. IsFiniteSet(R)
  BY <1>4, FS_Subset
<1> QED
  BY <1>1, <1>3, <1>4, <1>6, <1>7

LEMMA FindsKeeps ==
  ASSUME ReceiveInv, NEW l \in Locations, NEW some \in SUBSET There(l),
         NEW found \in SetToSeqs(some), Finds(l, found)
  PROVE  ReceiveInv'
<1> USE DEF ReceiveInv
<1> DEFINE R == Range(found)
           n == Len(found)
           d == [drain[l] EXCEPT !.letGo = @ \/ \E a \in R : a \in LetGo]
<1>1. /\ loop[l] = "receives" /\ found # <<>> /\ n <= places[l]
      /\ drain' = [drain EXCEPT ![l] = d]
      /\ carrying' = [carrying EXCEPT ![l] = carrying[l] + n]
      /\ handing' = [handing EXCEPT ![l] = found] /\ batch' = [batch EXCEPT ![l] = found]
      /\ turn' = [turn EXCEPT ![l] = 1]
      /\ stage' = [a \in Arrivals |-> IF a \in R THEN "handed" ELSE stage[a]]
      /\ loop' = [loop EXCEPT ![l] = "hands"]
      /\ UNCHANGED <<places, failed, poolVars, told, held, bytes, raised, before, faults>>
  BY DEF Finds, Typed
<1>2. /\ loop \in [Locations -> Loops] /\ drain \in [Locations -> Drainings] /\ drain[l] \in Drainings
      /\ carrying \in [Locations -> 0 .. Most] /\ handing \in [Locations -> Seq(Arrivals)]
      /\ batch \in [Locations -> Seq(Arrivals)] /\ turn \in [Locations -> Nat \ {0}]
      /\ places[l] \in Nat /\ carrying[l] \in Nat
  BY DEF Typed
<1>3. some \in SUBSET Arrivals /\ \A b \in some : b \in Of(l) /\ stage[b] = "there"
  BY DEF There, Of
<1>4. /\ found \in Seq(Arrivals) /\ IsInjective(found) /\ R \subseteq some
      /\ n \in Nat /\ IsFiniteSet(R) /\ Cardinality(R) = n
  BY <1>3, FoundIs
<1>5. R \subseteq Of(l) /\ R \subseteq Arrivals /\ \A b \in R : stage[b] = "there" /\ At[b] = l
  BY <1>3, <1>4 DEF Of
<1>6. /\ d \in Drainings /\ d.quiet = drain[l].quiet /\ d.until = drain[l].until
  BY <1>2 DEF Drainings
<1>7. carrying[l] + n <= Most
  <2>1. carrying[l] + places[l] <= Most
    BY <1>1 DEF PlaceInv
  <2> QED
    BY <1>1, <1>2, <1>4, <2>1
<1> HIDE DEF R, n, d
<1>8. \A b \in Arrivals : stage'[b] = IF b \in R THEN "handed" ELSE stage[b]
  BY <1>1
<1>9. /\ \A k \in Locations : loop'[k] = IF k = l THEN "hands" ELSE loop[k]
      /\ \A k \in Locations : handing'[k] = IF k = l THEN found ELSE handing[k]
      /\ \A k \in Locations : batch'[k] = IF k = l THEN found ELSE batch[k]
      /\ \A k \in Locations : turn'[k] = IF k = l THEN 1 ELSE turn[k]
      /\ \A k \in Locations : drain'[k] = IF k = l THEN d ELSE drain[k]
      /\ \A k \in Locations : carrying'[k] = IF k = l THEN carrying[l] + n ELSE carrying[k]
  BY <1>1, <1>2
<1>10. Typed'
  <2>1. /\ loop' \in [Locations -> Loops] /\ drain' \in [Locations -> Drainings]
        /\ handing' \in [Locations -> Seq(Arrivals)] /\ batch' \in [Locations -> Seq(Arrivals)]
        /\ turn' \in [Locations -> Nat \ {0}]
    BY <1>1, <1>2, <1>4, <1>6 DEF Loops
  <2>2. carrying' \in [Locations -> 0 .. Most]
    <3>1. carrying[l] + n \in 0 .. Most
      BY <1>2, <1>4, <1>7
    <3> QED
      BY <1>1, <1>2, <3>1
  <2>3. stage' \in [Arrivals -> Stages]
    BY <1>1 DEF Typed, Stages
  <2> QED
    BY <1>1, <2>1, <2>2, <2>3 DEF Typed
<1>11. \A k \in Locations : Working(k)' = Working(k)
  <2> SUFFICES ASSUME NEW k \in Locations PROVE Working(k)' = Working(k)
    OBVIOUS
  <2>1. {b \in Of(k) : stage'[b] \in OnThread} = {b \in Of(k) : stage[b] \in OnThread}
    BY <1>5, <1>8, OfIs DEF OnThread
  <2> QED
    BY <1>1, <2>1 DEF Working
<1>12. PoolInv'
  BY <1>1, <1>11 DEF PoolInv
<1>13. LineInv'
  <2>1. \A k \in Locations :
          /\ {b \in Of(k) : stage'[b] = "queued"} = {b \in Of(k) : stage[b] = "queued"}
          /\ k # l => {b \in Of(k) : stage'[b] = "handed"} = {b \in Of(k) : stage[b] = "handed"}
    BY <1>5, <1>8 DEF Of
  <2>2. {b \in Of(l) : stage[b] = "handed"} = {}
    <3>1. handing[l] = <<>> /\ Range(handing[l]) = {b \in Of(l) : stage[b] = "handed"}
      BY <1>1 DEF LineInv
    <3> QED
      BY <3>1 DEF Range
  <2>3. {b \in Of(l) : stage'[b] = "handed"} = R
    BY <1>5, <1>8, <2>2, OfIs
  <2> SUFFICES ASSUME NEW k \in Locations
               PROVE  /\ IsInjective(handing'[k]) /\ Range(handing'[k]) = {b \in Of(k) : stage'[b] = "handed"}
                      /\ IsInjective(queued'[k]) /\ Range(queued'[k]) = {b \in Of(k) : stage'[b] = "queued"}
                      /\ loop'[k] = "hands" <=> handing'[k] # <<>>
    BY DEF LineInv
  <2>4. CASE k = l
    BY <1>1, <1>4, <1>9, <2>1, <2>3, <2>4 DEF R, LineInv
  <2>5. CASE k # l
    BY <1>1, <1>9, <2>1, <2>5 DEF LineInv
  <2> QED
    BY <2>4, <2>5
<1>14. PlaceInv'
  BY <1>1, <1>9 DEF PlaceInv, n
<1>15. Count(stage', Of(l), InHand) = Count(stage, Of(l), InHand) + n
  <2> DEFINE S == {b \in Of(l) : stage[b] \in InHand}
             T == {b \in Of(l) : stage'[b] \in InHand}
  <2>1. IsFiniteSet(S) /\ Cardinality(S) \in Nat
    BY OfIs, FS_Subset, FS_CardinalityType
  <2>2. T = S \cup R
    BY <1>5, <1>8, OfIs DEF InHand
  <2>3. S \cap R = {}
    BY <1>5 DEF InHand, Pending, OnThread
  <2>4. Count(stage, Of(l), InHand) = Cardinality(S) /\ Count(stage', Of(l), InHand) = Cardinality(T)
    BY DEF Count
  <2> HIDE DEF S, T
  <2>5. Cardinality(S \cup R) = Cardinality(S) + Cardinality(R) - Cardinality(S \cap R)
    BY <1>4, <2>1, FS_Union
  <2>6. Cardinality(S \cap R) = 0
    BY <2>3, FS_EmptySet, Zenon
  <2> QED
    BY <1>4, <2>1, <2>2, <2>4, <2>5, <2>6
<1>16. CarryInv'
  <2> SUFFICES ASSUME NEW k \in Locations
               PROVE  carrying'[k] = Count(stage', Of(k), InHand) + Len(told'[k])
    BY DEF CarryInv
  <2>1. /\ carrying[k] = Count(stage, Of(k), InHand) + Len(told[k])
        /\ Count(stage, Of(k), InHand) \in Nat /\ told' = told
    BY <1>1, CountIs, OfIs DEF CarryInv
  <2>2. CASE k = l
    <3>1. Len(told[k]) \in Nat
      <4>1. told[k] \in Seq({"tells", "stops"})
        BY DEF Typed
      <4> QED
        BY <4>1
    <3> QED
      BY <1>4, <1>9, <1>15, <2>1, <2>2, <3>1
  <2>3. CASE k # l
    <3>1. {b \in Of(k) : stage'[b] \in InHand} = {b \in Of(k) : stage[b] \in InHand}
      BY <1>5, <1>8, <2>3 DEF Of
    <3> QED
      BY <1>9, <2>1, <2>3, <3>1 DEF Count
  <2> QED
    BY <2>2, <2>3
<1>17. BudgetsKept'
  <2>1. {b \in Arrivals : stage'[b] \in Pending} = {b \in Arrivals : stage[b] \in Pending}
    BY <1>5, <1>8 DEF Pending, OnThread
  <2>2. {b \in Arrivals : stage'[b] = "carries"} = {b \in Arrivals : stage[b] = "carries"}
    BY <1>5, <1>8
  <2> QED
    BY <1>1, <2>1, <2>2 DEF BudgetsKept
<1>18. OrderInv'
  <2> SUFFICES ASSUME NEW k \in Ordered
               PROVE  /\ IsInjective(batch'[k])
                      /\ loop'[k] = "receives" => carrying'[k] = 0
                      /\ \A b \in Of(k) : stage'[b] \in InHand =>
                           \E i \in DOMAIN batch'[k] : batch'[k][i] = b /\ i >= turn'[k]
    BY DEF OrderInv
  <2>1. k \in Locations /\ Of(k) \subseteq Arrivals
    BY KindsAssumption, OfIs
  <2>2. CASE k # l
    <3>1. \A b \in Of(k) : stage'[b] = stage[b]
      BY <1>5, <1>8, <2>1, <2>2 DEF Of
    <3> QED
      BY <1>9, <2>1, <2>2, <3>1 DEF OrderInv
  <2>3. CASE k = l
    <3>1. {b \in Of(l) : stage[b] \in InHand} = {}
      <4> DEFINE S == {b \in Of(l) : stage[b] \in InHand}
      <4>1. carrying[l] = 0 /\ carrying[l] = Cardinality(S) + Len(told[l])
        BY <1>1, <2>3 DEF OrderInv, CarryInv, Count
      <4>2. IsFiniteSet(S) /\ Cardinality(S) \in Nat
        BY OfIs, FS_Subset, FS_CardinalityType
      <4>3. told[l] \in Seq({"tells", "stops"})
        BY DEF Typed
      <4>4. Len(told[l]) \in Nat
        BY <4>3
      <4> HIDE DEF S
      <4>5. Cardinality(S) = 0
        BY <4>1, <4>2, <4>4
      <4>6. S = {}
        BY <4>2, <4>5, FS_EmptySet
      <4> QED
        BY <4>6 DEF S
    <3>2. ASSUME NEW b \in Of(l), stage'[b] \in InHand PROVE b \in R
      BY <1>8, <2>1, <2>3, <3>1, <3>2
    <3>3. ASSUME NEW b \in R PROVE \E i \in DOMAIN found : found[i] = b /\ i >= 1
      <4>1. PICK i \in DOMAIN found : found[i] = b
        BY <3>3 DEF R, Range
      <4>2. i >= 1
        BY <1>4
      <4> QED
        BY <4>1, <4>2
    <3>4. batch'[k] = found /\ turn'[k] = 1 /\ loop'[k] = "hands"
      BY <1>9, <2>1, <2>3
    <3> QED
      BY <1>4, <2>3, <3>2, <3>3, <3>4
  <2> QED
    BY <2>2, <2>3
<1>19. DrainInv'
  <2>1. \A b \in Arrivals : stage'[b] \in {"away", "kept", "there"} => stage'[b] = stage[b]
    BY <1>8
  <2>2. before \subseteq Arrivals
    BY DEF Typed
  <2>3. StopInv'
    BY <1>1, <2>1, <2>2 DEF DrainInv, StopInv
  <2> SUFFICES ASSUME NEW k \in Locations PROVE DrainOK(k)'
    BY <2>3 DEF DrainInv
  <2>4. DrainOK(k)
    BY DEF DrainInv
  <2>5. \A b \in before \cap LetGo \cap Of(k) : stage'[b] = "there" => stage[b] = "there"
    BY <2>1, <2>2
  <2>6. CASE k = l
    BY <1>1, <1>6, <1>9, <2>4, <2>5, <2>6 DEF DrainOK
  <2>7. CASE k # l
    BY <1>1, <1>9, <2>4, <2>5, <2>7 DEF DrainOK
  <2> QED
    BY <2>6, <2>7
<1> QED
  BY <1>10, <1>12, <1>13, <1>14, <1>16, <1>17, <1>18, <1>19

----------------------------------------------------------------------------
(* The theorems.                                                           *)

LEMMA ReceiveBegins == ReceiveInit => ReceiveInv
<1> SUFFICES ASSUME ReceiveInit PROVE ReceiveInv
  OBVIOUS
<1>1. PICK node \in Nodes :
        /\ loop = [l \in Locations |-> IF l \in node.serves THEN "asks" ELSE "ended"]
        /\ carrying = [l \in Locations |-> 0] /\ places = [l \in Locations |-> 0]
        /\ handing = [l \in Locations |-> <<>>] /\ failed = {}
        /\ drain = [l \in Locations |-> NewDrain] /\ told = [l \in Locations |-> <<>>]
        /\ queued = [l \in Locations |-> <<>>]
        /\ free = [l \in Locations |->
             [awake |-> IF l \in node.serves THEN 1 ELSE 0, waits |-> 0, woken |-> 0, timed |-> 0]]
        /\ finishing = [l \in Locations |-> 0] /\ batch = [l \in Locations |-> <<>>]
        /\ turn = [l \in Locations |-> 1]
        /\ stage = [a \in Arrivals |-> IF a \in node.arrives THEN "away" ELSE "gone"]
        /\ held = 0 /\ bytes = 0 /\ raised = FALSE /\ before = {} /\ faults = 0
  BY DEF ReceiveInit
<1>2. <<>> \in Seq(Arrivals) /\ <<>> \in Seq({"tells", "stops"}) /\ Len(<<>>) = 0
      /\ IsInjective(<<>>) /\ Range(<<>>) = {}
  BY EmptySeq DEF IsInjective, Range
<1>3. \A a \in Arrivals : stage[a] \in {"away", "gone"}
  BY <1>1
<1>4. Typed
  <2>1. free \in [Locations -> Frees]
    BY <1>1 DEF Frees
  <2>2. drain \in [Locations -> Drainings]
    BY <1>1 DEF Drainings, NewDrain
  <2>3. loop \in [Locations -> Loops] /\ stage \in [Arrivals -> Stages]
    BY <1>1 DEF Loops, Stages
  <2>4. /\ carrying \in [Locations -> 0 .. Most] /\ places \in [Locations -> 0 .. Carries]
        /\ finishing \in [Locations -> Nat] /\ turn \in [Locations -> Nat \ {0}]
    BY <1>1
  <2>5. /\ handing \in [Locations -> Seq(Arrivals)] /\ batch \in [Locations -> Seq(Arrivals)]
        /\ queued \in [Locations -> Seq(Arrivals)] /\ told \in [Locations -> Seq({"tells", "stops"})]
    BY <1>1, <1>2
  <2>6. /\ failed \subseteq Locations /\ held \in 0 .. Carries /\ bytes \in 0 .. Bytes
        /\ before \subseteq Arrivals /\ faults \in 0 .. MaxFaults
    BY <1>1
  <2>7. raised \in BOOLEAN
    BY <1>1, Zenon
  <2> QED
    BY <2>1, <2>2, <2>3, <2>4, <2>5, <2>6, <2>7 DEF Typed
<1>5. \A l \in Locations : {a \in Of(l) : stage[a] \in OnThread} = {}
                           /\ {a \in Of(l) : stage[a] \in InHand} = {}
                           /\ {a \in Of(l) : stage[a] = "handed"} = {}
                           /\ {a \in Of(l) : stage[a] = "queued"} = {}
  BY <1>3, OfIs DEF OnThread, InHand, Pending
<1>6. Cardinality({}) = 0
  BY FS_EmptySet
<1>7. PoolInv
  <2> SUFFICES ASSUME NEW l \in Locations PROVE Pool(free[l], Working(l), Len(queued[l]))
    BY DEF PoolInv
  <2>0. Cardinality({a \in Of(l) : stage[a] \in OnThread}) = 0
    BY <1>5, <1>6, Zenon
  <2>1. Working(l) = 0 /\ Len(queued[l]) = 0
    <3>1. finishing[l] = 0 /\ queued[l] = <<>>
      BY <1>1
    <3> QED
      BY <1>2, <2>0, <3>1 DEF Working
  <2>2. PICK n \in {0, 1} : free[l] = [awake |-> n, waits |-> 0, woken |-> 0, timed |-> 0]
    BY <1>1
  <2>3. PoolOK(n, 0, 0, 0, 0, 0)
    BY DEF PoolOK
  <2>4. n \in Nat /\ 0 \in Nat
    OBVIOUS
  <2> QED
    BY <2>1, <2>2, <2>3, <2>4, FreeOf
<1>8. LineInv
  BY <1>1, <1>2, <1>5 DEF LineInv
<1>9. PlaceInv
  BY <1>1 DEF PlaceInv
<1>10. CarryInv
  <2> SUFFICES ASSUME NEW l \in Locations
               PROVE  carrying[l] = Count(stage, Of(l), InHand) + Len(told[l])
    BY DEF CarryInv
  <2>1. Cardinality({a \in Of(l) : stage[a] \in InHand}) = 0
    BY <1>5, <1>6, Zenon
  <2>2. carrying[l] = 0 /\ told[l] = <<>>
    BY <1>1
  <2> QED
    BY <1>2, <2>1, <2>2 DEF Count
<1>11. BudgetsKept
  <2>1. Slots(places) = {} /\ Slots(finishing) = {}
    BY <1>1 DEF Slots
  <2>2. {a \in Arrivals : stage[a] \in Pending} = {} /\ {a \in Arrivals : stage[a] = "carries"} = {}
    BY <1>3 DEF Pending, OnThread
  <2>3. /\ Cardinality(Slots(places)) = 0 /\ Cardinality(Slots(finishing)) = 0
        /\ Cardinality({a \in Arrivals : stage[a] \in Pending}) = 0
        /\ Cardinality({a \in Arrivals : stage[a] = "carries"}) = 0
    BY <1>6, <2>1, <2>2, Zenon
  <2>4. Charge * 0 = 0 /\ held = 0 /\ bytes = 0
    BY <1>1, ChargeIs
  <2> QED
    BY <2>3, <2>4 DEF BudgetsKept
<1>12. OrderInv
  <2>1. \A l \in Ordered : l \in Locations
    BY KindsAssumption
  <2> QED
    BY <1>1, <1>2, <1>5, <2>1 DEF OrderInv
<1>13. DrainInv
  BY <1>1, <1>2 DEF DrainInv, StopInv, DrainOK, NewDrain
<1> QED
  BY <1>4, <1>7, <1>8, <1>9, <1>10, <1>11, <1>12, <1>13 DEF ReceiveInv

LEMMA ReceiveKeeps == ReceiveInv /\ [ReceiveNext]_receiveVars => ReceiveInv'
<1> SUFFICES ASSUME ReceiveInv, [ReceiveNext]_receiveVars PROVE ReceiveInv'
  OBVIOUS
<1>1. ASSUME NEW l \in Locations, Loop(l) PROVE ReceiveInv'
  <2>1. ASSUME Receives(l) PROVE ReceiveInv'
    BY <2>1, FindsKeeps, FindsNothingKeeps, RestedKeeps DEF Receives
  <2> QED
    BY <1>1, <2>1, AsksKeeps, SettlesKeeps, HoldsKeeps, HandsKeeps, RestedKeeps, EndsKeeps DEF Loop
<1>2. ASSUME NEW l \in Locations, Thread(l) PROVE ReceiveInv'
  BY <1>2, TakesWorkKeeps, WaitsKeeps, FinishesKeeps DEF Thread
<1>3. ASSUME NEW l \in Locations, IdleRunsOut(l) PROVE ReceiveInv'
  BY <1>3, WaitsKeeps
<1>4. ASSUME NEW l \in Locations, DrainRunsOut(l) PROVE ReceiveInv'
  BY <1>4, DrainRunsOutKeeps
<1>5. ASSUME NEW a \in Arrivals, Carry(a) PROVE ReceiveInv'
  BY <1>5, CarryKeeps, TellsKeeps DEF Carry
<1>6. ASSUME NEW a \in Arrivals, Arrives(a) PROVE ReceiveInv'
  BY <1>6, ArrivesKeeps
<1>7. CASE Raise
  BY <1>7, RaiseKeeps
<1>8. CASE UNCHANGED receiveVars
  <2>1. PoolInv'
    BY <1>8, PoolFrame DEF ReceiveInv
  <2>2. Typed'
    BY <1>8 DEF ReceiveInv, Typed
  <2>3. LineInv' /\ PlaceInv' /\ CarryInv' /\ BudgetsKept'
    BY <1>8 DEF ReceiveInv, LineInv, PlaceInv, CarryInv, BudgetsKept
  <2>4. OrderInv' /\ DrainInv'
    BY <1>8 DEF ReceiveInv, OrderInv, DrainInv, DrainOK, StopInv
  <2> QED
    BY <2>1, <2>2, <2>3, <2>4 DEF ReceiveInv
<1> QED
  BY <1>1, <1>2, <1>3, <1>4, <1>5, <1>6, <1>7, <1>8 DEF ReceiveNext

LEMMA ReceiveAlways == ReceiveSpec => []ReceiveInv
BY ReceiveBegins, ReceiveKeeps, PTL DEF ReceiveSpec

\* Every variable keeps its type, no pool has more threads than its most, and no
\* more is held of the carry and byte budgets than the node's limits.
THEOREM ReceiveTypes == ReceiveSpec => []ReceiveTypeOK
<1>1. ReceiveInv => ReceiveTypeOK
  BY PoolSound DEF ReceiveInv
<1> QED
  BY <1>1, ReceiveAlways, PTL

\* Nothing taken is left behind: the places and bytes held are those of the
\* receives and carries that run, what is queued has a thread coming for it, and a
\* drained Location closes with nothing of what it was to take at its far end.
THEOREM NoneLeftHolds == ReceiveSpec => []NoneLeft
<1>1. ReceiveInv => NoneLeft
  <2> SUFFICES ASSUME ReceiveInv PROVE NoneLeft
    OBVIOUS
  <2>1. BudgetsKept /\ NoneStranded
    BY PoolSound DEF ReceiveInv
  <2>2. DrainTakes
    BY DEF ReceiveInv, DrainInv, DrainOK, DrainTakes
  <2> QED
    BY <2>1, <2>2 DEF NoneLeft
<1> QED
  BY <1>1, ReceiveAlways, PTL

\* No step but its telling takes an arrival out of the pool.
LEMMA OnlyTells ==
  ASSUME ReceiveInv, [ReceiveNext]_receiveVars, NEW a \in Arrivals,
         stage[a] \in Pending, stage'[a] \notin Pending
  PROVE  \E telling : Tells(a, telling)
<1>0. stage \in [Arrivals -> Stages]
  BY DEF ReceiveInv, Typed
<1>1. ASSUME NEW l \in Locations, Loop(l) PROVE FALSE
  <2>1. CASE UNCHANGED stage
    BY <2>1
  <2>2. ASSUME NEW some \in SUBSET There(l), NEW found \in SetToSeqs(some), Finds(l, found) PROVE FALSE
    <3>1. stage'[a] = IF a \in Range(found) THEN "handed" ELSE stage[a]
      BY <2>2 DEF Finds
    <3>2. some \in SUBSET Arrivals /\ \A b \in some : stage[b] = "there"
      BY DEF There, Of
    <3>3. Range(found) \subseteq some
      BY <3>2, FoundIs
    <3> QED
      BY <3>1, <3>2, <3>3 DEF Pending, OnThread
  <2>3. ASSUME Hands(l) PROVE FALSE
    <3>1. stage' = [stage EXCEPT ![Head(handing[l])] = "queued"]
      BY <2>3 DEF Hands
    <3>2. stage'[a] \in {"queued", stage[a]}
      BY <1>0, <3>1
    <3> QED
      BY <3>2 DEF Pending
  <2>4. ASSUME Asks(l) \/ Settles(l) \/ Holds(l) \/ FindsNothing(l) \/ ReceiveStops(l) \/ Rested(l) \/ Ends(l)
        PROVE  UNCHANGED stage
    BY <2>4 DEF Asks, Settles, Settled, Holds, FindsNothing, ReceiveStops, Rested, Ends
  <2> QED
    BY <1>1, <2>1, <2>2, <2>3, <2>4 DEF Loop, Receives
<1>2. ASSUME NEW l \in Locations, Thread(l) \/ IdleRunsOut(l) \/ DrainRunsOut(l) PROVE FALSE
  <2>1. ASSUME TakesWork(l) PROVE FALSE
    <3>1. stage' = [stage EXCEPT ![Head(queued[l])] = "taken"]
      BY <2>1 DEF TakesWork
    <3>2. stage'[a] \in {"taken", stage[a]}
      BY <1>0, <3>1
    <3> QED
      BY <3>2 DEF Pending, OnThread
  <2>2. ASSUME WaitsForWork(l) \/ Wakes(l) \/ TimedOut(l) \/ Finishes(l) \/ IdleRunsOut(l) \/ DrainRunsOut(l)
        PROVE  UNCHANGED stage
    BY <2>2 DEF WaitsForWork, Wakes, TimedOut, Finishes, IdleRunsOut, DrainRunsOut
  <2> QED
    BY <1>2, <2>1, <2>2 DEF Thread
<1>3. ASSUME NEW b \in Arrivals, CarryBegins(b) PROVE FALSE
  <2>1. stage'[a] \in {"carries", stage[a]}
    BY <1>0, <1>3 DEF CarryBegins
  <2> QED
    BY <2>1 DEF Pending, OnThread
<1>4. ASSUME NEW b \in Arrivals, NEW ended \in {"accepted", "failed", "panicked"}, CarryEnds(b, ended)
      PROVE  FALSE
  <2>1. stage'[a] \in {ended, stage[a]}
    BY <1>0, <1>4 DEF CarryEnds
  <2> QED
    BY <2>1 DEF Pending, OnThread
<1>5. ASSUME NEW b \in Arrivals, NEW telling, Tells(b, telling) PROVE b = a
  <2>1. stage' = [stage EXCEPT ![b] = FarEnd(b, stage[b] = "accepted" /\ telling = "tells")]
    BY <1>5 DEF Tells
  <2> QED
    BY <1>0, <2>1
<1>6. ASSUME NEW b \in Arrivals, Arrives(b) PROVE FALSE
  <2>1. stage[b] \in {"away", "kept"} /\ stage' = [stage EXCEPT ![b] = "there"]
    BY <1>6 DEF Arrives
  <2>2. b # a
    BY <2>1 DEF Pending, OnThread
  <2> QED
    BY <1>0, <2>1, <2>2
<1>7. CASE Raise \/ UNCHANGED receiveVars
  BY <1>7 DEF Raise
<1> QED
  BY <1>1, <1>2, <1>3, <1>4, <1>5, <1>6, <1>7 DEF ReceiveNext, Carry

\* An ordered Location's arrivals are told in the order they came, over all its
\* receives, however their carries end.
THEOREM InOrderHolds == ReceiveSpec => InOrder
<1> DEFINE P(a) ==
      LET l == At[a] IN
      l \in Ordered /\ stage[a] \in Pending /\ stage'[a] \notin Pending =>
        \A b \in Of(l) \ {a} : stage[b] \in Pending => b \in Range(batch[l]) /\ Place(b) > Place(a)
<1>1. ASSUME ReceiveInv, [ReceiveNext]_receiveVars, NEW a \in Arrivals PROVE P(a)
  <2> SUFFICES ASSUME At[a] \in Ordered, stage[a] \in Pending, stage'[a] \notin Pending,
                      NEW b \in Of(At[a]) \ {a}, stage[b] \in Pending
               PROVE  b \in Range(batch[At[a]]) /\ Place(b) > Place(a)
    OBVIOUS
  <2>1. /\ b \in Arrivals /\ At[b] = At[a] /\ stage[a] \in InHand /\ stage[b] \in InHand
    BY DEF Of, InHand
  <2>2. /\ Place(a) \in DOMAIN batch[At[a]] /\ batch[At[a]][Place(a)] = a /\ Place(a) \in Nat
    BY <1>1, <2>1, PlaceIs DEF ReceiveInv
  <2>3. /\ Place(b) \in DOMAIN batch[At[a]] /\ batch[At[a]][Place(b)] = b
        /\ Place(b) \in Nat /\ Place(b) >= turn[At[a]]
    BY <1>1, <2>1, PlaceIs DEF ReceiveInv
  <2>4. Place(a) # Place(b)
    BY <2>2, <2>3
  <2>5. turn[At[a]] = Place(a)
    <3>1. ItsTurn(a)
      <4>1. stage \in [Arrivals -> Stages]
        BY <1>1 DEF ReceiveInv, Typed
      <4>2. PICK telling : Tells(a, telling)
        BY <1>1, <4>1, OnlyTells
      <4> QED
        BY <4>2 DEF Tells
    <3> QED
      BY <3>1 DEF ItsTurn
  <2>6. Place(b) > Place(a)
    BY <2>2, <2>3, <2>4, <2>5
  <2> QED
    BY <2>3, <2>6 DEF Range
<1>2. ReceiveInv /\ [ReceiveNext]_receiveVars => [\A a \in Arrivals : P(a)]_receiveVars
  BY <1>1
<1>3. ReceiveSpec => [][\A a \in Arrivals : P(a)]_receiveVars
  BY <1>2, ReceiveAlways, PTL DEF ReceiveSpec
<1> QED
  BY <1>3 DEF InOrder
===============================================================================
