------------------------------ MODULE SendProofs ------------------------------
(***************************************************************************)
(* What is proved of the send step, two parts that share no state, for     *)
(* every value of their constants.                                         *)
(*                                                                         *)
(*   Figures    A listing of what failed has each Message that waits       *)
(*              throughout it once, and the measures published count what  *)
(*              happened and never fall.  For any Ports and threads of     *)
(*              which there are finitely many, windows, pages and bounds.  *)
(*   SendClaim  Only a true holder finds it holds a Message, only what     *)
(*              waits is sent, fences rise, what waits can be taken up     *)
(*              again, and the claims implement MessageLife.  For any      *)
(*              nodes, Messages, Locations, tries, lease and bound on      *)
(*              fences.                                                    *)
(***************************************************************************)
EXTENDS SendClaim, Figures, FiniteSetTheorems, TLAPS

----------------------------------------------------------------------------
(***************************************************************************)
(* Figures: what a running node says of itself.                            *)
(***************************************************************************)

(* Places, oldest first.                                                   *)

\* A set of places that is not empty has an oldest.
LEMMA LeastPlace ==
  ASSUME NEW S \in SUBSET Nat, S # {}
  PROVE  \E s \in S : \A u \in S : s <= u
<1> DEFINE R == OpToRel(<, Nat)
<1>1. IsWellFoundedOn(R, Nat)
  BY NatLessThanWellFounded
<1>2. \A x, y \in Nat : <<x, y>> \in R <=> x < y
  BY DEF OpToRel
<1> HIDE DEF R
<1>3. PICK s \in S : \A u \in S : ~(<<u, s>> \in R)
  BY <1>1, WFMin
<1>4. s \in Nat /\ \A u \in S : u \in Nat /\ ~(u < s)
  BY <1>2, <1>3
<1> QED
  BY <1>4

LEMMA BeforeIs ==
  ASSUME NEW S \in SUBSET Nat, IsFiniteSet(S), NEW s \in S
  PROVE  /\ IsFiniteSet(Before(S, s))
         /\ Cardinality(Before(S, s)) \in 0 .. (Cardinality(S) - 1)
<1>1. Before(S, s) \in SUBSET S /\ s \notin Before(S, s)
  BY DEF Before
<1>2. IsFiniteSet(Before(S, s)) /\ Cardinality(Before(S, s)) <= Cardinality(S)
      /\ Cardinality(Before(S, s)) # Cardinality(S)
  BY <1>1, FS_Subset
<1>3. Cardinality(Before(S, s)) \in Nat /\ Cardinality(S) \in Nat
  BY <1>2, FS_CardinalityType
<1> QED
  BY <1>2, <1>3

\* The later of two has more before it.
LEMMA LaterHasMore ==
  ASSUME NEW S \in SUBSET Nat, IsFiniteSet(S), NEW s \in S, NEW u \in S, s < u
  PROVE  Cardinality(Before(S, s)) < Cardinality(Before(S, u))
<1>0. \A v \in S : v \in Int
  OBVIOUS
<1>1. Before(S, s) \in SUBSET Before(S, u)
  <2> SUFFICES ASSUME NEW v \in S, v < s PROVE v < u
    BY DEF Before
  <2>1. v \in Int /\ s \in Int /\ u \in Int
    BY <1>0
  <2> QED
    BY <2>1
<1>2. s \in Before(S, u) /\ s \notin Before(S, s)
  BY DEF Before
<1>3. IsFiniteSet(Before(S, u))
  BY BeforeIs
<1>4. Cardinality(Before(S, s)) <= Cardinality(Before(S, u))
      /\ Cardinality(Before(S, s)) # Cardinality(Before(S, u))
  BY <1>1, <1>2, <1>3, FS_Subset
<1> QED
  BY <1>4, BeforeIs

\* There is one with each number before it.
LEMMA EachRank ==
  ASSUME NEW S \in SUBSET Nat, IsFiniteSet(S)
  PROVE  \A n \in 0 .. (Cardinality(S) - 1) : \E s \in S : Cardinality(Before(S, s)) = n
<1> DEFINE Has(n) == \E s \in S : Cardinality(Before(S, s)) = n
           Without == {n \in Nat : n < Cardinality(S) /\ ~Has(n)}
<1>0. Cardinality(S) \in Nat /\ \A v \in S : v \in Int
  BY FS_CardinalityType
<1>1. ASSUME Without # {} PROVE FALSE
  <2>1. PICK n \in Without : \A k \in Without : n <= k
    BY <1>1, LeastPlace
  <2>2. n \in Nat /\ n < Cardinality(S) /\ ~Has(n)
    BY <2>1
  <2>3. \A k \in Nat : k < n => Has(k)
    BY <1>0, <2>1, <2>2
  <2>4. CASE n = 0
    <3>1. S # {}
      BY <1>0, <2>2, <2>4, FS_EmptySet
    <3>2. PICK s \in S : \A u \in S : s <= u
      BY <3>1, LeastPlace
    <3>3. Before(S, s) = {}
      <4> SUFFICES ASSUME NEW v \in S, v < s PROVE FALSE
        BY DEF Before
      <4>1. v \in Int /\ s \in Int /\ s <= v
        BY <1>0, <3>2
      <4> QED
        BY <4>1
    <3> QED
      BY <2>2, <2>4, <3>3, FS_EmptySet
  <2>5. CASE n # 0
    <3>1. n - 1 \in Nat /\ n - 1 < n
      BY <2>2, <2>5
    <3>2. PICK s \in S : Cardinality(Before(S, s)) = n - 1
      BY <2>3, <3>1
    <3> DEFINE Later == {u \in S : s < u}
               Upto == Before(S, s) \cup {s}
    <3>3. IsFiniteSet(Upto) /\ Cardinality(Upto) = n
      <4>1. IsFiniteSet(Before(S, s)) /\ s \notin Before(S, s)
        BY BeforeIs DEF Before
      <4>2. IsFiniteSet(Upto) /\ Cardinality(Upto) = Cardinality(Before(S, s)) + 1
        BY <4>1, FS_AddElement, Zenon
      <4> QED
        BY <2>2, <3>2, <4>2
    <3>4. Later # {}
      <4>1. SUFFICES ASSUME Later = {} PROVE FALSE
        OBVIOUS
      <4>2. S = Upto
        <5> SUFFICES ASSUME NEW v \in S PROVE v < s \/ v = s
          BY DEF Before
        <5>1. v \in Int /\ s \in Int /\ ~(s < v)
          BY <1>0, <4>1
        <5> QED
          BY <5>1
      <4> QED
        BY <2>2, <3>3, <4>2
    <3>5. PICK u \in Later : \A v \in Later : u <= v
      BY <3>4, LeastPlace
    <3>6. Before(S, u) = Upto
      <4>1. u \in S /\ u \in Int /\ s \in Int /\ s < u
        BY <1>0, <3>5
      <4> SUFFICES ASSUME NEW v \in S PROVE v < u <=> v < s \/ v = s
        BY <4>1 DEF Before
      <4>2. v \in Int /\ (s < v => u <= v)
        BY <1>0, <3>5
      <4> QED
        BY <4>1, <4>2
    <3> QED
      BY <2>2, <3>3, <3>5, <3>6
  <2> QED
    BY <2>4, <2>5
<1>2. \A n \in 0 .. (Cardinality(S) - 1) : n \in Nat /\ n < Cardinality(S)
  BY <1>0
<1> QED
  BY <1>1, <1>2

\* A set of places put oldest first has each of them, and each is later than
\* those before it.
LEMMA OldestIs ==
  ASSUME NEW S \in SUBSET Nat, IsFiniteSet(S)
  PROVE  /\ Cardinality(S) \in Nat
         /\ Oldest(S) \in Seq(S) /\ Len(Oldest(S)) = Cardinality(S)
         /\ \A i \in 1 .. Cardinality(S) : Oldest(S)[i] \in S
         /\ \A i, k \in 1 .. Cardinality(S) : i < k => Oldest(S)[i] < Oldest(S)[k]
         /\ \A s \in S : \E i \in 1 .. Cardinality(S) : Oldest(S)[i] = s
<1> DEFINE N == Cardinality(S)
           q == Oldest(S)
           rank(s) == Cardinality(Before(S, s))
<1>0. N \in Nat
  BY FS_CardinalityType
<1>1. \A i \in 1 .. N : q[i] \in S /\ rank(q[i]) = i - 1
  <2> SUFFICES ASSUME NEW i \in 1 .. N PROVE q[i] \in S /\ rank(q[i]) = i - 1
    OBVIOUS
  <2>1. i - 1 \in 0 .. (N - 1)
    BY <1>0
  <2>2. \E s \in S : Cardinality(Before(S, s)) = i - 1
    BY <2>1, EachRank
  <2> QED
    BY <2>2 DEF Oldest
<1>2. \A s \in S : rank(s) \in 0 .. (N - 1)
  BY BeforeIs
<1>3. \A s, u \in S : s < u => rank(s) < rank(u)
  BY LaterHasMore
<1>4. q \in [1 .. N -> S]
  <2>1. q = [i \in 1 .. N |-> q[i]]
    BY DEF Oldest
  <2> QED
    BY <1>1, <2>1
<1>5. q \in Seq(S) /\ Len(q) = N
  BY <1>0, <1>4
<1>s. \A s \in S : s \in Nat
  OBVIOUS
<1> HIDE DEF q, N, rank
<1>6. \A i, k \in 1 .. N : i < k => q[i] < q[k]
  <2> SUFFICES ASSUME NEW i \in 1 .. N, NEW k \in 1 .. N, i < k PROVE q[i] < q[k]
    OBVIOUS
  <2>1. rank(q[i]) < rank(q[k]) /\ q[i] \in Nat /\ q[k] \in Nat
    <3>1. q[i] \in S /\ q[k] \in S /\ rank(q[i]) = i - 1 /\ rank(q[k]) = k - 1
      BY <1>1
    <3>2. i - 1 < k - 1
      BY <1>0
    <3>3. q[i] \in Nat /\ q[k] \in Nat
      BY <1>s, <3>1
    <3> QED
      BY <3>1, <3>2, <3>3, Zenon
  <2>2. rank(q[i]) \in Int /\ rank(q[k]) \in Int
    BY <1>0, <1>1, <1>2
  <2> QED
    BY <1>1, <1>3, <2>1, <2>2
<1>7. \A s \in S : \E i \in 1 .. N : q[i] = s
  <2> SUFFICES ASSUME NEW s \in S PROVE \E i \in 1 .. N : q[i] = s
    OBVIOUS
  <2>1. rank(s) + 1 \in 1 .. N /\ rank(s) \in Int
    BY <1>0, <1>2
  <2>2. q[rank(s) + 1] \in S /\ rank(q[rank(s) + 1]) = rank(s)
    BY <1>1, <2>1
  <2>3. q[rank(s) + 1] = s
    <3> DEFINE u == q[rank(s) + 1]
    <3>0. u \in S /\ u \in Nat /\ s \in Nat /\ rank(u) = rank(s)
      BY <1>s, <2>2, Zenon
    <3>1. u \in S /\ rank(u) = rank(s) /\ u \in Int /\ s \in Int
      BY <3>0
    <3>2. ~(u < s) /\ ~(s < u)
      BY <1>3, <2>1, <3>1
    <3> HIDE DEF u
    <3>3. u = s
      BY <3>1, <3>2
    <3> QED
      BY <3>3 DEF u
  <2> QED
    BY <2>1, <2>3
<1> QED
  BY <1>0, <1>1, <1>5, <1>6, <1>7 DEF q, N

LEMMA FailedFinite ==
  ASSUME FiguresTypeOK, NEW p \in Ports
  PROVE  /\ index[p].failed \in SUBSET Nat /\ index[p].next \in Nat
         /\ index[p].failed \subseteq 0 .. (index[p].next - 1)
         /\ IsFiniteSet(index[p].failed) /\ Cardinality(index[p].failed) \in Nat
<1>1. index[p].failed \in SUBSET Nat /\ index[p].next \in Nat
      /\ index[p].failed \in SUBSET (0 .. (index[p].next - 1))
  BY DEF FiguresTypeOK
<1>2. IsFiniteSet(0 .. (index[p].next - 1))
  <2>1. 0 \in Int /\ index[p].next - 1 \in Int
    BY <1>1
  <2> QED
    BY <2>1, FS_Interval
<1> QED
  BY <1>1, <1>2, FS_Subset, FS_CardinalityType

\* A page is the oldest from a place on, one after the other; a page that is
\* not full has all of them.
LEMMA PageIs ==
  ASSUME FiguresTypeOK, NEW p \in Ports, NEW from \in Nat, NEW most \in Nat \ {0}
  PROVE  LET page == Page(p, from, most)
         IN /\ page \in Seq(Nat) /\ Len(page) <= most
            /\ \A i \in 1 .. Len(page) : page[i] \in index[p].failed /\ page[i] >= from
            /\ \A i, k \in 1 .. Len(page) : i < k => page[i] < page[k]
            /\ \A s \in index[p].failed :
                 s >= from /\ (Len(page) < most \/ s <= page[Len(page)]) =>
                   \E i \in 1 .. Len(page) : page[i] = s
<1> DEFINE S == {s \in index[p].failed : s >= from}
           q == Oldest(S)
           n == IF most < Len(q) THEN most ELSE Len(q)
           page == Page(p, from, most)
<1>1. S \in SUBSET Nat /\ IsFiniteSet(S)
  BY FailedFinite, FS_Subset
<1>2. /\ q \in Seq(S)
      /\ \A i \in 1 .. Len(q) : q[i] \in S
      /\ \A i, k \in 1 .. Len(q) : i < k => q[i] < q[k]
      /\ \A s \in S : \E i \in 1 .. Len(q) : q[i] = s
  BY <1>1, OldestIs
<1>3. page = SubSeq(q, 1, n)
  BY DEF Page
<1>4. \A s \in S : s \in Nat /\ s \in index[p].failed /\ s >= from
  BY <1>1
<1>5. \A s \in index[p].failed : s >= from => s \in S
  OBVIOUS
<1> HIDE DEF S, q, page
<1>6. Len(q) \in Nat /\ n \in Nat /\ n <= Len(q) /\ n <= most
      /\ (n < most => n = Len(q))
  BY <1>2
<1> HIDE DEF n
<1>7. Len(page) = n /\ page \in Seq(Nat) /\ \A i \in 1 .. n : page[i] = q[i]
  <2>1. q \in Seq(Nat)
    BY <1>2, <1>4
  <2> QED
    BY <1>3, <1>6, <2>1
<1>8. \A i \in 1 .. n : i \in 1 .. Len(q) /\ page[i] = q[i] /\ q[i] \in S
  <2> SUFFICES ASSUME NEW i \in 1 .. n PROVE i \in 1 .. Len(q) /\ page[i] = q[i] /\ q[i] \in S
    OBVIOUS
  <2>1. i \in 1 .. Len(q)
    BY <1>6
  <2> QED
    BY <1>2, <1>7, <2>1
<1>9. \A i \in 1 .. n : page[i] \in index[p].failed /\ page[i] >= from
  BY <1>4, <1>8
<1>10. \A i, k \in 1 .. n : i < k => page[i] < page[k]
  <2> SUFFICES ASSUME NEW i \in 1 .. n, NEW k \in 1 .. n, i < k PROVE page[i] < page[k]
    OBVIOUS
  <2> QED
    BY <1>2, <1>8, Zenon
<1>11. ASSUME NEW s \in index[p].failed, s >= from, n < most \/ s <= page[n]
       PROVE  \E i \in 1 .. n : page[i] = s
  <2>1. PICK i \in 1 .. Len(q) : q[i] = s
    BY <1>2, <1>5, <1>11
  <2>2. CASE i <= n
    <3>1. i \in 1 .. n
      BY <1>6, <2>2
    <3> QED
      BY <1>8, <2>1, <3>1
  <2>3. CASE ~(i <= n)
    <3>1. n = most /\ n \in 1 .. Len(q) /\ n \in 1 .. n /\ n < i
      BY <1>6, <2>3
    <3>2. q[n] < s /\ page[n] = q[n]
      BY <1>2, <1>8, <2>1, <3>1
    <3>3. q[n] \in Nat /\ s \in Nat
      BY <1>4, <1>5, <1>8, <1>11, <3>1
    <3> QED
      BY <1>6, <1>11, <3>1, <3>2, <3>3
  <2> QED
    BY <2>2, <2>3
<1> QED
  BY <1>6, <1>7, <1>9, <1>10, <1>11 DEF page

----------------------------------------------------------------------------
(* Sums over the Ports.                                                    *)

LEMMA EachFinite ==
  ASSUME NEW f \in [Ports -> Nat]
  PROVE  IsFiniteSet(Each(f)) /\ Sum(f) \in Nat
<1> DEFINE Part(p) == {p} \X (1 .. f[p])
           T == {Part(p) : p \in Ports}
           g == [p \in Ports |-> Part(p)]
<1>1. \A p \in Ports : IsFiniteSet(Part(p))
  <2> SUFFICES ASSUME NEW p \in Ports PROVE IsFiniteSet(Part(p))
    OBVIOUS
  <2>1. f[p] \in Int /\ 1 \in Int
    OBVIOUS
  <2>2. IsFiniteSet(1 .. f[p])
    BY <2>1, FS_Interval
  <2>3. IsFiniteSet({p})
    BY FS_Singleton
  <2> QED
    BY <2>2, <2>3, FS_Product
<1>2. g \in Surjection(Ports, T)
  BY DEF Surjection
<1>3. IsFiniteSet(T)
  BY <1>2, FS_Surjection, FiguresAssumption
<1>4. IsFiniteSet(UNION T)
  BY <1>1, <1>3, FS_UNION
<1> QED
  BY <1>4, FS_CardinalityType DEF Sum, Each

\* One more at a Port is one more in all.
LEMMA SumOneMore ==
  ASSUME NEW f \in [Ports -> Nat], NEW g \in [Ports -> Nat], NEW p \in Ports,
         g[p] = f[p] + 1, \A o \in Ports : o # p => g[o] = f[o]
  PROVE  Sum(g) = Sum(f) + 1
<1> DEFINE x == <<p, f[p] + 1>>
<1>1. x \notin Each(f)
  BY DEF Each
<1>2. Each(g) = Each(f) \cup {x}
  BY DEF Each
<1> QED
  BY <1>1, <1>2, EachFinite, FS_AddElement DEF Sum

\* No more at any Port is no more in all.
LEMMA SumNoMore ==
  ASSUME NEW f \in [Ports -> Nat], NEW g \in [Ports -> Nat], \A p \in Ports : f[p] <= g[p]
  PROVE  Sum(f) <= Sum(g)
<1>1. Each(f) \in SUBSET Each(g)
  BY DEF Each
<1> QED
  BY <1>1, EachFinite, FS_Subset DEF Sum

----------------------------------------------------------------------------
(* Types.                                                                  *)

LEMMA ReaderIs ==
  ASSUME FiguresTypeOK, NEW r \in Readers
  PROVE  /\ reads[r] \in ReaderStates
         /\ reads[r].at = "sends" => reads[r] \in [at : {"sends"}, port : Ports, unconfirmed : BOOLEAN]
         /\ reads[r].at = "count" =>
              reads[r] \in [at : {"count"}, port : Ports, how : Hows, unconfirmed : BOOLEAN]
         /\ reads[r].at = "tell" => reads[r] \in [at : {"tell"}, port : Ports, how : Hows]
         /\ reads[r].at = "places" => reads[r] \in [at : {"places"}, port : Ports, afresh : BOOLEAN]
         /\ reads[r].at \in {"read", "queue"} => reads[r] \in [at : {"read", "queue"}, port : Ports]
         /\ reads[r].at = "keep" => reads[r] \in [at : {"keep"}, port : Ports, window : Windows]
<1>1. reads[r] \in ReaderStates
  BY DEF FiguresTypeOK
<1> QED
  BY <1>1 DEF ReaderStates, Idle

LEMMA MakingIs ==
  ASSUME FiguresTypeOK
  PROVE  /\ making.at = "records" =>
              making \in [at : {"records"}, time : Nat, fallen : SUBSET Ports, since : Passed]
         /\ making.at = "figures" =>
              making \in [at : {"figures"}, since : Passed, certificate : Nat, ports : Shown]
         /\ making.at = "outcomes" =>
              making \in [at : {"outcomes"}, since : Passed, certificate : Nat, ports : Shown,
                          counted : [Ports -> [sent : Nat, failed : Nat, unread : BOOLEAN]]]
         /\ making.at = "made" => making \in [at : {"made"}, since : Passed, what : Publications]
<1>1. making \in Makings
  BY DEF FiguresTypeOK
<1> QED
  BY <1>1 DEF Makings, Idle

LEMMA BoundIs ==
  ASSUME FiguresTypeOK
  PROVE  {bound.before, bound.passes, bound.elsewhere, bound.unanswered, bound.refused,
          bound.imported, bound.listings, bound.stops} \subseteq Nat
BY FiguresAssumption DEF FiguresTypeOK

\* A reader's next state.
LEMMA ReaderGoesOn ==
  ASSUME FiguresTypeOK, NEW r \in Readers, NEW s \in ReaderStates
  PROVE  [reads EXCEPT ![r] = s] \in [Readers -> ReaderStates]
BY DEF FiguresTypeOK

LEMMA AfterIs ==
  ASSUME FiguresTypeOK, NEW r \in Readers, reads[r].at \in {"places", "read", "keep"}
  PROVE  After(r) \in ReaderStates
<1>1. reads[r].port \in Ports
  BY ReaderIs
<1> QED
  BY <1>1 DEF After, ReaderStates, Hows

\* A node's window, read.
LEMMA WindowIs ==
  ASSUME FiguresTypeOK, NEW p \in Ports
  PROVE  [at |-> <<index[p].next, Cardinality(index[p].failed)>>, oldest |-> Page(p, 0, Window)]
           \in Windows
<1>1. Page(p, 0, Window) \in Seq(Nat)
  BY PageIs, FiguresAssumption
<1> QED
  BY <1>1, FailedFinite DEF Windows

\* One more of a kind at a Port.
LEMMA OneMoreTyped ==
  ASSUME FiguresTypeOK, NEW p \in Ports
  PROVE  /\ [ended EXCEPT ![p].sent = @ + 1] \in [Ports -> Passed]
         /\ [ended EXCEPT ![p].failed = @ + 1] \in [Ports -> Passed]
         /\ [figures EXCEPT ![p].sent = @ + 1] \in [Ports -> [sent : Nat, failed : Nat, unread : BOOLEAN]]
         /\ [figures EXCEPT ![p].failed = @ + 1] \in [Ports -> [sent : Nat, failed : Nat, unread : BOOLEAN]]
<1> DEFINE e == ended[p]
           f == figures[p]
<1>1. e \in Passed /\ ended \in [Ports -> Passed]
  BY DEF FiguresTypeOK
<1>2. f \in [sent : Nat, failed : Nat, unread : BOOLEAN]
      /\ figures \in [Ports -> [sent : Nat, failed : Nat, unread : BOOLEAN]]
  BY DEF FiguresTypeOK
<1>3. /\ [ended EXCEPT ![p].sent = @ + 1] = [ended EXCEPT ![p] = [e EXCEPT !.sent = e.sent + 1]]
      /\ [ended EXCEPT ![p].failed = @ + 1] = [ended EXCEPT ![p] = [e EXCEPT !.failed = e.failed + 1]]
      /\ [figures EXCEPT ![p].sent = @ + 1] = [figures EXCEPT ![p] = [f EXCEPT !.sent = f.sent + 1]]
      /\ [figures EXCEPT ![p].failed = @ + 1] = [figures EXCEPT ![p] = [f EXCEPT !.failed = f.failed + 1]]
  OBVIOUS
<1> HIDE DEF e, f
<1>4. [e EXCEPT !.sent = e.sent + 1] \in Passed /\ [e EXCEPT !.failed = e.failed + 1] \in Passed
  BY <1>1 DEF Passed
<1>5. /\ [f EXCEPT !.sent = f.sent + 1] \in [sent : Nat, failed : Nat, unread : BOOLEAN]
      /\ [f EXCEPT !.failed = f.failed + 1] \in [sent : Nat, failed : Nat, unread : BOOLEAN]
  BY <1>2
<1> QED
  BY <1>1, <1>2, <1>3, <1>4, <1>5

\* One more in a queue's index of failed Messages, and one less.
FailsAt(p) == [index EXCEPT ![p] = [next |-> @.next + 1, failed |-> @.failed \cup {@.next}]]
LeavesAt(p, s) == [index EXCEPT ![p].failed = @ \ {s}]

LEMMA IndexTyped ==
  ASSUME FiguresTypeOK, NEW p \in Ports, NEW s,
         index' = FailsAt(p) \/ index' = LeavesAt(p, s)
  PROVE  /\ index' \in [Ports -> [next : Nat, failed : SUBSET Nat]]
         /\ \A o \in Ports : index'[o].failed \subseteq 0 .. (index'[o].next - 1)
         /\ \A o \in Ports : o # p => index'[o] = index[o]
         /\ index' = FailsAt(p) => index'[p].failed = index[p].failed \cup {index[p].next}
         /\ index' = LeavesAt(p, s) => index'[p].failed = index[p].failed \ {s}
<1> DEFINE x == index[p]
<1>1. /\ index \in [Ports -> [next : Nat, failed : SUBSET Nat]]
      /\ \A o \in Ports : index[o].failed \subseteq 0 .. (index[o].next - 1)
  BY DEF FiguresTypeOK
<1>2. x \in [next : Nat, failed : SUBSET Nat] /\ x.failed \subseteq 0 .. (x.next - 1)
  BY <1>1
<1>3. CASE index' = FailsAt(p)
  <2> DEFINE y == [next |-> x.next + 1, failed |-> x.failed \cup {x.next}]
  <2>1. index' = [index EXCEPT ![p] = y]
    BY <1>3 DEF FailsAt
  <2>2. x.next + 1 \in Nat /\ x.failed \cup {x.next} \in SUBSET Nat
        /\ x.failed \cup {x.next} \subseteq 0 .. x.next
    BY <1>2
  <2>3. y \in [next : Nat, failed : SUBSET Nat] /\ y.failed = x.failed \cup {x.next}
        /\ y.next - 1 = x.next
    BY <1>2, <2>2
  <2> HIDE DEF y, x
  <2>4. y.failed \subseteq 0 .. (y.next - 1)
    BY <2>2, <2>3
  <2>5. index' # LeavesAt(p, s) \/ y.failed = x.failed \ {s}
    BY <1>1, <2>1 DEF LeavesAt, x
  <2> QED
    BY <1>1, <2>1, <2>3, <2>4, <2>5 DEF x
<1>4. CASE index' = LeavesAt(p, s) /\ index' # FailsAt(p)
  <2> DEFINE y == [x EXCEPT !.failed = x.failed \ {s}]
  <2>1. index' = [index EXCEPT ![p] = y]
    BY <1>4 DEF LeavesAt
  <2>2. y \in [next : Nat, failed : SUBSET Nat] /\ y.failed = x.failed \ {s} /\ y.next = x.next
    BY <1>2
  <2> HIDE DEF y, x
  <2>3. y.failed \subseteq 0 .. (y.next - 1)
    BY <1>2, <2>2
  <2> QED
    BY <1>1, <1>4, <2>1, <2>2, <2>3 DEF x
<1> QED
  BY <1>3, <1>4

LEMMA SendsTyped ==
  ASSUME FiguresTypeOK, NEW t \in Threads, NEW p \in Ports,
         \/ Takes(t, p) \/ Renewed(t) \/ Uncounted(t)
         \/ Ends(t, p, "completed") \/ Ends(t, p, "failed")
  PROVE  FiguresTypeOK'
<1> USE DEF said, bounds
<1>0. t \in Readers
  BY DEF Readers
<1>1. CASE Takes(t, p)
  <2>1. reads' \in [Readers -> ReaderStates]
    BY <1>0, <1>1, ReaderGoesOn DEF Takes, ReaderStates
  <2> QED
    BY <1>1, <2>1 DEF Takes, FiguresTypeOK
<1>2. CASE Renewed(t)
  <2>1. reads' \in [Readers -> ReaderStates]
    <3>1. reads[t] \in [at : {"sends"}, port : Ports, unconfirmed : BOOLEAN]
      BY <1>0, <1>2, ReaderIs DEF Renewed
    <3>2. \A b \in BOOLEAN : [reads[t] EXCEPT !.unconfirmed = b] \in ReaderStates
      BY <3>1 DEF ReaderStates
    <3>3. \E b \in BOOLEAN : reads' = [reads EXCEPT ![t] = [reads[t] EXCEPT !.unconfirmed = b]]
      BY <1>2 DEF Renewed
    <3> QED
      BY <1>0, <3>2, <3>3, ReaderGoesOn
  <2>2. unanswered' \in Nat
    BY <1>2 DEF Renewed, Answered, NotAnswered, FiguresTypeOK
  <2> QED
    BY <1>2, <2>1, <2>2 DEF Renewed, FiguresTypeOK
<1>3. CASE Uncounted(t)
  <2>1. reads' \in [Readers -> ReaderStates]
    BY <1>0, <1>3, ReaderGoesOn DEF Uncounted, ReaderStates
  <2> QED
    BY <1>3, <2>1 DEF Uncounted, FiguresTypeOK
<1>4. CASE \E how \in Hows : Ends(t, p, how)
  <2>0. PICK how \in Hows : Ends(t, p, how)
    BY <1>4
  <2>1. reads' \in [Readers -> ReaderStates]
    <3>1. reads[t].unconfirmed \in BOOLEAN
      BY <1>0, <2>0, ReaderIs DEF Ends
    <3>2. /\ [at |-> "count", port |-> p, how |-> how, unconfirmed |-> reads[t].unconfirmed]
               \in ReaderStates
          /\ Idle \in ReaderStates
      BY <3>1 DEF ReaderStates
    <3> QED
      BY <1>0, <2>0, <3>2, ReaderGoesOn DEF Ends
  <2>2. ended' \in [Ports -> Passed]
    <3>1. \/ ended' = [ended EXCEPT ![p].sent = @ + 1]
          \/ ended' = [ended EXCEPT ![p].failed = @ + 1]
      BY <2>0 DEF Ends, Hows
    <3> QED
      BY <3>1, OneMoreTyped, Zenon
  <2>3. /\ index' \in [Ports -> [next : Nat, failed : SUBSET Nat]]
        /\ \A o \in Ports : index'[o].failed \subseteq 0 .. (index'[o].next - 1)
    <3>1. index' = index \/ index' = FailsAt(p)
      BY <2>0 DEF Ends, Hows, FailsAt
    <3> QED
      BY <3>1, IndexTyped DEF FiguresTypeOK
  <2>4. unanswered' \in Nat
    BY <2>0 DEF Ends, Answered, NotAnswered, FiguresTypeOK
  <2> QED
    BY <2>0, <2>1, <2>2, <2>3, <2>4 DEF Ends, FiguresTypeOK
<1> QED
  BY <1>1, <1>2, <1>3, <1>4 DEF Hows

LEMMA SettlesTyped ==
  ASSUME FiguresTypeOK, NEW t \in Threads, Settles(t)
  PROVE  FiguresTypeOK'
<1> USE DEF said, bounds
<1>0. t \in Readers
  BY DEF Readers
<1>1. CASE SettleFigures(t)
  <2> DEFINE p == reads[t].port
  <2>1. p \in Ports
    BY <1>0, <1>1, ReaderIs DEF SettleFigures
  <2>2. reads' \in [Readers -> ReaderStates]
    <3>1. /\ [at |-> "tell", port |-> p, how |-> "completed"] \in ReaderStates
          /\ [at |-> "places", port |-> p, afresh |-> FALSE] \in ReaderStates
      BY <2>1 DEF ReaderStates, Hows
    <3> QED
      BY <1>0, <1>1, <3>1, ReaderGoesOn DEF SettleFigures
  <2>3. figures' \in [Ports -> [sent : Nat, failed : Nat, unread : BOOLEAN]]
    <3>1. PICK o \in Ports : \/ figures' = [figures EXCEPT ![o].sent = @ + 1]
                            \/ figures' = [figures EXCEPT ![o].failed = @ + 1]
      BY <1>1, <2>1 DEF SettleFigures
    <3>2. /\ [figures EXCEPT ![o].sent = @ + 1] \in [Ports -> [sent : Nat, failed : Nat, unread : BOOLEAN]]
          /\ [figures EXCEPT ![o].failed = @ + 1] \in [Ports -> [sent : Nat, failed : Nat, unread : BOOLEAN]]
      BY OneMoreTyped
    <3> QED
      BY <3>1, <3>2
  <2> QED
    BY <1>1, <2>2, <2>3 DEF SettleFigures, FiguresTypeOK
<1>2. CASE Tell(t)
  <2>1. reads' \in [Readers -> ReaderStates]
    <3>1. Idle \in ReaderStates
      BY DEF ReaderStates
    <3> QED
      BY <1>0, <1>2, <3>1, ReaderGoesOn DEF Tell
  <2>2. tally' \in [refused : Nat, sent : Nat, notSent : Nat]
    <3>1. tally \in [refused : Nat, sent : Nat, notSent : Nat]
      BY DEF FiguresTypeOK
    <3>2. /\ [tally EXCEPT !.sent = @ + 1] \in [refused : Nat, sent : Nat, notSent : Nat]
          /\ [tally EXCEPT !.notSent = @ + 1] \in [refused : Nat, sent : Nat, notSent : Nat]
      BY <3>1
    <3> QED
      BY <1>2, <3>2 DEF Tell
  <2> QED
    BY <1>2, <2>1, <2>2 DEF Tell, FiguresTypeOK
<1> QED
  BY <1>1, <1>2 DEF Settles

LEMMA ReadsTyped ==
  ASSUME FiguresTypeOK, NEW r \in Readers, Reads(r)
  PROVE  FiguresTypeOK'
<1> USE DEF said, bounds
<1> DEFINE p == reads[r].port
<1>0. reads[r].at \in {"places", "read", "keep"} /\ p \in Ports /\ After(r) \in ReaderStates
  BY ReaderIs, AfterIs DEF Reads, Places, Read, Keep
<1>1. CASE Places(r)
  <2>1. [at |-> "read", port |-> p] \in ReaderStates
    BY <1>0 DEF ReaderStates
  <2>2. reads' \in [Readers -> ReaderStates]
    BY <1>0, <1>1, <2>1, ReaderGoesOn DEF Places
  <2>3. unanswered' \in Nat
    BY <1>1 DEF Places, Answered, NotAnswered, FiguresTypeOK
  <2> QED
    BY <1>1, <2>2, <2>3 DEF Places, FiguresTypeOK
<1>2. CASE Read(r)
  <2> DEFINE w == [at |-> <<index[p].next, Cardinality(index[p].failed)>>, oldest |-> Page(p, 0, Window)]
  <2>1. w \in Windows
    BY <1>0, WindowIs
  <2>2. reads' = [reads EXCEPT ![r] = [at |-> "keep", port |-> p, window |-> w]]
        \/ reads' = [reads EXCEPT ![r] = After(r)]
    BY <1>2 DEF Read
  <2> HIDE DEF w
  <2>3. [at |-> "keep", port |-> p, window |-> w] \in ReaderStates
    BY <1>0, <2>1 DEF ReaderStates
  <2>4. reads' \in [Readers -> ReaderStates]
    BY <1>0, <2>2, <2>3, ReaderGoesOn
  <2>5. unanswered' \in Nat
    BY <1>2 DEF Read, Answered, NotAnswered, FiguresTypeOK
  <2> QED
    BY <1>2, <2>4, <2>5 DEF Read, FiguresTypeOK
<1>3. CASE Keep(r)
  <2>1. reads' \in [Readers -> ReaderStates]
    BY <1>0, <1>3, ReaderGoesOn DEF Keep
  <2>2. reads[r].window \in Windows
    BY <1>3, ReaderIs DEF Keep
  <2>3. failing' \in [Ports -> Windows \cup {None}]
    BY <1>0, <1>3, <2>2 DEF Keep, FiguresTypeOK
  <2> QED
    BY <1>3, <2>1, <2>3 DEF Keep, FiguresTypeOK
<1> QED
  BY <1>1, <1>2, <1>3 DEF Reads

LEMMA IndexMovesTyped ==
  ASSUME FiguresTypeOK, NEW p \in Ports, NEW s,
         FailsElsewhere(p) \/ ActsOnFailed(p, s) \/ ActedElsewhere(p, s)
  PROVE  FiguresTypeOK'
<1> USE DEF said, bounds
<1>1. index' = FailsAt(p) \/ index' = LeavesAt(p, s)
  BY DEF FailsElsewhere, ActsOnFailed, ActedElsewhere, FailsAt, LeavesAt
<1>2. /\ index' \in [Ports -> [next : Nat, failed : SUBSET Nat]]
      /\ \A o \in Ports : index'[o].failed \subseteq 0 .. (index'[o].next - 1)
  BY <1>1, IndexTyped
<1>3. elsewhere' \in Nat
  <2>1. elsewhere \in Nat
    BY DEF FiguresTypeOK
  <2>2. elsewhere' = elsewhere + 1
    BY DEF FailsElsewhere, ActsOnFailed, ActedElsewhere
  <2> QED
    BY <2>1, <2>2
<1>4. listing' \in [port : Ports \cup {None}, from : Nat \cup {None}, got : Seq(Nat), through : SUBSET Nat]
  <2>1. listing \in [port : Ports \cup {None}, from : Nat \cup {None}, got : Seq(Nat), through : SUBSET Nat]
    BY DEF FiguresTypeOK
  <2>2. listing' = listing \/ \E T \in SUBSET listing.through : listing' = [listing EXCEPT !.through = T]
    BY DEF FailsElsewhere, ActsOnFailed, ActedElsewhere
  <2> QED
    BY <2>1, <2>2
<1>5. reads' \in [Readers -> ReaderStates]
  <2>1. CASE ActsOnFailed(p, s)
    <3>1. Operator \in Readers /\ [at |-> "places", port |-> p, afresh |-> TRUE] \in ReaderStates
      BY DEF Readers, ReaderStates
    <3> QED
      BY <2>1, <3>1, ReaderGoesOn DEF ActsOnFailed
  <2>2. CASE reads' = reads
    BY <2>2 DEF FiguresTypeOK
  <2> QED
    BY <2>1, <2>2 DEF FailsElsewhere, ActedElsewhere
<1>6. UNCHANGED <<ended, figures, failing, tally, making, published, read, down, file,
                  running, unanswered, bound>>
  BY DEF FailsElsewhere, ActsOnFailed, ActedElsewhere
<1> QED
  BY <1>2, <1>3, <1>4, <1>5, <1>6 DEF FiguresTypeOK

LEMMA ScansTyped ==
  ASSUME FiguresTypeOK, NEW p \in Ports, Scans(p)
  PROVE  FiguresTypeOK'
<1> USE DEF said, bounds
<1>1. Dispatching \in Readers /\ [at |-> "places", port |-> p, afresh |-> FALSE] \in ReaderStates
  BY DEF Readers, ReaderStates
<1>2. reads' \in [Readers -> ReaderStates]
  BY <1>1, ReaderGoesOn DEF Scans
<1> QED
  BY <1>2 DEF Scans, FiguresTypeOK

LEMMA ScannedTyped ==
  ASSUME FiguresTypeOK, Scanned
  PROVE  FiguresTypeOK'
<1> USE DEF said, bounds
<1> DEFINE p == reads[Dispatching].port
<1>1. Dispatching \in Readers /\ Idle \in ReaderStates
  BY DEF Readers, ReaderStates
<1>2. p \in Ports
  BY <1>1, ReaderIs DEF Scanned
<1>3. reads' \in [Readers -> ReaderStates]
  BY <1>1, ReaderGoesOn DEF Scanned
<1>4. figures' \in [Ports -> [sent : Nat, failed : Nat, unread : BOOLEAN]]
  <2>1. figures \in [Ports -> [sent : Nat, failed : Nat, unread : BOOLEAN]]
    BY DEF FiguresTypeOK
  <2>2. \A b \in BOOLEAN : QueueRead(p, b) \in [Ports -> [sent : Nat, failed : Nat, unread : BOOLEAN]]
    BY <1>2, <2>1 DEF QueueRead
  <2>3. figures' = figures \/ figures' = QueueRead(p, TRUE) \/ figures' = QueueRead(p, FALSE)
    BY DEF Scanned
  <2> QED
    BY <2>1, <2>2, <2>3
<1>5. unanswered' \in Nat
  <2>1. unanswered \in Nat
    BY DEF FiguresTypeOK
  <2>2. unanswered' = unanswered \/ unanswered' = unanswered + 1
    BY DEF Scanned, Answered, NotAnswered
  <2> QED
    BY <2>1, <2>2
<1>6. UNCHANGED <<index, ended, failing, tally, making, published, read, down, listing, file,
                  running, elsewhere, bound>>
  BY DEF Scanned
<1> QED
  BY <1>3, <1>4, <1>5, <1>6 DEF FiguresTypeOK

LEMMA RefusedTyped ==
  ASSUME FiguresTypeOK, Refused
  PROVE  FiguresTypeOK'
<1> USE DEF said, bounds
<1>1. tally \in [refused : Nat, sent : Nat, notSent : Nat]
  BY DEF FiguresTypeOK
<1>2. tally' \in [refused : Nat, sent : Nat, notSent : Nat]
  BY <1>1 DEF Refused
<1> QED
  BY <1>2 DEF Refused, FiguresTypeOK

LEMMA FigureIs ==
  ASSUME FiguresTypeOK, NEW p \in Ports, NEW fallen
  PROVE  Record(p, Figure(p), fallen) \in [mood : {"fine", "done", "blocked"}, failing : Nat]
<1> DEFINE w == failing[p]
           n == IF w = None THEN 0 ELSE w.at[2]
<1>1. w \in Windows \cup {None}
  BY DEF FiguresTypeOK
<1>2. n \in Nat
  BY <1>1 DEF Windows
<1>3. Figure(p).failing = n
  BY DEF Figure
<1>4. Mood(Figure(p)) \in {"fine", "done", "blocked"}
  BY <1>2, <1>3 DEF Mood
<1> QED
  BY <1>2, <1>3, <1>4 DEF Record

\* What is made of counts read.
LEMMA CountsIs ==
  ASSUME FiguresTypeOK, making.at = "outcomes"
  PROVE  Counts(tally, making.counted) \in Measured
<1> DEFINE ports == making.counted
           sent == [p \in Ports |-> ports[p].sent]
           failed == [p \in Ports |-> ports[p].failed]
<1>1. ports \in [Ports -> [sent : Nat, failed : Nat, unread : BOOLEAN]]
  BY MakingIs
<1>2. sent \in [Ports -> Nat] /\ failed \in [Ports -> Nat]
  BY <1>1
<1>3. tally \in [refused : Nat, sent : Nat, notSent : Nat]
  BY DEF FiguresTypeOK
<1>4. [p \in Ports |-> [sent |-> ports[p].sent, failed |-> ports[p].failed]] \in [Ports -> Passed]
  BY <1>1 DEF Passed
<1>5. Sum(sent) \in Nat /\ Sum(failed) \in Nat
  BY <1>2, EachFinite
<1>6. Counts(tally, ports) =
        [sent |-> Monus(tally.sent, Sum(sent)), failed |-> Monus(tally.refused + tally.notSent, Sum(failed)),
         ports |-> [p \in Ports |-> [sent |-> ports[p].sent, failed |-> ports[p].failed]]]
  BY DEF Counts
<1> HIDE DEF sent, failed, ports
<1>7. Monus(tally.sent, Sum(sent)) \in Nat
      /\ Monus(tally.refused + tally.notSent, Sum(failed)) \in Nat
  BY <1>3, <1>5 DEF Monus
<1>8. Counts(tally, ports) \in Measured
  BY <1>4, <1>6, <1>7 DEF Measured
<1> QED
  BY <1>8 DEF ports

LEMMA MakesTyped ==
  ASSUME FiguresTypeOK, Begins \/ Makes
  PROVE  FiguresTypeOK'
<1> USE DEF send, bounds
<1>0. UNCHANGED <<index, ended, figures, failing, tally, reads, down, listing, file, running,
                  unanswered, elsewhere, bound>>
  BY DEF Makes, Begins, Records, CountsFigures, CountsOutcomes, Returns
<1>1. making' \in Makings /\ read' \in [time : Nat, held : Nat] \cup {None}
      /\ published' \in Publications \cup {None}
  <2>0. /\ tally \in [refused : Nat, sent : Nat, notSent : Nat] /\ file \in Nat
        /\ read \in [time : Nat, held : Nat] \cup {None}
        /\ published \in Publications \cup {None} /\ down \in SUBSET Ports
        /\ figures \in [Ports -> [sent : Nat, failed : Nat, unread : BOOLEAN]]
    BY DEF FiguresTypeOK
  <2>1. CASE Begins
    <3>1. tally.sent \in Nat /\ tally.refused + tally.notSent \in Nat
      BY <2>0
    <3>2. [sent |-> tally.sent, failed |-> tally.refused + tally.notSent] \in Passed
      BY <3>1 DEF Passed
    <3>3. making' \in Makings
      BY <2>0, <2>1, <3>2 DEF Begins, Makings
    <3> QED
      BY <2>0, <2>1, <3>3 DEF Begins
  <2>2. CASE Records
    <3>1. making.time \in Nat /\ making.since \in Passed
      BY <2>2, MakingIs DEF Records
    <3>2. read' \in [time : Nat, held : Nat]
      BY <2>0, <2>2, <3>1, FiguresAssumption DEF Records, Current, Held
    <3>3. [p \in Ports |-> Record(p, Figure(p), making.fallen)] \in Shown
      BY FigureIs DEF Shown
    <3>4. making' = [at |-> "figures", since |-> making.since, certificate |-> read'.held,
                     ports |-> [p \in Ports |-> Record(p, Figure(p), making.fallen)]]
      BY <2>2 DEF Records
    <3>5. making' \in Makings
      BY <3>1, <3>2, <3>3, <3>4 DEF Makings
    <3> QED
      BY <2>0, <2>2, <3>2, <3>5 DEF Records
  <2>3. CASE CountsFigures
    <3>1. making \in [at : {"figures"}, since : Passed, certificate : Nat, ports : Shown]
      BY <2>3, MakingIs DEF CountsFigures
    <3>2. making' \in Makings
      BY <2>0, <2>3, <3>1 DEF CountsFigures, Makings
    <3> QED
      BY <2>0, <2>3, <3>2 DEF CountsFigures
  <2>4. CASE CountsOutcomes
    <3>1. making.since \in Passed /\ making.certificate \in Nat /\ making.ports \in Shown
      BY <2>4, MakingIs DEF CountsOutcomes
    <3>2. Counts(tally, making.counted) \in Measured
      BY <2>4, CountsIs DEF CountsOutcomes
    <3>3. [node |-> "fine", certificate |-> making.certificate,
           ports |-> making.ports, counts |-> Counts(tally, making.counted)] \in Publications
      BY <3>1, <3>2 DEF Publications
    <3>4. making' \in Makings
      BY <2>4, <3>1, <3>3 DEF CountsOutcomes, Makings
    <3> QED
      BY <2>0, <2>4, <3>4 DEF CountsOutcomes
  <2>5. CASE Returns
    <3>1. making.what \in Publications
      BY <2>5, MakingIs DEF Returns
    <3>2. making' \in Makings /\ published' \in Publications
      BY <2>5, <3>1 DEF Returns, Makings
    <3> QED
      BY <2>0, <2>5, <3>2 DEF Returns
  <2> QED
    BY <2>1, <2>2, <2>3, <2>4, <2>5 DEF Makes
<1> QED
  BY <1>0, <1>1 DEF FiguresTypeOK

LEMMA StopsTyped ==
  ASSUME FiguresTypeOK, Stops
  PROVE  FiguresTypeOK'
<1> USE DEF send, bounds
<1>1. published \in Publications
  BY DEF Stops, FiguresTypeOK
<1>2. Stopped(published) \in Publications
  <2>1. published.ports \in Shown
    BY <1>1 DEF Publications
  <2>2. [p \in Ports |-> [published.ports[p] EXCEPT !.mood = "done"]] \in Shown
    BY <2>1 DEF Shown
  <2>3. Stopped(published) =
          [published EXCEPT !.node = "done",
                            !.ports = [p \in Ports |-> [published.ports[p] EXCEPT !.mood = "done"]]]
    BY <1>1 DEF Stopped, Publications
  <2> QED
    BY <1>1, <2>2, <2>3 DEF Publications
<1>3. published' \in Publications
  BY <1>2 DEF Stops
<1> QED
  BY <1>3 DEF Stops, FiguresTypeOK

LEMMA SurfaceTyped ==
  ASSUME FiguresTypeOK, Imports \/ ListsOn \/ \E p \in Ports : Lists(p) \/ LocationStops(p)
  PROVE  FiguresTypeOK'
<1> USE DEF send, said, bounds
<1>1. CASE Imports
  BY <1>1 DEF Imports, FiguresTypeOK
<1>2. ASSUME NEW p \in Ports, LocationStops(p) PROVE FiguresTypeOK'
  <2>1. down' \subseteq Ports
    BY <1>2 DEF LocationStops, FiguresTypeOK
  <2> QED
    BY <1>2, <2>1 DEF LocationStops, FiguresTypeOK
<1>3. ASSUME NEW p \in Ports, Lists(p) PROVE FiguresTypeOK'
  <2>1. listing' \in [port : Ports \cup {None}, from : Nat \cup {None}, got : Seq(Nat), through : SUBSET Nat]
    BY <1>3, FailedFinite DEF Lists
  <2> QED
    BY <1>3, <2>1 DEF Lists, FiguresTypeOK
<1>4. CASE ListsOn
  <2> DEFINE p == listing.port
             page == Page(p, listing.from, Most)
  <2>1. /\ listing \in [port : Ports \cup {None}, from : Nat \cup {None}, got : Seq(Nat), through : SUBSET Nat]
        /\ p \in Ports /\ listing.from \in Nat
    BY <1>4 DEF ListsOn, FiguresTypeOK
  <2>2. page \in Seq(Nat)
    BY <2>1, PageIs, FiguresAssumption
  <2>3. NextPage(p, listing.from, page) \in Nat \cup {None}
    <3>1. Most \in Nat \ {0}
      BY FiguresAssumption
    <3> HIDE DEF page, p
    <3>2. Len(page) >= Most => Len(page) \in 1 .. Len(page)
      BY <2>2, <3>1
    <3>3. Len(page) >= Most => page[Len(page)] \in Nat
      BY <2>2, <3>2
    <3> QED
      BY <3>3 DEF NextPage, Last
  <2>4. listing' = [listing EXCEPT !.from = NextPage(p, listing.from, page), !.got = listing.got \o page]
    BY <1>4, <2>1 DEF ListsOn
  <2> HIDE DEF page, p
  <2>5. listing.got \o page \in Seq(Nat)
    BY <2>1, <2>2
  <2>6. listing' \in [port : Ports \cup {None}, from : Nat \cup {None}, got : Seq(Nat), through : SUBSET Nat]
    BY <2>1, <2>3, <2>4, <2>5
  <2> QED
    BY <1>4, <2>6 DEF ListsOn, FiguresTypeOK
<1> QED
  BY <1>1, <1>2, <1>3, <1>4

LEMMA StepTyped ==
  ASSUME FiguresTypeOK, [FiguresNext]_figuresVars
  PROVE  FiguresTypeOK'
<1>1. ASSUME NEW t \in Threads, NEW p \in Ports, NEW how \in {"completed", "failed"}, Ends(t, p, how)
      PROVE  FiguresTypeOK'
  BY <1>1, SendsTyped
<1>2. ASSUME NEW t \in Threads, NEW p \in Ports, Takes(t, p) PROVE FiguresTypeOK'
  BY <1>2, SendsTyped
<1>3. ASSUME NEW t \in Threads, Settles(t) \/ Renewed(t) \/ Uncounted(t) PROVE FiguresTypeOK'
  <2>1. CASE Settles(t)
    BY <2>1, SettlesTyped
  <2>2. CASE Renewed(t) \/ Uncounted(t)
    <3>1. t \in Readers
      BY DEF Readers
    <3>2. reads[t].port \in Ports
      BY <2>2, <3>1, ReaderIs DEF Renewed, Uncounted
    <3> QED
      BY <2>2, <3>2, SendsTyped
  <2> QED
    BY <1>3, <2>1, <2>2
<1>4. ASSUME NEW r \in Readers, Reads(r) PROVE FiguresTypeOK'
  BY <1>4, ReadsTyped
<1>5. ASSUME NEW p \in Ports, Scans(p) \/ FailsElsewhere(p) \/ Lists(p) \/ LocationStops(p) PROVE FiguresTypeOK'
  BY <1>5, ScansTyped, IndexMovesTyped, SurfaceTyped
<1>6. ASSUME NEW p \in Ports, NEW s \in index[p].failed, ActsOnFailed(p, s) \/ ActedElsewhere(p, s)
      PROVE  FiguresTypeOK'
  BY <1>6, IndexMovesTyped
<1>7. CASE Scanned \/ Refused \/ Begins \/ Makes \/ Imports \/ Stops \/ ListsOn
  BY <1>7, ScannedTyped, RefusedTyped, MakesTyped, StopsTyped, SurfaceTyped
<1>8. CASE UNCHANGED figuresVars
  BY <1>8 DEF figuresVars, FiguresTypeOK
<1> QED
  BY <1>1, <1>2, <1>3, <1>4, <1>5, <1>6, <1>7, <1>8 DEF FiguresNext

LEMMA InitTyped ==
  ASSUME FiguresInit
  PROVE  FiguresTypeOK
<1>1. bound \in Bounds /\ bound.before \in Nat
  BY FiguresAssumption DEF FiguresInit
<1>2. index \in [Ports -> [next : Nat, failed : SUBSET Nat]]
  BY <1>1 DEF FiguresInit
<1>3. \A p \in Ports : index[p].failed \subseteq 0 .. (index[p].next - 1)
  BY <1>1 DEF FiguresInit
<1>4. ended \in [Ports -> Passed] /\ figures \in [Ports -> [sent : Nat, failed : Nat, unread : BOOLEAN]]
      /\ failing \in [Ports -> Windows \cup {None}]
  BY DEF FiguresInit, Passed
<1>5. reads \in [Readers -> ReaderStates]
  BY DEF FiguresInit, ReaderStates
<1>6. listing \in [port : Ports \cup {None}, from : Nat \cup {None}, got : Seq(Nat), through : SUBSET Nat]
  BY DEF FiguresInit
<1>7. making \in Makings /\ tally \in [refused : Nat, sent : Nat, notSent : Nat]
  BY DEF FiguresInit, Makings
<1> QED
  BY <1>1, <1>2, <1>3, <1>4, <1>5, <1>6, <1>7 DEF FiguresInit, FiguresTypeOK

\* The node's figures, windows, publications and listings keep their types.
THEOREM FiguresTypes == FiguresSpec => []FiguresTypeOK
<1>1. FiguresInit => FiguresTypeOK
  BY InitTyped
<1>2. FiguresTypeOK /\ [FiguresNext]_figuresVars => FiguresTypeOK'
  BY StepTyped
<1> QED
  BY <1>1, <1>2, PTL DEF FiguresSpec

----------------------------------------------------------------------------
(* The listing.                                                            *)

\* A page listed: what is listed stays in order, and has all that waits
\* before the place the next one reads from.
LEMMA ListsOnKeeps ==
  ASSUME FiguresTypeOK, ListInv, ListsOn
  PROVE  ListInv'
<1> USE DEF send, said, bounds
<1> DEFINE p == listing.port
           from == listing.from
           got == listing.got
           page == Page(p, from, Most)
           next == NextPage(p, from, page)
           all == got \o page
<1>1. /\ listing \in [port : Ports \cup {None}, from : Nat \cup {None}, got : Seq(Nat), through : SUBSET Nat]
      /\ p \in Ports /\ from \in Nat /\ from # None /\ p # None /\ got \in Seq(Nat)
  BY DEF ListsOn, FiguresTypeOK
<1>2. /\ listing.through \subseteq index[p].failed
      /\ \A i, k \in DOMAIN got : i < k => got[i] < got[k]
      /\ \A i \in DOMAIN got : got[i] < from
      /\ \A s \in listing.through : s < from => s \in Range(got)
  BY <1>1 DEF ListInv
<1>3. /\ page \in Seq(Nat) /\ Len(page) <= Most
      /\ \A i \in 1 .. Len(page) : page[i] \in index[p].failed /\ page[i] >= from
      /\ \A i, k \in 1 .. Len(page) : i < k => page[i] < page[k]
      /\ \A s \in index[p].failed :
           s >= from /\ (Len(page) < Most \/ s <= page[Len(page)]) =>
             \E i \in 1 .. Len(page) : page[i] = s
  <2>1. Most \in Nat \ {0} /\ p \in Ports /\ from \in Nat
    BY <1>1, FiguresAssumption
  <2> HIDE DEF p, from
  <2> QED
    BY <2>1, PageIs, Zenon
<1>4. /\ listing'.port = p /\ listing'.from = next /\ listing'.got = all
      /\ listing'.through = listing.through /\ index' = index
  <2>1. listing' = [listing EXCEPT !.from = next, !.got = all] /\ index' = index
    BY <1>1 DEF ListsOn
  <2> QED
    BY <1>1, <2>1
<1>5. Most \in Nat \ {0} /\ None \notin Nat
  BY FiguresAssumption
<1>6. /\ index[p].next \in Nat /\ index[p].failed \subseteq 0 .. (index[p].next - 1)
  BY <1>1, FailedFinite
<1>7. next = IF Len(page) >= Most /\ page[Len(page)] + 1 < index[p].next
               THEN page[Len(page)] + 1 ELSE None
  BY DEF NextPage, Last
<1> HIDE DEF p, from, got, page, next
<1>8. /\ Len(got) \in Nat /\ Len(page) \in Nat /\ Len(all) = Len(got) + Len(page) /\ all \in Seq(Nat)
      /\ DOMAIN got = 1 .. Len(got) /\ DOMAIN all = 1 .. Len(all)
      /\ \A i \in 1 .. Len(got) : all[i] = got[i]
      /\ \A i \in 1 .. Len(page) : all[Len(got) + i] = page[i]
  BY <1>1, <1>3
<1> HIDE DEF all
<1>9. \A i \in 1 .. Len(all) : \/ i \in 1 .. Len(got) /\ all[i] = got[i]
                               \/ i - Len(got) \in 1 .. Len(page) /\ all[i] = page[i - Len(got)]
  <2> SUFFICES ASSUME NEW i \in 1 .. Len(all), i \notin 1 .. Len(got)
               PROVE  i - Len(got) \in 1 .. Len(page) /\ all[i] = page[i - Len(got)]
    BY <1>8
  <2>1. i - Len(got) \in 1 .. Len(page) /\ Len(got) + (i - Len(got)) = i
    BY <1>8
  <2> QED
    BY <1>8, <2>1
<1>10. \A i \in 1 .. Len(got) : got[i] \in Nat /\ got[i] < from
  <2>1. \A i \in 1 .. Len(got) : got[i] \in Nat
    BY <1>1
  <2>2. \A i \in 1 .. Len(got) : got[i] < from
    BY <1>2, <1>8
  <2> QED
    BY <2>1, <2>2
<1>11. \A i \in 1 .. Len(page) : page[i] \in Nat /\ page[i] >= from
  BY <1>3
<1>12. \A i, k \in DOMAIN all : i < k => all[i] < all[k]
  <2> SUFFICES ASSUME NEW i \in 1 .. Len(all), NEW k \in 1 .. Len(all), i < k PROVE all[i] < all[k]
    BY <1>8
  <2>1. CASE k \in 1 .. Len(got) /\ all[k] = got[k]
    <3>1. i \in 1 .. Len(got) /\ all[i] = got[i]
      BY <1>8, <2>1
    <3> QED
      BY <1>2, <1>8, <2>1, <3>1
  <2>2. CASE k - Len(got) \in 1 .. Len(page) /\ all[k] = page[k - Len(got)]
    <3>1. CASE i \in 1 .. Len(got) /\ all[i] = got[i]
      <4>1. all[i] \in Nat /\ all[i] < from /\ all[k] \in Nat /\ all[k] >= from
        BY <1>10, <1>11, <2>2, <3>1
      <4> QED
        BY <1>1, <4>1
    <3>2. CASE i - Len(got) \in 1 .. Len(page) /\ all[i] = page[i - Len(got)]
      <4>1. i - Len(got) < k - Len(got)
        BY <1>8
      <4> QED
        BY <1>3, <2>2, <3>2, <4>1
    <3> QED
      BY <1>9, <3>1, <3>2
  <2> QED
    BY <1>9, <2>1, <2>2
<1>13. \A i \in 1 .. Len(page) : page[i] <= page[Len(page)]
  <2> SUFFICES ASSUME NEW i \in 1 .. Len(page) PROVE page[i] <= page[Len(page)]
    OBVIOUS
  <2>1. Len(page) \in 1 .. Len(page) /\ (i = Len(page) \/ i < Len(page))
    BY <1>8
  <2>2. page[i] \in Nat /\ page[Len(page)] \in Nat
    BY <1>11, <2>1
  <2> QED
    BY <1>3, <2>1, <2>2
<1>14. next # None => \A i \in DOMAIN all : all[i] < next
  <2> SUFFICES ASSUME next # None, NEW i \in 1 .. Len(all) PROVE all[i] < next
    BY <1>8
  <2>1. Len(page) >= Most /\ next = page[Len(page)] + 1
    BY <1>7
  <2>2. Len(page) \in 1 .. Len(page)
    BY <1>5, <1>8, <2>1
  <2>3. page[Len(page)] \in Nat /\ page[Len(page)] >= from
    BY <1>11, <2>2
  <2>4. all[i] \in Nat /\ all[i] <= page[Len(page)]
    <3>1. CASE i \in 1 .. Len(got) /\ all[i] = got[i]
      <4>1. all[i] \in Nat /\ all[i] < from
        BY <1>10, <3>1
      <4> QED
        BY <1>1, <2>3, <4>1
    <3>2. CASE i - Len(got) \in 1 .. Len(page) /\ all[i] = page[i - Len(got)]
      BY <1>11, <1>13, <3>2
    <3> QED
      BY <1>9, <3>1, <3>2
  <2> QED
    BY <2>1, <2>3, <2>4
<1>15. ASSUME NEW s \in listing.through, next = None \/ s < next PROVE s \in Range(all)
  <2>0. s \in index[p].failed /\ s \in Nat /\ s < index[p].next
    BY <1>2, <1>6
  <2>1. CASE s < from
    <3>1. PICK i \in 1 .. Len(got) : got[i] = s
      BY <1>2, <1>8, <2>1 DEF Range
    <3>2. i \in DOMAIN all /\ all[i] = s
      BY <1>8, <3>1
    <3> QED
      BY <3>2 DEF Range
  <2>2. CASE ~(s < from)
    <3>1. s >= from
      BY <1>1, <2>0, <2>2
    <3>2. Len(page) < Most \/ s <= page[Len(page)]
      <4> SUFFICES ASSUME Len(page) >= Most PROVE s <= page[Len(page)]
        BY <1>5, <1>8
      <4>1. Len(page) \in 1 .. Len(page)
        BY <1>5, <1>8
      <4>2. page[Len(page)] \in Nat
        BY <1>11, <4>1
      <4>3. CASE page[Len(page)] + 1 < index[p].next
        <5>1. next = page[Len(page)] + 1 /\ next \in Nat
          BY <1>7, <4>2, <4>3
        <5> QED
          BY <1>5, <1>15, <2>0, <4>2, <5>1
      <4>4. CASE ~(page[Len(page)] + 1 < index[p].next)
        BY <1>6, <2>0, <4>2, <4>4
      <4> QED
        BY <4>3, <4>4
    <3>3. PICK i \in 1 .. Len(page) : page[i] = s
      BY <1>3, <2>0, <3>1, <3>2
    <3>4. Len(got) + i \in DOMAIN all /\ all[Len(got) + i] = s
      BY <1>8, <3>3
    <3> QED
      BY <3>4 DEF Range
  <2> QED
    BY <2>1, <2>2
<1> QED
  BY <1>2, <1>4, <1>12, <1>14, <1>15 DEF ListInv

LEMMA ListKept ==
  ASSUME FiguresTypeOK, ListInv, [FiguresNext]_figuresVars
  PROVE  ListInv'
<1>1. CASE ListsOn
  BY <1>1, ListsOnKeeps
<1>2. ASSUME NEW p \in Ports, Lists(p) PROVE ListInv'
  <2>1. /\ listing' = [port |-> p, from |-> 0, got |-> <<>>, through |-> index[p].failed]
        /\ index' = index
    BY <1>2 DEF Lists, send
  <2>2. \A s \in index[p].failed : s \in Nat
    BY FailedFinite
  <2>3. 0 # None
    BY FiguresAssumption
  <2>4. \A s \in index[p].failed : ~(s < 0)
    BY <2>2
  <2>5. DOMAIN listing'.got = {}
    BY <2>1
  <2> QED
    BY <2>1, <2>3, <2>4, <2>5 DEF ListInv
<1>3. ASSUME listing' = listing, index' = index PROVE ListInv'
  BY <1>3 DEF ListInv
<1>4. ASSUME NEW p \in Ports, index' = FailsAt(p), listing' = listing PROVE ListInv'
  <2>1. \A o \in Ports : index[o].failed \subseteq index'[o].failed
    BY <1>4, IndexTyped
  <2>2. listing.port # None => listing.port \in Ports
    BY DEF FiguresTypeOK
  <2> QED
    BY <1>4, <2>1, <2>2 DEF ListInv
<1>5. ASSUME NEW p \in Ports, NEW s \in index[p].failed, ActsOnFailed(p, s) \/ ActedElsewhere(p, s)
      PROVE  ListInv'
  <2>1. /\ index' = LeavesAt(p, s)
        /\ listing' = [listing EXCEPT !.through = IF listing.port = p THEN listing.through \ {s}
                                                                      ELSE listing.through]
    BY <1>5 DEF ActsOnFailed, ActedElsewhere, LeavesAt
  <2>2. /\ \A o \in Ports : o # p => index'[o] = index[o]
        /\ index'[p].failed = index[p].failed \ {s}
    BY <2>1, IndexTyped
  <2>3. listing \in [port : Ports \cup {None}, from : Nat \cup {None}, got : Seq(Nat), through : SUBSET Nat]
    BY DEF FiguresTypeOK
  <2>4. /\ listing'.port = listing.port /\ listing'.from = listing.from /\ listing'.got = listing.got
        /\ listing'.through = IF listing.port = p THEN listing.through \ {s} ELSE listing.through
    BY <2>1, <2>3
  <2>5. listing.port # None => listing.port \in Ports
    BY <2>3
  <2> QED
    BY <2>2, <2>4, <2>5 DEF ListInv
<1>6. ASSUME NEW t \in Threads, NEW p \in Ports, NEW how \in {"completed", "failed"}, Ends(t, p, how)
      PROVE  ListInv'
  <2>1. (index' = index \/ index' = FailsAt(p)) /\ listing' = listing
    BY <1>6 DEF Ends, FailsAt
  <2> QED
    BY <1>3, <1>4, <2>1
<1>7. ASSUME NEW t \in Threads, NEW p \in Ports, Takes(t, p) PROVE ListInv'
  BY <1>3, <1>7 DEF Takes
<1>8. ASSUME NEW t \in Threads, Settles(t) \/ Renewed(t) \/ Uncounted(t) PROVE ListInv'
  BY <1>3, <1>8 DEF Settles, SettleFigures, Tell, Renewed, Uncounted
<1>9. ASSUME NEW r \in Readers, Reads(r) PROVE ListInv'
  BY <1>3, <1>9 DEF Reads, Places, Read, Keep
<1>10. ASSUME NEW p \in Ports, Scans(p) \/ FailsElsewhere(p) \/ LocationStops(p) PROVE ListInv'
  BY <1>3, <1>4, <1>10 DEF Scans, FailsElsewhere, LocationStops, FailsAt, send
<1>11. CASE Scanned \/ Refused \/ Begins \/ Makes \/ Imports \/ Stops
  BY <1>3, <1>11 DEF Scanned, Refused, Makes, Begins, Records, CountsFigures, CountsOutcomes, Returns,
                     Imports, Stops, send
<1>12. CASE UNCHANGED figuresVars
  BY <1>3, <1>12 DEF figuresVars
<1> QED
  BY <1>1, <1>2, <1>5, <1>6, <1>7, <1>8, <1>9, <1>10, <1>11, <1>12 DEF FiguresNext

LEMMA ListedOnce ==
  ASSUME FiguresTypeOK, ListInv
  PROVE  EachListedOnce
<1> SUFFICES ASSUME listing.port # None
             PROVE  /\ \A i, k \in DOMAIN listing.got : listing.got[i] = listing.got[k] => i = k
                    /\ listing.from = None => listing.through \subseteq Range(listing.got)
  BY DEF EachListedOnce
<1>1. listing.got \in Seq(Nat)
  BY DEF FiguresTypeOK
<1>2. \A i, k \in DOMAIN listing.got : i < k => listing.got[i] < listing.got[k]
  BY DEF ListInv
<1>3. ASSUME NEW i \in DOMAIN listing.got, NEW k \in DOMAIN listing.got, listing.got[i] = listing.got[k]
      PROVE  i = k
  <2>1. i \in Int /\ k \in Int /\ listing.got[i] \in Int /\ listing.got[k] \in Int
    BY <1>1
  <2>2. ~(i < k) /\ ~(k < i)
    BY <1>2, <1>3, <2>1
  <2> QED
    BY <2>1, <2>2
<1> QED
  BY <1>3 DEF ListInv

\* However many pages a surface asks for, and whatever fails, is retried or
\* dismissed between them, a listing of a Port's failed Messages has each one
\* that waits throughout it, once (failed.rs:25-53).
THEOREM ListingsHold == FiguresSpec => []EachListedOnce
<1>1. FiguresInit => ListInv
  BY DEF FiguresInit, ListInv
<1>2. FiguresTypeOK /\ ListInv /\ [FiguresNext]_figuresVars => ListInv'
  BY ListKept
<1>3. FiguresTypeOK /\ ListInv => EachListedOnce
  BY ListedOnce
<1> QED
  BY <1>1, <1>2, <1>3, FiguresTypes, PTL DEF FiguresSpec

----------------------------------------------------------------------------
(* What is counted, and what is published of it.                           *)

One(b) == IF b THEN 1 ELSE 0

InCount(s, p, how) == s.at = "count" /\ s.port = p /\ s.how = how
InTell(s, how) ==
  \/ s.at = "tell" /\ s.how = how
  \/ how = "failed" /\ s.at \in {"places", "read", "keep"}

\* One taken out of a set or put into it.
LEMMA OneMoved ==
  ASSUME NEW S, NEW T, NEW t, NEW b \in BOOLEAN, IsFiniteSet(S),
         T = {u \in S : u # t} \cup (IF b THEN {t} ELSE {})
  PROVE  /\ Cardinality(S) \in Nat
         /\ Cardinality(T) = Cardinality(S) - One(t \in S) + One(b)
<1>1. Cardinality(S) \in Nat /\ {u \in S : u # t} = S \ {t}
  BY FS_CardinalityType
<1>2. IsFiniteSet(S \ {t}) /\ Cardinality(S \ {t}) = IF t \in S THEN Cardinality(S) - 1 ELSE Cardinality(S)
  BY FS_RemoveElement
<1>3. Cardinality(S \ {t}) \in Nat
  BY <1>2, FS_CardinalityType
<1>4. CASE b
  <2>1. T = (S \ {t}) \cup {t} /\ t \notin S \ {t}
    BY <1>1, <1>4
  <2>2. Cardinality(T) = Cardinality(S \ {t}) + 1
    BY <1>2, <2>1, FS_AddElement
  <2> QED
    BY <1>1, <1>2, <1>4, <2>2 DEF One
<1>5. CASE ~b
  <2>1. T = S \ {t}
    BY <1>1, <1>5
  <2> QED
    BY <1>1, <1>2, <1>5, <2>1 DEF One
<1> QED
  BY <1>4, <1>5

LEMMA ThreadsFinite ==
  ASSUME NEW p, NEW how
  PROVE  /\ IsFiniteSet(Counting(p, how)) /\ Cardinality(Counting(p, how)) \in Nat
         /\ IsFiniteSet(Telling(how)) /\ Cardinality(Telling(how)) \in Nat
<1>1. Counting(p, how) \in SUBSET Threads /\ Telling(how) \in SUBSET Threads /\ IsFiniteSet(Threads)
  BY FiguresAssumption DEF Counting, Telling
<1> QED
  BY <1>1, FS_Subset, FS_CardinalityType

\* A thread goes on: what it leaves and what it comes to is all that changes.
LEMMA ThreadMoves ==
  ASSUME FiguresTypeOK, NEW t \in Threads, NEW s, reads' = [reads EXCEPT ![t] = s],
         NEW p \in Ports, NEW how \in Hows
  PROVE  /\ Cardinality(Counting(p, how)') =
              Cardinality(Counting(p, how)) - One(InCount(reads[t], p, how)) + One(InCount(s, p, how))
         /\ Cardinality(Telling(how)') =
              Cardinality(Telling(how)) - One(InTell(reads[t], how)) + One(InTell(s, how))
<1>1. /\ reads'[t] = s /\ \A u \in Threads : u # t => reads'[u] = reads[u]
  BY DEF FiguresTypeOK, Readers
<1>2. Counting(p, how)' = {u \in Counting(p, how) : u # t}
                            \cup (IF InCount(s, p, how) THEN {t} ELSE {})
  BY <1>1 DEF Counting, InCount
<1>3. Telling(how)' = {u \in Telling(how) : u # t} \cup (IF InTell(s, how) THEN {t} ELSE {})
  BY <1>1 DEF Telling, InTell
<1>4. /\ t \in Counting(p, how) <=> InCount(reads[t], p, how)
      /\ t \in Telling(how) <=> InTell(reads[t], how)
  BY DEF Counting, InCount, Telling, InTell
<1>5. InCount(s, p, how) \in BOOLEAN /\ InTell(s, how) \in BOOLEAN
  BY DEF InCount, InTell
<1>6. Cardinality(Counting(p, how)') =
        Cardinality(Counting(p, how)) - One(t \in Counting(p, how)) + One(InCount(s, p, how))
  BY <1>2, <1>5, ThreadsFinite, OneMoved
<1>7. Cardinality(Telling(how)') =
        Cardinality(Telling(how)) - One(t \in Telling(how)) + One(InTell(s, how))
  BY <1>3, <1>5, ThreadsFinite, OneMoved
<1>8. /\ One(t \in Counting(p, how)) = One(InCount(reads[t], p, how))
      /\ One(t \in Telling(how)) = One(InTell(reads[t], how))
  BY <1>4 DEF One
<1> QED
  BY <1>6, <1>7, <1>8, Zenon

SentAt == [p \in Ports |-> figures[p].sent]
FailedAt == [p \in Ports |-> figures[p].failed]

LEMMA CountedIs ==
  ASSUME FiguresTypeOK
  PROVE  /\ SentAt \in [Ports -> Nat] /\ FailedAt \in [Ports -> Nat]
         /\ Sum(SentAt) \in Nat /\ Sum(FailedAt) \in Nat
         /\ \A p \in Ports : /\ ended[p].sent \in Nat /\ ended[p].failed \in Nat
                             /\ figures[p].sent \in Nat /\ figures[p].failed \in Nat
         /\ tally.sent \in Nat /\ tally.notSent \in Nat /\ tally.refused \in Nat
<1>1. SentAt \in [Ports -> Nat] /\ FailedAt \in [Ports -> Nat]
  BY DEF FiguresTypeOK, SentAt, FailedAt
<1>2. Sum(SentAt) \in Nat /\ Sum(FailedAt) \in Nat
  BY <1>1, EachFinite
<1>3. \A p \in Ports : figures[p].sent \in Nat /\ figures[p].failed \in Nat
  BY DEF FiguresTypeOK
<1>4. \A p \in Ports : ended[p].sent \in Nat /\ ended[p].failed \in Nat
  BY DEF FiguresTypeOK, Passed
<1>5. tally.sent \in Nat /\ tally.notSent \in Nat /\ tally.refused \in Nat
  BY DEF FiguresTypeOK
<1> QED
  BY <1>1, <1>2, <1>3, <1>4, <1>5

\* Nothing is ended, counted or told, and no thread leaves or comes to where it
\* has to.
LEMMA CountStands ==
  ASSUME FiguresTypeOK, TalliedInv,
         tally'.sent = tally.sent, tally'.notSent = tally.notSent, ended' = ended,
         \A p \in Ports : figures'[p].sent = figures[p].sent /\ figures'[p].failed = figures[p].failed,
         \A t \in Threads :
           \/ reads'[t] = reads[t]
           \/ /\ \A p \in Ports, how \in Hows : ~InCount(reads[t], p, how) /\ ~InCount(reads'[t], p, how)
              /\ \A how \in Hows : InTell(reads[t], how) <=> InTell(reads'[t], how)
  PROVE  TalliedInv'
<1>1. \A p \in Ports, how \in Hows : Counting(p, how)' = Counting(p, how)
  BY DEF Counting, InCount
<1>2. \A how \in Hows : Telling(how)' = Telling(how)
  <2> SUFFICES ASSUME NEW how \in Hows, NEW t \in Threads
               PROVE  InTell(reads'[t], how) <=> InTell(reads[t], how)
    BY DEF Telling, InTell
  <2> QED
    OBVIOUS
<1>3. /\ [p \in Ports |-> figures'[p].sent] = [p \in Ports |-> figures[p].sent]
      /\ [p \in Ports |-> figures'[p].failed] = [p \in Ports |-> figures[p].failed]
  OBVIOUS
<1>4. "completed" \in Hows /\ "failed" \in Hows
  BY DEF Hows
<1>5. \A p \in Ports :
        /\ ended'[p].sent >= figures'[p].sent + Cardinality(Counting(p, "completed")')
        /\ ended'[p].failed >= figures'[p].failed + Cardinality(Counting(p, "failed")')
  BY <1>1, <1>4 DEF TalliedInv
<1>6. /\ Sum([p \in Ports |-> figures'[p].sent]) = tally'.sent + Cardinality(Telling("completed")')
      /\ Sum([p \in Ports |-> figures'[p].failed]) = tally'.notSent + Cardinality(Telling("failed")')
  BY <1>2, <1>3, <1>4 DEF TalliedInv
<1>7. /\ Sum([p \in Ports |-> figures[p].sent])' = Sum([p \in Ports |-> figures'[p].sent])
      /\ Sum([p \in Ports |-> figures[p].failed])' = Sum([p \in Ports |-> figures'[p].failed])
  BY DEF Sum, Each
<1> QED
  BY <1>5, <1>6, <1>7 DEF TalliedInv

LEMMA EndsKeepsCount ==
  ASSUME FiguresTypeOK, TalliedInv, NEW t \in Threads, NEW p \in Ports, NEW how \in Hows, Ends(t, p, how)
  PROVE  TalliedInv'
<1>0. reads[t].at = "sends" /\ figures' = figures /\ tally' = tally
  BY DEF Ends
<1>1. PICK s : /\ reads' = [reads EXCEPT ![t] = s]
               /\ \/ s = [at |-> "count", port |-> p, how |-> how, unconfirmed |-> reads[t].unconfirmed]
                  \/ s = Idle
  BY DEF Ends
<1>2. ended' = IF how = "completed" THEN [ended EXCEPT ![p].sent = @ + 1]
                                    ELSE [ended EXCEPT ![p].failed = @ + 1]
  BY DEF Ends, Hows
<1>3. ASSUME NEW o \in Ports, NEW h \in Hows
      PROVE  /\ Cardinality(Counting(o, h)') <= Cardinality(Counting(o, h)) + One(o = p /\ h = how)
             /\ Cardinality(Counting(o, h)') \in Nat
             /\ Cardinality(Telling(h)') = Cardinality(Telling(h))
  <2>1. /\ One(InCount(reads[t], o, h)) = 0 /\ One(InTell(reads[t], h)) = 0 /\ One(InTell(s, h)) = 0
        /\ One(InCount(s, o, h)) = 0 \/ One(InCount(s, o, h)) = One(o = p /\ h = how)
    BY <1>0, <1>1 DEF One, InCount, InTell, Idle
  <2>2. Cardinality(Counting(o, h)) \in Nat /\ Cardinality(Telling(h)) \in Nat
    BY ThreadsFinite
  <2>3. /\ Cardinality(Counting(o, h)') =
             Cardinality(Counting(o, h)) - One(InCount(reads[t], o, h)) + One(InCount(s, o, h))
        /\ Cardinality(Telling(h)') = Cardinality(Telling(h)) - One(InTell(reads[t], h)) + One(InTell(s, h))
    BY <1>1, ThreadMoves
  <2>4. One(o = p /\ h = how) \in Nat
    BY DEF One
  <2> QED
    BY <2>1, <2>2, <2>3, <2>4
<1>4. "completed" \in Hows /\ "failed" \in Hows /\ "completed" # "failed"
  BY DEF Hows
<1>5. ASSUME NEW o \in Ports
      PROVE  /\ ended'[o].sent = ended[o].sent + One(o = p /\ "completed" = how)
             /\ ended'[o].failed = ended[o].failed + One(o = p /\ "failed" = how)
  <2>1. ended \in [Ports -> Passed] /\ ended[o].sent \in Nat /\ ended[o].failed \in Nat
    BY DEF FiguresTypeOK, Passed
  <2>2. how = "completed" \/ how = "failed"
    BY DEF Hows
  <2> QED
    BY <1>2, <2>1, <2>2 DEF One, Passed
<1>6. \A o \in Ports : \A h \in Hows : Cardinality(Counting(o, h)) \in Nat /\ One(o = p /\ h = how) \in Nat
  BY ThreadsFinite DEF One
<1>7. ASSUME NEW o \in Ports
      PROVE  /\ ended'[o].sent >= figures'[o].sent + Cardinality(Counting(o, "completed")')
             /\ ended'[o].failed >= figures'[o].failed + Cardinality(Counting(o, "failed")')
  <2>1. /\ ended[o].sent >= figures[o].sent + Cardinality(Counting(o, "completed"))
        /\ ended[o].failed >= figures[o].failed + Cardinality(Counting(o, "failed"))
    BY DEF TalliedInv
  <2>2. /\ Cardinality(Counting(o, "completed")') <= Cardinality(Counting(o, "completed")) + One(o = p /\ "completed" = how)
        /\ Cardinality(Counting(o, "failed")') <= Cardinality(Counting(o, "failed")) + One(o = p /\ "failed" = how)
        /\ Cardinality(Counting(o, "completed")') \in Nat /\ Cardinality(Counting(o, "failed")') \in Nat
    BY <1>3, <1>4
  <2>3. /\ figures[o].sent \in Nat /\ figures[o].failed \in Nat
        /\ ended[o].sent \in Nat /\ ended[o].failed \in Nat
    BY CountedIs
  <2>4. /\ Cardinality(Counting(o, "completed")) \in Nat /\ One(o = p /\ "completed" = how) \in Nat
        /\ Cardinality(Counting(o, "failed")) \in Nat /\ One(o = p /\ "failed" = how) \in Nat
    BY <1>4, <1>6
  <2> QED
    BY <1>0, <1>5, <2>1, <2>2, <2>3, <2>4
<1>8. /\ Sum([o \in Ports |-> figures[o].sent])' = Sum([o \in Ports |-> figures[o].sent])
      /\ Sum([o \in Ports |-> figures[o].failed])' = Sum([o \in Ports |-> figures[o].failed])
  BY <1>0 DEF Sum, Each
<1>9. /\ Sum([o \in Ports |-> figures[o].sent])' = tally'.sent + Cardinality(Telling("completed")')
      /\ Sum([o \in Ports |-> figures[o].failed])' = tally'.notSent + Cardinality(Telling("failed")')
  BY <1>0, <1>3, <1>4, <1>8 DEF TalliedInv
<1> QED
  BY <1>7, <1>9 DEF TalliedInv

LEMMA SettleKeepsCount ==
  ASSUME FiguresTypeOK, FiguresTypeOK', TalliedInv, NEW t \in Threads, SettleFigures(t)
  PROVE  TalliedInv'
<1> DEFINE p == reads[t].port
           how == reads[t].how
           s == IF how = "completed" THEN [at |-> "tell", port |-> p, how |-> "completed"]
                                     ELSE [at |-> "places", port |-> p, afresh |-> FALSE]
<1>0. t \in Readers
  BY DEF Readers
<1>1. reads[t].at = "count" /\ p \in Ports /\ how \in Hows
  BY <1>0, ReaderIs DEF SettleFigures
<1>2. reads' = [reads EXCEPT ![t] = s] /\ ended' = ended /\ tally' = tally
  BY DEF SettleFigures
<1>3. figures' = IF how = "completed" THEN [figures EXCEPT ![p].sent = @ + 1]
                                      ELSE [figures EXCEPT ![p].failed = @ + 1]
  BY DEF SettleFigures
<1>4. ASSUME NEW o \in Ports, NEW h \in Hows
      PROVE  /\ One(InCount(reads[t], o, h)) = One(o = p /\ h = how) /\ One(InTell(reads[t], h)) = 0
             /\ One(InCount(s, o, h)) = 0 /\ One(InTell(s, h)) = One(h = how)
  <2>1. InCount(reads[t], o, h) <=> o = p /\ h = how
    BY <1>1 DEF InCount
  <2>2. ~InTell(reads[t], h) /\ ~InCount(s, o, h)
    BY <1>1 DEF InTell, InCount
  <2>3. InTell(s, h) <=> h = how
    BY <1>1 DEF InTell, Hows
  <2> QED
    BY <2>1, <2>2, <2>3 DEF One
<1> HIDE DEF s
<1>5. ASSUME NEW o \in Ports, NEW h \in Hows
      PROVE  /\ Cardinality(Counting(o, h)') = Cardinality(Counting(o, h)) - One(o = p /\ h = how)
             /\ Cardinality(Telling(h)') = Cardinality(Telling(h)) + One(h = how)
             /\ Cardinality(Counting(o, h)) \in Nat /\ One(o = p /\ h = how) \in Nat
             /\ Cardinality(Telling(h)) \in Nat /\ One(h = how) \in Nat
  <2>1. Cardinality(Counting(o, h)) \in Nat /\ Cardinality(Telling(h)) \in Nat
    BY ThreadsFinite
  <2>2. /\ Cardinality(Counting(o, h)') =
             Cardinality(Counting(o, h)) - One(InCount(reads[t], o, h)) + One(InCount(s, o, h))
        /\ Cardinality(Telling(h)') = Cardinality(Telling(h)) - One(InTell(reads[t], h)) + One(InTell(s, h))
    BY <1>2, ThreadMoves
  <2>3. One(o = p /\ h = how) \in Nat /\ One(h = how) \in Nat
    BY DEF One
  <2> QED
    BY <1>4, <2>1, <2>2, <2>3
<1>6. "completed" \in Hows /\ "failed" \in Hows /\ "completed" # "failed"
      /\ (how = "completed" \/ how = "failed")
  BY <1>1 DEF Hows
<1>7. ASSUME NEW o \in Ports
      PROVE  /\ figures'[o].sent = figures[o].sent + One(o = p /\ "completed" = how)
             /\ figures'[o].failed = figures[o].failed + One(o = p /\ "failed" = how)
  <2>1. figures \in [Ports -> [sent : Nat, failed : Nat, unread : BOOLEAN]]
        /\ figures[o].sent \in Nat /\ figures[o].failed \in Nat
    BY DEF FiguresTypeOK
  <2> HIDE DEF p, how
  <2> QED
    BY <1>1, <1>3, <1>6, <2>1 DEF One
<1> HIDE DEF p, how
<1>8. ASSUME NEW o \in Ports
      PROVE  /\ ended'[o].sent >= figures'[o].sent + Cardinality(Counting(o, "completed")')
             /\ ended'[o].failed >= figures'[o].failed + Cardinality(Counting(o, "failed")')
  <2>1. /\ ended[o].sent >= figures[o].sent + Cardinality(Counting(o, "completed"))
        /\ ended[o].failed >= figures[o].failed + Cardinality(Counting(o, "failed"))
    BY DEF TalliedInv
  <2>2. /\ figures[o].sent \in Nat /\ figures[o].failed \in Nat
        /\ ended[o].sent \in Nat /\ ended[o].failed \in Nat
    BY CountedIs
  <2>3. /\ Cardinality(Counting(o, "completed")') = Cardinality(Counting(o, "completed")) - One(o = p /\ "completed" = how)
        /\ Cardinality(Counting(o, "failed")') = Cardinality(Counting(o, "failed")) - One(o = p /\ "failed" = how)
        /\ Cardinality(Counting(o, "completed")) \in Nat /\ One(o = p /\ "completed" = how) \in Nat
        /\ Cardinality(Counting(o, "failed")) \in Nat /\ One(o = p /\ "failed" = how) \in Nat
    BY <1>5, <1>6
  <2> QED
    BY <1>2, <1>7, <2>1, <2>2, <2>3
<1>9. /\ SentAt \in [Ports -> Nat] /\ FailedAt \in [Ports -> Nat]
      /\ SentAt' \in [Ports -> Nat] /\ FailedAt' \in [Ports -> Nat]
      /\ Sum(SentAt) \in Nat /\ Sum(FailedAt) \in Nat
  <2>1. SentAt' \in [Ports -> Nat] /\ FailedAt' \in [Ports -> Nat]
    BY DEF SentAt, FailedAt, FiguresTypeOK
  <2> QED
    BY <2>1, CountedIs
<1>10. /\ Sum(SentAt') = Sum(SentAt) + One("completed" = how)
       /\ Sum(FailedAt') = Sum(FailedAt) + One("failed" = how)
  <2>1. \A o \in Ports : /\ SentAt[o] = figures[o].sent /\ SentAt'[o] = figures'[o].sent
                         /\ FailedAt[o] = figures[o].failed /\ FailedAt'[o] = figures'[o].failed
    BY DEF SentAt, FailedAt
  <2>2. CASE how = "completed"
    BY <1>1, <1>6, <1>7, <1>9, <2>1, <2>2, SumOneMore DEF One
  <2>3. CASE how = "failed"
    BY <1>1, <1>6, <1>7, <1>9, <2>1, <2>3, SumOneMore DEF One
  <2> QED
    BY <1>6, <2>2, <2>3
<1>11. /\ Sum([o \in Ports |-> figures[o].sent])' = Sum(SentAt')
       /\ Sum([o \in Ports |-> figures[o].failed])' = Sum(FailedAt')
  BY DEF Sum, Each, SentAt, FailedAt
<1>12. /\ Sum(SentAt) = tally.sent + Cardinality(Telling("completed"))
       /\ Sum(FailedAt) = tally.notSent + Cardinality(Telling("failed"))
  BY DEF TalliedInv, SentAt, FailedAt
<1>13. /\ Sum([o \in Ports |-> figures[o].sent])' = tally'.sent + Cardinality(Telling("completed")')
       /\ Sum([o \in Ports |-> figures[o].failed])' = tally'.notSent + Cardinality(Telling("failed")')
  <2>1. tally.sent \in Nat /\ tally.notSent \in Nat
    BY CountedIs
  <2>2. /\ Cardinality(Telling("completed")') = Cardinality(Telling("completed")) + One("completed" = how)
        /\ Cardinality(Telling("failed")') = Cardinality(Telling("failed")) + One("failed" = how)
        /\ Cardinality(Telling("completed")) \in Nat /\ One("completed" = how) \in Nat
        /\ Cardinality(Telling("failed")) \in Nat /\ One("failed" = how) \in Nat
    BY <1>1, <1>5, <1>6
  <2> QED
    BY <1>2, <1>10, <1>11, <1>12, <2>1, <2>2
<1> QED
  BY <1>8, <1>13 DEF TalliedInv

LEMMA TellKeepsCount ==
  ASSUME FiguresTypeOK, TalliedInv, NEW t \in Threads, Tell(t)
  PROVE  TalliedInv'
<1> DEFINE how == reads[t].how
<1>0. t \in Readers
  BY DEF Readers
<1>1. reads[t].at = "tell" /\ how \in Hows
  BY <1>0, ReaderIs DEF Tell
<1>2. reads' = [reads EXCEPT ![t] = Idle] /\ ended' = ended /\ figures' = figures
  BY DEF Tell
<1>3. ASSUME NEW o \in Ports, NEW h \in Hows
      PROVE  /\ One(InCount(reads[t], o, h)) = 0 /\ One(InTell(reads[t], h)) = One(h = how)
             /\ One(InCount(Idle, o, h)) = 0 /\ One(InTell(Idle, h)) = 0
  <2>1. ~InCount(reads[t], o, h) /\ ~InCount(Idle, o, h) /\ ~InTell(Idle, h)
    BY <1>1 DEF InCount, InTell, Idle
  <2>2. InTell(reads[t], h) <=> h = how
    BY <1>1 DEF InTell
  <2> QED
    BY <2>1, <2>2 DEF One
<1>4. "completed" \in Hows /\ "failed" \in Hows /\ "completed" # "failed"
      /\ (how = "completed" \/ how = "failed")
  BY <1>1 DEF Hows
<1>5. /\ tally'.sent = tally.sent + One("completed" = how)
      /\ tally'.notSent = tally.notSent + One("failed" = how)
  <2>1. tally \in [refused : Nat, sent : Nat, notSent : Nat]
    BY DEF FiguresTypeOK
  <2>2. tally' = IF how = "completed" THEN [tally EXCEPT !.sent = @ + 1] ELSE [tally EXCEPT !.notSent = @ + 1]
    BY DEF Tell
  <2> HIDE DEF how
  <2> QED
    BY <1>4, <2>1, <2>2 DEF One
<1> HIDE DEF how
<1>6. ASSUME NEW o \in Ports, NEW h \in Hows PROVE Cardinality(Counting(o, h)') = Cardinality(Counting(o, h))
  <2>1. Cardinality(Counting(o, h)') =
          Cardinality(Counting(o, h)) - One(InCount(reads[t], o, h)) + One(InCount(Idle, o, h))
    BY <1>2, ThreadMoves
  <2>2. Cardinality(Counting(o, h)) \in Nat
    BY ThreadsFinite
  <2> QED
    BY <1>3, <2>1, <2>2
<1>7. ASSUME NEW h \in Hows
      PROVE  /\ Cardinality(Telling(h)') = Cardinality(Telling(h)) - One(h = how)
             /\ Cardinality(Telling(h)) \in Nat /\ One(h = how) \in Nat
  <2>0. PICK o \in Ports : TRUE
    BY <1>0, <1>1, ReaderIs
  <2>1. Cardinality(Telling(h)') = Cardinality(Telling(h)) - One(InTell(reads[t], h)) + One(InTell(Idle, h))
    BY <1>2, <2>0, ThreadMoves
  <2>2. Cardinality(Telling(h)) \in Nat /\ One(h = how) \in Nat
    BY ThreadsFinite DEF One
  <2>3. One(InTell(reads[t], h)) = One(h = how) /\ One(InTell(Idle, h)) = 0
    BY <1>3, <2>0
  <2> QED
    BY <2>1, <2>2, <2>3
<1>8. \A o \in Ports : /\ ended'[o].sent >= figures'[o].sent + Cardinality(Counting(o, "completed")')
                       /\ ended'[o].failed >= figures'[o].failed + Cardinality(Counting(o, "failed")')
  BY <1>2, <1>4, <1>6 DEF TalliedInv
<1>9. /\ Sum([o \in Ports |-> figures[o].sent])' = Sum([o \in Ports |-> figures[o].sent])
      /\ Sum([o \in Ports |-> figures[o].failed])' = Sum([o \in Ports |-> figures[o].failed])
  BY <1>2 DEF Sum, Each
<1>10. /\ Sum([o \in Ports |-> figures[o].sent])' = tally'.sent + Cardinality(Telling("completed")')
       /\ Sum([o \in Ports |-> figures[o].failed])' = tally'.notSent + Cardinality(Telling("failed")')
  <2>1. tally.sent \in Nat /\ tally.notSent \in Nat
    BY CountedIs
  <2>2. /\ Cardinality(Telling("completed")') = Cardinality(Telling("completed")) - One("completed" = how)
        /\ Cardinality(Telling("failed")') = Cardinality(Telling("failed")) - One("failed" = how)
        /\ Cardinality(Telling("completed")) \in Nat /\ One("completed" = how) \in Nat
        /\ Cardinality(Telling("failed")) \in Nat /\ One("failed" = how) \in Nat
    BY <1>4, <1>7
  <2>3. /\ Sum([o \in Ports |-> figures[o].sent]) = tally.sent + Cardinality(Telling("completed"))
        /\ Sum([o \in Ports |-> figures[o].failed]) = tally.notSent + Cardinality(Telling("failed"))
    BY DEF TalliedInv
  <2> QED
    BY <1>5, <1>9, <2>1, <2>2, <2>3
<1> QED
  BY <1>8, <1>10 DEF TalliedInv

\* A thread that begins, renews or gives up what it sends.
LEMMA SendingKeepsCount ==
  ASSUME FiguresTypeOK, TalliedInv, NEW t \in Threads,
         \/ \E p \in Ports : Takes(t, p)
         \/ Renewed(t) \/ Uncounted(t)
  PROVE  TalliedInv'
<1>0. t \in Readers /\ reads \in [Readers -> ReaderStates] /\ Threads \subseteq Readers
  BY DEF Readers, FiguresTypeOK
<1>1. /\ reads[t].at \in {"idle", "sends"} /\ reads'[t].at \in {"idle", "sends"}
      /\ \A u \in Threads : u # t => reads'[u] = reads[u]
  <2>1. CASE Renewed(t)
    <3>1. reads[t] \in [at : {"sends"}, port : Ports, unconfirmed : BOOLEAN]
      BY <1>0, <2>1, ReaderIs DEF Renewed
    <3>2. \E b \in BOOLEAN : reads' = [reads EXCEPT ![t] = [reads[t] EXCEPT !.unconfirmed = b]]
      BY <2>1 DEF Renewed
    <3> QED
      BY <1>0, <3>1, <3>2
  <2>2. CASE Uncounted(t)
    BY <1>0, <2>2 DEF Uncounted, Idle
  <2>3. ASSUME NEW p \in Ports, Takes(t, p)
        PROVE  /\ reads[t].at \in {"idle", "sends"} /\ reads'[t].at \in {"idle", "sends"}
               /\ \A u \in Threads : u # t => reads'[u] = reads[u]
    BY <1>0, <2>3 DEF Takes, Idle
  <2> QED
    BY <2>1, <2>2, <2>3
<1>2. tally' = tally /\ ended' = ended /\ figures' = figures
  BY DEF Takes, Renewed, Uncounted
<1>3. /\ \A p \in Ports, how \in Hows : ~InCount(reads[t], p, how) /\ ~InCount(reads'[t], p, how)
      /\ \A how \in Hows : ~InTell(reads[t], how) /\ ~InTell(reads'[t], how)
  BY <1>1 DEF InCount, InTell
<1> QED
  BY <1>1, <1>2, <1>3, CountStands

\* A thread that reads the window has still to tell of the failure.
LEMMA ReadingKeepsCount ==
  ASSUME FiguresTypeOK, TalliedInv, NEW r \in Readers, Reads(r)
  PROVE  TalliedInv'
<1>0. reads \in [Readers -> ReaderStates] /\ Threads \subseteq Readers
  BY DEF Readers, FiguresTypeOK
<1>1. reads[r].at \in {"places", "read", "keep"}
  BY DEF Reads, Places, Read, Keep
<1>2. PICK s : /\ reads' = [reads EXCEPT ![r] = s]
               /\ \/ s = After(r)
                  \/ s.at \in {"read", "keep"}
  <2>1. CASE Places(r)
    BY <2>1 DEF Places
  <2>2. CASE Read(r)
    <3> DEFINE k == [at |-> "keep", port |-> reads[r].port,
                     window |-> [at |-> <<index[reads[r].port].next, Cardinality(index[reads[r].port].failed)>>,
                                 oldest |-> Page(reads[r].port, 0, Window)]]
    <3>1. reads' = [reads EXCEPT ![r] = k] \/ reads' = [reads EXCEPT ![r] = After(r)]
      BY <2>2 DEF Read
    <3>2. k.at = "keep"
      OBVIOUS
    <3> HIDE DEF k
    <3> QED
      BY <3>1, <3>2
  <2>3. CASE Keep(r)
    BY <2>3 DEF Keep
  <2> QED
    BY <2>1, <2>2, <2>3 DEF Reads
<1>3. tally' = tally /\ ended' = ended /\ figures' = figures
  BY DEF Reads, Places, Read, Keep
<1>4. ASSUME r \in Threads
      PROVE  /\ \A p \in Ports, how \in Hows : ~InCount(reads[r], p, how) /\ ~InCount(reads'[r], p, how)
             /\ \A how \in Hows : InTell(reads[r], how) <=> InTell(reads'[r], how)
  <2>1. reads'[r] = s
    BY <1>0, <1>2
  <2>2. s.at \in {"read", "keep"} \/ (s.at = "tell" /\ s.how = "failed")
    <3>1. r # Dispatching
      BY <1>4, FiguresAssumption
    <3>2. After(r) = [at |-> "tell", port |-> reads[r].port, how |-> "failed"]
      BY <1>4, <3>1 DEF After
    <3> QED
      BY <1>2, <3>2
  <2> QED
    BY <1>1, <2>1, <2>2 DEF InCount, InTell, Hows
<1>5. \A u \in Threads : u # r => reads'[u] = reads[u]
  BY <1>0, <1>2
<1> QED
  BY <1>3, <1>4, <1>5, CountStands

\* What neither ends, counts nor tells a pass.
LEMMA RestKeepsCount ==
  ASSUME FiguresTypeOK, TalliedInv,
         \/ \E p \in Ports : Scans(p) \/ FailsElsewhere(p) \/ Lists(p) \/ LocationStops(p)
         \/ \E p \in Ports : \E s \in index[p].failed : ActsOnFailed(p, s) \/ ActedElsewhere(p, s)
         \/ Scanned \/ Refused \/ Begins \/ Makes \/ Imports \/ Stops \/ ListsOn
         \/ UNCHANGED figuresVars
  PROVE  TalliedInv'
<1> USE DEF send, said, bounds, figuresVars
<1>0. /\ reads \in [Readers -> ReaderStates] /\ Threads \subseteq Readers
      /\ Dispatching \notin Threads /\ Operator \notin Threads
  BY FiguresAssumption DEF Readers, FiguresTypeOK
<1>1. \A t \in Threads : reads'[t] = reads[t]
  <2>1. \/ reads' = reads
        \/ \E s : reads' = [reads EXCEPT ![Dispatching] = s]
        \/ \E s : reads' = [reads EXCEPT ![Operator] = s]
    BY DEF Scans, FailsElsewhere, Lists, ActsOnFailed, ActedElsewhere, Scanned, Refused, Makes, Begins,
           Records, CountsFigures, CountsOutcomes, Returns, Imports, Stops, LocationStops, ListsOn
  <2> QED
    BY <1>0, <2>1
<1>2. ended' = ended /\ tally'.sent = tally.sent /\ tally'.notSent = tally.notSent
  <2>1. ended' = ended /\ (tally' = tally \/ Refused)
    BY DEF Scans, FailsElsewhere, Lists, ActsOnFailed, ActedElsewhere, Scanned, Refused, Makes, Begins,
           Records, CountsFigures, CountsOutcomes, Returns, Imports, Stops, LocationStops, ListsOn
  <2>2. tally \in [refused : Nat, sent : Nat, notSent : Nat]
    BY DEF FiguresTypeOK
  <2> QED
    BY <2>1, <2>2 DEF Refused
<1>3. \A p \in Ports : figures'[p].sent = figures[p].sent /\ figures'[p].failed = figures[p].failed
  <2>1. figures' = figures \/ Scanned
    BY DEF Scans, FailsElsewhere, Lists, ActsOnFailed, ActedElsewhere, Refused, Makes, Begins,
           Records, CountsFigures, CountsOutcomes, Returns, Imports, Stops, LocationStops, ListsOn
  <2>2. CASE Scanned
    <3>1. figures \in [Ports -> [sent : Nat, failed : Nat, unread : BOOLEAN]]
      BY DEF FiguresTypeOK
    <3>2. figures' = figures \/ \E q, b : figures' = QueueRead(q, b)
      BY <2>2 DEF Scanned
    <3> QED
      BY <3>1, <3>2 DEF QueueRead
  <2> QED
    BY <2>1, <2>2
<1> QED
  BY <1>1, <1>2, <1>3, CountStands

LEMMA TalliedKept ==
  ASSUME FiguresTypeOK, FiguresTypeOK', TalliedInv, [FiguresNext]_figuresVars
  PROVE  TalliedInv'
<1>1. ASSUME NEW t \in Threads, NEW p \in Ports, NEW how \in {"completed", "failed"}, Ends(t, p, how)
      PROVE  TalliedInv'
  BY <1>1, EndsKeepsCount DEF Hows
<1>2. ASSUME NEW t \in Threads, NEW p \in Ports, Takes(t, p) PROVE TalliedInv'
  BY <1>2, SendingKeepsCount
<1>3. ASSUME NEW t \in Threads, Settles(t) \/ Renewed(t) \/ Uncounted(t) PROVE TalliedInv'
  BY <1>3, SettleKeepsCount, TellKeepsCount, SendingKeepsCount DEF Settles
<1>4. ASSUME NEW r \in Readers, Reads(r) PROVE TalliedInv'
  BY <1>4, ReadingKeepsCount
<1>5. CASE \/ \E p \in Ports : Scans(p) \/ FailsElsewhere(p) \/ Lists(p) \/ LocationStops(p)
           \/ \E p \in Ports : \E s \in index[p].failed : ActsOnFailed(p, s) \/ ActedElsewhere(p, s)
           \/ Scanned \/ Refused \/ Begins \/ Makes \/ Imports \/ Stops \/ ListsOn
           \/ UNCHANGED figuresVars
  BY <1>5, RestKeepsCount
<1> QED
  BY <1>1, <1>2, <1>3, <1>4, <1>5 DEF FiguresNext

\* What is counted and told never falls.
Grows ==
  /\ tally.sent <= tally'.sent
  /\ tally.refused + tally.notSent <= tally'.refused + tally'.notSent
  /\ \A p \in Ports : figures[p].sent <= figures'[p].sent /\ figures[p].failed <= figures'[p].failed

LEMMA StepGrows ==
  ASSUME FiguresTypeOK, [FiguresNext]_figuresVars
  PROVE  Grows
<1> USE DEF send, said, bounds, figuresVars
<1>0. /\ tally \in [refused : Nat, sent : Nat, notSent : Nat]
      /\ figures \in [Ports -> [sent : Nat, failed : Nat, unread : BOOLEAN]]
  BY DEF FiguresTypeOK
<1>1. ASSUME figures' = figures, tally' = tally PROVE Grows
  BY <1>0, <1>1 DEF Grows
<1>2. ASSUME figures' = figures, NEW t \in Threads, Tell(t) PROVE Grows
  <2>1. tally' = [tally EXCEPT !.sent = @ + 1] \/ tally' = [tally EXCEPT !.notSent = @ + 1]
    BY <1>2 DEF Tell
  <2> QED
    BY <1>0, <1>2, <2>1 DEF Grows
<1>3. ASSUME figures' = figures, Refused PROVE Grows
  BY <1>0, <1>3 DEF Grows, Refused
<1>4. ASSUME NEW t \in Threads, SettleFigures(t) PROVE Grows
  <2>0. reads[t].port \in Ports /\ tally' = tally
    <3>1. t \in Readers
      BY DEF Readers
    <3> QED
      BY <1>4, <3>1, ReaderIs DEF SettleFigures
  <2>1. PICK p \in Ports : \/ figures' = [figures EXCEPT ![p].sent = @ + 1]
                          \/ figures' = [figures EXCEPT ![p].failed = @ + 1]
    BY <1>4, <2>0 DEF SettleFigures
  <2>2. CASE figures' = [figures EXCEPT ![p].sent = @ + 1]
    BY <1>0, <2>0, <2>2 DEF Grows
  <2>3. CASE figures' = [figures EXCEPT ![p].failed = @ + 1]
    BY <1>0, <2>0, <2>3 DEF Grows
  <2> QED
    BY <2>1, <2>2, <2>3
<1>5. ASSUME Scanned PROVE Grows
  <2>1. tally' = tally /\ (figures' = figures \/ \E q, b : figures' = QueueRead(q, b))
    BY <1>5 DEF Scanned
  <2>2. \A p \in Ports : figures'[p].sent = figures[p].sent /\ figures'[p].failed = figures[p].failed
    BY <1>0, <2>1 DEF QueueRead
  <2> QED
    BY <1>0, <2>1, <2>2 DEF Grows
<1>6. ASSUME NEW t \in Threads, NEW p \in Ports, NEW how \in {"completed", "failed"},
             Ends(t, p, how) \/ Takes(t, p) \/ Renewed(t) \/ Uncounted(t)
      PROVE  Grows
  BY <1>1, <1>6 DEF Ends, Takes, Renewed, Uncounted
<1>7. ASSUME NEW r \in Readers, Reads(r) PROVE Grows
  BY <1>1, <1>7 DEF Reads, Places, Read, Keep
<1>8. CASE \/ \E p \in Ports : Scans(p) \/ FailsElsewhere(p) \/ Lists(p) \/ LocationStops(p)
           \/ \E p \in Ports : \E s \in index[p].failed : ActsOnFailed(p, s) \/ ActedElsewhere(p, s)
           \/ Begins \/ Makes \/ Imports \/ Stops \/ ListsOn
           \/ UNCHANGED figuresVars
  BY <1>1, <1>8 DEF Scans, FailsElsewhere, Lists, ActsOnFailed, ActedElsewhere, Makes, Begins,
         Records, CountsFigures, CountsOutcomes, Returns, Imports, Stops, LocationStops, ListsOn
<1>9. ASSUME NEW t \in Threads, Settles(t) \/ Renewed(t) \/ Uncounted(t) PROVE Grows
  <2>1. CASE Settles(t)
    BY <1>2, <1>4, <2>1 DEF Settles, Tell
  <2>2. CASE Renewed(t) \/ Uncounted(t)
    BY <1>1, <2>2 DEF Renewed, Uncounted
  <2> QED
    BY <1>9, <2>1, <2>2
<1>10. CASE Scanned \/ Refused
  BY <1>3, <1>5, <1>10 DEF Refused
<1> QED
  BY <1>6, <1>7, <1>8, <1>9, <1>10 DEF FiguresNext

\* What is published is of the types of a measure.
LEMMA MeasuredIs ==
  ASSUME NEW c \in Measured
  PROVE  /\ [p \in Ports |-> c.ports[p].sent] \in [Ports -> Nat]
         /\ [p \in Ports |-> c.ports[p].failed] \in [Ports -> Nat]
         /\ \A p \in Ports : c.ports[p].sent \in Nat /\ c.ports[p].failed \in Nat
         /\ Sum([p \in Ports |-> c.ports[p].sent]) \in Nat
         /\ Sum([p \in Ports |-> c.ports[p].failed]) \in Nat
         /\ MeasureSent(c) \in Nat /\ MeasureFailed(c) \in Nat
<1>1. /\ [p \in Ports |-> c.ports[p].sent] \in [Ports -> Nat]
      /\ [p \in Ports |-> c.ports[p].failed] \in [Ports -> Nat]
      /\ \A p \in Ports : c.ports[p].sent \in Nat /\ c.ports[p].failed \in Nat
      /\ c.sent \in Nat /\ c.failed \in Nat
  BY DEF Measured, Passed
<1>2. /\ Sum([p \in Ports |-> c.ports[p].sent]) \in Nat
      /\ Sum([p \in Ports |-> c.ports[p].failed]) \in Nat
  BY <1>1, EachFinite
<1> QED
  BY <1>1, <1>2 DEF MeasureSent, MeasureFailed

\* What was covered stays so.
LEMMA CoveredStays ==
  ASSUME FiguresTypeOK, FiguresTypeOK', Grows, NEW c \in Measured, Covered(c)
  PROVE  Covered(c)'
<1> DEFINE s == Sum([p \in Ports |-> c.ports[p].sent])
           f == Sum([p \in Ports |-> c.ports[p].failed])
<1>1. MeasureSent(c) \in Nat /\ MeasureFailed(c) \in Nat /\ s \in Nat /\ f \in Nat
      /\ \A p \in Ports : c.ports[p].sent \in Nat /\ c.ports[p].failed \in Nat
  BY MeasuredIs
<1>2. /\ tally.sent \in Nat /\ tally'.sent \in Nat
      /\ tally.refused + tally.notSent \in Nat /\ tally'.refused + tally'.notSent \in Nat
      /\ \A p \in Ports : /\ figures[p].sent \in Nat /\ figures[p].failed \in Nat
                          /\ figures'[p].sent \in Nat /\ figures'[p].failed \in Nat
  <2>1. tally.sent \in Nat /\ tally.refused \in Nat /\ tally.notSent \in Nat
        /\ \A p \in Ports : figures[p].sent \in Nat /\ figures[p].failed \in Nat
    BY CountedIs
  <2>2. tally'.sent \in Nat /\ tally'.refused \in Nat /\ tally'.notSent \in Nat
    BY DEF FiguresTypeOK
  <2>3. \A p \in Ports : figures'[p].sent \in Nat /\ figures'[p].failed \in Nat
    BY DEF FiguresTypeOK
  <2> QED
    BY <2>1, <2>2, <2>3
<1>3. /\ \A p \in Ports : c.ports[p].sent <= figures[p].sent /\ c.ports[p].failed <= figures[p].failed
      /\ MeasureSent(c) <= tally.sent \/ MeasureSent(c) <= s
      /\ MeasureFailed(c) <= tally.refused + tally.notSent \/ MeasureFailed(c) <= f
  BY DEF Covered, CountedNow
<1> HIDE DEF s, f
<1>4. \A p \in Ports : c.ports[p].sent <= figures'[p].sent /\ c.ports[p].failed <= figures'[p].failed
  BY <1>1, <1>2, <1>3 DEF Grows
<1>5. /\ MeasureSent(c) <= tally'.sent \/ MeasureSent(c) <= s
      /\ MeasureFailed(c) <= tally'.refused + tally'.notSent \/ MeasureFailed(c) <= f
  BY <1>1, <1>2, <1>3 DEF Grows
<1> QED
  BY <1>4, <1>5 DEF Covered, CountedNow, s, f

\* What is made of counts read: the larger of what was told and what the Ports
\* count.
LEMMA MadeIs ==
  ASSUME FiguresTypeOK, making.at = "outcomes"
  PROVE  LET c == Counts(tally, making.counted)
             s == Sum([p \in Ports |-> c.ports[p].sent])
             f == Sum([p \in Ports |-> c.ports[p].failed])
         IN /\ \A p \in Ports : /\ c.ports[p].sent = making.counted[p].sent
                               /\ c.ports[p].failed = making.counted[p].failed
            /\ MeasureSent(c) = IF tally.sent < s THEN s ELSE tally.sent
            /\ MeasureFailed(c) = IF tally.refused + tally.notSent < f THEN f
                                                                     ELSE tally.refused + tally.notSent
<1> DEFINE ports == making.counted
           c == Counts(tally, ports)
           s == Sum([p \in Ports |-> c.ports[p].sent])
           f == Sum([p \in Ports |-> c.ports[p].failed])
<1>1. c \in Measured
  BY CountsIs
<1>2. /\ c.sent = Monus(tally.sent, Sum([p \in Ports |-> ports[p].sent]))
      /\ c.failed = Monus(tally.refused + tally.notSent, Sum([p \in Ports |-> ports[p].failed]))
      /\ c.ports = [p \in Ports |-> [sent |-> ports[p].sent, failed |-> ports[p].failed]]
  BY DEF Counts
<1>3. \A p \in Ports : c.ports[p].sent = ports[p].sent /\ c.ports[p].failed = ports[p].failed
  BY <1>2
<1>4. s \in Nat /\ f \in Nat
  BY <1>1, MeasuredIs
<1> HIDE DEF c, ports
<1>5. /\ [p \in Ports |-> c.ports[p].sent] = [p \in Ports |-> ports[p].sent]
      /\ [p \in Ports |-> c.ports[p].failed] = [p \in Ports |-> ports[p].failed]
  BY <1>3
<1>6. c.sent = Monus(tally.sent, s) /\ c.failed = Monus(tally.refused + tally.notSent, f)
  BY <1>2, <1>5
<1>7. MeasureSent(c) = c.sent + s /\ MeasureFailed(c) = c.failed + f
  BY DEF MeasureSent, MeasureFailed
<1>8. tally.sent \in Nat /\ tally.refused + tally.notSent \in Nat
  BY CountedIs
<1> HIDE DEF s, f
<1>9. /\ MeasureSent(c) = IF tally.sent < s THEN s ELSE tally.sent
      /\ MeasureFailed(c) = IF tally.refused + tally.notSent < f THEN f
                                                               ELSE tally.refused + tally.notSent
  BY <1>4, <1>6, <1>7, <1>8 DEF Monus
<1> QED
  BY <1>3, <1>9 DEF s, f, c, ports

LEMMA NoLessItself ==
  ASSUME NEW c \in Measured
  PROVE  NoLess(c, c)
<1>1. MeasureSent(c) \in Nat /\ MeasureFailed(c) \in Nat
  BY MeasuredIs
<1>2. MeasureSent(c) >= MeasureSent(c) /\ MeasureFailed(c) >= MeasureFailed(c)
  BY <1>1
<1>3. \A p \in Ports : c.ports[p].sent \in Nat /\ c.ports[p].failed \in Nat
  BY MeasuredIs
<1>4. \A p \in Ports : c.ports[p].sent >= c.ports[p].sent /\ c.ports[p].failed >= c.ports[p].failed
  BY <1>3
<1> QED
  BY <1>2, <1>4 DEF NoLess

LEMMA PublishedIs ==
  ASSUME FiguresTypeOK
  PROVE  /\ published # None => published.counts \in Measured
         /\ making.at = "made" => making.what.counts \in Measured
<1>1. published # None => published \in Publications
  BY DEF FiguresTypeOK
<1>2. making.at = "made" => making.what \in Publications
  BY MakingIs
<1> QED
  BY <1>1, <1>2 DEF Publications

\* The counts read stay reached.
LEMMA ReachedStays ==
  ASSUME FiguresTypeOK, FiguresTypeOK', Grows, making.at = "outcomes", CountedNow(making.counted)
  PROVE  \A p \in Ports : /\ making.counted[p].sent <= figures'[p].sent
                         /\ making.counted[p].failed <= figures'[p].failed
<1> SUFFICES ASSUME NEW p \in Ports
             PROVE  /\ making.counted[p].sent <= figures'[p].sent
                    /\ making.counted[p].failed <= figures'[p].failed
  OBVIOUS
<1>1. making.counted[p].sent \in Nat /\ making.counted[p].failed \in Nat
  BY MakingIs
<1>2. figures[p].sent \in Nat /\ figures[p].failed \in Nat
  BY CountedIs
<1>3. figures'[p].sent \in Nat /\ figures'[p].failed \in Nat
  BY DEF FiguresTypeOK
<1>4. /\ making.counted[p].sent <= figures[p].sent /\ making.counted[p].failed <= figures[p].failed
      /\ figures[p].sent <= figures'[p].sent /\ figures[p].failed <= figures'[p].failed
  BY DEF CountedNow, Grows
<1> QED
  BY <1>1, <1>2, <1>3, <1>4

\* While nothing is made or published, what was made stays within what grows.
LEMMA MakingStands ==
  ASSUME FiguresTypeOK, FiguresTypeOK', MakingInv, Grows, UNCHANGED <<making, published>>
  PROVE  MakingInv'
<1>0. \A d \in Measured : Covered(d) => Covered(d)'
  BY CoveredStays
<1>1. published # None => Covered(published.counts)'
  <2> SUFFICES ASSUME published # None PROVE Covered(published.counts)'
    OBVIOUS
  <2> DEFINE c == published.counts
  <2>1. c \in Measured /\ Covered(c) /\ c' = c
    BY PublishedIs DEF MakingInv
  <2> QED
    BY <1>0, <2>1 DEF Covered, CountedNow, MeasureSent, MeasureFailed
<1>2. ASSUME making.at \in {"records", "figures", "outcomes"}
      PROVE  making.since.sent <= tally'.sent /\ making.since.failed <= tally'.refused + tally'.notSent
  <2>1. making.since.sent \in Nat /\ making.since.failed \in Nat
    BY <1>2, MakingIs DEF Passed
  <2>2. making.since.sent <= tally.sent /\ making.since.failed <= tally.refused + tally.notSent
    BY <1>2 DEF MakingInv
  <2>3. tally.sent \in Nat /\ tally.refused \in Nat /\ tally.notSent \in Nat
    BY CountedIs
  <2>4. tally'.sent \in Nat /\ tally'.refused \in Nat /\ tally'.notSent \in Nat
    BY DEF FiguresTypeOK
  <2>5. tally.sent <= tally'.sent /\ tally.refused + tally.notSent <= tally'.refused + tally'.notSent
    BY DEF Grows
  <2> QED
    BY <2>1, <2>2, <2>3, <2>4, <2>5
<1>3. ASSUME making.at = "outcomes"
      PROVE  /\ CountedNow(making.counted)'
             /\ published # None => \A p \in Ports :
                  /\ making.counted[p].sent >= published.counts.ports[p].sent
                  /\ making.counted[p].failed >= published.counts.ports[p].failed
  <2>1. CountedNow(making.counted)
    BY <1>3 DEF MakingInv
  <2>2. \A p \in Ports : /\ making.counted[p].sent <= figures'[p].sent
                         /\ making.counted[p].failed <= figures'[p].failed
    BY <1>3, <2>1, ReachedStays
  <2>3. CountedNow(making.counted)'
    BY <2>2 DEF CountedNow
  <2> QED
    BY <1>3, <2>3 DEF MakingInv
<1>4. ASSUME making.at = "made"
      PROVE  LET c == making.what.counts
             IN /\ Covered(c)'
                /\ published # None => NoLess(c, published.counts)
                /\ making.since.sent <= MeasureSent(c) /\ making.since.failed <= MeasureFailed(c)
  <2> DEFINE c == making.what.counts
  <2>1. c \in Measured /\ Covered(c) /\ c' = c
    BY <1>4, PublishedIs DEF MakingInv
  <2>2. Covered(c)'
    BY <1>0, <2>1 DEF Covered, CountedNow, MeasureSent, MeasureFailed
  <2> QED
    BY <1>4, <2>2 DEF MakingInv
<1>5. /\ NoLess(making.what.counts, published.counts)' = NoLess(making.what.counts, published.counts)
      /\ MeasureSent(making.what.counts)' = MeasureSent(making.what.counts)
      /\ MeasureFailed(making.what.counts)' = MeasureFailed(making.what.counts)
  BY DEF NoLess, MeasureSent, MeasureFailed, Sum, Each
<1> QED
  BY <1>1, <1>2, <1>3, <1>4, <1>5 DEF MakingInv

\* What is published stays covered.
LEMMA PublishedStays ==
  ASSUME FiguresTypeOK, FiguresTypeOK', MakingInv, UNCHANGED <<published, tally, figures>>
  PROVE  published' # None => Covered(published.counts)'
BY DEF MakingInv, Covered, CountedNow, MeasureSent, MeasureFailed, Sum, Each

LEMMA MakesKeeps ==
  ASSUME FiguresTypeOK, FiguresTypeOK', MakingInv, Begins \/ Makes
  PROVE  MakingInv'
<1> USE DEF send, bounds
<1>0. UNCHANGED <<figures, tally, running>>
  BY DEF Makes, Begins, Records, CountsFigures, CountsOutcomes, Returns
<1>1. CASE Begins
  <2>1. making' = [at |-> "records", time |-> file, fallen |-> down,
                   since |-> [sent |-> tally.sent, failed |-> tally.refused + tally.notSent]]
        /\ published' = published
    BY <1>1 DEF Begins
  <2>2. making'.at = "records" /\ making'.since.sent = tally.sent
        /\ making'.since.failed = tally.refused + tally.notSent
    BY <2>1
  <2>3. tally.sent <= tally.sent /\ tally.refused + tally.notSent <= tally.refused + tally.notSent
    BY CountedIs
  <2> QED
    BY <1>0, <2>1, <2>2, <2>3, PublishedStays DEF MakingInv
<1>2. CASE Records
  <2>1. making'.at = "figures" /\ making'.since = making.since /\ published' = published
        /\ making.at = "records"
    BY <1>2 DEF Records
  <2> QED
    BY <1>0, <2>1, PublishedStays DEF MakingInv
<1>3. CASE CountsFigures
  <2>1. making'.at = "outcomes" /\ making'.since = making.since /\ published' = published
        /\ making.at = "figures" /\ making'.counted = figures
    BY <1>3 DEF CountsFigures
  <2>2. CountedNow(making.counted)'
    <3>1. \A p \in Ports : figures[p].sent \in Nat /\ figures[p].failed \in Nat
      BY CountedIs
    <3>2. \A p \in Ports : figures[p].sent <= figures[p].sent /\ figures[p].failed <= figures[p].failed
      BY <3>1
    <3> QED
      BY <1>0, <2>1, <3>2 DEF CountedNow
  <2>3. ASSUME published # None, NEW p \in Ports
        PROVE  /\ figures[p].sent >= published.counts.ports[p].sent
               /\ figures[p].failed >= published.counts.ports[p].failed
    <3>1. /\ published.counts.ports[p].sent <= figures[p].sent
          /\ published.counts.ports[p].failed <= figures[p].failed
      BY <2>3 DEF MakingInv, Covered, CountedNow
    <3>2. published.counts \in Measured
      BY <2>3, PublishedIs
    <3>3. published.counts.ports[p].sent \in Nat /\ published.counts.ports[p].failed \in Nat
      BY <3>2 DEF Measured, Passed
    <3>4. figures[p].sent \in Nat /\ figures[p].failed \in Nat
      BY CountedIs
    <3> QED
      BY <3>1, <3>3, <3>4
  <2> QED
    BY <1>0, <2>1, <2>2, <2>3, PublishedStays DEF MakingInv
<1>4. CASE CountsOutcomes
  <2> DEFINE c == Counts(tally, making.counted)
             s == Sum([p \in Ports |-> c.ports[p].sent])
             f == Sum([p \in Ports |-> c.ports[p].failed])
  <2>1. making'.at = "made" /\ making'.since = making.since /\ published' = published
        /\ making.at = "outcomes" /\ making'.what.counts = c
    BY <1>4 DEF CountsOutcomes
  <2>2. c \in Measured
    BY <2>1, CountsIs
  <2>3. /\ \A p \in Ports : c.ports[p].sent = making.counted[p].sent /\ c.ports[p].failed = making.counted[p].failed
        /\ MeasureSent(c) = IF tally.sent < s THEN s ELSE tally.sent
        /\ MeasureFailed(c) = IF tally.refused + tally.notSent < f THEN f ELSE tally.refused + tally.notSent
    BY <2>1, MadeIs
  <2>4. s \in Nat /\ f \in Nat /\ MeasureSent(c) \in Nat /\ MeasureFailed(c) \in Nat
        /\ \A p \in Ports : c.ports[p].sent \in Nat /\ c.ports[p].failed \in Nat
    BY <2>2, MeasuredIs
  <2>5. tally.sent \in Nat /\ tally.refused \in Nat /\ tally.notSent \in Nat
    BY CountedIs
  <2> HIDE DEF c
  <2>6. Covered(c)
    <3>1. CountedNow(c.ports)
      BY <2>1, <2>3 DEF MakingInv, CountedNow
    <3>2. (MeasureSent(c) <= tally.sent \/ MeasureSent(c) <= s)
          /\ (MeasureFailed(c) <= tally.refused + tally.notSent \/ MeasureFailed(c) <= f)
      <4> HIDE DEF s, f
      <4> QED
        BY <2>3, <2>4, <2>5
    <3> QED
      BY <3>1, <3>2 DEF Covered
  <2>7. making.since.sent <= MeasureSent(c) /\ making.since.failed <= MeasureFailed(c)
    <3>1. making.since.sent \in Nat /\ making.since.failed \in Nat
      BY <2>1, MakingIs DEF Passed
    <3>2. making.since.sent <= tally.sent /\ making.since.failed <= tally.refused + tally.notSent
      BY <2>1 DEF MakingInv
    <3> HIDE DEF s, f
    <3> QED
      BY <2>3, <2>4, <2>5, <3>1, <3>2
  <2>8. ASSUME published # None PROVE NoLess(c, published.counts)
    <3> DEFINE d == published.counts
               ds == [p \in Ports |-> d.ports[p].sent]
               df == [p \in Ports |-> d.ports[p].failed]
               cs == [p \in Ports |-> c.ports[p].sent]
               cf == [p \in Ports |-> c.ports[p].failed]
    <3>1. d \in Measured /\ Covered(d)
      BY <2>8, PublishedIs DEF MakingInv
    <3>2. /\ MeasureSent(d) \in Nat /\ MeasureFailed(d) \in Nat
          /\ ds \in [Ports -> Nat] /\ df \in [Ports -> Nat]
          /\ Sum(ds) \in Nat /\ Sum(df) \in Nat
      BY <3>1, MeasuredIs
    <3>3. cs \in [Ports -> Nat] /\ cf \in [Ports -> Nat]
      BY <2>2, MeasuredIs
    <3>4. \A p \in Ports : c.ports[p].sent >= d.ports[p].sent /\ c.ports[p].failed >= d.ports[p].failed
      BY <2>1, <2>3, <2>8 DEF MakingInv
    <3>5. \A p \in Ports : ds[p] <= cs[p] /\ df[p] <= cf[p]
      <4> SUFFICES ASSUME NEW p \in Ports PROVE ds[p] <= cs[p] /\ df[p] <= cf[p]
        OBVIOUS
      <4>1. d.ports[p].sent \in Nat /\ d.ports[p].failed \in Nat
        BY <3>1, MeasuredIs
      <4> HIDE DEF d
      <4> QED
        BY <2>4, <3>4, <4>1
    <3>6. Sum(ds) <= Sum(cs) /\ Sum(df) <= Sum(cf)
      <4> HIDE DEF ds, df, cs, cf
      <4> QED
        BY <3>2, <3>3, <3>5, SumNoMore
    <3>7. /\ MeasureSent(d) <= tally.sent \/ MeasureSent(d) <= Sum(ds)
          /\ MeasureFailed(d) <= tally.refused + tally.notSent \/ MeasureFailed(d) <= Sum(df)
      BY <3>1 DEF Covered
    <3>8. Sum(cs) = s /\ Sum(cf) = f
      OBVIOUS
    <3> HIDE DEF s, f, cs, cf, ds, df, d
    <3>9. MeasureSent(c) >= MeasureSent(d) /\ MeasureFailed(c) >= MeasureFailed(d)
      BY <2>3, <2>4, <2>5, <3>2, <3>6, <3>7, <3>8
    <3> QED
      BY <3>4, <3>9 DEF NoLess, d
  <2> HIDE DEF s, f
  <2>9. Covered(making.what.counts)' /\ MeasureSent(making.what.counts)' = MeasureSent(c)
        /\ MeasureFailed(making.what.counts)' = MeasureFailed(c)
        /\ (published # None => NoLess(making.what.counts, published.counts)')
    BY <1>0, <2>1, <2>6, <2>8 DEF Covered, CountedNow, NoLess, MeasureSent, MeasureFailed, Sum, Each
  <2> QED
    BY <1>0, <2>1, <2>7, <2>9, PublishedStays DEF MakingInv
<1>5. CASE Returns
  <2>1. making.at = "made" /\ published' = making.what /\ making' = Idle
    BY <1>5 DEF Returns
  <2>2. Covered(making.what.counts)
    BY <2>1 DEF MakingInv
  <2>3. Covered(published.counts)'
    BY <1>0, <2>1, <2>2 DEF Covered, CountedNow, MeasureSent, MeasureFailed, Sum, Each
  <2> QED
    BY <2>1, <2>3 DEF MakingInv, Idle
<1> QED
  BY <1>1, <1>2, <1>3, <1>4, <1>5 DEF Makes

\* What a stopped node leaves counts what was last published.
LEMMA StoppedCounts ==
  ASSUME FiguresTypeOK, Stops
  PROVE  published'.counts = published.counts
<1>1. published \in Publications /\ published' = Stopped(published)
  BY DEF Stops, FiguresTypeOK
<1> QED
  BY <1>1 DEF Stopped, Publications

LEMMA StopsKeeps ==
  ASSUME FiguresTypeOK, FiguresTypeOK', MakingInv, Stops
  PROVE  MakingInv'
<1> USE DEF send, bounds
<1>1. published # None /\ making' = Idle /\ UNCHANGED <<figures, tally>>
  BY DEF Stops
<1>2. Covered(published.counts) /\ (published.counts)' = published.counts
  BY <1>1, StoppedCounts DEF MakingInv
<1>3. Covered(published.counts)'
  BY <1>1, <1>2 DEF Covered, CountedNow, MeasureSent, MeasureFailed, Sum, Each
<1> QED
  BY <1>1, <1>3 DEF MakingInv, Idle

LEMMA MakingKept ==
  ASSUME FiguresTypeOK, FiguresTypeOK', MakingInv, [FiguresNext]_figuresVars
  PROVE  MakingInv'
<1> USE DEF send, said, bounds, figuresVars
<1>0. Grows
  BY StepGrows
<1>1. CASE Begins \/ Makes
  BY <1>1, MakesKeeps
<1>2. CASE Stops
  BY <1>2, StopsKeeps
<1>3. ASSUME UNCHANGED <<making, published>> PROVE MakingInv'
  BY <1>0, <1>3, MakingStands
<1>4. ASSUME NEW t \in Threads, NEW p \in Ports, NEW how \in {"completed", "failed"}, Ends(t, p, how)
      PROVE  MakingInv'
  BY <1>3, <1>4 DEF Ends
<1>5. ASSUME NEW t \in Threads, NEW p \in Ports, Takes(t, p) PROVE MakingInv'
  BY <1>3, <1>5 DEF Takes
<1>6. ASSUME NEW t \in Threads, Settles(t) \/ Renewed(t) \/ Uncounted(t) PROVE MakingInv'
  BY <1>3, <1>6 DEF Settles, SettleFigures, Tell, Renewed, Uncounted
<1>7. ASSUME NEW r \in Readers, Reads(r) PROVE MakingInv'
  BY <1>3, <1>7 DEF Reads, Places, Read, Keep
<1>8. ASSUME NEW p \in Ports, Scans(p) \/ FailsElsewhere(p) \/ Lists(p) \/ LocationStops(p) PROVE MakingInv'
  BY <1>3, <1>8 DEF Scans, FailsElsewhere, Lists, LocationStops
<1>9. ASSUME NEW p \in Ports, NEW s \in index[p].failed, ActsOnFailed(p, s) \/ ActedElsewhere(p, s)
      PROVE  MakingInv'
  BY <1>3, <1>9 DEF ActsOnFailed, ActedElsewhere
<1>10. CASE Scanned \/ Refused \/ Imports \/ ListsOn \/ UNCHANGED figuresVars
  BY <1>3, <1>10 DEF Scanned, Refused, Imports, ListsOn
<1> QED
  BY <1>1, <1>2, <1>4, <1>5, <1>6, <1>7, <1>8, <1>9, <1>10 DEF FiguresNext

FiguresInv == FiguresTypeOK /\ TalliedInv /\ MakingInv

LEMMA InvBegins ==
  ASSUME FiguresInit
  PROVE  FiguresInv
<1>1. FiguresTypeOK
  BY InitTyped
<1>2. /\ \A p \in Ports : ended[p].sent = 0 /\ ended[p].failed = 0 /\ figures[p].sent = 0 /\ figures[p].failed = 0
      /\ tally.sent = 0 /\ tally.notSent = 0 /\ making = Idle /\ published = None
      /\ \A t \in Threads : reads[t] = Idle
  BY DEF FiguresInit, Readers
<1>3. (\A p, how : Counting(p, how) = {}) /\ (\A how : Telling(how) = {})
  BY <1>2 DEF Counting, Telling, Idle
<1>4. Each([p \in Ports |-> figures[p].sent]) = {} /\ Each([p \in Ports |-> figures[p].failed]) = {}
  BY <1>2 DEF Each
<1>5. Cardinality({}) = 0
  BY FS_EmptySet
<1>6. TalliedInv
  <2>1. \A p \in Ports :
          /\ ended[p].sent >= figures[p].sent + Cardinality(Counting(p, "completed"))
          /\ ended[p].failed >= figures[p].failed + Cardinality(Counting(p, "failed"))
    <3> SUFFICES ASSUME NEW p \in Ports
                 PROVE  /\ ended[p].sent >= figures[p].sent + Cardinality(Counting(p, "completed"))
                        /\ ended[p].failed >= figures[p].failed + Cardinality(Counting(p, "failed"))
      OBVIOUS
    <3>1. Cardinality(Counting(p, "completed")) = 0 /\ Cardinality(Counting(p, "failed")) = 0
      BY <1>3, <1>5
    <3> QED
      BY <1>2, <3>1
  <2>2. /\ Sum([p \in Ports |-> figures[p].sent]) = tally.sent + Cardinality(Telling("completed"))
        /\ Sum([p \in Ports |-> figures[p].failed]) = tally.notSent + Cardinality(Telling("failed"))
    <3>1. Sum([p \in Ports |-> figures[p].sent]) = 0 /\ Sum([p \in Ports |-> figures[p].failed]) = 0
      BY <1>4, <1>5, Zenon DEF Sum
    <3>2. Cardinality(Telling("completed")) = 0 /\ Cardinality(Telling("failed")) = 0
      BY <1>3, <1>5
    <3> QED
      BY <1>2, <3>1, <3>2
  <2> QED
    BY <2>1, <2>2 DEF TalliedInv
<1>7. MakingInv
  BY <1>2 DEF MakingInv, Idle
<1> QED
  BY <1>1, <1>6, <1>7 DEF FiguresInv

LEMMA InvKept ==
  ASSUME FiguresInv, [FiguresNext]_figuresVars
  PROVE  FiguresInv'
<1>1. FiguresTypeOK'
  BY StepTyped DEF FiguresInv
<1> QED
  BY <1>1, TalliedKept, MakingKept DEF FiguresInv

LEMMA InvTrue ==
  ASSUME FiguresInv
  PROVE  CountsTrue
<1> SUFFICES ASSUME making.at = "made"
             PROVE  LET counts == making.what.counts
                    IN /\ making.since.sent <= MeasureSent(counts)
                       /\ MeasureSent(counts) <= Sum([p \in Ports |-> ended[p].sent])
                       /\ making.since.failed <= MeasureFailed(counts)
                       /\ MeasureFailed(counts) <= tally.refused + Sum([p \in Ports |-> ended[p].failed])
  BY DEF CountsTrue
<1> DEFINE c == making.what.counts
           cs == [p \in Ports |-> c.ports[p].sent]
           cf == [p \in Ports |-> c.ports[p].failed]
           es == [p \in Ports |-> ended[p].sent]
           ef == [p \in Ports |-> ended[p].failed]
<1>0. FiguresTypeOK /\ TalliedInv /\ MakingInv
  BY DEF FiguresInv
<1>1. c \in Measured /\ Covered(c)
      /\ making.since.sent <= MeasureSent(c) /\ making.since.failed <= MeasureFailed(c)
  BY <1>0, PublishedIs DEF MakingInv
<1>2. /\ MeasureSent(c) \in Nat /\ MeasureFailed(c) \in Nat
      /\ cs \in [Ports -> Nat] /\ cf \in [Ports -> Nat] /\ Sum(cs) \in Nat /\ Sum(cf) \in Nat
  BY <1>1, MeasuredIs
<1>3. /\ SentAt \in [Ports -> Nat] /\ FailedAt \in [Ports -> Nat]
      /\ Sum(SentAt) \in Nat /\ Sum(FailedAt) \in Nat
      /\ \A p \in Ports : /\ ended[p].sent \in Nat /\ ended[p].failed \in Nat
                          /\ figures[p].sent \in Nat /\ figures[p].failed \in Nat
      /\ tally.sent \in Nat /\ tally.notSent \in Nat /\ tally.refused \in Nat
  BY <1>0, CountedIs
<1>4. \A p \in Ports : cs[p] <= SentAt[p] /\ cf[p] <= FailedAt[p]
  BY <1>1 DEF Covered, CountedNow, SentAt, FailedAt
<1>5. Sum(cs) <= Sum(SentAt) /\ Sum(cf) <= Sum(FailedAt)
  <2> HIDE DEF cs, cf
  <2> QED
    BY <1>2, <1>3, <1>4, SumNoMore
<1>6. es \in [Ports -> Nat] /\ ef \in [Ports -> Nat]
  BY <1>3
<1>7. \A p \in Ports : SentAt[p] <= es[p] /\ FailedAt[p] <= ef[p]
  <2> SUFFICES ASSUME NEW p \in Ports PROVE SentAt[p] <= es[p] /\ FailedAt[p] <= ef[p]
    OBVIOUS
  <2>1. /\ ended[p].sent >= figures[p].sent + Cardinality(Counting(p, "completed"))
        /\ ended[p].failed >= figures[p].failed + Cardinality(Counting(p, "failed"))
    BY <1>0 DEF TalliedInv
  <2>2. Cardinality(Counting(p, "completed")) \in Nat /\ Cardinality(Counting(p, "failed")) \in Nat
    BY ThreadsFinite
  <2>3. figures[p].sent <= ended[p].sent /\ figures[p].failed <= ended[p].failed
    BY <1>3, <2>1, <2>2
  <2> QED
    BY <2>3 DEF SentAt, FailedAt
<1>8. Sum(SentAt) <= Sum(es) /\ Sum(FailedAt) <= Sum(ef) /\ Sum(es) \in Nat /\ Sum(ef) \in Nat
  <2> HIDE DEF es, ef
  <2> QED
    BY <1>3, <1>6, <1>7, SumNoMore, EachFinite
<1>9. tally.sent <= Sum(SentAt) /\ tally.notSent <= Sum(FailedAt)
  <2>1. /\ Sum(SentAt) = tally.sent + Cardinality(Telling("completed"))
        /\ Sum(FailedAt) = tally.notSent + Cardinality(Telling("failed"))
    BY <1>0 DEF TalliedInv, SentAt, FailedAt
  <2>2. Cardinality(Telling("completed")) \in Nat /\ Cardinality(Telling("failed")) \in Nat
    BY ThreadsFinite
  <2> QED
    BY <1>3, <2>1, <2>2
<1>10. /\ MeasureSent(c) <= tally.sent \/ MeasureSent(c) <= Sum(cs)
       /\ MeasureFailed(c) <= tally.refused + tally.notSent \/ MeasureFailed(c) <= Sum(cf)
  BY <1>1 DEF Covered
<1> HIDE DEF c, cs, cf, es, ef
<1>11. MeasureSent(c) <= Sum(es) /\ MeasureFailed(c) <= tally.refused + Sum(ef)
  BY <1>2, <1>3, <1>5, <1>8, <1>9, <1>10
<1> QED
  BY <1>1, <1>11 DEF c, es, ef

\* What is published replaces no more than it counts.
LEMMA StepNeverFalls ==
  ASSUME FiguresInv, [FiguresNext]_figuresVars, published # None, published' # published
  PROVE  NoLess(published'.counts, published.counts)
<1> USE DEF send, said, bounds, figuresVars
<1>1. Returns \/ Stops
  BY DEF FiguresNext, Ends, Takes, Settles, SettleFigures, Tell, Renewed, Uncounted, Reads, Places,
         Read, Keep, Scans, FailsElsewhere, Lists, LocationStops, ActsOnFailed, ActedElsewhere, Scanned,
         Refused, Makes, Begins, Records, CountsFigures, CountsOutcomes, Imports, ListsOn
<1>2. CASE Returns
  <2>1. making.at = "made" /\ published' = making.what
    BY <1>2 DEF Returns
  <2>2. NoLess(making.what.counts, published.counts)
    BY <2>1 DEF FiguresInv, MakingInv
  <2> QED
    BY <2>1, <2>2
<1>3. CASE Stops
  <2>1. published'.counts = published.counts /\ published.counts \in Measured
    BY <1>3, StoppedCounts, PublishedIs DEF FiguresInv
  <2> QED
    BY <2>1, NoLessItself
<1> QED
  BY <1>1, <1>2, <1>3

\* Each publication counts every pass and refusal told before it was begun and
\* none that did not happen, and no measure is ever less than in the one
\* before, though figures and tally are read with no lock held across them
\* (publication.rs:223-242, 376-388, figures.rs:254-265).
THEOREM MeasuresHold == FiguresSpec => Measures
<1>1. FiguresInit => FiguresInv
  BY InvBegins
<1>2. FiguresInv /\ [FiguresNext]_figuresVars => FiguresInv'
  BY InvKept
<1>3. FiguresInv => CountsTrue
  BY InvTrue
<1>4. FiguresInv /\ [FiguresNext]_figuresVars =>
        [published # None /\ published' # published => NoLess(published'.counts, published.counts)]_figuresVars
  BY StepNeverFalls
<1> QED
  BY <1>1, <1>2, <1>3, <1>4, PTL DEF FiguresSpec, Measures, NeverFalls

----------------------------------------------------------------------------
(***************************************************************************)
(* SendClaim: every node's work on a Message bound for one Send Port.      *)
(***************************************************************************)

USE NodesAssumption, LeaseAssumption, FenceAssumption, PortAssumption

----------------------------------------------------------------------------
(* Types: what each of the building blocks of the actions leaves behind.   *)

\* A claim granted raises the fence by one, within its bound, for a lease.
LEMMA GrantType ==
  ASSUME TypeOK, NEW n \in Nodes, NEW m \in Messages, Grant(n, m)
  PROVE  /\ holder' \in [Messages -> Nodes \cup {NoNode}]
         /\ fence' \in [Messages -> 0 .. MaxFence]
         /\ left' \in [Messages -> 0 .. Lease]
  BY DEF TypeOK, Grant, Free

\* A claim given back leaves a holder, a fence and a lease, taken or not.
LEMMA ReleaseType ==
  ASSUME TypeOK, NEW n \in Nodes, NEW m \in Messages, NEW f \in Nat, Release(n, m, f)
  PROVE  /\ holder' \in [Messages -> Nodes \cup {NoNode}]
         /\ fence' \in [Messages -> 0 .. MaxFence]
         /\ left' \in [Messages -> 0 .. Lease]
<1>1. CASE IsHolder(n, m, f) /\ holder' = [holder EXCEPT ![m] = NoNode]
              /\ left' = [left EXCEPT ![m] = 0]
  BY <1>1 DEF TypeOK, Release
<1>2. CASE UNCHANGED <<holder, left>>
  BY <1>2 DEF TypeOK, Release
<1> QED
  BY <1>1, <1>2 DEF Release

\* A hand-on leaves the Journey in the state it writes, its claim ended.
LEMMA HandOnTakenType ==
  ASSUME TypeOK, NEW n \in Nodes, NEW m \in Messages, NEW f \in Nat, NEW to \in States,
         HandOnTaken(n, m, f, to)
  PROVE  /\ holder' \in [Messages -> Nodes \cup {NoNode}]
         /\ fence' \in [Messages -> 0 .. MaxFence]
         /\ left' \in [Messages -> 0 .. Lease]
         /\ state' \in [Messages -> States]
         /\ written' \in [Messages -> Nat]
  BY DEF TypeOK, HandOnTaken

\* A step of the work on a Message leaves its standing as it was.
LEMMA MoveType ==
  ASSUME TypeOK, NEW n \in Nodes, NEW m \in Messages, NEW p \in Phases, Move(n, m, p)
  PROVE  /\ phase' \in [Nodes -> [Messages -> Phases]]
         /\ token' \in [Nodes -> [Messages -> Nat]]
         /\ till' \in [Nodes -> [Messages -> 0 .. Lease]]
         /\ lost' \in [Nodes -> [Messages -> BOOLEAN]]
  BY DEF TypeOK, Move

\* A claim taken up is counted for at most a lease.
LEMMA ClaimedType ==
  ASSUME TypeOK, NEW n \in Nodes, NEW m \in Messages, NEW p \in Phases, Claimed(n, m, p)
  PROVE  /\ phase' \in [Nodes -> [Messages -> Phases]]
         /\ token' \in [Nodes -> [Messages -> Nat]]
         /\ till' \in [Nodes -> [Messages -> 0 .. Lease]]
         /\ lost' \in [Nodes -> [Messages -> BOOLEAN]]
  BY DEF TypeOK, Claimed

\* A pass that ended keeps nothing of what it tried.
LEMMA EndedType ==
  ASSUME TypeOK, NEW n \in Nodes, NEW m \in Messages, LetGo(n, m) \/ Ended(n, m)
  PROVE  /\ phase' \in [Nodes -> [Messages -> Phases]]
         /\ token' \in [Nodes -> [Messages -> Nat]]
         /\ till' \in [Nodes -> [Messages -> 0 .. Lease]]
         /\ lost' \in [Nodes -> [Messages -> BOOLEAN]]
         /\ at' \in [Nodes -> [Messages -> Nat]]
         /\ progress' \in [Nodes -> [Messages -> Nat \X Nat]]
         /\ went' \in [Nodes -> [Messages -> Outcomes]]
<1>1. "idle" \in Phases /\ "settling" \in Phases /\ "none" \in Outcomes
  BY DEF Phases, Owned, Outcomes
<1>2. CASE LetGo(n, m)
  BY <1>1, <1>2 DEF TypeOK, LetGo
<1>3. CASE Ended(n, m)
  BY <1>1, <1>3, MoveType DEF TypeOK, Ended
<1> QED
  BY <1>2, <1>3

\* A Location tried and not sent leaves a Location and a count of tries.
LEMMA NotSentType ==
  ASSUME TypeOK, NEW n \in Nodes, NEW m \in Messages, NEW r \in BOOLEAN, NotSent(n, m, r)
  PROVE  /\ phase' \in [Nodes -> [Messages -> Phases]]
         /\ token' \in [Nodes -> [Messages -> Nat]]
         /\ till' \in [Nodes -> [Messages -> 0 .. Lease]]
         /\ lost' \in [Nodes -> [Messages -> BOOLEAN]]
         /\ progress' \in [Nodes -> [Messages -> Nat \X Nat]]
         /\ went' \in [Nodes -> [Messages -> Outcomes]]
<1>1. /\ "tried" \in Phases /\ "head" \in Phases
      /\ "waiting" \in Outcomes /\ "given" \in Outcomes
  BY DEF Phases, Owned, Outcomes
<1>2. PICK p \in Nat \X Nat, q \in Phases, w \in Outcomes :
        /\ progress' = [progress EXCEPT ![n][m] = p]
        /\ went' = [went EXCEPT ![n][m] = w]
        /\ Move(n, m, q)
  <2> DEFINE p == progress[n][m]
  <2>1. /\ p \in Nat \X Nat /\ p[1] \in Nat /\ p[2] \in Nat
        /\ <<p[1], p[2] + 1>> \in Nat \X Nat /\ <<p[1] + 1, 0>> \in Nat \X Nat
    BY DEF TypeOK
  <2>2. CASE r /\ p[2] + 1 < Tries
    BY <1>1, <2>1, <2>2 DEF NotSent
  <2>3. CASE ~(r /\ p[2] + 1 < Tries) /\ NextLocation(n, p)
    BY <1>1, <2>1, <2>3 DEF NotSent
  <2>4. CASE ~(r /\ p[2] + 1 < Tries) /\ ~NextLocation(n, p)
    BY <1>1, <2>1, <2>4 DEF NotSent
  <2> QED
    BY <2>2, <2>3, <2>4
<1> QED
  BY <1>2, MoveType DEF TypeOK

\* What a pass hands on has the Ledger's types.
LEMMA WrittenType ==
  ASSUME TypeOK, NEW n \in Nodes, NEW m \in Messages, NEW w, Written(n, m, w)
  PROVE  /\ holder' \in [Messages -> Nodes \cup {NoNode}]
         /\ fence' \in [Messages -> 0 .. MaxFence]
         /\ left' \in [Messages -> 0 .. Lease]
         /\ state' \in [Messages -> States]
         /\ written' \in [Messages -> Nat]
         /\ place' \in [Messages -> Nat]
         /\ waits' \in [Messages -> BOOLEAN]
         /\ attempts' \in [Messages -> Nat \X Nat]
<1>1. token[n][m] \in Nat /\ progress[n][m] \in Nat \X Nat
  BY DEF TypeOK
<1>2. PICK to \in States : HandOnTaken(n, m, token[n][m], to)
  BY DEF Written, States
<1>3. place' \in [Messages -> Nat] /\ waits' \in [Messages -> BOOLEAN]
  <2>1. CASE Completes(m)
    BY <2>1 DEF TypeOK, Completes
  <2>2. CASE Recovers(m)
    BY <2>2 DEF TypeOK, Recovers
  <2>3. CASE Fails
    BY <2>3 DEF TypeOK, Fails
  <2> QED
    BY <2>1, <2>2, <2>3 DEF Written
<1> QED
  BY <1>1, <1>2, <1>3, HandOnTakenType DEF TypeOK, Written

\* A stage of an operator's act is one of the acts.
LEMMA ActType ==
  ASSUME TypeOK, NEW n \in Nodes, NEW m \in Messages,
         NEW s \in {"claimed", "checked", "written"}, NEW f \in Nat,
         ActAt(n, m, s, f) \/ ActEnds(n, m)
  PROVE  act' \in [Nodes -> [Messages -> Acts]]
<1>1. act[n][m] \in Acts
  BY DEF TypeOK
<1>2. NoAct \in Acts
  BY DEF NoAct, Acts
<1>3. [stage |-> s, kind |-> act[n][m].kind, seen |-> act[n][m].seen, token |-> f] \in Acts
  BY <1>1 DEF Acts
<1>4. CASE ActAt(n, m, s, f)
  BY <1>3, <1>4 DEF TypeOK, ActAt
<1>5. CASE ActEnds(n, m)
  BY <1>2, <1>5 DEF TypeOK, ActEnds
<1> QED
  BY <1>4, <1>5

----------------------------------------------------------------------------
\* The program starts with its types.
LEMMA TypeInit == Init => TypeOK
  BY DEF Init, TypeOK, States, Phases, Outcomes, NoRenewal, NoAct, Renewals, Acts

\* Every step keeps every variable in its type.
LEMMA TypeNext == TypeOK /\ [Next]_vars => TypeOK'
<1> SUFFICES ASSUME TypeOK, [Next]_vars PROVE TypeOK'
  OBVIOUS
<1>p. {"published", "claimed", "placed", "head", "edge", "sending", "tried", "settling",
       "idle", "found", "passing"} \subseteq Phases
  BY DEF Phases, Claiming, Owned, Passing
<1>o. {"none", "waiting", "sent", "given"} \subseteq Outcomes
  BY DEF Outcomes
<1> USE DEF ledgerVars, journeyVars, claimVars, passVars, standingVars, nodeVars, farVars
<1>1. ASSUME NEW n \in Nodes, NEW m \in Messages, PublishWrite(n, m) PROVE TypeOK'
  BY <1>1, GrantType, ClaimedType, <1>p DEF PublishWrite, TypeOK, Published, States
<1>2. ASSUME NEW n \in Nodes, NEW m \in Messages, PublishAnswered(n, m) PROVE TypeOK'
  BY <1>2, MoveType, <1>p, <1>o DEF PublishAnswered, TypeOK
<1>3. ASSUME NEW n \in Nodes, NEW m \in Messages, PublishUnconfirmed(n, m) PROVE TypeOK'
  BY <1>3, EndedType DEF PublishUnconfirmed, TypeOK
<1>4. ASSUME NEW n \in Nodes, NEW m \in Messages, Found(n, m) PROVE TypeOK'
  BY <1>4, MoveType, <1>p DEF Found, TypeOK
<1>5. ASSUME NEW n \in Nodes, NEW m \in Messages, ClaimGranted(n, m) PROVE TypeOK'
  BY <1>5, GrantType, ClaimedType, <1>p DEF ClaimGranted, TypeOK
<1>6. ASSUME NEW n \in Nodes, NEW m \in Messages, ClaimRefused(n, m) PROVE TypeOK'
  BY <1>6, EndedType DEF ClaimRefused, TypeOK
<1>7. ASSUME NEW n \in Nodes, NEW m \in Messages, ClaimUnanswered(n, m) PROVE TypeOK'
  BY <1>7, GrantType, EndedType DEF ClaimUnanswered, TypeOK
<1>8. ASSUME NEW n \in Nodes, NEW m \in Messages, UnderPlaced(n, m) PROVE TypeOK'
  BY <1>8, MoveType, <1>p DEF UnderPlaced, TypeOK
<1>9. ASSUME NEW n \in Nodes, NEW m \in Messages, UnderNot(n, m) PROVE TypeOK'
  <2>1. token[n][m] \in Nat
    BY DEF TypeOK
  <2>2. /\ holder' \in [Messages -> Nodes \cup {NoNode}]
        /\ fence' \in [Messages -> 0 .. MaxFence]
        /\ left' \in [Messages -> 0 .. Lease]
    BY <1>9, <2>1, ReleaseType DEF UnderNot
  <2> QED
    BY <1>9, <2>2, EndedType DEF UnderNot, TypeOK
<1>10. ASSUME NEW n \in Nodes, NEW m \in Messages, UnderWaiting(n, m) PROVE TypeOK'
  BY <1>10, MoveType, <1>p, <1>o DEF UnderWaiting, TypeOK
<1>11. ASSUME NEW n \in Nodes, NEW m \in Messages, UnderNotToSend(n, m) PROVE TypeOK'
  <2>1. token[n][m] \in Nat
    BY DEF TypeOK
  <2>2. /\ holder' \in [Messages -> Nodes \cup {NoNode}]
        /\ fence' \in [Messages -> 0 .. MaxFence]
        /\ left' \in [Messages -> 0 .. Lease]
    BY <1>11, <2>1, ReleaseType DEF UnderNotToSend
  <2> QED
    BY <1>11, <2>2, MoveType, <1>p DEF UnderNotToSend, TypeOK
<1>12. ASSUME NEW n \in Nodes, NEW m \in Messages, PassOver(n, m) PROVE TypeOK'
  <2>1. at[n][m] \in Nat
    BY DEF TypeOK
  <2>2. passed' \in [Nodes -> SUBSET (Messages \X Nat)]
    BY <1>12, <2>1 DEF PassOver, TypeOK
  <2> QED
    BY <1>12, <2>2, EndedType DEF PassOver, TypeOK
<1>13. ASSUME NEW n \in Nodes, NEW m \in Messages, Behind(n, m) PROVE TypeOK'
  <2>1. token[n][m] \in Nat
    BY DEF TypeOK
  <2>2. /\ holder' \in [Messages -> Nodes \cup {NoNode}]
        /\ fence' \in [Messages -> 0 .. MaxFence]
        /\ left' \in [Messages -> 0 .. Lease]
    BY <1>13, <2>1, ReleaseType DEF Behind
  <2> QED
    BY <1>13, <2>2, EndedType DEF Behind, TypeOK
<1>14. ASSUME NEW n \in Nodes, NEW m \in Messages, TryLocation(n, m) PROVE TypeOK'
  BY <1>14, MoveType, <1>p DEF TryLocation, TypeOK
<1>15. ASSUME NEW n \in Nodes, NEW m \in Messages, NoLocation(n, m) PROVE TypeOK'
  BY <1>15, MoveType, <1>p, <1>o DEF NoLocation, TypeOK
<1>16. ASSUME NEW n \in Nodes, NEW m \in Messages, Stop(n, m) PROVE TypeOK'
  BY <1>16, MoveType, <1>p DEF Stop, TypeOK
<1>17. ASSUME NEW n \in Nodes, NEW m \in Messages, NotTaken(n, m) PROVE TypeOK'
  <2>1. PICK r \in BOOLEAN : NotSent(n, m, r)
    BY <1>17 DEF NotTaken
  <2> QED
    BY <1>17, <2>1, NotSentType DEF NotTaken, TypeOK
<1>18. ASSUME NEW n \in Nodes, NEW m \in Messages, SendBegins(n, m) PROVE TypeOK'
  BY <1>18, MoveType, <1>p DEF SendBegins, TypeOK
<1>19. ASSUME NEW n \in Nodes, NEW m \in Messages, SendSucceeds(n, m) PROVE TypeOK'
  <2>1. progress' \in [Nodes -> [Messages -> Nat \X Nat]]
    BY <1>19 DEF SendSucceeds, TypeOK
  <2> QED
    BY <1>19, <2>1, MoveType, <1>p, <1>o DEF SendSucceeds, TypeOK
<1>20. ASSUME NEW n \in Nodes, NEW m \in Messages, SendFails(n, m) PROVE TypeOK'
  <2>1. PICK r \in BOOLEAN : NotSent(n, m, r)
    BY <1>20 DEF SendFails
  <2>2. /\ phase' \in [Nodes -> [Messages -> Phases]]
        /\ token' \in [Nodes -> [Messages -> Nat]]
        /\ till' \in [Nodes -> [Messages -> 0 .. Lease]]
        /\ lost' \in [Nodes -> [Messages -> BOOLEAN]]
        /\ progress' \in [Nodes -> [Messages -> Nat \X Nat]]
        /\ went' \in [Nodes -> [Messages -> Outcomes]]
    BY <2>1, NotSentType
  <2>3. /\ delivered' \subseteq Messages
        /\ UNCHANGED <<ledgerVars, at, passed, legible, renewing, act, begun>>
    BY <1>20 DEF SendFails, TypeOK
  <2> QED
    BY <2>2, <2>3 DEF TypeOK
<1>21. ASSUME NEW n \in Nodes, NEW m \in Messages, HandOn(n, m) PROVE TypeOK'
  BY <1>21, WrittenType, EndedType DEF HandOn, TypeOK
<1>22. ASSUME NEW n \in Nodes, NEW m \in Messages, HandOnNot(n, m) PROVE TypeOK'
  BY <1>22, EndedType DEF HandOnNot, TypeOK
<1>23. ASSUME NEW n \in Nodes, NEW m \in Messages, EndLost(n, m) PROVE TypeOK'
  BY <1>23, EndedType DEF EndLost, TypeOK
<1>24. ASSUME NEW n \in Nodes, NEW m \in Messages, EndUntried(n, m) PROVE TypeOK'
  <2>1. token[n][m] \in Nat
    BY DEF TypeOK
  <2>2. /\ holder' \in [Messages -> Nodes \cup {NoNode}]
        /\ fence' \in [Messages -> 0 .. MaxFence]
        /\ left' \in [Messages -> 0 .. Lease]
    BY <1>24, <2>1, ReleaseType DEF EndUntried
  <2> QED
    BY <1>24, <2>2, EndedType DEF EndUntried, TypeOK
<1>25. ASSUME NEW n \in Nodes, NEW m \in Messages, Panics(n, m) PROVE TypeOK'
  <2>1. token[n][m] \in Nat
    BY DEF TypeOK
  <2>2. CASE Written(n, m, "given")
    BY <1>25, <2>2, WrittenType, EndedType DEF Panics, TypeOK
  <2>3. CASE UNCHANGED journeyVars /\ Release(n, m, token[n][m])
    <3>1. /\ holder' \in [Messages -> Nodes \cup {NoNode}]
          /\ fence' \in [Messages -> 0 .. MaxFence]
          /\ left' \in [Messages -> 0 .. Lease]
      BY <2>1, <2>3, ReleaseType
    <3> QED
      BY <1>25, <2>3, <3>1, EndedType DEF Panics, TypeOK
  <2> QED
    BY <1>25, <2>2, <2>3 DEF Panics
<1>26. ASSUME NEW n \in Nodes, NEW m \in Messages, Settle(n, m) PROVE TypeOK'
  BY <1>26, EndedType DEF Settle, TypeOK
<1>27. ASSUME NEW n \in Nodes, NEW m \in Messages, ActClaims(n, m) PROVE TypeOK'
  BY <1>27, GrantType, ActType DEF ActClaims, TypeOK
<1>28. ASSUME NEW n \in Nodes, NEW m \in Messages, ActRefused(n, m) PROVE TypeOK'
  BY <1>28, ActType DEF ActRefused, TypeOK
<1>29. ASSUME NEW n \in Nodes, NEW m \in Messages, ActLooks(n, m) PROVE TypeOK'
  BY <1>29, ActType DEF ActLooks, TypeOK, Acts
<1>30. ASSUME NEW n \in Nodes, NEW m \in Messages, ActGivesBack(n, m) PROVE TypeOK'
  <2>1. act[n][m].token \in Nat
    BY DEF TypeOK, Acts
  <2>2. /\ holder' \in [Messages -> Nodes \cup {NoNode}]
        /\ fence' \in [Messages -> 0 .. MaxFence]
        /\ left' \in [Messages -> 0 .. Lease]
    BY <1>30, <2>1, ReleaseType DEF ActGivesBack
  <2>3. act' \in [Nodes -> [Messages -> Acts]]
    BY <1>30, <2>1, ActType DEF ActGivesBack
  <2> QED
    BY <1>30, <2>2, <2>3 DEF ActGivesBack, TypeOK
<1>31. ASSUME NEW n \in Nodes, NEW m \in Messages, ActWrites(n, m) PROVE TypeOK'
  <2>1. act[n][m].token \in Nat /\ {"waiting", "dismissed"} \subseteq States
    BY DEF TypeOK, Acts, States
  <2>2. act' \in [Nodes -> [Messages -> Acts]]
    BY <1>31, <2>1, ActType DEF ActWrites
  <2>3. CASE Retried(n, m)
    <3>1. place' \in [Messages -> Nat] /\ attempts' \in [Messages -> Nat \X Nat]
      BY <2>3 DEF Retried, TypeOK
    <3> QED
      BY <1>31, <2>1, <2>2, <2>3, <3>1, HandOnTakenType DEF ActWrites, Retried, TypeOK
  <2>4. CASE Dismissed(n, m)
    BY <1>31, <2>1, <2>2, <2>4, HandOnTakenType DEF ActWrites, Dismissed, TypeOK
  <2> QED
    BY <1>31, <2>3, <2>4 DEF ActWrites
<1>32. ASSUME NEW n \in Nodes, NEW m \in Messages, ActedOn(n, m) PROVE TypeOK'
  BY <1>32, ActType DEF ActedOn, TypeOK
<1>33. ASSUME NEW n \in Nodes, NEW m \in Messages,
             NEW kind \in {"retry", "dismiss"}, ActReads(n, m, kind)
      PROVE  TypeOK'
  BY <1>33 DEF ActReads, Acts, TypeOK
<1>34. ASSUME NEW n \in Nodes, ReadWhole(n) PROVE TypeOK'
  BY <1>34 DEF ReadWhole, TypeOK
<1>35. ASSUME NEW n \in Nodes, RenewAsk(n) PROVE TypeOK'
  BY <1>35 DEF RenewAsk, TypeOK, InFlight, Renewals
<1>36. ASSUME NEW n \in Nodes, RenewTaken(n) PROVE TypeOK'
  BY <1>36 DEF RenewTaken, TypeOK, Renewals
<1>37. ASSUME NEW n \in Nodes, RenewAnswered(n) PROVE TypeOK'
  <2>1. PICK c \in renewing[n].flying :
          /\ RenewedClaim(n, c)
          /\ renewing' = [renewing EXCEPT ![n] =
               IF renewing[n].flying = {c}
                 THEN NoRenewal
                 ELSE [stage |-> "answered", flying |-> renewing[n].flying \ {c},
                       held |-> renewing[n].held, till |-> renewing[n].till]]
    BY <1>37 DEF RenewAnswered
  <2>2. renewing[n] \in Renewals /\ NoRenewal \in Renewals
    BY DEF TypeOK, Renewals, NoRenewal
  <2>3. renewing' \in [Nodes -> Renewals]
    BY <2>1, <2>2 DEF TypeOK, Renewals
  <2>4. c[1] \in Messages /\ renewing[n].till \in 0 .. Lease
    BY <2>2 DEF Renewals
  <2>5. PICK t \in 0 .. Lease, l \in BOOLEAN :
          \/ till' = [till EXCEPT ![n][c[1]] = t] /\ lost' = [lost EXCEPT ![n][c[1]] = l]
          \/ UNCHANGED till /\ lost' = [lost EXCEPT ![n][c[1]] = l]
          \/ UNCHANGED <<till, lost>>
    <3>1. till[n][c[1]] \in 0 .. Lease
      BY <2>4 DEF TypeOK
    <3> QED
      BY <2>1, <2>4, <3>1 DEF RenewedClaim
  <2>6. /\ till' \in [Nodes -> [Messages -> 0 .. Lease]]
        /\ lost' \in [Nodes -> [Messages -> BOOLEAN]]
    <3>1. CASE till' = [till EXCEPT ![n][c[1]] = t] /\ lost' = [lost EXCEPT ![n][c[1]] = l]
      BY <2>4, <3>1 DEF TypeOK
    <3>2. CASE UNCHANGED till /\ lost' = [lost EXCEPT ![n][c[1]] = l]
      BY <2>4, <3>2 DEF TypeOK
    <3>3. CASE UNCHANGED <<till, lost>>
      BY <3>3 DEF TypeOK
    <3> QED
      BY <2>5, <3>1, <3>2, <3>3
  <2> QED
    BY <1>37, <2>3, <2>6 DEF RenewAnswered, TypeOK
<1>38. ASSUME NEW n \in Nodes, RenewUnanswered(n) PROVE TypeOK'
  BY <1>38 DEF RenewUnanswered, TypeOK, Renewals, NoRenewal
<1>39. ASSUME NEW n \in Nodes, Crash(n) PROVE TypeOK'
  BY <1>39, <1>p, <1>o DEF Crash, TypeOK, NoRenewal, Renewals, NoAct, Acts
<1>40. ASSUME NEW m \in Messages, PublishUnclaimed(m) PROVE TypeOK'
  BY <1>40 DEF TypeOK, PublishUnclaimed, Published, States
<1>41. ASSUME NEW m \in Messages, DueComes(m) PROVE TypeOK'
  BY <1>41 DEF TypeOK, DueComes
<1>42. ASSUME Tick PROVE TypeOK'
  BY <1>42 DEF Tick, Less, Renewals, TypeOK
<1>43. ASSUME UNCHANGED vars PROVE TypeOK'
  BY <1>43 DEF vars, TypeOK
<1> QED
  BY <1>1, <1>2, <1>3, <1>4, <1>5, <1>6, <1>7, <1>8, <1>9, <1>10, <1>11, <1>12, <1>13, <1>14, <1>15, <1>16, <1>17, <1>18, <1>19, <1>20, <1>21, <1>22, <1>23, <1>24, <1>25, <1>26, <1>27, <1>28, <1>29, <1>30, <1>31, <1>32, <1>33, <1>34, <1>35, <1>36, <1>37, <1>38, <1>39, <1>40, <1>41, <1>42, <1>43 DEF Next, TakeUp, Pass, Act, Renew

\* Every reachable state has its types, and no node ever counts on a claim for
\* more than a lease.
THEOREM TypeCorrect == Spec => []TypeOK
  BY TypeInit, TypeNext, PTL DEF Spec

----------------------------------------------------------------------------
(* The claims: the inductive invariant.                                    *)

\* A Location tried and not sent leaves the claim and its standing alone.
LEMMA NotSentMoves ==
  ASSUME NEW n \in Nodes, NEW m \in Messages, NEW r \in BOOLEAN, NotSent(n, m, r)
  PROVE  \E q \in {"tried", "head"} : Move(n, m, q)
<1> DEFINE p == progress[n][m]
<1>1. CASE r /\ p[2] + 1 < Tries
  BY <1>1 DEF NotSent
<1>2. CASE ~(r /\ p[2] + 1 < Tries) /\ NextLocation(n, p)
  BY <1>2 DEF NotSent
<1>3. CASE ~(r /\ p[2] + 1 < Tries) /\ ~NextLocation(n, p)
  BY <1>3 DEF NotSent
<1> QED
  BY <1>1, <1>2, <1>3

\* The hand-on of a pass ends its claim, touches no other Message, and leaves
\* a Message that was published.
LEMMA WrittenEnds ==
  ASSUME TypeOK, NEW n \in Nodes, NEW m \in Messages, NEW w, Written(n, m, w)
  PROVE  /\ IsHolder(n, m, token[n][m])
         /\ holder' = [holder EXCEPT ![m] = NoNode]
         /\ left' = [left EXCEPT ![m] = 0]
         /\ fence' = fence
         /\ \A k \in Messages \ {m} :
              state'[k] = state[k] /\ place'[k] = place[k] /\ waits'[k] = waits[k]
         /\ state'[m] # "unborn"
<1>1. PICK to \in {"completed", "failed", "waiting"} : HandOnTaken(n, m, token[n][m], to)
  BY DEF Written
<1>2. Completes(m) \/ Recovers(m) \/ Fails
  BY DEF Written
<1>3. \A k \in Messages \ {m} : place'[k] = place[k] /\ waits'[k] = waits[k]
  BY <1>2 DEF TypeOK, Completes, Recovers, Fails
<1> QED
  BY <1>1, <1>3 DEF TypeOK, HandOnTaken

\* A step on one published Message disturbs no other.
LEMMA BornKept ==
  ASSUME BornInv, NEW m \in Messages, state'[m] # "unborn",
         \A k \in Messages \ {m} :
           /\ state'[k] = state[k]
           /\ waits'[k] = waits[k]
           /\ \A i \in Nodes : phase'[i][k] = phase[i][k] /\ act'[i][k] = act[i][k]
  PROVE  BornInv'
  BY DEF BornInv

\* Nothing works on an unpublished Message: what takes one up finds it in the
\* queue, and an act finds it failed.
LEMMA BornNext == TypeOK /\ BornInv /\ [Next]_vars => BornInv'
<1> SUFFICES ASSUME TypeOK, BornInv, [Next]_vars PROVE BornInv'
  OBVIOUS
<1>t. /\ state \in [Messages -> States]
      /\ waits \in [Messages -> BOOLEAN]
      /\ phase \in [Nodes -> [Messages -> Phases]]
      /\ act \in [Nodes -> [Messages -> Acts]]
  BY DEF TypeOK
<1> USE DEF ledgerVars, journeyVars, standingVars, nodeVars
<1>1. ASSUME NEW n \in Nodes, NEW m \in Messages, TakeUp(n, m) PROVE BornInv'
  <2>1. /\ \A k \in Messages \ {m} : state'[k] = state[k]
        /\ UNCHANGED <<waits, act>>
    BY <1>1, <1>t DEF TakeUp, PublishWrite, Published, PublishAnswered, PublishUnconfirmed,
       Found, ClaimGranted, ClaimRefused, ClaimUnanswered, UnderPlaced, UnderNot,
       UnderWaiting, UnderNotToSend, PassOver
  <2>2. \A i \in Nodes, k \in Messages \ {m} : phase'[i][k] = phase[i][k]
    <3>1. \/ \E q : Move(n, m, q)
          \/ \E q : Claimed(n, m, q)
          \/ LetGo(n, m)
      BY <1>1 DEF TakeUp, PublishWrite, PublishAnswered, PublishUnconfirmed,
         Found, ClaimGranted, ClaimRefused, ClaimUnanswered, UnderPlaced, UnderNot,
         UnderWaiting, UnderNotToSend, PassOver
    <3>2. \E q : phase' = [phase EXCEPT ![n][m] = q]
      BY <3>1 DEF Move, Claimed, LetGo
    <3> QED
      BY <1>t, <3>2
  <2>3. state'[m] # "unborn"
    <3>1. CASE PublishWrite(n, m)
      BY <1>t, <3>1 DEF PublishWrite, Published
    <3>2. CASE Found(n, m)
      BY <3>2 DEF Found, InDuePart
    <3>3. CASE ~PublishWrite(n, m) /\ ~Found(n, m)
      <4>1. phase[n][m] # "idle" /\ state' = state
        BY <1>1, <3>3 DEF TakeUp, PublishAnswered, PublishUnconfirmed, ClaimGranted,
           ClaimRefused, ClaimUnanswered, UnderPlaced, UnderNot, UnderWaiting,
           UnderNotToSend, PassOver
      <4> QED
        BY <4>1 DEF BornInv
    <3> QED
      BY <3>1, <3>2, <3>3
  <2> QED
    BY <2>1, <2>2, <2>3, BornKept
<1>2. ASSUME NEW n \in Nodes, NEW m \in Messages, Pass(n, m) PROVE BornInv'
  <2>1. state[m] # "unborn" /\ act' = act
    BY <1>2 DEF BornInv, Pass, Behind, TryLocation, NoLocation, Stop, NotTaken, SendBegins,
       SendSucceeds, SendFails, HandOn, HandOnNot, Writes, EndLost, EndUntried, Panics,
       Passing, Settle
  <2>2. \A i \in Nodes, k \in Messages \ {m} : phase'[i][k] = phase[i][k]
    <3>1. CASE NotTaken(n, m) \/ SendFails(n, m)
      <4>1. PICK r \in BOOLEAN : NotSent(n, m, r)
        BY <3>1 DEF NotTaken, SendFails
      <4>2. PICK q \in {"tried", "head"} : Move(n, m, q)
        BY <4>1, NotSentMoves
      <4> QED
        BY <1>t, <4>2 DEF Move
    <3>2. CASE ~(NotTaken(n, m) \/ SendFails(n, m))
      <4>1. (\E q : Move(n, m, q)) \/ LetGo(n, m)
        BY <1>2, <3>2 DEF Pass, Behind, TryLocation, NoLocation, Stop, SendBegins,
           SendSucceeds, HandOn, HandOnNot, EndLost, EndUntried, Panics, Settle, Ended
      <4> QED
        BY <1>t, <4>1 DEF Move, LetGo
    <3> QED
      BY <3>1, <3>2
  <2>3. /\ \A k \in Messages \ {m} : state'[k] = state[k] /\ waits'[k] = waits[k]
        /\ state'[m] # "unborn"
    <3>1. CASE UNCHANGED <<state, waits>>
      BY <2>1, <3>1
    <3>2. CASE \E w : Written(n, m, w)
      BY <3>2, WrittenEnds
    <3> QED
      BY <1>2, <3>1, <3>2 DEF Pass, Behind, TryLocation, NoLocation, Stop, NotTaken,
         SendBegins, SendSucceeds, SendFails, HandOn, HandOnNot, EndLost, EndUntried,
         Panics, Settle
  <2> QED
    BY <2>1, <2>2, <2>3, BornKept
<1>3. ASSUME NEW n \in Nodes, NEW m \in Messages, Act(n, m) PROVE BornInv'
  <2>1. state[m] # "unborn" /\ UNCHANGED <<phase, waits>>
    <3>1. CASE \E kind \in {"retry", "dismiss"} : ActReads(n, m, kind)
      BY <3>1 DEF ActReads
    <3>2. CASE ActWrites(n, m)
      BY <3>2 DEF BornInv, ActWrites, Retried, Dismissed
    <3>3. CASE ActClaims(n, m) \/ ActRefused(n, m) \/ ActLooks(n, m) \/ ActGivesBack(n, m)
                 \/ ActedOn(n, m)
      BY <3>3 DEF BornInv, ActClaims, ActRefused, ActLooks, ActGivesBack, ActedOn
    <3> QED
      BY <1>3, <3>1, <3>2, <3>3 DEF Act
  <2>2. \A i \in Nodes, k \in Messages \ {m} : act'[i][k] = act[i][k]
    <3>1. \E new : act' = [act EXCEPT ![n][m] = new]
      BY <1>3 DEF Act, ActReads, ActClaims, ActRefused, ActLooks, ActGivesBack, ActWrites,
         ActedOn, ActAt, ActEnds
    <3> QED
      BY <1>t, <3>1
  <2>3. state'[m] # "unborn" /\ \A k \in Messages \ {m} : state'[k] = state[k]
    <3>1. CASE ActWrites(n, m)
      <4>1. PICK to \in {"waiting", "dismissed"} : HandOnTaken(n, m, act[n][m].token, to)
        BY <3>1 DEF ActWrites, Retried, Dismissed
      <4> QED
        BY <1>t, <4>1 DEF HandOnTaken
    <3>2. CASE ~ActWrites(n, m)
      BY <1>3, <2>1, <3>2 DEF Act, ActReads, ActClaims, ActRefused, ActLooks, ActGivesBack,
         ActedOn
    <3> QED
      BY <3>1, <3>2
  <2> QED
    BY <2>1, <2>2, <2>3, BornKept
<1>4. ASSUME NEW n \in Nodes, Crash(n) PROVE BornInv'
  BY <1>t, <1>4 DEF BornInv, Crash, NoAct
<1>5. ASSUME NEW n \in Nodes, ReadWhole(n) \/ Renew(n) PROVE BornInv'
  <2>1. UNCHANGED <<state, waits, phase, act>>
    BY <1>5 DEF ReadWhole, Renew, RenewAsk, RenewTaken, RenewAnswered, RenewUnanswered
  <2> QED
    BY <2>1 DEF BornInv
<1>6. ASSUME NEW m \in Messages, PublishUnclaimed(m) PROVE BornInv'
  <2>1. state' = [state EXCEPT ![m] = "waiting"] /\ UNCHANGED <<waits, phase, act>>
    BY <1>6 DEF PublishUnclaimed, Published
  <2> QED
    BY <1>t, <2>1, BornKept
<1>7. ASSUME NEW m \in Messages, DueComes(m) PROVE BornInv'
  <2>1. waits' = [waits EXCEPT ![m] = FALSE] /\ UNCHANGED <<state, phase, act>>
    BY <1>7 DEF DueComes
  <2> QED
    BY <1>t, <2>1 DEF BornInv
<1>8. ASSUME Tick \/ UNCHANGED vars PROVE BornInv'
  <2>1. UNCHANGED <<state, waits, phase, act>>
    BY <1>8 DEF Tick, vars
  <2> QED
    BY <2>1 DEF BornInv
<1> QED
  BY <1>1, <1>2, <1>3, <1>4, <1>5, <1>6, <1>7, <1>8 DEF Next

\* A claim given back, or not, at the end of a pass or of an act: nobody else
\* worked under it.
LEMMA GivenBack ==
  ASSUME TypeOK, HeldInv, NEW n \in Nodes, NEW m \in Messages, NEW f, Release(n, m, f),
         UNCHANGED <<journeyVars, token, till, renewing, begun>>,
         \/ /\ phase' = [phase EXCEPT ![n][m] = "settling"]
            /\ at' = [at EXCEPT ![n][m] = 0]
            /\ act' = act
            /\ f = token[n][m]
         \/ /\ UNCHANGED <<phase, at>>
            /\ ActEnds(n, m)
            /\ f = act[n][m].token
            /\ act[n][m].stage \in {"claimed", "checked"}
  PROVE  HeldInv'
<1>t. /\ holder \in [Messages -> Nodes \cup {NoNode}]
      /\ fence \in [Messages -> Nat]
      /\ left \in [Messages -> Nat]
      /\ phase \in [Nodes -> [Messages -> Phases]]
      /\ at \in [Nodes -> [Messages -> Nat]]
      /\ token \in [Nodes -> [Messages -> Nat]]
      /\ till \in [Nodes -> [Messages -> Nat]]
      /\ renewing \in [Nodes -> Renewals]
      /\ act \in [Nodes -> [Messages -> Acts]]
  BY LeaseAssumption, FenceAssumption DEF TypeOK
<1>1. \A k \in Nodes, j \in Messages :
        \/ phase'[k][j] = phase[k][j] /\ at'[k][j] = at[k][j]
        \/ phase'[k][j] = "settling"
  <2>1. CASE phase' = [phase EXCEPT ![n][m] = "settling"] /\ at' = [at EXCEPT ![n][m] = 0]
    BY <1>t, <2>1
  <2>2. CASE UNCHANGED <<phase, at>>
    BY <2>2
  <2> QED
    BY <2>1, <2>2
<1>2. \A k \in Nodes, j \in Messages : act'[k][j] = act[k][j] \/ act'[k][j] = NoAct
  <2>1. CASE act' = act
    BY <2>1
  <2>2. CASE ActEnds(n, m)
    BY <1>t, <2>2 DEF ActEnds
  <2> QED
    BY <2>1, <2>2
<1>3. fence' = fence
  BY DEF Release
<1>4. ASSUME NEW k \in Nodes, NEW j \in Messages, phase'[k][j] \in Claiming,
             IsHolder(k, j, token[k][j])
      PROVE  holder'[j] = holder[j] /\ left'[j] = left[j]
  <2>1. CASE UNCHANGED <<holder, left>>
    BY <2>1
  <2>2. CASE /\ IsHolder(n, m, f)
             /\ holder' = [holder EXCEPT ![m] = NoNode]
             /\ left' = [left EXCEPT ![m] = 0]
    <3>1. CASE j = m
      <4>1. k = n /\ token[n][m] = f
        BY <1>4, <2>2, <3>1 DEF IsHolder
      <4>2. phase'[n][m] # "settling"
        BY <1>4, <3>1, <4>1 DEF Claiming, Passing
      <4>3. /\ UNCHANGED phase
            /\ f = act[n][m].token
            /\ act[n][m].stage \in {"claimed", "checked"}
        BY <1>t, <4>2
      <4> QED
        BY <1>4, <3>1, <4>1, <4>3 DEF HeldInv, ApartInv
    <3>2. CASE j # m
      BY <1>t, <2>2, <3>2
    <3> QED
      BY <3>1, <3>2
  <2> QED
    BY <2>1, <2>2 DEF Release
<1>5. FenceInv'
  <2>1. \A k \in Nodes, j \in Messages : act'[k][j].token <= fence[j]
    <3> SUFFICES ASSUME NEW k \in Nodes, NEW j \in Messages PROVE act'[k][j].token <= fence[j]
      OBVIOUS
    <3>1. fence[j] \in Nat /\ act[k][j].token <= fence[j]
      BY <1>t DEF HeldInv, FenceInv
    <3>2. NoAct.token = 0
      BY DEF NoAct
    <3> QED
      BY <1>2, <3>1, <3>2
  <2> QED
    BY <1>3, <2>1 DEF HeldInv, FenceInv
<1>6. ApartInv'
  <2>1. NoAct.stage = "none"
    BY DEF NoAct
  <2>2. "settling" \notin Claiming
    BY DEF Claiming, Passing
  <2> QED
    BY <1>1, <1>2, <2>1, <2>2 DEF HeldInv, ApartInv
<1>7. "settling" \notin Claiming
  BY DEF Claiming, Passing
<1>8. LeaseInv'
  BY <1>1, <1>3, <1>4, <1>7 DEF HeldInv, LeaseInv, IsHolder
<1>9. RenewInv'
  <2>1. \A k \in Nodes : \A c \in renewing[k].held : c[1] \in Messages
    BY <1>t DEF Renewals
  <2> QED
    BY <1>1, <1>3, <1>4, <1>7, <2>1 DEF HeldInv, RenewInv, IsHolder
<1>10. ReadInv'
  <2> SUFFICES ASSUME NEW k \in Nodes, NEW j \in Messages, IsHolder(k, j, token[k][j])'
               PROVE  (/\ phase[k][j] \in {"placed"} \cup Passing => place[j] = at[k][j] /\ ~waits[j]
                       /\ phase[k][j] = "published" => place[j] = 1 /\ ~waits[j]
                       /\ phase[k][j] \in {"published"} \cup Passing => state[j] = "waiting")'
    BY DEF ReadInv
  <2>1. holder'[j] = holder[j]
    BY <1>t, NodesAssumption DEF Release, IsHolder
  <2>2. IsHolder(k, j, token[k][j])
    BY <1>3, <2>1 DEF IsHolder
  <2>3. CASE phase'[k][j] = "settling"
    BY <2>3 DEF Passing
  <2>4. CASE phase'[k][j] = phase[k][j] /\ at'[k][j] = at[k][j]
    BY <2>2, <2>4 DEF HeldInv, ReadInv, journeyVars
  <2> QED
    BY <1>1, <2>3, <2>4
<1> QED
  BY <1>5, <1>6, <1>8, <1>9, <1>10 DEF HeldInv

\* A pass handed on: its claim was the live one, so nobody else worked on the
\* Message.
LEMMA HandedOn ==
  ASSUME TypeOK, HeldInv, NEW n \in Nodes, NEW m \in Messages, NEW w, Written(n, m, w),
         Ended(n, m), UNCHANGED <<renewing, act, begun>>
  PROVE  HeldInv'
<1>t. /\ holder \in [Messages -> Nodes \cup {NoNode}]
      /\ left \in [Messages -> Nat]
      /\ phase \in [Nodes -> [Messages -> Phases]]
      /\ at \in [Nodes -> [Messages -> Nat]]
      /\ renewing \in [Nodes -> Renewals]
  BY LeaseAssumption DEF TypeOK
<1>1. /\ IsHolder(n, m, token[n][m])
      /\ holder' = [holder EXCEPT ![m] = NoNode]
      /\ left' = [left EXCEPT ![m] = 0]
      /\ fence' = fence
      /\ \A k \in Messages \ {m} :
           state'[k] = state[k] /\ place'[k] = place[k] /\ waits'[k] = waits[k]
  BY WrittenEnds
<1>2. /\ phase' = [phase EXCEPT ![n][m] = "settling"]
      /\ at' = [at EXCEPT ![n][m] = 0]
      /\ UNCHANGED <<token, till>>
  BY DEF Ended, Move
<1>3. "settling" \notin Claiming
  BY DEF Claiming, Passing
<1>4. FenceInv' /\ ApartInv'
  BY <1>t, <1>1, <1>2, <1>3 DEF HeldInv, FenceInv, ApartInv
<1>5. LeaseInv'
  BY <1>t, <1>1, <1>2, <1>3 DEF HeldInv, LeaseInv, IsHolder
<1>6. RenewInv'
  <2>1. \A k \in Nodes : \A c \in renewing[k].held : c[1] \in Messages
    BY <1>t DEF Renewals
  <2> QED
    BY <1>t, <1>1, <1>2, <1>3, <2>1 DEF HeldInv, RenewInv, IsHolder
<1>7. ReadInv'
  <2> SUFFICES ASSUME NEW k \in Nodes, NEW j \in Messages, IsHolder(k, j, token[k][j])'
               PROVE  (/\ phase[k][j] \in {"placed"} \cup Passing => place[j] = at[k][j] /\ ~waits[j]
                       /\ phase[k][j] = "published" => place[j] = 1 /\ ~waits[j]
                       /\ phase[k][j] \in {"published"} \cup Passing => state[j] = "waiting")'
    BY DEF ReadInv
  <2>1. j # m
    BY <1>t, <1>1, NodesAssumption DEF IsHolder
  <2>2. /\ IsHolder(k, j, token[k][j])
        /\ phase'[k][j] = phase[k][j]
        /\ at'[k][j] = at[k][j]
    BY <1>t, <1>1, <1>2, <2>1 DEF IsHolder
  <2> QED
    BY <1>1, <2>1, <2>2 DEF HeldInv, ReadInv
<1> QED
  BY <1>4, <1>5, <1>6, <1>7 DEF HeldInv

\* Every step keeps the rest of the invariant: only the holder of the live claim on a
\* Message writes it, and only Xmip Storage's own count lets a claim go.
LEMMA HeldNext == TypeOK /\ TypeOK' /\ BornInv /\ HeldInv /\ [Next]_vars => HeldInv'
<1> SUFFICES ASSUME TypeOK, TypeOK', BornInv, HeldInv, [Next]_vars PROVE HeldInv'
  OBVIOUS
<1> USE DEF TypeOK, HeldInv, FenceInv, ApartInv, LeaseInv, RenewInv, ReadInv, IsHolder,
     ledgerVars, journeyVars, claimVars, passVars, standingVars, nodeVars, farVars,
     Claiming, Passing, Owned, Renewals, Acts
<1>1. ASSUME NEW n \in Nodes, NEW m \in Messages, PublishWrite(n, m) PROVE HeldInv'
  <2>1. PICK rest \in 0 .. Lease :
          /\ phase' = [phase EXCEPT ![n][m] = "published"]
          /\ token' = [token EXCEPT ![n][m] = fence[m] + 1]
          /\ till' = [till EXCEPT ![n][m] = rest]
    BY <1>1 DEF PublishWrite, Claimed
  <2>2. /\ \A k \in Nodes : phase[k][m] = "idle" /\ act[k][m].stage = "none"
        /\ ~waits[m]
    <3>1. state[m] = "unborn"
      BY <1>1 DEF PublishWrite, Published
    <3> QED
      BY <3>1 DEF BornInv
  <2>3. FenceInv' /\ ApartInv'
    BY <1>1, <2>1, <2>2 DEF PublishWrite, Published, Grant
  <2>4. LeaseInv'
    BY <1>1, <2>1, <2>2 DEF PublishWrite, Published, Grant
  <2>6. RenewInv'
    <3> SUFFICES ASSUME NEW k \in Nodes, NEW c \in renewing'[k].held,
                        phase'[k][c[1]] \in Claiming, token'[k][c[1]] = c[2],
                        renewing'[k].till > 0
                 PROVE  (IsHolder(k, c[1], c[2]) /\ left[c[1]] >= renewing[k].till)'
      OBVIOUS
    <3>1. renewing' = renewing /\ c \in renewing[k].held
      BY <1>1 DEF PublishWrite
    <3>2. c[1] \in Messages /\ c[2] \in Nat /\ c[2] <= fence[c[1]]
      BY <3>1
    <3>3. CASE c[1] = m
      <4>1. phase'[k][m] # "idle"
        BY <3>3
      <4>2. k = n
        BY <4>1, <2>1, <2>2
      <4>3. token'[k][m] = fence[m] + 1
        BY <4>2, <2>1
      <4> QED
        BY <3>2, <3>3, <4>3
    <3>4. CASE c[1] # m
      <4>1. phase'[k][c[1]] = phase[k][c[1]] /\ token'[k][c[1]] = token[k][c[1]]
        BY <2>1, <3>2, <3>4
      <4>2. holder'[c[1]] = holder[c[1]] /\ fence'[c[1]] = fence[c[1]] /\ left'[c[1]] = left[c[1]]
        BY <1>1, <3>2, <3>4 DEF PublishWrite, Grant
      <4>3. IsHolder(k, c[1], c[2]) /\ left[c[1]] >= renewing[k].till
        BY <3>1, <4>1
      <4> QED
        BY <3>1, <4>2, <4>3
    <3> QED
      BY <3>3, <3>4
  <2>5. ReadInv'
    BY <1>1, <2>1, <2>2 DEF PublishWrite, Published, Grant
  <2> QED
    BY <2>3, <2>4, <2>5, <2>6
<1>2. ASSUME NEW n \in Nodes, NEW m \in Messages, PublishAnswered(n, m) PROVE HeldInv'
  BY <1>2 DEF PublishAnswered, Move
<1>3. ASSUME NEW n \in Nodes, NEW m \in Messages, PublishUnconfirmed(n, m) PROVE HeldInv'
  BY <1>3 DEF PublishUnconfirmed, LetGo
<1>4. ASSUME NEW n \in Nodes, NEW m \in Messages, Found(n, m) PROVE HeldInv'
  BY <1>4 DEF Found, Move, InDuePart
<1>5. ASSUME NEW n \in Nodes, NEW m \in Messages, ClaimGranted(n, m) PROVE HeldInv'
  BY <1>5 DEF ClaimGranted, Grant, Claimed, Free
<1>6. ASSUME NEW n \in Nodes, NEW m \in Messages, ClaimRefused(n, m) PROVE HeldInv'
  BY <1>6 DEF ClaimRefused, LetGo
<1>7. ASSUME NEW n \in Nodes, NEW m \in Messages, ClaimUnanswered(n, m) PROVE HeldInv'
  BY <1>7 DEF ClaimUnanswered, Grant, Free, LetGo
<1>8. ASSUME NEW n \in Nodes, NEW m \in Messages, UnderPlaced(n, m) PROVE HeldInv'
  BY <1>8 DEF UnderPlaced, Move
<1>9. ASSUME NEW n \in Nodes, NEW m \in Messages, UnderNot(n, m) PROVE HeldInv'
  BY <1>9 DEF UnderNot, Release, LetGo
<1>10. ASSUME NEW n \in Nodes, NEW m \in Messages, UnderWaiting(n, m) PROVE HeldInv'
  BY <1>10 DEF UnderWaiting, Move
<1>11. ASSUME NEW n \in Nodes, NEW m \in Messages, UnderNotToSend(n, m) PROVE HeldInv'
  BY <1>11 DEF UnderNotToSend, Release, Move
<1>12. ASSUME NEW n \in Nodes, NEW m \in Messages, PassOver(n, m) PROVE HeldInv'
  BY <1>12 DEF PassOver, LetGo
<1>13. ASSUME NEW n \in Nodes, NEW m \in Messages, Behind(n, m) PROVE HeldInv'
  BY <1>13, GivenBack DEF Behind, Ended, Move
<1>14. ASSUME NEW n \in Nodes, NEW m \in Messages, TryLocation(n, m) PROVE HeldInv'
  BY <1>14 DEF TryLocation, Move
<1>15. ASSUME NEW n \in Nodes, NEW m \in Messages, NoLocation(n, m) PROVE HeldInv'
  BY <1>15 DEF NoLocation, Move
<1>16. ASSUME NEW n \in Nodes, NEW m \in Messages, Stop(n, m) PROVE HeldInv'
  BY <1>16 DEF Stop, Move
<1>17. ASSUME NEW n \in Nodes, NEW m \in Messages, NotTaken(n, m) PROVE HeldInv'
  <2>1. PICK r \in BOOLEAN : NotSent(n, m, r)
    BY <1>17 DEF NotTaken
  <2>2. PICK q \in {"tried", "head"} : Move(n, m, q)
    BY <2>1, NotSentMoves
  <2> QED
    BY <1>17, <2>2 DEF NotTaken, Move
<1>18. ASSUME NEW n \in Nodes, NEW m \in Messages, SendBegins(n, m) PROVE HeldInv'
  BY <1>18 DEF SendBegins, Move, Holds
<1>19. ASSUME NEW n \in Nodes, NEW m \in Messages, SendSucceeds(n, m) PROVE HeldInv'
  BY <1>19 DEF SendSucceeds, Move
<1>20. ASSUME NEW n \in Nodes, NEW m \in Messages, SendFails(n, m) PROVE HeldInv'
  <2>1. PICK r \in BOOLEAN : NotSent(n, m, r)
    BY <1>20 DEF SendFails
  <2>2. PICK q \in {"tried", "head"} : Move(n, m, q)
    BY <2>1, NotSentMoves
  <2> QED
    BY <1>20, <2>2 DEF SendFails, Move
<1>21. ASSUME NEW n \in Nodes, NEW m \in Messages, HandOn(n, m) PROVE HeldInv'
  <2>1. Written(n, m, went[n][m]) /\ Ended(n, m) /\ UNCHANGED <<renewing, act, begun>>
    BY <1>21 DEF HandOn
  <2> QED
    BY <2>1, HandedOn
<1>22. ASSUME NEW n \in Nodes, NEW m \in Messages, HandOnNot(n, m) PROVE HeldInv'
  BY <1>22 DEF HandOnNot, Writes, Ended, Move
<1>23. ASSUME NEW n \in Nodes, NEW m \in Messages, EndLost(n, m) PROVE HeldInv'
  BY <1>23 DEF EndLost, Ended, Move
<1>24. ASSUME NEW n \in Nodes, NEW m \in Messages, EndUntried(n, m) PROVE HeldInv'
  BY <1>24, GivenBack DEF EndUntried, Ended, Move
<1>25. ASSUME NEW n \in Nodes, NEW m \in Messages, Panics(n, m) PROVE HeldInv'
  <2>1. CASE Written(n, m, "given")
    BY <1>25, <2>1, HandedOn DEF Panics
  <2>2. CASE UNCHANGED journeyVars /\ Release(n, m, token[n][m])
    BY <1>25, <2>2, GivenBack DEF Panics, Ended, Move
  <2> QED
    BY <1>25, <2>1, <2>2 DEF Panics
<1>26. ASSUME NEW n \in Nodes, NEW m \in Messages, Settle(n, m) PROVE HeldInv'
  BY <1>26 DEF Settle, LetGo
<1>27. ASSUME NEW n \in Nodes, NEW m \in Messages, ActClaims(n, m) PROVE HeldInv'
  <2>1. CASE ActAt(n, m, "claimed", fence[m] + 1)
    BY <1>27, <2>1 DEF ActClaims, Grant, Free, ActAt
  <2>2. CASE ActEnds(n, m)
    BY <1>27, <2>2 DEF ActClaims, Grant, Free, ActEnds, NoAct
  <2> QED
    BY <1>27, <2>1, <2>2 DEF ActClaims
<1>28. ASSUME NEW n \in Nodes, NEW m \in Messages, ActRefused(n, m) PROVE HeldInv'
  BY <1>28 DEF ActRefused, ActEnds, NoAct
<1>29. ASSUME NEW n \in Nodes, NEW m \in Messages, ActLooks(n, m) PROVE HeldInv'
  BY <1>29 DEF ActLooks, ActAt
<1>30. ASSUME NEW n \in Nodes, NEW m \in Messages, ActGivesBack(n, m) PROVE HeldInv'
  BY <1>30, GivenBack DEF ActGivesBack
<1>31. ASSUME NEW n \in Nodes, NEW m \in Messages, ActWrites(n, m) PROVE HeldInv'
  <2>1. PICK to \in {"waiting", "dismissed"} : HandOnTaken(n, m, act[n][m].token, to)
    BY <1>31 DEF ActWrites, Retried, Dismissed
  <2>2. \A k \in Messages \ {m} : place'[k] = place[k] /\ waits'[k] = waits[k]
    BY <1>31 DEF ActWrites, Retried, Dismissed
  <2>3. \A k \in Nodes, j \in Messages :
          \/ act'[k][j] = act[k][j]
          \/ act'[k][j].stage \in {"none", "written"}
               /\ act'[k][j].token \in {0, act[k][j].token}
    <3>1. CASE ActAt(n, m, "written", act[n][m].token)
      BY <3>1 DEF ActAt
    <3>2. CASE ActEnds(n, m)
      BY <3>2 DEF ActEnds, NoAct
    <3> QED
      BY <1>31, <3>1, <3>2 DEF ActWrites
  <2>5. FenceInv' /\ ApartInv'
    <3>1. UNCHANGED <<phase, token, renewing, begun>>
      BY <1>31 DEF ActWrites
    <3>2. fence' = fence
      BY <2>1 DEF HandOnTaken
    <3>3. \A k \in Nodes, j \in Messages : act'[k][j].token <= fence[j]
      <4> SUFFICES ASSUME NEW k \in Nodes, NEW j \in Messages PROVE act'[k][j].token <= fence[j]
        OBVIOUS
      <4>1. act'[k][j].token \in {0, act[k][j].token}
        BY <2>3
      <4>2. fence[j] \in Nat /\ act[k][j].token <= fence[j]
        OBVIOUS
      <4> QED
        BY <4>1, <4>2
    <3>4. FenceInv'
      BY <3>1, <3>2, <3>3
    <3>5. ApartInv'
      <4> SUFFICES ASSUME NEW k \in Nodes, NEW j \in Messages, phase[k][j] \in Claiming,
                          act'[k][j].stage \in {"claimed", "checked"}
                   PROVE  token[k][j] # act'[k][j].token
        BY <3>1
      <4>1. act'[k][j] = act[k][j]
        BY <2>3
      <4> QED
        BY <4>1
    <3> QED
      BY <3>4, <3>5
  <2>6. LeaseInv' /\ RenewInv'
    BY <1>31, <2>1 DEF ActWrites, HandOnTaken
  <2>7. ReadInv'
    BY <1>31, <2>1, <2>2 DEF ActWrites, HandOnTaken
  <2> QED
    BY <2>5, <2>6, <2>7
<1>32. ASSUME NEW n \in Nodes, NEW m \in Messages, ActedOn(n, m) PROVE HeldInv'
  BY <1>32 DEF ActedOn, ActEnds, NoAct
<1>33. ASSUME NEW n \in Nodes, NEW m \in Messages,
             NEW kind \in {"retry", "dismiss"}, ActReads(n, m, kind)
      PROVE  HeldInv'
  BY <1>33 DEF ActReads
<1>34. ASSUME NEW n \in Nodes, ReadWhole(n) PROVE HeldInv'
  BY <1>34 DEF ReadWhole
<1>35. ASSUME NEW n \in Nodes, RenewAsk(n) PROVE HeldInv'
  BY <1>35 DEF RenewAsk, InFlight
<1>36. ASSUME NEW n \in Nodes, RenewTaken(n) PROVE HeldInv'
  BY <1>36 DEF RenewTaken
<1>37. ASSUME NEW n \in Nodes, RenewAnswered(n) PROVE HeldInv'
  <2>1. PICK c \in renewing[n].flying :
          /\ RenewedClaim(n, c)
          /\ renewing' = [renewing EXCEPT ![n] =
               IF renewing[n].flying = {c}
                 THEN NoRenewal
                 ELSE [stage |-> "answered", flying |-> renewing[n].flying \ {c},
                       held |-> renewing[n].held, till |-> renewing[n].till]]
    BY <1>37 DEF RenewAnswered
  <2>2. c[1] \in Messages /\ c[2] \in Nat
    OBVIOUS
  <2>3. ApartInv' /\ ReadInv'
    BY <1>37 DEF RenewAnswered
  <2>4. \A k \in Nodes :
          /\ renewing'[k].flying \subseteq renewing[k].flying
          /\ renewing'[k].held \subseteq renewing[k].held
          /\ renewing'[k].till \in {0, renewing[k].till}
    BY <2>1 DEF NoRenewal
  <2>5. FenceInv' /\ RenewInv'
    BY <1>37, <2>4 DEF RenewAnswered
  <2>6. LeaseInv'
    <3>1. CASE phase[n][c[1]] \in Owned /\ token[n][c[1]] = c[2] /\ c \in renewing[n].held
      <4>1. till' = [till EXCEPT ![n][c[1]] =
                      IF till[n][c[1]] < renewing[n].till THEN renewing[n].till ELSE till[n][c[1]]]
        BY <2>1, <3>1 DEF RenewedClaim
      <4>2. UNCHANGED <<phase, token, holder, fence, left>>
        BY <1>37 DEF RenewAnswered
      <4>3. phase[n][c[1]] \in Claiming /\ renewing[n].till > 0 =>
              IsHolder(n, c[1], token[n][c[1]]) /\ left[c[1]] >= renewing[n].till
        BY <3>1
      <4>4. phase[n][c[1]] \in Claiming /\ till'[n][c[1]] > 0 => IsHolder(n, c[1], token[n][c[1]]) /\ left[c[1]] >= till'[n][c[1]]
        BY <2>2, <3>1, <4>1, <4>3
      <4>5. \A k \in Nodes, j \in Messages : <<k, j>> # <<n, c[1]>> => till'[k][j] = till[k][j]
        BY <2>2, <4>1
      <4>6. ASSUME NEW k \in Nodes, NEW j \in Messages, phase[k][j] \in Claiming, till'[k][j] > 0
            PROVE  IsHolder(k, j, token[k][j]) /\ left[j] >= till'[k][j]
        <5>1. CASE k = n /\ j = c[1]
          BY <4>4, <4>6, <5>1
        <5>2. CASE ~(k = n /\ j = c[1])
          <6>1. till'[k][j] = till[k][j]
            BY <4>5, <5>2
          <6> QED
            BY <4>6, <6>1
        <5> QED
          BY <5>1, <5>2
      <4> QED
        BY <4>2, <4>6
    <3>2. CASE ~(phase[n][c[1]] \in Owned /\ token[n][c[1]] = c[2] /\ c \in renewing[n].held)
      BY <1>37, <2>1, <2>2, <3>2 DEF RenewAnswered, RenewedClaim
    <3> QED
      BY <3>1, <3>2
  <2> QED
    BY <2>3, <2>5, <2>6
<1>38. ASSUME NEW n \in Nodes, RenewUnanswered(n) PROVE HeldInv'
  BY <1>38 DEF RenewUnanswered, NoRenewal
<1>39. ASSUME NEW n \in Nodes, Crash(n) PROVE HeldInv'
  BY <1>39 DEF Crash, NoRenewal, NoAct
<1>40. ASSUME NEW m \in Messages, PublishUnclaimed(m) PROVE HeldInv'
  <2>1. \A k \in Nodes : phase[k][m] = "idle"
    BY <1>40 DEF BornInv, PublishUnclaimed, Published
  <2>2. /\ state' = [state EXCEPT ![m] = "waiting"]
        /\ place' = [place EXCEPT ![m] = 1]
        /\ UNCHANGED <<waits, claimVars, nodeVars, begun>>
    BY <1>40 DEF PublishUnclaimed, Published
  <2>3. FenceInv' /\ ApartInv' /\ LeaseInv' /\ RenewInv'
    BY <2>2
  <2>4. ReadInv'
    BY <2>1, <2>2
  <2> QED
    BY <2>3, <2>4
<1>41. ASSUME NEW m \in Messages, DueComes(m) PROVE HeldInv'
  BY <1>41 DEF DueComes
<1>42. ASSUME Tick PROVE HeldInv'
  BY <1>42 DEF Tick, Less
<1>43. ASSUME UNCHANGED vars PROVE HeldInv'
  BY <1>43 DEF vars
<1> HIDE DEF TypeOK, HeldInv, FenceInv, ApartInv, LeaseInv, RenewInv, ReadInv, IsHolder,
     ledgerVars, journeyVars, claimVars, passVars, standingVars, nodeVars, farVars,
     Claiming, Passing, Owned, Renewals, Acts
<1> QED
  BY <1>1, <1>2, <1>3, <1>4, <1>5, <1>6, <1>7, <1>8, <1>9, <1>10, <1>11, <1>12, <1>13, <1>14, <1>15, <1>16, <1>17, <1>18, <1>19, <1>20, <1>21, <1>22, <1>23, <1>24, <1>25, <1>26, <1>27, <1>28, <1>29, <1>30, <1>31, <1>32, <1>33, <1>34, <1>35, <1>36, <1>37, <1>38, <1>39, <1>40, <1>41, <1>42, <1>43 DEF Next, TakeUp, Pass, Act, Renew

\* The invariant of the claims holds as the nodes start.
LEMMA ClaimInit == Init => ClaimInv
  BY DEF Init, ClaimInv, HeldInv, BornInv, FenceInv, ApartInv, LeaseInv, RenewInv, ReadInv, IsHolder,
     Claiming, Passing, NoRenewal, NoAct

\* The claims of every node stay sound: what it counts of a lease, what it
\* read under a claim and what a late renewal may still tell it agree with Xmip
\* Storage.
THEOREM ClaimsHold == Spec => []ClaimInv
<1>1. TypeOK /\ ClaimInv /\ [Next]_vars => TypeOK' /\ ClaimInv'
  BY TypeNext, BornNext, HeldNext DEF ClaimInv
<1> QED
  BY <1>1, TypeInit, ClaimInit, PTL DEF Spec

----------------------------------------------------------------------------
(* What follows from it.                                                   *)

\* Whatever requests are lost or late and whoever crashes, a node that
\* believes a Message surely its own holds the claim on it in Xmip Storage.
THEOREM HoldsIsSound == Spec => []HoldsSound
<1>1. TypeOK /\ ClaimInv => HoldsSound
  BY DEF TypeOK, ClaimInv, HeldInv, LeaseInv, HoldsSound, Holds, Claiming
<1> QED
  BY <1>1, TypeCorrect, ClaimsHold, PTL

\* No node sends what another pass or an operator has moved since it was read.
THEOREM SendsOnlyWaiting == Spec => []SendsOnlyWhatWaits
<1>1. TypeOK /\ ClaimInv => SendsOnlyWhatWaits
  BY DEF TypeOK, ClaimInv, HeldInv, LeaseInv, ReadInv, SendsOnlyWhatWaits, Holds, Claiming
<1> QED
  BY <1>1, TypeCorrect, ClaimsHold, PTL

\* The fences the far end is shown never fall.
THEOREM FencesOnlyRise == Spec => FencesRise
<1>1. TypeOK /\ ClaimInv /\ [Next]_vars => [\A m \in Messages : begun'[m] >= begun[m]]_vars
  <2> SUFFICES ASSUME TypeOK, ClaimInv, [Next]_vars
               PROVE  \A m \in Messages : begun'[m] >= begun[m]
    OBVIOUS
  <2>0. begun \in [Messages -> Nat]
    BY DEF TypeOK
  <2>1. CASE \E n \in Nodes, m \in Messages : SendBegins(n, m)
    <3>1. PICK n \in Nodes, m \in Messages : SendBegins(n, m)
      BY <2>1
    <3>2. begun[m] <= fence[m] /\ fence[m] = token[n][m]
      BY <3>1 DEF SendBegins, Holds, TypeOK, ClaimInv, HeldInv, FenceInv, LeaseInv, IsHolder,
         Claiming, Passing
    <3>3. fence[m] \in Nat
      BY DEF TypeOK
    <3> QED
      BY <2>0, <3>1, <3>2, <3>3 DEF SendBegins
  <2>2. CASE ~ \E n \in Nodes, m \in Messages : SendBegins(n, m)
    <3>1. ASSUME NEW n \in Nodes, NEW m \in Messages, TakeUp(n, m) PROVE UNCHANGED begun
      BY <3>1 DEF TakeUp, farVars, PublishWrite, PublishAnswered, PublishUnconfirmed, Found,
         ClaimGranted, ClaimRefused, ClaimUnanswered, UnderPlaced, UnderNot, UnderWaiting,
         UnderNotToSend, PassOver
    <3>2. ASSUME NEW n \in Nodes, NEW m \in Messages, Pass(n, m) PROVE UNCHANGED begun
      BY <2>2, <3>2 DEF Pass, farVars, Behind, TryLocation, NoLocation, Stop, NotTaken,
         SendSucceeds, SendFails, HandOn, HandOnNot, EndLost, EndUntried, Panics, Settle
    <3>3. ASSUME NEW n \in Nodes, NEW m \in Messages, Act(n, m) PROVE UNCHANGED begun
      BY <3>3 DEF Act, farVars, ActReads, ActClaims, ActRefused, ActLooks, ActGivesBack,
         ActWrites, ActedOn
    <3>4. ASSUME NEW n \in Nodes, Renew(n) PROVE UNCHANGED begun
      BY <3>4 DEF Renew, farVars, RenewAsk, RenewTaken, RenewAnswered, RenewUnanswered
    <3>5. ASSUME NEW n \in Nodes, ReadWhole(n) \/ Crash(n) PROVE UNCHANGED begun
      BY <3>5 DEF farVars, ReadWhole, Crash
    <3>6. ASSUME NEW m \in Messages, PublishUnclaimed(m) \/ DueComes(m) PROVE UNCHANGED begun
      BY <3>6 DEF farVars, PublishUnclaimed, DueComes
    <3>7. ASSUME Tick \/ UNCHANGED vars PROVE UNCHANGED begun
      BY <3>7 DEF farVars, vars, Tick
    <3>8. UNCHANGED begun
      BY <3>1, <3>2, <3>3, <3>4, <3>5, <3>6, <3>7 DEF Next
    <3> QED
      BY <2>0, <3>8
  <2> QED
    BY <2>1, <2>2
<1> QED
  BY <1>1, TypeCorrect, ClaimsHold, PTL DEF Spec, FencesRise

----------------------------------------------------------------------------
(* A Message's life: what passes say was sent, and what acts have seen.     *)

\* What a pass says was sent stays at its far end.
LEMMA SentNext == TypeOK /\ SentInv /\ [Next]_vars => SentInv'
<1> SUFFICES ASSUME TypeOK, SentInv, [Next]_vars PROVE SentInv'
  OBVIOUS
<1>t. went \in [Nodes -> [Messages -> Outcomes]]
  BY DEF TypeOK
<1> USE DEF ledgerVars, journeyVars, claimVars, passVars, standingVars, nodeVars, farVars
\* The passes that go on as they were, or forget what they came to.
<1>k. ASSUME delivered \subseteq delivered',
             \A n \in Nodes, m \in Messages : went'[n][m] \in {went[n][m], "none", "waiting", "given"}
      PROVE  SentInv'
  BY <1>k DEF SentInv
<1>1. ASSUME NEW n \in Nodes, NEW m \in Messages, SendSucceeds(n, m) PROVE SentInv'
  BY <1>1, <1>t DEF SendSucceeds, SentInv
<1>2. ASSUME NEW n \in Nodes, NEW m \in Messages, NotTaken(n, m) \/ SendFails(n, m) PROVE SentInv'
  <2>1. PICK w \in {"waiting", "given"} : went' = [went EXCEPT ![n][m] = w]
    BY <1>2 DEF NotTaken, SendFails, NotSent
  <2>2. delivered \subseteq delivered'
    BY <1>2 DEF NotTaken, SendFails
  <2> QED BY <1>t, <1>k, <2>1, <2>2
<1>3. ASSUME NEW n \in Nodes, NEW m \in Messages, TakeUp(n, m) PROVE SentInv'
  <2>1. UNCHANGED delivered /\ went' \in {went, [went EXCEPT ![n][m] = "none"]}
    BY <1>3 DEF TakeUp, PublishWrite, PublishAnswered, PublishUnconfirmed, Found, ClaimGranted,
       ClaimRefused, ClaimUnanswered, UnderPlaced, UnderNot, UnderWaiting, UnderNotToSend,
       PassOver, LetGo
  <2> QED BY <1>t, <1>k, <2>1
<1>4. ASSUME NEW n \in Nodes, NEW m \in Messages, Pass(n, m),
             ~SendSucceeds(n, m), ~NotTaken(n, m), ~SendFails(n, m)
      PROVE  SentInv'
  <2>1. /\ UNCHANGED delivered
        /\ went' \in {went, [went EXCEPT ![n][m] = "none"], [went EXCEPT ![n][m] = "given"]}
    BY <1>4 DEF Pass, Behind, TryLocation, NoLocation, Stop, SendBegins, HandOn, HandOnNot,
       EndLost, EndUntried, Panics, Settle, LetGo, Ended
  <2> QED BY <1>t, <1>k, <2>1
<1>5. ASSUME NEW n \in Nodes, NEW m \in Messages, Act(n, m) PROVE SentInv'
  BY <1>5, <1>k DEF Act, ActReads, ActClaims, ActRefused, ActLooks, ActGivesBack, ActWrites,
     ActedOn
<1>6. ASSUME NEW n \in Nodes, Renew(n) \/ ReadWhole(n) PROVE SentInv'
  BY <1>6, <1>k DEF Renew, RenewAsk, RenewTaken, RenewAnswered, RenewUnanswered, ReadWhole
<1>7. ASSUME NEW n \in Nodes, Crash(n) PROVE SentInv'
  BY <1>7, <1>t, <1>k DEF Crash
<1>8. ASSUME NEW m \in Messages, PublishUnclaimed(m) \/ DueComes(m) PROVE SentInv'
  BY <1>8, <1>k DEF PublishUnclaimed, DueComes
<1>9. ASSUME Tick \/ UNCHANGED vars PROVE SentInv'
  BY <1>9, <1>k DEF Tick, vars
<1> QED BY <1>1, <1>2, <1>3, <1>4, <1>5, <1>6, <1>7, <1>8, <1>9 DEF Next

\* A step of one Message's Journey and claim: claimed, given back or handed on.
OneMoves(m) ==
  /\ \A k \in Messages \ {m} : /\ state'[k] = state[k] /\ written'[k] = written[k]
                                /\ holder'[k] = holder[k] /\ fence'[k] = fence[k]
  /\ \/ /\ written'[m] = written[m]
        /\ state'[m] = state[m] \/ \A n \in Nodes : act[n][m].stage = "none"
        /\ \/ fence'[m] = fence[m] /\ holder'[m] \in {holder[m], NoNode}
           \/ fence'[m] = fence[m] + 1
     \/ /\ holder[m] # NoNode /\ holder'[m] = NoNode
        /\ written'[m] = fence[m] /\ fence'[m] = fence[m]

\* Where the acts are left alone their sight of it stays true.
LEMMA SeenKept ==
  ASSUME TypeOK, TypeOK', HeldInv, WrittenInv, SeenInv, NEW m \in Messages, act' = act,
         OneMoves(m)
  PROVE  WrittenInv' /\ SeenInv'
<1>t. /\ written \in [Messages -> Nat] /\ fence \in [Messages -> 0 .. MaxFence]
      /\ written' \in [Messages -> Nat] /\ fence' \in [Messages -> 0 .. MaxFence]
      /\ act \in [Nodes -> [Messages -> Acts]]
  BY DEF TypeOK
<1> USE DEF OneMoves
<1>1. WrittenInv'
  BY <1>t DEF WrittenInv
<1>2. SeenInv'
  <2> SUFFICES ASSUME NEW n \in Nodes, NEW k \in Messages
               PROVE  /\ act[n][k].stage \in {"read", "claimed", "checked"} =>
                           /\ act[n][k].seen <= written'[k]
                           /\ written'[k] = act[n][k].seen => state'[k] = "failed"
                      /\ act[n][k].stage = "checked" /\ IsHolder(n, k, act[n][k].token)' =>
                           written'[k] = act[n][k].seen
    BY DEF SeenInv
  <2>1. CASE k # m
    BY <2>1 DEF SeenInv, IsHolder
  <2>2. CASE k = m
    <3>1. act[n][m].seen \in Nat /\ act[n][m].token \in Nat /\ act[n][m].token <= fence[m]
      BY <1>t DEF HeldInv, FenceInv, Acts
    <3> QED BY <1>t, <2>2, <3>1 DEF SeenInv, WrittenInv, IsHolder
  <2> QED BY <2>1, <2>2
<1> QED BY <1>1, <1>2

\* A grant moves the claim of its Message alone.
LEMMA GrantMoves ==
  ASSUME TypeOK, NEW n \in Nodes, NEW m \in Messages, Grant(n, m), UNCHANGED <<state, written>>
  PROVE  OneMoves(m)
BY DEF TypeOK, Grant, OneMoves

\* So does a release.
LEMMA ReleaseMoves ==
  ASSUME TypeOK, NEW n \in Nodes, NEW m \in Messages, NEW f, Release(n, m, f),
         UNCHANGED <<state, written>>
  PROVE  OneMoves(m)
BY DEF TypeOK, Release, OneMoves

\* And a hand-on, under the claim that ends with it.
LEMMA HandOnMoves ==
  ASSUME TypeOK, NEW n \in Nodes, NEW m \in Messages, NEW f, NEW to, HandOnTaken(n, m, f, to)
  PROVE  OneMoves(m)
BY DEF TypeOK, HandOnTaken, IsHolder, OneMoves

\* Every write of a Journey is told from the one before, and what an act has seen
\* of it stays so while the write is the same.
LEMMA SeenNext ==
  TypeOK /\ TypeOK' /\ ClaimInv /\ WrittenInv /\ SeenInv /\ [Next]_vars => WrittenInv' /\ SeenInv'
<1> SUFFICES ASSUME TypeOK, TypeOK', ClaimInv, WrittenInv, SeenInv, [Next]_vars
             PROVE  WrittenInv' /\ SeenInv'
  OBVIOUS
<1>t. /\ written \in [Messages -> Nat] /\ fence \in [Messages -> 0 .. MaxFence]
      /\ holder \in [Messages -> Nodes \cup {NoNode}] /\ state \in [Messages -> States]
      /\ token \in [Nodes -> [Messages -> Nat]] /\ act \in [Nodes -> [Messages -> Acts]]
      /\ \A n \in Nodes, m \in Messages : act[n][m].token \in Nat
  BY DEF TypeOK, Acts
<1>c. HeldInv /\ BornInv
  BY DEF ClaimInv
<1> USE DEF ledgerVars, journeyVars, claimVars, passVars, standingVars, nodeVars, farVars
<1>0. ASSUME UNCHANGED <<state, written, holder, fence, act>> PROVE WrittenInv' /\ SeenInv'
  BY <1>0 DEF WrittenInv, SeenInv, IsHolder
<1>1. ASSUME NEW n \in Nodes, NEW m \in Messages, PublishWrite(n, m)
      PROVE  WrittenInv' /\ SeenInv'
  <2>1. \A k \in Nodes : act[k][m].stage = "none"
    BY <1>1, <1>c DEF PublishWrite, Published, BornInv
  <2>2. OneMoves(m) /\ act' = act
    BY <1>1, <1>t, <2>1 DEF PublishWrite, Published, Grant, OneMoves
  <2> QED BY <1>c, <2>2, SeenKept
<1>2. ASSUME NEW m \in Messages, PublishUnclaimed(m) PROVE WrittenInv' /\ SeenInv'
  <2>1. \A k \in Nodes : act[k][m].stage = "none"
    BY <1>2, <1>c DEF PublishUnclaimed, Published, BornInv
  <2>2. OneMoves(m) /\ act' = act
    BY <1>2, <1>t, <2>1 DEF PublishUnclaimed, Published, OneMoves
  <2> QED BY <1>c, <2>2, SeenKept
<1>3. ASSUME NEW n \in Nodes, NEW m \in Messages, ClaimGranted(n, m) \/ ClaimUnanswered(n, m)
      PROVE  WrittenInv' /\ SeenInv'
  <2>1. Grant(n, m) /\ UNCHANGED <<state, written>> /\ act' = act
    BY <1>3 DEF ClaimGranted, ClaimUnanswered
  <2>2. OneMoves(m)
    BY <2>1, GrantMoves
  <2> QED BY <1>c, <2>1, <2>2, SeenKept
<1>4. ASSUME NEW n \in Nodes, NEW m \in Messages,
             UnderNot(n, m) \/ UnderNotToSend(n, m) \/ Behind(n, m) \/ EndUntried(n, m)
      PROVE  WrittenInv' /\ SeenInv'
  <2>1. Release(n, m, token[n][m]) /\ UNCHANGED <<state, written>> /\ act' = act
    BY <1>4 DEF UnderNot, UnderNotToSend, Behind, EndUntried
  <2>2. OneMoves(m)
    BY <2>1, ReleaseMoves
  <2> QED BY <1>c, <2>1, <2>2, SeenKept
<1>5. ASSUME NEW n \in Nodes, NEW m \in Messages, HandOn(n, m) \/ Panics(n, m)
      PROVE  WrittenInv' /\ SeenInv'
  <2>1. act' = act
    BY <1>5 DEF HandOn, Panics
  <2>2. CASE \E w : Written(n, m, w)
    <3>1. PICK to : HandOnTaken(n, m, token[n][m], to)
      BY <2>2 DEF Written
    <3>2. OneMoves(m)
      BY <3>1, HandOnMoves
    <3> QED BY <1>c, <2>1, <3>2, SeenKept
  <2>3. CASE Release(n, m, token[n][m]) /\ UNCHANGED <<state, written>>
    <3>1. OneMoves(m)
      BY <2>3, ReleaseMoves
    <3> QED BY <1>c, <2>1, <3>1, SeenKept
  <2> QED BY <1>5, <2>2, <2>3 DEF HandOn, Panics
<1>6. ASSUME NEW n \in Nodes, NEW m \in Messages, NEW kind, ActReads(n, m, kind)
      PROVE  WrittenInv' /\ SeenInv'
  BY <1>6, <1>t DEF ActReads, WrittenInv, SeenInv, IsHolder
<1>7. ASSUME NEW n \in Nodes, NEW m \in Messages, ActClaims(n, m)
      PROVE  WrittenInv' /\ SeenInv'
  <2>1. /\ fence' = [fence EXCEPT ![m] = @ + 1] /\ holder' = [holder EXCEPT ![m] = n]
        /\ UNCHANGED <<state, written>> /\ act[n][m].stage = "read"
    BY <1>7 DEF ActClaims, Grant
  <2>2. /\ act'[n][m].stage \in {"claimed", "none"} /\ act'[n][m].seen \in {act[n][m].seen, 0}
        /\ act'[n][m].stage = "claimed" => act'[n][m].seen = act[n][m].seen
        /\ \A k \in Nodes, j \in Messages : k # n \/ j # m => act'[k][j] = act[k][j]
    BY <1>7, <1>t DEF ActClaims, ActAt, ActEnds, NoAct
  <2>3. WrittenInv'
    BY <1>t, <2>1 DEF WrittenInv
  <2>4. \A k \in Nodes, j \in Messages : act[k][j].token <= fence[j]
    BY <1>c DEF HeldInv, FenceInv
  <2>5. ASSUME NEW k \in Nodes, NEW j \in Messages, act'[k][j].stage = "checked",
               IsHolder(k, j, act[k][j].token)'
        PROVE  written'[j] = act'[k][j].seen
    <3>1. act'[k][j] = act[k][j]
      BY <2>2, <2>5
    <3>2. j # m
      BY <1>t, <2>1, <2>4, <2>5, <3>1 DEF IsHolder
    <3> QED BY <1>t, <2>1, <2>5, <3>1, <3>2 DEF IsHolder, SeenInv
  <2>6. ASSUME NEW k \in Nodes, NEW j \in Messages,
               act'[k][j].stage \in {"read", "claimed", "checked"}
        PROVE  act'[k][j].seen <= written'[j] /\ (written'[j] = act'[k][j].seen => state'[j] = "failed")
    BY <2>1, <2>2, <2>6 DEF SeenInv
  <2> QED BY <2>3, <2>5, <2>6 DEF SeenInv
<1>8. ASSUME NEW n \in Nodes, NEW m \in Messages, ActRefused(n, m) \/ ActLooks(n, m) \/ ActedOn(n, m)
      PROVE  WrittenInv' /\ SeenInv'
  <2>0. UNCHANGED <<state, written, holder, fence>>
    BY <1>8 DEF ActRefused, ActLooks, ActedOn
  <2>1. CASE ActEnds(n, m)
    BY <2>0, <2>1, <1>t DEF ActEnds, NoAct, WrittenInv, SeenInv, IsHolder
  <2>2. CASE ActLooks(n, m)
    BY <2>0, <2>2, <1>t DEF ActLooks, ActAt, WrittenInv, SeenInv, IsHolder
  <2> QED BY <1>8, <2>1, <2>2 DEF ActRefused, ActedOn
<1>9. ASSUME NEW n \in Nodes, NEW m \in Messages, ActGivesBack(n, m)
      PROVE  WrittenInv' /\ SeenInv'
  BY <1>9, <1>t DEF ActGivesBack, Release, ActEnds, NoAct, WrittenInv, SeenInv, IsHolder
<1>10. ASSUME NEW n \in Nodes, NEW m \in Messages, ActWrites(n, m)
       PROVE  WrittenInv' /\ SeenInv'
  <2>1. PICK to : HandOnTaken(n, m, act[n][m].token, to)
    BY <1>10 DEF ActWrites, Retried, Dismissed
  <2>2. /\ holder[m] # NoNode /\ fence[m] = act[n][m].token
        /\ holder' = [holder EXCEPT ![m] = NoNode] /\ fence' = fence
        /\ written' = [written EXCEPT ![m] = fence[m]]
        /\ \A k \in Messages \ {m} : state'[k] = state[k]
    BY <1>t, <2>1 DEF HandOnTaken, IsHolder
  <2>3. \E a \in {"written", "none"} : act'[n][m].stage = a
    BY <1>10, <1>t DEF ActWrites, ActAt, ActEnds, NoAct
  <2>4. \A k \in Nodes, j \in Messages : k # n \/ j # m => act'[k][j] = act[k][j]
    BY <1>10, <1>t DEF ActWrites, ActAt, ActEnds
  <2>5. \A k \in Nodes : act[k][m].seen \in Nat
    BY <1>t DEF Acts
  <2> QED BY <1>t, <2>2, <2>3, <2>4, <2>5 DEF WrittenInv, SeenInv, IsHolder
<1>11. ASSUME NEW n \in Nodes, Crash(n) PROVE WrittenInv' /\ SeenInv'
  BY <1>11, <1>t DEF Crash, NoAct, WrittenInv, SeenInv, IsHolder
<1>12. ASSUME NEW n \in Nodes, NEW m \in Messages,
              \/ PublishAnswered(n, m) \/ PublishUnconfirmed(n, m) \/ Found(n, m)
              \/ ClaimRefused(n, m) \/ UnderPlaced(n, m) \/ UnderWaiting(n, m) \/ PassOver(n, m)
       PROVE  WrittenInv' /\ SeenInv'
  BY <1>0, <1>12 DEF PublishAnswered, PublishUnconfirmed, Found, ClaimRefused, UnderPlaced,
     UnderWaiting, PassOver
<1>13. ASSUME NEW n \in Nodes, NEW m \in Messages,
              \/ TryLocation(n, m) \/ NoLocation(n, m) \/ Stop(n, m) \/ NotTaken(n, m)
              \/ SendBegins(n, m) \/ SendSucceeds(n, m) \/ SendFails(n, m) \/ HandOnNot(n, m)
              \/ EndLost(n, m) \/ Settle(n, m)
       PROVE  WrittenInv' /\ SeenInv'
  BY <1>0, <1>13 DEF TryLocation, NoLocation, Stop, NotTaken, SendBegins, SendSucceeds,
     SendFails, HandOnNot, EndLost, Settle
<1>14. ASSUME NEW n \in Nodes, Renew(n) \/ ReadWhole(n) PROVE WrittenInv' /\ SeenInv'
  BY <1>0, <1>14 DEF Renew, RenewAsk, RenewTaken, RenewAnswered, RenewUnanswered, ReadWhole
<1>15. ASSUME \/ \E m \in Messages : DueComes(m)
              \/ Tick \/ UNCHANGED vars
       PROVE  WrittenInv' /\ SeenInv'
  BY <1>0, <1>15 DEF DueComes, Tick, vars
<1> QED
  BY <1>1, <1>2, <1>3, <1>4, <1>5, <1>6, <1>7, <1>8, <1>9, <1>10, <1>11, <1>12, <1>13, <1>14,
     <1>15 DEF Next, TakeUp, Pass, Act

\* Every write of a Journey is told from the one before, and what an act has seen of
\* it and what a pass says was sent stay true.
LEMMA LifeHolds == Spec => []LifeInv
<1>1. Init => LifeInv
  BY DEF Init, LifeInv, SentInv, WrittenInv, SeenInv, NoAct
<1>2. TypeOK /\ TypeOK' /\ ClaimInv /\ LifeInv /\ [Next]_vars => LifeInv'
  BY SentNext, SeenNext DEF LifeInv
<1> QED BY <1>1, <1>2, TypeCorrect, ClaimsHold, PTL DEF Spec

----------------------------------------------------------------------------
(* The refinement: every step is one of MessageLife's, or none.             *)

\* A pass writes what it came to over a Message that waits, completed only where
\* its far end has it (Written).
LEMMA WrittenLife ==
  ASSUME TypeOK, ClaimInv, LifeInv, NEW n \in Nodes, NEW m \in Messages, NEW w,
         Written(n, m, w), phase[n][m] \in Passing, w = "sent" => w = went[n][m],
         UNCHANGED delivered
  PROVE  Life!Complete(m) \/ Life!Fail(m) \/ UNCHANGED <<state, delivered>>
<1>1. state \in [Messages -> States] /\ state[m] = "waiting"
  BY DEF TypeOK, Written, HandOnTaken, ClaimInv, HeldInv, ReadInv
<1>2. CASE w = "sent"
  <2>1. m \in delivered
    BY <1>2 DEF LifeInv, SentInv
  <2>2. state' = [state EXCEPT ![m] = "completed"]
    BY <1>2 DEF Written, HandOnTaken
  <2> QED BY <1>1, <2>1, <2>2 DEF Life!Complete, Life!Becomes
<1>3. CASE w = "given"
  BY <1>1, <1>3 DEF Written, HandOnTaken, Life!Fail, Life!Becomes
<1>4. CASE w \in {"none", "waiting"}
  BY <1>1, <1>4 DEF Written, HandOnTaken
<1> QED BY <1>2, <1>3, <1>4 DEF Written

\* Only what was published is under way to its far end.
LEMMA BornUnderWay ==
  ASSUME BornInv, NEW n \in Nodes, NEW m \in Messages, phase[n][m] = "sending"
  PROVE  state[m] # "unborn"
BY DEF BornInv

\* A step of any node, of an operator or of time is one of MessageLife's or leaves
\* what it says of every Message as it was.
LEMMA LifeStep ==
  TypeOK /\ ClaimInv /\ LifeInv /\ [Next]_vars => [Life!Next]_(Life!lifeVars)
<1> SUFFICES ASSUME TypeOK, ClaimInv, LifeInv, [Next]_vars
             PROVE  Life!Next \/ UNCHANGED <<state, delivered>>
  BY DEF Life!lifeVars
<1> USE DEF ledgerVars, journeyVars, claimVars, passVars, standingVars, nodeVars, farVars
<1>1. ASSUME NEW n \in Nodes, NEW m \in Messages, PublishWrite(n, m) PROVE Life!Next
  BY <1>1 DEF PublishWrite, Published, Life!Next, Life!Publish, Life!Becomes
<1>2. ASSUME NEW m \in Messages, PublishUnclaimed(m) PROVE Life!Next
  BY <1>2 DEF PublishUnclaimed, Published, Life!Next, Life!Publish, Life!Becomes
<1>3. ASSUME NEW n \in Nodes, NEW m \in Messages, HandOn(n, m) \/ Panics(n, m)
      PROVE  Life!Next \/ UNCHANGED <<state, delivered>>
  <2>1. UNCHANGED delivered /\ phase[n][m] \in Passing
    BY <1>3 DEF HandOn, Panics, Writes, Passing
  <2>2. \/ Written(n, m, went[n][m]) \/ Written(n, m, "given")
        \/ UNCHANGED state
    BY <1>3 DEF HandOn, Panics
  <2>3. Life!Complete(m) \/ Life!Fail(m) \/ UNCHANGED <<state, delivered>>
    BY <2>1, <2>2, WrittenLife
  <2> QED BY <2>3 DEF Life!Next
<1>4. ASSUME NEW n \in Nodes, NEW m \in Messages, ActWrites(n, m) PROVE Life!Next
  <2>1. state[m] = "failed" /\ UNCHANGED delivered
    BY <1>4 DEF ActWrites, Retried, Dismissed, HandOnTaken, LifeInv, SeenInv
  <2>2. \/ state' = [state EXCEPT ![m] = "waiting"]
        \/ state' = [state EXCEPT ![m] = "dismissed"]
    BY <1>4 DEF ActWrites, Retried, Dismissed, HandOnTaken
  <2> QED BY <2>1, <2>2 DEF Life!Next, Life!Retry, Life!Dismiss, Life!Becomes
<1>5. ASSUME NEW n \in Nodes, NEW m \in Messages, SendSucceeds(n, m) \/ SendFails(n, m)
      PROVE  Life!Next
  <2>1. state[m] # "unborn"
    BY <1>5, BornUnderWay DEF SendSucceeds, SendFails, ClaimInv
  <2>2. PICK got \in SUBSET {m} : delivered' = delivered \cup got
    BY <1>5 DEF SendSucceeds, SendFails
  <2>3. Life!Deliver(got)
    BY <1>5, <2>1, <2>2 DEF SendSucceeds, SendFails, Life!Deliver
  <2> QED BY <2>3 DEF Life!Next
<1>6. ASSUME NEW n \in Nodes, Crash(n) PROVE Life!Next
  <2>1. PICK got \in SUBSET {m \in Messages : phase[n][m] = "sending"} :
          delivered' = delivered \cup got
    BY <1>6 DEF Crash
  <2>2. \A m \in got : state[m] # "unborn"
    BY <2>1, BornUnderWay DEF ClaimInv
  <2>3. Life!Deliver(got)
    BY <1>6, <2>1, <2>2 DEF Crash, Life!Deliver
  <2> QED BY <2>1, <2>3 DEF Life!Next
<1>7. ASSUME NEW n \in Nodes, NEW m \in Messages, TakeUp(n, m), ~PublishWrite(n, m)
      PROVE  UNCHANGED <<state, delivered>>
  BY <1>7 DEF TakeUp, PublishAnswered, PublishUnconfirmed, Found, ClaimGranted, ClaimRefused,
     ClaimUnanswered, UnderPlaced, UnderNot, UnderWaiting, UnderNotToSend, PassOver
<1>8. ASSUME NEW n \in Nodes, NEW m \in Messages, Pass(n, m), ~HandOn(n, m), ~Panics(n, m),
             ~SendSucceeds(n, m), ~SendFails(n, m)
      PROVE  UNCHANGED <<state, delivered>>
  BY <1>8 DEF Pass, Behind, TryLocation, NoLocation, Stop, NotTaken, SendBegins, HandOnNot,
     EndLost, EndUntried, Settle
<1>9. ASSUME NEW n \in Nodes, NEW m \in Messages, Act(n, m), ~ActWrites(n, m)
      PROVE  UNCHANGED <<state, delivered>>
  BY <1>9 DEF Act, ActReads, ActClaims, ActRefused, ActLooks, ActGivesBack, ActedOn
<1>10. ASSUME NEW n \in Nodes, Renew(n) \/ ReadWhole(n) PROVE UNCHANGED <<state, delivered>>
  BY <1>10 DEF Renew, RenewAsk, RenewTaken, RenewAnswered, RenewUnanswered, ReadWhole
<1>11. ASSUME \/ \E m \in Messages : DueComes(m)
              \/ Tick \/ UNCHANGED vars
       PROVE  UNCHANGED <<state, delivered>>
  BY <1>11 DEF DueComes, Tick, vars
<1> QED
  BY <1>1, <1>2, <1>3, <1>4, <1>5, <1>6, <1>7, <1>8, <1>9, <1>10, <1>11 DEF Next

\* Any number of nodes, lapsing, crashing and renewing, and any operators' acts keep
\* what MessageLife promises of every Message: published once, completed only when
\* its far end has it, and what ended stays ended.
THEOREM RefinesLife == Spec => LifeSpec
<1>1. Init => Life!Init
  BY DEF Init, Life!Init
<1> QED BY <1>1, LifeStep, TypeCorrect, ClaimsHold, LifeHolds, PTL DEF Spec, LifeSpec, Life!Spec

----------------------------------------------------------------------------
(* Tries are counted on.                                                    *)

\* A try more, or the next Location, comes after what it is counted from (NotSent).
LEMMA CountsOn ==
  ASSUME NEW a \in Nat \X Nat, NEW p \in Nat \X Nat, a = p \/ Earlier(a, p)
  PROVE  Earlier(a, <<p[1], p[2] + 1>>) /\ Earlier(a, <<p[1] + 1, 0>>)
BY DEF Earlier

\* Node n's work on m is all that a step changes of the nodes' passes, and m's
\* Journey and claim all it changes of those.
OneCounts(n, m) ==
  /\ \A k \in Nodes, j \in Messages : k # n \/ j # m =>
       /\ phase'[k][j] = phase[k][j] /\ token'[k][j] = token[k][j]
       /\ progress'[k][j] = progress[k][j]
  /\ \A j \in Messages \ {m} : /\ state'[j] = state[j] /\ attempts'[j] = attempts[j]
                               /\ holder'[j] = holder[j] /\ fence'[j] = fence[j]
  /\ state'[m] = "unborn" => state[m] = "unborn" /\ attempts'[m] = attempts[m]
  /\ \/ /\ attempts'[m] = attempts[m]
        /\ \/ fence'[m] = fence[m] /\ holder'[m] \in {holder[m], NoNode}
           \/ fence'[m] = fence[m] + 1
     \/ holder'[m] = NoNode

\* Such a step keeps every count but, perhaps, that one.
LEMMA CountKept ==
  ASSUME TypeOK, HeldInv, CountInv, NEW n \in Nodes, NEW m \in Messages, OneCounts(n, m),
         IsHolder(n, m, token[n][m])' =>
           /\ phase'[n][m] = "published" => attempts'[m] = <<0, 0>>
           /\ phase'[n][m] \in Passing =>
                progress'[n][m] = attempts'[m] \/ Earlier(attempts'[m], progress'[n][m])
  PROVE  CountInv'
<1>1. \A j \in Messages : state'[j] = "unborn" => attempts'[j] = <<0, 0>>
  BY DEF CountInv, OneCounts
<1>2. ASSUME NEW k \in Nodes, NEW j \in Messages, IsHolder(k, j, token[k][j])'
      PROVE  /\ phase'[k][j] = "published" => attempts'[j] = <<0, 0>>
             /\ phase'[k][j] \in Passing =>
                  progress'[k][j] = attempts'[j] \/ Earlier(attempts'[j], progress'[k][j])
  <2>1. CASE k = n /\ j = m
    BY <1>2, <2>1
  <2>2. CASE k # n \/ j # m
    <3>1. /\ token[k][j] <= fence[j] /\ token[k][j] \in Nat /\ fence[j] \in Nat
          /\ k # NoNode
      BY DEF TypeOK, HeldInv, FenceInv
    <3>2. IsHolder(k, j, token[k][j]) /\ attempts'[j] = attempts[j]
      BY <1>2, <2>2, <3>1 DEF IsHolder, OneCounts
    <3>3. phase'[k][j] = phase[k][j] /\ progress'[k][j] = progress[k][j]
      BY <2>2 DEF OneCounts
    <3> QED BY <3>2, <3>3 DEF CountInv
  <2> QED BY <2>1, <2>2
<1> QED BY <1>1, <1>2 DEF CountInv

\* Every pass counts on from what its Journey keeps as long as its claim stands.
LEMMA CountNext == TypeOK /\ TypeOK' /\ ClaimInv /\ CountInv /\ [Next]_vars => CountInv'
<1> SUFFICES ASSUME TypeOK, TypeOK', ClaimInv, CountInv, [Next]_vars PROVE CountInv'
  OBVIOUS
<1>t. /\ state \in [Messages -> States] /\ attempts \in [Messages -> Nat \X Nat]
      /\ holder \in [Messages -> Nodes \cup {NoNode}] /\ fence \in [Messages -> 0 .. MaxFence]
      /\ phase \in [Nodes -> [Messages -> Phases]] /\ token \in [Nodes -> [Messages -> Nat]]
      /\ progress \in [Nodes -> [Messages -> Nat \X Nat]]
  BY DEF TypeOK
<1>c. HeldInv /\ BornInv
  BY DEF ClaimInv
<1> USE DEF ledgerVars, journeyVars, claimVars, passVars, standingVars, nodeVars, farVars
<1>0. ASSUME UNCHANGED <<state, attempts, holder, fence, phase, token, progress>> PROVE CountInv'
  BY <1>0 DEF CountInv, IsHolder
\* What a node only lets go of, or finds, is in no pass.
<1>i. ASSUME NEW n \in Nodes, NEW m \in Messages, OneCounts(n, m),
             phase'[n][m] \notin Passing \cup {"published"}
      PROVE  CountInv'
  BY <1>c, <1>i, CountKept
<1>1. ASSUME NEW n \in Nodes, NEW m \in Messages, PublishWrite(n, m) PROVE CountInv'
  <2>1. state[m] = "unborn" /\ attempts' = attempts /\ phase'[n][m] = "published"
    BY <1>1, <1>t DEF PublishWrite, Published, Claimed
  <2>2. OneCounts(n, m)
    BY <1>1, <1>t DEF PublishWrite, Published, Grant, Claimed, OneCounts
  <2> QED BY <1>c, <2>1, <2>2, CountKept DEF CountInv, Passing
<1>2. ASSUME NEW n \in Nodes, NEW m \in Messages, PublishAnswered(n, m) PROVE CountInv'
  <2>1. OneCounts(n, m)
    BY <1>2, <1>t DEF PublishAnswered, Move, OneCounts
  <2>2. /\ phase[n][m] = "published" /\ phase'[n][m] = "head" /\ progress'[n][m] = <<0, 0>>
        /\ UNCHANGED <<token, holder, fence, attempts>>
    BY <1>2, <1>t DEF PublishAnswered, Move
  <2>3. IsHolder(n, m, token[n][m])' => attempts'[m] = <<0, 0>>
    BY <2>2 DEF CountInv, IsHolder
  <2> QED BY <1>c, <2>1, <2>2, <2>3, CountKept
<1>3. ASSUME NEW n \in Nodes, NEW m \in Messages,
             \/ PublishUnconfirmed(n, m) \/ ClaimRefused(n, m) \/ PassOver(n, m) \/ Settle(n, m)
      PROVE  CountInv'
  <2>1. OneCounts(n, m) /\ phase'[n][m] = "idle"
    BY <1>3, <1>t DEF PublishUnconfirmed, ClaimRefused, PassOver, Settle, LetGo, OneCounts
  <2> QED BY <1>i, <2>1 DEF Passing
<1>4. ASSUME NEW n \in Nodes, NEW m \in Messages, Found(n, m) \/ UnderPlaced(n, m) PROVE CountInv'
  <2>1. OneCounts(n, m) /\ phase'[n][m] \in {"found", "placed"}
    BY <1>4, <1>t DEF Found, UnderPlaced, Move, OneCounts
  <2> QED BY <1>i, <2>1 DEF Passing
<1>5. ASSUME NEW n \in Nodes, NEW m \in Messages, ClaimGranted(n, m) PROVE CountInv'
  <2>1. OneCounts(n, m) /\ phase'[n][m] = "claimed"
    BY <1>5, <1>t DEF ClaimGranted, Grant, Claimed, OneCounts
  <2> QED BY <1>i, <2>1 DEF Passing
<1>6. ASSUME NEW n \in Nodes, NEW m \in Messages, ClaimUnanswered(n, m) PROVE CountInv'
  <2>1. OneCounts(n, m) /\ phase'[n][m] = "idle"
    BY <1>6, <1>t DEF ClaimUnanswered, Grant, LetGo, OneCounts
  <2> QED BY <1>i, <2>1 DEF Passing
<1>7. ASSUME NEW n \in Nodes, NEW m \in Messages, UnderNot(n, m) PROVE CountInv'
  <2>1. OneCounts(n, m) /\ phase'[n][m] = "idle"
    BY <1>7, <1>t DEF UnderNot, Release, LetGo, OneCounts
  <2> QED BY <1>i, <2>1 DEF Passing
<1>8. ASSUME NEW n \in Nodes, NEW m \in Messages, UnderWaiting(n, m) PROVE CountInv'
  <2>1. OneCounts(n, m)
    BY <1>8, <1>t DEF UnderWaiting, Move, OneCounts
  <2>2. phase'[n][m] = "head" /\ progress'[n][m] = attempts'[m]
    BY <1>8, <1>t DEF UnderWaiting, Move
  <2> QED BY <1>c, <2>1, <2>2, CountKept
<1>9. ASSUME NEW n \in Nodes, NEW m \in Messages, UnderNotToSend(n, m) PROVE CountInv'
  <2>1. OneCounts(n, m) /\ phase'[n][m] = "passing"
    BY <1>9, <1>t DEF UnderNotToSend, Release, Move, OneCounts
  <2> QED BY <1>i, <2>1 DEF Passing
<1>10. ASSUME NEW n \in Nodes, NEW m \in Messages, Behind(n, m) \/ EndUntried(n, m) PROVE CountInv'
  <2>1. OneCounts(n, m) /\ phase'[n][m] = "settling"
    BY <1>10, <1>t DEF Behind, EndUntried, Release, Ended, Move, OneCounts
  <2> QED BY <1>i, <2>1 DEF Passing
<1>11. ASSUME NEW n \in Nodes, NEW m \in Messages,
              TryLocation(n, m) \/ NoLocation(n, m) \/ Stop(n, m) \/ SendBegins(n, m)
       PROVE  CountInv'
  <2>1. /\ phase[n][m] \in Passing /\ phase'[n][m] \in Passing
        /\ UNCHANGED <<state, attempts, holder, fence, token, progress>>
    BY <1>11, <1>t DEF TryLocation, NoLocation, Stop, SendBegins, Move, Passing
  <2>2. OneCounts(n, m)
    BY <1>11, <1>t DEF TryLocation, NoLocation, Stop, SendBegins, Move, OneCounts
  <2> QED BY <1>c, <2>1, <2>2, CountKept DEF CountInv, IsHolder, Passing
<1>12. ASSUME NEW n \in Nodes, NEW m \in Messages,
              NotTaken(n, m) \/ SendFails(n, m) \/ SendSucceeds(n, m)
       PROVE  CountInv'
  <2> DEFINE p == progress[n][m]
  <2>1. /\ phase[n][m] \in Passing /\ phase'[n][m] \in Passing
        /\ UNCHANGED <<state, attempts, holder, fence, token>>
        /\ \/ progress' = [progress EXCEPT ![n][m] = <<p[1], p[2] + 1>>]
           \/ progress' = [progress EXCEPT ![n][m] = <<p[1] + 1, 0>>]
    BY <1>12, <1>t DEF NotTaken, SendFails, SendSucceeds, NotSent, Move, Passing
  <2>2. \A k \in Nodes, j \in Messages : k # n \/ j # m => phase'[k][j] = phase[k][j]
    BY <1>12, <1>t DEF NotTaken, SendFails, SendSucceeds, NotSent, Move
  <2>3. OneCounts(n, m)
    BY <1>t, <2>1, <2>2 DEF OneCounts
  <2>4. IsHolder(n, m, token[n][m])' => Earlier(attempts'[m], progress'[n][m])
    <3> SUFFICES ASSUME IsHolder(n, m, token[n][m])' PROVE Earlier(attempts[m], progress'[n][m])
      BY <2>1
    <3>1. p = attempts[m] \/ Earlier(attempts[m], p)
      BY <2>1 DEF CountInv, IsHolder
    <3>2. p \in Nat \X Nat /\ attempts[m] \in Nat \X Nat
      BY <1>t
    <3>3. Earlier(attempts[m], <<p[1], p[2] + 1>>) /\ Earlier(attempts[m], <<p[1] + 1, 0>>)
      BY <3>1, <3>2, CountsOn
    <3>4. progress'[n][m] \in {<<p[1], p[2] + 1>>, <<p[1] + 1, 0>>}
      BY <1>t, <2>1
    <3> QED BY <3>3, <3>4
  <2> QED BY <1>c, <2>1, <2>3, <2>4, CountKept DEF Passing
<1>13. ASSUME NEW n \in Nodes, NEW m \in Messages, HandOnNot(n, m) \/ EndLost(n, m) PROVE CountInv'
  <2>1. OneCounts(n, m) /\ phase'[n][m] = "settling"
    BY <1>13, <1>t DEF HandOnNot, EndLost, Ended, Move, OneCounts
  <2> QED BY <1>i, <2>1 DEF Passing
<1>14. ASSUME NEW n \in Nodes, NEW m \in Messages, HandOn(n, m) \/ Panics(n, m) PROVE CountInv'
  <2>1. /\ \A k \in Nodes, j \in Messages : k # n \/ j # m =>
             /\ phase'[k][j] = phase[k][j] /\ token'[k][j] = token[k][j]
             /\ progress'[k][j] = progress[k][j]
        /\ phase'[n][m] = "settling"
    BY <1>14, <1>t DEF HandOn, Panics, Ended, Move
  <2>2. CASE \E w : Written(n, m, w)
    <3>1. PICK to \in {"completed", "failed", "waiting"} : HandOnTaken(n, m, token[n][m], to)
      BY <2>2 DEF Written
    <3>2. attempts' = [attempts EXCEPT ![m] = progress[n][m]]
      BY <2>2 DEF Written
    <3>3. OneCounts(n, m)
      BY <1>t, <2>1, <3>1, <3>2 DEF HandOnTaken, OneCounts
    <3> QED BY <1>i, <2>1, <3>3 DEF Passing
  <2>3. CASE Release(n, m, token[n][m]) /\ UNCHANGED journeyVars
    <3>1. OneCounts(n, m)
      BY <1>t, <2>1, <2>3 DEF Release, OneCounts
    <3> QED BY <1>i, <2>1, <3>1 DEF Passing
  <2> QED BY <1>14, <2>2, <2>3 DEF HandOn, Panics
\* What an act does to a Message's claim or Journey leaves no pass under it.
<1>a. ASSUME NEW n \in Nodes, NEW m \in Messages, OneCounts(n, m),
             UNCHANGED <<phase, token, progress>>,
             IsHolder(n, m, token[n][m])' => IsHolder(n, m, token[n][m]) /\ attempts' = attempts
      PROVE  CountInv'
  BY <1>c, <1>a, CountKept DEF CountInv
<1>15. ASSUME NEW n \in Nodes, NEW m \in Messages, ActClaims(n, m) PROVE CountInv'
  <2>1. OneCounts(n, m) /\ fence'[m] = fence[m] + 1 /\ UNCHANGED <<phase, token, progress>>
    BY <1>15, <1>t DEF ActClaims, Grant, OneCounts
  <2>2. token[n][m] <= fence[m]
    BY <1>c DEF HeldInv, FenceInv
  <2>3. ~IsHolder(n, m, token[n][m])'
    BY <1>t, <2>1, <2>2 DEF IsHolder
  <2> QED BY <1>a, <2>1, <2>3
<1>16. ASSUME NEW n \in Nodes, NEW m \in Messages, ActGivesBack(n, m) PROVE CountInv'
  <2>1. OneCounts(n, m) /\ UNCHANGED <<phase, token, progress, attempts, fence>>
    BY <1>16, <1>t DEF ActGivesBack, Release, OneCounts
  <2>2. holder'[m] \in {holder[m], NoNode}
    BY <1>16, <1>t DEF ActGivesBack, Release
  <2> QED BY <1>a, <2>1, <2>2 DEF IsHolder
<1>17. ASSUME NEW n \in Nodes, NEW m \in Messages, ActWrites(n, m) PROVE CountInv'
  <2>1. PICK to \in {"waiting", "dismissed"} : HandOnTaken(n, m, act[n][m].token, to)
    BY <1>17 DEF ActWrites, Retried, Dismissed
  <2>2. \A j \in Messages \ {m} : attempts'[j] = attempts[j]
    BY <1>17, <1>t DEF ActWrites, Retried, Dismissed
  <2>3. UNCHANGED <<phase, token, progress>>
    BY <1>17 DEF ActWrites
  <2>4. OneCounts(n, m) /\ holder'[m] = NoNode
    BY <1>t, <2>1, <2>2, <2>3 DEF HandOnTaken, OneCounts
  <2> QED BY <1>a, <2>3, <2>4 DEF IsHolder
<1>18. ASSUME NEW n \in Nodes, NEW m \in Messages,
              \/ \E kind \in {"retry", "dismiss"} : ActReads(n, m, kind)
              \/ ActRefused(n, m) \/ ActLooks(n, m) \/ ActedOn(n, m)
       PROVE  CountInv'
  BY <1>0, <1>18 DEF ActReads, ActRefused, ActLooks, ActedOn
<1>19. ASSUME NEW n \in Nodes, Crash(n) PROVE CountInv'
  BY <1>19, <1>t DEF Crash, CountInv, IsHolder, Passing
<1>20. ASSUME NEW n \in Nodes, Renew(n) \/ ReadWhole(n) PROVE CountInv'
  BY <1>0, <1>20 DEF Renew, RenewAsk, RenewTaken, RenewAnswered, RenewUnanswered, ReadWhole
<1>21. ASSUME NEW m \in Messages, PublishUnclaimed(m) PROVE CountInv'
  BY <1>21, <1>t, <1>c DEF PublishUnclaimed, Published, CountInv, IsHolder, BornInv
<1>22. ASSUME \/ \E m \in Messages : DueComes(m)
              \/ Tick \/ UNCHANGED vars
       PROVE  CountInv'
  BY <1>0, <1>22 DEF DueComes, Tick, vars
<1> QED
  BY <1>1, <1>2, <1>3, <1>4, <1>5, <1>6, <1>7, <1>8, <1>9, <1>10, <1>11, <1>12, <1>13, <1>14,
     <1>15, <1>16, <1>17, <1>18, <1>19, <1>20, <1>21, <1>22 DEF Next, TakeUp, Pass, Act

\* The tries a Journey keeps are counted on across passes, restarts and nodes, and
\* begun anew only by an operator's Retry: no late pass writes back an earlier count.
THEOREM TriesCountedOn == Spec => AttemptsForward
<1> DEFINE Forward(m) == \/ attempts'[m] = attempts[m] \/ Earlier(attempts[m], attempts'[m])
                         \/ state[m] = "failed" /\ state'[m] = "waiting"
<1>1. Init => CountInv
  BY DEF Init, CountInv, IsHolder, Passing
<1>2. Spec => []CountInv
  BY <1>1, CountNext, TypeCorrect, ClaimsHold, PTL DEF Spec
<1>3. TypeOK /\ ClaimInv /\ LifeInv /\ CountInv /\ [Next]_vars =>
        [\A m \in Messages :
           attempts'[m] = attempts[m] \/ Earlier(attempts[m], attempts'[m])
             \/ (state[m] = "failed" /\ state'[m] = "waiting")]_vars
  <2> SUFFICES ASSUME TypeOK, ClaimInv, LifeInv, CountInv, [Next]_vars, NEW j \in Messages
               PROVE  Forward(j)
    OBVIOUS
  <2>t. attempts \in [Messages -> Nat \X Nat] /\ state \in [Messages -> States]
    BY DEF TypeOK
  <2> USE DEF ledgerVars, journeyVars, claimVars, passVars, standingVars, nodeVars, farVars
  <2>1. ASSUME NEW n \in Nodes, NEW m \in Messages, HandOn(n, m) \/ Panics(n, m) PROVE Forward(j)
    <3>1. phase[n][m] \in Passing
      BY <2>1 DEF HandOn, Panics, Writes, Passing
    <3>2. CASE \E w : Written(n, m, w)
      <4>1. /\ IsHolder(n, m, token[n][m])
            /\ attempts' = [attempts EXCEPT ![m] = progress[n][m]]
        BY <3>2 DEF Written, HandOnTaken
      <4>2. progress[n][m] = attempts[m] \/ Earlier(attempts[m], progress[n][m])
        BY <3>1, <4>1 DEF CountInv
      <4> QED BY <2>t, <4>1, <4>2
    <3>3. CASE UNCHANGED attempts
      BY <3>3
    <3> QED BY <2>1, <3>2, <3>3 DEF HandOn, Panics
  <2>2. ASSUME NEW n \in Nodes, NEW m \in Messages, ActWrites(n, m) PROVE Forward(j)
    <3>1. state[m] = "failed"
      BY <2>2 DEF ActWrites, Retried, Dismissed, HandOnTaken, LifeInv, SeenInv
    <3>2. \/ attempts' = [attempts EXCEPT ![m] = <<0, 0>>] /\ state' = [state EXCEPT ![m] = "waiting"]
          \/ UNCHANGED attempts
      BY <2>2 DEF ActWrites, Retried, Dismissed, HandOnTaken
    <3> QED BY <2>t, <3>1, <3>2
  <2>3. ASSUME NEW n \in Nodes, NEW m \in Messages, TakeUp(n, m) PROVE UNCHANGED attempts
    BY <2>3 DEF TakeUp, PublishWrite, Published, PublishAnswered, PublishUnconfirmed, Found,
       ClaimGranted, ClaimRefused, ClaimUnanswered, UnderPlaced, UnderNot, UnderWaiting,
       UnderNotToSend, PassOver
  <2>4. ASSUME NEW n \in Nodes, NEW m \in Messages, Pass(n, m), ~HandOn(n, m), ~Panics(n, m)
        PROVE  UNCHANGED attempts
    BY <2>4 DEF Pass, Behind, TryLocation, NoLocation, Stop, NotTaken, SendBegins, SendSucceeds,
       SendFails, HandOnNot, EndLost, EndUntried, Settle
  <2>5. ASSUME NEW n \in Nodes, NEW m \in Messages, Act(n, m), ~ActWrites(n, m)
        PROVE  UNCHANGED attempts
    BY <2>5 DEF Act, ActReads, ActClaims, ActRefused, ActLooks, ActGivesBack, ActedOn
  <2>6. ASSUME NEW n \in Nodes, Renew(n) \/ ReadWhole(n) \/ Crash(n) PROVE UNCHANGED attempts
    BY <2>6 DEF Renew, RenewAsk, RenewTaken, RenewAnswered, RenewUnanswered, ReadWhole, Crash
  <2>7. ASSUME \/ \E m \in Messages : PublishUnclaimed(m) \/ DueComes(m)
               \/ Tick \/ UNCHANGED vars
        PROVE  UNCHANGED attempts
    BY <2>7 DEF PublishUnclaimed, Published, DueComes, Tick, vars
  <2> QED BY <2>1, <2>2, <2>3, <2>4, <2>5, <2>6, <2>7 DEF Next
<1> QED BY <1>2, <1>3, TypeCorrect, ClaimsHold, LifeHolds, PTL DEF Spec, AttemptsForward

----------------------------------------------------------------------------
(* Where a Retry moves its Message, every Message to be sent can be taken.   *)

\* m alone goes on in its Journey, and a Retry moves it behind every place it had.
JourneyOn(m) ==
  /\ \A j \in Messages \ {m} : state'[j] = state[j] /\ place'[j] = place[j]
  /\ \/ state'[m] = state[m] /\ place'[m] = place[m]
     \/ state'[m] \in {"completed", "dismissed"}
     \/ state[m] = "waiting" /\ state'[m] = "failed" /\ place'[m] = place[m]
     \/ state[m] = "failed" /\ state'[m] = "waiting" /\ place'[m] = place[m] + 1
     \/ state[m] = "unborn" /\ state'[m] = "waiting" /\ place'[m] = 1

\* A place behind a Message stays behind it, and one it has come to stays reached.
LEMMA BehindKept ==
  ASSUME TypeOK, PlaceInv, UNCHANGED <<state, place>> \/ \E m \in Messages : JourneyOn(m)
  PROVE  /\ \A j \in Messages : /\ state'[j] \in {"waiting", "failed"} => place'[j] # 0
                                /\ state'[j] = "unborn" => place'[j] = 0
                                /\ HasEnded(state[j]) => HasEnded(state'[j])
         /\ \A j \in Messages, p \in Nat :
              /\ Past(state[j], place[j], p) => Past(state'[j], place'[j], p)
              /\ HasEnded(state[j]) \/ p <= place[j] => HasEnded(state'[j]) \/ p <= place'[j]
<1>t. state \in [Messages -> States] /\ place \in [Messages -> Nat]
  BY DEF TypeOK
<1>p. \A j \in Messages : /\ state[j] \in {"waiting", "failed"} => place[j] # 0
                          /\ state[j] = "unborn" => place[j] = 0
  BY DEF PlaceInv
<1>1. ASSUME NEW j \in Messages, NEW p \in Nat, state'[j] = state[j], place'[j] = place[j]
      PROVE  /\ state'[j] \in {"waiting", "failed"} => place'[j] # 0
             /\ state'[j] = "unborn" => place'[j] = 0
             /\ HasEnded(state[j]) => HasEnded(state'[j])
             /\ Past(state[j], place[j], p) => Past(state'[j], place'[j], p)
             /\ HasEnded(state[j]) \/ p <= place[j] => HasEnded(state'[j]) \/ p <= place'[j]
  BY <1>1, <1>p DEF Past, HasEnded
<1>2. ASSUME NEW m \in Messages, JourneyOn(m), NEW p \in Nat
      PROVE  /\ state'[m] \in {"waiting", "failed"} => place'[m] # 0
             /\ state'[m] = "unborn" => place'[m] = 0
             /\ HasEnded(state[m]) => HasEnded(state'[m])
             /\ Past(state[m], place[m], p) => Past(state'[m], place'[m], p)
             /\ HasEnded(state[m]) \/ p <= place[m] => HasEnded(state'[m]) \/ p <= place'[m]
  <2>1. place[m] \in Nat
    BY <1>t
  <2>2. CASE state'[m] = state[m] /\ place'[m] = place[m]
    BY <1>1, <2>2
  <2>3. CASE state'[m] \in {"completed", "dismissed"}
    BY <2>3 DEF Past, HasEnded
  <2>4. CASE state[m] = "waiting" /\ state'[m] = "failed" /\ place'[m] = place[m]
    BY <2>1, <2>4, <1>p DEF Past, HasEnded
  <2>5. CASE state[m] = "failed" /\ state'[m] = "waiting" /\ place'[m] = place[m] + 1
    BY <2>1, <2>5 DEF Past, HasEnded
  <2>6. CASE state[m] = "unborn" /\ state'[m] = "waiting" /\ place'[m] = 1
    <3>1. place[m] = 0
      BY <1>p, <2>6
    <3> QED BY <2>6, <3>1 DEF Past, HasEnded
  <2> QED BY <1>2, <2>2, <2>3, <2>4, <2>5, <2>6 DEF JourneyOn
<1>3. CASE UNCHANGED <<state, place>>
  BY <1>1, <1>3
<1>4. ASSUME NEW m \in Messages, JourneyOn(m), NEW j \in Messages, NEW p \in Nat
      PROVE  /\ state'[j] \in {"waiting", "failed"} => place'[j] # 0
             /\ state'[j] = "unborn" => place'[j] = 0
             /\ HasEnded(state[j]) => HasEnded(state'[j])
             /\ Past(state[j], place[j], p) => Past(state'[j], place'[j], p)
             /\ HasEnded(state[j]) \/ p <= place[j] => HasEnded(state'[j]) \/ p <= place'[j]
  <2>1. CASE j # m
    <3>1. state'[j] = state[j] /\ place'[j] = place[j]
      BY <1>4, <2>1 DEF JourneyOn
    <3> QED BY <1>1, <3>1
  <2>2. CASE j = m
    BY <1>2, <1>4, <2>2
  <2> QED BY <2>1, <2>2
<1> QED BY <1>3, <1>4

\* Every step moves one Message's Journey on, or none.
LEMMA JourneysGoOn ==
  ASSUME ~Blocks, TypeOK, ClaimInv, LifeInv, [Next]_vars
  PROVE  UNCHANGED <<state, place>> \/ \E m \in Messages : JourneyOn(m)
<1>t. state \in [Messages -> States] /\ place \in [Messages -> Nat]
  BY DEF TypeOK
<1> USE DEF ledgerVars, journeyVars, claimVars, passVars, standingVars, nodeVars, farVars
<1>1. ASSUME NEW n \in Nodes, NEW m \in Messages, PublishWrite(n, m) PROVE JourneyOn(m)
  BY <1>1, <1>t DEF PublishWrite, Published, JourneyOn
<1>2. ASSUME NEW m \in Messages, PublishUnclaimed(m) PROVE JourneyOn(m)
  BY <1>2, <1>t DEF PublishUnclaimed, Published, JourneyOn
<1>3. ASSUME NEW n \in Nodes, NEW m \in Messages, HandOn(n, m) \/ Panics(n, m) PROVE JourneyOn(m)
  <2>1. phase[n][m] \in Passing
    BY <1>3 DEF HandOn, Panics, Writes, Passing
  <2>2. CASE \E w : Written(n, m, w)
    <3>1. PICK w : Written(n, m, w)
      BY <2>2
    <3>2. state[m] = "waiting"
      BY <2>1, <3>1 DEF Written, HandOnTaken, ClaimInv, HeldInv, ReadInv
    <3>3. \/ state' = [state EXCEPT ![m] = "completed"] /\ place' = [place EXCEPT ![m] = 0]
          \/ state' = [state EXCEPT ![m] = "failed"] /\ place' = place
          \/ state' = [state EXCEPT ![m] = "waiting"] /\ place' = place
      BY <3>1 DEF Written, HandOnTaken, Completes, Fails, Recovers
    <3> QED BY <1>t, <3>2, <3>3 DEF JourneyOn
  <2>3. CASE UNCHANGED journeyVars
    BY <2>3 DEF JourneyOn
  <2> QED BY <1>3, <2>2, <2>3 DEF HandOn, Panics
<1>4. ASSUME NEW n \in Nodes, NEW m \in Messages, ActWrites(n, m) PROVE JourneyOn(m)
  <2>1. state[m] = "failed"
    BY <1>4 DEF ActWrites, Retried, Dismissed, HandOnTaken, LifeInv, SeenInv
  <2>2. \/ state' = [state EXCEPT ![m] = "waiting"] /\ place' = [place EXCEPT ![m] = @ + 1]
        \/ state' = [state EXCEPT ![m] = "dismissed"] /\ place' = [place EXCEPT ![m] = 0]
    BY <1>4 DEF ActWrites, Retried, Dismissed, HandOnTaken
  <2> QED BY <1>t, <2>1, <2>2 DEF JourneyOn
<1>5. ASSUME NEW n \in Nodes, NEW m \in Messages, TakeUp(n, m), ~PublishWrite(n, m)
      PROVE  UNCHANGED <<state, place>>
  BY <1>5 DEF TakeUp, PublishAnswered, PublishUnconfirmed, Found, ClaimGranted, ClaimRefused,
     ClaimUnanswered, UnderPlaced, UnderNot, UnderWaiting, UnderNotToSend, PassOver
<1>6. ASSUME NEW n \in Nodes, NEW m \in Messages, Pass(n, m), ~HandOn(n, m), ~Panics(n, m)
      PROVE  UNCHANGED <<state, place>>
  BY <1>6 DEF Pass, Behind, TryLocation, NoLocation, Stop, NotTaken, SendBegins, SendSucceeds,
     SendFails, HandOnNot, EndLost, EndUntried, Settle
<1>7. ASSUME NEW n \in Nodes, NEW m \in Messages, Act(n, m), ~ActWrites(n, m)
      PROVE  UNCHANGED <<state, place>>
  BY <1>7 DEF Act, ActReads, ActClaims, ActRefused, ActLooks, ActGivesBack, ActedOn
<1>8. ASSUME NEW n \in Nodes, Renew(n) \/ ReadWhole(n) \/ Crash(n) PROVE UNCHANGED <<state, place>>
  BY <1>8 DEF Renew, RenewAsk, RenewTaken, RenewAnswered, RenewUnanswered, ReadWhole, Crash
<1>9. ASSUME \/ \E m \in Messages : DueComes(m)
             \/ Tick \/ UNCHANGED vars
      PROVE  UNCHANGED <<state, place>>
  BY <1>9 DEF DueComes, Tick, vars
<1> QED BY <1>1, <1>2, <1>3, <1>4, <1>5, <1>6, <1>7, <1>8, <1>9 DEF Next

\* Every place a node passes over, or is about to, stays behind its Message.
LEMMA PlaceNext ==
  ASSUME ~Blocks, TypeOK, ClaimInv, LifeInv, PlaceInv, [Next]_vars
  PROVE  PlaceInv'
<1>t. /\ state \in [Messages -> States] /\ place \in [Messages -> Nat]
      /\ phase \in [Nodes -> [Messages -> Phases]] /\ at \in [Nodes -> [Messages -> Nat]]
      /\ passed \in [Nodes -> SUBSET (Messages \X Nat)]
  BY DEF TypeOK
<1>b. /\ \A j \in Messages : /\ state'[j] \in {"waiting", "failed"} => place'[j] # 0
                             /\ state'[j] = "unborn" => place'[j] = 0
                             /\ HasEnded(state[j]) => HasEnded(state'[j])
      /\ \A j \in Messages, p \in Nat :
           /\ Past(state[j], place[j], p) => Past(state'[j], place'[j], p)
           /\ HasEnded(state[j]) \/ p <= place[j] => HasEnded(state'[j]) \/ p <= place'[j]
  BY JourneysGoOn, BehindKept
<1> DEFINE Reached == {"found", "claimed", "placed"}
\* What each node's work on each Message may come to.
<1>k. ASSUME \A n \in Nodes, m \in Messages :
               /\ phase'[n][m] \in Reached =>
                    \/ phase[n][m] \in Reached /\ at'[n][m] = at[n][m]
                    \/ at'[n][m] = place[m]
               /\ phase'[n][m] = "passing" =>
                    /\ at'[n][m] = at[n][m]
                    /\ legible'[n] = legible[n]
                    /\ \/ phase[n][m] = "passing"
                       \/ phase[n][m] \in Reached /\ (state[m] # "waiting" \/ m \notin legible[n]),
             \A n \in Nodes : \A x \in passed'[n] :
               /\ legible'[n] = legible[n]
               /\ \/ x \in passed[n]
                  \/ \E m \in Messages : phase[n][m] = "passing" /\ x = <<m, at[n][m]>>
      PROVE  PlaceInv'
  <2>1. ASSUME NEW n \in Nodes, NEW m \in Messages, phase'[n][m] \in Reached
        PROVE  HasEnded(state'[m]) \/ at'[n][m] <= place'[m]
    <3>1. HasEnded(state[m]) \/ (at'[n][m] \in Nat /\ at'[n][m] <= place[m])
      BY <1>k, <1>t, <2>1 DEF PlaceInv
    <3>2. CASE HasEnded(state[m])
      BY <1>b, <3>2
    <3> QED BY <1>b, <3>1, <3>2
  <2>2. ASSUME NEW n \in Nodes, NEW m \in Messages, phase'[n][m] = "passing", m \in legible'[n]
        PROVE  Past(state'[m], place'[m], at'[n][m])
    <3>1. at'[n][m] = at[n][m] /\ at[n][m] \in Nat /\ m \in legible[n]
      BY <1>k, <1>t, <2>2
    <3>2. Past(state[m], place[m], at[n][m])
      <4>1. CASE phase[n][m] = "passing"
        BY <3>1, <4>1 DEF PlaceInv
      <4>2. CASE phase[n][m] \in Reached /\ state[m] # "waiting"
        <5>1. state[m] # "unborn"
          BY <4>2 DEF ClaimInv, BornInv
        <5>2. state[m] = "failed" \/ HasEnded(state[m])
          BY <1>t, <4>2, <5>1 DEF States, HasEnded
        <5>3. HasEnded(state[m]) \/ at[n][m] <= place[m]
          BY <4>2 DEF PlaceInv
        <5>4. place[m] \in Nat
          BY <1>t
        <5> QED BY <3>1, <5>2, <5>3, <5>4 DEF Past, HasEnded
      <4> QED BY <1>k, <2>2, <3>1, <4>1, <4>2
    <3>3. Past(state[m], place[m], at[n][m]) => Past(state'[m], place'[m], at'[n][m])
      BY <1>b, <3>1 DEF Past, HasEnded
    <3> QED BY <3>1, <3>2, <3>3 DEF Past, HasEnded
  <2>3. ASSUME NEW n \in Nodes, NEW x \in passed'[n], x[1] \in legible'[n]
        PROVE  Past(state'[x[1]], place'[x[1]], x[2])
    <3>0. x[1] \in legible[n]
      BY <1>k, <2>3
    <3>1. CASE x \in passed[n]
      <4>1. x[1] \in Messages /\ x[2] \in Nat /\ Past(state[x[1]], place[x[1]], x[2])
        BY <1>t, <3>0, <3>1 DEF PlaceInv
      <4> QED BY <1>b, <4>1
    <3>2. ASSUME NEW m \in Messages, phase[n][m] = "passing", x = <<m, at[n][m]>>
          PROVE  Past(state'[x[1]], place'[x[1]], x[2])
      <4>1. x[1] = m /\ x[2] = at[n][m] /\ x[2] \in Nat
        BY <1>t, <3>2
      <4>2. Past(state[m], place[m], x[2])
        BY <3>0, <3>2, <4>1 DEF PlaceInv
      <4> QED BY <1>b, <4>1, <4>2
    <3> QED BY <1>k, <3>1, <3>2
  <2> QED BY <1>b, <2>1, <2>2, <2>3 DEF PlaceInv
<1> USE DEF ledgerVars, journeyVars, claimVars, passVars, standingVars, nodeVars, farVars
<1>0. ASSUME UNCHANGED <<phase, at, passed, legible>> PROVE PlaceInv'
  BY <1>0, <1>k
<1>1. ASSUME NEW n \in Nodes, NEW m \in Messages, Found(n, m) PROVE PlaceInv'
  BY <1>1, <1>k, <1>t DEF Found, Move
<1>2. ASSUME NEW n \in Nodes, NEW m \in Messages, ClaimGranted(n, m) \/ UnderPlaced(n, m)
      PROVE  PlaceInv'
  <2>1. PICK p \in Reached : phase' = [phase EXCEPT ![n][m] = p]
    BY <1>2 DEF ClaimGranted, Claimed, UnderPlaced, Move
  <2>2. phase[n][m] \in Reached /\ UNCHANGED <<at, passed, legible>>
    BY <1>2 DEF ClaimGranted, UnderPlaced
  <2> QED BY <1>k, <1>t, <2>1, <2>2
<1>3. ASSUME NEW n \in Nodes, NEW m \in Messages, UnderNotToSend(n, m) PROVE PlaceInv'
  BY <1>3, <1>k, <1>t DEF UnderNotToSend, Move
<1>4. ASSUME NEW n \in Nodes, NEW m \in Messages, PassOver(n, m) PROVE PlaceInv'
  BY <1>4, <1>k, <1>t DEF PassOver, LetGo
\* Every other step leaves the Message in none of those phases.
<1>o. ASSUME NEW n \in Nodes, NEW m \in Messages, NEW p \in Phases \ (Reached \cup {"passing"}),
             phase' = [phase EXCEPT ![n][m] = p], UNCHANGED <<passed, legible>>,
             \A k \in Nodes, j \in Messages : k # n \/ j # m => at'[k][j] = at[k][j]
      PROVE  PlaceInv'
  BY <1>o, <1>k, <1>t
<1>p. {"idle", "published", "head", "edge", "sending", "tried", "settling"}
        \subseteq Phases \ (Reached \cup {"passing"})
  BY DEF Phases, Claiming, Owned, Passing
<1>5. ASSUME NEW n \in Nodes, NEW m \in Messages,
             \/ PublishWrite(n, m) \/ PublishAnswered(n, m) \/ PublishUnconfirmed(n, m)
             \/ ClaimRefused(n, m) \/ ClaimUnanswered(n, m) \/ UnderNot(n, m) \/ UnderWaiting(n, m)
      PROVE  PlaceInv'
  <2>1. PICK p \in {"published", "head", "idle"} : phase' = [phase EXCEPT ![n][m] = p]
    BY <1>5 DEF PublishWrite, PublishAnswered, PublishUnconfirmed, ClaimRefused, ClaimUnanswered,
       UnderNot, UnderWaiting, Claimed, Move, LetGo
  <2>2. /\ UNCHANGED <<passed, legible>>
        /\ \A k \in Nodes, j \in Messages : k # n \/ j # m => at'[k][j] = at[k][j]
    BY <1>5, <1>t DEF PublishWrite, PublishAnswered, PublishUnconfirmed, ClaimRefused,
       ClaimUnanswered, UnderNot, UnderWaiting, LetGo
  <2>3. p \in Phases \ (Reached \cup {"passing"})
    BY <1>p, <2>1
  <2> QED BY <1>o, <2>1, <2>2, <2>3
<1>6. ASSUME NEW n \in Nodes, NEW m \in Messages, Pass(n, m) PROVE PlaceInv'
  <2>1. /\ UNCHANGED <<passed, legible>>
        /\ at' \in {at, [at EXCEPT ![n][m] = 0]}
    BY <1>6 DEF Pass, Behind, TryLocation, NoLocation, Stop, NotTaken, SendBegins, SendSucceeds,
       SendFails, HandOn, HandOnNot, EndLost, EndUntried, Panics, Settle, Ended, LetGo
  <2>2. PICK p \in {"idle", "head", "edge", "sending", "tried", "settling"} :
          phase' = [phase EXCEPT ![n][m] = p]
    BY <1>6 DEF Pass, Behind, TryLocation, NoLocation, Stop, NotTaken, SendBegins, SendSucceeds,
       SendFails, HandOn, HandOnNot, EndLost, EndUntried, Panics, Settle, Ended, LetGo, Move,
       NotSent
  <2>3. \A k \in Nodes, j \in Messages : k # n \/ j # m => at'[k][j] = at[k][j]
    BY <1>t, <2>1
  <2>4. p \in Phases \ (Reached \cup {"passing"})
    BY <1>p, <2>2
  <2> QED BY <1>o, <2>1, <2>2, <2>3, <2>4
<1>7. ASSUME NEW n \in Nodes, NEW m \in Messages, Act(n, m) PROVE PlaceInv'
  <2>1. UNCHANGED <<phase, at, legible>>
    BY <1>7 DEF Act, ActReads, ActClaims, ActRefused, ActLooks, ActGivesBack, ActWrites, ActedOn
  <2>2. passed' = passed \/ passed' = [passed EXCEPT ![n] = {p \in @ : p[1] # m}]
    BY <1>7 DEF Act, ActReads, ActClaims, ActRefused, ActLooks, ActGivesBack, ActWrites, ActedOn
  <2> QED BY <1>k, <1>t, <2>1, <2>2
<1>8. ASSUME NEW n \in Nodes, ReadWhole(n) PROVE PlaceInv'
  BY <1>8, <1>k, <1>t DEF ReadWhole
<1>9. ASSUME NEW n \in Nodes, Crash(n) PROVE PlaceInv'
  BY <1>9, <1>k, <1>t DEF Crash
<1>10. ASSUME NEW n \in Nodes, Renew(n) PROVE PlaceInv'
  BY <1>0, <1>10 DEF Renew, RenewAsk, RenewTaken, RenewAnswered, RenewUnanswered
<1>11. ASSUME \/ \E m \in Messages : PublishUnclaimed(m) \/ DueComes(m)
              \/ Tick \/ UNCHANGED vars
       PROVE  PlaceInv'
  BY <1>0, <1>11 DEF PublishUnclaimed, DueComes, Tick, vars
<1> QED
  BY <1>1, <1>2, <1>3, <1>4, <1>5, <1>6, <1>7, <1>8, <1>9, <1>10, <1>11 DEF Next, TakeUp

\* Where a Retry moves its Message, a Message to be sent is always at a place of its
\* queue passed over by no node that can read it, whoever failed it, could not read it
\* or acted on it before, and however nodes are configured anew.
THEOREM AlwaysTakeable == ~Blocks => (Spec => []Takeable)
<1> SUFFICES ASSUME ~Blocks PROVE Spec => []Takeable
  OBVIOUS
<1>1. Init => PlaceInv
  BY DEF Init, PlaceInv
<1>2. TypeOK /\ ClaimInv /\ LifeInv /\ PlaceInv /\ [Next]_vars => PlaceInv'
  BY PlaceNext
<1>3. TypeOK /\ PlaceInv => Takeable
  <2> SUFFICES ASSUME TypeOK, PlaceInv, NEW m \in Messages, state[m] = "waiting"
               PROVE  /\ place[m] # 0
                      /\ \A n \in Nodes : m \in legible[n] => <<m, place[m]>> \notin passed[n]
    BY DEF Takeable
  <2>1. place[m] # 0 /\ place[m] \in Nat
    BY DEF PlaceInv, TypeOK
  <2>2. ASSUME NEW n \in Nodes, m \in legible[n], <<m, place[m]>> \in passed[n] PROVE FALSE
    <3> DEFINE x == <<m, place[m]>>
    <3>1. Past(state[x[1]], place[x[1]], x[2])
      BY <2>2 DEF PlaceInv
    <3>2. Past(state[m], place[m], place[m])
      BY <3>1
    <3> QED BY <2>1, <3>2 DEF Past, HasEnded
  <2> QED BY <2>1, <2>2
<1> QED BY <1>1, <1>2, <1>3, TypeCorrect, ClaimsHold, LifeHolds, PTL DEF Spec

===============================================================================
