---------------------------- MODULE Output_proofs ----------------------------
(***************************************************************************)
(* Theorems about Output.tla, for every limit, every text and every way to *)
(* cut it into pieces: a capped buffer holds exactly the part of its       *)
(* stream that fits, and knows whether that is all of it; the verdict on   *)
(* it is about the text up to its end and about its words.                 *)
(*                                                                         *)
(* The second rests on what the normalisations of compareOutput do to a    *)
(* text: none changes its spelling (which letters it has and which of them *)
(* are followed by one), and a text that normalizeLoose has made tidy is   *)
(* determined by its spelling.                                             *)
(***************************************************************************)
EXTENDS Output, FiniteSetTheorems, SequenceTheorems, TLAPS

----------------------------------------------------------------------------
(* The capped buffer.                                                      *)

BufferRecord == [max : Limits, buf : Seq(Char), capped : BOOLEAN]

\* What CaptureExact says of one buffer b and all that was written to it.
Exact(b, t) ==
  /\ b.buf = Fitting(t, b.max)
  /\ b.capped <=> b.buf # t

\* Cutting what follows t off again, or part of it.
LEMMA Cut ==
  ASSUME NEW t \in Seq(Char), NEW p \in Seq(Char), NEW n \in Nat
  PROVE  /\ t \o p \in Seq(Char) /\ Len(t \o p) = Len(t) + Len(p)
         /\ n <= Len(t) => SubSeq(t \o p, 1, n) = SubSeq(t, 1, n)
         /\ n > Len(t) /\ n <= Len(t) + Len(p) =>
              SubSeq(t \o p, 1, n) = t \o SubSeq(p, 1, n - Len(t))
<1>1. t \o p \in Seq(Char) /\ Len(t \o p) = Len(t) + Len(p) OBVIOUS
<1>2. ASSUME n <= Len(t) PROVE SubSeq(t \o p, 1, n) = SubSeq(t, 1, n)
  BY <1>1, <1>2
<1>3. ASSUME n > Len(t), n <= Len(t) + Len(p)
      PROVE  SubSeq(t \o p, 1, n) = t \o SubSeq(p, 1, n - Len(t))
  BY <1>1, <1>3
<1> QED BY <1>1, <1>2, <1>3

LEMMA FittingFacts ==
  ASSUME NEW t \in Seq(Char), NEW max \in Int
  PROVE  /\ Fitting(t, max) \in Seq(Char)
         /\ max > 0 => Len(Fitting(t, max)) <= max
         /\ max <= 0 \/ Len(t) <= max => Fitting(t, max) = t
         /\ max > 0 /\ Len(t) > max => /\ Fitting(t, max) = SubSeq(t, 1, max)
                                       /\ Len(Fitting(t, max)) = max
                                       /\ Fitting(t, max) # t
<1>1. CASE max <= 0 \/ Len(t) <= max BY <1>1 DEF Fitting
<1>2. CASE max > 0 /\ Len(t) > max
  <2>1. SubSeq(t, 1, max) \in Seq(Char) /\ Len(SubSeq(t, 1, max)) = max BY <1>2
  <2> QED BY <1>2, <2>1 DEF Fitting
<1> QED BY <1>1, <1>2

\* cappedBuffer.Write keeps a buffer exact.
LEMMA WriteExact ==
  ASSUME NEW b \in BufferRecord, NEW t \in Seq(Char), Exact(b, t),
         NEW p \in Seq(Char), p # << >>
  PROVE  /\ Write(b, p) \in BufferRecord
         /\ Write(b, p).max = b.max
         /\ Exact(Write(b, p), t \o p)
<1> DEFINE w == Write(b, p)
           rest == b.max - Len(b.buf)
<1>0. /\ b.max \in Int /\ b.buf \in Seq(Char) /\ Len(p) > 0
      /\ t \o p \in Seq(Char) /\ Len(t \o p) = Len(t) + Len(p)
  <2>1. b.max \in Int /\ b.buf \in Seq(Char) BY OutputAssumption DEF BufferRecord
  <2>2. Len(p) \in Nat /\ Len(p) # 0 BY EmptySeq
  <2>3. t \o p \in Seq(Char) /\ Len(t \o p) = Len(t) + Len(p) BY Cut
  <2> QED BY <2>1, <2>2, <2>3
<1>a. /\ b.max <= 0 \/ Len(t) <= b.max => b.buf = t /\ ~b.capped
      /\ b.max > 0 /\ Len(t) > b.max => b.buf = SubSeq(t, 1, b.max) /\ Len(b.buf) = b.max
  BY <1>0, FittingFacts DEF Exact
<1>b. /\ b.max <= 0 \/ Len(t) + Len(p) <= b.max => Fitting(t \o p, b.max) = t \o p
      /\ b.max > 0 /\ Len(t) + Len(p) > b.max =>
           /\ Fitting(t \o p, b.max) = SubSeq(t \o p, 1, b.max)
           /\ Fitting(t \o p, b.max) # t \o p
  <2>1. PICK u \in Seq(Char) : u = t \o p /\ Len(u) = Len(t) + Len(p) BY <1>0
  <2>2. /\ b.max <= 0 \/ Len(u) <= b.max => Fitting(u, b.max) = u
        /\ b.max > 0 /\ Len(u) > b.max =>
             Fitting(u, b.max) = SubSeq(u, 1, b.max) /\ Fitting(u, b.max) # u
    BY <1>0, <2>1, FittingFacts
  <2> QED BY <2>1, <2>2
<1>c. Len(t) \in Nat OBVIOUS
<1>1. CASE b.max <= 0
  <2>1. w = [b EXCEPT !.buf = @ \o p] BY <1>1 DEF Write
  <2>2. b.buf = t /\ ~b.capped /\ Fitting(t \o p, b.max) = t \o p BY <1>1, <1>a, <1>b
  <2> QED BY <1>0, <2>1, <2>2 DEF Exact, BufferRecord
<1>2. CASE b.max > 0 /\ rest <= 0
  <2>1. w = [b EXCEPT !.capped = TRUE] BY <1>0, <1>2 DEF Write
  <2>2. b.buf = SubSeq(t, 1, b.max) /\ Len(b.buf) = b.max /\ b.max <= Len(t)
    <3>1. CASE Len(t) > b.max BY <1>0, <1>2, <1>a, <3>1
    <3>2. CASE Len(t) <= b.max
      <4>1. b.buf = t /\ Len(t) = b.max BY <1>0, <1>2, <1>a, <1>c, <3>2
      <4> QED BY <4>1
    <3> QED BY <1>0, <1>c, <3>1, <3>2
  <2>3. /\ Fitting(t \o p, b.max) = SubSeq(t \o p, 1, b.max)
        /\ Fitting(t \o p, b.max) # t \o p
    BY <1>0, <1>2, <1>b, <1>c, <2>2
  <2>4. SubSeq(t \o p, 1, b.max) = SubSeq(t, 1, b.max) BY <1>0, <1>2, <2>2, Cut
  <2> QED BY <1>0, <2>1, <2>2, <2>3, <2>4 DEF Exact, BufferRecord
<1>3. ASSUME b.max > 0, rest > 0
      PROVE  b.buf = t /\ Len(t) < b.max /\ ~b.capped
  BY <1>0, <1>3, <1>a, <1>c
<1>4. CASE b.max > 0 /\ rest > 0 /\ Len(p) > rest
  <2>1. w = [b EXCEPT !.buf = @ \o SubSeq(p, 1, rest), !.capped = TRUE]
    BY <1>0, <1>4 DEF Write
  <2>2. b.buf = t /\ Len(t) < b.max /\ rest = b.max - Len(t) BY <1>0, <1>3, <1>4
  <2>3. /\ Fitting(t \o p, b.max) = SubSeq(t \o p, 1, b.max)
        /\ Fitting(t \o p, b.max) # t \o p
    BY <1>0, <1>4, <1>b, <1>c, <2>2
  <2>4. SubSeq(t \o p, 1, b.max) = t \o SubSeq(p, 1, rest) 
    <3>1. b.max \in Nat /\ b.max > Len(t) /\ b.max <= Len(t) + Len(p)
      BY <1>0, <1>4, <1>c, <2>2
    <3>2. SubSeq(t \o p, 1, b.max) = t \o SubSeq(p, 1, b.max - Len(t)) BY <3>1, Cut
    <3> QED BY <2>2, <3>2
  <2>5. t \o SubSeq(p, 1, rest) \in Seq(Char) BY <1>0, <1>4, <2>2
  <2> QED BY <1>0, <2>1, <2>2, <2>3, <2>4, <2>5 DEF Exact, BufferRecord
<1>5. CASE b.max > 0 /\ rest > 0 /\ Len(p) <= rest
  <2>1. w = [b EXCEPT !.buf = @ \o p] BY <1>0, <1>5 DEF Write
  <2>2. b.buf = t /\ ~b.capped /\ Len(t) + Len(p) <= b.max BY <1>0, <1>3, <1>5
  <2>3. Fitting(t \o p, b.max) = t \o p BY <1>b, <2>2
  <2> QED BY <1>0, <2>1, <2>2, <2>3 DEF Exact, BufferRecord
<1> QED BY <1>0, <1>1, <1>2, <1>4, <1>5

----------------------------------------------------------------------------
IInv ==
  /\ expected \in Expectations
  /\ printed \in [Streams -> Seq(Char)]
  /\ buffer \in [Streams -> BufferRecord]
  /\ verdict \in {"none", "accepted", "output_whitespace_mismatch", "wrong_output"}
  /\ CaptureExact

LEMMA IInvInit == Init => IInv
<1> SUFFICES ASSUME Init PROVE IInv OBVIOUS
<1>1. PICK max \in Limits :
        buffer = [s \in Streams |-> [max |-> max, buf |-> << >>, capped |-> FALSE]]
  BY DEF Init
<1>2. << >> \in Seq(Char) /\ Len(<< >>) = 0 /\ Fitting(<< >>, max) = << >>
  BY OutputAssumption, FittingFacts DEF Fitting
<1>3. buffer \in [Streams -> BufferRecord] BY <1>1, <1>2 DEF BufferRecord
<1>4. CaptureExact BY <1>1, <1>2 DEF Init, CaptureExact
<1> QED BY <1>2, <1>3, <1>4 DEF Init, IInv

LEMMA IInvStep == IInv /\ [Next]_vars => IInv'
<1> SUFFICES ASSUME IInv, [Next]_vars PROVE IInv' OBVIOUS
<1>1. ASSUME NEW s \in Streams, Put(s) PROVE IInv'
  <2>1. PICK p \in Pieces : /\ printed' = [printed EXCEPT ![s] = @ \o p]
                            /\ buffer' = [buffer EXCEPT ![s] = Write(@, p)]
    BY <1>1 DEF Put
  <2>2. p \in Seq(Char) /\ p # << >> BY OutputAssumption
  <2>3. buffer[s] \in BufferRecord /\ printed[s] \in Seq(Char) /\ Exact(buffer[s], printed[s])
    BY DEF IInv, CaptureExact, Exact
  <2>4. /\ Write(buffer[s], p) \in BufferRecord
        /\ Exact(Write(buffer[s], p), printed[s] \o p)
    BY <2>2, <2>3, WriteExact
  <2>5. printed[s] \o p \in Seq(Char) BY <2>2, <2>3
  <2>6. CaptureExact'
    <3> SUFFICES ASSUME NEW r \in Streams PROVE Exact(buffer'[r], printed'[r])
      BY DEF CaptureExact, Exact
    <3>1. CASE r = s BY <2>1, <2>4, <3>1 DEF IInv
    <3>2. CASE r # s BY <2>1, <3>2 DEF IInv, CaptureExact, Exact
    <3> QED BY <3>1, <3>2
  <2> QED BY <1>1, <2>1, <2>4, <2>5, <2>6 DEF IInv, Put
<1>2. CASE Judge BY <1>2 DEF Judge, CompareOutput, IInv, CaptureExact
<1>3. CASE UNCHANGED vars BY <1>3 DEF vars, IInv, CaptureExact
<1> QED BY <1>1, <1>2, <1>3 DEF Next

LEMMA IInvHolds == SafeSpec => []IInv
BY IInvInit, IInvStep, PTL DEF SafeSpec

\* No cappedBuffer outgrows its limit, whatever is written to it.
THEOREM TypeCorrect == SafeSpec => []TypeOK
<1>1. IInv => TypeOK
  <2> SUFFICES ASSUME IInv, NEW s \in Streams, buffer[s].max > 0
               PROVE  Len(buffer[s].buf) <= buffer[s].max
    BY DEF IInv, TypeOK, BufferRecord
  <2>1. buffer[s].max \in Int /\ printed[s] \in Seq(Char)
    BY OutputAssumption DEF IInv, BufferRecord
  <2> QED BY <2>1, FittingFacts DEF IInv, CaptureExact
<1> QED BY <1>1, IInvHolds, PTL

\* cappedBuffer.Write keeps the first max characters of a stream, however they come, and
\* OutputCapped tells exactly whether that is less than all of it.
THEOREM CaptureSafe == SafeSpec => []CaptureExact
BY IInvHolds, PTL DEF IInv

----------------------------------------------------------------------------
(* Sets of places in ascending order.                                      *)

\* A non-empty set of numbers has a least element.
LEMMA LeastOf ==
  ASSUME NEW T \in SUBSET Nat, T # {}
  PROVE  \E m \in T : \A k \in T : m <= k
<1> DEFINE Below == {ss \in Nat \X Nat : ss[1] < ss[2]}
<1>1. OpToRel(<, Nat) = Below BY Zenon DEF OpToRel
<1>2. IsWellFoundedOn(Below, Nat) BY NatLessThanWellFounded, <1>1, Zenon
<1> HIDE DEF Below
<1>3. PICK m \in T : \A k \in T : <<k, m>> \notin Below BY <1>2, WFMin
<1>4. \A k \in T : m <= k
  <2> SUFFICES ASSUME NEW k \in T PROVE m <= k OBVIOUS
  <2>1. m \in Nat /\ k \in Nat OBVIOUS
  <2>2. ~(k < m) BY <1>3, <2>1 DEF Below
  <2> QED BY <2>1, <2>2
<1> QED BY <1>4

\* One that is bounded has a last one.
LEMMA LastOf ==
  ASSUME NEW n \in Nat, NEW T \in SUBSET (1..n), T # {}
  PROVE  \E m \in T : \A k \in T : k <= m
<1> DEFINE Distances == {n - k : k \in T}
<1>1. Distances \in SUBSET Nat /\ Distances # {}
  <2>1. \A k \in T : n - k \in Nat OBVIOUS
  <2> QED BY <2>1
<1> HIDE DEF Distances
<1>2. PICK d \in Distances : \A e \in Distances : d <= e BY <1>1, LeastOf
<1>3. PICK m \in T : d = n - m BY DEF Distances
<1>4. \A k \in T : n - m <= n - k BY <1>2, <1>3 DEF Distances
<1> QED BY <1>4

Ascending(o) == \A a, b \in DOMAIN o : a < b => o[a] < o[b]

\* Every bounded set of numbers can be gone through in ascending order.
LEMMA OrderExists ==
  ASSUME NEW n \in Nat, NEW K \in SUBSET (1..n)
  PROVE  \E o \in [1..Cardinality(K) -> K] : Ascending(o)
<1> DEFINE Ordered(S) == \E o \in [1..Cardinality(S) -> S] : Ascending(o)
           Bad == {m \in Nat : \E S \in SUBSET (1..m) : ~Ordered(S)}
<1> SUFFICES ASSUME Bad # {} PROVE FALSE OBVIOUS
<1> HIDE DEF Ordered
<1>1. PICK m \in Bad : \A k \in Bad : m <= k BY LeastOf
<1>2. PICK S \in SUBSET (1..m) : ~Ordered(S) OBVIOUS
<1>3. m \in Nat OBVIOUS
<1>4. IsFiniteSet(S)
  <2>1. IsFiniteSet(1..m) BY <1>3, FS_Interval
  <2> QED BY <2>1, FS_Subset
<1>5. S # {}
  <2> SUFFICES ASSUME S = {} PROVE FALSE OBVIOUS
  <2>1. Cardinality(S) = 0 BY FS_EmptySet
  <2>2. 1..Cardinality(S) = {} BY <2>1
  <2> DEFINE f == [k \in {} |-> 0]
  <2>3. f \in [1..Cardinality(S) -> S] BY <2>2
  <2>4. Ascending(f) BY DEF Ascending
  <2> HIDE DEF f
  <2>5. Ordered(S) BY <2>3, <2>4, Zenon DEF Ordered
  <2> QED BY <1>2, <2>5
<1>6. m > 0
  <2>1. m = 0 => 1..m = {} OBVIOUS
  <2>2. PICK i : i \in S BY <1>5
  <2>3. i \in 1..m BY <2>2
  <2> QED BY <1>3, <2>1, <2>3
<1>7. m \in S
  <2> SUFFICES ASSUME m \notin S PROVE FALSE OBVIOUS
  <2>1. S \in SUBSET (1..(m - 1)) BY <1>3
  <2>2. m - 1 \in Bad BY <1>2, <1>3, <1>6, <2>1
  <2> QED BY <1>1, <1>3, <2>2
<1> DEFINE R == S \ {m}
           c == Cardinality(R)
<1>8. R \in SUBSET (1..(m - 1)) BY <1>3
<1>9. Ordered(R)
  <2> SUFFICES ASSUME ~Ordered(R) PROVE FALSE OBVIOUS
  <2>1. m - 1 \in Bad BY <1>3, <1>6, <1>8
  <2> QED BY <1>1, <1>3, <2>1
<1>10. c \in Nat /\ Cardinality(S) = c + 1
  <2>1. IsFiniteSet(R) /\ c = Cardinality(S) - 1 BY <1>4, <1>7, FS_RemoveElement
  <2>2. c \in Nat /\ Cardinality(S) \in Nat BY <1>4, <2>1, FS_CardinalityType
  <2> QED BY <2>1, <2>2
<1>11. PICK r \in [1..c -> R] : Ascending(r) BY <1>9 DEF Ordered
<1> DEFINE o == [k \in 1..(c + 1) |-> IF k = c + 1 THEN m ELSE r[k]]
<1> HIDE DEF c, Bad
<1>12. o \in [1..(c + 1) -> S] BY <1>7, <1>10, <1>11
<1>13. Ascending(o)
  <2> SUFFICES ASSUME NEW a \in 1..(c + 1), NEW b \in 1..(c + 1), a < b
               PROVE  o[a] < o[b]
    BY DEF Ascending
  <2>1. a \in 1..c BY <1>10
  <2>2. o[a] = r[a] /\ r[a] \in R BY <1>10, <1>11, <2>1
  <2>3. CASE b = c + 1
    <3>1. o[b] = m BY <2>3
    <3>2. r[a] \in 1..(m - 1) BY <1>8, <2>2
    <3> HIDE DEF o
    <3> QED BY <1>3, <2>2, <3>1, <3>2
  <2>4. CASE b # c + 1
    <3>1. b \in 1..c /\ o[b] = r[b] BY <1>10, <2>4
    <3> QED BY <1>11, <2>1, <2>2, <3>1 DEF Ascending
  <2> QED BY <2>3, <2>4
<1> HIDE DEF o
<1>14. Ordered(S) BY <1>10, <1>12, <1>13 DEF Ordered
<1> QED BY <1>2, <1>14

\* Sequences over the same places have the same length.
LEMMA SamePlaces ==
  ASSUME NEW a \in Nat, NEW b \in Nat, 1..a = 1..b PROVE a = b
<1>1. a > b => a \in 1..a /\ a \notin 1..b OBVIOUS
<1>2. b > a => b \in 1..b /\ b \notin 1..a OBVIOUS
<1> QED BY <1>1, <1>2

\* Enumerates(o, K): o goes through all of K, upwards.
Enumerates(o, K) ==
  /\ \E c \in Nat : o \in [1..c -> K]
  /\ Ascending(o)
  /\ \A i \in K : \E k \in DOMAIN o : o[k] = i

\* In an ascending function places and values are ordered in the same way.
LEMMA AscendingFacts ==
  ASSUME NEW K \in SUBSET Nat, NEW c \in Nat, NEW o \in [1..c -> K], Ascending(o)
  PROVE  \A a, b \in 1..c : (a < b <=> o[a] < o[b]) /\ (a = b <=> o[a] = o[b])
<1> SUFFICES ASSUME NEW a \in 1..c, NEW b \in 1..c
             PROVE  (a < b <=> o[a] < o[b]) /\ (a = b <=> o[a] = o[b])
  OBVIOUS
<1>1. o[a] \in Nat /\ o[b] \in Nat OBVIOUS
<1>2. (a < b => o[a] < o[b]) /\ (b < a => o[b] < o[a]) BY DEF Ascending
<1>3. a < b \/ a = b \/ b < a OBVIOUS
<1> QED BY <1>1, <1>2, <1>3

\* InOrder does so, and reaches every element.
LEMMA OrderFacts ==
  ASSUME NEW n \in Nat, NEW K \in SUBSET (1..n)
  PROVE  /\ Cardinality(K) \in Nat /\ InOrder(K) \in [1..Cardinality(K) -> K]
         /\ Enumerates(InOrder(K), K)
<1> DEFINE o == InOrder(K)
           c == Cardinality(K)
<1>1. IsFiniteSet(K) /\ c \in Nat
  <2>1. IsFiniteSet(1..n) BY FS_Interval
  <2>2. IsFiniteSet(K) BY <2>1, FS_Subset
  <2> QED BY <2>2, FS_CardinalityType
<1>2. o \in [1..c -> K] /\ Ascending(o)
  <2>1. \E q \in [1..c -> K] : \A a, b \in DOMAIN q : a < b => q[a] < q[b]
    BY OrderExists DEF Ascending
  <2> QED BY <2>1 DEF InOrder, Ascending
<1> HIDE DEF o, c
<1>3. o \in Injection(1..c, K)
  <2>1. K \in SUBSET Nat OBVIOUS
  <2>2. \A a, b \in 1..c : o[a] = o[b] => a = b BY <1>1, <1>2, <2>1, AscendingFacts
  <2> QED BY <1>2, <2>2 DEF Injection, IsInjective
<1>4. Cardinality(1..c) = c BY <1>1, FS_Interval
<1>5. o \in Surjection(1..c, K) BY <1>1, <1>3, <1>4, FS_Injection DEF c
<1>6. Enumerates(o, K) BY <1>1, <1>2, <1>5 DEF Enumerates, Surjection
<1> QED BY <1>1, <1>2, <1>6 DEF o, c

\* There is only one way through.
LEMMA OrderUnique ==
  ASSUME NEW n \in Nat, NEW K \in SUBSET (1..n), NEW o, Enumerates(o, K)
  PROVE  o = InOrder(K)
<1> DEFINE q == InOrder(K)
           d == Cardinality(K)
<1>1. PICK c \in Nat : o \in [1..c -> K] BY DEF Enumerates
<1>2. /\ d \in Nat /\ q \in [1..d -> K] /\ Ascending(q)
      /\ \A i \in K : \E k \in 1..d : q[k] = i
  BY OrderFacts DEF Enumerates
<1>3. Ascending(o) /\ \A i \in K : \E k \in 1..c : o[k] = i BY <1>1 DEF Enumerates
<1> HIDE DEF q, d
<1>4. /\ \A a, b \in 1..c : (a < b <=> o[a] < o[b]) /\ (a = b <=> o[a] = o[b])
      /\ \A a, b \in 1..d : (a < b <=> q[a] < q[b]) /\ (a = b <=> q[a] = q[b])
  <2>1. K \in SUBSET Nat OBVIOUS
  <2>2. \A a, b \in 1..c : (a < b <=> o[a] < o[b]) /\ (a = b <=> o[a] = o[b])
    BY <1>1, <1>3, <2>1, AscendingFacts
  <2>3. \A a, b \in 1..d : (a < b <=> q[a] < q[b]) /\ (a = b <=> q[a] = q[b])
    BY <1>2, <2>1, AscendingFacts
  <2> QED BY <2>2, <2>3
<1>5. ASSUME NEW k \in Nat, k > 0, \A m \in 1..(k - 1) : m \in 1..c /\ m \in 1..d /\ o[m] = q[m]
      PROVE  /\ k \in 1..c <=> k \in 1..d
             /\ k \in 1..c => o[k] = q[k]
  <2>1. ASSUME k \in 1..c PROVE k \in 1..d /\ q[k] <= o[k]
    <3>1. o[k] \in K BY <1>1, <2>1
    <3>2. PICK l \in 1..d : q[l] = o[k] BY <1>2, <3>1
    <3>3. l >= k
      <4> SUFFICES ASSUME l < k PROVE FALSE BY <1>5
      <4>1. l \in 1..(k - 1) BY <1>5
      <4>2. o[l] = o[k] /\ l \in 1..c BY <1>5, <3>2, <4>1
      <4> QED BY <1>4, <2>1, <4>2
    <3>4. k \in 1..d BY <1>2, <1>5, <3>3
    <3>5. q[k] \in 1..n /\ q[l] \in 1..n BY <1>2, <3>4
    <3>6. k = l \/ k < l BY <1>5, <3>3
    <3> QED BY <1>4, <3>2, <3>4, <3>5, <3>6
  <2>2. ASSUME k \in 1..d PROVE k \in 1..c /\ o[k] <= q[k]
    <3>1. q[k] \in K BY <1>2, <2>2
    <3>2. PICK l \in 1..c : o[l] = q[k] BY <1>3, <3>1
    <3>3. l >= k
      <4> SUFFICES ASSUME l < k PROVE FALSE BY <1>5
      <4>1. l \in 1..(k - 1) BY <1>5
      <4>2. q[l] = q[k] /\ l \in 1..d BY <1>5, <3>2, <4>1
      <4> QED BY <1>4, <2>2, <4>2
    <3>4. k \in 1..c BY <1>1, <1>5, <3>3
    <3>5. o[k] \in 1..n /\ o[l] \in 1..n BY <1>1, <3>4
    <3>6. k = l \/ k < l BY <1>5, <3>3
    <3> QED BY <1>4, <3>2, <3>4, <3>5, <3>6
  <2>3. k \in 1..c => o[k] \in 1..n BY <1>1
  <2>4. k \in 1..d => q[k] \in 1..n BY <1>2
  <2> QED BY <2>1, <2>2, <2>3, <2>4
<1> DEFINE Differ == {k \in 1..c \cup 1..d : ~(k \in 1..c /\ k \in 1..d /\ o[k] = q[k])}
<1>6. Differ = {}
  <2> SUFFICES ASSUME Differ # {} PROVE FALSE OBVIOUS
  <2>1. PICK k \in Differ : \A m \in Differ : k <= m
    <3>1. Differ \in SUBSET Nat OBVIOUS
    <3> HIDE DEF Differ
    <3> QED BY <3>1, LeastOf
  <2>2. \A m \in 1..(k - 1) : m \in 1..c /\ m \in 1..d /\ o[m] = q[m]
    <3> SUFFICES ASSUME NEW m \in 1..(k - 1)
                 PROVE  m \in 1..c /\ m \in 1..d /\ o[m] = q[m] OBVIOUS
    <3>1. m \notin Differ BY <2>1
    <3>2. m \in 1..c \/ m \in 1..d BY <1>1, <1>2
    <3> QED BY <3>1, <3>2
  <2> QED BY <1>5, <2>2
<1>7. 1..c = 1..d
  <2>1. \A k : k \in 1..c <=> k \in 1..d BY <1>6
  <2> QED BY <2>1
<1>8. \A k \in 1..c : o[k] = q[k] BY <1>6
<1> QED BY <1>1, <1>2, <1>7, <1>8 DEF q

----------------------------------------------------------------------------
(* What is kept of a text.                                                 *)

\* The letters of a text are among its places.
LEMMA TextFacts ==
  ASSUME NEW t \in Seq(Char)
  PROVE  /\ Len(t) \in Nat /\ DOMAIN t = 1..Len(t)
         /\ Letters(t) \in SUBSET (1..Len(t))
         /\ \A i \in 1..Len(t) : t[i] \in Char /\ (i \in Letters(t) <=> t[i] \notin White)
BY DEF Letters

\* What Keep returns: the kept characters, all of them, in their order.
LEMMA KeepFacts ==
  ASSUME NEW t \in Seq(Char), NEW K \in SUBSET (1..Len(t))
  PROVE  LET o == InOrder(K)
             c == Cardinality(K)
         IN  /\ c \in Nat /\ o \in [1..c -> K] /\ Keep(t, K) \in Seq(Char)
             /\ DOMAIN Keep(t, K) = 1..c /\ Len(Keep(t, K)) = c
             /\ \A k \in 1..c : o[k] \in K /\ Keep(t, K)[k] = t[o[k]]
             /\ \A i \in K : \E k \in 1..c : o[k] = i
             /\ \A a, b \in 1..c : (a < b <=> o[a] < o[b]) /\ (a = b <=> o[a] = o[b])
<1> DEFINE o == InOrder(K)
           c == Cardinality(K)
           u == Keep(t, K)
<1>1. /\ c \in Nat /\ o \in [1..c -> K] /\ Ascending(o)
      /\ \A i \in K : \E k \in 1..c : o[k] = i
  <2>1. Len(t) \in Nat OBVIOUS
  <2>2. c \in Nat /\ o \in [1..c -> K] /\ Enumerates(o, K) BY <2>1, OrderFacts
  <2> QED BY <2>2 DEF Enumerates
<1>2. \A a, b \in 1..c : (a < b <=> o[a] < o[b]) /\ (a = b <=> o[a] = o[b])
  <2>1. K \in SUBSET Nat OBVIOUS
  <2> HIDE DEF o, c
  <2> QED BY <1>1, <2>1, AscendingFacts
<1>3. u = [k \in 1..c |-> t[o[k]]] BY <1>1 DEF Keep
<1> HIDE DEF o, c, u
<1>4. \A k \in 1..c : o[k] \in K /\ t[o[k]] \in Char
  <2>1. \A i \in K : t[i] \in Char OBVIOUS
  <2> QED BY <1>1, <2>1
<1>5. u \in [1..c -> Char] BY <1>3, <1>4
<1>6. u \in Seq(Char) BY <1>1, <1>5, SeqDef
<1>7. Len(u) = c
  <2>1. Len(u) \in Nat /\ 1..Len(u) = 1..c BY <1>5, <1>6
  <2> QED BY <1>1, <2>1, SamePlaces
<1> QED BY <1>1, <1>2, <1>3, <1>4, <1>6, <1>7 DEF o, c, u

\* After a letter whose word ends something white is kept, if anything is.
GapsKept(t, K) ==
  \A i \in Letters(t) : i < Len(t) /\ i + 1 \notin Letters(t) =>
    \/ \A k \in K : k <= i
    \/ \E w \in K : w > i /\ \A m \in (i + 1)..w : m \notin Letters(t)

\* Which letters follow each other does not change when white space goes, as long as
\* some is left where there was some.
LEMMA SpellingKept ==
  ASSUME NEW t \in Seq(Char), NEW K \in SUBSET (1..Len(t)),
         Letters(t) \subseteq K, GapsKept(t, K),
         NEW u \in Seq(Char), Len(u) = Cardinality(K),
         \A k \in 1..Len(u) : /\ u[k] \in White <=> t[InOrder(K)[k]] \in White
                              /\ u[k] \notin White => u[k] = t[InOrder(K)[k]]
  PROVE  Spelling(u) = Spelling(t)
<1> DEFINE o == InOrder(K)
           c == Len(u)
           e == InOrder(Letters(u))
           d == Cardinality(Letters(u))
           f == [j \in 1..d |-> o[e[j]]]
<1>1. /\ c \in Nat /\ o \in [1..c -> K]
      /\ \A i \in K : \E k \in 1..c : o[k] = i
      /\ \A a, b \in 1..c : (a < b <=> o[a] < o[b]) /\ (a = b <=> o[a] = o[b])
  BY KeepFacts
<1>2. /\ d \in Nat /\ e \in [1..d -> Letters(u)]
      /\ \A i \in Letters(u) : \E k \in 1..d : e[k] = i
      /\ \A a, b \in 1..d : (a < b <=> e[a] < e[b]) /\ (a = b <=> e[a] = e[b])
  <2>1. Letters(u) \in SUBSET (1..Len(u)) BY TextFacts
  <2> QED BY <2>1, KeepFacts
<1> HIDE DEF o, e, d
<1>3. \A k \in 1..c : o[k] \in 1..Len(t) /\ (k \in Letters(u) <=> o[k] \in Letters(t))
  <2> SUFFICES ASSUME NEW k \in 1..c
               PROVE  o[k] \in 1..Len(t) /\ (k \in Letters(u) <=> o[k] \in Letters(t))
    OBVIOUS
  <2>1. o[k] \in 1..Len(t) BY <1>1
  <2>2. u[k] \in White <=> t[o[k]] \in White BY DEF o
  <2> QED BY <2>1, <2>2, TextFacts
<1>4. Letters(u) \in SUBSET (1..c) BY TextFacts
<1>5. f \in [1..d -> Letters(t)]
  <2> SUFFICES ASSUME NEW j \in 1..d PROVE o[e[j]] \in Letters(t) OBVIOUS
  <2>1. e[j] \in Letters(u) /\ e[j] \in 1..c BY <1>2, <1>4
  <2> QED BY <1>3, <2>1
<1>6. Ascending(f)
  <2> SUFFICES ASSUME NEW a \in 1..d, NEW b \in 1..d, a < b PROVE o[e[a]] < o[e[b]]
    BY DEF Ascending
  <2>1. e[a] \in 1..c /\ e[b] \in 1..c BY <1>2, <1>4
  <2>2. e[a] < e[b] BY <1>2
  <2> QED BY <1>1, <2>1, <2>2
<1>7. \A i \in Letters(t) : \E j \in 1..d : f[j] = i
  <2> SUFFICES ASSUME NEW i \in Letters(t) PROVE \E j \in 1..d : f[j] = i OBVIOUS
  <2>1. PICK k \in 1..c : o[k] = i BY <1>1
  <2>2. k \in Letters(u) BY <1>3, <2>1
  <2>3. PICK j \in 1..d : e[j] = k BY <1>2, <2>2
  <2> QED BY <2>1, <2>3
<1>8. f = InOrder(Letters(t))
  <2>1. Len(t) \in Nat /\ Letters(t) \in SUBSET (1..Len(t)) BY TextFacts
  <2>2. DOMAIN f = 1..d BY <1>5
  <2> HIDE DEF f
  <2>3. Enumerates(f, Letters(t)) BY <1>2, <1>5, <1>6, <1>7, <2>2 DEF Enumerates
  <2> QED BY <2>1, <2>3, OrderUnique
<1>9. ASSUME NEW k \in Letters(u)
      PROVE  k + 1 \in Letters(u) <=> o[k] + 1 \in Letters(t)
  <2> DEFINE i == o[k]
  <2>0. k \in 1..c /\ i \in Letters(t) /\ i \in 1..Len(t) /\ Len(t) \in Nat
    BY <1>3, <1>4
  <2> HIDE DEF i
  <2>1. ASSUME i + 1 \in Letters(t) PROVE k + 1 \in Letters(u)
    <3>1. PICK l \in 1..c : o[l] = i + 1 BY <1>1, <2>1
    <3>2. k < l BY <1>1, <2>0, <3>1 DEF i
    <3>3. k + 1 \in 1..c BY <1>1, <2>0, <3>2
    <3>4. l = k + 1
      <4> SUFFICES ASSUME k + 1 < l PROVE FALSE BY <2>0, <3>2
      <4>1. o[k] < o[k + 1] /\ o[k + 1] < o[l] BY <1>1, <2>0, <3>3
      <4>2. o[k + 1] \in 1..Len(t) BY <1>3, <3>3
      <4> QED BY <2>0, <3>1, <4>1, <4>2 DEF i
    <3> QED BY <1>3, <2>1, <3>1, <3>3, <3>4
  <2>2. ASSUME k + 1 \in Letters(u), i + 1 \notin Letters(t) PROVE FALSE
    <3>1. k + 1 \in 1..c BY <1>4, <2>2
    <3>2. /\ o[k + 1] \in Letters(t) /\ o[k + 1] \in 1..Len(t) /\ o[k + 1] \in K
          /\ o[k + 1] > i
      BY <1>1, <1>3, <2>0, <2>2, <3>1 DEF i
    <3>3. i < Len(t) BY <2>0, <3>2
    <3>4. CASE \A m \in K : m <= i BY <2>0, <3>2, <3>4
    <3>5. ASSUME NEW w \in K, w > i, \A m \in (i + 1)..w : m \notin Letters(t) PROVE FALSE
      <4>1. PICK l \in 1..c : o[l] = w BY <1>1
      <4>2. w \in 1..Len(t) OBVIOUS
      <4>3. k < l BY <1>1, <2>0, <3>5, <4>1 DEF i
      <4>4. k + 1 = l \/ k + 1 < l BY <2>0, <4>3
      <4>5. o[k + 1] <= w BY <1>1, <3>1, <3>2, <4>1, <4>2, <4>4
      <4>6. o[k + 1] \in (i + 1)..w BY <2>0, <3>2, <4>2, <4>5
      <4> QED BY <3>2, <3>5, <4>6
    <3> QED BY <2>0, <2>2, <3>3, <3>4, <3>5 DEF GapsKept
  <2> QED BY <2>1, <2>2 DEF i
<1>10. ASSUME NEW j \in 1..d
       PROVE  /\ u[e[j]] = t[f[j]]
              /\ e[j] + 1 \in Letters(u) <=> f[j] + 1 \in Letters(t)
  <2>1. e[j] \in Letters(u) /\ e[j] \in 1..c /\ f[j] = o[e[j]] BY <1>2, <1>4
  <2>2. u[e[j]] \notin White BY <2>1, TextFacts
  <2>3. u[e[j]] = t[o[e[j]]] BY <2>1, <2>2 DEF o
  <2> QED BY <1>9, <2>1, <2>3
<1>11. DOMAIN e = 1..d /\ DOMAIN f = 1..d BY <1>2, <1>5
<1> HIDE DEF f
<1>12. Spelling(u) = [j \in 1..d |-> <<u[e[j]], e[j] + 1 \in Letters(u)>>]
  BY <1>11 DEF Spelling, e
<1>13. Spelling(t) = [j \in 1..d |-> <<t[f[j]], f[j] + 1 \in Letters(t)>>]
  BY <1>8, <1>11 DEF Spelling
<1> QED BY <1>10, <1>12, <1>13

----------------------------------------------------------------------------
(* Normalisation keeps the spelling.                                       *)

\* Converting line ends leaves the words as they are: a LF stays for each CR that goes.
LEMMA ToLFFacts ==
  ASSUME NEW s \in Seq(Char)
  PROVE  ToLF(s) \in Seq(Char) /\ Spelling(ToLF(s)) = Spelling(s)
<1> DEFINE K == {i \in DOMAIN s : ~(s[i] = CR /\ i < Len(s) /\ s[i + 1] = LF)}
<1>1. K \in SUBSET (1..Len(s)) OBVIOUS
<1>2. Letters(s) \subseteq K BY DEF Letters, White
<1> HIDE DEF K
<1>3. GapsKept(s, K)
  <2> SUFFICES ASSUME NEW i \in Letters(s), i < Len(s), i + 1 \notin Letters(s)
               PROVE  \E w \in K : w > i /\ \A m \in (i + 1)..w : m \notin Letters(s)
    BY DEF GapsKept
  <2>1. i \in 1..Len(s) /\ Len(s) \in Nat BY TextFacts
  <2>2. CASE i + 1 \in K
    <3>1. \A m \in (i + 1)..(i + 1) : m = i + 1 BY <2>1
    <3> QED BY <2>1, <2>2, <3>1
  <2>3. CASE i + 1 \notin K
    <3>1. i + 1 \in DOMAIN s BY <2>1
    <3>2. i + 1 < Len(s) /\ s[(i + 1) + 1] = LF BY <2>3, <3>1 DEF K
    <3>3. i + 2 \in DOMAIN s /\ s[i + 2] = LF /\ i + 2 > i BY <2>1, <3>2
    <3>4. i + 2 \in K /\ i + 2 \notin Letters(s) BY <3>3 DEF K, Letters, White, LF, CR
    <3>5. \A m \in (i + 1)..(i + 2) : m = i + 1 \/ m = i + 2 BY <2>1
    <3> QED BY <3>3, <3>4, <3>5
  <2> QED BY <2>2, <2>3
<1>4. /\ ToLF(s) \in Seq(Char) /\ Len(ToLF(s)) = Cardinality(K)
      /\ \A k \in 1..Cardinality(K) : ToLF(s)[k] = s[InOrder(K)[k]]
  BY <1>1, KeepFacts DEF ToLF, K
<1> QED BY <1>1, <1>2, <1>3, <1>4, SpellingKept

\* What is white in a tidy text is one space between two letters.
Tidy(x) ==
  \A k \in DOMAIN x \ Letters(x) : x[k] = Space /\ k - 1 \in Letters(x) /\ k + 1 \in Letters(x)

\* So does joining the fields, after which white space is one space behind a letter.
LEMMA JoinedFacts ==
  ASSUME NEW t \in Seq(Char)
  PROVE  /\ Joined(t) \in Seq(Char) /\ Spelling(Joined(t)) = Spelling(t)
         /\ \A k \in DOMAIN Joined(t) \ Letters(Joined(t)) :
              Joined(t)[k] = Space /\ k - 1 \in Letters(Joined(t))
<1> DEFINE K == {i \in DOMAIN t : t[i] \in White => i > 1 /\ t[i - 1] \notin White}
           w == Keep(t, K)
           o == InOrder(K)
           c == Cardinality(K)
           u == Joined(t)
<1>1. K \in SUBSET (1..Len(t)) /\ Letters(t) \subseteq K BY DEF Letters
<1> HIDE DEF K
<1>2. /\ c \in Nat /\ o \in [1..c -> K] /\ w \in Seq(Char)
      /\ DOMAIN w = 1..c /\ Len(w) = c
      /\ \A k \in 1..c : o[k] \in K /\ w[k] = t[o[k]]
      /\ \A i \in K : \E k \in 1..c : o[k] = i
      /\ \A a, b \in 1..c : (a < b <=> o[a] < o[b]) /\ (a = b <=> o[a] = o[b])
  BY <1>1, KeepFacts
<1>3. u = [k \in DOMAIN w |-> IF w[k] \in White THEN Space ELSE w[k]] BY DEF Joined, K
<1> HIDE DEF w, o, c, u
<1>4. \A k \in 1..c : w[k] \in Char BY <1>2
<1>5. \A k \in 1..c :
        /\ u[k] \in Char
        /\ u[k] \in White <=> t[o[k]] \in White
        /\ u[k] \notin White => u[k] = t[o[k]]
        /\ u[k] \in White => u[k] = Space
  BY <1>2, <1>3, <1>4 DEF Char, White
<1>6. u \in Seq(Char) /\ Len(u) = c /\ DOMAIN u = 1..c
  <2>0. c \in Nat /\ DOMAIN w = 1..c BY <1>2
  <2>1. u \in [1..c -> Char]
    <3>1. \A k \in 1..c : u[k] \in Char BY <1>5
    <3>2. u = [k \in 1..c |-> u[k]] BY <1>3, <2>0
    <3> QED BY <3>1, <3>2
  <2>2. u \in Seq(Char) BY <2>0, <2>1, SeqDef
  <2>3. Len(u) \in Nat /\ 1..Len(u) = 1..c BY <2>1, <2>2
  <2> QED BY <1>2, <2>1, <2>2, <2>3, SamePlaces
<1>8. GapsKept(t, K)
  <2> SUFFICES ASSUME NEW i \in Letters(t), i < Len(t), i + 1 \notin Letters(t)
               PROVE  \E k \in K : k > i /\ \A m \in (i + 1)..k : m \notin Letters(t)
    BY DEF GapsKept
  <2>1. i \in 1..Len(t) /\ Len(t) \in Nat /\ t[i] \notin White BY TextFacts
  <2>2. i + 1 \in DOMAIN t /\ i + 1 > 1 /\ (i + 1) - 1 = i BY <2>1
  <2>3. i + 1 \in K BY <2>1, <2>2 DEF K
  <2>4. \A m \in (i + 1)..(i + 1) : m = i + 1 BY <2>1
  <2> QED BY <2>1, <2>3, <2>4
<1>9. Spelling(u) = Spelling(t)
  <2>1. \A k \in 1..Len(u) : /\ u[k] \in White <=> t[InOrder(K)[k]] \in White
                             /\ u[k] \notin White => u[k] = t[InOrder(K)[k]]
    BY <1>5, <1>6 DEF o
  <2>2. Len(u) = Cardinality(K) BY <1>6 DEF c
  <2> QED BY <1>1, <1>6, <1>8, <2>1, <2>2, SpellingKept
<1>10. ASSUME NEW k \in DOMAIN u \ Letters(u)
       PROVE  u[k] = Space /\ k - 1 \in Letters(u)
  <2> DEFINE i == o[k]
  <2>1. k \in 1..c /\ u[k] \in White BY <1>6 DEF Letters
  <2>2. i \in K /\ t[i] \in White BY <1>2, <1>5, <2>1
  <2>3. i \in 1..Len(t) /\ i > 1 /\ t[i - 1] \notin White BY <2>2 DEF K
  <2> HIDE DEF i
  <2>4. i - 1 \in Letters(t) BY <2>3 DEF Letters
  <2>5. PICK l \in 1..c : o[l] = i - 1 BY <1>1, <1>2, <2>4
  <2>6. l < k BY <1>2, <2>1, <2>3, <2>5 DEF i
  <2>7. l = k - 1
    <3> SUFFICES ASSUME l < k - 1 PROVE FALSE BY <1>2, <2>1, <2>6
    <3>1. k - 1 \in 1..c BY <1>2, <2>1
    <3>2. o[l] < o[k - 1] /\ o[k - 1] < o[k] BY <1>2, <2>1, <3>1
    <3>3. o[k - 1] \in 1..Len(t) BY <1>1, <1>2, <3>1
    <3> QED BY <2>3, <2>5, <3>2, <3>3 DEF i
  <2>8. u[l] \notin White BY <1>5, <2>3, <2>5
  <2>9. k - 1 \in Letters(u) BY <1>6, <2>7, <2>8 DEF Letters
  <2> QED BY <1>5, <2>1, <2>9
<1> QED BY <1>6, <1>9, <1>10 DEF u

\* TrimRight cuts a text behind its last character that is not to be cut.
LEMMA TrimPlace ==
  ASSUME NEW t \in Seq(Char), NEW cut
  PROVE  \E m \in 0..Len(t) :
           /\ TrimRight(t, cut) = SubSeq(t, 1, m)
           /\ m > 0 => t[m] \notin cut
           /\ \A i \in (m + 1)..Len(t) : t[i] \in cut
<1> DEFINE kept == {i \in DOMAIN t : t[i] \notin cut}
<1>1. Len(t) \in Nat /\ DOMAIN t = 1..Len(t) OBVIOUS
<1>2. CASE kept = {}
  <2>1. TrimRight(t, cut) = << >> /\ SubSeq(t, 1, 0) = << >> BY <1>2 DEF TrimRight
  <2>2. \A i \in 1..Len(t) : t[i] \in cut BY <1>1, <1>2
  <2>3. 0 \in 0..Len(t) BY <1>1
  <2> QED BY <2>1, <2>2, <2>3
<1>3. CASE kept # {}
  <2> DEFINE m == Max(kept)
  <2>1. kept \in SUBSET (1..Len(t)) BY <1>1
  <2>2. \E x \in kept : \A y \in kept : y <= x
    <3> HIDE DEF kept
    <3> QED BY <1>1, <1>3, <2>1, LastOf
  <2>3. PICK x \in kept : \A y \in kept : x >= y BY <1>1, <2>1, <2>2
  <2>4. m \in kept /\ \A y \in kept : m >= y
    <3> HIDE DEF kept
    <3> QED BY <2>3 DEF Max
  <2>5. TrimRight(t, cut) = SubSeq(t, 1, m) BY <1>3 DEF TrimRight
  <2> HIDE DEF m
  <2>6. m \in 1..Len(t) /\ t[m] \notin cut BY <1>1, <2>4
  <2>7. ASSUME NEW i \in (m + 1)..Len(t) PROVE t[i] \in cut
    <3>1. i \in DOMAIN t /\ ~(m >= i) BY <1>1, <2>6
    <3> QED BY <2>4, <3>1
  <2>8. m \in 0..Len(t) BY <1>1, <2>6
  <2> QED BY <2>5, <2>6, <2>7, <2>8
<1> QED BY <1>2, <1>3

\* In a prefix every place keeps its number.
LEMMA PrefixOrder ==
  ASSUME NEW m \in Nat
  PROVE  Cardinality(1..m) = m /\ \A k \in 1..m : InOrder(1..m)[k] = k
<1> DEFINE o == [k \in 1..m |-> k]
<1>1. o \in [1..m -> 1..m] OBVIOUS
<1>2. Enumerates(o, 1..m) BY DEF Enumerates, Ascending
<1> HIDE DEF o
<1>3. o = InOrder(1..m) BY <1>2, OrderUnique
<1>4. Cardinality(1..m) = m BY FS_Interval
<1> QED BY <1>3, <1>4 DEF o

\* Cutting white space off the end leaves the words as they are.
LEMMA TrimKept ==
  ASSUME NEW t \in Seq(Char), NEW cut \in SUBSET White
  PROVE  TrimRight(t, cut) \in Seq(Char) /\ Spelling(TrimRight(t, cut)) = Spelling(t)
<1>1. PICK m \in 0..Len(t) : /\ TrimRight(t, cut) = SubSeq(t, 1, m)
                             /\ \A i \in (m + 1)..Len(t) : t[i] \in cut
  BY TrimPlace
<1> DEFINE u == SubSeq(t, 1, m)
<1>2. Len(t) \in Nat /\ m \in Nat OBVIOUS
<1>3. u \in Seq(Char) /\ Len(u) = m /\ \A k \in 1..m : u[k] = t[k] BY <1>2
<1> HIDE DEF u
<1>4. 1..m \in SUBSET (1..Len(t)) OBVIOUS
<1>5. Letters(t) \subseteq 1..m
  <2> SUFFICES ASSUME NEW i \in Letters(t) PROVE i \in 1..m OBVIOUS
  <2>1. i \in 1..Len(t) /\ t[i] \notin White BY TextFacts
  <2>2. i \notin (m + 1)..Len(t) BY <1>1, <2>1
  <2> QED BY <1>2, <2>1, <2>2
<1>6. GapsKept(t, 1..m)
  <2> SUFFICES ASSUME NEW i \in Letters(t), i < Len(t), i + 1 \notin Letters(t)
               PROVE  \/ \A k \in 1..m : k <= i
                      \/ \E w \in 1..m : w > i /\ \A k \in (i + 1)..w : k \notin Letters(t)
    BY DEF GapsKept
  <2>1. i \in 1..Len(t) BY TextFacts
  <2>2. CASE i + 1 <= m
    <3>1. \A k \in (i + 1)..(i + 1) : k = i + 1 BY <2>1
    <3>2. i + 1 \in 1..m /\ i + 1 > i BY <1>2, <2>1, <2>2
    <3> QED BY <3>1, <3>2
  <2>3. CASE ~(i + 1 <= m) BY <1>2, <2>1, <2>3
  <2> QED BY <2>2, <2>3
<1>7. Len(u) = Cardinality(1..m) BY <1>2, <1>3, PrefixOrder
<1>8. \A k \in 1..Len(u) : /\ u[k] \in White <=> t[InOrder(1..m)[k]] \in White
                           /\ u[k] \notin White => u[k] = t[InOrder(1..m)[k]]
  BY <1>2, <1>3, PrefixOrder
<1>9. Spelling(u) = Spelling(t) BY <1>3, <1>4, <1>5, <1>6, <1>7, <1>8, SpellingKept
<1> QED BY <1>1, <1>3, <1>9 DEF u

\* normalizeLoose makes a text tidy and leaves its words as they are.
LEMMA LooseFacts ==
  ASSUME NEW s \in Seq(Char)
  PROVE  /\ NormalizeLoose(s) \in Seq(Char) /\ Tidy(NormalizeLoose(s))
         /\ Spelling(NormalizeLoose(s)) = Spelling(s)
<1> DEFINE j == Joined(ToLF(s))
           x == TrimRight(j, {Space})
<1>1. /\ j \in Seq(Char) /\ Spelling(j) = Spelling(s)
      /\ \A k \in DOMAIN j \ Letters(j) : j[k] = Space /\ k - 1 \in Letters(j)
  BY ToLFFacts, JoinedFacts
<1> HIDE DEF j
<1>2. {Space} \in SUBSET White BY DEF White
<1>3. x \in Seq(Char) /\ Spelling(x) = Spelling(s) BY <1>1, <1>2, TrimKept
<1>4. PICK m \in 0..Len(j) : x = SubSeq(j, 1, m) /\ (m > 0 => j[m] # Space)
  BY <1>1, TrimPlace
<1>5. Len(j) \in Nat /\ DOMAIN j = 1..Len(j) BY <1>1
<1> HIDE DEF x
<1>6. DOMAIN x = 1..m /\ \A k \in 1..m : x[k] = j[k]
  <2>1. m \in Nat /\ m <= Len(j) /\ x = SubSeq(j, 1, m) BY <1>4, <1>5
  <2> QED BY <1>1, <1>5, <2>1
<1>7. \A k \in 1..m : k \in Letters(x) <=> k \in Letters(j) BY <1>4, <1>5, <1>6 DEF Letters
<1>8. Tidy(x)
  <2> SUFFICES ASSUME NEW k \in DOMAIN x \ Letters(x)
               PROVE  x[k] = Space /\ k - 1 \in Letters(x) /\ k + 1 \in Letters(x)
    BY DEF Tidy
  <2>1. k \in 1..m /\ k \in DOMAIN j \ Letters(j) BY <1>4, <1>5, <1>6, <1>7
  <2>2. x[k] = Space /\ j[k] = Space /\ k - 1 \in Letters(j) BY <1>1, <1>6, <2>1
  <2>3. k - 1 \in 1..Len(j) BY <1>1, <2>2, TextFacts
  <2>4. k - 1 \in Letters(x) BY <1>4, <1>5, <1>7, <2>1, <2>2, <2>3
  <2>5. k # m BY <1>4, <2>1, <2>2
  <2>6. k + 1 \in 1..m /\ k + 1 \in DOMAIN j /\ (k + 1) - 1 = k BY <1>4, <1>5, <2>1, <2>5
  <2>7. k + 1 \in Letters(j) BY <1>1, <2>1, <2>6
  <2> QED BY <1>7, <2>2, <2>4, <2>6, <2>7
<1> QED BY <1>3, <1>8 DEF NormalizeLoose, x, j

\* In a tidy text the places of the letters follow from which of them are followed by one.
LEMMA TidySteps ==
  ASSUME NEW x \in Seq(Char), Tidy(x)
  PROVE  LET p == InOrder(Letters(x))
             c == Cardinality(Letters(x))
         IN  /\ Len(x) = IF c = 0 THEN 0 ELSE p[c]
             /\ c > 0 => p[1] = 1
             /\ \A j \in 1..(c - 1) :
                  p[j + 1] = p[j] + (IF p[j] + 1 \in Letters(x) THEN 1 ELSE 2)
<1> DEFINE p == InOrder(Letters(x))
           c == Cardinality(Letters(x))
           L == Letters(x)
<1>1. /\ Len(x) \in Nat /\ L \in SUBSET (1..Len(x))
      /\ \A k \in (1..Len(x)) \ L : k - 1 \in L /\ k + 1 \in L
  BY TextFacts DEF Tidy
<1>2. /\ c \in Nat /\ p \in [1..c -> L]
      /\ \A i \in L : \E k \in 1..c : p[k] = i
      /\ \A a, b \in 1..c : (a < b <=> p[a] < p[b]) /\ (a = b <=> p[a] = p[b])
  BY <1>1, KeepFacts
<1> HIDE DEF p, c, L
<1>3. \A k \in 1..c : p[k] \in L /\ p[k] \in 1..Len(x) BY <1>1, <1>2
<1>4. Len(x) > 0 => 1 \in L /\ Len(x) \in L
  <2>1. 0 \notin L /\ Len(x) + 1 \notin L BY <1>1
  <2>2. Len(x) > 0 => 1 \in 1..Len(x) /\ Len(x) \in 1..Len(x) /\ 1 - 1 = 0 BY <1>1
  <2> QED BY <1>1, <2>1, <2>2
<1>5. c > 0 => Len(x) > 0
  <2>1. c > 0 => p[1] \in 1..Len(x) BY <1>2, <1>3
  <2> QED BY <1>1, <2>1
<1>6. c = 0 => Len(x) = 0
  <2>1. c = 0 => \A i : i \notin L BY <1>2
  <2> QED BY <1>1, <1>4, <2>1
<1>7. ASSUME c > 0 PROVE p[1] = 1
  <2>1. PICK k \in 1..c : p[k] = 1 BY <1>2, <1>4, <1>5, <1>7
  <2>2. 1 \in 1..c /\ p[1] \in 1..Len(x) BY <1>2, <1>3, <1>7
  <2>3. k = 1 \/ 1 < k BY <2>1
  <2> QED BY <1>1, <1>2, <2>1, <2>2, <2>3
<1>8. ASSUME c > 0 PROVE Len(x) = p[c]
  <2>1. PICK k \in 1..c : p[k] = Len(x) BY <1>2, <1>4, <1>5, <1>8
  <2>2. c \in 1..c /\ p[c] \in 1..Len(x) BY <1>2, <1>3, <1>8
  <2>3. k = c \/ k < c BY <1>2, <2>1
  <2> QED BY <1>1, <1>2, <2>1, <2>2, <2>3
<1>9. ASSUME NEW j \in 1..(c - 1)
      PROVE  p[j + 1] = p[j] + (IF p[j] + 1 \in L THEN 1 ELSE 2)
  <2>1. /\ j \in 1..c /\ j + 1 \in 1..c /\ j < j + 1
        /\ p[j] \in 1..Len(x) /\ p[j + 1] \in 1..Len(x)
        /\ p[j + 1] \in L /\ p[j] < p[j + 1]
    BY <1>2, <1>3
  <2>2. ASSUME NEW i \in L, p[j] < i PROVE p[j + 1] <= i
    <3>1. PICK l \in 1..c : p[l] = i BY <1>2
    <3>2. j < l BY <1>2, <2>1, <2>2, <3>1
    <3>3. j + 1 = l \/ j + 1 < l BY <2>1, <3>2
    <3>4. i \in 1..Len(x) BY <1>1
    <3> QED BY <1>2, <2>1, <3>1, <3>3, <3>4
  <2>3. CASE p[j] + 1 \in L
    <3>1. p[j + 1] <= p[j] + 1 BY <2>1, <2>2, <2>3
    <3> QED BY <1>1, <2>1, <2>3, <3>1
  <2>4. CASE p[j] + 1 \notin L
    <3>1. p[j + 1] # p[j] + 1 BY <2>1, <2>4
    <3>2. p[j] + 1 \in (1..Len(x)) \ L BY <1>1, <2>1, <2>4
    <3>3. (p[j] + 1) + 1 \in L BY <1>1, <3>2
    <3>4. p[j] < (p[j] + 1) + 1 BY <1>1, <2>1
    <3>5. p[j + 1] <= (p[j] + 1) + 1 BY <2>2, <3>3, <3>4
    <3> QED BY <1>1, <2>1, <2>4, <3>1, <3>5
  <2> QED BY <2>3, <2>4
<1>10. Len(x) = IF c = 0 THEN 0 ELSE p[c] BY <1>2, <1>6, <1>8
<1> QED BY <1>7, <1>9, <1>10 DEF p, c, L

\* A tidy text is its spelling.
LEMMA TidyUnique ==
  ASSUME NEW x \in Seq(Char), NEW y \in Seq(Char), Tidy(x), Tidy(y),
         Spelling(x) = Spelling(y)
  PROVE  x = y
<1> DEFINE p == InOrder(Letters(x))
           q == InOrder(Letters(y))
           c == Cardinality(Letters(x))
           d == Cardinality(Letters(y))
<1>1. /\ c \in Nat /\ p \in [1..c -> Letters(x)]
      /\ \A i \in Letters(x) : \E k \in 1..c : p[k] = i
  <2>1. Letters(x) \in SUBSET (1..Len(x)) BY TextFacts
  <2> QED BY <2>1, KeepFacts
<1>2. /\ d \in Nat /\ q \in [1..d -> Letters(y)]
      /\ \A i \in Letters(y) : \E k \in 1..d : q[k] = i
  <2>1. Letters(y) \in SUBSET (1..Len(y)) BY TextFacts
  <2> QED BY <2>1, KeepFacts
<1>3. /\ Len(x) = IF c = 0 THEN 0 ELSE p[c]
      /\ c > 0 => p[1] = 1
      /\ \A j \in 1..(c - 1) :
           p[j + 1] = p[j] + (IF p[j] + 1 \in Letters(x) THEN 1 ELSE 2)
  BY TidySteps
<1>4. /\ Len(y) = IF d = 0 THEN 0 ELSE q[d]
      /\ d > 0 => q[1] = 1
      /\ \A j \in 1..(d - 1) :
           q[j + 1] = q[j] + (IF q[j] + 1 \in Letters(y) THEN 1 ELSE 2)
  BY TidySteps
<1>5. /\ Spelling(x) = [k \in DOMAIN p |-> <<x[p[k]], p[k] + 1 \in Letters(x)>>]
      /\ Spelling(y) = [k \in DOMAIN q |-> <<y[q[k]], q[k] + 1 \in Letters(y)>>]
  BY DEF Spelling
<1> HIDE DEF p, q, c, d
<1>6. c = d
  <2>1. DOMAIN p = 1..c /\ DOMAIN q = 1..d BY <1>1, <1>2
  <2>2. DOMAIN Spelling(x) = 1..c /\ DOMAIN Spelling(y) = 1..d BY <1>5, <2>1
  <2> QED BY <1>1, <1>2, <2>2, SamePlaces
<1>7. \A k \in 1..c : /\ x[p[k]] = y[q[k]]
                      /\ p[k] + 1 \in Letters(x) <=> q[k] + 1 \in Letters(y)
  <2> SUFFICES ASSUME NEW k \in 1..c
               PROVE  /\ x[p[k]] = y[q[k]]
                      /\ p[k] + 1 \in Letters(x) <=> q[k] + 1 \in Letters(y)
    OBVIOUS
  <2>1. k \in DOMAIN p /\ k \in DOMAIN q BY <1>1, <1>2, <1>6
  <2>2. /\ Spelling(x)[k] = <<x[p[k]], p[k] + 1 \in Letters(x)>>
        /\ Spelling(y)[k] = <<y[q[k]], q[k] + 1 \in Letters(y)>>
    BY <1>5, <2>1
  <2>3. /\ Spelling(x)[k][1] = x[p[k]] /\ Spelling(x)[k][2] = (p[k] + 1 \in Letters(x))
        /\ Spelling(y)[k][1] = y[q[k]] /\ Spelling(y)[k][2] = (q[k] + 1 \in Letters(y))
    BY <2>2
  <2> QED BY <2>3
<1> DEFINE Bad == {j \in 1..c : p[j] # q[j]}
<1>8. Bad = {}
  <2> SUFFICES ASSUME Bad # {} PROVE FALSE OBVIOUS
  <2>1. PICK j \in Bad : \A k \in Bad : j <= k
    <3>1. Bad \in SUBSET Nat BY <1>1
    <3> HIDE DEF Bad
    <3> QED BY <3>1, LeastOf
  <2>2. j \in 1..c /\ p[j] # q[j] OBVIOUS
  <2>3. j # 1 BY <1>1, <1>3, <1>4, <1>6, <2>2
  <2>4. j - 1 \in 1..c /\ j - 1 \in 1..(c - 1) /\ (j - 1) + 1 = j BY <1>1, <2>2, <2>3
  <2>5. p[j - 1] = q[j - 1]
    <3> SUFFICES ASSUME p[j - 1] # q[j - 1] PROVE FALSE OBVIOUS
    <3>1. j - 1 \in Bad BY <2>4
    <3> HIDE DEF Bad
    <3> QED BY <1>1, <2>1, <2>2, <3>1
  <2>6. p[j - 1] + 1 \in Letters(x) <=> q[j - 1] + 1 \in Letters(y) BY <1>7, <2>4
  <2>7. /\ p[j] = p[j - 1] + (IF p[j - 1] + 1 \in Letters(x) THEN 1 ELSE 2)
        /\ q[j] = q[j - 1] + (IF q[j - 1] + 1 \in Letters(y) THEN 1 ELSE 2)
    BY <1>3, <1>4, <1>6, <2>4
  <2> QED BY <2>2, <2>5, <2>6, <2>7
<1>9. \A k \in 1..c : p[k] = q[k] BY <1>8
<1> HIDE DEF Bad
<1>10. Len(x) = Len(y)
  <2>1. CASE c = 0 BY <1>3, <1>4, <1>6, <2>1
  <2>2. CASE c # 0
    <3>1. c \in 1..c BY <1>1, <2>2
    <3> QED BY <1>3, <1>4, <1>6, <1>9, <2>2, <3>1
  <2> QED BY <2>1, <2>2
<1>11. Letters(x) = Letters(y)
  <2>1. ASSUME NEW i \in Letters(x) PROVE i \in Letters(y)
    <3>1. PICK k \in 1..c : p[k] = i BY <1>1
    <3> QED BY <1>2, <1>6, <1>9, <3>1
  <2>2. ASSUME NEW i \in Letters(y) PROVE i \in Letters(x)
    <3>1. PICK k \in 1..d : q[k] = i BY <1>2
    <3> QED BY <1>1, <1>6, <1>9, <3>1
  <2> QED BY <2>1, <2>2
<1>12. ASSUME NEW i \in 1..Len(x) PROVE x[i] = y[i]
  <2>1. CASE i \in Letters(x)
    <3>1. PICK k \in 1..c : p[k] = i BY <1>1, <2>1
    <3> QED BY <1>7, <1>9, <3>1
  <2>2. CASE i \notin Letters(x)
    <3>1. i \in DOMAIN x \ Letters(x) /\ i \in DOMAIN y \ Letters(y)
      BY <1>10, <1>11, <2>2
    <3> QED BY <3>1 DEF Tidy
  <2> QED BY <2>1, <2>2
<1> QED BY <1>10, <1>12, SeqEqual

----------------------------------------------------------------------------
(* What the two comparisons say.                                           *)

\* compareOutput's second comparison is about the words of the two texts.
LEMMA LooseMeans ==
  ASSUME NEW s \in Seq(Char), NEW t \in Seq(Char)
  PROVE  NormalizeLoose(s) = NormalizeLoose(t) <=> Spelling(s) = Spelling(t)
<1>1. /\ NormalizeLoose(s) \in Seq(Char) /\ Tidy(NormalizeLoose(s))
      /\ Spelling(NormalizeLoose(s)) = Spelling(s)
      /\ NormalizeLoose(t) \in Seq(Char) /\ Tidy(NormalizeLoose(t))
      /\ Spelling(NormalizeLoose(t)) = Spelling(t)
  BY LooseFacts
<1> QED BY <1>1, TidyUnique

\* Texts the first comparison takes for the same have the same words.
LEMMA StrictKept ==
  ASSUME NEW s \in Seq(Char), NEW t \in Seq(Char), NormalizeStrict(s) = NormalizeStrict(t)
  PROVE  Spelling(s) = Spelling(t)
<1>1. Trimmed \in SUBSET White BY DEF Trimmed, White
<1>2. /\ ToLF(s) \in Seq(Char) /\ Spelling(ToLF(s)) = Spelling(s)
      /\ ToLF(t) \in Seq(Char) /\ Spelling(ToLF(t)) = Spelling(t)
  BY ToLFFacts
<1>3. /\ Spelling(NormalizeStrict(s)) = Spelling(ToLF(s))
      /\ Spelling(NormalizeStrict(t)) = Spelling(ToLF(t))
  BY <1>1, <1>2, TrimKept DEF NormalizeStrict
<1> QED BY <1>2, <1>3

\* compareOutput's first comparison is about everything but blanks at the ends.
LEMMA AgreeMeans ==
  ASSUME NEW a \in Seq(Char), NEW b \in Seq(Char)
  PROVE  TrimRight(a, Trimmed) = TrimRight(b, Trimmed) <=> Agree(a, b)
<1>1. PICK m \in 0..Len(a) : /\ TrimRight(a, Trimmed) = SubSeq(a, 1, m)
                             /\ m > 0 => a[m] \notin Trimmed
                             /\ \A i \in (m + 1)..Len(a) : a[i] \in Trimmed
  BY TrimPlace
<1>2. PICK n \in 0..Len(b) : /\ TrimRight(b, Trimmed) = SubSeq(b, 1, n)
                             /\ n > 0 => b[n] \notin Trimmed
                             /\ \A i \in (n + 1)..Len(b) : b[i] \in Trimmed
  BY TrimPlace
<1>3. Len(a) \in Nat /\ Len(b) \in Nat /\ m \in Nat /\ n \in Nat OBVIOUS
<1>4. /\ Len(SubSeq(a, 1, m)) = m /\ \A i \in 1..m : SubSeq(a, 1, m)[i] = a[i]
      /\ Len(SubSeq(b, 1, n)) = n /\ \A i \in 1..n : SubSeq(b, 1, n)[i] = b[i]
  BY <1>3
<1>5. ASSUME SubSeq(a, 1, m) = SubSeq(b, 1, n) PROVE Agree(a, b)
  <2>1. m = n BY <1>4, <1>5
  <2>2. /\ m \in 0..Len(a) /\ m <= Len(b) /\ SubSeq(a, 1, m) = SubSeq(b, 1, m)
        /\ \A i \in (m + 1)..Len(b) : b[i] \in Trimmed
    BY <1>2, <1>3, <1>5, <2>1
  <2> QED BY <1>1, <2>2, Zenon DEF Agree
<1>6. ASSUME Agree(a, b) PROVE SubSeq(a, 1, m) = SubSeq(b, 1, n)
  <2>1. PICK l \in 0..Len(a) :
          /\ l <= Len(b) /\ SubSeq(a, 1, l) = SubSeq(b, 1, l)
          /\ \A i \in (l + 1)..Len(a) : a[i] \in Trimmed
          /\ \A i \in (l + 1)..Len(b) : b[i] \in Trimmed
    BY <1>6 DEF Agree
  <2>2. m <= l
    <3>1. m > l => m \in (l + 1)..Len(a) /\ m > 0 BY <1>3
    <3> QED BY <1>1, <1>3, <2>1, <3>1
  <2>3. n <= l
    <3>1. n > l => n \in (l + 1)..Len(b) /\ n > 0 BY <1>3
    <3> QED BY <1>2, <1>3, <2>1, <3>1
  <2>4. \A i \in 1..l : a[i] = b[i]
    <3>1. \A i \in 1..l : SubSeq(a, 1, l)[i] = a[i] BY <1>3
    <3>2. \A i \in 1..l : SubSeq(b, 1, l)[i] = b[i] BY <1>3, <2>1
    <3> QED BY <2>1, <3>1, <3>2
  <2>5. m <= n
    <3>1. m > n => m \in (n + 1)..Len(b) /\ m > 0 /\ a[m] = b[m] BY <1>3, <2>1, <2>2, <2>4
    <3> QED BY <1>1, <1>2, <1>3, <3>1
  <2>6. n <= m
    <3>1. n > m => n \in (m + 1)..Len(a) /\ n > 0 /\ a[n] = b[n] BY <1>3, <2>3, <2>4
    <3> QED BY <1>1, <1>2, <1>3, <3>1
  <2>7. m = n BY <1>3, <2>5, <2>6
  <2>8. \A i \in 1..m : SubSeq(a, 1, m)[i] = SubSeq(b, 1, n)[i]
    BY <1>3, <1>4, <2>2, <2>4, <2>7
  <2> DEFINE u == SubSeq(a, 1, m)
             v == SubSeq(b, 1, n)
  <2>9. /\ u \in Seq(Char) /\ v \in Seq(Char) /\ Len(u) = m /\ Len(v) = m
        /\ \A i \in 1..m : u[i] = v[i]
    BY <1>3, <1>4, <2>7, <2>8
  <2> HIDE DEF u, v
  <2>10. u = v BY <2>9, SeqEqual
  <2> QED BY <2>10 DEF u, v
<1> QED BY <1>1, <1>2, <1>5, <1>6

\* The two answers of compareOutput, said of the texts themselves.
LEMMA CompareMeans ==
  ASSUME NEW a \in Seq(Char), NEW w \in Seq(Char)
  PROVE  /\ CompareOutput(a, w) = "accepted" <=> Agree(ToLF(a), ToLF(w))
         /\ CompareOutput(a, w) = "wrong_output" <=> Spelling(a) # Spelling(w)
<1>1. NormalizeStrict(a) = NormalizeStrict(w) <=> Agree(ToLF(a), ToLF(w))
  BY ToLFFacts, AgreeMeans DEF NormalizeStrict
<1>2. NormalizeLoose(a) = NormalizeLoose(w) <=> Spelling(a) = Spelling(w) BY LooseMeans
<1>3. NormalizeStrict(a) = NormalizeStrict(w) => Spelling(a) = Spelling(w) BY StrictKept
<1>4. CompareOutput(a, w) = "accepted" <=> NormalizeStrict(a) = NormalizeStrict(w)
  BY DEF CompareOutput
<1>5. CompareOutput(a, w) = "wrong_output" <=>
        NormalizeStrict(a) # NormalizeStrict(w) /\ NormalizeLoose(a) # NormalizeLoose(w)
  BY DEF CompareOutput
<1> QED BY <1>1, <1>2, <1>3, <1>4, <1>5

----------------------------------------------------------------------------
\* The verdict is the comparison of what the buffer still holds.
VInv == IInv /\ (verdict # "none" => verdict = CompareOutput(buffer["stdout"].buf, expected))

\* It says what it means: the buffer is the part of stdout that fits.
LEMMA VInvMeans == VInv => VerdictMeans
<1> SUFFICES ASSUME VInv, verdict # "none" PROVE VerdictMeans BY DEF VerdictMeans
<1> DEFINE text == Fitting(printed["stdout"], buffer["stdout"].max)
<1>1. buffer["stdout"].buf = text
  BY DEF VInv, IInv, CaptureExact, Streams
<1>2. text \in Seq(Char) /\ expected \in Seq(Char)
  <2>1. "stdout" \in Streams BY DEF Streams
  <2>2. buffer["stdout"].buf \in Seq(Char) BY <2>1 DEF VInv, IInv, BufferRecord
  <2> QED BY <1>1, <2>2, OutputAssumption DEF VInv, IInv
<1>3. verdict = CompareOutput(text, expected) BY <1>1 DEF VInv
<1> HIDE DEF text
<1>4. /\ (verdict = "accepted") <=> Agree(ToLF(text), ToLF(expected))
      /\ (verdict = "wrong_output") <=> Spelling(text) # Spelling(expected)
  BY <1>2, <1>3, CompareMeans
<1> QED BY <1>4 DEF VerdictMeans, text

\* Judge compares once; after that nothing is written.
LEMMA VInvStep ==
  ASSUME VInv, [Next]_vars, IInv' PROVE VInv'
<1>1. ASSUME NEW s \in Streams, Put(s) PROVE VInv'
  <2>1. verdict' = "none" BY <1>1 DEF Put
  <2> QED BY <2>1 DEF VInv
<1>2. CASE Judge BY <1>2 DEF Judge, VInv
<1>3. CASE UNCHANGED vars
  <2>1. UNCHANGED <<expected, buffer, verdict>> BY <1>3 DEF vars
  <2> QED BY <2>1 DEF VInv
<1> QED BY <1>1, <1>2, <1>3 DEF Next

\* Whatever is printed, in whatever pieces, and whatever the limit: accepted means that
\* the captured stdout is the expected output up to line ends and blanks at the end,
\* wrong_output that the words differ.  stderr has no part in it.
THEOREM VerdictSafe == SafeSpec => []VerdictMeans
<1>1. Init => VInv BY IInvInit DEF Init, VInv
<1>2. VInv /\ [Next]_vars => VInv'
  <2>1. VInv => IInv BY DEF VInv
  <2> QED BY <2>1, IInvStep, VInvStep
<1> QED BY <1>1, <1>2, VInvMeans, PTL DEF SafeSpec
=============================================================================
