--------------------------- MODULE AudioIoProofs ---------------------------
(***************************************************************************)
(* The sound card and the driver's tick, for every size of frame and       *)
(* block.  What waits in each direction is one sequence, Captured or       *)
(* Playing: a step takes from its front, adds to its back, or cuts it at   *)
(* another place, and the old sound of a flush is a prefix of it (Split).  *)
(* The pace of the callbacks bounds its length, so that the caps, where    *)
(* samples would be dropped, are never reached.                            *)
(***************************************************************************)
EXTENDS AudioIo, SequenceTheorems, FiniteSetTheorems, TLAPS

Increasing(s) == \A i, j \in DOMAIN s : i < j => s[i] < s[j]

\* Of s exactly the first k samples are not newer than mark.
Split(s, mark, k) ==
    /\ k \in 0 .. Len(s)
    /\ \A i \in DOMAIN s : s[i] <= mark <=> i <= k

-----------------------------------------------------------------------------
(* Sequences of samples                                                    *)

LEMMA SampleFacts ==
    ASSUME NEW s \in Samples
    PROVE  /\ Len(s) \in Nat /\ DOMAIN s = 1 .. Len(s)
           /\ \A i \in DOMAIN s : s[i] \in Nat \ {0}
BY LenProperties, ElementOfSeq DEF Samples

LEMMA ConcatFacts ==
    ASSUME NEW s \in Samples, NEW t \in Samples
    PROVE  /\ s \o t \in Samples
           /\ Len(s \o t) = Len(s) + Len(t)
           /\ DOMAIN (s \o t) = 1 .. Len(s) + Len(t)
           /\ \A i \in 1 .. Len(s) : (s \o t)[i] = s[i]
           /\ \A i \in 1 .. Len(t) : (s \o t)[Len(s) + i] = t[i]
           /\ \A i \in Len(s) + 1 .. Len(s) + Len(t) :
                i - Len(s) \in 1 .. Len(t) /\ (s \o t)[i] = t[i - Len(s)]
<1>1. Len(s) \in Nat /\ Len(t) \in Nat
  BY SampleFacts
<1>2. /\ s \o t \in Samples /\ Len(s \o t) = Len(s) + Len(t)
      /\ \A i \in 1 .. Len(s) + Len(t) :
           (s \o t)[i] = IF i <= Len(s) THEN s[i] ELSE t[i - Len(s)]
  BY ConcatProperties DEF Samples
<1>3. \A i \in 1 .. Len(s) : i \in 1 .. Len(s) + Len(t) /\ i <= Len(s)
  BY <1>1
<1>4. \A i \in 1 .. Len(t) : /\ Len(s) + i \in 1 .. Len(s) + Len(t)
                             /\ ~(Len(s) + i <= Len(s)) /\ Len(s) + i - Len(s) = i
  BY <1>1
<1>5. \A i \in Len(s) + 1 .. Len(s) + Len(t) :
        i \in 1 .. Len(s) + Len(t) /\ ~(i <= Len(s)) /\ i - Len(s) \in 1 .. Len(t)
  BY <1>1
<1>6. DOMAIN (s \o t) = 1 .. Len(s \o t)
  BY <1>2, SampleFacts, Zenon
<1>7. \A i \in 1 .. Len(s) : (s \o t)[i] = s[i]
  BY <1>2, <1>3, Zenon
<1>8. \A i \in 1 .. Len(t) : (s \o t)[Len(s) + i] = t[i]
  <2> SUFFICES ASSUME NEW i \in 1 .. Len(t) PROVE (s \o t)[Len(s) + i] = t[i]
    OBVIOUS
  <2> DEFINE j == Len(s) + i
  <2>1. j \in 1 .. Len(s) + Len(t) /\ ~(j <= Len(s)) /\ j - Len(s) = i
    BY <1>4
  <2> HIDE DEF j
  <2>2. (s \o t)[j] = t[i]
    BY <1>2, <2>1, Zenon
  <2> QED
    BY <2>2 DEF j
<1>9. \A i \in Len(s) + 1 .. Len(s) + Len(t) :
        i - Len(s) \in 1 .. Len(t) /\ (s \o t)[i] = t[i - Len(s)]
  BY <1>2, <1>5, Zenon
<1> QED
  BY <1>2, <1>6, <1>7, <1>8, <1>9, Zenon

\* The count of Older, when the old samples come first.
LEMMA SplitOlder ==
    ASSUME NEW s \in Samples, NEW mark \in Nat, NEW k, Split(s, mark, k)
    PROVE  Older(s, mark) = k
<1>1. {i \in DOMAIN s : s[i] <= mark} = 1 .. k
  BY SampleFacts DEF Split
<1>2. k \in Nat /\ Cardinality(1 .. k) = k
  BY FS_Interval, SampleFacts DEF Split
<1> QED
  BY <1>1, <1>2 DEF Older

\* A cut through the samples divides the old ones among the parts.
LEMMA SplitConcat ==
    ASSUME NEW s \in Samples, NEW t \in Samples, NEW mark \in Nat, NEW k,
           Split(s \o t, mark, k)
    PROVE  \E a, b \in Nat : a + b = k /\ Split(s, mark, a) /\ Split(t, mark, b)
<1> DEFINE u == s \o t
<1>0. /\ Len(u) = Len(s) + Len(t) /\ DOMAIN u = 1 .. Len(s) + Len(t)
      /\ \A i \in 1 .. Len(s) : u[i] = s[i]
      /\ \A i \in 1 .. Len(t) : u[Len(s) + i] = t[i]
      /\ \A i \in Len(s) + 1 .. Len(s) + Len(t) :
           i - Len(s) \in 1 .. Len(t) /\ u[i] = t[i - Len(s)]
  BY ConcatFacts, Zenon
<1>00. Split(u, mark, k)
  OBVIOUS
<1> HIDE DEF u
<1>1. Len(s) \in Nat /\ Len(t) \in Nat /\ k \in 0 .. Len(s) + Len(t)
  BY SampleFacts, <1>0 DEF Split
<1>2. DOMAIN s = 1 .. Len(s) /\ DOMAIN t = 1 .. Len(t)
  BY SampleFacts
<1>3. \A i \in 1 .. Len(s) : s[i] <= mark <=> i <= k
  BY <1>1, <1>0, <1>00 DEF Split
<1>4. \A i \in 1 .. Len(t) : t[i] <= mark <=> Len(s) + i <= k
  <2> SUFFICES ASSUME NEW i \in 1 .. Len(t) PROVE t[i] <= mark <=> Len(s) + i <= k
    OBVIOUS
  <2>1. Len(s) + i \in DOMAIN u /\ u[Len(s) + i] = t[i]
    BY <1>1, <1>0
  <2> QED
    BY <1>00, <2>1 DEF Split
<1>5. CASE k <= Len(s)
  <2>1. Split(s, mark, k)
    BY <1>1, <1>2, <1>3, <1>5 DEF Split
  <2>2. Split(t, mark, 0)
    BY <1>1, <1>2, <1>4, <1>5 DEF Split
  <2> QED
    BY <1>1, <2>1, <2>2
<1>6. CASE Len(s) < k
  <2>1. Split(s, mark, Len(s))
    BY <1>1, <1>2, <1>3, <1>6 DEF Split
  <2>2. Split(t, mark, k - Len(s))
    BY <1>1, <1>2, <1>4, <1>6 DEF Split
  <2> QED
    BY <1>1, <1>6, <2>1, <2>2
<1> QED
  BY <1>1, <1>5, <1>6

\* New samples behind the old ones change nothing.
LEMMA SplitNewer ==
    ASSUME NEW s \in Samples, NEW t \in Samples, NEW mark \in Nat, NEW k,
           Split(s, mark, k), \A i \in DOMAIN t : mark < t[i]
    PROVE  Split(s \o t, mark, k)
<1> DEFINE u == s \o t
<1>0. /\ Len(u) = Len(s) + Len(t) /\ DOMAIN u = 1 .. Len(s) + Len(t)
      /\ \A i \in 1 .. Len(s) : u[i] = s[i]
      /\ \A i \in 1 .. Len(t) : u[Len(s) + i] = t[i]
      /\ \A i \in Len(s) + 1 .. Len(s) + Len(t) :
           i - Len(s) \in 1 .. Len(t) /\ u[i] = t[i - Len(s)]
  BY ConcatFacts, Zenon
<1> HIDE DEF u
<1>1. Len(s) \in Nat /\ Len(t) \in Nat /\ k \in 0 .. Len(s) /\ k \in 0 .. Len(u)
  BY SampleFacts, <1>0 DEF Split
<1>2. DOMAIN s = 1 .. Len(s) /\ DOMAIN t = 1 .. Len(t)
      /\ \A i \in DOMAIN t : t[i] \in Nat
  BY SampleFacts
<1>3. ASSUME NEW i \in 1 .. Len(s) + Len(t)
      PROVE  u[i] <= mark <=> i <= k
  <2>1. CASE i <= Len(s)
    BY <1>1, <1>2, <2>1, <1>0 DEF Split
  <2>2. CASE Len(s) < i
    <3>1. u[i] = t[i - Len(s)] /\ i - Len(s) \in DOMAIN t
      BY <1>1, <1>2, <2>2, <1>0
    <3> QED
      BY <1>1, <1>2, <2>2, <3>1
  <2> QED
    BY <1>1, <2>1, <2>2
<1> QED
  BY <1>1, <1>3, <1>0 DEF Split, u

LEMMA IncreasingConcat ==
    ASSUME NEW s \in Samples, NEW t \in Samples
    PROVE  Increasing(s \o t) <=>
             /\ Increasing(s) /\ Increasing(t)
             /\ \A i \in DOMAIN s, j \in DOMAIN t : s[i] < t[j]
<1> DEFINE u == s \o t
<1>0. /\ Len(u) = Len(s) + Len(t) /\ DOMAIN u = 1 .. Len(s) + Len(t)
      /\ \A i \in 1 .. Len(s) : u[i] = s[i]
      /\ \A i \in 1 .. Len(t) : u[Len(s) + i] = t[i]
      /\ \A i \in Len(s) + 1 .. Len(s) + Len(t) :
           i - Len(s) \in 1 .. Len(t) /\ u[i] = t[i - Len(s)]
  BY ConcatFacts, Zenon
<1> HIDE DEF u
<1>1. Len(s) \in Nat /\ Len(t) \in Nat
      /\ DOMAIN s = 1 .. Len(s) /\ DOMAIN t = 1 .. Len(t)
      /\ DOMAIN u = 1 .. Len(s) + Len(t)
  BY SampleFacts, <1>0
<1>2. ASSUME Increasing(u)
      PROVE  /\ Increasing(s) /\ Increasing(t)
             /\ \A i \in DOMAIN s, j \in DOMAIN t : s[i] < t[j]
  <2>1. ASSUME NEW i \in DOMAIN s, NEW j \in DOMAIN s, i < j PROVE s[i] < s[j]
    BY <1>1, <1>2, <2>1, <1>0 DEF Increasing
  <2>2. ASSUME NEW i \in DOMAIN t, NEW j \in DOMAIN t, i < j PROVE t[i] < t[j]
    <3>1. u[Len(s) + i] < u[Len(s) + j]
      BY <1>1, <1>2, <2>2 DEF Increasing
    <3> QED
      BY <1>1, <3>1, <1>0
  <2>3. ASSUME NEW i \in DOMAIN s, NEW j \in DOMAIN t PROVE s[i] < t[j]
    <3>1. u[i] < u[Len(s) + j]
      BY <1>1, <1>2 DEF Increasing
    <3> QED
      BY <1>1, <3>1, <1>0
  <2> QED
    BY <2>1, <2>2, <2>3 DEF Increasing
<1>3. ASSUME Increasing(s), Increasing(t),
             \A i \in DOMAIN s, j \in DOMAIN t : s[i] < t[j]
      PROVE  Increasing(u)
  <2> SUFFICES ASSUME NEW i \in 1 .. Len(s) + Len(t), NEW j \in 1 .. Len(s) + Len(t), i < j
               PROVE  u[i] < u[j]
    BY <1>1 DEF Increasing
  <2>1. CASE j <= Len(s)
    BY <1>1, <1>3, <2>1, <1>0, SMTT(60) DEF Increasing
  <2>2. CASE i <= Len(s) /\ Len(s) < j
    <3>1. j - Len(s) \in 1 .. Len(t) /\ u[j] = t[j - Len(s)] /\ u[i] = s[i]
      BY <1>1, <2>2, <1>0
    <3> QED
      BY <1>1, <1>3, <2>2, <3>1
  <2>3. CASE Len(s) < i
    <3>1. /\ j - Len(s) \in 1 .. Len(t) /\ u[j] = t[j - Len(s)]
          /\ i - Len(s) \in 1 .. Len(t) /\ u[i] = t[i - Len(s)]
      BY <1>1, <2>3, <1>0
    <3> QED
      BY <1>1, <1>3, <2>3, <3>1 DEF Increasing
  <2> QED
    BY <1>1, <2>1, <2>2, <2>3
<1> QED
  BY <1>2, <1>3 DEF u

\* Division by the size of a block.
LEMMA WholeFacts ==
    ASSUME NEW s \in Samples, NEW n \in Nat \ {0}
    PROVE  Whole(s, n) \in 0 .. Len(s) /\ Len(s) - Whole(s, n) \in 0 .. n - 1
<1>1. ASSUME NEW x \in Nat
      PROVE  x \div n \in Nat /\ x % n \in 0 .. n - 1 /\ x = (x \div n) * n + (x % n)
  BY <1>1, SMTT(60)
<1>2. ASSUME NEW q \in Nat PROVE q * n \in Nat
  BY <1>2
<1> DEFINE x == Len(s)
<1>3. x \in Nat
  BY SampleFacts
<1> HIDE DEF x
<1>4. x \div n \in Nat /\ x % n \in 0 .. n - 1 /\ x = (x \div n) * n + (x % n)
      /\ (x \div n) * n \in Nat
  BY <1>1, <1>2, <1>3
<1>5. (x \div n) * n \in 0 .. x /\ x - (x \div n) * n \in 0 .. n - 1
  <2> DEFINE y == (x \div n) * n
             r == x % n
  <2>1. y \in Nat /\ r \in 0 .. n - 1 /\ x = y + r
    BY <1>4
  <2> HIDE DEF y, r
  <2>2. y \in 0 .. x /\ x - y \in 0 .. n - 1
    BY <1>3, <2>1
  <2> QED
    BY <2>2 DEF y
<1> QED
  BY <1>5, Zenon DEF Whole, x

\* Whole blocks and what is left over are the samples as they were.
LEMMA BlocksFacts ==
    ASSUME NEW s \in Samples, NEW n \in Nat \ {0}
    PROVE  /\ Blocks(s, n) \in Samples /\ Rest(s, n) \in Samples
           /\ Blocks(s, n) \o Rest(s, n) = s
           /\ Len(Rest(s, n)) < n
<1> DEFINE w == Whole(s, n)
<1>1. w \in 0 .. Len(s) /\ Len(s) - w \in 0 .. n - 1 /\ Len(s) \in Nat
  BY WholeFacts, SampleFacts
<1> HIDE DEF w
<1>2. \A i \in 1 .. w : s[i] \in Nat \ {0}
  BY <1>1, SampleFacts
<1>3. \A i \in w + 1 .. Len(s) : s[i] \in Nat \ {0}
  BY <1>1, SampleFacts
<1>4. /\ SubSeq(s, 1, w) \in Samples
      /\ SubSeq(s, w + 1, Len(s)) \in Samples
      /\ Len(SubSeq(s, w + 1, Len(s))) = IF w + 1 <= Len(s) THEN Len(s) - (w + 1) + 1 ELSE 0
  BY <1>1, <1>2, <1>3, SubSeqProperties DEF Samples
<1>5. SubSeq(s, 1, w) \o SubSeq(s, w + 1, Len(s)) = SubSeq(s, 1, Len(s))
  <2>1. 1 \in 1 .. Len(s) + 1 /\ w \in 1 - 1 .. Len(s) /\ Len(s) \in w .. Len(s)
    BY <1>1
  <2> QED
    BY <2>1, ConcatAdjacentSubSeq DEF Samples
<1>6. SubSeq(s, 1, Len(s)) = s
  BY SubSeqFull DEF Samples
<1>7. Len(SubSeq(s, w + 1, Len(s))) < n
  BY <1>1, <1>4
<1> QED
  BY <1>4, <1>5, <1>6, <1>7, Zenon DEF Blocks, Rest, w

\* Overflow leaves the newest samples.
LEMMA DropOldestFacts ==
    ASSUME NEW q \in Samples, NEW cap \in Nat
    PROVE  /\ DropOldest(q, cap) \in Samples /\ Len(DropOldest(q, cap)) <= cap
           /\ \E d \in Nat : /\ Len(q) = Len(DropOldest(q, cap)) + d
                             /\ \A i \in DOMAIN DropOldest(q, cap) :
                                  DropOldest(q, cap)[i] = q[i + d]
<1>1. Len(q) \in Nat /\ DOMAIN q = 1 .. Len(q) /\ \A i \in DOMAIN q : q[i] \in Nat \ {0}
  BY SampleFacts
<1>2. CASE Len(q) <= cap
  <2>1. DropOldest(q, cap) = q
    BY <1>2 DEF DropOldest
  <2>2. \A i \in DOMAIN q : q[i] = q[i + 0]
    BY <1>1
  <2>3. Len(q) = Len(q) + 0
    BY <1>1
  <2> QED
    BY <1>2, <2>1, <2>2, <2>3
<1>3. CASE cap < Len(q)
  <2> DEFINE r == SubSeq(q, Len(q) - cap + 1, Len(q))
             d == Len(q) - cap
  <2>1. DropOldest(q, cap) = r
    BY <1>1, <1>3 DEF DropOldest
  <2>2. /\ Len(q) - cap + 1 \in Int /\ Len(q) \in Int
        /\ \A i \in Len(q) - cap + 1 .. Len(q) : q[i] \in Nat \ {0}
    BY <1>1, <1>3
  <2>3. /\ r \in Samples
        /\ Len(r) = IF Len(q) - cap + 1 <= Len(q) THEN Len(q) - (Len(q) - cap + 1) + 1 ELSE 0
        /\ \A i \in 1 .. Len(q) - (Len(q) - cap + 1) + 1 : r[i] = q[Len(q) - cap + 1 + i - 1]
    BY <2>2, SubSeqProperties DEF Samples
  <2> HIDE DEF r
  <2>4. Len(r) = cap /\ DOMAIN r = 1 .. cap
    BY <1>1, <1>3, <2>3, SampleFacts
  <2>5. \A i \in DOMAIN r : r[i] = q[i + d]
    BY <1>1, <1>3, <2>3, <2>4
  <2>6. d \in Nat /\ Len(q) = Len(r) + d
    BY <1>1, <1>3, <2>4
  <2> HIDE DEF d
  <2>7. r \in Samples /\ Len(r) <= cap
    BY <1>1, <2>3, <2>4
  <2> QED
    BY <2>1, <2>5, <2>6, <2>7, Zenon
<1>4. Len(q) <= cap \/ cap < Len(q)
  BY <1>1
<1> QED
  BY <1>2, <1>3, <1>4, Zenon

LEMMA DropOldestKeeps ==
    ASSUME NEW q \in Samples, NEW cap \in Nat, Len(q) <= cap
    PROVE  DropOldest(q, cap) = q
BY DEF DropOldest

LEMMA NumbersFacts ==
    ASSUME NEW first \in Nat, NEW n \in Nat
    PROVE  /\ Numbers(first, n) \in Samples /\ Len(Numbers(first, n)) = n
           /\ Increasing(Numbers(first, n))
           /\ \A i \in DOMAIN Numbers(first, n) :
                Numbers(first, n)[i] \in first + 1 .. first + n
<1> DEFINE s == Numbers(first, n)
<1>1. s \in [1 .. n -> Nat \ {0}] /\ DOMAIN s = 1 .. n
      /\ \A i \in 1 .. n : s[i] = first + i
  BY DEF Numbers
<1>2. s \in Samples
  BY <1>1, SeqDef, Zenon DEF Samples
<1>3. Len(s) = n
  <2>1. Len(s) \in Nat /\ 1 .. n = 1 .. Len(s)
    BY <1>1, <1>2, SampleFacts
  <2> QED
    BY <2>1
<1> QED
  BY <1>1, <1>2, <1>3 DEF Increasing

-----------------------------------------------------------------------------
(* Ranges: what is in a queue, wherever it is                              *)

LEMMA RangeFacts ==
    ASSUME NEW s \in Samples
    PROVE  Range(s) \subseteq Nat \ {0} /\ \A i \in DOMAIN s : s[i] \in Range(s)
BY RangeOfSeq DEF Samples, Range

LEMMA EmptyFacts ==
    /\ <<>> \in Samples /\ Len(<<>>) = 0 /\ Range(<<>>) = {} /\ Increasing(<<>>)
    /\ \A mark \in Nat : Split(<<>>, mark, 0)
<1>1. <<>> \in Samples /\ Len(<<>>) = 0
  BY EmptySeq DEF Samples
<1>2. DOMAIN <<>> = {}
  BY <1>1, SampleFacts
<1> QED
  BY <1>1, <1>2 DEF Range, Increasing, Split

LEMMA JoinFacts ==
    ASSUME NEW s \in Samples, NEW t \in Samples
    PROVE  /\ s \o t \in Samples /\ Len(s \o t) = Len(s) + Len(t)
           /\ Range(s \o t) = Range(s) \cup Range(t)
<1>1. s \o t \in Samples /\ Len(s \o t) = Len(s) + Len(t)
  BY ConcatFacts, Zenon
<1>2. Range(s \o t) = Range(s) \cup Range(t)
  <2> DEFINE S == Nat \ {0}
  <2>1. s \in Seq(S) /\ t \in Seq(S)
    BY Zenon DEF Samples
  <2> HIDE DEF S
  <2> QED
    BY ONLY <2>1, RangeConcatenation
<1> QED
  BY <1>1, <1>2, Zenon

LEMMA JoinAssociative ==
    ASSUME NEW s \in Samples, NEW t \in Samples, NEW u \in Samples
    PROVE  (s \o t) \o u = s \o (t \o u)
BY ConcatAssociative, SMTT(60) DEF Samples

LEMMA IncreasingJoin ==
    ASSUME NEW s \in Samples, NEW t \in Samples
    PROVE  Increasing(s \o t) <=>
             /\ Increasing(s) /\ Increasing(t)
             /\ \A u \in Range(s), v \in Range(t) : u < v
<1>1. (\A u \in Range(s), v \in Range(t) : u < v)
        <=> \A i \in DOMAIN s, j \in DOMAIN t : s[i] < t[j]
  <2>1. ASSUME \A u \in Range(s), v \in Range(t) : u < v,
               NEW i \in DOMAIN s, NEW j \in DOMAIN t
        PROVE  s[i] < t[j]
    BY <2>1, RangeFacts
  <2>2. ASSUME \A i \in DOMAIN s, j \in DOMAIN t : s[i] < t[j],
               NEW u \in Range(s), NEW v \in Range(t)
        PROVE  u < v
    <3>1. PICK i \in DOMAIN s : u = s[i]
      BY DEF Range
    <3>2. PICK j \in DOMAIN t : v = t[j]
      BY DEF Range
    <3> QED
      BY <2>2, <3>1, <3>2
  <2> QED
    BY <2>1, <2>2, Zenon
<1> QED
  BY <1>1, IncreasingConcat, Zenon

LEMMA SplitJoinNewer ==
    ASSUME NEW s \in Samples, NEW t \in Samples, NEW mark \in Nat, NEW k,
           Split(s, mark, k), \A v \in Range(t) : mark < v
    PROVE  Split(s \o t, mark, k)
<1>1. \A i \in DOMAIN t : mark < t[i]
  BY RangeFacts, Zenon
<1> QED
  BY <1>1, SplitNewer

\* When all samples are of before the mark.
LEMMA SplitAll ==
    ASSUME NEW s \in Samples, NEW mark \in Nat, \A v \in Range(s) : v <= mark
    PROVE  Split(s, mark, Len(s))
<1>1. Len(s) \in Nat /\ DOMAIN s = 1 .. Len(s)
  BY SampleFacts
<1>2. \A i \in DOMAIN s : s[i] <= mark
  BY RangeFacts, Zenon
<1> QED
  BY <1>1, <1>2 DEF Split

\* One more sample, newer than the others.
LEMMA AppendNewest ==
    ASSUME NEW s \in Samples, NEW e \in Nat \ {0}
    PROVE  /\ Append(s, e) \in Samples /\ Len(Append(s, e)) = Len(s) + 1
           /\ Range(Append(s, e)) = Range(s) \cup {e}
           /\ Increasing(s) /\ (\A v \in Range(s) : v < e) => Increasing(Append(s, e))
<1> DEFINE t == Append(s, e)
<1>1. /\ t \in Samples /\ Len(t) = Len(s) + 1
      /\ \A i \in 1 .. Len(s) : t[i] = s[i]
      /\ t[Len(s) + 1] = e
  BY AppendProperties DEF Samples
<1> HIDE DEF t
<1>2. Len(s) \in Nat /\ DOMAIN s = 1 .. Len(s) /\ DOMAIN t = 1 .. Len(s) + 1
  BY <1>1, SampleFacts
<1>3. DOMAIN t = DOMAIN s \cup {Len(s) + 1} /\ Len(s) + 1 \notin DOMAIN s
  BY <1>2
<1>4. Range(t) = Range(s) \cup {e}
  BY <1>1, <1>2, <1>3, Zenon DEF Range
<1>5. ASSUME Increasing(s), \A v \in Range(s) : v < e PROVE Increasing(t)
  <2> SUFFICES ASSUME NEW i \in DOMAIN t, NEW j \in DOMAIN t, i < j PROVE t[i] < t[j]
    BY DEF Increasing
  <2>1. i \in DOMAIN s /\ (j \in DOMAIN s \/ j = Len(s) + 1)
    BY <1>2
  <2>2. t[i] = s[i] /\ s[i] \in Range(s)
    BY <1>1, <1>2, <2>1, RangeFacts
  <2>3. CASE j \in DOMAIN s
    <3>1. t[j] = s[j]
      BY <1>1, <1>2, <2>3
    <3> QED
      BY <1>5, <2>1, <2>2, <2>3, <3>1 DEF Increasing
  <2>4. CASE j = Len(s) + 1
    BY <1>1, <1>5, <2>2, <2>4, Zenon
  <2> QED
    BY <2>1, <2>3, <2>4
<1> QED
  BY <1>1, <1>4, <1>5 DEF t

\* What overflow leaves is in the order it was in.
LEMMA DropOldestOrder ==
    ASSUME NEW q \in Samples, NEW cap \in Nat
    PROVE  /\ DropOldest(q, cap) \in Samples /\ Len(DropOldest(q, cap)) <= cap
           /\ Range(DropOldest(q, cap)) \subseteq Range(q)
           /\ Increasing(q) => Increasing(DropOldest(q, cap))
<1> DEFINE r == DropOldest(q, cap)
<1>1. r \in Samples /\ Len(r) <= cap
  BY DropOldestFacts
<1>2. PICK d \in Nat : Len(q) = Len(r) + d /\ \A i \in DOMAIN r : r[i] = q[i + d]
  BY DropOldestFacts
<1> HIDE DEF r
<1>3. /\ Len(r) \in Nat /\ DOMAIN r = 1 .. Len(r)
      /\ Len(q) \in Nat /\ DOMAIN q = 1 .. Len(q)
  BY <1>1, SampleFacts
<1>4. \A i \in DOMAIN r : i + d \in DOMAIN q
  BY <1>2, <1>3
<1>5. Range(r) \subseteq Range(q)
  BY <1>2, <1>4, Zenon DEF Range
<1>6. ASSUME Increasing(q), NEW i \in DOMAIN r, NEW j \in DOMAIN r, i < j
      PROVE  r[i] < r[j]
  <2>1. i + d \in DOMAIN q /\ j + d \in DOMAIN q /\ i + d < j + d
    BY <1>3, <1>4, <1>6
  <2> QED
    BY <1>2, <1>6, <2>1, Zenon DEF Increasing
<1> QED
  BY <1>1, <1>5, <1>6, Zenon DEF Increasing, r

\* The first sample is the oldest.
LEMMA HeadTailFacts ==
    ASSUME NEW s \in Samples, s # <<>>
    PROVE  /\ <<Head(s)>> \in Samples /\ Tail(s) \in Samples
           /\ s = <<Head(s)>> \o Tail(s)
           /\ Range(<<Head(s)>>) = {Head(s)} /\ Len(<<Head(s)>>) = 1
           /\ Len(s) = Len(Tail(s)) + 1
<1>1. /\ Head(s) \in Nat \ {0} /\ Tail(s) \in Samples /\ Len(Tail(s)) = Len(s) - 1
      /\ \A i \in 1 .. Len(Tail(s)) : Tail(s)[i] = s[i + 1]
  BY HeadTailProperties DEF Samples
<1>2. Len(s) \in Nat \ {0}
  BY EmptySeq, Zenon DEF Samples
<1>3. <<Head(s)>> \in Samples /\ Len(<<Head(s)>>) = 1 /\ <<Head(s)>>[1] = Head(s)
  BY <1>1 DEF Samples
<1>4. Head(s) = s[1]
  BY <1>2
<1>5. Range(<<Head(s)>>) = {Head(s)}
  <2>1. DOMAIN <<Head(s)>> = {1}
    BY <1>3, SampleFacts
  <2> QED
    BY <1>3, <2>1, Zenon DEF Range
<1>6. Len(<<Head(s)>> \o Tail(s)) = Len(s)
  BY <1>1, <1>2, <1>3, ConcatFacts
<1>7. \A i \in 1 .. Len(s) : s[i] = (<<Head(s)>> \o Tail(s))[i]
  <2> SUFFICES ASSUME NEW i \in 1 .. Len(s) PROVE s[i] = (<<Head(s)>> \o Tail(s))[i]
    OBVIOUS
  <2>1. CASE i = 1
    <3>1. (<<Head(s)>> \o Tail(s))[1] = <<Head(s)>>[1]
      <4>1. 1 \in 1 .. Len(<<Head(s)>>)
        BY <1>3
      <4> QED
        BY <1>1, <1>3, <4>1, ConcatFacts, Zenon
    <3> QED
      BY <1>3, <1>4, <2>1, <3>1, Zenon
  <2>2. CASE i # 1
    <3>1. PICK j \in 1 .. Len(Tail(s)) : i = 1 + j /\ i = j + 1
      <4>1. i - 1 \in 1 .. Len(Tail(s)) /\ i = 1 + (i - 1) /\ i = (i - 1) + 1
        BY <1>1, <1>2, <2>2
      <4> QED
        BY <4>1
    <3>2. (<<Head(s)>> \o Tail(s))[Len(<<Head(s)>>) + j] = Tail(s)[j]
      BY <1>1, <1>3, ConcatFacts, Zenon
    <3> QED
      BY <1>1, <1>3, <3>1, <3>2, Zenon
  <2> QED
    BY <2>1, <2>2
<1>8. <<Head(s)>> \o Tail(s) \in Samples
  BY <1>1, <1>3, ConcatFacts
<1>9. s = <<Head(s)>> \o Tail(s)
  BY <1>6, <1>7, <1>8, SeqEqual, Zenon DEF Samples
<1> QED
  BY <1>1, <1>2, <1>3, <1>5, <1>9

-----------------------------------------------------------------------------
(* The invariant                                                           *)

DueOK == due \in [mic : 0 .. FrameLen, speaker : 0 .. FrameLen, driver : {0, 1}]

\* What was captured is in order, later than what was sent, and only what is
\* behind the flushed queues may be of before the flush: k samples of it.
CaptureOK ==
    /\ Increasing(Captured)
    /\ \A v \in Range(Captured) \cup Range(sent) : v <= recorded
    /\ \A u \in Range(sent), v \in Range(Captured) : u < v
    /\ micMark <= recorded
    /\ \A v \in Range(capQ) : micMark < v
    /\ \E k \in Nat :
         /\ Split(capAcc \o capBuf, micMark, k) /\ oldSent + k < InChunk
         /\ active # "None" => recorded - micMark = taken + Len(Captured) - k

\* With an active call the driver empties the microphone's queue every tick,
\* so that it never reaches its cap.
CapturePace ==
    active # "None" =>
      Len(capQ) + due.mic <= IF due.driver = 1 THEN 2 * FrameLen ELSE FrameLen

\* What waits to be played is in order and later than what was heard.
PlaybackOK ==
    /\ Increasing(Playing)
    /\ \A v \in Range(Playing) : heard < v /\ v <= given
    /\ heard <= given /\ playMark <= given
    /\ \E k \in Nat :
         /\ Split(Playing, playMark, k) /\ oldHeard + k < OutChunk
         /\ given - playMark = newHeard + Len(Playing) - k

\* The loudspeaker takes a frame a tick, so that its queue never reaches its
\* cap; what a stream has given and not played covers its silences.
PlaybackPace ==
    /\ Len(Playing) < due.speaker + OutChunk + (IF due.driver = 1 THEN 0 ELSE FrameLen)
    /\ gaps < FrameLen + OutChunk
    /\ gaps # NotStreaming =>
         gaps + due.speaker <= Len(Playing) + (IF due.driver = 1 THEN FrameLen ELSE 0)

AudioInv ==
    AudioTypeOK /\ DueOK /\ CaptureOK /\ CapturePace /\ PlaybackOK /\ PlaybackPace

\* What the invariant says of the sequences that wait.
LEMMA Waiting ==
    ASSUME AudioTypeOK
    PROVE  /\ {capQ, capBuf, capAcc, playBuf, playQ, sent} \subseteq Samples
           /\ {capAcc \o capBuf, Captured, Playing} \subseteq Samples
           /\ Len(capAcc \o capBuf) = Len(capAcc) + Len(capBuf)
           /\ Len(Captured) = Len(capAcc) + Len(capBuf) + Len(capQ)
           /\ Len(Playing) = Len(playQ) + Len(playBuf)
           /\ Range(Captured) = Range(capAcc \o capBuf) \cup Range(capQ)
           /\ Range(capAcc \o capBuf) = Range(capAcc) \cup Range(capBuf)
           /\ Range(Playing) = Range(playQ) \cup Range(playBuf)
<1>1. {capQ, capBuf, capAcc, playBuf, playQ, sent} \subseteq Samples
  BY DEF AudioTypeOK
<1>2. /\ capAcc \o capBuf \in Samples /\ Len(capAcc \o capBuf) = Len(capAcc) + Len(capBuf)
      /\ Range(capAcc \o capBuf) = Range(capAcc) \cup Range(capBuf)
  BY <1>1, JoinFacts
<1>3. /\ Captured \in Samples /\ Len(Captured) = Len(capAcc \o capBuf) + Len(capQ)
      /\ Range(Captured) = Range(capAcc \o capBuf) \cup Range(capQ)
  BY <1>1, <1>2, JoinFacts, Zenon DEF Captured
<1>4. /\ Playing \in Samples /\ Len(Playing) = Len(playQ) + Len(playBuf)
      /\ Range(Playing) = Range(playQ) \cup Range(playBuf)
  BY <1>1, JoinFacts, Zenon DEF Playing
<1> QED
  BY <1>1, <1>2, <1>3, <1>4

LEMMA AudioConstants ==
    /\ FrameLen \in Nat \ {0} /\ InChunk \in Nat \ {0} /\ OutChunk \in Nat \ {0}
    /\ CapCap \in Nat /\ 2 * FrameLen <= CapCap
    /\ PlayCap \in Nat /\ 2 * FrameLen + OutChunk <= PlayCap
BY AudioAssumption

\* The invariant keeps both promises about the old sound.
LEMMA InvOldSound == AudioInv => OldSoundBounded
<1> SUFFICES ASSUME AudioInv PROVE OldSoundBounded
  OBVIOUS
<1>1. AudioTypeOK /\ micMark \in Nat /\ playMark \in Nat
  BY DEF AudioInv, AudioTypeOK
<1>2. PICK k \in Nat : Split(capAcc \o capBuf, micMark, k) /\ oldSent + k < InChunk
  BY DEF AudioInv, CaptureOK
<1>3. Split(Captured, micMark, k)
  BY <1>1, <1>2, Waiting, SplitJoinNewer, Zenon DEF AudioInv, CaptureOK, Captured
<1>4. Older(Captured, micMark) = k
  BY <1>1, <1>3, Waiting, SplitOlder
<1>5. PICK j \in Nat : Split(Playing, playMark, j) /\ oldHeard + j < OutChunk
  BY DEF AudioInv, PlaybackOK
<1>6. Older(Playing, playMark) = j
  BY <1>1, <1>5, Waiting, SplitOlder
<1> QED
  BY <1>2, <1>4, <1>5, <1>6 DEF OldSoundBounded

LEMMA InvNothingLost == AudioInv => NothingLost
<1> SUFFICES ASSUME AudioInv PROVE NothingLost
  OBVIOUS
<1>1. AudioTypeOK /\ micMark \in Nat /\ playMark \in Nat
  BY DEF AudioInv, AudioTypeOK
<1>2. PICK k \in Nat : /\ Split(capAcc \o capBuf, micMark, k)
                       /\ active # "None" => recorded - micMark = taken + Len(Captured) - k
  BY DEF AudioInv, CaptureOK
<1>3. Split(Captured, micMark, k)
  BY <1>1, <1>2, Waiting, SplitJoinNewer, Zenon DEF AudioInv, CaptureOK, Captured
<1>4. Older(Captured, micMark) = k
  BY <1>1, <1>3, Waiting, SplitOlder
<1>5. PICK j \in Nat : /\ Split(Playing, playMark, j)
                       /\ given - playMark = newHeard + Len(Playing) - j
  BY DEF AudioInv, PlaybackOK
<1>6. Older(Playing, playMark) = j
  BY <1>1, <1>5, Waiting, SplitOlder
<1> QED
  BY <1>2, <1>4, <1>5, <1>6, Zenon DEF NothingLost

LEMMA AudioInitInv == AudioInit => AudioInv
<1> SUFFICES ASSUME AudioInit PROVE AudioInv
  OBVIOUS
<1>1. /\ capQ = <<>> /\ capBuf = <<>> /\ capAcc = <<>> /\ playBuf = <<>> /\ playQ = <<>>
      /\ sent = <<>> /\ active = "None" /\ due = FullTick /\ gaps = -1
      /\ recorded = 0 /\ taken = 0 /\ micMark = 0 /\ oldSent = 0
      /\ given = 0 /\ heard = 0 /\ playMark = 0 /\ oldHeard = 0 /\ newHeard = 0
  BY DEF AudioInit, NotStreaming
<1>2. AudioTypeOK
  <2>1. {capQ, capBuf, capAcc, playBuf, playQ, sent} \subseteq Samples
    BY <1>1, EmptyFacts, Zenon
  <2>2. /\ Len(capQ) = 0 /\ Len(playQ) = 0 /\ Len(capBuf) = 0
        /\ Len(playBuf) = 0 /\ Len(capAcc) = 0
    BY <1>1, EmptyFacts, Zenon
  <2> QED
    BY <1>1, <2>1, <2>2, AudioConstants DEF AudioTypeOK, NotStreaming
<1>3. capAcc \o capBuf = <<>> /\ Captured = <<>> /\ Playing = <<>>
  <2>1. <<>> \o <<>> = <<>>
    BY EmptyFacts, ConcatEmptySeq, Zenon DEF Samples
  <2> QED
    BY <1>1, <2>1, Zenon DEF Captured, Playing
<1>4. Len(Captured) = 0 /\ Len(Playing) = 0 /\ Len(capQ) = 0
  BY <1>1, <1>3, EmptyFacts, Zenon
<1>5. /\ Range(Captured) = {} /\ Range(sent) = {} /\ Range(capQ) = {} /\ Range(Playing) = {}
      /\ Increasing(Captured) /\ Increasing(Playing)
      /\ Split(capAcc \o capBuf, micMark, 0) /\ Split(Playing, playMark, 0)
  <2>1. 0 \in Nat
    OBVIOUS
  <2> QED
    BY <1>1, <1>3, <2>1, EmptyFacts, Zenon
<1>6. CaptureOK
  BY <1>1, <1>4, <1>5, AudioConstants DEF CaptureOK
<1>7. PlaybackOK
  BY <1>1, <1>4, <1>5, AudioConstants DEF PlaybackOK
<1>8. DueOK /\ CapturePace /\ PlaybackPace
  BY <1>1, <1>4, AudioConstants DEF DueOK, FullTick, CapturePace, PlaybackPace, NotStreaming
<1> QED
  BY <1>2, <1>6, <1>7, <1>8 DEF AudioInv

-----------------------------------------------------------------------------
(* The steps                                                               *)

\* CaptureOK depends on nothing the other side changes.
LEMMA CaptureKept ==
    ASSUME CaptureOK, UNCHANGED <<capQ, capBuf, capAcc, active, micHistory>>
    PROVE  CaptureOK' /\ sent' = sent
<1>1. /\ capQ' = capQ /\ capBuf' = capBuf /\ capAcc' = capAcc /\ active' = active
      /\ recorded' = recorded /\ taken' = taken /\ sent' = sent
      /\ micMark' = micMark /\ oldSent' = oldSent
  BY DEF micHistory
<1>2. Captured' = Captured
  BY <1>1 DEF Captured
<1> QED
  BY <1>1, <1>2, Zenon DEF CaptureOK

LEMMA PlaybackKept ==
    ASSUME PlaybackOK, UNCHANGED <<playBuf, playQ, given, heard, playMark, oldHeard, newHeard>>
    PROVE  PlaybackOK' /\ Playing' = Playing
<1>1. Playing' = Playing
  BY DEF Playing
<1> QED
  BY <1>1, Zenon DEF PlaybackOK

LEMMA RecordStep ==
    ASSUME AudioInv, Record
    PROVE  AudioInv' /\ InOrder
<1> DEFINE a == capAcc \o capBuf
           e == recorded + 1
           full == Append(capQ, e)
<1>1. AudioTypeOK /\ DueOK /\ CaptureOK /\ CapturePace /\ PlaybackOK /\ PlaybackPace
  BY DEF AudioInv
<1>2. /\ due.mic > 0 /\ due' = [due EXCEPT !.mic = @ - 1]
      /\ recorded' = e /\ capQ' = DropOldest(full, CapCap)
      /\ UNCHANGED <<capBuf, capAcc, playBuf, playQ, active, tick>>
      /\ UNCHANGED <<taken, sent, micMark, oldSent>> /\ UNCHANGED playHistory
  BY DEF Record
<1>3. recorded \in Nat /\ e \in Nat \ {0} /\ a \in Samples /\ capQ \in Samples
      /\ micMark \in Nat /\ Captured = a \o capQ
  BY <1>1, Waiting, SMTT(60) DEF AudioTypeOK, Captured
<1>4. /\ full \in Samples /\ Len(full) = Len(capQ) + 1 /\ Range(full) = Range(capQ) \cup {e}
      /\ Increasing(capQ) /\ (\A v \in Range(capQ) : v < e) => Increasing(full)
  BY <1>3, AppendNewest
<1>5. /\ Increasing(a) /\ Increasing(capQ)
      /\ \A u \in Range(a), v \in Range(capQ) : u < v
  BY <1>1, <1>3, IncreasingJoin, Zenon DEF CaptureOK
<1>6. Range(Captured) = Range(a) \cup Range(capQ)
  BY <1>1, Waiting
<1>7. \A v \in Range(a) \cup Range(capQ) \cup Range(sent) : v \in Nat /\ v <= recorded /\ v < e
  <2>1. \A v \in Range(a) \cup Range(capQ) \cup Range(sent) : v \in Nat /\ v <= recorded
    BY <1>1, <1>3, <1>6, RangeFacts, Waiting DEF CaptureOK
  <2> QED
    BY <1>3, <2>1
<1> HIDE DEF full, a
<1>8. /\ capQ' \in Samples /\ Len(capQ') <= CapCap /\ Range(capQ') \subseteq Range(capQ) \cup {e}
      /\ Increasing(capQ')
  BY <1>2, <1>4, <1>5, <1>7, DropOldestOrder, AudioConstants, Zenon
<1>9. AudioTypeOK'
  BY <1>1, <1>2, <1>3, <1>8 DEF AudioTypeOK, playHistory
<1>10. a' = a /\ sent' = sent /\ Captured' = a \o capQ'
  BY <1>2 DEF a, Captured
<1>11. Range(Captured') = Range(a) \cup Range(capQ')
  BY <1>3, <1>8, <1>10, JoinFacts
<1>12. Increasing(Captured')
  <2>1. \A u \in Range(a), v \in Range(capQ') : u < v
    BY <1>5, <1>7, <1>8, Zenon
  <2> QED
    BY <1>3, <1>5, <1>8, <1>10, <2>1, IncreasingJoin, Zenon
<1>13. \A v \in Range(Captured') \cup Range(sent') : v <= recorded'
  <2>1. e <= e
    BY <1>3
  <2>2. \A v \in Range(a) \cup Range(capQ) \cup Range(sent) : v <= e
    BY <1>3, <1>7
  <2> QED
    BY <1>2, <1>8, <1>10, <1>11, <2>1, <2>2, Zenon
<1>14. \A u \in Range(sent'), v \in Range(Captured') : u < v
  BY <1>1, <1>6, <1>7, <1>8, <1>10, <1>11, Zenon DEF CaptureOK
<1>15. micMark' <= recorded' /\ \A v \in Range(capQ') : micMark' < v
  <2>1. micMark <= e /\ micMark < e
    BY <1>1, <1>3 DEF CaptureOK
  <2> QED
    BY <1>1, <1>2, <1>8, <2>1, Zenon DEF CaptureOK
<1>16. active # "None" => capQ' = full
  <2> SUFFICES ASSUME active # "None" PROVE Len(full) <= CapCap
    BY <1>2, <1>4, DropOldestKeeps, AudioConstants
  <2>1. Len(capQ) \in Nat /\ due.mic \in Nat
    BY <1>1, <1>3, SampleFacts DEF DueOK
  <2>2. Len(capQ) + due.mic <= 2 * FrameLen
    BY <1>1, <2>1, AudioConstants DEF CapturePace
  <2> QED
    BY <1>2, <1>4, <2>1, <2>2, AudioConstants, SMTT(60)
<1>17. active # "None" => Len(Captured') = Len(Captured) + 1 /\ Len(capQ') = Len(capQ) + 1
  <2> SUFFICES ASSUME active # "None" PROVE Len(Captured') = Len(Captured) + 1
                                            /\ Len(capQ') = Len(capQ) + 1
    OBVIOUS
  <2>1. Len(capQ') = Len(capQ) + 1
    BY <1>4, <1>16
  <2>2. Len(Captured') = Len(a) + Len(capQ')
    BY <1>3, <1>8, <1>10, JoinFacts
  <2>3. Len(Captured) = Len(a) + Len(capQ)
    BY <1>3, JoinFacts
  <2>4. Len(a) \in Nat /\ Len(capQ) \in Nat
    BY <1>3, SampleFacts
  <2> QED
    BY <2>1, <2>2, <2>3, <2>4
<1>18. CaptureOK'
  <2>1. PICK k \in Nat :
          /\ Split(a, micMark, k) /\ oldSent + k < InChunk
          /\ active # "None" => recorded - micMark = taken + Len(Captured) - k
    BY <1>1, Zenon DEF CaptureOK, a
  <2>2. Split(a', micMark', k) /\ oldSent' + k < InChunk
    BY <1>2, <1>10, <2>1, Zenon
  <2>3. active' # "None" => recorded' - micMark' = taken' + Len(Captured') - k
    <3> DEFINE old == Len(Captured)
               new == Len(Captured')
    <3>1. old \in Nat /\ taken \in Nat /\ (active # "None" => new = old + 1)
          /\ (active # "None" => recorded - micMark = taken + old - k)
      BY <1>1, <1>17, <2>1, Waiting, SampleFacts DEF AudioTypeOK
    <3> HIDE DEF old, new
    <3>2. active # "None" => e - micMark = taken + new - k
      BY <1>3, <3>1
    <3> QED
      BY <1>2, <3>2, Zenon DEF new
  <2>4. (capAcc \o capBuf)' = a'
    BY DEF a
  <2> QED
    BY <1>12, <1>13, <1>14, <1>15, <2>2, <2>3, <2>4, Zenon DEF CaptureOK
<1>19. DueOK' /\ due'.mic = due.mic - 1 /\ due'.driver = due.driver /\ due'.speaker = due.speaker
  BY <1>1, <1>2, AudioConstants DEF DueOK
<1>20. CapturePace'
  <2>1. Len(capQ) \in Nat /\ due.mic \in Nat
    BY <1>1, <1>3, SampleFacts DEF DueOK
  <2> QED
    BY <1>1, <1>2, <1>17, <1>19, <2>1 DEF CapturePace
<1>21. PlaybackOK' /\ PlaybackPace' /\ heard' = heard
  BY <1>1, <1>2, <1>19, PlaybackKept DEF PlaybackPace, playHistory
<1> QED
  BY <1>9, <1>10, <1>18, <1>19, <1>20, <1>21 DEF AudioInv, InOrder

LEMMA SpeakStep ==
    ASSUME AudioInv, Speak
    PROVE  AudioInv' /\ InOrder
<1>1. AudioTypeOK /\ DueOK /\ CaptureOK /\ CapturePace /\ PlaybackOK /\ PlaybackPace
  BY DEF AudioInv
<1>2. /\ due.speaker > 0 /\ due' = [due EXCEPT !.speaker = @ - 1]
      /\ UNCHANGED <<capQ, capBuf, capAcc, playBuf, active, tick>>
      /\ UNCHANGED micHistory /\ given' = given /\ playMark' = playMark
  BY DEF Speak
<1>3. CaptureOK' /\ sent' = sent
  BY <1>1, <1>2, CaptureKept
<1>4. DueOK' /\ due'.mic = due.mic /\ due'.driver = due.driver
      /\ due'.speaker = due.speaker - 1 /\ due.speaker \in 1 .. FrameLen
  BY <1>1, <1>2, AudioConstants DEF DueOK
<1>5. CapturePace'
  BY <1>1, <1>2, <1>4 DEF CapturePace
<1>6. /\ Len(playQ) \in Nat /\ Len(playBuf) \in Nat /\ Len(playBuf) < OutChunk
      /\ Len(Playing) = Len(playQ) + Len(playBuf) /\ Len(Playing) \in Nat
      /\ playQ \in Samples /\ playBuf \in Samples /\ Playing \in Samples
      /\ given \in Nat /\ playMark \in Nat /\ heard \in Nat /\ gaps \in Nat \cup {-1}
      /\ oldHeard \in Nat /\ newHeard \in Nat
  BY <1>1, Waiting, SampleFacts DEF AudioTypeOK, NotStreaming
<1>7. CASE playQ = <<>>
  <2>1. UNCHANGED <<playQ, heard, oldHeard, newHeard>>
        /\ gaps' = IF gaps = -1 THEN gaps ELSE gaps + 1
    BY <1>7 DEF Speak, NotStreaming
  <2>2. PlaybackOK' /\ Playing' = Playing
    BY <1>1, <1>2, <2>1, PlaybackKept
  <2>3. Len(playQ) = 0
    BY <1>7, EmptyFacts, Zenon
  <2>4. AudioTypeOK'
    <3>1. gaps' \in Nat \cup {NotStreaming}
      BY <1>6, <2>1 DEF NotStreaming
    <3> QED
      BY <1>1, <1>2, <2>1, <3>1 DEF AudioTypeOK, micHistory
  <2>5. PlaybackPace'
    <3> DEFINE wait == Len(Playing)
    <3>1. /\ wait \in Nat /\ wait < OutChunk /\ Playing' = Playing
          /\ gaps \in Nat \cup {-1}
      BY <1>6, <2>2, <2>3
    <3>2. PlaybackPace /\ due.driver \in {0, 1}
      BY <1>1 DEF DueOK
    <3> HIDE DEF wait
    <3>3. gaps # -1 => gaps + due.speaker < OutChunk + FrameLen
      BY <1>4, <3>1, <3>2, AudioConstants DEF PlaybackPace, NotStreaming, wait
    <3>4. /\ wait < due'.speaker + OutChunk + (IF due'.driver = 1 THEN 0 ELSE FrameLen)
          /\ gaps' < FrameLen + OutChunk
      BY <1>4, <2>1, <3>1, <3>2, <3>3, AudioConstants
    <3>5. gaps' # -1 =>
            gaps' + due'.speaker <= wait + (IF due'.driver = 1 THEN FrameLen ELSE 0)
      BY <1>4, <2>1, <3>1, <3>2, AudioConstants, SMTT(60) DEF PlaybackPace, NotStreaming, wait
    <3> QED
      BY <3>1, <3>4, <3>5 DEF PlaybackPace, NotStreaming, wait
  <2> QED
    BY <1>3, <1>4, <1>5, <2>1, <2>2, <2>4, <2>5 DEF AudioInv, InOrder
<1>8. CASE playQ # <<>>
  <2> DEFINE h == <<Head(playQ)>>
  <2>1. /\ playQ' = Tail(playQ) /\ heard' = Head(playQ) /\ gaps' = gaps
        /\ IF heard' <= playMark
           THEN oldHeard' = oldHeard + 1 /\ newHeard' = newHeard
           ELSE newHeard' = newHeard + 1 /\ oldHeard' = oldHeard
    BY <1>8 DEF Speak
  <2>2. /\ h \in Samples /\ playQ' \in Samples /\ playQ = h \o playQ'
        /\ Range(h) = {heard'} /\ Len(h) = 1 /\ Len(playQ) = Len(playQ') + 1
        /\ heard' \in Nat \ {0} /\ heard' \in Range(h)
    <3>1. /\ h \in Samples /\ playQ' \in Samples /\ playQ = h \o playQ'
          /\ Range(h) = {heard'} /\ Len(h) = 1 /\ Len(playQ) = Len(playQ') + 1
      BY <1>6, <1>8, <2>1, HeadTailFacts, Zenon
    <3> QED
      BY <3>1, RangeFacts, Zenon
  <2> HIDE DEF h
  <2>3. Playing' = playQ' \o playBuf /\ Playing = h \o Playing' /\ Playing' \in Samples
    <3>1. Playing' = playQ' \o playBuf
      BY <1>2 DEF Playing
    <3>2. (h \o playQ') \o playBuf = h \o (playQ' \o playBuf)
      <4>1. h \in Samples /\ playQ' \in Samples /\ playBuf \in Samples
        BY <1>6, <2>2, Zenon
      <4> QED
        BY ONLY <4>1, JoinAssociative, Zenon
    <3> QED
      BY <1>6, <2>2, <3>1, <3>2, JoinFacts, Zenon DEF Playing
  <2>4. Len(Playing) = Len(Playing') + 1 /\ Range(Playing) = {heard'} \cup Range(Playing')
    <3>1. Len(Playing) = Len(h) + Len(Playing') /\ Range(Playing) = Range(h) \cup Range(Playing')
      BY <2>2, <2>3, JoinFacts, Zenon
    <3> QED
      BY <2>2, <2>3, <3>1, SampleFacts
  <2>5. Increasing(Playing') /\ \A v \in Range(Playing') : heard' < v
    BY <1>1, <2>2, <2>3, IncreasingJoin, Zenon DEF PlaybackOK
  <2>6. heard < heard' /\ heard' <= given' /\ \A v \in Range(Playing') : v <= given'
    BY <1>1, <1>2, <2>4, Zenon DEF PlaybackOK
  <2>7. \E j \in Nat : /\ Split(Playing', playMark', j) /\ oldHeard' + j < OutChunk
                       /\ given' - playMark' = newHeard' + Len(Playing') - j
    <3>1. PICK k \in Nat : /\ Split(h \o Playing', playMark, k) /\ oldHeard + k < OutChunk
                           /\ given - playMark = newHeard + Len(Playing) - k
      BY <1>1, <2>3, Zenon DEF PlaybackOK
    <3>2. PICK i, j \in Nat : i + j = k /\ Split(h, playMark, i) /\ Split(Playing', playMark, j)
      <4>1. playMark \in Nat /\ h \in Samples /\ Playing' \in Samples
        BY <1>6, <2>2, <2>3, Zenon
      <4> QED
        BY <3>1, <4>1, SplitConcat
    <3>3. i = IF heard' <= playMark THEN 1 ELSE 0
      <4>1. DOMAIN h = {1} /\ i \in {0, 1}
        BY <2>2, <3>2, SampleFacts DEF Split
      <4>2. h[1] = heard'
        BY <2>2, <4>1, RangeFacts, Zenon
      <4>3. heard' <= playMark <=> 1 <= i
        BY <3>2, <4>1, <4>2 DEF Split
      <4> QED
        BY <4>1, <4>3
    <3>4. Len(Playing') \in Nat
      BY <2>3, SampleFacts
    <3>5. oldHeard' + j < OutChunk /\ given - playMark = newHeard' + Len(Playing') - j
      <4> DEFINE old == Len(Playing)
                 new == Len(Playing')
      <4>1. /\ new \in Nat /\ old = new + 1 /\ oldHeard + k < OutChunk
            /\ given - playMark = newHeard + old - k
        BY <2>4, <3>1, <3>4, Zenon
      <4>2. given \in Nat /\ playMark \in Nat /\ oldHeard \in Nat /\ newHeard \in Nat
        BY <1>6, Zenon
      <4>3. k = i + j
        BY <3>2, Zenon
      <4> HIDE DEF old, new
      <4>4. oldHeard' + j < OutChunk /\ given - playMark = newHeard' + new - j
        BY <2>1, <3>3, <4>1, <4>2, <4>3, AudioConstants
      <4> QED
        BY <4>4 DEF new
    <3> QED
      BY <1>2, <3>2, <3>5, Zenon
  <2>8. PlaybackOK'
    <3>1. playMark' <= given'
      BY <1>1, <1>2 DEF PlaybackOK
    <3> QED
      BY <2>5, <2>6, <2>7, <3>1, Zenon DEF PlaybackOK
  <2>9. /\ oldHeard' \in Nat /\ newHeard' \in Nat
        /\ Len(Playing') \in Nat /\ Len(playQ') \in Nat
    <3>1. oldHeard \in Nat /\ newHeard \in Nat
      BY <1>6, Zenon
    <3>2. oldHeard' \in Nat /\ newHeard' \in Nat
      BY <2>1, <3>1
    <3> QED
      BY <2>2, <2>3, <3>2, SampleFacts, Zenon
  <2>10. AudioTypeOK'
    <3>1. playQ' \in Samples /\ heard' \in Nat /\ gaps' = gaps
      BY <2>1, <2>2
    <3>2. Len(playQ') <= PlayCap
      <4>1. Len(playQ) = Len(playQ') + 1 /\ Len(playQ) <= PlayCap
        BY <1>1, <2>2 DEF AudioTypeOK
      <4> QED
        BY <2>9, <4>1, AudioConstants
    <3> QED
      BY <1>1, <1>2, <2>9, <3>1, <3>2 DEF AudioTypeOK, micHistory
  <2>11. PlaybackPace'
    <3> DEFINE old == Len(Playing)
               new == Len(Playing')
    <3>1. /\ new \in Nat /\ old = new + 1 /\ gaps' = gaps
          /\ gaps \in Nat \cup {-1}
      BY <1>6, <2>1, <2>4, <2>9, Zenon
    <3>2. PlaybackPace
      BY <1>1
    <3> HIDE DEF old, new
    <3>3. /\ new < due'.speaker + OutChunk + (IF due'.driver = 1 THEN 0 ELSE FrameLen)
          /\ gaps' < FrameLen + OutChunk
          /\ gaps' # -1 => gaps' + due'.speaker <= new + (IF due'.driver = 1 THEN FrameLen ELSE 0)
      BY <1>4, <3>1, <3>2, AudioConstants, SMTT(60) DEF PlaybackPace, NotStreaming, old
    <3> QED
      BY <3>3 DEF PlaybackPace, NotStreaming, new
  <2> QED
    BY <1>3, <1>4, <1>5, <2>6, <2>8, <2>10, <2>11 DEF AudioInv, InOrder
<1> QED
  BY <1>7, <1>8

\* A new tick: everything due in the last one has been done.
LEMMA NextTickStep ==
    ASSUME AudioInv, NextTick
    PROVE  AudioInv' /\ InOrder
<1>1. AudioTypeOK /\ DueOK /\ CaptureOK /\ CapturePace /\ PlaybackOK /\ PlaybackPace
  BY DEF AudioInv
<1>2. /\ due.mic = 0 /\ due.speaker = 0 /\ due.driver = 0
      /\ due' = [mic |-> FrameLen, speaker |-> FrameLen, driver |-> 1]
      /\ UNCHANGED <<capQ, capBuf, capAcc, active, micHistory>>
      /\ UNCHANGED <<playBuf, playQ, given, heard, playMark, oldHeard, newHeard>>
      /\ gaps' = gaps
  BY DEF NextTick, FullTick, queues, playHistory
<1>3. CaptureOK' /\ sent' = sent /\ PlaybackOK' /\ Playing' = Playing
  BY <1>1, <1>2, CaptureKept, PlaybackKept
<1>4. AudioTypeOK'
  BY <1>1, <1>2, Zenon DEF AudioTypeOK, micHistory
<1>5. DueOK' /\ due'.mic = FrameLen /\ due'.speaker = FrameLen /\ due'.driver = 1
  BY <1>2, AudioConstants DEF DueOK
<1>6. Len(capQ) \in Nat /\ Len(Playing) \in Nat /\ gaps \in Nat \cup {-1}
  BY <1>1, Waiting, SampleFacts DEF AudioTypeOK, NotStreaming
<1>7. CapturePace'
  BY <1>1, <1>2, <1>5, <1>6, AudioConstants DEF CapturePace
<1>8. PlaybackPace'
  BY <1>1, <1>2, <1>3, <1>5, <1>6, AudioConstants DEF PlaybackPace
<1> QED
  BY <1>2, <1>3, <1>4, <1>5, <1>7, <1>8 DEF AudioInv, InOrder

\* make_active and the end of the active call: what the resamplers keep is of
\* before the flush.
LEMMA SwitchStep ==
    ASSUME AudioInv, Switch
    PROVE  AudioInv' /\ InOrder
<1>1. AudioTypeOK /\ DueOK /\ CaptureOK /\ CapturePace /\ PlaybackOK /\ PlaybackPace
  BY DEF AudioInv
<1>2. /\ capQ' = <<>> /\ playQ' = <<>> /\ capAcc' = <<>> /\ sent' = <<>>
      /\ capBuf' = capBuf /\ playBuf' = playBuf /\ active' \in {"None", "Waiting", "Up"}
      /\ micMark' = recorded /\ playMark' = given
      /\ taken' = 0 /\ oldSent' = 0 /\ oldHeard' = 0 /\ newHeard' = 0 /\ gaps' = -1
      /\ recorded' = recorded /\ given' = given /\ heard' = heard /\ due' = due
  BY DEF Switch, Flush, NotStreaming
<1>3. /\ capBuf \in Samples /\ playBuf \in Samples /\ capAcc \in Samples /\ capQ \in Samples
      /\ playQ \in Samples /\ recorded \in Nat /\ given \in Nat /\ heard \in Nat
      /\ Len(capBuf) \in Nat /\ Len(playBuf) \in Nat
      /\ Len(capBuf) < InChunk /\ Len(playBuf) < OutChunk
  BY <1>1, SampleFacts DEF AudioTypeOK
<1>4. /\ <<>> \o capBuf = capBuf /\ capBuf \o <<>> = capBuf /\ <<>> \o playBuf = playBuf
  BY <1>3, ConcatEmptySeq DEF Samples
<1>5. (capAcc \o capBuf)' = capBuf /\ Captured' = capBuf /\ Playing' = playBuf
  BY <1>2, <1>4, Zenon DEF Captured, Playing
<1>6. /\ Range(capQ') = {} /\ Range(sent') = {} /\ Len(capQ') = 0 /\ Len(playQ') = 0
      /\ Len(capAcc') = 0 /\ capQ' \in Samples /\ playQ' \in Samples
      /\ capAcc' \in Samples /\ sent' \in Samples
  BY <1>2, EmptyFacts, Zenon
<1>7. AudioTypeOK'
  BY <1>2, <1>3, <1>6, AudioConstants DEF AudioTypeOK, NotStreaming
<1>8. DueOK' /\ due.mic \in 0 .. FrameLen /\ due.speaker \in 0 .. FrameLen
  BY <1>1, <1>2 DEF DueOK
<1>9. CaptureOK'
  <2>1. /\ Range(capBuf) \subseteq Range(Captured) /\ Increasing(capBuf)
    <3>1. Increasing(capAcc \o capBuf)
      BY <1>1, <1>3, Waiting, IncreasingJoin, Zenon DEF CaptureOK, Captured
    <3>2. Increasing(capBuf)
      BY <1>3, <3>1, IncreasingJoin, Zenon
    <3> QED
      BY <1>1, <3>2, Waiting
  <2>2. \A v \in Range(capBuf) : v <= recorded
    BY <1>1, <2>1 DEF CaptureOK
  <2>3. Split(capBuf, recorded, Len(capBuf))
    BY <1>3, <2>2, SplitAll
  <2>4. /\ 0 + Len(capBuf) < InChunk /\ recorded <= recorded
        /\ recorded - recorded = 0 + Len(capBuf) - Len(capBuf)
    BY <1>3
  <2> QED
    BY <1>2, <1>3, <1>5, <1>6, <2>1, <2>2, <2>3, <2>4, Zenon DEF CaptureOK
<1>10. PlaybackOK'
  <2>1. Range(playBuf) \subseteq Range(Playing) /\ Increasing(playBuf)
    <3>1. Increasing(playBuf)
      BY <1>1, <1>3, IncreasingJoin, Zenon DEF PlaybackOK, Playing
    <3> QED
      BY <1>1, <3>1, Waiting
  <2>2. \A v \in Range(playBuf) : heard < v /\ v <= given
    BY <1>1, <2>1 DEF PlaybackOK
  <2>3. Split(playBuf, given, Len(playBuf))
    BY <1>3, <2>2, SplitAll
  <2>4. /\ 0 + Len(playBuf) < OutChunk /\ heard <= given /\ given <= given
        /\ given - given = 0 + Len(playBuf) - Len(playBuf)
    BY <1>1, <1>3 DEF PlaybackOK
  <2> QED
    BY <1>2, <1>3, <1>5, <2>1, <2>2, <2>3, <2>4, Zenon DEF PlaybackOK
<1>11. CapturePace' /\ PlaybackPace'
  BY <1>2, <1>3, <1>5, <1>6, <1>8, AudioConstants
     DEF CapturePace, PlaybackPace, NotStreaming, DueOK
<1>12. DOMAIN sent' = {}
  BY <1>2, <1>6, EmptyFacts, SampleFacts
<1> QED
  BY <1>2, <1>7, <1>8, <1>9, <1>10, <1>11, <1>12 DEF AudioInv, InOrder

-----------------------------------------------------------------------------
(* The driver's tick                                                       *)

\* take_frames_8k cuts the frames off the front of what waits.
LEMMA FramesCut ==
    ASSUME AudioTypeOK, TakeFrames,
           NEW frames, frames = Blocks(capAcc \o Blocks(capBuf \o capQ, InChunk), FrameLen)
    PROVE  /\ frames \in Samples
           /\ capQ' = <<>> /\ capBuf' \in Samples /\ capAcc' \in Samples
           /\ Len(capBuf') < InChunk /\ Len(capAcc') < FrameLen
           /\ Captured' = capAcc' \o capBuf'
           /\ Captured = frames \o Captured'
<1> DEFINE fed == capBuf \o capQ
           acc == capAcc \o Blocks(fed, InChunk)
<1>1. capQ \in Samples /\ capBuf \in Samples /\ capAcc \in Samples
  BY DEF AudioTypeOK
<1>2. capQ' = <<>> /\ capBuf' = Rest(fed, InChunk) /\ capAcc' = Rest(acc, FrameLen)
      /\ frames = Blocks(acc, FrameLen)
  BY DEF TakeFrames
<1>3. fed \in Samples
  BY <1>1, JoinFacts
<1>4. /\ Blocks(fed, InChunk) \in Samples /\ capBuf' \in Samples /\ Len(capBuf') < InChunk
      /\ Blocks(fed, InChunk) \o capBuf' = fed
  BY <1>2, <1>3, BlocksFacts, AudioConstants, Zenon
<1>5. acc \in Samples
  BY <1>1, <1>4, JoinFacts
<1>6. /\ frames \in Samples /\ capAcc' \in Samples /\ Len(capAcc') < FrameLen
      /\ frames \o capAcc' = acc
  BY <1>2, <1>5, BlocksFacts, AudioConstants, Zenon
<1>7. Captured' = capAcc' \o capBuf' /\ capAcc' \o capBuf' \in Samples
  <2>1. capAcc' \o capBuf' \in Samples
    BY <1>4, <1>6, JoinFacts
  <2>2. (capAcc' \o capBuf') \o <<>> = capAcc' \o capBuf'
    BY <2>1, ConcatEmptySeq, Zenon DEF Samples
  <2> QED
    BY <1>2, <2>1, <2>2, Zenon DEF Captured
<1>8. Captured = capAcc \o fed
  BY <1>1, JoinAssociative, Zenon DEF Captured
<1>9. capAcc \o (Blocks(fed, InChunk) \o capBuf') = acc \o capBuf'
  BY <1>1, <1>4, JoinAssociative, Zenon
<1>10. (frames \o capAcc') \o capBuf' = frames \o (capAcc' \o capBuf')
  BY <1>4, <1>6, JoinAssociative, ZenonT(60)
<1> QED
  <2>1. Captured = frames \o Captured'
    BY <1>4, <1>6, <1>7, <1>8, <1>9, <1>10, Zenon
  <2> QED
    BY <1>2, <1>4, <1>6, <1>7, <2>1

\* take_frames_8k with an active call.
LEMMA TakeFramesStep ==
    ASSUME AudioTypeOK, CaptureOK, TakeFrames, active # "None", active' = active
    PROVE  /\ CaptureOK' /\ Len(capQ') = 0
           /\ {capQ', capBuf', capAcc', sent'} \subseteq Samples
           /\ Len(capBuf') < InChunk /\ Len(capAcc') < FrameLen
           /\ recorded' \in Nat /\ taken' \in Nat /\ micMark' \in Nat /\ oldSent' \in Nat
           /\ sent' # sent => /\ Increasing(sent')
                              /\ \A u \in Range(sent), v \in Range(sent') : u < v
<1> DEFINE frames == Blocks(capAcc \o Blocks(capBuf \o capQ, InChunk), FrameLen)
           old == Older(frames, micMark)
<1>1. /\ frames \in Samples
      /\ capQ' = <<>> /\ capBuf' \in Samples /\ capAcc' \in Samples
      /\ Len(capBuf') < InChunk /\ Len(capAcc') < FrameLen
      /\ Captured' = capAcc' \o capBuf'
      /\ Captured = frames \o Captured'
  BY FramesCut, Zenon
<1>2. /\ taken' = taken + Len(frames) - old
      /\ \/ active = "Up" /\ sent' = frames /\ oldSent' = oldSent + old
         \/ active # "Up" /\ sent' = sent /\ oldSent' = oldSent
      /\ recorded' = recorded /\ micMark' = micMark
  BY DEF TakeFrames
<1> HIDE DEF frames, old
<1>3. /\ Captured' \in Samples /\ capQ' \in Samples /\ Len(capQ') = 0 /\ Range(capQ') = {}
  BY <1>1, JoinFacts, EmptyFacts, Zenon
<1>4. /\ sent \in Samples /\ micMark \in Nat /\ recorded \in Nat /\ taken \in Nat
      /\ oldSent \in Nat
  BY DEF AudioTypeOK
<1>5. /\ Increasing(frames) /\ Increasing(Captured')
      /\ \A u \in Range(frames), v \in Range(Captured') : u < v
  BY <1>1, <1>3, IncreasingJoin, Zenon DEF CaptureOK
<1>6. /\ Range(Captured) = Range(frames) \cup Range(Captured')
      /\ Len(Captured) = Len(frames) + Len(Captured')
  BY <1>1, <1>3, JoinFacts, Zenon
<1>7. Len(frames) \in Nat /\ Len(Captured') \in Nat
  BY <1>1, <1>3, SampleFacts
<1>8. PICK k \in Nat :
        /\ Split(capAcc \o capBuf, micMark, k) /\ oldSent + k < InChunk
        /\ recorded - micMark = taken + Len(Captured) - k
  BY Zenon DEF CaptureOK
<1>9. Split(frames \o Captured', micMark, k)
  <2>1. Split(Captured, micMark, k)
    BY <1>4, <1>8, Waiting, SplitJoinNewer, Zenon DEF CaptureOK, Captured
  <2> QED
    BY <1>1, <2>1, Zenon
<1>10. PICK i, j \in Nat : i + j = k /\ Split(frames, micMark, i) /\ Split(Captured', micMark, j)
  BY <1>1, <1>3, <1>4, <1>9, SplitConcat
<1>11. old = i /\ i <= Len(frames)
  <2>1. Older(frames, micMark) = i
    BY <1>1, <1>4, <1>10, SplitOlder
  <2>2. i \in 0 .. Len(frames)
    BY <1>10 DEF Split
  <2> QED
    BY <1>7, <2>1, <2>2 DEF old
<1>12. /\ oldSent' + j < InChunk /\ oldSent' \in Nat /\ taken' \in Nat
       /\ recorded' - micMark' = taken' + Len(Captured') - j
  <2> DEFINE f == Len(frames)
             new == Len(Captured')
  <2>1. /\ f \in Nat /\ new \in Nat /\ k = i + j /\ old = i /\ i <= f
        /\ recorded - micMark = taken + (f + new) - k
        /\ taken' = taken + f - old
    BY <1>2, <1>6, <1>7, <1>8, <1>10, <1>11, Zenon
  <2>2. oldSent' = oldSent + old \/ oldSent' = oldSent
    BY <1>2
  <2> HIDE DEF f, new
  <2>3. /\ oldSent' + j < InChunk /\ oldSent' \in Nat /\ taken' \in Nat
        /\ recorded - micMark = taken' + new - j
    BY <1>4, <1>8, <2>1, <2>2, AudioConstants
  <2> QED
    BY <1>2, <2>3, Zenon DEF new
<1>13. \A v \in Range(Captured') \cup Range(sent') : v <= recorded'
  BY <1>2, <1>6, Zenon DEF CaptureOK
<1>14. \A u \in Range(sent'), v \in Range(Captured') : u < v
  BY <1>2, <1>5, <1>6, Zenon DEF CaptureOK
<1>15. CaptureOK'
  <2>1. micMark' <= recorded'
    BY <1>2 DEF CaptureOK
  <2>2. Split((capAcc \o capBuf)', micMark', j)
    BY <1>1, <1>2, <1>10, Zenon
  <2> QED
    BY <1>3, <1>5, <1>12, <1>13, <1>14, <2>1, <2>2, Zenon DEF CaptureOK
<1>16. sent' # sent => /\ Increasing(sent')
                       /\ \A u \in Range(sent), v \in Range(sent') : u < v
  BY <1>2, <1>5, <1>6, Zenon DEF CaptureOK
<1>17. sent' \in Samples /\ recorded' \in Nat /\ micMark' \in Nat
  BY <1>1, <1>2, <1>4, Zenon
<1> QED
  BY <1>1, <1>3, <1>12, <1>15, <1>16, <1>17

\* play_pcm_8k puts the frame behind what waits, and nothing overflows.
LEMMA FrameGiven ==
    ASSUME AudioTypeOK, PlayPcm, Len(Playing) + FrameLen <= PlayCap
    PROVE  /\ playQ' \in Samples /\ playBuf' \in Samples
           /\ Len(playBuf') < OutChunk /\ Len(playQ') <= PlayCap
           /\ Playing' = Playing \o Numbers(given, FrameLen)
<1> DEFINE n == Numbers(given, FrameLen)
           fed == playBuf \o n
           full == playQ \o Blocks(fed, OutChunk)
<1>1. /\ playBuf' = Rest(fed, OutChunk) /\ playQ' = DropOldest(full, PlayCap)
  BY DEF PlayPcm
<1>2. playBuf \in Samples /\ playQ \in Samples /\ given \in Nat
  BY DEF AudioTypeOK
<1>3. n \in Samples /\ Len(n) = FrameLen
  BY <1>2, NumbersFacts, AudioConstants
<1> HIDE DEF n
<1>4. fed \in Samples /\ Len(fed) = Len(playBuf) + FrameLen
  BY <1>2, <1>3, JoinFacts, Zenon
<1>5. /\ Blocks(fed, OutChunk) \in Samples /\ playBuf' \in Samples /\ Len(playBuf') < OutChunk
      /\ Blocks(fed, OutChunk) \o playBuf' = fed
  BY <1>1, <1>4, BlocksFacts, AudioConstants, Zenon
<1>6. full \in Samples /\ Len(full) = Len(playQ) + Len(Blocks(fed, OutChunk))
  BY <1>2, <1>5, JoinFacts, Zenon
<1>7. full \o playBuf' = playQ \o fed
  <2>1. full \o playBuf' = playQ \o (Blocks(fed, OutChunk) \o playBuf')
    BY <1>2, <1>5, JoinAssociative
  <2> QED
    BY <1>5, <2>1, Zenon
<1>8. playQ \o fed = Playing \o n
  BY <1>2, <1>3, JoinAssociative, Zenon DEF Playing
<1>9. Len(full) <= PlayCap
  <2>1. Len(full \o playBuf') = Len(full) + Len(playBuf')
    BY <1>5, <1>6, JoinFacts
  <2>2. Len(Playing \o n) = Len(Playing) + FrameLen
    BY <1>3, Waiting, JoinFacts, Zenon
  <2>3. Len(full) + Len(playBuf') = Len(Playing) + FrameLen
    BY <1>7, <1>8, <2>1, <2>2, Zenon
  <2>4. Len(full) \in Nat /\ Len(playBuf') \in Nat /\ Len(Playing) \in Nat
    BY <1>5, <1>6, Waiting, SampleFacts
  <2> QED
    BY <2>3, <2>4, AudioConstants
<1>10. playQ' = full
  BY <1>1, <1>6, <1>9, DropOldestKeeps, AudioConstants
<1>11. Playing' = full \o playBuf'
  BY <1>10, Zenon DEF Playing
<1>12. Playing' = Playing \o n
  BY <1>7, <1>8, <1>11, Zenon
<1> HIDE DEF full, fed
<1> QED
  BY <1>5, <1>6, <1>9, <1>10, <1>12 DEF n

\* A frame to play: no room is wanting, and the frame is newer than the rest.
LEMMA PlayPcmStep ==
    ASSUME AudioTypeOK, DueOK, PlaybackOK, PlaybackPace, PlayPcm,
           due.driver = 1, due' = [due EXCEPT !.driver = 0]
    PROVE  /\ PlaybackOK' /\ PlaybackPace' /\ heard' = heard
           /\ playQ' \in Samples /\ playBuf' \in Samples
           /\ Len(playBuf') < OutChunk /\ Len(playQ') <= PlayCap
           /\ given' \in Nat /\ gaps' \in Nat \cup {NotStreaming}
           /\ UNCHANGED <<playMark, oldHeard, newHeard>>
<1> DEFINE n == Numbers(given, FrameLen)
           old == Len(Playing)
           new == Len(Playing')
<1>1. /\ given' = given + FrameLen /\ gaps' = IF gaps = -1 THEN 0 ELSE gaps
      /\ heard' = heard /\ playMark' = playMark
      /\ oldHeard' = oldHeard /\ newHeard' = newHeard
  BY DEF PlayPcm, NotStreaming
<1>2. /\ given \in Nat /\ playMark \in Nat /\ heard \in Nat /\ gaps \in Nat \cup {-1}
      /\ oldHeard \in Nat /\ newHeard \in Nat /\ Playing \in Samples /\ old \in Nat
  BY Waiting, SampleFacts DEF AudioTypeOK, NotStreaming
<1>3. /\ n \in Samples /\ Len(n) = FrameLen /\ Increasing(n)
      /\ \A v \in Range(n) : v \in given + 1 .. given + FrameLen
  BY <1>2, NumbersFacts, AudioConstants, SMTT(60) DEF Range
<1>4. /\ due.speaker \in 0 .. FrameLen /\ due'.speaker = due.speaker /\ due'.driver = 0
  BY AudioConstants DEF DueOK
<1> HIDE DEF n
<1>5. old < due.speaker + OutChunk
  BY <1>2, <1>4, AudioConstants, SMTT(60) DEF PlaybackPace
<1>6. old + FrameLen <= PlayCap
  <2> HIDE DEF old
  <2> QED
    BY <1>2, <1>4, <1>5, AudioConstants
<1>7. /\ playQ' \in Samples /\ playBuf' \in Samples
      /\ Len(playBuf') < OutChunk /\ Len(playQ') <= PlayCap
      /\ Playing' = Playing \o n
  BY <1>6, FrameGiven, Zenon DEF n
<1>8. new = old + FrameLen /\ Range(Playing') = Range(Playing) \cup Range(n)
  BY <1>2, <1>3, <1>7, JoinFacts, Zenon
<1>9. \A v \in Range(n) : given < v /\ v <= given' /\ heard < v /\ playMark < v
  <2>1. heard <= given /\ playMark <= given /\ FrameLen \in Nat
    BY AudioConstants DEF PlaybackOK
  <2> TAKE v \in Range(n)
  <2>2. v \in given + 1 .. given + FrameLen
    BY <1>3, Zenon
  <2> QED
    BY <1>1, <1>2, <2>1, <2>2
<1>10. Increasing(Playing')
  <2>1. \A u \in Range(Playing), v \in Range(n) : u < v
    <3>1. \A u \in Range(Playing) : u \in Nat /\ u <= given
      BY <1>2, RangeFacts DEF PlaybackOK
    <3> QED
      BY <1>2, <1>3, <1>9, <3>1
  <2> QED
    BY <1>2, <1>3, <1>7, <2>1, IncreasingJoin, Zenon DEF PlaybackOK
<1>11. \A v \in Range(Playing') : heard' < v /\ v <= given'
  <2>1. \A v \in Range(Playing) : heard < v /\ v <= given'
    <3>1. \A v \in Range(Playing) : v \in Nat /\ heard < v /\ v <= given
      BY <1>2, RangeFacts DEF PlaybackOK
    <3> QED
      BY <1>1, <1>2, <3>1, AudioConstants, SMTT(60)
  <2> QED
    BY <1>1, <1>8, <1>9, <2>1, Zenon
<1>12. heard' <= given' /\ playMark' <= given' /\ given' \in Nat
  <2>1. heard <= given /\ playMark <= given
    BY DEF PlaybackOK
  <2> QED
    BY <1>1, <1>2, <2>1, AudioConstants, SMTT(60)
<1>13. PICK k \in Nat : /\ Split(Playing, playMark, k) /\ oldHeard + k < OutChunk
                        /\ given - playMark = newHeard + old - k
  BY Zenon DEF PlaybackOK
<1>14. Split(Playing', playMark', k)
  BY <1>1, <1>2, <1>3, <1>7, <1>9, <1>13, SplitJoinNewer, Zenon
<1>15. given' - playMark' = newHeard' + new - k
  <2> HIDE DEF old, new
  <2> QED
    BY <1>1, <1>2, <1>8, <1>13, AudioConstants
<1>16. PlaybackOK'
  BY <1>1, <1>10, <1>11, <1>12, <1>13, <1>14, <1>15, Zenon DEF PlaybackOK
<1>17. PlaybackPace'
  <2>1. /\ gaps < FrameLen + OutChunk
        /\ gaps # -1 => gaps + due.speaker <= old + FrameLen
    BY DEF PlaybackPace, NotStreaming
  <2> HIDE DEF old, new
  <2>2. /\ new < due'.speaker + OutChunk + FrameLen
        /\ gaps' < FrameLen + OutChunk
        /\ gaps' # -1 => gaps' + due'.speaker <= new + 0
    BY <1>1, <1>2, <1>4, <1>5, <1>8, <2>1, AudioConstants
  <2> QED
    BY <1>4, <2>2 DEF PlaybackPace, NotStreaming, new
<1>18. gaps' \in Nat \cup {NotStreaming}
  BY <1>1, <1>2 DEF NotStreaming
<1> QED
  BY <1>1, <1>7, <1>12, <1>16, <1>17, <1>18

\* The driver's tick: both sides of it.
LEMMA AudioTickStep ==
    ASSUME AudioInv, AudioTick
    PROVE  AudioInv' /\ InOrder
<1>1. AudioTypeOK /\ DueOK /\ CaptureOK /\ CapturePace /\ PlaybackOK /\ PlaybackPace
  BY DEF AudioInv
<1>2. /\ due.driver = 1 /\ due' = [due EXCEPT !.driver = 0] /\ active' = active
      /\ PumpMic /\ ((active = "Up" /\ PlayPcm) \/ PlayNothing)
  BY <1>1 DEF AudioTick, DueOK
<1>3. /\ DueOK' /\ due'.mic = due.mic /\ due'.speaker = due.speaker /\ due'.driver = 0
      /\ due.mic \in 0 .. FrameLen /\ due.speaker \in 0 .. FrameLen
  BY <1>1, <1>2 DEF DueOK
<1>4. /\ CaptureOK' /\ CapturePace'
      /\ {capQ', capBuf', capAcc', sent'} \subseteq Samples
      /\ Len(capQ') <= CapCap /\ Len(capBuf') < InChunk /\ Len(capAcc') < FrameLen
      /\ recorded' \in Nat /\ taken' \in Nat /\ micMark' \in Nat /\ oldSent' \in Nat
      /\ sent' # sent => /\ Increasing(sent')
                         /\ \A u \in Range(sent), v \in Range(sent') : u < v
  <2>1. CASE active = "None"
    <3>1. UNCHANGED <<capQ, capBuf, capAcc, micHistory>>
      BY <1>2, <2>1 DEF PumpMic
    <3>2. CaptureOK' /\ sent' = sent
      BY <1>1, <1>2, <3>1, CaptureKept
    <3>3. CapturePace'
      BY <1>2, <2>1 DEF CapturePace
    <3> QED
      BY <1>1, <3>1, <3>2, <3>3 DEF AudioTypeOK, micHistory
  <2>2. CASE active # "None"
    <3>1. TakeFrames
      BY <1>2, <2>2 DEF PumpMic
    <3>2. /\ CaptureOK' /\ Len(capQ') = 0
          /\ {capQ', capBuf', capAcc', sent'} \subseteq Samples
          /\ Len(capBuf') < InChunk /\ Len(capAcc') < FrameLen
          /\ recorded' \in Nat /\ taken' \in Nat /\ micMark' \in Nat /\ oldSent' \in Nat
          /\ sent' # sent => /\ Increasing(sent')
                             /\ \A u \in Range(sent), v \in Range(sent') : u < v
      BY <1>1, <1>2, <2>2, <3>1, TakeFramesStep, Zenon
    <3>3. CapturePace' /\ Len(capQ') <= CapCap
      BY <1>3, <3>2, AudioConstants DEF CapturePace
    <3> QED
      BY <3>2, <3>3
  <2> QED
    BY <2>1, <2>2
<1>5. /\ PlaybackOK' /\ PlaybackPace' /\ heard' = heard
      /\ playQ' \in Samples /\ playBuf' \in Samples
      /\ Len(playBuf') < OutChunk /\ Len(playQ') <= PlayCap
      /\ given' \in Nat /\ gaps' \in Nat \cup {NotStreaming}
      /\ UNCHANGED <<playMark, oldHeard, newHeard>>
  <2>1. CASE PlayPcm
    BY <1>1, <1>2, <2>1, PlayPcmStep
  <2>2. CASE PlayNothing
    <3>1. /\ UNCHANGED <<playBuf, playQ, given, heard, playMark, oldHeard, newHeard>>
          /\ gaps' = -1
      BY <2>2 DEF PlayNothing, NotStreaming
    <3>2. PlaybackOK' /\ Playing' = Playing
      BY <1>1, <3>1, PlaybackKept
    <3>3. Len(Playing) \in Nat
      BY <1>1, Waiting, SampleFacts
    <3>4. PlaybackPace'
      BY <1>1, <1>2, <1>3, <3>1, <3>2, <3>3, AudioConstants, SMTT(60) DEF PlaybackPace, NotStreaming
    <3> QED
      BY <1>1, <3>1, <3>2, <3>4 DEF AudioTypeOK, NotStreaming
  <2> QED
    BY <1>2, <2>1, <2>2
<1>6. AudioTypeOK'
  BY <1>1, <1>2, <1>4, <1>5 DEF AudioTypeOK
<1>7. InOrder
  <2> SUFFICES ASSUME sent' # sent
               PROVE  /\ Increasing(sent')
                      /\ \A i \in DOMAIN sent, j \in DOMAIN sent' : sent[i] < sent'[j]
    BY <1>5, Zenon DEF InOrder, Increasing
  <2>1. sent \in Samples /\ sent' \in Samples
    BY <1>1, <1>4 DEF AudioTypeOK
  <2> QED
    BY <1>4, <2>1, RangeFacts, Zenon
<1> QED
  BY <1>3, <1>4, <1>5, <1>6, <1>7 DEF AudioInv

-----------------------------------------------------------------------------
(* The theorems                                                            *)

LEMMA AudioStep == AudioInv /\ [AudioNext]_audioVars => AudioInv' /\ [InOrder]_audioVars
<1> SUFFICES ASSUME AudioInv, [AudioNext]_audioVars PROVE AudioInv' /\ [InOrder]_audioVars
  OBVIOUS
<1>1. CASE AudioNext
  BY <1>1, RecordStep, SpeakStep, AudioTickStep, NextTickStep, SwitchStep DEF AudioNext
<1>2. CASE UNCHANGED audioVars
  <2>1. /\ UNCHANGED <<capQ, capBuf, capAcc, active, micHistory>>
        /\ UNCHANGED <<playBuf, playQ, given, heard, playMark, oldHeard, newHeard>>
        /\ gaps' = gaps /\ due' = due
    BY <1>2 DEF audioVars, queues, playHistory
  <2>2. CaptureOK' /\ PlaybackOK' /\ Playing' = Playing
    BY <2>1, CaptureKept, PlaybackKept DEF AudioInv
  <2>3. AudioTypeOK' /\ DueOK' /\ CapturePace' /\ PlaybackPace'
    BY <2>1, <2>2, Zenon DEF AudioInv, AudioTypeOK, micHistory, DueOK, CapturePace, PlaybackPace
  <2> QED
    BY <1>2, <2>2, <2>3 DEF AudioInv
<1> QED
  BY <1>1, <1>2

\* The inductive invariant holds in every reachable state of the sound card and
\* the driver's tick.
THEOREM AudioInvariant == AudioSpec => []AudioInv
BY AudioInitInv, AudioStep, PTL DEF AudioSpec

\* The queues keep their caps and the resamplers less than a block.
THEOREM AudioTypeCorrect == AudioSpec => []AudioTypeOK
BY AudioInvariant, PTL DEF AudioInv

\* After a flush less than one block of the sound of before it comes out, in
\* each direction, for every size of frame and block.
THEOREM OldSoundAlwaysBounded == AudioSpec => []OldSoundBounded
BY AudioInvariant, InvOldSound, PTL

\* No sample is lost between callbacks, resamplers, frames and caps.
THEOREM NothingEverLost == AudioSpec => []NothingLost
BY AudioInvariant, InvNothingLost, PTL

\* The blocks of the resampler never cost a stream a frame and a block of
\* silence.
THEOREM GapsAlwaysBounded == AudioSpec => []GapsBounded
<1>1. AudioInv => GapsBounded
  BY DEF AudioInv, PlaybackPace, GapsBounded
<1> QED
  BY <1>1, AudioInvariant, PTL

\* Sound keeps its order through every queue, in both directions.
THEOREM SoundAlwaysInOrder == AudioSpec => SoundInOrder
<1>1. AudioInit => AudioInv
  BY AudioInitInv
<1>2. AudioInv /\ [AudioNext]_audioVars => AudioInv' /\ [InOrder]_audioVars
  BY AudioStep
<1> QED
  BY <1>1, <1>2, PTL DEF AudioSpec, SoundInOrder
=============================================================================
