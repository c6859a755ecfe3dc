------------------------- MODULE JitterBufferProofs -------------------------
(***************************************************************************)
(* The bound on concealment for every capacity, threshold, depth and set   *)
(* of timestamps.  The argument: streak <= missBudget always, because only *)
(* Conceal adds to either and what lowers the budget ends the streak; and  *)
(* a budget beyond the threshold puts the cursor on a buffered frame, so   *)
(* that the next pull with anything to play does play.  Then the           *)
(* timestamps of mini-frames: of three candidates a whole wrap apart only  *)
(* one lies within half a wrap of the reference.  And the voice path: what *)
(* is buffered was placed with one offset, a number of wraps, because the  *)
(* next frame to arrive is never out by half a wrap (Chain).  On this the  *)
(* order of what is heard rests, the cursor staying a network delay behind *)
(* the far end's clock (CursorAt); and on both that nothing of a stream is *)
(* discarded, because there are never more holes from the cursor on than   *)
(* frames that may be under way and lost ones (CursorKept).                *)
(***************************************************************************)
EXTENDS VoicePath, FiniteSetTheorems, TLAPS

-----------------------------------------------------------------------------
(* A finite, nonempty set of integers has a least and a greatest element.  *)

Below(S, x) == {y \in S : y < x}

\* The part of a set below n lies strictly within the part below a larger m.
LEMMA BelowGrows ==
    ASSUME NEW S, S \subseteq Int, NEW m \in S, NEW n \in S, n < m
    PROVE  Below(S, n) \subseteq Below(S, m) /\ Below(S, n) # Below(S, m)
<1>1. n \in Int /\ m \in Int
  OBVIOUS
<1>2. \A y \in S : y < n => y < m
  <2> TAKE y \in S
  <2>1. y \in Int
    OBVIOUS
  <2> QED
    BY <2>1, <1>1
<1>3. ~(n < n)
  BY <1>1
<1> QED
  BY <1>2, <1>3, Zenon DEF Below

\* The least element: the one with the least part of the set below it, strict
\* inclusion being well founded.
LEMMA LeastExists ==
    ASSUME NEW S, S \subseteq Int, IsFiniteSet(S), S # {}
    PROVE  \E m \in S : \A n \in S : m <= n
<1> DEFINE T == {Below(S, x) : x \in S}
           R == StrictSubsetOrdering(S)
<1>1. IsWellFoundedOn(R, FiniteSubsetsOf(S))
  BY FS_StrictSubsetOrderingWellFounded
<1>2. \A x \in S : IsFiniteSet(Below(S, x)) /\ Below(S, x) \subseteq S
  BY FS_Subset DEF Below
<1>3. T \subseteq FiniteSubsetsOf(S) /\ T # {}
  BY <1>2 DEF FiniteSubsetsOf
<1>4. \E t \in T : \A u \in T : <<u, t>> \notin R
  <2> HIDE DEF T, R
  <2> QED
    BY <1>1, <1>3, WFMin
<1>5. PICK m \in S : \A n \in S : <<Below(S, n), Below(S, m)>> \notin R
  BY <1>4
<1>6. \A n \in S : ~(n < m)
  BY <1>2, <1>5, BelowGrows, Zenon DEF StrictSubsetOrdering
<1>7. \A n \in S : n \in Int /\ m \in Int
  OBVIOUS
<1> QED
  BY <1>6, <1>7

\* The greatest element is the negative of the least of the negatives.
LEMMA GreatestExists ==
    ASSUME NEW S, S \subseteq Int, IsFiniteSet(S), S # {}
    PROVE  \E m \in S : \A n \in S : n <= m
<1> DEFINE Negated == {-x : x \in S}
<1>1. \A x \in S : x \in Int /\ -x \in Int
  OBVIOUS
<1>2. Negated \subseteq Int /\ Negated # {}
  BY <1>1, Zenon
<1>3. IsFiniteSet(Negated)
  <2> DEFINE f == [x \in S |-> -x]
  <2>1. f \in Surjection(S, Negated)
    BY DEF Surjection
  <2> QED
    BY <2>1, FS_Surjection
<1>4. PICK l \in Negated : \A k \in Negated : l <= k
  <2> HIDE DEF Negated
  <2> QED
    BY <1>2, <1>3, LeastExists
<1>5. PICK m \in S : l = -m
  OBVIOUS
<1>6. \A n \in S : -m <= -n /\ n \in Int /\ m \in Int
  BY <1>4, <1>5
<1> QED
  BY <1>6

\* A nonempty set of timestamps has a newest one.
LEMMA NewestMember ==
    ASSUME NEW S, S \subseteq Int, IsFiniteSet(S), S # {}
    PROVE  Newest(S) \in S
BY GreatestExists DEF Newest

\* A nonempty set of timestamps has an oldest one.
LEMMA OldestMember ==
    ASSUME NEW S, S \subseteq Int, IsFiniteSet(S), S # {}
    PROVE  Oldest(S) \in S
BY LeastExists DEF Oldest

-----------------------------------------------------------------------------
(* The invariant                                                           *)

JitterInv == JitterTypeOK /\ streak <= missBudget

\* What is buffered is a finite set of timestamps.
LEMMA StampsFinite ==
    ASSUME NEW S, S \subseteq Stamps
    PROVE  IsFiniteSet(S) /\ S \subseteq Int /\ S \subseteq 0 .. TsMod - 1
<1>1. Stamps \subseteq 0 .. TsMod - 1 /\ TsMod \in Nat
  BY JitterAssumption
<1>2. IsFiniteSet(0 .. TsMod - 1)
  BY <1>1, FS_Interval
<1>3. S \subseteq 0 .. TsMod - 1
  BY <1>1, Zenon
<1>4. \A x \in 0 .. TsMod - 1 : x \in Int
  BY <1>1
<1> QED
  BY <1>2, <1>3, <1>4, FS_Subset, Zenon

\* push keeps the buffer within MAX_FRAMES: the oldest frame makes room.
LEMMA InsertBounded ==
    ASSUME NEW S, S \subseteq Stamps, Cardinality(S) <= MaxFrames, NEW ts \in Stamps
    PROVE  Insert(S, ts) \subseteq Stamps /\ Cardinality(Insert(S, ts)) <= MaxFrames
<1> DEFINE grown == S \cup {ts}
<1>1. grown \subseteq Stamps
  OBVIOUS
<1>2. IsFiniteSet(S) /\ IsFiniteSet(grown) /\ grown \subseteq Int
  BY <1>1, StampsFinite
<1>3. Cardinality(grown) <= Cardinality(S) + 1 /\ Cardinality(S) \in Nat
  BY <1>2, FS_AddElement, FS_CardinalityType
<1>4. Oldest(grown) \in grown
  BY <1>2, OldestMember
<1>5. Cardinality(grown \ {Oldest(grown)}) = Cardinality(grown) - 1
  BY <1>2, <1>4, FS_RemoveElement
<1>6. MaxFrames \in Nat /\ Cardinality(grown) \in Nat
  BY <1>2, FS_CardinalityType, JitterAssumption
<1>7. Insert(S, ts) = IF Cardinality(grown) > MaxFrames
                      THEN grown \ {Oldest(grown)} ELSE grown
  BY DEF Insert
<1>8. Insert(S, ts) \subseteq Stamps
  BY <1>1, <1>7
<1>9. Cardinality(Insert(S, ts)) <= MaxFrames
  <2> HIDE DEF grown
  <2>1. CASE Cardinality(grown) > MaxFrames
    BY <2>1, <1>3, <1>5, <1>6, <1>7
  <2>2. CASE ~(Cardinality(grown) > MaxFrames)
    BY <2>2, <1>6, <1>7
  <2> QED
    BY <2>1, <2>2
<1> QED
  BY <1>8, <1>9

\* A new buffer is empty, primed by nothing, its target the least depth.
LEMMA InitInv == JitterInit => JitterInv
<1> SUFFICES ASSUME JitterInit PROVE JitterInv
  OBVIOUS
<1>1. frames \subseteq Stamps /\ Cardinality(frames) <= MaxFrames
  BY FS_EmptySet, JitterAssumption DEF JitterInit
<1>2. nextTs \in 0 .. TsMod - 1 /\ target \in Targets
  BY JitterAssumption DEF JitterInit, Targets
<1>3. missBudget \in 0 .. MissThreshold + 1 /\ pushed \in 0 .. PushMax
  BY JitterAssumption DEF JitterInit
<1>4. streak \in 0 .. MissThreshold + 2 /\ streak <= missBudget
  BY <1>3, JitterAssumption DEF JitterInit
<1> QED
  BY <1>1, <1>2, <1>3, <1>4, Zenon DEF JitterInit, JitterInv, JitterTypeOK

\* A reset empties the buffer and keeps a target within its limits.
LEMMA ResetInv == JitterInv /\ Reset => JitterInv'
<1> SUFFICES ASSUME JitterInv, Reset PROVE JitterInv'
  OBVIOUS
<1>1. frames' \subseteq Stamps /\ Cardinality(frames') <= MaxFrames
  BY FS_EmptySet, JitterAssumption DEF Reset
<1>2. target' \in Targets /\ missBudget' \in 0 .. MissThreshold + 1
  BY JitterAssumption DEF Reset, Targets
<1>3. UNCHANGED <<nextTs, pushed>>
  BY DEF Reset
<1>4. streak' \in 0 .. MissThreshold + 2 /\ streak' <= missBudget'
  BY JitterAssumption DEF Reset
<1> QED
  BY <1>1, <1>2, <1>3, <1>4, Zenon DEF Reset, JitterInv, JitterTypeOK

\* A frame pushed keeps the invariant, kept or late, resynchronising or not.
LEMMA PushInv == ASSUME JitterInv, NEW ts \in Stamps, Push(ts) PROVE JitterInv'
<1>1. frames' \subseteq Stamps /\ Cardinality(frames') <= MaxFrames
  <2>1. CASE PushLate(ts)
    BY <2>1 DEF PushLate, JitterInv, JitterTypeOK
  <2>2. CASE PushResync(ts)
    <3>1. Cardinality({}) <= MaxFrames
      BY FS_EmptySet, JitterAssumption
    <3> QED
      BY <2>2, <3>1, InsertBounded DEF PushResync
  <2>3. CASE PushKept(ts)
    BY <2>3, InsertBounded DEF PushKept, JitterInv, JitterTypeOK
  <2> QED
    BY <2>1, <2>2, <2>3 DEF Push
<1>2. target' \in Targets /\ lastArrival' \in Stamps \cup {None}
  BY DEF Push, Estimate, JitterInv, JitterTypeOK
<1>3. /\ playing' \in BOOLEAN /\ lastPlayed' \in 0 .. TsMod - 1 \cup {None}
      /\ outcome' \in {"Pushed", "Late"}
  BY DEF Push, PushLate, PushResync, PushKept, JitterInv, JitterTypeOK
<1>4. pushed' \in 0 .. PushMax
  BY JitterAssumption DEF Push, JitterInv, JitterTypeOK
<1>5. UNCHANGED <<nextTs, missBudget, streak>>
  BY DEF Push
<1> QED
  BY <1>1, <1>2, <1>3, <1>4, <1>5 DEF JitterInv, JitterTypeOK

\* Where pull puts the cursor is a timestamp.
LEMMA CursorType ==
    ASSUME JitterInv, playing \/ Primed
    PROVE  Cursor \in 0 .. TsMod - 1
<1>1. frames \subseteq Stamps /\ nextTs \in 0 .. TsMod - 1
  BY DEF JitterInv, JitterTypeOK
<1>2. frames # {} => Newest(frames) \in 0 .. TsMod - 1 /\ Oldest(frames) \in 0 .. TsMod - 1
  BY <1>1, StampsFinite, NewestMember, OldestMember, Zenon
<1> QED
  BY <1>1, <1>2, Zenon DEF Cursor, Start, Primed

\* A spent budget makes the next pull play, if there is anything to play.
LEMMA SpentPlays ==
    ASSUME JitterInv, frames # {}, BudgetSpent
    PROVE  Cursor \in frames
BY StampsFinite, NewestMember, Zenon DEF Cursor, JitterInv, JitterTypeOK

\* Each outcome of pull keeps the invariant; a concealment spends budget.
LEMMA PullInv == ASSUME JitterInv, Pull PROVE JitterInv'
<1>1. UNCHANGED <<target, lastArrival, pushed>>
  BY DEF Pull
<1>2. CASE PullPriming
  BY <1>1, <1>2, JitterAssumption DEF PullPriming, JitterInv, JitterTypeOK
<1>3. CASE PullPlay
  <2>1. /\ frames' \subseteq Stamps /\ IsFiniteSet(frames)
        /\ Cardinality(frames') = Cardinality(frames) - 1
        /\ Cardinality(frames) \in Nat
    BY <1>3, StampsFinite, FS_RemoveElement, FS_CardinalityType
    DEF PullPlay, JitterInv, JitterTypeOK
  <2>2. Cardinality(frames') <= MaxFrames
    BY <2>1, JitterAssumption DEF JitterInv, JitterTypeOK
  <2>3. nextTs' \in 0 .. TsMod - 1 /\ lastPlayed' \in 0 .. TsMod - 1
    BY <1>3, CursorType, JitterAssumption DEF PullPlay, Advanced
  <2>4. missBudget' \in 0 .. MissThreshold + 1
    BY <1>3, JitterAssumption DEF PullPlay, Budget, JitterInv, JitterTypeOK
  <2>5. streak' \in 0 .. MissThreshold + 2 /\ streak' <= missBudget'
    BY <1>3, <2>4, JitterAssumption DEF PullPlay
  <2>6. playing' \in BOOLEAN /\ outcome' = "Play"
    BY <1>3 DEF PullPlay
  <2> QED
    BY <1>1, <2>1, <2>2, <2>3, <2>4, <2>5, <2>6 DEF JitterInv, JitterTypeOK
<1>4. CASE PullConceal
  <2>1. ~BudgetSpent
    BY <1>4, SpentPlays DEF PullConceal
  <2>2. nextTs' \in 0 .. TsMod - 1
    BY <1>4, CursorType, JitterAssumption DEF PullConceal, Advanced
  <2>3. missBudget' = missBudget + 1 /\ missBudget <= MissThreshold
    BY <1>4, <2>1, JitterAssumption
    DEF PullConceal, Budget, BudgetSpent, JitterInv, JitterTypeOK
  <2>4. streak' \in 0 .. MissThreshold + 2 /\ streak' <= streak + 1
    BY <1>4, JitterAssumption DEF PullConceal, JitterInv, JitterTypeOK
  <2>5. playing' = TRUE /\ outcome' = "Conceal"
        /\ UNCHANGED <<frames, lastPlayed>>
    BY <1>4 DEF PullConceal
  <2> QED
    BY <1>1, <2>2, <2>3, <2>4, <2>5, JitterAssumption DEF JitterInv, JitterTypeOK
<1>5. CASE PullEmpty
  <2>1. missBudget' \in 0 .. MissThreshold + 1
    BY <1>5, JitterAssumption DEF PullEmpty
  <2>2. streak' \in 0 .. MissThreshold + 2 /\ streak' <= missBudget'
    BY <1>5, JitterAssumption DEF PullEmpty
  <2> QED
    BY <1>1, <1>5, <2>1, <2>2, Zenon DEF PullEmpty, JitterInv, JitterTypeOK
<1> QED
  BY <1>2, <1>3, <1>4, <1>5 DEF Pull

\* Every reachable state satisfies the type invariant and the bound of the
\* streak by the budget.
THEOREM JitterInvariant == JitterSpec => []JitterInv
<1>1. JitterInit => JitterInv
  BY InitInv
<1>2. JitterInv /\ [JitterNext]_jitterVars => JitterInv'
  <2> SUFFICES ASSUME JitterInv, [JitterNext]_jitterVars PROVE JitterInv'
    OBVIOUS
  <2>1. CASE Reset
    BY <2>1, ResetInv
  <2>2. ASSUME NEW ts \in Stamps, Push(ts) PROVE JitterInv'
    BY <2>2, PushInv
  <2>3. CASE Pull
    BY <2>3, PullInv
  <2>4. CASE UNCHANGED jitterVars
    BY <2>4 DEF jitterVars, JitterInv, JitterTypeOK
  <2> QED
    BY <2>1, <2>2, <2>3, <2>4 DEF JitterNext
<1> QED
  BY <1>1, <1>2, PTL DEF JitterSpec

\* The type invariant, MAX_FRAMES among it (push, jitter.rs:150-158).
THEOREM JitterTypeCorrect == JitterSpec => []JitterTypeOK
<1>1. JitterInv => JitterTypeOK
  BY DEF JitterInv
<1> QED
  BY <1>1, JitterInvariant, PTL

\* However frames arrive, pull never conceals more than MISS_BUDGET_THRESHOLD
\* + 1 times in a row.
THEOREM ConcealmentBounded == JitterSpec => []ConcealBounded
<1>1. JitterInv => ConcealBounded
  BY JitterAssumption DEF JitterInv, JitterTypeOK, ConcealBounded
<1> QED
  BY <1>1, JitterInvariant, PTL

-----------------------------------------------------------------------------
(* The timestamps of mini-frames                                           *)

\* A number below the modulus is its own remainder.
LEMMA ModSmall == ASSUME NEW m \in Nat \ {0}, NEW x \in 0 .. m - 1 PROVE x % m = x
OBVIOUS

\* Less than one modulus below zero, the remainder is one modulus up.
LEMMA ModBelow ==
    ASSUME NEW m \in Nat \ {0}, NEW x \in Int, -m <= x, x < 0 PROVE x % m = x + m
OBVIOUS

\* Less than one modulus beyond it, the remainder is one modulus down.
LEMMA ModAbove ==
    ASSUME NEW m \in Nat \ {0}, NEW x \in Int, m <= x, x < 2 * m PROVE x % m = x - m
OBVIOUS

\* A number is its block and its place in the block.
LEMMA DivMod ==
    ASSUME NEW m \in Nat \ {0}, NEW x \in Nat
    PROVE  x \div m \in Nat /\ x % m \in 0 .. m - 1 /\ x = (x \div m) * m + (x % m)
OBVIOUS

\* Two numbers less than m apart lie in the same block of m or in neighbours.
LEMMA NextBlock ==
    ASSUME NEW m \in Nat \ {0}, NEW p \in Nat, NEW q \in Nat,
           NEW s \in 0 .. m - 1, NEW l \in 0 .. m - 1,
           (p * m + s) - (q * m + l) < m, (q * m + l) - (p * m + s) < m
    PROVE  p * m \in {q * m - m, q * m, q * m + m}
OBVIOUS

\* A block that starts before another ends before it.
LEMMA BlockBelow ==
    ASSUME NEW m \in Nat \ {0}, NEW q \in Nat, NEW k \in Nat, q * m < k * m
    PROVE  q * m + m <= k * m
OBVIOUS

\* A candidate a whole wrap away from the right one, also modulo TsMod, is more
\* than half a wrap away from the reference.
LEMMA OthersFar ==
    ASSUME NEW w \in Nat \ {0}, NEW t \in Nat, 4 * w <= t,
           NEW r \in 0 .. t - 1, NEW last \in 0 .. t - 1, 2 * Distance(r, last) < w,
           NEW x \in {r - 2 * w, r - w, r + w, r + 2 * w}
    PROVE  2 * Distance(x % t, last) > w
<1>1. r - last < w /\ last - r < w /\ 2 * (r - last) < w /\ 2 * (last - r) < w
  BY DEF Distance
<1>2. CASE x < 0
  <2>1. x % t = x + t
    BY <1>2, ModBelow
  <2> QED
    BY <1>1, <1>2, <2>1 DEF Distance
<1>3. CASE x \in 0 .. t - 1
  <2>1. x % t = x
    BY <1>3, ModSmall
  <2> QED
    BY <1>1, <2>1 DEF Distance
<1>4. CASE t <= x
  <2>1. x % t = x - t
    <3>1. t \in Nat \ {0} /\ x \in Int /\ x < 2 * t
      OBVIOUS
    <3> QED
      BY <1>4, <3>1, ModAbove
  <2> QED
    BY <1>1, <1>4, <2>1 DEF Distance
<1> QED
  BY <1>2, <1>3, <1>4

\* reconstruct_ts (client.rs:47): a mini-frame less than half a wrap of its 16
\* bits from the reference, before or after it, gets back the timestamp it was
\* sent with, at whatever place of the 32 bits both are.
THEOREM ReconstructRight ==
    ASSUME NEW r \in 0 .. TsMod - 1, NEW last \in 0 .. TsMod - 1,
           2 * Distance(r, last) < Wrap16
    PROVE  Reconstruct(last, r % Wrap16, TRUE) = r
<1>1. TsMod \in Nat \ {0} /\ Wrap16 \in Nat \ {0} /\ 4 * Wrap16 <= TsMod
  BY JitterAssumption, VoiceAssumption
<1> DEFINE w == Wrap16
           cand == (last \div w) * w + (r % w)
           near == <<(cand - w) % TsMod, cand, (cand + w) % TsMod>>
           Best(i) == \A j \in 1 .. 3 :
                        LET di == Distance(near[i], last)
                            dj == Distance(near[j], last)
                        IN di < dj \/ (di = dj /\ i <= j)
<1>2. /\ r \div w \in Nat /\ r % w \in 0 .. w - 1 /\ r = (r \div w) * w + (r % w)
      /\ last \div w \in Nat /\ last % w \in 0 .. w - 1
      /\ last = (last \div w) * w + (last % w)
  <2>1. r \in Nat /\ last \in Nat
    BY <1>1
  <2> HIDE DEF w
  <2> QED
    BY <1>1, <2>1, DivMod DEF w
<1>3. (r - last < w /\ last - r < w)
  BY <1>1 DEF Distance
<1>4. (r \div w) * w \in {(last \div w) * w - w, (last \div w) * w, (last \div w) * w + w}
  BY <1>1, <1>2, <1>3, NextBlock
<1>5. cand \in {r - w, r, r + w} /\ cand \in Int
  BY <1>1, <1>2, <1>4
<1> HIDE DEF cand
<1>6. r % TsMod = r
  BY <1>1, ModSmall
<1>7. \A x \in {r - 2 * w, r - w, r + w, r + 2 * w} : 2 * Distance(x % TsMod, last) > w
  BY <1>1, OthersFar
<1>8. cand % TsMod = cand
  <2>1. TsMod = (TsMod \div w) * w /\ TsMod \div w \in Nat
    <3>1. /\ TsMod \div Wrap16 \in Nat
          /\ TsMod = (TsMod \div Wrap16) * Wrap16 + (TsMod % Wrap16)
      BY <1>1, DivMod
    <3>2. (TsMod \div Wrap16) * Wrap16 \in Nat
      BY <1>1, <3>1
    <3>3. TsMod % Wrap16 = 0
      BY VoiceAssumption
    <3> HIDE DEF w
    <3> QED
      BY <3>1, <3>2, <3>3 DEF w
  <2>2. (last \div w) * w + w <= (TsMod \div w) * w
    BY <1>1, <1>2, <2>1, BlockBelow
  <2>3. 0 <= (last \div w) * w
    BY <1>1, <1>2
  <2>4. 0 <= cand /\ cand < TsMod
    BY <1>1, <1>2, <2>1, <2>2, <2>3 DEF cand
  <2> QED
    BY <1>1, <1>5, <2>4, ModSmall
<1>9. \E i \in 1 .. 3 : near[i] = r
                        /\ \A j \in 1 .. 3 \ {i} : 2 * Distance(near[j], last) > w
  <2>1. CASE cand = r
    <3>1. /\ near[2] = r
          /\ 2 * Distance(near[1], last) > w /\ 2 * Distance(near[3], last) > w
      BY <1>7, <2>1
    <3> QED
      BY <3>1
  <2>2. CASE cand = r - w
    <3>1. cand + w = r /\ cand - w = r - 2 * w
      BY <1>1, <2>2
    <3>2. /\ near[3] = r
          /\ 2 * Distance(near[1], last) > w /\ 2 * Distance(near[2], last) > w
      BY <1>6, <1>7, <1>8, <2>2, <3>1
    <3> QED
      BY <3>2
  <2>3. CASE cand = r + w
    <3>1. cand - w = r /\ cand + w = r + 2 * w
      BY <1>1, <2>3
    <3>2. /\ near[1] = r
          /\ 2 * Distance(near[2], last) > w /\ 2 * Distance(near[3], last) > w
      BY <1>6, <1>7, <1>8, <2>3, <3>1
    <3> QED
      BY <3>2
  <2> QED
    BY <1>5, <2>1, <2>2, <2>3
<1>10. PICK i \in 1 .. 3 : near[i] = r
                           /\ \A j \in 1 .. 3 \ {i} : 2 * Distance(near[j], last) > w
  BY <1>9
<1>11. \A j \in 1 .. 3 : Distance(near[j], last) \in Int
  <2>1. \A j \in 1 .. 3 : near[j] \in Int
    BY <1>1, <1>5
  <2> QED
    BY <2>1 DEF Distance
<1> HIDE DEF near
<1>12. Best(i)
  BY <1>1, <1>10, <1>11
<1>13. \A k \in 1 .. 3 : Best(k) => k = i
  BY <1>1, <1>10, <1>11
<1>14. (CHOOSE k \in 1 .. 3 : Best(k)) = i
  BY <1>12, <1>13
<1>15. Reconstruct(last, r % w, TRUE) = near[CHOOSE k \in 1 .. 3 : Best(k)]
  BY DEF Reconstruct, near, cand
<1> QED
  BY <1>10, <1>14, <1>15

-----------------------------------------------------------------------------
(* The choice of reconstruct_ts, wherever the reference is                 *)

\* A block and a place in it are a number's block and remainder.
LEMMA ModBlock ==
    ASSUME NEW m \in Nat \ {0}, NEW q \in Int, NEW s \in 0 .. m - 1
    PROVE  (q * m + s) % m = s
OBVIOUS

\* Of three numbers one is the least, the first of them where two are.
LEMMA LeastOfThree ==
    ASSUME NEW d, \A i \in 1 .. 3 : d[i] \in Int
    PROVE  \E i \in 1 .. 3 : \A j \in 1 .. 3 : d[i] < d[j] \/ (d[i] = d[j] /\ i <= j)
OBVIOUS

\* What reconstruct_ts chooses is one of three, and the one in the block of the
\* reference is not nearer to it.
LEMMA NearestChoice ==
    ASSUME NEW last \in 0 .. TsMod - 1, NEW s \in 0 .. Wrap16 - 1,
           NEW c, c = (last \div Wrap16) * Wrap16 + s
    PROVE  /\ Reconstruct(last, s, TRUE) \in {(c - Wrap16) % TsMod, c, (c + Wrap16) % TsMod}
           /\ Distance(Reconstruct(last, s, TRUE), last) <= Distance(c, last)
<1>1. /\ TsMod \in Nat \ {0} /\ Wrap16 \in Nat \ {0} /\ last \in Int
      /\ last \div Wrap16 \in Int
  BY JitterAssumption, VoiceAssumption
<1>2. c \in Int
  BY <1>1
<1> DEFINE near == <<(c - Wrap16) % TsMod, c, (c + Wrap16) % TsMod>>
           d == [j \in 1 .. 3 |-> Distance(near[j], last)]
           Best(i) == \A j \in 1 .. 3 :
                        LET di == Distance(near[i], last)
                            dj == Distance(near[j], last)
                        IN di < dj \/ (di = dj /\ i <= j)
<1>3. near[1] \in Int /\ near[2] \in Int /\ near[3] \in Int
  BY <1>1, <1>2
<1>4. Reconstruct(last, s, TRUE) = near[CHOOSE i \in 1 .. 3 : Best(i)]
  BY DEF Reconstruct
<1>5. near[2] = c
  OBVIOUS
<1>6. \A i \in 1 .. 3 : near[i] \in {(c - Wrap16) % TsMod, c, (c + Wrap16) % TsMod}
  OBVIOUS
<1> HIDE DEF near
<1>7. \A j \in 1 .. 3 : d[j] \in Int /\ d[j] = Distance(near[j], last)
  BY <1>1, <1>3 DEF Distance
<1>8. \E i \in 1 .. 3 : Best(i)
  <2>1. PICK i \in 1 .. 3 : \A j \in 1 .. 3 : d[i] < d[j] \/ (d[i] = d[j] /\ i <= j)
    <3> HIDE DEF d
    <3> QED
      BY <1>7, LeastOfThree
  <2>2. Best(i)
    BY <2>1
  <2> QED
    BY <2>2
<1>9. PICK i \in 1 .. 3 : Reconstruct(last, s, TRUE) = near[i] /\ Best(i)
  <2> HIDE DEF Best
  <2> QED
    BY <1>4, <1>8
<1>10. Distance(near[i], last) <= Distance(near[2], last)
  <2>1. Distance(near[i], last) \in Int /\ Distance(near[2], last) \in Int
    BY <1>7
  <2> QED
    BY <1>9, <2>1
<1> QED
  BY <1>5, <1>6, <1>9, <1>10

\* The number chosen is the timestamp or whole wraps before it.
LEMMA ChoiceBefore ==
    ASSUME NEW r \in 0 .. TsMod - 1, NEW last \in 0 .. r, NEW s, s = r % Wrap16
    PROVE  LET cand == (last \div Wrap16) * Wrap16 + s IN
           \A y \in {(cand - Wrap16) % TsMod, cand, (cand + Wrap16) % TsMod} :
              Distance(y, last) <= Distance(cand, last)
                => y \in 0 .. r /\ y % Wrap16 = s
<1> SUFFICES ASSUME NEW cand, cand = (last \div Wrap16) * Wrap16 + s,
                    NEW y \in {(cand - Wrap16) % TsMod, cand, (cand + Wrap16) % TsMod},
                    Distance(y, last) <= Distance(cand, last)
             PROVE  y \in 0 .. r /\ y % Wrap16 = s
  BY Zenon
<1>1. /\ TsMod \in Nat \ {0} /\ Wrap16 \in Nat \ {0} /\ 4 * Wrap16 <= TsMod
      /\ r \in Nat /\ last \in Nat
  BY JitterAssumption, VoiceAssumption
<1>2. PICK p \in Nat, q \in Nat, k \in Nat :
        /\ r = p * Wrap16 + s /\ s \in 0 .. Wrap16 - 1
        /\ q = last \div Wrap16 /\ last \in q * Wrap16 .. q * Wrap16 + Wrap16 - 1
        /\ TsMod = k * Wrap16
  <2>1. r \div Wrap16 \in Nat /\ s \in 0 .. Wrap16 - 1 /\ r = (r \div Wrap16) * Wrap16 + s
    BY <1>1, DivMod
  <2>2. /\ last \div Wrap16 \in Nat /\ last % Wrap16 \in 0 .. Wrap16 - 1
        /\ last = (last \div Wrap16) * Wrap16 + (last % Wrap16)
    BY <1>1, DivMod
  <2>3. /\ TsMod \div Wrap16 \in Nat
        /\ TsMod = (TsMod \div Wrap16) * Wrap16 + (TsMod % Wrap16)
    BY <1>1, DivMod
  <2>4. TsMod = (TsMod \div Wrap16) * Wrap16
    BY <1>1, <2>3, VoiceAssumption
  <2>5. last \in (last \div Wrap16) * Wrap16 .. (last \div Wrap16) * Wrap16 + Wrap16 - 1
    BY <1>1, <2>2
  <2> QED
    BY <2>1, <2>2, <2>3, <2>4, <2>5
<1> SUFFICES ASSUME NEW b \in Nat, b = q * Wrap16, NEW c \in Nat, c = p * Wrap16
             PROVE  y \in 0 .. r /\ y % Wrap16 = s
  BY <1>1
<1>3. b + Wrap16 <= TsMod
  <2>1. q * Wrap16 < k * Wrap16
    BY <1>1, <1>2
  <2> QED
    BY <1>1, <1>2, <2>1, BlockBelow
<1>4. c = b \/ b + Wrap16 <= c
  <2>1. c < b => c + Wrap16 <= b
    BY <1>1, BlockBelow
  <2>2. b < c => b + Wrap16 <= c
    BY <1>1, BlockBelow
  <2> QED
    BY <1>1, <1>2, <2>1, <2>2
<1>5. cand = b + s
  BY <1>2
<1>6. y \in {cand - Wrap16, cand, cand + Wrap16} /\ y \in 0 .. c + s
  <2>1. /\ last \in b .. b + Wrap16 - 1 /\ last <= c + s /\ c + s < TsMod
        /\ s \in 0 .. Wrap16 - 1
    BY <1>1, <1>2
  <2>2. /\ Wrap16 \in Nat \ {0} /\ TsMod \in Nat /\ 4 * Wrap16 <= TsMod /\ last \in Nat
        /\ cand = b + s /\ b + Wrap16 <= TsMod /\ (c = b \/ b + Wrap16 <= c)
    BY <1>1, <1>3, <1>4, <1>5
  <2> USE <2>2, <2>1
  <2>3. cand \in Nat
    OBVIOUS
  <2>4. CASE y = cand
    BY <2>3, <2>4
  <2>5. CASE y = (cand - Wrap16) % TsMod
    <3>1. CASE cand - Wrap16 < 0
      <4>1. /\ TsMod \in Nat \ {0} /\ cand - Wrap16 \in Int
            /\ -TsMod <= cand - Wrap16 /\ cand - Wrap16 < 0
        BY <2>3, <3>1
      <4>2. y = (cand - Wrap16) + TsMod
        BY ONLY <2>5, <4>1, ModBelow, Zenon
      <4> QED
        BY <3>1, <4>2 DEF Distance
    <3>2. CASE 0 <= cand - Wrap16
      <4>1. TsMod \in Nat \ {0}
        OBVIOUS
      <4>2. cand - Wrap16 \in 0 .. TsMod - 1
        BY <3>2
      <4>3. y = cand - Wrap16
        BY ONLY <2>2, <2>5, <4>1, <4>2, ModSmall, Zenon
      <4> QED
        BY <3>2, <4>3
    <3> QED
      BY <3>1, <3>2
  <2>6. CASE y = (cand + Wrap16) % TsMod
    <3>1. CASE TsMod <= cand + Wrap16
      <4>1. cand + Wrap16 \in Int /\ TsMod \in Nat \ {0} /\ cand + Wrap16 < 2 * TsMod
        OBVIOUS
      <4>2. (cand + Wrap16) % TsMod = (cand + Wrap16) - TsMod
        BY <3>1, <4>1, ModAbove
      <4>3. y = cand + Wrap16 - TsMod
        BY <2>6, <4>2
      <4> QED
        BY <3>1, <4>3 DEF Distance
    <3>2. CASE cand + Wrap16 < TsMod
      <4>1. TsMod \in Nat \ {0}
        OBVIOUS
      <4>2. cand + Wrap16 \in 0 .. TsMod - 1
        BY <3>2
      <4>3. y = cand + Wrap16
        BY ONLY <2>6, <4>1, <4>2, ModSmall, Zenon
      <4> QED
        BY <3>2, <4>3 DEF Distance
    <3> QED
      BY <3>1, <3>2
  <2> QED
    BY <2>4, <2>5, <2>6
<1>7. b - Wrap16 = (q - 1) * Wrap16 /\ b + Wrap16 = (q + 1) * Wrap16
  BY <1>1
<1>8. PICK h \in Int : y = h * Wrap16 + s
  <2>1. q - 1 \in Int /\ q \in Int /\ q + 1 \in Int
    OBVIOUS
  <2>2. CASE y = cand
    BY <1>1, <1>5, <2>1, <2>2
  <2>3. CASE y = cand - Wrap16
    <3>1. cand - Wrap16 = (b - Wrap16) + s
      BY <1>1, <1>2, <1>5
    <3>2. y = (q - 1) * Wrap16 + s
      BY <1>7, <2>3, <3>1, Zenon
    <3> QED
      BY <2>1, <3>2
  <2>4. CASE y = cand + Wrap16
    <3>1. cand + Wrap16 = (b + Wrap16) + s
      BY <1>1, <1>2, <1>5
    <3>2. y = (q + 1) * Wrap16 + s
      BY <1>7, <2>4, <3>1, Zenon
    <3> QED
      BY <2>1, <3>2
  <2> QED
    BY <1>6, <2>2, <2>3, <2>4
<1>9. y % Wrap16 = s
  BY <1>1, <1>2, <1>8, ModBlock
<1> QED
  BY <1>2, <1>6, <1>9

\* However old the reference, a frame is placed at its own timestamp or whole
\* wraps before it, never after it.
LEMMA NeverAhead ==
    ASSUME NEW r \in 0 .. TsMod - 1, NEW last \in 0 .. TsMod - 1,
           2 * (last - r) < Wrap16
    PROVE  /\ Reconstruct(last, r % Wrap16, TRUE) \in 0 .. r
           /\ Reconstruct(last, r % Wrap16, TRUE) % Wrap16 = r % Wrap16
<1>1. /\ TsMod \in Nat \ {0} /\ Wrap16 \in Nat \ {0} /\ r \in Nat /\ last \in Nat
  BY JitterAssumption, VoiceAssumption
<1>2. CASE r < last
  <2>1. 2 * Distance(r, last) < Wrap16
    BY <1>1, <1>2 DEF Distance
  <2>2. r \in 0 .. r
    BY <1>1
  <2> QED
    BY <2>1, <2>2, ReconstructRight, Zenon
<1>3. CASE last <= r
  <2>1. last \in 0 .. r /\ r % Wrap16 \in 0 .. Wrap16 - 1
    BY <1>1, <1>3
  <2> DEFINE cand == (last \div Wrap16) * Wrap16 + (r % Wrap16)
  <2>2. /\ Reconstruct(last, r % Wrap16, TRUE)
             \in {(cand - Wrap16) % TsMod, cand, (cand + Wrap16) % TsMod}
        /\ Distance(Reconstruct(last, r % Wrap16, TRUE), last) <= Distance(cand, last)
    BY ONLY <2>1, last \in 0 .. TsMod - 1, NearestChoice, Zenon
  <2>3. \A y \in {(cand - Wrap16) % TsMod, cand, (cand + Wrap16) % TsMod} :
           Distance(y, last) <= Distance(cand, last)
             => y \in 0 .. r /\ y % Wrap16 = r % Wrap16
    BY <2>1, ChoiceBefore, ZenonT(60)
  <2> HIDE DEF cand
  <2> QED
    BY <2>2, <2>3, Zenon
<1>4. r < last \/ last <= r
  BY <1>1
<1> QED
  BY <1>2, <1>3, <1>4, Zenon
-----------------------------------------------------------------------------
(* The voice path                                                          *)

SentTs == {p.ts : p \in network}
Upto(x) == {t \in SentTs : t <= x}

\* The far end's timestamp of its latest frame, while it has sent any.
LastSent == clock - FrameMs * (IF farDone THEN quiet ELSE quiet + 1)

\* How far the voice runs on while n frames in a row do not arrive.
Reach(n) == FrameMs * (MaxDelay + n * (MaxSilence + 1))

\* From r to any frame under way there are only frames under way and lost ones.
Chain(r) ==
    /\ \A p \in network : p.ts - r <= Reach(losses + Cardinality(Upto(p.ts)))
    /\ LastSent - r <= Reach(losses + Cardinality(SentTs))

\* The far end's clock and what it says of the frames under way.
Timely ==
    /\ clock \in 0 .. TsMod - 1 /\ quiet \in 0 .. MaxSilence /\ losses \in 0 .. MaxLoss
    /\ {sentFormat, farDone} \subseteq BOOLEAN
    /\ farDone => sentFormat
    /\ network \subseteq [ts : Nat, full : BOOLEAN, age : 0 .. MaxDelay]
    /\ \A p \in network : /\ p.ts + FrameMs * p.age = clock
                          /\ p.ts <= LastSent

Reference == voiceTsSeen \in BOOLEAN /\ lastVoiceTs \in 0 .. clock

\* The reference is a number of whole wraps below where it was spoken.
SameWrap(r) == lastVoiceTs <= r /\ r % Wrap16 = lastVoiceTs % Wrap16

\* What is buffered was placed r - lastVoiceTs below where it was spoken, whole
\* wraps; only what was placed within the network's delay of 0 may differ, and
\* what was there before a full VOICE that it overtook.
Placed(r) ==
    /\ SameWrap(r)
    /\ \A t \in frames \ stray : t < FrameMs * MaxDelay \/ born[t] - t = r - lastVoiceTs

Placement ==
    frames # {} =>
      /\ heldHere = FALSE /\ voiceTsSeen
      /\ \A t \in frames : t \in Nat /\ born[t] \in 0 .. clock
      /\ \E r \in 0 .. clock : Placed(r) /\ Chain(r)

VoiceInv == Timely /\ Reference /\ heldHere \in BOOLEAN /\ Placement

\* The constants' types.
LEMMA VoiceConstants ==
    /\ FrameMs \in Nat \ {0} /\ TsMod \in Nat \ {0} /\ Wrap16 \in Nat \ {0}
    /\ MaxDelay \in Nat /\ MaxSilence \in Nat /\ MaxLoss \in Nat /\ ClockMax \in Nat
    /\ FrameMs * MaxDelay \in Nat
BY JitterAssumption, VoiceAssumption

\* One more frame missing is one more silence; the reach grows with the number.
LEMMA ReachStep ==
    ASSUME NEW n \in Nat
    PROVE  /\ Reach(n) \in Nat /\ FrameMs * MaxDelay <= Reach(n)
           /\ Reach(n + 1) = Reach(n) + FrameMs * (MaxSilence + 1)
<1>1. /\ FrameMs \in Nat /\ MaxDelay \in Nat /\ MaxSilence + 1 \in Nat
      /\ n * (MaxSilence + 1) \in Nat
  BY VoiceConstants
<1>2. (n + 1) * (MaxSilence + 1) = n * (MaxSilence + 1) + (MaxSilence + 1)
  BY <1>1
<1>3. \A a, b, c \in Nat : a * (b + c) = a * b + a * c /\ a * b \in Nat
  OBVIOUS
<1>4. Reach(n) = FrameMs * MaxDelay + FrameMs * (n * (MaxSilence + 1))
  BY <1>1, <1>3 DEF Reach
<1>5. Reach(n + 1) = FrameMs * ((MaxDelay + n * (MaxSilence + 1)) + (MaxSilence + 1))
  BY <1>1, <1>2 DEF Reach
<1>6. MaxDelay + n * (MaxSilence + 1) \in Nat
  BY <1>1
<1>7. Reach(n + 1) = Reach(n) + FrameMs * (MaxSilence + 1)
  BY <1>1, <1>3, <1>5, <1>6 DEF Reach
<1>8. Reach(n) \in Nat /\ FrameMs * MaxDelay <= Reach(n)
  BY <1>1, <1>3, <1>4
<1> QED
  BY <1>7, <1>8

\* More frames missing reach further.
LEMMA ReachMonotone ==
    ASSUME NEW m \in Nat, NEW n \in Nat, m <= n
    PROVE  Reach(m) <= Reach(n)
<1>1. FrameMs \in Nat /\ MaxDelay \in Nat /\ MaxSilence + 1 \in Nat
  BY VoiceConstants
<1>2. \A a, b, c \in Nat : a <= b => c * a <= c * b /\ a * c <= b * c /\ a * c \in Nat
  OBVIOUS
<1>3. m * (MaxSilence + 1) <= n * (MaxSilence + 1)
  BY <1>1, <1>2
<1>4. /\ MaxDelay + m * (MaxSilence + 1) \in Nat /\ MaxDelay + n * (MaxSilence + 1) \in Nat
      /\ MaxDelay + m * (MaxSilence + 1) <= MaxDelay + n * (MaxSilence + 1)
  BY <1>1, <1>2, <1>3
<1> QED
  BY <1>1, <1>2, <1>4 DEF Reach

\* A delay beyond the longest reach is still within the gap assumed.
LEMMA ReachWithinGap ==
    2 * (Reach(MaxLoss + 1) + FrameMs * MaxDelay) < Wrap16
<1>1. /\ FrameMs \in Nat /\ MaxDelay \in Nat
      /\ (MaxLoss + 1) * (MaxSilence + 1) \in Nat
  BY VoiceConstants
<1>2. \A a, b, c \in Nat : /\ a * (b + c) + a * b = a * (c + 2 * b)
                           /\ a * b <= a * (c + 2 * b)
                           /\ a * b \in Nat /\ a * (c + 2 * b) \in Nat
                           /\ 2 * a * b = 2 * (a * b)
  OBVIOUS
<1>3. /\ Reach(MaxLoss + 1) + FrameMs * MaxDelay = FrameMs * Gap
      /\ FrameMs * Gap \in Nat /\ FrameMs * MaxDelay \in Nat
  BY <1>1, <1>2 DEF Reach, Gap
<1>4. Gap \in Nat
  BY <1>1 DEF Gap
<1>5. 2 * FrameMs * Gap = 2 * (FrameMs * Gap)
  BY <1>1, <1>2, <1>4
<1>6. 2 * (FrameMs * Gap) < Wrap16
  BY <1>5, GapAssumption
<1> HIDE DEF Gap
<1> QED
  BY <1>3, <1>6

\* A frame under way was spoken within the network's delay.
LEMMA UnderWay ==
    ASSUME Timely, NEW p \in network
    PROVE  /\ p.ts \in Nat /\ p.full \in BOOLEAN /\ p.age \in 0 .. MaxDelay
           /\ p.ts \in 0 .. clock /\ clock <= p.ts + FrameMs * MaxDelay
<1>1. p \in [ts : Nat, full : BOOLEAN, age : 0 .. MaxDelay] /\ p.ts + FrameMs * p.age = clock
  BY DEF Timely
<1>2. \A a, b, c \in Nat : a <= b => c * a <= c * b /\ c * a \in Nat
  OBVIOUS
<1>3. p.ts \in Nat /\ p.full \in BOOLEAN /\ p.age \in 0 .. MaxDelay
  BY <1>1
<1>4. p.age \in Nat /\ p.age <= MaxDelay
  BY <1>3
<1>5. FrameMs * p.age <= FrameMs * MaxDelay /\ FrameMs * p.age \in Nat
  BY <1>2, <1>4, VoiceConstants
<1>6. p.ts \in 0 .. clock /\ clock <= p.ts + FrameMs * MaxDelay
  BY <1>1, <1>3, <1>5, VoiceConstants
<1> QED
  BY <1>3, <1>6

\* The frames under way have finitely many timestamps.
LEMMA SentFinite ==
    ASSUME Timely
    PROVE  /\ IsFiniteSet(SentTs) /\ SentTs \subseteq Nat /\ Cardinality(SentTs) \in Nat
           /\ \A x : IsFiniteSet(Upto(x)) /\ Cardinality(Upto(x)) \in Nat
<1>1. SentTs \subseteq 0 .. clock
  BY UnderWay, Zenon DEF SentTs
<1>2. IsFiniteSet(0 .. clock) /\ 0 .. clock \subseteq Nat
  BY FS_Interval DEF Timely
<1>3. IsFiniteSet(SentTs)
  BY <1>1, <1>2, FS_Subset, Zenon
<1>4. \A x : IsFiniteSet(Upto(x))
  BY <1>3, FS_Subset, Zenon DEF Upto
<1> QED
  BY <1>1, <1>2, <1>3, <1>4, FS_CardinalityType, Zenon

\* The next frame to arrive is within half a wrap of the reference, wherever
\* the frames that were lost, held back or overtaken leave it.
LEMMA NearReference ==
    ASSUME Timely, NEW r \in 0 .. clock, Chain(r), NEW p \in network
    PROVE  2 * (p.ts - r) < Wrap16 /\ 2 * (r - p.ts) < Wrap16
<1>1. /\ p.ts \in Nat /\ clock \in Nat /\ p.ts <= clock
      /\ clock <= p.ts + FrameMs * MaxDelay /\ p.ts \in SentTs
  BY UnderWay DEF SentTs, Timely
<1>2. PICK o \in SentTs : \A t \in SentTs : o <= t
  BY <1>1, SentFinite, LeastExists
<1>3. PICK q \in network : o = q.ts
  BY <1>2 DEF SentTs
<1>4. o \in Nat /\ o <= p.ts /\ clock <= o + FrameMs * MaxDelay
  BY <1>1, <1>2, <1>3, UnderWay
<1>5. Upto(o) = {o}
  <2>1. \A t \in SentTs : t \in Nat /\ o <= t
    BY <1>2, SentFinite
  <2>2. \A t \in SentTs : t <= o => t = o
    BY <1>4, <2>1
  <2>3. o \in SentTs /\ o <= o
    BY <1>4
  <2> QED
    BY <2>2, <2>3, Zenon DEF Upto
<1>6. Cardinality(Upto(o)) = 1
  BY <1>5, FS_Singleton
<1>7. losses \in Nat /\ losses + 1 <= MaxLoss + 1 /\ MaxLoss + 1 \in Nat
  BY VoiceConstants DEF Timely
<1>8. o - r <= Reach(losses + 1)
  BY <1>3, <1>6 DEF Chain
<1>9. Reach(losses + 1) <= Reach(MaxLoss + 1) /\ Reach(losses + 1) \in Nat
      /\ Reach(MaxLoss + 1) \in Nat /\ FrameMs * MaxDelay \in Nat
  <2>1. losses + 1 \in Nat
    BY <1>7
  <2> QED
    BY <1>7, <2>1, ReachMonotone, ReachStep, VoiceConstants, Zenon
<1>10. p.ts - r <= Reach(MaxLoss + 1) + FrameMs * MaxDelay
       /\ r - p.ts <= Reach(MaxLoss + 1) + FrameMs * MaxDelay
  BY <1>1, <1>4, <1>8, <1>9
<1>11. p.ts - r \in Int /\ r - p.ts \in Int /\ Wrap16 \in Nat
  BY <1>1, VoiceConstants
<1> HIDE DEF Reach
<1> QED
  BY <1>9, <1>10, <1>11, ReachWithinGap

\* What a step keeps of the frames under way, it keeps of the chain.
LEMMA ChainKept ==
    ASSUME UNCHANGED <<network, losses>>, LastSent' = LastSent, NEW r, Chain(r)
    PROVE  Chain(r)'
BY DEF Chain, SentTs, Upto

\* What leaves the buffer leaves the rest where it was placed.
LEMMA PlacementKept ==
    ASSUME Placement, frames' \subseteq frames, frames' \ stray' \subseteq frames \ stray,
           \A t \in frames' : born'[t] = born[t], heldHere' = heldHere,
           UNCHANGED <<lastVoiceTs, voiceTsSeen>>,
           clock' \in Nat, clock \in Nat, clock <= clock',
           \A r \in 0 .. clock : Chain(r) => Chain(r)'
    PROVE  Placement'
<1>1. CASE frames' = {}
  BY <1>1 DEF Placement
<1>2. CASE frames' # {}
  <2>1. /\ heldHere = FALSE /\ voiceTsSeen
        /\ \A t \in frames : t \in Nat /\ born[t] \in 0 .. clock
    BY <1>2 DEF Placement
  <2>2. PICK r \in 0 .. clock : Placed(r) /\ Chain(r)
    BY <1>2 DEF Placement
  <2>3. \A t \in frames' : t \in Nat /\ born'[t] \in 0 .. clock'
    BY <2>1
  <2>4. r \in 0 .. clock'
    OBVIOUS
  <2>5. Placed(r)'
    <3>1. \A t \in frames' \ stray' : t \in frames \ stray /\ born'[t] = born[t]
      OBVIOUS
    <3> QED
      BY <2>2, <3>1, Zenon DEF Placed, SameWrap
  <2>6. Chain(r)'
    BY <2>2, Zenon
  <2>7. heldHere' = FALSE /\ voiceTsSeen'
    BY <2>1, Zenon
  <2> QED
    BY <2>3, <2>4, <2>5, <2>6, <2>7, Zenon DEF Placement
<1> QED
  BY <1>1, <1>2

\* What leaves the network leaves a finite rest.
LEMMA FewerSent ==
    ASSUME Timely, network' \subseteq network
    PROVE  /\ SentTs' \subseteq SentTs /\ Cardinality(SentTs)' \in Nat
           /\ \A x : IsFiniteSet(Upto(x)') /\ Cardinality(Upto(x))' \in Nat
<1>1. SentTs' \subseteq SentTs
  BY DEF SentTs
<1>2. \A x : Upto(x)' \subseteq SentTs
  BY <1>1, Zenon DEF Upto
<1>3. IsFiniteSet(SentTs') /\ \A x : IsFiniteSet(Upto(x)')
  BY <1>1, <1>2, SentFinite, FS_Subset, Zenon
<1> QED
  BY <1>1, <1>3, FS_CardinalityType, Zenon

\* A mini-frame or a full one is the next of the chain, at whatever place.
LEMMA ChainRestarts ==
    ASSUME Timely, NEW p \in network, network' \subseteq network,
           UNCHANGED <<farEnd, losses>>
    PROVE  Chain(p.ts)'
<1> DEFINE D == FrameMs * MaxDelay
<1>1. clock \in Nat /\ D \in Nat
  BY VoiceConstants DEF Timely
<1>2. p.ts \in Nat /\ clock \in Nat /\ clock <= p.ts + D /\ D \in Nat
  BY <1>1, UnderWay
<1>3. losses' \in Nat /\ Cardinality(SentTs)' \in Nat /\ \A x : Cardinality(Upto(x))' \in Nat
  <2>1. losses' \in Nat
    BY DEF Timely
  <2> QED
    BY <2>1, FewerSent, Zenon
<1>4. \A n \in Nat : Reach(n) \in Nat /\ D <= Reach(n)
  BY ReachStep
<1>5. \A q \in network : q.ts \in Nat /\ q.ts <= clock
  BY UnderWay
<1>6. LastSent' = LastSent /\ LastSent \in Int /\ LastSent <= clock
  <2>1. (IF farDone THEN quiet ELSE quiet + 1) \in Nat
    BY DEF Timely
  <2>2. \A n \in Nat : FrameMs * n \in Nat
    BY VoiceConstants
  <2>3. LastSent \in Int /\ LastSent <= clock
    BY <1>2, <2>1, <2>2 DEF LastSent
  <2> QED
    BY <2>3 DEF LastSent, farEnd
<1> HIDE DEF D
<1>7. \A q \in network' : q.ts - p.ts <= Reach(losses' + Cardinality(Upto(q.ts))')
  <2> TAKE q \in network'
  <2>1. q.ts - p.ts <= D
    BY <1>2, <1>5
  <2>2. losses' + Cardinality(Upto(q.ts))' \in Nat
    BY <1>3
  <2>3. /\ D <= Reach(losses' + Cardinality(Upto(q.ts))')
        /\ Reach(losses' + Cardinality(Upto(q.ts))') \in Nat
    BY <1>4, <2>2
  <2> QED
    BY <1>2, <1>5, <2>1, <2>3
<1>8. LastSent' - p.ts <= Reach(losses' + Cardinality(SentTs)')
  <2>1. losses' + Cardinality(SentTs)' \in Nat
    BY <1>3
  <2>2. /\ D <= Reach(losses' + Cardinality(SentTs)')
        /\ Reach(losses' + Cardinality(SentTs)') \in Nat
    BY <1>4, <2>1
  <2> QED
    BY <1>2, <1>6, <2>2
<1> QED
  BY <1>7, <1>8 DEF Chain

\* The bare 16 bits of a timestamp are a number of whole wraps below it.
LEMMA BareBits ==
    ASSUME NEW n \in Nat
    PROVE  n % Wrap16 \in 0 .. n /\ (n % Wrap16) % Wrap16 = n % Wrap16
<1>1. /\ Wrap16 \in Nat \ {0} /\ n \div Wrap16 \in Nat /\ n % Wrap16 \in 0 .. Wrap16 - 1
      /\ n = (n \div Wrap16) * Wrap16 + (n % Wrap16)
  BY VoiceConstants, DivMod
<1>2. (n \div Wrap16) * Wrap16 \in Nat
  BY <1>1
<1>3. (n % Wrap16) % Wrap16 = n % Wrap16
  BY <1>1, ModSmall
<1> QED
  BY <1>1, <1>2, <1>3

\* A wrap or more below its reference a number keeps its 16 bits.
LEMMA ShiftMod ==
    ASSUME NEW r \in Nat, NEW l \in 0 .. r, r % Wrap16 = l % Wrap16,
           NEW c \in Nat, c - (r - l) >= 0
    PROVE  (c - (r - l)) % Wrap16 = c % Wrap16
<1>1. Wrap16 \in Nat \ {0} /\ l \in Nat
  BY VoiceConstants
<1>2. PICK i \in Nat, j \in Nat, k \in Nat, a \in 0 .. Wrap16 - 1, s \in 0 .. Wrap16 - 1 :
        /\ r = i * Wrap16 + a /\ l = j * Wrap16 + a
        /\ c = k * Wrap16 + s /\ s = c % Wrap16
  <2>1. /\ r \div Wrap16 \in Nat /\ r % Wrap16 \in 0 .. Wrap16 - 1
        /\ r = (r \div Wrap16) * Wrap16 + (r % Wrap16)
    BY <1>1, DivMod
  <2>2. /\ l \div Wrap16 \in Nat /\ l = (l \div Wrap16) * Wrap16 + (l % Wrap16)
    BY <1>1, DivMod
  <2>3. /\ c \div Wrap16 \in Nat /\ c % Wrap16 \in 0 .. Wrap16 - 1
        /\ c = (c \div Wrap16) * Wrap16 + (c % Wrap16)
    BY <1>1, DivMod
  <2> QED
    BY <2>1, <2>2, <2>3, Zenon
<1>3. (k - (i - j)) * Wrap16 = k * Wrap16 - (i * Wrap16 - j * Wrap16) /\ k - (i - j) \in Int
  BY <1>1
<1>4. i * Wrap16 \in Nat /\ j * Wrap16 \in Nat /\ k * Wrap16 \in Nat
  BY <1>1
<1>5. c - (r - l) = (k - (i - j)) * Wrap16 + s
  BY <1>1, <1>2, <1>3, <1>4
<1>6. ((k - (i - j)) * Wrap16 + s) % Wrap16 = s
  BY <1>1, <1>2, <1>3, ModBlock
<1> QED
  BY <1>2, <1>5, <1>6

\* The frames in the buffer after a push are those before it and the new one.
LEMMA PushedFrames ==
    ASSUME NEW ts, Push(ts)
    PROVE  frames' \subseteq frames \cup {ts}
BY DEF Push, PushLate, PushResync, PushKept, Insert

\* What a frame that is heard leaves of the misplaced ones.
LEMMA HeardStray ==
    ASSUME NEW ts, NEW p, Hear(ts, p)
    PROVE  /\ stray' \subseteq frames' \ {ts}
           /\ \A t \in frames' \ stray' : t = ts \/ (t \in frames \ stray /\ ~Contradicts(p))
<1>1. frames' \subseteq frames \cup {ts}
  BY PushedFrames DEF Hear
<1>2. stray' = (IF Contradicts(p) THEN frames \cap frames' ELSE stray \cap frames') \ {ts}
  BY DEF Hear
<1>3. CASE Contradicts(p)
  BY <1>1, <1>2, <1>3
<1>4. CASE ~Contradicts(p)
  BY <1>1, <1>2, <1>4
<1> QED
  BY <1>3, <1>4

\* A frame that arrives and is placed at l' keeps what is buffered together.
LEMMA HeardPlacement ==
    ASSUME VoiceInv, NEW p \in network, Hear(lastVoiceTs', p),
           heldHere = FALSE, heldHere' = FALSE, voiceTsSeen' = TRUE,
           UNCHANGED <<farEnd, losses>>, network' = network \ {p},
           lastVoiceTs' \in 0 .. p.ts, lastVoiceTs' % Wrap16 = p.ts % Wrap16,
           Contradicts(p)
             \/ \A t \in frames \ stray :
                    t < FrameMs * MaxDelay \/ born[t] - t = p.ts - lastVoiceTs'
    PROVE  Placement'
<1>1. /\ p.ts \in 0 .. clock /\ clock \in Nat /\ clock' = clock /\ lastVoiceTs' \in Nat
      /\ lastVoiceTs' <= p.ts /\ p.ts \in Nat
  BY UnderWay DEF VoiceInv, Timely, farEnd
<1>2. frames' \subseteq frames \cup {lastVoiceTs'}
  BY PushedFrames DEF Hear
<1>3. \A t \in frames' : born'[t] = IF t = lastVoiceTs' THEN p.ts ELSE born[t]
  BY DEF Hear
<1>4. \A t \in frames : t \in Nat /\ born[t] \in 0 .. clock
  BY DEF VoiceInv, Placement
<1>5. \A t \in frames' : t \in Nat /\ born'[t] \in 0 .. clock'
  BY <1>1, <1>2, <1>3, <1>4
<1>6. ASSUME NEW t \in frames' \ stray'
      PROVE  t < FrameMs * MaxDelay \/ born'[t] - t = p.ts - lastVoiceTs'
  <2>1. CASE t = lastVoiceTs'
    BY <1>3, <2>1
  <2>2. CASE t # lastVoiceTs'
    <3>1. t \in frames \ stray /\ ~Contradicts(p) /\ born'[t] = born[t]
      BY <1>2, <1>3, <2>2, HeardStray
    <3>2. t < FrameMs * MaxDelay \/ born[t] - t = p.ts - lastVoiceTs'
      BY <3>1, Zenon
    <3> QED
      BY <3>1, <3>2
  <2> QED
    BY <2>1, <2>2
<1>7. Chain(p.ts)'
  BY ChainRestarts DEF VoiceInv
<1>8. Placed(p.ts)'
  BY <1>1, <1>6 DEF Placed, SameWrap
<1>9. p.ts \in 0 .. clock'
  BY <1>1
<1> QED
  BY <1>5, <1>7, <1>8, <1>9, Zenon DEF Placement

\* A mini-frame, or a full VOICE that does not contradict the reference, is
\* placed with the offset of what is buffered, unless that offset leaves no
\* number for it: what is buffered is then close to 0.
LEMMA NearestPlaced ==
    ASSUME VoiceInv, voiceTsSeen, NEW p \in network, NEW x,
           x = Reconstruct(lastVoiceTs, p.ts % Wrap16, TRUE)
    PROVE  /\ x \in 0 .. p.ts /\ x % Wrap16 = p.ts % Wrap16
           /\ \A t \in frames \ stray : t < FrameMs * MaxDelay \/ born[t] - t = p.ts - x
           /\ \A r \in 0 .. clock : SameWrap(r) /\ Chain(r) /\ r - lastVoiceTs <= p.ts
                                     => p.ts - x = r - lastVoiceTs
<1>1. /\ p.ts \in Nat /\ p.ts <= clock /\ clock <= p.ts + FrameMs * MaxDelay
      /\ clock \in Nat /\ clock <= TsMod - 1 /\ lastVoiceTs \in Nat /\ lastVoiceTs <= clock
      /\ FrameMs * MaxDelay \in Nat /\ TsMod \in Nat /\ Wrap16 \in Nat
  <2>1. clock \in 0 .. TsMod - 1 /\ lastVoiceTs \in 0 .. clock
    BY DEF VoiceInv, Timely, Reference
  <2>2. p.ts \in 0 .. clock /\ clock <= p.ts + FrameMs * MaxDelay
    BY UnderWay DEF VoiceInv
  <2> QED
    BY <2>1, <2>2, VoiceConstants
<1>2. 2 * (FrameMs * MaxDelay) < Wrap16
  <2>1. MaxLoss + 1 \in Nat
    BY VoiceConstants
  <2>2. Reach(MaxLoss + 1) \in Nat
    BY <2>1, ReachStep
  <2> QED
    BY <1>1, <2>2, ReachWithinGap
<1>3. x \in 0 .. p.ts /\ x % Wrap16 = p.ts % Wrap16
  <2>1. /\ p.ts \in 0 .. TsMod - 1 /\ lastVoiceTs \in 0 .. TsMod - 1
        /\ 2 * (lastVoiceTs - p.ts) < Wrap16
    BY <1>1, <1>2
  <2> QED
    BY <2>1, NeverAhead, Zenon
<1>4. ASSUME NEW r \in 0 .. clock, SameWrap(r), Chain(r), r - lastVoiceTs <= p.ts
      PROVE  p.ts - x = r - lastVoiceTs
  <2>1. r \in Nat /\ r <= clock /\ lastVoiceTs <= r /\ r % Wrap16 = lastVoiceTs % Wrap16
    BY <1>1, <1>4 DEF SameWrap
  <2>2. 2 * (p.ts - r) < Wrap16 /\ 2 * (r - p.ts) < Wrap16
    BY <1>4, NearReference DEF VoiceInv
  <2> DEFINE y == p.ts - (r - lastVoiceTs)
  <2>3. y >= 0 /\ y \in 0 .. TsMod - 1
    BY <1>1, <1>4, <2>1
  <2>4. y % Wrap16 = p.ts % Wrap16
    <3>1. r \in Nat /\ lastVoiceTs \in 0 .. r /\ p.ts \in Nat
      BY <1>1, <2>1
    <3> QED
      BY <2>1, <2>3, <3>1, ShiftMod, Zenon
  <2>5. 2 * Distance(y, lastVoiceTs) < Wrap16
    BY <1>1, <2>1, <2>2 DEF Distance
  <2>6. lastVoiceTs \in 0 .. TsMod - 1
    BY <1>1
  <2>7. x = y
    <3> HIDE DEF y
    <3>1. Reconstruct(lastVoiceTs, y % Wrap16, TRUE) = y
      BY <2>3, <2>5, <2>6, ReconstructRight, Zenon
    <3> QED
      BY <2>4, <3>1, Zenon
  <2>8. p.ts - y = r - lastVoiceTs
    BY <1>1, <2>1
  <2> HIDE DEF y
  <2> QED
    BY <2>7, <2>8, Zenon
<1>5. ASSUME NEW t \in frames \ stray, ~(t < FrameMs * MaxDelay)
      PROVE  born[t] - t = p.ts - x
  <2>1. t \in Nat /\ born[t] \in 0 .. clock
    BY DEF VoiceInv, Placement
  <2>2. PICK r \in 0 .. clock : Placed(r) /\ Chain(r)
    BY <1>5 DEF VoiceInv, Placement
  <2>3. SameWrap(r) /\ born[t] - t = r - lastVoiceTs
    BY <1>5, <2>2 DEF Placed, SameWrap
  <2>4. r - lastVoiceTs <= p.ts
    BY <1>1, <1>5, <2>1, <2>3
  <2> QED
    BY <1>4, <2>2, <2>3, <2>4, Zenon
<1> QED
  BY <1>3, <1>4, <1>5, Zenon

\* A frame that arrives only leaves the network.
LEMMA LeavesNetwork ==
    ASSUME Timely, NEW p \in network, network' = network \ {p},
           UNCHANGED farEnd, losses' \in 0 .. MaxLoss
    PROVE  Timely'
<1>1. LastSent' = LastSent
  BY DEF LastSent, farEnd
<1>2. \A q \in network' : /\ q.ts + FrameMs * q.age = clock'
                          /\ q.ts <= LastSent'
  BY <1>1 DEF Timely, farEnd
<1>3. network' \subseteq [ts : Nat, full : BOOLEAN, age : 0 .. MaxDelay]
  BY DEF Timely
<1> QED
  BY <1>2, <1>3 DEF Timely, farEnd

\* Where a frame is placed that is heard, and that nothing shows to be misplaced.
LEMMA ArrivalPlaced ==
    ASSUME VoiceInv, NEW p \in network, Deliver(p), heldHere = FALSE
    PROVE  /\ voiceTsSeen' = TRUE /\ Hear(lastVoiceTs', p)
           /\ lastVoiceTs' \in 0 .. p.ts /\ lastVoiceTs' % Wrap16 = p.ts % Wrap16
           /\ voiceTsSeen /\ ~Contradicts(p)
                => lastVoiceTs' = Reconstruct(lastVoiceTs, p.ts % Wrap16, TRUE)
<1>1. p.ts \in Nat /\ p.ts \in 0 .. p.ts /\ voiceTsSeen \in BOOLEAN
  BY UnderWay DEF VoiceInv, Reference
<1>2. CASE OnFullVoice(p)
  <2>1. /\ p.full /\ lastVoiceTs' = p.ts /\ voiceTsSeen' = TRUE /\ Hear(p.ts, p)
    BY <1>2, Zenon DEF OnFullVoice
  <2>2. voiceTsSeen /\ ~Contradicts(p)
          => lastVoiceTs' = Reconstruct(lastVoiceTs, p.ts % Wrap16, TRUE)
    BY <2>1, Zenon DEF Contradicts
  <2> QED
    BY <1>1, <2>1, <2>2, Zenon
<1>3. CASE OnMini(p)
  <2>1. /\ lastVoiceTs' = Reconstruct(lastVoiceTs, p.ts % Wrap16, voiceTsSeen)
        /\ voiceTsSeen' = TRUE /\ Hear(lastVoiceTs', p)
    BY <1>3, Zenon DEF OnMini
  <2>2. CASE voiceTsSeen
    <3>1. lastVoiceTs' = Reconstruct(lastVoiceTs, p.ts % Wrap16, TRUE)
      <4>1. voiceTsSeen = TRUE
        BY <1>1, <2>2
      <4> QED
        BY <2>1, <4>1, Zenon
    <3>2. lastVoiceTs' \in 0 .. p.ts /\ lastVoiceTs' % Wrap16 = p.ts % Wrap16
      BY <2>2, <3>1, NearestPlaced, Zenon
    <3> QED
      BY <2>1, <3>1, <3>2, Zenon
  <2>3. CASE ~voiceTsSeen
    <3>1. lastVoiceTs' = p.ts % Wrap16
      BY <2>1, <2>3, Zenon DEF Reconstruct
    <3>2. p.ts % Wrap16 \in 0 .. p.ts /\ (p.ts % Wrap16) % Wrap16 = p.ts % Wrap16
      BY <1>1, BareBits
    <3> QED
      BY <2>1, <2>3, <3>1, <3>2, Zenon
  <2> QED
    BY <2>2, <2>3
<1> QED
  BY <1>2, <1>3 DEF Deliver

\* A frame that arrives, full or not, heard or on hold.
LEMMA DeliverInv == ASSUME VoiceInv, NEW p \in network, Deliver(p) PROVE VoiceInv'
<1>1. /\ network' = network \ {p} /\ UNCHANGED <<farEnd, heldHere, losses>>
      /\ heldHere \in BOOLEAN /\ voiceTsSeen \in BOOLEAN
  BY DEF Deliver, VoiceInv, Reference
<1>2. Timely /\ clock' = clock /\ clock \in Nat
  BY <1>1 DEF VoiceInv, Timely, farEnd
<1>3. Timely'
  BY <1>1, <1>2, LeavesNetwork DEF Timely
<1>4. /\ p.ts \in 0 .. clock /\ p.ts \in Nat /\ p.ts \in 0 .. p.ts
  BY <1>2, UnderWay
<1>5. CASE heldHere
  <2>1. frames' = {}
    BY <1>5 DEF Deliver, OnFullVoice, OnMini, NotHeard, jitterVars, VoiceInv, Placement
  <2>2. Placement'
    BY <2>1 DEF Placement
  <2>3. Reference'
    BY <1>1, <1>2, <1>4, <1>5 DEF Deliver, OnFullVoice, OnMini, VoiceInv, Reference
  <2> QED
    BY <1>1, <1>3, <2>2, <2>3 DEF VoiceInv
<1>6. CASE ~heldHere
  <2>1. heldHere = FALSE /\ heldHere' = FALSE
    BY <1>1, <1>6
  <2>2. /\ voiceTsSeen' = TRUE /\ Hear(lastVoiceTs', p)
        /\ lastVoiceTs' \in 0 .. p.ts /\ lastVoiceTs' % Wrap16 = p.ts % Wrap16
    BY <2>1, ArrivalPlaced
  <2>3. Contradicts(p)
          \/ \A t \in frames \ stray :
                 t < FrameMs * MaxDelay \/ born[t] - t = p.ts - lastVoiceTs'
    <3>1. CASE ~voiceTsSeen
      BY <3>1 DEF VoiceInv, Placement
    <3>2. CASE voiceTsSeen /\ ~Contradicts(p)
      <4>1. lastVoiceTs' = Reconstruct(lastVoiceTs, p.ts % Wrap16, TRUE)
        BY <2>1, <3>2, ArrivalPlaced
      <4> QED
        BY <3>2, <4>1, NearestPlaced, Zenon
    <3> QED
      BY <3>1, <3>2, Zenon
  <2>4. Placement'
    BY <1>1, <2>1, <2>2, <2>3, HeardPlacement, Zenon
  <2>5. lastVoiceTs' \in 0 .. clock'
    BY <1>2, <1>4, <2>2
  <2>6. Reference'
    BY <2>2, <2>5 DEF Reference
  <2> QED
    BY <1>1, <1>3, <2>4, <2>6 DEF VoiceInv
<1> QED
  BY <1>5, <1>6

\* What the far end's turn leaves alone.
LEMMA FarTurnInv ==
    ASSUME VoiceInv, Timely', clock' = clock,
           UNCHANGED <<frames, born, stray, lastVoiceTs, voiceTsSeen, heldHere>>,
           \A r \in 0 .. clock : Chain(r) => Chain(r)'
    PROVE  VoiceInv'
<1>1. clock \in Nat
  BY DEF VoiceInv, Timely
<1>2. Placement'
  BY <1>1, PlacementKept DEF VoiceInv
<1> QED
  BY <1>2 DEF VoiceInv, Reference

\* The next frame spoken is one more under way, one silence after the last.
LEMMA SendVoiceInv ==
    ASSUME VoiceInv, SendVoice
    PROVE  VoiceInv' /\ \A r \in 0 .. clock : Chain(r) => Chain(r)'
<1> DEFINE new == [ts |-> clock, full |-> ~sentFormat, age |-> 0]
<1>1. /\ network' = network \cup {new} /\ farDone = FALSE
      /\ sentFormat' = TRUE /\ farDone' = TRUE /\ quiet' = 0 /\ clock' = clock
      /\ UNCHANGED <<losses, frames, born, stray, lastVoiceTs, voiceTsSeen, heldHere>>
  BY DEF SendVoice, jitterVars, callVoice, history, VoiceInv, Timely
<1>2. /\ clock \in Nat /\ clock \in 0 .. TsMod - 1 /\ quiet \in 0 .. MaxSilence
      /\ losses \in Nat /\ 0 \in 0 .. MaxSilence /\ 0 \in 0 .. MaxDelay
      /\ sentFormat \in BOOLEAN
  BY VoiceConstants DEF VoiceInv, Timely
<1>3. /\ FrameMs * (quiet + 1) \in Nat /\ FrameMs <= FrameMs * (quiet + 1)
      /\ FrameMs * (quiet + 1) <= FrameMs * (MaxSilence + 1)
      /\ FrameMs * (MaxSilence + 1) \in Nat
  <2>1. /\ quiet + 1 \in Nat /\ MaxSilence + 1 \in Nat
        /\ 1 <= quiet + 1 /\ quiet + 1 <= MaxSilence + 1
    BY <1>2, VoiceConstants
  <2>2. \A a, b, c \in Nat : a <= b => c * a <= c * b /\ c * a \in Nat /\ c * b \in Nat
    OBVIOUS
  <2>3. 1 \in Nat /\ FrameMs * 1 = FrameMs
    BY VoiceConstants
  <2> QED
    BY <2>1, <2>2, <2>3, VoiceConstants
<1>4. LastSent = clock - FrameMs * (quiet + 1) /\ LastSent' = clock
  BY <1>1, <1>2, VoiceConstants DEF LastSent
<1>5. \A q \in network : q.ts \in Nat /\ q.ts < clock
  <2> TAKE q \in network
  <2>1. q.ts \in Nat /\ q.ts <= LastSent
    BY UnderWay DEF VoiceInv, Timely
  <2> QED
    BY <1>2, <1>3, <1>4, <2>1, VoiceConstants
<1>6. Timely'
  <2>1. new \in [ts : Nat, full : BOOLEAN, age : 0 .. MaxDelay]
    BY <1>2
  <2>2. new.ts + FrameMs * new.age = clock /\ new.ts <= clock
    <3>1. new.ts = clock /\ new.age = 0
      OBVIOUS
    <3>2. clock + FrameMs * 0 = clock /\ clock <= clock
      BY <1>2, VoiceConstants
    <3> HIDE DEF new
    <3> QED
      BY <3>1, <3>2, Zenon
  <2>3. \A q \in network' : q.ts + FrameMs * q.age = clock' /\ q.ts <= LastSent'
    <3> HIDE DEF new
    <3>1. \A q \in network : q.ts + FrameMs * q.age = clock /\ q.ts <= clock
      BY <1>2, <1>5 DEF VoiceInv, Timely
    <3> QED
      BY <1>1, <1>4, <2>2, <3>1, Zenon
  <2>4. network' \subseteq [ts : Nat, full : BOOLEAN, age : 0 .. MaxDelay]
    BY <1>1, <2>1, Zenon DEF VoiceInv, Timely
  <2> HIDE DEF new
  <2> QED
    BY <1>1, <1>2, <2>3, <2>4 DEF VoiceInv, Timely
<1>7. SentTs' = SentTs \cup {clock}
  <2>1. new.ts = clock
    OBVIOUS
  <2> HIDE DEF new
  <2> QED
    BY <1>1, <2>1, Zenon DEF SentTs
<1>8. /\ IsFiniteSet(SentTs) /\ Cardinality(SentTs) \in Nat
      /\ \A x : Cardinality(Upto(x)) \in Nat
  BY SentFinite DEF VoiceInv
<1>9. clock \notin SentTs /\ \A t \in SentTs : t < clock /\ t \in Nat
  BY <1>2, <1>5 DEF SentTs
<1>10. Cardinality(SentTs') = Cardinality(SentTs) + 1
  BY <1>7, <1>8, <1>9, FS_AddElement
<1>11. ASSUME NEW q \in network PROVE Upto(q.ts)' = Upto(q.ts)
  <2>1. ~(clock <= q.ts)
    BY <1>2, <1>5
  <2> QED
    BY <1>7, <2>1, Zenon DEF Upto
<1>12. ASSUME NEW x, x = clock PROVE Upto(x)' = SentTs'
  <2>1. \A t \in SentTs' : t <= x
    BY <1>2, <1>7, <1>9, <1>12
  <2> QED
    BY <2>1, Zenon DEF Upto
<1>13. ASSUME NEW r \in 0 .. clock, Chain(r) PROVE Chain(r)'
  <2> DEFINE n == losses + Cardinality(SentTs)
  <2>1. n \in Nat /\ losses' + Cardinality(SentTs') = n + 1
    BY <1>1, <1>2, <1>8, <1>10
  <2>2. Reach(n) \in Nat /\ Reach(n + 1) = Reach(n) + FrameMs * (MaxSilence + 1)
    BY <2>1, ReachStep
  <2>3. LastSent - r <= Reach(n)
    BY <1>13 DEF Chain
  <2>4. clock - r <= Reach(n + 1)
    <3> HIDE DEF n
    <3> QED
      BY <1>2, <1>3, <1>4, <2>2, <2>3
  <2>5. \A q \in network' : q.ts - r <= Reach(losses' + Cardinality(Upto(q.ts)'))
    <3>1. new.ts = clock
      OBVIOUS
    <3> HIDE DEF new, n
    <3> TAKE q \in network'
    <3>2. CASE q = new
      <4>1. q.ts = clock
        BY <3>1, <3>2
      <4>2. Upto(q.ts)' = SentTs'
        BY <1>12, <4>1, Zenon
      <4> QED
        BY <2>1, <2>4, <4>1, <4>2, Zenon
    <3>3. CASE q \in network
      BY <1>1, <1>11, <1>13, <3>3, Zenon DEF Chain
    <3> QED
      BY <1>1, <3>2, <3>3, Zenon
  <2>6. LastSent' - r <= Reach(losses' + Cardinality(SentTs'))
    <3> HIDE DEF n
    <3> QED
      BY <1>4, <2>1, <2>4, Zenon
  <2> QED
    BY <2>5, <2>6, Zenon DEF Chain
<1> QED
  BY <1>1, <1>6, <1>13, FarTurnInv, Zenon

\* A silence moves nothing: the latest frame is one tick further back.
LEMMA FarSilentInv ==
    ASSUME VoiceInv, FarSilent
    PROVE  VoiceInv' /\ \A r \in 0 .. clock : Chain(r) => Chain(r)'
<1>1. /\ farDone = FALSE /\ farDone' = TRUE /\ sentFormat = TRUE /\ sentFormat' = TRUE
      /\ quiet < MaxSilence /\ quiet' = quiet + 1 /\ clock' = clock
      /\ UNCHANGED <<network, losses, frames, born, stray, lastVoiceTs, voiceTsSeen,
                   heldHere>>
  BY DEF FarSilent, jitterVars, callVoice, history, VoiceInv, Timely
<1>2. LastSent' = LastSent
  BY <1>1 DEF LastSent
<1>3. quiet' \in 0 .. MaxSilence
  BY <1>1, VoiceConstants DEF VoiceInv, Timely
<1>4. Timely'
  BY <1>1, <1>2, <1>3 DEF VoiceInv, Timely
<1>5. \A r \in 0 .. clock : Chain(r) => Chain(r)'
  BY <1>1, <1>2, ChainKept, Zenon
<1> QED
  BY <1>1, <1>4, <1>5, FarTurnInv, Zenon

\* A loss shortens the chain of what is under way by one and counts one more.
LEMMA LoseInv ==
    ASSUME VoiceInv, NEW p \in network, Lose(p)
    PROVE  VoiceInv' /\ \A r \in 0 .. clock : Chain(r) => Chain(r)'
<1>1. /\ network' = network \ {p} /\ losses < MaxLoss /\ losses' = losses + 1
      /\ UNCHANGED <<farEnd, frames, born, stray, lastVoiceTs, voiceTsSeen, heldHere>>
  BY DEF Lose, jitterVars, callVoice, history
<1>2. losses \in Nat /\ losses' \in Nat /\ losses' \in 0 .. MaxLoss
  BY <1>1, VoiceConstants DEF VoiceInv, Timely
<1>3. Timely'
  BY <1>1, <1>2, LeavesNetwork DEF VoiceInv
<1>4. SentTs \subseteq SentTs' \cup {p.ts}
  BY <1>1 DEF SentTs
<1>5. /\ IsFiniteSet(SentTs) /\ Cardinality(SentTs) \in Nat
      /\ \A x : IsFiniteSet(Upto(x)) /\ Cardinality(Upto(x)) \in Nat
  BY SentFinite DEF VoiceInv
<1>6. /\ SentTs' \subseteq SentTs /\ Cardinality(SentTs') \in Nat
      /\ \A x : IsFiniteSet(Upto(x)') /\ Cardinality(Upto(x)') \in Nat
  BY <1>1, FewerSent DEF VoiceInv
<1>7. IsFiniteSet(SentTs')
  BY <1>5, <1>6, FS_Subset, Zenon
<1>8. ASSUME NEW S, NEW T, IsFiniteSet(T), S \subseteq T \cup {p.ts},
             Cardinality(S) \in Nat, Cardinality(T) \in Nat
      PROVE  losses + Cardinality(S) <= losses' + Cardinality(T)
  <2>1. IsFiniteSet(T \cup {p.ts})
        /\ Cardinality(T \cup {p.ts})
             = IF p.ts \in T THEN Cardinality(T) ELSE Cardinality(T) + 1
    BY <1>8, FS_AddElement, Zenon
  <2>2. IsFiniteSet(T \cup {p.ts}) /\ Cardinality(T \cup {p.ts}) <= Cardinality(T) + 1
    BY <1>8, <2>1
  <2>3. Cardinality(S) <= Cardinality(T \cup {p.ts})
    BY <1>8, <2>2, FS_Subset
  <2>4. Cardinality(T \cup {p.ts}) \in Nat
    BY <2>2, FS_CardinalityType
  <2> QED
    BY <1>1, <1>2, <1>8, <2>2, <2>3, <2>4
<1>9. ASSUME NEW x
       PROVE  losses + Cardinality(Upto(x)) <= losses' + Cardinality(Upto(x)')
  <2>1. Upto(x) \subseteq Upto(x)' \cup {p.ts}
    BY <1>4, Zenon DEF Upto
  <2> QED
    BY <1>5, <1>6, <1>8, <2>1
<1>10. losses + Cardinality(SentTs) <= losses' + Cardinality(SentTs')
  BY <1>4, <1>5, <1>6, <1>7, <1>8
<1>11. LastSent' = LastSent /\ LastSent \in Int
  <2>1. \A n \in Nat : FrameMs * n \in Nat
    BY VoiceConstants
  <2>2. (IF farDone THEN quiet ELSE quiet + 1) \in Nat /\ clock \in Nat
    BY DEF VoiceInv, Timely
  <2> QED
    BY <1>1, <2>1, <2>2 DEF LastSent, farEnd
<1>12. ASSUME NEW r \in 0 .. clock, Chain(r) PROVE Chain(r)'
  <2>1. ASSUME NEW a \in Int, NEW m \in Nat, NEW n \in Nat, m <= n, a <= Reach(m)
        PROVE  a <= Reach(n)
    <3>1. Reach(m) \in Nat /\ Reach(n) \in Nat /\ Reach(m) <= Reach(n)
      BY <2>1, ReachStep, ReachMonotone
    <3> HIDE DEF Reach
    <3> QED
      BY <2>1, <3>1
  <2>2. ASSUME NEW q \in network'
        PROVE  q.ts - r <= Reach(losses' + Cardinality(Upto(q.ts)'))
    <3>1. q \in network
      BY <1>1
    <3>2. q.ts - r \in Int
      BY <3>1, UnderWay DEF VoiceInv
    <3>3. /\ losses + Cardinality(Upto(q.ts)) \in Nat
          /\ losses' + Cardinality(Upto(q.ts)') \in Nat
      BY <1>2, <1>5, <1>6
    <3>4. q.ts - r <= Reach(losses + Cardinality(Upto(q.ts)))
      BY <1>12, <3>1, Zenon DEF Chain
    <3> QED
      BY <1>9, <2>1, <3>2, <3>3, <3>4, Zenon
  <2>3. LastSent' - r <= Reach(losses' + Cardinality(SentTs'))
    <3>1. LastSent - r \in Int
      BY <1>11
    <3>2. losses + Cardinality(SentTs) \in Nat /\ losses' + Cardinality(SentTs') \in Nat
      BY <1>2, <1>5, <1>6
    <3>3. LastSent - r <= Reach(losses + Cardinality(SentTs))
      BY <1>12, Zenon DEF Chain
    <3> QED
      BY <1>10, <1>11, <2>1, <3>1, <3>2, <3>3, Zenon
  <2> QED
    BY <2>2, <2>3, Zenon DEF Chain
<1>13. clock' = clock
  BY <1>1 DEF farEnd
<1> QED
  BY <1>1, <1>3, <1>12, <1>13, FarTurnInv, Zenon

\* 20 ms later all frames under way are one tick older, spoken when they were.
LEMMA NextTickInv ==
    ASSUME VoiceInv, NextTick
    PROVE  VoiceInv' /\ \A r \in 0 .. clock : Chain(r) => Chain(r)'
<1>1. /\ farDone = TRUE /\ farDone' = FALSE /\ sentFormat = TRUE /\ sentFormat' = TRUE
      /\ clock < ClockMax /\ clock' = Advanced(clock)
      /\ \A p \in network : p.age < MaxDelay
      /\ network' = {[p EXCEPT !.age = @ + 1] : p \in network}
      /\ UNCHANGED <<quiet, losses, frames, born, stray, lastVoiceTs, voiceTsSeen, heldHere>>
  BY DEF NextTick, jitterVars, callVoice, history, VoiceInv, Timely
<1>2. /\ clock \in Nat /\ clock' = clock + FrameMs /\ clock' \in 0 .. TsMod - 1
      /\ quiet \in 0 .. MaxSilence
  <2>1. clock \in 0 .. TsMod - 1 /\ quiet \in 0 .. MaxSilence
    BY DEF VoiceInv, Timely
  <2>2. clock + FrameMs \in 0 .. TsMod - 1
    BY <1>1, <2>1, VoiceConstants, VoiceAssumption
  <2>3. Advanced(clock) = clock + FrameMs
    BY <2>2, ModSmall, VoiceConstants DEF Advanced
  <2> QED
    BY <1>1, <2>1, <2>2, <2>3, VoiceConstants
<1>3. \A n \in Nat : FrameMs * n \in Nat /\ FrameMs * (n + 1) = FrameMs * n + FrameMs
  BY VoiceConstants
<1>4. LastSent' = LastSent
  <2>1. LastSent = clock - FrameMs * quiet /\ LastSent' = clock' - FrameMs * (quiet + 1)
    BY <1>1 DEF LastSent
  <2>2. FrameMs * quiet \in Nat /\ FrameMs * (quiet + 1) = FrameMs * quiet + FrameMs
    BY <1>2, <1>3
  <2> QED
    BY <1>2, <2>1, <2>2, VoiceConstants
<1>5. \A p \in network : p \in [ts : Nat, full : BOOLEAN, age : 0 .. MaxDelay]
  BY DEF VoiceInv, Timely
<1>6. ASSUME NEW p \in network, NEW q, q = [p EXCEPT !.age = @ + 1]
      PROVE  /\ q \in [ts : Nat, full : BOOLEAN, age : 0 .. MaxDelay]
             /\ q.ts = p.ts /\ q.ts + FrameMs * q.age = clock'
             /\ q.ts <= LastSent'
  <2>1. q.ts = p.ts /\ q.age = p.age + 1
    BY <1>5, <1>6
  <2>2. p.ts \in Nat /\ p.age \in Nat /\ p.age + 1 \in 0 .. MaxDelay
    BY <1>1, <1>5, VoiceConstants
  <2>3. q \in [ts : Nat, full : BOOLEAN, age : 0 .. MaxDelay]
    BY <1>5, <1>6, <2>2
  <2>4. p.ts + FrameMs * p.age = clock /\ p.ts <= LastSent
    BY DEF VoiceInv, Timely
  <2>5. FrameMs * p.age \in Nat /\ FrameMs * (p.age + 1) = FrameMs * p.age + FrameMs
    BY <1>3, <2>2
  <2>6. p.ts + FrameMs * (p.age + 1) = clock'
    <3> DEFINE a == FrameMs * p.age
               b == FrameMs * (p.age + 1)
    <3>1. p.ts \in Nat /\ a \in Nat /\ b = a + FrameMs /\ p.ts + a = clock
      BY <2>2, <2>4, <2>5
    <3> HIDE DEF a, b
    <3>2. p.ts + b = clock'
      BY <1>2, <3>1, VoiceConstants
    <3> QED
      BY <3>2 DEF b
  <2>7. q.ts + FrameMs * q.age = clock'
    BY <2>1, <2>6
  <2>8. q.ts = p.ts /\ q.ts <= LastSent
    BY <2>1, <2>4
  <2> QED
    BY <1>4, <2>3, <2>7, <2>8, Zenon
<1>7. Timely'
  <2>1. /\ network' \subseteq [ts : Nat, full : BOOLEAN, age : 0 .. MaxDelay]
        /\ \A q \in network' : q.ts + FrameMs * q.age = clock' /\ q.ts <= LastSent'
    BY <1>1, <1>6, Zenon
  <2> QED
    BY <1>1, <1>2, <2>1 DEF VoiceInv, Timely
<1>8. SentTs' = SentTs
  <2>1. \A p \in network : /\ [p EXCEPT !.age = @ + 1] \in network'
                            /\ [p EXCEPT !.age = @ + 1].ts = p.ts
    BY <1>1, <1>6, Zenon
  <2>2. ASSUME NEW q \in network' PROVE \E p \in network : q.ts = p.ts
    <3>1. PICK p \in network : q = [p EXCEPT !.age = @ + 1]
      BY <1>1, Zenon
    <3>2. q.ts = p.ts
      BY <1>6, <3>1, Zenon
    <3> QED
      BY <3>2, Zenon
  <2>3. \A x : x \in SentTs' <=> x \in SentTs
    <3> TAKE x
    <3>1. ASSUME x \in SentTs PROVE x \in SentTs'
      <4>1. PICK p \in network : x = p.ts
        BY <3>1 DEF SentTs
      <4>2. \E q \in network' : x = q.ts
        BY <2>1, <4>1
      <4> QED
        BY <4>2, Zenon DEF SentTs
    <3>2. ASSUME x \in SentTs' PROVE x \in SentTs
      <4>1. PICK q \in network' : x = q.ts
        BY <3>2, Zenon DEF SentTs
      <4>2. PICK p \in network : q.ts = p.ts
        BY <2>2, Zenon
      <4> QED
        BY <4>1, <4>2, Zenon DEF SentTs
    <3> QED
      BY <3>1, <3>2, Zenon
  <2> QED
    BY <2>3, Zenon
<1>9. ASSUME NEW r \in 0 .. clock, Chain(r) PROVE Chain(r)'
  <2>1. \A x : Upto(x)' = Upto(x)
    BY <1>8, Zenon DEF Upto
  <2>2. ASSUME NEW q \in network'
        PROVE  q.ts - r <= Reach(losses' + Cardinality(Upto(q.ts)'))
    <3>1. PICK p \in network : q.ts = p.ts
      BY <1>1, <1>6, Zenon
    <3>2. p.ts - r <= Reach(losses + Cardinality(Upto(p.ts)))
      BY <1>9, Zenon DEF Chain
    <3> QED
      BY <1>1, <2>1, <3>1, <3>2, Zenon
  <2>3. LastSent' - r <= Reach(losses' + Cardinality(SentTs'))
    BY <1>1, <1>4, <1>8, <1>9, Zenon DEF Chain
  <2> QED
    BY <2>2, <2>3, Zenon DEF Chain
<1>10. Placement'
  <2>1. clock' \in Nat /\ clock <= clock'
    BY <1>2, VoiceConstants
  <2> QED
    BY <1>1, <1>2, <1>9, <2>1, PlacementKept DEF VoiceInv
<1>11. Reference'
  BY <1>1, <1>2, VoiceConstants DEF VoiceInv, Reference
<1>12. VoiceInv'
  BY <1>1, <1>7, <1>10, <1>11 DEF VoiceInv
<1> QED
  BY <1>9, <1>12, Zenon

\* A pull takes frames out, at most, and leaves the others where they are.
LEMMA PumpInv == ASSUME VoiceInv, PumpPlayout PROVE VoiceInv'
<1>1. UNCHANGED <<farEnd, network, callVoice, losses>>
  BY DEF PumpPlayout
<1>2. /\ frames' \subseteq frames /\ frames' \ stray' \subseteq frames \ stray
      /\ \A t \in frames' : born'[t] = born[t]
  <2>1. CASE heldHere
    BY <2>1 DEF PumpPlayout, NotHeard, jitterVars, history
  <2>2. CASE ~heldHere
    <3>1. Pull /\ born' = [t \in frames' |-> born[t]] /\ stray' = stray \cap frames'
      BY <2>2 DEF PumpPlayout
    <3>2. frames' \subseteq frames
      BY <3>1 DEF Pull, PullPriming, PullPlay, PullConceal, PullEmpty
    <3> QED
      BY <3>1, <3>2
  <2> QED
    BY <2>1, <2>2
<1>3. LastSent' = LastSent /\ clock' = clock /\ clock \in Nat /\ clock <= clock
  BY <1>1 DEF LastSent, farEnd, VoiceInv, Timely
<1>4. Timely'
  BY <1>1, <1>3 DEF VoiceInv, Timely, farEnd, callVoice
<1>5. \A r \in 0 .. clock : Chain(r) => Chain(r)'
  BY <1>1, <1>3, ChainKept, Zenon
<1>6. Placement'
  BY <1>1, <1>2, <1>3, <1>5, PlacementKept DEF VoiceInv, callVoice
<1> QED
  BY <1>1, <1>3, <1>4, <1>6 DEF VoiceInv, Reference, callVoice

\* make_active empties the buffer and leaves the reference.
LEMMA SwitchInv == ASSUME VoiceInv, Switch PROVE VoiceInv'
<1>1. /\ frames' = {} /\ heldHere' = ~heldHere
      /\ UNCHANGED <<farEnd, network, lastVoiceTs, voiceTsSeen, losses>>
  BY DEF Switch, Reset
<1>2. LastSent' = LastSent
  BY <1>1 DEF LastSent, farEnd
<1>3. Timely' /\ Reference' /\ heldHere' \in BOOLEAN
  BY <1>1, <1>2 DEF VoiceInv, Timely, Reference, farEnd
<1>4. Placement'
  BY <1>1 DEF Placement
<1> QED
  BY <1>3, <1>4 DEF VoiceInv

\* Before the far end speaks there is nothing under way and nothing buffered.
LEMMA VoiceInitInv == VoiceInit => VoiceInv
<1> SUFFICES ASSUME VoiceInit PROVE VoiceInv
  OBVIOUS
<1>1. frames = {} /\ network = {} /\ clock \in FirstTs
  BY DEF VoiceInit, JitterInit
<1>2. clock \in 0 .. TsMod - 1 /\ 0 \in 0 .. clock
  BY <1>1, VoiceAssumption, VoiceConstants
<1>3. Timely
  <2>1. quiet = 0 /\ losses = 0 /\ sentFormat = FALSE /\ farDone = FALSE
    BY DEF VoiceInit
  <2>2. 0 \in 0 .. MaxSilence /\ 0 \in 0 .. MaxLoss
    BY VoiceConstants
  <2> QED
    BY <1>1, <1>2, <2>1, <2>2, Zenon DEF Timely
<1>4. Reference /\ Placement
  BY <1>1, <1>2 DEF VoiceInit, Reference, Placement
<1> QED
  BY <1>3, <1>4 DEF VoiceInit, VoiceInv

\* Every step keeps the invariant.
LEMMA VoiceStep == ASSUME VoiceInv, [VoiceNext]_voiceVars PROVE VoiceInv'
<1>1. CASE UNCHANGED voiceVars
  <2>1. UNCHANGED <<frames, born, stray, clock, sentFormat, farDone, quiet, network,
                    lastVoiceTs, voiceTsSeen, heldHere, losses>>
    BY <1>1 DEF voiceVars, jitterVars, farEnd, callVoice, history
  <2>2. LastSent' = LastSent /\ clock \in Nat /\ clock <= clock
    BY <2>1 DEF LastSent, VoiceInv, Timely
  <2>3. \A r \in 0 .. clock : Chain(r) => Chain(r)'
    BY <2>1, <2>2, ChainKept, Zenon
  <2>4. Timely'
    BY <2>1, <2>2 DEF VoiceInv, Timely
  <2> QED
    BY <2>1, <2>3, <2>4, FarTurnInv, Zenon
<1>2. CASE \E p \in network : Lose(p) \/ Deliver(p)
  BY <1>2, LoseInv, DeliverInv
<1> QED
  BY <1>1, <1>2, SendVoiceInv, FarSilentInv, NextTickInv, PumpInv, SwitchInv
  DEF VoiceNext

\* Every reachable state of the voice path satisfies the invariant.
THEOREM VoiceInvariant == VoiceSpec => []VoiceInv
<1>1. VoiceInv /\ [VoiceNext]_voiceVars => VoiceInv'
  BY VoiceStep
<1> QED
  BY <1>1, VoiceInitInv, PTL DEF VoiceSpec

\* Whatever is lost, delayed or reordered within the bounds of the gap, whenever
\* the call begins and whichever call the driver makes active, reconstruct_ts
\* never places two buffered frames in different wraps of the 16 bits, but for
\* mini-frames placed before the full VOICE that they overtook.
THEOREM NeverMixesWraps == VoiceSpec => []OneWrap
<1>1. VoiceInv => OneWrap
  <2> SUFFICES ASSUME VoiceInv, NEW t \in frames \ stray, NEW u \in frames \ stray,
                      FrameMs * MaxDelay <= t, FrameMs * MaxDelay <= u
               PROVE  born[t] - t = born[u] - u
    BY DEF OneWrap
  <2>1. PICK r \in 0 .. clock : Placed(r)
    BY DEF VoiceInv, Placement
  <2>2. \A v \in frames : v \in Nat
    BY DEF VoiceInv, Placement
  <2>3. ~(t < FrameMs * MaxDelay) /\ ~(u < FrameMs * MaxDelay)
    BY <2>2, VoiceConstants
  <2> QED
    BY <2>1, <2>3, Zenon DEF Placed
<1> QED
  BY <1>1, VoiceInvariant, PTL
-----------------------------------------------------------------------------
(* The order of what is heard                                              *)

\* A frame is spoken a number of ticks before or after now.
OnGrid(x) == \E k \in Int : x + FrameMs * k = clock

\* The frame under the cursor was, or will be, spoken at this timestamp.
CursorTs(r) == nextTs + (r - lastVoiceTs)

\* The playout is a tick ahead between its turn and the far end's next one.
Turn == IF playDone THEN FrameMs ELSE 0

\* Whatever is still under way was spoken at most one frame before what the
\* cursor waits for, and what is buffered no earlier than that.
CursorAt(r) ==
    /\ FrameMs <= nextTs
    /\ CursorTs(r) + FrameMs * MaxDelay <= clock + Turn
    /\ OnGrid(CursorTs(r))
    /\ \A t \in frames : nextTs <= t

\* Placement, with no exception for what is near 0 and with the cursor.
Aligned(r) ==
    /\ SameWrap(r) /\ Chain(r)
    /\ \A t \in frames : born[t] = t + (r - lastVoiceTs)
    /\ playing => CursorAt(r)

\* What is heard, buffered and under way are different frames, the heard ones
\* spoken before all others.
Spoken ==
    /\ \A p, q \in network : p.ts = q.ts => p = q
    /\ \A t \in frames : born[t] <= LastSent /\ OnGrid(born[t]) /\ born[t] \notin SentTs
    /\ heard # None => /\ heard <= LastSent
                       /\ \A x \in SentTs : heard < x
                       /\ \A t \in frames : heard < born[t]

Buffer ==
    /\ IsFiniteSet(frames) /\ nextTs \in Nat /\ target \in Targets /\ heard \in Int
    /\ playing \in BOOLEAN /\ playDone \in BOOLEAN
    /\ playing => voiceTsSeen /\ heldHere = FALSE

OrderInv ==
    /\ VoiceInv /\ Buffer /\ Spoken /\ clock + FrameMs < TsMod
    /\ frames # {} \/ playing => \E r \in 0 .. clock : Aligned(r)

\* The least depth covers the delay of the network and one frame; and the call
\* ends a frame before the timestamps do.
OrderBounds ==
    /\ FrameMs * (MaxDelay + 1) <= MinDepth
    /\ ClockMax + 2 * FrameMs <= TsMod

\* Nothing buffered was moved to within the network's delay of 0: only there
\* may a frame that was overtaken have no number below the one before it.  That
\* is so while the flag of the model says that the reference was of use.
NearZero == \A t \in frames : FrameMs * MaxDelay <= t \/ born[t] = t

\* While the reference is of use no full VOICE shows it to be wrong, and nothing
\* is placed next to 0.
LEMMA NotContradicted ==
    ASSUME NEW p \in network, Deliver(p), heldHere = FALSE, misled' = FALSE
    PROVE  ~Contradicts(p) /\ \E ts : Hear(ts, p) /\ ~NextToZero(ts, p)
<1>1. PICK ts : Hear(ts, p)
  BY DEF Deliver, OnFullVoice, OnMini
<1>2. misled' = (misled \/ Contradicts(p) \/ NextToZero(ts, p))
  BY <1>1 DEF Hear
<1> QED
  BY <1>1, <1>2, Zenon

\* The flag is never cleared, and what it says of the buffer stays so.
LEMMA NearZeroKept ==
    ASSUME VoiceInv, VoiceInv', misled \in BOOLEAN, misled = FALSE => NearZero,
           [VoiceNext]_voiceVars
    PROVE  /\ misled' \in BOOLEAN
           /\ misled' = FALSE => misled = FALSE /\ NearZero'
<1>1. CASE UNCHANGED <<frames, born, misled>>
  BY <1>1 DEF NearZero
<1>2. ASSUME frames' \subseteq frames, \A t \in frames' : born'[t] = born[t],
             misled' = misled
      PROVE  misled' = FALSE => NearZero'
  BY <1>2 DEF NearZero
<1>3. CASE Switch
  BY <1>3 DEF Switch, Reset, NearZero
<1>4. CASE PumpPlayout
  <2>1. CASE heldHere
    BY <1>1, <1>4, <2>1 DEF PumpPlayout, NotHeard, jitterVars, history
  <2>2. CASE ~heldHere
    <3>1. Pull /\ born' = [t \in frames' |-> born[t]] /\ misled' = misled
      BY <1>4, <2>2 DEF PumpPlayout
    <3>2. frames' \subseteq frames
      BY <3>1 DEF Pull, PullPriming, PullPlay, PullConceal, PullEmpty
    <3>3. misled' = FALSE => NearZero'
      BY <1>2, <3>1, <3>2
    <3> QED
      BY <3>1, <3>3
  <2> QED
    BY <2>1, <2>2
<1>5. ASSUME NEW p \in network, Deliver(p)
      PROVE  misled' \in BOOLEAN /\ (misled' = FALSE => misled = FALSE /\ NearZero')
  <2>1. CASE heldHere
    BY <1>1, <1>5, <2>1 DEF Deliver, OnFullVoice, OnMini, NotHeard, jitterVars, history
  <2>2. CASE ~heldHere
    <3>1. PICK ts : Hear(ts, p)
      BY <1>5, <2>2 DEF Deliver, OnFullVoice, OnMini
    <3>2. /\ misled' = (misled \/ Contradicts(p) \/ NextToZero(ts, p))
          /\ born' = [t \in frames' |-> IF t = ts THEN p.ts ELSE born[t]]
          /\ frames' \subseteq frames \cup {ts}
      BY <3>1, PushedFrames DEF Hear
    <3>3. misled' \in BOOLEAN
      BY <3>2
    <3>4. ASSUME misled' = FALSE PROVE misled = FALSE /\ ~NextToZero(ts, p)
      BY <3>2, <3>4
    <3>5. ASSUME misled' = FALSE PROVE NearZero'
      <4>1. NearZero /\ ~(ts < FrameMs * MaxDelay /\ ts # p.ts)
        BY <3>4, <3>5 DEF NextToZero
      <4>2. \A t \in frames' : t \in Nat
        BY DEF VoiceInv, Placement
      <4>3. \A t \in frames' : FrameMs * MaxDelay <= t \/ born'[t] = t
        <5> TAKE t \in frames'
        <5>1. CASE t = ts
          BY <3>2, <4>1, <4>2, <5>1, VoiceConstants
        <5>2. CASE t # ts
          BY <3>2, <4>1, <5>2 DEF NearZero
        <5> QED
          BY <5>1, <5>2
      <4> QED
        BY <4>3, Zenon DEF NearZero
    <3> QED
      BY <3>3, <3>4, <3>5, Zenon
  <2> QED
    BY <2>1, <2>2
<1>6. CASE VoiceNext
  <2>1. SendVoice \/ FarSilent \/ NextTick \/ (\E p \in network : Lose(p))
          => UNCHANGED <<frames, born, misled>>
    BY DEF SendVoice, FarSilent, NextTick, Lose, jitterVars, history
  <2>2. CASE \E p \in network : Deliver(p)
    BY <1>5, <2>2, Zenon
  <2>3. misled' = misled \/ \E p \in network : Deliver(p)
    BY <1>6, <2>1 DEF VoiceNext, Switch, PumpPlayout, NotHeard, history
  <2> QED
    BY <1>1, <1>3, <1>4, <1>6, <2>1, <2>2 DEF VoiceNext
<1>7. CASE UNCHANGED voiceVars
  BY <1>1, <1>7 DEF voiceVars, jitterVars, history
<1> QED
  BY <1>6, <1>7

\* Different ticks are at least a frame apart.
LEMMA Spaced ==
    ASSUME Timely, NEW x \in Int, NEW y \in Int, x < y, OnGrid(x), OnGrid(y)
    PROVE  x + FrameMs <= y
<1>1. PICK i \in Int : x + FrameMs * i = clock
  BY DEF OnGrid
<1>2. PICK j \in Int : y + FrameMs * j = clock
  BY DEF OnGrid
<1>3. \A a, b \in Int : /\ FrameMs * a \in Int
                        /\ a <= b => FrameMs * a <= FrameMs * b
                        /\ FrameMs * (b + 1) = FrameMs * b + FrameMs
  BY VoiceConstants
<1>4. ~(i <= j)
  BY <1>1, <1>2, <1>3
<1>5. j + 1 <= i /\ j + 1 \in Int
  BY <1>4
<1>6. FrameMs * j + FrameMs <= FrameMs * i
  BY <1>3, <1>5
<1> QED
  BY <1>1, <1>2, <1>3, <1>6, VoiceConstants

\* A tick and a frame on are ticks, too.
LEMMA GridMoves ==
    ASSUME Timely, NEW x \in Int, OnGrid(x)
    PROVE  /\ OnGrid(x + FrameMs)
           /\ clock' = clock + FrameMs => OnGrid(x)'
           /\ clock' = clock => OnGrid(x)'
<1>1. PICK k \in Int : x + FrameMs * k = clock
  BY DEF OnGrid
<1>2. /\ FrameMs * (k - 1) = FrameMs * k - FrameMs /\ FrameMs * (k + 1) = FrameMs * k + FrameMs
      /\ FrameMs * k \in Int /\ k - 1 \in Int /\ k + 1 \in Int /\ FrameMs \in Int
  BY VoiceConstants
<1>3. (x + FrameMs) + FrameMs * (k - 1) = clock
  BY <1>1, <1>2
<1>4. x + FrameMs * (k + 1) = clock + FrameMs
  BY <1>1, <1>2
<1> QED
  BY <1>1, <1>2, <1>3, <1>4, Zenon DEF OnGrid

\* The latest frame of the far end is a tick old before its turn.
LEMMA LatestSpoken ==
    ASSUME Timely
    PROVE  /\ LastSent \in Int /\ LastSent <= clock /\ clock \in Nat
           /\ farDone = FALSE => LastSent + FrameMs <= clock
<1>1. \A n \in Nat : FrameMs * n \in Nat /\ FrameMs * (n + 1) = FrameMs * n + FrameMs
  BY VoiceConstants
<1>2. quiet \in Nat /\ quiet + 1 \in Nat /\ clock \in Nat /\ farDone \in BOOLEAN
  BY DEF Timely
<1> QED
  BY <1>1, <1>2, VoiceConstants DEF LastSent

\* Steps that leave the buffer and the call alone.
LEMMA SpokenKept ==
    ASSUME Spoken, Timely, UNCHANGED <<frames, born, heard>>, LastSent <= LastSent',
           LastSent' \in Int, \A t \in frames : born[t] \in Int, heard \in Int,
           clock' = clock \/ clock' = clock + FrameMs,
           \A x \in SentTs' : x \in SentTs \/ (x \in Int /\ LastSent < x),
           \A p, q \in network' : p.ts = q.ts => p = q
    PROVE  Spoken'
<1>1. LastSent \in Int
  BY LatestSpoken
<1>2. ASSUME NEW t \in frames
      PROVE  /\ born[t] <= LastSent' /\ OnGrid(born[t])' /\ born[t] \notin SentTs'
             /\ heard # None => heard < born[t]
  <2>1. /\ born[t] \in Int /\ born[t] <= LastSent /\ OnGrid(born[t]) /\ born[t] \notin SentTs
        /\ heard # None => heard < born[t]
    BY DEF Spoken
  <2>2. OnGrid(born[t])'
    BY <2>1, GridMoves
  <2>3. born[t] \notin SentTs'
    BY <1>1, <2>1
  <2> QED
    BY <1>1, <2>1, <2>2, <2>3
<1>3. ASSUME heard # None
      PROVE  heard <= LastSent' /\ \A x \in SentTs' : heard < x
  BY <1>1, <1>3 DEF Spoken
<1> QED
  BY <1>2, <1>3, Zenon DEF Spoken

\* What these steps leave of the alignment.
LEMMA AlignedKept ==
    ASSUME OrderInv, NEW r \in 0 .. clock, Aligned(r), Chain(r)',
           UNCHANGED <<jitterVars, callVoice, history>>, playDone' \in BOOLEAN,
           \/ clock' = clock /\ playDone' = playDone
           \/ clock' = clock + FrameMs /\ playDone = TRUE /\ playDone' = FALSE
    PROVE  Aligned(r)'
<1>1. UNCHANGED <<frames, nextTs, playing, lastVoiceTs, born>>
  BY DEF jitterVars, callVoice, history
<1>2. /\ SameWrap(r) /\ \A t \in frames : born[t] = t + (r - lastVoiceTs)
      /\ playing => CursorAt(r)
  BY DEF Aligned
<1>3. /\ Timely /\ clock \in Nat /\ lastVoiceTs \in Nat /\ r \in Nat /\ nextTs \in Nat
      /\ FrameMs \in Nat /\ FrameMs * MaxDelay \in Nat /\ playDone \in BOOLEAN
  BY VoiceConstants DEF OrderInv, VoiceInv, Timely, Reference, Buffer
<1>4. CursorTs(r) \in Int /\ CursorTs(r)' = CursorTs(r)
  BY <1>1, <1>3 DEF CursorTs
<1>5. ASSUME playing PROVE CursorAt(r)'
  <2>1. /\ FrameMs <= nextTs /\ CursorTs(r) + FrameMs * MaxDelay <= clock + Turn
        /\ OnGrid(CursorTs(r)) /\ \A t \in frames : nextTs <= t
    BY <1>2, <1>5 DEF CursorAt
  <2>2. clock + Turn <= clock' + Turn' /\ Turn \in Int /\ Turn' \in Int /\ clock' \in Int
    BY <1>3 DEF Turn
  <2>3. OnGrid(CursorTs(r))'
    <3>1. \A x : x = CursorTs(r) => OnGrid(x)'
      BY <1>3, <1>4, <2>1, GridMoves
    <3> QED
      BY <1>4, <3>1, Zenon DEF OnGrid
  <2>4. CursorTs(r)' + FrameMs * MaxDelay <= clock' + Turn'
    <3>1. \A a, b, c, d \in Int : a + d <= b /\ b <= c => a + d <= c
      OBVIOUS
    <3>2. clock + Turn \in Int /\ clock' + Turn' \in Int /\ FrameMs * MaxDelay \in Int
      BY <1>3, <2>2
    <3> QED
      BY <1>4, <2>1, <2>2, <3>1, <3>2, Zenon
  <2> QED
    BY <1>1, <2>1, <2>3, <2>4, Zenon DEF CursorAt
<1>6. SameWrap(r)' /\ \A t \in frames' : born'[t] = t + (r - lastVoiceTs')
  BY <1>1, <1>2, Zenon DEF SameWrap
<1> QED
  BY <1>1, <1>5, <1>6, Zenon DEF Aligned

\* The far end's steps and the network's, given what they leave of Spoken.
LEMMA FarStepOrder ==
    ASSUME OrderInv, VoiceInv', Spoken', clock' + FrameMs < TsMod,
           \A r \in 0 .. clock : Chain(r) => Chain(r)',
           UNCHANGED <<jitterVars, callVoice, history>>, playDone' \in BOOLEAN,
           \/ clock' = clock /\ playDone' = playDone
           \/ clock' = clock + FrameMs /\ playDone = TRUE /\ playDone' = FALSE
    PROVE  OrderInv'
<1>1. UNCHANGED <<frames, nextTs, playing, target, heard, voiceTsSeen, heldHere>>
  BY DEF jitterVars, callVoice, history
<1>2. Buffer'
  BY <1>1 DEF OrderInv, Buffer
<1>3. ASSUME frames # {} \/ playing PROVE \E r \in 0 .. clock' : Aligned(r)'
  <2>1. PICK r \in 0 .. clock : Aligned(r)
    BY <1>3 DEF OrderInv
  <2>2. Chain(r)'
    BY <2>1 DEF Aligned
  <2>3. Aligned(r)'
    BY <2>1, <2>2, AlignedKept
  <2>4. clock \in Nat /\ clock' \in Nat /\ clock <= clock'
    BY VoiceConstants DEF OrderInv, VoiceInv, Timely
  <2>5. r \in 0 .. clock'
    BY <2>4
  <2> QED
    BY <2>3, <2>5
<1> QED
  BY <1>1, <1>2, <1>3, Zenon DEF OrderInv

\* The types the order rests on.
LEMMA OrderTypes ==
    ASSUME OrderInv
    PROVE  /\ Timely /\ Spoken /\ VoiceInv /\ clock \in Nat /\ lastVoiceTs \in Nat
           /\ nextTs \in Nat /\ heard \in Int /\ LastSent \in Int
           /\ \A t \in frames : t \in Nat /\ born[t] \in Nat /\ born[t] <= clock
           /\ \A x \in SentTs : x \in Nat /\ x <= LastSent
                                /\ x <= clock /\ clock <= x + FrameMs * MaxDelay
           /\ clock + FrameMs < TsMod /\ FrameMs * MaxDelay \in Nat
           /\ FrameMs \in Nat \ {0} /\ TsMod \in Nat \ {0}
<1>1. /\ Timely /\ Spoken /\ VoiceInv /\ clock \in Nat /\ lastVoiceTs \in Nat
      /\ nextTs \in Nat /\ heard \in Int /\ clock + FrameMs < TsMod
  BY VoiceConstants DEF OrderInv, VoiceInv, Timely, Reference, Buffer
<1>2. LastSent \in Int
  BY <1>1, LatestSpoken
<1>3. \A t \in frames : t \in Nat /\ born[t] \in Nat /\ born[t] <= clock
  BY <1>1 DEF VoiceInv, Placement
<1>4. ASSUME NEW p \in network
      PROVE  /\ p.ts \in Nat /\ p.ts <= LastSent
             /\ p.ts <= clock /\ clock <= p.ts + FrameMs * MaxDelay
  BY <1>1, UnderWay DEF Timely
<1>5. \A x \in SentTs : \E p \in network : x = p.ts
  BY DEF SentTs
<1>6. \A x \in SentTs : /\ x \in Nat /\ x <= LastSent
                        /\ x <= clock /\ clock <= x + FrameMs * MaxDelay
  BY <1>4, <1>5, Zenon
<1> QED
  BY <1>1, <1>2, <1>3, <1>6, VoiceConstants

\* A new frame is spoken after all others.
LEMMA SendOrder == ASSUME OrderInv, SendVoice PROVE OrderInv'
<1> DEFINE new == [ts |-> clock, full |-> ~sentFormat, age |-> 0]
<1>1. /\ farDone = FALSE /\ farDone' = TRUE /\ quiet' = 0 /\ clock' = clock
      /\ network' = network \cup {new} /\ playDone' = playDone
      /\ UNCHANGED <<jitterVars, callVoice, history, frames, born, heard>>
  BY DEF SendVoice, history, jitterVars, OrderInv, VoiceInv, Timely
<1>2. new.ts = clock
  OBVIOUS
<1>3. VoiceInv' /\ \A r \in 0 .. clock : Chain(r) => Chain(r)'
  BY SendVoiceInv DEF OrderInv
<1> HIDE DEF new
<1>4. LastSent + FrameMs <= clock /\ LastSent \in Int /\ LastSent' = clock
  <2>1. FrameMs * 0 = 0
    BY VoiceConstants
  <2>2. LastSent' = clock
    BY <1>1, <2>1, OrderTypes DEF LastSent
  <2> QED
    BY <1>1, <2>2, OrderTypes, LatestSpoken
<1>5. \A p \in network : p.ts \in SentTs
  BY DEF SentTs
<1>6. \A p \in network : p.ts # clock
  BY <1>4, <1>5, OrderTypes
<1>7. \A p, q \in network' : p.ts = q.ts => p = q
  <2>1. \A p, q \in network : p.ts = q.ts => p = q
    BY OrderTypes, Zenon DEF Spoken
  <2> QED
    BY <1>1, <1>2, <1>6, <2>1, Zenon
<1>8. \A x \in SentTs' : x \in SentTs \/ (x \in Int /\ LastSent < x)
  <2>1. \A x \in SentTs' : x \in SentTs \/ x = clock
    BY <1>1, <1>2, Zenon DEF SentTs
  <2>2. clock \in Int /\ LastSent < clock
    BY <1>4, OrderTypes
  <2> QED
    BY <2>1, <2>2, Zenon
<1>9. Spoken'
  <2>1. LastSent <= LastSent' /\ LastSent' \in Int
    BY <1>4, OrderTypes
  <2>2. \A t \in frames : born[t] \in Int
    BY OrderTypes
  <2> QED
    BY <1>1, <1>7, <1>8, <2>1, <2>2, OrderTypes, SpokenKept
<1>10. playDone' \in BOOLEAN
  BY <1>1 DEF OrderInv, Buffer
<1>11. clock' + FrameMs < TsMod
  BY <1>1 DEF OrderInv
<1> QED
  BY <1>1, <1>3, <1>9, <1>10, <1>11, FarStepOrder

\* A silence and a loss add nothing.
LEMMA FewerOrder ==
    ASSUME OrderInv, VoiceInv', \A r \in 0 .. clock : Chain(r) => Chain(r)',
           UNCHANGED <<clock, playDone, jitterVars, callVoice, history>>,
           LastSent' = LastSent, network' \subseteq network
    PROVE  OrderInv'
<1>1. UNCHANGED <<frames, born, heard>>
  BY DEF jitterVars, history
<1>2. SentTs' \subseteq SentTs
  BY DEF SentTs
<1>3. \A p, q \in network' : p.ts = q.ts => p = q
  BY OrderTypes DEF Spoken
<1>4. Spoken'
  <2>1. LastSent <= LastSent' /\ LastSent' \in Int /\ \A t \in frames : born[t] \in Int
    BY OrderTypes
  <2> QED
    BY <1>1, <1>2, <1>3, <2>1, OrderTypes, SpokenKept
<1>5. playDone' \in BOOLEAN /\ clock' + FrameMs < TsMod
  BY DEF OrderInv, Buffer
<1> QED
  BY <1>4, <1>5, FarStepOrder

\* A silence of the far end sends nothing, so what is spoken stays as it is.
LEMMA SilentOrder == ASSUME OrderInv, FarSilent PROVE OrderInv'
<1>1. /\ farDone = FALSE /\ farDone' = TRUE /\ quiet' = quiet + 1 /\ network' = network
      /\ UNCHANGED <<clock, playDone, jitterVars, callVoice, history>>
  BY DEF FarSilent, OrderInv, VoiceInv, Timely
<1>2. LastSent' = LastSent
  BY <1>1 DEF LastSent
<1>3. VoiceInv' /\ \A r \in 0 .. clock : Chain(r) => Chain(r)'
  BY FarSilentInv DEF OrderInv
<1> QED
  BY <1>1, <1>2, <1>3, FewerOrder

\* A loss takes a frame from under way and leaves the order of the others.
LEMMA LoseOrder == ASSUME OrderInv, NEW p \in network, Lose(p) PROVE OrderInv'
<1>1. /\ network' = network \ {p} /\ UNCHANGED farEnd
      /\ UNCHANGED <<clock, playDone, jitterVars, callVoice, history>>
  BY DEF Lose, farEnd
<1>2. LastSent' = LastSent
  BY <1>1 DEF LastSent, farEnd
<1>3. VoiceInv' /\ \A r \in 0 .. clock : Chain(r) => Chain(r)'
  BY LoseInv DEF OrderInv
<1> QED
  BY <1>1, <1>2, <1>3, FewerOrder

\* A tick later the playout has a frame to go to what it was ahead.
LEMMA TickOrder == ASSUME OrderBounds, OrderInv, NextTick PROVE OrderInv'
<1>1. /\ farDone = TRUE /\ farDone' = FALSE /\ playDone = TRUE /\ playDone' = FALSE
      /\ clock < ClockMax /\ clock' = Advanced(clock) /\ quiet' = quiet
      /\ network' = {[p EXCEPT !.age = @ + 1] : p \in network}
      /\ UNCHANGED <<jitterVars, callVoice, history, frames, born, heard>>
  BY DEF NextTick, jitterVars, history, OrderInv, VoiceInv, Timely, Buffer
<1>2. clock' = clock + FrameMs /\ clock' + FrameMs < TsMod
  <2>1. clock + FrameMs \in 0 .. TsMod - 1
    BY OrderTypes
  <2>2. Advanced(clock) = clock + FrameMs
    BY <2>1, ModSmall, OrderTypes DEF Advanced
  <2> QED
    BY <1>1, <2>2, OrderTypes, VoiceConstants DEF OrderBounds
<1>3. VoiceInv' /\ \A r \in 0 .. clock : Chain(r) => Chain(r)'
  BY NextTickInv DEF OrderInv
<1>4. LastSent' = LastSent
  <2>1. LastSent = clock - FrameMs * quiet /\ LastSent' = clock' - FrameMs * (quiet + 1)
    BY <1>1 DEF LastSent
  <2>2. quiet \in Nat /\ \A n \in Nat : FrameMs * n \in Nat
                           /\ FrameMs * (n + 1) = FrameMs * n + FrameMs
    BY OrderTypes, VoiceConstants DEF Timely
  <2>3. FrameMs * quiet \in Nat /\ FrameMs * (quiet + 1) = FrameMs * quiet + FrameMs
    BY <2>2
  <2> QED
    BY <1>2, <2>1, <2>3, OrderTypes
<1>5. ASSUME NEW q \in network'
      PROVE  \E p \in network : q = [p EXCEPT !.age = @ + 1] /\ q.ts = p.ts
  <2>1. PICK p \in network : q = [p EXCEPT !.age = @ + 1]
    BY <1>1
  <2>2. p \in [ts : Nat, full : BOOLEAN, age : 0 .. MaxDelay]
    BY OrderTypes DEF Timely
  <2> QED
    BY <2>1, <2>2
<1>6. SentTs' \subseteq SentTs
  BY <1>5, Zenon DEF SentTs
<1>7. ASSUME NEW a \in network', NEW b \in network', a.ts = b.ts
      PROVE  a = b
  <2>1. \A p, q \in network : p.ts = q.ts => p = q
    BY OrderTypes, Zenon DEF Spoken
  <2>2. PICK p \in network : a = [p EXCEPT !.age = @ + 1] /\ a.ts = p.ts
    BY <1>5, Zenon
  <2>3. PICK q \in network : b = [q EXCEPT !.age = @ + 1] /\ b.ts = q.ts
    BY <1>5, Zenon
  <2>4. p = q
    BY <1>7, <2>1, <2>2, <2>3
  <2> QED
    BY <2>2, <2>3, <2>4
<1>8. Spoken'
  <2>1. LastSent <= LastSent' /\ LastSent' \in Int /\ \A t \in frames : born[t] \in Int
    BY <1>4, OrderTypes
  <2>2. \A x \in SentTs' : x \in SentTs
    BY <1>6
  <2> QED
    BY <1>1, <1>2, <1>7, <2>1, <2>2, OrderTypes, SpokenKept
<1>9. playDone' \in BOOLEAN
  BY <1>1
<1> QED
  BY <1>1, <1>2, <1>3, <1>8, <1>9, FarStepOrder

\* The offset of what is buffered, or of the cursor, leaves room for any frame
\* that may still arrive.
LEMMA RoomBelow ==
    ASSUME OrderInv, NearZero, NEW r \in 0 .. clock, Aligned(r), frames # {} \/ playing,
           NEW p \in network
    PROVE  r - lastVoiceTs <= p.ts
<1>1. /\ clock \in Nat /\ lastVoiceTs \in Nat /\ r \in Nat /\ nextTs \in Nat
      /\ p.ts \in Nat /\ clock <= p.ts + FrameMs * MaxDelay
      /\ FrameMs \in Nat /\ FrameMs * MaxDelay \in Nat
  BY OrderTypes DEF SentTs
<1>2. CASE playing
  <2>1. /\ FrameMs <= nextTs
        /\ nextTs + (r - lastVoiceTs) + FrameMs * MaxDelay <= clock + Turn
    BY <1>2 DEF Aligned, CursorAt, CursorTs
  <2>2. Turn \in Nat /\ Turn <= FrameMs
    BY <1>1 DEF Turn
  <2> QED
    BY <1>1, <2>1, <2>2
<1>3. CASE frames # {}
  <2>1. PICK t \in frames : TRUE
    BY <1>3
  <2>2. /\ born[t] = t + (r - lastVoiceTs) /\ t \in Nat /\ born[t] \in Nat /\ born[t] <= clock
        /\ FrameMs * MaxDelay <= t \/ born[t] = t
    BY OrderTypes DEF Aligned, NearZero
  <2> QED
    BY <1>1, <2>2
<1> QED
  BY <1>2, <1>3

\* A frame that is heard is placed with the offset of the others, unless it is
\* a full VOICE that shows them to be misplaced.
LEMMA SameOffset ==
    ASSUME OrderInv, NearZero, NEW p \in network, Deliver(p), heldHere = FALSE,
           ~Contradicts(p)
    PROVE  /\ lastVoiceTs' \in 0 .. p.ts /\ lastVoiceTs' % Wrap16 = p.ts % Wrap16
           /\ \A r \in 0 .. clock : Aligned(r) /\ (frames # {} \/ playing)
                                     => p.ts - lastVoiceTs' = r - lastVoiceTs
           /\ voiceTsSeen' = TRUE /\ Hear(lastVoiceTs', p)
<1>1. VoiceInv
  BY DEF OrderInv
<1>2. /\ voiceTsSeen' = TRUE /\ Hear(lastVoiceTs', p)
      /\ lastVoiceTs' \in 0 .. p.ts /\ lastVoiceTs' % Wrap16 = p.ts % Wrap16
      /\ voiceTsSeen => lastVoiceTs' = Reconstruct(lastVoiceTs, p.ts % Wrap16, TRUE)
  BY <1>1, ArrivalPlaced
<1>3. ASSUME NEW r \in 0 .. clock, Aligned(r), frames # {} \/ playing
      PROVE  p.ts - lastVoiceTs' = r - lastVoiceTs
  <2>1. voiceTsSeen
    BY <1>3 DEF OrderInv, VoiceInv, Placement, Buffer
  <2>2. r - lastVoiceTs <= p.ts
    BY <1>3, RoomBelow
  <2>3. SameWrap(r) /\ Chain(r)
    BY <1>3 DEF Aligned
  <2> QED
    BY <1>1, <1>2, <2>1, <2>2, <2>3, NearestPlaced, Zenon
<1> QED
  BY <1>2, <1>3, Zenon

\* A push never starts the playout, nor moves the cursor, nor keeps a frame
\* behind it.
LEMMA PushKeepsCursor ==
    ASSUME NEW ts, Push(ts)
    PROVE  /\ nextTs' = nextTs /\ (playing' => playing) /\ (playing' = playing \/ playing' = FALSE)
           /\ playing' => \A t \in frames' : t \in frames \/ ~(ts < nextTs)
<1>1. CASE PushLate(ts)
  BY <1>1 DEF Push, PushLate
<1>2. CASE PushResync(ts)
  BY <1>2 DEF Push, PushResync
<1>3. CASE PushKept(ts)
  BY <1>3 DEF Push, PushKept, Insert, TooLate
<1> QED
  BY <1>1, <1>2, <1>3 DEF Push

\* A frame that is heard takes its place among the others.
LEMMA HearAligned ==
    ASSUME OrderInv, NearZero, NEW p \in network, Deliver(p), heldHere = FALSE,
           ~Contradicts(p)
    PROVE  Aligned(p.ts)'
<1> DEFINE x == lastVoiceTs'
<1>1. /\ x \in 0 .. p.ts /\ x % Wrap16 = p.ts % Wrap16 /\ Push(x)
      /\ \A r \in 0 .. clock : Aligned(r) /\ (frames # {} \/ playing)
                                => p.ts - x = r - lastVoiceTs
      /\ born' = [t \in frames' |-> IF t = x THEN p.ts ELSE born[t]]
  BY SameOffset DEF Hear
<1>2. /\ UNCHANGED farEnd /\ losses' = losses /\ playDone' = playDone
      /\ network' = network \ {p} /\ clock' = clock
  BY DEF Deliver, farEnd
<1>3. /\ clock \in Nat /\ lastVoiceTs \in Nat /\ nextTs \in Nat /\ Timely
      /\ FrameMs * MaxDelay \in Nat /\ p.ts \in Nat /\ x \in Nat
  <2>1. p.ts \in Nat
    BY OrderTypes, UnderWay
  <2> QED
    BY <1>1, <2>1, OrderTypes
<1>4. /\ nextTs' = nextTs /\ (playing' => playing) /\ frames' \subseteq frames \cup {x}
      /\ playing' => \A t \in frames' : t \in frames \/ ~(x < nextTs)
  BY <1>1, PushKeepsCursor, PushedFrames
<1> HIDE DEF x
<1>5. SameWrap(p.ts)'
  BY <1>1, <1>3 DEF SameWrap, x
<1>6. Chain(p.ts)'
  BY <1>2, <1>3, ChainRestarts
<1>7. ASSUME NEW t \in frames' PROVE born'[t] = t + (p.ts - lastVoiceTs')
  <2>1. CASE t = x
    BY <1>1, <1>3, <2>1 DEF x
  <2>2. CASE t # x
    <3>1. t \in frames /\ born'[t] = born[t]
      BY <1>1, <1>4, <2>2
    <3>2. PICK r \in 0 .. clock : Aligned(r)
      BY <3>1 DEF OrderInv
    <3>3. born[t] = t + (r - lastVoiceTs) /\ p.ts - x = r - lastVoiceTs
      BY <1>1, <3>1, <3>2 DEF Aligned
    <3> QED
      BY <3>1, <3>3 DEF x
  <2> QED
    BY <2>1, <2>2
<1>8. ASSUME playing' PROVE CursorAt(p.ts)'
  <2>1. playing
    BY <1>4, <1>8
  <2>2. PICK r \in 0 .. clock : Aligned(r)
    BY <2>1 DEF OrderInv
  <2>3. /\ FrameMs <= nextTs /\ CursorTs(r) + FrameMs * MaxDelay <= clock + Turn
        /\ OnGrid(CursorTs(r)) /\ \A t \in frames : nextTs <= t
    BY <2>1, <2>2 DEF Aligned, CursorAt
  <2>4. CursorTs(p.ts)' = CursorTs(r)
    BY <1>1, <1>4, <2>1, <2>2 DEF CursorTs, x
  <2>5. OnGrid(CursorTs(p.ts))'
    BY <1>2, <2>3, <2>4 DEF OnGrid
  <2>6. \A t \in frames' : nextTs <= t
    BY <1>3, <1>4, <1>8, <2>3
  <2>7. Turn' = Turn
    BY <1>2 DEF Turn
  <2> QED
    BY <1>2, <1>4, <2>3, <2>4, <2>5, <2>6, <2>7 DEF CursorAt
<1> QED
  BY <1>5, <1>6, <1>7, <1>8, Zenon DEF Aligned

\* What is heard was under way until now.
LEMMA HearSpoken ==
    ASSUME OrderInv, NearZero, NEW p \in network, Deliver(p), heldHere = FALSE,
           ~Contradicts(p)
    PROVE  Spoken'
<1> DEFINE x == lastVoiceTs'
<1>1. /\ Push(x) /\ heard' = heard
      /\ born' = [t \in frames' |-> IF t = x THEN p.ts ELSE born[t]]
  BY SameOffset DEF Hear
<1>2. UNCHANGED farEnd /\ network' = network \ {p} /\ clock' = clock /\ LastSent' = LastSent
  BY DEF Deliver, farEnd, LastSent
<1>3. frames' \subseteq frames \cup {x}
  BY <1>1, PushedFrames
<1> HIDE DEF x
<1>4. \A q, s \in network : q.ts = s.ts => q = s
  BY OrderTypes, Zenon DEF Spoken
<1>5. SentTs' \subseteq SentTs /\ p.ts \notin SentTs' /\ p.ts \in SentTs
  BY <1>2, <1>4 DEF SentTs
<1>6. OnGrid(p.ts) /\ p.ts \in Nat /\ p.ts <= LastSent
  BY OrderTypes DEF OnGrid, Timely
<1>7. ASSUME NEW t \in frames'
      PROVE  /\ born'[t] <= LastSent' /\ OnGrid(born[t])' /\ born'[t] \notin SentTs'
             /\ heard' # None => heard' < born'[t]
  <2>1. CASE t = x
    <3>1. born'[t] = p.ts
      BY <1>1, <2>1
    <3>2. heard # None => heard < p.ts
      BY <1>5, OrderTypes, Zenon DEF Spoken
    <3>3. OnGrid(born[t])'
      BY <1>2, <1>6, <3>1 DEF OnGrid
    <3> QED
      BY <1>1, <1>2, <1>5, <1>6, <3>1, <3>2, <3>3
  <2>2. CASE t # x
    <3>1. t \in frames /\ born'[t] = born[t]
      BY <1>1, <1>3, <2>2
    <3>2. /\ born[t] <= LastSent /\ OnGrid(born[t]) /\ born[t] \notin SentTs
          /\ heard # None => heard < born[t]
      BY <3>1, OrderTypes, Zenon DEF Spoken
    <3>3. OnGrid(born[t])'
      BY <1>2, <3>1, <3>2 DEF OnGrid
    <3> QED
      BY <1>1, <1>2, <1>5, <3>1, <3>2, <3>3
  <2> QED
    BY <2>1, <2>2
<1>8. heard' # None => heard' <= LastSent' /\ \A y \in SentTs' : heard' < y
  BY <1>1, <1>2, <1>5, OrderTypes DEF Spoken
<1>9. \A q, s \in network' : q.ts = s.ts => q = s
  BY <1>2, <1>4
<1> QED
  BY <1>7, <1>8, <1>9, Zenon DEF Spoken

\* A frame that arrives takes its place in the order, or is not heard on hold.
LEMMA DeliverOrder ==
    ASSUME OrderInv, NearZero, NEW p \in network, Deliver(p), misled' = FALSE
    PROVE  OrderInv'
<1>1. VoiceInv'
  BY DeliverInv DEF OrderInv
<1>2. /\ network' = network \ {p} /\ playDone' = playDone /\ heldHere' = heldHere
      /\ UNCHANGED farEnd /\ clock' = clock /\ LastSent' = LastSent /\ heldHere \in BOOLEAN
  BY DEF Deliver, farEnd, LastSent, OrderInv, VoiceInv
<1>3. CASE heldHere
  <2>1. frames = {} /\ ~playing /\ playing \in BOOLEAN
    BY <1>2, <1>3 DEF OrderInv, VoiceInv, Placement, Buffer
  <2>2. UNCHANGED <<jitterVars, history>>
    BY <1>3 DEF Deliver, OnFullVoice, OnMini, NotHeard
  <2>3. UNCHANGED <<frames, playing, nextTs, target, heard, born>>
    BY <2>2 DEF jitterVars, history
  <2>4. Buffer'
    BY <1>2, <2>1, <2>3 DEF OrderInv, Buffer
  <2>5. SentTs' \subseteq SentTs /\ \A q, s \in network' : q.ts = s.ts => q = s
    BY <1>2, OrderTypes DEF SentTs, Spoken
  <2>6. Spoken'
    <3>1. LastSent <= LastSent' /\ LastSent' \in Int
      BY <1>2, OrderTypes
    <3> QED
      BY <1>2, <2>1, <2>3, <2>5, <3>1, OrderTypes, SpokenKept
  <2> QED
    BY <1>1, <1>2, <2>1, <2>3, <2>4, <2>6, Zenon DEF OrderInv
<1>4. CASE ~heldHere
  <2>1. heldHere = FALSE
    BY <1>2, <1>4
  <2>2. heldHere = FALSE /\ ~Contradicts(p)
    BY <2>1, NotContradicted
  <2>3. Aligned(p.ts)' /\ Spoken'
    BY <2>2, HearAligned, HearSpoken
  <2>4. Push(lastVoiceTs') /\ heard' = heard /\ voiceTsSeen' = TRUE
    BY <2>2, SameOffset DEF Hear
  <2>5. p.ts \in 0 .. clock'
    BY <1>2, OrderTypes, UnderWay
  <2>6. /\ IsFiniteSet(frames') /\ nextTs' = nextTs /\ target' \in Targets
        /\ (playing' = playing \/ playing' = FALSE)
    <3>1. frames' \subseteq frames \cup {lastVoiceTs'}
      BY <2>4, PushedFrames
    <3>2. IsFiniteSet(frames \cup {lastVoiceTs'})
      BY FS_AddElement DEF OrderInv, Buffer
    <3>3. IsFiniteSet(frames')
      BY <3>1, <3>2, FS_Subset
    <3>4. target' \in Targets
      BY <2>4 DEF Push, Estimate, OrderInv, Buffer
    <3> QED
      BY <2>4, <3>3, <3>4, PushKeepsCursor
  <2>7. Buffer'
    BY <1>2, <2>2, <2>4, <2>6 DEF OrderInv, Buffer
  <2>8. clock' + FrameMs < TsMod
    BY <1>2 DEF OrderInv
  <2> QED
    BY <1>1, <2>3, <2>5, <2>7, <2>8, Zenon DEF OrderInv
<1> QED
  BY <1>3, <1>4

\* What is buffered spans what lies between its oldest and its newest frame.
LEMMA SpanOfBuffer ==
    ASSUME OrderInv, NEW r \in 0 .. clock, Aligned(r), frames # {}
    PROVE  /\ Oldest(frames) \in frames /\ Newest(frames) \in frames
           /\ \A t \in frames : Oldest(frames) <= t /\ t <= Newest(frames)
           /\ Span = Newest(frames) - Oldest(frames) + FrameMs
<1> DEFINE o == Oldest(frames)
           n == Newest(frames)
<1>1. /\ clock \in Nat /\ clock + FrameMs < TsMod /\ FrameMs \in Nat \ {0}
      /\ TsMod \in Nat \ {0} /\ IsFiniteSet(frames) /\ frames \subseteq Int
      /\ \A t \in frames : t \in Nat /\ t <= clock
  <2>1. \A t \in frames : t \in Nat /\ born[t] <= clock /\ born[t] = t + (r - lastVoiceTs)
    BY OrderTypes DEF Aligned
  <2>2. r - lastVoiceTs \in Nat
    BY OrderTypes DEF Aligned, SameWrap
  <2>3. \A t \in frames : t <= clock
    BY <2>1, <2>2, OrderTypes
  <2>4. IsFiniteSet(frames)
    BY DEF OrderInv, Buffer
  <2> QED
    BY <2>1, <2>3, <2>4, OrderTypes
<1>2. o \in frames /\ n \in frames
  BY <1>1, OldestMember, NewestMember, Zenon
<1>3. \A t \in frames : o <= t
  BY <1>1, LeastExists DEF Oldest
<1>4. \A t \in frames : t <= n
  BY <1>1, GreatestExists DEF Newest
<1>5. Span = (n - o + FrameMs) % TsMod
  BY DEF Span
<1> HIDE DEF o, n
<1>6. o \in Nat /\ n \in Nat /\ o <= n /\ n <= clock
  BY <1>1, <1>2, <1>3, Zenon
<1>7. n - o + FrameMs \in 0 .. TsMod - 1
  BY <1>1, <1>6
<1>8. Span = n - o + FrameMs
  BY <1>1, <1>5, <1>7, ModSmall
<1> QED
  BY <1>2, <1>3, <1>4, <1>8 DEF o, n

\* Where the cursor stands while the miss budget is not spent, before its turn:
\* on a tick, behind which nothing is under way any more.
LEMMA CursorPlace ==
    ASSUME OrderBounds, OrderInv, NEW r \in 0 .. clock, Aligned(r), ~BudgetSpent,
           playDone = FALSE, playing \/ Primed
    PROVE  /\ Cursor \in Nat /\ (playing => Cursor = nextTs)
           /\ Cursor + (r - lastVoiceTs) + FrameMs * MaxDelay <= clock
           /\ OnGrid(Cursor + (r - lastVoiceTs))
           /\ \A t \in frames : Cursor <= t
           /\ Advanced(Cursor) = Cursor + FrameMs
           /\ ~playing => Cursor \in frames
<1> DEFINE off == r - lastVoiceTs
<1>1. /\ clock \in Nat /\ lastVoiceTs \in Nat /\ nextTs \in Nat /\ r \in Nat /\ Timely
      /\ clock + FrameMs < TsMod /\ FrameMs * MaxDelay \in Nat /\ FrameMs \in Nat \ {0}
      /\ TsMod \in Nat \ {0} /\ off \in Nat
      /\ \A t \in frames : t \in Nat /\ born[t] \in Nat /\ born[t] <= clock
                           /\ born[t] = t + off /\ OnGrid(born[t])
  BY OrderTypes DEF Aligned, SameWrap, Spoken
<1>2. CASE playing
  <2>1. /\ Cursor = nextTs
        /\ nextTs + off + FrameMs * MaxDelay <= clock + Turn /\ OnGrid(nextTs + off)
        /\ \A t \in frames : nextTs <= t
    BY <1>2 DEF Cursor, Start, Aligned, CursorAt, CursorTs
  <2>2. Turn = 0
    BY DEF Turn
  <2>3. nextTs + off + FrameMs * MaxDelay <= clock
    BY <1>1, <2>1, <2>2
  <2>4. nextTs + FrameMs \in 0 .. TsMod - 1
    BY <1>1, <2>3
  <2>5. Advanced(nextTs) = nextTs + FrameMs
    BY <1>1, <2>4, ModSmall DEF Advanced
  <2> QED
    BY <1>1, <1>2, <2>1, <2>3, <2>5
<1>3. CASE ~playing
  <2>1. frames # {} /\ Span >= target /\ Cursor = Oldest(frames)
    BY <1>3 DEF Cursor, Start, Primed
  <2>2. target \in Targets
    BY DEF OrderInv, Buffer
  <2> DEFINE o == Oldest(frames)
             n == Newest(frames)
  <2>3. /\ o \in frames /\ n \in frames /\ (\A t \in frames : o <= t)
        /\ Span = n - o + FrameMs
    BY <2>1, SpanOfBuffer
  <2> HIDE DEF o, n
  <2>4. o \in Nat /\ n \in Nat /\ n + off <= clock /\ OnGrid(o + off)
    BY <1>1, <2>3, Zenon
  <2>5. FrameMs * (MaxDelay + 1) = FrameMs * MaxDelay + FrameMs /\ MinDepth <= target
        /\ MinDepth \in Nat /\ target \in Nat
    BY <2>2, VoiceConstants, JitterAssumption DEF Targets
  <2>6. o + off + FrameMs * MaxDelay <= clock
    BY <1>1, <2>1, <2>3, <2>4, <2>5 DEF OrderBounds
  <2>7. o + FrameMs \in 0 .. TsMod - 1
    BY <1>1, <2>4, <2>6
  <2>8. Advanced(o) = o + FrameMs
    BY <1>1, <2>7, ModSmall DEF Advanced
  <2>9. Cursor = o
    BY <2>1 DEF o
  <2> QED
    BY <1>3, <2>3, <2>4, <2>6, <2>8, <2>9
<1> QED
  BY <1>2, <1>3

\* A pull that does not play from the buffer leaves it; one that does takes the
\* frame under the cursor.
LEMMA PulledFrames ==
    ASSUME Pull, playing \in BOOLEAN
    PROVE  \/ /\ playing' = FALSE /\ nextTs' = nextTs
              /\ frames' = frames /\ outcome' # "Play"
           \/ /\ playing' = TRUE /\ (playing \/ Primed) /\ nextTs' = Advanced(Cursor)
              /\ \/ Cursor \notin frames /\ frames' = frames /\ outcome' # "Play"
                 \/ /\ Cursor \in frames /\ frames' = frames \ {Cursor}
                    /\ outcome' = "Play" /\ lastPlayed' = Cursor
<1>1. CASE PullPriming
  BY <1>1 DEF PullPriming
<1>2. CASE PullEmpty
  BY <1>2 DEF PullEmpty
<1>3. CASE PullPlay
  BY <1>3 DEF PullPlay
<1>4. CASE PullConceal
  BY <1>4 DEF PullConceal
<1> QED
  BY <1>1, <1>2, <1>3, <1>4 DEF Pull

\* A pull moves the cursor on by the frame that it plays or conceals.
LEMMA PumpAligned ==
    ASSUME OrderBounds, OrderInv, NEW r \in 0 .. clock, Aligned(r), ~BudgetSpent,
           PumpPlayout, heldHere = FALSE, frames' # {} \/ playing'
    PROVE  Aligned(r)'
<1>1. /\ playDone = FALSE /\ playDone' = TRUE /\ Pull /\ LastSent' = LastSent
      /\ UNCHANGED <<network, losses, lastVoiceTs, voiceTsSeen, clock>>
      /\ born' = [t \in frames' |-> born[t]]
  BY DEF PumpPlayout, farEnd, callVoice, LastSent, OrderInv, Buffer
<1>2. frames' \subseteq frames
  BY <1>1, PulledFrames DEF OrderInv, Buffer
<1>3. SameWrap(r)'
  BY <1>1 DEF Aligned, SameWrap
<1>4. Chain(r)'
  BY <1>1, ChainKept DEF Aligned
<1>5. \A t \in frames' : born'[t] = t + (r - lastVoiceTs')
  BY <1>1, <1>2 DEF Aligned
<1>6. ASSUME playing' PROVE CursorAt(r)'
  <2>1. /\ playing \/ Primed
        /\ nextTs' = Advanced(Cursor)
        /\ (Cursor \notin frames /\ frames' = frames) \/ frames' = frames \ {Cursor}
    BY <1>1, <1>6, PulledFrames DEF OrderInv, Buffer
  <2> DEFINE c == Cursor
             off == r - lastVoiceTs
  <2>2. /\ c \in Nat /\ c + off + FrameMs * MaxDelay <= clock
        /\ OnGrid(c + off) /\ \A t \in frames : c <= t
        /\ nextTs' = c + FrameMs
    BY <1>1, <2>1, CursorPlace
  <2>3. /\ clock \in Nat /\ FrameMs \in Nat /\ FrameMs * MaxDelay \in Nat /\ Timely
        /\ lastVoiceTs \in Nat /\ r \in Nat
        /\ \A t \in frames : t \in Nat /\ born[t] = t + off /\ OnGrid(born[t])
    BY OrderTypes DEF Aligned, Spoken
  <2> HIDE DEF c
  <2>4. CursorTs(r)' = c + off + FrameMs
    BY <1>1, <2>2, <2>3 DEF CursorTs
  <2>5. CursorTs(r)' + FrameMs * MaxDelay <= clock' + Turn'
    <3>1. Turn' = FrameMs
      BY <1>1 DEF Turn
    <3> QED
      BY <1>1, <2>2, <2>3, <2>4, <3>1
  <2>6. OnGrid(CursorTs(r))'
    <3>1. c + off \in Int
      BY <2>2, <2>3
    <3>2. OnGrid(c + off + FrameMs)
      BY <2>2, <2>3, <3>1, GridMoves
    <3> QED
      BY <1>1, <2>4, <3>2 DEF OnGrid
  <2>7. ASSUME NEW t \in frames' PROVE nextTs' <= t
    <3>1. t \in frames /\ t # c
      BY <2>1, <2>7 DEF c
    <3>2. c + off < t + off /\ c + off \in Int /\ t + off \in Int
      BY <2>2, <2>3, <3>1
    <3>3. OnGrid(t + off)
      BY <2>3, <3>1, Zenon
    <3>4. c + off + FrameMs <= t + off
      BY <2>2, <2>3, <3>2, <3>3, Spaced
    <3> QED
      BY <2>2, <2>3, <3>1, <3>4
  <2>8. FrameMs <= nextTs'
    BY <2>2, <2>3
  <2> QED
    BY <2>5, <2>6, <2>7, <2>8, Zenon DEF CursorAt
<1> QED
  BY <1>3, <1>4, <1>5, <1>6, Zenon DEF Aligned

\* What is played was spoken before all that is buffered or under way.
LEMMA PlayedFirst ==
    ASSUME OrderBounds, OrderInv, ~BudgetSpent, PumpPlayout, heldHere = FALSE,
           outcome' = "Play"
    PROVE  /\ lastPlayed' \in frames /\ frames' = frames \ {lastPlayed'}
           /\ \A t \in frames' : born[lastPlayed'] < born[t]
           /\ \A x \in SentTs : born[lastPlayed'] < x
<1>1. playDone = FALSE /\ Pull
  BY DEF PumpPlayout, OrderInv, Buffer
<1>2. /\ playing \/ Primed
      /\ Cursor \in frames /\ frames' = frames \ {Cursor} /\ lastPlayed' = Cursor
  BY <1>1, PulledFrames DEF OrderInv, Buffer
<1>3. PICK r \in 0 .. clock : Aligned(r)
  BY <1>2 DEF OrderInv
<1> DEFINE c == Cursor
           off == r - lastVoiceTs
<1>4. /\ c \in Nat /\ c + off + FrameMs * MaxDelay <= clock /\ \A t \in frames : c <= t
  BY <1>1, <1>2, <1>3, CursorPlace
<1>5. /\ off \in Int /\ FrameMs * MaxDelay \in Nat /\ clock \in Nat
      /\ \A t \in frames : t \in Nat /\ born[t] = t + off /\ born[t] \notin SentTs
      /\ \A x \in SentTs : x \in Nat /\ clock <= x + FrameMs * MaxDelay
  BY <1>3, OrderTypes DEF Aligned, Spoken
<1> HIDE DEF c, off
<1>6. c \in frames /\ lastPlayed' = c /\ born[c] = c + off /\ frames' = frames \ {c}
  BY <1>2, <1>5 DEF c
<1>7. ASSUME NEW t \in frames' PROVE born[c] < born[t]
  BY <1>4, <1>5, <1>6
<1>8. ASSUME NEW x \in SentTs PROVE born[c] < x
  <2>1. born[c] # x /\ born[c] <= x
    BY <1>4, <1>5, <1>6
  <2> QED
    BY <1>4, <1>5, <1>6, <2>1
<1> QED
  BY <1>6, <1>7, <1>8

\* The playout: what is heard is the earliest of what has not been.
LEMMA PumpOrder ==
    ASSUME OrderBounds, OrderInv, ~BudgetSpent, PumpPlayout
    PROVE  OrderInv'
<1>1. /\ playDone = FALSE /\ playDone' = TRUE /\ LastSent' = LastSent
      /\ UNCHANGED <<network, lastVoiceTs, voiceTsSeen, heldHere, clock>>
      /\ heldHere \in BOOLEAN
  BY DEF PumpPlayout, farEnd, callVoice, LastSent, OrderInv, Buffer, VoiceInv
<1>2. VoiceInv'
  BY PumpInv DEF OrderInv
<1>3. SentTs' = SentTs /\ clock' + FrameMs < TsMod
  BY <1>1, OrderTypes DEF SentTs
<1>4. CASE heldHere
  <2>1. frames = {} /\ ~playing /\ playing \in BOOLEAN
    BY <1>1, <1>4 DEF OrderInv, VoiceInv, Placement, Buffer
  <2>2. UNCHANGED <<frames, playing, nextTs, target, heard, born>>
    BY <1>4 DEF PumpPlayout, NotHeard, jitterVars, history
  <2>3. Buffer'
    BY <1>1, <2>1, <2>2 DEF OrderInv, Buffer
  <2>4. Spoken'
    <3>1. LastSent <= LastSent' /\ LastSent' \in Int
      BY <1>1, OrderTypes
    <3>2. \A p, q \in network' : p.ts = q.ts => p = q
      BY <1>1, OrderTypes DEF Spoken
    <3> QED
      BY <1>1, <1>3, <2>1, <2>2, <3>1, <3>2, OrderTypes, SpokenKept
  <2> QED
    BY <1>2, <1>3, <2>1, <2>2, <2>3, <2>4, Zenon DEF OrderInv
<1>5. CASE ~heldHere
  <2>1. /\ heldHere = FALSE /\ Pull /\ born' = [t \in frames' |-> born[t]]
        /\ heard' = IF outcome' = "Play" THEN born[lastPlayed'] ELSE heard
    BY <1>1, <1>5 DEF PumpPlayout
  <2>2. /\ frames' \subseteq frames /\ playing' \in BOOLEAN /\ target' = target
        /\ playing' => playing \/ Primed
        /\ nextTs' = nextTs \/ (nextTs' = Advanced(Cursor) /\ (playing \/ Primed))
    <3>1. playing \in BOOLEAN /\ target' = target
      BY <2>1 DEF Pull, OrderInv, Buffer
    <3>2. \/ playing' = FALSE /\ nextTs' = nextTs /\ frames' = frames
          \/ /\ playing' = TRUE /\ (playing \/ Primed) /\ nextTs' = Advanced(Cursor)
             /\ frames' = frames \/ frames' = frames \ {Cursor}
      BY <2>1, <3>1, PulledFrames
    <3>3. frames \ {Cursor} \subseteq frames /\ TRUE \in BOOLEAN /\ FALSE \in BOOLEAN
      OBVIOUS
    <3> QED
      BY <3>1, <3>2, <3>3, Zenon
  <2>3. playing' => voiceTsSeen /\ heldHere = FALSE
    <3>1. Primed => frames # {}
      BY DEF Primed
    <3> QED
      BY <2>1, <2>2, <3>1 DEF OrderInv, VoiceInv, Placement, Buffer
  <2>4. ASSUME frames' # {} \/ playing' PROVE \E r \in 0 .. clock' : Aligned(r)'
    <3>1. frames # {} \/ playing
      BY <2>2, <2>4 DEF Primed
    <3>2. PICK r \in 0 .. clock : Aligned(r)
      BY <3>1 DEF OrderInv
    <3>3. Aligned(r)'
      BY <2>1, <2>4, <3>2, PumpAligned
    <3> QED
      BY <1>1, <3>2, <3>3
  <2>5. nextTs' \in Nat
    <3>1. CASE nextTs' = nextTs
      BY <3>1, OrderTypes
    <3>2. CASE nextTs' = Advanced(Cursor) /\ (playing \/ Primed)
      <4>1. frames # {} \/ playing
        BY <3>2 DEF Primed
      <4>2. PICK r \in 0 .. clock : Aligned(r)
        BY <4>1 DEF OrderInv
      <4>3. Cursor \in Nat /\ Advanced(Cursor) = Cursor + FrameMs
        BY <1>1, <3>2, <4>2, CursorPlace
      <4> QED
        BY <3>2, <4>3, VoiceConstants
    <3> QED
      BY <2>2, <3>1, <3>2
  <2>6. \A t \in frames' : /\ born'[t] = born[t] /\ born[t] \in Int
                           /\ born[t] <= LastSent /\ OnGrid(born[t])' /\ born[t] \notin SentTs
    <3> TAKE t \in frames'
    <3>1. t \in frames /\ born[t] \in Int
      BY <2>2, OrderTypes
    <3>2. born[t] <= LastSent /\ OnGrid(born[t]) /\ born[t] \notin SentTs
      BY <3>1, OrderTypes, Zenon DEF Spoken
    <3>3. born'[t] = born[t]
      BY <2>1
    <3>4. OnGrid(born[t])'
      BY <1>1, <3>2, <3>3 DEF OnGrid
    <3> QED
      BY <3>1, <3>2, <3>3, <3>4
  <2>7. CASE outcome' = "Play"
    <3>1. /\ lastPlayed' \in frames /\ heard' = born[lastPlayed']
          /\ \A t \in frames' : born[lastPlayed'] < born[t]
          /\ \A x \in SentTs : born[lastPlayed'] < x
      BY <2>1, <2>7, PlayedFirst
    <3>2. born[lastPlayed'] \in Int /\ born[lastPlayed'] <= LastSent
      BY <3>1, OrderTypes DEF Spoken
    <3>3. Spoken'
      <4>1. heard' <= LastSent' /\ \A x \in SentTs' : heard' < x
        BY <1>1, <1>3, <3>1, <3>2
      <4>2. \A p, q \in network' : p.ts = q.ts => p = q
        BY <1>1, OrderTypes DEF Spoken
      <4>3. \A t \in frames' : /\ born'[t] <= LastSent' /\ OnGrid(born[t])'
                               /\ born'[t] \notin SentTs' /\ heard' < born'[t]
        BY <1>1, <1>3, <2>6, <3>1
      <4> QED
        BY <4>1, <4>2, <4>3, Zenon DEF Spoken
    <3>4. Buffer'
      <4>1. IsFiniteSet(frames')
        BY <2>2, FS_Subset DEF OrderInv, Buffer
      <4> QED
        BY <1>1, <2>2, <2>3, <2>5, <3>1, <3>2, <4>1 DEF OrderInv, Buffer
    <3> QED
      BY <1>2, <1>3, <2>4, <3>3, <3>4, Zenon DEF OrderInv
  <2>8. CASE outcome' # "Play"
    <3>1. heard' = heard
      BY <2>1, <2>8
    <3>2. \A t \in frames' : t \in frames
      BY <2>2
    <3>3. Spoken'
      <4>1. heard' # None => heard' <= LastSent' /\ \A x \in SentTs' : heard' < x
        BY <1>1, <1>3, <3>1, OrderTypes, Zenon DEF Spoken
      <4>2. \A p, q \in network' : p.ts = q.ts => p = q
        BY <1>1, OrderTypes DEF Spoken
      <4>3. \A t \in frames' : heard # None => heard < born[t]
        BY <3>2, OrderTypes, Zenon DEF Spoken
      <4>4. \A t \in frames' : /\ born'[t] <= LastSent' /\ OnGrid(born[t])'
                               /\ born'[t] \notin SentTs'
                               /\ heard' # None => heard' < born'[t]
        BY <1>1, <1>3, <2>6, <3>1, <4>3
      <4> QED
        BY <4>1, <4>2, <4>4, Zenon DEF Spoken
    <3>4. Buffer'
      <4>1. IsFiniteSet(frames')
        BY <2>2, FS_Subset DEF OrderInv, Buffer
      <4> QED
        BY <1>1, <2>2, <2>3, <2>5, <3>1, <4>1 DEF OrderInv, Buffer
    <3> QED
      BY <1>2, <1>3, <2>4, <3>3, <3>4, Zenon DEF OrderInv
  <2> QED
    BY <2>7, <2>8
<1> QED
  BY <1>4, <1>5

\* A switch empties the buffer; what was heard stays in the past.
LEMMA SwitchOrder == ASSUME OrderInv, Switch PROVE OrderInv'
<1>1. /\ frames' = {} /\ playing' = FALSE /\ target' = MinDepth /\ nextTs' = nextTs
      /\ UNCHANGED <<farEnd, network, playDone, heard, clock>> /\ LastSent' = LastSent
  BY DEF Switch, Reset, farEnd, LastSent
<1>2. VoiceInv'
  BY SwitchInv DEF OrderInv
<1>3. MinDepth \in Targets
  BY JitterAssumption DEF Targets
<1>4. Buffer'
  BY <1>1, <1>3, FS_EmptySet DEF OrderInv, Buffer
<1>5. SentTs' = SentTs
  BY <1>1 DEF SentTs
<1>6. Spoken'
  <2>1. \A p, q \in network' : p.ts = q.ts => p = q
    BY <1>1, OrderTypes DEF Spoken
  <2>2. heard' # None => heard' <= LastSent' /\ \A x \in SentTs' : heard' < x
    BY <1>1, <1>5, OrderTypes DEF Spoken
  <2> QED
    BY <1>1, <2>1, <2>2, Zenon DEF Spoken
<1>7. clock' + FrameMs < TsMod
  BY <1>1 DEF OrderInv
<1> QED
  BY <1>1, <1>2, <1>4, <1>6, <1>7 DEF OrderInv

\* Before the first frame there is nothing to order.
LEMMA OrderInit == ASSUME OrderBounds, VoiceInit PROVE OrderInv
<1>1. /\ frames = {} /\ network = {} /\ playing = FALSE /\ playDone = FALSE /\ heard = None
      /\ nextTs = 0 /\ target = MinDepth /\ clock \in FirstTs
  BY DEF VoiceInit, JitterInit
<1>2. VoiceInv
  BY VoiceInitInv
<1>3. MinDepth \in Targets
  BY JitterAssumption DEF Targets
<1>4. Buffer
  <2>1. IsFiniteSet(frames)
    BY <1>1, FS_EmptySet
  <2>2. 0 \in Nat /\ heard \in Int
    BY <1>1 DEF None
  <2>3. playing \in BOOLEAN /\ playDone \in BOOLEAN
    BY <1>1
  <2> QED
    BY <1>1, <1>3, <2>1, <2>2, <2>3, Zenon DEF Buffer
<1>5. Spoken
  BY <1>1 DEF Spoken
<1>6. clock + FrameMs < TsMod
  BY <1>1, VoiceAssumption, VoiceConstants DEF OrderBounds
<1> QED
  BY <1>1, <1>2, <1>4, <1>5, <1>6 DEF OrderInv

\* Every step keeps the order.
LEMMA OrderStep ==
    ASSUME OrderBounds, OrderInv, NearZero, misled' = FALSE, ~BudgetSpent,
           [VoiceNext]_voiceVars
    PROVE  OrderInv'
<1>1. CASE UNCHANGED voiceVars
  <2>1. /\ UNCHANGED <<clock, playDone, jitterVars, callVoice, history, network, losses>>
        /\ LastSent' = LastSent /\ UNCHANGED farEnd
    BY <1>1 DEF voiceVars, farEnd, LastSent
  <2>2. \A r \in 0 .. clock : Chain(r) => Chain(r)'
    BY <2>1, ChainKept, Zenon
  <2>3. VoiceInv'
    <3>1. Timely'
      BY <2>1 DEF OrderInv, VoiceInv, Timely, farEnd, callVoice
    <3>2. UNCHANGED <<frames, born, stray, lastVoiceTs, voiceTsSeen, heldHere>>
      BY <2>1 DEF jitterVars, callVoice, history
    <3> QED
      BY <2>1, <2>2, <3>1, <3>2, FarTurnInv, Zenon DEF OrderInv
  <2> QED
    BY <2>1, <2>2, <2>3, FewerOrder
<1>2. CASE VoiceNext
  BY <1>2, SendOrder, SilentOrder, LoseOrder, DeliverOrder, TickOrder, PumpOrder, SwitchOrder
  DEF VoiceNext
<1> QED
  BY <1>1, <1>2

\* The order, while the reference is of use.
OrderMisled == VoiceInv /\ misled \in BOOLEAN /\ (misled = FALSE => NearZero /\ OrderInv)

\* What is heard keeps the order in which it was spoken, whatever is lost (the
\* full VOICE included), is overtaken, stops for a hold of the far end or starts
\* again after one here: as long as the miss budget of pull is not spent (its
\* jump to the newest frame leaves older ones behind it) and until mini-frames
\* overtake the full VOICE or are placed next to 0.
THEOREM HeardAsSpoken ==
    ASSUME OrderBounds
    PROVE  VoiceSpec /\ []~BudgetSpent => HeardInOrder
<1>1. VoiceInit => OrderMisled
  <2> SUFFICES ASSUME VoiceInit PROVE OrderMisled
    OBVIOUS
  <2>1. OrderInv
    BY OrderInit
  <2>2. frames = {} /\ misled = FALSE
    BY DEF VoiceInit, JitterInit
  <2> QED
    BY <2>1, <2>2 DEF OrderMisled, OrderInv, NearZero
<1>2. OrderMisled /\ ~BudgetSpent /\ [VoiceNext]_voiceVars => OrderMisled'
  <2> SUFFICES ASSUME OrderMisled, ~BudgetSpent, [VoiceNext]_voiceVars PROVE OrderMisled'
    OBVIOUS
  <2>1. VoiceInv'
    BY VoiceStep DEF OrderMisled
  <2>2. misled' \in BOOLEAN /\ (misled' = FALSE => misled = FALSE /\ NearZero')
    BY <2>1, NearZeroKept DEF OrderMisled
  <2>3. ASSUME misled' = FALSE PROVE OrderInv'
    <3>1. OrderInv /\ NearZero
      BY <2>2, <2>3 DEF OrderMisled
    <3> QED
      BY <2>3, <3>1, OrderStep
  <2> QED
    BY <2>1, <2>2, <2>3, Zenon DEF OrderMisled
<1>3. OrderMisled /\ ~BudgetSpent /\ [VoiceNext]_voiceVars
        => [~misled' /\ heard' # heard /\ heard # None => heard' > heard]_voiceVars
  <2> SUFFICES ASSUME OrderMisled, ~BudgetSpent, VoiceNext, ~misled', heard' # heard,
                      heard # None
               PROVE  heard' > heard
    OBVIOUS
  <2>1. OrderInv
    <3>1. VoiceInv' /\ [VoiceNext]_voiceVars
      BY VoiceStep DEF OrderMisled
    <3>2. misled' \in BOOLEAN /\ (misled' = FALSE => misled = FALSE)
      BY <3>1, NearZeroKept DEF OrderMisled
    <3> QED
      BY <3>2 DEF OrderMisled
  <2>2. PumpPlayout
    BY DEF VoiceNext, SendVoice, FarSilent, Lose, Deliver, OnFullVoice, OnMini, Hear,
           NotHeard, NextTick, Switch, history
  <2>3. /\ heldHere = FALSE /\ outcome' = "Play" /\ heard' = born[lastPlayed']
    BY <2>1, <2>2 DEF PumpPlayout, NotHeard, history, OrderInv, VoiceInv
  <2>4. lastPlayed' \in frames
    BY <2>1, <2>2, <2>3, PlayedFirst
  <2>5. heard < born[lastPlayed'] /\ heard \in Int /\ born[lastPlayed'] \in Int
    BY <2>1, <2>4, OrderTypes DEF Spoken
  <2> QED
    BY <2>3, <2>5
<1> QED
  BY <1>1, <1>2, <1>3, PTL DEF VoiceSpec, HeardInOrder
-----------------------------------------------------------------------------
(* Nothing is discarded                                                    *)

Buffered == {born[t] : t \in frames}

\* The frames from a on that were spoken and are neither buffered nor under way.
Missing(a) ==
    {x \in a .. LastSent : OnGrid(x) /\ x \notin SentTs /\ x \notin Buffered}

\* The playout's time: a frame ahead of the far end's once it had its turn.
Now == clock + Turn

\* How far the playout may stay behind: it waits for the target to be spanned
\* while what is under way or lost leaves holes.
Lag == MaxDepth + FrameMs * (2 * MaxDelay + MaxLoss)

\* The frame that the cursor waits for: nothing spoken before is under way, and
\* there are as many holes to conceal as the miss budget leaves room for.
CursorKept(c) ==
    /\ c + FrameMs * (MaxDelay + 1) <= Now
    /\ Now < c + Lag + FrameMs
    /\ missBudget + Cardinality(Missing(c)) <= MaxDelay + losses

Kept ==
    /\ quiet = 0 /\ missBudget \in Nat /\ (playing = FALSE => missBudget = 0)
    /\ unheard = Cardinality(frames)
    /\ \A x \in Buffered : /\ Now < x + Lag + FrameMs
                           /\ Cardinality(Missing(x)) <= MaxDelay + losses

Playable ==
    frames # {} \/ playing =>
        \E r \in 0 .. clock, c \in Int :
            Aligned(r) /\ (playing => c = CursorTs(r) /\ CursorKept(c))

\* Until the far end first stops, and while the reference is of use.
KeptInv ==
    /\ VoiceInv /\ farHeld \in BOOLEAN /\ misled \in BOOLEAN
    /\ misled = FALSE => NearZero
    /\ farHeld = FALSE /\ misled = FALSE => OrderInv /\ Kept /\ Playable

\* The least depth covers the delay of the network and two frames; the greatest
\* covers the holes, and the buffer has room for twice as much; the miss budget
\* is never spent on what is lost.
KeptBounds ==
    /\ FrameMs * (MaxDelay + 2) <= MinDepth
    /\ FrameMs * (2 * MaxDelay + MaxLoss + 1) <= MaxDepth
    /\ 2 * MaxDepth <= FrameMs * MaxFrames
    /\ MaxLoss + MaxDelay <= MissThreshold
    /\ ClockMax + 2 * FrameMs <= TsMod

\* What the bounds say of the lag.
LEMMA BoundsFacts ==
    ASSUME KeptBounds
    PROVE  /\ OrderBounds
           /\ Lag \in Nat /\ FrameMs * MaxDelay \in Nat /\ FrameMs * (MaxDelay + 1) \in Nat
           /\ FrameMs * (MaxDelay + 1) = FrameMs * MaxDelay + FrameMs
           /\ FrameMs * (MaxDelay + 1) + FrameMs <= MinDepth
           /\ Lag + FrameMs <= 2 * MaxDepth /\ FrameMs * (MaxDelay + 1) <= Lag
           /\ MinDepth \in Nat /\ MaxDepth \in Nat
<1>1. /\ FrameMs \in Nat \ {0} /\ MaxDelay \in Nat /\ MaxLoss \in Nat
      /\ MinDepth \in Nat /\ MaxDepth \in Nat
  BY VoiceConstants, JitterAssumption
<1>2. \A a, b \in Nat : /\ a * b \in Nat
                        /\ a * (b + 1) = a * b + a
                        /\ a * (b + 2) = a * b + a + a
  OBVIOUS
<1>3. \A a, b, c \in Nat : b <= c => a * b <= a * c
  OBVIOUS
<1>4. /\ FrameMs * MaxDelay \in Nat
      /\ FrameMs * (MaxDelay + 1) = FrameMs * MaxDelay + FrameMs
      /\ FrameMs * (MaxDelay + 2) = FrameMs * MaxDelay + FrameMs + FrameMs
  BY <1>1, <1>2
<1>5. 2 * MaxDelay + MaxLoss \in Nat /\ MaxDelay <= 2 * MaxDelay + MaxLoss
  BY <1>1
<1> DEFINE h == 2 * MaxDelay + MaxLoss
<1>6. h \in Nat /\ MaxDelay <= h
  BY <1>5
<1> HIDE DEF h
<1>7. /\ FrameMs * h \in Nat /\ FrameMs * (h + 1) = FrameMs * h + FrameMs
      /\ FrameMs * MaxDelay <= FrameMs * h
  BY <1>1, <1>2, <1>3, <1>6
<1>8. Lag = MaxDepth + FrameMs * h
  BY DEF Lag, h
<1>9. FrameMs * (h + 1) <= MaxDepth
  BY DEF h, KeptBounds
<1>10. OrderBounds
  BY <1>1, <1>4 DEF KeptBounds, OrderBounds
<1>11. FrameMs * MaxDelay + FrameMs + FrameMs <= MinDepth
  BY <1>4 DEF KeptBounds
<1> QED
  BY <1>1, <1>4, <1>7, <1>8, <1>9, <1>10, <1>11

\* A set of ticks of the past within n frames has at most n elements.
LEMMA TickCount ==
    ASSUME Timely, NEW n \in Nat, NEW off \in Int, NEW S, S \subseteq Int,
           \A x \in S : OnGrid(x + off) /\ x + off <= clock /\ clock < x + off + FrameMs * n
    PROVE  IsFiniteSet(S) /\ Cardinality(S) <= n
<1> DEFINE f == [x \in S |-> CHOOSE k \in Int : (x + off) + FrameMs * k = clock]
<1>1. clock \in Nat /\ FrameMs \in Nat \ {0}
  BY VoiceConstants DEF Timely
<1>2. \A x \in S : f[x] \in Int /\ (x + off) + FrameMs * f[x] = clock
  BY DEF OnGrid
<1>3. \A a, b \in Int : /\ FrameMs * a \in Int
                        /\ FrameMs * a < FrameMs * b => a < b
  <2>1. \A a, b \in Int : b <= a => FrameMs * b <= FrameMs * a
    BY <1>1
  <2> QED
    BY <1>1, <2>1
<1> HIDE DEF f
<1>4. ASSUME NEW x \in S PROVE f[x] \in 0 .. n - 1
  <2>1. f[x] \in Int /\ x \in Int /\ FrameMs * f[x] = clock - (x + off)
        /\ FrameMs * f[x] \in Int
    BY <1>1, <1>2, <1>3
  <2>2. 0 <= FrameMs * f[x] /\ FrameMs * f[x] < FrameMs * n
    BY <1>1, <1>3, <2>1
  <2>3. f[x] < n
    BY <1>3, <2>1, <2>2
  <2>4. FrameMs * (-1) = -FrameMs /\ FrameMs * (-1) < FrameMs * f[x]
    BY <1>1, <2>1, <2>2
  <2>5. -1 < f[x]
    BY <1>3, <2>1, <2>4
  <2> QED
    BY <2>1, <2>3, <2>5
<1>5. ASSUME NEW x \in S, NEW y \in S, f[x] = f[y] PROVE x = y
  <2>1. x \in Int /\ y \in Int /\ FrameMs * f[x] \in Int
    BY <1>2, <1>3
  <2>2. (x + off) + FrameMs * f[x] = (y + off) + FrameMs * f[x]
    BY <1>2, <1>5
  <2> QED
    BY <2>1, <2>2
<1>6. f \in Injection(S, 0 .. n - 1)
  BY <1>4, <1>5 DEF f, Injection, IsInjective
<1>7. IsFiniteSet(0 .. n - 1) /\ Cardinality(0 .. n - 1) = n
  BY FS_Interval
<1> QED
  BY <1>6, <1>7, FS_Injection

\* There are finitely many holes, fewer from a later frame on.
LEMMA MissingFinite ==
    ASSUME Timely, NEW a \in Int
    PROVE  IsFiniteSet(Missing(a)) /\ Cardinality(Missing(a)) \in Nat
<1>1. LastSent \in Int
  BY LatestSpoken
<1>2. IsFiniteSet(a .. LastSent)
  BY <1>1, FS_Interval
<1>3. IsFiniteSet(Missing(a))
  BY <1>2, FS_Subset DEF Missing
<1> QED
  BY <1>3, FS_CardinalityType

\* The types that what is kept rests on.
LEMMA KeptTypes ==
    ASSUME OrderInv, Kept
    PROVE  /\ losses \in Nat /\ losses <= MaxLoss /\ missBudget \in Nat /\ MaxDelay \in Nat
           /\ playing \in BOOLEAN /\ playDone \in BOOLEAN /\ IsFiniteSet(frames)
           /\ Turn \in Nat /\ Turn <= FrameMs /\ (playDone = FALSE => Turn = 0)
           /\ Now = clock + Turn /\ Now \in Nat /\ quiet = 0
<1>1. losses \in 0 .. MaxLoss
  BY OrderTypes DEF Timely
<1>2. losses \in Nat /\ losses <= MaxLoss
  BY <1>1, VoiceConstants
<1>3. playing \in BOOLEAN /\ playDone \in BOOLEAN /\ IsFiniteSet(frames)
  BY Zenon DEF OrderInv, Buffer
<1>4. missBudget \in Nat /\ quiet = 0
  BY Zenon DEF Kept
<1>5. FrameMs \in Nat /\ clock \in Nat /\ MaxDelay \in Nat
  BY OrderTypes, VoiceConstants
<1>6. Turn \in Nat /\ Turn <= FrameMs /\ (playDone = FALSE => Turn = 0)
  BY <1>3, <1>5 DEF Turn
<1>7. Now = clock + Turn /\ Now \in Nat
  BY <1>5, <1>6 DEF Now
<1> QED
  BY <1>2, <1>3, <1>4, <1>5, <1>6, <1>7

\* The miss budget is never spent.
LEMMA BudgetKept ==
    ASSUME KeptBounds, OrderInv, Kept, Playable
    PROVE  ~BudgetSpent
<1>1. losses \in Nat /\ losses <= MaxLoss /\ MissThreshold \in Nat /\ missBudget \in Nat
      /\ playing \in BOOLEAN
  BY KeptTypes, JitterAssumption
<1>2. CASE playing
  <2>1. PICK c \in Int : missBudget + Cardinality(Missing(c)) <= MaxDelay + losses
    <3>1. PICK r \in 0 .. clock, c \in Int : playing => CursorKept(c)
      BY <1>2, Zenon DEF Playable
    <3> QED
      BY <1>2, <3>1, Zenon DEF CursorKept
  <2>2. Cardinality(Missing(c)) \in Nat
    BY OrderTypes, MissingFinite
  <2> QED
    BY <1>1, <2>1, <2>2, VoiceConstants DEF BudgetSpent, KeptBounds
<1>3. CASE ~playing
  BY <1>1, <1>3 DEF Kept, BudgetSpent
<1> QED
  BY <1>2, <1>3

\* What the far end and the network do costs at most the holes they make.
LEMMA FarStepKept ==
    ASSUME OrderInv, Kept, Playable, quiet' = 0,
           \A r \in 0 .. clock : Chain(r) => Chain(r)',
           UNCHANGED <<jitterVars, callVoice, history>>, playDone' \in BOOLEAN,
           \/ clock' = clock /\ playDone' = playDone
           \/ clock' = clock + FrameMs /\ playDone = TRUE /\ playDone' = FALSE,
           losses' \in Nat,
           \A a \in Int : Cardinality(Missing(a)') + losses
                            <= Cardinality(Missing(a)) + losses'
                          /\ Cardinality(Missing(a)') \in Nat
    PROVE  Kept' /\ Playable'
<1>1. UNCHANGED <<frames, nextTs, playing, missBudget, born, unheard, lastVoiceTs>>
  BY DEF jitterVars, callVoice, history
<1>2. Now' = Now /\ Now \in Int /\ clock \in Nat /\ clock' \in Nat /\ clock <= clock'
  <2>1. clock \in Nat /\ FrameMs \in Nat /\ playDone \in BOOLEAN /\ Now \in Int
    BY OrderTypes, KeptTypes
  <2>2. CASE clock' = clock /\ playDone' = playDone
    BY <2>1, <2>2 DEF Now, Turn
  <2>3. CASE clock' = clock + FrameMs /\ playDone = TRUE /\ playDone' = FALSE
    BY <2>1, <2>3 DEF Now, Turn
  <2> QED
    BY <2>1, <2>2, <2>3
<1>3. /\ losses \in Nat /\ MaxDelay \in Nat /\ missBudget \in Nat
      /\ \A a \in Int : Cardinality(Missing(a)) \in Nat
  BY OrderTypes, KeptTypes, MissingFinite
<1>4. Buffered' = Buffered /\ Buffered \subseteq Int
  BY <1>1, OrderTypes DEF Buffered
<1>5. ASSUME NEW a \in Int, NEW m \in Nat, m + Cardinality(Missing(a)) <= MaxDelay + losses
      PROVE  m + Cardinality(Missing(a)') <= MaxDelay + losses'
  <2>1. Cardinality(Missing(a)') + losses <= Cardinality(Missing(a)) + losses'
        /\ Cardinality(Missing(a)') \in Nat
    OBVIOUS
  <2>2. Cardinality(Missing(a)) \in Nat
    BY <1>3
  <2> QED
    BY <1>3, <1>5, <2>1, <2>2
<1>6. Kept'
  <2>1. ASSUME NEW x \in Buffered'
        PROVE  Now' < x + Lag + FrameMs /\ Cardinality(Missing(x)') <= MaxDelay + losses'
    <3>1. x \in Int /\ x \in Buffered
      BY <1>4
    <3>2. Now < x + Lag + FrameMs /\ Cardinality(Missing(x)) <= MaxDelay + losses
      BY <3>1 DEF Kept
    <3>3. 0 + Cardinality(Missing(x)') <= MaxDelay + losses'
      BY <1>3, <1>5, <3>1, <3>2
    <3> QED
      BY <1>2, <3>1, <3>2, <3>3
  <2>2. missBudget' \in Nat /\ (playing' = FALSE => missBudget' = 0)
        /\ unheard' = Cardinality(frames')
    BY <1>1 DEF Kept
  <2> QED
    BY <2>1, <2>2, Zenon DEF Kept
<1>7. ASSUME frames # {} \/ playing
      PROVE  \E r \in 0 .. clock', c \in Int :
               Aligned(r)' /\ (playing' => c = CursorTs(r)' /\ CursorKept(c)')
  <2>1. PICK r \in 0 .. clock, c \in Int :
          Aligned(r) /\ (playing => c = CursorTs(r) /\ CursorKept(c))
    BY <1>7, Zenon DEF Playable
  <2>2. Aligned(r)'
    <3>1. Chain(r)'
      BY <2>1 DEF Aligned
    <3> QED
      BY <2>1, <3>1, AlignedKept
  <2>3. r \in 0 .. clock'
    BY <1>2
  <2>4. CursorTs(r)' = CursorTs(r)
    BY <1>1, Zenon DEF CursorTs
  <2>5. ASSUME playing PROVE CursorKept(c)'
    <3>1. /\ c + FrameMs * (MaxDelay + 1) <= Now /\ Now < c + Lag + FrameMs
          /\ missBudget + Cardinality(Missing(c)) <= MaxDelay + losses
      BY <2>1, <2>5 DEF CursorKept
    <3>2. missBudget + Cardinality(Missing(c)') <= MaxDelay + losses'
      BY <1>3, <1>5, <3>1
    <3> QED
      BY <1>1, <1>2, <3>1, <3>2, Zenon DEF CursorKept
  <2> QED
    BY <1>1, <2>1, <2>2, <2>3, <2>4, <2>5, Zenon
<1> QED
  BY <1>1, <1>6, <1>7, Zenon DEF Playable

\* What is missing less does not make more holes.
LEMMA FewerMissing ==
    ASSUME NEW S, NEW T, IsFiniteSet(T), S \subseteq T
    PROVE  Cardinality(S) <= Cardinality(T) /\ Cardinality(S) \in Nat /\ IsFiniteSet(S)
<1>1. IsFiniteSet(S) /\ Cardinality(S) <= Cardinality(T)
  BY FS_Subset
<1> QED
  BY <1>1, FS_CardinalityType

\* A new frame closes the tick it is spoken in.
LEMMA SendKept ==
    ASSUME OrderInv, Kept, Playable, SendVoice
    PROVE  Kept' /\ Playable'
<1> DEFINE new == [ts |-> clock, full |-> ~sentFormat, age |-> 0]
<1>1. /\ farDone = FALSE /\ farDone' = TRUE /\ quiet' = 0 /\ clock' = clock
      /\ network' = network \cup {new} /\ playDone' = playDone /\ losses' = losses
      /\ UNCHANGED <<jitterVars, callVoice, history, frames, born>>
  BY DEF SendVoice, history, jitterVars, OrderInv, VoiceInv, Timely
<1>2. new.ts = clock
  OBVIOUS
<1> HIDE DEF new
<1>3. SentTs' = SentTs \cup {clock} /\ Buffered' = Buffered
  BY <1>1, <1>2, Zenon DEF SentTs, Buffered
<1>4. LastSent' = clock /\ LastSent = clock - FrameMs
  <2>1. FrameMs * 0 = 0 /\ FrameMs * (0 + 1) = FrameMs
    BY VoiceConstants
  <2> QED
    BY <1>1, <2>1, OrderTypes DEF LastSent, Kept
<1>5. clock \in Nat /\ FrameMs \in Nat /\ Timely /\ OnGrid(clock)
  <2>1. FrameMs * 0 = 0 /\ 0 \in Int
    BY VoiceConstants
  <2>2. clock + FrameMs * 0 = clock
    BY <2>1, OrderTypes
  <2> QED
    BY <2>1, <2>2, OrderTypes, Zenon DEF OnGrid
<1>6. ASSUME NEW a \in Int PROVE Missing(a)' \subseteq Missing(a)
  <2>1. ASSUME NEW x \in Missing(a)' PROVE x \in Missing(a)
    <3>1. /\ x \in Int /\ a <= x /\ x <= clock /\ OnGrid(x) /\ x \notin SentTs /\ x # clock
          /\ x \notin Buffered
      BY <1>1, <1>3, <1>4, <1>5, <2>1 DEF Missing, OnGrid
    <3>2. x + FrameMs <= clock
      BY <1>5, <3>1, Spaced
    <3>3. x \in a .. LastSent
      BY <1>4, <1>5, <3>1, <3>2
    <3> QED
      BY <3>1, <3>3, Zenon DEF Missing
  <2> QED
    BY <2>1
<1>7. ASSUME NEW a \in Int
      PROVE  Cardinality(Missing(a)') + losses <= Cardinality(Missing(a)) + losses'
             /\ Cardinality(Missing(a)') \in Nat
  <2>1. IsFiniteSet(Missing(a)) /\ Cardinality(Missing(a)) \in Nat /\ losses \in Nat
    BY OrderTypes, MissingFinite, KeptTypes
  <2>2. Cardinality(Missing(a)') <= Cardinality(Missing(a))
        /\ Cardinality(Missing(a)') \in Nat
    BY <1>6, <2>1, FewerMissing
  <2> QED
    BY <1>1, <2>1, <2>2
<1>8. \A r \in 0 .. clock : Chain(r) => Chain(r)'
  BY SendVoiceInv DEF OrderInv
<1>9. playDone' \in BOOLEAN /\ losses' \in Nat
  BY <1>1, KeptTypes
<1> QED
  BY <1>1, <1>7, <1>8, <1>9, FarStepKept

\* A loss makes one hole.
LEMMA LoseKept ==
    ASSUME OrderInv, Kept, Playable, NEW p \in network, Lose(p)
    PROVE  Kept' /\ Playable'
<1>1. /\ network' = network \ {p} /\ losses' = losses + 1 /\ UNCHANGED farEnd
      /\ UNCHANGED <<clock, playDone, jitterVars, callVoice, history, frames, born>>
      /\ LastSent' = LastSent /\ quiet' = 0
  BY DEF Lose, farEnd, LastSent, Kept, jitterVars, history
<1>2. losses \in Nat /\ losses' \in Nat /\ playDone' \in BOOLEAN
  BY <1>1, KeptTypes
<1>3. SentTs \subseteq SentTs' \cup {p.ts} /\ Buffered' = Buffered
  BY <1>1 DEF SentTs, Buffered
<1>4. ASSUME NEW a \in Int PROVE Missing(a)' \subseteq Missing(a) \cup {p.ts}
  BY <1>1, <1>3 DEF Missing, OnGrid
<1>5. ASSUME NEW a \in Int
      PROVE  Cardinality(Missing(a)') + losses <= Cardinality(Missing(a)) + losses'
             /\ Cardinality(Missing(a)') \in Nat
  <2>1. IsFiniteSet(Missing(a)) /\ Cardinality(Missing(a)) \in Nat
    BY OrderTypes, MissingFinite
  <2>2. /\ IsFiniteSet(Missing(a) \cup {p.ts})
        /\ Cardinality(Missing(a) \cup {p.ts}) = IF p.ts \in Missing(a)
             THEN Cardinality(Missing(a)) ELSE Cardinality(Missing(a)) + 1
    BY <2>1, FS_AddElement
  <2>3. Cardinality(Missing(a)') <= Cardinality(Missing(a) \cup {p.ts})
        /\ Cardinality(Missing(a)') \in Nat
    BY <1>4, <2>2, FewerMissing
  <2> QED
    BY <1>1, <1>2, <2>1, <2>2, <2>3
<1>6. \A r \in 0 .. clock : Chain(r) => Chain(r)'
  BY LoseInv DEF OrderInv
<1> QED
  BY <1>1, <1>2, <1>5, <1>6, FarStepKept

\* Time alone makes no hole.
LEMMA TickKept ==
    ASSUME KeptBounds, OrderInv, Kept, Playable, NextTick
    PROVE  Kept' /\ Playable'
<1>1. /\ farDone = TRUE /\ farDone' = FALSE /\ playDone = TRUE /\ playDone' = FALSE
      /\ clock' = Advanced(clock) /\ quiet' = 0 /\ quiet = 0 /\ losses' = losses
      /\ network' = {[p EXCEPT !.age = @ + 1] : p \in network}
      /\ UNCHANGED <<jitterVars, callVoice, history, frames, born>>
  BY DEF NextTick, jitterVars, history, OrderInv, VoiceInv, Timely, Buffer, Kept
<1>2. clock' = clock + FrameMs
  <2>1. clock + FrameMs \in 0 .. TsMod - 1
    BY OrderTypes
  <2> QED
    BY <1>1, <2>1, ModSmall, OrderTypes DEF Advanced
<1>3. LastSent' = LastSent
  <2>1. FrameMs * 0 = 0 /\ FrameMs * (0 + 1) = FrameMs
    BY VoiceConstants
  <2> QED
    BY <1>1, <1>2, <2>1, OrderTypes DEF LastSent
<1>4. SentTs \subseteq SentTs' /\ Buffered' = Buffered
  <2>1. ASSUME NEW p \in network PROVE p.ts \in SentTs'
    <3>1. p \in [ts : Nat, full : BOOLEAN, age : 0 .. MaxDelay]
      BY OrderTypes DEF Timely
    <3>2. [p EXCEPT !.age = @ + 1].ts = p.ts /\ [p EXCEPT !.age = @ + 1] \in network'
      BY <1>1, <3>1
    <3> QED
      BY <3>2, Zenon DEF SentTs
  <2> QED
    BY <1>1, <2>1 DEF SentTs, Buffered
<1>5. ASSUME NEW a \in Int PROVE Missing(a)' \subseteq Missing(a)
  <2>1. ASSUME NEW x \in Int, OnGrid(x)' PROVE OnGrid(x)
    <3>1. PICK k \in Int : x + FrameMs * k = clock + FrameMs
      BY <1>2, <2>1 DEF OnGrid
    <3>2. FrameMs * (k - 1) = FrameMs * k - FrameMs /\ FrameMs * k \in Int /\ k - 1 \in Int
      BY VoiceConstants
    <3>3. x + FrameMs * (k - 1) = clock
      <4>1. FrameMs \in Int /\ clock \in Int
        BY OrderTypes
      <4> QED
        BY <2>1, <3>1, <3>2, <4>1
    <3> QED
      BY <3>2, <3>3, Zenon DEF OnGrid
  <2>2. \A x : x \in Missing(a)' => x \in a .. LastSent /\ OnGrid(x)'
                                    /\ x \notin SentTs' /\ x \notin Buffered'
    BY <1>3, Zenon DEF Missing
  <2>3. \A x \in a .. LastSent : x \in Int
    BY OrderTypes
  <2> QED
    BY <1>4, <2>1, <2>2, <2>3, Zenon DEF Missing
<1>6. ASSUME NEW a \in Int
      PROVE  Cardinality(Missing(a)') + losses <= Cardinality(Missing(a)) + losses'
             /\ Cardinality(Missing(a)') \in Nat
  <2>1. IsFiniteSet(Missing(a)) /\ Cardinality(Missing(a)) \in Nat /\ losses \in Nat
    BY OrderTypes, MissingFinite, KeptTypes
  <2>2. Cardinality(Missing(a)') <= Cardinality(Missing(a))
        /\ Cardinality(Missing(a)') \in Nat
    BY <1>5, <2>1, FewerMissing
  <2> QED
    BY <1>1, <2>1, <2>2
<1>7. \A r \in 0 .. clock : Chain(r) => Chain(r)'
  BY NextTickInv DEF OrderInv
<1>8. playDone' \in BOOLEAN /\ losses' \in Nat
  BY <1>1, KeptTypes
<1> QED
  BY <1>1, <1>2, <1>6, <1>7, <1>8, FarStepKept

\* What goes on at this end changes neither the time nor the far end.
LEMMA FewerHoles ==
    ASSUME OrderInv, Kept, losses' = losses, NEW a \in Int,
           Missing(a)' \subseteq Missing(a)
    PROVE  Cardinality(Missing(a)') <= Cardinality(Missing(a))
           /\ Cardinality(Missing(a)') \in Nat /\ Cardinality(Missing(a)) \in Nat
BY OrderTypes, MissingFinite, FewerMissing

\* A frame that is heard is in time, is not too far ahead, and finds room.
LEMMA HeardIsKept ==
    ASSUME KeptBounds, OrderInv, NearZero, Kept, Playable, NEW p \in network, Deliver(p),
           heldHere = FALSE, ~Contradicts(p)
    PROVE  /\ lastVoiceTs' \notin frames /\ frames' = frames \cup {lastVoiceTs'}
           /\ playing' = playing
<1> DEFINE x == lastVoiceTs'
           off == p.ts - x
<1>1. /\ x \in 0 .. p.ts /\ Push(x)
      /\ \A r \in 0 .. clock : Aligned(r) /\ (frames # {} \/ playing)
                                => off = r - lastVoiceTs
  BY SameOffset DEF Hear
<1>2. /\ p.ts \in Nat /\ p.ts \in SentTs /\ p.ts <= clock
      /\ clock <= p.ts + FrameMs * MaxDelay /\ OnGrid(p.ts)
  BY OrderTypes DEF OnGrid, Timely, SentTs
<1>3. /\ clock \in Nat /\ Now \in Nat /\ clock <= Now /\ Now <= clock + FrameMs
      /\ playing \in BOOLEAN /\ IsFiniteSet(frames) /\ FrameMs \in Nat \ {0} /\ nextTs \in Nat
      /\ MaxDepth \in Nat /\ Lag \in Nat /\ FrameMs * MaxDelay \in Nat /\ MaxFrames \in Nat
      /\ FrameMs * (MaxDelay + 1) = FrameMs * MaxDelay + FrameMs
      /\ FrameMs * (MaxDelay + 1) <= Lag /\ Lag + FrameMs <= 2 * MaxDepth
  BY OrderTypes, KeptTypes, BoundsFacts, JitterAssumption
<1>4. x \in Nat /\ x <= p.ts /\ off \in Int /\ x + off = p.ts
  BY <1>1, <1>2
<1> HIDE DEF x, off
<1>5. ASSUME NEW t \in frames
      PROVE  /\ t \in Int /\ born[t] = t + off /\ born[t] \in Buffered /\ OnGrid(t + off)
             /\ born[t] \notin SentTs /\ t + off <= clock
  <2>1. PICK r \in 0 .. clock : Aligned(r)
    BY <1>5 DEF OrderInv
  <2>2. born[t] = t + (r - lastVoiceTs)
    BY <2>1 DEF Aligned
  <2>3. off = r - lastVoiceTs
    BY <1>1, <1>5, <2>1
  <2>4. born[t] = t + off
    BY <2>2, <2>3
  <2>5. OnGrid(born[t]) /\ born[t] \notin SentTs /\ born[t] <= clock /\ t \in Int
    BY OrderTypes DEF Spoken
  <2>6. born[t] \in Buffered
    BY DEF Buffered
  <2> QED
    BY <2>4, <2>5, <2>6
<1>6. x \notin frames
  BY <1>2, <1>4, <1>5
<1>7. ASSUME playing
      PROVE  nextTs <= x /\ x - nextTs <= 2 * MaxDepth
  <2>1. PICK r \in 0 .. clock, c \in Int :
          Aligned(r) /\ c = CursorTs(r) /\ CursorKept(c)
    BY <1>7, Zenon DEF Playable
  <2>2. off = r - lastVoiceTs
    BY <1>1, <1>7, <2>1
  <2>3. c = nextTs + off
    BY <2>1, <2>2 DEF CursorTs
  <2>4. c + FrameMs * (MaxDelay + 1) <= Now /\ Now < c + Lag + FrameMs
    BY <2>1 DEF CursorKept
  <2>5. nextTs <= x
    BY <1>2, <1>3, <1>4, <2>3, <2>4
  <2>6. x - nextTs <= 2 * MaxDepth
    BY <1>2, <1>3, <1>4, <2>3, <2>4
  <2> QED
    BY <2>5, <2>6
<1>8. ~TooLate(x) /\ ~FarAhead(x)
  BY <1>3, <1>4, <1>7 DEF TooLate, FarAhead
<1>9. Cardinality(frames \cup {x}) <= MaxFrames /\ Cardinality(frames \cup {x}) \in Nat
  <2> DEFINE S == frames \cup {x}
  <2>1. 2 * MaxDepth <= FrameMs * MaxFrames /\ FrameMs * MaxFrames \in Nat
    <3>1. \A a, b \in Nat : a * b \in Nat
      OBVIOUS
    <3> QED
      BY <1>3, <3>1 DEF KeptBounds
  <2>2. ASSUME NEW y \in S
        PROVE  /\ y \in Int /\ OnGrid(y + off) /\ y + off <= clock
               /\ clock < y + off + FrameMs * MaxFrames
    <3>1. CASE y = x
      <4>1. y + off = p.ts /\ y \in Int
        BY <1>4, <3>1
      <4>2. clock < p.ts + FrameMs * MaxFrames
        BY <1>2, <1>3, <2>1
      <4> QED
        BY <1>2, <4>1, <4>2
    <3>2. CASE y \in frames
      <4>1. Now < born[y] + Lag + FrameMs
        BY <1>5, <3>2, Zenon DEF Kept
      <4>2. y \in Int /\ born[y] = y + off /\ OnGrid(y + off) /\ y + off <= clock
        BY <1>5, <3>2
      <4>3. clock < y + off + FrameMs * MaxFrames
        BY <1>3, <1>4, <2>1, <4>1, <4>2
      <4> QED
        BY <4>2, <4>3
    <3> QED
      BY <3>1, <3>2
  <2> HIDE DEF S
  <2>3. S \subseteq Int
    BY <2>2
  <2>4. IsFiniteSet(S) /\ Cardinality(S) <= MaxFrames
    BY <1>3, <1>4, <2>2, <2>3, OrderTypes, TickCount
  <2>5. Cardinality(S) \in Nat
    BY <2>4, FS_CardinalityType
  <2> QED
    BY <2>4, <2>5 DEF S
<1>10. PushKept(x)
  BY <1>1, <1>8 DEF Push, PushLate, PushResync
<1>11. Insert(frames, x) = frames \cup {x}
  BY <1>3, <1>9 DEF Insert
<1> QED
  BY <1>6, <1>10, <1>11 DEF PushKept, x

\* A frame that arrives stops being under way and, when it is heard, is buffered.
LEMMA DeliverKept ==
    ASSUME KeptBounds, OrderInv, NearZero, Kept, Playable, NEW p \in network, Deliver(p),
           misled' = FALSE
    PROVE  Kept' /\ Playable'
<1>1. /\ network' = network \ {p} /\ losses' = losses /\ quiet' = quiet /\ Now' = Now
      /\ clock' = clock /\ LastSent' = LastSent /\ heldHere \in BOOLEAN
  BY DEF Deliver, farEnd, LastSent, Now, Turn, OrderInv, VoiceInv
<1>2. /\ missBudget \in Nat /\ losses \in Nat /\ MaxDelay \in Nat /\ Now \in Nat /\ quiet = 0
      /\ clock \in Nat /\ Timely /\ playing \in BOOLEAN /\ IsFiniteSet(frames)
  BY OrderTypes, KeptTypes
<1>3. CASE heldHere
  <2>1. frames = {} /\ playing = FALSE
    BY <1>1, <1>3 DEF OrderInv, VoiceInv, Placement, Buffer
  <2>2. UNCHANGED <<frames, playing, missBudget, unheard>>
    BY <1>3 DEF Deliver, OnFullVoice, OnMini, NotHeard, jitterVars, history
  <2>3. Buffered' = {}
    BY <2>1, <2>2 DEF Buffered
  <2>4. Kept'
    BY <1>1, <1>2, <2>2, <2>3 DEF Kept
  <2> QED
    BY <2>1, <2>2, <2>4 DEF Playable
<1>4. CASE ~heldHere
  <2>1. heldHere = FALSE
    BY <1>1, <1>4
  <2>2. heldHere = FALSE /\ ~Contradicts(p)
    BY <2>1, NotContradicted
  <2> DEFINE x == lastVoiceTs'
  <2>3. /\ Hear(x, p)
        /\ \A r \in 0 .. clock : Aligned(r) /\ (frames # {} \/ playing)
                                  => p.ts - x = r - lastVoiceTs
    BY <2>2, SameOffset
  <2>4. /\ x \notin frames /\ frames' = frames \cup {x} /\ playing' = playing
    BY <2>2, HeardIsKept
  <2>5. /\ born' = [t \in frames' |-> IF t = x THEN p.ts ELSE born[t]]
        /\ unheard' = unheard + 1 /\ missBudget' = missBudget /\ nextTs' = nextTs
    BY <2>3 DEF Hear, Push
  <2>6. Aligned(p.ts)'
    BY <2>2, HearAligned
  <2> HIDE DEF x
  <2>7. Buffered' = Buffered \cup {p.ts}
    <3>1. \A t \in frames' : born'[t] = IF t = x THEN p.ts ELSE born[t]
      BY <2>5
    <3>2. \A t \in frames : born'[t] = born[t]
      BY <2>4, <3>1
    <3>3. born'[x] = p.ts
      BY <2>4, <3>1
    <3> QED
      BY <2>4, <3>2, <3>3 DEF Buffered
  <2>8. SentTs \subseteq SentTs' \cup {p.ts}
    BY <1>1 DEF SentTs
  <2>9. \A y : OnGrid(y)' <=> OnGrid(y)
    BY <1>1 DEF OnGrid
  <2>10. ASSUME NEW a \in Int
        PROVE  /\ Missing(a)' \subseteq Missing(a)
               /\ Cardinality(Missing(a)') <= Cardinality(Missing(a))
               /\ Cardinality(Missing(a)') \in Nat /\ Cardinality(Missing(a)) \in Nat
    <3>1. Missing(a)' \subseteq Missing(a)
      BY <1>1, <2>7, <2>8, <2>9, Zenon DEF Missing
    <3> QED
      BY <1>1, <3>1, FewerHoles
  <2>11. /\ p.ts \in Nat /\ p.ts <= clock /\ clock <= p.ts + FrameMs * MaxDelay /\ OnGrid(p.ts)
         /\ LastSent \in Int /\ LastSent <= clock
    <3>1. /\ p.ts \in Nat /\ p.ts <= clock /\ clock <= p.ts + FrameMs * MaxDelay
          /\ OnGrid(p.ts)
      BY OrderTypes DEF OnGrid, Timely, SentTs
    <3>2. LastSent \in Int /\ LastSent <= clock
      BY <1>2, LatestSpoken
    <3> QED
      BY <3>1, <3>2
  <2>12. /\ Lag \in Nat /\ FrameMs * MaxDelay \in Nat /\ FrameMs \in Nat /\ Now <= clock + FrameMs
         /\ FrameMs * (MaxDelay + 1) = FrameMs * MaxDelay + FrameMs
         /\ FrameMs * (MaxDelay + 1) <= Lag
    BY OrderTypes, KeptTypes, BoundsFacts
  <2>13. Now < p.ts + Lag + FrameMs
    BY <1>2, <2>11, <2>12, VoiceConstants
  <2>14. Cardinality(Missing(p.ts)') <= MaxDelay
    <3> DEFINE S == Missing(p.ts)'
    <3>1. ASSUME NEW y \in S
          PROVE  y \in Int /\ OnGrid(y + 0) /\ y + 0 <= clock /\ clock < y + 0 + FrameMs * MaxDelay
      <4>1. y \in p.ts .. LastSent /\ OnGrid(y) /\ y # p.ts
        BY <1>1, <2>7, <2>9, <3>1, Zenon DEF Missing
      <4>2. y \in Int /\ p.ts < y /\ y <= clock
        BY <2>11, <4>1, <1>2
      <4>3. p.ts + FrameMs <= y
        BY <1>2, <2>11, <4>1, <4>2, Spaced
      <4>4. y + 0 = y
        BY <4>2
      <4>5. clock < y + FrameMs * MaxDelay
        BY <1>2, <2>11, <2>12, <4>2, <4>3, VoiceConstants
      <4> QED
        BY <4>1, <4>2, <4>4, <4>5
    <3> HIDE DEF S
    <3>2. S \subseteq Int
      BY <3>1
    <3>3. 0 \in Int
      OBVIOUS
    <3>4. Cardinality(S) <= MaxDelay
      BY <1>2, <3>1, <3>2, <3>3, TickCount
    <3> QED
      BY <3>4 DEF S
  <2>15. ASSUME NEW y \in Buffered'
         PROVE  Now' < y + Lag + FrameMs /\ Cardinality(Missing(y)') <= MaxDelay + losses'
    <3>1. CASE y = p.ts
      <4>1. Cardinality(Missing(p.ts)') \in Nat
        BY <2>10, <2>11
      <4> QED
        BY <1>1, <1>2, <2>13, <2>14, <3>1, <4>1
    <3>2. CASE y \in Buffered
      <4>1. y \in Int
        BY <3>2, OrderTypes DEF Buffered
      <4>2. Now < y + Lag + FrameMs /\ Cardinality(Missing(y)) <= MaxDelay + losses
        BY <3>2 DEF Kept
      <4> QED
        BY <1>1, <1>2, <2>10, <4>1, <4>2
    <3> QED
      BY <2>7, <3>1, <3>2
  <2>16. unheard' = Cardinality(frames')
    BY <1>2, <2>4, <2>5, FS_AddElement DEF Kept
  <2>17. Kept'
    BY <1>1, <1>2, <2>4, <2>5, <2>15, <2>16, Zenon DEF Kept
  <2>18. p.ts \in 0 .. clock'
    BY <1>1, <1>2, <2>11
  <2>19. CASE playing
    <3>1. PICK r \in 0 .. clock, c \in Int : Aligned(r) /\ c = CursorTs(r) /\ CursorKept(c)
      BY <2>19, Zenon DEF Playable
    <3>2. CursorTs(p.ts)' = c
      BY <2>3, <2>5, <2>19, <3>1 DEF CursorTs, x
    <3>3. /\ c + FrameMs * (MaxDelay + 1) <= Now /\ Now < c + Lag + FrameMs
          /\ missBudget + Cardinality(Missing(c)) <= MaxDelay + losses
      BY <3>1 DEF CursorKept
    <3>4. missBudget + Cardinality(Missing(c)') <= MaxDelay + losses
      BY <1>2, <2>10, <3>3
    <3>5. CursorKept(c)'
      BY <1>1, <2>5, <3>3, <3>4, Zenon DEF CursorKept
    <3> QED
      BY <2>6, <2>17, <2>18, <3>2, <3>5, Zenon DEF Playable
  <2>20. CASE ~playing
    <3>1. 0 \in Int /\ ~playing'
      BY <2>4, <2>20
    <3> QED
      BY <2>6, <2>17, <2>18, <3>1, Zenon DEF Playable
  <2> QED
    BY <2>19, <2>20
<1> QED
  BY <1>3, <1>4

\* While priming goes on there are as many holes after the newest frame as
\* ticks have passed, less the delay of the network: it ends before Lag.
LEMMA PrimesInTime ==
    ASSUME KeptBounds, OrderInv, Kept, ~playing, ~Primed, NEW r \in 0 .. clock, Aligned(r)
    PROVE  \A t \in frames : clock < born[t] + Lag
<1> SUFFICES ASSUME frames # {} PROVE \A t \in frames : clock < born[t] + Lag
  OBVIOUS
<1> DEFINE o == Oldest(frames)
           n == Newest(frames)
           off == r - lastVoiceTs
           N == n + off
<1>1. o \in frames /\ n \in frames /\ (\A t \in frames : o <= t /\ t <= n)
      /\ Span = n - o + FrameMs
  BY SpanOfBuffer
<1>2. off \in Int /\ \A t \in frames : t \in Nat /\ born[t] = t + off /\ born[t] \in Buffered
  BY OrderTypes DEF Aligned, Buffered
<1>3. /\ clock \in Nat /\ FrameMs \in Nat \ {0} /\ FrameMs * MaxDelay \in Nat /\ Timely
      /\ MaxDelay \in Nat /\ MaxLoss \in Nat /\ losses \in Nat /\ losses <= MaxLoss
      /\ MaxDepth \in Nat /\ quiet = 0
  BY OrderTypes, KeptTypes, VoiceConstants, JitterAssumption
<1>4. Span < target /\ target <= MaxDepth /\ Span \in Int /\ target \in Nat
  <2>1. target \in Targets
    BY DEF OrderInv, Buffer
  <2>2. target \in Nat /\ target <= MaxDepth
    BY <2>1, JitterAssumption DEF Targets
  <2>3. Span \in Int
    BY <1>1, <1>2, <1>3
  <2> QED
    BY <2>2, <2>3 DEF Primed
<1>5. clock - FrameMs <= LastSent
  <2>1. FrameMs * 0 = 0 /\ FrameMs * (0 + 1) = FrameMs
    BY <1>3
  <2> QED
    BY <1>3, <2>1 DEF LastSent
<1>6. N \in Int /\ born[n] = N /\ OnGrid(N) /\ N <= clock
      /\ Cardinality(Missing(N)) <= MaxDelay + losses
  <2>1. n \in Nat /\ born[n] = n + off /\ born[n] \in Buffered
    BY <1>1, <1>2
  <2>2. OnGrid(born[n]) /\ born[n] <= clock
    BY <1>1, OrderTypes DEF Spoken
  <2>3. Cardinality(Missing(born[n])) <= MaxDelay + losses
    BY <2>1 DEF Kept
  <2> QED
    BY <1>2, <2>1, <2>2, <2>3
<1>7. \A x \in Buffered : x \in Int /\ x <= N
  BY <1>1, <1>2, <1>6, OrderTypes DEF Buffered
<1> HIDE DEF o, n, off, N
<1>8. PICK k \in Int : N + FrameMs * k = clock
  BY <1>6 DEF OnGrid
<1>9. \A a, b \in Int : /\ FrameMs * a \in Int
                        /\ a <= b => FrameMs * a <= FrameMs * b
                        /\ FrameMs * (a + b) = FrameMs * a + FrameMs * b
  BY <1>3
<1>10. \A a \in Int : FrameMs * (a - 1) = FrameMs * a - FrameMs
  BY <1>3
<1> DEFINE m == k - MaxDelay - 1
<1>11. m \in Int /\ k = (m + MaxDelay) + 1 /\ m + MaxDelay \in Int
  BY <1>3, <1>8
<1> HIDE DEF m
<1>12. N + FrameMs * m + FrameMs * MaxDelay + FrameMs = clock
  <2>1. FrameMs * k = FrameMs * (m + MaxDelay) + FrameMs * 1 /\ FrameMs * 1 = FrameMs
    BY <1>3, <1>9, <1>11
  <2>2. FrameMs * (m + MaxDelay) = FrameMs * m + FrameMs * MaxDelay
    BY <1>3, <1>9, <1>11
  <2>3. FrameMs * m \in Int
    BY <1>9, <1>11
  <2>4. FrameMs * k = (FrameMs * m + FrameMs * MaxDelay) + FrameMs
    BY <2>1, <2>2, Zenon
  <2>5. \A a, b \in Int : N + ((a + b) + FrameMs) = N + a + b + FrameMs
    BY <1>3, <1>6
  <2>6. FrameMs * MaxDelay \in Int
    BY <1>3
  <2>7. N + ((FrameMs * m + FrameMs * MaxDelay) + FrameMs) = clock
    BY <1>8, <2>4, Zenon
  <2> QED
    BY <2>3, <2>5, <2>6, <2>7, Zenon
<1>13. ASSUME NEW i \in 1 .. m PROVE N + FrameMs * i \in Missing(N)
  <2> DEFINE y == N + FrameMs * i
  <2>1. i \in Int /\ 1 <= i /\ i <= m
    BY <1>11
  <2>2. FrameMs * i \in Int /\ FrameMs * i <= FrameMs * m /\ FrameMs * 1 <= FrameMs * i
        /\ FrameMs * m \in Int /\ FrameMs * 1 = FrameMs
    BY <1>3, <1>9, <1>11, <2>1
  <2>3. y \in Int /\ N < y /\ y + FrameMs * MaxDelay + FrameMs <= clock
    BY <1>3, <1>6, <1>12, <2>2
  <2>4. y \in N .. LastSent
    BY <1>3, <1>5, <1>6, <2>3, OrderTypes
  <2>5. OnGrid(y)
    <3>1. FrameMs * (k + (-i)) = FrameMs * k + FrameMs * (-i) /\ FrameMs * (-i) = -(FrameMs * i)
          /\ k + (-i) \in Int /\ FrameMs * k \in Int
      BY <1>3, <1>8, <1>9, <2>1
    <3>2. y + FrameMs * (k + (-i)) = clock
      BY <1>6, <1>8, <2>2, <3>1
    <3> QED
      BY <3>1, <3>2, Zenon DEF OnGrid
  <2> HIDE DEF y
  <2>6. y \notin SentTs
    BY <1>3, <2>3, OrderTypes
  <2>7. y \notin Buffered
    BY <1>6, <1>7, <2>3
  <2> QED
    BY <2>4, <2>5, <2>6, <2>7, Zenon DEF Missing, y
<1>14. m <= MaxDelay + MaxLoss
  <2>1. CASE m < 1
    BY <1>3, <1>11, <2>1
  <2>2. CASE 1 <= m
    <3> DEFINE f == [i \in 1 .. m |-> N + FrameMs * i]
    <3>1. ASSUME NEW i \in 1 .. m, NEW j \in 1 .. m, f[i] = f[j] PROVE i = j
      <4>1. i \in Int /\ j \in Int /\ N + FrameMs * i = N + FrameMs * j
        BY <1>11, <3>1
      <4>2. FrameMs * i = FrameMs * j
        <5>1. \A a, b \in Int : N + a = N + b => a = b
          BY <1>6
        <5>2. FrameMs * i \in Int /\ FrameMs * j \in Int
          BY <1>9, <4>1
        <5> QED
          BY <4>1, <5>1, <5>2, Zenon
      <4>3. \A a, b \in Int : FrameMs * a = FrameMs * b => a = b
        BY <1>3
      <4> QED
        BY <4>1, <4>2, <4>3
    <3>2. f \in Injection(1 .. m, Missing(N))
      BY <1>13, <3>1 DEF Injection, IsInjective
    <3>3. IsFiniteSet(Missing(N)) /\ Cardinality(Missing(N)) \in Nat
      BY <1>3, <1>6, MissingFinite
    <3>4. Cardinality(1 .. m) <= Cardinality(Missing(N))
      BY <3>2, <3>3, FS_Injection
    <3>5. Cardinality(1 .. m) = m
      BY <1>11, <2>2, FS_Interval
    <3> QED
      BY <1>3, <1>6, <1>11, <3>3, <3>4, <3>5
  <2> QED
    BY <1>11, <2>1, <2>2
<1>15. FrameMs * m + FrameMs * MaxDelay <= FrameMs * (2 * MaxDelay + MaxLoss)
  <2>1. m + MaxDelay <= 2 * MaxDelay + MaxLoss /\ 2 * MaxDelay + MaxLoss \in Int
    BY <1>3, <1>11, <1>14
  <2>2. FrameMs * (m + MaxDelay) <= FrameMs * (2 * MaxDelay + MaxLoss)
    BY <1>9, <1>11, <2>1
  <2>3. FrameMs * (m + MaxDelay) = FrameMs * m + FrameMs * MaxDelay
    BY <1>3, <1>9, <1>11
  <2> QED
    BY <2>2, <2>3
<1>16. ASSUME NEW t \in frames PROVE clock < born[t] + Lag
  <2>1. t \in Nat /\ born[t] = t + off /\ o <= t /\ n \in Nat /\ o \in Nat /\ off \in Int
        /\ N = n + off
    BY <1>1, <1>2 DEF N
  <2>2. n - o + FrameMs < MaxDepth
    BY <1>1, <1>3, <1>4, <2>1
  <2>3. N + FrameMs < born[t] + MaxDepth
    BY <1>3, <2>1, <2>2
  <2>4. /\ FrameMs * m \in Int /\ FrameMs * (2 * MaxDelay + MaxLoss) \in Int
        /\ Lag = MaxDepth + FrameMs * (2 * MaxDelay + MaxLoss)
    BY <1>3, <1>9, <1>11 DEF Lag
  <2> DEFINE h == FrameMs * (2 * MaxDelay + MaxLoss)
             g == FrameMs * m
             d == FrameMs * MaxDelay
  <2>5. /\ h \in Int /\ g \in Int /\ d \in Int /\ Lag = MaxDepth + h /\ g + d <= h
        /\ N + g + d + FrameMs = clock
    BY <1>3, <1>12, <1>15, <2>4
  <2> HIDE DEF h, g, d
  <2> QED
    BY <1>3, <1>6, <2>1, <2>3, <2>5
<1> QED
  BY <1>16

\* Before a pull that plays or conceals, the frame under the cursor is the one
\* the cursor may wait for, also when the playout starts with it.
LEMMA CursorReady ==
    ASSUME KeptBounds, OrderInv, Kept, Playable, ~BudgetSpent, playDone = FALSE,
           playing \/ Primed
    PROVE  \E r \in 0 .. clock :
             /\ Aligned(r) /\ CursorKept(Cursor + (r - lastVoiceTs))
             /\ Cursor \in Nat /\ Advanced(Cursor) = Cursor + FrameMs
             /\ OnGrid(Cursor + (r - lastVoiceTs)) /\ \A t \in frames : Cursor <= t
<1>1. PICK r \in 0 .. clock, d \in Int :
        Aligned(r) /\ (playing => d = CursorTs(r) /\ CursorKept(d))
  BY Zenon DEF Playable, Primed
<1> DEFINE c == Cursor + (r - lastVoiceTs)
<1>2. /\ Cursor \in Nat /\ (playing => Cursor = nextTs) /\ Advanced(Cursor) = Cursor + FrameMs
      /\ OnGrid(c) /\ (\A t \in frames : Cursor <= t) /\ (~playing => Cursor \in frames)
  BY <1>1, BoundsFacts, CursorPlace
<1>3. CASE playing
  <2>1. c = CursorTs(r)
    BY <1>2, <1>3 DEF CursorTs
  <2> HIDE DEF c
  <2>2. CursorKept(c)
    BY <1>1, <1>3, <2>1, Zenon
  <2> QED
    BY <1>1, <1>2, <2>2, Zenon DEF c
<1>4. CASE ~playing
  <2>1. /\ clock \in Nat /\ FrameMs \in Nat /\ lastVoiceTs \in Nat /\ Now = clock
        /\ FrameMs * (MaxDelay + 1) \in Nat /\ FrameMs * (MaxDelay + 1) + FrameMs <= MinDepth
        /\ MinDepth \in Nat /\ playing = FALSE /\ losses \in Nat /\ MaxDelay \in Nat
    <3>1. clock + 0 = clock
      BY OrderTypes
    <3> QED
      BY <1>4, <3>1, OrderTypes, KeptTypes, BoundsFacts
  <2>2. frames # {} /\ target <= Span
    BY <1>4, <2>1 DEF Primed, OrderInv, Buffer, Targets
  <2> DEFINE o == Oldest(frames)
             n == Newest(frames)
             off == r - lastVoiceTs
  <2>3. o \in frames /\ n \in frames /\ Span = n - o + FrameMs
    BY <1>1, <2>2, SpanOfBuffer
  <2>4. Cursor = o
    BY <1>4 DEF Cursor, Start
  <2>5. off \in Int /\ \A t \in frames : /\ t \in Nat /\ born[t] = t + off /\ born[t] <= clock
                                         /\ born[t] \in Buffered
    BY <1>1, OrderTypes DEF Aligned, Buffered
  <2>6. target \in Int /\ MinDepth <= target
    <3>1. target \in Targets
      BY DEF OrderInv, Buffer
    <3> QED
      BY <3>1, JitterAssumption DEF Targets
  <2> HIDE DEF o, n, off
  <2>7. o \in Nat /\ n \in Nat /\ n + off <= clock /\ born[o] = o + off
    BY <2>3, <2>5
  <2>8. o + off + FrameMs * (MaxDelay + 1) <= Now
    BY <2>1, <2>2, <2>3, <2>5, <2>6, <2>7
  <2>9. born[o] \in Buffered
    BY <2>3, <2>5
  <2>10. Now < born[o] + Lag + FrameMs /\ Cardinality(Missing(born[o])) <= MaxDelay + losses
         /\ missBudget = 0
    BY <2>1, <2>9 DEF Kept
  <2>11. Cardinality(Missing(born[o])) \in Nat
    BY <2>5, <2>7, OrderTypes, MissingFinite
  <2>12. missBudget + Cardinality(Missing(o + off)) <= MaxDelay + losses
    BY <2>1, <2>7, <2>10, <2>11
  <2>13. CursorKept(o + off)
    BY <2>7, <2>8, <2>10, <2>12 DEF CursorKept
  <2>14. CursorKept(c)
    BY <2>4, <2>13 DEF off
  <2> QED
    BY <1>1, <1>2, <2>14
<1> QED
  BY <1>3, <1>4

\* Without a hole at the cursor one is concealed less than there were.
LEMMA CursorHole ==
    ASSUME KeptBounds, OrderInv, Kept, NEW r \in 0 .. clock, Aligned(r), playDone = FALSE,
           NEW k \in Int, NEW c \in Int, c = k + (r - lastVoiceTs), CursorKept(c), OnGrid(c),
           frames # {}, \A t \in frames : k <= t, k \notin frames
    PROVE  c \in Missing(c)
<1> DEFINE off == r - lastVoiceTs
<1>1. c = k + off
  OBVIOUS
<1>2. /\ off \in Int
      /\ \A t \in frames : t \in Nat /\ born[t] = t + off /\ born[t] <= LastSent
  BY OrderTypes DEF Aligned, Spoken
<1>3. /\ clock \in Nat /\ Now = clock + Turn /\ Turn = 0 /\ FrameMs \in Nat \ {0}
      /\ FrameMs * MaxDelay \in Nat /\ LastSent \in Int
      /\ FrameMs * (MaxDelay + 1) = FrameMs * MaxDelay + FrameMs
  BY OrderTypes, KeptTypes, BoundsFacts
<1>4. c + FrameMs * (MaxDelay + 1) <= Now /\ OnGrid(c)
  BY DEF CursorKept
<1> HIDE DEF off
<1>5. c \in Int /\ c + FrameMs * MaxDelay < clock
  BY <1>1, <1>2, <1>3, <1>4
<1>6. c <= LastSent
  <2>1. PICK t \in frames : TRUE
    OBVIOUS
  <2>2. t \in Nat /\ k <= t /\ t + off <= LastSent
    BY <1>2, <2>1
  <2> QED
    BY <1>1, <1>2, <1>3, <2>2
<1>7. c \notin SentTs
  BY <1>3, <1>5, OrderTypes
<1>8. c \notin Buffered
  <2> SUFFICES ASSUME NEW t \in frames, born[t] = c PROVE FALSE
    BY DEF Buffered
  <2>1. t \in Nat /\ t + off = k + off
    BY <1>1, <1>2
  <2>2. t = k
    BY <1>2, <2>1
  <2> QED
    BY <2>2
<1>9. c \in c .. LastSent
  BY <1>3, <1>5, <1>6
<1> QED
  BY <1>4, <1>7, <1>8, <1>9, Zenon DEF Missing

\* A pull that plays or conceals leaves a cursor that may wait for the next
\* frame: what is played was no hole, and what is concealed is one no more.
LEMMA PlayoutKept ==
    ASSUME KeptBounds, OrderInv, Kept, Playable, ~BudgetSpent, PumpPlayout, heldHere = FALSE,
           playing \/ Primed, PullPlay \/ PullConceal
    PROVE  Kept' /\ Playable'
<1>1. /\ playDone = FALSE /\ playDone' = TRUE /\ LastSent' = LastSent /\ quiet' = quiet
      /\ UNCHANGED <<network, losses, lastVoiceTs, clock>>
      /\ born' = [t \in frames' |-> born[t]]
      /\ unheard' = IF outcome' = "Play" THEN unheard - 1 ELSE unheard
  BY DEF PumpPlayout, farEnd, callVoice, LastSent, OrderInv, Buffer
<1>2. PICK r \in 0 .. clock :
        /\ Aligned(r) /\ CursorKept(Cursor + (r - lastVoiceTs))
        /\ Cursor \in Nat /\ Advanced(Cursor) = Cursor + FrameMs
        /\ OnGrid(Cursor + (r - lastVoiceTs)) /\ \A t \in frames : Cursor <= t
  BY <1>1, CursorReady
<1> DEFINE off == r - lastVoiceTs
<1>3. /\ clock \in Nat /\ FrameMs \in Nat \ {0} /\ Now \in Nat /\ Now' = Now + FrameMs
      /\ Timely /\ missBudget \in Nat /\ losses \in Nat /\ MaxDelay \in Nat /\ Lag \in Nat
      /\ IsFiniteSet(frames) /\ FrameMs * (MaxDelay + 1) \in Nat /\ quiet = 0
  <2>1. Now = clock + 0 /\ Now' = clock' + FrameMs
    BY <1>1, KeptTypes DEF Now, Turn
  <2>2. clock \in Nat /\ FrameMs \in Nat \ {0}
    BY OrderTypes
  <2>3. Now \in Nat /\ Now' = Now + FrameMs
    BY <1>1, <2>1, <2>2
  <2> QED
    BY <2>2, <2>3, OrderTypes, KeptTypes, BoundsFacts
<1>4. /\ off \in Int
      /\ \A t \in frames : /\ t \in Nat /\ born[t] = t + off /\ born[t] \in Int
                           /\ OnGrid(born[t]) /\ born[t] \in Buffered
  BY <1>2, OrderTypes DEF Aligned, Spoken, Buffered
<1> PICK c \in Int : c = Cursor + off
  BY <1>2, <1>4
<1>5. /\ CursorKept(c) /\ OnGrid(c) /\ c + FrameMs * (MaxDelay + 1) <= Now
      /\ Now < c + Lag + FrameMs /\ missBudget + Cardinality(Missing(c)) <= MaxDelay + losses
  <2>1. CursorKept(c) /\ OnGrid(c)
    BY <1>2, Zenon
  <2> QED
    BY <2>1 DEF CursorKept
<1>6. \/ /\ Cursor \in frames /\ frames' = frames \ {Cursor} /\ unheard' = unheard - 1
         /\ missBudget' \in Nat /\ missBudget' <= missBudget
      \/ /\ Cursor \notin frames /\ frames # {} /\ frames' = frames /\ unheard' = unheard
         /\ missBudget' = missBudget + 1
  <2>1. CASE PullPlay
    <3>1. /\ Cursor \in frames /\ frames' = frames \ {Cursor} /\ outcome' = "Play"
          /\ missBudget' = IF missBudget > MissDecay THEN missBudget - MissDecay ELSE 0
      BY <2>1 DEF PullPlay, Budget
    <3>2. missBudget' \in Nat /\ missBudget' <= missBudget
      BY <1>3, <3>1, JitterAssumption
    <3> QED
      BY <1>1, <3>1, <3>2
  <2>2. CASE PullConceal
    BY <1>1, <2>2 DEF PullConceal, Budget
  <2> QED
    BY <2>1, <2>2
<1>7. playing' = TRUE /\ nextTs' = Cursor + FrameMs
  BY <1>2 DEF PullPlay, PullConceal
<1> PICK k \in Nat : k = Cursor
  BY <1>2
<1>8. /\ k \in Nat /\ c = k + off /\ (\A t \in frames : k <= t)
      /\ (\A t \in frames' : t \in frames /\ t # k /\ born'[t] = born[t])
      /\ (\A t \in frames : t \in frames' \/ t = k)
  BY <1>1, <1>2, <1>6
<1>9. ASSUME k \notin frames, frames # {} PROVE c \in Missing(c)
  <2>1. c = k + (r - lastVoiceTs) /\ k \in Int
    BY <1>8
  <2>2. CursorKept(c) /\ OnGrid(c) /\ playDone = FALSE /\ Aligned(r)
    BY <1>1, <1>2, <1>5
  <2> HIDE DEF off
  <2> QED
    BY <1>8, <1>9, <2>1, <2>2, CursorHole
<1> HIDE DEF off
<1>10. ASSUME NEW t \in frames'
       PROVE  born[t] \in Int /\ c + FrameMs <= born[t] /\ born[t] \in Buffered
  <2>1. t \in frames /\ t # k /\ born[t] = t + off /\ t \in Nat /\ k <= t
    BY <1>4, <1>8
  <2>2. born[t] \in Int /\ c < born[t]
    BY <1>4, <1>8, <2>1
  <2> QED
    BY <1>3, <1>4, <1>5, <2>1, <2>2, Spaced
<1>11. Buffered \subseteq Buffered' \cup {c} /\ \A x \in Buffered' : \E t \in frames' : x = born[t]
  <2>1. ASSUME NEW t \in frames PROVE born[t] \in Buffered' \cup {c}
    <3>1. CASE t \in frames'
      <4>1. born'[t] = born[t]
        BY <1>8, <3>1
      <4> QED
        BY <3>1, <4>1 DEF Buffered
    <3>2. CASE t = k
      BY <1>4, <1>8, <3>2
    <3> QED
      BY <1>8, <3>1, <3>2
  <2>2. \A x \in Buffered' : \E t \in frames' : x = born[t]
    BY <1>8, Zenon DEF Buffered
  <2> QED
    BY <2>1, <2>2 DEF Buffered
<1>12. ASSUME NEW a \in Int, c + FrameMs <= a
       PROVE  Missing(a)' \subseteq Missing(a) /\ Missing(a)' \subseteq Missing(c) \ {c}
  <2>1. ASSUME NEW y \in Missing(a)' PROVE y \in Missing(a) /\ y \in Missing(c) /\ y # c
    <3>1. y \in a .. LastSent /\ OnGrid(y)' /\ y \notin SentTs' /\ y \notin Buffered'
      BY <1>1, <2>1, Zenon DEF Missing
    <3>2. OnGrid(y) /\ y \notin SentTs
      BY <1>1, <3>1 DEF OnGrid, SentTs
    <3>3. LastSent \in Int
      BY OrderTypes
    <3>4. y \in c .. LastSent /\ y # c
      BY <1>3, <1>5, <1>12, <3>1, <3>3
    <3>5. y \notin Buffered
      BY <1>11, <3>1, <3>4
    <3> QED
      BY <3>1, <3>2, <3>4, <3>5, Zenon DEF Missing
  <2> QED
    BY <2>1
<1>13. ASSUME NEW x \in Buffered'
       PROVE  Now' < x + Lag + FrameMs /\ Cardinality(Missing(x)') <= MaxDelay + losses'
  <2>1. x \in Int /\ c + FrameMs <= x /\ x \in Buffered
    BY <1>10, <1>11
  <2>2. Cardinality(Missing(x)) <= MaxDelay + losses
    BY <2>1 DEF Kept
  <2>3. Missing(x)' \subseteq Missing(x) /\ losses' = losses
    BY <1>1, <1>12, <2>1
  <2>4. Cardinality(Missing(x)') <= Cardinality(Missing(x))
        /\ Cardinality(Missing(x)') \in Nat /\ Cardinality(Missing(x)) \in Nat
    BY <2>1, <2>3, FewerHoles
  <2>5. Now' < x + Lag + FrameMs
    BY <1>3, <1>5, <2>1
  <2> QED
    BY <1>3, <2>2, <2>3, <2>4, <2>5
<1>14. unheard' = Cardinality(frames')
  <2>1. unheard = Cardinality(frames)
    BY DEF Kept
  <2>2. CASE Cursor \in frames /\ frames' = frames \ {Cursor} /\ unheard' = unheard - 1
    BY <1>3, <2>1, <2>2, FS_RemoveElement
  <2> QED
    BY <1>6, <2>1, <2>2
<1>15. Kept'
  BY <1>1, <1>3, <1>6, <1>7, <1>13, <1>14 DEF Kept
<1>16. PICK d \in Int : d = c + FrameMs
  BY <1>3
<1>17. missBudget' + Cardinality(Missing(d)') <= MaxDelay + losses'
  <2> DEFINE S == Missing(c)
             T == Missing(d)'
  <2>1. T \subseteq S /\ T \subseteq S \ {c} /\ losses' = losses
    BY <1>1, <1>3, <1>12, <1>16
  <2>2. IsFiniteSet(S) /\ Cardinality(S) \in Nat
    BY <1>3, <1>5, MissingFinite
  <2> HIDE DEF T
  <2>3. missBudget + Cardinality(S) <= MaxDelay + losses
    BY <1>5
  <2>4. CASE Cursor \in frames /\ missBudget' \in Nat /\ missBudget' <= missBudget
    <3>1. Cardinality(T) <= Cardinality(S) /\ Cardinality(T) \in Nat
      BY <2>1, <2>2, FewerMissing
    <3>2. missBudget' + Cardinality(T) <= MaxDelay + losses'
      BY <1>3, <2>1, <2>2, <2>3, <2>4, <3>1
    <3> QED
      BY <3>2 DEF T
  <2>5. CASE Cursor \notin frames /\ frames # {} /\ missBudget' = missBudget + 1
    <3>1. c \in S
      BY <1>9, <2>5
    <3>2. IsFiniteSet(S \ {c}) /\ Cardinality(S \ {c}) = Cardinality(S) - 1
      BY <2>2, <3>1, FS_RemoveElement
    <3>3. Cardinality(T) <= Cardinality(S \ {c}) /\ Cardinality(T) \in Nat
      BY <2>1, <3>2, FewerMissing
    <3>4. missBudget' + Cardinality(T) <= MaxDelay + losses'
      BY <1>3, <2>1, <2>2, <2>3, <2>5, <3>2, <3>3
    <3> QED
      BY <3>4 DEF T
  <2> QED
    BY <1>6, <2>4, <2>5
<1>18. d + FrameMs * (MaxDelay + 1) <= Now' /\ Now' < d + Lag + FrameMs
  BY <1>3, <1>5, <1>16
<1>19. CursorKept(d)'
  BY <1>17, <1>18 DEF CursorKept
<1>20. CursorTs(r)' = d
  BY <1>1, <1>3, <1>4, <1>7, <1>8, <1>16 DEF CursorTs, off
<1>21. Aligned(r)'
  <2>1. OrderBounds
    BY BoundsFacts
  <2>2. playing'
    BY <1>7
  <2> QED
    BY <1>2, <2>1, <2>2, PumpAligned
<1>22. r \in 0 .. clock'
  BY <1>1
<1> QED
  BY <1>15, <1>16, <1>19, <1>20, <1>21, <1>22, Zenon DEF Playable

\* The playout takes a frame or a hole, waits for no longer than Lag, or has
\* played everything.
LEMMA PumpKept ==
    ASSUME KeptBounds, OrderInv, Kept, Playable, ~BudgetSpent, PumpPlayout
    PROVE  Kept' /\ Playable'
<1>1. /\ playDone = FALSE /\ playDone' = TRUE /\ LastSent' = LastSent /\ quiet' = quiet
      /\ UNCHANGED <<network, losses, lastVoiceTs, clock>> /\ heldHere \in BOOLEAN
  BY DEF PumpPlayout, farEnd, callVoice, LastSent, OrderInv, VoiceInv, Buffer
<1>2. /\ missBudget \in Nat /\ quiet = 0 /\ playing \in BOOLEAN /\ clock \in Nat
      /\ FrameMs \in Nat /\ Lag \in Nat
  BY OrderTypes, KeptTypes, BoundsFacts
<1>3. CASE heldHere
  <2>1. frames = {} /\ playing = FALSE
    BY <1>1, <1>3 DEF OrderInv, VoiceInv, Placement, Buffer
  <2>2. UNCHANGED <<frames, playing, missBudget, unheard>>
    BY <1>3 DEF PumpPlayout, NotHeard, jitterVars, history
  <2>3. Buffered' = {}
    BY <2>1, <2>2 DEF Buffered
  <2>4. Kept'
    BY <1>1, <1>2, <2>2, <2>3 DEF Kept
  <2> QED
    BY <2>1, <2>2, <2>4 DEF Playable
<1>4. CASE ~heldHere
  <2>1. heldHere = FALSE
    BY <1>1, <1>4
  <2>2. /\ Pull /\ born' = [t \in frames' |-> born[t]]
        /\ unheard' = IF outcome' = "Play" THEN unheard - 1 ELSE unheard
    BY <2>1 DEF PumpPlayout
  <2>3. CASE PullPriming
    <3>1. /\ ~playing /\ ~Primed /\ frames' = frames /\ playing' = playing
          /\ missBudget' = missBudget /\ outcome' = "Silence"
      BY <2>3 DEF PullPriming
    <3>2. unheard' = Cardinality(frames')
      BY <2>2, <3>1 DEF Kept
    <3>3. Buffered' = Buffered /\ \A t \in frames : born'[t] = born[t]
      BY <2>2, <3>1 DEF Buffered
    <3>4. ASSUME NEW a \in Int
          PROVE  Cardinality(Missing(a)') <= Cardinality(Missing(a))
                 /\ Cardinality(Missing(a)') \in Nat /\ Cardinality(Missing(a)) \in Nat
      <4>1. SentTs' = SentTs /\ \A x : OnGrid(x)' <=> OnGrid(x)
        BY <1>1 DEF SentTs, OnGrid
      <4>2. Missing(a)' \subseteq Missing(a)
        BY <1>1, <3>3, <4>1, Zenon DEF Missing
      <4> QED
        BY <1>1, <4>2, FewerHoles
    <3>5. Now' = clock + FrameMs
      BY <1>1 DEF Now, Turn
    <3>6. ASSUME NEW x \in Buffered'
          PROVE  Now' < x + Lag + FrameMs /\ Cardinality(Missing(x)') <= MaxDelay + losses'
      <4>1. PICK t \in frames : x = born[t]
        BY <3>3, <3>6 DEF Buffered
      <4>2. PICK r \in 0 .. clock : Aligned(r)
        BY <4>1 DEF OrderInv
      <4>3. clock < x + Lag
        BY <3>1, <4>1, <4>2, PrimesInTime
      <4>4. x \in Int /\ x \in Buffered
        BY <4>1, OrderTypes DEF Buffered
      <4>5. Cardinality(Missing(x)) <= MaxDelay + losses
        BY <4>4 DEF Kept
      <4>6. Now' < x + Lag + FrameMs
        BY <1>2, <3>5, <4>3, <4>4
      <4>7. Cardinality(Missing(x)') <= MaxDelay + losses'
        BY <1>1, <3>4, <4>4, <4>5, KeptTypes
      <4> QED
        BY <4>6, <4>7
    <3>7. Kept'
      BY <1>1, <1>2, <3>1, <3>2, <3>6 DEF Kept
    <3>8. ASSUME frames' # {} \/ playing' PROVE \E r \in 0 .. clock' : Aligned(r)'
      <4>1. PICK r \in 0 .. clock : Aligned(r)
        BY <3>1, <3>8 DEF OrderInv
      <4>2. ~BudgetSpent /\ OrderBounds
        BY BoundsFacts
      <4>3. Aligned(r)'
        BY <2>1, <3>8, <4>1, <4>2, PumpAligned
      <4> QED
        BY <1>1, <4>3
    <3>9. 0 \in Int /\ ~playing'
      BY <3>1
    <3> QED
      BY <3>7, <3>8, <3>9, Zenon DEF Playable
  <2>4. CASE PullPlay \/ PullConceal
    <3>1. playing \/ Primed
      BY <2>4 DEF PullPlay, PullConceal
    <3> QED
      BY <2>1, <2>4, <3>1, PlayoutKept
  <2>5. CASE PullEmpty
    <3>1. /\ frames = {} /\ frames' = {} /\ playing' = FALSE /\ missBudget' = 0
          /\ outcome' = "Silence"
      BY <2>5 DEF PullEmpty
    <3>2. unheard' = Cardinality(frames')
      BY <2>2, <3>1 DEF Kept
    <3>3. Buffered' = {}
      BY <3>1 DEF Buffered
    <3>4. Kept'
      BY <1>1, <1>2, <3>1, <3>2, <3>3 DEF Kept
    <3> QED
      BY <3>1, <3>4 DEF Playable
  <2> QED
    BY <2>2, <2>3, <2>4, <2>5 DEF Pull
<1> QED
  BY <1>3, <1>4

\* A switch starts anew with nothing.
LEMMA SwitchKept ==
    ASSUME Kept, Switch
    PROVE  Kept' /\ Playable'
<1>1. /\ frames' = {} /\ playing' = FALSE /\ missBudget' = 0 /\ unheard' = 0 /\ quiet' = quiet
  BY DEF Switch, Reset, farEnd
<1>2. Buffered' = {}
  BY <1>1 DEF Buffered
<1>3. unheard' = Cardinality(frames')
  BY <1>1, FS_EmptySet
<1>4. quiet' = 0 /\ missBudget' \in Nat
  BY <1>1 DEF Kept
<1>5. Kept'
  BY <1>1, <1>2, <1>3, <1>4, Zenon DEF Kept
<1> QED
  BY <1>1, <1>5 DEF Playable

\* Before the first frame there is nothing to keep.
LEMMA KeptInit == ASSUME KeptBounds, VoiceInit PROVE KeptInv
<1>1. /\ frames = {} /\ playing = FALSE /\ missBudget = 0 /\ unheard = 0 /\ quiet = 0
      /\ farHeld = FALSE
  BY DEF VoiceInit, JitterInit
<1>2. OrderInv
  BY BoundsFacts, OrderInit
<1>3. VoiceInv /\ NearZero /\ misled = FALSE
  BY <1>1, <1>2 DEF VoiceInit, OrderInv, NearZero
<1>4. Buffered = {}
  BY <1>1 DEF Buffered
<1>5. unheard = Cardinality(frames)
  BY <1>1, FS_EmptySet
<1>6. Kept
  <2>1. missBudget \in Nat
    BY <1>1
  <2> QED
    BY <1>1, <1>4, <1>5, <2>1, Zenon DEF Kept
<1>7. Playable
  BY <1>1 DEF Playable
<1> QED
  BY <1>1, <1>2, <1>6, <1>7, <1>3 DEF KeptInv

\* Nothing happens.
LEMMA StutterKept ==
    ASSUME OrderInv, Kept, Playable, UNCHANGED voiceVars
    PROVE  Kept' /\ Playable'
<1>1. /\ UNCHANGED <<jitterVars, callVoice, history>> /\ clock' = clock
      /\ playDone' = playDone /\ losses' = losses /\ network' = network /\ quiet' = quiet
      /\ UNCHANGED <<frames, born>> /\ LastSent' = LastSent
  BY DEF voiceVars, farEnd, history, jitterVars, LastSent
<1>2. \A r \in 0 .. clock : Chain(r) => Chain(r)'
  BY <1>1, ChainKept, Zenon
<1>3. losses' \in Nat /\ playDone' \in BOOLEAN /\ quiet' = 0
  BY <1>1, KeptTypes
<1>4. ASSUME NEW a \in Int
      PROVE  Cardinality(Missing(a)') + losses <= Cardinality(Missing(a)) + losses'
             /\ Cardinality(Missing(a)') \in Nat
  <2>1. Missing(a)' \subseteq Missing(a)
    BY <1>1 DEF Missing, OnGrid, SentTs, Buffered
  <2>2. Cardinality(Missing(a)') <= Cardinality(Missing(a))
        /\ Cardinality(Missing(a)') \in Nat /\ Cardinality(Missing(a)) \in Nat
    BY <1>1, <2>1, FewerHoles
  <2> QED
    BY <1>1, <1>3, <2>2
<1> QED
  BY <1>1, <1>2, <1>3, <1>4, FarStepKept

\* Every step keeps what is buffered, until the far end stops.
LEMMA KeptStep ==
    ASSUME KeptBounds, KeptInv, [VoiceNext]_voiceVars
    PROVE  KeptInv'
<1>1. farHeld' \in BOOLEAN /\ (farHeld' = FALSE => farHeld = FALSE /\ ~FarSilent)
  <2>1. farHeld' = farHeld \/ farHeld' = TRUE
    BY DEF VoiceNext, voiceVars, SendVoice, FarSilent, Lose, Deliver, NextTick, PumpPlayout,
           Switch, farEnd
  <2>2. FarSilent => farHeld' = TRUE
    BY DEF FarSilent
  <2> QED
    BY <2>1, <2>2 DEF KeptInv
<1>2. VoiceInv'
  BY VoiceStep DEF KeptInv
<1>3. misled' \in BOOLEAN /\ (misled' = FALSE => misled = FALSE /\ NearZero')
  BY <1>2, NearZeroKept DEF KeptInv
<1> SUFFICES ASSUME farHeld = FALSE, ~FarSilent, misled = FALSE, misled' = FALSE
             PROVE  OrderInv' /\ Kept' /\ Playable'
  BY <1>1, <1>2, <1>3 DEF KeptInv
<1>4. OrderInv /\ NearZero /\ Kept /\ Playable
  BY DEF KeptInv
<1>5. ~BudgetSpent
  BY <1>4, BudgetKept
<1>6. OrderInv'
  <2>1. OrderBounds
    BY BoundsFacts
  <2> QED
    BY <1>4, <1>5, <2>1, OrderStep
<1>7. CASE VoiceNext
  BY <1>4, <1>5, <1>6, <1>7, SendKept, LoseKept, DeliverKept, TickKept, PumpKept, SwitchKept
  DEF VoiceNext
<1>8. CASE UNCHANGED voiceVars
  BY <1>4, <1>6, <1>8, StutterKept
<1> QED
  BY <1>6, <1>7, <1>8

\* A stream that does not stop is played to the last frame that arrives, on the
\* buffer's terms: when the least depth covers the delay of the network and two
\* frames, the greatest the holes it leaves, and the miss budget what is lost; and
\* until mini-frames overtake the full VOICE or are placed next to 0.
THEOREM StreamPlayedOut ==
    ASSUME KeptBounds
    PROVE  VoiceSpec => []NothingDiscarded
<1>1. VoiceInit => KeptInv
  BY KeptInit
<1>2. KeptInv /\ [VoiceNext]_voiceVars => KeptInv'
  BY KeptStep
<1>3. KeptInv => NothingDiscarded
  BY DEF KeptInv, Kept, NothingDiscarded
<1> QED
  BY <1>1, <1>2, <1>3, PTL DEF VoiceSpec
=============================================================================
