---------------------------- MODULE LegLinkProofs ----------------------------
(***************************************************************************)
(* A leg of the client never forgets a reliable frame before the PBX has   *)
(* it, for every window and number space, whatever the network loses,      *)
(* repeats and reorders.                                                   *)
(*                                                                         *)
(* On the wire a frame is its number modulo SeqMod.  The invariant says    *)
(* that everything in the window and under way is placed: at most          *)
(* WindowBound, less than half the numbers, behind the newest frame.       *)
(* Between such numbers serial comparison is the order in which they were  *)
(* sent (SerialOrder), so that an acknowledgement takes away only what the *)
(* PBX has, and the PBX takes each frame for what it is.                   *)
(***************************************************************************)
EXTENDS LegLink, LegProofs

-----------------------------------------------------------------------------
(* Numbers modulo SeqMod                                                   *)

\* A number below the modulus is its own remainder, one less than a modulus
\* below zero has its remainder a modulus up.
LEMMA Remainders ==
    ASSUME NEW m \in Nat \ {0}, NEW x \in Int
    PROVE  /\ 0 <= x /\ x < m => x % m = x
           /\ -m <= x /\ x < 0 => x % m = x + m
OBVIOUS

\* A number is its block of SeqMod and what goes on the wire.
LEMMA WireOf ==
    ASSUME NEW n \in Nat
    PROVE  /\ Wire(n) \in 0 .. SeqMod - 1
           /\ \E p \in Nat : n = p * SeqMod + Wire(n)
<1>1. SeqMod \in Nat \ {0}
  BY LegAssumption
<1>2. /\ n \div SeqMod \in Nat /\ n % SeqMod \in 0 .. SeqMod - 1
      /\ n = (n \div SeqMod) * SeqMod + (n % SeqMod)
  BY <1>1
<1> QED
  BY <1>2 DEF Wire

\* Two numbers less than m apart lie in the same block of m or in neighbours.
LEMMA Blocks ==
    ASSUME NEW m \in Nat \ {0}, NEW p \in Nat, NEW q \in Nat,
           NEW x \in 0 .. m - 1, NEW y \in 0 .. m - 1,
           p * m + x <= q * m + y, (q * m + y) - (p * m + x) < m
    PROVE  q * m = p * m \/ q * m = p * m + m
OBVIOUS

\* Less than SeqMod apart, the difference of two numbers on the wire is theirs,
\* one way round or the other.
LEMMA WireDifference ==
    ASSUME NEW a \in Nat, NEW b \in Nat, a <= b, b - a < SeqMod
    PROVE  /\ (Wire(b) - Wire(a)) % SeqMod = b - a
           /\ a # b => (Wire(a) - Wire(b)) % SeqMod = SeqMod - (b - a)
<1>1. SeqMod \in Nat \ {0}
  BY LegAssumption
<1>2. Wire(a) \in 0 .. SeqMod - 1 /\ Wire(b) \in 0 .. SeqMod - 1
  BY WireOf
<1>3. PICK p \in Nat, q \in Nat :
        a = p * SeqMod + Wire(a) /\ b = q * SeqMod + Wire(b)
  BY WireOf
<1>4. q * SeqMod = p * SeqMod \/ q * SeqMod = p * SeqMod + SeqMod
  BY <1>1, <1>2, <1>3, Blocks
<1>5. Wire(b) - Wire(a) = b - a \/ Wire(b) - Wire(a) = b - a - SeqMod
  <2> DEFINE pm == p * SeqMod
             qm == q * SeqMod
  <2>1. pm \in Int /\ qm \in Int
    BY <1>1
  <2>2. /\ a = pm + Wire(a) /\ b = qm + Wire(b)
        /\ qm = pm \/ qm = pm + SeqMod
    BY <1>3, <1>4
  <2> HIDE DEF pm, qm
  <2> QED
    BY <1>1, <1>2, <2>1, <2>2
<1> DEFINE d == Wire(b) - Wire(a)
           e == Wire(a) - Wire(b)
<1>6. d \in Int /\ e \in Int /\ e = -d
  BY <1>2
<1>7. d = b - a \/ d = b - a - SeqMod
  BY <1>5
<1> HIDE DEF d, e
<1>8. d % SeqMod = b - a
  BY <1>1, <1>6, <1>7, Remainders
<1>9. a # b => e % SeqMod = SeqMod - (b - a)
  BY <1>1, <1>6, <1>7, Remainders
<1> QED
  BY <1>8, <1>9 DEF d, e

\* The number after the one on the wire is the one of the next frame.
LEMMA WireSucc == ASSUME NEW n \in Nat PROVE Succ(Wire(n)) = Wire(n + 1)
<1>1. SeqMod \in Nat \ {0} /\ 1 < SeqMod
  BY LegAssumption
<1>2. Wire(n) \in 0 .. SeqMod - 1 /\ Wire(n + 1) \in 0 .. SeqMod - 1
  BY WireOf
<1>3. (Wire(n + 1) - Wire(n)) % SeqMod = 1
  <2>1. (n + 1) - n = 1
    OBVIOUS
  <2> QED
    BY <1>1, <2>1, WireDifference
<1>4. Wire(n + 1) - Wire(n) = 1 \/ Wire(n + 1) - Wire(n) = 1 - SeqMod
  <2> DEFINE d == Wire(n + 1) - Wire(n)
  <2>1. d \in Int /\ -SeqMod <= d /\ d < SeqMod /\ d % SeqMod = 1
    BY <1>1, <1>2, <1>3
  <2> HIDE DEF d
  <2>2. d = 1 \/ d = 1 - SeqMod
    BY <1>1, <2>1, Remainders
  <2> QED
    BY <2>2 DEF d
<1>5. CASE Wire(n) + 1 < SeqMod
  <2>1. Wire(n) + 1 \in Int /\ 0 <= Wire(n) + 1
    BY <1>2
  <2>2. (Wire(n) + 1) % SeqMod = Wire(n) + 1
    BY <1>1, <1>5, <2>1, Remainders
  <2> QED
    BY <1>1, <1>2, <1>4, <1>5, <2>2 DEF Succ
<1>6. CASE Wire(n) + 1 = SeqMod
  <2>1. SeqMod % SeqMod = 0
    BY <1>1
  <2> QED
    BY <1>1, <1>2, <1>4, <1>6, <2>1 DEF Succ
<1> QED
  BY <1>1, <1>2, <1>5, <1>6

\* Two numbers on the wire are the same when the numbers are, less than SeqMod
\* apart.
LEMMA WireInjective ==
    ASSUME NEW a \in Nat, NEW b \in Nat, a - b < SeqMod, b - a < SeqMod,
           Wire(a) = Wire(b)
    PROVE  a = b
<1>1. SeqMod \in Nat \ {0}
  BY LegAssumption
<1>2. Wire(a) \in Int /\ Wire(b) \in Int
  BY <1>1, WireOf
<1>3. Wire(a) - Wire(b) = 0 /\ Wire(b) - Wire(a) = 0
  BY <1>2
<1>4. 0 % SeqMod = 0
  BY <1>1
<1>5. CASE a <= b
  <2>1. (Wire(b) - Wire(a)) % SeqMod = b - a
    BY <1>1, <1>5, WireDifference
  <2> QED
    BY <1>3, <1>4, <2>1
<1>6. CASE b <= a
  <2>1. (Wire(a) - Wire(b)) % SeqMod = a - b
    BY <1>1, <1>6, WireDifference
  <2> QED
    BY <1>3, <1>4, <2>1
<1> QED
  BY <1>5, <1>6

\* Between numbers no further apart than a window, SeqBefore is their order.
LEMMA SerialOrder ==
    ASSUME NEW a \in Nat, NEW b \in Nat, a <= b + WindowBound, b <= a + WindowBound
    PROVE  SeqBefore(Wire(a), Wire(b)) <=> a < b
<1> DEFINE d == (Wire(b) - Wire(a)) % SeqMod
           half == SeqMod \div 2
<1>1. /\ SeqMod \in Nat \ {0} /\ WindowBound \in Nat /\ half \in Nat
      /\ 2 * half <= SeqMod /\ WindowBound < half
  BY LegAssumption
<1>2. SeqBefore(Wire(a), Wire(b)) <=> d # 0 /\ d < half
  BY DEF SeqBefore
<1>3. a <= b => d = b - a
  BY <1>1, WireDifference
<1>4. b < a => d = SeqMod - (a - b)
  BY <1>1, WireDifference
<1> HIDE DEF d, half
<1> QED
  BY <1>1, <1>2, <1>3, <1>4

-----------------------------------------------------------------------------
(* The invariant                                                           *)

LinkKinds == {"DTMF", "ACCEPT", "RINGING", "LAGRP", "CONTROL", "ACK"}
LinkLegs == Legs(LinkKinds, {Link})
LinkMsgs == [to : {"client", "pbx"}, frame : Frames(LinkKinds, {Link}), at : Nat]

\* The timestamp of frame n is n, or that of the other one of its pair.
Stamp(ts, n) == ts = n \/ (ts = n - 1 /\ {n - 1, n} \subseteq twins)

\* At most a window behind the newest frame.
Recent(n) == n \in 0 .. clientSent /\ clientSent <= n + WindowBound

\* f is frame n of the client.
Placed(f, n) ==
    n < clientSent /\ Recent(n) /\ f.oseq = Wire(n) /\ Stamp(f.ts, n)

LinkTyped ==
    /\ leg \in LinkLegs /\ leg.oseq = Wire(clientSent)
    /\ clientSent \in 0 .. ClientMax \cup 0 .. MixMax
    /\ reliable \subseteq 0 .. clientSent - 1 /\ twins \subseteq reliable
    /\ pbxGot \in 0 .. clientSent /\ pbxSent \in 0 .. PbxMax
    /\ net \subseteq LinkMsgs

\* Traffic with holes stays within a window.
Mixed == AllSingle \/ clientSent <= MixMax

WindowPlaced == \A o \in leg.outstanding : \E n \in reliable : Placed(o.frame, n)

\* What the client sends is one of its frames; an acknowledgement only repeats
\* its number.
ToPbx(m) == m.frame.kind # "ACK" => Placed(m.frame, m.at)

\* What the PBX sends says how far it has got, and an ACK bears the timestamp of
\* a frame it has.
ToClient(m) ==
    /\ m.at <= pbxGot /\ m.frame.iseq = Wire(m.at) /\ m.frame.src = Pbx
    /\ m.frame.kind = "ACK" => \E k \in 0 .. pbxGot - 1 : Stamp(m.frame.ts, k)

MsgPlaced(m) == Recent(m.at) /\ IF m.to = "pbx" THEN ToPbx(m) ELSE ToClient(m)

NetPlaced == \A m \in net : MsgPlaced(m)

Kept == \A n \in Single : n < pbxGot \/ \E o \in leg.outstanding : Placed(o.frame, n)

LinkInv == LinkTyped /\ Mixed /\ WindowPlaced /\ NetPlaced /\ Kept

\* The numbers the proofs compare.
LEMMA LinkNumbers ==
    ASSUME LinkTyped
    PROVE  /\ clientSent \in Nat /\ clientSent \in Ts /\ pbxGot \in 0 .. clientSent
           /\ WindowBound \in Nat /\ 2 <= WindowBound /\ 2 * WindowBound < SeqMod
           /\ SeqMod \in Nat /\ MixMax \in Nat /\ MixMax <= WindowBound
           /\ ClientMax \in Nat /\ PbxMax \in Nat
BY LegAssumption, LinkAssumption DEF LinkTyped

\* The PBX is never more than a window behind: what it has not got is in the
\* window, or there has not been more than a window.
LEMMA NotFarBehind == ASSUME LinkInv PROVE Recent(pbxGot)
<1>1. CASE pbxGot = clientSent
  BY <1>1, LinkNumbers DEF Recent, LinkInv
<1>2. CASE clientSent <= MixMax
  BY <1>2, LinkNumbers DEF Recent, LinkInv
<1>3. CASE AllSingle /\ pbxGot < clientSent
  <2>1. pbxGot \in Single
    BY <1>3, LinkNumbers DEF AllSingle, LinkInv
  <2>2. PICK o \in leg.outstanding : Placed(o.frame, pbxGot)
    BY <2>1, LinkNumbers DEF Kept, LinkInv
  <2> QED
    BY <2>2 DEF Placed
<1> QED
  BY <1>1, <1>2, <1>3, LinkNumbers DEF Mixed, LinkInv

\* Frame n of the client is found by its number on the wire.
LEMMA AtPlaced ==
    ASSUME LinkTyped, NEW f, NEW n, Placed(f, n)
    PROVE  At(f) = n
<1>1. /\ n \in 0 .. clientSent - 1 /\ Wire(n) = f.oseq /\ n + WindowBound >= clientSent
  BY LinkNumbers DEF Placed, Recent
<1>2. ASSUME NEW k \in 0 .. clientSent - 1, Wire(k) = f.oseq, k + WindowBound >= clientSent
      PROVE  k = n
  <2>1. k \in Nat /\ n \in Nat /\ k - n < SeqMod /\ n - k < SeqMod
    BY <1>1, <1>2, LinkNumbers
  <2> QED
    BY <1>1, <1>2, <2>1, WireInjective
<1> QED
  BY <1>1, <1>2 DEF At

\* What the run checks follows.
LEMMA KeptIsKept == LinkInv => KeptUntilReceived
BY AtPlaced DEF LinkInv, Kept, KeptUntilReceived, Tracked

-----------------------------------------------------------------------------
(* What a step leaves in its place                                         *)

\* A frame stays in its place while the client sends no more than fits.
LEMMA PlacedStays ==
    ASSUME LinkTyped, NEW f, NEW n, Placed(f, n), clientSent' \in Nat,
           clientSent <= clientSent', clientSent' <= n + WindowBound,
           twins \subseteq twins'
    PROVE  Placed(f, n)'
<1>1. n \in 0 .. clientSent' /\ n < clientSent'
  BY LinkNumbers DEF Placed, Recent
<1>2. Stamp(f.ts, n)'
  BY DEF Placed, Stamp
<1> QED
  BY <1>1, <1>2 DEF Placed, Recent

\* So does a datagram under way.
LEMMA MsgStays ==
    ASSUME LinkTyped, NEW m, MsgPlaced(m), clientSent' \in Nat,
           clientSent <= clientSent', clientSent' <= m.at + WindowBound,
           twins \subseteq twins', pbxGot' \in Nat, pbxGot <= pbxGot'
    PROVE  MsgPlaced(m)'
<1>1. Recent(m.at)'
  BY LinkNumbers DEF MsgPlaced, Recent
<1>2. ToPbx(m) => ToPbx(m)'
  BY PlacedStays DEF ToPbx
<1>3. ToClient(m) => ToClient(m)'
  <2> SUFFICES ASSUME ToClient(m) PROVE ToClient(m)'
    OBVIOUS
  <2>1. m.at <= pbxGot'
    BY LinkNumbers DEF ToClient, MsgPlaced, Recent
  <2>2. ASSUME m.frame.kind = "ACK"
        PROVE  \E k \in 0 .. pbxGot' - 1 : Stamp(m.frame.ts, k)'
    <3>1. PICK k \in 0 .. pbxGot - 1 : Stamp(m.frame.ts, k)
      BY <2>2 DEF ToClient
    <3>2. k \in 0 .. pbxGot' - 1 /\ Stamp(m.frame.ts, k)'
      BY <3>1, LinkNumbers DEF Stamp
    <3> QED
      BY <3>2
  <2> QED
    BY <2>1, <2>2 DEF ToClient
<1> QED
  BY <1>1, <1>2, <1>3 DEF MsgPlaced

\* A step that sends no frame of the client keeps the invariant if the window
\* loses only frames the PBX has and what is put under way is placed.
LEMMA QuietInv ==
    ASSUME LinkInv, UNCHANGED <<clientSent, reliable, twins>>,
           leg' \in LinkLegs, leg'.oseq = leg.oseq,
           pbxGot' \in pbxGot .. clientSent,
           pbxSent' \in 0 .. PbxMax, pbxSent' = pbxSent \/ clientSent <= MixMax,
           \A o \in leg'.outstanding : \E p \in leg.outstanding : o.frame = p.frame,
           \A p \in leg.outstanding :
              \/ \E o \in leg'.outstanding : o.frame = p.frame
              \/ \A n \in Single : Placed(p.frame, n) => n < pbxGot',
           net' \subseteq LinkMsgs,
           \A m \in net' : m \in net \/ MsgPlaced(m)'
    PROVE  LinkInv'
<1>1. LinkTyped /\ Mixed /\ WindowPlaced /\ NetPlaced /\ Kept
  BY DEF LinkInv
<1>2. /\ clientSent' = clientSent /\ clientSent \in Nat /\ twins' = twins
      /\ reliable' = reliable /\ pbxGot' \in Nat /\ pbxGot' \in 0 .. clientSent
      /\ pbxGot <= pbxGot' /\ pbxGot \in Nat
  BY <1>1, LinkNumbers
<1>3. LinkTyped'
  BY <1>1, <1>2 DEF LinkTyped
<1>4. Mixed'
  BY <1>1, <1>2 DEF Mixed, AllSingle, Single
<1>5. ASSUME NEW f, NEW n, Placed(f, n) PROVE Placed(f, n)'
  <2>1. clientSent' <= n + WindowBound
    BY <1>2, <1>5 DEF Placed, Recent
  <2> QED
    BY <1>1, <1>2, <1>5, <2>1, PlacedStays
<1>6. WindowPlaced'
  <2> SUFFICES ASSUME NEW o \in leg'.outstanding
               PROVE  \E n \in reliable' : Placed(o.frame, n)'
    BY DEF WindowPlaced
  <2>1. PICK p \in leg.outstanding : o.frame = p.frame
    OBVIOUS
  <2>2. PICK n \in reliable : Placed(p.frame, n)
    BY <1>1 DEF WindowPlaced
  <2> QED
    BY <1>2, <1>5, <2>1, <2>2
<1>7. NetPlaced'
  <2> SUFFICES ASSUME NEW m \in net' PROVE MsgPlaced(m)'
    BY DEF NetPlaced
  <2>1. CASE m \in net
    <3>1. MsgPlaced(m) /\ clientSent' <= m.at + WindowBound
      BY <1>1, <1>2, <2>1 DEF NetPlaced, MsgPlaced, Recent
    <3> QED
      BY <1>1, <1>2, <3>1, MsgStays
  <2> QED
    BY <2>1
<1>8. Kept'
  <2> SUFFICES ASSUME NEW n \in Single
               PROVE  n < pbxGot' \/ \E o \in leg'.outstanding : Placed(o.frame, n)'
    BY <1>2 DEF Kept, Single
  <2>1. n \in Nat
    <3>1. n \in reliable /\ reliable \subseteq 0 .. clientSent - 1
      BY <1>1 DEF LinkTyped, Single
    <3> QED
      BY <1>2, <3>1
  <2>2. CASE n < pbxGot
    BY <1>2, <2>1, <2>2
  <2>3. ASSUME NEW p \in leg.outstanding, Placed(p.frame, n)
        PROVE  n < pbxGot' \/ \E o \in leg'.outstanding : Placed(o.frame, n)'
    BY <1>5, <2>3
  <2> QED
    BY <1>1, <2>2, <2>3 DEF Kept
<1> QED
  BY <1>3, <1>4, <1>6, <1>7, <1>8 DEF LinkInv

\* Where n more frames fit, what is in the window stays in its place.
LEMMA RoomPlaced ==
    ASSUME LinkInv, NEW n \in {1, 2}, Room(leg, n), NEW o \in leg.outstanding,
           NEW k, Placed(o.frame, k)
    PROVE  clientSent + n <= k + WindowBound
<1>1. /\ k \in Nat /\ k < clientSent /\ clientSent - k < SeqMod
      /\ clientSent \in Nat /\ leg.oseq = Wire(clientSent) /\ o.frame.oseq = Wire(k)
  BY LinkNumbers DEF LinkInv, LinkTyped, Placed, Recent
<1>2. (Wire(clientSent) - Wire(k)) % SeqMod = clientSent - k
  BY <1>1, WireDifference
<1>3. (clientSent - k) + n <= WindowBound
  BY <1>1, <1>2 DEF Room
<1> QED
  BY <1>1, <1>3, LinkNumbers DEF LinkInv

\* A step that sends n frames keeps the invariant if they fit, if they are
\* placed, and if those with a timestamp of their own enter the window.
LEMMA SentInv ==
    ASSUME LinkInv, NEW n \in {1, 2}, Room(leg, n), Fresh(n),
           clientSent' = clientSent + n, clientSent' \in 0 .. ClientMax \cup 0 .. MixMax,
           leg' \in LinkLegs, leg'.oseq = Wire(clientSent'),
           reliable \subseteq reliable', twins \subseteq twins',
           reliable' \subseteq reliable \cup clientSent .. clientSent' - 1,
           twins' \subseteq reliable', twins' \subseteq twins \cup clientSent .. clientSent' - 1,
           UNCHANGED <<pbxGot, pbxSent>>, Mixed',
           leg.outstanding \subseteq leg'.outstanding,
           \A o \in leg'.outstanding :
              o \in leg.outstanding \/ \E k \in reliable' : Placed(o.frame, k)',
           \A k \in Single' :
              k < clientSent \/ \E o \in leg'.outstanding : Placed(o.frame, k)',
           net' \subseteq LinkMsgs,
           \A m \in net' : m \in net \/ MsgPlaced(m)'
    PROVE  LinkInv'
<1>1. LinkTyped /\ WindowPlaced /\ NetPlaced /\ Kept
  BY DEF LinkInv
<1>2. /\ clientSent \in Nat /\ clientSent' \in Nat /\ clientSent <= clientSent'
      /\ pbxGot \in 0 .. clientSent /\ pbxGot \in Nat
  BY <1>1, LinkNumbers
<1>3. LinkTyped'
  BY <1>1, <1>2 DEF LinkTyped
<1>4. ASSUME NEW o \in leg.outstanding, NEW k, Placed(o.frame, k)
      PROVE  Placed(o.frame, k)'
  <2>1. clientSent' <= k + WindowBound
    BY <1>4, RoomPlaced
  <2> QED
    BY <1>1, <1>2, <1>4, <2>1, PlacedStays
<1>5. WindowPlaced'
  <2> SUFFICES ASSUME NEW o \in leg'.outstanding
               PROVE  \E k \in reliable' : Placed(o.frame, k)'
    BY DEF WindowPlaced
  <2>1. CASE o \in leg.outstanding
    BY <1>1, <1>4, <2>1 DEF WindowPlaced
  <2> QED
    BY <2>1
<1>6. NetPlaced'
  <2> SUFFICES ASSUME NEW m \in net' PROVE MsgPlaced(m)'
    BY DEF NetPlaced
  <2>1. CASE m \in net
    <3>1. MsgPlaced(m) /\ clientSent' <= m.at + WindowBound
      BY <1>1, <2>1 DEF NetPlaced, Fresh
    <3>2. pbxGot' = pbxGot
      OBVIOUS
    <3> QED
      BY <1>1, <1>2, <3>1, <3>2, MsgStays
  <2> QED
    BY <2>1
<1>7. Kept'
  <2> SUFFICES ASSUME NEW k \in Single'
               PROVE  k < pbxGot' \/ \E o \in leg'.outstanding : Placed(o.frame, k)'
    BY DEF Kept
  <2>1. CASE k < clientSent
    <3>1. k \in Single
      BY <1>2, <2>1 DEF Single
    <3>2. CASE k < pbxGot
      BY <3>2
    <3>3. CASE \E o \in leg.outstanding : Placed(o.frame, k)
      BY <1>4, <3>3
    <3> QED
      BY <1>1, <3>1, <3>2, <3>3 DEF Kept
  <2> QED
    BY <2>1
<1> QED
  BY <1>3, <1>5, <1>6, <1>7 DEF LinkInv

-----------------------------------------------------------------------------
(* The client's steps                                                      *)

\* The client has numbered nothing yet.
LEMMA LinkInitInv == LinkInit => LinkInv
<1> SUFFICES ASSUME LinkInit PROVE LinkInv
  OBVIOUS
<1>1. /\ leg = [NewLeg(Link) EXCEPT !.remote = Pbx] /\ clientSent = 0
      /\ reliable = {} /\ twins = {} /\ pbxGot = 0 /\ pbxSent = 0 /\ net = {}
  BY DEF LinkInit
<1>2. Wire(0) = 0 /\ 0 \in SeqNo
  BY LegAssumption DEF Wire, SeqNo
<1>3. NewLeg(Link) \in LinkLegs
  BY NewLegType DEF LinkLegs
<1>4. leg \in LinkLegs /\ leg.outstanding = {} /\ leg.oseq = Wire(0)
  BY <1>1, <1>2, <1>3, LinkAssumption DEF NewLeg, LinkLegs, Legs
<1>5. LinkTyped
  BY <1>1, <1>4, LinkAssumption DEF LinkTyped
<1>6. Single = {} /\ 0 .. clientSent - 1 = {}
  BY <1>1 DEF Single
<1>7. Mixed
  BY <1>1, <1>6 DEF Mixed, AllSingle
<1> QED
  BY <1>1, <1>4, <1>5, <1>6, <1>7 DEF LinkInv, WindowPlaced, NetPlaced, Kept

\* The next frame of the client, whether tracked or not, is placed.
LEMMA NextPlaced ==
    ASSUME LinkInv, NEW c, c = clientSent, NEW f, NEW kind \in LinkKinds,
           f = FrameOf(leg, kind, c, {}), clientSent' \in {c + 1, c + 2}
    PROVE  /\ Placed(f, c)'
           /\ Msg("pbx", f, c) \in LinkMsgs
           /\ MsgPlaced(Msg("pbx", f, c))'
<1>1. /\ leg \in LinkLegs /\ leg.oseq = Wire(clientSent) /\ clientSent \in Nat
      /\ clientSent \in Ts
  BY LinkNumbers DEF LinkInv, LinkTyped
<1>2. f \in Frames(LinkKinds, {Link})
  BY <1>1, FrameOfType DEF LinkLegs
<1>3. f.oseq = Wire(clientSent) /\ f.ts = clientSent
  BY <1>1 DEF FrameOf
<1>4. Recent(c)'
  BY <1>1, LinkNumbers DEF Recent, LinkInv
<1>5. Placed(f, c)'
  BY <1>1, <1>3, <1>4 DEF Placed, Stamp
<1>6. Msg("pbx", f, c) \in LinkMsgs
  BY <1>1, <1>2 DEF Msg, LinkMsgs
<1>7. MsgPlaced(Msg("pbx", f, c))'
  BY <1>4, <1>5 DEF Msg, MsgPlaced, ToPbx
<1> QED
  BY <1>5, <1>6, <1>7

\* A reliable frame by itself enters the window.
LEMMA ClientSendInv == ASSUME LinkInv, ClientSend PROVE LinkInv'
<1> SUFFICES ASSUME NEW c, c = clientSent,
                    NEW f, f = FrameOf(leg, "DTMF", c, {}),
                    NEW o, o = [frame |-> f, due |-> RetxAfter, tries |-> 0]
             PROVE  LinkInv'
  OBVIOUS
<1>1. /\ leg \in LinkLegs /\ leg.oseq = Wire(clientSent) /\ clientSent \in Nat
      /\ clientSent \in Ts /\ ClientMax \in Nat /\ MixMax \in Nat
      /\ reliable \subseteq 0 .. clientSent - 1 /\ twins \subseteq reliable
      /\ net \subseteq LinkMsgs
  BY LinkNumbers DEF LinkInv, LinkTyped
<1>2. /\ Room(leg, 1) /\ Fresh(1) /\ clientSent' = clientSent + 1
      /\ clientSent + 1 <= IF AllSingle THEN ClientMax ELSE MixMax
      /\ leg' = SendReliable(leg, "DTMF", clientSent, {})
      /\ net' = net \cup {Msg("pbx", f, c)}
      /\ reliable' = reliable \cup {clientSent} /\ twins' = twins
      /\ pbxGot' = pbxGot /\ pbxSent' = pbxSent
  BY DEF ClientSend, CanSend, SendReliable, pbxVars
<1>3. "DTMF" \in LinkKinds
  BY DEF LinkKinds
<1>4. /\ leg' \in LinkLegs /\ leg'.oseq = Wire(clientSent')
      /\ leg'.outstanding = leg.outstanding \cup {o}
  BY <1>1, <1>2, <1>3, SendReliableType, SendReliableWindow, SequenceKept, WireSucc
  DEF LinkLegs
<1>5. /\ Placed(f, c)' /\ Msg("pbx", f, c) \in LinkMsgs
      /\ MsgPlaced(Msg("pbx", f, c))'
  BY <1>2, <1>3, NextPlaced
<1>6. o.frame = f
  OBVIOUS
<1>7. Single' = Single \cup {clientSent}
  BY <1>1, <1>2 DEF Single
<1>8. Mixed'
  <2>1. CASE AllSingle
    BY <1>1, <1>2, <1>7, <2>1 DEF AllSingle, Mixed
  <2>2. CASE ~AllSingle
    BY <1>2, <2>2 DEF Mixed
  <2> QED
    BY <2>1, <2>2
<1>9. \A k \in Single' : k < clientSent \/ \E p \in leg'.outstanding : Placed(p.frame, k)'
  <2>0. \A k \in Single : k < clientSent
    BY <1>1 DEF Single
  <2> SUFFICES ASSUME NEW k \in Single', k = clientSent
               PROVE  \E p \in leg'.outstanding : Placed(p.frame, k)'
    BY <1>7, <2>0
  <2>1. o \in leg'.outstanding /\ k = c
    BY <1>4
  <2> QED
    BY <1>5, <1>6, <2>1
<1>10. clientSent' \in 0 .. ClientMax \cup 0 .. MixMax
  BY <1>1, <1>2
<1>11. \A p \in leg'.outstanding :
          p \in leg.outstanding \/ \E k \in reliable' : Placed(p.frame, k)'
  BY <1>2, <1>4, <1>5, <1>6
<1>12. /\ reliable' \subseteq reliable \cup clientSent .. clientSent' - 1
       /\ twins' \subseteq reliable'
  BY <1>1, <1>2
<1> QED
  BY <1>1, <1>2, <1>4, <1>5, <1>8, <1>9, <1>10, <1>11, <1>12, SentInv

\* A frame that is not tracked takes a number only.
LEMMA ClientSendUntrackedInv == ASSUME LinkInv, ClientSendUntracked PROVE LinkInv'
<1> SUFFICES ASSUME NEW c, c = clientSent, NEW f, f = FrameOf(leg, "LAGRP", c, {})
             PROVE  LinkInv'
  OBVIOUS
<1>1. /\ leg \in LinkLegs /\ leg.oseq = Wire(clientSent) /\ clientSent \in Nat
      /\ MixMax \in Nat /\ net \subseteq LinkMsgs
      /\ reliable \subseteq 0 .. clientSent - 1 /\ twins \subseteq reliable
  BY LinkNumbers DEF LinkInv, LinkTyped
<1>2. /\ Room(leg, 1) /\ Fresh(1) /\ clientSent' = clientSent + 1
      /\ clientSent + 1 <= MixMax
      /\ leg' = Advance(leg)
      /\ net' = net \cup {Msg("pbx", f, c)}
      /\ reliable' = reliable /\ twins' = twins
      /\ pbxGot' = pbxGot /\ pbxSent' = pbxSent
  BY DEF ClientSendUntracked, CanSend, pbxVars
<1>3. "LAGRP" \in LinkKinds
  BY DEF LinkKinds
<1>4. /\ leg' \in LinkLegs /\ leg'.oseq = Wire(clientSent')
      /\ leg'.outstanding = leg.outstanding
  BY <1>1, <1>2, AdvanceType, SequenceKept, WireSucc DEF LinkLegs
<1>5. /\ Msg("pbx", f, c) \in LinkMsgs
      /\ MsgPlaced(Msg("pbx", f, c))'
  BY <1>2, <1>3, NextPlaced
<1>6. Mixed'
  BY <1>2 DEF Mixed
<1>7. \A k \in Single' : k < clientSent
  BY <1>1, <1>2 DEF Single
<1>8. clientSent' \in 0 .. ClientMax \cup 0 .. MixMax
  BY <1>1, <1>2
<1> QED
  BY <1>1, <1>2, <1>4, <1>5, <1>6, <1>7, <1>8, SentInv

\* ACCEPT and RINGING enter the window with one timestamp.
LEMMA ClientSendPairInv == ASSUME LinkInv, ClientSendPair PROVE LinkInv'
<1> SUFFICES ASSUME NEW c, c = clientSent,
                    NEW f, f = FrameOf(leg, "ACCEPT", c, {}),
                    NEW o, o = [frame |-> f, due |-> RetxAfter, tries |-> 0],
                    NEW one, one = SendReliable(leg, "ACCEPT", c, {}),
                    NEW g, g = FrameOf(one, "RINGING", c, {}),
                    NEW p, p = [frame |-> g, due |-> RetxAfter, tries |-> 0]
             PROVE  LinkInv'
  OBVIOUS
<1>1. /\ leg \in LinkLegs /\ leg.oseq = Wire(c) /\ c \in Nat /\ c \in Ts
      /\ MixMax \in Nat /\ net \subseteq LinkMsgs
      /\ reliable \subseteq 0 .. c - 1 /\ twins \subseteq reliable
      /\ WindowBound \in Nat /\ 2 <= WindowBound
  BY LinkNumbers DEF LinkInv, LinkTyped
<1>2. /\ Room(leg, 2) /\ Fresh(2) /\ clientSent' = c + 2 /\ c + 2 <= MixMax
      /\ leg' = SendReliable(one, "RINGING", c, {})
      /\ net' = net \cup {Msg("pbx", f, c), Msg("pbx", g, c + 1)}
      /\ reliable' = reliable \cup {c, c + 1} /\ twins' = twins \cup {c, c + 1}
      /\ pbxGot' = pbxGot /\ pbxSent' = pbxSent
  BY DEF ClientSendPair, CanSend, SendReliable, pbxVars
<1>3. "ACCEPT" \in LinkKinds /\ "RINGING" \in LinkKinds /\ {} \subseteq IeKinds
  BY DEF LinkKinds
<1>4. /\ one \in LinkLegs /\ one.oseq = Wire(c + 1)
      /\ one.outstanding = leg.outstanding \cup {o}
  BY <1>1, <1>3, SendReliableType, SendReliableWindow, SequenceKept, WireSucc DEF LinkLegs
<1>5. /\ leg' \in LinkLegs /\ leg'.oseq = Wire(clientSent')
      /\ leg'.outstanding = leg.outstanding \cup {o, p}
  <2>1. leg' \in LinkLegs /\ leg'.outstanding = one.outstanding \cup {p}
    BY <1>1, <1>2, <1>3, <1>4, SendReliableType, SendReliableWindow DEF LinkLegs
  <2>2. leg'.oseq = Succ(Wire(c + 1)) /\ c + 1 \in Nat /\ (c + 1) + 1 = c + 2
    BY <1>1, <1>2, <1>4, SequenceKept DEF LinkLegs
  <2> QED
    BY <1>2, <1>4, <2>1, <2>2, WireSucc
<1>6. /\ Placed(f, c)' /\ Msg("pbx", f, c) \in LinkMsgs
      /\ MsgPlaced(Msg("pbx", f, c))'
  BY <1>2, <1>3, NextPlaced
<1>7. g \in Frames(LinkKinds, {Link}) /\ g.oseq = Wire(c + 1) /\ g.ts = c
  BY <1>1, <1>3, <1>4, FrameOfType DEF LinkLegs, FrameOf
<1>8. Recent(c + 1)'
  BY <1>1, <1>2 DEF Recent
<1>9. Placed(g, c + 1)'
  BY <1>1, <1>2, <1>7, <1>8 DEF Placed, Stamp
<1>10. /\ Msg("pbx", g, c + 1) \in LinkMsgs /\ MsgPlaced(Msg("pbx", g, c + 1))'
  BY <1>1, <1>7, <1>8, <1>9 DEF Msg, LinkMsgs, MsgPlaced, ToPbx
<1>11. Mixed'
  BY <1>2 DEF Mixed
<1>12. \A k \in Single' : k < clientSent
  BY <1>1, <1>2 DEF Single
<1>13. clientSent' \in 0 .. ClientMax \cup 0 .. MixMax
  BY <1>1, <1>2
<1>14. \A q \in leg'.outstanding :
          q \in leg.outstanding \/ \E k \in reliable' : Placed(q.frame, k)'
  BY <1>2, <1>5, <1>6, <1>9
<1>15. /\ reliable' \subseteq reliable \cup clientSent .. clientSent' - 1
       /\ twins' \subseteq twins \cup clientSent .. clientSent' - 1
       /\ twins' \subseteq reliable'
  BY <1>1, <1>2
<1> QED
  BY <1>1, <1>2, <1>5, <1>6, <1>10, <1>11, <1>12, <1>13, <1>14, <1>15, SentInv

\* What is sent again is what was sent, with the retransmission bit.
LEMMA ClientTimeoutInv == ASSUME LinkInv, ClientTimeout PROVE LinkInv'
<1>1. LinkTyped /\ WindowPlaced /\ leg \in LinkLegs
  BY DEF LinkInv, LinkTyped
<1>2. /\ UNCHANGED <<clientSent, reliable, twins, pbxGot, pbxSent>>
      /\ pbxGot' \in pbxGot .. clientSent /\ pbxSent' \in 0 .. PbxMax
  BY <1>1, LinkNumbers DEF ClientTimeout, pbxVars, LinkTyped
<1>3. CASE UNCHANGED <<leg, net>>
  <2>1. net' \subseteq LinkMsgs /\ leg' \in LinkLegs
    BY <1>1, <1>3 DEF LinkTyped
  <2> QED
    BY <1>2, <1>3, <2>1, QuietInv
<1>4. CASE /\ leg' = RetransmitLeg(leg)
           /\ net' = net \cup {Msg("pbx", f, At(f)) : f \in ResentFrames(leg)}
  <2>1. /\ leg' \in LinkLegs /\ leg'.oseq = leg.oseq
        /\ \A o \in leg'.outstanding : \E p \in leg.outstanding : o.frame = p.frame
        /\ \A p \in leg.outstanding : \E o \in leg'.outstanding : o.frame = p.frame
    BY <1>1, <1>4, RetransmitLegType, RetransmitKeeps, SequenceKept DEF LinkLegs
  <2>2. ASSUME NEW f \in ResentFrames(leg)
        PROVE  /\ Msg("pbx", f, At(f)) \in LinkMsgs
               /\ MsgPlaced(Msg("pbx", f, At(f)))
    <3>1. PICK o \in leg.outstanding : f = [o.frame EXCEPT !.retx = TRUE]
      BY DEF ResentFrames, Resent, Expired
    <3>2. o.frame \in Frames(LinkKinds, {Link})
      BY <1>1 DEF LinkLegs, Legs, Outstandings
    <3>3. PICK n \in reliable : Placed(o.frame, n)
      BY <1>1 DEF WindowPlaced
    <3>4. f.oseq = o.frame.oseq /\ f.ts = o.frame.ts
      BY <3>1, <3>2 DEF Frames
    <3>5. Placed(f, n)
      BY <3>3, <3>4 DEF Placed
    <3>6. At(f) = n /\ n \in Nat
      BY <1>1, <3>5, AtPlaced, LinkNumbers DEF Placed, Recent
    <3>7. f \in Frames(LinkKinds, {Link})
      BY <1>1, ResentFramesType DEF LinkLegs
    <3> QED
      BY <3>5, <3>6, <3>7 DEF Msg, LinkMsgs, MsgPlaced, ToPbx, Placed
  <2>3. net' \subseteq LinkMsgs
    BY <1>1, <1>4, <2>2 DEF LinkTyped
  <2>4. ASSUME NEW m \in net', m \notin net PROVE MsgPlaced(m)'
    <3>1. PICK f \in ResentFrames(leg) : m = Msg("pbx", f, At(f))
      BY <1>4, <2>4
    <3>2. MsgPlaced(m) /\ clientSent' <= m.at + WindowBound
      BY <1>2, <2>2, <3>1 DEF MsgPlaced, Recent
    <3> QED
      BY <1>1, <1>2, <3>2, LinkNumbers, MsgStays
  <2> QED
    BY <1>2, <2>1, <2>3, <2>4, QuietInv
<1> QED
  BY <1>3, <1>4 DEF ClientTimeout

-----------------------------------------------------------------------------
(* What arrives                                                            *)

\* An acknowledgement of the PBX takes away only frames it has: by its number
\* what comes before the frame it expects, by its timestamp one it has taken.
LEMMA AckedIsGot ==
    ASSUME LinkInv, NEW m \in net, m.to = "client", NEW o \in leg.outstanding,
           Acked(o, m.frame.iseq, m.frame.ts, m.frame.kind = "ACK"),
           NEW n \in Single, Placed(o.frame, n)
    PROVE  n < pbxGot
<1>1. /\ n \in Nat /\ n < clientSent /\ clientSent <= n + WindowBound
      /\ n \notin twins /\ o.frame.oseq = Wire(n) /\ Stamp(o.frame.ts, n)
      /\ clientSent \in Nat /\ pbxGot \in Nat /\ pbxGot <= clientSent
      /\ WindowBound \in Nat
  BY LinkNumbers DEF Placed, Recent, Single, LinkInv
<1>2. /\ m.at \in Nat /\ m.at <= clientSent /\ clientSent <= m.at + WindowBound
      /\ m.at <= pbxGot /\ m.frame.iseq = Wire(m.at)
      /\ m.frame.kind = "ACK" => \E k \in 0 .. pbxGot - 1 : Stamp(m.frame.ts, k)
  BY <1>1 DEF LinkInv, NetPlaced, MsgPlaced, ToClient, Recent
<1>3. CASE SeqBefore(Wire(n), Wire(m.at))
  <2>1. n <= m.at + WindowBound /\ m.at <= n + WindowBound
    BY <1>1, <1>2
  <2>2. n < m.at
    BY <1>1, <1>2, <1>3, <2>1, SerialOrder
  <2> QED
    BY <1>1, <1>2, <2>2
<1>4. CASE m.frame.kind = "ACK" /\ o.frame.ts = m.frame.ts
  <2>1. PICK k \in 0 .. pbxGot - 1 : Stamp(m.frame.ts, k)
    BY <1>2, <1>4
  <2>2. o.frame.ts = n
    BY <1>1 DEF Stamp
  <2>3. n = k
    BY <1>1, <1>4, <2>1, <2>2 DEF Stamp
  <2> QED
    BY <1>1, <2>1, <2>3
<1> QED
  BY <1>1, <1>2, <1>3, <1>4 DEF Acked

\* What the client receives.
LEMMA ClientFrame ==
    ASSUME LinkInv, NEW m \in net, m.to = "client"
    PROVE  /\ Receive(leg, m.frame) \in LinkLegs
           /\ Receive(leg, m.frame).oseq = leg.oseq
           /\ Receive(leg, m.frame).outstanding \subseteq leg.outstanding
           /\ \A o \in leg.outstanding :
                \/ o \in Receive(leg, m.frame).outstanding
                \/ \A n \in Single : Placed(o.frame, n) => n < pbxGot
<1>1. leg \in LinkLegs /\ m.frame \in Frames(LinkKinds, {Link}) /\ m.frame.src = Pbx
  BY DEF LinkInv, LinkTyped, LinkMsgs, NetPlaced, MsgPlaced, ToClient
<1>2. m.frame.src \in RemoteNos /\ m.frame.oseq \in SeqNo
  BY <1>1, LinkAssumption DEF Frames
<1>3. Receive(leg, m.frame).outstanding =
        {o \in leg.outstanding :
            ~Acked(o, m.frame.iseq, m.frame.ts, m.frame.kind = "ACK")}
  BY <1>1, <1>2, ReceiveWindow DEF LinkLegs
<1> QED
  BY <1>1, <1>2, <1>3, ReceiveType, SequenceKept, AckedIsGot DEF LinkLegs

\* The client acknowledges every frame but an ACK, with a number of its own.
LEMMA ClientReceiveInv ==
    ASSUME LinkInv, NEW m \in net, ClientReceive(m) PROVE LinkInv'
<1>1. /\ m.to = "client" /\ leg' = Receive(leg, m.frame)
      /\ UNCHANGED <<clientSent, reliable, twins, pbxGot, pbxSent>>
      /\ net' \subseteq net \/ net' = (net \ {m}) \cup
                        {Msg("pbx", AckFrame(leg', clientSent), clientSent)}
  BY DEF ClientReceive, pbxVars
<1>2. LinkTyped /\ NetPlaced
  BY DEF LinkInv
<1>3. /\ leg' \in LinkLegs /\ leg'.oseq = leg.oseq
      /\ leg'.outstanding \subseteq leg.outstanding
      /\ \A o \in leg.outstanding :
            \/ o \in leg'.outstanding
            \/ \A n \in Single : Placed(o.frame, n) => n < pbxGot'
  BY <1>1, ClientFrame
<1>4. pbxGot' \in pbxGot .. clientSent /\ pbxSent' \in 0 .. PbxMax
      /\ clientSent \in Nat /\ clientSent \in Ts
  BY <1>1, <1>2, LinkNumbers DEF LinkTyped
<1> DEFINE a == Msg("pbx", AckFrame(leg', clientSent), clientSent)
<1>5. a \in LinkMsgs
  <2>1. "ACK" \in LinkKinds /\ {} \subseteq IeKinds
    BY DEF LinkKinds
  <2>2. AckFrame(leg', clientSent) \in Frames(LinkKinds, {Link})
    BY <1>3, <1>4, <2>1, FrameOfType DEF AckFrame, LinkLegs
  <2> QED
    BY <1>4, <2>2 DEF Msg, LinkMsgs
<1>6. a.at = clientSent /\ a.to = "pbx" /\ a.frame.kind = "ACK"
  BY DEF Msg, AckFrame, FrameOf
<1>7. ASSUME NEW b, b = a PROVE MsgPlaced(b)'
  BY <1>1, <1>4, <1>6, <1>7, <1>2, LinkNumbers DEF MsgPlaced, ToPbx, Recent
<1> HIDE DEF a
<1>8. net' \subseteq LinkMsgs
  BY <1>1, <1>2, <1>5 DEF LinkTyped, a
<1>9. \A b \in net' : b \in net \/ MsgPlaced(b)'
  BY <1>1, <1>7 DEF a
<1> QED
  BY <1>1, <1>3, <1>4, <1>8, <1>9, QuietInv

\* The PBX takes a frame for what it is: the one it expects, or one it has.
LEMMA PbxFrameKnown ==
    ASSUME LinkInv, NEW m \in net, m.to = "pbx", m.frame.kind # "ACK"
    PROVE  /\ m.at \in Nat /\ m.at < clientSent /\ Stamp(m.frame.ts, m.at)
           /\ m.frame.oseq = Wire(pbxGot) => m.at = pbxGot
           /\ SeqBefore(m.frame.oseq, Wire(pbxGot)) => m.at < pbxGot
<1>1. /\ m.at \in Nat /\ m.at < clientSent /\ clientSent <= m.at + WindowBound
      /\ m.frame.oseq = Wire(m.at) /\ Stamp(m.frame.ts, m.at)
  BY LinkNumbers DEF LinkInv, NetPlaced, MsgPlaced, ToPbx, Placed, Recent
<1>2. /\ pbxGot \in Nat /\ clientSent \in Nat /\ pbxGot <= clientSent
      /\ clientSent <= pbxGot + WindowBound
      /\ WindowBound \in Nat /\ 2 * WindowBound < SeqMod /\ SeqMod \in Nat
  BY LinkNumbers, NotFarBehind DEF LinkInv, Recent
<1>3. /\ m.at <= pbxGot + WindowBound /\ pbxGot <= m.at + WindowBound
      /\ m.at - pbxGot < SeqMod /\ pbxGot - m.at < SeqMod
  BY <1>1, <1>2
<1> QED
  BY <1>1, <1>2, <1>3, SerialOrder, WireInjective

\* What the PBX sends says how far it has got.
LEMMA PbxFramePlaced ==
    ASSUME LinkInv, UNCHANGED <<clientSent, twins>>, pbxGot' \in pbxGot .. clientSent,
           NEW kind \in {"ACK", "CONTROL"}, NEW ts \in Ts,
           kind = "ACK" => \E k \in 0 .. pbxGot' - 1 : Stamp(ts, k),
           NEW a, a = Msg("client", PbxFrame(kind, ts, pbxSent, pbxGot'), pbxGot')
    PROVE  a \in LinkMsgs /\ MsgPlaced(a)'
<1>1. /\ pbxGot' \in Nat /\ pbxGot' <= clientSent /\ pbxSent \in Nat
      /\ clientSent \in Nat /\ pbxGot <= pbxGot' /\ pbxGot \in Nat
  BY LinkNumbers DEF LinkInv, LinkTyped
<1>2. Wire(pbxSent) \in SeqNo /\ Wire(pbxGot') \in SeqNo
  BY <1>1, WireOf DEF SeqNo
<1>3. PbxFrame(kind, ts, pbxSent, pbxGot') \in Frames(LinkKinds, {Link})
  BY <1>2, LinkAssumption DEF PbxFrame, Frames, LinkKinds
<1>4. /\ a.to = "client" /\ a.at = pbxGot' /\ a.frame.iseq = Wire(pbxGot')
      /\ a.frame.src = Pbx /\ a.frame.kind = kind /\ a.frame.ts = ts
      /\ a \in LinkMsgs
  BY <1>1, <1>3 DEF Msg, PbxFrame, LinkMsgs
<1>5. Recent(a.at)'
  BY <1>1, <1>4, NotFarBehind, LinkNumbers DEF Recent, LinkInv
<1>6. ToClient(a)'
  BY <1>1, <1>4 DEF ToClient, Stamp
<1> QED
  BY <1>4, <1>5, <1>6 DEF MsgPlaced

\* A step of the PBX or of the network leaves the leg as it is.
LEMMA LegAloneInv ==
    ASSUME LinkInv, UNCHANGED <<clientSent, reliable, twins, leg>>,
           pbxGot' \in pbxGot .. clientSent,
           pbxSent' \in 0 .. PbxMax, pbxSent' = pbxSent \/ clientSent <= MixMax,
           net' \subseteq LinkMsgs, \A m \in net' : m \in net \/ MsgPlaced(m)'
    PROVE  LinkInv'
<1>1. leg' \in LinkLegs /\ leg'.oseq = leg.oseq
  BY DEF LinkInv, LinkTyped
<1>2. \A o \in leg'.outstanding : \E p \in leg.outstanding : o.frame = p.frame
  OBVIOUS
<1>3. \A p \in leg.outstanding : \E o \in leg'.outstanding : o.frame = p.frame
  OBVIOUS
<1> QED
  BY <1>1, <1>2, <1>3, QuietInv

\* The PBX acknowledges a frame it has, this one or an older one.
LEMMA TakenAcked ==
    ASSUME LinkInv, NEW m \in net, m.to = "pbx", m.frame.kind # "ACK",
           UNCHANGED <<clientSent, reliable, twins, leg, pbxSent>>,
           \/ m.frame.oseq = Wire(pbxGot) /\ pbxGot' = pbxGot + 1
           \/ SeqBefore(m.frame.oseq, Wire(pbxGot)) /\ pbxGot' = pbxGot,
           NEW a, a = Msg("client", PbxFrame("ACK", m.frame.ts, pbxSent, pbxGot'), pbxGot'),
           net' \subseteq net \cup {a}
    PROVE  LinkInv'
<1>1. /\ m.at \in Nat /\ m.at < clientSent /\ Stamp(m.frame.ts, m.at)
      /\ m.frame.oseq = Wire(pbxGot) => m.at = pbxGot
      /\ SeqBefore(m.frame.oseq, Wire(pbxGot)) => m.at < pbxGot
  BY PbxFrameKnown
<1>2. /\ pbxGot \in Nat /\ pbxGot <= clientSent /\ clientSent \in Nat
      /\ pbxSent \in 0 .. PbxMax /\ net \subseteq LinkMsgs
  BY LinkNumbers DEF LinkInv, LinkTyped
<1>3. pbxGot' \in pbxGot .. clientSent /\ m.at \in 0 .. pbxGot' - 1
  BY <1>1, <1>2
<1>4. m.frame.ts \in Ts
  BY <1>2 DEF LinkMsgs, Frames
<1>5. a \in LinkMsgs /\ MsgPlaced(a)'
  BY <1>1, <1>3, <1>4, PbxFramePlaced
<1> QED
  BY <1>2, <1>3, <1>5, LegAloneInv

\* The PBX takes a frame, repeats an acknowledgement or drops what it cannot use.
LEMMA PbxReceiveInv ==
    ASSUME LinkInv, NEW m \in net, PbxReceive(m) PROVE LinkInv'
<1>1. m.to = "pbx" /\ UNCHANGED <<clientSent, reliable, twins, leg, pbxSent>>
  BY DEF PbxReceive, clientVars
<1>2. /\ pbxSent' \in 0 .. PbxMax /\ net \subseteq LinkMsgs
      /\ pbxGot \in pbxGot .. clientSent
  BY <1>1, LinkNumbers DEF LinkInv, LinkTyped
<1>3. CASE net' \subseteq net /\ UNCHANGED pbxGot
  BY <1>1, <1>2, <1>3, LegAloneInv
<1>4. CASE /\ m.frame.kind # "ACK"
           /\ m.frame.oseq = Wire(pbxGot) \/ SeqBefore(m.frame.oseq, Wire(pbxGot))
  <2>1. /\ pbxGot' = IF m.frame.oseq = Wire(pbxGot) THEN pbxGot + 1 ELSE pbxGot
        /\ net' = (net \ {m}) \cup
              {Msg("client", PbxFrame("ACK", m.frame.ts, pbxSent, pbxGot'), pbxGot')}
    BY <1>4 DEF PbxReceive
  <2>2. \/ m.frame.oseq = Wire(pbxGot) /\ pbxGot' = pbxGot + 1
        \/ SeqBefore(m.frame.oseq, Wire(pbxGot)) /\ pbxGot' = pbxGot
    BY <1>4, <2>1
  <2> QED
    BY <1>1, <1>4, <2>1, <2>2, TakenAcked
<1>5. CASE \/ m.frame.kind = "ACK"
           \/ ~(m.frame.oseq = Wire(pbxGot) \/ SeqBefore(m.frame.oseq, Wire(pbxGot)))
  BY <1>3, <1>5 DEF PbxReceive
<1> QED
  BY <1>4, <1>5

\* A frame of the PBX says how far it has got.
LEMMA PbxSendInv == ASSUME LinkInv, PbxSend PROVE LinkInv'
<1>1. /\ UNCHANGED <<clientSent, reliable, twins, leg, pbxGot>> /\ clientSent <= MixMax
      /\ pbxSent < PbxMax /\ pbxSent' = pbxSent + 1
      /\ net' = net \cup {Msg("client", PbxFrame("CONTROL", pbxSent, pbxSent, pbxGot), pbxGot)}
  BY DEF PbxSend, clientVars
<1>2. /\ pbxGot' \in pbxGot .. clientSent /\ pbxSent \in Ts
      /\ pbxSent' \in 0 .. PbxMax /\ net \subseteq LinkMsgs
  BY <1>1, LinkNumbers, LinkAssumption DEF LinkInv, LinkTyped
<1>3. ASSUME NEW a, a = Msg("client", PbxFrame("CONTROL", pbxSent, pbxSent, pbxGot'), pbxGot')
      PROVE  a \in LinkMsgs /\ MsgPlaced(a)'
  BY <1>1, <1>2, <1>3, PbxFramePlaced
<1> QED
  BY <1>1, <1>2, <1>3, LegAloneInv

\* A datagram that is lost, or that arrives and is still under way.
LEMMA NetworkInv ==
    ASSUME LinkInv, NEW m \in net, Lose(m) \/ Repeat(m) PROVE LinkInv'
<1>1. /\ UNCHANGED <<clientSent, reliable, twins, pbxSent>>
      /\ pbxSent' \in 0 .. PbxMax /\ net \subseteq LinkMsgs
      /\ pbxGot \in pbxGot .. clientSent
  BY LinkNumbers DEF Lose, Repeat, clientVars, pbxVars, LinkInv, LinkTyped
<1>2. CASE Lose(m)
  <2>1. net' \subseteq net /\ UNCHANGED <<leg, pbxGot>>
    BY <1>2 DEF Lose, clientVars, pbxVars
  <2> QED
    BY <1>1, <2>1, LegAloneInv
<1>3. CASE Repeat(m) /\ m.to = "pbx"
  <2>1. /\ m.frame.kind # "ACK" /\ m.frame.oseq = Wire(pbxGot) /\ pbxGot' = pbxGot + 1
        /\ net' = net \cup
              {Msg("client", PbxFrame("ACK", m.frame.ts, pbxSent, pbxGot'), pbxGot')}
        /\ UNCHANGED leg
    BY <1>3 DEF Repeat
  <2> QED
    BY <1>1, <1>3, <2>1, TakenAcked
<1>4. CASE Repeat(m) /\ m.to # "pbx"
  <2>1. leg' = Receive(leg, m.frame) /\ UNCHANGED <<net, pbxGot>>
    BY <1>4 DEF Repeat
  <2>2. m.to = "client"
    BY <1>1, <1>4 DEF LinkMsgs
  <2>3. /\ leg' \in LinkLegs /\ leg'.oseq = leg.oseq
        /\ leg'.outstanding \subseteq leg.outstanding
        /\ \A o \in leg.outstanding :
              \/ o \in leg'.outstanding
              \/ \A n \in Single : Placed(o.frame, n) => n < pbxGot'
    BY <2>1, <2>2, ClientFrame
  <2> QED
    BY <1>1, <2>1, <2>3, QuietInv
<1> QED
  BY <1>2, <1>3, <1>4

\* The clock moves deadlines only.
LEMMA LinkTickInv == ASSUME LinkInv, LinkTick PROVE LinkInv'
<1>1. /\ leg \in LinkLegs /\ net \subseteq LinkMsgs /\ pbxGot \in pbxGot .. clientSent
      /\ pbxSent \in 0 .. PbxMax
  BY LinkNumbers DEF LinkInv, LinkTyped
<1>2. /\ leg' = TickLeg(leg)
      /\ UNCHANGED <<clientSent, reliable, twins, pbxGot, pbxSent, net>>
  BY DEF LinkTick, pbxVars
<1>3. /\ leg' \in LinkLegs /\ leg'.oseq = leg.oseq
      /\ \A o \in leg'.outstanding : \E p \in leg.outstanding : o.frame = p.frame
      /\ \A p \in leg.outstanding : \E o \in leg'.outstanding : o.frame = p.frame
  BY <1>1, <1>2, TickLegType, TickKeeps, SequenceKept DEF LinkLegs
<1> QED
  BY <1>1, <1>2, <1>3, QuietInv

-----------------------------------------------------------------------------
\* The invariant is inductive.
LEMMA LinkStep == LinkInv /\ [LinkNext]_linkVars => LinkInv'
<1> SUFFICES ASSUME LinkInv, [LinkNext]_linkVars PROVE LinkInv'
  OBVIOUS
<1>1. CASE ClientSend \/ ClientSendPair \/ ClientSendUntracked
  BY <1>1, ClientSendInv, ClientSendPairInv, ClientSendUntrackedInv
<1>2. CASE ClientTimeout \/ PbxSend \/ LinkTick
  BY <1>2, ClientTimeoutInv, PbxSendInv, LinkTickInv
<1>3. ASSUME NEW m \in net, ClientReceive(m) \/ PbxReceive(m) \/ Lose(m) \/ Repeat(m)
      PROVE  LinkInv'
  BY <1>3, ClientReceiveInv, PbxReceiveInv, NetworkInv
<1>4. CASE UNCHANGED linkVars
  <2>1. /\ UNCHANGED <<clientSent, reliable, twins, leg, pbxGot, pbxSent, net>>
        /\ pbxGot \in pbxGot .. clientSent /\ pbxSent \in 0 .. PbxMax
        /\ net \subseteq LinkMsgs
    BY <1>4, LinkNumbers DEF linkVars, LinkInv, LinkTyped
  <2> QED
    BY <2>1, LegAloneInv
<1> QED
  BY <1>1, <1>2, <1>3, <1>4 DEF LinkNext

\* Everything in the window and under way is placed, in every reachable state.
THEOREM LinkInvariant == LinkSpec => []LinkInv
BY LinkInitInv, LinkStep, PTL DEF LinkSpec

\* ack_upto (client.rs:230) forgets a reliable frame only when the PBX has it: a
\* cumulative acknowledgement, or one by timestamp, that is stale, repeated or
\* overtaken takes no frame away too early.  Across every wrap of the sequence
\* numbers where all frames are single reliable ones, and with untracked frames
\* and pairs among them within one window (LinkAssumption).
THEOREM AlwaysKeptUntilReceived == LinkSpec => []KeptUntilReceived
BY LinkInvariant, KeptIsKept, PTL

-----------------------------------------------------------------------------
(* One loss is repaired                                                    *)

\* A copy of frame n is under way to the PBX, or word that it has it to the client.
Covered(n) ==
    \E m \in net : \/ m.to = "pbx" /\ m.frame.kind # "ACK" /\ m.at = n
                   \/ m.to = "client" /\ n < m.at

Calm == AllSingle /\ lost <= 1 /\ ~disturbed

\* Before the loss every frame of the window is covered, and after it every one
\* that was sent again; no time passes while something is under way.
Answered ==
    \A o \in leg.outstanding :
        lost = 0 \/ o.tries = 1 => o.due = RetxAfter /\ Covered(o.frame.ts)

TriedOnce == \A o \in leg.outstanding : o.tries <= lost

\* Frames are sent again in the order in which they were sent.
InTurn ==
    \A o, p \in leg.outstanding :
        o.frame.ts < p.frame.ts /\ o.tries = 0 => p.tries = 0 /\ o.due <= p.due

NoAcks == \A o \in leg.outstanding : o.frame.kind # "ACK"

RepairInv ==
    NoAcks /\ lost \in Nat /\ (Calm => ~givenUp /\ Answered /\ TriedOnce /\ InTurn)

\* A frame of the window is known by its timestamp while all are single.
LEMMA CalmPlaces ==
    ASSUME LinkInv, AllSingle, NEW o \in leg.outstanding
    PROVE  /\ o.frame.ts \in Nat /\ Placed(o.frame, o.frame.ts)
           /\ o.due \in 0 .. RetxAfter /\ o.tries \in 0 .. RetxMax
           /\ o.frame \in Frames(LinkKinds, {Link})
<1>1. /\ o.due \in 0 .. RetxAfter /\ o.tries \in 0 .. RetxMax
      /\ o.frame \in Frames(LinkKinds, {Link})
  BY DEF LinkInv, LinkTyped, LinkLegs, Legs, Outstandings
<1>2. PICK n \in reliable : Placed(o.frame, n)
  BY DEF LinkInv, WindowPlaced
<1>3. n \in Nat /\ n \notin twins
  BY <1>2, LinkNumbers DEF LinkInv, LinkTyped, AllSingle, Single
<1>4. o.frame.ts = n
  BY <1>2, <1>3 DEF Placed, Stamp
<1> QED
  BY <1>1, <1>2, <1>3, <1>4

\* A step that only takes frames from the window, and leaves what it must
\* covered, keeps the invariant.
LEMMA RepairQuiet ==
    ASSUME RepairInv, UNCHANGED <<lost, givenUp>>, Calm' => Calm,
           leg'.outstanding \subseteq leg.outstanding,
           ASSUME Calm', NEW o \in leg'.outstanding, lost = 0 \/ o.tries = 1,
                  Covered(o.frame.ts)
           PROVE  Covered(o.frame.ts)'
    PROVE  RepairInv'
<1>1. NoAcks' /\ lost' \in Nat
  BY DEF RepairInv, NoAcks
<1> SUFFICES ASSUME Calm' PROVE (~givenUp /\ Answered /\ TriedOnce /\ InTurn)'
  BY <1>1 DEF RepairInv
<1>2. ~givenUp /\ Answered /\ TriedOnce /\ InTurn
  BY DEF RepairInv
<1>3. Answered'
  <2> SUFFICES ASSUME NEW o \in leg'.outstanding, lost = 0 \/ o.tries = 1
               PROVE  o.due = RetxAfter /\ Covered(o.frame.ts)'
    BY DEF Answered
  <2>1. o.due = RetxAfter /\ Covered(o.frame.ts)
    BY <1>2 DEF Answered
  <2> QED
    BY <2>1
<1>4. TriedOnce' /\ InTurn'
  BY <1>2 DEF TriedOnce, InTurn
<1> QED
  BY <1>2, <1>3, <1>4

\* Nothing was sent, lost or tried yet.
LEMMA RepairInit == LinkInit => RepairInv
<1> SUFFICES ASSUME LinkInit PROVE RepairInv
  OBVIOUS
<1>1. leg.outstanding = {} /\ lost = 0 /\ ~givenUp
  BY NewLegType DEF LinkInit, NewLeg
<1> QED
  BY <1>1 DEF RepairInv, NoAcks, Answered, TriedOnce, InTurn

\* Where something else than a single reliable frame is sent, nothing is claimed.
LEMMA MixedRepair ==
    ASSUME LinkInv, RepairInv, ClientSendPair \/ ClientSendUntracked \/ PbxSend
    PROVE  RepairInv'
<1>1. /\ clientSent \in Nat /\ pbxSent \in Nat /\ leg \in LinkLegs
      /\ reliable \subseteq 0 .. clientSent - 1 /\ twins \subseteq reliable
  BY LinkNumbers DEF LinkInv, LinkTyped
<1>2. lost' = lost
  BY DEF ClientSendPair, ClientSendUntracked, PbxSend, faultVars
<1>3. ~AllSingle'
  <2>1. CASE PbxSend
    BY <1>1, <2>1 DEF PbxSend, AllSingle
  <2>2. CASE ClientSendPair
    BY <1>1, <2>2 DEF ClientSendPair, AllSingle, Single
  <2>3. CASE ClientSendUntracked
    BY <1>1, <2>3 DEF ClientSendUntracked, AllSingle, Single
  <2> QED
    BY <2>1, <2>2, <2>3
<1>4. NoAcks'
  <2>1. CASE ClientSendUntracked \/ PbxSend
    <3>1. leg'.outstanding = leg.outstanding
      BY <1>1, <2>1, AdvanceType DEF ClientSendUntracked, PbxSend, clientVars, LinkLegs
    <3> QED
      BY <3>1 DEF RepairInv, NoAcks
  <2>2. CASE ClientSendPair
    <3> SUFFICES ASSUME NEW one, one = SendReliable(leg, "ACCEPT", clientSent, {})
                 PROVE  NoAcks'
      OBVIOUS
    <3>1. leg' = SendReliable(one, "RINGING", clientSent, {})
      BY <2>2 DEF ClientSendPair, SendReliable
    <3>2. /\ "ACCEPT" \in LinkKinds /\ "RINGING" \in LinkKinds /\ {} \subseteq IeKinds
          /\ clientSent \in Ts
      BY LinkNumbers DEF LinkKinds, LinkInv
    <3>3. one \in LinkLegs
      BY <1>1, <3>2, SendReliableType DEF LinkLegs
    <3>4. leg'.outstanding = (leg.outstanding \cup
             {[frame |-> FrameOf(leg, "ACCEPT", clientSent, {}), due |-> RetxAfter, tries |-> 0]})
             \cup
             {[frame |-> FrameOf(one, "RINGING", clientSent, {}), due |-> RetxAfter, tries |-> 0]}
      BY <1>1, <3>1, <3>3, SendReliableWindow DEF LinkLegs
    <3> QED
      BY <3>4 DEF RepairInv, NoAcks, FrameOf
  <2> QED
    BY <2>1, <2>2
<1> QED
  BY <1>2, <1>3, <1>4 DEF RepairInv, Calm

\* A new frame is under way, and the youngest of the window.
LEMMA ClientSendRepair == ASSUME LinkInv, RepairInv, ClientSend PROVE RepairInv'
<1> SUFFICES ASSUME NEW c, c = clientSent,
                    NEW f, f = FrameOf(leg, "DTMF", c, {}),
                    NEW new, new = [frame |-> f, due |-> RetxAfter, tries |-> 0]
             PROVE  RepairInv'
  OBVIOUS
<1>1. /\ leg \in LinkLegs /\ c \in Nat /\ lost \in Nat /\ RetxAfter \in Nat
      /\ reliable \subseteq 0 .. c - 1 /\ twins \subseteq reliable
  BY LinkNumbers, LegAssumption DEF LinkInv, LinkTyped, RepairInv
<1>2. /\ leg' = SendReliable(leg, "DTMF", c, {})
      /\ net' = net \cup {Msg("pbx", f, c)} /\ clientSent' = c + 1
      /\ reliable' = reliable \cup {c}
      /\ UNCHANGED <<twins, pbxSent, lost, disturbed, givenUp>>
  BY DEF ClientSend, SendReliable, pbxVars, faultVars
<1>3. leg'.outstanding = leg.outstanding \cup {new}
  BY <1>1, <1>2, SendReliableWindow DEF LinkLegs
<1>4. f.kind = "DTMF" /\ f.ts = c
  BY DEF FrameOf
<1>5. new.frame = f /\ new.due = RetxAfter /\ new.tries = 0
  OBVIOUS
<1>6. NoAcks' /\ lost' \in Nat
  BY <1>1, <1>2, <1>3, <1>4, <1>5 DEF RepairInv, NoAcks
<1> SUFFICES ASSUME Calm' PROVE (~givenUp /\ Answered /\ TriedOnce /\ InTurn)'
  BY <1>6 DEF RepairInv
<1>7. Calm
  BY <1>1, <1>2 DEF Calm, AllSingle, Single
<1>8. ~givenUp /\ Answered /\ TriedOnce /\ InTurn
  BY <1>7 DEF RepairInv
<1>9. ASSUME NEW o \in leg.outstanding
      PROVE  o.frame.ts \in Nat /\ o.frame.ts < c /\ o.due \in 0 .. RetxAfter
  BY <1>7, CalmPlaces DEF Calm, Placed
<1>10. Answered'
  <2> SUFFICES ASSUME NEW o \in leg'.outstanding, lost = 0 \/ o.tries = 1
               PROVE  o.due = RetxAfter /\ Covered(o.frame.ts)'
    BY <1>2 DEF Answered
  <2>1. CASE o \in leg.outstanding
    BY <1>2, <1>8, <2>1 DEF Answered, Covered
  <2>2. CASE o = new
    <3>1. Msg("pbx", f, c) \in net' /\ Msg("pbx", f, c).to = "pbx"
          /\ Msg("pbx", f, c).frame = f /\ Msg("pbx", f, c).at = c
      BY <1>2 DEF Msg
    <3>2. Covered(c)'
      BY <1>4, <3>1 DEF Covered
    <3> QED
      BY <1>4, <1>5, <2>2, <3>2
  <2> QED
    BY <1>3, <2>1, <2>2
<1>11. TriedOnce'
  BY <1>1, <1>2, <1>3, <1>5, <1>8 DEF TriedOnce
<1>12. InTurn'
  <2> SUFFICES ASSUME NEW o \in leg'.outstanding, NEW p \in leg'.outstanding,
                      o.frame.ts < p.frame.ts, o.tries = 0
               PROVE  p.tries = 0 /\ o.due <= p.due
    BY DEF InTurn
  <2>1. CASE o \in leg.outstanding /\ p \in leg.outstanding
    BY <1>8, <2>1 DEF InTurn
  <2>2. CASE o \in leg.outstanding /\ p = new
    BY <1>1, <1>5, <1>9, <2>2
  <2>3. CASE o = new
    BY <1>1, <1>3, <1>4, <1>5, <1>9, <2>3
  <2> QED
    BY <1>3, <2>1, <2>2, <2>3
<1> QED
  BY <1>2, <1>8, <1>10, <1>11, <1>12

\* The frames that are due have not been tried, and none that is not due is older:
\* sent again, they are under way.
LEMMA ClientTimeoutRepair ==
    ASSUME LinkInv, RepairInv, ClientTimeout PROVE RepairInv'
<1>1. /\ leg \in LinkLegs /\ lost \in Nat /\ RetxAfter \in Nat \ {0} /\ LinkTyped
      /\ RetxMax \in Nat /\ 0 < RetxMax
  BY LegAssumption, LinkAssumption DEF LinkInv, LinkTyped, RepairInv
<1>2. UNCHANGED <<clientSent, reliable, twins, pbxSent, lost, disturbed>>
  BY DEF ClientTimeout, pbxVars, faultVars
<1>3. leg' = leg \/ leg' = RetransmitLeg(leg)
  BY DEF ClientTimeout
<1>4. NoAcks'
  <2>1. \A o \in leg'.outstanding : \E p \in leg.outstanding : o.frame = p.frame
    BY <1>1, <1>3, RetransmitLegType DEF LinkLegs
  <2> QED
    BY <2>1 DEF RepairInv, NoAcks
<1> SUFFICES ASSUME Calm' PROVE (~givenUp /\ Answered /\ TriedOnce /\ InTurn)'
  BY <1>1, <1>2, <1>4 DEF RepairInv
<1>5. Calm
  BY <1>2 DEF Calm, AllSingle, Single
<1>6. ~givenUp /\ Answered /\ TriedOnce /\ InTurn /\ lost <= 1 /\ NoAcks
  BY <1>5 DEF RepairInv, Calm
<1>7. ASSUME NEW o \in leg.outstanding
      PROVE  /\ o.frame.ts \in Nat /\ Placed(o.frame, o.frame.ts)
             /\ o.due \in 0 .. RetxAfter /\ o.tries \in 0 .. RetxMax
             /\ o.frame \in Frames(LinkKinds, {Link}) /\ o.frame.kind # "ACK"
  BY <1>5, <1>6, CalmPlaces DEF Calm, NoAcks
<1>8. ASSUME NEW o \in leg.outstanding, o.due = 0 PROVE lost = 1 /\ o.tries = 0
  BY <1>1, <1>6, <1>7, <1>8 DEF Answered, TriedOnce
<1>9. ~Exhausted(leg)
  BY <1>1, <1>8 DEF Exhausted, Expired
<1>10. /\ leg' = RetransmitLeg(leg) /\ givenUp' = givenUp
       /\ net' = net \cup {Msg("pbx", f, At(f)) : f \in ResentFrames(leg)}
  BY <1>9 DEF ClientTimeout
<1>11. ASSUME NEW o \in leg'.outstanding
       PROVE  \/ o \in leg.outstanding /\ o.due # 0
              \/ \E q \in leg.outstanding :
                    /\ q.due = 0 /\ q.tries = 0
                    /\ o.frame = q.frame /\ o.due = RetxAfter /\ o.tries = 1
                    /\ [q.frame EXCEPT !.retx = TRUE] \in ResentFrames(leg)
  <2>1. CASE o \in leg.outstanding /\ (o.due # 0 \/ ~(o.tries < RetxMax))
    BY <1>1, <1>8, <2>1
  <2>2. ASSUME NEW q \in leg.outstanding, q.due = 0, q.tries < RetxMax,
               o.frame = q.frame, o.due = RetxAfter, o.tries = q.tries + 1,
               [q.frame EXCEPT !.retx = TRUE] \in ResentFrames(leg)
        PROVE  \E p \in leg.outstanding :
                    /\ p.due = 0 /\ p.tries = 0
                    /\ o.frame = p.frame /\ o.due = RetxAfter /\ o.tries = 1
                    /\ [p.frame EXCEPT !.retx = TRUE] \in ResentFrames(leg)
    <3>1. q.tries = 0 /\ o.tries = 1
      BY <1>8, <2>2
    <3> QED
      BY <2>2, <3>1
  <2> QED
    BY <1>1, <1>10, <2>1, <2>2, RetransmitWindow DEF LinkLegs
<1>12. Answered'
  <2> SUFFICES ASSUME NEW o \in leg'.outstanding, lost = 0 \/ o.tries = 1
               PROVE  o.due = RetxAfter /\ Covered(o.frame.ts)'
    BY <1>2 DEF Answered
  <2>1. CASE o \in leg.outstanding
    BY <1>6, <1>10, <2>1 DEF Answered, Covered
  <2>2. ASSUME NEW q \in leg.outstanding, o.frame = q.frame, o.due = RetxAfter,
               [q.frame EXCEPT !.retx = TRUE] \in ResentFrames(leg)
        PROVE  o.due = RetxAfter /\ Covered(o.frame.ts)'
    <3> SUFFICES ASSUME NEW f, f = [q.frame EXCEPT !.retx = TRUE],
                        NEW n, n = q.frame.ts
                 PROVE  o.due = RetxAfter /\ Covered(n)'
      BY <2>2
    <3>1. f.oseq = q.frame.oseq /\ f.ts = q.frame.ts /\ f.kind = q.frame.kind
      BY <1>7 DEF Frames
    <3>2. Placed(f, n)
      BY <1>7, <3>1 DEF Placed
    <3>3. At(f) = n
      BY <1>1, <3>2, AtPlaced
    <3>4. Msg("pbx", f, n) \in net'
      BY <1>10, <2>2, <3>3
    <3>5. Covered(n)'
      BY <1>7, <3>1, <3>4 DEF Covered, Msg
    <3> QED
      BY <2>2, <3>5
  <2> QED
    BY <1>11, <2>1, <2>2
<1>13. TriedOnce'
  <2> SUFFICES ASSUME NEW o \in leg'.outstanding PROVE o.tries <= lost
    BY <1>2 DEF TriedOnce
  <2>1. CASE o \in leg.outstanding
    BY <1>6, <2>1 DEF TriedOnce
  <2>2. ASSUME NEW q \in leg.outstanding, q.due = 0, o.tries = 1 PROVE o.tries <= lost
    BY <1>8, <2>2
  <2> QED
    BY <1>11, <2>1, <2>2
<1>14. InTurn'
  <2> SUFFICES ASSUME NEW o \in leg'.outstanding, NEW p \in leg'.outstanding,
                      o.frame.ts < p.frame.ts, o.tries = 0
               PROVE  p.tries = 0 /\ o.due <= p.due
    BY DEF InTurn
  <2>0. o.tries # 1
    OBVIOUS
  <2>1. o \in leg.outstanding /\ o.due # 0
    BY <1>11, <2>0, Zenon
  <2>2. CASE p \in leg.outstanding
    BY <1>6, <2>1, <2>2 DEF InTurn
  <2>3. ASSUME NEW q \in leg.outstanding, q.due = 0, p.frame = q.frame PROVE FALSE
    <3>1. o.due <= q.due
      BY <1>6, <2>1, <2>3 DEF InTurn
    <3> QED
      BY <1>7, <2>1, <2>3, <3>1
  <2> QED
    BY <1>11, <2>2, <2>3
<1> QED
  BY <1>6, <1>10, <1>12, <1>13, <1>14

\* Word of the PBX takes what it covers from the window.
LEMMA ClientReceiveRepair ==
    ASSUME LinkInv, RepairInv, NEW m \in net, ClientReceive(m) PROVE RepairInv'
<1>1. /\ m.to = "client" /\ leg' = Receive(leg, m.frame) /\ net \ {m} \subseteq net'
      /\ UNCHANGED <<clientSent, reliable, twins, pbxSent, lost, givenUp>>
      /\ disturbed => disturbed'
  BY DEF ClientReceive, Overtakes, pbxVars
<1>2. leg'.outstanding \subseteq leg.outstanding
  BY <1>1, ClientFrame
<1>3. Calm' => Calm
  BY <1>1 DEF Calm, AllSingle, Single
<1>4. ASSUME Calm', NEW o \in leg'.outstanding, Covered(o.frame.ts)
      PROVE  Covered(o.frame.ts)'
  <2> SUFFICES ASSUME NEW n, n = o.frame.ts PROVE Covered(n)'
    OBVIOUS
  <2>1. PICK w \in net : \/ w.to = "pbx" /\ w.frame.kind # "ACK" /\ w.at = n
                         \/ w.to = "client" /\ n < w.at
    BY <1>4 DEF Covered
  <2>2. CASE w # m
    BY <1>1, <2>1, <2>2 DEF Covered
  <2>3. CASE w = m
    <3>1. n < m.at /\ n \in Nat /\ o.frame.oseq = Wire(n) /\ n < clientSent
          /\ clientSent <= n + WindowBound /\ clientSent \in Nat /\ WindowBound \in Nat
      BY <1>1, <1>2, <1>3, <1>4, <2>1, <2>3, CalmPlaces, LinkNumbers
      DEF Calm, Placed, Recent, LinkInv
    <3>2. m.at \in Nat /\ m.at <= clientSent /\ m.frame.iseq = Wire(m.at)
      BY <1>1, <3>1 DEF LinkInv, NetPlaced, MsgPlaced, ToClient, Recent
    <3>3. n <= m.at + WindowBound /\ m.at <= n + WindowBound
      BY <3>1, <3>2
    <3>4. SeqBefore(Wire(n), Wire(m.at))
      BY <3>1, <3>2, <3>3, SerialOrder
    <3>5. Acked(o, m.frame.iseq, m.frame.ts, m.frame.kind = "ACK")
      BY <3>1, <3>2, <3>4 DEF Acked
    <3>6. /\ leg \in LinkLegs /\ m.frame.src \in RemoteNos /\ m.frame.oseq \in SeqNo
      BY <1>1, LinkAssumption
      DEF LinkInv, LinkTyped, LinkMsgs, NetPlaced, MsgPlaced, ToClient, Frames
    <3> QED
      BY <1>1, <1>4, <3>5, <3>6, ReceiveWindow DEF LinkLegs
  <2> QED
    BY <2>2, <2>3
<1> QED
  BY <1>1, <1>2, <1>3, <1>4, RepairQuiet

\* The PBX answers what it takes; a frame beyond a gap overtakes the one of the
\* gap, which is under way too.
LEMMA PbxReceiveRepair ==
    ASSUME LinkInv, RepairInv, NEW m \in net, PbxReceive(m) PROVE RepairInv'
<1>1. /\ m.to = "pbx" /\ Overtakes(m) /\ net \ {m} \subseteq net'
      /\ UNCHANGED <<leg, clientSent, reliable, twins, pbxSent, lost, givenUp>>
  BY DEF PbxReceive, clientVars
<1>2. Calm' => Calm
  BY <1>1 DEF Calm, AllSingle, Single, Overtakes
<1>3. ASSUME Calm', NEW o \in leg'.outstanding, lost = 0 \/ o.tries = 1,
             Covered(o.frame.ts)
      PROVE  Covered(o.frame.ts)'
  <2> SUFFICES ASSUME NEW n, n = o.frame.ts PROVE Covered(n)'
    OBVIOUS
  <2>0. Calm /\ o \in leg.outstanding
    BY <1>1, <1>2, <1>3
  <2>1. PICK w \in net : \/ w.to = "pbx" /\ w.frame.kind # "ACK" /\ w.at = n
                         \/ w.to = "client" /\ n < w.at
    BY <1>3 DEF Covered
  <2>2. CASE w # m
    BY <1>1, <2>1, <2>2 DEF Covered
  <2>3. CASE w = m
    <3>1. m.frame.kind # "ACK" /\ m.at = n
      BY <1>1, <2>1, <2>3
    <3>2. /\ n \in Nat /\ n < clientSent /\ clientSent <= n + WindowBound
          /\ m.frame.oseq = Wire(n)
          /\ pbxGot \in Nat /\ pbxGot <= clientSent /\ clientSent <= pbxGot + WindowBound
          /\ clientSent \in Nat /\ WindowBound \in Nat
      BY <1>1, <3>1, NotFarBehind, LinkNumbers
      DEF LinkInv, NetPlaced, MsgPlaced, ToPbx, Placed, Recent
    <3>3. CASE m.frame.oseq = Wire(pbxGot) \/ SeqBefore(m.frame.oseq, Wire(pbxGot))
      <4>1. /\ pbxGot' = IF m.frame.oseq = Wire(pbxGot) THEN pbxGot + 1 ELSE pbxGot
            /\ Msg("client", PbxFrame("ACK", m.frame.ts, pbxSent, pbxGot'), pbxGot') \in net'
        BY <3>1, <3>3 DEF PbxReceive
      <4>2. n < pbxGot'
        BY <1>1, <3>1, <3>2, <3>3, <4>1, PbxFrameKnown
      <4> QED
        BY <4>1, <4>2 DEF Covered, Msg
    <3>4. CASE ~(m.frame.oseq = Wire(pbxGot) \/ SeqBefore(m.frame.oseq, Wire(pbxGot)))
      <4>1. pbxGot < n
        <5>1. n # pbxGot
          BY <3>2, <3>4
        <5>2. n <= pbxGot + WindowBound /\ pbxGot <= n + WindowBound
          BY <3>2
        <5>3. ~(n < pbxGot)
          BY <3>2, <3>4, <5>2, SerialOrder
        <5> QED
          BY <3>2, <5>1, <5>3
      <4>2. pbxGot \in Single
        BY <2>0, <3>2, <4>1 DEF Calm, AllSingle
      <4>3. PICK p \in leg.outstanding : Placed(p.frame, pbxGot)
        BY <3>2, <4>2 DEF LinkInv, Kept
      <4>4. p.frame.ts = pbxGot
        BY <3>2, <4>2, <4>3 DEF Placed, Stamp, Single
      <4>5. /\ Answered /\ TriedOnce /\ InTurn /\ lost <= 1 /\ lost \in Nat
            /\ p.tries \in Nat /\ o.tries \in Nat
        BY <2>0, CalmPlaces DEF RepairInv, Calm
      <4>6. lost = 0 \/ p.tries = 1
        BY <1>3, <2>0, <4>1, <4>4, <4>5 DEF InTurn, TriedOnce
      <4>7. Covered(pbxGot)
        BY <4>4, <4>5, <4>6 DEF Answered
      <4>8. PICK x \in net : \/ x.to = "pbx" /\ x.frame.kind # "ACK" /\ x.at = pbxGot
                             \/ x.to = "client" /\ pbxGot < x.at
        BY <4>7 DEF Covered
      <4>9. x.to = "pbx" /\ x.at < m.at
        <5>1. CASE x.to = "client"
          <6>1. x.at \in Nat /\ x.at <= pbxGot
            BY <5>1, <3>2 DEF LinkInv, NetPlaced, MsgPlaced, ToClient, Recent
          <6> QED
            BY <3>2, <4>8, <5>1, <6>1
        <5> QED
          BY <3>1, <4>1, <4>8, <5>1
      <4>10. disturbed'
        BY <1>1, <4>9 DEF Overtakes
      <4> QED
        BY <1>3, <4>10 DEF Calm
    <3> QED
      BY <3>3, <3>4
  <2> QED
    BY <2>2, <2>3
<1> QED
  BY <1>1, <1>2, <1>3, RepairQuiet

\* The first loss finds every frame untried; a repeated datagram adds to what is
\* under way or takes from the window.
LEMMA NetworkRepair ==
    ASSUME LinkInv, RepairInv, NEW m \in net, Lose(m) \/ Repeat(m) PROVE RepairInv'
<1>1. CASE Repeat(m)
  <2>1. /\ UNCHANGED <<clientSent, reliable, twins, pbxSent, lost, disturbed, givenUp>>
        /\ net \subseteq net'
    BY <1>1 DEF Repeat
  <2>2. leg'.outstanding \subseteq leg.outstanding
    <3>1. CASE m.to = "pbx"
      BY <1>1, <3>1 DEF Repeat
    <3>2. CASE m.to = "client"
      BY <1>1, <3>2, ClientFrame DEF Repeat
    <3>3. m.to \in {"pbx", "client"}
      BY DEF LinkInv, LinkTyped, LinkMsgs
    <3> QED
      BY <3>1, <3>2, <3>3
  <2>3. Calm' => Calm
    BY <2>1 DEF Calm, AllSingle, Single
  <2>4. ASSUME NEW o \in leg'.outstanding, Covered(o.frame.ts)
        PROVE  Covered(o.frame.ts)'
    BY <2>1, <2>4 DEF Covered
  <2> QED
    BY <2>1, <2>2, <2>3, <2>4, RepairQuiet
<1>2. CASE Lose(m)
  <2>1. /\ UNCHANGED <<leg, clientSent, reliable, twins, pbxSent, disturbed, givenUp>>
        /\ lost' = lost + 1 /\ lost \in Nat
    BY <1>2 DEF Lose, clientVars, pbxVars, RepairInv
  <2>2. NoAcks' /\ lost' \in Nat
    BY <2>1 DEF RepairInv, NoAcks
  <2> SUFFICES ASSUME Calm' PROVE (~givenUp /\ Answered /\ TriedOnce /\ InTurn)'
    BY <2>2 DEF RepairInv
  <2>3. Calm /\ lost = 0
    BY <2>1 DEF Calm, AllSingle, Single
  <2>4. ~givenUp /\ TriedOnce /\ InTurn
    BY <2>3 DEF RepairInv
  <2>5. \A o \in leg.outstanding : o.tries = 0
    BY <2>3, <2>4, CalmPlaces DEF TriedOnce, Calm
  <2>6. Answered'
    BY <2>1, <2>3, <2>5 DEF Answered
  <2>7. TriedOnce' /\ InTurn'
    BY <2>1, <2>3, <2>4, <2>5 DEF TriedOnce, InTurn
  <2> QED
    BY <2>1, <2>4, <2>6, <2>7
<1> QED
  BY <1>1, <1>2

\* Time passes calmly only when nothing is under way; then a frame has been lost
\* and none was sent again.
LEMMA LinkTickRepair == ASSUME LinkInv, RepairInv, LinkTick PROVE RepairInv'
<1>1. /\ leg' = TickLeg(leg) /\ leg \in LinkLegs /\ lost \in Nat
      /\ UNCHANGED <<clientSent, reliable, twins, pbxSent, lost, givenUp>>
      /\ disturbed' = (disturbed \/ net # {} \/ Expired(leg) # {})
  BY DEF LinkTick, pbxVars, LinkInv, LinkTyped, RepairInv
<1>2. ASSUME NEW o \in leg'.outstanding
      PROVE  \E q \in leg.outstanding :
                o.frame = q.frame /\ o.tries = q.tries /\ o.due = Closer(q.due)
  BY <1>1, TickWindow DEF LinkLegs
<1>3. NoAcks'
  BY <1>2 DEF RepairInv, NoAcks
<1> SUFFICES ASSUME Calm' PROVE (~givenUp /\ Answered /\ TriedOnce /\ InTurn)'
  BY <1>1, <1>3 DEF RepairInv
<1>4. Calm /\ net = {}
  BY <1>1 DEF Calm, AllSingle, Single
<1>5. ~givenUp /\ Answered /\ TriedOnce /\ InTurn
  BY <1>4 DEF RepairInv
<1>6. ASSUME NEW o \in leg.outstanding
      PROVE  lost # 0 /\ o.tries # 1 /\ o.due \in Nat
  <2>1. ~Covered(o.frame.ts)
    BY <1>4 DEF Covered
  <2> QED
    BY <1>4, <1>5, <2>1, CalmPlaces DEF Answered, Calm
<1>7. Answered'
  BY <1>1, <1>2, <1>6 DEF Answered
<1>8. TriedOnce'
  BY <1>1, <1>2, <1>5 DEF TriedOnce
<1>9. InTurn'
  <2> SUFFICES ASSUME NEW o \in leg'.outstanding, NEW p \in leg'.outstanding,
                      o.frame.ts < p.frame.ts, o.tries = 0
               PROVE  p.tries = 0 /\ o.due <= p.due
    BY DEF InTurn
  <2>1. PICK q \in leg.outstanding :
          o.frame = q.frame /\ o.tries = q.tries /\ o.due = Closer(q.due)
    BY <1>2
  <2>2. PICK r \in leg.outstanding :
          p.frame = r.frame /\ p.tries = r.tries /\ p.due = Closer(r.due)
    BY <1>2
  <2>3. r.tries = 0 /\ q.due <= r.due /\ q.due \in Nat /\ r.due \in Nat
    BY <1>5, <1>6, <2>1, <2>2 DEF InTurn
  <2> QED
    BY <2>1, <2>2, <2>3 DEF Closer
<1> QED
  BY <1>1, <1>5, <1>7, <1>8, <1>9

\* The invariant is inductive where everything is placed.
LEMMA RepairStep == LinkInv /\ RepairInv /\ [LinkNext]_linkVars => RepairInv'
<1> SUFFICES ASSUME LinkInv, RepairInv, [LinkNext]_linkVars PROVE RepairInv'
  OBVIOUS
<1>1. CASE ClientSend \/ ClientSendPair \/ ClientSendUntracked \/ PbxSend
  BY <1>1, ClientSendRepair, MixedRepair
<1>2. CASE ClientTimeout \/ LinkTick
  BY <1>2, ClientTimeoutRepair, LinkTickRepair
<1>3. ASSUME NEW m \in net, ClientReceive(m) \/ PbxReceive(m) \/ Lose(m) \/ Repeat(m)
      PROVE  RepairInv'
  BY <1>3, ClientReceiveRepair, PbxReceiveRepair, NetworkRepair
<1>4. CASE UNCHANGED linkVars
  <2>1. UNCHANGED <<leg, clientSent, reliable, twins, pbxSent, net, lost, disturbed, givenUp>>
    BY <1>4 DEF linkVars
  <2>2. Calm' => Calm
    BY <2>1 DEF Calm, AllSingle, Single
  <2>3. ASSUME NEW o \in leg'.outstanding, Covered(o.frame.ts)
        PROVE  Covered(o.frame.ts)'
    BY <2>1, <2>3 DEF Covered
  <2> QED
    BY <2>1, <2>2, <2>3, RepairQuiet
<1> QED
  BY <1>1, <1>2, <1>3, <1>4 DEF LinkNext

\* handle_timeout (client.rs:380) never gives a call up over one lost datagram,
\* whichever it is, as long as the call sends single reliable frames and nothing
\* is late or overtaken: the copies that the retransmission sends are answered
\* before the tries are used up, for every window, deadline and number of tries.
THEOREM OneLossAlwaysRepaired == LinkSpec => []OneLossRepaired
<1>1. RepairInv => OneLossRepaired
  BY DEF RepairInv, Calm, OneLossRepaired
<1> QED
  BY <1>1, LinkInvariant, RepairInit, RepairStep, PTL DEF LinkSpec
=============================================================================
