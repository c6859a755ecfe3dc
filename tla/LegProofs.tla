------------------------------ MODULE LegProofs ------------------------------
(***************************************************************************)
(* What the operators on a leg return: the typing facts that the proofs    *)
(* about the registration and the calls cite, and what retransmission and  *)
(* acknowledgement do to the frames of a window and to their source.       *)
(***************************************************************************)
EXTENDS Leg, WellFoundedInduction, TLAPS

\* Sequence numbers stay sequence numbers.
LEMMA SuccType == ASSUME NEW s \in SeqNo PROVE Succ(s) \in SeqNo
BY LegAssumption DEF Succ, SeqNo

\* A new leg is a leg.
LEMMA NewLegType ==
    ASSUME NEW kinds, NEW locals, NEW n \in locals
    PROVE  NewLeg(n) \in Legs(kinds, locals) /\ NewLeg(n).local = n
BY LegAssumption DEF NewLeg, Legs, SeqNo

\* A leg that is reset is a leg with an empty window, its number kept.
LEMMA ResetLegType ==
    ASSUME NEW kinds, NEW locals, NEW leg \in Legs(kinds, locals)
    PROVE  ResetLeg(leg) \in Legs(kinds, locals) /\ ResetLeg(leg).local = leg.local
           /\ ResetLeg(leg).outstanding = {}
<1>1. 0 \in SeqNo /\ 0 \in RemoteNos
  BY LegAssumption DEF SeqNo
<1>2. {} \in SUBSET Outstandings(kinds, locals)
  OBVIOUS
<1> QED
  BY <1>1, <1>2 DEF ResetLeg, Legs

\* build and ack_bytes put a frame together.
LEMMA FrameOfType ==
    ASSUME NEW kinds, NEW locals, NEW leg \in Legs(kinds, locals),
           NEW kind \in kinds, NEW ts \in Ts, NEW ies, ies \subseteq IeKinds
    PROVE  FrameOf(leg, kind, ts, ies) \in Frames(kinds, locals)
BY DEF FrameOf, Frames, Legs

\* Building a frame changes the sequence number and neither number nor window.
LEMMA AdvanceType ==
    ASSUME NEW kinds, NEW locals, NEW leg \in Legs(kinds, locals)
    PROVE  Advance(leg) \in Legs(kinds, locals) /\ Advance(leg).local = leg.local
           /\ Advance(leg).outstanding = leg.outstanding
BY SuccType DEF Advance, Legs

\* Tracking a frame the leg has built adds it to the window.
LEMMA TrackType ==
    ASSUME NEW kinds, NEW locals, NEW leg \in Legs(kinds, locals),
           NEW f \in Frames(kinds, locals)
    PROVE  /\ Track(leg, f) \in Legs(kinds, locals) /\ Track(leg, f).local = leg.local
           /\ \A o \in Track(leg, f).outstanding :
                o \in leg.outstanding \/ o.frame = f
<1> DEFINE new == [frame |-> f, due |-> RetxAfter, tries |-> 0]
<1>1. new \in Outstandings(kinds, locals)
  BY LegAssumption DEF Outstandings
<1>2. leg.outstanding \cup {new} \subseteq Outstandings(kinds, locals)
  BY <1>1 DEF Legs
<1>3. Track(leg, f) = [leg EXCEPT !.outstanding = leg.outstanding \cup {new}]
  BY DEF Track
<1>4. new.frame = f
  OBVIOUS
<1> HIDE DEF new
<1>5. Track(leg, f).outstanding = leg.outstanding \cup {new}
  BY <1>3 DEF Legs
<1> QED
  BY <1>2, <1>3, <1>4, <1>5 DEF Legs

\* A reliable frame joins the window; nothing leaves it.
LEMMA SendReliableType ==
    ASSUME NEW kinds, NEW locals, NEW leg \in Legs(kinds, locals),
           NEW kind \in kinds, NEW ts \in Ts, NEW ies, ies \subseteq IeKinds
    PROVE  /\ SendReliable(leg, kind, ts, ies) \in Legs(kinds, locals)
           /\ SendReliable(leg, kind, ts, ies).local = leg.local
           /\ \A o \in SendReliable(leg, kind, ts, ies).outstanding :
                o \in leg.outstanding \/ o.frame.ies = ies
<1>1. FrameOf(leg, kind, ts, ies) \in Frames(kinds, locals)
  BY FrameOfType
<1>2. FrameOf(leg, kind, ts, ies).ies = ies
  BY DEF FrameOf
<1>3. /\ Advance(leg) \in Legs(kinds, locals) /\ Advance(leg).local = leg.local
      /\ Advance(leg).outstanding = leg.outstanding
  BY AdvanceType
<1> DEFINE a == Advance(leg)
           f == FrameOf(leg, kind, ts, ies)
<1>4. SendReliable(leg, kind, ts, ies) = Track(a, f)
  BY DEF SendReliable
<1> HIDE DEF a, f
<1>5. /\ Track(a, f) \in Legs(kinds, locals) /\ Track(a, f).local = a.local
      /\ \A o \in Track(a, f).outstanding : o \in a.outstanding \/ o.frame = f
  BY <1>1, <1>3, TrackType DEF a, f
<1> QED
  BY <1>2, <1>3, <1>4, <1>5 DEF a, f

\* Noting a received frame keeps the leg's type, number and window.
LEMMA NoteRecvType ==
    ASSUME NEW kinds, NEW locals, NEW leg \in Legs(kinds, locals),
           NEW f, f.src \in RemoteNos, f.oseq \in SeqNo
    PROVE  NoteRecv(leg, f) \in Legs(kinds, locals) /\ NoteRecv(leg, f).local = leg.local
           /\ NoteRecv(leg, f).outstanding = leg.outstanding
BY SuccType DEF NoteRecv, Legs

\* An acknowledgement only shrinks the window.
LEMMA AckUptoType ==
    ASSUME NEW kinds, NEW locals, NEW leg \in Legs(kinds, locals),
           NEW iseq, NEW ts, NEW isAck
    PROVE  /\ AckUpto(leg, iseq, ts, isAck) \in Legs(kinds, locals)
           /\ AckUpto(leg, iseq, ts, isAck).local = leg.local
           /\ AckUpto(leg, iseq, ts, isAck).outstanding \subseteq leg.outstanding
<1> DEFINE kept == {o \in leg.outstanding : ~Acked(o, iseq, ts, isAck)}
<1>1. kept \subseteq leg.outstanding
  OBVIOUS
<1>2. AckUpto(leg, iseq, ts, isAck) = [leg EXCEPT !.outstanding = kept]
  BY DEF AckUpto
<1> HIDE DEF kept
<1> QED
  BY <1>1, <1>2 DEF Legs

\* The prologue of on_reg_frame and of on_call_frame.
LEMMA ReceiveType ==
    ASSUME NEW kinds, NEW locals, NEW leg \in Legs(kinds, locals),
           NEW f, f.src \in RemoteNos, f.oseq \in SeqNo
    PROVE  /\ Receive(leg, f) \in Legs(kinds, locals)
           /\ Receive(leg, f).local = leg.local
           /\ Receive(leg, f).outstanding \subseteq leg.outstanding
<1>1. NoteRecv(leg, f) \in Legs(kinds, locals) /\ NoteRecv(leg, f).local = leg.local
      /\ NoteRecv(leg, f).outstanding = leg.outstanding
  BY NoteRecvType
<1> DEFINE n == NoteRecv(leg, f)
           isAck == f.kind = "ACK"
<1>2. Receive(leg, f) = AckUpto(n, f.iseq, f.ts, isAck)
  BY DEF Receive
<1> HIDE DEF n, isAck
<1>3. /\ AckUpto(n, f.iseq, f.ts, isAck) \in Legs(kinds, locals)
      /\ AckUpto(n, f.iseq, f.ts, isAck).local = n.local
      /\ AckUpto(n, f.iseq, f.ts, isAck).outstanding \subseteq n.outstanding
  BY <1>1, AckUptoType DEF n
<1> QED
  BY <1>1, <1>2, <1>3 DEF n

-----------------------------------------------------------------------------
(* The retransmission pass and the clock                                   *)

\* A deadline comes closer and stays within its bound.
LEMMA CloserType == ASSUME NEW n \in Nat PROVE Closer(n) \in 0 .. n
BY DEF Closer

\* The frames sent again are the leg's own, with the retransmission bit.
LEMMA ResentFramesType ==
    ASSUME NEW kinds, NEW locals, NEW leg \in Legs(kinds, locals)
    PROVE  ResentFrames(leg) \subseteq Frames(kinds, locals)
<1> SUFFICES ASSUME NEW o \in leg.outstanding
             PROVE  [o.frame EXCEPT !.retx = TRUE] \in Frames(kinds, locals)
  BY DEF ResentFrames, Resent, Expired
<1>1. o.frame \in Frames(kinds, locals)
  BY DEF Legs, Outstandings
<1> QED
  BY <1>1 DEF Frames

\* Retransmission changes deadlines and counts, never the frames of a window.
LEMMA RetransmitLegType ==
    ASSUME NEW kinds, NEW locals, NEW leg \in Legs(kinds, locals)
    PROVE  /\ RetransmitLeg(leg) \in Legs(kinds, locals)
           /\ RetransmitLeg(leg).local = leg.local
           /\ \A o \in RetransmitLeg(leg).outstanding :
                \E p \in leg.outstanding : o.frame = p.frame
<1> DEFINE again(o) == [o EXCEPT !.due = RetxAfter, !.tries = @ + 1]
           window == (leg.outstanding \ Resent(leg)) \cup {again(o) : o \in Resent(leg)}
<1>1. ASSUME NEW o \in Resent(leg)
      PROVE  again(o) \in Outstandings(kinds, locals) /\ again(o).frame = o.frame
  <2>1. o \in Outstandings(kinds, locals) /\ o.tries < RetxMax
    BY DEF Legs, Resent, Expired
  <2>2. o.tries + 1 \in 0 .. RetxMax /\ RetxAfter \in 0 .. RetxAfter
    BY <2>1, LegAssumption DEF Outstandings
  <2> QED
    BY <2>1, <2>2 DEF Outstandings
<1>2. Resent(leg) \subseteq leg.outstanding
  BY DEF Resent, Expired
<1>3. window \subseteq Outstandings(kinds, locals)
  BY <1>1 DEF Legs
<1>4. \A o \in window : \E p \in leg.outstanding : o.frame = p.frame
  BY <1>1, <1>2
<1>5. RetransmitLeg(leg) = [leg EXCEPT !.outstanding = window]
  BY DEF RetransmitLeg
<1> HIDE DEF window
<1> QED
  BY <1>3, <1>4, <1>5 DEF Legs

\* So does the clock.
LEMMA TickLegType ==
    ASSUME NEW kinds, NEW locals, NEW leg \in Legs(kinds, locals)
    PROVE  /\ TickLeg(leg) \in Legs(kinds, locals) /\ TickLeg(leg).local = leg.local
           /\ \A o \in TickLeg(leg).outstanding :
                \E p \in leg.outstanding : o.frame = p.frame
<1> DEFINE ticked(o) == [o EXCEPT !.due = Closer(@)]
           window == {ticked(o) : o \in leg.outstanding}
<1>1. ASSUME NEW o \in leg.outstanding
      PROVE  ticked(o) \in Outstandings(kinds, locals) /\ ticked(o).frame = o.frame
  <2>1. o \in Outstandings(kinds, locals)
    BY DEF Legs
  <2>2. Closer(o.due) \in 0 .. RetxAfter
    BY <2>1, LegAssumption DEF Closer, Outstandings
  <2> QED
    BY <2>1, <2>2 DEF Outstandings
<1>2. window \subseteq Outstandings(kinds, locals)
  BY <1>1
<1>3. \A o \in window : \E p \in leg.outstanding : o.frame = p.frame
  BY <1>1
<1>4. TickLeg(leg) = [leg EXCEPT !.outstanding = window]
  BY DEF TickLeg
<1> HIDE DEF window
<1> QED
  BY <1>2, <1>3, <1>4 DEF Legs
-----------------------------------------------------------------------------
(* The frames of a window                                                  *)

\* build and track_reliable put one frame in the window, the one that is sent,
\* and leave the others as they are.
LEMMA SendReliableWindow ==
    ASSUME NEW kinds, NEW locals, NEW leg \in Legs(kinds, locals),
           NEW kind, NEW ts, NEW ies
    PROVE  SendReliable(leg, kind, ts, ies).outstanding =
             leg.outstanding \cup
             {[frame |-> FrameOf(leg, kind, ts, ies), due |-> RetxAfter, tries |-> 0]}
<1> DEFINE a == Advance(leg)
           new == [frame |-> FrameOf(leg, kind, ts, ies), due |-> RetxAfter, tries |-> 0]
<1>1. a \in Legs(kinds, locals) /\ a.outstanding = leg.outstanding
  BY AdvanceType
<1>2. SendReliable(leg, kind, ts, ies) = [a EXCEPT !.outstanding = @ \cup {new}]
  BY DEF SendReliable, Track
<1> HIDE DEF a, new
<1>3. [a EXCEPT !.outstanding = @ \cup {new}].outstanding = a.outstanding \cup {new}
  BY <1>1 DEF Legs
<1> QED
  BY <1>1, <1>2, <1>3 DEF new

\* What an acknowledgement does not cover stays in the window.
LEMMA ReceiveWindow ==
    ASSUME NEW kinds, NEW locals, NEW leg \in Legs(kinds, locals),
           NEW f, f.src \in RemoteNos, f.oseq \in SeqNo
    PROVE  Receive(leg, f).outstanding =
             {o \in leg.outstanding : ~Acked(o, f.iseq, f.ts, f.kind = "ACK")}
<1> DEFINE n == NoteRecv(leg, f)
           kept == {o \in n.outstanding : ~Acked(o, f.iseq, f.ts, f.kind = "ACK")}
<1>1. n \in Legs(kinds, locals) /\ n.outstanding = leg.outstanding
  BY NoteRecvType
<1>2. Receive(leg, f) = [n EXCEPT !.outstanding = kept]
  BY DEF Receive, AckUpto
<1> HIDE DEF n
<1>3. [n EXCEPT !.outstanding = kept].outstanding = kept
  BY <1>1 DEF Legs
<1> QED
  BY <1>1, <1>2, <1>3

\* Sending a frame takes one sequence number; nothing else changes it.
LEMMA SequenceKept ==
    ASSUME NEW kinds, NEW locals, NEW leg \in Legs(kinds, locals)
    PROVE  /\ Advance(leg).oseq = Succ(leg.oseq)
           /\ \A kind, ts, ies :
                SendReliable(leg, kind, ts, ies).oseq = Succ(leg.oseq)
           /\ \A f : Receive(leg, f).oseq = leg.oseq
           /\ RetransmitLeg(leg).oseq = leg.oseq
           /\ TickLeg(leg).oseq = leg.oseq
BY DEF Advance, SendReliable, Track, Receive, AckUpto, NoteRecv, RetransmitLeg,
       TickLeg, Legs

\* What a retransmission pass leaves in the window was there and was not due, or
\* had its tries used up, or is sent again and counted.
LEMMA RetransmitWindow ==
    ASSUME NEW kinds, NEW locals, NEW leg \in Legs(kinds, locals),
           NEW o \in RetransmitLeg(leg).outstanding
    PROVE  \/ o \in leg.outstanding /\ (o.due # 0 \/ ~(o.tries < RetxMax))
           \/ \E q \in leg.outstanding :
                /\ q.due = 0 /\ q.tries < RetxMax
                /\ o.frame = q.frame /\ o.due = RetxAfter /\ o.tries = q.tries + 1
                /\ [q.frame EXCEPT !.retx = TRUE] \in ResentFrames(leg)
<1> DEFINE again(q) == [q EXCEPT !.due = RetxAfter, !.tries = @ + 1]
           window == (leg.outstanding \ Resent(leg)) \cup {again(q) : q \in Resent(leg)}
<1>1. RetransmitLeg(leg) = [leg EXCEPT !.outstanding = window]
  BY DEF RetransmitLeg
<1>2. o \in leg.outstanding \ Resent(leg) \/ \E q \in Resent(leg) : o = again(q)
  <2> HIDE DEF window
  <2>1. o \in window
    BY <1>1 DEF Legs
  <2> QED
    BY <2>1 DEF window
<1>3. CASE o \in leg.outstanding \ Resent(leg)
  BY <1>3 DEF Resent, Expired
<1>4. ASSUME NEW q \in Resent(leg), o = again(q)
      PROVE  /\ q \in leg.outstanding /\ q.due = 0 /\ q.tries < RetxMax
             /\ o.frame = q.frame /\ o.due = RetxAfter /\ o.tries = q.tries + 1
             /\ [q.frame EXCEPT !.retx = TRUE] \in ResentFrames(leg)
  <2>1. q \in leg.outstanding /\ q.due = 0 /\ q.tries < RetxMax
    BY DEF Resent, Expired
  <2>2. q \in Outstandings(kinds, locals)
    BY <2>1 DEF Legs
  <2> QED
    BY <1>4, <2>1, <2>2 DEF ResentFrames, Outstandings
<1> QED
  BY <1>2, <1>3, <1>4

\* The clock moves the deadlines of a window and nothing else.
LEMMA TickWindow ==
    ASSUME NEW kinds, NEW locals, NEW leg \in Legs(kinds, locals),
           NEW o \in TickLeg(leg).outstanding
    PROVE  \E q \in leg.outstanding :
              o.frame = q.frame /\ o.tries = q.tries /\ o.due = Closer(q.due)
<1> DEFINE window == {[q EXCEPT !.due = Closer(@)] : q \in leg.outstanding}
<1>1. TickLeg(leg) = [leg EXCEPT !.outstanding = window]
  BY DEF TickLeg
<1>2. PICK q \in leg.outstanding : o = [q EXCEPT !.due = Closer(@)]
  <2> HIDE DEF window
  <2>1. o \in window
    BY <1>1 DEF Legs
  <2> QED
    BY <2>1 DEF window
<1>3. q \in Outstandings(kinds, locals)
  BY DEF Legs
<1> QED
  BY <1>2, <1>3 DEF Outstandings

\* A retransmission loses no frame.
LEMMA RetransmitKeeps ==
    ASSUME NEW kinds, NEW locals, NEW leg \in Legs(kinds, locals), NEW o \in leg.outstanding
    PROVE  \E p \in RetransmitLeg(leg).outstanding : p.frame = o.frame
<1> DEFINE again(q) == [q EXCEPT !.due = RetxAfter, !.tries = @ + 1]
           window == (leg.outstanding \ Resent(leg)) \cup {again(q) : q \in Resent(leg)}
<1>1. o \in Outstandings(kinds, locals)
  BY DEF Legs
<1>2. again(o).frame = o.frame
  BY <1>1 DEF Outstandings
<1>3. RetransmitLeg(leg) = [leg EXCEPT !.outstanding = window]
  BY DEF RetransmitLeg
<1>4. o \in window \/ again(o) \in window
  BY Zenon
<1> HIDE DEF window, again
<1>5. RetransmitLeg(leg).outstanding = window
  BY <1>3 DEF Legs
<1> QED
  BY <1>2, <1>4, <1>5

\* Neither does the clock.
LEMMA TickKeeps ==
    ASSUME NEW kinds, NEW locals, NEW leg \in Legs(kinds, locals), NEW o \in leg.outstanding
    PROVE  \E p \in TickLeg(leg).outstanding : p.frame = o.frame
<1> DEFINE ticked(q) == [q EXCEPT !.due = Closer(@)]
           window == {ticked(q) : q \in leg.outstanding}
<1>1. o \in Outstandings(kinds, locals)
  BY DEF Legs
<1>2. ticked(o).frame = o.frame
  BY <1>1 DEF Outstandings
<1>3. TickLeg(leg) = [leg EXCEPT !.outstanding = window]
  BY DEF TickLeg
<1>4. ticked(o) \in window
  BY Zenon
<1> HIDE DEF window, ticked
<1>5. TickLeg(leg).outstanding = window
  BY <1>3 DEF Legs
<1> QED
  BY <1>2, <1>4, <1>5

-----------------------------------------------------------------------------
(* Whose frames they are                                                   *)

\* All the frames of out that have a source have one of these.
From(out, numbers) == \A f \in out : "src" \in DOMAIN f => f.src \in numbers

\* The window holds frames of its own leg only.
OwnFrames(leg) == \A o \in leg.outstanding : o.frame.src = leg.local

\* A single frame built on a leg comes from it.
LEMMA BuiltFrom ==
    ASSUME NEW leg, NEW kind, NEW ts, NEW ies, NEW numbers, leg.local \in numbers
    PROVE  FrameOf(leg, kind, ts, ies).src = leg.local
           /\ From({FrameOf(leg, kind, ts, ies)}, numbers)
BY DEF FrameOf, From

\* A leg that sends a reliable frame still holds its own only.
LEMMA SendReliableOwn ==
    ASSUME NEW kinds, NEW locals, NEW leg \in Legs(kinds, locals), OwnFrames(leg),
           NEW kind \in kinds, NEW ts \in Ts, NEW ies, ies \subseteq IeKinds
    PROVE  OwnFrames(SendReliable(leg, kind, ts, ies))
<1> DEFINE sent == SendReliable(leg, kind, ts, ies)
           f == FrameOf(leg, kind, ts, ies)
           new == [frame |-> f, due |-> RetxAfter, tries |-> 0]
<1>1. sent.local = leg.local
  BY SendReliableType
<1>2. sent.outstanding = leg.outstanding \cup {new}
  BY SendReliableWindow
<1>3. new.frame.src = leg.local
  BY DEF FrameOf
<1> HIDE DEF sent, new
<1> QED
  BY <1>1, <1>2, <1>3 DEF OwnFrames, sent

\* So does a leg whose frames are all in the window of another of its number.
LEMMA OwnKept ==
    ASSUME NEW leg, NEW next, OwnFrames(leg), next.local = leg.local,
           \A o \in next.outstanding : \E p \in leg.outstanding : o.frame = p.frame
    PROVE  OwnFrames(next)
BY DEF OwnFrames

\* What is sent again comes from the leg that sent it first.
LEMMA ResentFrom ==
    ASSUME NEW kinds, NEW locals, NEW leg \in Legs(kinds, locals), OwnFrames(leg),
           NEW numbers, leg.local \in numbers
    PROVE  From(ResentFrames(leg), numbers)
<1> SUFFICES ASSUME NEW o \in leg.outstanding
             PROVE  [o.frame EXCEPT !.retx = TRUE].src \in numbers
  BY DEF From, ResentFrames, Resent, Expired
<1>1. o.frame \in Frames(kinds, locals) /\ o.frame.src = leg.local
  BY DEF Legs, Outstandings, OwnFrames
<1> QED
  BY <1>1 DEF Frames

-----------------------------------------------------------------------------
(* Timers                                                                  *)

\* Of several timers one is the next to run out: the order of the natural
\* numbers is well founded.
LEMMA LeastNat ==
    ASSUME NEW S, S \subseteq Nat, S # {}
    PROVE  \E m \in S : \A n \in S : m <= n
<1> DEFINE R == {ss \in Nat \X Nat : ss[1] < ss[2]}
<1>1. IsWellFoundedOn(R, Nat)
  BY NatLessThanWellFounded DEF OpToRel
<1>2. PICK m \in S : \A n \in S : <<n, m>> \notin R
  <2> HIDE DEF R
  <2> QED
    BY <1>1, WFMin
<1>3. \A n \in S : ~(n < m)
  BY <1>2
<1> QED
  BY <1>3
=============================================================================
