-------------------------------- MODULE Leg --------------------------------
(***************************************************************************)
(* A leg of an IAX2 dialogue as client.rs keeps it: call numbers, sequence *)
(* numbers and the window of reliable frames not yet acknowledged.  No     *)
(* state of its own: Registration owns one leg, CallTable one per call.    *)
(*                                                                         *)
(* The VecDeque of outstanding frames is a set (only the order of the      *)
(* retransmitted datagrams is lost); the encoded bytes of a frame are the  *)
(* frame itself; an Instant is the number of ticks that remain until it.   *)
(***************************************************************************)
EXTENDS Integers, FiniteSets

CONSTANTS
    SeqMod,       \* sequence numbers are modulo this (256 in the code)
    RetxAfter,    \* RETX_AFTER, in ticks
    RetxMax,      \* RETX_MAX
    RemoteNos,    \* call numbers the far end may use, 0 included ("unknown")
    Ts,           \* timestamps
    WindowBound   \* bound of the model: frames a leg may have in flight

ASSUME LegAssumption ==
    /\ SeqMod \in Nat /\ SeqMod > 1
    /\ RetxAfter \in Nat \ {0}
    /\ RetxMax \in Nat
    /\ 0 \in RemoteNos /\ RemoteNos \subseteq Nat
    /\ Ts \subseteq Nat
    /\ WindowBound \in Nat /\ 2 <= WindowBound /\ WindowBound < SeqMod \div 2

SeqNo == 0 .. SeqMod - 1

\* What the client reads in the information elements of a frame.
IeKinds == {"TOKEN", "MD5", "CHALLENGE", "REFRESH"}

\* kind stands for the pair (frametype, subclass).
Frames(kinds, locals) ==
    [kind : kinds, src : locals \cup RemoteNos, dst : locals \cup RemoteNos,
     ts : Ts, oseq : SeqNo, iseq : SeqNo, retx : BOOLEAN, ies : SUBSET IeKinds]

Outstandings(kinds, locals) ==
    [frame : Frames(kinds, locals), due : 0 .. RetxAfter, tries : 0 .. RetxMax]

Legs(kinds, locals) ==
    [local : locals, remote : RemoteNos, oseq : SeqNo, iseq : SeqNo,
     outstanding : SUBSET Outstandings(kinds, locals)]

\* Faulty: a number precedes itself, and the frame expected next is acknowledged.
SeqBeforeOrEqual(a, b) == (b - a) % SeqMod < SeqMod \div 2

\* Serial comparison: a precedes b by less than half the number space.
SeqBefore(a, b) == LET d == (b - a) % SeqMod IN d # 0 /\ d < SeqMod \div 2

\* Faulty: no wrap-round.
SuccUnwrapped(s) == s + 1

Succ(s) == (s + 1) % SeqMod

NewLeg(n) == [local |-> n, remote |-> 0, oseq |-> 0, iseq |-> 0, outstanding |-> {}]

ResetLeg(leg) ==
    [leg EXCEPT !.remote = 0, !.oseq = 0, !.iseq = 0, !.outstanding = {}]

\* note_recv: the source call number unless it is 0, and the last oseq seen
\* plus one, whatever the kind of the frame and whatever was seen before.
NoteRecv(leg, f) ==
    [leg EXCEPT !.remote = IF f.src # 0 THEN f.src ELSE @, !.iseq = Succ(f.oseq)]

\* The frame build and ack_bytes put together; build also advances oseq.
FrameOf(leg, kind, ts, ies) ==
    [kind |-> kind, src |-> leg.local, dst |-> leg.remote, ts |-> ts,
     oseq |-> leg.oseq, iseq |-> leg.iseq, retx |-> FALSE, ies |-> ies]

Advance(leg) == [leg EXCEPT !.oseq = Succ(@)]

AckFrame(leg, ts) == FrameOf(leg, "ACK", ts, {})

Track(leg, f) ==
    [leg EXCEPT !.outstanding =
        @ \cup {[frame |-> f, due |-> RetxAfter, tries |-> 0]}]

\* build followed by track_reliable, as every reliable frame is sent.
SendReliable(leg, kind, ts, ies) ==
    Track(Advance(leg), FrameOf(leg, kind, ts, ies))

Acked(o, iseq, ts, isAck) ==
    \/ SeqBefore(o.frame.oseq, iseq)
    \/ isAck /\ o.frame.ts = ts

AckUpto(leg, iseq, ts, isAck) ==
    [leg EXCEPT !.outstanding = {o \in @ : ~Acked(o, iseq, ts, isAck)}]

\* The prologue of on_reg_frame and on_call_frame.
Receive(leg, f) == AckUpto(NoteRecv(leg, f), f.iseq, f.ts, f.kind = "ACK")

-----------------------------------------------------------------------------
(* The retransmission pass of handle_timeout over one window.              *)

Expired(leg) == {o \in leg.outstanding : o.due = 0}

\* Faulty: gives up one retransmission early.
ExhaustedEarly(leg) == \E o \in Expired(leg) : o.tries + 1 >= RetxMax

Exhausted(leg) == \E o \in Expired(leg) : o.tries >= RetxMax

Resent(leg) == {o \in Expired(leg) : o.tries < RetxMax}

ResentFrames(leg) == {[o.frame EXCEPT !.retx = TRUE] : o \in Resent(leg)}

\* Faulty: retransmissions are not counted.
RetransmitLegUncounted(leg) ==
    [leg EXCEPT !.outstanding =
        (@ \ Resent(leg)) \cup {[o EXCEPT !.due = RetxAfter] : o \in Resent(leg)}]

RetransmitLeg(leg) ==
    [leg EXCEPT !.outstanding =
        (@ \ Resent(leg)) \cup
        {[o EXCEPT !.due = RetxAfter, !.tries = @ + 1] : o \in Resent(leg)}]

\* One tick of the clock: every deadline comes closer; a missed one stays at 0.
Closer(n) == IF n = 0 THEN 0 ELSE n - 1

TickLeg(leg) ==
    [leg EXCEPT !.outstanding = {[o EXCEPT !.due = Closer(@)] : o \in @}]

\* Bound of the model: n more frames fit behind the oldest one in flight.
Room(leg, n) ==
    \A o \in leg.outstanding : ((leg.oseq - o.frame.oseq) % SeqMod) + n <= WindowBound
=============================================================================
