------------------------------ MODULE RegDaemon ------------------------------
(***************************************************************************)
(* regdaemon: a stand-alone phone that keeps one registration (call number *)
(* 1) and answers one call at a time (call number 2) by itself.  It does   *)
(* not use PbxClient: its legs have no window, and one slot, pending, holds*)
(* the only frame that is ever retransmitted.                              *)
(*                                                                         *)
(* The arms of the select loop are the actions.  Frames come from an open  *)
(* environment; out is what the latest arm sent.  Audio, payloads and the  *)
(* timestamps are left out (mini-frames only play audio).  An Option is a  *)
(* set of at most one element.  A receive error ends the loop, and with it *)
(* the program.                                                            *)
(***************************************************************************)
EXTENDS Leg

CONSTANTS
    Guard,          \* 10 s, between two REGREQs of the same attempt
    LostRetry,      \* 3 s, after the retransmissions run out
    RejectRetry,    \* 5 s, after a REGREJ
    ArgRefresh,     \* the refresh time of the command line
    Grants,         \* refresh times the registrar may grant
    DaemonFrames    \* frames that may arrive

REG_LOCAL_CALL == 1
CALL_LOCAL_CALL == 2
KEEPALIVE_CALL == 4
BUSY_CALL == 99

\* 3 is the source number of a PONG to a qualify without destination.
DaemonNos == {REG_LOCAL_CALL, CALL_LOCAL_CALL, 3, KEEPALIVE_CALL, BUSY_CALL}

DaemonInKinds == {"POKE", "PING", "NEW", "CALLTOKEN", "REGAUTH", "REGACK", "REGREJ",
                  "ACK", "VOICE", "HANGUP", "CONTROL", "OTHER"}
DaemonOutKinds == {"REGREQ", "ACK", "POKE", "PONG", "REJECT", "ACCEPT", "ANSWER",
                   "VOICE", "MINI"}

ASSUME DaemonAssumption ==
    /\ Guard \in Nat \ {0} /\ LostRetry \in Nat /\ RejectRetry \in Nat
    /\ LostRetry <= Guard /\ RejectRetry <= Guard
    /\ ArgRefresh \in Nat /\ Grants \subseteq Nat \ {0}
    /\ DaemonFrames \subseteq Frames(DaemonInKinds, DaemonNos)
    /\ \A f \in DaemonFrames : f.src \in RemoteNos

VARIABLES
    reg,          \* the registration leg
    call,         \* the call in progress, if any
    calltoken,    \* is a call token held?
    registered,
    refresh,
    pending,      \* the frame that waits for an acknowledgement, if any
    nextReg,      \* ticks until next_reg
    out,
    running       \* has the loop not been left?

phoneVars == <<reg, call, calltoken, registered, refresh, pending, nextReg, out>>
daemonVars == <<phoneVars, running>>

DaemonLegs == [local : DaemonNos, remote : RemoteNos, oseq : SeqNo, iseq : SeqNo]

AtMostOne(set) == \A x, y \in set : x = y

PhoneTypeOK ==
    /\ reg \in DaemonLegs /\ reg.local = REG_LOCAL_CALL
    /\ call \subseteq [leg : DaemonLegs, sentFormat : BOOLEAN]
    /\ AtMostOne(call) /\ \A c \in call : c.leg.local = CALL_LOCAL_CALL
    /\ calltoken \in BOOLEAN
    /\ registered \in BOOLEAN
    /\ refresh \in Grants \cup {ArgRefresh}
    /\ pending \subseteq Outstandings(DaemonOutKinds, DaemonNos) /\ AtMostOne(pending)
    /\ nextReg \in Nat
    /\ out \subseteq Frames(DaemonOutKinds, DaemonNos)

DaemonTypeOK == PhoneTypeOK /\ running \in BOOLEAN

Fresh(n) == [local |-> n, remote |-> 0, oseq |-> 0, iseq |-> 0]

DaemonInit ==
    /\ reg = Fresh(REG_LOCAL_CALL)
    /\ call = {}
    /\ calltoken = FALSE
    /\ registered = FALSE
    /\ refresh = ArgRefresh
    /\ pending = {}
    /\ nextReg = 0
    /\ out = {}
    /\ running = TRUE

-----------------------------------------------------------------------------
(* Helpers                                                                 *)

Waiting(f) == {[frame |-> f, due |-> RetxAfter, tries |-> 0]}

DaemonRegIes(token) == IF token THEN {"REFRESH", "TOKEN"} ELSE {"REFRESH"}

\* A REGREQ built on leg takes the slot.
SendRegReq(leg, ies) ==
    \E ts \in Ts :
        LET f == FrameOf(leg, "REGREQ", ts, ies) IN
        /\ reg' = Advance(leg)
        /\ pending' = Waiting(f)
        /\ out' = {f}

\* A frame that belongs to no dialogue of the daemon.
Loose(kind, src, dst, ts, iseq) ==
    [kind |-> kind, src |-> src, dst |-> dst, ts |-> ts, oseq |-> 0,
     iseq |-> iseq, retx |-> FALSE, ies |-> {}]

-----------------------------------------------------------------------------
(* The timers of the loop                                                  *)

StartDue == pending = {} /\ nextReg = 0

\* The house tick starts a registration: leg and token afresh, whatever held.
StartRegister ==
    /\ StartDue
    /\ SendRegReq(Fresh(REG_LOCAL_CALL), DaemonRegIes(FALSE))
    /\ calltoken' = FALSE
    /\ nextReg' = Guard
    /\ UNCHANGED <<call, registered, refresh>>

\* Faulty: the retransmissions are not counted.
ResendUncounted ==
    \E p \in pending :
        /\ p.due = 0 /\ p.tries < RetxMax
        /\ pending' = {[p EXCEPT !.due = RetxAfter]}
        /\ out' = {p.frame}
        /\ UNCHANGED <<reg, call, calltoken, registered, refresh, nextReg>>

\* The bytes kept are sent again as they were, without the R bit.
Resend ==
    \E p \in pending :
        /\ p.due = 0 /\ p.tries < RetxMax
        /\ pending' = {[p EXCEPT !.due = RetxAfter, !.tries = @ + 1]}
        /\ out' = {p.frame}
        /\ UNCHANGED <<reg, call, calltoken, registered, refresh, nextReg>>

\* Whatever the frame was: the call, if there is one, stays.
GiveUp ==
    /\ \E p \in pending : p.due = 0 /\ p.tries >= RetxMax
    /\ pending' = {}
    /\ registered' = FALSE
    /\ nextReg' = LostRetry
    /\ out' = {}
    /\ UNCHANGED <<reg, call, calltoken, refresh>>

House == StartRegister \/ Resend \/ GiveUp

Keepalive ==
    /\ registered
    /\ \E ts \in Ts : out' = {Loose("POKE", KEEPALIVE_CALL, 0, ts, 0)}
    /\ UNCHANGED <<reg, call, calltoken, registered, refresh, pending, nextReg>>

\* The audio tick with a frame from the microphone: a full VOICE, not kept for
\* retransmission, then mini-frames.
SendAudio ==
    /\ \E c \in call, ts \in Ts :
        IF c.sentFormat
        THEN out' = {Loose("MINI", c.leg.local, 0, ts, 0)} /\ UNCHANGED call
        ELSE /\ out' = {FrameOf(c.leg, "VOICE", ts, {})}
             /\ call' = {[leg |-> Advance(c.leg), sentFormat |-> TRUE]}
    /\ UNCHANGED <<reg, calltoken, registered, refresh, pending, nextReg>>

Clock ==
    /\ pending' = {[p EXCEPT !.due = Closer(@)] : p \in pending}
    /\ nextReg' = Closer(nextReg)
    /\ out' = {}
    /\ UNCHANGED <<reg, call, calltoken, registered, refresh>>

-----------------------------------------------------------------------------
(* A full frame arrives                                                    *)

OnRealLeg(f) == f.dst = REG_LOCAL_CALL \/ \E c \in call : f.dst = c.leg.local

\* Faulty: frames of the call leave the slot alone.
AfterArrivalRegOnly(f) == IF f.dst = REG_LOCAL_CALL THEN {} ELSE pending

\* The slot once a frame is in: any frame of either dialogue empties it.
AfterArrival(f) == IF OnRealLeg(f) THEN {} ELSE pending

\* POKE and PING are answered as qualifies, also inside a dialogue.
IsQualify(f) == f.kind \in {"POKE", "PING"}

AnswerQualify(f) ==
    /\ IsQualify(f)
    /\ out' = {Loose("PONG", IF f.dst < 3 THEN 3 ELSE f.dst, f.src, f.ts, Succ(f.oseq))}
    /\ pending' = AfterArrival(f)
    /\ UNCHANGED <<reg, call, calltoken, registered, refresh, nextReg>>

\* Busy: a NEW during a call is rejected, a repeated NEW of that call too.
RejectNew(f) ==
    /\ f.kind = "NEW" /\ call # {}
    /\ \E ts \in Ts : out' = {Loose("REJECT", BUSY_CALL, f.src, ts, Succ(f.oseq))}
    /\ pending' = AfterArrival(f)
    /\ UNCHANGED <<reg, call, calltoken, registered, refresh, nextReg>>

\* ACCEPT and ANSWER at once; the ANSWER takes the slot, from a REGREQ too.
AnswerNew(f) ==
    /\ f.kind = "NEW" /\ call = {}
    /\ \E ts \in Ts :
        LET leg == NoteRecv(Fresh(CALL_LOCAL_CALL), f)
            accept == FrameOf(leg, "ACCEPT", ts, {})
            answer == FrameOf(Advance(leg), "ANSWER", ts, {})
        IN /\ call' = {[leg |-> Advance(Advance(leg)), sentFormat |-> FALSE]}
           /\ pending' = Waiting(answer)
           /\ out' = {accept, answer}
    /\ UNCHANGED <<reg, calltoken, registered, refresh, nextReg>>

TakesCallToken(f) ==
    /\ ~IsQualify(f) /\ f.kind # "NEW"
    /\ "TOKEN" \in f.ies /\ ~calltoken

\* A token, on whichever leg it comes.
RegisterWithToken(f) ==
    /\ TakesCallToken(f)
    /\ SendRegReq(Fresh(REG_LOCAL_CALL), DaemonRegIes(TRUE))
    /\ calltoken' = TRUE
    /\ UNCHANGED <<call, registered, refresh, nextReg>>

Challenged(f) == f.kind = "REGAUTH" /\ {"MD5", "CHALLENGE"} \subseteq f.ies

Challenge(f) ==
    /\ Challenged(f)
    /\ SendRegReq(NoteRecv(reg, f), DaemonRegIes(calltoken) \cup {"MD5"})
    /\ UNCHANGED <<call, calltoken, registered, refresh, nextReg>>

RegAck(f) ==
    /\ f.kind = "REGACK"
    /\ reg' = NoteRecv(reg, f)
    /\ registered' = TRUE
    /\ \E rf \in IF "REFRESH" \in f.ies THEN Grants ELSE {refresh} :
        refresh' = rf /\ nextReg' = (rf * 4) \div 5
    /\ pending' = AfterArrival(f)
    /\ \E ts \in Ts : out' = {AckFrame(reg', ts)}
    /\ UNCHANGED <<call, calltoken>>

\* Faulty: next_reg keeps the time of the next refresh.
RegRejUntimed(f) ==
    /\ f.kind = "REGREJ"
    /\ reg' = NoteRecv(reg, f)
    /\ calltoken' = FALSE
    /\ registered' = FALSE
    /\ pending' = AfterArrival(f)
    /\ \E ts \in Ts : out' = {AckFrame(reg', ts)}
    /\ UNCHANGED <<call, refresh, nextReg>>

RegRej(f) ==
    /\ f.kind = "REGREJ"
    /\ reg' = NoteRecv(reg, f)
    /\ calltoken' = FALSE
    /\ registered' = FALSE
    /\ nextReg' = RejectRetry
    /\ pending' = AfterArrival(f)
    /\ \E ts \in Ts : out' = {AckFrame(reg', ts)}
    /\ UNCHANGED <<call, refresh>>

\* Logged only, a REGAUTH that cannot be answered among them.
RegOther(f) ==
    /\ f.kind \notin {"REGACK", "REGREJ"} /\ ~Challenged(f)
    /\ reg' = NoteRecv(reg, f)
    /\ pending' = AfterArrival(f)
    /\ out' = {}
    /\ UNCHANGED <<call, calltoken, registered, refresh, nextReg>>

OnRegLeg(f) ==
    /\ f.dst = REG_LOCAL_CALL
    /\ Challenge(f) \/ RegAck(f) \/ RegRej(f) \/ RegOther(f)

\* A HANGUP ends the call; everything but an ACK is acknowledged.
OnCallLeg(f) ==
    /\ f.dst # REG_LOCAL_CALL
    /\ \E c \in call :
        LET leg == NoteRecv(c.leg, f) IN
        /\ f.dst = c.leg.local
        /\ call' = IF f.kind = "HANGUP" THEN {} ELSE {[c EXCEPT !.leg = leg]}
        /\ \E ts \in Ts : out' = IF f.kind = "ACK" THEN {} ELSE {AckFrame(leg, ts)}
    /\ pending' = AfterArrival(f)
    /\ UNCHANGED <<reg, calltoken, registered, refresh, nextReg>>

OnFrame(f) ==
    \/ AnswerQualify(f)
    \/ RejectNew(f)
    \/ AnswerNew(f)
    \/ RegisterWithToken(f)
    \/ /\ ~IsQualify(f) /\ f.kind # "NEW" /\ ~TakesCallToken(f)
       /\ OnRegLeg(f) \/ OnCallLeg(f)

-----------------------------------------------------------------------------
(* The loop                                                                *)

Timers == House \/ Keepalive \/ SendAudio \/ Clock

\* recv fails, as it does on this connected socket when the PBX's host answers
\* a datagram with an ICMP unreachable: the loop is left, the program ends.
ReceiveError == running /\ running' = FALSE /\ UNCHANGED phoneVars

\* One turn of the select loop.
Turn(arm) == running /\ arm /\ UNCHANGED running

DaemonNext ==
    \/ Turn(Timers)
    \/ \E f \in DaemonFrames : Turn(OnFrame(f))
    \/ ReceiveError

DaemonSpec == DaemonInit /\ [][DaemonNext]_daemonVars

\* While the program runs time passes and the house tick comes round: select!
\* takes a ready arm at random.
DaemonFairness == WF_daemonVars(Turn(Clock)) /\ WF_daemonVars(Turn(House))

-----------------------------------------------------------------------------
(* Properties                                                              *)

\* The slot never holds a frame of the past: an ANSWER in it is that of the
\* call in progress, addressed to its far end, and a REGREQ carries the token
\* exactly when one is held, although registration and call share the slot and
\* take it from each other (regdaemon.rs:151, 188, 224, 239, 259).
SlotIsCurrent ==
    \A p \in pending :
        \/ /\ p.frame.kind = "ANSWER"
           /\ \E c \in call : p.frame.dst = c.leg.remote
        \/ /\ p.frame.kind = "REGREQ" /\ p.frame.src = REG_LOCAL_CALL
           /\ ("TOKEN" \in p.frame.ies) = calltoken

\* Not registered, the daemon is never further than its guard from the next
\* attempt, whatever mixture of rejections, challenges, calls and silence came
\* before (regdaemon.rs:152, 161, 275).
AttemptInTime == ~registered => nextReg <= Guard

\* The far end makes the daemon put a frame of its own in the slot, by a NEW
\* while no call is in progress or by a challenge.
Refill == \E f \in DaemonFrames : AnswerNew(f) \/ Challenge(f)


\* regdaemon.rs:1, a phone "alway on": a registration that is due to be renewed
\* is renewed.  It is not once recv has failed and the program has ended.
AlwaysOn ==
    <>[][~Refill]_daemonVars => (registered /\ nextReg = 0 ~> nextReg > 0)

\* regdaemon.rs:64, the slot holds a "Full-frame trusted waiting for ACK": it is
\* emptied, or its frame replaced, only when a frame of that dialogue has
\* acknowledged it or its retransmissions have run out.
Forgets(p) == \A q \in pending' : q.frame # p.frame

AcknowledgedBy(p, f) == f.dst = p.frame.src /\ SeqBefore(p.frame.oseq, f.iseq)

KeptUntilAcked ==
    [][\A p \in pending : Forgets(p) =>
        \/ GiveUp
        \/ \E f \in DaemonFrames : AcknowledgedBy(p, f) /\ OnFrame(f)]_daemonVars
=============================================================================
