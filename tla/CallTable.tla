------------------------------ MODULE CallTable ------------------------------
(***************************************************************************)
(* The calls of a PbxClient: the table keyed by local call number, the     *)
(* index that routes mini-frames, call-number allocation, the commands of  *)
(* the driver, the frames addressed to a call, an incoming NEW and the     *)
(* retransmission pass.  Frames come from an open environment: any frame   *)
(* of CallFrames, any NEW of NewFrames and any mini-frame at any time.     *)
(*                                                                         *)
(* callOut and callEvents are what the latest handler pushed.  Peer names, *)
(* formats, audio and the 32-bit voice timestamp are not kept; an event is *)
(* its kind and the call it names.                                         *)
(***************************************************************************)
EXTENDS Leg

CONSTANTS
    CallBase,       \* CALLNO_CALL_BASE
    CallTop,        \* 0x1FFF, the last call number alloc_callno hands out
    AllocTries,     \* 0x7000, the attempts of alloc_callno
    CallFrames,     \* frames that may arrive on the leg of a call
    NewFrames,      \* NEW frames that may arrive
    MaxCalls        \* bound of the model: calls alive at a time

CallNos == CallBase .. CallTop

CallInKinds == {"VOICE", "AUTHREQ", "ACCEPT", "RINGING", "ANSWER", "BUSY",
                "HANGUP", "REJECT", "ACK", "PONG", "LAGRQ", "PING", "LAGRP",
                "DTMF", "CNG", "CONTROL", "CALLTOKEN", "OTHER"}
CallOutKinds == {"NEW", "AUTHREP", "ACCEPT", "RINGING", "ANSWER", "HANGUP",
                 "DTMF", "HOLD", "UNHOLD", "VOICE", "LAGRP", "PONG", "ACK"}

ASSUME CallAssumption ==
    /\ CallBase \in Nat \ {0} /\ CallTop \in Nat /\ CallBase <= CallTop
    /\ AllocTries \in Nat
    /\ CallFrames \subseteq Frames(CallInKinds, CallNos)
    /\ \A f \in CallFrames : f.src \in RemoteNos
    /\ NewFrames \subseteq Frames({"NEW"}, {0})
    /\ MaxCalls \in Nat /\ MaxCalls <= CallTop - CallBase + 1

VARIABLES
    calls,         \* the live calls, by local call number
    remoteIndex,   \* remote call number -> local call number
    callnoNext,
    callOut,
    callEvents

callVars == <<calls, remoteIndex, callnoNext, callOut, callEvents>>

CallStates == {"Trying", "Ringing", "Up", "Held"}

CallLegs == [leg : Legs(CallOutKinds, CallNos), state : CallStates,
             dir : {"In", "Out"}, sentFormat : BOOLEAN, voiceSeen : BOOLEAN]

EventKinds == {"Incoming", "Dialing", "Ringing", "Answered", "Voice", "Ended", "Dtmf"}
Events == [kind : EventKinds, call : CallNos]

\* A mini-frame carries its sender's call number and 16 bits of timestamp.
MiniFrames == [mini : CallNos]

CallTypeOK ==
    /\ DOMAIN calls \subseteq CallNos
    /\ calls \in [DOMAIN calls -> CallLegs]
    /\ \A n \in DOMAIN calls : calls[n].leg.local = n
    /\ DOMAIN remoteIndex \subseteq RemoteNos
    /\ remoteIndex \in [DOMAIN remoteIndex -> CallNos]
    /\ callnoNext \in CallNos
    /\ callOut \subseteq Frames(CallOutKinds, CallNos) \cup MiniFrames
    /\ callEvents \subseteq Events

Nothing == [n \in {} |-> n]

CallInit ==
    /\ calls = Nothing
    /\ remoteIndex = Nothing
    /\ callnoNext = CallBase
    /\ callOut = {}
    /\ callEvents = {}

-----------------------------------------------------------------------------
(* Helpers                                                                 *)

Ev(kind, n) == {[kind |-> kind, call |-> n]}

\* Map insertion (overwrites) and removal.
With(map, key, value) ==
    [k \in DOMAIN map \cup {key} |-> IF k = key THEN value ELSE map[k]]
Without(map, keys) == [k \in DOMAIN map \ keys |-> map[k]]

\* Faulty: the search runs past the last call number.
CyclicUnwrapped(s) == callnoNext + s

\* The call number after s more steps of the cyclic search.
Cyclic(s) == CallBase + ((callnoNext - CallBase + s) % (CallTop - CallBase + 1))

\* Faulty: live calls are not skipped.
AnySteps == 0 .. CallTop - CallBase

FreeSteps == {s \in 0 .. CallTop - CallBase : Cyclic(s) \notin DOMAIN calls}

\* alloc_callno: the next number in cyclic order that no call has; with all of
\* them taken the search runs out and CALLNO_CALL_BASE is handed out again.
AllocCallno(n, next) ==
    IF FreeSteps = {}
    THEN n = CallBase /\ next = Cyclic(AllocTries)
    ELSE \E s \in FreeSteps :
            /\ \A t \in FreeSteps : s <= t
            /\ n = Cyclic(s) /\ next = Cyclic(s + 1)

\* Faulty: the index keeps the entries of the dropped calls.
DropCallsOnly(dead, table, index) ==
    /\ calls' = Without(table, dead)
    /\ remoteIndex' = index

\* drop_call, of all the calls in dead.
DropCalls(dead, table, index) ==
    /\ calls' = Without(table, dead)
    /\ remoteIndex' = Without(index, {r \in DOMAIN index : index[r] \in dead})

NewCall(leg, state, dir) ==
    [leg |-> leg, state |-> state, dir |-> dir, sentFormat |-> FALSE,
     voiceSeen |-> FALSE]

-----------------------------------------------------------------------------
(* Commands                                                                *)

Dial ==
    /\ Cardinality(DOMAIN calls) < MaxCalls
    /\ \E n \in CallNos, ts \in Ts :
        /\ AllocCallno(n, callnoNext')
        /\ LET leg == SendReliable(NewLeg(n), "NEW", ts, {})
           IN calls' = With(calls, n, NewCall(leg, "Trying", "Out"))
        /\ callOut' = {FrameOf(NewLeg(n), "NEW", ts, {})}
        /\ callEvents' = Ev("Dialing", n)
    /\ UNCHANGED remoteIndex

\* A reliable frame built on the leg of call n, which goes on as c says.
Command(n, kind, ts, c) ==
    /\ Room(calls[n].leg, 1)
    /\ calls' = With(calls, n,
                     [c EXCEPT !.leg = SendReliable(calls[n].leg, kind, ts, {})])
    /\ callOut' = {FrameOf(calls[n].leg, kind, ts, {})}
    /\ UNCHANGED <<remoteIndex, callnoNext>>

Answer(n) ==
    /\ calls[n].dir = "In" /\ calls[n].state = "Ringing"
    /\ \E ts \in Ts :
        Command(n, "ANSWER", ts,
                [calls[n] EXCEPT !.state = "Up", !.sentFormat = FALSE])
    /\ callEvents' = Ev("Answered", n)

\* The HANGUP is tracked on a leg that drop_call then throws away.
Hangup(n) ==
    /\ \E ts \in Ts : callOut' = {FrameOf(calls[n].leg, "HANGUP", ts, {})}
    /\ DropCalls({n}, calls, remoteIndex)
    /\ callEvents' = Ev("Ended", n)
    /\ UNCHANGED callnoNext

SetHold(n, hold) ==
    /\ \E ts \in Ts :
        Command(n, IF hold THEN "HOLD" ELSE "UNHOLD", ts,
                [calls[n] EXCEPT !.state = IF hold THEN "Held" ELSE "Up"])
    /\ callEvents' = {}

SendDtmf(n) ==
    /\ \E ts \in Ts : Command(n, "DTMF", ts, calls[n])
    /\ callEvents' = {}

\* The first voice frame after an answer is a full frame, sequenced but not
\* tracked; the ones that follow are mini-frames.
SendVoice(n) ==
    /\ calls[n].state = "Up"
    /\ IF calls[n].sentFormat
       THEN callOut' = {[mini |-> n]} /\ UNCHANGED calls
       ELSE /\ Room(calls[n].leg, 1)
            /\ calls' = [calls EXCEPT ![n].leg = Advance(@), ![n].sentFormat = TRUE]
            /\ \E ts \in Ts : callOut' = {FrameOf(calls[n].leg, "VOICE", ts, {})}
    /\ callEvents' = {}
    /\ UNCHANGED <<remoteIndex, callnoNext>>

CallCommand(n) ==
    \/ Answer(n)
    \/ Hangup(n)
    \/ \E hold \in BOOLEAN : SetHold(n, hold)
    \/ SendDtmf(n)
    \/ SendVoice(n)

-----------------------------------------------------------------------------
(* A NEW: an incoming call, accepted and ringing at once.                  *)

OnIncomingNew(f) ==
    /\ Cardinality(DOMAIN calls) < MaxCalls
    /\ \E n \in CallNos, ts \in Ts :
        /\ AllocCallno(n, callnoNext')
        /\ LET leg == NoteRecv(NewLeg(n), f)
               accepted == SendReliable(leg, "ACCEPT", ts, {})
               ringing == SendReliable(accepted, "RINGING", ts, {})
           IN /\ calls' = With(calls, n, NewCall(ringing, "Ringing", "In"))
              /\ callOut' = {FrameOf(leg, "ACCEPT", ts, {}),
                             FrameOf(accepted, "RINGING", ts, {})}
        /\ remoteIndex' = With(remoteIndex, f.src, n)
        /\ callEvents' = Ev("Incoming", n)

-----------------------------------------------------------------------------
(* Frames addressed to the leg of a call                                   *)

\* A non-empty token, while our NEW waits for one: the leg starts over and the
\* NEW is sent again with it.  Tried before the frame is routed.
TakesNewToken(f) ==
    /\ "TOKEN" \in f.ies
    /\ calls[f.dst].dir = "Out" /\ calls[f.dst].state = "Trying"

ResendNewWithToken(f) ==
    /\ TakesNewToken(f)
    /\ LET fresh == ResetLeg(calls[f.dst].leg)
       IN \E ts \in Ts :
            /\ calls' = [calls EXCEPT ![f.dst].leg =
                            SendReliable(fresh, "NEW", ts, {"TOKEN"})]
            /\ callOut' = {FrameOf(fresh, "NEW", ts, {"TOKEN"})}
    /\ callEvents' = {}
    /\ UNCHANGED <<remoteIndex, callnoNext>>

\* The prologue of on_call_frame: sequence numbers, window and index.
Received(f) == [calls[f.dst] EXCEPT !.leg = Receive(@, f)]

Indexed(f) == IF f.src = 0 THEN remoteIndex ELSE With(remoteIndex, f.src, f.dst)

\* Faulty: one window for all calls.
GoesOnSharedWindow(f, c, out, events) ==
    /\ calls' = With([n \in DOMAIN calls |->
                        [calls[n] EXCEPT !.leg = AckUpto(@, f.iseq, f.ts, FALSE)]],
                     f.dst, c)
    /\ remoteIndex' = Indexed(f)
    /\ callOut' = out
    /\ callEvents' = events
    /\ UNCHANGED callnoNext

\* The call goes on as c and sends the frames out.
GoesOn(f, c, out, events) ==
    /\ calls' = With(calls, f.dst, c)
    /\ remoteIndex' = Indexed(f)
    /\ callOut' = out
    /\ callEvents' = events
    /\ UNCHANGED callnoNext

Acknowledge(f, c, events) ==
    \E ts \in Ts : GoesOn(f, c, {AckFrame(c.leg, ts)}, events)

\* Faulty: a call on hold is heard.
OnVoiceAlways(f) ==
    /\ f.kind = "VOICE"
    /\ Acknowledge(f, [Received(f) EXCEPT !.voiceSeen = TRUE], Ev("Voice", f.dst))

OnVoice(f) ==
    /\ f.kind = "VOICE"
    /\ Acknowledge(f, [Received(f) EXCEPT !.voiceSeen = TRUE],
                   IF calls[f.dst].state = "Up" THEN Ev("Voice", f.dst) ELSE {})

\* AUTHREQ of an outgoing call: answered when it offers MD5 and a challenge.
OnAuthReq(f) ==
    /\ f.kind = "AUTHREQ" /\ calls[f.dst].dir = "Out"
    /\ LET c == Received(f) IN
       IF {"MD5", "CHALLENGE"} \subseteq f.ies
       THEN \E ts \in Ts :
            /\ Room(c.leg, 1)
            /\ GoesOn(f, [c EXCEPT !.leg = SendReliable(@, "AUTHREP", ts, {"MD5"})],
                      {FrameOf(c.leg, "AUTHREP", ts, {"MD5"})}, {})
       ELSE GoesOn(f, c, {}, {})

OnRinging(f) ==
    /\ f.kind = "RINGING"
    /\ Acknowledge(f, [Received(f) EXCEPT !.state = "Ringing"], Ev("Ringing", f.dst))

OnAnswer(f) ==
    /\ f.kind = "ANSWER"
    /\ Acknowledge(f, [Received(f) EXCEPT !.state = "Up", !.sentFormat = FALSE],
                   Ev("Answered", f.dst))

\* BUSY, HANGUP and REJECT end the call, after an ACK.
OnRemoteEnd(f) ==
    /\ f.kind \in {"BUSY", "HANGUP", "REJECT"}
    /\ DropCalls({f.dst}, calls, Indexed(f))
    /\ \E ts \in Ts : callOut' = {AckFrame(Received(f).leg, ts)}
    /\ callEvents' = Ev("Ended", f.dst)
    /\ UNCHANGED callnoNext

\* LAGRQ and PING are answered by a sequenced frame that is not tracked and
\* echoes the timestamp.
OnProbe(f, probe, reply) ==
    /\ f.kind = probe
    /\ LET c == Received(f) IN
        /\ Room(c.leg, 1)
        /\ GoesOn(f, [c EXCEPT !.leg = Advance(@)],
                  {FrameOf(c.leg, reply, f.ts, {})}, {})

OnDtmf(f) == f.kind = "DTMF" /\ Acknowledge(f, Received(f), Ev("Dtmf", f.dst))

\* Frames that only move the window, and frames that are only acknowledged
\* (an AUTHREQ on an incoming call among them).
OnSilent(f) ==
    /\ f.kind \in {"ACK", "PONG", "LAGRP"}
    /\ GoesOn(f, Received(f), {}, {})

OnAcknowledged(f) ==
    /\ \/ f.kind \in {"ACCEPT", "CNG", "CONTROL", "CALLTOKEN", "OTHER"}
       \/ f.kind = "AUTHREQ" /\ calls[f.dst].dir = "In"
    /\ Acknowledge(f, Received(f), {})

OnCallFrame(f) ==
    \/ OnVoice(f)
    \/ OnAuthReq(f)
    \/ OnRinging(f)
    \/ OnAnswer(f)
    \/ OnRemoteEnd(f)
    \/ OnProbe(f, "LAGRQ", "LAGRP")
    \/ OnProbe(f, "PING", "PONG")
    \/ OnDtmf(f)
    \/ OnSilent(f)
    \/ OnAcknowledged(f)

CallInput(f) ==
    \/ ResendNewWithToken(f)
    \/ ~TakesNewToken(f) /\ OnCallFrame(f)

\* A mini-frame from the remote call number r.
OnMiniFrame(r) ==
    /\ calls[remoteIndex[r]].state = "Up"
    /\ calls' = [calls EXCEPT ![remoteIndex[r]].voiceSeen = TRUE]
    /\ callOut' = {}
    /\ callEvents' = Ev("Voice", remoteIndex[r])
    /\ UNCHANGED <<remoteIndex, callnoNext>>

-----------------------------------------------------------------------------
(* Timers                                                                  *)

\* Faulty: of the calls that time out together only one is told.
CallHandleTimeoutOneTold ==
    LET dead == {n \in DOMAIN calls : Exhausted(calls[n].leg)}
        resent == [n \in DOMAIN calls |->
                    [calls[n] EXCEPT !.leg = RetransmitLeg(@)]]
    IN /\ DropCalls(dead, resent, remoteIndex)
       /\ callOut' = UNION {ResentFrames(calls[n].leg) : n \in DOMAIN calls}
       /\ callEvents' = UNION {Ev("Ended", n) : n \in {d \in dead : \A e \in dead : d <= e}}
       /\ UNCHANGED callnoNext

\* The retransmission pass: every window first, then the calls with an
\* exhausted frame are dropped.
CallHandleTimeout ==
    LET dead == {n \in DOMAIN calls : Exhausted(calls[n].leg)}
        resent == [n \in DOMAIN calls |->
                    [calls[n] EXCEPT !.leg = RetransmitLeg(@)]]
    IN /\ DropCalls(dead, resent, remoteIndex)
       /\ callOut' = UNION {ResentFrames(calls[n].leg) : n \in DOMAIN calls}
       /\ callEvents' = UNION {Ev("Ended", n) : n \in dead}
       /\ UNCHANGED callnoNext

CallTick ==
    /\ calls' = [n \in DOMAIN calls |-> [calls[n] EXCEPT !.leg = TickLeg(@)]]
    /\ callOut' = {}
    /\ callEvents' = {}
    /\ UNCHANGED <<remoteIndex, callnoNext>>

\* The driver empties the queues: poll_transmit and poll_event.
CallDrain ==
    /\ callOut' = {} /\ callEvents' = {}
    /\ UNCHANGED <<calls, remoteIndex, callnoNext>>

-----------------------------------------------------------------------------
CallNext ==
    \/ Dial
    \/ \E n \in DOMAIN calls : CallCommand(n)
    \/ \E f \in NewFrames : OnIncomingNew(f)
    \/ \E f \in CallFrames : f.dst \in DOMAIN calls /\ CallInput(f)
    \/ \E r \in DOMAIN remoteIndex :
            remoteIndex[r] \in DOMAIN calls /\ OnMiniFrame(r)
    \/ CallHandleTimeout
    \/ CallTick
    \/ CallDrain

CallSpec == CallInit /\ [][CallNext]_callVars

\* The driver calls handle_timeout again and again, and time passes.
CallFairness == WF_callVars(CallTick) /\ WF_callVars(CallHandleTimeout)

CallFairSpec == CallSpec /\ CallFairness

-----------------------------------------------------------------------------
(* Properties                                                              *)

\* The index that routes mini-frames never names a call that is gone, on
\* whichever of the ways out of the table it left (drop_call).
RemoteIndexLive == \A r \in DOMAIN remoteIndex : remoteIndex[r] \in DOMAIN calls

\* A call leaves the table exactly when the driver is told Ended, once for each
\* call: local hangup, BUSY, HANGUP, REJECT and the reliability timeout.
EndedTold ==
    DOMAIN calls \ DOMAIN calls' =
        {e.call : e \in {d \in callEvents' : d.kind = "Ended"}}

EndedIffDropped == [][EndedTold]_callVars

\* Every other event names a call that the driver can still command.
EventsNameLiveCalls ==
    \A e \in callEvents : e.kind # "Ended" => e.call \in DOMAIN calls

\* A new call never takes the number of a live one, also after callno_next has
\* wrapped round (alloc_callno): no call in the table changes direction, and
\* Dialing and Incoming announce numbers that were free.
FreshCallNo ==
    [][\A n \in DOMAIN calls :
        /\ n \in DOMAIN calls' => calls'[n].dir = calls[n].dir
        /\ \A e \in callEvents' : e.call = n => e.kind \notin {"Dialing", "Incoming"}
      ]_callVars

\* Whatever arrives, and whatever the driver commands, the calls and the events
\* are those of the abstract life cycle: no call begins twice, ends untold or
\* is heard while it is not connected, and nothing is told of a call that has
\* ended.
Life == INSTANCE CallLifecycle WITH
    CallNos <- CallNos,
    lines <- [n \in DOMAIN calls |-> [state |-> calls[n].state, dir |-> calls[n].dir]],
    told <- callEvents

CallLife == Life!LifeSpec

\* A reliable frame never stays unconfirmed for ever: it is acknowledged, or
\* its call is dropped after the last retransmission; only a peer that asks for
\* a token again and again (resend_new_with_token) can put that off.
Restarted == \E f \in callOut : f \in Frames({"NEW"}, CallNos) /\ "TOKEN" \in f.ies

FramesResolve ==
    \A n \in CallNos, s \in SeqNo :
        LET waiting == n \in DOMAIN calls /\
                       \E o \in calls[n].leg.outstanding : o.frame.oseq = s
        IN waiting ~> ~waiting \/ Restarted

-----------------------------------------------------------------------------
(* What comments of the code say, and the code does not do                 *)

ReliableKinds == CallOutKinds \ {"VOICE", "LAGRP", "PONG", "ACK"}

\* client.rs:217, a frame registered as reliable is "to be retransmitted until
\* the ACK": after every handler it is in the window of a live call.
ReliableTracked ==
    \A f \in callOut : f \in Frames(ReliableKinds, CallNos) =>
        \E n \in DOMAIN calls : \E o \in calls[n].leg.outstanding : o.frame.oseq = f.oseq

\* client.rs:152-154, Ringing is before, Up is "connected, audio active": an
\* outgoing call that was connected does not ring again.
UpNeverRingsAgain ==
    [][\A n \in DOMAIN calls \cap DOMAIN calls' :
        calls[n].state = "Up" => calls'[n].state # "Ringing"]_callVars

\* client.rs:156, Held is the LOCAL hold: only the driver's Unhold, never a
\* frame from the far end, ends it.
HoldIsLocal ==
    [][\A n \in DOMAIN calls \cap DOMAIN calls' :
        calls[n].state = "Held" /\ calls'[n].state = "Up" =>
            \E f \in callOut' : f \in Frames({"UNHOLD"}, CallNos)]_callVars
=============================================================================
