------------------------------ MODULE PbxClient ------------------------------
(***************************************************************************)
(* The whole sans-io client: its registration and its calls behind one     *)
(* handle_input, one handle_timeout and one clock, plus the stateless      *)
(* answer to a qualify probe.  What this module adds to Registration and   *)
(* CallTable is the routing of datagrams and the joint timers.             *)
(*                                                                         *)
(* A handler that leaves one half alone still leaves it with empty queues, *)
(* because the driver has emptied them since: RegDrain and CallDrain.      *)
(***************************************************************************)
EXTENDS Registration, CallTable

CONSTANTS
    QualifyBase,   \* CALLNO_QUALIFY_BASE
    QualifySpan,   \* CALLNO_QUALIFY_SPAN + 1, a power of two
    Probes         \* POKE and PING frames that may arrive

QualifyNos == QualifyBase .. QualifyBase + QualifySpan - 1

ASSUME PbxAssumption ==
    /\ QualifyBase \in Nat /\ QualifySpan \in Nat \ {0}
    /\ CALLNO_KEEPALIVE < CallBase /\ CallTop < QualifyBase
    /\ Probes \subseteq Frames({"POKE", "PING"}, {0})

VARIABLES qualifyNext, qualifyOut

qualifyVars == <<qualifyNext, qualifyOut>>
pbxVars == <<regVars, callVars, qualifyVars>>

QualifyDrain == qualifyOut' = {} /\ UNCHANGED qualifyNext

PbxInit ==
    /\ RegInit
    /\ CallInit
    /\ qualifyNext = QualifyBase
    /\ qualifyOut = {}

-----------------------------------------------------------------------------
(* handle_input: the first of these that applies takes the datagram.       *)

Datagrams == Probes \cup RegFrames \cup CallFrames \cup NewFrames

\* 1. A probe outside any leg: PONG from a rotating call number.
IsProbe(f) == f.kind \in {"POKE", "PING"} /\ f.dst = 0

\* Faulty: the rotation leaves its range.
QualifyBeyond(f) ==
    /\ IsProbe(f)
    /\ qualifyOut' =
        {[FrameOf(NewLeg(qualifyNext), "PONG", f.ts, {})
            EXCEPT !.dst = f.src, !.iseq = Succ(f.oseq)]}
    /\ qualifyNext' = QualifyBase + ((qualifyNext - QualifyBase + 1) % (QualifySpan + 1))
    /\ RegDrain /\ CallDrain

\* Faulty: the PONG is built on the leg of the registration.
QualifyOnReg(f) ==
    /\ IsProbe(f)
    /\ qualifyOut' = {[FrameOf(reg, "PONG", f.ts, {}) EXCEPT !.dst = f.src]}
    /\ reg' = Advance(reg)
    /\ UNCHANGED <<regState, calltoken, refresh, nextReg, nextKeepalive, qualifyNext>>
    /\ regOut' = {} /\ regEvents' = {}
    /\ CallDrain

Qualify(f) ==
    /\ IsProbe(f)
    /\ qualifyOut' =
        {[FrameOf(NewLeg(qualifyNext), "PONG", f.ts, {})
            EXCEPT !.dst = f.src, !.iseq = Succ(f.oseq)]}
    /\ qualifyNext' = QualifyBase + ((qualifyNext - QualifyBase + 1) % QualifySpan)
    /\ RegDrain /\ CallDrain

\* 2. to 4. A NEW has no destination yet; any other frame goes to the leg its
\* destination names.  RegInput and CallInput look for a token first; that this
\* comes before the test for NEW matters to no frame with destination 0.
ToReg(f) ==
    /\ f \in RegFrames /\ f.dst = CALLNO_REG
    /\ RegInput(f)
    /\ CallDrain /\ QualifyDrain

ToCall(f) ==
    /\ f \in CallFrames /\ f.dst \in DOMAIN calls
    /\ CallInput(f)
    /\ RegDrain /\ QualifyDrain

ToIncoming(f) ==
    /\ f \in NewFrames /\ f.kind = "NEW"
    /\ OnIncomingNew(f)
    /\ RegDrain /\ QualifyDrain

\* 5. Outside any leg: nothing.
HandleInput(f) ==
    \/ Qualify(f)
    \/ ~IsProbe(f) /\ (ToReg(f) \/ ToCall(f) \/ ToIncoming(f))

HandleMiniFrame ==
    /\ \E r \in DOMAIN remoteIndex :
        remoteIndex[r] \in DOMAIN calls /\ OnMiniFrame(r)
    /\ RegDrain /\ QualifyDrain

HandleCommand ==
    /\ Dial \/ \E n \in DOMAIN calls : CallCommand(n)
    /\ RegDrain /\ QualifyDrain

\* Faulty: the calls go with the registration.
HandleTimeoutDropsCalls ==
    /\ RegHandleTimeout /\ QualifyDrain
    /\ IF "RegisterLost" \in regEvents'
       THEN /\ calls' = Nothing /\ remoteIndex' = Nothing
            /\ callOut' = {} /\ callEvents' = {}
            /\ UNCHANGED callnoNext
       ELSE CallHandleTimeout

HandleTimeout == RegHandleTimeout /\ CallHandleTimeout /\ QualifyDrain

Tick == RegTick /\ CallTick /\ QualifyDrain

PbxNext ==
    \/ \E f \in Datagrams : HandleInput(f)
    \/ HandleMiniFrame
    \/ HandleCommand
    \/ HandleTimeout
    \/ Tick

PbxSpec == PbxInit /\ [][PbxNext]_pbxVars

PbxFairSpec == PbxSpec /\ WF_pbxVars(HandleTimeout) /\ WF_pbxVars(Tick)

-----------------------------------------------------------------------------
(* Properties                                                              *)

\* The source call number of whatever the client sends says which part sent
\* it: the registration, the keepalive, a live or just dropped call, or the
\* rotating qualify range; rotation and wrap-round never leave their range
\* (client.rs:32-39).
Sources(out) == {f.src : f \in {g \in out : "src" \in DOMAIN g}}

PbxTypeOK ==
    /\ qualifyNext \in QualifyNos
    /\ Sources(qualifyOut) \subseteq QualifyNos
    /\ Sources(callOut) \subseteq CallNos
    /\ Sources(regOut) \subseteq RegLocals

\* The windows of the client, by the call number of their leg.
Window(n) ==
    IF n = CALLNO_REG THEN reg.outstanding
    ELSE IF n \in DOMAIN calls THEN calls[n].leg.outstanding ELSE {}

Unconfirmed(n) == {o.frame : o \in Window(n)}

OutOfTime(n) == \E o \in Window(n) : o.due = 0 /\ o.tries >= RetxMax

Loses(n) == \E o \in Window(n) : o.frame \notin Unconfirmed(n)'

\* The isolation that two_concurrent_calls_have_isolated_reliability tests for
\* one ACK: a step takes frames from the windows of two legs only if both had a
\* frame whose retransmissions were used up.
WindowsIsolated ==
    [][\A m, n \in CallNos \cup {CALLNO_REG} :
        m # n /\ Loses(m) /\ Loses(n) => OutOfTime(m) /\ OutOfTime(n)]_pbxVars

\* poll_timeout never sleeps past a timer: when it lies ahead, a call of
\* handle_timeout would send nothing, end nothing and start nothing.
PollTimeout ==
    LET timers == {RegPollTimeout} \cup
                  UNION {{o.due : o \in calls[n].leg.outstanding} : n \in DOMAIN calls}
    IN CHOOSE t \in timers : \A u \in timers : t <= u

NoTimerMissed ==
    PollTimeout > 0 =>
        /\ ~RegStartDue /\ ~KeepaliveDue
        /\ \A n \in CallNos \cup {CALLNO_REG} : \A o \in Window(n) : o.due > 0
=============================================================================
