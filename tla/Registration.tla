---------------------------- MODULE Registration ----------------------------
(***************************************************************************)
(* The registration half of PbxClient: the leg with call number 1, its     *)
(* state, the call token and the timers.  Datagrams arrive from an open    *)
(* environment: any frame of RegFrames at any time, so that loss,          *)
(* duplication, delay and reordering are all covered.                      *)
(*                                                                         *)
(* regOut and regEvents are what the latest handler pushed; the drivers    *)
(* empty both queues after every call.                                     *)
(***************************************************************************)
EXTENDS Leg

CONSTANTS
    RegGuard,         \* REG_GUARD
    RegRetry,         \* REG_RETRY
    KeepaliveEvery,   \* KEEPALIVE_EVERY
    CfgRefresh,       \* cfg.refresh
    Refreshes,        \* values of a REFRESH element the registrar may send
    RegFrames         \* frames that may arrive on the registration leg

CALLNO_REG == 1
CALLNO_KEEPALIVE == 2

RegLocals == {CALLNO_REG, CALLNO_KEEPALIVE}
RegKinds == {"REGREQ", "REGAUTH", "REGACK", "REGREJ", "CALLTOKEN", "ACK",
             "POKE", "OTHER"}

\* Faulty: after the refresh instead of before it.
ReRegisterLate(rf) == (rf * 5) \div 4

\* re-register at 80% of the refresh
ReRegisterIn(rf) == (rf * 4) \div 5

ASSUME RegAssumption ==
    /\ RegGuard \in Nat /\ RegRetry \in Nat /\ KeepaliveEvery \in Nat
    /\ RegRetry <= RegGuard
    /\ CfgRefresh \in Nat \ {0}
    /\ Refreshes \subseteq Nat \ {0}
    /\ RegFrames \subseteq Frames(RegKinds, RegLocals)
    /\ \A f \in RegFrames : f.dst = CALLNO_REG /\ f.src \in RemoteNos

VARIABLES
    reg,             \* the leg
    regState,
    calltoken,       \* is a call token held?
    refresh,
    nextReg,         \* ticks until next_reg
    nextKeepalive,   \* ticks until next_keepalive
    regOut,
    regEvents

regVars == <<reg, regState, calltoken, refresh, nextReg, nextKeepalive,
             regOut, regEvents>>

RegEventKinds == {"Registered", "RegisterLost"}

RegTypeOK ==
    /\ reg \in Legs(RegKinds, RegLocals)
    /\ reg.local = CALLNO_REG
    /\ regState \in {"Idle", "Registering", "Registered"}
    /\ calltoken \in BOOLEAN
    /\ refresh \in Refreshes \cup {CfgRefresh}
    /\ nextReg \in Nat
    /\ nextKeepalive \in 0 .. KeepaliveEvery
    /\ regOut \subseteq Frames(RegKinds, RegLocals)
    /\ regEvents \subseteq RegEventKinds

RegInit ==
    /\ reg = NewLeg(CALLNO_REG)
    /\ regState = "Idle"
    /\ calltoken = FALSE
    /\ refresh = CfgRefresh
    /\ nextReg = 0
    /\ nextKeepalive = KeepaliveEvery
    /\ regOut = {}
    /\ regEvents = {}

-----------------------------------------------------------------------------
(* Timers                                                                  *)

\* reg_ies: username, refresh and the token (an empty one if none is held).
RegIes(token) == IF token THEN {"REFRESH", "TOKEN"} ELSE {"REFRESH"}

\* Faulty: the leg is not started over.
FreshRegReqSameLeg(token) ==
    \E ts \in Ts :
        /\ Room(reg, 1)
        /\ reg' = SendReliable(reg, "REGREQ", ts, RegIes(token))
        /\ regOut' = {FrameOf(reg, "REGREQ", ts, RegIes(token))}
        /\ calltoken' = token

\* A fresh REGREQ on a leg started over: the body of start_registration and
\* of resend_reg_with_token.
FreshRegReq(token) ==
    \E ts \in Ts :
        LET fresh == ResetLeg(reg) IN
        /\ reg' = SendReliable(fresh, "REGREQ", ts, RegIes(token))
        /\ regOut' = {FrameOf(fresh, "REGREQ", ts, RegIes(token))}
        /\ calltoken' = token

\* Faulty: next_reg is not looked at.
RegStartDueEarly == reg.outstanding = {}

RegStartDue == reg.outstanding = {} /\ nextReg = 0

StartRegistration ==
    /\ RegStartDue
    /\ FreshRegReq(FALSE)
    /\ regState' = "Registering"
    /\ nextReg' = RegGuard
    /\ regEvents' = {}
    /\ UNCHANGED <<refresh, nextKeepalive>>

KeepaliveDue == regState = "Registered" /\ nextKeepalive = 0

Poke(ts) == FrameOf(NewLeg(CALLNO_KEEPALIVE), "POKE", ts, {})

\* A timeout that starts no registration: the keepalive, then the
\* retransmission pass; the window is given up when a frame is exhausted.
RegTimers ==
    /\ ~RegStartDue
    /\ nextKeepalive' = IF KeepaliveDue THEN KeepaliveEvery ELSE nextKeepalive
    /\ \E ts \in Ts :
        regOut' = ResentFrames(reg) \cup (IF KeepaliveDue THEN {Poke(ts)} ELSE {})
    /\ UNCHANGED <<calltoken, refresh>>
    /\ \/ /\ Exhausted(reg)
          /\ reg' = [reg EXCEPT !.outstanding = {}]
          /\ regState' = "Idle"
          /\ nextReg' = RegRetry
          /\ regEvents' = {"RegisterLost"}
       \/ /\ ~Exhausted(reg)
          /\ reg' = RetransmitLeg(reg)
          /\ regEvents' = {}
          /\ UNCHANGED <<regState, nextReg>>

RegHandleTimeout == StartRegistration \/ RegTimers

RegTick ==
    /\ reg' = TickLeg(reg)
    /\ nextReg' = Closer(nextReg)
    /\ nextKeepalive' = Closer(nextKeepalive)
    /\ regOut' = {}
    /\ regEvents' = {}
    /\ UNCHANGED <<regState, calltoken, refresh>>

-----------------------------------------------------------------------------
(* Frames addressed to the registration leg                                *)

\* A non-empty token is taken once; handle_input tries this before routing.
TakesToken(f) == "TOKEN" \in f.ies /\ ~calltoken

ResendRegWithToken(f) ==
    /\ TakesToken(f)
    /\ FreshRegReq(TRUE)
    /\ regEvents' = {}
    /\ UNCHANGED <<regState, refresh, nextReg, nextKeepalive>>

\* REGAUTH: answered when it offers MD5 and carries a challenge.
OnRegAuth(f) ==
    /\ ~TakesToken(f)
    /\ f.kind = "REGAUTH"
    /\ LET leg == Receive(reg, f)
           ies == RegIes(calltoken) \cup {"MD5"}
       IN IF {"MD5", "CHALLENGE"} \subseteq f.ies
          THEN \E ts \in Ts :
                /\ Room(leg, 1)
                /\ reg' = SendReliable(leg, "REGREQ", ts, ies)
                /\ regOut' = {FrameOf(leg, "REGREQ", ts, ies)}
          ELSE reg' = leg /\ regOut' = {}
    /\ regEvents' = {}
    /\ UNCHANGED <<regState, calltoken, refresh, nextReg, nextKeepalive>>

OnRegAck(f) ==
    /\ ~TakesToken(f)
    /\ f.kind = "REGACK"
    /\ reg' = Receive(reg, f)
    /\ \E rf \in IF "REFRESH" \in f.ies THEN Refreshes ELSE {refresh} :
        /\ refresh' = rf
        /\ nextReg' = ReRegisterIn(rf)
    /\ regState' = "Registered"
    /\ nextKeepalive' = KeepaliveEvery
    /\ \E ts \in Ts : regOut' = {AckFrame(reg', ts)}
    /\ regEvents' = {"Registered"}
    /\ UNCHANGED calltoken

\* Faulty: next_reg keeps the time of the next refresh.
OnRegRejUntimed(f) ==
    /\ ~TakesToken(f)
    /\ f.kind = "REGREJ"
    /\ reg' = Receive(reg, f)
    /\ calltoken' = FALSE
    /\ regState' = "Idle"
    /\ \E ts \in Ts : regOut' = {AckFrame(reg', ts)}
    /\ regEvents' = {"RegisterLost"}
    /\ UNCHANGED <<refresh, nextReg, nextKeepalive>>

OnRegRej(f) ==
    /\ ~TakesToken(f)
    /\ f.kind = "REGREJ"
    /\ reg' = Receive(reg, f)
    /\ calltoken' = FALSE
    /\ regState' = "Idle"
    /\ nextReg' = RegRetry
    /\ \E ts \in Ts : regOut' = {AckFrame(reg', ts)}
    /\ regEvents' = {"RegisterLost"}
    /\ UNCHANGED <<refresh, nextKeepalive>>

\* ACK, CALLTOKEN that is not taken, and what is only logged.
OnRegOther(f) ==
    /\ ~TakesToken(f)
    /\ f.kind \notin {"REGAUTH", "REGACK", "REGREJ"}
    /\ reg' = Receive(reg, f)
    /\ regOut' = {}
    /\ regEvents' = {}
    /\ UNCHANGED <<regState, calltoken, refresh, nextReg, nextKeepalive>>

RegInput(f) ==
    \/ ResendRegWithToken(f)
    \/ OnRegAuth(f)
    \/ OnRegAck(f)
    \/ OnRegRej(f)
    \/ OnRegOther(f)

\* The driver empties the queues: poll_transmit and poll_event.
RegDrain ==
    /\ regOut' = {} /\ regEvents' = {}
    /\ UNCHANGED <<reg, regState, calltoken, refresh, nextReg, nextKeepalive>>

RegNext ==
    \/ RegHandleTimeout
    \/ RegTick
    \/ RegDrain
    \/ \E f \in RegFrames : RegInput(f)

RegSpec == RegInit /\ [][RegNext]_regVars

\* The driver calls handle_timeout again and again, and time passes.
RegFairness == WF_regVars(RegTick) /\ WF_regVars(RegHandleTimeout)

RegFairSpec == RegSpec /\ RegFairness
-----------------------------------------------------------------------------
(* Properties                                                              *)

\* Whatever arrives, a client that is not registered has its next attempt at
\* most REG_GUARD away: start_registration, the REGREJ arm and the give-up of
\* retransmit_reg together leave no state from which it would wait longer
\* (client.rs:98, "the client will retry by itself").
RetryScheduled == regState # "Registered" => nextReg <= RegGuard

\* While a call token is held every request in flight carries it: a request
\* built before the token came (resend_reg_with_token) or after a REGREJ threw
\* it away is never retransmitted next to one that has it.
WindowCarriesToken ==
    calltoken => \A o \in reg.outstanding : "TOKEN" \in o.frame.ies

\* Faulty: the window is left out.
RegPollTimeoutNoWindow ==
    LET timers == {nextReg} \cup (IF regState = "Registered" THEN {nextKeepalive} ELSE {})
    IN CHOOSE t \in timers : \A u \in timers : t <= u

\* poll_timeout, as far as the registration decides it.
RegPollTimeout ==
    LET timers == {nextReg} \cup {o.due : o \in reg.outstanding}
                   \cup (IF regState = "Registered" THEN {nextKeepalive} ELSE {})
    IN CHOOSE t \in timers : \A u \in timers : t <= u

\* client.rs:335, "next instant at which to call handle_timeout": having just
\* been called, it is not asked to be called again at once.
PollTimeoutAhead == [][RegHandleTimeout => RegPollTimeout' > 0]_regVars
=============================================================================
