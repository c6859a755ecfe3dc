------------------------- MODULE RegistrationProofs -------------------------
(***************************************************************************)
(* The invariants of the registration, for every choice of the timers, the *)
(* retransmission limits and the frames that arrive.  Their conjunction is *)
(* inductive: type correctness gives the shape of the window, from which   *)
(* follows that retransmission keeps the elements of a request.  The same  *)
(* lemmas carry them over to the system with a registrar and a network,    *)
(* where the distance of two attempts is proved as well.                   *)
(***************************************************************************)
EXTENDS RegistrationSystem, LegProofs

RegInv == RegTypeOK /\ RetryScheduled /\ WindowCarriesToken

RegLegs == Legs(RegKinds, RegLocals)
RegMsgs == Frames(RegKinds, RegLocals)

\* What arrives is a frame whose source the far end chose.
RegArrivals == {f \in RegMsgs : f.src \in RemoteNos}

LEMMA RegFrameType ==
    ASSUME NEW f \in RegArrivals
    PROVE  f.src \in RemoteNos /\ f.oseq \in SeqNo /\ f.ies \subseteq IeKinds
BY DEF RegArrivals, RegMsgs, Frames

LEMMA RegFramesArrive == RegFrames \subseteq RegArrivals
BY RegAssumption DEF RegArrivals, RegMsgs

\* The information elements of a REGREQ are known ones.
LEMMA RegIesType ==
    ASSUME NEW token
    PROVE  RegIes(token) \subseteq IeKinds /\ (token => "TOKEN" \in RegIes(token))
BY DEF RegIes, IeKinds

\* A window that only lost frames, or whose frames are those of another one,
\* carries the token as that one did.
LEMMA TokenKept ==
    ASSUME WindowCarriesToken, UNCHANGED calltoken,
           \A o \in reg'.outstanding : \E p \in reg.outstanding : o.frame = p.frame
    PROVE  WindowCarriesToken'
BY DEF WindowCarriesToken

\* start_registration and resend_reg_with_token leave one request in flight,
\* which carries the token that is now held.
LEMMA FreshRegReqType ==
    ASSUME RegInv, NEW token \in BOOLEAN, FreshRegReq(token)
    PROVE  /\ reg' \in RegLegs /\ reg'.local = CALLNO_REG
           /\ regOut' \subseteq RegMsgs /\ calltoken' \in BOOLEAN
           /\ WindowCarriesToken'
<1> DEFINE fresh == ResetLeg(reg)
<1>1. PICK ts \in Ts :
        /\ reg' = SendReliable(fresh, "REGREQ", ts, RegIes(token))
        /\ regOut' = {FrameOf(fresh, "REGREQ", ts, RegIes(token))}
        /\ calltoken' = token
  BY DEF FreshRegReq
<1>2. fresh \in RegLegs /\ fresh.local = CALLNO_REG /\ fresh.outstanding = {}
  BY ResetLegType DEF RegInv, RegTypeOK, RegLegs
<1>3. "REGREQ" \in RegKinds
  BY DEF RegKinds
<1>4. RegIes(token) \subseteq IeKinds /\ (token => "TOKEN" \in RegIes(token))
  BY RegIesType
<1> HIDE DEF fresh
<1>5. /\ reg' \in RegLegs /\ reg'.local = fresh.local
      /\ \A o \in reg'.outstanding : o \in fresh.outstanding \/ o.frame.ies = RegIes(token)
  BY <1>1, <1>2, <1>3, <1>4, SendReliableType DEF RegLegs
<1>6. regOut' \subseteq RegMsgs
  BY <1>1, <1>2, <1>3, <1>4, FrameOfType DEF RegLegs, RegMsgs
<1>7. WindowCarriesToken'
  BY <1>1, <1>2, <1>4, <1>5 DEF WindowCarriesToken
<1> QED
  BY <1>1, <1>2, <1>5, <1>6, <1>7

\* A new client is about to register, with no token and an empty window.
LEMMA RegInitInv == RegInit => RegInv
<1> SUFFICES ASSUME RegInit PROVE RegInv
  OBVIOUS
<1>1. reg \in Legs(RegKinds, RegLocals) /\ reg.local = CALLNO_REG
  BY NewLegType DEF RegInit, RegLocals
<1>2. nextReg \in Nat /\ nextKeepalive \in 0 .. KeepaliveEvery /\ nextReg <= RegGuard
  BY RegAssumption DEF RegInit
<1> QED
  BY <1>1, <1>2, Zenon DEF RegInit, RegInv, RegTypeOK, RetryScheduled, WindowCarriesToken

\* Starting to register forgets the token and puts one REGREQ in the window.
LEMMA StartInv == ASSUME RegInv, StartRegistration PROVE RegInv'
<1>1. /\ reg' \in RegLegs /\ reg'.local = CALLNO_REG
      /\ regOut' \subseteq RegMsgs /\ calltoken' \in BOOLEAN
      /\ WindowCarriesToken'
  BY FreshRegReqType DEF StartRegistration
<1>2. nextReg' \in Nat /\ nextReg' <= RegGuard
  BY RegAssumption DEF StartRegistration
<1>3. /\ regState' = "Registering" /\ regEvents' = {}
      /\ UNCHANGED <<refresh, nextKeepalive>>
  BY DEF StartRegistration
<1> QED
  BY <1>1, <1>2, <1>3, Zenon
  DEF RegInv, RegTypeOK, RetryScheduled, RegLegs, RegMsgs

\* The keepalive probe is a frame of its own call number.
LEMMA PokeType == ASSUME NEW ts \in Ts PROVE Poke(ts) \in RegMsgs
<1>1. NewLeg(CALLNO_KEEPALIVE) \in RegLegs
  BY NewLegType DEF RegLegs, RegLocals
<1>2. "POKE" \in RegKinds
  BY DEF RegKinds
<1> QED
  BY <1>1, <1>2, FrameOfType DEF Poke, RegLegs, RegMsgs

\* The keepalive and the retransmission pass keep the invariant; a window that
\* dies leaves the retry scheduled.
LEMMA TimersInv == ASSUME RegInv, RegTimers PROVE RegInv'
<1>1. reg \in RegLegs /\ reg.local = CALLNO_REG
  BY DEF RegInv, RegTypeOK, RegLegs
<1>2. regOut' \subseteq RegMsgs
  <2>1. ResentFrames(reg) \subseteq RegMsgs
    BY <1>1, ResentFramesType DEF RegLegs, RegMsgs
  <2>2. PICK ts \in Ts :
          regOut' = ResentFrames(reg) \cup (IF KeepaliveDue THEN {Poke(ts)} ELSE {})
    BY DEF RegTimers
  <2> QED
    BY <2>1, <2>2, PokeType
<1>3. nextKeepalive' \in 0 .. KeepaliveEvery
  BY RegAssumption DEF RegTimers, RegInv, RegTypeOK
<1>4. UNCHANGED <<calltoken, refresh>>
  BY DEF RegTimers
<1>5. CASE Exhausted(reg)
  <2>1. /\ reg' = [reg EXCEPT !.outstanding = {}] /\ regState' = "Idle"
        /\ nextReg' = RegRetry /\ regEvents' = {"RegisterLost"}
    BY <1>5 DEF RegTimers
  <2>2. reg' \in RegLegs /\ reg'.local = CALLNO_REG /\ reg'.outstanding = {}
    BY <1>1, <2>1 DEF RegLegs, Legs
  <2>3. nextReg' \in Nat /\ nextReg' <= RegGuard
    BY <2>1, RegAssumption
  <2>4. WindowCarriesToken'
    BY <2>2 DEF WindowCarriesToken
  <2> QED
    BY <1>2, <1>3, <1>4, <2>1, <2>2, <2>3, <2>4, Zenon
    DEF RegInv, RegTypeOK, RetryScheduled, RegLegs, RegMsgs, RegEventKinds
<1>6. CASE ~Exhausted(reg)
  <2>1. reg' = RetransmitLeg(reg) /\ regEvents' = {} /\ UNCHANGED <<regState, nextReg>>
    BY <1>6 DEF RegTimers
  <2>2. /\ reg' \in RegLegs /\ reg'.local = CALLNO_REG
        /\ \A o \in reg'.outstanding : \E p \in reg.outstanding : o.frame = p.frame
    BY <1>1, <2>1, RetransmitLegType DEF RegLegs
  <2>3. WindowCarriesToken'
    BY <1>4, <2>2, TokenKept DEF RegInv
  <2> QED
    BY <1>2, <1>3, <1>4, <2>1, <2>2, <2>3, Zenon
    DEF RegInv, RegTypeOK, RetryScheduled, RegLegs, RegMsgs
<1> QED
  BY <1>5, <1>6

\* Time brings deadlines and timers closer and touches no frame.
LEMMA TickInv == ASSUME RegInv, RegTick PROVE RegInv'
<1>1. reg' = TickLeg(reg) /\ regOut' = {} /\ regEvents' = {}
      /\ UNCHANGED <<regState, calltoken, refresh>>
  BY DEF RegTick
<1>2. /\ reg' \in RegLegs /\ reg'.local = CALLNO_REG
      /\ \A o \in reg'.outstanding : \E p \in reg.outstanding : o.frame = p.frame
  BY <1>1, TickLegType DEF RegInv, RegTypeOK, RegLegs
<1>3. WindowCarriesToken'
  BY <1>1, <1>2, TokenKept DEF RegInv
<1>4. nextReg' \in Nat /\ nextReg' <= nextReg
  BY DEF RegTick, Closer, RegInv, RegTypeOK
<1>5. nextKeepalive' \in 0 .. KeepaliveEvery
  BY RegAssumption DEF RegTick, Closer, RegInv, RegTypeOK
<1>6. RetryScheduled'
  BY <1>1, <1>4, RegAssumption DEF RetryScheduled, RegInv, RegTypeOK
<1> QED
  BY <1>1, <1>2, <1>3, <1>4, <1>5, <1>6, Zenon DEF RegInv, RegTypeOK, RegLegs

-----------------------------------------------------------------------------
(* Frames                                                                  *)

\* The REGREQ sent again with its token is the window's only frame.
LEMMA TokenInv ==
    ASSUME RegInv, NEW f \in RegArrivals, ResendRegWithToken(f)
    PROVE  RegInv'
<1>1. /\ reg' \in RegLegs /\ reg'.local = CALLNO_REG
      /\ regOut' \subseteq RegMsgs /\ calltoken' \in BOOLEAN
      /\ WindowCarriesToken'
  BY FreshRegReqType DEF ResendRegWithToken
<1>2. regEvents' = {} /\ UNCHANGED <<regState, refresh, nextReg, nextKeepalive>>
  BY DEF ResendRegWithToken
<1> QED
  BY <1>1, <1>2, Zenon
  DEF RegInv, RegTypeOK, RetryScheduled, RegLegs, RegMsgs

\* The prologue of on_reg_frame.
LEMMA RegReceive ==
    ASSUME RegInv, NEW f \in RegArrivals
    PROVE  /\ Receive(reg, f) \in RegLegs /\ Receive(reg, f).local = CALLNO_REG
           /\ Receive(reg, f).outstanding \subseteq reg.outstanding
BY RegFrameType, ReceiveType DEF RegInv, RegTypeOK, RegLegs

\* A REGAUTH that is answered puts a REGREQ with the token in the window.
LEMMA AuthInv ==
    ASSUME RegInv, NEW f \in RegArrivals, OnRegAuth(f)
    PROVE  RegInv'
<1> DEFINE leg == Receive(reg, f)
           ies == RegIes(calltoken) \cup {"MD5"}
<1>1. /\ leg \in RegLegs /\ leg.local = CALLNO_REG
      /\ leg.outstanding \subseteq reg.outstanding
  BY RegReceive
<1>2. ies \subseteq IeKinds /\ (calltoken => "TOKEN" \in ies)
  BY RegIesType DEF IeKinds
<1>3. /\ regEvents' = {}
      /\ UNCHANGED <<regState, calltoken, refresh, nextReg, nextKeepalive>>
  BY DEF OnRegAuth
<1>4. \/ \E ts \in Ts :
            /\ reg' = SendReliable(leg, "REGREQ", ts, ies)
            /\ regOut' = {FrameOf(leg, "REGREQ", ts, ies)}
      \/ reg' = leg /\ regOut' = {}
  BY DEF OnRegAuth
<1> HIDE DEF leg, ies
<1>5. /\ reg' \in RegLegs /\ reg'.local = CALLNO_REG /\ regOut' \subseteq RegMsgs
      /\ \A o \in reg'.outstanding : o \in leg.outstanding \/ o.frame.ies = ies
  <2>1. CASE reg' = leg /\ regOut' = {}
    BY <1>1, <2>1
  <2>2. ASSUME NEW ts \in Ts, reg' = SendReliable(leg, "REGREQ", ts, ies),
               regOut' = {FrameOf(leg, "REGREQ", ts, ies)}
        PROVE  /\ reg' \in RegLegs /\ reg'.local = CALLNO_REG /\ regOut' \subseteq RegMsgs
               /\ \A o \in reg'.outstanding : o \in leg.outstanding \/ o.frame.ies = ies
    <3>1. "REGREQ" \in RegKinds
      BY DEF RegKinds
    <3>2. /\ reg' \in RegLegs /\ reg'.local = CALLNO_REG
          /\ \A o \in reg'.outstanding : o \in leg.outstanding \/ o.frame.ies = ies
      BY <1>1, <1>2, <2>2, <3>1, SendReliableType DEF RegLegs
    <3>3. regOut' \subseteq RegMsgs
      BY <1>1, <1>2, <2>2, <3>1, FrameOfType DEF RegLegs, RegMsgs
    <3> QED
      BY <3>2, <3>3
  <2> QED
    BY <1>4, <2>1, <2>2
<1>6. WindowCarriesToken'
  BY <1>1, <1>2, <1>3, <1>5 DEF WindowCarriesToken, RegInv
<1> QED
  BY <1>3, <1>5, <1>6, Zenon
  DEF RegInv, RegTypeOK, RetryScheduled, RegLegs, RegMsgs

\* An acknowledged frame: REGACK and REGREJ.
LEMMA AcknowledgedType ==
    ASSUME RegInv, NEW f \in RegArrivals, reg' = Receive(reg, f),
           \E ts \in Ts : regOut' = {AckFrame(reg', ts)}
    PROVE  /\ reg' \in RegLegs /\ reg'.local = CALLNO_REG /\ regOut' \subseteq RegMsgs
           /\ \A o \in reg'.outstanding : \E p \in reg.outstanding : o.frame = p.frame
<1>1. /\ reg' \in RegLegs /\ reg'.local = CALLNO_REG
      /\ reg'.outstanding \subseteq reg.outstanding
  BY RegReceive
<1>2. PICK ts \in Ts : regOut' = {FrameOf(reg', "ACK", ts, {})}
  BY DEF AckFrame
<1>3. "ACK" \in RegKinds /\ {} \subseteq IeKinds
  BY DEF RegKinds
<1>4. FrameOf(reg', "ACK", ts, {}) \in RegMsgs
  BY <1>1, <1>3, FrameOfType DEF RegLegs, RegMsgs
<1> QED
  BY <1>1, <1>2, <1>4

\* A REGACK makes the client Registered and schedules the refresh.
LEMMA AckInv ==
    ASSUME RegInv, NEW f \in RegArrivals, OnRegAck(f)
    PROVE  RegInv'
<1>1. /\ reg' \in RegLegs /\ reg'.local = CALLNO_REG /\ regOut' \subseteq RegMsgs
      /\ \A o \in reg'.outstanding : \E p \in reg.outstanding : o.frame = p.frame
  BY AcknowledgedType DEF OnRegAck
<1>2. PICK rf \in IF "REFRESH" \in f.ies THEN Refreshes ELSE {refresh} :
        refresh' = rf /\ nextReg' = ReRegisterIn(rf)
  BY DEF OnRegAck
<1>3. refresh' \in Refreshes \cup {CfgRefresh}
  BY <1>2 DEF RegInv, RegTypeOK
<1>4. nextReg' \in Nat
  BY <1>2, <1>3, RegAssumption DEF ReRegisterIn
<1>5. /\ regState' = "Registered" /\ nextKeepalive' = KeepaliveEvery
      /\ regEvents' = {"Registered"} /\ UNCHANGED calltoken
  BY DEF OnRegAck
<1>6. nextKeepalive' \in 0 .. KeepaliveEvery
  BY <1>5, RegAssumption
<1>7. WindowCarriesToken'
  BY <1>1, <1>5, TokenKept DEF RegInv
<1> QED
  BY <1>1, <1>3, <1>4, <1>5, <1>6, <1>7
  DEF RegInv, RegTypeOK, RetryScheduled, RegLegs, RegMsgs, RegEventKinds

\* A REGREJ clears the token and schedules the retry.
LEMMA RejInv ==
    ASSUME RegInv, NEW f \in RegArrivals, OnRegRej(f)
    PROVE  RegInv'
<1>1. reg' \in RegLegs /\ reg'.local = CALLNO_REG /\ regOut' \subseteq RegMsgs
  BY AcknowledgedType DEF OnRegRej
<1>2. nextReg' \in Nat /\ nextReg' <= RegGuard
  BY RegAssumption DEF OnRegRej
<1>3. /\ regState' = "Idle" /\ calltoken' = FALSE /\ regEvents' = {"RegisterLost"}
      /\ UNCHANGED <<refresh, nextKeepalive>>
  BY DEF OnRegRej
<1>4. WindowCarriesToken'
  BY <1>3 DEF WindowCarriesToken
<1> QED
  BY <1>1, <1>2, <1>3, <1>4, Zenon
  DEF RegInv, RegTypeOK, RetryScheduled, RegLegs, RegMsgs, RegEventKinds

\* Frames that registration ignores change the leg and nothing else.
LEMMA OtherInv ==
    ASSUME RegInv, NEW f \in RegArrivals, OnRegOther(f)
    PROVE  RegInv'
<1>1. /\ reg' = Receive(reg, f) /\ regOut' = {} /\ regEvents' = {}
      /\ UNCHANGED <<regState, calltoken, refresh, nextReg, nextKeepalive>>
  BY DEF OnRegOther
<1>2. reg' \in RegLegs /\ reg'.local = CALLNO_REG
      /\ reg'.outstanding \subseteq reg.outstanding
  BY <1>1, RegReceive
<1>3. WindowCarriesToken'
  BY <1>1, <1>2, TokenKept DEF RegInv
<1> QED
  BY <1>1, <1>2, <1>3, Zenon
  DEF RegInv, RegTypeOK, RetryScheduled, RegLegs

-----------------------------------------------------------------------------
\* Whatever arrives keeps the invariant.
LEMMA RegInputInv == ASSUME RegInv, NEW f \in RegArrivals, RegInput(f) PROVE RegInv'
BY TokenInv, AuthInv, AckInv, RejInv, OtherInv DEF RegInput

\* The conjunction of the three invariants is inductive.
LEMMA RegStep == RegInv /\ [RegNext]_regVars => RegInv'
<1> SUFFICES ASSUME RegInv, [RegNext]_regVars PROVE RegInv'
  OBVIOUS
<1>1. CASE RegHandleTimeout
  BY <1>1, StartInv, TimersInv DEF RegHandleTimeout
<1>2. CASE RegTick
  BY <1>2, TickInv
<1>3. CASE RegDrain
  BY <1>3, Zenon
  DEF RegDrain, RegInv, RegTypeOK, RetryScheduled, WindowCarriesToken
<1>4. ASSUME NEW f \in RegFrames, RegInput(f) PROVE RegInv'
  BY <1>4, RegFramesArrive, RegInputInv
<1>5. CASE UNCHANGED regVars
  BY <1>5, Zenon
  DEF regVars, RegInv, RegTypeOK, RetryScheduled, WindowCarriesToken
<1> QED
  BY <1>1, <1>2, <1>3, <1>4, <1>5 DEF RegNext

\* The inductive invariant holds in every reachable state of registration.
THEOREM RegInvariant == RegSpec => []RegInv
BY RegInitInv, RegStep, PTL DEF RegSpec

\* The leg, the timers and what is sent keep their types, whatever arrives.
THEOREM RegTypeCorrect == RegSpec => []RegTypeOK
BY RegInvariant, PTL DEF RegInv

\* A client that is not registered tries again within REG_GUARD: no order of
\* REGREJ, REGACK, give-up and restart postpones its next attempt further.
THEOREM RetryAlwaysScheduled == RegSpec => []RetryScheduled
BY RegInvariant, PTL DEF RegInv

\* No request without the call token is in flight while the token is held.
THEOREM TokenAlwaysCarried == RegSpec => []WindowCarriesToken
BY RegInvariant, PTL DEF RegInv
-----------------------------------------------------------------------------
(* Who sends                                                               *)

\* The window of the registration holds its own frames, and what it sends comes
\* from its number or from the one of the keepalive.
RegSources == OwnFrames(reg) /\ From(regOut, RegLocals)

\* A fresh REGREQ is alone in its window and comes from the registration.
LEMMA FreshRegReqSources ==
    ASSUME RegInv, NEW token \in BOOLEAN, FreshRegReq(token)
    PROVE  RegSources'
<1> DEFINE fresh == ResetLeg(reg)
<1>1. PICK ts \in Ts :
        /\ reg' = SendReliable(fresh, "REGREQ", ts, RegIes(token))
        /\ regOut' = {FrameOf(fresh, "REGREQ", ts, RegIes(token))}
  BY DEF FreshRegReq
<1>2. fresh \in RegLegs /\ fresh.local = CALLNO_REG /\ OwnFrames(fresh)
  BY ResetLegType DEF RegInv, RegTypeOK, RegLegs, OwnFrames
<1>3. "REGREQ" \in RegKinds /\ RegIes(token) \subseteq IeKinds
  BY RegIesType DEF RegKinds
<1>4. CALLNO_REG \in RegLocals
  BY DEF RegLocals
<1> HIDE DEF fresh
<1>5. OwnFrames(reg')
  BY <1>1, <1>2, <1>3, SendReliableOwn DEF RegLegs
<1>6. From(regOut', RegLocals)
  BY <1>1, <1>2, <1>4, BuiltFrom
<1>7. OwnFrames(reg)'
  BY <1>5 DEF OwnFrames
<1>8. From(regOut, RegLocals)'
  BY <1>6 DEF From
<1> QED
  BY <1>7, <1>8 DEF RegSources

\* A leg whose frames were in its window before, with what it sends.
LEMMA RegSourcesKept ==
    ASSUME RegSources, reg'.local = reg.local, From(regOut', RegLocals),
           \A o \in reg'.outstanding : \E p \in reg.outstanding : o.frame = p.frame
    PROVE  RegSources'
<1>1. OwnFrames(reg')
  BY OwnKept DEF RegSources
<1> QED
  BY <1>1 DEF RegSources, OwnFrames, From

\* The timers of the registration send its own frames again, and POKEs.
LEMMA TimersSources == ASSUME RegInv, RegSources, RegTimers PROVE RegSources'
<1>1. reg \in RegLegs /\ reg.local = CALLNO_REG /\ CALLNO_REG \in RegLocals
  BY DEF RegInv, RegTypeOK, RegLegs, RegLocals
<1>2. From(regOut', RegLocals)
  <2>1. PICK ts \in Ts :
          regOut' = ResentFrames(reg) \cup (IF KeepaliveDue THEN {Poke(ts)} ELSE {})
    BY DEF RegTimers
  <2>2. From(ResentFrames(reg), RegLocals)
    BY <1>1, ResentFrom DEF RegSources, RegLegs
  <2>3. From({Poke(ts)}, RegLocals)
    <3>1. NewLeg(CALLNO_KEEPALIVE).local \in RegLocals
      BY DEF NewLeg, RegLocals
    <3> QED
      BY <3>1, BuiltFrom DEF Poke
  <2> QED
    BY <2>1, <2>2, <2>3 DEF From
<1>3. reg'.local = reg.local
      /\ \A o \in reg'.outstanding : \E p \in reg.outstanding : o.frame = p.frame
  <2>1. CASE reg' = [reg EXCEPT !.outstanding = {}]
    BY <1>1, <2>1 DEF RegLegs, Legs
  <2>2. CASE reg' = RetransmitLeg(reg)
    BY <1>1, <2>2, RetransmitLegType DEF RegLegs
  <2> QED
    BY <2>1, <2>2 DEF RegTimers
<1> QED
  BY <1>2, <1>3, RegSourcesKept

\* A frame that arrives changes no source; the answer is the registration's.
LEMMA RegInputSources ==
    ASSUME RegInv, RegSources, NEW f \in RegArrivals, RegInput(f)
    PROVE  RegSources'
<1> DEFINE leg == Receive(reg, f)
<1>1. /\ leg \in RegLegs /\ leg.local = CALLNO_REG
      /\ leg.outstanding \subseteq reg.outstanding
  BY RegReceive
<1>2. reg.local = CALLNO_REG /\ CALLNO_REG \in RegLocals
  BY DEF RegInv, RegTypeOK, RegLocals
<1> HIDE DEF leg
<1>3. CASE ResendRegWithToken(f)
  BY <1>3, FreshRegReqSources DEF ResendRegWithToken
<1>4. CASE OnRegAuth(f)
  <2> DEFINE ies == RegIes(calltoken) \cup {"MD5"}
  <2>1. "REGREQ" \in RegKinds /\ ies \subseteq IeKinds
    BY RegIesType DEF RegKinds, IeKinds
  <2>2. \/ \E ts \in Ts :
              /\ reg' = SendReliable(leg, "REGREQ", ts, ies)
              /\ regOut' = {FrameOf(leg, "REGREQ", ts, ies)}
        \/ reg' = leg /\ regOut' = {}
    BY <1>4 DEF OnRegAuth, leg
  <2> HIDE DEF ies
  <2>3. CASE reg' = leg /\ regOut' = {}
    BY <1>1, <1>2, <2>3, RegSourcesKept DEF From
  <2>4. ASSUME NEW ts \in Ts, reg' = SendReliable(leg, "REGREQ", ts, ies),
               regOut' = {FrameOf(leg, "REGREQ", ts, ies)}
        PROVE  RegSources'
    <3>1. OwnFrames(leg)
      BY <1>1, <1>2 DEF RegSources, OwnFrames
    <3>2. OwnFrames(reg')
      BY <1>1, <2>1, <2>4, <3>1, SendReliableOwn DEF RegLegs
    <3>3. From(regOut', RegLocals)
      BY <1>1, <1>2, <2>4, BuiltFrom
    <3> QED
      BY <3>2, <3>3 DEF RegSources, OwnFrames, From
  <2> QED
    BY <2>2, <2>3, <2>4
<1>5. CASE OnRegAck(f) \/ OnRegRej(f)
  <2>1. reg' = leg /\ \E ts \in Ts : regOut' = {FrameOf(reg', "ACK", ts, {})}
    BY <1>5 DEF OnRegAck, OnRegRej, AckFrame, leg
  <2>2. From(regOut', RegLocals)
    BY <1>1, <1>2, <2>1, BuiltFrom
  <2> QED
    BY <1>1, <1>2, <2>1, <2>2, RegSourcesKept
<1>6. CASE OnRegOther(f)
  BY <1>1, <1>2, <1>6, RegSourcesKept DEF OnRegOther, From, leg
<1> QED
  BY <1>3, <1>4, <1>5, <1>6 DEF RegInput

\* Every step of the registration sends under its own numbers.
LEMMA RegSourcesStep == RegInv /\ RegSources /\ [RegNext]_regVars => RegSources'
<1> SUFFICES ASSUME RegInv, RegSources, [RegNext]_regVars PROVE RegSources'
  OBVIOUS
<1>1. CASE StartRegistration
  BY <1>1, FreshRegReqSources DEF StartRegistration
<1>2. CASE RegTimers
  BY <1>2, TimersSources
<1>3. CASE RegTick
  <2>1. reg'.local = reg.local
        /\ \A o \in reg'.outstanding : \E p \in reg.outstanding : o.frame = p.frame
    BY <1>3, TickLegType DEF RegTick, RegInv, RegTypeOK
  <2> QED
    BY <1>3, <2>1, RegSourcesKept DEF RegTick, From
<1>4. CASE RegDrain
  BY <1>4 DEF RegDrain, RegSources, OwnFrames, From
<1>5. ASSUME NEW f \in RegFrames, RegInput(f) PROVE RegSources'
  BY <1>5, RegFramesArrive, RegInputSources
<1>6. CASE UNCHANGED regVars
  BY <1>6 DEF regVars, RegSources, OwnFrames
<1> QED
  BY <1>1, <1>2, <1>3, <1>4, <1>5, <1>6 DEF RegNext, RegHandleTimeout

\* Whatever arrives, the registration sends under its own two call numbers.
THEOREM RegSourcesInvariant == RegSpec => []RegSources
<1>1. RegInit => RegSources
  BY DEF RegInit, NewLeg, RegSources, OwnFrames, From
<1> QED
  BY <1>1, RegSourcesStep, RegInvariant, PTL DEF RegSpec
-----------------------------------------------------------------------------
(* With a registrar and a network                                          *)

\* What is under way can have been sent; what waits for the client is a frame
\* of the registrar.
OnTheWire == toRegistrar \subseteq RegMsgs /\ toClient \subseteq RegArrivals

SystemInv == RegInv /\ OnTheWire

\* The registrar answers a frame of the client with one it may receive.
LEMMA AnswerArrives ==
    ASSUME NEW f \in RegMsgs
    PROVE  AnswerTo(f) \in RegArrivals
<1>1. /\ f.src \in RegLocals \cup RemoteNos /\ f.ts \in Ts
      /\ f.iseq \in SeqNo /\ Succ(f.oseq) \in SeqNo
  BY LegAssumption DEF RegMsgs, Frames, Succ, SeqNo
<1>2. ASSUME NEW kind \in RegKinds, NEW ies \in SUBSET IeKinds
      PROVE  Reply(f, kind, ies) \in RegArrivals
  BY <1>1, SystemAssumption DEF Reply, RegArrivals, RegMsgs, Frames
<1>3. /\ {"CALLTOKEN", "REGAUTH", "REGACK"} \subseteq RegKinds
      /\ {"TOKEN"} \subseteq IeKinds /\ {"MD5", "CHALLENGE"} \subseteq IeKinds
      /\ {"REFRESH"} \subseteq IeKinds
  BY DEF RegKinds, IeKinds
<1> QED
  BY <1>2, <1>3 DEF AnswerTo

\* Every step of the system leaves the registration as it is or is one of its
\* own, on a frame it may receive.
LEMMA SystemSteps ==
    ASSUME SystemInv, [SystemNext]_systemVars
    PROVE  \/ RegHandleTimeout \/ RegTick \/ UNCHANGED regVars
           \/ \E f \in RegArrivals : RegInput(f)
<1>1. CASE Serve
  BY <1>1 DEF Serve
<1>2. ASSUME NEW f \in toClient, Hear(f) \/ Unheard(f)
      PROVE  UNCHANGED regVars \/ \E g \in RegArrivals : RegInput(g)
  BY <1>2 DEF Hear, Unheard, SystemInv, OnTheWire
<1>3. ASSUME NEW f \in toRegistrar, Respond(f) \/ Ignore(f) \/ Refuse(f)
      PROVE  UNCHANGED regVars
  BY <1>3 DEF Respond, Ignore, Refuse
<1>4. CASE Crash \/ Restart \/ Lose
  BY <1>4 DEF Crash, Restart, Lose
<1>5. CASE Stray
  BY <1>5, RegFramesArrive DEF Stray
<1>6. CASE SystemTick
  BY <1>6 DEF SystemTick
<1>7. CASE UNCHANGED systemVars
  BY <1>7 DEF systemVars
<1> QED
  BY <1>1, <1>2, <1>3, <1>4, <1>5, <1>6, <1>7 DEF SystemNext

\* A step of the registration keeps its invariant.
LEMMA SystemRegInv ==
    ASSUME SystemInv, [SystemNext]_systemVars
    PROVE  RegInv'
<1>1. CASE RegHandleTimeout \/ RegTick
  BY <1>1, StartInv, TimersInv, TickInv DEF RegHandleTimeout, SystemInv
<1>2. CASE UNCHANGED regVars
  BY <1>2, RegStep DEF SystemInv
<1>3. CASE \E f \in RegArrivals : RegInput(f)
  BY <1>3, RegInputInv DEF SystemInv
<1> QED
  BY <1>1, <1>2, <1>3, SystemSteps

\* Nothing but the client and the registrar puts a frame on the wire.
LEMMA SystemWire ==
    ASSUME SystemInv, [SystemNext]_systemVars
    PROVE  OnTheWire'
<1>1. regOut' \subseteq RegMsgs
  BY SystemRegInv DEF RegInv, RegTypeOK, RegMsgs
<1>2. CASE Serve
  BY <1>1, <1>2 DEF Serve, Flush, OnTheWire, SystemInv
<1>3. ASSUME NEW f \in toClient, Hear(f) \/ Unheard(f) PROVE OnTheWire'
  BY <1>1, <1>3 DEF Hear, Unheard, Flush, OnTheWire, SystemInv
<1>4. ASSUME NEW f \in toRegistrar, Respond(f) PROVE OnTheWire'
  BY <1>4, AnswerArrives DEF Respond, OnTheWire, SystemInv
<1>5. ASSUME NEW f \in toRegistrar, Ignore(f) \/ Refuse(f) PROVE OnTheWire'
  BY <1>5 DEF Ignore, Refuse, OnTheWire, SystemInv
<1>6. CASE Crash \/ Restart \/ Lose \/ SystemTick
  BY <1>6 DEF Crash, Restart, Lose, SystemTick, network, OnTheWire, SystemInv
<1>7. CASE Stray
  BY <1>1, <1>7 DEF Stray, Flush, OnTheWire, SystemInv
<1>8. CASE UNCHANGED systemVars
  BY <1>8 DEF systemVars, network, OnTheWire, SystemInv
<1> QED
  BY <1>2, <1>3, <1>4, <1>5, <1>6, <1>7, <1>8 DEF SystemNext

\* With a registrar that crashes and a network that loses, delays and repeats,
\* the registration keeps its types, its next attempt and its token.
THEOREM SystemInvariant == SystemSpec => []SystemInv
<1>1. SystemInit => SystemInv
  BY RegInitInv DEF SystemInit, SystemInv, OnTheWire
<1>2. SystemInv /\ [SystemNext]_systemVars => SystemInv'
  BY SystemRegInv, SystemWire DEF SystemInv
<1> QED
  BY <1>1, <1>2, PTL DEF SystemSpec

-----------------------------------------------------------------------------
(* The distance of two attempts                                            *)

\* The time since the latest attempt and the time until the next one make up
\* the guard, or the shorter refresh that a REGACK granted.
Spaced ==
    /\ sinceStart \in 0 .. RegRetry
    /\ \/ RegRetry <= sinceStart + nextReg
       \/ ReRegisterIn(refresh) <= sinceStart + nextReg

LEMMA ReRegisterNat == ASSUME NEW rf \in Nat PROVE ReRegisterIn(rf) \in Nat
BY DEF ReRegisterIn

\* Whatever arrives leaves the next attempt where it is, or sets it by a
\* refresh or by the guard.
LEMMA InputSpaced ==
    ASSUME RegInv, Spaced, NEW f, RegInput(f), UNCHANGED sinceStart
    PROVE  Spaced'
<1>1. CASE ResendRegWithToken(f) \/ OnRegAuth(f) \/ OnRegOther(f)
  <2>1. UNCHANGED <<refresh, nextReg>>
    BY <1>1 DEF ResendRegWithToken, OnRegAuth, OnRegOther
  <2> QED
    BY <2>1 DEF Spaced, ReRegisterIn
<1>2. CASE OnRegAck(f)
  <2>1. nextReg' = ReRegisterIn(refresh') /\ refresh' \in Nat
    BY <1>2, RegAssumption DEF OnRegAck, RegInv, RegTypeOK
  <2>2. ReRegisterIn(refresh') \in Nat
    BY <2>1, ReRegisterNat
  <2>3. ReRegisterIn(refresh') <= sinceStart' + nextReg'
    BY <2>1, <2>2, RegAssumption DEF Spaced
  <2> QED
    BY <2>3 DEF Spaced, ReRegisterIn
<1>3. CASE OnRegRej(f)
  <2>1. nextReg' = RegRetry
    BY <1>3 DEF OnRegRej
  <2> QED
    BY <2>1, RegAssumption DEF Spaced
<1> QED
  BY <1>1, <1>2, <1>3 DEF RegInput

\* A timeout starts an attempt, which waits for the guard, or leaves the next
\* one where it is, or gives the attempt up and waits for the retry.
LEMMA ServeSpaced == ASSUME RegInv, Spaced, Serve PROVE Spaced'
<1>1. CASE StartRegistration
  <2>1. nextReg' = RegGuard /\ sinceStart' = 0
    BY <1>1 DEF StartRegistration, Serve
  <2> QED
    BY <2>1, RegAssumption DEF Spaced
<1>2. CASE RegTimers
  <2>1. UNCHANGED <<sinceStart, refresh>> /\ (nextReg' = RegRetry \/ UNCHANGED nextReg)
    BY <1>2 DEF RegTimers, Serve
  <2> QED
    BY <2>1, RegAssumption DEF Spaced, ReRegisterIn
<1> QED
  BY <1>1, <1>2 DEF Serve, RegHandleTimeout

\* What a tick takes from the wait it adds to the time gone by.
LEMMA TickSpaced == ASSUME RegInv, Spaced, SystemTick PROVE Spaced'
<1>1. /\ UNCHANGED refresh /\ nextReg' = Closer(nextReg) /\ nextReg \in Nat
      /\ sinceStart' = IF sinceStart < RegRetry THEN sinceStart + 1 ELSE sinceStart
  BY DEF SystemTick, RegTick, RegInv, RegTypeOK
<1>2. ReRegisterIn(refresh') = ReRegisterIn(refresh) /\ ReRegisterIn(refresh) \in Nat
  BY <1>1, ReRegisterNat, RegAssumption DEF RegInv, RegTypeOK
<1>3. sinceStart' \in 0 .. RegRetry /\ nextReg' \in Nat
  BY <1>1, RegAssumption DEF Spaced, Closer
<1>4. CASE sinceStart = RegRetry
  BY <1>1, <1>3, <1>4, RegAssumption DEF Spaced
<1>5. CASE sinceStart < RegRetry
  <2>1. sinceStart + nextReg <= sinceStart' + nextReg'
    BY <1>1, <1>5, RegAssumption DEF Spaced, Closer
  <2>2. sinceStart + nextReg \in Nat /\ sinceStart' + nextReg' \in Nat
    BY <1>1, <1>3, RegAssumption DEF Spaced
  <2>3. \/ RegRetry <= sinceStart' + nextReg'
        \/ ReRegisterIn(refresh') <= sinceStart' + nextReg'
    BY <1>2, <2>1, <2>2, RegAssumption DEF Spaced
  <2> QED
    BY <1>3, <2>3 DEF Spaced
<1> QED
  BY <1>4, <1>5, RegAssumption DEF Spaced

\* The distance is kept by every step of the system.
LEMMA SpacedStep == RegInv /\ Spaced /\ [SystemNext]_systemVars => Spaced'
<1> SUFFICES ASSUME RegInv, Spaced, [SystemNext]_systemVars PROVE Spaced'
  OBVIOUS
<1>1. CASE Serve
  BY <1>1, ServeSpaced
<1>2. ASSUME NEW f \in toClient, Hear(f) PROVE Spaced'
  BY <1>2, InputSpaced DEF Hear
<1>3. CASE Stray
  BY <1>3, InputSpaced DEF Stray
<1>4. CASE SystemTick
  BY <1>4, TickSpaced
<1>5. ASSUME UNCHANGED <<regVars, sinceStart>> PROVE Spaced'
  BY <1>5 DEF regVars, Spaced, ReRegisterIn
<1>6. ASSUME NEW f, Unheard(f) \/ Respond(f) \/ Ignore(f) \/ Refuse(f) PROVE Spaced'
  BY <1>5, <1>6 DEF Unheard, Respond, Ignore, Refuse
<1>7. CASE Crash \/ Restart \/ Lose \/ UNCHANGED systemVars
  BY <1>5, <1>7 DEF Crash, Restart, Lose, systemVars
<1> QED
  BY <1>1, <1>2, <1>3, <1>4, <1>6, <1>7 DEF SystemNext

\* "Anti-spam between REGREQs": whatever the registrar and the network do, two
\* attempts are never closer than REG_RETRY, nor, where a shorter refresh was
\* granted, than that refresh asks for.
THEOREM AttemptsAlwaysSpaced == SystemSpec => AttemptsSpaced
<1>1. SystemInit => Spaced
  BY RegAssumption DEF SystemInit, RegInit, Spaced
<1>2. Spaced /\ RegInv =>
        (StartRegistration =>
            sinceStart = RegRetry \/ sinceStart >= ReRegisterIn(refresh))
  BY RegAssumption DEF StartRegistration, RegStartDue, Spaced, ReRegisterIn, RegInv, RegTypeOK
<1>3. SystemInv => RegInv
  BY DEF SystemInv
<1> QED
  BY <1>1, <1>2, <1>3, SpacedStep, SystemInvariant, PTL DEF SystemSpec, AttemptsSpaced
=============================================================================
