--------------------------- MODULE PbxClientProofs ---------------------------
(***************************************************************************)
(* The client implements its two halves: projected on the variables of the *)
(* registration every step of the client is a step of Registration, and    *)
(* projected on those of the calls it is a step of CallTable.  The routing *)
(* of handle_input and the joint timers add no behaviour to either, so     *)
(* what is proved of the halves holds of the whole client.                 *)
(*                                                                         *)
(* What only the composition can promise follows: every datagram names the *)
(* part that sent it, poll_timeout covers the timers of all parts, and no  *)
(* step takes frames from two windows unless both ran out of tries.        *)
(***************************************************************************)
EXTENDS PbxClient, RegistrationProofs, CallTableProofs

\* One datagram is at most one half's business.
LEMMA InputSteps ==
    ASSUME NEW f \in Datagrams, HandleInput(f)
    PROVE  RegNext /\ CallNext
<1>1. CASE Qualify(f)
  BY <1>1 DEF Qualify, RegNext, CallNext
<1>2. CASE ToReg(f)
  BY <1>2 DEF ToReg, RegNext, CallNext
<1>3. CASE ToCall(f)
  BY <1>3 DEF ToCall, RegNext, CallNext
<1>4. CASE ToIncoming(f)
  BY <1>4 DEF ToIncoming, RegNext, CallNext
<1> QED
  BY <1>1, <1>2, <1>3, <1>4 DEF HandleInput

\* Every step of the client is one of the registration and one of the calls.
LEMMA PbxSteps == [PbxNext]_pbxVars => [RegNext]_regVars /\ [CallNext]_callVars
<1> SUFFICES ASSUME [PbxNext]_pbxVars PROVE [RegNext]_regVars /\ [CallNext]_callVars
  OBVIOUS
<1>1. ASSUME NEW f \in Datagrams, HandleInput(f) PROVE RegNext /\ CallNext
  BY <1>1, InputSteps
<1>2. CASE HandleMiniFrame
  BY <1>2 DEF HandleMiniFrame, RegNext, CallNext
<1>3. CASE HandleCommand
  BY <1>3 DEF HandleCommand, RegNext, CallNext
<1>4. CASE HandleTimeout
  BY <1>4 DEF HandleTimeout, RegNext, CallNext
<1>5. CASE Tick
  BY <1>5 DEF Tick, RegNext, CallNext
<1>6. CASE UNCHANGED pbxVars
  BY <1>6 DEF pbxVars
<1> QED
  BY <1>1, <1>2, <1>3, <1>4, <1>5, <1>6 DEF PbxNext

\* The client implements the specification of its registration.
THEOREM ImplementsRegistration == PbxSpec => RegSpec
<1>1. PbxInit => RegInit
  BY DEF PbxInit
<1> QED
  BY <1>1, PbxSteps, PTL DEF PbxSpec, RegSpec

\* The client implements the specification of its calls.
THEOREM ImplementsCalls == PbxSpec => CallSpec
<1>1. PbxInit => CallInit
  BY DEF PbxInit
<1> QED
  BY <1>1, PbxSteps, PTL DEF PbxSpec, CallSpec

\* What was proved of the halves is so of the client.
COROLLARY ClientInvariant == PbxSpec => [](RegInv /\ CallInv)
BY ImplementsRegistration, ImplementsCalls, RegInvariant, CallInvariant, PTL
-----------------------------------------------------------------------------
(* A handler of one call                                                   *)

\* Every call's window holds frames of that call only, and what the calls send
\* comes from call numbers of the range.
CallSources ==
    /\ \A n \in DOMAIN calls : OwnFrames(calls[n].leg)
    /\ From(callOut, CallNos)

\* A step leaves the legs of all calls but k as they are; what it makes of the
\* leg of k, and what it sends, comes from where it should.
OneCall(k) ==
    /\ k \in CallNos
    /\ DOMAIN calls' \subseteq DOMAIN calls \cup {k}
    /\ \A n \in DOMAIN calls \ {k} : n \in DOMAIN calls' /\ calls'[n].leg = calls[n].leg
    /\ k \in DOMAIN calls' => OwnFrames(calls'[k].leg)
    /\ From(callOut', CallNos)

\* Such a step keeps the sources.
LEMMA OneCallSources ==
    ASSUME CallSources, NEW k, OneCall(k)
    PROVE  CallSources'
<1>1. ASSUME NEW n \in DOMAIN calls' PROVE OwnFrames(calls'[n].leg)
  <2>1. CASE n = k
    BY <2>1 DEF OneCall
  <2>2. CASE n # k
    BY <2>2 DEF OneCall, CallSources
  <2> QED
    BY <2>1, <2>2
<1>2. From(callOut', CallNos)
  BY DEF OneCall
<1> QED
  BY <1>1, <1>2 DEF CallSources, OwnFrames, From

\* Storing call k on a leg of its own frames.
LEMMA PutOne ==
    ASSUME NEW k \in CallNos, NEW c, calls' = With(calls, k, c), OwnFrames(c.leg),
           From(callOut', CallNos)
    PROVE  OneCall(k)
BY DEF OneCall, With

\* Dropping call k.
LEMMA DropOne ==
    ASSUME NEW k \in CallNos, NEW index, DropCalls({k}, calls, index),
           From(callOut', CallNos)
    PROVE  OneCall(k)
BY DEF OneCall, DropCalls, Without

\* Dialling sends one NEW on a leg of its own.
LEMMA DialOne == ASSUME CallInv, Dial PROVE \E k \in CallNos : OneCall(k)
<1>1. PICK n \in CallNos, ts \in Ts :
        /\ LET leg == SendReliable(NewLeg(n), "NEW", ts, {})
           IN calls' = With(calls, n, NewCall(leg, "Trying", "Out"))
        /\ callOut' = {FrameOf(NewLeg(n), "NEW", ts, {})}
  BY DEF Dial
<1> DEFINE leg == SendReliable(NewLeg(n), "NEW", ts, {})
<1>2. NewLeg(n) \in OutLegs /\ NewLeg(n).local = n /\ OwnFrames(NewLeg(n))
  BY NewLegType DEF OutLegs, NewLeg, OwnFrames
<1>3. "NEW" \in CallOutKinds /\ {} \subseteq IeKinds
  BY DEF CallOutKinds
<1>4. OwnFrames(leg)
  BY <1>2, <1>3, SendReliableOwn DEF OutLegs
<1>5. From(callOut', CallNos)
  BY <1>1, <1>2, BuiltFrom
<1>6. calls' = With(calls, n, NewCall(leg, "Trying", "Out"))
  BY <1>1
<1> HIDE DEF leg
<1>7. NewCall(leg, "Trying", "Out").leg = leg
  BY DEF NewCall
<1> QED
  BY <1>4, <1>5, <1>6, <1>7, PutOne

\* An incoming call sends its ACCEPT and its RINGING on a leg of its own.
LEMMA IncomingOne ==
    ASSUME CallInv, NEW f \in NewFrames, OnIncomingNew(f)
    PROVE  \E k \in CallNos : OneCall(k)
<1>1. PICK n \in CallNos, ts \in Ts :
        LET leg == NoteRecv(NewLeg(n), f)
            accepted == SendReliable(leg, "ACCEPT", ts, {})
            ringing == SendReliable(accepted, "RINGING", ts, {})
        IN /\ calls' = With(calls, n, NewCall(ringing, "Ringing", "In"))
           /\ callOut' = {FrameOf(leg, "ACCEPT", ts, {}),
                          FrameOf(accepted, "RINGING", ts, {})}
  BY DEF OnIncomingNew
<1> DEFINE leg == NoteRecv(NewLeg(n), f)
           accepted == SendReliable(leg, "ACCEPT", ts, {})
           ringing == SendReliable(accepted, "RINGING", ts, {})
<1>2. calls' = With(calls, n, NewCall(ringing, "Ringing", "In"))
      /\ callOut' = {FrameOf(leg, "ACCEPT", ts, {}), FrameOf(accepted, "RINGING", ts, {})}
  BY <1>1
<1>3. {"ACCEPT", "RINGING"} \subseteq CallOutKinds /\ {} \subseteq IeKinds
  BY DEF CallOutKinds
<1>4. leg \in OutLegs /\ leg.local = n /\ OwnFrames(leg)
  <2>1. NewLeg(n) \in OutLegs /\ NewLeg(n).local = n /\ NewLeg(n).outstanding = {}
    BY NewLegType DEF OutLegs, NewLeg
  <2>2. f.src \in RemoteNos /\ f.oseq \in SeqNo
    BY CallAssumption, LegAssumption DEF Frames
  <2> QED
    BY <2>1, <2>2, NoteRecvType DEF OutLegs, OwnFrames
<1> HIDE DEF leg
<1>5. accepted \in OutLegs /\ accepted.local = n /\ OwnFrames(accepted)
  BY <1>3, <1>4, SendReliableType, SendReliableOwn DEF OutLegs
<1> HIDE DEF accepted
<1>6. OwnFrames(ringing)
  BY <1>3, <1>5, SendReliableOwn DEF OutLegs
<1>7. From(callOut', CallNos)
  <2>1. From({FrameOf(leg, "ACCEPT", ts, {})}, CallNos)
        /\ From({FrameOf(accepted, "RINGING", ts, {})}, CallNos)
    BY <1>4, <1>5, BuiltFrom
  <2> QED
    BY <1>2, <2>1 DEF From
<1> HIDE DEF ringing
<1>8. NewCall(ringing, "Ringing", "In").leg = ringing
  BY DEF NewCall
<1> QED
  BY <1>2, <1>6, <1>7, <1>8, PutOne

\* A command concerns the call it names.
LEMMA CommandOne ==
    ASSUME CallInv, CallSources, NEW n \in DOMAIN calls, CallCommand(n)
    PROVE  OneCall(n)
<1> DEFINE leg == calls[n].leg
<1>1. n \in CallNos /\ calls[n] \in CallLegs /\ leg \in OutLegs /\ leg.local = n
      /\ OwnFrames(leg) /\ DOMAIN calls = DOMAIN calls \cup {n}
  BY CallType DEF CallSources
<1>2. {} \subseteq IeKinds
  OBVIOUS
<1>3. ASSUME NEW kind \in CallOutKinds, NEW ts \in Ts, NEW c \in CallLegs,
             Command(n, kind, ts, c)
      PROVE  OneCall(n)
  <2> DEFINE sent == SendReliable(leg, kind, ts, {})
             d == [c EXCEPT !.leg = sent]
  <2>1. calls' = With(calls, n, d) /\ callOut' = {FrameOf(leg, kind, ts, {})}
    BY <1>3 DEF Command
  <2> HIDE DEF leg
  <2>2. OwnFrames(sent) /\ From(callOut', CallNos)
    BY <1>1, <1>2, <2>1, SendReliableOwn, BuiltFrom DEF OutLegs
  <2> HIDE DEF sent
  <2>3. d.leg = sent
    BY DEF CallLegs
  <2> HIDE DEF d
  <2> QED
    BY <1>1, <2>1, <2>2, <2>3, PutOne
<1>4. CASE Answer(n)
  <2> DEFINE c == [calls[n] EXCEPT !.state = "Up", !.sentFormat = FALSE]
  <2>1. PICK ts \in Ts : Command(n, "ANSWER", ts, c)
    BY <1>4 DEF Answer
  <2>2. c \in CallLegs /\ "ANSWER" \in CallOutKinds
    BY <1>1 DEF CallLegs, CallStates, CallOutKinds
  <2> HIDE DEF c
  <2> QED
    BY <1>3, <2>1, <2>2
<1>5. CASE Hangup(n)
  <2>1. PICK ts \in Ts : callOut' = {FrameOf(leg, "HANGUP", ts, {})}
    BY <1>5 DEF Hangup
  <2>2. From(callOut', CallNos)
    BY <1>1, <2>1, BuiltFrom
  <2> QED
    BY <1>1, <1>5, <2>2, DropOne DEF Hangup
<1>6. ASSUME NEW hold \in BOOLEAN, SetHold(n, hold) PROVE OneCall(n)
  <2> DEFINE c == [calls[n] EXCEPT !.state = IF hold THEN "Held" ELSE "Up"]
             kind == IF hold THEN "HOLD" ELSE "UNHOLD"
  <2>1. PICK ts \in Ts : Command(n, kind, ts, c)
    BY <1>6 DEF SetHold
  <2>2. c \in CallLegs /\ kind \in CallOutKinds
    BY <1>1 DEF CallLegs, CallStates, CallOutKinds
  <2> HIDE DEF c, kind
  <2> QED
    BY <1>3, <2>1, <2>2
<1>7. CASE SendDtmf(n)
  <2>1. "DTMF" \in CallOutKinds
    BY DEF CallOutKinds
  <2> QED
    BY <1>1, <1>3, <1>7, <2>1 DEF SendDtmf
<1>8. CASE SendVoice(n)
  <2>1. CASE calls[n].sentFormat
    <3>1. callOut' = {[mini |-> n]} /\ calls' = calls
      BY <1>8, <2>1 DEF SendVoice
    <3>2. From(callOut', CallNos)
      BY <3>1 DEF From
    <3> QED
      BY <1>1, <3>1, <3>2 DEF OneCall
  <2>2. CASE ~calls[n].sentFormat
    <3> DEFINE next == Advance(leg)
    <3>1. calls' = [calls EXCEPT ![n].leg = next, ![n].sentFormat = TRUE]
          /\ \E ts \in Ts : callOut' = {FrameOf(leg, "VOICE", ts, {})}
      BY <1>8, <2>2 DEF SendVoice
    <3>2. next.local = leg.local /\ next.outstanding = leg.outstanding
      BY <1>1, AdvanceType DEF OutLegs
    <3> HIDE DEF next
    <3>3. OwnFrames(next)
      BY <1>1, <3>2 DEF OwnFrames
    <3>4. /\ DOMAIN calls' = DOMAIN calls /\ calls'[n].leg = next
          /\ \A m \in DOMAIN calls \ {n} : calls'[m] = calls[m]
      <4>1. calls \in [DOMAIN calls -> CallLegs]
        BY DEF CallInv, CallTypeOK
      <4> QED
        BY <3>1, <4>1 DEF CallLegs
    <3>5. From(callOut', CallNos)
      BY <1>1, <3>1, BuiltFrom
    <3> QED
      BY <1>1, <3>3, <3>4, <3>5 DEF OneCall
  <2> QED
    BY <2>1, <2>2
<1> QED
  BY <1>4, <1>5, <1>6, <1>7, <1>8 DEF CallCommand
\* The prologue of on_call_frame keeps a leg's frames its own.
LEMMA ReceivedOwn ==
    ASSUME CallInv, CallSources, NEW f \in CallFrames, f.dst \in DOMAIN calls
    PROVE  OwnFrames(Received(f).leg)
<1> DEFINE leg == calls[f.dst].leg
           next == Receive(leg, f)
<1>1. calls[f.dst] \in CallLegs /\ leg \in OutLegs /\ OwnFrames(leg)
  BY CallType DEF CallSources
<1>2. next.local = leg.local /\ next.outstanding \subseteq leg.outstanding
  BY <1>1, CallFrameType, ReceiveType DEF OutLegs
<1>3. Received(f) = [calls[f.dst] EXCEPT !.leg = next]
  BY DEF Received
<1> HIDE DEF leg, next
<1>4. Received(f).leg = next
  BY <1>1, <1>3 DEF CallLegs
<1> QED
  BY <1>1, <1>2, <1>4 DEF OwnFrames

\* A call that goes on after a frame.
LEMMA GoesOnOne ==
    ASSUME CallInv, NEW f \in CallFrames, f.dst \in DOMAIN calls, NEW c, NEW out, NEW events,
           OwnFrames(c.leg), From(out, CallNos), GoesOn(f, c, out, events)
    PROVE  OneCall(f.dst)
BY CallType, PutOne DEF GoesOn

\* A call that goes on after a frame that is acknowledged.
LEMMA AcknowledgeOne ==
    ASSUME CallInv, CallSources, NEW f \in CallFrames, f.dst \in DOMAIN calls,
           NEW c, c.leg = Received(f).leg, NEW events, Acknowledge(f, c, events)
    PROVE  OneCall(f.dst)
<1>1. PICK ts \in Ts : GoesOn(f, c, {FrameOf(c.leg, "ACK", ts, {})}, events)
  BY DEF Acknowledge, AckFrame
<1>2. c.leg.local \in CallNos /\ OwnFrames(c.leg)
  BY ReceivedType, ReceivedOwn
<1>3. From({FrameOf(c.leg, "ACK", ts, {})}, CallNos)
  BY <1>2, BuiltFrom
<1> QED
  BY <1>1, <1>2, <1>3, GoesOnOne

\* A frame concerns the call whose number is its destination.
LEMMA CallInputOne ==
    ASSUME CallInv, CallSources, NEW f \in CallFrames, f.dst \in DOMAIN calls, CallInput(f)
    PROVE  OneCall(f.dst)
<1> DEFINE n == f.dst
           c == Received(f)
<1>1. /\ n \in CallNos /\ c \in CallLegs /\ c.leg \in OutLegs /\ c.leg.local = n
      /\ OwnFrames(c.leg)
  BY ReceivedType, ReceivedOwn
<1>2. CASE ResendNewWithToken(f)
  <2> DEFINE fresh == ResetLeg(calls[n].leg)
  <2>1. PICK ts \in Ts :
          /\ calls' = [calls EXCEPT ![n].leg = SendReliable(fresh, "NEW", ts, {"TOKEN"})]
          /\ callOut' = {FrameOf(fresh, "NEW", ts, {"TOKEN"})}
    BY <1>2 DEF ResendNewWithToken
  <2> DEFINE sent == SendReliable(fresh, "NEW", ts, {"TOKEN"})
  <2>2. fresh \in OutLegs /\ fresh.local = n /\ OwnFrames(fresh)
    BY CallType, ResetLegType DEF OutLegs, OwnFrames
  <2>3. "NEW" \in CallOutKinds /\ {"TOKEN"} \subseteq IeKinds
    BY DEF CallOutKinds, IeKinds
  <2> HIDE DEF fresh
  <2>4. OwnFrames(sent) /\ From(callOut', CallNos)
    BY <1>1, <2>1, <2>2, <2>3, SendReliableOwn, BuiltFrom DEF OutLegs
  <2>5. calls' = [calls EXCEPT ![n].leg = sent]
    BY <2>1
  <2> HIDE DEF sent
  <2>6. /\ DOMAIN calls' = DOMAIN calls /\ calls'[n].leg = sent
        /\ \A m \in DOMAIN calls \ {n} : calls'[m] = calls[m]
    <3>1. calls \in [DOMAIN calls -> CallLegs]
      BY DEF CallInv, CallTypeOK
    <3> QED
      BY <2>5, <3>1 DEF CallLegs
  <2> QED
    BY <1>1, <2>4, <2>6 DEF OneCall
<1>3. CASE OnVoice(f)
  <2> DEFINE d == [c EXCEPT !.voiceSeen = TRUE]
             events == IF calls[n].state = "Up" THEN Ev("Voice", n) ELSE {}
  <2>1. Acknowledge(f, d, events)
    BY <1>3 DEF OnVoice
  <2>2. d.leg = c.leg
    BY <1>1 DEF CallLegs
  <2> HIDE DEF d, events
  <2> QED
    BY <2>1, <2>2, AcknowledgeOne
<1>4. CASE OnAuthReq(f)
  <2>1. CASE GoesOn(f, c, {}, {})
    BY <1>1, <2>1, GoesOnOne DEF From
  <2>2. ASSUME NEW ts \in Ts,
               GoesOn(f, [c EXCEPT !.leg = SendReliable(@, "AUTHREP", ts, {"MD5"})],
                      {FrameOf(c.leg, "AUTHREP", ts, {"MD5"})}, {})
        PROVE  OneCall(n)
    <3> DEFINE sent == SendReliable(c.leg, "AUTHREP", ts, {"MD5"})
               d == [c EXCEPT !.leg = sent]
               out == {FrameOf(c.leg, "AUTHREP", ts, {"MD5"})}
    <3>1. "AUTHREP" \in CallOutKinds /\ {"MD5"} \subseteq IeKinds
      BY DEF CallOutKinds, IeKinds
    <3>2. OwnFrames(sent) /\ From(out, CallNos)
      BY <1>1, <3>1, SendReliableOwn, BuiltFrom DEF OutLegs
    <3>3. GoesOn(f, d, out, {})
      BY <2>2
    <3> HIDE DEF sent, out
    <3>4. d.leg = sent
      BY <1>1 DEF CallLegs
    <3> HIDE DEF d
    <3> QED
      BY <3>2, <3>3, <3>4, GoesOnOne
  <2> QED
    BY <1>4, <2>1, <2>2 DEF OnAuthReq
<1>5. CASE OnRinging(f)
  <2> DEFINE d == [c EXCEPT !.state = "Ringing"]
  <2>1. Acknowledge(f, d, Ev("Ringing", n)) /\ d.leg = c.leg
    BY <1>1, <1>5 DEF OnRinging, CallLegs
  <2> HIDE DEF d
  <2> QED
    BY <2>1, AcknowledgeOne
<1>6. CASE OnAnswer(f)
  <2> DEFINE d == [c EXCEPT !.state = "Up", !.sentFormat = FALSE]
  <2>1. Acknowledge(f, d, Ev("Answered", n)) /\ d.leg = c.leg
    BY <1>1, <1>6 DEF OnAnswer, CallLegs
  <2> HIDE DEF d
  <2> QED
    BY <2>1, AcknowledgeOne
<1>7. CASE OnRemoteEnd(f)
  <2>1. PICK ts \in Ts : callOut' = {FrameOf(c.leg, "ACK", ts, {})}
    BY <1>7 DEF OnRemoteEnd, AckFrame
  <2>2. From(callOut', CallNos)
    BY <1>1, <2>1, BuiltFrom
  <2> QED
    BY <1>1, <1>7, <2>2, DropOne DEF OnRemoteEnd
<1>8. ASSUME NEW probe, NEW reply, OnProbe(f, probe, reply) PROVE OneCall(n)
  <2> DEFINE leg == Advance(c.leg)
             d == [c EXCEPT !.leg = leg]
             out == {FrameOf(c.leg, reply, f.ts, {})}
  <2>1. GoesOn(f, d, out, {})
    BY <1>8 DEF OnProbe
  <2>2. leg.local = n /\ leg.outstanding = c.leg.outstanding /\ From(out, CallNos)
    BY <1>1, AdvanceType, BuiltFrom DEF OutLegs
  <2> HIDE DEF leg, out
  <2>3. d.leg = leg /\ OwnFrames(leg)
    BY <1>1, <2>2 DEF CallLegs, OwnFrames
  <2> HIDE DEF d
  <2> QED
    BY <2>1, <2>2, <2>3, GoesOnOne
<1>9. CASE OnDtmf(f)
  BY <1>9, AcknowledgeOne DEF OnDtmf
<1>10. CASE OnSilent(f)
  BY <1>1, <1>10, GoesOnOne DEF OnSilent, From
<1>11. CASE OnAcknowledged(f)
  BY <1>11, AcknowledgeOne DEF OnAcknowledged
<1> QED
  BY <1>2, <1>3, <1>4, <1>5, <1>6, <1>7, <1>8, <1>9, <1>10, <1>11 DEF CallInput, OnCallFrame

\* A mini-frame changes no leg.
LEMMA MiniFrameOne ==
    ASSUME CallInv, CallSources, NEW r \in DOMAIN remoteIndex,
           remoteIndex[r] \in DOMAIN calls, OnMiniFrame(r)
    PROVE  OneCall(remoteIndex[r])
<1> DEFINE n == remoteIndex[r]
<1>1. n \in CallNos /\ calls \in [DOMAIN calls -> CallLegs] /\ OwnFrames(calls[n].leg)
  BY CallType DEF CallInv, CallTypeOK, CallSources
<1>2. calls' = [calls EXCEPT ![n].voiceSeen = TRUE] /\ callOut' = {}
  BY DEF OnMiniFrame
<1>3. DOMAIN calls' = DOMAIN calls /\ \A m \in DOMAIN calls : calls'[m].leg = calls[m].leg
  BY <1>1, <1>2 DEF CallLegs
<1> QED
  BY <1>1, <1>2, <1>3 DEF OneCall, From

-----------------------------------------------------------------------------
(* Timers and sources                                                      *)

\* The retransmission pass sends each call's own frames again.
LEMMA CallTimeoutSources ==
    ASSUME CallInv, CallSources, CallHandleTimeout
    PROVE  CallSources'
<1> DEFINE again(n) == RetransmitLeg(calls[n].leg)
<1>1. ASSUME NEW n \in DOMAIN calls
      PROVE  OwnFrames(again(n)) /\ From(ResentFrames(calls[n].leg), CallNos)
  <2>1. n \in CallNos /\ calls[n].leg \in OutLegs /\ calls[n].leg.local = n
        /\ OwnFrames(calls[n].leg)
    BY CallType DEF CallSources
  <2>2. again(n).local = calls[n].leg.local
        /\ \A o \in again(n).outstanding : \E p \in calls[n].leg.outstanding : o.frame = p.frame
    BY <2>1, RetransmitLegType DEF OutLegs
  <2>3. OwnFrames(again(n))
    <3> HIDE DEF again
    <3> QED
      BY <2>1, <2>2, OwnKept
  <2> QED
    BY <2>1, <2>3, ResentFrom DEF OutLegs
<1>2. /\ callOut' = UNION {ResentFrames(calls[n].leg) : n \in DOMAIN calls}
      /\ \A n \in DOMAIN calls' : n \in DOMAIN calls /\ calls'[n].leg = again(n)
  <2> DEFINE resent == [n \in DOMAIN calls |-> [calls[n] EXCEPT !.leg = again(n)]]
  <2>1. \A n \in DOMAIN calls : resent[n].leg = again(n)
    BY CallType DEF CallLegs
  <2>2. DOMAIN calls' \subseteq DOMAIN calls /\ \A n \in DOMAIN calls' : calls'[n] = resent[n]
    BY DEF CallHandleTimeout, DropCalls, Without
  <2> HIDE DEF resent, again
  <2> QED
    BY <2>1, <2>2 DEF CallHandleTimeout
<1> HIDE DEF again
<1>3. From(callOut', CallNos)
  BY <1>1, <1>2 DEF From
<1> QED
  BY <1>1, <1>2, <1>3 DEF CallSources, OwnFrames, From

\* Time changes no source.
LEMMA CallTickSources == ASSUME CallInv, CallSources, CallTick PROVE CallSources'
<1> DEFINE ticked(n) == TickLeg(calls[n].leg)
<1>1. ASSUME NEW n \in DOMAIN calls PROVE OwnFrames(ticked(n))
  <2>1. calls[n].leg \in OutLegs /\ OwnFrames(calls[n].leg)
    BY CallType DEF CallSources
  <2>2. ticked(n).local = calls[n].leg.local
        /\ \A o \in ticked(n).outstanding : \E p \in calls[n].leg.outstanding : o.frame = p.frame
    BY <2>1, TickLegType DEF OutLegs
  <2> HIDE DEF ticked
  <2> QED
    BY <2>1, <2>2, OwnKept
<1>2. calls' = [n \in DOMAIN calls |-> [calls[n] EXCEPT !.leg = ticked(n)]] /\ callOut' = {}
  BY DEF CallTick
<1> HIDE DEF ticked
<1>3. \A n \in DOMAIN calls' : n \in DOMAIN calls /\ calls'[n].leg = ticked(n)
  BY <1>2, CallType DEF CallLegs
<1> QED
  BY <1>1, <1>2, <1>3 DEF CallSources, OwnFrames, From

\* Every step of the calls sends under the numbers of calls.
LEMMA CallSourcesStep == CallInv /\ CallSources /\ [CallNext]_callVars => CallSources'
<1> SUFFICES ASSUME CallInv, CallSources, [CallNext]_callVars PROVE CallSources'
  OBVIOUS
<1>1. CASE Dial
  BY <1>1, DialOne, OneCallSources
<1>2. ASSUME NEW n \in DOMAIN calls, CallCommand(n) PROVE CallSources'
  BY <1>2, CommandOne, OneCallSources
<1>3. ASSUME NEW f \in NewFrames, OnIncomingNew(f) PROVE CallSources'
  BY <1>3, IncomingOne, OneCallSources
<1>4. ASSUME NEW f \in CallFrames, f.dst \in DOMAIN calls, CallInput(f) PROVE CallSources'
  BY <1>4, CallInputOne, OneCallSources
<1>5. ASSUME NEW r \in DOMAIN remoteIndex, remoteIndex[r] \in DOMAIN calls, OnMiniFrame(r)
      PROVE  CallSources'
  BY <1>5, MiniFrameOne, OneCallSources
<1>6. CASE CallHandleTimeout
  BY <1>6, CallTimeoutSources
<1>7. CASE CallTick
  BY <1>7, CallTickSources
<1>8. CASE CallDrain
  BY <1>8 DEF CallDrain, CallSources, From
<1>9. CASE UNCHANGED callVars
  BY <1>9 DEF callVars, CallSources
<1> QED
  BY <1>1, <1>2, <1>3, <1>4, <1>5, <1>6, <1>7, <1>8, <1>9 DEF CallNext

\* Whatever arrives and whatever the driver commands, a window holds only frames
\* of its own call, and what is sent comes from call numbers.
THEOREM CallSourcesInvariant == CallSpec => []CallSources
<1>1. CallInit => CallSources
  BY DEF CallInit, Nothing, CallSources, From
<1> QED
  BY <1>1, CallSourcesStep, CallInvariant, PTL DEF CallSpec
-----------------------------------------------------------------------------
(* The source of everything the client sends                               *)

QualifyInv == qualifyNext \in QualifyNos /\ From(qualifyOut, QualifyNos)

\* The sources of frames that all come from some numbers are such numbers.
LEMMA SourcesFrom ==
    ASSUME NEW out, NEW numbers, From(out, numbers)
    PROVE  Sources(out) \subseteq numbers
BY DEF Sources, From

\* A qualify probe is answered from the rotating range, and the rotation stays
\* in it, wrapping round or not.
LEMMA QualifyStep == ASSUME QualifyInv, NEW f, Qualify(f) PROVE QualifyInv'
<1> DEFINE leg == NewLeg(qualifyNext)
           built == FrameOf(leg, "PONG", f.ts, {})
           pong == [built EXCEPT !.dst = f.src, !.iseq = Succ(f.oseq)]
<1>1. QualifyBase \in Nat /\ QualifySpan \in Nat \ {0} /\ qualifyNext \in QualifyNos
  BY PbxAssumption DEF QualifyInv
<1>2. qualifyOut' = {pong}
      /\ qualifyNext' = QualifyBase + ((qualifyNext - QualifyBase + 1) % QualifySpan)
  BY DEF Qualify
<1>3. pong.src = qualifyNext
  BY DEF FrameOf, NewLeg
<1> HIDE DEF pong
<1>4. From(qualifyOut', QualifyNos)
  BY <1>1, <1>2, <1>3 DEF From
<1>5. qualifyNext' \in QualifyNos
  <2> DEFINE at == qualifyNext - QualifyBase + 1
  <2>1. at \in Nat
    BY <1>1 DEF QualifyNos
  <2>2. qualifyNext' = QualifyBase + (at % QualifySpan)
    BY <1>2
  <2> HIDE DEF at
  <2>3. at % QualifySpan \in 0 .. QualifySpan - 1
    BY <1>1, <2>1
  <2> QED
    BY <1>1, <2>2, <2>3 DEF QualifyNos
<1> QED
  BY <1>4, <1>5 DEF QualifyInv, From

\* Nothing but a probe outside any leg moves the rotation.
LEMMA QualifyKept == QualifyInv /\ [PbxNext]_pbxVars => QualifyInv'
<1> SUFFICES ASSUME QualifyInv, [PbxNext]_pbxVars PROVE QualifyInv'
  OBVIOUS
<1>1. CASE \E f \in Datagrams : Qualify(f)
  BY <1>1, QualifyStep
<1>2. CASE QualifyDrain
  BY <1>2 DEF QualifyDrain, QualifyInv, From
<1>3. CASE UNCHANGED pbxVars
  BY <1>3 DEF pbxVars, qualifyVars, QualifyInv
<1> QED
  BY <1>1, <1>2, <1>3
  DEF PbxNext, HandleInput, ToReg, ToCall, ToIncoming, HandleMiniFrame, HandleCommand,
      HandleTimeout, Tick

\* Whatever the client sends names the part that sent it by its source: the
\* registration and the keepalive, the calls, or the answers to qualify probes,
\* whose numbers never leave their range as they rotate (client.rs:32-39).
THEOREM SourceNamesSender == PbxSpec => []PbxTypeOK
<1>1. PbxInit => QualifyInv
  BY PbxAssumption DEF PbxInit, QualifyInv, QualifyNos, From
<1>2. RegSources /\ CallSources /\ QualifyInv => PbxTypeOK
  BY SourcesFrom DEF RegSources, CallSources, QualifyInv, PbxTypeOK
<1> QED
  BY <1>1, <1>2, QualifyKept, ImplementsRegistration, ImplementsCalls,
     RegSourcesInvariant, CallSourcesInvariant, PTL DEF PbxSpec

-----------------------------------------------------------------------------
(* The joint timers                                                        *)

\* The timers of the registration.
RegTimerSet ==
    {nextReg} \cup {o.due : o \in reg.outstanding}
              \cup (IF regState = "Registered" THEN {nextKeepalive} ELSE {})

\* poll_timeout of the registration is the first of them.
LEMMA RegPollLeast ==
    ASSUME RegInv
    PROVE  RegPollTimeout \in RegTimerSet /\ RegTimerSet \subseteq Nat
           /\ \A t \in RegTimerSet : RegPollTimeout <= t
<1>1. nextReg \in Nat /\ nextKeepalive \in Nat
  BY RegAssumption DEF RegInv, RegTypeOK
<1>2. ASSUME NEW o \in reg.outstanding PROVE o.due \in Nat
  BY LegAssumption DEF RegInv, RegTypeOK, Legs, Outstandings
<1>3. RegTimerSet \subseteq Nat /\ RegTimerSet # {}
  BY <1>1, <1>2 DEF RegTimerSet
<1>4. RegPollTimeout = CHOOSE t \in RegTimerSet : \A u \in RegTimerSet : t <= u
  BY Zenon DEF RegPollTimeout, RegTimerSet
<1> QED
  BY <1>3, <1>4, LeastNat

\* Never does poll_timeout lie ahead while the registration, the keepalive or a
\* frame of any window waits for a call of handle_timeout: a driver that sleeps
\* until then misses nothing (client.rs:335).
THEOREM NoTimerEverMissed == PbxSpec => []NoTimerMissed
<1>1. RegInv /\ CallInv => NoTimerMissed
  <2> SUFFICES ASSUME RegInv, CallInv, PollTimeout > 0 PROVE
          /\ ~RegStartDue /\ ~KeepaliveDue
          /\ \A n \in CallNos \cup {CALLNO_REG} : \A o \in Window(n) : o.due > 0
    BY DEF NoTimerMissed
  <2> DEFINE timers == {RegPollTimeout} \cup
                UNION {{o.due : o \in calls[n].leg.outstanding} : n \in DOMAIN calls}
  <2>1. RegPollTimeout \in RegTimerSet /\ RegTimerSet \subseteq Nat
        /\ \A t \in RegTimerSet : RegPollTimeout <= t
    BY RegPollLeast
  <2>2. ASSUME NEW n \in DOMAIN calls, NEW o \in calls[n].leg.outstanding
        PROVE  o.due \in Nat /\ o.due \in timers
    <3>1. calls[n].leg \in OutLegs
      BY CallType
    <3>2. o.due \in 0 .. RetxAfter
      BY <3>1 DEF OutLegs, Legs, Outstandings
    <3> QED
      BY <3>2, LegAssumption
  <2>3. timers \subseteq Nat /\ timers # {} /\ RegPollTimeout \in timers
    <3>1. RegPollTimeout \in Nat
      BY <2>1
    <3>2. \A t \in timers : t = RegPollTimeout
                            \/ \E n \in DOMAIN calls : \E o \in calls[n].leg.outstanding : t = o.due
      BY Zenon
    <3>3. \A t \in timers : t \in Nat
      BY <2>2, <3>1, <3>2
    <3>4. RegPollTimeout \in timers
      OBVIOUS
    <3> HIDE DEF timers
    <3> QED
      BY <3>3, <3>4
  <2>4. PollTimeout = CHOOSE t \in timers : \A u \in timers : t <= u
    BY Zenon DEF PollTimeout
  <2> HIDE DEF timers
  <2>5. PollTimeout \in Nat /\ \A t \in timers : PollTimeout <= t
    BY <2>3, <2>4, LeastNat
  <2>6. \A t \in RegTimerSet : t > 0
    <3>1. PollTimeout <= RegPollTimeout
      BY <2>3, <2>5
    <3> QED
      BY <2>1, <2>5, <3>1
  <2>7. \A n \in DOMAIN calls : \A o \in calls[n].leg.outstanding : o.due > 0
    BY <2>2, <2>5
  <2>8. ~RegStartDue /\ ~KeepaliveDue /\ \A o \in reg.outstanding : o.due > 0
    BY <2>6 DEF RegTimerSet, RegStartDue, KeepaliveDue
  <2> QED
    BY <2>7, <2>8 DEF Window
<1> QED
  BY <1>1, ClientInvariant, PTL
-----------------------------------------------------------------------------
(* The isolation of the windows                                            *)

AllLegs == CallNos \cup {CALLNO_REG}

Isolated ==
    \A m, n \in AllLegs : m # n /\ Loses(m) /\ Loses(n) => OutOfTime(m) /\ OutOfTime(n)

\* The number of the registration is no number of a call.
LEMMA RegIsNoCall == CALLNO_REG \notin CallNos
<1>1. 2 < CallBase /\ CallBase \in Nat /\ CallTop \in Nat
  BY PbxAssumption, CallAssumption DEF CALLNO_KEEPALIVE
<1> QED
  BY <1>1 DEF CALLNO_REG, CallNos

\* A window none of whose frames is gone loses none.
LEMMA KeptLosesNone ==
    ASSUME NEW n, \A o \in Window(n) : \E p \in Window(n)' : p.frame = o.frame
    PROVE  ~Loses(n)
BY DEF Loses, Unconfirmed

\* When only one window can lose frames the windows are isolated.
LEMMA OneLoses ==
    ASSUME NEW k, \A n \in AllLegs \ {k} : ~Loses(n)
    PROVE  Isolated
BY DEF Isolated

\* A step of the registration alone.
LEMMA RegAlone == ASSUME UNCHANGED calls PROVE Isolated
<1>1. ASSUME NEW n \in AllLegs \ {CALLNO_REG} PROVE ~Loses(n)
  <2>1. Window(n)' = Window(n)
    BY DEF Window
  <2> QED
    BY <2>1, KeptLosesNone
<1> QED
  BY <1>1, OneLoses

\* A step of one call alone.
LEMMA CallAlone ==
    ASSUME CallInv, UNCHANGED reg, NEW k, OneCall(k)
    PROVE  Isolated
<1>1. ASSUME NEW n \in AllLegs \ {k} PROVE ~Loses(n)
  <2>1. \A o \in Window(n) : o \in Window(n)'
    <3>1. CASE n = CALLNO_REG
      BY <3>1 DEF Window
    <3>2. CASE n # CALLNO_REG /\ n \in DOMAIN calls
      BY <3>2 DEF Window, OneCall
    <3>3. CASE n # CALLNO_REG /\ n \notin DOMAIN calls
      BY <3>3 DEF Window
    <3> QED
      BY <3>1, <3>2, <3>3
  <2> QED
    BY <2>1, KeptLosesNone
<1> QED
  BY <1>1, OneLoses

\* A datagram is handled by one part of the client.
LEMMA InputIsolated ==
    ASSUME RegInv, CallInv, CallSources, NEW f \in Datagrams, HandleInput(f)
    PROVE  Isolated
<1>1. CASE Qualify(f)
  BY <1>1, RegAlone DEF Qualify, CallDrain
<1>2. CASE ToReg(f)
  BY <1>2, RegAlone DEF ToReg, CallDrain
<1>3. CASE ToCall(f)
  BY <1>3, CallInputOne, CallAlone DEF ToCall, RegDrain
<1>4. CASE ToIncoming(f)
  BY <1>4, IncomingOne, CallAlone DEF ToIncoming, RegDrain
<1> QED
  BY <1>1, <1>2, <1>3, <1>4 DEF HandleInput

\* Of the windows of the registration and the calls handle_timeout empties
\* those with an exhausted frame and keeps all the frames of the others.
LEMMA TimeoutIsolated ==
    ASSUME RegInv, CallInv, HandleTimeout, NEW n \in AllLegs, Loses(n)
    PROVE  OutOfTime(n)
<1>1. CASE n = CALLNO_REG
  <2>1. reg \in RegLegs /\ Window(n) = reg.outstanding /\ Window(n)' = reg'.outstanding
    BY <1>1 DEF RegInv, RegTypeOK, RegLegs, Window
  <2>2. CASE StartRegistration
    <3>1. Window(n) = {}
      BY <2>1, <2>2 DEF StartRegistration, RegStartDue
    <3> QED
      BY <3>1 DEF Loses
  <2>3. CASE RegTimers /\ Exhausted(reg)
    BY <2>1, <2>3 DEF OutOfTime, Exhausted, Expired
  <2>4. CASE RegTimers /\ ~Exhausted(reg)
    <3>1. reg' = RetransmitLeg(reg)
      BY <2>4 DEF RegTimers
    <3>2. ASSUME NEW o \in reg.outstanding
          PROVE  \E p \in RetransmitLeg(reg).outstanding : p.frame = o.frame
      BY <2>1, RetransmitKeeps DEF RegLegs
    <3> QED
      BY <2>1, <3>1, <3>2, KeptLosesNone
  <2> QED
    BY <2>2, <2>3, <2>4 DEF HandleTimeout, RegHandleTimeout
<1>2. CASE n \in CallNos /\ n \in DOMAIN calls
  <2>1. /\ calls[n] \in CallLegs /\ calls[n].leg \in OutLegs
        /\ Window(n) = calls[n].leg.outstanding
    BY <1>2, CallType, RegIsNoCall DEF Window
  <2>2. CASE Exhausted(calls[n].leg)
    BY <2>1, <2>2 DEF OutOfTime, Exhausted, Expired
  <2>3. CASE ~Exhausted(calls[n].leg)
    <3> DEFINE leg == RetransmitLeg(calls[n].leg)
    <3>1. n \in DOMAIN calls' /\ calls'[n] = [calls[n] EXCEPT !.leg = leg]
      BY <1>2, <2>3 DEF HandleTimeout, CallHandleTimeout, DropCalls, Without
    <3>2. ASSUME NEW o \in calls[n].leg.outstanding
          PROVE  \E p \in leg.outstanding : p.frame = o.frame
      BY <2>1, RetransmitKeeps DEF OutLegs
    <3> HIDE DEF leg
    <3>3. Window(n)' = leg.outstanding
      BY <1>2, <2>1, <3>1, RegIsNoCall DEF Window, CallLegs
    <3> QED
      BY <2>1, <3>2, <3>3, KeptLosesNone
  <2> QED
    BY <2>2, <2>3
<1>3. CASE n \in CallNos /\ n \notin DOMAIN calls
  BY <1>3, RegIsNoCall DEF Loses, Window
<1> QED
  BY <1>1, <1>2, <1>3 DEF AllLegs

\* Time takes no frame from any window.
LEMMA TickIsolated ==
    ASSUME RegInv, CallInv, Tick, NEW n \in AllLegs
    PROVE  ~Loses(n)
<1>1. CASE n = CALLNO_REG
  <2>1. reg \in RegLegs /\ reg' = TickLeg(reg)
        /\ Window(n) = reg.outstanding /\ Window(n)' = reg'.outstanding
    BY <1>1 DEF Tick, RegTick, RegInv, RegTypeOK, RegLegs, Window
  <2>2. ASSUME NEW o \in reg.outstanding
        PROVE  \E p \in TickLeg(reg).outstanding : p.frame = o.frame
    BY <2>1, TickKeeps DEF RegLegs
  <2> QED
    BY <2>1, <2>2, KeptLosesNone
<1>2. CASE n \in CallNos /\ n \in DOMAIN calls
  <2> DEFINE leg == TickLeg(calls[n].leg)
  <2>1. /\ calls[n] \in CallLegs /\ calls[n].leg \in OutLegs
        /\ Window(n) = calls[n].leg.outstanding
    BY <1>2, CallType, RegIsNoCall DEF Window
  <2>2. n \in DOMAIN calls' /\ calls'[n] = [calls[n] EXCEPT !.leg = leg]
    BY <1>2 DEF Tick, CallTick
  <2>3. ASSUME NEW o \in calls[n].leg.outstanding
        PROVE  \E p \in leg.outstanding : p.frame = o.frame
    BY <2>1, TickKeeps DEF OutLegs
  <2> HIDE DEF leg
  <2>4. Window(n)' = leg.outstanding
    BY <1>2, <2>1, <2>2, RegIsNoCall DEF Window, CallLegs
  <2> QED
    BY <2>1, <2>3, <2>4, KeptLosesNone
<1>3. CASE n \in CallNos /\ n \notin DOMAIN calls
  BY <1>3, RegIsNoCall DEF Loses, Window
<1> QED
  BY <1>1, <1>2, <1>3 DEF AllLegs

\* Every step of the client isolates the windows.
LEMMA IsolatedStep ==
    RegInv /\ CallInv /\ CallSources /\ [PbxNext]_pbxVars => [Isolated]_pbxVars
<1> SUFFICES ASSUME RegInv, CallInv, CallSources, PbxNext PROVE Isolated
  OBVIOUS
<1>1. ASSUME NEW f \in Datagrams, HandleInput(f) PROVE Isolated
  BY <1>1, InputIsolated
<1>2. CASE HandleMiniFrame
  BY <1>2, MiniFrameOne, CallAlone DEF HandleMiniFrame, RegDrain
<1>3. CASE HandleCommand
  <2>1. CASE Dial
    BY <1>3, <2>1, DialOne, CallAlone DEF HandleCommand, RegDrain
  <2>2. ASSUME NEW n \in DOMAIN calls, CallCommand(n) PROVE Isolated
    BY <1>3, <2>2, CommandOne, CallAlone DEF HandleCommand, RegDrain
  <2> QED
    BY <1>3, <2>1, <2>2 DEF HandleCommand
<1>4. CASE HandleTimeout
  BY <1>4, TimeoutIsolated DEF Isolated
<1>5. CASE Tick
  BY <1>5, TickIsolated DEF Isolated
<1> QED
  BY <1>1, <1>2, <1>3, <1>4, <1>5 DEF PbxNext

\* No acknowledgement, command, token or timeout of one leg ever takes a frame
\* from the window of another one: two legs lose frames in the same step only
\* if both had used up their retransmissions.
THEOREM WindowsAlwaysIsolated == PbxSpec => WindowsIsolated
<1>1. PbxSpec => [][Isolated]_pbxVars
  BY IsolatedStep, ClientInvariant, ImplementsCalls, CallSourcesInvariant, PTL DEF PbxSpec
<1> QED
  BY <1>1 DEF WindowsIsolated, Isolated, AllLegs
=============================================================================
