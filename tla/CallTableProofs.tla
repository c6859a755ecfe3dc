--------------------------- MODULE CallTableProofs ---------------------------
(***************************************************************************)
(* The call table and the index of the mini-frames, for every number of    *)
(* calls, every range of call numbers and every frame.  The core is what   *)
(* With, Without and DropCalls do to the pair (table, index): TableOK is   *)
(* kept by a new call, by a new index entry of a live call, and by the     *)
(* removal of any set of calls.                                            *)
(*                                                                         *)
(* The second half shows that the table implements CallLifecycle, the      *)
(* contract of the client with its driver.  There a handler is reduced to  *)
(* what it does to the state and the direction of each call (Goes and      *)
(* New); the numbers of new calls are free because the cyclic search of    *)
(* alloc_callno visits every number.                                       *)
(***************************************************************************)
EXTENDS CallTable, LegProofs, FiniteSetTheorems

TableOK(table, index) ==
    /\ DOMAIN table \subseteq CallNos
    /\ table \in [DOMAIN table -> CallLegs]
    /\ \A n \in DOMAIN table : table[n].leg.local = n
    /\ DOMAIN index \subseteq RemoteNos
    /\ index \in [DOMAIN index -> CallNos]
    /\ \A r \in DOMAIN index : index[r] \in DOMAIN table

CallInv == CallTypeOK /\ RemoteIndexLive /\ EventsNameLiveCalls

OutFrames == Frames(CallOutKinds, CallNos)
OutLegs == Legs(CallOutKinds, CallNos)

\* The events of a handler that ends no call are about calls of the table.
Tells(events, table) ==
    \A e \in events : e \in Events /\ e.kind # "Ended" /\ e.call \in DOMAIN table

-----------------------------------------------------------------------------
(* The table                                                               *)

\* The part of the invariant that is about the table and the index.
LEMMA InvTable == ASSUME CallInv PROVE TableOK(calls, remoteIndex)
BY DEF CallInv, CallTypeOK, RemoteIndexLive, TableOK

\* Storing a call under its own number keeps the table.
LEMMA PutCall ==
    ASSUME NEW table, NEW index, TableOK(table, index),
           NEW n \in CallNos, NEW c \in CallLegs, c.leg.local = n
    PROVE  TableOK(With(table, n, c), index)
           /\ DOMAIN With(table, n, c) = DOMAIN table \cup {n}
BY DEF TableOK, With

\* An index entry that names a live call keeps the index live.
LEMMA PutIndex ==
    ASSUME NEW table, NEW index, TableOK(table, index),
           NEW r \in RemoteNos, NEW n \in DOMAIN table
    PROVE  TableOK(table, With(index, r, n))
BY DEF TableOK, With

\* drop_call removes the calls and every index entry that names one of them.
LEMMA Drop ==
    ASSUME NEW table, NEW index, TableOK(table, index), NEW dead,
           DropCalls(dead, table, index)
    PROVE  TableOK(calls', remoteIndex') /\ DOMAIN calls' = DOMAIN table \ dead
BY DEF TableOK, DropCalls, Without

\* A handler that ends no call.
LEMMA NoneEnds ==
    ASSUME TableOK(calls', remoteIndex'), callnoNext' \in CallNos,
           callOut' \subseteq OutFrames \cup MiniFrames,
           Tells(callEvents', calls'), DOMAIN calls \subseteq DOMAIN calls'
    PROVE  CallInv' /\ EndedTold
<1>1. callEvents' \subseteq Events /\ EventsNameLiveCalls'
  BY DEF Tells, EventsNameLiveCalls
<1>2. EndedTold
  BY DEF Tells, EndedTold
<1> QED
  BY <1>1, <1>2, Zenon
  DEF CallInv, CallTypeOK, RemoteIndexLive, TableOK, OutFrames

\* An event other than Ended, of a call of the table.
LEMMA EvTells ==
    ASSUME NEW kind \in EventKinds \ {"Ended"}, NEW table, NEW n \in DOMAIN table,
           n \in CallNos
    PROVE  Tells(Ev(kind, n), table)
BY DEF Tells, Ev, Events

\* alloc_callno hands out call numbers.
LEMMA CyclicType == ASSUME CallInv, NEW s \in Nat PROVE Cyclic(s) \in CallNos
<1>1. /\ CallBase \in Nat /\ CallTop \in Nat /\ CallBase <= CallTop
      /\ callnoNext \in CallBase .. CallTop
  BY CallAssumption DEF CallInv, CallTypeOK, CallNos
<1> DEFINE span == CallTop - CallBase + 1
           at == callnoNext - CallBase + s
<1>2. span \in Nat \ {0} /\ at \in Nat /\ CallTop = CallBase + span - 1
  BY <1>1
<1>3. Cyclic(s) = CallBase + (at % span)
  BY DEF Cyclic
<1> HIDE DEF span, at
<1>4. at % span \in 0 .. span - 1
  BY <1>2
<1> QED
  BY <1>1, <1>2, <1>3, <1>4 DEF CallNos

\* alloc_callno returns a call number, and so does the cursor it leaves.
LEMMA AllocType ==
    ASSUME CallInv, NEW n, NEW next, AllocCallno(n, next)
    PROVE  n \in CallNos /\ next \in CallNos
<1>1. CallBase \in CallNos /\ AllocTries \in Nat
  BY CallAssumption DEF CallNos
<1>2. CASE FreeSteps = {}
  BY <1>1, <1>2, CyclicType DEF AllocCallno
<1>3. CASE FreeSteps # {}
  <2>1. PICK s \in FreeSteps : n = Cyclic(s) /\ next = Cyclic(s + 1)
    BY <1>3, Zenon DEF AllocCallno
  <2>2. s \in Nat /\ s + 1 \in Nat
    BY CallAssumption DEF FreeSteps
  <2> QED
    BY <2>1, <2>2, CyclicType
<1> QED
  BY <1>2, <1>3

\* The record of a new call, on any leg of its own number, has its type.
LEMMA NewCallType ==
    ASSUME NEW leg \in OutLegs, NEW state \in CallStates, NEW dir \in {"In", "Out"}
    PROVE  NewCall(leg, state, dir) \in CallLegs
           /\ NewCall(leg, state, dir).leg = leg
BY DEF NewCall, CallLegs, OutLegs

\* What the proofs need of a live call.
LEMMA CallType ==
    ASSUME CallInv, NEW n \in DOMAIN calls
    PROVE  n \in CallNos /\ calls[n] \in CallLegs
           /\ calls[n].leg \in OutLegs /\ calls[n].leg.local = n
BY DEF CallInv, CallTypeOK, CallLegs, OutLegs

\* A client starts with no call and an empty index.
LEMMA CallInitInv == CallInit => CallInv
<1> SUFFICES ASSUME CallInit PROVE CallInv
  OBVIOUS
<1>1. DOMAIN calls = {} /\ calls \in [{} -> CallLegs]
  BY DEF CallInit, Nothing
<1>2. DOMAIN remoteIndex = {} /\ remoteIndex \in [{} -> CallNos]
  BY DEF CallInit, Nothing
<1>3. callnoNext \in CallNos
  BY CallAssumption DEF CallInit, CallNos
<1> QED
  BY <1>1, <1>2, <1>3
  DEF CallInit, CallInv, CallTypeOK, RemoteIndexLive, EventsNameLiveCalls

-----------------------------------------------------------------------------
(* Commands                                                                *)

\* Dialling puts a call under a free number and reports nothing ended.
LEMMA DialInv == ASSUME CallInv, Dial PROVE CallInv' /\ EndedTold
<1>1. PICK n \in CallNos, ts \in Ts :
        /\ AllocCallno(n, callnoNext')
        /\ LET leg == SendReliable(NewLeg(n), "NEW", ts, {})
           IN calls' = With(calls, n, NewCall(leg, "Trying", "Out"))
        /\ callOut' = {FrameOf(NewLeg(n), "NEW", ts, {})}
        /\ callEvents' = Ev("Dialing", n)
  BY DEF Dial
<1> DEFINE leg == SendReliable(NewLeg(n), "NEW", ts, {})
           c == NewCall(leg, "Trying", "Out")
<1>2. NewLeg(n) \in OutLegs /\ NewLeg(n).local = n
  BY NewLegType DEF OutLegs
<1>3. "NEW" \in CallOutKinds /\ {} \subseteq IeKinds
  BY DEF CallOutKinds
<1>4. leg \in OutLegs /\ leg.local = n
  BY <1>2, <1>3, SendReliableType DEF OutLegs
<1>5. callOut' \subseteq OutFrames
  BY <1>1, <1>2, <1>3, FrameOfType DEF OutLegs, OutFrames
<1>6. calls' = With(calls, n, c) /\ callEvents' = Ev("Dialing", n)
  BY <1>1
<1> HIDE DEF leg
<1>7. c \in CallLegs /\ c.leg.local = n
  BY <1>4, NewCallType DEF CallStates
<1> HIDE DEF c
<1>8. TableOK(calls', remoteIndex') /\ DOMAIN calls' = DOMAIN calls \cup {n}
  BY <1>6, <1>7, InvTable, PutCall DEF Dial
<1>9. callnoNext' \in CallNos
  BY <1>1, AllocType
<1>10. Tells(callEvents', calls')
  BY <1>6, <1>8, EvTells DEF EventKinds
<1> QED
  BY <1>5, <1>8, <1>9, <1>10, NoneEnds

\* A command that builds a reliable frame and leaves the call in the table.
LEMMA CommandInv ==
    ASSUME CallInv, NEW n \in DOMAIN calls, NEW kind \in CallOutKinds, NEW ts \in Ts,
           NEW c \in CallLegs, Command(n, kind, ts, c), Tells(callEvents', calls)
    PROVE  CallInv' /\ EndedTold
<1> DEFINE leg == calls[n].leg
           sent == SendReliable(leg, kind, ts, {})
           d == [c EXCEPT !.leg = sent]
<1>1. n \in CallNos /\ leg \in OutLegs /\ leg.local = n
  BY CallType
<1>2. /\ calls' = With(calls, n, d) /\ callOut' = {FrameOf(leg, kind, ts, {})}
      /\ UNCHANGED <<remoteIndex, callnoNext>>
  BY DEF Command
<1> HIDE DEF leg
<1>3. sent \in OutLegs /\ sent.local = n /\ callOut' \subseteq OutFrames
  BY <1>1, <1>2, SendReliableType, FrameOfType DEF OutLegs, OutFrames
<1> HIDE DEF sent
<1>4. d \in CallLegs /\ d.leg.local = n
  BY <1>3 DEF CallLegs, OutLegs
<1> HIDE DEF d
<1>5. TableOK(calls', remoteIndex') /\ DOMAIN calls' = DOMAIN calls
  BY <1>1, <1>2, <1>4, InvTable, PutCall
<1>6. callnoNext' \in CallNos
  BY <1>2 DEF CallInv, CallTypeOK
<1>7. Tells(callEvents', calls')
  BY <1>5 DEF Tells
<1> QED
  BY <1>3, <1>5, <1>6, <1>7, NoneEnds

\* Answering, as the user does: the call stays, Up.
LEMMA AnswerInv ==
    ASSUME CallInv, NEW n \in DOMAIN calls, Answer(n)
    PROVE  CallInv' /\ EndedTold
<1> DEFINE c == [calls[n] EXCEPT !.state = "Up", !.sentFormat = FALSE]
<1>1. PICK ts \in Ts : Command(n, "ANSWER", ts, c)
  BY DEF Answer
<1>2. c \in CallLegs /\ n \in CallNos
  <2>1. calls[n] \in CallLegs /\ n \in CallNos
    BY CallType
  <2> QED
    BY <2>1 DEF CallLegs, CallStates
<1>3. Tells(callEvents', calls) /\ "ANSWER" \in CallOutKinds
  BY <1>2, EvTells DEF Answer, EventKinds, CallOutKinds
<1> HIDE DEF c
<1> QED
  BY <1>1, <1>2, <1>3, CommandInv

\* HOLD and UNHOLD change the state of a call and nothing of the table.
LEMMA SetHoldInv ==
    ASSUME CallInv, NEW n \in DOMAIN calls, NEW hold \in BOOLEAN, SetHold(n, hold)
    PROVE  CallInv' /\ EndedTold
<1> DEFINE c == [calls[n] EXCEPT !.state = IF hold THEN "Held" ELSE "Up"]
           kind == IF hold THEN "HOLD" ELSE "UNHOLD"
<1>1. PICK ts \in Ts : Command(n, kind, ts, c)
  BY DEF SetHold
<1>2. c \in CallLegs
  BY CallType DEF CallLegs, CallStates
<1>3. Tells(callEvents', calls) /\ kind \in CallOutKinds
  BY DEF SetHold, Tells, CallOutKinds
<1> HIDE DEF c, kind
<1> QED
  BY <1>1, <1>2, <1>3, CommandInv

\* A digit puts one more frame on the leg of a call.
LEMMA SendDtmfInv ==
    ASSUME CallInv, NEW n \in DOMAIN calls, SendDtmf(n)
    PROVE  CallInv' /\ EndedTold
<1>1. PICK ts \in Ts : Command(n, "DTMF", ts, calls[n])
  BY DEF SendDtmf
<1>2. Tells(callEvents', calls) /\ "DTMF" \in CallOutKinds
  BY DEF SendDtmf, Tells, CallOutKinds
<1> QED
  BY <1>1, <1>2, CallType, CommandInv

\* Voice advances the leg of a call or leaves the table alone.
LEMMA SendVoiceInv ==
    ASSUME CallInv, NEW n \in DOMAIN calls, SendVoice(n)
    PROVE  CallInv' /\ EndedTold
<1>1. n \in CallNos /\ calls[n] \in CallLegs /\ calls[n].leg \in OutLegs
      /\ calls[n].leg.local = n
  BY CallType
<1>2. callEvents' = {} /\ UNCHANGED <<remoteIndex, callnoNext>>
  BY DEF SendVoice
<1>3. CASE calls[n].sentFormat
  <2>1. callOut' = {[mini |-> n]} /\ UNCHANGED calls
    BY <1>3 DEF SendVoice
  <2>2. callOut' \subseteq MiniFrames
    BY <1>1, <2>1 DEF MiniFrames
  <2>3. TableOK(calls', remoteIndex')
    BY <1>2, <2>1, InvTable
  <2> QED
    BY <1>2, <2>1, <2>2, <2>3, NoneEnds DEF Tells, CallInv, CallTypeOK
<1>4. CASE ~calls[n].sentFormat
  <2> DEFINE leg == Advance(calls[n].leg)
             d == [calls[n] EXCEPT !.leg = leg, !.sentFormat = TRUE]
  <2>1. leg \in OutLegs /\ leg.local = n
    BY <1>1, AdvanceType DEF OutLegs
  <2>2. calls' = [calls EXCEPT ![n].leg = leg, ![n].sentFormat = TRUE]
    BY <1>4 DEF SendVoice
  <2> HIDE DEF leg
  <2>3. d \in CallLegs /\ d.leg.local = n
    BY <1>1, <2>1 DEF CallLegs, OutLegs
  <2>4. DOMAIN calls' = DOMAIN calls /\ calls' = [calls EXCEPT ![n] = d]
    BY <2>2 DEF CallInv, CallTypeOK
  <2> HIDE DEF d
  <2>5. TableOK(calls', remoteIndex')
    BY <1>2, <2>3, <2>4, InvTable DEF TableOK
  <2>6. callOut' \subseteq OutFrames
    <3>1. PICK ts \in Ts : callOut' = {FrameOf(calls[n].leg, "VOICE", ts, {})}
      BY <1>4 DEF SendVoice
    <3>2. "VOICE" \in CallOutKinds
      BY DEF CallOutKinds
    <3> QED
      BY <1>1, <3>1, <3>2, FrameOfType DEF OutLegs, OutFrames
  <2> QED
    BY <1>2, <2>4, <2>5, <2>6, NoneEnds DEF Tells, CallInv, CallTypeOK
<1> QED
  BY <1>3, <1>4

\* The calls that Ended names, when there is one Ended for each of S.
LEMMA EndedOf ==
    ASSUME NEW S, NEW events, events = {[kind |-> "Ended", call |-> n] : n \in S}
    PROVE  {e.call : e \in {d \in events : d.kind = "Ended"}} = S
<1>1. \A d \in events : d.kind = "Ended" /\ d.call \in S
  OBVIOUS
<1>2. \A n \in S : \E d \in events : d.call = n
  <2> TAKE n \in S
  <2> DEFINE d == [kind |-> "Ended", call |-> n]
  <2>1. d \in events /\ d.call = n
    OBVIOUS
  <2> HIDE DEF d
  <2> QED
    BY <2>1
<1>3. {d \in events : d.kind = "Ended"} = events
  BY <1>1
<1>4. {e.call : e \in events} = S
  BY <1>1, <1>2, Zenon
<1> QED
  BY <1>3, <1>4

\* One call ends: the table loses it and Ended names it.
LEMMA OneEnds ==
    ASSUME CallInv, NEW n \in DOMAIN calls, NEW index, TableOK(calls, index),
           DropCalls({n}, calls, index), callEvents' = Ev("Ended", n),
           callOut' \subseteq OutFrames, UNCHANGED callnoNext
    PROVE  CallInv' /\ EndedTold
<1>1. TableOK(calls', remoteIndex') /\ DOMAIN calls' = DOMAIN calls \ {n}
  BY Drop
<1>2. callEvents' \subseteq Events /\ EventsNameLiveCalls'
  BY CallType DEF Ev, Events, EventKinds, EventsNameLiveCalls
<1>3. EndedTold
  <2>1. DOMAIN calls \ DOMAIN calls' = {n}
    BY <1>1
  <2>2. {e.call : e \in {d \in callEvents' : d.kind = "Ended"}} = {n}
    <3>1. callEvents' = {[kind |-> "Ended", call |-> m] : m \in {n}}
      BY DEF Ev
    <3> QED
      BY <3>1, EndedOf
  <2> QED
    BY <2>1, <2>2 DEF EndedTold
<1> QED
  BY <1>1, <1>2, <1>3, Zenon
  DEF CallInv, CallTypeOK, RemoteIndexLive, TableOK, OutFrames

\* The call hung up leaves the table and the index, and its end is told.
LEMMA HangupInv ==
    ASSUME CallInv, NEW n \in DOMAIN calls, Hangup(n)
    PROVE  CallInv' /\ EndedTold
<1>1. PICK ts \in Ts : callOut' = {FrameOf(calls[n].leg, "HANGUP", ts, {})}
  BY DEF Hangup
<1>2. callOut' \subseteq OutFrames
  BY <1>1, CallType, FrameOfType DEF OutLegs, OutFrames, CallOutKinds
<1> QED
  BY <1>2, InvTable, OneEnds DEF Hangup

-----------------------------------------------------------------------------
(* Frames                                                                  *)

\* An incoming NEW puts a call under a free number and indexes it.
LEMMA IncomingInv ==
    ASSUME CallInv, NEW f \in NewFrames, OnIncomingNew(f)
    PROVE  CallInv' /\ EndedTold
<1>1. PICK n \in CallNos, ts \in Ts :
        /\ AllocCallno(n, callnoNext')
        /\ LET leg == NoteRecv(NewLeg(n), f)
               accepted == SendReliable(leg, "ACCEPT", ts, {})
               ringing == SendReliable(accepted, "RINGING", ts, {})
           IN /\ calls' = With(calls, n, NewCall(ringing, "Ringing", "In"))
              /\ callOut' = {FrameOf(leg, "ACCEPT", ts, {}),
                             FrameOf(accepted, "RINGING", ts, {})}
        /\ remoteIndex' = With(remoteIndex, f.src, n)
        /\ callEvents' = Ev("Incoming", n)
  BY DEF OnIncomingNew
<1> DEFINE leg == NoteRecv(NewLeg(n), f)
           accepted == SendReliable(leg, "ACCEPT", ts, {})
           ringing == SendReliable(accepted, "RINGING", ts, {})
           c == NewCall(ringing, "Ringing", "In")
<1>2. calls' = With(calls, n, c)
      /\ callOut' = {FrameOf(leg, "ACCEPT", ts, {}), FrameOf(accepted, "RINGING", ts, {})}
  BY <1>1
<1>3. {"ACCEPT", "RINGING"} \subseteq CallOutKinds /\ {} \subseteq IeKinds
  BY DEF CallOutKinds
<1>4. f.src \in RemoteNos /\ f.oseq \in SeqNo
  BY CallAssumption, LegAssumption DEF Frames
<1>5. leg \in OutLegs /\ leg.local = n
  <2>1. NewLeg(n) \in OutLegs /\ NewLeg(n).local = n
    BY NewLegType DEF OutLegs
  <2> QED
    BY <1>4, <2>1, NoteRecvType DEF OutLegs
<1> HIDE DEF leg
<1>6. accepted \in OutLegs /\ accepted.local = n
  BY <1>3, <1>5, SendReliableType DEF OutLegs
<1> HIDE DEF accepted
<1>7. ringing \in OutLegs /\ ringing.local = n
  BY <1>3, <1>6, SendReliableType DEF OutLegs
<1>8. callOut' \subseteq OutFrames
  BY <1>2, <1>3, <1>5, <1>6, FrameOfType DEF OutLegs, OutFrames
<1> HIDE DEF ringing
<1>9. c \in CallLegs /\ c.leg.local = n
  BY <1>7, NewCallType DEF CallStates
<1> HIDE DEF c
<1>10. TableOK(calls', remoteIndex) /\ DOMAIN calls' = DOMAIN calls \cup {n}
  BY <1>2, <1>9, InvTable, PutCall
<1>11. TableOK(calls', remoteIndex')
  BY <1>1, <1>4, <1>10, PutIndex
<1>12. callnoNext' \in CallNos /\ Tells(callEvents', calls')
  BY <1>1, <1>10, AllocType, EvTells DEF EventKinds
<1> QED
  BY <1>8, <1>10, <1>11, <1>12, NoneEnds

\* The fields of a frame that arrives on a call, as the assumption on
\* CallFrames gives them.
LEMMA CallFrameType ==
    ASSUME NEW f \in CallFrames
    PROVE  f.src \in RemoteNos /\ f.oseq \in SeqNo /\ f.ts \in Ts
BY CallAssumption DEF Frames

\* The prologue of on_call_frame.
LEMMA ReceivedType ==
    ASSUME CallInv, NEW f \in CallFrames, f.dst \in DOMAIN calls
    PROVE  /\ f.dst \in CallNos
           /\ Received(f) \in CallLegs /\ Received(f).leg \in OutLegs
           /\ Received(f).leg.local = f.dst
           /\ TableOK(calls, Indexed(f))
<1> DEFINE leg == Receive(calls[f.dst].leg, f)
<1>1. f.dst \in CallNos /\ calls[f.dst] \in CallLegs /\ calls[f.dst].leg \in OutLegs
      /\ calls[f.dst].leg.local = f.dst
  BY CallType
<1>2. leg \in OutLegs /\ leg.local = f.dst
  BY <1>1, CallFrameType, ReceiveType DEF OutLegs
<1>3. Received(f) = [calls[f.dst] EXCEPT !.leg = leg]
  BY DEF Received
<1> HIDE DEF leg
<1>4. Received(f) \in CallLegs /\ Received(f).leg = leg
  BY <1>1, <1>2, <1>3 DEF CallLegs, OutLegs
<1>5. TableOK(calls, Indexed(f))
  BY InvTable, PutIndex, CallFrameType DEF Indexed
<1> QED
  BY <1>1, <1>2, <1>4, <1>5

\* A frame after which the call goes on.
LEMMA GoesOnInv ==
    ASSUME CallInv, NEW f \in CallFrames, f.dst \in DOMAIN calls,
           NEW c \in CallLegs, c.leg.local = f.dst,
           NEW out, out \subseteq OutFrames, NEW events, Tells(events, calls),
           GoesOn(f, c, out, events)
    PROVE  CallInv' /\ EndedTold
<1>1. f.dst \in CallNos /\ TableOK(calls, Indexed(f))
  BY ReceivedType
<1>2. TableOK(calls', remoteIndex') /\ DOMAIN calls' = DOMAIN calls
  BY <1>1, PutCall DEF GoesOn
<1>3. Tells(callEvents', calls') /\ callnoNext' \in CallNos
  BY <1>2 DEF Tells, GoesOn, CallInv, CallTypeOK
<1>4. callOut' \subseteq OutFrames
  BY DEF GoesOn
<1> QED
  BY <1>2, <1>3, <1>4, NoneEnds

\* The arms that acknowledge a frame and keep its call.
LEMMA AcknowledgeInv ==
    ASSUME CallInv, NEW f \in CallFrames, f.dst \in DOMAIN calls,
           NEW c \in CallLegs, c.leg = Received(f).leg,
           NEW events, Tells(events, calls), Acknowledge(f, c, events)
    PROVE  CallInv' /\ EndedTold
<1>1. PICK ts \in Ts : GoesOn(f, c, {FrameOf(c.leg, "ACK", ts, {})}, events)
  BY DEF Acknowledge, AckFrame
<1>2. c.leg \in OutLegs /\ c.leg.local = f.dst
  BY ReceivedType
<1>3. "ACK" \in CallOutKinds /\ {} \subseteq IeKinds
  BY DEF CallOutKinds
<1>4. {FrameOf(c.leg, "ACK", ts, {})} \subseteq OutFrames
  BY <1>2, <1>3, FrameOfType DEF OutLegs, OutFrames
<1> QED
  BY <1>1, <1>2, <1>4, GoesOnInv

\* The NEW sent again with its token resets the leg and keeps the call.
LEMMA NewTokenInv ==
    ASSUME CallInv, NEW f \in CallFrames, f.dst \in DOMAIN calls, ResendNewWithToken(f)
    PROVE  CallInv' /\ EndedTold
<1> DEFINE n == f.dst
           fresh == ResetLeg(calls[n].leg)
<1>1. n \in CallNos /\ calls[n] \in CallLegs /\ calls[n].leg \in OutLegs
      /\ calls[n].leg.local = n
  BY CallType
<1>2. PICK ts \in Ts :
        /\ calls' = [calls EXCEPT ![n].leg = SendReliable(fresh, "NEW", ts, {"TOKEN"})]
        /\ callOut' = {FrameOf(fresh, "NEW", ts, {"TOKEN"})}
  BY DEF ResendNewWithToken
<1>3. callEvents' = {} /\ UNCHANGED <<remoteIndex, callnoNext>>
  BY DEF ResendNewWithToken
<1>4. fresh \in OutLegs /\ fresh.local = n
  BY <1>1, ResetLegType DEF OutLegs
<1>5. "NEW" \in CallOutKinds /\ {"TOKEN"} \subseteq IeKinds
  BY DEF CallOutKinds, IeKinds
<1> DEFINE leg == SendReliable(fresh, "NEW", ts, {"TOKEN"})
           d == [calls[n] EXCEPT !.leg = leg]
<1> HIDE DEF fresh
<1>6. leg \in OutLegs /\ leg.local = n /\ callOut' \subseteq OutFrames
  BY <1>2, <1>4, <1>5, SendReliableType, FrameOfType DEF OutLegs, OutFrames
<1>7. calls' = [calls EXCEPT ![n].leg = leg]
  BY <1>2
<1> HIDE DEF leg
<1>8. d \in CallLegs /\ d.leg.local = n
  BY <1>1, <1>6 DEF CallLegs, OutLegs
<1>9. calls' = [calls EXCEPT ![n] = d] /\ DOMAIN calls' = DOMAIN calls
  BY <1>7 DEF CallInv, CallTypeOK
<1> HIDE DEF d
<1>10. TableOK(calls', remoteIndex')
  BY <1>3, <1>8, <1>9, InvTable DEF TableOK
<1> QED
  BY <1>3, <1>6, <1>9, <1>10, NoneEnds DEF Tells, CallInv, CallTypeOK

\* All the arms of on_call_frame.
LEMMA CallFrameInv ==
    ASSUME CallInv, NEW f \in CallFrames, f.dst \in DOMAIN calls, OnCallFrame(f)
    PROVE  CallInv' /\ EndedTold
<1> DEFINE c == Received(f)
<1>1. /\ f.dst \in CallNos /\ c \in CallLegs /\ c.leg \in OutLegs
      /\ c.leg.local = f.dst /\ TableOK(calls, Indexed(f))
  BY ReceivedType
<1>2. Tells({}, calls) /\ {} \subseteq IeKinds
  BY DEF Tells
<1>3. ASSUME NEW kind \in EventKinds \ {"Ended"} PROVE Tells(Ev(kind, f.dst), calls)
  BY <1>1, EvTells
<1>4. CASE OnVoice(f)
  <2> DEFINE d == [c EXCEPT !.voiceSeen = TRUE]
             events == IF calls[f.dst].state = "Up" THEN Ev("Voice", f.dst) ELSE {}
  <2>1. Acknowledge(f, d, events)
    BY <1>4 DEF OnVoice
  <2>2. d \in CallLegs /\ d.leg = c.leg
    BY <1>1 DEF CallLegs
  <2>3. Tells(events, calls)
    BY <1>2, <1>3 DEF EventKinds
  <2> HIDE DEF d, events
  <2> QED
    BY <2>1, <2>2, <2>3, AcknowledgeInv
<1>5. CASE OnAuthReq(f)
  <2>1. CASE GoesOn(f, c, {}, {})
    BY <1>1, <1>2, <2>1, GoesOnInv
  <2>2. ASSUME NEW ts \in Ts,
               GoesOn(f, [c EXCEPT !.leg = SendReliable(@, "AUTHREP", ts, {"MD5"})],
                      {FrameOf(c.leg, "AUTHREP", ts, {"MD5"})}, {})
        PROVE  CallInv' /\ EndedTold
    <3> DEFINE sent == SendReliable(c.leg, "AUTHREP", ts, {"MD5"})
               d == [c EXCEPT !.leg = sent]
               out == {FrameOf(c.leg, "AUTHREP", ts, {"MD5"})}
    <3>1. "AUTHREP" \in CallOutKinds /\ {"MD5"} \subseteq IeKinds
      BY DEF CallOutKinds, IeKinds
    <3>2. sent \in OutLegs /\ sent.local = f.dst /\ out \subseteq OutFrames
      BY <1>1, <3>1, SendReliableType, FrameOfType DEF OutLegs, OutFrames
    <3>3. GoesOn(f, d, out, {})
      BY <2>2
    <3> HIDE DEF sent, out
    <3>4. d \in CallLegs /\ d.leg.local = f.dst
      BY <1>1, <3>2 DEF CallLegs, OutLegs
    <3> HIDE DEF d
    <3> QED
      BY <1>2, <3>2, <3>3, <3>4, GoesOnInv
  <2> QED
    BY <1>5, <2>1, <2>2 DEF OnAuthReq
<1>6. CASE OnRinging(f)
  <2> DEFINE d == [c EXCEPT !.state = "Ringing"]
  <2>1. Acknowledge(f, d, Ev("Ringing", f.dst))
    BY <1>6 DEF OnRinging
  <2>2. d \in CallLegs /\ d.leg = c.leg
    BY <1>1 DEF CallLegs, CallStates
  <2> HIDE DEF d
  <2> QED
    BY <1>3, <2>1, <2>2, AcknowledgeInv DEF EventKinds
<1>7. CASE OnAnswer(f)
  <2> DEFINE d == [c EXCEPT !.state = "Up", !.sentFormat = FALSE]
  <2>1. Acknowledge(f, d, Ev("Answered", f.dst))
    BY <1>7 DEF OnAnswer
  <2>2. d \in CallLegs /\ d.leg = c.leg
    BY <1>1 DEF CallLegs, CallStates
  <2> HIDE DEF d
  <2> QED
    BY <1>3, <2>1, <2>2, AcknowledgeInv DEF EventKinds
<1>8. CASE OnRemoteEnd(f)
  <2>1. PICK ts \in Ts : callOut' = {FrameOf(c.leg, "ACK", ts, {})}
    BY <1>8 DEF OnRemoteEnd, AckFrame
  <2>2. callOut' \subseteq OutFrames
    BY <1>1, <1>2, <2>1, FrameOfType DEF OutLegs, OutFrames, CallOutKinds
  <2> QED
    BY <1>1, <1>8, <2>2, OneEnds DEF OnRemoteEnd
<1>9. ASSUME NEW probe, NEW reply \in CallOutKinds, OnProbe(f, probe, reply)
      PROVE  CallInv' /\ EndedTold
  <2> DEFINE leg == Advance(c.leg)
             d == [c EXCEPT !.leg = leg]
             out == {FrameOf(c.leg, reply, f.ts, {})}
  <2>1. GoesOn(f, d, out, {})
    BY <1>9 DEF OnProbe
  <2>2. leg \in OutLegs /\ leg.local = f.dst /\ out \subseteq OutFrames
    BY <1>1, <1>2, CallFrameType, AdvanceType, FrameOfType DEF OutLegs, OutFrames
  <2> HIDE DEF leg, out
  <2>3. d \in CallLegs /\ d.leg.local = f.dst
    BY <1>1, <2>2 DEF CallLegs, OutLegs
  <2> HIDE DEF d
  <2> QED
    BY <1>2, <2>1, <2>2, <2>3, GoesOnInv
<1>10. CASE OnDtmf(f)
  BY <1>1, <1>3, <1>10, AcknowledgeInv DEF OnDtmf, EventKinds
<1>11. CASE OnSilent(f)
  BY <1>1, <1>2, <1>11, GoesOnInv DEF OnSilent
<1>12. CASE OnAcknowledged(f)
  BY <1>1, <1>2, <1>12, AcknowledgeInv DEF OnAcknowledged
<1>13. "LAGRP" \in CallOutKinds /\ "PONG" \in CallOutKinds
  BY DEF CallOutKinds
<1> QED
  BY <1>4, <1>5, <1>6, <1>7, <1>8, <1>9, <1>10, <1>11, <1>12, <1>13 DEF OnCallFrame

\* A mini-frame changes no call; its Voice event names a live one.
LEMMA MiniFrameInv ==
    ASSUME CallInv, NEW r \in DOMAIN remoteIndex, remoteIndex[r] \in DOMAIN calls,
           OnMiniFrame(r)
    PROVE  CallInv' /\ EndedTold
<1> DEFINE n == remoteIndex[r]
           d == [calls[n] EXCEPT !.voiceSeen = TRUE]
<1>1. n \in CallNos /\ calls[n] \in CallLegs /\ calls[n].leg.local = n
  BY CallType
<1>2. d \in CallLegs /\ d.leg.local = n
  BY <1>1 DEF CallLegs
<1>3. calls' = [calls EXCEPT ![n] = d] /\ DOMAIN calls' = DOMAIN calls
  BY DEF OnMiniFrame, CallInv, CallTypeOK
<1> HIDE DEF d
<1>4. /\ callOut' = {} /\ callEvents' = Ev("Voice", n)
      /\ UNCHANGED <<remoteIndex, callnoNext>>
  BY DEF OnMiniFrame
<1>5. TableOK(calls', remoteIndex')
  BY <1>2, <1>3, <1>4, InvTable DEF TableOK
<1>6. Tells(callEvents', calls')
  BY <1>1, <1>3, <1>4, EvTells DEF EventKinds
<1> QED
  BY <1>3, <1>4, <1>5, <1>6, NoneEnds DEF CallInv, CallTypeOK

-----------------------------------------------------------------------------
(* Timers                                                                  *)

\* A pass over all the legs that keeps each a leg of its call.
LEMMA MapLegs ==
    ASSUME CallInv, NEW table, DOMAIN table = DOMAIN calls,
           table \in [DOMAIN calls -> CallLegs],
           \A n \in DOMAIN calls : table[n].leg.local = n
    PROVE  TableOK(table, remoteIndex)
BY InvTable DEF TableOK

\* The retransmission pass drops exactly the calls it reports ended.
LEMMA CallTimeoutInv == ASSUME CallInv, CallHandleTimeout PROVE CallInv' /\ EndedTold
<1> DEFINE dead == {n \in DOMAIN calls : Exhausted(calls[n].leg)}
           again(n) == RetransmitLeg(calls[n].leg)
           resent == [n \in DOMAIN calls |-> [calls[n] EXCEPT !.leg = again(n)]]
<1>1. /\ DropCalls(dead, resent, remoteIndex)
      /\ callOut' = UNION {ResentFrames(calls[n].leg) : n \in DOMAIN calls}
      /\ callEvents' = UNION {Ev("Ended", n) : n \in dead}
      /\ UNCHANGED callnoNext
  BY DEF CallHandleTimeout
<1>2. ASSUME NEW n \in DOMAIN calls
      PROVE  again(n) \in OutLegs /\ again(n).local = n
             /\ ResentFrames(calls[n].leg) \subseteq OutFrames
  BY CallType, RetransmitLegType, ResentFramesType DEF OutLegs, OutFrames
<1> HIDE DEF again
<1>3. ASSUME NEW n \in DOMAIN calls
      PROVE  resent[n] \in CallLegs /\ resent[n].leg.local = n
  BY <1>2, CallType DEF CallLegs, OutLegs
<1>4. DOMAIN resent = DOMAIN calls /\ resent \in [DOMAIN calls -> CallLegs]
  BY <1>3
<1>5. dead \subseteq DOMAIN calls /\ \A n \in dead : n \in CallNos
  BY CallType
<1> HIDE DEF resent, dead
<1>6. TableOK(resent, remoteIndex)
  BY <1>3, <1>4, MapLegs
<1>7. TableOK(calls', remoteIndex') /\ DOMAIN calls' = DOMAIN calls \ dead
  BY <1>1, <1>4, <1>6, Drop
<1>8. callEvents' = {[kind |-> "Ended", call |-> n] : n \in dead}
  BY <1>1 DEF Ev
<1>9. callEvents' \subseteq Events /\ EventsNameLiveCalls'
  BY <1>5, <1>8 DEF Events, EventKinds, EventsNameLiveCalls
<1>10. EndedTold
  <2>1. DOMAIN calls \ DOMAIN calls' = dead
    BY <1>5, <1>7
  <2>2. {e.call : e \in {d \in callEvents' : d.kind = "Ended"}} = dead
    BY <1>8, EndedOf
  <2> QED
    BY <2>1, <2>2 DEF EndedTold
<1>11. callOut' \subseteq OutFrames
  BY <1>1, <1>2
<1>12. callnoNext' \in CallNos
  BY <1>1 DEF CallInv, CallTypeOK
<1> QED
  BY <1>7, <1>9, <1>10, <1>11, <1>12, Zenon
  DEF CallInv, CallTypeOK, RemoteIndexLive, TableOK, OutFrames

\* Time moves deadlines and nothing else.
LEMMA CallTickInv == ASSUME CallInv, CallTick PROVE CallInv' /\ EndedTold
<1> DEFINE ticked(n) == TickLeg(calls[n].leg)
<1>1. calls' = [n \in DOMAIN calls |-> [calls[n] EXCEPT !.leg = ticked(n)]]
      /\ callOut' = {} /\ callEvents' = {} /\ UNCHANGED <<remoteIndex, callnoNext>>
  BY DEF CallTick
<1>2. ASSUME NEW n \in DOMAIN calls PROVE ticked(n) \in OutLegs /\ ticked(n).local = n
  BY CallType, TickLegType DEF OutLegs
<1> HIDE DEF ticked
<1>3. ASSUME NEW n \in DOMAIN calls
      PROVE  calls'[n] \in CallLegs /\ calls'[n].leg.local = n
  BY <1>1, <1>2, CallType DEF CallLegs, OutLegs
<1>4. DOMAIN calls' = DOMAIN calls /\ calls' \in [DOMAIN calls -> CallLegs]
  BY <1>1, <1>3
<1>5. TableOK(calls', remoteIndex')
  BY <1>1, <1>3, <1>4, MapLegs
<1> QED
  BY <1>1, <1>4, <1>5, NoneEnds DEF Tells, CallInv, CallTypeOK

-----------------------------------------------------------------------------
\* Every step keeps the invariant and tells of the calls it drops.
LEMMA CallStep == CallInv /\ [CallNext]_callVars => CallInv' /\ [EndedTold]_callVars
<1> SUFFICES ASSUME CallInv, [CallNext]_callVars PROVE CallInv' /\ [EndedTold]_callVars
  OBVIOUS
<1>1. CASE Dial
  BY <1>1, DialInv
<1>2. ASSUME NEW n \in DOMAIN calls, CallCommand(n) PROVE CallInv' /\ EndedTold
  BY <1>2, AnswerInv, HangupInv, SetHoldInv, SendDtmfInv, SendVoiceInv DEF CallCommand
<1>3. ASSUME NEW f \in NewFrames, OnIncomingNew(f) PROVE CallInv' /\ EndedTold
  BY <1>3, IncomingInv
<1>4. ASSUME NEW f \in CallFrames, f.dst \in DOMAIN calls, CallInput(f)
      PROVE  CallInv' /\ EndedTold
  BY <1>4, NewTokenInv, CallFrameInv DEF CallInput
<1>5. ASSUME NEW r \in DOMAIN remoteIndex, remoteIndex[r] \in DOMAIN calls, OnMiniFrame(r)
      PROVE  CallInv' /\ EndedTold
  BY <1>5, MiniFrameInv
<1>6. CASE CallHandleTimeout
  BY <1>6, CallTimeoutInv
<1>7. CASE CallTick
  BY <1>7, CallTickInv
<1>8. CASE CallDrain
  <2>1. TableOK(calls', remoteIndex') /\ callnoNext' \in CallNos
    BY <1>8, InvTable DEF CallDrain, CallInv, CallTypeOK
  <2> QED
    BY <1>8, <2>1, NoneEnds DEF CallDrain, Tells
<1>9. CASE UNCHANGED callVars
  BY <1>9, Zenon DEF callVars, CallInv, CallTypeOK, RemoteIndexLive, EventsNameLiveCalls
<1> QED
  BY <1>1, <1>2, <1>3, <1>4, <1>5, <1>6, <1>7, <1>8, <1>9 DEF CallNext

\* The inductive invariant holds in every reachable state of the call table.
THEOREM CallInvariant == CallSpec => []CallInv
BY CallInitInv, CallStep, PTL DEF CallSpec

\* The table, the legs, the index and what is sent keep their types.
THEOREM CallTypeCorrect == CallSpec => []CallTypeOK
BY CallInvariant, PTL DEF CallInv

\* A mini-frame is never routed to a call that is gone.
THEOREM IndexAlwaysLive == CallSpec => []RemoteIndexLive
BY CallInvariant, PTL DEF CallInv

\* The driver is never told anything but Ended about a call it cannot command.
THEOREM EventsAlwaysLive == CallSpec => []EventsNameLiveCalls
BY CallInvariant, PTL DEF CallInv

\* Calls leave the table exactly when the driver is told, once for each call.
THEOREM EndedAlwaysTold == CallSpec => EndedIffDropped
<1>1. CallInit => CallInv
  BY CallInitInv
<1>2. CallInv /\ [CallNext]_callVars => CallInv' /\ [EndedTold]_callVars
  BY CallStep
<1> QED
  BY <1>1, <1>2, PTL DEF CallSpec, EndedIffDropped

-----------------------------------------------------------------------------
(* The life cycle                                                          *)

Lines == [n \in DOMAIN calls |-> [state |-> calls[n].state, dir |-> calls[n].dir]]

-----------------------------------------------------------------------------
(* Call numbers                                                            *)

\* Division leaves a number smaller than the divisor as it is, and one turn
\* of the circle does not matter.
LEMMA OneTurn ==
    ASSUME NEW m \in Nat \ {0}, NEW x \in 0 .. m - 1
    PROVE  x % m = x /\ (x + m) % m = x
BY SMTT(30)

\* The search starting at callno_next reaches every call number.
LEMMA SearchReachesAll ==
    ASSUME CallInv, NEW n \in CallNos
    PROVE  \E s \in 0 .. CallTop - CallBase : Cyclic(s) = n
<1> DEFINE span == CallTop - CallBase + 1
           x == n - CallBase
           from == callnoNext - CallBase
<1>1. CallBase \in Nat /\ CallTop \in Nat /\ CallBase <= CallTop
      /\ n \in CallBase .. CallTop /\ callnoNext \in CallBase .. CallTop
  BY CallAssumption DEF CallInv, CallTypeOK, CallNos
<1>2. span \in Nat \ {0} /\ x \in 0 .. span - 1 /\ from \in 0 .. span - 1
  BY <1>1
<1>3. \A s \in Nat : Cyclic(s) = CallBase + ((from + s) % span)
  BY DEF Cyclic
<1>4. n = CallBase + x /\ CallTop - CallBase = span - 1
  BY <1>1
<1> HIDE DEF span, x, from
<1>5. x % span = x /\ (x + span) % span = x
  BY <1>2, OneTurn
<1>6. CASE from <= x
  <2>1. x - from \in 0 .. span - 1 /\ from + (x - from) = x
    BY <1>2, <1>6
  <2>2. Cyclic(x - from) = n
    BY <1>3, <1>4, <1>5, <2>1
  <2> QED
    BY <1>4, <2>1, <2>2
<1>7. CASE x < from
  <2>1. x - from + span \in 0 .. span - 1 /\ from + (x - from + span) = x + span
    BY <1>2, <1>7
  <2>2. Cyclic(x - from + span) = n
    BY <1>3, <1>4, <1>5, <2>1
  <2> QED
    BY <1>4, <2>1, <2>2
<1> QED
  BY <1>2, <1>6, <1>7

\* With fewer calls than numbers, alloc_callno finds one that no call has.
LEMMA AllocFresh ==
    ASSUME CallInv, Cardinality(DOMAIN calls) < MaxCalls,
           NEW n, NEW next, AllocCallno(n, next)
    PROVE  n \in CallNos \ DOMAIN calls
<1>1. IsFiniteSet(CallNos) /\ Cardinality(CallNos) = CallTop - CallBase + 1
  BY CallAssumption, FS_Interval DEF CallNos
<1>2. ~(CallNos \subseteq DOMAIN calls)
  <2>1. DOMAIN calls \subseteq CallNos
    BY DEF CallInv, CallTypeOK
  <2>2. DOMAIN calls = CallNos => FALSE
    BY <1>1, CallAssumption
  <2> QED
    BY <2>1, <2>2
<1>3. FreeSteps # {}
  BY <1>2, SearchReachesAll DEF FreeSteps
<1>4. PICK s \in FreeSteps : n = Cyclic(s)
  BY <1>3, Zenon DEF AllocCallno
<1>5. n \notin DOMAIN calls
  BY <1>4 DEF FreeSteps
<1> QED
  BY <1>5, AllocType

-----------------------------------------------------------------------------
(* What a handler does to the calls, seen from the driver                  *)

\* Call n goes on in the given state, the others as they are.
Goes(n, state, events) ==
    /\ DOMAIN calls' = DOMAIN calls
    /\ \A k \in DOMAIN calls :
        /\ calls'[k].dir = calls[k].dir
        /\ calls'[k].state = IF k = n THEN state ELSE calls[k].state
    /\ callEvents' = events

\* Such a step is a step of the life cycle.
LEMMA GoesStep ==
    ASSUME NEW n \in DOMAIN calls, NEW state, NEW events, Goes(n, state, events)
    PROVE  Life!GoesOnAs(n, state, events)
<1>1. Lines' = [Lines EXCEPT ![n].state = state]
  BY DEF Goes, Lines
<1> QED
  BY <1>1 DEF Goes, Life!GoesOnAs, Lines

\* Storing a call again under its number, its direction kept.
LEMMA PutGoes ==
    ASSUME CallInv, NEW n \in DOMAIN calls, NEW c, c.dir = calls[n].dir,
           calls' = With(calls, n, c), NEW events, callEvents' = events
    PROVE  Goes(n, c.state, events)
BY DEF Goes, With

\* A call under a number that was free.
LEMMA NewStep ==
    ASSUME NEW n \in CallNos \ DOMAIN calls, NEW leg, NEW state, NEW dir, NEW kind,
           calls' = With(calls, n, NewCall(leg, state, dir)), callEvents' = Ev(kind, n)
    PROVE  Life!Begins(state, dir, kind)
<1>1. DOMAIN Lines = DOMAIN calls /\ DOMAIN Lines' = DOMAIN calls \cup {n}
  BY DEF Lines, With
<1>2. Lines' = [k \in DOMAIN Lines \cup {n} |->
                  IF k = n THEN [state |-> state, dir |-> dir] ELSE Lines[k]]
  BY <1>1 DEF Lines, With, NewCall
<1> QED
  BY <1>1, <1>2, Zenon DEF Life!Begins, Life!Event, Ev, Lines

\* Calls leave the table, and each is told so.
LEMMA EndsStep ==
    ASSUME NEW dead, dead \subseteq DOMAIN calls, DOMAIN calls' = DOMAIN calls \ dead,
           \A n \in DOMAIN calls' :
                calls'[n].state = calls[n].state /\ calls'[n].dir = calls[n].dir,
           callEvents' = {[kind |-> "Ended", call |-> n] : n \in dead}
    PROVE  Life!Ends
<1>1. Lines' = [n \in DOMAIN Lines \ dead |-> Lines[n]] /\ dead \subseteq DOMAIN Lines
  BY DEF Lines
<1> QED
  BY <1>1, Zenon DEF Life!Ends, Life!Event, Lines

\* Nothing is told and no call changes.
LEMMA QuietStep ==
    ASSUME DOMAIN calls' = DOMAIN calls, callEvents' = {},
           \A n \in DOMAIN calls :
                calls'[n].state = calls[n].state /\ calls'[n].dir = calls[n].dir
    PROVE  Life!Ends
BY EndsStep

\* drop_call of calls whose state and direction the table still has.
LEMMA DropStep ==
    ASSUME NEW dead, dead \subseteq DOMAIN calls, NEW table, NEW index,
           DropCalls(dead, table, index), DOMAIN table = DOMAIN calls,
           \A n \in DOMAIN calls :
                table[n].state = calls[n].state /\ table[n].dir = calls[n].dir,
           callEvents' = {[kind |-> "Ended", call |-> n] : n \in dead}
    PROVE  Life!Ends
BY EndsStep DEF DropCalls, Without

\* The alternatives of the life cycle for a call that goes on.
LEMMA GoesLife ==
    ASSUME NEW n \in DOMAIN calls, NEW state, NEW events, Goes(n, state, events),
           \/ state = "Ringing" /\ events = Ev("Ringing", n)
           \/ state = "Up" /\ events = Ev("Answered", n)
           \/ state \in {"Up", "Held"} /\ events = {}
           \/ state = "Up" /\ calls[n].state = "Up" /\ events = Ev("Voice", n)
           \/ state = calls[n].state /\ events \in {Ev("Dtmf", n), {}}
    PROVE  Life!LifeNext
<1>1. Life!GoesOnAs(n, state, events)
  BY GoesStep
<1>2. n \in DOMAIN Lines /\ Lines[n].state = calls[n].state
  BY DEF Lines
<1>3. CASE state = calls[n].state /\ events = {}
  BY <1>3, QuietStep DEF Goes, Life!LifeNext
<1> QED
  BY <1>1, <1>2, <1>3, Zenon DEF Life!LifeNext, Life!Event, Ev, Lines

-----------------------------------------------------------------------------
(* The handlers                                                            *)

\* Dialling and an incoming NEW begin a call under a free number.
LEMMA BeginsLife ==
    ASSUME CallInv, Dial \/ \E f \in NewFrames : OnIncomingNew(f)
    PROVE  Life!LifeNext
<1>1. CASE Dial
  <2>1. PICK n \in CallNos, ts \in Ts :
          /\ AllocCallno(n, callnoNext')
          /\ LET leg == SendReliable(NewLeg(n), "NEW", ts, {})
             IN calls' = With(calls, n, NewCall(leg, "Trying", "Out"))
          /\ callEvents' = Ev("Dialing", n)
    BY <1>1 DEF Dial
  <2>2. n \in CallNos \ DOMAIN calls
    BY <1>1, <2>1, AllocFresh DEF Dial
  <2> QED
    BY <2>1, <2>2, NewStep, Zenon DEF Life!LifeNext
<1>2. ASSUME NEW f \in NewFrames, OnIncomingNew(f) PROVE Life!LifeNext
  <2>1. PICK n \in CallNos, ts \in Ts :
          /\ AllocCallno(n, callnoNext')
          /\ LET leg == NoteRecv(NewLeg(n), f)
                 accepted == SendReliable(leg, "ACCEPT", ts, {})
                 ringing == SendReliable(accepted, "RINGING", ts, {})
             IN calls' = With(calls, n, NewCall(ringing, "Ringing", "In"))
          /\ callEvents' = Ev("Incoming", n)
    BY <1>2 DEF OnIncomingNew
  <2>2. n \in CallNos \ DOMAIN calls
    BY <1>2, <2>1, AllocFresh DEF OnIncomingNew
  <2> QED
    BY <2>1, <2>2, NewStep, Zenon DEF Life!LifeNext
<1> QED
  BY <1>1, <1>2

\* A command's frame leaves state and direction to the record it stores.
LEMMA CommandGoes ==
    ASSUME CallInv, NEW n \in DOMAIN calls, NEW kind, NEW ts, NEW c \in CallLegs,
           Command(n, kind, ts, c), c.dir = calls[n].dir
    PROVE  Goes(n, c.state, callEvents')
<1> DEFINE sent == SendReliable(calls[n].leg, kind, ts, {})
           d == [c EXCEPT !.leg = sent]
<1>1. calls' = With(calls, n, d)
  BY DEF Command
<1> HIDE DEF sent
<1>2. d.dir = calls[n].dir /\ d.state = c.state
  BY DEF CallLegs
<1> HIDE DEF d
<1>3. Goes(n, d.state, callEvents')
  BY <1>1, <1>2, PutGoes
<1> QED
  BY <1>2, <1>3

\* Every command of the driver is a step of the life cycle.
LEMMA CommandLife ==
    ASSUME CallInv, NEW n \in DOMAIN calls, CallCommand(n)
    PROVE  Life!LifeNext
<1>1. n \in CallNos /\ calls[n] \in CallLegs
  BY CallType
<1>2. CASE Answer(n)
  <2> DEFINE c == [calls[n] EXCEPT !.state = "Up", !.sentFormat = FALSE]
  <2>1. PICK ts \in Ts : Command(n, "ANSWER", ts, c)
    BY <1>2 DEF Answer
  <2>2. c \in CallLegs /\ c.dir = calls[n].dir /\ c.state = "Up"
    BY <1>1 DEF CallLegs, CallStates
  <2> HIDE DEF c
  <2>3. Goes(n, "Up", Ev("Answered", n))
    BY <1>2, <2>1, <2>2, CommandGoes DEF Answer
  <2> QED
    BY <2>3, GoesLife
<1>3. ASSUME NEW hold \in BOOLEAN, SetHold(n, hold) PROVE Life!LifeNext
  <2> DEFINE state == IF hold THEN "Held" ELSE "Up"
             kind == IF hold THEN "HOLD" ELSE "UNHOLD"
             c == [calls[n] EXCEPT !.state = state]
  <2>1. PICK ts \in Ts : Command(n, kind, ts, c)
    BY <1>3 DEF SetHold
  <2>2. state \in {"Up", "Held"}
    OBVIOUS
  <2> HIDE DEF kind, state
  <2>3. c \in CallLegs /\ c.dir = calls[n].dir /\ c.state = state
    BY <1>1, <2>2 DEF CallLegs, CallStates
  <2> HIDE DEF c
  <2>4. Goes(n, state, {})
    BY <1>3, <2>1, <2>3, CommandGoes DEF SetHold
  <2> QED
    BY <2>2, <2>4, GoesLife
<1>4. CASE SendDtmf(n)
  <2>1. PICK ts \in Ts : Command(n, "DTMF", ts, calls[n])
    BY <1>4 DEF SendDtmf
  <2>2. Goes(n, calls[n].state, {})
    BY <1>1, <1>4, <2>1, CommandGoes DEF SendDtmf
  <2> QED
    BY <2>2, GoesLife
<1>5. CASE SendVoice(n)
  <2>1. CASE calls[n].sentFormat
    BY <1>5, <2>1, QuietStep DEF SendVoice, Life!LifeNext
  <2>2. CASE ~calls[n].sentFormat
    <3> DEFINE leg == Advance(calls[n].leg)
    <3>1. calls' = [calls EXCEPT ![n].leg = leg, ![n].sentFormat = TRUE]
      BY <1>5, <2>2 DEF SendVoice
    <3> HIDE DEF leg
    <3>2. DOMAIN calls' = DOMAIN calls
      BY <3>1
    <3>3. \A k \in DOMAIN calls :
            calls'[k].state = calls[k].state /\ calls'[k].dir = calls[k].dir
      BY <1>1, <3>1 DEF CallLegs
    <3> QED
      BY <1>5, <3>2, <3>3, QuietStep DEF SendVoice, Life!LifeNext
  <2> QED
    BY <2>1, <2>2
<1>6. CASE Hangup(n)
  BY <1>6, DropStep DEF Hangup, Ev, Life!LifeNext
<1> QED
  BY <1>2, <1>3, <1>4, <1>5, <1>6 DEF CallCommand

\* A frame after which the call goes on.
LEMMA FrameGoes ==
    ASSUME CallInv, NEW f \in CallFrames, f.dst \in DOMAIN calls,
           NEW c, c.dir = calls[f.dst].dir, NEW out, NEW events,
           GoesOn(f, c, out, events)
    PROVE  Goes(f.dst, c.state, events)
BY PutGoes DEF GoesOn

\* So are the arms of on_call_frame.
LEMMA FrameLife ==
    ASSUME CallInv, NEW f \in CallFrames, f.dst \in DOMAIN calls, OnCallFrame(f)
    PROVE  Life!LifeNext
<1> DEFINE n == f.dst
           c == Received(f)
<1>1. c \in CallLegs /\ n \in DOMAIN calls
  BY ReceivedType
<1>2. c.dir = calls[n].dir /\ c.state = calls[n].state
  <2>1. calls[n] \in CallLegs
    BY CallType
  <2> QED
    BY <2>1 DEF Received, CallLegs
<1> HIDE DEF c, n
<1>3. ASSUME NEW d, NEW events, d.dir = c.dir, Acknowledge(f, d, events)
      PROVE  Goes(n, d.state, events)
  BY <1>2, <1>3, FrameGoes DEF Acknowledge, n
<1>4. CASE OnVoice(f)
  <2> DEFINE d == [c EXCEPT !.voiceSeen = TRUE]
             events == IF calls[n].state = "Up" THEN Ev("Voice", n) ELSE {}
  <2>1. Acknowledge(f, d, events)
    BY <1>4 DEF OnVoice, c, n
  <2>2. d.dir = c.dir /\ d.state = c.state
    BY <1>1 DEF CallLegs
  <2> HIDE DEF d
  <2>3. Goes(n, calls[n].state, events)
    BY <1>2, <1>3, <2>1, <2>2
  <2> QED
    BY <1>1, <2>3, GoesLife
<1>5. CASE OnAuthReq(f)
  <2>1. CASE GoesOn(f, c, {}, {})
    BY <1>1, <1>2, <2>1, FrameGoes, GoesLife DEF n
  <2>2. ASSUME NEW leg, NEW out, GoesOn(f, [c EXCEPT !.leg = leg], out, {})
        PROVE  Life!LifeNext
    <3> DEFINE d == [c EXCEPT !.leg = leg]
    <3>1. d.dir = c.dir /\ d.state = c.state
      BY <1>1 DEF CallLegs
    <3>2. GoesOn(f, d, out, {})
      BY <2>2
    <3> HIDE DEF d
    <3>3. Goes(n, calls[n].state, {})
      BY <1>2, <3>1, <3>2, FrameGoes DEF n
    <3> QED
      BY <1>1, <3>3, GoesLife
  <2> QED
    BY <1>5, <2>1, <2>2 DEF OnAuthReq, c
<1>6. CASE OnRinging(f)
  <2> DEFINE d == [c EXCEPT !.state = "Ringing"]
  <2>1. Acknowledge(f, d, Ev("Ringing", n))
    BY <1>6 DEF OnRinging, c, n
  <2>2. d.dir = c.dir /\ d.state = "Ringing"
    BY <1>1 DEF CallLegs
  <2> HIDE DEF d
  <2> QED
    BY <1>1, <1>3, <2>1, <2>2, GoesLife
<1>7. CASE OnAnswer(f)
  <2> DEFINE d == [c EXCEPT !.state = "Up", !.sentFormat = FALSE]
  <2>1. Acknowledge(f, d, Ev("Answered", n))
    BY <1>7 DEF OnAnswer, c, n
  <2>2. d.dir = c.dir /\ d.state = "Up"
    BY <1>1 DEF CallLegs
  <2> HIDE DEF d
  <2> QED
    BY <1>1, <1>3, <2>1, <2>2, GoesLife
<1>8. CASE OnRemoteEnd(f)
  BY <1>8, DropStep DEF OnRemoteEnd, Ev, Life!LifeNext
<1>9. ASSUME NEW probe, NEW reply, OnProbe(f, probe, reply) PROVE Life!LifeNext
  <2> DEFINE leg == Advance(c.leg)
             d == [c EXCEPT !.leg = leg]
             out == {FrameOf(c.leg, reply, f.ts, {})}
  <2>1. GoesOn(f, d, out, {})
    BY <1>9 DEF OnProbe, c
  <2>2. d.dir = c.dir /\ d.state = c.state
    BY <1>1 DEF CallLegs
  <2> HIDE DEF d, out
  <2>3. Goes(n, calls[n].state, {})
    BY <1>2, <2>1, <2>2, FrameGoes DEF n
  <2> QED
    BY <1>1, <2>3, GoesLife
<1>10. ASSUME NEW events \in {Ev("Dtmf", n), {}}, Acknowledge(f, c, events)
       PROVE  Life!LifeNext
  <2>1. Goes(n, calls[n].state, events)
    BY <1>2, <1>3, <1>10
  <2> QED
    BY <1>1, <2>1, GoesLife
<1>11. CASE OnDtmf(f)
  BY <1>10, <1>11 DEF OnDtmf, c, n
<1>12. CASE OnSilent(f)
  BY <1>1, <1>2, <1>12, FrameGoes, GoesLife DEF OnSilent, c, n
<1>13. CASE OnAcknowledged(f)
  BY <1>10, <1>13 DEF OnAcknowledged, c
<1> QED
  BY <1>4, <1>5, <1>6, <1>7, <1>8, <1>9, <1>11, <1>12, <1>13 DEF OnCallFrame

\* A NEW sent again with its token changes the leg only.
LEMMA NewTokenLife ==
    ASSUME CallInv, NEW f \in CallFrames, f.dst \in DOMAIN calls, ResendNewWithToken(f)
    PROVE  Life!LifeNext
<1>1. PICK leg : calls' = [calls EXCEPT ![f.dst].leg = leg]
  BY DEF ResendNewWithToken
<1>2. DOMAIN calls' = DOMAIN calls /\ calls[f.dst] \in CallLegs
  BY <1>1, CallType
<1>3. \A k \in DOMAIN calls :
        calls'[k].state = calls[k].state /\ calls'[k].dir = calls[k].dir
  BY <1>1, <1>2 DEF CallLegs
<1> QED
  BY <1>2, <1>3, QuietStep DEF ResendNewWithToken, Life!LifeNext

\* A mini-frame is heard on a call that is connected.
LEMMA MiniFrameLife ==
    ASSUME CallInv, NEW r \in DOMAIN remoteIndex, remoteIndex[r] \in DOMAIN calls,
           OnMiniFrame(r)
    PROVE  Life!LifeNext
<1> DEFINE n == remoteIndex[r]
<1>1. calls[n] \in CallLegs /\ calls[n].state = "Up"
  BY CallType DEF OnMiniFrame
<1>2. calls' = [calls EXCEPT ![n].voiceSeen = TRUE] /\ callEvents' = Ev("Voice", n)
  BY DEF OnMiniFrame
<1> HIDE DEF n
<1>3. Goes(n, "Up", Ev("Voice", n))
  BY <1>1, <1>2 DEF Goes, CallLegs
<1>4. n \in DOMAIN calls
  BY DEF n
<1> QED
  BY <1>1, <1>3, <1>4, GoesLife

\* The retransmission pass ends the calls that have an exhausted frame.
LEMMA TimeoutLife == ASSUME CallInv, CallHandleTimeout PROVE Life!LifeNext
<1> DEFINE dead == {n \in DOMAIN calls : Exhausted(calls[n].leg)}
           resent == [n \in DOMAIN calls |->
                        [calls[n] EXCEPT !.leg = RetransmitLeg(calls[n].leg)]]
<1>1. DropCalls(dead, resent, remoteIndex)
      /\ callEvents' = UNION {Ev("Ended", n) : n \in dead}
  BY DEF CallHandleTimeout
<1>2. \A n \in DOMAIN calls :
        resent[n].state = calls[n].state /\ resent[n].dir = calls[n].dir
  BY CallType DEF CallLegs
<1>3. callEvents' = {[kind |-> "Ended", call |-> n] : n \in dead}
  BY <1>1 DEF Ev
<1>4. dead \subseteq DOMAIN calls /\ DOMAIN resent = DOMAIN calls
  OBVIOUS
<1> HIDE DEF dead, resent
<1> QED
  BY <1>1, <1>2, <1>3, <1>4, DropStep DEF Life!LifeNext

\* Time ends no call and tells of none.
LEMMA TickLife == ASSUME CallInv, CallTick PROVE Life!LifeNext
<1>1. calls' = [n \in DOMAIN calls |-> [calls[n] EXCEPT !.leg = TickLeg(calls[n].leg)]]
  BY DEF CallTick
<1>2. DOMAIN calls' = DOMAIN calls
  BY <1>1
<1>3. \A n \in DOMAIN calls :
        calls'[n].state = calls[n].state /\ calls'[n].dir = calls[n].dir
  BY <1>1, CallType DEF CallLegs
<1> QED
  BY <1>2, <1>3, QuietStep DEF CallTick, Life!LifeNext

-----------------------------------------------------------------------------
\* Every step of the call table is one of the life cycle.
LEMMA LifeSteps == CallInv /\ CallNext => Life!LifeNext
<1> SUFFICES ASSUME CallInv, CallNext PROVE Life!LifeNext
  OBVIOUS
<1>1. ASSUME NEW f \in CallFrames, f.dst \in DOMAIN calls, CallInput(f)
      PROVE  Life!LifeNext
  BY <1>1, NewTokenLife, FrameLife DEF CallInput
<1>2. CASE CallDrain
  BY <1>2, QuietStep DEF CallDrain, Life!LifeNext
<1> QED
  BY <1>1, <1>2, BeginsLife, CommandLife, MiniFrameLife, TimeoutLife, TickLife
  DEF CallNext

\* The call table implements the contract a driver relies on.
THEOREM ImplementsLifecycle == CallSpec => CallLife
<1>1. CallInit => Life!LifeInit
  BY DEF CallInit, Life!LifeInit, Nothing
<1>2. CallInv /\ [CallNext]_callVars => [Life!LifeNext]_(Life!lifeVars)
  <2>1. UNCHANGED callVars => UNCHANGED Life!lifeVars
    BY DEF callVars, Life!lifeVars
  <2> QED
    BY <2>1, LifeSteps
<1> QED
  BY <1>1, <1>2, CallInvariant, PTL DEF CallLife, CallSpec, Life!LifeSpec

\* A step of the life cycle that lets call n go on keeps its direction and
\* announces no new call.
LEMMA GoesFresh ==
    ASSUME NEW n \in DOMAIN calls, NEW state, NEW events, Life!GoesOnAs(n, state, events)
    PROVE  /\ \A k \in DOMAIN calls \cap DOMAIN calls' : calls'[k].dir = calls[k].dir
           /\ callEvents' = events
<1>1. Lines' = [Lines EXCEPT ![n].state = state] /\ callEvents' = events
  BY DEF Life!GoesOnAs, Lines
<1>2. \A k \in DOMAIN Lines : Lines'[k].dir = Lines[k].dir
  <2>1. \A k \in DOMAIN Lines : Lines[k] = [state |-> Lines[k].state, dir |-> Lines[k].dir]
    BY DEF Lines
  <2> HIDE DEF Lines
  <2> QED
    BY <1>1, <2>1
<1> QED
  BY <1>1, <1>2 DEF Lines

\* A number handed out for a new call is that of no live one, before and after
\* callno_next has wrapped round.
THEOREM NumbersAlwaysFresh == CallSpec => FreshCallNo
<1> DEFINE SameDir == \A k \in DOMAIN calls \cap DOMAIN calls' : calls'[k].dir = calls[k].dir
           Told == \A e \in callEvents' : e.call \in DOMAIN calls =>
                        e.kind \notin {"Dialing", "Incoming"}
           Fresh ==
             \A n \in DOMAIN calls :
                /\ n \in DOMAIN calls' => calls'[n].dir = calls[n].dir
                /\ \A e \in callEvents' : e.call = n => e.kind \notin {"Dialing", "Incoming"}
<1>1. ASSUME NEW state, NEW dir, NEW kind, Life!Begins(state, dir, kind)
      PROVE  SameDir /\ Told
  <2>1. PICK n \in CallNos \ DOMAIN calls :
          /\ Lines' = [k \in DOMAIN calls \cup {n} |->
                         IF k = n THEN [state |-> state, dir |-> dir] ELSE Lines[k]]
          /\ callEvents' = {[kind |-> kind, call |-> n]}
    BY <1>1 DEF Life!Begins, Life!Event, Lines
  <2>2. SameDir
    BY <2>1 DEF Lines
  <2> QED
    BY <2>1, <2>2
<1>2. ASSUME NEW n \in DOMAIN calls, NEW state, NEW events, Life!GoesOnAs(n, state, events),
             events = {} \/ \E kind \in {"Ringing", "Answered", "Voice", "Dtmf"} :
                                events = {[kind |-> kind, call |-> n]}
      PROVE  SameDir /\ Told
  BY <1>2, GoesFresh
<1>3. ASSUME Life!Ends PROVE SameDir /\ Told
  <2>1. PICK dead \in SUBSET DOMAIN calls :
          /\ Lines' = [n \in DOMAIN calls \ dead |-> Lines[n]]
          /\ callEvents' = {[kind |-> "Ended", call |-> n] : n \in dead}
    BY <1>3 DEF Life!Ends, Life!Event, Lines
  <2>2. SameDir
    BY <2>1 DEF Lines
  <2> QED
    BY <2>1, <2>2
<1>4. ASSUME Life!LifeNext PROVE SameDir /\ Told
  <2>1. DOMAIN [n \in DOMAIN calls |-> [state |-> calls[n].state, dir |-> calls[n].dir]]
          = DOMAIN calls
    OBVIOUS
  <2> QED
    BY <1>1, <1>2, <1>3, <1>4, <2>1, Zenon DEF Life!LifeNext, Life!Event
<1>5. SameDir /\ Told => Fresh
  OBVIOUS
<1>6. CallInv /\ [CallNext]_callVars => [Fresh]_callVars
  BY <1>4, <1>5, LifeSteps
<1> QED
  BY <1>6, CallInvariant, PTL DEF CallSpec, FreshCallNo
=============================================================================
