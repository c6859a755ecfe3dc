---------------------------- MODULE DriverProofs ----------------------------
(***************************************************************************)
(* The invariants of the two drivers, softphone.rs and regdaemon.rs.       *)
(*                                                                         *)
(* The softphone's hold for any number of PBXes and of calls.  They are    *)
(* inductive together: a call that goes Up must find the one before in     *)
(* active to put it on hold (LiveIsActive), and what is still to be heard  *)
(* is thrown away exactly when active changes (OneStream).                 *)
(*                                                                         *)
(* regdaemon's hold for every set of frames and all timing values.  They   *)
(* are inductive together: that the frame in the slot is current needs the *)
(* slot to hold at most one frame, and an arm that drops a call or a token *)
(* to have emptied it.                                                     *)
(***************************************************************************)
EXTENDS Softphone, RegDaemon, LegProofs

-----------------------------------------------------------------------------
(* The softphone                                                           *)
CallRecords == [state : CallStates, dir : {"In", "Out"}]

SoftInv ==
    /\ SoftTypeOK
    /\ LiveIsActive
    /\ ActiveIsAlive
    /\ OneStream
    /\ NothingUnsent

\* The driver starts with no call, no sound and nothing to send.
LEMMA SoftInitInv == SoftInit => SoftInv
BY SoftphoneAssumption
   DEF SoftInit, SoftInv, SoftTypeOK, LiveIsActive, ActiveIsAlive, OneStream,
       NothingUnsent, Pbxes, NoLine

\* An arm that only opens a call, or changes the state of one, to a state that
\* is not Up, keeps the invariant.
LEMMA OpenedInv ==
    ASSUME SoftInv, NEW line \in Lines, line \notin DOMAIN lines,
           NEW state \in CallStates \ {"Up"}, NEW dir \in {"In", "Out"},
           lines' = Opened(line, state, dir), OnlyLines
    PROVE  SoftInv'
<1>1. DOMAIN lines' = DOMAIN lines \cup {line}
  BY DEF Opened
<1>2. \A l \in DOMAIN lines : l # line /\ lines'[l] = lines[l]
  BY DEF Opened
<1>3. lines'[line] = [state |-> state, dir |-> dir]
  BY DEF Opened
<1>4. lines' \in [DOMAIN lines' -> CallRecords]
  <2>1. \A l \in DOMAIN lines' : lines'[l] \in CallRecords
    BY <1>1, <1>2, <1>3 DEF SoftInv, SoftTypeOK, CallRecords
  <2> QED
    BY <2>1 DEF Opened
<1>5. SoftTypeOK'
  BY <1>1, <1>4 DEF SoftInv, SoftTypeOK, OnlyLines, CallRecords
<1>6. LiveIsActive'
  BY <1>1, <1>2, <1>3 DEF SoftInv, LiveIsActive, OnlyLines
<1> QED
  BY <1>1, <1>5, <1>6
     DEF SoftInv, ActiveIsAlive, OneStream, NothingUnsent, OnlyLines

\* The calls of dead go; the active one takes its sound with it.
LEMMA EndedInv ==
    ASSUME SoftInv, NEW dead \in SUBSET DOMAIN lines, Ended(dead)
    PROVE  SoftInv'
<1>1. DOMAIN lines' = DOMAIN lines \ dead
  BY DEF Ended
<1>2. \A l \in DOMAIN lines' : lines'[l] = lines[l]
  BY DEF Ended
<1>3. lines' \in [DOMAIN lines' -> CallRecords]
  <2>1. \A l \in DOMAIN lines' : lines'[l] \in CallRecords
    BY <1>1, <1>2 DEF SoftInv, SoftTypeOK, CallRecords
  <2> QED
    BY <2>1 DEF Ended
<1>4. CASE active \in dead
  <2>1. active' = NoLine /\ jb' = {} /\ lastPcm' = {} /\ speaker' = {}
    BY <1>4 DEF Ended
  <2>2. LiveIsActive'
    BY <1>1, <1>2, <1>4 DEF SoftInv, LiveIsActive
  <2> QED
    BY <1>1, <1>3, <2>1, <2>2
       DEF Ended, SoftInv, SoftTypeOK, ActiveIsAlive, OneStream, NothingUnsent, CallRecords
<1>5. CASE active \notin dead
  <2>1. UNCHANGED <<active, jb, lastPcm, speaker>>
    BY <1>5 DEF Ended
  <2> QED
    BY <1>1, <1>2, <1>3, <1>5, <2>1
       DEF Ended, SoftInv, SoftTypeOK, LiveIsActive, ActiveIsAlive, OneStream,
           NothingUnsent, CallRecords
<1> QED
  BY <1>4, <1>5

\* make_active: a table that differs from the calls at most in line.
LEMMA MakeActiveInv ==
    ASSUME SoftInv, NEW line \in DOMAIN lines,
           NEW table \in [DOMAIN lines -> CallRecords],
           \A l \in DOMAIN lines \ {line} : table[l] = lines[l],
           MakeActive(line, table)
    PROVE  SoftInv'
<1>1. DOMAIN lines' = DOMAIN lines /\ line \in Lines
  BY DEF MakeActive, SoftInv, SoftTypeOK
<1>2. \A l \in DOMAIN lines :
        /\ l \in OnHold(line) => lines'[l] = [table[l] EXCEPT !.state = "Held"]
        /\ l \notin OnHold(line) =>
            lines'[l] \in {table[l], [table[l] EXCEPT !.state = "Up"]}
        /\ l \notin OnHold(line) /\ l # line => lines'[l] = lines[l]
  <2> DEFINE woken == {l \in {line} : table[l].state = "Held"}
  <2>1. TAKE l \in DOMAIN lines
  <2>2. lines'[l] = CASE l \in OnHold(line) -> [table[l] EXCEPT !.state = "Held"]
                      [] l \in woken -> [table[l] EXCEPT !.state = "Up"]
                      [] OTHER -> table[l]
    BY DEF MakeActive
  <2>3. line \notin OnHold(line)
    BY DEF OnHold
  <2>4. CASE l \in OnHold(line)
    BY <2>2, <2>3, <2>4
  <2>5. CASE l \notin OnHold(line) /\ l \in woken
    BY <2>2, <2>5
  <2>6. CASE l \notin OnHold(line) /\ l \notin woken
    BY <2>2, <2>6
  <2> QED
    BY <2>4, <2>5, <2>6
<1>3. \A l \in DOMAIN lines : lines'[l] \in CallRecords
  <2>1. \A c \in CallRecords : /\ [c EXCEPT !.state = "Held"] \in CallRecords
                                /\ [c EXCEPT !.state = "Up"] \in CallRecords
    BY DEF CallRecords, CallStates
  <2>2. \A l \in DOMAIN lines : table[l] \in CallRecords
    OBVIOUS
  <2>3. \A l \in DOMAIN lines :
          lines'[l] \in {table[l], [table[l] EXCEPT !.state = "Up"],
                         [table[l] EXCEPT !.state = "Held"]}
    BY <1>2, Zenon
  <2> TAKE l \in DOMAIN lines
  <2>4. \/ lines'[l] = table[l]
        \/ \E s \in {"Up", "Held"} : lines'[l] = [table[l] EXCEPT !.state = s]
    BY <2>3, Zenon
  <2> QED
    BY <2>1, <2>2, <2>4
<1>4. lines' \in [DOMAIN lines' -> CallRecords]
  BY <1>1, <1>3 DEF MakeActive
<1>5. active' = line /\ speaker' = {} /\ UNCHANGED selected
  BY DEF MakeActive
<1>6. jb' \cup lastPcm' \subseteq {line}
  BY DEF MakeActive, Switching, SoftInv, OneStream
<1>7. unsent' = {}
  BY DEF MakeActive, Touched, SoftInv, NothingUnsent
<1>8. LiveIsActive'
  <2> SUFFICES ASSUME NEW l \in DOMAIN lines, l # line, lines'[l].state = "Up"
               PROVE  FALSE
    BY <1>1, <1>5 DEF LiveIsActive
  <2>1. CASE l \in OnHold(line)
    <3>1. lines'[l] = [table[l] EXCEPT !.state = "Held"] /\ table[l] \in CallRecords
      BY <1>2, <2>1
    <3>2. lines'[l].state = "Held"
      BY <3>1 DEF CallRecords
    <3> QED
      BY <3>2
  <2>2. CASE l \notin OnHold(line)
    <3>1. Is(l, "Up") /\ active = l
      BY <1>2, <2>2 DEF SoftInv, LiveIsActive, Is
    <3> QED
      BY <2>2, <3>1 DEF OnHold
  <2> QED
    BY <2>1, <2>2
<1> QED
  BY <1>1, <1>4, <1>5, <1>6, <1>7, <1>8
     DEF SoftInv, SoftTypeOK, ActiveIsAlive, OneStream, NothingUnsent, CallRecords

\* A call that goes Up, by an answer from either side, becomes the active one.
LEMMA AnsweredInv ==
    ASSUME SoftInv, NEW line \in DOMAIN lines, Answered(line)
    PROVE  SoftInv'
<1> DEFINE table == [lines EXCEPT ![line].state = "Up"]
<1>1. table \in [DOMAIN lines -> CallRecords]
  BY DEF SoftInv, SoftTypeOK, CallRecords, CallStates
<1>2. \A l \in DOMAIN lines \ {line} : table[l] = lines[l]
  OBVIOUS
<1>3. MakeActive(line, table)
  BY DEF Answered
<1> QED
  BY <1>1, <1>2, <1>3, MakeActiveInv

\* An arm that leaves the calls and the active one alone, and adds at most
\* sounds of the active call.
LEMMA SoundInv ==
    ASSUME SoftInv, UNCHANGED <<lines, active, unsent>>, selected' \in Pbxes,
           jb' \cup lastPcm' \cup speaker' \subseteq
               {l \in DOMAIN lines : l = active} \cup jb \cup lastPcm \cup speaker
    PROVE  SoftInv'
BY DEF SoftInv, SoftTypeOK, LiveIsActive, ActiveIsAlive, OneStream, NothingUnsent

-----------------------------------------------------------------------------
\* The arm of a datagram, with the events it raises.
LEMMA DatagramInv == ASSUME SoftInv, Datagram PROVE SoftInv'
<1>1. PICK line \in Lines :
        \/ IncomingCall(line) \/ RemoteRinging(line) \/ RemoteAnswer(line)
        \/ RemoteEnd(line) \/ Voice(line)
  BY DEF Datagram
<1>2. CASE IncomingCall(line)
  BY <1>2, OpenedInv DEF IncomingCall, CallStates
<1>3. CASE RemoteRinging(line)
  <2>1. lines' \in [DOMAIN lines -> CallRecords]
    BY <1>3 DEF RemoteRinging, SoftInv, SoftTypeOK, CallRecords, CallStates
  <2>2. \A l \in DOMAIN lines : lines'[l].state = "Up" => lines[l].state = "Up"
    BY <1>3 DEF RemoteRinging, SoftInv, SoftTypeOK
  <2> QED
    BY <1>3, <2>1, <2>2
       DEF RemoteRinging, OnlyLines, SoftInv, SoftTypeOK, LiveIsActive, ActiveIsAlive,
           OneStream, NothingUnsent, CallRecords
<1>4. CASE RemoteAnswer(line)
  BY <1>4, AnsweredInv DEF RemoteAnswer
<1>5. CASE RemoteEnd(line)
  BY <1>5, EndedInv DEF RemoteEnd
<1>6. CASE Voice(line)
  BY <1>6, SoundInv DEF Voice, Is, SoftInv, SoftTypeOK
<1> QED
  BY <1>1, <1>2, <1>3, <1>4, <1>5, <1>6

\* The keys that change state.
LEMMA KeyboardInv ==
    ASSUME SoftInv, KeySelect \/ KeyDial \/ KeyAnswer \/ KeyHangup \/ KeyCall
    PROVE  SoftInv'
<1>1. CASE KeySelect
  BY <1>1, SoundInv DEF KeySelect
<1>2. CASE KeyDial
  <2>1. PICK n \in CallNos :
            <<selected, n>> \notin DOMAIN lines
            /\ lines' = Opened(<<selected, n>>, "Trying", "Out")
    BY <1>2 DEF KeyDial
  <2>2. <<selected, n>> \in Lines
    BY DEF SoftInv, SoftTypeOK, Lines
  <2> QED
    BY <1>2, <2>1, <2>2, OpenedInv DEF KeyDial, CallStates
<1>3. CASE KeyAnswer
  BY <1>3, AnsweredInv DEF KeyAnswer, FindRinging, Answer, Is
<1>4. CASE KeyHangup
  BY <1>4, EndedInv DEF KeyHangup, SoftInv, ActiveIsAlive
<1>5. CASE KeyCall
  <2>1. PICK line \in DOMAIN lines : Answer(line) \/ MakeActive(line, lines)
    BY <1>5 DEF KeyCall
  <2>2. CASE Answer(line)
    BY <2>2, AnsweredInv DEF Answer
  <2>3. CASE MakeActive(line, lines)
    <3>1. lines \in [DOMAIN lines -> CallRecords]
      BY DEF SoftInv, SoftTypeOK, CallRecords
    <3> QED
      BY <2>3, <3>1, MakeActiveInv
  <2> QED
    BY <2>1, <2>2, <2>3
<1> QED
  BY <1>1, <1>2, <1>3, <1>4, <1>5

\* Every arm of the loop keeps the invariant.
LEMMA SoftNextInv == SoftInv /\ [SoftNext]_softVars => SoftInv'
<1> SUFFICES ASSUME SoftInv, [SoftNext]_softVars PROVE SoftInv'
  OBVIOUS
<1>1. CASE Datagram
  BY <1>1, DatagramInv
<1>2. CASE Timer
  BY <1>2, EndedInv DEF Timer
<1>3. CASE AudioTick
  <2>1. jb' \cup lastPcm' \cup speaker' \subseteq jb \cup lastPcm \cup speaker
    BY <1>3 DEF AudioTick, Play, Conceal
  <2> QED
    BY <1>3, <2>1, SoundInv DEF AudioTick, SoftInv, SoftTypeOK
<1>4. CASE SoundCard
  BY <1>4, SoundInv DEF SoundCard, SoftInv, SoftTypeOK
<1>5. CASE KeySelect \/ KeyDial \/ KeyAnswer \/ KeyHangup \/ KeyCall
  BY <1>5, KeyboardInv
<1>6. CASE UNCHANGED softVars
  BY <1>6 DEF softVars, SoftInv, SoftTypeOK, LiveIsActive, ActiveIsAlive, OneStream,
              NothingUnsent
<1> QED
  BY <1>1, <1>2, <1>3, <1>4, <1>5, <1>6 DEF SoftNext

\* The invariant of the whole driver, from which the four below are read off.
THEOREM SoftInvariant == SoftSpec => []SoftInv
BY SoftInitInv, SoftNextInv, PTL DEF SoftSpec

\* The driver's state keeps its types, whatever is typed and whatever arrives.
THEOREM SoftTypeCorrect == SoftSpec => []SoftTypeOK
BY SoftInvariant, PTL DEF SoftInv

\* Of all the calls of all the PBXes never more than one is connected and not
\* on hold, and it is the one the driver plays.
THEOREM OneLiveCall == SoftSpec => []LiveIsActive
BY SoftInvariant, PTL DEF SoftInv

\* The driver never holds the number of a call that is gone.
THEOREM ActiveAlwaysAlive == SoftSpec => []ActiveIsAlive
BY SoftInvariant, PTL DEF SoftInv

\* The user never hears one call's sound after switching to another.
THEOREM OneStreamHeard == SoftSpec => []OneStream
BY SoftInvariant, PTL DEF SoftInv

\* No HOLD or UNHOLD is left in a queue when an arm of the loop ends.
THEOREM NothingLeftUnsent == SoftSpec => []NothingUnsent
BY SoftInvariant, PTL DEF SoftInv

-----------------------------------------------------------------------------
(* regdaemon                                                               *)
PhoneInv ==
    /\ PhoneTypeOK
    /\ SlotIsCurrent
    /\ AttemptInTime

DaemonInv == PhoneInv /\ running \in BOOLEAN

OutFrames == Frames(DaemonOutKinds, DaemonNos)

\* What a frame that arrives carries.
LEMMA InFrame ==
    ASSUME NEW f \in DaemonFrames
    PROVE  /\ f.src \in RemoteNos /\ f.oseq \in SeqNo /\ f.ts \in Ts
           /\ f.dst \in DaemonNos \cup RemoteNos
BY DaemonAssumption DEF Frames

\* The legs of the daemon have no window, the helpers of Leg serve them too.
LEMMA FreshLeg ==
    ASSUME NEW n \in DaemonNos
    PROVE  Fresh(n) \in DaemonLegs /\ Fresh(n).local = n
BY LegAssumption DEF Fresh, DaemonLegs, SeqNo

\* Building a frame changes the sequence number only.
LEMMA AdvanceLeg ==
    ASSUME NEW leg \in DaemonLegs
    PROVE  /\ Advance(leg) \in DaemonLegs
           /\ Advance(leg).local = leg.local /\ Advance(leg).remote = leg.remote
BY SuccType DEF Advance, DaemonLegs

\* Receiving a frame keeps the leg's own number.
LEMMA NoteRecvLeg ==
    ASSUME NEW leg \in DaemonLegs, NEW f \in DaemonFrames
    PROVE  NoteRecv(leg, f) \in DaemonLegs /\ NoteRecv(leg, f).local = leg.local
BY SuccType, InFrame DEF NoteRecv, DaemonLegs

\* A frame built on a leg bears the numbers of both ends.
LEMMA BuiltFrame ==
    ASSUME NEW leg \in DaemonLegs, NEW kind \in DaemonOutKinds, NEW ts \in Ts,
           NEW ies \in SUBSET IeKinds
    PROVE  /\ FrameOf(leg, kind, ts, ies) \in OutFrames
           /\ FrameOf(leg, kind, ts, ies).kind = kind
           /\ FrameOf(leg, kind, ts, ies).src = leg.local
           /\ FrameOf(leg, kind, ts, ies).dst = leg.remote
           /\ FrameOf(leg, kind, ts, ies).ies = ies
BY DEF FrameOf, OutFrames, Frames, DaemonLegs

\* A frame outside every dialogue is one the daemon may send.
LEMMA LooseFrame ==
    ASSUME NEW kind \in DaemonOutKinds, NEW src \in DaemonNos \cup RemoteNos,
           NEW dst \in DaemonNos \cup RemoteNos, NEW ts \in Ts, NEW iseq \in SeqNo
    PROVE  Loose(kind, src, dst, ts, iseq) \in OutFrames
BY LegAssumption DEF Loose, OutFrames, Frames, SeqNo, IeKinds

\* The slot holds one frame, with its time and its tries at the start.
LEMMA WaitingSlot ==
    ASSUME NEW f \in OutFrames
    PROVE  /\ Waiting(f) \subseteq Outstandings(DaemonOutKinds, DaemonNos)
           /\ AtMostOne(Waiting(f)) /\ \A p \in Waiting(f) : p.frame = f
BY LegAssumption DEF Waiting, Outstandings, OutFrames, AtMostOne

\* A REGREQ that carries the token exactly when one is held may take the slot.
LEMMA RegReqInv ==
    ASSUME PhoneInv, NEW leg \in DaemonLegs, leg.local = REG_LOCAL_CALL,
           NEW ies \in SUBSET IeKinds, SendRegReq(leg, ies),
           calltoken' \in BOOLEAN, ("TOKEN" \in ies) = calltoken',
           UNCHANGED <<call, registered, refresh>>,
           nextReg' \in Nat, nextReg' \in {nextReg, Guard}
    PROVE  PhoneInv'
<1>1. PICK ts \in Ts :
        LET f == FrameOf(leg, "REGREQ", ts, ies) IN
        reg' = Advance(leg) /\ pending' = Waiting(f) /\ out' = {f}
  BY DEF SendRegReq
<1> DEFINE f == FrameOf(leg, "REGREQ", ts, ies)
<1>2. f \in OutFrames /\ f.kind = "REGREQ" /\ f.src = REG_LOCAL_CALL /\ f.ies = ies
  BY BuiltFrame DEF DaemonOutKinds
<1>3. /\ pending' \subseteq Outstandings(DaemonOutKinds, DaemonNos)
      /\ AtMostOne(pending') /\ \A p \in pending' : p.frame = f
  BY <1>1, <1>2, WaitingSlot
<1>4. reg' \in DaemonLegs /\ reg'.local = REG_LOCAL_CALL
  BY <1>1, AdvanceLeg
<1>5. PhoneTypeOK'
  BY <1>1, <1>2, <1>3, <1>4 DEF PhoneInv, PhoneTypeOK, OutFrames
<1>6. SlotIsCurrent'
  BY <1>2, <1>3 DEF SlotIsCurrent
<1>7. AttemptInTime'
  BY DaemonAssumption DEF PhoneInv, AttemptInTime
<1> QED
  BY <1>5, <1>6, <1>7 DEF PhoneInv

\* An arm that empties the slot, or leaves the frame in it together with the
\* call's far end and the token, and waits no longer.
LEMMA KeptInv ==
    ASSUME PhoneInv,
           pending' \subseteq Outstandings(DaemonOutKinds, DaemonNos), AtMostOne(pending'),
           \A q \in pending' : \E p \in pending : q.frame = p.frame,
           pending' # {} => UNCHANGED calltoken /\
               \A c \in call : \E d \in call' : d.leg.remote = c.leg.remote,
           reg' \in DaemonLegs, reg'.local = REG_LOCAL_CALL,
           call' \subseteq [leg : DaemonLegs, sentFormat : BOOLEAN], AtMostOne(call'),
           \A c \in call' : c.leg.local = CALL_LOCAL_CALL,
           calltoken' \in BOOLEAN, registered' \in BOOLEAN,
           refresh' \in Grants \cup {ArgRefresh}, nextReg' \in Nat,
           ~registered' => nextReg' <= Guard,
           out' \subseteq OutFrames
    PROVE  PhoneInv'
<1>1. PhoneTypeOK'
  BY DEF PhoneInv, PhoneTypeOK, AtMostOne, OutFrames
<1>2. SlotIsCurrent'
  <2> SUFFICES ASSUME NEW q \in pending'
               PROVE  \/ /\ q.frame.kind = "ANSWER"
                         /\ \E d \in call' : q.frame.dst = d.leg.remote
                      \/ /\ q.frame.kind = "REGREQ" /\ q.frame.src = REG_LOCAL_CALL
                         /\ ("TOKEN" \in q.frame.ies) = calltoken'
    BY DEF SlotIsCurrent
  <2>1. PICK p \in pending : q.frame = p.frame
    OBVIOUS
  <2>2. CASE p.frame.kind = "ANSWER" /\ \E c \in call : p.frame.dst = c.leg.remote
    BY <2>1, <2>2
  <2>3. CASE /\ p.frame.kind = "REGREQ" /\ p.frame.src = REG_LOCAL_CALL
             /\ ("TOKEN" \in p.frame.ies) = calltoken
    BY <2>1, <2>3
  <2> QED
    BY <2>2, <2>3 DEF PhoneInv, SlotIsCurrent
<1> QED
  BY <1>1, <1>2 DEF PhoneInv, AttemptInTime

\* The same for an arm that touches neither the frame in the slot nor the call.
LEMMA SlotKeptInv ==
    ASSUME PhoneInv, pending' \in {pending, {}}, pending' # {} => UNCHANGED calltoken,
           UNCHANGED call, reg' \in DaemonLegs, reg'.local = REG_LOCAL_CALL,
           calltoken' \in BOOLEAN, registered' \in BOOLEAN,
           refresh' \in Grants \cup {ArgRefresh}, nextReg' \in Nat,
           ~registered' => nextReg' <= Guard,
           out' \subseteq OutFrames
    PROVE  PhoneInv'
BY KeptInv DEF PhoneInv, PhoneTypeOK, AtMostOne

-----------------------------------------------------------------------------
\* The house tick, the keepalive, the audio tick and the clock.
LEMMA TimersInv ==
    ASSUME PhoneInv, House \/ Keepalive \/ SendAudio \/ Clock PROVE PhoneInv'
<1>1. CASE StartRegister
  <2>1. Fresh(REG_LOCAL_CALL) \in DaemonLegs /\ Fresh(REG_LOCAL_CALL).local = REG_LOCAL_CALL
    BY FreshLeg DEF DaemonNos
  <2>2. /\ DaemonRegIes(FALSE) \in SUBSET IeKinds
        /\ ("TOKEN" \in DaemonRegIes(FALSE)) = FALSE
    BY DEF DaemonRegIes, IeKinds
  <2> QED
    BY <1>1, <2>1, <2>2, RegReqInv, DaemonAssumption DEF StartRegister
<1>2. CASE Resend
  <2>1. PICK p \in pending : p.due = 0 /\ p.tries < RetxMax
            /\ pending' = {[p EXCEPT !.due = RetxAfter, !.tries = @ + 1]} /\ out' = {p.frame}
            /\ UNCHANGED <<reg, call, calltoken, registered, refresh, nextReg>>
    BY <1>2 DEF Resend
  <2>2. p \in Outstandings(DaemonOutKinds, DaemonNos)
    BY DEF PhoneInv, PhoneTypeOK
  <2>3. [p EXCEPT !.due = RetxAfter, !.tries = @ + 1]
            \in Outstandings(DaemonOutKinds, DaemonNos)
        /\ [p EXCEPT !.due = RetxAfter, !.tries = @ + 1].frame = p.frame
    <3>1. p.tries + 1 \in 0 .. RetxMax /\ RetxAfter \in 0 .. RetxAfter
      BY <2>1, <2>2, LegAssumption DEF Outstandings
    <3> QED
      BY <2>2, <3>1 DEF Outstandings
  <2>4. p.frame \in OutFrames
    BY <2>2 DEF Outstandings, OutFrames
  <2> QED
    BY <2>1, <2>3, <2>4, KeptInv DEF PhoneInv, PhoneTypeOK, AtMostOne, AttemptInTime
<1>3. CASE GiveUp
  BY <1>3, SlotKeptInv, DaemonAssumption DEF GiveUp, PhoneInv, PhoneTypeOK
<1>4. CASE Keepalive
  <2>1. PICK ts \in Ts : out' = {Loose("POKE", KEEPALIVE_CALL, 0, ts, 0)}
    BY <1>4 DEF Keepalive
  <2>2. Loose("POKE", KEEPALIVE_CALL, 0, ts, 0) \in OutFrames
    BY LooseFrame, LegAssumption DEF DaemonOutKinds, DaemonNos, SeqNo
  <2> QED
    BY <1>4, <2>1, <2>2, SlotKeptInv
       DEF Keepalive, PhoneInv, PhoneTypeOK, AttemptInTime
<1>5. CASE SendAudio
  <2>1. PICK c \in call, ts \in Ts :
        IF c.sentFormat
        THEN out' = {Loose("MINI", c.leg.local, 0, ts, 0)} /\ UNCHANGED call
        ELSE /\ out' = {FrameOf(c.leg, "VOICE", ts, {})}
             /\ call' = {[leg |-> Advance(c.leg), sentFormat |-> TRUE]}
    BY <1>5 DEF SendAudio
  <2>2. c.leg \in DaemonLegs /\ c.leg.local \in DaemonNos
    BY DEF PhoneInv, PhoneTypeOK, DaemonLegs
  <2>3. CASE c.sentFormat
    <3>1. Loose("MINI", c.leg.local, 0, ts, 0) \in OutFrames
      BY <2>2, LooseFrame, LegAssumption DEF DaemonOutKinds, SeqNo
    <3> QED
      BY <1>5, <2>1, <2>3, <3>1, SlotKeptInv
         DEF SendAudio, PhoneInv, PhoneTypeOK, AttemptInTime
  <2>4. CASE ~c.sentFormat
    <3>1. FrameOf(c.leg, "VOICE", ts, {}) \in OutFrames
      BY <2>2, BuiltFrame DEF DaemonOutKinds
    <3>2. /\ Advance(c.leg) \in DaemonLegs
          /\ Advance(c.leg).local = CALL_LOCAL_CALL
          /\ Advance(c.leg).remote = c.leg.remote
      BY <2>2, AdvanceLeg DEF PhoneInv, PhoneTypeOK
    <3>3. call' = {[leg |-> Advance(c.leg), sentFormat |-> TRUE]}
      BY <2>1, <2>4
    <3>4. \A e \in call : \E d \in call' : d.leg.remote = e.leg.remote
      BY <3>2, <3>3 DEF PhoneInv, PhoneTypeOK, AtMostOne
    <3>5. /\ call' \subseteq [leg : DaemonLegs, sentFormat : BOOLEAN] /\ AtMostOne(call')
          /\ \A d \in call' : d.leg.local = CALL_LOCAL_CALL
      BY <3>2, <3>3 DEF AtMostOne
    <3> QED
      BY <1>5, <2>1, <2>4, <3>1, <3>4, <3>5, KeptInv
         DEF SendAudio, PhoneInv, PhoneTypeOK, AttemptInTime
  <2> QED
    BY <2>3, <2>4
<1>6. CASE Clock
  <2> DEFINE aged(p) == [p EXCEPT !.due = Closer(@)]
  <2>1. \A p \in pending : aged(p) \in Outstandings(DaemonOutKinds, DaemonNos)
                           /\ aged(p).frame = p.frame
    <3> TAKE p \in pending
    <3>1. p \in Outstandings(DaemonOutKinds, DaemonNos)
      BY DEF PhoneInv, PhoneTypeOK
    <3>2. Closer(p.due) \in 0 .. RetxAfter
      BY <3>1, LegAssumption DEF Closer, Outstandings
    <3> QED
      BY <3>1, <3>2 DEF Outstandings
  <2>2. pending' = {aged(p) : p \in pending}
    BY <1>6 DEF Clock
  <2>3. AtMostOne(pending')
    BY <2>2 DEF PhoneInv, PhoneTypeOK, AtMostOne
  <2>4. nextReg' \in 0 .. nextReg
    BY <1>6, CloserType DEF Clock, PhoneInv, PhoneTypeOK
  <2>5. nextReg' \in Nat /\ (~registered' => nextReg' <= Guard)
    BY <1>6, <2>4, DaemonAssumption DEF Clock, PhoneInv, PhoneTypeOK, AttemptInTime
  <2>6. /\ pending' \subseteq Outstandings(DaemonOutKinds, DaemonNos)
        /\ \A q \in pending' : \E p \in pending : q.frame = p.frame
    BY <2>1, <2>2
  <2>7. UNCHANGED <<reg, call, calltoken, registered, refresh>> /\ out' = {}
    BY <1>6 DEF Clock
  <2> HIDE DEF aged
  <2> QED
    BY <2>3, <2>5, <2>6, <2>7, KeptInv DEF PhoneInv, PhoneTypeOK
<1> QED
  BY <1>1, <1>2, <1>3, <1>4, <1>5, <1>6 DEF House

\* A frame of either dialogue empties the slot, any other leaves it.
LEMMA AfterArrivalSlot ==
    ASSUME PhoneInv, NEW f \in DaemonFrames
    PROVE  /\ AfterArrival(f) \in {pending, {}}
           /\ f.dst = REG_LOCAL_CALL \/ (\E c \in call : f.dst = c.leg.local)
                => AfterArrival(f) = {}
BY DEF AfterArrival, OnRealLeg

\* Qualifies and NEWs, busy or not.
LEMMA CallerInv ==
    ASSUME PhoneInv, NEW f \in DaemonFrames,
           AnswerQualify(f) \/ RejectNew(f) \/ AnswerNew(f)
    PROVE  PhoneInv'
<1>1. CASE AnswerQualify(f)
  <2>1. f.dst \in DaemonNos \cup RemoteNos /\ 3 \in DaemonNos /\ f.src \in RemoteNos
        /\ f.ts \in Ts /\ Succ(f.oseq) \in SeqNo
    BY InFrame, SuccType DEF DaemonNos
  <2>2. Loose("PONG", IF f.dst < 3 THEN 3 ELSE f.dst, f.src, f.ts, Succ(f.oseq))
            \in OutFrames
    BY <2>1, LooseFrame DEF DaemonOutKinds
  <2> QED
    BY <1>1, <2>2, AfterArrivalSlot, SlotKeptInv
       DEF AnswerQualify, PhoneInv, PhoneTypeOK, AttemptInTime
<1>2. CASE RejectNew(f)
  <2>1. PICK ts \in Ts : out' = {Loose("REJECT", BUSY_CALL, f.src, ts, Succ(f.oseq))}
    BY <1>2 DEF RejectNew
  <2>2. Loose("REJECT", BUSY_CALL, f.src, ts, Succ(f.oseq)) \in OutFrames
    BY InFrame, SuccType, LooseFrame DEF DaemonOutKinds, DaemonNos
  <2> QED
    BY <1>2, <2>1, <2>2, AfterArrivalSlot, SlotKeptInv
       DEF RejectNew, PhoneInv, PhoneTypeOK, AttemptInTime
<1>3. CASE AnswerNew(f)
  <2> DEFINE leg == NoteRecv(Fresh(CALL_LOCAL_CALL), f)
  <2>1. PICK ts \in Ts :
        /\ call' = {[leg |-> Advance(Advance(leg)), sentFormat |-> FALSE]}
        /\ pending' = Waiting(FrameOf(Advance(leg), "ANSWER", ts, {}))
        /\ out' = {FrameOf(leg, "ACCEPT", ts, {}), FrameOf(Advance(leg), "ANSWER", ts, {})}
    BY <1>3 DEF AnswerNew
  <2>2. leg \in DaemonLegs /\ leg.local = CALL_LOCAL_CALL
    BY FreshLeg, NoteRecvLeg DEF DaemonNos
  <2> HIDE DEF leg
  <2> DEFINE answer == FrameOf(Advance(leg), "ANSWER", ts, {})
  <2>3. /\ Advance(leg) \in DaemonLegs /\ Advance(leg).local = CALL_LOCAL_CALL
        /\ Advance(leg).remote = leg.remote
    BY <2>2, AdvanceLeg
  <2>4. /\ Advance(Advance(leg)) \in DaemonLegs
        /\ Advance(Advance(leg)).local = CALL_LOCAL_CALL
        /\ Advance(Advance(leg)).remote = leg.remote
    BY <2>3, AdvanceLeg
  <2>5. answer \in OutFrames /\ answer.kind = "ANSWER" /\ answer.dst = leg.remote
    BY <2>3, BuiltFrame DEF DaemonOutKinds
  <2>6. FrameOf(leg, "ACCEPT", ts, {}) \in OutFrames
    BY <2>2, BuiltFrame DEF DaemonOutKinds
  <2> HIDE DEF answer
  <2>7. /\ pending' \subseteq Outstandings(DaemonOutKinds, DaemonNos)
        /\ AtMostOne(pending') /\ \A p \in pending' : p.frame = answer
    BY <2>1, <2>5, WaitingSlot DEF answer
  <2>8. /\ call' \subseteq [leg : DaemonLegs, sentFormat : BOOLEAN] /\ AtMostOne(call')
        /\ \A c \in call' : c.leg.local = CALL_LOCAL_CALL
        /\ \E c \in call' : c.leg.remote = leg.remote
    BY <2>1, <2>4 DEF AtMostOne
  <2>9. out' \subseteq OutFrames
    BY <2>1, <2>5, <2>6 DEF answer
  <2>10. UNCHANGED <<reg, calltoken, registered, refresh, nextReg>>
    BY <1>3 DEF AnswerNew
  <2>11. PhoneTypeOK'
    BY <2>7, <2>8, <2>9, <2>10 DEF PhoneInv, PhoneTypeOK, OutFrames
  <2>12. SlotIsCurrent'
    BY <2>5, <2>7, <2>8 DEF SlotIsCurrent
  <2> QED
    BY <2>10, <2>11, <2>12 DEF PhoneInv, AttemptInTime
<1> QED
  BY <1>1, <1>2, <1>3

\* The frames of the registration, each arm in turn.
LEMMA RegLegInv ==
    ASSUME PhoneInv, NEW f \in DaemonFrames, OnRegLeg(f)
    PROVE  PhoneInv'
<1>1. f.dst = REG_LOCAL_CALL /\ AfterArrival(f) = {}
  BY AfterArrivalSlot DEF OnRegLeg
<1>2. NoteRecv(reg, f) \in DaemonLegs /\ NoteRecv(reg, f).local = REG_LOCAL_CALL
  BY NoteRecvLeg DEF PhoneInv, PhoneTypeOK
<1>3. CASE Challenge(f)
  <2> DEFINE ies == DaemonRegIes(calltoken) \cup {"MD5"}
  <2>1. ies \in SUBSET IeKinds /\ ("TOKEN" \in ies) = calltoken
    BY DEF DaemonRegIes, IeKinds, PhoneInv, PhoneTypeOK
  <2>2. SendRegReq(NoteRecv(reg, f), ies)
        /\ UNCHANGED <<call, calltoken, registered, refresh, nextReg>>
    BY <1>3 DEF Challenge
  <2> HIDE DEF ies
  <2> QED
    BY <1>2, <2>1, <2>2, RegReqInv DEF PhoneInv, PhoneTypeOK
<1>4. ASSUME NEW ts \in Ts, reg' = NoteRecv(reg, f)
      PROVE  AckFrame(reg', ts) \in OutFrames
  BY <1>2, <1>4, BuiltFrame DEF AckFrame, DaemonOutKinds
<1>5. CASE RegAck(f)
  <2>1. refresh' \in Grants \cup {ArgRefresh} /\ nextReg' \in Nat
    <3>1. PICK rf \in IF "REFRESH" \in f.ies THEN Grants ELSE {refresh} :
              refresh' = rf /\ nextReg' = (rf * 4) \div 5
      BY <1>5 DEF RegAck
    <3>2. rf \in Grants \cup {ArgRefresh} /\ rf \in Nat
      BY <3>1, DaemonAssumption DEF PhoneInv, PhoneTypeOK
    <3> QED
      BY <3>1, <3>2
  <2>2. out' \subseteq OutFrames
    BY <1>4, <1>5 DEF RegAck
  <2> QED
    BY <1>1, <1>2, <1>5, <2>1, <2>2, SlotKeptInv
       DEF RegAck, PhoneInv, PhoneTypeOK
<1>6. CASE RegRej(f)
  <2>1. out' \subseteq OutFrames
    BY <1>4, <1>6 DEF RegRej
  <2> QED
    BY <1>1, <1>2, <1>6, <2>1, SlotKeptInv, DaemonAssumption
       DEF RegRej, PhoneInv, PhoneTypeOK
<1>7. CASE RegOther(f)
  BY <1>1, <1>2, <1>7, SlotKeptInv DEF RegOther, PhoneInv, PhoneTypeOK, AttemptInTime
<1> QED
  BY <1>3, <1>5, <1>6, <1>7 DEF OnRegLeg

\* The frames of the call: its leg follows the sender, or the call ends.
LEMMA CallLegInv ==
    ASSUME PhoneInv, NEW f \in DaemonFrames, OnCallLeg(f)
    PROVE  PhoneInv'
<1>1. PICK c \in call :
        /\ f.dst = c.leg.local
        /\ call' = IF f.kind = "HANGUP" THEN {} ELSE {[c EXCEPT !.leg = NoteRecv(c.leg, f)]}
        /\ \E ts \in Ts :
            out' = IF f.kind = "ACK" THEN {} ELSE {AckFrame(NoteRecv(c.leg, f), ts)}
  BY DEF OnCallLeg
<1>2. pending' = {}
  BY <1>1, AfterArrivalSlot DEF OnCallLeg
<1>3. NoteRecv(c.leg, f) \in DaemonLegs /\ NoteRecv(c.leg, f).local = CALL_LOCAL_CALL
  BY NoteRecvLeg DEF PhoneInv, PhoneTypeOK
<1>4. out' \subseteq OutFrames
  BY <1>1, <1>3, BuiltFrame DEF AckFrame, DaemonOutKinds
<1>5. /\ call' \subseteq [leg : DaemonLegs, sentFormat : BOOLEAN] /\ AtMostOne(call')
      /\ \A d \in call' : d.leg.local = CALL_LOCAL_CALL
  BY <1>1, <1>3 DEF PhoneInv, PhoneTypeOK, AtMostOne
<1>6. UNCHANGED <<reg, calltoken, registered, refresh, nextReg>>
  BY DEF OnCallLeg
<1> QED
  BY <1>2, <1>4, <1>5, <1>6, KeptInv DEF PhoneInv, PhoneTypeOK, AttemptInTime, AtMostOne

\* Every frame that may arrive.
LEMMA OnFrameInv ==
    ASSUME PhoneInv, NEW f \in DaemonFrames, OnFrame(f)
    PROVE  PhoneInv'
<1>1. CASE RegisterWithToken(f)
  <2>1. Fresh(REG_LOCAL_CALL) \in DaemonLegs /\ Fresh(REG_LOCAL_CALL).local = REG_LOCAL_CALL
    BY FreshLeg DEF DaemonNos
  <2>2. DaemonRegIes(TRUE) \in SUBSET IeKinds /\ ("TOKEN" \in DaemonRegIes(TRUE)) = TRUE
    BY DEF DaemonRegIes, IeKinds
  <2> QED
    BY <1>1, <2>1, <2>2, RegReqInv DEF RegisterWithToken, PhoneInv, PhoneTypeOK
<1> QED
  BY <1>1, CallerInv, RegLegInv, CallLegInv DEF OnFrame

\* regdaemon starts with neither call nor registration.
LEMMA DaemonInitInv == DaemonInit => DaemonInv
<1> SUFFICES ASSUME DaemonInit PROVE PhoneInv /\ running \in BOOLEAN
  BY DEF DaemonInv
<1>1. reg \in DaemonLegs /\ reg.local = REG_LOCAL_CALL
  BY FreshLeg DEF DaemonInit, DaemonNos
<1>2. /\ call = {} /\ pending = {} /\ out = {} /\ nextReg = 0
      /\ calltoken = FALSE /\ registered = FALSE /\ refresh = ArgRefresh
  BY DEF DaemonInit
<1>3. PhoneTypeOK
  BY <1>1, <1>2 DEF PhoneTypeOK, AtMostOne
<1>4. running \in BOOLEAN
  BY DEF DaemonInit
<1> QED
  BY <1>2, <1>3, <1>4, DaemonAssumption DEF PhoneInv, SlotIsCurrent, AttemptInTime

\* Every arm of the loop keeps the invariant, a receive error leaves all as it is.
LEMMA DaemonNextInv == DaemonInv /\ [DaemonNext]_daemonVars => DaemonInv'
<1> SUFFICES ASSUME DaemonInv, [DaemonNext]_daemonVars PROVE PhoneInv' /\ running' \in BOOLEAN
  BY DEF DaemonInv
<1>1. CASE Turn(Timers)
  BY <1>1, TimersInv DEF Turn, Timers, DaemonInv
<1>2. CASE \E f \in DaemonFrames : Turn(OnFrame(f))
  BY <1>2, OnFrameInv DEF Turn, DaemonInv
<1>3. CASE UNCHANGED phoneVars /\ running' \in BOOLEAN
  BY <1>3 DEF phoneVars, DaemonInv, PhoneInv, PhoneTypeOK, SlotIsCurrent, AttemptInTime
<1>4. CASE ReceiveError
  BY <1>3, <1>4 DEF ReceiveError
<1>5. CASE UNCHANGED daemonVars
  BY <1>3, <1>5 DEF daemonVars, DaemonInv
<1> QED
  BY <1>1, <1>2, <1>4, <1>5 DEF DaemonNext

\* The invariant of regdaemon, from which the three below are read off.
THEOREM DaemonInvariant == DaemonSpec => []DaemonInv
BY DaemonInitInv, DaemonNextInv, PTL DEF DaemonSpec

\* regdaemon keeps its types: one call, one frame in the slot, each under its
\* own number, whatever arrives.
THEOREM DaemonTypeCorrect == DaemonSpec => []DaemonTypeOK
BY DaemonInvariant, PTL DEF DaemonInv, PhoneInv, DaemonTypeOK

\* Registration and call take the one slot from each other and never leave a
\* frame of the past in it.
THEOREM SlotAlwaysCurrent == DaemonSpec => []SlotIsCurrent
BY DaemonInvariant, PTL DEF DaemonInv, PhoneInv

\* An unregistered daemon is never further than its guard from an attempt.
THEOREM AttemptAlwaysInTime == DaemonSpec => []AttemptInTime
BY DaemonInvariant, PTL DEF DaemonInv, PhoneInv
=============================================================================
