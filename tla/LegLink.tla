------------------------------- MODULE LegLink -------------------------------
(***************************************************************************)
(* One leg of the client at work: its window against a network that loses, *)
(* repeats, delays and reorders datagrams and a PBX that takes the frames  *)
(* of a dialogue in order, as Asterisk does.  The PBX and the network are  *)
(* not in the repository: they are modelled from how client.rs talks to    *)
(* them.  Frames are numbered from 0 for ever (at, clientSent, pbxGot,     *)
(* ...); only their numbers modulo SeqMod are on the wire.                 *)
(***************************************************************************)
EXTENDS Leg

CONSTANTS
    ClientKinds,   \* what the client sends: "DTMF", "PAIR", "LAGRP"
    ClientMax,     \* bound: frames the client sends
    MixMax,        \* bound: the same, when not all are single reliable frames
    PbxMax,        \* bound: frames the PBX sends
    MaxLoss,       \* bound: datagrams lost
    MaxRepeat      \* bound: datagrams repeated

Link == 16
Pbx == 5

\* A lost frame that is not tracked is never sent again; the PBX then takes
\* nothing for ever, and its number would come round.  Traffic with such frames
\* is bounded to what fits in a window.
ASSUME LinkAssumption ==
    /\ ClientKinds \subseteq {"DTMF", "PAIR", "LAGRP"}
    /\ {ClientMax, MixMax, PbxMax, MaxLoss, MaxRepeat} \subseteq Nat
    /\ MixMax <= WindowBound /\ 0 < RetxMax
    /\ 0 .. ClientMax \cup 0 .. MixMax \cup 0 .. PbxMax \subseteq Ts
    /\ Pbx \in RemoteNos

VARIABLES
    leg,          \* the leg of the client
    clientSent,   \* frames the client has sequenced
    reliable,     \* those of them it tracked
    twins,        \* those of them that share their timestamp with another
    pbxGot,       \* frames the PBX has taken, in order
    pbxSent,      \* frames the PBX has sequenced
    pbxWindow,    \* those of them it thinks unconfirmed
    clientGot,    \* those of them that reached the client
    net,          \* datagrams in flight
    lost, repeated,
    disturbed,    \* has a datagram or the driver been late, or one overtaken?
    givenUp       \* the client has dropped the call: reliability timeout

linkVars == <<leg, clientSent, reliable, twins, pbxGot, pbxSent, pbxWindow, clientGot,
              net, lost, repeated, disturbed, givenUp>>

clientVars == <<leg, clientSent, reliable, twins, givenUp>>
pbxVars == <<pbxGot, pbxSent, pbxWindow>>
faultVars == <<lost, repeated, disturbed>>

Wire(n) == n % SeqMod

Msg(to, f, at) == [to |-> to, frame |-> f, at |-> at]

LinkInit ==
    /\ leg = [NewLeg(Link) EXCEPT !.remote = Pbx]
    /\ clientSent = 0 /\ reliable = {} /\ twins = {}
    /\ pbxGot = 0 /\ pbxSent = 0 /\ pbxWindow = {}
    /\ clientGot = {}
    /\ net = {}
    /\ lost = 0 /\ repeated = 0 /\ disturbed = FALSE
    /\ givenUp = FALSE

\* Delivering m: is an older datagram to the same end still in flight?
Overtakes(m) ==
    disturbed' = (disturbed \/ \E o \in net : o.to = m.to /\ o.at < m.at)

-----------------------------------------------------------------------------
(* The client                                                              *)

\* What is assumed of the network: no datagram is overtaken by as many frames
\* as fill the window (127 in the code).
Fresh(n) == \A m \in net : clientSent + n <= m.at + WindowBound

\* Reliable frames with a timestamp of their own.
Single == reliable \ twins

\* Nothing but such frames was sent, by either side.
AllSingle == Single = 0 .. clientSent - 1 /\ pbxSent = 0

CanSend(kind, n) ==
    /\ kind \in ClientKinds /\ ~givenUp
    /\ clientSent + n <= IF kind = "DTMF" /\ AllSingle THEN ClientMax ELSE MixMax
    /\ Room(leg, n) /\ Fresh(n)

\* A reliable frame by itself: DTMF, HOLD, ANSWER, ...
ClientSend ==
    /\ CanSend("DTMF", 1)
    /\ LET f == FrameOf(leg, "DTMF", clientSent, {}) IN
        /\ leg' = Track(Advance(leg), f)
        /\ net' = net \cup {Msg("pbx", f, clientSent)}
    /\ clientSent' = clientSent + 1
    /\ reliable' = reliable \cup {clientSent}
    /\ UNCHANGED <<twins, pbxVars, clientGot, faultVars, givenUp>>

\* on_incoming_new: two reliable frames with one timestamp.
ClientSendPair ==
    /\ CanSend("PAIR", 2)
    /\ LET accept == FrameOf(leg, "ACCEPT", clientSent, {})
           accepted == Track(Advance(leg), accept)
           ringing == FrameOf(accepted, "RINGING", clientSent, {})
       IN /\ leg' = Track(Advance(accepted), ringing)
          /\ net' = net \cup {Msg("pbx", accept, clientSent),
                              Msg("pbx", ringing, clientSent + 1)}
    /\ clientSent' = clientSent + 2
    /\ reliable' = reliable \cup {clientSent, clientSent + 1}
    /\ twins' = twins \cup {clientSent, clientSent + 1}
    /\ UNCHANGED <<pbxVars, clientGot, faultVars, givenUp>>

\* Sequenced but not tracked: the first full VOICE, LAGRP, in-call PONG.
ClientSendUntracked ==
    /\ CanSend("LAGRP", 1)
    /\ leg' = Advance(leg)
    /\ net' = net \cup {Msg("pbx", FrameOf(leg, "LAGRP", clientSent, {}), clientSent)}
    /\ clientSent' = clientSent + 1
    /\ UNCHANGED <<reliable, twins, pbxVars, clientGot, faultVars, givenUp>>

\* on_call_frame: every frame but an ACK is acknowledged.
ClientReceive(m) ==
    /\ m.to = "client" /\ ~givenUp
    /\ Overtakes(m)
    /\ leg' = Receive(leg, m.frame)
    /\ IF m.frame.kind = "ACK"
       THEN /\ net' = net \ {m}
            /\ UNCHANGED clientGot
       ELSE /\ net' = (net \ {m}) \cup
                        {Msg("pbx", AckFrame(leg', clientSent), clientSent)}
            /\ clientGot' = clientGot \cup {m.frame.ts}
    /\ UNCHANGED <<clientSent, reliable, twins, givenUp, pbxVars, lost, repeated>>

At(f) == CHOOSE n \in 0 .. clientSent - 1 :
            Wire(n) = f.oseq /\ n + WindowBound >= clientSent

ClientTimeout ==
    /\ ~givenUp
    /\ IF Exhausted(leg)
       THEN givenUp' = TRUE /\ UNCHANGED <<leg, net>>
       ELSE /\ leg' = RetransmitLeg(leg)
            /\ net' = net \cup {Msg("pbx", f, At(f)) : f \in ResentFrames(leg)}
            /\ UNCHANGED givenUp
    /\ UNCHANGED <<clientSent, reliable, twins, pbxVars, clientGot, faultVars>>

-----------------------------------------------------------------------------
(* The PBX                                                                 *)

PbxFrame(kind, ts, oseq, iseq) ==
    [kind |-> kind, src |-> Pbx, dst |-> Link, ts |-> ts, oseq |-> Wire(oseq),
     iseq |-> Wire(iseq), retx |-> FALSE, ies |-> {}]

PbxAcks(f) == {i \in pbxWindow : SeqBefore(Wire(i), f.iseq)}

\* The frame it expects is taken, an older one is acknowledged again, one
\* beyond a gap is dropped.
PbxReceive(m) ==
    LET expected == m.frame.oseq = Wire(pbxGot)
        old == SeqBefore(m.frame.oseq, Wire(pbxGot))
    IN
    /\ m.to = "pbx"
    /\ Overtakes(m)
    /\ pbxWindow' = pbxWindow \ PbxAcks(m.frame)
    /\ IF m.frame.kind = "ACK"
       THEN net' = net \ {m} /\ UNCHANGED pbxGot
       ELSE /\ pbxGot' = IF expected THEN pbxGot + 1 ELSE pbxGot
            /\ net' = (net \ {m}) \cup
                (IF expected \/ old
                 THEN {Msg("client", PbxFrame("ACK", m.frame.ts, pbxSent, pbxGot'), pbxGot')}
                 ELSE {})
    /\ UNCHANGED <<clientVars, pbxSent, clientGot, lost, repeated>>

PbxSend ==
    /\ pbxSent < PbxMax /\ clientSent <= MixMax
    /\ net' = net \cup
        {Msg("client", PbxFrame("CONTROL", pbxSent, pbxSent, pbxGot), pbxGot)}
    /\ pbxSent' = pbxSent + 1
    /\ pbxWindow' = pbxWindow \cup {pbxSent}
    /\ UNCHANGED <<clientVars, pbxGot, clientGot, faultVars>>

-----------------------------------------------------------------------------
(* The network and the clock                                               *)

Lose(m) ==
    /\ lost < MaxLoss
    /\ net' = net \ {m}
    /\ lost' = lost + 1
    /\ UNCHANGED <<clientVars, pbxVars, clientGot, repeated, disturbed>>

\* A repeated datagram arrives and is still in flight.
Repeat(m) ==
    /\ repeated < MaxRepeat
    /\ repeated' = repeated + 1
    /\ IF m.to = "pbx"
       THEN /\ m.frame.kind # "ACK" /\ m.frame.oseq = Wire(pbxGot)
            /\ pbxGot' = pbxGot + 1
            /\ net' = net \cup
                {Msg("client", PbxFrame("ACK", m.frame.ts, pbxSent, pbxGot'), pbxGot')}
            /\ UNCHANGED leg
       ELSE /\ m.frame.kind = "ACK" /\ ~givenUp
            /\ leg' = Receive(leg, m.frame)
            /\ UNCHANGED <<net, pbxGot>>
    /\ UNCHANGED <<clientSent, reliable, twins, givenUp, pbxSent, pbxWindow,
                   clientGot, lost, disturbed>>

LinkTick ==
    /\ leg' = TickLeg(leg)
    /\ disturbed' = (disturbed \/ net # {} \/ Expired(leg) # {})
    /\ UNCHANGED <<clientSent, reliable, twins, givenUp, pbxVars, clientGot, net,
                   lost, repeated>>

LinkNext ==
    \/ ClientSend \/ ClientSendPair \/ ClientSendUntracked
    \/ ClientTimeout
    \/ PbxSend
    \/ \E m \in net : ClientReceive(m) \/ PbxReceive(m) \/ Lose(m) \/ Repeat(m)
    \/ LinkTick

LinkSpec == LinkInit /\ [][LinkNext]_linkVars

\* Time passes and the driver calls handle_timeout; nothing is promised of the
\* network.
LinkFairSpec == LinkSpec /\ WF_linkVars(LinkTick) /\ WF_linkVars(ClientTimeout)

-----------------------------------------------------------------------------
(* Properties                                                              *)

LinkTypeOK ==
    /\ leg.oseq = Wire(clientSent) /\ leg.iseq \in SeqNo
    /\ \A o \in leg.outstanding :
        o.due \in 0 .. RetxAfter /\ o.tries \in 0 .. RetxMax
    /\ twins \subseteq reliable /\ reliable \subseteq 0 .. clientSent - 1
    /\ pbxGot \in 0 .. clientSent /\ pbxSent \in 0 .. PbxMax
    /\ pbxWindow \subseteq 0 .. pbxSent - 1 /\ clientGot \subseteq 0 .. pbxSent - 1
    /\ lost \in 0 .. MaxLoss /\ repeated \in 0 .. MaxRepeat
    /\ {disturbed, givenUp} \subseteq BOOLEAN

Tracked(n) == \E o \in leg.outstanding : At(o.frame) = n

\* A reliable frame is forgotten only when the PBX has it: no acknowledgement,
\* cumulative or by timestamp, stale or repeated, takes one away too early
\* (ack_upto), as long as no other frame has its timestamp.
KeptUntilReceived == \A n \in Single : n < pbxGot \/ Tracked(n)

\* One lost datagram, whichever it is, never costs a call of such frames when
\* nothing is late or overtaken: a retransmission repairs it before the tries
\* are used up, also if another datagram is repeated.
OneLossRepaired == AllSingle /\ lost <= 1 /\ ~disturbed => ~givenUp

\* Every such frame reaches the PBX or the driver learns that the call is gone;
\* without any promise by the network, whatever else the two sides send.
NoFrameLeftUnknown ==
    \A n \in 0 .. ClientMax - 1 : n \in Single ~> n < pbxGot \/ givenUp

-----------------------------------------------------------------------------
(* What comments of the code say, and the code does not do                 *)

\* client.rs:217, a frame registered as reliable is "to be retransmitted until
\* the ACK", also one of the two that on_incoming_new sends at a time.
TwinsKeptUntilReceived == \A n \in twins : n < pbxGot \/ Tracked(n)

\* README.md:32-33, "real sliding-window retransmission": when nothing is late
\* or overtaken, one loss does not cost the call, whichever frame it hits.
AnyLossRepaired == lost <= 1 /\ ~disturbed => ~givenUp

\* README.md:32-33, "cumulative ACK": what the client's ACKs make the PBX forget,
\* the client has received.
AcksOnlyReceived == \A n \in 0 .. pbxSent - 1 : n \in pbxWindow \/ n \in clientGot
=============================================================================
