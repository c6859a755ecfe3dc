------------------------------ MODULE VoicePath ------------------------------
(***************************************************************************)
(* Voice from a far end that runs this code to the loudspeaker: send_voice *)
(* there, a network that delays, reorders and loses, and here the          *)
(* timestamps of 32 bits rebuilt from the 16 of a mini-frame, the events   *)
(* Voice, the jitter buffer and the 20 ms tick that plays it.              *)
(*                                                                         *)
(* Both ends take one step per tick of FrameMs, the pace jitter.rs assumes *)
(* of a sender (jitter.rs:10): the far end speaks, what arrives arrives in *)
(* any order, and the playout pulls once, at any moment of the tick.       *)
(***************************************************************************)
EXTENDS JitterBuffer

CONSTANTS
    Wrap16,      \* 2^16, the timestamps a mini-frame can tell apart
    FirstTs,     \* the far end's timestamps when the call begins
    MaxDelay,    \* ticks a frame may spend in the network
    MaxSilence,  \* ticks a hold of the far end may last
    MaxLoss,     \* bound: frames the network loses
    ClockMax     \* bound: the clock stops here

ASSUME VoiceAssumption ==
    /\ Wrap16 \in Nat \ {0} /\ TsMod % Wrap16 = 0 /\ 4 * Wrap16 <= TsMod
    /\ MaxDelay \in Nat /\ MaxSilence \in Nat /\ MaxLoss \in Nat
    /\ ClockMax \in Nat /\ ClockMax + FrameMs <= TsMod  \* a client up for less than 49 days
    /\ FirstTs \subseteq 0 .. ClockMax

\* The most ticks between two frames that arrive, and two more for their order.
Gap == (MaxLoss + 1) * (MaxSilence + 1) + 2 * MaxDelay

\* Nothing is ever out by half a wrap (32 s).
ASSUME GapAssumption == 2 * FrameMs * Gap < Wrap16

VARIABLES
    clock,         \* the far end's timestamp now
    sentFormat,    \* far end: has the full VOICE been sent?
    farDone,       \* far end: has it had its turn in this tick?
    network,       \* frames under way
    lastVoiceTs,   \* last_voice_ts of the call
    voiceTsSeen,
    heldHere,      \* is the call on hold, another one being active?
    playDone,      \* has the playout had its turn in this tick?
    born,          \* history: the far end's timestamp of each buffered frame
    unheard,       \* history: frames that arrived and were not played
    heard,         \* history: the far end's timestamp last played, or None
    stray,         \* history: buffered frames a full VOICE showed to be misplaced
    misled,        \* history: has the reference ever been of no use?
    losses,        \* frames lost so far
    quiet,         \* ticks since the far end's latest frame
    farHeld        \* history: has the far end ever been silent?

callVoice == <<lastVoiceTs, voiceTsSeen, heldHere>>
farEnd == <<clock, sentFormat, farDone, quiet, farHeld>>
history == <<born, unheard, heard, stray, misled>>
voiceVars == <<jitterVars, farEnd, network, callVoice, playDone, history, losses>>

Packets == [ts : 0 .. TsMod - 1, full : BOOLEAN, age : 0 .. MaxDelay]

VoiceTypeOK ==
    /\ JitterTypeOK
    /\ clock \in 0 .. TsMod - 1
    /\ network \subseteq Packets
    /\ lastVoiceTs \in 0 .. TsMod - 1
    /\ DOMAIN born = frames /\ \A t \in frames : born[t] \in 0 .. TsMod - 1
    /\ unheard \in Nat /\ heard \in 0 .. TsMod - 1 \cup {None}
    /\ stray \subseteq frames
    /\ losses \in 0 .. MaxLoss /\ quiet \in 0 .. MaxSilence
    /\ {sentFormat, farDone, voiceTsSeen, heldHere, playDone, farHeld,
        misled} \subseteq BOOLEAN

\* The clock runs since the far end's client was made (PbxClient::new), the call
\* begins at any time of it.
VoiceInit ==
    /\ JitterInit
    /\ clock \in FirstTs
    /\ sentFormat = FALSE /\ farDone = FALSE /\ farHeld = FALSE
    /\ playDone = FALSE /\ heldHere = FALSE
    /\ network = {}
    /\ lastVoiceTs = 0 /\ voiceTsSeen = FALSE
    /\ born = [t \in {} |-> t] /\ unheard = 0 /\ heard = None
    /\ stray = {} /\ misled = FALSE
    /\ losses = 0 /\ quiet = 0

-----------------------------------------------------------------------------
(* Timestamps                                                              *)

Distance(a, b) == IF a < b THEN b - a ELSE a - b

\* Faulty: the high bits of the reference, whatever the distance.
SameHigh(last, ts16, seen) ==
    IF ~seen THEN ts16 ELSE (last \div Wrap16) * Wrap16 + ts16

\* Of the timestamps with these 16 low bits, the one nearest to the reference,
\* one wrap down, none or one up; the distance is plain, not modular.
Reconstruct(last, ts16, seen) ==
    IF ~seen THEN ts16 ELSE
    LET cand == (last \div Wrap16) * Wrap16 + ts16
        near == <<(cand - Wrap16) % TsMod, cand, (cand + Wrap16) % TsMod>>
        first == CHOOSE i \in 1 .. 3 : \A j \in 1 .. 3 :
                    LET di == Distance(near[i], last)
                        dj == Distance(near[j], last)
                    IN di < dj \/ (di = dj /\ i <= j)
    IN near[first]

-----------------------------------------------------------------------------
(* The far end and the network                                             *)

\* send_voice: a full VOICE first, then mini-frames with 16 bits of the clock.
SendVoice ==
    /\ ~farDone
    /\ network' = network \cup {[ts |-> clock, full |-> ~sentFormat, age |-> 0]}
    /\ sentFormat' = TRUE /\ farDone' = TRUE /\ quiet' = 0
    /\ UNCHANGED <<clock, farHeld, jitterVars, callVoice, playDone, history, losses>>

\* The far end has the call on hold; nothing there starts the format anew.
FarSilent ==
    /\ ~farDone /\ sentFormat /\ quiet < MaxSilence
    /\ farDone' = TRUE /\ farHeld' = TRUE /\ quiet' = quiet + 1
    /\ UNCHANGED <<clock, sentFormat, network, jitterVars, callVoice, playDone,
                   history, losses>>

\* The one full VOICE is lost like any other frame: nothing sends it again.
Lose(p) ==
    /\ losses < MaxLoss
    /\ network' = network \ {p}
    /\ losses' = losses + 1
    /\ UNCHANGED <<farEnd, jitterVars, callVoice, playDone, history>>

\* The next 20 ms, when all turns are taken and no frame is overdue.
NextTick ==
    /\ farDone /\ playDone /\ clock < ClockMax
    /\ \A p \in network : p.age < MaxDelay
    /\ clock' = Advanced(clock)
    /\ network' = {[p EXCEPT !.age = @ + 1] : p \in network}
    /\ farDone' = FALSE /\ playDone' = FALSE
    /\ UNCHANGED <<sentFormat, quiet, farHeld, jitterVars, callVoice, history, losses>>

-----------------------------------------------------------------------------
(* This end                                                                *)

\* A full VOICE that mini-frames overtook: with no reference they were taken as
\* bare 16 bits, whole wraps below where they were spoken.
Contradicts(p) ==
    p.full /\ voiceTsSeen /\ Reconstruct(lastVoiceTs, p.ts % Wrap16, TRUE) # p.ts

\* A mini-frame placed whole wraps below, at 0 but for the network's delay: a
\* frame spoken before it has no timestamp below and is placed one wrap up.
NextToZero(ts, p) == ts < FrameMs * MaxDelay /\ ts # p.ts

\* The driver pushes the frame of a Voice event of the active call.
Hear(ts, p) ==
    /\ Push(ts)
    /\ born' = [t \in frames' |-> IF t = ts THEN p.ts ELSE born[t]]
    /\ unheard' = unheard + 1
    /\ misled' = (misled \/ Contradicts(p) \/ NextToZero(ts, p))
    /\ stray' = (IF Contradicts(p) THEN frames \cap frames' ELSE stray \cap frames') \ {ts}
    /\ UNCHANGED heard

NotHeard == UNCHANGED <<jitterVars, history>>

\* on_call_frame, VOICE: the reference is taken over on hold as well.
OnFullVoice(p) ==
    /\ p.full
    /\ lastVoiceTs' = p.ts /\ voiceTsSeen' = TRUE
    /\ IF heldHere THEN NotHeard ELSE Hear(p.ts, p)

\* A mini-frame of a call that is not Up is dropped, the reference stays.
OnMini(p) ==
    /\ ~p.full
    /\ IF heldHere
       THEN NotHeard /\ UNCHANGED <<lastVoiceTs, voiceTsSeen>>
       ELSE /\ lastVoiceTs' = Reconstruct(lastVoiceTs, p.ts % Wrap16, voiceTsSeen)
            /\ voiceTsSeen' = TRUE
            /\ Hear(lastVoiceTs', p)

Deliver(p) ==
    /\ OnFullVoice(p) \/ OnMini(p)
    /\ network' = network \ {p}
    /\ UNCHANGED <<farEnd, heldHere, playDone, losses>>

\* pump_playout, once a tick, of a call that is Up.
PumpPlayout ==
    /\ ~playDone /\ playDone' = TRUE
    /\ IF heldHere THEN NotHeard
       ELSE /\ Pull
            /\ born' = [t \in frames' |-> born[t]]
            /\ unheard' = IF outcome' = "Play" THEN unheard - 1 ELSE unheard
            /\ heard' = IF outcome' = "Play" THEN born[lastPlayed'] ELSE heard
            /\ stray' = stray \cap frames' /\ UNCHANGED misled
    /\ UNCHANGED <<farEnd, network, callVoice, losses>>

\* Faulty: the buffer is not reset.
SwitchNoReset ==
    /\ heldHere' = ~heldHere
    /\ UNCHANGED <<jitterVars, history, farEnd, network, lastVoiceTs, voiceTsSeen,
                   playDone, losses>>

\* make_active: to another call, this one being put on hold, and back to it.
Switch ==
    /\ heldHere' = ~heldHere
    /\ Reset
    /\ born' = [t \in {} |-> t] /\ unheard' = 0 /\ stray' = {}
    /\ UNCHANGED <<farEnd, network, lastVoiceTs, voiceTsSeen, playDone, losses,
                   heard, misled>>

-----------------------------------------------------------------------------
VoiceNext ==
    \/ SendVoice
    \/ FarSilent
    \/ \E p \in network : Lose(p) \/ Deliver(p)
    \/ NextTick
    \/ PumpPlayout
    \/ Switch

VoiceSpec == VoiceInit /\ [][VoiceNext]_voiceVars

-----------------------------------------------------------------------------
(* Properties                                                              *)

\* A stream that does not stop is played to the last frame that arrives: none
\* is late, overwritten, thrown out by a resynchronisation or jumped over,
\* across the wrap of the 16 bits, losses, reordering within the depth of the
\* buffer and switches of the driver from call to call.  Mini-frames that overtake
\* the full VOICE are the exception: they are placed wraps below it.
NothingDiscarded == ~farHeld /\ ~misled => unheard = Cardinality(frames)

\* What is heard keeps the order in which it was spoken, also over a hold so
\* long that the 16 bits say less than the gap, and when the full VOICE is lost;
\* but not once it was overtaken.
HeardInOrder ==
    [][~misled' /\ heard' # heard /\ heard # None => heard' > heard]_voiceVars

\* The buffer never mixes frames that reconstruct_ts placed in different wraps:
\* what lies between two buffered frames is the time between their speaking.
\* Not said of frames placed before the full VOICE that they overtook, nor
\* of timestamps so near to 0 that a frame spoken before has none left
\* below: after a hold here the voice may come back there, and a frame that was
\* overtaken is then placed one wrap up.
OneWrap ==
    \A t, u \in frames \ stray :
        FrameMs * MaxDelay <= t /\ FrameMs * MaxDelay <= u => born[t] - t = born[u] - u

\* client.rs:47, reconstruct_ts "rebuilds the 32-bit timestamp of a mini-frame
\* from its low 16 bits": what is buffered keeps the timestamp the far end gave it.
RebuiltIsSent == \A t \in frames : born[t] = t
=============================================================================
