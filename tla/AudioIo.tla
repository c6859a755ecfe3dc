------------------------------- MODULE AudioIo -------------------------------
(***************************************************************************)
(* audio.rs and resample.rs under the driver's 20 ms tick: the microphone  *)
(* and loudspeaker callbacks run in threads of their own, one sample at a  *)
(* time under the lock of their queue, and the driver empties one queue    *)
(* and fills the other through a resampler that works in whole blocks.     *)
(*                                                                         *)
(* A sample is its number, so that what is heard can be compared with what *)
(* was said.  Both sides of a resampler have the same rate here, and the   *)
(* memory of its filter is left out; the blocks and what waits for them    *)
(* are not.                                                                *)
(***************************************************************************)
EXTENDS Integers, Sequences, FiniteSets

CONSTANTS
    FrameLen,   \* samples of a frame of 20 ms
    InChunk,    \* block of the capture resampler
    OutChunk,   \* block of the playback resampler
    CapCap,     \* CAP_CAP
    PlayCap,    \* play_cap
    TickMax     \* bound: ticks

ASSUME AudioAssumption ==
    /\ {FrameLen, InChunk, OutChunk} \subseteq Nat \ {0}
    /\ CapCap \in Nat /\ 2 * FrameLen <= CapCap
    /\ PlayCap \in Nat /\ 2 * FrameLen + OutChunk <= PlayCap
    /\ TickMax \in Nat

VARIABLES
    capQ,        \* cap_q
    capBuf,      \* in_buf of cap_rs
    capAcc,      \* cap_acc
    playBuf,     \* in_buf of play_rs
    playQ,       \* play_q
    active,      \* the driver's active call: "None", "Waiting" (not Up), "Up"
    tick, due,   \* the tick, and what still runs in it
    recorded,    \* history: samples the microphone took
    given,       \* history: samples the driver gave to play_pcm_8k
    taken,       \* history: samples of the call in frames taken from the microphone
    sent,        \* history: the frame sent last
    heard,       \* history: the sample played last, 0 before the first
    micMark,     \* history: recorded at the latest flush
    playMark,    \* history: given at the latest flush
    oldSent,     \* history: samples of before the flush sent since
    oldHeard,    \* history: samples of before the flush played since
    newHeard,    \* history: samples of after the flush played
    gaps         \* history: samples of silence in the present run of frames

queues == <<capQ, capBuf, capAcc, playBuf, playQ>>
micHistory == <<recorded, taken, sent, micMark, oldSent>>
playHistory == <<given, heard, playMark, oldHeard, newHeard, gaps>>
audioVars == <<queues, active, tick, due, micHistory, playHistory>>

\* What waits between the microphone and the frames, and between the driver and
\* the loudspeaker, in the order in which it goes out.
Captured == capAcc \o capBuf \o capQ
Playing == playQ \o playBuf

Samples == Seq(Nat \ {0})
NotStreaming == -1

\* Each thread has its share of a tick: samples to record and to play, and the
\* one run of the driver's tick arm.
FullTick == [mic |-> FrameLen, speaker |-> FrameLen, driver |-> 1]

AudioTypeOK ==
    /\ {capQ, capBuf, capAcc, playBuf, playQ, sent} \subseteq Samples
    /\ Len(capQ) <= CapCap /\ Len(playQ) <= PlayCap
    /\ Len(capBuf) < InChunk /\ Len(playBuf) < OutChunk /\ Len(capAcc) < FrameLen
    /\ active \in {"None", "Waiting", "Up"}
    /\ {recorded, given, taken, heard, micMark, playMark} \subseteq Nat
    /\ {oldSent, oldHeard, newHeard} \subseteq Nat
    /\ gaps \in Nat \cup {NotStreaming}

AudioInit ==
    /\ capQ = <<>> /\ capBuf = <<>> /\ capAcc = <<>> /\ playBuf = <<>> /\ playQ = <<>>
    /\ active = "None" /\ tick = 0 /\ due = FullTick
    /\ recorded = 0 /\ taken = 0 /\ sent = <<>> /\ micMark = 0 /\ oldSent = 0
    /\ given = 0 /\ heard = 0 /\ playMark = 0 /\ oldHeard = 0 /\ newHeard = 0
    /\ gaps = NotStreaming

-----------------------------------------------------------------------------
(* Queues                                                                  *)

Older(s, mark) == Cardinality({i \in DOMAIN s : s[i] <= mark})

\* Overflow: the oldest go.
DropOldest(q, cap) == IF Len(q) <= cap THEN q ELSE SubSeq(q, Len(q) - cap + 1, Len(q))

\* Faulty: one block a call.
WholeOne(s, n) == IF Len(s) < n THEN 0 ELSE n

\* The part of s that makes whole blocks of n, and what is left over.
Whole(s, n) == (Len(s) \div n) * n

\* Faulty: what does not fill a block goes out as well, and again later.
BlocksAndRest(s, n) == s

Blocks(s, n) == SubSeq(s, 1, Whole(s, n))

\* Faulty: what does not fill a block is dropped.
RestDropped(s, n) == <<>>

Rest(s, n) == SubSeq(s, Whole(s, n) + 1, Len(s))

Numbers(first, n) == [i \in 1 .. n |-> first + i]

-----------------------------------------------------------------------------
(* The callbacks                                                           *)

Record ==
    /\ due.mic > 0 /\ due' = [due EXCEPT !.mic = @ - 1]
    /\ recorded' = recorded + 1
    /\ capQ' = DropOldest(Append(capQ, recorded'), CapCap)
    /\ UNCHANGED <<capBuf, capAcc, playBuf, playQ, active, tick,
                   taken, sent, micMark, oldSent, playHistory>>

Speak ==
    /\ due.speaker > 0 /\ due' = [due EXCEPT !.speaker = @ - 1]
    /\ IF playQ = <<>>
       THEN /\ gaps' = IF gaps = NotStreaming THEN gaps ELSE gaps + 1
            /\ UNCHANGED <<playQ, heard, oldHeard, newHeard>>
       ELSE /\ playQ' = Tail(playQ) /\ heard' = Head(playQ)
            /\ IF heard' <= playMark
               THEN oldHeard' = oldHeard + 1 /\ UNCHANGED newHeard
               ELSE newHeard' = newHeard + 1 /\ UNCHANGED oldHeard
            /\ UNCHANGED gaps
    /\ UNCHANGED <<capQ, capBuf, capAcc, playBuf, active, tick, micHistory, given, playMark>>

-----------------------------------------------------------------------------
(* The driver                                                              *)

\* take_frames_8k: the whole queue through the resampler, cut into frames.
TakeFrames ==
    LET fed == capBuf \o capQ
        acc == capAcc \o Blocks(fed, InChunk)
        frames == Blocks(acc, FrameLen)
        old == Older(frames, micMark)
    IN /\ capQ' = <<>>
       /\ capBuf' = Rest(fed, InChunk)
       /\ capAcc' = Rest(acc, FrameLen)
       /\ taken' = taken + Len(frames) - old
       /\ IF active = "Up"
          THEN sent' = frames /\ oldSent' = oldSent + old
          ELSE UNCHANGED <<sent, oldSent>>
       /\ UNCHANGED <<recorded, micMark>>

\* pump_mic: with a call that is not Up the frames are thrown away, with none
\* the queue is left to its cap.
PumpMic ==
    IF active = "None" THEN UNCHANGED <<capQ, capBuf, capAcc, micHistory>> ELSE TakeFrames

\* play_pcm_8k: a frame, from the jitter buffer or concealed.
PlayPcm ==
    LET fed == playBuf \o Numbers(given, FrameLen) IN
    /\ given' = given + FrameLen
    /\ playBuf' = Rest(fed, OutChunk)
    /\ playQ' = DropOldest(playQ \o Blocks(fed, OutChunk), PlayCap)
    /\ gaps' = IF gaps = NotStreaming THEN 0 ELSE gaps
    /\ UNCHANGED <<heard, playMark, oldHeard, newHeard>>

\* Priming, starvation, or no call that is Up: nothing to play in this tick.
PlayNothing ==
    /\ gaps' = NotStreaming
    /\ UNCHANGED <<playBuf, playQ, given, heard, playMark, oldHeard, newHeard>>

AudioTick ==
    /\ due.driver > 0 /\ due' = [due EXCEPT !.driver = 0]
    /\ PumpMic
    /\ (active = "Up" /\ PlayPcm) \/ PlayNothing
    /\ UNCHANGED <<active, tick>>

NextTick ==
    /\ due = [mic |-> 0, speaker |-> 0, driver |-> 0] /\ tick < TickMax
    /\ tick' = tick + 1 /\ due' = FullTick
    /\ UNCHANGED <<queues, active, micHistory, playHistory>>

\* Faulty: what take_frames_8k left over stays.
FlushQueues ==
    /\ capQ' = <<>> /\ playQ' = <<>>
    /\ UNCHANGED <<capAcc, capBuf, playBuf>>

\* flush: the two queues and the partial frame, not the resamplers.
Flush ==
    /\ capQ' = <<>> /\ playQ' = <<>> /\ capAcc' = <<>>
    /\ UNCHANGED <<capBuf, playBuf>>

\* make_active, to a call that is Up or still rings, and the Ended event of the
\* active call: each flushes, and a new stream begins.
Switch ==
    /\ active' \in {"None", "Waiting", "Up"}
    /\ active' = "None" => active # "None"
    /\ Flush
    /\ micMark' = recorded /\ playMark' = given
    /\ taken' = 0 /\ sent' = <<>> /\ oldSent' = 0
    /\ oldHeard' = 0 /\ newHeard' = 0 /\ gaps' = NotStreaming
    /\ UNCHANGED <<recorded, given, heard, tick, due>>

AudioNext == Record \/ Speak \/ AudioTick \/ NextTick \/ Switch

AudioSpec == AudioInit /\ [][AudioNext]_audioVars

-----------------------------------------------------------------------------
(* Properties                                                              *)

\* A call neither hears nor is heard saying what belongs to the time before it
\* became active: flush empties the queues "at the end of a call"
\* (audio.rs:114), and of what it leaves in the resamplers less than one block
\* comes out later, in each direction.
OldSoundBounded ==
    /\ oldSent + Older(Captured, micMark) < InChunk
    /\ oldHeard + Older(Playing, playMark) < OutChunk

\* With a driver and callbacks that keep the pace nothing is lost between the
\* blocks of the resampler, the frames and the caps: every sample since the call
\* became active was taken, or played, or still waits.
NothingLost ==
    /\ active # "None" =>
        recorded - micMark = taken + Len(Captured) - Older(Captured, micMark)
    /\ given - playMark = newHeard + Len(Playing) - Older(Playing, playMark)

\* A stream that gets one frame a tick is not chopped up by the resampler's
\* blocks: all its silences together are shorter than a frame and a block.
GapsBounded == gaps < FrameLen + OutChunk

\* What a step may do to what is heard and sent.
InOrder ==
    /\ heard' # heard => heard' > heard
    /\ sent' # sent =>
         /\ \A i, j \in DOMAIN sent' : i < j => sent'[i] < sent'[j]
         /\ \A i \in DOMAIN sent, j \in DOMAIN sent' : sent[i] < sent'[j]

\* What is heard, and what is sent, is in the order in which it was said,
\* and nothing of it comes twice.
SoundInOrder == [][InOrder]_audioVars

\* jitter.rs:10-11, "a frame of 20 ms advances the timestamp by 20": no two
\* frames sent have one timestamp.  send_voice stamps a frame with the clock of
\* the tick that took it (client.rs:560), not with its place in the sound, and
\* the far end's jitter buffer keeps one frame of a timestamp (jitter.rs:144).
StampsDistinct == Len(sent) <= FrameLen
=============================================================================
