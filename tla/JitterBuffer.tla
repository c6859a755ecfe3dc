---------------------------- MODULE JitterBuffer ----------------------------
(***************************************************************************)
(* jitter.rs: frames keyed by timestamp, a playout cursor, priming, the    *)
(* resynchronisation of push and the miss budget of pull.  The payloads    *)
(* are left out, the RFC 3550 estimate is any target it may lead to, and   *)
(* the counters of stats() are the outcome of the latest call.  Timestamps *)
(* need not be multiples of the frame time.                                *)
(***************************************************************************)
EXTENDS Integers, FiniteSets

CONSTANTS
    TsMod,           \* timestamps are modulo this (2^32)
    Stamps,          \* timestamps that arrive
    FrameMs,         \* FRAME_MS
    MinDepth,        \* MIN_DEPTH_MS
    MaxDepth,        \* MAX_DEPTH_MS
    MaxFrames,       \* MAX_FRAMES
    MissThreshold,   \* MISS_BUDGET_THRESHOLD
    MissDecay,       \* MISS_BUDGET_DECAY_ON_PLAY
    PushMax          \* bound: frames pushed

ASSUME JitterAssumption ==
    /\ TsMod \in Nat \ {0} /\ Stamps \subseteq 0 .. TsMod - 1
    /\ FrameMs \in Nat \ {0}
    /\ MinDepth \in Nat /\ MaxDepth \in Nat /\ MinDepth <= MaxDepth
    /\ MaxFrames \in Nat \ {0}
    /\ MissThreshold \in Nat /\ MissDecay \in Nat
    /\ PushMax \in Nat

None == -1

VARIABLES
    frames,        \* timestamps of the buffered frames
    nextTs,        \* the playout cursor
    playing,
    target,        \* target_ms
    lastArrival,   \* highest timestamp pushed, or None
    missBudget,
    outcome,       \* of the latest call
    pushed,        \* history: number of frames pushed
    streak,        \* history, capped: Conceals since the last Play or Silence
    lastPlayed     \* history: timestamp of the last Play since playing began

jitterVars == <<frames, nextTs, playing, target, lastArrival, missBudget,
                outcome, pushed, streak, lastPlayed>>

Targets == MinDepth .. MaxDepth

JitterTypeOK ==
    /\ frames \subseteq Stamps
    /\ Cardinality(frames) <= MaxFrames
    /\ nextTs \in 0 .. TsMod - 1
    /\ playing \in BOOLEAN
    /\ target \in Targets
    /\ lastArrival \in Stamps \cup {None}
    /\ missBudget \in 0 .. MissThreshold + 1
    /\ outcome \in {"Play", "Conceal", "Silence", "Pushed", "Late", "Reset"}
    /\ pushed \in 0 .. PushMax
    /\ streak \in 0 .. MissThreshold + 2
    /\ lastPlayed \in 0 .. TsMod - 1 \cup {None}

JitterInit ==
    /\ frames = {} /\ nextTs = 0 /\ playing = FALSE
    /\ target = MinDepth /\ lastArrival = None /\ missBudget = 0
    /\ outcome = "Reset"
    /\ pushed = 0 /\ streak = 0 /\ lastPlayed = None

Oldest(s) == CHOOSE t \in s : \A u \in s : t <= u
Newest(s) == CHOOSE t \in s : \A u \in s : u <= t

Span == IF frames = {} THEN 0
        ELSE (Newest(frames) - Oldest(frames) + FrameMs) % TsMod

Advanced(ts) == (ts + FrameMs) % TsMod

Reset ==
    /\ frames' = {} /\ playing' = FALSE /\ lastArrival' = None
    /\ target' = MinDepth /\ missBudget' = 0
    /\ outcome' = "Reset"
    /\ streak' = 0 /\ lastPlayed' = None
    /\ UNCHANGED <<nextTs, pushed>>

-----------------------------------------------------------------------------
(* push                                                                    *)

\* The jitter estimate moves on forward arrivals only.
Estimate(ts) ==
    /\ IF lastArrival # None /\ ts > lastArrival
       THEN target' \in Targets
       ELSE UNCHANGED target
    /\ lastArrival' = IF ts > lastArrival THEN ts ELSE lastArrival

TooLate(ts) == playing /\ ts < nextTs

\* The cursor is hopelessly behind what arrives.
FarAhead(ts) == playing /\ ts - nextTs > 2 * MaxDepth

\* Faulty: nothing makes room.
InsertUnbounded(s, ts) == s \cup {ts}

Insert(s, ts) ==
    LET grown == s \cup {ts} IN
    IF Cardinality(grown) > MaxFrames THEN grown \ {Oldest(grown)} ELSE grown

PushLate(ts) ==
    /\ TooLate(ts)
    /\ outcome' = "Late"
    /\ UNCHANGED <<frames, playing, lastPlayed>>

PushResync(ts) ==
    /\ FarAhead(ts)
    /\ frames' = Insert({}, ts)
    /\ playing' = FALSE /\ lastPlayed' = None
    /\ outcome' = "Pushed"

PushKept(ts) ==
    /\ ~TooLate(ts) /\ ~FarAhead(ts)
    /\ frames' = Insert(frames, ts)
    /\ outcome' = "Pushed"
    /\ UNCHANGED <<playing, lastPlayed>>

Push(ts) ==
    /\ pushed < PushMax
    /\ Estimate(ts)
    /\ PushLate(ts) \/ PushResync(ts) \/ PushKept(ts)
    /\ pushed' = pushed + 1
    /\ UNCHANGED <<nextTs, missBudget, streak>>

-----------------------------------------------------------------------------
(* pull                                                                    *)

\* Priming: playout begins when what is buffered spans the target.
Primed == frames # {} /\ Span >= target

\* Where the cursor stands once priming and the miss budget have had their say.
BudgetSpent == missBudget > MissThreshold

Start == IF playing THEN nextTs ELSE Oldest(frames)

\* Faulty: the spent budget is cleared and the cursor stays behind.
CursorStays == Start

Cursor == IF BudgetSpent /\ frames # {} THEN Newest(frames) ELSE Start

Budget == IF BudgetSpent THEN 0 ELSE missBudget

PullPriming ==
    /\ ~playing /\ ~Primed
    /\ outcome' = "Silence" /\ streak' = 0
    /\ UNCHANGED <<frames, nextTs, playing, missBudget, lastPlayed>>

PullPlay ==
    /\ playing \/ Primed
    /\ Cursor \in frames
    /\ frames' = frames \ {Cursor}
    /\ nextTs' = Advanced(Cursor)
    /\ playing' = TRUE
    /\ missBudget' = IF Budget > MissDecay THEN Budget - MissDecay ELSE 0
    /\ outcome' = "Play" /\ streak' = 0 /\ lastPlayed' = Cursor

PullConceal ==
    /\ playing \/ Primed
    /\ frames # {} /\ Cursor \notin frames
    /\ nextTs' = Advanced(Cursor)
    /\ playing' = TRUE
    /\ missBudget' = Budget + 1
    /\ outcome' = "Conceal"
    /\ streak' = IF streak > MissThreshold + 1 THEN streak ELSE streak + 1
    /\ UNCHANGED <<frames, lastPlayed>>

PullEmpty ==
    /\ playing /\ frames = {}
    /\ playing' = FALSE
    /\ missBudget' = 0
    /\ outcome' = "Silence" /\ streak' = 0 /\ lastPlayed' = None
    /\ UNCHANGED <<frames, nextTs>>

Pull ==
    /\ PullPriming \/ PullPlay \/ PullConceal \/ PullEmpty
    /\ UNCHANGED <<target, lastArrival, pushed>>

JitterNext == Reset \/ (\E ts \in Stamps : Push(ts)) \/ Pull

JitterSpec == JitterInit /\ [][JitterNext]_jitterVars

\* The audio callback pulls for ever.
JitterFairSpec == JitterSpec /\ WF_jitterVars(Pull)

-----------------------------------------------------------------------------
(* Properties                                                              *)

\* A listener never hears more than the miss budget of concealment in a row:
\* whatever is pushed in between, the cursor is put back on a buffered frame
\* (the leaky bucket of pull).
ConcealBounded == streak <= MissThreshold + 1

\* When the far end falls silent the buffer falls silent too: no frame left
\* behind by a jump of the cursor keeps it concealing for ever.
FallsSilent == <>[](outcome \in {"Silence", "Reset"})

\* jitter.rs:4, frames are kept "in timestamp order": while playing goes on,
\* they are played in that order.
PlayedInOrder ==
    [][outcome' = "Play" /\ lastPlayed # None => lastPlayed' > lastPlayed]_jitterVars

\* jitter.rs:21, beyond the maximum depth "better discard than accumulate
\* latency": while playing, nothing buffered is further ahead than that.
DepthCapped == playing => \A t \in frames : t - nextTs <= MaxDepth

\* jitter.rs:96, reset clears the state "keeping the adaptation already
\* learnt".
AdaptationKept == [][outcome' = "Reset" => target' = target]_jitterVars
=============================================================================
