----------------------------- MODULE MCCallTable -----------------------------
(* Instances of CallTable for TLC: the sets of frames that may arrive. *)
EXTENDS CallTable

\* A frame of the far end (call number 5) for the call n.
Arrives(n, kind, oseq, iseq, ts, ies) ==
    [kind |-> kind, src |-> 5, dst |-> n, ts |-> ts, oseq |-> oseq,
     iseq |-> iseq, retx |-> FALSE, ies |-> ies]

Plain(n, kinds, oseqs, iseqs) ==
    {Arrives(n, k, o, i, 0, {}) : k \in kinds, o \in oseqs, i \in iseqs}

\* Every kind of frame, acknowledging nothing, one frame or two.
MCAllFrames ==
    UNION {UNION {
        Plain(n, CallInKinds \ {"AUTHREQ", "CALLTOKEN"}, {0}, {1}),
        Plain(n, {"ANSWER", "DTMF"}, {0}, {0, 2}),
        {Arrives(n, "ACK", 0, i, ts, {}) : i \in {0, 1}, ts \in Ts},
        {Arrives(n, "CALLTOKEN", 0, 1, 0, ies) : ies \in {{}, {"TOKEN"}}},
        {Arrives(n, "AUTHREQ", 0, 1, 0, ies) :
            ies \in {{"MD5"}, {"CHALLENGE"}, {"MD5", "CHALLENGE"}}},
        {[Arrives(n, "ACK", 0, 2, 0, {}) EXCEPT !.src = 0]}
    } : n \in CallNos}

MCNew == {[kind |-> "NEW", src |-> s, dst |-> 0, ts |-> 0, oseq |-> 0,
           iseq |-> 0, retx |-> FALSE, ies |-> {}] : s \in RemoteNos \ {0}}

\* One NEW, which the network may repeat, and what its call then receives.
MCOneNew == {f \in MCNew : f.src = 5}
MCNoFrames == {}

\* A driver that holds and resumes only calls that are connected.
ConnectedHolds ==
    (\E f \in callOut' : f \in Frames({"HOLD", "UNHOLD"}, CallNos)) =>
        \A n \in DOMAIN calls : calls[n].state \in {"Up", "Held"}

MCPoliteSpec == CallInit /\ [][CallNext /\ ConnectedHolds]_callVars

\* client.rs:262 and 587, mini-frames are routed "remote_call -> local": the
\* audio of a connected call reaches that call and no other.
AudioReachesItsCall ==
    \A n \in DOMAIN calls :
        LET r == calls[n].leg.remote IN
        calls[n].state = "Up" /\ r # 0 => r \in DOMAIN remoteIndex /\ remoteIndex[r] = n
==============================================================================
