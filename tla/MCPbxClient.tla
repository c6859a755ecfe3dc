----------------------------- MODULE MCPbxClient -----------------------------
(* A whole client for TLC: few frames of each kind, two calls at most. *)
EXTENDS PbxClient

Arrives(kind, src, dst, iseq, ies) ==
    [kind |-> kind, src |-> src, dst |-> dst, ts |-> 0, oseq |-> 0,
     iseq |-> iseq, retx |-> FALSE, ies |-> ies]

MCRegFrames ==
    {Arrives("CALLTOKEN", 5, CALLNO_REG, 0, {"TOKEN"}),
     Arrives("REGACK", 5, CALLNO_REG, 1, {})}

MCCallFrames ==
    UNION {{Arrives("ACK", 5, n, 1, {}), Arrives("HANGUP", 5, n, 1, {})} : n \in CallNos}

MCNewFrames == {Arrives("NEW", 5, 0, 0, {})}

MCProbes == {Arrives("POKE", 5, 0, 0, {})}

\* Bound: how many frames a leg, and two legs together, have sequenced.
ShortLegs ==
    \A m, n \in DOMAIN calls :
        /\ calls[n].leg.oseq <= 2
        /\ m # n => calls[m].leg.oseq + calls[n].leg.oseq <= 3
=============================================================================
