----------------------------- MODULE MCRegSystem -----------------------------
(* The registration system checked by TLC. *)
EXTENDS RegistrationSystem

Arrives(kind, oseq, iseq, ts, ies) ==
    [kind |-> kind, src |-> 5, dst |-> CALLNO_REG, ts |-> ts, oseq |-> oseq,
     iseq |-> iseq, retx |-> FALSE, ies |-> ies]

\* What a registrar sends, fresh, stale or repeated.
MCRegFrames ==
    UNION {
        {Arrives("CALLTOKEN", 0, i, 0, {"TOKEN"}) : i \in 0 .. 1},
        {Arrives("REGAUTH", 0, i, 0, e) : i \in 0 .. 2,
            e \in {{"MD5", "CHALLENGE"}, {"MD5"}, {"CHALLENGE"}}},
        {Arrives("REGACK", 1, i, 0, e) : i \in 1 .. 2, e \in {{}, {"REFRESH"}}},
        {Arrives("REGREJ", o, 1, 0, {}) : o \in 0 .. 1},
        {Arrives("ACK", 1, i, ts, {}) : i \in 0 .. 2, ts \in Ts},
        {Arrives("OTHER", SeqMod - 1, 0, 0, {})}
    }
=============================================================================
