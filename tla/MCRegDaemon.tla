---------------------------- MODULE MCRegDaemon ----------------------------
(* regdaemon checked by TLC: frames arrive, in any order and number, for ever  *)
(* or until the network or the PBX falls silent.                               *)
EXTENDS RegDaemon

Arrives(kind, src, dst, iseq, ies) ==
    [kind |-> kind, src |-> src, dst |-> dst, ts |-> 0, oseq |-> 0,
     iseq |-> iseq, retx |-> FALSE, ies |-> ies]

\* The registrar's frames, a caller's frames from two of its call numbers, and
\* qualifies, outside and inside the dialogues.
MCDaemonFrames ==
    UNION {
        {Arrives("CALLTOKEN", 5, 1, 1, {"TOKEN"}), Arrives("CALLTOKEN", 5, 1, 1, {})},
        {Arrives("REGAUTH", 5, 1, i, e) : i \in {0, 1},
            e \in {{"MD5", "CHALLENGE"}, {"MD5"}}},
        {Arrives("REGACK", 5, 1, 2, e) : e \in {{}, {"REFRESH"}}},
        {Arrives(k, 5, 1, 1, {}) : k \in {"REGREJ", "ACK", "OTHER"}},
        {Arrives("NEW", r, 0, 0, {}) : r \in {5, 7}},
        {Arrives(k, r, 2, i, {}) : k \in {"ACK", "VOICE", "HANGUP"}, r \in {5, 7}, i \in {1, 2}},
        {Arrives("CONTROL", 5, 2, 2, {})},
        {Arrives(k, 5, d, 0, {}) : k \in {"POKE", "PING"}, d \in {0, 1, 2}}
    }

VARIABLE silent   \* history: has the last frame arrived?

MCDaemonInit == DaemonInit /\ silent = FALSE

\* The far end may fall silent for good; nothing makes it.
MCDaemonNext ==
    \/ (Turn(Timers) \/ ReceiveError) /\ UNCHANGED silent
    \/ ~silent /\ (\E f \in DaemonFrames : Turn(OnFrame(f))) /\ UNCHANGED silent
    \/ ~silent /\ silent' = TRUE /\ UNCHANGED daemonVars

MCDaemonSpec ==
    /\ MCDaemonInit
    /\ [][MCDaemonNext]_<<daemonVars, silent>>
    /\ DaemonFairness

\* A PBX that falls silent is noticed: the daemon ends up unregistered, if it
\* does not end itself.
SilenceNoticed == <>silent => <>[](~registered \/ ~running)
=============================================================================
