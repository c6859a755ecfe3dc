------------------------------ MODULE Softphone ------------------------------
(***************************************************************************)
(* The multi-line softphone: the calls of all its PBXes, the one call      *)
(* whose audio is live, the jitter buffer and the loudspeaker.             *)
(*                                                                         *)
(* The program is one task: each arm of its select loop (a datagram, the   *)
(* timer, the 20 ms audio tick, a line of the keyboard) runs to its end    *)
(* before the next, so an arm is one action: the client's handler, the     *)
(* flush of its datagrams, the drain of its events and all that an         *)
(* Answered or Ended event sets off.  Only the sound card consumes the     *)
(* loudspeaker's queue on its own.                                         *)
(*                                                                         *)
(* A client is reduced to the states of its calls (CallTable has the rest) *)
(* and a sound to the call it comes from.                                  *)
(***************************************************************************)
EXTENDS Integers, FiniteSets

CONSTANTS
    PbxCount,      \* number of accounts
    CallNos        \* call numbers of each client

ASSUME SoftphoneAssumption ==
    /\ PbxCount \in Nat \ {0}
    /\ CallNos \subseteq Nat

VARIABLES
    lines,      \* the live calls of all the clients, by <<PBX, call number>>
    active,     \* the call whose audio is live, or NoLine
    selected,   \* the PBX that dials
    jb,         \* the calls with audio in the jitter buffer
    lastPcm,    \* the call of the last frame played, for concealment
    speaker,    \* the calls with sound in the loudspeaker's queue
    unsent      \* the PBXes with datagrams queued and not sent

softVars == <<lines, active, selected, jb, lastPcm, speaker, unsent>>

Pbxes == 1 .. PbxCount
Lines == Pbxes \X CallNos
NoLine == <<>>
CallStates == {"Trying", "Ringing", "Up", "Held"}

Is(line, state) == line \in DOMAIN lines /\ lines[line].state = state

SoftTypeOK ==
    /\ DOMAIN lines \subseteq Lines
    /\ lines \in [DOMAIN lines -> [state : CallStates, dir : {"In", "Out"}]]
    /\ active \in Lines \cup {NoLine}
    /\ selected \in Pbxes
    /\ jb \cup lastPcm \cup speaker \subseteq Lines
    /\ unsent \subseteq Pbxes

SoftInit ==
    /\ lines = [l \in {} |-> l]
    /\ active = NoLine
    /\ selected = 1
    /\ jb = {} /\ lastPcm = {} /\ speaker = {}
    /\ unsent = {}

-----------------------------------------------------------------------------
(* What the arms share                                                     *)

Opened(line, state, dir) ==
    [l \in DOMAIN lines \cup {line} |->
        IF l = line THEN [state |-> state, dir |-> dir] ELSE lines[l]]

\* Faulty: only a call of the same PBX is put on hold.
OnHoldSamePbx(line) == {l \in {active} \ {line} : Is(l, "Up") /\ l[1] = line[1]}

\* The call make_active(line) puts on hold, if any: the active one, if Up.
OnHold(line) == {l \in {active} \ {line} : Is(l, "Up")}

\* Faulty: whether the call changes is looked at after active is set.
SwitchingLate(line) == FALSE

Switching(line) == active # line

\* Faulty: the PBX of the call put on hold is not flushed.
TouchedNewOnly(line) == {line[1]}

\* The PBXes make_active flushes.
Touched(line) == {line[1]} \cup {l[1] : l \in OnHold(line)}

\* make_active, on calls whose states are those of table.
MakeActive(line, table) ==
    LET woken == {l \in {line} : table[l].state = "Held"}
    IN /\ lines' = [l \in DOMAIN table |->
                        CASE l \in OnHold(line) -> [table[l] EXCEPT !.state = "Held"]
                          [] l \in woken -> [table[l] EXCEPT !.state = "Up"]
                          [] OTHER -> table[l]]
       /\ active' = line
       /\ IF Switching(line) THEN jb' = {} /\ lastPcm' = {} ELSE UNCHANGED <<jb, lastPcm>>
       /\ speaker' = {}
       /\ unsent' = (unsent \cup {l[1] : l \in OnHold(line) \cup woken}) \ Touched(line)
       /\ UNCHANGED selected

\* An Answered event of the client whose call line has just gone Up.
Answered(line) == MakeActive(line, [lines EXCEPT ![line].state = "Up"])

\* Faulty: an Ended event of the active call is only printed.
EndedPrinted(dead) ==
    /\ lines' = [l \in DOMAIN lines \ dead |-> lines[l]]
    /\ UNCHANGED <<active, jb, lastPcm, speaker, selected, unsent>>

\* The calls of dead are dropped, each with its Ended event.
Ended(dead) ==
    /\ lines' = [l \in DOMAIN lines \ dead |-> lines[l]]
    /\ IF active \in dead
       THEN active' = NoLine /\ jb' = {} /\ lastPcm' = {} /\ speaker' = {}
       ELSE UNCHANGED <<active, jb, lastPcm, speaker>>
    /\ UNCHANGED <<selected, unsent>>

OnlyLines == UNCHANGED <<active, selected, jb, lastPcm, speaker, unsent>>

-----------------------------------------------------------------------------
(* A datagram                                                              *)

IncomingCall(line) ==
    /\ line \notin DOMAIN lines
    /\ lines' = Opened(line, "Ringing", "In")
    /\ OnlyLines

\* The client takes RINGING and ANSWER in any state of the call.
RemoteRinging(line) ==
    /\ line \in DOMAIN lines
    /\ lines' = [lines EXCEPT ![line].state = "Ringing"]
    /\ OnlyLines

RemoteAnswer(line) == line \in DOMAIN lines /\ Answered(line)

RemoteEnd(line) == line \in DOMAIN lines /\ Ended({line})

\* A Voice event, which the client raises for a call that is Up, counts if the
\* call is the active one.
Voice(line) ==
    /\ Is(line, "Up") /\ active = line
    /\ jb' = jb \cup {line}
    /\ UNCHANGED <<lines, active, selected, lastPcm, speaker, unsent>>

Datagram ==
    \E line \in Lines :
        \/ IncomingCall(line)
        \/ RemoteRinging(line)
        \/ RemoteAnswer(line)
        \/ RemoteEnd(line)
        \/ Voice(line)

-----------------------------------------------------------------------------
(* The timer, the audio tick, the sound card                               *)

\* handle_timeout of every client: calls may die unanswered, on any PBX.
Timer == \E dead \in SUBSET DOMAIN lines : dead # {} /\ Ended(dead)

\* The next frame is played, and the buffer may have more of the call's.
Play ==
    /\ jb # {}
    /\ \E s \in jb : lastPcm' = {s} /\ speaker' = speaker \cup {s}
    /\ jb' \in {jb, {}}

\* A hole: the last frame is played again, fainter.
Conceal == speaker' = speaker \cup lastPcm /\ UNCHANGED <<jb, lastPcm>>

\* pump_mic sends and flushes its own frames.
AudioTick ==
    /\ Is(active, "Up")
    /\ Play \/ Conceal
    /\ UNCHANGED <<lines, active, selected, unsent>>

SoundCard ==
    /\ speaker # {}
    /\ speaker' = {}
    /\ UNCHANGED <<lines, active, selected, jb, lastPcm, unsent>>

-----------------------------------------------------------------------------
(* The keyboard                                                            *)

\* Faulty: the number typed is not checked before one is taken from it.
KeySelectUnchecked ==
    /\ selected' \in 0 .. PbxCount
    /\ UNCHANGED <<lines, active, jb, lastPcm, speaker, unsent>>

KeySelect ==
    /\ selected' \in Pbxes
    /\ UNCHANGED <<lines, active, jb, lastPcm, speaker, unsent>>

KeyDial ==
    /\ \E n \in CallNos :
        /\ <<selected, n>> \notin DOMAIN lines
        /\ lines' = Opened(<<selected, n>>, "Trying", "Out")
    /\ OnlyLines

\* The order of calls_index: by PBX, then by call number.
Before(l, m) == l[1] < m[1] \/ (l[1] = m[1] /\ l[2] <= m[2])

\* find_ringing, as the set of at most one call.
FindRinging ==
    LET ringing == {l \in DOMAIN lines : lines[l].state = "Ringing"}
    IN {l \in ringing : \A m \in ringing : Before(l, m)}

\* The client answers an incoming call that rings, and no other.
Answer(line) == lines[line].dir = "In" /\ Is(line, "Ringing") /\ Answered(line)

KeyAnswer == \E line \in FindRinging : Answer(line)

KeyHangup == active # NoLine /\ Ended({active})

\* <n>: a call that rings is answered, another is made active.
KeyCall ==
    \E line \in DOMAIN lines :
        \/ Answer(line)
        \/ ~Is(line, "Ringing") /\ MakeActive(line, lines)

SoftNext ==
    \/ Datagram \/ Timer \/ AudioTick \/ SoundCard
    \/ KeySelect \/ KeyDial \/ KeyAnswer \/ KeyHangup \/ KeyCall

SoftSpec == SoftInit /\ [][SoftNext]_softVars

-----------------------------------------------------------------------------
(* Properties                                                              *)

\* Of all the calls of all the PBXes, at most the active one is connected and
\* not on hold: whatever order calls are answered, held, switched and ended in,
\* the user never talks to, or hears, two parties.
LiveIsActive == \A l \in DOMAIN lines : lines[l].state = "Up" => active = l

\* The active call is a live one: it never names a call that was dropped, so
\* commands to it reach a call and a later call with its number starts afresh.
ActiveIsAlive == active # NoLine => active \in DOMAIN lines

\* Whatever is still to be heard (buffered, kept for concealment or queued for
\* the sound card) comes from the active call.  What a flush leaves inside the
\* resamplers is less than a block and left out here: see AudioIo, OldSoundBounded.
OneStream == jb \cup lastPcm \cup speaker \subseteq {active}

\* No arm of the loop ends with datagrams queued and unsent: the HOLD of a
\* call on one PBX leaves at once when a call on another takes over.
NothingUnsent == unsent = {}

\* softphone.rs:509, "Trova la prima chiamata in stato Ringing (in ingresso) tra
\* tutti i PBX": while an incoming call rings, key 'a' picks an incoming one.
IncomingIsFound ==
    (\E l \in DOMAIN lines : Is(l, "Ringing") /\ lines[l].dir = "In")
    => \A l \in FindRinging : lines[l].dir = "In"
=============================================================================
