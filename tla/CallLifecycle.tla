---------------------------- MODULE CallLifecycle ----------------------------
(***************************************************************************)
(* What PbxClient promises its driver about calls, and all that a driver   *)
(* such as the softphone relies on: which calls there are, in what state,  *)
(* and which events are told.  No frames, sequence numbers or timers.      *)
(* CallTable is shown to implement it.                                     *)
(***************************************************************************)
EXTENDS Integers

CONSTANT CallNos

VARIABLES
    lines,   \* the calls there are, by number: their state and direction
    told     \* the events of the latest step

lifeVars == <<lines, told>>

LifeInit == DOMAIN lines = {} /\ told = {}

Event(kind, n) == [kind |-> kind, call |-> n]

\* A call begins, under a number that no other call has.
Begins(state, dir, kind) ==
    \E n \in CallNos \ DOMAIN lines :
        /\ lines' = [k \in DOMAIN lines \cup {n} |->
                        IF k = n THEN [state |-> state, dir |-> dir] ELSE lines[k]]
        /\ told' = {Event(kind, n)}

\* Call n goes on in the given state, and events are told.
GoesOnAs(n, state, events) ==
    /\ lines' = [lines EXCEPT ![n].state = state]
    /\ told' = events

\* Any of the calls end, and each is told so.
Ends ==
    \E dead \in SUBSET DOMAIN lines :
        /\ lines' = [n \in DOMAIN lines \ dead |-> lines[n]]
        /\ told' = {Event("Ended", n) : n \in dead}

LifeNext ==
    \/ Begins("Trying", "Out", "Dialing")
    \/ Begins("Ringing", "In", "Incoming")
    \/ \E n \in DOMAIN lines :
        \/ GoesOnAs(n, "Ringing", {Event("Ringing", n)})
        \/ GoesOnAs(n, "Up", {Event("Answered", n)})
        \/ \E state \in {"Up", "Held"} : GoesOnAs(n, state, {})
        \/ lines[n].state = "Up" /\ GoesOnAs(n, "Up", {Event("Voice", n)})
        \/ GoesOnAs(n, lines[n].state, {Event("Dtmf", n)})
    \/ Ends

LifeSpec == LifeInit /\ [][LifeNext]_lifeVars
==============================================================================
