-------------------------- MODULE RegistrationSystem --------------------------
(***************************************************************************)
(* Registration against a registrar that may crash, over a network that    *)
(* may fail, through the driver of softphone.rs: its reader task, which    *)
(* ends at the first error of the socket, and its select loop, which calls *)
(* handle_timeout when a timer is due and empties the queues each time.    *)
(*                                                                         *)
(* The registrar and the network are outside the repository: they answer   *)
(* as client.rs expects, request by request.  Every failure is paid for    *)
(* from one budget, so that a behaviour has finitely many of them.         *)
(***************************************************************************)
EXTENDS Registration

CONSTANTS
    Expiry,      \* REFRESH of a REGACK: the binding's life at the registrar
    RegistrarNo, \* the registrar's call number
    MaxFaults    \* bound: failures of the network and the registrar

ASSUME SystemAssumption ==
    /\ Expiry \in Refreshes
    /\ RegistrarNo \in RemoteNos \ {0}
    /\ MaxFaults \in Nat

VARIABLES
    toRegistrar,   \* frames under way to the registrar
    toClient,      \* frames under way to the client
    registrarUp,
    binding,       \* ticks the registrar still knows the client's address for
    listening,     \* does the reader task run?
    faults,        \* failures so far
    sinceStart     \* history, capped: ticks since the last attempt was started

network == <<toRegistrar, toClient>>
environment == <<registrarUp, binding, listening>>
systemVars == <<regVars, network, environment, faults, sinceStart>>

SystemInit ==
    /\ RegInit
    /\ toRegistrar = {} /\ toClient = {}
    /\ registrarUp = TRUE /\ binding = 0 /\ listening = TRUE
    /\ faults = 0 /\ sinceStart = RegRetry

Fault == faults < MaxFaults /\ faults' = faults + 1
NoFault == UNCHANGED faults

-----------------------------------------------------------------------------
(* The driver                                                              *)

\* flush_tx: what the handler queued leaves at once.
Flush == toRegistrar' = toRegistrar \cup regOut'

TimerDue ==
    RegStartDue \/ KeepaliveDue \/ \E o \in reg.outstanding : o.due = 0

Serve ==
    /\ TimerDue
    /\ RegHandleTimeout
    /\ Flush
    /\ sinceStart' = IF RegStartDue THEN 0 ELSE sinceStart
    /\ NoFault /\ UNCHANGED <<toClient, environment>>

\* The reader hands a datagram over; a copy may stay behind in the network.
Hear(f) ==
    /\ listening
    /\ RegInput(f)
    /\ Flush
    /\ \/ toClient' = toClient \ {f} /\ NoFault
       \/ toClient' = toClient /\ Fault
    /\ UNCHANGED <<environment, sinceStart>>

\* The reader has ended: the datagram stays in the socket for ever.
Unheard(f) ==
    /\ ~listening
    /\ toClient' = toClient \ {f}
    /\ NoFault /\ UNCHANGED <<regVars, toRegistrar, environment, sinceStart>>

\* reader.recv fails; send may take the error instead, and ignores it.
ReaderFails == listening' \in {FALSE, listening}

-----------------------------------------------------------------------------
(* The registrar                                                           *)

Reply(f, kind, ies) ==
    [kind |-> kind, src |-> RegistrarNo, dst |-> f.src, ts |-> f.ts,
     oseq |-> f.iseq, iseq |-> Succ(f.oseq), retx |-> FALSE, ies |-> ies]

\* A request is answered by what it carries: token, then response.
AnswerTo(f) ==
    IF "TOKEN" \notin f.ies THEN Reply(f, "CALLTOKEN", {"TOKEN"})
    ELSE IF "MD5" \notin f.ies THEN Reply(f, "REGAUTH", {"MD5", "CHALLENGE"})
    ELSE Reply(f, "REGACK", {"REFRESH"})

Respond(f) ==
    /\ registrarUp /\ f.kind = "REGREQ"
    /\ toClient' = toClient \cup {AnswerTo(f)}
    /\ toRegistrar' = toRegistrar \ {f}
    /\ binding' = IF "MD5" \in f.ies THEN Expiry ELSE binding
    /\ NoFault /\ UNCHANGED <<regVars, registrarUp, listening, sinceStart>>

\* ACK and POKE; and the second answer to one challenge.
Ignore(f) ==
    /\ registrarUp /\ (f.kind # "REGREQ" \/ f.oseq > 1)
    /\ toRegistrar' = toRegistrar \ {f}
    /\ NoFault /\ UNCHANGED <<regVars, toClient, environment, sinceStart>>

\* Nothing listens on the port: the host answers with an ICMP unreachable.
Refuse(f) ==
    /\ ~registrarUp
    /\ toRegistrar' = toRegistrar \ {f}
    /\ ReaderFails
    /\ NoFault /\ UNCHANGED <<regVars, toClient, registrarUp, binding, sinceStart>>

Crash ==
    /\ registrarUp /\ Fault
    /\ registrarUp' = FALSE /\ binding' = 0
    /\ UNCHANGED <<regVars, network, listening, sinceStart>>

Restart ==
    /\ ~registrarUp
    /\ registrarUp' = TRUE
    /\ NoFault /\ UNCHANGED <<regVars, network, binding, listening, sinceStart>>

-----------------------------------------------------------------------------
(* The network and time                                                    *)

Lose ==
    /\ Fault
    /\ \/ \E f \in toRegistrar : toRegistrar' = toRegistrar \ {f} /\ UNCHANGED toClient
       \/ \E f \in toClient : toClient' = toClient \ {f} /\ UNCHANGED toRegistrar
    /\ UNCHANGED <<regVars, environment, sinceStart>>

\* A frame of an earlier attempt or of an earlier run of the client.
Stray ==
    /\ Fault /\ listening
    /\ \E f \in RegFrames : RegInput(f)
    /\ Flush
    /\ UNCHANGED <<toClient, environment, sinceStart>>

\* Time passes when the driver has nothing to do; frames that are still under
\* way then are late.
SystemTick ==
    /\ ~TimerDue
    /\ RegTick
    /\ binding' = Closer(binding)
    /\ sinceStart' = IF sinceStart < RegRetry THEN sinceStart + 1 ELSE sinceStart
    /\ IF toRegistrar \cup toClient = {} THEN NoFault ELSE Fault
    /\ UNCHANGED <<network, registrarUp, listening>>

SystemNext ==
    \/ Serve
    \/ \E f \in toClient : Hear(f) \/ Unheard(f)
    \/ \E f \in toRegistrar : Respond(f) \/ Ignore(f) \/ Refuse(f)
    \/ Crash \/ Restart
    \/ Lose \/ Stray
    \/ SystemTick

\* The driver serves its timers and its reader, time passes, what is neither
\* lost nor late arrives, and a registrar that crashed is started again.
SystemFairness ==
    /\ WF_systemVars(Serve) /\ WF_systemVars(SystemTick)
    /\ WF_systemVars(\E f \in toClient : Hear(f) \/ Unheard(f))
    /\ WF_systemVars(\E f \in toRegistrar : Respond(f) \/ Ignore(f) \/ Refuse(f))
    /\ WF_systemVars(Restart)

SystemSpec == SystemInit /\ [][SystemNext]_systemVars /\ SystemFairness

-----------------------------------------------------------------------------
(* Properties                                                              *)

\* Once the failures stop, the client renews its binding before the registrar
\* forgets it, for ever: tokens, challenges, retransmissions and answers of
\* earlier attempts never leave it waiting or registered in name only
\* (client.rs:750, "re-register at ~80% of the refresh"), as long as the driver
\* still reads the socket.
StaysBound == <>[](listening => binding > 0)

\* client.rs:98, when a registration is lost "the client will retry by itself":
\* the address is known to the registrar again some time after its crash.
RecoversByItself == <>[](binding > 0)

\* client.rs:29, "anti-spam between REGREQs": two registration attempts are
\* never closer than REG_RETRY, nor, where the registrar granted a shorter
\* refresh, than the refresh time.
AttemptsSpaced ==
    [][StartRegistration =>
        sinceStart = RegRetry \/ sinceStart >= ReRegisterIn(refresh)]_systemVars

\* An attempt that is due is made in the end: poll_timeout answers with a time
\* already past only until the window of the attempt before is empty.
DueAttemptMade == [](nextReg = 0 => <>(nextReg > 0))
=============================================================================
