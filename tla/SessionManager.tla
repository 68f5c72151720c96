----------------------------- MODULE SessionManager -----------------------------
(***************************************************************************)
(* How a SessionManager, src/platform/web/session-manager/                 *)
(* session-manager.ts, keeps its user agent connected and registered: what *)
(* the application wants (shouldBeConnected, shouldBeRegistered), the      *)
(* chains of reconnection attempts, the one attempt to register at a time, *)
(* with its delay and its guard, and the OPTIONS pings.  A connection that *)
(* is lost takes the Registerer with it; the next one makes another.  The  *)
(* transport is seen through its states alone (Transport has the rest), a  *)
(* step of a Registerer is the action of its module, and a microtask is    *)
(* part of the step that queues it.                                        *)
(***************************************************************************)
EXTENDS Integers

CONSTANTS
    Id,             \* the Registerers at a time, older ones included (bound)
    Chain,          \* the chains of reconnection attempts at a time (bound)
    MaxAttempts     \* options.reconnectionAttempts

ASSUME ManagerAssumption == "none" \notin Id /\ MaxAttempts \in Nat

VARIABLES
    regs,           \* see Registerer
    wanted,         \* [connected, registered]
    agent,          \* [state, stop, awaits], the UserAgent and its stop()
    conn,           \* the state of the transport
    chains,         \* [Chain -> [attempt, dialing]]
    ping,           \* the OPTIONS ping
    current,        \* the Registerer of the manager
    attempt,        \* registrationAttemptTimeout
    delegated,      \* the Registerers whose request has the retrying delegate
    lost,           \* those whose request went with its connection
    gaveUp          \* what is left to the application: see RegistrationIsPursued

vars == <<regs, wanted, agent, conn, chains, ping, current, attempt,
          delegated, lost, gaveUp>>

Registerers == INSTANCE Registerer

Conn == {"Disconnected", "Connecting", "Connected", "Disconnecting"}

(* No attempt to register, one with a timer without or with a delay, one   *)
(* that waits for the guard, and one that threw out of its timer and so    *)
(* never resets registrationAttemptTimeout.                                *)
Attempt == {"none", "now", "later", "guarded", "stuck"}

TypeOK ==
    /\ Registerers!TypeOK
    /\ wanted \in [connected : BOOLEAN, registered : BOOLEAN]
    /\ agent \in [state : {"Started", "Stopped"},
                  stop : {"no", "disposing", "disconnecting"},
                  awaits : Id \cup {"none"}]
    /\ conn \in Conn
    /\ chains \in [Chain -> [attempt : 0..MaxAttempts, dialing : BOOLEAN]]
    /\ ping \in {"off", "timer", "sent"}
    /\ current \in Id \cup {"none"}
    /\ attempt \in Attempt
    /\ delegated \subseteq Id
    /\ lost \subseteq Id
    /\ gaveUp \subseteq {"connection", "registration"}

NoChain == [attempt |-> 0, dialing |-> FALSE]

Init ==
    /\ Registerers!Init
    /\ wanted = [connected |-> FALSE, registered |-> FALSE]
    /\ agent = [state |-> "Stopped", stop |-> "no", awaits |-> "none"]
    /\ conn = "Disconnected"
    /\ chains = [c \in Chain |-> NoChain]
    /\ ping = "off"
    /\ current = "none"
    /\ attempt = "none"
    /\ delegated = {}
    /\ lost = {}
    /\ gaveUp = {}
-----------------------------------------------------------------------------
(* Registration                                                            *)

(* attemptRegistration: one attempt at a time.                             *)
Scheduled(when) ==
    IF wanted.registered /\ attempt = "none" THEN when ELSE attempt

(* A Registerer that nothing can happen to any more makes room.            *)
Spent(i) ==
    /\ i # agent.awaits
    /\ \/ regs[i] = Registerers!NewRegisterer
       \/ regs[i].disposed /\ regs[i].request = "none"

(* register(): the Registerer is made when there is none.  The attempt in  *)
(* progress, if any, is left to do it.                                     *)
Registers ==
    /\ attempt' = IF attempt = "none" THEN "now" ELSE attempt
    /\ gaveUp' = gaveUp \ {"registration"}
    /\ IF current # "none" THEN UNCHANGED <<regs, current, delegated, lost>>
       ELSE /\ \E i \in Id : Spent(i)
            /\ LET fresh == CHOOSE i \in Id : Spent(i)
               IN /\ current' = fresh
                  /\ regs' = [regs EXCEPT ![fresh] = Registerers!NewRegisterer]
                  /\ lost' = lost \ {fresh}
            /\ UNCHANGED delegated

Register ==
    /\ wanted' = [wanted EXCEPT !.registered = TRUE]
    /\ Registers
    /\ UNCHANGED <<agent, conn, chains, ping>>

(* unregister(): a Registerer that waits for an answer refuses.            *)
Unregister ==
    /\ wanted' = [wanted EXCEPT !.registered = FALSE]
    /\ IF current # "none" /\ Registerers!MayUnregister(regs[current])
       THEN /\ Registerers!UnregisterByUser(current)
            /\ delegated' = delegated \ {current}
       ELSE UNCHANGED <<regs, delegated>>
    /\ UNCHANGED <<agent, conn, chains, ping, current, attempt, lost, gaveUp>>

(* What _register() calls, with the Registerer of now.  One that waits     *)
(* rejects with RequestPendingError, which counts as done.                 *)
SendsRegister(thrown) ==
    IF Registerers!MayRegister(regs[current])
    THEN /\ Registerers!Register(current)
         /\ delegated' \in {delegated, delegated \cup {current}}
         /\ attempt' = "none"
    ELSE /\ attempt' = IF regs[current].waiting /\ ~regs[current].disposed
                       THEN "none" ELSE thrown
         /\ UNCHANGED <<regs, delegated>>

AttemptTimer ==
    /\ attempt \in {"now", "later"}
    /\ IF current = "none" \/ conn # "Connected" \/ agent.state = "Stopped"
       THEN attempt' = "none" /\ UNCHANGED <<regs, delegated>>
       ELSE \/ attempt' = "guarded" /\ UNCHANGED <<regs, delegated>>
            \/ SendsRegister("stuck")
    /\ UNCHANGED <<wanted, agent, conn, chains, ping, current, lost, gaveUp>>

GuardPasses ==
    /\ attempt = "guarded"
    /\ IF current = "none" THEN attempt' = "none" /\ UNCHANGED <<regs, delegated>>
                           ELSE SendsRegister("none")
    /\ UNCHANGED <<wanted, agent, conn, chains, ping, current, lost, gaveUp>>

(* The guard halts the attempt, or it rejects.                             *)
GuardHalts ==
    /\ attempt = "guarded"
    /\ attempt' = "none"
    /\ gaveUp' = gaveUp \cup {"registration"}
    /\ UNCHANGED <<regs, wanted, agent, conn, chains, ping, current,
                   delegated, lost>>

(* The listener of stateChange hears that a Registerer, even one of an     *)
(* earlier connection, becomes Unregistered, be it on its way to           *)
(* Terminated.  A 423 never makes it so.                                   *)
Falls(i) ==
    /\ regs[i].state \in {"Initial", "Registered"}
    /\ regs'[i].state \in {"Unregistered", "Terminated"}

(* A mutant of After.                                                      *)
AfterRejectionOnly(i, retries) ==
    /\ attempt' = IF retries THEN Scheduled("later") ELSE attempt
    /\ gaveUp' = IF i = current /\ ~Falls(i) /\ ~retries
                    /\ regs'[i].state = "Unregistered"
                 THEN gaveUp \cup {"registration"} ELSE gaveUp
    /\ lost' = IF regs'[i].request = "none" THEN lost \ {i} ELSE lost
    /\ UNCHANGED <<wanted, agent, conn, chains, ping, current>>

(* What a step of the Registerer i makes the manager do.  A request that   *)
(* fails when the state is Unregistered already is followed by nothing.    *)
After(i, retries) ==
    /\ attempt' = IF Falls(i) \/ retries THEN Scheduled("later") ELSE attempt
    /\ gaveUp' = IF i = current /\ ~Falls(i) /\ ~retries
                    /\ regs'[i].state = "Unregistered"
                 THEN gaveUp \cup {"registration"} ELSE gaveUp
    /\ lost' = IF regs'[i].request = "none" THEN lost \ {i} ELSE lost
    /\ UNCHANGED <<wanted, agent, conn, chains, ping, current>>

Reachable(i) == conn = "Connected" /\ i \notin lost

Accepted(i) ==
    /\ Reachable(i)
    /\ Registerers!Accepted(i)
    /\ After(i, FALSE)
    /\ delegated' = delegated \ {i}

(* 423: the Registerer repeats the request without the manager's delegate, *)
(* or ends, if it is disposed of, without having been Unregistered.        *)
IntervalTooBrief(i) ==
    /\ Reachable(i)
    /\ Registerers!IntervalTooBrief(i)
    /\ delegated' = delegated \ {i}
    /\ UNCHANGED <<wanted, agent, conn, chains, ping, current, attempt, lost,
                   gaveUp>>

(* A refusal, a timeout or a transport error.  The retrying delegate hears *)
(* of it.                                                                  *)
Rejected(i) ==
    /\ Registerers!Refused(i)
    /\ After(i, i \in delegated)
    /\ delegated' = delegated \ {i}

(* A redirect, a 423 without Min-Expires, or a 2xx that does not list us,  *)
(* or makes the handler throw: no delegate for it.                         *)
Failed(i) ==
    /\ Reachable(i)
    /\ \/ Registerers!Refused(i)
       \/ Registerers!AcceptedWithoutContact(i)
       \/ Registerers!AcceptedUnparsable(i)
    /\ After(i, FALSE)
    /\ delegated' = delegated \ {i}

UnregisterAnswered(i) ==
    /\ Registerers!UnregisterAnswered(i)
    /\ After(i, FALSE)
    /\ UNCHANGED delegated

RegistererTimer(i) ==
    /\ Registerers!Timer(i)
    /\ After(i, FALSE)
    /\ UNCHANGED delegated
-----------------------------------------------------------------------------
(* Connection                                                              *)

(* transport.connect() has an effect unless it is Connecting or Connected. *)
Dials == conn' = IF conn \in {"Disconnected", "Disconnecting"} THEN "Connecting" ELSE conn

(* connect(), which the online event calls as well.  It aborts a stop()    *)
(* that waits for the transport to disconnect.                             *)
Connect ==
    /\ wanted' = [wanted EXCEPT !.connected = TRUE]
    /\ agent' = [agent EXCEPT !.state = "Started",
                              !.stop = IF @ = "disconnecting" THEN "no" ELSE @]
    /\ Dials
    /\ gaveUp' = gaveUp \ {"connection"}
    /\ UNCHANGED <<regs, chains, ping, current, attempt, delegated, lost>>

(* A mutant of NextAttempt.                                                *)
NextAttemptOneLess(n) ==
    IF wanted.connected /\ n + 1 < MaxAttempts
    THEN [attempt |-> n + 1, dialing |-> FALSE] ELSE NoChain

(* What an attempt that failed is followed by: attemptReconnection.        *)
NextAttempt(n) ==
    IF wanted.connected /\ n < MaxAttempts
    THEN [attempt |-> n + 1, dialing |-> FALSE] ELSE NoChain

(* An attempt aborts when the application has disconnected; reconnect()    *)
(* rejects when the user agent is Stopped.                                 *)
ChainTimer(c) ==
    /\ chains[c].attempt > 0
    /\ ~chains[c].dialing
    /\ IF ~wanted.connected
       THEN chains' = [chains EXCEPT ![c] = NoChain] /\ UNCHANGED <<agent, conn, gaveUp>>
       ELSE IF agent.state = "Stopped"
       THEN /\ chains' = [chains EXCEPT ![c] = NextAttempt(@.attempt)]
            /\ UNCHANGED <<agent, conn, gaveUp>>
       ELSE /\ Dials
            /\ agent' = [agent EXCEPT !.stop = IF @ = "disconnecting" THEN "no" ELSE @]
            /\ chains' = [chains EXCEPT ![c] = IF conn = "Connected" THEN NoChain
                                               ELSE [@ EXCEPT !.dialing = TRUE]]
            /\ gaveUp' = gaveUp \ {"connection"}
    /\ UNCHANGED <<regs, wanted, ping, current, attempt, delegated, lost>>

(* The attempts that wait for a connection go on without one.              *)
ChainsGoOn ==
    chains' = [c \in Chain |-> IF chains[c].dialing THEN NextAttempt(chains[c].attempt)
                               ELSE chains[c]]

(* onConnect: register if registered is what we should be, and ping.       *)
SocketOpens ==
    /\ conn = "Connecting"
    /\ conn' = "Connected"
    /\ chains' = [c \in Chain |-> IF chains[c].dialing THEN NoChain ELSE chains[c]]
    /\ ping' = "timer"
    /\ IF wanted.registered THEN Registers
       ELSE UNCHANGED <<regs, current, attempt, delegated, lost, gaveUp>>
    /\ UNCHANGED <<wanted, agent>>

SocketFails ==
    /\ conn = "Connecting"
    /\ conn' = "Disconnected"
    /\ ChainsGoOn
    /\ gaveUp' = IF \E c \in Chain : chains[c].dialing /\ chains[c].attempt < MaxAttempts
                 THEN gaveUp ELSE gaveUp \cup {"connection"}
    /\ UNCHANGED <<regs, wanted, agent, ping, current, attempt, delegated, lost>>

(* optionsPingStop: the timer is cleared, or the request disposed of.      *)
PingStops == ping' = "off"

(* The onDisconnect of a lost connection disposes of everything without    *)
(* waiting, and reconnects, unless no attempt is allowed.                  *)
Loses(state) ==
    /\ conn' = state
    /\ PingStops
    /\ IF current = "none" THEN UNCHANGED regs ELSE Registerers!Dispose(current)
    /\ current' = "none"
    /\ lost' = {i \in Id : regs'[i].request # "none"}
    /\ IF wanted.connected
       THEN \E c \in Chain :
               /\ chains[c] = NoChain
               /\ chains' = [chains EXCEPT ![c] = NextAttempt(0)]
       ELSE UNCHANGED chains
    /\ gaveUp' = IF wanted.connected /\ MaxAttempts = 0
                 THEN gaveUp \cup {"connection"} ELSE gaveUp
    /\ UNCHANGED <<wanted, agent, attempt, delegated>>

SocketDrops == conn = "Connected" /\ Loses("Disconnected")

PingTimer ==
    /\ ping = "timer"
    /\ ping' = "sent"
    /\ UNCHANGED <<regs, wanted, agent, conn, chains, current, attempt,
                   delegated, lost, gaveUp>>

(* Every response but 408 and 503.                                         *)
PingSucceeds ==
    /\ ping = "sent"
    /\ ping' = "timer"
    /\ UNCHANGED <<regs, wanted, agent, conn, chains, current, attempt,
                   delegated, lost, gaveUp>>

(* The transport is told to disconnect, which calls onDisconnect without an*)
(* error; optionsPingFailure makes it a lost connection.                   *)
PingFails == ping = "sent" /\ Loses("Disconnecting")
-----------------------------------------------------------------------------
(* disconnect() forgets the Registerer and stops the user agent, which     *)
(* disposes of it and of the rest, one after the other.  One stop() at a   *)
(* time (bound; UserAgentStop has more).                                   *)
Disconnect ==
    /\ agent.state = "Started"
    /\ agent.stop = "no"
    /\ wanted' = [connected |-> FALSE, registered |-> FALSE]
    /\ current' = "none"
    /\ IF current = "none" THEN UNCHANGED regs ELSE Registerers!Dispose(current)
    /\ agent' = [agent EXCEPT !.stop = "disposing", !.awaits = current]
    /\ UNCHANGED <<conn, chains, ping, attempt, delegated, lost, gaveUp>>

(* The core is disposed of, with every request, and the agent is Stopped.  *)
(* No answer comes, not even a timeout.                                    *)
Stopped ==
    /\ agent' = [state |-> "Stopped", stop |-> "no", awaits |-> "none"]
    /\ regs' = [i \in Id |-> [regs[i] EXCEPT
                                !.request = "none",
                                !.dropped = @ \/ regs[i].request # "none"]]

(* An onDisconnect without an error ends the pings alone.                  *)
StopDisconnects ==
    /\ agent.stop = "disposing"
    /\ agent.awaits # "none" => regs[agent.awaits].closing = "resolved"
    /\ IF conn \in {"Connecting", "Connected"}
       THEN /\ conn' = "Disconnecting"
            /\ agent' = [agent EXCEPT !.stop = "disconnecting", !.awaits = "none"]
            /\ ChainsGoOn
            /\ UNCHANGED regs
       ELSE IF conn = "Disconnecting"
       THEN /\ agent' = [agent EXCEPT !.stop = "disconnecting", !.awaits = "none"]
            /\ UNCHANGED <<regs, conn, chains>>
       ELSE Stopped /\ UNCHANGED <<conn, chains>>
    /\ PingStops
    /\ UNCHANGED <<wanted, current, attempt, delegated, lost, gaveUp>>

SocketCloses ==
    /\ conn = "Disconnecting"
    /\ conn' = "Disconnected"
    /\ IF agent.stop = "disconnecting" THEN Stopped ELSE UNCHANGED <<regs, agent>>
    /\ UNCHANGED <<wanted, chains, ping, current, attempt, delegated,
                   lost, gaveUp>>

Next ==
    \/ Register
    \/ Unregister
    \/ AttemptTimer
    \/ GuardPasses
    \/ GuardHalts
    \/ \E i \in Id :
          \/ Accepted(i)
          \/ IntervalTooBrief(i)
          \/ Rejected(i)
          \/ Failed(i)
          \/ UnregisterAnswered(i)
          \/ RegistererTimer(i)
    \/ Connect
    \/ \E c \in Chain : ChainTimer(c)
    \/ SocketOpens
    \/ SocketFails
    \/ SocketDrops
    \/ PingTimer
    \/ PingSucceeds
    \/ PingFails
    \/ Disconnect
    \/ StopDisconnects
    \/ SocketCloses

Spec == Init /\ [][Next]_vars
-----------------------------------------------------------------------------
(* Properties                                                              *)

(* A manager that should be registered, and is connected, is registered or *)
(* does something about it: an attempt is planned or waits for the guard,  *)
(* or a REGISTER has no answer yet.  Connections that come and go, the     *)
(* Registerers they take with them, the single attempt in progress and     *)
(* timers that run out do not lose the application's wish.  Left to the    *)
(* application, until it calls register() again or the next connection     *)
(* comes, are what the guard halts and a request that fails when nothing   *)
(* was registered and nothing retries it (registrationRetry), be it an     *)
(* un-REGISTER that was pending; and, until the connection is lost, a      *)
(* Registerer that waits for nothing (`dropped`): after a 2xx without      *)
(* Contact, or with one that does not parse, or because its REGISTER went  *)
(* with a stop() that was going on.                                        *)
RegistrationIsPursued ==
    wanted.registered /\ conn = "Connected" /\ agent.stop = "no" =>
        \/ "registration" \in gaveUp
        \/ attempt \in {"now", "later", "guarded"}
        \/ /\ current # "none"
           /\ \/ regs[current].state = "Registered"
              \/ regs[current].request # "none"
              \/ regs[current].dropped

(* A user agent that should be connected, and is Started, is connected or  *)
(* about to be, or an attempt will follow: none of the MaxAttempts attempts*)
(* is dropped, however they overlap with connect(), disconnect() and the   *)
(* failing pings.  Left to the application are a connect() that fails and  *)
(* the last attempt.                                                       *)
ConnectionIsPursued ==
    wanted.connected /\ agent.state = "Started" /\ agent.stop = "no" =>
        \/ "connection" \in gaveUp
        \/ conn \in {"Connecting", "Connected"}
        \/ \E c \in Chain : chains[c].attempt > 0

(* Violated.  A manager that should not be registered does not register;   *)
(* refreshing a registration that it has is another matter.                *)
StaysUnregistered ==
    [][\A i \in Id : ~wanted.registered /\ regs[i].state # "Registered" =>
          ~(regs[i].request = "none" /\ regs'[i].request = "register")]_vars

(* Violated.  A user agent that should be connected is Started, so that    *)
(* attempts can be made.                                                   *)
WantedIsStarted == wanted.connected => agent.state = "Started"

(* Violated.  When an un-REGISTER is answered and the manager should be    *)
(* registered, an attempt to register is under way.                        *)
RegisterIsRemembered ==
    [][\A i \in Id :
          /\ i = current /\ wanted.registered /\ conn = "Connected"
          /\ regs[i].request = "unregister" /\ regs'[i].request = "none"
          /\ conn' = conn /\ agent' = agent
          => attempt' # "none"]_vars
=============================================================================
