-------------------------- MODULE UserAgentConnection --------------------------
(***************************************************************************)
(* How a UserAgent, src/api/user-agent.ts, uses its transport: start(),    *)
(* stop() with and without a graceful shutdown, reconnect(), and the       *)
(* reconnection that a dropped connection starts.  What awaits a promise   *)
(* goes on in a microtask, which runs before any timer or socket event.    *)
(* The disposal of Registerers, sessions and others within a graceful      *)
(* stop() takes any time (UserAgentStop).                                  *)
(***************************************************************************)
EXTENDS Integers

CONSTANTS
    Socket,         \* see Transport
    Chain,          \* the chains of reconnection attempts at a time (bound)
    MaxAttempts     \* options.reconnectionAttempts

(* `none` stands for no WebSocket.                                         *)
ASSUME SocketAssumption == "none" \notin Socket

VARIABLES
    tp, sockets, calls,     \* see Transport
    agent,          \* [state, graceful, stop]
    queued,         \* the callers whose reconnect() will call connect()
    chains          \* [Chain -> 0..MaxAttempts], the attempt of each, or 0

vars == <<tp, sockets, calls, agent, queued, chains>>

Caller == {"start", "app", "stop"} \cup Chain

Transport == INSTANCE Transport

Stop == {"no", "disposing", "disconnecting"}

TypeOK ==
    /\ Transport!TypeOK
    /\ agent \in [state : {"Started", "Stopped"}, graceful : BOOLEAN, stop : Stop]
    /\ queued \subseteq Caller
    /\ chains \in [Chain -> 0..MaxAttempts]

Init ==
    /\ Transport!Init
    /\ agent \in [state : {"Stopped"}, graceful : BOOLEAN, stop : {"no"}]
    /\ queued = {}
    /\ chains = [c \in Chain |-> 0]
-----------------------------------------------------------------------------
(* Microtasks                                                              *)

Settled(c) == calls[c] \in {"resolved", "rejected"}

(* An attempt is made by the timer of its chain, `waits`, then runs.       *)
Running(c) == chains[c] > 0 /\ (c \in queued \/ calls[c] # "none")

Quiet ==
    /\ queued = {}
    /\ ~ (agent.stop = "disconnecting" /\ Settled("stop"))
    /\ \A c \in Chain : ~Settled(c)

(* reconnect() looks at the state of the user agent when it is called, not *)
(* when its microtask connects.                                            *)
RunReconnect(c) ==
    /\ c \in queued
    /\ Transport!Connect(c)
    /\ queued' = queued \ {c}
    /\ UNCHANGED <<agent, chains>>

Forget(c) == calls' = [calls EXCEPT ![c] = "none"]

(* A mutant of NextAttempt.                                                *)
NextAttemptRestarted(n) == 1

(* attemptReconnection: an attempt that failed is followed by the next.    *)
NextAttempt(n) == IF n < MaxAttempts THEN n + 1 ELSE 0

ChainGoesOn(c) ==
    /\ Settled(c)
    /\ chains' = [chains EXCEPT ![c] = IF calls[c] = "resolved" THEN 0
                                       ELSE NextAttempt(@)]
    /\ Forget(c)
    /\ UNCHANGED <<tp, sockets, agent, queued>>

(* stop() goes on after `await transport.dispose()`.                       *)
StopGoesOn ==
    /\ agent.stop = "disconnecting"
    /\ Settled("stop")
    /\ agent' = [agent EXCEPT !.stop = "no",
                              !.state = IF calls["stop"] = "resolved"
                                        THEN "Stopped" ELSE @]
    /\ UNCHANGED <<tp, sockets, calls, queued, chains>>
-----------------------------------------------------------------------------
(* The application calls when nothing is left of the last task; reconnect()*)
(* it may call from a listener as well, and stop() right after it.         *)

Start ==
    /\ Quiet
    /\ agent.state = "Stopped"
    /\ agent' = [agent EXCEPT !.state = "Started"]
    /\ Transport!Connect("start")
    /\ UNCHANGED <<queued, chains>>

Reconnect ==
    /\ agent.state = "Started"
    /\ "app" \notin queued
    /\ Transport!MayCall("app")
    /\ queued' = queued \cup {"app"}
    /\ UNCHANGED <<tp, sockets, calls, agent, chains>>

(* Without a graceful shutdown stop() does not wait for the transport.  An *)
(* exception of a listener inside disconnect() ends it.                    *)
StopAtOnce ==
    /\ Quiet \/ queued = {"app"}
    /\ agent.state = "Started"
    /\ ~agent.graceful
    /\ Transport!Disconnect("stop")
    /\ agent' = [agent EXCEPT !.state = IF tp'.stuck /\ ~tp.stuck
                                        THEN @ ELSE "Stopped"]
    /\ UNCHANGED <<queued, chains>>

StopGracefully ==
    /\ Quiet
    /\ agent.state = "Started"
    /\ agent.graceful
    /\ agent.stop = "no"
    /\ agent' = [agent EXCEPT !.stop = "disposing"]
    /\ UNCHANGED <<tp, sockets, calls, queued, chains>>

StopDisconnects ==
    /\ agent.stop = "disposing"
    /\ Transport!Disconnect("stop")
    /\ agent' = [agent EXCEPT !.stop = "disconnecting"]
    /\ UNCHANGED <<queued, chains>>
-----------------------------------------------------------------------------
(* Timers and sockets                                                      *)

(* The timer of attemptReconnection: reconnect() rejects when Stopped.     *)
ChainTimer(c) ==
    /\ Quiet
    /\ chains[c] > 0
    /\ ~Running(c)
    /\ IF agent.state = "Started"
       THEN queued' = queued \cup {c} /\ UNCHANGED chains
       ELSE chains' = [chains EXCEPT ![c] = NextAttempt(@)] /\ UNCHANGED queued
    /\ UNCHANGED <<tp, sockets, calls, agent>>

SocketOpens(s) ==
    /\ Quiet
    /\ Transport!Opens(s)
    /\ UNCHANGED <<agent, queued, chains>>

(* onTransportDisconnect is told of an error when the connection drops, and*)
(* goes on to reconnect unless the application's onDisconnect throws.      *)
Drops(s) == s = tp.ws /\ tp.state = "Connected" /\ ~tp.stuck

SocketCloses(s) ==
    /\ Quiet
    /\ Transport!Closes(s)
    /\ IF Drops(s) /\ ~tp'.stuck /\ agent.state = "Started"
       THEN \E c \in Chain :
               /\ chains[c] = 0
               /\ chains' = [chains EXCEPT ![c] = NextAttempt(0)]
       ELSE UNCHANGED chains
    /\ UNCHANGED <<agent, queued>>

TransportTimer ==
    /\ Quiet
    /\ \/ Transport!ConnectTimeout
       \/ Transport!KeepAlive
       \/ Transport!KeepAliveEnds
    /\ UNCHANGED <<agent, queued, chains>>

Next ==
    \/ \E c \in Caller : RunReconnect(c)
    \/ \E c \in Chain : ChainGoesOn(c)
    \/ StopGoesOn
    \/ Start
    \/ Reconnect
    \/ StopAtOnce
    \/ StopGracefully
    \/ StopDisconnects
    \/ \E c \in Chain : ChainTimer(c)
    \/ \E s \in Socket : SocketOpens(s) \/ SocketCloses(s)
    \/ TransportTimer

(* A socket that was told to close does, if only by the browser's own      *)
(* timeout; microtasks and timers run; the disposals of stop() end.  They  *)
(* wait for the microtasks of other callers, so that timers need SF.       *)
CloseEnds(s) == sockets[s] = "closing" /\ SocketCloses(s)

ConnectTimes == Quiet /\ Transport!ConnectTimeout /\ UNCHANGED <<agent, queued, chains>>

Fairness ==
    /\ \A c \in Caller : WF_vars(RunReconnect(c))
    /\ WF_vars(StopGoesOn) /\ WF_vars(StopDisconnects)
    /\ SF_vars(ConnectTimes)
    /\ \A s \in Socket : SF_vars(CloseEnds(s))
    /\ \A c \in Chain : WF_vars(ChainGoesOn(c)) /\ SF_vars(ChainTimer(c))

Spec == Init /\ [][Next]_vars /\ Fairness
-----------------------------------------------------------------------------
(* Properties                                                              *)

(* See Transport: no promise of connect() and disconnect() is lost.        *)
PromisesMatchState == Transport!PromisesMatchState

(* See Transport: one live socket, and the timers of the state.            *)
SocketMatchesState == Transport!SocketMatchesState

(* connect() "Resolves once connected. Otherwise rejects with an Error."   *)
(* (transport.ts:151): every call settles, the server answering or not, if *)
(* no listener throws.                                                     *)
CallsSettle ==
    \A c \in Caller : calls[c] \in Transport!Pending ~>
                          calls[c] \notin Transport!Pending \/ tp.stuck

(* Reconnection ends after MaxAttempts, connected or not: no chain of      *)
(* attempts is lost, and none keeps itself alive.                          *)
ReconnectionEnds == \A c \in Chain : chains[c] > 0 ~> chains[c] = 0 \/ tp.stuck
=============================================================================
