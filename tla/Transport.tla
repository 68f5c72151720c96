------------------------------- MODULE Transport -------------------------------
(***************************************************************************)
(* The WebSocket transport, src/platform/web/transport/transport.ts: its   *)
(* four states, the promises of connect() and disconnect(), the sockets it *)
(* makes and leaves behind, and its timers.  transitionState runs the      *)
(* listeners of the application inside itself; one that throws leaves      *)
(* `transitioningState` set for ever, which refuses every later call.      *)
(***************************************************************************)

CONSTANTS
    Socket,     \* the WebSockets not closed at a time (bound)
    Caller      \* those who call connect() and disconnect()

VARIABLES
    tp,         \* [state, stuck, ws, timers]
    sockets,    \* [Socket -> SocketState]
    calls       \* [Caller -> Call], the last call of each

vars == <<tp, sockets, calls>>

State == {"Connecting", "Connected", "Disconnecting", "Disconnected"}

Timer == {"connect", "keepAlive", "debounce"}

SocketState == {"connecting", "open", "closing", "closed"}

(* A call's promise is pending, as the transport's connectPromise or its   *)
(* disconnectPromise, or it is settled.                                    *)
Pending == {"connect", "disconnect"}

Call == Pending \cup {"none", "resolved", "rejected"}

TypeOK ==
    /\ tp \in [state : State, stuck : BOOLEAN, ws : Socket \cup {"none"},
               timers : SUBSET Timer]
    /\ sockets \in [Socket -> SocketState]
    /\ calls \in [Caller -> Call]

Init ==
    /\ tp = [state |-> "Disconnected", stuck |-> FALSE, ws |-> "none",
             timers |-> {}]
    /\ sockets = [s \in Socket |-> "closed"]
    /\ calls = [c \in Caller |-> "none"]
-----------------------------------------------------------------------------
(* transitionState                                                         *)

(* Either all of it runs, or a listener of stateChange throws before       *)
(* onConnect and onDisconnect, or one of these throws.                     *)
Course(new) ==
    {"done", "listenerThrew"} \cup
        (IF "Connected" \in {tp.state, new} THEN {"callbackThrew"} ELSE {})

TimersIn(state) == IF state = "Connected" THEN {"keepAlive"} ELSE {}

Moved(new, course) ==
    [tp EXCEPT !.state = new,
               !.stuck = (course # "done"),
               !.timers = IF course = "listenerThrew" THEN @ \ {"connect"}
                                                      ELSE TimersIn(new)]

(* A mutant of Settles.                                                    *)
SettlesUnaborted(call, new) ==
    CASE call = "connect" /\ new = "Connected"       -> "resolved"
      [] call = "disconnect" /\ new = "Disconnected" -> "resolved"
      [] OTHER                                       -> call

(* What becomes of a call's promise when tp.state is left for `new`.       *)
Settles(call, new) ==
    CASE call = "connect" /\ tp.state = "Connecting" ->
            IF new = "Connected" THEN "resolved" ELSE "rejected"
      [] call = "disconnect" /\ tp.state = "Disconnecting" ->
            IF new = "Disconnected" THEN "resolved" ELSE "rejected"
      [] OTHER -> call

(* The promises of the state that is left are completed last.              *)
Completed(new, course) ==
    IF course = "done" THEN [c \in Caller |-> Settles(calls[c], new)] ELSE calls
-----------------------------------------------------------------------------
(* A caller waits for its last call before the next.                       *)
MayCall(c) == calls[c] \notin Pending

Replies(c, call) == calls' = [calls EXCEPT ![c] = call]

(* "Loop detected": a transition that never ended refuses both calls.      *)
Refuse(c) ==
    /\ tp.stuck
    /\ Replies(c, "rejected")
    /\ UNCHANGED <<tp, sockets>>

JoinConnect(c) ==
    /\ ~tp.stuck
    /\ \/ tp.state = "Connecting" /\ Replies(c, "connect")
       \/ tp.state = "Connected" /\ Replies(c, "resolved")
    /\ UNCHANGED <<tp, sockets>>

(* connect() aborts a disconnect() that is under way: the old socket goes  *)
(* on closing, a new one is made.                                          *)
Dial(c) ==
    /\ ~tp.stuck
    /\ tp.state \in {"Disconnecting", "Disconnected"}
    /\ \E course \in Course("Connecting") :
          IF course = "done"
          THEN /\ \E s \in Socket : sockets[s] = "closed"
               /\ LET fresh == CHOOSE s \in Socket : sockets[s] = "closed"
                  IN /\ tp' = [Moved("Connecting", course) EXCEPT
                                 !.ws = fresh, !.timers = {"connect"}]
                     /\ sockets' = [sockets EXCEPT ![fresh] = "connecting"]
               /\ calls' = [Completed("Connecting", course) EXCEPT
                              ![c] = "connect"]
          ELSE /\ tp' = Moved("Connecting", course)
               /\ Replies(c, "rejected")
               /\ UNCHANGED sockets

(* The constructor of the WebSocket throws: Connecting is left at once.    *)
DialFails(c) ==
    /\ ~tp.stuck
    /\ tp.state \in {"Disconnecting", "Disconnected"}
    /\ \E course \in {"done", "listenerThrew"} :
          tp' = [Moved("Disconnected", course) EXCEPT !.ws = "none"]
    /\ calls' = [Completed("Connecting", "done") EXCEPT ![c] = "rejected"]
    /\ UNCHANGED sockets

Connect(c) ==
    MayCall(c) /\ (Refuse(c) \/ JoinConnect(c) \/ Dial(c) \/ DialFails(c))

JoinDisconnect(c) ==
    /\ ~tp.stuck
    /\ \/ tp.state = "Disconnecting" /\ Replies(c, "disconnect")
       \/ tp.state = "Disconnected" /\ Replies(c, "resolved")
    /\ UNCHANGED <<tp, sockets>>

(* A mutant of HangUp.                                                     *)
HangUpUnclosed(c) ==
    /\ ~tp.stuck
    /\ tp.state \in {"Connecting", "Connected"}
    /\ \E course \in Course("Disconnecting") :
          /\ tp' = Moved("Disconnecting", course)
          /\ calls' = [Completed("Disconnecting", course) EXCEPT
                         ![c] = IF course = "done" THEN "disconnect"
                                ELSE "rejected"]
    /\ UNCHANGED sockets

(* disconnect() of a connection, or of an attempt to connect.              *)
HangUp(c) ==
    /\ ~tp.stuck
    /\ tp.state \in {"Connecting", "Connected"}
    /\ \E course \in Course("Disconnecting") :
          /\ tp' = Moved("Disconnecting", course)
          /\ IF course = "done"
             THEN /\ sockets' = [sockets EXCEPT ![tp.ws] = "closing"]
                  /\ calls' = [Completed("Disconnecting", course) EXCEPT
                                 ![c] = "disconnect"]
             ELSE Replies(c, "rejected") /\ UNCHANGED sockets

Disconnect(c) == MayCall(c) /\ (Refuse(c) \/ JoinDisconnect(c) \/ HangUp(c))
-----------------------------------------------------------------------------
(* The browser.  The events of a socket that is not the current one are    *)
(* ignored.                                                                *)
Opens(s) ==
    /\ sockets[s] = "connecting"
    /\ sockets' = [sockets EXCEPT ![s] = "open"]
    /\ IF s = tp.ws /\ ~tp.stuck /\ tp.state = "Connecting"
       THEN \E course \in Course("Connected") :
               /\ tp' = Moved("Connected", course)
               /\ calls' = Completed("Connected", course)
       ELSE UNCHANGED <<tp, calls>>

(* The server, the network or our own close() ends a socket at any time.   *)
Closes(s) ==
    /\ sockets[s] # "closed"
    /\ sockets' = [sockets EXCEPT ![s] = "closed"]
    /\ IF s # tp.ws THEN UNCHANGED <<tp, calls>>
       ELSE IF tp.stuck THEN tp' = [tp EXCEPT !.ws = "none"] /\ UNCHANGED calls
       ELSE \E course \in Course("Disconnected") :
               /\ tp' = [Moved("Disconnected", course) EXCEPT !.ws = "none"]
               /\ calls' = Completed("Disconnected", course)

ConnectTimeout ==
    /\ "connect" \in tp.timers
    /\ tp' = [tp EXCEPT !.timers = @ \ {"connect"}]
    /\ sockets' = [sockets EXCEPT ![tp.ws] = "closing"]
    /\ UNCHANGED calls

(* The interval sends a keep-alive unless one is outstanding ...           *)
KeepAlive ==
    /\ "keepAlive" \in tp.timers
    /\ tp' = [tp EXCEPT !.timers = @ \cup {"debounce"}]
    /\ UNCHANGED <<sockets, calls>>

(* ... that is, neither answered nor given up.                             *)
KeepAliveEnds ==
    /\ "debounce" \in tp.timers
    /\ tp' = [tp EXCEPT !.timers = @ \ {"debounce"}]
    /\ UNCHANGED <<sockets, calls>>
-----------------------------------------------------------------------------
(* Properties                                                              *)

(* No promise is lost and none is settled twice: connect() calls pend      *)
(* exactly while Connecting, disconnect() calls while Disconnecting, in all*)
(* orders of calls and of events of two sockets.  None of the exceptions   *)
(* "... promise must (not) be defined" is reached.                         *)
PromisesMatchState ==
    ~tp.stuck =>
        /\ tp.state = "Connecting" <=> \E c \in Caller : calls[c] = "connect"
        /\ tp.state = "Disconnecting" <=>
              \E c \in Caller : calls[c] = "disconnect"

(* The transport has one live socket at most, and its timers are those of  *)
(* its state: whatever it aborts or replaces, it closes.                   *)
SocketMatchesState ==
    ~tp.stuck =>
        /\ \A s \in Socket \ {tp.ws} : sockets[s] \in {"closing", "closed"}
        /\ CASE tp.state = "Disconnected"  -> tp.ws = "none"
             [] tp.state = "Connected"     -> sockets[tp.ws] = "open"
             [] tp.state = "Disconnecting" -> sockets[tp.ws] = "closing"
             [] tp.state = "Connecting"    ->
                    sockets[tp.ws] = "closing" <=> "connect" \notin tp.timers
        /\ tp.state = "Connected" <=> "keepAlive" \in tp.timers
        /\ "debounce" \in tp.timers => "keepAlive" \in tp.timers
=============================================================================
