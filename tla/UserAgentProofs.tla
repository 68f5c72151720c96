--------------------------- MODULE UserAgentProofs ---------------------------
(***************************************************************************)
(* What the user agent and its objects keep: that no call on the transport *)
(* is left without an answer and that one WebSocket is live; that a stop() *)
(* loses no refresh of a Registerer or a Publisher; that a Subscriber which*)
(* is alive is refreshed.  For every bound of the three models.            *)
(***************************************************************************)
EXTENDS UserAgentConnection, UserAgentStop, Subscription, TLAPS

USE DEF Transport!State, Transport!Timer, Transport!SocketState, Transport!Call,
        Transport!Pending

(* A socket is the current one from connect() on until it closes, and its  *)
(* timers are those of the state.                                          *)
Current ==
    /\ tp.state # "Disconnected" => tp.ws \in Socket
    /\ "connect" \in tp.timers => tp.state = "Connecting"

IInv == Transport!TypeOK /\ PromisesMatchState /\ SocketMatchesState
        /\ (tp.stuck \/ Current)

(* SocketMatchesState, a state at a time.                                  *)
SocketFits ==
    /\ \A s \in Socket \ {tp.ws} : sockets[s] \in {"closing", "closed"}
    /\ tp.state = "Disconnected" => tp.ws = "none"
    /\ tp.state = "Connected" => sockets[tp.ws] = "open"
    /\ tp.state = "Disconnecting" => sockets[tp.ws] = "closing"
    /\ tp.state = "Connecting" =>
          (sockets[tp.ws] = "closing" <=> "connect" \notin tp.timers)
    /\ tp.state = "Connected" <=> "keepAlive" \in tp.timers
    /\ "debounce" \in tp.timers => "keepAlive" \in tp.timers

NoPromise == \A c \in Caller : calls[c] \notin {"connect", "disconnect"}

LEMMA SocketFitsIs ==
    ASSUME Transport!TypeOK
    PROVE  SocketMatchesState <=> (tp.stuck \/ SocketFits)
  BY DEF SocketMatchesState, Transport!SocketMatchesState, SocketFits,
         Transport!TypeOK

(* A transition that ends settles every promise that is pending.           *)
LEMMA AllSettle ==
    ASSUME IInv, ~tp.stuck, NEW new
    PROVE  /\ Transport!Completed(new, "done") \in [Caller -> Transport!Call]
           /\ \A c \in Caller : Transport!Completed(new, "done")[c]
                                  \notin {"connect", "disconnect"}
  BY DEF IInv, PromisesMatchState, Transport!PromisesMatchState,
         Transport!TypeOK, Transport!Completed, Transport!Settles

(* One that throws leaves the transport stuck, and well typed.             *)
LEMMA MovedIs ==
    ASSUME Transport!TypeOK, NEW new \in Transport!State, NEW course
    PROVE  /\ Transport!Moved(new, course) \in
                 [state : Transport!State, stuck : BOOLEAN,
                  ws : Socket \cup {"none"}, timers : SUBSET Transport!Timer]
           /\ Transport!Moved(new, course).state = new
           /\ Transport!Moved(new, course).ws = tp.ws
           /\ Transport!Moved(new, course).stuck = (course # "done")
           /\ course = "done" => Transport!Moved(new, course).timers =
                                    Transport!TimersIn(new)
  BY DEF Transport!TypeOK, Transport!Moved, Transport!TimersIn
LEMMA StuckKeeps ==
    ASSUME Transport!TypeOK', tp'.stuck
    PROVE  IInv'
  BY DEF IInv, PromisesMatchState, Transport!PromisesMatchState,
         SocketMatchesState, Transport!SocketMatchesState

(* The promises that pend fit the state.                                   *)
PromisesFit ==
    /\ tp.state = "Connecting" <=> \E c \in Caller : calls[c] = "connect"
    /\ tp.state = "Disconnecting" <=> \E c \in Caller : calls[c] = "disconnect"

LEMMA GoodKeeps ==
    ASSUME Transport!TypeOK', PromisesFit', SocketFits', Current'
    PROVE  IInv'
  <1>1. PromisesMatchState'
    BY DEF PromisesMatchState, Transport!PromisesMatchState, PromisesFit
  <1>2. SocketMatchesState'
    BY DEF SocketMatchesState, Transport!SocketMatchesState, SocketFits,
           Transport!TypeOK
  <1> QED BY <1>1, <1>2 DEF IInv

LEMMA Unfolded ==
    ASSUME IInv, ~tp.stuck
    PROVE  Transport!TypeOK /\ PromisesFit /\ SocketFits /\ Current
  BY SocketFitsIs
  DEF IInv, PromisesMatchState, Transport!PromisesMatchState, PromisesFit

(* While the transport stays as it is, callers may hear or forget what is  *)
(* settled.                                                                *)
LEMMA SettledKeeps ==
    ASSUME IInv, UNCHANGED <<tp, sockets>>, NEW c \in Caller,
           calls[c] \notin {"connect", "disconnect"},
           NEW call \in {"none", "resolved", "rejected"},
           calls' = [calls EXCEPT ![c] = call]
    PROVE  IInv'
  <1>1. Transport!TypeOK'
    BY DEF IInv, Transport!TypeOK
  <1>2. CASE tp.stuck
    BY <1>1, <1>2, StuckKeeps
  <1>3. CASE ~tp.stuck
    <2>1. PromisesFit /\ SocketFits /\ Current
      BY <1>3, Unfolded
    <2>2. PromisesFit'
      BY <2>1 DEF PromisesFit, IInv, Transport!TypeOK
    <2>3. SocketFits' /\ Current'
      BY <2>1 DEF SocketFits, Current
    <2> QED BY <1>1, <2>2, <2>3, GoodKeeps
  <1> QED BY <1>2, <1>3

LEMMA JoinKeeps ==
    ASSUME IInv, UNCHANGED <<tp, sockets>>, ~tp.stuck, NEW c \in Caller,
           calls[c] \notin {"connect", "disconnect"},
           NEW call,
           \/ tp.state = "Connecting" /\ call = "connect"
           \/ tp.state = "Disconnecting" /\ call = "disconnect",
           calls' = [calls EXCEPT ![c] = call]
    PROVE  IInv'
  <1>1. Transport!TypeOK'
    BY DEF IInv, Transport!TypeOK
  <1>2. PromisesFit /\ SocketFits /\ Current
    BY Unfolded
  <1>3. PromisesFit'
    BY <1>2 DEF PromisesFit, IInv, Transport!TypeOK
  <1>4. SocketFits' /\ Current'
    BY <1>2 DEF SocketFits, Current
  <1> QED BY <1>1, <1>3, <1>4, GoodKeeps

LEMMA DialKeeps ==
    ASSUME IInv, NEW c \in Caller, Transport!Dial(c)
    PROVE  IInv'
  <1>1. PICK course \in Transport!Course("Connecting") :
          IF course = "done"
          THEN /\ \E s \in Socket : sockets[s] = "closed"
               /\ LET fresh == CHOOSE s \in Socket : sockets[s] = "closed"
                  IN /\ tp' = [Transport!Moved("Connecting", course) EXCEPT
                                 !.ws = fresh, !.timers = {"connect"}]
                     /\ sockets' = [sockets EXCEPT ![fresh] = "connecting"]
               /\ calls' = [Transport!Completed("Connecting", course) EXCEPT
                              ![c] = "connect"]
          ELSE /\ tp' = Transport!Moved("Connecting", course)
               /\ calls' = [calls EXCEPT ![c] = "rejected"]
               /\ UNCHANGED sockets
    BY DEF Transport!Dial, Transport!Replies
  <1>2. /\ ~tp.stuck /\ tp.state \in {"Disconnecting", "Disconnected"}
        /\ Transport!TypeOK /\ SocketFits /\ Current
    BY Unfolded DEF Transport!Dial
  <1>3. CASE course # "done"
    <2>1. Transport!TypeOK' /\ tp'.stuck
      BY <1>1, <1>2, <1>3, MovedIs DEF Transport!TypeOK
    <2> QED BY <2>1, StuckKeeps
  <1>4. CASE course = "done"
    <2>1. PICK fresh \in Socket :
            /\ sockets[fresh] = "closed"
            /\ tp' = [Transport!Moved("Connecting", "done") EXCEPT
                        !.ws = fresh, !.timers = {"connect"}]
            /\ sockets' = [sockets EXCEPT ![fresh] = "connecting"]
      BY <1>1, <1>4
    <2>2. calls' = [Transport!Completed("Connecting", "done") EXCEPT
                      ![c] = "connect"]
      BY <1>1, <1>4
    <2>3. /\ tp' \in [state : Transport!State, stuck : BOOLEAN,
                      ws : Socket \cup {"none"}, timers : SUBSET Transport!Timer]
          /\ tp'.state = "Connecting" /\ tp'.ws = fresh
          /\ tp'.timers = {"connect"} /\ ~tp'.stuck
      <3> DEFINE m == Transport!Moved("Connecting", "done")
      <3>1. /\ m \in [state : Transport!State, stuck : BOOLEAN,
                       ws : Socket \cup {"none"}, timers : SUBSET Transport!Timer]
            /\ m.state = "Connecting" /\ m.stuck = FALSE
        BY <1>2, MovedIs
      <3>2. tp' = [m EXCEPT !.ws = fresh, !.timers = {"connect"}]
        BY <2>1
      <3> HIDE DEF m
      <3> QED BY <3>1, <3>2
    <2>4. Transport!TypeOK'
      BY <1>2, <2>1, <2>2, <2>3, AllSettle DEF Transport!TypeOK
    <2>5. PromisesFit'
      BY <1>2, <2>2, <2>3, AllSettle DEF PromisesFit
    <2>6. \A s \in Socket \ {tp'.ws} : sockets'[s] \in {"closing", "closed"}
      BY <1>2, <2>1, <2>3, SocketAssumption DEF SocketFits, Transport!TypeOK
    <2>7. SocketFits' /\ Current'
      BY <1>2, <2>1, <2>3, <2>6 DEF SocketFits, Current, Transport!TypeOK
    <2> QED BY <2>4, <2>5, <2>7, GoodKeeps
  <1> QED BY <1>3, <1>4

LEMMA DialFailsKeeps ==
    ASSUME IInv, NEW c \in Caller, Transport!DialFails(c)
    PROVE  IInv'
  <1>1. PICK course \in {"done", "listenerThrew"} :
          tp' = [Transport!Moved("Disconnected", course) EXCEPT !.ws = "none"]
    BY DEF Transport!DialFails
  <1>2. /\ ~tp.stuck /\ tp.state \in {"Disconnecting", "Disconnected"}
        /\ Transport!TypeOK /\ SocketFits /\ Current
    BY Unfolded DEF Transport!DialFails
  <1>3. /\ calls' = [Transport!Completed("Connecting", "done") EXCEPT
                       ![c] = "rejected"]
        /\ UNCHANGED sockets
    BY DEF Transport!DialFails
  <1>4. /\ tp' \in [state : Transport!State, stuck : BOOLEAN,
                    ws : Socket \cup {"none"}, timers : SUBSET Transport!Timer]
        /\ tp'.state = "Disconnected" /\ tp'.ws = "none"
        /\ tp'.stuck = (course # "done")
        /\ course = "done" => tp'.timers = {}
    BY <1>1, <1>2, MovedIs DEF Transport!TimersIn
  <1>5. Transport!TypeOK'
    BY <1>2, <1>3, <1>4, AllSettle DEF Transport!TypeOK
  <1>6. CASE course # "done"
    BY <1>4, <1>5, <1>6, StuckKeeps
  <1>7. CASE course = "done"
    <2>1. PromisesFit'
      BY <1>2, <1>3, <1>4, AllSettle DEF PromisesFit
    <2>2. \A s \in Socket : sockets[s] \in {"closing", "closed"}
      BY <1>2, SocketAssumption DEF SocketFits, Current
    <2>3. SocketFits' /\ Current'
      BY <1>3, <1>4, <1>7, <2>2 DEF SocketFits, Current
    <2> QED BY <1>5, <2>1, <2>3, GoodKeeps
  <1> QED BY <1>6, <1>7

LEMMA ConnectKeeps ==
    ASSUME IInv, NEW c \in Caller, Transport!Connect(c)
    PROVE  IInv'
  <1>1. calls[c] \notin {"connect", "disconnect"}
    BY DEF Transport!Connect, Transport!MayCall
  <1>2. CASE Transport!Refuse(c)
    BY <1>1, <1>2, SettledKeeps DEF Transport!Refuse, Transport!Replies
  <1>3. CASE Transport!JoinConnect(c)
    BY <1>1, <1>3, SettledKeeps, JoinKeeps
    DEF Transport!JoinConnect, Transport!Replies
  <1> QED
    BY <1>2, <1>3, DialKeeps, DialFailsKeeps DEF Transport!Connect

LEMMA HangUpKeeps ==
    ASSUME IInv, NEW c \in Caller, Transport!HangUp(c)
    PROVE  IInv'
  <1>1. PICK course \in Transport!Course("Disconnecting") :
          /\ tp' = Transport!Moved("Disconnecting", course)
          /\ IF course = "done"
             THEN /\ sockets' = [sockets EXCEPT ![tp.ws] = "closing"]
                  /\ calls' = [Transport!Completed("Disconnecting", course)
                                 EXCEPT ![c] = "disconnect"]
             ELSE /\ calls' = [calls EXCEPT ![c] = "rejected"]
                  /\ UNCHANGED sockets
    BY DEF Transport!HangUp, Transport!Replies
  <1>2. /\ ~tp.stuck /\ tp.state \in {"Connecting", "Connected"}
        /\ Transport!TypeOK /\ SocketFits /\ Current
    BY Unfolded DEF Transport!HangUp
  <1>3. CASE course # "done"
    <2>1. Transport!TypeOK' /\ tp'.stuck
      BY <1>1, <1>2, <1>3, MovedIs DEF Transport!TypeOK
    <2> QED BY <2>1, StuckKeeps
  <1>4. CASE course = "done"
    <2>1. /\ sockets' = [sockets EXCEPT ![tp.ws] = "closing"]
          /\ calls' = [Transport!Completed("Disconnecting", "done") EXCEPT
                         ![c] = "disconnect"]
      BY <1>1, <1>4
    <2>2. /\ tp' \in [state : Transport!State, stuck : BOOLEAN,
                      ws : Socket \cup {"none"}, timers : SUBSET Transport!Timer]
          /\ tp'.state = "Disconnecting" /\ tp'.ws = tp.ws /\ tp'.timers = {}
      BY <1>1, <1>2, <1>4, MovedIs DEF Transport!TimersIn
    <2>3. Transport!TypeOK'
      BY <1>2, <2>1, <2>2, AllSettle DEF Transport!TypeOK
    <2>4. PromisesFit'
      BY <1>2, <2>1, <2>2, AllSettle DEF PromisesFit
    <2>5. SocketFits' /\ Current'
      BY <1>2, <2>1, <2>2 DEF SocketFits, Current, Transport!TypeOK
    <2> QED BY <2>3, <2>4, <2>5, GoodKeeps
  <1> QED BY <1>3, <1>4

LEMMA DisconnectKeeps ==
    ASSUME IInv, NEW c \in Caller, Transport!Disconnect(c)
    PROVE  IInv'
  <1>1. calls[c] \notin {"connect", "disconnect"}
    BY DEF Transport!Disconnect, Transport!MayCall
  <1>2. CASE Transport!Refuse(c)
    BY <1>1, <1>2, SettledKeeps DEF Transport!Refuse, Transport!Replies
  <1>3. CASE Transport!JoinDisconnect(c)
    BY <1>1, <1>3, SettledKeeps, JoinKeeps
    DEF Transport!JoinDisconnect, Transport!Replies
  <1> QED
    BY <1>2, <1>3, HangUpKeeps DEF Transport!Disconnect
-----------------------------------------------------------------------------
(* The browser                                                             *)

(* Only the current socket can open, unless the transport is stuck.        *)
LEMMA OpensKeeps ==
    ASSUME IInv, NEW s \in Socket, Transport!Opens(s)
    PROVE  IInv'
  <1>1. /\ sockets[s] = "connecting"
        /\ sockets' = [sockets EXCEPT ![s] = "open"]
        /\ Transport!TypeOK
    BY DEF Transport!Opens, IInv
  <1>2. CASE tp.stuck
    <2>1. UNCHANGED <<tp, calls>>
      BY <1>2 DEF Transport!Opens
    <2>2. Transport!TypeOK'
      BY <1>1, <2>1 DEF Transport!TypeOK
    <2> QED BY <1>2, <2>1, <2>2, StuckKeeps
  <1>3. CASE ~tp.stuck
    <2>1. SocketFits /\ Current
      BY <1>3, Unfolded
    <2>2. s = tp.ws /\ tp.state = "Connecting"
      BY <1>1, <2>1, SocketAssumption DEF SocketFits, Current, Transport!TypeOK
    <2>3. PICK course \in Transport!Course("Connected") :
            /\ tp' = Transport!Moved("Connected", course)
            /\ calls' = Transport!Completed("Connected", course)
      BY <1>3, <2>2 DEF Transport!Opens
    <2>4. /\ tp' \in [state : Transport!State, stuck : BOOLEAN,
                      ws : Socket \cup {"none"}, timers : SUBSET Transport!Timer]
          /\ tp'.state = "Connected" /\ tp'.ws = tp.ws
          /\ tp'.stuck = (course # "done")
          /\ course = "done" => tp'.timers = {"keepAlive"}
      BY <1>1, <2>3, MovedIs DEF Transport!TimersIn
    <2>5. CASE course # "done"
      <3>1. calls' = calls
        BY <2>3, <2>5 DEF Transport!Completed
      <3>2. Transport!TypeOK'
        BY <1>1, <2>4, <3>1 DEF Transport!TypeOK
      <3> QED BY <2>4, <2>5, <3>2, StuckKeeps
    <2>6. CASE course = "done"
      <3>1. Transport!TypeOK'
        BY <1>1, <1>3, <2>3, <2>4, <2>6, AllSettle DEF Transport!TypeOK
      <3>2. PromisesFit'
        BY <1>3, <2>3, <2>4, <2>6, AllSettle DEF PromisesFit
      <3>3. SocketFits' /\ Current'
        BY <1>1, <2>1, <2>2, <2>4, <2>6
        DEF SocketFits, Current, Transport!TypeOK
      <3> QED BY <3>1, <3>2, <3>3, GoodKeeps
    <2> QED BY <2>5, <2>6
  <1> QED BY <1>2, <1>3

LEMMA ClosesKeeps ==
    ASSUME IInv, NEW s \in Socket, Transport!Closes(s)
    PROVE  IInv'
  <1>1. /\ sockets' = [sockets EXCEPT ![s] = "closed"]
        /\ Transport!TypeOK
    BY DEF Transport!Closes, IInv
  <1>2. CASE tp.stuck
    <2>1. /\ tp' = tp \/ tp' = [tp EXCEPT !.ws = "none"]
          /\ UNCHANGED calls
      BY <1>2 DEF Transport!Closes
    <2>2. Transport!TypeOK' /\ tp'.stuck
      BY <1>1, <1>2, <2>1 DEF Transport!TypeOK
    <2> QED BY <2>2, StuckKeeps
  <1>3. CASE ~tp.stuck /\ s # tp.ws
    <2>1. UNCHANGED <<tp, calls>>
      BY <1>3 DEF Transport!Closes
    <2>2. Transport!TypeOK'
      BY <1>1, <2>1 DEF Transport!TypeOK
    <2>3. PromisesFit /\ SocketFits /\ Current
      BY <1>3, Unfolded
    <2>4. PromisesFit' /\ Current'
      BY <2>1, <2>3 DEF PromisesFit, Current
    <2>5. /\ \A t \in Socket : t # tp.ws => sockets'[t] \in {"closing", "closed"}
          /\ tp.ws \in Socket => sockets'[tp.ws] = sockets[tp.ws]
      BY <1>1, <1>3, <2>3 DEF SocketFits, Transport!TypeOK
    <2>6. SocketFits'
      BY <2>1, <2>3, <2>5 DEF SocketFits, Current
    <2> QED BY <2>2, <2>4, <2>6, GoodKeeps
  <1>4. CASE ~tp.stuck /\ s = tp.ws
    <2>1. SocketFits
      BY <1>4, Unfolded
    <2>2. PICK course \in Transport!Course("Disconnected") :
            /\ tp' = [Transport!Moved("Disconnected", course) EXCEPT
                        !.ws = "none"]
            /\ calls' = Transport!Completed("Disconnected", course)
      BY <1>4 DEF Transport!Closes
    <2>3. /\ tp' \in [state : Transport!State, stuck : BOOLEAN,
                      ws : Socket \cup {"none"}, timers : SUBSET Transport!Timer]
          /\ tp'.state = "Disconnected" /\ tp'.ws = "none"
          /\ tp'.stuck = (course # "done")
          /\ course = "done" => tp'.timers = {}
      BY <1>1, <2>2, MovedIs DEF Transport!TimersIn
    <2>4. CASE course # "done"
      <3>1. calls' = calls
        BY <2>2, <2>4 DEF Transport!Completed
      <3>2. Transport!TypeOK'
        BY <1>1, <2>3, <3>1 DEF Transport!TypeOK
      <3> QED BY <2>3, <2>4, <3>2, StuckKeeps
    <2>5. CASE course = "done"
      <3>1. Transport!TypeOK'
        BY <1>1, <1>4, <2>2, <2>3, <2>5, AllSettle DEF Transport!TypeOK
      <3>2. PromisesFit'
        BY <1>4, <2>2, <2>3, <2>5, AllSettle DEF PromisesFit
      <3>3. \A t \in Socket : sockets'[t] \in {"closing", "closed"}
        BY <1>1, <1>4, <2>1 DEF SocketFits, Transport!TypeOK
      <3>4. SocketFits' /\ Current'
        BY <2>3, <2>5, <3>3 DEF SocketFits, Current
      <3> QED BY <3>1, <3>2, <3>4, GoodKeeps
    <2> QED BY <2>4, <2>5
  <1> QED BY <1>2, <1>3, <1>4

(* The timers: only the connection timeout touches a socket.               *)
LEMMA TimersKeep ==
    ASSUME IInv, NEW timers \in SUBSET Transport!Timer,
           tp' = [tp EXCEPT !.timers = timers], UNCHANGED calls,
           \/ /\ "connect" \in tp.timers
              /\ timers = tp.timers \ {"connect"}
              /\ sockets' = [sockets EXCEPT ![tp.ws] = "closing"]
           \/ /\ UNCHANGED sockets
              /\ "keepAlive" \in tp.timers <=> "keepAlive" \in timers
              /\ "connect" \in tp.timers <=> "connect" \in timers
              /\ "debounce" \in timers => "keepAlive" \in timers \/ tp.stuck
    PROVE  IInv'
  <1>1. /\ Transport!TypeOK
        /\ tp'.state = tp.state /\ tp'.ws = tp.ws /\ tp'.timers = timers
        /\ tp'.stuck = tp.stuck
    BY DEF IInv, Transport!TypeOK
  <1>2. Transport!TypeOK'
    BY <1>1 DEF Transport!TypeOK
  <1>3. CASE tp.stuck
    BY <1>1, <1>2, <1>3, StuckKeeps
  <1>4. CASE ~tp.stuck
    <2>1. PromisesFit /\ SocketFits /\ Current
      BY <1>4, Unfolded
    <2>2. PromisesFit' /\ Current'
      BY <1>1, <2>1 DEF PromisesFit, Current
    <2>3. SocketFits'
      BY <1>1, <1>4, <2>1 DEF SocketFits, Current, Transport!TypeOK
    <2> QED BY <1>2, <2>2, <2>3, GoodKeeps
  <1> QED BY <1>3, <1>4
-----------------------------------------------------------------------------
(* The user agent                                                          *)

LEMMA InitIInv == Init => IInv
  BY DEF Init, Transport!Init, IInv, Transport!TypeOK, PromisesMatchState,
         Transport!PromisesMatchState, SocketMatchesState,
         Transport!SocketMatchesState, Current

LEMMA NothingKeeps ==
    ASSUME IInv, UNCHANGED <<tp, sockets, calls>>
    PROVE  IInv'
  BY DEF IInv, Transport!TypeOK, PromisesMatchState,
         Transport!PromisesMatchState, SocketMatchesState,
         Transport!SocketMatchesState, Current

LEMMA TransportTimerKeeps ==
    ASSUME IInv, TransportTimer
    PROVE  IInv'
  <1>0. Transport!TypeOK
    BY DEF IInv
  <1>1. CASE Transport!ConnectTimeout
    <2> DEFINE timers == tp.timers \ {"connect"}
    <2>1. timers \in SUBSET Transport!Timer
      BY <1>0 DEF Transport!TypeOK
    <2> QED
      BY <1>1, <2>1, TimersKeep DEF Transport!ConnectTimeout
  <1>2. CASE Transport!KeepAlive
    <2> DEFINE timers == tp.timers \cup {"debounce"}
    <2>1. timers \in SUBSET Transport!Timer
      BY <1>0 DEF Transport!TypeOK
    <2> QED
      BY <1>2, <2>1, TimersKeep DEF Transport!KeepAlive
  <1>3. CASE Transport!KeepAliveEnds
    <2> DEFINE timers == tp.timers \ {"debounce"}
    <2>1. timers \in SUBSET Transport!Timer
      BY <1>0 DEF Transport!TypeOK
    <2> QED
      BY <1>3, <2>1, TimersKeep DEF Transport!KeepAliveEnds
  <1> QED BY <1>1, <1>2, <1>3 DEF TransportTimer

LEMMA StepIInv == IInv /\ [Next]_vars => IInv'
  <1> SUFFICES ASSUME IInv, [Next]_vars PROVE IInv'
    OBVIOUS
  <1>0. /\ "start" \in Caller /\ "app" \in Caller /\ "stop" \in Caller
        /\ Chain \subseteq Caller
    BY DEF Caller
  <1>1. ASSUME NEW c \in Caller, RunReconnect(c) PROVE IInv'
    BY <1>1, ConnectKeeps DEF RunReconnect
  <1>2. ASSUME NEW c \in Chain, ChainGoesOn(c) PROVE IInv'
    BY <1>0, <1>2, SettledKeeps DEF ChainGoesOn, Settled, Forget
  <1>3. CASE StopGoesOn \/ Reconnect \/ StopGracefully
    BY <1>3, NothingKeeps DEF StopGoesOn, Reconnect, StopGracefully
  <1>4. CASE Start
    BY <1>0, <1>4, ConnectKeeps DEF Start
  <1>5. CASE StopAtOnce \/ StopDisconnects
    BY <1>0, <1>5, DisconnectKeeps DEF StopAtOnce, StopDisconnects
  <1>6. ASSUME NEW c \in Chain, ChainTimer(c) PROVE IInv'
    BY <1>6, NothingKeeps DEF ChainTimer
  <1>7. ASSUME NEW s \in Socket, SocketOpens(s) \/ SocketCloses(s) PROVE IInv'
    BY <1>7, OpensKeeps, ClosesKeeps DEF SocketOpens, SocketCloses
  <1>8. CASE TransportTimer
    BY <1>8, TransportTimerKeeps
  <1>9. CASE UNCHANGED vars
    BY <1>9, NothingKeeps DEF vars
  <1> QED
    BY <1>1, <1>2, <1>3, <1>4, <1>5, <1>6, <1>7, <1>8, <1>9 DEF Next

LEMMA Invariance == Spec => []IInv
  <1> QED BY InitIInv, StepIInv, PTL DEF Spec

(* The promises of connect() and disconnect() that pend are those of the   *)
(* state (transport.ts:528, transitionState): none is lost or completed    *)
(* twice, for any number of sockets and of callers.                        *)
THEOREM PromisesAreKept == Spec => []PromisesMatchState
  <1>1. IInv => PromisesMatchState
    BY DEF IInv
  <1> QED BY <1>1, Invariance, PTL

(* Every WebSocket but the transport's own is closed or closing, and that  *)
(* one and the timers are as the state says (transport.ts:528).            *)
THEOREM SocketsAreKept == Spec => []SocketMatchesState
  <1>1. IInv => SocketMatchesState
    BY DEF IInv
  <1> QED BY <1>1, Invariance, PTL
-----------------------------------------------------------------------------
RegRecord ==
    [state : Registerers!State, waiting : BOOLEAN, disposed : BOOLEAN,
     refresh : BOOLEAN, expiry : BOOLEAN, request : Registerers!Request,
     closing : Registerers!Closing, threw : BOOLEAN, dropped : BOOLEAN]

(* What `waiting` stands for, until the Registerer is Terminated.          *)
Awaits(r) == r.request # "none" \/ r.dropped

(* A dispose() under way waits for what will come; a Registerer that is    *)
(* disposed of is waited for or Terminated.                                *)
RegInv(r) ==
    /\ r \in RegRecord
    /\ r.state = "Registered" => r.expiry /\ (r.refresh \/ Awaits(r))
    /\ r.waiting => r.state = "Terminated" \/ Awaits(r)
    /\ r.threw => r.state = "Terminated"
    /\ r.disposed => r.closing # "no"
    /\ r.closing = "resolved" => r.state = "Terminated"
    /\ r.closing = "onWaiting" => r.waiting
    /\ r.closing = "onState" =>
         r.waiting /\ r.request = "unregister" /\ r.state = "Registered"

PubRecord ==
    [state : Publishers!State, disposed : BOOLEAN, wanted : BOOLEAN,
     etag : BOOLEAN, timer : BOOLEAN, lost : Nat, puts : Nat, removes : Nat]

(* The timer of a Published publisher is that of a wanted publication.     *)
PubInv(o) ==
    /\ o \in PubRecord
    /\ o.state = "Published" => o.timer \/ o.puts + o.removes > 0 \/ ~o.etag
    /\ o.state = "Published" /\ o.timer => o.wanted

(* What a stop() has left to dispose of are the user agent's objects.      *)
StopsTyped ==
    stops \in [Call -> [phase : Phase, left : SUBSET (Id \cup Pub),
                        at : Id \cup {"none"}]]

StopInv ==
    /\ StopsTyped
    /\ regs \in [Id -> RegRecord] /\ \A i \in Id : RegInv(regs[i])
    /\ pubs \in [Pub -> PubRecord] /\ \A p \in Pub : PubInv(pubs[p])
-----------------------------------------------------------------------------
(* The Registerer's own operations                                         *)

(* A dispose() goes on: it unregisters what is registered, or is done.     *)
LEMMA CloseKeeps ==
    ASSUME NEW r \in RegRecord,
           r.state = "Registered" => r.expiry,
           r.threw => r.state = "Terminated",
           r.waiting => r.state # "Registered"
    PROVE  RegInv(Registerers!Close(r))
  BY DEF RegInv, Awaits, RegRecord, Registerers!Close, Registerers!Unregister,
         Registerers!Asks, Registerers!Terminated, Registerers!ClearTimers,
         Registerers!State, Registerers!Request, Registerers!Closing

(* A transition: to where the Registerer is, refused when it is Terminated,*)
(* waited for by a dispose(), or plain.                                    *)
LEMMA EnterIs ==
    ASSUME NEW r \in RegRecord, NEW s \in {"Registered", "Unregistered"}
    PROVE  LET e == Registerers!Enter(r, s) IN
             /\ e \in RegRecord
             /\ \/ r.state = s /\ e = r
                \/ /\ r.state = "Terminated"
                   /\ e = [r EXCEPT !.threw = TRUE]
                \/ /\ r.state # "Terminated" /\ r.closing = "onState"
                   /\ e = [r EXCEPT !.state = "Terminated", !.refresh = FALSE,
                                    !.expiry = FALSE, !.closing = "resolved"]
                \/ /\ r.state # "Terminated" /\ r.closing # "onState"
                   /\ e = [r EXCEPT !.state = s]
  BY DEF RegRecord, Registerers!Enter, Registerers!Terminated,
         Registerers!ClearTimers, Registerers!State, Registerers!Request,
         Registerers!Closing

(* The end of an answer: nothing waits for the Registerer any more but     *)
(* what a dispose() asks at once.                                          *)
LEMMA ToggledKeeps ==
    ASSUME NEW r \in RegRecord,
           r.state = "Registered" => r.expiry /\ r.refresh,
           r.threw => r.state = "Terminated",
           r.disposed => r.closing # "no",
           r.closing = "resolved" => r.state = "Terminated",
           r.closing = "onWaiting" => r.waiting,
           r.closing # "onState"
    PROVE  RegInv(Registerers!Toggled(r))
  <1>1. CASE r.threw
    BY <1>1 DEF RegInv, Awaits, Registerers!Toggled
  <1>2. CASE ~r.threw /\ r.closing = "onWaiting"
    <2>1. [r EXCEPT !.waiting = FALSE] \in RegRecord
      BY DEF RegRecord
    <2> QED
      BY <1>2, <2>1, CloseKeeps DEF RegRecord, Registerers!Toggled
  <1>3. CASE ~r.threw /\ r.closing # "onWaiting"
    BY <1>3 DEF RegInv, Awaits, RegRecord, Registerers!Toggled
  <1> QED BY <1>1, <1>2, <1>3

(* The answers.  A REGISTER that asks to register is outstanding, so that  *)
(* no dispose() waits for a change of state.                               *)
LEMMA AcceptedKeeps ==
    ASSUME NEW r, RegInv(r), r.request = "register"
    PROVE  RegInv(Registerers!Toggled(Registerers!Registered(
                                        [r EXCEPT !.request = "none"])))
  <1> DEFINE timed == [[r EXCEPT !.request = "none"] EXCEPT
                                   !.refresh = TRUE, !.expiry = TRUE]
             e == Registerers!Enter(timed, "Registered")
  <1>1. /\ timed \in RegRecord
        /\ timed = [r EXCEPT !.request = "none", !.refresh = TRUE,
                             !.expiry = TRUE]
    BY DEF RegInv, Awaits, RegRecord, Registerers!Request
  <1>2. r.closing # "onState"
    BY DEF RegInv, Awaits
  <1>3. /\ e \in RegRecord
        /\ \/ e = timed
           \/ r.state = "Terminated" /\ e = [timed EXCEPT !.threw = TRUE]
           \/ r.state # "Terminated" /\ e = [timed EXCEPT !.state = "Registered"]
    BY <1>1, <1>2, EnterIs DEF RegInv, Awaits, RegRecord
  <1> HIDE DEF e
  <1>4. /\ e.state = "Registered" => e.expiry /\ e.refresh
        /\ e.threw => e.state = "Terminated"
        /\ e.disposed => e.closing # "no"
        /\ e.closing = "resolved" => e.state = "Terminated"
        /\ e.closing = "onWaiting" => e.waiting
        /\ e.closing # "onState"
    BY <1>1, <1>2, <1>3 DEF RegInv, RegRecord
  <1>5. RegInv(Registerers!Toggled(e))
    BY <1>3, <1>4, ToggledKeeps
  <1> QED BY <1>5 DEF e, Registerers!Registered

(* Unregistered: the timers are cleared, a dispose() that waits for it is  *)
(* over.                                                                   *)
LEMMA UnregisteredIs ==
    ASSUME NEW r \in RegRecord,
           r.disposed => r.closing # "no",
           r.threw => r.state = "Terminated",
           r.closing = "resolved" => r.state = "Terminated",
           r.closing = "onWaiting" => r.waiting,
           r.closing = "onState" => r.state = "Registered"
    PROVE  LET e == Registerers!Unregistered(r) IN
             /\ e \in RegRecord
             /\ e.state \in {"Unregistered", "Terminated"}
             /\ e.threw => e.state = "Terminated"
             /\ e.disposed => e.closing # "no"
             /\ e.closing = "resolved" => e.state = "Terminated"
             /\ e.closing = "onWaiting" => e.waiting
             /\ e.closing # "onState"
             /\ e.waiting = r.waiting /\ (Awaits(r) => Awaits(e))
             /\ r.state = "Terminated" => e.state = "Terminated"
  <1> DEFINE c == [r EXCEPT !.refresh = FALSE, !.expiry = FALSE]
             e == Registerers!Enter(c, "Unregistered")
  <1>1. c \in RegRecord
    BY DEF RegRecord
  <1>2. /\ e \in RegRecord
        /\ \/ r.state = "Unregistered" /\ e = c
           \/ r.state = "Terminated" /\ e = [c EXCEPT !.threw = TRUE]
           \/ /\ r.state # "Terminated" /\ r.closing = "onState"
              /\ e = [c EXCEPT !.state = "Terminated", !.refresh = FALSE,
                               !.expiry = FALSE, !.closing = "resolved"]
           \/ /\ r.state # "Terminated" /\ r.closing # "onState"
              /\ e = [c EXCEPT !.state = "Unregistered"]
    BY <1>1, EnterIs DEF RegRecord
  <1> HIDE DEF e
  <1>3. /\ e.state \in {"Unregistered", "Terminated"}
        /\ e.threw => e.state = "Terminated"
        /\ e.disposed => e.closing # "no"
        /\ e.closing = "resolved" => e.state = "Terminated"
        /\ e.closing = "onWaiting" => e.waiting
        /\ e.closing # "onState"
        /\ e.waiting = r.waiting /\ (Awaits(r) => Awaits(e))
        /\ r.state = "Terminated" => e.state = "Terminated"
    BY <1>1, <1>2 DEF RegRecord, Awaits
  <1> QED BY <1>2, <1>3 DEF e, Registerers!Unregistered, Registerers!ClearTimers

LEMMA RefusedKeeps ==
    ASSUME NEW r, RegInv(r)
    PROVE  RegInv(Registerers!Toggled(Registerers!Unregistered(
                                        [r EXCEPT !.request = "none"])))
  <1> DEFINE a == [r EXCEPT !.request = "none"]
             e == Registerers!Unregistered(a)
  <1>1. /\ a \in RegRecord
        /\ a.disposed => a.closing # "no"
        /\ a.threw => a.state = "Terminated"
        /\ a.closing = "resolved" => a.state = "Terminated"
        /\ a.closing = "onWaiting" => a.waiting
        /\ a.closing = "onState" => a.state = "Registered"
    BY DEF RegInv, Awaits, RegRecord, Registerers!Request
  <1> HIDE DEF a
  <1>2. /\ e \in RegRecord
        /\ e.state \in {"Unregistered", "Terminated"}
        /\ e.threw => e.state = "Terminated"
        /\ e.disposed => e.closing # "no"
        /\ e.closing = "resolved" => e.state = "Terminated"
        /\ e.closing = "onWaiting" => e.waiting
        /\ e.closing # "onState"
    BY <1>1, UnregisteredIs
  <1> HIDE DEF e
  <1>3. RegInv(Registerers!Toggled(e))
    BY <1>2, ToggledKeeps
  <1> QED BY <1>3 DEF e, a

LEMMA NoContactKeeps ==
    ASSUME NEW r, RegInv(r), r.request = "register"
    PROVE  RegInv([Registerers!Unregistered([r EXCEPT !.request = "none"])
                      EXCEPT !.dropped = TRUE])
  <1> DEFINE a == [r EXCEPT !.request = "none"]
             e == Registerers!Unregistered(a)
  <1>1. /\ a \in RegRecord
        /\ a.disposed => a.closing # "no"
        /\ a.threw => a.state = "Terminated"
        /\ a.closing = "resolved" => a.state = "Terminated"
        /\ a.closing = "onWaiting" => a.waiting
        /\ a.closing = "onState" => a.state = "Registered"
    BY DEF RegInv, Awaits, RegRecord, Registerers!Request
  <1> HIDE DEF a
  <1>2. /\ e \in RegRecord
        /\ e.state \in {"Unregistered", "Terminated"}
        /\ e.threw => e.state = "Terminated"
        /\ e.disposed => e.closing # "no"
        /\ e.closing = "resolved" => e.state = "Terminated"
        /\ e.closing = "onWaiting" => e.waiting
        /\ e.closing # "onState"
    BY <1>1, UnregisteredIs
  <1> HIDE DEF e
  <1>3. RegInv([e EXCEPT !.dropped = TRUE])
    BY <1>2 DEF RegInv, Awaits, RegRecord
  <1> QED BY <1>3 DEF e, a

LEMMA UnparsableKeeps ==
    ASSUME NEW r, RegInv(r), r.request = "register"
    PROVE  RegInv([[r EXCEPT !.request = "none"] EXCEPT !.dropped = TRUE])
  BY DEF RegInv, Awaits, RegRecord, Registerers!Request

(* A 423: another REGISTER, unless a dispose() has asked for the opposite. *)
LEMMA TooBriefKeeps ==
    ASSUME NEW r, RegInv(r), r.request = "register"
    PROVE  LET e == Registerers!Toggled([r EXCEPT !.request = "none"])
           IN  RegInv(IF Registerers!MayRegister(e)
                      THEN Registerers!Asks(e, "register") ELSE e)
  <1> DEFINE a == [r EXCEPT !.request = "none"]
             e == Registerers!Toggled(a)
  <1>1. /\ a \in RegRecord
        /\ a.state = "Registered" => a.expiry
        /\ a.disposed => a.closing # "no"
        /\ a.threw => a.state = "Terminated"
        /\ a.closing = "resolved" => a.state = "Terminated"
        /\ a.closing = "onWaiting" => a.waiting
        /\ a.closing # "onState"
    BY DEF RegInv, Awaits, RegRecord, Registerers!Request
  <1> HIDE DEF a
  <1>2. CASE ~a.threw /\ a.closing = "onWaiting"
    <2>1. /\ [a EXCEPT !.waiting = FALSE] \in RegRecord
          /\ e = Registerers!Close([a EXCEPT !.waiting = FALSE])
      BY <1>1, <1>2 DEF RegRecord, Registerers!Toggled
    <2>2. RegInv(e)
      BY <1>1, <2>1, CloseKeeps DEF RegRecord
    <2>3. e.waiting \/ e.state = "Terminated"
      BY <1>1, <2>1 DEF RegRecord, Registerers!Close, Registerers!Unregister,
         Registerers!Asks, Registerers!Terminated, Registerers!ClearTimers
    <2> HIDE DEF e
    <2> QED BY <2>2, <2>3 DEF e, a, Registerers!MayRegister
  <1>3. CASE a.threw \/ a.closing # "onWaiting"
    <2>1. \/ a.threw /\ e = a
          \/ a.closing # "onWaiting" /\ e = [a EXCEPT !.waiting = FALSE]
      BY <1>3 DEF Registerers!Toggled
    <2> HIDE DEF e
    <2>2. /\ e \in RegRecord
          /\ e.state = "Registered" => e.expiry /\ ~e.disposed /\ ~e.waiting
          /\ e.waiting => e.state = "Terminated"
          /\ e.disposed => e.closing # "no"
          /\ e.threw => e.state = "Terminated"
          /\ e.closing = "resolved" => e.state = "Terminated"
          /\ e.closing = "onWaiting" => e.waiting
          /\ e.closing # "onState"
      BY <1>1, <2>1 DEF RegRecord, Registerers!Closing
    <2>3. RegInv(IF Registerers!MayRegister(e)
                 THEN Registerers!Asks(e, "register") ELSE e)
      BY <2>2 DEF RegInv, Awaits, RegRecord, Registerers!MayRegister,
         Registerers!Asks, Registerers!Request
    <2> QED BY <2>3 DEF e, a
  <1> QED BY <1>2, <1>3

(* The calls and the timers.                                               *)
LEMMA RegisterKeeps ==
    ASSUME NEW r, RegInv(r), Registerers!MayRegister(r)
    PROVE  RegInv(Registerers!Asks(r, "register"))
  BY DEF RegInv, Awaits, RegRecord, Registerers!MayRegister, Registerers!Asks,
         Registerers!Request

LEMMA UnregisterKeeps ==
    ASSUME NEW r, RegInv(r), Registerers!MayUnregister(r)
    PROVE  RegInv(Registerers!Unregister(r))
  BY DEF RegInv, Awaits, RegRecord, Registerers!MayUnregister, Registerers!Unregister,
         Registerers!Asks, Registerers!Request, Registerers!Closing

LEMMA DisposeKeeps ==
    ASSUME NEW r, RegInv(r), ~r.disposed
    PROVE  RegInv(Registerers!Disposed(r))
  <1>1. CASE r.waiting
    BY <1>1 DEF RegInv, Awaits, RegRecord, Registerers!Disposed, Registerers!Closing
  <1>2. CASE ~r.waiting
    <2>1. [r EXCEPT !.disposed = TRUE] \in RegRecord
      BY DEF RegInv, Awaits, RegRecord
    <2> QED
      BY <1>2, <2>1, CloseKeeps DEF RegInv, Awaits, RegRecord, Registerers!Disposed
  <1> QED BY <1>1, <1>2

(* A refresh that is not allowed finds a Registerer that waits already, or *)
(* one that is not Registered.                                             *)
LEMMA RefreshKeeps ==
    ASSUME NEW r, RegInv(r)
    PROVE  LET e == [r EXCEPT !.refresh = FALSE]
           IN  RegInv(IF Registerers!MayRegister(e)
                      THEN Registerers!Asks(e, "register") ELSE e)
  BY DEF RegInv, Awaits, RegRecord, Registerers!MayRegister, Registerers!Asks,
         Registerers!Request, Registerers!Closing

LEMMA ExpiryKeeps ==
    ASSUME NEW r, RegInv(r)
    PROVE  RegInv(Registerers!Unregistered(r))
  <1> DEFINE e == Registerers!Unregistered(r)
  <1>1. /\ e \in RegRecord
        /\ e.state \in {"Unregistered", "Terminated"}
        /\ e.threw => e.state = "Terminated"
        /\ e.disposed => e.closing # "no"
        /\ e.closing = "resolved" => e.state = "Terminated"
        /\ e.closing = "onWaiting" => e.waiting
        /\ e.closing # "onState"
        /\ e.waiting = r.waiting /\ (Awaits(r) => Awaits(e))
        /\ r.state = "Terminated" => e.state = "Terminated"
    BY UnregisteredIs DEF RegInv
  <1> HIDE DEF e
  <1>2. RegInv(e)
    BY <1>1 DEF RegInv
  <1> QED BY <1>2 DEF e

(* What a Registerer becomes in any step of it.                            *)
LEMMA RegistererSteps ==
    ASSUME NEW i \in Id, RegInv(regs[i]),
           \/ Registerers!Register(i)
           \/ Registerers!UnregisterByUser(i)
           \/ Registerers!Dispose(i)
           \/ Registerers!Answer(i)
           \/ Registerers!Timer(i)
    PROVE  \E r : RegInv(r) /\ regs' = [regs EXCEPT ![i] = r]
  <1> USE DEF Registerers!Becomes, Registerers!Answered
  <1>1. CASE Registerers!Register(i)
    BY <1>1, RegisterKeeps DEF Registerers!Register
  <1>2. CASE Registerers!UnregisterByUser(i)
    BY <1>2, UnregisterKeeps DEF Registerers!UnregisterByUser
  <1>3. CASE Registerers!Dispose(i)
    BY <1>3, DisposeKeeps DEF Registerers!Dispose
  <1>4. CASE Registerers!Accepted(i)
    BY <1>4, AcceptedKeeps DEF Registerers!Accepted
  <1>5. CASE Registerers!AcceptedWithoutContact(i)
    BY <1>5, NoContactKeeps DEF Registerers!AcceptedWithoutContact
  <1>11. CASE Registerers!AcceptedUnparsable(i)
    BY <1>11, UnparsableKeeps DEF Registerers!AcceptedUnparsable
  <1>6. CASE Registerers!Refused(i)
    BY <1>6, RefusedKeeps DEF Registerers!Refused
  <1>7. CASE Registerers!IntervalTooBrief(i)
    BY <1>7, TooBriefKeeps DEF Registerers!IntervalTooBrief
  <1>8. CASE Registerers!UnregisterAnswered(i)
    BY <1>8, RefusedKeeps DEF Registerers!UnregisterAnswered
  <1>9. CASE Registerers!RefreshTimer(i)
    BY <1>9, RefreshKeeps DEF Registerers!RefreshTimer
  <1>10. CASE Registerers!ExpiryTimer(i)
    BY <1>10, ExpiryKeeps DEF Registerers!ExpiryTimer
  <1> QED
    BY <1>1, <1>2, <1>3, <1>4, <1>5, <1>6, <1>7, <1>8, <1>9, <1>10, <1>11
    DEF Registerers!Answer, Registerers!Timer
-----------------------------------------------------------------------------
(* The Publisher's own operations                                          *)

LEMMA PublishingKeeps ==
    ASSUME NEW o \in PubRecord
    PROVE  PubInv(Publishers!Publishing(o))
  <1> DEFINE e == Publishers!Publishing(o)
  <1>1. e = [o EXCEPT !.timer = FALSE, !.wanted = TRUE,
                      !.etag = o.etag /\ o.wanted, !.puts = o.puts + 1]
    BY DEF PubRecord, Publishers!Publishing, Publishers!Untimed
  <1>2. o.puts + 1 \in Nat /\ o.puts + 1 + o.removes > 0
    BY DEF PubRecord
  <1> HIDE DEF e
  <1>3. e \in PubRecord
    BY <1>1, <1>2 DEF PubRecord
  <1>4. e.timer = FALSE /\ e.puts = o.puts + 1 /\ e.removes = o.removes
    BY <1>1 DEF PubRecord
  <1>5. PubInv(e)
    BY <1>2, <1>3, <1>4 DEF PubInv
  <1> QED BY <1>5 DEF e

(* unpublish() takes the timer away, and sends a request if there is an    *)
(* ETag.                                                                   *)
LEMMA UnpublishingKeeps ==
    ASSUME NEW o, PubInv(o)
    PROVE  PubInv(Publishers!Unpublishing(o))
  <1> DEFINE e == Publishers!Unpublishing(o)
             n == IF o.etag THEN o.removes + 1 ELSE o.removes
  <1>1. e = [o EXCEPT !.timer = FALSE, !.wanted = FALSE, !.removes = n]
    BY DEF PubInv, PubRecord, Publishers!Unpublishing, Publishers!Untimed
  <1>2. n \in Nat /\ (o.state = "Published" => o.puts + n > 0 \/ ~o.etag)
    BY DEF PubInv, PubRecord
  <1> HIDE DEF e, n
  <1>3. /\ e \in PubRecord
        /\ e.timer = FALSE /\ e.puts = o.puts /\ e.removes = n
        /\ e.state = o.state /\ e.etag = o.etag
    BY <1>1, <1>2 DEF PubInv, PubRecord
  <1>4. PubInv(e)
    BY <1>2, <1>3 DEF PubInv
  <1> QED BY <1>4 DEF e

LEMMA EmptiedIs ==
    ASSUME NEW o \in PubRecord
    PROVE  /\ Publishers!Emptied(o) \in PubRecord
           /\ Publishers!Emptied(o).state = o.state
           /\ Publishers!Emptied(o).timer = FALSE
           /\ Publishers!Emptied(o).puts = o.puts
           /\ Publishers!Emptied(o).removes = o.removes
  BY DEF PubRecord, Publishers!Emptied, Publishers!Untimed

LEMMA PubDisposedKeeps ==
    ASSUME NEW o, PubInv(o)
    PROVE  PubInv(Publishers!Disposed(o))
  <1> DEFINE d == [o EXCEPT !.disposed = TRUE]
  <1>1. PubInv(d) /\ d \in PubRecord /\ d.state = o.state
    BY DEF PubInv, PubRecord
  <1> HIDE DEF d
  <1>2. PubInv(Publishers!Unpublishing(d))
    BY <1>1, UnpublishingKeeps
  <1>3. o.state # "Published" => PubInv(Publishers!Emptied(d))
    BY <1>1, EmptiedIs DEF PubInv
  <1> QED BY <1>2, <1>3 DEF d, Publishers!Disposed

LEMMA ProvisionalKeeps ==
    ASSUME NEW o, PubInv(o), Publishers!Outstanding(o) > 0
    PROVE  PubInv(Publishers!Cleaned(o))
  BY EmptiedIs DEF PubInv, Publishers!Cleaned, Publishers!Outstanding

LEMMA GrantedKeeps ==
    ASSUME NEW o \in PubRecord, o.wanted
    PROVE  PubInv(Publishers!Granted(o))
  <1> DEFINE e == Publishers!Granted(o)
             n == IF o.timer THEN o.lost + 1 ELSE o.lost
             s == IF o.state = "Terminated" THEN o.state ELSE "Published"
  <1>1. e = [o EXCEPT !.timer = TRUE, !.lost = n, !.state = s]
    BY DEF PubRecord, Publishers!Granted
  <1>2. n \in Nat /\ s \in Publishers!State
    BY DEF PubRecord, Publishers!State
  <1> HIDE DEF e, n, s
  <1>3. e \in PubRecord /\ e.timer /\ e.wanted
    BY <1>1, <1>2 DEF PubRecord
  <1>4. PubInv(e)
    BY <1>3 DEF PubInv
  <1> QED BY <1>4 DEF e

(* After a removal's 2xx, and after a refusal, it is not Published.        *)
LEMMA RemovedKeeps ==
    ASSUME NEW o \in PubRecord
    PROVE  PubInv(Publishers!Removed(o))
  <1> DEFINE u == [o EXCEPT !.state = "Unpublished", !.wanted = FALSE]
  <1>1. u \in PubRecord /\ u.state = "Unpublished" /\ ~u.wanted
    BY DEF PubRecord, Publishers!State
  <1> HIDE DEF u
  <1>2. PubInv(Publishers!Cleaned(u))
    BY <1>1, EmptiedIs DEF PubInv, Publishers!Cleaned
  <1>3. o.state \notin {"Initial", "Published"} =>
            PubInv([o EXCEPT !.wanted = FALSE])
    BY DEF PubInv, PubRecord
  <1> QED BY <1>2, <1>3 DEF u, Publishers!Removed

LEMMA SuccessfulKeeps ==
    ASSUME NEW o \in PubRecord, NEW tagged \in BOOLEAN, NEW zero \in BOOLEAN
    PROVE  PubInv(Publishers!Successful(o, tagged, zero))
  <1> DEFINE heard == [o EXCEPT !.etag = @ \/ tagged]
  <1>1. heard \in PubRecord /\ heard.wanted = o.wanted
    BY DEF PubRecord
  <1> HIDE DEF heard
  <1>2. PubInv(IF o.wanted /\ ~zero THEN Publishers!Granted(heard)
                                    ELSE Publishers!Removed(heard))
    BY <1>1, GrantedKeeps, RemovedKeeps
  <1> QED BY <1>2 DEF heard, Publishers!Successful

LEMMA FailedKeeps ==
    ASSUME NEW o \in PubRecord
    PROVE  PubInv(Publishers!Failed(o))
  <1> DEFINE t == [o EXCEPT !.state = "Terminated", !.wanted = FALSE]
             d == Publishers!Disposed(t)
  <1>1. /\ t \in PubRecord /\ t.state = "Terminated"
        /\ [t EXCEPT !.disposed = TRUE] \in PubRecord
        /\ [t EXCEPT !.disposed = TRUE].state = "Terminated"
    BY DEF PubRecord, Publishers!State
  <1> HIDE DEF t
  <1>2. d \in PubRecord /\ d.state = "Terminated"
    BY <1>1, EmptiedIs DEF Publishers!Disposed
  <1> HIDE DEF d
  <1>3. PubInv(Publishers!Emptied(d))
    BY <1>2, EmptiedIs DEF PubInv
  <1>4. o.state \notin {"Initial", "Published"} =>
            PubInv([o EXCEPT !.wanted = FALSE])
    BY DEF PubInv, PubRecord
  <1> QED BY <1>3, <1>4 DEF d, t, Publishers!Failed

LEMMA RefreshingKeeps ==
    ASSUME NEW o, PubInv(o)
    PROVE  PubInv(Publishers!Refreshing(o))
  <1> DEFINE u == Publishers!Untimed(o)
             n == IF o.etag /\ o.wanted THEN o.puts + 1 ELSE o.puts
             e == Publishers!Refreshing(o)
  <1>1. u = [o EXCEPT !.timer = FALSE] /\ u \in PubRecord
    BY DEF PubInv, PubRecord, Publishers!Untimed
  <1>2. e = [o EXCEPT !.timer = FALSE, !.puts = n]
    BY DEF PubInv, PubRecord, Publishers!Refreshing, Publishers!Untimed
  <1>3. n \in Nat /\ (o.state = "Published" => n + o.removes > 0 \/ ~o.etag)
    BY DEF PubInv, PubRecord
  <1> HIDE DEF e, n, u
  <1>4. /\ e \in PubRecord
        /\ e.timer = FALSE /\ e.puts = n /\ e.removes = o.removes
        /\ e.state = o.state /\ e.etag = o.etag
    BY <1>2, <1>3 DEF PubInv, PubRecord
  <1>5. PubInv(e)
    BY <1>3, <1>4 DEF PubInv
  <1> QED BY <1>5 DEF e

(* A request less, or a forgotten timer less.                              *)
LEMMA LessIs ==
    ASSUME NEW o, PubInv(o)
    PROVE  /\ o.puts > 0 => Publishers!Put(o) \in PubRecord
           /\ o.removes > 0 => Publishers!Remove(o) \in PubRecord
           /\ o.lost > 0 => PubInv([o EXCEPT !.lost = @ - 1])
  BY DEF PubInv, PubRecord, Publishers!Put, Publishers!Remove

LEMMA RetriedKeeps ==
    ASSUME NEW r \in PubRecord
    PROVE  PubInv(IF r.etag /\ r.wanted
                  THEN Publishers!Publishing([r EXCEPT !.etag = FALSE])
                  ELSE Publishers!Failed(r))
  <1>1. [r EXCEPT !.etag = FALSE] \in PubRecord
    BY DEF PubRecord
  <1> QED BY <1>1, PublishingKeeps, FailedKeeps

(* What a Publisher becomes in any step of it.                             *)
LEMMA PublisherSteps ==
    ASSUME NEW p \in Pub, PubInv(pubs[p]),
           \/ Publishers!Publish(p)
           \/ Publishers!Unpublish(p)
           \/ Publishers!Dispose(p)
           \/ Publishers!Provisional(p)
           \/ Publishers!Accepted(p)
           \/ Publishers!RemovalAccepted(p)
           \/ Publishers!EtagUnknown(p)
           \/ Publishers!IntervalTooBrief(p)
           \/ Publishers!Refused(p)
           \/ Publishers!RefreshTimer(p)
    PROVE  \E o : PubInv(o) /\ pubs' = [pubs EXCEPT ![p] = o]
  <1> USE DEF Publishers!Becomes
  <1>0. pubs[p] \in PubRecord
    BY DEF PubInv
  <1>1. CASE Publishers!Publish(p)
    BY <1>0, <1>1, PublishingKeeps DEF Publishers!Publish
  <1>2. CASE Publishers!Unpublish(p)
    BY <1>2, UnpublishingKeeps DEF Publishers!Unpublish
  <1>3. CASE Publishers!Dispose(p)
    BY <1>3, PubDisposedKeeps DEF Publishers!Dispose
  <1>4. CASE Publishers!Provisional(p)
    BY <1>4, ProvisionalKeeps DEF Publishers!Provisional
  <1>5. CASE Publishers!Accepted(p)
    BY <1>5, LessIs, SuccessfulKeeps DEF Publishers!Accepted
  <1>6. CASE Publishers!RemovalAccepted(p)
    BY <1>6, LessIs, SuccessfulKeeps DEF Publishers!RemovalAccepted
  <1>7. CASE Publishers!EtagUnknown(p)
    BY <1>7, LessIs, RetriedKeeps DEF Publishers!EtagUnknown
  <1>8. CASE Publishers!IntervalTooBrief(p)
    <2>1. pubs[p].puts > 0
      BY <1>8 DEF Publishers!IntervalTooBrief
    <2>2. Publishers!Put(pubs[p]) \in PubRecord
      BY <2>1, LessIs
    <2>3. \A zero \in BOOLEAN :
             [Publishers!Put(pubs[p]) EXCEPT !.wanted = ~zero] \in PubRecord
      BY <2>2 DEF PubRecord
    <2> QED
      BY <1>8, <2>2, <2>3, PublishingKeeps, FailedKeeps
      DEF Publishers!IntervalTooBrief
  <1>9. CASE Publishers!Refused(p)
    BY <1>9, LessIs, FailedKeeps DEF Publishers!Refused
  <1>10. CASE Publishers!RefreshTimer(p)
    BY <1>10, LessIs, RefreshingKeeps DEF Publishers!RefreshTimer
  <1> QED
    BY <1>1, <1>2, <1>3, <1>4, <1>5, <1>6, <1>7, <1>8, <1>9, <1>10
-----------------------------------------------------------------------------
(* The user agent                                                          *)

LEMMA StopInitInv == StopInit => StopInv
  BY DEF StopInit, StopInv, StopsTyped, Phase, RegInv, PubInv, RegRecord,
         PubRecord, Awaits, Registerers!Init,
         Registerers!NewRegisterer, Registerers!State, Registerers!Request,
         Registerers!Closing, Publishers!Init, Publishers!NewPublisher,
         Publishers!State

LEMMA RegsKeep ==
    ASSUME StopInv, NEW i \in Id, UNCHANGED pubs, StopsTyped',
           \E r : RegInv(r) /\ regs' = [regs EXCEPT ![i] = r]
    PROVE  StopInv'
  <1>1. PICK r : RegInv(r) /\ regs' = [regs EXCEPT ![i] = r]
    OBVIOUS
  <1>2. regs' \in [Id -> RegRecord] /\ \A j \in Id : RegInv(regs'[j])
    BY <1>1 DEF StopInv, RegInv
  <1> QED BY <1>2 DEF StopInv

LEMMA PubsKeep ==
    ASSUME StopInv, NEW p \in Pub, UNCHANGED regs, StopsTyped',
           \E o : PubInv(o) /\ pubs' = [pubs EXCEPT ![p] = o]
    PROVE  StopInv'
  <1>1. PICK o : PubInv(o) /\ pubs' = [pubs EXCEPT ![p] = o]
    OBVIOUS
  <1>2. pubs' \in [Pub -> PubRecord] /\ \A q \in Pub : PubInv(pubs'[q])
    BY <1>1 DEF StopInv, PubInv
  <1> QED BY <1>2 DEF StopInv

LEMMA NothingStops ==
    ASSUME StopInv, UNCHANGED <<regs, pubs>>, StopsTyped'
    PROVE  StopInv'
  BY DEF StopInv

LEMMA StopsStayTyped == StopsTyped /\ [StopNext]_stopVars => StopsTyped'
  <1> SUFFICES ASSUME StopsTyped, [StopNext]_stopVars PROVE StopsTyped'
    OBVIOUS
  <1> USE DEF StopsTyped
  <1>1. ASSUME NEW c \in Call, CallStop(c) PROVE StopsTyped'
    BY <1>1 DEF CallStop, Phase
  <1>2. ASSUME NEW c \in Call, DisposeNext(c) PROVE StopsTyped'
    BY <1>2 DEF DisposeNext
  <1>3. ASSUME NEW c \in Call, DisposeNextPublisher(c) PROVE StopsTyped'
    BY <1>3 DEF DisposeNextPublisher
  <1>4. ASSUME NEW c \in Call, Awaited(c) PROVE StopsTyped'
    BY <1>4 DEF Awaited
  <1>5. ASSUME NEW c \in Call, Disconnect(c) PROVE StopsTyped'
    BY <1>5 DEF Disconnect, Phase
  <1>6. ASSUME NEW c \in Call, Finish(c) PROVE StopsTyped'
    BY <1>6 DEF Finish, Phase
  <1>7. CASE UNCHANGED stops
    BY <1>7
  <1> QED
    BY <1>1, <1>2, <1>3, <1>4, <1>5, <1>6, <1>7
    DEF StopNext, stopVars, Answered, RegistererStep, PublisherAnswered,
        PublisherStep

LEMMA StopStepInv == StopInv /\ [StopNext]_stopVars => StopInv'
  <1> SUFFICES ASSUME StopInv, [StopNext]_stopVars PROVE StopInv'
    OBVIOUS
  <1>0. /\ \A i \in Id : RegInv(regs[i])
        /\ \A p \in Pub : PubInv(pubs[p])
        /\ StopsTyped
        /\ StopsTyped'
    BY StopsStayTyped DEF StopInv
  <1>1. ASSUME UNCHANGED <<regs, pubs>> PROVE StopInv'
    BY <1>0, <1>1, NothingStops
  <1>2. ASSUME NEW c \in Call, DisposeNext(c) PROVE StopInv'
    <2>1. PICK i \in Id : Registerers!Dispose(i) \/ UNCHANGED regs
      BY <1>2 DEF DisposeNext
    <2>2. UNCHANGED pubs
      BY <1>2 DEF DisposeNext
    <2>3. CASE Registerers!Dispose(i)
      BY <1>0, <2>2, <2>3, RegistererSteps, RegsKeep
    <2> QED BY <1>1, <2>1, <2>2, <2>3
  <1>3. ASSUME NEW c \in Call, DisposeNextPublisher(c) PROVE StopInv'
    <2>1. PICK p \in Pub : Publishers!Dispose(p) \/ UNCHANGED pubs
      BY <1>0, <1>3 DEF DisposeNextPublisher, StopsTyped
    <2>2. UNCHANGED regs
      BY <1>3 DEF DisposeNextPublisher
    <2>3. CASE Publishers!Dispose(p)
      BY <1>0, <2>2, <2>3, PublisherSteps, PubsKeep
    <2> QED BY <1>1, <2>1, <2>2, <2>3
  <1>4. ASSUME NEW c \in Call,
               CallStop(c) \/ Awaited(c) \/ Disconnect(c) \/ Finish(c)
        PROVE  StopInv'
    BY <1>1, <1>4 DEF CallStop, Awaited, Disconnect, Finish
  <1>5. ASSUME NEW i \in Id, Answered(i) PROVE StopInv'
    <2>1. Registerers!Answer(i) /\ UNCHANGED pubs
      BY <1>5 DEF Answered, Registerers!Answer
    <2> QED BY <1>0, <2>1, RegistererSteps, RegsKeep
  <1>6. CASE RegistererStep
    <2>1. UNCHANGED pubs
      BY <1>6 DEF RegistererStep
    <2>2. PICK i \in Id : \/ Registerers!Register(i)
                          \/ Registerers!UnregisterByUser(i)
                          \/ Registerers!Dispose(i)
                          \/ Registerers!Timer(i)
      BY <1>6 DEF RegistererStep
    <2> QED BY <1>0, <2>1, <2>2, RegistererSteps, RegsKeep
  <1>7. ASSUME NEW p \in Pub, PublisherAnswered(p) PROVE StopInv'
    <2>1. UNCHANGED regs
      BY <1>7 DEF PublisherAnswered
    <2>2. \E o : PubInv(o) /\ pubs' = [pubs EXCEPT ![p] = o]
      BY <1>0, <1>7, PublisherSteps DEF PublisherAnswered
    <2> QED BY <1>0, <2>1, <2>2, PubsKeep
  <1>8. CASE PublisherStep
    <2>1. UNCHANGED regs
      BY <1>8 DEF PublisherStep
    <2>2. PICK p \in Pub : \/ Publishers!Publish(p)
                           \/ Publishers!Unpublish(p)
                           \/ Publishers!Dispose(p)
                           \/ Publishers!RefreshTimer(p)
      BY <1>8 DEF PublisherStep
    <2> QED BY <1>0, <2>1, <2>2, PublisherSteps, PubsKeep
  <1>9. CASE UNCHANGED stopVars
    BY <1>1, <1>9 DEF stopVars
  <1> QED
    BY <1>2, <1>3, <1>4, <1>5, <1>6, <1>7, <1>8, <1>9 DEF StopNext

(* Every object keeps its invariant, whatever the calls of stop(), the     *)
(* application and the servers do.                                         *)
THEOREM StopInvariance == StopSpec => []StopInv
  <1> QED BY StopInitInv, StopStepInv, PTL DEF StopSpec

(* No registration and no publication lapses for want of a refresh: a      *)
(* Registerer that is Registered (registerer.ts, registered()) has its     *)
(* expiry timer, and its refresh timer or a REGISTER outstanding unless a  *)
(* 2xx that does not parse left it waiting; a Publisher that is Published  *)
(* (publisher.ts, receiveResponse()) has its refresh timer or a request    *)
(* outstanding unless it was left without an ETag.                         *)
THEOREM RefreshesArePending == StopSpec => []RefreshIsPending
  <1>1. StopInv => RefreshIsPending
    BY DEF StopInv, RegInv, Awaits, PubInv, RegRecord, RefreshIsPending,
           Registerers!RefreshIsPending, Publishers!RefreshIsPending,
           Publishers!Outstanding, Publishers!RefreshComes
  <1> QED BY <1>1, StopInvariance, PTL
-----------------------------------------------------------------------------
(* A dialog that lives came of the SUBSCRIBE that was sent, and that       *)
(* nothing waits for now.                                                  *)
LiveWasAsked ==
    /\ req.waiting => req.sent
    /\ Live(dialog) => req.sent /\ ~req.waiting

(* An un-SUBSCRIBE that is unanswered is the last that the Subscriber does *)
(* in a dialog.                                                            *)
LeaveIsLast ==
    Now("leave") \in asked =>
        dialog.left /\ sub.disposed /\ req.sent /\ ~req.waiting

(* A refresh that is planned has its timer, until the dialog is left.      *)
PlannedHasTimer ==
    Live(dialog) /\ ~dialog.left /\ dialog.plan = "due" => dialog.refresh

SubscriptionInv ==
    /\ SubscriptionTypeOK
    /\ LiveWasAsked
    /\ LeaveIsLast
    /\ PlannedHasTimer
    /\ SubscriptionIsRefreshed

LEMMA SubscriptionInitInv == SubscriptionInit => SubscriptionInv
  BY DEF SubscriptionInit, SubscriptionInv, SubscriptionTypeOK, LiveWasAsked,
         LeaveIsLast, PlannedHasTimer,
         SubscriptionIsRefreshed, RefreshComes, Plan, NewRequest, NoDialog,
         Live, State, DialogState

Dialogs == [state : DialogState, timerN : BOOLEAN, refresh : BOOLEAN,
            plan : Plan, over : BOOLEAN, delegate : {"subscriber", "closing"},
            told : BOOLEAN, left : BOOLEAN]

(* What the invariant asks of a dialog alone.                              *)
Kept(d) ==
    /\ d \in Dialogs
    /\ Live(d) /\ ~d.left /\ d.plan = "due" => d.refresh
    /\ Live(d) /\ d.told /\ ~d.left =>
          d.refresh \/ d.timerN \/ d.plan = "stale"

(* A dialog that is changed is the same one, no longer live, or left.      *)
Follows(e, d) == Kept(e) /\ (Live(e) => Live(d)) /\ (d.left => e.left)

(* What the operations on a dialog make of it: it is not revived, and it   *)
(* keeps its refresh until it is left.                                     *)
LEMMA DialogsFollow ==
    ASSUME NEW d, Kept(d)
    PROVE  /\ Follows(d, d)
           /\ Follows(DialogEnded(d), d)
           /\ Follows(Resubscribed(d), d)
           /\ Follows(DialogLeft(d), d) /\ DialogLeft(d).left
           /\ \A e \in Replanned(d) : Follows(e, d)
           /\ Follows(Expired(d), d)
  <1> USE DEF Kept, Follows, Dialogs, Live, DialogState, Plan
  <1>1. Follows(d, d)
    OBVIOUS
  <1>2. Follows(DialogEnded(d), d)
    BY DEF DialogEnded
  <1>3. Follows(Resubscribed(d), d)
    BY DEF Resubscribed
  <1>4. Follows(DialogLeft(d), d) /\ DialogLeft(d).left
    BY DEF DialogLeft
  <1>5. \A e \in Replanned(d) : Follows(e, d)
    BY DEF Replanned
  <1>6. Follows(Expired(d), d)
    BY DEF Expired
  <1> QED BY <1>1, <1>2, <1>3, <1>4, <1>5, <1>6

LEMMA NotifiedFollows ==
    ASSUME NEW d, Kept(d), Live(d), NEW s \in {"Pending", "Active"},
           NEW expires \in BOOLEAN, NEW e \in Notified(d, s, expires)
    PROVE  Follows(e, d)
  <1>1. PICK heard : heard = [d EXCEPT !.timerN = FALSE,
                                       !.told = expires /\ Moves(d, s),
                             !.state = IF Moves(d, s) THEN s ELSE @]
    OBVIOUS
  <1>2. /\ heard \in Dialogs /\ ~heard.timerN
        /\ heard.plan = d.plan /\ heard.refresh = d.refresh
        /\ heard.left = d.left
    BY <1>1 DEF Kept, Dialogs, Moves, DialogState
  <1>3. e \in IF heard.told THEN Replanned(heard) ELSE {heard}
    BY <1>1 DEF Notified
  <1> QED BY <1>2, <1>3 DEF Kept, Follows, Replanned, Dialogs, Live,
          DialogState, Plan

Subscribers == [state : State, disposed : BOOLEAN, retry : SUBSET RetryTimer,
                closing : {"no", "waiting", "resolved", "rejected"}]

(* A Subscriber that is terminated, or whose retry timer fires.            *)
LEMMA SubscribersStay ==
    ASSUME NEW s \in Subscribers
    PROVE  /\ Terminated(s) \in Subscribers /\ Terminated(s).disposed
           /\ \A t : /\ [s EXCEPT !.retry = @ \ {t}] \in Subscribers
                     /\ [s EXCEPT !.retry = @ \ {t}].disposed = s.disposed
  <1>1. \A t : s.retry \ {t} \in SUBSET RetryTimer
    BY DEF Subscribers
  <1>2. s.retry \ {"held"} \in SUBSET RetryTimer
    BY <1>1
  <1>3. Terminated(s) \in Subscribers /\ Terminated(s).disposed
    <2>1. PICK held : held = s.retry \ {"held"}
      OBVIOUS
    <2>2. Terminated(s) = [s EXCEPT !.state = "Terminated",
                                    !.disposed = TRUE, !.retry = held]
      BY <2>1 DEF Terminated
    <2>3. held \in SUBSET RetryTimer
      BY <1>2, <2>1
    <2> QED BY <2>2, <2>3 DEF Subscribers, State
  <1>4. ASSUME NEW t
        PROVE  [s EXCEPT !.retry = @ \ {t}] =
                  [state |-> s.state, disposed |-> s.disposed,
                   retry |-> s.retry \ {t}, closing |-> s.closing]
    BY DEF Subscribers
  <1> QED
    BY <1>1, <1>2, <1>3, <1>4 DEF Subscribers, State

(* The requests that are outstanding, and those of an earlier dialog.      *)
LEMMA WhatIsAsked ==
    /\ \A kind \in {"initial", "refresh", "auto", "leave"} :
          Now(kind) \in Subscribe
    /\ \A kind \in {"initial", "refresh", "auto"} :
          Now(kind) # Now("leave")
    /\ \A a \in SUBSET Subscribe :
          Old(a) \subseteq Subscribe /\ Now("leave") \notin Old(a)
  <1>1. \A kind \in {"initial", "refresh", "auto", "leave"} :
           Now(kind) \in Subscribe /\ Now(kind).kind = kind
                                  /\ Now(kind).old = FALSE
    BY DEF Now, Subscribe
  <1>2. ASSUME NEW a \in SUBSET Subscribe, NEW r \in Old(a)
        PROVE  r \in Subscribe /\ r.old = TRUE
    <2>1. PICK q \in a : r = [kind |-> q.kind, old |-> TRUE]
      BY <1>2 DEF Old
    <2> QED BY <2>1 DEF Subscribe
  <1>3. \A a \in SUBSET Subscribe :
           Old(a) \subseteq Subscribe /\ Now("leave") \notin Old(a)
    BY <1>1, <1>2
  <1> QED BY <1>1, <1>3

(* The rest of the invariant, whose parts are changed apart from another.  *)
Rest ==
    /\ sub \in Subscribers
    /\ req \in [sent : BOOLEAN, waiting : BOOLEAN, zero : BOOLEAN]
    /\ asked \subseteq Subscribe
    /\ LiveWasAsked
    /\ LeaveIsLast

(* The invariant in two parts: the dialog, and the rest.                   *)
LEMMA SubscriptionKept == SubscriptionInv <=> Kept(dialog) /\ Rest
  BY DEF SubscriptionInv, SubscriptionTypeOK, Kept, Rest, Dialogs,
         Subscribers, PlannedHasTimer,
         SubscriptionIsRefreshed, RefreshComes

(* unsubscribe(), timer N and the ends that a NOTIFY tells keep it,        *)
(* whatever the dialog has become before.                                  *)
(* Leaving the dialog, and hearing of its end.                             *)
LEMMA UnsubscribedKeeps ==
    ASSUME Kept(dialog), Rest, NEW a, a \subseteq asked,
           Unsubscribed(dialog, a)
    PROVE  Kept(dialog') /\ Rest'
  <1>1. CASE sub.disposed
    BY <1>1 DEF Unsubscribed, Rest, LiveWasAsked, LeaveIsLast
  <1>2. CASE ~sub.disposed
    <2>1. /\ sub' \in Subscribers
          /\ sub'.disposed
      BY <1>2, SubscribersStay DEF Unsubscribed, Rest
    <2>2. req' = [sent |-> req.sent, waiting |-> FALSE, zero |-> req.zero]
      BY <1>2 DEF Unsubscribed, DropRequest, Rest
    <2>3. Follows(dialog', dialog)
      BY <1>2, DialogsFollow DEF Unsubscribed
    <2>4. CASE Live(dialog)
      <3>1. asked' \subseteq Subscribe /\ dialog'.left
        <4>1. /\ dialog' = DialogLeft(dialog)
              /\ asked' = Dropped(a) \cup {Now("leave")}
          BY <1>2, <2>4 DEF Unsubscribed
        <4>2. Dropped(a) \subseteq Subscribe
          BY DEF Dropped, Rest
        <4> QED BY <4>1, <4>2, DialogsFollow, WhatIsAsked
      <3>2. req.sent
        BY <2>4 DEF Rest, LiveWasAsked
      <3> QED
        BY <2>1, <2>2, <2>3, <3>1, <3>2
        DEF Rest, LiveWasAsked, LeaveIsLast, Follows
    <2>5. CASE ~Live(dialog)
      <3>1. asked' \subseteq asked /\ dialog' = dialog
        BY <1>2, <2>5 DEF Unsubscribed, Dropped
      <3> QED
        BY <2>1, <2>2, <2>5, <3>1, <1>2
        DEF Rest, LiveWasAsked, LeaveIsLast
    <2> QED BY <2>4, <2>5
  <1> QED BY <1>1, <1>2

LEMMA HearsTerminatedKeeps ==
    ASSUME Rest, NEW a, a \subseteq asked, HearsTerminated(dialog, a),
           NEW e, dialog' = e, Follows(e, dialog)
    PROVE  Kept(dialog') /\ Rest'
  <1>1. CASE sub.state = "Terminated"
    BY <1>1 DEF HearsTerminated, Rest, LiveWasAsked, LeaveIsLast, Follows
  <1>2. CASE sub.state # "Terminated"
    <2>1. /\ sub' \in Subscribers
          /\ sub'.disposed
      BY <1>2, SubscribersStay DEF HearsTerminated, Rest
    <2>2. req' = [sent |-> req.sent, waiting |-> FALSE, zero |-> req.zero]
      BY <1>2 DEF HearsTerminated, DropRequest, Rest
    <2>3. asked' \subseteq asked
      BY <1>2 DEF HearsTerminated, Dropped
    <2> QED
      BY <2>1, <2>2, <2>3 DEF Rest, LiveWasAsked, LeaveIsLast, Follows
  <1> QED BY <1>1, <1>2

LEMMA TerminateKeeps ==
    ASSUME Kept(dialog), Rest, NEW a, a \subseteq asked, Terminate(dialog, a)
    PROVE  Kept(dialog') /\ Rest'
  <1>1. Follows(dialog', dialog)
    BY DialogsFollow DEF Terminate
  <1>2. CASE dialog.delegate = "closing"
    <2>1. /\ sub' \in Subscribers
          /\ sub'.disposed = sub.disposed
      BY <1>2 DEF Terminate, Rest, Subscribers
    <2> QED
      BY <1>1, <1>2, <2>1
      DEF Terminate, Rest, LiveWasAsked, LeaveIsLast, Follows
  <1>3. CASE dialog.delegate # "closing"
    BY <1>1, <1>3, HearsTerminatedKeeps DEF Terminate
  <1> QED BY <1>2, <1>3

LEMMA HearsEndKeeps ==
    ASSUME Rest, ~sub.disposed, NEW reason \in Reason, HearsEnd(reason),
           Kept(dialog'), ~Live(dialog')
    PROVE  Rest'
  <1>0. Now("leave") \notin asked
    BY DEF Rest, LeaveIsLast
  <1>1. CASE reason = "final"
    <2>1. /\ sub' \in Subscribers
      BY <1>1, SubscribersStay DEF HearsEnd, Rest
    <2> QED
      BY <1>0, <1>1, <2>1
      DEF HearsEnd, DropRequest, Dropped, Rest, LiveWasAsked, LeaveIsLast
  <1>2. CASE reason # "final"
    <2>1. sub' \in Subscribers
      <3>1. PICK held : held \in SUBSET RetryTimer /\
              sub' \in {[sub EXCEPT !.state = "Subscribed", !.retry = held],
                       [sub EXCEPT !.state = "Subscribed"]}
        <4>1. /\ RetryTimer \in SUBSET RetryTimer
              /\ sub.retry \cup {"held"} \in SUBSET RetryTimer
          BY DEF Rest, Subscribers, RetryTimer
        <4> QED BY <1>2, <4>1 DEF HearsEnd, Renewed
      <3> QED BY <3>1 DEF Rest, Subscribers, State
    <2>2. /\ asked' \subseteq Subscribe
          /\ Now("leave") \notin asked'
      BY <1>2, WhatIsAsked DEF HearsEnd, Renewed, Rest
    <2>3. PICK b \in BOOLEAN : req' = [sent |-> b, waiting |-> b, zero |-> FALSE]
      BY <1>2 DEF HearsEnd, Renewed, Sending, NewRequest
    <2> QED
      BY <2>1, <2>2, <2>3 DEF Rest, LiveWasAsked, LeaveIsLast
  <1> QED BY <1>1, <1>2

LEMMA SubscribeAgainKeeps ==
    ASSUME Kept(dialog), Rest, NEW s, SubscribeAgain(s),
           s.disposed = sub.disposed,
           s \in Subscribers
    PROVE  Kept(dialog') /\ Rest'
  <1>1. CASE ~req.sent
    <2>1. /\ sub' \in Subscribers
          /\ req' = [sent |-> TRUE, waiting |-> TRUE, zero |-> FALSE]
          /\ dialog' = dialog
      <3>1. /\ sub' = [s EXCEPT !.state = IF s.state = "Initial"
                                           THEN "NotifyWait" ELSE s.state]
            /\ req' = Sending /\ dialog' = dialog
        BY <1>1 DEF SubscribeAgain
      <3>2. sub' \in Subscribers
        BY <3>1 DEF Subscribers, State
      <3> QED BY <3>1, <3>2 DEF Sending
    <2>2. /\ asked' \subseteq Subscribe
          /\ Now("leave") \notin asked'
      BY <1>1, WhatIsAsked DEF SubscribeAgain, Rest, LeaveIsLast
    <2> QED
      BY <1>1, <2>1, <2>2 DEF Rest, LiveWasAsked, LeaveIsLast
  <1>2. CASE req.sent
    <2>1. /\ Follows(dialog', dialog) /\ sub' = s /\ req' = req
          /\ asked' \subseteq Subscribe
          /\ Now("leave") \in asked' => Now("leave") \in asked
      <3>1. /\ sub' = s /\ req' = req
            /\ dialog' \in {dialog, Resubscribed(dialog)}
            /\ asked' \in {asked, asked \cup {Now("refresh")}}
        BY <1>2 DEF SubscribeAgain
      <3>2. asked \subseteq Subscribe
        BY DEF Rest
      <3> QED BY <3>1, <3>2, DialogsFollow, WhatIsAsked
    <2> QED
      BY <2>1 DEF Rest, LiveWasAsked, LeaveIsLast, Follows
  <1> QED BY <1>1, <1>2

LEMMA SubscriptionStepInv ==
    SubscriptionInv /\ [SubscriptionNext]_subscriptionVars => SubscriptionInv'
  <1> SUFFICES ASSUME SubscriptionInv, [SubscriptionNext]_subscriptionVars
               PROVE  SubscriptionInv'
    OBVIOUS
  <1>a. Kept(dialog) /\ Rest
    BY SubscriptionKept
  <1> SUFFICES Kept(dialog') /\ Rest'
    BY DEF SubscriptionInv, SubscriptionTypeOK, Kept, Rest, Dialogs,
           Subscribers, PlannedHasTimer,
           SubscriptionIsRefreshed, RefreshComes
  <1>1. CASE UserSubscribes
    BY <1>a, <1>1, SubscribeAgainKeeps DEF UserSubscribes, Rest
  <1>2. ASSUME NEW t \in RetryTimer, RetryTimerFires(t)
        PROVE  Kept(dialog') /\ Rest'
    <2>1. PICK s : /\ s = [sub EXCEPT !.retry = @ \ {t}]
                   /\ SubscribeAgain(s)
      BY <1>2 DEF RetryTimerFires
    <2>2. /\ s.disposed = sub.disposed
          /\ s \in Subscribers
      BY <1>a, <2>1, SubscribersStay DEF Rest
    <2> QED BY <1>a, <2>1, <2>2, SubscribeAgainKeeps
  <1>3. CASE UserUnsubscribes
    BY <1>a, <1>3, UnsubscribedKeeps DEF UserUnsubscribes
  <1>4. CASE UserDisposes
    <2>1. /\ sub' \in Subscribers
          /\ sub'.disposed
      <3>1. sub.retry \ {"held"} \in SUBSET RetryTimer
        BY <1>a DEF Rest, Subscribers
      <3>2. Closing \in {"waiting", "resolved", "rejected"}
        BY DEF Closing
      <3>3. sub' = [state |-> sub.state, disposed |-> TRUE,
                    retry |-> sub.retry \ {"held"}, closing |-> Closing]
        BY <1>a, <1>4 DEF UserDisposes, Rest, Subscribers
      <3> QED BY <1>a, <3>1, <3>2, <3>3 DEF Rest, Subscribers
    <2>2. req' = [sent |-> req.sent, waiting |-> FALSE, zero |-> req.zero]
      BY <1>a, <1>4 DEF UserDisposes, DropRequest, Rest
    <2>3. CASE Closing = "waiting"
      <3>1. Live(dialog)
        BY <2>3 DEF Closing
      <3>2. Kept(DialogLeft(dialog)) /\ DialogLeft(dialog).left
        BY <1>a, DialogsFollow DEF Follows
      <3>3. Kept(dialog') /\ dialog'.left
        BY <1>4, <2>3, <3>2 DEF UserDisposes, Kept, Dialogs, Live
      <3>4. asked' \subseteq Subscribe
        BY <1>a, <1>4, <2>3, WhatIsAsked DEF UserDisposes, Dropped, Rest
      <3>5. req.sent
        BY <1>a, <3>1 DEF Rest, LiveWasAsked
      <3>6. req'.sent /\ ~req'.waiting
        BY <2>2, <3>5
      <3>7. req' \in [sent : BOOLEAN, waiting : BOOLEAN, zero : BOOLEAN]
        BY <1>a, <2>2 DEF Rest
      <3> QED
        BY <2>1, <3>3, <3>4, <3>6, <3>7 DEF Rest, LiveWasAsked, LeaveIsLast
    <2>4. CASE Closing # "waiting"
      <3>1. asked' \subseteq asked /\ dialog' = dialog
        BY <1>4, <2>4 DEF UserDisposes, Dropped
      <3> QED
        BY <1>a, <2>1, <2>2, <3>1 DEF Rest, LiveWasAsked, LeaveIsLast
    <2> QED BY <2>3, <2>4
  <1>5. CASE FirstNotify
    <2>1. Now("leave") \notin asked
      BY <1>a, <1>5 DEF FirstNotify, Rest, LeaveIsLast
    <2>2. Kept(dialog')
      <3>1. PICK s \in {"Pending", "Active"} : dialog' = NewDialog(s)
        BY <1>5 DEF FirstNotify
      <3> QED
        BY <3>1 DEF NewDialog, NoDialog, Kept, Dialogs, Live, DialogState, Plan
    <2>3. sub' \in Subscribers
      BY <1>a, <1>5 DEF FirstNotify, Rest, Subscribers, State
    <2>4. req.sent /\ req' = [sent |-> req.sent, waiting |-> FALSE, zero |-> req.zero]
      BY <1>a, <1>5 DEF FirstNotify, DropRequest, Rest, LiveWasAsked
    <2> QED
      BY <1>a, <1>5, <2>1, <2>2, <2>3, <2>4
      DEF FirstNotify, Rest, LiveWasAsked, LeaveIsLast
  <1>6. CASE FirstNotifyIsLast
    <2>1. ~Live(dialog) /\ dialog' = dialog
      BY <1>a, <1>6 DEF FirstNotifyIsLast, Rest, LiveWasAsked
    <2>2. CASE sub.disposed
      BY <1>a, <1>6, <2>1, <2>2
      DEF FirstNotifyIsLast, DropRequest, Rest, LiveWasAsked, LeaveIsLast
    <2>3. CASE ~sub.disposed
      BY <1>a, <1>6, <2>1, <2>3, HearsEndKeeps
      DEF FirstNotifyIsLast, Live
    <2> QED BY <2>2, <2>3
  <1>7. CASE Notify
    <2>1. Follows(dialog', dialog)
      BY <1>a, <1>7, NotifiedFollows DEF Notify
    <2> QED
      BY <1>a, <1>7, <2>1 DEF Notify, Follows, Rest, LiveWasAsked, LeaveIsLast
  <1>8. CASE LastNotify
    <2>1. Follows(dialog', dialog) /\ ~Live(dialog')
      BY <1>a, <1>8, DialogsFollow DEF LastNotify, DialogEnded, Live,
         Kept, Dialogs
    <2>2. CASE sub.disposed
      BY <1>a, <1>8, <2>1, <2>2
      DEF LastNotify, Follows, Rest, LiveWasAsked, LeaveIsLast
    <2>3. CASE ~sub.disposed
      BY <1>a, <1>8, <2>1, <2>3, HearsEndKeeps DEF LastNotify, Follows
    <2> QED BY <2>2, <2>3
  <1>9. ASSUME NEW r \in asked, Accept(r)
        PROVE  Kept(dialog') /\ Rest'
    <2>1. CASE r = Now("initial") /\ req.waiting
      <3>1. PICK zero \in BOOLEAN : req' = [req EXCEPT !.zero = zero]
        <4>1. ~r.old
          BY <2>1 DEF Now
        <4> QED BY <1>9, <2>1, <4>1 DEF Accept
      <3>2. req' = [sent |-> req.sent, waiting |-> req.waiting, zero |-> zero]
        BY <1>a, <3>1 DEF Rest
      <3>3. UNCHANGED <<sub, dialog>> /\ asked' \subseteq asked
        BY <1>9, <2>1 DEF Accept
      <3> QED BY <1>a, <3>2, <3>3 DEF Rest, LiveWasAsked, LeaveIsLast
    <2>2. CASE ~(r = Now("initial") /\ req.waiting)
      <3>1. Follows(dialog', dialog)
        BY <1>a, <1>9, <2>2, DialogsFollow DEF Accept
      <3>2. UNCHANGED <<sub, req>> /\ asked' \subseteq asked
        BY <1>9, <2>2 DEF Accept
      <3> QED
        BY <1>a, <3>1, <3>2 DEF Follows, Rest, LiveWasAsked, LeaveIsLast
    <2> QED BY <2>1, <2>2
  <1>10. ASSUME NEW r \in asked, Decline(r)
         PROVE  Kept(dialog') /\ Rest'
    <2>1. CASE r = Now("initial") /\ req.waiting /\ sub.disposed
      <3>0. r.kind # "refresh"
        BY <2>1 DEF Now
      <3>1. /\ req' = [sent |-> req.sent, waiting |-> FALSE, zero |-> req.zero]
            /\ asked' \subseteq asked /\ UNCHANGED <<sub, dialog>>
        BY <1>a, <1>10, <2>1, <3>0 DEF Decline, DropRequest, Rest
      <3> QED
        BY <1>a, <3>1 DEF Rest, LiveWasAsked, LeaveIsLast
    <2>2. CASE \/ r = Now("initial") /\ req.waiting /\ ~sub.disposed
               \/ r.kind = "refresh"
      <3>1. Unsubscribed(dialog, asked \ {r})
        BY <1>10, <2>2 DEF Decline, Now
      <3> QED BY <1>a, <3>1, UnsubscribedKeeps
    <2>3. CASE ~ \/ r = Now("initial") /\ req.waiting
                 \/ r.kind = "refresh"
      <3>1. asked' \subseteq asked /\ UNCHANGED <<sub, req, dialog>>
        BY <1>10, <2>3 DEF Decline
      <3> QED
        BY <1>a, <3>1 DEF Rest, LiveWasAsked, LeaveIsLast
    <2> QED BY <1>a, <2>1, <2>2, <2>3 DEF Rest
  <1>11. ASSUME NEW r \in asked, Gone(r)
         PROVE  Kept(dialog') /\ Rest'
    <2>1. CASE r.old
      BY <1>a, <1>11, <2>1, HearsTerminatedKeeps, DialogsFollow DEF Gone
    <2>2. CASE ~r.old
      BY <1>a, <1>11, <2>2, TerminateKeeps DEF Gone
    <2> QED BY <2>1, <2>2
  <1>12. CASE TimerN
    <2>1. CASE sub.disposed
      <3>1. /\ req' = [sent |-> req.sent, waiting |-> FALSE, zero |-> req.zero]
            /\ UNCHANGED <<sub, dialog, asked>>
        BY <1>a, <1>12, <2>1 DEF TimerN, DropRequest, Rest
      <3> QED
        BY <1>a, <3>1 DEF Rest, LiveWasAsked, LeaveIsLast
    <2>2. CASE ~sub.disposed
      BY <1>a, <1>12, <2>2, UnsubscribedKeeps DEF TimerN
    <2> QED BY <2>1, <2>2
  <1>13. CASE DialogTimerN
    BY <1>a, <1>13, TerminateKeeps DEF DialogTimerN
  <1>14. CASE RefreshTimer
    <2>1. /\ Kept(dialog') /\ (Live(dialog') => Live(dialog))
          /\ (dialog.left => dialog'.left)
      BY <1>a, <1>14
      DEF RefreshTimer, Resubscribed, Kept, Dialogs, Live, DialogState, Plan
    <2>2. /\ asked' \subseteq Subscribe
          /\ Now("leave") \in asked' => Now("leave") \in asked
      BY <1>a, <1>14, WhatIsAsked DEF RefreshTimer, Rest
    <2> QED
      BY <1>a, <1>14, <2>1, <2>2
      DEF RefreshTimer, Rest, LiveWasAsked, LeaveIsLast
  <1>15. CASE UNCHANGED subscriptionVars
    BY <1>a, <1>15 DEF subscriptionVars, Kept, Rest, Live, LiveWasAsked,
       LeaveIsLast
  <1> QED
    BY <1>1, <1>2, <1>3, <1>4, <1>5, <1>6, <1>7, <1>8, <1>9, <1>10, <1>11,
       <1>12, <1>13, <1>14, <1>15 DEF SubscriptionNext

(* A subscription whose notifier last told, by a NOTIFY, how long it lasts *)
(* has its refresh to come or in progress, unless an Expires of zero has   *)
(* left a stale plan (subscription-dialog.ts, the setter of                *)
(* subscriptionExpires, refreshTimerSet() and timer N).                    *)
THEOREM SubscriptionsAreRefreshed ==
    SubscriptionSpec => []SubscriptionIsRefreshed
  <1>1. SubscriptionInv => SubscriptionIsRefreshed
    BY DEF SubscriptionInv
  <1> QED
    BY <1>1, SubscriptionInitInv, SubscriptionStepInv, PTL DEF SubscriptionSpec
=============================================================================
