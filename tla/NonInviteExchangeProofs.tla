------------------------ MODULE NonInviteExchangeProofs ------------------------
(***************************************************************************)
(* A non-INVITE request, however often it is repeated, served and answered *)
(* again, for every bound on pending sends and on services.                *)
(***************************************************************************)
EXTENDS NonInviteExchange, TLAPS

(* The client and its user: what was told fits the state, and is told      *)
(* once.                                                                   *)
ClientInv ==
    /\ Client!TypeOK
    /\ Client!OneOutcome
    /\ client.state \in Client!Early => caller.outcome = "none"
    /\ client.state = "Completed" => caller.outcome # "none"
    /\ Client!NoSilentEnd
    /\ caller.ended # "never" <=> client.state = "Terminated"

LEMMA InitClientInv == Client!Init => ClientInv
  BY DEF Client!Init, ClientInv, Client!TypeOK, Client!OneOutcome,
     Client!NoSilentEnd, Client!NewTransaction, Client!NothingHeard,
     Client!State, Client!Timer, Client!Outcome, Client!Count, Client!Early

LEMMA TimersAreTyped ==
    ASSUME NEW s, NEW running \in SUBSET Client!Timer
    PROVE  Client!TimersOf(s, running) \in SUBSET Client!Timer
  BY DEF Client!TimersOf, Client!Timer

LEMMA EntersIs ==
    ASSUME Client!TypeOK, NEW s \in Client!State
    PROVE  /\ Client!Enter(client, s)
                 \in [state : Client!State, timers : SUBSET Client!Timer,
                      sending : BOOLEAN]
           /\ Client!Enter(client, s).state = s
  BY TimersAreTyped DEF Client!TypeOK, Client!Enter

(* What a step of the client tells its user: an outcome, a timeout that    *)
(* ends it, its end, or a transport failure.                               *)
Hears == /\ caller.outcome = "none" /\ caller.ended = "never"
         /\ \E o \in {"accepted", "refused", "timeout"} :
               caller' = [caller EXCEPT !.outcome = o, !.finals = "once"]

TimesOut == /\ caller.outcome = "none" /\ caller.ended = "never"
            /\ caller' = [caller EXCEPT !.outcome = "timeout",
                                        !.finals = "once", !.ended = "once"]

Ends == /\ caller.outcome # "none" /\ caller.ended = "never"
        /\ caller' = [caller EXCEPT !.ended = "once"]

Fails == \E n \in {"once", "again"} :
            caller' = [caller EXCEPT !.failed = TRUE, !.ended = n]

ClientTells == UNCHANGED caller \/ Hears \/ TimesOut \/ Ends \/ Fails

LEMMA ClientStep ==
    ASSUME ClientInv, ResponseArrives \/ ClientRuns
    PROVE  ClientInv' /\ ClientTells
  <1> USE DEF ClientInv, Client!OneOutcome, Client!NoSilentEnd, Client!Early
  <1>0. /\ Client!TypeOK
        /\ client.state \in Client!State
        /\ client \in [state : Client!State, timers : SUBSET Client!Timer,
                       sending : BOOLEAN]
        /\ caller \in [outcome : Client!Outcome, finals : Client!Count,
                       failed : BOOLEAN, ended : Client!Count]
    BY DEF Client!TypeOK
  <1>1. ASSUME NEW s \in Client!State, NEW x, x = Client!Enter(client, s)
        PROVE  /\ x \in [state : Client!State, timers : SUBSET Client!Timer,
                         sending : BOOLEAN]
               /\ x.state = s
               /\ [x EXCEPT !.sending = FALSE]
                     \in [state : Client!State, timers : SUBSET Client!Timer,
                          sending : BOOLEAN]
               /\ [x EXCEPT !.sending = FALSE].state = s
    BY <1>0, <1>1, EntersIs
  <1>2. CASE Client!ReceiveProvisional
    <2>1. /\ client' = Client!Enter(client, "Proceeding") /\ caller' = caller
          /\ client.state \in {"Trying", "Proceeding"}
      BY <1>2 DEF Client!ReceiveProvisional
    <2> QED BY <1>0, <1>1, <2>1 DEF Client!TypeOK, Client!State, ClientTells
  <1>3. CASE \E final : Client!ReceiveFinal(final)
    <2>1. PICK o \in {"accepted", "refused", "timeout"} :
             /\ client' = Client!Enter(client, "Completed")
             /\ client.state \in {"Trying", "Proceeding"}
             /\ caller' = [caller EXCEPT !.outcome = o,
                                         !.finals = Client!Again(@)]
      BY <1>3 DEF Client!ReceiveFinal, Client!Told, Client!Hears
    <2>2. caller' = [caller EXCEPT !.outcome = o, !.finals = "once"]
      BY <1>0, <2>1 DEF Client!Again
    <2> QED BY <1>0, <1>1, <2>1, <2>2 DEF Client!TypeOK, Client!State,
            Client!Outcome, Client!Count, ClientTells, Hears
  <1>4. CASE Client!AbsorbResponse
    BY <1>4 DEF Client!AbsorbResponse, Client!vars, Client!TypeOK, ClientTells
  <1>5. CASE Client!Sent
    <2>1. client' = [client EXCEPT !.sending = FALSE] /\ caller' = caller
      BY <1>5 DEF Client!Sent
    <2> QED BY <1>0, <2>1 DEF Client!TypeOK, ClientTells
  <1>6. CASE Client!SendFails
    <2>1. /\ client' = [Client!Enter(client, "Terminated")
                           EXCEPT !.sending = FALSE]
          /\ caller' = [caller EXCEPT !.failed = TRUE,
                                      !.ended = Client!Again(@)]
      BY <1>6 DEF Client!SendFails
    <2>2. Client!Again(caller.ended) \in {"once", "again"}
      BY DEF Client!Again
    <2> QED BY <1>0, <1>1, <2>1, <2>2 DEF Client!TypeOK, Client!State,
            Client!Count, ClientTells, Fails
  <1>7. CASE Client!TimerF
    <2>1. /\ client' = Client!Enter(client, "Terminated")
          /\ client.state \in {"Trying", "Proceeding"}
          /\ caller' = [caller EXCEPT !.outcome = "timeout",
                                      !.finals = Client!Again(@),
                                      !.ended = Client!Again(@)]
      BY <1>0, <1>7 DEF Client!TimerF, Client!Hears
    <2>2. caller' = [caller EXCEPT !.outcome = "timeout", !.finals = "once",
                                   !.ended = "once"]
      BY <1>0, <2>1 DEF Client!Again
    <2> QED BY <1>0, <1>1, <2>1, <2>2 DEF Client!TypeOK, Client!State,
            Client!Outcome, Client!Count, ClientTells, TimesOut
  <1>8. CASE Client!TimerK
    <2>1. /\ client' = Client!Enter(client, "Terminated")
          /\ client.state = "Completed"
          /\ caller' = [caller EXCEPT !.ended = Client!Again(@)]
      BY <1>8 DEF Client!TimerK
    <2>2. caller' = [caller EXCEPT !.ended = "once"]
      BY <1>0, <2>1 DEF Client!Again
    <2> QED BY <1>0, <1>1, <2>1, <2>2 DEF Client!TypeOK, Client!State,
            Client!Count, ClientTells, Ends
  <1> QED
    BY <1>2, <1>3, <1>4, <1>5, <1>6, <1>7, <1>8 DEF ClientRuns, ResponseArrives

(* What the user is told, the contract allows.                             *)
LEMMA ClientKeepsContract ==
    ASSUME ClientInv, ClientTells
    PROVE  [Client!Contract!Next]_(Client!Contract!vars)
  <1> USE DEF Client!Contract!vars, Client!Contract!Next
  <1>0. caller \in [outcome : Client!Outcome, finals : Client!Count,
                    failed : BOOLEAN, ended : Client!Count]
    BY DEF ClientInv, Client!TypeOK
  <1>1. CASE UNCHANGED caller
    BY <1>1
  <1>2. CASE Hears
    <2>1. PICK o \in {"accepted", "refused", "timeout"} :
             /\ caller.outcome = "none" /\ caller.ended = "never"
             /\ caller' = [caller EXCEPT !.outcome = o, !.finals = "once"]
      BY <1>2 DEF Hears
    <2>2. /\ caller'.outcome = o /\ caller'.ended = "never"
          /\ caller'.failed = caller.failed
      BY <1>0, <2>1
    <2>3. Client!Contract!Accept \/ Client!Contract!Refuse
      BY <2>1, <2>2 DEF Client!Contract!Accept, Client!Contract!Refuse
    <2> QED BY <2>3
  <1>3. CASE TimesOut
    <2>1. /\ caller.outcome = "none" /\ caller.ended = "never"
          /\ caller'.outcome = "timeout" /\ caller'.ended = "once"
          /\ caller'.failed = caller.failed
      BY <1>0, <1>3 DEF TimesOut
    <2>2. Client!Contract!TimeOut
      BY <2>1 DEF Client!Contract!TimeOut
    <2> QED BY <2>2
  <1>4. CASE Ends
    <2>1. /\ caller.outcome # "none" /\ caller'.ended = "once"
          /\ caller'.outcome = caller.outcome
          /\ caller'.failed = caller.failed
      BY <1>0, <1>4 DEF Ends
    <2>2. Client!Contract!End
      BY <2>1 DEF Client!Contract!End
    <2> QED BY <2>2
  <1>5. CASE Fails
    <2>1. /\ caller'.failed = TRUE /\ caller'.ended # "never"
          /\ caller'.outcome = caller.outcome
      BY <1>0, <1>5 DEF Fails
    <2>2. Client!Contract!Fail
      BY <2>1 DEF Client!Contract!Fail
    <2> QED BY <2>2
  <1> QED BY <1>1, <1>2, <1>3, <1>4, <1>5 DEF ClientTells
-----------------------------------------------------------------------------
(* A server: what it repeats fits its state, and the final answer that is  *)
(* on the wire is the one it has, as long as it lives.                     *)
LastFits(t) ==
    /\ t.state = "Proceeding" => t.last = "100"
    /\ t.state = "Completed" => t.last \in Server!Final

Answers(t, code) ==
    t.state = "Terminated" \/ (t.state = "Completed" /\ t.last = code)

ServerRecord ==
    [state : Server!State, timerJ : BOOLEAN,
     last : Server!Response \cup {"none"}, sending : Int]

FinalsFit ==
    \A r \in replies : r.code \in Server!Final => Answers(servers[r.by], r.code)

ServerInv ==
    /\ servers \in [1..MaxServed -> ServerRecord]
    /\ served \in 0..MaxServed /\ known \in 0..served
    /\ \A i \in 1..MaxServed :
          LastFits(servers[i]) /\ (Live(i) => i \in 1..served)
    /\ replies \subseteq [by : 1..served, code : Server!Response]
    /\ FinalsFit
    /\ OneAnswerPerTransaction

LEMMA Numbered ==
    ASSUME ServerInv
    PROVE  \A r \in replies : r.by \in 1..MaxServed /\ r.by \in 1..served
  <1>1. 1..served \subseteq 1..MaxServed
    BY ServedAssumption DEF ServerInv
  <1> QED BY <1>1 DEF ServerInv

LEMMA InitServerInv == Init => ServerInv
  <1> SUFFICES ASSUME Init PROVE ServerInv
    OBVIOUS
  <1>1. Server!NewTransaction \in ServerRecord
    BY DEF Server!NewTransaction, ServerRecord, Server!State
  <1>2. Server!NotMade \in ServerRecord /\ Server!NotMade.state = "Terminated"
    BY <1>1 DEF Server!NotMade, ServerRecord, Server!State
  <1> QED
    BY <1>2, ServedAssumption
    DEF Init, Server!Init, ServerInv, LastFits, Live, FinalsFit,
        OneAnswerPerTransaction

(* A response is sent: the first 100, the final answer, or the last again. *)
LEMMA SaysKeeps ==
    ASSUME ServerInv, NEW i \in 1..MaxServed, NEW code \in Server!Response,
           NEW t \in ServerRecord, servers' = [servers EXCEPT ![i] = t],
           Says(i, code), UNCHANGED <<served, known>>, Live(i), LastFits(t),
           \/ code = "100" /\ servers[i].state \in {"Trying", "Proceeding"}
           \/ /\ code \in Server!Final /\ t.state = "Completed" /\ t.last = code
              /\ \/ servers[i].state \in {"Trying", "Proceeding"}
                 \/ servers[i].state = "Completed" /\ servers[i].last = code
    PROVE  ServerInv'
  <1> DEFINE sent == [by |-> i, code |-> code]
  <1>1. replies' = replies \cup {sent} /\ sent.by = i /\ sent.code = code
    BY DEF Says
  <1>2. i \in 1..served
    BY DEF ServerInv
  <1>3. sent \in [by : 1..served, code : Server!Response]
    BY <1>2
  <1> HIDE DEF sent
  <1>4. replies' \subseteq [by : 1..served', code : Server!Response]
    BY <1>1, <1>3 DEF ServerInv
  <1>5. /\ servers' \in [1..MaxServed -> ServerRecord]
        /\ servers'[i] = t
        /\ \A j \in 1..MaxServed : j # i => servers'[j] = servers[j]
    BY DEF ServerInv
  <1>6. \A j \in 1..MaxServed :
           LastFits(servers'[j]) /\ (Live(j)' => j \in 1..served')
    <2> SUFFICES ASSUME NEW j \in 1..MaxServed
                 PROVE  LastFits(servers'[j]) /\ (Live(j)' => j \in 1..served')
      OBVIOUS
    <2>1. CASE j = i
      BY <1>2, <1>5, <2>1
    <2>2. CASE j # i
      BY <1>5, <2>2 DEF ServerInv, Live
    <2> QED BY <2>1, <2>2
  <1>7. \A r \in replies : r.by \in 1..MaxServed /\ r.by \in 1..served
    BY Numbered
  <1>8. CASE code = "100" /\ servers[i].state \in {"Trying", "Proceeding"}
    <2>1. code \notin Server!Final
      BY <1>8 DEF Server!Final
    <2>2. \A r \in replies' : r.code \in Server!Final =>
             r \in replies /\ r.by # i
      BY <1>1, <1>8, <2>1 DEF ServerInv, FinalsFit, Answers
    <2>3. OneAnswerPerTransaction'
      BY <2>2 DEF ServerInv, OneAnswerPerTransaction
    <2>4. FinalsFit'
      BY <1>5, <1>7, <2>2 DEF ServerInv, FinalsFit
    <2> QED BY <1>4, <1>5, <1>6, <2>3, <2>4 DEF ServerInv
  <1>9. CASE /\ code \in Server!Final /\ t.state = "Completed" /\ t.last = code
             /\ \/ servers[i].state \in {"Trying", "Proceeding"}
                \/ servers[i].state = "Completed" /\ servers[i].last = code
    <2>1. \A r \in replies' : r.by = i /\ r.code \in Server!Final =>
             r.code = code
      BY <1>1, <1>9 DEF ServerInv, FinalsFit, Answers
    <2>2. \A r \in replies' : r.by = i /\ r.code \in Server!Final => r = sent
      <3> SUFFICES ASSUME NEW r \in replies, r.by = i, r.code \in Server!Final
                   PROVE  r = sent
        BY <1>1
      <3> QED BY <1>1, <2>1 DEF ServerInv, sent
    <2>3. OneAnswerPerTransaction'
      BY <1>1, <2>2 DEF ServerInv, OneAnswerPerTransaction
    <2>4. FinalsFit'
      <3> SUFFICES ASSUME NEW r \in replies', r.code \in Server!Final
                   PROVE  Answers(servers'[r.by], r.code)
        BY DEF FinalsFit
      <3>1. CASE r.by = i
        BY <1>5, <1>9, <2>1, <3>1 DEF Answers
      <3>2. CASE r.by # i
        <4>1. r \in replies /\ servers'[r.by] = servers[r.by]
          BY <1>1, <1>5, <1>7, <3>2
        <4> QED BY <4>1 DEF ServerInv, FinalsFit
      <3> QED BY <3>1, <3>2
    <2> QED BY <1>4, <1>5, <1>6, <2>3, <2>4 DEF ServerInv
  <1> QED BY <1>8, <1>9

(* A transaction moves on or ends, and nothing is sent.                    *)
LEMMA MovesKeeps ==
    ASSUME ServerInv, UNCHANGED <<served, replies>>, known' \in 0..served,
           NEW i \in 1..MaxServed, NEW t \in ServerRecord,
           servers' = [servers EXCEPT ![i] = t],
           \/ t.state = "Terminated"
           \/ t.state = servers[i].state /\ t.last = servers[i].last
    PROVE  ServerInv'
  <1>1. /\ servers' \in [1..MaxServed -> ServerRecord]
        /\ servers'[i] = t
        /\ \A j \in 1..MaxServed : j # i => servers'[j] = servers[j]
    BY DEF ServerInv
  <1>2. LastFits(t) /\ (t.state # "Terminated" => i \in 1..served)
    BY DEF ServerInv, LastFits, Live
  <1>3. \A j \in 1..MaxServed :
           LastFits(servers'[j]) /\ (Live(j)' => j \in 1..served')
    <2> SUFFICES ASSUME NEW j \in 1..MaxServed
                 PROVE  LastFits(servers'[j]) /\ (Live(j)' => j \in 1..served')
      OBVIOUS
    <2>1. CASE j = i
      BY <1>1, <1>2, <2>1 DEF Live
    <2>2. CASE j # i
      BY <1>1, <2>2 DEF ServerInv, Live
    <2> QED BY <2>1, <2>2
  <1>4. \A r \in replies : r.by \in 1..MaxServed
    BY Numbered
  <1>5. FinalsFit'
    BY <1>1, <1>4 DEF ServerInv, FinalsFit, Answers
  <1> QED BY <1>1, <1>3, <1>5 DEF ServerInv, OneAnswerPerTransaction

LEMMA ServerStep ==
    ASSUME ServerInv, Next
    PROVE  ServerInv'
  <1>0. ASSUME NEW i \in 1..MaxServed
        PROVE  /\ servers[i] \in ServerRecord /\ LastFits(servers[i])
               /\ servers[i].sending \in Int
    BY DEF ServerInv, ServerRecord
  <1>1. ASSUME NEW i \in 1..MaxServed, NEW s \in Server!State,
               NEW e, e = Server!Enter(servers[i], s)
        PROVE  e \in ServerRecord /\ e.state = s /\ e.sending \in Int
    BY <1>0, <1>1 DEF Server!Enter, ServerRecord
  <1>2. CASE RequestMatches
    <2>1. known \in 1..MaxServed
      BY <1>2, ServedAssumption DEF RequestMatches, ServerInv
    <2>2. CASE Server!ResendLast(known) /\ Says(known, servers[known].last)
      <3>1. PICK t : t = [servers[known] EXCEPT !.sending = @ + 1]
        OBVIOUS
      <3>2. /\ servers' = [servers EXCEPT ![known] = t]
            /\ servers[known].state \in {"Proceeding", "Completed"}
            /\ UNCHANGED <<served, known>>
        BY <1>2, <2>2, <3>1
        DEF RequestMatches, Server!ResendLast, Server!Sends
      <3>3. /\ t \in ServerRecord
            /\ t.state = servers[known].state /\ t.last = servers[known].last
        BY <1>0, <2>1, <3>1 DEF ServerRecord
      <3>4. \/ servers[known].last = "100" /\ servers[known].state = "Proceeding"
            \/ /\ servers[known].last \in Server!Final
               /\ servers[known].state = "Completed"
        BY <1>0, <2>1, <3>2 DEF LastFits
      <3>5. LastFits(t) /\ Live(known)
        BY <1>0, <2>1, <3>2, <3>3 DEF LastFits, Live
      <3>6. servers[known].last \in Server!Response
        BY <3>4 DEF Server!Response
      <3> QED BY <2>1, <2>2, <3>2, <3>3, <3>4, <3>5, <3>6, SaysKeeps
    <2>3. CASE Server!DropRequest(known) /\ UNCHANGED replies
      <3>1. UNCHANGED <<servers, served, known, replies>>
        BY <1>2, <2>3 DEF RequestMatches, Server!DropRequest, Server!vars
      <3> QED
        BY <3>1
        DEF ServerInv, Live, LastFits, FinalsFit, Answers,
            OneAnswerPerTransaction
    <2> QED BY <1>2, <2>2, <2>3 DEF RequestMatches
  <1>3. CASE RequestIsNew
    <2>1. /\ servers' = [servers EXCEPT ![served + 1] = Server!NewTransaction]
          /\ served' = served + 1 /\ known' = served + 1
          /\ served < MaxServed /\ replies' = replies
      BY <1>3 DEF RequestIsNew, Server!Create
    <2>2. /\ Server!NewTransaction \in ServerRecord
          /\ LastFits(Server!NewTransaction)
      BY DEF Server!NewTransaction, ServerRecord, Server!State, LastFits
    <2>3. /\ served \in Nat /\ served + 1 \in 1..MaxServed
          /\ served' \in 0..MaxServed /\ known' \in 0..served'
      BY <2>1, ServedAssumption DEF ServerInv
    <2>4. /\ servers' \in [1..MaxServed -> ServerRecord]
          /\ servers'[served + 1] = Server!NewTransaction
          /\ \A j \in 1..MaxServed : j # served + 1 => servers'[j] = servers[j]
      BY <2>1, <2>2, <2>3 DEF ServerInv
    <2>5. \A j \in 1..MaxServed :
             LastFits(servers'[j]) /\ (Live(j)' => j \in 1..served')
      <3> SUFFICES ASSUME NEW j \in 1..MaxServed
                   PROVE  LastFits(servers'[j]) /\ (Live(j)' => j \in 1..served')
        OBVIOUS
      <3>1. CASE j = served + 1
        BY <2>1, <2>2, <2>3, <2>4, <3>1
      <3>2. CASE j # served + 1
        BY <2>1, <2>3, <2>4, <3>2 DEF ServerInv, Live
      <3> QED BY <3>1, <3>2
    <2>6. \A r \in replies : /\ r.by \in 1..MaxServed /\ r.by # served + 1
                             /\ r \in [by : 1..served', code : Server!Response]
      <3> SUFFICES ASSUME NEW r \in replies
                   PROVE  /\ r.by \in 1..MaxServed /\ r.by # served + 1
                          /\ r \in [by : 1..served', code : Server!Response]
        OBVIOUS
      <3>1. /\ r.by \in 1..MaxServed /\ r.by \in 1..served
            /\ r \in [by : 1..served, code : Server!Response]
        BY Numbered DEF ServerInv
      <3>2. 1..served \subseteq 1..served' /\ served + 1 \notin 1..served
        BY <2>1, <2>3
      <3> QED BY <3>1, <3>2
    <2>7. FinalsFit'
      BY <2>1, <2>4, <2>6 DEF ServerInv, FinalsFit
    <2> QED
      BY <2>1, <2>3, <2>4, <2>5, <2>6, <2>7
      DEF ServerInv, OneAnswerPerTransaction
  <1>4. ASSUME NEW i \in 1..MaxServed, NEW s \in {"Proceeding", "Completed"},
               NEW code \in Server!Response,
               servers[i].state \in {"Trying", "Proceeding"},
               Server!Sends(i, [Server!Enter(servers[i], s)
                                   EXCEPT !.last = code]),
               Says(i, code), UNCHANGED <<served, known>>,
               IF code = "100" THEN s = "Proceeding" ELSE s = "Completed"
        PROVE  ServerInv'
    <2>1. PICK e : e = Server!Enter(servers[i], s)
      OBVIOUS
    <2>2. e \in ServerRecord /\ e.state = s /\ e.sending \in Int
      BY <1>1, <2>1 DEF Server!State
    <2>3. PICK t : t = [[e EXCEPT !.last = code] EXCEPT !.sending = @ + 1]
      OBVIOUS
    <2>4. servers' = [servers EXCEPT ![i] = t]
      BY <1>4, <2>1, <2>3 DEF Server!Sends
    <2>5. t \in ServerRecord /\ t.state = s /\ t.last = code
      <3>1. /\ e \in ServerRecord /\ code \in Server!Response \cup {"none"}
            /\ e.sending + 1 \in Int
        BY <2>2
      <3> QED BY <2>2, <2>3, <3>1 DEF ServerRecord
    <2>6. code = "100" \/ code \in Server!Final
      BY DEF Server!Response
    <2>7. LastFits(t) /\ Live(i)
      BY <1>4, <2>5, <2>6 DEF LastFits, Live
    <2> QED BY <1>4, <2>4, <2>5, <2>6, <2>7, SaysKeeps
  <1>5. ASSUME NEW i \in 1..MaxServed, ServerReplies(i)
        PROVE  ServerInv'
    <2>1. CASE Server!ReplyTrying(i) /\ Says(i, "100")
      BY <1>4, <1>5, <2>1
      DEF ServerReplies, Server!ReplyTrying, Server!Response
    <2>2. ASSUME NEW final \in Server!Final, Server!ReplyFinal(i, final),
                 Says(i, final)
          PROVE  ServerInv'
      <3>1. final # "100" /\ final \in Server!Response
        BY DEF Server!Final, Server!Response
      <3> QED
        BY <1>4, <1>5, <2>2, <3>1
        DEF ServerReplies, Server!ReplyFinal, Server!Early
    <2> QED BY <1>5, <2>1, <2>2 DEF ServerReplies
  <1>6. ASSUME NEW i \in 1..MaxServed, ServerSent(i)
        PROVE  ServerInv'
    <2>1. PICK t : t = [servers[i] EXCEPT !.sending = @ - 1]
      OBVIOUS
    <2>2. /\ servers' = [servers EXCEPT ![i] = t]
          /\ UNCHANGED <<served, known, replies>>
      BY <1>6, <2>1 DEF ServerSent, Server!Sent
    <2>3. /\ t \in ServerRecord
          /\ t.state = servers[i].state /\ t.last = servers[i].last
      BY <1>0, <2>1 DEF ServerRecord
    <2>4. known' \in 0..served
      BY <2>2 DEF ServerInv
    <2> QED BY <2>2, <2>3, <2>4, MovesKeeps
  <1>7. ASSUME NEW i \in 1..MaxServed, ServerEnds(i)
        PROVE  ServerInv'
    <2>1. PICK e : e = Server!Enter(servers[i], "Terminated")
      OBVIOUS
    <2>2. e \in ServerRecord /\ e.state = "Terminated" /\ e.sending \in Int
      BY <1>1, <2>1 DEF Server!State
    <2>3. PICK t : /\ servers' = [servers EXCEPT ![i] = t]
                   /\ t = e \/ t = [e EXCEPT !.sending = @ - 1]
      <3>1. CASE Server!SendFails(i)
        <4>1. servers' = [servers EXCEPT ![i] = [e EXCEPT !.sending = @ - 1]]
          BY <2>1, <3>1 DEF Server!SendFails
        <4> QED BY <4>1
      <3>2. CASE Server!TimerJ(i)
        BY <2>1, <3>2 DEF Server!TimerJ, ServerInv
      <3> QED BY <1>7, <3>1, <3>2 DEF ServerEnds
    <2>4. t \in ServerRecord /\ t.state = "Terminated"
      BY <2>2, <2>3 DEF ServerRecord
    <2>5. UNCHANGED <<served, replies>> /\ known' \in 0..served
      BY <1>7 DEF ServerEnds, ServerInv
    <2> QED BY <2>3, <2>4, <2>5, MovesKeeps
  <1>8. CASE ResponseArrives \/ ClientRuns
    BY <1>8
    DEF ResponseArrives, ClientRuns, serverVars, ServerInv, Live, LastFits,
        FinalsFit, Answers, OneAnswerPerTransaction
  <1> QED BY <1>2, <1>3, <1>5, <1>6, <1>7, <1>8 DEF Next
-----------------------------------------------------------------------------
(* However often the request is repeated, its users reply and late failures*)
(* of the sends of one transaction remove another from the core, a server  *)
(* transaction has one final answer on the wire                            *)
(* (non-invite-server-transaction.ts:53, UserAgentServer.acceptable).      *)
THEOREM ServersAnswerOnce == Spec => []OneAnswerPerTransaction
  <1>1. ServerInv /\ [Next]_vars => ServerInv'
    <2>1. ASSUME ServerInv, UNCHANGED vars PROVE ServerInv'
      BY <2>1
      DEF vars, ServerInv, Live, LastFits, FinalsFit, Answers,
          OneAnswerPerTransaction
    <2> QED BY <2>1, ServerStep
  <1>2. ServerInv => OneAnswerPerTransaction
    BY DEF ServerInv
  <1> QED BY <1>1, <1>2, InitServerInv, PTL DEF Spec

(* Seen by its user, a client of a request that is served and answered any *)
(* number of times is a client transaction as promised: one outcome, and   *)
(* no end before it but that of a transport failure                        *)
(* (transaction-user.ts, non-invite-client-transaction.ts).                *)
THEOREM ExchangeKeepsClientContract == Spec => ImplementsContract
  <1>1. Init => ClientInv /\ Client!Contract!Init
    <2> SUFFICES ASSUME Init PROVE ClientInv /\ Client!Contract!Init
      OBVIOUS
    <2>1. ClientInv
      BY InitClientInv DEF Init
    <2> QED BY <2>1 DEF Init, Client!Init, Client!NothingHeard,
               Client!Contract!Init
  <1>2. ClientInv /\ [Next]_vars =>
           ClientInv' /\ [Client!Contract!Next]_(Client!Contract!vars)
    <2> SUFFICES ASSUME ClientInv, [Next]_vars
                 PROVE  ClientInv' /\ ClientTells
      BY ClientKeepsContract
    <2>1. CASE ResponseArrives \/ ClientRuns
      BY <2>1, ClientStep
    <2>2. CASE \/ RequestMatches \/ RequestIsNew \/ UNCHANGED vars
               \/ \E i \in 1..MaxServed :
                     ServerReplies(i) \/ ServerSent(i) \/ ServerEnds(i)
      <3>1. UNCHANGED <<client, caller>>
        BY <2>2 DEF RequestMatches, RequestIsNew, ServerReplies, ServerSent,
           ServerEnds, vars
      <3> QED BY <3>1 DEF ClientInv, Client!TypeOK, Client!OneOutcome,
                 Client!NoSilentEnd, Client!Early, ClientTells
    <2> QED BY <2>1, <2>2 DEF Next
  <1> QED BY <1>1, <1>2, PTL DEF Spec, ImplementsContract,
             Client!ImplementsContract, Client!Contract!Spec
=============================================================================
