-------------------------- MODULE EarlyDialogsProofs --------------------------
(***************************************************************************)
(* Reliable provisional responses, for every set of forks, any number of   *)
(* provisionals and whatever their sequence numbers begin with.            *)
(***************************************************************************)
EXTENDS EarlyDialogs, TLAPS

CallerRecord ==
    [state : {"Establishing", "Established", "Terminating", "Terminated"},
     transaction : {"early", "accepted", "over"}, heard : SUBSET Fork,
     cancel : {"no", "sent", "armed"}, dialog : Fork \cup {None},
     earlyMediaDialog : Fork \cup {None},
     applying : SUBSET {"early", "answer", "offer"}]

EarlyRecord ==
    [signaling : Signaling, rseq : Nat, answers : Nat,
     handler : {"none", "answering", "open", "aborted", "closed", "adopted"}]

CalleeRecord ==
    [state : {"Initial", "Establishing", "Established", "Terminated"},
     signaling : Signaling, rseq : Nat, sent : 0..MaxProgress,
     waitingForPrack : BOOLEAN, pracked : SUBSET Nat,
     progress : {"no", "generating"}, prack : {"none", "applying"},
     accept : {"no", "waiting", "generating"},
     timers : SUBSET {"prackWait", "rel1xx"}]

MessageRecord ==
    [kind : {"1xx", "PRACK", "2xx", "refusal", "ACK", "BYE"},
     fork : Fork, rseq : Nat, body : Body]

LEMMA TypeIs ==
    TypeOK <=> /\ invite \in [offer : BOOLEAN, earlyMedia : BOOLEAN]
               /\ caller \in CallerRecord
               /\ early \in [Fork -> EarlyRecord]
               /\ callee \in [Fork -> CalleeRecord]
               /\ net \subseteq MessageRecord
  BY DEF TypeOK, CallerRecord, EarlyRecord, CalleeRecord, MessageRecord

LEMMA InitType == Init => TypeOK
  <1> SUFFICES ASSUME Init PROVE TypeOK
    OBVIOUS
  <1>1. callee \in [Fork -> CalleeRecord]
    <2>1. ASSUME NEW f \in Fork PROVE callee[f] \in CalleeRecord
      <3>1. PICK first \in FirstRSeq :
               callee[f] = [state |-> "Initial", signaling |-> "none",
                            rseq |-> first, sent |-> 0,
                            waitingForPrack |-> FALSE, pracked |-> {},
                            progress |-> "no", prack |-> "none",
                            accept |-> "no", timers |-> {}]
        BY DEF Init
      <3> QED
        BY <3>1, EarlyDialogsAssumption DEF CalleeRecord, Signaling
    <2> QED BY <2>1 DEF Init
  <1>2. early \in [Fork -> EarlyRecord]
    BY DEF Init, EarlyRecord, Signaling
  <1>3. caller \in CallerRecord
    BY DEF Init, CallerRecord
  <1> QED BY <1>1, <1>2, <1>3, TypeIs DEF Init
-----------------------------------------------------------------------------
(* The callees.                                                            *)

LEMMA MessageIs ==
    ASSUME NEW f \in Fork, NEW n \in Nat, NEW b \in Body,
           NEW k \in {"1xx", "PRACK", "2xx", "refusal", "ACK", "BYE"}
    PROVE  Message(k, f, n, b) \in MessageRecord
  BY DEF Message, MessageRecord

LEMMA RefusedIs ==
    ASSUME NEW c \in CalleeRecord
    PROVE  Refused(c) \in CalleeRecord
  BY DEF Refused, CalleeRecord

LEMMA HandleType ==
    ASSUME TypeOK, NEW f \in Fork, NEW c \in CalleeRecord,
           HandleResponseError(f, c)
    PROVE  callee' \in [Fork -> CalleeRecord] /\ net' \subseteq MessageRecord
  BY TypeIs, RefusedIs, MessageIs
  DEF HandleResponseError, Callee, Sends, Body

LEMMA SignalingAfterIs ==
    ASSUME TypeOK, NEW f \in Fork, NEW b \in Body
    PROVE  /\ SignalingAfter(f, b) \in Signaling
           /\ b # "none" => SignalingAfter(f, b) # "none"
           /\ b = "none" => SignalingAfter(f, b) = callee[f].signaling
  BY TypeIs DEF SignalingAfter, Body, Signaling, CalleeRecord

(* The parts of a callee that the steps change.                            *)
LEMMA CalleeType ==
    ASSUME TypeOK, NEW f \in Fork, CalleeNext(f)
    PROVE  callee' \in [Fork -> CalleeRecord] /\ net' \subseteq MessageRecord
  <1> DEFINE c == callee[f]
  <1>0. /\ c \in CalleeRecord /\ callee \in [Fork -> CalleeRecord]
        /\ net \subseteq MessageRecord
    BY TypeIs
  <1>1. ASSUME NEW d \in CalleeRecord, Callee(f, d), UNCHANGED net
        PROVE  /\ callee' \in [Fork -> CalleeRecord]
               /\ net' \subseteq MessageRecord
    BY <1>0, <1>1 DEF Callee
  <1>2. ASSUME NEW d \in CalleeRecord, Callee(f, d), NEW m \in MessageRecord,
               Sends(m)
        PROVE  /\ callee' \in [Fork -> CalleeRecord]
               /\ net' \subseteq MessageRecord
    BY <1>0, <1>2 DEF Callee, Sends
  <1>3. CASE CalleeProgresses(f)
    <2>1. c.sent + 1 \in 0..MaxProgress
      BY <1>0, <1>3, EarlyDialogsAssumption DEF CalleeProgresses, CalleeRecord
    <2>2. [c EXCEPT !.waitingForPrack = TRUE, !.sent = @ + 1,
                    !.progress = "generating"] \in CalleeRecord
      BY <1>0, <2>1 DEF CalleeRecord
    <2> QED BY <1>1, <1>3, <2>2 DEF CalleeProgresses
  <1>4. CASE ProgressIsSent(f)
    <2>1. Described(f) \in Body /\ SignalingAfter(f, Described(f)) \in Signaling
      BY SignalingAfterIs DEF Described, Body
    <2> DEFINE next == c.rseq + 1
               timers == {"prackWait", "rel1xx"}
    <2>4. c.rseq \in Nat /\ next \in Nat
      BY <1>0 DEF CalleeRecord
    <2> HIDE DEF next
    <2>2. /\ [c EXCEPT !.progress = "no", !.rseq = next,
                       !.signaling = SignalingAfter(f, Described(f)),
                       !.timers = timers] \in CalleeRecord
          /\ [c EXCEPT !.progress = "no", !.rseq = next,
                       !.waitingForPrack = FALSE] \in CalleeRecord
      BY <1>0, <2>1, <2>4 DEF CalleeRecord
    <2>3. Message("1xx", f, c.rseq, Described(f)) \in MessageRecord
      BY <2>1, <2>4, MessageIs
    <2> QED BY <1>1, <1>2, <1>4, <2>2, <2>3 DEF ProgressIsSent, next
  <1>5. CASE CalleeAccepts(f)
    <2>1. [c EXCEPT !.state = "Establishing",
                    !.accept = IF c.waitingForPrack THEN "waiting"
                               ELSE "generating"] \in CalleeRecord
      BY <1>0 DEF CalleeRecord
    <2> QED BY <1>1, <1>5, <2>1 DEF CalleeAccepts
  <1>6. CASE AcceptIsSent(f)
    <2>1. Described(f) \in Body /\ SignalingAfter(f, Described(f)) \in Signaling
      BY SignalingAfterIs DEF Described, Body
    <2>2. /\ [c EXCEPT !.accept = "no", !.state = "Established",
                       !.signaling = SignalingAfter(f, Described(f))]
                \in CalleeRecord
          /\ [c EXCEPT !.accept = "no"] \in CalleeRecord
      BY <1>0, <2>1 DEF CalleeRecord
    <2>3. \A b \in Body : Message("2xx", f, 0, b) \in MessageRecord
      BY MessageIs
    <2> QED
      BY <1>1, <1>2, <1>6, <2>1, <2>2, <2>3 DEF AcceptIsSent, Body
  <1>7. CASE ProgressFails(f) \/ AcceptFails(f) \/ PrackFails(f)
    <2>1. /\ [c EXCEPT !.progress = "no", !.waitingForPrack = FALSE]
                \in CalleeRecord
          /\ [c EXCEPT !.accept = "no"] \in CalleeRecord
          /\ [c EXCEPT !.prack = "none"] \in CalleeRecord
      BY <1>0 DEF CalleeRecord
    <2> QED
      BY <1>7, <2>1, HandleType DEF ProgressFails, AcceptFails, PrackFails
  <1>8. CASE PrackArrives(f)
    <2>1. PICK m \in net :
             LET taken == [c EXCEPT !.pracked = @ \cup {m.rseq},
                                    !.signaling = IF m.body = "answer"
                                                  THEN "Stable" ELSE @]
             IN  Callee(f, IF c.state = "Established" THEN taken
                           ELSE OnPrack(taken, m.body))
      BY <1>8 DEF PrackArrives
    <2>2. [c EXCEPT !.pracked = @ \cup {m.rseq},
                    !.signaling = IF m.body = "answer" THEN "Stable" ELSE @]
             \in CalleeRecord
      BY <1>0, ZenonT(60) DEF CalleeRecord, MessageRecord, Signaling
    <2>3. ASSUME NEW d \in CalleeRecord, NEW b
          PROVE  OnPrack(d, b) \in CalleeRecord
      BY DEF OnPrack, PrackArrived, CalleeRecord
    <2> QED
      BY <1>1, <1>8, <2>1, <2>2, <2>3 DEF PrackArrives
  <1>9. CASE PrackIsApplied(f)
    <2>1. PrackArrived([c EXCEPT !.prack = "none"]) \in CalleeRecord
      BY <1>0 DEF PrackArrived, CalleeRecord
    <2> QED BY <1>1, <1>9, <2>1 DEF PrackIsApplied
  <1>10. CASE PrackWaitTimeout(f) \/ Rel1xxRetransmissionFails(f)
    <2>1. /\ [c EXCEPT !.timers = {}, !.waitingForPrack = FALSE]
                \in CalleeRecord
          /\ [c EXCEPT !.timers = @ \ {"prackWait"}] \in CalleeRecord
          /\ [c EXCEPT !.timers = @ \ {"rel1xx"}, !.waitingForPrack = FALSE]
                \in CalleeRecord
      BY <1>0 DEF CalleeRecord
    <2> QED
      BY <1>1, <1>10, <2>1, HandleType
      DEF PrackWaitTimeout, Rel1xxRetransmissionFails
  <1>11. CASE CalleeRejects(f) \/ CancelArrives(f)
    BY <1>0, <1>11, HandleType DEF CalleeRejects, CancelArrives
  <1> QED
    BY <1>3, <1>4, <1>5, <1>6, <1>7, <1>8, <1>9, <1>10, <1>11
    DEF CalleeNext, ProgressSettles, AcceptSettles, PrackSettles
-----------------------------------------------------------------------------
(* The caller.                                                             *)

Keeps(d) == d.handler \in {"answering", "open"}

(* What becomes of a dialog that learns of a description.                  *)
LEMMA KnownIs ==
    ASSUME TypeOK, NEW f \in Fork
    PROVE  /\ Known(f) \in EarlyRecord
           /\ Known(f).handler = early[f].handler
           /\ Known(f).answers = early[f].answers
           /\ Known(f).rseq = early[f].rseq
           /\ early[f].signaling # "none" =>
                 Known(f).signaling = early[f].signaling
           /\ Known(f).signaling = "HaveRemoteOffer" =>
                 early[f].signaling = "HaveRemoteOffer"
  BY TypeIs DEF Known, EarlyRecord, Signaling

LEMMA TransitionIs ==
    ASSUME NEW d \in EarlyRecord, NEW b \in Body
    PROVE  /\ SignalingTransition(d, b) \in EarlyRecord
           /\ SignalingTransition(d, b).handler = d.handler
           /\ SignalingTransition(d, b).answers = d.answers
           /\ SignalingTransition(d, b).rseq = d.rseq
           /\ SignalingTransition(d, b).signaling = "HaveRemoteOffer" =>
                 \/ d.signaling = "HaveRemoteOffer"
                 \/ d.signaling = "Initial" /\ b # "none"
  <1> DEFINE s ==
        CASE b # "none" /\ d.signaling = "Initial"        -> "HaveRemoteOffer"
          [] b # "none" /\ d.signaling = "HaveLocalOffer" -> "Stable"
          [] OTHER -> d.signaling
  <1>1. /\ SignalingTransition(d, b) = [d EXCEPT !.signaling = s]
        /\ s \in Signaling
        /\ s = "HaveRemoteOffer" => \/ d.signaling = "HaveRemoteOffer"
                                    \/ d.signaling = "Initial" /\ b # "none"
    BY DEF SignalingTransition, EarlyRecord, Signaling, Body
  <1> HIDE DEF s
  <1> QED BY <1>1 DEF EarlyRecord

LEMMA ClosedIs ==
    ASSUME NEW d \in EarlyRecord
    PROVE  /\ Closed(d) \in EarlyRecord
           /\ ~Keeps(Closed(d))
           /\ Closed(d).signaling = d.signaling
           /\ Closed(d).answers = d.answers
           /\ Closed(d).rseq = d.rseq
  <1> DEFINE h == CASE d.handler = "answering" -> "aborted"
                    [] d.handler = "open"      -> "closed"
                    [] OTHER                   -> d.handler
  <1>1. /\ Closed(d) = [d EXCEPT !.handler = h]
        /\ h \in {"none", "aborted", "closed", "adopted"}
    BY DEF Closed, EarlyRecord
  <1> HIDE DEF h
  <1> QED BY <1>1 DEF EarlyRecord, Keeps

LEMMA DisposeIs ==
    ASSUME NEW dialogs \in [Fork -> EarlyRecord]
    PROVE  /\ DisposeEarlyMedia(dialogs) \in [Fork -> EarlyRecord]
           /\ \A f \in Fork :
                 /\ ~Keeps(DisposeEarlyMedia(dialogs)[f])
                 /\ DisposeEarlyMedia(dialogs)[f].signaling
                       = dialogs[f].signaling
                 /\ DisposeEarlyMedia(dialogs)[f].answers = dialogs[f].answers
                 /\ DisposeEarlyMedia(dialogs)[f].rseq = dialogs[f].rseq
  BY ClosedIs DEF DisposeEarlyMedia

CallerTyped ==
    /\ caller \in CallerRecord
    /\ early \in [Fork -> EarlyRecord]
    /\ net \subseteq MessageRecord

(* A provisional makes a handler only while the call is neither up nor     *)
(* over, and what ends that disposes of all but the adopted one.           *)
CallerInv == CallerTyped /\ NoEarlyHandlerLeft

LEMMA NoneLeftIs ==
    NoEarlyHandlerLeft <=>
        (caller.state \in {"Established", "Terminated"} =>
            \A f \in Fork : ~Keeps(early[f]))
  BY DEF NoEarlyHandlerLeft, Keeps

LEMMA ProvisionalKeeps ==
    ASSUME TypeOK, NoEarlyHandlerLeft, ProvisionalArrives
    PROVE  CallerInv'
  <1>1. PICK m \in net :
           LET f == m.fork
               d == SignalingTransition(
                       [Known(f) EXCEPT !.rseq = IF m.rseq = 0 THEN @
                                                 ELSE m.rseq], m.body)
           IN
           /\ m.kind = "1xx"
           /\ IF caller.cancel # "no"
              THEN early' = [early EXCEPT ![f] = d] /\ UNCHANGED <<caller, net>>
              ELSE IF caller.state # "Establishing"
              THEN /\ early' = DisposeEarlyMedia([early EXCEPT ![f] = d])
                   /\ UNCHANGED <<caller, net>>
              ELSE OnProgress(f, m, d)
    BY DEF ProvisionalArrives
  <1> DEFINE f == m.fork
             k == [Known(f) EXCEPT !.rseq = IF m.rseq = 0 THEN @ ELSE m.rseq]
             d == SignalingTransition(k, m.body)
  <1>2. /\ f \in Fork /\ m.rseq \in Nat /\ m.body \in Body
        /\ early \in [Fork -> EarlyRecord] /\ caller \in CallerRecord
        /\ net \subseteq MessageRecord
    BY TypeIs DEF MessageRecord
  <1>3. k \in EarlyRecord /\ k.handler = early[f].handler
    BY <1>2, KnownIs DEF EarlyRecord
  <1> HIDE DEF k
  <1>4. d \in EarlyRecord /\ d.handler = early[f].handler
    BY <1>2, <1>3, TransitionIs
  <1> HIDE DEF d
  <1>5. [early EXCEPT ![f] = d] \in [Fork -> EarlyRecord]
    BY <1>2, <1>4
  <1>6. CASE caller.cancel # "no"
    <2>1. early' = [early EXCEPT ![f] = d] /\ UNCHANGED <<caller, net>>
      BY <1>1, <1>6 DEF d, k
    <2> QED BY <1>2, <1>4, <1>5, <2>1, NoneLeftIs DEF CallerInv, CallerTyped,
        NoEarlyHandlerLeft
  <1>7. CASE caller.cancel = "no" /\ caller.state # "Establishing"
    <2>1. /\ early' = DisposeEarlyMedia([early EXCEPT ![f] = d])
          /\ UNCHANGED <<caller, net>>
      BY <1>1, <1>7 DEF d, k
    <2> QED BY <1>2, <1>5, <2>1, DisposeIs DEF CallerInv, CallerTyped,
        NoEarlyHandlerLeft, Keeps
  <1>8. CASE caller.cancel = "no" /\ caller.state = "Establishing"
    <2>1. OnProgress(f, m, d)
      BY <1>1, <1>8 DEF d, k
    <2>2. early' = [early EXCEPT ![f] = d]
          \/ early' = [early EXCEPT ![f] = [d EXCEPT !.handler = "answering",
                                                     !.answers = @ + 1]]
      BY <2>1 DEF OnProgress
    <2> DEFINE n == d.answers + 1
    <2>8. n \in Nat
      BY <1>4 DEF EarlyRecord
    <2> HIDE DEF n
    <2>9. [d EXCEPT !.handler = "answering", !.answers = n] \in EarlyRecord
      BY <1>4, <2>8 DEF EarlyRecord
    <2>3. [d EXCEPT !.handler = "answering", !.answers = @ + 1] \in EarlyRecord
      BY <2>9 DEF n
    <2>4. \/ caller' = caller
          \/ caller' = [caller EXCEPT !.earlyMediaDialog = f,
                                      !.applying = @ \cup {"early"}]
      BY <2>1 DEF OnProgress
    <2>5. caller' \in CallerRecord /\ caller'.state = "Establishing"
      BY <1>2, <1>8, <2>4 DEF CallerRecord
    <2>6. \/ net' = net
          \/ net' = net \cup {Message("PRACK", f, m.rseq, "none")}
      BY <2>1 DEF OnProgress, Prack, Sends
    <2>7. net' \subseteq MessageRecord
      BY <1>2, <2>6, MessageIs DEF Body
    <2> QED BY <1>2, <1>5, <2>2, <2>3, <2>5, <2>7 DEF CallerInv, CallerTyped,
        NoEarlyHandlerLeft
  <1> QED BY <1>6, <1>7, <1>8

(* ACK and BYE are messages.                                               *)
LEMMA AcksType ==
    ASSUME net \subseteq MessageRecord, NEW f \in Fork,
           UNCHANGED net \/ Acks(f) \/ AckAndBye(f)
    PROVE  net' \subseteq MessageRecord
  BY MessageIs DEF Acks, Sends, AckAndBye, Body

LEMMA AcceptKeeps ==
    ASSUME TypeOK, NoEarlyHandlerLeft, AcceptArrives
    PROVE  CallerInv'
  <1>1. PICK m \in net :
          LET f == m.fork
              d == SignalingTransition(Known(f), m.body)
              known == [early EXCEPT ![f] = d]
              heard == [caller EXCEPT !.transaction = "accepted",
                                      !.heard = @ \cup {f}]
          IN
          CASE caller.dialog # None ->
                    /\ early' = known /\ caller' = heard /\ AckAndBye(f)
               [] caller.dialog = None /\ caller.cancel # "no" ->
                    /\ early' = DisposeEarlyMedia(known)
                    /\ caller' = [heard EXCEPT !.state = "Terminated"]
                    /\ AckAndBye(f)
               [] /\ caller.dialog = None /\ caller.cancel = "no"
                  /\ caller.state # "Establishing" ->
                    /\ early' = DisposeEarlyMedia(known)
                    /\ caller' = heard /\ UNCHANGED net
               [] OTHER ->
                    CASE d.signaling \in {"Initial", "HaveLocalOffer"} ->
                           /\ early' = DisposeEarlyMedia(known)
                           /\ caller' = [heard EXCEPT !.state = "Terminated",
                                                      !.dialog = f]
                           /\ AckAndBye(f)
                      [] d.signaling = "HaveRemoteOffer" ->
                           /\ early' = [known EXCEPT ![f].answers = @ + 1]
                           /\ caller' = [heard EXCEPT !.dialog = f,
                                         !.applying = @ \cup {"offer"}]
                           /\ UNCHANGED net
                      [] OTHER -> OnAcceptStable(f, known, heard)
    BY DEF AcceptArrives
  <1> DEFINE f == m.fork
             d == SignalingTransition(Known(f), m.body)
             known == [early EXCEPT ![f] = d]
             heard == [caller EXCEPT !.transaction = "accepted",
                                     !.heard = @ \cup {f}]
  <1>2. /\ f \in Fork /\ m.body \in Body
        /\ early \in [Fork -> EarlyRecord] /\ caller \in CallerRecord
        /\ net \subseteq MessageRecord
    BY TypeIs DEF MessageRecord
  <1>3. d \in EarlyRecord /\ d.handler = early[f].handler
    BY <1>2, KnownIs, TransitionIs
  <1> HIDE DEF d
  <1>4. /\ known \in [Fork -> EarlyRecord]
        /\ \A g \in Fork : known[g].handler = early[g].handler
    BY <1>2, <1>3
  <1>5. /\ heard \in CallerRecord /\ heard.state = caller.state
        /\ [heard EXCEPT !.state = "Terminated"] \in CallerRecord
        /\ [heard EXCEPT !.dialog = f] \in CallerRecord
        /\ [heard EXCEPT !.dialog = f].state = caller.state
        /\ [heard EXCEPT !.state = "Terminated", !.dialog = f] \in CallerRecord
        /\ [heard EXCEPT !.state = "Established", !.dialog = f] \in CallerRecord
    BY <1>2 DEF CallerRecord
  <1>6. ASSUME NEW a \in {"answer", "offer"}
        PROVE  /\ [heard EXCEPT !.dialog = f, !.applying = @ \cup {a}]
                     \in CallerRecord
               /\ [heard EXCEPT !.dialog = f, !.applying = @ \cup {a}].state
                     = caller.state
    BY <1>2 DEF CallerRecord
  <1> HIDE DEF known, heard
  <1>7. net' \subseteq MessageRecord
    BY <1>1, <1>2, AcksType DEF OnAcceptStable, f
  <1>8. CASE caller.dialog # None
    <2>1. early' = known /\ caller' = heard
      BY <1>1, <1>8 DEF d, known, heard
    <2> QED BY <1>4, <1>5, <1>7, <2>1 DEF CallerInv, CallerTyped,
        NoEarlyHandlerLeft
  <1>9. CASE caller.dialog = None /\ caller.cancel # "no"
    <2>1. /\ early' = DisposeEarlyMedia(known)
          /\ caller' = [heard EXCEPT !.state = "Terminated"]
      BY <1>1, <1>9 DEF d, known, heard
    <2> QED BY <1>4, <1>5, <1>7, <2>1, DisposeIs DEF CallerInv, CallerTyped,
        NoEarlyHandlerLeft, Keeps
  <1>10. CASE /\ caller.dialog = None /\ caller.cancel = "no"
              /\ caller.state # "Establishing"
    <2>1. early' = DisposeEarlyMedia(known) /\ caller' = heard
      BY <1>1, <1>10 DEF d, known, heard
    <2> QED BY <1>4, <1>5, <1>7, <2>1, DisposeIs DEF CallerInv, CallerTyped,
        NoEarlyHandlerLeft, Keeps
  <1>11. CASE /\ caller.dialog = None /\ caller.cancel = "no"
              /\ caller.state = "Establishing"
    <2>1. \/ /\ early' = DisposeEarlyMedia(known)
             /\ caller' = [heard EXCEPT !.state = "Terminated", !.dialog = f]
          \/ /\ early' = [known EXCEPT ![f].answers = @ + 1]
             /\ caller' = [heard EXCEPT !.dialog = f,
                                        !.applying = @ \cup {"offer"}]
          \/ OnAcceptStable(f, known, heard)
      BY <1>1, <1>11 DEF d, known, heard
    <2>2. CASE /\ early' = DisposeEarlyMedia(known)
               /\ caller' = [heard EXCEPT !.state = "Terminated", !.dialog = f]
      BY <1>4, <1>5, <1>7, <2>2, DisposeIs DEF CallerInv, CallerTyped,
      NoEarlyHandlerLeft, Keeps
    <2>3. CASE /\ early' = [known EXCEPT ![f].answers = @ + 1]
               /\ caller' = [heard EXCEPT !.dialog = f,
                                          !.applying = @ \cup {"offer"}]
      <3> DEFINE n == known[f].answers + 1
      <3>1. n \in Nat /\ f \in Fork /\ known[f] \in EarlyRecord
        BY <1>2, <1>4 DEF EarlyRecord
      <3> HIDE DEF n
      <3>2. [known[f] EXCEPT !.answers = n] \in EarlyRecord
        BY <3>1 DEF EarlyRecord
      <3>3. early' = [known EXCEPT ![f] = [known[f] EXCEPT !.answers = n]]
        BY <2>3 DEF n
      <3>4. early' \in [Fork -> EarlyRecord]
        BY <1>4, <3>2, <3>3
      <3>5. caller' \in CallerRecord /\ caller'.state = "Establishing"
        BY <1>6, <1>11, <2>3
      <3> QED BY <1>7, <3>4, <3>5 DEF CallerInv, CallerTyped,
          NoEarlyHandlerLeft
    <2>4. CASE OnAcceptStable(f, known, heard)
      <3>1. CASE early' = known /\ caller' = [heard EXCEPT !.dialog = f]
        BY <1>4, <1>5, <1>7, <1>11, <3>1 DEF CallerInv, CallerTyped,
        NoEarlyHandlerLeft
      <3>2. CASE /\ early' = DisposeEarlyMedia(
                                [known EXCEPT ![f].handler = "adopted"])
                 /\ caller' = [heard EXCEPT !.state = "Established",
                                            !.dialog = f]
        <4>1. [known EXCEPT ![f].handler = "adopted"] \in [Fork -> EarlyRecord]
          BY <1>2, <1>4 DEF EarlyRecord
        <4> QED BY <1>5, <1>7, <3>2, <4>1, DisposeIs DEF CallerInv,
            CallerTyped, NoEarlyHandlerLeft, Keeps
      <3>3. CASE /\ ~HasEarlyMedia /\ early' = known
                 /\ \/ caller' = [heard EXCEPT !.state = "Terminated",
                                               !.dialog = f]
                    \/ caller' = [heard EXCEPT !.state = "Established",
                                               !.dialog = f]
        BY <1>4, <1>5, <1>7, <3>3 DEF CallerInv, CallerTyped,
        NoEarlyHandlerLeft, HasEarlyMedia
      <3>4. CASE /\ early' = known
                 /\ caller' = [heard EXCEPT !.dialog = f,
                                            !.applying = @ \cup {"answer"}]
        BY <1>4, <1>6, <1>7, <1>11, <3>4 DEF CallerInv, CallerTyped,
        NoEarlyHandlerLeft
      <3> QED BY <2>4, <3>1, <3>2, <3>3, <3>4 DEF OnAcceptStable
    <2> QED BY <2>1, <2>2, <2>3, <2>4
  <1> QED BY <1>8, <1>9, <1>10, <1>11

(* What the 2xx carries is applied in the dialog of the call.              *)
ApplyingInDialog == AcceptApplies => caller.dialog \in Fork

LEMMA ApplyingKeeps ==
    ASSUME TypeOK, ApplyingInDialog, CallerNext
    PROVE  ApplyingInDialog'
  <1> USE DEF ApplyingInDialog, AcceptApplies
  <1>0. caller \in CallerRecord /\ \A m \in net : m.fork \in Fork
    BY TypeIs DEF MessageRecord
  <1>1. CASE ProvisionalArrives
    <2>1. PICK m \in net :
             \/ caller' = caller
             \/ caller' = [caller EXCEPT !.earlyMediaDialog = m.fork,
                                         !.applying = @ \cup {"early"}]
      BY <1>1 DEF ProvisionalArrives, OnProgress
    <2>2. /\ caller'.dialog = caller.dialog
          /\ caller'.applying \subseteq caller.applying \cup {"early"}
      BY <1>0, <2>1 DEF CallerRecord
    <2> QED BY <2>2
  <1>2. CASE AcceptArrives
    <2>1. PICK m \in net :
            LET heard == [caller EXCEPT !.transaction = "accepted",
                                        !.heard = @ \cup {m.fork}]
            IN  \/ caller' = heard
                \/ caller' = [heard EXCEPT !.state = "Terminated"]
                \/ caller' = [heard EXCEPT !.state = "Terminated",
                                           !.dialog = m.fork]
                \/ caller' = [heard EXCEPT !.state = "Established",
                                           !.dialog = m.fork]
                \/ caller' = [heard EXCEPT !.dialog = m.fork]
                \/ caller' = [heard EXCEPT !.dialog = m.fork,
                                           !.applying = @ \cup {"offer"}]
                \/ caller' = [heard EXCEPT !.dialog = m.fork,
                                           !.applying = @ \cup {"answer"}]
      BY <1>2 DEF AcceptArrives, OnAcceptStable
    <2>2. \/ /\ caller'.applying = caller.applying
             /\ caller'.dialog = caller.dialog
          \/ caller'.dialog = m.fork
      BY <1>0, <2>1 DEF CallerRecord
    <2> QED BY <1>0, <2>2
  <1>3. CASE \/ \E f \in Fork : EarlyAnswered(f) \/ EarlyAnswerFails(f)
             \/ EarlyMediaApplied \/ EarlyMediaFails
             \/ Cancels \/ RefusalArrives
    BY <1>0, <1>3 DEF EarlyAnswered, EarlyAnswerFails, EarlyMediaApplied,
       EarlyMediaFails, Cancels, RefusalArrives, Terminate, CallerRecord
  <1>4. CASE AcceptIsApplied \/ AcceptIsNotApplied
    BY <1>0, <1>4 DEF AcceptIsApplied, AcceptIsNotApplied, CallerRecord
  <1> QED BY <1>1, <1>2, <1>3, <1>4 DEF CallerNext

LEMMA CallerKeeps ==
    ASSUME TypeOK, NoEarlyHandlerLeft, ApplyingInDialog, CallerNext
    PROVE  CallerInv'
  <1>0. /\ early \in [Fork -> EarlyRecord] /\ caller \in CallerRecord
        /\ net \subseteq MessageRecord
    BY TypeIs
  <1>1. ASSUME NEW f \in Fork, EarlyAnswered(f)
        PROVE  CallerInv'
    <2>1. early[f].rseq \in Nat /\ early[f].handler = "answering"
      BY <1>0, <1>1 DEF EarlyAnswered, EarlyRecord
    <2>2. early' \in [Fork -> EarlyRecord] /\ caller' = caller
      <3>1. early' = [early EXCEPT ![f] =
                        [early[f] EXCEPT !.handler = "open",
                             !.signaling = IF @ = "Closed" THEN @
                                           ELSE "Stable"]]
        BY <1>0, <1>1 DEF EarlyAnswered
      <3>2. [early[f] EXCEPT !.handler = "open",
                             !.signaling = IF @ = "Closed" THEN @
                                           ELSE "Stable"] \in EarlyRecord
        BY <1>0 DEF EarlyRecord, Signaling
      <3> QED BY <1>0, <1>1, <3>1, <3>2 DEF EarlyAnswered
    <2>3. net' \subseteq MessageRecord
      BY <1>0, <1>1, <2>1, MessageIs DEF EarlyAnswered, Prack, Sends, Body
    <2>4. caller.state \notin {"Established", "Terminated"}
      BY <2>1 DEF NoEarlyHandlerLeft
    <2> QED BY <1>0, <2>2, <2>3, <2>4 DEF CallerInv, CallerTyped,
        NoEarlyHandlerLeft
  <1>2. ASSUME NEW f \in Fork, EarlyAnswerFails(f)
        PROVE  CallerInv'
    <2>1. [early EXCEPT ![f].handler = "closed"] \in [Fork -> EarlyRecord]
      BY <1>0 DEF EarlyRecord
    <2>2. caller' \in CallerRecord
      BY <1>0, <1>2 DEF EarlyAnswerFails, Terminate, CallerRecord
    <2> QED BY <1>0, <1>2, <2>1, <2>2, DisposeIs DEF EarlyAnswerFails,
        CallerInv, CallerTyped, NoEarlyHandlerLeft, Keeps
  <1>3. CASE EarlyMediaApplied
    BY <1>0, <1>3 DEF EarlyMediaApplied, CallerRecord, CallerInv, CallerTyped,
       NoEarlyHandlerLeft
  <1>4. CASE EarlyMediaFails \/ RefusalArrives
    <2>1. caller' \in CallerRecord /\ net' = net
      BY <1>0, <1>4, ZenonT(60) DEF EarlyMediaFails, RefusalArrives, CallerRecord
    <2>2. [f \in Fork |-> [early[f] EXCEPT
              !.signaling = IF @ = "none" THEN @ ELSE "Closed"]]
             \in [Fork -> EarlyRecord]
      BY <1>0 DEF EarlyRecord, Signaling
    <2> QED BY <1>0, <1>4, <2>1, <2>2, DisposeIs DEF EarlyMediaFails,
        RefusalArrives, CallerInv, CallerTyped, NoEarlyHandlerLeft, Keeps
  <1>5. CASE AcceptIsApplied \/ AcceptIsNotApplied
    <2>1. caller.dialog \in Fork
      BY <1>5 DEF AcceptIsApplied, AcceptIsNotApplied, ApplyingInDialog
    <2>2. net' \subseteq MessageRecord
      BY <1>0, <1>5, <2>1, AcksType DEF AcceptIsApplied, AcceptIsNotApplied
    <2>3. caller' \in CallerRecord
      BY <1>0, <1>5, ZenonT(60)
      DEF AcceptIsApplied, AcceptIsNotApplied, CallerRecord
    <2> QED BY <1>0, <1>5, <2>2, <2>3, DisposeIs DEF AcceptIsApplied,
        AcceptIsNotApplied, CallerInv, CallerTyped, NoEarlyHandlerLeft, Keeps
  <1>6. CASE Cancels
    BY <1>0, <1>6 DEF Cancels, CallerRecord, CallerInv, CallerTyped,
       NoEarlyHandlerLeft
  <1> QED
    BY <1>1, <1>2, <1>3, <1>4, <1>5, <1>6, ProvisionalKeeps, AcceptKeeps
    DEF CallerNext
-----------------------------------------------------------------------------
(* accept() and the PRACK.                                                 *)

Heard(f) == \E n \in net : n.kind = "1xx" /\ n.fork = f

Taken(f) == \E n \in net : n.kind = "2xx" /\ n.fork = f

AllPracked(f) ==
    \A n \in net : n.kind = "1xx" /\ n.fork = f /\ n.body # "none"
                      => n.rseq \in callee[f].pracked

Answers1xx(f, rseq) ==
    \E n \in net : n.kind = "1xx" /\ n.fork = f /\ n.rseq = rseq

(* A PRACK is of a provisional that was sent, one provisional of a fork    *)
(* has a description, and no other is sent before that has its PRACK.      *)
NetInv(f) ==
    /\ \A m \in net : m.kind = "PRACK" /\ m.fork = f => Answers1xx(f, m.rseq)
    /\ early[f].rseq # 0 => Answers1xx(f, early[f].rseq)
    /\ \A m, n \in net :
          /\ m.kind = "1xx" /\ m.fork = f /\ m.body # "none"
          /\ n.kind = "1xx" /\ n.fork = f /\ n.body # "none"
          => m.rseq = n.rseq
    /\ \A n \in net :
          n.kind = "1xx" /\ n.fork = f /\ n.body = "none" => AllPracked(f)

(* The Invitation c of a fork that has sent a provisional or none (heard), *)
(* a 2xx or none (taken), and has the PRACK of its description or not.     *)
StateInv(c, heard, taken, pracked) ==
    /\ heard \/ c.timers # {} => c.signaling # "none"
    /\ pracked \/ c.waitingForPrack \/ c.state = "Terminated"
    /\ c.progress = "generating" =>
          pracked /\ (c.signaling = "none" => c.waitingForPrack)
    /\ c.accept = "generating" =>
          pracked /\ (c.progress = "generating" => c.signaling # "none")
    /\ c.prack = "applying" => pracked /\ c.signaling # "none"
    /\ taken => c.state = "Established"
    /\ c.state = "Established" => pracked
    /\ c.accept # "no" => c.state # "Initial"

ForkInv(f) ==
    NetInv(f) /\ StateInv(callee[f], Heard(f), Taken(f), AllPracked(f))

(* Messages that are no responses of a fork do not matter to it.           *)
LEMMA NetKeeps ==
    ASSUME NEW f \in Fork, NetInv(f), net \subseteq net',
           callee[f].pracked \subseteq callee'[f].pracked,
           \A m \in net' \ net :
              \/ m.fork # f
              \/ m.kind \in {"ACK", "BYE", "refusal"}
              \/ m.kind = "PRACK" /\ Answers1xx(f, m.rseq),
           early'[f].rseq # 0 => Answers1xx(f, early'[f].rseq)
    PROVE  /\ NetInv(f)'
           /\ Heard(f)' <=> Heard(f)
           /\ Taken(f)' <=> Taken(f)
           /\ AllPracked(f) => AllPracked(f)'
  <1>1. \A n : n.kind \in {"1xx", "2xx"} /\ n.fork = f =>
                 (n \in net' <=> n \in net)
    OBVIOUS
  <1>2. AllPracked(f) => AllPracked(f)'
    BY <1>1 DEF AllPracked
  <1>3. \A rseq : Answers1xx(f, rseq) => Answers1xx(f, rseq)'
    BY DEF Answers1xx
  <1>4. \A m \in net' : m.kind = "PRACK" /\ m.fork = f => Answers1xx(f, m.rseq)'
    BY <1>3 DEF NetInv
  <1>5. \A m, n \in net' :
          /\ m.kind = "1xx" /\ m.fork = f /\ m.body # "none"
          /\ n.kind = "1xx" /\ n.fork = f /\ n.body # "none"
          => m.rseq = n.rseq
    BY <1>1 DEF NetInv
  <1>6. \A n \in net' :
          n.kind = "1xx" /\ n.fork = f /\ n.body = "none" => AllPracked(f)'
    BY <1>1, <1>2 DEF NetInv
  <1>7. NetInv(f)'
    BY <1>3, <1>4, <1>5, <1>6 DEF NetInv
  <1> QED BY <1>1, <1>2, <1>7 DEF Heard, Taken

LEMMA OthersKeep ==
    ASSUME NEW f \in Fork, ForkInv(f), callee'[f] = callee[f],
           net \subseteq net',
           \A m \in net' \ net :
              \/ m.fork # f
              \/ m.kind \in {"ACK", "BYE", "refusal"}
              \/ m.kind = "PRACK" /\ Answers1xx(f, m.rseq),
           early'[f].rseq # 0 => Answers1xx(f, early'[f].rseq)
    PROVE  ForkInv(f)'
  <1>1. /\ NetInv(f)'
        /\ Heard(f)' <=> Heard(f)
        /\ Taken(f)' <=> Taken(f)
        /\ AllPracked(f) => AllPracked(f)'
    BY NetKeeps DEF ForkInv
  <1> QED BY <1>1 DEF ForkInv, StateInv

(* A step of its Invitation that sends no response but a refusal.          *)
QuietStep(f) ==
    /\ callee[f].pracked \subseteq callee'[f].pracked
    /\ net' = net \/ net' = net \cup {Message("refusal", f, 0, "none")}
    /\ UNCHANGED early

LEMMA QuietKeeps ==
    ASSUME NEW f \in Fork, ForkInv(f), QuietStep(f),
           NEW pracked, pracked => AllPracked(f)',
           StateInv(callee'[f], Heard(f), Taken(f), pracked)
    PROVE  ForkInv(f)'
  <1>1. \A m \in net' \ net : m.kind = "refusal"
    BY DEF QuietStep, Message
  <1>2. /\ NetInv(f)'
        /\ Heard(f)' <=> Heard(f)
        /\ Taken(f)' <=> Taken(f)
    BY <1>1, NetKeeps DEF ForkInv, NetInv, QuietStep
  <1> QED BY <1>2 DEF ForkInv, StateInv

LEMMA ErrorKeeps ==
    ASSUME TypeOK, NEW f \in Fork, ForkInv(f), NEW c \in CalleeRecord,
           c.pracked = callee[f].pracked, UNCHANGED early,
           StateInv([c EXCEPT !.state = "Terminated"],
                    Heard(f), FALSE, AllPracked(f)),
           ~Ringing(f) => StateInv(c, Heard(f), Taken(f), AllPracked(f)),
           HandleResponseError(f, c)
    PROVE  ForkInv(f)'
  <1>0. callee[f] \in CalleeRecord /\ callee \in [Fork -> CalleeRecord]
    BY TypeIs
  <1>1. CASE ~Ringing(f)
    <2>1. callee'[f] = c /\ net' = net
      BY <1>0, <1>1 DEF HandleResponseError, Callee
    <2>2. QuietStep(f) /\ (AllPracked(f) => AllPracked(f)')
      BY <2>1 DEF QuietStep, AllPracked
    <2> QED BY <1>1, <2>1, <2>2, QuietKeeps
  <1>2. CASE Ringing(f)
    <2>1. /\ callee'[f] = Refused(c)
          /\ net' = net \cup {Message("refusal", f, 0, "none")}
      BY <1>0, <1>2 DEF HandleResponseError, Callee, Sends
    <2>2. Refused(c).pracked = c.pracked
      BY DEF Refused, CalleeRecord
    <2>3. QuietStep(f) /\ (AllPracked(f) => AllPracked(f)')
      BY <2>1, <2>2 DEF QuietStep, AllPracked, Message
    <2>4. ~Taken(f)
      BY <1>2 DEF ForkInv, StateInv, Ringing
    <2>5. StateInv(Refused(c), Heard(f), Taken(f), AllPracked(f))
      BY <2>4 DEF StateInv, Refused, CalleeRecord
    <2> QED BY <2>1, <2>3, <2>5, QuietKeeps
  <1> QED BY <1>1, <1>2

(* An Invitation that sends a provisional: the first one is described, and *)
(* after it there is a dialog.                                             *)
LEMMA ProgressSentKeeps ==
    ASSUME TypeOK, NEW f \in Fork, ForkInv(f), ProgressIsSent(f)
    PROVE  ForkInv(f)'
  <1> DEFINE c == callee[f]
             n == Message("1xx", f, c.rseq, Described(f))
  <1>0. c \in CalleeRecord /\ callee \in [Fork -> CalleeRecord]
    BY TypeIs
  <1>1. CASE ~Ringing(f)
    <2>1. /\ callee'[f] = [c EXCEPT !.progress = "no", !.rseq = @ + 1,
                                    !.waitingForPrack = FALSE]
          /\ net' = net /\ early' = early
      BY <1>0, <1>1 DEF ProgressIsSent, Callee, CalleeOnly
    <2>2. callee'[f].pracked = c.pracked
      BY <1>0, <2>1 DEF CalleeRecord
    <2>3. QuietStep(f) /\ (AllPracked(f) => AllPracked(f)')
      BY <2>1, <2>2 DEF QuietStep, AllPracked
    <2>4. StateInv(callee'[f], Heard(f), Taken(f), AllPracked(f))
      BY <1>0, <1>1, <2>1 DEF ForkInv, StateInv, Ringing, CalleeRecord
    <2> QED BY <2>3, <2>4, QuietKeeps
  <1>2. CASE Ringing(f)
    <2>1. /\ callee'[f] = [c EXCEPT !.progress = "no", !.rseq = @ + 1,
                                !.signaling = SignalingAfter(f, Described(f)),
                                !.timers = {"prackWait", "rel1xx"}]
          /\ net' = net \cup {n} /\ early' = early
          /\ c.progress = "generating"
      BY <1>0, <1>2 DEF ProgressIsSent, Callee, CalleeOnly, Sends
    <2>2. /\ n.kind = "1xx" /\ n.fork = f /\ n.body = Described(f)
          /\ n.body = "none" <=> c.signaling # "none"
      BY DEF Message, Described
    <2>3. callee'[f].signaling # "none"
      BY <1>0, <2>1, <2>2, SignalingAfterIs DEF Described, Body, CalleeRecord
    <2>4. callee'[f].pracked = c.pracked
      BY <1>0, <2>1 DEF CalleeRecord
    <2>5. c.signaling = "none" =>
             /\ ~Heard(f) /\ c.waitingForPrack
             /\ c.accept # "generating" /\ c.prack # "applying"
      BY <1>0, <2>1 DEF ForkInv, StateInv, CalleeRecord
    <2>6. c.signaling # "none" => (AllPracked(f) => AllPracked(f)')
      BY <2>1, <2>2, <2>4 DEF AllPracked
    <2>7. AllPracked(f)
      BY <2>1 DEF ForkInv, StateInv
    <2>8. NetInv(f)'
      <3>1. \A rseq : Answers1xx(f, rseq) => Answers1xx(f, rseq)'
        BY <2>1 DEF Answers1xx
      <3>2. \A m, k \in net' :
              /\ m.kind = "1xx" /\ m.fork = f /\ m.body # "none"
              /\ k.kind = "1xx" /\ k.fork = f /\ k.body # "none"
              => m.rseq = k.rseq
        BY <2>1, <2>2, <2>5 DEF ForkInv, NetInv, Heard
      <3>3. \A k \in net' :
               k.kind = "1xx" /\ k.fork = f /\ k.body = "none"
                 => AllPracked(f)'
        BY <2>1, <2>2, <2>5, <2>6, <2>7 DEF Heard
      <3> QED BY <2>1, <2>2, <3>1, <3>2, <3>3 DEF ForkInv, NetInv
    <2>9. Heard(f)' /\ (Taken(f)' <=> Taken(f))
      BY <2>1, <2>2 DEF Heard, Taken
    <2>10. StateInv(callee'[f], TRUE, Taken(f), AllPracked(f)')
      BY <1>0, <1>2, <2>1, <2>3, <2>5, <2>6, <2>7
      DEF ForkInv, StateInv, Ringing, CalleeRecord
    <2> QED BY <2>8, <2>9, <2>10 DEF ForkInv, StateInv
  <1> QED BY <1>1, <1>2

LEMMA AcceptSentKeeps ==
    ASSUME TypeOK, NEW f \in Fork, ForkInv(f), AcceptIsSent(f)
    PROVE  ForkInv(f)'
  <1> DEFINE c == callee[f]
  <1>0. c \in CalleeRecord /\ callee \in [Fork -> CalleeRecord]
    BY TypeIs
  <1>1. AllPracked(f) /\ c.accept = "generating"
    BY DEF AcceptIsSent, ForkInv, StateInv
  <1>2. CASE ~Ringing(f)
    <2>1. /\ callee'[f] = [c EXCEPT !.accept = "no"]
          /\ net' = net /\ early' = early
      BY <1>0, <1>2 DEF AcceptIsSent, Callee, CalleeOnly
    <2>2. QuietStep(f) /\ AllPracked(f)'
      BY <1>0, <1>1, <2>1 DEF QuietStep, AllPracked, CalleeRecord
    <2>3. StateInv(callee'[f], Heard(f), Taken(f), TRUE)
      BY <1>0, <1>1, <2>1 DEF ForkInv, StateInv, CalleeRecord
    <2> QED BY <2>2, <2>3, QuietKeeps
  <1>3. CASE Ringing(f)
    <2>1. /\ callee'[f] = [c EXCEPT !.accept = "no", !.state = "Established",
                                !.signaling = SignalingAfter(f, Described(f))]
          /\ \E b : net' = net \cup {Message("2xx", f, 0, b)}
          /\ early' = early
      BY <1>0, <1>3 DEF AcceptIsSent, Callee, CalleeOnly, Sends
    <2>2. PICK b : net' = net \cup {Message("2xx", f, 0, b)}
      BY <2>1
    <2>3. /\ Message("2xx", f, 0, b).kind = "2xx"
          /\ Message("2xx", f, 0, b).fork = f
      BY DEF Message
    <2>4. \A m : m.kind \in {"1xx", "PRACK"} => (m \in net' <=> m \in net)
      BY <2>2, <2>3
    <2>5. callee'[f].pracked = c.pracked /\ callee'[f].signaling # "none"
      BY <1>0, <2>1, SignalingAfterIs DEF CalleeRecord, Described, Body
    <2>6. AllPracked(f)'
      BY <1>1, <2>4, <2>5 DEF AllPracked
    <2>7. \A rseq : Answers1xx(f, rseq) => Answers1xx(f, rseq)'
      BY <2>2 DEF Answers1xx
    <2>8. NetInv(f)'
      BY <2>1, <2>4, <2>6, <2>7 DEF ForkInv, NetInv
    <2>9. Taken(f)' /\ (Heard(f)' <=> Heard(f))
      BY <2>2, <2>3, <2>4 DEF Taken, Heard
    <2>10. StateInv(callee'[f], Heard(f), TRUE, TRUE)
      BY <1>0, <1>1, <2>1, <2>5 DEF ForkInv, StateInv, CalleeRecord
    <2> QED BY <2>6, <2>8, <2>9, <2>10 DEF ForkInv, StateInv
  <1> QED BY <1>2, <1>3

(* A PRACK is of the provisional that has the description, or of one that  *)
(* was sent when that had its PRACK.                                       *)
LEMMA PrackKeeps ==
    ASSUME TypeOK, NEW f \in Fork, ForkInv(f), PrackArrives(f)
    PROVE  ForkInv(f)'
  <1> DEFINE c == callee[f]
  <1>0. c \in CalleeRecord /\ callee \in [Fork -> CalleeRecord]
    BY TypeIs
  <1>1. PICK m \in net :
           /\ m.kind = "PRACK" /\ m.fork = f
           /\ LET taken == [c EXCEPT !.pracked = @ \cup {m.rseq},
                                     !.signaling = IF m.body = "answer"
                                                   THEN "Stable" ELSE @]
              IN  Callee(f, IF c.state = "Established" THEN taken
                            ELSE OnPrack(taken, m.body))
    BY DEF PrackArrives
  <1> DEFINE s == IF m.body = "answer" THEN "Stable" ELSE c.signaling
             taken == [c EXCEPT !.pracked = @ \cup {m.rseq}, !.signaling = s]
             d == IF c.state = "Established" THEN taken
                  ELSE OnPrack(taken, m.body)
  <1>2. Answers1xx(f, m.rseq) /\ Heard(f)
    BY <1>1 DEF ForkInv, NetInv, Answers1xx, Heard
  <1>3. c.signaling # "none" /\ s # "none" /\ s \in Signaling
    BY <1>0, <1>2 DEF ForkInv, StateInv, CalleeRecord, Signaling
  <1>4. callee'[f] = d /\ net' = net /\ early' = early
    BY <1>0, <1>1 DEF Callee, PrackArrives, CalleeOnly
  <1> HIDE DEF s
  <1>5. /\ taken.pracked = c.pracked \cup {m.rseq} /\ taken.signaling = s
        /\ taken.state = c.state /\ taken.progress = c.progress
        /\ taken.waitingForPrack = c.waitingForPrack
        /\ taken.accept = c.accept /\ taken.prack = c.prack
        /\ taken \in CalleeRecord
    BY <1>0, <1>3, TypeIs, ZenonT(60) DEF CalleeRecord, MessageRecord
  <1> HIDE DEF taken
  <1>6. /\ d.pracked = c.pracked \cup {m.rseq} /\ d.signaling = s
        /\ d.state = c.state /\ d.progress = c.progress
        /\ d.prack \in {c.prack, "applying"}
        /\ \/ d.accept = c.accept
           \/ c.accept = "waiting" /\ d.accept = "generating"
    <2>1. CASE c.state = "Established"
      BY <1>5, <2>1
    <2>2. ASSUME NEW e \in CalleeRecord
          PROVE  /\ OnPrack(e, m.body).pracked = e.pracked
                 /\ OnPrack(e, m.body).signaling = e.signaling
                 /\ OnPrack(e, m.body).state = e.state
                 /\ OnPrack(e, m.body).progress = e.progress
                 /\ OnPrack(e, m.body).prack \in {e.prack, "applying"}
                 /\ \/ OnPrack(e, m.body).accept = e.accept
                    \/ /\ e.accept = "waiting"
                       /\ OnPrack(e, m.body).accept = "generating"
      BY DEF OnPrack, PrackArrived, CalleeRecord
    <2> QED BY <1>5, <2>1, <2>2
  <1> HIDE DEF d
  <1>7. AllPracked(f)'
    <2>1. PICK n \in net : n.kind = "1xx" /\ n.fork = f /\ n.rseq = m.rseq
      BY <1>2 DEF Answers1xx
    <2>2. CASE n.body = "none"
      <3>1. AllPracked(f)
        BY <2>1, <2>2 DEF ForkInv, NetInv
      <3> QED BY <1>4, <1>6, <3>1 DEF AllPracked
    <2>3. CASE n.body # "none"
      <3>1. \A k \in net : k.kind = "1xx" /\ k.fork = f /\ k.body # "none"
                              => k.rseq = m.rseq
        BY <2>1, <2>3 DEF ForkInv, NetInv
      <3> QED BY <1>4, <1>6, <3>1 DEF AllPracked
    <2> QED BY <2>2, <2>3
  <1>8. QuietStep(f)
    BY <1>4, <1>6 DEF QuietStep
  <1>9. StateInv(callee'[f], Heard(f), Taken(f), TRUE)
    BY <1>3, <1>4, <1>6 DEF ForkInv, StateInv
  <1> QED BY <1>7, <1>8, <1>9, QuietKeeps

LEMMA CalleeKeeps ==
    ASSUME TypeOK, NEW f \in Fork, ForkInv(f), CalleeNext(f)
    PROVE  ForkInv(f)'
  <1> DEFINE c == callee[f]
  <1>0. c \in CalleeRecord /\ callee \in [Fork -> CalleeRecord]
    BY TypeIs
  <1>1. CASE CalleeProgresses(f)
    <2>1. /\ callee'[f] = [c EXCEPT !.waitingForPrack = TRUE, !.sent = @ + 1,
                                    !.progress = "generating"]
          /\ net' = net /\ early' = early
      BY <1>0, <1>1 DEF CalleeProgresses, Callee, CalleeOnly
    <2>2. QuietStep(f) /\ (AllPracked(f) => AllPracked(f)')
      BY <1>0, <2>1 DEF QuietStep, AllPracked, CalleeRecord
    <2>3. StateInv(callee'[f], Heard(f), Taken(f), AllPracked(f))
      BY <1>0, <1>1, <2>1 DEF CalleeProgresses, ForkInv, StateInv, CalleeRecord
    <2> QED BY <2>2, <2>3, QuietKeeps
  <1>2. CASE CalleeAccepts(f)
    <2>1. /\ callee'[f] = [c EXCEPT !.state = "Establishing",
                    !.accept = IF c.waitingForPrack THEN "waiting"
                               ELSE "generating"]
          /\ net' = net /\ early' = early
      BY <1>0, <1>2 DEF CalleeAccepts, Callee, CalleeOnly
    <2>2. QuietStep(f) /\ (AllPracked(f) => AllPracked(f)')
      BY <1>0, <2>1 DEF QuietStep, AllPracked, CalleeRecord
    <2>3. StateInv(callee'[f], Heard(f), Taken(f), AllPracked(f))
      BY <1>0, <1>2, <2>1 DEF CalleeAccepts, ForkInv, StateInv, CalleeRecord
    <2> QED BY <2>2, <2>3, QuietKeeps
  <1>3. CASE PrackIsApplied(f)
    <2>1. /\ callee'[f] = PrackArrived([c EXCEPT !.prack = "none"])
          /\ net' = net /\ early' = early
      BY <1>0, <1>3 DEF PrackIsApplied, Callee, CalleeOnly
    <2>2. QuietStep(f) /\ (AllPracked(f) => AllPracked(f)')
      BY <1>0, <2>1 DEF QuietStep, AllPracked, PrackArrived, CalleeRecord
    <2>3. StateInv(callee'[f], Heard(f), Taken(f), AllPracked(f))
      BY <1>0, <1>3, <2>1 DEF PrackIsApplied, PrackArrived, ForkInv, StateInv,
         CalleeRecord
    <2> QED BY <2>2, <2>3, QuietKeeps
  <1>4. CASE ProgressFails(f)
    <2> DEFINE d == [c EXCEPT !.progress = "no", !.waitingForPrack = FALSE]
    <2>1. HandleResponseError(f, d) /\ UNCHANGED early
      BY <1>4 DEF ProgressFails, CalleeOnly
    <2>2. d \in CalleeRecord /\ d.pracked = c.pracked
      BY <1>0 DEF CalleeRecord
    <2>3. /\ StateInv([d EXCEPT !.state = "Terminated"], Heard(f), FALSE,
                       AllPracked(f))
          /\ ~Ringing(f) => StateInv(d, Heard(f), Taken(f), AllPracked(f))
      BY <1>0, <1>4 DEF ProgressFails, Ringing, ForkInv, StateInv, CalleeRecord
    <2> HIDE DEF d
    <2> QED BY <2>1, <2>2, <2>3, ErrorKeeps
  <1>5. CASE AcceptFails(f)
    <2> DEFINE d == [c EXCEPT !.accept = "no"]
    <2>1. HandleResponseError(f, d) /\ UNCHANGED early
      BY <1>5 DEF AcceptFails, CalleeOnly
    <2>2. d \in CalleeRecord /\ d.pracked = c.pracked
      BY <1>0 DEF CalleeRecord
    <2>3. /\ StateInv([d EXCEPT !.state = "Terminated"], Heard(f), FALSE,
                       AllPracked(f))
          /\ ~Ringing(f) => StateInv(d, Heard(f), Taken(f), AllPracked(f))
      BY <1>0 DEF Ringing, ForkInv, StateInv, CalleeRecord
    <2> HIDE DEF d
    <2> QED BY <2>1, <2>2, <2>3, ErrorKeeps
  <1>6. CASE PrackFails(f)
    <2> DEFINE d == [c EXCEPT !.prack = "none"]
    <2>1. HandleResponseError(f, d) /\ UNCHANGED early
      BY <1>6 DEF PrackFails, CalleeOnly
    <2>2. d \in CalleeRecord /\ d.pracked = c.pracked
      BY <1>0 DEF CalleeRecord
    <2>3. /\ StateInv([d EXCEPT !.state = "Terminated"], Heard(f), FALSE,
                       AllPracked(f))
          /\ ~Ringing(f) => StateInv(d, Heard(f), Taken(f), AllPracked(f))
      BY <1>0 DEF Ringing, ForkInv, StateInv, CalleeRecord
    <2> HIDE DEF d
    <2> QED BY <2>1, <2>2, <2>3, ErrorKeeps
  <1>7. CASE PrackWaitTimeout(f) /\ c.waitingForPrack
    <2> DEFINE d == [c EXCEPT !.timers = {}, !.waitingForPrack = FALSE]
    <2>1. HandleResponseError(f, d) /\ UNCHANGED early
      BY <1>7 DEF PrackWaitTimeout, CalleeOnly
    <2>2. d \in CalleeRecord /\ d.pracked = c.pracked
      BY <1>0 DEF CalleeRecord
    <2>3. /\ StateInv([d EXCEPT !.state = "Terminated"], Heard(f), FALSE,
                       AllPracked(f))
          /\ ~Ringing(f) => StateInv(d, Heard(f), Taken(f), AllPracked(f))
      BY <1>0, <1>7 DEF PrackWaitTimeout, Ringing, ForkInv, StateInv,
         CalleeRecord
    <2> HIDE DEF d
    <2> QED BY <2>1, <2>2, <2>3, ErrorKeeps
  <1>8. CASE PrackWaitTimeout(f) /\ ~c.waitingForPrack
    <2>1. /\ callee'[f] = [c EXCEPT !.timers = @ \ {"prackWait"}]
          /\ net' = net /\ early' = early
      BY <1>0, <1>8 DEF PrackWaitTimeout, Callee, CalleeOnly
    <2>2. QuietStep(f) /\ (AllPracked(f) => AllPracked(f)')
      BY <1>0, <2>1 DEF QuietStep, AllPracked, CalleeRecord
    <2>3. StateInv(callee'[f], Heard(f), Taken(f), AllPracked(f))
      BY <1>0, <2>1 DEF ForkInv, StateInv, CalleeRecord
    <2> QED BY <2>2, <2>3, QuietKeeps
  <1>9. CASE Rel1xxRetransmissionFails(f)
    <2>1. /\ callee'[f] = [c EXCEPT !.timers = @ \ {"rel1xx"},
                                    !.waitingForPrack = FALSE]
          /\ net' = net /\ early' = early
      BY <1>0, <1>9 DEF Rel1xxRetransmissionFails, Callee, CalleeOnly
    <2>2. QuietStep(f) /\ (AllPracked(f) => AllPracked(f)')
      BY <1>0, <2>1 DEF QuietStep, AllPracked, CalleeRecord
    <2>3. StateInv(callee'[f], Heard(f), Taken(f), AllPracked(f))
      BY <1>0, <1>9, <2>1 DEF Rel1xxRetransmissionFails, Ringing, ForkInv,
         StateInv, CalleeRecord
    <2> QED BY <2>2, <2>3, QuietKeeps
  <1>10. CASE CalleeRejects(f) \/ CancelArrives(f)
    <2>1. HandleResponseError(f, c) /\ UNCHANGED early
      BY <1>10 DEF CalleeRejects, CancelArrives, CalleeOnly
    <2>2. /\ StateInv([c EXCEPT !.state = "Terminated"], Heard(f), FALSE,
                       AllPracked(f))
          /\ ~Ringing(f) => StateInv(c, Heard(f), Taken(f), AllPracked(f))
      BY <1>0 DEF Ringing, ForkInv, StateInv, CalleeRecord
    <2> QED BY <1>0, <2>1, <2>2, ErrorKeeps
  <1> QED
    BY <1>1, <1>2, <1>3, <1>4, <1>5, <1>6, <1>7, <1>8, <1>9, <1>10,
       ProgressSentKeeps, AcceptSentKeeps, PrackKeeps
    DEF CalleeNext, ProgressSettles, AcceptSettles, PrackSettles

(* An Invitation changes its own record and sends messages of its own.     *)
LEMMA CalleeOwn ==
    ASSUME NEW f \in Fork, CalleeNext(f)
    PROVE  /\ UNCHANGED <<invite, caller, early>>
           /\ \E c : Callee(f, c)
           /\ \/ net' = net
              \/ \E k \in {"1xx", "2xx", "refusal"} : \E n, b :
                    net' = net \cup {Message(k, f, n, b)}
  <1> USE DEF CalleeOnly, Sends
  <1>1. CASE CalleeProgresses(f) \/ CalleeAccepts(f) \/ PrackIsApplied(f)
    BY <1>1 DEF CalleeProgresses, CalleeAccepts, PrackIsApplied
  <1>2. CASE ProgressIsSent(f) \/ AcceptIsSent(f)
    BY <1>2 DEF ProgressIsSent, AcceptIsSent
  <1>3. CASE ProgressFails(f) \/ AcceptFails(f) \/ PrackFails(f)
    BY <1>3 DEF ProgressFails, AcceptFails, PrackFails, HandleResponseError
  <1>4. CASE PrackArrives(f)
    BY <1>4 DEF PrackArrives
  <1>5. CASE PrackWaitTimeout(f) \/ Rel1xxRetransmissionFails(f)
    BY <1>5 DEF PrackWaitTimeout, Rel1xxRetransmissionFails,
       HandleResponseError
  <1>6. CASE CalleeRejects(f) \/ CancelArrives(f)
    BY <1>6 DEF CalleeRejects, CancelArrives, HandleResponseError
  <1> QED
    BY <1>1, <1>2, <1>3, <1>4, <1>5, <1>6
    DEF CalleeNext, ProgressSettles, AcceptSettles, PrackSettles

(* What the caller sends: ACK and BYE, and PRACKs of provisionals that it  *)
(* got; the sequence number of a dialog is that of one.                    *)
CallerSends ==
    /\ net \subseteq net' /\ callee' = callee
    /\ \A m \in net' \ net :
          \/ m.kind \in {"ACK", "BYE"}
          \/ m.kind = "PRACK" /\ Answers1xx(m.fork, m.rseq)
    /\ \A f \in Fork :
          \/ early'[f].rseq = early[f].rseq
          \/ Answers1xx(f, early'[f].rseq)

LEMMA CallerSendsThose ==
    ASSUME TypeOK, \A f \in Fork : NetInv(f), CallerNext
    PROVE  CallerSends
  <1>0. /\ early \in [Fork -> EarlyRecord] /\ callee' = callee
        /\ \A m \in net : /\ m.fork \in Fork /\ m.rseq \in Nat
                           /\ m.body \in Body
    BY TypeIs DEF CallerNext, MessageRecord, ProvisionalArrives, EarlyAnswered,
       EarlyAnswerFails, EarlyMediaApplied, EarlyMediaFails, AcceptArrives,
       AcceptIsApplied, AcceptIsNotApplied, Cancels, RefusalArrives, CallerOnly
  <1>a. ASSUME NEW f, UNCHANGED net \/ Acks(f) \/ AckAndBye(f)
        PROVE  /\ net \subseteq net'
               /\ \A m \in net' \ net : m.kind \in {"ACK", "BYE"}
    BY <1>a DEF Acks, AckAndBye, Sends, Message
  <1>b. ASSUME NEW f, NEW n, NEW b, Answers1xx(f, n) \/ n = 0, Prack(f, n, b)
        PROVE  /\ net \subseteq net'
               /\ \A m \in net' \ net :
                     m.kind = "PRACK" /\ Answers1xx(m.fork, m.rseq)
    BY <1>b DEF Prack, Sends, Message
  <1>1. CASE ProvisionalArrives
    <2>1. PICK m \in net :
             LET d == SignalingTransition(
                         [Known(m.fork) EXCEPT !.rseq =
                             IF m.rseq = 0 THEN @ ELSE m.rseq], m.body)
                 with == [early EXCEPT ![m.fork] = d]
             IN
             /\ m.kind = "1xx"
             /\ \/ early' = with
                \/ early' = DisposeEarlyMedia(with)
                \/ early' = [early EXCEPT ![m.fork] =
                               [d EXCEPT !.handler = "answering",
                                         !.answers = @ + 1]]
             /\ UNCHANGED net \/ Prack(m.fork, m.rseq, "none")
      BY <1>1 DEF ProvisionalArrives, OnProgress
    <2> DEFINE f == m.fork
               k == [Known(f) EXCEPT !.rseq = IF m.rseq = 0 THEN @ ELSE m.rseq]
               d == SignalingTransition(k, m.body)
               with == [early EXCEPT ![f] = d]
    <2>2. /\ k \in EarlyRecord
          /\ k.rseq = early[f].rseq \/ k.rseq = m.rseq
      BY <1>0, KnownIs DEF EarlyRecord
    <2> HIDE DEF k
    <2>3. d \in EarlyRecord /\ d.rseq = k.rseq
      BY <1>0, <2>2, TransitionIs
    <2>4. with \in [Fork -> EarlyRecord]
      BY <1>0, <2>3
    <2>5. \/ early' = with
          \/ early' = DisposeEarlyMedia(with)
          \/ early' = [early EXCEPT ![f] =
                         [d EXCEPT !.handler = "answering", !.answers = @ + 1]]
      BY <2>1 DEF k
    <2> HIDE DEF d
    <2>6. \A g \in Fork : early'[g].rseq = with[g].rseq
      <3>1. CASE early' = with
        BY <3>1
      <3>2. CASE early' = DisposeEarlyMedia(with)
        BY <2>4, <3>2, DisposeIs
      <3>3. CASE early' = [early EXCEPT ![f] =
                         [d EXCEPT !.handler = "answering", !.answers = @ + 1]]
        BY <1>0, <2>3, <3>3 DEF EarlyRecord
      <3> QED BY <2>5, <3>1, <3>2, <3>3
    <2>7. Answers1xx(f, m.rseq)
      BY <2>1 DEF Answers1xx
    <2>8. \A g \in Fork : \/ early'[g].rseq = early[g].rseq
                          \/ Answers1xx(g, early'[g].rseq)
      BY <1>0, <2>2, <2>3, <2>6, <2>7
    <2>9. /\ net \subseteq net'
          /\ \A x \in net' \ net :
                x.kind = "PRACK" /\ Answers1xx(x.fork, x.rseq)
      BY <1>b, <2>1, <2>7
    <2> QED BY <1>0, <2>8, <2>9 DEF CallerSends
  <1>2. ASSUME NEW f \in Fork, EarlyAnswered(f)
        PROVE  CallerSends
    <2>1. Prack(f, early[f].rseq, "answer")
      BY <1>2 DEF EarlyAnswered
    <2>2. Answers1xx(f, early[f].rseq) \/ early[f].rseq = 0
      BY DEF NetInv
    <2>3. \A g \in Fork : early'[g].rseq = early[g].rseq
      <3>1. early' = [early EXCEPT ![f] =
                        [early[f] EXCEPT !.handler = "open",
                             !.signaling = IF @ = "Closed" THEN @
                                           ELSE "Stable"]]
        BY <1>0, <1>2 DEF EarlyAnswered
      <3> QED BY <1>0, <3>1 DEF EarlyRecord
    <2> QED BY <1>0, <1>b, <2>1, <2>2, <2>3 DEF CallerSends
  <1>3. CASE AcceptArrives
    <2>1. PICK m \in net :
             LET d == SignalingTransition(Known(m.fork), m.body)
                 known == [early EXCEPT ![m.fork] = d]
             IN
             /\ \/ early' = known
                \/ early' = DisposeEarlyMedia(known)
                \/ early' = [known EXCEPT ![m.fork].answers = @ + 1]
                \/ early' = DisposeEarlyMedia(
                              [known EXCEPT ![m.fork].handler = "adopted"])
             /\ UNCHANGED net \/ Acks(m.fork) \/ AckAndBye(m.fork)
      BY <1>3 DEF AcceptArrives, OnAcceptStable
    <2> DEFINE d == SignalingTransition(Known(m.fork), m.body)
               known == [early EXCEPT ![m.fork] = d]
               adopted == [known EXCEPT ![m.fork].handler = "adopted"]
    <2>2. d \in EarlyRecord /\ d.rseq = early[m.fork].rseq
      BY <1>0, KnownIs, TransitionIs
    <2> HIDE DEF d
    <2>3. /\ known \in [Fork -> EarlyRecord]
          /\ \A g \in Fork : known[g].rseq = early[g].rseq
      BY <1>0, <2>2
    <2>4. /\ adopted \in [Fork -> EarlyRecord]
          /\ \A g \in Fork : adopted[g].rseq = known[g].rseq
      BY <1>0, <2>3 DEF EarlyRecord
    <2>5. \/ early' = known \/ early' = DisposeEarlyMedia(known)
          \/ early' = [known EXCEPT ![m.fork].answers = @ + 1]
          \/ early' = DisposeEarlyMedia(adopted)
      BY <2>1 DEF d
    <2> HIDE DEF known, adopted
    <2>6. \A g \in Fork : early'[g].rseq = early[g].rseq
      BY <1>0, <2>3, <2>4, <2>5, DisposeIs DEF EarlyRecord
    <2> QED BY <1>0, <1>a, <2>1, <2>6 DEF CallerSends
  <1>4. ASSUME NEW f \in Fork, EarlyAnswerFails(f)
        PROVE  CallerSends
    <2>1. /\ [early EXCEPT ![f].handler = "closed"] \in [Fork -> EarlyRecord]
          /\ \A g \in Fork :
                [early EXCEPT ![f].handler = "closed"][g].rseq = early[g].rseq
      BY <1>0 DEF EarlyRecord
    <2> QED BY <1>0, <1>4, <2>1, DisposeIs DEF EarlyAnswerFails, CallerSends
  <1>5. CASE RefusalArrives
    <2> DEFINE closed == [f \in Fork |-> [early[f] EXCEPT
                             !.signaling = IF @ = "none" THEN @ ELSE "Closed"]]
    <2>1. /\ closed \in [Fork -> EarlyRecord]
          /\ \A g \in Fork : closed[g].rseq = early[g].rseq
      BY <1>0 DEF EarlyRecord, Signaling
    <2> QED BY <1>0, <1>5, <2>1, DisposeIs DEF RefusalArrives, CallerSends
  <1>6. CASE \/ EarlyMediaApplied \/ EarlyMediaFails \/ Cancels
             \/ AcceptIsApplied \/ AcceptIsNotApplied
    <2>1. \A g \in Fork : early'[g].rseq = early[g].rseq
      BY <1>0, <1>6, DisposeIs DEF EarlyMediaApplied, EarlyMediaFails, Cancels,
         AcceptIsApplied, AcceptIsNotApplied
    <2>2. UNCHANGED net \/ Acks(caller.dialog) \/ AckAndBye(caller.dialog)
      BY <1>6 DEF EarlyMediaApplied, EarlyMediaFails, Cancels,
         AcceptIsApplied, AcceptIsNotApplied
    <2> QED BY <1>0, <1>a, <2>1, <2>2 DEF CallerSends
  <1> QED
    BY <1>1, <1>2, <1>3, <1>4, <1>5, <1>6 DEF CallerNext
-----------------------------------------------------------------------------
IInv ==
    /\ TypeOK
    /\ NoEarlyHandlerLeft
    /\ ApplyingInDialog
    /\ \A f \in Fork : ForkInv(f)

LEMMA InitIInv == Init => IInv
  <1> SUFFICES ASSUME Init PROVE IInv
    OBVIOUS
  <1>1. NoEarlyHandlerLeft /\ ApplyingInDialog
    BY DEF Init, NoEarlyHandlerLeft, ApplyingInDialog, AcceptApplies
  <1>2. ASSUME NEW f \in Fork PROVE ForkInv(f)
    <2>1. /\ callee[f].timers = {} /\ callee[f].progress = "no"
          /\ callee[f].accept = "no" /\ callee[f].prack = "none"
          /\ callee[f].state = "Initial"
      BY DEF Init
    <2> QED BY <2>1 DEF Init, ForkInv, NetInv,
                       StateInv, Heard, Taken, AllPracked
  <1> QED BY <1>1, <1>2, InitType DEF IInv

LEMMA StepIInv == IInv /\ [Next]_vars => IInv'
  <1> SUFFICES ASSUME IInv, [Next]_vars PROVE IInv'
    OBVIOUS
  <1>1. CASE UNCHANGED vars
    BY <1>1 DEF vars, IInv, TypeOK, NoEarlyHandlerLeft, ApplyingInDialog,
       AcceptApplies, ForkInv, NetInv, StateInv, Heard, Taken, AllPracked,
       Answers1xx
  <1>2. CASE CallerNext
    <2>1. CallerInv' /\ ApplyingInDialog' /\ CallerSends
      BY <1>2, CallerKeeps, ApplyingKeeps, CallerSendsThose DEF IInv, ForkInv
    <2>2. invite' = invite /\ callee' = callee
      BY <1>2 DEF CallerNext, ProvisionalArrives, EarlyAnswered,
         EarlyAnswerFails, EarlyMediaApplied, EarlyMediaFails, AcceptArrives,
         AcceptIsApplied, AcceptIsNotApplied, Cancels, RefusalArrives,
         CallerOnly
    <2>3. ASSUME NEW f \in Fork PROVE ForkInv(f)'
      <3>1. early'[f].rseq # 0 => Answers1xx(f, early'[f].rseq)
        BY <2>1 DEF CallerSends, IInv, ForkInv, NetInv
      <3> QED BY <2>1, <3>1, OthersKeep DEF CallerSends, IInv
    <2>4. TypeOK'
      BY <2>1, <2>2, TypeIs DEF IInv, CallerInv, CallerTyped, TypeOK,
         CallerRecord, EarlyRecord, MessageRecord
    <2> QED BY <2>1, <2>3, <2>4 DEF IInv, CallerInv
  <1>3. ASSUME NEW f \in Fork, CalleeNext(f) PROVE IInv'
    <2>1. /\ UNCHANGED <<invite, caller, early>>
          /\ \E c : Callee(f, c)
          /\ \/ net' = net
             \/ \E k, n, b : net' = net \cup {Message(k, f, n, b)}
      BY <1>3, CalleeOwn
    <2>2. TypeOK'
      BY <1>3, <2>1, CalleeType, TypeIs DEF IInv, TypeOK, CalleeRecord,
         MessageRecord
    <2>3. ASSUME NEW g \in Fork PROVE ForkInv(g)'
      <3>1. CASE g = f
        BY <1>3, <3>1, CalleeKeeps DEF IInv
      <3>2. CASE g # f
        <4>1. callee'[g] = callee[g]
          BY <2>1, <3>2, TypeIs DEF IInv, Callee
        <4>2. net \subseteq net' /\ \A m \in net' \ net : m.fork # g
          BY <2>1, <3>2 DEF Message
        <4>3. early'[g].rseq # 0 => Answers1xx(g, early'[g].rseq)
          BY <2>1 DEF IInv, ForkInv, NetInv
        <4> QED BY <4>1, <4>2, <4>3, OthersKeep DEF IInv
      <3> QED BY <3>1, <3>2
    <2> QED
      BY <2>1, <2>2, <2>3
      DEF IInv, NoEarlyHandlerLeft, ApplyingInDialog, AcceptApplies
  <1> QED
    BY <1>1, <1>2, <1>3 DEF Next

LEMMA Invariance == Spec => []IInv
  BY InitIInv, StepIInv, PTL DEF Spec

(* However PRACKs, provisionals, promises and timers interleave with an    *)
(* accept(), at any fork, no 2xx is sent over a described provisional that *)
(* has no PRACK (invitation.ts:583-589, waitForArrivalOfPrack).            *)
THEOREM PrackIsWaitedFor == Spec => []AcceptWaitsForPrack
  <1>1. IInv => AcceptWaitsForPrack
    <2> SUFFICES ASSUME IInv, NEW m \in net, NEW n \in net,
                        m.kind = "2xx", n.kind = "1xx", m.fork = n.fork,
                        n.body # "none"
                 PROVE  n.rseq \in callee[m.fork].pracked
      BY DEF AcceptWaitsForPrack
    <2>1. m.fork \in Fork
      BY TypeIs DEF IInv, MessageRecord
    <2>2. Taken(m.fork) /\ ForkInv(m.fork)
      BY <2>1 DEF IInv, Taken
    <2>3. AllPracked(m.fork)
      BY <2>2 DEF ForkInv, StateInv
    <2> QED BY <2>3 DEF AllPracked
  <1> QED BY <1>1, Invariance, PTL

(* Once the call is up or over, every handler made for an early dialog is  *)
(* closed or is the session's (inviter.ts:679-683, disposeEarlyMedia).     *)
THEOREM EarlyHandlersAreClosed == Spec => []NoEarlyHandlerLeft
  BY Invariance, PTL DEF IInv

(* The state keeps its types.                                              *)
THEOREM TypeCorrect == Spec => []TypeOK
  BY Invariance, PTL DEF IInv
-----------------------------------------------------------------------------
(* One answer to an offer.                                                 *)

Offered(f) == \E n \in net : n.kind = "1xx" /\ n.fork = f /\ n.body # "none"

Pracked(f) == \E m \in net : m.kind = "PRACK" /\ m.fork = f

(* The first provisional of a fork has a description, and the fork has a   *)
(* PRACK only if the caller sent one.                                      *)
CalleeSide(f) ==
    /\ callee[f].pracked # {} => Pracked(f)
    /\ Heard(f) => Offered(f)
    /\ callee[f].signaling # "none" =>
          Offered(f) \/ callee[f].state = "Established"

(* The caller sends no PRACK to a fork before it has answered its offer,   *)
(* and answers an offer of a provisional, which has a sequence number, or  *)
(* of the 2xx that makes the session's dialog.                             *)
CallerSide(f, d) ==
    /\ d.signaling \notin IF invite.offer THEN {"Initial", "HaveRemoteOffer"}
                          ELSE {"HaveLocalOffer"}
    /\ ~ invite.offer /\ Pracked(f) => d.signaling \in {"Stable", "Closed"}
    /\ d.answers <= 1
    /\ d.answers # 0 => /\ d.signaling \notin {"none", "Initial"}
                        /\ d.rseq # 0 \/ caller.dialog # None

AnswerInv ==
    /\ caller.dialog # None => caller.transaction = "accepted"
    /\ \A f \in Fork : CalleeSide(f) /\ CallerSide(f, early[f])

LEMMA InitAnswerInv == Init => AnswerInv
  BY DEF Init, AnswerInv, CalleeSide, CallerSide, Heard, Offered, Pracked

(* A provisional without description, or a 2xx after a provisional, is     *)
(* sent when the caller has sent a PRACK.                                  *)
LEMMA LaterMeansPracked ==
    ASSUME NEW f \in Fork, ForkInv(f), CalleeSide(f), Heard(f),
           Taken(f) \/ \E n \in net :
                          n.kind = "1xx" /\ n.fork = f /\ n.body = "none"
    PROVE  Pracked(f)
  <1>1. AllPracked(f)
    BY DEF ForkInv, NetInv, StateInv
  <1>2. PICK n \in net : n.kind = "1xx" /\ n.fork = f /\ n.body # "none"
    BY DEF CalleeSide, Offered
  <1>3. n.rseq \in callee[f].pracked
    BY <1>1, <1>2 DEF AllPracked
  <1> QED BY <1>3 DEF CalleeSide

LEMMA CalleeSideKeeps ==
    ASSUME NEW f \in Fork, CalleeSide(f),
           Pracked(f) => Pracked(f)', Offered(f) => Offered(f)',
           callee'[f].pracked = callee[f].pracked,
           \/ callee'[f].signaling = callee[f].signaling
           \/ callee'[f].state = "Established" \/ Offered(f)',
           callee[f].state = "Established" => callee'[f].state = "Established",
           Heard(f)' => Heard(f) \/ Offered(f)'
    PROVE  CalleeSide(f)'
  BY Zenon DEF CalleeSide

LEMMA CalleeAnswerInv ==
    ASSUME IInv, AnswerInv, NEW f \in Fork, CalleeNext(f)
    PROVE  AnswerInv'
  <1> DEFINE c == callee[f]
  <1>1. /\ UNCHANGED <<invite, caller, early>>
        /\ \E x : Callee(f, x)
        /\ \/ net' = net
           \/ \E k \in {"1xx", "2xx", "refusal"} : \E n, b :
                 net' = net \cup {Message(k, f, n, b)}
    BY CalleeOwn
  <1>2. c \in CalleeRecord /\ callee \in [Fork -> CalleeRecord]
    BY TypeIs DEF IInv
  <1>3. ASSUME NEW g \in Fork
        PROVE  /\ Pracked(g)' <=> Pracked(g)
               /\ Offered(g) => Offered(g)'
    BY <1>1 DEF Pracked, Offered, Message
  <1>4. ASSUME NEW g \in Fork, g # f PROVE CalleeSide(g)'
    <2>1. callee'[g] = callee[g]
      BY <1>1, <1>2, <1>4 DEF Callee
    <2>2. Heard(g)' => Heard(g)
      BY <1>1, <1>4 DEF Heard, Message
    <2> QED BY <1>3, <2>1, <2>2, CalleeSideKeeps DEF AnswerInv
  <1>5. ASSUME ProgressIsSent(f) PROVE CalleeSide(f)'
    <2>1. CASE ~Ringing(f)
      <3>1. /\ net' = net
            /\ callee'[f] = [c EXCEPT !.progress = "no", !.rseq = @ + 1,
                                      !.waitingForPrack = FALSE]
        BY <1>2, <1>5, <2>1 DEF ProgressIsSent, Callee
      <3>2. /\ callee'[f].pracked = c.pracked
            /\ callee'[f].signaling = c.signaling /\ callee'[f].state = c.state
        BY <1>2, <3>1 DEF CalleeRecord
      <3>3. Heard(f)' => Heard(f)
        BY <3>1 DEF Heard
      <3> QED BY <1>3, <3>2, <3>3, CalleeSideKeeps DEF AnswerInv
    <2>2. CASE Ringing(f)
      <3> DEFINE b == Described(f)
      <3>1. /\ net' = net \cup {Message("1xx", f, c.rseq, b)}
            /\ callee'[f] = [c EXCEPT !.progress = "no", !.rseq = @ + 1,
                                      !.signaling = SignalingAfter(f, b),
                                      !.timers = {"prackWait", "rel1xx"}]
        BY <1>2, <1>5, <2>2 DEF ProgressIsSent, Callee, Sends
      <3>2. callee'[f].pracked = c.pracked /\ callee'[f].state = c.state
        BY <1>2, <3>1 DEF CalleeRecord
      <3>3. Offered(f)'
        <4>1. CASE c.signaling = "none"
          <5>1. /\ Message("1xx", f, c.rseq, b).kind = "1xx"
                /\ Message("1xx", f, c.rseq, b).fork = f
                /\ Message("1xx", f, c.rseq, b).body # "none"
            BY <4>1 DEF Message, Described
          <5> QED BY <3>1, <5>1 DEF Offered
        <4>2. CASE c.signaling # "none"
          <5>1. Offered(f)
            BY <2>2, <4>2 DEF AnswerInv, CalleeSide, Ringing
          <5> QED BY <1>3, <5>1
        <4> QED BY <4>1, <4>2
      <3> QED BY <1>3, <3>2, <3>3, CalleeSideKeeps DEF AnswerInv
    <2> QED BY <2>1, <2>2
  <1>6. ASSUME AcceptIsSent(f) PROVE CalleeSide(f)'
    <2>1. \/ callee'[f] = [c EXCEPT !.accept = "no"]
          \/ callee'[f] = [c EXCEPT !.accept = "no", !.state = "Established",
                                !.signaling = SignalingAfter(f, Described(f))]
      BY <1>2, <1>6 DEF AcceptIsSent, Callee
    <2>2. /\ callee'[f].pracked = c.pracked
          /\ \/ callee'[f].state = "Established"
             \/ /\ callee'[f].signaling = c.signaling
                /\ callee'[f].state = c.state
      BY <1>2, <2>1 DEF CalleeRecord
    <2>3. Heard(f)' => Heard(f)
      BY <1>6 DEF AcceptIsSent, Heard, Sends, Message
    <2> QED BY <1>3, <2>2, <2>3, CalleeSideKeeps DEF AnswerInv
  <1>7. ASSUME PrackArrives(f) PROVE CalleeSide(f)'
    <2>1. PICK m \in net : m.kind = "PRACK" /\ m.fork = f
      BY <1>7 DEF PrackArrives
    <2>2. Pracked(f) /\ net' = net
      BY <1>7, <2>1 DEF Pracked, PrackArrives
    <2>3. Answers1xx(f, m.rseq)
      BY <2>1 DEF IInv, ForkInv, NetInv
    <2>4. Heard(f)
      BY <2>3 DEF Answers1xx, Heard
    <2>5. Offered(f)
      BY <2>4 DEF AnswerInv, CalleeSide
    <2>6. Pracked(f)' /\ Offered(f)'
      BY <1>3, <2>2, <2>5
    <2> QED BY <2>6 DEF CalleeSide
  <1> DEFINE Same(x) == /\ x.pracked = c.pracked
                        /\ x.signaling = c.signaling
                        /\ c.state = "Established" => x.state = "Established"
  <1>8. ASSUME \/ CalleeProgresses(f) \/ ProgressFails(f) \/ CalleeAccepts(f)
               \/ AcceptFails(f) \/ PrackSettles(f) \/ PrackWaitTimeout(f)
               \/ Rel1xxRetransmissionFails(f) \/ CalleeRejects(f)
               \/ CancelArrives(f)
        PROVE  Same(callee'[f]) /\ (Heard(f)' => Heard(f))
    <2>1. ASSUME NEW x \in CalleeRecord, Same(x), HandleResponseError(f, x)
          PROVE  Same(callee'[f]) /\ (Heard(f)' => Heard(f))
      <3>1. Heard(f)' => Heard(f)
        BY <2>1 DEF HandleResponseError, Heard, Sends, Message
      <3>2. callee'[f] = x \/ (Ringing(f) /\ callee'[f] = Refused(x))
        BY <1>2, <2>1 DEF HandleResponseError, Callee, Ringing
      <3>3. Ringing(f) => c.state # "Established"
        BY DEF Ringing
      <3>4. /\ Refused(x).pracked = x.pracked
            /\ Refused(x).signaling = x.signaling
        BY <2>1 DEF Refused, CalleeRecord
      <3> QED BY <2>1, <3>1, <3>2, <3>3, <3>4
    <2>2. CASE CalleeProgresses(f) \/ CalleeAccepts(f)
      <3>1. /\ net' = net
            /\ \/ callee'[f] = [c EXCEPT !.waitingForPrack = TRUE,
                                         !.sent = @ + 1,
                                         !.progress = "generating"]
               \/ /\ c.state = "Initial"
                  /\ \E a : callee'[f] = [c EXCEPT !.state = "Establishing",
                                                   !.accept = a]
        BY <1>2, <2>2 DEF CalleeProgresses, CalleeAccepts, Callee
      <3>2. Same(callee'[f])
        BY <1>2, <3>1 DEF CalleeRecord
      <3> QED BY <3>1, <3>2 DEF Heard
    <2>3. CASE ProgressFails(f) \/ AcceptFails(f) \/ PrackFails(f)
      <3> DEFINE p == [c EXCEPT !.progress = "no", !.waitingForPrack = FALSE]
                 a == [c EXCEPT !.accept = "no"]
                 k == [c EXCEPT !.prack = "none"]
      <3>2. /\ p \in CalleeRecord /\ Same(p)
            /\ a \in CalleeRecord /\ Same(a)
            /\ k \in CalleeRecord /\ Same(k)
        BY <1>2 DEF CalleeRecord
      <3>1. \/ HandleResponseError(f, p) \/ HandleResponseError(f, a)
            \/ HandleResponseError(f, k)
        BY <2>3 DEF ProgressFails, AcceptFails, PrackFails
      <3> HIDE DEF p, a, k
      <3> QED BY <2>1, <3>1, <3>2
    <2>4. CASE PrackIsApplied(f)
      <3>1. /\ net' = net
            /\ callee'[f] = PrackArrived([c EXCEPT !.prack = "none"])
        BY <1>2, <2>4 DEF PrackIsApplied, Callee
      <3>2. [c EXCEPT !.prack = "none"] \in CalleeRecord
            /\ Same([c EXCEPT !.prack = "none"])
        BY <1>2 DEF CalleeRecord
      <3>3. ASSUME NEW x \in CalleeRecord, Same(x)
            PROVE  Same(PrackArrived(x))
        BY <3>3 DEF PrackArrived, CalleeRecord
      <3> QED BY <3>1, <3>2, <3>3 DEF Heard
    <2>5. CASE PrackWaitTimeout(f) \/ Rel1xxRetransmissionFails(f)
      <3>1. \/ HandleResponseError(f, [c EXCEPT !.timers = {},
                                                !.waitingForPrack = FALSE])
            \/ /\ net' = net
               /\ \/ callee'[f] = [c EXCEPT !.timers = @ \ {"prackWait"}]
                  \/ callee'[f] = [c EXCEPT !.timers = @ \ {"rel1xx"},
                                            !.waitingForPrack = FALSE]
        BY <1>2, <2>5 DEF PrackWaitTimeout, Rel1xxRetransmissionFails, Callee
      <3>2. /\ [c EXCEPT !.timers = {}, !.waitingForPrack = FALSE]
                  \in CalleeRecord
            /\ Same([c EXCEPT !.timers = {}, !.waitingForPrack = FALSE])
            /\ Same([c EXCEPT !.timers = @ \ {"prackWait"}])
            /\ Same([c EXCEPT !.timers = @ \ {"rel1xx"},
                              !.waitingForPrack = FALSE])
        BY <1>2 DEF CalleeRecord
      <3> QED BY <2>1, <3>1, <3>2 DEF Heard
    <2>6. CASE CalleeRejects(f) \/ CancelArrives(f)
      BY <1>2, <2>1, <2>6 DEF CalleeRejects, CancelArrives
    <2> QED BY <1>8, <2>2, <2>3, <2>4, <2>5, <2>6 DEF PrackSettles
  <1>a. ASSUME Same(callee'[f]), Heard(f)' => Heard(f) PROVE CalleeSide(f)'
    BY <1>3, <1>a, CalleeSideKeeps DEF AnswerInv
  <1> HIDE DEF Same
  <1>9. CalleeSide(f)'
    BY <1>5, <1>6, <1>7, <1>8, <1>a
    DEF CalleeNext, ProgressSettles, AcceptSettles
  <1>10. ASSUME NEW g \in Fork PROVE CallerSide(g, early[g])'
    BY <1>1, <1>3 DEF AnswerInv, CallerSide
  <1> QED BY <1>1, <1>4, <1>9, <1>10 DEF AnswerInv

(* What a response with body b makes of the dialog of its fork.            *)
LEMMA DialogMoves ==
    ASSUME TypeOK, NEW f \in Fork, CallerSide(f, early[f]), NEW b \in Body,
           NEW n \in Nat
    PROVE  LET d == SignalingTransition([Known(f) EXCEPT !.rseq = n], b) IN
           /\ d \in EarlyRecord
           /\ d.rseq = n /\ d.answers = early[f].answers
           /\ d.signaling # "none"
           /\ d.signaling \notin IF invite.offer
                                 THEN {"Initial", "HaveRemoteOffer"}
                                 ELSE {"HaveLocalOffer"}
           /\ early[f].signaling \in {"HaveRemoteOffer", "Stable", "Closed"}
                => d.signaling = early[f].signaling
           /\ d.signaling = "Initial" => b = "none"
  <1> DEFINE k == [Known(f) EXCEPT !.rseq = n]
             d == SignalingTransition(k, b)
             s == CASE b # "none" /\ k.signaling = "Initial" ->
                         "HaveRemoteOffer"
                    [] b # "none" /\ k.signaling = "HaveLocalOffer" -> "Stable"
                    [] OTHER -> k.signaling
  <1>1. /\ k \in EarlyRecord /\ k.rseq = n /\ k.answers = early[f].answers
        /\ k.signaling = Known(f).signaling
    BY KnownIs DEF EarlyRecord
  <1>2. Known(f).signaling = IF early[f].signaling # "none"
                             THEN early[f].signaling
                             ELSE IF invite.offer THEN "HaveLocalOffer"
                             ELSE "Initial"
    BY TypeIs DEF Known, EarlyRecord
  <1> HIDE DEF k
  <1>3. /\ d \in EarlyRecord /\ d.rseq = n /\ d.answers = early[f].answers
        /\ d = [k EXCEPT !.signaling = s]
    BY <1>1, TransitionIs DEF SignalingTransition
  <1>4. d.signaling = s
    BY <1>1, <1>3 DEF EarlyRecord
  <1>5. early[f].signaling \in Signaling
    BY TypeIs DEF EarlyRecord
  <1> HIDE DEF d
  <1>6. /\ s # "none"
        /\ s = "Initial" => b = "none"
        /\ early[f].signaling \in {"HaveRemoteOffer", "Stable", "Closed"}
             => s = early[f].signaling
        /\ s \notin IF invite.offer THEN {"Initial", "HaveRemoteOffer"}
                    ELSE {"HaveLocalOffer"}
    BY <1>1, <1>2, <1>5 DEF CallerSide, Signaling
  <1> HIDE DEF s
  <1>7. /\ d \in EarlyRecord
        /\ d.rseq = n /\ d.answers = early[f].answers
        /\ d.signaling # "none"
        /\ d.signaling \notin IF invite.offer
                              THEN {"Initial", "HaveRemoteOffer"}
                              ELSE {"HaveLocalOffer"}
        /\ early[f].signaling \in {"HaveRemoteOffer", "Stable", "Closed"}
             => d.signaling = early[f].signaling
        /\ d.signaling = "Initial" => b = "none"
    BY <1>3, <1>4, <1>6
  <1> QED BY <1>7, Zenon DEF d, k

LEMMA ProvisionalAnswerInv ==
    ASSUME IInv, AnswerInv, ProvisionalArrives, NEW g \in Fork
    PROVE  CallerSide(g, early[g])'
  <1>1. PICK m \in net :
           LET f == m.fork
               n == IF m.rseq = 0 THEN early[f].rseq ELSE m.rseq
               d == SignalingTransition([Known(f) EXCEPT !.rseq = n], m.body)
               with == [early EXCEPT ![f] = d]
           IN
           /\ m.kind = "1xx"
           /\ InSequence(early[f], m.rseq)
           /\ \/ early' \in {with, DisposeEarlyMedia(with)} /\ net' = net
              \/ /\ early' = with /\ d.signaling # "HaveRemoteOffer"
                 /\ Prack(f, m.rseq, "none")
              \/ /\ early' = [early EXCEPT ![f] =
                                [d EXCEPT !.handler = "answering",
                                          !.answers = @ + 1]]
                 /\ d.signaling = "HaveRemoteOffer" /\ m.rseq # 0
                 /\ net' = net
    <2>1. \A f \in Fork : Known(f).rseq = early[f].rseq
      BY KnownIs DEF IInv
    <2>2. \A m \in net : m.fork \in Fork
      BY TypeIs DEF IInv, MessageRecord
    <2> QED BY <2>1, <2>2 DEF ProvisionalArrives, OnProgress
  <1> DEFINE f == m.fork
             n == IF m.rseq = 0 THEN early[f].rseq ELSE m.rseq
             d == SignalingTransition([Known(f) EXCEPT !.rseq = n], m.body)
             with == [early EXCEPT ![f] = d]
  <1>2. /\ f \in Fork /\ m.rseq \in Nat /\ m.body \in Body
        /\ early \in [Fork -> EarlyRecord] /\ n \in Nat
        /\ TypeOK /\ caller'.dialog = caller.dialog /\ invite' = invite
    BY <1>1, TypeIs, ZenonT(60)
    DEF IInv, MessageRecord, EarlyRecord, ProvisionalArrives, OnProgress,
       CallerOnly, CallerRecord
  <1>3. /\ d \in EarlyRecord
        /\ d.rseq = n /\ d.answers = early[f].answers
        /\ d.signaling # "none"
        /\ d.signaling \notin IF invite.offer
                              THEN {"Initial", "HaveRemoteOffer"}
                              ELSE {"HaveLocalOffer"}
        /\ early[f].signaling \in {"HaveRemoteOffer", "Stable", "Closed"}
             => d.signaling = early[f].signaling
        /\ d.signaling = "Initial" => m.body = "none"
    BY <1>2, DialogMoves DEF AnswerInv
  <1> HIDE DEF d
  <1>4. Heard(f) /\ ForkInv(f) /\ CalleeSide(f) /\ CallerSide(f, early[f])
    BY <1>1, <1>2 DEF Heard, IInv, AnswerInv
  <1>5. m.body = "none" => Pracked(f)
    BY <1>1, <1>2, <1>4, LaterMeansPracked
  <1>6. n # 0 \/ early[f].rseq = 0
    BY <1>2
  <1>c. with \in [Fork -> EarlyRecord]
    BY <1>2, <1>3
  <1>7. CASE g # f
    <2>1. early'[g] = early[g] \/ early' = DisposeEarlyMedia(with)
      BY <1>1, <1>2, <1>7 DEF d
    <2>2. /\ early'[g].signaling = early[g].signaling
          /\ early'[g].answers = early[g].answers
          /\ early'[g].rseq = early[g].rseq
      BY <1>2, <1>c, <1>7, <2>1, DisposeIs, ZenonT(60)
    <2>3. Pracked(g)' => Pracked(g)
      BY <1>1, <1>7 DEF Pracked, Prack, Sends, Message
    <2> QED BY <1>2, <2>2, <2>3 DEF CallerSide, AnswerInv
  <1>8. CASE g = f
    <2>1. CASE early' \in {with, DisposeEarlyMedia(with)} /\ net' = net
      <3>1. /\ early'[f].signaling = d.signaling
            /\ early'[f].answers = d.answers /\ early'[f].rseq = n
        <4>1. with[f] = d
          BY <1>2
        <4> HIDE DEF with
        <4> QED BY <1>2, <1>3, <1>c, <2>1, <4>1, DisposeIs
      <3>2. Pracked(f)' <=> Pracked(f)
        BY <2>1 DEF Pracked
      <3> QED BY <1>2, <1>3, <1>4, <1>6, <1>8, <3>1, <3>2
        DEF CallerSide, EarlyRecord, Signaling
    <2>2. CASE early' = with /\ d.signaling # "HaveRemoteOffer"
      <3>1. early'[f] = d
        BY <1>2, <2>2
      <3>2. ~invite.offer => d.signaling \in {"Stable", "Closed"}
        BY <1>3, <1>4, <1>5, <2>2 DEF CallerSide, EarlyRecord, Signaling
      <3> QED BY <1>2, <1>3, <1>4, <1>6, <1>8, <3>1, <3>2 DEF CallerSide
    <2>3. CASE /\ early' = [early EXCEPT ![f] =
                              [d EXCEPT !.handler = "answering",
                                        !.answers = @ + 1]]
               /\ d.signaling = "HaveRemoteOffer" /\ m.rseq # 0
               /\ net' = net
      <3>1. /\ early'[f].signaling = d.signaling
            /\ early'[f].answers = d.answers + 1 /\ early'[f].rseq = n
        BY <1>2, <1>3, <2>3 DEF EarlyRecord
      <3>2. ~Pracked(f) /\ (Pracked(f)' <=> Pracked(f))
        BY <1>3, <1>4, <2>3 DEF CallerSide, Pracked
      <3>3. early[f].answers = 0
        <4> SUFFICES ASSUME early[f].answers # 0 PROVE FALSE
          OBVIOUS
        <4>1. early[f].rseq # 0
          BY <1>4 DEF CallerSide, AnswerInv, ProvisionalArrives
        <4>2. PICK x \in net :
                 x.kind = "1xx" /\ x.fork = f /\ x.rseq = early[f].rseq
          BY <1>4, <4>1 DEF ForkInv, NetInv, Answers1xx
        <4>3. m.rseq # x.rseq
          BY <1>1, <1>2, <2>3, <4>1, <4>2 DEF InSequence, EarlyRecord
        <4>4. m.body = "none" \/ x.body = "none"
          BY <1>1, <1>4, <4>2, <4>3 DEF ForkInv, NetInv
        <4> QED BY <1>4, <3>2, <4>2, <1>1, <4>4, LaterMeansPracked, <1>2
      <3> QED BY <1>2, <1>3, <1>8, <2>3, <3>1, <3>2, <3>3 DEF CallerSide
    <2> QED BY <1>1, <1>8, <2>1, <2>2, <2>3 DEF d
  <1> QED BY <1>7, <1>8

(* OnAcceptStable hangs up, acknowledges or applies the answer, in the     *)
(* dialog of the 2xx, and stores the handler's state or adopts it.         *)
LEMMA OnAcceptStableDoes ==
    ASSUME NEW f, NEW STATE known, NEW STATE heard,
           known \in [Fork -> EarlyRecord], heard \in CallerRecord,
           OnAcceptStable(f, known, heard)
    PROVE  /\ UNCHANGED net \/ Acks(f) \/ AckAndBye(f)
           /\ \/ early' = known
              \/ early' = DisposeEarlyMedia(
                             [known EXCEPT ![f].handler = "adopted"])
           /\ caller'.dialog = f
           /\ caller'.transaction = heard.transaction
  <1> DEFINE adopts == /\ known[f].handler = "open"
                       /\ caller.earlyMediaDialog = None
             With(x) == x.dialog = f /\ x.transaction = heard.transaction
  <1>0. /\ With([heard EXCEPT !.dialog = f])
        /\ With([heard EXCEPT !.state = "Established", !.dialog = f])
        /\ With([heard EXCEPT !.state = "Terminated", !.dialog = f])
        /\ With([heard EXCEPT !.dialog = f,
                              !.applying = @ \cup {"answer"}])
    BY DEF CallerRecord
  <1>1. CASE HasEarlyMedia /\ ~ adopts
    BY <1>0, <1>1, Zenon DEF OnAcceptStable
  <1>2. CASE HasEarlyMedia /\ adopts
    BY <1>0, <1>2, Zenon DEF OnAcceptStable
  <1>3. CASE ~ HasEarlyMedia /\ caller.earlyMediaDialog \notin {None, f}
    BY <1>0, <1>3, Zenon DEF OnAcceptStable
  <1>4. CASE ~ HasEarlyMedia /\ caller.earlyMediaDialog = f
    BY <1>0, <1>4, Zenon DEF OnAcceptStable
  <1>5. CASE /\ ~ HasEarlyMedia
             /\ caller.earlyMediaDialog \in {None, f}
             /\ caller.earlyMediaDialog # f
    BY <1>0, <1>5, Zenon DEF OnAcceptStable
  <1> QED BY <1>1, <1>2, <1>3, <1>4, <1>5, Zenon

(* The first 2xx of a session is of a fork that has not got an answer yet, *)
(* or has one to which the caller has sent a PRACK.                        *)
LEMMA AcceptAnswerInv ==
    ASSUME IInv, AnswerInv, AcceptArrives
    PROVE  /\ caller'.transaction = "accepted"
           /\ \A g \in Fork : CallerSide(g, early[g])'
  <1>1. PICK m \in net :
           LET f == m.fork
               d == SignalingTransition(Known(f), m.body)
               known == [early EXCEPT ![f] = d]
           IN
           /\ m.kind = "2xx"
           /\ UNCHANGED net \/ Acks(f) \/ AckAndBye(f)
           /\ \/ /\ \/ early' \in {known, DisposeEarlyMedia(known)}
                    \/ early' = DisposeEarlyMedia(
                                   [known EXCEPT ![f].handler = "adopted"])
                 /\ caller'.dialog \in {caller.dialog, f}
              \/ /\ caller.dialog = None
                 /\ d.signaling = "HaveRemoteOffer"
                 /\ early' = [known EXCEPT ![f].answers = @ + 1]
                 /\ caller'.dialog = f
           /\ caller'.transaction = "accepted"
    <2>1. caller \in CallerRecord
      BY TypeIs DEF IInv
    <2>2. PICK m \in net :
            LET f == m.fork
                d == SignalingTransition(Known(f), m.body)
                known == [early EXCEPT ![f] = d]
                heard == [caller EXCEPT !.transaction = "accepted",
                                        !.heard = @ \cup {f}]
            IN
            /\ m.kind = "2xx"
            /\ \/ early' = known /\ caller' = heard /\ AckAndBye(f)
               \/ /\ early' = DisposeEarlyMedia(known)
                  /\ caller' = [heard EXCEPT !.state = "Terminated"]
                  /\ AckAndBye(f)
               \/ /\ early' = DisposeEarlyMedia(known)
                  /\ caller' = heard /\ UNCHANGED net
               \/ /\ early' = DisposeEarlyMedia(known)
                  /\ caller' = [heard EXCEPT !.state = "Terminated",
                                             !.dialog = f]
                  /\ AckAndBye(f)
               \/ /\ caller.dialog = None
                  /\ d.signaling = "HaveRemoteOffer"
                  /\ early' = [known EXCEPT ![f].answers = @ + 1]
                  /\ caller' = [heard EXCEPT !.dialog = f,
                                             !.applying = @ \cup {"offer"}]
                  /\ UNCHANGED net
               \/ OnAcceptStable(f, known, heard)
      BY DEF AcceptArrives
    <2> DEFINE f == m.fork
               d == SignalingTransition(Known(f), m.body)
               known == [early EXCEPT ![f] = d]
               heard == [caller EXCEPT !.transaction = "accepted",
                                       !.heard = @ \cup {f}]
               offered == [heard EXCEPT !.dialog = f,
                                        !.applying = @ \cup {"offer"}]
               Told(x) == /\ x.dialog \in {caller.dialog, f}
                          /\ x.transaction = "accepted"
    <2>3. known \in [Fork -> EarlyRecord] /\ heard \in CallerRecord
      <3>1. /\ f \in Fork /\ m.body \in Body
            /\ early \in [Fork -> EarlyRecord]
        BY TypeIs DEF IInv, MessageRecord
      <3>2. d \in EarlyRecord
        BY <3>1, KnownIs, TransitionIs DEF IInv
      <3> HIDE DEF d
      <3> QED BY <2>1, <3>1, <3>2 DEF CallerRecord
    <2>4. /\ Told(heard)
          /\ Told([heard EXCEPT !.state = "Terminated"])
          /\ Told([heard EXCEPT !.state = "Terminated", !.dialog = f])
          /\ offered.dialog = f /\ offered.transaction = "accepted"
      BY <2>1 DEF CallerRecord
    <2>5. heard.transaction = "accepted"
      BY <2>1 DEF CallerRecord
    <2> HIDE DEF known, heard, offered
    <2>6. ASSUME OnAcceptStable(f, known, heard)
          PROVE  /\ UNCHANGED net \/ Acks(f) \/ AckAndBye(f)
                 /\ \/ early' = known
                    \/ early' = DisposeEarlyMedia(
                                   [known EXCEPT ![f].handler = "adopted"])
                 /\ Told(caller')
      BY <2>3, <2>5, <2>6, OnAcceptStableDoes, Zenon
    <2>7. \/ /\ UNCHANGED net \/ Acks(f) \/ AckAndBye(f)
             /\ \/ early' \in {known, DisposeEarlyMedia(known)}
                \/ early' = DisposeEarlyMedia(
                               [known EXCEPT ![f].handler = "adopted"])
             /\ Told(caller')
          \/ /\ UNCHANGED net
             /\ caller.dialog = None
             /\ d.signaling = "HaveRemoteOffer"
             /\ early' = [known EXCEPT ![f].answers = @ + 1]
             /\ caller' = offered
      BY <2>2, <2>4, <2>6, Zenon DEF known, heard, offered
    <2> QED BY <2>2, <2>4, <2>7, Zenon DEF known
  <1> DEFINE f == m.fork
             d == SignalingTransition(Known(f), m.body)
             known == [early EXCEPT ![f] = d]
             adopted == [known EXCEPT ![f].handler = "adopted"]
  <1>2. /\ f \in Fork /\ m.body \in Body /\ f # None
        /\ early \in [Fork -> EarlyRecord]
        /\ TypeOK /\ invite' = invite
    BY <1>1, TypeIs, EarlyDialogsAssumption
    DEF IInv, MessageRecord, AcceptArrives, CallerOnly
  <1>3. /\ d \in EarlyRecord
        /\ d.rseq = early[f].rseq /\ d.answers = early[f].answers
        /\ d.signaling # "none"
        /\ d.signaling \notin IF invite.offer
                              THEN {"Initial", "HaveRemoteOffer"}
                              ELSE {"HaveLocalOffer"}
        /\ early[f].signaling \in {"HaveRemoteOffer", "Stable", "Closed"}
             => d.signaling = early[f].signaling
    <2>1. /\ early[f].rseq \in Nat
          /\ [Known(f) EXCEPT !.rseq = early[f].rseq] = Known(f)
      BY <1>2, KnownIs DEF EarlyRecord
    <2> QED BY <1>2, <2>1, DialogMoves DEF AnswerInv
  <1> HIDE DEF d
  <1>4. /\ known \in [Fork -> EarlyRecord] /\ known[f] = d
        /\ \A g \in Fork \ {f} : known[g] = early[g]
    BY <1>2, <1>3
  <1> HIDE DEF known
  <1>5. /\ adopted \in [Fork -> EarlyRecord]
        /\ \A g \in Fork : /\ adopted[g].signaling = known[g].signaling
                           /\ adopted[g].answers = known[g].answers
                           /\ adopted[g].rseq = known[g].rseq
    BY <1>2, <1>4 DEF EarlyRecord
  <1> HIDE DEF adopted
  <1>6. \A g \in Fork : Pracked(g)' => Pracked(g)
    BY <1>1 DEF Pracked, Acks, AckAndBye, Sends, Message
  <1>7. caller.dialog # None => caller'.dialog # None
    BY <1>1, <1>2
  <1>8. CASE /\ early' = [known EXCEPT ![f].answers = @ + 1]
             /\ caller.dialog = None /\ d.signaling = "HaveRemoteOffer"
             /\ caller'.dialog = f
    <2>1. /\ \A g \in Fork : /\ early'[g].signaling = known[g].signaling
                             /\ early'[g].rseq = known[g].rseq
          /\ \A g \in Fork \ {f} : early'[g].answers = known[g].answers
          /\ early'[f].answers = d.answers + 1
      BY <1>2, <1>4, <1>8 DEF EarlyRecord
    <2>2. early[f].answers = 0
      <3> SUFFICES ASSUME early[f].answers # 0 PROVE FALSE
        OBVIOUS
      <3>1. CallerSide(f, early[f]) /\ CalleeSide(f) /\ ForkInv(f)
        BY <1>2 DEF IInv, AnswerInv
      <3>2. Heard(f) /\ Taken(f)
        BY <1>1, <1>8, <3>1 DEF CallerSide, ForkInv, NetInv, Answers1xx,
           Heard, Taken
      <3>3. Pracked(f)
        BY <1>2, <3>1, <3>2, LaterMeansPracked
      <3> QED BY <1>3, <1>8, <3>1, <3>3 DEF CallerSide
    <2>3. ASSUME NEW g \in Fork PROVE CallerSide(g, early[g])'
      <3>1. CallerSide(g, early[g])
        BY DEF AnswerInv
      <3>2. CASE g = f
        BY <1>2, <1>3, <1>4, <1>6, <1>8, <2>1, <2>2, <3>1, <3>2
        DEF CallerSide
      <3>3. CASE g # f
        BY <1>2, <1>4, <1>6, <1>7, <2>1, <3>1, <3>3 DEF CallerSide
      <3> QED BY <3>2, <3>3
    <2> QED BY <1>1, <2>3
  <1>9. CASE \/ early' \in {known, DisposeEarlyMedia(known)}
             \/ early' = DisposeEarlyMedia(adopted)
    <2>1. \A g \in Fork : /\ early'[g].signaling = known[g].signaling
                          /\ early'[g].rseq = known[g].rseq
                          /\ early'[g].answers = known[g].answers
      BY <1>4, <1>5, <1>9, DisposeIs
    <2>2. ASSUME NEW g \in Fork PROVE CallerSide(g, early[g])'
      <3>1. CallerSide(g, early[g])
        BY DEF AnswerInv
      <3>2. CASE g = f
        BY <1>2, <1>3, <1>4, <1>6, <1>7, <2>1, <3>1, <3>2
        DEF CallerSide, EarlyRecord, Signaling
      <3>3. CASE g # f
        BY <1>2, <1>4, <1>6, <1>7, <2>1, <3>1, <3>3 DEF CallerSide
      <3> QED BY <3>2, <3>3
    <2> QED BY <1>1, <2>2
  <1> QED BY <1>1, <1>8, <1>9 DEF adopted, known, d

LEMMA CallerAnswerInv ==
    ASSUME IInv, AnswerInv, CallerNext
    PROVE  AnswerInv'
  <1>0. /\ early \in [Fork -> EarlyRecord] /\ caller \in CallerRecord
        /\ \A g \in Fork : CalleeSide(g) /\ CallerSide(g, early[g])
        /\ caller.dialog # None => caller.transaction = "accepted"
    BY TypeIs DEF IInv, AnswerInv
  <1>1. ASSUME NEW g \in Fork PROVE CalleeSide(g)'
    <2>1. CallerSends
      BY CallerSendsThose DEF IInv, ForkInv
    <2>2. /\ callee' = callee
          /\ Pracked(g) => Pracked(g)'
          /\ Offered(g) => Offered(g)'
          /\ Heard(g)' => Heard(g)
      BY <2>1 DEF CallerSends, Pracked, Offered, Heard
    <2> QED BY <1>0, <2>2, CalleeSideKeeps
  <1>2. ASSUME ProvisionalArrives PROVE AnswerInv'
    <2>1. /\ caller'.dialog = caller.dialog
          /\ caller'.transaction = caller.transaction
      BY <1>0, <1>2, ZenonT(60) DEF ProvisionalArrives, OnProgress, CallerRecord
    <2> QED BY <1>0, <1>1, <1>2, <2>1, ProvisionalAnswerInv DEF AnswerInv
  <1>3. ASSUME AcceptArrives PROVE AnswerInv'
    BY <1>1, <1>3, AcceptAnswerInv DEF AnswerInv
  <1>4. ASSUME NEW f \in Fork, EarlyAnswered(f) PROVE AnswerInv'
    <2>1. /\ invite' = invite /\ caller' = caller
          /\ early' = [early EXCEPT ![f] =
                         [early[f] EXCEPT !.handler = "open",
                             !.signaling = IF @ = "Closed" THEN @
                                           ELSE "Stable"]]
          /\ Prack(f, early[f].rseq, "answer")
      BY <1>0, <1>4 DEF EarlyAnswered, CallerOnly
    <2>2. /\ early'[f].signaling \in {"Stable", "Closed"}
          /\ early'[f].answers = early[f].answers
          /\ early'[f].rseq = early[f].rseq
          /\ \A g \in Fork \ {f} : early'[g] = early[g]
      BY <1>0, <2>1 DEF EarlyRecord
    <2>3. \A g \in Fork \ {f} : Pracked(g)' => Pracked(g)
      BY <2>1 DEF Prack, Pracked, Sends, Message
    <2>4. ASSUME NEW g \in Fork PROVE CallerSide(g, early[g])'
      <3>1. CASE g = f
        BY <1>0, <2>1, <2>2, <3>1 DEF CallerSide
      <3>2. CASE g # f
        BY <1>0, <2>1, <2>2, <2>3, <3>2 DEF CallerSide
      <3> QED BY <3>1, <3>2
    <2> QED BY <1>0, <1>1, <2>1, <2>4 DEF AnswerInv
  <1>5. ASSUME RefusalArrives PROVE AnswerInv'
    <2> DEFINE closed == [f \in Fork |-> [early[f] EXCEPT
                             !.signaling = IF @ = "none" THEN @ ELSE "Closed"]]
    <2>1. /\ closed \in [Fork -> EarlyRecord]
          /\ \A g \in Fork :
                /\ closed[g].signaling = IF early[g].signaling = "none"
                                         THEN "none" ELSE "Closed"
                /\ closed[g].rseq = early[g].rseq
                /\ closed[g].answers = early[g].answers
      BY <1>0 DEF EarlyRecord, Signaling
    <2>2. /\ early' = DisposeEarlyMedia(closed) /\ net' = net
          /\ invite' = invite /\ caller.transaction = "early"
          /\ caller'.dialog = caller.dialog
      BY <1>0, <1>5 DEF RefusalArrives, CallerOnly, CallerRecord
    <2> HIDE DEF closed
    <2>3. \A g \in Fork :
             /\ early'[g].signaling = IF early[g].signaling = "none"
                                      THEN "none" ELSE "Closed"
             /\ early'[g].rseq = early[g].rseq
             /\ early'[g].answers = early[g].answers
      BY <2>1, <2>2, DisposeIs
    <2>4. ASSUME NEW g \in Fork PROVE CallerSide(g, early[g])'
      BY <1>0, <2>2, <2>3 DEF CallerSide, Pracked
    <2> QED BY <1>0, <1>1, <2>2, <2>4 DEF AnswerInv
  <1>6. ASSUME \/ EarlyMediaApplied \/ EarlyMediaFails \/ Cancels
               \/ AcceptIsApplied \/ AcceptIsNotApplied
               \/ \E f \in Fork : EarlyAnswerFails(f)
        PROVE  AnswerInv'
    <2>1. /\ caller'.dialog = caller.dialog
          /\ caller'.transaction = caller.transaction
      BY <1>0, <1>6 DEF EarlyMediaApplied, EarlyMediaFails, Cancels,
         AcceptIsApplied, AcceptIsNotApplied, EarlyAnswerFails, Terminate,
         CallerRecord
    <2>2. \A g \in Fork : /\ early'[g].signaling = early[g].signaling
                          /\ early'[g].rseq = early[g].rseq
                          /\ early'[g].answers = early[g].answers
      <3>1. CASE \/ EarlyMediaApplied \/ EarlyMediaFails \/ Cancels
                 \/ AcceptIsApplied \/ AcceptIsNotApplied
        BY <1>0, <3>1, DisposeIs DEF EarlyMediaApplied, EarlyMediaFails,
           Cancels, AcceptIsApplied, AcceptIsNotApplied
      <3>2. ASSUME NEW f \in Fork, EarlyAnswerFails(f)
            PROVE  \A g \in Fork : /\ early'[g].signaling = early[g].signaling
                                   /\ early'[g].rseq = early[g].rseq
                                   /\ early'[g].answers = early[g].answers
        <4> DEFINE closed == [early EXCEPT ![f].handler = "closed"]
        <4>1. /\ closed \in [Fork -> EarlyRecord]
              /\ \A g \in Fork : /\ closed[g].signaling = early[g].signaling
                                 /\ closed[g].rseq = early[g].rseq
                                 /\ closed[g].answers = early[g].answers
          BY <1>0 DEF EarlyRecord
        <4>2. early' = DisposeEarlyMedia(closed)
          BY <3>2 DEF EarlyAnswerFails
        <4> HIDE DEF closed
        <4> QED BY <4>1, <4>2, DisposeIs
      <3> QED BY <1>6, <3>1, <3>2
    <2>3. /\ invite' = invite
          /\ \A g \in Fork : Pracked(g)' => Pracked(g)
      <3>1. /\ invite' = invite
            /\ UNCHANGED net \/ Acks(caller.dialog) \/ AckAndBye(caller.dialog)
        BY <1>6 DEF EarlyMediaApplied, EarlyMediaFails, Cancels,
           AcceptIsApplied, AcceptIsNotApplied, EarlyAnswerFails, CallerOnly
      <3> QED BY <3>1 DEF Acks, AckAndBye, Sends, Message, Pracked
    <2>4. ASSUME NEW g \in Fork PROVE CallerSide(g, early[g])'
      BY <1>0, <2>1, <2>2, <2>3 DEF CallerSide
    <2> QED BY <1>0, <1>1, <2>1, <2>4 DEF AnswerInv
  <1> QED BY <1>2, <1>3, <1>4, <1>5, <1>6 DEF CallerNext

(* However the provisionals of the forks repeat and race with each other,  *)
(* with their PRACKs and with the 2xx, no offer gets a second answer       *)
(* (inviter.ts:646-686 and :1010-1075, reliableSequenceGuard).             *)
THEOREM OffersGetOneAnswer == Spec => []OneAnswerPerOffer
  <1>1. Init => AnswerInv
    BY InitAnswerInv
  <1>2. IInv /\ AnswerInv /\ [Next]_vars => AnswerInv'
    <2> SUFFICES ASSUME IInv, AnswerInv, [Next]_vars PROVE AnswerInv'
      OBVIOUS
    <2>1. CASE UNCHANGED vars
      BY <2>1 DEF vars, AnswerInv, CalleeSide, CallerSide, Heard, Offered,
         Pracked
    <2> QED BY <2>1, CalleeAnswerInv, CallerAnswerInv DEF Next
  <1>3. IInv /\ AnswerInv => OneAnswerPerOffer
    BY DEF AnswerInv, CallerSide, OneAnswerPerOffer
  <1> QED BY <1>1, <1>2, <1>3, Invariance, PTL DEF Spec
=============================================================================
