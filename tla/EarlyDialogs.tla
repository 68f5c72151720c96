----------------------------- MODULE EarlyDialogs -----------------------------
(***************************************************************************)
(* Reliable provisional responses: the Inviter of a call that a proxy may  *)
(* fork, with the early dialogs of its InviteUserAgentClient, and the      *)
(* Invitations of its forks, each of which answers 183 reliably, waits for *)
(* the PRACK and may be accepted meanwhile.  The INVITE carries an offer   *)
(* or leaves it to the 183, whose answer then is in the PRACK.             *)
(*                                                                         *)
(* What comes after the 2xx (ACK, BYE) and unreliable provisionals are in  *)
(* InviteCall.  Responses may be repeated and reordered; a reliable 183    *)
(* that is sent again is one that was sent.  A PRACK comes once or never.  *)
(***************************************************************************)
EXTENDS Integers

CONSTANTS
    Fork,           \* the callees
    None,           \* no fork
    MaxProgress,    \* bound: reliable provisionals a callee sends
    FirstRSeq       \* what Invitation.rseq may start with

ASSUME EarlyDialogsAssumption ==
    None \notin Fork /\ MaxProgress \in Nat /\ FirstRSeq \subseteq Nat

VARIABLES
    invite,     \* [offer, earlyMedia], how the Inviter was made
    caller,     \* the Inviter and the state of its transaction
    early,      \* [fork -> its SessionDialog at the caller, and the handler
                \*          made for its offer]
    callee,     \* [fork -> its Invitation, and its dialog there]
    net         \* messages sent, which may arrive at any time or never

vars == <<invite, caller, early, callee, net>>

(* SignalingState; "none": there is no dialog yet.                         *)
Signaling == {"none", "Initial", "HaveLocalOffer", "HaveRemoteOffer",
              "Stable", "Closed"}

Body == {"none", "offer", "answer"}

Message(kind, f, rseq, body) ==
    [kind |-> kind, fork |-> f, rseq |-> rseq, body |-> body]

TypeOK ==
    /\ invite \in [offer : BOOLEAN, earlyMedia : BOOLEAN]
    /\ caller \in
         [state : {"Establishing", "Established", "Terminating", "Terminated"},
          transaction : {"early", "accepted", "over"}, heard : SUBSET Fork,
          cancel : {"no", "sent", "armed"}, dialog : Fork \cup {None},
          earlyMediaDialog : Fork \cup {None},
          applying : SUBSET {"early", "answer", "offer"}]
    /\ early \in [Fork -> [signaling : Signaling, rseq : Nat, answers : Nat,
                           handler : {"none", "answering", "open", "aborted",
                                      "closed", "adopted"}]]
    /\ callee \in
         [Fork ->
            [state : {"Initial", "Establishing", "Established", "Terminated"},
             signaling : Signaling, rseq : Nat, sent : 0..MaxProgress,
             waitingForPrack : BOOLEAN, pracked : SUBSET Nat,
             progress : {"no", "generating"},
             prack : {"none", "applying"},
             accept : {"no", "waiting", "generating"},
             timers : SUBSET {"prackWait", "rel1xx"}]]
    /\ net \subseteq
         [kind : {"1xx", "PRACK", "2xx", "refusal", "ACK", "BYE"},
          fork : Fork, rseq : Nat, body : Body]
-----------------------------------------------------------------------------
Init ==
    /\ invite \in [offer : BOOLEAN, earlyMedia : BOOLEAN]
    /\ caller = [state |-> "Establishing", transaction |-> "early",
                 heard |-> {}, cancel |-> "no", dialog |-> None,
                 earlyMediaDialog |-> None, applying |-> {}]
    /\ early = [f \in Fork |-> [signaling |-> "none", rseq |-> 0,
                                answers |-> 0, handler |-> "none"]]
    /\ callee \in [Fork ->
         {[state |-> "Initial", signaling |-> "none", rseq |-> first,
           sent |-> 0, waitingForPrack |-> FALSE, pracked |-> {},
           progress |-> "no", prack |-> "none", accept |-> "no",
           timers |-> {}] : first \in FirstRSeq}]
    /\ net = {}
-----------------------------------------------------------------------------
(* The callees                                                             *)

Ringing(f) == callee[f].state \in {"Initial", "Establishing"}

Callee(f, c) == callee' = [callee EXCEPT ![f] = c]

Sends(m) == net' = net \cup {m}

CalleeOnly == UNCHANGED <<invite, caller, early>>

(* reject() and the refusals of the error handlers: the INVITE is refused  *)
(* and dispose() tells an accept() that waits that no PRACK will come.     *)
Refused(c) ==
    [c EXCEPT !.state = "Terminated",
              !.accept = IF @ = "waiting" THEN "no" ELSE @]

(* handleResponseError: an error refuses the INVITE if nothing else did.   *)
HandleResponseError(f, c) ==
    IF Ringing(f)
    THEN Callee(f, Refused(c)) /\ Sends(Message("refusal", f, 0, "none"))
    ELSE Callee(f, c) /\ UNCHANGED net

(* What generateResponseOfferAnswer gives: the handler is asked for a      *)
(* description when there is no dialog, and for none when there is one.    *)
Described(f) ==
    IF callee[f].signaling # "none" THEN "none"
    ELSE IF invite.offer THEN "answer" ELSE "offer"

(* The dialog, made with the INVITE and the response that has this body.   *)
SignalingAfter(f, body) ==
    CASE body = "answer" -> "Stable"
      [] body = "offer"  -> "HaveLocalOffer"
      [] OTHER           -> callee[f].signaling

(* progress(): the RSeq is taken, and the PRACK waited for, before there   *)
(* is a response.  Called while waiting it does nothing.                   *)
CalleeProgresses(f) ==
    LET c == callee[f] IN
    /\ c.state = "Initial"
    /\ ~ c.waitingForPrack
    /\ c.sent < MaxProgress
    /\ Callee(f, [c EXCEPT !.waitingForPrack = TRUE, !.sent = @ + 1,
                           !.progress = "generating"])
    /\ CalleeOnly /\ UNCHANGED net

(* The response is sent, unless the INVITE has been answered meanwhile.    *)
ProgressIsSent(f) ==
    LET c == callee[f]
        body == Described(f)
    IN
    /\ c.progress = "generating"
    /\ IF Ringing(f)
       THEN /\ Callee(f, [c EXCEPT !.progress = "no", !.rseq = @ + 1,
                                   !.signaling = SignalingAfter(f, body),
                                   !.timers = {"prackWait", "rel1xx"}])
            /\ Sends(Message("1xx", f, c.rseq, body))
       ELSE /\ Callee(f, [c EXCEPT !.progress = "no", !.rseq = @ + 1,
                                   !.waitingForPrack = FALSE])
            /\ UNCHANGED net
    /\ CalleeOnly

ProgressFails(f) ==
    /\ callee[f].progress = "generating"
    /\ Described(f) # "none"
    /\ HandleResponseError(f, [callee[f] EXCEPT !.progress = "no",
                                                !.waitingForPrack = FALSE])
    /\ CalleeOnly

(* A mutant of CalleeAccepts.                                              *)
CalleeAcceptsAtOnce(f) ==
    LET c == callee[f] IN
    /\ c.state = "Initial"
    /\ Callee(f, [c EXCEPT !.state = "Establishing",
                           !.accept = "generating"])
    /\ CalleeOnly /\ UNCHANGED net

(* accept(): it waits for the PRACK, if one is waited for.                 *)
CalleeAccepts(f) ==
    LET c == callee[f] IN
    /\ c.state = "Initial"
    /\ Callee(f, [c EXCEPT !.state = "Establishing",
                           !.accept = IF c.waitingForPrack THEN "waiting"
                                      ELSE "generating"])
    /\ CalleeOnly /\ UNCHANGED net

(* The 2xx.  InviteUserAgentServer.accept repeats the answer of the dialog *)
(* in a 2xx that has no body, even if it is the answer of the PRACK.       *)
AcceptIsSent(f) ==
    LET c == callee[f]
        body == Described(f)
        resent == c.signaling = "Stable"
    IN
    /\ c.accept = "generating"
    /\ IF Ringing(f)
       THEN /\ Callee(f, [c EXCEPT !.accept = "no", !.state = "Established",
                                   !.signaling = SignalingAfter(f, body)])
            /\ Sends(Message("2xx", f, 0, IF resent THEN "answer" ELSE body))
       ELSE Callee(f, [c EXCEPT !.accept = "no"]) /\ UNCHANGED net
    /\ CalleeOnly

AcceptFails(f) ==
    /\ callee[f].accept = "generating"
    /\ Described(f) # "none"
    /\ HandleResponseError(f, [callee[f] EXCEPT !.accept = "no"])
    /\ CalleeOnly

(* onPrack, of the reliable response before accept() is over, of           *)
(* the session after it (which throws).  The timers stop first of all;     *)
(* prackArrived lets accept() go on.                                       *)
PrackArrived(c) ==
    [c EXCEPT !.accept = IF @ = "waiting" THEN "generating" ELSE @]

OnPrack(c, body) ==
    IF ~ c.waitingForPrack THEN [c EXCEPT !.timers = {}]
    ELSE LET heard == [c EXCEPT !.timers = {}, !.waitingForPrack = FALSE] IN
         IF body = "none" THEN PrackArrived(heard)
         ELSE [heard EXCEPT !.prack = "applying"]

(* The dialog takes the answer in a PRACK before anybody looks at it.      *)
PrackArrives(f) ==
    LET c == callee[f] IN
    /\ \E m \in net :
          /\ m.kind = "PRACK" /\ m.fork = f /\ m.rseq \notin c.pracked
          /\ LET taken == [c EXCEPT !.pracked = @ \cup {m.rseq},
                                    !.signaling = IF m.body = "answer"
                                                  THEN "Stable" ELSE @]
             IN  Callee(f, IF c.state = "Established" THEN taken
                           ELSE OnPrack(taken, m.body))
    /\ CalleeOnly /\ UNCHANGED net

PrackIsApplied(f) ==
    /\ callee[f].prack = "applying"
    /\ Callee(f, PrackArrived([callee[f] EXCEPT !.prack = "none"]))
    /\ CalleeOnly /\ UNCHANGED net

(* A mutant of PrackFails.                                                 *)
PrackFailsUnheard(f) ==
    /\ callee[f].prack = "applying"
    /\ Callee(f, [callee[f] EXCEPT !.prack = "none"])
    /\ CalleeOnly /\ UNCHANGED net

PrackFails(f) ==
    /\ callee[f].prack = "applying"
    /\ HandleResponseError(f, [callee[f] EXCEPT !.prack = "none"])
    /\ CalleeOnly

(* No PRACK for 64 times T1: 504.                                          *)
PrackWaitTimeout(f) ==
    LET c == callee[f] IN
    /\ "prackWait" \in c.timers
    /\ IF c.waitingForPrack
       THEN HandleResponseError(f, [c EXCEPT !.timers = {},
                                             !.waitingForPrack = FALSE])
       ELSE Callee(f, [c EXCEPT !.timers = @ \ {"prackWait"}])
            /\ UNCHANGED net
    /\ CalleeOnly

(* The response is sent again as long as the INVITE is not answered: after *)
(* that the attempt fails and nobody waits for the PRACK any more.         *)
Rel1xxRetransmissionFails(f) ==
    LET c == callee[f] IN
    /\ "rel1xx" \in c.timers
    /\ ~ Ringing(f)
    /\ Callee(f, [c EXCEPT !.timers = @ \ {"rel1xx"},
                           !.waitingForPrack = FALSE])
    /\ CalleeOnly /\ UNCHANGED net

(* reject(), and the timer that gives up on an answer of the user.         *)
CalleeRejects(f) ==
    /\ Ringing(f)
    /\ HandleResponseError(f, callee[f])
    /\ CalleeOnly

(* A CANCEL, of the caller or of the proxy when another fork has accepted. *)
CancelArrives(f) ==
    /\ \/ caller.cancel = "sent"
       \/ \E m \in net : m.kind = "2xx" /\ m.fork # f
    /\ Ringing(f)
    /\ HandleResponseError(f, callee[f])
    /\ CalleeOnly
-----------------------------------------------------------------------------
(* The caller                                                              *)

CallerOnly == UNCHANGED <<invite, callee>>

(* A new dialog takes the INVITE, and the first description it gets.       *)
Known(f) ==
    [early[f] EXCEPT !.signaling =
        IF @ # "none" THEN @
        ELSE IF invite.offer THEN "HaveLocalOffer" ELSE "Initial"]

SignalingTransition(d, body) ==
    [d EXCEPT !.signaling =
        CASE body # "none" /\ @ = "Initial"        -> "HaveRemoteOffer"
          [] body # "none" /\ @ = "HaveLocalOffer" -> "Stable"
          [] OTHER -> @]

(* close() of a handler rejects what it has under way.                     *)
Closed(d) ==
    [d EXCEPT !.handler = CASE @ = "answering" -> "aborted"
                            [] @ = "open"      -> "closed"
                            [] OTHER           -> @]

(* disposeEarlyMedia: every handler but the one the session has adopted.   *)
DisposeEarlyMedia(dialogs) == [f \in Fork |-> Closed(dialogs[f])]

(* A mutant of InSequence.                                                 *)
InSequenceOrRepeated(d, rseq) ==
    rseq = 0 \/ d.rseq = 0 \/ rseq \in {d.rseq, d.rseq + 1}

(* reliableSequenceGuard; an RSeq of zero is taken for none.               *)
InSequence(d, rseq) == rseq = 0 \/ d.rseq = 0 \/ rseq = d.rseq + 1

Prack(f, rseq, body) ==
    IF rseq = 0 THEN UNCHANGED net ELSE Sends(Message("PRACK", f, rseq, body))

(* Inviter.onProgress, with what the response has made of its dialog.      *)
OnProgress(f, m, d) ==
    CASE d.signaling = "HaveRemoteOffer" /\ m.rseq = 0 ->
           /\ early' = [early EXCEPT ![f] = d]
           /\ UNCHANGED <<caller, net>>
      [] d.signaling = "HaveRemoteOffer" /\ m.rseq # 0 ->
           /\ early' = [early EXCEPT ![f] = [d EXCEPT !.handler = "answering",
                                                      !.answers = @ + 1]]
           /\ UNCHANGED <<caller, net>>
      [] OTHER ->
           /\ early' = [early EXCEPT ![f] = d]
           /\ Prack(f, m.rseq, "none")
           /\ IF /\ d.signaling = "Stable" /\ invite.earlyMedia
                 /\ caller.earlyMediaDialog = None
              THEN caller' = [caller EXCEPT !.earlyMediaDialog = f,
                                            !.applying = @ \cup {"early"}]
              ELSE UNCHANGED caller

(* A 1xx: the transaction drops it when it has a final response, the       *)
(* dialog when it is out of sequence, the Inviter when it was canceled.    *)
ProvisionalArrives ==
    /\ caller.transaction = "early"
    /\ \E m \in net :
          LET f == m.fork
              d == SignalingTransition(
                       [Known(f) EXCEPT !.rseq = IF m.rseq = 0 THEN @
                                                 ELSE m.rseq], m.body)
          IN
          /\ m.kind = "1xx"
          /\ InSequence(early[f], m.rseq)
          /\ IF caller.cancel # "no"
             THEN early' = [early EXCEPT ![f] = d] /\ UNCHANGED <<caller, net>>
             ELSE IF caller.state # "Establishing"
             THEN /\ early' = DisposeEarlyMedia([early EXCEPT ![f] = d])
                  /\ UNCHANGED <<caller, net>>
             ELSE OnProgress(f, m, d)
    /\ CallerOnly

Terminate == caller' = [caller EXCEPT !.state = "Terminated"]

(* The early handler has the answer, which goes into the PRACK whatever    *)
(* has become of the call.                                                 *)
EarlyAnswered(f) ==
    /\ early[f].handler = "answering"
    /\ early' = [early EXCEPT
                    ![f].handler = "open",
                    ![f].signaling = IF @ = "Closed" THEN @ ELSE "Stable"]
    /\ Prack(f, early[f].rseq, "answer")
    /\ UNCHANGED caller /\ CallerOnly

(* It fails, by itself or because it was closed: the session is over, even *)
(* one that another fork has established, and nobody is told.              *)
EarlyAnswerFails(f) ==
    /\ early[f].handler \in {"answering", "aborted"}
    /\ early' = DisposeEarlyMedia([early EXCEPT ![f].handler = "closed"])
    /\ Terminate
    /\ UNCHANGED net /\ CallerOnly

(* earlyMedia: the answer in the provisional is applied, or is not.        *)
EarlyMediaApplied ==
    /\ "early" \in caller.applying
    /\ caller' = [caller EXCEPT !.applying = @ \ {"early"}]
    /\ UNCHANGED <<early, net>> /\ CallerOnly

EarlyMediaFails ==
    /\ "early" \in caller.applying
    /\ caller' = [caller EXCEPT !.applying = @ \ {"early"},
                                !.state = "Terminated"]
    /\ early' = DisposeEarlyMedia(early)
    /\ UNCHANGED net /\ CallerOnly

AckAndBye(f) == net' = net \cup {Message("ACK", f, 0, "none"),
                                Message("BYE", f, 0, "none")}

Acks(f) == Sends(Message("ACK", f, 0, "none"))

HasEarlyMedia == \E f \in Fork : early[f].handler \in {"answering", "open"}

(* Inviter.onAccept, in a dialog that has its answer.  It throws if there  *)
(* is no handler to adopt or the session has one, which earlyMedia made,   *)
(* and leaves the call as it is.                                           *)
OnAcceptStable(f, known, heard) ==
    LET adopts == known[f].handler = "open" /\ caller.earlyMediaDialog = None
    IN
    CASE HasEarlyMedia /\ ~ adopts ->
           /\ early' = known
           /\ caller' = [heard EXCEPT !.dialog = f]
           /\ UNCHANGED net
      [] HasEarlyMedia /\ adopts ->
           /\ early' = DisposeEarlyMedia(
                          [known EXCEPT ![f].handler = "adopted"])
           /\ caller' = [heard EXCEPT !.state = "Established", !.dialog = f]
           /\ Acks(f)
      [] ~ HasEarlyMedia /\ caller.earlyMediaDialog \notin {None, f} ->
           /\ early' = known
           /\ caller' = [heard EXCEPT !.state = "Terminated", !.dialog = f]
           /\ AckAndBye(f)
      [] ~ HasEarlyMedia /\ caller.earlyMediaDialog = f ->
           /\ early' = known
           /\ caller' = [heard EXCEPT !.state = "Established", !.dialog = f]
           /\ Acks(f)
      [] OTHER ->
           /\ early' = known
           /\ caller' = [heard EXCEPT !.dialog = f,
                                      !.applying = @ \cup {"answer"}]
           /\ UNCHANGED net

(* The 2xx of a fork, which the transaction lets through once.  The first  *)
(* decides; others are acknowledged and hung up.                           *)
AcceptArrives ==
    /\ caller.transaction \in {"early", "accepted"}
    /\ \E m \in net :
          LET f == m.fork
              d == SignalingTransition(Known(f), m.body)
              known == [early EXCEPT ![f] = d]
              heard == [caller EXCEPT !.transaction = "accepted",
                                      !.heard = @ \cup {f}]
          IN
          /\ m.kind = "2xx"
          /\ f \notin caller.heard
          /\ CASE caller.dialog # None ->
                    /\ early' = known /\ caller' = heard /\ AckAndBye(f)
               [] caller.dialog = None /\ caller.cancel # "no" ->
                    /\ early' = DisposeEarlyMedia(known)
                    /\ caller' = [heard EXCEPT !.state = "Terminated"]
                    /\ AckAndBye(f)
               [] /\ caller.dialog = None /\ caller.cancel = "no"
                  /\ caller.state # "Establishing" ->
                    /\ early' = DisposeEarlyMedia(known)
                    /\ caller' = heard /\ UNCHANGED net
               [] OTHER ->
                    CASE d.signaling \in {"Initial", "HaveLocalOffer"} ->
                           /\ early' = DisposeEarlyMedia(known)
                           /\ caller' = [heard EXCEPT !.state = "Terminated",
                                                      !.dialog = f]
                           /\ AckAndBye(f)
                      [] d.signaling = "HaveRemoteOffer" ->
                           /\ early' = [known EXCEPT ![f].answers = @ + 1]
                           /\ caller' = [heard EXCEPT !.dialog = f,
                                         !.applying = @ \cup {"offer"}]
                           /\ UNCHANGED net
                      [] OTHER -> OnAcceptStable(f, known, heard)
    /\ CallerOnly

AcceptApplies == caller.applying \cap {"answer", "offer"} # {}

(* A mutant of AcceptIsApplied.                                            *)
AcceptIsAppliedAlone ==
    LET f == caller.dialog IN
    /\ AcceptApplies
    /\ IF caller.state = "Establishing"
       THEN /\ caller' = [caller EXCEPT !.applying = @ \cap {"early"},
                                        !.state = "Established"]
            /\ Acks(f)
       ELSE /\ caller' = [caller EXCEPT !.applying = @ \cap {"early"},
                                        !.state = "Terminated"]
            /\ AckAndBye(f)
    /\ UNCHANGED early /\ CallerOnly

(* The description of the 2xx is applied: the ACK, and the session is      *)
(* Established unless it was canceled or terminated meanwhile.             *)
AcceptIsApplied ==
    LET f == caller.dialog IN
    /\ AcceptApplies
    /\ IF caller.state = "Establishing"
       THEN /\ caller' = [caller EXCEPT !.applying = @ \cap {"early"},
                                        !.state = "Established"]
            /\ Acks(f)
       ELSE /\ caller' = [caller EXCEPT !.applying = @ \cap {"early"},
                                        !.state = "Terminated"]
            /\ AckAndBye(f)
    /\ early' = DisposeEarlyMedia(early)
    /\ CallerOnly

AcceptIsNotApplied ==
    /\ AcceptApplies
    /\ caller' = [caller EXCEPT !.applying = @ \cap {"early"},
                                !.state = "Terminated"]
    /\ early' = DisposeEarlyMedia(early)
    /\ AckAndBye(caller.dialog)
    /\ CallerOnly

Cancels ==
    /\ caller.state = "Establishing"
    /\ caller' = [caller EXCEPT
                     !.state = "Terminating",
                     !.cancel = IF caller.transaction = "early" THEN "sent"
                                ELSE "armed"]
    /\ UNCHANGED <<early, net>> /\ CallerOnly

(* The proxy has the refusals of all forks: the early dialogs are over.    *)
RefusalArrives ==
    /\ caller.transaction = "early"
    /\ \A f \in Fork : Message("refusal", f, 0, "none") \in net
    /\ early' = DisposeEarlyMedia(
                  [f \in Fork |-> [early[f] EXCEPT
                     !.signaling = IF @ = "none" THEN @ ELSE "Closed"]])
    /\ caller' = [caller EXCEPT !.transaction = "over", !.state = "Terminated"]
    /\ UNCHANGED net /\ CallerOnly
-----------------------------------------------------------------------------
ProgressSettles(f) == ProgressIsSent(f) \/ ProgressFails(f)

AcceptSettles(f) == AcceptIsSent(f) \/ AcceptFails(f)

PrackSettles(f) == PrackIsApplied(f) \/ PrackFails(f)

CalleeNext(f) ==
    \/ CalleeProgresses(f)
    \/ ProgressSettles(f)
    \/ CalleeAccepts(f)
    \/ AcceptSettles(f)
    \/ PrackArrives(f)
    \/ PrackSettles(f)
    \/ PrackWaitTimeout(f)
    \/ Rel1xxRetransmissionFails(f)
    \/ CalleeRejects(f)
    \/ CancelArrives(f)

CallerNext ==
    \/ ProvisionalArrives
    \/ \E f \in Fork : EarlyAnswered(f) \/ EarlyAnswerFails(f)
    \/ EarlyMediaApplied
    \/ EarlyMediaFails
    \/ AcceptArrives
    \/ AcceptIsApplied
    \/ AcceptIsNotApplied
    \/ Cancels
    \/ RefusalArrives

Next == CallerNext \/ \E f \in Fork : CalleeNext(f)

(* The callee's handler settles what it is asked for, and its browser runs *)
(* the timer; network, caller and applications promise nothing.            *)
Fairness ==
    \A f \in Fork :
        /\ WF_vars(ProgressSettles(f))
        /\ WF_vars(AcceptSettles(f))
        /\ WF_vars(PrackSettles(f))
        /\ WF_vars(PrackWaitTimeout(f))

Spec == Init /\ [][Next]_vars /\ Fairness
-----------------------------------------------------------------------------
(* Properties                                                              *)

(* No callee answers 2xx while a reliable provisional of its own that has  *)
(* a description is unacknowledged, as invitation.ts:583-589 demands:      *)
(* waitForArrivalOfPrack, against accept() at every point of progress().   *)
(* Without a description it may: a second provisional, sent while the      *)
(* answer in the first PRACK is applied, is not waited for.                *)
AcceptWaitsForPrack ==
    \A m, n \in net :
        /\ m.kind = "2xx" /\ n.kind = "1xx" /\ m.fork = n.fork
        /\ n.body # "none"
        => n.rseq \in callee[m.fork].pracked

(* An accept() that waits for a PRACK is settled by its arrival, by the    *)
(* refusal of the answer in it, by the timeout or by the end of the call.  *)
AcceptEnds ==
    \A f \in Fork : callee[f].state = "Establishing"
                       ~> callee[f].state # "Establishing"

(* However its responses repeat, race and fork, the caller answers the     *)
(* offer of a fork once: no second handler is made for it by a repeated    *)
(* 183 or by a 2xx that comes while the first answer is made.              *)
OneAnswerPerOffer == \A f \in Fork : early[f].answers <= 1

(* Once the call is up or over, no handler of an early dialog keeps its    *)
(* connection and the microphone: inviter.ts:679-683 and dispose().        *)
NoEarlyHandlerLeft ==
    caller.state \in {"Established", "Terminated"} =>
        \A f \in Fork : early[f].handler \notin {"answering", "open"}

(* Violated.  invite-user-agent-client.ts:307 "MUST generate an ACK request*)
(* for each 2xx": once none is being applied, each has been acknowledged.  *)
AcceptIsAcked ==
    ~AcceptApplies =>
        \A f \in caller.heard : Message("ACK", f, 0, "none") \in net
=============================================================================
