------------------------------- MODULE ReInvite -------------------------------
(***************************************************************************)
(* Both ends of an established call that renegotiate it: Session.invite(), *)
(* onInviteRequest and onAckRequest of src/api/session.ts on the dialogs   *)
(* of src/core/dialogs/session-dialog.ts, with the offer/answer state of   *)
(* those, the session description handlers, and messages that may overtake *)
(* one another or never arrive.                                            *)
(*                                                                         *)
(* A body is named by the negotiation it belongs to, <<who sent the        *)
(* INVITE, its number>>: what a handler answers is an answer to the offer  *)
(* it was given.  A call of the handler takes effect when its promise      *)
(* settles, a rollback when it is called, and any may fail.                *)
(***************************************************************************)
EXTENDS Integers

CONSTANTS
    CallerInvites,  \* bound: the re-INVITEs that the caller sends
    CalleeInvites,  \* bound: the re-INVITEs that the callee sends
    HasRollback     \* does the handler implement rollbackDescription?

VARIABLES
    dialog,     \* [Side -> [signaling, offer, answer, before, client, server,
                \*           ackProcessing, sent, heard]], the SessionDialog
    session,    \* [Side -> [pendingReinvite, withoutSdp, work, proceeding,
                \* lost]]: the last two say that its re-INVITE has had only a
                \* provisional response, and that nothing follows its end
    sdh,        \* the handlers: stable, or with a local or a remote offer
    net,        \* the messages under way
    lapsed      \* has a re-INVITE timed out?

vars == <<dialog, session, sdh, net, lapsed>>

Side == {"caller", "callee"}

Other(s) == IF s = "caller" THEN "callee" ELSE "caller"

MaxInvites(s) == IF s = "caller" THEN CallerInvites ELSE CalleeInvites

Number == 0..CallerInvites \cup 0..CalleeInvites

None == <<>>

Initial == <<"caller", 0>>

Negotiation == Side \X Number

Signaling == {"stable", "localOffer", "remoteOffer", "closed"}

(* The promises of a session that may be pending, named for what waits.    *)
Work == {"offer",                        \* invite(): getOffer
         "setAnswer", "getAnswer",       \* onAccept, with and without SDP
         "undo",                         \* onReject: rollbackOffer
         "replyOffer", "replyAnswer",    \* onInviteRequest
         "undoReply",                    \* its catch: rollbackOffer
         "ackAnswer"}                    \* onAckRequest: setAnswer

Message ==
    [type : {"INVITE", "2xx", "refusal", "ACK", "BYE"}, to : Side, n : Number,
     body : Negotiation \cup {None}]

Msg(type, to, n, body) == [type |-> type, to |-> to, n |-> n, body |-> body]

TypeOK ==
    /\ dialog \in
         [Side -> [signaling : Signaling, offer : Negotiation,
                   answer : Negotiation \cup {None},
                   before : [offer : Negotiation, answer : Negotiation],
                   client : Number, server : Number, ackProcessing : BOOLEAN,
                   sent : Number, heard : Number]]
    /\ session \in [Side -> [pendingReinvite : BOOLEAN, withoutSdp : BOOLEAN,
                             work : SUBSET Work, proceeding : BOOLEAN,
                             lost : BOOLEAN]]
    /\ sdh \in [Side -> {"stable", "local", "remote"}]
    /\ net \subseteq Message
    /\ lapsed \in BOOLEAN

(* The call was just established: its INVITE is acknowledged.              *)
Init ==
    /\ dialog = [s \in Side |->
         [signaling |-> "stable", offer |-> Initial, answer |-> Initial,
          before |-> [offer |-> Initial, answer |-> Initial], client |-> 0,
          server |-> 0, ackProcessing |-> FALSE, sent |-> 0, heard |-> 0]]
    /\ session = [s \in Side |-> [pendingReinvite |-> FALSE,
                                  withoutSdp |-> FALSE, work |-> {},
                                  proceeding |-> FALSE, lost |-> FALSE]]
    /\ sdh = [s \in Side |-> "stable"]
    /\ net = {}
    /\ lapsed = FALSE
-----------------------------------------------------------------------------
(* The dialog                                                              *)

(* A session is Terminated in the step that closes its dialog.             *)
Live(s) == dialog[s].signaling # "closed"

(* signalingStateTransition: a body is an offer or an answer by the state  *)
(* it comes in, and ignored if an offer of that side is there already.     *)
Take(d, body, offered) ==
    IF body = None \/ d.signaling \in {offered, "closed"} THEN d
    ELSE IF d.signaling = "stable"
    THEN [d EXCEPT !.signaling = offered, !.offer = body, !.answer = None,
                   !.before = [offer |-> d.offer, answer |-> d.answer]]
    ELSE [d EXCEPT !.signaling = "stable", !.answer = body]

Received(d, body) == Take(d, body, "remoteOffer")

Sent(d, body) == Take(d, body, "localOffer")

Rollback(d) ==
    IF d.signaling \in {"localOffer", "remoteOffer"}
    THEN [d EXCEPT !.signaling = "stable", !.offer = d.before.offer,
                   !.answer = d.before.answer]
    ELSE d

Closed(d) == [d EXCEPT !.signaling = "closed"]

Bye(s) == Msg("BYE", Other(s), 0, None)

Ack(s, body) == Msg("ACK", Other(s), dialog[s].client, body)

Acked(d, body) == Sent([d EXCEPT !.client = 0], body)

(* A mutant of MayInvite.                                                  *)
MayInviteUnserved(d) == d.client = 0

(* SessionDialog.invite throws while a re-INVITE of either side is going   *)
(* on.                                                                     *)
MayInvite(d) == d.client = 0 /\ d.server = 0

(* The sequence number of the next request.                                *)
NextNumber(d) == d.sent + 1

Invited(s, body) ==
    LET n == NextNumber(dialog[s]) IN
        /\ dialog' = [dialog EXCEPT ![s] =
                        Sent([@ EXCEPT !.client = n, !.sent = n], body)]
        /\ net' = net \cup {Msg("INVITE", Other(s), n, body)}
-----------------------------------------------------------------------------
(* The session description handler                                         *)

(* getDescription makes an offer, or an answer to the offer it holds; with *)
(* an offer of its own outstanding it refuses.                             *)
Offers(s) ==
    /\ sdh[s] # "local"
    /\ sdh' = [sdh EXCEPT ![s] = IF @ = "stable" THEN "local" ELSE "stable"]

(* setDescription takes what comes for an offer, or for an answer if an    *)
(* offer of its own is outstanding; a second offer it refuses.             *)
Takes(s) ==
    /\ sdh[s] # "remote"
    /\ sdh' = [sdh EXCEPT ![s] = IF @ = "local" THEN "stable" ELSE "remote"]

(* An offer is refused as an answer, so that setDescription and            *)
(* getDescription one after the other need a stable handler.               *)
Answers(s) == sdh[s] = "stable" /\ UNCHANGED sdh

(* Of the two the second may fail alone.                                   *)
FailsToAnswer(s) ==
    \/ UNCHANGED sdh
    \/ sdh[s] = "stable" /\ sdh' = [sdh EXCEPT ![s] = "remote"]

RolledBack(s) == IF HasRollback THEN [sdh EXCEPT ![s] = "stable"] ELSE sdh

Settled(s, w) == [session EXCEPT ![s].work = @ \ {w}]
-----------------------------------------------------------------------------
(* The side that sends a re-INVITE: Session.invite()                       *)

InviteFor(s) == {m \in net : m.type = "INVITE" /\ m.to = s}

MayRenegotiate(s) ==
    Live(s) /\ ~session[s].pendingReinvite /\ dialog[s].sent < MaxInvites(s)

(* With an offer, which the handler makes first.                           *)
Renegotiate(s) ==
    /\ MayRenegotiate(s)
    /\ session' = [session EXCEPT ![s].pendingReinvite = TRUE,
                                  ![s].withoutSdp = FALSE,
                                  ![s].work = @ \cup {"offer"}]
    /\ UNCHANGED <<dialog, sdh, net, lapsed>>

(* Without: dialog.invite is called at once, and if it throws, so does     *)
(* invite(), and pendingReinvite stays.                                    *)
RenegotiateWithoutSdp(s) ==
    /\ MayRenegotiate(s)
    /\ session' = [session EXCEPT ![s].pendingReinvite = TRUE,
                                  ![s].withoutSdp = TRUE,
                                  ![s].lost = ~MayInvite(dialog[s])]
    /\ IF MayInvite(dialog[s]) THEN Invited(s, None)
                               ELSE UNCHANGED <<dialog, net>>
    /\ UNCHANGED <<sdh, lapsed>>

(* A mutant of NoLongerPending.                                            *)
StillPending(s, w) == Settled(s, w)

NoLongerPending(s, w) == [Settled(s, w) EXCEPT ![s].pendingReinvite = FALSE]

(* The offer is sent, even in a dialog that a BYE has closed meanwhile; if *)
(* a re-INVITE of the other side came first, it is left with the handler.  *)
OfferMade(s) ==
    /\ "offer" \in session[s].work
    /\ Offers(s)
    /\ IF MayInvite(dialog[s])
       THEN /\ Invited(s, <<s, NextNumber(dialog[s])>>)
            /\ session' = Settled(s, "offer")
       ELSE /\ session' = NoLongerPending(s, "offer")
            /\ UNCHANGED <<dialog, net>>
    /\ UNCHANGED lapsed

OfferFails(s) ==
    /\ "offer" \in session[s].work
    /\ session' = NoLongerPending(s, "offer")
    /\ UNCHANGED <<dialog, sdh, net, lapsed>>

(* onAccept: the answer is applied, or the offer answered, before the ACK. *)
ReceiveAccept(s) ==
    \E m \in net :
        /\ m.type = "2xx" /\ m.to = s
        /\ net' = net \ {m}
        /\ IF dialog[s].client = m.n
           THEN /\ dialog' = [dialog EXCEPT ![s] = Received(@, m.body)]
                /\ session' = [session EXCEPT
                     ![s].proceeding = FALSE,
                     ![s].work = @ \cup
                       {IF session[s].withoutSdp THEN "getAnswer"
                                                 ELSE "setAnswer"}]
           ELSE UNCHANGED <<dialog, session>>
        /\ UNCHANGED <<sdh, lapsed>>

Accepted(s, w, answer) ==
    /\ dialog' = [dialog EXCEPT ![s] = Acked(@, answer)]
    /\ net' = net \cup {Ack(s, answer)}
    /\ session' = NoLongerPending(s, w)
    /\ UNCHANGED lapsed

AnswerSet(s) ==
    /\ "setAnswer" \in session[s].work
    /\ Takes(s)
    /\ Accepted(s, "setAnswer", None)

AnswerMade(s) ==
    /\ "getAnswer" \in session[s].work
    /\ Answers(s)
    /\ Accepted(s, "getAnswer", <<s, dialog[s].client>>)

(* No way to recover: ackAndBye, or the ACK alone when the call is over.   *)
AnswerFails(s) ==
    \E w \in {"setAnswer", "getAnswer"} \cap session[s].work :
        /\ IF w = "getAnswer" THEN FailsToAnswer(s) ELSE UNCHANGED sdh
        /\ dialog' = [dialog EXCEPT ![s] = Closed(Acked(@, None))]
        /\ net' = net \cup {Ack(s, None)}
                      \cup (IF Live(s) THEN {Bye(s)} ELSE {})
        /\ session' = NoLongerPending(s, w)
        /\ UNCHANGED lapsed

(* A mutant of Rejected.                                                   *)
RejectedKept(s) ==
    /\ dialog' = [dialog EXCEPT ![s].client = 0]
    /\ session' = [session EXCEPT
                     ![s].pendingReinvite = FALSE,
                     ![s].proceeding = FALSE,
                     ![s].work = IF session[s].withoutSdp THEN @
                                 ELSE @ \cup {"undo"}]
    /\ sdh' = IF session[s].withoutSdp THEN sdh ELSE RolledBack(s)

(* onReject: the dialog is rolled back at once, the handler by a promise.  *)
Rejected(s) ==
    /\ dialog' = [dialog EXCEPT ![s] = Rollback([@ EXCEPT !.client = 0])]
    /\ session' = [session EXCEPT
                     ![s].pendingReinvite = FALSE,
                     ![s].proceeding = FALSE,
                     ![s].work = IF session[s].withoutSdp THEN @
                                 ELSE @ \cup {"undo"}]
    /\ sdh' = IF session[s].withoutSdp THEN sdh ELSE RolledBack(s)

ReceiveRefusal(s) ==
    \E m \in net :
        /\ m.type = "refusal" /\ m.to = s
        /\ net' = net \ {m}
        /\ IF dialog[s].client = m.n THEN Rejected(s)
                                     ELSE UNCHANGED <<dialog, session, sdh>>
        /\ UNCHANGED lapsed

(* A proxy answers the re-INVITE with a 3xx instead of passing it on: the  *)
(* dialog is rolled back, and onRedirect does nothing.                     *)
ReceiveRedirect(s) ==
    /\ \E m \in InviteFor(Other(s)) :
           m.n = dialog[s].client /\ net' = net \ {m}
    /\ dialog' = [dialog EXCEPT ![s] = Rollback([@ EXCEPT !.client = 0])]
    /\ session' = [session EXCEPT ![s].lost = TRUE, ![s].proceeding = FALSE]
    /\ UNCHANGED <<sdh, lapsed>>

(* No final response to its re-INVITE has come.                            *)
Outstanding(s) ==
    /\ dialog[s].client # 0
    /\ session[s].work \cap {"setAnswer", "getAnswer"} = {}

(* A provisional response, which stops timer B.                            *)
ReceiveProgress(s) ==
    /\ Outstanding(s)
    /\ session' = [session EXCEPT ![s].proceeding = TRUE]
    /\ UNCHANGED <<dialog, sdh, net, lapsed>>

(* Timer B of the client transaction, or a transport that fails: the       *)
(* client makes up a 408 or a 503.                                         *)
ReinviteTimesOut(s) ==
    /\ Outstanding(s)
    /\ ~session[s].proceeding
    /\ Rejected(s)
    /\ lapsed' = TRUE
    /\ UNCHANGED net

Undone(s) ==
    /\ "undo" \in session[s].work
    /\ session' = Settled(s, "undo")
    /\ UNCHANGED <<dialog, sdh, net, lapsed>>

(* A rollback that fails ends the call.                                    *)
UndoFails(s) ==
    /\ HasRollback
    /\ "undo" \in session[s].work
    /\ session' = Settled(s, "undo")
    /\ dialog' = [dialog EXCEPT ![s] = Closed(@)]
    /\ net' = net \cup (IF Live(s) THEN {Bye(s)} ELSE {})
    /\ UNCHANGED <<sdh, lapsed>>
-----------------------------------------------------------------------------
(* The side that receives it: receiveRequest and onInviteRequest           *)

Refused(m) == (net \ {m}) \cup {Msg("refusal", Other(m.to), m.n, None)}

(* The core refuses it with 481 when the dialog is gone.                   *)
ReceiveStrayInvite(s) ==
    /\ ~Live(s)
    /\ \E m \in InviteFor(s) : net' = Refused(m)
    /\ UNCHANGED <<dialog, session, sdh, lapsed>>

(* sequenceGuard, and a 500 to what it stops.                              *)
OutOfOrder(d, n) == n <= d.heard

Heard(d, n) == [d EXCEPT !.heard = n]

ReceiveLateInvite(s) ==
    /\ Live(s)
    /\ \E m \in InviteFor(s) : OutOfOrder(dialog[s], m.n) /\ net' = Refused(m)
    /\ UNCHANGED <<dialog, session, sdh, lapsed>>

(* 500 to a second one and while an ACK is being processed, 491 when two   *)
(* cross.                                                                  *)
MustRefuse(d) == d.ackProcessing \/ d.server # 0 \/ d.client # 0

ReceiveInvite(s) ==
    /\ Live(s)
    /\ \E m \in InviteFor(s) :
        LET d == Heard(dialog[s], m.n)
            served == Received([d EXCEPT !.server = m.n], m.body)
        IN  /\ ~OutOfOrder(dialog[s], m.n)
            /\ IF MustRefuse(d)
               THEN /\ dialog' = [dialog EXCEPT ![s] = d]
                    /\ net' = Refused(m)
                    /\ UNCHANGED session
               ELSE /\ dialog' = [dialog EXCEPT ![s] = served]
                    /\ net' = net \ {m}
                    /\ session' = [session EXCEPT ![s].work = @ \cup
                         {IF served.signaling = "stable" THEN "replyOffer"
                                                         ELSE "replyAnswer"}]
    /\ UNCHANGED <<sdh, lapsed>>

(* accept: the 200 carries the answer, or an offer of this side's.         *)
Reply(s) ==
    \E w \in {"replyOffer", "replyAnswer"} \cap session[s].work :
        LET body == <<Other(s), dialog[s].server>> IN
            /\ IF w = "replyOffer" THEN Offers(s) ELSE Answers(s)
            /\ net' = net \cup {Msg("2xx", Other(s), dialog[s].server, body)}
            /\ dialog' = [dialog EXCEPT ![s] = Sent(@, body)]
            /\ session' = Settled(s, w)
            /\ UNCHANGED lapsed

Refuse(s, d) ==
    /\ dialog' = [dialog EXCEPT ![s] = [d EXCEPT !.server = 0]]
    /\ net' = net \cup {Msg("refusal", Other(s), dialog[s].server, None)}

(* Its catch: refused at once without an offer to roll back, else after.   *)
ReplyFails(s) ==
    \E w \in {"replyOffer", "replyAnswer"} \cap session[s].work :
        /\ IF dialog[s].signaling = "stable"
           THEN /\ Refuse(s, dialog[s])
                /\ session' = Settled(s, w)
                /\ UNCHANGED sdh
           ELSE /\ session' = [Settled(s, w) EXCEPT
                                 ![s].work = @ \cup {"undoReply"}]
                /\ IF HasRollback THEN sdh' = RolledBack(s)
                   ELSE IF w = "replyAnswer" THEN FailsToAnswer(s)
                   ELSE UNCHANGED sdh
                /\ UNCHANGED <<dialog, net>>
        /\ UNCHANGED lapsed

ReplyUndone(s) ==
    /\ "undoReply" \in session[s].work
    /\ Refuse(s, Rollback(dialog[s]))
    /\ session' = Settled(s, "undoReply")
    /\ UNCHANGED <<sdh, lapsed>>

ReplyUndoFails(s) ==
    /\ HasRollback
    /\ "undoReply" \in session[s].work
    /\ dialog' = [dialog EXCEPT ![s] = Closed([@ EXCEPT !.server = 0])]
    /\ net' = net \cup {Msg("refusal", Other(s), dialog[s].server, None)}
                  \cup (IF Live(s) THEN {Bye(s)} ELSE {})
    /\ session' = Settled(s, "undoReply")
    /\ UNCHANGED <<sdh, lapsed>>

(* receiveRequest and onAckRequest: the answer in the ACK is applied; an   *)
(* ACK that leaves an offer unanswered ends the call.                      *)
ReceiveAck(s) ==
    \E m \in net :
        /\ m.type = "ACK" /\ m.to = s
        /\ IF ~Live(s) \/ dialog[s].server # m.n
           THEN /\ net' = net \ {m}
                /\ UNCHANGED <<dialog, session>>
           ELSE LET d == Received([dialog[s] EXCEPT !.server = 0], m.body) IN
                IF d.signaling # "stable"
                THEN /\ dialog' = [dialog EXCEPT ![s] = Closed(d)]
                     /\ net' = (net \ {m}) \cup {Bye(s)}
                     /\ UNCHANGED session
                ELSE /\ net' = net \ {m}
                     /\ dialog' = [dialog EXCEPT ![s] =
                          [d EXCEPT !.ackProcessing = m.body # None]]
                     /\ session' = [session EXCEPT ![s].work =
                          IF m.body = None THEN @ ELSE @ \cup {"ackAnswer"}]
        /\ UNCHANGED <<sdh, lapsed>>

AckAnswerSet(s) ==
    /\ "ackAnswer" \in session[s].work
    /\ Takes(s)
    /\ dialog' = [dialog EXCEPT ![s].ackProcessing = FALSE]
    /\ session' = Settled(s, "ackAnswer")
    /\ UNCHANGED <<net, lapsed>>

(* The BYE is sent even if the call is over by then.                       *)
AckAnswerFails(s) ==
    /\ "ackAnswer" \in session[s].work
    /\ dialog' = [dialog EXCEPT ![s] = Closed([@ EXCEPT
                                               !.ackProcessing = FALSE])]
    /\ net' = net \cup {Bye(s)}
    /\ session' = Settled(s, "ackAnswer")
    /\ UNCHANGED <<sdh, lapsed>>
-----------------------------------------------------------------------------
(* The end of the call: Session.bye() and onByeRequest                     *)

Hangup(s) ==
    /\ Live(s)
    /\ dialog' = [dialog EXCEPT ![s] = Closed(@)]
    /\ net' = net \cup {Bye(s)}
    /\ UNCHANGED <<session, sdh, lapsed>>

ReceiveBye(s) ==
    /\ Bye(Other(s)) \in net
    /\ net' = net \ {Bye(Other(s))}
    /\ dialog' = [dialog EXCEPT ![s] = Closed(@)]
    /\ UNCHANGED <<session, sdh, lapsed>>

(* The handler's promises settle and timer B fires.                        *)
Settles(s) ==
    \/ OfferMade(s)
    \/ OfferFails(s)
    \/ AnswerSet(s)
    \/ AnswerMade(s)
    \/ AnswerFails(s)
    \/ Undone(s)
    \/ UndoFails(s)
    \/ Reply(s)
    \/ ReplyFails(s)
    \/ ReplyUndone(s)
    \/ ReplyUndoFails(s)
    \/ AckAnswerSet(s)
    \/ AckAnswerFails(s)

Next == \E s \in Side :
    \/ Renegotiate(s)
    \/ RenegotiateWithoutSdp(s)
    \/ ReceiveAccept(s)
    \/ ReceiveRefusal(s)
    \/ ReceiveRedirect(s)
    \/ ReceiveProgress(s)
    \/ ReinviteTimesOut(s)
    \/ ReceiveStrayInvite(s)
    \/ ReceiveLateInvite(s)
    \/ ReceiveInvite(s)
    \/ ReceiveAck(s)
    \/ Hangup(s)
    \/ ReceiveBye(s)
    \/ Settles(s)

Fairness ==
    \A s \in Side :
        /\ WF_vars(OfferMade(s) \/ OfferFails(s))
        /\ WF_vars(AnswerSet(s) \/ AnswerMade(s) \/ AnswerFails(s))
        /\ WF_vars(ReinviteTimesOut(s))

Spec == Init /\ [][Next]_vars /\ Fairness
-----------------------------------------------------------------------------
(* Properties                                                              *)

Idle(s) ==
    session[s].work = {} /\ dialog[s].client = 0 /\ dialog[s].server = 0

(* "There may be ONLY ONE offer/answer negotiation in progress for a single*)
(* dialog at any point in time" (session-dialog.ts:522-523): of two        *)
(* re-INVITEs that cross, the two ends never serve both.                   *)
OneNegotiation == lapsed \/ \E s \in Side : dialog[s].server = 0

(* When all is said and both ends are up, no re-INVITE is left over in the *)
(* dialogs and both hold the same agreed description, whatever crossed,    *)
(* failed or was refused; unless a re-INVITE timed out that was served.    *)
AgreeWhenQuiet ==
    /\ net = {} /\ ~lapsed
    /\ \A s \in Side : Live(s) /\ session[s].work = {}
    => /\ \A s \in Side : Idle(s) /\ dialog[s].signaling = "stable"
       /\ dialog["caller"].offer = dialog["callee"].offer

(* invite() ends: the session may be renegotiated again, however the other *)
(* end answers or fails to, the handler fails and the re-INVITEs cross.    *)
(* Three re-INVITEs are excepted: one that is redirected, and one that     *)
(* throws without SDP (pendingReinvite stays for good), and one that gets a*)
(* provisional response and no other (nothing times out).                  *)
ReinviteSettles ==
    \A s \in Side :
        \/ []<>(~session[s].pendingReinvite \/ session[s].lost)
        \/ <>[]session[s].proceeding

(* Violated.  pendingReinvite is "True if there is an outgoing re-INVITE   *)
(* request outstanding" (session.ts:101).                                  *)
PendingIsOutstanding ==
    \A s \in Side :
        session[s].pendingReinvite =>
            "offer" \in session[s].work \/ dialog[s].client # 0

(* Violated.  After a non-2xx response to a re-INVITE "the session         *)
(* parameters MUST remain unchanged, as if no re-INVITE had been issued"   *)
(* (re-invite-user-agent-client.ts:93-94): no offer is left with a handler.*)
NoOfferLeft ==
    \A s \in Side :
        Live(s) /\ Idle(s) /\ ~session[s].pendingReinvite => sdh[s] = "stable"
=============================================================================
