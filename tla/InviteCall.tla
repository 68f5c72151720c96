------------------------------ MODULE InviteCall ------------------------------
(***************************************************************************)
(* A call between two SIP.js user agents, from the INVITE to the BYE: an   *)
(* Inviter on its INVITE client transaction, an Invitation on its INVITE   *)
(* server transaction, the SessionDialogs of both, and between them a      *)
(* network that loses, repeats and reorders.  A proxy may fork the INVITE: *)
(* the other branches are outside this program and answer 2xx or never.    *)
(*                                                                         *)
(* Offers and answers are made by promises (the session description        *)
(* handler), so that the user, a CANCEL or a BYE may come in between: the  *)
(* flags `answering` are the pending ones.                                 *)
(***************************************************************************)
EXTENDS Integers, FiniteSets

CONSTANTS
    Callee,         \* the branch that reaches the other user agent
    Fork,           \* the other branches of the INVITE
    MaxSending      \* bound: sends of a transaction not settled at a time

(* The Callee is a branch of its own; `none` stands for no branch.         *)
ASSUME BranchAssumption ==
    Callee \notin Fork /\ "none" \notin {Callee} \cup Fork

VARIABLES
    ict, heard,     \* the client transaction and what its user heard
    inviter,        \* [state, canceled, cancel, dialog, answering, threw]
    dialogs,        \* the caller's confirmed dialogs, one per branch
    ist, told,      \* the server transaction and what its user was told
    invitation,     \* [state, answering, dialog, ackWait, hangup, threw]
    net             \* what was sent: it may arrive at any time, repeatedly

callerVars == <<ict, heard, inviter, dialogs>>
calleeVars == <<ist, told, invitation>>
vars == <<ict, heard, inviter, dialogs, ist, told, invitation, net>>

Branch == {Callee} \cup Fork

Client == INSTANCE InviteClientTransaction WITH
    Tag <- Branch, tx <- ict, tu <- heard

Server == INSTANCE InviteServerTransaction WITH tx <- ist, tu <- told

SessionState ==
    {"Initial", "Establishing", "Established", "Terminating", "Terminated"}

Dialog == {"none", "open", "closed"}

(* A CANCEL is wanted (its once listener waits), sent, or was dropped.     *)
Cancel == {"no", "armed", "sent", "lost"}

Message ==
    [type : {"INVITE", "CANCEL", "refusal", "ackRefusal", "100", "1xx"}]
    \cup [type : {"2xx", "ACK", "BYE"}, branch : Branch]
    \cup [type : {"calleeBYE"}]

Msg(t) == [type |-> t]

On(t, branch) == [type |-> t, branch |-> branch]

TypeOK ==
    /\ Client!TypeOK
    /\ inviter \in [state : SessionState, canceled : BOOLEAN, cancel : Cancel,
                    dialog : Branch \cup {"none"}, answering : BOOLEAN,
                    threw : BOOLEAN]
    /\ dialogs \in [Branch -> Dialog]
    /\ Server!TypeOK
    /\ invitation \in [state : SessionState \cup {"absent"},
                       answering : BOOLEAN, dialog : Dialog,
                       ackWait : BOOLEAN, hangup : BOOLEAN, threw : BOOLEAN]
    /\ net \subseteq Message

(* Inviter.invite() has sent the INVITE.                                   *)
Init ==
    /\ Client!Init
    /\ inviter = [state |-> "Establishing", canceled |-> FALSE, cancel |-> "no",
                  dialog |-> "none", answering |-> FALSE, threw |-> FALSE]
    /\ dialogs = [b \in Branch |-> "none"]
    /\ Server!Init
    /\ invitation = [state |-> "absent", answering |-> FALSE, dialog |-> "none",
                     ackWait |-> FALSE, hangup |-> FALSE, threw |-> FALSE]
    /\ net = {Msg("INVITE")}

(* stateTransition of session.ts: the code throws on a transition that is  *)
(* not allowed, and stays where it is.                                     *)
Allowed(s) ==
    CASE s = "Initial"      -> SessionState \ {"Initial"}
      [] s = "Establishing" -> {"Established", "Terminating", "Terminated"}
      [] s = "Established"  -> {"Terminating", "Terminated"}
      [] s = "Terminating"  -> {"Terminated"}
      [] OTHER              -> {}

Transition(session, s) ==
    IF s \in Allowed(session.state) THEN [session EXCEPT !.state = s]
                                    ELSE [session EXCEPT !.threw = TRUE]
-----------------------------------------------------------------------------
(* The caller                                                              *)

(* The once listener of UserAgentClient.cancel is gone after the first     *)
(* change of the transaction's state, whatever the change was.             *)
Notified(i, s) ==
    [i EXCEPT !.cancel = IF @ = "armed"
                         THEN IF s = "Proceeding" THEN "sent" ELSE "lost"
                         ELSE @]

CancelMessages(i) == IF i.cancel = "sent" THEN {Msg("CANCEL")} ELSE {}

(* onReject and onRedirect.                                                *)
Rejected(i) ==
    IF i.state \in {"Establishing", "Terminating"}
    THEN [i EXCEPT !.state = "Terminated"]
    ELSE i

CallerProvisional ==
    /\ net \cap {Msg("100"), Msg("1xx")} # {}
    /\ Client!ReceiveProvisional
    /\ inviter' = Notified(inviter, "Proceeding")
    /\ net' = net \cup CancelMessages(inviter')
    /\ UNCHANGED <<dialogs, calleeVars>>

(* A proxy forwards a refusal when no branch has accepted.                 *)
CallerRefused ==
    /\ Msg("refusal") \in net
    /\ \A b \in Branch : On("2xx", b) \notin net
    /\ Client!ReceiveRefusal
    /\ inviter' = Rejected(Notified(inviter, "Completed"))
    /\ net' = net \cup {Msg("ackRefusal")}
    /\ UNCHANGED <<dialogs, calleeVars>>

(* The refusal again, or a 2xx again that is acknowledged from the cache.  *)
CallerRepeats ==
    /\ \/ Msg("refusal") \in net /\ Client!ReceiveRepeatedRefusal
       \/ \E b \in Branch :
             On("2xx", b) \in net /\ Client!ReceiveRepeated2xx(b)
    /\ UNCHANGED <<inviter, dialogs, calleeVars, net>>

(* The 2xx that the client transaction passes on: the first, or one of     *)
(* another branch while it is Accepted.                                    *)
New2xx(b) ==
    \/ ict.state \in Client!Early
    \/ ict.state = "Accepted" /\ ict.ack[b] = "absent"

Accepted2xx == IF ict.state = "Accepted" THEN ict ELSE Client!Enter(ict, "Accepted")

Notified2xx ==
    IF ict.state = "Accepted" THEN inviter ELSE Notified(inviter, "Accepted")

(* onAccept: a session that was canceled, or has its dialog already,       *)
(* acknowledges the 2xx and says BYE in the same step ...                  *)
CallerAcksAndByes(b) ==
    /\ On("2xx", b) \in net
    /\ New2xx(b)
    /\ Client!CanSend(ict)
    /\ inviter.dialog # "none" \/ inviter.canceled
    /\ ict' = Client!Send([Accepted2xx EXCEPT !.ack[b] = "acked"])
    /\ heard' = [heard EXCEPT !.accepts[b] = Client!Again(@)]
    /\ dialogs' = [dialogs EXCEPT ![b] = "closed"]
    /\ inviter' = IF inviter.dialog # "none" THEN Notified2xx
                  ELSE Transition(Notified2xx, "Terminated")
    /\ net' = net \cup {On("ACK", b), On("BYE", b)}
    /\ UNCHANGED calleeVars

(* A mutant of CallerTakesDialog.                                          *)
CallerTakesAnyDialog(b) ==
    /\ On("2xx", b) \in net
    /\ New2xx(b)
    /\ ~inviter.canceled
    /\ inviter.state = "Establishing"
    /\ ict' = [Accepted2xx EXCEPT !.ack[b] = "primed"]
    /\ heard' = [heard EXCEPT !.accepts[b] = Client!Again(@)]
    /\ dialogs' = [dialogs EXCEPT ![b] = "open"]
    /\ inviter' = [Notified2xx EXCEPT !.dialog = b, !.answering = TRUE]
    /\ UNCHANGED <<calleeVars, net>>

(* ... otherwise the dialog is taken and its answer applied.               *)
CallerTakesDialog(b) ==
    /\ On("2xx", b) \in net
    /\ New2xx(b)
    /\ inviter.dialog = "none"
    /\ ~inviter.canceled
    /\ inviter.state = "Establishing"
    /\ ict' = [Accepted2xx EXCEPT !.ack[b] = "primed"]
    /\ heard' = [heard EXCEPT !.accepts[b] = Client!Again(@)]
    /\ dialogs' = [dialogs EXCEPT ![b] = "open"]
    /\ inviter' = [Notified2xx EXCEPT !.dialog = b, !.answering = TRUE]
    /\ UNCHANGED <<calleeVars, net>>

(* A mutant of CallerAnswers.                                              *)
CallerAnswersAnyway ==
    /\ inviter.answering
    /\ Client!CanSend(ict)
    /\ ict' = Client!Send([ict EXCEPT !.ack[inviter.dialog] = "acked"])
    /\ inviter' = [inviter EXCEPT !.answering = FALSE, !.state = "Established"]
    /\ net' = net \cup {On("ACK", inviter.dialog)}
    /\ UNCHANGED <<heard, dialogs, calleeVars>>

(* setAnswer resolves: ACK and Established.  If the user canceled in the   *)
(* meantime, stateTransition throws after the ACK and the handler of the   *)
(* rejected promise acknowledges once more and says BYE; it does so too    *)
(* when setAnswer fails.                                                   *)
CallerAnswers ==
    /\ inviter.answering
    /\ inviter.state = "Establishing"
    /\ Client!CanSend(ict)
    /\ ict' = Client!Send([ict EXCEPT !.ack[inviter.dialog] = "acked"])
    /\ inviter' = [inviter EXCEPT !.answering = FALSE, !.state = "Established"]
    /\ net' = net \cup {On("ACK", inviter.dialog)}
    /\ UNCHANGED <<heard, dialogs, calleeVars>>

(* A mutant of CallerGivesUp.                                              *)
CallerGivesUpUnacked ==
    /\ inviter.answering
    /\ inviter' = [Transition(inviter, "Terminated") EXCEPT !.answering = FALSE]
    /\ dialogs' = [dialogs EXCEPT ![inviter.dialog] = "closed"]
    /\ net' = net \cup {On("BYE", inviter.dialog)}
    /\ UNCHANGED <<ict, heard, calleeVars>>

CallerGivesUp ==
    /\ inviter.answering
    /\ \E acks \in IF inviter.state = "Terminating" THEN {1, 2} ELSE {1} :
          /\ ict.sending + acks <= MaxSending
          /\ ict' = [ict EXCEPT !.ack[inviter.dialog] = "acked",
                                !.sending = @ + acks]
    /\ inviter' = [Transition(inviter, "Terminated") EXCEPT !.answering = FALSE]
    /\ dialogs' = [dialogs EXCEPT ![inviter.dialog] = "closed"]
    /\ net' = net \cup {On("ACK", inviter.dialog), On("BYE", inviter.dialog)}
    /\ UNCHANGED <<heard, calleeVars>>

(* A mutant of CallerCancels.                                              *)
CallerCancelsUnarmed ==
    /\ inviter.state = "Establishing"
    /\ inviter' = [inviter EXCEPT
                     !.state = "Terminating", !.canceled = TRUE,
                     !.cancel = IF ict.state = "Proceeding" THEN "sent"
                                ELSE "lost"]
    /\ net' = net \cup CancelMessages(inviter')
    /\ UNCHANGED <<ict, heard, dialogs, calleeVars>>

(* The user: Inviter.cancel() and Session.bye().                           *)
CallerCancels ==
    /\ inviter.state = "Establishing"
    /\ inviter' = [inviter EXCEPT
                     !.state = "Terminating", !.canceled = TRUE,
                     !.cancel = IF ict.state = "Proceeding" THEN "sent"
                                ELSE "armed"]
    /\ net' = net \cup CancelMessages(inviter')
    /\ UNCHANGED <<ict, heard, dialogs, calleeVars>>

CallerByes ==
    /\ inviter.state = "Established"
    /\ dialogs[inviter.dialog] = "open"
    /\ inviter' = [inviter EXCEPT !.state = "Terminated"]
    /\ dialogs' = [dialogs EXCEPT ![inviter.dialog] = "closed"]
    /\ net' = net \cup {On("BYE", inviter.dialog)}
    /\ UNCHANGED <<ict, heard, calleeVars>>

(* A BYE for an open dialog closes it.  The session hears of it when it is *)
(* Established; otherwise it drops the BYE.                                *)
CallerReceivesBye ==
    /\ Msg("calleeBYE") \in net
    /\ dialogs[Callee] = "open"
    /\ dialogs' = [dialogs EXCEPT ![Callee] = "closed"]
    /\ inviter' = IF inviter.dialog = Callee /\ inviter.state = "Established"
                  THEN [inviter EXCEPT !.state = "Terminated"]
                  ELSE inviter
    /\ UNCHANGED <<ict, heard, calleeVars, net>>

(* Timer B is a 408 to the session; D and M concern the transaction only.  *)
CallerTimerB ==
    /\ Client!TimerB
    /\ inviter' = Rejected(Notified(inviter, "Terminated"))
    /\ UNCHANGED <<dialogs, calleeVars, net>>

CallerTimers ==
    /\ Client!TimerD \/ Client!TimerM
    /\ inviter' = Notified(inviter, "Terminated")
    /\ UNCHANGED <<dialogs, calleeVars, net>>

CallerSent ==
    /\ Client!Sent
    /\ UNCHANGED <<inviter, dialogs, calleeVars, net>>

(* A failed send is a 503 to the session while Calling, and is taken for a *)
(* lost ACK in every other state.                                          *)
CallerSendFails ==
    /\ Client!SendFails
    /\ inviter' = IF ict.state = "Calling"
                  THEN Notified(Rejected(inviter), "Terminated")
                  ELSE Notified(inviter, "Terminated")
    /\ UNCHANGED <<dialogs, calleeVars, net>>

Caller ==
    \/ CallerProvisional
    \/ CallerRefused
    \/ CallerRepeats
    \/ \E b \in Branch : CallerAcksAndByes(b) \/ CallerTakesDialog(b)
    \/ CallerAnswers
    \/ CallerGivesUp
    \/ CallerCancels
    \/ CallerByes
    \/ CallerReceivesBye
    \/ CallerTimerB
    \/ CallerTimers
    \/ CallerSent
    \/ CallerSendFails
-----------------------------------------------------------------------------
(* The callee                                                              *)

Ringing == {"Initial", "Establishing"}

(* UserAgent.onInvite: an Invitation, and a 100 at once.                   *)
InviteArrives ==
    /\ invitation.state = "absent"
    /\ Server!ReplyProvisional("100")
    /\ invitation' = [invitation EXCEPT !.state = "Initial"]
    /\ net' = net \cup {Msg("100")}
    /\ UNCHANGED callerVars

(* The INVITE again, while the server transaction lives.                   *)
InviteRepeats ==
    /\ invitation.state # "absent"
    /\ \E response \in Server!Provisional \cup Server!Final :
          Server!Resend(response)
    /\ UNCHANGED <<callerVars, invitation, net>>

CalleeProgresses ==
    /\ invitation.state = "Initial"
    /\ Server!ReplyProvisional("1xx")
    /\ net' = net \cup {Msg("1xx")}
    /\ UNCHANGED <<callerVars, invitation>>

(* Invitation.accept(), and the answer when it is ready: a 2xx and a       *)
(* dialog that waits for the ACK.                                          *)
CalleeAccepts ==
    /\ invitation.state = "Initial"
    /\ invitation' = [invitation EXCEPT !.state = "Establishing",
                                        !.answering = TRUE]
    /\ UNCHANGED <<callerVars, ist, told, net>>

CalleeAnswers ==
    /\ invitation.answering
    /\ Server!ReplyFirst2xx
    /\ invitation' = [Transition(invitation, "Established") EXCEPT
                        !.answering = FALSE, !.dialog = "open", !.ackWait = TRUE]
    /\ net' = net \cup {On("2xx", Callee)}
    /\ UNCHANGED callerVars

(* The INVITE was answered while the answer was being made: accept()       *)
(* throws and nothing is sent.                                             *)
CalleeAnswersTooLate ==
    /\ invitation.answering
    /\ ist.state # "Proceeding"
    /\ invitation' = [invitation EXCEPT !.answering = FALSE]
    /\ UNCHANGED <<callerVars, ist, told, net>>

Refuses(i) ==
    /\ Server!ReplyRefusal
    /\ invitation' = Transition(i, "Terminated")
    /\ net' = net \cup {Msg("refusal")}
    /\ UNCHANGED callerVars

(* Invitation.reject(), the no-answer timer and the Expires timer.         *)
CalleeRejects == invitation.state \in Ringing /\ Refuses(invitation)

CalleeNoAnswer == invitation.state = "Initial" /\ Refuses(invitation)

(* The answer cannot be made: handleResponseError refuses.                 *)
CalleeAnswerFails ==
    /\ invitation.answering
    /\ invitation.state \in Ringing
    /\ Refuses([invitation EXCEPT !.answering = FALSE])

(* The core passes a CANCEL on while the transaction is Proceeding.        *)
CancelArrives ==
    /\ Msg("CANCEL") \in net
    /\ ist.state = "Proceeding"
    /\ invitation.state \in Ringing
    /\ Refuses(invitation)

(* A mutant of AckArrives.                                                 *)
AckArrivesUnheard ==
    /\ On("ACK", Callee) \in net
    /\ invitation.dialog = "open"
    /\ invitation.ackWait
    /\ invitation' = [invitation EXCEPT !.ackWait = FALSE]
    /\ UNCHANGED <<callerVars, ist, told, net>>

(* The ACK of the 2xx.  A session that was told to end waits for it to say *)
(* BYE.                                                                    *)
AckArrives ==
    /\ On("ACK", Callee) \in net
    /\ invitation.dialog = "open"
    /\ invitation.ackWait
    /\ IF invitation.hangup
       THEN /\ invitation' = [Transition(invitation, "Terminated") EXCEPT
                                !.ackWait = FALSE, !.dialog = "closed"]
            /\ net' = net \cup {Msg("calleeBYE")}
       ELSE /\ invitation' = [invitation EXCEPT !.ackWait = FALSE]
            /\ UNCHANGED net
    /\ UNCHANGED <<callerVars, ist, told>>

AckRefusalArrives ==
    /\ Msg("ackRefusal") \in net
    /\ Server!ReceiveAck
    /\ UNCHANGED <<callerVars, invitation, net>>

(* Session.bye().                                                          *)
CalleeByes ==
    /\ invitation.state = "Established"
    /\ IF invitation.ackWait
       THEN /\ invitation' = [invitation EXCEPT !.state = "Terminating",
                                                !.hangup = TRUE]
            /\ UNCHANGED net
       ELSE /\ invitation.dialog = "open"
            /\ invitation' = [invitation EXCEPT !.state = "Terminated",
                                                !.dialog = "closed"]
            /\ net' = net \cup {Msg("calleeBYE")}
    /\ UNCHANGED <<callerVars, ist, told>>

CalleeReceivesBye ==
    /\ On("BYE", Callee) \in net
    /\ invitation.dialog = "open"
    /\ invitation' = [invitation EXCEPT
                        !.dialog = "closed",
                        !.state = IF @ = "Established" THEN "Terminated" ELSE @]
    /\ UNCHANGED <<callerVars, ist, told, net>>

(* The retransmission timer of the dialog, until dispose() or the ACK.     *)
CalleeRetransmits ==
    /\ invitation.dialog = "open"
    /\ invitation.ackWait
    /\ Server!Resend2xx
    /\ UNCHANGED <<callerVars, invitation, net>>

(* Timer L: a dialog that still waits for the ACK hears of the timeout,    *)
(* whether it was disposed of in the meantime or not, and says BYE.        *)
CalleeTimerL ==
    /\ Server!TimerL
    /\ IF invitation.ackWait
       THEN /\ invitation' = [Transition(invitation, "Terminated") EXCEPT
                                !.dialog = "closed"]
            /\ net' = net \cup {Msg("calleeBYE")}
       ELSE UNCHANGED <<invitation, net>>
    /\ UNCHANGED callerVars

CalleeTimers ==
    /\ Server!TimerH \/ Server!TimerI
    /\ UNCHANGED <<callerVars, invitation, net>>

CalleeExtension ==
    /\ Server!ProgressExtension
    /\ UNCHANGED <<callerVars, invitation, net>>

CalleeSends ==
    /\ Server!Sent \/ Server!SendFails
    /\ UNCHANGED <<callerVars, invitation, net>>

CalleeSide ==
    \/ InviteArrives
    \/ InviteRepeats
    \/ CalleeProgresses
    \/ CalleeAccepts
    \/ CalleeAnswers
    \/ CalleeAnswersTooLate
    \/ CalleeRejects
    \/ CalleeNoAnswer
    \/ CalleeAnswerFails
    \/ CancelArrives
    \/ AckArrives
    \/ AckRefusalArrives
    \/ CalleeByes
    \/ CalleeReceivesBye
    \/ CalleeRetransmits
    \/ CalleeTimerL
    \/ CalleeTimers
    \/ CalleeExtension
    \/ CalleeSends

(* Another branch accepts, and the proxy cancels this one.                 *)
ForkAccepts ==
    /\ \E b \in Fork : net' = net \cup {On("2xx", b), Msg("CANCEL")}
    /\ UNCHANGED <<callerVars, calleeVars>>

Next == Caller \/ CalleeSide \/ ForkAccepts

(* Timers run, promises settle: those of the transport and that of the     *)
(* session description handler.  The bound on sends may switch an action   *)
(* on and off, where the code would always take it: hence SF.              *)
CallerSettles == CallerAnswers \/ CallerGivesUp

CallerTransport == CallerSent \/ CallerSendFails

Fairness ==
    /\ WF_vars(CallerTimerB) /\ WF_vars(CallerTimers)
    /\ WF_vars(CallerTransport) /\ WF_vars(CalleeSends)
    /\ SF_vars(CallerSettles)
    /\ WF_vars(CalleeTimerL)

Spec == Init /\ [][Next]_vars /\ Fairness

(* A transport that delivers what it was given (a WebSocket to a proxy     *)
(* that does): every message arrives at last.                              *)
Delivery ==
    /\ WF_vars(InviteArrives) /\ SF_vars(CancelArrives)
    /\ WF_vars(CallerProvisional) /\ SF_vars(CallerRefused)
    /\ \A b \in Branch :
          SF_vars(CallerAcksAndByes(b)) /\ SF_vars(CallerTakesDialog(b))
-----------------------------------------------------------------------------
(* Properties                                                              *)

(* Of all the dialogs that a forked INVITE makes the caller keeps one, the *)
(* session's, and only while the session wants it: it acknowledges and     *)
(* closes every other (inviter.ts:652-666), so that no peer is left in a   *)
(* call that nobody here holds.                                            *)
NoStrayDialog ==
    \A b \in Branch :
        dialogs[b] = "open" =>
            /\ b = inviter.dialog
            /\ inviter.answering \/ inviter.state = "Established"

(* Inviter.cancel() wins every race: a canceled session is not established *)
(* by a 2xx that comes later, nor by an answer that was being applied.     *)
CanceledStaysDown == inviter.canceled => inviter.state # "Established"

(* accept(), reject(), a CANCEL, the no-answer timer and a failing session *)
(* description handler race for the one answer to the INVITE: it is never  *)
(* both accepted and refused.                                              *)
OneFinalAnswer == ~ {On("2xx", Callee), Msg("refusal")} \subseteq net

(* In a call without early media every 2xx that reached the caller is      *)
(* acknowledged, whatever the user and the session description handler do  *)
(* about it, so that its sender stops retransmitting it.  What becomes of  *)
(* it with early media is EarlyDialogs' AcceptIsAcked.                     *)
EveryAcceptIsAcked ==
    \A b \in Branch :
        heard.accepts[b] # "never" ~> On("ACK", b) \in net

(* Session.bye() by a callee that waits for the ACK resolves: with the ACK *)
(* or with timer L (session.ts:680-700).                                   *)
HangupCompletes == invitation.hangup ~> invitation.state = "Terminated"

(* inviter.ts:262-266 says of cancel() that "the net effect is that this   *)
(* method will terminate the session regardless of the race": so it does   *)
(* over a transport that delivers and whose sends do not fail.             *)
CancelEndsTheCall ==
    Delivery /\ []~heard.failed =>
        (inviter.canceled ~> inviter.state = "Terminated")

(* Violated.  session-dialog.ts:622-624 says that on a BYE "the UAS SHOULD *)
(* terminate the session": no session outlives its dialog.                 *)
ByeEndsSession ==
    inviter.state = "Established" => dialogs[inviter.dialog] = "open"
=============================================================================
