------------------------------ MODULE Subscription ------------------------------
(***************************************************************************)
(* A Subscriber, src/api/subscriber.ts, with the SUBSCRIBE it sends, the   *)
(* dialog that the first NOTIFY makes and the SUBSCRIBEs in it             *)
(* (src/core/user-agents/subscribe-user-agent-client.ts,                   *)
(* re-subscribe-user-agent-client.ts, src/core/dialogs/subscription-       *)
(* dialog.ts), against a notifier that answers and notifies in any order.  *)
(* A promise's then runs before any other event, as part of the step.  The *)
(* application asks for more than no time, and leaves a Subscriber alone   *)
(* once it is disposed of.  Of times, what counts is whether a refresh is  *)
(* planned, and whether the notifier has said that none is left.           *)
(***************************************************************************)

VARIABLES
    sub,        \* [state, disposed, retry, closing], the Subscriber
    req,        \* [sent, waiting, zero], the first SUBSCRIBE: waiting for a
                \* NOTIFY, and answered by a 2xx with an Expires of zero
    dialog,     \* [state, timerN, refresh, plan, over, delegate, told, left]
    asked       \* the SUBSCRIBEs without a final answer, one of each kind

subscriptionVars == <<sub, req, dialog, asked>>

State == {"Initial", "NotifyWait", "Subscribed", "Terminated"}

DialogState == {"none", "Pending", "Active", "Terminated"}

(* `retryAfterTimer` holds one timer; one it held before may still run.    *)
RetryTimer == {"held", "lost"}

(* _subscriptionRefresh: undefined, of the refresh timer, or of one that an*)
(* Expires of zero has stopped.                                            *)
Plan == {"none", "due", "stale"}

(* `old` is what was sent before the last initSubscriberRequest.           *)
Subscribe == [kind : {"initial", "refresh", "auto", "leave"}, old : BOOLEAN]

SubscriptionTypeOK ==
    /\ sub \in [state : State, disposed : BOOLEAN, retry : SUBSET RetryTimer,
                closing : {"no", "waiting", "resolved", "rejected"}]
    /\ req \in [sent : BOOLEAN, waiting : BOOLEAN, zero : BOOLEAN]
    /\ dialog \in [state : DialogState, timerN : BOOLEAN, refresh : BOOLEAN,
                   plan : Plan, over : BOOLEAN,
                   delegate : {"subscriber", "closing"},
                   told : BOOLEAN, left : BOOLEAN]
    /\ asked \subseteq Subscribe

NewRequest == [sent |-> FALSE, waiting |-> FALSE, zero |-> FALSE]

NoDialog == [state |-> "none", timerN |-> FALSE, refresh |-> FALSE,
             plan |-> "none", over |-> FALSE, delegate |-> "subscriber",
             told |-> FALSE, left |-> FALSE]

SubscriptionInit ==
    /\ sub = [state |-> "Initial", disposed |-> FALSE, retry |-> {},
              closing |-> "no"]
    /\ req = NewRequest
    /\ dialog = NoDialog
    /\ asked = {}
-----------------------------------------------------------------------------
(* The dialog                                                              *)

Live(d) == d.state \in {"Pending", "Active"}

Now(kind) == [kind |-> kind, old |-> FALSE]

(* dispose(), which stops both timers.                                     *)
DialogEnded(d) == [d EXCEPT !.state = "Terminated", !.timerN = FALSE,
                            !.refresh = FALSE]

(* The setter of subscriptionExpires: the refresh is planned anew unless,  *)
(* by what is planned, it comes before the new time is over ...            *)
Replanned(d) ==
    {[d EXCEPT !.refresh = TRUE, !.plan = "due", !.over = FALSE]} \cup
        (IF d.plan = "none" THEN {} ELSE {[d EXCEPT !.over = FALSE]})

(* ... and of a time of zero nothing is planned: the timer is stopped.     *)
Expired(d) ==
    [d EXCEPT !.refresh = FALSE, !.over = TRUE, !.told = FALSE,
              !.plan = IF @ = "none" THEN @ ELSE "stale"]

(* A mutant of Resubscribed.                                               *)
ResubscribedNoN(d) == [d EXCEPT !.timerN = FALSE]

(* refresh(): timer N waits for the NOTIFY.                                *)
Resubscribed(d) == [d EXCEPT !.timerN = TRUE]

(* unsubscribe(): nothing waits, and the refresh timer runs on.            *)
DialogLeft(d) == [d EXCEPT !.timerN = FALSE, !.left = TRUE]

(* stateTransition: Active does not go back to Pending.                    *)
Moves(d, s) == s # "Pending" \/ d.state = "Pending"

(* A NOTIFY that tells a state, and how long it lasts if it says so.       *)
Notified(d, s, expires) ==
    LET heard == [d EXCEPT !.timerN = FALSE, !.told = expires /\ Moves(d, s),
                           !.state = IF Moves(d, s) THEN s ELSE @]
    IN IF heard.told THEN Replanned(heard) ELSE {heard}
-----------------------------------------------------------------------------
(* The Subscriber                                                          *)

(* Terminated, and dispose() that follows from it.                         *)
Terminated(s) == [s EXCEPT !.state = "Terminated", !.disposed = TRUE,
                           !.retry = @ \ {"held"}]

(* dispose() drops the first SUBSCRIBE.                                    *)
DropRequest == req' = [req EXCEPT !.waiting = FALSE]

Dropped(a) == a \ {Now("initial")}

(* unsubscribe(), with the dialog as it is by then and what is unanswered. *)
Unsubscribed(d, a) ==
    IF sub.disposed
    THEN dialog' = d /\ asked' = a /\ UNCHANGED <<sub, req>>
    ELSE /\ sub' = Terminated(sub)
         /\ DropRequest
         /\ IF Live(d) THEN /\ dialog' = DialogLeft(d)
                            /\ asked' = Dropped(a) \cup {Now("leave")}
                       ELSE dialog' = d /\ asked' = Dropped(a)

(* The listener onTerminated of the dialog's delegate.                     *)
HearsTerminated(d, a) ==
    IF sub.state = "Terminated"
    THEN asked' = a /\ UNCHANGED <<sub, req>>
    ELSE /\ sub' = Terminated(sub)
         /\ DropRequest
         /\ asked' = Dropped(a)

(* terminate() and timer N.  The delegate is told even if the dialog was   *)
(* over.                                                                   *)
Terminate(d, a) ==
    /\ dialog' = IF Live(d) THEN DialogEnded(d) ELSE d
    /\ IF d.delegate = "closing"
       THEN /\ sub' = [sub EXCEPT !.closing = "resolved"]
            /\ asked' = a
            /\ UNCHANGED req
       ELSE HearsTerminated(d, a)

Sending == [sent |-> TRUE, waiting |-> TRUE, zero |-> FALSE]

Old(a) == {[kind |-> r.kind, old |-> TRUE] : r \in a}

(* A NOTIFY that ends the subscription for a reason to subscribe again, at *)
(* once or "later", in which case the timer takes the place of another.    *)
Renewed(reason) ==
    IF reason = "later"
    THEN /\ req' = NewRequest
         /\ asked' = Old(asked)
         /\ sub' = [sub EXCEPT !.state = "Subscribed", !.retry =
                       IF "held" \in @ THEN RetryTimer ELSE @ \cup {"held"}]
    ELSE /\ req' = Sending
         /\ asked' = Old(asked) \cup {Now("initial")}
         /\ sub' = [sub EXCEPT !.state = "Subscribed"]

(* onNotify of the Subscriber, told that the subscription is terminated.   *)
HearsEnd(reason) ==
    IF reason = "final"
    THEN /\ sub' = Terminated(sub)
         /\ DropRequest
         /\ asked' = Dropped(asked)
    ELSE Renewed(reason)
-----------------------------------------------------------------------------
(* The application, and the timer that subscribes again                    *)

(* subscribe(): the first SUBSCRIBE, one in the dialog if it is Active, or *)
(* nothing.                                                                *)
SubscribeAgain(s) ==
    \/ /\ ~req.sent
       /\ req' = Sending
       /\ asked' = asked \cup {Now("initial")}
       /\ sub' = [s EXCEPT !.state = IF @ = "Initial" THEN "NotifyWait" ELSE @]
       /\ UNCHANGED dialog
    \/ /\ req.sent
       /\ IF dialog.state = "Active"
          THEN /\ dialog' = Resubscribed(dialog)
               /\ asked' = asked \cup {Now("refresh")}
          ELSE UNCHANGED <<dialog, asked>>
       /\ sub' = s
       /\ UNCHANGED req

UserSubscribes == ~sub.disposed /\ SubscribeAgain(sub)

RetryTimerFires(t) ==
    /\ t \in sub.retry
    /\ SubscribeAgain([sub EXCEPT !.retry = @ \ {t}])

UserUnsubscribes == ~sub.disposed /\ Unsubscribed(dialog, asked)

(* What dispose() promises: to await the end of the dialog.  It throws if  *)
(* there never was one, because the first NOTIFY said to subscribe again.  *)
Closing ==
    CASE sub.state # "Subscribed" -> "resolved"
      [] sub.state = "Subscribed" /\ dialog.state = "none" -> "rejected"
      [] OTHER -> IF Live(dialog) THEN "waiting" ELSE "resolved"

UserDisposes ==
    /\ ~sub.disposed
    /\ sub' = [sub EXCEPT !.disposed = TRUE, !.retry = @ \ {"held"},
                          !.closing = Closing]
    /\ IF Closing = "waiting"
       THEN /\ dialog' = [DialogLeft(dialog) EXCEPT !.delegate = "closing"]
            /\ asked' = Dropped(asked) \cup {Now("leave")}
       ELSE asked' = Dropped(asked) /\ UNCHANGED dialog
    /\ DropRequest
-----------------------------------------------------------------------------
(* The notifier                                                            *)

Reason == {"final", "again", "later"}

(* A dialog is made, for the time that the first 2xx has left.             *)
NewDialog(s) ==
    IF req.zero THEN [NoDialog EXCEPT !.state = s, !.over = TRUE]
    ELSE [NoDialog EXCEPT !.state = s, !.refresh = TRUE, !.plan = "due",
                          !.told = TRUE]

(* The first NOTIFY makes the dialog, unless it says that all is over.     *)
FirstNotify ==
    /\ req.waiting
    /\ \E s \in {"Pending", "Active"} : dialog' = NewDialog(s)
    /\ DropRequest
    /\ sub' = [sub EXCEPT !.state = IF sub.disposed THEN @ ELSE "Subscribed"]
    /\ UNCHANGED asked

FirstNotifyIsLast ==
    /\ req.waiting
    /\ IF sub.disposed
       THEN DropRequest /\ UNCHANGED <<sub, asked>>
       ELSE \E reason \in Reason : HearsEnd(reason)
    /\ UNCHANGED dialog

Notify ==
    /\ Live(dialog)
    /\ \E s \in {"Pending", "Active"}, expires \in BOOLEAN :
          dialog' \in Notified(dialog, s, expires)
    /\ UNCHANGED <<sub, req, asked>>

(* A disposed Subscriber, or the delegate that dispose() leaves, hears     *)
(* nothing of the end.                                                     *)
LastNotify ==
    /\ Live(dialog)
    /\ dialog' = DialogEnded(dialog)
    /\ IF sub.disposed THEN UNCHANGED <<sub, req, asked>>
       ELSE \E reason \in Reason : HearsEnd(reason)

(* The "Expires" of a 2xx counts if it is less than what is left, be the   *)
(* dialog over or not; before there is one, it counts for the first NOTIFY.*)
Accept(r) ==
    /\ r \in asked
    /\ asked' = asked \ {r}
    /\ CASE r = Now("initial") /\ req.waiting ->
               /\ \E zero \in BOOLEAN : req' = [req EXCEPT !.zero = zero]
               /\ UNCHANGED dialog
         [] r.old -> UNCHANGED <<req, dialog>>
         [] OTHER ->
               /\ dialog' \in
                     {dialog} \cup
                     (IF dialog.over THEN {}
                      ELSE {Expired(dialog)} \cup Replanned(dialog))
               /\ UNCHANGED req
    /\ UNCHANGED sub

(* A mutant of Decline.                                                    *)
DeclineUntold(r) ==
    /\ r \in asked
    /\ asked' = asked \ {r}
    /\ req' = [req EXCEPT !.waiting = @ /\ r # Now("initial")]
    /\ UNCHANGED <<sub, dialog>>

(* A final answer that is no 2xx, or none in time; of those in a dialog,   *)
(* one that does not end it.                                               *)
Decline(r) ==
    /\ r \in asked
    /\ CASE r = Now("initial") /\ req.waiting /\ sub.disposed ->
               DropRequest /\ asked' = asked \ {r} /\ UNCHANGED <<sub, dialog>>
         [] \/ r = Now("initial") /\ req.waiting /\ ~sub.disposed
            \/ r.kind = "refresh" ->
               Unsubscribed(dialog, asked \ {r})
         [] OTHER -> asked' = asked \ {r} /\ UNCHANGED <<sub, req, dialog>>

(* 404, 481 and others end the dialog, which may be an older one by now:   *)
(* its delegate is the same Subscriber.                                    *)
Gone(r) ==
    /\ r \in asked
    /\ r.kind # "initial"
    /\ IF r.old
       THEN HearsTerminated(dialog, asked \ {r}) /\ UNCHANGED dialog
       ELSE Terminate(dialog, asked \ {r})
-----------------------------------------------------------------------------
(* Timers                                                                  *)

(* Timer N of the first SUBSCRIBE.                                         *)
TimerN ==
    /\ req.waiting
    /\ IF sub.disposed
       THEN DropRequest /\ UNCHANGED <<sub, dialog, asked>>
       ELSE Unsubscribed(dialog, asked)

DialogTimerN ==
    /\ dialog.timerN
    /\ Terminate(dialog, asked)

(* Of a dialog that is over, refresh() throws.                             *)
RefreshTimer ==
    /\ dialog.refresh
    /\ IF Live(dialog)
       THEN /\ dialog' = [Resubscribed(dialog) EXCEPT !.refresh = FALSE,
                                                      !.plan = "none"]
            /\ asked' = asked \cup {Now("auto")}
       ELSE /\ dialog' = [dialog EXCEPT !.refresh = FALSE, !.plan = "none"]
            /\ UNCHANGED asked
    /\ UNCHANGED <<sub, req>>

SubscriptionNext ==
    \/ UserSubscribes
    \/ UserUnsubscribes
    \/ UserDisposes
    \/ \E t \in RetryTimer : RetryTimerFires(t)
    \/ FirstNotify
    \/ FirstNotifyIsLast
    \/ Notify
    \/ LastNotify
    \/ \E r \in asked : Accept(r) \/ Decline(r) \/ Gone(r)
    \/ TimerN
    \/ DialogTimerN
    \/ RefreshTimer

(* Timers fire; a notifier ends what a subscriber has left.                *)
SubscriptionFairness ==
    /\ WF_subscriptionVars(TimerN)
    /\ WF_subscriptionVars(DialogTimerN)
    /\ WF_subscriptionVars(RefreshTimer)
    /\ WF_subscriptionVars(dialog.left /\ LastNotify)

SubscriptionSpec ==
    /\ SubscriptionInit
    /\ [][SubscriptionNext]_subscriptionVars
    /\ SubscriptionFairness
-----------------------------------------------------------------------------
(* Properties                                                              *)

RefreshComes == dialog.refresh \/ dialog.timerN

(* The notifier who keeps a subscription, the last thing it said of its    *)
(* time being a NOTIFY that told how long it lasts, has it refreshed: a    *)
(* live dialog that is not left has its refresh timer, or waits for the    *)
(* NOTIFY of a refresh, however answers, NOTIFYs, calls and timers fell    *)
(* together.  It is not if a 2xx has stopped the timer by an Expires of    *)
(* zero and the NOTIFY told more than the refresh was planned for: the     *)
(* setter takes the timer that is stopped for one that runs.               *)
SubscriptionIsRefreshed ==
    Live(dialog) /\ dialog.told /\ ~dialog.left =>
        RefreshComes \/ dialog.plan = "stale"

(* Violated.  "If true, refresh subscription prior to expiration"          *)
(* (core/subscription/subscription.ts:20): by a NOTIFY that ends the wait  *)
(* for it and tells no time, for one, if the 200 of the refresh shortened  *)
(* none.                                                                   *)
AutoRefreshes == Live(dialog) /\ ~dialog.left => RefreshComes

(* Waiting for the first NOTIFY ends, the notifier doing what it likes.    *)
WaitEnds ==
    sub.state = "NotifyWait" ~> sub.state # "NotifyWait" \/ sub.disposed

(* Violated.  dispose() resolves "when it has terminated"                  *)
(* (subscriber.ts:148).                                                    *)
SubscriberDisposes == sub.closing = "waiting" ~> sub.closing = "resolved"
=============================================================================
