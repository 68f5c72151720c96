------------------------------ MODULE Registerer ------------------------------
(***************************************************************************)
(* A Registerer, src/api/registerer.ts: it sends a REGISTER at a time,     *)
(* refreshes the registration before it expires, and dispose() unregisters *)
(* first when there is something to unregister.  Each request is a         *)
(* non-INVITE client transaction: it gets one final answer, the registrar's*)
(* or a timeout (NonInviteClientTransaction).  What the code does in one   *)
(* go, listeners included, is one step: `Toggled`, `Enter` and `Close` are *)
(* the calls that reach each other through the two emitters.  A user agent *)
(* may have several Registerers; UserAgentStop disposes of them.           *)
(***************************************************************************)

CONSTANT
    Id              \* the registerers of a user agent

VARIABLE
    regs    \* [Id -> [state, waiting, disposed, refresh, expiry, request,
            \*         closing, threw, dropped]]

vars == <<regs>>

State == {"Initial", "Registered", "Unregistered", "Terminated"}

(* The final response that is outstanding.                                 *)
Request == {"none", "register", "unregister"}

(* What dispose() waits for before it goes on: a change of `waiting`, a    *)
(* change of state, or nothing more (its promise is resolved).  `dropped`  *)
(* records that it waits for nothing: that onAccept was left before the    *)
(* end, or the request was disposed of, `waiting` still set.               *)
Closing == {"no", "onWaiting", "onState", "resolved"}

TypeOK ==
    regs \in [Id -> [state : State, waiting : BOOLEAN, disposed : BOOLEAN,
                     refresh : BOOLEAN, expiry : BOOLEAN, request : Request,
                     closing : Closing, threw : BOOLEAN,
                     dropped : BOOLEAN]]

NewRegisterer ==
    [state |-> "Initial", waiting |-> FALSE, disposed |-> FALSE,
     refresh |-> FALSE, expiry |-> FALSE, request |-> "none",
     closing |-> "no", threw |-> FALSE, dropped |-> FALSE]

Init == regs = [i \in Id |-> NewRegisterer]
-----------------------------------------------------------------------------
(* The object's state changes, as functions of the object.                 *)

ClearTimers(r) == [r EXCEPT !.refresh = FALSE, !.expiry = FALSE]

(* terminated(), called by dispose() alone: its promise resolves.          *)
Terminated(r) ==
    [ClearTimers(r) EXCEPT !.state = "Terminated", !.closing = "resolved"]

(* A mutant of Enter.                                                      *)
EnterUnheard(r, s) ==
    CASE r.state = s            -> r
      [] r.state = "Terminated" -> [r EXCEPT !.threw = TRUE]
      [] OTHER                  -> [r EXCEPT !.state = s]

(* stateTransition between Registered and Unregistered.  Leaving           *)
(* Terminated throws; a dispose() that waits for the change goes on.       *)
Enter(r, s) ==
    CASE r.state = s            -> r
      [] r.state = "Terminated" -> [r EXCEPT !.threw = TRUE]
      [] OTHER -> IF r.closing = "onState"
                  THEN Terminated([r EXCEPT !.state = s])
                  ELSE [r EXCEPT !.state = s]

(* A mutant of Registered.                                                 *)
RegisteredNoRefresh(r) == Enter([r EXCEPT !.expiry = TRUE], "Registered")

Registered(r) ==
    Enter([r EXCEPT !.refresh = TRUE, !.expiry = TRUE], "Registered")

Unregistered(r) == Enter(ClearTimers(r), "Unregistered")

Asks(r, request) == [r EXCEPT !.waiting = TRUE, !.request = request]

Unregister(r) == Asks([r EXCEPT !.refresh = FALSE], "unregister")

(* doClose() of dispose().                                                 *)
Close(r) ==
    IF ~r.waiting /\ r.state = "Registered"
    THEN Unregister([r EXCEPT !.closing = "onState"])
    ELSE Terminated(r)

(* A mutant of Toggled.                                                    *)
ToggledUnheard(r) == IF r.threw THEN r ELSE [r EXCEPT !.waiting = FALSE]

(* waitingToggle(false), not reached when a transition threw.              *)
Toggled(r) ==
    IF r.threw THEN r
    ELSE IF r.closing = "onWaiting" THEN Close([r EXCEPT !.waiting = FALSE])
    ELSE [r EXCEPT !.waiting = FALSE]

MayRegister(r) == r.state # "Terminated" /\ ~r.disposed /\ ~r.waiting

MayUnregister(r) ==
    /\ r.state # "Terminated"
    /\ ~r.disposed \/ r.state = "Registered"
    /\ ~r.waiting

(* dispose(); a second call resolves at once and does nothing.             *)
Disposed(r) ==
    IF r.waiting THEN [r EXCEPT !.disposed = TRUE, !.closing = "onWaiting"]
                 ELSE Close([r EXCEPT !.disposed = TRUE])

Answered(i) == [regs[i] EXCEPT !.request = "none"]

Becomes(i, r) == regs' = [regs EXCEPT ![i] = r]
-----------------------------------------------------------------------------
(* The user.  Calls that the guards refuse reject or throw, and change     *)
(* nothing.                                                                *)
Register(i) ==
    /\ MayRegister(regs[i])
    /\ Becomes(i, Asks(regs[i], "register"))

UnregisterByUser(i) ==
    /\ MayUnregister(regs[i])
    /\ Becomes(i, Unregister(regs[i]))

Dispose(i) ==
    /\ ~regs[i].disposed
    /\ Becomes(i, Disposed(regs[i]))

(* The answers to a REGISTER.  A 2xx lists our contact with an expiry ...  *)
Accepted(i) ==
    /\ regs[i].request = "register"
    /\ Becomes(i, Toggled(Registered(Answered(i))))

(* ... or no contact at all: the handler returns before the toggle.        *)
AcceptedWithoutContact(i) ==
    /\ regs[i].request = "register"
    /\ Becomes(i, [Unregistered(Answered(i)) EXCEPT !.dropped = TRUE])

(* ... or one that does not parse: the handler throws at it.               *)
AcceptedUnparsable(i) ==
    /\ regs[i].request = "register"
    /\ Becomes(i, [Answered(i) EXCEPT !.dropped = TRUE])

(* A 2xx without our contact, a redirect, a 423 without Min-Expires and    *)
(* every other refusal, a timeout and a transport error included.          *)
Refused(i) ==
    /\ regs[i].request = "register"
    /\ Becomes(i, Toggled(Unregistered(Answered(i))))

(* A 423 is followed by another REGISTER at once.                          *)
IntervalTooBrief(i) ==
    /\ regs[i].request = "register"
    /\ LET r == Toggled(Answered(i))
       IN Becomes(i, IF MayRegister(r) THEN Asks(r, "register") ELSE r)

(* Whatever answers the unregistering REGISTER.                            *)
UnregisterAnswered(i) ==
    /\ regs[i].request = "unregister"
    /\ Becomes(i, Toggled(Unregistered(Answered(i))))

(* The refresh timer is the earlier of the two (registered()).  A refresh  *)
(* that is not allowed is lost.                                            *)
RefreshTimer(i) ==
    /\ regs[i].refresh
    /\ LET r == [regs[i] EXCEPT !.refresh = FALSE]
       IN Becomes(i, IF MayRegister(r) THEN Asks(r, "register") ELSE r)

ExpiryTimer(i) ==
    /\ regs[i].expiry
    /\ ~regs[i].refresh
    /\ Becomes(i, Unregistered(regs[i]))

(* A request is answered at last: its transaction times out otherwise.     *)
Answer(i) ==
    \/ Accepted(i)
    \/ AcceptedWithoutContact(i)
    \/ AcceptedUnparsable(i)
    \/ Refused(i)
    \/ IntervalTooBrief(i)
    \/ UnregisterAnswered(i)

Timer(i) == RefreshTimer(i) \/ ExpiryTimer(i)

Next ==
    \E i \in Id :
        \/ Register(i)
        \/ UnregisterByUser(i)
        \/ Dispose(i)
        \/ Answer(i)
        \/ Timer(i)

Fairness == \A i \in Id : WF_vars(Answer(i))

Spec == Init /\ [][Next]_vars /\ Fairness
-----------------------------------------------------------------------------
(* Properties                                                              *)

(* A registration does not lapse for want of a refresh: whatever calls,    *)
(* answers and timers came before, a registered Registerer has its expiry  *)
(* timer, and its refresh timer or a REGISTER that has no answer yet.  One *)
(* that a 2xx left waiting, because its Contact did not parse, sends none  *)
(* any more, and keeps the expiry timer alone.                             *)
RefreshIsPending ==
    \A i \in Id :
        regs[i].state = "Registered" =>
            /\ regs[i].expiry
            /\ regs[i].refresh \/ regs[i].request # "none" \/ regs[i].dropped
=============================================================================
