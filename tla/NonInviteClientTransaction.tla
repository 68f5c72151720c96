---------------------- MODULE NonInviteClientTransaction ----------------------
(***************************************************************************)
(* The non-INVITE client transaction,                                      *)
(* src/core/transactions/non-invite-client-transaction.ts.  The record     *)
(* `tx` is the object, `tu` remembers what its transaction user was told.  *)
(* Only the constructor sends, so that one promise at most is not settled. *)
(***************************************************************************)

VARIABLES
    tx,     \* [state, timers, sending]
    tu      \* [outcome, finals, failed, ended]

vars == <<tx, tu>>

State == {"Trying", "Proceeding", "Completed", "Terminated"}

Timer == {"F", "K"}

(* The final responses the code tells apart: a 408 is reported as a        *)
(* timeout.                                                                *)
Final == {"2xx", "408", "refusal"}

Outcome == {"none", "accepted", "refused", "timeout"}

(* How often the user was told something.                                  *)
Count == {"never", "once", "again"}

Again(n) == IF n = "never" THEN "once" ELSE "again"

TypeOK ==
    /\ tx \in [state : State, timers : SUBSET Timer, sending : BOOLEAN]
    /\ tu \in [outcome : Outcome, finals : Count, failed : BOOLEAN,
               ended : Count]
-----------------------------------------------------------------------------
(* A mutant of NewTransaction.                                             *)
NewTransactionNoF == [state |-> "Trying", timers |-> {}, sending |-> TRUE]

(* The constructor: timer F runs and the request is on its way.            *)
NewTransaction == [state |-> "Trying", timers |-> {"F"}, sending |-> TRUE]

NothingHeard ==
    [outcome |-> "none", finals |-> "never", failed |-> FALSE, ended |-> "never"]

TimersOf(s, running) ==
    CASE s = "Completed"  -> (running \ {"F"}) \cup {"K"}
      [] s = "Terminated" -> {}
      [] OTHER            -> running

(* stateTransition: unlike the INVITE transaction, timer F runs on while   *)
(* the transaction is Proceeding.                                          *)
Enter(t, s) == [t EXCEPT !.state = s, !.timers = TimersOf(s, t.timers)]

Early == {"Trying", "Proceeding"}

Told(final) ==
    CASE final = "2xx" -> "accepted"
      [] final = "408" -> "timeout"
      [] OTHER         -> "refused"

Hears(outcome) == [tu EXCEPT !.outcome = outcome, !.finals = Again(@)]
-----------------------------------------------------------------------------
Init ==
    /\ tx = NewTransaction
    /\ tu = NothingHeard

ReceiveProvisional ==
    /\ tx.state \in Early
    /\ tx' = Enter(tx, "Proceeding")
    /\ UNCHANGED tu

ReceiveFinal(final) ==
    /\ tx.state \in Early
    /\ tx' = Enter(tx, "Completed")
    /\ tu' = Hears(Told(final))

(* A response that comes after the final one is absorbed.                  *)
AbsorbResponse ==
    /\ tx.state \notin Early
    /\ UNCHANGED vars

Sent ==
    /\ tx.sending
    /\ tx' = [tx EXCEPT !.sending = FALSE]
    /\ UNCHANGED tu

(* The send rejects, whatever has happened to the transaction since.       *)
SendFails ==
    /\ tx.sending
    /\ tx' = [Enter(tx, "Terminated") EXCEPT !.sending = FALSE]
    /\ tu' = [tu EXCEPT !.failed = TRUE, !.ended = Again(@)]

(* A mutant of TimerF.                                                     *)
TimerFUntold ==
    /\ "F" \in tx.timers
    /\ tx.state \in Early
    /\ tx' = Enter(tx, "Terminated")
    /\ tu' = [tu EXCEPT !.ended = Again(@)]

TimerF ==
    /\ "F" \in tx.timers
    /\ tx.state \in Early
    /\ tx' = Enter(tx, "Terminated")
    /\ tu' = [Hears("timeout") EXCEPT !.ended = Again(@)]

TimerK ==
    /\ "K" \in tx.timers
    /\ tx.state = "Completed"
    /\ tx' = Enter(tx, "Terminated")
    /\ tu' = [tu EXCEPT !.ended = Again(@)]

Next ==
    \/ ReceiveProvisional
    \/ \E final \in Final : ReceiveFinal(final)
    \/ AbsorbResponse
    \/ Sent
    \/ SendFails
    \/ TimerF
    \/ TimerK

(* The browser runs timers that are due, whatever else happens.            *)
Fairness == WF_vars(TimerF) /\ WF_vars(TimerK)

Spec == Init /\ [][Next]_vars /\ Fairness
-----------------------------------------------------------------------------
(* Properties                                                              *)

(* A timer runs exactly in the states whose handler checks for it: timer F *)
(* as long as no final response came, timer K after one, none at the end.  *)
TimersMatchState ==
    tx.timers = CASE tx.state \in Early      -> {"F"}
                  [] tx.state = "Completed"  -> {"K"}
                  [] OTHER                   -> {}

(* The user hears at most one final response or timeout, however often the *)
(* answer is repeated and whichever of answer and timer F is first.        *)
OneOutcome ==
    /\ tu.finals # "again"
    /\ tu.outcome = "none" <=> tu.finals = "never"

(* The transaction is not over before its user has heard an outcome or a   *)
(* transport failure.                                                      *)
NoSilentEnd == tx.state = "Terminated" => tu.outcome # "none" \/ tu.failed

(* The transaction implements the contract of client transactions.         *)
Contract == INSTANCE ClientTransactionContract WITH
    outcome <- CASE tu.outcome = "none"     -> "waiting"
                 [] tu.outcome = "accepted" -> "accepted"
                 [] OTHER                   -> "refused",
    failed <- tu.failed,
    over <- tu.ended # "never"

ImplementsContract == Contract!Spec
=============================================================================
