----------------------- MODULE InviteClientTransaction -----------------------
(***************************************************************************)
(* The INVITE client transaction,                                          *)
(* src/core/transactions/invite-client-transaction.ts, with the parts of   *)
(* transaction.ts it runs on.  The record `tx` is the object, `tu` counts  *)
(* what its transaction user was told.  Transaction.send is asynchronous:  *)
(* `tx.sending` counts the promises that are not settled yet, and each of  *)
(* them may still reject, whatever has happened to the transaction since.  *)
(* The network may lose, repeat and reorder responses, so that every       *)
(* response may arrive at any time.                                        *)
(***************************************************************************)
EXTENDS Integers

CONSTANTS
    Tag,            \* the To tags of the 2xx responses (one per fork)
    MaxSending      \* bound: sends of one transaction not settled at a time

ASSUME MaxSendingAssumption == MaxSending \in Nat \ {0}

VARIABLES
    tx,     \* [state, timers, ack, sending]
    tu      \* [accepts, finals, failed, ended], what the user was told

vars == <<tx, tu>>

State == {"Calling", "Proceeding", "Accepted", "Completed", "Terminated"}

Timer == {"B", "D", "M"}

(* An entry of ackRetransmissionCache: absent, present without an ACK, or  *)
(* present with the ACK that was sent.                                     *)
CacheEntry == {"absent", "primed", "acked"}

(* How often the user was told something.                                  *)
Count == {"never", "once", "again"}

Again(n) == IF n = "never" THEN "once" ELSE "again"

TypeOK ==
    /\ tx \in [state : State, timers : SUBSET Timer,
               ack : [Tag -> CacheEntry], sending : 0..MaxSending]
    /\ tu \in [accepts : [Tag -> Count], finals : Count, failed : BOOLEAN,
               ended : Count]
-----------------------------------------------------------------------------
(* The object's state changes, as functions of the object.                 *)

(* The constructor: timer B runs and the INVITE is on its way.             *)
NewTransaction ==
    [state |-> "Calling", timers |-> {"B"},
     ack |-> [t \in Tag |-> "absent"], sending |-> 1]

(* A mutant of TimersOf.                                                   *)
TimersOfBRunsOn(s, running) ==
    CASE s = "Completed"  -> running \cup {"D"}
      [] s = "Accepted"   -> running \cup {"M"}
      [] s = "Terminated" -> {}
      [] OTHER            -> running

TimersOf(s, running) ==
    CASE s = "Completed"  -> (running \ {"B"}) \cup {"D"}
      [] s = "Accepted"   -> (running \ {"B"}) \cup {"M"}
      [] s = "Terminated" -> {}
      [] OTHER            -> running \ {"B"}

(* stateTransition: timer B stops, the timer of the new state starts, and  *)
(* dispose() clears them all on the way to Terminated.                     *)
Enter(t, s) == [t EXCEPT !.state = s, !.timers = TimersOf(s, t.timers)]

CanSend(t) == t.sending < MaxSending

Send(t) == [t EXCEPT !.sending = @ + 1]

Early == {"Calling", "Proceeding"}
-----------------------------------------------------------------------------
Init ==
    /\ tx = NewTransaction
    /\ tu = [accepts |-> [t \in Tag |-> "never"], finals |-> "never",
             failed |-> FALSE, ended |-> "never"]

ReceiveProvisional ==
    /\ tx.state \in Early
    /\ tx' = Enter(tx, "Proceeding")
    /\ UNCHANGED tu

(* The first 2xx primes the ACK cache and is passed to the user.           *)
ReceiveFirst2xx(tag) ==
    /\ tx.state \in Early
    /\ tx' = [Enter(tx, "Accepted") EXCEPT !.ack[tag] = "primed"]
    /\ tu' = [tu EXCEPT !.accepts[tag] = Again(@)]

(* A mutant of ReceiveForked2xx.                                           *)
ReceiveForked2xxAgain(tag) ==
    /\ tx.state = "Accepted"
    /\ tx' = [tx EXCEPT !.ack[tag] = "primed"]
    /\ tu' = [tu EXCEPT !.accepts[tag] = Again(@)]

(* While Accepted a 2xx of another fork goes to the user ...               *)
ReceiveForked2xx(tag) ==
    /\ tx.state = "Accepted"
    /\ tx.ack[tag] = "absent"
    /\ tx' = [tx EXCEPT !.ack[tag] = "primed"]
    /\ tu' = [tu EXCEPT !.accepts[tag] = Again(@)]

(* ... and a retransmission is answered with the ACK in the cache.         *)
ReceiveRepeated2xx(tag) ==
    /\ tx.state = "Accepted"
    /\ tx.ack[tag] = "acked"
    /\ CanSend(tx)
    /\ tx' = Send(tx)
    /\ UNCHANGED tu

(* A 3xx-6xx is acknowledged by the transaction and passed to the user.    *)
ReceiveRefusal ==
    /\ tx.state \in Early
    /\ CanSend(tx)
    /\ tx' = Send(Enter(tx, "Completed"))
    /\ tu' = [tu EXCEPT !.finals = Again(@)]

(* A repeated 3xx-6xx is acknowledged again and absorbed.                  *)
ReceiveRepeatedRefusal ==
    /\ tx.state = "Completed"
    /\ CanSend(tx)
    /\ tx' = Send(tx)
    /\ UNCHANGED tu

(* Every other response is dropped: late responses, a 2xx while Completed, *)
(* a failure while Accepted, a repeated 2xx that the user has not          *)
(* acknowledged yet.                                                       *)
Drops(class, tag) ==
    \/ tx.state = "Terminated"
    \/ tx.state = "Completed" /\ class # "refusal"
    \/ tx.state = "Accepted" /\ class # "2xx"
    \/ tx.state = "Accepted" /\ class = "2xx" /\ tx.ack[tag] = "primed"

DropResponse(class, tag) ==
    /\ Drops(class, tag)
    /\ UNCHANGED vars

ReceiveResponse(class, tag) ==
    \/ class = "provisional" /\ ReceiveProvisional
    \/ class = "2xx" /\ \/ ReceiveFirst2xx(tag)
                        \/ ReceiveForked2xx(tag)
                        \/ ReceiveRepeated2xx(tag)
    \/ class = "refusal" /\ (ReceiveRefusal \/ ReceiveRepeatedRefusal)
    \/ DropResponse(class, tag)

ResponseClass == {"provisional", "2xx", "refusal"}

(* ackResponse: the user acknowledges a 2xx it was given.  The transaction *)
(* does not look at its state: it may be over by then.  The user           *)
(* acknowledges a 2xx once.                                                *)
AckResponse(tag) ==
    /\ tx.ack[tag] = "primed"
    /\ CanSend(tx)
    /\ tx' = Send([tx EXCEPT !.ack[tag] = "acked"])
    /\ UNCHANGED tu

Sent ==
    /\ tx.sending > 0
    /\ tx' = [tx EXCEPT !.sending = @ - 1]
    /\ UNCHANGED tu

(* A send rejects: onTransportError tells the user and ends the            *)
(* transaction, from whatever state it is in, Terminated included.         *)
SendFails ==
    /\ tx.sending > 0
    /\ tx' = [Enter(tx, "Terminated") EXCEPT !.sending = @ - 1]
    /\ tu' = [tu EXCEPT !.failed = TRUE, !.ended = Again(@)]

(* A mutant of TimerB.                                                     *)
TimerBUntold ==
    /\ "B" \in tx.timers
    /\ tx.state = "Calling"
    /\ tx' = Enter(tx, "Terminated")
    /\ tu' = [tu EXCEPT !.ended = Again(@)]

(* A timer's callback looks at the state before it acts.                   *)
TimerB ==
    /\ "B" \in tx.timers
    /\ tx.state = "Calling"
    /\ tx' = Enter(tx, "Terminated")
    /\ tu' = [tu EXCEPT !.finals = Again(@), !.ended = Again(@)]

TimerD ==
    /\ "D" \in tx.timers
    /\ tx.state = "Completed"
    /\ tx' = Enter(tx, "Terminated")
    /\ tu' = [tu EXCEPT !.ended = Again(@)]

TimerM ==
    /\ "M" \in tx.timers
    /\ tx.state = "Accepted"
    /\ tx' = Enter(tx, "Terminated")
    /\ tu' = [tu EXCEPT !.ended = Again(@)]

Next ==
    \/ \E class \in ResponseClass, tag \in Tag : ReceiveResponse(class, tag)
    \/ \E tag \in Tag : AckResponse(tag)
    \/ Sent
    \/ SendFails
    \/ TimerB
    \/ TimerD
    \/ TimerM

(* The browser runs timers that are due, whatever else happens.            *)
Fairness == WF_vars(TimerB) /\ WF_vars(TimerD) /\ WF_vars(TimerM)

Spec == Init /\ [][Next]_vars /\ Fairness
-----------------------------------------------------------------------------
(* Properties                                                              *)

Accepted == \E t \in Tag : tu.accepts[t] # "never"

(* A timer runs only in the state whose handler checks for it, so that no  *)
(* timer fires into a state that ignores it and leaves the transaction     *)
(* without a way to end.                                                   *)
TimersMatchState ==
    tx.timers = CASE tx.state = "Calling"   -> {"B"}
                  [] tx.state = "Completed" -> {"D"}
                  [] tx.state = "Accepted"  -> {"M"}
                  [] OTHER                  -> {}

(* The user hears each fork's 2xx at most once however often it is         *)
(* retransmitted, hears at most one failure, and never hears both: what    *)
(* the comment in api/inviter.ts:648 relies on.                            *)
OneOutcome ==
    /\ \A t \in Tag : tu.accepts[t] # "again"
    /\ tu.finals # "again"
    /\ ~ (Accepted /\ tu.finals # "never")

(* The transaction is never over before the user has heard an outcome or   *)
(* a transport failure: a session waiting on it is not left hanging.       *)
NoSilentEnd ==
    tx.state = "Terminated" => Accepted \/ tu.finals # "never" \/ tu.failed

(* An ACK is in the cache exactly for forks whose 2xx the user was given:  *)
(* the transaction never acknowledges a 2xx on its own.                    *)
AckOnlyWhatWasHeard ==
    \A t \in Tag : tx.ack[t] # "absent" <=> tu.accepts[t] # "never"

(* The transaction implements the contract of client transactions.         *)
Contract == INSTANCE ClientTransactionContract WITH
    outcome <- IF Accepted THEN "accepted"
               ELSE IF tu.finals # "never" THEN "refused" ELSE "waiting",
    failed <- tu.failed,
    over <- tu.ended # "never"

ImplementsContract == Contract!Spec
=============================================================================
