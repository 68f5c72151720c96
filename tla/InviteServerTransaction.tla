------------------------ MODULE InviteServerTransaction ------------------------
(***************************************************************************)
(* The INVITE server transaction,                                          *)
(* src/core/transactions/invite-server-transaction.ts, replied to through  *)
(* an InviteUserAgentServer whose predicates (user-agent-server.ts) refuse *)
(* the replies that are not acceptable in a state: the exception changes   *)
(* nothing, so that such a call is no step.                                *)
(***************************************************************************)
EXTENDS Integers

CONSTANT
    MaxSending      \* bound: sends of one transaction not settled at a time

VARIABLES
    tx,     \* [state, timers, provisional, final, sending]
    tu      \* [failed, ended], what the InviteUserAgentServer was told

vars == <<tx, tu>>

State == {"Proceeding", "Accepted", "Completed", "Confirmed", "Terminated"}

(* The RFC's timers and the progress extension interval.                   *)
Timer == {"H", "I", "L", "progress"}

Provisional == {"100", "1xx"}

Final == {"2xx", "refusal"}

Count == {"never", "once", "again"}

Again(n) == IF n = "never" THEN "once" ELSE "again"

TypeOK ==
    /\ tx \in [state : State, timers : SUBSET Timer,
               provisional : Provisional \cup {"none"},
               final : Final \cup {"none"}, sending : Nat]
    /\ tu \in [failed : BOOLEAN, ended : Count]
-----------------------------------------------------------------------------
(* The constructor sends nothing: the 100 is the user's (trying()).        *)
NewTransaction ==
    [state |-> "Proceeding", timers |-> {}, provisional |-> "none",
     final |-> "none", sending |-> 0]

NothingHeard == [failed |-> FALSE, ended |-> "never"]

(* A mutant of TimersOf.                                                   *)
TimersOfProgressRunsOn(s, running) ==
    CASE s = "Accepted"   -> running \cup {"L"}
      [] s = "Completed"  -> running \cup {"H"}
      [] s = "Confirmed"  -> running \cup {"I"}
      [] s = "Terminated" -> {}

(* A mutant of TimersOf.                                                   *)
TimersOfNoI(s, running) ==
    CASE s = "Accepted"   -> (running \ {"progress"}) \cup {"L"}
      [] s = "Completed"  -> (running \ {"progress"}) \cup {"H"}
      [] s = "Confirmed"  -> running \ {"progress"}
      [] s = "Terminated" -> {}

TimersOf(s, running) ==
    CASE s = "Accepted"   -> (running \ {"progress"}) \cup {"L"}
      [] s = "Completed"  -> (running \ {"progress"}) \cup {"H"}
      [] s = "Confirmed"  -> (running \ {"progress"}) \cup {"I"}
      [] s = "Terminated" -> {}

(* stateTransition: timer H is not stopped by the ACK, it runs on while    *)
(* Confirmed.                                                              *)
Enter(t, s) == [t EXCEPT !.state = s, !.timers = TimersOf(s, t.timers)]

CanSend == tx.sending < MaxSending

Send(t) == [t EXCEPT !.sending = @ + 1]
-----------------------------------------------------------------------------
Init ==
    /\ tx = NewTransaction
    /\ tu = NothingHeard

(* receiveRequest, the INVITE again: what was answered last is sent again. *)
Resend(response) ==
    /\ \/ tx.state = "Proceeding" /\ response = tx.provisional
       \/ tx.state = "Completed" /\ response = tx.final
    /\ response # "none"
    /\ CanSend
    /\ tx' = Send(tx)
    /\ UNCHANGED tu

AbsorbInvite ==
    /\ \/ tx.state = "Proceeding" /\ tx.provisional = "none"
       \/ tx.state \in {"Accepted", "Confirmed", "Terminated"}
    /\ UNCHANGED vars

(* receiveRequest, an ACK of this branch: it is for a non-2xx response.    *)
ReceiveAck ==
    /\ tx.state = "Completed"
    /\ tx' = Enter(tx, "Confirmed")
    /\ UNCHANGED tu

AbsorbAck ==
    /\ tx.state # "Completed"
    /\ UNCHANGED vars

(* trying() and progress(): the extension interval starts with the first   *)
(* response above 100.                                                     *)
ReplyProvisional(response) ==
    /\ tx.state = "Proceeding"
    /\ CanSend
    /\ tx' = Send([tx EXCEPT !.provisional = response,
                             !.timers = @ \cup (IF response = "100" THEN {}
                                                ELSE {"progress"})])
    /\ UNCHANGED tu

(* A mutant of ReplyFirst2xx.                                              *)
ReplyFirst2xxAnytime ==
    /\ CanSend
    /\ tx' = Send([Enter(tx, "Accepted") EXCEPT !.final = "2xx"])
    /\ UNCHANGED tu

ReplyFirst2xx ==
    /\ tx.state = "Proceeding"
    /\ CanSend
    /\ tx' = Send([Enter(tx, "Accepted") EXCEPT !.final = "2xx"])
    /\ UNCHANGED tu

(* accept() again and retransmitAcceptedResponse(): sent, nothing else.    *)
Resend2xx ==
    /\ tx.state = "Accepted"
    /\ tx.final = "2xx"
    /\ CanSend
    /\ tx' = Send(tx)
    /\ UNCHANGED tu

(* redirect() and reject().                                                *)
ReplyRefusal ==
    /\ tx.state = "Proceeding"
    /\ CanSend
    /\ tx' = Send([Enter(tx, "Completed") EXCEPT !.final = "refusal"])
    /\ UNCHANGED tu

Sent ==
    /\ tx.sending > 0
    /\ tx' = [tx EXCEPT !.sending = @ - 1]
    /\ UNCHANGED tu

(* The user hears of a failed send; the transaction stays as it is.        *)
SendFails ==
    /\ tx.sending > 0
    /\ tx' = [tx EXCEPT !.sending = @ - 1]
    /\ tu' = [tu EXCEPT !.failed = TRUE]

ProgressExtension ==
    /\ "progress" \in tx.timers
    /\ CanSend
    /\ tx' = Send(tx)
    /\ UNCHANGED tu

Terminate ==
    /\ tx' = Enter(tx, "Terminated")
    /\ tu' = [tu EXCEPT !.ended = Again(@)]

TimerH == "H" \in tx.timers /\ tx.state = "Completed" /\ Terminate

(* Timer I does not look at the state: stateTransition must allow it.      *)
TimerI == "I" \in tx.timers /\ Terminate

TimerL == "L" \in tx.timers /\ tx.state = "Accepted" /\ Terminate

Next ==
    \/ \E response \in Provisional \cup Final : Resend(response)
    \/ AbsorbInvite
    \/ ReceiveAck
    \/ AbsorbAck
    \/ \E response \in Provisional : ReplyProvisional(response)
    \/ ReplyFirst2xx
    \/ Resend2xx
    \/ ReplyRefusal
    \/ Sent
    \/ SendFails
    \/ ProgressExtension
    \/ TimerH
    \/ TimerI
    \/ TimerL

Fairness == WF_vars(TimerH) /\ WF_vars(TimerI) /\ WF_vars(TimerL)

Spec == Init /\ [][Next]_vars /\ Fairness
-----------------------------------------------------------------------------
(* Properties                                                              *)

Answered == {"Accepted", "Completed", "Confirmed"}

(* What retransmission and the progress interval send fits the state: the  *)
(* final answer exactly once one was given, a provisional whenever the     *)
(* interval runs, so that neither "Last ... response undefined" is thrown  *)
(* and no provisional follows the final answer.                            *)
ResponsesFitState ==
    /\ tx.state = "Proceeding" <=> tx.final = "none"
    /\ tx.state = "Accepted" => tx.final = "2xx"
    /\ tx.state \in {"Completed", "Confirmed"} => tx.final = "refusal"
    /\ "progress" \in tx.timers =>
          tx.state = "Proceeding" /\ tx.provisional # "none"

(* An answered transaction ends by itself, acknowledged or not.            *)
AnsweredEnds == tx.state \in Answered ~> tx.state = "Terminated"
=============================================================================
