---------------------- MODULE NonInviteServerTransaction ----------------------
(***************************************************************************)
(* The non-INVITE server transactions of a core,                           *)
(* src/core/transactions/non-invite-server-transaction.ts, each replied to *)
(* through a UserAgentServer, src/core/user-agents/user-agent-server.ts,   *)
(* whose predicates refuse (by an exception that changes nothing) the      *)
(* replies that are not acceptable in a state.                             *)
(***************************************************************************)
EXTENDS Integers

CONSTANTS
    Id,             \* the transactions
    MaxSending      \* bound: sends of one transaction not settled at a time

VARIABLES
    txs,    \* [Id -> [state, timerJ, last, sending]]
    tus     \* [Id -> [failed, ended]], what each UserAgentServer was told

vars == <<txs, tus>>

State == {"Trying", "Proceeding", "Completed", "Terminated"}

Final == {"2xx", "408", "refusal"}

Response == Final \cup {"100"}

Count == {"never", "once", "again"}

Again(n) == IF n = "never" THEN "once" ELSE "again"

TypeOK ==
    /\ txs \in [Id -> [state : State, timerJ : BOOLEAN,
                       last : Response \cup {"none"}, sending : Nat]]
    /\ tus \in [Id -> [failed : BOOLEAN, ended : Count]]
-----------------------------------------------------------------------------
NewTransaction ==
    [state |-> "Trying", timerJ |-> FALSE, last |-> "none", sending |-> 0]

NothingHeard == [failed |-> FALSE, ended |-> "never"]

(* A transaction that was not made yet looks like one that is over.        *)
NotMade == [NewTransaction EXCEPT !.state = "Terminated"]

(* stateTransition: timer J runs while Completed, dispose() stops it.      *)
Enter(t, s) == [t EXCEPT !.state = s, !.timerJ = (s = "Completed")]

Early == {"Trying", "Proceeding"}

CanSend(i) == txs[i].sending < MaxSending

Sends(i, t) == txs' = [txs EXCEPT ![i] = [t EXCEPT !.sending = @ + 1]]
-----------------------------------------------------------------------------
Init ==
    /\ txs = [i \in Id |-> NotMade]
    /\ tus = [i \in Id |-> NothingHeard]

(* A request is served.                                                    *)
Create(i) ==
    /\ txs' = [txs EXCEPT ![i] = NewTransaction]
    /\ UNCHANGED tus

(* receiveRequest, a retransmission of the request: the last response is   *)
(* sent once more ...                                                      *)
ResendLast(i) ==
    /\ txs[i].state \in {"Proceeding", "Completed"}
    /\ txs[i].last # "none"
    /\ CanSend(i)
    /\ Sends(i, txs[i])
    /\ UNCHANGED tus

(* ... or the request is dropped.                                          *)
DropRequest(i) ==
    /\ txs[i].state \in {"Trying", "Terminated"}
    /\ UNCHANGED vars

(* trying(): UserAgentServer allows it in Trying alone.                    *)
ReplyTrying(i) ==
    /\ txs[i].state = "Trying"
    /\ CanSend(i)
    /\ Sends(i, [Enter(txs[i], "Proceeding") EXCEPT !.last = "100"])
    /\ UNCHANGED tus

(* A mutant of ReplyFinal.                                                 *)
ReplyFinalAgain(i, final) ==
    /\ CanSend(i)
    /\ Sends(i, [Enter(txs[i], "Completed") EXCEPT !.last = final])
    /\ UNCHANGED tus

(* accept(), redirect() and reject().                                      *)
ReplyFinal(i, final) ==
    /\ txs[i].state \in Early
    /\ CanSend(i)
    /\ Sends(i, [Enter(txs[i], "Completed") EXCEPT !.last = final])
    /\ UNCHANGED tus

Sent(i) ==
    /\ txs[i].sending > 0
    /\ txs' = [txs EXCEPT ![i].sending = @ - 1]
    /\ UNCHANGED tus

(* onTransportError, even of a transaction that is Terminated already.     *)
SendFails(i) ==
    /\ txs[i].sending > 0
    /\ txs' = [txs EXCEPT ![i] = [Enter(txs[i], "Terminated") EXCEPT
                                    !.sending = @ - 1]]
    /\ tus' = [tus EXCEPT ![i].failed = TRUE, ![i].ended = Again(@)]

TimerJ(i) ==
    /\ txs[i].timerJ
    /\ txs[i].state = "Completed"
    /\ txs' = [txs EXCEPT ![i] = Enter(txs[i], "Terminated")]
    /\ tus' = [tus EXCEPT ![i].ended = Again(@)]
=============================================================================
