------------------------ MODULE InviteUserAgentClient ------------------------
(***************************************************************************)
(* The user agent client of an INVITE and its retries with credentials,    *)
(* src/core/user-agents/user-agent-client.ts and                           *)
(* invite-user-agent-client.ts.  A 401 or 407 makes it swap its transaction*)
(* for a new one, while the old one lives on until its timer D; the core   *)
(* (receiveResponseFromTransport, user-agent-core.ts) finds the client by  *)
(* the branch of any of them, and hands the response to the current one.   *)
(***************************************************************************)
EXTENDS Integers

CONSTANT
    MaxAttempt      \* bound: transactions made for the request

ASSUME MaxAttemptAssumption == MaxAttempt \in Nat \ {0}

VARIABLES
    txs,        \* the INVITE client transactions, one per attempt
    unsent,     \* the attempts whose INVITE is not settled yet
    uac,        \* [current, challenged, stale, canceled, listening]
    reported,   \* [outcome, count, ackFailed], what the delegate heard
    cancels     \* the branches a CANCEL was sent on

attemptVars == <<txs, unsent, uac, reported, cancels>>

Attempt == 1..MaxAttempt

Transaction == INSTANCE InviteClientTransaction WITH
    Tag <- {"tag"}, MaxSending <- 2, tx <- txs[uac.current], tu <- reported

(* An attempt that was not made yet looks like one that is over.           *)
NotMade ==
    [Transaction!NewTransaction EXCEPT !.state = "Terminated",
                                       !.timers = {}, !.sending = 0]

AttemptTypeOK ==
    /\ txs \in [Attempt -> [state : Transaction!State,
                            timers : SUBSET Transaction!Timer,
                            ack : [{"tag"} -> Transaction!CacheEntry],
                            sending : 0..2]]
    /\ unsent \subseteq Attempt
    /\ uac \in [current : Attempt, challenged : BOOLEAN, stale : BOOLEAN,
                canceled : BOOLEAN, listening : BOOLEAN]
    /\ reported \in [outcome : {"none", "accepted", "refused"},
                 count : Transaction!Count, ackFailed : BOOLEAN]
    /\ cancels \subseteq Attempt

AttemptInit ==
    /\ txs = [a \in Attempt |-> IF a = 1 THEN Transaction!NewTransaction
                                         ELSE NotMade]
    /\ unsent = {1}
    /\ uac = [current |-> 1, challenged |-> FALSE, stale |-> FALSE,
              canceled |-> FALSE, listening |-> FALSE]
    /\ reported = [outcome |-> "none", count |-> "never", ackFailed |-> FALSE]
    /\ cancels = {}
-----------------------------------------------------------------------------
Current == txs[uac.current]

Early == Current.state \in Transaction!Early

(* A refusal arrives on a branch.  The core knows the branches of all the  *)
(* transactions that are not over, and hands the current one whatever comes*)
(* on any of them: what comes on an older one is its challenge, repeated.  *)
Arrives(branch) == txs[branch].state # "Terminated"

Becomes(t) == txs' = [txs EXCEPT ![uac.current] = t]

Tell(outcome) ==
    reported' = [reported EXCEPT !.outcome = outcome, !.count = Transaction!Again(@)]

(* The once listener of cancel(): whatever the change of state, it is gone.*)
Heard == [uac EXCEPT !.listening = FALSE]

ReceiveProvisional ==
    /\ Early
    /\ Becomes(Transaction!Enter(Current, "Proceeding"))
    /\ uac' = Heard
    /\ cancels' = cancels \cup (IF uac.listening THEN {uac.current} ELSE {})
    /\ UNCHANGED <<unsent, reported>>

Receive2xx ==
    /\ Early
    /\ Becomes([Transaction!Enter(Current, "Accepted") EXCEPT
                  !.ack["tag"] = "primed"])
    /\ Tell("accepted")
    /\ uac' = Heard
    /\ UNCHANGED <<unsent, cancels>>

(* The transaction acknowledges the refusal, then tells the client of it.  *)
Refused == Transaction!Send(Transaction!Enter(Current, "Completed"))

(* authenticationGuard: one retry, and one more if the nonce was stale.    *)
Retries(challenge) ==
    /\ challenge # "none"
    /\ ~uac.challenged \/ (~uac.stale /\ challenge = "stale")

(* A mutant of ReceiveChallenge.                                           *)
ReceiveChallengeUnsent(branch, challenge) ==
    /\ Arrives(branch)
    /\ Early
    /\ Transaction!CanSend(Current)
    /\ Retries(challenge)
    /\ uac.current < MaxAttempt
    /\ Becomes(Refused)
    /\ uac' = [Heard EXCEPT !.current = @ + 1, !.challenged = TRUE,
                            !.stale = @ \/ challenge = "stale"]
    /\ UNCHANGED <<unsent, reported, cancels>>

ReceiveChallenge(branch, challenge) ==
    /\ Arrives(branch)
    /\ Early
    /\ Transaction!CanSend(Current)
    /\ Retries(challenge)
    /\ uac.current < MaxAttempt
    /\ txs' = [txs EXCEPT ![uac.current] = Refused,
                          ![uac.current + 1] = Transaction!NewTransaction]
    /\ unsent' = unsent \cup {uac.current + 1}
    /\ uac' = [Heard EXCEPT !.current = @ + 1, !.challenged = TRUE,
                            !.stale = @ \/ challenge = "stale"]
    /\ UNCHANGED <<reported, cancels>>

(* Every other refusal is the delegate's, and so is a challenge that the   *)
(* guard lets pass or that there are no credentials for.                   *)
ReceiveRefusal(branch) ==
    /\ Arrives(branch)
    /\ Early
    /\ Transaction!CanSend(Current)
    /\ Becomes(Refused)
    /\ Tell("refused")
    /\ uac' = Heard
    /\ UNCHANGED <<unsent, cancels>>

(* A 408 of the transaction's own.                                         *)
TimerB ==
    /\ Current.state = "Calling"
    /\ Becomes(Transaction!Enter(Current, "Terminated"))
    /\ Tell("refused")
    /\ uac' = Heard
    /\ UNCHANGED <<unsent, cancels>>

(* Timers D and M.                                                         *)
TimerEnds(a) ==
    /\ txs[a].timers \cap {"D", "M"} # {}
    /\ txs' = [txs EXCEPT ![a] = Transaction!Enter(@, "Terminated")]
    /\ UNCHANGED <<unsent, uac, reported, cancels>>

InviteSent(a) ==
    /\ a \in unsent
    /\ unsent' = unsent \ {a}
    /\ txs' = [txs EXCEPT ![a].sending = @ - 1]
    /\ UNCHANGED <<uac, reported, cancels>>

(* A mutant of InviteFails.                                                *)
InviteFailsAnytime ==
    /\ uac.current \in unsent
    /\ unsent' = unsent \ {uac.current}
    /\ Becomes([Transaction!Enter(Current, "Terminated") EXCEPT
                  !.sending = @ - 1])
    /\ Tell("refused")
    /\ uac' = Heard
    /\ UNCHANGED cancels

(* The INVITE cannot be sent, and so was not answered: a 503.              *)
InviteFails ==
    /\ uac.current \in unsent
    /\ Current.state = "Calling"
    /\ unsent' = unsent \ {uac.current}
    /\ Becomes([Transaction!Enter(Current, "Terminated") EXCEPT
                  !.sending = @ - 1])
    /\ Tell("refused")
    /\ uac' = Heard
    /\ UNCHANGED cancels

AckPending(a) == txs[a].sending > (IF a \in unsent THEN 1 ELSE 0)

AckSent(a) ==
    /\ AckPending(a)
    /\ txs' = [txs EXCEPT ![a].sending = @ - 1]
    /\ UNCHANGED <<unsent, uac, reported, cancels>>

(* onTransportError takes the failure for the ACK's unless the current     *)
(* transaction is Calling, whichever transaction it comes from.            *)
AckFails(a) ==
    /\ AckPending(a)
    /\ txs' = [txs EXCEPT ![a] = [Transaction!Enter(txs[a], "Terminated") EXCEPT
                                    !.sending = @ - 1]]
    /\ IF Current.state = "Calling"
       THEN reported' = [outcome |-> "refused", ackFailed |-> TRUE,
                     count |-> Transaction!Again(reported.count)]
       ELSE UNCHANGED reported
    /\ UNCHANGED <<unsent, uac, cancels>>

(* cancel(), by a user who was told nothing yet (Inviter.cancel).          *)
UserCancels ==
    /\ ~uac.canceled
    /\ reported.outcome = "none"
    /\ IF Current.state = "Proceeding"
       THEN /\ uac' = [uac EXCEPT !.canceled = TRUE]
            /\ cancels' = cancels \cup {uac.current}
       ELSE /\ uac' = [uac EXCEPT !.canceled = TRUE, !.listening = TRUE]
            /\ UNCHANGED cancels
    /\ UNCHANGED <<txs, unsent, reported>>

AttemptNext ==
    \/ ReceiveProvisional
    \/ Receive2xx
    \/ \E b \in Attempt :
          \/ \E challenge \in {"fresh", "stale"} : ReceiveChallenge(b, challenge)
          \/ ReceiveRefusal(b)
    \/ TimerB
    \/ \E a \in Attempt : TimerEnds(a) \/ InviteSent(a) \/ AckSent(a) \/ AckFails(a)
    \/ InviteFails
    \/ UserCancels

AttemptFairness == WF_attemptVars(TimerB) /\ \A a \in Attempt : WF_attemptVars(TimerEnds(a))

AttemptSpec == AttemptInit /\ [][AttemptNext]_attemptVars /\ AttemptFairness
-----------------------------------------------------------------------------
(* Properties                                                              *)

(* The delegate hears one outcome of the request, however many transactions*)
(* it took and whatever comes late on the old ones.  The one exception is  *)
(* the ACK of a challenge that fails while the retry is Calling, which is  *)
(* taken for the INVITE's failure (invite-user-agent-client.ts:55-66).     *)
OneAttemptOutcome == reported.count = "again" => reported.ackFailed

(* A request is answered or fails, after two retries at most however often *)
(* it is challenged, unless a server keeps the last of its transactions    *)
(* Proceeding for ever: no retry gets lost between two transactions, not   *)
(* even one whose predecessor had been Proceeding.                         *)
RequestSettles ==
    /\ [](uac.current <= 3)
    /\ <>(reported.outcome # "none") \/ <>[](Current.state = "Proceeding")
=============================================================================
