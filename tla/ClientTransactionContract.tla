---------------------- MODULE ClientTransactionContract ----------------------
(***************************************************************************)
(* What a client transaction of SIP.js promises its transaction user, the  *)
(* interface ClientTransactionUser of core/transactions/transaction-user.ts*)
(* without the machinery behind it: the user learns one outcome, a         *)
(* transport failure may be reported at any time, and the transaction does *)
(* not end before the user has heard of one or the other.                  *)
(***************************************************************************)

VARIABLES
    outcome,    \* what the final response or the timeout told the user
    failed,     \* has the user been told of a transport failure
    over        \* has the user been told that the transaction is over

vars == <<outcome, failed, over>>

Outcome == {"waiting", "accepted", "refused"}

TypeOK ==
    /\ outcome \in Outcome
    /\ failed \in BOOLEAN
    /\ over \in BOOLEAN

Init ==
    /\ outcome = "waiting"
    /\ failed = FALSE
    /\ over = FALSE

(* A 2xx response is passed to the user.  Further 2xx responses, of other  *)
(* branches of a forked request, leave the outcome as it is.               *)
Accept ==
    /\ outcome \in {"waiting", "accepted"}
    /\ ~over
    /\ outcome' = "accepted"
    /\ UNCHANGED <<failed, over>>

(* A non-2xx final response is passed to the user: at most once, and never *)
(* after a 2xx.                                                            *)
Refuse ==
    /\ outcome = "waiting"
    /\ ~over
    /\ outcome' = "refused"
    /\ UNCHANGED <<failed, over>>

(* No response came in time: the user hears of it as the transaction ends. *)
TimeOut ==
    /\ outcome = "waiting"
    /\ ~over
    /\ outcome' = "refused"
    /\ over' = TRUE
    /\ UNCHANGED failed

(* The transport failed: the user is told and the transaction is over.     *)
Fail ==
    /\ failed' = TRUE
    /\ over' = TRUE
    /\ UNCHANGED outcome

(* The transaction ends, its user having heard the outcome.                *)
End ==
    /\ outcome # "waiting"
    /\ over' = TRUE
    /\ UNCHANGED <<outcome, failed>>

Next == Accept \/ Refuse \/ TimeOut \/ Fail \/ End

Spec == Init /\ [][Next]_vars
=============================================================================
