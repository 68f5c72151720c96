-------------------- MODULE InviteServerTransactionProofs --------------------
(***************************************************************************)
(* What the INVITE server transaction repeats, for every bound on its      *)
(* sends.                                                                  *)
(***************************************************************************)
EXTENDS InviteServerTransaction, TLAPS

(* Timer I, which does not look at the state, runs while Confirmed alone.  *)
IInv ==
    /\ TypeOK
    /\ ResponsesFitState
    /\ "I" \in tx.timers => tx.state = "Confirmed"

USE DEF State, Timer, Provisional, Final, Count, Again

LEMMA InitIInv == Init => IInv
  BY DEF Init, IInv, TypeOK, ResponsesFitState, NewTransaction, NothingHeard

LEMMA EnterIs ==
    ASSUME IInv, NEW s \in State \ {"Proceeding"}
    PROVE  /\ TimersOf(s, tx.timers) \in SUBSET Timer
           /\ "progress" \notin TimersOf(s, tx.timers)
           /\ "I" \in TimersOf(s, tx.timers) =>
                 s = "Confirmed" \/ tx.state = "Confirmed"
  <1>1. tx.timers \in SUBSET Timer /\ ("I" \in tx.timers => tx.state = "Confirmed")
    BY DEF IInv, TypeOK
  <1>2. \/ /\ s = "Accepted"
           /\ TimersOf(s, tx.timers) = (tx.timers \ {"progress"}) \cup {"L"}
        \/ /\ s = "Completed"
           /\ TimersOf(s, tx.timers) = (tx.timers \ {"progress"}) \cup {"H"}
        \/ /\ s = "Confirmed"
           /\ TimersOf(s, tx.timers) = (tx.timers \ {"progress"}) \cup {"I"}
        \/ s = "Terminated" /\ TimersOf(s, tx.timers) = {}
    BY DEF TimersOf
  <1> QED BY <1>1, <1>2

LEMMA SendsKeep ==
    ASSUME IInv, NEW n \in Nat, tx' = [tx EXCEPT !.sending = n],
           tu' \in [failed : BOOLEAN, ended : Count]
    PROVE  IInv'
  BY DEF IInv, TypeOK, ResponsesFitState

(* A final reply.                                                          *)
LEMMA FinalKeeps ==
    ASSUME IInv, tx.state = "Proceeding", UNCHANGED tu,
           NEW s, NEW final,
           \/ s = "Accepted" /\ final = "2xx"
           \/ s = "Completed" /\ final = "refusal",
           tx' = Send([Enter(tx, s) EXCEPT !.final = final])
    PROVE  IInv'
  <1> DEFINE timers == TimersOf(s, tx.timers)
             n == tx.sending + 1
  <1>1. /\ s \in State \ {"Proceeding"} /\ final \in Final
        /\ timers \in SUBSET Timer /\ "progress" \notin timers
        /\ "I" \in timers => s = "Confirmed"
    BY EnterIs
  <1>2. n \in Nat
    BY DEF IInv, TypeOK
  <1>3. tx' = [tx EXCEPT !.state = s, !.timers = timers, !.final = final,
                         !.sending = n]
    BY DEF Send, Enter, IInv, TypeOK
  <1> HIDE DEF timers, n
  <1>4. /\ TypeOK'
        /\ tx'.state = s /\ tx'.timers = timers /\ tx'.final = final
    BY <1>1, <1>2, <1>3 DEF IInv, TypeOK
  <1> QED
    BY <1>1, <1>4 DEF IInv, ResponsesFitState

LEMMA ProvisionalKeeps ==
    ASSUME IInv, NEW response \in Provisional, ReplyProvisional(response)
    PROVE  IInv'
  <1> DEFINE more == IF response = "100" THEN {} ELSE {"progress"}
  <1>1. tx' = [tx EXCEPT !.provisional = response,
                         !.timers = tx.timers \cup more,
                         !.sending = tx.sending + 1]
    BY DEF ReplyProvisional, Send, IInv, TypeOK
  <1>2. /\ tx.sending + 1 \in Nat /\ tx.timers \cup more \in SUBSET Timer
        /\ tx.state = "Proceeding" /\ UNCHANGED tu
        /\ "I" \in more <=> FALSE
    BY DEF ReplyProvisional, IInv, TypeOK
  <1> HIDE DEF more
  <1> QED
    BY <1>1, <1>2 DEF IInv, TypeOK, ResponsesFitState

LEMMA TerminateKeeps ==
    ASSUME IInv, tx.state \in {"Accepted", "Completed", "Confirmed"}, Terminate
    PROVE  IInv'
  <1>1. tx' = [tx EXCEPT !.state = "Terminated", !.timers = {}]
    BY DEF Terminate, Enter, TimersOf
  <1>2. tu' \in [failed : BOOLEAN, ended : Count]
    BY DEF Terminate, IInv, TypeOK
  <1> QED BY <1>1, <1>2 DEF IInv, TypeOK, ResponsesFitState

LEMMA StepIInv == IInv /\ [Next]_vars => IInv'
  <1> SUFFICES ASSUME IInv, [Next]_vars PROVE IInv'
    OBVIOUS
  <1>0. /\ tx.sending \in Nat /\ tx.sending + 1 \in Nat
        /\ tx.sending > 0 => tx.sending - 1 \in Nat
        /\ tu \in [failed : BOOLEAN, ended : Count]
    BY DEF IInv, TypeOK
  <1>1. CASE UNCHANGED vars
    BY <1>1 DEF vars, IInv, TypeOK, ResponsesFitState
  <1>2. ASSUME NEW response \in Provisional \cup Final, Resend(response)
        PROVE  IInv'
    BY <1>0, <1>2, SendsKeep DEF Resend, Send
  <1>3. CASE AbsorbInvite \/ AbsorbAck
    BY <1>1, <1>3 DEF AbsorbInvite, AbsorbAck
  <1>4. CASE ReceiveAck
    <2> DEFINE timers == TimersOf("Confirmed", tx.timers)
    <2>1. /\ tx.state = "Completed" /\ UNCHANGED tu
          /\ tx' = [tx EXCEPT !.state = "Confirmed", !.timers = timers]
      BY <1>4 DEF ReceiveAck, Enter
    <2>2. timers \in SUBSET Timer /\ "progress" \notin timers
      BY EnterIs
    <2> HIDE DEF timers
    <2> QED
      BY <2>1, <2>2 DEF IInv, TypeOK, ResponsesFitState
  <1>5. ASSUME NEW response \in Provisional, ReplyProvisional(response)
        PROVE  IInv'
    BY <1>5, ProvisionalKeeps
  <1>6. CASE ReplyFirst2xx \/ ReplyRefusal
    BY <1>6, FinalKeeps DEF ReplyFirst2xx, ReplyRefusal
  <1>7. CASE Resend2xx \/ ProgressExtension
    BY <1>0, <1>7, SendsKeep DEF Resend2xx, ProgressExtension, Send
  <1>8. CASE Sent
    BY <1>0, <1>8, SendsKeep DEF Sent
  <1>9. CASE SendFails
    <2>1. tu' \in [failed : BOOLEAN, ended : Count]
      BY <1>0, <1>9 DEF SendFails
    <2> QED BY <1>0, <1>9, <2>1, SendsKeep DEF SendFails
  <1>10. CASE TimerH \/ TimerI \/ TimerL
    BY <1>10, TerminateKeeps DEF TimerH, TimerI, TimerL, IInv
  <1> QED
    BY <1>1, <1>2, <1>3, <1>4, <1>5, <1>6, <1>7, <1>8, <1>9, <1>10 DEF Next

LEMMA Invariance == Spec => []IInv
  <1> QED BY InitIInv, StepIInv, PTL DEF Spec

(* How the state may change: an answer ends Proceeding, which never comes  *)
(* back, and what has not been answered does not end.                      *)
LEMMA StateStep ==
    ASSUME IInv, Next
    PROVE  \/ tx'.state = tx.state
           \/ tx.state = "Proceeding" /\ (ReplyFirst2xx \/ ReplyRefusal)
           \/ tx.state \in Answered /\ tx'.state # "Proceeding"
  <1>0. /\ tx \in [state : State, timers : SUBSET Timer,
                   provisional : Provisional \cup {"none"},
                   final : Final \cup {"none"}, sending : Nat]
        /\ "I" \in tx.timers => tx.state = "Confirmed"
    BY DEF IInv, TypeOK
  <1>1. ASSUME NEW response, Resend(response) \/ ReplyProvisional(response)
        PROVE  tx'.state = tx.state
    BY <1>0, <1>1 DEF Resend, ReplyProvisional, Send
  <1>2. CASE \/ AbsorbInvite \/ AbsorbAck \/ Resend2xx \/ Sent \/ SendFails
             \/ ProgressExtension
    BY <1>0, <1>2 DEF AbsorbInvite, AbsorbAck, vars, Resend2xx, Sent,
       SendFails, ProgressExtension, Send
  <1>3. CASE ReplyFirst2xx \/ ReplyRefusal
    BY <1>3 DEF ReplyFirst2xx, ReplyRefusal
  <1>4. CASE ReceiveAck
    BY <1>0, <1>4 DEF ReceiveAck, Enter, Answered
  <1>5. CASE TimerH \/ TimerI \/ TimerL
    BY <1>0, <1>5 DEF TimerH, TimerI, TimerL, Terminate, Enter, Answered
  <1> QED BY <1>1, <1>2, <1>3, <1>4, <1>5 DEF Next

(* What the transaction repeats fits its state                             *)
(* (invite-server-transaction.ts:86, receiveRequest, and its progress      *)
(* interval): a final answer once one was given and no provisional after   *)
(* it, so that neither "Last ... response undefined" is thrown.            *)
THEOREM ResponsesFit == Spec => []ResponsesFitState
  <1>1. IInv => ResponsesFitState
    BY DEF IInv
  <1> QED BY <1>1, Invariance, PTL
=============================================================================
