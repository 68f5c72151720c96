--------------------------- MODULE InviteCallProofs ---------------------------
(***************************************************************************)
(* What holds of a call however the messages, the users, the promises and  *)
(* the timers interleave, for every set of forks and every bound on sends. *)
(***************************************************************************)
EXTENDS InviteCall, InviteUserAgentClient, TLAPS

ServerProofs == INSTANCE InviteServerTransactionProofs WITH
    tx <- ist, tu <- told

Answers == {On("2xx", Callee), Msg("refusal")}

(* The first answer that was sent ended the server transaction's wait.     *)
CalleeInv ==
    /\ ServerProofs!IInv
    /\ OneFinalAnswer
    /\ Answers \cap net # {} => ist.state # "Proceeding"

InviterRecord ==
    [state : SessionState, canceled : BOOLEAN, cancel : Cancel,
     dialog : Branch \cup {"none"}, answering : BOOLEAN, threw : BOOLEAN]

CallerInv ==
    /\ inviter \in InviterRecord
    /\ dialogs \in [Branch -> Dialog]
    /\ NoStrayDialog
    /\ inviter.canceled => inviter.state \in {"Terminating", "Terminated"}

IInv == CallerInv /\ CalleeInv
-----------------------------------------------------------------------------
(* The server transaction                                                  *)

(* The steps of the server transaction in a call are those of its module,  *)
(* so that its invariant holds here.                                       *)
LEMMA ServerIsServer ==
    ASSUME Server!Next
    PROVE  ServerProofs!Next
  <1> USE DEF Server!CanSend, ServerProofs!CanSend, Server!Send,
              ServerProofs!Send, Server!Enter, ServerProofs!Enter,
              Server!TimersOf, ServerProofs!TimersOf, Server!Terminate,
              ServerProofs!Terminate, Server!Again, ServerProofs!Again,
              Server!vars, ServerProofs!vars, Server!Provisional,
              ServerProofs!Provisional, Server!Final, ServerProofs!Final
  <1>1. ASSUME NEW response \in Server!Provisional \cup Server!Final,
               Server!Resend(response)
        PROVE  ServerProofs!Next
    BY <1>1 DEF Server!Resend, ServerProofs!Resend, ServerProofs!Next
  <1>2. ASSUME NEW response \in Server!Provisional,
               Server!ReplyProvisional(response)
        PROVE  ServerProofs!Next
    BY <1>2 DEF Server!ReplyProvisional, ServerProofs!ReplyProvisional,
       ServerProofs!Next
  <1>3. CASE Server!AbsorbInvite
    BY <1>3 DEF Server!AbsorbInvite, ServerProofs!AbsorbInvite, ServerProofs!Next
  <1>4. CASE Server!ReceiveAck
    BY <1>4 DEF Server!ReceiveAck, ServerProofs!ReceiveAck, ServerProofs!Next
  <1>5. CASE Server!AbsorbAck
    BY <1>5 DEF Server!AbsorbAck, ServerProofs!AbsorbAck, ServerProofs!Next
  <1>6. CASE Server!ReplyFirst2xx
    BY <1>6 DEF Server!ReplyFirst2xx, ServerProofs!ReplyFirst2xx, ServerProofs!Next
  <1>7. CASE Server!Resend2xx
    BY <1>7 DEF Server!Resend2xx, ServerProofs!Resend2xx, ServerProofs!Next
  <1>8. CASE Server!ReplyRefusal
    BY <1>8 DEF Server!ReplyRefusal, ServerProofs!ReplyRefusal, ServerProofs!Next
  <1>9. CASE Server!Sent
    BY <1>9 DEF Server!Sent, ServerProofs!Sent, ServerProofs!Next
  <1>10. CASE Server!SendFails
    BY <1>10 DEF Server!SendFails, ServerProofs!SendFails, ServerProofs!Next
  <1>11. CASE Server!ProgressExtension
    BY <1>11 DEF Server!ProgressExtension, ServerProofs!ProgressExtension, ServerProofs!Next
  <1>12. CASE Server!TimerH
    BY <1>12 DEF Server!TimerH, ServerProofs!TimerH, ServerProofs!Next
  <1>13. CASE Server!TimerI
    BY <1>13 DEF Server!TimerI, ServerProofs!TimerI, ServerProofs!Next
  <1>14. CASE Server!TimerL
    BY <1>14 DEF Server!TimerL, ServerProofs!TimerL, ServerProofs!Next
  <1> QED
    BY <1>1, <1>2, <1>3, <1>4, <1>5, <1>6, <1>7,
       <1>8, <1>9, <1>10, <1>11, <1>12, <1>13, <1>14
    DEF Server!Next

(* A server transaction that has answered goes on having answered.         *)
LEMMA StaysAnswered ==
    ASSUME ServerProofs!IInv, Server!Next, ist.state # "Proceeding"
    PROVE  ist'.state # "Proceeding"
  <1> USE DEF Server!Send, Server!Enter, Server!Terminate, Server!vars
  <1>0. ist \in [state : ServerProofs!State, timers : SUBSET ServerProofs!Timer,
                 provisional : ServerProofs!Provisional \cup {"none"},
                 final : ServerProofs!Final \cup {"none"}, sending : Nat]
    BY DEF ServerProofs!IInv, ServerProofs!TypeOK
  <1>1. ASSUME NEW response, Server!Resend(response)
        PROVE  ist'.state # "Proceeding"
    BY <1>0, <1>1 DEF Server!Resend
  <1>2. ASSUME NEW response, Server!ReplyProvisional(response) PROVE FALSE
    BY <1>2 DEF Server!ReplyProvisional
  <1>3. CASE Server!AbsorbInvite \/ Server!AbsorbAck
    BY <1>3 DEF Server!AbsorbInvite, Server!AbsorbAck
  <1>4. CASE Server!ReceiveAck
    BY <1>0, <1>4 DEF Server!ReceiveAck
  <1>5. CASE Server!ReplyFirst2xx \/ Server!ReplyRefusal
    BY <1>5 DEF Server!ReplyFirst2xx, Server!ReplyRefusal
  <1>6. CASE \/ Server!Resend2xx \/ Server!Sent
             \/ Server!SendFails \/ Server!ProgressExtension
    BY <1>0, <1>6
    DEF Server!Resend2xx, Server!Sent, Server!SendFails, Server!ProgressExtension
  <1>7. CASE Server!TimerH \/ Server!TimerI \/ Server!TimerL
    BY <1>0, <1>7 DEF Server!TimerH, Server!TimerI, Server!TimerL
  <1> QED
    BY <1>1, <1>2, <1>3, <1>4, <1>5, <1>6, <1>7 DEF Server!Next
-----------------------------------------------------------------------------
(* The callee                                                              *)

LEMMA Kinds ==
    /\ \A t, u, b : t # u => Msg(t) # On(u, b) /\ Msg(t) # Msg(u)
    /\ \A t, u, b, c : On(t, b) = On(u, c) => t = u /\ b = c
  BY DEF Msg, On

NoAnswerSent == \A m \in Answers : m \in net' <=> m \in net

(* A step of the server transaction, or of nobody, that sends no answer.   *)
LEMMA QuietKeeps ==
    ASSUME CalleeInv, Server!Next \/ UNCHANGED <<ist, told>>,
           NoAnswerSent
    PROVE  CalleeInv'
  <1>1. ServerProofs!IInv'
    BY ServerIsServer, ServerProofs!StepIInv DEF CalleeInv, ServerProofs!vars
  <1>2. ist.state # "Proceeding" => ist'.state # "Proceeding"
    BY StaysAnswered DEF CalleeInv
  <1> QED
    BY <1>1, <1>2 DEF CalleeInv, OneFinalAnswer, Answers, NoAnswerSent

(* One that sends the answer: there was none before.                       *)
LEMMA AnswerKeeps ==
    ASSUME CalleeInv, Server!ReplyFirst2xx \/ Server!ReplyRefusal,
           NEW m \in Answers, net' = net \cup {m}
    PROVE  CalleeInv'
  <1>1. ServerProofs!IInv'
    BY ServerIsServer, ServerProofs!StepIInv DEF CalleeInv, Server!Next
  <1>2. ist.state = "Proceeding" /\ ist'.state # "Proceeding"
    <2>1. ist \in [state : ServerProofs!State,
                   timers : SUBSET ServerProofs!Timer,
                   provisional : ServerProofs!Provisional \cup {"none"},
                   final : ServerProofs!Final \cup {"none"}, sending : Nat]
      BY DEF CalleeInv, ServerProofs!IInv, ServerProofs!TypeOK
    <2> QED
      BY <2>1 DEF Server!ReplyFirst2xx, Server!ReplyRefusal, Server!Send,
         Server!Enter
  <1>3. Answers \cap net = {} /\ On("2xx", Callee) # Msg("refusal")
    BY <1>2, Kinds DEF CalleeInv
  <1> QED
    BY <1>1, <1>2, <1>3 DEF CalleeInv, OneFinalAnswer, Answers
-----------------------------------------------------------------------------
(* The caller                                                              *)

(* The session stays as it is, or is Terminated before it is Established.  *)
SameCall(i, j) ==
    /\ j \in InviterRecord
    /\ j.canceled = i.canceled /\ j.dialog = i.dialog
    /\ j.answering = i.answering
    /\ \/ j.state = i.state
       \/ j.state = "Terminated" /\ i.state # "Established"

LEMMA NotifiedIs ==
    ASSUME NEW i \in InviterRecord, NEW s
    PROVE  SameCall(i, Notified(i, s)) /\ Notified(i, s).state = i.state
  <1> DEFINE c == IF i.cancel = "armed"
                  THEN IF s = "Proceeding" THEN "sent" ELSE "lost"
                  ELSE i.cancel
  <1>1. Notified(i, s) = [i EXCEPT !.cancel = c] /\ c \in Cancel
    BY DEF Notified, InviterRecord, Cancel
  <1> HIDE DEF c
  <1> DEFINE j == Notified(i, s)
  <1>2. /\ j \in InviterRecord
        /\ j.canceled = i.canceled /\ j.dialog = i.dialog
        /\ j.answering = i.answering /\ j.state = i.state
    BY <1>1 DEF InviterRecord
  <1> HIDE DEF j
  <1>3. SameCall(i, j)
    BY <1>2 DEF SameCall
  <1> QED BY <1>2, <1>3 DEF j

LEMMA RejectedIs ==
    ASSUME NEW i \in InviterRecord
    PROVE  SameCall(i, Rejected(i))
  <1> DEFINE j == [i EXCEPT !.state = "Terminated"]
  <1>1. /\ j \in InviterRecord
        /\ j.canceled = i.canceled /\ j.dialog = i.dialog
        /\ j.answering = i.answering /\ j.state = "Terminated"
    BY DEF InviterRecord, SessionState
  <1> HIDE DEF j
  <1>2. i.state # "Established" => SameCall(i, j)
    BY <1>1 DEF SameCall
  <1>3. SameCall(i, i)
    BY DEF SameCall
  <1> QED BY <1>2, <1>3 DEF j, Rejected

LEMMA SameCallKeeps ==
    ASSUME CallerInv, SameCall(inviter, inviter'), UNCHANGED dialogs
    PROVE  CallerInv'
  BY DEF CallerInv, SameCall, NoStrayDialog
LEMMA SameCallTwice ==
    ASSUME NEW i, NEW j, NEW k, SameCall(i, j), SameCall(j, k)
    PROVE  SameCall(i, k)
  BY DEF SameCall

(* The dialog of a branch is closed, and the session goes on or is over    *)
(* without one of its own.                                                 *)
LEMMA AcksAndByesKeeps ==
    ASSUME CallerInv, NEW b \in Branch, CallerAcksAndByes(b)
    PROVE  CallerInv'
  <1> DEFINE i == Notified2xx
  <1>1. SameCall(inviter, i) /\ i.state = inviter.state
    BY NotifiedIs DEF Notified2xx, CallerInv, SameCall
  <1>2. dialogs' = [dialogs EXCEPT ![b] = "closed"]
    BY DEF CallerAcksAndByes
  <1>3. inviter' = IF inviter.dialog # "none" THEN i
                   ELSE Transition(i, "Terminated")
    BY DEF CallerAcksAndByes
  <1> HIDE DEF i
  <1>4. CASE inviter.dialog # "none"
    BY <1>1, <1>2, <1>3, <1>4 DEF CallerInv, SameCall, NoStrayDialog, Dialog
  <1>5. CASE inviter.dialog = "none"
    <2>1. \A a \in Branch : dialogs[a] # "open"
      BY <1>5, BranchAssumption DEF CallerInv, NoStrayDialog, Branch
    <2>2. \A a \in Branch : dialogs'[a] # "open"
      BY <1>2, <2>1 DEF CallerInv
    <2>3. inviter' = Transition(i, "Terminated")
      BY <1>3, <1>5
    <2>4. /\ inviter' \in InviterRecord /\ inviter'.canceled = i.canceled
          /\ inviter'.state \in {"Terminated", i.state}
      BY <1>1, <2>3
      DEF Transition, Allowed, SameCall, InviterRecord, SessionState
    <2> QED
      BY <1>1, <1>2, <2>2, <2>4 DEF CallerInv, SameCall, NoStrayDialog, Dialog
  <1> QED BY <1>4, <1>5

LEMMA TakesDialogKeeps ==
    ASSUME CallerInv, NEW b \in Branch, CallerTakesDialog(b)
    PROVE  CallerInv'
  <1> DEFINE i == Notified2xx
  <1>1. SameCall(inviter, i) /\ i.state = inviter.state
    BY NotifiedIs DEF Notified2xx, CallerInv, SameCall
  <1>2. /\ inviter' = [i EXCEPT !.dialog = b, !.answering = TRUE]
        /\ dialogs' = [dialogs EXCEPT ![b] = "open"]
        /\ inviter.dialog = "none" /\ ~inviter.canceled
    BY DEF CallerTakesDialog
  <1> HIDE DEF i
  <1>3. /\ inviter' \in InviterRecord /\ ~inviter'.canceled
        /\ inviter'.dialog = b /\ inviter'.answering
    BY <1>1, <1>2 DEF SameCall, InviterRecord
  <1>4. \A a \in Branch : dialogs[a] # "open"
    BY <1>2, BranchAssumption DEF CallerInv, NoStrayDialog, Branch
  <1> QED
    BY <1>2, <1>3, <1>4 DEF CallerInv, NoStrayDialog, Dialog

LEMMA GivesUpKeeps ==
    ASSUME CallerInv, CallerGivesUp
    PROVE  CallerInv'
  <1> DEFINE i == Transition(inviter, "Terminated")
  <1>1. /\ inviter' = [i EXCEPT !.answering = FALSE]
        /\ dialogs' = [dialogs EXCEPT ![inviter.dialog] = "closed"]
    BY DEF CallerGivesUp
  <1>2. /\ i \in InviterRecord /\ i.canceled = inviter.canceled
        /\ i.state \in {"Terminated", inviter.state}
    BY DEF CallerInv, Transition, Allowed, InviterRecord, SessionState
  <1> HIDE DEF i
  <1>3. /\ inviter' \in InviterRecord /\ inviter'.canceled = i.canceled
        /\ inviter'.state = i.state
    BY <1>1, <1>2 DEF InviterRecord
  <1>4. \A a \in Branch : dialogs'[a] # "open"
    BY <1>1 DEF CallerInv, NoStrayDialog
  <1> QED
    BY <1>1, <1>2, <1>3, <1>4 DEF CallerInv, NoStrayDialog, Dialog

(* The other steps of the caller: what the user does, a BYE, the answer.   *)
LEMMA UserKeeps ==
    ASSUME CallerInv,
           CallerAnswers \/ CallerCancels \/ CallerByes \/ CallerReceivesBye
    PROVE  CallerInv'
  <1> USE DEF CallerInv, InviterRecord, SessionState, Cancel, Dialog
  <1>1. CASE CallerAnswers
    <2>1. inviter' \in InviterRecord
      BY <1>1 DEF CallerAnswers
    <2>2. inviter'.dialog = inviter.dialog /\ inviter'.state = "Established"
      BY <1>1 DEF CallerAnswers
    <2>3. ~inviter'.canceled /\ UNCHANGED dialogs
      BY <1>1 DEF CallerAnswers
    <2> QED BY <2>1, <2>2, <2>3 DEF NoStrayDialog
  <1>2. CASE CallerCancels
    <2> DEFINE c == IF ict.state = "Proceeding" THEN "sent" ELSE "armed"
    <2>1. /\ inviter' = [inviter EXCEPT !.state = "Terminating",
                                        !.canceled = TRUE, !.cancel = c]
          /\ c \in Cancel /\ inviter.state = "Establishing"
          /\ UNCHANGED dialogs
      BY <1>2 DEF CallerCancels
    <2> HIDE DEF c
    <2>2. /\ inviter' \in InviterRecord
          /\ inviter'.state = "Terminating"
          /\ inviter'.dialog = inviter.dialog
          /\ inviter'.answering = inviter.answering
      BY <2>1
    <2> QED BY <2>1, <2>2 DEF NoStrayDialog
  <1>3. CASE CallerByes
    <2>1. /\ inviter' \in InviterRecord
          /\ inviter'.state = "Terminated"
          /\ dialogs' = [dialogs EXCEPT ![inviter.dialog] = "closed"]
      BY <1>3 DEF CallerByes
    <2>2. \A a \in Branch : dialogs'[a] # "open"
      BY <2>1 DEF NoStrayDialog
    <2> QED BY <2>1, <2>2 DEF NoStrayDialog
  <1>4. CASE CallerReceivesBye
    <2>1. /\ dialogs[Callee] = "open"
          /\ dialogs' = [dialogs EXCEPT ![Callee] = "closed"]
          /\ inviter' \in InviterRecord
          /\ inviter'.canceled = inviter.canceled
          /\ inviter'.state \in {"Terminated", inviter.state}
      BY <1>4 DEF CallerReceivesBye
    <2>2. \A a \in Branch : dialogs'[a] # "open"
      BY <2>1 DEF NoStrayDialog, Branch
    <2> QED BY <2>1, <2>2 DEF NoStrayDialog
  <1> QED BY <1>1, <1>2, <1>3, <1>4

LEMMA CallerKeeps ==
    ASSUME CallerInv, Caller
    PROVE  CallerInv'
  <1>0. inviter \in InviterRecord /\ SameCall(inviter, inviter)
    BY DEF CallerInv, SameCall
  <1>1. CASE CallerProvisional \/ CallerTimers
    BY <1>0, <1>1, NotifiedIs, SameCallKeeps DEF CallerProvisional, CallerTimers
  <1>2. CASE CallerRefused \/ CallerTimerB \/ CallerSendFails
    <2>1. \A s : /\ SameCall(inviter, Rejected(Notified(inviter, s)))
                 /\ SameCall(inviter, Notified(Rejected(inviter), s))
                 /\ SameCall(inviter, Notified(inviter, s))
      <3> TAKE s
      <3>1. SameCall(inviter, Notified(inviter, s))
        BY <1>0, NotifiedIs
      <3>2. SameCall(Notified(inviter, s), Rejected(Notified(inviter, s)))
        BY <3>1, RejectedIs DEF SameCall
      <3>3. SameCall(inviter, Rejected(inviter))
        BY <1>0, RejectedIs
      <3>4. SameCall(Rejected(inviter), Notified(Rejected(inviter), s))
        BY <3>3, NotifiedIs DEF SameCall
      <3> QED BY <3>1, <3>2, <3>3, <3>4, SameCallTwice
    <2> QED
      BY <1>2, <2>1, SameCallKeeps
      DEF CallerRefused, CallerTimerB, CallerSendFails
  <1>3. CASE CallerRepeats \/ CallerSent
    BY <1>0, <1>3, SameCallKeeps DEF CallerRepeats, CallerSent
  <1> QED
    BY <1>1, <1>2, <1>3, AcksAndByesKeeps, TakesDialogKeeps, GivesUpKeeps,
       UserKeeps DEF Caller
-----------------------------------------------------------------------------
(* The call                                                                *)

LEMMA InitIInv == Init => IInv
  <1> SUFFICES ASSUME Init PROVE IInv
    OBVIOUS
  <1>1. CallerInv
    BY DEF Init, CallerInv, InviterRecord, SessionState, Cancel, Dialog,
           NoStrayDialog
  <1>2. ServerProofs!Init
    BY DEF Init, Server!Init, ServerProofs!Init, Server!NewTransaction,
           ServerProofs!NewTransaction, Server!NothingHeard,
           ServerProofs!NothingHeard
  <1>3. net = {Msg("INVITE")}
    BY DEF Init
  <1>4. Answers \cap net = {}
    BY <1>3, Kinds DEF Answers
  <1>5. CalleeInv
    BY <1>2, <1>4, ServerProofs!InitIInv DEF CalleeInv, OneFinalAnswer, Answers
  <1> QED BY <1>1, <1>5 DEF IInv

(* Nothing that the caller sends is an answer.                             *)
LEMMA CallerSendsNoAnswer ==
    ASSUME Caller
    PROVE  NoAnswerSent
  <1> USE Kinds DEF Answers, NoAnswerSent
  <1>1. CASE CallerProvisional \/ CallerCancels
    <2>1. net' = net \cup {} \/ net' = net \cup {Msg("CANCEL")}
      BY <1>1 DEF CallerProvisional, CallerCancels, CancelMessages
    <2> QED BY <2>1
  <1>2. CASE CallerRefused \/ CallerAnswers \/ CallerGivesUp \/ CallerByes
    <2>1. \/ net' = net \cup {Msg("ackRefusal")}
          \/ net' = net \cup {On("ACK", inviter.dialog)}
          \/ net' = net \cup {On("BYE", inviter.dialog)}
          \/ net' = net \cup {On("ACK", inviter.dialog),
                             On("BYE", inviter.dialog)}
      BY <1>2 DEF CallerRefused, CallerAnswers, CallerGivesUp, CallerByes
    <2> QED BY <2>1
  <1>3. ASSUME NEW b \in Branch, CallerAcksAndByes(b) \/ CallerTakesDialog(b)
        PROVE  NoAnswerSent
    BY <1>3 DEF CallerAcksAndByes, CallerTakesDialog
  <1>4. CASE \/ CallerRepeats \/ CallerReceivesBye \/ CallerTimerB
             \/ CallerTimers \/ CallerSent \/ CallerSendFails
    BY <1>4
    DEF CallerRepeats, CallerReceivesBye, CallerTimerB, CallerTimers,
        CallerSent, CallerSendFails
  <1> QED
    BY <1>1, <1>2, <1>3, <1>4 DEF Caller

LEMMA CalleeKeeps ==
    ASSUME CalleeInv, CalleeSide
    PROVE  CalleeInv'
  <1> USE Kinds DEF Answers
  <1>0. ASSUME Server!Next \/ UNCHANGED <<ist, told>>, net' = net
        PROVE  CalleeInv'
    BY <1>0, QuietKeeps DEF NoAnswerSent
  <1>1. ASSUME Server!Next \/ UNCHANGED <<ist, told>>,
               NEW t \in {"100", "1xx", "calleeBYE"}, net' = net \cup {Msg(t)}
        PROVE  CalleeInv'
    <2>1. NoAnswerSent
      BY <1>1 DEF NoAnswerSent
    <2> QED BY <1>1, <2>1, QuietKeeps
  <1>2. ASSUME NEW response \in Server!Provisional,
               Server!ReplyProvisional(response)
        PROVE  Server!Next
    BY <1>2 DEF Server!Next
  <1>3. CASE InviteArrives \/ CalleeProgresses
    BY <1>1, <1>2, <1>3
    DEF InviteArrives, CalleeProgresses, Server!Provisional
  <1>4. CASE InviteRepeats
    BY <1>0, <1>4 DEF InviteRepeats, Server!Next
  <1>5. CASE CalleeAnswers
    BY <1>5, AnswerKeeps DEF CalleeAnswers
  <1>6. CASE CalleeRejects \/ CalleeNoAnswer \/ CalleeAnswerFails
             \/ CancelArrives
    BY <1>6, AnswerKeeps
    DEF CalleeRejects, CalleeNoAnswer, CalleeAnswerFails, CancelArrives, Refuses
  <1>7. CASE CalleeAccepts \/ CalleeAnswersTooLate \/ CalleeReceivesBye
    BY <1>0, <1>7 DEF CalleeAccepts, CalleeAnswersTooLate, CalleeReceivesBye
  <1>8. CASE AckArrives \/ CalleeByes
    BY <1>0, <1>1, <1>8 DEF AckArrives, CalleeByes
  <1>9. CASE CalleeTimerL
    BY <1>0, <1>1, <1>9 DEF CalleeTimerL, Server!Next
  <1>10. CASE AckRefusalArrives \/ CalleeRetransmits \/ CalleeTimers
              \/ CalleeExtension \/ CalleeSends
    BY <1>0, <1>10
    DEF AckRefusalArrives, CalleeRetransmits, CalleeTimers, CalleeExtension,
        CalleeSends, Server!Next
  <1> QED
    BY <1>3, <1>4, <1>5, <1>6, <1>7, <1>8, <1>9, <1>10 DEF CalleeSide

LEMMA StepIInv == IInv /\ [Next]_vars => IInv'
  <1> SUFFICES ASSUME IInv, [Next]_vars PROVE IInv'
    OBVIOUS
  <1>0. CallerInv /\ CalleeInv
    BY DEF IInv
  <1>1. ASSUME UNCHANGED <<inviter, dialogs>> PROVE CallerInv'
    BY <1>0, <1>1 DEF CallerInv, NoStrayDialog
  <1>2. CASE Caller
    <2>1. CallerInv'
      BY <1>0, <1>2, CallerKeeps
    <2>2. UNCHANGED <<ist, told>>
      BY <1>2
      DEF Caller, calleeVars, CallerProvisional, CallerRefused, CallerRepeats,
          CallerAcksAndByes, CallerTakesDialog, CallerAnswers, CallerGivesUp,
          CallerCancels, CallerByes, CallerReceivesBye, CallerTimerB,
          CallerTimers, CallerSent, CallerSendFails
    <2>3. CalleeInv'
      BY <1>0, <1>2, <2>2, CallerSendsNoAnswer, QuietKeeps
    <2> QED BY <2>1, <2>3 DEF IInv
  <1>3. CASE CalleeSide
    <2>1. UNCHANGED <<inviter, dialogs>>
      BY <1>3
      DEF CalleeSide, callerVars, InviteArrives, InviteRepeats,
          CalleeProgresses, CalleeAccepts, CalleeAnswers, CalleeAnswersTooLate,
          CalleeRejects, CalleeNoAnswer, CalleeAnswerFails, CancelArrives,
          Refuses, AckArrives, AckRefusalArrives, CalleeByes,
          CalleeReceivesBye, CalleeRetransmits, CalleeTimerL, CalleeTimers,
          CalleeExtension, CalleeSends
    <2> QED BY <1>0, <1>1, <1>3, <2>1, CalleeKeeps DEF IInv
  <1>4. CASE ForkAccepts
    <2>1. UNCHANGED <<inviter, dialogs, ist, told>>
      BY <1>4 DEF ForkAccepts, callerVars, calleeVars
    <2>2. NoAnswerSent
      BY <1>4, Kinds, BranchAssumption DEF ForkAccepts, Answers, NoAnswerSent
    <2> QED BY <1>0, <1>1, <2>1, <2>2, QuietKeeps DEF IInv
  <1>5. CASE UNCHANGED vars
    <2>1. UNCHANGED <<inviter, dialogs, ist, told, net>>
      BY <1>5 DEF vars
    <2>2. NoAnswerSent
      BY <2>1 DEF NoAnswerSent
    <2> QED BY <1>0, <1>1, <2>1, <2>2, QuietKeeps DEF IInv
  <1> QED
    BY <1>2, <1>3, <1>4, <1>5 DEF Next

LEMMA Invariance == Spec => []IInv
  <1> QED BY InitIInv, StepIInv, PTL DEF Spec

(* An INVITE gets one final answer, however accept(), reject(), a CANCEL,  *)
(* the timers and the session description handler race                     *)
(* (invitation.ts:239, 381, 419).                                               *)
THEOREM AnswerIsUnique == Spec => []OneFinalAnswer
  <1>1. IInv => OneFinalAnswer
    BY DEF IInv, CalleeInv
  <1> QED BY <1>1, Invariance, PTL

(* A canceled session is never established, whatever 2xx comes late        *)
(* (inviter.ts:262-266).                                                   *)
THEOREM CancelIsFinal == Spec => []CanceledStaysDown
  <1>1. IInv => CanceledStaysDown
    BY DEF IInv, CallerInv, CanceledStaysDown
  <1> QED BY <1>1, Invariance, PTL

(* Of the dialogs of any number of forks the caller keeps its session's    *)
(* alone (inviter.ts:652-666).                                             *)
THEOREM DialogIsUnique == Spec => []NoStrayDialog
  <1>1. IInv => NoStrayDialog
    BY DEF IInv, CallerInv
  <1> QED BY <1>1, Invariance, PTL
-----------------------------------------------------------------------------
Attempts == [state : Transaction!State, timers : SUBSET Transaction!Timer,
             ack : [{"tag"} -> Transaction!CacheEntry], sending : 0..2]

(* While the current transaction awaits its answer, nothing was told of it *)
(* but by the ACK of a challenge that failed.                              *)
EarlyIsUntold == Early => reported.count = "never" \/ reported.ackFailed

(* An INVITE that is under way is one of the sends of its transaction.     *)
UnsentIsSending == \A a \in unsent : txs[a].sending >= 1

AttemptInv ==
    /\ txs \in [Attempt -> Attempts]
    /\ AttemptTypeOK
    /\ UnsentIsSending
    /\ EarlyIsUntold
    /\ OneAttemptOutcome

(* A transaction that is made, and one that is not yet.                    *)
LEMMA NewAttempts ==
    /\ Transaction!NewTransaction \in Attempts
    /\ Transaction!NewTransaction.sending = 1
    /\ NotMade \in Attempts
  <1>1. PICK ack : ack = [t \in {"tag"} |-> "absent"]
    OBVIOUS
  <1>2. ack \in [{"tag"} -> Transaction!CacheEntry]
    BY <1>1 DEF Transaction!CacheEntry
  <1>3. Transaction!NewTransaction =
           [state |-> "Calling", timers |-> {"B"}, ack |-> ack, sending |-> 1]
    BY <1>1 DEF Transaction!NewTransaction
  <1>4. PICK new : new = Transaction!NewTransaction
    OBVIOUS
  <1>5. new \in Attempts /\ new.sending = 1
    BY <1>2, <1>3, <1>4 DEF Attempts, Transaction!State, Transaction!Timer
  <1>6. NotMade \in Attempts
    <2>1. NotMade = [new EXCEPT !.state = "Terminated", !.timers = {},
                                !.sending = 0]
      BY <1>4 DEF NotMade
    <2> QED
      <3>1. PICK over : over = [new EXCEPT !.state = "Terminated"]
        OBVIOUS
      <3>2. PICK idle : idle = [over EXCEPT !.timers = {}]
        OBVIOUS
      <3>3. {} \in SUBSET Transaction!Timer
        OBVIOUS
      <3>4. over \in Attempts
        BY <1>5, <3>1 DEF Attempts, Transaction!State
      <3>5. idle \in Attempts
        BY <3>2, <3>3, <3>4 DEF Attempts
      <3>6. NotMade = [idle EXCEPT !.sending = 0]
        BY <2>1, <3>1, <3>2
      <3> QED BY <3>5, <3>6 DEF Attempts
  <1> QED BY <1>4, <1>5, <1>6

LEMMA AttemptInitInv == AttemptInit => AttemptInv
  <1> SUFFICES ASSUME AttemptInit PROVE AttemptInv
    OBVIOUS
  <1>1. /\ Transaction!NewTransaction \in Attempts
        /\ Transaction!NewTransaction.sending = 1
        /\ NotMade \in Attempts
    BY NewAttempts
  <1>2. txs \in [Attempt -> Attempts]
    BY <1>1 DEF AttemptInit
  <1>3. 1 \in Attempt
    BY MaxAttemptAssumption DEF Attempt
  <1> QED
    BY <1>1, <1>2, <1>3
    DEF AttemptInit, AttemptInv, AttemptTypeOK, UnsentIsSending,
        EarlyIsUntold, OneAttemptOutcome,
        Attempts, Transaction!Count

(* The state changes of a transaction.                                     *)
LEMMA AttemptsStay ==
    ASSUME NEW t \in Attempts
    PROVE  /\ \A s \in Transaction!State :
                 /\ Transaction!Enter(t, s) \in Attempts
                 /\ Transaction!Enter(t, s).state = s
                 /\ Transaction!Enter(t, s).sending = t.sending
           /\ Transaction!CanSend(t) =>
                 /\ Transaction!Send(t) \in Attempts
                 /\ Transaction!Send(t).state = t.state
                 /\ Transaction!Send(t).sending = t.sending + 1
           /\ t.sending >= 1 =>
                 /\ [t EXCEPT !.sending = @ - 1] \in Attempts
                 /\ [t EXCEPT !.sending = @ - 1].state = t.state
                 /\ [t EXCEPT !.sending = @ - 1].sending = t.sending - 1
           /\ [t EXCEPT !.ack["tag"] = "primed"] \in Attempts
           /\ [t EXCEPT !.ack["tag"] = "primed"].state = t.state
           /\ [t EXCEPT !.ack["tag"] = "primed"].sending = t.sending
  <1>1. ASSUME NEW s \in Transaction!State
        PROVE  /\ Transaction!Enter(t, s) \in Attempts
               /\ Transaction!Enter(t, s).state = s
               /\ Transaction!Enter(t, s).sending = t.sending
    <2>1. PICK running : running = Transaction!TimersOf(s, t.timers)
      OBVIOUS
    <2>2. running \in SUBSET Transaction!Timer
      BY <2>1 DEF Transaction!TimersOf, Transaction!Timer, Attempts,
         Transaction!State
    <2> QED
      BY <2>1, <2>2 DEF Transaction!Enter, Attempts
  <1>2. Transaction!CanSend(t) =>
            /\ Transaction!Send(t) \in Attempts
            /\ Transaction!Send(t).state = t.state
            /\ Transaction!Send(t).sending = t.sending + 1
    BY DEF Transaction!CanSend, Transaction!Send, Attempts
  <1>3. t.sending >= 1 =>
            /\ [t EXCEPT !.sending = @ - 1] \in Attempts
            /\ [t EXCEPT !.sending = @ - 1].state = t.state
            /\ [t EXCEPT !.sending = @ - 1].sending = t.sending - 1
    BY DEF Attempts
  <1>4. /\ [t EXCEPT !.ack["tag"] = "primed"] \in Attempts
        /\ [t EXCEPT !.ack["tag"] = "primed"].state = t.state
        /\ [t EXCEPT !.ack["tag"] = "primed"].sending = t.sending
    <2>1. PICK ack : ack = [t.ack EXCEPT !["tag"] = "primed"]
      OBVIOUS
    <2>2. ack \in [{"tag"} -> Transaction!CacheEntry]
      BY <2>1 DEF Attempts, Transaction!CacheEntry
    <2> QED
      BY <2>1, <2>2 DEF Attempts
  <1> QED BY <1>1, <1>2, <1>3, <1>4

(* What a step does to the transaction of one attempt.                     *)
Changes(a, t) ==
    /\ a \in Attempt
    /\ t \in Attempts
    /\ txs' = [txs EXCEPT ![a] = t]
    /\ a \in unsent' => t.sending >= 1

(* A step of one attempt leaves the others as they are.                    *)
LEMMA ChangeKeeps ==
    ASSUME AttemptInv, NEW a, NEW t, Changes(a, t), unsent' \subseteq unsent
    PROVE  /\ txs' \in [Attempt -> Attempts]
           /\ unsent' \subseteq Attempt
           /\ UnsentIsSending'
           /\ txs'[a] = t
           /\ \A b \in Attempt \ {a} : txs'[b] = txs[b]
  BY DEF AttemptInv, AttemptTypeOK, Changes, UnsentIsSending

(* The user is told the outcome, and the transaction is past it.           *)
(* What the delegate is told while nothing was told before.                *)
LEMMA TellKeeps ==
    ASSUME AttemptInv, Early, NEW outcome \in {"accepted", "refused"},
           Tell(outcome)
    PROVE  /\ reported' \in [outcome : {"none", "accepted", "refused"},
                         count : Transaction!Count, ackFailed : BOOLEAN]
           /\ OneAttemptOutcome'
  BY DEF AttemptInv, AttemptTypeOK, EarlyIsUntold, OneAttemptOutcome, Tell,
     Transaction!Again, Transaction!Count

LEMMA AttemptStepInv == AttemptInv /\ [AttemptNext]_attemptVars => AttemptInv'
  <1> SUFFICES ASSUME AttemptInv, [AttemptNext]_attemptVars PROVE AttemptInv'
    OBVIOUS
  <1> DEFINE cur == uac.current
             Typed == /\ txs' \in [Attempt -> Attempts]
                      /\ unsent' \subseteq Attempt
                      /\ uac' \in [current : Attempt, challenged : BOOLEAN,
                                   stale : BOOLEAN, canceled : BOOLEAN,
                                   listening : BOOLEAN]
                      /\ reported' \in [outcome : {"none", "accepted", "refused"},
                                    count : Transaction!Count,
                                    ackFailed : BOOLEAN]
                      /\ cancels' \subseteq Attempt
  <1>a. /\ cur \in Attempt
        /\ txs \in [Attempt -> Attempts]
        /\ Current = txs[cur]
        /\ Current \in Attempts
    BY DEF AttemptInv, AttemptTypeOK, Current
  <1>b. /\ Typed /\ UnsentIsSending' /\ EarlyIsUntold' /\ OneAttemptOutcome'
        => AttemptInv'
    BY DEF AttemptInv, AttemptTypeOK, Attempts
  <1>c. /\ Heard \in [current : Attempt, challenged : BOOLEAN,
                      stale : BOOLEAN, canceled : BOOLEAN,
                      listening : BOOLEAN]
        /\ Heard.current = cur
    BY DEF AttemptInv, AttemptTypeOK, Heard
  <1>d. {"Calling", "Proceeding", "Accepted", "Completed", "Terminated"} =
            Transaction!State
    BY DEF Transaction!State
  <1>e. ASSUME NEW t, NEW outcome \in {"accepted", "refused"}, Early,
               Changes(cur, t), unsent' \subseteq unsent,
               t.state \notin Transaction!Early, Tell(outcome),
               uac' = Heard, UNCHANGED cancels
        PROVE  AttemptInv'
    <2>1. ~Early'
      BY <1>a, <1>c, <1>e, ChangeKeeps DEF Early, Current
    <2> QED
      BY <1>b, <1>c, <1>e, <2>1, ChangeKeeps, TellKeeps
      DEF EarlyIsUntold, AttemptInv, AttemptTypeOK
  <1>f. ASSUME NEW a \in Attempt, NEW t, Changes(a, t),
               unsent' \subseteq unsent, UNCHANGED <<uac, cancels>>,
               UNCHANGED reported,
               t.state \in Transaction!Early => t.state = txs[a].state
        PROVE  AttemptInv'
    <2>1. Early' => Early
      BY <1>a, <1>f, ChangeKeeps DEF Early, Current
    <2> QED
      BY <1>b, <1>f, <2>1, ChangeKeeps
      DEF EarlyIsUntold, OneAttemptOutcome, AttemptInv, AttemptTypeOK
  <1>1. CASE ReceiveProvisional
    <2>1. PICK t : /\ t = Transaction!Enter(Current, "Proceeding")
                   /\ txs' = [txs EXCEPT ![cur] = t]
      BY <1>1 DEF ReceiveProvisional, Becomes
    <2>2. Changes(cur, t) /\ unsent' = unsent
      BY <1>a, <1>d, <1>1, <2>1, AttemptsStay
      DEF ReceiveProvisional, Changes, AttemptInv, UnsentIsSending
    <2> QED
      BY <1>a, <1>b, <1>c, <1>1, <2>2, ChangeKeeps
      DEF ReceiveProvisional, EarlyIsUntold, OneAttemptOutcome, AttemptInv,
          AttemptTypeOK
  <1>2. CASE Receive2xx
    <2>1. PICK s : s = Transaction!Enter(Current, "Accepted")
      OBVIOUS
    <2>2. PICK t : /\ t = [s EXCEPT !.ack["tag"] = "primed"]
                   /\ txs' = [txs EXCEPT ![cur] = t]
      BY <1>2, <2>1 DEF Receive2xx, Becomes
    <2>3. s \in Attempts /\ s.state = "Accepted"
          /\ s.sending = Current.sending
      BY <1>a, <1>d, <2>1, AttemptsStay
    <2>4. t \in Attempts /\ t.state = "Accepted"
          /\ t.sending = Current.sending
      BY <2>2, <2>3, AttemptsStay
    <2>5. Changes(cur, t) /\ unsent' = unsent
      BY <1>a, <1>2, <2>2, <2>4
      DEF Receive2xx, Changes, AttemptInv, UnsentIsSending
    <2> QED
      BY <1>e, <1>2, <2>4, <2>5 DEF Receive2xx, Transaction!Early
  <1>r. Transaction!CanSend(Current) =>
           /\ Refused \in Attempts /\ Refused.state = "Completed"
           /\ Refused.sending >= Current.sending
    <2>1. PICK s : s = Transaction!Enter(Current, "Completed")
      OBVIOUS
    <2>2. s \in Attempts /\ s.state = "Completed"
          /\ s.sending = Current.sending
      BY <1>a, <1>d, <2>1, AttemptsStay
    <2>3. Transaction!CanSend(Current) => Transaction!CanSend(s)
      BY <2>2 DEF Transaction!CanSend
    <2> QED
      <3>1. Refused = Transaction!Send(s)
        BY <2>1 DEF Refused
      <3>2. s.sending + 1 >= s.sending
        BY <2>2 DEF Attempts
      <3> QED BY <2>2, <2>3, <3>1, <3>2, AttemptsStay
  <1>3. ASSUME NEW b \in Attempt, NEW challenge \in {"fresh", "stale"},
               ReceiveChallenge(b, challenge)
        PROVE  AttemptInv'
    <2>1. /\ cur + 1 \in Attempt /\ cur + 1 # cur
      BY <1>a, <1>3, MaxAttemptAssumption DEF ReceiveChallenge, Attempt
    <2>2. /\ Transaction!NewTransaction \in Attempts
          /\ Transaction!NewTransaction.sending = 1
      BY NewAttempts
    <2>3. /\ txs' \in [Attempt -> Attempts]
          /\ txs'[cur] = Refused
          /\ txs'[cur + 1] = Transaction!NewTransaction
          /\ \A a \in Attempt \ {cur, cur + 1} : txs'[a] = txs[a]
      BY <1>a, <1>r, <1>3, <2>1, <2>2 DEF ReceiveChallenge
    <2>4. /\ uac' \in [current : Attempt, challenged : BOOLEAN,
                        stale : BOOLEAN, canceled : BOOLEAN,
                        listening : BOOLEAN]
      <3>1. PICK stale \in BOOLEAN :
                    stale = (uac.stale \/ challenge = "stale")
        OBVIOUS
      <3>2. uac' = [Heard EXCEPT !.current = cur + 1, !.challenged = TRUE,
                                 !.stale = stale]
        BY <1>3, <1>c, <3>1 DEF ReceiveChallenge, Heard, AttemptInv,
           AttemptTypeOK
      <3> QED BY <1>c, <2>1, <3>2
    <2>5. UnsentIsSending'
      <3> SUFFICES ASSUME NEW a \in unsent' PROVE txs'[a].sending >= 1
        BY DEF UnsentIsSending
      <3>1. CASE a = cur + 1
        BY <2>2, <2>3, <3>1
      <3>2. CASE a = cur /\ a \in unsent
        BY <1>a, <1>r, <1>3, <2>3, <3>2
        DEF ReceiveChallenge, AttemptInv, UnsentIsSending, Attempts
      <3>3. CASE a \notin {cur, cur + 1} /\ a \in unsent
        BY <2>3, <3>3 DEF AttemptInv, AttemptTypeOK, UnsentIsSending
      <3> QED
        BY <1>3, <3>1, <3>2, <3>3 DEF ReceiveChallenge
    <2> QED
      BY <1>b, <1>3, <2>1, <2>3, <2>4, <2>5
      DEF ReceiveChallenge, EarlyIsUntold, OneAttemptOutcome, AttemptInv,
          AttemptTypeOK
  <1>4. ASSUME NEW b \in Attempt, ReceiveRefusal(b)
        PROVE  AttemptInv'
    <2>1. Changes(cur, Refused) /\ unsent' = unsent
      BY <1>a, <1>r, <1>4
      DEF ReceiveRefusal, Becomes, Changes, AttemptInv, UnsentIsSending,
          Attempts
    <2> QED
      BY <1>e, <1>r, <1>4, <2>1 DEF ReceiveRefusal, Transaction!Early
  <1>5. CASE TimerB
    <2>1. PICK t : /\ t = Transaction!Enter(Current, "Terminated")
                   /\ txs' = [txs EXCEPT ![cur] = t]
      BY <1>5 DEF TimerB, Becomes
    <2>t. t \in Attempts /\ t.state = "Terminated"
          /\ t.sending = txs[cur].sending
      BY <1>a, <1>d, <2>1, AttemptsStay DEF Current
    <2>2. Changes(cur, t) /\ unsent' = unsent /\ t.state = "Terminated"
      BY <1>a, <1>5, <2>1, <2>t
      DEF TimerB, Changes, AttemptInv, UnsentIsSending
    <2> QED
      BY <1>e, <1>5, <2>2 DEF TimerB, Transaction!Early, Early
  <1>6. ASSUME NEW a \in Attempt, TimerEnds(a)
        PROVE  AttemptInv'
    <2>1. PICK t : /\ t = Transaction!Enter(txs[a], "Terminated")
                   /\ txs' = [txs EXCEPT ![a] = t]
      BY <1>a, <1>6 DEF TimerEnds
    <2>t. t \in Attempts /\ t.state = "Terminated"
          /\ t.sending = txs[a].sending
      BY <1>a, <1>d, <2>1, AttemptsStay DEF Current
    <2>2. Changes(a, t) /\ unsent' = unsent /\ t.state = "Terminated"
      BY <1>a, <1>6, <2>1, <2>t
      DEF TimerEnds, Changes, AttemptInv, UnsentIsSending
    <2> QED
      BY <1>f, <1>6, <2>2 DEF TimerEnds, Transaction!Early
  <1>7. ASSUME NEW a \in Attempt, InviteSent(a)
        PROVE  AttemptInv'
    <2>1. PICK t : /\ t = [txs[a] EXCEPT !.sending = @ - 1]
                   /\ txs' = [txs EXCEPT ![a] = t]
      BY <1>a, <1>7 DEF InviteSent
    <2>2. txs[a].sending >= 1
      BY <1>7 DEF InviteSent, AttemptInv, UnsentIsSending
    <2>3. Changes(a, t) /\ unsent' \subseteq unsent
          /\ t.state = txs[a].state
      BY <1>a, <1>7, <2>1, <2>2, AttemptsStay DEF InviteSent, Changes
    <2> QED
      BY <1>f, <1>7, <2>3 DEF InviteSent
  <1>8. ASSUME NEW a \in Attempt, AckSent(a)
        PROVE  AttemptInv'
    <2>1. PICK t : /\ t = [txs[a] EXCEPT !.sending = @ - 1]
                   /\ txs' = [txs EXCEPT ![a] = t]
      BY <1>a, <1>8 DEF AckSent
    <2>2. /\ txs[a].sending >= 1
          /\ a \in unsent => txs[a].sending - 1 >= 1
      BY <1>a, <1>8 DEF AckSent, AckPending, Attempts
    <2>3. Changes(a, t) /\ unsent' = unsent /\ t.state = txs[a].state
      BY <1>a, <1>8, <2>1, <2>2, AttemptsStay DEF AckSent, Changes
    <2> QED
      BY <1>f, <1>8, <2>3 DEF AckSent
  <1>9. ASSUME NEW a \in Attempt, AckFails(a)
        PROVE  AttemptInv'
    <2>1. PICK s : s = Transaction!Enter(txs[a], "Terminated")
      OBVIOUS
    <2>2. PICK t : /\ t = [s EXCEPT !.sending = @ - 1]
                   /\ txs' = [txs EXCEPT ![a] = t]
      BY <1>9, <2>1 DEF AckFails
    <2>3. /\ txs[a].sending >= 1
          /\ a \in unsent => txs[a].sending - 1 >= 1
      BY <1>a, <1>9 DEF AckFails, AckPending, Attempts
    <2>4. s \in Attempts /\ s.state = "Terminated"
          /\ s.sending = txs[a].sending
      BY <1>a, <1>d, <2>1, AttemptsStay
    <2>5. Changes(a, t) /\ unsent' = unsent /\ t.state = "Terminated"
      <3>1. /\ t \in Attempts /\ t.state = s.state
            /\ t.sending = s.sending - 1
        BY <2>2, <2>3, <2>4, AttemptsStay
      <3> QED
        BY <1>9, <2>2, <2>3, <2>4, <3>1 DEF AckFails, Changes
    <2>6. CASE Current.state = "Calling"
      <3>1. PICK n : /\ n = Transaction!Again(reported.count)
                     /\ reported' = [outcome |-> "refused", ackFailed |-> TRUE,
                                 count |-> n]
        BY <1>9, <2>6 DEF AckFails
      <3>2. n \in Transaction!Count
        BY <3>1 DEF Transaction!Again, Transaction!Count
      <3> QED
        BY <1>b, <1>9, <2>5, <3>1, <3>2, ChangeKeeps
        DEF AckFails, EarlyIsUntold, OneAttemptOutcome, AttemptInv,
            AttemptTypeOK
    <2>7. CASE Current.state # "Calling"
      BY <1>f, <1>9, <2>5, <2>7 DEF AckFails, Transaction!Early
    <2> QED BY <2>6, <2>7
  <1>10. CASE InviteFails
    <2>1. PICK s : s = Transaction!Enter(Current, "Terminated")
      OBVIOUS
    <2>2. PICK t : /\ t = [s EXCEPT !.sending = @ - 1]
                   /\ txs' = [txs EXCEPT ![cur] = t]
      BY <1>10, <2>1 DEF InviteFails, Becomes
    <2>3. Current.sending >= 1
      BY <1>a, <1>10 DEF InviteFails, AttemptInv, UnsentIsSending
    <2>4. s \in Attempts /\ s.state = "Terminated"
          /\ s.sending = Current.sending
      BY <1>a, <1>d, <2>1, AttemptsStay
    <2>5. Changes(cur, t) /\ unsent' \subseteq unsent
          /\ t.state = "Terminated"
      BY <1>a, <1>10, <2>2, <2>3, <2>4, AttemptsStay DEF InviteFails, Changes
    <2> QED
      BY <1>e, <1>10, <2>5 DEF InviteFails, Transaction!Early, Early
  <1>11. CASE UserCancels
    <2>1. /\ uac' \in [current : Attempt, challenged : BOOLEAN,
                        stale : BOOLEAN, canceled : BOOLEAN,
                        listening : BOOLEAN]
          /\ uac'.current = cur /\ cancels' \subseteq Attempt
      BY <1>11 DEF UserCancels, AttemptInv, AttemptTypeOK
    <2>2. Current' = Current
      BY <1>11, <2>1 DEF UserCancels, Current
    <2> QED
      BY <1>b, <1>11, <2>1, <2>2
      DEF UserCancels, UnsentIsSending, EarlyIsUntold, Early, OneAttemptOutcome,
          AttemptInv, AttemptTypeOK
  <1>12. CASE UNCHANGED attemptVars
    BY <1>12 DEF attemptVars, AttemptInv, AttemptTypeOK, UnsentIsSending,
       EarlyIsUntold,
       Early, Current, OneAttemptOutcome
  <1> QED
    BY <1>1, <1>2, <1>3, <1>4, <1>5, <1>6, <1>7, <1>8, <1>9, <1>10, <1>11,
       <1>12 DEF AttemptNext

(* The delegate hears one outcome, whatever comes on the old transactions  *)
(* (user-agent-client.ts, authenticationGuard).                            *)
THEOREM RetriesTellOnce == AttemptSpec => []OneAttemptOutcome
  <1>1. AttemptInv => OneAttemptOutcome
    BY DEF AttemptInv
  <1> QED
    BY <1>1, AttemptInitInv, AttemptStepInv, PTL DEF AttemptSpec
=============================================================================
