------------------------- MODULE InviteExchangeProofs -------------------------
(***************************************************************************)
(* What holds of an INVITE exchange for every set of forks, every bound on *)
(* sends and any number of services of the INVITE.  The steps of the       *)
(* caller are those of the client transaction, the steps of either server  *)
(* those of the server transaction, so that their invariants hold here;    *)
(* what remains is how the core hands the INVITE from one to the next.     *)
(***************************************************************************)
EXTENDS InviteExchange, TLAPS

-----------------------------------------------------------------------------
(* The client transaction, for any number of forks and of sends            *)

(* What the user has heard, by state: the link between the object and its  *)
(* user that makes OneOutcome and NoSilentEnd inductive.                   *)
HeardMatchesState ==
    /\ tx.state \in Early => ~Accepted /\ tu.finals = "never"
    /\ tx.state = "Accepted" => Accepted /\ tu.finals = "never"
    /\ tx.state = "Completed" => ~Accepted /\ tu.finals = "once"
    /\ tx.state = "Terminated" <=> tu.ended # "never"

IInv ==
    /\ TypeOK
    /\ TimersMatchState
    /\ OneOutcome
    /\ NoSilentEnd
    /\ AckOnlyWhatWasHeard
    /\ HeardMatchesState

(* The initial state satisfies the invariant.                              *)
LEMMA InitIInv == Init => IInv
  BY MaxSendingAssumption
  DEF Init, IInv, TypeOK, TimersMatchState, OneOutcome, NoSilentEnd,
      AckOnlyWhatWasHeard, HeardMatchesState, NewTransaction, Accepted, State,
      Timer, CacheEntry, Early, Count

USE DEF Early, CanSend

(* Every step preserves the invariant.                                     *)
LEMMA StepIInv == IInv /\ [Next]_vars => IInv'
<1> SUFFICES ASSUME IInv, [Next]_vars PROVE IInv'
  OBVIOUS
<1> USE MaxSendingAssumption
    DEF IInv, TypeOK, TimersMatchState, OneOutcome, NoSilentEnd,
        AckOnlyWhatWasHeard, HeardMatchesState, Accepted, State, Timer,
        CacheEntry, Enter, TimersOf, Send, Count, Again
<1>1. ASSUME NEW class \in ResponseClass, NEW tag \in Tag,
             ReceiveResponse(class, tag)
      PROVE IInv'
  <2>1. CASE ReceiveProvisional
    BY <2>1 DEF ReceiveProvisional
  <2>2. CASE ReceiveFirst2xx(tag)
    <3>1. /\ tx.state \in Early
          /\ \A t \in Tag : tu.accepts[t] = "never" /\ tx.ack[t] = "absent"
      BY <2>2 DEF ReceiveFirst2xx
    <3>2. /\ tx' = [state |-> "Accepted", timers |-> {"M"},
                     ack |-> [tx.ack EXCEPT ![tag] = "primed"],
                     sending |-> tx.sending]
          /\ tu' = [accepts |-> [tu.accepts EXCEPT ![tag] = "once"],
                     finals |-> tu.finals, failed |-> tu.failed,
                     ended |-> tu.ended]
      BY <2>2, <3>1 DEF ReceiveFirst2xx
    <3>3. QED
      BY <3>1, <3>2
  <2>3. CASE ReceiveForked2xx(tag)
    <3>1. tu.accepts[tag] = "never" /\ tx.state = "Accepted"
      BY <2>3 DEF ReceiveForked2xx
    <3>2. /\ tx' = [state |-> "Accepted", timers |-> tx.timers,
                     ack |-> [tx.ack EXCEPT ![tag] = "primed"],
                     sending |-> tx.sending]
          /\ tu' = [accepts |-> [tu.accepts EXCEPT ![tag] = "once"],
                     finals |-> tu.finals, failed |-> tu.failed,
                     ended |-> tu.ended]
      BY <2>3, <3>1 DEF ReceiveForked2xx
    <3>3. QED
      BY <3>1, <3>2
  <2>4. CASE ReceiveRepeated2xx(tag)
    BY <2>4 DEF ReceiveRepeated2xx
  <2>5. CASE ReceiveRefusal
    <3>1. tx' = [state |-> "Completed", timers |-> {"D"}, ack |-> tx.ack,
                 sending |-> tx.sending + 1]
      BY <2>5 DEF ReceiveRefusal
    <3>2. tx.sending + 1 \in 0..MaxSending
      BY <2>5 DEF ReceiveRefusal
    <3>3. QED
      BY <2>5, <3>1, <3>2 DEF ReceiveRefusal
  <2>6. CASE ReceiveRepeatedRefusal
    BY <2>6 DEF ReceiveRepeatedRefusal
  <2>7. CASE DropResponse(class, tag)
    BY <2>7 DEF DropResponse, vars
  <2>8. QED
    BY <1>1, <2>1, <2>2, <2>3, <2>4, <2>5, <2>6, <2>7 DEF ReceiveResponse
<1>2. ASSUME NEW tag \in Tag, AckResponse(tag) PROVE IInv'
  <2>1. tx' = [state |-> tx.state, timers |-> tx.timers,
               ack |-> [tx.ack EXCEPT ![tag] = "acked"],
               sending |-> tx.sending + 1]
    BY <1>2 DEF AckResponse
  <2>2. tx.sending + 1 \in 0..MaxSending
    BY <1>2 DEF AckResponse
  <2>3. QED
    BY <1>2, <2>1, <2>2 DEF AckResponse
<1>3. CASE Sent
  BY <1>3 DEF Sent
<1>4. CASE SendFails
  <2>1. tx' = [state |-> "Terminated", timers |-> {}, ack |-> tx.ack,
               sending |-> tx.sending - 1]
    BY <1>4 DEF SendFails
  <2>2. tx.sending - 1 \in 0..MaxSending
    BY <1>4 DEF SendFails
  <2>3. tu' = [accepts |-> tu.accepts, finals |-> tu.finals,
               failed |-> TRUE, ended |-> Again(tu.ended)]
    BY <1>4 DEF SendFails
  <2>4. QED
    BY <2>1, <2>2, <2>3
<1>5. CASE TimerB
  BY <1>5 DEF TimerB
<1>6. CASE TimerD
  BY <1>6 DEF TimerD
<1>7. CASE TimerM
  BY <1>7 DEF TimerM
<1>8. CASE UNCHANGED vars
  BY <1>8 DEF vars
<1>9. QED
  BY <1>1, <1>2, <1>3, <1>4, <1>5, <1>6, <1>7, <1>8 DEF Next

(* The inductive invariant holds of every behaviour.                       *)
LEMMA Invariance == Spec => []IInv
  BY InitIInv, StepIInv, PTL DEF Spec

(* The object and the user's record keep their types.                      *)
THEOREM TypeCorrect == Spec => []TypeOK
  BY Invariance, PTL DEF IInv

(* However responses are lost, repeated and reordered and whenever a send  *)
(* fails, the user hears one outcome: each fork's 2xx once or one failure, *)
(* never both (invite-client-transaction.ts:121).                          *)
THEOREM OutcomeIsUnique == Spec => []OneOutcome
  BY Invariance, PTL DEF IInv

(* The transaction is never over with its user left without an outcome or  *)
(* a transport failure (invite-client-transaction.ts:303, 473).            *)
THEOREM NeverEndsSilently == Spec => []NoSilentEnd
  BY Invariance, PTL DEF IInv

(* In every state the timer that ends it is the only one running           *)
(* (invite-client-transaction.ts:375).                                     *)
THEOREM TimersAreRight == Spec => []TimersMatchState
  BY Invariance, PTL DEF IInv

(* The 2xx ACK cache holds what the user was given, no more and no less    *)
(* (invite-client-transaction.ts:30).                                      *)
THEOREM CacheIsRight == Spec => []AckOnlyWhatWasHeard
  BY Invariance, PTL DEF IInv
-----------------------------------------------------------------------------
(* The transaction starts as the contract does.                            *)
LEMMA ContractInit == Init => Contract!Init
  BY DEF Init, Contract!Init, Accepted

(* Every step of the transaction is a step of the contract or a stutter.   *)
LEMMA ContractStep ==
    ASSUME IInv, [Next]_vars PROVE [Contract!Next]_(Contract!vars)
<1> USE DEF IInv, TypeOK, HeardMatchesState, Accepted, Count, Again,
        Contract!Next, Contract!vars, Contract!Accept, Contract!Refuse,
        Contract!TimeOut, Contract!Fail, Contract!End
<1>1. ASSUME NEW class \in ResponseClass, NEW tag \in Tag,
             ReceiveResponse(class, tag)
      PROVE [Contract!Next]_(Contract!vars)
  <2>1. CASE ReceiveProvisional
    BY <2>1 DEF ReceiveProvisional
  <2>2. CASE ReceiveFirst2xx(tag)
    BY <2>2 DEF ReceiveFirst2xx
  <2>3. CASE ReceiveForked2xx(tag)
    BY <2>3 DEF ReceiveForked2xx
  <2>4. CASE ReceiveRepeated2xx(tag)
    BY <2>4 DEF ReceiveRepeated2xx
  <2>5. CASE ReceiveRefusal
    BY <2>5 DEF ReceiveRefusal
  <2>6. CASE ReceiveRepeatedRefusal
    BY <2>6 DEF ReceiveRepeatedRefusal
  <2>7. CASE DropResponse(class, tag)
    BY <2>7 DEF DropResponse, vars
  <2>8. QED
    BY <1>1, <2>1, <2>2, <2>3, <2>4, <2>5, <2>6, <2>7 DEF ReceiveResponse
<1>2. ASSUME NEW tag \in Tag, AckResponse(tag)
      PROVE [Contract!Next]_(Contract!vars)
  BY <1>2 DEF AckResponse
<1>3. CASE Sent
  BY <1>3 DEF Sent
<1>4. CASE SendFails
  BY <1>4 DEF SendFails
<1>5. CASE TimerB
  BY <1>5 DEF TimerB
<1>6. CASE TimerD
  BY <1>6 DEF TimerD
<1>7. CASE TimerM
  BY <1>7 DEF TimerM
<1>8. CASE UNCHANGED vars
  BY <1>8 DEF vars
<1>9. QED
  BY <1>1, <1>2, <1>3, <1>4, <1>5, <1>6, <1>7, <1>8 DEF Next

(* The INVITE client transaction keeps the contract of client transactions *)
(* (transaction-user.ts:53).                                               *)
THEOREM KeepsContract == Spec => ImplementsContract
<1>1. Init /\ []IInv /\ [][Next]_vars => Contract!Spec
  BY ContractInit, ContractStep, PTL DEF Contract!Spec
<1>2. QED
  BY <1>1, Invariance, PTL DEF Spec, ImplementsContract

HIDE DEF Early, CanSend
-----------------------------------------------------------------------------
(* The exchange                                                            *)

FirstProofs ==
    INSTANCE InviteServerTransactionProofs WITH tx <- first, tu <- firstUser

SecondProofs ==
    INSTANCE InviteServerTransactionProofs WITH tx <- second, tu <- secondUser

AnsweredBy(by) ==
    \E reply \in replies : reply.by = by /\ reply.class \in {"2xx", "refusal"}

(* A server transaction that was made keeps the invariant of its module.   *)
FirstInv == IF owner[1] = 0 THEN first = NoTransaction ELSE FirstProofs!IInv

SecondInv == IF owner[2] = 0 THEN second = NoTransaction ELSE SecondProofs!IInv

(* The living transaction is the last that was made, and every one before  *)
(* it, or every one when none lives, has been answered.                    *)
Living(uas, p) ==
    Alive(uas) => /\ owner[p] = served /\ owner[p] # 0
                  /\ uas.state # "Proceeding" => AnsweredBy(served)

CallsInv ==
    /\ served \in 0..MaxServed
    /\ owner \in [Path -> 0..MaxServed]
    /\ replies \subseteq [by : 0..MaxServed, class : ResponseClass]
    /\ ~ (Alive(first) /\ Alive(second))
    /\ Living(first, 1)
    /\ Living(second, 2)
    /\ \A by \in 1..served :
          \/ AnsweredBy(by)
          \/ by = served /\ (Alive(first) \/ Alive(second))

ExchangeInv == IInv /\ FirstInv /\ SecondInv /\ CallsInv

USE DEF Path

LEMMA InitExchangeInv == ExchangeInit => ExchangeInv
  <1> SUFFICES ASSUME ExchangeInit PROVE ExchangeInv
    OBVIOUS
  <1>1. IInv
    BY InitIInv DEF ExchangeInit
  <1>2. ~Alive(first) /\ ~Alive(second)
    BY DEF ExchangeInit, NoTransaction, Alive, First!NewTransaction
  <1> QED
    BY <1>1, <1>2, MaxServedAssumption
    DEF ExchangeInit, ExchangeInv, FirstInv, SecondInv, CallsInv,
       Living
-----------------------------------------------------------------------------
(* The callee's transactions                                               *)

(* A step of the transaction of path 1, which was made before.             *)
FirstStep ==
    /\ FirstProofs!Next
    /\ owner[1] # 0
    /\ replies \subseteq replies'
    /\ replies' \subseteq replies \cup [by : {owner[1]}, class : ResponseClass]
    /\ first.state = "Proceeding" =>
          first'.state = "Proceeding" \/ AnsweredBy(owner[1])'
    /\ UNCHANGED <<owner, served>>

LEMMA FirstActs ==
    ASSUME FirstInv, CalleeActs(first, firstUser, second, 1)
    PROVE  InviteIsNew(first, firstUser, second, 1) \/ FirstStep
  <1> DEFINE says(r) == Puts(owner[1], r)
             more == [by : {owner[1]}, class : ResponseClass]
  <1> USE DEF Server!CanSend, FirstProofs!CanSend, Server!Send,
              FirstProofs!Send, Server!Enter, FirstProofs!Enter,
              Server!TimersOf, FirstProofs!TimersOf, Server!Terminate,
              FirstProofs!Terminate, Server!Again, FirstProofs!Again,
              Server!vars, FirstProofs!vars, First!Provisional, First!Final,
              FirstProofs!Provisional, FirstProofs!Final
  <1>a. \A r \in {"100", "1xx", "2xx", "refusal"} :
           says(r) => /\ replies \subseteq replies'
                      /\ replies' \subseteq replies \cup more
    BY DEF Puts, ClassOf, ResponseClass
  <1>b. ASSUME NEW r \in {"2xx", "refusal"}, says(r), UNCHANGED owner
        PROVE  AnsweredBy(owner[1])'
    <2>1. [by |-> owner[1], class |-> r] \in replies'
      BY <1>b DEF Puts, ClassOf
    <2> QED BY <1>b, <2>1 DEF AnsweredBy
  <1>c. owner[1] = 0 => /\ ~Alive(first) /\ first.timers = {}
                        /\ first.sending = 0 /\ first.state = "Terminated"
    BY DEF FirstInv, NoTransaction, Alive, First!NewTransaction
  <1>d. owner[1] # 0 => first \in
                [state : FirstProofs!State, timers : SUBSET FirstProofs!Timer,
                 provisional : FirstProofs!Provisional \cup {"none"},
                 final : FirstProofs!Final \cup {"none"}, sending : Nat]
    BY DEF FirstInv, FirstProofs!IInv, FirstProofs!TypeOK
  <1> HIDE DEF says, more
  <1>1. ASSUME NEW r \in First!Provisional \cup First!Final,
               Server(first, firstUser)!Resend(r), says(r), Alive(first),
               UNCHANGED <<owner, served>>
        PROVE  FirstStep
    <2>1. FirstProofs!Next
      BY <1>1 DEF Server!Resend, FirstProofs!Resend, FirstProofs!Next
    <2>2. owner[1] # 0
      BY <1>1, <1>c
    <2>3. first'.state = first.state
      BY <1>1, <2>2, <1>d DEF Server!Resend
    <2> QED BY <1>1, <2>1, <2>2, <2>3, <1>a DEF FirstStep, more
  <1>2. ASSUME \/ Server(first, firstUser)!AbsorbInvite
               \/ Server(first, firstUser)!AbsorbAck
               \/ Server(first, firstUser)!ReceiveAck,
               Alive(first), UNCHANGED <<owner, served, replies>>
        PROVE  FirstStep
    <2>1. FirstProofs!Next
      BY <1>2 DEF Server!AbsorbInvite, FirstProofs!AbsorbInvite,
         Server!AbsorbAck, FirstProofs!AbsorbAck, Server!ReceiveAck,
         FirstProofs!ReceiveAck, FirstProofs!Next
    <2>2. first.state = "Proceeding" => first'.state = first.state
      BY <1>2 DEF Server!AbsorbInvite, Server!AbsorbAck, Server!ReceiveAck
    <2> QED BY <1>2, <2>1, <2>2, <1>c DEF FirstStep, more
  <1>3. ASSUME NEW r \in First!Provisional, says(r),
               Server(first, firstUser)!ReplyProvisional(r),
               UNCHANGED <<owner, served>>
        PROVE  FirstStep
    <2>1. FirstProofs!Next
      BY <1>3 DEF Server!ReplyProvisional, FirstProofs!ReplyProvisional,
         FirstProofs!Next
    <2>2. owner[1] # 0
      BY <1>3, <1>c DEF Server!ReplyProvisional
    <2>3. first'.state = first.state
      BY <1>3, <2>2, <1>d DEF Server!ReplyProvisional
    <2> QED BY <1>3, <2>1, <2>2, <2>3, <1>a DEF FirstStep, more
  <1>4. ASSUME NEW r \in {"2xx", "refusal"}, says(r),
               \/ Server(first, firstUser)!ReplyFirst2xx
               \/ Server(first, firstUser)!Resend2xx
               \/ Server(first, firstUser)!ReplyRefusal,
               UNCHANGED <<owner, served>>
        PROVE  FirstStep
    <2>1. FirstProofs!Next
      BY <1>4 DEF Server!ReplyFirst2xx, FirstProofs!ReplyFirst2xx,
         Server!Resend2xx, FirstProofs!Resend2xx, Server!ReplyRefusal,
         FirstProofs!ReplyRefusal, FirstProofs!Next
    <2>2. owner[1] # 0
      BY <1>4, <1>c DEF Server!ReplyFirst2xx, Server!Resend2xx,
         Server!ReplyRefusal
    <2> QED BY <1>4, <2>1, <2>2, <1>a, <1>b DEF FirstStep, more
  <1>5. ASSUME says(first.provisional),
               Server(first, firstUser)!ProgressExtension,
               UNCHANGED <<owner, served>>
        PROVE  FirstStep
    <2>1. FirstProofs!Next
      BY <1>5 DEF Server!ProgressExtension, FirstProofs!ProgressExtension,
         FirstProofs!Next
    <2>2. owner[1] # 0
      BY <1>5, <1>c DEF Server!ProgressExtension
    <2>3. first'.state = first.state
      BY <1>5, <2>2, <1>d DEF Server!ProgressExtension
    <2>4. first.provisional \in {"100", "1xx"}
      BY <1>5, <2>2, <1>d DEF Server!ProgressExtension, FirstInv,
         FirstProofs!IInv, FirstProofs!ResponsesFitState
    <2> QED BY <1>5, <2>1, <2>2, <2>3, <2>4, <1>a DEF FirstStep, more
  <1>6. CASE Settles(first, firstUser)
    <2>1. FirstProofs!Next
      BY <1>6 DEF Settles, Server!Sent, FirstProofs!Sent, Server!SendFails,
         FirstProofs!SendFails, FirstProofs!Next
    <2>2. owner[1] # 0
      BY <1>6, <1>c DEF Settles, Server!Sent, Server!SendFails
    <2>3. first'.state = first.state
      BY <1>6, <2>2, <1>d DEF Settles, Server!Sent, Server!SendFails
    <2> QED BY <1>6, <2>1, <2>2, <2>3 DEF FirstStep, more, Settles
  <1>7. CASE TimerFires(first, firstUser)
    <2>1. FirstProofs!Next
      BY <1>7 DEF TimerFires, Server!TimerH, FirstProofs!TimerH,
         Server!TimerI, FirstProofs!TimerI, Server!TimerL, FirstProofs!TimerL,
         FirstProofs!Next
    <2>2. owner[1] # 0
      BY <1>7, <1>c DEF TimerFires, Server!TimerH, Server!TimerI,
         Server!TimerL
    <2>3. first.state # "Proceeding"
      BY <1>7, <2>2 DEF TimerFires, Server!TimerH, Server!TimerI,
         Server!TimerL, FirstInv, FirstProofs!IInv
    <2> QED BY <1>7, <2>1, <2>2, <2>3 DEF FirstStep, more, TimerFires
  <1>8. CASE InviteMatches(first, firstUser, 1)
    BY <1>8, <1>1, <1>2 DEF InviteMatches, says
  <1>9. CASE AckArrives(first, firstUser)
    BY <1>9, <1>2 DEF AckArrives
  <1>10. CASE Replies(first, firstUser, 1)
    BY <1>10, <1>3, <1>4, <1>5 DEF Replies, says
  <1> QED
    BY <1>6, <1>7, <1>8, <1>9, <1>10 DEF CalleeActs
(* A step of the transaction of path 2.                                     *)
SecondStep ==
    /\ SecondProofs!Next
    /\ owner[2] # 0
    /\ replies \subseteq replies'
    /\ replies' \subseteq replies \cup [by : {owner[2]}, class : ResponseClass]
    /\ second.state = "Proceeding" =>
          second'.state = "Proceeding" \/ AnsweredBy(owner[2])'
    /\ UNCHANGED <<owner, served>>

LEMMA SecondActs ==
    ASSUME SecondInv, CalleeActs(second, secondUser, first, 2)
    PROVE  InviteIsNew(second, secondUser, first, 2) \/ SecondStep
  <1> DEFINE says(r) == Puts(owner[2], r)
             more == [by : {owner[2]}, class : ResponseClass]
  <1> USE DEF Server!CanSend, SecondProofs!CanSend, Server!Send,
              SecondProofs!Send, Server!Enter, SecondProofs!Enter,
              Server!TimersOf, SecondProofs!TimersOf, Server!Terminate,
              SecondProofs!Terminate, Server!Again, SecondProofs!Again,
              Server!vars, SecondProofs!vars, First!Provisional, First!Final,
              SecondProofs!Provisional, SecondProofs!Final
  <1>a. \A r \in {"100", "1xx", "2xx", "refusal"} :
           says(r) => /\ replies \subseteq replies'
                      /\ replies' \subseteq replies \cup more
    BY DEF Puts, ClassOf, ResponseClass
  <1>b. ASSUME NEW r \in {"2xx", "refusal"}, says(r), UNCHANGED owner
        PROVE  AnsweredBy(owner[2])'
    <2>1. [by |-> owner[2], class |-> r] \in replies'
      BY <1>b DEF Puts, ClassOf
    <2> QED BY <1>b, <2>1 DEF AnsweredBy
  <1>c. owner[2] = 0 => /\ ~Alive(second) /\ second.timers = {}
                        /\ second.sending = 0 /\ second.state = "Terminated"
    BY DEF SecondInv, NoTransaction, Alive, First!NewTransaction
  <1>d. owner[2] # 0 => second \in
                [state : SecondProofs!State, timers : SUBSET SecondProofs!Timer,
                 provisional : SecondProofs!Provisional \cup {"none"},
                 final : SecondProofs!Final \cup {"none"}, sending : Nat]
    BY DEF SecondInv, SecondProofs!IInv, SecondProofs!TypeOK
  <1> HIDE DEF says, more
  <1>1. ASSUME NEW r \in First!Provisional \cup First!Final,
               Server(second, secondUser)!Resend(r), says(r), Alive(second),
               UNCHANGED <<owner, served>>
        PROVE  SecondStep
    <2>1. SecondProofs!Next
      BY <1>1 DEF Server!Resend, SecondProofs!Resend, SecondProofs!Next
    <2>2. owner[2] # 0
      BY <1>1, <1>c
    <2>3. second'.state = second.state
      BY <1>1, <2>2, <1>d DEF Server!Resend
    <2> QED BY <1>1, <2>1, <2>2, <2>3, <1>a DEF SecondStep, more
  <1>2. ASSUME \/ Server(second, secondUser)!AbsorbInvite
               \/ Server(second, secondUser)!AbsorbAck
               \/ Server(second, secondUser)!ReceiveAck,
               Alive(second), UNCHANGED <<owner, served, replies>>
        PROVE  SecondStep
    <2>1. SecondProofs!Next
      BY <1>2 DEF Server!AbsorbInvite, SecondProofs!AbsorbInvite,
         Server!AbsorbAck, SecondProofs!AbsorbAck, Server!ReceiveAck,
         SecondProofs!ReceiveAck, SecondProofs!Next
    <2>2. second.state = "Proceeding" => second'.state = second.state
      BY <1>2 DEF Server!AbsorbInvite, Server!AbsorbAck, Server!ReceiveAck
    <2> QED BY <1>2, <2>1, <2>2, <1>c DEF SecondStep, more
  <1>3. ASSUME NEW r \in First!Provisional, says(r),
               Server(second, secondUser)!ReplyProvisional(r),
               UNCHANGED <<owner, served>>
        PROVE  SecondStep
    <2>1. SecondProofs!Next
      BY <1>3 DEF Server!ReplyProvisional, SecondProofs!ReplyProvisional,
         SecondProofs!Next
    <2>2. owner[2] # 0
      BY <1>3, <1>c DEF Server!ReplyProvisional
    <2>3. second'.state = second.state
      BY <1>3, <2>2, <1>d DEF Server!ReplyProvisional
    <2> QED BY <1>3, <2>1, <2>2, <2>3, <1>a DEF SecondStep, more
  <1>4. ASSUME NEW r \in {"2xx", "refusal"}, says(r),
               \/ Server(second, secondUser)!ReplyFirst2xx
               \/ Server(second, secondUser)!Resend2xx
               \/ Server(second, secondUser)!ReplyRefusal,
               UNCHANGED <<owner, served>>
        PROVE  SecondStep
    <2>1. SecondProofs!Next
      BY <1>4 DEF Server!ReplyFirst2xx, SecondProofs!ReplyFirst2xx,
         Server!Resend2xx, SecondProofs!Resend2xx, Server!ReplyRefusal,
         SecondProofs!ReplyRefusal, SecondProofs!Next
    <2>2. owner[2] # 0
      BY <1>4, <1>c DEF Server!ReplyFirst2xx, Server!Resend2xx,
         Server!ReplyRefusal
    <2> QED BY <1>4, <2>1, <2>2, <1>a, <1>b DEF SecondStep, more
  <1>5. ASSUME says(second.provisional),
               Server(second, secondUser)!ProgressExtension,
               UNCHANGED <<owner, served>>
        PROVE  SecondStep
    <2>1. SecondProofs!Next
      BY <1>5 DEF Server!ProgressExtension, SecondProofs!ProgressExtension,
         SecondProofs!Next
    <2>2. owner[2] # 0
      BY <1>5, <1>c DEF Server!ProgressExtension
    <2>3. second'.state = second.state
      BY <1>5, <2>2, <1>d DEF Server!ProgressExtension
    <2>4. second.provisional \in {"100", "1xx"}
      BY <1>5, <2>2, <1>d DEF Server!ProgressExtension, SecondInv,
         SecondProofs!IInv, SecondProofs!ResponsesFitState
    <2> QED BY <1>5, <2>1, <2>2, <2>3, <2>4, <1>a DEF SecondStep, more
  <1>6. CASE Settles(second, secondUser)
    <2>1. SecondProofs!Next
      BY <1>6 DEF Settles, Server!Sent, SecondProofs!Sent, Server!SendFails,
         SecondProofs!SendFails, SecondProofs!Next
    <2>2. owner[2] # 0
      BY <1>6, <1>c DEF Settles, Server!Sent, Server!SendFails
    <2>3. second'.state = second.state
      BY <1>6, <2>2, <1>d DEF Settles, Server!Sent, Server!SendFails
    <2> QED BY <1>6, <2>1, <2>2, <2>3 DEF SecondStep, more, Settles
  <1>7. CASE TimerFires(second, secondUser)
    <2>1. SecondProofs!Next
      BY <1>7 DEF TimerFires, Server!TimerH, SecondProofs!TimerH,
         Server!TimerI, SecondProofs!TimerI, Server!TimerL, SecondProofs!TimerL,
         SecondProofs!Next
    <2>2. owner[2] # 0
      BY <1>7, <1>c DEF TimerFires, Server!TimerH, Server!TimerI,
         Server!TimerL
    <2>3. second.state # "Proceeding"
      BY <1>7, <2>2 DEF TimerFires, Server!TimerH, Server!TimerI,
         Server!TimerL, SecondInv, SecondProofs!IInv
    <2> QED BY <1>7, <2>1, <2>2, <2>3 DEF SecondStep, more, TimerFires
  <1>8. CASE InviteMatches(second, secondUser, 2)
    BY <1>8, <1>1, <1>2 DEF InviteMatches, says
  <1>9. CASE AckArrives(second, secondUser)
    BY <1>9, <1>2 DEF AckArrives
  <1>10. CASE Replies(second, secondUser, 2)
    BY <1>10, <1>3, <1>4, <1>5 DEF Replies, says
  <1> QED
    BY <1>6, <1>7, <1>8, <1>9, <1>10 DEF CalleeActs
-----------------------------------------------------------------------------
(* The core                                                                *)

(* A transaction goes on: it may be the one that answers, and does not end *)
(* before.                                                                 *)
LEMMA FirstKeeps ==
    ASSUME FirstInv, SecondInv, CallsInv, FirstStep,
           UNCHANGED <<second, secondUser>>
    PROVE  FirstInv' /\ SecondInv' /\ CallsInv'
  <1>0. FirstProofs!IInv /\ owner' = owner /\ served' = served
    BY DEF FirstStep, FirstInv
  <1>1. FirstInv'
    <2>1. FirstProofs!IInv'
      BY <1>0, FirstProofs!StepIInv DEF FirstStep
    <2> QED BY <2>1 DEF FirstInv, FirstStep
  <1>2. SecondInv'
    BY DEF SecondInv, FirstStep, SecondProofs!IInv, SecondProofs!TypeOK,
       SecondProofs!ResponsesFitState
  <1>3. \A by : AnsweredBy(by) => AnsweredBy(by)'
    BY DEF FirstStep, AnsweredBy
  <1>4. \/ first'.state = first.state
        \/ first.state = "Proceeding"
        \/ first.state # "Terminated" /\ first'.state # "Proceeding"
    BY <1>0, FirstProofs!StateStep DEF FirstStep, FirstProofs!Answered
  <1>5. Alive(first)' => Alive(first)
    BY <1>4 DEF Alive
  <1>6. Alive(first) /\ first'.state # "Proceeding" => AnsweredBy(served)'
    BY <1>0, <1>3, <1>4 DEF FirstStep, CallsInv, Living
  <1>7. Living(first, 1)' /\ Living(second, 2)'
    BY <1>0, <1>3, <1>5, <1>6 DEF CallsInv, Living, Alive
  <1>8. \A by \in 1..served :
           \/ AnsweredBy(by)'
           \/ by = served /\ (Alive(first)' \/ Alive(second)')
    BY <1>0, <1>3, <1>6 DEF CallsInv, Alive
  <1>9. replies' \subseteq [by : 0..MaxServed, class : ResponseClass]
    <2>1. [by : {owner[1]}, class : ResponseClass]
             \subseteq [by : 0..MaxServed, class : ResponseClass]
      BY DEF CallsInv
    <2> QED BY <2>1 DEF FirstStep, CallsInv
  <1> QED
    BY <1>0, <1>1, <1>2, <1>5, <1>7, <1>8, <1>9 DEF CallsInv, Alive

LEMMA SecondKeeps ==
    ASSUME SecondInv, FirstInv, CallsInv, SecondStep,
           UNCHANGED <<first, firstUser>>
    PROVE  SecondInv' /\ FirstInv' /\ CallsInv'
  <1>0. SecondProofs!IInv /\ owner' = owner /\ served' = served
    BY DEF SecondStep, SecondInv
  <1>1. SecondInv'
    <2>1. SecondProofs!IInv'
      BY <1>0, SecondProofs!StepIInv DEF SecondStep
    <2> QED BY <2>1 DEF SecondInv, SecondStep
  <1>2. FirstInv'
    BY DEF FirstInv, SecondStep, FirstProofs!IInv, FirstProofs!TypeOK,
       FirstProofs!ResponsesFitState
  <1>3. \A by : AnsweredBy(by) => AnsweredBy(by)'
    BY DEF SecondStep, AnsweredBy
  <1>4. \/ second'.state = second.state
        \/ second.state = "Proceeding"
        \/ second.state # "Terminated" /\ second'.state # "Proceeding"
    BY <1>0, SecondProofs!StateStep DEF SecondStep, SecondProofs!Answered
  <1>5. Alive(second)' => Alive(second)
    BY <1>4 DEF Alive
  <1>6. Alive(second) /\ second'.state # "Proceeding" => AnsweredBy(served)'
    BY <1>0, <1>3, <1>4 DEF SecondStep, CallsInv, Living
  <1>7. Living(second, 2)' /\ Living(first, 1)'
    BY <1>0, <1>3, <1>5, <1>6 DEF CallsInv, Living, Alive
  <1>8. \A by \in 1..served :
           \/ AnsweredBy(by)'
           \/ by = served /\ (Alive(second)' \/ Alive(first)')
    BY <1>0, <1>3, <1>6 DEF CallsInv, Alive
  <1>9. replies' \subseteq [by : 0..MaxServed, class : ResponseClass]
    <2>1. [by : {owner[2]}, class : ResponseClass]
             \subseteq [by : 0..MaxServed, class : ResponseClass]
      BY DEF CallsInv
    <2> QED BY <2>1 DEF SecondStep, CallsInv
  <1> QED
    BY <1>0, <1>1, <1>2, <1>5, <1>7, <1>8, <1>9 DEF CallsInv, Alive

(* The core makes a transaction for path 1: none lives, so that every one  *)
(* before it has been answered.                                            *)
LEMMA FirstIsNew ==
    ASSUME SecondInv, CallsInv, InviteIsNew(first, firstUser, second, 1),
           UNCHANGED <<second, secondUser>>
    PROVE  FirstInv' /\ SecondInv' /\ CallsInv'
  <1>1. /\ served' = served + 1 /\ owner' = [owner EXCEPT ![1] = served']
        /\ ~Alive(first) /\ ~Alive(second) /\ replies' = replies
        /\ served \in Nat /\ served' \in 0..MaxServed
        /\ first' = First!NewTransaction /\ firstUser' = First!NothingHeard
    BY MaxServedAssumption DEF InviteIsNew, CallsInv
  <1>2. owner'[1] = served' /\ owner'[2] = owner[2] /\ served' # 0
    BY <1>1 DEF CallsInv
  <1>3. FirstInv'
    <2>1. FirstProofs!IInv'
      BY <1>1 DEF First!NewTransaction, First!NothingHeard, FirstProofs!IInv,
         FirstProofs!TypeOK, FirstProofs!ResponsesFitState, FirstProofs!State,
         FirstProofs!Timer, FirstProofs!Provisional, FirstProofs!Final,
         FirstProofs!Count
    <2> QED BY <2>1, <1>2 DEF FirstInv
  <1>4. SecondInv'
    BY <1>2 DEF SecondInv, SecondProofs!IInv, SecondProofs!TypeOK,
       SecondProofs!ResponsesFitState
  <1>5. first'.state = "Proceeding"
    BY <1>1 DEF First!NewTransaction
  <1>6. \A by : AnsweredBy(by)' <=> AnsweredBy(by)
    BY <1>1 DEF AnsweredBy
  <1>7. Living(first, 1)' /\ Living(second, 2)'
    BY <1>1, <1>2, <1>5 DEF Living, Alive
  <1>8. \A by \in 1..served' :
           \/ AnsweredBy(by)'
           \/ by = served' /\ Alive(first)'
    BY <1>1, <1>5, <1>6 DEF CallsInv, Alive
  <1> QED BY <1>1, <1>7, <1>3, <1>4, <1>8 DEF CallsInv, Alive

LEMMA SecondIsNew ==
    ASSUME FirstInv, CallsInv, InviteIsNew(second, secondUser, first, 2),
           UNCHANGED <<first, firstUser>>
    PROVE  SecondInv' /\ FirstInv' /\ CallsInv'
  <1>1. /\ served' = served + 1 /\ owner' = [owner EXCEPT ![2] = served']
        /\ ~Alive(second) /\ ~Alive(first) /\ replies' = replies
        /\ served \in Nat /\ served' \in 0..MaxServed
        /\ second' = First!NewTransaction /\ secondUser' = First!NothingHeard
    BY MaxServedAssumption DEF InviteIsNew, CallsInv
  <1>2. owner'[2] = served' /\ owner'[1] = owner[1] /\ served' # 0
    BY <1>1 DEF CallsInv
  <1>3. SecondInv'
    <2>1. SecondProofs!IInv'
      BY <1>1 DEF First!NewTransaction, First!NothingHeard, SecondProofs!IInv,
         SecondProofs!TypeOK, SecondProofs!ResponsesFitState,
         SecondProofs!State,
         SecondProofs!Timer, SecondProofs!Provisional, SecondProofs!Final,
         SecondProofs!Count
    <2> QED BY <2>1, <1>2 DEF SecondInv
  <1>4. FirstInv'
    BY <1>2 DEF FirstInv, FirstProofs!IInv, FirstProofs!TypeOK,
       FirstProofs!ResponsesFitState
  <1>5. second'.state = "Proceeding"
    BY <1>1 DEF First!NewTransaction
  <1>6. \A by : AnsweredBy(by)' <=> AnsweredBy(by)
    BY <1>1 DEF AnsweredBy
  <1>7. Living(second, 2)' /\ Living(first, 1)'
    BY <1>1, <1>2, <1>5 DEF Living, Alive
  <1>8. \A by \in 1..served' :
           \/ AnsweredBy(by)'
           \/ by = served' /\ Alive(second)'
    BY <1>1, <1>5, <1>6 DEF CallsInv, Alive
  <1> QED BY <1>1, <1>7, <1>3, <1>4, <1>8 DEF CallsInv, Alive

LEMMA Finals == First!Final = {"2xx", "refusal"}
  BY DEF First!Final

LEMMA StepExchangeInv ==
    ExchangeInv /\ [ExchangeNext]_exchange => ExchangeInv'
  <1> SUFFICES ASSUME ExchangeInv, [ExchangeNext]_exchange PROVE ExchangeInv'
    OBVIOUS
  <1>1. ASSUME [Next]_vars, UNCHANGED callee
        PROVE  ExchangeInv'
    <2>1. IInv'
      BY <1>1, StepIInv DEF ExchangeInv
    <2>2. UNCHANGED <<first, firstUser, second, secondUser, owner, served,
                      replies>>
      BY <1>1 DEF callee
    <2>3. FirstInv' /\ SecondInv'
      BY <2>2 DEF ExchangeInv, FirstInv, SecondInv, FirstProofs!IInv,
         FirstProofs!TypeOK, FirstProofs!ResponsesFitState,
         SecondProofs!IInv, SecondProofs!TypeOK,
         SecondProofs!ResponsesFitState
    <2>4. CallsInv'
      BY <2>2 DEF ExchangeInv, CallsInv, Living, Alive, AnsweredBy
    <2> QED BY <2>1, <2>3, <2>4 DEF ExchangeInv
  <1>2. CASE Callee
    <2>1. IInv'
      BY <1>2, StepIInv DEF Callee, ExchangeInv
    <2>2. CASE /\ CalleeActs(first, firstUser, second, 1)
               /\ UNCHANGED <<second, secondUser>>
      BY <2>1, <2>2, FirstActs, FirstKeeps, FirstIsNew DEF ExchangeInv
    <2>3. CASE /\ CalleeActs(second, secondUser, first, 2)
               /\ UNCHANGED <<first, firstUser>>
      BY <2>1, <2>3, SecondActs, SecondKeeps, SecondIsNew DEF ExchangeInv
    <2>4. CASE InviteMerges(first, second) \/ InviteMerges(second, first)
      <3>1. /\ UNCHANGED <<first, firstUser, second, secondUser, owner, served>>
            /\ replies' = replies \cup {[by |-> 0, class |-> "refusal"]}
        BY <2>4 DEF InviteMerges, Puts, ClassOf, First!Provisional
      <3>5. replies' \subseteq [by : 0..MaxServed, class : ResponseClass]
        BY <3>1, MaxServedAssumption DEF ExchangeInv, CallsInv, ResponseClass
      <3>2. FirstInv' /\ SecondInv'
        BY <3>1 DEF ExchangeInv, FirstInv, SecondInv, FirstProofs!IInv,
           FirstProofs!TypeOK, FirstProofs!ResponsesFitState,
           SecondProofs!IInv, SecondProofs!TypeOK,
           SecondProofs!ResponsesFitState
      <3>3. \A by : AnsweredBy(by) => AnsweredBy(by)'
        BY <3>1 DEF AnsweredBy
      <3>4. CallsInv'
        BY <3>1, <3>3, <3>5 DEF ExchangeInv, CallsInv, Living, Alive
      <3> QED BY <2>1, <3>2, <3>4 DEF ExchangeInv
    <2> QED BY <1>2, <2>2, <2>3, <2>4 DEF Callee
  <1>3. CASE ResponseArrives
    <2>1. PICK reply \in replies : ReceiveResponse(reply.class, reply.by)
      BY <1>3 DEF ResponseArrives
    <2>2. reply.class \in ResponseClass /\ reply.by \in Tag
      BY MaxServedAssumption DEF ExchangeInv, CallsInv
    <2> QED BY <1>1, <1>3, <2>1, <2>2 DEF Next, ResponseArrives
  <1>4. CASE ForkAnswers
    BY <1>1, <1>4 DEF ForkAnswers, Next
  <1>5. CASE CallerActs \/ CallerTimers
    BY <1>1, <1>5 DEF CallerActs, CallerTimers, Next
  <1>6. CASE UNCHANGED exchange
    BY <1>1, <1>6 DEF exchange, vars
  <1> QED
    BY <1>2, <1>3, <1>4, <1>5, <1>6 DEF ExchangeNext

LEMMA ExchangeInvariance == ExchangeSpec => []ExchangeInv
  BY InitExchangeInv, StepExchangeInv, PTL DEF ExchangeSpec
-----------------------------------------------------------------------------
(* The caller takes the steps of its transaction and no others.            *)
LEMMA CallerStep == ExchangeInv /\ [ExchangeNext]_exchange => [Next]_vars
  <1> SUFFICES ASSUME ExchangeInv, ExchangeNext PROVE [Next]_vars
    BY DEF exchange, vars
  <1>1. CASE Callee
    BY <1>1 DEF Callee
  <1>2. CASE ResponseArrives
    <2>1. PICK reply \in replies : ReceiveResponse(reply.class, reply.by)
      BY <1>2 DEF ResponseArrives
    <2>2. reply.class \in ResponseClass /\ reply.by \in Tag
      BY MaxServedAssumption DEF ExchangeInv, CallsInv
    <2> QED BY <2>1, <2>2 DEF Next
  <1>3. CASE ForkAnswers
    BY <1>3 DEF ForkAnswers, Next
  <1>4. CASE CallerActs \/ CallerTimers
    BY <1>4 DEF CallerActs, CallerTimers, Next
  <1> QED BY <1>1, <1>2, <1>3, <1>4 DEF ExchangeNext

(* However a network of proxies repeats, reorders and forks an INVITE, the *)
(* callee is called once at a time: user-agent-core.ts makes no second     *)
(* server transaction while one lives, and none before the calls of it     *)
(* that are over have been answered.                                       *)
THEOREM CalledOnceAtATime == ExchangeSpec => []OneCallAtATime
  <1>1. CallsInv => OneCallAtATime
    BY MaxServedAssumption, Finals
    DEF CallsInv, OneCallAtATime, AnsweredBy
  <1> QED BY <1>1, ExchangeInvariance, PTL DEF ExchangeInv

(* What either server transaction of the callee repeats fits its state     *)
(* (invite-server-transaction.ts:92 and :353), whichever branch the INVITE *)
(* and the ACKs come on.                                                   *)
THEOREM ServersRepeatWhatFits == ExchangeSpec => []ResponsesFitState
  <1>1. FirstInv /\ SecondInv => ResponsesFitState
    BY DEF FirstInv, SecondInv, ResponsesFitState, FirstProofs!IInv,
       SecondProofs!IInv, FirstProofs!ResponsesFitState,
       SecondProofs!ResponsesFitState, First!ResponsesFitState,
       Second!ResponsesFitState
  <1> QED BY <1>1, ExchangeInvariance, PTL DEF ExchangeInv

(* The caller of the exchange hears one outcome and runs the timers of its *)
(* state alone, whatever the callee, its copies and other forks answer.    *)
THEOREM ExchangeOutcome == ExchangeSpec => [](OneOutcome /\ TimersMatchState)
  BY ExchangeInvariance, PTL DEF ExchangeInv, IInv

(* The caller keeps the contract of client transactions in the exchange.   *)
THEOREM ExchangeKeepsContract == ExchangeSpec => ImplementsContract
  <1>1. ExchangeInit => Contract!Init
    BY ContractInit DEF ExchangeInit
  <1>2. ExchangeInv /\ [ExchangeNext]_exchange
           => [Contract!Next]_(Contract!vars)
    BY CallerStep, ContractStep DEF ExchangeInv
  <1> QED
    BY <1>1, <1>2, ExchangeInvariance, PTL
    DEF ExchangeSpec, ImplementsContract, Contract!Spec
=============================================================================
