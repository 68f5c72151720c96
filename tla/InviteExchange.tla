---------------------------- MODULE InviteExchange ----------------------------
(***************************************************************************)
(* An INVITE between two SIP.js user agents: the client transaction of one *)
(* (this module extends it), the server transactions of the other, its     *)
(* core, user-agent-core.ts, and a network of proxies that loses, repeats, *)
(* reorders and forks.  The INVITE may come by two paths, each with a      *)
(* branch of its own; the core finds the server transaction of a branch in *)
(* userAgentServers as long as it lives, which timer I, of no time at all, *)
(* makes as short as it can be.                                            *)
(***************************************************************************)
EXTENDS InviteClientTransaction

CONSTANT
    MaxServed       \* bound: INVITE server transactions the callee makes

(* 0 stands for the tag of a reply that no transaction makes.              *)
ASSUME MaxServedAssumption == MaxServed \in Nat /\ 0..MaxServed \subseteq Tag

VARIABLES
    first, firstUser,   \* the transaction of the INVITE that came by path 1,
    second, secondUser, \* by path 2, and what their users were told
    owner,              \* [path -> which of the callee's transactions it is]
    served,             \* transactions made so far; each has its own To tag
    replies             \* what was answered, [by, class]: it may arrive any
                        \* number of times, at any time, or never

callee == <<first, firstUser, second, secondUser, owner, served, replies>>

exchange == <<tx, tu, callee>>

Path == 1..2

Server(uas, user) ==
    INSTANCE InviteServerTransaction WITH tx <- uas, tu <- user

First == INSTANCE InviteServerTransaction WITH tx <- first, tu <- firstUser

Second == INSTANCE InviteServerTransaction WITH tx <- second, tu <- secondUser

Alive(uas) == uas.state # "Terminated"

(* A transaction that is over is one that userAgentServers does not have.  *)
NoTransaction == [First!NewTransaction EXCEPT !.state = "Terminated"]

ExchangeInit ==
    /\ Init
    /\ first = NoTransaction
    /\ second = NoTransaction
    /\ firstUser = First!NothingHeard
    /\ secondUser = First!NothingHeard
    /\ owner = [p \in Path |-> 0]
    /\ served = 0
    /\ replies = {}

ClassOf(response) ==
    IF response \in First!Provisional THEN "provisional" ELSE response

Puts(by, response) ==
    replies' = replies \cup {[by |-> by, class |-> ClassOf(response)]}
-----------------------------------------------------------------------------
(* The callee.  The INVITE comes, for the first time or again, and finds a *)
(* transaction of its branch ...                                           *)
InviteMatches(uas, user, p) ==
    /\ Alive(uas)
    /\ \/ \E response \in First!Provisional \cup First!Final :
              /\ Server(uas, user)!Resend(response)
              /\ Puts(owner[p], response)
       \/ Server(uas, user)!AbsorbInvite /\ UNCHANGED replies
    /\ UNCHANGED <<owner, served>>

(* ... or that of the other branch, and is refused without one: 482 ...    *)
InviteMerges(uas, other) ==
    /\ ~ Alive(uas)
    /\ Alive(other)
    /\ Puts(0, "refusal")
    /\ UNCHANGED <<first, firstUser, second, secondUser, owner, served>>

(* A mutant of InviteIsNew.                                                *)
InviteIsNewUnmerged(uas, user, other, p) ==
    /\ ~ Alive(uas)
    /\ served < MaxServed
    /\ served' = served + 1
    /\ owner' = [owner EXCEPT ![p] = served']
    /\ uas' = First!NewTransaction
    /\ user' = First!NothingHeard
    /\ UNCHANGED replies

(* ... or none, and an InviteUserAgentServer is made for it.               *)
InviteIsNew(uas, user, other, p) ==
    /\ ~ Alive(uas)
    /\ ~ Alive(other)
    /\ served < MaxServed
    /\ served' = served + 1
    /\ owner' = [owner EXCEPT ![p] = served']
    /\ uas' = First!NewTransaction
    /\ user' = First!NothingHeard
    /\ UNCHANGED replies

(* The ACK of a refusal has the branch of its INVITE: it may be that of a  *)
(* transaction before this one, or of a 482.                               *)
AckArrives(uas, user) ==
    /\ \E reply \in replies : reply.class = "refusal"
    /\ Alive(uas)
    /\ Server(uas, user)!ReceiveAck \/ Server(uas, user)!AbsorbAck
    /\ UNCHANGED <<owner, served, replies>>

Replies(uas, user, p) ==
    /\ \/ \E response \in First!Provisional :
              /\ Server(uas, user)!ReplyProvisional(response)
              /\ Puts(owner[p], response)
       \/ /\ Server(uas, user)!ReplyFirst2xx \/ Server(uas, user)!Resend2xx
          /\ Puts(owner[p], "2xx")
       \/ Server(uas, user)!ReplyRefusal /\ Puts(owner[p], "refusal")
       \/ /\ Server(uas, user)!ProgressExtension
          /\ Puts(owner[p], uas.provisional)
    /\ UNCHANGED <<owner, served>>

Settles(uas, user) ==
    /\ Server(uas, user)!Sent \/ Server(uas, user)!SendFails
    /\ UNCHANGED <<owner, served, replies>>

TimerFires(uas, user) ==
    /\ \/ Server(uas, user)!TimerH
       \/ Server(uas, user)!TimerI
       \/ Server(uas, user)!TimerL
    /\ UNCHANGED <<owner, served, replies>>

CalleeActs(uas, user, other, p) ==
    \/ InviteMatches(uas, user, p)
    \/ InviteIsNew(uas, user, other, p)
    \/ AckArrives(uas, user)
    \/ Replies(uas, user, p)
    \/ Settles(uas, user)
    \/ TimerFires(uas, user)

Callee ==
    /\ \/ CalleeActs(first, firstUser, second, 1)
          /\ UNCHANGED <<second, secondUser>>
       \/ CalleeActs(second, secondUser, first, 2)
          /\ UNCHANGED <<first, firstUser>>
       \/ InviteMerges(first, second)
       \/ InviteMerges(second, first)
    /\ UNCHANGED vars
-----------------------------------------------------------------------------
(* The caller, to whose branch the proxies bring every response back.      *)
ResponseArrives ==
    /\ \E reply \in replies : ReceiveResponse(reply.class, reply.by)
    /\ UNCHANGED callee

(* Other forks answer as they like.                                        *)
ForkAnswers ==
    /\ \E class \in ResponseClass, tag \in Tag \ (1..MaxServed) :
          ReceiveResponse(class, tag)
    /\ UNCHANGED callee

CallerActs ==
    /\ (\E tag \in Tag : AckResponse(tag)) \/ Sent \/ SendFails
    /\ UNCHANGED callee

CallerTimers == (TimerB \/ TimerD \/ TimerM) /\ UNCHANGED callee

ExchangeNext ==
    \/ Callee
    \/ ResponseArrives
    \/ ForkAnswers
    \/ CallerActs
    \/ CallerTimers

(* Each side runs the timers that are due; the network, the other forks    *)
(* and the applications promise nothing.                                   *)
ExchangeFairness ==
    /\ WF_exchange(CallerTimers)
    /\ WF_exchange(TimerFires(first, firstUser)
                     /\ UNCHANGED <<second, secondUser, vars>>)
    /\ WF_exchange(TimerFires(second, secondUser)
                     /\ UNCHANGED <<first, firstUser, vars>>)

ExchangeSpec == ExchangeInit /\ [][ExchangeNext]_exchange /\ ExchangeFairness
-----------------------------------------------------------------------------
(* Properties                                                              *)

(* However the INVITE forks and is repeated, the callee is called once at  *)
(* a time: it has one live transaction at most, and an INVITE that comes   *)
(* back after timer I or L rings again only when the last call of it has   *)
(* got a final answer.                                                     *)
OneCallAtATime ==
    /\ ~ (Alive(first) /\ Alive(second))
    /\ \A by \in 1..(served - 1) : \E reply \in replies :
          reply.by = by /\ reply.class \in First!Final

(* What retransmission and the progress interval send fits the state of    *)
(* the server transaction (invite-server-transaction.ts:92 and :353).      *)
ResponsesFitState ==
    /\ owner[1] # 0 => First!ResponsesFitState
    /\ owner[2] # 0 => Second!ResponsesFitState

(* An answered server transaction ends by itself, acknowledged or not.     *)
AnsweredEnds == First!AnsweredEnds /\ Second!AnsweredEnds
=============================================================================
