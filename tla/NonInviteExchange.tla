-------------------------- MODULE NonInviteExchange --------------------------
(***************************************************************************)
(* A non-INVITE request between two SIP.js user agents: the client         *)
(* transaction of one, the server transactions of the other, and a network *)
(* of proxies that loses, repeats and reorders what they send.  The core   *)
(* of the server, user-agent-core.ts, finds a UserAgentServer by the branch*)
(* of the request, which is the same for every copy: one whose transaction *)
(* is over is removed, and as timer J takes no time, a request that is     *)
(* repeated late finds none and is handled as a new one.                   *)
(***************************************************************************)
EXTENDS Integers

CONSTANTS
    MaxSending,     \* bound: sends of a server transaction not settled
    MaxServed       \* bound: server transactions created for the request

ASSUME ServedAssumption == MaxServed \in Nat

VARIABLES
    client, caller,     \* the client transaction and what its user heard
    servers, callees,   \* the server transactions and what their users heard
    served,             \* server transactions created so far
    known,              \* the one that userAgentServers has, 0 for none
    replies             \* what was answered, [by, code]: it may arrive any
                        \* number of times, at any time, or never

vars == <<client, caller, servers, callees, served, known, replies>>

serverVars == <<servers, callees, served, known>>

Client == INSTANCE NonInviteClientTransaction WITH tx <- client, tu <- caller

Server == INSTANCE NonInviteServerTransaction WITH
    Id <- 1..MaxServed, txs <- servers, tus <- callees

TypeOK ==
    /\ Client!TypeOK
    /\ Server!TypeOK
    /\ served \in 0..MaxServed
    /\ known \in 0..served
    /\ replies \subseteq [by : 1..MaxServed, code : Server!Response]

Init ==
    /\ Client!Init
    /\ Server!Init
    /\ served = 0
    /\ known = 0
    /\ replies = {}

Live(i) == servers[i].state # "Terminated"

Says(i, code) == replies' = replies \cup {[by |-> i, code |-> code]}
-----------------------------------------------------------------------------
(* The request arrives, for the first time or again.  userAgentServers has *)
(* a transaction for it ...                                                *)
RequestMatches ==
    /\ known # 0
    /\ \/ Server!ResendLast(known) /\ Says(known, servers[known].last)
       \/ Server!DropRequest(known) /\ UNCHANGED replies
    /\ UNCHANGED <<client, caller, served, known>>

(* ... or not, and a UserAgentServer with a new one is made.               *)
RequestIsNew ==
    /\ known = 0
    /\ served < MaxServed
    /\ served' = served + 1
    /\ known' = served'
    /\ Server!Create(served')
    /\ UNCHANGED <<client, caller, replies>>

(* A user replies, be its server removed or not.                           *)
ServerReplies(i) ==
    /\ \/ Server!ReplyTrying(i) /\ Says(i, "100")
       \/ \E final \in Server!Final :
             Server!ReplyFinal(i, final) /\ Says(i, final)
    /\ UNCHANGED <<client, caller, served, known>>

ServerSent(i) ==
    /\ Server!Sent(i)
    /\ UNCHANGED <<client, caller, served, known, replies>>

(* A transaction ends, or ends again because a send of it fails late.  Its *)
(* onStateChange removes what userAgentServers has under the branch, be it *)
(* another one (user-agent-server.ts:250).                                 *)
ServerEnds(i) ==
    /\ Server!SendFails(i) \/ Server!TimerJ(i)
    /\ known' = 0
    /\ UNCHANGED <<client, caller, served, replies>>

ResponseArrives ==
    /\ \E reply \in replies :
          \/ reply.code = "100" /\ Client!ReceiveProvisional
          \/ reply.code # "100" /\ Client!ReceiveFinal(reply.code)
          \/ Client!AbsorbResponse
    /\ UNCHANGED <<serverVars, replies>>

ClientRuns ==
    /\ Client!Sent \/ Client!SendFails \/ Client!TimerF \/ Client!TimerK
    /\ UNCHANGED <<serverVars, replies>>

Next ==
    \/ RequestMatches
    \/ RequestIsNew
    \/ \E i \in 1..MaxServed : ServerReplies(i) \/ ServerSent(i) \/ ServerEnds(i)
    \/ ResponseArrives
    \/ ClientRuns

(* The client runs the timers that are due; the network, the server and    *)
(* the applications promise nothing.                                       *)
ClientTimers ==
    /\ Client!TimerF \/ Client!TimerK
    /\ UNCHANGED <<serverVars, replies>>

Fairness == WF_vars(ClientTimers)

Spec == Init /\ [][Next]_vars /\ Fairness
-----------------------------------------------------------------------------
(* Properties                                                              *)

(* A server transaction puts one final answer on the wire, however often   *)
(* the request is repeated, however late its sends fail, and although its  *)
(* user, whom the core may have forgotten, replies again.                  *)
OneAnswerPerTransaction ==
    \A r1, r2 \in replies :
        /\ r1.by = r2.by
        /\ {r1.code, r2.code} \subseteq Server!Final
        => r1 = r2

(* Whatever the network and the server do, the client transaction ends.    *)
ClientEnds == <>(client.state = "Terminated")

(* Seen by its user, the client is a client transaction as promised.       *)
ImplementsContract == Client!ImplementsContract

(* Violated.  user-agent-server.ts:248 "Remove the terminated transaction  *)
(* from the core.": one that is not terminated is found, so that there is  *)
(* one for the request at a time.                                          *)
TerminatedIsRemoved == \A i \in 1..MaxServed : Live(i) => known = i
=============================================================================
