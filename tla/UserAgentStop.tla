---------------------------- MODULE UserAgentStop ----------------------------
(***************************************************************************)
(* The graceful UserAgent.stop(), src/api/user-agent.ts:467-580: it takes a*)
(* copy of its Registerers and Publishers, disposes of them one after the  *)
(* other, awaiting each, disconnects the transport and is Stopped.  The    *)
(* application may call it again before it is done, and goes on using the  *)
(* objects.  Sessions and subscriptions, disposed of in between, are       *)
(* awaited in the same way and left out.                                   *)
(***************************************************************************)
EXTENDS Integers

CONSTANTS
    Id,             \* the Registerers of the user agent
    Pub,            \* its Publishers
    MaxRequests,    \* bound, see Publisher
    Call            \* the calls of stop()

VARIABLES
    regs,           \* see Registerer
    pubs,           \* see Publisher
    stops,          \* [Call -> [phase, left, at]]
    userAgent       \* [state, connected]

stopVars == <<regs, pubs, stops, userAgent>>

Registerers == INSTANCE Registerer

Publishers == INSTANCE Publisher

(* A call of stop() not made, in its loops over the objects, past the      *)
(* disposal of the transport, or over (transitionState throws when another *)
(* call was faster).                                                       *)
Phase == {"idle", "disposing", "disconnected", "resolved", "rejected"}

StopTypeOK ==
    /\ Registerers!TypeOK
    /\ Publishers!TypeOK
    /\ stops \in [Call -> [phase : Phase, left : SUBSET (Id \cup Pub),
                           at : Id \cup {"none"}]]
    /\ userAgent \in [state : {"Started", "Stopped"}, connected : BOOLEAN]

StopInit ==
    /\ Registerers!Init
    /\ Publishers!Init
    /\ stops = [c \in Call |-> [phase |-> "idle", left |-> {}, at |-> "none"]]
    /\ userAgent = [state |-> "Started", connected |-> TRUE]
-----------------------------------------------------------------------------
(* The copies hold what was not disposed of before.                        *)
CallStop(c) ==
    /\ stops[c].phase = "idle"
    /\ userAgent.state = "Started"
    /\ stops' = [stops EXCEPT ![c] =
                    [phase |-> "disposing", at |-> "none",
                     left |-> {i \in Id : ~regs[i].disposed}
                              \cup {p \in Pub : ~pubs[p].disposed}]]
    /\ UNCHANGED <<regs, pubs, userAgent>>

(* A Registerer that was disposed of in the meantime is not waited for:    *)
(* dispose() resolves at once.                                             *)
DisposeNext(c) ==
    /\ stops[c].phase = "disposing"
    /\ stops[c].at = "none"
    /\ \E i \in stops[c].left \cap Id :
          \/ /\ Registerers!Dispose(i)
             /\ stops' = [stops EXCEPT ![c].left = @ \ {i}, ![c].at = i]
          \/ /\ regs[i].disposed
             /\ stops' = [stops EXCEPT ![c].left = @ \ {i}]
             /\ UNCHANGED regs
    /\ UNCHANGED <<pubs, userAgent>>

(* The un-PUBLISH is not waited for.                                       *)
DisposeNextPublisher(c) ==
    /\ stops[c].phase = "disposing"
    /\ stops[c].at = "none"
    /\ stops[c].left \cap Id = {}
    /\ \E p \in stops[c].left :
          /\ stops' = [stops EXCEPT ![c].left = @ \ {p}]
          /\ Publishers!Dispose(p) \/ (pubs[p].disposed /\ UNCHANGED pubs)
    /\ UNCHANGED <<regs, userAgent>>

Awaited(c) ==
    /\ stops[c].at # "none"
    /\ regs[stops[c].at].closing = "resolved"
    /\ stops' = [stops EXCEPT ![c].at = "none"]
    /\ UNCHANGED <<regs, pubs, userAgent>>

Disconnect(c) ==
    /\ stops[c].phase = "disposing"
    /\ stops[c].at = "none"
    /\ stops[c].left = {}
    /\ stops' = [stops EXCEPT ![c].phase = "disconnected"]
    /\ userAgent' = [userAgent EXCEPT !.connected = FALSE]
    /\ UNCHANGED <<regs, pubs>>

Finish(c) ==
    /\ stops[c].phase = "disconnected"
    /\ stops' = [stops EXCEPT ![c].phase =
                    IF userAgent.state = "Started" THEN "resolved" ELSE "rejected"]
    /\ userAgent' = [userAgent EXCEPT !.state = "Stopped"]
    /\ UNCHANGED <<regs, pubs>>

(* The core that stop() disposes of last disposes of the transactions: no  *)
(* answer comes after that, not even a timeout.                            *)
Answered(i) ==
    /\ userAgent.state = "Started"
    /\ \/ Registerers!Refused(i)
       \/ Registerers!UnregisterAnswered(i)
       \/ userAgent.connected /\ \/ Registerers!Accepted(i)
                                 \/ Registerers!AcceptedWithoutContact(i)
                                 \/ Registerers!AcceptedUnparsable(i)
                                 \/ Registerers!IntervalTooBrief(i)
    /\ UNCHANGED <<pubs, stops, userAgent>>

RegistererStep ==
    /\ \E i \in Id :
          \/ userAgent.connected /\ \/ Registerers!Register(i)
                                    \/ Registerers!UnregisterByUser(i)
          \/ Registerers!Dispose(i)
          \/ Registerers!Timer(i)
    /\ UNCHANGED <<pubs, stops, userAgent>>

PublisherAnswered(p) ==
    /\ userAgent.state = "Started"
    /\ \/ Publishers!Refused(p)
       \/ userAgent.connected /\ \/ Publishers!Provisional(p)
                                 \/ Publishers!Accepted(p)
                                 \/ Publishers!RemovalAccepted(p)
                                 \/ Publishers!EtagUnknown(p)
                                 \/ Publishers!IntervalTooBrief(p)
    /\ UNCHANGED <<regs, stops, userAgent>>

PublisherStep ==
    /\ \E p \in Pub :
          \/ userAgent.connected /\ (Publishers!Publish(p) \/ Publishers!Unpublish(p))
          \/ Publishers!Dispose(p)
          \/ Publishers!RefreshTimer(p)
    /\ UNCHANGED <<regs, stops, userAgent>>

StopNext ==
    \/ \E c \in Call :
          \/ CallStop(c)
          \/ DisposeNext(c)
          \/ DisposeNextPublisher(c)
          \/ Awaited(c)
          \/ Disconnect(c)
          \/ Finish(c)
    \/ \E i \in Id : Answered(i)
    \/ RegistererStep
    \/ \E p \in Pub : PublisherAnswered(p)
    \/ PublisherStep

(* An async function goes on when what it awaits has settled; every        *)
(* REGISTER is answered, by its timer at the latest, as long as the core   *)
(* lives.                                                                  *)
StopFairness ==
    /\ \A c \in Call :
          /\ WF_stopVars(DisposeNext(c)) /\ WF_stopVars(DisposeNextPublisher(c))
          /\ WF_stopVars(Awaited(c))
          /\ WF_stopVars(Disconnect(c)) /\ WF_stopVars(Finish(c))
    /\ \A i \in Id : WF_stopVars(Answered(i))

StopSpec == StopInit /\ [][StopNext]_stopVars /\ StopFairness
-----------------------------------------------------------------------------
(* Properties                                                              *)

(* Whatever stop(), the application and the servers do, a Registerer that  *)
(* is Registered has its expiry timer and a refresh to come, and so has a  *)
(* Publisher that is Published; the answers that make the code forget it,  *)
(* a Contact that does not parse and a 2xx without an ETag, are excepted.  *)
RefreshIsPending ==
    Registerers!RefreshIsPending /\ Publishers!RefreshIsPending

(* dispose() resolves, whatever request, timer or state it comes upon, as  *)
(* long as the core lives and no 2xx left the Registerer waiting for ever  *)
(* (`dropped`): one without Contact, or with one that does not parse.      *)
DisposeResolves ==
    \A i \in Id :
        regs[i].disposed ~> \/ regs[i].closing = "resolved"
                            \/ regs[i].dropped
                            \/ userAgent.state = "Stopped"

StopSettled(c) == stops[c].phase \in {"resolved", "rejected"}

(* A call of stop() that no other call meets settles, whatever the         *)
(* application does with the Registerers meanwhile: each await ends, but   *)
(* for the Registerers that DisposeResolves excepts.                       *)
LoneStopSettles ==
    \A c \in Call :
        stops[c].phase = "disposing" ~>
            \/ StopSettled(c)
            \/ \E d \in Call \ {c} : stops[d].phase # "idle"
            \/ \E i \in Id : regs[i].dropped

(* Violated.  registerer.ts:47 says of `waiting` that there is an          *)
(* outstanding REGISTER whose final response is waited for.                *)
WaitsForAnswer == \A i \in Id : regs[i].waiting => regs[i].request # "none"

(* Violated.  publisher.ts:227 "Schedule refresh": of every publication.   *)
PublicationIsRefreshed ==
    \A p \in Pub :
        pubs[p].state = "Published" => Publishers!RefreshComes(pubs[p])
=============================================================================
