------------------------------- MODULE Publisher -------------------------------
(***************************************************************************)
(* A Publisher, src/api/publisher.ts: it sends a PUBLISH at every call of  *)
(* publish() and unpublish(), whether or not one is outstanding, refreshes *)
(* the publication, and takes whatever answers for the answer to what it   *)
(* wants now.  A transition that is not allowed throws out of the handler, *)
(* before its cleanup.  UserAgentStop disposes of it.                      *)
(***************************************************************************)
EXTENDS Integers

CONSTANTS
    Pub,            \* the publishers of a user agent
    MaxRequests     \* bound: outstanding requests and forgotten timers at
                    \* which the application makes no call

VARIABLE
    pubs    \* [Pub -> [state, disposed, wanted, etag, timer, lost, puts,
            \*          removes]]

State == {"Initial", "Published", "Unpublished", "Terminated"}

(* `wanted` is pubRequestExpires > 0; `lost` are refresh timers that       *)
(* publishRefreshTimer no longer holds; the rest is outstanding.           *)
TypeOK ==
    pubs \in [Pub -> [state : State, disposed : BOOLEAN, wanted : BOOLEAN,
                      etag : BOOLEAN, timer : BOOLEAN, lost : 0..MaxRequests,
                      puts : 0..MaxRequests, removes : 0..MaxRequests + 1]]

NewPublisher ==
    [state |-> "Initial", disposed |-> FALSE, wanted |-> TRUE, etag |-> FALSE,
     timer |-> FALSE, lost |-> 0, puts |-> 0, removes |-> 0]

Init == pubs = [p \in Pub |-> NewPublisher]
-----------------------------------------------------------------------------
(* The object's state changes, as functions of the object.                 *)

Untimed(o) == [o EXCEPT !.timer = FALSE]

Emptied(o) == [Untimed(o) EXCEPT !.wanted = FALSE, !.etag = FALSE]

(* publish(): after unpublish() it is an initial one, without an ETag.     *)
Publishing(o) ==
    [Untimed(o) EXCEPT !.wanted = TRUE, !.etag = @ /\ o.wanted,
                       !.puts = @ + 1]

(* unpublish(): nothing is sent while there is no ETag to remove.          *)
Unpublishing(o) ==
    [Untimed(o) EXCEPT !.wanted = FALSE,
                       !.removes = IF o.etag THEN @ + 1 ELSE @]

Disposed(o) ==
    LET d == [o EXCEPT !.disposed = TRUE] IN
        IF o.disposed THEN o
        ELSE IF o.state = "Published" THEN Unpublishing(d) ELSE Emptied(d)

(* The receiver's cleanup.                                                 *)
Cleaned(o) == IF o.wanted THEN o ELSE Emptied(o)

(* A mutant of Granted.                                                    *)
GrantedUnscheduled(o) == [o EXCEPT !.state = "Published"]

(* A 2xx while the publication is wanted: a refresh is scheduled, even if  *)
(* another was, and in a Terminated publisher before the transition throws.*)
Granted(o) ==
    [o EXCEPT !.timer = TRUE,
              !.lost = IF o.timer THEN @ + 1 ELSE @,
              !.state = IF @ = "Terminated" THEN @ ELSE "Published"]

(* A 2xx while it is not.                                                  *)
Removed(o) ==
    IF o.state \in {"Initial", "Published"}
    THEN Cleaned([o EXCEPT !.state = "Unpublished", !.wanted = FALSE])
    ELSE [o EXCEPT !.wanted = FALSE]

(* A 2xx, to whatever request: an ETag that it has is taken, and an Expires*)
(* of zero for the wish that the publication be over.                      *)
Successful(o, tagged, zero) ==
    LET heard == [o EXCEPT !.etag = @ \/ tagged]
    IN IF o.wanted /\ ~zero THEN Granted(heard) ELSE Removed(heard)

(* A refusal: Unpublished, then Terminated and disposed of.                *)
Failed(o) ==
    IF o.state \in {"Initial", "Published"}
    THEN Emptied(Disposed([o EXCEPT !.state = "Terminated",
                                    !.wanted = FALSE]))
    ELSE [o EXCEPT !.wanted = FALSE]

Becomes(p, o) == pubs' = [pubs EXCEPT ![p] = o]
-----------------------------------------------------------------------------
(* The application                                                         *)

Outstanding(o) == o.puts + o.removes

MayAsk(o) == Outstanding(o) + o.lost < MaxRequests

Publish(p) == MayAsk(pubs[p]) /\ Becomes(p, Publishing(pubs[p]))

Unpublish(p) == MayAsk(pubs[p]) /\ Becomes(p, Unpublishing(pubs[p]))

Dispose(p) == ~pubs[p].disposed /\ Becomes(p, Disposed(pubs[p]))

(* The answers, in any order: o is the publisher without the request that  *)
(* is answered.                                                            *)
Put(o) == [o EXCEPT !.puts = @ - 1]

Remove(o) == [o EXCEPT !.removes = @ - 1]

Provisional(p) ==
    /\ Outstanding(pubs[p]) > 0
    /\ Becomes(p, Cleaned(pubs[p]))

Accepted(p) ==
    /\ pubs[p].puts > 0
    /\ \E tagged, zero \in BOOLEAN :
          Becomes(p, Successful(Put(pubs[p]), tagged, zero))

RemovalAccepted(p) ==
    /\ pubs[p].removes > 0
    /\ \E tagged, zero \in BOOLEAN :
          Becomes(p, Successful(Remove(pubs[p]), tagged, zero))

(* 412, the ETag is not known: published anew.                             *)
EtagUnknown(p) ==
    LET o == pubs[p]
        Retried(r) == IF r.etag /\ r.wanted
                      THEN Publishing([r EXCEPT !.etag = FALSE])
                      ELSE Failed(r)
    IN \/ o.puts > 0 /\ Becomes(p, Retried(Put(o)))
       \/ o.removes > 0 /\ Becomes(p, Retried(Remove(o)))

(* 423 with a Min-Expires: published again with what it asks, anew if that *)
(* is zero.                                                                *)
IntervalTooBrief(p) ==
    /\ pubs[p].puts > 0
    /\ \E zero \in BOOLEAN :
          LET o == Put(pubs[p])
          IN Becomes(p, IF o.wanted
                        THEN Publishing([o EXCEPT !.wanted = ~zero])
                        ELSE Failed(o))

(* Any other answer, a timeout and a transport error included.             *)
Refused(p) ==
    LET o == pubs[p]
    IN \/ o.puts > 0 /\ Becomes(p, Failed(Put(o)))
       \/ o.removes > 0 /\ Becomes(p, Failed(Remove(o)))

(* refreshRequest() throws when there is nothing to refresh.               *)
Refreshing(o) ==
    IF o.etag /\ o.wanted THEN [Untimed(o) EXCEPT !.puts = @ + 1]
                          ELSE Untimed(o)

(* It clears the timer that publishRefreshTimer holds, whichever fired.    *)
RefreshTimer(p) ==
    \/ pubs[p].timer /\ Becomes(p, Refreshing(pubs[p]))
    \/ /\ pubs[p].lost > 0
       /\ Becomes(p, Refreshing([pubs[p] EXCEPT !.lost = @ - 1]))
-----------------------------------------------------------------------------
(* Properties                                                              *)

RefreshComes(o) == o.timer \/ Outstanding(o) > 0

(* A publication does not lapse for want of a refresh: a Published         *)
(* publisher has its refresh timer or a PUBLISH outstanding, however the   *)
(* calls and the answers to earlier ones fell together, unless the server  *)
(* has left it without an ETag to refresh with.                            *)
RefreshIsPending ==
    \A p \in Pub :
        pubs[p].state = "Published" => RefreshComes(pubs[p]) \/ ~pubs[p].etag
=============================================================================
