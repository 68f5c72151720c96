---------------------------- MODULE ReInviteProofs ----------------------------
(***************************************************************************)
(* What holds of re-INVITEs for any number of them: of two that cross one  *)
(* is served at most, and the two ends agree when all is said.             *)
(*                                                                         *)
(* The argument follows a re-INVITE.  It is in one place (Place): it or its*)
(* answer is under way, or the other side serves it, or its own side applies*)
(* the answer; and both dialogs have the offer/answer state that goes with *)
(* that place (Shape).  Both are then agreed on the same description (Base),*)
(* which each holds either now or as what it would roll back to.           *)
(*                                                                         *)
(* Every step of either side is one of ten moves of a re-INVITE (StepsMove),*)
(* and each move keeps all three.                                          *)
(***************************************************************************)
EXTENDS ReInvite, TLAPS

(* What the proofs speak of: the fields of either side, by its name.       *)
client(s) == dialog[s].client

server(s) == dialog[s].server

sent(s) == dialog[s].sent

signaling(s) == dialog[s].signaling

offer(s) == dialog[s].offer

past(s) == dialog[s].before.offer

pending(s) == session[s].pendingReinvite

bare(s) == session[s].withoutSdp

offering(s) == "offer" \in session[s].work

(* The promises that a served re-INVITE, and an accepted one, wait for.    *)
serving(s) ==
    session[s].work \cap {"replyOffer", "replyAnswer", "undoReply"}

applying(s) == session[s].work \cap {"setAnswer", "getAnswer"}

(* The messages under way about the re-INVITE that s has sent.             *)
Open(s) ==
    {m \in net : \/ m.type = "INVITE" /\ m.to # s
                 \/ m.type \in {"2xx", "refusal"} /\ m.to = s}

AcksTo(s) == {m \in net : m.type = "ACK" /\ m.to = s}

(* The re-INVITE of s, if there is one, is in one place: it or its answer  *)
(* is under way, or t serves it, or s applies the answer.                  *)
Place(s, t) ==
    /\ \A m \in Open(s) : m.n = client(s)
    /\ \A m, k \in Open(s) : m = k
    /\ Open(s) # {} => client(s) # 0 /\ serving(t) = {} /\ applying(s) = {}
    /\ serving(t) # {} =>
         server(t) = client(s) /\ client(s) # 0 /\ applying(s) = {}
    /\ applying(s) # {} => client(s) # 0
    /\ client(s) # 0 =>
         Open(s) # {} \/ serving(t) # {} \/ applying(s) # {}
    /\ \A v, w \in serving(t) : v = w
    /\ \A v, w \in applying(s) : v = w
    /\ \A a \in AcksTo(t) : a.n # 0 /\ a.n <= sent(s) /\ a.n # client(s)
    /\ client(s) <= sent(s)
    /\ client(s) = 0 \/ server(s) = 0
    /\ client(s) # 0 => pending(s)
    /\ offering(s) => pending(s) /\ ~bare(s) /\ client(s) = 0

(* Its 2xx is under way; the ACK of what s serves is.                      *)
Accepting(s) == \E m \in Open(s) : m.type = "2xx"

AckDue(s) == \E a \in AcksTo(s) : a.n = server(s)

Body(s, n) == IF bare(s) THEN None ELSE <<s, n>>

(* What the two dialogs hold while the re-INVITE of s is where it is, and  *)
(* while the ACK of its 2xx is under way.                                  *)
Shape(s, t) ==
    /\ client(s) # 0 /\ applying(s) = {} =>
         IF bare(s) THEN signaling(s) = "stable"
         ELSE signaling(s) = "localOffer" /\ offer(s) = <<s, client(s)>>
    /\ "setAnswer" \in applying(s) => ~bare(s) /\ signaling(s) = "stable"
    /\ "getAnswer" \in applying(s) =>
         bare(s) /\ signaling(s) = "remoteOffer" /\ offer(s) = <<s, client(s)>>
    /\ \A m \in Open(s) :
         /\ m.type = "INVITE" => m.body = Body(s, m.n)
         /\ m.type = "2xx" => m.body = <<s, m.n>>
    /\ Accepting(s) \/ applying(s) # {} =>
         /\ server(t) = client(s)
         /\ offer(t) = <<s, client(s)>>
         /\ signaling(t) = IF bare(s) THEN "localOffer" ELSE "stable"
    /\ "replyOffer" \in serving(t) => bare(s) /\ signaling(t) = "stable"
    /\ {"replyAnswer", "undoReply"} \cap serving(t) # {} =>
         /\ ~bare(s)
         /\ signaling(t) = "remoteOffer"
         /\ offer(t) = <<s, client(s)>>
    /\ \A a \in AcksTo(t) :
         a.n = server(t) =>
           signaling(t) = IF a.body = None THEN "stable" ELSE "localOffer"
    /\ server(t) # 0 =>
         serving(t) # {} \/ Accepting(s) \/ applying(s) # {} \/ AckDue(t)
    /\ client(s) = 0 /\ server(s) = 0 => signaling(s) = "stable"

(* Of an offer that s has made the answer is on its way: the other end has *)
(* it in force.                                                            *)
Committed(s) == signaling(s) = "localOffer" /\ (Accepting(s) \/ AckDue(s))

(* The description that s is agreed on.                                    *)
Base(s) ==
    IF signaling(s) = "stable" \/ Committed(s) THEN offer(s) ELSE past(s)

(* The types, with numbers that the bounds of the model do not limit.      *)
Offer == Side \X Nat

Past == [offer : Offer, answer : Offer \cup {None}]

Record ==
    [signaling : Signaling, offer : Offer, answer : Offer \cup {None},
     before : Past, client : Nat, server : Nat, ackProcessing : BOOLEAN,
     sent : Nat, heard : Nat]

Sessions ==
    [Side -> [pendingReinvite : BOOLEAN, withoutSdp : BOOLEAN,
              work : SUBSET Work, proceeding : BOOLEAN, lost : BOOLEAN]]

Messages ==
    [type : {"INVITE", "2xx", "refusal", "ACK", "BYE"}, to : Side, n : Nat,
     body : Offer \cup {None}]

Typed ==
    /\ dialog \in [Side -> Record]
    /\ session \in Sessions
    /\ net \subseteq Messages
    /\ lapsed \in BOOLEAN

USE DEF Sessions, Messages

Both == Live("caller") /\ Live("callee")

Placed ==
    /\ Place("caller", "callee")
    /\ Place("callee", "caller")
    /\ server("caller") = 0 \/ server("callee") = 0

Shaped ==
    /\ Shape("caller", "callee")
    /\ Shape("callee", "caller")
    /\ Base("caller") = Base("callee")

(* When a re-INVITE has timed out its side has given it up wherever it is, *)
(* and when a call is over its dialogs say no more: nothing is promised    *)
(* then.                                                                   *)
IInv == Typed /\ (lapsed \/ (Placed /\ (Both => Shaped)))
-----------------------------------------------------------------------------
(* The moves: what a step of x does to the re-INVITE of either side.       *)

(* Nothing of y.                                                           *)
Untouched(y) ==
    /\ client(y)' = client(y) /\ server(y)' = server(y) /\ sent(y)' = sent(y)
    /\ signaling(y)' = signaling(y) /\ offer(y)' = offer(y)
    /\ past(y)' = past(y) /\ pending(y)' = pending(y) /\ bare(y)' = bare(y)
    /\ offering(y)' = offering(y) /\ serving(y)' = serving(y)
    /\ applying(y)' = applying(y)

(* The offer/answer state stays; or is rolled back, if there is an offer   *)
(* to roll back.                                                           *)
SameOffers(x) ==
    /\ signaling(x)' = signaling(x)
    /\ offer(x)' = offer(x)
    /\ past(x)' = past(x)

RolledBackTo(x) ==
    /\ signaling(x)' = "stable"
    /\ offer(x)' = IF signaling(x) = "stable" THEN offer(x) ELSE past(x)

(* Nothing happens to a re-INVITE, except that one which is served and     *)
(* cannot be answered is to be undone.                                     *)
Quiet(x, y) ==
    /\ Untouched(y)
    /\ Open(x)' = Open(x) /\ Open(y)' = Open(y) /\ AcksTo(y)' = AcksTo(y)
    /\ AcksTo(x)' \subseteq AcksTo(x)
    /\ signaling(x)' # "closed" =>
         /\ SameOffers(x)
         /\ \A a \in AcksTo(x) : a.n = server(x) => a \in AcksTo(x)'
    /\ client(x)' = client(x) /\ server(x)' = server(x) /\ sent(x)' = sent(x)
    /\ applying(x)' = applying(x)
    /\ \/ serving(x)' = serving(x)
       \/ /\ serving(x) # {} /\ serving(x)' = {"undoReply"}
          /\ signaling(x) # "stable"
    /\ client(x) # 0 => pending(x)' /\ bare(x)' = bare(x)
    /\ offering(x)' => pending(x)' /\ ~bare(x)' /\ client(x) = 0

(* A re-INVITE is sent.                                                    *)
Asks(x, y) ==
    /\ Untouched(y)
    /\ Open(y)' = Open(y) /\ AcksTo(x)' = AcksTo(x) /\ AcksTo(y)' = AcksTo(y)
    /\ client(x) = 0 /\ server(x) = 0
    /\ client(x)' = sent(x) + 1 /\ sent(x)' = sent(x) + 1 /\ server(x)' = 0
    /\ \E m : /\ Open(x)' = Open(x) \cup {m}
              /\ m.type = "INVITE" /\ m.n = client(x)'
              /\ m.body = Body(x, m.n)'
    /\ applying(x)' = applying(x) /\ serving(x)' = serving(x)
    /\ pending(x)' /\ ~offering(x)'
    /\ signaling(x)' # "closed" =>
         IF bare(x)' THEN SameOffers(x)
         ELSE signaling(x) = "stable" =>
                /\ signaling(x)' = "localOffer" /\ offer(x)' = <<x, client(x)'>>
                /\ past(x)' = offer(x)

(* It is refused at once.                                                  *)
RefusesInvite(x, y) ==
    /\ Untouched(x) /\ Untouched(y)
    /\ Open(x)' = Open(x) /\ AcksTo(x)' = AcksTo(x) /\ AcksTo(y)' = AcksTo(y)
    /\ \E m \in Open(y) : \E r :
         /\ m.type = "INVITE" /\ r.type = "refusal" /\ r.n = m.n
         /\ Open(y)' = (Open(y) \ {m}) \cup {r}

(* It is taken to be served.                                               *)
ServesInvite(x, y) ==
    /\ Untouched(y)
    /\ Open(x)' = Open(x) /\ AcksTo(x)' = AcksTo(x) /\ AcksTo(y)' = AcksTo(y)
    /\ client(x) = 0 /\ server(x) = 0 /\ client(x)' = 0 /\ sent(x)' = sent(x)
    /\ applying(x)' = applying(x)
    /\ pending(x)' = pending(x) /\ bare(x)' = bare(x)
    /\ offering(x)' = offering(x)
    /\ \E m \in Open(y) :
         /\ m.type = "INVITE" /\ Open(y)' = Open(y) \ {m}
         /\ server(x)' = m.n
         /\ serving(x)' = serving(x) \cup
              {IF signaling(x)' = "stable" THEN "replyOffer" ELSE "replyAnswer"}
         /\ signaling(x) = "stable" =>
              IF m.body = None THEN SameOffers(x)
              ELSE /\ signaling(x)' = "remoteOffer" /\ offer(x)' = m.body
                   /\ past(x)' = offer(x)

(* It is answered with a 2xx.                                              *)
Replies(x, y) ==
    /\ Untouched(y)
    /\ Open(x)' = Open(x) /\ AcksTo(x)' = AcksTo(x) /\ AcksTo(y)' = AcksTo(y)
    /\ client(x)' = client(x) /\ server(x)' = server(x) /\ sent(x)' = sent(x)
    /\ applying(x)' = applying(x)
    /\ pending(x)' = pending(x) /\ bare(x)' = bare(x)
    /\ offering(x)' = offering(x)
    /\ serving(x) \cap {"replyOffer", "replyAnswer"} # {} /\ serving(x)' = {}
    /\ \E m : /\ m.type = "2xx" /\ m.n = server(x) /\ m.body = <<y, m.n>>
              /\ Open(y)' = Open(y) \cup {m}
    /\ signaling(x) = "stable" =>
         /\ signaling(x)' = "localOffer" /\ offer(x)' = <<y, server(x)>>
         /\ past(x)' = offer(x)
    /\ signaling(x) = "remoteOffer" =>
         signaling(x)' = "stable" /\ offer(x)' = offer(x)

(* It is refused after all.                                                *)
Declines(x, y) ==
    /\ Untouched(y)
    /\ Open(x)' = Open(x) /\ AcksTo(x)' = AcksTo(x) /\ AcksTo(y)' = AcksTo(y)
    /\ client(x)' = client(x) /\ server(x)' = 0 /\ sent(x)' = sent(x)
    /\ applying(x)' = applying(x)
    /\ pending(x)' = pending(x) /\ bare(x)' = bare(x)
    /\ offering(x)' = offering(x)
    /\ serving(x) # {} /\ serving(x)' = {}
    /\ \E m : /\ m.type = "refusal" /\ m.n = server(x)
              /\ Open(y)' = Open(y) \cup {m}
    /\ signaling(x)' # "closed" => RolledBackTo(x)

(* The 2xx arrives at the side that asked.                                 *)
HearsAccept(x, y) ==
    /\ Untouched(y)
    /\ Open(y)' = Open(y) /\ AcksTo(x)' = AcksTo(x) /\ AcksTo(y)' = AcksTo(y)
    /\ client(x)' = client(x) /\ server(x)' = server(x) /\ sent(x)' = sent(x)
    /\ serving(x)' = serving(x)
    /\ pending(x)' = pending(x) /\ bare(x)' = bare(x)
    /\ offering(x)' = offering(x)
    /\ applying(x)' = applying(x) \cup
                        {IF bare(x) THEN "getAnswer" ELSE "setAnswer"}
    /\ \E m \in Open(x) :
         /\ m.type = "2xx" /\ Open(x)' = Open(x) \ {m}
         /\ signaling(x) = "stable" /\ m.body # None =>
              /\ signaling(x)' = "remoteOffer" /\ offer(x)' = m.body
              /\ past(x)' = offer(x)
         /\ signaling(x) = "localOffer" /\ m.body # None =>
              signaling(x)' = "stable" /\ offer(x)' = offer(x)

(* The 2xx is acknowledged.                                                *)
SendsAck(x, y) ==
    /\ Untouched(y)
    /\ Open(x)' = Open(x) /\ Open(y)' = Open(y) /\ AcksTo(x)' = AcksTo(x)
    /\ client(x)' = 0 /\ server(x)' = server(x) /\ sent(x)' = sent(x)
    /\ serving(x)' = serving(x)
    /\ offering(x)' = offering(x)
    /\ applying(x) # {} /\ applying(x)' = {}
    /\ \E a : /\ a.n = client(x) /\ AcksTo(y)' = AcksTo(y) \cup {a}
              /\ signaling(x)' # "closed" =>
                   IF "setAnswer" \in applying(x)
                   THEN a.body = None /\ SameOffers(x)
                   ELSE /\ a.body # None
                        /\ signaling(x) = "remoteOffer" =>
                             signaling(x)' = "stable" /\ offer(x)' = offer(x)

(* A refusal arrives at the side that asked, or a redirect instead of its  *)
(* INVITE at the other.                                                    *)
HearsRefusal(x, y) ==
    /\ Untouched(y)
    /\ Open(y)' = Open(y) /\ AcksTo(x)' = AcksTo(x) /\ AcksTo(y)' = AcksTo(y)
    /\ client(x) # 0 /\ client(x)' = 0 /\ server(x)' = server(x)
    /\ sent(x)' = sent(x)
    /\ serving(x)' = serving(x) /\ applying(x)' = applying(x)
    /\ offering(x)' = offering(x)
    /\ \E m \in Open(x) : m.type # "2xx" /\ Open(x)' = Open(x) \ {m}
    /\ signaling(x)' # "closed" => RolledBackTo(x)

(* The ACK arrives at the side that served.                                *)
TakesAck(x, y) ==
    /\ Untouched(y)
    /\ Open(x)' = Open(x) /\ Open(y)' = Open(y) /\ AcksTo(y)' = AcksTo(y)
    /\ client(x)' = client(x) /\ server(x)' = 0 /\ sent(x)' = sent(x)
    /\ serving(x)' = serving(x) /\ applying(x)' = applying(x)
    /\ pending(x)' = pending(x) /\ bare(x)' = bare(x)
    /\ offering(x)' = offering(x)
    /\ \E a \in AcksTo(x) :
         /\ a.n = server(x) /\ AcksTo(x)' = AcksTo(x) \ {a}
         /\ signaling(x)' # "closed" =>
              IF a.body = None THEN SameOffers(x)
              ELSE signaling(x) = "localOffer" =>
                     signaling(x)' = "stable" /\ offer(x)' = offer(x)

Move(x, y) ==
    \/ Quiet(x, y) \/ Asks(x, y) \/ RefusesInvite(x, y) \/ ServesInvite(x, y)
    \/ Replies(x, y) \/ Declines(x, y) \/ HearsAccept(x, y) \/ SendsAck(x, y)
    \/ HearsRefusal(x, y) \/ TakesAck(x, y)

(* What the place of a re-INVITE needs to be kept.                         *)
Pair(x, y) ==
    /\ client(x) \in Nat /\ client(y) \in Nat
    /\ sent(x) \in Nat /\ sent(y) \in Nat
    /\ server(x) \in Nat /\ server(y) \in Nat
    /\ \A a \in AcksTo(x) \cup AcksTo(y) : a.n \in Nat
    /\ x # y
    /\ Place(x, y) /\ Place(y, x)
    /\ server(x) = 0 \/ server(y) = 0

(* Every move leaves either re-INVITE in one place, and one is served at   *)
(* most.                                                                   *)
LEMMA MovePlaces ==
    ASSUME NEW x, NEW y, Pair(x, y), Move(x, y)
    PROVE  /\ Place(x, y)' /\ Place(y, x)'
           /\ (server(x) = 0 \/ server(y) = 0)'
  <1> USE DEF Pair, Place, Untouched, serving, applying
  <1>1. CASE Quiet(x, y)
    <2>1. Place(x, y)'
      BY <1>1 DEF Quiet
    <2>2. Place(y, x)'
      BY <1>1 DEF Quiet
    <2>3. (server(x) = 0 \/ server(y) = 0)'
      BY <1>1 DEF Quiet
    <2> QED
      BY <2>1, <2>2, <2>3
  <1>2. CASE Asks(x, y)
    <2>1. Place(x, y)'
      BY <1>2 DEF Asks
    <2>2. Place(y, x)'
      BY <1>2 DEF Asks
    <2>3. (server(x) = 0 \/ server(y) = 0)'
      BY <1>2 DEF Asks
    <2> QED
      BY <2>1, <2>2, <2>3
  <1>3. CASE RefusesInvite(x, y)
    <2>1. Place(x, y)'
      BY <1>3 DEF RefusesInvite
    <2>2. Place(y, x)'
      BY <1>3 DEF RefusesInvite
    <2>3. (server(x) = 0 \/ server(y) = 0)'
      BY <1>3 DEF RefusesInvite
    <2> QED
      BY <2>1, <2>2, <2>3
  <1>4. CASE ServesInvite(x, y)
    <2>1. Place(x, y)'
      BY <1>4 DEF ServesInvite
    <2>2. Place(y, x)'
      BY <1>4 DEF ServesInvite
    <2>3. (server(x) = 0 \/ server(y) = 0)'
      BY <1>4 DEF ServesInvite
    <2> QED
      BY <2>1, <2>2, <2>3
  <1>5. CASE Replies(x, y)
    <2>1. Place(x, y)'
      BY <1>5 DEF Replies
    <2>2. Place(y, x)'
      BY <1>5 DEF Replies
    <2>3. (server(x) = 0 \/ server(y) = 0)'
      BY <1>5 DEF Replies
    <2> QED
      BY <2>1, <2>2, <2>3
  <1>6. CASE Declines(x, y)
    <2>1. Place(x, y)'
      BY <1>6 DEF Declines
    <2>2. Place(y, x)'
      BY <1>6 DEF Declines
    <2>3. (server(x) = 0 \/ server(y) = 0)'
      BY <1>6 DEF Declines
    <2> QED
      BY <2>1, <2>2, <2>3
  <1>7. CASE HearsAccept(x, y)
    <2>1. Place(x, y)'
      BY <1>7 DEF HearsAccept
    <2>2. Place(y, x)'
      BY <1>7 DEF HearsAccept
    <2>3. (server(x) = 0 \/ server(y) = 0)'
      BY <1>7 DEF HearsAccept
    <2> QED
      BY <2>1, <2>2, <2>3
  <1>8. CASE SendsAck(x, y)
    <2>1. Place(x, y)'
      BY <1>8 DEF SendsAck
    <2>2. Place(y, x)'
      BY <1>8 DEF SendsAck
    <2>3. (server(x) = 0 \/ server(y) = 0)'
      BY <1>8 DEF SendsAck
    <2> QED
      BY <2>1, <2>2, <2>3
  <1>9. CASE HearsRefusal(x, y)
    <2>1. Place(x, y)'
      BY <1>9 DEF HearsRefusal
    <2>2. Place(y, x)'
      BY <1>9 DEF HearsRefusal
    <2>3. (server(x) = 0 \/ server(y) = 0)'
      BY <1>9 DEF HearsRefusal
    <2> QED
      BY <2>1, <2>2, <2>3
  <1>10. CASE TakesAck(x, y)
    <2>1. Place(x, y)'
      BY <1>10 DEF TakesAck
    <2>2. Place(y, x)'
      BY <1>10 DEF TakesAck
    <2>3. (server(x) = 0 \/ server(y) = 0)'
      BY <1>10 DEF TakesAck
    <2> QED
      BY <2>1, <2>2, <2>3
  <1> QED
    BY <1>1, <1>2, <1>3, <1>4, <1>5, <1>6, <1>7, <1>8, <1>9, <1>10
    DEF Move

(* What the shape of a negotiation needs to hold of both ends.             *)
Alive(x, y) ==
    /\ signaling(x) # "closed" /\ signaling(y) # "closed"
    /\ Shape(x, y) /\ Shape(y, x) /\ Base(x) = Base(y)

(* An offer or an answer is not the absence of one.                        *)
LEMMA NotNone == \A s, n : <<s, n>> # None
  BY DEF None

(* Every move that leaves both dialogs up leaves them in the shape of the  *)
(* negotiation, and with the same base.                                    *)
LEMMA MoveShapes ==
    ASSUME NEW x, NEW y, Pair(x, y), Move(x, y), Alive(x, y),
           signaling(x)' # "closed", signaling(y)' # "closed",
           Place(x, y)', Place(y, x)'
    PROVE  Shape(x, y)' /\ Shape(y, x)' /\ Base(x)' = Base(y)'
  <1> USE DEF Pair, Alive, Place, Shape, Untouched, serving, applying,
              SameOffers, RolledBackTo, Accepting, AckDue, Body
  <1>1. CASE Quiet(x, y)
    <2>1. Shape(x, y)'
      BY <1>1 DEF Quiet
    <2>2. Shape(y, x)'
      BY <1>1 DEF Quiet
    <2>3. Base(x)' = Base(y)'
      BY <1>1 DEF Quiet, Base, Committed
    <2> QED
      BY <2>1, <2>2, <2>3
  <1>2. CASE Asks(x, y)
    <2>1. Shape(x, y)'
      BY <1>2 DEF Asks
    <2>2. Shape(y, x)'
      BY <1>2 DEF Asks
    <2>3. Base(x)' = Base(y)'
      BY <1>2 DEF Asks, Base, Committed
    <2> QED
      BY <2>1, <2>2, <2>3
  <1>3. CASE RefusesInvite(x, y)
    <2>1. Shape(x, y)'
      BY <1>3 DEF RefusesInvite
    <2>2. Shape(y, x)'
      BY <1>3 DEF RefusesInvite
    <2>3. Base(x)' = Base(y)'
      BY <1>3 DEF RefusesInvite, Base, Committed
    <2> QED
      BY <2>1, <2>2, <2>3
  <1>4. CASE ServesInvite(x, y)
    <2>1. Shape(x, y)'
      BY <1>4, NotNone DEF ServesInvite
    <2>2. Shape(y, x)'
      <3>1. PICK m \in Open(y) :
              /\ m.type = "INVITE" /\ Open(y)' = Open(y) \ {m}
              /\ server(x)' = m.n
              /\ serving(x)' = serving(x) \cup
                   {IF signaling(x)' = "stable" THEN "replyOffer"
                                                ELSE "replyAnswer"}
              /\ signaling(x) = "stable" =>
                   IF m.body = None THEN SameOffers(x)
                   ELSE /\ signaling(x)' = "remoteOffer"
                        /\ offer(x)' = m.body /\ past(x)' = offer(x)
        BY <1>4 DEF ServesInvite
      <3>2. /\ signaling(x) = "stable" /\ m.body = Body(y, client(y))
            /\ m.n = client(y) /\ client(y) # 0 /\ serving(x) = {}
            /\ applying(y) = {} /\ Open(y)' = {}
        BY <1>4, <3>1 DEF ServesInvite, Shape, Place
      <3>3. \A a \in AcksTo(x)' : a.n # server(x)'
        BY <1>4, <3>1, <3>2 DEF ServesInvite, Place
      <3>4. CASE bare(y)
        BY <1>4, <3>1, <3>2, <3>3, <3>4
        DEF ServesInvite, Shape, Untouched, SameOffers, Accepting, Body
      <3>5. CASE ~bare(y)
        BY <1>4, <3>1, <3>2, <3>3, <3>5, NotNone
        DEF ServesInvite, Shape, Untouched, SameOffers, Accepting, Body
      <3> QED
        BY <3>4, <3>5
    <2>3. Base(x)' = Base(y)'
      BY <1>4, NotNone DEF ServesInvite, Base, Committed
    <2> QED
      BY <2>1, <2>2, <2>3
  <1>5. CASE Replies(x, y)
    <2>1. Shape(x, y)'
      BY <1>5 DEF Replies
    <2>2. Shape(y, x)'
      BY <1>5 DEF Replies
    <2>3. Base(x)' = Base(y)'
      BY <1>5 DEF Replies, Base, Committed
    <2> QED
      BY <2>1, <2>2, <2>3
  <1>6. CASE Declines(x, y)
    <2>1. Shape(x, y)'
      BY <1>6 DEF Declines
    <2>2. Shape(y, x)'
      BY <1>6 DEF Declines
    <2>3. Base(x)' = Base(y)'
      BY <1>6 DEF Declines, Base, Committed
    <2> QED
      BY <2>1, <2>2, <2>3
  <1>7. CASE HearsAccept(x, y)
    <2>1. Shape(x, y)'
      BY <1>7, NotNone DEF HearsAccept
    <2>2. Shape(y, x)'
      BY <1>7, NotNone DEF HearsAccept
    <2>3. Base(x)' = Base(y)'
      BY <1>7, NotNone DEF HearsAccept, Base, Committed
    <2> QED
      BY <2>1, <2>2, <2>3
  <1>8. CASE SendsAck(x, y)
    <2>1. Shape(x, y)'
      BY <1>8 DEF SendsAck
    <2>2. Shape(y, x)'
      BY <1>8 DEF SendsAck
    <2>3. Base(x)' = Base(y)'
      BY <1>8 DEF SendsAck, Base, Committed
    <2> QED
      BY <2>1, <2>2, <2>3
  <1>9. CASE HearsRefusal(x, y)
    <2>1. Shape(x, y)'
      BY <1>9 DEF HearsRefusal
    <2>2. Shape(y, x)'
      BY <1>9 DEF HearsRefusal
    <2>3. Base(x)' = Base(y)'
      BY <1>9 DEF HearsRefusal, Base, Committed
    <2> QED
      BY <2>1, <2>2, <2>3
  <1>10. CASE TakesAck(x, y)
    <2>1. Shape(x, y)'
      BY <1>10 DEF TakesAck
    <2>2. Shape(y, x)'
      BY <1>10 DEF TakesAck
    <2>3. Base(x)' = Base(y)'
      BY <1>10 DEF TakesAck, Base, Committed
    <2> QED
      BY <2>1, <2>2, <2>3
  <1> QED
    BY <1>1, <1>2, <1>3, <1>4, <1>5, <1>6, <1>7, <1>8, <1>9, <1>10
    DEF Move
-----------------------------------------------------------------------------
(* What signalingStateTransition does to a dialog.                         *)
LEMMA TakeFacts ==
    ASSUME NEW d \in Record, NEW body \in Offer \cup {None},
           NEW offered \in {"localOffer", "remoteOffer"},
           NEW e, e = Take(d, body, offered)
    PROVE  /\ e \in Record
           /\ e.client = d.client /\ e.server = d.server
           /\ e.sent = d.sent /\ e.heard = d.heard
           /\ e.ackProcessing = d.ackProcessing
           /\ body = None => e = d
           /\ d.signaling = "closed" => e = d
           /\ e.signaling = "closed" => d.signaling = "closed"
           /\ body # None /\ d.signaling = "stable" =>
                /\ e.signaling = offered /\ e.offer = body
                /\ e.before.offer = d.offer
           /\ body # None /\ d.signaling \notin {"stable", "closed", offered} =>
                e.signaling = "stable" /\ e.offer = d.offer
  <1>1. CASE body = None \/ d.signaling \in {offered, "closed"}
    BY <1>1 DEF Take, Record
  <1>2. CASE body # None /\ d.signaling = "stable"
    <2>1. e = [d EXCEPT !.signaling = offered, !.offer = body,
                        !.answer = None,
                        !.before = [offer |-> d.offer, answer |-> d.answer]]
      BY <1>2 DEF Take
    <2> DEFINE b == [offer |-> d.offer, answer |-> d.answer]
    <2>2. /\ offered \in Signaling /\ body \in Offer
          /\ b \in Past
      BY <1>2 DEF Record, Signaling, Past
    <2>3. e = [d EXCEPT !.signaling = offered, !.offer = body,
                        !.answer = None, !.before = b]
      BY <2>1
    <2> HIDE DEF b
    <2>4. e \in Record
      BY <2>2, <2>3 DEF Record
    <2>5. /\ e.signaling = offered /\ e.offer = body
          /\ e.client = d.client /\ e.server = d.server
          /\ e.sent = d.sent /\ e.heard = d.heard
          /\ e.ackProcessing = d.ackProcessing
      BY <2>1 DEF Record
    <2> USE DEF b
    <2>6. e.before = [offer |-> d.offer, answer |-> d.answer]
      BY <2>1 DEF Record
    <2> QED
      BY <1>2, <2>4, <2>5, <2>6
  <1>3. CASE body # None /\ d.signaling \notin {"stable", "closed", offered}
    <2>1. e = [d EXCEPT !.signaling = "stable", !.answer = body]
      BY <1>3 DEF Take
    <2> QED
      BY <1>3, <2>1 DEF Record, Signaling
  <1> QED
    BY <1>1, <1>2, <1>3

(* What a rollback does to it.                                             *)
LEMMA RollbackFacts ==
    ASSUME NEW d \in Record, NEW e, e = Rollback(d)
    PROVE  /\ e \in Record
           /\ e.client = d.client /\ e.server = d.server
           /\ e.sent = d.sent /\ e.heard = d.heard
           /\ e.signaling # "closed" =>
                /\ e.signaling = "stable"
                /\ e.offer = IF d.signaling = "stable" THEN d.offer
                             ELSE d.before.offer
  <1>1. CASE d.signaling \in {"localOffer", "remoteOffer"}
    <2>1. d.before.offer \in Offer /\ d.before.answer \in Offer \cup {None}
      BY DEF Record, Past
    <2>2. e = [d EXCEPT !.signaling = "stable", !.offer = d.before.offer,
                        !.answer = d.before.answer]
      BY <1>1 DEF Rollback
    <2> QED
      BY <1>1, <2>1, <2>2 DEF Record, Signaling
  <1>2. CASE d.signaling \notin {"localOffer", "remoteOffer"}
    BY <1>2 DEF Rollback, Record, Signaling
  <1> QED
    BY <1>1, <1>2

(* There are two sides.                                                    *)
LEMMA OtherIs ==
    ASSUME NEW x \in Side
    PROVE  /\ Other(x) \in Side /\ Other(x) # x /\ Other(Other(x)) = x
           /\ \A s \in Side : s = x \/ s = Other(x)
  BY DEF Side, Other

(* A side whose dialog and session stay is untouched.                      *)
LEMMA UntouchedIs ==
    ASSUME NEW y, dialog'[y] = dialog[y], session'[y] = session[y]
    PROVE  Untouched(y)
  BY DEF Untouched, client, server, sent, signaling, offer, past, pending,
         bare, offering, serving, applying

(* Where the steps of x are considered.                                    *)
Here(x, y) ==
    /\ Typed
    /\ x \in Side /\ y \in Side /\ x # y /\ y = Other(x) /\ x = Other(y)
    /\ \A s \in Side : s = x \/ s = y
    /\ Place(x, y) /\ Place(y, x)

(* The steps that leave re-INVITEs where they are.                         *)
LEMMA RenegotiateMoves ==
    ASSUME NEW x, NEW y, Here(x, y), Renegotiate(x)
    PROVE  Quiet(x, y)
  <1> USE DEF Here, Renegotiate, MayRenegotiate
  <1>1. dialog'[y] = dialog[y] /\ session'[y] = session[y]
    BY DEF Typed
  <1>2. Untouched(y)
    BY <1>1, UntouchedIs
  <1>3. /\ Open(x)' = Open(x) /\ Open(y)' = Open(y)
        /\ AcksTo(x)' = AcksTo(x) /\ AcksTo(y)' = AcksTo(y)
    BY DEF Open, AcksTo, Bye, Msg
  <1> QED
    BY <1>2, <1>3 DEF Quiet, Typed, Record, SameOffers, Place,
         Live, client, server, sent, signaling, offer, past, pending, bare,
         offering, serving, applying

LEMMA OfferFailsMoves ==
    ASSUME NEW x, NEW y, Here(x, y), OfferFails(x)
    PROVE  Quiet(x, y)
  <1> USE DEF Here, OfferFails, NoLongerPending, Settled
  <1>1. dialog'[y] = dialog[y] /\ session'[y] = session[y]
    BY DEF Typed
  <1>2. Untouched(y)
    BY <1>1, UntouchedIs
  <1>3. /\ Open(x)' = Open(x) /\ Open(y)' = Open(y)
        /\ AcksTo(x)' = AcksTo(x) /\ AcksTo(y)' = AcksTo(y)
    BY DEF Open, AcksTo, Bye, Msg
  <1> QED
    BY <1>2, <1>3 DEF Quiet, Typed, Record, SameOffers, Place,
         Live, client, server, sent, signaling, offer, past, pending, bare,
         offering, serving, applying

LEMMA UndoneMoves ==
    ASSUME NEW x, NEW y, Here(x, y), Undone(x)
    PROVE  Quiet(x, y)
  <1> USE DEF Here, Undone, Settled
  <1>1. dialog'[y] = dialog[y] /\ session'[y] = session[y]
    BY DEF Typed
  <1>2. Untouched(y)
    BY <1>1, UntouchedIs
  <1>3. /\ Open(x)' = Open(x) /\ Open(y)' = Open(y)
        /\ AcksTo(x)' = AcksTo(x) /\ AcksTo(y)' = AcksTo(y)
    BY DEF Open, AcksTo, Bye, Msg
  <1> QED
    BY <1>2, <1>3 DEF Quiet, Typed, Record, SameOffers, Place,
         Live, client, server, sent, signaling, offer, past, pending, bare,
         offering, serving, applying

LEMMA UndoFailsMoves ==
    ASSUME NEW x, NEW y, Here(x, y), UndoFails(x)
    PROVE  Quiet(x, y)
  <1> USE DEF Here, UndoFails, Settled, Closed
  <1>1. dialog'[y] = dialog[y] /\ session'[y] = session[y]
    BY DEF Typed
  <1>2. Untouched(y)
    BY <1>1, UntouchedIs
  <1>3. /\ Open(x)' = Open(x) /\ Open(y)' = Open(y)
        /\ AcksTo(x)' = AcksTo(x) /\ AcksTo(y)' = AcksTo(y)
    BY DEF Open, AcksTo, Bye, Msg
  <1> QED
    BY <1>2, <1>3 DEF Quiet, Typed, Record, SameOffers, Place,
         Live, client, server, sent, signaling, offer, past, pending, bare,
         offering, serving, applying

LEMMA AckAnswerSetMoves ==
    ASSUME NEW x, NEW y, Here(x, y), AckAnswerSet(x)
    PROVE  Quiet(x, y)
  <1> USE DEF Here, AckAnswerSet, Settled
  <1>1. dialog'[y] = dialog[y] /\ session'[y] = session[y]
    BY DEF Typed
  <1>2. Untouched(y)
    BY <1>1, UntouchedIs
  <1>3. /\ Open(x)' = Open(x) /\ Open(y)' = Open(y)
        /\ AcksTo(x)' = AcksTo(x) /\ AcksTo(y)' = AcksTo(y)
    BY DEF Open, AcksTo, Bye, Msg
  <1> QED
    BY <1>2, <1>3 DEF Quiet, Typed, Record, SameOffers, Place,
         Live, client, server, sent, signaling, offer, past, pending, bare,
         offering, serving, applying

LEMMA AckAnswerFailsMoves ==
    ASSUME NEW x, NEW y, Here(x, y), AckAnswerFails(x)
    PROVE  Quiet(x, y)
  <1> USE DEF Here, AckAnswerFails, Settled, Closed
  <1>1. dialog'[y] = dialog[y] /\ session'[y] = session[y]
    BY DEF Typed
  <1>2. Untouched(y)
    BY <1>1, UntouchedIs
  <1>3. /\ Open(x)' = Open(x) /\ Open(y)' = Open(y)
        /\ AcksTo(x)' = AcksTo(x) /\ AcksTo(y)' = AcksTo(y)
    BY DEF Open, AcksTo, Bye, Msg
  <1> QED
    BY <1>2, <1>3 DEF Quiet, Typed, Record, SameOffers, Place,
         Live, client, server, sent, signaling, offer, past, pending, bare,
         offering, serving, applying

LEMMA HangupMoves ==
    ASSUME NEW x, NEW y, Here(x, y), Hangup(x)
    PROVE  Quiet(x, y)
  <1> USE DEF Here, Hangup, Closed
  <1>1. dialog'[y] = dialog[y] /\ session'[y] = session[y]
    BY DEF Typed
  <1>2. Untouched(y)
    BY <1>1, UntouchedIs
  <1>3. /\ Open(x)' = Open(x) /\ Open(y)' = Open(y)
        /\ AcksTo(x)' = AcksTo(x) /\ AcksTo(y)' = AcksTo(y)
    BY DEF Open, AcksTo, Bye, Msg
  <1> QED
    BY <1>2, <1>3 DEF Quiet, Typed, Record, SameOffers, Place,
         Live, client, server, sent, signaling, offer, past, pending, bare,
         offering, serving, applying

LEMMA ReceiveByeMoves ==
    ASSUME NEW x, NEW y, Here(x, y), ReceiveBye(x)
    PROVE  Quiet(x, y)
  <1> USE DEF Here, ReceiveBye, Closed
  <1>1. dialog'[y] = dialog[y] /\ session'[y] = session[y]
    BY DEF Typed
  <1>2. Untouched(y)
    BY <1>1, UntouchedIs
  <1>3. /\ Open(x)' = Open(x) /\ Open(y)' = Open(y)
        /\ AcksTo(x)' = AcksTo(x) /\ AcksTo(y)' = AcksTo(y)
    BY DEF Open, AcksTo, Bye, Msg
  <1> QED
    BY <1>2, <1>3 DEF Quiet, Typed, Record, SameOffers, Place,
         Live, client, server, sent, signaling, offer, past, pending, bare,
         offering, serving, applying

(* What dialog.invite does.                                                *)
LEMMA InvitedFacts ==
    ASSUME NEW x, NEW y, Here(x, y), NEW body \in Offer \cup {None},
           MayInvite(dialog[x]), Invited(x, body)
    PROVE  /\ dialog'[y] = dialog[y]
           /\ client(x) = 0 /\ server(x) = 0 /\ client(x)' = sent(x) + 1
           /\ sent(x)' = sent(x) + 1 /\ server(x)' = 0
           /\ Open(x)' = Open(x) \cup {Msg("INVITE", y, sent(x) + 1, body)}
           /\ Open(y)' = Open(y)
           /\ AcksTo(x)' = AcksTo(x) /\ AcksTo(y)' = AcksTo(y)
           /\ body = None => SameOffers(x)
           /\ body # None /\ signaling(x) = "stable" =>
                /\ signaling(x)' = "localOffer" /\ offer(x)' = body
                /\ past(x)' = offer(x)
  <1> USE DEF Here
  <1> DEFINE n == sent(x) + 1
             d == [dialog[x] EXCEPT !.client = n, !.sent = n]
  <1>1. d \in Record
    <2>1. dialog[x] \in Record /\ n \in Nat
      BY DEF Typed, Record, sent
    <2> HIDE DEF n
    <2> QED
      BY <2>1 DEF Record
  <1>2. dialog' = [dialog EXCEPT ![x] = Sent(d, body)]
    BY DEF Invited, NextNumber, sent
  <1>3. /\ d.client = n /\ d.sent = n /\ d.server = server(x)
        /\ d.signaling = signaling(x) /\ d.offer = offer(x)
        /\ d.before = dialog[x].before
    BY DEF Typed, Record, server, signaling, offer
  <1> HIDE DEF d
  <1>4. dialog'[x] = Take(d, body, "localOffer") /\ dialog'[y] = dialog[y]
    BY <1>2 DEF Typed, Sent
  <1>5. /\ Open(x)' = Open(x) \cup {Msg("INVITE", y, n, body)}
        /\ Open(y)' = Open(y)
        /\ AcksTo(x)' = AcksTo(x) /\ AcksTo(y)' = AcksTo(y)
    BY DEF Invited, NextNumber, sent, Open, AcksTo, Msg
  <1> HIDE DEF n
  <1>6. client(x) = 0 /\ server(x) = 0
    BY DEF MayInvite, client, server
  <1>7. /\ client(x)' = n /\ sent(x)' = n /\ server(x)' = 0
        /\ body = None => SameOffers(x)
        /\ body # None /\ signaling(x) = "stable" =>
             /\ signaling(x)' = "localOffer" /\ offer(x)' = body
             /\ past(x)' = offer(x)
    BY <1>1, <1>3, <1>4, <1>6, TakeFacts
    DEF client, sent, server, SameOffers, signaling, offer, past
  <1> QED
    BY <1>4, <1>5, <1>6, <1>7 DEF n

(* The steps of the side that asks.                                        *)
LEMMA RenegotiateWithoutSdpMoves ==
    ASSUME NEW x, NEW y, Here(x, y), RenegotiateWithoutSdp(x)
    PROVE  Quiet(x, y) \/ Asks(x, y)
  <1> USE DEF Here, RenegotiateWithoutSdp, MayRenegotiate
  <1>1. session'[y] = session[y]
    BY DEF Typed
  <1>2. /\ pending(x)' /\ bare(x)' /\ offering(x)' = offering(x)
        /\ serving(x)' = serving(x) /\ applying(x)' = applying(x)
        /\ ~pending(x) /\ ~offering(x) /\ client(x) = 0
    BY DEF Typed, pending, bare, offering, serving, applying, Place, client
  <1>3. CASE MayInvite(dialog[x])
    <2>1. Invited(x, None)
      BY <1>3
    <2>2. Untouched(y)
      BY <1>1, <1>3, <2>1, InvitedFacts, UntouchedIs
    <2>3. PICK m : m = Msg("INVITE", y, sent(x) + 1, None)
      OBVIOUS
    <2>4. /\ Open(x)' = Open(x) \cup {m}
          /\ m.type = "INVITE" /\ m.n = client(x)' /\ m.body = None
      BY <1>3, <2>1, <2>3, InvitedFacts DEF Msg
    <2>5. m.body = Body(x, m.n)'
      BY <1>2, <2>4 DEF Body
    <2> QED
      BY <1>2, <1>3, <2>1, <2>2, <2>4, <2>5, InvitedFacts DEF Asks
  <1>4. CASE ~MayInvite(dialog[x])
    <2>1. dialog' = dialog /\ net' = net
      BY <1>4
    <2>2. Untouched(y)
      BY <1>1, <2>1, UntouchedIs
    <2> QED
      BY <1>2, <2>1, <2>2
      DEF Quiet, Open, AcksTo, SameOffers, client, server, sent, signaling,
          offer, past
  <1> QED
    BY <1>3, <1>4

LEMMA OfferMadeMoves ==
    ASSUME NEW x, NEW y, Here(x, y), OfferMade(x)
    PROVE  Quiet(x, y) \/ Asks(x, y)
  <1> USE DEF Here, OfferMade
  <1> DEFINE n == sent(x) + 1
  <1>1. /\ session'[y] = session[y]
        /\ ~offering(x)' /\ bare(x)' = bare(x)
        /\ serving(x)' = serving(x) /\ applying(x)' = applying(x)
        /\ MayInvite(dialog[x]) => pending(x)' = pending(x)
    BY DEF Typed, pending, bare, offering, serving, applying, Settled,
           NoLongerPending
  <1>2. pending(x) /\ ~bare(x) /\ client(x) = 0
    BY DEF Place, offering
  <1>3. CASE MayInvite(dialog[x])
    <2>1. Invited(x, <<x, n>>) /\ <<x, n>> \in Offer
      BY <1>3 DEF NextNumber, Offer, Typed, Record, sent
    <2>2. Untouched(y)
      BY <1>1, <1>3, <2>1, InvitedFacts, UntouchedIs
    <2>3. PICK m : m = Msg("INVITE", y, n, <<x, n>>)
      OBVIOUS
    <2>4. /\ Open(x)' = Open(x) \cup {m}
          /\ m.type = "INVITE" /\ m.n = client(x)' /\ m.body = <<x, m.n>>
      BY <1>3, <2>1, <2>3, InvitedFacts DEF Msg
    <2>5. m.body = Body(x, m.n)'
      BY <1>1, <1>2, <2>4 DEF Body
    <2> QED
      BY <1>1, <1>2, <1>3, <2>1, <2>2, <2>4, <2>5, InvitedFacts, NotNone
      DEF Asks
  <1>4. CASE ~MayInvite(dialog[x])
    <2>1. dialog' = dialog /\ net' = net
      BY <1>4
    <2>2. Untouched(y)
      BY <1>1, <2>1, UntouchedIs
    <2> QED
      BY <1>1, <1>2, <2>1, <2>2
      DEF Quiet, Open, AcksTo, SameOffers, client, server, sent, signaling,
          offer, past
  <1> QED
    BY <1>3, <1>4

LEMMA ReceiveAcceptMoves ==
    ASSUME NEW x, NEW y, Here(x, y), ReceiveAccept(x)
    PROVE  HearsAccept(x, y)
  <1> USE DEF Here
  <1>1. PICK m \in net :
          /\ m.type = "2xx" /\ m.to = x
          /\ net' = net \ {m}
          /\ IF dialog[x].client = m.n
             THEN /\ dialog' = [dialog EXCEPT ![x] = Received(@, m.body)]
                  /\ session' = [session EXCEPT
                       ![x].proceeding = FALSE,
                       ![x].work = @ \cup
                         {IF session[x].withoutSdp THEN "getAnswer"
                                                   ELSE "setAnswer"}]
             ELSE UNCHANGED <<dialog, session>>
    BY DEF ReceiveAccept
  <1>2. m \in Open(x)
    BY <1>1 DEF Open
  <1>3. dialog[x].client = m.n
    BY <1>2 DEF Place, client
  <1>4. /\ dialog'[x] = Take(dialog[x], m.body, "remoteOffer")
        /\ dialog'[y] = dialog[y] /\ session'[y] = session[y]
        /\ dialog[x] \in Record /\ m.body \in Offer \cup {None}
    BY <1>1, <1>3 DEF Typed, Received
  <1>5. Untouched(y)
    BY <1>4, UntouchedIs
  <1>6. /\ serving(x)' = serving(x)
        /\ pending(x)' = pending(x) /\ bare(x)' = bare(x)
        /\ offering(x)' = offering(x)
        /\ applying(x)' = applying(x) \cup
                            {IF bare(x) THEN "getAnswer" ELSE "setAnswer"}
    BY <1>1, <1>3
    DEF Typed, serving, pending, bare, offering, applying
  <1>7. /\ Open(x)' = Open(x) \ {m} /\ Open(y)' = Open(y)
        /\ AcksTo(x)' = AcksTo(x) /\ AcksTo(y)' = AcksTo(y)
    BY <1>1 DEF Open, AcksTo
  <1>8. /\ client(x)' = client(x) /\ server(x)' = server(x)
        /\ sent(x)' = sent(x)
        /\ signaling(x) = "stable" /\ m.body # None =>
             /\ signaling(x)' = "remoteOffer" /\ offer(x)' = m.body
             /\ past(x)' = offer(x)
        /\ signaling(x) = "localOffer" /\ m.body # None =>
             signaling(x)' = "stable" /\ offer(x)' = offer(x)
    BY <1>4, TakeFacts
    DEF client, server, sent, signaling, offer, past
  <1> QED
    BY <1>1, <1>2, <1>5, <1>6, <1>7, <1>8 DEF HearsAccept

LEMMA ReceiveRefusalMoves ==
    ASSUME NEW x, NEW y, Here(x, y), ReceiveRefusal(x)
    PROVE  HearsRefusal(x, y)
  <1> USE DEF Here
  <1>1. PICK m \in net :
          /\ m.type = "refusal" /\ m.to = x
          /\ net' = net \ {m}
          /\ IF dialog[x].client = m.n
             THEN Rejected(x) ELSE UNCHANGED <<dialog, session, sdh>>
    BY DEF ReceiveRefusal
  <1>2. m \in Open(x)
    BY <1>1 DEF Open
  <1>3. Rejected(x) /\ client(x) # 0
    BY <1>1, <1>2 DEF Place, client
  <1> DEFINE d == [dialog[x] EXCEPT !.client = 0]
  <1>4. d \in Record
    <2>1. dialog[x] \in Record
      BY DEF Typed
    <2> QED
      BY <2>1 DEF Record
  <1>5. /\ d.client = 0 /\ d.server = server(x) /\ d.sent = sent(x)
        /\ d.signaling = signaling(x) /\ d.offer = offer(x)
        /\ d.before = dialog[x].before
    BY DEF Typed, Record, server, sent, signaling, offer
  <1>6. dialog' = [dialog EXCEPT ![x] = Rollback(d)]
    BY <1>3 DEF Rejected
  <1> HIDE DEF d
  <1>7. /\ dialog'[x] = Rollback(d)
        /\ dialog'[y] = dialog[y] /\ session'[y] = session[y]
    BY <1>3, <1>6 DEF Typed, Rejected
  <1>8. Untouched(y)
    BY <1>7, UntouchedIs
  <1>9. /\ serving(x)' = serving(x) /\ applying(x)' = applying(x)
        /\ offering(x)' = offering(x)
    BY <1>3 DEF Typed, serving, offering, applying, Rejected
  <1>10. /\ Open(x)' = Open(x) \ {m} /\ Open(y)' = Open(y)
         /\ AcksTo(x)' = AcksTo(x) /\ AcksTo(y)' = AcksTo(y)
    BY <1>1 DEF Open, AcksTo
  <1>11. /\ client(x)' = 0 /\ server(x)' = server(x) /\ sent(x)' = sent(x)
         /\ signaling(x)' # "closed" => RolledBackTo(x)
    BY <1>4, <1>5, <1>7, RollbackFacts
    DEF client, server, sent, signaling, offer, past, RolledBackTo
  <1> QED
    BY <1>1, <1>2, <1>3, <1>8, <1>9, <1>10, <1>11 DEF HearsRefusal

LEMMA ReceiveRedirectMoves ==
    ASSUME NEW x, NEW y, Here(x, y), ReceiveRedirect(x)
    PROVE  HearsRefusal(x, y)
  <1> USE DEF Here
  <1>1. PICK m \in InviteFor(y) : m.n = client(x) /\ net' = net \ {m}
    BY OtherIs DEF ReceiveRedirect, client
  <1>2. m \in Open(x) /\ m.type = "INVITE" /\ m.to = y
    BY <1>1 DEF Open, InviteFor
  <1>3. client(x) # 0
    BY <1>2 DEF Place
  <1> DEFINE d == [dialog[x] EXCEPT !.client = 0]
  <1>4. d \in Record
    <2>1. dialog[x] \in Record
      BY DEF Typed
    <2> QED
      BY <2>1 DEF Record
  <1>5. /\ d.client = 0 /\ d.server = server(x) /\ d.sent = sent(x)
        /\ d.signaling = signaling(x) /\ d.offer = offer(x)
        /\ d.before = dialog[x].before
    BY DEF Typed, Record, server, sent, signaling, offer
  <1>6. dialog' = [dialog EXCEPT ![x] = Rollback(d)]
    BY DEF ReceiveRedirect
  <1> HIDE DEF d
  <1>7. /\ dialog'[x] = Rollback(d)
        /\ dialog'[y] = dialog[y] /\ session'[y] = session[y]
    BY <1>6 DEF Typed, ReceiveRedirect
  <1>8. Untouched(y)
    BY <1>7, UntouchedIs
  <1>9. /\ serving(x)' = serving(x) /\ applying(x)' = applying(x)
        /\ offering(x)' = offering(x)
    BY DEF Typed, serving, offering, applying, ReceiveRedirect
  <1>10. /\ Open(x)' = Open(x) \ {m} /\ Open(y)' = Open(y)
         /\ AcksTo(x)' = AcksTo(x) /\ AcksTo(y)' = AcksTo(y)
    BY <1>1, <1>2 DEF Open, AcksTo
  <1>11. /\ client(x)' = 0 /\ server(x)' = server(x) /\ sent(x)' = sent(x)
         /\ signaling(x)' # "closed" => RolledBackTo(x)
    BY <1>4, <1>5, <1>7, RollbackFacts
    DEF client, server, sent, signaling, offer, past, RolledBackTo
  <1> QED
    BY <1>2, <1>3, <1>8, <1>9, <1>10, <1>11 DEF HearsRefusal

LEMMA ReceiveProgressMoves ==
    ASSUME NEW x, NEW y, Here(x, y), ReceiveProgress(x)
    PROVE  Quiet(x, y)
  <1> USE DEF Here, ReceiveProgress
  <1>1. dialog' = dialog /\ net' = net /\ session'[y] = session[y]
    BY DEF Typed
  <1>2. Untouched(y)
    BY <1>1, UntouchedIs
  <1>3. /\ pending(x)' = pending(x) /\ bare(x)' = bare(x)
        /\ offering(x)' = offering(x)
        /\ serving(x)' = serving(x) /\ applying(x)' = applying(x)
    BY DEF Typed, pending, bare, offering, serving, applying
  <1>4. /\ client(x) # 0 => pending(x)
        /\ offering(x) => pending(x) /\ ~bare(x) /\ client(x) = 0
    BY DEF Place
  <1> QED
    BY <1>1, <1>2, <1>3, <1>4
    DEF Quiet, Open, AcksTo, SameOffers, client, server, sent, signaling,
        offer, past

(* What an immediate refusal does to the messages.                         *)
LEMMA RefusedFacts ==
    ASSUME NEW x, NEW y, Here(x, y), NEW m \in InviteFor(x), net' = Refused(m)
    PROVE  /\ m \in Open(y) /\ m.type = "INVITE"
           /\ \E r : /\ r.type = "refusal" /\ r.n = m.n
                    /\ Open(y)' = (Open(y) \ {m}) \cup {r}
           /\ Open(x)' = Open(x)
           /\ AcksTo(x)' = AcksTo(x) /\ AcksTo(y)' = AcksTo(y)
  <1> USE DEF Here
  <1>1. PICK r : r = Msg("refusal", y, m.n, None)
    OBVIOUS
  <1>2. r.type = "refusal" /\ r.to = y /\ r.n = m.n
    BY <1>1 DEF Msg
  <1>3. /\ net' = (net \ {m}) \cup {r}
        /\ m.type = "INVITE" /\ m.to = x /\ m \in net
    BY <1>1 DEF InviteFor, Refused
  <1>4. /\ m \in Open(y)
        /\ Open(y)' = (Open(y) \ {m}) \cup {r}
        /\ Open(x)' = Open(x)
        /\ AcksTo(x)' = AcksTo(x) /\ AcksTo(y)' = AcksTo(y)
    BY <1>2, <1>3 DEF Open, AcksTo
  <1> QED
    BY <1>2, <1>3, <1>4

(* The steps of the side that is asked, and those in which the answer to   *)
(* the one that asked settles.                                             *)
LEMMA RefusesMoves ==
    ASSUME NEW x, NEW y, Here(x, y),
           ReceiveStrayInvite(x) \/ ReceiveLateInvite(x)
    PROVE  RefusesInvite(x, y)
  <1>1. PICK m \in InviteFor(x) : net' = Refused(m)
    BY DEF ReceiveStrayInvite, ReceiveLateInvite
  <1>2. Untouched(x) /\ Untouched(y)
    BY UntouchedIs DEF ReceiveStrayInvite, ReceiveLateInvite
  <1> QED
    BY <1>1, <1>2, RefusedFacts DEF RefusesInvite

LEMMA ReceiveInviteMoves ==
    ASSUME NEW x, NEW y, Here(x, y), ReceiveInvite(x)
    PROVE  RefusesInvite(x, y) \/ ServesInvite(x, y)
  <1> USE DEF Here
  <1> DEFINE d(m) == Heard(dialog[x], m.n)
             served(m) == Received([d(m) EXCEPT !.server = m.n], m.body)
  <1>1. PICK m \in InviteFor(x) :
          IF MustRefuse(d(m))
          THEN /\ dialog' = [dialog EXCEPT ![x] = d(m)]
               /\ net' = Refused(m)
               /\ UNCHANGED session
          ELSE /\ dialog' = [dialog EXCEPT ![x] = served(m)]
               /\ net' = net \ {m}
               /\ session' = [session EXCEPT ![x].work = @ \cup
                    {IF served(m).signaling = "stable" THEN "replyOffer"
                                                       ELSE "replyAnswer"}]
    BY DEF ReceiveInvite
  <1>2. /\ m \in Open(y) /\ m.type = "INVITE" /\ m.to = x
        /\ m.body \in Offer \cup {None} /\ m.n \in Nat
    BY DEF Typed, InviteFor, Open
  <1>3. CASE MustRefuse(d(m))
    <2>1. dialog'[y] = dialog[y] /\ session' = session
      BY <1>1, <1>3 DEF Typed
    <2>2. Untouched(y)
      BY <2>1, UntouchedIs
    <2>3. Untouched(x)
      <3>1. dialog'[x] = [dialog[x] EXCEPT !.heard = m.n]
        BY <1>1, <1>3 DEF Typed, Heard
      <3> QED
        BY <2>1, <3>1
        DEF Typed, Record, Untouched, client, server, sent, signaling, offer,
            past, pending, bare, offering, serving, applying
    <2> QED
      BY <1>1, <1>3, <2>2, <2>3, RefusedFacts DEF RefusesInvite
  <1>4. CASE ~MustRefuse(d(m))
    <2> DEFINE e == [dialog[x] EXCEPT !.heard = m.n, !.server = m.n]
    <2>1. e \in Record /\ served(m) = Take(e, m.body, "remoteOffer")
      <3>1. dialog[x] \in Record
        BY DEF Typed
      <3> QED
        BY <1>2, <3>1 DEF Record, Heard, Received
    <2>2. /\ e.client = client(x) /\ e.server = m.n /\ e.sent = sent(x)
          /\ e.signaling = signaling(x) /\ e.offer = offer(x)
          /\ e.before = dialog[x].before
      BY DEF Typed, Record, client, sent, signaling, offer
    <2>3. client(x) = 0 /\ server(x) = 0
      BY <1>4 DEF MustRefuse, Heard, Typed, Record, client, server
    <2> HIDE DEF e
    <2>4. /\ dialog'[x] = Take(e, m.body, "remoteOffer")
          /\ dialog'[y] = dialog[y] /\ session'[y] = session[y]
          /\ served(m).signaling = signaling(x)'
      BY <1>1, <1>4, <2>1 DEF Typed, signaling
    <2>5. Untouched(y)
      BY <2>4, UntouchedIs
    <2> HIDE DEF served
    <2>6. /\ applying(x)' = applying(x)
          /\ pending(x)' = pending(x) /\ bare(x)' = bare(x)
          /\ offering(x)' = offering(x)
          /\ serving(x)' = serving(x) \cup
               {IF signaling(x)' = "stable" THEN "replyOffer"
                                            ELSE "replyAnswer"}
      BY <1>1, <1>4, <2>4
      DEF Typed, applying, serving, pending, bare, offering
    <2>7. /\ Open(x)' = Open(x) /\ Open(y)' = Open(y) \ {m}
          /\ AcksTo(x)' = AcksTo(x) /\ AcksTo(y)' = AcksTo(y)
      <3>1. net' = net \ {m}
        BY <1>1, <1>4
      <3> QED
        BY <1>2, <3>1 DEF Open, AcksTo
    <2>8. /\ client(x)' = 0 /\ server(x)' = m.n /\ sent(x)' = sent(x)
          /\ signaling(x) = "stable" =>
               IF m.body = None THEN SameOffers(x)
               ELSE /\ signaling(x)' = "remoteOffer" /\ offer(x)' = m.body
                    /\ past(x)' = offer(x)
      BY <1>2, <2>1, <2>2, <2>3, <2>4, TakeFacts
      DEF client, server, sent, SameOffers, signaling, offer, past
    <2> QED
      BY <1>2, <2>3, <2>5, <2>6, <2>7, <2>8 DEF ServesInvite
  <1> QED
    BY <1>3, <1>4

(* What the ACK does, with an answer or without.                           *)
LEMMA AcceptedMoves ==
    ASSUME NEW x, NEW y, Here(x, y), NEW w, NEW answer \in Offer \cup {None},
           w \in {"setAnswer", "getAnswer"}, applying(x) = {w},
           answer = None <=> w = "setAnswer", Accepted(x, w, answer)
    PROVE  SendsAck(x, y)
  <1> USE DEF Here
  <1> DEFINE d == [dialog[x] EXCEPT !.client = 0]
  <1>1. d \in Record
    <2>1. dialog[x] \in Record
      BY DEF Typed
    <2> QED
      BY <2>1 DEF Record
  <1>2. /\ d.client = 0 /\ d.server = server(x) /\ d.sent = sent(x)
        /\ d.signaling = signaling(x) /\ d.offer = offer(x)
        /\ d.before = dialog[x].before
    BY DEF Typed, Record, server, sent, signaling, offer
  <1>3. dialog' = [dialog EXCEPT ![x] = Take(d, answer, "localOffer")]
    BY DEF Accepted, Acked, Sent
  <1> HIDE DEF d
  <1>4. /\ dialog'[x] = Take(d, answer, "localOffer")
        /\ dialog'[y] = dialog[y] /\ session'[y] = session[y]
    BY <1>3 DEF Typed, Accepted, NoLongerPending, Settled
  <1>5. Untouched(y)
    BY <1>4, UntouchedIs
  <1>6. /\ serving(x)' = serving(x) /\ applying(x)' = {}
        /\ offering(x)' = offering(x)
    BY DEF Typed, serving, offering, applying, Accepted, NoLongerPending,
           Settled
  <1>7. PICK a : a = Msg("ACK", y, client(x), answer)
    OBVIOUS
  <1>8. a.type = "ACK" /\ a.to = y /\ a.n = client(x) /\ a.body = answer
    BY <1>7 DEF Msg
  <1>9. net' = net \cup {a}
    BY <1>7 DEF Accepted, Ack, client
  <1>10. /\ Open(x)' = Open(x) /\ Open(y)' = Open(y)
         /\ AcksTo(x)' = AcksTo(x) /\ AcksTo(y)' = AcksTo(y) \cup {a}
    BY <1>8, <1>9 DEF Open, AcksTo
  <1>11. /\ client(x)' = 0 /\ server(x)' = server(x) /\ sent(x)' = sent(x)
         /\ answer = None => SameOffers(x)
         /\ answer # None /\ signaling(x) = "remoteOffer" =>
              signaling(x)' = "stable" /\ offer(x)' = offer(x)
    BY <1>1, <1>2, <1>4, TakeFacts
    DEF client, server, sent, SameOffers, signaling, offer, past
  <1> QED
    BY <1>5, <1>6, <1>8, <1>10, <1>11 DEF SendsAck

LEMMA AnswerSetMoves ==
    ASSUME NEW x, NEW y, Here(x, y), AnswerSet(x)
    PROVE  SendsAck(x, y)
  <1> USE DEF Here
  <1>1. applying(x) = {"setAnswer"} /\ client(x) # 0
    BY DEF AnswerSet, applying, Place
  <1>2. Accepted(x, "setAnswer", None)
    BY DEF AnswerSet
  <1> QED
    BY <1>1, <1>2, AcceptedMoves

LEMMA AnswerMadeMoves ==
    ASSUME NEW x, NEW y, Here(x, y), AnswerMade(x)
    PROVE  SendsAck(x, y)
  <1> USE DEF Here
  <1>1. applying(x) = {"getAnswer"} /\ client(x) # 0
    BY DEF AnswerMade, applying, Place
  <1>2. Accepted(x, "getAnswer", <<x, dialog[x].client>>)
    BY DEF AnswerMade
  <1>3. /\ <<x, dialog[x].client>> \in Offer
        /\ <<x, dialog[x].client>> # None
    BY NotNone DEF Typed, Record, Offer
  <1> QED
    BY <1>1, <1>2, <1>3, AcceptedMoves

LEMMA AnswerFailsMoves ==
    ASSUME NEW x, NEW y, Here(x, y), AnswerFails(x)
    PROVE  SendsAck(x, y)
  <1> USE DEF Here
  <1>1. PICK w \in {"setAnswer", "getAnswer"} \cap session[x].work :
          /\ dialog' = [dialog EXCEPT ![x] = Closed(Acked(@, None))]
          /\ net' = net \cup {Ack(x, None)}
                        \cup (IF Live(x) THEN {Bye(x)} ELSE {})
          /\ session' = NoLongerPending(x, w)
    BY DEF AnswerFails
  <1>2. applying(x) = {w}
    BY DEF Place, applying
  <1>3. /\ dialog'[x] = [dialog[x] EXCEPT !.client = 0, !.signaling = "closed"]
        /\ dialog'[y] = dialog[y] /\ session'[y] = session[y]
    BY <1>1 DEF Typed, Record, NoLongerPending, Settled, Closed, Acked, Sent,
                Take
  <1>4. Untouched(y)
    BY <1>3, UntouchedIs
  <1>5. /\ serving(x)' = serving(x) /\ applying(x)' = {}
        /\ offering(x)' = offering(x)
    BY <1>1, <1>2
    DEF Typed, serving, offering, applying, NoLongerPending, Settled
  <1>6. PICK a : a = Msg("ACK", y, client(x), None)
    OBVIOUS
  <1>7. a.type = "ACK" /\ a.to = y /\ a.n = client(x)
    BY <1>6 DEF Msg
  <1>8. net' = net \cup {a} \/ net' = net \cup {a} \cup {Bye(x)}
    BY <1>1, <1>6 DEF Ack, client
  <1>9. /\ Open(x)' = Open(x) /\ Open(y)' = Open(y)
        /\ AcksTo(x)' = AcksTo(x) /\ AcksTo(y)' = AcksTo(y) \cup {a}
    BY <1>7, <1>8 DEF Open, AcksTo, Bye, Msg
  <1>10. /\ client(x)' = 0 /\ server(x)' = server(x) /\ sent(x)' = sent(x)
         /\ signaling(x)' = "closed"
    BY <1>3 DEF Typed, Record, client, server, sent, signaling
  <1> QED
    BY <1>2, <1>4, <1>5, <1>7, <1>9, <1>10 DEF SendsAck

LEMMA ReplyMoves ==
    ASSUME NEW x, NEW y, Here(x, y), Reply(x)
    PROVE  Replies(x, y)
  <1> USE DEF Here
  <1> DEFINE body == <<y, dialog[x].server>>
  <1>1. PICK w \in {"replyOffer", "replyAnswer"} \cap session[x].work :
          /\ net' = net \cup {Msg("2xx", y, dialog[x].server, body)}
          /\ dialog' = [dialog EXCEPT ![x] = Sent(@, body)]
          /\ session' = Settled(x, w)
    BY DEF Reply
  <1>2. serving(x) = {w}
    BY DEF Place, serving
  <1>3. /\ dialog'[x] = Take(dialog[x], body, "localOffer")
        /\ dialog'[y] = dialog[y] /\ session'[y] = session[y]
        /\ dialog[x] \in Record /\ body \in Offer
    BY <1>1 DEF Typed, Record, Offer, Settled, Sent
  <1>4. Untouched(y)
    BY <1>3, UntouchedIs
  <1>5. /\ serving(x)' = {} /\ applying(x)' = applying(x)
        /\ pending(x)' = pending(x) /\ bare(x)' = bare(x)
        /\ offering(x)' = offering(x)
    BY <1>1, <1>2
    DEF Typed, serving, offering, applying, pending, bare, Settled
  <1>6. PICK m : m = Msg("2xx", y, server(x), <<y, server(x)>>)
    OBVIOUS
  <1>7. /\ m.type = "2xx" /\ m.to = y /\ m.n = server(x)
        /\ m.body = <<y, server(x)>>
    BY <1>6 DEF Msg
  <1>8. net' = net \cup {m}
    BY <1>1, <1>6 DEF server
  <1>9. /\ Open(x)' = Open(x) /\ Open(y)' = Open(y) \cup {m}
        /\ AcksTo(x)' = AcksTo(x) /\ AcksTo(y)' = AcksTo(y)
    BY <1>7, <1>8 DEF Open, AcksTo
  <1>10. /\ client(x)' = client(x) /\ server(x)' = server(x)
         /\ sent(x)' = sent(x)
         /\ signaling(x) = "stable" =>
              /\ signaling(x)' = "localOffer" /\ offer(x)' = <<y, server(x)>>
              /\ past(x)' = offer(x)
         /\ signaling(x) = "remoteOffer" =>
              signaling(x)' = "stable" /\ offer(x)' = offer(x)
    <2>1. body \in Offer \cup {None} /\ body # None
      BY <1>3, NotNone
    <2>2. body = <<y, server(x)>>
      BY DEF server
    <2> HIDE DEF body
    <2> DEFINE d == dialog[x]
               e == Take(d, body, "localOffer")
    <2>3. /\ e.client = d.client /\ e.server = d.server /\ e.sent = d.sent
          /\ d.signaling = "stable" =>
               /\ e.signaling = "localOffer" /\ e.offer = body
               /\ e.before.offer = d.offer
          /\ d.signaling = "remoteOffer" =>
               e.signaling = "stable" /\ e.offer = d.offer
      BY <1>3, <2>1, TakeFacts
    <2> QED
      BY <1>3, <2>2, <2>3
      DEF client, server, sent, signaling, offer, past
  <1> QED
    BY <1>2, <1>4, <1>5, <1>7, <1>9, <1>10 DEF Replies

(* What a refusal does to the messages.                                    *)
LEMMA RefuseFacts ==
    ASSUME NEW x, NEW y, Here(x, y),
           LET m == Msg("refusal", y, dialog[x].server, None) IN
             net' = net \cup {m} \/ net' = net \cup {m} \cup {Bye(x)}
    PROVE  /\ \E m : /\ m.type = "refusal" /\ m.n = server(x)
                     /\ Open(y)' = Open(y) \cup {m}
           /\ Open(x)' = Open(x)
           /\ AcksTo(x)' = AcksTo(x) /\ AcksTo(y)' = AcksTo(y)
  <1>1. PICK m : /\ m = Msg("refusal", y, dialog[x].server, None)
                 /\ net' = net \cup {m} \/ net' = net \cup {m} \cup {Bye(x)}
    OBVIOUS
  <1>2. m.type = "refusal" /\ m.to = y /\ m.n = server(x)
    BY <1>1 DEF Msg, server
  <1> QED
    BY <1>1, <1>2 DEF Here, Open, AcksTo, Bye, Msg

LEMMA ReplyFailsMoves ==
    ASSUME NEW x, NEW y, Here(x, y), ReplyFails(x)
    PROVE  Declines(x, y) \/ Quiet(x, y)
  <1> USE DEF Here
  <1>1. PICK w \in {"replyOffer", "replyAnswer"} \cap session[x].work :
          IF dialog[x].signaling = "stable"
          THEN /\ Refuse(x, dialog[x])
               /\ session' = Settled(x, w)
          ELSE /\ session' = [Settled(x, w) EXCEPT
                                 ![x].work = @ \cup {"undoReply"}]
               /\ UNCHANGED <<dialog, net>>
    BY DEF ReplyFails
  <1>2. serving(x) = {w}
    BY DEF Place, serving
  <1>3. CASE dialog[x].signaling = "stable"
    <2>1. /\ dialog'[x] = [dialog[x] EXCEPT !.server = 0]
          /\ dialog'[y] = dialog[y] /\ session'[y] = session[y]
      BY <1>1, <1>3 DEF Typed, Settled, Refuse
    <2>2. Untouched(y)
      BY <2>1, UntouchedIs
    <2>3. /\ serving(x)' = {} /\ applying(x)' = applying(x)
          /\ pending(x)' = pending(x) /\ bare(x)' = bare(x)
          /\ offering(x)' = offering(x)
      BY <1>1, <1>2, <1>3
      DEF Typed, serving, offering, applying, pending, bare, Settled
    <2>5. net' = net \cup {Msg("refusal", y, dialog[x].server, None)}
      BY <1>1, <1>3 DEF Refuse
    <2>6. /\ client(x)' = client(x) /\ server(x)' = 0 /\ sent(x)' = sent(x)
          /\ signaling(x)' = "stable" /\ offer(x)' = offer(x)
          /\ signaling(x) = "stable"
      BY <1>3, <2>1 DEF Typed, Record, client, server, sent, signaling, offer
    <2>7. RolledBackTo(x)
      BY <2>6 DEF RolledBackTo
    <2> QED
      BY <1>2, <2>2, <2>3, <2>5, <2>6, <2>7, RefuseFacts DEF Declines
  <1>4. CASE dialog[x].signaling # "stable"
    <2>1. dialog' = dialog /\ net' = net /\ session'[y] = session[y]
      BY <1>1, <1>4 DEF Typed, Settled
    <2>2. Untouched(y)
      BY <2>1, UntouchedIs
    <2>3. /\ serving(x)' = {"undoReply"} /\ applying(x)' = applying(x)
          /\ pending(x)' = pending(x) /\ bare(x)' = bare(x)
          /\ offering(x)' = offering(x)
      BY <1>1, <1>2, <1>4
      DEF Typed, serving, offering, applying, pending, bare, Settled
    <2> QED
      BY <1>2, <1>4, <2>1, <2>2, <2>3
      DEF Quiet, Place, Open, AcksTo, SameOffers, client, server, sent,
          signaling, offer, past
  <1> QED
    BY <1>3, <1>4

LEMMA ReplyUndoneMoves ==
    ASSUME NEW x, NEW y, Here(x, y), ReplyUndone(x)
    PROVE  Declines(x, y)
  <1> USE DEF Here
  <1> DEFINE d == Rollback(dialog[x])
  <1>1. dialog[x] \in Record
    BY DEF Typed
  <1>2. /\ d \in Record /\ d.client = client(x) /\ d.sent = sent(x)
        /\ d.signaling # "closed" =>
             /\ d.signaling = "stable"
             /\ d.offer = IF signaling(x) = "stable" THEN offer(x)
                          ELSE past(x)
    BY <1>1, RollbackFacts DEF client, sent, signaling, offer, past
  <1>3. dialog' = [dialog EXCEPT ![x] = [d EXCEPT !.server = 0]]
    BY DEF ReplyUndone, Refuse
  <1> HIDE DEF d
  <1>4. /\ dialog'[x] = [d EXCEPT !.server = 0]
        /\ dialog'[y] = dialog[y] /\ session'[y] = session[y]
    BY <1>3 DEF ReplyUndone, Typed, Settled
  <1>5. Untouched(y)
    BY <1>4, UntouchedIs
  <1>6. /\ serving(x) # {} /\ serving(x)' = {}
        /\ applying(x)' = applying(x)
        /\ pending(x)' = pending(x) /\ bare(x)' = bare(x)
        /\ offering(x)' = offering(x)
    BY DEF ReplyUndone, Typed, Place, serving, offering, applying, pending,
           bare, Settled
  <1>8. net' = net \cup {Msg("refusal", y, dialog[x].server, None)}
    BY DEF ReplyUndone, Refuse
  <1>9. /\ client(x)' = client(x) /\ server(x)' = 0 /\ sent(x)' = sent(x)
        /\ signaling(x)' # "closed" => RolledBackTo(x)
    BY <1>2, <1>4
    DEF Record, client, server, sent, signaling, offer, RolledBackTo
  <1> QED
    BY <1>5, <1>6, <1>8, <1>9, RefuseFacts DEF Declines

LEMMA ReplyUndoFailsMoves ==
    ASSUME NEW x, NEW y, Here(x, y), ReplyUndoFails(x)
    PROVE  Declines(x, y)
  <1> USE DEF Here
  <1>1. /\ dialog'[x] = [dialog[x] EXCEPT !.server = 0, !.signaling = "closed"]
        /\ dialog'[y] = dialog[y] /\ session'[y] = session[y]
    BY DEF ReplyUndoFails, Typed, Record, Settled, Closed
  <1>2. Untouched(y)
    BY <1>1, UntouchedIs
  <1>3. /\ serving(x) # {} /\ serving(x)' = {}
        /\ applying(x)' = applying(x)
        /\ pending(x)' = pending(x) /\ bare(x)' = bare(x)
        /\ offering(x)' = offering(x)
    BY DEF ReplyUndoFails, Typed, Place, serving, offering, applying, pending,
           bare, Settled
  <1> DEFINE m == Msg("refusal", y, dialog[x].server, None)
  <1>5. net' = net \cup {m} \/ net' = net \cup {m} \cup {Bye(x)}
    BY DEF ReplyUndoFails
  <1>6. /\ client(x)' = client(x) /\ server(x)' = 0 /\ sent(x)' = sent(x)
        /\ signaling(x)' = "closed"
    BY <1>1 DEF Typed, Record, client, server, sent, signaling
  <1> QED
    BY <1>2, <1>3, <1>5, <1>6, RefuseFacts DEF Declines

LEMMA ReceiveAckMoves ==
    ASSUME NEW x, NEW y, Here(x, y), ReceiveAck(x)
    PROVE  Quiet(x, y) \/ TakesAck(x, y)
  <1> USE DEF Here
  <1> DEFINE d(m) == Received([dialog[x] EXCEPT !.server = 0], m.body)
  <1>1. PICK m \in net :
          /\ m.type = "ACK" /\ m.to = x
          /\ IF ~Live(x) \/ dialog[x].server # m.n
             THEN /\ net' = net \ {m}
                  /\ UNCHANGED <<dialog, session>>
             ELSE IF d(m).signaling # "stable"
                  THEN /\ dialog' = [dialog EXCEPT ![x] = Closed(d(m))]
                       /\ net' = (net \ {m}) \cup {Bye(x)}
                       /\ UNCHANGED session
                  ELSE /\ net' = net \ {m}
                       /\ dialog' = [dialog EXCEPT ![x] =
                            [d(m) EXCEPT !.ackProcessing = m.body # None]]
                       /\ session' = [session EXCEPT ![x].work =
                            IF m.body = None THEN @ ELSE @ \cup {"ackAnswer"}]
    BY DEF ReceiveAck
  <1>2. /\ net' = net \ {m} \/ net' = (net \ {m}) \cup {Bye(x)}
        /\ m.body \in Offer \cup {None}
    BY <1>1 DEF Typed
  <1>3. /\ Open(x)' = Open(x) /\ Open(y)' = Open(y) /\ m \in AcksTo(x)
        /\ AcksTo(x)' = AcksTo(x) \ {m} /\ AcksTo(y)' = AcksTo(y)
    BY <1>1, <1>2 DEF Open, AcksTo, Bye, Msg
  <1>4. CASE ~Live(x) \/ dialog[x].server # m.n
    <2>1. dialog' = dialog /\ session' = session
      BY <1>1, <1>4
    <2>2. Untouched(y)
      BY <2>1, UntouchedIs
    <2> QED
      BY <1>3, <1>4, <2>1, <2>2
      DEF Quiet, Place, Live, SameOffers, client, server, sent, signaling,
          offer, past, pending, bare, offering, serving, applying
  <1>5. CASE Live(x) /\ dialog[x].server = m.n
    <2> DEFINE e == [dialog[x] EXCEPT !.server = 0]
    <2>1. dialog[x] \in Record
      BY DEF Typed
    <2>2. e \in Record /\ d(m) = Take(e, m.body, "remoteOffer")
      BY <2>1 DEF Record, Received
    <2>3. /\ e.client = client(x) /\ e.server = 0 /\ e.sent = sent(x)
          /\ e.signaling = signaling(x) /\ e.offer = offer(x)
          /\ e.before = dialog[x].before
      BY <2>1 DEF Record, client, sent, signaling, offer
    <2> HIDE DEF e
    <2> DEFINE g == Take(e, m.body, "remoteOffer")
    <2>4. /\ g \in Record /\ g.client = client(x) /\ g.server = 0
          /\ g.sent = sent(x)
          /\ m.body = None => /\ g.signaling = signaling(x)
                              /\ g.offer = offer(x) /\ g.before.offer = past(x)
          /\ m.body # None /\ signaling(x) = "localOffer" =>
               g.signaling = "stable" /\ g.offer = offer(x)
      BY <1>2, <2>2, <2>3, TakeFacts DEF past
    <2>5. /\ \/ /\ dialog' = [dialog EXCEPT ![x] =
                                 [g EXCEPT !.signaling = "closed"]]
                /\ session' = session
             \/ /\ dialog' = [dialog EXCEPT ![x] =
                                 [g EXCEPT !.ackProcessing = m.body # None]]
                /\ session' = [session EXCEPT ![x].work =
                           IF m.body = None THEN @ ELSE @ \cup {"ackAnswer"}]
      BY <1>1, <1>5, <2>2 DEF Closed
    <2> HIDE DEF g, d
    <2>6. dialog'[y] = dialog[y] /\ session'[y] = session[y]
      BY <2>5 DEF Typed
    <2>7. Untouched(y)
      BY <2>6, UntouchedIs
    <2>8. /\ serving(x)' = serving(x) /\ applying(x)' = applying(x)
          /\ pending(x)' = pending(x) /\ bare(x)' = bare(x)
          /\ offering(x)' = offering(x)
      BY <2>5 DEF Typed, serving, offering, applying, pending, bare
    <2>9. \/ dialog'[x] = [g EXCEPT !.signaling = "closed"]
          \/ dialog'[x] = [g EXCEPT !.ackProcessing = m.body # None]
      BY <2>5 DEF Typed
    <2>10. /\ client(x)' = client(x) /\ server(x)' = 0 /\ sent(x)' = sent(x)
           /\ signaling(x)' # "closed" =>
                IF m.body = None THEN SameOffers(x)
                ELSE signaling(x) = "localOffer" =>
                       signaling(x)' = "stable" /\ offer(x)' = offer(x)
      BY <2>4, <2>9
      DEF Record, client, server, sent, SameOffers, signaling, offer, past
    <2> QED
      BY <1>3, <1>5, <2>7, <2>8, <2>10 DEF TakesAck, server
  <1> QED
    BY <1>4, <1>5
-----------------------------------------------------------------------------
(* The steps of one side.                                                  *)
Steps(s) ==
    \/ Renegotiate(s)
    \/ RenegotiateWithoutSdp(s)
    \/ ReceiveAccept(s)
    \/ ReceiveRefusal(s)
    \/ ReceiveRedirect(s)
    \/ ReceiveProgress(s)
    \/ ReinviteTimesOut(s)
    \/ ReceiveStrayInvite(s)
    \/ ReceiveLateInvite(s)
    \/ ReceiveInvite(s)
    \/ ReceiveAck(s)
    \/ Hangup(s)
    \/ ReceiveBye(s)
    \/ Settles(s)

(* Every step of a side is one of the moves, unless its re-INVITE times    *)
(* out.                                                                    *)
LEMMA StepsMove ==
    ASSUME NEW x, NEW y, Here(x, y), Steps(x)
    PROVE  Move(x, y) \/ lapsed'
  <1>1. CASE Renegotiate(x)
    BY <1>1, RenegotiateMoves DEF Move
  <1>2. CASE RenegotiateWithoutSdp(x)
    BY <1>2, RenegotiateWithoutSdpMoves DEF Move
  <1>3. CASE ReceiveAccept(x)
    BY <1>3, ReceiveAcceptMoves DEF Move
  <1>4. CASE ReceiveRefusal(x)
    BY <1>4, ReceiveRefusalMoves DEF Move
  <1>5. CASE ReceiveStrayInvite(x)
    BY <1>5, RefusesMoves DEF Move
  <1>6. CASE ReceiveLateInvite(x)
    BY <1>6, RefusesMoves DEF Move
  <1>7. CASE ReceiveInvite(x)
    BY <1>7, ReceiveInviteMoves DEF Move
  <1>8. CASE ReceiveAck(x)
    BY <1>8, ReceiveAckMoves DEF Move
  <1>9. CASE Hangup(x)
    BY <1>9, HangupMoves DEF Move
  <1>10. CASE ReceiveBye(x)
    BY <1>10, ReceiveByeMoves DEF Move
  <1>11. CASE OfferMade(x)
    BY <1>11, OfferMadeMoves DEF Move
  <1>12. CASE OfferFails(x)
    BY <1>12, OfferFailsMoves DEF Move
  <1>13. CASE AnswerSet(x)
    BY <1>13, AnswerSetMoves DEF Move
  <1>14. CASE AnswerMade(x)
    BY <1>14, AnswerMadeMoves DEF Move
  <1>15. CASE AnswerFails(x)
    BY <1>15, AnswerFailsMoves DEF Move
  <1>16. CASE Undone(x)
    BY <1>16, UndoneMoves DEF Move
  <1>17. CASE UndoFails(x)
    BY <1>17, UndoFailsMoves DEF Move
  <1>18. CASE Reply(x)
    BY <1>18, ReplyMoves DEF Move
  <1>19. CASE ReplyFails(x)
    BY <1>19, ReplyFailsMoves DEF Move
  <1>20. CASE ReplyUndone(x)
    BY <1>20, ReplyUndoneMoves DEF Move
  <1>21. CASE ReplyUndoFails(x)
    BY <1>21, ReplyUndoFailsMoves DEF Move
  <1>22. CASE AckAnswerSet(x)
    BY <1>22, AckAnswerSetMoves DEF Move
  <1>23. CASE AckAnswerFails(x)
    BY <1>23, AckAnswerFailsMoves DEF Move
  <1>24. CASE ReinviteTimesOut(x)
    BY <1>24 DEF ReinviteTimesOut
  <1>25. CASE ReceiveRedirect(x)
    BY <1>25, ReceiveRedirectMoves DEF Move
  <1>26. CASE ReceiveProgress(x)
    BY <1>26, ReceiveProgressMoves DEF Move
  <1> QED
    BY <1>1, <1>2, <1>3, <1>4, <1>5, <1>6, <1>7, <1>8, <1>9, <1>10, <1>11,
       <1>12, <1>13, <1>14, <1>15, <1>16, <1>17, <1>18, <1>19, <1>20, <1>21,
       <1>22, <1>23, <1>24, <1>25, <1>26
    DEF Steps, Settles

(* Only a timeout changes `lapsed`, which it sets.                         *)
LEMMA LapsedStays ==
    ASSUME NEW x, Steps(x)
    PROVE  lapsed' = lapsed \/ lapsed' = TRUE
  BY DEF Steps, Settles, AckAnswerFails, AckAnswerSet, AnswerFails,
         AnswerMade, AnswerSet, Hangup, OfferFails, OfferMade, ReceiveAccept,
         ReceiveAck, ReceiveBye, ReceiveInvite, ReceiveLateInvite,
         ReceiveRefusal, ReceiveStrayInvite, Renegotiate,
         ReceiveRedirect, ReceiveProgress,
         RenegotiateWithoutSdp, Reply, ReplyFails, ReplyUndoFails,
         ReplyUndone, UndoFails, Undone, ReinviteTimesOut, Accepted

(* What a step changes of a session, one field at a time.                  *)
LEMMA FieldsAreTyped ==
    ASSUME NEW S \in Sessions, NEW x \in Side, NEW b \in BOOLEAN,
           NEW w \in SUBSET Work
    PROVE  /\ [S EXCEPT ![x].pendingReinvite = b] \in Sessions
           /\ [S EXCEPT ![x].withoutSdp = b] \in Sessions
           /\ [S EXCEPT ![x].proceeding = b] \in Sessions
           /\ [S EXCEPT ![x].lost = b] \in Sessions
           /\ [S EXCEPT ![x].work = w] \in Sessions
           /\ S[x].work \in SUBSET Work
  OBVIOUS

(* The types hold after every step, and a closed dialog stays closed.      *)
LEMMA SessionIsTyped ==
    ASSUME session \in Sessions, NEW x \in Side, Steps(x)
    PROVE  session' \in Sessions
  <1> USE DEF Work, Settled, NoLongerPending, Accepted
  <1> DEFINE rejected == [session EXCEPT
                            ![x].pendingReinvite = FALSE,
                            ![x].proceeding = FALSE,
                            ![x].work = IF session[x].withoutSdp THEN @
                                        ELSE @ \cup {"undo"}]
             settled(w) == [session EXCEPT ![x].work = @ \ {w}]
             ended(w) == [settled(w) EXCEPT ![x].pendingReinvite = FALSE]
  <1>0. rejected \in Sessions
    <2> DEFINE a == [session EXCEPT ![x].pendingReinvite = FALSE]
               b == [a EXCEPT ![x].proceeding = FALSE]
               c == IF session[x].withoutSdp THEN b[x].work
                    ELSE b[x].work \cup {"undo"}
    <2>1. a \in Sessions
      BY FieldsAreTyped
    <2>2. rejected = [b EXCEPT ![x].work = c]
      OBVIOUS
    <2> HIDE DEF a, rejected
    <2>3. b \in Sessions
      BY <2>1, FieldsAreTyped
    <2> HIDE DEF b
    <2>4. c \in SUBSET Work
      BY <2>3, FieldsAreTyped
    <2> HIDE DEF c
    <2> QED
      BY <2>2, <2>3, <2>4, FieldsAreTyped
  <1> HIDE DEF rejected
  <1>00. \A w \in Work : ended(w) \in Sessions
    <2> SUFFICES ASSUME NEW w \in Work PROVE ended(w) \in Sessions
      OBVIOUS
    <2>1. settled(w) \in Sessions
      OBVIOUS
    <2> HIDE DEF settled, Sessions
    <2> QED
      BY <2>1, FieldsAreTyped
  <1>1. CASE Renegotiate(x)
    <2> DEFINE a == [session EXCEPT ![x].pendingReinvite = TRUE]
               b == [a EXCEPT ![x].withoutSdp = FALSE]
    <2>1. a \in Sessions
      OBVIOUS
    <2>2. session' = [b EXCEPT ![x].work = @ \cup {"offer"}]
      BY <1>1 DEF Renegotiate
    <2> HIDE DEF a
    <2>3. b \in Sessions
      BY <2>1
    <2> HIDE DEF b
    <2> QED
      BY <2>2, <2>3
  <1>2. CASE RenegotiateWithoutSdp(x)
    <2> DEFINE a == [session EXCEPT ![x].pendingReinvite = TRUE]
               b == [a EXCEPT ![x].withoutSdp = TRUE]
               c == ~MayInvite(dialog[x])
    <2>1. a \in Sessions
      BY FieldsAreTyped
    <2>2. session' = [b EXCEPT ![x].lost = c] /\ c \in BOOLEAN
      BY <1>2 DEF RenegotiateWithoutSdp, MayInvite
    <2> HIDE DEF a
    <2>3. b \in Sessions
      BY <2>1, FieldsAreTyped
    <2> HIDE DEF b, c
    <2> QED
      BY <2>2, <2>3, FieldsAreTyped
  <1>3. CASE ReceiveAccept(x)
    <2> DEFINE a == [session EXCEPT ![x].proceeding = FALSE]
               w == IF session[x].withoutSdp THEN "getAnswer" ELSE "setAnswer"
               c == a[x].work \cup {w}
               set == [session EXCEPT ![x].proceeding = FALSE,
                                      ![x].work = @ \cup {w}]
    <2>1. session' = session \/ session' = set
      BY <1>3 DEF ReceiveAccept
    <2>2. set = [a EXCEPT ![x].work = c]
      OBVIOUS
    <2> HIDE DEF a, set
    <2>3. a \in Sessions
      BY FieldsAreTyped DEF a
    <2>4. c \in SUBSET Work
      BY <2>3, FieldsAreTyped
    <2> HIDE DEF c
    <2>5. set \in Sessions
      BY <2>2, <2>3, <2>4, FieldsAreTyped
    <2> QED
      BY <2>1, <2>5
  <1>4. CASE ReceiveRefusal(x)
    <2>1. session' = rejected \/ session' = session
      BY <1>4 DEF ReceiveRefusal, Rejected, rejected
    <2> QED
      BY <1>0, <2>1
  <1>5. CASE ReceiveStrayInvite(x)
    BY <1>5 DEF ReceiveStrayInvite
  <1>6. CASE ReceiveLateInvite(x)
    BY <1>6 DEF ReceiveLateInvite
  <1>7. CASE ReceiveInvite(x)
    BY <1>7 DEF ReceiveInvite
  <1>8. CASE ReceiveAck(x)
    BY <1>8 DEF ReceiveAck
  <1>9. CASE Hangup(x)
    BY <1>9 DEF Hangup
  <1>10. CASE ReceiveBye(x)
    BY <1>10 DEF ReceiveBye
  <1>11. CASE OfferMade(x)
    BY <1>11 DEF OfferMade
  <1>12. CASE OfferFails(x)
    BY <1>00, <1>12 DEF OfferFails
  <1>13. CASE AnswerSet(x)
    BY <1>00, <1>13 DEF AnswerSet
  <1>14. CASE AnswerMade(x)
    BY <1>00, <1>14 DEF AnswerMade
  <1>15. CASE AnswerFails(x)
    <2>1. PICK w \in Work : session' = NoLongerPending(x, w)
      BY <1>15 DEF AnswerFails
    <2> QED
      BY <2>1
  <1>16. CASE Undone(x)
    BY <1>16 DEF Undone
  <1>17. CASE UndoFails(x)
    BY <1>17 DEF UndoFails
  <1>18. CASE Reply(x)
    BY <1>18 DEF Reply
  <1>19. CASE ReplyFails(x)
    BY <1>19 DEF ReplyFails
  <1>20. CASE ReplyUndone(x)
    BY <1>20 DEF ReplyUndone
  <1>21. CASE ReplyUndoFails(x)
    BY <1>21 DEF ReplyUndoFails
  <1>22. CASE AckAnswerSet(x)
    BY <1>22 DEF AckAnswerSet
  <1>23. CASE AckAnswerFails(x)
    BY <1>23 DEF AckAnswerFails
  <1>24. CASE ReinviteTimesOut(x)
    BY <1>0, <1>24 DEF ReinviteTimesOut, Rejected, rejected
  <1>25. CASE ReceiveRedirect(x)
    <2> DEFINE a == [session EXCEPT ![x].lost = TRUE]
    <2>1. session' = [a EXCEPT ![x].proceeding = FALSE]
      BY <1>25 DEF ReceiveRedirect
    <2>2. a \in Sessions
      BY FieldsAreTyped
    <2> HIDE DEF a
    <2> QED
      BY <2>1, <2>2, FieldsAreTyped
  <1>26. CASE ReceiveProgress(x)
    BY <1>26 DEF ReceiveProgress
  <1> QED
    BY <1>1, <1>2, <1>3, <1>4, <1>5, <1>6, <1>7, <1>8, <1>9, <1>10, <1>11,
       <1>12, <1>13, <1>14, <1>15, <1>16, <1>17, <1>18, <1>19, <1>20, <1>21,
       <1>22, <1>23, <1>24, <1>25, <1>26
    DEF Steps, Settles

LEMMA NetIsTyped ==
    ASSUME Typed, NEW x \in Side, Steps(x)
    PROVE  net' \subseteq Messages
  <1>1. Other(x) \in Side
    BY OtherIs
  <1>2. \A type \in {"INVITE", "2xx", "refusal", "ACK", "BYE"}, n \in Nat,
           body \in Offer \cup {None} :
             Msg(type, Other(x), n, body) \in Messages
    BY <1>1 DEF Messages, Msg
  <1>3. /\ dialog[x].client \in Nat /\ dialog[x].server \in Nat
        /\ dialog[x].sent \in Nat /\ net \subseteq Messages
    BY DEF Typed, Record, Messages
  <1>4. Bye(x) \in Messages
    BY <1>2 DEF Bye
  <1>5. \A m \in InviteFor(x) : Refused(m) \subseteq Messages
    BY <1>2, <1>3 DEF InviteFor, Refused, Messages
  <1>6. \A n \in Nat, s \in Side : <<s, n>> \in Offer
    BY DEF Offer
  <1>7. /\ \A body \in Offer \cup {None} : Ack(x, body) \in Messages
        /\ <<x, NextNumber(dialog[x])>> \in Offer
        /\ <<x, dialog[x].client>> \in Offer
        /\ <<Other(x), dialog[x].server>> \in Offer
        /\ NextNumber(dialog[x]) \in Nat
        /\ Msg("refusal", Other(x), dialog[x].server, None) \in Messages
    BY <1>1, <1>2, <1>3, <1>6 DEF Ack, NextNumber
  <1> HIDE DEF Messages
  <1>11. CASE Renegotiate(x)
    BY <1>2, <1>3, <1>4, <1>5, <1>7, <1>11
    DEF Renegotiate, Accepted, Invited, Refuse
  <1>12. CASE RenegotiateWithoutSdp(x)
    BY <1>2, <1>3, <1>4, <1>5, <1>7, <1>12
    DEF RenegotiateWithoutSdp, Accepted, Invited, Refuse
  <1>13. CASE ReceiveAccept(x)
    BY <1>2, <1>3, <1>4, <1>5, <1>7, <1>13
    DEF ReceiveAccept, Accepted, Invited, Refuse
  <1>14. CASE ReceiveRefusal(x)
    BY <1>2, <1>3, <1>4, <1>5, <1>7, <1>14
    DEF ReceiveRefusal, Accepted, Invited, Refuse
  <1>15. CASE ReceiveStrayInvite(x)
    BY <1>2, <1>3, <1>4, <1>5, <1>7, <1>15
    DEF ReceiveStrayInvite, Accepted, Invited, Refuse
  <1>16. CASE ReceiveLateInvite(x)
    BY <1>2, <1>3, <1>4, <1>5, <1>7, <1>16
    DEF ReceiveLateInvite, Accepted, Invited, Refuse
  <1>17. CASE ReceiveInvite(x)
    BY <1>2, <1>3, <1>4, <1>5, <1>7, <1>17
    DEF ReceiveInvite, Accepted, Invited, Refuse
  <1>18. CASE ReceiveAck(x)
    BY <1>2, <1>3, <1>4, <1>5, <1>7, <1>18
    DEF ReceiveAck, Accepted, Invited, Refuse
  <1>19. CASE Hangup(x)
    BY <1>2, <1>3, <1>4, <1>5, <1>7, <1>19
    DEF Hangup, Accepted, Invited, Refuse
  <1>20. CASE ReceiveBye(x)
    BY <1>2, <1>3, <1>4, <1>5, <1>7, <1>20
    DEF ReceiveBye, Accepted, Invited, Refuse
  <1>21. CASE OfferMade(x)
    BY <1>2, <1>3, <1>4, <1>5, <1>7, <1>21
    DEF OfferMade, Accepted, Invited, Refuse
  <1>22. CASE OfferFails(x)
    BY <1>2, <1>3, <1>4, <1>5, <1>7, <1>22
    DEF OfferFails, Accepted, Invited, Refuse
  <1>23. CASE AnswerSet(x)
    BY <1>2, <1>3, <1>4, <1>5, <1>7, <1>23
    DEF AnswerSet, Accepted, Invited, Refuse
  <1>24. CASE AnswerMade(x)
    BY <1>2, <1>3, <1>4, <1>5, <1>7, <1>24
    DEF AnswerMade, Accepted, Invited, Refuse
  <1>25. CASE AnswerFails(x)
    BY <1>2, <1>3, <1>4, <1>5, <1>7, <1>25
    DEF AnswerFails, Accepted, Invited, Refuse
  <1>26. CASE Undone(x)
    BY <1>2, <1>3, <1>4, <1>5, <1>7, <1>26
    DEF Undone, Accepted, Invited, Refuse
  <1>27. CASE UndoFails(x)
    BY <1>2, <1>3, <1>4, <1>5, <1>7, <1>27
    DEF UndoFails, Accepted, Invited, Refuse
  <1>28. CASE Reply(x)
    BY <1>2, <1>3, <1>4, <1>5, <1>7, <1>28
    DEF Reply, Accepted, Invited, Refuse
  <1>29. CASE ReplyFails(x)
    BY <1>2, <1>3, <1>4, <1>5, <1>7, <1>29
    DEF ReplyFails, Accepted, Invited, Refuse
  <1>30. CASE ReplyUndone(x)
    BY <1>2, <1>3, <1>4, <1>5, <1>7, <1>30
    DEF ReplyUndone, Accepted, Invited, Refuse
  <1>31. CASE ReplyUndoFails(x)
    BY <1>2, <1>3, <1>4, <1>5, <1>7, <1>31
    DEF ReplyUndoFails, Accepted, Invited, Refuse
  <1>32. CASE AckAnswerSet(x)
    BY <1>2, <1>3, <1>4, <1>5, <1>7, <1>32
    DEF AckAnswerSet, Accepted, Invited, Refuse
  <1>33. CASE AckAnswerFails(x)
    BY <1>2, <1>3, <1>4, <1>5, <1>7, <1>33
    DEF AckAnswerFails, Accepted, Invited, Refuse
  <1>34. CASE ReinviteTimesOut(x)
    BY <1>2, <1>3, <1>4, <1>5, <1>7, <1>34
    DEF ReinviteTimesOut, Accepted, Invited, Refuse
  <1>35. CASE ReceiveRedirect(x)
    BY <1>3, <1>35 DEF ReceiveRedirect
  <1>36. CASE ReceiveProgress(x)
    BY <1>3, <1>36 DEF ReceiveProgress
  <1> QED
    BY <1>11, <1>12, <1>13, <1>14, <1>15, <1>16, <1>17, <1>18, <1>19, <1>20,
       <1>21, <1>22, <1>23, <1>24, <1>25, <1>26, <1>27, <1>28, <1>29, <1>30,
       <1>31, <1>32, <1>33, <1>34, <1>35, <1>36
    DEF Steps, Settles

(* The dialog of x after a step of x; what is closed stays closed.         *)
Fits(x, e) == e \in Record /\ (Live(x) \/ e.signaling = "closed")

(* Such a dialog may take its place.                                       *)
LEMMA FittingIsTyped ==
    ASSUME dialog \in [Side -> Record], NEW x \in Side, NEW e, Fits(x, e),
           dialog' = [dialog EXCEPT ![x] = e]
    PROVE  /\ dialog' \in [Side -> Record]
           /\ \A s \in Side : Live(s)' => Live(s)
  BY DEF Fits, Live

LEMMA DialogIsTyped ==
    ASSUME Typed, NEW x \in Side, Steps(x)
    PROVE  /\ dialog' \in [Side -> Record]
           /\ \A s \in Side : Live(s)' => Live(s)
  <1>1. /\ dialog \in [Side -> Record] /\ dialog[x] \in Record
        /\ dialog[x].client \in Nat /\ dialog[x].server \in Nat
        /\ NextNumber(dialog[x]) \in Nat
        /\ \A s \in Side, n \in Nat : <<s, n>> \in Offer
        /\ Other(x) \in Side
        /\ \A m \in net : m.n \in Nat /\ m.body \in Offer \cup {None}
    BY OtherIs DEF Typed, Record, NextNumber, Offer
  <1>2. Fits(x, dialog[x])
    BY <1>1 DEF Fits, Live
  <1>3. ASSUME NEW d, Fits(x, d), NEW body \in Offer \cup {None}
        PROVE  Fits(x, Sent(d, body)) /\ Fits(x, Received(d, body))
    BY <1>3, TakeFacts DEF Fits, Sent, Received
  <1>4. ASSUME NEW d, Fits(x, d)
        PROVE  /\ \A n \in Nat : /\ Fits(x, [d EXCEPT !.client = n])
                                 /\ Fits(x, [d EXCEPT !.server = n])
                                 /\ Fits(x, [d EXCEPT !.heard = n])
                                 /\ Fits(x, [d EXCEPT !.client = n, !.sent = n])
               /\ \A b \in BOOLEAN : Fits(x, [d EXCEPT !.ackProcessing = b])
               /\ Fits(x, Closed(d))
    BY <1>4 DEF Fits, Closed, Record, Signaling
  <1>5. ASSUME NEW d, Fits(x, d)
        PROVE  Fits(x, Rollback(d))
    <2>1. Rollback(d) \in Record /\ (d.signaling = "closed" => Rollback(d) = d)
      BY <1>5, RollbackFacts DEF Fits, Rollback
    <2> QED
      BY <1>5, <2>1 DEF Fits
  <1> DEFINE fits(e) == Fits(x, e) /\ dialog' = [dialog EXCEPT ![x] = e]
             goal == /\ dialog' \in [Side -> Record]
                     /\ \A s \in Side : Live(s)' => Live(s)
  <1>6. ASSUME NEW e, fits(e) PROVE goal
    BY <1>1, <1>6, FittingIsTyped
  <1>7. dialog' = dialog => goal
    BY <1>1 DEF Live
  <1> SUFFICES goal
    OBVIOUS
  <1> HIDE DEF goal
  <1>8. ASSUME NEW body \in Offer \cup {None}, Invited(x, body) PROVE goal
    <2> DEFINE n == NextNumber(dialog[x])
               d == [dialog[x] EXCEPT !.client = n, !.sent = n]
    <2>1. Fits(x, d) /\ dialog' = [dialog EXCEPT ![x] = Sent(d, body)]
      BY <1>1, <1>2, <1>4, <1>8 DEF Invited
    <2> HIDE DEF d
    <2> QED
      BY <1>3, <1>6, <2>1
  <1>9. CASE Renegotiate(x)
    BY <1>7, <1>9 DEF Renegotiate
  <1>10. CASE ReceiveStrayInvite(x)
    BY <1>7, <1>10 DEF ReceiveStrayInvite
  <1>11. CASE ReceiveLateInvite(x)
    BY <1>7, <1>11 DEF ReceiveLateInvite
  <1>12. CASE OfferFails(x)
    BY <1>7, <1>12 DEF OfferFails
  <1>13. CASE Undone(x)
    BY <1>7, <1>13 DEF Undone
  <1>14. CASE RenegotiateWithoutSdp(x)
    BY <1>7, <1>8, <1>14 DEF RenegotiateWithoutSdp
  <1>15. CASE OfferMade(x)
    BY <1>1, <1>7, <1>8, <1>15 DEF OfferMade
  <1>16. CASE ReceiveAccept(x)
    <2>1. PICK m \in net :
            \/ dialog' = [dialog EXCEPT ![x] = Received(@, m.body)]
            \/ dialog' = dialog
      BY <1>16 DEF ReceiveAccept
    <2> QED
      BY <1>1, <1>2, <1>3, <1>6, <1>7, <2>1
  <1>17. CASE ReceiveRefusal(x)
    <2>1. CASE Rejected(x)
      <3> DEFINE d == [dialog[x] EXCEPT !.client = 0]
      <3>1. Fits(x, d) /\ dialog' = [dialog EXCEPT ![x] = Rollback(d)]
        BY <1>2, <1>4, <2>1 DEF Rejected
      <3> HIDE DEF d
      <3> QED
        BY <1>5, <1>6, <3>1
    <2> QED
      BY <1>7, <1>17, <2>1 DEF ReceiveRefusal
  <1>18. CASE ReinviteTimesOut(x)
    <2>1. CASE Rejected(x)
      <3> DEFINE d == [dialog[x] EXCEPT !.client = 0]
      <3>1. Fits(x, d) /\ dialog' = [dialog EXCEPT ![x] = Rollback(d)]
        BY <1>2, <1>4, <2>1 DEF Rejected
      <3> HIDE DEF d
      <3> QED
        BY <1>5, <1>6, <3>1
    <2> QED
      BY <1>18, <2>1 DEF ReinviteTimesOut
  <1>19. CASE ReceiveInvite(x)
    <2>1. PICK m \in net :
            LET d == Heard(dialog[x], m.n)
            IN  \/ dialog' = [dialog EXCEPT ![x] = d]
                \/ dialog' = [dialog EXCEPT ![x] =
                                Received([d EXCEPT !.server = m.n], m.body)]
      BY <1>19 DEF ReceiveInvite, InviteFor
    <2> DEFINE d == Heard(dialog[x], m.n)
               e == [d EXCEPT !.server = m.n]
    <2>2. Fits(x, d)
      BY <1>1, <1>2, <1>4 DEF Heard
    <2>3. Fits(x, e)
      BY <1>1, <1>4, <2>2
    <2>4. \/ dialog' = [dialog EXCEPT ![x] = d]
          \/ dialog' = [dialog EXCEPT ![x] = Received(e, m.body)]
      BY <2>1
    <2> HIDE DEF d, e
    <2> QED
      BY <1>1, <1>3, <1>6, <2>2, <2>3, <2>4
  <1>20. CASE ReceiveAck(x)
    <2>1. PICK m \in net :
            LET d == Received([dialog[x] EXCEPT !.server = 0], m.body)
            IN  \/ dialog' = dialog
                \/ dialog' = [dialog EXCEPT ![x] = Closed(d)]
                \/ dialog' = [dialog EXCEPT ![x] =
                                [d EXCEPT !.ackProcessing = m.body # None]]
      BY <1>20 DEF ReceiveAck
    <2> DEFINE c == [dialog[x] EXCEPT !.server = 0]
               d == Received(c, m.body)
    <2>2. Fits(x, c)
      BY <1>2, <1>4
    <2> HIDE DEF c
    <2>3. Fits(x, d)
      BY <1>1, <1>3, <2>2
    <2>4. \/ dialog' = dialog
          \/ dialog' = [dialog EXCEPT ![x] = Closed(d)]
          \/ \E b \in BOOLEAN :
               dialog' = [dialog EXCEPT ![x] = [d EXCEPT !.ackProcessing = b]]
      BY <2>1 DEF c
    <2> HIDE DEF d
    <2> QED
      BY <1>4, <1>6, <1>7, <2>3, <2>4
  <1>21. CASE Hangup(x)
    BY <1>2, <1>4, <1>6, <1>21 DEF Hangup
  <1>22. CASE ReceiveBye(x)
    BY <1>2, <1>4, <1>6, <1>22 DEF ReceiveBye
  <1>23. CASE UndoFails(x)
    BY <1>2, <1>4, <1>6, <1>23 DEF UndoFails
  <1>24. CASE AnswerSet(x)
    <2> DEFINE d == [dialog[x] EXCEPT !.client = 0]
    <2>1. Fits(x, d) /\ dialog' = [dialog EXCEPT ![x] = Sent(d, None)]
      BY <1>2, <1>4, <1>24 DEF AnswerSet, Accepted, Acked
    <2> HIDE DEF d
    <2> QED
      BY <1>3, <1>6, <2>1
  <1>25. CASE AnswerMade(x)
    <2> DEFINE d == [dialog[x] EXCEPT !.client = 0]
               body == <<x, dialog[x].client>>
    <2>1. /\ Fits(x, d) /\ dialog' = [dialog EXCEPT ![x] = Sent(d, body)]
          /\ body \in Offer \cup {None}
      BY <1>1, <1>2, <1>4, <1>25 DEF AnswerMade, Accepted, Acked
    <2> HIDE DEF d, body
    <2> QED
      BY <1>3, <1>6, <2>1
  <1>26. CASE AnswerFails(x)
    <2> DEFINE d == [dialog[x] EXCEPT !.client = 0]
    <2>1. Fits(x, d) /\ dialog' = [dialog EXCEPT ![x] = Closed(Sent(d, None))]
      BY <1>2, <1>4, <1>26 DEF AnswerFails, Acked
    <2> HIDE DEF d
    <2>2. Fits(x, Sent(d, None))
      BY <1>3, <2>1
    <2> QED
      BY <1>4, <1>6, <2>1, <2>2
  <1>27. CASE Reply(x)
    <2> DEFINE body == <<Other(x), dialog[x].server>>
    <2>1. dialog' = [dialog EXCEPT ![x] = Sent(@, body)]
      BY <1>27 DEF Reply
    <2>2. body \in Offer \cup {None}
      BY <1>1
    <2> HIDE DEF body
    <2> QED
      BY <1>2, <1>3, <1>6, <2>1, <2>2
  <1>28. CASE ReplyFails(x)
    <2>1. \/ dialog' = dialog
          \/ dialog' = [dialog EXCEPT ![x] = [dialog[x] EXCEPT !.server = 0]]
      BY <1>28 DEF ReplyFails, Refuse
    <2> QED
      BY <1>2, <1>4, <1>6, <1>7, <2>1
  <1>29. CASE ReplyUndone(x)
    <2> DEFINE d == Rollback(dialog[x])
    <2>1. dialog' = [dialog EXCEPT ![x] = [d EXCEPT !.server = 0]]
      BY <1>29 DEF ReplyUndone, Refuse
    <2>2. Fits(x, d)
      BY <1>2, <1>5
    <2> HIDE DEF d
    <2> QED
      BY <1>4, <1>6, <2>1, <2>2
  <1>30. CASE ReplyUndoFails(x)
    <2> DEFINE d == [dialog[x] EXCEPT !.server = 0]
    <2>1. Fits(x, d) /\ dialog' = [dialog EXCEPT ![x] = Closed(d)]
      BY <1>2, <1>4, <1>30 DEF ReplyUndoFails
    <2> HIDE DEF d
    <2> QED
      BY <1>4, <1>6, <2>1
  <1>31. CASE AckAnswerFails(x)
    <2> DEFINE d == [dialog[x] EXCEPT !.ackProcessing = FALSE]
    <2>1. Fits(x, d) /\ dialog' = [dialog EXCEPT ![x] = Closed(d)]
      BY <1>2, <1>4, <1>31 DEF AckAnswerFails
    <2> HIDE DEF d
    <2> QED
      BY <1>4, <1>6, <2>1
  <1>32. CASE AckAnswerSet(x)
    <2>1. dialog' = [dialog EXCEPT ![x] =
                       [dialog[x] EXCEPT !.ackProcessing = FALSE]]
      BY <1>32 DEF AckAnswerSet
    <2> QED
      BY <1>2, <1>4, <1>6, <2>1
  <1>33. CASE ReceiveRedirect(x)
    <2> DEFINE d == [dialog[x] EXCEPT !.client = 0]
    <2>1. Fits(x, d) /\ dialog' = [dialog EXCEPT ![x] = Rollback(d)]
      BY <1>2, <1>4, <1>33 DEF ReceiveRedirect
    <2> HIDE DEF d
    <2> QED
      BY <1>5, <1>6, <2>1
  <1>34. CASE ReceiveProgress(x)
    BY <1>7, <1>34 DEF ReceiveProgress
  <1> QED
    BY <1>9, <1>10, <1>11, <1>12, <1>13, <1>14, <1>15, <1>16, <1>17, <1>18,
       <1>19, <1>20, <1>21, <1>22, <1>23, <1>24, <1>25, <1>26, <1>27, <1>28,
       <1>29, <1>30, <1>31, <1>32, <1>33, <1>34
    DEF Steps, Settles
-----------------------------------------------------------------------------
(* The call that was just established satisfies the invariant.             *)
LEMMA InitIInv == Init => IInv
  <1> SUFFICES ASSUME Init PROVE IInv
    OBVIOUS
  <1>1. Initial \in Offer /\ Initial # None
    BY NotNone DEF Initial, Offer, Side
  <1>2. Typed
    <2> HIDE DEF Sessions
    <2>1. [offer |-> Initial, answer |-> Initial] \in Past
      BY <1>1 DEF Past
    <2>2. dialog \in [Side -> Record]
      BY <1>1, <2>1 DEF Init, Record, Signaling
    <2>3. session \in Sessions
      BY DEF Init, Sessions
    <2> QED
      BY <2>2, <2>3 DEF Init, Typed
  <1>3. \A s \in Side :
          /\ client(s) = 0 /\ server(s) = 0 /\ sent(s) = 0
          /\ signaling(s) = "stable" /\ offer(s) = Initial
          /\ serving(s) = {} /\ applying(s) = {} /\ ~offering(s)
          /\ Open(s) = {} /\ AcksTo(s) = {}
    BY DEF Init, client, server, sent, signaling, offer, serving, applying,
           offering, Open, AcksTo
  <1>4. "caller" \in Side /\ "callee" \in Side
    BY DEF Side
  <1>5. Placed
    BY <1>3, <1>4 DEF Placed, Place
  <1>6. Shaped
    BY <1>3, <1>4 DEF Shaped, Shape, Base, Accepting
  <1> QED
    BY <1>2, <1>5, <1>6 DEF IInv

(* Every step preserves it.                                                *)
LEMMA StepIInv == IInv /\ [Next]_vars => IInv'
  <1> SUFFICES ASSUME IInv, [Next]_vars PROVE IInv'
    OBVIOUS
  <1>1. CASE UNCHANGED vars
    <2>1. Typed' /\ lapsed' = lapsed /\ (Both' => Both)
      BY <1>1 DEF vars, IInv, Typed, Both, Live
    <2>2. ASSUME NEW s
          PROVE  /\ Untouched(s)
                 /\ Open(s)' = Open(s) /\ AcksTo(s)' = AcksTo(s)
      BY <1>1, UntouchedIs DEF vars, Open, AcksTo
    <2>3. Placed => Placed'
      BY <2>2 DEF Placed, Place, Untouched
    <2>4. Shaped => Shaped'
      <3>1. ASSUME NEW s, NEW t, Shape(s, t) PROVE Shape(s, t)'
        BY <2>2, <3>1 DEF Shape, Accepting, AckDue, Body, Untouched
      <3>2. ASSUME NEW s PROVE Base(s)' = Base(s)
        BY <2>2 DEF Base, Committed, Accepting, AckDue, Untouched
      <3> QED
        BY <3>1, <3>2 DEF Shaped
    <2> QED
      BY <2>1, <2>3, <2>4 DEF IInv
  <1>2. ASSUME NEW x \in Side, Steps(x) PROVE IInv'
    <2>1. PICK y : y = Other(x)
      OBVIOUS
    <2>2. /\ y \in Side /\ x # y /\ x = Other(y)
          /\ \A s \in Side : s = x \/ s = y
      BY <2>1, OtherIs
    <2>3. \/ x = "caller" /\ y = "callee"
          \/ x = "callee" /\ y = "caller"
      BY <2>2 DEF Side
    <2>4. Typed
      BY DEF IInv
    <2>5. lapsed' \in BOOLEAN
      BY <1>2, <2>4, LapsedStays DEF Typed
    <2>6. Typed'
      BY <1>2, <2>4, <2>5, SessionIsTyped, NetIsTyped, DialogIsTyped
      DEF Typed
    <2>7. CASE ~lapsed'
      <3>1. ~lapsed
        BY <1>2, <2>7, LapsedStays
      <3>2. /\ Place(x, y) /\ Place(y, x)
            /\ server(x) = 0 \/ server(y) = 0
        BY <2>3, <3>1 DEF IInv, Placed
      <3>3. Here(x, y)
        BY <2>1, <2>2, <2>4, <3>2 DEF Here
      <3>4. Move(x, y)
        BY <1>2, <2>7, <3>3, StepsMove
      <3>5. Pair(x, y)
        BY <2>2, <2>4, <3>2
        DEF Pair, Typed, Record, client, server, sent, AcksTo
      <3>6. /\ Place(x, y)' /\ Place(y, x)'
            /\ (server(x) = 0 \/ server(y) = 0)'
        BY <3>4, <3>5, MovePlaces
      <3>7. ASSUME Both' PROVE Shaped'
        <4>1. \A s \in Side : Live(s) /\ Live(s)'
          BY <1>2, <2>2, <2>3, <2>4, <3>7, DialogIsTyped DEF Both
        <4>2. Alive(x, y)
          BY <2>2, <2>3, <3>1, <4>1
          DEF Alive, IInv, Both, Shaped, Live, signaling
        <4>3. signaling(x)' # "closed" /\ signaling(y)' # "closed"
          BY <2>2, <4>1 DEF Live, signaling
        <4>4. Shape(x, y)' /\ Shape(y, x)' /\ Base(x)' = Base(y)'
          BY <3>4, <3>5, <3>6, <4>2, <4>3, MoveShapes
        <4> QED
          BY <2>3, <4>4 DEF Shaped
      <3>8. Placed'
        BY <2>3, <3>6 DEF Placed
      <3> QED
        BY <2>6, <3>7, <3>8 DEF IInv
    <2> QED
      BY <2>6, <2>7 DEF IInv
  <1>3. CASE Next
    BY <1>2, <1>3 DEF Next, Steps
  <1> QED
    BY <1>1, <1>3

(* It always holds.                                                        *)
LEMMA Invariance == Spec => []IInv
  BY InitIInv, StepIInv, PTL DEF Spec

(* Of two re-INVITEs that cross the two dialogs never serve both (session- *)
(* dialog.ts:522-523), for any number of re-INVITEs of either side, unless *)
(* one has timed out.                                                      *)
THEOREM NegotiationIsUnique == Spec => []OneNegotiation
  <1>1. IInv => OneNegotiation
    BY DEF IInv, Placed, OneNegotiation, server, Side
  <1> QED
    BY <1>1, Invariance, PTL

(* With nothing under way a re-INVITE has no place left to be in.          *)
LEMMA QuietAgree == IInv => AgreeWhenQuiet
  <1> SUFFICES ASSUME IInv, net = {}, ~lapsed,
                      \A s \in Side : Live(s) /\ session[s].work = {}
               PROVE  /\ \A s \in Side :
                           Idle(s) /\ dialog[s].signaling = "stable"
                      /\ dialog["caller"].offer = dialog["callee"].offer
    BY DEF AgreeWhenQuiet
  <1>1. "caller" \in Side /\ "callee" \in Side /\ Side = {"caller", "callee"}
    BY DEF Side
  <1>2. Placed /\ Shaped
    BY <1>1 DEF IInv, Both
  <1>3. \A s \in Side : /\ Open(s) = {} /\ AcksTo(s) = {}
                        /\ serving(s) = {} /\ applying(s) = {}
    BY DEF Open, AcksTo, serving, applying
  <1>4. \A s \in Side : client(s) = 0
    BY <1>1, <1>2, <1>3 DEF Placed, Place
  <1>5. \A s \in Side : server(s) = 0
    BY <1>1, <1>2, <1>3 DEF Shaped, Shape, Accepting, AckDue
  <1>6. \A s \in Side : signaling(s) = "stable"
    BY <1>1, <1>2, <1>4, <1>5 DEF Shaped, Shape
  <1>7. offer("caller") = offer("callee")
    BY <1>1, <1>2, <1>6 DEF Shaped, Base
  <1> QED
    BY <1>4, <1>5, <1>6, <1>7 DEF Idle, client, server, signaling, offer

(* When all is said and both ends are up, both are idle and hold the same  *)
(* agreed description, for any number of re-INVITEs that crossed, failed   *)
(* or were refused.                                                        *)
THEOREM EndsAgree == Spec => []AgreeWhenQuiet
  BY QuietAgree, Invariance, PTL
=============================================================================
