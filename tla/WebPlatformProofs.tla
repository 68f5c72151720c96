-------------------------- MODULE WebPlatformProofs --------------------------
(***************************************************************************)
(* What the web platform keeps: that hold and unhold are what the media    *)
(* follow; that one wait for ICE at a time is told of its end; that a      *)
(* manager pursues the connection and the registration it should have.     *)
(***************************************************************************)
EXTENDS Hold, SessionDescriptionHandler, SessionManager, TLAPS

(* A re-INVITE that is made, or sent.                                      *)
Offers(s) == invite[s].phase \in {"made", "sent"}

(* An offer that came to nothing, or will, is left with the connection for *)
(* good: the side takes no offer and gets none through any more.           *)
Doomed(s) ==
    /\ pc[s].signaling = "have-local-offer"
    /\ invite[s].phase \in {"none", "making"} \/ response[s] = "refused"

(* The re-INVITE of a side is on its way, with the peer or answered, or it *)
(* has none of that.  A side serves before it makes an offer of its own.   *)
InOnePlace(s) ==
    /\ \/ request[s] = "none" /\ ~serving[Peer(s)].on
       \/ request[s] = "none" /\ response[s] = "none"
       \/ ~serving[Peer(s)].on /\ response[s] = "none"
    /\ invite[s].phase # "sent" =>
          /\ request[s] = "none" /\ response[s] = "none"
          /\ ~serving[Peer(s)].on
    /\ serving[s].on =>
          /\ ~Offers(s)
          /\ pc[s].signaling = "have-remote-offer"

(* An answer goes out as an offer, and a remote offer is left, only when   *)
(* the peer is doomed; a side that is doomed has strayed, and who is       *)
(* answered has an offer.                                                  *)
Left(s) ==
    /\ Offers(s) =>
          \/ pc[s].signaling = "have-local-offer"
          \/ pc[s].signaling = "stable" /\ Doomed(Peer(s))
    /\ pc[s].signaling = "have-remote-offer" =>
          serving[s].on \/ Doomed(Peer(s))
    /\ Doomed(s) /\ invite[s].phase # "sent" => s \in strayed
    /\ response[s] \in Direction => pc[s].signaling = "have-local-offer"

(* What was offered, and what is answered, says what the option was.       *)
SaysOption(s) ==
    /\ Offers(s) /\ pc[s].signaling = "have-local-offer" =>
          (Receives(pc[s].direction) <=> ~invite[s].used)
    /\ request[s] # "none" => request[s] = pc[s].direction
    /\ serving[Peer(s)].on => pc[Peer(s)].remote = pc[s].direction
    /\ response[s] \in Direction =>
          /\ Sends(response[s]) <=> ~invite[s].used
          /\ Sends(pc[Peer(s)].direction) <=> ~invite[s].used

(* The option is what the last hold() or unhold() made it, if it came to   *)
(* a re-INVITE and that to its end.                                        *)
Steady(s) ==
    s \notin strayed =>
        /\ OptionOn(s) <=> managed[s].held
        /\ invite[s].phase # "none" => (invite[s].hold <=> managed[s].held)
        /\ Offers(s) => (invite[s].used <=> managed[s].held)
        /\ invite[s].phase = "none" =>
              /\ Receives(pc[s].current) <=> ~managed[s].held
              /\ Sends(pc[Peer(s)].direction) <=> ~managed[s].held
              /\ serving[s].on => (serving[s].hold <=> managed[s].held)

(* Nothing is received for what was last negotiated.                       *)
Honoured(s) == used[s] => ~Receives(pc[s].current)

HoldInv ==
    /\ HoldTypeOK
    /\ \A s \in Side :
          InOnePlace(s) /\ Left(s) /\ SaysOption(s) /\ Steady(s) /\ Honoured(s)
    /\ TracksFollowHold

(* There are two sides.                                                    *)
LEMMA PeerOf ==
    ASSUME NEW s \in Side
    PROVE  /\ Peer(s) \in Side /\ Peer(s) # s /\ Peer(Peer(s)) = s
           /\ \A t \in Side : t = s \/ t = Peer(s)
  <1>1. PICK a, b : a # b /\ Side = {a, b}
    BY SideAssumption
  <1>2. \A t \in Side : \E u \in Side : u # t
    BY <1>1
  <1>3. \A t \in Side : Peer(t) \in Side /\ Peer(t) # t
    BY <1>2 DEF Peer
  <1> QED BY <1>1, <1>3

Managed == [held : BOOLEAN, muted : BOOLEAN]
Tracks == [receiver : BOOLEAN, sender : BOOLEAN]
Connection == [signaling : {"stable", "have-local-offer", "have-remote-offer"},
               direction : Direction, current : Direction,
               remote : Direction]
Invites == [phase : {"none", "making", "made", "sent"},
            hold : BOOLEAN, used : BOOLEAN]
Servings == [on : BOOLEAN, hold : BOOLEAN, shared : BOOLEAN]

(* The records of HoldTypeOK by their names.                               *)
LEMMA Types ==
    HoldTypeOK <=> /\ managed \in [Side -> Managed]
                   /\ option \in [Side -> {"unset", "off", "on"}]
                   /\ tracks \in [Side -> Tracks]
                   /\ pc \in [Side -> Connection]
                   /\ invite \in [Side -> Invites]
                   /\ serving \in [Side -> Servings]
                   /\ request \in [Side -> Direction \cup {"none"}]
                   /\ response \in [Side -> Direction \cup {"none", "refused"}]
                   /\ used \in [Side -> BOOLEAN]
                   /\ strayed \subseteq Side
                   /\ unsent \subseteq Side
  BY DEF HoldTypeOK, Managed, Tracks, Connection, Invites, Servings

(* The directions that are offered and answered.                           *)
LEMMA OffersAre ==
    ASSUME NEW direction \in Direction, NEW hold \in BOOLEAN
    PROVE  /\ DirectionToOffer(direction, hold) \in Direction
           /\ Sends(DirectionToOffer(direction, hold)) <=> Sends(direction)
           /\ Receives(DirectionToOffer(direction, hold)) <=> ~hold
  BY DEF DirectionToOffer, Direction, Sends, Receives

(* An answer takes what is offered, and receives unless the session holds. *)
LEMMA AnswersAre ==
    ASSUME NEW offer \in Direction, NEW hold \in BOOLEAN
    PROVE  /\ AnswerDirection(offer, hold) \in Direction
           /\ Sends(AnswerDirection(offer, hold)) <=> Receives(offer)
           /\ Receives(AnswerDirection(offer, hold)) <=> Sends(offer) /\ ~hold
  BY DEF AnswerDirection, Direction, Sends, Receives

(* What the peer receives is what we send.                                 *)
LEMMA ReversedAre ==
    ASSUME NEW direction \in Direction
    PROVE  /\ Reversed(direction) \in Direction
           /\ Receives(Reversed(direction)) <=> Sends(direction)
  BY DEF Reversed, Direction, Sends, Receives

LEMMA HoldInitInv == HoldInit => HoldInv
  <1> SUFFICES ASSUME HoldInit PROVE HoldInv
    OBVIOUS
  <1>1. HoldTypeOK
    BY DEF HoldInit, HoldTypeOK, NoInvite, NotServing, Direction
  <1>2. \A s \in Side : Peer(s) \in Side
    BY PeerOf
  <1>3. \A s \in Side :
           InOnePlace(s) /\ Left(s) /\ SaysOption(s) /\ Steady(s) /\ Honoured(s)
    BY <1>2 DEF HoldInit, InOnePlace, Left, Doomed, SaysOption, Steady, Honoured, NoInvite,
       NotServing, Direction, Offers, OptionOn, Receives, Sends
  <1>4. TracksFollowHold
    BY DEF HoldInit, TracksFollowHold
  <1> QED BY <1>1, <1>3, <1>4 DEF HoldInv

Good(t) ==
    InOnePlace(t) /\ Left(t) /\ SaysOption(t) /\ Steady(t) /\ Honoured(t)

(* A step of a side is judged at that side and at its peer.                *)
LEMMA GoodSuffices ==
    ASSUME NEW s \in Side, HoldTypeOK', TracksFollowHold', Good(s)',
           Good(Peer(s))'
    PROVE  HoldInv'
  <1>1. \A t \in Side : t = s \/ t = Peer(s)
    BY PeerOf
  <1>2. \A t \in Side : Good(t)'
    BY <1>1
  <1> QED BY <1>2 DEF HoldInv, Good

(* What is enabled of the tracks is two Booleans.                          *)
LEMMA EnabledIs ==
    ASSUME NEW m \in Managed
    PROVE  Enabled(m) \in Tracks
  <1>1. PICK heard \in BOOLEAN : heard = ~m.held
    BY DEF Managed
  <1>2. PICK said \in BOOLEAN : said = (~m.held /\ ~m.muted)
    BY DEF Managed
  <1>3. Enabled(m) = [receiver |-> heard, sender |-> said]
    BY <1>1, <1>2 DEF Enabled
  <1> QED BY <1>3 DEF Tracks

(* A setter of the hold option keeps the options of a re-INVITE that is    *)
(* served well-typed, shared or not.                                       *)
LEMMA OptionIsServed ==
    ASSUME HoldTypeOK, NEW s \in Side, NEW hold \in BOOLEAN,
           serving' = [serving EXCEPT ![s] =
                         IF @.shared
                         THEN [@ EXCEPT !.hold = hold, !.shared = FALSE]
                         ELSE @]
    PROVE  serving' \in [Side -> Servings]
  <1>1. serving \in [Side -> Servings]
    BY Types
  <1>2. PICK served \in Servings : served =
          IF serving[s].shared
          THEN [serving[s] EXCEPT !.hold = hold, !.shared = FALSE]
          ELSE serving[s]
    <2>1. serving[s] \in Servings
      BY <1>1
    <2> QED BY <2>1 DEF Servings
  <1>3. serving' = [serving EXCEPT ![s] = served]
    BY <1>2
  <1> QED BY <1>1, <1>2, <1>3

(* Each step of a side.                                                    *)
LEMMA SetHoldKeeps ==
    ASSUME HoldInv, NEW s \in Side, SetHold(s)
    PROVE  HoldInv'
  <1> DEFINE p == Peer(s)
  <1>p. p \in Side /\ p # s /\ Peer(p) = s /\ Peer(s) = p
    BY PeerOf
  <1>t. HoldTypeOK
    BY DEF HoldInv
  <1>i. Good(s) /\ Good(p)
    BY <1>p DEF HoldInv, Good
  <1> HIDE DEF p
  <1>1. PICK hold \in BOOLEAN : hold = ~managed[s].held
    BY <1>t DEF HoldTypeOK
  <1>2. /\ managed' = [managed EXCEPT ![s].held = hold]
        /\ invite' = [invite EXCEPT ![s] = [phase |-> "making", hold |-> hold,
                                            used |-> FALSE]]
        /\ option' = [option EXCEPT ![s] = IF hold THEN "on" ELSE "off"]
        /\ serving' = [serving EXCEPT ![s] =
                         IF @.shared
                         THEN [@ EXCEPT !.hold = hold, !.shared = FALSE]
                         ELSE @]
        /\ UNCHANGED <<tracks, pc, request, response, used, strayed, unsent>>
        /\ invite[s].phase = "none"
    BY <1>1 DEF SetHold, OptionSet
  <1>3. HoldTypeOK'
    <2>1. managed' \in [Side -> Managed]
      BY <1>t, <1>2, Types DEF Managed
    <2>2. invite' \in [Side -> Invites]
      BY <1>t, <1>2, Types DEF Invites
    <2>3. serving' \in [Side -> Servings]
      BY <1>t, <1>2, OptionIsServed
    <2> QED
      BY <1>t, <1>2, <2>1, <2>2, <2>3
      DEF HoldTypeOK, Managed, Tracks, Connection, Invites, Servings
  <1>v1. managed'[s].held = hold /\ managed'[p] = managed[p]
    BY <1>p, <1>t, <1>2, Types DEF Managed
  <1>v2. OptionOn(s)' = hold /\ OptionOn(p)' = OptionOn(p)
    BY <1>p, <1>t, <1>2, Types DEF OptionOn
  <1>v3. serving'[s].on = serving[s].on /\ serving'[p] = serving[p]
    BY <1>p, <1>t, <1>2, Types DEF Servings
  <1>v4. /\ invite'[s] = [phase |-> "making", hold |-> hold, used |-> FALSE]
         /\ invite'[p] = invite[p]
    BY <1>p, <1>t, <1>2, Types
  <1>4. Good(s)'
    BY <1>p, <1>i, <1>2, <1>v1, <1>v2, <1>v3, <1>v4
    DEF Good, InOnePlace, Left, Doomed, SaysOption, Steady, Honoured, Offers,
        Direction
  <1>5. Good(p)'
    BY <1>p, <1>i, <1>2, <1>v1, <1>v2, <1>v3, <1>v4
    DEF Good, InOnePlace, Left, Doomed, SaysOption, Steady, Honoured, Offers,
        Direction
  <1>6. TracksFollowHold'
    BY <1>p, <1>t, <1>2 DEF HoldInv, TracksFollowHold, HoldTypeOK
  <1> QED BY <1>3, <1>4, <1>5, <1>6, GoodSuffices DEF p

LEMMA SetHoldPendingKeeps ==
    ASSUME HoldInv, NEW s \in Side, SetHoldPending(s)
    PROVE  HoldInv'
  <1> DEFINE p == Peer(s)
  <1>p. p \in Side /\ p # s /\ Peer(p) = s /\ Peer(s) = p
    BY PeerOf
  <1>t. HoldTypeOK
    BY DEF HoldInv
  <1>i. Good(s) /\ Good(p)
    BY <1>p DEF HoldInv, Good
  <1> HIDE DEF p
  <1>1. PICK hold \in BOOLEAN : hold = ~managed[s].held
    BY <1>t DEF HoldTypeOK
  <1>2. /\ option' = [option EXCEPT ![s] = IF hold THEN "on" ELSE "off"]
        /\ serving' = [serving EXCEPT ![s] =
                         IF @.shared
                         THEN [@ EXCEPT !.hold = hold, !.shared = FALSE]
                         ELSE @]
        /\ strayed' = strayed \cup {s}
        /\ UNCHANGED <<managed, tracks, pc, invite, request, response, used,
                       unsent>>
    BY <1>1 DEF SetHoldPending, OptionSet
  <1>3. HoldTypeOK'
    <2>1. serving' \in [Side -> Servings]
      BY <1>t, <1>2, OptionIsServed
    <2>2. strayed' \subseteq Side
      BY <1>t, <1>2, Types
    <2> QED
      BY <1>t, <1>2, <2>1, <2>2
      DEF HoldTypeOK, Managed, Tracks, Connection, Invites, Servings
  <1>v1. OptionOn(p)' = OptionOn(p)
    BY <1>p, <1>t, <1>2, Types DEF OptionOn
  <1>v2. serving'[s].on = serving[s].on /\ serving'[p] = serving[p]
    BY <1>p, <1>t, <1>2, Types DEF Servings
  <1>4. Good(s)'
    BY <1>p, <1>i, <1>2, <1>v1, <1>v2
    DEF Good, InOnePlace, Left, Doomed, SaysOption, Steady, Honoured, Offers,
        Direction
  <1>5. Good(p)'
    BY <1>p, <1>i, <1>2, <1>v1, <1>v2
    DEF Good, InOnePlace, Left, Doomed, SaysOption, Steady, Honoured, Offers,
        Direction
  <1>6. TracksFollowHold'
    BY <1>p, <1>t, <1>2 DEF HoldInv, TracksFollowHold, HoldTypeOK
  <1> QED BY <1>3, <1>4, <1>5, <1>6, GoodSuffices DEF p

LEMMA SetMuteKeeps ==
    ASSUME HoldInv, NEW s \in Side, SetMute(s)
    PROVE  HoldInv'
  <1> DEFINE p == Peer(s)
  <1>p. p \in Side /\ p # s /\ Peer(p) = s /\ Peer(s) = p
    BY PeerOf
  <1>t. HoldTypeOK
    BY DEF HoldInv
  <1>i. Good(s) /\ Good(p)
    BY <1>p DEF HoldInv, Good
  <1> HIDE DEF p
  <1>2. /\ managed' = [managed EXCEPT ![s].muted = ~@]
        /\ tracks' = [tracks EXCEPT ![s].sender = ~managed'[s].held
                                                   /\ ~managed'[s].muted]
        /\ UNCHANGED <<option, pc, invite, serving, request, response,
                       used, strayed, unsent>>
    BY DEF SetMute, Enabled
  <1>3. HoldTypeOK'
    <2>1. managed' \in [Side -> Managed]
      BY <1>t, <1>2, Types DEF Managed
    <2>2. PICK on \in BOOLEAN : on = (~managed'[s].held /\ ~managed'[s].muted)
      BY <2>1 DEF Managed
    <2>3. tracks' \in [Side -> Tracks]
      <3>1. tracks' = [tracks EXCEPT ![s].sender = on]
        BY <1>2, <2>2
      <3>2. tracks \in [Side -> Tracks]
        BY <1>t, Types
      <3> QED BY <2>2, <3>1, <3>2 DEF Tracks
    <2> QED
      BY <1>t, <1>2, <2>1, <2>2, <2>3
      DEF HoldTypeOK, Managed, Tracks, Connection, Invites, Servings
  <1>v1. managed'[s].held = managed[s].held /\ managed'[p] = managed[p]
    BY <1>p, <1>t, <1>2, Types DEF Managed
  <1>v2. \A t \in Side : OptionOn(t)' = OptionOn(t)
    BY <1>2 DEF OptionOn
  <1>4. Good(s)'
    BY <1>p, <1>i, <1>2, <1>v1, <1>v2
    DEF Good, InOnePlace, Left, Doomed, SaysOption, Steady, Honoured, Offers,
        Direction
  <1>5. Good(p)'
    BY <1>p, <1>i, <1>2, <1>v1, <1>v2
    DEF Good, InOnePlace, Left, Doomed, SaysOption, Steady, Honoured, Offers,
        Direction
  <1>6. TracksFollowHold'
    BY <1>p, <1>t, <1>2, <1>v1, Types
    DEF HoldInv, TracksFollowHold, Managed, Tracks
  <1> QED BY <1>3, <1>4, <1>5, <1>6, GoodSuffices DEF p

LEMMA OfferMadeKeeps ==
    ASSUME HoldInv, NEW s \in Side, OfferMade(s)
    PROVE  HoldInv'
  <1> DEFINE p == Peer(s)
  <1>p. p \in Side /\ p # s /\ Peer(p) = s /\ Peer(s) = p
    BY PeerOf
  <1>t. HoldTypeOK
    BY DEF HoldInv
  <1>i. Good(s) /\ Good(p)
    BY <1>p DEF HoldInv, Good
  <1> HIDE DEF p
  <1>0. PICK on \in BOOLEAN : on = OptionOn(s)
    BY DEF OptionOn
  <1>1. PICK direction \in Direction :
           /\ direction = DirectionToOffer(pc[s].direction, on)
           /\ Sends(direction) <=> Sends(pc[s].direction)
           /\ Receives(direction) <=> ~on
    BY <1>t, <1>0, OffersAre DEF HoldTypeOK
  <1>2. /\ pc' = [pc EXCEPT ![s].signaling = "have-local-offer",
                           ![s].direction = direction]
        /\ invite' = [invite EXCEPT ![s].phase = "made", ![s].used = on]
        /\ UNCHANGED <<managed, option, tracks, serving, request, response,
                       used, strayed, unsent>>
        /\ invite[s].phase = "making" /\ ~serving[s].on /\ pc[s].signaling = "stable"
    BY <1>0, <1>1 DEF OfferMade
  <1>3. HoldTypeOK'
    <2>1. pc' \in [Side -> Connection]
      <3>1. /\ pc' = [pc EXCEPT ![s].signaling = "have-local-offer",
                               ![s].direction = direction]
            /\ direction \in Direction
        BY <1>1, <1>2
      <3>2. pc \in [Side -> Connection]
        BY <1>t, Types
      <3> QED BY <3>1, <3>2 DEF Connection
    <2>2. invite' \in [Side -> Invites]
      <3>1. /\ invite' = [invite EXCEPT ![s].phase = "made", ![s].used = on]
            /\ on \in BOOLEAN
        BY <1>0, <1>2
      <3>2. invite \in [Side -> Invites]
        BY <1>t, Types
      <3> QED BY <3>1, <3>2 DEF Invites
    <2> QED
      BY <1>t, <1>2, <2>1, <2>2
      DEF HoldTypeOK, Managed, Tracks, Connection, Invites, Servings
  <1>v1. /\ pc'[s].direction = direction /\ pc'[s].current = pc[s].current
         /\ pc'[s].signaling = "have-local-offer" /\ pc'[p] = pc[p]
    BY <1>p, <1>t, <1>1, <1>2, Types DEF Connection
  <1>v2. /\ invite'[s].phase = "made" /\ invite'[s].hold = invite[s].hold
         /\ invite'[s].used = on /\ invite'[p] = invite[p]
    BY <1>p, <1>t, <1>2, Types DEF Invites
  <1>v3. \A t \in Side : OptionOn(t)' = OptionOn(t)
    BY <1>2 DEF OptionOn
  <1>4. Good(s)'
    BY <1>p, <1>i, <1>2, <1>v1, <1>v2, <1>v3, <1>0, <1>1
    DEF Good, InOnePlace, Left, Doomed, SaysOption, Steady, Honoured, Offers,
        Direction
  <1>5. Good(p)'
    BY <1>p, <1>i, <1>2, <1>v1, <1>v2, <1>v3, <1>0, <1>1
    DEF Good, InOnePlace, Left, Doomed, SaysOption, Steady, Honoured, Offers,
        Direction
  <1>6. TracksFollowHold'
    BY <1>p, <1>t, <1>2 DEF HoldInv, TracksFollowHold, HoldTypeOK
  <1> QED BY <1>3, <1>4, <1>5, <1>6, GoodSuffices DEF p

LEMMA OfferIsAnswerKeeps ==
    ASSUME HoldInv, NEW s \in Side, OfferIsAnswer(s)
    PROVE  HoldInv'
  <1> DEFINE p == Peer(s)
  <1>p. p \in Side /\ p # s /\ Peer(p) = s /\ Peer(s) = p
    BY PeerOf
  <1>t. HoldTypeOK
    BY DEF HoldInv
  <1>i. Good(s) /\ Good(p)
    BY <1>p DEF HoldInv, Good
  <1> HIDE DEF p
  <1>0. PICK on \in BOOLEAN : on = OptionOn(s)
    BY DEF OptionOn
  <1>1. PICK answer \in Direction :
           /\ answer = AnswerDirection(pc[s].remote, on)
           /\ Receives(answer) <=> Sends(pc[s].remote) /\ ~on
    BY <1>t, <1>0, AnswersAre DEF HoldTypeOK
  <1>2. /\ pc' = [pc EXCEPT ![s].signaling = "stable",
                           ![s].direction = answer, ![s].current = answer]
        /\ used' = [used EXCEPT ![s] = on]
        /\ invite' = [invite EXCEPT ![s].phase = "made", ![s].used = on]
        /\ UNCHANGED <<managed, option, tracks, serving, request, response,
                       strayed, unsent>>
        /\ invite[s].phase = "making" /\ ~serving[s].on
        /\ pc[s].signaling = "have-remote-offer"
    BY <1>0, <1>1 DEF OfferIsAnswer, Answered
  <1>3. HoldTypeOK'
    <2>1. pc' \in [Side -> Connection]
      <3>1. /\ pc' = [pc EXCEPT ![s].signaling = "stable",
                               ![s].direction = answer, ![s].current = answer]
            /\ answer \in Direction /\ pc \in [Side -> Connection]
        BY <1>t, <1>1, <1>2, Types
      <3> QED BY <3>1 DEF Connection
    <2>2. invite' \in [Side -> Invites]
      <3>1. /\ invite' = [invite EXCEPT ![s].phase = "made", ![s].used = on]
            /\ on \in BOOLEAN
        BY <1>0, <1>2
      <3>2. invite \in [Side -> Invites]
        BY <1>t, Types
      <3> QED BY <3>1, <3>2 DEF Invites
    <2>3. used' \in [Side -> BOOLEAN]
      BY <1>t, <1>0, <1>2, Types
    <2> QED
      BY <1>t, <1>2, <2>1, <2>2, <2>3
      DEF HoldTypeOK, Managed, Tracks, Connection, Invites, Servings
  <1>v1. /\ pc'[s].direction = answer /\ pc'[s].current = answer
         /\ pc'[s].signaling = "stable" /\ pc'[p] = pc[p]
    BY <1>p, <1>t, <1>2, Types DEF Connection
  <1>v2. /\ invite'[s].phase = "made" /\ invite'[s].hold = invite[s].hold
         /\ invite'[s].used = on /\ invite'[p] = invite[p]
    BY <1>p, <1>t, <1>2, Types DEF Invites
  <1>v3. used'[s] = on /\ used'[p] = used[p]
    BY <1>p, <1>t, <1>2, Types
  <1>v4. \A t \in Side : OptionOn(t)' = OptionOn(t)
    BY <1>2 DEF OptionOn
  <1>d. /\ Doomed(p) /\ Doomed(p)'
        /\ request[s] = "none" /\ response[s] = "none" /\ ~serving[p].on
    BY <1>p, <1>i, <1>2, <1>v1, <1>v2
    DEF Good, InOnePlace, Left, Doomed, Direction
  <1>4. Good(s)'
    <2>1. InOnePlace(s)'
      BY <1>p, <1>2, <1>d DEF InOnePlace
    <2>2. Left(s)'
      BY <1>p, <1>2, <1>d, <1>v1, <1>v2 DEF Left, Doomed, Direction
    <2>3. SaysOption(s)'
      BY <1>p, <1>2, <1>d, <1>v1 DEF SaysOption, Direction
    <2>4. Steady(s)'
      BY <1>p, <1>i, <1>2, <1>v2, <1>v4, <1>0 DEF Good, Steady, Offers
    <2>5. Honoured(s)'
      BY <1>1, <1>v1, <1>v3 DEF Honoured
    <2> QED BY <2>1, <2>2, <2>3, <2>4, <2>5 DEF Good
  <1>5. Good(p)'
    BY <1>p, <1>i, <1>2, <1>v1, <1>v2, <1>v3, <1>v4, <1>0, <1>1
    DEF Good, InOnePlace, Left, Doomed, SaysOption, Steady, Honoured, Offers,
        Direction
  <1>6. TracksFollowHold'
    BY <1>p, <1>t, <1>2 DEF HoldInv, TracksFollowHold, HoldTypeOK
  <1> QED BY <1>3, <1>4, <1>5, <1>6, GoodSuffices DEF p

LEMMA OfferFailsKeeps ==
    ASSUME HoldInv, NEW s \in Side, OfferFails(s)
    PROVE  HoldInv'
  <1> DEFINE p == Peer(s)
  <1>p. p \in Side /\ p # s /\ Peer(p) = s /\ Peer(s) = p
    BY PeerOf
  <1>t. HoldTypeOK
    BY DEF HoldInv
  <1>i. Good(s) /\ Good(p)
    BY <1>p DEF HoldInv, Good
  <1> HIDE DEF p
  <1>1. PICK held \in BOOLEAN : held = ~invite[s].hold
    BY <1>t, Types DEF Invites
  <1>2. /\ managed' = [managed EXCEPT ![s].held = held]
        /\ invite' = [invite EXCEPT ![s] = NoInvite]
        /\ strayed' = strayed \cup {s}
        /\ unsent' = unsent \cup {s}
        /\ UNCHANGED <<option, tracks, pc, serving, request, response, used>>
        /\ invite[s].phase \in {"making", "made"}
    BY <1>1 DEF OfferFails
  <1>3. HoldTypeOK'
    <2>1. managed' \in [Side -> Managed]
      BY <1>t, <1>2, Types DEF Managed, Invites
    <2>2. invite' \in [Side -> Invites]
      BY <1>t, <1>2, Types DEF Invites, NoInvite
    <2>3. strayed' \subseteq Side /\ unsent' \subseteq Side
      BY <1>t, <1>2, Types
    <2> QED
      BY <1>t, <1>2, <2>1, <2>2, <2>3
      DEF HoldTypeOK, Managed, Tracks, Connection, Invites, Servings
  <1>v1. managed'[p] = managed[p]
    BY <1>p, <1>t, <1>2, Types DEF Managed
  <1>v2. invite'[s].phase = "none" /\ invite'[p] = invite[p]
    BY <1>p, <1>t, <1>2, Types DEF NoInvite
  <1>v3. \A t \in Side : OptionOn(t)' = OptionOn(t)
    BY <1>2 DEF OptionOn
  <1>4. Good(s)'
    BY <1>p, <1>i, <1>2, <1>v1, <1>v2, <1>v3
    DEF Good, InOnePlace, Left, Doomed, SaysOption, Steady, Honoured, Offers,
        Direction
  <1>5. Good(p)'
    BY <1>p, <1>i, <1>2, <1>v1, <1>v2, <1>v3
    DEF Good, InOnePlace, Left, Doomed, SaysOption, Steady, Honoured, Offers,
        Direction
  <1>6. TracksFollowHold'
    BY <1>p, <1>t, <1>2 DEF HoldInv, TracksFollowHold, HoldTypeOK
  <1> QED BY <1>3, <1>4, <1>5, <1>6, GoodSuffices DEF p

LEMMA OfferSentKeeps ==
    ASSUME HoldInv, NEW s \in Side, OfferSent(s)
    PROVE  HoldInv'
  <1> DEFINE p == Peer(s)
  <1>p. p \in Side /\ p # s /\ Peer(p) = s /\ Peer(s) = p
    BY PeerOf
  <1>t. HoldTypeOK
    BY DEF HoldInv
  <1>i. Good(s) /\ Good(p)
    BY <1>p DEF HoldInv, Good
  <1> HIDE DEF p
  <1>2. /\ invite' = [invite EXCEPT ![s].phase = "sent"]
        /\ request' = [request EXCEPT ![s] = pc[s].direction]
        /\ managed' = [managed EXCEPT ![s].held = managed[s].held]
        /\ tracks' = [tracks EXCEPT ![s] = Enabled(managed'[s])]
        /\ unsent' = unsent \ {s}
        /\ UNCHANGED <<option, pc, serving, response, used, strayed>>
        /\ invite[s].phase = "made" /\ ~serving[s].on
    BY DEF OfferSent, Becomes
  <1>3. HoldTypeOK'
    <2>1. managed' \in [Side -> Managed]
      BY <1>t, <1>2, Types DEF Managed
    <2>2. invite' \in [Side -> Invites]
      BY <1>t, <1>2, Types DEF Invites
    <2>3. tracks' \in [Side -> Tracks]
      BY <1>t, <1>2, <2>1, Types DEF Tracks, Managed, Enabled
    <2>4. request' \in [Side -> Direction \cup {"none"}]
      BY <1>t, <1>2, Types DEF Connection
    <2>5. unsent' \subseteq Side
      BY <1>t, <1>2, Types
    <2> QED
      BY <1>t, <1>2, <2>1, <2>2, <2>3, <2>4, <2>5
      DEF HoldTypeOK, Managed, Tracks, Connection, Invites, Servings
  <1>v1. managed' = managed
    BY <1>p, <1>t, <1>2, Types DEF Managed
  <1>v2. /\ invite'[s].phase = "sent" /\ invite'[s].hold = invite[s].hold
         /\ invite'[s].used = invite[s].used /\ invite'[p] = invite[p]
    BY <1>p, <1>t, <1>2, Types DEF Invites
  <1>v3. request'[s] = pc[s].direction /\ request'[p] = request[p]
    BY <1>p, <1>t, <1>2, Types
  <1>v4. \A t \in Side : OptionOn(t)' = OptionOn(t)
    BY <1>2 DEF OptionOn
  <1>4. Good(s)'
    BY <1>p, <1>i, <1>2, <1>v1, <1>v2, <1>v3, <1>v4
    DEF Good, InOnePlace, Left, Doomed, SaysOption, Steady, Honoured, Offers,
        Direction
  <1>5. Good(p)'
    BY <1>p, <1>i, <1>2, <1>v1, <1>v2, <1>v3, <1>v4
    DEF Good, InOnePlace, Left, Doomed, SaysOption, Steady, Honoured, Offers,
        Direction
  <1>6. TracksFollowHold'
    BY <1>p, <1>t, <1>2, <1>v1, <1>v2, Types
    DEF HoldInv, TracksFollowHold, Managed, Tracks
  <1> QED BY <1>3, <1>4, <1>5, <1>6, GoodSuffices DEF p

LEMMA OfferRefusedKeeps ==
    ASSUME HoldInv, NEW s \in Side, OfferRefused(s)
    PROVE  HoldInv'
  <1> DEFINE p == Peer(s)
  <1>p. p \in Side /\ p # s /\ Peer(p) = s /\ Peer(s) = p
    BY PeerOf
  <1>t. HoldTypeOK
    BY DEF HoldInv
  <1>i. Good(s) /\ Good(p)
    BY <1>p DEF HoldInv, Good
  <1> HIDE DEF p
  <1>2. /\ request' = [request EXCEPT ![p] = "none"]
        /\ response' = [response EXCEPT ![p] = "refused"]
        /\ UNCHANGED <<managed, option, tracks, pc, invite, serving, used,
                       strayed, unsent>>
        /\ request[p] # "none"
    BY DEF OfferRefused, p
  <1>3. HoldTypeOK'
    <2>1. request' \in [Side -> Direction \cup {"none"}]
      BY <1>p, <1>t, <1>2, Types
    <2>2. response' \in [Side -> Direction \cup {"none", "refused"}]
      BY <1>p, <1>t, <1>2, Types
    <2> QED
      BY <1>t, <1>2, <2>1, <2>2
      DEF HoldTypeOK, Managed, Tracks, Connection, Invites, Servings
  <1>v1. /\ request'[p] = "none" /\ request'[s] = request[s]
         /\ response'[p] = "refused" /\ response'[s] = response[s]
    BY <1>p, <1>t, <1>2, Types
  <1>v2. \A t \in Side : OptionOn(t)' = OptionOn(t)
    BY <1>2 DEF OptionOn
  <1>4. Good(s)'
    BY <1>p, <1>i, <1>2, <1>v1, <1>v2
    DEF Good, InOnePlace, Left, Doomed, SaysOption, Steady, Honoured, Offers,
        Direction
  <1>5. Good(p)'
    BY <1>p, <1>i, <1>2, <1>v1, <1>v2
    DEF Good, InOnePlace, Left, Doomed, SaysOption, Steady, Honoured, Offers,
        Direction
  <1>6. TracksFollowHold'
    BY <1>p, <1>t, <1>2 DEF HoldInv, TracksFollowHold, HoldTypeOK
  <1> QED BY <1>3, <1>4, <1>5, <1>6, GoodSuffices DEF p

LEMMA OfferTakenKeeps ==
    ASSUME HoldInv, NEW s \in Side, OfferTaken(s)
    PROVE  HoldInv'
  <1> DEFINE p == Peer(s)
  <1>p. p \in Side /\ p # s /\ Peer(p) = s /\ Peer(s) = p
    BY PeerOf
  <1>t. HoldTypeOK
    BY DEF HoldInv
  <1>i. Good(s) /\ Good(p)
    BY <1>p DEF HoldInv, Good
  <1> HIDE DEF p
  <1>0. PICK on \in BOOLEAN : on = OptionOn(s)
    BY DEF OptionOn
  <1>1. PICK shared \in BOOLEAN : shared = (option[s] # "unset")
    OBVIOUS
  <1>2. /\ request' = [request EXCEPT ![p] = "none"]
        /\ pc' = [pc EXCEPT ![s].signaling = "have-remote-offer",
                           ![s].remote = request[p]]
        /\ serving' = [serving EXCEPT ![s] =
                         [on |-> TRUE, hold |-> on, shared |-> shared]]
        /\ UNCHANGED <<managed, option, tracks, invite, response, used, strayed,
                       unsent>>
        /\ request[p] # "none" /\ invite[s].phase # "sent"
        /\ pc[s].signaling = "stable"
    BY <1>0, <1>1 DEF OfferTaken, p
  <1>3. HoldTypeOK'
    <2>1. request' \in [Side -> Direction \cup {"none"}]
      BY <1>p, <1>t, <1>2, Types
    <2>2. pc' \in [Side -> Connection]
      <3>1. request[p] \in Direction
        BY <1>p, <1>t, <1>2, Types
      <3>2. /\ pc' = [pc EXCEPT ![s].signaling = "have-remote-offer",
                               ![s].remote = request[p]]
            /\ pc \in [Side -> Connection]
        BY <1>t, <1>2, Types
      <3> QED BY <3>1, <3>2 DEF Connection
    <2>3. serving' \in [Side -> Servings]
      BY <1>p, <1>t, <1>1, <1>2, Types DEF Servings
    <2> QED
      BY <1>t, <1>2, <2>1, <2>2, <2>3
      DEF HoldTypeOK, Managed, Tracks, Connection, Invites, Servings
  <1>v1. request'[p] = "none" /\ request'[s] = request[s]
    BY <1>p, <1>t, <1>2, Types
  <1>v2. /\ pc'[s].signaling = "have-remote-offer" /\ pc'[p] = pc[p]
         /\ pc'[s].direction = pc[s].direction
         /\ pc'[s].current = pc[s].current /\ pc'[s].remote = request[p]
    BY <1>p, <1>t, <1>2, Types DEF Connection
  <1>v3. /\ serving'[s] = [on |-> TRUE, hold |-> on, shared |-> shared]
         /\ serving'[p] = serving[p]
    BY <1>p, <1>t, <1>1, <1>2, Types
  <1>v4. \A t \in Side : OptionOn(t)' = OptionOn(t)
    BY <1>2 DEF OptionOn
  <1>4. Good(s)'
    BY <1>p, <1>i, <1>2, <1>v1, <1>v2, <1>v3, <1>v4, <1>0
    DEF Good, InOnePlace, Left, Doomed, SaysOption, Steady, Honoured, Offers,
        Direction
  <1>5. Good(p)'
    BY <1>p, <1>i, <1>2, <1>v1, <1>v2, <1>v3, <1>v4, <1>0
    DEF Good, InOnePlace, Left, Doomed, SaysOption, Steady, Honoured, Offers,
        Direction
  <1>6. TracksFollowHold'
    BY <1>p, <1>t, <1>2 DEF HoldInv, TracksFollowHold, HoldTypeOK
  <1> QED BY <1>3, <1>4, <1>5, <1>6, GoodSuffices DEF p

LEMMA AnswerMadeKeeps ==
    ASSUME HoldInv, NEW s \in Side, AnswerMade(s)
    PROVE  HoldInv'
  <1> DEFINE p == Peer(s)
  <1>p. p \in Side /\ p # s /\ Peer(p) = s /\ Peer(s) = p
    BY PeerOf
  <1>t. HoldTypeOK
    BY DEF HoldInv
  <1>i. Good(s) /\ Good(p)
    BY <1>p DEF HoldInv, Good
  <1> HIDE DEF p
  <1>1. PICK answer \in Direction :
           /\ answer = AnswerDirection(pc[s].remote, serving[s].hold)
           /\ Sends(answer) <=> Receives(pc[s].remote)
           /\ Receives(answer) <=> Sends(pc[s].remote) /\ ~serving[s].hold
    <2>1. pc[s].remote \in Direction /\ serving[s].hold \in BOOLEAN
      BY <1>t, Types DEF Servings, Connection
    <2> QED BY <2>1, AnswersAre
  <1>2. /\ pc' = [pc EXCEPT ![s].signaling = "stable",
                           ![s].direction = answer, ![s].current = answer]
        /\ response' = [response EXCEPT ![p] = answer]
        /\ used' = [used EXCEPT ![s] = serving[s].hold]
        /\ serving' = [serving EXCEPT ![s] = NotServing]
        /\ UNCHANGED <<managed, option, tracks, invite, request, strayed,
                       unsent>>
        /\ serving[s].on
    BY <1>1 DEF AnswerMade, Answered, p
  <1>3. HoldTypeOK'
    <2>1. pc' \in [Side -> Connection]
      <3>1. /\ pc' = [pc EXCEPT ![s].signaling = "stable",
                               ![s].direction = answer, ![s].current = answer]
            /\ answer \in Direction /\ pc \in [Side -> Connection]
        BY <1>t, <1>1, <1>2, Types
      <3> QED BY <3>1 DEF Connection
    <2>2. response' \in [Side -> Direction \cup {"none", "refused"}]
      BY <1>p, <1>t, <1>1, <1>2, Types
    <2>3. used' \in [Side -> BOOLEAN]
      BY <1>t, <1>2, Types DEF Servings
    <2>4. serving' \in [Side -> Servings]
      BY <1>t, <1>2, Types DEF Servings, NotServing
    <2> QED
      BY <1>t, <1>2, <2>1, <2>2, <2>3, <2>4
      DEF HoldTypeOK, Managed, Tracks, Connection, Invites, Servings
  <1>v1. /\ pc'[s].direction = answer /\ pc'[s].current = answer
         /\ pc'[s].signaling = "stable" /\ pc'[p] = pc[p]
    BY <1>p, <1>t, <1>2, Types DEF Connection
  <1>v2. response'[p] = answer /\ response'[s] = response[s]
    BY <1>p, <1>t, <1>2, Types
  <1>v3. used'[s] = serving[s].hold /\ used'[p] = used[p]
    BY <1>p, <1>t, <1>2, Types
  <1>v4. ~serving'[s].on /\ serving'[p] = serving[p]
    BY <1>p, <1>t, <1>2, Types DEF NotServing
  <1>v5. \A t \in Side : OptionOn(t)' = OptionOn(t)
    BY <1>2 DEF OptionOn
  <1>4. Good(s)'
    BY <1>p, <1>i, <1>2, <1>v1, <1>v2, <1>v3, <1>v4, <1>v5, <1>1
    DEF Good, InOnePlace, Left, Doomed, SaysOption, Steady, Honoured, Offers,
        Direction
  <1>5. Good(p)'
    BY <1>p, <1>i, <1>2, <1>v1, <1>v2, <1>v3, <1>v4, <1>v5, <1>1
    DEF Good, InOnePlace, Left, Doomed, SaysOption, Steady, Honoured, Offers,
        Direction
  <1>6. TracksFollowHold'
    BY <1>p, <1>t, <1>2 DEF HoldInv, TracksFollowHold, HoldTypeOK
  <1> QED BY <1>3, <1>4, <1>5, <1>6, GoodSuffices DEF p

LEMMA AnswerFailsKeeps ==
    ASSUME HoldInv, NEW s \in Side, AnswerFails(s)
    PROVE  HoldInv'
  <1> DEFINE p == Peer(s)
  <1>p. p \in Side /\ p # s /\ Peer(p) = s /\ Peer(s) = p
    BY PeerOf
  <1>t. HoldTypeOK
    BY DEF HoldInv
  <1>i. Good(s) /\ Good(p)
    BY <1>p DEF HoldInv, Good
  <1> HIDE DEF p
  <1>2. /\ response' = [response EXCEPT ![p] = "refused"]
        /\ serving' = [serving EXCEPT ![s] = NotServing]
        /\ UNCHANGED <<managed, option, tracks, pc, invite, request, used,
                       strayed, unsent>>
        /\ serving[s].on
    BY DEF AnswerFails, p
  <1>3. HoldTypeOK'
    <2>1. response' \in [Side -> Direction \cup {"none", "refused"}]
      BY <1>p, <1>t, <1>2, Types
    <2>2. serving' \in [Side -> Servings]
      BY <1>t, <1>2, Types DEF Servings, NotServing
    <2> QED
      BY <1>t, <1>2, <2>1, <2>2
      DEF HoldTypeOK, Managed, Tracks, Connection, Invites, Servings
  <1>v1. response'[p] = "refused" /\ response'[s] = response[s]
    BY <1>p, <1>t, <1>2, Types
  <1>v2. ~serving'[s].on /\ serving'[p] = serving[p]
    BY <1>p, <1>t, <1>2, Types DEF NotServing
  <1>v3. \A t \in Side : OptionOn(t)' = OptionOn(t)
    BY <1>2 DEF OptionOn
  <1>4. Good(s)'
    BY <1>p, <1>i, <1>2, <1>v1, <1>v2, <1>v3
    DEF Good, InOnePlace, Left, Doomed, SaysOption, Steady, Honoured, Offers,
        Direction
  <1>5. Good(p)'
    BY <1>p, <1>i, <1>2, <1>v1, <1>v2, <1>v3
    DEF Good, InOnePlace, Left, Doomed, SaysOption, Steady, Honoured, Offers,
        Direction
  <1>6. TracksFollowHold'
    BY <1>p, <1>t, <1>2 DEF HoldInv, TracksFollowHold, HoldTypeOK
  <1> QED BY <1>3, <1>4, <1>5, <1>6, GoodSuffices DEF p

LEMMA AcceptedKeeps ==
    ASSUME HoldInv, NEW s \in Side, HoldAccepted(s)
    PROVE  HoldInv'
  <1> DEFINE p == Peer(s)
  <1>p. p \in Side /\ p # s /\ Peer(p) = s /\ Peer(s) = p
    BY PeerOf
  <1>t. HoldTypeOK
    BY DEF HoldInv
  <1>i. Good(s) /\ Good(p)
    BY <1>p DEF HoldInv, Good
  <1> HIDE DEF p
  <1>1. /\ response[s] \in Direction
        /\ Reversed(response[s]) \in Direction
        /\ Receives(Reversed(response[s])) <=> Sends(response[s])
    BY ReversedAre DEF HoldAccepted
  <1>c. PICK now : now = Reversed(response[s])
    OBVIOUS
  <1>2. /\ pc' = [pc EXCEPT ![s].signaling = "stable", ![s].current = now]
        /\ response' = [response EXCEPT ![s] = "none"]
        /\ used' = [used EXCEPT ![s] = invite[s].used]
        /\ invite' = [invite EXCEPT ![s] = NoInvite]
        /\ strayed' = IF /\ invite[s].hold = invite[s].used
                       /\ invite[s].hold = OptionOn(s)
                    THEN strayed \ {s} ELSE strayed
        /\ managed' = [managed EXCEPT ![s].held = invite[s].hold]
        /\ tracks' = [tracks EXCEPT ![s] = Enabled(managed'[s])]
        /\ unsent' = unsent \ {s}
        /\ UNCHANGED <<option, serving, request>>
    BY <1>1, <1>c DEF HoldAccepted, Becomes
  <1>3. HoldTypeOK'
    <2>1. pc' \in [Side -> Connection]
      <3>1. pc' = [pc EXCEPT ![s].signaling = "stable", ![s].current = now]
        BY <1>2
      <3>2. now \in Direction /\ pc \in [Side -> Connection]
        BY <1>t, <1>1, <1>c, Types
      <3> QED BY <3>1, <3>2 DEF Connection
    <2>2. response' \in [Side -> Direction \cup {"none", "refused"}]
      BY <1>t, <1>2, Types
    <2>3. used' \in [Side -> BOOLEAN]
      BY <1>t, <1>2, Types DEF Invites
    <2>4. invite' \in [Side -> Invites]
      BY <1>t, <1>2, Types DEF Invites, NoInvite
    <2>5. managed' \in [Side -> Managed]
      BY <1>t, <1>2, Types DEF Managed, Invites
    <2>6. tracks' \in [Side -> Tracks]
      <3>1. PICK enabled \in Tracks : enabled = Enabled(managed'[s])
        BY <2>5, EnabledIs
      <3>2. tracks' = [tracks EXCEPT ![s] = enabled]
        BY <1>2, <3>1
      <3>3. tracks \in [Side -> Tracks]
        BY <1>t, Types
      <3> QED BY <3>1, <3>2, <3>3
    <2>7. strayed' \subseteq Side /\ unsent' \subseteq Side
      BY <1>t, <1>2, Types
    <2> QED
      BY <1>t, <1>2, <2>1, <2>2, <2>3, <2>4, <2>5, <2>6, <2>7
      DEF HoldTypeOK, Managed, Tracks, Connection, Invites, Servings
  <1>v1. /\ pc'[s].direction = pc[s].direction /\ pc'[s].current = now
         /\ pc'[s].signaling = "stable" /\ pc'[p] = pc[p]
    BY <1>p, <1>t, <1>1, <1>c, <1>2, Types DEF Connection
  <1>v2. response'[s] = "none" /\ response'[p] = response[p]
    BY <1>p, <1>t, <1>2, Types
  <1>v3. used'[s] = invite[s].used /\ used'[p] = used[p]
    BY <1>p, <1>t, <1>2, Types
  <1>v4. invite'[s].phase = "none" /\ invite'[p] = invite[p]
    BY <1>p, <1>t, <1>2, Types DEF NoInvite
  <1>v5. managed'[s].held = invite[s].hold /\ managed'[p] = managed[p]
    BY <1>p, <1>t, <1>2, Types DEF Managed
  <1>v6. \A t \in Side : OptionOn(t)' = OptionOn(t)
    BY <1>2 DEF OptionOn
  <1>v7. invite[s].phase = "sent" /\ request[s] = "none"
         /\ ~serving[p].on /\ ~serving[s].on
    BY <1>i, <1>p, <1>1, <1>t, Types
    DEF Good, InOnePlace, Direction, Invites, Offers
  <1>4. Good(s)'
    BY <1>p, <1>i, <1>2, <1>v1, <1>v2, <1>v3, <1>v4, <1>v5, <1>v6, <1>v7,
       <1>1, <1>c
    DEF Good, InOnePlace, Left, Doomed, SaysOption, Steady, Honoured, Offers,
        Direction
  <1>5. Good(p)'
    BY <1>p, <1>i, <1>2, <1>v1, <1>v2, <1>v3, <1>v4, <1>v5, <1>v6, <1>v7,
       <1>1, <1>c
    DEF Good, InOnePlace, Left, Doomed, SaysOption, Steady, Honoured, Offers,
        Direction
  <1>6. TracksFollowHold'
    BY <1>p, <1>t, <1>2, <1>3, <1>v4, <1>v5, Types
    DEF HoldInv, TracksFollowHold, Managed, Tracks, Enabled
  <1> QED BY <1>3, <1>4, <1>5, <1>6, GoodSuffices DEF p

LEMMA RejectedKeeps ==
    ASSUME HoldInv, NEW s \in Side, HoldRejected(s)
    PROVE  HoldInv'
  <1> DEFINE p == Peer(s)
  <1>p. p \in Side /\ p # s /\ Peer(p) = s /\ Peer(s) = p
    BY PeerOf
  <1>t. HoldTypeOK
    BY DEF HoldInv
  <1>i. Good(s) /\ Good(p)
    BY <1>p DEF HoldInv, Good
  <1> HIDE DEF p
  <1>1. PICK held \in BOOLEAN : held = ~invite[s].hold
    BY <1>t, Types DEF Invites
  <1>2. /\ response' = [response EXCEPT ![s] = "none"]
        /\ invite' = [invite EXCEPT ![s] = NoInvite]
        /\ strayed' = strayed \cup {s}
        /\ managed' = [managed EXCEPT ![s].held = held]
        /\ tracks' = [tracks EXCEPT ![s] = Enabled(managed'[s])]
        /\ unsent' = unsent \ {s}
        /\ UNCHANGED <<option, pc, serving, request, used>>
        /\ response[s] = "refused"
    BY <1>1 DEF HoldRejected, Becomes
  <1>3. HoldTypeOK'
    <2>1. response' \in [Side -> Direction \cup {"none", "refused"}]
      BY <1>t, <1>2, Types
    <2>2. invite' \in [Side -> Invites]
      BY <1>t, <1>2, Types DEF Invites, NoInvite
    <2>3. managed' \in [Side -> Managed]
      <3>1. managed' = [managed EXCEPT ![s].held = held]
        BY <1>2
      <3>2. managed \in [Side -> Managed] /\ held \in BOOLEAN
        BY <1>t, <1>1, Types
      <3> QED BY <3>1, <3>2 DEF Managed
    <2>4. tracks' \in [Side -> Tracks]
      <3>1. PICK enabled \in Tracks : enabled = Enabled(managed'[s])
        BY <2>3, EnabledIs
      <3>2. tracks' = [tracks EXCEPT ![s] = enabled]
        BY <1>2, <3>1
      <3>3. tracks \in [Side -> Tracks]
        BY <1>t, Types
      <3> QED BY <3>1, <3>2, <3>3
    <2>5. strayed' \subseteq Side /\ unsent' \subseteq Side
      BY <1>t, <1>2, Types
    <2> QED
      BY <1>t, <1>2, <2>1, <2>2, <2>3, <2>4, <2>5
      DEF HoldTypeOK, Managed, Tracks, Connection, Invites, Servings
  <1>v1. response'[s] = "none" /\ response'[p] = response[p]
    BY <1>p, <1>t, <1>2, Types
  <1>v2. invite'[s].phase = "none" /\ invite'[p] = invite[p]
    BY <1>p, <1>t, <1>2, Types DEF NoInvite
  <1>v3. managed'[p] = managed[p]
    BY <1>p, <1>t, <1>2, Types DEF Managed
  <1>v4. \A t \in Side : OptionOn(t)' = OptionOn(t)
    BY <1>2 DEF OptionOn
  <1>v5. invite[s].phase = "sent" /\ request[s] = "none"
         /\ ~serving[p].on /\ ~serving[s].on
    BY <1>i, <1>p, <1>2, <1>t, Types
    DEF Good, InOnePlace, Direction, Invites, Offers
  <1>4. Good(s)'
    BY <1>p, <1>i, <1>2, <1>v1, <1>v2, <1>v3, <1>v4, <1>v5
    DEF Good, InOnePlace, Left, Doomed, SaysOption, Steady, Honoured, Offers,
        Direction
  <1>5. Good(p)'
    BY <1>p, <1>i, <1>2, <1>v1, <1>v2, <1>v3, <1>v4, <1>v5
    DEF Good, InOnePlace, Left, Doomed, SaysOption, Steady, Honoured, Offers,
        Direction
  <1>6. TracksFollowHold'
    BY <1>p, <1>t, <1>2, <1>3, <1>v2, <1>v3, Types
    DEF HoldInv, TracksFollowHold, Managed, Tracks, Enabled
  <1> QED BY <1>3, <1>4, <1>5, <1>6, GoodSuffices DEF p

(* Every step is a step of one side.                                       *)
LEMMA HoldStepInv == HoldInv /\ [HoldNext]_holdVars => HoldInv'
  <1> SUFFICES ASSUME HoldInv, [HoldNext]_holdVars PROVE HoldInv'
    OBVIOUS
  <1>1. CASE UNCHANGED holdVars
    BY <1>1 DEF holdVars, HoldInv, HoldTypeOK, TracksFollowHold, InOnePlace,
       Left, Doomed, SaysOption, Steady, Honoured, Offers, OptionOn
  <1>2. CASE HoldNext
    BY <1>2, SetHoldKeeps, SetHoldPendingKeeps, SetMuteKeeps, OfferMadeKeeps,
       OfferIsAnswerKeeps, OfferFailsKeeps, OfferSentKeeps, OfferRefusedKeeps, OfferTakenKeeps,
       AnswerMadeKeeps, AnswerFailsKeeps, AcceptedKeeps, RejectedKeeps
    DEF HoldNext
  <1> QED BY <1>1, <1>2

LEMMA HoldInvariance == HoldSpec => []HoldInv
  BY HoldInitInv, HoldStepInv, PTL DEF HoldSpec

(* A side whose last negotiation was for a hold receives nothing.          *)
THEOREM HoldsAreHonoured == HoldSpec => []HoldIsHonoured
  <1>1. HoldInv => HoldIsHonoured
    BY DEF HoldInv, Honoured, HoldIsHonoured
  <1> QED BY <1>1, HoldInvariance, PTL

(* Media comes back for both ends, in whatever order they hold and unhold. *)
THEOREM MediaFlowsAgain == HoldSpec => []MediaComesBack
  <1>1. HoldInv => MediaComesBack
    BY DEF HoldInv, Steady, MediaComesBack, Settled
  <1> QED BY <1>1, HoldInvariance, PTL

(* The tracks of a side follow hold and mute once its re-INVITE is over.   *)
THEOREM TracksAreRight == HoldSpec => []TracksFollowHold
  <1>1. HoldInv => TracksFollowHold
    BY DEF HoldInv
  <1> QED BY <1>1, HoldInvariance, PTL
-----------------------------------------------------------------------------
CallRecord == [phase : Phase,
               op : {"none", "offer", "answer", "serve", "reply"},
               device : Device \cup {"any"}, stream : Stream \cup {"none"}]

HandlerInv ==
    /\ calls \in [Caller -> CallRecord]
    /\ waiter \in Caller \cup {"none"}
    /\ OneIsWaitedFor

Gathers(c) == calls[c].phase = "gathering"

(* A caller goes on, but not to wait for ICE.                              *)
LEMMA GoesOnKeeps ==
    ASSUME HandlerInv, NEW c \in Caller, NEW call \in CallRecord,
           calls' = [calls EXCEPT ![c] = call],
           call.phase # "gathering", ~Gathers(c), waiter' = waiter
    PROVE  HandlerInv'
  BY DEF HandlerInv, OneIsWaitedFor, Gathers

LEMMA IdleIsCall == Idle \in CallRecord /\ Idle.phase = "idle"
  BY DEF Idle, CallRecord, Phase

(* A call begins, fails or ends, none of which waits for ICE.              *)
LEMMA BeginKeeps ==
    ASSUME HandlerInv, NEW c \in Caller, ~Gathers(c),
           NEW op \in {"offer", "answer", "serve", "reply"},
           NEW device \in Device \cup {"any"},
           Begin(c, op, device), waiter' = waiter
    PROVE  HandlerInv'
  <1>1. PICK call : call = [phase |-> PhaseAfterMedia(op), op |-> op,
                            device |-> device, stream |-> "none"]
    OBVIOUS
  <1>2. call \in CallRecord /\ call.phase # "gathering"
    BY <1>1 DEF CallRecord, Phase, PhaseAfterMedia
  <1>3. CASE calls' = [calls EXCEPT ![c] = call]
    BY <1>2, <1>3, GoesOnKeeps
  <1>4. ASSUME NEW m \in Stream,
               calls' = [calls EXCEPT ![c] =
                            [call EXCEPT !.phase = "media", !.stream = m]]
        PROVE  HandlerInv'
    <2>1. PICK asks : asks = [call EXCEPT !.phase = "media", !.stream = m]
      OBVIOUS
    <2>2. asks \in CallRecord /\ asks.phase # "gathering"
      BY <1>2, <2>1 DEF CallRecord, Phase
    <2> QED BY <1>4, <2>1, <2>2, GoesOnKeeps
  <1> QED BY <1>1, <1>3, <1>4 DEF Begin

LEMMA CallsKeeps ==
    ASSUME HandlerInv, NEW c \in Caller,
           NEW op \in {"offer", "answer", "serve", "reply"}, Calls(c, op)
    PROVE  HandlerInv'
  BY BeginKeeps DEF Calls, Gathers

LEMMA EndsKeeps ==
    ASSUME HandlerInv, NEW c \in Caller, ~Gathers(c), Ends(c),
           waiter' = waiter
    PROVE  HandlerInv'
  BY GoesOnKeeps, IdleIsCall DEF Ends

LEMMA HasMediaKeeps ==
    ASSUME HandlerInv, NEW c \in Caller, ~Gathers(c), HasMedia(c),
           waiter' = waiter
    PROVE  HandlerInv'
  <1>1. PICK call : call = [calls[c] EXCEPT !.stream = "none",
                               !.phase = PhaseAfterMedia(calls[c].op)]
    OBVIOUS
  <1>2. call \in CallRecord /\ call.phase # "gathering"
    BY <1>1 DEF HandlerInv, CallRecord, Phase, PhaseAfterMedia
  <1>3. calls' = [calls EXCEPT ![c] = call]
    BY <1>1 DEF HasMedia, HandlerInv, CallRecord
  <1> QED BY <1>2, <1>3, GoesOnKeeps

(* A caller is told that its promise is resolved or rejected: the one that *)
(* waits, and nobody waits then.                                           *)
LEMMA GatheringEnds == HandlerInv /\ IceGatheringComplete => HandlerInv'
  <1> SUFFICES ASSUME HandlerInv, IceGatheringComplete PROVE HandlerInv'
    OBVIOUS
  <1>1. CASE waiter = "none"
    BY <1>1 DEF IceGatheringComplete, HandlerInv, OneIsWaitedFor, Caller
  <1>2. CASE waiter # "none"
    <2>1. calls' = [calls EXCEPT ![waiter] = Idle] /\ waiter' = "none"
      BY <1>2 DEF IceGatheringComplete, Resolved, Ends
    <2> QED
      BY <1>2, <2>1, IdleIsCall DEF HandlerInv, OneIsWaitedFor, Caller
  <1> QED BY <1>1, <1>2

LEMMA HandlerInitInv == HandlerInit => HandlerInv
  BY IdleIsCall DEF HandlerInit, HandlerInv, OneIsWaitedFor, Caller

LEMMA HandlerStepInv == HandlerInv /\ [HandlerNext]_handlerVars => HandlerInv'
  <1> SUFFICES ASSUME HandlerInv, [HandlerNext]_handlerVars PROVE HandlerInv'
    OBVIOUS
  <1>0. "invite" \in Caller /\ "onInviteRequest" \in Caller
    BY DEF Caller
  <1>1. CASE GetOffer
    BY <1>0, <1>1, CallsKeeps DEF GetOffer
  <1>2. CASE SetAnswer
    BY <1>0, <1>2, CallsKeeps DEF SetAnswer
  <1>3. CASE SetOffer
    BY <1>0, <1>3, CallsKeeps DEF SetOffer
  <1>4. ASSUME NEW c \in Caller, MediaObtained(c)
        PROVE  HandlerInv'
    <2>1. ~Gathers(c) /\ waiter' = waiter
      BY <1>4 DEF MediaObtained, Gathers, ice
    <2>2. CASE Ends(c)
      BY <2>1, <2>2, EndsKeeps
    <2>3. CASE HasMedia(c)
      BY <2>1, <2>3, HasMediaKeeps
    <2>4. CASE calls' = [calls EXCEPT ![c].phase = "replacing"]
      <3>1. PICK call : call = [calls[c] EXCEPT !.phase = "replacing"]
        OBVIOUS
      <3>2. call \in CallRecord /\ call.phase # "gathering"
        BY <3>1 DEF HandlerInv, CallRecord, Phase
      <3> QED BY <2>1, <2>4, <3>1, <3>2, GoesOnKeeps
    <2> QED BY <1>4, <2>2, <2>3, <2>4 DEF MediaObtained
  <1>5. ASSUME NEW c \in Caller, MediaFails(c)
        PROVE  HandlerInv'
    BY <1>5, EndsKeeps DEF MediaFails, Gathers, ice
  <1>6. ASSUME NEW c \in Caller, TrackReplaced(c)
        PROVE  HandlerInv'
    BY <1>6, EndsKeeps, HasMediaKeeps DEF TrackReplaced, Gathers, ice
  <1>7. ASSUME NEW c \in Caller, RemoteSet(c)
        PROVE  HandlerInv'
    <2>1. calls[c].device \in Device \cup {"any"}
      BY DEF HandlerInv, CallRecord
    <2> QED
      BY <1>7, <2>1, EndsKeeps, BeginKeeps DEF RemoteSet, Gathers, ice
  <1>8. ASSUME NEW c \in Caller, Describes(c)
        PROVE  HandlerInv'
    <2>1. PICK phase \in {"offering", "answering"} :
             calls' = [calls EXCEPT ![c].phase = phase]
      BY <1>8 DEF Describes
    <2>2. PICK call : call = [calls[c] EXCEPT !.phase = phase]
      OBVIOUS
    <2>3. call \in CallRecord /\ call.phase # "gathering"
      BY <2>2 DEF HandlerInv, CallRecord, Phase
    <2> QED
      BY <1>8, <2>1, <2>2, <2>3, GoesOnKeeps DEF Describes, Gathers, ice
  <1>9. ASSUME NEW c \in Caller, LocalSet(c)
        PROVE  HandlerInv'
    <2>1. ~Gathers(c)
      BY <1>9 DEF LocalSet, Gathers
    <2>2. CASE Resolved(c) /\ waiter' = waiter
      BY <2>1, <2>2, EndsKeeps DEF Resolved
    <2>3. CASE Waits(c)
      <3>1. PICK call : call = [calls[c] EXCEPT !.phase = "gathering"]
        OBVIOUS
      <3>2. call \in CallRecord /\ call.phase = "gathering"
        BY <3>1 DEF HandlerInv, CallRecord, Phase
      <3>3. \A d \in Caller : calls'[d] = IF d = c THEN call
                                          ELSE IF d = waiter THEN Idle
                                          ELSE calls[d]
        BY <2>3, <3>1 DEF Waits
      <3>4. waiter' = c /\ calls' \in [Caller -> CallRecord]
        BY <2>3, <3>1, <3>2, IdleIsCall DEF Waits, HandlerInv
      <3> QED
        BY <3>2, <3>3, <3>4, IdleIsCall DEF HandlerInv, OneIsWaitedFor
    <2> QED BY <1>9, <2>2, <2>3 DEF LocalSet, ice
  <1>10. ASSUME NEW c \in Caller, DescriptionFails(c)
         PROVE  HandlerInv'
    BY <1>10, EndsKeeps DEF DescriptionFails, Gathers, ice
  <1>11. CASE IceGatheringComplete
    BY <1>11, GatheringEnds
  <1>12. CASE Close \/ UNCHANGED handlerVars
    BY <1>12 DEF Close, ice, handlerVars, HandlerInv, OneIsWaitedFor
  <1> QED
    BY <1>1, <1>2, <1>3, <1>4, <1>5, <1>6, <1>7, <1>8, <1>9, <1>10, <1>11,
       <1>12
    DEF HandlerNext, GatheringCompletes, EnoughGathered, GatheringTimeout,
        StrayTimeout

(* However the two callers overlap, and whatever is closed or times out    *)
(* meanwhile, iceGatheringComplete tells the one that waits (session-      *)
(* description-handler.ts, waitForIceGatheringComplete).                   *)
THEOREM WaitersAreTold == HandlerSpec => []OneIsWaitedFor
  <1>1. HandlerInv => OneIsWaitedFor
    BY DEF HandlerInv
  <1> QED
    BY <1>1, HandlerInitInv, HandlerStepInv, PTL DEF HandlerSpec
-----------------------------------------------------------------------------
RegistererRecord ==
    [state : Registerers!State, waiting : BOOLEAN, disposed : BOOLEAN,
     refresh : BOOLEAN, expiry : BOOLEAN, request : Registerers!Request,
     closing : Registerers!Closing, threw : BOOLEAN, dropped : BOOLEAN]

ChainRecord == [attempt : 0..MaxAttempts, dialing : BOOLEAN]

(* Nobody has disposed of the Registerer, ...                              *)
Usable(r) ==
    /\ r \in RegistererRecord
    /\ r.state # "Terminated"
    /\ ~r.disposed
    /\ r.closing = "no"
    /\ ~r.threw

(* ... and it waits for an answer, if not for nothing at all.              *)
InUse(r) ==
    /\ Usable(r)
    /\ r.waiting => r.request # "none" \/ r.dropped

(* The Registerer of the manager is in use, and an attempt to register     *)
(* comes to an end, for it does not throw.                                 *)
CurrentIsInUse ==
    /\ regs = [i \in Id |-> regs[i]]
    /\ current # "none" => current \in Id /\ InUse(regs[current])
    /\ attempt \in Attempt \ {"stuck"}
    /\ wanted.registered /\ conn = "Connected" => current # "none"

(* The transport is up while something needs it, and a stop() that waits   *)
(* for it to disconnect is not left behind.                                *)
ConnectionFits ==
    /\ conn \in Conn
    /\ agent.state = "Stopped" => conn = "Disconnected"
    /\ agent.stop = "disconnecting" => conn = "Disconnecting"
    /\ ping # "off" => conn = "Connected"

USE DEF ChainRecord

ManagerTyped ==
    /\ wanted \in [connected : BOOLEAN, registered : BOOLEAN]
    /\ agent \in [state : {"Started", "Stopped"},
                  stop : {"no", "disposing", "disconnecting"},
                  awaits : Id \cup {"none"}]
    /\ chains \in [Chain -> ChainRecord]

ManagerInv ==
    /\ ManagerTyped
    /\ CurrentIsInUse
    /\ ConnectionFits
    /\ RegistrationIsPursued
    /\ ConnectionIsPursued

LEMMA InitManagerInv == Init => ManagerInv
  <1> SUFFICES ASSUME Init PROVE ManagerInv
    OBVIOUS
  <1>1. ManagerTyped
    BY ManagerAssumption DEF Init, ManagerTyped, NoChain
  <1>2. CurrentIsInUse
    BY DEF Init, CurrentIsInUse, Attempt, Registerers!Init
  <1>3. ConnectionFits
    BY DEF Init, ConnectionFits, Conn
  <1> QED
    BY <1>1, <1>2, <1>3
    DEF Init, ManagerInv, RegistrationIsPursued, ConnectionIsPursued
-----------------------------------------------------------------------------
(* What a Registerer in use becomes.  It has a registration or waits, ...  *)
Busy(r) == r.state = "Registered" \/ r.request # "none" \/ r.dropped

(* ... or it has become Unregistered, which the manager hears of.          *)
Heeded(r) == InUse(r) /\ (Busy(r) \/ r.state = "Unregistered")

(* What the operations of a Registerer make of one that is in use: none of *)
(* them ends it, for nobody has disposed of it.                            *)
LEMMA NewIsInUse == InUse(Registerers!NewRegisterer)
  BY DEF InUse, Usable, RegistererRecord, Registerers!NewRegisterer,
     Registerers!State, Registerers!Request, Registerers!Closing

LEMMA AsksIs ==
    ASSUME NEW r, Usable(r), NEW kind \in {"register", "unregister"}
    PROVE  /\ InUse(Registerers!Asks(r, kind))
           /\ Registerers!Asks(r, kind).request = kind
  BY DEF InUse, Usable, RegistererRecord, Registerers!Asks, Registerers!Request

LEMMA UnregisterIs ==
    ASSUME NEW r, Usable(r)
    PROVE  /\ InUse(Registerers!Unregister(r))
           /\ Registerers!Unregister(r).request = "unregister"
  <1>1. Usable([r EXCEPT !.refresh = FALSE])
    BY DEF Usable, RegistererRecord
  <1> QED BY <1>1, AsksIs DEF Registerers!Unregister

LEMMA ToggledIs ==
    ASSUME NEW r, Usable(r)
    PROVE  /\ InUse(Registerers!Toggled(r))
           /\ Registerers!Toggled(r) = [r EXCEPT !.waiting = FALSE]
  BY DEF InUse, Usable, RegistererRecord, Registerers!Toggled

LEMMA EntersIs ==
    ASSUME NEW r, Usable(r), NEW s \in {"Registered", "Unregistered"}
    PROVE  /\ Usable(Registerers!Enter(r, s))
           /\ InUse(r) => InUse(Registerers!Enter(r, s))
           /\ Registerers!Enter(r, s).state = s
  BY DEF InUse, Usable, RegistererRecord, Registerers!Enter, Registerers!State

LEMMA AnsweredIsUsable ==
    ASSUME NEW r, Usable(r)
    PROVE  /\ Usable([r EXCEPT !.request = "none"])
           /\ [r EXCEPT !.request = "none"].state = r.state
  BY DEF Usable, RegistererRecord, Registerers!Request

(* A Registerer that the handler of a 2xx leaves waiting.                  *)
LEMMA DroppedIs ==
    ASSUME NEW r, Usable(r)
    PROVE  Heeded([r EXCEPT !.dropped = TRUE])
  BY DEF Heeded, Busy, InUse, Usable, RegistererRecord

LEMMA AcceptedIs ==
    ASSUME NEW r, Usable(r)
    PROVE  Heeded(Registerers!Toggled(Registerers!Registered(r)))
  <1>1. PICK e : e = Registerers!Registered(r)
    OBVIOUS
  <1>2. Usable([r EXCEPT !.refresh = TRUE, !.expiry = TRUE])
    BY DEF Usable, RegistererRecord
  <1>3. Usable(e) /\ e.state = "Registered"
    BY <1>1, <1>2, EntersIs DEF Registerers!Registered
  <1>4. /\ InUse(Registerers!Toggled(e))
        /\ Registerers!Toggled(e).state = "Registered"
    BY <1>3, ToggledIs DEF Usable, RegistererRecord
  <1> QED BY <1>1, <1>4 DEF Heeded, Busy

LEMMA UnregisteredIs ==
    ASSUME NEW r, Usable(r)
    PROVE  /\ Usable(Registerers!Unregistered(r))
           /\ InUse(r) => Heeded(Registerers!Unregistered(r))
           /\ Heeded(Registerers!Toggled(Registerers!Unregistered(r)))
  <1>1. PICK e : e = Registerers!Unregistered(r)
    OBVIOUS
  <1>2. /\ Usable(Registerers!ClearTimers(r))
        /\ InUse(r) => InUse(Registerers!ClearTimers(r))
    BY DEF InUse, Usable, RegistererRecord, Registerers!ClearTimers
  <1>3. /\ Usable(e) /\ e.state = "Unregistered"
        /\ InUse(r) => InUse(e)
    BY <1>1, <1>2, EntersIs DEF Registerers!Unregistered
  <1>4. /\ InUse(Registerers!Toggled(e))
        /\ Registerers!Toggled(e).state = "Unregistered"
    BY <1>3, ToggledIs DEF Usable, RegistererRecord
  <1> QED BY <1>1, <1>3, <1>4 DEF Heeded

(* A refresh: a Registerer in use that does not send it waits already.     *)
LEMMA RegistersAgain ==
    ASSUME NEW r, InUse(r)
    PROVE  Heeded(IF Registerers!MayRegister(r)
                  THEN Registerers!Asks(r, "register") ELSE r)
  <1>1. CASE Registerers!MayRegister(r)
    BY <1>1, AsksIs DEF Heeded, Busy, InUse
  <1>2. CASE ~Registerers!MayRegister(r)
    BY <1>2 DEF Heeded, Busy, InUse, Usable, Registerers!MayRegister
  <1> QED BY <1>1, <1>2

(* A 423: a Registerer in use repeats its request.                         *)
LEMMA TooBriefIs ==
    ASSUME NEW i \in Id, Registerers!IntervalTooBrief(i)
    PROVE  \E r : /\ regs' = [regs EXCEPT ![i] = r]
                  /\ InUse(regs[i]) => InUse(r) /\ Busy(r)
  <1>1. PICK a : a = Registerers!Toggled(Registerers!Answered(i))
    OBVIOUS
  <1>2. PICK r : r = IF Registerers!MayRegister(a)
                     THEN Registerers!Asks(a, "register") ELSE a
    OBVIOUS
  <1>3. regs' = [regs EXCEPT ![i] = r]
    BY <1>1, <1>2 DEF Registerers!IntervalTooBrief, Registerers!Becomes
  <1>4. ASSUME InUse(regs[i]) PROVE InUse(r) /\ Busy(r)
    <2>1. Usable(Registerers!Answered(i))
      BY <1>4, AnsweredIsUsable DEF InUse, Registerers!Answered
    <2>2. InUse(a) /\ ~a.waiting
      BY <1>1, <2>1, ToggledIs DEF Usable, RegistererRecord
    <2>3. Registerers!MayRegister(a)
      BY <2>2 DEF InUse, Usable, Registerers!MayRegister
    <2> QED BY <1>2, <2>2, <2>3, AsksIs DEF InUse, Busy
  <1> QED BY <1>3, <1>4

RegistererActs(i) ==
    \/ Registerers!Accepted(i)
    \/ Registerers!AcceptedWithoutContact(i)
    \/ Registerers!AcceptedUnparsable(i)
    \/ Registerers!Refused(i)
    \/ Registerers!UnregisterAnswered(i)
    \/ Registerers!Timer(i)

(* An answer or a timer: a Registerer in use has a registration, waits, or *)
(* has become Unregistered.                                                *)
LEMMA RegistererActsKeep ==
    ASSUME NEW i \in Id, RegistererActs(i)
    PROVE  \E r : /\ regs' = [regs EXCEPT ![i] = r]
                  /\ InUse(regs[i]) => Heeded(r)
  <1> USE DEF Registerers!Becomes
  <1>0. PICK a : a = Registerers!Answered(i)
    OBVIOUS
  <1>a. InUse(regs[i]) => Usable(a)
    BY <1>0, AnsweredIsUsable DEF InUse, Registerers!Answered
  <1>1. CASE Registerers!Accepted(i)
    BY <1>0, <1>a, <1>1, AcceptedIs DEF Registerers!Accepted
  <1>2. CASE Registerers!AcceptedWithoutContact(i)
    BY <1>0, <1>a, <1>2, UnregisteredIs, DroppedIs
    DEF Registerers!AcceptedWithoutContact
  <1>3. CASE Registerers!Refused(i) \/ Registerers!UnregisterAnswered(i)
    BY <1>0, <1>a, <1>3, UnregisteredIs
    DEF Registerers!Refused, Registerers!UnregisterAnswered
  <1>4. CASE Registerers!AcceptedUnparsable(i)
    BY <1>0, <1>a, <1>4, DroppedIs DEF Registerers!AcceptedUnparsable
  <1>5. CASE Registerers!RefreshTimer(i)
    <2>1. PICK e : e = [regs[i] EXCEPT !.refresh = FALSE]
      OBVIOUS
    <2>2. InUse(regs[i]) => InUse(e)
      BY <2>1 DEF InUse, Usable, RegistererRecord
    <2> QED
      BY <1>5, <2>1, <2>2, RegistersAgain DEF Registerers!RefreshTimer
  <1>6. CASE Registerers!ExpiryTimer(i)
    BY <1>6, UnregisteredIs DEF InUse, Registerers!ExpiryTimer
  <1> QED
    BY <1>1, <1>2, <1>3, <1>4, <1>5, <1>6 DEF RegistererActs, Registerers!Timer
-----------------------------------------------------------------------------
(* The steps of the manager                                                *)

(* An attempt that is scheduled when registered is what it should be.      *)
LEMMA ScheduledIs ==
    ASSUME CurrentIsInUse, Scheduled("later") = attempt'
    PROVE  /\ attempt' \in Attempt \ {"stuck"}
           /\ wanted.registered => attempt' \in {"now", "later", "guarded"}
           /\ attempt \in {"now", "later", "guarded"} => attempt' = attempt
  BY DEF CurrentIsInUse, Scheduled, Attempt

(* ... which the manager follows up: it schedules an attempt, or leaves it *)
(* to the application.                                                     *)
LEMMA AfterKeeps ==
    ASSUME ManagerInv, NEW i \in Id, NEW retries, RegistererActs(i),
           After(i, retries)
    PROVE  ManagerInv'
  <1>1. PICK r : /\ regs' = [regs EXCEPT ![i] = r]
                 /\ InUse(regs[i]) => Heeded(r)
    BY RegistererActsKeep
  <1>2. PICK heard : heard <=> Falls(i) \/ retries
    OBVIOUS
  <1>3. /\ attempt' = IF heard THEN Scheduled("later") ELSE attempt
        /\ gaveUp' = IF i = current /\ ~heard /\ regs'[i].state = "Unregistered"
                     THEN gaveUp \cup {"registration"} ELSE gaveUp
        /\ UNCHANGED <<wanted, agent, conn, chains, ping, current>>
    BY <1>2 DEF After
  <1>4. /\ attempt' \in Attempt \ {"stuck"}
        /\ heard /\ wanted.registered =>
              attempt' \in {"now", "later", "guarded"}
        /\ attempt \in {"now", "later", "guarded"} => attempt' = attempt
    BY <1>3, ScheduledIs DEF ManagerInv, CurrentIsInUse
  <1>5. /\ regs = [j \in Id |-> regs[j]]
        /\ current # "none" => current \in Id /\ InUse(regs[current])
    BY DEF ManagerInv, CurrentIsInUse
  <1>6. /\ regs' = [j \in Id |-> regs'[j]]
        /\ regs'[i] = r /\ \A j \in Id \ {i} : regs'[j] = regs[j]
    BY <1>1, <1>5
  <1>7. current # "none" =>
           /\ current \in Id /\ InUse(regs'[current])
           /\ i # current => regs'[current] = regs[current]
           /\ i = current => Heeded(regs'[current])
    BY <1>1, <1>5, <1>6 DEF Heeded
  <1>8. CurrentIsInUse'
    BY <1>3, <1>4, <1>6, <1>7 DEF ManagerInv, CurrentIsInUse
  <1>9. RegistrationIsPursued'
    <2> SUFFICES ASSUME wanted.registered, conn = "Connected",
                        agent.stop = "no",
                        "registration" \notin gaveUp',
                        attempt' \notin {"now", "later", "guarded"}
                 PROVE  Busy(regs'[current])
      BY <1>3, <1>8
      DEF RegistrationIsPursued, Busy, CurrentIsInUse
    <2>1. current # "none" /\ ~heard
      BY <1>4 DEF ManagerInv, CurrentIsInUse
    <2>2. /\ "registration" \notin gaveUp
          /\ attempt \notin {"now", "later", "guarded"}
          /\ i = current => regs'[i].state # "Unregistered"
      BY <1>3, <1>4, <2>1
    <2>3. Busy(regs[current])
      BY <2>1, <2>2
      DEF ManagerInv, RegistrationIsPursued, Busy
    <2> QED BY <1>7, <2>1, <2>2, <2>3 DEF Heeded
  <1>10. ConnectionIsPursued'
    BY <1>3 DEF ManagerInv, ConnectionIsPursued
  <1> QED
    BY <1>3, <1>8, <1>9, <1>10 DEF ManagerInv, ManagerTyped, ConnectionFits

LEMMA IntervalTooBriefKeeps ==
    ASSUME ManagerInv, NEW i \in Id, IntervalTooBrief(i)
    PROVE  ManagerInv'
  <1>1. PICK r : /\ regs' = [regs EXCEPT ![i] = r]
                 /\ InUse(regs[i]) => InUse(r) /\ Busy(r)
    BY TooBriefIs DEF IntervalTooBrief
  <1>2. UNCHANGED <<wanted, agent, conn, chains, ping, current, attempt,
                    gaveUp>>
    BY DEF IntervalTooBrief
  <1>3. /\ regs = [j \in Id |-> regs[j]]
        /\ current # "none" => current \in Id /\ InUse(regs[current])
    BY DEF ManagerInv, CurrentIsInUse
  <1>4. /\ regs' = [j \in Id |-> regs'[j]]
        /\ regs'[i] = r /\ \A j \in Id \ {i} : regs'[j] = regs[j]
    BY <1>1, <1>3
  <1>5. current # "none" =>
           /\ current \in Id /\ InUse(regs'[current])
           /\ regs'[current] = regs[current] \/ Busy(regs'[current])
    BY <1>1, <1>3, <1>4
  <1>6. CurrentIsInUse'
    BY <1>2, <1>4, <1>5 DEF ManagerInv, CurrentIsInUse
  <1>7. RegistrationIsPursued'
    BY <1>2, <1>5 DEF ManagerInv, RegistrationIsPursued, Busy
  <1> QED
    BY <1>2, <1>6, <1>7
    DEF ManagerInv, ManagerTyped, ConnectionFits, ConnectionIsPursued

(* register() and onConnect: there is a Registerer, and an attempt.        *)
LEMMA RegistersKeeps ==
    ASSUME CurrentIsInUse, Registers
    PROVE  /\ regs' = [i \in Id |-> regs'[i]]
           /\ current' \in Id /\ InUse(regs'[current'])
           /\ attempt' \in {"now", "later", "guarded"}
           /\ "connection" \in gaveUp' <=> "connection" \in gaveUp
  <1>1. /\ attempt' \in {"now", "later", "guarded"}
        /\ "connection" \in gaveUp' <=> "connection" \in gaveUp
    BY DEF CurrentIsInUse, Registers, Attempt
  <1>2. CASE current # "none"
    BY <1>1, <1>2 DEF CurrentIsInUse, Registers
  <1>3. CASE current = "none"
    <2>1. PICK fresh : fresh = CHOOSE i \in Id : Spent(i)
      OBVIOUS
    <2>2. fresh \in Id
      <3>1. \E i \in Id : Spent(i)
        BY <1>3 DEF Registers
      <3> HIDE DEF Spent
      <3> QED BY <2>1, <3>1
    <2>3. /\ current' = fresh
          /\ regs' = [regs EXCEPT ![fresh] = Registerers!NewRegisterer]
      BY <1>3, <2>1 DEF Registers
    <2>4. /\ regs' = [i \in Id |-> regs'[i]]
          /\ regs'[fresh] = Registerers!NewRegisterer
      BY <2>2, <2>3 DEF CurrentIsInUse
    <2> QED BY <1>1, <2>2, <2>3, <2>4, NewIsInUse
  <1> QED BY <1>2, <1>3

LEMMA RegisterKeeps ==
    ASSUME ManagerInv, Register
    PROVE  ManagerInv'
  <1>1. /\ regs' = [i \in Id |-> regs'[i]]
        /\ current' \in Id /\ InUse(regs'[current'])
        /\ attempt' \in {"now", "later", "guarded"}
        /\ "connection" \in gaveUp' <=> "connection" \in gaveUp
    BY RegistersKeeps DEF ManagerInv, Register
  <1>2. /\ wanted' = [wanted EXCEPT !.registered = TRUE]
        /\ UNCHANGED <<agent, conn, chains, ping>>
    BY DEF Register
  <1>3. ManagerTyped' /\ wanted'.connected = wanted.connected
    BY <1>2 DEF ManagerInv, ManagerTyped
  <1>4. CurrentIsInUse'
    BY <1>1, ManagerAssumption DEF CurrentIsInUse, Attempt
  <1>5. ConnectionFits'
    BY <1>2 DEF ManagerInv, ConnectionFits
  <1>6. RegistrationIsPursued' /\ ConnectionIsPursued'
    BY <1>1, <1>2, <1>3
    DEF ManagerInv, RegistrationIsPursued, ConnectionIsPursued
  <1> QED BY <1>3, <1>4, <1>5, <1>6 DEF ManagerInv

LEMMA UnregisterKeeps ==
    ASSUME ManagerInv, Unregister
    PROVE  ManagerInv'
  <1>1. /\ wanted' = [wanted EXCEPT !.registered = FALSE]
        /\ UNCHANGED <<agent, conn, chains, ping, current, attempt, gaveUp>>
    BY DEF Unregister
  <1>2. /\ ManagerTyped' /\ wanted'.connected = wanted.connected
        /\ ~wanted'.registered
    BY <1>1 DEF ManagerInv, ManagerTyped
  <1>3. /\ regs' = [i \in Id |-> regs'[i]]
        /\ current # "none" => InUse(regs'[current])
    <2>1. CASE UNCHANGED regs
      BY <2>1 DEF ManagerInv, CurrentIsInUse
    <2>2. CASE current # "none" /\ Registerers!UnregisterByUser(current)
      <3>1. PICK r : r = Registerers!Unregister(regs[current])
        OBVIOUS
      <3>2. /\ regs' = [regs EXCEPT ![current] = r]
            /\ current \in Id /\ InUse(r)
            /\ regs = [i \in Id |-> regs[i]]
        BY <2>2, <3>1, UnregisterIs
        DEF ManagerInv, CurrentIsInUse, InUse, Registerers!UnregisterByUser,
            Registerers!Becomes
      <3> QED BY <3>2
    <2> QED BY <2>1, <2>2 DEF Unregister
  <1>4. CurrentIsInUse'
    BY <1>1, <1>2, <1>3 DEF ManagerInv, CurrentIsInUse
  <1> QED
    BY <1>1, <1>2, <1>4
    DEF ManagerInv, ConnectionFits, RegistrationIsPursued, ConnectionIsPursued

(* An attempt to register ends with a REGISTER, or finds that one waits.   *)
LEMMA SendsRegisterKeeps ==
    ASSUME ManagerInv, current # "none", NEW thrown, SendsRegister(thrown)
    PROVE  /\ regs' = [i \in Id |-> regs'[i]]
           /\ InUse(regs'[current]) /\ Busy(regs'[current])
           /\ attempt' = "none"
  <1>1. /\ current \in Id /\ InUse(regs[current])
        /\ regs = [i \in Id |-> regs[i]]
    BY DEF ManagerInv, CurrentIsInUse
  <1>2. CASE Registerers!MayRegister(regs[current])
    <2>1. PICK r : r = Registerers!Asks(regs[current], "register")
      OBVIOUS
    <2>2. /\ regs' = [regs EXCEPT ![current] = r] /\ attempt' = "none"
          /\ InUse(r) /\ r.request = "register"
      BY <1>1, <1>2, <2>1, AsksIs
      DEF InUse, SendsRegister, Registerers!Register, Registerers!Becomes
    <2> QED BY <1>1, <2>2 DEF Busy
  <1>3. CASE ~Registerers!MayRegister(regs[current])
    <2>1. regs[current].waiting /\ ~regs[current].disposed
      BY <1>1, <1>3 DEF InUse, Usable, Registerers!MayRegister
    <2> QED BY <1>1, <1>3, <2>1 DEF InUse, SendsRegister, Busy
  <1> QED BY <1>2, <1>3

(* A timer that finds no Registerer or no connection had nothing to do.    *)
LEMMA AttemptKeeps ==
    ASSUME ManagerInv, AttemptTimer \/ GuardPasses \/ GuardHalts
    PROVE  ManagerInv'
  <1>1. /\ UNCHANGED <<wanted, agent, conn, chains, ping, current>>
        /\ "connection" \in gaveUp' <=> "connection" \in gaveUp
        /\ "registration" \in gaveUp => "registration" \in gaveUp'
    BY DEF AttemptTimer, GuardPasses, GuardHalts
  <1>2. \/ /\ attempt' = "none" /\ UNCHANGED regs
           /\ \/ current = "none" \/ conn # "Connected"
              \/ agent.state = "Stopped"
        \/ attempt' = "none" /\ UNCHANGED regs /\ "registration" \in gaveUp'
        \/ attempt' = "guarded" /\ UNCHANGED regs
        \/ current # "none" /\ \E thrown : SendsRegister(thrown)
    BY DEF AttemptTimer, GuardPasses, GuardHalts
  <1>3. /\ CurrentIsInUse'
        /\ \/ conn # "Connected" \/ ~wanted.registered
           \/ "registration" \in gaveUp'
           \/ attempt' = "guarded"
           \/ current # "none" /\ Busy(regs'[current])
    <2>1. CASE \E thrown : current # "none" /\ SendsRegister(thrown)
      <3>1. /\ regs' = [i \in Id |-> regs'[i]]
            /\ InUse(regs'[current]) /\ Busy(regs'[current])
            /\ attempt' = "none"
        BY <2>1, SendsRegisterKeeps
      <3> QED
        BY <1>1, <2>1, <3>1 DEF ManagerInv, CurrentIsInUse, Attempt
    <2>2. CASE UNCHANGED regs /\ attempt' \in {"none", "guarded"}
      <3>1. CurrentIsInUse'
        BY <1>1, <2>2 DEF ManagerInv, CurrentIsInUse, Attempt
      <3>2. /\ conn = "Connected" /\ wanted.registered => current # "none"
            /\ conn = "Connected" => agent.state # "Stopped"
        BY DEF ManagerInv, CurrentIsInUse, ConnectionFits
      <3> QED BY <1>2, <2>2, <3>1, <3>2, SendsRegisterKeeps
    <2> QED BY <1>2, <2>1, <2>2
  <1>4. RegistrationIsPursued'
    BY <1>1, <1>3
    DEF RegistrationIsPursued, Busy
  <1>5. ConnectionIsPursued'
    BY <1>1 DEF ManagerInv, ConnectionIsPursued
  <1> QED
    BY <1>1, <1>3, <1>4, <1>5 DEF ManagerInv, ManagerTyped, ConnectionFits

(* An attempt below the limit is followed by another.                      *)
LEMMA NextAttemptIs ==
    ASSUME NEW n \in 0..MaxAttempts
    PROVE  /\ NextAttempt(n) \in ChainRecord
           /\ wanted.connected /\ n < MaxAttempts => NextAttempt(n).attempt > 0
  BY ManagerAssumption DEF NextAttempt, NoChain

LEMMA DialsIs ==
    ASSUME ConnectionFits, Dials
    PROVE  /\ conn' \in {"Connecting", "Connected"}
           /\ conn' = "Connected" <=> conn = "Connected"
  BY DEF ConnectionFits, Conn, Dials

(* A stop() that waits for the transport is aborted while the transport is *)
(* on its way down, so that nothing is registered yet.                     *)
LEMMA ConnectKeeps ==
    ASSUME ManagerInv, Connect
    PROVE  ManagerInv'
  <1>1. PICK stop : stop = IF agent.stop = "disconnecting" THEN "no"
                           ELSE agent.stop
    OBVIOUS
  <1>2. /\ wanted' = [wanted EXCEPT !.connected = TRUE]
        /\ agent' = [agent EXCEPT !.state = "Started", !.stop = stop]
        /\ UNCHANGED <<regs, chains, ping, current, attempt>>
        /\ "registration" \in gaveUp => "registration" \in gaveUp'
    BY <1>1 DEF Connect
  <1>3. /\ conn' \in {"Connecting", "Connected"}
        /\ conn' = "Connected" <=> conn = "Connected"
    BY DialsIs DEF Connect, ManagerInv
  <1>4. /\ ManagerTyped'
        /\ wanted'.registered = wanted.registered
        /\ agent'.state = "Started" /\ agent'.stop = stop
    BY <1>1, <1>2 DEF ManagerInv, ManagerTyped
  <1>5. CurrentIsInUse'
    BY <1>2, <1>3, <1>4 DEF ManagerInv, CurrentIsInUse
  <1>6. ConnectionFits'
    BY <1>1, <1>2, <1>3, <1>4 DEF ManagerInv, ConnectionFits, Conn
  <1>7. RegistrationIsPursued'
    BY <1>1, <1>2, <1>3, <1>4
    DEF ManagerInv, ConnectionFits, RegistrationIsPursued
  <1>8. ConnectionIsPursued'
    BY <1>3 DEF ConnectionIsPursued
  <1> QED BY <1>4, <1>5, <1>6, <1>7, <1>8 DEF ManagerInv

(* An attempt aborts, fails at once or dials.                              *)
LEMMA ChainTimerKeeps ==
    ASSUME ManagerInv, NEW c \in Chain, ChainTimer(c)
    PROVE  ManagerInv'
  <1>1. PICK stop : stop = IF agent.stop = "disconnecting" THEN "no"
                           ELSE agent.stop
    OBVIOUS
  <1>2. PICK chain \in ChainRecord :
           chains' = [chains EXCEPT ![c] = chain]
    <2>1. chains[c] \in ChainRecord
      BY DEF ManagerInv, ManagerTyped
    <2>2. NoChain \in ChainRecord
      BY ManagerAssumption DEF NoChain
    <2>3. [chains[c] EXCEPT !.dialing = TRUE]
             \in ChainRecord
      BY <2>1
    <2>4. NextAttempt(chains[c].attempt)
             \in ChainRecord
      BY <2>1, NextAttemptIs
    <2> QED BY <2>1, <2>2, <2>3, <2>4 DEF ChainTimer
  <1>3. UNCHANGED <<regs, wanted, ping, current, attempt>>
    BY DEF ChainTimer
  <1>4. \/ /\ UNCHANGED <<agent, conn, gaveUp>>
           /\ ~wanted.connected \/ agent.state = "Stopped"
        \/ /\ Dials
           /\ agent' = [agent EXCEPT !.stop = stop]
           /\ agent.state # "Stopped"
           /\ "registration" \in gaveUp => "registration" \in gaveUp'
    BY <1>1 DEF ChainTimer
  <1>5. chains' \in [Chain -> ChainRecord]
    BY <1>2 DEF ManagerInv, ManagerTyped
  <1>6. CASE /\ UNCHANGED <<agent, conn, gaveUp>>
             /\ ~wanted.connected \/ agent.state = "Stopped"
    BY <1>3, <1>5, <1>6
    DEF ManagerInv, ManagerTyped, CurrentIsInUse, ConnectionFits,
        RegistrationIsPursued, ConnectionIsPursued
  <1>7. CASE /\ Dials
             /\ agent' = [agent EXCEPT !.stop = stop]
             /\ agent.state # "Stopped"
             /\ "registration" \in gaveUp => "registration" \in gaveUp'
    <2>1. /\ conn' \in {"Connecting", "Connected"}
          /\ conn' = "Connected" <=> conn = "Connected"
      BY <1>7, DialsIs DEF ManagerInv
    <2>2. /\ ManagerTyped' /\ agent'.state = "Started" /\ agent'.stop = stop
      BY <1>1, <1>3, <1>5, <1>7 DEF ManagerInv, ManagerTyped
    <2>3. CurrentIsInUse'
      BY <1>3, <2>1 DEF ManagerInv, CurrentIsInUse
    <2>4. ConnectionFits'
      BY <1>1, <1>3, <2>1, <2>2 DEF ManagerInv, ConnectionFits, Conn
    <2>5. RegistrationIsPursued'
      BY <1>1, <1>3, <1>7, <2>1, <2>2
      DEF ManagerInv, ConnectionFits, RegistrationIsPursued
    <2>6. ConnectionIsPursued'
      BY <2>1 DEF ConnectionIsPursued
    <2> QED BY <2>2, <2>3, <2>4, <2>5, <2>6 DEF ManagerInv
  <1> QED BY <1>4, <1>6, <1>7

(* Connected: a Registerer comes with the connection, and an attempt.      *)
LEMMA SocketOpensKeeps ==
    ASSUME ManagerInv, SocketOpens
    PROVE  ManagerInv'
  <1>1. /\ conn = "Connecting" /\ conn' = "Connected" /\ ping' = "timer"
        /\ UNCHANGED <<wanted, agent>>
        /\ chains' = [c \in Chain |-> IF chains[c].dialing THEN NoChain
                                      ELSE chains[c]]
    BY DEF SocketOpens
  <1>2. chains' \in [Chain -> ChainRecord]
    BY <1>1, ManagerAssumption DEF ManagerInv, ManagerTyped, NoChain
  <1>3. /\ CurrentIsInUse'
        /\ wanted.registered => attempt' \in {"now", "later", "guarded"}
    <2>1. CASE wanted.registered
      <3>1. /\ regs' = [i \in Id |-> regs'[i]]
            /\ current' \in Id /\ InUse(regs'[current'])
            /\ attempt' \in {"now", "later", "guarded"}
        BY <2>1, RegistersKeeps DEF ManagerInv, SocketOpens
      <3> QED BY <3>1, ManagerAssumption DEF CurrentIsInUse, Attempt
    <2>2. CASE ~wanted.registered
      BY <1>1, <2>2 DEF ManagerInv, CurrentIsInUse, SocketOpens
    <2> QED BY <2>1, <2>2
  <1>4. ConnectionFits'
    BY <1>1 DEF ManagerInv, ConnectionFits, Conn
  <1>5. RegistrationIsPursued' /\ ConnectionIsPursued'
    BY <1>1, <1>3 DEF RegistrationIsPursued, ConnectionIsPursued
  <1> QED BY <1>1, <1>2, <1>3, <1>4, <1>5 DEF ManagerInv, ManagerTyped

LEMMA ChainsGoOnIs ==
    ASSUME ManagerTyped, ChainsGoOn
    PROVE  /\ chains' \in [Chain -> ChainRecord]
           /\ \A c \in Chain :
                 wanted.connected /\ chains[c].dialing
                    /\ chains[c].attempt < MaxAttempts
                 => chains'[c].attempt > 0
  <1>1. \A c \in Chain : chains[c] \in ChainRecord
    BY DEF ManagerTyped
  <1>2. \A c \in Chain :
           /\ NextAttempt(chains[c].attempt)
                 \in ChainRecord
           /\ wanted.connected /\ chains[c].attempt < MaxAttempts
                 => NextAttempt(chains[c].attempt).attempt > 0
    BY <1>1, NextAttemptIs
  <1> QED BY <1>1, <1>2 DEF ChainsGoOn

(* The attempts that dialed go on, or the last one is given up.            *)
LEMMA SocketFailsKeeps ==
    ASSUME ManagerInv, SocketFails
    PROVE  ManagerInv'
  <1>1. /\ conn = "Connecting" /\ conn' = "Disconnected"
        /\ UNCHANGED <<regs, wanted, agent, ping, current, attempt>>
    BY DEF SocketFails
  <1>2. /\ chains' \in [Chain -> ChainRecord]
        /\ \A c \in Chain :
              wanted.connected /\ chains[c].dialing
                 /\ chains[c].attempt < MaxAttempts
              => chains'[c].attempt > 0
    BY ChainsGoOnIs DEF ManagerInv, SocketFails
  <1>3. ConnectionFits'
    BY <1>1 DEF ManagerInv, ConnectionFits, Conn
  <1>4. CurrentIsInUse' /\ RegistrationIsPursued'
    BY <1>1 DEF ManagerInv, CurrentIsInUse, RegistrationIsPursued
  <1>5. ConnectionIsPursued'
    <2>1. CASE \E c \in Chain :
                  chains[c].dialing /\ chains[c].attempt < MaxAttempts
      BY <1>1, <1>2, <2>1 DEF ConnectionIsPursued
    <2>2. CASE "connection" \in gaveUp'
      BY <2>2 DEF ConnectionIsPursued
    <2> QED BY <2>1, <2>2 DEF SocketFails
  <1> QED BY <1>1, <1>2, <1>3, <1>4, <1>5 DEF ManagerInv, ManagerTyped

(* A connection that is lost takes the Registerer along and starts a       *)
(* chain.                                                                  *)
LEMMA LosesKeeps ==
    ASSUME ManagerInv, conn = "Connected",
           NEW state \in {"Disconnected", "Disconnecting"}, Loses(state)
    PROVE  ManagerInv'
  <1>1. /\ conn' = state /\ ping' = "off" /\ current' = "none"
        /\ UNCHANGED <<wanted, agent, attempt>>
        /\ "connection" \in gaveUp => "connection" \in gaveUp'
    BY DEF Loses, PingStops
  <1>2. regs' = [i \in Id |-> regs'[i]]
    <2>1. CASE UNCHANGED regs
      BY <2>1 DEF ManagerInv, CurrentIsInUse
    <2>2. CASE Registerers!Dispose(current)
      BY <2>2
      DEF ManagerInv, CurrentIsInUse, Registerers!Dispose, Registerers!Becomes
    <2> QED BY <2>1, <2>2 DEF Loses
  <1>3. /\ chains' \in [Chain -> ChainRecord]
        /\ wanted.connected => \/ "connection" \in gaveUp'
                               \/ \E c \in Chain : chains'[c].attempt > 0
    <2>1. CASE wanted.connected
      <3>1. PICK c \in Chain : chains' = [chains EXCEPT ![c] = NextAttempt(0)]
        BY <2>1 DEF Loses
      <3>2. 0 \in 0..MaxAttempts /\ (MaxAttempts = 0 \/ 0 < MaxAttempts)
        BY ManagerAssumption
      <3>3. PICK next : next = NextAttempt(0)
        OBVIOUS
      <3>4. /\ next \in ChainRecord
            /\ MaxAttempts = 0 \/ next.attempt > 0
        BY <2>1, <3>2, <3>3, NextAttemptIs
      <3>5. MaxAttempts = 0 => "connection" \in gaveUp'
        BY <2>1 DEF Loses
      <3> QED BY <3>1, <3>3, <3>4, <3>5 DEF ManagerInv, ManagerTyped
    <2>2. CASE ~wanted.connected
      BY <2>2 DEF Loses, ManagerInv, ManagerTyped
    <2> QED BY <2>1, <2>2
  <1>4. ManagerTyped' /\ CurrentIsInUse'
    BY <1>1, <1>2, <1>3 DEF ManagerInv, ManagerTyped, CurrentIsInUse
  <1>5. ConnectionFits'
    BY <1>1 DEF ManagerInv, ConnectionFits, Conn
  <1>6. RegistrationIsPursued' /\ ConnectionIsPursued'
    BY <1>1, <1>3 DEF RegistrationIsPursued, ConnectionIsPursued
  <1> QED BY <1>4, <1>5, <1>6 DEF ManagerInv

(* The application wants nothing any more.                                 *)
LEMMA DisconnectKeeps ==
    ASSUME ManagerInv, Disconnect
    PROVE  ManagerInv'
  <1>1. /\ wanted' = [connected |-> FALSE, registered |-> FALSE]
        /\ current' = "none"
        /\ agent' = [agent EXCEPT !.stop = "disposing", !.awaits = current]
        /\ agent.state = "Started"
        /\ UNCHANGED <<conn, chains, ping, attempt, gaveUp>>
    BY DEF Disconnect
  <1>2. regs' = [i \in Id |-> regs'[i]]
    <2>1. CASE UNCHANGED regs
      BY <2>1 DEF ManagerInv, CurrentIsInUse
    <2>2. CASE Registerers!Dispose(current)
      BY <2>2
      DEF ManagerInv, CurrentIsInUse, Registerers!Dispose, Registerers!Becomes
    <2> QED BY <2>1, <2>2 DEF Disconnect
  <1>3. current \in Id \cup {"none"}
    BY DEF ManagerInv, CurrentIsInUse
  <1>4. /\ ManagerTyped'
        /\ agent'.state = "Started" /\ agent'.stop = "disposing"
    BY <1>1, <1>3 DEF ManagerInv, ManagerTyped
  <1>5. CurrentIsInUse'
    BY <1>1, <1>2 DEF ManagerInv, CurrentIsInUse
  <1>6. ConnectionFits'
    BY <1>1, <1>4 DEF ManagerInv, ConnectionFits
  <1>7. RegistrationIsPursued' /\ ConnectionIsPursued'
    BY <1>4 DEF RegistrationIsPursued, ConnectionIsPursued
  <1> QED BY <1>4, <1>5, <1>6, <1>7 DEF ManagerInv

(* The core takes every request with it; the Registerer stays in use.      *)
LEMMA StoppedIs ==
    ASSUME CurrentIsInUse, Stopped
    PROVE  /\ regs' = [i \in Id |-> regs'[i]]
           /\ current # "none" => InUse(regs'[current])
           /\ agent' = [state |-> "Stopped", stop |-> "no", awaits |-> "none"]
  <1>1. ASSUME NEW r, InUse(r)
        PROVE  InUse([r EXCEPT !.request = "none",
                               !.dropped = r.dropped \/ r.request # "none"])
    <2>1. PICK d \in BOOLEAN : d = (r.dropped \/ r.request # "none")
      OBVIOUS
    <2>2. InUse([r EXCEPT !.request = "none", !.dropped = d])
      BY <1>1, <2>1 DEF InUse, Usable, RegistererRecord, Registerers!Request
    <2> QED BY <2>1, <2>2
  <1> QED BY <1>1 DEF CurrentIsInUse, Stopped

(* stop() waits for the transport, or is done.                             *)
LEMMA StopDisconnectsKeeps ==
    ASSUME ManagerInv, StopDisconnects
    PROVE  ManagerInv'
  <1>1. /\ ping' = "off"
        /\ UNCHANGED <<wanted, current, attempt, gaveUp>>
    BY DEF StopDisconnects, PingStops
  <1>2. CASE /\ conn' = "Disconnecting"
             /\ agent' = [agent EXCEPT !.stop = "disconnecting",
                                       !.awaits = "none"]
             /\ agent.state = "Started"
             /\ ChainsGoOn \/ UNCHANGED chains
             /\ UNCHANGED regs
    <2>1. chains' \in [Chain -> ChainRecord]
      BY <1>2, ChainsGoOnIs DEF ManagerInv, ManagerTyped
    <2>2. /\ ManagerTyped'
          /\ agent'.state = "Started" /\ agent'.stop = "disconnecting"
      BY <1>1, <1>2, <2>1 DEF ManagerInv, ManagerTyped
    <2>3. CurrentIsInUse' /\ ConnectionFits'
      BY <1>1, <1>2, <2>2 DEF ManagerInv, CurrentIsInUse, ConnectionFits, Conn
    <2>4. RegistrationIsPursued' /\ ConnectionIsPursued'
      BY <2>2 DEF RegistrationIsPursued, ConnectionIsPursued
    <2> QED BY <2>2, <2>3, <2>4 DEF ManagerInv
  <1>3. CASE conn = "Disconnected" /\ Stopped /\ UNCHANGED <<conn, chains>>
    <2>1. /\ regs' = [i \in Id |-> regs'[i]]
          /\ current # "none" => InUse(regs'[current])
          /\ agent' = [state |-> "Stopped", stop |-> "no", awaits |-> "none"]
      BY <1>3, StoppedIs DEF ManagerInv
    <2>2. ManagerTyped' /\ CurrentIsInUse' /\ ConnectionFits'
      BY <1>1, <1>3, <2>1
      DEF ManagerInv, ManagerTyped, CurrentIsInUse, ConnectionFits, Conn
    <2>3. RegistrationIsPursued' /\ ConnectionIsPursued'
      BY <1>3, <2>1 DEF RegistrationIsPursued, ConnectionIsPursued
    <2> QED BY <2>2, <2>3 DEF ManagerInv
  <1>4. agent.state = "Started" \/ conn = "Disconnected"
    BY DEF ManagerInv, ManagerTyped, ConnectionFits
  <1> QED
    BY <1>2, <1>3, <1>4
    DEF StopDisconnects, ManagerInv, ConnectionFits, Conn

LEMMA SocketClosesKeeps ==
    ASSUME ManagerInv, SocketCloses
    PROVE  ManagerInv'
  <1>1. /\ conn = "Disconnecting" /\ conn' = "Disconnected"
        /\ UNCHANGED <<wanted, chains, ping, current, attempt, gaveUp>>
    BY DEF SocketCloses
  <1>2. CASE agent.stop = "disconnecting"
    <2>1. /\ regs' = [i \in Id |-> regs'[i]]
          /\ current # "none" => InUse(regs'[current])
          /\ agent' = [state |-> "Stopped", stop |-> "no", awaits |-> "none"]
      BY <1>2, StoppedIs DEF ManagerInv, SocketCloses
    <2>2. ManagerTyped' /\ CurrentIsInUse' /\ ConnectionFits'
      BY <1>1, <2>1
      DEF ManagerInv, ManagerTyped, CurrentIsInUse, ConnectionFits, Conn
    <2>3. RegistrationIsPursued' /\ ConnectionIsPursued'
      BY <1>1, <2>1 DEF RegistrationIsPursued, ConnectionIsPursued
    <2> QED BY <2>2, <2>3 DEF ManagerInv
  <1>3. CASE agent.stop # "disconnecting"
    <2>1. UNCHANGED <<regs, agent>>
      BY <1>3 DEF SocketCloses
    <2> QED
      BY <1>1, <1>3, <2>1
      DEF ManagerInv, ManagerTyped, CurrentIsInUse, ConnectionFits, Conn,
          RegistrationIsPursued, ConnectionIsPursued
  <1> QED BY <1>2, <1>3

LEMMA StepManagerInv == ManagerInv /\ [Next]_vars => ManagerInv'
  <1> SUFFICES ASSUME ManagerInv, [Next]_vars PROVE ManagerInv'
    OBVIOUS
  <1>1. CASE Register
    BY <1>1, RegisterKeeps
  <1>2. CASE Unregister
    BY <1>2, UnregisterKeeps
  <1>3. CASE AttemptTimer \/ GuardPasses \/ GuardHalts
    BY <1>3, AttemptKeeps
  <1>4. ASSUME NEW i \in Id,
               \/ Accepted(i) \/ Rejected(i) \/ Failed(i)
               \/ UnregisterAnswered(i) \/ RegistererTimer(i)
        PROVE  ManagerInv'
    <2>1. RegistererActs(i) /\ \E retries : After(i, retries)
      BY <1>4
      DEF RegistererActs, Accepted, Rejected, Failed, UnregisterAnswered,
          RegistererTimer
    <2> QED BY <2>1, AfterKeeps
  <1>14. ASSUME NEW i \in Id, IntervalTooBrief(i) PROVE ManagerInv'
    BY <1>14, IntervalTooBriefKeeps
  <1>5. CASE Connect
    BY <1>5, ConnectKeeps
  <1>6. ASSUME NEW c \in Chain, ChainTimer(c) PROVE ManagerInv'
    BY <1>6, ChainTimerKeeps
  <1>7. CASE SocketOpens
    BY <1>7, SocketOpensKeeps
  <1>8. CASE SocketFails
    BY <1>8, SocketFailsKeeps
  <1>9. CASE SocketDrops \/ PingFails
    <2>1. /\ conn = "Connected"
          /\ Loses("Disconnected") \/ Loses("Disconnecting")
      BY <1>9 DEF SocketDrops, PingFails, ManagerInv, ConnectionFits
    <2> QED BY <2>1, LosesKeeps
  <1>10. CASE PingTimer \/ PingSucceeds \/ UNCHANGED vars
    <2>1. /\ UNCHANGED <<regs, wanted, agent, conn, chains, current, attempt,
                         gaveUp>>
          /\ ping' # "off" => ping # "off"
      BY <1>10 DEF PingTimer, PingSucceeds, vars
    <2> QED
      BY <2>1
      DEF ManagerInv, ManagerTyped, CurrentIsInUse, ConnectionFits,
          RegistrationIsPursued, ConnectionIsPursued
  <1>11. CASE Disconnect
    BY <1>11, DisconnectKeeps
  <1>12. CASE StopDisconnects
    BY <1>12, StopDisconnectsKeeps
  <1>13. CASE SocketCloses
    BY <1>13, SocketClosesKeeps
  <1> QED
    BY <1>1, <1>2, <1>3, <1>4, <1>5, <1>6, <1>7, <1>8, <1>9, <1>10, <1>11,
       <1>12, <1>13, <1>14 DEF Next

LEMMA ManagerInvariance == Spec => []ManagerInv
  <1> QED BY InitManagerInv, StepManagerInv, PTL DEF Spec

(* session-manager.ts, attemptRegistration and the stateChange listener of *)
(* the Registerer: a manager that should be registered, and is connected,  *)
(* is registered, is about to be, or has left it to the application.       *)
THEOREM RegistrationsArePursued == Spec => []RegistrationIsPursued
  <1>1. ManagerInv => RegistrationIsPursued
    BY DEF ManagerInv
  <1> QED BY <1>1, ManagerInvariance, PTL

(* session-manager.ts, attemptReconnection: a user agent that should be    *)
(* connected is, is about to be, or has left it to the application: no     *)
(* chain of attempts is dropped, for every number of them.                 *)
THEOREM ConnectionsArePursued == Spec => []ConnectionIsPursued
  <1>1. ManagerInv => ConnectionIsPursued
    BY DEF ManagerInv
  <1> QED BY <1>1, ManagerInvariance, PTL
=============================================================================
