---------------------------------- MODULE Hold ----------------------------------
(***************************************************************************)
(* hold(), unhold(), mute() and unmute() of                                *)
(* src/platform/web/session-manager/session-manager.ts at both ends of a   *)
(* call, and the directions that session-description-handler.ts offers and *)
(* answers for them.  A re-INVITE is what it comes to for the two ends: an *)
(* offer, an answer or a refusal (ReInvite has the rest); an offer is not  *)
(* made while the offer of the peer is served.  A call ends, and with it   *)
(* what is modelled here, when an answer cannot be applied.                *)
(*                                                                         *)
(* setHold takes no handler but that of session-description-handler.ts,    *)
(* which has no rollbackDescription: what comes to nothing leaves its peer *)
(* connection with an offer, and rollbackOffer() of session.ts, that       *)
(* should undo it, does nothing.                                           *)
(***************************************************************************)
EXTENDS FiniteSets

CONSTANT Side       \* the two ends

ASSUME SideAssumption == \E a, b \in Side : a # b /\ Side = {a, b}

VARIABLES
    managed,        \* [Side -> [held, muted]], the ManagedSession
    option,         \* the hold option that the session has for re-INVITEs
    tracks,         \* [Side -> [receiver, sender]], which are enabled
    pc,             \* [Side -> [signaling, direction, current, remote]]
    invite,         \* [Side -> [phase, hold, used]], the re-INVITE of a side
    serving,        \* [Side -> [on, hold, shared]], that of its peer
    request,        \* the offer that a side has sent
    response,       \* what a side has been answered
    used,           \* the hold option of the last negotiation
    strayed,        \* sides whose hold() or unhold() was refused or failed
    unsent          \* sides whose last re-INVITE was not sent

holdVars == <<managed, option, tracks, pc, invite, serving, request, response,
              used, strayed, unsent>>

Peer(s) == CHOOSE t \in Side : t # s

Direction == {"inactive", "recvonly", "sendonly", "sendrecv"}
Receives(direction) == direction \in {"recvonly", "sendrecv"}
Sends(direction) == direction \in {"sendonly", "sendrecv"}

(* A direction as the other end sees it.                                   *)
Reversed(direction) ==
    CASE direction = "sendonly" -> "recvonly"
      [] direction = "recvonly" -> "sendonly"
      [] OTHER -> direction

NoInvite == [phase |-> "none", hold |-> FALSE, used |-> FALSE]
NotServing == [on |-> FALSE, hold |-> FALSE, shared |-> FALSE]

HoldTypeOK ==
    /\ managed \in [Side -> [held : BOOLEAN, muted : BOOLEAN]]
    /\ option \in [Side -> {"unset", "off", "on"}]
    /\ tracks \in [Side -> [receiver : BOOLEAN, sender : BOOLEAN]]
    /\ pc \in [Side -> [signaling : {"stable", "have-local-offer", "have-remote-offer"},
                        direction : Direction, current : Direction,
                        remote : Direction]]
    /\ invite \in [Side -> [phase : {"none", "making", "made", "sent"},
                            hold : BOOLEAN, used : BOOLEAN]]
    /\ serving \in [Side -> [on : BOOLEAN, hold : BOOLEAN, shared : BOOLEAN]]
    /\ request \in [Side -> Direction \cup {"none"}]
    /\ response \in [Side -> Direction \cup {"none", "refused"}]
    /\ used \in [Side -> BOOLEAN]
    /\ strayed \subseteq Side
    /\ unsent \subseteq Side

HoldInit ==
    /\ managed = [s \in Side |-> [held |-> FALSE, muted |-> FALSE]]
    /\ option = [s \in Side |-> "unset"]
    /\ tracks = [s \in Side |-> [receiver |-> TRUE, sender |-> TRUE]]
    /\ pc = [s \in Side |-> [signaling |-> "stable", direction |-> "sendrecv",
                             current |-> "sendrecv", remote |-> "sendrecv"]]
    /\ invite = [s \in Side |-> NoInvite]
    /\ serving = [s \in Side |-> NotServing]
    /\ request = [s \in Side |-> "none"]
    /\ response = [s \in Side |-> "none"]
    /\ used = [s \in Side |-> FALSE]
    /\ strayed = {}
    /\ unsent = {}
-----------------------------------------------------------------------------
Settled == \A s \in Side : invite[s].phase = "none" /\ ~serving[s].on

(* The hold option of the object that session.ts hands to the handler is   *)
(* changed in place, and the session goes on with a copy: an answer under  *)
(* way sees the first change that is made to it.                           *)
OptionSet(s, hold) ==
    /\ option' = [option EXCEPT ![s] = IF hold THEN "on" ELSE "off"]
    /\ serving' = [serving EXCEPT ![s] =
                     IF @.shared THEN [@ EXCEPT !.hold = hold, !.shared = FALSE] ELSE @]

(* A mutant of Enabled.                                                    *)
EnabledMuteForgotten(m) == [receiver |-> ~m.held, sender |-> ~m.held]

(* enableReceiverTracks and enableSenderTracks, with a ManagedSession.     *)
Enabled(m) == [receiver |-> ~m.held, sender |-> ~m.held /\ ~m.muted]

(* held, once it is known, and the tracks with it.                         *)
Becomes(s, held) ==
    /\ managed' = [managed EXCEPT ![s].held = held]
    /\ tracks' = [tracks EXCEPT ![s] = Enabled(managed'[s])]
    /\ unsent' = unsent \ {s}

(* setHold: held is what it will be already.                               *)
SetHold(s) ==
    /\ invite[s].phase = "none"
    /\ LET hold == ~managed[s].held
       IN /\ OptionSet(s, hold)
          /\ managed' = [managed EXCEPT ![s].held = hold]
          /\ invite' = [invite EXCEPT ![s] = [phase |-> "making", hold |-> hold,
                                              used |-> FALSE]]
    /\ UNCHANGED <<tracks, pc, request, response, used, strayed, unsent>>

(* The session refuses a second re-INVITE, and held is what it was.        *)
SetHoldPending(s) ==
    /\ invite[s].phase # "none"
    /\ OptionSet(s, ~managed[s].held)
    /\ strayed' = strayed \cup {s}
    /\ UNCHANGED <<managed, tracks, pc, invite, request, response, used, unsent>>

SetMute(s) ==
    /\ managed' = [managed EXCEPT ![s].muted = ~@]
    /\ tracks' = [tracks EXCEPT ![s].sender = Enabled(managed'[s]).sender]
    /\ UNCHANGED <<option, pc, invite, serving, request, response, used, strayed, unsent>>
-----------------------------------------------------------------------------
(* A mutant of DirectionToOffer.                                           *)
DirectionToOfferInactive(direction, hold) ==
    IF direction = "inactive" THEN "inactive"
    ELSE IF Sends(direction) THEN IF hold THEN "sendonly" ELSE "sendrecv"
                             ELSE IF hold THEN "inactive" ELSE "recvonly"

(* directionToOffer of updateDirection.                                    *)
DirectionToOffer(direction, hold) ==
    IF Sends(direction) THEN IF hold THEN "sendonly" ELSE "sendrecv"
                        ELSE IF hold THEN "inactive" ELSE "recvonly"

(* A mutant of AnswerDirection.                                            *)
AnswerDirectionAlwaysOn(offer, hold) == Reversed(offer)

(* answerDirection of updateDirection.                                     *)
AnswerDirection(offer, hold) ==
    CASE offer = "inactive" -> "inactive"
      [] offer = "recvonly" -> "sendonly"
      [] offer = "sendonly" -> IF hold THEN "inactive" ELSE "recvonly"
      [] OTHER              -> IF hold THEN "sendonly" ELSE "sendrecv"

OptionOn(s) == option[s] = "on"

(* getDescription in a stable state.                                       *)
OfferMade(s) ==
    /\ invite[s].phase = "making"
    /\ pc[s].signaling = "stable"
    /\ ~serving[s].on
    /\ pc' = [pc EXCEPT ![s].signaling = "have-local-offer",
                        ![s].direction = DirectionToOffer(@, OptionOn(s))]
    /\ invite' = [invite EXCEPT ![s].phase = "made", ![s].used = OptionOn(s)]
    /\ UNCHANGED <<managed, option, tracks, serving, request, response, used, strayed, unsent>>

(* The remote offer is answered.                                           *)
Answered(s, answer) ==
    pc' = [pc EXCEPT ![s].signaling = "stable", ![s].direction = answer,
                     ![s].current = answer]

(* A remote offer is left of a re-INVITE that was refused: it is answered, *)
(* and the answer goes out as the offer.                                   *)
OfferIsAnswer(s) ==
    /\ invite[s].phase = "making"
    /\ pc[s].signaling = "have-remote-offer"
    /\ ~serving[s].on
    /\ Answered(s, AnswerDirection(pc[s].remote, OptionOn(s)))
    /\ used' = [used EXCEPT ![s] = OptionOn(s)]
    /\ invite' = [invite EXCEPT ![s].phase = "made", ![s].used = OptionOn(s)]
    /\ UNCHANGED <<managed, option, tracks, serving, request, response, strayed, unsent>>

(* The offer cannot be made, as ever when one of ours is left, or not be   *)
(* sent: held is undone, and the rest is as it is.                         *)
OfferFails(s) ==
    /\ invite[s].phase \in {"making", "made"}
    /\ managed' = [managed EXCEPT ![s].held = ~invite[s].hold]
    /\ invite' = [invite EXCEPT ![s] = NoInvite]
    /\ strayed' = strayed \cup {s}
    /\ unsent' = unsent \cup {s}
    /\ UNCHANGED <<option, tracks, pc, serving, request, response, used>>

(* What is sent is the local description of that moment.                   *)
OfferSent(s) ==
    /\ invite[s].phase = "made"
    /\ ~serving[s].on
    /\ invite' = [invite EXCEPT ![s].phase = "sent"]
    /\ request' = [request EXCEPT ![s] = pc[s].direction]
    /\ Becomes(s, managed[s].held)
    /\ UNCHANGED <<option, pc, serving, response, used, strayed>>

(* The offer arrives and is refused: in the middle of a re-INVITE of ours, *)
(* or because the handler does not take it, as it never does with an offer *)
(* of either side outstanding.                                             *)
OfferRefused(s) ==
    /\ request[Peer(s)] # "none"
    /\ request' = [request EXCEPT ![Peer(s)] = "none"]
    /\ response' = [response EXCEPT ![Peer(s)] = "refused"]
    /\ UNCHANGED <<managed, option, tracks, pc, invite, serving, used, strayed, unsent>>

OfferTaken(s) ==
    /\ request[Peer(s)] # "none"
    /\ invite[s].phase # "sent"
    /\ pc[s].signaling = "stable"
    /\ request' = [request EXCEPT ![Peer(s)] = "none"]
    /\ pc' = [pc EXCEPT ![s].signaling = "have-remote-offer",
                        ![s].remote = request[Peer(s)]]
    /\ serving' = [serving EXCEPT ![s] = [on |-> TRUE, hold |-> OptionOn(s),
                                          shared |-> option[s] # "unset"]]
    /\ UNCHANGED <<managed, option, tracks, invite, response, used, strayed, unsent>>

AnswerMade(s) ==
    /\ serving[s].on
    /\ LET answer == AnswerDirection(pc[s].remote, serving[s].hold)
       IN /\ Answered(s, answer)
          /\ response' = [response EXCEPT ![Peer(s)] = answer]
    /\ used' = [used EXCEPT ![s] = serving[s].hold]
    /\ serving' = [serving EXCEPT ![s] = NotServing]
    /\ UNCHANGED <<managed, option, tracks, invite, request, strayed, unsent>>

(* The peer is refused, and its offer is left.                             *)
AnswerFails(s) ==
    /\ serving[s].on
    /\ response' = [response EXCEPT ![Peer(s)] = "refused"]
    /\ serving' = [serving EXCEPT ![s] = NotServing]
    /\ UNCHANGED <<managed, option, tracks, pc, invite, request, used, strayed, unsent>>

(* onAccept, after the answer is set.  It finds the offer: what went out   *)
(* as OfferIsAnswer has it is refused, since the peer is left with its own.*)
HoldAccepted(s) ==
    /\ response[s] \in Direction
    /\ pc[s].signaling = "have-local-offer"
    /\ pc' = [pc EXCEPT ![s].signaling = "stable", ![s].current = Reversed(response[s])]
    /\ response' = [response EXCEPT ![s] = "none"]
    /\ used' = [used EXCEPT ![s] = invite[s].used]
    /\ invite' = [invite EXCEPT ![s] = NoInvite]
    /\ strayed' = IF invite[s].hold = invite[s].used /\ invite[s].hold = OptionOn(s)
                  THEN strayed \ {s} ELSE strayed
    /\ Becomes(s, invite[s].hold)
    /\ UNCHANGED <<option, serving, request>>

(* onReject: the offer is left.                                            *)
HoldRejected(s) ==
    /\ response[s] = "refused"
    /\ response' = [response EXCEPT ![s] = "none"]
    /\ invite' = [invite EXCEPT ![s] = NoInvite]
    /\ strayed' = strayed \cup {s}
    /\ Becomes(s, ~invite[s].hold)
    /\ UNCHANGED <<option, pc, serving, request, used>>

HoldNext ==
    \E s \in Side :
        \/ SetHold(s)
        \/ SetHoldPending(s)
        \/ SetMute(s)
        \/ OfferMade(s)
        \/ OfferIsAnswer(s)
        \/ OfferFails(s)
        \/ OfferSent(s)
        \/ OfferRefused(s)
        \/ OfferTaken(s)
        \/ AnswerMade(s)
        \/ AnswerFails(s)
        \/ HoldAccepted(s)
        \/ HoldRejected(s)

HoldSpec == HoldInit /\ [][HoldNext]_holdVars
-----------------------------------------------------------------------------
(* Properties                                                              *)

(* Nothing is received by a side whose last negotiation was for a hold,    *)
(* whatever was refused, failed or crossed in the meantime.                *)
HoldIsHonoured ==
    Settled => \A s \in Side : used[s] => ~Receives(pc[s].current)

(* A call in which no hold() or unhold() was refused or failed (strayed),  *)
(* flows, when all is settled, to every end that is not held and to no     *)
(* other: both ends may hold and unhold in any order, and media comes back *)
(* for both.                                                               *)
MediaComesBack ==
    Settled /\ strayed = {} => \A s \in Side : Receives(pc[s].current) <=> ~managed[s].held

(* Once a re-INVITE is over, accepted or refused, a side that is held      *)
(* neither sends nor plays anything, and one that is not plays, and sends  *)
(* unless it is muted: hold and mute keep each other's choice, in whatever *)
(* order they come.  An offer that is not sent is excepted: see            *)
(* SilentWhenHeld.                                                         *)
TracksFollowHold ==
    \A s \in Side \ unsent : invite[s].phase = "none" =>
        /\ tracks[s].receiver = ~managed[s].held
        /\ tracks[s].sender = (~managed[s].held /\ ~managed[s].muted)

(* Violated.  A side that is held, with no re-INVITE under way, sends      *)
(* nothing and plays nothing.                                              *)
SilentWhenHeld ==
    \A s \in Side : managed[s].held /\ invite[s].phase = "none" =>
        ~tracks[s].receiver /\ ~tracks[s].sender

(* Violated.  A side that is held, when all is settled, has negotiated a   *)
(* hold.                                                                   *)
HeldIsNegotiated ==
    Settled => \A s \in Side : managed[s].held => ~Receives(pc[s].current)
=============================================================================
