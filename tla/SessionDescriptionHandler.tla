----------------------- MODULE SessionDescriptionHandler -----------------------
(***************************************************************************)
(* The handler of src/platform/web/session-description-handler/            *)
(* session-description-handler.ts over an RTCPeerConnection: media that is *)
(* asked of the mediaStreamFactory, the local and remote descriptions, the *)
(* wait for ICE, and close() at any time.  A Session has two callers that  *)
(* do not wait for each other: invite(), which makes an offer and sets the *)
(* answer to it, and onInviteRequest, which serves an offer of the peer.   *)
(* One kind of media, audio, stands for both.                              *)
(***************************************************************************)
EXTENDS Naturals, FiniteSets

CONSTANTS
    Device,         \* the constraints that an application may give
    Stream,         \* what the factory is asked for (bound: each once)
    MaxStray        \* the timers that were forgotten, at a time (bound)

VARIABLES
    session,        \* how far the Session is
    rtc,            \* [closed, signaling, gathering], the RTCPeerConnection
    constraints,    \* localMediaStreamConstraints
    sender,         \* the track that is sent
    local,          \* the tracks of localMediaStream
    live,           \* the tracks that were obtained and not stopped
    asked,          \* [Stream -> what the factory was asked for]
    calls,          \* [Caller -> [phase, op, device, stream]]
    offered,        \* invite() has an offer that waits for its answer
    waiter,         \* whose promise iceGatheringCompletePromise is
    timer,          \* the timer of iceGatheringCompleteTimeoutId runs
    stray,          \* timers that run and that no iceGatheringCompleteTimeoutId has
    early,          \* callers whose wait a stray timer has ended
    other           \* callers that described other media than they asked for

handlerVars == <<session, rtc, constraints, sender, local, live, asked, calls,
                 offered, waiter, timer, stray, early, other>>

media == <<constraints, sender, local, live, asked>>
ice == <<waiter, timer, stray, early>>

Caller == {"invite", "onInviteRequest"}
Phase == {"idle", "media", "replacing", "remote", "describing",
          "offering", "answering", "gathering"}

Idle == [phase |-> "idle", op |-> "none", device |-> "any", stream |-> "none"]

HandlerTypeOK ==
    /\ session \in {"new", "establishing", "established"}
    /\ rtc \in [closed : BOOLEAN, gathering : {"new", "gathering", "complete"},
               signaling : {"stable", "have-local-offer", "have-remote-offer"}]
    /\ constraints \in Device \cup {"none"}
    /\ sender \in Stream \cup {"none"}
    /\ local \subseteq Stream
    /\ live \subseteq Stream
    /\ asked \in [Stream -> Device \cup {"none"}]
    /\ calls \in [Caller -> [phase : Phase, op : {"none", "offer", "answer", "serve", "reply"},
                             device : Device \cup {"any"}, stream : Stream \cup {"none"}]]
    /\ offered \in BOOLEAN
    /\ waiter \in Caller \cup {"none"}
    /\ timer \in BOOLEAN
    /\ stray \in 0..MaxStray
    /\ early \subseteq Caller
    /\ other \subseteq Caller

HandlerInit ==
    /\ session = "new"
    /\ rtc = [closed |-> FALSE, gathering |-> "new", signaling |-> "stable"]
    /\ constraints = "none"
    /\ sender = "none"
    /\ local = {}
    /\ live = {}
    /\ asked = [m \in Stream |-> "none"]
    /\ calls = [c \in Caller |-> Idle]
    /\ offered = FALSE
    /\ waiter = "none"
    /\ timer = FALSE
    /\ stray = 0
    /\ early = {}
    /\ other = {}
-----------------------------------------------------------------------------
(* The calls                                                               *)

(* The call goes on with what follows getLocalMediaStream.                 *)
PhaseAfterMedia(op) == IF op \in {"answer", "serve"} THEN "remote" ELSE "describing"

Ends(c) == calls' = [calls EXCEPT ![c] = Idle]

(* getLocalMediaStream: constraints that have not changed, or are none,    *)
(* need no other stream.                                                   *)
Begin(c, op, device) ==
    LET wanted == IF device # "any" THEN device
                  ELSE IF constraints # "none" THEN constraints
                  ELSE CHOOSE d \in Device : TRUE
        call == [phase |-> PhaseAfterMedia(op), op |-> op, device |-> device,
                 stream |-> "none"]
    IN IF wanted = constraints
       THEN /\ calls' = [calls EXCEPT ![c] = call]
            /\ UNCHANGED <<constraints, asked>>
       ELSE \E m \in Stream :
              /\ asked[m] = "none"
              /\ asked' = [asked EXCEPT ![m] = wanted]
              /\ constraints' = wanted
              /\ calls' = [calls EXCEPT ![c] = [call EXCEPT !.phase = "media", !.stream = m]]

(* A closed handler rejects at once, which is no step.  A Session begins   *)
(* with one call and has no second one before that one has come to its end.*)
Calls(c, op) ==
    /\ ~rtc.closed
    /\ session = "establishing" => op = "answer"
    /\ session' = IF session = "new" THEN "establishing" ELSE session
    /\ calls[c].phase = "idle"
    /\ \E device \in Device \cup {"any"} : Begin(c, op, device)
    /\ early' = early \ {c}
    /\ other' = other \ {c}
    /\ UNCHANGED <<rtc, sender, local, live, waiter, timer, stray>>

(* getDescription for an INVITE or a re-INVITE of ours.                    *)
GetOffer ==
    /\ Calls("invite", "offer")
    /\ offered' = FALSE

(* setDescription with the answer to it.                                   *)
SetAnswer ==
    /\ offered
    /\ Calls("invite", "answer")
    /\ offered' = FALSE

(* setDescription with the offer of the peer, and then getDescription.  It *)
(* is not served before our own offer is answered or refused.              *)
SetOffer ==
    /\ Calls("onInviteRequest", "serve")
    /\ offered' = FALSE
-----------------------------------------------------------------------------
(* Media                                                                   *)

HasMedia(c) == calls' = [calls EXCEPT ![c].phase = PhaseAfterMedia(calls[c].op),
                                     ![c].stream = "none"]

(* setLocalMediaStream throws when the handler is closed, adds the track,  *)
(* or replaces the one that is sent.                                       *)
MediaObtained(c) ==
    /\ calls[c].phase = "media"
    /\ LET m == calls[c].stream
       IN /\ live' = live \cup {m}
          /\ IF rtc.closed THEN Ends(c) /\ UNCHANGED <<sender, local>>
             ELSE IF sender = "none"
             THEN /\ sender' = m
                  /\ local' = local \cup {m}
                  /\ HasMedia(c)
             ELSE /\ calls' = [calls EXCEPT ![c].phase = "replacing"]
                  /\ UNCHANGED <<sender, local>>
    /\ UNCHANGED <<session, rtc, constraints, asked, offered, other, ice>>

MediaFails(c) ==
    /\ calls[c].phase = "media"
    /\ Ends(c)
    /\ UNCHANGED <<session, rtc, media, offered, other, ice>>

(* replaceTrack: the old track is stopped.  A closed connection rejects.   *)
TrackReplaced(c) ==
    /\ calls[c].phase = "replacing"
    /\ LET m == calls[c].stream
       IN IF rtc.closed THEN Ends(c) /\ UNCHANGED <<sender, local, live>>
          ELSE /\ sender' = m
               /\ live' = live \ local
               /\ local' = {m}
               /\ HasMedia(c)
    /\ UNCHANGED <<session, rtc, constraints, asked, offered, other, ice>>
-----------------------------------------------------------------------------
(* Descriptions                                                            *)

(* setRemoteSessionDescription takes it for an offer or an answer by the   *)
(* signaling state.  onInviteRequest goes on with getDescription.          *)
RemoteSet(c) ==
    /\ calls[c].phase = "remote"
    /\ ~rtc.closed
    /\ rtc.signaling # "have-remote-offer"
    /\ rtc' = [rtc EXCEPT !.signaling = IF @ = "stable" THEN "have-remote-offer" ELSE "stable"]
    /\ IF calls[c].op = "serve"
       THEN Begin(c, "reply", calls[c].device) /\ UNCHANGED session
       ELSE Ends(c) /\ session' = "established" /\ UNCHANGED <<constraints, asked>>
    /\ UNCHANGED <<sender, local, live, offered, other, ice>>

(* updateDirection and createLocalOfferOrAnswer, by the signaling state.   *)
Describes(c) ==
    /\ calls[c].phase = "describing"
    /\ ~rtc.closed
    /\ rtc.signaling # "have-local-offer"
    /\ calls' = [calls EXCEPT ![c].phase = IF rtc.signaling = "stable" THEN "offering"
                                                                      ELSE "answering"]
    /\ other' = IF calls[c].device = constraints
                   /\ (sender = "none" \/ asked[sender] # constraints)
                THEN other \cup {c} ELSE other
    /\ UNCHANGED <<session, rtc, media, offered, ice>>

(* What the application gave is not taken, or the state is not the one for *)
(* it, or the handler is closed.                                           *)
DescriptionFails(c) ==
    /\ calls[c].phase \in {"remote", "describing", "offering", "answering"}
    /\ Ends(c)
    /\ UNCHANGED <<session, rtc, media, offered, other, ice>>

Resolved(c) ==
    /\ Ends(c)
    /\ offered' = (offered \/ calls[c].op = "offer")
    /\ session' = IF calls[c].op = "reply" THEN "established" ELSE session

(* A mutant of Waits.                                                      *)
WaitsTwo(c) ==
    /\ calls' = [calls EXCEPT ![c].phase = "gathering"]
    /\ waiter' = c
    /\ timer' = TRUE
    /\ stray' = IF timer THEN stray + 1 ELSE stray
    /\ UNCHANGED early

(* waitForIceGatheringComplete with a timeout: a prior promise is rejected;*)
(* its timer runs on.                                                      *)
Waits(c) ==
    /\ calls' = [d \in Caller |-> IF d = c THEN [calls[c] EXCEPT !.phase = "gathering"]
                                  ELSE IF d = waiter THEN Idle ELSE calls[d]]
    /\ waiter' = c
    /\ timer' = TRUE
    /\ stray' = IF timer THEN stray + 1 ELSE stray
    /\ UNCHANGED early

(* After setLocalDescription there may be candidates to gather, again.     *)
Local(signaling) ==
    {[rtc EXCEPT !.signaling = signaling, !.gathering = gathering] :
        gathering \in {"gathering"} \cup ({rtc.gathering} \cap {"complete"})}

(* setLocalDescription in the browser, and then waitForIceGatheringComplete*)
LocalSet(c) ==
    /\ ~rtc.closed
    /\ \/ /\ calls[c].phase = "offering"
          /\ rtc.signaling \in {"stable", "have-local-offer"}
          /\ rtc' \in Local("have-local-offer")
       \/ /\ calls[c].phase = "answering"
          /\ rtc.signaling = "have-remote-offer"
          /\ rtc' \in Local("stable")
    /\ IF rtc'.gathering = "complete" THEN Resolved(c) /\ UNCHANGED ice
       ELSE /\ timer => stray < MaxStray
            /\ Waits(c)
            /\ UNCHANGED <<session, offered>>
    /\ UNCHANGED <<media, other>>

(* A mutant of IceGatheringComplete.                                       *)
IceGatheringCompleteTimerOnly ==
    /\ timer' = FALSE
    /\ UNCHANGED <<session, calls, offered, waiter>>

(* iceGatheringComplete.  A handler that was closed rejects what waited.   *)
IceGatheringComplete ==
    /\ timer' = FALSE
    /\ waiter' = "none"
    /\ IF waiter = "none" THEN UNCHANGED <<session, calls, offered>>
       ELSE IF rtc.closed
       THEN Ends(waiter) /\ UNCHANGED <<session, offered>> ELSE Resolved(waiter)

GatheringCompletes ==
    /\ ~rtc.closed
    /\ rtc.gathering = "gathering"
    /\ rtc' = [rtc EXCEPT !.gathering = "complete"]
    /\ IceGatheringComplete
    /\ UNCHANGED <<media, stray, early, other>>

(* The application has the candidates that it needs.                       *)
EnoughGathered ==
    /\ waiter # "none"
    /\ IceGatheringComplete
    /\ UNCHANGED <<rtc, media, stray, early, other>>

GatheringTimeout ==
    /\ timer
    /\ IceGatheringComplete
    /\ UNCHANGED <<rtc, media, stray, early, other>>

StrayTimeout ==
    /\ stray > 0
    /\ stray' = stray - 1
    /\ IceGatheringComplete
    /\ early' = early \cup ({waiter} \cap Caller)
    /\ UNCHANGED <<rtc, media, other>>

Close ==
    /\ ~rtc.closed
    /\ rtc' = [rtc EXCEPT !.closed = TRUE]
    /\ live' = live \ {sender}
    /\ UNCHANGED <<session, constraints, sender, local, asked, calls, offered, other, ice>>

HandlerNext ==
    \/ GetOffer
    \/ SetAnswer
    \/ SetOffer
    \/ \E c \in Caller :
          \/ MediaObtained(c)
          \/ MediaFails(c)
          \/ TrackReplaced(c)
          \/ RemoteSet(c)
          \/ Describes(c)
          \/ LocalSet(c)
          \/ DescriptionFails(c)
    \/ GatheringCompletes
    \/ EnoughGathered
    \/ GatheringTimeout
    \/ StrayTimeout
    \/ Close

HandlerSpec ==
    /\ HandlerInit /\ [][HandlerNext]_handlerVars
    /\ WF_handlerVars(GatheringTimeout)
-----------------------------------------------------------------------------
(* Properties                                                              *)

(* A caller that waits for ICE is the one that iceGatheringComplete will   *)
(* tell: a second one that waits does not leave the first pending.         *)
OneIsWaitedFor == \A c \in Caller : calls[c].phase = "gathering" <=> waiter = c

(* A caller does not wait for ICE for ever: not when the handler is closed *)
(* meanwhile, another caller waits or the candidates never come.           *)
WaitForIceEnds ==
    \A c \in Caller : calls[c].phase = "gathering" ~> calls[c].phase # "gathering"

(* Violated.  A caller waits until its candidates are gathered, its own    *)
(* timeout is over, or the application has enough.                         *)
OwnTimeout == early = {}

(* Violated.  A caller that asks for media describes what was obtained for *)
(* it.                                                                     *)
MediaIsDescribed == other = {}

(* Violated.  close() has stopped every track when no call is under way.   *)
ClosedIsSilent ==
    rtc.closed /\ (\A c \in Caller : calls[c].phase = "idle") => live = {}
=============================================================================
