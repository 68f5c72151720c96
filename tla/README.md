# A verification project for SIP.js

TLA+ models of the protocol core of SIP.js, the TLC configurations that check
them and the TLAPS proofs about them. Paths are relative to `src/src/` unless
they begin with `src/`. `PROJECT.json` holds the line-by-line map from
definitions to code, the runs, the mutants that break each property, the
hazards and the theorems. What the code does not satisfy is in section 3.2.

To check a run: `tlc -config InviteCall.cfg InviteCall`; to check proofs:
`tlapm InviteCallProofs.tla`.

## 1. The system

SIP.js is a SIP user agent in TypeScript for browsers. It is single-threaded:
what makes it concurrent is that the network, the timers, the application, and
the promises of the transport and of the session description handler call it in
any order. A *step* of every model is one run of the event loop's callback, with
every synchronous listener it reaches; whatever follows an `await`, a `.then` or
an asynchronous send is a step of its own, unless the model says that microtasks
run first.

### 1.1 Components, their state, operations and correctness

| Component (source) | State | Operations | What makes it correct | Module |
|---|---|---|---|---|
| INVITE client transaction (`core/transactions/invite-client-transaction.ts`) | state, timers B, D, M, ACK cache by To tag, pending sends | receive response, ack, send settles, timers | each 2xx fork and one failure at most told to the user; timers agree with the state | `InviteClientTransaction`, `InviteExchange` |
| INVITE server transaction (`core/transactions/invite-server-transaction.ts`) | state, timers H, I, L, progress interval, last responses | receive INVITE and ACK, reply, send settles, timers | what it repeats fits its state; it ends | `InviteServerTransaction`, `InviteExchange` |
| Non-INVITE transactions (`core/transactions/non-invite-*.ts`) | state, timers F, K / J, last response | receive, reply, send settles, timers | one outcome; one answer per transaction | `NonInviteClientTransaction`, `NonInviteServerTransaction`, `NonInviteExchange` |
| User agent clients (`core/user-agents/user-agent-client.ts`, `invite-user-agent-client.ts`) | current transaction, credentials, CANCEL | receive response, retry with credentials, cancel, timeout, transport error | one outcome, nothing lost when the transaction is swapped | `InviteUserAgentClient`; inside `InviteCall`, `EarlyDialogs` |
| User agent servers (`core/user-agents/*-server.ts`) | transaction, what may be replied | accept, progress, reject, redirect, trying, cancel | only acceptable replies | the server transactions, `InviteCall`, `EarlyDialogs` |
| UserAgentCore (`core/user-agent-core/user-agent-core.ts`) | maps of clients, servers and dialogs | dispatch, reset, dispose | every message reaches its transaction or dialog; a call rings once at a time | parts of `InviteExchange`, `NonInviteExchange`, `InviteCall`, `InviteUserAgentClient`, `UserAgentStop` |
| SessionDialog (`core/dialogs/dialog.ts`, `session-dialog.ts`) | dialog and signaling state, offer and answer, ackWait, sequence numbers | confirm, ack, bye, re-INVITE, PRACK | every 2xx acknowledged; one negotiation at a time; answers fit offers | `InviteCall`, `EarlyDialogs`, `ReInvite` |
| Re-INVITE user agents (`core/user-agents/re-invite-user-agent-*.ts`) | the transaction of a re-INVITE | accept, reject, timeout | both ends agree afterwards | `ReInvite` |
| Session, Inviter, Invitation (`api/session.ts`, `inviter.ts`, `invitation.ts`) | session state, canceled, pending offer and answer, pendingReinvite | invite, cancel, accept, reject, progress, bye | a call ends on both sides, a canceled call is never up; accept() waits for the PRACK, no handler is left over | `InviteCall`, `EarlyDialogs`, `ReInvite` |
| Registerer (`api/registerer.ts`) | state, waiting, refresh and expiry timers | register, unregister, dispose, answers | a registration is refreshed; dispose resolves | `Registerer` |
| Publisher (`api/publisher.ts`) | state, ETag, refresh timer, what is wanted | publish, unpublish, dispose, answers | a publication is refreshed | `Publisher` |
| Subscriptions (`api/subscriber.ts`, `core/dialogs/subscription-dialog.ts`, `core/user-agents/*subscribe-user-agent-client.ts`) | subscription and dialog state, timer N, refresh and retry timers | subscribe, NOTIFY, refresh, unsubscribe, dispose | a NOTIFY before the 200 counts; one dialog; refreshed; ends | `Subscription` |
| UserAgent (`api/user-agent.ts`) | Started or Stopped, its objects, reconnection attempts | start, stop, reconnect, handlers of the core | stop settles; reconnection ends | `UserAgentStop`, `UserAgentConnection` |
| Web transport (`platform/web/transport/transport.ts`) | transport state, the connect and disconnect promises, WebSocket, timers | connect, disconnect, socket callbacks | each promise settles; one live socket | `Transport` |
| Session description handler (`platform/web/session-description-handler/`) | the peer connection's signaling state, media constraints, tracks, the wait for ICE | getDescription, setDescription, iceGatheringComplete, close | one track sent, no other left on; a wait for ICE ends; directions honour a hold | `SessionDescriptionHandler`, `Hold`; its signaling in `ReInvite` |
| SessionManager (`platform/web/session-manager/session-manager.ts`) | what is wanted, Registerer, attempts to register and to reconnect, pings; held and muted per session | connect, disconnect, register, unregister, hold, mute | what the application wants is pursued; tracks follow hold and mute | `SessionManager`, `Hold` |
| Messages, parser, grammar, digest, SimpleUser, logging, emitter, Messager, Notification, Referral | | | | not modelled (section 7) |

### 1.2 How they interact

* The **transport** hands messages to the **core**, which finds by branch, method
  and dialog the server or client, or the dialog, that a message belongs to, or
  makes a new server and calls the **UserAgent** (`onInvite` ...).
* A **transaction** calls its user agent client or server (the *transaction
  user*, `core/transactions/transaction-user.ts`): `receiveResponse`,
  `onRequestTimeout`, `onTransportError`, `onStateChange`. Sends are promises: a
  rejection calls the transaction back at any later time.
* A **user agent client** calls its delegate (Inviter, Registerer), and makes
  **dialogs** of 2xx responses, which call their **session**.
* A session asks the **session description handler** for offers and answers by
  promises; the application, a CANCEL, a BYE or a re-INVITE of the peer comes in
  between.
* **Emitters** (`stateChange`, `waitingChange`) run their listeners at once, so
  that what the listener of `dispose()` does is part of the step that caused it.
* A **SessionManager** is an application over all of it: it is the delegate of the UserAgent
  (`onConnect`, `onDisconnect`), listens to its Registerer and keeps timers of its own.
* The **UserAgent** disposes of its objects and of the transport in `stop()`, one
  `await` after the other, and reconnects the transport in the background.

### 1.3 What is hard here

Late rejections of sends; retransmissions and forks of responses in any order;
timers D, I, J and K of zero length, which free a branch while its messages are
still under way; a challenge that swaps the transaction under its user; promises
of the session description handler that resolve after a CANCEL, a BYE, a second
offer or the end of the session; `once` listeners that go with the wrong change
of state; two sockets and a disconnect that race; `stop()` and `dispose()` that
await what may never come. `PROJECT.json` lists each at its line, with the
properties that watch it or the reason none does.

## 2. The modules

    ClientTransactionContract                      what every client transaction promises
      ^ implemented by InviteClientTransaction     (run InviteExchange, and theorem)
      ^ implemented by NonInviteClientTransaction  (run NonInviteExchange)

    InviteExchange        = InviteClientTransaction + two InviteServerTransactions
                            + the callee's core + network and other forks
    NonInviteExchange     = NonInviteClientTransaction + NonInviteServerTransaction, all of a core,
                            + the server's core + network
    InviteCall            = InviteClientTransaction + InviteServerTransaction
                            + Inviter, Invitation, their dialogs + network and forks
    EarlyDialogs                                   an Inviter, its early dialogs, the Invitations of
                                                   its forks + network
    InviteUserAgentClient = InviteClientTransaction, one per attempt, + the client that swaps them
    ReInvite                                       two sessions, their dialogs and handlers + network
    Subscription                                   a Subscriber, its client and dialog + notifier
    UserAgentStop         = Registerer, one per Id, + Publisher, one per Pub, + calls of stop()
    SessionManager        = Registerer, one per Id, + a SessionManager and its transport
    Hold                                           hold and mute at both ends of a call
    SessionDescriptionHandler                      one handler and its two callers
    UserAgentConnection   = Transport + start(), stop(), reconnect() and the chains of attempts

    InviteExchangeProofs            the INVITE client transaction and InviteExchange
    InviteServerTransactionProofs   the INVITE server transaction, used by the exchange and the call
    NonInviteExchangeProofs         NonInviteExchange
    EarlyDialogsProofs              EarlyDialogs
    InviteCallProofs                InviteCall and InviteUserAgentClient
    ReInviteProofs                  ReInvite
    UserAgentProofs                 UserAgentConnection, UserAgentStop and Subscription
    WebPlatformProofs               Hold, SessionDescriptionHandler and SessionManager

The composed modules take their parts by `INSTANCE`, so that a step of a
transaction in a call *is* the action of the transaction's module; nothing is
modelled twice. Small constants make the modules their own model-checking
instances: a `.cfg` gives the constants and the specification. Models that one proof
module extends have names of their own for what the others call `Init`, `Next`, `Spec`, `vars` and
`TypeOK`: `HoldInit`, `HoldNext`, `HoldSpec` and so on, with the prefixes `Stop`, `Subscription`,
`Attempt` (the authenticating client), `Hold`, `Handler` and `Exchange`.

### InviteClientTransaction

`tx` is the object: `state`, the set `timers` of running timers,
`ack[t]` the entry of `ackRetransmissionCache` for To tag `t` (`absent`,
`primed` with `undefined`, `acked`), `sending` the sends not yet settled. `tu` is
what the user was told: accepts per tag, finals, transport failure, ends, each
counted `never`, `once`, `again`. `ReceiveResponse` is `receiveResponse`, one
named action per branch of it; `ackResponse`, the settling of a send, and each
timer are actions. `TimersOf` is the timer bookkeeping of
`stateTransition`. Timer D is zero, it fires in a later step, and repeated
refusals may come before it.

### InviteServerTransaction

`tx.provisional` and `tx.final` are `lastProvisionalResponse` and
`lastFinalResponse`; `timers` includes the one-minute progress interval. The
replies are taken through the predicates of `UserAgentServer`
(`acceptable`, `progressable` ...): a reply they refuse throws before anything
changes and is no step. `Terminate` is `dispose()`.

### InviteExchange

The two transactions with the core of the callee between them. `first` and `second` are the
server transactions of the INVITEs that came by two paths, which differ in their branch;
one that is Terminated is not in `userAgentServers` any more. An INVITE finds the
transaction of its branch (`InviteMatches`), that of the other branch and is refused with 482
(`InviteMerges`, `user-agent-core.ts:525`), or none (`InviteIsNew`). `served` counts them and
gives each its To tag, `owner` says which of them a path has now; `replies` are the responses
sent, each of which arrives at the caller any number of times or never. Every tag of `Tag`
above `MaxServed` is another fork, which answers as it likes.

### NonInviteClientTransaction, NonInviteServerTransaction, NonInviteExchange

The two transactions of a request that is not an INVITE, and their composition
over a network that may lose, repeat and reorder. Because timer J is zero, a late
copy of the request finds no server transaction and is served again. `servers` are the
server transactions, of which `served` were made, each with the sends it has pending, and
`known` is the one that `userAgentServers` has under the branch. They outlive their place in it: a send that
rejects when its transaction is over ends that once more, and `onStateChange` removes
whatever there is under the branch (`user-agent-server.ts:250`, `ServerEnds`), the next transaction
if it has been made. The next copy is then served by another, while the one removed goes on: its user
may still reply. `replies` remembers which of them said what.

### InviteCall

An Inviter's INVITE reaches an Invitation through a proxy which may fork it to
branches outside of the program (`Fork`), which accept or are silent. `net` is the
set of messages ever sent: a message stays, so that it may arrive late, twice or
never. The asynchronous calls of the session description handler are the flags
`answering`; `CallerAnswers`/`CallerGivesUp` and
`CalleeAnswers`/`CalleeAnswerFails` are how they settle, at any time. A session's
transition that `stateTransition` of `session.ts` refuses throws: the flag
`threw` records it. `hangup` is the delegate or the state listener that `bye()`
before the ACK leaves behind.

### EarlyDialogs

`caller` is the Inviter with what matters of its transaction: the dialog it took, the early dialog
whose answer `earlyMedia` applied, what it is `applying`. `early[f]` is the SessionDialog of fork
`f` at the caller: its signaling state, the last RSeq (`reliableSequenceGuard`), the handler that
`onProgress` made for an offer in it, and how often an offer of it was answered (a counter of
the model's). `callee[f]` is the Invitation of `f`: `waitingForPrack`, what `progress()`, `prack()` and
`accept()` still have to do, its two timers, and the RSeqs that were PRACKed. `Described` is
what a response carries: the first one of a dialog has the answer, or the offer if the INVITE
had none, later ones have nothing. What follows the 2xx is `InviteCall`'s.

### InviteUserAgentClient

One INVITE, challenged by 401/407 again and again: `txs[a]` is the transaction of
the `a`-th attempt, `uac.current` the one the client has now. The guard of
retries is `authenticationGuard`'s: one retry, and one more if the challenge says
`stale`. The core hands a response on the branch of any living transaction to the
current one.

### ReInvite

Both ends of an established call. `dialog[s]` is the SessionDialog of side `s`:
its signaling state with the offer and the answer it holds and what it would roll
back to, the numbers of the re-INVITE it sent (`client`) and serves (`server`),
and its sequence numbers. `session[s]` is `pendingReinvite`,
`withoutSdp` and the promises that are pending (`work`); `sdh[s]` is the
handler. A body is named by its negotiation, so that an answer taken for an
answer to another offer shows. A call of the handler takes effect when its promise
settles, a rollback when it is called. Messages overtake each other or never
arrive. When a side closes the dialog its session is Terminated in the same step.
Session sends no 1xx or 3xx to a re-INVITE, a proxy does: `ReceiveProgress` (`proceeding` is a provisional
response, after which timer B does not run any more), and `ReceiveRedirect`, which the session ignores
(`lost` records that `pendingReinvite` stays, as it does when `invite()` throws).
`lapsed` says that a re-INVITE timed out that its receiver may have served: nothing
in the code then brings the ends together again. `HasRollback` says whether the
handler implements `rollbackDescription`; the one of `platform/web` does not.

### Subscription

`sub` is the Subscriber, `req` the client of the first SUBSCRIBE waiting for its
NOTIFY (timer N), `dialog` the SubscriptionDialog with its timer N, its refresh timer
and its delegate, `asked` the SUBSCRIBEs without a final answer, one of each kind
and generation. `plan` is `_subscriptionRefresh`: none, the time of the refresh timer (`due`), or
that of a timer which an Expires of zero has stopped (`stale`, `Expired`); the setter plans nothing if it takes
what is planned to come soon enough, stale or not (`Replanned`). `over` says that no time is left by the
last message, `told` that it was a NOTIFY which told a time. `req.zero` is a first 2xx with an Expires of
zero, which the dialog is made with. A `.then` runs before any other event and belongs to the step. Application:
it leaves a Subscriber alone once it is disposed of.

### Registerer, Publisher, UserAgentStop

`regs[i]` is a Registerer: `state`, `waiting`, `disposed`, whether the refresh and the
expiry timer run, the outstanding request, and what `dispose()` waits for
(`closing`); `dropped` says that `waiting` is set and no answer to come resets it, because `onAccept` was left
early. The listeners of the emitters are called inside the step
(`Toggled`, `Enter`, `Close`). `pubs[p]` is a Publisher: it sends a PUBLISH at every
call, so that several are outstanding (`puts`, `removes`) and are answered in any
order; `lost` are refresh timers that `publishRefreshTimer` forgot and that still
fire; a 2xx has a SIP-ETag or none, and an Expires of zero or not (`Successful`); `unpublishOnClose`
is as by default. `UserAgentStop` runs calls of the
graceful `stop()` over them: each call copies what was not disposed of, awaits the
disposal of one Registerer after the other, then disposes of the Publishers without
waiting for the un-PUBLISH, disconnects the transport and disposes of the core,
after which no answer arrives.

### Transport, UserAgentConnection

`tp` is the transport: its state, its current socket, its timers, and `stuck`, the
flag `transitioningState` that a listener that throws leaves set (`Course` gives
the ways a transition may run). `sockets` are WebSockets in the browser, some of
them left behind to close; `calls` the last connect() or disconnect() of each
caller. `UserAgentConnection` adds the callers: `start()`, `stop()` with and without
`gracefulShutdown`, `reconnect()` and the chains of `attemptReconnection`. Microtasks run before
timers and socket events (`Quiet`).

### SessionManager

`wanted` is `shouldBeConnected` and `shouldBeRegistered`. `attempt` is the one attempt to
register that `registrationAttemptTimeout` stands for: its timer runs (`now`, `later`), it waits for
`registerGuard` (`guarded`), or it threw out of the timer, which leaves the field set
(`stuck`). `current` is the Registerer the manager has, `regs` those it had too: a connection that is lost
disposes of one without waiting (`Loses`), and the next `register()` makes another.
`chains` are the calls of `attemptReconnection` under way; the code starts another though one is. The
transport is its four states, `agent` the user agent with its `stop()`. A step of a Registerer
is the action of `Registerer`, followed by what the listener of `stateChange` and the delegate that
`registrationRetry` installs do (`After`). `gaveUp` records what the code leaves to the application.

### Hold

Both ends of a call with a ManagedSession each. `option` is the hold option in
`sessionDescriptionHandlerOptionsReInvite`, `invite` the re-INVITE of a side with the hold it is for and the
hold its offer was made with, `serving` that a side makes an answer to the offer of the peer (`pc[s].remote`): `shared` says
that the handler was given the very object that `setHold` writes to. `DirectionToOffer` and
`AnswerDirection` are the two functions of `updateDirection`; `pc[s].current` is the
direction in effect. `tracks` are the enabled tracks. `setHold` needs the web platform's handler, which has no
`rollbackDescription`: what is refused or fails leaves its peer connection in have-local-offer or
have-remote-offer, in which it takes no offer, makes none, or makes its offer as the answer to
the one it still has (`OfferIsAnswer`).

### SessionDescriptionHandler

`calls` has the two callers that a Session can have at a handler at once: `invite()`, for an offer and
then its answer, and `onInviteRequest`, which sets the offer of the peer and gets an answer. `phase` is
the promise that a call waits for. `asked[m]` is what the factory was asked for when it gave the
track `m`, `live` the tracks that nobody stopped, `sender` the one sent. `waiter`, `timer` and `stray`
are the promise of the wait for ICE, its timer, and timers whose id was overwritten.

## 3. What is checked

Deadlock is checked in `NonInviteExchange`; elsewhere the system stops when the call is over,
everything is disposed of or the bounds are used up, and the `.cfg` says so. `TypeOK` of a
module documents its variables; for the modules of section 4 that it is proved of, and for
the others it holds in the runs too, but no `.cfg` lists it.

### 3.1 Passing runs

| Run | States | What it shows |
|---|---|---|
| `InviteExchange` | 637,741 | `OneOutcome`: the caller hears each 2xx once, one failure at most and never both. `TimersMatchState`: a timer runs only where its callback acts. `ResponsesFitState`: what a server transaction sends again fits its state. `OneCallAtATime`: the callee rings for one INVITE at a time, by whatever paths it comes. `AnsweredEnds`. The caller implements `ClientTransactionContract`. |
| `NonInviteExchange` | 599,308 | `OneAnswerPerTransaction`, of transactions that are forgotten while they live too; `ClientEnds`; the client implements `ClientTransactionContract` even if the request is served twice, or by two at a time. |
| `InviteUserAgentClient` | 8,764 | `OneAttemptOutcome` over all the transactions of a challenged INVITE, with the ACK of a challenge that fails as its only exception; `RequestSettles`: three attempts at most, and an outcome or a last transaction that stays Proceeding; a retry is not lost between two transactions. |
| `InviteCall` | 70,231 | `NoStrayDialog`: every dialog but the session's is closed. `CanceledStaysDown`. `OneFinalAnswer` of the Invitation however accept, reject, CANCEL and timers race. `EveryAcceptIsAcked` (no early media here), `HangupCompletes`; `CancelEndsTheCall` over a transport that delivers. |
| `EarlyDialogs` | 229,885 | With two forks. `AcceptWaitsForPrack`: no 2xx over a described provisional that is not acknowledged. `OneAnswerPerOffer`: neither a repeated 183 nor the 2xx gets an offer a second answer. `NoEarlyHandlerLeft`: when the call is up or over, the only handler left is the session's. `AcceptEnds`. |
| `ReInvite` | 963,783 | With two re-INVITEs of the caller and one of the callee that cross. `OneNegotiation`: the ends never serve two at once. `AgreeWhenQuiet`: both end with the same description. `ReinviteSettles`: `pendingReinvite` is reset, but for a redirect, an `invite()` that throws without SDP, and a provisional that nothing follows. |
| `Subscription` | 41,735 | `SubscriptionIsRefreshed` after a NOTIFY that told the time (but for a `stale` plan), `WaitEnds`, with answers and NOTIFYs in any order, a notifier that ends and asks for retries, and `dispose()` at any time. |
| `UserAgentStop` | 149,677 | `RefreshIsPending` of a Registerer (unless `dropped`) and a Publisher (unless it has no ETag) through two calls of `stop()` and what the application goes on doing; `DisposeResolves`; `LoneStopSettles`. |
| `UserAgentConnection` | 59,119 | `PromisesMatchState`: no promise is lost or settled twice; `SocketMatchesState`: one live socket; `CallsSettle`; `ReconnectionEnds`. |
| `SessionManager` | 2,130,247 | `RegistrationIsPursued`, `ConnectionIsPursued`: what should be connected or registered is, or something is under way that will see to it, or the code has left it to the application. |
| `Hold` | 2,269,364 | `HoldIsHonoured`: after a negotiation for a hold nothing is received. `MediaComesBack`: when both ends have held and unheld as they like, media flows to whoever does not hold. `TracksFollowHold`: hold and mute keep each other's choice. |
| `SessionDescriptionHandler` | 404,300 | `OneIsWaitedFor`, `WaitForIceEnds`: calls that overlap, close() and candidates that never come leave nobody waiting. |

### 3.2 What the code does not satisfy

These properties are what a comment, a name or the code around it says. They are stated in the modules,
after "Violated.", and no `.cfg` lists them; named in the module's `.cfg`, each gives TLC's counterexample.

| Property | What the code does |
|---|---|
| `InviteCall.ByeEndsSession` | A BYE while the caller applies the answer is dropped by `Session.onByeRequest` (`api/session.ts:879`); the dialog is disposed of, and the session becomes Established in it. `session-dialog.ts:622-624` says the session is to terminate. |
| `EarlyDialogs.AcceptIsAcked` | A 2xx that finds early media failed, and the Inviter Terminated, is dropped without an ACK (`inviter.ts:791`). `invite-user-agent-client.ts:307`: "MUST generate an ACK request for each 2xx". |
| `NonInviteExchange.TerminatedIsRemoved` | A late failure of a transaction that is over removes the one that serves the next copy of its request (`user-agent-server.ts:250`), and another copy is served by a second live one. `user-agent-server.ts:248`: "Remove the terminated transaction from the core." |
| `ReInvite.PendingIsOutstanding` | A redirect, or an `invite()` without SDP that throws, leaves `pendingReinvite` set (`api/session.ts:523`, `:576`): every later `invite()` is refused, and the handler keeps the offer of a redirected one. `session.ts:101`: "True if there is an outgoing re-INVITE request outstanding." |
| `ReInvite.NoOfferLeft` (with `HasRollback = FALSE`) | A re-INVITE that is refused leaves its offer with the web platform's handler, which has no `rollbackDescription` (`api/session.ts:1213`): it makes no other offer and takes the peer's next offer for an answer. `re-invite-user-agent-client.ts:93-94` says nothing is to have changed. |
| `UserAgentStop.WaitsForAnswer` | A 2xx without Contact, or with one that does not parse, which makes the handler throw (`registerer.ts:366`, `:380`), leaves `waiting` set, which is "True is waiting for final response to outstanding REGISTER request." (`:47`): later calls are refused, and `dispose()` does not resolve. |
| `UserAgentStop.PublicationIsRefreshed` | A 2xx without SIP-ETag plans a refresh that throws for want of one (`publisher.ts:208-212`, `:308-320`): the Publisher is Published with nothing pending. `publisher.ts:227` says "Schedule refresh". |
| `Subscription.AutoRefreshes` | After a refresh, a NOTIFY without `expires`, or an Expires that is not less than what was left, plans nothing (`re-subscribe-user-agent-client.ts:44`, `subscription-dialog.ts:226`); and neither does a NOTIFY after an Expires of zero, which stops the timer and keeps `_subscriptionRefresh` (`:439`). `core/subscription/subscription.ts:20`: "refresh subscription prior to expiration". |
| `Subscription.SubscriberDisposes` | `dispose()` of a Subscriber waits for `onTerminated`, which a NOTIFY does not call: it never resolves (`api/subscriber.ts:166`; `:148` says "when it has terminated"), nor does a `stop()` that awaits it. |
| `SessionManager.StaysUnregistered` | An attempt to register that `register()` or a retry has planned registers after `unregister()` (`session-manager.ts:992`): its timer looks at everything but `shouldBeRegistered`. |
| `SessionManager.WantedIsStarted` | `connect()` while `disconnect()` waits for the transport ends with a Stopped user agent that nothing starts again (`session-manager.ts:416`). |
| `SessionManager.RegisterIsRemembered` | `register()` while an un-REGISTER is pending: the RequestPendingError counts as success (`session-manager.ts:1003`), and nothing attempts again. |
| `Hold.HeldIsNegotiated` | `setHold` writes the hold option before `invite()` refuses (`session-manager.ts:1432`): the offer of a `hold()` that an `unhold()` overtakes is no hold, and `isHeld()` is true. |
| `Hold.SilentWhenHeld` | A failed unhold restores `held` but not the tracks that `mute()` has set for it (`session-manager.ts:1454`). |
| `SessionDescriptionHandler.OwnTimeout` | The timer of a superseded wait for ICE is not cleared (`session-description-handler.ts:896`) and ends the next wait early. |
| `SessionDescriptionHandler.MediaIsDescribed` | `localMediaStreamConstraints` is set before there is media (`session-description-handler.ts:515`): after a failure the next call describes what is not there. |
| `SessionDescriptionHandler.ClosedIsSilent` | Media that comes after `close()` is never stopped (`session-description-handler.ts:535`). |

### 3.3 More that was seen while modelling

The models have these behaviours; the properties are stated around them where they
say so.

*Transactions and clients*

* Two sends that reject each tell the user of the transport error; the transaction
  ends twice (`tu.ended = "again"`).
* Timer H, a refusal whose ACK is lost, is not reported (`invite-server-transaction.ts:396`).
* `trying()` after `progress()` makes the extension interval repeat a 100.
* The failing ACK of a challenge is reported as a 503 of the INVITE, and a challenge
  repeated on the old branch is handed to the new transaction (`user-agent-core.ts:886`).
* A CANCEL wanted before a challenge is lost with the first transaction
  (`user-agent-client.ts:141`).

*Calls*

* A BYE before the ACK: timer L makes the callee say BYE in a closed dialog
  (`session-dialog.ts:926`).
* The second fork of a canceled INVITE makes the Inviter leave Terminated, which
  throws (`inviter.ts:669`, `session.ts:1385`).

*Early dialogs*

* An answer for a fork's offer that fails, or is rejected because `disposeEarlyMedia` closed its handler when
  another fork was taken, terminates the session (`inviter.ts:1066`), even an Established one, without a BYE.
  So does an answer that `earlyMedia` applies and that fails after the 2xx.
* Early media that fails before the 2xx terminates the Inviter without a CANCEL; the 2xx that follows is
  dropped and not acknowledged.
* `InviteUserAgentServer.accept` repeats the dialog's answer in the 2xx even if it is the caller's own, from a PRACK.
* `accept()` between `onPrack` and the end of its `setAnswer` does not wait for it; nor for a second provisional,
  without description, that is sent then.
* `rseq` may be 0 (`invitation.ts:54`), which `inviter.ts` takes for an unreliable response: no PRACK, and a 504.
* The early dialogs of an INVITE that is refused or canceled are never disposed of at the callee.
* `earlyMedia` has an effect with `inviteWithoutSdp`, against `inviter-options.ts:15`: the 2xx finds a session
  description handler defined and throws, un-ACKed.

*Re-INVITE*

* An `invite()` without SDP that throws leaves `pendingReinvite` set (`session.ts:576`):
  `lost` in the model. A 3xx does not reset it either, nor does it make the handler drop its offer.
* A re-INVITE that has a provisional response and no final one is waited for without end: the provisional stops timer B.
* An offer that is made after the peer's re-INVITE came in stays with the handler, even
  if it can roll back.
* A missing ACK leaves `reinviteUserAgentServer` set for ever (the FIXME of
  `session-dialog.ts:987`).
* A re-INVITE that times out at its sender and was served leaves the ends with
  different descriptions.

*Registerer, Publisher, `stop()`*

* A 200 without Contact, or with one that does not parse, leaves a Registerer waiting for ever
  (`registerer.ts:366`, `:380-382`): `dropped` in the model. In the second case it stays as it was, with its expiry
  timer alone. So does `register()` while `stop()` disconnects: the core drops the client, and no answer comes.
* The expiry timer may resolve `dispose()` before the REGISTER is answered (`registerer.ts:255`).
* A second `stop()` disposes of the core under the first, which may never settle
  (`user-agent.ts:469`); a Registerer that the application disposed of just before is not awaited.
* `unpublish()` or `dispose()` before the first 2xx sends no removal; the 2xx then
  leaves the Publisher Unpublished while the server holds the publication (`publisher.ts:216`).
  `publish()` soon after `unpublish()` ends Unpublished when the removal's 2xx comes first.
* `publish()` again before the answer forgets a refresh timer (`publisher.ts:228`) and
  makes publications that nobody removes.
* An Expires of zero in the 2xx to a PUBLISH makes the Publisher Unpublished without `unpublish()`; so does a Min-Expires
  of zero in a 423, once what it repeats is answered.
* Transitions that throw skip the receiver's cleanup; `publish()` and `unpublish()` do not
  look at `disposed`.
* `user-agent.ts:445-453` says that each publisher's un-PUBLISH is waited for; it is not.

*Subscriber*

* The refresh timer runs on after `unsubscribe()` (`subscription-dialog.ts:345`), and a 200
  that is late sets one on a dialog that is over, which throws when it fires.
* An Expires of zero in the 2xx to a refresh leaves the dialog as it is, without a timer; in the first 2xx it is what
  the dialog is made with.
* A 481 to a SUBSCRIBE in an old dialog terminates the new one.
* A second retry-after timer takes the place of the first, which is not cleared any more.
* `dispose()` rejects ("Dialog undefined") when the first NOTIFY asked to subscribe again.
* `deactivated` is followed by a new SUBSCRIBE at once, without bound.

*Transport*

* `reconnect()` and `stop()` in one task connect a Stopped user agent; a reconnection
  attempt aborts the disconnect of a graceful `stop()`.
* A callback that throws leaves the transport refusing every call (`stuck`).

*SessionManager and handler*

* `managedSessions.length > maxSimultaneousSessions` (`session-manager.ts:203`, `:529`) lets one more in than
  "Maximum number of simultaneous sessions to manage." (`session-manager-options.ts:106`), and the Inviter of a REFER is not counted.
* `attemptReconnection` logs that an attempt is in progress and starts another chain all the same.
* `register(options)` replaces the delegate that retries (`registrationRetry`); a 423, a redirect or a 200 without
  Contact is not retried either, though `session-manager-options.ts:173` says any failure is.
* A hold that is refused leaves its option, which the next answer is made with (`strayed` in `Hold`), and its offer,
  which leaves the handler in have-local-offer for the rest of the call: it makes no offer and takes none. An answer
  that fails leaves it in have-remote-offer: its next offer is the answer to the one it has (`OfferIsAnswer`), which the peer takes for an offer.
* An offer of ours that waits for ICE makes an answer of ours that waits fail: the peer's re-INVITE is refused.
* Without a timeout, a wait for ICE is left pending by `close()`; the model has the timeout.

### 3.4 Bounds, and why they are enough

* `MaxSending` (2 or 3): sends pending at a time. What the code does on the n-th
  rejection depends only on the state it finds; two pending sends give every
  pair of a send and a state that the other brought about. Each step that sends has
  the guard `CanSend`; a receipt is taken later rather than lost.
* `Fork = {f}` in `InviteCall`, `{f1, f2}` in `EarlyDialogs`: forks meet only in being *the first* and
  *another*. `MaxProgress = 2`: a provisional with a description and one without; `FirstRSeq = {0, 1}`: none and some.
* `Tag = {0, 1, 2}`, `MaxServed = 2`: the replies of no transaction (482) and of two, one after the
  other; a third service of a request is to the second what the second is to the first. `MaxSending = 1` in
  `InviteExchange` and `NonInviteExchange`: one pending send of each transaction, which may settle at any later state.
  `MaxServed = 3` in `NonInviteExchange`: one whose send fails late, one that this removes, and one that is made then.
* `MaxAttempt = 4`: one more than the code makes.
* `CallerInvites = 2`, `CalleeInvites = 1`: a re-INVITE that crosses one of the peer's, and
  one that follows another of the same side.
* `Id = {r1}`, `Pub = {p1}`, `Call = {stop1, stop2}`, `MaxRequests = 2`: the objects meet only in
  the order in which `stop()` takes them; two calls of it overtake one another; two
  PUBLISHes outstanding are a request and an earlier one.
* `Socket = {s1, s2}`: the current one and one that closes. `Chain = {chain1}`,
  `MaxAttempts = 2`: an attempt with and one without a successor.
* `SessionManager`: two Registerers, one of an earlier connection and the current one; one chain with
  `MaxAttempts = 2`, an attempt with and one without a successor; a connection is not lost while the chain has no room (bound).
* `SessionDescriptionHandler`: two devices and three streams, so that one is asked for twice; one stray timer.
* `Count` ends at `again`: no property tells two from three.
* `net` of `InviteCall` and `replies` of `NonInviteExchange` keep every message, so that
  delay, duplication and reordering have no bound. In `ReInvite` a message arrives once:
  the transactions absorb copies.
* `Subscription` remembers one outstanding SUBSCRIBE of each kind.

The theorems of section 4 hold for every value of the bounds.

### 3.5 Fairness, and why the code justifies it

* Timers (`WF` of each timer action; in `InviteExchange` of the caller's and of each server's; the
  wait for a PRACK, the wait for ICE): `setTimeout` and `setInterval` fire if they
  are not cleared. The progress interval, the keep-alive and the refresh timers of
  Registerer and Publisher are not fair: nothing depends on them.
* Pending sends and the handler's promises settle (`WF`, as a transport's promise does; in `EarlyDialogs`
  what `progress()`, `accept()` and `prack()` wait for, fork by fork);
  in `InviteCall` the settling of an offer or answer is `SF`, because the bound on sends,
  which the code does not have, disables it now and then.
* In `UserAgentConnection` timers and closing sockets are `SF`: they wait for the
  microtasks of other callers, which come and go.
* Messages: none is assumed to arrive. `CancelEndsTheCall` states what it needs as
  its hypothesis: `Delivery`, every message arrives at last, and no send fails; without
  it a lost CANCEL leaves a ringing call ringing. `ReInvite` relies on timer B
  (`ReinviteTimesOut`) instead, which runs until the first provisional response.
* `Subscription` assumes that a notifier ends what a subscriber has left.
* `UserAgentStop` assumes that a REGISTER gets an answer, which is what `ClientEnds` and
  the contract of the non-INVITE client transaction show (timer F at the latest),
  unless the core is disposed of.
* The application is never fair: it need not cancel, accept or hang up.

## 4. What is proved

Every invariant that a run checks is stated by a theorem, and so is the refinement of the contract by
both client transactions.

| Theorem | Module | Statement |
|---|---|---|
| `TypeCorrect` | `InviteExchangeProofs` | `Spec => []TypeOK` |
| `TimersAreRight` | | `Spec => []TimersMatchState` |
| `OutcomeIsUnique` | | `Spec => []OneOutcome` |
| `NeverEndsSilently` | | `Spec => []NoSilentEnd` |
| `CacheIsRight` | | `Spec => []AckOnlyWhatWasHeard` |
| `KeepsContract` | | `Spec => ImplementsContract` |
| `CalledOnceAtATime` | | `ExchangeSpec => []OneCallAtATime` |
| `ServersRepeatWhatFits` | | `ExchangeSpec => []ResponsesFitState` |
| `ExchangeOutcome` | | `ExchangeSpec => [](OneOutcome /\ TimersMatchState)` |
| `ExchangeKeepsContract` | | `ExchangeSpec => ImplementsContract` |
| `ResponsesFit` | `InviteServerTransactionProofs` | `Spec => []ResponsesFitState` |
| `ServersAnswerOnce` | `NonInviteExchangeProofs` | `Spec => []OneAnswerPerTransaction` |
| `ExchangeKeepsClientContract` | | `Spec => ImplementsContract` |
| `PrackIsWaitedFor` | `EarlyDialogsProofs` | `Spec => []AcceptWaitsForPrack` |
| `OffersGetOneAnswer` | | `Spec => []OneAnswerPerOffer` |
| `EarlyHandlersAreClosed` | | `Spec => []NoEarlyHandlerLeft` |
| `AnswerIsUnique` | `InviteCallProofs` | `Spec => []OneFinalAnswer` |
| `CancelIsFinal` | | `Spec => []CanceledStaysDown` |
| `DialogIsUnique` | | `Spec => []NoStrayDialog` |
| `RetriesTellOnce` | | `AttemptSpec => []OneAttemptOutcome` |
| `NegotiationIsUnique` | `ReInviteProofs` | `Spec => []OneNegotiation` |
| `EndsAgree` | | `Spec => []AgreeWhenQuiet` |
| `PromisesAreKept` | `UserAgentProofs` | `Spec => []PromisesMatchState` |
| `SocketsAreKept` | | `Spec => []SocketMatchesState` |
| `RefreshesArePending` | | `StopSpec => []RefreshIsPending` |
| `SubscriptionsAreRefreshed` | | `SubscriptionSpec => []SubscriptionIsRefreshed` |
| `HoldsAreHonoured` | `WebPlatformProofs` | `HoldSpec => []HoldIsHonoured` |
| `MediaFlowsAgain` | | `HoldSpec => []MediaComesBack` |
| `TracksAreRight` | | `HoldSpec => []TracksFollowHold` |
| `WaitersAreTold` | | `HandlerSpec => []OneIsWaitedFor` |
| `RegistrationsArePursued` | | `Spec => []RegistrationIsPursued` |
| `ConnectionsArePursued` | | `Spec => []ConnectionIsPursued` |

Assumptions on constants, and no others: `MaxSendingAssumption` (a positive number),
`BranchAssumption` (the Callee is no other fork and `none` is no branch),
`SocketAssumption` (`none` is no socket), `MaxServedAssumption` (the tags have one for each
transaction the callee makes, and 0), `EarlyDialogsAssumption` (`None` is no fork, the bounds are numbers),
`MaxAttemptAssumption` (an INVITE is sent once at least), `SideAssumption` (a call has two ends),
`ManagerAssumption` (`none` is no Registerer, the attempts to reconnect are a number, 0 included).
`ReInvite`, `Subscription`, `UserAgentStop` and `SessionDescriptionHandler` need none.

**INVITE client transaction.** `OneOutcome` is not inductive: that a forked 2xx is told
once rests on the cache (an entry exists exactly for the tags that were told), and
that a failure is never told after a 2xx rests on the timers and on what was told in
each state (`HeardMatchesState`). The inductive invariant is the conjunction of these;
each theorem is a conjunct of it. `KeepsContract` maps each action to the contract's
action of that name or to a stutter, with the invariant supplying the guards.

**INVITE server transaction.** Timer I does not look at the state: the invariant adds
that it runs while Confirmed alone.

**Exchange.** Each step of the exchange is a step, or a stutter, of the caller's module and of each server's, so
that what is proved of them holds in their composition. `OneCallAtATime` is inductive with one
more fact: a transaction that lives is the last one made, and all before it are answered. A server
transaction ends only by a timer that runs after its final answer, which is in `replies` by then.

**Non-INVITE exchange.** The final answers of each server transaction on the wire are the one that it
has, and one that is over says nothing more, its late failures included, as its Terminated is for good (`ServerInv`): that holds
of every transaction, removed or not, so that it does not matter which one the core has. A transaction that
is not made yet has said nothing. The client's
user is told an outcome in Trying and Proceeding alone (`ClientInv`); each step tells it one of four things
(`ClientTells`), and each of them is a step of the contract, whatever the servers do.

**Early dialogs.** For `AcceptWaitsForPrack` the messages are tied to the Invitations (`NetInv`, `StateInv`):
a PRACK is of a provisional that was sent, one provisional of a fork has a description, and no other is
sent before that one has its PRACK. Hence each point of `progress()` and `accept()` that goes on has the
PRACK or has nothing to wait for. `OneAnswerPerOffer` needs the other direction too (`AnswerInv`): a fork that sends
anything after its offer has the caller's PRACK, and the caller sends it when it has answered, which
leaves the dialog Stable. `NoEarlyHandlerLeft` is inductive with the types, and the fact that what is applied is
applied in a dialog. No induction is over the number of forks or of provisionals: both are parameters.

**Call.** The steps of the server transaction inside of the call are shown to be those of
its module (`ServerIsServer`), so that its invariant is had for nothing. `OneFinalAnswer` then
needs that an answer in the network means a transaction past Proceeding, and that it never
goes back. For the caller, `NoStrayDialog` and what a canceled session may be are inductive
with the types: each step either leaves the session's dialog and its claim on it alone
(`SameCall`), or opens the first dialog, or closes the only one.

**Authenticating client.** `AttemptInv` adds to the types that an INVITE that is not settled is a pending
send of its transaction (so that a send that settles late settles a send that there is), and that while the
current transaction is Calling or Proceeding its delegate was told nothing but a failed ACK. Each step that tells
an outcome leaves those two states, for that attempt and for those before it. The number of
attempts is a parameter.

**Re-INVITE.** A re-INVITE is in one place at a time: it or its answer is under way, the peer serves it, or its own
side applies the answer (`Place`). Each place has a state of both dialogs that goes with it (`Shape`), and both ends
are agreed on the same description, which each holds now or as what it would roll back to (`Base`).
`OneNegotiation` is part of `Placed`, and when nothing is under way the shapes leave two idle dialogs with one
description. Every action is one of ten moves of a re-INVITE (`StepsMove`), each of which keeps all three: a redirect is a refusal
that is heard in place of the INVITE, and a provisional response moves nothing. That a move
starts no second negotiation rests on the 491 and 500 of `session-dialog.ts` and on the guard of `invite()`. When a re-INVITE that
was served has timed out (`lapsed`) nothing is claimed; when one end is gone, no shape.

**Connection.** A transition that ends settles every promise of the state it leaves, and
those are all that pend (`AllSettle`); one that throws leaves the transport stuck, which
no step undoes. `SocketMatchesState` needs that the transport's socket exists outside of
Disconnected and that its connection timer runs while Connecting alone (`Current`).

**Refreshes.** Each Registerer and each Publisher keeps an invariant of its own (`RegInv`,
`PubInv`), proved of the functions that change it, whoever calls them; a step of the user
agent is a step of one of them or of none. For a Registerer the hard part is what `dispose()` waits for: a
dispose under way relies on a request or an answer to come, and a transition that threw on
a Terminated one; a Registerer that waits has a request, or is `dropped`. For a Publisher, a timer in state
Published has something wanted, and so taking it away sends a request, if there is an ETag. The bound `MaxRequests` plays no part.

**Subscription.** A NOTIFY and an answer each find what the other has planned. `SubscriptionInv` adds that a refresh
which is planned (`due`) has its timer until the dialog is left (`PlannedHasTimer`; an Expires of zero stops the
timer, and what was planned is `stale`), that a dialog which lives came of the SUBSCRIBE, which nothing waits for any
more (`LiveWasAsked`), and that an un-SUBSCRIBE is the last that the Subscriber does in a dialog
(`LeaveIsLast`).

**Hold.** Per side: its offer is under way, with the peer, or answered, and a side that serves has not sent or made an
offer (`InOnePlace`). What came to nothing leaves an offer for good, so that the invariant also says whose
(`Left`): a side whose own offer is left is `Doomed`, its option may differ from what it negotiates (`strayed`), it is
it makes no offer and takes none any more, and only its peer can have a remote offer left and send an answer
as an offer, which comes to nothing in turn. Offer and answer say what the option was when they were made (`SaysOption`); of a side of which
nothing was refused, option, `held` and the directions of both ends agree (`Steady`); and what was last negotiated
for a hold receives nothing (`Honoured`). `TracksFollowHold` is inductive with the types. The proof is for any two ends.

**Session description handler.** `OneIsWaitedFor` is inductive with the types of the calls alone: a second wait
rejects the first in the same step, and every way out of a wait (the state change, the timeout, a stray timeout, the
application, `close()`) clears both.

**SessionManager.** `ManagerInv` says of the Registerer that the manager has (`CurrentIsInUse`) that nobody disposed of it and
that it threw in no transition: hence an attempt to register comes to an end (it is never `stuck`), and over a
connection there is a Registerer for whoever wants to be registered. Of the connection it says (`ConnectionFits`)
that a stopped user agent is disconnected, that a `stop()` which waits for the transport has it disconnecting, and that pings run over a
connection alone. What a Registerer does is taken from the functions of its module; `After` then shows that each
way in which one stops being registered, or is refused, plans an attempt or gives up. The case `MaxAttempts = 0`, which
no run has, needs the branch of `attemptReconnection` that makes no attempt at all
(`session-manager.ts:880`): `gaveUp` records it in `Loses`.

Only model-checked: liveness (`AnsweredEnds`, `ClientEnds`, `RequestSettles`, `EveryAcceptIsAcked`,
`HangupCompletes`, `CancelEndsTheCall`, `AcceptEnds`, `ReinviteSettles`, `WaitEnds`, `DisposeResolves`,
`LoneStopSettles`, `CallsSettle`, `ReconnectionEnds`, `WaitForIceEnds`), which the prover does not
reach. That the properties of section 3.2 fail is TLC's finding too.

## 5. Mutants

Every property of every passing run has a mutant in `PROJECT.json`: a definition,
as a plausible mistake in the code it models would have it, with which TLC finds
the property violated. They stand in the modules, marked as such, before
what they mutate.

## 6. Plan

Done, in this order: the INVITE client transaction with its contract and proofs, the
server transaction, the non-INVITE pair and their exchange, the call, the Registerer and
`stop()`, the authenticating client, the transport and its user agent, subscriptions,
re-INVITEs, the Publisher, the SessionManager, hold, the session description handler, the exchange of INVITE
transactions with the dispatch of the core, early dialogs with PRACK, and the proofs of section 4.

Next:

1. `stop()` over sessions and subscriptions (the second part of `user-agent.ts:467-580`).
2. REFER and Replaces, as they end one session for another.
3. ACKs and CANCELs without transaction, stateless replies (`user-agent-core.ts`).
4. Proofs: that each part of the call and of the early dialogs is a step of the abstract client transaction
   (the caller of `InviteCall` implements `ClientTransactionContract`), and what the ends of a wait leave behind
   (action properties of `Transport` and `Subscription`).

## 7. Not modelled, and why

* Parsing, formatting, the grammar, digests: functions of data without protocol state.
* `RTCPeerConnection` and ICE: in the browser. Its promises settle in the models at any time; of its
  state the models have the signaling and gathering states and the directions.
* The remote stream, data channels, DTMF and modifiers of the handler; SimpleUser, a wrapper; the media elements
  and the set of managed sessions of SessionManager.
* REFER and Replaces (plan, 2); INFO and MESSAGE are requests of their own with no state in the session.
* Messager, Notification, Referral, the other request user agents: wrappers of one
  request or response.
* Header contents, Retry-After and Min-Expires: data; what a 423 or a NOTIFY's reason does to
  the requests is modelled.
* Timers' lengths: a timer that runs may fire at any time. That is coarser than the
  code, so that what holds here holds for every length, those of zero included. Where the
  code relies on an order (the refresh before the expiry), the guard says so.
