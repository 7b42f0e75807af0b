# TLA+ verification of go-courier

go-courier gives one interface (`courier.Provider`: `Listen`, `Send`, and
optional capabilities) to several messaging platforms. Each provider turns what
its platform sends into messages on a Go channel and what the application sends
into calls of the platform. What is hard in it is not the conversion of
messages, which the tests cover, but the goroutines, channels, locks and
contexts around it, and what happens when a platform refuses, repeats, delays
or disconnects. This directory models those.

## Inventory

| component | state | operations | hard behaviour | what makes it correct |
|---|---|---|---|---|
| part openers (`opener.go`) | resolved, buffer, spill file, first error | open, close | failures half way, reuse after failure, the memory limit | every read is the whole source; no file left; one error for all |
| in-memory provider (`provider/memory`) | listener lists, closed, recorded messages | Listen, ListenReactions, Send, Deliver, React, Reset, Close | fan-out over a snapshot while listeners leave; close races; blocking sends | once per listener, in order, no double close, everything ends |
| REST hub (`rest/hub.go`, event handlers) | history, subscribers, their queues | publish, subscribe, unsubscribe, close | slow and stalled clients, reconnection, eviction, shutdown | a client sees the stream without duplicates and gaps, unless it fell behind |
| REST server (`rest/provider.go`, `server.go`, POST handler) | current server, incoming channel, index of parts, releases | Listen, shutdown, POST, Send | three goroutines per server; shutdown with a deadline; handlers outlive it | one listener, no leak, acknowledged is read, known is downloadable |
| WhatsApp Cloud outbox (`whatsappcloud/provider.go`, `window.go`) | windows, outbox, messages in flight | Send, holdBack, flush, status notifications | concurrent Sends, late refusals, failing templates, expiry | one template per wait, no message twice as a whole, in order, none lost silently |
| WhatsApp Cloud webhook (`webhook.go`, `provider.go`) | events channel of the session, identifiers seen, reactions | ServeHTTP, Listen, ListenReactions | repeated posts, sessions ending under a request | each message once and in order; acknowledged means handled |
| Signal client (`signal/rpc.go`, `provider.go`) | connection, pending calls, notifications | call, readLoop, Listen | responses and notifications share a socket; circular waits | calls return, nothing received is left behind, the end of the context ends all |
| Rocket.Chat (`provider/rocket`) | client, `clientMutex`, `needsLogin`, update listeners, identifiers received | getClient, Status, reauthenticate, Listen, Send | callbacks from inside the library, session loss, one listener blocking all | logs in again after every loss, no self-deadlock, each message once, in order but for what comes again |
| mail (`provider/mail`) | releases; the mailbox outside | polling Listen, Send | a producer goroutine per folder; reading a mail marks it as seen; partial failures | each unread mail once; what is seen is accounted for; goroutines end |
| WhatsApp (`provider/whatsapp`) | client made once, event handlers, lifetimes of the chats, connection watcher | Listen, ListenReactions, Send | an initialization kept forever; handlers that hold each other up; a setting read after it changed | a reply lives as long as what was said last (a reaction breaks it); a lost session is told |
| Discord (`provider/discord`) | one shared session, releases | Listen, Send | a second Listen replaces the session | one Listen after the other, each closes its own session |
| `Send` and `toMessage` of the chat providers | none; the posts on the platform | Send | several posts for one message, limits, failures half way, identifiers | the content is shown whole, in order, where it belongs; the identifier is that of the first post |
| root types, DTOs, conversions, options | none | pure | | |

The providers do not call each other. They share the part openers (every
attachment is a `BufferedOpener`, released when the listening context ends),
`syncx.Map`, and the application, which connects `Listen` to `Send`.

## Modules

| module | models | external in it |
|---|---|---|
| `BufferedOpener` | `OpenerOnce` wrapped in `BufferedOpener`; a call under its mutex is one action | the temporary directory |
| `MemoryProvider` | the in-memory provider; a critical section is one action, a channel send is one action | the application's contexts and receives |
| `EventStream` | abstract: what a client that follows a channel may see | |
| `RestHub` | one `channelHub` and the event handlers that drain it | clients, network |
| `RestHubProofs` | safety of the hub, and that it implements `EventStream`, for every size and number | |
| `RestServer` | the servers of successive `Listen` calls, their three kinds of goroutines, POST with uploads, Send | `net/http`, clients |
| `CloudOutbox` | one recipient's window, outbox and messages in flight; Sends and the listening goroutine | WhatsApp, time |
| `CloudWebhook` | webhook handlers, the goroutine of each session, deduplication, reactions | Meta, time |
| `SignalRpc` | calls, `readLoop`, the goroutine of `Listen` | the daemon, the network, the application |
| `RocketProvider` | one client, its login, status callback and reauthentication, the update listeners | the DDP library, the server, the application |
| `MailProvider` | the polling goroutines of successive Listens, their producers, the releases | the IMAP server, the network, the application |
| `DiscordProvider` | the shared session, its watchers, message handlers and users | `discordgo`, the application |
| `WhatsappProvider` | the once-only client, the handlers of its events, the lifetime of one chat | `whatsmeow`, the application |
| `Delivery` | abstract: what one `Send` may show and return | |
| `Sending` | one `Send` on each of six platforms, from an application's message or from a received one | the platforms |
| `MCProviders` | extends `Sending` and puts `BufferedOpener`, `DiscordProvider` and `WhatsappProvider` beside it | |
| `ProvidersProofs` | proofs: the Send of every chat provider, the Discord sessions, the WhatsApp replies, the part opener, the connection of Signal | |
| `MemoryProviderProofs`, `RestServerProofs`, `CloudOutboxProofs`, `CloudWebhookProofs`, `MailProviderProofs`, `RocketProviderProofs` | proofs: the safety of the module each is named after | |
| `MCSignalRpc` | instances `SignalRpc` under names of its own, for its proof and `MCStreams` | |
| `MCStreams` | puts `RestHub` and the connection of `MCSignalRpc` side by side | |
| other `MC*` | only constants, for TLC | |

Variables and actions keep the source's names where there is one; `PROJECT.json`
gives the lines of each under `map`. Variables commented "history" are not in
the program: they record what the properties speak about.

Correspondences that are not obvious:

* A critical section in which nothing blocks is one action. Where the code
  takes a value under a lock and uses it afterwards, there are two:
  `ListenReactionsCheck`/`ListenReactionsRegister`, `Deliver` then `SendNext`,
  `ReadWindow` then `DeliverAccepted`, `Post` then `Enqueue`, `Send` then
  `SendPublishes`, `DeliverAccepted` then `Track`.
* A Go channel is a sequence with a bound and an open/closed state. A send on a
  closed one panics: in `MemoryProvider` the program is over (`panicked`), in
  `RestServer` `net/http` recovers and only the request is (`PostPanics`).
* `RestHub` is one channel of the hub, since channels share only its lock. The
  n-th message has the identifier n; real ones are random and only compared. A
  client may stop reading (`stalled`) and read on later: the server sets no
  `WriteTimeout` (`server.go:55-58`), so the handler that serves it is then blocked in
  a write (`Blocked`), of the backlog, an event or a keep-alive, for as long as it likes.
* `RestServer` abstracts `http.Server`: `ListenAndServe` returns as soon as
  `Shutdown` is called, `Shutdown` when no request runs or its ten seconds are
  over, whichever the schedule chooses. `MaxUploads` counts files of a POST.
* `CloudOutbox` has no clock. The window is unknown, open or closed; a prefix of
  the outbox is past `OutboxTTL`; some identifiers are past `inflightTTL`. A
  prefix suffices because entries are queued in the order of their times.
  A delivery posts several messages (`media.go:130-196`). WhatsApp accepts them all,
  refuses the first, or refuses a later one: then what was accepted stays with the user
  under an identifier nobody tracks (verdict "part"), and the error path holds the whole
  message back. The identifier of a delivery is that of its first post; how a message
  becomes posts is `Sending`.
* In `CloudWebhook` a notification carries one message or one reaction.
  `Outdate` is the passing of `seenTTL` (provider.go:327) for one notification: it needs
  the notification out of all queues and requests, and from then on Meta posts it no
  more, since `seenTTL` is longer than Meta's retries. Pruning forgets outdated
  identifiers, which does not make them new again.
* `SignalRpc!Stops` also covers a frame that exceeds the scanner's 128 MiB.
* In `RocketProvider` a call of the library returns only when its result is
  dispatched, and results and updates are dispatched one at a time: `Answered`
  asks that no listener is being called. `heard` is what the server remembers of
  a subscription: made without a login it is accepted and mute. `leak` has, for each
  caller, the client its `getClient` left behind when it failed after it connected:
  nobody closes it, and its callback sets the same `needsLogin`. `client.Sub` waits for its
  answer like a call (`Sub`). An edition or a reaction brings any older message again
  (`WriteAgain`, `again`); messages others write while nothing is heard are missed.
  `unusable` lasts from a login stored without credentials to the next stored
  login or lost connection.
* In `MailProvider` a producer is three places a mail can be: the set of what the
  server was asked for (`UIDSearch`; it answers in the order of the numbers), what it sent (and marked as seen), what the channel of capacity one
  holds. `lost` collects the mails the code gives up, with one action per way to
  give up.
* In `DiscordProvider` the goroutine that ends a session reads `p.session` when it
  runs, which may be another Listen's. `overlapped` marks those sessions.
* `WhatsappProvider` takes the events one at a time through the list of handlers
  as whatsmeow does: `to` is who has yet to see the current one. A handler of
  `Listen` first remembers the lifetime, then converts, then hands over.
* In `Sending` a text is a sequence of numbered letters, spaces and line feeds, so
  that a lost, repeated or swapped letter shows. `SplitText` is the recursion of
  `splitText` written as a recursive function of the position. Received contents
  are converted by the `...Message` operators and sent back, so that the run
  checks `toMessage` and `Send` of a platform against each other. The cloud's posts are
  those of `deliver` with the window open: that a refused direct message is held back is
  `CloudOutbox`, so that an error of `Send` there returns no identifier, and only a group
  passes on what `deliver` returned. The channel identifiers are sequences of tokens, where only a prefix and a dot matter.

## Runs

Each run asks one question; its properties are commented in the module.

| run | bounds | shows |
|---|---|---|
| `providers` | opener: sizes below, at and above the limit, 2 file names; Discord: 2 sessions, 1 message, 1 user; WhatsApp: 1 listener, 1 reaction listener, 1 Send, 2 events; Send: texts up to 16 characters, at most 2 attachments, limits 5 and 2 | opener: replay, no orphan, one error, single opening; Discord: a session is its Listen's; WhatsApp: a reply is as recent as the last event, a loss is told; Send: implements `Delivery` |
| `sending_caption` | the Send part alone | **violation**: the text of an audio message is dropped |
| `reply_mirrors` | the WhatsApp part alone | **violation**: after a reaction, a reply does not disappear like what it answers |
| `memory` | 2 message channels, 1 reaction stream, at most 2 of them made, 2 of 3 calls, buffers of 1 | no double close, exactly-once fan-out, order; `Close` and contexts end what they own |
| `streams` | hub: history 2, queue 1, 4 messages of which one is unreadable, 1 client that may stall, 2 handlers, 2 losses; Signal: 2 calls, 3 received messages, buffer of 1 | hub: implements `EventStream`; nothing falls between backlog and queue; catches up; handlers end unless their client blocks them. Signal: calls return, nothing left behind, cancel ends all |
| `rest_server` | 2 servers, 2 POSTs of up to 2 files, 1 stream | one listener at a time, no upload leaks once a `Shutdown` returned in time |
| `rest_stops` | 1 server, 2 POSTs of 1 file, 1 stream, 1 Send | parts are indexed first; acknowledged is read; cancel stops |
| `cloud_outbox` | 3 messages (symmetric), outbox of 2, 2 messages accepted | one invitation, never two whole copies, accounted for, in order |
| `cloud_webhook` | 2 messages, 2 reactions, 2 handlers, 2 sessions, 3 posts | handed once, in order; acknowledged is handled |
| `signal_answering` | 2 calls from the receive loop, 4 messages | **violation**: the daemon is blocked for good |
| `rocket` | 1 listener, 1 Send, 2 messages and 1 repetition of any of them, 2 lost connections over all clients | once, in order but for what comes again, never its own; a mute connection is known; calls return |
| `mail` | 2 sessions one after the other, 2 folders, 2 mails in one thread, 1 mishap | seen mails are accounted for, unread ones served; nothing stays buffered; goroutines end |

Type invariants are a conjunct of the first invariant of a module where they are
not a property of their own.

`providers` holds four machines that share no variable and no step, `streams` two:
`part` says which one a behaviour is of, the others stay in one initial state, so that
each property speaks of its own machine only.

Why the bounds are enough. Every buffer has capacity 1 (or 2 for the outbox), so
that it is empty, full and overrun within a few steps; the code compares a
length with its capacity and nothing else. Two actors of each kind meet every
pair of critical sections in every order; a third message is needed only for the
outbox, where two fill it and the third overflows or comes first after a flush.
The history of the hub holds 2 of 4 messages so that a client can be within it,
at its edge and beyond. One client suffices there: clients share nothing but the
lock, two handlers let an old connection linger beside the new one, and the
proof covers every number of both. `MaxChans`, `MaxCalls`, `MaxPublished`, `MaxDrops`,
`MaxPosts`, `MaxReceives`, `MaxAttempts` and `MaxUploads` cap what the
environment does, and each appears in the guard of an environment's action.
`SeenLimit` is 1 in place of 4096, so that the second message already prunes.
For Rocket.Chat two losses let the second happen during the login that answers the
first, and a listener and a Send are the two kinds of call that meet in `getClient`
and wait for each other's results. For mail two mails of one folder put one in the
channel while the other is on the wire, the empty second folder shows that the
first one ends, and one mishap of any kind reaches every path. `MaxMessages`,
`MaxResent`, `MaxMishaps` and `MaxEvents` cap the environment as above; WhatsApp
needs two events, one to change what the other set. `splitText` compares positions
with the limit and with half of it: a limit of 5 and all shapes up to 7 characters
meet every side of both, the texts of 16 make four chunks and more.

Two larger instances pass as well and are left out of the runs for their length:
Rocket.Chat with two listeners and one lost connection (762,000 states, its invariants;
one listener nobody reads holds up the other), and mail with `Together = TRUE`, where nothing
keeps the two sessions from polling at once (307,000 states).

Deadlock. The programs may stop, at the bounds or because nobody calls any
more, so the concurrent runs set `CHECK_DEADLOCK FALSE`; circular waits are the
subject of liveness properties instead. `BufferedOpener` never stops and is
checked.

## Fairness

Weak fairness, and only of what the Go scheduler runs by itself: goroutines a
provider starts, handlers that are running, critical sections that were
entered. `RestHub` assumes this of a handler only while its client reads (`Served`), since the
server bounds no write, and that an event source reconnects while there is a server, `RestServer`, `CloudWebhook` and `SignalRpc` that the application
reads its channel (their liveness properties are promises to such an
application), and `SignalRpc` that the daemon answers while connected. Nobody is
assumed to publish, to send, to cancel, to leave, or to read reactions.
`RocketProvider` assumes that the library reconnects and reports (it reschedules
itself, as the comment of `Status` relies on), and that an application reads its
channel until it ends the context; so do `MailProvider` and `WhatsappProvider`.
`MailProvider` assumes that a server sends what it was asked for unless the
connection is lost. Nobody has to connect, log in successfully or end a context.
`Sending` and `DiscordProvider` state safety only and need no fairness. Where
one goroutine has several steps, fairness is of their disjunction: a `select`
need not choose a given branch.

## Findings

Three violation runs are disagreements between the code and what its own comments
say; `PROJECT.json` quotes them. A WhatsApp message whose first attachment is an
audio is sent without its text and without an error (`whatsapp/provider.go:293-294`
says it rides along); a reaction carries no lifetime and is taken for a message of a chat
whose timer is off, so that the next reply in a disappearing chat does not disappear
(`whatsapp/provider.go:395-397` says "exactly like what it answers"); a Signal application that answers from its receive loop can
stop the connection for good (`signal/rpc.go:79-81`).

The models show more, which the properties describe as it is rather than refute:

* `memory.ListenReactions` never closes its channel at the end of its context, as
  `reaction.go:56-58` says it does; `CloseEnds` is why only `Close` is named for it,
  and a stream registered after `Close` is not closed at all.
* A failing re-engagement template discards messages that other Sends were told
  are held back (`whatsappcloud/window.go:26-30`); `Accounted` counts them apart.
* The webhook can answer 200 for a session of `Listen` that is over
  (`whatsappcloud/webhook.go:134-136`); `AcknowledgedIsHandled` excepts ended sessions.
* Rocket.Chat: a new login that comes without credentials (`provider.go:137-141`) is
  not tried again and nothing is subscribed; `MuteIsKnown` excepts it (`unusable`) until
  the connection is lost or a login is stored with credentials. Each failed `getClient` leaves
  its client connected.
* Rocket.Chat: what a listener has met is its own memory (`message_listener.go:110, 146`): one
  that did not meet an older message takes its edition or reaction for a new message and
  hands it over after newer ones; `HandedInOrder` excepts what was sent again.
* WhatsApp Cloud: a message refused after some of its posts is held back and delivered
  again as a whole (`provider.go:382-384`, `437-445`): the user sees its beginning twice.
  `DeliveredOnce` counts whole copies.
* REST: a client that stops reading without leaving keeps its handler in a write for good, also
  after the hub cut it off or closed; `DisconnectedEnds` excepts it. A request that
  outlives a `Shutdown` which timed out may leave an upload behind; `NothingLeaks` is about the
  others.
* Mail: what was fetched when the context ends, what the parser refuses and what a
  Send looked up is marked as seen and offered no more; `SeenIsAccounted` lists these.
  A producer abandoned with mails left to put never ends.
* Discord: with two Listens at once, or a goroutine that runs late, the end of one
  context closes the other's session and its own stays open; `OwnSession` is about
  sessions that do not overlap.
* WhatsApp: the reaction is the only way to break `ReplyMirrors` at these bounds: with it left
  out of `Settles` the property holds. `ReplyIsRecent` says how stale a lifetime may be: that
  of an event at least as recent as the last one Listen saw.

Behaviour the models contain without a property, because the code promises
nothing, is under `hazards` with a note: the panic of a delivery that races a
listener's end, the gap after an evicted identifier, a subscriber registered
after the hub was closed, and others.

## Proofs

Every safety property of the passing runs, both refinements included, is proved for
every value of the constants; the theorems are listed in `PROJECT.json`. In each module
the argument is the same: an inductive invariant (`IInv`; `SendInv`, `DiscordInv`,
`WhatsappInv`, `RpcInv` in `ProvidersProofs`) that TLC checked on small instances first,
`InitHolds` and `NextKeeps` with one step per action, the theorem `Invariance`, and one
theorem for each property of the runs. The properties that look back, `HandedOnce` or
`DeliveriesInOrder`, are never inductive: what makes each true is written below.
Assumptions are the named `ASSUME`s of the modules, which TLC evaluates on every run.

**Sending** (`ProvidersProofs`): every `Send` is a `Delivery` (`SendIsDelivery`), for all
messages, attachments and limits, and for every content a provider receives and the
application sends back. Assumed is `SendingAssumption`: a positive `MaxText`, texts that
are sequences of characters, a caption only where the WhatsApp platforms have one, and
quoted messages from Rocket.Chat alone. The invariant `SendInv` says that the message
stands for the wanted content (`Meant`), and that at every point of the loop over the
posts, what was posted followed by what is left to post is that content (`Rest`). Under it
lie three layers, none of which mentions a step:

* *Recursion.* `FlattenSeq` and `SplitText` are recursive functions, and the library's
  induction theorems take an operator as parameter. `LeastNat` therefore derives
  induction over a *set* of natural numbers from `WFMin` and `NatLessThanWellFounded`,
  `Induction` and `SeqInduction` follow, and `SolutionIsUnique` shows that the
  equation of a recursive function determines it. `FlattenConcat` and its neighbours say
  what putting lists together gives.
* *The text of the Cloud provider.* `SuffixRecursion` shows that `splitText`'s recursion
  over the rest of the text is well defined; the cut is behind the first
  character of its window and not past the last (`CutIsInside`). Hence
  `SplitTextIsWhole`: for every text and every limit the chunks spell the text, but for
  blanks, none is blank and none is too long.
* *The posts.* `CloudPostsHold`, `WhatsappPostsHold`, `RocketPostsHold` and `PostsHold`: the
  posts of each platform carry the text and the attachments once and in order; only the
  caption of a WhatsApp audio message is lost (`CaptionLost`), which the run
  `sending_caption` reports and `Promised` leaves out of what the refinement maps.
  `ReceivedIsMeant` is the counterpart for `toMessage`, `RecipientIsConversation` for the addresses.

The steps then map one by one: a post shows the next pieces (`PostedShows`), an error is
`Fail` with or without the post that was under way (`FailsIsFail`), the rest stutters.

**The Signal connection** (`ProvidersProofs`), for any calls, any number of messages and
any positive buffer. `RpcInv` counts the notifications: those passed on, the one in the
hands of `readLoop` and those on the wire are no more than were sent; until the goroutine of
`Listen` ends, those passed on are with the application, in the channel, or in its
hands. It ends without its context only once `readLoop` is over and the channel is empty, and
neither changes afterwards; that is `NothingLeftBehind`. Assumed is `RpcAssumption`: switches
that are Booleans, a buffer above 0, and `Reading` not a call. `MCSignalRpc`
instances `SignalRpc`, for one module to hold these proofs beside those of `MCProviders`.

**The part opener** (`ProvidersProofs`), assuming that sizes and the memory
limit are natural numbers, the limit positive, and `NoFile` not a file name.
`Replayable` and `NoOrphanFile` are not inductive: a later read serves what
materialization left behind, and the first read could find anything. `IInv` adds

* `HeldCopy`: what is held, in memory or in the file, is the whole source until
  the release;
* `BeforeFirstRead`: until then nothing was opened, spilled, returned or
  released, which also gives `NeverNotReplayable` and `FailureIsFinal`.

**Discord and WhatsApp** (`ProvidersProofs`), assuming that sessions are positive
numbers, that lifetimes are natural numbers, and that no Send has the name of a handler.
`OwnSession` holds because two goroutines that wait at once overlap
(`DiscordInv`): one that waits alone is the last that stored its session.
`ReplyIsRecent` needs that the remembered lifetime is always that of some event no
older than the last one that settled it (`SettledSince`), also between the two
steps of a handler that has remembered and not yet handed over.

**The in-memory provider** (`MemoryProviderProofs`), assuming a buffer of at least
one message and that the two kinds of channels differ. `Registered`: a channel of a
list is open and there once, so that `Close` and a leaving listener find nothing
closed. `Looping` and `Given`: a call is at the place of its snapshot up to which
channels have its message, once each, which is `FanOutExactlyOnce` whatever happens to
the lists meanwhile. `Ordered`: a message whose call had returned before another began
is ahead of that one in each channel; it is stated over positions, so that it is kept
when both ends of a channel move.

**The REST server** (`RestServerProofs`), assuming finitely many servers numbered from
1, and that POSTs, streams and Sends have names of their own. `OneListener` follows
from `Ports` (only the server `p.server` names listens). `NothingLeaks` needs
`Tracked` (a buffered upload is known to the server's list of releases, but for the
one a handler has just read), `Drained` (a `Shutdown` that returned in time left no
handler before that point), `Deaf` (no request starts later) and `Released`. Servers whose
`Shutdown` timed out are exempt, in the property and in the theorem.
`KnownIsDownloadable` is `Indexed`.

**The Cloud outbox** (`CloudOutboxProofs`), for every number of messages and attempts
and every outbox size above 0. The heart is `OneHand`: a message is with its Send, in
the outbox, in the flush, with the goroutine of Listen, or with WhatsApp, and never in
two of them. *With WhatsApp* has to include identifiers that are refused but
still in flight, or not yet tracked by their Send (`Live`), because a status
notification would hold the message back again; `Tracking` says that a Send about to
track knows the only identifier there is. An identifier with the verdict "part" is no
hand: its posts are with the user, but not the whole message. The theorem is therefore
`NoTwoWholeCopies`. `Traced` is the other side, no hand at all
only when the loss is named. `Invited` counts the template over `inviting` and
`invited`; `Ordered` numbers flush and outbox.

**The Cloud webhook** (`CloudWebhookProofs`), for every number of handlers and
notifications, sessions numbered from 1, any positive sizes of the channels and any
`SeenLimit`. `HandedOnce` holds although identifiers are forgotten: what was handed
over is remembered or too old to be posted (`Remembered`), and nothing that old is on its
way (`Requests`, `Queued`). `OrderKept` needs that one session runs at a time
(`OneSession`) and that what is handed over, being handed over and waiting is in the
order of the numbers (`Handing`). The proof found an error of the model: pruning
removed an identifier from `outdated` as well, which made the notification one that
Meta could post again. The run had hidden it behind a `SeenLimit` of 2. The model now
keeps `outdated` for good, and the run prunes with the second message.

**Mail** (`MailProviderProofs`), for every number of mails, folders, sessions (one
after the other or together) and mishaps. `OnePlace`: within a session a mail is in one
place, and was marked when it got there; `NoneForgotten`: what is marked and with no
session was given up. `InStep` ties the goroutine of a session to its producer.
To reason about it, `Unread` is the set the server was asked for, no longer a
sorted sequence; the order of the answers is in `Stream`.

**Rocket.Chat** (`RocketProviderProofs`), for every number of callers, messages,
repetitions of messages of any age, clients left behind and lost connections; "free" is no
caller. `HandedInOrder`: a message that is not sent again (`New`) is newer than all that was
sent before it, than what is dispatched and than what a listener has met (`InOrder`, `Met`), and
only what was met for the first time is handed over, once (`Handed`). `MuteIsKnown` is the hard one. Its inductive form says that
whenever the connection of the client is not logged in and that was reported
(`LoginDue`), or is logged in and subscribed to nothing although there are listeners
(`SubDue`), the flag is set or some goroutine is between the status and the end of its
login, the case of a login stored without credentials excepted. It rests on `Linked`, the last change of the connection is the one being
reported, and `Locked`, one caller at a time opens the client, and nobody
subscribes before it is kept. The flag is shared with the clients that failed to open:
when their status uses it up, a goroutine has it instead (`StatusKeepsDue`).

**The REST hub** (`RestHubProofs`), for every number of clients and handlers,
every history and queue size, any set of unreadable messages: `TypeOK`,
`RegisteredIffOpen`, `PendingIsRun`, and `Implements`, the refinement of
`EventStream`. It assumes that the history size is a natural number, the queue
size a positive one, and `NoSub` no subscriber. What a client receives is due
because three facts meet, and each needs the next:

* `GoesOn`: what the handler of a connected client writes next follows what
  the client saw last, or the client fell behind;
* `PendingIsRun`: backlog and queue are one unbroken run, up to the newest
  message while the handler is registered, so that `GoesOn` still holds after
  a write and after a publication;
* `HistoryIsRecent`: the history is the last messages published, so that a
  backlog is such a run, and an identifier that is not found fell behind.

`OwnHandler` (a handler has at most one client, and lives as long as it has),
`LiveHasNoBacklog` and `SeenWasPublished` (0 means that nothing was seen) tie
them together. A handler cut off by `publish` keeps a run that ends early;
`StillWrites` says when it has nothing left, and its client is then promised
nothing until it connects again. There is a lemma for each operation
(`PublishStep`, `ConnectStep`, `WriteStep`, `LeaveStep`, and `QuietStep` for
those that neither write nor register); `StepRefines` reuses `WriteStep`, which
gives the message that was written and that it was due.

Only model-checked, at the bounds above: every liveness property (`CloseEnds`,
`ContextEndsListen`, `CatchesUp`, `DisconnectedEnds`, `AcknowledgedIsRead`,
`CancelStops`, `AcknowledgedIsHandled`, `CallsReturn`, `CancelEnds`, `Served`,
`LossIsTold`), since they rest on fairness, which is
outside the prover's logic.

## Not modelled

Names, mentions, previews and quotes of received messages; in Rocket.Chat the
pairing of file descriptions with links (only the contents are in `Sending`), and
the reply reference that an upload leaves out; the release of media in Rocket.Chat,
WhatsApp and the Cloud provider, which is the pattern `MailProvider` and
`DiscordProvider` model; groups in `WhatsappProvider` (a chat is a chat); the part
download endpoint, authentication, CORS, signatures, options. An IMAP connection
left open when a command is refused is not state of `MailProvider`. Message contents
are left out wherever no property is about them: a content is a number of bytes in
the part opener and a sequence of characters in `Sending`. `syncx`, the conformance
suite and the examples have no behaviour of their own. Memory exhaustion and the
operating system's behaviour beyond the failures named above are out of reach.

## Plan

1. Done: every provider, the openers, the REST hub and server, and one Send of each
   platform, checked; every invariant the runs check, and both refinements, proved.
2. Media releases of the Cloud provider across sessions; the part download endpoint.
