# TLA+ model of QuePasa

QuePasa keeps WhatsApp accounts ("bots", in the code `QpWhatsappServer`)
connected through the library whatsmeow, hands what they receive to webhooks
and RabbitMQ queues, and offers an HTTP API, web forms and MCP tools to drive
them. This directory holds TLA+ specifications of what it does concurrently,
TLC configurations that check them on small instances, and TLAPS proofs of what
matters most. Paths below are relative to the repository's `src/`.

* [The system](#the-system)
* [Modules](#modules)
* [Runs](#runs)
* [Fairness](#fairness)
* [Proofs](#proofs)
* [Where the code does not do what it says](#where-the-code-does-not-do-what-it-says)
* [Abstractions](#abstractions)
* [Not modelled](#not-modelled)
* [Plan](#plan)

## The system

| component | state | operations | correct when |
|---|---|---|---|
| Routes, `api/`, `form/`, `mcp/` | none of their own | every handler of the API, of the forms, and of the MCP tools | a request that is refused has changed nothing; one that asked whether the bot is ready does not panic |
| Service, `models/qp_whatsapp_service.go`, `qp_whatsapp_pairing.go` | map of bots, table `servers` | load, append, pair, delete | memory is the database; no session without a bot |
| Bot, `models/qp_whatsapp_server.go` | connection, handler, `Verified`, `StopRequested`, its row | Start, Stop, Restart, Toggle, EnsureReady, Save, Delete, MarkVerified | one connection at a time; no session outlives it; a Ready bot dispatches; requests end |
| Connection and managers, `whatsmeow/whatsmeow_connection*.go`, `whatsmeow_group_manager.go`, `whatsmeow_contact_manager.go` | the whatsmeow client, `IsConnecting`, `failedToken` | Connect, Disconnect, Dispose, Delete, Send, operations on groups, chats and contacts | a disposed connection is offline; nothing uses the client of one |
| Pairing page, `form/form_websocket_*.go`, `GetWhatsAppQRChannel` | websocket, hub, queue, scanners | start, close, codes, answers | the hub never dies; scanners end; the page is told |
| Event handlers, `whatsmeow/whatsmeow_handlers*.go`, `models/dispatching_handler.go` | flags of the offline sync, dispatching handlers | messages, receipts, calls, contacts, history, Connected, LoggedOut | live messages are not taken for history, nor history for live; each is dispatched once |
| Message cache, `models/qp_cache.go`, `qp_whatsapp_messages.go` | sync.Map, atomic counter, statuses | Append, CleanUp, GetAny, DeleteByKey, MessageStatusUpdate | counter and map agree; bounded; duplicates are not triggered again; statuses only rise |
| Dispatching, `models/qp_whatsapp_server_extensions.go`, `qp_dispatching.go`, `qp_data_dispatching.go` | slice of webhooks and queues, with the marks of the last outcome | Trigger, PostToDispatching, add, remove, clear | each dispatching gets a message once; memory is the database |
| RabbitMQ client, `rabbitmq/rabbitmq_client.go` | connection, channel, notification of its end, cache of unsent messages, set-up flag | publish, reconnect, drain, set up, Close | no message twice or silently lost; calls return; Close ends everything |
| RabbitMQ pool, `rabbitmq/rabbitmq_defaults.go` | client per connection string | get, close | one live client per string |
| Wake-up scheduler, `whatsmeow/whatsmeow_wakeup_scheduler.go` | next wake-up, timers | tick, wake up, stop | once a day, every day, for the configured time |
| SignalR hub, `signalr/` | listeners by token | join, leave, push | not modelled |
| SIP proxy, metrics, media, environment, library | - | - | see "Not modelled" |

How they interact:

```
   HTTP API   web forms   MCP tools        page with codes
        \         |          /                   |
         routes: tests, then calls        hub <- scanners
              |                                  |
   service: map of bots  <---- OnPaired ---------+
              |      \
              |       database (servers, dispatchings, users)
             bot ----> connection, managers ----> whatsmeow client
              |                                      | events
              |           +-------- handlers <-------+
              |           |             \
              |           |          receipts (status)
              |     message cache   (duplicates stop here)
              |           |
              |     Trigger: one goroutine per message and dispatching handler
              |           |
              +--> dispatchings --> webhook (HTTP, timeout)
                          |
                         pool --> RabbitMQ client --> broker
                                   cache, monitor
```

There are no transactions and few locks. HTTP requests, events, messages and
timers all run in goroutines of their own; a bot is protected by one mutex in
one method (`EnsureUnderlying`), the map of bots and the slice of dispatchings
by none, the message cache by atomic operations that are not atomic together,
the RabbitMQ client by two mutexes, neither of which is taken where the
connection is made. That is where the specifications look.

What is hard here, and hard to test:

* *interleavings*: two requests for one bot; a pairing and a request for one
  token; a message served while the list of its dispatchings changes; receipts
  of one message while it is delivered again; publishers, reconnection and
  Close of one client;
* *failure*: a save, a logout or a deletion that fails in the middle of a
  request; a crash; a broker that goes and comes back, a line that is cut and
  noticed late; a webhook that never answers; a page that vanishes;
* *order*: events are goroutines, so Connected and LoggedOut, a message and the
  end of the offline sync, or two receipts may be handled in either order; a
  timer outlives the scheduler that set it;
* *boundaries*: a full cache, a full queue of a page, an unsigned counter, the
  end of the time window.

`PROJECT.json` lists these hazards line by line, each with the properties that
watch it or the reason why none does.

## Modules

A module has one action per step between which another goroutine can
interfere; its comment names the code. Operators commented "as if" or "mutant",
or named after the operator that follows them with a suffix, are deliberately
broken variants of it: replacing the definition by the variant must make TLC
find the property violated that `PROJECT.json` ("mutants") pairs it with, which
shows that the property speaks about that code. No specification uses them.

### Routes, ControlPlane, MCControlPlane

Routes translates every handler of HTTP requests, of the web forms and of the
MCP tools into the sequence of its steps, in the order of the code, with one
variant for each branch that changes them (a verb, a key, whether a picture is
removed or a mapping known). The tables at its end are those of the routers.
A step is a test of the request that may refuse it, a question to something
that may fail, or an access to a bot; the operations of the group and contact
managers and of the connection that the handlers reach are sequences as well
(`GetGroupInfo`, `Send`, ...), so that what happens to the client between two
of them is not lost.

ControlPlane gives each step its meaning over the map of bots, the objects it
refers to (a deleted object may still be in use), their connections and the
rows, and adds what is not a request: the start of the program with one
goroutine per bot (Initialize), a pairing (OnPaired, AppendPaired), sessions
that are lost and return (Drop, Return), and a crash at any moment (Reboot).
Every statement that reads or writes shared state is a step of its own:
Exists and Write in `Save`, Logout, Clear, DeleteRow and Forget in a deletion,
Lookup and Create in a creation; each may fail where the code has an error to
return. A use of a nil connection or client ends in `panic`. Starting and
stopping are one step each here and are split by WhatsappServer.

What the handlers have in common is stated once, as RoutesAssumption, and TLC
evaluates it for every route: a route is made of `Steps`, a bot is looked up
only to be settled, what has changed one saves it at once, the four steps of a
deletion come one after the other (`Follows`), nothing uses a bot or a
connection that was not found or taken before, and what may refuse a request
(`Tests`) does not come after what sends or changes something (`Marks`). The bots of the table have
distinct phones, of which nothing else is known (Init chooses them).

History variables say what was exempted and why: `clash` (a bot made or deleted
while another request was changing it), `unsaved` (the last Save failed),
`replaced` (a pairing took the place of a connection), `torn`.

### WhatsappServer

One bot, its connection objects and its row. `EnsureUnderlying` holds
`syncConnection` from Lock to Create; everything else is unlocked and split at
every read and write of a shared field: Verify, CheckState, Attach, Connect
(the test of `IsConnecting`) and SetConnecting, Connected (the answer of the
dial, also the second attempt), StopCheck and StopSet, Disconnect, Dispose,
DropConnection, Clear, SaveExists and SaveWrites, DeleteConnection, DeleteRow.
The session is moved by whatsmeow (Login, Drop, Reconnect, LogOut), whose event
handlers are the threads Hook (OnConnected) and Sock (LoggedOut). A call on a
connection that has become nil ends in the label `panic`.

### PairingPage, MCPairingPage

The page that shows pairing codes: its socket, readPump (ReadStart, ReadClose,
ReadFails, Unregister) and writePump (Write, WriteEnds), the hub (Broadcast,
Shut), and each scanner with its two goroutines, connected by channels without
a buffer: `QrCodeScanner` with `SignInWithQRCode` and `GetWhatsAppQRChannel`
(GetConnection, Connect, Receive..., Hand, Answer), the goroutine that encodes
a code (TryUpdateHttpChannel, EncodeFails, EncoderEnds) and the one that gives it to the hub
(Give, GiverEnds). The requests of the API for one code, to scan or to type,
are here too.

### MessageKinds, WhatsmeowEvents, MCEvents

MessageKinds is what becomes of one message: `HandleKnowingMessages` as the
first handler whose field is present, each handler with what it fills in, the
merging of the options of service and bot (`Option`), whether the message is
valid for dispatching, and the queue it is meant for (`DetermineRoutingKey`).

WhatsmeowEvents is the session it comes from. `EventsHandler` takes events one
after the other; what it starts with `go` is a task that may run at any later
moment: Message, OnHistorySyncEvent (one message after the other), CallMessage,
MarkRead, OnConnected, the two ends of the offline sync, and, behind Follow,
the handler of the bot (Deliver, Receipt), which triggers each dispatching
element of the list of handlers, in which requests register the one handler of
the bot (FindUnattached, without the lock, and Register, with it) and which
Clear empties. `UpdateConnection`, which would register another one, has no live
caller (`EnsureServerOnCache` is never called) and is left out. `left` of a message is
history: the place it had in its batch, which tells two messages of one event
apart. A *scene* names the
options, the messages that may come, and the bounds of one execution.

### MessageCache, MessageStatus, Messages, MCMessages

MessageCache: `Append` with the comparison of `qp_cache_fuck_unoapi.go`
(Append\_), the counter (CountNew), CleanUp (LoadLength, Snapshot, Evict,
EndCleanUp), and the expiry a reader finds (FindExpired, DeleteExpired), each
deletion followed by its Uncount. The map step and the counter step are apart.
MessageStatus: a receipt event for several ids (ReceiptArrives) and, for each
id, the comparison (Check), SetStatus and MarkMessage of `MessageStatusUpdate`.
Messages composes the two on one `QpWhatsappMessages`: MessageStatus is
instantiated with the messages of MessageCache that have not expired; a
delivery replaces the message with its id and forgets the status shown on it;
a receipt that looks up an expired message deletes it as any reader does.

### Dispatching, MCDispatching

A message goes through Trigger, BeginRange (the header that Go's `range` copies),
Serve (reading a cell when its turn comes), Answer (the outcome and the marks
it leaves, none where a webhook's payload or request cannot be made) and Served; a request through Begin (the database), Add or Remove,
and Store (the assignment of the slice header). The slice is modelled as Go
keeps it, as a header over a shared array: replacing in place, appending into
room, growing into a copy and compacting in place (Compacted: the cells at the
positions Staying move to the front) have different effects on a goroutine in
the middle of its loop. How much room a copy gets is Go's affair and a constant,
`Capacity`; MCDispatching doubles it. History variables: `disturbed`, the
messages in whose loop a removal moved cells, and `clashed`, that two requests
changed the list at a time.

### RabbitMQClient, RabbitMQOutbox, MCRabbitMQClient

One `RabbitMQClient` with its goroutines: `monitorConnection` (`monitor`;
Dial ... RegisterNotify, ResetSetup, StartProcessor, ConnectionClosed,
RetryConnect, MonitorStops), `processCache` (`processor`; ProcessorTick,
TakeFromCache, GetChannel, PublishCached, PublishCachedFails, ProcessorStops),
one publishing goroutine per message (`pc`: `PublishRabbitMQ` with
`EnsureExchangeAndQueuesWithRetry` from BeginSetup to EndSetup, the wait and
the retry, `PublishMessageToExchange` from ReadChannel to CacheMessage, and the
report), and `Close` (CloseBegins; CloseLocks, after which it holds `r.mu`;
CloseReturns). The broker goes and returns,
a line is cut (LineCut), noticed later (CutNoticed), or a channel is closed by
an exception (ChannelException). A message written to a line that is cut and
not noticed is `lost` without an error, as with a TCP socket. The messages
of `broken` are those `json.Marshal` refuses: any subset, chosen at the start.
A publication of one is logged and given up (MarshalFails), with no channel
it is cached first, and given up by `processCache` (DiscardCached).

`r.notify` is unbuffered (`rabbitmq_client.go:82`), and the AMQP library sends on
it before it fails the calls that wait for an answer. So a channel that goes down
and has its notification registered is first "closing": what was declared on it
gets no answer (`SendDeclaration` is one step, its answer another) and
publications wait, until the monitor receives in its `select`
(ConnectionClosed). `Unheard` says that it never will: the monitor has
stopped, or waits for the mutex of a set-up whose declaration waits for the library.

RabbitMQOutbox is what the dispatching code may rely on: a message is sent
once, held, or given up when the cache is full or it cannot be marshalled, and
nothing is sent after Close. `fateOf` maps the client onto it (`ImplementsOutbox`).

### RabbitMQPool

`GetRabbitMQClient` (Lookup, LockToCreate, FoundMeanwhile or CreateClient,
Connected or NotConnected, and SetUp: the exchange and the queues are declared
with the lock held, `rabbitmq_defaults.go:72`), `CloseRabbitMQClient`
(LockToClose, CloseClient, DeleteClient), and
the operations of the bots on their dispatchings that call them. A client is a
number; whether its Close or its set-up returns is a free choice here (`hung`),
because RabbitMQClient shows that neither need. `DispatchingClear` belongs to the store and is
modelled, although nothing calls it at this commit.

### WakeUpScheduler

`parseWakeUpHour` (FirstWakeUp), the ticker (WakeUp, TickOutside), the timer of
`executeWakeUp` (GoOffline), Stop and the end of the loop, the client and the
link, and the events that send the configured presence whatever the scheduler
is doing (PresenceEvent). A wake-up may last into later ones, so there may be
several timers. Time is discrete; a tick is handled at most `Lag` late.

### Proof modules

RabbitMQClient\_proofs, RabbitMQPool\_proofs, WhatsmeowEvents\_proofs,
Messages\_proofs (also of MessageCache and MessageStatus), Dispatching\_proofs,
WhatsappServer\_proofs and ControlPlane\_proofs extend the module they are named
after and hold the theorems and lemmas about it, nothing else.
Background\_proofs does so for two small modules: it extends WakeUpScheduler and
PairingPage, which share no name: the initial states, steps and specification
of the latter are PageInit, PageNext and PageSpec.

## Runs

| run | instance | shows |
|---|---|---|
| control | 2 tokens, one of them stored; 2 goroutines, one asked for any route, one for those that change bots; 2 requests, 2 connections | MemoryIsDatabase: after any requests, failures and pairings a crash restores the bots there were; NoSessionIsOrphaned; PanicsOnlyIfTorn: a tested bot panics only if another request takes its connection; RefusedChangesNothing |
| server_calls | 4 requests in a row, deletions among them but no pairing, 1 logout, no drops | TypeOK; LiveIsCurrent: no session is left behind |
| server_race | 2 requests at once, 1 drop, pairing and delete among them, fair | NothingIsReplaced: `EnsureUnderlying` makes a connection only where there is none; CallsReturn; ReadyIsAttached: a Ready bot that does not dispatch had its handler cleared under a reconnecting client or another request's dial, or was paired without it |
| page | 2 scanners, or a scanner and a request of the API; 2 codes for one and 1 for the other, a queue of 1, fair | HubNeverPanics; ScannersEnd, unless the page was closed or the encoder gave up before another code came; PageIsTold |
| events | four scenes of 2 to 4 events, see MCEvents | HistoryIsExact: what is taken for history; HistoryStaysApart: and in which queue it ends; OncePerMessage; LoggedOutIsUnverified |
| messages | 2 senders over 3 ids, 4 appends and 2 days; or 2 senders of one id with any content, 4 appends and a day; or a sender and 2 receipts of one message; or 3 receipts of 2 messages | CounterAgrees; LengthIsBounded; DuplicatesAreDenied; ReadIsReported; ExactUnlessOverlapped |
| dispatch | a webhook that never answers and a queue, 2 messages, 2 requests at once, 2 changes, fair | OnceUnlessRemoved: only a removal during the loop, or two changes at a time, make it skip or repeat; MemoryIsDatabase, until two changes were made at a time; EveryMessageServed, unless it waits for good in a publish |
| rmq_safety | 2 messages, cache of 1, 2 connections | TypeOK; OnePlace: a message is in exactly one of pending, cached, in the processor's hand, written, dropped; SetupIsCurrent: the set-up flag never speaks of an older channel; NothingAfterClose; ImplementsOutbox: a message is given up only if the cache is full or it cannot be marshalled |
| rmq_live | 1 message, 2 connections, fair | CallsReturn: a publication returns with or without a broker; CacheDrains; CloseReturnsOrSticks: the only ways Close hangs; all unless a notification is unheard for ever |
| rmq_success_report | as rmq_safety | *violated*: a success is reported for a message that is cached or dropped |
| rmq_pool | 2 bots, 2 strings, 2 goroutines, 3 clients, fair | LiveIsRegistered: never two live clients of a string; RegisteredIsLive: no closed client is handed out; GetReturns, unless a Close or a set-up hangs |
| wakeup | scaled day of 14, 2.5 days, wake-ups of 12, every start, both configured presences, fair | TypeOK; NoWindowPasses, unless started at the end of the window; OnceADay; OnlineIsTimed: an account that is online has the timer that ends it; WakeUpEnds |

Why the bounds are enough for what they are used for:

* *Control plane*: two requests, a pairing and the goroutine of the start give
  every pair of things that can meet at one token; the second token is needed
  for the unique wid, for the bot that a pairing without a token may choose, and
  to see that others are left alone. Any route meets any that changes bots; two
  that only read do not disturb each other. Two connections give one that is
  replaced. Reboot may come after each step, and again. Theorems lift the four
  properties to any number of tokens, requests and connections.
* *Bot*: four requests one after the other cover every sequence of the
  operations on a bot up to stop-start-stop-start with each outcome of a dial,
  and theorems lift them to any number. Two concurrent ones cover every pair.
* *Page*: two scanners compete for a queue of one, so that it is full after one
  code; the last code of a scanner leaves a goroutine with a late one, and the
  second of one scanner may find its encoder gone. A theorem
  lifts HubNeverPanics to any number of scanners, codes and places in the queue.
* *Events*: four events are a connection, both ends of the sync and a message
  on either side of one of them; the other scenes trade events for variety: every
  field of a message in every variant, batches of history, two requests that
  find the handler missing and a stop, every kind of receiver. Theorems lift the four
  properties to every scene, of any number of events.
* *Messages*: the races are between two goroutines; three ids over a length of
  one make each CleanUp delete more than it should; with Modulus 32 the unsigned
  difference wraps as it does at 2^64, because the counter and the maximum stay
  far below half of it (CacheAssumption). Two receipts overlap, a third comes
  before or after them, with every type and every set of ids; two days pass one
  expiry and what comes after it. Theorems lift all five properties to any ids,
  contents, goroutines, length and scenes.
* *Dispatching*: two dispatchings give the loop a position before and after
  the one that changes; the initial list is any sequence of distinct
  dispatchings, so two changes fill the room of an array, grow it, or leave cells
  and reuse them, and two requests make them one after the other or at a time.
  Theorems lift both invariants to any messages, dispatchings, requests and
  number of changes, with any growth of the array.
* *RabbitMQ client*: two publishers and the processor are the three parties
  that can meet at a cache; capacity 1 makes it full with one message, so that
  drop, put-back and eviction-by-race all happen; two connections give one
  reconnection, the only thing a stale channel, flag or notification needs; any
  of the messages may be broken.
  Theorems lift the five properties of rmq_safety to any number.
* *Pool*: two goroutines race for one look-up, a second string shows that
  strings do not mix, and a third client follows a close and a re-creation.
  Theorems lift both invariants to any number of bots, strings and goroutines.
* *Wake-up*: the unit is chosen so that Window is twice Period, as in the code
  (10 and 5 minutes), with a lag of half a period; all starting times of a day
  are initial states. A wake-up of 12 outlasts the beginning of the next if it
  came at the end of its window, and only then. Theorems lift all but WakeUpEnds to any day.

Deadlock is checked in dispatch, where `Finished` marks the end. Elsewhere the
system may stop by itself: the bounds on events, requests, connections and time
run out, a page is gone, a closed client has nothing to do, a notification is
unheard, and a Close that hangs keeps the pool's lock.

## Fairness

* Goroutines that can go on are run, and timers fire: weak fairness of each
  goroutine's steps (the Go scheduler is preemptive).
* A goroutine waiting for a mutex gets it in the end although others take it
  again and again: strong fairness of the publishing goroutines, of ResetSetup,
  and of the steps of the pool. `sync.Mutex` hands the lock to a waiter that
  has starved for a millisecond, `sync.RWMutex` blocks new readers once a
  writer waits.
* `select` chooses at random between ready cases: strong fairness of the
  branch that sees `closed` (MonitorStops, ProcessorStops).
* A cut line is noticed (CutNoticed): the AMQP heartbeat. An open one answers a
  declaration or is closed. A channel whose end nobody hears is assumed to stay:
  the library has no timeout on it.
* Of Close and of the set-up of a new client the pool assumes nothing: either
  they return or, in the model, are said to have hung. Nor must a publish that
  has its client end (Use).
* A call of a webhook ends: the client has a timeout of 10 seconds
  (`environment/api_settings.go:31`). Of a publish nothing is assumed: it asks
  for its client first (`models/qp_dispatching.go:289`), which waits for
  `clientMutex`, and a Close that hangs keeps that mutex
  (`rabbitmq/rabbitmq_defaults.go:91`).
* WhatsApp's pairing codes run out: the scanner's next event comes, be it a
  code, a timeout or another (Receive in Scan); the read deadline of a page
  that is gone passes, and so does that of writing.
* No fairness for requests, messages, events of WhatsApp, what a page says, the
  broker's return, or the restoration of a link. CacheDrains therefore assumes
  `<>[]brokerUp`.

## Proofs

Every theorem is of a specification as it is run, for every value of the
constants that the named assumptions of its module allow; TLC evaluates these
assumptions on the instances.

| theorem | states | for every |
|---|---|---|
| *RabbitMQClient\_proofs* | | number of messages and connections, size of the cache |
| TypeCorrect | TypeOK | |
| SetupFlagIsCurrent | SetupIsCurrent | |
| ClosedClientIsSilent | NothingAfterClose | |
| MessagesAreInOnePlace | OnePlace | |
| ClientIsAnOutbox | ImplementsOutbox: the client refines RabbitMQOutbox | |
| UnheardIsForEver | once `Unheard`, for ever: it is a deadlock and no delay | |
| *RabbitMQPool\_proofs* | | set of bots, strings and goroutines, number of clients |
| OneClientPerString | LiveIsRegistered | |
| ClosedIsUnregistered | RegisteredIsLive | |
| *WhatsmeowEvents\_proofs* | | scene: any number of events, with any messages and batches |
| HistoryIsRight | HistoryIsExact | |
| HistoryHasItsQueue | HistoryStaysApart | |
| GivenOnce | OncePerMessage | |
| LogOutHolds | LoggedOutIsUnverified | |
| *Messages\_proofs* | | ids, contents, scenes, length and age of the cache, finite set of goroutines |
| CounterIsRight | CounterAgrees | |
| LengthHolds | LengthIsBounded | |
| RetriesAreDenied | DuplicatesAreDenied | |
| MessagesAreCached, MessagesHaveStatus | the composition implements MessageCache and MessageStatus | |
| ReadReportIsSent | ReadIsReported | |
| AloneIsExact | ExactUnlessOverlapped | |
| *Dispatching\_proofs* | | messages and their options, finite set of dispatchings, growth of the array, requests and number of changes |
| MemoryIsTheTable | MemoryIsDatabase | |
| ServedOnceUnlessRemoved | OnceUnlessRemoved | |
| *Background\_proofs* | | |
| HubIsSafe | HubNeverPanics, of PairingPage | number of scanners, requests and codes, size of the queue |
| TypeCorrect | TypeOK, of WakeUpScheduler | day, hour, window, period, lag and duration |
| NoWindowIsMissed | NoWindowPasses | |
| WakesOnceADay | OnceADay | |
| OnlineHasItsTimer | OnlineIsTimed | |
| *ControlPlane\_proofs* | | finite set of tokens, goroutines, number of requests and connections, routes in the order of RoutesAssumption |
| TypeCorrect | TypeOK | |
| MemoryAgreesWithDatabase | MemoryIsDatabase | |
| EverySessionHasItsBot | NoSessionIsOrphaned | |
| PanicsAreTorn | PanicsOnlyIfTorn | |
| RefusedLeavesNothing | RefusedChangesNothing | |
| *WhatsappServer\_proofs* | | operations, number of concurrent requests, drops, logouts |
| ConnectionIsNeverReplaced | NothingIsReplaced | |
| TypeCorrect | TypeOK | |
| NoSessionIsLeft | LiveIsCurrent | one caller, no pairing, no drops; number of requests and logouts |
| ReadyBotDispatches | ReadyIsAttached | |

**RabbitMQ client.** Assumed: capacity and connections are positive, and the
two special values are no messages. SetupIsCurrent is not inductive: it needs
to know which connections and channels there are. `ConnInv` says that the
monitor's position determines `conn`, `channel` and `notify`, that only the
newest connection can be open, and that after Close there is none a publisher
could use; from the moment Close has the mutex, the monitor has stopped. `ChannelsHeldInv` says that a goroutine can only hold a channel that
was dialled. `SetupInv` says that who is inside the set-up holds the mutex,
that a goroutine about to set the flag has declared on the channel it holds,
and that this is the current channel once the monitor is past ResetSetup -
which waits for the mutex, and that is the argument. `SafeInv` is their
conjunction with the types. ClosedClientIsSilent follows from ConnInv: every
channel is closed, so a publication on it fails. MessagesAreInOnePlace goes
action by action over the moves of a message.

*The deadlock.* In UnheardIsForEver (`UnheardStep`) three wait for one another:
the library for a reader of `r.notify`, its only reader, the monitor, for
`setupMutex`, and the holder of that, who declares, for the library. Only the monitor receives on a closing channel
(`ClosingStays`), and not before its `select`; only the holder ends the set-up,
and its declaration fails only when the channel is closed. Close cannot help: its
signal is read in the `select` too. If the monitor has stopped, there is nobody to
receive at all.

*The outbox.* By OnePlace the fate of a message is the place it is in
(`FateByPlace`), so a step that moves no message is a stutter of the outbox and
one that moves a message changes one fate (`OneFate`). Three steps need more.
A message may be given up only if it cannot be marshalled or when the outbox
holds as many as it has room for: the cache is full, its messages are distinct, so they are as many as its
length (`DistinctMembers`, `FullCacheIsHeld`). Sending is allowed only before
Close: after it every channel a goroutine could hold is closed (`ClosedLines`,
from SafeInv). And holding a message again, when the processor puts back what
it could not send, changes no fate, as the hand holds it already.

**RabbitMQ pool.** `OwnerHolds`: who is between the lock and the unlock owns
`clientMutex`, so only one goroutine writes the map. `CloserHasClient`: a
client about to be closed is still the registered one, and one about to be
taken out is closed. `SetterHasClient`: the goroutine in the set-up has the
registered client, and nobody can close it meanwhile. The window between CloseClient and DeleteClient, in which
a closed client is registered, is the one RegisteredIsLive speaks of.

**Pairing page.** `ChannelIsOpen`: the channel of the page is open exactly as
long as the hub has it registered; the hub tests that before it writes, and closes
the channel when it takes the page out, because the queue is full or because
readPump has ended, and only if nobody has done so before. Of
PairingPageAssumption the proof uses that the queue has a capacity.

**Dispatching.** Assumed (DispatchingAssumption): the urls are finitely many,
and a copy has room for what is copied; how much more does not matter. Any
number of requests may change the list and any number of messages be served
meanwhile. What the theorems promise ends at the step at which one request
begins while another has not stored its header (`clashed`): such requests do
lose an append and leave memory and table apart (MemoryIsAlwaysDatabase, see the
table below). Up to there `OneAtATime` is part of the invariant, not a
hypothesis.

The invariant speaks of headers and cells, as the code does. `Exactly(s, set)`:
the header `s` lists the urls of `set`, each once. `ListInv` follows a request by
its program counter: the table is ahead of the list by one url between Begin and
Add or Remove (the list is still that of some `set`), and between these and Store
it is the list of the header that the request holds and nobody else sees.
`InLoop(m)` is what a message in its loop may rely on unless a removal disturbed it: the
cells of its own header have distinct urls, those that stayed in the list are
among them, and exactly the accepted ones before the index have been served. No
cell before or after the index may change its url for that, and this is where
the sharing matters: `Fits` says that where the list, or the header that a
request is about to assign, is over the array of the loop, it is at least as
long as the loop's header, so that an append writes behind all cells the loop
will read. A removal breaks `Fits` for the loops under way, which it marks
`disturbed`; a loop that begins between a removal and its Store takes the old
header, which is longer, and is marked as well. A loop that begins after a
removal takes the shorter header, and the stale cells behind it, which an
append fills, are none of its own. What becomes of the cells of an array has a
lemma for each way of changing it: `Writing` (in place and into room),
`Copying` (`Growing`), and `Compacting`, for which the positions that stay are
put in a bijection with the front of the array by their rank (`Ranking`); hence
a removal keeps each of the other urls, once.

**Events.** What is taken for history depends on two flags that goroutines set
in any order, so the invariant has to look ahead. `Foreseen(k, syncing)`: the
kth event will find the flags as the server meant them if the goroutines
before it that are still to set them, the last one in particular, do so.
`FlagInv` says this of every message that waits and of the next event;
`FiledInv` is HistoryIsExact for what was filed. `SingleInv`, `BatchInv`,
`DeliverInv` and `GotInv` follow one message from the goroutine that has it,
through its delivery, to the copies the dispatching handlers were given: an
event is in one of these places, a batch delivers from its front, and a copy is
in the history queue just when it was filed as history. Two messages of one
event are told apart by their place in the batch (`left`) and in the array
(`extra`). `RegistryInv`: the dispatching handler is never in
its list twice. `LogoutInv`: after a logout no OnConnected is to
come, unless one is late. The arrival of an event and the end of a goroutine
are each described once (`Arrives`, `Ends`); every action is shown to be one of
these shapes, and each shape to keep the invariant.

**Message cache.** Assumed (CacheAssumption): finitely many goroutines, and a
modulus of more than four times the length of the cache and the goroutines
together, which 2^64 is. The counter is unsigned and wraps, so `CounterInv`
says that it agrees up to a multiple of the modulus with `Counted`, the size of
the map less the goroutines that have yet to count what they stored, plus those
that have yet to uncount what they deleted. LengthIsBounded is about CleanUps
that run at once and each delete for themselves: `CleanInv` states the bound
for every set of goroutines at clean-up, that is, whoever of them is done
already, the others answer for what is left. That a CleanUp deletes as much as
it should although its difference is unsigned is `AmountIsRight`.
DuplicatesAreDenied is about the past and is proved of the log: after a message
was triggered and while it stayed, every content has the text of the one before
it (`KeepsText`), and the entry in the map is the last delivery (`LastIs`).

**Statuses.** `MessagesAreCached` and `MessagesHaveStatus` show that each step
of the composition is a step of MessageCache and one of MessageStatus, or
leaves them alone; so what is proved of the parts holds of the whole, for which
the scene has to stay as it is (`ScenesStay`). `ReportInv`: when a read receipt
has come, it was reported or somebody holds it and is about to. `AloneInv`: of
a message whose receipts never overlapped, there is one goroutine updating it,
which holds the highest receipt.

**Wake-up.** `TickInv`: while `run` is running, the next tick, even handled as
late as it may be, comes before the end of the window of `wakeUpTime` - unless
StartsLate. `LastWakeInv`: the last wake-up was in the window one day before
`wakeUpTime`. The assumption `Period + Lag <= Window` is the code's "checks
every 5 minutes, 10-minute window"; a shorter window could fall between two checks.
`ShownInv`: who is online has a client and a link, so that the timer that fires
does take the account offline; the timer of an earlier wake-up may do so too, and
then the account is not online any more. That nothing takes it offline *before*
its time is not so (OnlineLasts, below).

**Bot.** `OwnerInside`: who is inside `EnsureUnderlying` holds the lock.
`StillNone`: until a pairing, who is about to create a connection still sees
none - stops and deletes only ever set the field to nil, and no other step sets
it outside the lock. Pairing does (`AppendPaired`), which is why the property
and the theorem speak of the time before one.

`Counted` is what makes TypeOK inductive: the connections made, plus those the
requests under way may still make (`Makers`, `Pairers`), are at most two for each
call. It needs `Phases`: a restart comes to Start and a pairing to EnsureReady
once. NoSessionIsLeft assumes `OneAtATime`, and each of its parts is needed: two calls undo each other's work, `AppendPaired` drops the
connection it replaces without closing its session, and `Dispose` does not close
a session that is reconnecting. Then what a request has read is still so
(`Alone`), and a connection is disposed of and its session handed to CloseSession
before the field is set to nil (`Owned`). ReadyBotDispatches assumes nothing:
`Heard` says that where a client runs or is being dialed the handler is attached,
was taken away under it (`muted`), the bot is asked to stop, or a request is about
to register it. Only dials bring a client up, they come after Attach, and only
Clear takes the handler away again.

**Control plane.** Assumed (ControlAssumption, RoutesAssumption): finitely many
tokens, and the order all handlers keep. The program counter of a goroutine is
what it still has to do, so the invariant reads the past from the future:
`InOrder` says that a bot or connection the rest of a request uses is in its
hands, and that one that tested a bot, or took its connection, will neither look
up another nor stop this one. That order survives every step is a matter of
sequences (`RestOrderly`, `RestPreceded`, `RestAvoids`, `NextStep`). The four
other parts are:

* `ClashInv`: if one goroutine makes or deletes a bot and another changes it,
  their token is in `clash`. A goroutine enters such a state only where it finds
  the bot, and `Join` looks at the others there; afterwards it only becomes less
  of a danger (`Lighter`).
* `Relies`: what a goroutine on a token without a clash may take for granted:
  its bot is the registered one, a bot just made has no row and no session,
  one being deleted has lost its session, and a row found is still there. No
  other goroutine can change these but by a step that makes or changes the
  bot, and then there is a clash (`OthersRely`).
* `Apart` and `Owned`: a connection belongs to one object, waits for its phone,
  was replaced, or is in the hands of the pairing that brought it. `Owned` gives
  EverySessionHasItsBot. `Keeps`: who holds a connection that nobody tore holds
  one that exists; with it a panic after the test Ready is torn.
* `RowsInv`: memory and table agree on a token, or somebody is to save it or to
  take it out of the map (`Pending`) - which is what makes MemoryIsDatabase
  inductive, as no one that serves the bot is left when it is evaluated. The
  wids of the rows are distinct, so that the objects loaded after a crash are
  distinct too (`LoadedIsInjective`, `HeapIsLoaded`).

There is a lemma for each action, or for the actions of one shape: those that
only read (`ReadingKeepsInv`), those that find a bot (`Rebound`), those that
change the table or the map (`TableStep`), those that take a connection away
(`DisposeKeepsInv`).

RefusedChangesNothing needs an invariant of its own on top of this one,
`Tested`: a request that has sent or changed something has no test ahead of it,
wherever it is, and one that was refused had done neither. In which order a
handler tests and changes is RoutesAssumption, which TLC evaluates for every
handler; that no interleaving, failure or restart of ControlPlane brings a test
behind a change is the theorem.

Every invariant and action property of the passing runs is a theorem. Only model-checked is liveness,
as fairness and ENABLED are outside of what the prover handles (CallsReturn,
CacheDrains, CloseReturnsOrSticks, GetReturns, ScannersEnd, PageIsTold,
EveryMessageServed, WakeUpEnds).

## Where the code does not do what it says

One run shows a disagreement with a comment: `models/qp_dispatching.go:324`
marks a publication as a success if the client has a channel afterwards; line
356 says "only if connection is ready and message was truly published"
(rmq_success_report).

More are stated in the modules. Each is violated when its name is put into the
named configuration with the change given:

| property | configuration | what happens |
|---|---|---|
| WindowIsNeverMissed | wakeup, Spec | started 5 to 10 minutes after the hour, the scheduler keeps today's hour (`whatsmeow/whatsmeow_wakeup_scheduler.go:96`), its first tick is too late, and as the wake-up time only moves inside of the window it never wakes up again; line 153 says the window "ensures we don't miss it" |
| OnlineLasts | wakeup | `environment/README.md:66` calls the duration that "to keep presence online"; the events Connected, PushNameSetting and AppStateSyncComplete send the configured presence, by default "unavailable", in the middle of a wake-up (`whatsmeow/whatsmeow_handlers.go:297`, `:311`, `:340`), and a duration of about a day lets the timer of one wake-up end the next |
| ReadyDispatches | server_calls, Ops = {"start", "stop"}, MaxCalls = 2, MaxDrops = 1, MaxLogouts = 0 | a Start that fails while the session is reconnecting clears the handlers (`models/qp_whatsapp_server.go:479`); the session returns, the bot is Ready and silent, which `whatsapp/whatsapp_connection_state.go:45` calls "Fully operational" |
| StoppedIsTheEnd, DisposedIsOffline | the same | a reconnecting session is not connected, so Stop and Dispose leave it alone (`qp_whatsapp_server.go:530`, `whatsmeow_connection.go:991`) |
| OneConnectAtATime | server_race, Ops = {"start"}, no drops | `IsConnecting` is tested and set in two steps (`whatsmeow_connection.go:77`) |
| DeletedStaysDeleted | server_race, Ops = {"start", "save", "delete"}, MaxCalls = 3 | Save asks, Delete deletes, Save adds (`qp_whatsapp_server.go:644`) |
| LoggedOutWaits | server_calls, Ops = {"start"} | OnConnected runs after LoggedOut and verifies again (`whatsmeow_handlers.go:304`) |
| NothingOpenAfterClose | rmq_safety | a channel exception drops the reference to an open connection (`rabbitmq_client.go:139`), which Close cannot close |
| DeclaredOncePerConnection | rmq_safety | two publishers that both found no flag declare one after the other (`:87`, against `:358`) |
| EveryCallReturns | rmq_live | the connection is lost after `r.notify` is registered and before ResetSetup has `setupMutex` (`:83`, `:86`), while a publisher declares (`:374`): publisher, monitor and library wait for one another for ever, and so does whoever needs `setupMutex` |
| CloseTerminates | rmq_live | Close waits for processCache, which waits in GetChannel for a connection the stopped monitor will not make (`:214`); or the channel goes down after the monitor has stopped, and `channel.Close` (`:272`) waits for the library, which waits for a reader of `r.notify` |
| NoOrphanedClient | rmq_pool | a message being published reopens the client that the removal of its dispatching closed (`qp_data_dispatching.go:94`) |
| CleanUpStopsAtLength | messages | two CleanUps work from one length and together delete too much (`qp_cache.go:86`) |
| NoDaysIsUnlimited | messages, CacheDays = 0 | `qp_whatsapp_messages.go:25` falls back to the default expiration |
| DeliveredOnce | dispatch | a removal compacts the array under the loop: one dispatching is skipped, another served twice (`qp_data_dispatching.go:89`) |
| MemoryIsAlwaysDatabase | dispatch | two appends at once, one is lost (`qp_data_dispatching.go:63`) |
| FailureIsFirst, SuccessIsKept | dispatch | PublishRabbitMQ overwrites both marks (`qp_dispatching.go:332`), unlike PostWebhook and the comments at 38 and 39 |
| ErrorsAreKept | dispatch | the flag belongs to the message, and a later success clears it (`qp_dispatching.go:245`, `:363`) |

Other properties hold up to an exemption, and the exemption is something the
code does:

* ControlPlane, `clash`: two creations of one token race, the second insert
  fails and takes the first's bot out of the map with it; a deletion between
  the two halves of `Save` leaves a row without a bot; a bot that is deleted
  before its goroutine of the start runs gets a session nobody stands for.
* ControlPlane, `unsaved`: a bot changed in memory stays changed when its save
  fails; in particular a second bot without a phone can never be saved, because
  the wid, empty for both, is unique in the table.
* ControlPlane, `replaced`: AppendPaired drops the connection a bot has without
  disposing of it (`qp_whatsapp_service.go:115`).
* ControlPlane, `torn`: a bot found ready may have no connection or no client
  when it is used (`qp_whatsapp_server.go:409`). A request that never asked
  panics without any race on a bot that has none, as `Revoke` and `MarkRead` do
  (`qp_whatsapp_server.go:240`).
* MessageCache, DuplicatesAreDenied: a content is compared with the one last
  delivered, not with the one last triggered. After an ad, a plain message of
  its text is a duplicate but takes its place; an ad with other fields is then a
  duplicate too and takes the place again; and the first ad, when it is
  delivered once more, differs from what is cached and is triggered a second
  time (`models/qp_cache_fuck_unoapi.go:76`).
* WhatsappServer, `muted`: Clear takes the handler from a bot whose client is
  reconnecting, or that another request is dialing, and a pairing brings a
  connection to a bot without one; the bot may then be Ready and silent until a
  Start or EnsureReady registers the handler again.
* PairingPage, `Abandoned`: a code that cannot be encoded ends the goroutine
  that encodes (`qp_whatsapp_extensions.go:52`), and the scanner waits for ever to
  hand over the next code (`whatsmeow_connection.go:778`), be the page open or
  closed; ScannersAlwaysEnd of the page run is the property without it.
* WakeUpScheduler, `configured`: the end of a wake-up takes an account offline
  that PRESENCE is to keep online, until one of the three events comes.
* WhatsmeowEvents, `overtaken` and `inOrder`: the goroutines of the offline
  sync may run in the wrong order, and the flags then stay wrong until the next
  event of the sync: live messages are filed as history. The contacts after the
  first of an array lose their history mark (`extra`).
* PairingPage, ScannersEnd: once a page has been closed, the channel of codes
  closes without an event and the scanner waits for ever on its wait group
  (`whatsmeow_connection.go:794`), with two goroutines and a connection. A page
  that vanishes does not cancel its scanners at all. PageIsTold: errors other
  than a timeout are logged and not shown, and any error with "time" in its
  text is shown as a timeout.
* Routes: the name or topic of a group is changed before the query whose
  failure makes the answer an error (`whatsmeow_group_manager.go:231`); of an
  audio with a text the text may be sent and the audio not
  (`qp_whatsapp_server.go:758`).

## Abstractions

* Contents are model values or small records of what the code compares. Log
  lines, metrics, payload encoding and HTTP details are left out; of an answer
  its kind is kept (done, refused, failed, panic).
* whatsmeow, the AMQP library, the broker, the browser and the network are
  external: they are modelled by what the code observes of them.
* In ControlPlane consecutive tests of the request alone are one step, as no
  other goroutine can tell them apart, and `Uses` records when a goroutine has
  a bot in its hands. Configurations are one bit that a change flips: that is
  enough to see whether memory and row agree.
* A step of a route that asks WhatsApp or a store may fail or succeed, whatever
  was done before; the store of contacts itself is not modelled.
* Database errors are modelled in ControlPlane (each statement may fail) and in
  `DispatchingClear`, not in WhatsappServer.
* Mentions, names of participants, the texts of messages and user presence are
  left out of the events: they change no flag and no queue.
* `sendPresence` of the scheduler is one step, although Dispose may set the
  client to nil between its tests.
* A mutex that is taken and released without a step of another goroutine being
  visible in between is one step.
* The expiry of the cache of statuses is left out of MessageStatus. A bot
  starts with an empty cache, so a receipt may name a message it never saw.
* A slice header or a pointer that is read while it is written is read old or new,
  although Go does not promise that of a slice header.
* Bounds, all named: MaxRequests, MaxConns, MaxCalls, MaxDrops, MaxLogouts,
  Scanners, Requests, MaxCodes and Buffer, events and clears of a scene,
  appends and days of a scene, MaxAppends, MaxTime, MaxOps, MaxClients.

## Not modelled

* *SignalR hub*: a map of connections by token that connections change and
  messages read without a lock; what that does is up to the Go run time.
* *SIP proxy*: no package imports it at this commit, so the program is linked
  without it.
* *Listing of contacts*: the merge of store, groups and LIDs, and the global
  maps between phones and LIDs, which are only "known or not" here. They are
  filled by any bot, and never corrected.
* *Chat presence*: the goroutine that takes an indicator back is a silent step
  of its route. Its requests are keyed by chat alone, so two bots writing to one
  chat cancel each other (`api/chat_presence_requests_controller.go:64`).
* *Discovery of MCP tools*: reads comments of the sources once, at the start.
* *UserController*: has no route.
* *Users and migrations*: steps that may fail, in ControlPlane.
* *Environment, media, metrics, library, Swagger, conversions between API
  versions*: read-only, pure or generated.

## Plan

Next:

1. Contacts: the maps of phones and LIDs that all bots share, and the merge of
   the listing as a function, checked against what a contact should show.
2. The SignalR hub and chat presence, on the pattern of PairingPage.
3. ControlPlane over WhatsappServer: Start and Stop split there too, with
   WhatsappServer as the detailed specification of one bot.

Proofs to add: that ControlPlane's connections are those of WhatsappServer, once
Start and Stop are split there.
