--------------------------- MODULE RabbitMQClient ---------------------------
(***************************************************************************)
(* One RabbitMQClient (src/src/rabbitmq/rabbitmq_client.go) and the        *)
(* goroutines that share it:                                               *)
(*                                                                         *)
(*   - monitorConnection, which dials, watches the connection and redials; *)
(*   - processCache, which drains the in-memory cache;                     *)
(*   - one goroutine per message, running QpDispatching.PublishRabbitMQ    *)
(*     (src/src/models/qp_dispatching.go) against the client;              *)
(*   - one caller of Close.                                                *)
(*                                                                         *)
(* A connection and the channel opened on it carry the same number, given  *)
(* by the order of the dials; 0 is Go's nil.  What a message holds is left *)
(* out: a message is a model value.                                        *)
(***************************************************************************)
EXTENDS Naturals, Sequences, FiniteSets, Functions

CONSTANTS
    Messages,   \* the messages, one publishing goroutine each
    NoMsg,      \* the empty hand of the cache processor
    Nobody,     \* the owner of a free mutex
    CacheCap,   \* maxCacheSize: the capacity of messageCache
    MaxConns    \* bound: the number of connections ever dialled

ASSUME CacheAssumption == CacheCap \in Nat \ {0}
ASSUME ConnsAssumption == MaxConns \in Nat \ {0}
ASSUME MsgAssumption == NoMsg \notin Messages /\ Nobody \notin Messages

Conns == 1..MaxConns

VARIABLES
    \* the fields of the client
    conn,           \* r.conn, 0 when nil
    channel,        \* r.channel, 0 when nil
    notify,         \* the connection r.notify is registered on
    closed,         \* the channel r.closed is closed
    messageCache,   \* r.messageCache, a FIFO of capacity CacheCap
    setupDone,      \* r.quepasaSetupDone
    setupMutex,     \* who holds r.setupMutex: Nobody or a message
    \* the goroutines
    monitor,        \* program counter of monitorConnection
    processor,      \* program counter of processCache
    hand,           \* the message processCache took from the cache
    procCh,         \* its currentChannel
    pc,             \* program counter of each publishing goroutine
    pubCh,          \* its ch: the channel it read
    reported,       \* what PublishRabbitMQ told its caller
    closer,         \* program counter of Close
    \* the broker, the network, and the fate of the messages
    brokerUp,       \* a dial succeeds
    dials,          \* connections dialled so far
    line,           \* "up", "cut" (dead, nobody noticed), "closing" (the
                    \* library waits for a reader of r.notify) or "closed"
    sockets,        \* connections still open on the broker
    declarations,   \* how often the topology was declared on a connection
    wire,           \* the messages the broker received, in order
    lost,           \* messages written to a dead socket without an error
    dropped,        \* messages that found the cache full, or were refused
    broken          \* the messages json.Marshal refuses

clientVars == <<conn, channel, notify, closed, messageCache, setupDone,
                setupMutex>>
procVars == <<processor, hand, procCh>>
pubVars == <<pc, pubCh, reported>>
envVars == <<brokerUp, dials, line, sockets>>
fateVars == <<wire, lost, dropped, broken>>
vars == <<clientVars, monitor, procVars, pubVars, closer, envVars,
          declarations, fateVars>>

-----------------------------------------------------------------------------
MonitorPC == {"dial", "channel", "notify", "reset", "start", "watch",
              "backoff", "done"}
ProcessorPC == {"off", "tick", "take", "channel", "publish", "done"}
PublisherPC == {"idle", "ensure", "declare", "declaring", "flag", "wait",
                "retry", "redeclare", "redeclaring", "reflag", "send",
                "publish", "cache", "mark", "done"}
LineState == {"none", "up", "cut", "closing", "closed"}

\* sets and sequences a reader can take in at a glance
TypeOK ==
    /\ conn \in 0..MaxConns /\ channel \in 0..MaxConns
    /\ notify \in 0..MaxConns
    /\ closed \in BOOLEAN
    /\ messageCache \in Seq(Messages) /\ Len(messageCache) <= CacheCap
    /\ setupDone \in BOOLEAN
    /\ setupMutex \in Messages \cup {Nobody}
    /\ monitor \in MonitorPC
    /\ processor \in ProcessorPC
    /\ hand \in Messages \cup {NoMsg}
    /\ procCh \in 0..MaxConns
    /\ pc \in [Messages -> PublisherPC]
    /\ pubCh \in [Messages -> 0..MaxConns]
    /\ reported \in [Messages -> {"none", "success", "failure"}]
    /\ closer \in {"open", "waiting", "locked", "closed"}
    /\ brokerUp \in BOOLEAN
    /\ dials \in 0..MaxConns
    /\ line \in [Conns -> LineState]
    /\ sockets \subseteq Conns
    /\ declarations \in [Conns -> Nat]
    /\ wire \in Seq(Messages)
    /\ lost \subseteq Messages /\ dropped \subseteq Messages
    /\ broken \subseteq Messages

\* NewRabbitMQClient: nothing is connected and the monitor is started
Init ==
    /\ conn = 0 /\ channel = 0 /\ notify = 0
    /\ closed = FALSE
    /\ messageCache = <<>>
    /\ setupDone = FALSE /\ setupMutex = Nobody
    /\ monitor = "dial"
    /\ processor = "off" /\ hand = NoMsg /\ procCh = 0
    /\ pc = [m \in Messages |-> "idle"]
    /\ pubCh = [m \in Messages |-> 0]
    /\ reported = [m \in Messages |-> "none"]
    /\ closer = "open"
    /\ brokerUp \in BOOLEAN
    /\ dials = 0
    /\ line = [c \in Conns |-> "none"]
    /\ sockets = {}
    /\ declarations = [c \in Conns |-> 0]
    /\ wire = <<>> /\ lost = {} /\ dropped = {}
    /\ broken \in SUBSET Messages

-----------------------------------------------------------------------------
(* monitorConnection and connect                                           *)

\* amqp.Dial succeeds: r.conn is the new connection
Dial ==
    /\ monitor = "dial" /\ channel = 0
    /\ brokerUp /\ dials < MaxConns
    /\ dials' = dials + 1
    /\ conn' = dials + 1
    /\ line' = [line EXCEPT ![dials + 1] = "up"]
    /\ sockets' = sockets \cup {dials + 1}
    /\ monitor' = "channel"
    /\ UNCHANGED <<channel, notify, closed, messageCache, setupDone,
                   setupMutex, procVars, pubVars, closer, brokerUp,
                   declarations, fateVars>>

\* amqp.Dial fails and returns a nil connection
DialFails ==
    /\ monitor = "dial" /\ channel = 0
    /\ ~brokerUp
    /\ conn' = 0
    /\ monitor' = "backoff"
    /\ UNCHANGED <<channel, notify, closed, messageCache, setupDone,
                   setupMutex, procVars, pubVars, closer, envVars,
                   declarations, fateVars>>

\* r.conn.Channel() succeeds: from here on the others see the new channel
OpenChannel ==
    /\ monitor = "channel" /\ line[conn] = "up"
    /\ channel' = conn
    /\ monitor' = "notify"
    /\ UNCHANGED <<conn, notify, closed, messageCache, setupDone, setupMutex,
                   procVars, pubVars, closer, envVars, declarations,
                   fateVars>>

\* it fails: the connection is closed, and r.conn keeps pointing at it
OpenChannelFails ==
    /\ monitor = "channel" /\ line[conn] # "up"
    /\ line' = [line EXCEPT ![conn] = "closed"]
    /\ sockets' = sockets \ {conn}
    /\ monitor' = "backoff"
    /\ UNCHANGED <<clientVars, procVars, pubVars, closer, brokerUp, dials,
                   declarations, fateVars>>

\* r.channel.NotifyClose(r.notify): from here on the library cannot finish
\* closing the channel before somebody has received from r.notify, which is
\* unbuffered (rabbitmq_client.go:82); only the select of monitorConnection
\* receives from it.  A channel that is closed already closes r.notify
RegisterNotify ==
    /\ monitor = "notify"
    /\ notify' = conn
    /\ monitor' = "reset"
    /\ UNCHANGED <<conn, channel, closed, messageCache, setupDone, setupMutex,
                   procVars, pubVars, closer, envVars, declarations,
                   fateVars>>

\* as if connect did not take setupMutex
ResetSetup_Unlocked ==
    /\ monitor = "reset"
    /\ setupDone' = FALSE
    /\ monitor' = "start"
    /\ UNCHANGED <<conn, channel, notify, closed, messageCache, setupMutex,
                   procVars, pubVars, closer, envVars, declarations,
                   fateVars>>

\* the critical section of connect: the flag of the old connection is void
ResetSetup ==
    /\ monitor = "reset" /\ setupMutex = Nobody
    /\ setupDone' = FALSE
    /\ monitor' = "start"
    /\ UNCHANGED <<conn, channel, notify, closed, messageCache, setupMutex,
                   procVars, pubVars, closer, envVars, declarations,
                   fateVars>>

\* cacheProcessing.Do: only the first connection starts the cache processor
StartProcessor ==
    /\ monitor = "start"
    /\ processor' = IF processor = "off" THEN "tick" ELSE processor
    /\ monitor' = "watch"
    /\ UNCHANGED <<clientVars, hand, procCh, pubVars, closer, envVars,
                   declarations, fateVars>>

\* <-r.notify: the library goes on closing, the client forgets the connection
\* and dials again
ConnectionClosed ==
    /\ monitor = "watch" /\ line[notify] \in {"closing", "closed"}
    /\ line' = [line EXCEPT ![notify] = "closed"]
    /\ channel' = 0 /\ conn' = 0
    /\ monitor' = "dial"
    /\ UNCHANGED <<notify, closed, messageCache, setupDone, setupMutex,
                   procVars, pubVars, closer, brokerUp, dials, sockets,
                   declarations, fateVars>>

\* five seconds after a failed connect
RetryConnect ==
    /\ monitor = "backoff"
    /\ monitor' = "dial"
    /\ UNCHANGED <<clientVars, procVars, pubVars, closer, envVars,
                   declarations, fateVars>>

\* as if only the wait for a lost connection looked at r.closed
MonitorStops_OnlyWatching ==
    /\ monitor = "watch" /\ closed
    /\ monitor' = "done"
    /\ UNCHANGED <<clientVars, procVars, pubVars, closer, envVars,
                   declarations, fateVars>>

\* <-r.closed, in either select
MonitorStops ==
    /\ monitor \in {"watch", "backoff"} /\ closed
    /\ monitor' = "done"
    /\ UNCHANGED <<clientVars, procVars, pubVars, closer, envVars,
                   declarations, fateVars>>

-----------------------------------------------------------------------------
(* Publish, as every goroutine calls it: an error on a channel the library *)
(* knows to be closed, on a dead socket an error or success without        *)
(* delivery.  While the library is closing the channel it holds the lock   *)
(* that Publish needs, so that neither happens                             *)

PublishOn(c, m) ==
    /\ line[c] \in {"up", "cut"}
    /\ wire' = IF line[c] = "up" THEN Append(wire, m) ELSE wire
    /\ lost' = IF line[c] = "cut" THEN lost \cup {m} ELSE lost
    /\ UNCHANGED <<dropped, broken>>

PublishFails(c) == line[c] \in {"cut", "closed"}

\* as if the cache took one message too many
AddToCache_OneTooMany(m) ==
    /\ IF Len(messageCache) <= CacheCap
         THEN /\ messageCache' = Append(messageCache, m)
              /\ UNCHANGED dropped
         ELSE /\ dropped' = dropped \cup {m}
              /\ UNCHANGED messageCache
    /\ UNCHANGED <<wire, lost, broken>>

\* as if the last place of the cache were never used
AddToCache_OneTooFew(m) ==
    /\ IF Len(messageCache) + 1 < CacheCap
         THEN /\ messageCache' = Append(messageCache, m)
              /\ UNCHANGED dropped
         ELSE /\ dropped' = dropped \cup {m}
              /\ UNCHANGED messageCache
    /\ UNCHANGED <<wire, lost, broken>>

\* a non-blocking send on messageCache: the message is dropped when it is full
AddToCache(m) ==
    /\ IF Len(messageCache) < CacheCap
         THEN /\ messageCache' = Append(messageCache, m)
              /\ UNCHANGED dropped
         ELSE /\ dropped' = dropped \cup {m}
              /\ UNCHANGED messageCache
    /\ UNCHANGED <<wire, lost, broken>>

(* processCache                                                            *)

\* the 500 ms timer, with a channel in place; without one nothing happens
ProcessorTick ==
    /\ processor = "tick" /\ channel # 0
    /\ processor' = "take"
    /\ UNCHANGED <<clientVars, monitor, hand, procCh, pubVars, closer,
                   envVars, declarations, fateVars>>

ProcessorStops ==
    /\ processor = "tick" /\ closed
    /\ processor' = "done"
    /\ UNCHANGED <<clientVars, monitor, hand, procCh, pubVars, closer,
                   envVars, declarations, fateVars>>

TakeFromCache ==
    /\ processor = "take" /\ messageCache # <<>>
    /\ Head(messageCache) \notin broken
    /\ hand' = Head(messageCache)
    /\ messageCache' = Tail(messageCache)
    /\ processor' = "channel"
    /\ UNCHANGED <<conn, channel, notify, closed, setupDone, setupMutex,
                   monitor, procCh, pubVars, closer, envVars, declarations,
                   fateVars>>

\* a cached message that cannot be marshalled is taken, logged and forgotten
DiscardCached ==
    /\ processor = "take" /\ messageCache # <<>>
    /\ Head(messageCache) \in broken
    /\ messageCache' = Tail(messageCache)
    /\ dropped' = dropped \cup {Head(messageCache)}
    /\ UNCHANGED <<conn, channel, notify, closed, setupDone, setupMutex,
                   monitor, procVars, pubVars, closer, envVars, declarations,
                   wire, lost, broken>>

CacheIsEmpty ==
    /\ processor = "take" /\ messageCache = <<>>
    /\ processor' = "tick"
    /\ UNCHANGED <<clientVars, monitor, hand, procCh, pubVars, closer,
                   envVars, declarations, fateVars>>

\* GetChannel returns: it polls for as long as r.channel is nil, and does not
\* look at r.closed
GetChannel ==
    /\ processor = "channel" /\ channel # 0
    /\ procCh' = channel
    /\ processor' = "publish"
    /\ UNCHANGED <<clientVars, monitor, hand, pubVars, closer, envVars,
                   declarations, fateVars>>

PublishCached ==
    /\ processor = "publish"
    /\ PublishOn(procCh, hand)
    /\ hand' = NoMsg
    /\ processor' = IF messageCache = <<>> THEN "tick" ELSE "take"
    /\ UNCHANGED <<clientVars, monitor, procCh, pubVars, closer, envVars,
                   declarations>>

\* as if the processor gave up on the first failure
PublishCachedFails_Exits ==
    /\ processor = "publish"
    /\ PublishFails(procCh)
    /\ AddToCache(hand)
    /\ hand' = NoMsg
    /\ processor' = "done"
    /\ UNCHANGED <<conn, channel, notify, closed, setupDone, setupMutex,
                   monitor, procCh, pubVars, closer, envVars, declarations>>

\* the message goes back, to the end of the queue, if there is still room
PublishCachedFails ==
    /\ processor = "publish"
    /\ PublishFails(procCh)
    /\ AddToCache(hand)
    /\ hand' = NoMsg
    /\ processor' = "tick"
    /\ UNCHANGED <<conn, channel, notify, closed, setupDone, setupMutex,
                   monitor, procCh, pubVars, closer, envVars, declarations>>

-----------------------------------------------------------------------------
(* PublishRabbitMQ, one goroutine per message                              *)

Goto(m, l) == pc' = [pc EXCEPT ![m] = l]

StartPublishing(m) ==
    /\ pc[m] = "idle"
    /\ Goto(m, "ensure")
    /\ UNCHANGED <<clientVars, monitor, procVars, pubCh, reported, closer,
                   envVars, declarations, fateVars>>

\* where EnsureExchangeAndQueuesWithRetry goes after an error of either try;
\* PublishRabbitMQ ignores the second error
AfterError(l) ==
    IF l \in {"ensure", "declare", "declaring"} THEN "wait" ELSE "send"

\* EnsureExchangeAndQueues returns in its critical section: nothing to do
AlreadySetUp(m) ==
    /\ pc[m] \in {"ensure", "retry"} /\ setupMutex = Nobody
    /\ setupDone
    /\ Goto(m, "send")
    /\ UNCHANGED <<clientVars, monitor, procVars, pubCh, reported, closer,
                   envVars, declarations, fateVars>>

NoChannelToSetUp(m) ==
    /\ pc[m] \in {"ensure", "retry"} /\ setupMutex = Nobody
    /\ ~setupDone /\ channel = 0
    /\ Goto(m, AfterError(pc[m]))
    /\ UNCHANGED <<clientVars, monitor, procVars, pubCh, reported, closer,
                   envVars, declarations, fateVars>>

\* it keeps the mutex and the channel it read, and starts to declare
BeginSetup(m) ==
    /\ pc[m] \in {"ensure", "retry"} /\ setupMutex = Nobody
    /\ ~setupDone /\ channel # 0
    /\ setupMutex' = m
    /\ pubCh' = [pubCh EXCEPT ![m] = channel]
    /\ Goto(m, IF pc[m] = "ensure" THEN "declare" ELSE "redeclare")
    /\ UNCHANGED <<conn, channel, notify, closed, messageCache, setupDone,
                   monitor, procVars, reported, closer, envVars,
                   declarations, fateVars>>

\* a declaration is sent on that channel, dead or not.  A channel that is
\* closing still takes it when its connection is intact
SendDeclaration(m) ==
    /\ pc[m] \in {"declare", "redeclare"}
    /\ line[pubCh[m]] \in {"up", "cut", "closing"}
    /\ Goto(m, IF pc[m] = "declare" THEN "declaring" ELSE "redeclaring")
    /\ UNCHANGED <<clientVars, monitor, procVars, pubCh, reported, closer,
                   envVars, declarations, fateVars>>

\* the broker answers: exchange, queues and bindings are declared
Declare(m) ==
    /\ pc[m] \in {"declaring", "redeclaring"} /\ line[pubCh[m]] = "up"
    /\ declarations' = [declarations EXCEPT ![pubCh[m]] = @ + 1]
    /\ Goto(m, IF pc[m] = "declaring" THEN "flag" ELSE "reflag")
    /\ UNCHANGED <<clientVars, monitor, procVars, pubCh, reported, closer,
                   envVars, fateVars>>

\* the declaration cannot be sent, or the library has closed the channel on
\* which it waits for an answer.  While the library is still closing it, the
\* declaration waits: the error comes after the notification
DeclarationIsLost(m) ==
    \/ pc[m] \in {"declare", "redeclare"} /\ line[pubCh[m]] # "up"
    \/ pc[m] \in {"declaring", "redeclaring"} /\ line[pubCh[m]] = "closed"

\* as if the error path forgot to release setupMutex
DeclareFails_KeepsMutex(m) ==
    /\ DeclarationIsLost(m)
    /\ Goto(m, AfterError(pc[m]))
    /\ UNCHANGED <<clientVars, monitor, procVars, pubCh, reported, closer,
                   envVars, declarations, fateVars>>

DeclareFails(m) ==
    /\ DeclarationIsLost(m)
    /\ setupMutex' = Nobody
    /\ Goto(m, AfterError(pc[m]))
    /\ UNCHANGED <<conn, channel, notify, closed, messageCache, setupDone,
                   monitor, procVars, pubCh, reported, closer, envVars,
                   declarations, fateVars>>

EndSetup(m) ==
    /\ pc[m] \in {"flag", "reflag"}
    /\ setupDone' = TRUE
    /\ setupMutex' = Nobody
    /\ Goto(m, "send")
    /\ UNCHANGED <<conn, channel, notify, closed, messageCache, monitor,
                   procVars, pubCh, reported, closer, envVars, declarations,
                   fateVars>>

\* Close holds r.mu, which IsConnectionReady reads under
MuIsHeld == closer = "locked"

\* WaitForConnection, for at most five seconds
ConnectionIsReady(m) ==
    /\ pc[m] = "wait" /\ channel # 0 /\ ~MuIsHeld
    /\ Goto(m, "retry")
    /\ UNCHANGED <<clientVars, monitor, procVars, pubCh, reported, closer,
                   envVars, declarations, fateVars>>

WaitTimesOut(m) ==
    /\ pc[m] = "wait" /\ ~MuIsHeld
    /\ Goto(m, "send")
    /\ UNCHANGED <<clientVars, monitor, procVars, pubCh, reported, closer,
                   envVars, declarations, fateVars>>

\* PublishMessageToExchange reads r.channel, without r.mu
ReadChannel(m) ==
    /\ pc[m] = "send"
    /\ pubCh' = [pubCh EXCEPT ![m] = channel]
    /\ Goto(m, IF channel = 0 THEN "cache" ELSE "publish")
    /\ UNCHANGED <<clientVars, monitor, procVars, reported, closer, envVars,
                   declarations, fateVars>>

\* json.Marshal refuses the message: it is logged, and neither sent nor cached
MarshalFails(m) ==
    /\ pc[m] = "publish" /\ m \in broken
    /\ dropped' = dropped \cup {m}
    /\ Goto(m, "mark")
    /\ UNCHANGED <<clientVars, monitor, procVars, pubCh, reported, closer,
                   envVars, declarations, wire, lost, broken>>

Publish(m) ==
    /\ pc[m] = "publish" /\ m \notin broken
    /\ PublishOn(pubCh[m], m)
    /\ Goto(m, "mark")
    /\ UNCHANGED <<clientVars, monitor, procVars, pubCh, reported, closer,
                   envVars, declarations>>

\* as if a failed publication were not cached
PublishError_NotCached(m) ==
    /\ pc[m] = "publish" /\ m \notin broken
    /\ PublishFails(pubCh[m])
    /\ Goto(m, "mark")
    /\ UNCHANGED <<clientVars, monitor, procVars, pubCh, reported, closer,
                   envVars, declarations, fateVars>>

PublishError(m) ==
    /\ pc[m] = "publish" /\ m \notin broken
    /\ PublishFails(pubCh[m])
    /\ Goto(m, "cache")
    /\ UNCHANGED <<clientVars, monitor, procVars, pubCh, reported, closer,
                   envVars, declarations, fateVars>>

CacheMessage(m) ==
    /\ pc[m] = "cache"
    /\ AddToCache(m)
    /\ Goto(m, "mark")
    /\ UNCHANGED <<conn, channel, notify, closed, setupDone, setupMutex,
                   monitor, procVars, pubCh, reported, closer, envVars,
                   declarations>>

\* what is reported depends on the channel there is now, not on the one the
\* message was written to
ReportOutcome(m) ==
    /\ pc[m] = "mark" /\ ~MuIsHeld
    /\ reported' = [reported EXCEPT ![m] =
                       IF channel # 0 THEN "success" ELSE "failure"]
    /\ Goto(m, "done")
    /\ UNCHANGED <<clientVars, monitor, procVars, pubCh, closer, envVars,
                   declarations, fateVars>>

-----------------------------------------------------------------------------
(* Close                                                                   *)

\* close(r.closed)
CloseBegins ==
    /\ closer = "open"
    /\ closed' = TRUE
    /\ closer' = "waiting"
    /\ UNCHANGED <<conn, channel, notify, messageCache, setupDone, setupMutex,
                   monitor, procVars, pubVars, envVars, declarations,
                   fateVars>>

\* wg.Wait ends when both goroutines have returned, and Close takes r.mu
CloseLocks ==
    /\ closer = "waiting"
    /\ monitor = "done" /\ processor \in {"off", "done"}
    /\ closer' = "locked"
    /\ UNCHANGED <<clientVars, monitor, procVars, pubVars, envVars,
                   declarations, fateVars>>

\* as if Close left the channel open
CloseReturns_ChannelLeftOpen ==
    /\ closer = "locked"
    /\ closer' = "closed"
    /\ UNCHANGED <<clientVars, monitor, procVars, pubVars, envVars,
                   declarations, fateVars>>

\* it closes what it still knows of; r.channel and r.conn are not cleared.
\* When the library is closing the channel itself, Close waits for it
CloseReturns ==
    /\ closer = "locked"
    /\ \A c \in {channel, conn} \cap Conns : line[c] # "closing"
    /\ line' = [c \in Conns |-> IF c \in {channel, conn} THEN "closed"
                                ELSE line[c]]
    /\ sockets' = sockets \ {conn}
    /\ closer' = "closed"
    /\ UNCHANGED <<clientVars, monitor, procVars, pubVars, brokerUp, dials,
                   declarations, fateVars>>

-----------------------------------------------------------------------------
(* The broker and the network.  A connection is disturbed only while       *)
(* another one may still be dialled, so that MaxConns does not itself cut  *)
(* the client off                                                          *)

BrokerGoes ==
    /\ brokerUp /\ brokerUp' = FALSE
    /\ UNCHANGED <<clientVars, monitor, procVars, pubVars, closer, dials,
                   line, sockets, declarations, fateVars>>

BrokerReturns ==
    /\ ~brokerUp /\ brokerUp' = TRUE
    /\ UNCHANGED <<clientVars, monitor, procVars, pubVars, closer, dials,
                   line, sockets, declarations, fateVars>>

\* the connection dies, and the library has not noticed yet
LineCut(c) ==
    /\ line[c] = "up" /\ dials < MaxConns
    /\ line' = [line EXCEPT ![c] = "cut"]
    /\ sockets' = sockets \ {c}
    /\ UNCHANGED <<clientVars, monitor, procVars, pubVars, closer, brokerUp,
                   dials, declarations, fateVars>>

\* the library shuts a channel down: it first sends on r.notify, and only then
\* marks the channel closed and fails the calls that wait for an answer
ShutDown(c) ==
    line' = [line EXCEPT ![c] = IF notify = c THEN "closing" ELSE "closed"]

\* the library notices (heartbeat, read error) and closes the connection
CutNoticed(c) ==
    /\ line[c] = "cut"
    /\ ShutDown(c)
    /\ UNCHANGED <<clientVars, monitor, procVars, pubVars, closer, brokerUp,
                   dials, sockets, declarations, fateVars>>

\* the broker closes the channel alone (a declaration that does not match, an
\* exchange that is missing): the connection under it stays open
ChannelException(c) ==
    /\ line[c] = "up" /\ channel = c /\ dials < MaxConns
    /\ ShutDown(c)
    /\ UNCHANGED <<clientVars, monitor, procVars, pubVars, closer, brokerUp,
                   dials, sockets, declarations, fateVars>>

-----------------------------------------------------------------------------
MonitorNext ==
    \/ Dial \/ DialFails \/ OpenChannel \/ OpenChannelFails
    \/ RegisterNotify \/ ResetSetup \/ StartProcessor
    \/ ConnectionClosed \/ RetryConnect \/ MonitorStops

ProcessorNext ==
    \/ ProcessorTick \/ ProcessorStops
    \/ TakeFromCache \/ DiscardCached \/ CacheIsEmpty
    \/ GetChannel \/ PublishCached \/ PublishCachedFails

PublisherStep(m) ==
    \/ AlreadySetUp(m) \/ NoChannelToSetUp(m) \/ BeginSetup(m)
    \/ SendDeclaration(m) \/ Declare(m) \/ DeclareFails(m) \/ EndSetup(m)
    \/ ConnectionIsReady(m) \/ WaitTimesOut(m)
    \/ ReadChannel(m)
    \/ MarshalFails(m) \/ Publish(m) \/ PublishError(m)
    \/ CacheMessage(m) \/ ReportOutcome(m)

PublisherNext(m) == StartPublishing(m) \/ PublisherStep(m)

EnvNext ==
    \/ BrokerGoes \/ BrokerReturns
    \/ \E c \in Conns : LineCut(c) \/ CutNoticed(c) \/ ChannelException(c)

Next ==
    \/ MonitorNext
    \/ ProcessorNext
    \/ \E m \in Messages : PublisherNext(m)
    \/ CloseBegins \/ CloseLocks \/ CloseReturns
    \/ EnvNext

Spec == Init /\ [][Next]_vars

(***************************************************************************)
(* The Go scheduler runs every goroutine that can go on, timers fire, and  *)
(* a dead connection is noticed at the latest by its heartbeat.  Nobody is *)
(* obliged to publish or to call Close.  A goroutine waiting for the setup *)
(* mutex, or choosing between two ready cases of a select, gets strong     *)
(* fairness: sync.Mutex hands a starved waiter the lock, and select        *)
(* chooses at random.                                                      *)
(***************************************************************************)
Fairness ==
    /\ WF_vars(MonitorNext) /\ SF_vars(ResetSetup) /\ SF_vars(MonitorStops)
    /\ WF_vars(ProcessorNext) /\ SF_vars(ProcessorStops)
    /\ \A m \in Messages : SF_vars(PublisherStep(m))
    /\ WF_vars(CloseLocks) /\ WF_vars(CloseReturns)
    /\ \A c \in Conns : WF_vars(CutNoticed(c))

FairSpec == Spec /\ Fairness

-----------------------------------------------------------------------------
(* Safety                                                                  *)

NoRepeats(s) == \A i, j \in DOMAIN s : s[i] = s[j] => i = j

InHand == {hand} \ {NoMsg}
Held == Range(messageCache) \cup InHand
Written == Range(wire) \cup lost

\* PublishMessageToExchange has dealt with the message
Handled(m) == pc[m] \in {"mark", "done"}

(***************************************************************************)
(* A message is in one place: not yet handled by its goroutine, in the     *)
(* cache, in the hand of the cache processor, written to a channel, or     *)
(* dropped - never in two of them (which would publish it twice), never in *)
(* none (which would lose it without a trace).  It is about the moves      *)
(* between PublishMessageToExchange, AddToCache and processCache, failed   *)
(* publications and put-backs included.                                    *)
(***************************************************************************)
OnePlace ==
    /\ NoRepeats(messageCache) /\ NoRepeats(wire)
    /\ Held \cap (Written \cup dropped) = {}
    /\ Range(messageCache) \cap InHand = {}
    /\ Range(wire) \cap lost = {}
    /\ Written \cap dropped = {}
    /\ {m \in Messages : Handled(m)} = Held \cup Written \cup dropped

(***************************************************************************)
(* Once connect has returned, a set quepasaSetupDone speaks of the channel *)
(* in use: the topology was declared on that very channel.  It is about    *)
(* the flag surviving a reconnection while EnsureExchangeAndQueues is      *)
(* still declaring on the old channel.                                     *)
(***************************************************************************)
SetupIsCurrent ==
    monitor \in {"start", "watch"} /\ setupDone => declarations[channel] > 0

(***************************************************************************)
(* After Close has returned nothing reaches the broker any more, whatever  *)
(* channel a goroutine still holds.                                        *)
(***************************************************************************)
NothingAfterClose == [][closer = "closed" => UNCHANGED wire]_vars

-----------------------------------------------------------------------------
(* What the client promises to the dispatching code                        *)

\* what has become of each message, in the words of the outbox
fateOf == [m \in Messages |->
              CASE m \in Written -> "sent"
                [] m \in dropped -> "gone"
                [] m \in Held    -> "held"
                [] OTHER         -> "pending"]

Outbox == INSTANCE RabbitMQOutbox
              WITH fate <- fateOf, open <- closer # "closed"

(***************************************************************************)
(* The client is an outbox: it never writes a message twice, never takes   *)
(* back one it has written or dropped, drops a message that can be         *)
(* marshalled only when the cache is full, never writes one that cannot,   *)
(* and writes nothing once Close has returned.                             *)
(***************************************************************************)
ImplementsOutbox == Outbox!Spec

-----------------------------------------------------------------------------
(* Liveness                                                                *)

(***************************************************************************)
(* Nobody will ever receive from r.notify, and the library waits for it:   *)
(* the monitor has stopped (rabbitmq_client.go:139), or it waits for the   *)
(* setup mutex (86) that is held by a goroutine whose declaration (374) is *)
(* to fail after the notification.  This is a deadlock of the code.        *)
(***************************************************************************)
Unheard ==
    \E c \in Conns :
        /\ line[c] = "closing"
        /\ \/ monitor = "done"
           \/ /\ monitor = "reset"
              /\ \E m \in Messages :
                     pc[m] \in {"declaring", "redeclaring"} /\ pubCh[m] = c

(***************************************************************************)
(* A call of PublishRabbitMQ returns, whether or not there is a broker, or *)
(* the client hangs for ever on an unheard notification: the setup mutex   *)
(* is released on every path, and no other wait is unbounded.              *)
(***************************************************************************)
CallsReturn ==
    \A m \in Messages : pc[m] = "ensure" ~> (pc[m] = "done" \/ []Unheard)

(***************************************************************************)
(* If the broker stays, a message in the cache leaves it: the monitor      *)
(* reconnects, and the cache processor, once started, goes on after every  *)
(* failure - unless the client is closed, or hangs on an unheard           *)
(* notification.                                                           *)
(***************************************************************************)
CacheDrains ==
    <>[]brokerUp =>
        \A m \in Messages :
            m \in Held ~> (m \in Written \cup dropped \/ closed \/ []Unheard)

\* the other way Close can hang: the processor waits in GetChannel for a
\* connection that the monitor, which has stopped, will never make
StuckInGetChannel == monitor = "done" /\ processor = "channel" /\ channel = 0

(***************************************************************************)
(* Close returns, or the processor is stuck in GetChannel, or the library  *)
(* waits for a reader of r.notify for ever: there is no other way for the  *)
(* goroutines, or the channel, to keep Close waiting.                      *)
(***************************************************************************)
CloseReturnsOrSticks ==
    closer = "waiting" ~>
        (closer = "closed" \/ StuckInGetChannel \/ []Unheard)

-----------------------------------------------------------------------------
(* What a caller, and the comments of the code, expect, and the code does  *)
(* not do                                                                  *)

(***************************************************************************)
(* A call of PublishRabbitMQ returns, without an exception.  It does not   *)
(* when the connection is lost between rabbitmq_client.go:83 and 86 while  *)
(* the call is in EnsureExchangeAndQueues.                                 *)
(***************************************************************************)
EveryCallReturns == \A m \in Messages : pc[m] = "ensure" ~> pc[m] = "done"

(***************************************************************************)
(* rabbitmq_client.go:262: Close "closes the RabbitMQ connection and       *)
(* channel and stops the reconnection monitor and cache processor".        *)
(***************************************************************************)
CloseTerminates == closer = "waiting" ~> closer = "closed"

(***************************************************************************)
(* The same comment, of the connections: none is left open on the broker   *)
(* after Close.                                                            *)
(***************************************************************************)
NothingOpenAfterClose == closer = "closed" => sockets = {}

(***************************************************************************)
(* qp_dispatching.go:356: "Mark as success only if connection is ready and *)
(* message was truly published".                                           *)
(***************************************************************************)
SuccessMeansPublished ==
    \A m \in Messages : reported[m] = "success" => m \in Written

(***************************************************************************)
(* rabbitmq_client.go:358: EnsureExchangeAndQueues "only runs once per     *)
(* connection to avoid repeated declarations".                             *)
(***************************************************************************)
DeclaredOncePerConnection == \A c \in Conns : declarations[c] <= 1

=============================================================================
