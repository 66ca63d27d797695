----------------------- MODULE RabbitMQClient_proofs -----------------------
(***************************************************************************)
(* Proofs about RabbitMQClient, for every set of messages, every cache     *)
(* capacity and every number of connections.                               *)
(***************************************************************************)
EXTENDS RabbitMQClient, FiniteSetTheorems, TLAPS

-----------------------------------------------------------------------------
(* Type correctness                                                        *)

LEMMA AppendType ==
    ASSUME NEW S, NEW s \in Seq(S), NEW x \in S
    PROVE  Append(s, x) \in Seq(S) /\ Len(Append(s, x)) = Len(s) + 1
OBVIOUS

LEMMA TailType ==
    ASSUME NEW S, NEW s \in Seq(S), s # <<>>
    PROVE  /\ Head(s) \in S
           /\ Tail(s) \in Seq(S)
           /\ Len(Tail(s)) = Len(s) - 1
OBVIOUS

\* the cache processor holds a message exactly while it is busy publishing it,
\* and never one that cannot be marshalled
HandInv ==
    /\ (hand # NoMsg) <=> processor \in {"channel", "publish"}
    /\ hand \notin broken

TypeInv == TypeOK /\ HandInv

LEMMA TypeInit == Init => TypeInv
<1> SUFFICES ASSUME Init PROVE TypeInv
    OBVIOUS
<1>1. messageCache \in Seq(Messages) /\ wire \in Seq(Messages)
      BY DEF Init
<1>2. Len(messageCache) <= CacheCap
      BY CacheAssumption DEF Init
<1>3. /\ pc \in [Messages -> PublisherPC]
      /\ pubCh \in [Messages -> 0..MaxConns]
      /\ reported \in [Messages -> {"none", "success", "failure"}]
      BY ConnsAssumption DEF Init, PublisherPC
<1>4. /\ line \in [Conns -> LineState]
      /\ declarations \in [Conns -> Nat]
      BY DEF Init, LineState
<1>5. /\ 0 \in 0..MaxConns
      /\ monitor \in MonitorPC /\ processor \in ProcessorPC
      /\ hand = NoMsg /\ processor \notin {"channel", "publish"}
      BY ConnsAssumption DEF Init, MonitorPC, ProcessorPC
<1>6. HandInv
      BY <1>5, MsgAssumption DEF Init, HandInv
<1>7. QED
      BY <1>1, <1>2, <1>3, <1>4, <1>5, <1>6 DEF Init, TypeInv, TypeOK

\* a non-blocking send keeps the cache within its capacity
LEMMA AddToCacheType ==
    ASSUME TypeInv, NEW m \in Messages, AddToCache(m)
    PROVE  /\ messageCache' \in Seq(Messages)
           /\ Len(messageCache') <= CacheCap
           /\ dropped' \subseteq Messages
           /\ wire' = wire /\ lost' = lost /\ broken' = broken
<1> USE CacheAssumption DEF TypeInv, TypeOK
<1>1. CASE Len(messageCache) < CacheCap
  <2>1. messageCache' = Append(messageCache, m) /\ dropped' = dropped
        BY <1>1 DEF AddToCache
  <2>2. /\ messageCache' \in Seq(Messages)
        /\ Len(messageCache') = Len(messageCache) + 1
        BY <2>1, AppendType
  <2>3. Len(messageCache) \in Nat
        OBVIOUS
  <2>4. QED
        BY <1>1, <2>1, <2>2, <2>3 DEF AddToCache
<1>2. CASE ~(Len(messageCache) < CacheCap)
      BY <1>2 DEF AddToCache
<1>3. QED
      BY <1>1, <1>2

LEMMA TypeStep == TypeInv /\ [Next]_vars => TypeInv'
<1> SUFFICES ASSUME TypeInv, [Next]_vars PROVE TypeInv'
    OBVIOUS
<1> USE CacheAssumption, ConnsAssumption
    DEF TypeInv, TypeOK, HandInv, clientVars, procVars, pubVars, envVars,
        fateVars, LineState
<1>1. CASE MonitorNext
  <2>1. CASE Dial
        BY <2>1 DEF Dial, MonitorPC, Conns
  <2>2. CASE DialFails
        BY <2>2 DEF DialFails, MonitorPC
  <2>3. CASE OpenChannel
        BY <2>3 DEF OpenChannel, MonitorPC
  <2>4. CASE OpenChannelFails
        BY <2>4 DEF OpenChannelFails, MonitorPC, Conns
  <2>5. CASE RegisterNotify
        BY <2>5 DEF RegisterNotify, MonitorPC
  <2>6. CASE ResetSetup
        BY <2>6 DEF ResetSetup, MonitorPC
  <2>7. CASE StartProcessor
        BY <2>7
        DEF StartProcessor, MonitorPC, ProcessorPC, MonitorPC, ProcessorPC
  <2>8. CASE ConnectionClosed
    <3>1. line' = [line EXCEPT ![notify] = "closed"]
          BY <2>8 DEF ConnectionClosed
    <3>2. line' \in [Conns -> LineState]
          BY <3>1
    <3>3. QED
          BY <2>8, <3>2 DEF ConnectionClosed, MonitorPC
  <2>9. CASE RetryConnect
        BY <2>9 DEF RetryConnect, MonitorPC
  <2>10. CASE MonitorStops
        BY <2>10 DEF MonitorStops, MonitorPC
  <2>11. QED
        BY <1>1, <2>1, <2>2, <2>3, <2>4, <2>5, <2>6, <2>7, <2>8, <2>9, <2>10
        DEF MonitorNext
<1>2. CASE ProcessorNext
  <2>1. CASE ProcessorTick
        BY <2>1 DEF ProcessorTick, ProcessorPC
  <2>2. CASE ProcessorStops
        BY <2>2 DEF ProcessorStops, ProcessorPC
  <2>3. CASE TakeFromCache
        BY <2>3, TailType, MsgAssumption DEF TakeFromCache, ProcessorPC
  <2>4. CASE CacheIsEmpty
        BY <2>4 DEF CacheIsEmpty, ProcessorPC
  <2>5. CASE GetChannel
        BY <2>5 DEF GetChannel, ProcessorPC
  <2>6. CASE PublishCached
        BY <2>6, AppendType, MsgAssumption
        DEF PublishCached, PublishOn, ProcessorPC
  <2>7. CASE PublishCachedFails
        BY <2>7, AddToCacheType, MsgAssumption
        DEF PublishCachedFails, ProcessorPC
  <2>8. CASE DiscardCached
    <3>1. messageCache \in Seq(Messages) /\ messageCache # <<>>
          BY <2>8 DEF DiscardCached
    <3>2. /\ Head(messageCache) \in Messages
          /\ Tail(messageCache) \in Seq(Messages)
          /\ Len(Tail(messageCache)) = Len(messageCache) - 1
          BY <3>1, TailType
    <3>3. QED
          BY <2>8, <3>1, <3>2 DEF DiscardCached, ProcessorPC
  <2>9. QED
        BY <1>2, <2>1, <2>2, <2>3, <2>4, <2>5, <2>6, <2>7, <2>8
        DEF ProcessorNext
<1>3. ASSUME NEW m \in Messages, PublisherNext(m) PROVE TypeInv'
  <2> USE DEF Goto
  <2>1. CASE StartPublishing(m)
        BY <2>1 DEF StartPublishing, PublisherPC
  <2>2. CASE AlreadySetUp(m)
        BY <2>2 DEF AlreadySetUp, PublisherPC
  <2>3. CASE NoChannelToSetUp(m)
        BY <2>3 DEF NoChannelToSetUp, PublisherPC, AfterError
  <2>4. CASE BeginSetup(m)
        BY <2>4 DEF BeginSetup, PublisherPC
  <2>5. CASE Declare(m)
    <3> DEFINE n == declarations[pubCh[m]] + 1
    <3>1. declarations' \in [Conns -> Nat]
      <4>1. declarations' = [declarations EXCEPT ![pubCh[m]] = n]
            BY <2>5 DEF Declare
      <4>2. pubCh[m] \in Conns => n \in Nat
            OBVIOUS
      <4>3. QED
            BY <4>1, <4>2
    <3>2. QED
          BY <2>5, <3>1 DEF Declare, PublisherPC
  <2>6. CASE DeclareFails(m)
        BY <2>6 DEF DeclareFails, PublisherPC, AfterError
  <2>7. CASE EndSetup(m)
        BY <2>7 DEF EndSetup, PublisherPC
  <2>8. CASE ConnectionIsReady(m)
        BY <2>8 DEF ConnectionIsReady, PublisherPC
  <2>9. CASE WaitTimesOut(m)
        BY <2>9 DEF WaitTimesOut, PublisherPC
  <2>10. CASE ReadChannel(m)
        BY <2>10 DEF ReadChannel, PublisherPC
  <2>11. CASE Publish(m)
        BY <2>11, AppendType DEF Publish, PublishOn, PublisherPC
  <2>12. CASE PublishError(m)
        BY <2>12 DEF PublishError, PublishFails, PublisherPC
  <2>13. CASE CacheMessage(m)
        BY <2>13, AddToCacheType DEF CacheMessage, PublisherPC
  <2>14. CASE ReportOutcome(m)
        BY <2>14 DEF ReportOutcome, PublisherPC
  <2>15. CASE SendDeclaration(m)
        BY <2>15 DEF SendDeclaration, PublisherPC
  <2>16. CASE MarshalFails(m)
        BY <2>16 DEF MarshalFails, PublisherPC
  <2>17. QED
        BY <1>3, <2>1, <2>2, <2>3, <2>4, <2>5, <2>6, <2>7, <2>8, <2>9, <2>10,
           <2>11, <2>12, <2>13, <2>14, <2>15, <2>16
        DEF PublisherNext, PublisherStep
<1>4. CASE CloseBegins \/ CloseLocks
      BY <1>4 DEF CloseBegins, CloseLocks
<1>5. CASE CloseReturns
      BY <1>5 DEF CloseReturns
<1>6. CASE EnvNext
  <2>1. CASE BrokerGoes \/ BrokerReturns
    <3>1. CASE BrokerGoes
          BY <3>1 DEF BrokerGoes
    <3>2. CASE BrokerReturns
          BY <3>2 DEF BrokerReturns
    <3>3. QED
          BY <2>1, <3>1, <3>2
  <2>2. ASSUME NEW c \in Conns, LineCut(c) PROVE TypeInv'
        BY <2>2 DEF LineCut
  <2>3. ASSUME NEW c \in Conns, CutNoticed(c) PROVE TypeInv'
        BY <2>3 DEF CutNoticed, ShutDown
  <2>4. ASSUME NEW c \in Conns, ChannelException(c) PROVE TypeInv'
        BY <2>4 DEF ChannelException, ShutDown
  <2>5. QED
        BY <1>6, <2>1, <2>2, <2>3, <2>4 DEF EnvNext
<1>7. CASE UNCHANGED vars
      BY <1>7 DEF vars
<1>8. QED
      BY <1>1, <1>2, <1>3, <1>4, <1>5, <1>6, <1>7 DEF Next

(***************************************************************************)
(* Every variable keeps its type, and the cache never holds more than its  *)
(* capacity: AddToCache and the put-back of processCache respect it.       *)
(***************************************************************************)
THEOREM TypeCorrect == Spec => []TypeOK
<1>1. Init => TypeInv
      BY TypeInit
<1>2. TypeInv /\ [Next]_vars => TypeInv'
      BY TypeStep
<1>3. TypeInv => TypeOK
      BY DEF TypeInv
<1>4. QED
      BY <1>1, <1>2, <1>3, PTL DEF Spec

-----------------------------------------------------------------------------
(* Connections                                                             *)

(***************************************************************************)
(* The monitor alone moves conn and channel, and only the newest           *)
(* connection can be anything but closed.  This is what makes r.notify the *)
(* notification of the channel in use, and a channel a goroutine has kept  *)
(* from an earlier connection a closed one.                                *)
(***************************************************************************)
ConnInv ==
    /\ monitor = "channel" => channel = 0 /\ conn = dials /\ dials > 0
    /\ monitor \in {"notify", "reset", "start", "watch"} =>
           channel = dials /\ conn = dials /\ dials > 0
    /\ monitor \in {"dial", "backoff"} => channel = 0
    /\ monitor \in {"reset", "start", "watch"} => notify = channel
    /\ conn \in {0, dials}
    /\ channel # 0 => channel = dials /\ conn = dials
    /\ \A c \in Conns : c > dials => line[c] = "none"
    /\ \A c \in Conns :
           c <= dials /\ line[c] # "closed" =>
               c = conn /\ (c = channel \/ monitor = "channel")
    /\ closer \in {"locked", "closed"} => monitor = "done"
    /\ closer = "closed" => \A c \in Conns : line[c] \in {"none", "closed"}

\* a goroutine that declares or publishes
WithChannel == {"declare", "declaring", "redeclare", "redeclaring", "flag",
                "reflag", "publish"}

\* it holds a channel that was opened
ChannelsHeldInv ==
    /\ procCh <= dials /\ (processor = "publish" => procCh > 0)
    /\ \A m \in Messages :
           /\ pubCh[m] <= dials
           /\ pc[m] \in WithChannel => pubCh[m] > 0

LEMMA ConnInit == Init => ConnInv /\ ChannelsHeldInv
BY ConnsAssumption DEF Init, ConnInv, ChannelsHeldInv, Conns, WithChannel

\* the cache processor and the publishing goroutines only read connections
LEMMA ReadersKeepConns ==
    ASSUME ProcessorNext \/ \E m \in Messages : PublisherNext(m)
    PROVE  UNCHANGED <<conn, channel, notify, monitor, line, dials, closer>>
<1> USE DEF clientVars, envVars
<1>1. CASE ProcessorNext
      BY <1>1 DEF ProcessorNext, ProcessorTick, ProcessorStops,
         TakeFromCache, DiscardCached, CacheIsEmpty, GetChannel, PublishCached,
         PublishCachedFails
<1>2. ASSUME NEW m \in Messages, PublisherNext(m)
      PROVE  UNCHANGED <<conn, channel, notify, monitor, line, dials, closer>>
      BY <1>2 DEF PublisherNext, PublisherStep, StartPublishing,
         AlreadySetUp, NoChannelToSetUp, BeginSetup, SendDeclaration, Declare,
         DeclareFails, EndSetup, ConnectionIsReady, WaitTimesOut,
         ReadChannel, MarshalFails, Publish, PublishError, CacheMessage, ReportOutcome
<1>3. QED
      BY <1>1, <1>2

LEMMA ConnStep == TypeInv /\ ConnInv /\ [Next]_vars => ConnInv'
<1> SUFFICES ASSUME TypeInv, ConnInv, [Next]_vars PROVE ConnInv'
    OBVIOUS
<1>t. /\ dials \in Nat /\ conn \in Nat /\ channel \in Nat
      /\ MaxConns \in Nat /\ dials <= MaxConns
      /\ line \in [Conns -> LineState]
      BY ConnsAssumption DEF TypeInv, TypeOK
<1> USE <1>t DEF ConnInv, Conns, clientVars, envVars, LineState
<1>1. CASE MonitorNext
  <2>1. CASE Dial
        BY <2>1 DEF Dial
  <2>2. CASE DialFails
        BY <2>2 DEF DialFails
  <2>3. CASE OpenChannel
        BY <2>3 DEF OpenChannel
  <2>4. CASE OpenChannelFails
        BY <2>4 DEF OpenChannelFails
  <2>5. CASE RegisterNotify
        BY <2>5 DEF RegisterNotify
  <2>6. CASE ResetSetup
        BY <2>6 DEF ResetSetup
  <2>7. CASE StartProcessor
        BY <2>7 DEF StartProcessor
  <2>8. CASE ConnectionClosed
        BY <2>8 DEF ConnectionClosed
  <2>9. CASE RetryConnect
        BY <2>9 DEF RetryConnect
  <2>10. CASE MonitorStops
        BY <2>10 DEF MonitorStops
  <2>11. QED
        BY <1>1, <2>1, <2>2, <2>3, <2>4, <2>5, <2>6, <2>7, <2>8, <2>9, <2>10
        DEF MonitorNext
<1>2. CASE ProcessorNext \/ \E m \in Messages : PublisherNext(m)
      BY <1>2, ReadersKeepConns
<1>3. CASE CloseBegins \/ CloseLocks
      BY <1>3 DEF CloseBegins, CloseLocks
<1>4. CASE CloseReturns
      BY <1>4 DEF CloseReturns
<1>5. CASE EnvNext
  <2>1. CASE BrokerGoes \/ BrokerReturns
        BY <2>1 DEF BrokerGoes, BrokerReturns
  <2>2. ASSUME NEW c \in Conns, LineCut(c) PROVE ConnInv'
        BY <2>2 DEF LineCut
  <2>3. ASSUME NEW c \in Conns, CutNoticed(c) PROVE ConnInv'
        BY <2>3 DEF CutNoticed, ShutDown
  <2>4. ASSUME NEW c \in Conns, ChannelException(c) PROVE ConnInv'
        BY <2>4 DEF ChannelException, ShutDown
  <2>5. QED
        BY <1>5, <2>1, <2>2, <2>3, <2>4 DEF EnvNext
<1>6. CASE UNCHANGED vars
      BY <1>6 DEF vars
<1>7. QED
      BY <1>1, <1>2, <1>3, <1>4, <1>5, <1>6 DEF Next

LEMMA ChannelsHeldStep ==
    TypeInv /\ ConnInv /\ ChannelsHeldInv /\ [Next]_vars => ChannelsHeldInv'
<1> SUFFICES ASSUME TypeInv, ConnInv, ChannelsHeldInv, [Next]_vars
             PROVE  ChannelsHeldInv'
    OBVIOUS
<1>t. /\ dials \in Nat /\ channel \in Nat /\ channel <= dials
      /\ procCh \in Nat
      /\ pubCh \in [Messages -> 0..MaxConns]
      /\ pc \in [Messages -> PublisherPC]
      BY ConnsAssumption DEF TypeInv, TypeOK, ConnInv
<1> USE <1>t DEF ChannelsHeldInv
<1>1. CASE \/ MonitorNext \/ CloseBegins \/ CloseLocks \/ CloseReturns \/ EnvNext
           \/ UNCHANGED vars
  <2>1. /\ UNCHANGED <<procCh, pubCh, pc>> /\ dials' \in {dials, dials + 1}
        /\ processor' = "publish" => processor = "publish"
        BY <1>1 DEF MonitorNext, Dial, DialFails, OpenChannel,
           OpenChannelFails, RegisterNotify, ResetSetup, StartProcessor,
           ConnectionClosed, RetryConnect, MonitorStops, CloseBegins,
           CloseLocks, CloseReturns, EnvNext, BrokerGoes, BrokerReturns, LineCut,
           CutNoticed, ShutDown, ChannelException, vars, procVars, pubVars, envVars
  <2>2. \A m \in Messages : pubCh[m] \in Nat
        OBVIOUS
  <2>3. QED
        BY <2>1, <2>2
<1>2. CASE ProcessorNext
  <2>1. /\ UNCHANGED <<pubCh, pc, dials>>
        /\ \/ UNCHANGED procCh
              /\ (processor' = "publish" => processor = "publish")
           \/ procCh' = channel /\ channel # 0
        BY <1>2 DEF ProcessorNext, ProcessorTick, ProcessorStops,
           TakeFromCache, DiscardCached, CacheIsEmpty, GetChannel,
           PublishCached, PublishCachedFails, procVars, pubVars, envVars
  <2>2. QED
        BY <2>1
<1>3. ASSUME NEW m \in Messages, PublisherNext(m) PROVE ChannelsHeldInv'
  <2>1. /\ UNCHANGED <<procVars, dials>>
        /\ \E l \in PublisherPC : pc' = [pc EXCEPT ![m] = l]
        BY <1>3 DEF PublisherNext, PublisherStep, StartPublishing,
           AlreadySetUp, NoChannelToSetUp, BeginSetup, SendDeclaration, Declare,
           DeclareFails, EndSetup, ConnectionIsReady, WaitTimesOut,
           ReadChannel, MarshalFails, Publish, PublishError, CacheMessage, ReportOutcome, Goto, AfterError,
           envVars, PublisherPC
  <2>2. \/ pubCh' = [pubCh EXCEPT ![m] = channel]
           /\ (pc'[m] \in WithChannel => channel # 0)
        \/ /\ pubCh' = pubCh
           /\ (pc'[m] \in WithChannel => pc[m] \in WithChannel)
        BY <1>3 DEF PublisherNext, PublisherStep, StartPublishing,
           AlreadySetUp, NoChannelToSetUp, BeginSetup, SendDeclaration, Declare,
           DeclareFails, EndSetup, ConnectionIsReady, WaitTimesOut,
           ReadChannel, MarshalFails, Publish, PublishError, CacheMessage, ReportOutcome, Goto, AfterError,
           WithChannel, DeclarationIsLost, pubVars
  <2>3. QED
        BY <2>1, <2>2 DEF procVars
<1>4. QED
      BY <1>1, <1>2, <1>3 DEF Next

-----------------------------------------------------------------------------
(* The setup flag                                                          *)

\* the goroutine in EnsureExchangeAndQueues that holds the mutex
InSetup(m) == pc[m] \in WithChannel \ {"publish"}

(***************************************************************************)
(* The mutex is held by whoever is setting up.  While connect is past its  *)
(* own critical section, the holder is declaring on the channel in use:    *)
(* one that started on an older channel would have kept connect waiting.   *)
(***************************************************************************)
SetupInv ==
    /\ \A m \in Messages : InSetup(m) <=> setupMutex = m
    /\ \A m \in Messages :
           pc[m] \in {"flag", "reflag"} => declarations[pubCh[m]] > 0
    /\ \A m \in Messages :
           monitor \in {"start", "watch"} /\ InSetup(m) => pubCh[m] = channel
    /\ SetupIsCurrent

LEMMA SetupInit == Init => SetupInv
BY MsgAssumption DEF Init, SetupInv, SetupIsCurrent, InSetup, WithChannel

LEMMA SetupStep ==
    TypeInv /\ ConnInv /\ ChannelsHeldInv /\ SetupInv /\ [Next]_vars
        => SetupInv'
<1> SUFFICES ASSUME TypeInv, ConnInv, ChannelsHeldInv, SetupInv, [Next]_vars
             PROVE  SetupInv'
    OBVIOUS
<1>t. /\ pubCh \in [Messages -> 0..MaxConns]
      /\ pc \in [Messages -> PublisherPC]
      /\ declarations \in [Conns -> Nat]
      /\ setupMutex \in Messages \cup {Nobody}
      BY DEF TypeInv, TypeOK
<1> USE <1>t, MsgAssumption
    DEF SetupInv, SetupIsCurrent, InSetup, WithChannel, pubVars, clientVars,
        envVars
<1>1. CASE MonitorNext
  <2>1. CASE ResetSetup
        BY <2>1 DEF ResetSetup
  <2>2. CASE StartProcessor
        BY <2>2 DEF StartProcessor
  <2>3. CASE Dial \/ DialFails \/ OpenChannel \/ OpenChannelFails
        BY <2>3 DEF Dial, DialFails, OpenChannel, OpenChannelFails
  <2>4. CASE RegisterNotify \/ ConnectionClosed
        BY <2>4 DEF RegisterNotify, ConnectionClosed
  <2>5. CASE RetryConnect \/ MonitorStops
        BY <2>5 DEF RetryConnect, MonitorStops
  <2>6. QED
        BY <1>1, <2>1, <2>2, <2>3, <2>4, <2>5 DEF MonitorNext
<1>2. CASE ProcessorNext \/ CloseBegins \/ CloseLocks \/ CloseReturns \/ EnvNext
           \/ UNCHANGED vars
  <2>1. UNCHANGED <<pc, pubCh, setupMutex, setupDone, declarations, monitor,
                    channel>>
        BY <1>2 DEF ProcessorNext, ProcessorTick, ProcessorStops,
           TakeFromCache, DiscardCached, CacheIsEmpty, GetChannel, PublishCached,
           PublishCachedFails, CloseBegins, CloseLocks, CloseReturns, EnvNext,
           BrokerGoes, BrokerReturns, LineCut, CutNoticed, ShutDown, ChannelException,
           vars
  <2>2. QED
        BY <2>1
<1>3. ASSUME NEW m \in Messages, PublisherNext(m) PROVE SetupInv'
  <2> USE DEF Goto
  <2>1. CASE BeginSetup(m)
        BY <2>1 DEF BeginSetup
  <2>2. CASE Declare(m)
    <3>1. \A c \in Conns : declarations[c] > 0 => declarations'[c] > 0
          BY <2>2 DEF Declare
    <3>2. pubCh[m] \in Conns /\ \A k \in Messages : pubCh[k] \in 0..MaxConns
          BY <2>2 DEF Declare, ChannelsHeldInv, WithChannel, Conns
    <3>3. declarations'[pubCh[m]] > 0
          BY <2>2, <3>2 DEF Declare
    <3>4. QED
          BY <2>2, <3>1, <3>2, <3>3 DEF Declare
  <2>3. CASE DeclareFails(m)
        BY <2>3 DEF DeclareFails, DeclarationIsLost, AfterError
  <2>4. CASE EndSetup(m)
        BY <2>4 DEF EndSetup
  <2>5. CASE ReadChannel(m)
        BY <2>5 DEF ReadChannel
  <2>6. CASE \/ StartPublishing(m) \/ AlreadySetUp(m) \/ NoChannelToSetUp(m)
             \/ ConnectionIsReady(m) \/ WaitTimesOut(m)
        BY <2>6 DEF StartPublishing, AlreadySetUp, NoChannelToSetUp,
           AfterError, ConnectionIsReady, WaitTimesOut
  <2>7. CASE \/ SendDeclaration(m) \/ MarshalFails(m) \/ Publish(m)
             \/ PublishError(m) \/ CacheMessage(m) \/ ReportOutcome(m)
        BY <2>7 DEF SendDeclaration, MarshalFails, Publish, PublishError,
           CacheMessage, ReportOutcome
  <2>8. QED
        BY <1>3, <2>1, <2>2, <2>3, <2>4, <2>5, <2>6, <2>7
        DEF PublisherNext, PublisherStep
<1>4. QED
      BY <1>1, <1>2, <1>3 DEF Next

-----------------------------------------------------------------------------
(* The theorems                                                            *)

\* the connection part of the inductive invariant
SafeInv == TypeInv /\ ConnInv /\ ChannelsHeldInv /\ SetupInv

LEMMA SafeInvariant == Spec => []SafeInv
<1>1. Init => SafeInv
      BY TypeInit, ConnInit, SetupInit DEF SafeInv
<1>2. SafeInv /\ [Next]_vars => SafeInv'
      BY TypeStep, ConnStep, ChannelsHeldStep, SetupStep DEF SafeInv
<1>3. QED
      BY <1>1, <1>2, PTL DEF Spec

(***************************************************************************)
(* A set quepasaSetupDone is about the channel in use, however many        *)
(* reconnections and declarations have crossed: connect resets the flag    *)
(* under the mutex a declaring goroutine keeps.                            *)
(***************************************************************************)
THEOREM SetupFlagIsCurrent == Spec => []SetupIsCurrent
<1>1. SafeInv => SetupIsCurrent
      BY DEF SafeInv, SetupInv
<1>2. QED
      BY <1>1, SafeInvariant, PTL

(***************************************************************************)
(* Nothing reaches the broker once Close has returned: every channel a     *)
(* goroutine can still hold is closed.                                     *)
(***************************************************************************)
THEOREM ClosedClientIsSilent == Spec => NothingAfterClose
<1>1. SafeInv /\ [Next]_vars => [closer = "closed" => UNCHANGED wire]_vars
  <2> SUFFICES ASSUME SafeInv, Next, closer = "closed" PROVE UNCHANGED wire
      BY DEF vars, fateVars
  <2>1. monitor = "done" /\ \A c \in Conns : line[c] \in {"none", "closed"}
        BY DEF SafeInv, ConnInv
  <2>2. processor = "publish" => line[procCh] \in {"none", "closed"}
        BY <2>1 DEF SafeInv, ChannelsHeldInv, TypeInv, TypeOK, Conns
  <2>3. \A m \in Messages :
            pc[m] = "publish" => line[pubCh[m]] \in {"none", "closed"}
        BY <2>1
        DEF SafeInv, ChannelsHeldInv, WithChannel, TypeInv, TypeOK, Conns
  <2>4. CASE MonitorNext \/ CloseBegins \/ CloseLocks \/ CloseReturns \/ EnvNext
        BY <2>4 DEF MonitorNext, Dial, DialFails, OpenChannel,
           OpenChannelFails, RegisterNotify, ResetSetup, StartProcessor,
           ConnectionClosed, RetryConnect, MonitorStops, CloseBegins,
           CloseLocks, CloseReturns, EnvNext, BrokerGoes, BrokerReturns, LineCut,
           CutNoticed, ShutDown, ChannelException, fateVars
  <2>5. CASE ProcessorNext
        BY <2>5, <2>2 DEF ProcessorNext, ProcessorTick, ProcessorStops,
           TakeFromCache, DiscardCached, CacheIsEmpty, GetChannel, PublishCached,
           PublishCachedFails, PublishOn, AddToCache, fateVars
  <2>6. ASSUME NEW m \in Messages, PublisherNext(m) PROVE UNCHANGED wire
        BY <2>6, <2>3 DEF PublisherNext, PublisherStep, StartPublishing,
           AlreadySetUp, NoChannelToSetUp, BeginSetup, SendDeclaration, Declare,
           DeclareFails, EndSetup, ConnectionIsReady, WaitTimesOut,
           ReadChannel, MarshalFails, Publish, PublishError, CacheMessage, ReportOutcome, PublishOn, AddToCache,
           fateVars
  <2>7. QED
        BY <2>4, <2>5, <2>6 DEF Next
<1>2. QED
      BY <1>1, SafeInvariant, PTL DEF Spec, NothingAfterClose

-----------------------------------------------------------------------------
(* The deadlock                                                            *)

\* a channel that is closing stays so while nobody receives from r.notify
LEMMA ClosingStays ==
    ASSUME SafeInv, [Next]_vars, NEW c \in Conns, line[c] = "closing",
           monitor \in {"done", "reset"}
    PROVE  line'[c] = "closing"
<1>t. line \in [Conns -> LineState]
      BY DEF SafeInv, TypeInv, TypeOK
<1> USE <1>t DEF clientVars, envVars
<1>1. CASE MonitorNext
      BY <1>1 DEF MonitorNext, Dial, DialFails, OpenChannel,
         OpenChannelFails, RegisterNotify, ResetSetup, StartProcessor,
         ConnectionClosed, RetryConnect, MonitorStops
<1>2. CASE ProcessorNext \/ \E m \in Messages : PublisherNext(m)
      BY <1>2, ReadersKeepConns
<1>3. CASE CloseBegins \/ CloseLocks \/ CloseReturns
      BY <1>3 DEF CloseBegins, CloseLocks, CloseReturns
<1>4. CASE EnvNext
      BY <1>4 DEF EnvNext, BrokerGoes, BrokerReturns, LineCut, CutNoticed,
         ShutDown, ChannelException
<1>5. CASE UNCHANGED vars
      BY <1>5 DEF vars
<1>6. QED
      BY <1>1, <1>2, <1>3, <1>4, <1>5 DEF Next

LEMMA UnheardStep == SafeInv /\ Unheard /\ [Next]_vars => Unheard'
<1> SUFFICES ASSUME SafeInv, Unheard, [Next]_vars PROVE Unheard'
    OBVIOUS
<1>1. PICK c \in Conns :
          /\ line[c] = "closing"
          /\ \/ monitor = "done"
             \/ /\ monitor = "reset"
                /\ \E m \in Messages :
                       pc[m] \in {"declaring", "redeclaring"} /\ pubCh[m] = c
      BY DEF Unheard
<1>2. line'[c] = "closing"
      BY <1>1, ClosingStays
<1>3. CASE monitor = "done"
  <2>1. monitor' = "done"
    <3>1. CASE MonitorNext
          BY <1>3, <3>1 DEF MonitorNext, Dial, DialFails, OpenChannel,
             OpenChannelFails, RegisterNotify, ResetSetup, StartProcessor,
             ConnectionClosed, RetryConnect, MonitorStops
    <3>2. CASE ProcessorNext \/ \E m \in Messages : PublisherNext(m)
          BY <1>3, <3>2, ReadersKeepConns
    <3>3. CASE \/ CloseBegins \/ CloseLocks \/ CloseReturns \/ EnvNext
               \/ UNCHANGED vars
          BY <1>3, <3>3 DEF CloseBegins, CloseLocks, CloseReturns, EnvNext,
             BrokerGoes, BrokerReturns, LineCut, CutNoticed,
             ChannelException, vars
    <3>4. QED
          BY <3>1, <3>2, <3>3 DEF Next
  <2>2. QED
        BY <1>2, <2>1 DEF Unheard
<1>4. ASSUME monitor = "reset", NEW m \in Messages,
             pc[m] \in {"declaring", "redeclaring"}, pubCh[m] = c
      PROVE  Unheard'
  <2>1. setupMutex = m /\ m # Nobody
        BY <1>4, MsgAssumption
        DEF SafeInv, SetupInv, InSetup, WithChannel
  <2>2. UNCHANGED <<monitor, pc, pubCh>> \/ \E k \in Messages : PublisherNext(k)
    <3>1. CASE MonitorNext
          BY <1>4, <2>1, <3>1 DEF MonitorNext, Dial, DialFails, OpenChannel,
             OpenChannelFails, RegisterNotify, ResetSetup, StartProcessor,
             ConnectionClosed, RetryConnect, MonitorStops
    <3>2. CASE \/ ProcessorNext \/ CloseBegins \/ CloseLocks
               \/ CloseReturns \/ EnvNext \/ UNCHANGED vars
          BY <3>2 DEF ProcessorNext, ProcessorTick, ProcessorStops,
             TakeFromCache, DiscardCached, CacheIsEmpty, GetChannel,
             PublishCached, PublishCachedFails, CloseBegins, CloseLocks,
             CloseReturns, EnvNext, BrokerGoes, BrokerReturns, LineCut,
             CutNoticed, ChannelException, pubVars, vars
    <3>3. QED
          BY <3>1, <3>2 DEF Next
  <2>3. ASSUME NEW k \in Messages, PublisherNext(k)
        PROVE  UNCHANGED <<monitor, pc[m], pubCh[m]>>
    <3>1. k # m
          BY <1>1, <1>4, <2>3 DEF PublisherNext, PublisherStep,
             StartPublishing, AlreadySetUp, NoChannelToSetUp, BeginSetup,
             SendDeclaration, Declare, DeclareFails, DeclarationIsLost,
             EndSetup, ConnectionIsReady, WaitTimesOut, ReadChannel,
             MarshalFails, Publish, PublishError, CacheMessage,
             ReportOutcome
    <3>2. /\ pc \in [Messages -> PublisherPC]
          /\ pubCh \in [Messages -> 0..MaxConns]
          BY DEF SafeInv, TypeInv, TypeOK
    <3>3. QED
          BY <2>3, <3>1, <3>2 DEF PublisherNext, PublisherStep,
             StartPublishing, AlreadySetUp, NoChannelToSetUp, BeginSetup,
             SendDeclaration, Declare, DeclareFails, EndSetup,
             ConnectionIsReady, WaitTimesOut, ReadChannel, MarshalFails,
             Publish, PublishError, CacheMessage, ReportOutcome, Goto
  <2>4. UNCHANGED <<monitor, pc[m], pubCh[m]>>
        BY <2>2, <2>3
  <2>5. monitor' = "reset" /\ pc'[m] \in {"declaring", "redeclaring"}
        /\ pubCh'[m] = c
        BY <1>4, <2>4
  <2>6. QED
        BY <1>2, <2>5 DEF Unheard
<1>5. QED
      BY <1>1, <1>3, <1>4

(***************************************************************************)
(* A notification nobody hears is a deadlock and not a delay: whatever the *)
(* goroutines, the network and Close do afterwards, the library waits on   *)
(* the unbuffered r.notify for ever.  This is the case the liveness        *)
(* properties of the client exempt.                                        *)
(***************************************************************************)
THEOREM UnheardIsForEver == Spec => [](Unheard => []Unheard)
<1>1. SafeInv /\ Unheard /\ [Next]_vars => Unheard'
      BY UnheardStep
<1>2. QED
      BY <1>1, SafeInvariant, PTL DEF Spec

-----------------------------------------------------------------------------
(* Messages                                                                *)

LEMMA RangeOfAppend ==
    ASSUME NEW S, NEW s \in Seq(S), NEW x \in S
    PROVE  /\ Range(Append(s, x)) = Range(s) \cup {x}
           /\ NoRepeats(s) /\ x \notin Range(s) => NoRepeats(Append(s, x))
<1> DEFINE t == Append(s, x)
<1>1. /\ t \in Seq(S) /\ Len(t) = Len(s) + 1
      /\ \A i \in 1..Len(s) : t[i] = s[i]
      /\ t[Len(s) + 1] = x
      OBVIOUS
<1>2. DOMAIN s = 1..Len(s) /\ DOMAIN t = 1..(Len(s) + 1) /\ Len(s) \in Nat
      BY <1>1
<1>3. Range(t) = Range(s) \cup {x}
  <2>1. ASSUME NEW i \in DOMAIN t PROVE t[i] \in Range(s) \cup {x}
        BY <1>1, <1>2 DEF Range
  <2>2. ASSUME NEW i \in DOMAIN s PROVE s[i] \in Range(t)
        BY <1>1, <1>2 DEF Range
  <2>3. x \in Range(t)
        BY <1>1, <1>2 DEF Range
  <2>4. QED
        BY <2>1, <2>2, <2>3 DEF Range
<1>4. NoRepeats(s) /\ x \notin Range(s) => NoRepeats(t)
      BY <1>1, <1>2 DEF Range, NoRepeats
<1>5. QED
      BY <1>3, <1>4

LEMMA RangeOfTail ==
    ASSUME NEW S, NEW s \in Seq(S), s # <<>>, NoRepeats(s)
    PROVE  /\ Head(s) \in Range(s)
           /\ Range(Tail(s)) = Range(s) \ {Head(s)}
           /\ NoRepeats(Tail(s))
<1> DEFINE t == Tail(s)
<1>1. /\ t \in Seq(S) /\ Len(t) = Len(s) - 1 /\ Len(s) > 0
      /\ \A i \in 1..Len(t) : t[i] = s[i + 1]
      /\ Head(s) = s[1]
      OBVIOUS
<1>2. /\ DOMAIN s = 1..Len(s) /\ DOMAIN t = 1..(Len(s) - 1)
      /\ Len(s) \in Nat
      BY <1>1
<1>3. Range(t) = Range(s) \ {Head(s)}
  <2>1. ASSUME NEW i \in DOMAIN t PROVE t[i] \in Range(s) \ {Head(s)}
        BY <1>1, <1>2 DEF Range, NoRepeats
  <2>2. ASSUME NEW i \in DOMAIN s, s[i] # Head(s) PROVE s[i] \in Range(t)
    <3>1. i - 1 \in DOMAIN t /\ t[i - 1] = s[i]
          BY <2>2, <1>1, <1>2
    <3>2. QED
          BY <3>1 DEF Range
  <2>3. QED
        BY <2>1, <2>2 DEF Range
<1>4. NoRepeats(t)
      BY <1>1, <1>2 DEF NoRepeats
<1>5. Head(s) \in Range(s)
      BY <1>1, <1>2 DEF Range
<1>6. QED
      BY <1>3, <1>4, <1>5

LEMMA PlaceInit == Init => OnePlace
BY DEF Init, OnePlace, NoRepeats, Held, InHand, Written, Range, Handled

\* the places as sets, for the steps that only move a message between them
LEMMA SamePlaces ==
    ASSUME OnePlace,
           UNCHANGED <<messageCache, hand, wire, lost, dropped>>,
           \A m \in Messages : Handled(m)' <=> Handled(m)
    PROVE  OnePlace'
BY DEF OnePlace, Held, InHand, Written

\* a message that is in no place yet is cached, or dropped
LEMMA CachingPlaces ==
    ASSUME TypeInv, NEW m \in Messages, AddToCache(m),
           NoRepeats(messageCache), m \notin Range(messageCache)
    PROVE  /\ NoRepeats(messageCache)'
           /\ wire' = wire /\ lost' = lost
           /\ \/ /\ Range(messageCache)' = Range(messageCache) \cup {m}
                 /\ dropped' = dropped
              \/ /\ Range(messageCache)' = Range(messageCache)
                 /\ dropped' = dropped \cup {m}
<1>1. messageCache \in Seq(Messages)
      BY DEF TypeInv, TypeOK
<1>2. wire' = wire /\ lost' = lost
      BY DEF AddToCache
<1>3. CASE Len(messageCache) < CacheCap
  <2>1. messageCache' = Append(messageCache, m) /\ dropped' = dropped
        BY <1>3 DEF AddToCache
  <2>2. /\ Range(Append(messageCache, m)) = Range(messageCache) \cup {m}
        /\ NoRepeats(Append(messageCache, m))
        BY <1>1, RangeOfAppend
  <2>3. /\ Range(messageCache') = Range(messageCache) \cup {m}
        /\ NoRepeats(messageCache')
        BY <2>1, <2>2
  <2>4. QED
        BY <2>1, <2>3, <1>2
<1>4. CASE ~(Len(messageCache) < CacheCap)
  <2>1. messageCache' = messageCache /\ dropped' = dropped \cup {m}
        BY <1>4 DEF AddToCache
  <2>2. NoRepeats(messageCache') /\ Range(messageCache') = Range(messageCache)
        BY <2>1
  <2>3. QED
        BY <2>1, <2>2, <1>2
<1>5. QED
      BY <1>3, <1>4

\* a message is written to the broker, or to a dead socket
LEMMA WritingPlaces ==
    ASSUME TypeInv, NEW m \in Messages, NEW c, PublishOn(c, m),
           NoRepeats(wire), m \notin Range(wire)
    PROVE  /\ NoRepeats(wire)' /\ dropped' = dropped
           /\ \/ Range(wire)' = Range(wire) \cup {m} /\ lost' = lost
              \/ Range(wire)' = Range(wire) /\ lost' = lost \cup {m}
<1>1. wire \in Seq(Messages)
      BY DEF TypeInv, TypeOK
<1>2. QED
      BY <1>1, RangeOfAppend DEF PublishOn

LEMMA PlaceStep == TypeInv /\ OnePlace /\ [Next]_vars => OnePlace'
<1> SUFFICES ASSUME TypeInv, OnePlace, [Next]_vars PROVE OnePlace'
    OBVIOUS
<1>t. /\ messageCache \in Seq(Messages) /\ wire \in Seq(Messages)
      /\ pc \in [Messages -> PublisherPC]
      /\ hand \in Messages \cup {NoMsg}
      /\ (hand # NoMsg) <=> processor \in {"channel", "publish"}
      BY DEF TypeInv, TypeOK, HandInv
<1>1. CASE \/ MonitorNext \/ CloseBegins \/ CloseLocks \/ CloseReturns \/ EnvNext
           \/ UNCHANGED vars
  <2>1. UNCHANGED <<pc, messageCache, hand, wire, lost, dropped>>
        BY <1>1 DEF MonitorNext, Dial, DialFails, OpenChannel,
           OpenChannelFails, RegisterNotify, ResetSetup, StartProcessor,
           ConnectionClosed, RetryConnect, MonitorStops, CloseBegins,
           CloseLocks, CloseReturns, EnvNext, BrokerGoes, BrokerReturns, LineCut,
           CutNoticed, ShutDown, ChannelException, vars, clientVars, procVars, pubVars,
           fateVars
  <2>2. QED
        BY <2>1, SamePlaces DEF Handled
<1>2. CASE ProcessorNext
  <2>1. \A m \in Messages : Handled(m)' <=> Handled(m)
        BY <1>2 DEF ProcessorNext, ProcessorTick, ProcessorStops,
           TakeFromCache, DiscardCached, CacheIsEmpty, GetChannel, PublishCached,
           PublishCachedFails, Handled, pubVars
  <2>2. CASE ProcessorTick \/ ProcessorStops \/ CacheIsEmpty \/ GetChannel
        BY <2>1, <2>2, SamePlaces DEF ProcessorTick, ProcessorStops,
           CacheIsEmpty, GetChannel, clientVars, fateVars
  <2>3. CASE TakeFromCache
    <3>1. /\ Head(messageCache) \in Range(messageCache)
          /\ Range(messageCache)' = Range(messageCache) \ {Head(messageCache)}
          /\ NoRepeats(messageCache)'
          BY <2>3, <1>t, RangeOfTail DEF TakeFromCache, OnePlace
    <3>2. hand = NoMsg /\ hand' = Head(messageCache)
          /\ UNCHANGED <<wire, lost, dropped>>
          BY <2>3, <1>t DEF TakeFromCache, fateVars
    <3>3. Head(messageCache) # NoMsg
          BY <2>3, <1>t, MsgAssumption, TailType DEF TakeFromCache
    <3>4. Held' = Held
          BY <3>1, <3>2, <3>3 DEF Held, InHand
    <3>5. QED
          BY <2>1, <3>1, <3>2, <3>4 DEF OnePlace, Written, InHand
  <2>4. CASE PublishCached
    <3>1. hand \in Messages /\ hand' = NoMsg /\ messageCache' = messageCache
          BY <2>4, <1>t DEF PublishCached, clientVars
    <3>2. hand \notin Range(wire)
          BY <3>1, MsgAssumption DEF OnePlace, Held, InHand, Written
    <3>3. /\ NoRepeats(wire)' /\ dropped' = dropped
          /\ \/ Range(wire)' = Range(wire) \cup {hand} /\ lost' = lost
             \/ Range(wire)' = Range(wire) /\ lost' = lost \cup {hand}
          BY <2>4, <3>1, <3>2, WritingPlaces DEF PublishCached, OnePlace
    <3>4. QED
          BY <2>1, <3>1, <3>3, MsgAssumption
          DEF OnePlace, Held, InHand, Written
  <2>5. CASE PublishCachedFails
    <3>1. hand \in Messages /\ hand' = NoMsg
          BY <2>5, <1>t DEF PublishCachedFails
    <3>2. hand \notin Range(messageCache)
          BY <3>1, MsgAssumption DEF OnePlace, InHand
    <3>3. /\ NoRepeats(messageCache)'
          /\ wire' = wire /\ lost' = lost
          /\ \/ /\ Range(messageCache)' = Range(messageCache) \cup {hand}
                /\ dropped' = dropped
             \/ /\ Range(messageCache)' = Range(messageCache)
                /\ dropped' = dropped \cup {hand}
          BY <2>5, <3>1, <3>2, CachingPlaces DEF PublishCachedFails, OnePlace
    <3>4. QED
          BY <2>1, <3>1, <3>3, MsgAssumption
          DEF OnePlace, Held, InHand, Written
  <2>6. CASE DiscardCached
    <3> DEFINE m == Head(messageCache)
    <3>1. /\ m \in Range(messageCache) /\ m \in Messages
          /\ Range(messageCache)' = Range(messageCache) \ {m}
          /\ NoRepeats(messageCache)'
      <4>1. messageCache' = Tail(messageCache) /\ messageCache # <<>>
            BY <2>6 DEF DiscardCached
      <4>2. /\ m \in Range(messageCache)
            /\ Range(Tail(messageCache)) = Range(messageCache) \ {m}
            /\ NoRepeats(Tail(messageCache))
            BY <4>1, <1>t, RangeOfTail DEF OnePlace
      <4>3. m \in Messages
            BY <4>1, <1>t, TailType
      <4>4. Range(messageCache') = Range(messageCache) \ {m}
            /\ NoRepeats(messageCache')
            BY <4>1, <4>2
      <4>5. QED
            BY <4>2, <4>3, <4>4
    <3>2. /\ hand = NoMsg /\ hand' = hand
          /\ dropped' = dropped \cup {m}
          /\ UNCHANGED <<wire, lost>>
          BY <2>6, <1>t DEF DiscardCached, procVars
    <3>3. QED
          BY <2>1, <3>1, <3>2 DEF OnePlace, Held, Written, InHand
  <2>7. QED
        BY <1>2, <2>2, <2>3, <2>4, <2>5, <2>6 DEF ProcessorNext
<1>3. ASSUME NEW m \in Messages, PublisherNext(m) PROVE OnePlace'
  <2>1. CASE Publish(m)
    <3>1. /\ ~Handled(m) /\ hand' = hand /\ messageCache' = messageCache
          /\ \A k \in Messages : Handled(k)' <=> Handled(k) \/ k = m
          BY <2>1, <1>t DEF Publish, Goto, Handled, clientVars, procVars
    <3>2. m \notin Held \cup Written \cup dropped
          BY <3>1 DEF OnePlace
    <3>3. /\ NoRepeats(wire)' /\ dropped' = dropped
          /\ \/ Range(wire)' = Range(wire) \cup {m} /\ lost' = lost
             \/ Range(wire)' = Range(wire) /\ lost' = lost \cup {m}
          BY <2>1, <3>2, WritingPlaces DEF Publish, OnePlace, Written
    <3>4. QED
          BY <3>1, <3>2, <3>3 DEF OnePlace, Held, InHand, Written
  <2>2. CASE CacheMessage(m)
    <3>1. /\ ~Handled(m) /\ hand' = hand
          /\ \A k \in Messages : Handled(k)' <=> Handled(k) \/ k = m
          BY <2>2, <1>t DEF CacheMessage, Goto, Handled, procVars
    <3>2. m \notin Held \cup Written \cup dropped
          BY <3>1 DEF OnePlace
    <3>3. /\ NoRepeats(messageCache)'
          /\ wire' = wire /\ lost' = lost
          /\ \/ /\ Range(messageCache)' = Range(messageCache) \cup {m}
                /\ dropped' = dropped
             \/ /\ Range(messageCache)' = Range(messageCache)
                /\ dropped' = dropped \cup {m}
          BY <2>2, <3>2, CachingPlaces DEF CacheMessage, OnePlace, Held
    <3>4. QED
          BY <3>1, <3>2, <3>3 DEF OnePlace, Held, InHand, Written
  <2>3. CASE PublisherNext(m) /\ ~Publish(m) /\ ~CacheMessage(m)
             /\ ~MarshalFails(m)
    <3>1. /\ UNCHANGED <<messageCache, hand, wire, lost, dropped>>
          /\ \A k \in Messages : Handled(k)' <=> Handled(k)
          BY <2>3, <1>t DEF PublisherNext, PublisherStep, StartPublishing,
             AlreadySetUp, NoChannelToSetUp, BeginSetup, SendDeclaration,
             Declare, DeclareFails, DeclarationIsLost, EndSetup,
             ConnectionIsReady, WaitTimesOut, ReadChannel, PublishError,
             ReportOutcome, Goto, AfterError, Handled, clientVars, procVars,
             fateVars
    <3>2. QED
          BY <3>1, SamePlaces
  <2>4. CASE MarshalFails(m)
    <3>1. /\ ~Handled(m) /\ dropped' = dropped \cup {m}
          /\ UNCHANGED <<messageCache, hand, wire, lost>>
          /\ \A k \in Messages : Handled(k)' <=> Handled(k) \/ k = m
          BY <2>4, <1>t DEF MarshalFails, Goto, Handled, clientVars, procVars
    <3>2. m \notin Held \cup Written \cup dropped
          BY <3>1 DEF OnePlace
    <3>3. QED
          BY <3>1, <3>2 DEF OnePlace, Held, InHand, Written
  <2>5. QED
        BY <1>3, <2>1, <2>2, <2>3, <2>4
<1>4. QED
      BY <1>1, <1>2, <1>3 DEF Next

(***************************************************************************)
(* A message is in exactly one place: no interleaving of publishers, cache *)
(* processor and reconnections publishes it twice or loses track of it.    *)
(***************************************************************************)
THEOREM MessagesAreInOnePlace == Spec => []OnePlace
<1>1. Init => TypeInv /\ OnePlace
      BY TypeInit, PlaceInit
<1>2. TypeInv /\ OnePlace /\ [Next]_vars => (TypeInv /\ OnePlace)'
      BY TypeStep, PlaceStep
<1>3. QED
      BY <1>1, <1>2, PTL DEF Spec

-----------------------------------------------------------------------------
(* The refinement of RabbitMQOutbox                                        *)

\* the variables of the outbox, in terms of the client
OutboxVars == <<fateOf, closer # "closed", broken>>

\* the cases of fateOf exclude each other
LEMMA FateByPlace ==
    ASSUME OnePlace
    PROVE  /\ DOMAIN fateOf = Messages
           /\ \A m \in Messages :
                  /\ fateOf[m] \in {"sent", "gone", "held", "pending"}
                  /\ fateOf[m] = "sent" <=> m \in Written
                  /\ fateOf[m] = "gone" <=> m \in dropped
                  /\ fateOf[m] = "held" <=> m \in Held
BY DEF fateOf, OnePlace

\* the fates are a matter of the three sets
LEMMA SameFates ==
    ASSUME UNCHANGED <<Written, dropped, Held>>
    PROVE  fateOf' = fateOf
BY DEF fateOf

\* a sequence without repetitions has as many members as places
LEMMA DistinctMembers ==
    ASSUME NEW S, NEW s \in Seq(S), NoRepeats(s)
    PROVE  IsFiniteSet(Range(s)) /\ Cardinality(Range(s)) = Len(s)
<1>1. Len(s) \in Nat /\ DOMAIN s = 1..Len(s)
      OBVIOUS
<1>2. s \in Bijection(1..Len(s), Range(s))
      BY <1>1 DEF Bijection, Injection, Surjection, Range, NoRepeats,
         IsInjective
<1>3. IsFiniteSet(1..Len(s)) /\ Cardinality(1..Len(s)) = Len(s)
      BY <1>1, FS_Interval
<1>4. ExistsBijection(1..Len(s), Range(s))
      BY <1>2 DEF ExistsBijection
<1>5. QED
      BY <1>3, <1>4, FS_Bijection

\* the outbox counts as this module does
LEMMA SameCardinality ==
    ASSUME NEW S PROVE Outbox!Cardinality(S) = Cardinality(S)
BY DEF Cardinality, Outbox!Cardinality

\* when the cache is full there are as many messages held
LEMMA FullCacheIsHeld ==
    ASSUME TypeInv, OnePlace, ~(Len(messageCache) < CacheCap)
    PROVE  Cardinality(Outbox!HeldMessages) >= CacheCap
<1>1. messageCache \in Seq(Messages) /\ Len(messageCache) \in Nat
      BY DEF TypeInv, TypeOK
<1>2. /\ IsFiniteSet(Range(messageCache))
      /\ Cardinality(Range(messageCache)) = Len(messageCache)
      BY <1>1, DistinctMembers DEF OnePlace
<1>3. Outbox!HeldMessages = Held
  <2>1. Held \subseteq Messages
        BY <1>1 DEF Held, InHand, Range, TypeInv, TypeOK
  <2>2. QED
        BY <2>1, FateByPlace DEF Outbox!HeldMessages
<1>4. IsFiniteSet(Held)
  <2>1. IsFiniteSet(Range(messageCache) \cup {hand})
        BY <1>2, FS_AddElement
  <2>2. Held \in SUBSET (Range(messageCache) \cup {hand})
        BY DEF Held, InHand
  <2>3. QED
        BY <2>1, <2>2, FS_Subset
<1>5. Cardinality(Range(messageCache)) <= Cardinality(Held)
  <2>1. Range(messageCache) \in SUBSET Held
        BY DEF Held
  <2>2. QED
        BY <1>4, <2>1, FS_Subset
<1>6. Cardinality(Held) \in Nat
      BY <1>4, FS_CardinalityType
<1>7. QED
      BY <1>1, <1>2, <1>3, <1>5, <1>6, CacheAssumption

\* a step that moves one message changes the fate of that message
LEMMA OneFate ==
    ASSUME OnePlace, OnePlace', NEW m \in Messages,
           \A k \in Messages \ {m} : /\ k \in Written' <=> k \in Written
                                     /\ k \in dropped' <=> k \in dropped
                                     /\ k \in Held' <=> k \in Held
    PROVE  /\ m \in Written' => fateOf' = [fateOf EXCEPT ![m] = "sent"]
           /\ m \in dropped' => fateOf' = [fateOf EXCEPT ![m] = "gone"]
           /\ m \in Held' => fateOf' = [fateOf EXCEPT ![m] = "held"]
<1>1. /\ fateOf = [k \in Messages |-> fateOf[k]]
      /\ fateOf' = [k \in Messages |-> fateOf'[k]]
      BY DEF fateOf
<1>2. \A k \in Messages \ {m} : fateOf'[k] = fateOf[k]
      BY DEF fateOf
<1>3. /\ m \in Written' => fateOf'[m] = "sent"
      /\ m \in dropped' => fateOf'[m] = "gone"
      /\ m \in Held' => fateOf'[m] = "held"
  <2>1. /\ Held' \cap (Written' \cup dropped') = {}
        /\ Written' \cap dropped' = {}
        BY DEF OnePlace
  <2>2. QED
        BY <2>1 DEF fateOf
<1>4. QED
      BY <1>1, <1>2, <1>3

LEMMA OutboxInit == Init => Outbox!Init
BY DEF Init, Outbox!Init, fateOf, Written, Held, InHand, Range

\* nothing is written on the channels of a client that has been closed
LEMMA ClosedLines ==
    ASSUME SafeInv, closer = "closed"
    PROVE  /\ processor = "publish" => line[procCh] \in {"none", "closed"}
           /\ \A m \in Messages :
                  pc[m] = "publish" => line[pubCh[m]] \in {"none", "closed"}
<1>1. \A c \in Conns : line[c] \in {"none", "closed"}
      BY DEF SafeInv, ConnInv
<1>2. QED
      BY <1>1, ConnsAssumption
      DEF SafeInv, ChannelsHeldInv, WithChannel, TypeInv, TypeOK, Conns

\* a publication that returns no error sends the message
LEMMA SendingStep ==
    ASSUME TypeInv, OnePlace, OnePlace', NEW m \in Messages, NEW c,
           PublishOn(c, m), m \notin Written \cup dropped, m \notin broken,
           closer # "closed", UNCHANGED <<messageCache, closer>>,
           hand' = hand \/ (hand = m /\ hand' = NoMsg)
    PROVE  Outbox!Send(m)
<1>1. m \notin Range(wire) /\ NoRepeats(wire)
      BY DEF OnePlace, Written
<1>2. /\ dropped' = dropped /\ broken' = broken
      /\ \/ Range(wire)' = Range(wire) \cup {m} /\ lost' = lost
         \/ Range(wire)' = Range(wire) /\ lost' = lost \cup {m}
      BY <1>1, WritingPlaces DEF PublishOn
<1>3. Written' = Written \cup {m}
      BY <1>2 DEF Written
<1>4. \A k \in Messages \ {m} : k \in Held' <=> k \in Held
      BY DEF Held, InHand
<1>5. fateOf' = [fateOf EXCEPT ![m] = "sent"]
      BY <1>2, <1>3, <1>4, OneFate
<1>6. fateOf[m] \in {"pending", "held"}
      BY FateByPlace
<1>7. QED
      BY <1>2, <1>5, <1>6 DEF Outbox!Send

\* a message goes to the cache, or is given up because the cache is full
LEMMA CachingStep ==
    ASSUME TypeInv, OnePlace, OnePlace', NEW m \in Messages,
           AddToCache(m), m \notin Range(messageCache),
           m \notin Written \cup dropped, UNCHANGED closer,
           \/ hand' = hand /\ m \notin Held
           \/ hand = m /\ hand' = NoMsg
    PROVE  [Outbox!Hold(m) \/ Outbox!Drop(m)]_OutboxVars
<1>1. /\ wire' = wire /\ lost' = lost /\ broken' = broken
      /\ \/ /\ Range(messageCache)' = Range(messageCache) \cup {m}
            /\ dropped' = dropped
         \/ /\ Range(messageCache)' = Range(messageCache)
            /\ dropped' = dropped \cup {m}
      BY CachingPlaces DEF OnePlace, AddToCache
<1>2. Written' = Written
      BY <1>1 DEF Written
<1>3. \A k \in Messages \ {m} : /\ k \in Held' <=> k \in Held
                                /\ k \in dropped' <=> k \in dropped
      BY <1>1 DEF Held, InHand
<1>4. CASE Len(messageCache) < CacheCap
  <2>1. dropped' = dropped /\ messageCache' = Append(messageCache, m)
        BY <1>4 DEF AddToCache
  <2>2. Range(messageCache)' = Range(messageCache) \cup {m}
        BY <2>1, RangeOfAppend DEF TypeInv, TypeOK
  <2>3. m \in Held'
        BY <2>2 DEF Held
  <2>4. fateOf' = [fateOf EXCEPT ![m] = "held"]
        BY <2>3, <1>2, <1>3, OneFate
  <2>5. CASE m \in Held
    <3>1. fateOf[m] = "held" /\ DOMAIN fateOf = Messages
          BY <2>5, FateByPlace
    <3>2. fateOf' = fateOf
          BY <2>4, <3>1, FateByPlace DEF fateOf
    <3>3. QED
          BY <1>1, <3>2 DEF OutboxVars
  <2>6. CASE m \notin Held
    <3>1. fateOf[m] = "pending"
          BY <2>6, FateByPlace
    <3>2. QED
          BY <1>1, <2>4, <3>1 DEF Outbox!Hold
  <2>7. QED
        BY <2>5, <2>6
<1>5. CASE ~(Len(messageCache) < CacheCap)
  <2>1. m \in dropped'
        BY <1>5 DEF AddToCache
  <2>2. fateOf' = [fateOf EXCEPT ![m] = "gone"]
        BY <2>1, <1>2, <1>3, OneFate
  <2>3. fateOf[m] \in {"pending", "held"}
        BY FateByPlace
  <2>4. Cardinality(Outbox!HeldMessages) >= CacheCap
        BY <1>5, FullCacheIsHeld
  <2>5. Outbox!Drop(m)
        BY <1>1, <2>2, <2>3, <2>4, SameCardinality DEF Outbox!Drop
  <2>6. QED
        BY <2>5
<1>6. QED
      BY <1>4, <1>5

\* a message that cannot be marshalled is given up
LEMMA RefusingStep ==
    ASSUME OnePlace, OnePlace', NEW m \in Messages, m \in broken,
           m \notin Written \cup dropped, dropped' = dropped \cup {m},
           UNCHANGED <<hand, wire, lost, broken, closer>>,
           \A k \in Messages \ {m} :
               k \in Range(messageCache)' <=> k \in Range(messageCache)
    PROVE  Outbox!Drop(m)
<1>1. Written' = Written
      BY DEF Written
<1>2. \A k \in Messages \ {m} : /\ k \in Held' <=> k \in Held
                                /\ k \in dropped' <=> k \in dropped
      BY DEF Held, InHand
<1>3. fateOf' = [fateOf EXCEPT ![m] = "gone"]
      BY <1>1, <1>2, OneFate
<1>4. fateOf[m] \in {"pending", "held"}
      BY FateByPlace
<1>5. QED
      BY <1>3, <1>4 DEF Outbox!Drop

LEMMA OutboxStep ==
    SafeInv /\ OnePlace /\ OnePlace' /\ [Next]_vars
        => [Outbox!Next]_OutboxVars
<1> SUFFICES ASSUME SafeInv, OnePlace, OnePlace', [Next]_vars
             PROVE  [Outbox!Next]_OutboxVars
    OBVIOUS
<1>t. /\ TypeInv
      /\ messageCache \in Seq(Messages)
      /\ hand \in Messages \cup {NoMsg}
      /\ (hand # NoMsg) <=> processor \in {"channel", "publish"}
      /\ hand \notin broken
      BY DEF SafeInv, TypeInv, TypeOK, HandInv
<1>1. CASE \/ MonitorNext \/ CloseBegins \/ CloseLocks \/ EnvNext
           \/ UNCHANGED vars
  <2>1. /\ UNCHANGED <<messageCache, hand, wire, lost, dropped, broken>>
        /\ \/ closer' = closer
           \/ closer \in {"open", "waiting"}
              /\ closer' \in {"waiting", "locked"}
        BY <1>1 DEF MonitorNext, Dial, DialFails, OpenChannel,
           OpenChannelFails, RegisterNotify, ResetSetup, StartProcessor,
           ConnectionClosed, RetryConnect, MonitorStops, CloseBegins,
           CloseLocks, EnvNext, BrokerGoes, BrokerReturns, LineCut,
           CutNoticed, ShutDown, ChannelException, vars, clientVars, procVars, pubVars,
           fateVars
  <2>2. fateOf' = fateOf
        BY <2>1, SameFates DEF Written, Held, InHand
  <2>3. QED
        BY <2>1, <2>2 DEF OutboxVars
<1>2. CASE CloseReturns
  <2>1. /\ UNCHANGED <<messageCache, hand, wire, lost, dropped, broken>>
        /\ closer = "locked" /\ closer' = "closed"
        BY <1>2 DEF CloseReturns, clientVars, procVars, fateVars
  <2>2. fateOf' = fateOf
        BY <2>1, SameFates DEF Written, Held, InHand
  <2>3. Outbox!Shut
        BY <2>1, <2>2 DEF Outbox!Shut
  <2>4. QED
        BY <2>3 DEF Outbox!Next
<1>3. CASE ProcessorNext
  <2>1. CASE ProcessorTick \/ ProcessorStops \/ CacheIsEmpty \/ GetChannel
    <3>1. UNCHANGED <<messageCache, hand, wire, lost, dropped, broken,
                      closer>>
          BY <2>1 DEF ProcessorTick, ProcessorStops, CacheIsEmpty,
             GetChannel, clientVars, fateVars
    <3>2. fateOf' = fateOf
          BY <3>1, SameFates DEF Written, Held, InHand
    <3>3. QED
          BY <3>1, <3>2 DEF OutboxVars
  <2>2. CASE TakeFromCache
    <3>1. /\ Head(messageCache) \in Range(messageCache)
          /\ Range(messageCache)' = Range(messageCache) \ {Head(messageCache)}
          BY <2>2, <1>t, RangeOfTail DEF TakeFromCache, OnePlace
    <3>2. /\ hand = NoMsg /\ hand' = Head(messageCache)
          /\ UNCHANGED <<wire, lost, dropped, broken, closer>>
          BY <2>2, <1>t DEF TakeFromCache, fateVars
    <3>3. Head(messageCache) # NoMsg
          BY <2>2, <1>t, MsgAssumption, TailType DEF TakeFromCache
    <3>4. Held' = Held /\ Written' = Written
          BY <3>1, <3>2, <3>3 DEF Held, InHand, Written
    <3>5. fateOf' = fateOf
          BY <3>2, <3>4, SameFates
    <3>6. QED
          BY <3>2, <3>5 DEF OutboxVars
  <2>3. CASE PublishCached
    <3>1. /\ hand \in Messages /\ hand' = NoMsg
          /\ PublishOn(procCh, hand) /\ processor = "publish"
          /\ UNCHANGED <<messageCache, closer>>
          BY <2>3, <1>t DEF PublishCached, clientVars
    <3>2. hand \notin Written \cup dropped
          BY <3>1, MsgAssumption DEF OnePlace, Held, InHand
    <3>3. closer # "closed"
          BY <3>1, ClosedLines DEF PublishOn
    <3>4. Outbox!Send(hand)
          BY <1>t, <3>1, <3>2, <3>3, SendingStep
    <3>5. QED
          BY <3>1, <3>4 DEF Outbox!Next
  <2>4. CASE PublishCachedFails
    <3>1. /\ hand \in Messages /\ hand' = NoMsg
          /\ AddToCache(hand) /\ closer' = closer
          BY <2>4, <1>t DEF PublishCachedFails
    <3>2. hand \notin Written \cup dropped /\ hand \notin Range(messageCache)
          BY <3>1, MsgAssumption DEF OnePlace, Held, InHand
    <3>3. [Outbox!Hold(hand) \/ Outbox!Drop(hand)]_OutboxVars
          BY <1>t, <3>1, <3>2, CachingStep
    <3>4. QED
          BY <3>1, <3>3 DEF Outbox!Next
  <2>5. CASE DiscardCached
    <3> DEFINE m == Head(messageCache)
    <3>1. messageCache' = Tail(messageCache) /\ messageCache # <<>>
          BY <2>5 DEF DiscardCached
    <3>2. m \in Messages
          BY <3>1, <1>t, TailType
    <3>3. /\ m \in Range(messageCache)
          /\ Range(messageCache)' = Range(messageCache) \ {m}
          BY <3>1, <1>t, RangeOfTail DEF OnePlace
    <3>4. m \notin Written \cup dropped
          BY <3>3 DEF OnePlace, Held
    <3>5. /\ m \in broken /\ dropped' = dropped \cup {m}
          /\ UNCHANGED <<hand, wire, lost, broken, closer>>
          BY <2>5 DEF DiscardCached, procVars
    <3>6. Outbox!Drop(m)
          BY <3>2, <3>3, <3>4, <3>5, RefusingStep
    <3>7. QED
          BY <3>2, <3>6 DEF Outbox!Next
  <2>6. QED
        BY <1>3, <2>1, <2>2, <2>3, <2>4, <2>5 DEF ProcessorNext
<1>4. ASSUME NEW m \in Messages, PublisherNext(m)
      PROVE  [Outbox!Next]_OutboxVars
  <2>1. CASE Publish(m)
    <3>1. /\ ~Handled(m) /\ PublishOn(pubCh[m], m) /\ pc[m] = "publish"
          /\ m \notin broken
          /\ UNCHANGED <<hand, messageCache, closer>>
          BY <2>1 DEF Publish, Handled, clientVars, procVars
    <3>2. m \notin Held \cup Written \cup dropped
          BY <3>1 DEF OnePlace
    <3>3. closer # "closed"
          BY <3>1, ClosedLines DEF PublishOn
    <3>4. Outbox!Send(m)
          BY <1>t, <3>1, <3>2, <3>3, SendingStep
    <3>5. QED
          BY <3>4 DEF Outbox!Next
  <2>2. CASE CacheMessage(m)
    <3>1. /\ ~Handled(m) /\ AddToCache(m) /\ UNCHANGED <<hand, closer>>
          BY <2>2 DEF CacheMessage, Handled, procVars
    <3>2. m \notin Held \cup Written \cup dropped
          BY <3>1 DEF OnePlace
    <3>3. m \notin Range(messageCache)
          BY <3>2 DEF Held
    <3>4. [Outbox!Hold(m) \/ Outbox!Drop(m)]_OutboxVars
          BY <1>t, <3>1, <3>2, <3>3, CachingStep
    <3>5. QED
          BY <3>4 DEF Outbox!Next
  <2>3. CASE PublisherNext(m) /\ ~Publish(m) /\ ~CacheMessage(m)
             /\ ~MarshalFails(m)
    <3>1. UNCHANGED <<messageCache, hand, wire, lost, dropped, broken,
                      closer>>
          BY <2>3 DEF PublisherNext, PublisherStep, StartPublishing,
             AlreadySetUp, NoChannelToSetUp, BeginSetup, SendDeclaration,
             Declare, DeclareFails, EndSetup, ConnectionIsReady, WaitTimesOut,
             ReadChannel, PublishError, ReportOutcome, clientVars, procVars,
             fateVars
    <3>2. fateOf' = fateOf
          BY <3>1, SameFates DEF Written, Held, InHand
    <3>3. QED
          BY <3>1, <3>2 DEF OutboxVars
  <2>4. CASE MarshalFails(m)
    <3>1. /\ ~Handled(m) /\ m \in broken /\ dropped' = dropped \cup {m}
          /\ UNCHANGED <<messageCache, hand, wire, lost, broken, closer>>
          BY <2>4 DEF MarshalFails, Handled, clientVars, procVars
    <3>2. m \notin Written \cup dropped
          BY <3>1 DEF OnePlace
    <3>3. Outbox!Drop(m)
          BY <3>1, <3>2, RefusingStep
    <3>4. QED
          BY <3>3 DEF Outbox!Next
  <2>5. QED
        BY <1>4, <2>1, <2>2, <2>3, <2>4
<1>5. QED
      BY <1>1, <1>2, <1>3, <1>4 DEF Next

(***************************************************************************)
(* The client implements the outbox: whatever the goroutines, the broker   *)
(* and the network do, a message given to it is written once, held, or     *)
(* dropped because as many are held as the cache has places or because it  *)
(* cannot be marshalled, and none is written once Close has returned.      *)
(***************************************************************************)
THEOREM ClientIsAnOutbox == Spec => ImplementsOutbox
<1>1. Init => Outbox!Init
      BY OutboxInit
<1>2. SafeInv /\ OnePlace /\ OnePlace' /\ [Next]_vars
          => [Outbox!Next]_OutboxVars
      BY OutboxStep
<1>3. QED
      BY <1>1, <1>2, SafeInvariant, MessagesAreInOnePlace, PTL
      DEF Spec, ImplementsOutbox, Outbox!Spec, OutboxVars
=============================================================================
