-------------------------- MODULE Background_proofs --------------------------
(***************************************************************************)
(* Proofs about two small components that run in the background: the       *)
(* scheduler of wake-ups (WakeUpScheduler) and the hub of a page           *)
(* (PairingPage).  The two share nothing.                                  *)
(*                                                                         *)
(* The argument for NoWindowPasses: the next tick is handled before the    *)
(* window closes.  A tick that finds wakeUpTime still to come is followed  *)
(* by one at most Period + Lag later, which is no more than Window; a tick *)
(* in the window moves wakeUpTime on by a day.                             *)
(*                                                                         *)
(* The hub of a page never closes its channel twice nor writes to it once  *)
(* it is closed: the entry of the page in the hub and the open channel go  *)
(* together, and whoever gives the page up looks at the entry.             *)
(***************************************************************************)
EXTENDS WakeUpScheduler, PairingPage, TLAPS

-----------------------------------------------------------------------------
(* The scheduler of wake-ups *)

\* the next tick is not overdue, and comes before the end of the window
TickInv ==
    loop # "done" =>
        /\ now <= nextTick + Lag
        /\ ~StartsLate => nextTick + Lag < wakeUpTime + Window

\* the last wake-up was in the window a day before wakeUpTime
LastWakeInv == lastWake # -1 => lastWake < wakeUpTime - Day + Window

Inv == TypeOK /\ TickInv /\ LastWakeInv

LEMMA InvInit == Init => Inv
<1> SUFFICES ASSUME Init PROVE Inv
    OBVIOUS
<1> USE TimeAssumption DEF Init, FirstWakeUp
<1>1. TypeOK
      BY DEF TypeOK
<1>2. TickInv
      BY DEF TickInv, StartsLate
<1>3. LastWakeInv
      BY DEF LastWakeInv
<1>4. QED
      BY <1>1, <1>2, <1>3 DEF Inv

LEMMA InvStep == Inv /\ [Next]_vars => Inv'
<1> SUFFICES ASSUME Inv, [Next]_vars PROVE Inv'
    OBVIOUS
<1> USE TimeAssumption DEF Inv, TypeOK, TickInv, LastWakeInv, StartsLate,
    schedVars, clientVars, given
<1>1. CASE Pass
      BY <1>1 DEF Pass
<1>2. CASE WakeUp
      BY <1>2 DEF WakeUp, InWindow, SendPresence
<1>3. CASE TickOutside
      BY <1>3 DEF TickOutside, InWindow
<1>4. CASE EndOfWakeUp
      BY <1>4 DEF EndOfWakeUp, GoOffline, SendPresence
<1>5. CASE Stop \/ LoopEnds \/ ClientDisposed
      BY <1>5 DEF Stop, LoopEnds, ClientDisposed
<1>6. CASE PresenceEvent \/ PushNameSet \/ LinkLost \/ LinkRestored
      BY <1>6 DEF PresenceEvent, SendPresence, PushNameSet, LinkLost, LinkRestored
<1>7. CASE UNCHANGED vars
      BY <1>7 DEF vars
<1>8. QED
      BY <1>1, <1>2, <1>3, <1>4, <1>5, <1>6, <1>7 DEF Next

LEMMA Invariance == Spec => []Inv
<1>1. QED
      BY InvInit, InvStep, PTL DEF Spec

(***************************************************************************)
(* The ticker, whatever its period and its lag, never lets the window of a *)
(* wake-up pass: unless the scheduler started at the end of it.            *)
(***************************************************************************)
THEOREM NoWindowIsMissed == Spec => []NoWindowPasses
<1>1. Inv => NoWindowPasses
      BY TimeAssumption DEF Inv, TypeOK, TickInv, NoWindowPasses, StartsLate
<1>2. QED
      BY <1>1, Invariance, PTL

(***************************************************************************)
(* Two wake-ups are almost a day apart: moving wakeUpTime on in the tick   *)
(* that executes it keeps the next ticks of the window from repeating it.  *)
(***************************************************************************)
THEOREM WakesOnceADay == Spec => OnceADay
<1> DEFINE Apart == lastWake' # lastWake =>
                       lastWake = -1 \/ lastWake' - lastWake > Day - Window
<1>1. Inv /\ [Next]_vars => [Apart]_vars
  <2> SUFFICES ASSUME Inv, [Next]_vars, lastWake' # lastWake PROVE Apart
      OBVIOUS
  <2>1. WakeUp
        BY DEF Next, vars, schedVars, Pass, TickOutside, EndOfWakeUp,
           GoOffline, Stop, LoopEnds, ClientDisposed, PresenceEvent,
           PushNameSet, LinkLost, LinkRestored
  <2>2. QED
        BY <2>1, TimeAssumption
        DEF WakeUp, InWindow, Inv, TypeOK, LastWakeInv
<1>2. QED
      BY <1>1, Invariance, PTL DEF Spec, OnceADay

(***************************************************************************)
(* Every variable keeps its type; wakeUpTime and the last wake-up never    *)
(* lie before the first day.                                               *)
(***************************************************************************)
THEOREM TypeCorrect == Spec => []TypeOK
<1>1. Inv => TypeOK
      BY DEF Inv
<1>2. QED
      BY <1>1, Invariance, PTL

\* who is online has a client and a link, and the timer of the last wake-up
ShownInv ==
    /\ presence = "online" => client = "ready" /\ link
    /\ OnlineIsTimed

LEMMA ShownStep == Inv /\ ShownInv /\ [Next]_vars => ShownInv'
<1> SUFFICES ASSUME Inv, ShownInv, [Next]_vars PROVE ShownInv'
    OBVIOUS
<1> USE DEF Inv, TypeOK, ShownInv, OnlineIsTimed, schedVars, clientVars, given
<1>1. CASE WakeUp
      BY <1>1 DEF WakeUp, SendPresence
<1>2. CASE EndOfWakeUp
  <2>1. PICK t \in timers : GoOffline(t)
        BY <1>2 DEF EndOfWakeUp
  <2>2. CASE presence = "online"
        BY <2>1, <2>2 DEF GoOffline, SendPresence
  <2>3. CASE presence = "offline"
        BY <2>1, <2>3 DEF GoOffline, SendPresence
  <2>4. QED
        BY <2>2, <2>3
<1>3. CASE PresenceEvent
      BY <1>3 DEF PresenceEvent, SendPresence
<1>4. CASE Pass \/ TickOutside
      BY <1>4 DEF Pass, TickOutside
<1>5. CASE Stop \/ LoopEnds \/ ClientDisposed
      BY <1>5 DEF Stop, LoopEnds, ClientDisposed
<1>6. CASE PushNameSet \/ LinkLost \/ LinkRestored
      BY <1>6 DEF PushNameSet, LinkLost, LinkRestored
<1>7. CASE UNCHANGED vars
      BY <1>7 DEF vars
<1>8. QED
      BY <1>1, <1>2, <1>3, <1>4, <1>5, <1>6, <1>7 DEF Next

(***************************************************************************)
(* An account that a wake-up put online has a timer that takes it offline  *)
(* again, Duration after the last wake-up (executeWakeUp): Stop does not   *)
(* cancel it, and the timer of an earlier wake-up does not stand for it.   *)
(***************************************************************************)
THEOREM OnlineHasItsTimer == Spec => []OnlineIsTimed
<1>1. Init => ShownInv
      BY DEF Init, ShownInv, OnlineIsTimed
<1>2. ShownInv => OnlineIsTimed
      BY DEF ShownInv
<1>3. QED
      BY <1>1, <1>2, ShownStep, Invariance, PTL DEF Spec

-----------------------------------------------------------------------------
(* The hub of a page *)

\* what the queue holds
PageMessage == [from : Scanners, what : {"code", "timeout", "complete"}]

\* the page is registered exactly as long as its channel is open
ChannelIsOpen ==
    /\ registered \in BOOLEAN
    /\ closed = ~registered
    /\ panicked = FALSE

QueueInv == queue \in Seq(PageMessage) /\ Len(queue) <= Buffer

PageInv == ChannelIsOpen /\ QueueInv

LEMMA PageInitInv ==
    ASSUME Buffer \in Nat, PageInit
    PROVE  PageInv
<1>1. ChannelIsOpen
  BY DEF PageInit, ChannelIsOpen
<1>2. QueueInv
  BY DEF PageInit, QueueInv
<1> QED
  BY <1>1, <1>2 DEF PageInv

\* What the hub does with a message, or with a page that leaves.
LEMMA HubKeepsInv ==
    ASSUME Buffer \in Nat, PageInv,
           \/ \E m \in PageMessage : Broadcast(m)
           \/ registered /\ Shut
           \/ UNCHANGED hub
    PROVE  PageInv'
<1> USE DEF PageInv, ChannelIsOpen, QueueInv
<1>1. ASSUME NEW m \in PageMessage, Broadcast(m) PROVE PageInv'
  <2>1. CASE UNCHANGED hub
    BY <2>1 DEF hub
  <2>2. CASE registered /\ Shut
    BY <2>2 DEF Shut
  <2>3. CASE /\ registered /\ Len(queue) # Buffer
             /\ queue' = IF closed THEN queue ELSE Append(queue, m)
             /\ panicked' = closed
             /\ UNCHANGED <<registered, closed>>
    <3>1. queue' = Append(queue, m)
      BY <2>3
    <3>2. queue' \in Seq(PageMessage) /\ Len(queue') = Len(queue) + 1
      BY <3>1
    <3>3. Len(queue') <= Buffer
      BY <2>3, <3>2
    <3> QED
      BY <2>3, <3>2, <3>3
  <2> QED
    BY <1>1, <2>1, <2>2, <2>3 DEF Broadcast
<1>2. CASE registered /\ Shut
  BY <1>2 DEF Shut
<1>3. CASE UNCHANGED hub
  BY <1>3 DEF hub
<1> QED
  BY <1>1, <1>2, <1>3

\* Every step but the writing of the pump, which empties the queue, is one of
\* these for the hub.
LEMMA PageStepKeepsInv ==
    ASSUME Buffer \in Nat, PageInv, [PageNext]_pageVars
    PROVE  PageInv'
<1>1. ASSUME NEW s \in Scanners, Answer(s) PROVE PageInv'
  <2>1. UNCHANGED hub \/ \E what \in {"code", "timeout", "complete"} :
                            Broadcast([from |-> s, what |-> what])
    BY <1>1 DEF Answer, Answers
  <2>2. UNCHANGED hub \/ \E m \in PageMessage : Broadcast(m)
    BY <2>1 DEF PageMessage
  <2> QED
    BY <2>2, HubKeepsInv
<1>2. ASSUME NEW s \in Scanners, Give(s) PROVE PageInv'
  <2>1. [from |-> s, what |-> "code"] \in PageMessage
    BY DEF PageMessage
  <2> QED
    BY <1>2, <2>1, HubKeepsInv DEF Give
<1>3. CASE Unregister
  BY <1>3, HubKeepsInv DEF Unregister
<1>4. CASE Write
  BY <1>4 DEF Write, PageInv, ChannelIsOpen, QueueInv
<1>5. ASSUME NEW s \in Scanners,
             \/ ReadStart(s) \/ GetConnection(s) \/ Connect(s)
             \/ Receive(s) \/ Hand(s) \/ Encode(s)
             \/ GiverEnds(s)
      PROVE  UNCHANGED hub
  BY <1>5 DEF ReadStart, GetConnection, Connect, Receive,
     ReceiveCode, ReceiveTimeout, ReceiveOther, ReceiveNothing,
     Hand, Encode, TryUpdateHttpChannel, EncodeFails, EncoderEnds,
     GiverEnds
<1>6. CASE ReadClose \/ Vanish \/ ReadFails \/ WriteEnds
  <2>1. UNCHANGED hub
    BY <1>6 DEF ReadClose, Vanish, ReadFails, WriteEnds
  <2> QED
    BY <2>1, HubKeepsInv
<1>7. ASSUME NEW r \in Requests,
             GetWhatsAppQRCode(r) \/ PairPhone(r) \/ Respond(r)
      PROVE  UNCHANGED hub
  BY <1>7 DEF GetWhatsAppQRCode, PairPhone, Respond,
     QRCodeAnswer, PairPhoneAnswer, Page
<1>8. CASE UNCHANGED pageVars
  <2>1. UNCHANGED hub
    BY <1>8 DEF pageVars
  <2> QED
    BY <2>1, HubKeepsInv
<1> QED
  BY <1>1, <1>2, <1>3, <1>4, <1>5, <1>6, <1>7, <1>8, HubKeepsInv
  DEF PageNext, Scan, ToHub, Read, WritePump

(***************************************************************************)
(* Hub.run: whoever gives the page up, the hub because its queue is full   *)
(* or readPump because the page has gone, in whatever order and with       *)
(* however many goroutines handing it codes, the channel of the page is    *)
(* closed once and never written to afterwards.                            *)
(***************************************************************************)
THEOREM HubIsSafe == PageSpec => []HubNeverPanics
<1>1. Buffer \in Nat
  BY PairingPageAssumption
<1>2. PageInit => PageInv
  BY <1>1, PageInitInv
<1>3. PageInv /\ [PageNext]_pageVars => PageInv'
  BY <1>1, PageStepKeepsInv
<1>4. PageInv => HubNeverPanics
  BY DEF PageInv, ChannelIsOpen, HubNeverPanics
<1> QED
  BY <1>2, <1>3, <1>4, PTL DEF PageSpec
=============================================================================
