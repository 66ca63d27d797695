--------------------------- MODULE WhatsmeowEvents ---------------------------
(***************************************************************************)
(* The events of one WhatsApp session: EventsHandler and what it starts    *)
(* (src/src/whatsmeow/whatsmeow_handlers.go), and the handler of the bot   *)
(* behind it (src/src/models/dispatching_handler.go).                      *)
(*                                                                         *)
(* Events come in one at a time, but most are handled in a goroutine of    *)
(* their own, so that a later one may overtake an earlier one.  What an    *)
(* event is, is known when it comes in; whether a message is an old one    *)
(* is decided when its goroutine reads the two flags of the offline sync,  *)
(* which other goroutines set.                                             *)
(***************************************************************************)
EXTENDS MessageKinds

CONSTANT Scenes
(* A scene is what an execution takes place in, under its name: the        *)
(* options of the service and of the bot (pairs; unhandled and history are *)
(* of the service alone), the messages that the nth event may bring        *)
(* (inputs), the batches of a history sync, sequences of messages, and the *)
(* requests that start the bot or make it ready (attachers).  Its bounds:  *)
(* events, and the times the bot is stopped (clears).                      *)

Input == [fields : SUBSET Fields, empty : BOOLEAN, reply : BOOLEAN, variant : STRING,
          contacts : Nat, chat : Chats, web : {"new", "old", "broken", "nil"}]

ASSUME ScenesAssumption == \A name \in DOMAIN Scenes : LET s == Scenes[name] IN
    /\ s.events \in Nat /\ s.clears \in Nat
    /\ \A k \in 1..s.events : s.inputs[k] \subseteq Input
    /\ s.batches \subseteq Seq(Input)

VARIABLES
    link,           \* what the server of WhatsApp is at
    sent,           \* events so far
    started, completed,     \* offlineSyncStarted, offlineSyncCompleted
    token,          \* unregisterRequestedToken; the handler is removed with it
    tasks,          \* goroutines started, not yet run
    verified,       \* Verified of the bot
    aeh,            \* times its dispatching handler is in the list
    attaching,      \* requests that have found it empty
    clears,
    got,            \* what each dispatching handler was given
    marks, rejected,    \* messages marked as read, calls rejected
    scene,
    filed,          \* history: what each message was taken for
    applied, overtaken,     \* history: last event that set the flags; whether
                            \* an earlier one has set them after it
    late            \* history: logged out before OnConnected had run

here == Scenes[scene]
server == <<link, sent>>
flags == <<started, completed, applied, overtaken>>
registry == <<aeh, attaching, clears>>
effects == <<got, marks, rejected>>
bot == <<verified, late>>
vars == <<server, flags, token, tasks, registry, effects, bot, scene, filed>>

Syncing == {"connected", "preview"}
Runs == {"verify", "preview", "completed", "message", "history", "call", "deliver",
         "receipt", "mark"}
Plain == [fields |-> {"conversation"}, empty |-> FALSE, reply |-> FALSE,
          variant |-> "none", contacts |-> 0, chat |-> "private", web |-> "new"]

TypeOK ==
    /\ link \in {"down", "live", "out"} \cup Syncing
    /\ sent \in 0..here.events /\ applied \in 0..here.events
    /\ \A t \in tasks : t.n \in 1..sent /\ t.run \in Runs /\ t.m.type \in Types
                        /\ t.m.chat \in Chats
    /\ aeh \in Nat /\ attaching \subseteq here.attachers /\ clears \in 0..here.clears
    /\ scene \in DOMAIN Scenes

Init ==
    /\ link = "down" /\ sent = 0
    /\ started = FALSE /\ completed = FALSE /\ applied = 0 /\ overtaken = FALSE
    /\ token = FALSE /\ tasks = {} /\ verified = FALSE /\ late = FALSE
    /\ aeh = 0 /\ attaching = {} /\ clears = 0
    /\ got = {} /\ marks = {} /\ rejected = {} /\ filed = {}
    /\ scene \in DOMAIN Scenes

-----------------------------------------------------------------------------
(* Events as they come in.                                                 *)

n == sent + 1
Up == link \in Syncing \cup {"live"}

(* Goroutines, of event k, for a message, made of incoming ones.  One that  *)
(* neither reads nor writes what others share before it starts the next is *)
(* not a step: it is the next that is started.                             *)
Go(k, run, m, batch) == [n |-> k, run |-> run, m |-> m, in |-> batch,
                      during |-> link \in Syncing]
Start(new) == tasks' = tasks \cup new
Goroutines(runs) == {Go(n, r, Blank, <<>>) : r \in runs}

(* Follow: to the handler of the bot, and to WhatsApp if messages are to   *)
(* be marked as read, each in a goroutine.                                 *)
Handles(option, default) == Option(here[option][1], here[option][2], default)

Following(t, m) ==
    {[t EXCEPT !.run = "deliver", !.m = m, !.in = <<>>]}
    \cup (IF Handles("readUpdate", FALSE) /\ ~FromBroadcast(m)
          THEN {[t EXCEPT !.run = "mark", !.m = m, !.in = <<>>]} ELSE {})

Follow(m) == Start(Following(Go(n, "deliver", m, <<>>), m))

\* sendConnectionDispatching and sendSyncDispatching do not pass Follow
SendDispatching(t) == [t EXCEPT !.run = "deliver", !.m = SystemMessage]

\* in debug mode, events without a handler are shown
DispatchUnhandledEvent ==
    IF here.unhandled
    THEN Follow([SystemMessage EXCEPT !.type = "unhandled", !.debug = TRUE])
    ELSE UNCHANGED tasks

\* no event that sets the flags is, or has been, on the wrong side of t
InOrder(t) ==
    /\ ~overtaken /\ applied < t.n
    /\ \A u \in tasks : u.run \in {"preview", "completed"} => u.n > t.n

File(t, from, m) ==
    filed' = filed \cup {[n |-> t.n, from |-> from, during |-> t.during,
                          inOrder |-> InOrder(t), history |-> m.history,
                          dropped |-> m.type = "unhandled" /\ m.history]}

Comes == sent < here.events /\ ~token /\ sent' = n
Heard == Comes /\ UNCHANGED <<registry, effects, bot, scene, filed>>
NoFlags == UNCHANGED <<flags, token>>

\* as if a new connection left the flag of the last one
Connected_KeepsCompleted ==
    /\ Heard /\ link = "down" /\ link' = "connected"
    /\ started' = TRUE /\ applied' = n
    /\ Start(Goroutines({"verify"}) \cup {SendDispatching(Go(n, "deliver", Blank, <<>>))})
    /\ UNCHANGED <<completed, overtaken, token>>

(* A session is connected, and taken to be behind until the server says    *)
(* that it is not; the flags are set before any other event comes in.      *)
Connected ==
    /\ Heard /\ link = "down" /\ link' = "connected"
    /\ started' = TRUE /\ completed' = FALSE /\ applied' = n
    /\ Start(Goroutines({"verify"}) \cup {SendDispatching(Go(n, "deliver", Blank, <<>>))})
    /\ UNCHANGED <<overtaken, token>>

OfflineSyncPreview ==
    /\ Heard /\ link = "connected" /\ link' = "preview"
    /\ Start(Goroutines({"preview"})) /\ NoFlags

OfflineSyncCompleted ==
    /\ Heard /\ link \in Syncing /\ link' = "live"
    /\ Start(Goroutines({"completed"})) /\ NoFlags

\* OnDisconnected does nothing; whatsmeow connects again
Disconnected ==
    /\ Heard /\ Up /\ link' = "down"
    /\ UNCHANGED <<tasks, flags, token>>

MessageArrives ==
    /\ Heard /\ Up
    /\ \E in \in here.inputs[n] : Start({Go(n, "message", Blank, <<in>>)})
    /\ NoFlags /\ UNCHANGED link

UndecryptableMessage(type) ==
    /\ Heard /\ Up
    /\ IF type = "view_once" THEN Follow([Blank EXCEPT !.type = "view_once"])
       ELSE DispatchUnhandledEvent
    /\ NoFlags /\ UNCHANGED link

\* not implemented, or unknown
OtherArrives ==
    /\ Heard /\ Up /\ DispatchUnhandledEvent /\ NoFlags /\ UNCHANGED link

CallArrives ==
    /\ Heard /\ Up /\ Start(Goroutines({"call"})) /\ NoFlags /\ UNCHANGED link

\* a contact changed, by the user or in a full sync; without an action it is
\* ignored
OnEventContact(full, action) ==
    LET m == [Blank EXCEPT !.type = "contact", !.history = full,
                           !.attachment = TRUE, !.edited = TRUE]
    IN /\ Comes /\ Up
       /\ IF action THEN Follow(m) /\ File(Go(n, "contact", m, <<>>), "contact", m)
          ELSE UNCHANGED <<tasks, filed>>
       /\ UNCHANGED <<flags, token, link, registry, effects, bot, scene>>

HistorySyncArrives ==
    /\ Heard /\ Up
    /\ IF here.history
       THEN \E batch \in here.batches : Start({Go(n, "history", Blank, batch)})
       ELSE UNCHANGED tasks
    /\ NoFlags /\ UNCHANGED link

\* of the receipts, that of a message read for the first time (MessageStatus)
ReadReceiptArrives ==
    /\ Heard /\ Up
    /\ IF Handles("receipts", TRUE) THEN Start(Goroutines({"receipt"})) ELSE UNCHANGED tasks
    /\ NoFlags /\ UNCHANGED link

\* handled before the next event: a group joined, a QR code, a phone paired
SystemArrives(m) ==
    Heard /\ Up /\ Follow(m) /\ NoFlags /\ UNCHANGED link

JoinedGroup == SystemArrives([Blank EXCEPT !.type = "group", !.chat = "group", !.empty = FALSE])
OnQREvent == SystemArrives(SystemMessage)
OnPairSuccessEvent == SystemArrives(SystemMessage)

LoggedOut_KeepsVerified ==
    /\ Comes /\ Up /\ link' = "out"
    /\ Follow(SystemMessage)
    /\ token' = TRUE
    /\ late' = (\E t \in tasks : t.run = "verify")
    /\ UNCHANGED <<verified, flags, registry, effects, scene, filed>>

(* Logged out: the bot is not verified any more, and the handler removed.  *)
OnLoggedOutEvent ==
    /\ Comes /\ Up /\ link' = "out"
    /\ verified' = FALSE
    /\ Follow(SystemMessage)
    /\ token' = TRUE
    /\ late' = (\E t \in tasks : t.run = "verify")
    /\ UNCHANGED <<flags, registry, effects, scene, filed>>

-----------------------------------------------------------------------------
(* Goroutines: each leaves the set of tasks, and may start others.         *)

Done(t, new) == tasks' = (tasks \ {t}) \cup new
Running(run) == {t \in tasks : t.run = run}
Alone == UNCHANGED <<server, token, registry, scene>>

OnConnected(t) ==
    /\ verified' = TRUE /\ Done(t, {})
    /\ Alone /\ UNCHANGED <<flags, effects, late, filed>>

Flag(t, s) ==
    /\ started' = s /\ completed' = ~s
    /\ overtaken' = (overtaken \/ t.n < applied)
    /\ applied' = IF t.n < applied THEN applied ELSE t.n
    /\ Done(t, {SendDispatching(t)})
    /\ Alone /\ UNCHANGED <<effects, bot, filed>>

OnOfflineSyncPreview(t) == Flag(t, TRUE)
OnOfflineSyncCompleted(t) == Flag(t, FALSE)

isHistoryMessage(from) == from = "history" \/ (started /\ ~completed)

(* Message: what its fields make of it, and an unhandled one of history is *)
(* dropped.  The contacts after the first of an array are followed on      *)
(* their own.                                                              *)
Converted(t, from, in) ==
    HandleKnowingMessages([Blank EXCEPT !.chat = in.chat, !.left = Len(t.in),
                                        !.history = isHistoryMessage(from)], in)

FollowedBy(t, m, in) ==
    UNION {Following(t, x) :
              x \in Extras(m, in) \cup (IF m.type = "unhandled" /\ m.history THEN {} ELSE {m})}

Message(t) ==
    LET in == Head(t.in)
        m == Converted(t, "live", in)
    IN /\ IF in.web = "nil" THEN Done(t, {}) /\ UNCHANGED filed
          ELSE Done(t, FollowedBy(t, m, in)) /\ File(t, "live", m)
       /\ Alone /\ UNCHANGED <<flags, effects, bot>>

(* One message of a history sync after the other.  Those that are too old  *)
(* are passed over; the first that cannot be parsed ends it.               *)
OnHistorySyncEvent(t) ==
    LET in == Head(t.in)
        rest == [t EXCEPT !.in = Tail(t.in)]
        m == Converted(t, "history", in)
    IN /\ CASE t.in = <<>> \/ in.web = "broken" -> Done(t, {}) /\ UNCHANGED filed
            [] t.in # <<>> /\ in.web \in {"old", "nil"} -> Done(t, {rest}) /\ UNCHANGED filed
            [] OTHER -> Done(t, {rest} \cup FollowedBy(t, m, in)) /\ File(t, "history", m)
       /\ Alone /\ UNCHANGED <<flags, effects, bot>>

\* the bot is told of a call even if it is then rejected
CallMessage(t) ==
    /\ Done(t, {[t EXCEPT !.run = "deliver", !.m.type = "call"]})
    /\ rejected' = IF Handles("calls", TRUE) THEN rejected ELSE rejected \cup {t.n}
    /\ Alone /\ UNCHANGED <<flags, got, marks, bot, filed>>

\* the id is that of the message by now; WhatsApp may refuse
MarkRead(t) ==
    /\ Done(t, {})
    /\ marks' = marks \cup {[n |-> t.n, id |-> t.m.id, type |-> t.m.type]}
    /\ Alone /\ UNCHANGED <<flags, got, rejected, bot, filed>>

-----------------------------------------------------------------------------
(* The handler of the bot.                                                 *)

\* Trigger: a goroutine for each element of the list
Trigger(t, m) ==
    got' = IF IsValidForDispatch(m, here.unhandled)
           THEN got \cup {[n |-> t.n, extra |-> m.extra, type |-> m.type, debug |-> m.debug,
                           queue |-> DetermineRoutingKey(m), by |-> h, left |-> m.left] : h \in 1..aeh}
           ELSE got

Skipped(m) == \/ FromGroup(m) /\ ~Handles("groups", TRUE)
              \/ FromBroadcast(m) /\ ~Handles("broadcasts", FALSE)

\* processUnhandledMessage
Renamed(m) == [m EXCEPT !.id = "renamed", !.empty = FALSE]

\* Message: a pending MarkRead reads the id of the message, changed here or
\* not; the cache takes every new id (MessageCache)
Deliver(t) ==
    LET own(u) == u.run = "mark" /\ u.n = t.n /\ u.m = t.m
    IN /\ IF Skipped(t.m) THEN Done(t, {}) /\ UNCHANGED got
          ELSE IF t.m.type = "unhandled"
          THEN /\ tasks' = {IF own(u) THEN [u EXCEPT !.m = Renamed(t.m)] ELSE u : u \in tasks \ {t}}
               /\ Trigger(t, Renamed(t.m))
          ELSE Done(t, {}) /\ Trigger(t, t.m)
       /\ Alone /\ UNCHANGED <<flags, marks, rejected, bot, filed>>

\* a read receipt is not cached
Receipt(t) ==
    /\ Done(t, {}) /\ Trigger(t, [SystemMessage EXCEPT !.id = "readreceipt"])
    /\ Alone /\ UNCHANGED <<flags, marks, rejected, bot, filed>>

(* The bot has one dispatching handler.  Start and EnsureReady register it *)
(* if they find the list empty; Register asks again, now with the lock.    *)
Others == UNCHANGED <<server, flags, token, tasks, effects, bot, scene, filed, clears>>

FindUnattached(a) ==
    /\ a \notin attaching /\ aeh = 0
    /\ attaching' = attaching \cup {a}
    /\ Others /\ UNCHANGED aeh

Register_Unchecked(a) ==
    /\ a \in attaching
    /\ attaching' = attaching \ {a} /\ aeh' = aeh + 1
    /\ Others

Register(a) ==
    /\ a \in attaching
    /\ attaching' = attaching \ {a} /\ aeh' = IF aeh = 0 THEN 1 ELSE aeh
    /\ Others

\* Stop and Delete of the bot
Clear ==
    /\ clears < here.clears /\ clears' = clears + 1
    /\ aeh' = 0
    /\ UNCHANGED <<server, flags, token, tasks, effects, bot, scene, filed, attaching>>

Arrival ==
    \/ Connected \/ OfflineSyncPreview \/ OfflineSyncCompleted \/ Disconnected
    \/ MessageArrives \/ OtherArrives \/ CallArrives \/ HistorySyncArrives
    \/ ReadReceiptArrives \/ JoinedGroup \/ OnQREvent \/ OnPairSuccessEvent
    \/ OnLoggedOutEvent
    \/ \E type \in {"view_once", "other"} : UndecryptableMessage(type)
    \/ \E full, action \in BOOLEAN : OnEventContact(full, action)

Goroutine ==
    \/ \E t \in Running("verify") : OnConnected(t)
    \/ \E t \in Running("preview") : OnOfflineSyncPreview(t)
    \/ \E t \in Running("completed") : OnOfflineSyncCompleted(t)
    \/ \E t \in Running("message") : Message(t)
    \/ \E t \in Running("history") : OnHistorySyncEvent(t)
    \/ \E t \in Running("call") : CallMessage(t)
    \/ \E t \in Running("mark") : MarkRead(t)
    \/ \E t \in Running("deliver") : Deliver(t)
    \/ \E t \in Running("receipt") : Receipt(t)

Registration ==
    \/ \E a \in here.attachers : FindUnattached(a) \/ Register(a)
    \/ Clear

Next == Arrival \/ Goroutine \/ Registration

Spec == Init /\ [][Next]_vars

-----------------------------------------------------------------------------
Copies(k) == {g \in got : g.n = k}

(* isHistoryMessage (whatsmeow_handlers.go:933): a message whose goroutine *)
(* runs on the same side of the events of the offline sync as it came in   *)
(* is taken for history exactly if it came in during the sync; one of a    *)
(* history batch always is.  And once the goroutines that set the flags    *)
(* have run in order, the flags say what the server is at.                 *)
HistoryIsExact ==
    /\ \A f \in filed : /\ f.from = "history" => f.history
                        /\ f.from = "live" /\ f.inOrder => f.history = f.during
    /\ Running("preview") \cup Running("completed") = {} /\ ~overtaken /\ Up =>
           ((started /\ ~completed) <=> link \in Syncing)

(* DetermineRoutingKey (qp_dispatching.go:373): a message, or the contact  *)
(* of an event, is in the queue of history exactly if it was taken for     *)
(* history, and in no other then, whatever it is; one of the unhandled     *)
(* kind is given to nobody.  The contacts after the first of an array are  *)
(* excepted, which are dispatched as live ones.                            *)
HistoryStaysApart ==
    /\ \A f \in filed : \A g \in Copies(f.n) : g.extra = 0 =>
           /\ f.from = "live" => ~f.dropped
           /\ (g.queue = "history") <=> f.history
    /\ \A g \in got : g.queue = "history" =>
           g.type # "unhandled" /\ \E f \in filed : f.n = g.n /\ f.history

(* Trigger (dispatching_handler.go:215): the dispatching handler is given  *)
(* a message once, although requests ask for it without the lock and then  *)
(* register it (qp_whatsapp_server.go:396, 444), whenever the bot stops.   *)
OncePerMessage ==
    \A g, h \in got : [g EXCEPT !.by = h.by] = h => g = h

(* LoggedOut (dispatching_handler.go:132): a bot that WhatsApp has logged  *)
(* out is not verified, unless the goroutine of OnConnected was still to   *)
(* run by then.                                                            *)
LoggedOutIsUnverified == token /\ ~late => ~verified

=============================================================================
