----------------------------- MODULE PairingPage -----------------------------
(***************************************************************************)
(* How a phone is paired: the page that shows codes over a websocket       *)
(* (form_websocket_client.go and form_websocket_hub.go in src/src/form,    *)
(* SignInWithQRCode in src/src/models/qp_whatsapp_extensions.go), and the  *)
(* requests of the API for one code, to scan or to type                    *)
(* (src/src/whatsmeow/whatsmeow_connection.go).                            *)
(*                                                                         *)
(* A page has a hub of its own.  Each time the page says "start" a scanner *)
(* begins: it signs in with a connection of its own, and hands each code   *)
(* to a goroutine that encodes it, which hands it to one that gives it to  *)
(* the hub.  The channels between them have no buffer: one gives when the  *)
(* other takes.  The hub puts what it is given into the queue of the page. *)
(***************************************************************************)
EXTENDS Integers, Sequences, FiniteSets

CONSTANTS
    Scanners,   \* the scanners a page may start (a bound)
    MaxCodes,   \* codes of a scanner before they time out: 6 (a bound)
    Buffer,     \* capacity of the queue of the page: 256 (a bound)
    Requests,   \* requests of the API (a bound)
    Crews       \* sets of both that may act in one execution (a bound)

ASSUME PairingPageAssumption ==
    MaxCodes \in [Scanners -> Nat] /\ Buffer \in Nat /\ Crews \subseteq SUBSET (Scanners \cup Requests)

VARIABLES
    socket,             \* the connection with the page
    reader, writer,     \* readPump and writePump
    cancelled,          \* the context of the scanners
    registered, closed, queue,  \* in the hub: is the page known; its channel
    panicked,
    scanner,            \* of each: where it is, and the error it has
    codes,              \* of each: the codes it was given
    encoder, giver,     \* of each: its two goroutines
    told,               \* the answers the page has shown
    request,            \* of each: where it is, and the events it dispatched
    crew

hub == <<registered, closed, queue, panicked>>
pumps == <<reader, writer>>
channel == <<codes, encoder, giver>>
pageVars == <<socket, pumps, cancelled, hub, scanner, channel, told, request, crew>>

Errors == {"none", "timeout", "time", "other"}
Goroutine == {"none", "waiting", "code", "gone"}

PageTypeOK ==
    /\ socket \in {"open", "lost", "closed"}
    /\ reader \in {"reading", "leaving", "gone"} /\ writer \in {"writing", "gone"}
    /\ cancelled \in BOOLEAN /\ registered \in BOOLEAN /\ closed \in BOOLEAN
    /\ panicked \in BOOLEAN /\ Len(queue) <= Buffer
    /\ scanner \in [Scanners -> [at : {"idle", "connection", "channel", "codes", "handing",
                                       "stuck", "answer", "done"}, err : Errors]]
    /\ codes \in [Scanners -> Nat] /\ \A s \in Scanners : codes[s] <= MaxCodes[s]
    /\ encoder \in [Scanners -> Goroutine] /\ giver \in [Scanners -> Goroutine]

\* WebSocketStart: the hub knows the page before the pumps start
PageInit ==
    /\ socket = "open" /\ reader = "reading" /\ writer = "writing" /\ cancelled = FALSE
    /\ registered = TRUE /\ closed = FALSE /\ queue = <<>> /\ panicked = FALSE
    /\ scanner = [s \in Scanners |-> [at |-> "idle", err |-> "none"]]
    /\ codes = [s \in Scanners |-> 0]
    /\ encoder = [s \in Scanners |-> "none"] /\ giver = [s \in Scanners |-> "none"]
    /\ told = {} /\ request = [r \in Requests |-> [at |-> "none", events |-> {}]]
    /\ crew \in Crews

At(s, at) == ~panicked /\ scanner[s].at = at
Go(s, at) == scanner' = [scanner EXCEPT ![s].at = at]
Return(s, err) == scanner' = [scanner EXCEPT ![s] = [at |-> "answer", err |-> err]]
Put(f, s, v) == [f EXCEPT ![s] = v]

-----------------------------------------------------------------------------
(* The hub.  A channel that is closed twice, or written to once it is      *)
(* closed, is a panic of the program.                                      *)

Shut ==
    /\ registered' = FALSE /\ closed' = TRUE
    /\ panicked' = closed
    /\ UNCHANGED queue

(* A page that does not keep up is taken for dead.                         *)
Broadcast_Drops(m) ==
    IF ~registered \/ Len(queue) = Buffer THEN UNCHANGED hub
    ELSE /\ queue' = IF closed THEN queue ELSE Append(queue, m)
         /\ panicked' = closed
         /\ UNCHANGED <<registered, closed>>

Broadcast(m) ==
    IF ~registered THEN UNCHANGED hub
    ELSE IF Len(queue) = Buffer THEN Shut
    ELSE /\ queue' = IF closed THEN queue ELSE Append(queue, m)
         /\ panicked' = closed
         /\ UNCHANGED <<registered, closed>>

Leaving == ~panicked /\ reader = "leaving" /\ reader' = "gone"

Unregister_Unchecked ==
    /\ Leaving /\ Shut
    /\ UNCHANGED <<socket, writer, cancelled, scanner, channel, told, request, crew>>

(* The page is given up when it cannot be read any more.                   *)
Unregister ==
    /\ Leaving
    /\ IF registered THEN Shut ELSE UNCHANGED hub
    /\ UNCHANGED <<socket, writer, cancelled, scanner, channel, told, request, crew>>

-----------------------------------------------------------------------------
(* The page and its two pumps.                                             *)

\* readPump: every "start" starts a scanner, whatever others there are
ReadStart(s) ==
    /\ reader = "reading" /\ socket = "open" /\ s \in crew /\ At(s, "idle")
    /\ Go(s, "connection") /\ giver' = Put(giver, s, "waiting")
    /\ UNCHANGED <<socket, pumps, cancelled, hub, codes, encoder, told, request, crew>>

\* OnWebSocketClosed: the page said that it closes
ReadClose ==
    /\ ~panicked /\ reader = "reading" /\ socket = "open"
    /\ socket' = "closed" /\ reader' = "leaving" /\ cancelled' = TRUE
    /\ UNCHANGED <<writer, hub, scanner, channel, told, request, crew>>

\* the network or the browser fails; nothing is read from then on
Vanish ==
    /\ socket = "open" /\ socket' = "lost"
    /\ UNCHANGED <<pumps, cancelled, hub, scanner, channel, told, request, crew>>

\* the deadline passes, or writePump has closed the socket
ReadFails ==
    /\ ~panicked /\ reader = "reading" /\ socket # "open"
    /\ reader' = "leaving"
    /\ UNCHANGED <<socket, writer, cancelled, hub, scanner, channel, told, request, crew>>

\* what is in the queue goes into one message
Write ==
    /\ ~panicked /\ writer = "writing" /\ queue # <<>> /\ socket # "closed"
    /\ queue' = <<>>
    /\ told' = IF socket = "open"
               THEN told \cup {m \in {queue[i] : i \in DOMAIN queue} : m.what # "code"} ELSE told
    /\ UNCHANGED <<socket, pumps, cancelled, registered, closed, panicked, scanner,
                   channel, request, crew>>

\* writing or a ping fails, or the queue is closed and empty
WriteEnds ==
    /\ ~panicked /\ writer = "writing"
    /\ socket # "open" \/ (closed /\ queue = <<>>)
    /\ writer' = "gone" /\ socket' = "closed"
    /\ UNCHANGED <<reader, cancelled, hub, scanner, channel, told, request, crew>>

-----------------------------------------------------------------------------
(* A scanner: QrCodeScanner, SignInWithQRCode and GetWhatsAppQRChannel.    *)

Outside == UNCHANGED <<socket, pumps, cancelled, told, request, crew>>

GetConnection(s) ==
    /\ At(s, "connection")
    /\ \/ Go(s, "channel") /\ encoder' = Put(encoder, s, "waiting")
       \/ Return(s, "other") /\ UNCHANGED encoder
    /\ Outside /\ UNCHANGED <<hub, codes, giver>>

\* an error of the network may have "time" in its text
Connect(s) ==
    /\ At(s, "channel")
    /\ Go(s, "codes") \/ \E err \in {"time", "other"} : Return(s, err)
    /\ Outside /\ UNCHANGED <<hub, channel>>

ReceiveCode(s) ==
    /\ At(s, "codes") /\ codes[s] < MaxCodes[s]
    /\ codes' = Put(codes, s, codes[s] + 1) /\ Go(s, "handing")
    /\ Outside /\ UNCHANGED <<hub, encoder, giver>>

\* dispatchQRTimeoutEvent: the pairing of a page has no token, hence no handler
ReceiveTimeout(s) ==
    /\ At(s, "codes") /\ Return(s, "timeout")
    /\ Outside /\ UNCHANGED <<hub, channel>>

ReceiveOther_NoDone(s) ==
    /\ At(s, "codes") /\ Go(s, "stuck")
    /\ Outside /\ UNCHANGED <<hub, channel>>

\* a success, or an error of another kind: both complete
ReceiveOther(s) ==
    /\ At(s, "codes") /\ Return(s, "none")
    /\ Outside /\ UNCHANGED <<hub, channel>>

\* the channel of a cancelled context closes without an event, and the
\* scanner waits on a wait group that nobody is going to be done with
ReceiveNothing(s) ==
    /\ At(s, "codes") /\ cancelled /\ Go(s, "stuck")
    /\ Outside /\ UNCHANGED <<hub, channel>>

Hand(s) ==
    /\ At(s, "handing") /\ encoder[s] = "waiting"
    /\ encoder' = Put(encoder, s, "code") /\ Go(s, "codes")
    /\ Outside /\ UNCHANGED <<hub, codes, giver>>

\* QrCodeScanner ends: an error without "time" is only logged
Answers(err) ==
    IF err \in {"timeout", "time"} THEN {"timeout"}
    ELSE IF err = "none" THEN {"complete"} ELSE {}

Answer(s) ==
    LET answers == Answers(scanner[s].err) IN
    /\ At(s, "answer") /\ Go(s, "done")
    /\ IF answers = {} THEN UNCHANGED hub
       ELSE \E what \in answers : Broadcast([from |-> s, what |-> what])
    /\ Outside /\ UNCHANGED channel

(* The goroutine that encodes: the channel it takes from is closed when    *)
(* the scanner returns, the one it gives to when it is done; to give then  *)
(* fails, which ends it.  A code that cannot be encoded ends it too, and   *)
(* leaves nobody to take the next one.                                     *)
EncodeFails(s) ==
    /\ ~panicked /\ encoder[s] = "code"
    /\ encoder' = Put(encoder, s, "gone")
    /\ Outside /\ UNCHANGED <<hub, codes, giver, scanner>>

TryUpdateHttpChannel(s) ==
    /\ ~panicked /\ encoder[s] = "code"
    /\ \/ /\ scanner[s].at = "done"
          /\ encoder' = Put(encoder, s, "gone") /\ UNCHANGED giver
       \/ /\ scanner[s].at # "done" /\ giver[s] = "waiting"
          /\ encoder' = Put(encoder, s, "waiting") /\ giver' = Put(giver, s, "code")
    /\ Outside /\ UNCHANGED <<hub, codes, scanner>>

EncoderEnds(s) ==
    /\ ~panicked /\ encoder[s] = "waiting" /\ scanner[s].at \in {"answer", "done"}
    /\ encoder' = Put(encoder, s, "gone")
    /\ Outside /\ UNCHANGED <<hub, codes, giver, scanner>>

\* the goroutine that gives the codes to the hub
Give(s) ==
    /\ ~panicked /\ giver[s] = "code"
    /\ giver' = Put(giver, s, "waiting")
    /\ Broadcast([from |-> s, what |-> "code"])
    /\ Outside /\ UNCHANGED <<codes, encoder, scanner>>

GiverEnds(s) ==
    /\ ~panicked /\ giver[s] = "waiting" /\ scanner[s].at = "done"
    /\ giver' = Put(giver, s, "gone")
    /\ Outside /\ UNCHANGED <<hub, codes, encoder, scanner>>

-----------------------------------------------------------------------------
(* Requests of the API, which know the bot and tell it: the handler of the *)
(* bot is given a request and, if it fails, a timeout.                     *)

Page == <<socket, pumps, cancelled, hub, scanner, channel, told, crew>>
Asks(r, at, events) == request' = [request EXCEPT ![r] = [at |-> at, events |-> @.events \cup events]]

GetWhatsAppQRCode(r) ==
    /\ r \in crew /\ request[r].at = "none" /\ Asks(r, "qr", {"qr_request"}) /\ UNCHANGED Page

\* the first event of the channel: a code, a timeout, or another; an empty
\* code cannot be encoded
QRCodeAnswer(r) ==
    /\ request[r].at = "qr"
    /\ Asks(r, "code", {}) \/ Asks(r, "failed", {}) \/ Asks(r, "failed", {"qr_timeout"})
    /\ UNCHANGED Page

PairPhone(r) ==
    /\ r \in crew /\ request[r].at = "none" /\ Asks(r, "phone", {"pair_request"}) /\ UNCHANGED Page

\* not connected, or paired with an error
PairPhoneAnswer(r) ==
    /\ request[r].at = "phone"
    /\ Asks(r, "code", {}) \/ Asks(r, "failed", {}) \/ Asks(r, "failed", {"pair_timeout"})
    /\ UNCHANGED Page

-----------------------------------------------------------------------------
Receive(s) == ReceiveCode(s) \/ ReceiveTimeout(s) \/ ReceiveOther(s) \/ ReceiveNothing(s)
Scan(s) == GetConnection(s) \/ Connect(s) \/ Receive(s) \/ Hand(s) \/ Answer(s)
Encode(s) == TryUpdateHttpChannel(s) \/ EncodeFails(s) \/ EncoderEnds(s)
ToHub(s) == Give(s) \/ GiverEnds(s)
Respond(r) == QRCodeAnswer(r) \/ PairPhoneAnswer(r)
Read == ReadFails \/ Unregister
WritePump == Write \/ WriteEnds

PageNext ==
    \/ \E s \in Scanners : ReadStart(s) \/ Scan(s) \/ Encode(s) \/ ToHub(s)
    \/ ReadClose \/ Vanish \/ Read \/ WritePump
    \/ \E r \in Requests : GetWhatsAppQRCode(r) \/ PairPhone(r) \/ Respond(r)

PageSpec == PageInit /\ [][PageNext]_pageVars

(* Goroutines run, WhatsApp's codes run out, deadlines pass.  The page may *)
(* do nothing.                                                             *)
FairPageSpec ==
    /\ PageSpec
    /\ \A s \in Scanners :
          WF_pageVars(Scan(s)) /\ WF_pageVars(Encode(s)) /\ WF_pageVars(ToHub(s))
    /\ WF_pageVars(Read) /\ WF_pageVars(WritePump)
    /\ \A r \in Requests : WF_pageVars(Respond(r))

-----------------------------------------------------------------------------
(* Hub.run (form_websocket_hub.go:28) closes the channel of the page once  *)
(* and never writes to it afterwards, whoever gives the page up: the hub   *)
(* itself, because it is full, or readPump.                                *)
HubNeverPanics == ~panicked

(* The scanner has a code and nobody is left to take it: TryUpdateChannel  *)
(* (whatsmeow_connection.go:778) never returns, even if the page closes.   *)
Abandoned(s) == scanner[s].at = "handing" /\ encoder[s] = "gone"

(* GetWhatsAppQRChannel (whatsmeow_connection.go:755) returns, and so do   *)
(* its goroutines, unless the page was closed, or the encoder gave up a    *)
(* code and another one came.                                              *)
ScannersEnd ==
    \A s \in Scanners : scanner[s].at # "idle" ~>
        \/ cancelled \/ Abandoned(s)
        \/ scanner[s].at = "done" /\ giver[s] = "gone" /\ encoder[s] \in {"none", "gone"}

(* Without that exemption: one code that cannot be encoded                 *)
(* (qp_whatsapp_extensions.go:52) leaves a scanner waiting for good.       *)
ScannersAlwaysEnd ==
    \A s \in Scanners : scanner[s].at # "idle" ~> cancelled \/ scanner[s].at = "done"

(* QrCodeScanner (form_websocket_client.go:91): a page that is there is    *)
(* told that its scanner has timed out or is complete.                     *)
PageIsTold ==
    \A s \in Scanners :
        scanner[s].at = "answer" /\ scanner[s].err # "other" ~>
            (\E m \in told : m.from = s) \/ socket # "open"

=============================================================================
