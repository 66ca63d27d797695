------------------------------ MODULE Messages ------------------------------
(***************************************************************************)
(* The messages of a bot: the goroutines that cache what is delivered      *)
(* (MessageCache) and those of the receipts (MessageStatus) at work on one *)
(* QpWhatsappMessages (src/src/models/qp_whatsapp_messages.go).  A receipt *)
(* looks the message up, and thereby deletes it if it has expired.         *)
(***************************************************************************)
EXTENDS MessageCache

CONSTANTS
    Receipts,       \* the goroutines that handle a receipt
    Scenes          \* bounds: what happens together, see scene

ASSUME MessagesAssumption ==
    /\ Receipts \subseteq Procs
    /\ \A s \in Scenes : /\ s.senders \subseteq Procs \ Receipts
                         /\ s.receipts \subseteq Receipts
                         /\ s.ids \subseteq Ids /\ s.contents \subseteq Contents

VARIABLES
    msgStatus, status, place, current, todo, msg, reported, overlapped,
    highest,        \* see MessageStatus, place is its pc
    scene           \* who takes part: senders, receipts, ids and contents; appends
                    \* and days

receiptVars == <<msgStatus, status, place, current, todo, msg, reported,
                 overlapped, highest>>

allVars == <<vars, receiptVars, scene>>

\* what GetById finds
Fresh == {i \in Cached : now < cacheMap[i].expiration}

Receipt == INSTANCE MessageStatus
               WITH Messages <- Ids, NoMessage <- NoId, cached <- Fresh,
                    pc <- place

InitMessages == Init /\ Receipt!Init /\ scene \in Scenes

\* appendMsgToCache: the new message takes the place of the one with its id
Deliver(p, i, c) ==
    /\ appends < scene.appends
    /\ Append_(p, i, c)
    /\ Receipt!MessageCached(i)

\* the cache at work, for a sender or a receipt
Tidy(p) ==
    /\ \/ CountNew(p) \/ LoadLength(p) \/ Snapshot(p) \/ Evict(p)
       \/ EndCleanUp(p) \/ DeleteExpired(p) \/ Uncount(p)
    /\ Receipt!MessagesLeave

\* GetById on behalf of a request
LookUp(p, i) == FindExpired(p, i) /\ Receipt!MessagesLeave

\* a receipt, up to the status in the cache of statuses
Receive(r) ==
    /\ pc[r] = "idle"
    /\ UNCHANGED vars
    /\ \/ \E type \in Receipt!ReceiptTypes, ids \in SUBSET scene.ids \ {{}} :
              Receipt!ReceiptArrives(r, type, ids)
       \/ \E i \in Ids : Receipt!Check(r, i)
       \/ Receipt!SetStatus(r)
       \/ Receipt!ReceiptDone(r)

\* the end of MessageStatusUpdate: GetById finds the message, or that it has
\* expired, or nothing
Mark(r) ==
    /\ pc[r] = "idle"
    /\ IF msg[r] \in Cached \ Fresh THEN FindExpired(r, msg[r])
                                    ELSE UNCHANGED vars
    /\ Receipt!MarkMessage(r)

Expire == now < scene.days /\ DayPasses /\ Receipt!MessagesLeave

NextMessages ==
    /\ \/ \E p \in scene.senders :
              \/ \E i \in scene.ids, c \in scene.contents : Deliver(p, i, c)
              \/ \E i \in scene.ids : LookUp(p, i)
       \/ \E p \in scene.senders \cup scene.receipts : Tidy(p)
       \/ \E r \in scene.receipts : Receive(r) \/ Mark(r)
       \/ Expire
    /\ UNCHANGED scene

SpecMessages == InitMessages /\ [][NextMessages]_allVars

-----------------------------------------------------------------------------
(***************************************************************************)
(* A message somebody has read is reported as read at least once, however  *)
(* its receipts interleave with each other, with a second delivery of the  *)
(* message and with its eviction: the receipt that finds the status        *)
(* already there leaves the report to the one that wrote it                *)
(* (MessageStatusUpdate, WhatsmeowHandlers.Receipt).                       *)
(***************************************************************************)
ReadIsReported == Receipt!ReadIsReported

(***************************************************************************)
(* The unlocked MessageStatusUpdate goes wrong only when two receipts of   *)
(* one message are handled at the same time: otherwise its status is the   *)
(* highest received, it is reported as read at most once, and the message, *)
(* delivered once more or not, shows no status above that one.             *)
(***************************************************************************)
ExactUnlessOverlapped == Receipt!ExactUnlessOverlapped

=============================================================================
