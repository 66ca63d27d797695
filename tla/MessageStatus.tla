---------------------------- MODULE MessageStatus ----------------------------
(***************************************************************************)
(* The delivery status of the messages.  Every receipt event runs in a     *)
(* goroutine of its own (WhatsmeowHandlers.Receipt,                        *)
(* src/src/whatsmeow/whatsmeow_handlers.go) and calls MessageStatusUpdate  *)
(* (src/src/models/qp_whatsapp_messages.go), which reads, compares and     *)
(* writes without a lock.  A status is its Uint32: 0 unknown, 1 error,     *)
(* 2 imported, 3 delivered, 4 read.                                        *)
(***************************************************************************)
EXTENDS Naturals, FiniteSets

CONSTANTS
    Messages,
    NoMessage,      \* none of them
    Receipts        \* the receipt events, one goroutine each

Status == 0..4
Read == 4

ReceiptTypes == {"delivered", "retry", "server-error", "read", "played",
                 "sender"}

\* GetWhatsappMessageStatus
StatusOf(type) ==
    CASE type = "delivered"                 -> 3
      [] type \in {"retry", "server-error"} -> 1
      [] type \in {"read", "played"}        -> Read
      [] OTHER                              -> 0

VARIABLES
    cached,         \* the messages in the message cache
    msgStatus,      \* the Status field of a cached message
    status,         \* the cache of statuses
    pc, current,    \* of each receipt: where it is, and its status
    todo,           \* the ids it has still to update
    msg,            \* the id it is updating
    reported,       \* the read receipts dispatched for each message
    overlapped,     \* messages two receipts were updating at one time
    highest         \* the highest status any receipt gave to a message

vars == <<cached, msgStatus, status, pc, current, todo, msg, reported,
          overlapped, highest>>

TypeOK ==
    /\ cached \subseteq Messages
    /\ msgStatus \in [Messages -> Status] /\ status \in [Messages -> Status]
    /\ pc \in [Receipts -> {"new", "next", "set", "mark", "done"}]
    /\ current \in [Receipts -> Status]
    /\ todo \in [Receipts -> SUBSET Messages]
    /\ \A r \in Receipts : todo[r] # {} => current[r] > 0
    /\ msg \in [Receipts -> Messages \cup {NoMessage}]
    /\ reported \in [Messages -> 0..Cardinality(Receipts)]
    /\ overlapped \subseteq Messages
    /\ highest \in [Messages -> Status]

Init ==
    /\ cached = {}
    /\ msgStatus = [m \in Messages |-> 0]
    /\ status = [m \in Messages |-> 0]
    /\ pc = [r \in Receipts |-> "new"]
    /\ current = [r \in Receipts |-> 0]
    /\ todo = [r \in Receipts |-> {}]
    /\ msg = [r \in Receipts |-> NoMessage]
    /\ reported = [m \in Messages |-> 0]
    /\ overlapped = {}
    /\ highest = [m \in Messages |-> 0]

Goto(r, l) == pc' = [pc EXCEPT ![r] = l]

\* r is between the reading of the status of m and the end of its update
Updating(r, m) == pc[r] \in {"set", "mark"} /\ msg[r] = m

-----------------------------------------------------------------------------
\* QpWhatsappMessages.Append: a new message under its id, the Status field of
\* which is not filled in
MessageCached(m) ==
    /\ cached' = cached \cup {m}
    /\ msgStatus' = [msgStatus EXCEPT ![m] = 0]
    /\ UNCHANGED <<status, pc, current, todo, msg, reported, overlapped,
                   highest>>

\* the cache evicts messages, or they expire
MessagesLeave ==
    /\ cached' \in SUBSET cached
    /\ UNCHANGED <<msgStatus, status, pc, current, todo, msg, reported,
                   overlapped, highest>>

\* a receipt event for some ids; an unknown status is above nothing, so that
\* its ids do not even get into the map of the updates
ReceiptArrives(r, type, ids) ==
    /\ pc[r] = "new"
    /\ current' = [current EXCEPT ![r] = StatusOf(type)]
    /\ todo' = [todo EXCEPT ![r] = IF StatusOf(type) > 0 THEN ids ELSE {}]
    /\ Goto(r, "next")
    /\ UNCHANGED <<cached, msgStatus, status, msg, reported, overlapped,
                   highest>>

\* as if an equal status counted as an update
Raises_OrRepeats(r, m) == status[m] <= current[r]

\* as if only the first status of a message counted
Raises_FromUnknown(r, m) == status[m] = 0

\* the reading and the comparison of MessageStatusUpdate
Raises(r, m) == status[m] < current[r]

Check(r, m) ==
    /\ pc[r] = "next" /\ m \in todo[r]
    /\ todo' = [todo EXCEPT ![r] = @ \ {m}]
    /\ msg' = [msg EXCEPT ![r] = m]
    /\ highest' = [highest EXCEPT ![m] =
                      IF @ < current[r] THEN current[r] ELSE @]
    /\ overlapped' = IF \E q \in Receipts \ {r} : Updating(q, m)
                       THEN overlapped \cup {m} ELSE overlapped
    /\ IF Raises(r, m) THEN Goto(r, "set") ELSE UNCHANGED pc
    /\ UNCHANGED <<cached, msgStatus, status, current, reported>>

\* SetStatusById
SetStatus(r) ==
    /\ pc[r] = "set"
    /\ status' = [status EXCEPT ![msg[r]] = current[r]]
    /\ Goto(r, "mark")
    /\ UNCHANGED <<cached, msgStatus, current, todo, msg, reported,
                   overlapped, highest>>

\* msg.Status, if the message is cached; a read receipt is then dispatched
MarkMessage(r) ==
    /\ pc[r] = "mark"
    /\ msgStatus' = IF msg[r] \in cached
                      THEN [msgStatus EXCEPT ![msg[r]] = current[r]]
                      ELSE msgStatus
    /\ reported' = IF current[r] = Read
                     THEN [reported EXCEPT ![msg[r]] = @ + 1] ELSE reported
    /\ Goto(r, "next")
    /\ UNCHANGED <<cached, status, current, todo, msg, overlapped, highest>>

ReceiptDone(r) ==
    /\ pc[r] = "next" /\ todo[r] = {}
    /\ Goto(r, "done")
    /\ UNCHANGED <<cached, msgStatus, status, current, todo, msg, reported,
                   overlapped, highest>>

Next ==
    \/ \E m \in Messages : MessageCached(m)
    \/ MessagesLeave
    \/ \E r \in Receipts :
          \/ \E type \in ReceiptTypes, ids \in SUBSET Messages \ {{}} :
                ReceiptArrives(r, type, ids)
          \/ \E m \in Messages : Check(r, m)
          \/ SetStatus(r) \/ MarkMessage(r) \/ ReceiptDone(r)

Spec == Init /\ [][Next]_vars

-----------------------------------------------------------------------------
Settled(m) == \A r \in Receipts : ~Updating(r, m)

(***************************************************************************)
(* A message somebody has read is reported as read at least once, however  *)
(* its receipts interleave: the receipt that finds the status already      *)
(* there leaves the report to the one that wrote it.                       *)
(***************************************************************************)
ReadIsReported ==
    \A m \in Messages :
        Settled(m) /\ highest[m] = Read => reported[m] > 0

(***************************************************************************)
(* The unlocked MessageStatusUpdate goes wrong only when two receipts of   *)
(* one message are handled at the same time: otherwise its status is the   *)
(* highest received, it is reported as read at most once, and the message  *)
(* shows no other status than the cache of statuses.                       *)
(***************************************************************************)
ExactUnlessOverlapped ==
    \A m \in Messages \ overlapped : Settled(m) =>
        /\ status[m] = highest[m]
        /\ reported[m] <= 1
        /\ msgStatus[m] \in 0..status[m]

=============================================================================
